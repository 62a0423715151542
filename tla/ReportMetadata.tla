---------------------------- MODULE ReportMetadata ----------------------------
(***************************************************************************)
(* The text of a bug report: what its reporter wrote, a row of hyphens, and *)
(* what the client knows under headers.  util/cleanup.py takes the two      *)
(* apart and util/metadata_standardizer.py gives the fields their names.    *)
(*                                                                         *)
(* A line is a record.  Its kind is "hyphens", "blank", "single" or "multi" *)
(* for a header that holds one value or any number of pairs, "pair" for a   *)
(* key, a colon and a value, "unrecorded" for a session without a URL,      *)
(* "client" for what a client adds, or "words".  Its value is what follows  *)
(* the colon or, without one, the line itself.                              *)
(***************************************************************************)
EXTENDS Naturals, Sequences, FiniteSets, SequencesExt, FiniteSetsExt, TLC

CONSTANTS
  Containing,  \* [word -> names of fields that contain it]
  Reads,       \* [word -> its expressions in their order: value -> what is read]
  IosVersion,  \* [version without "iOS" in front -> the same with it]
  Aliases      \* metatdata_field_aliases: [field -> names in order of preference]

Missing == "none"     \* no value
Unknown == "??"       \* a course of a language that LangCodeMap does not have

-----------------------------------------------------------------------------
IsHeader(line) == line.kind \in {"single", "multi"}
Headers(lines) == {n \in DOMAIN lines : IsHeader(lines[n])}

(* Without headers, or with one that is there twice, there is no metadata,  *)
(* and a header without the line of its value ends it all (IndexError).     *)
HasMetadata(lines) ==
  /\ Headers(lines) # {}
  /\ \A m, n \in Headers(lines) : lines[m] = lines[n] => m = n
Raises(lines) ==
  HasMetadata(lines) /\ lines[Len(lines)].kind = "single"

(* The pairs of a header go on to the next header, row of hyphens or line   *)
(* without a colon.                                                         *)
Ends(header, line) ==
  \/ IsHeader(line)
  \/ line.kind \in {"hyphens", "words", "client"}
  \/ line.kind = "unrecorded" /\ header.name # "fullstory"
DataEnd(lines, h) ==
  Min({n \in h + 1 .. Len(lines) : Ends(lines[h], lines[n])} \cup {Len(lines) + 1})

FieldsUnder(lines, h) ==
  IF lines[h].kind = "single" THEN <<[key |-> lines[h].name, value |-> lines[h + 1].value]>>
  ELSE LET data == SelectSeq(SubSeq(lines, h + 1, DataEnd(lines, h) - 1),
                             LAMBDA line : line.kind # "blank")
       IN [n \in DOMAIN data |->
             IF data[n].kind = "unrecorded" THEN [key |-> "fullstory", value |-> data[n].value]
             ELSE [key |-> data[n].key, value |-> data[n].value]]

(* Two headers may have one name, but for upper case: the later one counts, *)
(* in the place of the first.                                               *)
Extracted(lines) ==
  LET first == SetToSortSeq({h \in Headers(lines) : \A g \in Headers(lines) :
                               lines[g].name = lines[h].name => h <= g}, <)
      last(h) == Max({g \in Headers(lines) : lines[g].name = lines[h].name})
  IN FlattenSeq([n \in DOMAIN first |-> FieldsUnder(lines, last(first[n]))])

(* The line of the first header; a header on the very first line counts as  *)
(* none, when there are others.                                             *)
FirstHeader(lines) ==
  LET others == Headers(lines) \ {1} IN IF others = {} THEN 1 ELSE Min(others)

(* The last line of the pairs of the last header that has pairs, with the   *)
(* header or the row of hyphens that ended them.                            *)
LastData(lines) ==
  LET multi == {h \in Headers(lines) : lines[h].kind = "multi" /\ h < Len(lines)}
      h == Max(multi)
      end == DataEnd(lines, h)
  IN IF multi = {} THEN 1
     ELSE IF end > Len(lines) \/ IsHeader(lines[end]) \/ lines[end].kind = "hyphens"
            THEN Min({end, Len(lines)})
            ELSE end - 1

(* The row of hyphens above the first header.                               *)
Rule(lines) ==
  Max({n \in 1 .. FirstHeader(lines) - 1 : lines[n].kind = "hyphens"} \cup {0})

(* extract_duolingo_metadata_and_body: what is above the row of hyphens and *)
(* what is below the last pair, less what filter_lines drops.               *)
BodyLines(lines) ==
  IF HasMetadata(lines)
  THEN 1 .. Rule(lines) - 1 \cup LastData(lines) + 1 .. Len(lines)
  ELSE DOMAIN lines

Body(lines) ==
  LET dropped == IF HasMetadata(lines) THEN {"blank", "hyphens", "client"} ELSE {}
      kept == SetToSortSeq({n \in BodyLines(lines) : lines[n].kind \notin dropped}, <)
  IN [n \in DOMAIN kept |-> lines[kept[n]]]

Metadata(lines) == IF HasMetadata(lines) THEN Extracted(lines) ELSE <<>>

-----------------------------------------------------------------------------
(* flatten_input_metadata: the names of the fields in the order of their    *)
(* first occurrence, and the last value of each.                            *)
Names(fields) ==
  LET firsts == {n \in DOMAIN fields : \A m \in 1 .. n - 1 : fields[m].key # fields[n].key}
      order == SetToSortSeq(firsts, <)
  IN [n \in DOMAIN order |-> fields[order[n]].key]

Flat(fields) ==
  [name \in {fields[n].key : n \in DOMAIN fields} |->
     fields[Max({n \in DOMAIN fields : fields[n].key = name})].value]

FieldsWith(word, fields) == SelectSeq(Names(fields), LAMBDA name : name \in Containing[word])

(* _try_ordered_regular_expressions: an earlier expression comes before a   *)
(* later one, and in it the fields in their order.                          *)
FirstMatch(flat, names, expressions) ==
  LET hits == {<<e, f>> \in (DOMAIN expressions) \X (DOMAIN names) :
                 flat[names[f]] \in DOMAIN expressions[e]}
      first == CHOOSE hit \in hits : \A other \in hits :
                 hit[1] < other[1] \/ (hit[1] = other[1] /\ hit[2] <= other[2])
  IN IF hits = {} THEN Missing ELSE expressions[first[1]][flat[names[first[2]]]]

FirstOf(flat, names) ==
  LET there == {n \in DOMAIN names : names[n] \in DOMAIN flat}
  IN IF there = {} THEN Missing ELSE flat[names[Min(there)]]

AppVersion(flat, names) ==
  IF "app_version" \in DOMAIN flat THEN flat["app_version"]
  ELSE IF Len(names) = 1 THEN flat[names[1]] ELSE Missing

Course(flat, names) ==
  LET course == FirstMatch(flat, names, Reads["course"])
  IN IF course = Unknown THEN Missing ELSE course

Fullstory(flat, names) ==
  FirstMatch(flat, names \o (IF "session_url" \in DOMAIN flat THEN <<"session_url">> ELSE <<>>),
             Reads["fullstory"])

OsVersion(flat) ==
  LET version == FirstOf(flat, <<"ios_version", "os_version", "os">>)
  IN IF "ios_version" \in DOMAIN flat /\ version \in DOMAIN IosVersion
     THEN IosVersion[version] ELSE version

(* What is known from elsewhere comes first.                                *)
Platform(flat, told) ==
  IF told # Missing THEN told
  ELSE IF "browser" \in DOMAIN flat THEN "Web"
  ELSE IF "ios_version" \in DOMAIN flat THEN "iOS"
  ELSE IF "api_level" \in DOMAIN flat THEN "Android"
  ELSE IF FirstOf(flat, <<"platform">>) \in {"Android", "iOS", "Web"} THEN flat["platform"]
  ELSE Missing

ScreenContent(flat, platform) ==
  FirstOf(flat, CASE platform = "Web" -> <<"url">>
                  [] platform = "iOS" -> <<"view_controller_name">>
                  [] platform = "Android" -> <<"activity">>
                  [] OTHER -> <<>>)

(* get_standardized_metadata.                                               *)
Standardized(fields, told) ==
  LET flat == Flat(fields)
      names(word) == FieldsWith(word, fields)
      platform == Platform(flat, told)
      all == "app_version" :> AppVersion(flat, names("app_version"))
             @@ "course" :> Course(flat, names("course"))
             @@ "fullstory_url" :> Fullstory(flat, names("fullstory"))
             @@ "os_version" :> OsVersion(flat)
             @@ "platform" :> platform
             @@ "screen_size" :> FirstMatch(flat, names("screen"), Reads["screen"])
             @@ "screen_content" :> ScreenContent(flat, platform)
             @@ "ui_language" :> FirstMatch(flat, names("language"), Reads["language"])
             @@ "username" :> FirstOf(flat, <<"username">>)
             @@ "user_id" :> FirstOf(flat, <<"id">>)
             @@ [field \in DOMAIN Aliases |-> FirstOf(flat, Aliases[field])]
  IN [field \in {f \in DOMAIN all : all[f] # Missing} |-> all[field]]

-----------------------------------------------------------------------------
(* Nothing that a reporter wrote above the row of hyphens or below the last *)
(* pairs is lost from the body, and nothing that was taken for a field is   *)
(* left in it, if the last header is one with pairs, has a line below it,   *)
(* and none is on the first line (extract_duolingo_metadata_and_body).      *)
SplitIsClean(lines) ==
  HasMetadata(lines) /\ ~Raises(lines) =>
    LET multi == {h \in Headers(lines) : lines[h].kind = "multi"}
        last == Max(multi \cup {0})
        taken == UNION {h .. (IF lines[h].kind = "multi" THEN DataEnd(lines, h) - 1 ELSE h + 1) :
                          h \in Headers(lines)}
    IN /\ \A n \in DOMAIN lines :
            lines[n].kind = "words" /\ (n < Rule(lines) \/ (last > 0 /\ n > last))
              => n \in BodyLines(lines)
       /\ last = Max(Headers(lines)) /\ last # Len(lines) /\ ~IsHeader(lines[1])
            => taken \cap BodyLines(lines) = {}

(* The order in which a client lists its fields does not matter, unless two *)
(* of them are read by one expression, and differently                      *)
(* (_try_ordered_regular_expressions, get_standardized_metadata).           *)
OrderDoesNotMatter(fields, told) ==
  LET flat == Flat(fields)
      ambiguous(word) ==
        \E e \in DOMAIN Reads[word] : \E f, g \in DOMAIN flat \cap (Containing[word] \cup {"session_url"}) :
          /\ {flat[f], flat[g]} \subseteq DOMAIN Reads[word][e]
          /\ Reads[word][e][flat[f]] # Reads[word][e][flat[g]]
  IN Cardinality(DOMAIN flat) = Len(fields) /\ (\A word \in DOMAIN Reads : ~ambiguous(word))
       => Standardized(Reverse(fields), told) = Standardized(fields, told)
=============================================================================
