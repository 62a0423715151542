------------------------------ MODULE MCServices ------------------------------
(***************************************************************************)
(* Small instances of the services and of those beside them, and modules    *)
(* without variables, for which v1, v2, ... hold an input and what is       *)
(* computed from it.                                                        *)
(***************************************************************************)
EXTENDS Detection, TLC

-----------------------------------------------------------------------------
(* Bug reports of three types, one of them for Slack alone, with all kinds  *)
(* of files or none.                                                        *)
TypeChannels == "Content" :> "language" @@ "Design" :> "design" @@ "Request" :> "product"
FeatureChannels == "Design quality" :> "design"
AreaChannels == "Achievements" :> "growth"
ReportInputs == {r \in Report!Reports :
  /\ r.files \in {{}, Report!Files} /\ r.client \in {"none", "unknown", "design", "language"}
  /\ r.project = "unknown" => r.client = "none"
  /\ r.reporter # "none" \/ r.files # {}}

(* Two reports on two threads, one of them with files; or a report whose    *)
(* log is uploaded later.  A log goes to Loki in three parts.               *)
ReportedFiles == 1 :> {"screenshot", "log"} @@ 2 :> {} @@ 3 :> {"screenshot"}
UploadedFiles == 1 :> {} @@ 2 :> {} @@ 3 :> {"log"}

(* Two requests about one spike and one about another, on two days.         *)
SpikeOf == 1 :> "a" @@ 2 :> "a" @@ 3 :> "b"

(* Two reports on four days, with windows of two days.                      *)
ReportTitles == <<"team", "area">>

(* Two searches for the same words, a document that matches is indexed at   *)
(* any time, and two entries of the cache expire; two documents of which    *)
(* one is updated.                                                          *)
Versions == 1 :> 2 @@ 2 :> 1

-----------------------------------------------------------------------------
(* Five tickets, two of one time, in pages of two.                          *)
TicketTimes == 1 :> 1 @@ 2 :> 2 @@ 3 :> 2 @@ 4 :> 3 @@ 5 :> 4

(* Four recent issues, one of them the new one and one without a text, and  *)
(* one that two pages hold, in batches of two.                              *)
RecentIssues == <<2, 1, 3, 4, 2, 5>>

-----------------------------------------------------------------------------
(* Four issues with any links between them, some of them parents, epics or  *)
(* closed as duplicates; the document of one may be older than a link.      *)
Keys == 1 .. 4
Edges == {e \in Keys \X Keys : e[1] < e[2]}
Docs(edges, parents, dupes, epics, unseen) ==
  [i \in Keys |-> [type |-> IF i \in epics THEN "Epic" ELSE "Bug",
                   linked |-> {j \in Keys : {<<i, j>>, <<j, i>>} \cap edges # {} /\ <<i, j>> \notin unseen},
                   clones |-> {}, parent |-> i \in parents, project |-> "A",
                   resolution |-> IF i \in dupes THEN "Duplicate" ELSE ""]]
SearchFor(kind, docs, hits, pages) ==
  [kind |-> kind, docs |-> docs, target |-> 1, count |-> 2, hits |-> hits, pages |-> pages]
Searches4 ==
  LET unseens == {{}, {<<4, 3>>}, {<<1, 2>>}}
      plain   == {Docs(e, p, {}, {}, u) : e \in SUBSET Edges, p \in SUBSET Keys, u \in unseens}
      bugs    == {Docs(e, {}, {}, k, u) : e \in SUBSET Edges, k \in {{}, {3}}, u \in unseens}
      any     == {Docs(e, p, d, k, u) : e \in SUBSET Edges, p \in SUBSET {1, 2, 3},
                                        d \in SUBSET {1, 2}, k \in {{}, {1}, {2, 3}}, u \in unseens}
  IN {SearchFor("find", docs, <<1, 2, 3, 4>>, <<1, 1, 1, 1>>) : docs \in plain}
     \cup {SearchFor("alike", docs, <<2, 3, 3, 4>>, <<1, 1, 2, 2>>) : docs \in bugs}
     \cup {SearchFor("resolve", docs, <<1, 2, 3>>, <<1, 1, 1>>) : docs \in any}

(* Two issues before and after, on either side of every border.             *)
QualityIssues ==
  {i \in [priority : {"High", "Unprioritized"}, acute : {FALSE}, days : {7, 8},
          resolution : {"", "Fixed", "Duplicate"}, duplicates : {0, 1}] :
     /\ i.days = 7 \/ Scores!IsFixed(i)
     /\ i.priority = "High" \/ i.duplicates = 0}
QualityInputs ==
  [{1, 2} -> QualityIssues \cup {NotScored}]

(* What is cut to a limit: documents for a prompt, in the order of their     *)
(* scores, some of them gone from the index; documents about a topic; lines *)
(* of a log; features; the worst issues.                                    *)
Topic == INSTANCE SentimentSearch WITH MaxRelated <- 3, MaxUnrelated <- 2
Log == INSTANCE LokiLog WITH BatchSize <- 2, LabelOf <- "id" :> "user_id" @@ "User ID" :> "user_id"
Suggest == INSTANCE SuggestedFeatures WITH
  Features <- {1, 2, 3}, Terms <- {"a", "a'", "b", "c"},
  FeatureOf <- "a" :> 1 @@ "a'" :> 1 @@ "b" :> 2 @@ "c" :> 3, Limit <- 2, ExtraLimit <- 1
Worst == INSTANCE IssueUpdates WITH MaxWorst <- 2
Rich == INSTANCE RichText

(* The course of a report may be under several names and written in two     *)
(* ways, the platform may be told by any of four fields.                    *)
Fields == INSTANCE ReportMetadata WITH
  Containing <- "app_version" :> {"app_version", "app_version_hash", "mega_app_version"}
                @@ "course" :> {"course", "current_course", "course_language"}
                @@ "fullstory" :> {"fullstory"} @@ "screen" :> {"screen"}
                @@ "language" :> {"ui_language", "course_language"},
  Reads <- "course" :> <<"DUOLINGO_KO_EN" :> "KO EN", "Korean <- English" :> "KO EN" @@ "Elvish <- English" :> "??">>
           @@ "fullstory" :> <<"URL" :> "URL" @@ "URL2" :> "URL2">>
           @@ "screen" :> <<"414 W x 896 H" :> "414x896", "414 x 896" :> "414x896">>
           @@ "language" :> <<"en-us" :> "en", "ko<-en" :> "en" @@ "en<-ko" :> "ko">>,
  IosVersion <- "13.6" :> "iOS 13.6",
  Aliases <- "challenge_id" :> <<"challenge_id", "challenge_generator_id">>

Length1 == [d \in 1 .. 8 |-> 1]
Lines == [time : 0 .. 2, said : BOOLEAN, printable : BOOLEAN]
LogOf(lines) ==
  [n \in DOMAIN lines |-> [time |-> lines[n].time, text |-> IF lines[n].said THEN <<n>> ELSE <<>>,
                          printable |-> lines[n].printable, dated |-> lines[n].time # 2]]
Mentions == [{"a", "a'", "b", "c"} -> 0 .. 2]
WorstIssues == [points : {10, 50}, duplicates : {0, 2, 3}, created : {0},
                changes : {<<1>>, <<3, 1>>}]

PromptInputs == [kind : {"prompt"}, index : SUBSET Keys, count : {2, 4},
                 length : [Keys -> {1, 3}], limit : 0 .. 5]
TopicInputs == [kind : {"topic"}, size : 0 .. 8, limit : 0 .. 8]
SentimentInputs ==
  [kind : {"sentiment"}, score : {f \in [1 .. 3 -> {83, 82, 80, 78, 49}] : f[1] >= f[2] /\ f[2] >= f[3]},
   embedded : {{1, 2, 3}, {1, 3}}, sentiment : [1 .. 3 -> {"positive", "negative", "neutral"}],
   period : {<<1, 2, 1>>}]
LogInputs == [kind : {"log"}, lines : UNION {[1 .. n -> Lines] : n \in 0 .. 3},
              platform : {"ios", "android"}]
             \cup [kind : {"log"}, lines : [1 .. 4 -> {line \in Lines : line.printable}],
                   platform : {"ios"}]
FeatureInputs == [kind : {"features"}, valid : {{1, 2, 3}, {1, 3}}, special : {{}, {2}, {3, 4}},
                  user : {t \in Mentions : t["a"] < 2}, generated : {t \in Mentions : t["a'"] = 0}]
WorstInputs == [kind : {"worst"}, issues : [1 .. 3 -> WorstIssues], since : {0, 1, 2}]

Items == {"a", "dash", "break"}
Blocks == {Rich!Other} \cup {Rich!Paragraph(items) : items \in UNION {[1 .. n -> Items] : n \in 0 .. 3}}
RichInputs == [kind : {"rich"}, content : UNION {[1 .. n -> Blocks] : n \in 0 .. 2}]

TextLines ==
  [kind : {"hyphens", "blank", "words", "client"}, value : {"line"}]
  \cup {[kind |-> "single", name |-> "view_controller_name", value |-> "header"]}
  \cup {[kind |-> "multi", name |-> name, value |-> name] : name \in {"fullstory", "system_information"}}
  \cup {[kind |-> "unrecorded", value |-> "No session recorded"],
        [kind |-> "pair", key |-> "ios_version", value |-> "13.6"]}
SplitInputs == [kind : {"split"}, lines : UNION {[1 .. n -> TextLines] : n \in 1 .. 4}
  \cup {<<[kind |-> "words", value |-> "line"], [kind |-> "hyphens", value |-> "line"]>> \o lines :
          lines \in [1 .. 4 -> TextLines]}]
FieldValues ==
  {[key |-> f[1], value |-> f[2]] : f \in
     {"course", "current_course"} \X {"DUOLINGO_KO_EN", "Korean <- English", "Elvish <- English"}
     \cup {"app_version_hash", "mega_app_version"} \X {"6.97"} \cup {"platform"} \X {"Web", "iPhone XR"}
     \cup {<<"app_version", "6.98">>, <<"course_language", "ko<-en">>, <<"ui_language", "en-us">>,
           <<"ios_version", "13.6">>, <<"browser", "x">>, <<"url", "x">>, <<"activity", "y">>,
           <<"fullstory", "URL">>, <<"session_url", "URL2">>, <<"os", "13.6">>}}
FieldInputs == [kind : {"fields"}, fields : UNION {[1 .. n -> FieldValues] : n \in 0 .. 3},
                told : {"none", "Web"}]

CutInputs == PromptInputs \cup TopicInputs \cup SentimentInputs \cup LogInputs
             \cup FeatureInputs \cup WorstInputs
             \cup RichInputs \cup SplitInputs \cup FieldInputs

Summary(n) == <<Rich!Paragraph(<<n>>), Rich!Paragraph(<<n>>)>>

(* The classifier may keep any of the candidates.                           *)
Cut(in) ==
  CASE in.kind = "prompt" ->
         {Topic!UnderContentLengthLimit(Topic!MultiGet(<<1, 2, 3, 4>>, in.index), in.length, in.limit)}
    [] in.kind = "topic" ->
         {Topic!Examples([n \in 1 .. in.size |-> n], Length1, in.limit, named) :
            named \in {{1, 2, 9}, {in.size}}}
    [] in.kind = "sentiment" ->
         {Topic!Search(<<1, 2, 3>>, in.score, in.embedded, kept, in.sentiment, in.period, in.score) :
            kept \in SUBSET {1, 2, 3}}
    [] in.kind = "log" ->
         LET entries == IF in.platform = "ios" THEN Log!ParseIos(LogOf(in.lines))
                        ELSE Log!ParseAndroid(LogOf(in.lines))
             labels == Log!Labels(in.platform, "DLAA-1", "title",
                         IF in.platform = "ios"
                         THEN Log!ExtractIos(<<[bullets |-> <<<<"id", 1>>, <<"User ID", 2>>>>]>>)
                         ELSE Log!ExtractAndroid(<<[marked |-> FALSE, split |-> <<"id", "1">>]>>))
         IN {Log!Parts(labels, entries)}
    [] in.kind = "features" ->
         {Suggest!SuggestedFeatures(in.user, in.generated, in.valid, in.special)}
    [] in.kind = "worst" -> {Worst!MaxPriority(in.issues) \o Worst!MaxDupesNoOverlap(in.issues)}
    [] in.kind = "rich" -> {Rich!InsertRichText(in.content, Summary("s1"))}
    [] in.kind = "split" ->
         IF Fields!Raises(in.lines) THEN {}
         ELSE {<<Fields!Body(in.lines), Fields!Standardized(Fields!Metadata(in.lines), "none")>>}
    [] in.kind = "fields" -> {Fields!Standardized(in.fields, in.told)}

(* A description of two categories: v1 is the text of the issue, v2 the last *)
(* summary and whether users were known, v3 the children counted so far.    *)
(* Value 4 is such as "1: beta", value 5 is "1: 7".                         *)
Parent == INSTANCE ParentDescription WITH
  Categories <- <<"A", "B">>, Sorted <- {"A"},
  Unreadable <- {4}, ReadAs <- 5 :> [value |-> 1, count |-> 7]

Summaries ==
  {<<>>, <<Parent!Text("a")>>, <<Parent!Text("a"), Parent!Blank, Parent!Text("b")>>,
   <<Parent!Text("b"), Parent!Entry(1, 3)>>, <<Parent!Blank, Parent!Text("a")>>}
LastTexts ==
  [text : Summaries, shared : {FALSE}] \cup [text : {<<>>, <<Parent!Text("a")>>}, shared : {TRUE}]
Children ==
  [{"A", "B"} -> {{1}, {2}}] \cup {[c \in {"A", "B"} |-> IF c = "A" THEN {3} ELSE more] :
                                     more \in {{}, {1, 3}}}
  \cup {[c \in {"A", "B"} |-> IF c = "A" THEN {v} ELSE {1}] : v \in {4, 5}}

ASSUME InstanceAssumptions ==
  /\ Parent!Assumptions /\ Topic!Assumptions /\ Log!Assumptions /\ Suggest!Assumptions

-----------------------------------------------------------------------------
McInit ==
  \/ Init /\ v1 = "" /\ v2 = "" /\ NoneAfter2
  \/ service = "vectors" /\ Init /\ v1 = "quiet" /\ v2 = "" /\ NoneAfter2
  \/ InitDetection
  \/ /\ NoService
     /\ \/ service = "cut" /\ v1 \in CutInputs /\ v2 = <<>> /\ NoneAfter2
        \/ /\ service = "parent" /\ v2 = [text |-> <<>>, shared |-> FALSE] /\ v3 = <<>>
           /\ v1 = Parent!Compress(Parent!Generate(<<>>, Parent!NoData))
           /\ NoneAfter3

NextCut == service = "cut" /\ v2 = <<>> /\ UNCHANGED <<vars, v1, From2>>
           /\ \E result \in Cut(v1) : v2' = <<result>>
NextParent ==
  /\ service = "parent" /\ Len(v3) < 3 /\ Parent!Parses(v1)
  /\ v2' \in LastTexts
  /\ \E new \in {<<>>} \cup {<<child>> : child \in Children} :
       v3' = v3 \o new /\ v1' = Parent!Rewritten(v1, new, v2'.text, v2'.shared)
  /\ UNCHANGED <<vars, From3>>

(* In quiet times no issue changes once it is there.                        *)
KeepsQuiet == v1 = "quiet" => \A d \in Documents : remote'[d] <= 1

McNext ==
  \/ Next /\ KeepsQuiet /\ UNCHANGED <<v1, v2, From2>>
  \/ NextDetection \/ NextCut \/ NextParent

McVars == <<vars, v1, v2, From2>>

(* What becomes of all documents in the end is asked of the small instance   *)
(* of the embeddings only.                                                  *)
Watched == service = "vectors" => v1 = "quiet"

FairSpec ==
  /\ McInit /\ [][McNext]_McVars
  /\ WF_McVars(Watched /\ Serving /\ UNCHANGED <<v1, v2, From2>>)
  /\ WF_McVars(Watched /\ Synchronizing /\ UNCHANGED <<v1, v2, From2>>)
  /\ WF_McVars(Watched /\ Indexing /\ UNCHANGED <<v1, v2, From2>>)
  /\ WF_McVars(Watched /\ HoursPass /\ UNCHANGED <<v1, v2, From2>>)
  /\ WF_McVars(service = "detector" /\ Detector!Detector /\ UNCHANGED vars)
-----------------------------------------------------------------------------
(* What is cut to a limit keeps what matters most and nothing is in it      *)
(* twice: the prompts of a search and of a topic, the series of sentiments, *)
(* the parts of a log, the suggested features and the worst issues; and     *)
(* what is taken apart or put together loses no words of a reporter: the    *)
(* fields of a report, the summary in its description                       *)
(* (get_max_docs_under_content_length_limit, verify_topic_using_gpt,        *)
(* aggregate_sentiment_data, parse_logs_ios, get_suggested_features,        *)
(* calculate_max_priority_issues, check_issue_updates,                      *)
(* extract_duolingo_metadata_and_body, get_standardized_metadata,           *)
(* insert_rich_text_into_description).                                      *)
CutsKeepWhatMatters ==
  service = "cut" /\ v2 # <<>> =>
    CASE v1.kind = "prompt" ->
           LET score == [d \in Keys |-> 100 - d]
           IN /\ Topic!NothingBetterLeftOut(<<1, 2, 3, 4>>, v1.index, score, v1.length, 97,
                                            v1.count, v1.limit)
              /\ Topic!SupportWasFound(<<4, 0, 1, 2>>, Topic!MultiGet(<<1, 2, 3, 4>>, v1.index), v1.count)
      [] v1.kind = "topic" ->
           Topic!AskedFromBothEnds([n \in 1 .. v1.size |-> n], Length1, v1.limit)
      [] v1.kind = "sentiment" -> Topic!BucketsCountResults(v2[1], v1.score)
      [] v1.kind = "log" -> v1.platform = "ios" => Log!IosLogIsWhole(LogOf(v1.lines))
      [] v1.kind = "features" ->
           Suggest!UsersWordComesFirst(v1.user, v1.generated, v1.valid, v1.special)
      [] v1.kind = "worst" ->
           /\ Worst!EveryUpdateCounts(v1.issues, <<1, 2>>, v1.since)
           /\ Worst!WorstAreNamed(v1.issues)
      [] v1.kind = "rich" ->
           /\ Rich!SummaryInPlace(v1.content, Summary("s1"))
           /\ Rich!SummariesStay(v1.content, Summary("s1"), Summary("s2"))
      [] v1.kind = "split" -> Fields!SplitIsClean(v1.lines)
      [] v1.kind = "fields" -> Fields!OrderDoesNotMatter(v1.fields, v1.told)

(* The text of a parent issue, rewritten again and again, keeps the counts  *)
(* of its children, unless a value can be taken for two, and besides them   *)
(* the last summary and the line about its users                            *)
(* (parse_parent_description, generate_parent_body_text_from_data).         *)
CountsSurvive ==
  service = "parent" =>
    Parent!CountsSurvive(v1, v3) /\ Parent!TextSurvives(v1, v2.text, v2.shared)

(* In the end every task of a bug report has run although tasks wait for    *)
(* each other on the threads they need, every request of a search is        *)
(* answered, and every document has its embedding (_create_ai_summary,      *)
(* wait_for_gpt_answer, ensure_embeddings_populated).                       *)
EverythingSettles ==
  <>[](CASE service = "tasks"    -> Tasks!Settled /\ Tasks!LokiGoesOn
         [] service = "gpt"      -> Gpt!AllAnswered
         [] service = "vectors"  -> Watched => Vectors!AllEmbedded
         [] service = "detector" -> Detector!Settled
         [] OTHER                -> TRUE)
=============================================================================
