------------------------------- MODULE BatchedAsk -------------------------------
(***************************************************************************)
(* GPT is asked which of the recent issues are duplicates of a new one      *)
(* (manager/gpt_duplicate_detector.py): one prompt for each issue, sent in  *)
(* batches, then polled for until all are answered                          *)
(* (AICompletionsDAL.batched_ask).                                          *)
(***************************************************************************)
EXTENDS Naturals, Sequences, FiniteSets, FiniteSetsExt, SequencesExt

CONSTANTS
  Issue,       \* the new issue
  Others,      \* the recent issues in the order found, of which pages may repeat some
  Unreadable,  \* those whose text cannot be made
  Duplicates,  \* those of which GPT says that they are duplicates
  BatchSize,   \* 200 prompts or hashes in a request
  MaxPolls,    \* bound on the polls: they stop after 15 minutes, at three seconds each
  MaxFaults    \* bound on failing requests

Assumptions ==
  /\ Others \in Seq(ToSet(Others))
  /\ Unreadable \subseteq ToSet(Others) /\ Duplicates \subseteq ToSet(Others)
  /\ BatchSize \in Nat \ {0} /\ MaxPolls \in Nat \ {0} /\ MaxFaults \in Nat

VARIABLES
  at,           \* where find_duplicates is
  hashes,       \* of the prompts that were sent; each stands for the issue it asks about
  finished,     \* what the service has answered, fetched or not
  completions,  \* what was fetched
  found,        \* [duplicates, rest, label]: what find_duplicates makes of it
  record        \* polls, faults, whether all was finished before the first poll

vars == <<at, hashes, finished, completions, found, record>>

First(s, n) == SubSeq(s, 1, Min({n, Len(s)}))
Rest(s, n) == SubSeq(s, Min({n, Len(s)}) + 1, Len(s))

(* The elements of a sequence that are in a set, in their order.            *)
Keep(s, set) ==
  LET places == {n \in DOMAIN s : s[n] \in set}
      order  == CHOOSE f \in [1 .. Cardinality(places) -> places] :
                  \A m, n \in DOMAIN f : m < n => f[m] < f[n]
  IN [k \in DOMAIN order |-> s[order[k]]]

(* find_duplicates: an issue is asked about unless it is the new one or has *)
(* no text.                                                                 *)
Messages == Keep(Others, ToSet(Others) \ (Unreadable \cup {Issue}))

(* A mistake: what has no text is noted before its text is missed.          *)
IssuesToTest_All == Keep(Others, ToSet(Others) \ {Issue})

IssuesToTest == Keep(Others, ToSet(Others) \ (Unreadable \cup {Issue}))

Nothing == [duplicates |-> <<>>, rest |-> <<>>, label |-> FALSE]

TypeOK ==
  /\ at \in {"send", "poll", "answered", "timeout", "failed", "done"}
  /\ IsPrefix(hashes, Messages)
  /\ completions \subseteq finished /\ finished \subseteq ToSet(hashes)
  /\ found \in [duplicates : Seq(ToSet(Others)), rest : Seq(ToSet(Others)), label : BOOLEAN]
  /\ record \in [polls : 0 .. MaxPolls, faults : 0 .. MaxFaults, early : BOOLEAN]

Init ==
  /\ at = "send" /\ hashes = <<>> /\ finished = {} /\ completions = {} /\ found = Nothing
  /\ record = [polls |-> 0, faults |-> 0, early |-> FALSE]

Raises ==
  /\ record.faults < MaxFaults
  /\ record' = [record EXCEPT !.faults = @ + 1]
  /\ at' = "failed"

-----------------------------------------------------------------------------
(* The prompts are sent a batch at a time; an error ends it all.            *)
Send ==
  /\ at = "send" /\ hashes # Messages
  /\ \/ /\ hashes' = hashes \o First(Rest(Messages, Len(hashes)), BatchSize)
        /\ UNCHANGED <<at, record>>
     \/ Raises /\ UNCHANGED hashes
  /\ UNCHANGED <<finished, completions, found>>

StartPolling ==
  /\ at = "send" /\ hashes = Messages
  /\ at' = "poll"
  /\ UNCHANGED <<hashes, finished, completions, found, record>>

Waiting == Keep(hashes, ToSet(hashes) \ completions)

(* Each round asks for the first ones that wait, until none does.           *)
Poll ==
  /\ at = "poll" /\ record.polls < MaxPolls
  /\ \/ /\ completions' = completions \cup (finished \cap ToSet(First(Waiting, BatchSize)))
        /\ at' = IF Waiting = <<>> THEN "answered" ELSE "poll"
        /\ record' = [record EXCEPT !.polls = @ + 1,
                                    !.early = @ \/ (record.polls = 0 /\ finished = ToSet(hashes))]
     \/ Waiting # <<>> /\ Raises /\ UNCHANGED completions
  /\ UNCHANGED <<hashes, finished, found>>

(* A round may take any time.  That all are fetched is not looked at first. *)
TimesOut ==
  /\ at = "poll" /\ record.polls > 0
  /\ at' = "timeout"
  /\ UNCHANGED <<hashes, finished, completions, found, record>>

(* The completions, in the order of the hashes, are put beside the issues;  *)
(* the label is set if there are duplicates, unless Jira fails.             *)
Judge ==
  LET judged(verdict) ==
        LET pairs  == 1 .. Min({Len(hashes), Len(IssuesToTest)})
            places == Keep([n \in pairs |-> n], {n \in pairs : (hashes[n] \in Duplicates) = verdict})
        IN [n \in DOMAIN places |-> IssuesToTest[places[n]]]
  IN /\ at = "answered"
     /\ at' = "done"
     /\ \E labelled \in BOOLEAN :
          /\ found' = [duplicates |-> judged(TRUE), rest |-> judged(FALSE), label |-> labelled]
          /\ \/ labelled = (judged(TRUE) # <<>>) /\ UNCHANGED record
             \/ /\ judged(TRUE) # <<>> /\ ~labelled /\ record.faults < MaxFaults
                /\ record' = [record EXCEPT !.faults = @ + 1]
     /\ UNCHANGED <<hashes, finished, completions>>

(* The service answers a prompt, also when nobody waits for it any more.    *)
Answer(h) ==
  /\ h \in ToSet(hashes) \ finished
  /\ finished' = finished \cup {h}
  /\ UNCHANGED <<at, hashes, completions, found, record>>

Detector == Send \/ StartPolling \/ Poll \/ TimesOut \/ Judge

Next == Detector \/ \E h \in ToSet(hashes) : Answer(h)

-----------------------------------------------------------------------------
(* generate_duplicates_rich_text: a link that marks all of them and creates *)
(* a parent, one for each that marks it alone, and the reasons.             *)
DuplicatesRichText ==
  IF found.duplicates = <<>> THEN <<>>
  ELSE <<[marks |-> {Issue} \cup ToSet(found.duplicates), parent |-> TRUE]>>
       \o [n \in DOMAIN found.duplicates |-> [marks |-> {Issue, found.duplicates[n]}, parent |-> FALSE]]
       \o <<[reasons |-> found.duplicates]>>

(* Every issue is given the verdict that GPT gave on it, whatever issues    *)
(* are left out on the way and in whatever order the answers came, and the  *)
(* text that is put into the new issue offers exactly the duplicates        *)
(* (find_duplicates, batched_ask, generate_duplicates_rich_text).           *)
VerdictsFit ==
  LET readable == ToSet(Others) \ (Unreadable \cup {Issue})
      offered == {n \in DOMAIN DuplicatesRichText : "parent" \in DOMAIN DuplicatesRichText[n]}
  IN at = "done" =>
       /\ completions = readable
       /\ ToSet(found.duplicates) = readable \cap Duplicates
       /\ ToSet(found.rest) = readable \ Duplicates
       /\ (UNION {DuplicatesRichText[n].marks : n \in offered}) \ {Issue} = readable \cap Duplicates

(* Once the service has answered all, every poll brings a whole batch: the  *)
(* answers that were fetched are not asked for again (batched_ask).         *)
PollsMakeProgress ==
  record.early => Len(Waiting) + record.polls * BatchSize <= Len(hashes)
                  \/ Waiting = <<>>

(* The detector does not poll for ever (batched_ask).                       *)
Settled == at \in {"timeout", "failed", "done"}
=============================================================================
