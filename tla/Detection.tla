------------------------------- MODULE Detection -------------------------------
(***************************************************************************)
(* Four more services beside those of Services: the walk of the spike       *)
(* detector over the tickets of a day, the questions to GPT about           *)
(* duplicates of a new issue, the searches for duplicates in the index, and *)
(* the scores of a quality report.  They hold their state in v1, v2, ...,   *)
(* in the order in which their modules declare their variables; of a search *)
(* v1 is what is asked and v2 the answer, of the scores v1 is the report    *)
(* before and v2 this one.                                                  *)
(***************************************************************************)
EXTENDS Services, FiniteSets, Sequences

CONSTANTS
  Tickets, Time, PageSize, DetectorBatch,                      \* pages of tickets
  Issue, Others, Unreadable, Duplicates, AskBatch, MaxPolls,   \* questions to GPT
  InIndex, Asked,                                              \* issues in the index, and searches
  ScoredKeys, NotScored, Scored                                \* keys of issues, and reports

VARIABLES v1, v2, v3, v4, v5, v6

From2 == <<v3, v4, v5, v6>>
From3 == <<v4, v5, v6>>
NoneAfter5 == v6 = ""
NoneAfter3 == v4 = "" /\ v5 = "" /\ NoneAfter5
NoneAfter2 == v3 = "" /\ NoneAfter3

Pages == INSTANCE TicketPages WITH
  BatchSize <- DetectorBatch,
  index <- v1, scan <- v2, detected <- v3, atStart <- v4, slipped <- v5

Detector == INSTANCE BatchedAsk WITH
  BatchSize <- AskBatch,
  at <- v1, hashes <- v2, finished <- v3, completions <- v4, found <- v5, record <- v6

Search == INSTANCE DuplicateSearch

Scores == INSTANCE QualityScores WITH Keys <- ScoredKeys, NotThere <- NotScored

(* What was indexed of issues, and a search among them; pages tells of each *)
(* hit on which page it was, and no page holds one twice.                   *)
IndexedDocs == [InIndex -> [type : {"Bug", "Epic", "Task"}, linked : SUBSET InIndex,
                            clones : SUBSET InIndex, parent : BOOLEAN,
                            project : STRING, resolution : STRING]]
IsSearch(in) ==
  /\ in.kind \in {"find", "alike", "resolve"} /\ in.docs \in IndexedDocs
  /\ in.target \in InIndex /\ in.count \in Nat \ {0}
  /\ in.hits \in Seq(InIndex) /\ in.pages \in [DOMAIN in.hits -> Nat]
  /\ \A m, n \in DOMAIN in.hits : m # n /\ in.hits[m] = in.hits[n] => in.pages[m] # in.pages[n]

ScoredIssues == [priority : STRING, acute : BOOLEAN, days : Nat, resolution : STRING, duplicates : Nat]

ASSUME DetectionAssumption ==
  /\ Pages!Assumptions /\ Detector!Assumptions
  /\ \A in \in Asked : IsSearch(in)
  /\ IsFiniteSet(ScoredKeys) /\ Scored \subseteq [ScoredKeys -> ScoredIssues \cup {NotScored}]
-----------------------------------------------------------------------------
NoService == NoReport /\ NoTasks /\ NoMails /\ NoQuality /\ NoGpt /\ NoVectors
             /\ jira = "" /\ history = "" /\ mails = "" /\ today = "" /\ record = ""
             /\ index = "" /\ job = "" /\ faults = ""

InitDetection ==
  /\ NoService
  /\ \/ service = "pages" /\ Pages!Init /\ NoneAfter5
     \/ service = "detector" /\ Detector!Init
     \/ service = "search" /\ v1 \in Asked /\ v2 = <<>> /\ NoneAfter2
     \/ service = "scores" /\ v1 \in Scored /\ v2 = <<>> /\ NoneAfter2

NextPages == service = "pages" /\ Pages!Next /\ UNCHANGED <<vars, v6>>
NextDetector == service = "detector" /\ Detector!Next /\ UNCHANGED vars

(* Who comes first among equals is up to the choice of these functions.     *)
Chosen(docs) ==
  {f \in [InIndex -> InIndex] : \A i \in InIndex : f[i] \in Search!Substitutes(docs, i)}
Picked(docs) ==
  LET groups == {Search!Graph(docs, i) : i \in InIndex}
  IN {f \in [groups -> InIndex] : \A g \in groups : f[g] \in Search!Representatives(docs, g)}

Answers(in) ==
  CASE in.kind = "find" ->
         {Search!PotentialDuplicates(in.docs, in.target, in.hits, f, FALSE, in.count, TRUE) :
            f \in Chosen(in.docs)}
    [] in.kind = "alike" -> {Search!MoreLikeThis(in.docs, in.target, in.hits, in.count)}
    [] in.kind = "resolve" -> {Search!Resolve(in.docs, in.hits, f) : f \in Picked(in.docs)}

NextSearch == service = "search" /\ v2 = <<>> /\ UNCHANGED <<vars, v1, From2>>
              /\ \E found \in Answers(v1) : v2' = <<found>>

NextScores == service = "scores" /\ v2 = <<>> /\ UNCHANGED <<vars, v1, From2>>
              /\ \E now \in Scored : v2' = <<now>>

NextDetection == NextPages \/ NextDetector \/ NextSearch \/ NextScores

SpecDetection == InitDetection /\ [][NextDetection]_<<vars, v1, v2, From2>>
-----------------------------------------------------------------------------
(* No ticket is given to the spike detector twice, and none is left out in  *)
(* the course of pages that shift but for one that slips in between a count *)
(* and its page (detect_spikes).                                            *)
DetectedOnce == service = "pages" => Pages!TypeOK /\ Pages!DetectedOnce

(* GPT's verdict on an issue is given to that issue, though the prompts go  *)
(* in batches and answers come in any order, and no answer is polled for    *)
(* twice (find_duplicates, batched_ask).                                    *)
VerdictsFit == service = "detector" => Detector!TypeOK /\ Detector!VerdictsFit /\ Detector!PollsMakeProgress

(* Potential duplicates are answered once, also when parents stand for      *)
(* their children, but for outdated documents and shifting pages; what the  *)
(* target is linked to comes back only as the parent of another issue; and  *)
(* of each group of duplicates one issue is answered, unless it is an epic  *)
(* (find_potential_jira_duplicates, run_more_like_this_for_duplicates,      *)
(* resolve_duplicate_graphs).                                               *)
ListedOnce ==
  service = "search" /\ v2 # <<>> =>
    CASE v1.kind = "find" -> Search!AppearsOnce(v1.docs, v1.target, v2[1])
      [] v1.kind = "alike" -> Search!Disjoint(v1.docs, v1.target, v1.hits, v1.pages, v2[1])
      [] v1.kind = "resolve" -> Search!RepresentedOnce(v1.docs, v1.hits, v2[1])

(* What is said to have changed since the last report adds up to the change *)
(* of the score, and resolving issues does not lower it                     *)
(* (find_recent_changes, calculate_scores).                                 *)
ChangesAddUp ==
  service = "scores" /\ v2 # <<>> =>
    /\ Scores!ChangesAddUp(v1, v2[1])
    /\ Scores!ChangesStayInBounds(v1, v2[1])
    /\ Scores!ResolvingHelps(v1, v2[1])
=============================================================================
