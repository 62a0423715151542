----------------------------- MODULE ServicesProofs -----------------------------
(***************************************************************************)
(* What holds of the services in every state, for all values of the         *)
(* constants.                                                               *)
(***************************************************************************)
EXTENDS ConcurrencyProofs, SequenceTheorems

-----------------------------------------------------------------------------
(* Numbers.                                                                 *)

(* Division with remainder.                                                 *)
LEMMA ModDef ==
  ASSUME NEW w \in Nat \ {0}, NEW a \in Int
  PROVE  /\ a = w * (a \div w) + (a % w)
         /\ a \div w \in Int /\ a % w \in 0 .. w - 1
OBVIOUS

LEMMA ModUnique ==
  ASSUME NEW w \in Nat \ {0}, NEW q \in Int, NEW r \in 0 .. w - 1
  PROVE  (w * q + r) % w = r
OBVIOUS

LEMMA Multiples ==
  ASSUME NEW w \in Nat \ {0}, NEW a \in Int
  PROVE  a % w = 0 <=> \E q \in Int : a = w * q
<1>1. ASSUME a % w = 0 PROVE \E q \in Int : a = w * q
  <2>1. a = w * (a \div w) + (a % w) /\ a \div w \in Int
    BY ModDef
  <2>2. w * (a \div w) \in Int
    BY <2>1
  <2> QED BY <1>1, <2>1, <2>2
<1>2. ASSUME NEW q \in Int, a = w * q PROVE a % w = 0
  <2>1. (w * q + 0) % w = 0 /\ w * q \in Int
    BY ModUnique
  <2> QED BY <1>2, <2>1
<1> QED
  BY <1>1, <1>2

LEMMA Distr ==
  ASSUME NEW w \in Int, NEW p \in Int, NEW q \in Int
  PROVE  w * p - w * q = w * (p - q) /\ w * p \in Int /\ w * q \in Int
OBVIOUS

(* Remainders zero.                                                         *)
LEMMA ModDiff ==
  ASSUME NEW w \in Nat \ {0}, NEW a \in Int, NEW b \in Int, a % w = 0, b % w = 0
  PROVE  (a - b) % w = 0
<1>1. PICK p \in Int, q \in Int : a = w * p /\ b = w * q
  BY Multiples
<1>2. a - b = w * (p - q) /\ p - q \in Int /\ a - b \in Int
  BY <1>1, Distr
<1> QED
  BY <1>2, Multiples

LEMMA ModFloor ==
  ASSUME NEW w \in Nat \ {0}, NEW a \in Nat
  PROVE  (a - (a % w)) % w = 0 /\ (a % w) \in 0 .. a
<1>1. a = w * (a \div w) + (a % w) /\ a \div w \in Int /\ a % w \in 0 .. w - 1
  BY ModDef
<1>2. a - (a % w) = w * (a \div w) /\ a - (a % w) \in Int
  BY <1>1
<1>3. a % w <= a
  OBVIOUS
<1>4. (a - (a % w)) % w = 0
  BY <1>1, <1>2, Multiples
<1> QED
  BY <1>1, <1>3, <1>4

LEMMA ModStep ==
  ASSUME NEW w \in Nat \ {0}, NEW a \in Nat \ {0}, a % w = 0
  PROVE  a >= w
OBVIOUS

(* Every set of numbers has a smallest one: what induction over data needs. *)
LEMMA Smallest ==
  ASSUME NEW S, S \subseteq Nat, S # {}
  PROVE  \E m \in S : \A n \in S : m <= n
<1> DEFINE R == StrictSubsetOrdering(Nat)
           T == {0 .. n : n \in S}
<1>1. IsWellFoundedOn(R, FiniteSubsetsOf(Nat))
  BY FS_StrictSubsetOrderingWellFounded
<1>2. T \subseteq FiniteSubsetsOf(Nat) /\ T # {}
  <2>1. ASSUME NEW n \in S PROVE 0 .. n \in SUBSET Nat /\ IsFiniteSet(0 .. n)
    BY FS_Interval
  <2> QED BY <2>1 DEF FiniteSubsetsOf
<1>3. PICK x \in T : \A y \in T : ~(<<y, x>> \in R)
  <2> HIDE DEF R, T
  <2> QED BY <1>1, <1>2, WFMin
<1>4. PICK m \in S : x = 0 .. m
  BY <1>3
<1>5. ASSUME NEW n \in S, n < m PROVE FALSE
  <2>1. 0 .. n \subseteq 0 .. m /\ m \notin 0 .. n /\ m \in 0 .. m
    BY <1>5
  <2>2. <<0 .. n, 0 .. m>> \in R
    BY <2>1 DEF StrictSubsetOrdering
  <2> QED BY <1>3, <1>4, <2>2
<1> QED
  BY <1>5

-----------------------------------------------------------------------------
(* Mails to beta testers: the invariant of the requests implies what is     *)
(* promised to the testers.                                                 *)
LEMMA AtMostOne ==
  ASSUME NEW S, \A a, b \in S : a = b
  PROVE  Mails!Cardinality(S) <= 1
<1>1. Mails!Cardinality(S) = Cardinality(S)
  BY DEF Mails!Cardinality, Cardinality, Mails!IsFiniteSet, IsFiniteSet
<1>2. CASE S = {}
  BY <1>1, <1>2, FS_EmptySet
<1>3. CASE S # {}
  <2>1. PICK a : S = {a}
    BY <1>3
  <2> QED
    <3>1. Cardinality({a}) = 1
      BY FS_Singleton
    <3> QED
      BY <1>1, <2>1, <3>1
<1> QED
  BY <1>2, <1>3

LEMMA MailsHold ==
  ASSUME MailsInv
  PROVE  Mails!OneMailPerSpike /\ Mails!OneMailPerDay /\ Mails!AnsweredIsSent
<1> USE DEF MailsInv
<1>1. ASSUME NEW s \in Mails!Spikes \ excuses.raced, NEW u \in Testers
      PROVE  Mails!Cardinality({r \in Requests : Spike[r] = s /\ mails[r][u] > 0}) <= 1
  <2>1. ASSUME NEW q \in Requests, NEW r \in Requests, Spike[q] = s, Spike[r] = s,
               mails[q][u] > 0, mails[r][u] > 0
        PROVE  q = r
    BY <1>1, <2>1 DEF OnePerSpike, Live, MailedBy
  <2> QED
    BY <2>1, AtMostOne
<1>2. ASSUME NEW d \in Mails!Days \ excuses.days, NEW u \in Testers
      PROVE  Mails!Cardinality({r \in Requests : calls[r].day = d /\ mails[r][u] > 0}) <= 1
  <2>1. ASSUME NEW q \in Requests, NEW r \in Requests, calls[q].day = d, calls[r].day = d,
               mails[q][u] > 0, mails[r][u] > 0
        PROVE  q = r
    BY <1>2, <2>1 DEF DisjointChoices, HasWritten, Excused, MailedBy, MailsFollowWriting
  <2> QED
    BY <2>1, AtMostOne
<1>3. Mails!AnsweredIsSent
  BY DEF Mails!AnsweredIsSent, Mails!At, MailsFollowWriting, InHandIsStored, HasWritten, Excused
<1> QED
  BY <1>1, <1>2, <1>3 DEF Mails!OneMailPerSpike, Mails!OneMailPerDay
-----------------------------------------------------------------------------
(* Quality reports.                                                         *)

(* The titles whose report the run has built: all of them once it mails.    *)
Built ==
  {t \in Quality!T : \E m \in 1 .. Len(Titles) :
     /\ Titles[m] = t
     /\ job.at = "build" => m < job.n
     /\ job.at \in {"upload", "checkpoint"} => m <= job.n}

(* What is built holds the day and whatever of the past is still recent,    *)
(* and is of the day on which it is saved.                                  *)
BuiltFromHistory ==
  /\ job.at # "idle" =>
       /\ job.day = today
       /\ \A t \in Built :
            /\ job.day \in job.scores[t]
            /\ (t \in record.unread /\ job.scores[t] = {job.day}) \/
                 \A d \in history[t] : d > job.day - Cutoff => d \in job.scores[t]
  /\ job.at \in {"datasets", "scores"} => job.kind = "save"
  /\ job.at = "mail" /\ job.kind = "save" => job.day \in history[Titles[job.n]]
  /\ job.at = "checkpoint" => Quality!HasReport(Titles[job.n], job.day)

QualityInv == /\ Quality!TypeOK /\ BuiltFromHistory
              /\ Quality!LatestExists /\ Quality!MailedIsSaved
LEMMA TitlesGiven ==
  ASSUME Quality!Assumptions
  PROVE  /\ Len(Titles) \in Nat \ {0}
         /\ \A m \in 1 .. Len(Titles) : Titles[m] \in Quality!T
         /\ \A t \in Quality!T : \E m \in 1 .. Len(Titles) : Titles[m] = t
<1>1. Titles \in Seq(Quality!T) /\ Titles # <<>>
  BY DEF Quality!Assumptions, Quality!T
<1>2. Len(Titles) \in Nat \ {0} /\ DOMAIN Titles = 1 .. Len(Titles)
  BY <1>1
<1> QED
  BY <1>2 DEF Quality!T, Quality!ToSet

LEMMA IdleRuns ==
  ASSUME Quality!Assumptions
  PROVE  /\ Quality!Idle \in Quality!Runs
         /\ Quality!Idle.at = "idle" /\ Quality!Idle.n = 1 /\ Quality!Idle.day = 0
BY TitlesGiven DEF Quality!Idle, Quality!Runs, Quality!Kinds, Quality!Assumptions

LEMMA QualityStart ==
  ASSUME Quality!Assumptions, Quality!Init
  PROVE  QualityInv
<1>1. Quality!TypeOK
  BY IdleRuns DEF Quality!Init, Quality!TypeOK, Quality!Assumptions, Quality!Days, Quality!NoReport
<1>2. BuiltFromHistory
  BY IdleRuns DEF Quality!Init, BuiltFromHistory
<1>3. Quality!LatestExists /\ Quality!MailedIsSaved
  BY DEF Quality!Init, Quality!LatestExists, Quality!MailedIsSaved, Quality!ToSet
<1> QED
  BY <1>1, <1>2, <1>3 DEF QualityInv

RunRecord == [runs : 0 .. MaxRuns, faults : 0 .. MaxFaults, unread : SUBSET Quality!T,
              saved : [Quality!T -> SUBSET Quality!Days]]

(* A run or a fault more.                                                   *)
LEMMA RecordCounts ==
  ASSUME Quality!Assumptions, Quality!TypeOK
  PROVE  /\ record \in RunRecord
         /\ \A t \in Quality!T :
              record.faults < MaxFaults
              /\ record' = [record EXCEPT !.faults = @ + 1, !.unread = @ \cup {t}]
              => record' \in RunRecord /\ record'.unread = record.unread \cup {t}
         /\ record.faults < MaxFaults /\ record' = [record EXCEPT !.faults = @ + 1]
              => record' \in RunRecord /\ record'.unread = record.unread
         /\ record.runs < MaxRuns /\ record' = [record EXCEPT !.runs = @ + 1]
              => record' \in RunRecord /\ record'.unread = record.unread
<1>1. record \in RunRecord
  BY DEF Quality!TypeOK, RunRecord
<1>2. /\ record.faults < MaxFaults => record.faults + 1 \in 0 .. MaxFaults
      /\ record.runs < MaxRuns => record.runs + 1 \in 0 .. MaxRuns
  BY <1>1 DEF RunRecord, Quality!Assumptions
<1>3. ASSUME NEW t \in Quality!T, record.faults < MaxFaults,
             record' = [record EXCEPT !.faults = @ + 1, !.unread = @ \cup {t}]
      PROVE  record' \in RunRecord /\ record'.unread = record.unread \cup {t}
  BY <1>1, <1>2, <1>3 DEF RunRecord
<1>4. ASSUME record.faults < MaxFaults, record' = [record EXCEPT !.faults = @ + 1]
      PROVE  record' \in RunRecord /\ record'.unread = record.unread
  BY <1>1, <1>2, <1>4 DEF RunRecord
<1>5. ASSUME record.runs < MaxRuns, record' = [record EXCEPT !.runs = @ + 1]
      PROVE  record' \in RunRecord /\ record'.unread = record.unread
  BY <1>1, <1>2, <1>5 DEF RunRecord
<1> QED
  BY <1>1, <1>3, <1>4, <1>5

(* A step of the run to another label or report.                            *)
LEMMA RunGoesTo ==
  ASSUME Quality!TypeOK, NEW label, NEW m \in 1 .. Len(Titles),
         label \in {"idle", "build", "upload", "checkpoint", "datasets", "scores", "mail"},
         job' = [job EXCEPT !.at = label, !.n = m]
  PROVE  /\ job' \in Quality!Runs /\ job'.at = label /\ job'.n = m
         /\ job'.day = job.day /\ job'.kind = job.kind
         /\ job'.scores = job.scores /\ job'.issues = job.issues
BY DEF Quality!TypeOK, Quality!Runs

LEMMA RunGoesOn ==
  ASSUME Quality!TypeOK, NEW label,
         label \in {"idle", "build", "upload", "checkpoint", "datasets", "scores", "mail"},
         Quality!GoTo(label)
  PROVE  /\ job' \in Quality!Runs /\ job'.at = label /\ job'.n = job.n
         /\ job'.day = job.day /\ job'.kind = job.kind
         /\ job'.scores = job.scores /\ job'.issues = job.issues
BY DEF Quality!TypeOK, Quality!Runs, Quality!GoTo

(* Build: the record of a report and of a read that failed.                 *)
LEMMA ReportIsBuilt ==
  ASSUME Quality!Assumptions, Quality!TypeOK, job.at = "build", job.day \in Quality!Days, Quality!Build
  PROVE  \E scores \in [Quality!T -> SUBSET Quality!Days] :
           /\ job'.at # "idle" =>
                /\ job'.scores = scores /\ job'.day = job.day /\ job'.kind = job.kind
           /\ job' \in Quality!Runs
           /\ \A t \in Quality!T \ {Titles[job.n]} : scores[t] = job.scores[t]
           /\ job.day \in scores[Titles[job.n]]
           /\ (Titles[job.n] \in record'.unread /\ scores[Titles[job.n]] = {job.day}) \/
                \A d \in history[Titles[job.n]] : d > job.day - Cutoff => d \in scores[Titles[job.n]]
           /\ \/ job'.at = "upload" /\ job'.n = job.n
              \/ job'.at = "build" /\ job'.n = job.n + 1
              \/ job'.at = "idle"
              \/ job'.at = "mail" /\ job.n = Len(Titles) /\ job.kind # "save"
<1> DEFINE title == Titles[job.n]
<1>0. /\ job \in Quality!Runs /\ job.n \in 1 .. Len(Titles) /\ title \in Quality!T
      /\ Len(Titles) \in Nat
  BY TitlesGiven DEF Quality!TypeOK, Quality!Runs
<1>1. PICK known_scores \in {history[title], {}}, past \in {datasets[title], <<>>} :
        /\ IF known_scores = history[title] /\ past = datasets[title] THEN UNCHANGED record
           ELSE /\ record.faults < MaxFaults
                /\ record' = [record EXCEPT !.faults = @ + 1, !.unread = @ \cup {title}]
        /\ LET built == [job EXCEPT !.scores[title] = Quality!Recent(known_scores, job.day) \cup {job.day},
                                    !.issues[title] = Append(past, job.day)]
           IN job' = IF job.kind \in {"daily", "save"} THEN [built EXCEPT !.at = "upload"]
                     ELSE IF job.n < Len(Titles) THEN [built EXCEPT !.n = @ + 1]
                     ELSE IF job.kind = "dry" THEN Quality!Idle
                     ELSE [built EXCEPT !.at = "mail", !.n = 1]
  BY DEF Quality!Build, Quality!Title
<1> DEFINE recent == Quality!Recent(known_scores, job.day) \cup {job.day}
           scores == [job.scores EXCEPT ![title] = recent]
           issues == [job.issues EXCEPT ![title] = Append(past, job.day)]
<1>2. recent \in SUBSET Quality!Days
  BY <1>0 DEF Quality!Recent, Quality!TypeOK
<1>3. Append(past, job.day) \in Seq(Quality!Days)
  <2>1. past \in Seq(Quality!Days)
    <3>1. datasets[title] \in Seq(Quality!Days)
      BY <1>0 DEF Quality!TypeOK
    <3> QED
      BY <1>1, <3>1, EmptySeq
  <2> QED
    BY <2>1
<1>4. /\ scores \in [Quality!T -> SUBSET Quality!Days] /\ issues \in [Quality!T -> Seq(Quality!Days)]
      /\ \A t \in Quality!T \ {title} : scores[t] = job.scores[t]
      /\ scores[title] = recent
  BY <1>0, <1>2, <1>3 DEF Quality!Runs
<1>5. job.day \in scores[title]
  BY <1>4
<1>6. \/ title \in record'.unread /\ scores[title] = {job.day}
      \/ \A d \in history[title] : d > job.day - Cutoff => d \in scores[title]
  <2>1. CASE known_scores = history[title]
    BY <1>4, <2>1 DEF Quality!Recent
  <2>2. CASE known_scores # history[title]
    <3>1. record' = [record EXCEPT !.faults = @ + 1, !.unread = @ \cup {title}]
      BY <1>1, <2>2
    <3>2. record'.unread = record.unread \cup {title}
      BY <3>1 DEF Quality!TypeOK
    <3>3. scores[title] = {job.day}
      BY <1>1, <1>4, <2>2 DEF Quality!Recent
    <3> QED
      BY <3>2, <3>3
  <2> QED
    BY <2>1, <2>2
<1> HIDE DEF scores, issues
<1>7. PICK label \in {"upload", "build", "mail", "idle"}, m \in 1 .. Len(Titles) :
        /\ \/ label = "upload" /\ m = job.n
           \/ label = "build" /\ m = job.n + 1
           \/ label = "mail" /\ job.n = Len(Titles) /\ job.kind # "save"
           \/ label = "idle" /\ m = 1
        /\ IF label = "idle" THEN job' = Quality!Idle
           ELSE job' = [job EXCEPT !.at = label, !.n = m, !.scores = scores, !.issues = issues]
  <2>1. CASE job.kind \in {"daily", "save"}
    <3>1. job' = [job EXCEPT !.at = "upload", !.n = job.n, !.scores = scores, !.issues = issues]
      BY <1>0, <1>1, <2>1 DEF Quality!Runs, scores, issues
    <3> QED
      BY <1>0, <3>1
  <2>2. CASE job.kind \notin {"daily", "save"} /\ job.n < Len(Titles)
    <3>1. job' = [job EXCEPT !.at = "build", !.n = job.n + 1, !.scores = scores, !.issues = issues]
      BY <1>0, <1>1, <2>2 DEF Quality!Runs, scores, issues
    <3>2. job.n + 1 \in 1 .. Len(Titles)
      BY <1>0, <2>2
    <3> QED
      BY <3>1, <3>2
  <2>3. CASE job.kind = "dry" /\ ~(job.n < Len(Titles))
    <3>1. job' = Quality!Idle /\ 1 \in 1 .. Len(Titles)
      BY <1>0, <1>1, <2>3
    <3> QED
      BY <3>1
  <2>4. CASE job.kind \notin {"daily", "save", "dry"} /\ ~(job.n < Len(Titles))
    <3>1. job' = [job EXCEPT !.at = "mail", !.n = 1, !.scores = scores, !.issues = issues]
      BY <1>0, <1>1, <2>4 DEF Quality!Runs, scores, issues
    <3>2. 1 \in 1 .. Len(Titles) /\ job.n = Len(Titles)
      BY <1>0, <2>4
    <3> QED
      BY <2>4, <3>1, <3>2
  <2> QED
    BY <2>1, <2>2, <2>3, <2>4
<1>8. CASE label = "idle"
  BY <1>4, <1>5, <1>6, <1>7, <1>8, IdleRuns
<1>9. CASE label # "idle"
  <2>1. job' = [job EXCEPT !.at = label, !.n = m, !.scores = scores, !.issues = issues]
    BY <1>7, <1>9
  <2>2. /\ job' \in Quality!Runs /\ job'.at = label /\ job'.n = m /\ job'.scores = scores
        /\ job'.day = job.day /\ job'.kind = job.kind
    BY <1>0, <1>4, <1>7, <2>1 DEF Quality!Runs
  <2> QED
    BY <1>4, <1>5, <1>6, <1>7, <1>9, <2>2
<1> QED
  BY <1>8, <1>9
(* The last ones of a sequence, when only so many are kept.                 *)
LEMMA LastOnes ==
  ASSUME NEW S, NEW seq \in Seq(S), NEW k \in Nat \ {0}
  PROVE  LET kept == IF Len(seq) <= k THEN seq ELSE SubSeq(seq, Len(seq) - k + 1, Len(seq))
         IN kept \in Seq(S) /\ Len(kept) <= k
<1>1. Len(seq) \in Nat
  OBVIOUS
<1>2. CASE Len(seq) <= k
  BY <1>2
<1>3. CASE Len(seq) > k
  <2>1. /\ Len(seq) - k + 1 \in 1 .. Len(seq)
        /\ Len(seq) \in (Len(seq) - k + 1) - 1 .. Len(seq)
    BY <1>1, <1>3
  <2>2. /\ SubSeq(seq, Len(seq) - k + 1, Len(seq)) \in Seq(S)
        /\ Len(SubSeq(seq, Len(seq) - k + 1, Len(seq))) = k
    BY <1>1, <1>3, <2>1, SubSeqProperties
  <2> QED
    BY <1>1, <1>3, <2>2
<1> QED
  BY <1>1, <1>2, <1>3

LEMMA QualityStep ==
  ASSUME Quality!Assumptions, QualityInv, Quality!Next
  PROVE  QualityInv' /\ Quality!KeepsHistory
<1> DEFINE title == Titles[job.n]
<1>0. /\ Quality!TypeOK /\ BuiltFromHistory /\ Quality!LatestExists /\ Quality!MailedIsSaved
      /\ job \in Quality!Runs /\ job.n \in 1 .. Len(Titles) /\ title \in Quality!T
      /\ Len(Titles) \in Nat /\ today \in Nat /\ today \in Quality!Days /\ Cutoff \in Nat
  <2>1. /\ Quality!TypeOK /\ BuiltFromHistory /\ Quality!LatestExists /\ Quality!MailedIsSaved
        /\ job \in Quality!Runs /\ today \in Quality!Days
    BY DEF QualityInv, Quality!TypeOK
  <2>2. job.n \in 1 .. Len(Titles)
    BY <2>1 DEF Quality!Runs
  <2>3. title \in Quality!T /\ Len(Titles) \in Nat
    BY <2>2, TitlesGiven
  <2>4. today \in Nat /\ Cutoff \in Nat
    BY <2>1 DEF Quality!Assumptions, Quality!Days
  <2> QED
    BY <2>1, <2>2, <2>3, <2>4
<1>a. ASSUME UNCHANGED history
      PROVE  Quality!KeepsHistory
  BY <1>a DEF Quality!KeepsHistory
<1>b. ASSUME UNCHANGED <<history, mails>>, today' = today \/ today' = today + 1,
             record.unread \subseteq record'.unread
      PROVE  Quality!MailedIsSaved'
  <2> SUFFICES ASSUME NEW t \in Quality!T \ record'.unread, NEW d \in Quality!ToSet(mails[t]),
                      d > today' - Cutoff
               PROVE  d \in history[t]
    BY <1>b DEF Quality!MailedIsSaved
  <2>1. mails[t] \in Seq(Quality!Days)
    BY <1>0 DEF Quality!TypeOK
  <2>2. d \in Nat
    <3>1. PICK i \in DOMAIN mails[t] : d = mails[t][i]
      BY DEF Quality!ToSet
    <3>2. mails[t][i] \in Quality!Days
      BY <2>1, <3>1
    <3> QED
      BY <3>1, <3>2 DEF Quality!Days, Quality!Assumptions
  <2>3. d > today - Cutoff /\ t \in Quality!T \ record.unread
    BY <1>0, <1>b, <2>2
  <2> QED
    BY <1>0, <2>3 DEF Quality!MailedIsSaved
<1>c. ASSUME UNCHANGED <<reports, latest>>
      PROVE  Quality!LatestExists'
  BY <1>0, <1>c DEF Quality!LatestExists, Quality!HasReport
<1>1. CASE Quality!Build
  <2>1. UNCHANGED <<history, datasets, reports, latest, mails, today>> /\ job.at = "build"
    BY <1>1 DEF Quality!Build, Quality!Stored
  <2>2. job.day = today
    BY <1>0, <2>1 DEF BuiltFromHistory
  <2>3. PICK scores \in [Quality!T -> SUBSET Quality!Days] :
           /\ job'.at # "idle" =>
                /\ job'.scores = scores /\ job'.day = job.day /\ job'.kind = job.kind
           /\ job' \in Quality!Runs
           /\ \A t \in Quality!T \ {title} : scores[t] = job.scores[t]
           /\ job.day \in scores[title]
           /\ (title \in record'.unread /\ scores[title] = {job.day}) \/
                \A d \in history[title] : d > job.day - Cutoff => d \in scores[title]
           /\ \/ job'.at = "upload" /\ job'.n = job.n
              \/ job'.at = "build" /\ job'.n = job.n + 1
              \/ job'.at = "idle"
              \/ job'.at = "mail" /\ job.n = Len(Titles) /\ job.kind # "save"
    BY <1>0, <1>1, <2>1, <2>2, ReportIsBuilt
  <2>4. /\ record' \in RunRecord /\ record.unread \subseteq record'.unread
    <3>1. \/ UNCHANGED record
          \/ /\ record.faults < MaxFaults
             /\ record' = [record EXCEPT !.faults = @ + 1, !.unread = @ \cup {title}]
      BY <1>1 DEF Quality!Build, Quality!Title
    <3> QED
      BY <1>0, <3>1, RecordCounts
  <2>5. Quality!TypeOK'
    BY <1>0, <2>1, <2>3, <2>4 DEF RunRecord, Quality!TypeOK
  <2>6. job'.at # "idle" => \A t \in Built' \ {title} : t \in Built
    BY <1>0, <2>1, <2>3 DEF Built
  <2>7. job'.at # "idle" => \A t \in Built' :
            /\ job'.day \in job'.scores[t]
            /\ (t \in record'.unread /\ job'.scores[t] = {job'.day}) \/
                 \A d \in history'[t] : d > job'.day - Cutoff => d \in job'.scores[t]
    <3> SUFFICES ASSUME job'.at # "idle", NEW t \in Built'
                 PROVE /\ job'.day \in job'.scores[t]
                       /\ (t \in record'.unread /\ job'.scores[t] = {job'.day}) \/
                            \A d \in history'[t] : d > job'.day - Cutoff => d \in job'.scores[t]
      OBVIOUS
    <3>1. CASE t = title
      BY <2>1, <2>3, <3>1
    <3>2. CASE t # title
      <4>1. t \in Built /\ t \in Quality!T
        BY <2>6, <3>2 DEF Built
      <4> QED
        BY <1>0, <2>1, <2>3, <2>4, <3>2, <4>1 DEF BuiltFromHistory
    <3> QED
      BY <3>1, <3>2
  <2>8. BuiltFromHistory'
    BY <2>1, <2>2, <2>3, <2>7 DEF BuiltFromHistory
  <2> QED
    BY <1>a, <1>b, <1>c, <2>1, <2>4, <2>5, <2>8 DEF QualityInv
<1>2. CASE Quality!Upload
  <2>1. UNCHANGED <<history, datasets, latest, mails, today, record>> /\ job.at = "upload"
    BY <1>2 DEF Quality!Upload
  <2>2. /\ job' \in Quality!Runs /\ job'.at = "checkpoint" /\ job'.n = job.n
        /\ job'.day = job.day /\ job'.kind = job.kind
        /\ job'.scores = job.scores /\ job'.issues = job.issues
    BY <1>0, <1>2, RunGoesOn DEF Quality!Upload
  <2>3. job.day = today /\ job.day \in job.scores[title] /\ job.scores[title] \in SUBSET Quality!Days
    <3>1. title \in Built
      BY <1>0, <2>1 DEF Built
    <3> QED
      BY <1>0, <2>1, <3>1 DEF BuiltFromHistory, Quality!Runs
  <2>4. /\ reports' \in [Quality!T -> [Quality!Days -> (SUBSET Quality!Days) \cup {Quality!NoReport}]]
        /\ reports'[title][today] = job.scores[title]
        /\ \A t \in Quality!T, d \in Quality!Days : reports'[t][d] \in {reports[t][d], job.scores[title]}
    BY <1>0, <1>2, <2>3 DEF Quality!Upload, Quality!Title, Quality!TypeOK
  <2>5. job.scores[title] # Quality!NoReport
    BY <1>0, <2>3 DEF Quality!NoReport, Quality!Days
  <2>6. Quality!TypeOK'
    BY <1>0, <2>1, <2>2, <2>4 DEF Quality!TypeOK
  <2>7. Built' \subseteq Built
    BY <2>1, <2>2 DEF Built
  <2>8. BuiltFromHistory'
    BY <1>0, <2>1, <2>2, <2>3, <2>4, <2>5, <2>7 DEF BuiltFromHistory, Quality!HasReport
  <2>9. Quality!LatestExists'
    BY <1>0, <2>1, <2>4, <2>5 DEF Quality!LatestExists, Quality!HasReport
  <2> QED
    BY <1>a, <1>b, <2>1, <2>6, <2>8, <2>9 DEF QualityInv
<1>3. CASE Quality!Checkpoint
  <2>1. /\ UNCHANGED <<history, datasets, reports, mails, today, record>> /\ job.at = "checkpoint"
        /\ latest' = [latest EXCEPT ![title] = job.day]
    BY <1>3 DEF Quality!Checkpoint, Quality!Title
  <2>2. /\ job.day = today /\ Quality!HasReport(title, today)
        /\ \A t \in Built :
            /\ job.day \in job.scores[t]
            /\ (t \in record.unread /\ job.scores[t] = {job.day}) \/
                 \A d \in history[t] : d > job.day - Cutoff => d \in job.scores[t]
    BY <1>0, <2>1 DEF BuiltFromHistory
  <2>3. latest' \in [Quality!T -> 0 .. LastDay] /\ Quality!LatestExists'
    BY <1>0, <2>1, <2>2 DEF Quality!LatestExists, Quality!HasReport, Quality!TypeOK, Quality!Days
  <2>4. \/ job' = Quality!Idle
        \/ \E label \in {"build", "datasets"}, m \in 1 .. Len(Titles) :
             /\ job' = [job EXCEPT !.at = label, !.n = m]
             /\ label = "build" => m = job.n + 1
             /\ label = "datasets" => job.n = Len(Titles) /\ job.kind = "save"
    <3>1. CASE job.n < Len(Titles)
      <4>1. job' = [job EXCEPT !.at = "build", !.n = job.n + 1]
        BY <1>3, <3>1 DEF Quality!Checkpoint
      <4>2. job.n + 1 \in 1 .. Len(Titles)
        BY <1>0, <3>1
      <4> QED
        BY <4>1, <4>2
    <3>2. CASE ~(job.n < Len(Titles)) /\ job.kind = "save"
      <4>1. job' = [job EXCEPT !.at = "datasets", !.n = 1]
        BY <1>3, <3>2 DEF Quality!Checkpoint
      <4>2. job.n = Len(Titles) /\ 1 \in 1 .. Len(Titles)
        BY <1>0, <3>2
      <4> QED
        BY <3>2, <4>1, <4>2
    <3>3. CASE ~(job.n < Len(Titles)) /\ job.kind # "save"
      BY <1>3, <3>3 DEF Quality!Checkpoint
    <3> QED
      BY <3>1, <3>2, <3>3
  <2>5. CASE job' = Quality!Idle
    <3>1. job' \in Quality!Runs /\ job'.at = "idle"
      BY <2>5, IdleRuns
    <3> QED
      BY <1>0, <1>a, <1>b, <2>1, <2>3, <3>1 DEF QualityInv, Quality!TypeOK, BuiltFromHistory
  <2>6. ASSUME NEW label \in {"build", "datasets"}, NEW m \in 1 .. Len(Titles),
               job' = [job EXCEPT !.at = label, !.n = m],
               label = "build" => m = job.n + 1,
               label = "datasets" => job.n = Len(Titles) /\ job.kind = "save"
        PROVE  QualityInv'
    <3>1. /\ job' \in Quality!Runs /\ job'.at = label /\ job'.n = m
          /\ job'.day = job.day /\ job'.kind = job.kind
          /\ job'.scores = job.scores /\ job'.issues = job.issues
      BY <1>0, <2>6, RunGoesTo
    <3>2. Built' \subseteq Built
      BY <1>0, <2>1, <2>6, <3>1 DEF Built
    <3>3. BuiltFromHistory'
      BY <2>1, <2>2, <2>6, <3>1, <3>2 DEF BuiltFromHistory
    <3> QED
      BY <1>0, <1>b, <2>1, <2>3, <3>1, <3>3 DEF QualityInv, Quality!TypeOK
  <2> QED
    BY <1>a, <2>1, <2>4, <2>5, <2>6
<1>4. CASE Quality!SaveDatasets
  <2>1. UNCHANGED <<history, reports, latest, mails, today, record>> /\ job.at = "datasets"
    BY <1>4 DEF Quality!SaveDatasets
  <2>2. /\ job' \in Quality!Runs /\ job'.at = "scores" /\ job'.n = job.n
        /\ job'.day = job.day /\ job'.kind = job.kind
        /\ job'.scores = job.scores /\ job'.issues = job.issues
    BY <1>0, <1>4, RunGoesOn DEF Quality!SaveDatasets
  <2> DEFINE all == job.issues[title]
             kept == IF Len(all) <= Kept THEN all ELSE SubSeq(all, Len(all) - Kept + 1, Len(all))
  <2>3. kept \in Seq(Quality!Days) /\ Len(kept) <= Kept
    <3>1. all \in Seq(Quality!Days) /\ Kept \in Nat \ {0}
      BY <1>0 DEF Quality!Runs, Quality!Assumptions
    <3> HIDE DEF all
    <3> QED
      BY <3>1, LastOnes
  <2>4. datasets' = [datasets EXCEPT ![title] = kept]
    BY <1>4 DEF Quality!SaveDatasets, Quality!Title
  <2> HIDE DEF kept
  <2>5. Quality!TypeOK'
    BY <1>0, <2>1, <2>2, <2>3, <2>4 DEF Quality!TypeOK
  <2>6. Built' \subseteq Built
    BY <2>1, <2>2 DEF Built
  <2>7. BuiltFromHistory'
    BY <1>0, <2>1, <2>2, <2>6 DEF BuiltFromHistory
  <2> QED
    BY <1>0, <1>a, <1>b, <1>c, <2>1, <2>5, <2>7 DEF QualityInv
<1>5. CASE Quality!SaveScores
  <2>1. /\ UNCHANGED <<datasets, reports, latest, mails, today>> /\ job.at = "scores"
        /\ history' = [history EXCEPT ![title] = job.scores[title]]
        /\ record' = [record EXCEPT !.saved[title] = @ \cup {job.day}]
    BY <1>5 DEF Quality!SaveScores, Quality!Title
  <2>2. /\ job' \in Quality!Runs /\ job'.at = "mail" /\ job'.n = job.n
        /\ job'.day = job.day /\ job'.kind = job.kind
        /\ job'.scores = job.scores /\ job'.issues = job.issues
    BY <1>0, <1>5, RunGoesOn DEF Quality!SaveScores
  <2>3. /\ title \in Built /\ job.day = today /\ job.kind = "save"
        /\ today \in job.scores[title] /\ job.scores[title] \in SUBSET Quality!Days
        /\ (title \in record.unread /\ job.scores[title] = {job.day}) \/
                 \A d \in history[title] : d > job.day - Cutoff => d \in job.scores[title]
    <3>1. title \in Built
      BY <1>0, <2>1 DEF Built
    <3> QED
      BY <1>0, <2>1, <3>1 DEF BuiltFromHistory, Quality!Runs
  <2>4. /\ history' \in [Quality!T -> SUBSET Quality!Days] /\ history'[title] = job.scores[title]
        /\ \A t \in Quality!T \ {title} : history'[t] = history[t]
    BY <1>0, <2>1, <2>3 DEF Quality!TypeOK
  <2>5. /\ record' \in RunRecord /\ record'.unread = record.unread
    <3> DEFINE saved == [record.saved EXCEPT ![title] = @ \cup {job.day}]
    <3>1. saved \in [Quality!T -> SUBSET Quality!Days]
      BY <1>0, <2>3 DEF Quality!TypeOK
    <3>2. record' = [record EXCEPT !.saved = saved]
      BY <1>0, <2>1 DEF Quality!TypeOK
    <3> HIDE DEF saved
    <3> QED
      BY <1>0, <3>1, <3>2 DEF RunRecord, Quality!TypeOK
  <2>6. Quality!TypeOK'
    BY <1>0, <2>1, <2>2, <2>4, <2>5 DEF RunRecord, Quality!TypeOK
  <2>7. Built' \subseteq Built
    BY <2>1, <2>2 DEF Built
  <2>8. BuiltFromHistory'
    BY <1>0, <2>1, <2>2, <2>3, <2>4, <2>5, <2>7 DEF BuiltFromHistory, Built
  <2>9. Quality!KeepsHistory
    BY <2>1, <2>3, <2>4 DEF Quality!KeepsHistory, Quality!Title
  <2>10. Quality!MailedIsSaved'
    BY <1>0, <2>1, <2>4, <2>5, <2>9 DEF Quality!MailedIsSaved, Quality!KeepsHistory, Quality!ToSet
  <2> QED
    BY <1>0, <1>c, <2>1, <2>6, <2>8, <2>9, <2>10 DEF QualityInv
<1>6. CASE Quality!Mail
  <2>1. UNCHANGED <<history, datasets, reports, latest, today, record>> /\ job.at = "mail"
    BY <1>6 DEF Quality!Mail, Quality!Stored
  <2>2. job.day = today
    BY <1>0, <2>1 DEF BuiltFromHistory
  <2>3. mails' \in [Quality!T -> Seq(Quality!Days)] /\ Quality!MailedIsSaved'
    <3>1. CASE job.kind = "save"
      <4>1. mails' = [mails EXCEPT ![title] = Append(mails[title], today)]
        BY <1>6, <2>2, <3>1 DEF Quality!Mail, Quality!Title
      <4>2. \A t \in Quality!T : mails[t] \in Seq(Quality!Days)
        BY <1>0 DEF Quality!TypeOK
      <4>3. Append(mails[title], today) \in Seq(Quality!Days)
        BY <1>0, <4>2
      <4>4. /\ mails' \in [Quality!T -> Seq(Quality!Days)]
            /\ mails'[title] = Append(mails[title], today)
            /\ \A t \in Quality!T \ {title} : mails'[t] = mails[t]
        BY <1>0, <4>1, <4>3 DEF Quality!TypeOK
      <4>5. today \in history[title]
        BY <1>0, <2>1, <2>2, <3>1 DEF BuiltFromHistory
      <4>6. \A d \in Quality!ToSet(mails'[title]) : d = today \/ d \in Quality!ToSet(mails[title])
        BY <4>2, <4>4 DEF Quality!ToSet
      <4>7. ASSUME NEW t \in Quality!T \ record.unread, NEW d \in Quality!ToSet(mails'[t]),
                   d > today - Cutoff
            PROVE  d \in history[t]
        BY <1>0, <4>4, <4>5, <4>6, <4>7 DEF Quality!MailedIsSaved
      <4> QED
        BY <2>1, <4>4, <4>7 DEF Quality!MailedIsSaved
    <3>2. CASE job.kind # "save"
      <4>1. mails' = mails
        BY <1>6, <3>2 DEF Quality!Mail
      <4> QED
        BY <1>0, <1>b, <2>1, <4>1 DEF Quality!TypeOK
    <3> QED
      BY <3>1, <3>2
  <2>4. CASE job.n = Len(Titles)
    <3>1. job' \in Quality!Runs /\ job'.at = "idle"
      BY <1>6, <2>4, IdleRuns DEF Quality!Mail
    <3> QED
      BY <1>0, <1>a, <1>c, <2>1, <2>3, <3>1 DEF QualityInv, Quality!TypeOK, BuiltFromHistory
  <2>5. CASE job.n # Len(Titles)
    <3> DEFINE label == IF job.kind = "save" THEN "datasets" ELSE "mail"
    <3>1. job' = [job EXCEPT !.at = label, !.n = job.n + 1]
      BY <1>6, <2>5 DEF Quality!Mail
    <3>2. job.n + 1 \in 1 .. Len(Titles)
      BY <1>0, <2>5
    <3>3. /\ job' \in Quality!Runs /\ job'.at = label /\ job'.n = job.n + 1
          /\ job'.day = job.day /\ job'.kind = job.kind
          /\ job'.scores = job.scores /\ job'.issues = job.issues
      BY <1>0, <3>1, <3>2, RunGoesTo
    <3>4. Built' \subseteq Built
      BY <2>1, <3>3 DEF Built
    <3>5. BuiltFromHistory'
      BY <1>0, <2>1, <3>3, <3>4 DEF BuiltFromHistory
    <3> QED
      BY <1>0, <1>a, <1>c, <2>1, <2>3, <3>3, <3>5 DEF QualityInv, Quality!TypeOK
  <2> QED
    BY <2>4, <2>5
<1>7. CASE Quality!Fails
  <2>1. /\ UNCHANGED <<history, datasets, reports, latest, mails, today>>
        /\ record.faults < MaxFaults /\ record' = [record EXCEPT !.faults = @ + 1]
        /\ job' = Quality!Idle
    BY <1>7 DEF Quality!Fails, Quality!Stored
  <2>2. /\ record' \in RunRecord /\ record'.unread = record.unread
    BY <1>0, <2>1, RecordCounts
  <2>3. job' \in Quality!Runs /\ job'.at = "idle"
    BY <2>1, IdleRuns
  <2> QED
    BY <1>0, <1>a, <1>b, <1>c, <2>1, <2>2, <2>3 DEF RunRecord, QualityInv, Quality!TypeOK, BuiltFromHistory
<1>8. CASE Quality!NextDay
  <2>1. /\ UNCHANGED <<job, history, datasets, reports, latest, mails, record>> /\ job.at = "idle"
        /\ today' = today + 1 /\ today' \in Quality!Days
    BY <1>0, <1>8 DEF Quality!NextDay, Quality!Stored, Quality!Days, Quality!Assumptions
  <2> QED
    BY <1>0, <1>a, <1>b, <1>c, <2>1 DEF QualityInv, Quality!TypeOK, BuiltFromHistory
<1>9. ASSUME NEW kind \in Quality!Kinds, Quality!Start(kind)
      PROVE  QualityInv' /\ Quality!KeepsHistory
  <2>1. /\ UNCHANGED <<history, datasets, reports, latest, mails, today>>
        /\ record.runs < MaxRuns /\ record' = [record EXCEPT !.runs = @ + 1]
        /\ job' = [Quality!Idle EXCEPT !.at = "build", !.day = today, !.kind = kind]
    BY <1>9 DEF Quality!Start, Quality!Stored
  <2>2. /\ record' \in RunRecord /\ record'.unread = record.unread
    BY <1>0, <2>1, RecordCounts
  <2>3. job' \in Quality!Runs /\ job'.at = "build" /\ job'.n = 1 /\ job'.day = today
    <3>1. today \in 0 .. LastDay
      BY <1>0 DEF Quality!Days
    <3> QED
      BY <1>0, <2>1, <3>1, IdleRuns DEF Quality!Runs
  <2>4. Built' = {}
    BY <2>3 DEF Built
  <2>5. BuiltFromHistory'
    BY <2>1, <2>3, <2>4 DEF BuiltFromHistory
  <2> QED
    BY <1>0, <1>a, <1>b, <1>c, <2>1, <2>2, <2>3, <2>5 DEF RunRecord, QualityInv, Quality!TypeOK
<1> QED
  BY <1>1, <1>2, <1>3, <1>4, <1>5, <1>6, <1>7, <1>8, <1>9 DEF Quality!Next, Quality!Proceed
-----------------------------------------------------------------------------
(* The scores of a period.                                                  *)

(* What was saved and is recent is in the history, and a report of a day    *)
(* holds that day and what was saved of the days that are recent for it.    *)
SavedKept ==
  /\ \A t \in Quality!T : \A d \in record.saved[t] : d <= today
  /\ \A t \in Quality!T, r \in Quality!Days :
       Quality!HasReport(t, r) => r \in reports[t][r] /\ r <= today
  /\ \A t \in Quality!T \ record.unread : \A d \in record.saved[t] :
       /\ d > today - Cutoff => d \in history[t]
       /\ \A r \in Quality!Days :
            Quality!HasReport(t, r) /\ r - Cutoff < d /\ d <= r => d \in reports[t][r]

LEMMA SavedStart ==
  ASSUME Quality!Init
  PROVE  SavedKept
BY DEF Quality!Init, SavedKept, Quality!HasReport

LEMMA SavedStep ==
  ASSUME Quality!Assumptions, QualityInv, SavedKept, Quality!Next
  PROVE  SavedKept'
<1> DEFINE title == Titles[job.n]
<1>0. /\ Quality!TypeOK /\ BuiltFromHistory /\ job \in Quality!Runs /\ record \in RunRecord
      /\ today \in Quality!Days
  BY DEF QualityInv, Quality!TypeOK, RunRecord
<1>a. job.n \in 1 .. Len(Titles)
  BY <1>0 DEF Quality!Runs
<1>b. title \in Quality!T /\ Len(Titles) \in Nat
  BY <1>a, TitlesGiven
<1>c. today \in Nat /\ Cutoff \in Nat \ {0}
  BY <1>0 DEF Quality!Assumptions, Quality!Days
<1>1. /\ Quality!TypeOK /\ BuiltFromHistory /\ job \in Quality!Runs /\ record \in RunRecord
      /\ job.n \in 1 .. Len(Titles) /\ title \in Quality!T
      /\ Len(Titles) \in Nat /\ today \in Nat /\ today \in Quality!Days /\ Cutoff \in Nat \ {0}
  BY <1>0, <1>a, <1>b, <1>c
<1>2. \A t \in Quality!T : record.saved[t] \subseteq Quality!Days /\ history[t] \subseteq Quality!Days
  BY <1>1 DEF RunRecord, Quality!TypeOK
<1>3. Quality!Days \subseteq Nat
  BY DEF Quality!Days
<1>4. ASSUME UNCHANGED <<history, reports>>, record'.saved = record.saved,
             record.unread \subseteq record'.unread, today' = today \/ today' = today + 1
      PROVE  SavedKept'
  <2>1. today' \in Nat /\ today <= today'
    BY <1>1, <1>4
  <2>2. \A t \in Quality!T : \A d \in record.saved[t] : d <= today'
    <3> SUFFICES ASSUME NEW t \in Quality!T, NEW d \in record.saved[t] PROVE d <= today'
      OBVIOUS
    <3>1. d <= today /\ d \in Nat
      BY <1>2, <1>3 DEF SavedKept
    <3> QED
      BY <1>1, <2>1, <3>1
  <2>3. ASSUME NEW t \in Quality!T, NEW r \in Quality!Days, Quality!HasReport(t, r)
        PROVE  r \in reports[t][r] /\ r <= today'
    <3>1. r \in reports[t][r] /\ r <= today /\ r \in Nat
      BY <1>3, <2>3 DEF SavedKept
    <3> QED
      BY <1>1, <2>1, <3>1
  <2>4. ASSUME NEW t \in Quality!T \ record'.unread, NEW d \in record.saved[t], d > today' - Cutoff
        PROVE  d \in history[t]
    <3>1. d \in Nat /\ t \in Quality!T \ record.unread
      BY <1>2, <1>3, <1>4
    <3>2. d > today - Cutoff
      BY <1>1, <2>1, <2>4, <3>1
    <3> QED
      BY <3>1, <3>2 DEF SavedKept
  <2> QED
    BY <1>4, <2>2, <2>3, <2>4 DEF SavedKept, Quality!HasReport
<1>5. CASE Quality!Upload
  <2>1. UNCHANGED <<history, today, record>> /\ job.at = "upload"
        /\ reports' = [reports EXCEPT ![title][job.day] = job.scores[title]]
    BY <1>5 DEF Quality!Upload, Quality!Title
  <2>2. title \in Built
    BY <1>1, <2>1 DEF Built
  <2>3. /\ job.day = today /\ today \in job.scores[title]
        /\ title \in record.unread \/ \A d \in history[title] : d > today - Cutoff => d \in job.scores[title]
    BY <1>1, <2>1, <2>2 DEF BuiltFromHistory
  <2>4. \A t \in Quality!T, r \in Quality!Days :
          reports'[t][r] = IF t = title /\ r = today THEN job.scores[title] ELSE reports[t][r]
    BY <1>1, <2>1, <2>3 DEF Quality!TypeOK
  <2>5. \A t \in Quality!T, r \in Quality!Days :
          Quality!HasReport(t, r)' => r \in reports'[t][r] /\ r <= today'
    <3> SUFFICES ASSUME NEW t \in Quality!T, NEW r \in Quality!Days, Quality!HasReport(t, r)'
                 PROVE  r \in reports'[t][r] /\ r <= today'
      OBVIOUS
    <3>1. CASE t = title /\ r = today
      BY <1>1, <2>1, <2>3, <2>4, <3>1
    <3>2. CASE ~(t = title /\ r = today)
      BY <2>1, <2>4, <3>2 DEF SavedKept, Quality!HasReport
    <3> QED
      BY <3>1, <3>2
  <2>6. ASSUME NEW t \in Quality!T \ record.unread, NEW d \in record.saved[t], NEW r \in Quality!Days,
               Quality!HasReport(t, r)', r - Cutoff < d, d <= r
        PROVE  d \in reports'[t][r]
    <3>1. CASE t = title /\ r = today
      BY <2>3, <2>4, <2>6, <3>1 DEF SavedKept
    <3>2. CASE ~(t = title /\ r = today)
      BY <2>4, <2>6, <3>2 DEF SavedKept, Quality!HasReport
    <3> QED
      BY <3>1, <3>2
  <2> QED
    BY <2>1, <2>5, <2>6 DEF SavedKept
<1>6. CASE Quality!SaveScores
  <2>1. UNCHANGED <<reports, today>> /\ job.at = "scores"
        /\ history' = [history EXCEPT ![title] = job.scores[title]]
        /\ record' = [record EXCEPT !.saved[title] = @ \cup {job.day}]
    BY <1>6 DEF Quality!SaveScores, Quality!Title
  <2>2. title \in Built
    BY <1>1, <2>1 DEF Built
  <2>3. /\ job.day = today /\ today \in job.scores[title]
        /\ title \in record.unread \/ \A d \in history[title] : d > today - Cutoff => d \in job.scores[title]
    BY <1>1, <2>1, <2>2 DEF BuiltFromHistory
  <2>4. /\ record'.unread = record.unread
        /\ \A t \in Quality!T : \A d \in record'.saved[t] :
             d \in record.saved[t] \/ (t = title /\ d = today)
    BY <1>1, <2>1, <2>3 DEF RunRecord
  <2>5. /\ history'[title] = job.scores[title]
        /\ \A t \in Quality!T : t # title => history'[t] = history[t]
    BY <1>1, <2>1 DEF Quality!TypeOK
  <2>6. \A t \in Quality!T : \A d \in record'.saved[t] : d <= today
    BY <1>1, <2>4 DEF SavedKept
  <2>7. \A t \in Quality!T \ record.unread : \A d \in record'.saved[t] :
          d > today - Cutoff => d \in history'[t]
    BY <2>3, <2>4, <2>5 DEF SavedKept
  <2>8. ASSUME NEW t \in Quality!T \ record.unread, NEW d \in record'.saved[t], NEW r \in Quality!Days,
               Quality!HasReport(t, r), r - Cutoff < d, d <= r
        PROVE  d \in reports[t][r]
    <3>1. CASE d \in record.saved[t]
      BY <2>8, <3>1 DEF SavedKept
    <3>2. CASE d \notin record.saved[t]
      <4>1. t = title /\ d = today
        BY <2>4, <3>2
      <4>2. r \in reports[t][r] /\ r <= today
        BY <2>8 DEF SavedKept
      <4>3. r = today
        BY <1>1, <1>3, <2>8, <4>1, <4>2
      <4> QED
        BY <4>1, <4>2, <4>3
    <3> QED
      BY <3>1, <3>2
  <2> QED
    BY <2>1, <2>4, <2>6, <2>7, <2>8 DEF SavedKept, Quality!HasReport
<1>7. CASE Quality!Build
  <2>1. /\ UNCHANGED <<history, reports, today>>
        /\ \/ UNCHANGED record
           \/ record' = [record EXCEPT !.faults = @ + 1, !.unread = @ \cup {title}]
    BY <1>7 DEF Quality!Build, Quality!Stored, Quality!Title
  <2>2. record'.saved = record.saved /\ record.unread \subseteq record'.unread
    BY <1>1, <2>1 DEF RunRecord
  <2> QED
    BY <1>4, <2>1, <2>2
<1>8. CASE Quality!Checkpoint \/ Quality!SaveDatasets \/ Quality!Mail
  BY <1>4, <1>8 DEF Quality!Checkpoint, Quality!SaveDatasets, Quality!Mail, Quality!Stored
<1>9. CASE Quality!NextDay
  BY <1>4, <1>9 DEF Quality!NextDay, Quality!Stored
<1>10. CASE Quality!Fails \/ \E kind \in Quality!Kinds : Quality!Start(kind)
  <2>1. /\ UNCHANGED <<history, reports, today>>
        /\ \/ record' = [record EXCEPT !.faults = @ + 1]
           \/ record' = [record EXCEPT !.runs = @ + 1]
    BY <1>10 DEF Quality!Fails, Quality!Start, Quality!Stored
  <2>2. record'.saved = record.saved /\ record'.unread = record.unread
    BY <1>1, <2>1 DEF RunRecord
  <2> QED
    BY <1>4, <2>1, <2>2
<1> QED
  BY <1>5, <1>6, <1>7, <1>8, <1>9, <1>10 DEF Quality!Next, Quality!Proceed

-----------------------------------------------------------------------------
(* The reports that the walk for a period reads.                           *)

(* The function that Walk defines, and what is known of any such function.  *)
Visit(t, first) ==
  LET visit[d \in (1 - Window) .. LastDay] ==
        IF ~Quality!HasReport(t, d) THEN {}
        ELSE {d} \cup IF d - Window <= first THEN {} ELSE visit[d - Window]
  IN visit

Visited(t, first, f) ==
  f = [d \in (1 - Window) .. LastDay |->
         IF ~Quality!HasReport(t, d) THEN {}
         ELSE {d} \cup IF d - Window <= first THEN {} ELSE f[d - Window]]

(* There is one: it takes r with d if there is a report wherever the walk   *)
(* looks from d down to r and it does not end before.                       *)
Between(r, d) == {q \in Quality!Days : r <= q /\ q <= d /\ (d - q) % Window = 0}
Reaches(t, first, r, d) ==
  /\ r \in Between(r, d)
  /\ \A q \in Between(r, d) : Quality!HasReport(t, q) /\ (q = r \/ q - Window > first)

LEMMA BetweenStep ==
  ASSUME Window \in Nat \ {0}, LastDay \in Nat \ {0},
         NEW r \in Quality!Days, NEW d \in Quality!Days, r # d
  PROVE  /\ d \in Between(r, d) \/ r > d
         /\ r \in Between(r, d) <=> r \in Between(r, d - Window)
         /\ r <= d => Between(r, d) = {d} \cup Between(r, d - Window)
<1>1. r \in Int /\ d \in Int /\ r \in Nat /\ d \in Nat
  BY DEF Quality!Days
<1>2. ASSUME NEW q \in Quality!Days PROVE (d - q) % Window = 0 <=> ((d - Window) - q) % Window = 0
  <2>1. q \in Int
    BY DEF Quality!Days
  <2>2. Window % Window = 0
    OBVIOUS
  <2>3. ASSUME (d - q) % Window = 0 PROVE ((d - Window) - q) % Window = 0
    <3>1. ((d - q) - Window) % Window = 0
      BY <1>1, <2>1, <2>2, <2>3, ModDiff
    <3> QED
      BY <1>1, <2>1, <3>1
  <2>4. ASSUME ((d - Window) - q) % Window = 0 PROVE (d - q) % Window = 0
    <3>1. (0 - Window) % Window = 0
      BY <2>2, ModDiff
    <3>2. (d - Window) - q \in Int /\ 0 - Window \in Int
      BY <1>1, <2>1
    <3>3. (((d - Window) - q) - (0 - Window)) % Window = 0
      BY <2>4, <3>1, <3>2, ModDiff
    <3>4. ((d - Window) - q) - (0 - Window) = d - q
      BY <1>1, <2>1
    <3> QED
      BY <3>3, <3>4
  <2> QED
    BY <2>3, <2>4
<1>3. ASSUME NEW q \in Quality!Days, q < d, (d - q) % Window = 0 PROVE q <= d - Window
  <2>1. q \in Int /\ d - q \in Nat \ {0}
    BY <1>1, <1>3 DEF Quality!Days
  <2> QED
    BY <1>1, <1>3, <2>1, ModStep
<1>4. (d - d) % Window = 0
  BY <1>1
<1>5. r <= d => d \in Between(r, d)
  BY <1>1, <1>4 DEF Between
<1>6. ASSUME NEW q \in Quality!Days, q # d
      PROVE  q \in Between(r, d) <=> q \in Between(r, d - Window)
  <2>1. q \in Int
    BY DEF Quality!Days
  <2> QED
    BY <1>1, <1>2, <1>3, <1>6, <2>1 DEF Between
<1>7. d \notin Between(r, d - Window)
  BY <1>1 DEF Between
<1>8. Between(r, d) \subseteq Quality!Days /\ Between(r, d - Window) \subseteq Quality!Days
  BY DEF Between
<1>9. r <= d => Between(r, d) = {d} \cup Between(r, d - Window)
  BY <1>5, <1>6, <1>7, <1>8
<1>10. d \in Between(r, d) \/ r > d
  BY <1>1, <1>5
<1> QED
  BY <1>6, <1>9, <1>10

LEMMA VisitExists ==
  ASSUME Window \in Nat \ {0}, LastDay \in Nat \ {0}, NEW t, NEW first \in Int
  PROVE  \E f : Visited(t, first, f)
<1> DEFINE D == (1 - Window) .. LastDay
           f == [d \in D |-> {r \in Quality!Days : Reaches(t, first, r, d)}]
           Follow(d) == IF ~Quality!HasReport(t, d) THEN {}
                      ELSE {d} \cup IF d - Window <= first THEN {} ELSE f[d - Window]
<1>1. ASSUME NEW d \in D PROVE f[d] = Follow(d)
  <2>1. CASE d \notin Quality!Days
    <3>1. d \in Int /\ d <= 0
      BY <2>1 DEF Quality!Days
    <3>2. \A r \in Quality!Days : ~Reaches(t, first, r, d)
      BY <3>1 DEF Reaches, Between, Quality!Days
    <3> QED
      BY <2>1, <3>2 DEF Quality!HasReport
  <2>2. CASE d \in Quality!Days /\ ~Quality!HasReport(t, d)
    <3>1. ASSUME NEW r \in Quality!Days PROVE ~Reaches(t, first, r, d)
      <4>1. r \in Between(r, d) => d \in Between(r, d)
        BY <2>2 DEF Between, Quality!Days
      <4> QED
        BY <2>2, <4>1 DEF Reaches
    <3> QED
      BY <2>2, <3>1
  <2>3. CASE d \in Quality!Days /\ Quality!HasReport(t, d)
    <3>1. d - Window \in D /\ d \in Int
      BY <2>3 DEF Quality!Days
    <3>2. Reaches(t, first, d, d)
      <4>1. Between(d, d) = {d}
        BY <3>1, <2>3 DEF Between, Quality!Days
      <4> QED
        BY <2>3, <4>1 DEF Reaches
    <3>3. ASSUME NEW r \in Quality!Days, r # d
          PROVE  Reaches(t, first, r, d) <=> d - Window > first /\ Reaches(t, first, r, d - Window)
      <4>0. r \in Int
        BY DEF Quality!Days
      <4>1. CASE r > d
        <5>1. r \notin Between(r, d) /\ r \notin Between(r, d - Window)
          BY <3>1, <4>0, <4>1 DEF Between
        <5> QED
          BY <5>1 DEF Reaches
      <4>2. CASE ~(r > d)
        <5>1. r <= d
          BY <3>1, <4>0, <4>2
        <5>2. /\ r \in Between(r, d) <=> r \in Between(r, d - Window)
              /\ Between(r, d) = {d} \cup Between(r, d - Window)
          BY <2>3, <3>3, <5>1, BetweenStep
        <5> QED
          BY <2>3, <3>3, <5>2 DEF Reaches
      <4> QED
        BY <4>1, <4>2
    <3>4. f[d - Window] = {r \in Quality!Days : Reaches(t, first, r, d - Window)}
      BY <3>1
    <3>5. CASE d - Window <= first
      <4>1. \A r \in Quality!Days : r # d => ~Reaches(t, first, r, d)
        BY <3>1, <3>3, <3>5
      <4> QED
        BY <2>3, <3>2, <3>5, <4>1
    <3>6. CASE ~(d - Window <= first)
      <4>1. \A r \in Quality!Days : r # d => (Reaches(t, first, r, d) <=> Reaches(t, first, r, d - Window))
        BY <3>1, <3>3, <3>6
      <4>2. ~Reaches(t, first, d, d - Window)
        BY <3>1 DEF Reaches, Between
      <4> QED
        BY <2>3, <3>2, <3>4, <3>6, <4>1, <4>2
    <3> QED
      BY <3>5, <3>6
  <2> QED
    BY <2>1, <2>2, <2>3
<1>2. f = [d \in D |-> Follow(d)]
  <2> HIDE DEF Follow
  <2> QED
    BY <1>1
<1> QED
  BY <1>2 DEF Visited

LEMMA VisitVisits ==
  ASSUME Window \in Nat \ {0}, LastDay \in Nat \ {0}, NEW t, NEW first \in Int
  PROVE  Visited(t, first, Visit(t, first))
<1>1. Visit(t, first) = CHOOSE f : Visited(t, first, f)
  BY Zenon DEF Visit, Visited
<1> QED
  BY <1>1, VisitExists, Zenon

(* The walk comes to every day that is whole windows before the last and    *)
(* not before the first, if there is a report wherever it looks.            *)
LEMMA WalkComesTo ==
  ASSUME Quality!Assumptions, NEW t, NEW last \in Quality!Days, NEW first \in 1 .. last,
         Quality!Walkable(t, first, last),
         NEW r \in Quality!Days, first < r, r <= last, (last - r) % Window = 0
  PROVE  r \in Quality!Walk(t, first, last)
<1> DEFINE f == Visit(t, first)
           Bad == {d \in r .. last : (d - r) % Window = 0 /\ r \notin f[d]}
<1>1. /\ Window \in Nat \ {0} /\ LastDay \in Nat \ {0} /\ last \in Int /\ first \in Int /\ r \in Int
      /\ 1 <= r /\ last <= LastDay
  BY DEF Quality!Assumptions, Quality!Days
<1>2. ASSUME NEW d \in (1 - Window) .. LastDay
      PROVE  f[d] = IF ~Quality!HasReport(t, d) THEN {}
                    ELSE {d} \cup IF d - Window <= first THEN {} ELSE f[d - Window]
  <2>1. Visited(t, first, f)
    BY <1>1, VisitVisits
  <2> HIDE DEF f
  <2> QED
    BY <2>1 DEF Visited
<1> HIDE DEF f
<1>3. ASSUME Bad # {} PROVE FALSE
  <2>1. Bad \subseteq Nat
    BY <1>1
  <2>2. PICK d \in Bad : \A e \in Bad : d <= e
    <3> HIDE DEF Bad
    <3> QED
      BY <1>3, <2>1, Smallest
  <2>3. d \in Int /\ r <= d /\ d <= last /\ (d - r) % Window = 0 /\ r \notin f[d]
    BY <1>1, <2>2
  <2>4. (last - d) % Window = 0
    <3>1. last - r \in Int /\ d - r \in Int /\ (last - r) - (d - r) = last - d
      BY <1>1, <2>3
    <3>2. ((last - r) - (d - r)) % Window = 0
      BY <1>1, <2>3, <3>1, ModDiff
    <3> QED
      BY <3>1, <3>2
  <2>5. Quality!HasReport(t, d) /\ d \in (1 - Window) .. LastDay
    BY <1>1, <2>3, <2>4 DEF Quality!Walkable, Quality!Days
  <2>6. d # r
    BY <1>2, <2>3, <2>5
  <2>7. d - r >= Window
    BY <1>1, <2>3, <2>6, ModStep
  <2>8. r \notin f[d - Window]
    <3>1. ~(d - Window <= first)
      BY <1>1, <2>3, <2>7
    <3>2. f[d] = {d} \cup f[d - Window]
      BY <1>2, <2>5, <3>1
    <3> QED
      BY <2>3, <3>2
  <2>9. ((d - Window) - r) % Window = 0
    <3>1. Window % Window = 0
      BY <1>1
    <3>2. ((d - r) - Window) % Window = 0
      BY <1>1, <2>3, <3>1, ModDiff
    <3> QED
      BY <1>1, <2>3, <3>2
  <2>10. d - Window \in Bad
    BY <1>1, <2>3, <2>7, <2>8, <2>9
  <2> QED
    BY <1>1, <2>2, <2>3, <2>10
<1>4. r \in f[last]
  BY <1>1, <1>3
<1>5. Quality!Walk(t, first, last) = f[last]
  BY Zenon DEF Quality!Walk, f, Visit
<1> QED
  BY <1>4, <1>5

(* The report that the walk comes to first from a saved day on holds it.    *)
LEMMA ScoresFound ==
  ASSUME Quality!Assumptions, Window <= Cutoff, QualityInv, SavedKept
  PROVE  Quality!ScoresComplete
<1> SUFFICES ASSUME NEW t \in Quality!T \ record.unread, NEW last \in Quality!Days,
                    NEW first \in 1 .. last, Quality!Walkable(t, first, last),
                    NEW d \in record.saved[t], first < d, d <= last
             PROVE  d \in Quality!QualityScores(t, first, last)
  BY DEF Quality!ScoresComplete
<1>1. /\ Window \in Nat \ {0} /\ Cutoff \in Nat \ {0} /\ last \in Nat /\ first \in Nat
      /\ last <= LastDay /\ LastDay \in Nat
  BY DEF Quality!Assumptions, Quality!Days
<1>2. d \in Quality!Days /\ d \in Nat
  BY DEF QualityInv, Quality!TypeOK, Quality!Days
<1> DEFINE r == d + ((last - d) % Window)
<1>3. ((last - d) - ((last - d) % Window)) % Window = 0 /\ (last - d) % Window \in 0 .. (last - d)
  <2>1. last - d \in Nat
    BY <1>1, <1>2
  <2> QED
    BY <1>1, <2>1, ModFloor
<1>4. (last - d) % Window \in 0 .. (Window - 1)
  <2>1. last - d \in Int
    BY <1>1, <1>2
  <2> QED
    BY <1>1, <2>1, ModDef
<1>5. r \in Nat /\ d <= r /\ r <= last /\ r - d < Window
  BY <1>1, <1>2, <1>3, <1>4
<1>6. (last - r) % Window = 0
  <2>1. last - r = (last - d) - ((last - d) % Window)
    BY <1>1, <1>2, <1>3
  <2> QED
    BY <1>3, <2>1
<1> HIDE DEF r
<1>7. r \in Quality!Days
  BY <1>1, <1>2, <1>5 DEF Quality!Days
<1>8. Quality!HasReport(t, r)
  BY <1>1, <1>2, <1>5, <1>6, <1>7 DEF Quality!Walkable
<1>9. d \in reports[t][r]
  BY <1>1, <1>2, <1>5, <1>7, <1>8 DEF SavedKept
<1>10. r \in Quality!Walk(t, first, last)
  BY <1>1, <1>2, <1>5, <1>6, <1>7, WalkComesTo
<1> QED
  BY <1>1, <1>2, <1>9, <1>10 DEF Quality!QualityScores

-----------------------------------------------------------------------------
(* The tasks of bug reports.                                                *)
Task == [step : Tasks!Steps, has : SUBSET {"duplicates", "logs"}, read : SUBSET {"edit", "ai"},
         text : {"failed", "set"}, sent : 0 .. Batches]

(* Tasks are of issues that were reported, and the pool has few of them.    *)
TasksOfReports ==
  /\ IsFiniteSet(DOMAIN running)
  /\ \A t \in DOMAIN running : t[1] \in DOMAIN requests /\ running[t].sent < Batches
  /\ \A n \in 1 .. Len(queue) : queue[n][1] \in DOMAIN requests

(* The summary is the last task of a report without later files: nothing of *)
(* it is behind the summary, which stays so as the pool is first in first   *)
(* out.                                                                     *)
SummaryIsLast ==
  \A i \in DOMAIN requests : Uploaded[i] = {} =>
    /\ \A n \in 1 .. Len(requests[i]) : requests[i][n] = "summary" => n = Len(requests[i])
    /\ \A n \in 1 .. Len(queue) : queue[n] = <<i, "summary">> =>
         requests[i] = <<>> /\ \A m \in 1 .. Len(queue) : m > n => queue[m][1] # i
    /\ <<i, "summary">> \in DOMAIN running =>
         requests[i] = <<>> /\ \A m \in 1 .. Len(queue) : queue[m][1] # i

ToSubmit(i) == \E n \in 1 .. Len(requests[i]) : requests[i][n] = "priority"
Queued(i) == \E n \in 1 .. Len(queue) : queue[n] = <<i, "priority">>

(* There is one task for the priority of an issue, before GPT sets it and   *)
(* before there is a comment.                                               *)
OnePriorityTask ==
  \A i \in DOMAIN requests :
    /\ \A m, n \in 1 .. Len(requests[i]) :
         requests[i][m] = "priority" /\ requests[i][n] = "priority" => m = n
    /\ \A m, n \in 1 .. Len(queue) :
         queue[m] = <<i, "priority">> /\ queue[n] = <<i, "priority">> => m = n
    /\ ToSubmit(i) => ~Queued(i)
    /\ <<i, "priority">> \in DOMAIN running => ~ToSubmit(i) /\ ~Queued(i) /\ jira[i].comments = <<>>
    /\ ToSubmit(i) \/ Queued(i) => jira[i].comments = <<>> /\ jira[i].priority # "gpt"

(* What the comment is going to say is true.                                *)
TextIsTrue ==
  \A i \in DOMAIN requests : <<i, "priority">> \in DOMAIN running =>
    LET task == running[<<i, "priority">>] IN
    /\ task.step = "start" => task.text = "failed" /\ jira[i].priority # "gpt"
    /\ task.step = "comment" =>
         /\ task.text = "set" => jira[i].priority # "none" \/ i \in history.unclear
         /\ task.text = "failed" => jira[i].priority # "gpt" \/ i \in history.unclear

(* A description that is going to be written has what people wrote into it. *)
EditsAreRead ==
  \A i \in history.edited \ history.overlapped :
    <<i, "summary">> \in DOMAIN running /\ running[<<i, "summary">>].step = "write" =>
      "edit" \in running[<<i, "summary">>].read

TasksInv == /\ Tasks!TypeOK /\ TasksOfReports /\ SummaryIsLast
            /\ OnePriorityTask /\ TextIsTrue /\ Tasks!CommentTellsTheTruth
            /\ EditsAreRead /\ Tasks!EditsSurvive
(* The tasks of a report name its priority once, and without later files    *)
(* the summary at the end (report_issue, upload_artifacts).                 *)
LEMMA TasksOfReport ==
  ASSUME Tasks!Assumptions, NEW i \in Issues
  PROVE  LET all == Tasks!ReportTasks(i) \o Tasks!UploadTasks(i) IN
         /\ all \in Seq(Tasks!Kinds)
         /\ \A m, n \in 1 .. Len(all) : all[m] = "priority" /\ all[n] = "priority" => m = n
         /\ Uploaded[i] = {} => \A n \in 1 .. Len(all) : all[n] = "summary" => n = Len(all)
<1> DEFINE Others == {"screenshot", "logs", "loki"}
           first == Tasks!FileTasks(Reported[i])
           two == <<"priority", "summary">>
           last == Tasks!UploadTasks(i)
<1>1. \A files : Tasks!FileTasks(files) \in Seq(Others)
  <2> SUFFICES ASSUME NEW files PROVE Tasks!FileTasks(files) \in Seq(Others)
    OBVIOUS
  <2>1. /\ <<>> \in Seq(Others) /\ <<"screenshot", "logs">> \in Seq(Others)
        /\ <<"logs">> \in Seq(Others)
    OBVIOUS
  <2> QED
    BY <2>1 DEF Tasks!FileTasks
<1>2. first \in Seq(Others)
  BY <1>1
<1>3. last \in Seq(Others) /\ (Uploaded[i] = {} => Len(last) = 0)
  <2> DEFINE loki_first == IF "log" \in Uploaded[i] THEN <<"loki">> ELSE <<>>
             files == Tasks!FileTasks(Uploaded[i])
  <2>1. loki_first \in Seq(Others) /\ (Uploaded[i] = {} => Len(loki_first) = 0)
    OBVIOUS
  <2>2. files \in Seq(Others)
    BY <1>1
  <2>3. Uploaded[i] = {} => Len(files) = 0
    BY DEF Tasks!FileTasks
  <2>4. last = loki_first \o files
    BY DEF Tasks!UploadTasks
  <2> HIDE DEF loki_first, files, last
  <2> QED
    BY <2>1, <2>2, <2>3, <2>4, ConcatProperties
<1>4. two \in Seq(Tasks!Kinds) /\ Len(two) = 2 /\ two[1] = "priority" /\ two[2] = "summary"
  BY DEF Tasks!Kinds
<1>5. first \in Seq(Tasks!Kinds) /\ last \in Seq(Tasks!Kinds)
  BY <1>2, <1>3, SeqMonotonic DEF Tasks!Kinds
<1>6. \A n \in 1 .. Len(first) : first[n] \in Others
  BY <1>2
<1>7. \A n \in 1 .. Len(last) : last[n] \in Others
  BY <1>3
<1>8. Tasks!ReportTasks(i) = first \o two
  BY DEF Tasks!ReportTasks
<1> HIDE DEF first, two, last
<1> DEFINE report_tasks == first \o two
<1>9. /\ report_tasks \in Seq(Tasks!Kinds) /\ Len(report_tasks) = Len(first) + 2
      /\ Len(first) \in Nat
      /\ \A n \in 1 .. Len(report_tasks) : report_tasks[n] =
           IF n <= Len(first) THEN first[n] ELSE two[n - Len(first)]
  <2>1. /\ first \o two \in Seq(Tasks!Kinds) /\ Len(first \o two) = Len(first) + Len(two)
        /\ \A n \in 1 .. Len(first) + Len(two) :
             (first \o two)[n] = IF n <= Len(first) THEN first[n] ELSE two[n - Len(first)]
    BY <1>4, <1>5, ConcatProperties
  <2> QED
    BY <1>4, <1>5, <2>1
<1>10. \A n \in 1 .. Len(report_tasks) :
         /\ report_tasks[n] = "priority" => n = Len(first) + 1
         /\ report_tasks[n] = "summary" => n = Len(first) + 2
  <2> SUFFICES ASSUME NEW n \in 1 .. Len(report_tasks)
               PROVE  /\ report_tasks[n] = "priority" => n = Len(first) + 1
                      /\ report_tasks[n] = "summary" => n = Len(first) + 2
    OBVIOUS
  <2>1. CASE n <= Len(first)
    BY <1>6, <1>9, <2>1
  <2>2. CASE ~(n <= Len(first))
    <3>1. n - Len(first) \in {1, 2}
      BY <1>9, <2>2
    <3> QED
      BY <1>4, <1>9, <2>2, <3>1
  <2> QED
    BY <2>1, <2>2
<1> HIDE DEF report_tasks
<1> DEFINE all == report_tasks \o last
<1>11. /\ all \in Seq(Tasks!Kinds) /\ Len(all) = Len(report_tasks) + Len(last)
       /\ Len(last) \in Nat /\ Len(report_tasks) \in Nat
       /\ \A n \in 1 .. Len(all) : all[n] =
            IF n <= Len(report_tasks) THEN report_tasks[n] ELSE last[n - Len(report_tasks)]
  <2>1. /\ report_tasks \o last \in Seq(Tasks!Kinds)
        /\ Len(report_tasks \o last) = Len(report_tasks) + Len(last)
        /\ \A n \in 1 .. Len(report_tasks) + Len(last) : (report_tasks \o last)[n] =
             IF n <= Len(report_tasks) THEN report_tasks[n] ELSE last[n - Len(report_tasks)]
    BY <1>5, <1>9, ConcatProperties
  <2> QED
    BY <1>5, <1>9, <2>1
<1> HIDE DEF all
<1>12. \A n \in 1 .. Len(all) :
         /\ all[n] = "priority" => n = Len(first) + 1
         /\ all[n] = "summary" => n = Len(first) + 2
  <2> SUFFICES ASSUME NEW n \in 1 .. Len(all)
               PROVE  /\ all[n] = "priority" => n = Len(first) + 1
                      /\ all[n] = "summary" => n = Len(first) + 2
    OBVIOUS
  <2>1. CASE n <= Len(report_tasks)
    BY <1>10, <1>11, <2>1
  <2>2. CASE ~(n <= Len(report_tasks))
    <3>1. n - Len(report_tasks) \in 1 .. Len(last)
      BY <1>11, <2>2
    <3>2. all[n] \in Others
      BY <1>7, <1>11, <2>2, <3>1
    <3> QED
      BY <3>2
  <2> QED
    BY <2>1, <2>2
<1>13. Uploaded[i] = {} => Len(all) = Len(first) + 2
  BY <1>3, <1>9, <1>11
<1> QED
  BY <1>8, <1>11, <1>12, <1>13 DEF all, report_tasks, last

JiraIssue == [description : SUBSET {"edit", "ai"}, priority : {"none", "gpt", "person"},
              comments : Seq({"failed", "set"})]
Past == [faults : 0 .. MaxFaults, restarted : BOOLEAN, edited : SUBSET Issues,
         overlapped : SUBSET Issues, unclear : SUBSET Issues]
Objects == [screenshot : BOOLEAN, logs : {"none", "empty", "text"}]
Sent == [answered : BOOLEAN, tried : 0 .. Batches, over : BOOLEAN]

LEMMA TaskCount ==
  ASSUME NEW S
  PROVE  Tasks!Cardinality(S) = Cardinality(S)
BY DEF Tasks!Cardinality, Cardinality, Tasks!IsFiniteSet, IsFiniteSet

LEMMA TasksStart ==
  ASSUME Tasks!Assumptions, Tasks!Init
  PROVE  TasksInv
<1>1. PICK reported \in Workloads :
        requests = [i \in reported |-> Tasks!ReportTasks(i) \o Tasks!UploadTasks(i)]
  BY DEF Tasks!Init
<1>2. DOMAIN requests = reported /\ reported \subseteq Issues
  BY <1>1 DEF Tasks!Assumptions
<1>3. \A i \in reported :
        /\ requests[i] \in Seq(Tasks!Kinds)
        /\ \A m, n \in 1 .. Len(requests[i]) :
             requests[i][m] = "priority" /\ requests[i][n] = "priority" => m = n
        /\ Uploaded[i] = {} =>
             \A n \in 1 .. Len(requests[i]) : requests[i][n] = "summary" => n = Len(requests[i])
  BY <1>1, <1>2, TasksOfReport
<1>4. queue = <<>> /\ Len(queue) = 0 /\ running = <<>> /\ DOMAIN running = {}
  BY DEF Tasks!Init
<1>5. IsFiniteSet(DOMAIN running) /\ Tasks!Cardinality(DOMAIN running) = 0
  BY <1>4, FS_EmptySet, TaskCount
<1>6. /\ \A i \in Issues : jira[i] = [description |-> {}, priority |-> "none", comments |-> <<>>]
      /\ jira \in [Issues -> JiraIssue]
  BY DEF Tasks!Init, JiraIssue
<1>7. history \in Past /\ history.edited = {}
  BY DEF Tasks!Init, Past, Tasks!Assumptions
<1>8. s3 \in [Issues -> Objects] /\ loki \in [Issues -> Sent]
  BY DEF Tasks!Init, Objects, Sent, Tasks!Assumptions
<1>9. Tasks!TypeOK
  <2>1. requests \in [DOMAIN requests -> Seq(Tasks!Kinds)]
    BY <1>1, <1>2, <1>3
  <2>2. queue \in Seq(Issues \X Tasks!Kinds) /\ running \in [DOMAIN running -> Task]
    BY <1>4
  <2>3. Tasks!Cardinality(DOMAIN running) <= MaxWorkers /\ DOMAIN running \subseteq Issues \X Tasks!Kinds
    BY <1>4, <1>5 DEF Tasks!Assumptions
  <2> QED
    BY <1>2, <1>6, <1>7, <1>8, <2>1, <2>2, <2>3
       DEF Tasks!TypeOK, Task, JiraIssue, Past, Objects, Sent
<1>10. SummaryIsLast /\ OnePriorityTask
  BY <1>2, <1>3, <1>4, <1>6 DEF SummaryIsLast, OnePriorityTask, Queued
<1>11. TasksOfReports /\ TextIsTrue /\ EditsAreRead /\ Tasks!EditsSurvive
  BY <1>4, <1>5, <1>7 DEF TasksOfReports, TextIsTrue, EditsAreRead, Tasks!EditsSurvive
<1>12. Tasks!CommentTellsTheTruth
  <2>1. \A i \in Issues : jira[i].comments = <<>>
    BY <1>6
  <2>2. Len(<<>>) = 0 /\ <<>> # <<"set">> /\ <<>> # <<"failed">>
    OBVIOUS
  <2>3. \A i \in Issues : /\ Len(jira[i].comments) <= 1
                         /\ jira[i].comments # <<"set">> /\ jira[i].comments # <<"failed">>
    BY <2>1, <2>2
  <2> QED
    BY <2>3 DEF Tasks!CommentTellsTheTruth
<1> QED
  BY <1>9, <1>10, <1>11, <1>12 DEF TasksInv
-----------------------------------------------------------------------------
(* A step of task t that goes on, and its last step.                        *)
OnlyTask(t) == /\ DOMAIN running' = DOMAIN running
               /\ running' \in [DOMAIN running -> Task]
               /\ \A u \in DOMAIN running \ {t} : running'[u] = running[u]
LastStep(t) == /\ DOMAIN running' = DOMAIN running \ {t}
               /\ running' \in [DOMAIN running' -> Task]
               /\ \A u \in DOMAIN running' : running'[u] = running[u]

LEMMA TypesOfTasks ==
  ASSUME Tasks!TypeOK
  PROVE  /\ running \in [DOMAIN running -> Task] /\ jira \in [Issues -> JiraIssue]
         /\ history \in Past /\ s3 \in [Issues -> Objects] /\ loki \in [Issues -> Sent]
BY DEF Tasks!TypeOK, Task, JiraIssue, Past, Objects, Sent

LEMMA TaskBecomes ==
  ASSUME Tasks!TypeOK, NEW t \in DOMAIN running, NEW task \in Task,
         running' = [running EXCEPT ![t] = task]
  PROVE  OnlyTask(t) /\ running'[t] = task
BY TypesOfTasks DEF OnlyTask

LEMMA TaskGoesTo ==
  ASSUME Tasks!TypeOK, NEW t \in DOMAIN running, NEW step \in Tasks!Steps, Tasks!GoTo(t, step)
  PROVE  /\ OnlyTask(t) /\ running'[t].step = step /\ running'[t].has = running[t].has
         /\ running'[t].read = running[t].read /\ running'[t].text = running[t].text
         /\ running'[t].sent = running[t].sent
<1> DEFINE task == [running[t] EXCEPT !.step = step]
<1>1. running[t] \in Task
  BY TypesOfTasks
<1>2. /\ task \in Task /\ task.step = step /\ task.has = running[t].has
      /\ task.read = running[t].read /\ task.text = running[t].text /\ task.sent = running[t].sent
  BY <1>1 DEF Task
<1>3. running' = [running EXCEPT ![t] = task]
  BY DEF Tasks!GoTo
<1> HIDE DEF task
<1> QED
  BY <1>2, <1>3, TaskBecomes

LEMMA TaskEnds ==
  ASSUME Tasks!TypeOK, NEW t \in DOMAIN running, Tasks!Ends(t)
  PROVE  LastStep(t)
<1>1. running' = [u \in DOMAIN running \ {t} |-> running[u]]
  BY DEF Tasks!Ends, Tasks!Restrict
<1> QED
  BY <1>1, TypesOfTasks DEF LastStep

(* What the tasks leave of the history.                                     *)
HistoryKept == /\ history' \in Past /\ history'.edited = history.edited
               /\ history'.overlapped = history.overlapped
               /\ history'.unclear = history.unclear

LEMMA FaultsCount ==
  ASSUME Tasks!Assumptions, Tasks!TypeOK, Tasks!NoFault \/ Tasks!Fault
  PROVE  HistoryKept
<1>1. history \in Past /\ MaxFaults \in Nat
  BY TypesOfTasks DEF Tasks!Assumptions
<1>2. CASE Tasks!NoFault
  BY <1>1, <1>2 DEF HistoryKept, Tasks!NoFault
<1>3. CASE Tasks!Fault
  <2>1. history.faults + 1 \in 0 .. MaxFaults
    BY <1>1, <1>3 DEF Tasks!Fault, Past
  <2> QED
    BY <1>1, <1>3, <2>1 DEF HistoryKept, Tasks!Fault, Past
<1> QED
  BY <1>2, <1>3

(* Whatever a task does to the objects in S3 and Loki, the invariant holds  *)
(* if it leaves the issue alone.                                            *)
LEMMA TaskMoves ==
  ASSUME Tasks!Assumptions, TasksInv, HistoryKept,
         NEW i \in Issues, NEW kind \in Tasks!Kinds \ {"priority"},
         <<i, kind>> \in DOMAIN running, OnlyTask(<<i, kind>>),
         UNCHANGED <<requests, queue, jira>>,
         s3' \in [Issues -> Objects], loki' \in [Issues -> Sent],
         running'[<<i, kind>>].sent < Batches,
         kind = "summary" /\ running'[<<i, kind>>].step = "write" =>
           running'[<<i, kind>>].read = jira[i].description
  PROVE  TasksInv'
<1> USE DEF TasksInv
<1>1. Tasks!TypeOK'
  BY DEF Tasks!TypeOK, OnlyTask, HistoryKept, Past, Objects, Sent, Task
<1>2. TasksOfReports'
  BY DEF TasksOfReports, OnlyTask
<1>3. SummaryIsLast'
  BY DEF SummaryIsLast, OnlyTask
<1>4. OnePriorityTask'
  <2>1. \A j \in DOMAIN requests : (ToSubmit(j)' <=> ToSubmit(j)) /\ (Queued(j)' <=> Queued(j))
    BY DEF ToSubmit, Queued
  <2>2. requests' = requests /\ queue' = queue /\ jira' = jira /\ DOMAIN running' = DOMAIN running
    BY DEF OnlyTask
  <2> QED
    BY <2>1, <2>2 DEF OnePriorityTask
<1>5. TextIsTrue'
  BY DEF TextIsTrue, OnlyTask, HistoryKept
<1>6. EditsAreRead'
  BY DEF EditsAreRead, OnlyTask, HistoryKept, Tasks!EditsSurvive
<1>7. Tasks!CommentTellsTheTruth' /\ Tasks!EditsSurvive'
  BY DEF Tasks!CommentTellsTheTruth, Tasks!EditsSurvive, HistoryKept
<1> QED
  BY <1>1, <1>2, <1>3, <1>4, <1>5, <1>6, <1>7

LEMMA TaskIsOver ==
  ASSUME Tasks!Assumptions, TasksInv, HistoryKept,
         NEW t \in DOMAIN running, LastStep(t), UNCHANGED <<requests, queue, jira>>,
         s3' \in [Issues -> Objects], loki' \in [Issues -> Sent]
  PROVE  TasksInv'
<1> USE DEF TasksInv
<1>1. /\ IsFiniteSet(DOMAIN running')
      /\ Cardinality(DOMAIN running') <= Cardinality(DOMAIN running)
      /\ Cardinality(DOMAIN running') \in Nat /\ Cardinality(DOMAIN running) \in Nat
  BY FS_Subset, FS_CardinalityType DEF TasksOfReports, LastStep
<1>2. Tasks!TypeOK'
  <2>1. Tasks!Cardinality(DOMAIN running') <= MaxWorkers
    BY <1>1, TaskCount DEF Tasks!TypeOK, Tasks!Assumptions
  <2> QED
    BY <2>1 DEF Tasks!TypeOK, LastStep, HistoryKept, Past, Objects, Sent, Task
<1>3. TasksOfReports'
  BY <1>1 DEF TasksOfReports, LastStep
<1>4. SummaryIsLast'
  BY DEF SummaryIsLast, LastStep
<1>5. OnePriorityTask'
  <2>1. \A j \in DOMAIN requests : (ToSubmit(j)' <=> ToSubmit(j)) /\ (Queued(j)' <=> Queued(j))
    BY DEF ToSubmit, Queued
  <2>2. requests' = requests /\ queue' = queue /\ jira' = jira
        /\ DOMAIN running' \subseteq DOMAIN running
    BY DEF LastStep
  <2> QED
    BY <2>1, <2>2 DEF OnePriorityTask
<1>6. TextIsTrue'
  BY DEF TextIsTrue, LastStep, HistoryKept
<1>7. EditsAreRead'
  BY DEF EditsAreRead, LastStep, HistoryKept
<1>8. Tasks!CommentTellsTheTruth' /\ Tasks!EditsSurvive'
  BY DEF Tasks!CommentTellsTheTruth, Tasks!EditsSurvive, HistoryKept
<1> QED
  BY <1>2, <1>3, <1>4, <1>5, <1>6, <1>7, <1>8
LEMMA TaskSubmitted ==
  ASSUME Tasks!Assumptions, TasksInv, NEW i \in Issues, Tasks!Submit(i)
  PROVE  TasksInv'
<1> USE DEF TasksInv
<1> DEFINE first == Head(requests[i])  q == Len(queue)
<1>1. /\ i \in DOMAIN requests /\ requests[i] # <<>>
      /\ queue' = Append(queue, <<i, first>>)
      /\ requests' = [requests EXCEPT ![i] = Tail(@)]
      /\ UNCHANGED <<running, s3, jira, loki, history>>
  BY DEF Tasks!Submit
<1>2. /\ requests[i] \in Seq(Tasks!Kinds) /\ queue \in Seq(Issues \X Tasks!Kinds) /\ q \in Nat
      /\ requests \in [DOMAIN requests -> Seq(Tasks!Kinds)]
  BY <1>1 DEF Tasks!TypeOK
<1>3. /\ first \in Tasks!Kinds /\ first = requests[i][1]
      /\ Tail(requests[i]) \in Seq(Tasks!Kinds) /\ Len(Tail(requests[i])) = Len(requests[i]) - 1
      /\ \A n \in 1 .. Len(Tail(requests[i])) : Tail(requests[i])[n] = requests[i][n + 1]
      /\ Len(requests[i]) \in Nat \ {0}
  BY <1>1, <1>2, HeadTailProperties
<1>4. <<i, first>> \in Issues \X Tasks!Kinds
  BY <1>3
<1> HIDE DEF first
<1>5. /\ queue' \in Seq(Issues \X Tasks!Kinds) /\ Len(queue') = q + 1
      /\ \A n \in 1 .. q : queue'[n] = queue[n]
      /\ queue'[q + 1] = <<i, first>>
  BY <1>1, <1>2, <1>4, AppendProperties
<1>6. /\ DOMAIN requests' = DOMAIN requests
      /\ requests' \in [DOMAIN requests -> Seq(Tasks!Kinds)]
      /\ Len(requests'[i]) = Len(requests[i]) - 1
      /\ \A n \in 1 .. Len(requests'[i]) :
           requests'[i][n] = requests[i][n + 1] /\ n + 1 \in 1 .. Len(requests[i])
      /\ \A j \in DOMAIN requests \ {i} : requests'[j] = requests[j]
      /\ Len(requests'[i]) = 0 => requests'[i] = <<>>
  <2>1. requests' = [requests EXCEPT ![i] = Tail(requests[i])]
    BY <1>1
  <2>2. /\ DOMAIN requests' = DOMAIN requests /\ requests'[i] = Tail(requests[i])
        /\ requests' \in [DOMAIN requests -> Seq(Tasks!Kinds)]
        /\ \A j \in DOMAIN requests \ {i} : requests'[j] = requests[j]
    BY <1>1, <1>2, <1>3, <2>1
  <2>3. Len(requests'[i]) = 0 => requests'[i] = <<>>
    BY <1>3, <2>2, EmptySeq
  <2>4. \A n \in 1 .. Len(requests'[i]) : n + 1 \in 1 .. Len(requests[i])
    BY <1>3, <2>2
  <2> QED
    BY <1>3, <2>2, <2>3, <2>4
<1> HIDE DEF q
<1>7. Tasks!TypeOK'
  BY <1>1, <1>5, <1>6 DEF Tasks!TypeOK
<1>8. TasksOfReports'
  <2>1. \A n \in 1 .. Len(queue') : queue'[n][1] \in DOMAIN requests
    <3> SUFFICES ASSUME NEW n \in 1 .. Len(queue')
                 PROVE  queue'[n][1] \in DOMAIN requests
      OBVIOUS
    <3>1. n \in 1 .. q \/ n = q + 1
      BY <1>2, <1>5
    <3> QED
      BY <1>1, <1>5, <3>1 DEF TasksOfReports, q
  <2> QED
    BY <1>1, <1>6, <2>1 DEF TasksOfReports
<1>9. SummaryIsLast'
  <2> SUFFICES ASSUME NEW j \in DOMAIN requests, Uploaded[j] = {}
               PROVE  /\ \A n \in 1 .. Len(requests'[j]) :
                           requests'[j][n] = "summary" => n = Len(requests'[j])
                      /\ \A n \in 1 .. Len(queue') : queue'[n] = <<j, "summary">> =>
                           /\ requests'[j] = <<>>
                           /\ \A m \in 1 .. Len(queue') : m > n => queue'[m][1] # j
                      /\ <<j, "summary">> \in DOMAIN running =>
                           requests'[j] = <<>> /\ \A m \in 1 .. Len(queue') : queue'[m][1] # j
    BY <1>1, <1>6 DEF SummaryIsLast
  <2>1. /\ \A n \in 1 .. Len(requests[j]) : requests[j][n] = "summary" => n = Len(requests[j])
        /\ \A n \in 1 .. q : queue[n] = <<j, "summary">> =>
             requests[j] = <<>> /\ \A m \in 1 .. q : m > n => queue[m][1] # j
        /\ <<j, "summary">> \in DOMAIN running =>
             requests[j] = <<>> /\ \A m \in 1 .. q : queue[m][1] # j
    BY DEF SummaryIsLast, q
  <2>2. \A n \in 1 .. Len(queue') : n \in 1 .. q \/ n = q + 1
    BY <1>2, <1>5
  <2>3. CASE j # i
    <3>1. requests'[j] = requests[j] /\ queue'[q + 1][1] # j
      BY <1>5, <1>6, <2>3
    <3>2. \A n \in 1 .. Len(queue') : queue'[n] = <<j, "summary">> => n \in 1 .. q
      BY <1>5, <2>2, <2>3
    <3>3. \A m \in 1 .. Len(queue') : queue'[m][1] = j => m \in 1 .. q /\ queue'[m] = queue[m]
      BY <1>5, <2>2, <3>1
    <3> QED
      BY <1>5, <2>1, <3>1, <3>2, <3>3
  <2>4. CASE j = i
    <3>1. /\ \A n \in 1 .. q : queue[n] # <<i, "summary">>
          /\ <<i, "summary">> \notin DOMAIN running
      BY <1>1, <2>1, <2>4
    <3>2. first = "summary" => requests'[i] = <<>>
      <4>1. 1 \in 1 .. Len(requests[i])
        BY <1>3
      <4>2. first = "summary" => 1 = Len(requests[i])
        BY <1>3, <2>1, <2>4, <4>1
      <4> QED
        BY <1>6, <4>2
    <3>3. \A n \in 1 .. Len(requests'[i]) :
            requests'[i][n] = "summary" => n = Len(requests'[i])
      <4>1. ASSUME NEW n \in 1 .. Len(requests'[i]), requests'[i][n] = "summary"
            PROVE  n + 1 = Len(requests[i])
        BY <1>6, <2>1, <2>4, <4>1
      <4> QED
        BY <1>3, <1>6, <4>1
    <3>4. \A n \in 1 .. Len(queue') : queue'[n] = <<i, "summary">> =>
            n = q + 1 /\ requests'[i] = <<>>
      BY <1>5, <2>2, <3>1, <3>2
    <3>5. \A n, m \in 1 .. Len(queue') : n = q + 1 => ~(m > n)
      BY <1>2, <1>5
    <3> QED
      BY <2>4, <3>1, <3>3, <3>4, <3>5
  <2> QED
    BY <2>3, <2>4
<1>10. \A j \in DOMAIN requests :
         /\ ToSubmit(j)' => ToSubmit(j)
         /\ Queued(j)' => Queued(j) \/ (j = i /\ first = "priority")
         /\ j = i /\ first = "priority" => ToSubmit(j) /\ ~ToSubmit(j)'
  <2> SUFFICES ASSUME NEW j \in DOMAIN requests
               PROVE  /\ ToSubmit(j)' => ToSubmit(j)
                      /\ Queued(j)' => Queued(j) \/ (j = i /\ first = "priority")
                      /\ j = i /\ first = "priority" => ToSubmit(j) /\ ~ToSubmit(j)'
    OBVIOUS
  <2>1. ToSubmit(j)' => ToSubmit(j)
    <3>1. CASE j = i
      BY <1>6, <3>1 DEF ToSubmit
    <3>2. CASE j # i
      BY <1>6, <3>2 DEF ToSubmit
    <3> QED
      BY <3>1, <3>2
  <2>2. Queued(j)' => Queued(j) \/ (j = i /\ first = "priority")
    <3>1. \A n \in 1 .. Len(queue') : n \in 1 .. q \/ n = q + 1
      BY <1>2, <1>5
    <3> QED
      BY <1>5, <3>1 DEF Queued, q
  <2>3. ASSUME j = i, first = "priority"
        PROVE  ToSubmit(j) /\ ~ToSubmit(j)'
    <3>1. 1 \in 1 .. Len(requests[i]) /\ requests[i][1] = "priority"
      BY <1>3, <2>3
    <3>2. \A n \in 1 .. Len(requests[i]) : requests[i][n] = "priority" => n = 1
      BY <1>1, <3>1 DEF OnePriorityTask
    <3>3. \A n \in 1 .. Len(requests'[i]) : n + 1 # 1
      BY <1>3, <1>6
    <3>4. \A n \in 1 .. Len(requests'[i]) : requests'[i][n] # "priority"
      BY <1>6, <3>2, <3>3
    <3> QED
      BY <2>3, <3>1, <3>4 DEF ToSubmit
  <2> QED
    BY <2>1, <2>2, <2>3
<1>11. OnePriorityTask'
  <2>1. \A j \in DOMAIN requests : \A m, n \in 1 .. Len(requests'[j]) :
          requests'[j][m] = "priority" /\ requests'[j][n] = "priority" => m = n
    <3> SUFFICES ASSUME NEW j \in DOMAIN requests, NEW m \in 1 .. Len(requests'[j]),
                        NEW n \in 1 .. Len(requests'[j]),
                        requests'[j][m] = "priority", requests'[j][n] = "priority"
                 PROVE  m = n
      OBVIOUS
    <3>0. \A k \in DOMAIN requests : \A a, b \in 1 .. Len(requests[k]) :
            requests[k][a] = "priority" /\ requests[k][b] = "priority" => a = b
      BY DEF OnePriorityTask
    <3>1. CASE j = i
      <4>1. /\ m + 1 \in 1 .. Len(requests[i]) /\ requests[i][m + 1] = "priority"
            /\ n + 1 \in 1 .. Len(requests[i]) /\ requests[i][n + 1] = "priority"
        BY <1>6, <3>1
      <4>2. m + 1 = n + 1
        BY <1>1, <3>0, <4>1
      <4> QED
        BY <4>2
    <3>2. CASE j # i
      <4>1. requests'[j] = requests[j]
        BY <1>6, <3>2
      <4> QED
        BY <3>0, <4>1
    <3> QED
      BY <3>1, <3>2
  <2>2. \A j \in DOMAIN requests : \A m, n \in 1 .. Len(queue') :
          queue'[m] = <<j, "priority">> /\ queue'[n] = <<j, "priority">> => m = n
    <3> SUFFICES ASSUME NEW j \in DOMAIN requests, NEW m \in 1 .. Len(queue'),
                        NEW n \in 1 .. Len(queue'),
                        queue'[m] = <<j, "priority">>, queue'[n] = <<j, "priority">>
                 PROVE  m = n
      OBVIOUS
    <3>1. (m \in 1 .. q \/ m = q + 1) /\ (n \in 1 .. q \/ n = q + 1)
      BY <1>2, <1>5
    <3>2. CASE m \in 1 .. q /\ n \in 1 .. q
      BY <1>5, <3>2 DEF OnePriorityTask, q
    <3>3. CASE m = q + 1 \/ n = q + 1
      <4>1. j = i /\ first = "priority"
        BY <1>5, <3>3
      <4>2. ~Queued(j)
        BY <1>1, <1>10, <4>1 DEF OnePriorityTask
      <4> QED
        BY <1>5, <3>1, <4>2 DEF Queued, q
    <3> QED
      BY <3>1, <3>2, <3>3
  <2> QED
    BY <1>1, <1>6, <1>10, <2>1, <2>2 DEF OnePriorityTask
<1>12. TextIsTrue' /\ EditsAreRead' /\ Tasks!CommentTellsTheTruth' /\ Tasks!EditsSurvive'
  BY <1>1, <1>6 DEF TextIsTrue, EditsAreRead, Tasks!CommentTellsTheTruth, Tasks!EditsSurvive
<1> QED
  BY <1>7, <1>8, <1>9, <1>11, <1>12

LEMMA TaskTaken ==
  ASSUME Tasks!Assumptions, TasksInv, Tasks!TakeTask
  PROVE  TasksInv'
<1> USE DEF TasksInv
<1> DEFINE t == Head(queue)  q == Len(queue)
<1>1. /\ queue # <<>> /\ Tasks!Cardinality(DOMAIN running) < MaxWorkers
      /\ running' = [u \in DOMAIN running \cup {t} |->
                       IF u \in DOMAIN running THEN running[u] ELSE Tasks!NewTask]
      /\ queue' = Tail(queue) /\ UNCHANGED <<requests, s3, jira, loki, history>>
  BY DEF Tasks!TakeTask
<1>2. queue \in Seq(Issues \X Tasks!Kinds)
  BY DEF Tasks!TypeOK
<1>3. /\ t \in Issues \X Tasks!Kinds /\ t = queue[1] /\ q \in Nat \ {0}
      /\ queue' \in Seq(Issues \X Tasks!Kinds) /\ Len(queue') = q - 1
      /\ \A n \in 1 .. Len(queue') : queue'[n] = queue[n + 1] /\ n + 1 \in 1 .. q
  BY <1>1, <1>2, HeadTailProperties
<1>4. t[1] \in DOMAIN requests
  BY <1>3 DEF TasksOfReports
<1>5. /\ Tasks!NewTask \in Task /\ Tasks!NewTask.step = "start" /\ Tasks!NewTask.text = "failed"
      /\ Tasks!NewTask.sent < Batches
  BY DEF Tasks!NewTask, Task, Tasks!Steps, Tasks!Assumptions
<1> HIDE DEF t
<1>6. /\ DOMAIN running' = DOMAIN running \cup {t}
      /\ running' \in [DOMAIN running' -> Task]
      /\ \A u \in DOMAIN running : running'[u] = running[u]
      /\ t \notin DOMAIN running => running'[t] = Tasks!NewTask
  BY <1>1, <1>5, TypesOfTasks
<1>7. IsFiniteSet(DOMAIN running') /\ Tasks!Cardinality(DOMAIN running') <= MaxWorkers
  <2>1. IsFiniteSet(DOMAIN running) /\ Cardinality(DOMAIN running) < MaxWorkers
    BY <1>1, TaskCount DEF TasksOfReports
  <2>2. /\ IsFiniteSet(DOMAIN running')
        /\ Cardinality(DOMAIN running') \in {Cardinality(DOMAIN running), Cardinality(DOMAIN running) + 1}
    BY <1>6, <2>1, FS_AddElement
  <2>3. Cardinality(DOMAIN running) \in Nat /\ MaxWorkers \in Nat
    BY <2>1, FS_CardinalityType DEF Tasks!Assumptions
  <2> QED
    BY <2>1, <2>2, <2>3, TaskCount
<1>8. Tasks!TypeOK'
  BY <1>1, <1>3, <1>6, <1>7 DEF Tasks!TypeOK, Task
<1>9. TasksOfReports'
  BY <1>1, <1>3, <1>4, <1>5, <1>6, <1>7 DEF TasksOfReports
<1> HIDE DEF q
<1>10. SummaryIsLast'
  <2>0. requests' = requests
    BY <1>1
  <2> SUFFICES ASSUME NEW j \in DOMAIN requests, Uploaded[j] = {}
               PROVE  /\ \A n \in 1 .. Len(requests[j]) :
                           requests[j][n] = "summary" => n = Len(requests[j])
                      /\ \A n \in 1 .. Len(queue') : queue'[n] = <<j, "summary">> =>
                           /\ requests[j] = <<>>
                           /\ \A m \in 1 .. Len(queue') : m > n => queue'[m][1] # j
                      /\ <<j, "summary">> \in DOMAIN running' =>
                           requests[j] = <<>> /\ \A m \in 1 .. Len(queue') : queue'[m][1] # j
    BY <2>0 DEF SummaryIsLast
  <2>1. /\ \A n \in 1 .. Len(requests[j]) : requests[j][n] = "summary" => n = Len(requests[j])
        /\ \A n \in 1 .. q : queue[n] = <<j, "summary">> =>
             requests[j] = <<>> /\ \A m \in 1 .. q : m > n => queue[m][1] # j
        /\ <<j, "summary">> \in DOMAIN running =>
             requests[j] = <<>> /\ \A m \in 1 .. q : queue[m][1] # j
    BY DEF SummaryIsLast, q
  <2>2. \A m, n \in 1 .. Len(queue') : m > n => m + 1 > n + 1
    BY <1>3
  <2>3. \A m \in 1 .. Len(queue') : m + 1 > 1 /\ 1 \in 1 .. q
    BY <1>3
  <2>4. \A n \in 1 .. Len(queue') : queue'[n] = <<j, "summary">> =>
          /\ requests[j] = <<>>
          /\ \A m \in 1 .. Len(queue') : m > n => queue'[m][1] # j
    <3> SUFFICES ASSUME NEW n \in 1 .. Len(queue'), queue'[n] = <<j, "summary">>
                 PROVE  /\ requests[j] = <<>>
                        /\ \A m \in 1 .. Len(queue') : m > n => queue'[m][1] # j
      OBVIOUS
    <3>1. n + 1 \in 1 .. q /\ queue[n + 1] = <<j, "summary">>
      BY <1>3
    <3>2. requests[j] = <<>> /\ \A m \in 1 .. q : m > n + 1 => queue[m][1] # j
      BY <2>1, <3>1
    <3> QED
      BY <1>3, <2>2, <3>2
  <2>5. <<j, "summary">> \in DOMAIN running' =>
          requests[j] = <<>> /\ \A m \in 1 .. Len(queue') : queue'[m][1] # j
    <3>1. CASE t = <<j, "summary">>
      <4>1. queue[1] = <<j, "summary">> /\ 1 \in 1 .. q
        BY <1>3, <3>1
      <4>2. requests[j] = <<>> /\ \A m \in 1 .. q : m > 1 => queue[m][1] # j
        BY <2>1, <4>1
      <4> QED
        BY <1>3, <2>3, <4>2
    <3>2. CASE t # <<j, "summary">>
      BY <1>3, <1>6, <2>1, <3>2
    <3> QED
      BY <3>1, <3>2
  <2> QED
    BY <2>1, <2>4, <2>5
<1>11. \A j \in DOMAIN requests :
         /\ Queued(j)' => Queued(j)
         /\ t = <<j, "priority">> => Queued(j) /\ ~Queued(j)'
         /\ ToSubmit(j)' <=> ToSubmit(j)
  <2> SUFFICES ASSUME NEW j \in DOMAIN requests
               PROVE  /\ Queued(j)' => Queued(j)
                      /\ t = <<j, "priority">> => Queued(j) /\ ~Queued(j)'
                      /\ ToSubmit(j)' <=> ToSubmit(j)
    OBVIOUS
  <2>1. Queued(j)' => Queued(j)
    BY <1>3 DEF Queued, q
  <2>2. ASSUME t = <<j, "priority">>
        PROVE  Queued(j) /\ ~Queued(j)'
    <3>1. 1 \in 1 .. Len(queue) /\ queue[1] = <<j, "priority">>
      BY <1>3, <2>2 DEF q
    <3>2. \A n \in 1 .. Len(queue) : queue[n] = <<j, "priority">> => n = 1
      BY <3>1 DEF OnePriorityTask
    <3>3. \A n \in 1 .. Len(queue') : n + 1 # 1
      BY <1>3
    <3>4. \A n \in 1 .. Len(queue') : queue'[n] # <<j, "priority">>
      BY <1>3, <3>2, <3>3 DEF q
    <3> QED
      BY <3>1, <3>4 DEF Queued
  <2>3. ToSubmit(j)' <=> ToSubmit(j)
    BY <1>1 DEF ToSubmit
  <2> QED
    BY <2>1, <2>2, <2>3
<1>12. OnePriorityTask'
  <2>1. \A j \in DOMAIN requests : \A m, n \in 1 .. Len(queue') :
          queue'[m] = <<j, "priority">> /\ queue'[n] = <<j, "priority">> => m = n
    <3> SUFFICES ASSUME NEW j \in DOMAIN requests, NEW m \in 1 .. Len(queue'),
                        NEW n \in 1 .. Len(queue'),
                        queue'[m] = <<j, "priority">>, queue'[n] = <<j, "priority">>
                 PROVE  m = n
      OBVIOUS
    <3>1. /\ m + 1 \in 1 .. Len(queue) /\ queue[m + 1] = <<j, "priority">>
          /\ n + 1 \in 1 .. Len(queue) /\ queue[n + 1] = <<j, "priority">>
      BY <1>3 DEF q
    <3>2. m + 1 = n + 1
      BY <3>1 DEF OnePriorityTask
    <3> QED
      BY <3>2
  <2>2. \A j \in DOMAIN requests : <<j, "priority">> \in DOMAIN running' =>
          ~ToSubmit(j)' /\ ~Queued(j)' /\ jira[j].comments = <<>>
    BY <1>6, <1>11 DEF OnePriorityTask
  <2>3. \A j \in DOMAIN requests :
          /\ \A m, n \in 1 .. Len(requests[j]) :
               requests[j][m] = "priority" /\ requests[j][n] = "priority" => m = n
          /\ ToSubmit(j)' => ~Queued(j)'
          /\ ToSubmit(j)' \/ Queued(j)' => jira[j].comments = <<>> /\ jira[j].priority # "gpt"
    BY <1>11 DEF OnePriorityTask
  <2> QED
    BY <1>1, <2>1, <2>2, <2>3 DEF OnePriorityTask
<1>13. TextIsTrue'
  <2> SUFFICES ASSUME NEW j \in DOMAIN requests, <<j, "priority">> \in DOMAIN running'
               PROVE  LET task == running'[<<j, "priority">>] IN
                      /\ task.step = "start" => task.text = "failed" /\ jira[j].priority # "gpt"
                      /\ task.step = "comment" =>
                           /\ task.text = "set" =>
                                jira[j].priority # "none" \/ j \in history.unclear
                           /\ task.text = "failed" =>
                                jira[j].priority # "gpt" \/ j \in history.unclear
    BY <1>1 DEF TextIsTrue
  <2>1. CASE <<j, "priority">> \in DOMAIN running
    BY <1>6, <2>1 DEF TextIsTrue
  <2>2. CASE <<j, "priority">> \notin DOMAIN running
    <3>1. t = <<j, "priority">> /\ running'[<<j, "priority">>] = Tasks!NewTask
      BY <1>6, <2>2
    <3> QED
      BY <1>5, <1>11, <3>1 DEF OnePriorityTask
  <2> QED
    BY <2>1, <2>2
<1>14. EditsAreRead' /\ Tasks!CommentTellsTheTruth' /\ Tasks!EditsSurvive'
  BY <1>1, <1>5, <1>6 DEF EditsAreRead, Tasks!CommentTellsTheTruth, Tasks!EditsSurvive
<1> QED
  BY <1>8, <1>9, <1>10, <1>12, <1>13, <1>14
(* An issue whose priority or comments a task changes.                      *)
OnlyIssue(i) == /\ jira' \in [Issues -> JiraIssue]
                /\ \A j \in Issues \ {i} : jira'[j] = jira[j]

LEMMA SameTasksWait ==
  ASSUME OnePriorityTask, UNCHANGED <<requests, queue>>, DOMAIN running' \subseteq DOMAIN running,
         \A i \in DOMAIN requests :
           /\ ToSubmit(i) \/ Queued(i) =>
                /\ jira'[i].comments = jira[i].comments
                /\ jira'[i].priority = jira[i].priority \/ jira'[i].priority # "gpt"
           /\ <<i, "priority">> \in DOMAIN running' => jira'[i].comments = jira[i].comments
  PROVE  OnePriorityTask'
<1>1. \A i \in DOMAIN requests : (ToSubmit(i)' <=> ToSubmit(i)) /\ (Queued(i)' <=> Queued(i))
  BY DEF ToSubmit, Queued
<1>2. requests' = requests /\ queue' = queue
  OBVIOUS
<1> SUFFICES ASSUME NEW i \in DOMAIN requests'
             PROVE  /\ \A m, n \in 1 .. Len(requests'[i]) :
                         requests'[i][m] = "priority" /\ requests'[i][n] = "priority" => m = n
                    /\ \A m, n \in 1 .. Len(queue') :
                         queue'[m] = <<i, "priority">> /\ queue'[n] = <<i, "priority">> => m = n
                    /\ ToSubmit(i)' => ~Queued(i)'
                    /\ <<i, "priority">> \in DOMAIN running' =>
                         ~ToSubmit(i)' /\ ~Queued(i)' /\ jira'[i].comments = <<>>
                    /\ ToSubmit(i)' \/ Queued(i)' =>
                         jira'[i].comments = <<>> /\ jira'[i].priority # "gpt"
  BY DEF OnePriorityTask
<1>3. i \in DOMAIN requests
  BY <1>2
<1>4. /\ \A m, n \in 1 .. Len(requests[i]) :
           requests[i][m] = "priority" /\ requests[i][n] = "priority" => m = n
      /\ \A m, n \in 1 .. Len(queue) :
           queue[m] = <<i, "priority">> /\ queue[n] = <<i, "priority">> => m = n
      /\ ToSubmit(i) => ~Queued(i)
  BY <1>3 DEF OnePriorityTask
<1>5. <<i, "priority">> \in DOMAIN running' =>
        ~ToSubmit(i) /\ ~Queued(i) /\ jira'[i].comments = <<>>
  BY <1>3 DEF OnePriorityTask
<1>6. ToSubmit(i) \/ Queued(i) => jira'[i].comments = <<>> /\ jira'[i].priority # "gpt"
  BY <1>3 DEF OnePriorityTask
<1> QED
  BY <1>1, <1>2, <1>3, <1>4, <1>5, <1>6

LEMMA PriorityEstimated ==
  ASSUME Tasks!Assumptions, TasksInv, NEW i \in Issues, Tasks!EstimatePriority(i)
  PROVE  TasksInv' /\ Tasks!KeepsPriority
<1> USE DEF TasksInv
<1> DEFINE t == <<i, "priority">>
<1>1. /\ t \in DOMAIN running /\ running[t].step = "start" /\ UNCHANGED <<requests, queue, s3, loki>>
  BY DEF Tasks!EstimatePriority, Tasks!At
<1>2. i \in DOMAIN requests /\ running[t] \in Task /\ running[t].text = "failed"
      /\ jira[i].priority # "gpt" /\ jira[i].comments = <<>> /\ running[t].sent < Batches
  BY <1>1, TypesOfTasks DEF TasksOfReports, TextIsTrue, OnePriorityTask
<1>3. PICK text \in {"set", "failed"} :
        /\ running' = [running EXCEPT ![t] = [running[t] EXCEPT !.step = "comment", !.text = text]]
        /\ \/ jira' = [jira EXCEPT ![i].priority = "gpt"] \/ UNCHANGED jira
        /\ history' \in Past /\ history'.edited = history.edited
        /\ history'.overlapped = history.overlapped /\ history.unclear \subseteq history'.unclear
        /\ text = "set" => jira' = [jira EXCEPT ![i].priority = "gpt"] \/ i \in history'.unclear
        /\ text = "failed" => jira' = jira \/ i \in history'.unclear
  <2>0. history \in Past /\ MaxFaults \in Nat
    BY TypesOfTasks DEF Tasks!Assumptions
  <2>1. CASE /\ jira' = [jira EXCEPT ![i].priority = "gpt"]
             /\ running' = [running EXCEPT ![t].step = "comment", ![t].text = "set"]
             /\ Tasks!NoFault
    <3>1. running' = [running EXCEPT ![t] = [running[t] EXCEPT !.step = "comment", !.text = "set"]]
      BY <1>1, <2>1, TypesOfTasks
    <3> QED
      BY <2>0, <2>1, <3>1 DEF Tasks!NoFault
  <2>2. CASE /\ UNCHANGED jira
             /\ running' = [running EXCEPT ![t].step = "comment", ![t].text = "set"]
             /\ history' = [history EXCEPT !.unclear = @ \cup {i}]
    <3>1. running' = [running EXCEPT ![t] = [running[t] EXCEPT !.step = "comment", !.text = "set"]]
      BY <1>1, <2>2, TypesOfTasks
    <3>2. history' \in Past /\ history'.edited = history.edited
          /\ history'.overlapped = history.overlapped /\ history.unclear \subseteq history'.unclear
          /\ i \in history'.unclear
      BY <2>0, <2>2 DEF Past
    <3> QED
      BY <2>2, <3>1, <3>2
  <2>3. CASE /\ UNCHANGED jira
             /\ Tasks!GoTo(t, "comment") /\ Tasks!Fault
    <3>1. running' = [running EXCEPT ![t] = [running[t] EXCEPT !.step = "comment", !.text = "failed"]]
      BY <1>1, <1>2, <2>3 DEF Tasks!GoTo, Task
    <3>2. HistoryKept
      BY <2>3, FaultsCount
    <3> QED
      BY <2>3, <3>1, <3>2 DEF HistoryKept
  <2>4. CASE /\ history.faults < MaxFaults
             /\ jira' = [jira EXCEPT ![i].priority = "gpt"]
             /\ Tasks!GoTo(t, "comment")
             /\ history' = [history EXCEPT !.faults = @ + 1, !.unclear = @ \cup {i}]
    <3>1. running' = [running EXCEPT ![t] = [running[t] EXCEPT !.step = "comment", !.text = "failed"]]
      BY <1>1, <1>2, <2>4 DEF Tasks!GoTo, Task
    <3>2. history.faults + 1 \in 0 .. MaxFaults
      BY <2>0, <2>4 DEF Past
    <3>3. history' \in Past /\ history'.edited = history.edited
          /\ history'.overlapped = history.overlapped /\ history.unclear \subseteq history'.unclear
          /\ i \in history'.unclear
      BY <2>0, <2>4, <3>2 DEF Past
    <3> QED
      BY <2>4, <3>1, <3>3
  <2> QED
    BY <2>1, <2>2, <2>3, <2>4 DEF Tasks!EstimatePriority
<1> DEFINE task == [running[t] EXCEPT !.step = "comment", !.text = text]
<1>4. task \in Task /\ task.step = "comment" /\ task.text = text /\ task.sent = running[t].sent
  BY <1>2 DEF Task, Tasks!Steps
<1> HIDE DEF task
<1>5. OnlyTask(t) /\ running'[t] = task
  BY <1>1, <1>3, <1>4, TaskBecomes DEF task
<1>6. /\ OnlyIssue(i) /\ \A j \in Issues : jira'[j].comments = jira[j].comments
                                        /\ jira'[j].description = jira[j].description
      /\ jira' = [jira EXCEPT ![i].priority = "gpt"] => jira'[i].priority = "gpt"
  <2>1. CASE UNCHANGED jira
    <3>1. jira \in [Issues -> JiraIssue]
      BY TypesOfTasks
    <3>2. jira = [jira EXCEPT ![i].priority = "gpt"] => jira[i].priority = "gpt"
      <4>1. [jira EXCEPT ![i].priority = "gpt"][i].priority = "gpt"
        BY <3>1 DEF JiraIssue
      <4> QED
        BY <4>1
    <3> QED
      BY <2>1, <3>1, <3>2 DEF OnlyIssue
  <2>2. CASE jira' = [jira EXCEPT ![i].priority = "gpt"]
    <3> DEFINE issue == [jira[i] EXCEPT !.priority = "gpt"]
    <3>1. jira \in [Issues -> JiraIssue] /\ jira[i] \in JiraIssue
      BY TypesOfTasks
    <3>2. /\ issue \in JiraIssue /\ issue.priority = "gpt" /\ issue.comments = jira[i].comments
          /\ issue.description = jira[i].description
      BY <3>1 DEF JiraIssue
    <3>3. jira' = [jira EXCEPT ![i] = issue]
      BY <2>2
    <3> HIDE DEF issue
    <3> QED
      BY <3>1, <3>2, <3>3 DEF OnlyIssue
  <2> QED
    BY <1>3, <2>1, <2>2
<1> HIDE DEF t
<1>7. Tasks!TypeOK'
  BY <1>1, <1>3, <1>5, <1>6 DEF Tasks!TypeOK, OnlyTask, OnlyIssue, Past, JiraIssue, Task
<1>8. TasksOfReports' /\ SummaryIsLast'
  BY <1>1, <1>2, <1>4, <1>5 DEF TasksOfReports, SummaryIsLast, OnlyTask
<1>9. OnePriorityTask'
  <2>1. ~ToSubmit(i) /\ ~Queued(i)
    BY <1>1, <1>2 DEF OnePriorityTask, t
  <2>2. UNCHANGED <<requests, queue>> /\ DOMAIN running' \subseteq DOMAIN running
    BY <1>1, <1>5 DEF OnlyTask
  <2>3. \A j \in DOMAIN requests : j \in Issues /\ jira'[j].comments = jira[j].comments
                                 /\ (j # i => jira'[j] = jira[j])
    BY <1>6 DEF Tasks!TypeOK, OnlyIssue
  <2> QED
    BY <2>1, <2>2, <2>3, SameTasksWait
<1>10. TextIsTrue'
  <2>1. DOMAIN requests \subseteq Issues
    BY DEF Tasks!TypeOK
  <2>2. ASSUME NEW j \in DOMAIN requests, j # i, <<j, "priority">> \in DOMAIN running'
        PROVE  /\ jira'[j] = jira[j] /\ running'[<<j, "priority">>] = running[<<j, "priority">>]
               /\ <<j, "priority">> \in DOMAIN running
    BY <1>5, <1>6, <2>1, <2>2 DEF OnlyTask, OnlyIssue, t
  <2>3. /\ running'[<<i, "priority">>].step = "comment"
        /\ running'[<<i, "priority">>].text = text
    BY <1>4, <1>5 DEF t
  <2>4. /\ text = "set" => jira'[i].priority # "none" \/ i \in history'.unclear
        /\ text = "failed" => jira'[i].priority # "gpt" \/ i \in history'.unclear
    BY <1>2, <1>3, <1>6
  <2> QED
    <3> SUFFICES ASSUME NEW j \in DOMAIN requests, <<j, "priority">> \in DOMAIN running'
                 PROVE  LET new == running'[<<j, "priority">>] IN
                        /\ new.step = "start" => new.text = "failed" /\ jira'[j].priority # "gpt"
                        /\ new.step = "comment" =>
                             /\ new.text = "set" =>
                                  jira'[j].priority # "none" \/ j \in history'.unclear
                             /\ new.text = "failed" =>
                                  jira'[j].priority # "gpt" \/ j \in history'.unclear
      BY <1>1 DEF TextIsTrue
    <3>1. CASE j = i
      BY <2>3, <2>4, <3>1
    <3>2. CASE j # i
      <4> DEFINE old == running[<<j, "priority">>]
      <4>1. /\ jira'[j] = jira[j] /\ running'[<<j, "priority">>] = old
            /\ <<j, "priority">> \in DOMAIN running
        BY <2>2, <3>2
      <4>2. /\ old.step = "start" => old.text = "failed" /\ jira[j].priority # "gpt"
            /\ old.step = "comment" =>
                 /\ old.text = "set" => jira[j].priority # "none" \/ j \in history.unclear
                 /\ old.text = "failed" => jira[j].priority # "gpt" \/ j \in history.unclear
        BY <4>1 DEF TextIsTrue
      <4>3. j \in history.unclear => j \in history'.unclear
        BY <1>3
      <4> HIDE DEF old
      <4> QED
        BY <4>1, <4>2, <4>3
    <3> QED
      BY <3>1, <3>2
<1>11. Tasks!CommentTellsTheTruth'
  <2>1. \A j \in Issues : /\ jira'[j].comments = jira[j].comments
                          /\ j # i => jira'[j].priority = jira[j].priority
    BY <1>6 DEF OnlyIssue
  <2>2. Len(<<>>) = 0 /\ <<>> # <<"set">> /\ <<>> # <<"failed">>
    OBVIOUS
  <2> QED
    BY <1>2, <1>3, <2>1, <2>2 DEF Tasks!CommentTellsTheTruth
<1>12. EditsAreRead' /\ Tasks!EditsSurvive'
  <2>1. \A j : <<j, "summary">> # t
    BY DEF t
  <2> QED
    BY <1>3, <1>5, <1>6, <2>1 DEF EditsAreRead, Tasks!EditsSurvive, OnlyTask, Past
<1>13. Tasks!KeepsPriority
  <2>1. jira'[i].priority \in {jira[i].priority, "gpt"}
    BY <1>3, <1>6
  <2>2. /\ \A j \in Issues \ {i} : jira'[j].priority = jira[j].priority
        /\ jira'[i].comments = <<>>
    BY <1>2, <1>6 DEF OnlyIssue
  <2>3. <<i, "priority">> \in DOMAIN running' /\ running'[<<i, "priority">>].step = "comment"
    BY <1>1, <1>4, <1>5 DEF OnlyTask, t
  <2> QED
    BY <2>1, <2>2, <2>3 DEF Tasks!KeepsPriority
<1> QED
  BY <1>7, <1>8, <1>9, <1>10, <1>11, <1>12, <1>13

LEMMA PriorityCommented ==
  ASSUME Tasks!Assumptions, TasksInv, NEW i \in Issues, Tasks!CommentPriority(i)
  PROVE  TasksInv' /\ Tasks!KeepsPriority
<1> USE DEF TasksInv
<1> DEFINE t == <<i, "priority">>
<1>1. /\ t \in DOMAIN running /\ running[t].step = "comment"
      /\ UNCHANGED <<requests, queue, s3, loki>> /\ Tasks!Ends(t)
      /\ \/ jira' = [jira EXCEPT ![i].comments = Append(@, running[t].text)] /\ Tasks!NoFault
         \/ UNCHANGED jira /\ Tasks!Fault
  BY DEF Tasks!CommentPriority, Tasks!At
<1>2. LastStep(t) /\ HistoryKept
  BY <1>1, TaskEnds, FaultsCount
<1>3. CASE UNCHANGED jira
  <2>1. TasksInv'
    BY <1>1, <1>2, <1>3, TaskIsOver, TypesOfTasks
  <2> QED
    BY <1>3, <2>1 DEF Tasks!KeepsPriority
<1>4. CASE jira' = [jira EXCEPT ![i].comments = Append(@, running[t].text)]
  <2>1. /\ i \in DOMAIN requests /\ running[t] \in Task /\ jira[i].comments = <<>>
        /\ ~ToSubmit(i) /\ ~Queued(i)
        /\ running[t].text = "set" => jira[i].priority # "none" \/ i \in history.unclear
        /\ running[t].text = "failed" => jira[i].priority # "gpt" \/ i \in history.unclear
    BY <1>1, TypesOfTasks DEF TasksOfReports, TextIsTrue, OnePriorityTask
  <2>2. running[t].text \in {"set", "failed"}
    BY <2>1 DEF Task
  <2>3. jira' = [jira EXCEPT ![i].comments = <<running[t].text>>]
    <3>1. Append(<<>>, running[t].text) = <<running[t].text>>
      BY <2>2
    <3> QED
      BY <1>4, <2>1, <3>1
  <2>4. /\ OnlyIssue(i) /\ jira'[i].comments = <<running[t].text>>
        /\ \A j \in Issues : jira'[j].priority = jira[j].priority
                          /\ jira'[j].description = jira[j].description
    <3>1. <<running[t].text>> \in Seq({"failed", "set"})
      BY <2>2
    <3> QED
      BY <2>3, <3>1, TypesOfTasks DEF OnlyIssue, JiraIssue
  <2> HIDE DEF t
  <2>5. /\ IsFiniteSet(DOMAIN running')
        /\ Cardinality(DOMAIN running') <= Cardinality(DOMAIN running)
        /\ Cardinality(DOMAIN running') \in Nat /\ Cardinality(DOMAIN running) \in Nat
    BY <1>2, FS_Subset, FS_CardinalityType DEF TasksOfReports, LastStep
  <2>6. Tasks!TypeOK'
    <3>1. Tasks!Cardinality(DOMAIN running') <= MaxWorkers
      BY <2>5, TaskCount DEF Tasks!TypeOK, Tasks!Assumptions
    <3> QED
      BY <1>1, <1>2, <2>4, <3>1 DEF Tasks!TypeOK, LastStep, HistoryKept, OnlyIssue, Past, Task, JiraIssue
  <2>7. TasksOfReports' /\ SummaryIsLast'
    BY <1>1, <1>2, <2>5 DEF TasksOfReports, SummaryIsLast, LastStep
  <2>8. OnePriorityTask'
    <3>1. UNCHANGED <<requests, queue>> /\ DOMAIN running' = DOMAIN running \ {t}
      BY <1>1, <1>2 DEF LastStep
    <3>2. \A j \in DOMAIN requests : /\ <<j, "priority">> \in DOMAIN running' => j # i
                                     /\ j # i => jira'[j] = jira[j]
      BY <2>4, <3>1 DEF t, OnlyIssue, Tasks!TypeOK
    <3> QED
      BY <2>1, <3>1, <3>2, SameTasksWait
  <2>9. TextIsTrue'
    <3>1. \A j \in DOMAIN requests : j \in Issues
      BY DEF Tasks!TypeOK
    <3> QED
      BY <1>1, <1>2, <2>4, <3>1 DEF TextIsTrue, LastStep, HistoryKept
  <2>10. Tasks!CommentTellsTheTruth'
    <3>1. \A text : Len(<<text>>) = 1 /\ (<<text>> = <<"set">> => text = "set")
                    /\ (<<text>> = <<"failed">> => text = "failed")
      OBVIOUS
    <3>2. \A j \in Issues : j # i => jira'[j] = jira[j]
      BY <2>4 DEF OnlyIssue
    <3> QED
      <4> SUFFICES ASSUME NEW j \in Issues
                   PROVE  /\ Len(jira'[j].comments) <= 1
                          /\ jira'[j].comments = <<"set">> =>
                               jira'[j].priority # "none" \/ j \in history.unclear
                          /\ jira'[j].comments = <<"failed">> =>
                               jira'[j].priority # "gpt" \/ j \in history.unclear
        BY <1>2 DEF Tasks!CommentTellsTheTruth, HistoryKept
      <4>1. CASE j = i
        <5>1. jira'[i].comments = <<running[t].text>> /\ jira'[i].priority = jira[i].priority
          BY <2>4
        <5> QED
          BY <2>1, <3>1, <4>1, <5>1
      <4>2. CASE j # i
        BY <3>2, <4>2 DEF Tasks!CommentTellsTheTruth
      <4> QED
        BY <4>1, <4>2
  <2>11. EditsAreRead' /\ Tasks!EditsSurvive'
    BY <1>2, <2>4 DEF EditsAreRead, Tasks!EditsSurvive, LastStep, HistoryKept, Past
  <2> QED
    BY <2>4, <2>6, <2>7, <2>8, <2>9, <2>10, <2>11 DEF Tasks!KeepsPriority
<1> QED
  BY <1>1, <1>3, <1>4

LEMMA DescriptionWritten ==
  ASSUME Tasks!Assumptions, TasksInv, NEW i \in Issues, Tasks!WriteDescription(i)
  PROVE  TasksInv' /\ Tasks!KeepsPriority
<1> USE DEF TasksInv
<1> DEFINE t == <<i, "summary">>
<1>1. /\ t \in DOMAIN running /\ running[t].step = "write"
      /\ UNCHANGED <<requests, queue, s3, loki>> /\ Tasks!Ends(t)
      /\ \/ /\ jira' = [jira EXCEPT ![i].description = running[t].read \cup {"ai"}]
            /\ Tasks!NoFault
         \/ UNCHANGED jira /\ Tasks!Fault
  BY DEF Tasks!WriteDescription, Tasks!At, Tasks!Summary
<1>2. LastStep(t) /\ HistoryKept
  BY <1>1, TaskEnds, FaultsCount
<1>3. CASE UNCHANGED jira
  <2>1. TasksInv'
    BY <1>1, <1>2, <1>3, TaskIsOver, TypesOfTasks
  <2> QED
    BY <1>3, <2>1 DEF Tasks!KeepsPriority
<1>4. CASE jira' = [jira EXCEPT ![i].description = running[t].read \cup {"ai"}]
  <2>1. running[t].read \in SUBSET {"edit", "ai"}
    BY <1>1, TypesOfTasks DEF Task
  <2>2. i \in history.edited \ history.overlapped => "edit" \in running[t].read
    BY <1>1 DEF EditsAreRead
  <2>3. /\ OnlyIssue(i) /\ jira'[i].description = running[t].read \cup {"ai"}
        /\ \A j \in Issues : jira'[j].priority = jira[j].priority
                          /\ jira'[j].comments = jira[j].comments
    BY <1>4, <2>1, TypesOfTasks DEF OnlyIssue, JiraIssue
  <2> HIDE DEF t
  <2>5. /\ IsFiniteSet(DOMAIN running')
        /\ Cardinality(DOMAIN running') <= Cardinality(DOMAIN running)
        /\ Cardinality(DOMAIN running') \in Nat /\ Cardinality(DOMAIN running) \in Nat
    BY <1>2, FS_Subset, FS_CardinalityType DEF TasksOfReports, LastStep
  <2>6. Tasks!TypeOK'
    <3>1. Tasks!Cardinality(DOMAIN running') <= MaxWorkers
      BY <2>5, TaskCount DEF Tasks!TypeOK, Tasks!Assumptions
    <3> QED
      BY <1>1, <1>2, <2>3, <3>1 DEF Tasks!TypeOK, LastStep, HistoryKept, OnlyIssue, Past, Task, JiraIssue
  <2>7. TasksOfReports' /\ SummaryIsLast'
    BY <1>1, <1>2, <2>5 DEF TasksOfReports, SummaryIsLast, LastStep
  <2>8. OnePriorityTask'
    <3>1. UNCHANGED <<requests, queue>> /\ DOMAIN running' \subseteq DOMAIN running
      BY <1>1, <1>2 DEF LastStep
    <3>2. \A j \in DOMAIN requests : /\ jira'[j].comments = jira[j].comments
                                     /\ jira'[j].priority = jira[j].priority
      BY <2>3 DEF Tasks!TypeOK
    <3> QED
      BY <3>1, <3>2, SameTasksWait
  <2>9. TextIsTrue'
    <3>1. \A j \in DOMAIN requests : j \in Issues
      BY DEF Tasks!TypeOK
    <3> QED
      BY <1>1, <1>2, <2>3, <3>1 DEF TextIsTrue, LastStep, HistoryKept
  <2>10. Tasks!CommentTellsTheTruth'
    BY <1>2, <2>3 DEF Tasks!CommentTellsTheTruth, HistoryKept
  <2>11. EditsAreRead' /\ Tasks!EditsSurvive'
    <3>1. history.edited \subseteq Issues
      BY TypesOfTasks DEF Past
    <3> QED
      BY <1>2, <2>2, <2>3, <3>1 DEF EditsAreRead, Tasks!EditsSurvive, LastStep, HistoryKept, OnlyIssue
  <2> QED
    BY <2>3, <2>6, <2>7, <2>8, <2>9, <2>10, <2>11 DEF Tasks!KeepsPriority
<1> QED
  BY <1>1, <1>3, <1>4
(* People change an issue.                                                  *)
LEMMA IssueEdited ==
  ASSUME Tasks!Assumptions, TasksInv, NEW i \in Issues, Tasks!Edit(i)
  PROVE  TasksInv' /\ Tasks!KeepsPriority
<1> USE DEF TasksInv
<1>1. /\ i \in Edited \cap DOMAIN requests /\ UNCHANGED <<requests, queue, running, s3, loki>>
      /\ jira' = [jira EXCEPT ![i].description = @ \cup {"edit"}]
      /\ history' = [history EXCEPT !.edited = @ \cup {i},
                       !.overlapped = IF Tasks!At(Tasks!Summary(i), "write") THEN @ \cup {i} ELSE @]
  BY DEF Tasks!Edit
<1>2. /\ OnlyIssue(i) /\ "edit" \in jira'[i].description
      /\ \A j \in Issues : /\ jira'[j].priority = jira[j].priority
                           /\ jira'[j].comments = jira[j].comments
                           /\ jira[j].description \subseteq jira'[j].description
  <2> DEFINE issue == [jira[i] EXCEPT !.description = @ \cup {"edit"}]
  <2>1. jira \in [Issues -> JiraIssue] /\ jira[i] \in JiraIssue
    BY TypesOfTasks
  <2>2. /\ issue \in JiraIssue /\ issue.description = jira[i].description \cup {"edit"}
        /\ issue.priority = jira[i].priority /\ issue.comments = jira[i].comments
    BY <2>1 DEF JiraIssue
  <2>3. jira' = [jira EXCEPT ![i] = issue]
    BY <1>1
  <2> HIDE DEF issue
  <2> QED
    BY <2>1, <2>2, <2>3 DEF OnlyIssue
<1>3. /\ history' \in Past /\ history'.edited = history.edited \cup {i}
      /\ history.overlapped \subseteq history'.overlapped
      /\ Tasks!At(Tasks!Summary(i), "write") => i \in history'.overlapped
      /\ history'.unclear = history.unclear
  <2> DEFINE overlapped == IF Tasks!At(Tasks!Summary(i), "write")
                           THEN history.overlapped \cup {i} ELSE history.overlapped
  <2>1. history \in Past /\ overlapped \in SUBSET Issues
    BY TypesOfTasks DEF Past
  <2>2. history' = [history EXCEPT !.edited = history.edited \cup {i}, !.overlapped = overlapped]
    BY <1>1, <2>1 DEF Past
  <2>3. history'.overlapped = overlapped /\ history'.edited = history.edited \cup {i}
        /\ history' \in Past /\ history'.unclear = history.unclear
    <3> HIDE DEF overlapped
    <3> QED
      BY <2>1, <2>2 DEF Past
  <2> QED
    BY <2>3
<1>4. Tasks!TypeOK'
  BY <1>1, <1>2, <1>3 DEF Tasks!TypeOK, OnlyIssue, JiraIssue, Past, Task
<1>5. TasksOfReports' /\ SummaryIsLast'
  BY <1>1 DEF TasksOfReports, SummaryIsLast
<1>6. DOMAIN requests \subseteq Issues
  BY DEF Tasks!TypeOK
<1>7. OnePriorityTask'
  BY <1>1, <1>2, <1>6, SameTasksWait
<1>8. TextIsTrue' /\ Tasks!CommentTellsTheTruth'
  BY <1>1, <1>2, <1>3, <1>6 DEF TextIsTrue, Tasks!CommentTellsTheTruth
<1>9. EditsAreRead'
  BY <1>1, <1>3 DEF EditsAreRead, Tasks!At, Tasks!Summary
<1>10. Tasks!EditsSurvive'
  <2>1. \A j \in history'.edited : j \in Issues
    BY <1>3 DEF Past
  <2> QED
    BY <1>2, <1>3, <2>1 DEF Tasks!EditsSurvive
<1> QED
  BY <1>2, <1>4, <1>5, <1>7, <1>8, <1>9, <1>10 DEF Tasks!KeepsPriority

LEMMA IssuePrioritized ==
  ASSUME Tasks!Assumptions, TasksInv, NEW i \in Issues, Tasks!Prioritize(i)
  PROVE  TasksInv' /\ Tasks!KeepsPriority
<1> USE DEF TasksInv
<1>1. /\ UNCHANGED <<requests, queue, running, s3, loki, history>>
      /\ jira' = [jira EXCEPT ![i].priority = "person"]
  BY DEF Tasks!Prioritize
<1>2. /\ OnlyIssue(i) /\ jira'[i].priority = "person"
      /\ \A j \in Issues : /\ jira'[j].description = jira[j].description
                           /\ jira'[j].comments = jira[j].comments
                           /\ jira'[j].priority \in {jira[j].priority, "person"}
  <2> DEFINE issue == [jira[i] EXCEPT !.priority = "person"]
  <2>1. jira \in [Issues -> JiraIssue] /\ jira[i] \in JiraIssue
    BY TypesOfTasks
  <2>2. /\ issue \in JiraIssue /\ issue.description = jira[i].description
        /\ issue.priority = "person" /\ issue.comments = jira[i].comments
    BY <2>1 DEF JiraIssue
  <2>3. jira' = [jira EXCEPT ![i] = issue]
    BY <1>1
  <2> HIDE DEF issue
  <2> QED
    BY <2>1, <2>2, <2>3 DEF OnlyIssue
<1>3. Tasks!TypeOK'
  BY <1>1, <1>2 DEF Tasks!TypeOK, OnlyIssue, JiraIssue, Task
<1>4. TasksOfReports' /\ SummaryIsLast'
  BY <1>1 DEF TasksOfReports, SummaryIsLast
<1>5. DOMAIN requests \subseteq Issues /\ DOMAIN requests' = DOMAIN requests
  BY <1>1 DEF Tasks!TypeOK
<1>6. OnePriorityTask'
  <2>1. UNCHANGED <<requests, queue>> /\ DOMAIN running' \subseteq DOMAIN running
    BY <1>1
  <2>2. \A j \in DOMAIN requests :
          /\ jira'[j].comments = jira[j].comments
          /\ jira'[j].priority = jira[j].priority \/ jira'[j].priority # "gpt"
    BY <1>2, <1>5
  <2> QED
    BY <2>1, <2>2, SameTasksWait
<1>7. TextIsTrue'
  BY <1>1, <1>2, <1>5 DEF TextIsTrue
<1>8. Tasks!CommentTellsTheTruth'
  BY <1>1, <1>2 DEF Tasks!CommentTellsTheTruth
<1>9. EditsAreRead' /\ Tasks!EditsSurvive'
  <2>1. \A j \in history.edited : j \in Issues
    BY TypesOfTasks DEF Past
  <2> QED
    BY <1>1, <1>2, <2>1 DEF EditsAreRead, Tasks!EditsSurvive
<1> QED
  BY <1>2, <1>3, <1>4, <1>6, <1>7, <1>8, <1>9 DEF Tasks!KeepsPriority

LEMMA ServerRestarts ==
  ASSUME Tasks!Assumptions, TasksInv, Tasks!Restart
  PROVE  TasksInv' /\ Tasks!KeepsPriority
<1> USE DEF TasksInv
<1>1. /\ queue' = <<>> /\ running' = <<>> /\ UNCHANGED <<s3, jira, loki>>
      /\ requests' = [i \in DOMAIN requests |-> <<>>] /\ history.faults < MaxFaults
      /\ history' = [history EXCEPT !.faults = @ + 1, !.restarted = TRUE]
  BY DEF Tasks!Restart
<1>2. /\ history' \in Past /\ history'.edited = history.edited
      /\ history'.overlapped = history.overlapped /\ history'.unclear = history.unclear
  <2>1. history \in Past /\ history.faults + 1 \in 0 .. MaxFaults
    BY <1>1, TypesOfTasks DEF Past, Tasks!Assumptions
  <2> QED
    BY <1>1, <2>1 DEF Past
<1>3. /\ DOMAIN running' = {} /\ Len(queue') = 0 /\ DOMAIN requests' = DOMAIN requests
      /\ \A i \in DOMAIN requests : requests'[i] = <<>> /\ Len(requests'[i]) = 0
  BY <1>1
<1>4. IsFiniteSet(DOMAIN running') /\ Tasks!Cardinality(DOMAIN running') = 0
  BY <1>3, FS_EmptySet, TaskCount
<1>5. Tasks!TypeOK'
  <2>1. requests' \in [DOMAIN requests' -> Seq(Tasks!Kinds)] /\ DOMAIN requests' \subseteq Issues
    BY <1>1, <1>3, EmptySeq DEF Tasks!TypeOK
  <2>2. queue' \in Seq(Issues \X Tasks!Kinds) /\ running' \in [DOMAIN running' -> Task]
    BY <1>1
  <2>3. /\ Tasks!Cardinality(DOMAIN running') <= MaxWorkers
        /\ DOMAIN running' \subseteq Issues \X Tasks!Kinds
    BY <1>3, <1>4 DEF Tasks!Assumptions
  <2> QED
    BY <1>1, <1>2, <2>1, <2>2, <2>3 DEF Tasks!TypeOK, Task, Past
<1>6. SummaryIsLast' /\ OnePriorityTask'
  BY <1>3 DEF SummaryIsLast, OnePriorityTask, ToSubmit, Queued
<1>7. TasksOfReports' /\ TextIsTrue' /\ EditsAreRead'
  BY <1>3, <1>4 DEF TasksOfReports, TextIsTrue, EditsAreRead
<1>8. Tasks!CommentTellsTheTruth' /\ Tasks!EditsSurvive' /\ Tasks!KeepsPriority
  BY <1>1, <1>2 DEF Tasks!CommentTellsTheTruth, Tasks!EditsSurvive, Tasks!KeepsPriority
<1> QED
  BY <1>5, <1>6, <1>7, <1>8
(* The tasks that only read the issue.                                      *)
LEMMA FilesSummarized ==
  ASSUME Tasks!Assumptions, TasksInv, NEW i \in Issues,
         Tasks!DescribeScreenshot(i) \/ Tasks!SummarizeLogs(i)
  PROVE  TasksInv' /\ Tasks!KeepsPriority
<1>0. Tasks!TypeOK /\ TasksOfReports
  BY DEF TasksInv
<1>1. s3 \in [Issues -> Objects] /\ loki \in [Issues -> Sent] /\ s3[i] \in Objects
  BY <1>0, TypesOfTasks
<1>2. PICK kind \in {"screenshot", "logs"} :
        /\ <<i, kind>> \in DOMAIN running /\ Tasks!Ends(<<i, kind>>)
        /\ UNCHANGED <<requests, queue, jira, loki>>
        /\ Tasks!NoFault \/ Tasks!Fault
  BY DEF Tasks!DescribeScreenshot, Tasks!SummarizeLogs, Tasks!At
<1>3. s3' \in [Issues -> Objects]
  <2>1. \/ UNCHANGED s3 \/ s3' = [s3 EXCEPT ![i].screenshot = TRUE]
        \/ \E summary \in {"empty", "text"} : s3' = [s3 EXCEPT ![i].logs = summary]
    BY DEF Tasks!DescribeScreenshot, Tasks!SummarizeLogs
  <2>2. ASSUME s3' = [s3 EXCEPT ![i].screenshot = TRUE]
        PROVE  s3' \in [Issues -> Objects]
    BY <1>1, <2>2 DEF Objects
  <2>3. ASSUME NEW summary \in {"empty", "text"}, s3' = [s3 EXCEPT ![i].logs = summary]
        PROVE  s3' \in [Issues -> Objects]
    BY <1>1, <2>3 DEF Objects
  <2> QED
    BY <1>1, <2>1, <2>2, <2>3
<1>4. LastStep(<<i, kind>>) /\ HistoryKept
  BY <1>0, <1>2, TaskEnds, FaultsCount
<1>5. TasksInv'
  BY <1>0, <1>1, <1>2, <1>3, <1>4, TaskIsOver
<1> QED
  BY <1>2, <1>5 DEF Tasks!KeepsPriority

(* The summary goes on, to writing only with the description it read.       *)
LEMMA SummaryGoesOn ==
  ASSUME Tasks!Assumptions, TasksInv, NEW i \in Issues, NEW step \in Tasks!Steps \ {"write"},
         <<i, "summary">> \in DOMAIN running, Tasks!GoTo(<<i, "summary">>, step),
         Tasks!NoFault \/ Tasks!Fault, UNCHANGED <<requests, queue, s3, jira, loki>>
  PROVE  TasksInv'
<1>0. Tasks!TypeOK /\ TasksOfReports
  BY DEF TasksInv
<1> DEFINE t == <<i, "summary">>
<1>1. OnlyTask(t) /\ running'[t].step = step /\ running'[t].sent = running[t].sent /\ HistoryKept
  BY <1>0, TaskGoesTo, FaultsCount
<1>2. running[t].sent < Batches /\ s3' \in [Issues -> Objects] /\ loki' \in [Issues -> Sent]
  BY <1>0, TypesOfTasks DEF TasksOfReports
<1>3. "summary" \in Tasks!Kinds \ {"priority"}
  BY DEF Tasks!Kinds
<1> QED
  BY <1>1, <1>2, <1>3, TaskMoves

LEMMA SummaryMakesProgress ==
  ASSUME Tasks!Assumptions, TasksInv, NEW i \in Issues,
         \/ Tasks!ReadIssue(i) \/ Tasks!AwaitScreenshot(i) \/ Tasks!ScreenshotTimeout(i)
         \/ Tasks!FindDuplicates(i) \/ Tasks!AwaitLogs(i) \/ Tasks!LogsTimeout(i)
         \/ Tasks!ReadDescription(i)
  PROVE  TasksInv' /\ Tasks!KeepsPriority
<1>0. Tasks!TypeOK /\ TasksOfReports
  BY DEF TasksInv
<1> DEFINE t == <<i, "summary">>
<1>1. /\ t \in DOMAIN running /\ UNCHANGED <<requests, queue, s3, jira, loki>>
      /\ Tasks!NoFault \/ Tasks!Fault
  BY DEF Tasks!ReadIssue, Tasks!AwaitScreenshot, Tasks!ScreenshotTimeout, Tasks!FindDuplicates,
         Tasks!AwaitLogs, Tasks!LogsTimeout, Tasks!ReadDescription, Tasks!At, Tasks!Summary,
         Tasks!NoFault
<1> SUFFICES TasksInv'
  BY <1>1 DEF Tasks!KeepsPriority
<1>2. /\ running[t] \in Task /\ running[t].sent < Batches /\ HistoryKept
      /\ s3' \in [Issues -> Objects] /\ loki' \in [Issues -> Sent] /\ jira[i] \in JiraIssue
  BY <1>0, <1>1, TypesOfTasks, FaultsCount DEF TasksOfReports
<1>3. "summary" \in Tasks!Kinds \ {"priority"}
  BY DEF Tasks!Kinds
<1>4. \/ \E step \in Tasks!Steps \ {"write"} : Tasks!GoTo(t, step)
      \/ Tasks!Ends(t)
      \/ \E found \in {{}, {"duplicates"}} :
           running' = [running EXCEPT ![t].step = "logs", ![t].has = found]
      \/ running' = [running EXCEPT ![t].step = "read", ![t].has = @ \cup {"logs"}]
      \/ running' = [running EXCEPT ![t].step = "write", ![t].read = jira[i].description]
  <2>1. {"screenshot", "compare", "logs", "read"} \subseteq Tasks!Steps \ {"write"}
    BY DEF Tasks!Steps
  <2> QED
    BY <2>1 DEF Tasks!ReadIssue, Tasks!AwaitScreenshot, Tasks!ScreenshotTimeout,
         Tasks!FindDuplicates, Tasks!AwaitLogs, Tasks!LogsTimeout, Tasks!ReadDescription,
         Tasks!Summary
<1>5. ASSUME NEW step \in Tasks!Steps \ {"write"}, Tasks!GoTo(t, step)
      PROVE  TasksInv'
  BY <1>1, <1>5, SummaryGoesOn
<1>6. CASE Tasks!Ends(t)
  <2>1. LastStep(t)
    BY <1>0, <1>1, <1>6, TaskEnds
  <2>2. UNCHANGED <<requests, queue, jira>>
    BY <1>1
  <2> QED
    BY <1>1, <1>2, <2>1, <2>2, TaskIsOver
<1>7. ASSUME NEW task \in Task, running' = [running EXCEPT ![t] = task],
             task.sent = running[t].sent, task.step = "write" => task.read = jira[i].description
      PROVE  TasksInv'
  <2>1. OnlyTask(t) /\ running'[t] = task
    BY <1>0, <1>1, <1>7, TaskBecomes
  <2> QED
    BY <1>1, <1>2, <1>3, <1>7, <2>1, TaskMoves
<1>8. ASSUME NEW found \in {{}, {"duplicates"}},
             running' = [running EXCEPT ![t].step = "logs", ![t].has = found]
      PROVE  TasksInv'
  <2> DEFINE task == [running[t] EXCEPT !.step = "logs", !.has = found]
  <2>1. /\ task \in Task /\ task.sent = running[t].sent
        /\ task.step = "write" => task.read = jira[i].description
    BY <1>2 DEF Task, Tasks!Steps
  <2>2. running' = [running EXCEPT ![t] = task]
    BY <1>0, <1>1, <1>8, TypesOfTasks
  <2> HIDE DEF task
  <2> QED
    BY <1>7, <2>1, <2>2
<1>9. CASE running' = [running EXCEPT ![t].step = "read", ![t].has = @ \cup {"logs"}]
  <2> DEFINE task == [running[t] EXCEPT !.step = "read", !.has = @ \cup {"logs"}]
  <2>1. /\ task \in Task /\ task.sent = running[t].sent
        /\ task.step = "write" => task.read = jira[i].description
    BY <1>2 DEF Task, Tasks!Steps
  <2>2. running' = [running EXCEPT ![t] = task]
    BY <1>0, <1>1, <1>9, TypesOfTasks
  <2> HIDE DEF task
  <2> QED
    BY <1>7, <2>1, <2>2
<1>10. CASE running' = [running EXCEPT ![t].step = "write", ![t].read = jira[i].description]
  <2> DEFINE task == [running[t] EXCEPT !.step = "write", !.read = jira[i].description]
  <2>1. task \in Task /\ task.sent = running[t].sent /\ task.read = jira[i].description
    BY <1>2 DEF Task, Tasks!Steps, JiraIssue
  <2>2. running' = [running EXCEPT ![t] = task]
    BY <1>0, <1>1, <1>10, TypesOfTasks
  <2> HIDE DEF task
  <2> QED
    BY <1>7, <2>1, <2>2
<1> QED
  BY <1>4, <1>5, <1>6, <1>8, <1>9, <1>10

LEMMA LogSent ==
  ASSUME Tasks!Assumptions, TasksInv, NEW i \in Issues, Tasks!ReadLabels(i) \/ Tasks!PushBatch(i)
  PROVE  TasksInv' /\ Tasks!KeepsPriority
<1>0. Tasks!TypeOK /\ TasksOfReports
  BY DEF TasksInv
<1> DEFINE t == <<i, "loki">>
<1>1. /\ t \in DOMAIN running /\ UNCHANGED <<requests, queue, s3, jira>>
      /\ Tasks!NoFault \/ Tasks!Fault
  BY DEF Tasks!ReadLabels, Tasks!PushBatch, Tasks!At, Tasks!Loki
<1> SUFFICES TasksInv'
  BY <1>1 DEF Tasks!KeepsPriority
<1>2. /\ running[t] \in Task /\ running[t].sent < Batches /\ HistoryKept
      /\ s3' \in [Issues -> Objects] /\ loki \in [Issues -> Sent] /\ jira[i] \in JiraIssue
      /\ loki[i] \in Sent
  BY <1>0, <1>1, TypesOfTasks, FaultsCount DEF TasksOfReports
<1>3. "loki" \in Tasks!Kinds \ {"priority"} /\ "push" \in Tasks!Steps /\ "loki" # "summary"
  BY DEF Tasks!Kinds, Tasks!Steps
<1>4. CASE Tasks!ReadLabels(i)
  <2>1. UNCHANGED loki /\ (Tasks!GoTo(t, "push") \/ Tasks!Ends(t))
    BY <1>4 DEF Tasks!ReadLabels, Tasks!Loki
  <2>2. CASE Tasks!GoTo(t, "push")
    <3>1. OnlyTask(t) /\ running'[t].sent = running[t].sent
      BY <1>0, <1>1, <1>3, <2>2, TaskGoesTo
    <3> QED
      <4>1. /\ UNCHANGED <<requests, queue, jira>> /\ loki' \in [Issues -> Sent]
            /\ running'[t].sent < Batches
        BY <1>1, <1>2, <2>1, <3>1
      <4>2. "loki" = "summary" /\ running'[t].step = "write" => running'[t].read = jira[i].description
        BY <1>3
      <4> QED
        BY <1>1, <1>2, <1>3, <3>1, <4>1, <4>2, TaskMoves
  <2>3. CASE Tasks!Ends(t)
    <3>1. LastStep(t)
      BY <1>0, <1>1, <2>3, TaskEnds
    <3>2. UNCHANGED <<requests, queue, jira>> /\ loki' \in [Issues -> Sent]
      BY <1>1, <1>2, <2>1
    <3> QED
      BY <1>1, <1>2, <3>1, <3>2, TaskIsOver
  <2> QED
    BY <2>1, <2>2, <2>3
<1>5. CASE Tasks!PushBatch(i)
  <2> DEFINE sent == running[t].sent + 1
  <2>1. PICK answered \in BOOLEAN, over \in BOOLEAN :
          /\ loki' = [loki EXCEPT ![i] = [answered |-> answered, tried |-> sent, over |-> over]]
          /\ IF over THEN Tasks!Ends(t) ELSE running' = [running EXCEPT ![t].sent = sent]
          /\ sent = Batches => over
    <3>1. ASSUME NEW answered \in BOOLEAN,
                 loki' = [loki EXCEPT ![i] = [answered |-> answered, tried |-> sent,
                                              over |-> (sent = Batches \/ ~answered)]],
                 IF sent = Batches \/ ~answered THEN Tasks!Ends(t)
                 ELSE running' = [running EXCEPT ![t].sent = sent]
          PROVE  \E a, over \in BOOLEAN :
                   /\ loki' = [loki EXCEPT ![i] = [answered |-> a, tried |-> sent, over |-> over]]
                   /\ IF over THEN Tasks!Ends(t) ELSE running' = [running EXCEPT ![t].sent = sent]
                   /\ sent = Batches => over
      <4> DEFINE over == sent = Batches \/ ~answered
      <4>1. over \in BOOLEAN
        OBVIOUS
      <4> QED
        BY <3>1, <4>1
    <3>2. loki[i].answered \in BOOLEAN
      BY <1>2 DEF Sent
    <3> QED
      BY <1>5, <3>1, <3>2 DEF Tasks!PushBatch, Tasks!Loki
  <2>2. sent \in 0 .. Batches /\ (sent # Batches => sent < Batches)
    BY <1>2 DEF Task, Tasks!Assumptions
  <2>3. loki' \in [Issues -> Sent]
    <3>1. [answered |-> answered, tried |-> sent, over |-> over] \in Sent
      BY <2>2 DEF Sent
    <3> HIDE DEF sent
    <3> QED
      BY <1>2, <2>1, <3>1
  <2>4. CASE over
    <3>1. LastStep(t)
      BY <1>0, <1>1, <2>1, <2>4, TaskEnds
    <3>2. UNCHANGED <<requests, queue, jira>>
      BY <1>1
    <3> QED
      BY <1>1, <1>2, <2>3, <3>1, <3>2, TaskIsOver
  <2>5. CASE ~over
    <3> DEFINE task == [running[t] EXCEPT !.sent = sent]
    <3>1. task \in Task /\ task.sent = sent
      BY <1>2, <2>2 DEF Task
    <3>2. running' = [running EXCEPT ![t] = task]
      BY <2>1, <2>5
    <3> HIDE DEF task
    <3>3. OnlyTask(t) /\ running'[t] = task
      BY <1>0, <1>1, <3>1, <3>2, TaskBecomes
    <3> QED
      <4>1. UNCHANGED <<requests, queue, jira>> /\ running'[t].sent < Batches
        BY <1>1, <2>1, <2>2, <2>5, <3>1, <3>3
      <4>2. "loki" = "summary" /\ running'[t].step = "write" => running'[t].read = jira[i].description
        BY <1>3
      <4> QED
        BY <1>1, <1>2, <1>3, <2>3, <3>3, <4>1, <4>2, TaskMoves
  <2> QED
    BY <2>4, <2>5
<1> QED
  BY <1>4, <1>5

LEMMA TasksStep ==
  ASSUME Tasks!Assumptions, TasksInv, Tasks!Next
  PROVE  TasksInv' /\ Tasks!KeepsPriority
<1>1. CASE Tasks!TakeTask
  <2>1. UNCHANGED jira
    BY <1>1 DEF Tasks!TakeTask
  <2> QED
    BY <1>1, <2>1, TaskTaken DEF Tasks!KeepsPriority
<1>2. ASSUME NEW i \in Issues, Tasks!Submit(i)
      PROVE  TasksInv' /\ Tasks!KeepsPriority
  <2>1. UNCHANGED jira
    BY <1>2 DEF Tasks!Submit
  <2> QED
    BY <1>2, <2>1, TaskSubmitted DEF Tasks!KeepsPriority
<1>3. ASSUME NEW i \in Issues, Tasks!RunTask(i)
      PROVE  TasksInv' /\ Tasks!KeepsPriority
  BY <1>3, FilesSummarized, PriorityEstimated, PriorityCommented, SummaryMakesProgress,
     DescriptionWritten, LogSent DEF Tasks!RunTask
<1> QED
  BY <1>1, <1>2, <1>3, ServerRestarts, IssueEdited, IssuePrioritized DEF Tasks!Next, Tasks!Server

LEMMA TasksHold ==
  ASSUME TasksInv
  PROVE  Tasks!AwaitedTasksRun
<1> SUFFICES ASSUME NEW i \in Issues, NEW n \in 1 .. Len(queue),
                    <<i, "summary">> \in DOMAIN running, queue[n][1] = i
             PROVE  Uploaded[i] # {}
  BY DEF Tasks!AwaitedTasksRun, Tasks!Summary
<1>1. i \in DOMAIN requests
  BY DEF TasksInv, TasksOfReports
<1> QED
  BY <1>1 DEF TasksInv, SummaryIsLast

-----------------------------------------------------------------------------
(* Bug reports.                                                             *)

(* The channels a report is for, and what was decided of it.                *)
Chosen == Report!GetSlackChannels(report.client, report.type, report.feature)
Accepted == pc # "decide" /\ ~Report!Refused
PlanFits ==
  Accepted =>
    /\ report.client # "unknown"
    /\ \E found \in BOOLEAN :
         /\ report.related = "found" => found \/ faults > 0
         /\ found => report.related = "found"
         /\ plan.slack = Report!Decide(report, found).slack
         /\ plan.jira = Report!Decide(report, found).jira
         /\ plan.related = Report!Decide(report, found).related
Planned ==
  /\ pc \in {"create", "artifacts", "attach", "link"} => plan.jira /\ plan.channels = Chosen
  /\ pc = "slack" => plan.slack

(* Nothing is posted before the issue is done with, and there is no answer  *)
(* before the end.                                                          *)
BeforeSlack == pc \in {"decide", "create", "artifacts", "attach", "link"}
NothingPosted ==
  /\ BeforeSlack =>
       /\ known.posts = {}
       /\ \A c \in Report!Channels : slack[c] = "nothing"
       /\ \A i \in 1 .. Len(tasks) : tasks[i] # "summary"
  /\ pc # "done" => answer = Report!NoAnswer

(* The handler knows of the issue that it created; it does not when a       *)
(* request failed, or when none was to be created.                          *)
IssueIsKnown ==
  /\ pc \in {"decide", "create"} => ~known.key /\ jira = Report!NoIssue
  /\ pc \in {"artifacts", "attach", "link"} => known.key
  /\ known.key => jira.exists /\ jira.details = (report.details # "none") /\ plan.jira
  /\ jira.exists => plan.jira /\ (known.key \/ faults > 0)
  /\ Accepted /\ pc # "create" /\ plan.jira => known.key \/ faults > 0
  /\ Accepted /\ ~BeforeSlack /\ jira.exists => jira.linked = plan.related \/ faults > 0

(* The files are read before they are attached.                             *)
FilesAreRead ==
  /\ pc \in {"decide", "create", "artifacts"} => streams = {}
  /\ pc = "attach" => streams \subseteq {"video"}

(* Every channel gets its post, with the details under it when there is no  *)
(* issue to read them in, or a request has failed.                          *)
PostsFollowPlan ==
  /\ pc = "slack" => \/ plan.channels = Chosen
                     \/ Head(Chosen) \in known.posts
                     \/ faults > 0
  /\ report.reporter = "unknown" => \A c \in Report!Channels : slack[c] = "nothing"
  /\ Accepted /\ ~BeforeSlack /\ report.details # "none" /\ ~known.key =>
       \/ \A c \in known.posts : slack[c] = "thread"
       \/ faults >= (IF plan.jira THEN 2 ELSE 1)

(* The answer tells what the handler knows.                                 *)
AnswerIsKnown ==
  Report!Ok =>
    /\ pc = "done"
    /\ answer.issue = known.key
    /\ answer.primary => Head(Chosen) \in known.posts
    /\ known.posts # {} => plan.slack

ReportInv ==
  /\ Report!TypeOK
  /\ PlanFits /\ Planned /\ NothingPosted /\ IssueIsKnown /\ FilesAreRead
  /\ PostsFollowPlan /\ AnswerIsKnown
  /\ Report!ErrorMeansNothingKnown /\ Report!TextFilesWhole /\ Report!SummaryQueuedLast
-----------------------------------------------------------------------------
LEMMA ChannelsFound ==
  ASSUME Report!Assumptions, report \in Report!Reports, report.client # "unknown"
  PROVE  /\ Chosen \in Seq(Report!Channels)
         /\ report.client = "none" /\ report.type # "none" =>
              /\ report.type \in DOMAIN TypeChannel
              /\ Chosen # <<>> /\ Head(Chosen) = TypeChannel[report.type]
<1>1. /\ report.type \in DOMAIN TypeChannel \/ report.type = "none"
      /\ report.client \in Report!Channels \/ report.client = "none"
  BY DEF Report!Reports
<1>2. \A x : /\ Report!Lookup(TypeChannel, x) \in Report!Channels \cup {"none"}
             /\ Report!Lookup(FeatureChannel, x) \in Report!Channels \cup {"none"}
             /\ Report!Lookup(AreaChannel, x) \in Report!Channels \cup {"none"}
             /\ Report!Lookup(AreaChannel, x) # "none" => AreaChannel[x] \in Report!Channels
  BY DEF Report!Lookup, Report!Channels
<1>3. report.type \in DOMAIN TypeChannel =>
        /\ TypeChannel[report.type] \in Report!Channels
        /\ Report!Lookup(TypeChannel, report.type) = TypeChannel[report.type]
  BY DEF Report!Channels, Report!Lookup
<1>4. "none" \notin Report!Channels
  BY DEF Report!Assumptions
<1>5. Chosen \in Seq(Report!Channels)
  BY <1>1, <1>2, <1>4 DEF Chosen, Report!GetSlackChannels
<1>6. ASSUME report.client = "none", report.type # "none"
      PROVE  /\ report.type \in DOMAIN TypeChannel
             /\ Chosen # <<>> /\ Head(Chosen) = TypeChannel[report.type]
  <2>1. TypeChannel[report.type] # "none"
    BY <1>1, <1>3, <1>4, <1>6
  <2> QED
    BY <1>1, <1>3, <1>6, <2>1 DEF Chosen, Report!GetSlackChannels
<1> QED
  BY <1>5, <1>6

(* What Decide decides.                                                     *)
LEMMA Decided ==
  ASSUME Report!Assumptions, report \in Report!Reports, report.client # "unknown",
         NEW found \in BOOLEAN, found => report.related = "found",
         NEW d, d = Report!Decide(report, found)
  PROVE  /\ d \in [channels : Seq(Report!Channels), slack : BOOLEAN, jira : BOOLEAN,
                   related : BOOLEAN]
         /\ d.channels = Chosen
         /\ ~d.jira => d.slack
         /\ d.slack => Chosen # <<>> /\ (d.jira <=> Head(Chosen) \in Labelled)
         /\ d.jira => (d.related <=> found)
         /\ Chosen # <<>> /\ report.related = "none" => d.slack
         /\ d.jira /\ report.related # "none" /\ ~found => ~d.slack
<1> DEFINE labelled == Chosen # <<>> /\ Chosen[1] \in Labelled
           slackOnly == Chosen # <<>> /\ ~labelled
           exists == report.related # "none" /\ ~slackOnly /\ found
           invalid == report.related # "none" /\ ~exists
           toSlack == (Chosen # <<>> /\ ~invalid) \/ slackOnly
<1>1. d = [channels |-> Chosen, slack |-> toSlack, jira |-> labelled \/ ~toSlack,
           related |-> exists]
  BY DEF Report!Decide, Chosen
<1>2. Chosen \in Seq(Report!Channels)
  BY ChannelsFound
<1>3. Chosen # <<>> => Head(Chosen) = Chosen[1]
  BY <1>2
<1>4. d \in [channels : Seq(Report!Channels), slack : BOOLEAN, jira : BOOLEAN, related : BOOLEAN]
  BY <1>1, <1>2
<1>5. report.related # "none" <=> ~(report.related = "none")
  OBVIOUS
<1> HIDE DEF Chosen
<1>6. /\ d.channels = Chosen /\ (d.slack <=> toSlack) /\ (d.jira <=> labelled \/ ~toSlack)
      /\ (d.related <=> exists)
  <2>1. PICK a \in BOOLEAN, b \in BOOLEAN, e \in BOOLEAN :
          (a <=> toSlack) /\ (b <=> labelled \/ ~toSlack) /\ (e <=> exists)
    OBVIOUS
  <2>2. a = toSlack /\ b = (labelled \/ ~toSlack) /\ e = exists
    BY <2>1
  <2> HIDE DEF toSlack, labelled, exists
  <2>3. d = [channels |-> Chosen, slack |-> a, jira |-> b, related |-> e]
    BY <1>1, <2>2
  <2>4. d.channels = Chosen /\ d.slack = a /\ d.jira = b /\ d.related = e
    BY <2>3
  <2> QED
    BY <2>1, <2>4
<1>7. found => report.related # "none"
  OBVIOUS
<1> QED
  BY <1>3, <1>4, <1>6, <1>7

LEMMA ReportStart ==
  ASSUME Report!Assumptions, Inputs \subseteq Report!Reports, Report!InitFrom(Inputs)
  PROVE  ReportInv
<1> USE DEF Report!InitFrom, Report!NoPlan, Report!NoIssue, Report!NoAnswer
<1>1. Report!TypeOK
  BY DEF Report!TypeOK, Report!Assumptions
<1>2. PlanFits /\ Planned /\ NothingPosted /\ IssueIsKnown /\ FilesAreRead
  BY DEF PlanFits, Planned, NothingPosted, IssueIsKnown, FilesAreRead, Accepted, BeforeSlack
<1>3. PostsFollowPlan /\ AnswerIsKnown
  BY DEF PostsFollowPlan, AnswerIsKnown, Accepted, BeforeSlack, Report!Ok
<1>4. Report!ErrorMeansNothingKnown /\ Report!TextFilesWhole /\ Report!SummaryQueuedLast
  BY DEF Report!ErrorMeansNothingKnown, Report!TextFilesWhole, Report!SummaryQueuedLast,
         Report!Refused
<1> QED
  BY <1>1, <1>2, <1>3, <1>4 DEF ReportInv
(* How the parts of the invariant come out of a step.                       *)
LEMMA Refusal ==
  ASSUME ReportInv, NEW code \in {400, 500}, Report!Error(code), pc # "done",
         UNCHANGED <<report, plan, slack, streams, attached, tasks, known>>,
         faults' \in 0 .. MaxReportFaults,
         jira' \in [exists : BOOLEAN, details : BOOLEAN, linked : BOOLEAN],
         IssueIsKnown', Report!ErrorMeansNothingKnown'
  PROVE  ReportInv'
<1>1. /\ pc' = "done" /\ answer' = [status |-> "error", code |-> code]
      /\ report' = report /\ plan' = plan /\ slack' = slack /\ attached' = attached
      /\ tasks' = tasks /\ known' = known /\ streams' = streams
  BY DEF Report!Error
<1>2. /\ answer'.status = "error" /\ Report!Refused' /\ ~Report!Ok' /\ ~Accepted'
  BY <1>1 DEF Report!Refused, Report!Ok, Accepted
<1>3. Report!TypeOK'
  BY <1>1 DEF ReportInv, Report!TypeOK
<1>4. PlanFits' /\ Planned' /\ NothingPosted'
  BY <1>1, <1>2 DEF PlanFits, Planned, NothingPosted, BeforeSlack
<1>5. FilesAreRead' /\ AnswerIsKnown'
  BY <1>1, <1>2 DEF FilesAreRead, AnswerIsKnown
<1>6. PostsFollowPlan'
  BY <1>1, <1>2 DEF ReportInv, PostsFollowPlan
<1>7. Report!TextFilesWhole' /\ Report!SummaryQueuedLast'
  BY <1>1 DEF ReportInv, Report!TextFilesWhole, Report!SummaryQueuedLast
<1> QED
  BY <1>3, <1>4, <1>5, <1>6, <1>7 DEF ReportInv

LEMMA IssueStaysKnown ==
  ASSUME ReportInv, NEW code \in {400, 500}, Report!Error(code), pc # "done",
         UNCHANGED <<report, plan, jira, slack, streams, attached, tasks, known, faults>>,
         Report!ErrorMeansNothingKnown'
  PROVE  ReportInv'
<1>1. /\ pc' = "done" /\ report' = report /\ plan' = plan /\ known' = known /\ jira' = jira
      /\ faults' = faults /\ slack' = slack /\ streams' = streams /\ attached' = attached
      /\ tasks' = tasks /\ answer' = [status |-> "error", code |-> code]
  BY DEF Report!Error
<1>2. ~Accepted'
  BY <1>1 DEF Accepted, Report!Refused
<1>3. IssueIsKnown'
  BY <1>1, <1>2 DEF ReportInv, IssueIsKnown
<1>4. /\ faults' \in 0 .. MaxReportFaults
      /\ jira' \in [exists : BOOLEAN, details : BOOLEAN, linked : BOOLEAN]
  BY <1>1 DEF ReportInv, Report!TypeOK
<1> QED
  BY <1>1, <1>3, <1>4, Refusal

LEMMA ReportRefused ==
  ASSUME ReportInv, Report!Invalid
  PROVE  ReportInv'
<1>1. /\ pc = "decide" /\ Report!Error(400) /\ jira' = jira /\ slack' = slack
      /\ UNCHANGED <<report, plan, jira, slack, streams, attached, tasks, known, faults>>
  BY DEF Report!Invalid
<1>2. ~jira'.exists
  BY <1>1 DEF ReportInv, IssueIsKnown, Report!NoIssue
<1>3. \A c \in Report!Channels : slack'[c] = "nothing"
  BY <1>1 DEF ReportInv, NothingPosted, BeforeSlack
<1>4. Report!ErrorMeansNothingKnown'
  BY <1>2, <1>3 DEF Report!ErrorMeansNothingKnown, Report!Published
<1> QED
  BY <1>1, <1>4, IssueStaysKnown

LEMMA ReportNotRead ==
  ASSUME ReportInv, Report!ArtifactsRaise
  PROVE  ReportInv'
<1>1. /\ pc = "artifacts" /\ report.files # {} /\ Report!FirstParagraph # "text"
      /\ Report!Error(IF Report!FirstParagraph = "odd" THEN 400 ELSE 500)
      /\ UNCHANGED <<report, plan, jira, slack, streams, attached, tasks, known, faults>>
      /\ report' = report /\ plan' = plan /\ slack' = slack
  BY DEF Report!ArtifactsRaise
<1>2. \A c \in Report!Channels : slack'[c] = "nothing"
  BY <1>1 DEF ReportInv, NothingPosted, BeforeSlack
<1>3. report'.files # {} /\ Report!FirstParagraph' # "text"
  BY <1>1 DEF Report!FirstParagraph
<1>4. Report!ErrorMeansNothingKnown'
  BY <1>2, <1>3 DEF Report!ErrorMeansNothingKnown
<1>5. PICK code \in {400, 500} : Report!Error(code)
  BY <1>1
<1> QED
  BY <1>1, <1>4, <1>5, IssueStaysKnown

LEMMA ReportNotPosted ==
  ASSUME ReportInv, Report!PostRaises
  PROVE  ReportInv'
<1>1. /\ pc = "slack" /\ report.reporter = "unknown" /\ Report!Error(500)
      /\ UNCHANGED <<report, plan, jira, slack, streams, attached, tasks, known, faults>>
      /\ report' = report /\ slack' = slack
  BY DEF Report!PostRaises
<1>2. \A c \in Report!Channels : slack'[c] = "nothing"
  BY <1>1 DEF ReportInv, PostsFollowPlan
<1>3. Report!ErrorMeansNothingKnown'
  BY <1>1, <1>2 DEF Report!ErrorMeansNothingKnown
<1> QED
  BY <1>1, <1>3, IssueStaysKnown

(* A step that does not end the request.                                    *)
LEMMA GoesOn ==
  ASSUME ReportInv, pc' # "done", UNCHANGED <<answer, report>>, pc # "done"
  PROVE  /\ AnswerIsKnown' /\ Report!ErrorMeansNothingKnown'
         /\ answer = Report!NoAnswer /\ ~Report!Refused' /\ ~Report!Refused
         /\ ~Report!Ok'
  BY DEF ReportInv, NothingPosted, Report!NoAnswer, AnswerIsKnown, Report!Ok, Report!Refused,
         Report!ErrorMeansNothingKnown

LEMMA ReportAccepted ==
  ASSUME Report!Assumptions, ReportInv, Report!Accept
  PROVE  ReportInv'
<1>1. /\ pc = "decide" /\ report.client # "unknown"
      /\ pc' = IF plan'.jira THEN "create" ELSE "slack"
      /\ UNCHANGED <<report, jira, slack, streams, attached, tasks, known, answer>>
  BY DEF Report!Accept
<1>2. PICK found \in BOOLEAN :
        /\ plan' = Report!Decide(report, found)
        /\ found => report.related = "found"
        /\ report.related = "found" => found \/ faults' > 0
        /\ faults' \in 0 .. MaxReportFaults
  <2>1. faults \in 0 .. MaxReportFaults
    BY DEF ReportInv, Report!TypeOK
  <2>2. CASE plan' = Report!Decide(report, report.related = "found") /\ UNCHANGED faults
    <3>1. CASE report.related = "found"
      <4>1. (report.related = "found") = TRUE
        BY <3>1
      <4> QED
        BY <2>1, <2>2, <3>1, <4>1
    <3>2. CASE report.related # "found"
      <4>1. (report.related = "found") = FALSE
        BY <3>2
      <4> QED
        BY <2>1, <2>2, <3>2, <4>1
    <3> QED
      BY <3>1, <3>2
  <2>3. CASE report.related = "found" /\ plan' = Report!Decide(report, FALSE) /\ Report!Fail
    <3>1. faults' \in 0 .. MaxReportFaults /\ faults' > 0
      BY <2>1, <2>3 DEF Report!Fail, Report!Assumptions
    <3> QED
      BY <2>3, <3>1
  <2> QED
    BY <2>2, <2>3 DEF Report!Accept
<1>3. report \in Report!Reports
  BY DEF ReportInv, Report!TypeOK
<1>4. /\ plan' \in [channels : Seq(Report!Channels), slack : BOOLEAN, jira : BOOLEAN,
                    related : BOOLEAN]
      /\ plan'.channels = Chosen
      /\ ~plan'.jira => plan'.slack
  BY <1>1, <1>2, <1>3, Decided
<1>5. Chosen' = Chosen
  BY <1>1 DEF Chosen
<1>6. pc' # "done" /\ pc # "done" /\ pc' # "decide"
  BY <1>1
<1>7. Report!TypeOK'
  BY <1>1, <1>2, <1>4 DEF ReportInv, Report!TypeOK
<1>8. PlanFits'
  BY <1>1, <1>2 DEF PlanFits
<1>9. Planned'
  BY <1>1, <1>4, <1>5 DEF Planned
<1>10. NothingPosted' /\ IssueIsKnown' /\ FilesAreRead'
  BY <1>1, <1>4 DEF ReportInv, NothingPosted, IssueIsKnown, FilesAreRead, BeforeSlack,
                    Report!NoIssue, Accepted
<1>11. PostsFollowPlan'
  BY <1>1, <1>4, <1>5 DEF ReportInv, NothingPosted, PostsFollowPlan, BeforeSlack, Accepted
<1>12. Report!TextFilesWhole' /\ Report!SummaryQueuedLast'
  BY <1>1 DEF ReportInv, Report!TextFilesWhole, Report!SummaryQueuedLast
<1> QED
  BY <1>1, <1>6, <1>7, <1>8, <1>9, <1>10, <1>11, <1>12, GoesOn DEF ReportInv

LEMMA ReportCreates ==
  ASSUME Report!Assumptions, ReportInv, Report!CreateIssue
  PROVE  ReportInv'
<1>1. /\ pc = "create" /\ pc # "done" /\ plan.jira /\ ~known.key /\ jira = Report!NoIssue
      /\ report' = report /\ plan' = plan /\ slack' = slack /\ streams' = streams
      /\ attached' = attached /\ tasks' = tasks
  BY DEF Report!CreateIssue, ReportInv, Planned, IssueIsKnown
<1>2. faults \in 0 .. MaxReportFaults /\ known \in [key : BOOLEAN, posts : SUBSET Report!Channels]
  BY DEF ReportInv, Report!TypeOK
<1>3. /\ Report!NoIssue \in [exists : BOOLEAN, details : BOOLEAN, linked : BOOLEAN]
      /\ ~Report!NoIssue.exists
  BY DEF Report!NoIssue
<1>4. /\ Report!IssueFor(report) \in [exists : BOOLEAN, details : BOOLEAN, linked : BOOLEAN]
      /\ Report!IssueFor(report).details = (report.details # "none")
      /\ Report!IssueFor(report).exists
  BY DEF Report!IssueFor
<1>5. CASE /\ jira' = Report!IssueFor(report) /\ known' = [known EXCEPT !.key = TRUE]
           /\ pc' = "artifacts" /\ UNCHANGED <<answer, faults>>
  <2>1. /\ known' \in [key : BOOLEAN, posts : SUBSET Report!Channels]
        /\ known'.key /\ known'.posts = known.posts
    BY <1>2, <1>5
  <2>2. AnswerIsKnown' /\ Report!ErrorMeansNothingKnown' /\ answer = Report!NoAnswer
    BY <1>1, <1>5, GoesOn
  <2>3. Report!TypeOK'
    BY <1>1, <1>4, <1>5, <2>1 DEF ReportInv, Report!TypeOK
  <2>4. PlanFits' /\ Planned'
    BY <1>1, <1>5 DEF ReportInv, PlanFits, Planned, Chosen, Accepted, Report!Refused
  <2>5. NothingPosted' /\ FilesAreRead'
    BY <1>1, <1>5, <2>1 DEF ReportInv, NothingPosted, FilesAreRead, BeforeSlack
  <2>6. IssueIsKnown'
    BY <1>1, <1>4, <1>5, <2>1 DEF IssueIsKnown, BeforeSlack
  <2>7. PostsFollowPlan'
    BY <1>1, <1>5 DEF ReportInv, PostsFollowPlan, BeforeSlack
  <2>8. Report!TextFilesWhole' /\ Report!SummaryQueuedLast'
    BY <1>1 DEF ReportInv, Report!TextFilesWhole, Report!SummaryQueuedLast
  <2> QED
    BY <2>2, <2>3, <2>4, <2>5, <2>6, <2>7, <2>8 DEF ReportInv
<1>6. CASE /\ Report!Fail /\ jira' \in {Report!NoIssue, Report!IssueFor(report)}
           /\ Report!WithoutKey /\ UNCHANGED known
  <2>1. faults' \in 0 .. MaxReportFaults /\ faults' > 0
    BY <1>2, <1>6 DEF Report!Fail, Report!Assumptions
  <2>2. jira' \in [exists : BOOLEAN, details : BOOLEAN, linked : BOOLEAN]
    BY <1>3, <1>4, <1>6
  <2>3. known' = known
    BY <1>6
  <2>4. pc' # "decide" /\ pc' # "create" /\ pc' \notin {"artifacts", "attach", "link"}
    BY <1>6 DEF Report!WithoutKey, Report!Error
  <2>5. IssueIsKnown'
    BY <1>1, <2>1, <2>3, <2>4 DEF IssueIsKnown
  <2>6. CASE pc' = "slack" /\ UNCHANGED answer /\ plan.slack
    <3>1. AnswerIsKnown' /\ Report!ErrorMeansNothingKnown' /\ answer = Report!NoAnswer
      BY <1>1, <2>6, GoesOn
    <3>2. Report!TypeOK'
      BY <1>1, <2>1, <2>2, <2>3, <2>6 DEF ReportInv, Report!TypeOK
    <3>3. Planned'
      BY <1>1, <2>6 DEF Planned
    <3>4. PlanFits'
      BY <1>1, <2>1, <2>6 DEF ReportInv, PlanFits, Accepted, Report!Refused
    <3>5. NothingPosted' /\ FilesAreRead'
      BY <1>1, <2>3, <2>6, <3>1 DEF ReportInv, NothingPosted, FilesAreRead, BeforeSlack
    <3>6. \A c \in Report!Channels : slack'[c] = "nothing"
      BY <1>1 DEF ReportInv, NothingPosted, BeforeSlack
    <3>7. known'.posts = {}
      BY <1>1, <2>3 DEF ReportInv, NothingPosted, BeforeSlack
    <3>8. PostsFollowPlan'
      BY <2>1, <3>6, <3>7 DEF PostsFollowPlan
    <3>9. Report!TextFilesWhole' /\ Report!SummaryQueuedLast'
      BY <1>1 DEF ReportInv, Report!TextFilesWhole, Report!SummaryQueuedLast
    <3> QED
      BY <2>5, <3>1, <3>2, <3>3, <3>4, <3>5, <3>8, <3>9 DEF ReportInv
  <2>7. CASE Report!Error(500)
    <3>1. Report!ErrorMeansNothingKnown'
      BY <2>1 DEF Report!ErrorMeansNothingKnown
    <3>2. PICK code \in {400, 500} : Report!Error(code)
      BY <2>7
    <3> QED
      BY <1>1, <2>1, <2>2, <2>3, <2>5, <3>1, <3>2, Refusal
  <2> QED
    BY <1>6, <2>6, <2>7 DEF Report!WithoutKey
<1> QED
  BY <1>5, <1>6 DEF Report!CreateIssue

(* A step of upload_artifacts.                                              *)
LEMMA Uploading ==
  ASSUME ReportInv, pc \in {"artifacts", "attach"}, pc' \in {"attach", "link"},
         UNCHANGED <<report, plan, jira, slack, known, answer>>,
         faults' \in faults .. MaxReportFaults, streams' \subseteq report.files,
         pc' = "attach" => streams' \subseteq {"video"},
         attached' \in [Report!Files -> {"none", "whole", "empty"}], Report!TextFilesWhole',
         tasks' \in Seq({"screenshot", "logs", "priority", "summary"}),
         \A i \in 1 .. Len(tasks') : tasks'[i] # "summary"
  PROVE  ReportInv'
<1>1. /\ pc # "done" /\ pc' # "done" /\ report' = report /\ plan' = plan /\ jira' = jira
      /\ slack' = slack /\ known' = known /\ answer' = answer
      /\ BeforeSlack /\ BeforeSlack' /\ Chosen' = Chosen
  BY DEF BeforeSlack, Chosen
<1>2. AnswerIsKnown' /\ Report!ErrorMeansNothingKnown' /\ answer = Report!NoAnswer
  BY <1>1, GoesOn
<1>3. faults \in 0 .. MaxReportFaults /\ faults' \in 0 .. MaxReportFaults /\ faults' >= faults
  BY DEF ReportInv, Report!TypeOK
<1>4. Report!TypeOK'
  BY <1>1, <1>3 DEF ReportInv, Report!TypeOK
<1>5. PlanFits' /\ Planned'
  BY <1>1, <1>3 DEF ReportInv, PlanFits, Planned, Accepted, Report!Refused
<1>6. NothingPosted' /\ FilesAreRead'
  BY <1>1, <1>2 DEF ReportInv, NothingPosted, FilesAreRead
<1>7. IssueIsKnown'
  BY <1>1, <1>3 DEF ReportInv, IssueIsKnown
<1>8. PostsFollowPlan'
  BY <1>1, <1>3 DEF ReportInv, PostsFollowPlan, BeforeSlack
<1>9. Report!SummaryQueuedLast'
  BY DEF Report!SummaryQueuedLast
<1> QED
  BY <1>2, <1>4, <1>5, <1>6, <1>7, <1>8, <1>9 DEF ReportInv

LEMMA ReportIsRead ==
  ASSUME Report!Assumptions, ReportInv, Report!ReadFiles
  PROVE  ReportInv'
<1>1. /\ pc = "artifacts" /\ pc' = "attach"
      /\ UNCHANGED <<report, plan, jira, slack, attached, known, answer>>
      /\ streams' = Report!ParseLogFiles(report.files)
      /\ faults' = faults \/ Report!Fail
  BY DEF Report!ReadFiles
<1>2. faults' \in faults .. MaxReportFaults
  BY <1>1 DEF ReportInv, Report!TypeOK, Report!Fail, Report!Assumptions
<1>3. streams' \subseteq report.files /\ streams' \subseteq {"video"}
  BY <1>1 DEF Report!ParseLogFiles
<1>4. tasks' = <<"screenshot">> \o <<"logs">> \/ tasks' = <<>> \o <<"logs">>
  BY DEF Report!ReadFiles
<1>5. /\ attached' \in [Report!Files -> {"none", "whole", "empty"}]
      /\ Report!TextFilesWhole'
  BY <1>1 DEF ReportInv, Report!TypeOK, Report!TextFilesWhole
<1>6. /\ tasks' \in Seq({"screenshot", "logs", "priority", "summary"})
      /\ \A i \in 1 .. Len(tasks') : tasks'[i] # "summary"
  <2>1. CASE tasks' = <<"screenshot">> \o <<"logs">>
    <3> DEFINE T == {"screenshot", "logs", "priority", "summary"}
               s == <<"screenshot">>
               t == <<"logs">>
    <3>1. /\ s \in Seq(T) /\ Len(s) = 1 /\ s[1] # "summary"
          /\ t \in Seq(T) /\ Len(t) = 1 /\ t[1] # "summary"
      OBVIOUS
    <3> HIDE DEF s, t
    <3> QED
      BY <2>1, <3>1, ConcatProperties
  <2>2. CASE tasks' = <<>> \o <<"logs">>
    <3>1. tasks' = <<"logs">>
      BY <2>2
    <3> QED
      BY <3>1
  <2> QED
    BY <1>4, <2>1, <2>2
<1> QED
  BY <1>1, <1>2, <1>3, <1>5, <1>6, Uploading

LEMMA ReportAttached ==
  ASSUME Report!Assumptions, ReportInv, Report!UploadAttachments
  PROVE  ReportInv'
<1>1. /\ pc = "attach" /\ pc' = "link" /\ tasks' = tasks
      /\ UNCHANGED <<report, plan, jira, slack, known, answer>>
      /\ faults' = faults \/ Report!Fail
      /\ streams' = streams \/ streams' = report.files
      /\ \/ attached' = attached
         \/ attached' = [f \in Report!Files |-> IF f \notin report.files THEN "none"
                                                ELSE IF f \in streams THEN "empty" ELSE "whole"]
  BY DEF Report!UploadAttachments
<1>2. faults' \in faults .. MaxReportFaults
  BY <1>1 DEF ReportInv, Report!TypeOK, Report!Fail, Report!Assumptions
<1>3. streams' \subseteq report.files /\ streams \subseteq {"video"}
  BY <1>1 DEF ReportInv, Report!TypeOK, FilesAreRead
<1>4. attached' \in [Report!Files -> {"none", "whole", "empty"}]
  BY <1>1 DEF ReportInv, Report!TypeOK
<1>5. Report!TextFilesWhole'
  <2> SUFFICES ASSUME NEW f \in Report!Files \ {"video"}
               PROVE  attached'[f] # "empty"
    BY DEF Report!TextFilesWhole
  <2>1. attached[f] # "empty" /\ f \notin streams
    BY <1>3 DEF ReportInv, Report!TextFilesWhole
  <2> QED
    BY <1>1, <2>1
<1>6. /\ tasks' \in Seq({"screenshot", "logs", "priority", "summary"})
      /\ \A i \in 1 .. Len(tasks') : tasks'[i] # "summary"
  BY <1>1 DEF ReportInv, Report!TypeOK, NothingPosted, BeforeSlack
<1> QED
  BY <1>1, <1>2, <1>3, <1>4, <1>5, <1>6, Uploading

LEMMA ReportHasNoFiles ==
  ASSUME ReportInv, Report!NoArtifacts
  PROVE  ReportInv'
<1>1. /\ pc = "artifacts" /\ pc' = "link" /\ tasks' = tasks /\ attached' = attached
      /\ streams' = streams /\ faults' = faults
      /\ UNCHANGED <<report, plan, jira, slack, known, answer>>
  BY DEF Report!NoArtifacts
<1>2. /\ faults' \in faults .. MaxReportFaults /\ streams' \subseteq report.files
      /\ attached' \in [Report!Files -> {"none", "whole", "empty"}]
      /\ tasks' \in Seq({"screenshot", "logs", "priority", "summary"})
  BY <1>1 DEF ReportInv, Report!TypeOK
<1>3. Report!TextFilesWhole' /\ \A i \in 1 .. Len(tasks') : tasks'[i] # "summary"
  BY <1>1 DEF ReportInv, Report!TextFilesWhole, NothingPosted, BeforeSlack
<1> QED
  BY <1>1, <1>2, <1>3, Uploading


LEMMA SummaryLast ==
  ASSUME ReportInv, pc = "link", tasks' = tasks \o <<"priority", "summary">>
  PROVE  /\ tasks' \in Seq({"screenshot", "logs", "priority", "summary"})
         /\ Report!SummaryQueuedLast'
<1> DEFINE T == {"screenshot", "logs", "priority", "summary"}
           s == <<"priority", "summary">>
<1>1. s \in Seq(T) /\ Len(s) = 2 /\ s[1] # "summary"
  OBVIOUS
<1>2. tasks \in Seq(T) /\ \A i \in 1 .. Len(tasks) : tasks[i] # "summary"
  BY DEF ReportInv, Report!TypeOK, NothingPosted, BeforeSlack
<1>3. tasks' = tasks \o s
  OBVIOUS
<1> HIDE DEF s
<1>4. /\ tasks' \in Seq(T) /\ Len(tasks') = Len(tasks) + 2 /\ Len(tasks) \in Nat
      /\ \A i \in 1 .. Len(tasks) : tasks'[i] = tasks[i]
      /\ tasks'[Len(tasks) + 1] = s[1]
  BY <1>1, <1>2, <1>3, ConcatProperties
<1>5. \A i \in 1 .. Len(tasks') : tasks'[i] = "summary" => i = Len(tasks')
  <2> TAKE i \in 1 .. Len(tasks')
  <2>1. i \in 1 .. Len(tasks) \/ i = Len(tasks) + 1 \/ i = Len(tasks) + 2
    BY <1>4
  <2> QED
    BY <1>1, <1>2, <1>4, <2>1
<1> QED
  BY <1>4, <1>5 DEF Report!SummaryQueuedLast

LEMMA ReportLinked ==
  ASSUME Report!Assumptions, ReportInv, Report!LinkAndSubmit
  PROVE  ReportInv'
<1>1. /\ pc = "link" /\ report' = report /\ plan' = plan /\ slack' = slack /\ streams' = streams
      /\ attached' = attached /\ known' = known
      /\ tasks' = tasks \o <<"priority", "summary">>
      /\ plan.jira /\ known.key
  BY DEF Report!LinkAndSubmit, ReportInv, Planned, IssueIsKnown
<1>2. /\ faults \in 0 .. MaxReportFaults /\ plan.related \in BOOLEAN
      /\ jira \in [exists : BOOLEAN, details : BOOLEAN, linked : BOOLEAN]
  BY DEF ReportInv, Report!TypeOK
<1>3. /\ jira' \in [exists : BOOLEAN, details : BOOLEAN, linked : BOOLEAN]
      /\ jira'.exists = jira.exists /\ jira'.details = jira.details
      /\ faults' \in 0 .. MaxReportFaults /\ faults' >= faults
      /\ jira'.linked = plan.related \/ faults' > 0
  <2>1. CASE jira' = [jira EXCEPT !.linked = plan.related] /\ UNCHANGED faults
    BY <1>2, <2>1
  <2>2. CASE plan.related /\ Report!Fail /\ UNCHANGED jira
    <3>1. faults' \in 0 .. MaxReportFaults /\ faults' > 0 /\ faults' >= faults
      BY <1>2, <2>2 DEF Report!Fail, Report!Assumptions
    <3> QED
      BY <1>2, <2>2, <3>1
  <2> QED
    BY <2>1, <2>2 DEF Report!LinkAndSubmit
<1>4. /\ tasks' \in Seq({"screenshot", "logs", "priority", "summary"})
      /\ Report!SummaryQueuedLast'
  BY <1>1, SummaryLast
<1>5. answer = Report!NoAnswer /\ ~Report!Refused /\ Accepted /\ answer.status = "none"
  BY <1>1 DEF ReportInv, NothingPosted, Report!Refused, Report!NoAnswer, Accepted
<1>6. \/ plan.slack /\ pc' = "slack" /\ answer' = answer
      \/ /\ ~plan.slack /\ pc' = "done"
         /\ answer' = [status |-> "ok", issue |-> TRUE, primary |-> FALSE, forwarded |-> {}]
  BY DEF Report!LinkAndSubmit
<1>7. ~Report!Refused' /\ ~BeforeSlack' /\ pc' \in {"slack", "done"} /\ Accepted'
  BY <1>5, <1>6 DEF Report!Refused, BeforeSlack, Accepted
<1>8. Report!TypeOK'
  <2>1. \/ answer' = Report!NoAnswer
        \/ answer' \in [status : {"ok"}, issue : BOOLEAN, primary : BOOLEAN,
                        forwarded : SUBSET Report!Channels]
    <3>1. CASE answer' = answer
      BY <1>5, <3>1
    <3>2. CASE answer' = [status |-> "ok", issue |-> TRUE, primary |-> FALSE, forwarded |-> {}]
      BY <3>2
    <3> QED
      BY <1>6, <3>1, <3>2
  <2> QED
    BY <1>1, <1>3, <1>4, <1>7, <2>1 DEF ReportInv, Report!TypeOK
<1>9. PlanFits' /\ Planned'
  <2>1. PlanFits'
    <3>1. PICK found \in BOOLEAN :
            /\ report.related = "found" => found \/ faults > 0
            /\ found => report.related = "found"
            /\ plan.slack = Report!Decide(report, found).slack
            /\ plan.jira = Report!Decide(report, found).jira
            /\ plan.related = Report!Decide(report, found).related
      BY <1>5 DEF ReportInv, PlanFits
    <3>2. report'.related = "found" => found \/ faults' > 0
      BY <1>1, <1>2, <1>3, <3>1
    <3>3. report'.client # "unknown"
      BY <1>1, <1>5 DEF ReportInv, PlanFits
    <3> QED
      BY <1>1, <3>1, <3>2, <3>3 DEF PlanFits
  <2> QED
    BY <1>1, <1>6, <2>1 DEF Planned
<1>10. NothingPosted' /\ FilesAreRead'
  BY <1>5, <1>6, <1>7 DEF NothingPosted, FilesAreRead
<1>11. IssueIsKnown'
  BY <1>1, <1>2, <1>3, <1>7 DEF ReportInv, IssueIsKnown
<1>12. PostsFollowPlan'
  <2>1. known.posts = {} /\ \A c \in Report!Channels : slack[c] = "nothing"
    BY <1>1 DEF ReportInv, NothingPosted, BeforeSlack
  <2>2. plan.channels = Chosen /\ Chosen' = Chosen
    BY <1>1 DEF ReportInv, Planned, Chosen
  <2> QED
    BY <1>1, <2>1, <2>2 DEF PostsFollowPlan
<1>13. AnswerIsKnown'
  <2>1. known'.posts = {}
    BY <1>1 DEF ReportInv, NothingPosted, BeforeSlack
  <2>2. known'.key = TRUE
    BY <1>1 DEF ReportInv, Report!TypeOK
  <2> QED
    <3>1. CASE answer' = answer
      BY <1>5, <3>1 DEF AnswerIsKnown, Report!Ok
    <3>2. CASE /\ pc' = "done"
               /\ answer' = [status |-> "ok", issue |-> TRUE, primary |-> FALSE, forwarded |-> {}]
      BY <2>1, <2>2, <3>2 DEF AnswerIsKnown, Report!Ok
    <3> QED
      BY <1>6, <3>1, <3>2
<1>14. Report!ErrorMeansNothingKnown'
  BY <1>7 DEF Report!ErrorMeansNothingKnown
<1>15. Report!TextFilesWhole'
  BY <1>1 DEF ReportInv, Report!TextFilesWhole
<1> QED
  BY <1>4, <1>8, <1>9, <1>10, <1>11, <1>12, <1>13, <1>14, <1>15 DEF ReportInv

LEMMA ReportAnswered ==
  ASSUME Report!Assumptions, ReportInv, Report!AnswerRequest
  PROVE  ReportInv'
<1> DEFINE primary == Head(Chosen) \in known.posts
<1>1. /\ pc = "slack" /\ plan.channels = <<>> /\ plan.slack
      /\ UNCHANGED <<report, plan, jira, slack, streams, attached, tasks, known, faults>>
      /\ report' = report /\ plan' = plan /\ jira' = jira /\ slack' = slack
      /\ streams' = streams /\ attached' = attached /\ tasks' = tasks /\ known' = known
      /\ faults' = faults
  BY DEF Report!AnswerRequest, ReportInv, Planned
<1>2. Report!Primary(report) = Head(Chosen)
  BY DEF Report!Primary, Chosen
<1>3. answer = Report!NoAnswer /\ Accepted /\ ~BeforeSlack /\ ~Report!Refused
  BY <1>1 DEF ReportInv, NothingPosted, Accepted, BeforeSlack, Report!Refused, Report!NoAnswer
<1>4. CASE primary \/ known.key
  <2>1. /\ pc' = "done"
        /\ answer' = [status |-> "ok", issue |-> known.key, primary |-> primary,
                      forwarded |-> known.posts \ {Head(Chosen)}]
    BY <1>2, <1>4 DEF Report!AnswerRequest
  <2>2. PICK b \in BOOLEAN : b <=> primary
    OBVIOUS
  <2>3. answer' = [status |-> "ok", issue |-> known.key, primary |-> b,
                   forwarded |-> known.posts \ {Head(Chosen)}]
    <3>1. b = primary
      BY <2>2
    <3> QED
      BY <2>1, <3>1
  <2>4. /\ answer'.status = "ok" /\ answer'.issue = known.key /\ answer'.primary = b
        /\ ~Report!Refused' /\ Accepted' /\ ~BeforeSlack'
    BY <2>1, <2>3 DEF Report!Refused, Accepted, BeforeSlack
  <2>5. Report!TypeOK'
    <3>1. known \in [key : BOOLEAN, posts : SUBSET Report!Channels]
      BY DEF ReportInv, Report!TypeOK
    <3>2. answer' \in [status : {"ok"}, issue : BOOLEAN, primary : BOOLEAN,
                       forwarded : SUBSET Report!Channels]
      BY <2>3, <3>1
    <3> QED
      BY <1>1, <2>1, <3>2 DEF ReportInv, Report!TypeOK
  <2>6. PlanFits' /\ Planned'
    BY <1>1, <1>3, <2>1 DEF ReportInv, PlanFits, Planned
  <2>7. NothingPosted' /\ FilesAreRead'
    BY <2>1, <2>4 DEF NothingPosted, FilesAreRead, BeforeSlack
  <2>8. IssueIsKnown'
    BY <1>1, <1>3, <2>1, <2>4 DEF ReportInv, IssueIsKnown
  <2>9. PostsFollowPlan'
    BY <1>1, <1>3, <2>1 DEF ReportInv, PostsFollowPlan
  <2>10. AnswerIsKnown'
    <3>1. Chosen' = Chosen
      BY <1>1 DEF Chosen
    <3>2. b => Head(Chosen) \in known.posts
      BY <2>2
    <3> QED
      BY <1>1, <2>1, <2>4, <3>1, <3>2 DEF AnswerIsKnown
  <2>11. Report!ErrorMeansNothingKnown'
    BY <2>4 DEF Report!ErrorMeansNothingKnown
  <2>12. Report!TextFilesWhole' /\ Report!SummaryQueuedLast'
    BY <1>1 DEF ReportInv, Report!TextFilesWhole, Report!SummaryQueuedLast
  <2> QED
    BY <2>5, <2>6, <2>7, <2>8, <2>9, <2>10, <2>11, <2>12 DEF ReportInv
<1>5. CASE ~(primary \/ known.key)
  <2>1. Report!Error(500)
    BY <1>2, <1>5 DEF Report!AnswerRequest
  <2>2. Chosen # <<>>
    <3>1. PICK found \in BOOLEAN : /\ found => report.related = "found"
                                   /\ plan.slack = Report!Decide(report, found).slack
      BY <1>3 DEF ReportInv, PlanFits
    <3>2. report \in Report!Reports /\ report.client # "unknown"
      BY <1>3 DEF ReportInv, PlanFits, Report!TypeOK
    <3>3. Report!Decide(report, found).slack => Chosen # <<>>
      BY <3>1, <3>2, Decided
    <3> QED
      BY <1>1, <3>1, <3>3
  <2>3. faults > 0
    BY <1>1, <1>5, <2>2 DEF ReportInv, PostsFollowPlan
  <2>4. Report!ErrorMeansNothingKnown'
    BY <1>1, <2>3 DEF Report!ErrorMeansNothingKnown
  <2> QED
    BY <1>1, <2>1, <2>4, IssueStaysKnown
<1> QED
  BY <1>4, <1>5


LEMMA ReportPosted ==
  ASSUME Report!Assumptions, ReportInv, Report!PostIssue
  PROVE  ReportInv'
<1> DEFINE c == Head(plan.channels)
<1>1. /\ pc = "slack" /\ pc' = pc /\ plan.channels # <<>> /\ report.reporter # "unknown"
      /\ plan' = [plan EXCEPT !.channels = Tail(@)]
      /\ streams' = streams \cup (report.files \cap {"screenshot"})
      /\ report' = report /\ jira' = jira /\ attached' = attached /\ tasks' = tasks
      /\ answer' = answer
  BY DEF Report!PostIssue, Report!Rest
<1>2. /\ faults \in 0 .. MaxReportFaults /\ MaxReportFaults \in Nat
      /\ known \in [key : BOOLEAN, posts : SUBSET Report!Channels]
      /\ slack \in [Report!Channels -> {"nothing", "post", "thread"}]
      /\ plan \in [channels : Seq(Report!Channels), slack : BOOLEAN, jira : BOOLEAN,
                   related : BOOLEAN]
  BY DEF ReportInv, Report!TypeOK, Report!Assumptions
<1>3. c \in Report!Channels /\ Tail(plan.channels) \in Seq(Report!Channels)
  BY <1>1, <1>2
<1>4. /\ plan' \in [channels : Seq(Report!Channels), slack : BOOLEAN, jira : BOOLEAN,
                    related : BOOLEAN]
      /\ plan'.slack = plan.slack /\ plan'.jira = plan.jira /\ plan'.related = plan.related
  BY <1>1, <1>2, <1>3
<1> HIDE DEF c
<1>5. /\ answer = Report!NoAnswer /\ Accepted /\ ~BeforeSlack
      /\ AnswerIsKnown' /\ Report!ErrorMeansNothingKnown' /\ ~Report!Refused /\ ~Report!Refused'
  BY <1>1, GoesOn DEF Accepted, BeforeSlack
<1>6. /\ Accepted' /\ ~BeforeSlack' /\ pc' = "slack" /\ pc' # "done"
  BY <1>1, <1>5 DEF Accepted, BeforeSlack
<1>7. PICK v \in {"nothing", "post", "thread"} :
        /\ slack' = [slack EXCEPT ![c] = v]
        /\ faults' = faults \/ Report!Fail
        /\ known' = known \/ known' = [known EXCEPT !.posts = @ \cup {c}]
        /\ known' = known => Report!Fail \/ c \in known.posts
        /\ Report!InfoInReply => v = "thread" \/ Report!Fail
  <2>1. CASE /\ known' = [known EXCEPT !.posts = @ \cup {c}]
             /\ Report!InfoInReply /\ Report!PostInfoInReply(c)
    <3>1. known' = known => c \in known.posts
      BY <1>2, <2>1
    <3>2. CASE slack' = [slack EXCEPT ![c] = "thread"] /\ UNCHANGED faults
      BY <2>1, <3>1, <3>2
    <3>3. CASE Report!Fail /\ \E done \in {"post", "thread"} : slack' = [slack EXCEPT ![c] = done]
      BY <2>1, <3>3
    <3> QED
      BY <2>1, <3>2, <3>3 DEF Report!PostInfoInReply
  <2>2. CASE /\ known' = [known EXCEPT !.posts = @ \cup {c}]
             /\ ~Report!InfoInReply /\ slack' = [slack EXCEPT ![c] = "post"] /\ UNCHANGED faults
    <3>1. known' = known => c \in known.posts
      BY <1>2, <2>2
    <3> QED
      BY <2>2, <3>1
  <2>3. CASE /\ Report!Fail /\ UNCHANGED known
             /\ \E done \in {"nothing", "post"} : slack' = [slack EXCEPT ![c] = done]
    BY <2>3
  <2> QED
    BY <2>1, <2>2, <2>3 DEF Report!PostIssue, c
<1>8. /\ faults' \in 0 .. MaxReportFaults /\ faults' >= faults
      /\ Report!Fail => faults' = faults + 1
  BY <1>2, <1>7 DEF Report!Fail
<1>9. /\ known' \in [key : BOOLEAN, posts : SUBSET Report!Channels]
      /\ known'.key = known.key /\ known'.posts \subseteq known.posts \cup {c}
      /\ known.posts \subseteq known'.posts /\ (c \in known'.posts \/ Report!Fail)
  BY <1>2, <1>3, <1>7
<1>10. Report!TypeOK'
  <2>1. slack' \in [Report!Channels -> {"nothing", "post", "thread"}]
    BY <1>2, <1>7
  <2>2. streams' \subseteq report'.files
    BY <1>1 DEF ReportInv, Report!TypeOK
  <2> QED
    BY <1>1, <1>4, <1>8, <1>9, <2>1, <2>2 DEF ReportInv, Report!TypeOK
<1>11. PlanFits' /\ Planned'
  <2>1. PICK found \in BOOLEAN :
          /\ report.related = "found" => found \/ faults > 0
          /\ found => report.related = "found"
          /\ plan.slack = Report!Decide(report, found).slack
          /\ plan.jira = Report!Decide(report, found).jira
          /\ plan.related = Report!Decide(report, found).related
    BY <1>5 DEF ReportInv, PlanFits
  <2>2. report'.related = "found" => found \/ faults' > 0
    BY <1>1, <1>2, <1>8, <2>1
  <2>3. report'.client # "unknown"
    BY <1>1, <1>5 DEF ReportInv, PlanFits
  <2>4. PlanFits'
    BY <1>1, <1>4, <2>1, <2>2, <2>3 DEF PlanFits
  <2>5. Planned'
    BY <1>1, <1>4 DEF ReportInv, Planned
  <2> QED
    BY <2>4, <2>5
<1>12. NothingPosted' /\ FilesAreRead'
  BY <1>1, <1>5, <1>6 DEF NothingPosted, FilesAreRead
<1>13. IssueIsKnown'
  BY <1>1, <1>2, <1>4, <1>5, <1>6, <1>8, <1>9 DEF ReportInv, IssueIsKnown
<1>14. PostsFollowPlan'
  <2>1. Chosen' = Chosen
    BY <1>1 DEF Chosen
  <2>2. Head(Chosen) \in known'.posts \/ faults' > 0
    <3>1. plan.channels = Chosen => c = Head(Chosen)
      BY DEF c
    <3>2. \/ plan.channels = Chosen \/ Head(Chosen) \in known.posts \/ faults > 0
      BY <1>1 DEF ReportInv, PostsFollowPlan
    <3> QED
      BY <1>2, <1>8, <1>9, <3>1, <3>2
  <2>3. ASSUME report.details # "none", ~known.key
        PROVE  \/ \A d \in known'.posts : slack'[d] = "thread"
               \/ faults' >= (IF plan.jira THEN 2 ELSE 1)
    <3>1. \/ \A d \in known.posts : slack[d] = "thread"
          \/ faults >= (IF plan.jira THEN 2 ELSE 1)
      BY <1>5, <2>3 DEF ReportInv, PostsFollowPlan
    <3>2. plan.jira => faults > 0
      BY <1>1, <1>5, <2>3 DEF ReportInv, IssueIsKnown
    <3>3. CASE Report!Fail
      BY <1>2, <1>8, <3>2, <3>3
    <3>4. CASE v = "thread" /\ \A d \in known.posts : slack[d] = "thread"
      BY <1>2, <1>3, <1>7, <1>9, <3>4
    <3>5. CASE faults >= (IF plan.jira THEN 2 ELSE 1)
      BY <1>2, <1>8, <3>5
    <3>6. Report!InfoInReply
      BY <2>3 DEF Report!InfoInReply
    <3> QED
      BY <1>7, <3>1, <3>3, <3>4, <3>5, <3>6
  <2> QED
    BY <1>1, <1>4, <1>9, <2>1, <2>2, <2>3 DEF PostsFollowPlan
<1>15. Report!TextFilesWhole' /\ Report!SummaryQueuedLast'
  BY <1>1 DEF ReportInv, Report!TextFilesWhole, Report!SummaryQueuedLast
<1> QED
  BY <1>5, <1>10, <1>11, <1>12, <1>13, <1>14, <1>15 DEF ReportInv

LEMMA ReportUnchanged ==
  ASSUME ReportInv, report' = report, pc' = pc, plan' = plan, jira' = jira, slack' = slack,
         streams' = streams, attached' = attached, tasks' = tasks, known' = known,
         answer' = answer, faults' = faults
  PROVE  ReportInv'
<1>1. /\ Report!TypeOK' /\ PlanFits' /\ Planned' /\ NothingPosted' /\ IssueIsKnown'
      /\ FilesAreRead' /\ AnswerIsKnown'
  BY DEF ReportInv, Report!TypeOK, PlanFits, Planned, NothingPosted, IssueIsKnown, FilesAreRead,
         AnswerIsKnown, Chosen, Accepted, BeforeSlack, Report!Refused, Report!Ok
<1>2. PostsFollowPlan' /\ Report!TextFilesWhole' /\ Report!SummaryQueuedLast'
  BY DEF ReportInv, PostsFollowPlan, Chosen, Accepted, BeforeSlack, Report!Refused,
         Report!TextFilesWhole, Report!SummaryQueuedLast
<1>3. Report!ErrorMeansNothingKnown'
  BY DEF ReportInv, Report!ErrorMeansNothingKnown, Report!Refused, Report!Published,
         Report!FirstParagraph
<1> QED
  BY <1>1, <1>2, <1>3 DEF ReportInv

LEMMA ReportStep ==
  ASSUME Report!Assumptions, ReportInv, Report!Next
  PROVE  ReportInv'
<1>1. CASE Report!Finished
  <2>1. /\ report' = report /\ pc' = pc /\ plan' = plan /\ jira' = jira /\ slack' = slack
        /\ streams' = streams /\ attached' = attached /\ tasks' = tasks /\ known' = known
        /\ answer' = answer /\ faults' = faults
    BY <1>1 DEF Report!Finished, Report!vars
  <2> QED
    BY <2>1, ReportUnchanged
<1> QED
  BY <1>1, ReportRefused, ReportAccepted, ReportCreates, ReportIsRead, ReportAttached,
     ReportHasNoFiles, ReportNotRead, ReportLinked, ReportPosted, ReportNotPosted,
     ReportAnswered DEF Report!Next

(* The invariant implies what is promised of a report.                      *)
LEMMA ReportHolds ==
  ASSUME Report!Assumptions, ReportInv
  PROVE  /\ Report!ReportTypesTellTheTruth /\ Report!DetailsReachReader
         /\ Report!RelatedIsLinked
<1> SUFFICES ASSUME Report!Ok
             PROVE  /\ Report!ReportTypesTellTheTruth /\ Report!DetailsReachReader
                    /\ Report!RelatedIsLinked
  BY DEF Report!ReportTypesTellTheTruth, Report!DetailsReachReader, Report!RelatedIsLinked
<1>1. /\ pc = "done" /\ answer.issue = known.key
      /\ answer.primary => Head(Chosen) \in known.posts
      /\ known.posts # {} => plan.slack
  BY DEF ReportInv, AnswerIsKnown
<1>2. Accepted /\ ~BeforeSlack
  BY <1>1 DEF Accepted, BeforeSlack, Report!Refused, Report!Ok
<1>3. PICK found \in BOOLEAN :
        /\ report.related = "found" => found \/ faults > 0
        /\ found => report.related = "found"
        /\ plan.slack = Report!Decide(report, found).slack
        /\ plan.jira = Report!Decide(report, found).jira
        /\ plan.related = Report!Decide(report, found).related
  BY <1>2 DEF ReportInv, PlanFits
<1>4. report \in Report!Reports /\ report.client # "unknown" /\ faults \in Nat
  BY <1>2 DEF ReportInv, Report!TypeOK, PlanFits
<1>5. /\ ~plan.jira => plan.slack
      /\ plan.slack => Chosen # <<>> /\ (plan.jira <=> Head(Chosen) \in Labelled)
      /\ plan.jira => (plan.related <=> found)
      /\ Chosen # <<>> /\ report.related = "none" => plan.slack
      /\ plan.jira /\ report.related # "none" /\ ~found => ~plan.slack
  BY <1>3, <1>4, Decided
<1>6. /\ jira.exists \in BOOLEAN /\ known.key \in BOOLEAN /\ jira.linked \in BOOLEAN
      /\ plan.jira \in BOOLEAN /\ plan.related \in BOOLEAN
  BY DEF ReportInv, Report!TypeOK
<1>7. /\ known.key => jira.exists /\ jira.details = (report.details # "none") /\ plan.jira
      /\ jira.exists => plan.jira /\ (known.key \/ faults > 0)
      /\ plan.jira => known.key \/ faults > 0
      /\ jira.exists => jira.linked = plan.related \/ faults > 0
  BY <1>1, <1>2 DEF ReportInv, IssueIsKnown
<1>8. Report!Primary(report) = Head(Chosen)
  BY DEF Report!Primary, Chosen
<1>9. Report!ReportTypesTellTheTruth
  <2> SUFFICES ASSUME report.type # "none", report.client = "none", report.related = "none",
                      faults = 0
               PROVE  answer.issue = Report!AlsoPostsToJira(report.type)
    BY DEF Report!ReportTypesTellTheTruth
  <2>1. Chosen # <<>> /\ Head(Chosen) = TypeChannel[report.type]
    BY <1>4, ChannelsFound
  <2>2. known.key <=> TypeChannel[report.type] \in Labelled
    BY <1>5, <1>7, <2>1
  <2>3. known.key = (TypeChannel[report.type] \in Labelled)
    BY <1>6, <2>2
  <2> QED
    BY <1>1, <2>3 DEF Report!AlsoPostsToJira
<1>10. Report!DetailsReachReader
  <2> SUFFICES ASSUME report.details # "none"
               PROVE  \/ answer.issue /\ jira.details
                      \/ \A c \in known.posts : slack[c] = "thread"
                      \/ faults >= (IF plan.jira THEN 2 ELSE 1)
    BY DEF Report!DetailsReachReader
  <2>1. CASE known.key
    BY <1>1, <1>7, <2>1
  <2>2. CASE ~known.key
    BY <1>2, <2>2 DEF ReportInv, PostsFollowPlan
  <2> QED
    BY <2>1, <2>2
<1>11. Report!RelatedIsLinked
  <2> SUFFICES ASSUME report.related # "none", faults = 0
               PROVE  /\ jira.exists => jira.linked = (report.related = "found")
                      /\ answer.primary => jira.exists = (Head(Chosen) \in Labelled)
                      /\ report.related = "missing" /\ answer.issue => ~answer.primary
    BY <1>8 DEF Report!RelatedIsLinked
  <2>1. jira.exists => (jira.linked <=> report.related = "found")
    BY <1>3, <1>5, <1>7
  <2>2. answer.primary => (jira.exists <=> Head(Chosen) \in Labelled)
    BY <1>1, <1>5, <1>7
  <2>3. report.related = "missing" /\ answer.issue => ~answer.primary
    BY <1>1, <1>3, <1>5, <1>7
  <2> QED
    BY <1>6, <2>1, <2>2, <2>3
<1> QED
  BY <1>9, <1>10, <1>11


-----------------------------------------------------------------------------
(* All of them: the service is chosen at the start.                         *)
ServicesInv ==
  \/ service = "report" /\ ReportInv
  \/ service = "tasks" /\ TasksInv
  \/ service = "mails" /\ MailsInv
  \/ service = "quality" /\ QualityInv /\ SavedKept
  \/ service = "gpt" /\ GptInv
  \/ service = "vectors" /\ VectorsInv

LEMMA ServicesStart == Init => ServicesInv
BY ConstantsAssumption, ReportStart, TasksStart, MailsStart, QualityStart, SavedStart, GptStart, VectorsStart
   DEF Init, ServicesInv

(* What every step of a service keeps (see NothingIsOverwritten).           *)
EachStepKeeps ==
  CASE service = "vectors" -> Vectors!KeepsNewest /\ Vectors!KeepsEmbeddings
    [] service = "tasks"   -> Tasks!KeepsPriority
    [] service = "gpt"     -> Gpt!KeepsAnswer
    [] service = "quality" -> Quality!KeepsHistory
    [] OTHER               -> TRUE

LEMMA ServicesGoOn ==
  ASSUME ServicesInv, Next
  PROVE  ServicesInv' /\ EachStepKeeps
<1>1. CASE NextReport
  <2>1. service = "report" /\ service' = service /\ Report!Next /\ ReportInv
    BY <1>1 DEF NextReport, BesideReport, ServicesInv
  <2>2. ReportInv'
    BY <2>1, ConstantsAssumption, ReportStep
  <2> QED
    BY <2>1, <2>2 DEF ServicesInv, EachStepKeeps
<1>2. CASE NextTasks
  <2>1. service = "tasks" /\ service' = service /\ Tasks!Next /\ TasksInv
    BY <1>2 DEF NextTasks, BesideTasks, ServicesInv
  <2>2. TasksInv' /\ Tasks!KeepsPriority
    BY <2>1, ConstantsAssumption, TasksStep
  <2> QED
    BY <2>1, <2>2 DEF ServicesInv, EachStepKeeps
<1>3. CASE NextMails
  <2>1. service = "mails" /\ service' = service /\ Mails!Next /\ MailsInv
    BY <1>3 DEF NextMails, BesideMails, ServicesInv
  <2>2. MailsInv'
    BY <2>1, ConstantsAssumption, MailsStep
  <2> QED
    BY <2>1, <2>2 DEF ServicesInv, EachStepKeeps
<1>4. CASE NextQuality
  <2>1. service = "quality" /\ service' = service /\ Quality!Next /\ QualityInv /\ SavedKept
    BY <1>4 DEF NextQuality, BesideQuality, ServicesInv
  <2>2. QualityInv' /\ SavedKept' /\ Quality!KeepsHistory
    BY <2>1, ConstantsAssumption, QualityStep, SavedStep
  <2> QED
    BY <2>1, <2>2 DEF ServicesInv, EachStepKeeps
<1>5. CASE NextGpt
  <2>1. service = "gpt" /\ service' = service /\ Gpt!Next /\ GptInv
    BY <1>5 DEF NextGpt, BesideGpt, ServicesInv
  <2>2. GptInv' /\ Gpt!KeepsAnswer
    BY <2>1, ConstantsAssumption, GptStep, GptKeepsAnswer
  <2> QED
    BY <2>1, <2>2 DEF ServicesInv, EachStepKeeps
<1>6. CASE NextVectors
  <2>1. service = "vectors" /\ service' = service /\ Vectors!Next /\ VectorsInv
    BY <1>6 DEF NextVectors, BesideVectors, ServicesInv
  <2>2. VectorsInv' /\ Vectors!KeepsNewest /\ Vectors!KeepsEmbeddings
    BY <2>1, ConstantsAssumption, VectorsStep, VectorsKeep
  <2> QED
    BY <2>1, <2>2 DEF ServicesInv, EachStepKeeps
<1> QED
  BY <1>1, <1>2, <1>3, <1>4, <1>5, <1>6 DEF Next

LEMMA ServicesStay ==
  ASSUME ServicesInv, UNCHANGED vars
  PROVE  ServicesInv'
<1>1. /\ service' = service
      /\ UNCHANGED ReportVars /\ UNCHANGED TaskVars /\ UNCHANGED MailVars
      /\ UNCHANGED QualityVars /\ UNCHANGED GptVars /\ UNCHANGED VectorVars
      /\ UNCHANGED SharedVars
  BY DEF vars
<1>2. /\ jira' = jira /\ history' = history /\ mails' = mails /\ today' = today
      /\ record' = record /\ index' = index /\ job' = job /\ faults' = faults
  BY <1>1 DEF SharedVars
<1>3. ReportInv => ReportInv'
  BY <1>1, <1>2, ReportUnchanged DEF ReportVars
<1>4. TasksInv => TasksInv'
  <2>1. /\ requests' = requests /\ queue' = queue /\ running' = running /\ s3' = s3
        /\ loki' = loki
    BY <1>1 DEF TaskVars
  <2> QED
    <3>1. Tasks!TypeOK => Tasks!TypeOK'
      BY <1>2, <2>1 DEF Tasks!TypeOK
    <3>2. TasksOfReports /\ SummaryIsLast => TasksOfReports' /\ SummaryIsLast'
      BY <1>2, <2>1 DEF TasksOfReports, SummaryIsLast
    <3>3. OnePriorityTask => OnePriorityTask'
      <4>1. \A i : (ToSubmit(i)' <=> ToSubmit(i)) /\ (Queued(i)' <=> Queued(i))
        BY <2>1 DEF ToSubmit, Queued
      <4>2. ASSUME OnePriorityTask, NEW i \in DOMAIN requests'
            PROVE  /\ \A m, n \in 1 .. Len(requests'[i]) :
                        requests'[i][m] = "priority" /\ requests'[i][n] = "priority" => m = n
                   /\ \A m, n \in 1 .. Len(queue') :
                        queue'[m] = <<i, "priority">> /\ queue'[n] = <<i, "priority">> => m = n
        <5>1. i \in DOMAIN requests
          BY <2>1
        <5>2. \A m, n \in 1 .. Len(requests[i]) :
                requests[i][m] = "priority" /\ requests[i][n] = "priority" => m = n
          BY <4>2, <5>1 DEF OnePriorityTask
        <5>3. \A m, n \in 1 .. Len(queue) :
                queue[m] = <<i, "priority">> /\ queue[n] = <<i, "priority">> => m = n
          BY <4>2, <5>1 DEF OnePriorityTask
        <5> QED
          BY <2>1, <5>2, <5>3
      <4>3. ASSUME OnePriorityTask, NEW i \in DOMAIN requests'
            PROVE  /\ ToSubmit(i)' => ~Queued(i)'
                   /\ <<i, "priority">> \in DOMAIN running' =>
                        ~ToSubmit(i)' /\ ~Queued(i)' /\ jira'[i].comments = <<>>
                   /\ ToSubmit(i)' \/ Queued(i)' =>
                        jira'[i].comments = <<>> /\ jira'[i].priority # "gpt"
        <5>1. i \in DOMAIN requests
          BY <2>1
        <5>2. /\ ToSubmit(i) => ~Queued(i)
              /\ <<i, "priority">> \in DOMAIN running =>
                   ~ToSubmit(i) /\ ~Queued(i) /\ jira[i].comments = <<>>
              /\ ToSubmit(i) \/ Queued(i) =>
                   jira[i].comments = <<>> /\ jira[i].priority # "gpt"
          BY <4>3, <5>1 DEF OnePriorityTask
        <5> QED
          BY <1>2, <2>1, <4>1, <5>2
      <4> SUFFICES ASSUME OnePriorityTask PROVE OnePriorityTask'
        OBVIOUS
      <4> QED
        BY <4>2, <4>3 DEF OnePriorityTask
    <3>4. TextIsTrue /\ EditsAreRead => TextIsTrue' /\ EditsAreRead'
      BY <1>2, <2>1 DEF TextIsTrue, EditsAreRead
    <3>5. Tasks!CommentTellsTheTruth => Tasks!CommentTellsTheTruth'
      BY <1>2, <2>1 DEF Tasks!CommentTellsTheTruth
    <3>6. Tasks!EditsSurvive => Tasks!EditsSurvive'
      BY <1>2, <2>1 DEF Tasks!EditsSurvive
    <3> QED
      BY <3>1, <3>2, <3>3, <3>4, <3>5, <3>6 DEF TasksInv
<1>5. MailsInv => MailsInv'
  <2>1. calls' = calls /\ marked' = marked /\ sentTo' = sentTo /\ excuses' = excuses
    BY <1>1 DEF MailVars
  <2> QED
    <3>1. Mails!TypeOK => Mails!TypeOK'
      BY <1>2, <2>1 DEF Mails!TypeOK
    <3>2. MailsFollowWriting => MailsFollowWriting'
      BY <1>2, <2>1 DEF MailsFollowWriting, MailedBy
    <3>3. OnePerSpike => OnePerSpike'
      BY <1>2, <2>1 DEF OnePerSpike, MailedBy, Live, HasMarked
    <3>4. InHandIsStored => InHandIsStored'
      BY <1>2, <2>1 DEF InHandIsStored, MailedBy, HasWritten, Excused
    <3>5. DisjointChoices => DisjointChoices'
      BY <1>2, <2>1 DEF DisjointChoices, MailedBy, HasWritten, Excused
    <3> QED
      BY <3>1, <3>2, <3>3, <3>4, <3>5 DEF MailsInv
<1>6. QualityInv /\ SavedKept => QualityInv' /\ SavedKept'
  <2>1. datasets' = datasets /\ reports' = reports /\ latest' = latest
    BY <1>1 DEF QualityVars
  <2> QED
    BY <1>2, <2>1 DEF QualityInv, Quality!TypeOK, BuiltFromHistory, Built, Quality!LatestExists,
      Quality!MailedIsSaved, Quality!HasReport, Quality!Recent, SavedKept
<1>7. GptInv => GptInv'
  <2>1. threads' = threads /\ waits' = waits /\ cache' = cache
    BY <1>1 DEF GptVars
  <2> QED
    BY <1>2, <2>1 DEF GptInv, Gpt!TypeOK, SearchesInTurn, CachesFit, AnswerHasIds, Alone, Knows,
      Gpt!SupportAmongShown, Gpt!RetryAnswers, Gpt!Reusable, Gpt!At, Gpt!Active
<1>8. VectorsInv => VectorsInv'
  <2>1. /\ remote' = remote /\ fresh' = fresh /\ worker' = worker /\ sync' = sync
        /\ overlaps' = overlaps
    BY <1>1 DEF VectorVars
  <2> QED
    BY <1>2, <2>1 DEF VectorsInv, Vectors!TypeOK, ReadingsFit, SyncHasVectors, InHand, Fits, NotAhead,
      Written, Vectors!Held, Vectors!IsProgram, Vectors!Indexed
<1> QED
  BY <1>1, <1>3, <1>4, <1>5, <1>6, <1>7, <1>8 DEF ServicesInv

LEMMA ServicesAlways == Spec => []ServicesInv
<1>1. ServicesInv /\ [Next]_vars => ServicesInv'
  BY ServicesGoOn, ServicesStay
<1> QED
  BY <1>1, ServicesStart, PTL DEF Spec

(* Types are kept by every service, whatever fails, expires or overlaps.    *)
THEOREM TypeCorrect == Spec => []TypeOK
<1>1. ServicesInv => TypeOK
  BY DEF ServicesInv, TypeOK, ReportInv, TasksInv, MailsInv, QualityInv, GptInv, VectorsInv
<1> QED
  BY <1>1, ServicesAlways, PTL

(* What people are told is true: an error answers a report that is nowhere  *)
(* (report_issue) but in the named circumstances, and the comment tells the *)
(* priority (_set_priority).                                                *)
THEOREM AnswersAreTrueCorrect == Spec => []AnswersAreTrue
<1>1. ServicesInv => AnswersAreTrue
  BY ConstantsAssumption, ReportHolds DEF ServicesInv, AnswersAreTrue, ReportInv, TasksInv
<1> QED
  BY <1>1, ServicesAlways, PTL

(* An accepted report keeps its details, its link and its text files        *)
(* (report_issue, upload_artifacts), for any tables of channels.            *)
THEOREM ReportIsWholeCorrect == Spec => []ReportIsWhole
<1>1. ServicesInv => ReportIsWhole
  BY ConstantsAssumption, ReportHolds DEF ServicesInv, ReportIsWhole, ReportInv
<1> QED
  BY <1>1, ServicesAlways, PTL

(* No task waits for one of its own report that is queued behind it         *)
(* (report_issue, _create_ai_summary), for any number of workers.           *)
THEOREM AwaitedTasksRunCorrect == Spec => []AwaitedTasksRun
<1>1. ServicesInv => AwaitedTasksRun
  BY TasksHold DEF ServicesInv, AwaitedTasksRun, ReportInv
<1> QED
  BY <1>1, ServicesAlways, PTL

(* An edit survives the summary that is written into the description        *)
(* (insert_rich_text_into_description), unless the two overlap.             *)
THEOREM EditsSurviveCorrect == Spec => []EditsSurvive
<1>1. ServicesInv => EditsSurvive
  BY DEF ServicesInv, EditsSurvive, TasksInv
<1> QED
  BY <1>1, ServicesAlways, PTL

(* Nobody is mailed twice about a spike or on a day (send_beta_emails,      *)
(* send_issue_fixed_emails) but in the named circumstances, for any number  *)
(* of requests and testers.                                                 *)
THEOREM OneMailCorrect == Spec => []OneMail
<1>1. ServicesInv => OneMail
  BY MailsHold DEF ServicesInv, OneMail
<1> QED
  BY <1>1, ServicesAlways, PTL

(* A mailed score is saved and the latest report exists, wherever a run     *)
(* ended (save_report_data, upload_serialized_quality_report).              *)
THEOREM MailedIsSavedCorrect == Spec => []MailedIsSaved
<1>1. ServicesInv => MailedIsSaved
  BY DEF ServicesInv, MailedIsSaved, QualityInv
<1> QED
  BY <1>1, ServicesAlways, PTL

(* The scores of a period are all there (get_quality_scores), for any       *)
(* titles, window and number of days: a score that was saved within the     *)
(* period is found although each report holds only the last ones, if none   *)
(* is dropped before the window has passed, as with the constants of the    *)
(* code, both 90 days.                                                      *)
THEOREM ScoresCompleteCorrect ==
  ASSUME Window <= Cutoff
  PROVE  Spec => []ScoresComplete
<1>1. ServicesInv => ScoresComplete
  BY ConstantsAssumption, ScoresFound DEF ServicesInv, ScoresComplete
<1> QED
  BY <1>1, ServicesAlways, PTL

(* A failed search does not spoil the next one, and what supports an answer *)
(* is shown (knn_search_cached, gpt_chat_completion_cached), for any number *)
(* of searches at once.                                                     *)
THEOREM RetryAnswersCorrect == Spec => []RetryAnswers
<1>1. ServicesInv => RetryAnswers
  BY DEF ServicesInv, RetryAnswers, GptInv
<1> QED
  BY <1>1, ServicesAlways, PTL

(* No step puts something older or emptier in the place of what is kept but *)
(* in the named ways: a document goes back only through the worker that was *)
(* handed the older one, an embedding only when the service fails, GPT's    *)
(* priority comes once and before any comment, an answer stays until it     *)
(* expires, and only the run that could not read them replaces past scores  *)
(* (bulk_index_tickets, _set_priority, gpt_chat_completion_cached,          *)
(* upload_quality_scores_to_s3), for any documents, tasks, searches and     *)
(* titles and any number of failures.                                       *)
THEOREM NothingIsOverwrittenCorrect == Spec => NothingIsOverwritten
<1>1. ServicesInv /\ [Next]_vars => [EachStepKeeps]_vars
  BY ServicesGoOn
<1> QED
  BY <1>1, ServicesAlways, PTL DEF Spec, NothingIsOverwritten, EachStepKeeps
=============================================================================
