------------------------------ MODULE SpikeWorker ------------------------------
(***************************************************************************)
(* The spike worker (scripts/index_pipeline_and_spike_detector/            *)
(* spike_worker.py and lib/spike_detector.py), a scheduled task that looks *)
(* for words that spike and writes them to the spike index, beside the     *)
(* request handlers through which people review the spikes it found.  Runs *)
(* exclude each other with a lock file in S3; a second file asks for a     *)
(* recalculation of everything.  Each S3 or OpenSearch call is a step.     *)
(*                                                                         *)
(* One language, category and word: a day has a spike or has none, and     *)
(* what people set on a spike (confirmed, fixed, status, date of the       *)
(* e-mail) is one mark.  A score, once above the threshold, stays there.   *)
(***************************************************************************)
EXTENDS Naturals, FiniteSets

CONSTANTS
  Workers,        \* tasks that may run at the same time, each again and again
  DryRuns,        \* the ones started with dry_run = True
  LastDay,        \* bound on the calendar
  InitFlag,       \* contents of the refresh file at the start
  InitIndexed,    \* days with an indexed spike at the start
  StartsApart,    \* no task starts while another one is deciding whether to run
  HoldersFinish,  \* no run takes as long as the lock's timeout
  LateTickets,    \* tickets of a past day may still reach the ticket index
  MaxExceptions,  \* bound on runs ended by an exception
  MaxKills,       \* bound on runs killed
  MaxRequests,    \* bound on requests to refresh everything
  MaxReviews      \* bound on what people set on spikes

Days == 1 .. LastDay

ASSUME ConstantsAssumption ==
  /\ DryRuns \subseteq Workers /\ LastDay \in Nat \ {0}
  /\ InitFlag \in {"missing", "0", "1"} /\ InitIndexed \subseteq {1}
  /\ {StartsApart, HoldersFinish, LateTickets} \subseteq BOOLEAN
  /\ {MaxExceptions, MaxKills, MaxRequests, MaxReviews} \subseteq Nat

VARIABLES
  \* S3
  lock,       \* contents of _SPIKE_CALCULATOR_LOCK_FILE
  lockFresh,  \* it was written less than _LOCK_TIMEOUT ago
  flag,       \* contents of _FORCE_SPIKE_REFRESH_FILE
  \* OpenSearch
  spiking,    \* days whose tickets, as indexed now, make the word spike
  index,      \* the spike index: [Days -> {"none", "unmarked", "marked"}]
  today,
  \* the runs
  pc, sawHeld, last, forced,
  todo,       \* days the run still has to look at
  draft,      \* the document the run is about to write
  \* history and bounds
  pending,    \* a refresh was asked for and no recalculation has finished since
  exceptions, kills, requests, reviews

s3 == <<lock, lockFresh, flag>>
search == <<spiking, index, today>>
run == <<sawHeld, last, forced, todo, draft>>
bounds == <<exceptions, kills, requests, reviews>>
vars == <<s3, search, pc, run, pending, bounds>>

Files == {"missing", "0", "1"}
Docs == {"none", "unmarked", "marked"}
Starting == {"create", "readlock", "age", "claim"}
Guarded == {"dates", "flagfile", "createflag", "readflag", "clear", "scan", "write"}
Labels == {"idle", "load", "release"} \cup Starting \cup Guarded

TypeOK ==
  /\ lock \in Files /\ lockFresh \in BOOLEAN /\ flag \in Files
  /\ spiking \in SUBSET Days /\ index \in [Days -> Docs] /\ today \in Days
  /\ pc \in [Workers -> Labels]
  /\ sawHeld \in [Workers -> BOOLEAN] /\ forced \in [Workers -> BOOLEAN]
  /\ last \in [Workers -> Days \cup {0}]
  /\ todo \in [Workers -> SUBSET Days] /\ draft \in [Workers -> Docs]
  /\ pending \in BOOLEAN
  /\ exceptions \in 0 .. MaxExceptions /\ kills \in 0 .. MaxKills
  /\ requests \in 0 .. MaxRequests /\ reviews \in 0 .. MaxReviews

Init ==
  /\ lock = "missing" /\ lockFresh = TRUE
  /\ flag = InitFlag /\ pending = (InitFlag = "1")
  /\ spiking = InitIndexed /\ today = 1
  /\ index = [d \in Days |-> IF d \in InitIndexed THEN "unmarked" ELSE "none"]
  /\ pc = [w \in Workers |-> "idle"]
  /\ sawHeld = [w \in Workers |-> FALSE] /\ forced = [w \in Workers |-> FALSE]
  /\ last = [w \in Workers |-> 0] /\ todo = [w \in Workers |-> {}]
  /\ draft = [w \in Workers |-> "none"]
  /\ exceptions = 0 /\ kills = 0 /\ requests = 0 /\ reviews = 0

Dry(w) == w \in DryRuns
Goto(w, label) == pc' = [pc EXCEPT ![w] = label]
Step(w, from, to) == pc[w] = from /\ Goto(w, to)
Reset(w) ==
  /\ sawHeld' = [sawHeld EXCEPT ![w] = FALSE] /\ last' = [last EXCEPT ![w] = 0]
  /\ forced' = [forced EXCEPT ![w] = FALSE] /\ todo' = [todo EXCEPT ![w] = {}]
  /\ draft' = [draft EXCEPT ![w] = "none"]

\* upload of the lock file
WriteLock(contents) == lock' = contents /\ lockFresh' = TRUE

\* the lock belongs to this run, from its claim to its release
Holding(w) == ~Dry(w) /\ pc[w] \in {"load", "release"} \cup Guarded

-----------------------------------------------------------------------------
(* Taking the lock. *)

CheckLockFile(w) ==
  /\ StartsApart => \A v \in Workers : pc[v] \notin Starting
  /\ Step(w, "idle", IF lock = "missing" THEN "create" ELSE "readlock")
  /\ UNCHANGED <<s3, search, run, pending, bounds>>

CreateLock(w) ==
  /\ Step(w, "create", "readlock")
  /\ WriteLock("0")
  /\ UNCHANGED <<flag, search, run, pending, bounds>>

ReadLock(w) ==
  /\ Step(w, "readlock", "age")
  /\ sawHeld' = [sawHeld EXCEPT ![w] = lock = "1"]
  /\ UNCHANGED <<s3, search, last, forced, todo, draft, pending, bounds>>

\* mutant of Denied: the age of the lock is not looked at
Denied_NeverExpires(w) == sawHeld[w] /\ ~Dry(w)

\* The age of the lock file is a second request to S3.
Denied(w) == sawHeld[w] /\ lockFresh /\ ~Dry(w)

\* mutant of ExitEarly: the early exit is inside the try, and releases
ExitEarly_Releases(w) ==
  /\ Step(w, "age", "idle") /\ Denied(w)
  /\ WriteLock("0") /\ Reset(w)
  /\ UNCHANGED <<flag, search, pending, bounds>>

ExitEarly(w) ==
  /\ Step(w, "age", "idle") /\ Denied(w)
  /\ Reset(w)
  /\ UNCHANGED <<s3, search, pending, bounds>>

FindFree(w) ==
  /\ Step(w, "age", IF Dry(w) THEN "load" ELSE "claim") /\ ~Denied(w)
  /\ sawHeld' = [sawHeld EXCEPT ![w] = FALSE]
  /\ UNCHANGED <<s3, search, last, forced, todo, draft, pending, bounds>>

Claim(w) ==
  /\ Step(w, "claim", "load")
  /\ WriteLock("1")
  /\ UNCHANGED <<flag, search, run, pending, bounds>>

\* exclude words and baseline statistics
LoadWords(w) ==
  /\ Step(w, "load", "dates")
  /\ UNCHANGED <<s3, search, run, pending, bounds>>

-----------------------------------------------------------------------------
(* Deciding what to look at. *)

Indexed == {d \in Days : index[d] # "none"}
IsNewest(n) == n \in {0} \cup Indexed /\ \A d \in Indexed : d <= n

ReadSpikeDates(w) ==
  /\ Step(w, "dates", "flagfile")
  /\ \E n \in {0} \cup Days : IsNewest(n) /\ last' = [last EXCEPT ![w] = n]
  /\ UNCHANGED <<s3, search, sawHeld, forced, todo, draft, pending, bounds>>

\* mutant of CheckFlagFile: the file is created whether it is there or not
CheckFlagFile_AlwaysCreates(w) ==
  /\ Step(w, "flagfile", "createflag")
  /\ UNCHANGED <<s3, search, run, pending, bounds>>

CheckFlagFile(w) ==
  /\ Step(w, "flagfile", IF flag = "missing" THEN "createflag" ELSE "readflag")
  /\ UNCHANGED <<s3, search, run, pending, bounds>>

CreateFlag(w) ==
  /\ Step(w, "createflag", "readflag")
  /\ flag' = "0"
  /\ UNCHANGED <<lock, lockFresh, search, run, pending, bounds>>

\* mutant of MustRefresh: only an empty index is recalculated
MustRefresh_OnlyIfEmpty(w) == last[w] = 0

MustRefresh(w) == flag = "1" \/ last[w] = 0

ReadFlagForced(w) ==
  /\ Step(w, "readflag", "clear") /\ MustRefresh(w)
  /\ UNCHANGED <<s3, search, run, pending, bounds>>

\* mutant of ReadFlagIncremental: one day too many
ReadFlagIncremental_Tomorrow(w) ==
  /\ Step(w, "readflag", "scan") /\ ~MustRefresh(w)
  /\ todo' = [todo EXCEPT ![w] = last[w] .. today + 1]
  /\ UNCHANGED <<s3, search, sawHeld, last, forced, draft, pending, bounds>>

\* from the day of the most recent spike to today, both included
ReadFlagIncremental(w) ==
  /\ Step(w, "readflag", "scan") /\ ~MustRefresh(w)
  /\ todo' = [todo EXCEPT ![w] = last[w] .. today]
  /\ UNCHANGED <<s3, search, sawHeld, last, forced, draft, pending, bounds>>

ClearFlag(w) ==
  /\ Step(w, "clear", "scan")
  /\ flag' = "0"
  /\ forced' = [forced EXCEPT ![w] = TRUE]
  /\ todo' = [todo EXCEPT ![w] = 1 .. today]
  /\ UNCHANGED <<lock, lockFresh, search, sawHeld, last, draft, pending, bounds>>

-----------------------------------------------------------------------------
(* Detection: the days in order, or all tickets newest first. *)

\* mutant of NextUp: incremental detection starts with today
NextUp_NewestFirst(w, d) == d \in todo[w] /\ \A e \in todo[w] : e <= d

NextUp(w, d) == d \in todo[w] /\ IF forced[w] THEN \A e \in todo[w] : e <= d
                                              ELSE \A e \in todo[w] : d <= e

\* A dry run prints what it found, unless it recalculates everything.
Writes(w) == ~Dry(w) \/ forced[w]

\* _find_spiked_words: everything but the score is kept from the document
\* found in the index; asking for a summary comes before the write.
LookAt(w, d) ==
  /\ NextUp(w, d)
  /\ IF d \in spiking /\ Writes(w)
     THEN /\ Step(w, "scan", "write")
          /\ draft' = [draft EXCEPT ![w] =
                         IF index[d] = "none" THEN "unmarked" ELSE index[d]]
          /\ todo' = todo
     ELSE /\ Step(w, "scan", "scan")
          /\ todo' = [todo EXCEPT ![w] = @ \ {d}]
          /\ draft' = draft
  /\ UNCHANGED <<s3, search, sawHeld, last, forced, pending, bounds>>

WriteSpike(w, d) ==
  /\ NextUp(w, d) /\ Step(w, "write", "scan")
  /\ index' = [index EXCEPT ![d] = draft[w]]
  /\ todo' = [todo EXCEPT ![w] = @ \ {d}]
  /\ draft' = [draft EXCEPT ![w] = "none"]
  /\ UNCHANGED <<s3, spiking, today, sawHeld, last, forced, pending, bounds>>

Finish(w) ==
  /\ Step(w, "scan", "release") /\ todo[w] = {}
  /\ pending' = IF forced[w] THEN flag = "1" ELSE pending
  /\ UNCHANGED <<s3, search, run, bounds>>

\* the finally clause
Release(w) ==
  /\ Step(w, "release", "idle")
  /\ IF Dry(w) THEN UNCHANGED <<lock, lockFresh>> ELSE WriteLock("0")
  /\ Reset(w)
  /\ UNCHANGED <<flag, search, pending, bounds>>

-----------------------------------------------------------------------------
(* Runs that do not complete. *)

\* An exception while the word lists are loaded is not under the finally.
LoadFails(w) ==
  /\ exceptions < MaxExceptions /\ exceptions' = exceptions + 1
  /\ Step(w, "load", "idle") /\ Reset(w)
  /\ UNCHANGED <<s3, search, pending, kills, requests, reviews>>

\* Such as the one bulk_index_spikes raises when OpenSearch reports errors.
RunFails(w) ==
  /\ exceptions < MaxExceptions /\ exceptions' = exceptions + 1
  /\ pc[w] \in Guarded /\ Goto(w, "release")
  /\ todo' = [todo EXCEPT ![w] = {}] /\ draft' = [draft EXCEPT ![w] = "none"]
  /\ UNCHANGED <<s3, search, sawHeld, last, forced, pending, kills, requests,
                 reviews>>

Killed(w) ==
  /\ kills < MaxKills /\ kills' = kills + 1
  /\ pc[w] # "idle" /\ Goto(w, "idle") /\ Reset(w)
  /\ UNCHANGED <<s3, search, pending, exceptions, requests, reviews>>

-----------------------------------------------------------------------------
(* The surroundings. *)

LockExpires ==
  /\ lock = "1" /\ lockFresh /\ lockFresh' = FALSE
  /\ HoldersFinish => \A w \in Workers : ~Holding(w)
  /\ UNCHANGED <<lock, flag, search, pc, run, pending, bounds>>

NextDay ==
  /\ today < LastDay /\ today' = today + 1
  /\ UNCHANGED <<s3, spiking, index, pc, run, pending, bounds>>

TicketsArrive(d) ==
  /\ d \notin spiking /\ (d = today \/ (LateTickets /\ d < today))
  /\ spiking' = spiking \cup {d}
  /\ UNCHANGED <<s3, index, today, pc, run, pending, bounds>>

\* A partial update of the document: set_spike_confirm, _fixed, _status and
\* set_spike_email_sent.
SetMark(d, mark) ==
  /\ reviews < MaxReviews /\ reviews' = reviews + 1
  /\ d \in Indexed /\ index[d] # mark
  /\ index' = [index EXCEPT ![d] = mark]
  /\ UNCHANGED <<s3, spiking, today, pc, run, pending, exceptions, kills,
                 requests>>

\* Someone writes "1" to the refresh file.
RequestRefresh ==
  /\ requests < MaxRequests /\ requests' = requests + 1
  /\ flag' = "1" /\ pending' = TRUE
  /\ UNCHANGED <<lock, lockFresh, search, pc, run, exceptions, kills, reviews>>

Proceed(w) ==
  \/ CreateLock(w) \/ ReadLock(w) \/ ExitEarly(w) \/ FindFree(w) \/ Claim(w)
  \/ LoadWords(w) \/ ReadSpikeDates(w) \/ CheckFlagFile(w) \/ CreateFlag(w)
  \/ ReadFlagForced(w) \/ ReadFlagIncremental(w) \/ ClearFlag(w)
  \/ \E d \in Days : (LookAt(w, d) \/ WriteSpike(w, d))
  \/ Finish(w) \/ Release(w)

Stops(w) == LoadFails(w) \/ RunFails(w) \/ Killed(w)

Surroundings ==
  \/ LockExpires \/ NextDay \/ RequestRefresh
  \/ \E d \in Days : TicketsArrive(d)
  \/ \E d \in Days, mark \in {"unmarked", "marked"} : SetMark(d, mark)

Next ==
  \/ \E w \in Workers : CheckLockFile(w) \/ Proceed(w) \/ Stops(w)
  \/ Surroundings

Spec == Init /\ [][Next]_vars

\* A run that started goes on unless it is stopped, the schedule keeps
\* starting runs, and twelve hours pass.
Fairness ==
  /\ \A w \in Workers : WF_vars(Proceed(w))
  /\ WF_vars(\E w \in Workers : CheckLockFile(w))
  /\ WF_vars(LockExpires)

FairSpec == Spec /\ Fairness

-----------------------------------------------------------------------------
(* Properties. *)

(* At most one run is between its claim of the lock and its release, so no *)
(* two runs detect and write spikes at the same time.  This is about the   *)
(* early exit, the claim, the expiry and the unconditional release.        *)
MutualExclusion ==
  \A v, w \in Workers : Holding(v) /\ Holding(w) => v = w

(* Incremental detection resumes at the most recent indexed spike.  A day  *)
(* before that one that has a spike is in the index, or some run is still  *)
(* going to look at it: no order of days, stopped run or change of date    *)
(* makes the worker step over a day it will not come back to.              *)
NoDayPassedOver ==
  \A d \in spiking :
    (index[d] = "none" /\ \E e \in Indexed : d < e)
       => \E w \in Workers : d \in todo[w]

(* A refresh that was asked for is still written in the refresh file, or a *)
(* run has read it and is recalculating, until a recalculation finishes.   *)
RefreshRequestKept ==
  pending => \/ flag = "1"
             \/ \E w \in Workers : pc[w] = "clear" \/ (forced[w] /\ pc[w] \in Guarded)

(* Detection changes the score of a spike and nothing people have set on   *)
(* it (comment in _find_spiked_words).                                     *)
DetectionKeepsMarks ==
  [][\A w \in Workers, d \in Days :
       (WriteSpike(w, d) /\ index[d] # "none") => index'[d] = index[d]]_vars

(* A spike that shows in the tickets gets into the spike index, although   *)
(* runs are killed with the lock held and fail half way.                   *)
EventuallyIndexed ==
  \A d \in Days : (d \in spiking) ~> (index[d] # "none")

(* A refresh that was asked for is carried out to its end.                 *)
EventuallyRefreshed == pending ~> ~pending

=============================================================================
