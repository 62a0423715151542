-------------------------- MODULE SpikeWorkerProofs --------------------------
(***************************************************************************)
(* What the lock and the order of detection guarantee, for any number of   *)
(* tasks, days, exceptions, kills and reviews.                             *)
(***************************************************************************)
EXTENDS SpikeWorker, TLAPS

USE ConstantsAssumption

LEMMA TypeInit == Init => TypeOK
BY SMT DEF Init, TypeOK, Days, Files, Docs, Labels, Starting, Guarded

LEMMA TypeStep == TypeOK /\ [Next]_vars => TypeOK'
<1> SUFFICES ASSUME TypeOK, [Next]_vars PROVE TypeOK'
  OBVIOUS
<1> USE DEF TypeOK, Files, Docs, Labels, Starting, Guarded, Step, Goto, Reset,
        WriteLock, s3, search, run, bounds
<1>1. ASSUME NEW w \in Workers, CheckLockFile(w) PROVE TypeOK'
  BY <1>1 DEF CheckLockFile
<1>2. ASSUME NEW w \in Workers, CreateLock(w) PROVE TypeOK'
  BY <1>2 DEF CreateLock
<1>3. ASSUME NEW w \in Workers, ReadLock(w) PROVE TypeOK'
  BY <1>3 DEF ReadLock
<1>4. ASSUME NEW w \in Workers, ExitEarly(w) PROVE TypeOK'
  BY <1>4 DEF ExitEarly
<1>5. ASSUME NEW w \in Workers, FindFree(w) PROVE TypeOK'
  BY <1>5 DEF FindFree
<1>6. ASSUME NEW w \in Workers, Claim(w) PROVE TypeOK'
  BY <1>6 DEF Claim
<1>7. ASSUME NEW w \in Workers, LoadWords(w) PROVE TypeOK'
  BY <1>7 DEF LoadWords
<1>8. ASSUME NEW w \in Workers, ReadSpikeDates(w) PROVE TypeOK'
  BY <1>8 DEF ReadSpikeDates
<1>9. ASSUME NEW w \in Workers, CheckFlagFile(w) PROVE TypeOK'
  BY <1>9 DEF CheckFlagFile
<1>10. ASSUME NEW w \in Workers, CreateFlag(w) PROVE TypeOK'
  BY <1>10 DEF CreateFlag
<1>11. ASSUME NEW w \in Workers, ReadFlagForced(w) PROVE TypeOK'
  BY <1>11 DEF ReadFlagForced
<1>12. ASSUME NEW w \in Workers, ReadFlagIncremental(w) PROVE TypeOK'
  <2>1. last[w] .. today \in SUBSET Days
    BY <1>12, SMT DEF ReadFlagIncremental, MustRefresh, Days
  <2> QED BY <1>12, <2>1 DEF ReadFlagIncremental
<1>13. ASSUME NEW w \in Workers, ClearFlag(w) PROVE TypeOK'
  <2>1. 1 .. today \in SUBSET Days
    BY SMT DEF Days
  <2> QED BY <1>13, <2>1 DEF ClearFlag
<1>14. ASSUME NEW w \in Workers, NEW d \in Days, LookAt(w, d) PROVE TypeOK'
  <2>1. CASE d \in spiking /\ Writes(w)
    BY <1>14, <2>1 DEF LookAt
  <2>2. CASE ~(d \in spiking /\ Writes(w))
    BY <1>14, <2>2 DEF LookAt
  <2> QED BY <2>1, <2>2
<1>15. ASSUME NEW w \in Workers, NEW d \in Days, WriteSpike(w, d) PROVE TypeOK'
  BY <1>15 DEF WriteSpike
<1>16. ASSUME NEW w \in Workers, Finish(w) PROVE TypeOK'
  BY <1>16 DEF Finish
<1>17. ASSUME NEW w \in Workers, Release(w) PROVE TypeOK'
  BY <1>17 DEF Release
<1>18. ASSUME NEW w \in Workers, Stops(w) PROVE TypeOK'
  <2>1. CASE LoadFails(w)
    BY <2>1, SMT DEF LoadFails
  <2>2. CASE RunFails(w)
    BY <2>2, SMT DEF RunFails
  <2>3. CASE Killed(w)
    BY <2>3, SMT DEF Killed
  <2> QED BY <1>18, <2>1, <2>2, <2>3 DEF Stops
<1>19. CASE Surroundings
  <2>1. CASE LockExpires
    BY <2>1 DEF LockExpires
  <2>2. CASE RequestRefresh
    BY <2>2, SMT DEF RequestRefresh
  <2>3. CASE NextDay
    BY <2>3, SMT DEF NextDay, Days
  <2>4. ASSUME NEW d \in Days, TicketsArrive(d) PROVE TypeOK'
    BY <2>4, SMT DEF TicketsArrive
  <2>5. ASSUME NEW d \in Days, NEW mark \in {"unmarked", "marked"},
               SetMark(d, mark)
        PROVE TypeOK'
    <3>1. reviews' \in 0 .. MaxReviews
      BY <2>5, SMT DEF SetMark
    <3>2. index' \in [Days -> Docs]
      BY <2>5 DEF SetMark
    <3> QED BY <2>5, <3>1, <3>2 DEF SetMark
  <2> QED BY <1>19, <2>1, <2>2, <2>3, <2>4, <2>5 DEF Surroundings
<1>20. CASE UNCHANGED vars
  BY <1>20 DEF vars
<1> QED BY <1>1, <1>2, <1>3, <1>4, <1>5, <1>6, <1>7, <1>8, <1>9, <1>10, <1>11,
           <1>12, <1>13, <1>14, <1>15, <1>16, <1>17, <1>18, <1>19, <1>20
        DEF Next, Proceed

(* Every variable has its type: no handler writes a day outside the        *)
(* calendar or a document of an unknown kind.                              *)
THEOREM TypeCorrect == Spec => []TypeOK
BY TypeInit, TypeStep, PTL DEF Spec

-----------------------------------------------------------------------------
(* Mutual exclusion.  A run that holds the lock finds it written and       *)
(* fresh; a run that has read it free, or found it free and is about to    *)
(* claim it, knows that nobody holds it, because it is the only one that   *)
(* is deciding.                                                            *)

LockIsKept == \A w \in Workers : Holding(w) => lock = "1" /\ lockFresh

OneStarts ==
  \A v, w \in Workers : pc[v] \in Starting /\ pc[w] \in Starting => v = w

KnowsFree(w) == \/ pc[w] = "create"
                \/ pc[w] = "claim"
                \/ pc[w] = "age" /\ ~sawHeld[w]

FreeIsFree ==
  \A v, w \in Workers : KnowsFree(v) => ~Holding(w)

LockInv == TypeOK /\ LockIsKept /\ OneStarts /\ FreeIsFree /\ MutualExclusion

Claimed == {"load", "release"} \cup Guarded

\* What a step of a run means to the lock.
Inside(w) ==
  /\ pc[w] \in Claimed /\ \E l \in Claimed : Goto(w, l)
  /\ UNCHANGED <<lock, lockFresh, sawHeld>>
Leaves(w) == /\ Goto(w, "idle") /\ UNCHANGED <<lock, lockFresh>>
             /\ sawHeld' = [sawHeld EXCEPT ![w] = FALSE]

LEMMA StepKinds ==
  ASSUME NEW w \in Workers, Proceed(w) \/ Stops(w)
  PROVE  \/ CreateLock(w) \/ ReadLock(w) \/ FindFree(w) \/ Claim(w) \/ Release(w)
         \/ Inside(w) \/ Leaves(w)
<1> USE DEF Inside, Leaves, Claimed, Guarded, Step, Goto, Reset, s3, run
<1>1. CASE ExitEarly(w) \/ LoadFails(w) \/ Killed(w)
  <2>1. Leaves(w)
    BY <1>1 DEF ExitEarly, LoadFails, Killed
  <2> QED BY <2>1
<1>2. CASE LoadWords(w) \/ ReadSpikeDates(w) \/ CheckFlagFile(w) \/ CreateFlag(w)
  <2>1. Inside(w)
    BY <1>2 DEF LoadWords, ReadSpikeDates, CheckFlagFile, CreateFlag
  <2> QED BY <2>1
<1>3. CASE \/ ReadFlagForced(w) \/ ReadFlagIncremental(w) \/ ClearFlag(w)
           \/ Finish(w) \/ RunFails(w)
  <2>1. Inside(w)
    BY <1>3 DEF ReadFlagForced, ReadFlagIncremental, ClearFlag, Finish, RunFails
  <2> QED BY <2>1
<1>4. ASSUME NEW d \in Days, LookAt(w, d) \/ WriteSpike(w, d) PROVE Inside(w)
  BY <1>4 DEF LookAt, WriteSpike
<1> QED BY <1>1, <1>2, <1>3, <1>4 DEF Proceed, Stops

LEMMA LockStep ==
  ASSUME StartsApart, HoldersFinish, LockInv, [Next]_vars
  PROVE  (LockIsKept /\ OneStarts /\ FreeIsFree /\ MutualExclusion)'
<1> DEFINE Goal == (LockIsKept /\ OneStarts /\ FreeIsFree /\ MutualExclusion)'
<1> USE DEF LockInv, TypeOK, LockIsKept, OneStarts, FreeIsFree, MutualExclusion,
        KnowsFree, Holding, Dry, Starting, Guarded, Labels, Step, Goto, WriteLock
<1>1. ASSUME NEW w \in Workers, CheckLockFile(w) PROVE Goal
  BY <1>1 DEF CheckLockFile, s3, run
<1>2. ASSUME NEW w \in Workers, CreateLock(w) PROVE Goal
  BY <1>2 DEF CreateLock, run
<1>3. ASSUME NEW w \in Workers, ReadLock(w) PROVE Goal
  BY <1>3 DEF ReadLock, s3
<1>4. ASSUME NEW w \in Workers, FindFree(w) PROVE Goal
  BY <1>4 DEF FindFree, Denied, s3
<1>5. ASSUME NEW w \in Workers, Claim(w) PROVE Goal
  BY <1>5 DEF Claim, run
<1>6. ASSUME NEW w \in Workers, Release(w) PROVE Goal
  BY <1>6 DEF Release, Reset
<1>7. ASSUME NEW w \in Workers, Inside(w) PROVE Goal
  BY <1>7 DEF Inside, Claimed
<1>8. ASSUME NEW w \in Workers, Leaves(w) PROVE Goal
  BY <1>8 DEF Leaves
<1>9. CASE LockExpires
  BY <1>9 DEF LockExpires, run
<1>10. CASE NextDay \/ RequestRefresh
  BY <1>10 DEF NextDay, RequestRefresh, s3, run
<1>11. ASSUME NEW d \in Days,
              \/ TicketsArrive(d)
              \/ \E mark \in {"unmarked", "marked"} : SetMark(d, mark)
       PROVE  Goal
  BY <1>11 DEF TicketsArrive, SetMark, s3, run
<1>12. CASE UNCHANGED vars
  BY <1>12 DEF vars, s3, run
<1>13. CASE Surroundings
  BY <1>9, <1>10, <1>11, <1>13 DEF Surroundings
<1> QED
  BY <1>1, <1>2, <1>3, <1>4, <1>5, <1>6, <1>7, <1>8, <1>12, <1>13, StepKinds
  DEF Next

(* At most one run is between its claim of the lock and its release, as    *)
(* long as the schedule keeps starts apart and no run takes twelve hours;  *)
(* exceptions and kills at any point do not matter.                        *)
THEOREM MutualExclusionCorrect ==
  ASSUME StartsApart, HoldersFinish PROVE Spec => []MutualExclusion
<1>1. Init => LockInv
  BY TypeInit DEF Init, LockInv, LockIsKept, OneStarts, FreeIsFree,
     MutualExclusion, KnowsFree, Holding, Starting, Guarded
<1>2. LockInv /\ [Next]_vars => LockInv'
  BY TypeStep, LockStep DEF LockInv
<1>3. LockInv => MutualExclusion
  BY DEF LockInv
<1> QED BY <1>1, <1>2, <1>3, PTL DEF Spec

-----------------------------------------------------------------------------
(* No day is passed over.  Without tickets that come late and without a    *)
(* recalculation of everything, the days of a run are looked at in order   *)
(* and a day that has a spike but no document is later than every indexed  *)
(* day; a run that is going to write a later day still has it ahead.       *)

Undetected == {d \in spiking : index[d] = "none"}

NothingBehind == \A e \in Undetected, d \in Indexed : d < e

StillAhead ==
  \A w \in Workers \ DryRuns : \A d \in todo[w], e \in Undetected :
    e < d => e \in todo[w]

Lowest(w, d) == d \in todo[w] /\ \A e \in todo[w] : d <= e

DraftIsSpike ==
  \A w \in Workers : /\ todo[w] \subseteq 1 .. today
                     /\ pc[w] = "write" =>
                          /\ draft[w] # "none" /\ w \notin DryRuns
                          /\ \A d \in todo[w] : Lowest(w, d) => d \in spiking
                     /\ pc[w] \in {"flagfile", "createflag", "readflag"} =>
                          last[w] \in Indexed

Incremental ==
  /\ flag # "1" /\ 1 \in Indexed /\ Indexed \subseteq spiking
  /\ spiking \subseteq 1 .. today
  /\ \A w \in Workers : ~forced[w] /\ pc[w] # "clear"

DayInv == /\ TypeOK /\ NothingBehind /\ StillAhead /\ DraftIsSpike
          /\ Incremental

NeverForced == ~LateTickets /\ MaxRequests = 0 /\ InitIndexed = {1} /\ InitFlag # "1"

\* Steps that leave the index, the tickets and the days to look at alone.
Still == UNCHANGED <<spiking, index, today, todo, draft, forced>>

LEMMA DayStep ==
  ASSUME NeverForced, DayInv, [Next]_vars
  PROVE  (NothingBehind /\ StillAhead /\ DraftIsSpike /\ Incremental)'
<1> DEFINE Goal == (NothingBehind /\ StillAhead /\ DraftIsSpike /\ Incremental)'
<1> USE DEF DayInv, TypeOK, Days, Step, Goto, WriteLock, s3, search, run, Lowest
<1>1. ASSUME NEW w \in Workers,
             \/ CheckLockFile(w) \/ CreateLock(w) \/ ReadLock(w) \/ FindFree(w)
             \/ Claim(w) \/ LoadWords(w) \/ Finish(w)
      PROVE  Goal
  <2>1. Still /\ UNCHANGED <<flag, last>>
    BY <1>1 DEF Still, CheckLockFile, CreateLock, ReadLock, FindFree, Claim,
                LoadWords, Finish
  <2>2. \A v \in Workers : pc'[v] \in {"flagfile", "createflag", "readflag", "write"}
                             => pc[v] = pc'[v]
    BY <1>1 DEF CheckLockFile, CreateLock, ReadLock, FindFree, Claim, LoadWords,
                Finish
  <2>3. \A v \in Workers : pc'[v] # "clear"
    BY <1>1 DEF Incremental, CheckLockFile, CreateLock, ReadLock, FindFree, Claim,
                LoadWords, Finish
  <2> QED
    BY <2>1, <2>2, <2>3
    DEF Still, NothingBehind, StillAhead, DraftIsSpike, Incremental, Undetected,
        Indexed
<1>2. ASSUME NEW w \in Workers,
             ExitEarly(w) \/ Release(w) \/ Stops(w)
      PROVE  Goal
  <2>1. /\ UNCHANGED <<spiking, index, today, flag>>
        /\ pc'[w] \in {"idle", "release"}
        /\ todo' = [todo EXCEPT ![w] = {}] /\ draft' = [draft EXCEPT ![w] = "none"]
        /\ \A v \in Workers : ~forced[v] => ~forced'[v]
        /\ \A v \in Workers \ {w} : pc'[v] = pc[v] /\ last'[v] = last[v]
    <3>1. CASE ExitEarly(w) \/ Release(w)
      BY <3>1 DEF ExitEarly, Release, Reset
    <3>2. CASE LoadFails(w) \/ Killed(w)
      BY <3>2 DEF LoadFails, Killed, Reset
    <3>3. CASE RunFails(w)
      BY <3>3 DEF RunFails
    <3> QED
      BY <1>2, <3>1, <3>2, <3>3 DEF Stops
  <2>2. (NothingBehind /\ StillAhead)'
    BY <2>1 DEF NothingBehind, StillAhead, Undetected, Indexed
  <2>3. DraftIsSpike'
    BY <2>1 DEF DraftIsSpike, Indexed
  <2>4. Incremental'
    BY <2>1 DEF Incremental, Indexed
  <2> QED
    BY <2>2, <2>3, <2>4
<1>3. ASSUME NEW w \in Workers, ReadSpikeDates(w) PROVE Goal
  <2>1. last'[w] \in Indexed
    BY <1>3, SMT DEF ReadSpikeDates, IsNewest, Incremental, Indexed
  <2>2. Still /\ UNCHANGED flag /\ \A v \in Workers \ {w} : last'[v] = last[v]
    BY <1>3 DEF ReadSpikeDates, Still
  <2>3. (NothingBehind /\ StillAhead)'
    BY <2>2 DEF Still, NothingBehind, StillAhead, Undetected, Indexed
  <2>4. DraftIsSpike'
    BY <1>3, <2>1, <2>2 DEF ReadSpikeDates, Still, DraftIsSpike, Indexed
  <2>5. Incremental'
    BY <1>3, <2>2 DEF ReadSpikeDates, Still, Incremental, Indexed
  <2> QED
    BY <2>3, <2>4, <2>5
<1>4. ASSUME NEW w \in Workers, CheckFlagFile(w) \/ CreateFlag(w) PROVE Goal
  <2>1. Still /\ UNCHANGED last /\ flag' # "1"
    BY <1>4 DEF CheckFlagFile, CreateFlag, Still, Incremental
  <2>2. /\ \A v \in Workers \ {w} : pc'[v] = pc[v]
        /\ pc[w] \in {"flagfile", "createflag"}
        /\ pc'[w] \in {"createflag", "readflag"}
    BY <1>4 DEF CheckFlagFile, CreateFlag
  <2> QED
    BY <2>1, <2>2
    DEF Still, NothingBehind, StillAhead, DraftIsSpike, Incremental, Undetected,
        Indexed
<1>5. ASSUME NEW w \in Workers, ReadFlagForced(w) \/ ClearFlag(w) PROVE Goal
  <2>1. last[w] # 0 \/ pc[w] = "clear"
    BY <1>5 DEF ReadFlagForced, ClearFlag, DraftIsSpike, Indexed
  <2> QED
    BY <1>5, <2>1 DEF ReadFlagForced, ClearFlag, MustRefresh, Incremental
<1>6. ASSUME NEW w \in Workers, ReadFlagIncremental(w) PROVE Goal
  <2>1. UNCHANGED <<spiking, index, today, flag, last, draft, forced>>
    BY <1>6 DEF ReadFlagIncremental
  <2>2. /\ pc'[w] = "scan" /\ todo'[w] = last[w] .. today
        /\ \A v \in Workers \ {w} : pc'[v] = pc[v] /\ todo'[v] = todo[v]
    BY <1>6 DEF ReadFlagIncremental
  <2>3. last[w] \in Indexed
    BY <1>6 DEF ReadFlagIncremental, DraftIsSpike
  <2>4. ASSUME NEW e \in Undetected, NEW d \in last[w] .. today, e < d
        PROVE  e \in last[w] .. today
    <3>1. last[w] < e
      BY <2>3 DEF NothingBehind
    <3> QED BY <2>4, <3>1, SMT DEF Undetected, Indexed
  <2>5. last[w] .. today \subseteq 1 .. today
    BY <2>3, SMT DEF Indexed
  <2>6. StillAhead'
    BY <2>1, <2>2, <2>4 DEF StillAhead, Undetected
  <2>7. DraftIsSpike'
    BY <2>1, <2>2, <2>5 DEF DraftIsSpike, Indexed
  <2> QED
    BY <2>1, <2>2, <2>6, <2>7 DEF NothingBehind, Incremental, Undetected, Indexed
<1>7. ASSUME NEW w \in Workers, NEW d \in Days, LookAt(w, d) PROVE Goal
  <2>1. UNCHANGED <<spiking, index, today, flag, last, forced>>
    BY <1>7 DEF LookAt
  <2>2. CASE d \in spiking /\ Writes(w)
    <3>1. /\ UNCHANGED todo /\ pc'[w] = "write" /\ draft'[w] # "none"
          /\ w \notin DryRuns
          /\ \A v \in Workers \ {w} : pc'[v] = pc[v] /\ draft'[v] = draft[v]
      BY <1>7, <2>2 DEF LookAt, Writes, Dry, Incremental
    <3>2. Lowest(w, d)
      BY <1>7 DEF LookAt, NextUp, Incremental
    <3>3. ASSUME NEW e \in todo[w], Lowest(w, e) PROVE e \in spiking
      BY <2>2, <3>2, <3>3, SMT
    <3> QED
      BY <2>1, <3>1, <3>3 DEF NothingBehind, StillAhead, DraftIsSpike, Incremental,
                        Undetected, Indexed
  <2>3. CASE ~(d \in spiking /\ Writes(w))
    <3>1. /\ UNCHANGED draft /\ pc'[w] = "scan" /\ todo'[w] = todo[w] \ {d}
          /\ \A v \in Workers \ {w} : pc'[v] = pc[v] /\ todo'[v] = todo[v]
      BY <1>7, <2>3 DEF LookAt
    <3>2. w \notin DryRuns => d \notin Undetected
      BY <2>3 DEF Writes, Dry, Undetected
    <3>3. StillAhead'
      BY <2>1, <3>1, <3>2 DEF StillAhead, Undetected
    <3>4. DraftIsSpike'
      BY <2>1, <3>1 DEF DraftIsSpike, Indexed
    <3> QED
      BY <2>1, <3>1, <3>3, <3>4 DEF NothingBehind, Incremental, Undetected, Indexed
  <2> QED BY <2>2, <2>3
<1>8. ASSUME NEW w \in Workers, NEW d \in Days, WriteSpike(w, d) PROVE Goal
  <2>1. /\ UNCHANGED <<spiking, today, flag, last, forced>>
        /\ pc[w] = "write" /\ pc'[w] = "scan" /\ todo'[w] = todo[w] \ {d}
        /\ Lowest(w, d) /\ draft[w] # "none" /\ d \in spiking /\ w \notin DryRuns
        /\ index' = [index EXCEPT ![d] = draft[w]]
        /\ \A v \in Workers \ {w} : /\ pc'[v] = pc[v] /\ todo'[v] = todo[v]
                                    /\ draft'[v] = draft[v]
    BY <1>8 DEF WriteSpike, NextUp, DraftIsSpike, Incremental
  <2>3. Undetected' = Undetected \ {d} /\ Indexed' = Indexed \cup {d}
    BY <2>1 DEF Undetected, Indexed
  <2>4. NothingBehind'
    <3> SUFFICES ASSUME NEW e \in Undetected \ {d} PROVE d < e
      BY <2>3 DEF NothingBehind
    <3>1. e < d => e \in todo[w]
      BY <2>1 DEF StillAhead, Undetected
    <3> QED BY <2>1, <3>1, SMT DEF Undetected
  <2>5. StillAhead'
    BY <2>1, <2>3 DEF StillAhead
  <2>6. DraftIsSpike'
    BY <2>1, <2>3 DEF DraftIsSpike
  <2> QED BY <2>1, <2>3, <2>4, <2>5, <2>6 DEF Incremental
<1>9. CASE LockExpires
  BY <1>9 DEF LockExpires, NothingBehind, StillAhead, DraftIsSpike, Incremental,
              Undetected, Indexed
<1>10. CASE NextDay
  <2>1. 1 .. today \subseteq 1 .. today'
    BY <1>10, SMT DEF NextDay
  <2> QED
    BY <1>10, <2>1 DEF NextDay, NothingBehind, StillAhead, DraftIsSpike,
                       Incremental, Undetected, Indexed
<1>11. CASE RequestRefresh
  BY <1>11, SMT DEF RequestRefresh, NeverForced
<1>12. ASSUME NEW d \in Days, TicketsArrive(d) PROVE Goal
  <2>1. d = today /\ spiking' = spiking \cup {d}
        /\ UNCHANGED <<index, today, flag, pc, todo, draft, last, forced>>
    BY <1>12 DEF TicketsArrive, NeverForced
  <2>2. Undetected' \subseteq Undetected \cup {today} /\ UNCHANGED Indexed
    BY <2>1 DEF Undetected, Indexed
  <2>3. \A e \in Indexed : e < today
    BY <1>12, SMT DEF TicketsArrive, Incremental, NeverForced
  <2>4. NothingBehind'
    BY <2>2, <2>3 DEF NothingBehind
  <2>5. \A v \in Workers : \A x \in todo[v] : ~(today < x)
    BY SMT DEF DraftIsSpike
  <2>6. StillAhead'
    BY <2>1, <2>2, <2>5 DEF StillAhead
  <2>7. DraftIsSpike'
    BY <2>1, <2>2 DEF DraftIsSpike
  <2>8. Incremental'
    BY <2>1, <2>2, SMT DEF Incremental
  <2> QED BY <2>4, <2>6, <2>7, <2>8
<1>13. ASSUME NEW d \in Days, NEW mark \in {"unmarked", "marked"}, SetMark(d, mark)
       PROVE  Goal
  <2>1. /\ UNCHANGED <<spiking, today, flag, pc, todo, draft, last, forced>>
        /\ Undetected' = Undetected /\ Indexed' = Indexed
    BY <1>13 DEF SetMark, Undetected, Indexed
  <2> QED
    BY <2>1 DEF NothingBehind, StillAhead, DraftIsSpike, Incremental
<1>14. CASE UNCHANGED vars
  BY <1>14 DEF vars, NothingBehind, StillAhead, DraftIsSpike, Incremental,
               Undetected, Indexed
<1>15. CASE Surroundings
  BY <1>9, <1>10, <1>11, <1>12, <1>13, <1>15 DEF Surroundings
<1>16. ASSUME NEW w \in Workers, Proceed(w) PROVE Goal
  BY <1>1, <1>2, <1>3, <1>4, <1>5, <1>6, <1>7, <1>8, <1>16 DEF Proceed
<1> QED BY <1>1, <1>2, <1>14, <1>15, <1>16 DEF Next

(* Incremental detection never steps over a day that has a spike: not when *)
(* a run stops half way, not when days pass, not even when two runs are    *)
(* active.  Late tickets and recalculations of everything are excluded:    *)
(* with them it does not hold.                                             *)
THEOREM NoDayPassedOverCorrect ==
  ASSUME NeverForced PROVE Spec => []NoDayPassedOver
<1>1. Init => DayInv
  <2> SUFFICES ASSUME Init PROVE DayInv
    OBVIOUS
  <2>1. Undetected = {} /\ Indexed = {1} /\ 1 \in Days
    BY SMT DEF Init, Undetected, Indexed, NeverForced, Days
  <2> QED
    BY <2>1, TypeInit, SMT
    DEF Init, DayInv, NothingBehind, StillAhead, DraftIsSpike, Incremental,
        NeverForced
<1>2. DayInv /\ [Next]_vars => DayInv'
  BY TypeStep, DayStep DEF DayInv
<1>3. DayInv => NoDayPassedOver
  <2> SUFFICES ASSUME DayInv, NEW d \in spiking, index[d] = "none",
                      NEW e \in Indexed, d < e
               PROVE  FALSE
    BY DEF NoDayPassedOver
  <2>1. e < d
    BY DEF DayInv, NothingBehind, Undetected
  <2> QED BY <2>1, SMT DEF DayInv, TypeOK, Indexed, Days
<1> QED BY <1>1, <1>2, <1>3, PTL DEF Spec
-----------------------------------------------------------------------------
(* Requests to refresh everything.  A request is in the refresh file, or   *)
(* the run that took it out is still at work; the file is never written    *)
(* over because nobody creates a file that is there.                       *)

NoRunFails == MaxExceptions = 0 /\ MaxKills = 0 /\ InitFlag # "missing"

AtWork(w) == pc[w] = "clear" \/ (forced[w] /\ pc[w] \in Guarded)

RequestInv ==
  /\ TypeOK /\ RefreshRequestKept
  /\ flag # "missing" /\ \A w \in Workers : pc[w] # "createflag"

LEMMA RequestStep ==
  ASSUME NoRunFails, RequestInv, [Next]_vars
  PROVE  /\ RefreshRequestKept'
         /\ flag' # "missing" /\ \A w \in Workers : pc'[w] # "createflag"
<1> DEFINE Goal == /\ RefreshRequestKept'
                   /\ flag' # "missing" /\ \A w \in Workers : pc'[w] # "createflag"
<1> USE DEF RequestInv, TypeOK, Step, Goto, WriteLock, s3, search, run, AtWork
<1>1. ASSUME UNCHANGED <<flag, pending>>, \A w \in Workers : pc'[w] # "createflag",
             \A w \in Workers : AtWork(w) => AtWork(w)'
      PROVE  Goal
  BY <1>1 DEF RefreshRequestKept
<1>2. ASSUME NEW w \in Workers,
             \/ CheckLockFile(w) \/ CreateLock(w) \/ ReadLock(w) \/ ExitEarly(w)
             \/ FindFree(w) \/ Claim(w) \/ LoadWords(w) \/ Release(w)
      PROVE  Goal
  <2>1. UNCHANGED <<flag, pending>>
    BY <1>2 DEF CheckLockFile, CreateLock, ReadLock, ExitEarly, FindFree, Claim,
                LoadWords, Release
  <2>2. /\ pc[w] \notin Guarded /\ pc'[w] # "createflag"
        /\ \A v \in Workers \ {w} : pc'[v] = pc[v] /\ forced'[v] = forced[v]
    BY <1>2 DEF CheckLockFile, CreateLock, ReadLock, ExitEarly, FindFree, Claim,
                LoadWords, Release, Reset, Guarded
  <2> QED BY <1>1, <2>1, <2>2 DEF Guarded
<1>3. ASSUME NEW w \in Workers,
             \/ ReadSpikeDates(w) \/ CheckFlagFile(w) \/ ReadFlagForced(w)
             \/ ReadFlagIncremental(w)
      PROVE  Goal
  <2>1. UNCHANGED <<flag, pending, forced>>
    BY <1>3 DEF ReadSpikeDates, CheckFlagFile, ReadFlagForced, ReadFlagIncremental
  <2>2. /\ pc[w] # "clear" /\ pc'[w] \in Guarded \ {"createflag"}
        /\ \A v \in Workers \ {w} : pc'[v] = pc[v]
    BY <1>3 DEF ReadSpikeDates, CheckFlagFile, ReadFlagForced, ReadFlagIncremental,
                Guarded
  <2> QED BY <1>1, <2>1, <2>2
<1>4. ASSUME NEW w \in Workers, CreateFlag(w) PROVE Goal
  BY <1>4 DEF CreateFlag
<1>5. ASSUME NEW w \in Workers, ClearFlag(w) PROVE Goal
  <2>1. AtWork(w)' /\ flag' = "0" /\ \A v \in Workers : pc'[v] # "createflag"
    BY <1>5 DEF ClearFlag, Guarded
  <2> QED BY <2>1 DEF RefreshRequestKept
<1>6. ASSUME NEW w \in Workers, NEW d \in Days, LookAt(w, d) \/ WriteSpike(w, d)
      PROVE  Goal
  <2>1. UNCHANGED <<flag, pending, forced>>
    BY <1>6 DEF LookAt, WriteSpike
  <2>2. /\ pc[w] \in {"scan", "write"} /\ pc'[w] \in {"scan", "write"}
        /\ \A v \in Workers \ {w} : pc'[v] = pc[v]
    BY <1>6 DEF LookAt, WriteSpike
  <2> QED BY <1>1, <2>1, <2>2 DEF Guarded
<1>7. ASSUME NEW w \in Workers, Finish(w) PROVE Goal
  <2>1. /\ UNCHANGED <<flag, forced>> /\ pc[w] = "scan" /\ pc'[w] = "release"
        /\ \A v \in Workers \ {w} : pc'[v] = pc[v]
    BY <1>7 DEF Finish
  <2>2. CASE forced[w]
    BY <1>7, <2>1, <2>2 DEF Finish, RefreshRequestKept
  <2>3. CASE ~forced[w]
    <3>1. UNCHANGED pending
      BY <1>7, <2>3 DEF Finish
    <3> QED BY <1>1, <2>1, <2>3, <3>1
  <2> QED BY <2>2, <2>3
<1>8. ASSUME NEW w \in Workers, Stops(w) PROVE Goal
  BY <1>8, SMT DEF Stops, LoadFails, RunFails, Killed, NoRunFails
<1>9. CASE Surroundings
  <2>1. CASE RequestRefresh
    BY <2>1 DEF RequestRefresh, RefreshRequestKept
  <2>2. CASE ~RequestRefresh
    <3>1. UNCHANGED <<flag, pending, pc, forced>>
      BY <1>9, <2>2 DEF Surroundings, LockExpires, NextDay, TicketsArrive, SetMark
    <3> QED BY <1>1, <3>1
  <2> QED BY <2>1, <2>2
<1>10. CASE UNCHANGED vars
  BY <1>1, <1>10 DEF vars
<1> QED
  BY <1>2, <1>3, <1>4, <1>5, <1>6, <1>7, <1>8, <1>9, <1>10 DEF Next, Proceed

(* A request to refresh everything is not forgotten, for any number of     *)
(* tasks that overlap in any way, with or without the lock, as long as no  *)
(* run is cut short and the refresh file is there at the start.  Both are  *)
(* needed: a run that fails after ClearFlag has used the request up, and a *)
(* run that creates a missing file writes over a request made meanwhile.   *)
THEOREM RefreshRequestKeptCorrect ==
  ASSUME NoRunFails PROVE Spec => []RefreshRequestKept
<1>1. Init => RequestInv
  BY TypeInit DEF Init, RequestInv, RefreshRequestKept, NoRunFails
<1>2. RequestInv /\ [Next]_vars => RequestInv'
  BY TypeStep, RequestStep DEF RequestInv
<1>3. RequestInv => RefreshRequestKept
  BY DEF RequestInv
<1> QED BY <1>1, <1>2, <1>3, PTL DEF Spec
=============================================================================
