--------------------------- MODULE ConcurrencyProofs ---------------------------
(***************************************************************************)
(* What requests and programs that run at the same time leave of the        *)
(* objects that they share, for any number of them: mails to beta testers,  *)
(* GPT searches, embeddings.                                                *)
(***************************************************************************)
EXTENDS Services, FiniteSets, FiniteSetTheorems, TLAPS

-----------------------------------------------------------------------------
(* Mails to beta testers.                                                   *)

MailedBy(r) == {u \in Testers : mails[r][u] > 0}

(* A request that passed the check, unless it failed before any mail; one   *)
(* that has marked its spike; one that has written the object of its day.   *)
Live(r) == \/ calls[r].at \in {"mark", "search", "ask", "merge", "write", "send", "done"}
           \/ MailedBy(r) # {}
HasMarked(r) == \/ calls[r].at \in {"search", "ask", "merge", "write", "send", "done"}
                \/ MailedBy(r) # {}
HasWritten(r) == calls[r].at \in {"send", "done"} \/ MailedBy(r) # {}
Excused(r) == calls[r].day \in excuses.days

(* Only who was chosen is mailed, after the object was written.             *)
MailsFollowWriting ==
  \A r \in Requests :
    /\ MailedBy(r) \subseteq calls[r].chosen
    /\ MailedBy(r) # {} => calls[r].at \in {"send", "done", "failed"}
    /\ calls[r].at \in {"ask", "merge", "write", "send", "done"} \/ MailedBy(r) # {} =>
         calls[r].day \in Mails!Days
    /\ calls[r].at = "done" => \A u \in calls[r].chosen : mails[r][u] = 1

(* One request per spike passes the check, as those before it left a mark.  *)
OnePerSpike ==
  /\ \A r \in Requests : HasMarked(r) => Spike[r] \in marked
  /\ \A q, r \in Requests :
       q # r /\ Spike[q] = Spike[r] /\ Live(q) /\ Live(r) => Spike[r] \in excuses.raced

(* What a request has in hand of the object of its day is what is stored,   *)
(* and the testers chosen are new to it.                                    *)
InHandIsStored ==
  /\ \A q, r \in Requests :
       /\ calls[q].at \in {"ask", "merge", "write"} /\ calls[r].at \in {"ask", "merge", "write"}
       /\ q # r /\ calls[q].day = calls[r].day
       => Excused(r)
  /\ \A r \in Requests : ~Excused(r) =>
       LET stored == sentTo[calls[r].day] IN
       /\ calls[r].at = "ask" => calls[r].known = stored
       /\ calls[r].at \in {"merge", "write"} => calls[r].chosen \cap stored = {}
       /\ calls[r].at = "write" => calls[r].merged = stored \cup calls[r].chosen
       /\ HasWritten(r) => calls[r].chosen \subseteq stored

(* The requests of a day write different testers into its object.           *)
DisjointChoices ==
  \A q, r \in Requests :
    q # r /\ calls[q].day = calls[r].day /\ HasWritten(q) /\ HasWritten(r) /\ ~Excused(r) =>
      calls[q].chosen \cap calls[r].chosen = {}

MailsInv == /\ Mails!TypeOK /\ MailsFollowWriting /\ OnePerSpike
            /\ InHandIsStored /\ DisjointChoices
LEMMA MailsStart ==
  ASSUME Mails!Assumptions, Mails!Init
  PROVE  MailsInv
<1>1. Mails!TypeOK
  BY DEF Mails!Assumptions, Mails!Init, Mails!TypeOK, Mails!Days, Mails!Labels
<1>2. \A r \in Requests : calls[r].at = "idle" /\ MailedBy(r) = {}
  BY DEF Mails!Init, MailedBy
<1> QED
  BY <1>1, <1>2 DEF MailsInv, MailsFollowWriting, OnePerSpike, InHandIsStored, DisjointChoices,
                    Live, HasMarked, HasWritten

Call == [at : Mails!Labels, day : Mails!Days \cup {0}, known : SUBSET Testers,
         chosen : SUBSET Testers, merged : SUBSET Testers]

(* A step of request r changes no other request.                            *)
OnlyCall(r) == /\ calls' \in [Requests -> Call]
               /\ \A q \in Requests \ {r} : calls'[q] = calls[q]

LEMMA CallGoesTo ==
  ASSUME Mails!TypeOK, NEW r \in Requests, NEW label \in Mails!Labels, Mails!GoTo(r, label)
  PROVE  /\ OnlyCall(r) /\ calls'[r].at = label
         /\ calls'[r].day = calls[r].day /\ calls'[r].known = calls[r].known
         /\ calls'[r].chosen = calls[r].chosen /\ calls'[r].merged = calls[r].merged
<1>1. calls \in [Requests -> Call]
  BY DEF Mails!TypeOK, Call
<1>2. calls' = [calls EXCEPT ![r] = [calls[r] EXCEPT !.at = label]]
  BY <1>1 DEF Mails!GoTo, Call
<1>3. [calls[r] EXCEPT !.at = label] \in Call
  BY <1>1 DEF Call
<1> QED
  BY <1>1, <1>2, <1>3 DEF OnlyCall, Call

LEMMA CallReads ==
  ASSUME Mails!TypeOK, NEW r \in Requests, today \in Mails!Days, sentTo[today] \in SUBSET Testers,
         calls' = [calls EXCEPT ![r].at = "ask", ![r].day = today, ![r].known = sentTo[today]]
  PROVE  /\ OnlyCall(r) /\ calls'[r].at = "ask" /\ calls'[r].day = today
         /\ calls'[r].known = sentTo[today]
<1> DEFINE call == [calls[r] EXCEPT !.at = "ask", !.day = today, !.known = sentTo[today]]
<1>1. calls \in [Requests -> Call]
  BY DEF Mails!TypeOK, Call
<1>2. calls' = [calls EXCEPT ![r] = call]
  BY <1>1 DEF Call
<1>3. call \in Call /\ call.at = "ask" /\ call.day = today /\ call.known = sentTo[today]
  BY <1>1 DEF Call, Mails!Labels
<1> QED
  BY <1>1, <1>2, <1>3 DEF OnlyCall

LEMMA CallFailsToRead ==
  ASSUME Mails!TypeOK, NEW r \in Requests, NEW d \in Mails!Days,
         calls' = [calls EXCEPT ![r].at = "ask", ![r].day = d]
  PROVE  /\ OnlyCall(r) /\ calls'[r].at = "ask" /\ calls'[r].day = d
         /\ calls'[r].known = calls[r].known
         /\ calls'[r].chosen = calls[r].chosen /\ calls'[r].merged = calls[r].merged
<1>1. calls \in [Requests -> Call]
  BY DEF Mails!TypeOK, Call
<1>2. calls' = [calls EXCEPT ![r] = [calls[r] EXCEPT !.at = "ask", !.day = d]]
  BY <1>1 DEF Call
<1>3. [calls[r] EXCEPT !.at = "ask", !.day = d] \in Call
  BY <1>1 DEF Call, Mails!Labels
<1> QED
  BY <1>1, <1>2, <1>3 DEF OnlyCall, Call

LEMMA CallChooses ==
  ASSUME Mails!TypeOK, NEW r \in Requests, NEW chosen \in SUBSET Testers,
         calls' = [calls EXCEPT ![r].at = "merge", ![r].chosen = chosen]
  PROVE  /\ OnlyCall(r) /\ calls'[r].at = "merge" /\ calls'[r].chosen = chosen
         /\ calls'[r].day = calls[r].day
<1>1. calls \in [Requests -> Call]
  BY DEF Mails!TypeOK, Call
<1>2. calls' = [calls EXCEPT ![r] = [calls[r] EXCEPT !.at = "merge", !.chosen = chosen]]
  BY <1>1 DEF Call
<1>3. [calls[r] EXCEPT !.at = "merge", !.chosen = chosen] \in Call
  BY <1>1 DEF Call, Mails!Labels
<1> QED
  BY <1>1, <1>2, <1>3 DEF OnlyCall, Call

LEMMA CallMerges ==
  ASSUME Mails!TypeOK, NEW r \in Requests, NEW merged \in SUBSET Testers,
         calls' = [calls EXCEPT ![r].at = "write", ![r].merged = merged]
  PROVE  /\ OnlyCall(r) /\ calls'[r].at = "write" /\ calls'[r].merged = merged
         /\ calls'[r].day = calls[r].day /\ calls'[r].chosen = calls[r].chosen
<1>1. calls \in [Requests -> Call]
  BY DEF Mails!TypeOK, Call
<1>2. calls' = [calls EXCEPT ![r] = [calls[r] EXCEPT !.at = "write", !.merged = merged]]
  BY <1>1 DEF Call
<1>3. [calls[r] EXCEPT !.at = "write", !.merged = merged] \in Call
  BY <1>1 DEF Call, Mails!Labels
<1> QED
  BY <1>1, <1>2, <1>3 DEF OnlyCall, Call

LEMMA MailsStep ==
  ASSUME Mails!Assumptions, MailsInv, Mails!Next
  PROVE  MailsInv'
<1> USE DEF MailsInv
<1>1. CASE Mails!NextDay
  <2>1. UNCHANGED <<calls, marked, sentTo, mails, faults, excuses>>
    BY <1>1 DEF Mails!NextDay
  <2>2. Mails!TypeOK'
    BY <1>1, <2>1 DEF Mails!NextDay, Mails!TypeOK, Mails!Assumptions, Mails!Days
  <2> QED
    BY <2>1, <2>2 DEF MailsFollowWriting, OnePerSpike, InHandIsStored, DisjointChoices,
                      MailedBy, Live, HasMarked, HasWritten, Excused
<1>2. ASSUME NEW r \in Requests, Mails!Check(r)
      PROVE  MailsInv'
  <2>0. Mails!At(r, "idle") /\ UNCHANGED <<marked, sentTo, mails, today, faults>>
    BY <1>2 DEF Mails!Check
  <2>1. PICK label \in {"refused", "mark"} :
          Mails!GoTo(r, label) /\ (label = "mark" => Spike[r] \notin marked)
    BY <1>2 DEF Mails!Check
  <2>2. label \in Mails!Labels
    BY DEF Mails!Labels
  <2>3. /\ OnlyCall(r) /\ calls'[r].at = label
        /\ calls'[r].day = calls[r].day /\ calls'[r].known = calls[r].known
        /\ calls'[r].chosen = calls[r].chosen /\ calls'[r].merged = calls[r].merged
    BY <2>1, <2>2, CallGoesTo
  <2>4. /\ excuses' \in [raced : SUBSET Mails!Spikes, days : SUBSET Mails!Days]
        /\ excuses'.days = excuses.days /\ excuses.raced \subseteq excuses'.raced
        /\ \A q \in Requests :
             calls[q].at = "mark" /\ Spike[q] = Spike[r] => Spike[r] \in excuses'.raced
    BY <1>2 DEF Mails!Check, Mails!TypeOK, Mails!Spikes, Mails!At
  <2>9. \A q \in Requests : MailedBy(q)' = MailedBy(q)
    BY <2>0 DEF MailedBy
  <2>11. Mails!TypeOK'
    BY <2>0, <2>1, <2>3, <2>4, <2>9 DEF OnlyCall, Call, Mails!TypeOK, Mails!Assumptions, Mails!Fault
  <2>12. MailsFollowWriting'
    BY <2>0, <2>1, <2>3, <2>4, <2>9 DEF OnlyCall, MailsFollowWriting, Mails!At
  <2>13. OnePerSpike'
    BY <2>0, <2>1, <2>3, <2>4, <2>9 DEF OnlyCall, OnePerSpike, Mails!At, Live, HasMarked
  <2>14. InHandIsStored'
    BY <2>0, <2>1, <2>3, <2>4, <2>9 DEF OnlyCall, InHandIsStored, Mails!At, Excused, HasWritten
  <2>15. DisjointChoices'
    BY <2>0, <2>1, <2>3, <2>4, <2>9 DEF OnlyCall, DisjointChoices, Mails!At, Excused, HasWritten
  <2> QED
    BY <2>11, <2>12, <2>13, <2>14, <2>15
<1>3. ASSUME NEW r \in Requests, Mails!Mark(r)
      PROVE  MailsInv'
  <2>0. /\ calls[r].at = "mark" /\ marked' = marked \cup {Spike[r]}
        /\ UNCHANGED <<sentTo, mails, today, excuses>>
    BY <1>3 DEF Mails!Mark, Mails!At
  <2>1. PICK label \in {"search", "failed"} :
          Mails!GoTo(r, label) /\ (UNCHANGED faults \/ Mails!Fault)
    BY <1>3 DEF Mails!Mark
  <2>2. label \in Mails!Labels /\ Spike[r] \in Mails!Spikes
    BY DEF Mails!Labels, Mails!Spikes
  <2>3. /\ OnlyCall(r) /\ calls'[r].at = label
        /\ calls'[r].day = calls[r].day /\ calls'[r].known = calls[r].known
        /\ calls'[r].chosen = calls[r].chosen /\ calls'[r].merged = calls[r].merged
    BY <2>1, <2>2, CallGoesTo
  <2>9. \A q \in Requests : MailedBy(q)' = MailedBy(q)
    BY <2>0 DEF MailedBy
  <2>11. Mails!TypeOK'
    BY <2>0, <2>1, <2>2, <2>3, <2>9 DEF OnlyCall, Call, Mails!TypeOK, Mails!Assumptions, Mails!Fault
  <2>12. MailsFollowWriting'
    BY <2>0, <2>1, <2>2, <2>3, <2>9 DEF OnlyCall, MailsFollowWriting
  <2>13. OnePerSpike'
    BY <2>0, <2>1, <2>2, <2>3, <2>9 DEF OnlyCall, OnePerSpike, Live, HasMarked
  <2>14. InHandIsStored'
    BY <2>0, <2>1, <2>2, <2>3, <2>9 DEF OnlyCall, InHandIsStored, Excused, HasWritten
  <2>15. DisjointChoices'
    BY <2>0, <2>1, <2>2, <2>3, <2>9 DEF OnlyCall, DisjointChoices, Excused, HasWritten
  <2> QED
    BY <2>11, <2>12, <2>13, <2>14, <2>15
<1>4. ASSUME NEW r \in Requests, Mails!Search(r)
      PROVE  MailsInv'
  <2>0. /\ calls[r].at = "search" /\ UNCHANGED <<marked, sentTo, mails, today>>
        /\ today \in Mails!Days /\ sentTo[today] \in SUBSET Testers
        /\ UNCHANGED faults \/ Mails!Fault
    BY <1>4 DEF Mails!Search, Mails!At, Mails!TypeOK
  <2>3. /\ OnlyCall(r) /\ calls'[r].at = "ask" /\ calls'[r].day = today
        /\ today \notin excuses'.days => calls'[r].known = sentTo[today]
    <3>1. CASE calls' = [calls EXCEPT ![r].at = "ask", ![r].day = today, ![r].known = sentTo[today]]
      BY <2>0, <3>1, CallReads
    <3>2. CASE /\ calls' = [calls EXCEPT ![r].at = "ask", ![r].day = today]
               /\ excuses' = [excuses EXCEPT !.days = @ \cup {today}]
      BY <2>0, <3>2, CallFailsToRead DEF Mails!TypeOK
    <3> QED
      BY <1>4, <3>1, <3>2 DEF Mails!Search
  <2>4. /\ excuses' \in [raced : SUBSET Mails!Spikes, days : SUBSET Mails!Days]
        /\ excuses'.raced = excuses.raced /\ excuses.days \subseteq excuses'.days
        /\ \A q \in Requests :
             calls[q].at \in {"ask", "merge", "write"} /\ calls[q].day = today => today \in excuses'.days
    BY <1>4, <2>0 DEF Mails!Search, Mails!TypeOK, Mails!InHand
  <2>5. MailedBy(r) = {}
    BY <2>0 DEF MailsFollowWriting
  <2>9. \A q \in Requests : MailedBy(q)' = MailedBy(q)
    BY <2>0 DEF MailedBy
  <2>11. Mails!TypeOK'
    BY <2>0, <2>3, <2>4, <2>5, <2>9 DEF OnlyCall, Call, Mails!TypeOK, Mails!Assumptions, Mails!Fault
  <2>12. MailsFollowWriting'
    BY <2>0, <2>3, <2>4, <2>5, <2>9 DEF OnlyCall, MailsFollowWriting
  <2>13. OnePerSpike'
    BY <2>0, <2>3, <2>4, <2>5, <2>9 DEF OnlyCall, OnePerSpike, Live, HasMarked
  <2>14. InHandIsStored'
    BY <2>0, <2>3, <2>4, <2>5, <2>9 DEF OnlyCall, InHandIsStored, Excused, HasWritten
  <2>15. DisjointChoices'
    BY <2>0, <2>3, <2>4, <2>5, <2>9 DEF OnlyCall, DisjointChoices, Excused, HasWritten
  <2> QED
    BY <2>11, <2>12, <2>13, <2>14, <2>15
<1>5. ASSUME NEW r \in Requests, Mails!Ask(r)
      PROVE  MailsInv'
  <2>0. calls[r].at = "ask" /\ UNCHANGED <<marked, sentTo, mails, today, faults, excuses>>
    BY <1>5 DEF Mails!Ask, Mails!At
  <2>1. PICK chosen \in SUBSET (Testers \ calls[r].known) :
          calls' = [calls EXCEPT ![r].at = "merge", ![r].chosen = chosen]
    BY <1>5 DEF Mails!Ask
  <2>3. /\ OnlyCall(r) /\ calls'[r].at = "merge" /\ calls'[r].chosen = chosen
        /\ calls'[r].day = calls[r].day
    BY <2>1, CallChooses
  <2>5. MailedBy(r) = {}
    BY <2>0 DEF MailsFollowWriting
  <2>9. \A q \in Requests : MailedBy(q)' = MailedBy(q)
    BY <2>0 DEF MailedBy
  <2>11. Mails!TypeOK'
    BY <2>0, <2>1, <2>3, <2>5, <2>9 DEF OnlyCall, Call, Mails!TypeOK, Mails!Assumptions, Mails!Fault
  <2>12. MailsFollowWriting'
    BY <2>0, <2>1, <2>3, <2>5, <2>9 DEF OnlyCall, MailsFollowWriting
  <2>13. OnePerSpike'
    BY <2>0, <2>1, <2>3, <2>5, <2>9 DEF OnlyCall, OnePerSpike, Live, HasMarked
  <2>14. InHandIsStored'
    BY <2>0, <2>1, <2>3, <2>5, <2>9 DEF OnlyCall, InHandIsStored, Excused, HasWritten
  <2>15. DisjointChoices'
    BY <2>0, <2>1, <2>3, <2>5, <2>9 DEF OnlyCall, DisjointChoices, Excused, HasWritten
  <2> QED
    BY <2>11, <2>12, <2>13, <2>14, <2>15
<1>6. ASSUME NEW r \in Requests, Mails!Merge(r)
      PROVE  MailsInv'
  <2>0. calls[r].at = "merge" /\ UNCHANGED <<marked, sentTo, mails, today, faults, excuses>>
    BY <1>6 DEF Mails!Merge, Mails!At
  <2>1. (sentTo[calls[r].day] \cup calls[r].chosen) \in SUBSET Testers
    BY <2>0 DEF Mails!TypeOK, MailsFollowWriting
  <2>3. /\ OnlyCall(r) /\ calls'[r].at = "write"
        /\ calls'[r].merged = sentTo[calls[r].day] \cup calls[r].chosen
        /\ calls'[r].day = calls[r].day /\ calls'[r].chosen = calls[r].chosen
    BY <1>6, <2>1, CallMerges DEF Mails!Merge
  <2>5. MailedBy(r) = {}
    BY <2>0 DEF MailsFollowWriting
  <2>9. \A q \in Requests : MailedBy(q)' = MailedBy(q)
    BY <2>0 DEF MailedBy
  <2>11. Mails!TypeOK'
    BY <2>0, <2>1, <2>3, <2>5, <2>9 DEF OnlyCall, Call, Mails!TypeOK, Mails!Assumptions, Mails!Fault
  <2>12. MailsFollowWriting'
    BY <2>0, <2>1, <2>3, <2>5, <2>9 DEF OnlyCall, MailsFollowWriting
  <2>13. OnePerSpike'
    BY <2>0, <2>1, <2>3, <2>5, <2>9 DEF OnlyCall, OnePerSpike, Live, HasMarked
  <2>14. InHandIsStored'
    BY <2>0, <2>1, <2>3, <2>5, <2>9 DEF OnlyCall, InHandIsStored, Excused, HasWritten
  <2>15. DisjointChoices'
    BY <2>0, <2>1, <2>3, <2>5, <2>9 DEF OnlyCall, DisjointChoices, Excused, HasWritten
  <2> QED
    BY <2>11, <2>12, <2>13, <2>14, <2>15
<1>7. ASSUME NEW r \in Requests, Mails!Write(r)
      PROVE  MailsInv'
  <2>0. calls[r].at = "write" /\ UNCHANGED <<marked, mails, today, faults, excuses>>
    BY <1>7 DEF Mails!Write, Mails!At
  <2>1. "send" \in Mails!Labels
    BY DEF Mails!Labels
  <2>3. /\ OnlyCall(r) /\ calls'[r].at = "send"
        /\ calls'[r].day = calls[r].day /\ calls'[r].known = calls[r].known
        /\ calls'[r].chosen = calls[r].chosen /\ calls'[r].merged = calls[r].merged
    BY <1>7, <2>1, CallGoesTo DEF Mails!Write
  <2>4. /\ calls[r].day \in Mails!Days /\ sentTo' \in [Mails!Days -> SUBSET Testers]
        /\ sentTo'[calls[r].day] = calls[r].merged
        /\ \A d \in Mails!Days \ {calls[r].day} : sentTo'[d] = sentTo[d]
    BY <1>7, <2>0 DEF Mails!Write, Mails!TypeOK, MailsFollowWriting
  <2>5. MailedBy(r) = {}
    BY <2>0 DEF MailsFollowWriting
  <2>9. \A q \in Requests : MailedBy(q)' = MailedBy(q)
    BY <2>0 DEF MailedBy
  <2>11. Mails!TypeOK'
    BY <2>0, <2>3, <2>4, <2>5, <2>9 DEF OnlyCall, Call, Mails!TypeOK, Mails!Assumptions, Mails!Fault
  <2>12. MailsFollowWriting'
    BY <2>0, <2>3, <2>4, <2>5, <2>9 DEF OnlyCall, MailsFollowWriting
  <2>13. OnePerSpike'
    BY <2>0, <2>3, <2>4, <2>5, <2>9 DEF OnlyCall, OnePerSpike, Live, HasMarked
  <2>14. InHandIsStored'
    <3>1. \A q \in Requests :
            /\ calls'[q].day = calls[q].day /\ calls'[q].chosen = calls[q].chosen
            /\ q # r => calls'[q] = calls[q]
      BY <2>3 DEF OnlyCall
    <3>2. ASSUME NEW q \in Requests, ~Excused(q), q # r, calls[q].at \in {"ask", "merge", "write"}
          PROVE  sentTo'[calls[q].day] = sentTo[calls[q].day]
      <4>1. calls[q].day # calls[r].day
        BY <2>0, <3>2 DEF InHandIsStored, Excused
      <4> QED
        BY <2>4, <3>2, <4>1 DEF MailsFollowWriting
    <3>3. ASSUME NEW q \in Requests, ~Excused(q), q # r, HasWritten(q)
          PROVE  calls[q].chosen \subseteq sentTo'[calls[q].day]
      <4>1. calls[q].chosen \subseteq sentTo[calls[q].day] /\ calls[q].day \in Mails!Days
        BY <3>3 DEF InHandIsStored, HasWritten, MailsFollowWriting
      <4>2. CASE calls[q].day = calls[r].day
        BY <2>0, <2>4, <3>3, <4>1, <4>2 DEF InHandIsStored, Excused
      <4> QED
        BY <2>4, <4>1, <4>2
    <3>4. ~Excused(r) => calls[r].chosen \subseteq sentTo'[calls[r].day]
      BY <2>0, <2>4 DEF InHandIsStored, Excused
    <3>5. ASSUME NEW q \in Requests, ~Excused(q)'
          PROVE  (LET stored == sentTo[calls[q].day] IN
                  /\ calls[q].at = "ask" => calls[q].known = stored
                  /\ calls[q].at \in {"merge", "write"} => calls[q].chosen \cap stored = {}
                  /\ calls[q].at = "write" => calls[q].merged = stored \cup calls[q].chosen
                  /\ HasWritten(q) => calls[q].chosen \subseteq stored)'
      <4>1. ~Excused(q)
        BY <2>0, <3>1, <3>5 DEF Excused
      <4>2. CASE q = r
        BY <2>3, <3>4, <4>1, <4>2
      <4>3. CASE q # r
        BY <2>9, <3>1, <3>2, <3>3, <4>1, <4>3 DEF InHandIsStored, HasWritten
      <4> QED
        BY <4>2, <4>3
    <3>6. \A q1, q2 \in Requests :
            /\ calls'[q1].at \in {"ask", "merge", "write"} /\ calls'[q2].at \in {"ask", "merge", "write"}
            /\ q1 # q2 /\ calls'[q1].day = calls'[q2].day
            => Excused(q2)'
      BY <2>0, <2>3, <3>1 DEF InHandIsStored, Excused
    <3> QED
      BY <3>5, <3>6 DEF InHandIsStored
  <2>15. DisjointChoices'
    <3>1. \A q \in Requests :
            /\ calls'[q].day = calls[q].day /\ calls'[q].chosen = calls[q].chosen
            /\ q # r => calls'[q] = calls[q]
      BY <2>3 DEF OnlyCall
    <3>2. ASSUME NEW q \in Requests, q # r, calls[q].day = calls[r].day, HasWritten(q), ~Excused(r)
          PROVE  calls[q].chosen \cap calls[r].chosen = {}
      BY <2>0, <3>2 DEF InHandIsStored, Excused
    <3>3. ASSUME NEW q1 \in Requests, NEW q2 \in Requests, q1 # q2,
                 calls'[q1].day = calls'[q2].day, HasWritten(q1)', HasWritten(q2)', ~Excused(q2)'
          PROVE  calls'[q1].chosen \cap calls'[q2].chosen = {}
      <4>1. ~Excused(q2) /\ ~Excused(q1) /\ calls[q1].day = calls[q2].day
        BY <2>0, <3>1, <3>3 DEF Excused
      <4>2. \A q \in Requests \ {r} : HasWritten(q)' => HasWritten(q)
        BY <2>9, <3>1 DEF HasWritten
      <4>3. CASE q1 = r
        BY <3>1, <3>2, <3>3, <4>1, <4>2, <4>3
      <4>4. CASE q2 = r
        BY <3>1, <3>2, <3>3, <4>1, <4>2, <4>4
      <4>5. CASE q1 # r /\ q2 # r
        BY <3>1, <3>3, <4>1, <4>2, <4>5 DEF DisjointChoices
      <4> QED
        BY <4>3, <4>4, <4>5
    <3> QED
      BY <3>3 DEF DisjointChoices
  <2> QED
    BY <2>11, <2>12, <2>13, <2>14, <2>15
<1>8. ASSUME NEW r \in Requests, Mails!Send(r)
      PROVE  MailsInv'
  <2>0. calls[r].at = "send" /\ UNCHANGED <<marked, sentTo, today, faults, excuses>>
    BY <1>8 DEF Mails!Send, Mails!At
  <2>1. CASE /\ \A u \in calls[r].chosen : mails[r][u] > 0
             /\ Mails!GoTo(r, "done") /\ UNCHANGED mails
    <3>1. "done" \in Mails!Labels
      BY DEF Mails!Labels
    <3>2. /\ OnlyCall(r) /\ calls'[r].at = "done"
          /\ calls'[r].day = calls[r].day /\ calls'[r].known = calls[r].known
          /\ calls'[r].chosen = calls[r].chosen /\ calls'[r].merged = calls[r].merged
      BY <2>1, <3>1, CallGoesTo
    <3>3. \A u \in calls[r].chosen : mails[r][u] = 1
      BY <2>1 DEF Mails!TypeOK
    <3>9. \A q \in Requests : MailedBy(q)' = MailedBy(q)
      BY <2>1 DEF MailedBy
    <3>11. Mails!TypeOK'
      BY <2>0, <2>1, <3>2, <3>3, <3>9 DEF OnlyCall, Call, Mails!TypeOK, Mails!Assumptions, Mails!Fault
    <3>12. MailsFollowWriting'
      BY <2>0, <2>1, <3>2, <3>3, <3>9 DEF OnlyCall, MailsFollowWriting
    <3>13. OnePerSpike'
      BY <2>0, <2>1, <3>2, <3>3, <3>9 DEF OnlyCall, OnePerSpike, Live, HasMarked
    <3>14. InHandIsStored'
      BY <2>0, <2>1, <3>2, <3>3, <3>9 DEF OnlyCall, InHandIsStored, Excused, HasWritten
    <3>15. DisjointChoices'
      BY <2>0, <2>1, <3>2, <3>3, <3>9 DEF OnlyCall, DisjointChoices, Excused, HasWritten
    <3> QED
      BY <3>11, <3>12, <3>13, <3>14, <3>15
  <2>2. ASSUME NEW u \in calls[r].chosen, mails[r][u] = 0,
               mails' = [mails EXCEPT ![r][u] = @ + 1], UNCHANGED calls
        PROVE  MailsInv'
    <3>1. u \in Testers
      BY DEF Mails!TypeOK
    <3>2. mails' \in [Requests -> [Testers -> 0 .. 1]]
      BY <2>2, <3>1 DEF Mails!TypeOK
    <3>3. \A q \in Requests, v \in Testers :
            mails'[q][v] = IF q = r /\ v = u THEN 1 ELSE mails[q][v]
      BY <2>2, <3>1 DEF Mails!TypeOK
    <3>4. /\ \A q \in Requests \ {r} : MailedBy(q)' = MailedBy(q)
          /\ MailedBy(r)' = MailedBy(r) \cup {u}
      BY <3>1, <3>3 DEF MailedBy
    <3>11. Mails!TypeOK'
      BY <2>0, <2>2, <3>1, <3>2, <3>3, <3>4 DEF OnlyCall, Call, Mails!TypeOK, Mails!Assumptions, Mails!Fault
    <3>12. MailsFollowWriting'
      BY <2>0, <2>2, <3>1, <3>2, <3>3, <3>4 DEF OnlyCall, MailsFollowWriting
    <3>13. OnePerSpike'
      BY <2>0, <2>2, <3>1, <3>2, <3>3, <3>4 DEF OnlyCall, OnePerSpike, Live, HasMarked
    <3>14. InHandIsStored'
      BY <2>0, <2>2, <3>1, <3>2, <3>3, <3>4 DEF OnlyCall, InHandIsStored, Excused, HasWritten
    <3>15. DisjointChoices'
      BY <2>0, <2>2, <3>1, <3>2, <3>3, <3>4 DEF OnlyCall, DisjointChoices, Excused, HasWritten
    <3> QED
      BY <3>11, <3>12, <3>13, <3>14, <3>15
  <2> QED
    BY <1>8, <2>1, <2>2 DEF Mails!Send
<1>9. ASSUME NEW r \in Requests, Mails!Fails(r)
      PROVE  MailsInv'
  <2>0. /\ calls[r].at \in {"mark", "search", "ask", "merge", "write", "send"}
        /\ UNCHANGED <<marked, sentTo, mails, today, excuses>> /\ Mails!Fault
    BY <1>9 DEF Mails!Fails, Mails!Raise
  <2>1. "failed" \in Mails!Labels
    BY DEF Mails!Labels
  <2>3. /\ OnlyCall(r) /\ calls'[r].at = "failed"
        /\ calls'[r].day = calls[r].day /\ calls'[r].known = calls[r].known
        /\ calls'[r].chosen = calls[r].chosen /\ calls'[r].merged = calls[r].merged
    BY <1>9, <2>1, CallGoesTo DEF Mails!Fails, Mails!Raise
  <2>9. \A q \in Requests : MailedBy(q)' = MailedBy(q)
    BY <2>0 DEF MailedBy
  <2>11. Mails!TypeOK'
    BY <2>0, <2>3, <2>9 DEF OnlyCall, Call, Mails!TypeOK, Mails!Assumptions, Mails!Fault
  <2>12. MailsFollowWriting'
    BY <2>0, <2>3, <2>9 DEF OnlyCall, MailsFollowWriting
  <2>13. OnePerSpike'
    BY <2>0, <2>3, <2>9 DEF OnlyCall, OnePerSpike, Live, HasMarked
  <2>14. InHandIsStored'
    BY <2>0, <2>3, <2>9 DEF OnlyCall, InHandIsStored, Excused, HasWritten
  <2>15. DisjointChoices'
    BY <2>0, <2>3, <2>9 DEF OnlyCall, DisjointChoices, Excused, HasWritten
  <2> QED
    BY <2>11, <2>12, <2>13, <2>14, <2>15
<1> QED
  BY <1>1, <1>2, <1>3, <1>4, <1>5, <1>6, <1>7, <1>8, <1>9 DEF Mails!Next, Mails!Serve

-----------------------------------------------------------------------------
(* Searches for the same words, while no two of them run at once.           *)

Alone == ~record.overlapped
Knows == "knn" \notin record.expired

SearchesInTurn ==
  Alone => \A s1, s2 \in Searches : Gpt!Active(s1) /\ Gpt!Active(s2) => s1 = s2

(* The search that runs has in hand what the caches hold, and looks further *)
(* only without it.                                                         *)
CachesFit ==
  Alone => \A s \in Searches :
    /\ threads[s].at = "gpt" => cache.gpt.kind # "docs"
    /\ threads[s].at = "knn" => ~Gpt!Reusable(cache.knn)
    /\ threads[s].at \in {"get", "gpt?", "gpt"} /\ Knows =>
         cache.knn.kind = "docs" /\ cache.knn.docs = threads[s].hits /\ threads[s].hits # {}

(* An answer is kept with the ids of the documents it was made from.        *)
AnswerHasIds == Alone /\ Knows /\ cache.gpt.kind = "docs" => Gpt!Reusable(cache.knn)

GptInv == /\ Gpt!TypeOK /\ SearchesInTurn /\ CachesFit /\ AnswerHasIds
          /\ Gpt!SupportAmongShown /\ Gpt!RetryAnswers

LEMMA GptStart ==
  ASSUME Gpt!Assumptions, Gpt!Init
  PROVE  GptInv
<1>1. Gpt!TypeOK
  BY DEF Gpt!Assumptions, Gpt!Init, Gpt!TypeOK, Gpt!Lookups, Gpt!Results, Gpt!NoEntry, Gpt!Entries
<1> QED
  BY <1>1 DEF GptInv, Gpt!Init, SearchesInTurn, CachesFit, AnswerHasIds, Gpt!Active, Gpt!Reusable,
              Gpt!SupportAmongShown, Gpt!RetryAnswers, Gpt!NoEntry, Gpt!At

Steps == {"idle", "look up", "knn?", "knn", "get", "gpt?", "gpt", "done", "refused"}
Thread == [at : Steps, todo : SUBSET Gpt!Lookups, error : BOOLEAN, hits : SUBSET Matching]
Record == [expiries : 0 .. MaxExpiries, faults : 0 .. MaxFaults,
           overlapped : BOOLEAN, expired : SUBSET Gpt!Results]

(* A step of search s changes no other search.                              *)
OnlyThread(s) == /\ threads' \in [Searches -> Thread]
                 /\ \A t \in Searches \ {s} : threads'[t] = threads[t]

LEMMA ThreadGoesTo ==
  ASSUME Gpt!TypeOK, NEW s \in Searches, NEW label \in Steps, Gpt!GoTo(s, label)
  PROVE  /\ OnlyThread(s) /\ threads'[s].at = label
         /\ threads'[s].error = threads[s].error /\ threads'[s].hits = threads[s].hits
<1> DEFINE thread == [threads[s] EXCEPT !.at = label]
<1>1. threads \in [Searches -> Thread]
  BY DEF Gpt!TypeOK, Thread, Steps
<1>2. threads' = [threads EXCEPT ![s] = thread]
  BY <1>1 DEF Gpt!GoTo, Thread
<1>3. /\ thread \in Thread /\ thread.at = label
      /\ thread.error = threads[s].error /\ thread.hits = threads[s].hits
  BY <1>1 DEF Thread
<1> QED
  BY <1>1, <1>2, <1>3 DEF OnlyThread

LEMMA ThreadGivesUp ==
  ASSUME Gpt!TypeOK, NEW s \in Searches, Gpt!GivesUp(s)
  PROVE  /\ OnlyThread(s) /\ threads'[s].at = "done" /\ threads'[s].error = TRUE
<1> DEFINE thread == [threads[s] EXCEPT !.at = "done", !.error = TRUE]
<1>1. threads \in [Searches -> Thread]
  BY DEF Gpt!TypeOK, Thread, Steps
<1>2. threads' = [threads EXCEPT ![s] = thread]
  BY <1>1 DEF Gpt!GivesUp, Thread
<1>3. thread \in Thread /\ thread.at = "done" /\ thread.error = TRUE
  BY <1>1 DEF Thread, Steps
<1> QED
  BY <1>1, <1>2, <1>3 DEF OnlyThread

LEMMA ThreadHasHits ==
  ASSUME Gpt!TypeOK, NEW s \in Searches, NEW ids \in SUBSET Matching,
         threads' = [threads EXCEPT ![s].at = "get", ![s].hits = ids]
  PROVE  OnlyThread(s) /\ threads'[s].at = "get" /\ threads'[s].hits = ids
<1> DEFINE thread == [threads[s] EXCEPT !.at = "get", !.hits = ids]
<1>1. threads \in [Searches -> Thread]
  BY DEF Gpt!TypeOK, Thread, Steps
<1>2. threads' = [threads EXCEPT ![s] = thread]
  BY <1>1 DEF Thread
<1>3. thread \in Thread /\ thread.at = "get" /\ thread.hits = ids
  BY <1>1 DEF Thread, Steps
<1> QED
  BY <1>1, <1>2, <1>3 DEF OnlyThread

LEMMA ThreadLooksUp ==
  ASSUME Gpt!TypeOK, NEW s \in Searches, NEW what \in Gpt!Lookups, NEW fails \in BOOLEAN,
         threads' = IF fails THEN [threads EXCEPT ![s].todo = @ \ {what}, ![s].error = TRUE]
                    ELSE [threads EXCEPT ![s].todo = @ \ {what}]
  PROVE  OnlyThread(s) /\ threads'[s].at = threads[s].at
<1> DEFINE thread == [threads[s] EXCEPT !.todo = @ \ {what},
                                        !.error = IF fails THEN TRUE ELSE threads[s].error]
<1>1. threads \in [Searches -> Thread]
  BY DEF Gpt!TypeOK, Thread, Steps
<1>2. thread \in Thread /\ thread.at = threads[s].at
  BY <1>1 DEF Thread
<1>3. CASE fails
  <2>1. threads' = [threads EXCEPT ![s] = thread]
    BY <1>1, <1>3 DEF Thread
  <2> QED
    BY <1>1, <1>2, <2>1 DEF OnlyThread
<1>4. CASE ~fails
  <2>1. threads' = [threads EXCEPT ![s] = thread]
    BY <1>1, <1>4 DEF Thread
  <2> QED
    BY <1>1, <1>2, <2>1 DEF OnlyThread
<1> QED
  BY <1>3, <1>4

(* A step that fails is counted, and the record is otherwise as it was.     *)
LEMMA RecordOfFault ==
  ASSUME Gpt!Assumptions, Gpt!TypeOK, Gpt!NoFault \/ Gpt!Fault
  PROVE  /\ record' \in Record /\ record'.overlapped = record.overlapped
         /\ record'.expired = record.expired /\ record'.expiries = record.expiries
<1>1. record \in Record /\ MaxFaults \in Nat
  BY DEF Gpt!Assumptions, Gpt!TypeOK, Record
<1>2. CASE UNCHANGED record
  BY <1>1, <1>2
<1>3. CASE record.faults < MaxFaults /\ record' = [record EXCEPT !.faults = @ + 1]
  BY <1>1, <1>3 DEF Record
<1> QED
  BY <1>2, <1>3 DEF Gpt!NoFault, Gpt!Fault

LEMMA GptStep ==
  ASSUME Gpt!Assumptions, GptInv, Gpt!Next
  PROVE  GptInv'
<1> USE DEF GptInv
<1>1. ASSUME NEW s \in Searches, Gpt!Start(s)
      PROVE  GptInv'
  <2>1. "look up" \in Steps
    BY DEF Steps
  <2>2. OnlyThread(s) /\ threads'[s].at = "look up"
    BY <1>1, <2>1, ThreadGoesTo DEF Gpt!Start
  <2>3. UNCHANGED <<waits, cache, index, record>> /\ record \in Record
    BY <1>1 DEF Gpt!Start, Gpt!TypeOK, Record
  <2>11. Gpt!TypeOK'
    BY <2>2, <2>3 DEF OnlyThread, Thread, Steps, Record, Gpt!TypeOK
  <2>12. SearchesInTurn'
    BY <2>2, <2>3 DEF OnlyThread, SearchesInTurn, Gpt!Active, Alone
  <2>13. CachesFit'
    BY <2>2, <2>3 DEF OnlyThread, CachesFit, SearchesInTurn, Gpt!Active, Alone, Knows, Gpt!Reusable
  <2>14. AnswerHasIds'
    BY <2>2, <2>3 DEF OnlyThread, AnswerHasIds, CachesFit, Alone, Knows, Gpt!Reusable
  <2>15. Gpt!SupportAmongShown'
    BY <2>2, <2>3 DEF OnlyThread, AnswerHasIds, CachesFit, Alone, Knows, Gpt!Reusable, Gpt!SupportAmongShown
  <2>16. Gpt!RetryAnswers'
    BY <2>2, <2>3 DEF OnlyThread, Alone, CachesFit, Gpt!RetryAnswers, Gpt!At
  <2> QED
    BY <2>11, <2>12, <2>13, <2>14, <2>15, <2>16
<1>2. ASSUME NEW s \in Searches, NEW what \in Gpt!Lookups, Gpt!LookUp(s, what)
      PROVE  GptInv'
  <2>1. PICK fails \in BOOLEAN :
          threads' = IF fails THEN [threads EXCEPT ![s].todo = @ \ {what}, ![s].error = TRUE]
                     ELSE [threads EXCEPT ![s].todo = @ \ {what}]
    BY <1>2 DEF Gpt!LookUp
  <2>2. OnlyThread(s) /\ threads'[s].at = threads[s].at
    BY <2>1, ThreadLooksUp
  <2>3. /\ threads[s].at = "look up" /\ UNCHANGED <<waits, index>>
        /\ cache' \in [emb : BOOLEAN, dsl : BOOLEAN, knn : Gpt!Entries, gpt : Gpt!Entries]
        /\ cache'.knn = cache.knn /\ cache'.gpt = cache.gpt
    BY <1>2 DEF Gpt!LookUp, Gpt!At, Gpt!TypeOK, Gpt!Lookups
  <2>8. /\ record' \in Record /\ record'.overlapped = record.overlapped
        /\ record'.expired = record.expired
    BY <1>2, RecordOfFault DEF Gpt!LookUp
  <2>11. Gpt!TypeOK'
    BY <2>2, <2>3, <2>8 DEF OnlyThread, Thread, Steps, Record, Gpt!TypeOK
  <2>12. SearchesInTurn'
    BY <2>2, <2>3, <2>8 DEF OnlyThread, SearchesInTurn, Gpt!Active, Alone
  <2>13. CachesFit'
    BY <2>2, <2>3, <2>8 DEF OnlyThread, CachesFit, SearchesInTurn, Gpt!Active, Alone, Knows, Gpt!Reusable
  <2>14. AnswerHasIds'
    BY <2>2, <2>3, <2>8 DEF OnlyThread, AnswerHasIds, CachesFit, Alone, Knows, Gpt!Reusable
  <2>15. Gpt!SupportAmongShown'
    BY <2>2, <2>3, <2>8 DEF OnlyThread, AnswerHasIds, CachesFit, Alone, Knows, Gpt!Reusable, Gpt!SupportAmongShown
  <2>16. Gpt!RetryAnswers'
    BY <2>2, <2>3, <2>8 DEF OnlyThread, Alone, CachesFit, Gpt!RetryAnswers, Gpt!At
  <2> QED
    BY <2>11, <2>12, <2>13, <2>14, <2>15, <2>16
<1>3. ASSUME NEW s \in Searches, Gpt!StartThread(s)
      PROVE  GptInv'
  <2>1. PICK label \in {"refused", "knn?"} :
          /\ Gpt!GoTo(s, label)
          /\ label = "refused" => UNCHANGED <<waits, record>>
          /\ label = "knn?" =>
               /\ waits' = [waits EXCEPT ![s] = [w \in Gpt!Results |-> "waiting"]]
               /\ record' = [record EXCEPT !.overlapped = @ \/ \E t \in Searches : Gpt!Active(t)]
    BY <1>3 DEF Gpt!StartThread
  <2>2. label \in Steps
    BY DEF Steps
  <2>3. OnlyThread(s) /\ threads'[s].at = label
    BY <2>1, <2>2, ThreadGoesTo
  <2>4. /\ UNCHANGED <<cache, index>> /\ threads[s].at = "look up"
        /\ waits' \in [Searches -> [Gpt!Results -> {"idle", "waiting", "docs", "nothing", "answer", "error"}]]
    <3> DEFINE W == [Gpt!Results -> {"idle", "waiting", "docs", "nothing", "answer", "error"}]
    <3>1. waits \in [Searches -> W] /\ [w \in Gpt!Results |-> "waiting"] \in W
      BY DEF Gpt!TypeOK
    <3> HIDE DEF W
    <3>2. waits' \in [Searches -> W]
      BY <2>1, <3>1
    <3> QED
      BY <1>3, <3>2 DEF Gpt!StartThread, Gpt!At, W
  <2>5. PICK together \in BOOLEAN : together <=> \E t \in Searches : Gpt!Active(t)
    OBVIOUS
  <2>6. /\ record' \in Record /\ record'.expired = record.expired
        /\ record.overlapped => record'.overlapped
        /\ label = "knn?" /\ ~record'.overlapped => \A t \in Searches : ~Gpt!Active(t)
    <3>1. record \in Record
      BY DEF Gpt!TypeOK, Record
    <3>2. label = "knn?" => record' = [record EXCEPT !.overlapped = @ \/ together]
      BY <2>1, <2>5
    <3>3. CASE label = "knn?"
      BY <2>5, <3>1, <3>2, <3>3 DEF Record
    <3>4. CASE label = "refused"
      BY <2>1, <3>1, <3>4
    <3> QED
      BY <3>3, <3>4
  <2>11. Gpt!TypeOK'
    BY <2>3, <2>4, <2>6 DEF OnlyThread, Thread, Steps, Record, Gpt!TypeOK
  <2>12. SearchesInTurn'
    BY <2>3, <2>4, <2>6 DEF OnlyThread, SearchesInTurn, Gpt!Active, Alone
  <2>13. CachesFit'
    BY <2>3, <2>4, <2>6 DEF OnlyThread, CachesFit, SearchesInTurn, Gpt!Active, Alone, Knows, Gpt!Reusable
  <2>14. AnswerHasIds'
    BY <2>3, <2>4, <2>6 DEF OnlyThread, AnswerHasIds, CachesFit, Alone, Knows, Gpt!Reusable
  <2>15. Gpt!SupportAmongShown'
    BY <2>3, <2>4, <2>6 DEF OnlyThread, AnswerHasIds, CachesFit, Alone, Knows, Gpt!Reusable, Gpt!SupportAmongShown
  <2>16. Gpt!RetryAnswers'
    BY <2>3, <2>4, <2>6 DEF OnlyThread, Alone, CachesFit, Gpt!RetryAnswers, Gpt!At
  <2> QED
    BY <2>11, <2>12, <2>13, <2>14, <2>15, <2>16
<1>4. ASSUME NEW s \in Searches, Gpt!CheckKnn(s)
      PROVE  GptInv'
  <2>1. /\ threads[s].at = "knn?" /\ UNCHANGED <<waits, cache, index, record>> /\ record \in Record
    BY <1>4 DEF Gpt!CheckKnn, Gpt!TypeOK, Record, Gpt!At
  <2>2. CASE Gpt!Reusable(cache.knn)
    <3>1. PICK ids \in SUBSET Matching : ids = cache.knn.docs
      BY DEF Gpt!TypeOK, Gpt!Entries
    <3>2. threads' = [threads EXCEPT ![s].at = "get", ![s].hits = ids]
      BY <1>4, <2>2, <3>1 DEF Gpt!CheckKnn
    <3>3. OnlyThread(s) /\ threads'[s].at = "get" /\ threads'[s].hits = ids
      BY <3>2, ThreadHasHits
    <3>11. Gpt!TypeOK'
      BY <2>1, <2>2, <3>1, <3>3 DEF OnlyThread, Thread, Steps, Record, Gpt!TypeOK
    <3>12. SearchesInTurn'
      BY <2>1, <2>2, <3>1, <3>3 DEF OnlyThread, SearchesInTurn, Gpt!Active, Alone
    <3>13. CachesFit'
      BY <2>1, <2>2, <3>1, <3>3 DEF OnlyThread, CachesFit, SearchesInTurn, Gpt!Active, Alone, Knows, Gpt!Reusable
    <3>14. AnswerHasIds'
      BY <2>1, <2>2, <3>1, <3>3 DEF OnlyThread, AnswerHasIds, CachesFit, Alone, Knows, Gpt!Reusable
    <3>15. Gpt!SupportAmongShown'
      BY <2>1, <2>2, <3>1, <3>3 DEF OnlyThread, AnswerHasIds, CachesFit, Alone, Knows, Gpt!Reusable, Gpt!SupportAmongShown
    <3>16. Gpt!RetryAnswers'
      BY <2>1, <2>2, <3>1, <3>3 DEF OnlyThread, Alone, CachesFit, Gpt!RetryAnswers, Gpt!At
    <3> QED
      BY <3>11, <3>12, <3>13, <3>14, <3>15, <3>16
  <2>3. CASE ~Gpt!Reusable(cache.knn)
    <3>1. "knn" \in Steps
      BY DEF Steps
    <3>2. Gpt!GoTo(s, "knn")
      BY <1>4, <2>3 DEF Gpt!CheckKnn, Gpt!GoTo
    <3>3. OnlyThread(s) /\ threads'[s].at = "knn"
      BY <3>1, <3>2, ThreadGoesTo
    <3>11. Gpt!TypeOK'
      BY <2>1, <2>3, <3>3 DEF OnlyThread, Thread, Steps, Record, Gpt!TypeOK
    <3>12. SearchesInTurn'
      BY <2>1, <2>3, <3>3 DEF OnlyThread, SearchesInTurn, Gpt!Active, Alone
    <3>13. CachesFit'
      BY <2>1, <2>3, <3>3 DEF OnlyThread, CachesFit, SearchesInTurn, Gpt!Active, Alone, Knows, Gpt!Reusable
    <3>14. AnswerHasIds'
      BY <2>1, <2>3, <3>3 DEF OnlyThread, AnswerHasIds, CachesFit, Alone, Knows, Gpt!Reusable
    <3>15. Gpt!SupportAmongShown'
      BY <2>1, <2>3, <3>3 DEF OnlyThread, AnswerHasIds, CachesFit, Alone, Knows, Gpt!Reusable, Gpt!SupportAmongShown
    <3>16. Gpt!RetryAnswers'
      BY <2>1, <2>3, <3>3 DEF OnlyThread, Alone, CachesFit, Gpt!RetryAnswers, Gpt!At
    <3> QED
      BY <3>11, <3>12, <3>13, <3>14, <3>15, <3>16
  <2> QED
    BY <2>2, <2>3
<1>5. ASSUME NEW s \in Searches, Gpt!RunKnn(s)
      PROVE  GptInv'
  <2>1. threads[s].at = "knn" /\ UNCHANGED <<waits, index>>
    BY <1>5 DEF Gpt!RunKnn, Gpt!At
  <2>2. ASSUME NEW ids \in (SUBSET index) \ {{}}, cache' = [cache EXCEPT !.knn = Gpt!Found(ids)],
               threads' = [threads EXCEPT ![s].at = "get", ![s].hits = ids], Gpt!NoFault
        PROVE  GptInv'
    <3>1. ids \in SUBSET Matching
      BY DEF Gpt!TypeOK
    <3>2. OnlyThread(s) /\ threads'[s].at = "get" /\ threads'[s].hits = ids
      BY <2>2, <3>1, ThreadHasHits
    <3>3. /\ cache' \in [emb : BOOLEAN, dsl : BOOLEAN, knn : Gpt!Entries, gpt : Gpt!Entries]
          /\ cache'.knn.kind = "docs" /\ cache'.knn.docs = ids /\ cache'.gpt = cache.gpt
      BY <2>2, <3>1 DEF Gpt!TypeOK, Gpt!Entries, Gpt!Found
    <3>8. /\ record' \in Record /\ record'.overlapped = record.overlapped
          /\ record'.expired = record.expired
      BY <2>2, RecordOfFault DEF Gpt!NoFault
    <3>11. Gpt!TypeOK'
      BY <2>1, <2>2, <3>2, <3>3, <3>8 DEF OnlyThread, Thread, Steps, Record, Gpt!TypeOK
    <3>12. SearchesInTurn'
      BY <2>1, <2>2, <3>2, <3>3, <3>8 DEF OnlyThread, SearchesInTurn, Gpt!Active, Alone
    <3>13. CachesFit'
      BY <2>1, <2>2, <3>2, <3>3, <3>8 DEF OnlyThread, CachesFit, SearchesInTurn, Gpt!Active, Alone, Knows, Gpt!Reusable
    <3>14. AnswerHasIds'
      BY <2>1, <2>2, <3>2, <3>3, <3>8 DEF OnlyThread, AnswerHasIds, CachesFit, Alone, Knows, Gpt!Reusable
    <3>15. Gpt!SupportAmongShown'
      BY <2>1, <2>2, <3>2, <3>3, <3>8 DEF OnlyThread, AnswerHasIds, CachesFit, Alone, Knows, Gpt!Reusable, Gpt!SupportAmongShown
    <3>16. Gpt!RetryAnswers'
      BY <2>1, <2>2, <3>2, <3>3, <3>8 DEF OnlyThread, Alone, CachesFit, Gpt!RetryAnswers, Gpt!At
    <3> QED
      BY <3>11, <3>12, <3>13, <3>14, <3>15, <3>16
  <2>3. CASE cache' = [cache EXCEPT !.knn = Gpt!Error] /\ Gpt!GivesUp(s) /\ (Gpt!NoFault \/ Gpt!Fault)
    <3>2. OnlyThread(s) /\ threads'[s].at = "done" /\ threads'[s].error = TRUE
      BY <2>3, ThreadGivesUp
    <3>3. /\ cache' \in [emb : BOOLEAN, dsl : BOOLEAN, knn : Gpt!Entries, gpt : Gpt!Entries]
          /\ cache'.knn.kind = "error" /\ cache'.gpt = cache.gpt
      BY <2>3 DEF Gpt!TypeOK, Gpt!Entries, Gpt!Error
    <3>8. /\ record' \in Record /\ record'.overlapped = record.overlapped
          /\ record'.expired = record.expired
      BY <2>3, RecordOfFault
    <3>11. Gpt!TypeOK'
      BY <2>1, <3>2, <3>3, <3>8 DEF OnlyThread, Thread, Steps, Record, Gpt!TypeOK
    <3>12. SearchesInTurn'
      BY <2>1, <3>2, <3>3, <3>8 DEF OnlyThread, SearchesInTurn, Gpt!Active, Alone
    <3>13. CachesFit'
      BY <2>1, <3>2, <3>3, <3>8 DEF OnlyThread, CachesFit, SearchesInTurn, Gpt!Active, Alone, Knows, Gpt!Reusable
    <3>14. AnswerHasIds'
      BY <2>1, <3>2, <3>3, <3>8 DEF OnlyThread, AnswerHasIds, CachesFit, Alone, Knows, Gpt!Reusable
    <3>15. Gpt!SupportAmongShown'
      BY <2>1, <3>2, <3>3, <3>8 DEF OnlyThread, AnswerHasIds, CachesFit, Alone, Knows, Gpt!Reusable, Gpt!SupportAmongShown
    <3>16. Gpt!RetryAnswers'
      BY <2>1, <3>2, <3>3, <3>8 DEF OnlyThread, Alone, CachesFit, Gpt!RetryAnswers, Gpt!At
    <3> QED
      BY <3>11, <3>12, <3>13, <3>14, <3>15, <3>16
  <2> QED
    BY <1>5, <2>2, <2>3 DEF Gpt!RunKnn
<1>6. ASSUME NEW s \in Searches, Gpt!Get(s)
      PROVE  GptInv'
  <2>1. threads[s].at = "get" /\ UNCHANGED <<waits, cache, index>>
    BY <1>6 DEF Gpt!Get, Gpt!At
  <2>8. /\ record' \in Record /\ record'.overlapped = record.overlapped
        /\ record'.expired = record.expired
    BY <1>6, RecordOfFault DEF Gpt!Get
  <2>2. CASE Gpt!GoTo(s, "gpt?")
    <3>1. "gpt?" \in Steps
      BY DEF Steps
    <3>2. /\ OnlyThread(s) /\ threads'[s].at = "gpt?"
          /\ threads'[s].error = threads[s].error /\ threads'[s].hits = threads[s].hits
      BY <2>2, <3>1, ThreadGoesTo
    <3>11. Gpt!TypeOK'
      BY <2>1, <2>8, <3>2 DEF OnlyThread, Thread, Steps, Record, Gpt!TypeOK
    <3>12. SearchesInTurn'
      BY <2>1, <2>8, <3>2 DEF OnlyThread, SearchesInTurn, Gpt!Active, Alone
    <3>13. CachesFit'
      BY <2>1, <2>8, <3>2 DEF OnlyThread, CachesFit, SearchesInTurn, Gpt!Active, Alone, Knows, Gpt!Reusable
    <3>14. AnswerHasIds'
      BY <2>1, <2>8, <3>2 DEF OnlyThread, AnswerHasIds, CachesFit, Alone, Knows, Gpt!Reusable
    <3>15. Gpt!SupportAmongShown'
      BY <2>1, <2>8, <3>2 DEF OnlyThread, AnswerHasIds, CachesFit, Alone, Knows, Gpt!Reusable, Gpt!SupportAmongShown
    <3>16. Gpt!RetryAnswers'
      BY <2>1, <2>8, <3>2 DEF OnlyThread, Alone, CachesFit, Gpt!RetryAnswers, Gpt!At
    <3> QED
      BY <3>11, <3>12, <3>13, <3>14, <3>15, <3>16
  <2>3. CASE Gpt!GivesUp(s)
    <3>2. OnlyThread(s) /\ threads'[s].at = "done" /\ threads'[s].error = TRUE
      BY <2>3, ThreadGivesUp
    <3>11. Gpt!TypeOK'
      BY <2>1, <2>8, <3>2 DEF OnlyThread, Thread, Steps, Record, Gpt!TypeOK
    <3>12. SearchesInTurn'
      BY <2>1, <2>8, <3>2 DEF OnlyThread, SearchesInTurn, Gpt!Active, Alone
    <3>13. CachesFit'
      BY <2>1, <2>8, <3>2 DEF OnlyThread, CachesFit, SearchesInTurn, Gpt!Active, Alone, Knows, Gpt!Reusable
    <3>14. AnswerHasIds'
      BY <2>1, <2>8, <3>2 DEF OnlyThread, AnswerHasIds, CachesFit, Alone, Knows, Gpt!Reusable
    <3>15. Gpt!SupportAmongShown'
      BY <2>1, <2>8, <3>2 DEF OnlyThread, AnswerHasIds, CachesFit, Alone, Knows, Gpt!Reusable, Gpt!SupportAmongShown
    <3>16. Gpt!RetryAnswers'
      BY <2>1, <2>8, <3>2 DEF OnlyThread, Alone, CachesFit, Gpt!RetryAnswers, Gpt!At
    <3> QED
      BY <3>11, <3>12, <3>13, <3>14, <3>15, <3>16
  <2> QED
    BY <1>6, <2>2, <2>3 DEF Gpt!Get
<1>7. ASSUME NEW s \in Searches, Gpt!CheckGpt(s)
      PROVE  GptInv'
  <2>1. /\ threads[s].at = "gpt?" /\ UNCHANGED <<waits, cache, index, record>> /\ record \in Record
    BY <1>7 DEF Gpt!CheckGpt, Gpt!TypeOK, Record, Gpt!At
  <2>2. PICK label \in {"done", "gpt"} : Gpt!GoTo(s, label) /\ (label = "gpt" <=> cache.gpt.kind # "docs")
    BY <1>7 DEF Gpt!CheckGpt
  <2>3. label \in Steps
    BY DEF Steps
  <2>4. /\ OnlyThread(s) /\ threads'[s].at = label
        /\ threads'[s].error = threads[s].error /\ threads'[s].hits = threads[s].hits
    BY <2>2, <2>3, ThreadGoesTo
  <2>11. Gpt!TypeOK'
    BY <2>1, <2>2, <2>4 DEF OnlyThread, Thread, Steps, Record, Gpt!TypeOK
  <2>12. SearchesInTurn'
    BY <2>1, <2>2, <2>4 DEF OnlyThread, SearchesInTurn, Gpt!Active, Alone
  <2>13. CachesFit'
    BY <2>1, <2>2, <2>4 DEF OnlyThread, CachesFit, SearchesInTurn, Gpt!Active, Alone, Knows, Gpt!Reusable
  <2>14. AnswerHasIds'
    BY <2>1, <2>2, <2>4 DEF OnlyThread, AnswerHasIds, CachesFit, Alone, Knows, Gpt!Reusable
  <2>15. Gpt!SupportAmongShown'
    BY <2>1, <2>2, <2>4 DEF OnlyThread, AnswerHasIds, CachesFit, Alone, Knows, Gpt!Reusable, Gpt!SupportAmongShown
  <2>16. Gpt!RetryAnswers'
    BY <2>1, <2>2, <2>4 DEF OnlyThread, Alone, CachesFit, Gpt!RetryAnswers, Gpt!At
  <2> QED
    BY <2>11, <2>12, <2>13, <2>14, <2>15, <2>16
<1>8. ASSUME NEW s \in Searches, Gpt!RunGpt(s)
      PROVE  GptInv'
  <2>1. threads[s].at = "gpt" /\ UNCHANGED <<waits, index>>
    BY <1>8 DEF Gpt!RunGpt, Gpt!At
  <2>8. /\ record' \in Record /\ record'.overlapped = record.overlapped
        /\ record'.expired = record.expired
    BY <1>8, RecordOfFault DEF Gpt!RunGpt
  <2>2. ASSUME NEW support \in SUBSET threads[s].hits, cache' = [cache EXCEPT !.gpt = Gpt!Found(support)],
               Gpt!GoTo(s, "done")
        PROVE  GptInv'
    <3>1. "done" \in Steps
      BY DEF Steps
    <3>2. /\ OnlyThread(s) /\ threads'[s].at = "done"
          /\ threads'[s].error = threads[s].error /\ threads'[s].hits = threads[s].hits
      BY <2>2, <3>1, ThreadGoesTo
    <3>3. /\ cache' \in [emb : BOOLEAN, dsl : BOOLEAN, knn : Gpt!Entries, gpt : Gpt!Entries]
          /\ cache'.gpt.kind = "docs" /\ cache'.gpt.docs = support /\ cache'.knn = cache.knn
      BY <2>2 DEF Gpt!TypeOK, Gpt!Entries, Gpt!Found
    <3>11. Gpt!TypeOK'
      BY <2>1, <2>8, <3>2, <3>3 DEF OnlyThread, Thread, Steps, Record, Gpt!TypeOK
    <3>12. SearchesInTurn'
      BY <2>1, <2>8, <3>2, <3>3 DEF OnlyThread, SearchesInTurn, Gpt!Active, Alone
    <3>13. CachesFit'
      BY <2>1, <2>8, <3>2, <3>3 DEF OnlyThread, CachesFit, SearchesInTurn, Gpt!Active, Alone, Knows, Gpt!Reusable
    <3>14. AnswerHasIds'
      BY <2>1, <2>8, <3>2, <3>3 DEF OnlyThread, AnswerHasIds, CachesFit, Alone, Knows, Gpt!Reusable
    <3>15. Gpt!SupportAmongShown'
      BY <2>1, <2>8, <3>2, <3>3 DEF OnlyThread, AnswerHasIds, CachesFit, Alone, Knows, Gpt!Reusable, Gpt!SupportAmongShown
    <3>16. Gpt!RetryAnswers'
      BY <2>1, <2>8, <3>2, <3>3 DEF OnlyThread, Alone, CachesFit, Gpt!RetryAnswers, Gpt!At
    <3> QED
      BY <3>11, <3>12, <3>13, <3>14, <3>15, <3>16
  <2>3. CASE cache' \in {cache, [cache EXCEPT !.gpt = Gpt!Error]} /\ Gpt!GivesUp(s)
    <3>2. OnlyThread(s) /\ threads'[s].at = "done" /\ threads'[s].error = TRUE
      BY <2>3, ThreadGivesUp
    <3>3. /\ cache' \in [emb : BOOLEAN, dsl : BOOLEAN, knn : Gpt!Entries, gpt : Gpt!Entries]
          /\ cache'.gpt = cache.gpt \/ cache'.gpt.kind = "error"
          /\ cache'.knn = cache.knn
      <4>1. CASE cache' = cache
        BY <4>1 DEF Gpt!TypeOK
      <4>2. CASE cache' = [cache EXCEPT !.gpt = Gpt!Error]
        BY <4>2 DEF Gpt!TypeOK, Gpt!Entries, Gpt!Error
      <4> QED
        BY <2>3, <4>1, <4>2
    <3>11. Gpt!TypeOK'
      BY <2>1, <2>8, <3>2, <3>3 DEF OnlyThread, Thread, Steps, Record, Gpt!TypeOK
    <3>12. SearchesInTurn'
      BY <2>1, <2>8, <3>2, <3>3 DEF OnlyThread, SearchesInTurn, Gpt!Active, Alone
    <3>13. CachesFit'
      BY <2>1, <2>8, <3>2, <3>3 DEF OnlyThread, CachesFit, SearchesInTurn, Gpt!Active, Alone, Knows, Gpt!Reusable
    <3>14. AnswerHasIds'
      BY <2>1, <2>8, <3>2, <3>3 DEF OnlyThread, AnswerHasIds, CachesFit, Alone, Knows, Gpt!Reusable
    <3>15. Gpt!SupportAmongShown'
      BY <2>1, <2>8, <3>2, <3>3 DEF OnlyThread, AnswerHasIds, CachesFit, Alone, Knows, Gpt!Reusable, Gpt!SupportAmongShown
    <3>16. Gpt!RetryAnswers'
      BY <2>1, <2>8, <3>2, <3>3 DEF OnlyThread, Alone, CachesFit, Gpt!RetryAnswers, Gpt!At
    <3> QED
      BY <3>11, <3>12, <3>13, <3>14, <3>15, <3>16
  <2> QED
    BY <1>8, <2>2, <2>3 DEF Gpt!RunGpt
<1>9. ASSUME NEW s \in Searches, Gpt!KnnResults(s) \/ Gpt!GptAnswer(s)
                                    \/ \E w \in Gpt!Results : Gpt!TimesOut(s, w)
      PROVE  GptInv'
  <2>1. PICK w \in Gpt!Results, what \in {"docs", "nothing", "answer", "error"} : Gpt!Answers(s, w, what)
    BY <1>9 DEF Gpt!KnnResults, Gpt!GptAnswer, Gpt!TimesOut, Gpt!Results
  <2>8. /\ record' \in Record /\ record'.overlapped = record.overlapped
        /\ record'.expired = record.expired
    BY <1>9, RecordOfFault DEF Gpt!KnnResults, Gpt!GptAnswer, Gpt!TimesOut
  <2>2. UNCHANGED <<threads, cache, index>>
    BY <2>1 DEF Gpt!Answers
  <2>3. waits' \in [Searches -> [Gpt!Results -> {"idle", "waiting", "docs", "nothing", "answer", "error"}]]
    BY <2>1 DEF Gpt!Answers, Gpt!TypeOK
  <2>11. Gpt!TypeOK'
    BY <2>2, <2>3, <2>8 DEF OnlyThread, Thread, Steps, Record, Gpt!TypeOK
  <2>12. SearchesInTurn'
    BY <2>2, <2>3, <2>8 DEF OnlyThread, SearchesInTurn, Gpt!Active, Alone
  <2>13. CachesFit'
    BY <2>2, <2>3, <2>8 DEF OnlyThread, CachesFit, SearchesInTurn, Gpt!Active, Alone, Knows, Gpt!Reusable
  <2>14. AnswerHasIds'
    BY <2>2, <2>3, <2>8 DEF OnlyThread, AnswerHasIds, CachesFit, Alone, Knows, Gpt!Reusable
  <2>15. Gpt!SupportAmongShown'
    BY <2>2, <2>3, <2>8 DEF OnlyThread, AnswerHasIds, CachesFit, Alone, Knows, Gpt!Reusable, Gpt!SupportAmongShown
  <2>16. Gpt!RetryAnswers'
    BY <2>2, <2>3, <2>8 DEF OnlyThread, Alone, CachesFit, Gpt!RetryAnswers, Gpt!At
  <2> QED
    BY <2>11, <2>12, <2>13, <2>14, <2>15, <2>16
<1>10. ASSUME NEW w \in Gpt!Results, Gpt!Expire(w)
       PROVE  GptInv'
  <2>1. UNCHANGED <<threads, waits, index>>
    BY <1>10 DEF Gpt!Expire
  <2>2. /\ record' \in Record /\ record'.overlapped = record.overlapped
        /\ record'.expired = record.expired \cup {w}
    <3>1. record \in Record /\ MaxExpiries \in Nat
      BY DEF Gpt!Assumptions, Gpt!TypeOK, Record
    <3> QED
      <4>1. /\ record.expiries < MaxExpiries
            /\ record' = [record EXCEPT !.expiries = @ + 1, !.expired = @ \cup {w}]
        BY <1>10 DEF Gpt!Expire
      <4>2. record' = [expiries |-> record.expiries + 1, faults |-> record.faults,
                       overlapped |-> record.overlapped, expired |-> record.expired \cup {w}]
        BY <3>1, <4>1 DEF Record
      <4>3. record.expiries + 1 \in 0 .. MaxExpiries /\ record.expired \cup {w} \in SUBSET Gpt!Results
        BY <3>1, <4>1 DEF Record
      <4> QED
        BY <3>1, <4>2, <4>3 DEF Record
  <2>3. /\ cache' \in [emb : BOOLEAN, dsl : BOOLEAN, knn : Gpt!Entries, gpt : Gpt!Entries]
        /\ cache'.gpt = IF w = "gpt" THEN Gpt!NoEntry ELSE cache.gpt
        /\ cache'.knn = IF w = "knn" THEN Gpt!NoEntry ELSE cache.knn
    BY <1>10 DEF Gpt!Expire, Gpt!TypeOK, Gpt!Entries, Gpt!NoEntry, Gpt!Results
  <2>4. w = "knn" \/ w = "gpt"
    BY DEF Gpt!Results
  <2>11. Gpt!TypeOK'
    BY <2>1, <2>2, <2>3, <2>4 DEF OnlyThread, Thread, Steps, Record, Gpt!TypeOK, Gpt!NoEntry
  <2>12. SearchesInTurn'
    BY <2>1, <2>2, <2>3, <2>4 DEF OnlyThread, SearchesInTurn, Gpt!Active, Alone
  <2>13. CachesFit'
    BY <2>1, <2>2, <2>3, <2>4 DEF OnlyThread, CachesFit, SearchesInTurn, Gpt!Active, Alone, Knows, Gpt!NoEntry, Gpt!Reusable
  <2>14. AnswerHasIds'
    BY <2>1, <2>2, <2>3, <2>4 DEF OnlyThread, AnswerHasIds, CachesFit, Alone, Knows, Gpt!NoEntry, Gpt!Reusable
  <2>15. Gpt!SupportAmongShown'
    BY <2>1, <2>2, <2>3, <2>4 DEF OnlyThread, AnswerHasIds, CachesFit, Alone, Knows, Gpt!NoEntry, Gpt!Reusable, Gpt!SupportAmongShown
  <2>16. Gpt!RetryAnswers'
    BY <2>1, <2>2, <2>3, <2>4 DEF OnlyThread, Alone, CachesFit, Gpt!NoEntry, Gpt!RetryAnswers, Gpt!At
  <2> QED
    BY <2>11, <2>12, <2>13, <2>14, <2>15, <2>16
<1>11. ASSUME NEW d \in Matching, Gpt!Arrive(d)
       PROVE  GptInv'
  <2>1. UNCHANGED <<threads, waits, cache, record>> /\ index' = index \cup {d} /\ record \in Record
    BY <1>11 DEF Gpt!Arrive, Gpt!TypeOK, Record
  <2>11. Gpt!TypeOK'
    BY <2>1 DEF OnlyThread, Thread, Steps, Record, Gpt!TypeOK
  <2>12. SearchesInTurn'
    BY <2>1 DEF OnlyThread, SearchesInTurn, Gpt!Active, Alone
  <2>13. CachesFit'
    BY <2>1 DEF OnlyThread, CachesFit, SearchesInTurn, Gpt!Active, Alone, Knows, Gpt!Reusable
  <2>14. AnswerHasIds'
    BY <2>1 DEF OnlyThread, AnswerHasIds, CachesFit, Alone, Knows, Gpt!Reusable
  <2>15. Gpt!SupportAmongShown'
    BY <2>1 DEF OnlyThread, AnswerHasIds, CachesFit, Alone, Knows, Gpt!Reusable, Gpt!SupportAmongShown
  <2>16. Gpt!RetryAnswers'
    BY <2>1 DEF OnlyThread, Alone, CachesFit, Gpt!RetryAnswers, Gpt!At
  <2> QED
    BY <2>11, <2>12, <2>13, <2>14, <2>15, <2>16
<1> QED
  BY <1>1, <1>2, <1>3, <1>4, <1>5, <1>6, <1>7, <1>8, <1>9, <1>10, <1>11
     DEF Gpt!Next, Gpt!Server, Gpt!Serve

(* Only an entry that expires takes an answer away.                         *)
LEMMA GptKeepsAnswer ==
  ASSUME Gpt!Assumptions, GptInv, Gpt!Next
  PROVE  Gpt!KeepsAnswer
<1> SUFFICES ASSUME cache.gpt.kind = "docs", cache'.gpt.kind # "docs", ~record.overlapped
             PROVE  record'.expiries # record.expiries
  BY DEF Gpt!KeepsAnswer, GptInv, Gpt!TypeOK
<1>1. PICK w \in Gpt!Results : Gpt!Expire(w)
  <2>1. ASSUME NEW s \in Searches, Gpt!RunGpt(s)
        PROVE  FALSE
    BY <2>1 DEF Gpt!RunGpt, Gpt!At, GptInv, CachesFit, Alone
  <2>2. ASSUME NEW s \in Searches, NEW what \in Gpt!Lookups, Gpt!LookUp(s, what)
        PROVE  FALSE
    BY <2>2 DEF Gpt!LookUp, Gpt!Lookups, GptInv, Gpt!TypeOK
  <2>3. ASSUME NEW s \in Searches, Gpt!RunKnn(s)
        PROVE  FALSE
    BY <2>3 DEF Gpt!RunKnn, GptInv, Gpt!TypeOK
  <2> QED
    BY <2>1, <2>2, <2>3 DEF Gpt!Next, Gpt!Server, Gpt!Serve, Gpt!Start, Gpt!StartThread, Gpt!CheckKnn,
        Gpt!Get, Gpt!CheckGpt, Gpt!KnnResults, Gpt!GptAnswer, Gpt!TimesOut, Gpt!Answers, Gpt!Arrive
<1>2. record \in Record
  BY DEF GptInv, Gpt!TypeOK, Record
<1> QED
  BY <1>1, <1>2 DEF Gpt!Expire, Record

-----------------------------------------------------------------------------
(* Documents with embeddings, that three programs write.                    *)

(* What a program holds is no newer than Jira, also what S3 kept.           *)
NotAhead(docs) == \A d \in DOMAIN docs : docs[d].version <= remote[d]

(* What Jira or the index was asked for is also no older than what is       *)
(* indexed, as long as no other program wrote that document meanwhile.      *)
Fits(docs) ==
  /\ NotAhead(docs)
  /\ \A d \in DOMAIN docs \ overlaps : index[d].version <= docs[d].version

Written(docs) == \A d \in DOMAIN docs : docs[d].version # 0

ReadingsFit == /\ \A d \in Documents : index[d].version <= remote[d]
               /\ NotAhead(worker.docs) /\ Fits(sync.docs) /\ Fits(job.docs) /\ Fits(job.batch)
               /\ Written(worker.docs) /\ Written(job.docs) /\ Written(job.batch)

(* The synchronization has the embeddings in hand that are indexed.         *)
SyncHasVectors ==
  sync.at = "write" =>
    \A d \in DOMAIN sync.docs \ overlaps : sync.docs[d].vector = index[d].vector

(* A program that is idle has nothing in hand; only the job has a batch, of *)
(* other documents than the ones it has yet to look at, and not a full one  *)
(* while it looks.                                                          *)
InHand ==
  /\ worker.at = "idle" => worker = Vectors!Idle
  /\ sync.at = "idle" => sync = Vectors!Idle
  /\ job.at = "idle" => job = Vectors!Idle
  /\ DOMAIN worker.batch = {} /\ DOMAIN sync.batch = {}
  /\ DOMAIN job.docs \cap DOMAIN job.batch = {}
  /\ job.at = "scan" => Vectors!Cardinality(DOMAIN job.batch) < BatchSize

VectorsInv == Vectors!TypeOK /\ ReadingsFit /\ SyncHasVectors /\ InHand

LEMMA SameCardinality ==
  ASSUME NEW S
  PROVE  Vectors!Cardinality(S) = Cardinality(S) /\ Vectors!IsFiniteSet(S) = IsFiniteSet(S)
BY DEF Vectors!Cardinality, Cardinality, Vectors!IsFiniteSet, IsFiniteSet

LEMMA VersionsAreNumbers ==
  ASSUME Vectors!Assumptions
  PROVE  /\ Vectors!Versions \subseteq Nat
         /\ \A d \in Documents : 0 .. LastVersion[d] \subseteq Vectors!Versions
         /\ \A d \in Documents : LastVersion[d] \in Nat
BY DEF Vectors!Versions, Vectors!Assumptions

LEMMA IdleFits ==
  ASSUME Vectors!Assumptions
  PROVE  /\ Vectors!IsProgram(Vectors!Idle)
         /\ DOMAIN Vectors!Idle.docs = {} /\ DOMAIN Vectors!Idle.batch = {}
         /\ Vectors!Idle.docs = Vectors!None /\ DOMAIN Vectors!None = {}
         /\ Vectors!Idle.batch = Vectors!None /\ Vectors!None \in [{} -> Vectors!Stored]
         /\ Vectors!Idle.at = "idle" /\ Vectors!Held(Vectors!Idle) = {}
         /\ Vectors!Cardinality(DOMAIN Vectors!None) < BatchSize
<1>1. DOMAIN Vectors!None = {} /\ Vectors!None \in [{} -> Vectors!Stored]
  BY DEF Vectors!None
<1>2. Vectors!Cardinality({}) = 0
  BY FS_EmptySet, SameCardinality
<1> QED
  BY <1>1, <1>2 DEF Vectors!Idle, Vectors!IsProgram, Vectors!Held, Vectors!Assumptions

LEMMA VectorsStart ==
  ASSUME Vectors!Assumptions, Vectors!Init
  PROVE  VectorsInv
<1>1. Vectors!Nothing \in Vectors!Stored \/ Documents = {}
  BY VersionsAreNumbers DEF Vectors!Nothing, Vectors!Stored
<1>2. Vectors!Cardinality({}) = 0
  BY FS_EmptySet, SameCardinality
<1>3. Vectors!TypeOK
  <2>1. remote \in [Documents -> Vectors!Versions] /\ index \in [Documents -> Vectors!Stored]
    BY <1>1, VersionsAreNumbers DEF Vectors!Init
  <2> QED
    BY <1>2, <2>1, IdleFits DEF Vectors!Init, Vectors!TypeOK, Vectors!Assumptions
<1>4. ReadingsFit /\ SyncHasVectors /\ InHand
  <2>1. worker = Vectors!Idle /\ sync = Vectors!Idle /\ job = Vectors!Idle
    BY DEF Vectors!Init
  <2>2. \A d \in Documents : index[d].version = 0 /\ remote[d] = 0
    BY DEF Vectors!Init, Vectors!Nothing
  <2> QED
    BY <2>1, <2>2, IdleFits DEF ReadingsFit, SyncHasVectors, InHand, Fits, NotAhead, Written
<1> QED
  BY <1>3, <1>4 DEF VectorsInv

(* populate_embedding_vectors and bulk_index_tickets, document by document. *)
LEMMA WorkerEmbeds ==
  ASSUME Vectors!Assumptions, Vectors!TypeOK, Vectors!IndexCrawled
  PROVE  /\ index' \in [Documents -> Vectors!Stored]
         /\ overlaps' = overlaps \cup (DOMAIN worker.docs \cap (Vectors!Held(sync) \cup Vectors!Held(job)))
         /\ faults' \in 0 .. MaxFaults /\ faults' >= faults
         /\ \A d \in Documents \ DOMAIN worker.docs : index'[d] = index[d]
         /\ \A d \in DOMAIN worker.docs :
              /\ index'[d].version = worker.docs[d].version
              /\ index'[d].vector # worker.docs[d].version => faults' > faults
<1>1. PICK failing \in SUBSET DOMAIN worker.docs :
        /\ IF failing = {} THEN UNCHANGED faults ELSE Vectors!Fault
        /\ Vectors!BulkIndex(Vectors!Populated(worker.docs, failing), Vectors!Held(sync) \cup Vectors!Held(job))
  BY DEF Vectors!IndexCrawled, Vectors!EmbedAndIndex
<1>2. worker.docs \in [DOMAIN worker.docs -> Vectors!Stored] /\ DOMAIN worker.docs \subseteq Documents
  BY DEF Vectors!TypeOK, Vectors!IsProgram
<1> DEFINE populated == Vectors!Populated(worker.docs, failing)
<1>3. /\ DOMAIN populated = DOMAIN worker.docs
      /\ \A d \in DOMAIN worker.docs :
           /\ populated[d] \in Vectors!Stored /\ populated[d].version = worker.docs[d].version
           /\ populated[d].vector # worker.docs[d].version => d \in failing
  BY <1>2, VersionsAreNumbers DEF Vectors!Populated, Vectors!Stored
<1>4. /\ index' = [d \in Documents |-> IF d \in DOMAIN populated THEN populated[d] ELSE index[d]]
      /\ overlaps' = overlaps \cup (DOMAIN populated \cap (Vectors!Held(sync) \cup Vectors!Held(job)))
  BY <1>1 DEF Vectors!BulkIndex
<1> HIDE DEF populated
<1>5. faults' \in 0 .. MaxFaults /\ faults' >= faults /\ (failing # {} => faults' > faults)
  BY <1>1 DEF Vectors!Fault, Vectors!TypeOK, Vectors!Assumptions
<1> QED
  BY <1>2, <1>3, <1>4, <1>5 DEF Vectors!TypeOK

LEMMA JobEmbeds ==
  ASSUME Vectors!Assumptions, Vectors!TypeOK, Vectors!JobWrite \/ Vectors!JobEnds
  PROVE  /\ index' \in [Documents -> Vectors!Stored]
         /\ overlaps' = overlaps \cup (DOMAIN job.batch \cap (Vectors!Held(worker) \cup Vectors!Held(sync)))
         /\ faults' \in 0 .. MaxFaults /\ faults' >= faults
         /\ \A d \in Documents \ DOMAIN job.batch : index'[d] = index[d]
         /\ \A d \in DOMAIN job.batch :
              /\ index'[d].version = job.batch[d].version
              /\ index'[d].vector # job.batch[d].version => faults' > faults
<1>1. PICK failing \in SUBSET DOMAIN job.batch :
        /\ IF failing = {} THEN UNCHANGED faults ELSE Vectors!Fault
        /\ Vectors!BulkIndex(Vectors!Populated(job.batch, failing), Vectors!Held(worker) \cup Vectors!Held(sync))
  BY DEF Vectors!JobWrite, Vectors!JobEnds, Vectors!EmbedAndIndex
<1>2. job.batch \in [DOMAIN job.batch -> Vectors!Stored] /\ DOMAIN job.batch \subseteq Documents
  BY DEF Vectors!TypeOK, Vectors!IsProgram
<1> DEFINE populated == Vectors!Populated(job.batch, failing)
<1>3. /\ DOMAIN populated = DOMAIN job.batch
      /\ \A d \in DOMAIN job.batch :
           /\ populated[d] \in Vectors!Stored /\ populated[d].version = job.batch[d].version
           /\ populated[d].vector # job.batch[d].version => d \in failing
  BY <1>2, VersionsAreNumbers DEF Vectors!Populated, Vectors!Stored
<1>4. /\ index' = [d \in Documents |-> IF d \in DOMAIN populated THEN populated[d] ELSE index[d]]
      /\ overlaps' = overlaps \cup (DOMAIN populated \cap (Vectors!Held(worker) \cup Vectors!Held(sync)))
  BY <1>1 DEF Vectors!BulkIndex
<1> HIDE DEF populated
<1>5. faults' \in 0 .. MaxFaults /\ faults' >= faults /\ (failing # {} => faults' > faults)
  BY <1>1 DEF Vectors!Fault, Vectors!TypeOK, Vectors!Assumptions
<1> QED
  BY <1>2, <1>3, <1>4, <1>5 DEF Vectors!TypeOK

(* What is held of the documents that are written: nothing that is idle.    *)
LEMMA HeldDocuments ==
  ASSUME VectorsInv
  PROVE  /\ DOMAIN worker.docs \subseteq Vectors!Held(worker)
         /\ DOMAIN sync.docs \subseteq Vectors!Held(sync)
         /\ DOMAIN job.docs \subseteq Vectors!Held(job) /\ DOMAIN job.batch \subseteq Vectors!Held(job)
         /\ Vectors!Held(worker) \subseteq Documents /\ Vectors!Held(sync) \subseteq Documents
         /\ Vectors!Held(job) \subseteq Documents
BY DEF VectorsInv, InHand, Vectors!Held, Vectors!Idle, Vectors!None, Vectors!TypeOK, Vectors!IsProgram

(* A document without an embedding is a document.                           *)
LEMMA PlainIsStored ==
  ASSUME Vectors!Assumptions, Vectors!TypeOK, NEW e \in Documents, NEW version \in 0 .. remote[e]
  PROVE  Vectors!Plain(version) \in Vectors!Stored /\ Vectors!Plain(version).version = version
<1>1. version \in Vectors!Versions
  <2>1. PICK d \in Documents : remote[e] \in 0 .. LastVersion[d]
    BY DEF Vectors!TypeOK, Vectors!Versions
  <2>2. LastVersion[d] \in Nat
    BY VersionsAreNumbers
  <2>3. version \in 0 .. LastVersion[d]
    BY <2>1, <2>2
  <2> QED
    BY <2>3, VersionsAreNumbers
<1>2. 0 \in 0 .. LastVersion[e]
  BY DEF Vectors!Assumptions
<1>3. 0 \in Vectors!Versions
  BY <1>2 DEF Vectors!Versions
<1> QED
  BY <1>1, <1>3 DEF Vectors!Plain, Vectors!Stored

LEMMA VectorsStep ==
  ASSUME Vectors!Assumptions, VectorsInv, Vectors!Next
  PROVE  VectorsInv'
<1> USE VersionsAreNumbers, IdleFits, HeldDocuments DEF VectorsInv
<1>1. ASSUME NEW d \in Documents, Vectors!Update(d)
      PROVE  VectorsInv'
  <2>1. UNCHANGED <<index, worker, sync, job, faults, overlaps>> /\ fresh' = fresh \cup {d}
    BY <1>1 DEF Vectors!Update
  <2>2. /\ remote' \in [Documents -> Vectors!Versions]
        /\ \A e \in Documents : remote'[e] >= remote[e]
    <3>1. /\ remote \in [Documents -> Vectors!Versions] /\ remote[d] < LastVersion[d]
          /\ remote' = [remote EXCEPT ![d] = remote[d] + 1]
      BY <1>1 DEF Vectors!Update, Vectors!TypeOK
    <3>2. remote[d] \in Nat /\ LastVersion[d] \in Nat
      BY <3>1
    <3>3. remote[d] + 1 \in Vectors!Versions
      BY <3>1, <3>2
    <3>4. \A e \in Documents : remote[e] \in Nat
      BY <3>1
    <3> QED
      BY <3>1, <3>3, <3>4
  <2>3. Vectors!TypeOK'
    BY <2>1, <2>2 DEF Vectors!TypeOK
  <2>4. ReadingsFit'
    <3>1. ASSUME NEW docs, docs \in [DOMAIN docs -> Vectors!Stored], DOMAIN docs \subseteq Documents, NotAhead(docs)
          PROVE  \A e \in DOMAIN docs : docs[e].version <= remote'[e]
      BY <2>2, <3>1 DEF NotAhead, Vectors!TypeOK, Vectors!Stored
    <3> QED
      <4>1. /\ worker.docs \in [DOMAIN worker.docs -> Vectors!Stored] /\ DOMAIN worker.docs \subseteq Documents
            /\ sync.docs \in [DOMAIN sync.docs -> Vectors!Stored] /\ DOMAIN sync.docs \subseteq Documents
            /\ job.docs \in [DOMAIN job.docs -> Vectors!Stored] /\ DOMAIN job.docs \subseteq Documents
            /\ job.batch \in [DOMAIN job.batch -> Vectors!Stored] /\ DOMAIN job.batch \subseteq Documents
        BY DEF Vectors!TypeOK, Vectors!IsProgram
      <4>2. \A e \in Documents : index[e].version <= remote'[e]
        BY <2>2 DEF ReadingsFit, Vectors!TypeOK, Vectors!Stored
      <4>3. /\ \A e \in DOMAIN worker.docs : worker.docs[e].version <= remote'[e]
            /\ \A e \in DOMAIN sync.docs : sync.docs[e].version <= remote'[e]
            /\ \A e \in DOMAIN job.docs : job.docs[e].version <= remote'[e]
            /\ \A e \in DOMAIN job.batch : job.batch[e].version <= remote'[e]
        BY <3>1, <4>1 DEF ReadingsFit, Fits
      <4> QED
        BY <2>1, <4>2, <4>3 DEF ReadingsFit, Fits, NotAhead, Written
  <2> QED
    BY <2>1, <2>3, <2>4 DEF SyncHasVectors, InHand
<1>2. ASSUME NEW d \in Documents, Vectors!HourPasses(d)
      PROVE  VectorsInv'
  BY <1>2 DEF Vectors!HourPasses, Vectors!TypeOK, ReadingsFit, SyncHasVectors, InHand, Fits, NotAhead, Written
<1>3. ASSUME NEW d \in Documents, Vectors!Crawl(d)
      PROVE  VectorsInv'
  <2>1. UNCHANGED <<remote, fresh, index, sync, job, faults, overlaps>> /\ remote[d] # 0
    <3>1. remote[d] \in Nat /\ 1 .. remote[d] # {}
      BY <1>3 DEF Vectors!Crawl, Vectors!TypeOK
    <3> QED
      BY <1>3, <3>1 DEF Vectors!Crawl
  <2>2. /\ worker'.at = "write" /\ worker'.batch = Vectors!None /\ DOMAIN worker'.docs = {d}
        /\ worker'.docs[d].version \in 1 .. remote[d] /\ Vectors!IsProgram(worker)'
    <3>1. PICK version \in 1 .. remote[d] :
            worker' = [at |-> "write", docs |-> [e \in {d} |-> Vectors!Plain(version)],
                       batch |-> Vectors!None]
      BY <1>3 DEF Vectors!Crawl
    <3> DEFINE docs == [e \in {d} |-> Vectors!Plain(version)]
    <3>2. version \in 0 .. remote[d]
      BY DEF Vectors!TypeOK
    <3>3. /\ DOMAIN docs = {d} /\ docs[d].version = version
          /\ docs \in [{d} -> Vectors!Stored]
      BY <3>2, PlainIsStored
    <3>4. worker' = [at |-> "write", docs |-> docs, batch |-> Vectors!None]
      BY <3>1
    <3> HIDE DEF docs
    <3> QED
      BY <3>3, <3>4 DEF Vectors!IsProgram
  <2>3. Vectors!TypeOK'
    BY <2>1, <2>2 DEF Vectors!TypeOK
  <2>4. ReadingsFit'
    BY <2>1, <2>2 DEF ReadingsFit, Fits, NotAhead, Written, Vectors!TypeOK
  <2> QED
    BY <2>1, <2>2, <2>3, <2>4 DEF SyncHasVectors, InHand
<1>4. CASE Vectors!IndexCrawled
  <2>1. UNCHANGED <<remote, fresh, sync, job>> /\ worker' = Vectors!Idle
    BY <1>4 DEF Vectors!IndexCrawled
  <2>2. worker.docs \in [DOMAIN worker.docs -> Vectors!Stored] /\ DOMAIN worker.docs \subseteq Documents
    BY DEF Vectors!TypeOK, Vectors!IsProgram
  <2>3. /\ index' \in [Documents -> Vectors!Stored]
        /\ overlaps' = overlaps \cup (DOMAIN worker.docs \cap (Vectors!Held(sync) \cup Vectors!Held(job)))
        /\ faults' \in 0 .. MaxFaults
        /\ \A d \in Documents \ DOMAIN worker.docs : index'[d] = index[d]
        /\ \A d \in DOMAIN worker.docs : index'[d].version = worker.docs[d].version
    BY <1>4, WorkerEmbeds
  <2>4. Vectors!TypeOK'
    BY <2>1, <2>2, <2>3 DEF Vectors!TypeOK
  <2>5. ReadingsFit'
    BY <2>1, <2>2, <2>3 DEF ReadingsFit, Fits, NotAhead, Written, Vectors!TypeOK
  <2>6. SyncHasVectors'
    BY <2>1, <2>2, <2>3 DEF SyncHasVectors, Vectors!TypeOK, Vectors!IsProgram
  <2> QED
    BY <2>1, <2>4, <2>5, <2>6 DEF InHand
<1>5. CASE Vectors!SyncStart
  <2>1. UNCHANGED <<remote, fresh, index, worker, job, faults, overlaps>>
    BY <1>5 DEF Vectors!SyncStart
  <2>2. /\ sync'.at = "read" /\ sync'.batch = Vectors!None /\ DOMAIN sync'.docs = fresh
        /\ \A d \in fresh : sync'.docs[d].version = remote[d]
        /\ Vectors!IsProgram(sync)'
    <3> DEFINE docs == [e \in fresh |-> Vectors!AsInJira(e)]
    <3>1. sync' = [at |-> "read", docs |-> docs, batch |-> Vectors!None]
      BY <1>5 DEF Vectors!SyncStart
    <3>2. /\ DOMAIN docs = fresh /\ \A d \in fresh : docs[d].version = remote[d]
          /\ docs \in [fresh -> Vectors!Stored] /\ fresh \subseteq Documents
      <4>1. fresh \subseteq Documents /\ \A d \in fresh : remote[d] \in 0 .. remote[d]
        BY DEF Vectors!TypeOK
      <4> QED
        BY <4>1, PlainIsStored DEF Vectors!AsInJira
    <3> HIDE DEF docs
    <3> QED
      BY <3>1, <3>2 DEF Vectors!IsProgram
  <2>3. Vectors!TypeOK'
    BY <2>1, <2>2 DEF Vectors!TypeOK
  <2>4. ReadingsFit'
    BY <2>1, <2>2 DEF ReadingsFit, Fits, NotAhead, Written, Vectors!TypeOK
  <2> QED
    BY <2>1, <2>2, <2>3, <2>4 DEF SyncHasVectors, InHand
<1>6. CASE Vectors!SyncReadIndex
  <2>1. UNCHANGED <<remote, fresh, index, worker, job, faults, overlaps>>
    BY <1>6 DEF Vectors!SyncReadIndex
  <2>2. /\ sync'.at = "write" /\ sync'.batch = Vectors!None /\ DOMAIN sync'.docs = DOMAIN sync.docs
        /\ \A d \in DOMAIN sync.docs : /\ sync'.docs[d].version = sync.docs[d].version
                                       /\ sync'.docs[d].vector = index[d].vector
                                       /\ sync'.docs[d] \in Vectors!Stored
    BY <1>6 DEF Vectors!SyncReadIndex, Vectors!IsProgram, Vectors!Stored, Vectors!TypeOK
  <2>3. Vectors!IsProgram(sync)'
    BY <1>6, <2>2 DEF Vectors!SyncReadIndex, Vectors!IsProgram, Vectors!TypeOK
  <2>4. Vectors!TypeOK'
    BY <2>1, <2>3 DEF Vectors!TypeOK
  <2>5. ReadingsFit'
    BY <2>1, <2>2 DEF ReadingsFit, Fits, NotAhead, Written, Vectors!TypeOK
  <2> QED
    BY <2>1, <2>2, <2>4, <2>5 DEF SyncHasVectors, InHand
<1>7. CASE Vectors!SyncWrite
  <2>1. UNCHANGED <<remote, fresh, worker, job, faults>> /\ sync' = Vectors!Idle
    BY <1>7 DEF Vectors!SyncWrite
  <2>2. sync.docs \in [DOMAIN sync.docs -> Vectors!Stored] /\ DOMAIN sync.docs \subseteq Documents
    BY DEF Vectors!TypeOK, Vectors!IsProgram
  <2>3. /\ index' \in [Documents -> Vectors!Stored]
        /\ overlaps' = overlaps \cup (DOMAIN sync.docs \cap (Vectors!Held(worker) \cup Vectors!Held(job)))
        /\ \A d \in Documents \ DOMAIN sync.docs : index'[d] = index[d]
        /\ \A d \in DOMAIN sync.docs : index'[d] = sync.docs[d]
    BY <1>7, <2>2 DEF Vectors!SyncWrite, Vectors!BulkIndex, Vectors!TypeOK
  <2>4. Vectors!TypeOK'
    BY <2>1, <2>2, <2>3 DEF Vectors!TypeOK
  <2>5. ReadingsFit'
    BY <2>1, <2>2, <2>3 DEF ReadingsFit, Fits, NotAhead, Written, Vectors!TypeOK
  <2> QED
    BY <2>1, <2>4, <2>5 DEF SyncHasVectors, InHand
<1>8. CASE Vectors!JobStart
  <2>1. UNCHANGED <<remote, fresh, index, worker, sync, faults, overlaps>>
    BY <1>8 DEF Vectors!JobStart
  <2>2. /\ job'.at = "scan" /\ job'.batch = Vectors!None /\ DOMAIN job'.docs = Vectors!Indexed
        /\ \A d \in Vectors!Indexed : job'.docs[d] = index[d]
        /\ Vectors!IsProgram(job)' /\ Vectors!Cardinality(DOMAIN job'.batch) <= BatchSize
    <3>1. Vectors!Cardinality(DOMAIN Vectors!None) <= BatchSize
      BY FS_EmptySet, SameCardinality DEF Vectors!Assumptions
    <3> QED
      BY <1>8, <3>1 DEF Vectors!JobStart, Vectors!Restrict, Vectors!Indexed, Vectors!IsProgram, Vectors!TypeOK
  <2>3. Vectors!TypeOK'
    BY <2>1, <2>2 DEF Vectors!TypeOK
  <2>4. ReadingsFit'
    BY <2>1, <2>2 DEF ReadingsFit, Fits, NotAhead, Written, Vectors!TypeOK, Vectors!Indexed, Vectors!Stored
  <2> QED
    BY <2>1, <2>2, <2>3, <2>4 DEF SyncHasVectors, InHand
<1>9. ASSUME NEW d \in DOMAIN job.docs, Vectors!JobScan, NEW taken \in SUBSET {d},
             NEW batch, batch = [e \in DOMAIN job.batch \cup taken |->
                                   IF e = d THEN job.docs[d] ELSE job.batch[e]],
             job' = [at |-> IF Vectors!Cardinality(DOMAIN batch) >= BatchSize THEN "write" ELSE "scan",
                     docs |-> Vectors!Restrict(job.docs, DOMAIN job.docs \ {d}), batch |-> batch]
      PROVE  VectorsInv'
  <2>1. UNCHANGED <<remote, fresh, index, worker, sync, faults, overlaps>> /\ job.at = "scan"
    BY <1>9 DEF Vectors!JobScan
  <2>2. /\ DOMAIN batch = DOMAIN job.batch \cup taken
        /\ \A e \in DOMAIN job.batch : e # d /\ batch[e] = job.batch[e]
        /\ \A e \in taken : e = d /\ batch[e] = job.docs[d]
        /\ DOMAIN batch \subseteq Documents
    BY <1>9 DEF InHand, Vectors!TypeOK, Vectors!IsProgram
  <2>3. /\ DOMAIN job'.docs = DOMAIN job.docs \ {d} /\ job'.batch = batch
        /\ \A e \in DOMAIN job'.docs : job'.docs[e] = job.docs[e]
        /\ job'.at = IF Vectors!Cardinality(DOMAIN batch) >= BatchSize THEN "write" ELSE "scan"
    BY <1>9 DEF Vectors!Restrict
  <2>4. Vectors!IsProgram(job)'
    BY <1>9, <2>2, <2>3 DEF Vectors!IsProgram, Vectors!TypeOK, Vectors!Restrict
  <2>5. /\ Vectors!Cardinality(DOMAIN batch) <= BatchSize
        /\ Vectors!Cardinality(DOMAIN batch) \in Nat
    <3>1. IsFiniteSet(DOMAIN job.batch)
      BY FS_Subset, SameCardinality DEF Vectors!Assumptions, Vectors!TypeOK, Vectors!IsProgram
    <3>2. Cardinality(DOMAIN job.batch) \in Nat /\ Cardinality(DOMAIN job.batch) < BatchSize
      BY <2>1, <3>1, FS_CardinalityType, SameCardinality DEF InHand
    <3>3. CASE taken = {}
      BY <2>2, <3>2, <3>3, SameCardinality DEF Vectors!Assumptions
    <3>4. CASE taken = {d}
      <4>1. Cardinality(DOMAIN job.batch \cup {d}) \in {Cardinality(DOMAIN job.batch), Cardinality(DOMAIN job.batch) + 1}
        BY <3>1, FS_AddElement
      <4> QED
        BY <2>2, <3>2, <3>4, <4>1, SameCardinality DEF Vectors!Assumptions
    <3> QED
      BY <1>9, <3>3, <3>4
  <2>6. Vectors!TypeOK'
    BY <2>1, <2>3, <2>4, <2>5 DEF Vectors!TypeOK
  <2>7. ReadingsFit'
    <3>1. \A e \in DOMAIN batch : \/ (e \in DOMAIN job.batch /\ batch[e] = job.batch[e])
                                  \/ (e \in DOMAIN job.docs /\ batch[e] = job.docs[e])
      BY <1>9, <2>2
    <3>2. Fits(job.docs)' /\ Written(job.docs)'
      BY <2>1, <2>3 DEF ReadingsFit, Fits, NotAhead, Written
    <3>3. Fits(job.batch)' /\ Written(job.batch)'
      BY <2>1, <2>3, <3>1 DEF ReadingsFit, Fits, NotAhead, Written
    <3>4. /\ \A e \in Documents : index'[e].version <= remote'[e]
          /\ NotAhead(worker.docs)' /\ Fits(sync.docs)' /\ Written(worker.docs)'
      BY <2>1 DEF ReadingsFit, Fits, NotAhead, Written
    <3> QED
      BY <3>2, <3>3, <3>4 DEF ReadingsFit
  <2>8. InHand'
    BY <1>9, <2>1, <2>2, <2>3, <2>5 DEF InHand, Vectors!Assumptions
  <2> QED
    BY <2>1, <2>6, <2>7, <2>8 DEF SyncHasVectors
<1>10. CASE Vectors!JobWrite \/ Vectors!JobEnds
  <2>1. UNCHANGED <<remote, fresh, worker, sync>>
    BY <1>10 DEF Vectors!JobWrite, Vectors!JobEnds
  <2>2. job.batch \in [DOMAIN job.batch -> Vectors!Stored] /\ DOMAIN job.batch \subseteq Documents
    BY DEF Vectors!TypeOK, Vectors!IsProgram
  <2>3. /\ index' \in [Documents -> Vectors!Stored]
        /\ overlaps' = overlaps \cup (DOMAIN job.batch \cap (Vectors!Held(worker) \cup Vectors!Held(sync)))
        /\ faults' \in 0 .. MaxFaults
        /\ \A d \in Documents \ DOMAIN job.batch : index'[d] = index[d]
        /\ \A d \in DOMAIN job.batch : index'[d].version = job.batch[d].version
    BY <1>10, JobEmbeds
  <2>4. /\ Vectors!IsProgram(job)' /\ job'.batch = Vectors!None
        /\ job' = Vectors!Idle \/ (job'.at = "scan" /\ job'.docs = job.docs)
        /\ Vectors!Cardinality(DOMAIN job'.batch) <= BatchSize
    <3>1. Vectors!Cardinality(DOMAIN Vectors!None) <= BatchSize
      BY FS_EmptySet, SameCardinality DEF Vectors!Assumptions
    <3> QED
      BY <1>10, <3>1 DEF Vectors!JobWrite, Vectors!JobEnds, Vectors!TypeOK, Vectors!IsProgram
  <2>5. Vectors!TypeOK'
    BY <2>1, <2>2, <2>3, <2>4 DEF Vectors!TypeOK, Vectors!Assumptions
  <2>6. ReadingsFit'
    BY <2>1, <2>2, <2>3, <2>4 DEF ReadingsFit, Fits, NotAhead, Written, InHand, Vectors!TypeOK, Vectors!IsProgram
  <2>7. SyncHasVectors'
    BY <2>1, <2>2, <2>3 DEF SyncHasVectors, Vectors!TypeOK, Vectors!IsProgram
  <2> QED
    BY <2>1, <2>4, <2>5, <2>6, <2>7 DEF InHand
<1>11. CASE Vectors!Interrupted
  <2>1. /\ UNCHANGED <<remote, fresh, index, overlaps>> /\ Vectors!Fault
        /\ worker' \in {worker, Vectors!Idle} /\ sync' \in {sync, Vectors!Idle}
        /\ job' \in {job, Vectors!Idle}
    BY <1>11 DEF Vectors!Interrupted
  <2>2. Vectors!TypeOK'
    <3>1. Vectors!Cardinality(DOMAIN Vectors!Idle.batch) <= BatchSize
      BY FS_EmptySet, SameCardinality DEF Vectors!Assumptions
    <3>2. Vectors!IsProgram(worker)' /\ Vectors!IsProgram(sync)' /\ Vectors!IsProgram(job)'
      BY <2>1 DEF Vectors!TypeOK
    <3>3. Vectors!Cardinality(DOMAIN job'.batch) <= BatchSize
      BY <2>1, <3>1 DEF Vectors!TypeOK
    <3>4. faults' \in 0 .. MaxFaults
      BY <2>1 DEF Vectors!TypeOK, Vectors!Fault, Vectors!Assumptions
    <3> QED
      BY <2>1, <3>2, <3>3, <3>4 DEF Vectors!TypeOK
  <2>3. ReadingsFit'
    BY <2>1 DEF ReadingsFit, Fits, NotAhead, Written
  <2> QED
    BY <2>1, <2>2, <2>3 DEF SyncHasVectors, InHand
<1> QED
  <2>1. CASE Vectors!JobScan
    <3>1. PICK d \in DOMAIN job.docs :
            LET taken == IF job.docs[d].vector = 0 THEN {d} ELSE {}
                batch == [e \in DOMAIN job.batch \cup taken |->
                            IF e = d THEN job.docs[d] ELSE job.batch[e]]
            IN job' = [at |-> IF Vectors!Cardinality(DOMAIN batch) >= BatchSize THEN "write" ELSE "scan",
                       docs |-> Vectors!Restrict(job.docs, DOMAIN job.docs \ {d}), batch |-> batch]
      BY <2>1 DEF Vectors!JobScan
    <3> QED
      BY <1>9, <2>1, <3>1
  <2> QED
    BY <1>1, <1>2, <1>3, <1>4, <1>5, <1>6, <1>7, <1>8, <1>10, <1>11, <2>1
       DEF Vectors!Next, Vectors!Job, Vectors!SyncGoesOn, Vectors!Surroundings

(* A step puts neither, but for the worker's, an older version in the place *)
(* of a document nor, unless the service fails, none in that of an embedding.*)
LEMMA VectorsKeep ==
  ASSUME Vectors!Assumptions, VectorsInv, Vectors!Next
  PROVE  Vectors!KeepsNewest /\ Vectors!KeepsEmbeddings
<1> USE VersionsAreNumbers, HeldDocuments DEF VectorsInv
<1>0. \A d \in Documents : index[d].version \in Nat
  BY DEF Vectors!TypeOK, Vectors!Stored
<1>1. CASE Vectors!IndexCrawled
  <2>1. worker.docs \in [DOMAIN worker.docs -> Vectors!Stored] /\ DOMAIN worker.docs \subseteq Documents
    BY DEF Vectors!TypeOK, Vectors!IsProgram
  <2>2. /\ overlaps \subseteq overlaps' /\ faults' >= faults
        /\ \A d \in Documents \ DOMAIN worker.docs : index'[d] = index[d]
        /\ \A d \in DOMAIN worker.docs : /\ index'[d].version = worker.docs[d].version
                                         /\ index'[d].vector # worker.docs[d].version => faults' > faults
    BY <1>1, WorkerEmbeds
  <2> QED
    <3>1. worker.at = "write" /\ worker' # worker
      BY <1>1, IdleFits DEF Vectors!IndexCrawled
    <3>2. \A d \in DOMAIN worker.docs : worker.docs[d].version # 0
      BY DEF ReadingsFit, Written
    <3> QED
      BY <1>0, <2>1, <2>2, <3>1, <3>2 DEF Vectors!WorkerWrites, Vectors!KeepsNewest, Vectors!KeepsEmbeddings
<1>2. CASE Vectors!SyncWrite
  <2>1. sync.docs \in [DOMAIN sync.docs -> Vectors!Stored] /\ DOMAIN sync.docs \subseteq Documents
    BY DEF Vectors!TypeOK, Vectors!IsProgram
  <2>2. /\ overlaps \subseteq overlaps' /\ sync.at = "write"
        /\ \A d \in Documents \ DOMAIN sync.docs : index'[d] = index[d]
        /\ \A d \in DOMAIN sync.docs : index'[d] = sync.docs[d]
    BY <1>2, <2>1 DEF Vectors!SyncWrite, Vectors!BulkIndex, Vectors!TypeOK
  <2> QED
    <3>1. /\ \A d \in DOMAIN sync.docs : sync.docs[d].version \in Nat
          /\ \A d \in DOMAIN sync.docs \ overlaps : index[d].version <= sync.docs[d].version
      BY <2>1 DEF ReadingsFit, Fits, Vectors!Stored
    <3>2. Vectors!KeepsNewest
      BY <1>0, <2>1, <2>2, <3>1 DEF Vectors!KeepsNewest
    <3> QED
      BY <2>1, <2>2, <3>2 DEF SyncHasVectors, Vectors!KeepsEmbeddings
<1>3. CASE Vectors!JobWrite \/ Vectors!JobEnds
  <2>1. job.batch \in [DOMAIN job.batch -> Vectors!Stored] /\ DOMAIN job.batch \subseteq Documents
    BY DEF Vectors!TypeOK, Vectors!IsProgram
  <2>3. /\ overlaps \subseteq overlaps' /\ faults' >= faults
        /\ \A d \in Documents \ DOMAIN job.batch : index'[d] = index[d]
        /\ \A d \in DOMAIN job.batch : /\ index'[d].version = job.batch[d].version
                                       /\ index'[d].vector # job.batch[d].version => faults' > faults
    BY <1>3, JobEmbeds
  <2> QED
    <3>1. /\ \A d \in DOMAIN job.batch : job.batch[d].version \in Nat
          /\ \A d \in DOMAIN job.batch \ overlaps : index[d].version <= job.batch[d].version
      BY <2>1 DEF ReadingsFit, Fits, Vectors!Stored
    <3>2. Vectors!KeepsNewest
      BY <1>0, <2>1, <2>3, <3>1 DEF Vectors!KeepsNewest
    <3> QED
      BY <2>1, <2>3, <3>2 DEF ReadingsFit, Written, Vectors!KeepsEmbeddings
<1>4. CASE UNCHANGED index
  BY <1>0, <1>4 DEF Vectors!KeepsNewest, Vectors!KeepsEmbeddings
<1> QED
  BY <1>1, <1>2, <1>3, <1>4
     DEF Vectors!Next, Vectors!Job, Vectors!SyncGoesOn, Vectors!Surroundings, Vectors!JobStart,
         Vectors!JobScan, Vectors!SyncStart, Vectors!SyncReadIndex, Vectors!Interrupted,
         Vectors!HourPasses, Vectors!Update, Vectors!Crawl

================================================================================
