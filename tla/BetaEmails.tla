------------------------------ MODULE BetaEmails ------------------------------
(***************************************************************************)
(* send_beta_emails (view/api.py) with the sender it calls                  *)
(* (lib/send_issue_fixed_emails.py): the beta testers whose reports of the  *)
(* day of a spike are about what was fixed get a mail, one a day at most.   *)
(* Who was mailed is kept in an object of S3 per day, which requests read   *)
(* and write as a whole and without a lock.                                 *)
(***************************************************************************)
EXTENDS Naturals, FiniteSets

CONSTANTS
  Requests,   \* calls of the route
  Spike,      \* [Requests -> the spike each is about]
  Testers,    \* the users who sent external reports with the word of a spike
  LastDay,    \* bound on the days
  MaxFaults   \* bound on requests to other services that fail

Assumptions ==
  /\ IsFiniteSet(Requests) /\ DOMAIN Spike = Requests
  /\ LastDay \in Nat \ {0} /\ MaxFaults \in Nat

Spikes == {Spike[r] : r \in Requests}
Days == 1 .. LastDay

VARIABLES
  calls,   \* [Requests -> where each is and what it has read]
  marked,  \* the spikes with an email_sent_date
  sentTo,  \* [Days -> the object beta_feedback_emails/DAY]
  mails,   \* [Requests -> [Testers -> mails sent to each]]
  today,
  faults,
  excuses  \* [raced : spikes two requests looked at before either marked them,
           \*  days : days whose object two requests had in hand at once or that
           \*  could not be read]

vars == <<calls, marked, sentTo, mails, today, faults, excuses>>

Labels == {"idle", "mark", "search", "ask", "merge", "write", "send", "done", "refused", "failed"}

TypeOK ==
  /\ calls \in [Requests -> [at : Labels, day : Days \cup {0}, known : SUBSET Testers,
                             chosen : SUBSET Testers, merged : SUBSET Testers]]
  /\ marked \subseteq Spikes
  /\ sentTo \in [Days -> SUBSET Testers]
  /\ mails \in [Requests -> [Testers -> 0 .. 1]]
  /\ today \in Days /\ faults \in 0 .. MaxFaults
  /\ excuses \in [raced : SUBSET Spikes, days : SUBSET Days]

Init ==
  /\ calls = [r \in Requests |-> [at |-> "idle", day |-> 0, known |-> {}, chosen |-> {},
                                  merged |-> {}]]
  /\ marked = {}
  /\ sentTo = [d \in Days |-> {}]
  /\ mails = [r \in Requests |-> [u \in Testers |-> 0]]
  /\ today = 1
  /\ faults = 0
  /\ excuses = [raced |-> {}, days |-> {}]

At(r, label) == calls[r].at = label
GoTo(r, label) == calls' = [calls EXCEPT ![r].at = label]
Fault == faults < MaxFaults /\ faults' = faults + 1

(* An exception answers 500 and leaves everything else as it is.            *)
Raise(r) ==
  /\ Fault
  /\ GoTo(r, "failed")
  /\ UNCHANGED <<marked, sentTo, mails, today, excuses>>

(* A mistake: the mark is not looked at.                                    *)
Check_Unchecked(r) ==
  /\ At(r, "idle")
  /\ GoTo(r, "mark")
  /\ excuses' = [excuses EXCEPT !.raced =
                   IF \E other \in Requests : At(other, "mark") /\ Spike[other] = Spike[r]
                   THEN @ \cup {Spike[r]} ELSE @]
  /\ UNCHANGED <<marked, sentTo, mails, today, faults>>

(* send_beta_emails: the spike must not be marked yet ...                   *)
Check(r) ==
  /\ At(r, "idle")
  /\ IF Spike[r] \in marked THEN GoTo(r, "refused") ELSE GoTo(r, "mark")
  /\ excuses' = [excuses EXCEPT !.raced =
                   IF \E other \in Requests : At(other, "mark") /\ Spike[other] = Spike[r]
                   THEN @ \cup {Spike[r]} ELSE @]
  /\ UNCHANGED <<marked, sentTo, mails, today, faults>>

(* ... and is marked before anything is sent.  The update may take place    *)
(* and be answered with an error.                                           *)
Mark(r) ==
  /\ At(r, "mark")
  /\ \/ GoTo(r, "search") /\ UNCHANGED faults
     \/ GoTo(r, "failed") /\ Fault
  /\ marked' = marked \cup {Spike[r]}
  /\ UNCHANGED <<sentTo, mails, today, excuses>>

(* The requests that have the object of a day in hand: it was read and not  *)
(* yet written.                                                             *)
InHand(d) == {r \in Requests : calls[r].day = d /\ calls[r].at \in {"ask", "merge", "write"}}

(* get_user_ids_sent_to: any failure to read is taken for no one.           *)
Search(r) ==
  /\ At(r, "search")
  /\ \/ /\ calls' = [calls EXCEPT ![r].at = "ask", ![r].day = today, ![r].known = sentTo[today]]
        /\ excuses' = [excuses EXCEPT !.days = IF InHand(today) # {} THEN @ \cup {today} ELSE @]
        /\ UNCHANGED faults
     \/ /\ Fault
        /\ calls' = [calls EXCEPT ![r].at = "ask", ![r].day = today]
        /\ excuses' = [excuses EXCEPT !.days = @ \cup {today}]
  /\ UNCHANGED <<marked, sentTo, mails, today>>

(* send_issue_fixed_emails: GPT picks those whose report is about the fix.  *)
Ask(r) ==
  /\ At(r, "ask")
  /\ \E chosen \in SUBSET (Testers \ calls[r].known) :
       calls' = [calls EXCEPT ![r].at = "merge", ![r].chosen = chosen]
  /\ UNCHANGED <<marked, sentTo, mails, today, faults, excuses>>

(* update_user_ids_sent_to reads the object once more ...                   *)
Merge(r) ==
  /\ At(r, "merge")
  /\ calls' = [calls EXCEPT ![r].at = "write",
                            ![r].merged = sentTo[calls[r].day] \cup calls[r].chosen]
  /\ UNCHANGED <<marked, sentTo, mails, today, faults, excuses>>

(* ... and writes it.                                                       *)
Write(r) ==
  /\ At(r, "write")
  /\ sentTo' = [sentTo EXCEPT ![calls[r].day] = calls[r].merged]
  /\ GoTo(r, "send")
  /\ UNCHANGED <<marked, mails, today, faults, excuses>>

(* The mails are sent one by one, the four of the team last.                *)
Send(r) ==
  /\ At(r, "send")
  /\ \/ \E u \in {v \in calls[r].chosen : mails[r][v] = 0} :
          mails' = [mails EXCEPT ![r][u] = @ + 1] /\ UNCHANGED calls
     \/ /\ \A u \in calls[r].chosen : mails[r][u] > 0
        /\ GoTo(r, "done") /\ UNCHANGED mails
  /\ UNCHANGED <<marked, sentTo, today, faults, excuses>>

Fails(r) == calls[r].at \in {"mark", "search", "ask", "merge", "write", "send"} /\ Raise(r)

Serve(r) == Check(r) \/ Mark(r) \/ Search(r) \/ Ask(r) \/ Merge(r) \/ Write(r) \/ Send(r)

NextDay ==
  /\ today < LastDay
  /\ today' = today + 1
  /\ UNCHANGED <<calls, marked, sentTo, mails, faults, excuses>>

Next == NextDay \/ \E r \in Requests : Serve(r) \/ Fails(r)

-----------------------------------------------------------------------------
(* Nobody gets two mails about one spike, although a request that failed    *)
(* half way may be made again, unless two requests passed the check         *)
(* together (send_beta_emails).                                             *)
OneMailPerSpike ==
  \A s \in Spikes \ excuses.raced : \A u \in Testers :
    Cardinality({r \in Requests : Spike[r] = s /\ mails[r][u] > 0}) <= 1

(* Nobody gets two mails of one day, whatever failed, unless two requests   *)
(* had the object of the day in hand at once or it could not be read        *)
(* (get_user_ids_sent_to, update_user_ids_sent_to).                         *)
OneMailPerDay ==
  \A d \in Days \ excuses.days : \A u \in Testers :
    Cardinality({r \in Requests : calls[r].day = d /\ mails[r][u] > 0}) <= 1

(* A request that was answered with a number has mailed everyone it chose,  *)
(* and the object of its day names them all unless another request wrote it *)
(* in between (send_issue_fixed_emails).                                    *)
AnsweredIsSent ==
  \A r \in Requests : At(r, "done") =>
    /\ \A u \in calls[r].chosen : mails[r][u] = 1
    /\ calls[r].day \notin excuses.days => calls[r].chosen \subseteq sentTo[calls[r].day]
=============================================================================
