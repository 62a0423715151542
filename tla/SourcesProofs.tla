----------------------------- MODULE SourcesProofs -----------------------------
(***************************************************************************)
(* What the updates of the data sources keep, for any number of issues,    *)
(* posts, reviews and days, any size of page and any number of failures.   *)
(***************************************************************************)
EXTENDS Sources, FiniteSetTheorems, TLAPS

(* The modules of the sources count with the same operator.                 *)
LEMMA SameCardinality ==
  ASSUME NEW S
  PROVE  /\ J!Cardinality(S) = Cardinality(S)
         /\ R!Cardinality(S) = Cardinality(S)
         /\ A!Cardinality(S) = Cardinality(S)
         /\ Z!Cardinality(S) = Cardinality(S)
         /\ J!IsFiniteSet(S) = IsFiniteSet(S)
         /\ Z!IsFiniteSet(S) = IsFiniteSet(S)
BY DEF J!Cardinality, R!Cardinality, A!Cardinality, Z!Cardinality, Cardinality,
       J!IsFiniteSet, Z!IsFiniteSet, IsFiniteSet

-----------------------------------------------------------------------------
(* Appfigures.                                                              *)

(* A page goes on where the stored reviews end, up to m; but for the last   *)
(* one it is full, and there is more; the last one ends with the day,       *)
(* unless it is today.                                                      *)
Follows(u, stored, m) ==
  LET written == remote[u.day].written
  IN /\ stored <= m /\ m <= written
     /\ u.page = (stored + 1) .. m
     /\ u.number # u.pages => m = PageSize * u.number /\ m < written
     /\ excuses = {} /\ u.day < u.until /\ u.number = u.pages => m = written

PageFollows(u) ==
  \E stored, m \in 0 .. MaxReviews : s3[u.day] = 1 .. stored /\ Follows(u, stored, m)

Prefixes ==
  \A d \in A!Days :
    /\ remote[d].gone = {}
    /\ \E n \in 0 .. MaxReviews : n <= remote[d].written /\ s3[d] = 1 .. n

InBounds ==
  run.newest = checkpoint /\ checkpoint <= run.day /\ run.day <= run.until /\ run.until <= clock

Complete(until) == \A d \in A!Days : d < until => A!Listed(d) \subseteq s3[d]

AppfiguresInv ==
  /\ A!TypeOK
  /\ run # A!Idle => InBounds
  /\ "gone" \notin excuses =>
       /\ Prefixes
       /\ run.pc = "store" => PageFollows(run) /\ (run.page = {} => run.number # run.pages)
  /\ excuses = {} => Complete(checkpoint) /\ (run # A!Idle => Complete(run.day))

LEMMA DivisionBounds ==
  ASSUME NEW p \in Nat \ {0}, NEW n \in Nat
  PROVE  n \div p \in Nat /\ p * (n \div p) <= n /\ n < p * (n \div p) + p
OBVIOUS

LEMMA Monotone ==
  ASSUME NEW p \in Nat, NEW a \in Nat, NEW b \in Nat, a <= b
  PROVE  p * a <= p * b /\ p * a \in Nat /\ p * b \in Nat
OBVIOUS

(* The last page is the one the listing of w reviews ends in.               *)
LEMMA PagesBounds ==
  ASSUME NEW p \in Nat \ {0}, NEW w \in Nat, NEW q \in Nat, NEW pages,
         pages = (w + p - 1) \div p, p * q < w
  PROVE  /\ pages \in Nat
         /\ q + 1 = pages => w <= p * q + p
         /\ q + 1 # pages => p * q + p < w
<1>1. w + p - 1 \in Nat
  OBVIOUS
<1>2. pages \in Nat /\ p * pages <= w + p - 1 /\ w + p - 1 < p * pages + p
  BY <1>1, DivisionBounds
<1>3. p * q \in Nat /\ p * pages \in Nat /\ p * (q + 1) = p * q + p
  BY <1>2
<1>4. q < pages
  <2> SUFFICES ASSUME pages <= q PROVE FALSE
    BY <1>2
  <2>1. p * pages <= p * q
    BY <1>2, Monotone
  <2> QED
    BY <1>2, <1>3, <2>1
<1>5. CASE q + 1 = pages
  BY <1>2, <1>3, <1>5
<1>6. CASE q + 1 # pages
  <2>1. q + 2 <= pages
    BY <1>2, <1>4, <1>6
  <2>2. p * (q + 2) <= p * pages /\ p * (q + 2) = p * q + p + p
    BY <1>2, <2>1, Monotone
  <2> QED
    BY <1>2, <1>3, <1>6, <2>2
<1> QED
  BY <1>2, <1>5, <1>6

LEMMA NumberedListing ==
  ASSUME A!Assumptions, A!TypeOK, NEW d \in A!Days, remote[d].gone = {}
  PROVE  /\ remote[d].written \in 0 .. MaxReviews
         /\ A!Listed(d) = 1 .. remote[d].written
         /\ A!Total(d) = remote[d].written
         /\ \A r \in A!Listed(d) : A!Place(d, r) = r
<1>1. remote[d].written \in 0 .. MaxReviews
  BY DEF A!TypeOK
<1>2. A!Listed(d) = 1 .. remote[d].written
  BY DEF A!Listed
<1>3. A!Total(d) = remote[d].written
  BY <1>1, <1>2, SameCardinality, FS_Interval DEF A!Total, A!Assumptions
<1>4. ASSUME NEW r \in A!Listed(d)
      PROVE  A!Place(d, r) = r
  <2>1. r \in Nat /\ r > 0 /\ r <= remote[d].written
    BY <1>1, <1>2 DEF A!Assumptions
  <2>2. {k \in A!Listed(d) : k <= r} = 1 .. r
    BY <1>1, <1>2, <2>1 DEF A!Assumptions
  <2>3. Cardinality(1 .. r) = r
    BY <2>1, FS_Interval
  <2> QED
    BY <2>2, <2>3, SameCardinality DEF A!Place
<1> QED
  BY <1>1, <1>2, <1>3, <1>4

LEMMA Counts ==
  ASSUME A!Assumptions, A!TypeOK, NEW d \in A!Days
  PROVE  /\ A!Stored(d) \in Nat /\ A!Total(d) \in Nat /\ A!PageCount(d) \in Nat
         /\ \A n \in Nat : s3[d] = 1 .. n => A!Stored(d) = n
<1>1. IsFiniteSet(1 .. MaxReviews) /\ s3[d] \subseteq 1 .. MaxReviews /\ A!Listed(d) \subseteq 1 .. MaxReviews
  <2>1. IsFiniteSet(1 .. MaxReviews)
    BY FS_Interval DEF A!Assumptions
  <2>2. remote[d].written \in 0 .. MaxReviews /\ s3[d] \subseteq 1 .. MaxReviews
    BY DEF A!TypeOK
  <2> QED
    BY <2>1, <2>2 DEF A!Listed, A!Assumptions
<1>2. A!Stored(d) \in Nat /\ A!Total(d) \in Nat
  <2>1. IsFiniteSet(s3[d]) /\ IsFiniteSet(A!Listed(d))
    BY <1>1, FS_Subset
  <2>2. Cardinality(s3[d]) \in Nat /\ Cardinality(A!Listed(d)) \in Nat
    BY <2>1, FS_CardinalityType
  <2> QED
    BY <2>2, SameCardinality DEF A!Stored, A!Total
<1>3. A!PageCount(d) \in Nat
  <2>1. A!Total(d) + PageSize - 1 \in Nat
    BY <1>2 DEF A!Assumptions
  <2> QED
    BY <2>1, DivisionBounds DEF A!PageCount, A!Assumptions
<1>4. \A n \in Nat : s3[d] = 1 .. n => A!Stored(d) = n
  BY SameCardinality, FS_Interval DEF A!Stored
<1> QED
  BY <1>2, <1>3, <1>4

(* The answer to a request for the page after q full ones.                  *)
LEMMA AnswerFollows ==
  ASSUME A!Assumptions, A!TypeOK, NEW d \in A!Days, remote[d].gone = {},
         NEW q \in Nat, NEW n \in Nat, PageSize * q <= n, n < PageSize * q + PageSize,
         n < remote[d].written,
         NEW u, u.day = d, u.number = q + 1, u.pages = A!PageCount(d),
         u.page = A!Places(d, n + 1, (q + 1) * PageSize)
  PROVE  \E m \in 0 .. MaxReviews : Follows(u, n, m)
<1> DEFINE w == remote[d].written
           full == PageSize * q + PageSize
           m == IF w <= full THEN w ELSE full
<1>1. /\ w \in 0 .. MaxReviews /\ PageSize \in Nat \ {0} /\ MaxReviews \in Nat
      /\ PageSize * q \in Nat /\ (q + 1) * PageSize = full /\ PageSize * (q + 1) = full
  <2>1. w \in 0 .. MaxReviews /\ PageSize \in Nat \ {0} /\ MaxReviews \in Nat
    BY NumberedListing DEF A!Assumptions
  <2> QED
    BY <2>1
<1>2. A!PageCount(d) = (w + PageSize - 1) \div PageSize
  BY NumberedListing DEF A!PageCount
<1>3. /\ q + 1 = u.pages => w <= full
      /\ q + 1 # u.pages => full < w
  <2>1. PageSize * q < w /\ full = PageSize * q + PageSize
    BY <1>1
  <2>2. u.pages = (w + PageSize - 1) \div PageSize /\ w \in Nat
    BY <1>1, <1>2
  <2> HIDE DEF w, full
  <2> QED
    BY <1>1, <2>1, <2>2, PagesBounds
<1>4. A!Places(d, n + 1, full) = (n + 1) .. m
  <2>1. A!Places(d, n + 1, full) = {r \in 1 .. w : r \in (n + 1) .. full}
    BY NumberedListing DEF A!Places
  <2>2. w \in Nat /\ full \in Nat /\ n + 1 \in Nat /\ n + 1 > 0
    BY <1>1
  <2> HIDE DEF w, full
  <2>3. CASE w <= full
    <3>1. {r \in 1 .. w : r \in (n + 1) .. full} = (n + 1) .. w
      BY <2>2, <2>3
    <3> QED
      BY <2>1, <2>3, <3>1
  <2>4. CASE ~(w <= full)
    <3>1. {r \in 1 .. w : r \in (n + 1) .. full} = (n + 1) .. full
      BY <2>2, <2>4
    <3> QED
      BY <2>1, <2>4, <3>1
  <2> QED
    BY <2>3, <2>4
<1>5. m \in 0 .. MaxReviews /\ n <= m /\ m <= w
  BY <1>1
<1>6. u.number # u.pages => m = PageSize * u.number /\ m < w
  BY <1>1, <1>3
<1>7. u.number = u.pages => m = w
  BY <1>3
<1> HIDE DEF m
<1> QED
  BY <1>1, <1>4, <1>5, <1>6, <1>7 DEF Follows

LEMMA AppfiguresStart ==
  ASSUME A!Assumptions, A!Init
  PROVE  AppfiguresInv
<1> USE DEF A!Init
<1>1. A!TypeOK
  BY DEF A!Assumptions, A!TypeOK, A!Days
<1>2. Prefixes
  BY DEF A!Assumptions, Prefixes, A!Days
<1>3. Complete(checkpoint)
  BY DEF Complete, A!Listed
<1> QED
  BY <1>1, <1>2, <1>3 DEF AppfiguresInv, A!Idle

(* What is left of an update while it goes on with the same day, or leaves  *)
(* it: the reviews stored, and the checkpoint, may have moved.              *)
Onward(u) ==
  /\ u \in A!Updating /\ u.day = run.day /\ u.until = run.until
  /\ checkpoint' \in {checkpoint, run.day} /\ u.newest = checkpoint'
  /\ remote' = remote /\ clock' = clock /\ faults' \in 0 .. MaxFaults
  /\ excuses \subseteq excuses' /\ excuses' \subseteq {"failed", "gone", "late", "limit"}
  /\ s3' \in [A!Days -> SUBSET (1 .. MaxReviews)]
  /\ \A d \in A!Days : s3[d] \subseteq s3'[d]
  /\ "gone" \notin excuses' => Prefixes'

LEMMA AppfiguresBusy ==
  ASSUME A!Assumptions, AppfiguresInv, run.pc # "idle"
  PROVE  /\ run \in A!Updating /\ run # A!Idle /\ InBounds
         /\ checkpoint \in A!Days /\ run.day \in A!Days /\ run.until \in A!Days /\ clock \in A!Days
         /\ excuses = {} => Complete(run.day)
BY DEF AppfiguresInv, A!TypeOK, A!Updating, A!Idle, A!Days, A!Assumptions

WithDate(u, day) == [u EXCEPT !.pc = "day", !.day = day, !.page = {}, !.number = 0, !.pages = 0]
WithPage(u, page, number, pages) ==
  [u EXCEPT !.page = page, !.number = number, !.pages = pages]

LEMMA NextDate ==
  ASSUME NEW u \in A!Updating, NEW day \in A!Days
  PROVE  LET v == WithDate(u, day)
         IN /\ v \in A!Updating
            /\ v.pc = "day" /\ v.day = day /\ v.until = u.until /\ v.newest = u.newest
<1>1. WithDate(u, day) \in A!Updating
  BY DEF A!Updating, WithDate
<1> QED
  BY <1>1 DEF A!Updating, WithDate

LEMMA NewPage ==
  ASSUME NEW u \in A!Updating, NEW page \in SUBSET (1 .. MaxReviews),
         NEW number \in Nat, NEW pages \in Nat
  PROVE  LET v == WithPage(u, page, number, pages)
         IN /\ v \in A!Updating
            /\ v.day = u.day /\ v.until = u.until /\ v.newest = u.newest
            /\ v.page = page /\ v.number = number /\ v.pages = pages
<1>1. WithPage(u, page, number, pages) \in A!Updating
  BY DEF A!Updating, WithPage
<1> QED
  BY <1>1 DEF A!Updating, WithPage

LEMMA PageAfter ==
  ASSUME NEW d, NEW q \in Nat
  PROVE  A!Page(d, q + 1) = A!Places(d, q * PageSize + 1, (q + 1) * PageSize)
<1> DEFINE number == q + 1
<1>1. number - 1 = q
  OBVIOUS
<1> HIDE DEF number
<1>2. A!Page(d, number) = A!Places(d, (number - 1) * PageSize + 1, number * PageSize)
  BY DEF A!Page
<1>3. A!Page(d, number) = A!Places(d, q * PageSize + 1, number * PageSize)
  BY <1>1, <1>2
<1> QED
  BY <1>3 DEF number

LEMMA Leaving ==
  ASSUME A!Assumptions, AppfiguresInv, run.pc # "idle", NEW u, Onward(u),
         run' = A!Leave(u),
         excuses' = {} /\ run.day < run.until => A!Listed(run.day) \subseteq s3'[run.day]
  PROVE  AppfiguresInv'
<1>1. /\ run \in A!Updating /\ InBounds /\ (excuses = {} => Complete(run.day))
      /\ run.day \in A!Days /\ run.until \in A!Days /\ clock \in A!Days /\ checkpoint \in A!Days
  BY AppfiguresBusy
<1>2. \A d \in A!Days : A!Listed(d)' = A!Listed(d)
  BY DEF Onward, A!Listed
<1>3. checkpoint' \in 1 .. clock /\ checkpoint' <= run.day
  BY <1>1 DEF Onward, InBounds, A!Days, A!Assumptions
<1>4. ASSUME excuses' = {}
      PROVE  Complete(checkpoint)' /\ \A d \in A!Days : d < run.day => A!Listed(d)' \subseteq s3'[d]
  <2>1. \A d \in A!Days : d < run.day => A!Listed(d)' \subseteq s3'[d]
    BY <1>1, <1>2, <1>4 DEF Onward, Complete
  <2>2. \A d \in A!Days : d < checkpoint' => d < run.day
    BY <1>1, <1>3 DEF A!Days, A!Assumptions
  <2> QED
    BY <2>1, <2>2 DEF Complete
<1>5. CASE run.day = run.until
  <2>1. run' = A!Idle
    BY <1>5 DEF A!Leave, Onward
  <2> QED
    BY <1>3, <1>4, <2>1 DEF AppfiguresInv, A!TypeOK, A!Idle, Onward
<1>6. CASE run.day # run.until
  <2>1. run' = [u EXCEPT !.pc = "day", !.day = run.day + 1, !.page = {}, !.number = 0, !.pages = 0]
    BY <1>6 DEF A!Leave, Onward
  <2>2. run.day < run.until /\ run.day + 1 \in A!Days
    BY <1>1, <1>6 DEF InBounds, A!Days, A!Assumptions
  <2>3. /\ run' \in A!Updating /\ run'.pc = "day" /\ run'.day = run.day + 1
        /\ run'.until = run.until /\ run'.newest = checkpoint'
    <3>1. u \in A!Updating /\ u.until = run.until /\ u.newest = checkpoint'
      BY DEF Onward
    <3> DEFINE day == run.day + 1
    <3>2. day \in A!Days /\ run' = WithDate(u, day)
      BY <2>1, <2>2 DEF WithDate
    <3> HIDE DEF day
    <3>3. /\ run' \in A!Updating
          /\ run'.pc = "day" /\ run'.day = day /\ run'.until = u.until /\ run'.newest = u.newest
      BY <3>1, <3>2, NextDate
    <3> QED
      BY <3>1, <3>3 DEF day
  <2>4. InBounds'
    BY <1>1, <1>3, <2>2, <2>3 DEF InBounds, Onward, A!Days, A!Assumptions
  <2>5. ASSUME excuses' = {}
        PROVE  Complete(run.day)'
    <3>1. \A d \in A!Days : d < run'.day => d < run.day \/ d = run.day
      BY <1>1, <2>3 DEF A!Days, A!Assumptions
    <3> QED
      BY <1>1, <1>2, <1>4, <2>2, <2>5, <3>1 DEF Complete
  <2> QED
    BY <1>3, <1>4, <2>3, <2>4, <2>5 DEF AppfiguresInv, A!TypeOK, Onward
<1> QED
  BY <1>5, <1>6

LEMMA GoingOn ==
  ASSUME A!Assumptions, AppfiguresInv, run.pc # "idle", NEW u, Onward(u),
         run' = A!Read(u), UNCHANGED excuses,
         "gone" \notin excuses =>
           \E stored, m \in 0 .. MaxReviews : s3'[u.day] = 1 .. stored /\ Follows(u, stored, m)
  PROVE  AppfiguresInv'
<1>1. /\ run \in A!Updating /\ InBounds /\ (excuses = {} => Complete(run.day))
      /\ run.day \in A!Days /\ run.until \in A!Days /\ clock \in A!Days /\ checkpoint \in A!Days
  BY AppfiguresBusy
<1>2. CASE u.page # {} \/ u.number # u.pages
  <2>1. run' = [u EXCEPT !.pc = "store"]
    BY <1>2 DEF A!Read
  <2>2. /\ run' \in A!Updating /\ run'.pc = "store" /\ run'.day = u.day /\ run'.page = u.page
        /\ run'.number = u.number /\ run'.pages = u.pages /\ run'.until = u.until /\ run'.newest = u.newest
    BY <2>1 DEF A!Updating, Onward
  <2>3. "gone" \notin excuses => PageFollows(run)' /\ (run'.page = {} => run'.number # run'.pages)
    BY <1>2, <2>2 DEF PageFollows, Follows, Onward
  <2>4. InBounds'
    BY <1>1, <2>2 DEF InBounds, Onward, A!Days, A!Assumptions
  <2>5. checkpoint' \in 1 .. clock
    BY <1>1 DEF Onward, InBounds, A!Days, A!Assumptions
  <2>6. ASSUME excuses = {}
        PROVE  Complete(checkpoint)' /\ Complete(run.day)'
    <3>1. \A d \in A!Days : A!Listed(d)' = A!Listed(d)
      BY DEF Onward, A!Listed
    <3>2. run'.day = run.day /\ \A d \in A!Days : d < checkpoint' => d < run.day
      BY <1>1, <2>2 DEF Onward, InBounds, A!Days, A!Assumptions
    <3> QED
      BY <1>1, <2>6, <3>1, <3>2 DEF Complete, Onward
  <2> QED
    BY <2>2, <2>3, <2>4, <2>5, <2>6 DEF AppfiguresInv, A!TypeOK, Onward
<1>3. CASE u.page = {} /\ u.number = u.pages
  <2>1. run' = A!Leave(u)
    BY <1>3 DEF A!Read
  <2>2. ASSUME excuses' = {}, run.day < run.until
        PROVE  A!Listed(run.day) \subseteq s3'[run.day]
    <3>1. PICK stored \in 0 .. MaxReviews, m \in 0 .. MaxReviews :
            s3'[run.day] = 1 .. stored /\ Follows(u, stored, m)
      BY <2>2 DEF Onward
    <3>2. m = remote[run.day].written /\ stored <= m /\ (stored + 1) .. m = {}
      BY <1>3, <2>2, <3>1 DEF Follows, Onward
    <3>3. stored = m
      BY <3>1, <3>2 DEF A!Assumptions
    <3> QED
      BY <3>1, <3>2, <3>3 DEF A!Listed
  <2> QED
    BY <2>1, <2>2, Leaving
<1> QED
  BY <1>2, <1>3

LEMMA AppfiguresStep ==
  ASSUME A!Assumptions, AppfiguresInv, A!Next
  PROVE  AppfiguresInv'
<1>1. CASE A!Start
  <2>1. /\ run' = [pc |-> "day", newest |-> checkpoint, day |-> checkpoint, until |-> clock,
                   page |-> {}, number |-> 0, pages |-> 0]
        /\ UNCHANGED <<remote, clock, s3, checkpoint, faults, excuses>>
    BY <1>1 DEF A!Start
  <2>2. checkpoint \in A!Days /\ clock \in A!Days /\ checkpoint <= clock
    BY DEF AppfiguresInv, A!TypeOK, A!Days, A!Assumptions
  <2>3. run' \in A!Updating
    BY <2>1, <2>2 DEF A!Updating
  <2>4. InBounds'
    BY <2>1, <2>2 DEF InBounds, A!Days, A!Assumptions
  <2> QED
    BY <2>1, <2>3, <2>4 DEF AppfiguresInv, A!TypeOK, Prefixes, Complete, A!Listed
<1>2. CASE A!FirstPage
  <2> DEFINE d == run.day
             start == 1 + A!Stored(d) \div PageSize
             u == [run EXCEPT !.page = A!Places(d, A!Stored(d) + 1, start * PageSize),
                              !.number = start, !.pages = A!PageCount(d)]
  <2>1. run.pc = "day" /\ UNCHANGED <<remote, clock, s3, checkpoint, faults, excuses>>
    BY <1>2 DEF A!FirstPage
  <2>2. run \in A!Updating /\ InBounds /\ d \in A!Days /\ A!TypeOK
    BY <2>1, AppfiguresBusy DEF AppfiguresInv
  <2>3. Onward(run)
    BY <2>1, <2>2 DEF Onward, InBounds, AppfiguresInv, A!TypeOK, Prefixes
  <2>4. CASE A!Total(d) = A!Stored(d) /\ run' = A!Leave(run)
    <3>1. ASSUME excuses' = {}
          PROVE  A!Listed(d) \subseteq s3'[d]
      <4>1. PICK n \in 0 .. MaxReviews : n <= remote[d].written /\ s3[d] = 1 .. n /\ remote[d].gone = {}
        BY <2>1, <2>2, <3>1 DEF AppfiguresInv, Prefixes
      <4>2. A!Listed(d) = 1 .. A!Total(d) /\ A!Stored(d) = n
        BY <2>2, <4>1, NumberedListing, Counts DEF A!Assumptions
      <4> QED
        BY <2>1, <2>4, <4>1, <4>2
    <3> QED
      BY <2>1, <2>3, <2>4, <3>1, Leaving
  <2>5. CASE A!Total(d) # A!Stored(d) /\ run' = A!Read(u)
    <3>1. A!Stored(d) \in Nat /\ A!Stored(d) \div PageSize \in Nat /\ A!PageCount(d) \in Nat /\ start \in Nat
      BY <2>2, Counts, DivisionBounds DEF A!Assumptions
    <3>2. A!Places(d, A!Stored(d) + 1, start * PageSize) \in SUBSET (1 .. MaxReviews)
      BY <2>2 DEF A!Places, A!Listed, A!TypeOK, A!Assumptions
    <3>3. /\ u \in A!Updating /\ u.day = d /\ u.until = run.until /\ u.newest = run.newest
          /\ u.number = start /\ u.pages = A!PageCount(d)
          /\ u.page = A!Places(d, A!Stored(d) + 1, start * PageSize)
      BY <2>2, <3>1, <3>2 DEF A!Updating
    <3>4. Onward(u)
      BY <2>3, <3>3 DEF Onward
    <3>5. ASSUME "gone" \notin excuses
          PROVE  \E stored, m \in 0 .. MaxReviews : s3'[u.day] = 1 .. stored /\ Follows(u, stored, m)
      <4> DEFINE q == A!Stored(d) \div PageSize
      <4>1. PICK n \in 0 .. MaxReviews : n <= remote[d].written /\ s3[d] = 1 .. n /\ remote[d].gone = {}
        BY <2>2, <3>5 DEF AppfiguresInv, Prefixes
      <4>2. n \in Nat /\ A!Stored(d) = n /\ A!Total(d) = remote[d].written /\ remote[d].written \in Nat
        BY <2>2, <4>1, NumberedListing, Counts DEF A!Assumptions
      <4>3. /\ q \in Nat /\ PageSize * q <= n /\ n < PageSize * q + PageSize
            /\ n < remote[d].written /\ start = q + 1
        BY <2>5, <3>1, <4>1, <4>2, DivisionBounds DEF A!Assumptions
      <4> HIDE DEF q, u, start
      <4>4. \E m \in 0 .. MaxReviews : Follows(u, n, m)
        BY <2>2, <3>3, <4>1, <4>2, <4>3, AnswerFollows
      <4> QED
        BY <2>1, <3>3, <4>1, <4>4
    <3> HIDE DEF u
    <3> QED
      BY <2>1, <2>5, <3>4, <3>5, GoingOn
  <2> QED
    BY <1>2, <2>4, <2>5 DEF A!FirstPage
<1>3. CASE A!NextPage
  <2> DEFINE d == run.day
             u == [run EXCEPT !.page = A!Page(d, run.number + 1), !.number = run.number + 1,
                              !.pages = A!PageCount(d)]
  <2>1. /\ run.pc = "store" /\ run.page = {} /\ run' = A!Read(u)
        /\ UNCHANGED <<remote, clock, s3, checkpoint, faults, excuses>>
    BY <1>3 DEF A!NextPage
  <2>2. run \in A!Updating /\ InBounds /\ d \in A!Days /\ A!TypeOK /\ run.number \in Nat
    BY <2>1, AppfiguresBusy DEF AppfiguresInv, A!Updating
  <2>3. A!PageCount(d) \in Nat /\ A!Page(d, run.number + 1) \in SUBSET (1 .. MaxReviews)
    <3>1. A!PageCount(d) \in Nat
      BY <2>2, Counts
    <3>2. A!Page(d, run.number + 1) \in SUBSET (1 .. MaxReviews)
      BY <2>2 DEF A!Page, A!Places, A!Listed, A!TypeOK, A!Assumptions
    <3> QED
      BY <3>1, <3>2
  <2>4. /\ u \in A!Updating /\ u.day = d /\ u.until = run.until /\ u.newest = run.newest
        /\ u.number = run.number + 1 /\ u.pages = A!PageCount(d) /\ u.page = A!Page(d, run.number + 1)
    <3>1. run.number + 1 \in Nat
      BY <2>2
    <3> DEFINE number == run.number + 1
               page == A!Page(d, number)
               pages == A!PageCount(d)
               next == WithPage(run, page, number, pages)
    <3>2. run \in A!Updating /\ number \in Nat /\ page \in SUBSET (1 .. MaxReviews) /\ pages \in Nat
      BY <2>2, <2>3, <3>1
    <3> HIDE DEF number, page, pages
    <3>3. /\ next \in A!Updating
          /\ next.day = run.day /\ next.until = run.until /\ next.newest = run.newest
          /\ next.page = page /\ next.number = number /\ next.pages = pages
      BY <3>2, NewPage
    <3> QED
      BY <3>3 DEF number, page, pages, WithPage
  <2>5. Onward(u)
    BY <2>1, <2>2, <2>4 DEF Onward, InBounds, AppfiguresInv, A!TypeOK, Prefixes
  <2>6. ASSUME "gone" \notin excuses
        PROVE  \E stored, m \in 0 .. MaxReviews : s3'[u.day] = 1 .. stored /\ Follows(u, stored, m)
    <3> DEFINE q == run.number
    <3>1. PICK stored \in 0 .. MaxReviews, m \in 0 .. MaxReviews :
            s3[d] = 1 .. stored /\ Follows(run, stored, m)
      BY <2>1, <2>6 DEF AppfiguresInv, PageFollows
    <3>3. remote[d].gone = {} /\ m \in Nat /\ stored \in Nat
      BY <2>2, <2>6, <3>1 DEF AppfiguresInv, Prefixes, A!Assumptions
    <3>2. stored = m /\ m = PageSize * q /\ m < remote[d].written
      <4>1. run.number # run.pages
        BY <2>1, <2>6 DEF AppfiguresInv
      <4>2. m = PageSize * q /\ m < remote[d].written
        BY <3>1, <4>1 DEF Follows
      <4>3. stored <= m /\ (stored + 1) .. m = {}
        BY <2>1, <3>1 DEF Follows
      <4>4. stored = m
        BY <3>3, <4>3
      <4> QED
        BY <4>2, <4>4
    <3>4. A!Page(d, q + 1) = A!Places(d, m + 1, (q + 1) * PageSize)
      <4>1. q * PageSize = m
        BY <2>2, <3>2 DEF A!Assumptions
      <4>2. A!Page(d, q + 1) = A!Places(d, q * PageSize + 1, (q + 1) * PageSize)
        BY <2>2, PageAfter
      <4> QED
        BY <4>1, <4>2
    <3> HIDE DEF u
    <3>5. \E k \in 0 .. MaxReviews : Follows(u, m, k)
      <4>1. PageSize * q <= m /\ m < PageSize * q + PageSize
        BY <3>2, <3>3 DEF A!Assumptions
      <4> QED
        BY <2>2, <2>4, <3>2, <3>3, <3>4, <4>1, AnswerFollows
    <3> QED
      BY <2>1, <2>4, <3>1, <3>2, <3>5
  <2> HIDE DEF u
  <2> QED
    BY <2>1, <2>5, <2>6, GoingOn
<1>4. CASE A!LimitReached \/ A!RequestFails
  <2>1. /\ run.pc # "idle" /\ run' = A!Leave(run) /\ UNCHANGED <<remote, clock, s3, checkpoint>>
        /\ excuses \subseteq excuses' /\ excuses' # {}
        /\ excuses' \subseteq excuses \cup {"limit", "failed"}
        /\ faults' = faults \/ (faults < MaxFaults /\ faults' = faults + 1)
    BY <1>4 DEF A!LimitReached, A!RequestFails
  <2>2. run \in A!Updating /\ InBounds
    BY <2>1, AppfiguresBusy
  <2>3. faults' \in 0 .. MaxFaults
    BY <2>1 DEF AppfiguresInv, A!TypeOK, A!Assumptions
  <2>4. Onward(run)
    BY <2>1, <2>2, <2>3 DEF Onward, InBounds, AppfiguresInv, A!TypeOK, Prefixes
  <2> QED
    BY <2>1, <2>4, Leaving
<1>5. ASSUME NEW r \in 1 .. MaxReviews, A!StoreReview(r)
      PROVE  AppfiguresInv'
  <2> DEFINE d == run.day
             newest == IF d > run.newest THEN d ELSE run.newest
             u == [run EXCEPT !.page = @ \ {r}, !.newest = newest]
  <2>1. /\ run.pc = "store" /\ r \in run.page /\ (\A k \in run.page : r <= k)
        /\ s3' = [s3 EXCEPT ![d] = @ \cup {r}]
        /\ UNCHANGED <<remote, clock, faults, excuses>>
    BY <1>5 DEF A!StoreReview
  <2>2. /\ run \in A!Updating /\ InBounds /\ d \in A!Days /\ A!TypeOK /\ run.newest \in A!Days
        /\ checkpoint \in A!Days
    BY <2>1, AppfiguresBusy DEF AppfiguresInv, A!Updating
  <2>3. run' = A!Read(u) /\ checkpoint' = newest
    <3>1. CASE d > run.newest
      BY <1>5, <3>1 DEF A!StoreReview
    <3>2. CASE ~(d > run.newest)
      <4>1. u = [run EXCEPT !.page = @ \ {r}]
        BY <2>2, <3>2 DEF A!Updating
      <4> QED
        BY <1>5, <2>2, <3>2, <4>1 DEF A!StoreReview, InBounds
    <3> QED
      BY <3>1, <3>2
  <2>4. newest \in A!Days /\ run.page \ {r} \in SUBSET (1 .. MaxReviews)
    BY <2>2 DEF A!Updating
  <2>5. newest \in {checkpoint, d}
    BY <2>2 DEF InBounds
  <2> HIDE DEF newest
  <2>6. /\ u \in A!Updating /\ u.day = d /\ u.until = run.until /\ u.newest = newest
        /\ u.number = run.number /\ u.pages = run.pages /\ u.page = run.page \ {r}
    BY <2>2, <2>4 DEF A!Updating
  <2>7. /\ s3' \in [A!Days -> SUBSET (1 .. MaxReviews)] /\ s3'[d] = s3[d] \cup {r}
        /\ \A e \in A!Days \ {d} : s3'[e] = s3[e]
    BY <2>1, <2>2 DEF A!TypeOK
  <2>8. ASSUME "gone" \notin excuses
        PROVE  \E stored, m \in 0 .. MaxReviews :
                 /\ s3'[d] = 1 .. stored /\ stored <= remote[d].written /\ Follows(u, stored, m)
    <3>1. PICK stored \in 0 .. MaxReviews, m \in 0 .. MaxReviews :
            s3[d] = 1 .. stored /\ Follows(run, stored, m)
      BY <2>1, <2>8 DEF AppfiguresInv, PageFollows
    <3>2. /\ stored <= m /\ m <= remote[d].written /\ run.page = (stored + 1) .. m
          /\ run.number # run.pages => m = PageSize * run.number /\ m < remote[d].written
          /\ excuses = {} /\ run.day < run.until /\ run.number = run.pages => m = remote[d].written
      BY <3>1 DEF Follows
    <3>3. stored \in Nat /\ m \in Nat /\ MaxReviews \in Nat /\ remote[d].written \in Nat
      <4>1. remote[d].written \in 0 .. MaxReviews
        BY <2>2 DEF A!TypeOK
      <4> QED
        BY <4>1 DEF A!Assumptions
    <3>4. r = stored + 1 /\ r <= m /\ r \in 0 .. MaxReviews
      BY <2>1, <3>2, <3>3
    <3>5. s3'[d] = 1 .. r /\ u.page = (r + 1) .. m
      BY <2>6, <2>7, <3>1, <3>2, <3>3, <3>4
    <3> HIDE DEF u
    <3>6. Follows(u, r, m)
      BY <2>6, <3>2, <3>4, <3>5 DEF Follows
    <3> QED
      BY <3>2, <3>3, <3>4, <3>5, <3>6
  <2>9. "gone" \notin excuses => Prefixes'
    <3> SUFFICES ASSUME "gone" \notin excuses, NEW e \in A!Days
                 PROVE  /\ remote[e].gone = {}
                        /\ \E n \in 0 .. MaxReviews : n <= remote[e].written /\ s3'[e] = 1 .. n
      BY <2>1 DEF Prefixes
    <3>1. /\ remote[e].gone = {}
          /\ \E n \in 0 .. MaxReviews : n <= remote[e].written /\ s3[e] = 1 .. n
      BY DEF AppfiguresInv, Prefixes
    <3>2. CASE e = d
      BY <2>8, <3>1, <3>2
    <3>3. CASE e # d
      BY <2>7, <3>1, <3>3
    <3> QED
      BY <3>2, <3>3
  <2> HIDE DEF u
  <2>10. Onward(u)
    BY <2>1, <2>2, <2>3, <2>5, <2>6, <2>7, <2>9 DEF Onward, A!TypeOK
  <2> QED
    BY <2>1, <2>3, <2>6, <2>8, <2>10, GoingOn
<1>6. CASE A!Interrupted
  <2>1. /\ faults < MaxFaults /\ faults' = faults + 1 /\ run' = A!Idle
        /\ UNCHANGED <<remote, clock, s3, checkpoint, excuses>>
    BY <1>6 DEF A!Interrupted
  <2>2. A!TypeOK'
    BY <2>1 DEF AppfiguresInv, A!TypeOK, A!Assumptions
  <2>3. /\ "gone" \notin excuses' => Prefixes'
        /\ excuses' = {} => Complete(checkpoint)'
    BY <2>1 DEF AppfiguresInv, Prefixes, Complete, A!Listed
  <2>4. run' = A!Idle /\ run'.pc = "idle"
    BY <2>1 DEF A!Idle
  <2> QED
    BY <2>2, <2>3, <2>4 DEF AppfiguresInv
<1>7. CASE A!NextDay
  <2>1. /\ clock < LastDay /\ clock' = clock + 1
        /\ UNCHANGED <<remote, s3, checkpoint, run, faults, excuses>>
    BY <1>7 DEF A!NextDay
  <2>2. A!TypeOK'
    BY <2>1 DEF AppfiguresInv, A!TypeOK, A!Days, A!Assumptions
  <2>3. run # A!Idle => InBounds'
    BY <2>1, <2>2 DEF AppfiguresInv, A!TypeOK, A!Updating, InBounds, A!Days, A!Assumptions
  <2> QED
    BY <2>1, <2>2, <2>3 DEF AppfiguresInv, Prefixes, PageFollows, Follows, Complete, A!Listed
<1>8. ASSUME NEW d \in A!Days, A!Review(d)
      PROVE  AppfiguresInv'
  <2>1. /\ d <= clock /\ remote[d].written < MaxReviews
        /\ remote' = [remote EXCEPT ![d].written = @ + 1]
        /\ excuses' = excuses \cup (IF d < clock THEN {"late"} ELSE {})
        /\ UNCHANGED <<clock, s3, checkpoint, run, faults>>
    BY <1>8 DEF A!Review
  <2>2. /\ A!TypeOK /\ clock \in A!Days /\ checkpoint \in 1 .. clock
        /\ remote[d] \in [written : 0 .. MaxReviews, gone : SUBSET (1 .. MaxReviews)]
    BY DEF AppfiguresInv, A!TypeOK
  <2>3. /\ remote' \in [A!Days -> [written : 0 .. MaxReviews, gone : SUBSET (1 .. MaxReviews)]]
        /\ remote'[d].written = remote[d].written + 1 /\ remote'[d].gone = remote[d].gone
        /\ \A e \in A!Days \ {d} : remote'[e] = remote[e]
    <3>1. remote' = [remote EXCEPT ![d] = [remote[d] EXCEPT !.written = @ + 1]]
      BY <2>1
    <3>2. /\ [remote[d] EXCEPT !.written = @ + 1] \in [written : 0 .. MaxReviews, gone : SUBSET (1 .. MaxReviews)]
          /\ [remote[d] EXCEPT !.written = @ + 1].written = remote[d].written + 1
          /\ [remote[d] EXCEPT !.written = @ + 1].gone = remote[d].gone
      BY <2>1, <2>2 DEF A!Assumptions
    <3> QED
      BY <2>2, <3>1, <3>2 DEF A!TypeOK
  <2>4. A!TypeOK'
    BY <2>1, <2>3 DEF AppfiguresInv, A!TypeOK
  <2>5. excuses' = {} => excuses = {} /\ d = clock
    BY <2>1, <2>2 DEF A!Days, A!Assumptions
  <2>6. excuses \subseteq excuses' /\ ("gone" \notin excuses' => "gone" \notin excuses)
    BY <2>1
  <2>7. "gone" \notin excuses' => Prefixes'
    <3> SUFFICES ASSUME "gone" \notin excuses', NEW e \in A!Days
                 PROVE  /\ remote'[e].gone = {}
                        /\ \E n \in 0 .. MaxReviews : n <= remote'[e].written /\ s3'[e] = 1 .. n
      BY DEF Prefixes, A!Days
    <3>1. PICK n \in 0 .. MaxReviews :
            remote[e].gone = {} /\ n <= remote[e].written /\ s3[e] = 1 .. n
      BY <2>6 DEF AppfiguresInv, Prefixes
    <3>2. remote'[e].gone = {} /\ remote[e].written <= remote'[e].written
          /\ remote[e].written \in Nat /\ remote'[e].written \in Nat
      <4>1. CASE e = d
        BY <2>2, <2>3, <3>1, <4>1
      <4>2. CASE e # d
        <5>1. remote[e].written \in 0 .. MaxReviews
          BY <2>2 DEF A!TypeOK
        <5> QED
          BY <2>3, <3>1, <4>2, <5>1
      <4> QED
        BY <4>1, <4>2
    <3>3. n <= remote'[e].written
      BY <3>1, <3>2
    <3> QED
      BY <2>1, <3>1, <3>2, <3>3
  <2>8. run # A!Idle => InBounds' /\ run \in A!Updating
    BY <2>1 DEF AppfiguresInv, InBounds, A!TypeOK
  <2>9. ASSUME "gone" \notin excuses', run.pc = "store"
        PROVE  PageFollows(run)'
    <3>1. /\ run \in A!Updating /\ InBounds /\ run.day \in A!Days /\ run.until \in A!Days
      BY <2>9, AppfiguresBusy
    <3>2. PICK stored \in 0 .. MaxReviews, m \in 0 .. MaxReviews :
            s3[run.day] = 1 .. stored /\ Follows(run, stored, m)
      BY <2>6, <2>9 DEF AppfiguresInv, PageFollows
    <3>3. remote[run.day].written \in Nat /\ remote'[run.day].written \in Nat
          /\ remote[run.day].written <= remote'[run.day].written
      BY <2>2, <2>3, <3>1 DEF A!TypeOK, A!Assumptions
    <3>4. excuses' = {} /\ run.day < run.until => remote'[run.day] = remote[run.day]
      BY <2>2, <2>3, <2>5, <3>1 DEF InBounds, A!Days, A!Assumptions
    <3>5. Follows(run, stored, m)'
      <4>1. stored \in Nat /\ m \in Nat /\ run' = run
        BY <2>1 DEF A!Assumptions
      <4>2. stored <= m /\ m <= remote'[run.day].written /\ run.page = (stored + 1) .. m
        BY <3>2, <3>3, <4>1 DEF Follows
      <4>3. run.number # run.pages => m = PageSize * run.number /\ m < remote'[run.day].written
        BY <3>2, <3>3, <4>1 DEF Follows
      <4>4. excuses' = {} /\ run.day < run.until /\ run.number = run.pages => m = remote'[run.day].written
        BY <2>5, <3>2, <3>4 DEF Follows
      <4> QED
        BY <4>1, <4>2, <4>3, <4>4 DEF Follows
    <3> QED
      BY <2>1, <3>2, <3>5 DEF PageFollows
  <2>10. ASSUME excuses' = {}
         PROVE  Complete(checkpoint)' /\ (run # A!Idle => Complete(run.day)')
    <3>1. \A e \in A!Days : e < clock => A!Listed(e)' = A!Listed(e)
      BY <2>2, <2>3, <2>5, <2>10 DEF A!Listed, A!Days, A!Assumptions
    <3>2. \A e \in A!Days : e < checkpoint => e < clock
      BY <2>2 DEF A!Days, A!Assumptions
    <3>3. run # A!Idle => \A e \in A!Days : e < run.day => e < clock
      BY <2>2, <2>8 DEF AppfiguresInv, InBounds, A!Updating, A!Days, A!Assumptions
    <3> QED
      BY <2>1, <2>5, <2>10, <3>1, <3>2, <3>3 DEF AppfiguresInv, Complete
  <2> QED
    BY <2>1, <2>4, <2>6, <2>7, <2>8, <2>9, <2>10 DEF AppfiguresInv
<1>9. ASSUME NEW d \in A!Days, NEW r \in 1 .. MaxReviews, A!Retract(d, r)
      PROVE  AppfiguresInv'
  <2>1. /\ remote' = [remote EXCEPT ![d].gone = @ \cup {r}] /\ excuses' = excuses \cup {"gone"}
        /\ UNCHANGED <<clock, s3, checkpoint, run, faults>>
    BY <1>9 DEF A!Retract
  <2>2. remote' \in [A!Days -> [written : 0 .. MaxReviews, gone : SUBSET (1 .. MaxReviews)]]
    <3>1. remote[d] \in [written : 0 .. MaxReviews, gone : SUBSET (1 .. MaxReviews)]
      BY DEF AppfiguresInv, A!TypeOK
    <3>2. [remote[d] EXCEPT !.gone = @ \cup {r}] \in [written : 0 .. MaxReviews, gone : SUBSET (1 .. MaxReviews)]
      BY <3>1
    <3> QED
      BY <2>1, <3>2 DEF AppfiguresInv, A!TypeOK
  <2> QED
    BY <2>1, <2>2 DEF AppfiguresInv, A!TypeOK, InBounds
<1> QED
  BY <1>1, <1>2, <1>3, <1>4, <1>5, <1>6, <1>7, <1>8, <1>9 DEF A!Next, A!Step

-----------------------------------------------------------------------------
(* Jira.                                                                    *)

(* What a search finds, the places of its result, and what of it is at the  *)
(* first places.                                                            *)
FoundIn(r, since) == {u \in J!Updates : r[u[1]] = u[2] /\ u[2] > since}
RankIn(r, since) ==
  [u \in FoundIn(r, since) |->
     Cardinality({v \in FoundIn(r, since) : v = u \/ J!Earlier(v, u)})]
PlacesIn(r, since, m, k) ==
  {u \in FoundIn(r, since) : m < RankIn(r, since)[u] /\ RankIn(r, since)[u] <= m + k}
FirstIn(r, since, n) == {u \in FoundIn(r, since) : RankIn(r, since)[u] <= n}

(* The issues on the pages that were read.                                  *)
Seen == FirstIn(remote, run.since, run.at)

Past ==
  /\ checkpoint <= clock
  /\ \A i \in Documents : remote[i] <= clock
  /\ run # J!Idle => \A u \in run.page : u[2] <= clock

NoTies == \A i, j \in Documents : remote[i] = remote[j] /\ remote[i] # 0 => i = j

(* As many as run.at says, and they are on the page at hand or stored.      *)
Reading ==
  /\ run.millis = checkpoint /\ run.since <= checkpoint
  /\ run.pc = "search" => run.page = {}
  /\ Cardinality(Seen) = run.at
  /\ run.page \subseteq Seen
  /\ \A u \in Seen : u \in run.page \/ u[2] <= checkpoint

JiraInv ==
  /\ J!TypeOK
  /\ Past
  /\ J!NothingPassedOver
  /\ excuses = {} => NoTies /\ (run # J!Idle => Reading)

LEMMA FewNumbers ==
  ASSUME NEW S, NEW f \in [S -> Nat], NEW m \in Nat, NEW k \in Nat,
         \A x \in S : m < f[x] /\ f[x] <= m + k,
         \A x, y \in S : f[x] = f[y] => x = y
  PROVE  IsFiniteSet(S) /\ Cardinality(S) \in Nat /\ Cardinality(S) <= k
<1>1. IsFiniteSet((m + 1) .. (m + k)) /\ Cardinality((m + 1) .. (m + k)) = k
  BY FS_Interval
<1>2. f \in Injection(S, (m + 1) .. (m + k))
  BY DEF Injection, IsInjective
<1>3. IsFiniteSet(S) /\ Cardinality(S) <= k
  BY <1>1, <1>2, FS_Injection
<1> QED
  BY <1>3, FS_CardinalityType

(* The places of a finite set of updates are numbered without repetition.   *)
LEMMA Ranks ==
  ASSUME NEW Hits \in SUBSET (Nat \X Nat), IsFiniteSet(Hits), NEW rank \in [Hits -> Nat],
         \A u \in Hits : rank[u] = Cardinality({v \in Hits : v = u \/ J!Earlier(v, u)})
  PROVE  /\ \A u \in Hits : rank[u] > 0
         /\ \A u, v \in Hits : J!Earlier(u, v) => rank[u] < rank[v]
         /\ \A m, k \in Nat :
              LET S == {u \in Hits : m < rank[u] /\ rank[u] <= m + k}
              IN IsFiniteSet(S) /\ Cardinality(S) \in Nat /\ Cardinality(S) <= k
<1> DEFINE UpTo(u) == {v \in Hits : v = u \/ J!Earlier(v, u)}
<1>1. \A u \in Hits : IsFiniteSet(UpTo(u)) /\ Cardinality(UpTo(u)) \in Nat /\ rank[u] = Cardinality(UpTo(u))
  <2> SUFFICES ASSUME NEW u \in Hits
               PROVE  IsFiniteSet(UpTo(u)) /\ Cardinality(UpTo(u)) \in Nat /\ rank[u] = Cardinality(UpTo(u))
    OBVIOUS
  <2>1. IsFiniteSet(UpTo(u))
    BY FS_Subset
  <2> QED
    BY <2>1, FS_CardinalityType
<1>2. ASSUME NEW u \in Hits PROVE rank[u] > 0
  <2>1. u \in UpTo(u)
    OBVIOUS
  <2> HIDE DEF UpTo
  <2> QED
    BY <1>1, <2>1, FS_EmptySet
<1>3. ASSUME NEW u \in Hits, NEW v \in Hits, J!Earlier(u, v)
      PROVE  rank[u] < rank[v]
  <2>1. UpTo(u) \subseteq UpTo(v)
    BY <1>3 DEF J!Earlier
  <2>2. v \in UpTo(v) /\ v \notin UpTo(u)
    BY <1>3 DEF J!Earlier
  <2> HIDE DEF UpTo
  <2>3. Cardinality(UpTo(u)) <= Cardinality(UpTo(v)) /\ Cardinality(UpTo(u)) # Cardinality(UpTo(v))
    BY <1>1, <2>1, <2>2, FS_Subset
  <2> QED
    BY <1>1, <2>3
<1>4. \A u, v \in Hits : rank[u] = rank[v] => u = v
  <2>1. \A u, v \in Hits : u = v \/ J!Earlier(u, v) \/ J!Earlier(v, u)
    BY DEF J!Earlier
  <2> QED
    BY <1>3, <2>1
<1>5. ASSUME NEW m \in Nat, NEW k \in Nat
      PROVE  LET S == {u \in Hits : m < rank[u] /\ rank[u] <= m + k}
             IN IsFiniteSet(S) /\ Cardinality(S) \in Nat /\ Cardinality(S) <= k
  <2> DEFINE S == {u \in Hits : m < rank[u] /\ rank[u] <= m + k}
  <2> DEFINE f == [u \in S |-> rank[u]]
  <2>1. f \in [S -> Nat] /\ \A u \in S : m < f[u] /\ f[u] <= m + k
    OBVIOUS
  <2>2. \A u, v \in S : f[u] = f[v] => u = v
    BY <1>4
  <2> HIDE DEF f, S
  <2>3. IsFiniteSet(S) /\ Cardinality(S) \in Nat /\ Cardinality(S) <= k
    BY <2>1, <2>2, FewNumbers
  <2> QED
    BY <2>3 DEF S
<1> QED
  BY <1>2, <1>3, <1>5

LEMMA JiraRanks ==
  ASSUME J!Assumptions, NEW r, NEW since
  PROVE  /\ IsFiniteSet(FoundIn(r, since)) /\ FoundIn(r, since) \subseteq Nat \X Nat
         /\ RankIn(r, since) \in [FoundIn(r, since) -> Nat]
         /\ \A u \in FoundIn(r, since) : RankIn(r, since)[u] > 0
         /\ \A u, v \in FoundIn(r, since) :
              J!Earlier(u, v) => RankIn(r, since)[u] < RankIn(r, since)[v]
         /\ \A m, k \in Nat :
              /\ IsFiniteSet(PlacesIn(r, since, m, k))
              /\ Cardinality(PlacesIn(r, since, m, k)) \in Nat
              /\ Cardinality(PlacesIn(r, since, m, k)) <= k
         /\ \A n \in Nat :
              /\ IsFiniteSet(FirstIn(r, since, n)) /\ Cardinality(FirstIn(r, since, n)) \in Nat
              /\ Cardinality(FirstIn(r, since, n)) <= n
<1> DEFINE Hits == FoundIn(r, since)
           rank == RankIn(r, since)
<1>1. IsFiniteSet(Hits) /\ Hits \in SUBSET (Nat \X Nat)
  <2>1. IsFiniteSet(Documents)
    BY SameCardinality DEF J!Assumptions
  <2>2. IsFiniteSet(0 .. LastTime)
    BY FS_Interval DEF J!Assumptions
  <2>3. IsFiniteSet(J!Updates)
    BY <2>1, <2>2, FS_Product DEF J!Updates
  <2>4. Hits \in SUBSET J!Updates
    BY DEF FoundIn
  <2> QED
    <3>1. J!Updates \subseteq Nat \X Nat
      <4>1. Documents \subseteq Nat /\ 0 .. LastTime \subseteq Nat
        BY DEF J!Assumptions
      <4> QED
        BY <4>1 DEF J!Updates
    <3>2. IsFiniteSet(Hits)
      BY <2>3, <2>4, FS_Subset
    <3> QED
      BY <2>4, <3>1, <3>2
<1>2. rank \in [Hits -> Nat] /\ \A u \in Hits : rank[u] = Cardinality({v \in Hits : v = u \/ J!Earlier(v, u)})
  <2> DEFINE UpTo(u) == {v \in Hits : v = u \/ J!Earlier(v, u)}
  <2>1. \A u \in Hits : UpTo(u) \in SUBSET Hits
    OBVIOUS
  <2>2. rank = [u \in Hits |-> Cardinality(UpTo(u))]
    BY DEF RankIn
  <2> HIDE DEF rank, Hits
  <2>3. \A u \in Hits : Cardinality(UpTo(u)) \in Nat
    <3> HIDE DEF UpTo
    <3> QED
      BY <1>1, <2>1, FS_Subset, FS_CardinalityType
  <2> QED
    BY <2>2, <2>3
<1> HIDE DEF rank, Hits
<1>3. /\ \A u \in Hits : rank[u] > 0
      /\ \A u, v \in Hits : J!Earlier(u, v) => rank[u] < rank[v]
      /\ \A m, k \in Nat :
           LET S == {u \in Hits : m < rank[u] /\ rank[u] <= m + k}
           IN IsFiniteSet(S) /\ Cardinality(S) \in Nat /\ Cardinality(S) <= k
  BY <1>1, <1>2, Ranks
<1>4. \A m, k \in Nat :
        /\ IsFiniteSet(PlacesIn(r, since, m, k))
        /\ Cardinality(PlacesIn(r, since, m, k)) \in Nat
        /\ Cardinality(PlacesIn(r, since, m, k)) <= k
  <2> SUFFICES ASSUME NEW m \in Nat, NEW k \in Nat
               PROVE  /\ IsFiniteSet(PlacesIn(r, since, m, k))
                      /\ Cardinality(PlacesIn(r, since, m, k)) \in Nat
                      /\ Cardinality(PlacesIn(r, since, m, k)) <= k
    OBVIOUS
  <2>1. PlacesIn(r, since, m, k) = {u \in Hits : m < rank[u] /\ rank[u] <= m + k}
    BY DEF PlacesIn, Hits, rank
  <2> QED
    BY <1>3, <2>1
<1>5. \A n \in Nat : FirstIn(r, since, n) = PlacesIn(r, since, 0, n)
  BY <1>2, <1>3 DEF FirstIn, PlacesIn, Hits, rank
<1> QED
  BY <1>1, <1>2, <1>3, <1>4, <1>5 DEF Hits, rank

LEMMA JiraPlaces ==
  ASSUME J!Assumptions, NEW since
  PROVE  /\ J!Found(since) = FoundIn(remote, since)
         /\ \A u \in FoundIn(remote, since) : J!Place(u, since) = RankIn(remote, since)[u]
<1>1. J!Found(since) = FoundIn(remote, since)
  BY DEF J!Found, FoundIn
<1>2. ASSUME NEW u \in FoundIn(remote, since)
      PROVE  J!Place(u, since) = RankIn(remote, since)[u]
  BY <1>1, SameCardinality DEF J!Place, RankIn
<1> QED
  BY <1>1, <1>2

LEMMA JiraStart ==
  ASSUME J!Assumptions, J!Init
  PROVE  JiraInv
BY DEF J!Assumptions, J!Init, JiraInv, J!TypeOK, Past, J!NothingPassedOver, NoTies

LEMMA JiraBusy ==
  ASSUME JiraInv, run.pc # "idle"
  PROVE  run \in J!Sessions /\ run # J!Idle /\ (excuses = {} => NoTies /\ Reading)
BY DEF JiraInv, J!TypeOK, J!Idle

LEMMA JiraStep ==
  ASSUME J!Assumptions, JiraInv, J!Next
  PROVE  JiraInv'
<1> USE DEF J!Assumptions, J!Updates
<1>1. CASE J!Start
  <2>1. /\ run' = [pc |-> "search", since |-> checkpoint, at |-> 0, total |-> 0,
                   page |-> {}, millis |-> checkpoint]
        /\ UNCHANGED <<remote, clock, s3, checkpoint, faults, excuses>> /\ checkpoint \in Nat
    BY <1>1 DEF J!Start, JiraInv, J!TypeOK
  <2>2. run' \in J!Sessions
    BY <2>1 DEF J!Sessions
  <2>3. Seen' = {}
    BY <2>1, JiraRanks DEF Seen, FirstIn
  <2>4. Reading'
    BY <2>1, <2>3, FS_EmptySet DEF Reading
  <2> QED
    BY <2>1, <2>2, <2>4 DEF JiraInv, J!TypeOK, Past, J!NothingPassedOver, NoTies
<1>2. CASE J!SearchDone
  BY <1>2 DEF J!SearchDone, JiraInv, J!TypeOK, Past, J!NothingPassedOver, NoTies
<1>3. CASE J!Interrupted
  BY <1>3 DEF J!Interrupted, JiraInv, J!TypeOK, Past, J!NothingPassedOver, NoTies
<1>4. CASE J!FetchPage
  <2> DEFINE page == J!Page(run.since, run.at)
             Hits == FoundIn(remote, run.since)
             rank == RankIn(remote, run.since)
             total == IF run.at = 0 THEN J!Cardinality(J!Found(run.since)) ELSE run.total
  <2>1. UNCHANGED <<remote, clock, s3, checkpoint, faults, excuses>> /\ run.pc = "search"
    BY <1>4 DEF J!FetchPage
  <2>2. run \in J!Sessions /\ (excuses = {} => NoTies /\ Reading)
    BY <2>1, JiraBusy
  <2>3. run' = IF page = {} THEN J!Idle
               ELSE [run EXCEPT !.pc = "store", !.page = page,
                                !.at = run.at + J!Cardinality(page), !.total = total]
    BY <1>4 DEF J!FetchPage
  <2>4. page = {u \in Hits : run.at < rank[u] /\ rank[u] <= run.at + PageSize}
    BY JiraPlaces DEF J!Page
  <2>5. /\ IsFiniteSet(Hits) /\ rank \in [Hits -> Nat] /\ Hits \subseteq Nat \X Nat
        /\ \A u, v \in Hits : J!Earlier(u, v) => rank[u] < rank[v]
    BY JiraRanks
  <2>11. IsFiniteSet(page) /\ Cardinality(page) \in Nat /\ Cardinality(page) <= PageSize
    <3>1. run.at \in Nat /\ PageSize \in Nat
      BY <2>2 DEF J!Sessions
    <3>2. page = PlacesIn(remote, run.since, run.at, PageSize)
      BY <2>4 DEF PlacesIn
    <3> HIDE DEF page
    <3> QED
      BY <3>1, <3>2, JiraRanks
  <2>12. IsFiniteSet(Seen) /\ Cardinality(Seen) \in Nat
    BY <2>2, JiraRanks DEF J!Sessions, Seen
  <2>6. total \in Nat
    BY <2>2, <2>5, JiraPlaces, SameCardinality, FS_CardinalityType DEF J!Sessions
  <2>7. run.at \in Nat /\ \A u \in Hits : u \in J!Updates /\ remote[u[1]] = u[2]
    BY <2>2 DEF J!Sessions, FoundIn
  <2>8. Seen = {u \in Hits : rank[u] <= run.at}
    BY DEF Seen, FirstIn
  <2> HIDE DEF page, total, Hits, rank
  <2>9. CASE page = {}
    BY <2>1, <2>2, <2>3, <2>9 DEF JiraInv, J!TypeOK, Past, J!NothingPassedOver, NoTies
  <2>10. CASE page # {}
    <3>1. /\ run' \in J!Sessions /\ run'.pc = "store" /\ run'.page = page
          /\ run'.at = run.at + Cardinality(page) /\ run'.since = run.since /\ run'.millis = run.millis
      <4>1. page \in SUBSET J!Updates
        BY <2>4, <2>7
      <4>2. run.at + Cardinality(page) \in Nat
        BY <2>7, <2>11
      <4>3. run' = [run EXCEPT !.pc = "store", !.page = page,
                               !.at = run.at + Cardinality(page), !.total = total]
        BY <2>3, <2>10, SameCardinality
      <4> QED
        BY <2>2, <2>6, <4>1, <4>2, <4>3 DEF J!Sessions
    <3>2. Past'
      BY <2>1, <2>4, <2>7, <3>1 DEF JiraInv, Past
    <3>3. ASSUME excuses = {}
          PROVE  Reading'
      <4>1. Reading
        BY <2>2, <3>3
      <4>2. Seen \cap page = {} /\ Cardinality(Seen) = run.at
        BY <2>4, <2>5, <2>11, <2>12, <2>7, <2>8, <4>1 DEF Reading
      <4>3. Cardinality(Seen \cup page) = run.at + Cardinality(page)
        <5>1. Cardinality(Seen \cup page)
                = Cardinality(Seen) + Cardinality(page) - Cardinality(Seen \cap page)
          BY <2>11, <2>12, FS_Union
        <5>2. Cardinality(Seen \cap page) = 0
          BY <4>2, FS_EmptySet
        <5> QED
          BY <2>7, <2>11, <4>2, <5>1, <5>2
      <4>4. Seen' = {u \in Hits : rank[u] <= run.at + Cardinality(page)}
        BY <2>1, <3>1 DEF Seen, FirstIn, Hits, rank
      <4>5. ASSUME NEW u \in page
            PROVE  rank[u] <= run.at + Cardinality(page)
        <5> DEFINE UpTo == {v \in Hits : v = u \/ J!Earlier(v, u)}
        <5>1. UpTo \subseteq Seen \cup page
          BY <2>4, <2>5, <2>11, <2>12, <2>7, <2>8
        <5>2. rank[u] = Cardinality(UpTo)
          BY <2>4 DEF RankIn, Hits, rank
        <5>3. IsFiniteSet(Seen \cup page)
          BY <2>5, <2>11, <2>12, FS_Union
        <5> HIDE DEF UpTo
        <5> QED
          BY <4>3, <5>1, <5>2, <5>3, FS_Subset
      <4>6. Seen' = Seen \cup page
        BY <2>4, <2>5, <2>11, <2>12, <2>7, <2>8, <4>4, <4>5
      <4> QED
        BY <2>1, <3>1, <4>1, <4>3, <4>6 DEF Reading
    <3> QED
      BY <2>1, <2>2, <3>1, <3>2, <3>3 DEF JiraInv, J!TypeOK, J!NothingPassedOver, NoTies
  <2> QED
    BY <2>9, <2>10
<1>5. ASSUME NEW u \in J!Updates, J!StoreIssue(u) \/ J!MoveCheckpoint(u)
      PROVE  JiraInv'
  <2>1. /\ UNCHANGED <<remote, clock, faults, excuses>> /\ run.pc = "store"
        /\ u \in run.page /\ \A v \in run.page : v = u \/ J!Earlier(u, v)
    BY <1>5 DEF J!StoreIssue, J!MoveCheckpoint, J!IsNext
  <2>2. run \in J!Sessions /\ run # J!Idle /\ (excuses = {} => NoTies /\ Reading)
    BY <2>1, JiraBusy
  <2>3. checkpoint \in 0 .. LastTime /\ clock \in 0 .. LastTime /\ u[2] <= clock
    BY <2>1, <2>2 DEF JiraInv, J!TypeOK, Past
  <2> DEFINE Moves(millis) ==
               /\ run' \in J!Sessions /\ run'.pc \in {"search", "store"}
               /\ run'.pc = "search" => run'.page = {}
               /\ run'.millis = millis /\ run'.page = run.page \ {u}
               /\ run'.since = run.since /\ run'.at = run.at
  <2>4. ASSUME NEW millis \in Nat, J!Onward(u, millis)
        PROVE  Moves(millis)
    <3>1. run' = [run EXCEPT !.millis = millis, !.page = @ \ {u},
                             !.pc = IF run.page = {u} THEN "search" ELSE @]
      BY <2>4 DEF J!Onward
    <3>2. run.page \ {u} \in SUBSET J!Updates
      BY <2>2 DEF J!Sessions
    <3>3. CASE run.page = {u}
      BY <2>2, <3>1, <3>2, <3>3 DEF J!Sessions
    <3>4. CASE run.page # {u}
      BY <2>1, <2>2, <3>1, <3>2, <3>4 DEF J!Sessions
    <3> QED
      BY <3>3, <3>4
  <2>5. CASE J!StoreIssue(u)
    <3>1. s3' = s3 \cup {u} /\ UNCHANGED checkpoint
      BY <2>5 DEF J!StoreIssue
    <3>2. J!NothingPassedOver'
      BY <2>1, <3>1 DEF JiraInv, J!NothingPassedOver
    <3>3. CASE u[2] > run.millis /\ UNCHANGED run
      BY <2>1, <3>1, <3>2, <3>3 DEF JiraInv, J!TypeOK, Past, NoTies, Reading, Seen
    <3>4. CASE ~(u[2] > run.millis) /\ Moves(run.millis)
      <4>1. Seen' = Seen
        BY <2>1, <3>4 DEF Seen
      <4>2. Past'
        BY <2>1, <2>2, <3>1, <3>4 DEF JiraInv, Past
      <4>3. ASSUME excuses = {}
            PROVE  Reading'
        BY <2>1, <2>2, <2>3, <3>1, <3>4, <4>1, <4>3 DEF Reading
      <4> QED
        BY <2>1, <2>2, <3>1, <3>2, <3>4, <4>2, <4>3 DEF JiraInv, J!TypeOK, NoTies
    <3> QED
      BY <2>2, <2>4, <2>5, <3>3, <3>4 DEF J!StoreIssue, J!Sessions
  <2>6. CASE J!MoveCheckpoint(u)
    <3>1. checkpoint' = u[2] /\ UNCHANGED s3 /\ u \in s3 /\ run.millis < u[2] /\ Moves(u[2])
      BY <2>3, <2>4, <2>6 DEF J!MoveCheckpoint
    <3>2. Seen' = Seen
      BY <2>1, <3>1 DEF Seen
    <3>3. Past'
      BY <2>1, <2>2, <2>3, <3>1 DEF JiraInv, Past
    <3>4. ASSUME excuses = {}
          PROVE  Reading'
      <4>1. Reading /\ run.since \in Nat /\ u[2] \in Nat /\ \A v \in Seen : v[2] \in Nat
        BY <2>2, <3>4 DEF J!Sessions, Seen, FirstIn, FoundIn
      <4>2. run.since <= u[2] /\ checkpoint < u[2]
        BY <2>3, <3>1, <4>1 DEF Reading
      <4>3. \A v \in Seen : v \in run.page \ {u} \/ v[2] <= u[2]
        BY <2>3, <4>1, <4>2 DEF Reading
      <4> QED
        BY <2>1, <3>1, <3>2, <4>1, <4>2, <4>3 DEF Reading
    <3>5. J!NothingPassedOver'
      <4> SUFFICES ASSUME excuses = {}, NEW i \in Documents, remote[i] \in 1 .. u[2]
                   PROVE  <<i, remote[i]>> \in s3
        BY <2>1, <3>1 DEF J!NothingPassedOver
      <4> DEFINE v == <<i, remote[i]>>
      <4>1. NoTies /\ Reading
        BY <2>2
      <4>2. v \in J!Updates /\ u[1] \in Documents
        BY DEF JiraInv, J!TypeOK
      <4>3. CASE remote[i] <= checkpoint
        BY <4>3 DEF JiraInv, J!NothingPassedOver
      <4>4. CASE checkpoint < remote[i]
        <5>1. v \in FoundIn(remote, run.since)
          <6>1. run.since \in Nat /\ run.since <= checkpoint /\ remote[i] \in 0 .. LastTime
            BY <2>2, <4>1 DEF J!Sessions, Reading, JiraInv, J!TypeOK
          <6>2. remote[i] > run.since
            BY <2>3, <4>4, <6>1
          <6> QED
            BY <4>2, <6>2 DEF FoundIn
        <5>2. u \in FoundIn(remote, run.since) /\ RankIn(remote, run.since)[u] <= run.at
          BY <2>1, <4>1 DEF Reading, Seen, FirstIn
        <5>3. CASE remote[i] < u[2]
          <6>1. J!Earlier(v, u)
            BY <5>3 DEF J!Earlier
          <6>2. v \in Seen
            <7>1. run.at \in Nat
              BY <2>2 DEF J!Sessions
            <7>2. /\ RankIn(remote, run.since)[v] < RankIn(remote, run.since)[u]
                  /\ RankIn(remote, run.since)[v] \in Nat /\ RankIn(remote, run.since)[u] \in Nat
              BY <5>1, <5>2, <6>1, JiraRanks
            <7> QED
              BY <5>1, <5>2, <7>1, <7>2 DEF Seen, FirstIn
          <6>3. v \in run.page
            BY <2>3, <4>1, <4>4, <6>2 DEF Reading
          <6> QED
            BY <2>1, <5>3, <6>3 DEF J!Earlier
        <5>4. CASE remote[i] = u[2]
          <6>1. remote[u[1]] = u[2] /\ u[2] # 0
            BY <5>2, <5>4 DEF FoundIn
          <6>2. i = u[1]
            BY <4>1, <4>2, <5>4, <6>1 DEF NoTies
          <6> QED
            BY <3>1, <5>4, <6>2
        <5> QED
          BY <5>3, <5>4
      <4> QED
        BY <2>3, <4>3, <4>4
    <3> QED
      BY <2>1, <2>2, <2>3, <3>1, <3>3, <3>4, <3>5 DEF JiraInv, J!TypeOK, NoTies
  <2> QED
    BY <1>5, <2>5, <2>6
<1>6. ASSUME NEW i \in Documents, J!Update(i)
      PROVE  JiraInv'
  <2>1. PICK t \in {clock, clock + 1} \cap (1 .. LastTime) :
          /\ clock' = t
          /\ remote' = [remote EXCEPT ![i] = t]
          /\ excuses' =
               excuses
               \cup (IF t = clock THEN {"tie"} ELSE {})
               \cup (IF /\ run # J!Idle
                        /\ \E u \in J!Found(run.since) : u[1] = i /\ J!Place(u, run.since) <= run.at
                     THEN {"moved"} ELSE {})
    BY <1>6 DEF J!Update
  <2>2. UNCHANGED <<s3, checkpoint, run, faults>>
    BY <1>6 DEF J!Update
  <2>3. /\ remote \in [Documents -> 0 .. LastTime] /\ clock \in 0 .. LastTime
        /\ checkpoint \in 0 .. LastTime /\ checkpoint <= clock
    BY DEF JiraInv, J!TypeOK, Past
  <2>4. /\ remote' \in [Documents -> 0 .. LastTime] /\ remote'[i] = t
        /\ \A j \in Documents \ {i} : remote'[j] = remote[j]
    BY <2>1, <2>3
  <2>5. J!TypeOK'
    BY <2>1, <2>2, <2>4 DEF JiraInv, J!TypeOK
  <2>6. Past'
    BY <2>1, <2>2, <2>3, <2>4 DEF JiraInv, Past, J!TypeOK, J!Sessions
  <2>7. SUFFICES ASSUME excuses' = {}
                 PROVE  J!NothingPassedOver' /\ NoTies' /\ (run # J!Idle => Reading')
    BY <2>2, <2>5, <2>6 DEF JiraInv, J!NothingPassedOver
  <2>8. /\ excuses = {} /\ t = clock + 1
        /\ run # J!Idle => \A u \in J!Found(run.since) : u[1] = i => ~(J!Place(u, run.since) <= run.at)
    BY <2>1, <2>7
  <2>9. J!NothingPassedOver'
    BY <2>2, <2>3, <2>4, <2>8 DEF JiraInv, J!NothingPassedOver
  <2>10. NoTies'
    BY <2>2, <2>3, <2>4, <2>8 DEF JiraInv, Past, NoTies
  <2>11. ASSUME run # J!Idle
         PROVE  Reading'
    <3> DEFINE Hits == FoundIn(remote, run.since)
               Hits2 == FoundIn(remote', run.since)
               rank == RankIn(remote, run.since)
               rank2 == RankIn(remote', run.since)
    <3>1. Reading /\ run \in J!Sessions /\ run.at \in Nat
      BY <2>8, <2>11 DEF JiraInv, J!TypeOK, J!Sessions
    <3>2. /\ Seen = {u \in Hits : rank[u] <= run.at}
          /\ Seen' = FirstIn(remote', run.since, run.at)
      BY <2>2 DEF Seen, FirstIn
    <3>3. \A u \in Seen : u[1] # i
      BY <2>8, <2>11, <3>2, JiraPlaces
    <3>4. \A u \in Hits : u \in J!Updates /\ remote[u[1]] = u[2] /\ u[2] > run.since /\ u[2] <= clock
      BY DEF FoundIn, JiraInv, Past
    <3>5. Hits2 = {u \in J!Updates : remote'[u[1]] = u[2] /\ u[2] > run.since}
      BY DEF FoundIn
    <3>6. ASSUME NEW u \in Seen
          PROVE  u \in Hits2 /\ rank2[u] <= run.at
      <4> DEFINE UpTo == {v \in Hits : v = u \/ J!Earlier(v, u)}
                 UpTo2 == {v \in Hits2 : v = u \/ J!Earlier(v, u)}
      <4>1. u \in Hits /\ rank[u] <= run.at /\ u[1] # i
        BY <3>2, <3>3
      <4>2. u \in Hits2
        BY <2>4, <3>4, <3>5, <4>1
      <4>3. UpTo2 \subseteq UpTo
        <5> SUFFICES ASSUME NEW v \in Hits2, v = u \/ J!Earlier(v, u)
                     PROVE  v \in Hits
          BY DEF UpTo2
        <5>1. v[1] # i
          BY <2>3, <2>4, <2>8, <3>4, <3>5, <4>1 DEF J!Earlier
        <5> QED
          BY <2>4, <3>5, <5>1 DEF FoundIn
      <4>4. rank[u] = Cardinality(UpTo) /\ rank2[u] = Cardinality(UpTo2)
        BY <4>1, <4>2 DEF RankIn
      <4>5. IsFiniteSet(Hits) /\ UpTo \subseteq Hits /\ rank[u] \in Nat /\ rank2[u] \in Nat
        BY <4>1, <4>2, JiraRanks
      <4> HIDE DEF UpTo, UpTo2, Hits, Hits2, rank, rank2
      <4>6. Cardinality(UpTo2) <= Cardinality(UpTo)
        BY <4>3, <4>5, FS_Subset
      <4> QED
        BY <3>1, <4>1, <4>2, <4>4, <4>5, <4>6
    <3>7. Seen \subseteq Seen'
      BY <3>2, <3>6 DEF FirstIn
    <3>8. IsFiniteSet(Seen') /\ Cardinality(Seen') \in Nat /\ Cardinality(Seen') <= run.at
      BY <3>1, <3>2, JiraRanks
    <3>9. Seen' = Seen
      <4>1. Cardinality(Seen) = run.at
        BY <3>1 DEF Reading
      <4>2. Cardinality(Seen) <= Cardinality(Seen') /\ (Cardinality(Seen') = Cardinality(Seen) => Seen' = Seen)
        BY <3>7, <3>8, FS_Subset
      <4> QED
        BY <3>1, <3>8, <4>1, <4>2
    <3> QED
      BY <2>2, <3>1, <3>9 DEF Reading
  <2> QED
    BY <2>9, <2>10, <2>11
<1> QED
  BY <1>1, <1>2, <1>3, <1>4, <1>5, <1>6 DEF J!Next, J!Step


-----------------------------------------------------------------------------
(* A refresh beside the crawler.                                            *)

(* The days a refresh has not come to yet.                                  *)
Coming(d) == issues # F!Idle /\ issues.first <= d /\ d <= issues.day
SentOrComing(d) == d \in remote \/ Coming(d)

(* Files are stored oldest first; a refresh leaves no hole below its range; *)
(* what is older than a sent day was sent or will be, and so was what the   *)
(* crawl has gone past.                                                     *)
RefreshInv ==
  /\ F!TypeOK
  /\ \A d \in s3 : \A e \in 1 .. d : e \in s3
  /\ issues # F!Idle => issues.first <= issues.day
  /\ run # F!Idle => \A d \in 1 .. (run.day - 1) : d \in s3
  /\ excuses = {} =>
       /\ issues # F!Idle => \A d \in 1 .. (issues.first - 1) : d \in remote
       /\ \A d \in s3, e \in remote : d < e => SentOrComing(d)
       /\ run # F!Idle => \A d \in 1 .. (run.day - 1) : SentOrComing(d)

LEMMA RefreshStart ==
  ASSUME F!Assumptions, F!Init
  PROVE  RefreshInv
BY DEF F!Assumptions, F!Init, RefreshInv, F!TypeOK, F!Days, F!Idle

LEMMA RefreshStep ==
  ASSUME F!Assumptions, RefreshInv, F!Next
  PROVE  RefreshInv'
<1> USE DEF F!Assumptions, F!Days, F!Idle
<1>1. CASE F!CrawlStart
  <2>1. PICK d \in F!Days : F!Newest(d) /\ run' = [at |-> "store", day |-> d]
    BY <1>1 DEF F!CrawlStart
  <2>2. UNCHANGED <<clock, s3, remote, checkpoint, issues, faults, excuses>>
    BY <1>1 DEF F!CrawlStart
  <2>3. \A e \in 1 .. (d - 1) : e \in s3
    BY <2>1 DEF RefreshInv, F!TypeOK, F!Newest
  <2>4. excuses = {} => \A e \in 1 .. (d - 1) : SentOrComing(e)
    BY <2>1, <2>3 DEF RefreshInv, F!TypeOK, F!Newest
  <2> QED
    BY <2>1, <2>2, <2>3, <2>4 DEF RefreshInv, F!TypeOK, SentOrComing, Coming
<1>2. CASE F!CrawlStore
  <2>1. CASE s3 = 1 .. clock /\ run' = [run EXCEPT !.at = "send"] /\ UNCHANGED s3
    BY <1>2, <2>1 DEF F!CrawlStore, RefreshInv, F!TypeOK, SentOrComing, Coming
  <2>2. ASSUME NEW d \in (1 .. clock) \ s3, 1 .. (d - 1) \subseteq s3,
               s3' = s3 \cup {d}, UNCHANGED run
        PROVE  RefreshInv'
    <3>1. \A e \in remote : ~(d < e)
      BY <2>2 DEF RefreshInv, F!TypeOK
    <3> QED
      BY <1>2, <2>2, <3>1 DEF F!CrawlStore, RefreshInv, F!TypeOK, SentOrComing, Coming
  <2> QED
    BY <1>2, <2>1, <2>2 DEF F!CrawlStore
<1>3. CASE F!CrawlSend
  <2>1. CASE run.day \in s3
    BY <1>3, <2>1 DEF F!CrawlSend, RefreshInv, F!TypeOK, SentOrComing, Coming
  <2>2. CASE run.day \notin s3
    BY <1>3, <2>2 DEF F!CrawlSend, RefreshInv, F!TypeOK, SentOrComing, Coming
  <2> QED
    BY <2>1, <2>2
<1>4. CASE F!RefreshSend
  <2>1. CASE issues.day = issues.first
    BY <1>4, <2>1 DEF F!RefreshSend, RefreshInv, F!TypeOK, SentOrComing, Coming
  <2>2. CASE issues.day # issues.first
    BY <1>4, <2>2 DEF F!RefreshSend, RefreshInv, F!TypeOK, SentOrComing, Coming
  <2> QED
    BY <2>1, <2>2
<1>5. CASE F!Interrupted
  <2>1. CASE run' = F!Idle /\ UNCHANGED <<issues, excuses>>
    BY <1>5, <2>1 DEF F!Interrupted, RefreshInv, F!TypeOK, SentOrComing, Coming
  <2>2. CASE issues' = F!Idle /\ UNCHANGED run /\ excuses' = excuses \cup {"interrupted"}
    BY <1>5, <2>2 DEF F!Interrupted, RefreshInv, F!TypeOK
  <2> QED
    BY <1>5, <2>1, <2>2 DEF F!Interrupted
<1>6. CASE F!NextDay
  BY <1>6 DEF F!NextDay, RefreshInv, F!TypeOK, SentOrComing, Coming
<1>7. ASSUME NEW d \in F!Days, F!Index(d)
      PROVE  RefreshInv'
  BY <1>7 DEF F!Index, RefreshInv, F!TypeOK, SentOrComing, Coming
<1>8. ASSUME NEW first \in F!Days, NEW last \in F!Days, F!RefreshStart(first, last)
      PROVE  RefreshInv'
  <2>1. excuses' = {} => excuses = {} /\ \A d \in 1 .. (first - 1) : d \in remote
    BY <1>8 DEF F!RefreshStart
  <2> QED
    BY <1>8, <2>1 DEF F!RefreshStart, RefreshInv, F!TypeOK, SentOrComing, Coming
<1> QED
  BY <1>1, <1>2, <1>3, <1>4, <1>5, <1>6, <1>7, <1>8 DEF F!Next, F!Crawl

-----------------------------------------------------------------------------
(* Zendesk.                                                                 *)
InOrder ==
  /\ \A t \in Documents : remote[t].updated <= clock
  /\ checkpoint <= clock

(* The page at hand holds tickets as they were exported; one of them may    *)
(* have been updated since, at the end of the page or later.                *)
PageFits ==
  /\ checkpoint <= run.ends /\ run.ends <= clock
  /\ run.pc = "request" => run.page = {} /\ run.ends = run.since /\ checkpoint = run.ends
  /\ run.pc = "page" => run.page = {}
  /\ \A u \in run.page : u[2] <= run.ends /\ (u[2] = remote[u[1]].updated \/ remote[u[1]].updated >= run.ends)
  /\ \A u, v \in run.page : u[1] = v[1] => u = v

(* What was updated before the end of the page is in S3 or on the page.     *)
Exported ==
  \A t \in Documents :
    remote[t].updated \in 1 .. (run.ends - 1) =>
      s3[t] = remote[t].updated \/ <<t, remote[t].updated>> \in run.page

ZendeskInv ==
  /\ Z!TypeOK
  /\ Z!FiledOnce
  /\ Z!NothingPassedOver
  /\ InOrder
  /\ run # Z!Idle => PageFits /\ Exported

LEMMA ZendeskStart ==
  ASSUME Z!Assumptions, Z!Init
  PROVE  ZendeskInv
<1> USE DEF Z!Init
<1>1. Z!TypeOK
  BY DEF Z!Assumptions, Z!TypeOK, Z!Times
<1>2. Z!FiledOnce
  BY DEF Z!FiledOnce
<1>3. Z!NothingPassedOver /\ InOrder
  BY DEF Z!Assumptions, Z!NothingPassedOver, InOrder
<1> QED
  BY <1>1, <1>2, <1>3 DEF ZendeskInv

(* A page of the export leaves out nothing before its last ticket.          *)
LEMMA ExportIsInitial ==
  ASSUME Z!Assumptions, Z!TypeOK, NEW since \in Z!Times,
         NEW u \in Z!Export(since), NEW t \in Documents,
         since <= remote[t].updated, 0 < remote[t].updated, remote[t].updated < u[2]
  PROVE  <<t, remote[t].updated>> \in Z!Export(since)
<1> DEFINE hits == Z!Found(since)
           UpTo(w) == {v \in hits : v = w \/ Z!Earlier(v, w)}
           h == <<t, remote[t].updated>>
<1>1. h \in hits /\ u \in hits
  BY DEF Z!Updates, Z!Times, Z!TypeOK, Z!Export, Z!Found
<1>2. IsFiniteSet(hits)
  <2>1. IsFiniteSet(Z!Updates)
    <3>1. IsFiniteSet(Documents)
      BY SameCardinality DEF Z!Assumptions
    <3>2. IsFiniteSet(0 .. LastTime)
      BY FS_Interval DEF Z!Assumptions
    <3> QED
      BY <3>1, <3>2, FS_Product DEF Z!Updates, Z!Times
  <2> QED
    BY <2>1, FS_Subset DEF Z!Found
<1>3. UpTo(h) \subseteq UpTo(u)
  BY <1>1 DEF Z!Found, Z!Earlier, Z!Updates, Z!Times, Z!TypeOK, Z!Assumptions
<1>4. IsFiniteSet(UpTo(u))
  BY <1>2, FS_Subset
<1>5. IsFiniteSet(UpTo(h)) /\ Cardinality(UpTo(h)) <= Cardinality(UpTo(u))
  BY <1>3, <1>4, FS_Subset
<1>6. Cardinality(UpTo(h)) \in Nat /\ Cardinality(UpTo(u)) \in Nat
  BY <1>4, <1>5, FS_CardinalityType
<1>7. Z!Place(u, since) = Cardinality(UpTo(u)) /\ Z!Place(h, since) = Cardinality(UpTo(h))
  BY SameCardinality DEF Z!Place
<1>8. Z!Place(h, since) <= PageSize
  BY <1>5, <1>6, <1>7 DEF Z!Assumptions, Z!Export
<1> QED
  BY <1>1, <1>8 DEF Z!Export

LEMMA ZendeskBusy ==
  ASSUME ZendeskInv, run.pc # "idle"
  PROVE  run \in Z!Exports /\ run # Z!Idle /\ PageFits /\ Exported
BY DEF ZendeskInv, Z!TypeOK, Z!Idle

LEMMA ZendeskStep ==
  ASSUME Z!Assumptions, ZendeskInv, Z!Next
  PROVE  ZendeskInv'
<1> USE DEF Z!Assumptions, Z!Times, Z!Updates
<1>1. CASE Z!Start
  BY <1>1 DEF Z!Start, ZendeskInv, Z!TypeOK, Z!Exports, Z!Idle, PageFits, Exported, InOrder,
              Z!FiledOnce, Z!NothingPassedOver
<1>2. CASE Z!Request
  <2> DEFINE page == Z!Export(run.since)
  <2>1. UNCHANGED <<remote, clock, s3, checkpoint, faults, excuses, issues>> /\ run.pc = "request"
    BY <1>2 DEF Z!Request
  <2>2. PICK ends \in Z!Times :
          /\ \/ page = {} /\ ends = run.ends
             \/ \E u \in page : u[2] = ends /\ \A v \in page : v[2] <= ends
          /\ run' = [run EXCEPT !.pc = IF page = {} THEN "page" ELSE "file",
                                !.page = page, !.ends = ends,
                                !.last = Z!Cardinality(page) < PageSize,
                                !.asked = IF @ < 5 THEN @ + 1 ELSE @,
                                !.repeats = IF @ < 5 THEN @ + 1 ELSE @]
    BY <1>2 DEF Z!Request
  <2>3. run \in Z!Exports /\ run.since = checkpoint /\ run.ends = run.since /\ run.page = {} /\ Exported
    BY <2>1, ZendeskBusy DEF PageFits
  <2>4. run.since \in Z!Times /\ checkpoint \in Z!Times /\ clock \in Z!Times /\ Z!TypeOK
    BY <2>3 DEF ZendeskInv, Z!TypeOK, Z!Exports
  <2>5. \A u \in page : u \in Z!Updates /\ remote[u[1]].updated = u[2] /\ u[2] # 0 /\ u[2] >= run.since
    BY DEF Z!Export, Z!Found
  <2>6. /\ run'.pc = IF page = {} THEN "page" ELSE "file"
        /\ run'.page = page /\ run'.ends = ends /\ run' # Z!Idle /\ run' \in Z!Exports
    <3> DEFINE asked == IF run.asked < 5 THEN run.asked + 1 ELSE run.asked
               repeats == IF run.repeats < 5 THEN run.repeats + 1 ELSE run.repeats
               pc == IF page = {} THEN "page" ELSE "file"
               last == Z!Cardinality(page) < PageSize
    <3>1. asked \in 0 .. 5 /\ repeats \in 0 .. 5 /\ pc \in {"file", "page"} /\ last \in BOOLEAN
      BY <2>3 DEF Z!Exports
    <3>2. page \in SUBSET Z!Updates
      BY <2>5
    <3>3. run' = [run EXCEPT !.pc = pc, !.page = page, !.ends = ends, !.last = last,
                             !.asked = asked, !.repeats = repeats]
      BY <2>2
    <3> HIDE DEF asked, repeats, pc, last, page
    <3>4. run' \in Z!Exports /\ run'.pc = pc /\ run'.page = page /\ run'.ends = ends
      BY <2>3, <3>1, <3>2, <3>3 DEF Z!Exports
    <3> QED
      BY <3>1, <3>4 DEF pc, Z!Idle
  <2>7. checkpoint <= ends /\ ends <= clock
    BY <2>2, <2>3, <2>4, <2>5 DEF ZendeskInv, InOrder
  <2>8. PageFits'
    BY <2>1, <2>2, <2>4, <2>5, <2>6, <2>7 DEF PageFits
  <2>9. ASSUME NEW t \in Documents, remote[t].updated \in 1 .. (ends - 1)
        PROVE  s3[t] = remote[t].updated \/ <<t, remote[t].updated>> \in page
    <3>1. CASE remote[t].updated < run.since
      <4>1. remote[t].updated \in 1 .. (run.ends - 1)
        BY <2>3, <2>4, <2>9, <3>1 DEF Z!Times
      <4> QED
        BY <2>3, <4>1 DEF Exported
    <3>2. CASE run.since <= remote[t].updated
      <4>1. PICK u \in page : u[2] = ends
        BY <2>2, <2>3, <2>4, <2>9, <3>2
      <4>2. 0 < remote[t].updated /\ remote[t].updated < u[2]
        BY <2>4, <2>9, <4>1 DEF Z!Times
      <4> QED
        BY <2>4, <3>2, <4>2, ExportIsInitial
    <3> QED
      BY <2>4, <2>9, <3>1, <3>2
  <2>10. Exported'
    BY <2>1, <2>6, <2>9 DEF Exported
  <2> QED
    BY <2>1, <2>6, <2>8, <2>10 DEF ZendeskInv, Z!TypeOK, Z!FiledOnce, Z!NothingPassedOver, InOrder
<1>3. CASE Z!GiveUp
  BY <1>3 DEF Z!GiveUp, ZendeskInv, Z!TypeOK, Z!FiledOnce, Z!NothingPassedOver, InOrder
<1>4. CASE Z!EndPage
  <2>1. UNCHANGED <<remote, clock, s3, faults, excuses, issues>> /\ run.pc = "page"
    BY <1>4 DEF Z!EndPage
  <2>2. run \in Z!Exports /\ run.page = {} /\ run.ends <= clock /\ Exported
    BY <2>1, ZendeskBusy DEF PageFits
  <2>3. checkpoint' = run.ends /\ run.ends \in Z!Times
    BY <1>4, <2>2 DEF Z!EndPage, Z!Exports
  <2>4. Z!NothingPassedOver' /\ InOrder' /\ Z!FiledOnce'
    BY <2>1, <2>2, <2>3 DEF ZendeskInv, InOrder, Z!NothingPassedOver, Exported, Z!FiledOnce
  <2>5. CASE run.last /\ run' = Z!Idle
    BY <2>1, <2>3, <2>4, <2>5 DEF ZendeskInv, Z!TypeOK
  <2>6. CASE ~run.last
    <3>1. run' = [run EXCEPT !.pc = "request", !.since = run.ends,
                             !.repeats = IF run.since = run.ends THEN @ ELSE 0]
      BY <1>4, <2>6 DEF Z!EndPage
    <3>2. /\ run' \in Z!Exports /\ run'.pc = "request" /\ run'.since = run.ends
          /\ run'.ends = run.ends /\ run'.page = {}
      <4> DEFINE repeats == IF run.since = run.ends THEN run.repeats ELSE 0
      <4>1. repeats \in 0 .. 5
        BY <2>2 DEF Z!Exports
      <4> HIDE DEF repeats
      <4>2. run' = [run EXCEPT !.pc = "request", !.since = run.ends, !.repeats = repeats]
        BY <3>1 DEF repeats
      <4> QED
        BY <2>2, <2>3, <4>1, <4>2 DEF Z!Exports
    <3>3. PageFits' /\ Exported'
      BY <2>1, <2>2, <2>3, <3>2 DEF PageFits, Exported
    <3> QED
      BY <2>1, <2>3, <2>4, <3>2, <3>3 DEF ZendeskInv, Z!TypeOK
  <2> QED
    BY <1>4, <2>5, <2>6 DEF Z!EndPage
<1>5. ASSUME NEW u \in Z!Updates, Z!FileIssue(u)
      PROVE  ZendeskInv'
  <2>1. /\ UNCHANGED <<remote, clock, s3, checkpoint, excuses>> /\ run.pc = "file"
        /\ run' = [run EXCEPT !.pc = "store"]
    BY <1>5 DEF Z!FileIssue
  <2>2. run \in Z!Exports /\ PageFits /\ Exported
    BY <2>1, ZendeskBusy
  <2>3. \/ /\ u[1] \in Documents /\ issues[Summary[u[1]]] = 0
           /\ issues' = [issues EXCEPT ![Summary[u[1]]] = @ + 1] /\ UNCHANGED faults
        \/ faults < MaxFaults /\ faults' = faults + 1 /\ UNCHANGED issues
        \/ UNCHANGED <<issues, faults>>
    BY <1>5 DEF Z!FileIssue, Z!NotFiled
  <2>4. faults' \in 0 .. MaxFaults
    BY <2>3 DEF ZendeskInv, Z!TypeOK
  <2>5. Z!FiledOnce' /\ issues' \in [{Summary[t] : t \in Documents} -> Nat]
    <3> DEFINE S == {Summary[t] : t \in Documents}
    <3>1. issues \in [S -> Nat] /\ \A s \in S : issues[s] <= 1
      BY DEF ZendeskInv, Z!TypeOK, Z!FiledOnce
    <3>2. u[1] \in Documents => Summary[u[1]] \in S
      OBVIOUS
    <3> HIDE DEF S
    <3>3. issues' \in [S -> Nat] /\ \A s \in S : issues'[s] <= 1
      BY <2>3, <3>1, <3>2
    <3> QED
      BY <3>3 DEF Z!FiledOnce, S
  <2>6. /\ run' \in Z!Exports /\ run'.pc = "store" /\ run'.page = run.page
        /\ run'.ends = run.ends /\ run'.since = run.since
    BY <2>1, <2>2 DEF Z!Exports
  <2>7. PageFits' /\ Exported'
    BY <2>1, <2>2, <2>6 DEF PageFits, Exported
  <2> QED
    BY <2>1, <2>4, <2>5, <2>6, <2>7 DEF ZendeskInv, Z!TypeOK, Z!NothingPassedOver, InOrder
<1>6. ASSUME NEW u \in Z!Updates, Z!StoreTicket(u)
      PROVE  ZendeskInv'
  <2>1. /\ UNCHANGED <<remote, clock, checkpoint, faults, excuses, issues>> /\ run.pc = "store"
        /\ u \in run.page
        /\ s3' = [s3 EXCEPT ![u[1]] = u[2]]
        /\ run' = [run EXCEPT !.page = @ \ {u}, !.pc = IF run.page = {u} THEN "page" ELSE "file"]
    BY <1>6 DEF Z!StoreTicket, Z!IsNext
  <2>2. run \in Z!Exports /\ PageFits /\ Exported
    BY <2>1, ZendeskBusy
  <2>3. /\ run' \in Z!Exports /\ run'.page = run.page \ {u}
        /\ run'.ends = run.ends /\ run'.since = run.since
        /\ run'.pc = IF run.page = {u} THEN "page" ELSE "file"
    BY <2>1, <2>2 DEF Z!Exports
  <2>4. /\ s3' \in [Documents -> Z!Times] /\ s3'[u[1]] = u[2]
        /\ \A t \in Documents \ {u[1]} : s3'[t] = s3[t]
    BY <2>1 DEF ZendeskInv, Z!TypeOK
  <2>5. u[2] = remote[u[1]].updated \/ remote[u[1]].updated >= run.ends
    BY <2>1, <2>2 DEF PageFits
  <2>6. /\ remote[u[1]].updated \in Z!Times /\ run.ends \in Z!Times /\ checkpoint \in Z!Times
        /\ checkpoint <= run.ends
    BY <2>2 DEF ZendeskInv, Z!TypeOK, Z!Exports, PageFits
  <2>7. Z!NothingPassedOver'
    BY <2>1, <2>4, <2>5, <2>6 DEF ZendeskInv, Z!NothingPassedOver
  <2>8. Exported'
    BY <2>1, <2>2, <2>3, <2>4, <2>5, <2>6 DEF Exported
  <2>9. PageFits'
    BY <2>1, <2>2, <2>3 DEF PageFits
  <2> QED
    BY <2>1, <2>3, <2>4, <2>7, <2>8, <2>9 DEF ZendeskInv, Z!TypeOK, Z!FiledOnce, InOrder
<1>7. CASE Z!Interrupted
  BY <1>7 DEF Z!Interrupted, ZendeskInv, Z!TypeOK, Z!FiledOnce, Z!NothingPassedOver, InOrder
<1>8. ASSUME NEW t \in Documents, Z!Update(t)
      PROVE  ZendeskInv'
  <2>1. PICK now \in {clock, clock + 1} \cap (1 .. LastTime) :
          /\ clock' = now
          /\ remote' = [remote EXCEPT ![t] = [created |-> IF @.created = 0 THEN now ELSE @.created,
                                        updated |-> now]]
    BY <1>8 DEF Z!Update
  <2>2. UNCHANGED <<s3, checkpoint, run, faults, excuses, issues>>
    BY <1>8 DEF Z!Update
  <2>3. remote' \in [Documents -> [created : Z!Times, updated : Z!Times]] /\ clock \in Z!Times
        /\ checkpoint \in Z!Times
    <3>1. remote[t] \in [created : Z!Times, updated : Z!Times]
      BY DEF ZendeskInv, Z!TypeOK
    <3>2. [created |-> IF remote[t].created = 0 THEN now ELSE remote[t].created, updated |-> now]
            \in [created : Z!Times, updated : Z!Times]
      BY <2>1, <3>1
    <3> QED
      BY <2>1, <3>2 DEF ZendeskInv, Z!TypeOK
  <2>4. remote'[t].updated = now /\ \A i \in Documents \ {t} : remote'[i] = remote[i]
    BY <2>1 DEF ZendeskInv, Z!TypeOK
  <2>5. Z!TypeOK' /\ Z!FiledOnce'
    BY <2>1, <2>2, <2>3 DEF ZendeskInv, Z!TypeOK, Z!FiledOnce
  <2>6. InOrder' /\ Z!NothingPassedOver'
    BY <2>1, <2>2, <2>3, <2>4 DEF ZendeskInv, Z!TypeOK, InOrder, Z!NothingPassedOver
  <2>7. ASSUME run # Z!Idle
        PROVE  PageFits' /\ Exported'
    <3>1. run \in Z!Exports /\ PageFits /\ Exported
      BY <2>7 DEF ZendeskInv, Z!TypeOK
    <3>2. run.ends \in Z!Times /\ run.page \subseteq Z!Updates /\ run.ends <= clock
      BY <3>1 DEF Z!Exports, PageFits
    <3>3. \A u \in run.page : u[2] = remote'[u[1]].updated \/ remote'[u[1]].updated >= run.ends
      BY <2>1, <2>3, <2>4, <3>1, <3>2 DEF PageFits
    <3>4. PageFits'
      BY <2>1, <2>2, <2>3, <3>1, <3>2, <3>3 DEF PageFits
    <3>5. Exported'
      <4> SUFFICES ASSUME NEW i \in Documents, remote'[i].updated \in 1 .. (run.ends - 1)
                   PROVE  s3[i] = remote'[i].updated \/ <<i, remote'[i].updated>> \in run.page
        BY <2>2 DEF Exported
      <4>1. i # t
        BY <2>1, <2>3, <2>4, <3>2
      <4> QED
        BY <2>4, <3>1, <4>1 DEF Exported
    <3> QED
      BY <3>4, <3>5
  <2> QED
    BY <2>2, <2>5, <2>6, <2>7 DEF ZendeskInv
<1> QED
  BY <1>1, <1>2, <1>3, <1>4, <1>5, <1>6, <1>7, <1>8 DEF Z!Next, Z!Step

-----------------------------------------------------------------------------
(* Reddit; clock is the set of deleted posts.                               *)
RedditInv ==
  /\ R!TypeOK
  /\ R!NothingPassedOver
  /\ run # R!Idle =>
       /\ run.page \subseteq 1 .. remote
       /\ run.pc = "store" <=> run.page # {}
       /\ run.newest = checkpoint
       /\ run.since \in {0, run.newest}
       /\ excuses = {} /\ run.pc = "store" =>
            \A p \in run.page, n \in 1 .. remote :
              run.newest < n /\ n < p => n \in run.page \/ n \in clock

LEMMA RedditStart ==
  ASSUME R!Assumptions, R!Init
  PROVE  RedditInv
BY DEF R!Assumptions, R!Init, RedditInv, R!TypeOK, R!NothingPassedOver

(* A page that starts from the checkpoint, or from the newest post when no  *)
(* more than a page is behind, leaves no gap above the checkpoint.          *)
LEMMA ListingHasNoGap ==
  ASSUME R!Assumptions, R!TypeOK, NEW newest \in Nat, NEW since \in {0, newest},
         since = 0 => R!Cardinality(R!Newer(newest)) <= PageSize,
         NEW p \in R!Listing(since), NEW n \in 1 .. remote, newest < n, n < p, R!Alive(n)
  PROVE  n \in R!Listing(since)
<1> DEFINE newer == R!Newer(since)
           gap == R!Newer(newest)
           From(m) == {k \in newer : k >= m}
           UpTo(m) == {k \in newer : k <= m}
<1>1. IsFiniteSet(1 .. remote) /\ PageSize \in Nat /\ remote \in Nat
  BY FS_Interval DEF R!TypeOK, R!Assumptions
<1>2. IsFiniteSet(gap) /\ IsFiniteSet(newer)
  BY <1>1, FS_Subset DEF R!Newer
<1>3. n \in newer /\ p \in newer
  BY DEF R!Newer, R!Listing
<1>4. CASE since = 0
  <2>1. From(n) \subseteq gap
    BY <1>4 DEF R!Newer
  <2>2. IsFiniteSet(From(n)) /\ Cardinality(From(n)) <= Cardinality(gap)
    BY <1>2, <2>1, FS_Subset
  <2>3. Cardinality(From(n)) \in Nat /\ Cardinality(gap) \in Nat
    BY <1>2, <2>2, FS_CardinalityType
  <2>4. R!FromNewest(n, since) <= PageSize
    BY <1>1, <1>4, <2>2, <2>3, SameCardinality DEF R!FromNewest
  <2> QED
    BY <1>3, <1>4, <2>4 DEF R!Listing
<1>5. CASE since # 0 /\ R!Alive(since)
  <2>1. UpTo(n) \subseteq UpTo(p)
    BY <1>1, <1>3 DEF R!Newer
  <2>2. IsFiniteSet(UpTo(p))
    BY <1>2, FS_Subset
  <2>3. IsFiniteSet(UpTo(n)) /\ Cardinality(UpTo(n)) <= Cardinality(UpTo(p))
    BY <2>1, <2>2, FS_Subset
  <2>4. Cardinality(UpTo(n)) \in Nat /\ Cardinality(UpTo(p)) \in Nat
    BY <2>2, <2>3, FS_CardinalityType
  <2>5. R!FromOldest(p, since) = Cardinality(UpTo(p)) /\ R!FromOldest(n, since) = Cardinality(UpTo(n))
    BY SameCardinality DEF R!FromOldest
  <2>6. R!FromOldest(n, since) <= PageSize
    BY <1>1, <1>5, <2>3, <2>4, <2>5 DEF R!Listing
  <2> QED
    BY <1>3, <1>5, <2>6 DEF R!Listing
<1>6. CASE since # 0 /\ ~R!Alive(since)
  BY <1>6 DEF R!Listing
<1> QED
  BY <1>4, <1>5, <1>6

LEMMA RedditStep ==
  ASSUME R!Assumptions, RedditInv, R!Next
  PROVE  RedditInv'
<1> USE DEF R!Assumptions, R!Posts, R!Idle, R!NothingPassedOver
<1>1. CASE R!Start
  BY <1>1 DEF R!Start, RedditInv, R!TypeOK, R!Updating
<1>2. CASE R!CheckCheckpoint
  <2>1. faults' \in 0 .. MaxFaults
    <3>1. faults' = faults \/ (faults < MaxFaults /\ faults' = faults + 1)
      BY <1>2 DEF R!CheckCheckpoint
    <3> QED
      BY <3>1 DEF RedditInv, R!TypeOK
  <2>2. PICK since \in {0, run.since} : run' = [run EXCEPT !.pc = "list", !.since = since]
    BY <1>2 DEF R!CheckCheckpoint
  <2>3. UNCHANGED <<remote, clock, s3, checkpoint, excuses>> /\ run.pc = "check"
    BY <1>2 DEF R!CheckCheckpoint
  <2>4. run \in R!Updating /\ run # R!Idle
    BY <2>3 DEF RedditInv, R!TypeOK
  <2>5. /\ run' \in R!Updating /\ run'.pc = "list" /\ run'.since = since
        /\ run'.page = run.page /\ run'.newest = run.newest
    <3>1. since \in Nat
      BY <2>4 DEF R!Updating
    <3> QED
      BY <2>2, <2>4, <3>1 DEF R!Updating
  <2> QED
    BY <2>1, <2>3, <2>4, <2>5 DEF RedditInv, R!TypeOK
<1>3. CASE R!List
  <2> DEFINE page == R!Listing(run.since)
             gap == R!Newer(run.newest)
  <2>1. UNCHANGED <<remote, clock, s3, checkpoint, faults>> /\ run.pc = "list"
    BY <1>3 DEF R!List
  <2>2. /\ run' = IF page = {} THEN R!Idle
                  ELSE [run EXCEPT !.pc = "store", !.page = page]
        /\ excuses' = excuses \cup (IF run.since = 0 /\ Cardinality(gap) > PageSize
                                    THEN {"reset"} ELSE {})
    BY <1>3, SameCardinality DEF R!List
  <2>3. run \in R!Updating /\ run.newest \in Nat /\ run.since \in {0, run.newest} /\ run.page = {}
    BY <2>1 DEF RedditInv, R!TypeOK, R!Updating
  <2>4. page \subseteq 1 .. remote
    BY DEF R!Listing, R!Newer
  <2>5. excuses' = {} => excuses = {} /\ (run.since = 0 => Cardinality(gap) <= PageSize)
    <3>1. IsFiniteSet(gap)
      <4>1. IsFiniteSet(1 .. remote)
        BY FS_Interval DEF RedditInv, R!TypeOK
      <4> QED
        BY <4>1, FS_Subset DEF R!Newer
    <3>2. Cardinality(gap) \in Nat
      BY <3>1, FS_CardinalityType
    <3>3. PageSize \in Nat
      BY DEF R!Assumptions
    <3> HIDE DEF gap
    <3>4. CASE run.since = 0 /\ Cardinality(gap) > PageSize
      BY <2>2, <3>4
    <3>5. CASE ~(run.since = 0 /\ Cardinality(gap) > PageSize)
      BY <2>2, <3>2, <3>3, <3>5
    <3> QED
      BY <3>4, <3>5
  <2>6. excuses' = {} => \A p \in page, n \in 1 .. remote :
          run.newest < n /\ n < p => n \in page \/ n \in clock
    <3> SUFFICES ASSUME excuses' = {}, NEW p \in page, NEW n \in 1 .. remote,
                        run.newest < n, n < p, n \notin clock
                 PROVE  n \in page
      OBVIOUS
    <3>1. R!Alive(n) /\ R!TypeOK
      BY DEF R!Alive, RedditInv
    <3>2. run.since = 0 => R!Cardinality(R!Newer(run.newest)) <= PageSize
      BY <2>5, SameCardinality
    <3> QED
      BY <2>3, <3>1, <3>2, ListingHasNoGap
  <2>7. excuses' \subseteq {"interrupted", "reset"}
    BY <2>2 DEF RedditInv, R!TypeOK
  <2> HIDE DEF page
  <2>8. CASE page = {}
    BY <2>1, <2>2, <2>3, <2>5, <2>7, <2>8 DEF RedditInv, R!TypeOK
  <2>9. CASE page # {}
    <3>1. run' = [run EXCEPT !.pc = "store", !.page = page] /\ page \subseteq 1 .. LastPost
      BY <2>2, <2>4, <2>9 DEF RedditInv, R!TypeOK
    <3>2. run' \in R!Updating /\ run'.pc = "store" /\ run'.page = page
          /\ run'.newest = run.newest /\ run'.since = run.since
      BY <2>3, <3>1 DEF R!Updating
    <3> QED
      BY <2>1, <2>3, <2>4, <2>5, <2>6, <2>7, <2>9, <3>2 DEF RedditInv, R!TypeOK, R!Updating
  <2> QED
    BY <2>8, <2>9
<1>4. CASE R!Enough
  BY <1>4 DEF R!Enough, RedditInv, R!TypeOK
<1>5. ASSUME NEW post \in R!Posts, R!StorePost(post)
      PROVE  RedditInv'
  <2>1. /\ UNCHANGED <<remote, clock, faults, excuses>> /\ run.pc = "store"
        /\ post \in run.page /\ (\A n \in run.page : n <= post) /\ s3' = s3 \cup {post}
        /\ run \in R!Updating /\ run # R!Idle
    BY <1>5 DEF R!StorePost, RedditInv, R!TypeOK
  <2> DEFINE pc == IF run.page = {post} THEN "list" ELSE run.pc
             since == IF post > run.newest THEN post ELSE run.since
             newest == IF post > run.newest THEN post ELSE run.newest
  <2>2. run' = [run EXCEPT !.page = @ \ {post}, !.count = @ + 1, !.pc = pc,
                           !.since = since, !.newest = newest]
    BY <1>5 DEF R!StorePost
  <2>3. /\ run' \in R!Updating /\ run' # R!Idle /\ run'.pc = pc /\ run'.since = since
        /\ run'.newest = newest /\ run'.page = run.page \ {post}
    <3>1. pc \in {"list", "store"} /\ since \in Nat /\ newest \in Nat /\ run.count + 1 \in Nat
      BY <2>1 DEF R!Updating
    <3>2. run.page \ {post} \in SUBSET R!Posts
      BY <2>1 DEF R!Updating
    <3> HIDE DEF pc, since, newest
    <3> QED
      BY <2>1, <2>2, <3>1, <3>2 DEF R!Updating
  <2>4. checkpoint' = IF post > run.newest THEN post ELSE checkpoint
    BY <1>5 DEF R!StorePost
  <2>5. /\ run.page \subseteq 1 .. remote /\ run.newest = checkpoint /\ run.since \in {0, run.newest}
        /\ excuses = {} => \A p \in run.page, n \in 1 .. remote :
                            run.newest < n /\ n < p => n \in run.page \/ n \in clock
    BY <2>1 DEF RedditInv
  <2>6. remote \in Nat /\ checkpoint \in 0 .. remote /\ post \in 1 .. remote
    BY <2>1, <2>5 DEF RedditInv, R!TypeOK
  <2>7. checkpoint' \in 0 .. remote /\ run'.newest = checkpoint' /\ run'.since \in {0, run'.newest}
    BY <2>3, <2>4, <2>5, <2>6
  <2>8. R!TypeOK'
    BY <2>1, <2>3, <2>6, <2>7 DEF RedditInv, R!TypeOK
  <2>9. R!NothingPassedOver'
    <3> SUFFICES ASSUME excuses = {}, NEW n \in 1 .. checkpoint', n \notin s3', n \notin clock
                 PROVE  n \in run.page
      BY <2>1, <2>3
    <3>1. CASE n <= checkpoint
      BY <2>1, <2>6, <2>7, <3>1 DEF RedditInv
    <3>2. CASE checkpoint < n
      BY <2>1, <2>4, <2>5, <2>6, <2>7, <3>2
    <3> QED
      BY <2>6, <2>7, <3>1, <3>2
  <2>10. ASSUME excuses = {}, NEW p \in run.page \ {post}, NEW n \in 1 .. remote,
                run'.newest < n, n < p, n \notin clock
         PROVE  n \in run.page \ {post}
    BY <2>1, <2>3, <2>5, <2>6, <2>10
  <2>11. run'.pc = "store" <=> run'.page # {}
    BY <2>1, <2>3
  <2> QED
    BY <2>1, <2>3, <2>5, <2>7, <2>8, <2>9, <2>10, <2>11 DEF RedditInv
<1>6. CASE R!Interrupted
  BY <1>6 DEF R!Interrupted, RedditInv, R!TypeOK
<1>7. CASE R!Submit
  BY <1>7 DEF R!Submit, RedditInv, R!TypeOK, R!Updating
<1>8. ASSUME NEW n \in R!Posts, R!Delete(n)
      PROVE  RedditInv'
  BY <1>8 DEF R!Delete, R!Alive, RedditInv, R!TypeOK, R!Updating
<1> QED
  BY <1>1, <1>2, <1>3, <1>4, <1>5, <1>6, <1>7, <1>8 DEF R!Next, R!Step

-----------------------------------------------------------------------------
(* All of them: the source is chosen at the start.                          *)
SourcesInv ==
  \/ source = "Jira" /\ JiraInv
  \/ source = "Reddit" /\ RedditInv
  \/ source = "Appfigures" /\ AppfiguresInv
  \/ source = "Zendesk" /\ ZendeskInv
  \/ source = "refresh" /\ RefreshInv

LEMMA SourcesStart == Init => SourcesInv
BY ConstantsAssumption, JiraStart, RedditStart, AppfiguresStart, ZendeskStart, RefreshStart
   DEF Init, SourcesInv

LEMMA SourcesStep == SourcesInv /\ [Next]_vars => SourcesInv'
<1> SUFFICES ASSUME SourcesInv, [Next]_vars
             PROVE  SourcesInv'
  OBVIOUS
<1>1. CASE NextJira
  <2>1. source = "Jira" /\ J!Next /\ JiraInv
    BY <1>1 DEF NextJira, SourcesInv
  <2>2. JiraInv'
    BY <2>1, ConstantsAssumption, JiraStep
  <2> QED
    BY <1>1, <2>1, <2>2 DEF NextJira, SourcesInv
<1>2. CASE NextReddit
  <2>1. source = "Reddit" /\ R!Next /\ RedditInv
    BY <1>2 DEF NextReddit, SourcesInv
  <2>2. RedditInv'
    BY <2>1, ConstantsAssumption, RedditStep
  <2> QED
    BY <1>2, <2>1, <2>2 DEF NextReddit, SourcesInv
<1>3. CASE NextAppfigures
  <2>1. source = "Appfigures" /\ A!Next /\ AppfiguresInv
    BY <1>3 DEF NextAppfigures, SourcesInv
  <2>2. AppfiguresInv'
    BY <2>1, ConstantsAssumption, AppfiguresStep
  <2> QED
    BY <1>3, <2>1, <2>2 DEF NextAppfigures, SourcesInv
<1>4. CASE NextZendesk
  <2>1. source = "Zendesk" /\ Z!Next /\ ZendeskInv
    BY <1>4 DEF NextZendesk, SourcesInv
  <2>2. ZendeskInv'
    BY <2>1, ConstantsAssumption, ZendeskStep
  <2> QED
    BY <1>4, <2>1, <2>2 DEF NextZendesk, SourcesInv
<1>5. CASE NextRefresh
  <2>1. source = "refresh" /\ F!Next /\ RefreshInv
    BY <1>5 DEF NextRefresh, SourcesInv
  <2>2. RefreshInv'
    BY <2>1, ConstantsAssumption, RefreshStep
  <2> QED
    BY <1>5, <2>1, <2>2 DEF NextRefresh, SourcesInv
<1>6. CASE UNCHANGED vars
  <2>1. /\ source' = source /\ remote' = remote /\ clock' = clock /\ s3' = s3
        /\ checkpoint' = checkpoint /\ run' = run /\ faults' = faults
        /\ excuses' = excuses /\ issues' = issues
    BY <1>6 DEF vars
  <2>2. JiraInv => JiraInv'
    BY <2>1 DEF JiraInv, J!TypeOK, Past, J!NothingPassedOver, NoTies, Reading, Seen, FirstIn,
                FoundIn, RankIn
  <2>3. RedditInv => RedditInv'
    BY <2>1 DEF RedditInv, R!TypeOK, R!NothingPassedOver
  <2>4. AppfiguresInv => AppfiguresInv'
    BY <2>1 DEF AppfiguresInv, A!TypeOK, InBounds, Prefixes, PageFollows, Follows, Complete, A!Listed
  <2>5. ZendeskInv => ZendeskInv'
    BY <2>1 DEF ZendeskInv, Z!TypeOK, Z!FiledOnce, Z!NothingPassedOver, InOrder, PageFits, Exported
  <2>6. RefreshInv => RefreshInv'
    BY <2>1 DEF RefreshInv, F!TypeOK, SentOrComing, Coming
  <2> QED
    BY <2>1, <2>2, <2>3, <2>4, <2>5, <2>6 DEF SourcesInv
<1> QED
  BY <1>1, <1>2, <1>3, <1>4, <1>5, <1>6 DEF Next

LEMMA SourcesAlways == Spec => []SourcesInv
BY SourcesStart, SourcesStep, PTL DEF Spec

(* Types are kept, whatever is updated and whatever fails.                  *)
THEOREM TypeCorrect == Spec => []TypeOK
<1>1. SourcesInv => TypeOK
  BY DEF SourcesInv, TypeOK, JiraInv, RedditInv, AppfiguresInv, ZendeskInv, RefreshInv
<1> QED
  BY <1>1, SourcesAlways, PTL

(* No checkpoint (update_s3_if_necessary of each manager) moves past what   *)
(* is not in S3, in the circumstances each source names; nor does a refresh *)
(* (force_refresh_tickets) make the crawl pass over a file.                 *)
THEOREM NothingPassedOverCorrect == Spec => []NothingPassedOver
<1>1. JiraInv => J!NothingPassedOver
  BY DEF JiraInv
<1>2. RedditInv => R!NothingPassedOver
  BY DEF RedditInv
<1>3. AppfiguresInv => A!NothingPassedOver
  <2> SUFFICES ASSUME AppfiguresInv, excuses = {}, NEW d \in 1 .. (checkpoint - 1)
               PROVE  A!Listed(d) \subseteq s3[d]
    BY DEF A!NothingPassedOver
  <2>1. d \in A!Days /\ d < checkpoint
    BY ConstantsAssumption DEF A!Assumptions, A!Days, AppfiguresInv, A!TypeOK
  <2> QED
    BY <2>1 DEF AppfiguresInv, Complete
<1>4. ZendeskInv => Z!NothingPassedOver
  BY DEF ZendeskInv
<1>5. RefreshInv => F!NothingPassedOver
  <2> SUFFICES ASSUME RefreshInv, issues = F!Idle, excuses = {},
                      NEW d \in s3, NEW e \in checkpoint, d < e
               PROVE  d \in remote
    BY DEF F!NothingPassedOver
  <2>1. e \in remote
    BY DEF RefreshInv, F!TypeOK
  <2> QED
    BY <2>1 DEF RefreshInv, SentOrComing, Coming
<1>6. SourcesInv => NothingPassedOver
  BY <1>1, <1>2, <1>3, <1>4, <1>5 DEF SourcesInv, NothingPassedOver
<1> QED
  BY <1>6, SourcesAlways, PTL

(* While no review is retracted, what is stored of a day is the beginning   *)
(* of its listing, so the number of files says where to go on               *)
(* (update_s3_for_date), after a crash as before it.                        *)
THEOREM StoredIsPrefixCorrect == Spec => []StoredIsPrefix
<1>1. AppfiguresInv => A!StoredIsPrefix
  <2> SUFFICES ASSUME AppfiguresInv, excuses \subseteq {"late", "failed", "limit"},
                      NEW d \in A!Days
               PROVE  s3[d] = 1 .. A!Stored(d)
    BY DEF A!StoredIsPrefix
  <2>1. PICK n \in 0 .. MaxReviews : s3[d] = 1 .. n
    BY DEF AppfiguresInv, Prefixes
  <2>2. A!Stored(d) = n
    BY <2>1, ConstantsAssumption, Counts DEF AppfiguresInv, A!Assumptions
  <2> QED
    BY <2>1, <2>2
<1>2. SourcesInv => StoredIsPrefix
  BY <1>1 DEF SourcesInv, StoredIsPrefix
<1> QED
  BY <1>2, SourcesAlways, PTL

(* However often the export reads a ticket again, Jira gets one issue of a  *)
(* summary (create_jira_ticket).                                            *)
THEOREM FiledOnceCorrect == Spec => []FiledOnce
<1>1. SourcesInv => FiledOnce
  BY DEF SourcesInv, FiledOnce, ZendeskInv
<1> QED
  BY <1>1, SourcesAlways, PTL
=============================================================================
