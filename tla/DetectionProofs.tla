---------------------------- MODULE DetectionProofs ----------------------------
(***************************************************************************)
(* What the detectors of spikes and of duplicates answer for, for any       *)
(* tickets and times, any sizes of pages and batches, any number of polls   *)
(* and of failing requests.                                                 *)
(***************************************************************************)
EXTENDS Detection, SequenceTheorems, FiniteSetTheorems, WellFoundedInduction, TLAPS

(* The modules count and compare with the same operators.                   *)
LEMMA SameOperators ==
  ASSUME NEW S
  PROVE  /\ Pages!Cardinality(S) = Cardinality(S) /\ Detector!Cardinality(S) = Cardinality(S)
         /\ Pages!IsFiniteSet(S) = IsFiniteSet(S)
BY DEF Pages!Cardinality, Detector!Cardinality, Cardinality, Pages!IsFiniteSet,
       Detector!IsFiniteSet, IsFiniteSet

LEMMA Smaller ==
  ASSUME NEW a \in Nat, NEW b \in Nat
  PROVE  /\ Pages!Min({a, b}) = IF a <= b THEN a ELSE b
         /\ Detector!Min({a, b}) = IF a <= b THEN a ELSE b
<1> DEFINE m == IF a <= b THEN a ELSE b
<1>1. m \in {a, b} /\ \A x \in {a, b} : m <= x
  OBVIOUS
<1>2. \A x \in {a, b} : (\A y \in {a, b} : x <= y) => x = m
  OBVIOUS
<1>3. (CHOOSE x \in {a, b} : \A y \in {a, b} : x <= y) = m
  <2> HIDE DEF m
  <2> QED BY <1>1, <1>2
<1> QED
  BY <1>3 DEF Pages!Min, Detector!Min

-----------------------------------------------------------------------------
(* Sequences without repetitions, and sequences of them.                    *)
Elements(s) == {s[n] : n \in DOMAIN s}
Injective(s) == \A m, n \in DOMAIN s : s[m] = s[n] => m = n
AllOf(batches) == UNION {Elements(batches[b]) : b \in DOMAIN batches}
Clean(batches) ==
  /\ \A b \in DOMAIN batches : Injective(batches[b])
  /\ \A b, c \in DOMAIN batches : b # c => Elements(batches[b]) \cap Elements(batches[c]) = {}

LEMMA Joined ==
  ASSUME NEW S, NEW s \in Seq(S), NEW t \in Seq(S), Injective(s), Injective(t),
         Elements(s) \cap Elements(t) = {}
  PROVE  s \o t \in Seq(S) /\ Injective(s \o t) /\ Elements(s \o t) = Elements(s) \cup Elements(t)
<1>1. /\ s \o t \in Seq(S) /\ Len(s \o t) = Len(s) + Len(t)
      /\ \A n \in 1 .. Len(s) + Len(t) : (s \o t)[n] = IF n <= Len(s) THEN s[n] ELSE t[n - Len(s)]
  BY ConcatProperties
<1>2. /\ DOMAIN (s \o t) = 1 .. Len(s) + Len(t)
      /\ DOMAIN s = 1 .. Len(s) /\ DOMAIN t = 1 .. Len(t) /\ Len(s) \in Nat /\ Len(t) \in Nat
  BY <1>1
<1>3. ASSUME NEW n \in DOMAIN (s \o t)
      PROVE  \/ n \in DOMAIN s /\ (s \o t)[n] = s[n]
             \/ n > Len(s) /\ n - Len(s) \in DOMAIN t /\ (s \o t)[n] = t[n - Len(s)]
  BY <1>1, <1>2
<1>4. Elements(s \o t) = Elements(s) \cup Elements(t)
  <2>1. Elements(s \o t) \subseteq Elements(s) \cup Elements(t)
    BY <1>3 DEF Elements
  <2>2. ASSUME NEW n \in DOMAIN s PROVE n \in DOMAIN (s \o t) /\ (s \o t)[n] = s[n]
    BY <1>1, <1>2
  <2>3. ASSUME NEW n \in DOMAIN t
        PROVE  n + Len(s) \in DOMAIN (s \o t) /\ (s \o t)[n + Len(s)] = t[n]
    BY <1>1, <1>2
  <2>4. Elements(s) \subseteq Elements(s \o t)
    BY <2>2 DEF Elements
  <2>5. Elements(t) \subseteq Elements(s \o t)
    BY <2>3 DEF Elements
  <2> QED
    BY <2>1, <2>4, <2>5
<1>5. ASSUME NEW m \in DOMAIN (s \o t), NEW n \in DOMAIN (s \o t), (s \o t)[m] = (s \o t)[n]
      PROVE  m = n
  <2>1. \A i \in DOMAIN s, j \in DOMAIN t : s[i] # t[j]
    BY DEF Elements
  <2>2. CASE m \in DOMAIN s /\ (s \o t)[m] = s[m]
    <3>1. n \in DOMAIN s /\ (s \o t)[n] = s[n]
      BY <1>3, <1>5, <2>1, <2>2
    <3> QED BY <1>5, <2>2, <3>1 DEF Injective
  <2>3. CASE m > Len(s) /\ m - Len(s) \in DOMAIN t /\ (s \o t)[m] = t[m - Len(s)]
    <3>1. n > Len(s) /\ n - Len(s) \in DOMAIN t /\ (s \o t)[n] = t[n - Len(s)]
      BY <1>3, <1>5, <2>1, <2>3
    <3>2. m - Len(s) = n - Len(s)
      BY <1>5, <2>3, <3>1 DEF Injective
    <3> QED BY <1>2, <3>2
  <2> QED
    BY <1>3, <2>2, <2>3
<1> QED
  BY <1>1, <1>4, <1>5 DEF Injective

LEMMA BatchAdded ==
  ASSUME NEW S, NEW batches \in Seq(Seq(S)), NEW s \in Seq(S),
         Clean(batches), Injective(s), AllOf(batches) \cap Elements(s) = {}
  PROVE  /\ batches \o <<s>> \in Seq(Seq(S)) /\ Clean(batches \o <<s>>)
         /\ AllOf(batches \o <<s>>) = AllOf(batches) \cup Elements(s)
<1> DEFINE all == batches \o <<s>>
<1>1. /\ all \in Seq(Seq(S)) /\ Len(all) = Len(batches) + 1
      /\ \A n \in 1 .. Len(batches) + 1 : all[n] = IF n <= Len(batches) THEN batches[n] ELSE s
  <2>1. <<s>> \in Seq(Seq(S)) /\ Len(<<s>>) = 1 /\ <<s>>[1] = s
    OBVIOUS
  <2> QED
    BY <2>1, ConcatProperties
<1>2. /\ DOMAIN all = 1 .. Len(batches) + 1
      /\ DOMAIN batches = 1 .. Len(batches) /\ Len(batches) \in Nat
  BY <1>1
<1>3. /\ \A b \in DOMAIN batches : b \in DOMAIN all /\ all[b] = batches[b]
      /\ Len(batches) + 1 \in DOMAIN all /\ all[Len(batches) + 1] = s
      /\ \A b \in DOMAIN all : b \in DOMAIN batches \/ b = Len(batches) + 1
  BY <1>1, <1>2
<1> HIDE DEF all
<1>4. AllOf(all) = AllOf(batches) \cup Elements(s)
  BY <1>3 DEF AllOf
<1>5. \A b \in DOMAIN all : Injective(all[b])
  BY <1>3 DEF Clean
<1>6. \A b \in DOMAIN batches : Elements(batches[b]) \cap Elements(s) = {}
  BY DEF AllOf
<1>7. ASSUME NEW b \in DOMAIN all, NEW c \in DOMAIN all, b # c
      PROVE  Elements(all[b]) \cap Elements(all[c]) = {}
  BY <1>3, <1>6, <1>7 DEF Clean
<1> QED
  BY <1>1, <1>4, <1>5, <1>7 DEF Clean, all

-----------------------------------------------------------------------------
(* Pages of tickets: v1 is the index, v2 the loop, v3 the batches that were  *)
(* given to the detector, v4 the tickets that were indexed when it began,   *)
(* v5 those that were indexed between the last count and its page.          *)
Seen == AllOf(v3) \cup Elements(v2.batch)
Equalled(t) == \E s \in v1 \ {t} : Time[s] = Time[t]
Missed == {t \in v4 \ Seen : ~Equalled(t)}

(* Every ticket seen was seen once, is as new as the last one of the last   *)
(* page or newer, and was counted; of those that were there from the        *)
(* beginning only older ones are still to come; and what was counted last   *)
(* is the index without what has slipped in since.                          *)
PagesInv ==
  /\ Pages!TypeOK
  /\ Clean(v3) /\ Injective(v2.batch) /\ AllOf(v3) \cap Elements(v2.batch) = {}
  /\ Seen \subseteq v1 /\ v2.count = Cardinality(Seen)
  /\ \A t \in Seen : v2.after # 0 /\ Time[t] >= v2.after
  /\ v2.at = "idle" => v2.after = 0
  /\ v2.at # "idle" => v4 \subseteq v1
  /\ v2.at = "page" =>
       /\ v5 \subseteq v1 /\ v4 \subseteq v1 \ v5
       /\ v2.total = Cardinality(v1 \ v5)
  /\ v2.at \in {"count", "page"} =>
       \A t \in v4 \ Seen : v2.after = 0 \/ Time[t] < v2.after \/ Equalled(t)
  /\ v2.at = "done" => v2.batch = <<>> /\ Cardinality(Missed) <= Cardinality(v5)

PagesScan == [at : {"idle", "count", "page", "done"}, after : Nat, total : Nat, count : Nat,
              batch : Seq(Tickets)]

(* Sets of tickets are finite.                                              *)
LEMMA TicketsCounted ==
  ASSUME Pages!Assumptions, NEW S, S \subseteq Tickets
  PROVE  /\ IsFiniteSet(S) /\ Cardinality(S) \in Nat /\ Pages!Cardinality(S) = Cardinality(S)
         /\ \A R \in SUBSET S : Cardinality(R) <= Cardinality(S)
<1>1. IsFiniteSet(Tickets)
  BY SameOperators DEF Pages!Assumptions
<1>2. IsFiniteSet(S)
  BY <1>1, FS_Subset
<1> QED
  BY <1>2, FS_Subset, FS_CardinalityType, SameOperators

(* As many as were counted were seen: those of them that were not are no    *)
(* more than those that came after the counting.                            *)
LEMMA SlippedCount ==
  ASSUME NEW all, IsFiniteSet(all), NEW seen \in SUBSET all, NEW late \in SUBSET all,
         Cardinality(seen) >= Cardinality(all \ late)
  PROVE  Cardinality((all \ late) \ seen) <= Cardinality(late)
<1> DEFINE old == all \ late
           both == old \cap seen
<1>1. /\ IsFiniteSet(old) /\ IsFiniteSet(seen) /\ IsFiniteSet(late) /\ IsFiniteSet(both)
      /\ IsFiniteSet(old \ seen) /\ IsFiniteSet(seen \cap late)
  BY FS_Subset
<1>2. /\ Cardinality(old) \in Nat /\ Cardinality(seen) \in Nat /\ Cardinality(late) \in Nat
      /\ Cardinality(both) \in Nat /\ Cardinality(old \ seen) \in Nat
      /\ Cardinality(seen \cap late) \in Nat
  BY <1>1, FS_CardinalityType
<1>3. Cardinality(old) = Cardinality(old \ seen) + Cardinality(both)
  <2> DEFINE rest == old \ seen
  <2>a. IsFiniteSet(rest) /\ Cardinality(rest) \in Nat
    BY <1>1, <1>2
  <2>b. old = rest \cup both /\ rest \cap both = {}
    OBVIOUS
  <2> HIDE DEF old, both, rest
  <2>c. IsFiniteSet(both) /\ Cardinality(both) \in Nat
    BY <1>1, <1>2
  <2>1. Cardinality(rest \cap both) = 0
    BY <2>b, FS_EmptySet
  <2>2. Cardinality(rest \cup both) = Cardinality(rest) + Cardinality(both) - Cardinality(rest \cap both)
    BY <2>a, <2>c, FS_Union
  <2>3. Cardinality(old) = Cardinality(rest) + Cardinality(both)
    BY <2>a, <2>b, <2>c, <2>1, <2>2
  <2> QED
    BY <2>3 DEF rest
<1>4. Cardinality(seen) = Cardinality(both) + Cardinality(seen \cap late)
  <2>1. seen = both \cup (seen \cap late) /\ both \cap (seen \cap late) = {}
    OBVIOUS
  <2> DEFINE new == seen \cap late
  <2>a. IsFiniteSet(new) /\ Cardinality(new) \in Nat
    BY <1>1, <1>2
  <2>b. seen = both \cup new /\ both \cap new = {}
    BY <2>1
  <2> HIDE DEF both, new
  <2>2. Cardinality(both \cup new) = Cardinality(both) + Cardinality(new) - Cardinality(both \cap new)
    BY <1>1, <2>a, FS_Union
  <2>3. Cardinality(seen) = Cardinality(both) + Cardinality(new)
    BY <1>2, <2>a, <2>b, <2>2, FS_EmptySet
  <2> QED
    BY <2>3 DEF new
<1>5. Cardinality(seen \cap late) <= Cardinality(late)
  BY <1>1, FS_Subset
<1>6. Cardinality(seen) >= Cardinality(old)
  OBVIOUS
<1> HIDE DEF old, both
<1>7. Cardinality(old \ seen) <= Cardinality(late)
  BY <1>2, <1>3, <1>4, <1>5, <1>6
<1> QED
  BY <1>7 DEF old

LEMMA EmptySequence ==
  ASSUME NEW S
  PROVE  /\ <<>> \in Seq(S) /\ Elements(<<>>) = {} /\ Injective(<<>>) /\ Len(<<>>) = 0
         /\ Clean(<<>>) /\ AllOf(<<>>) = {}
<1>1. <<>> \in Seq(S) /\ DOMAIN <<>> = {} /\ Len(<<>>) = 0
  OBVIOUS
<1> QED
  BY <1>1 DEF Elements, Injective, Clean, AllOf

LEMMA PagesStart ==
  ASSUME Pages!Assumptions, Pages!Init
  PROVE  PagesInv
<1>1. /\ v1 = {} /\ v4 = {} /\ v5 = {} /\ v3 = <<>> /\ v2.at = "idle" /\ v2.after = 0 /\ v2.count = 0
      /\ v2.batch = <<>> /\ Pages!TypeOK
  BY DEF Pages!Init, Pages!TypeOK
<1>2. Seen = {} /\ Clean(v3) /\ Injective(v2.batch)
  BY <1>1, EmptySequence DEF Seen
<1>3. Cardinality({}) = 0
  BY FS_EmptySet
<1> QED
  BY <1>1, <1>2, <1>3 DEF PagesInv, Seen

(* What a page is.                                                          *)
LEMMA PageRead ==
  ASSUME Pages!Assumptions, v1 \subseteq Tickets, NEW after \in Nat, NEW page \in Pages!Pages(after),
         NEW hits, hits = {t \in v1 : after = 0 \/ Time[t] < after}
  PROVE  /\ page \in Seq(Tickets) /\ Injective(page) /\ Elements(page) \subseteq hits
         /\ page = <<>> => hits = {}
         /\ page # <<>> =>
              LET last == Pages!Last(page) IN
              /\ last \in Elements(page)
              /\ \A t \in Elements(page) : Time[t] >= Time[last]
              /\ \A t \in hits \ Elements(page) : Time[t] <= Time[last]
<1> DEFINE k == Pages!Min({PageSize, Pages!Cardinality(hits)})
<1>1. hits \subseteq Tickets /\ IsFiniteSet(hits) /\ Cardinality(hits) \in Nat
  <2>1. IsFiniteSet(Tickets)
    BY SameOperators DEF Pages!Assumptions
  <2> QED BY <2>1, FS_Subset, FS_CardinalityType
<1>2. PageSize \in Nat \ {0}
  BY DEF Pages!Assumptions
<1>3. k = (IF PageSize <= Cardinality(hits) THEN PageSize ELSE Cardinality(hits))
  BY <1>1, <1>2, Smaller, SameOperators
<1>4. k \in Nat /\ (k = 0 => Cardinality(hits) = 0)
  BY <1>1, <1>2, <1>3
<1>5. /\ page \in [1 .. k -> hits]
      /\ \A m \in DOMAIN page :
           /\ \A n \in DOMAIN page : m < n => page[m] # page[n] /\ Time[page[m]] >= Time[page[n]]
           /\ \A t \in hits \ Elements(page) : Time[page[m]] >= Time[t]
  BY DEF Pages!Pages, Pages!Newest, Pages!ToSet, Elements
<1> HIDE DEF k
<1>6. page \in Seq(Tickets) /\ Len(page) = k /\ DOMAIN page = 1 .. k
  BY <1>1, <1>4, <1>5
<1>7. Injective(page)
  BY <1>4, <1>5, <1>6 DEF Injective
<1>8. Elements(page) \subseteq hits
  BY <1>5 DEF Elements
<1>9. ASSUME page = <<>> PROVE hits = {}
  <2>1. k = 0
    BY <1>6, <1>9
  <2> QED BY <1>1, <1>4, <2>1, FS_EmptySet
<1>10. ASSUME page # <<>>
       PROVE  /\ page[k] \in Elements(page)
              /\ \A t \in Elements(page) : Time[t] >= Time[page[k]]
              /\ \A t \in hits \ Elements(page) : Time[t] <= Time[page[k]]
  <2>1. k \in DOMAIN page
    BY <1>4, <1>6, <1>10
  <2>2. \A t \in hits : Time[t] \in Nat
    BY <1>1 DEF Pages!Assumptions
  <2>3. ASSUME NEW n \in DOMAIN page PROVE Time[page[n]] >= Time[page[k]]
    <3>1. CASE n < k
      BY <1>5, <2>1, <3>1
    <3>2. CASE n = k
      BY <1>5, <2>1, <2>2, <3>2
    <3> QED BY <1>4, <1>6, <3>1, <3>2
  <2>4. \A t \in hits \ Elements(page) : Time[t] <= Time[page[k]]
    BY <1>5, <2>1, <2>2
  <2> QED BY <2>1, <2>3, <2>4 DEF Elements
<1> QED
  BY <1>6, <1>7, <1>8, <1>9, <1>10 DEF Pages!Last

LEMMA TicketIndexed ==
  ASSUME Pages!Assumptions, PagesInv, NEW t \in Tickets, Pages!Index(t)
  PROVE  PagesInv'
<1>1. /\ v1' = v1 \cup {t} /\ v2' = v2 /\ v3' = v3 /\ v4' = v4 /\ t \notin v1
      /\ v5' = IF v2.at = "page" THEN v5 \cup {t} ELSE v5
  BY DEF Pages!Index
<1>2. Seen' = Seen
  BY <1>1 DEF Seen
<1>3. \A s : Equalled(s) => Equalled(s)'
  BY <1>1 DEF Equalled
<1>4. Pages!TypeOK'
  BY <1>1 DEF PagesInv, Pages!TypeOK
<1>5. v2'.at \in {"count", "page"} =>
        \A s \in v4' \ Seen' : v2'.after = 0 \/ Time[s] < v2'.after \/ Equalled(s)'
  BY <1>1, <1>2, <1>3 DEF PagesInv
<1>6. v2'.at = "page" => /\ v5' \subseteq v1' /\ v4' \subseteq v1' \ v5'
                         /\ v2'.total = Cardinality(v1' \ v5')
  <2> SUFFICES ASSUME v2.at = "page"
               PROVE  /\ v5' \subseteq v1' /\ v4 \subseteq v1' \ v5'
                      /\ v2.total = Cardinality(v1' \ v5')
    BY <1>1
  <2>1. v1' \ v5' = v1 \ v5
    BY <1>1 DEF PagesInv
  <2> QED
    BY <1>1, <2>1 DEF PagesInv
<1>7. v2'.at = "done" => v2'.batch = <<>> /\ Cardinality(Missed') <= Cardinality(v5')
  <2> SUFFICES ASSUME v2.at = "done" PROVE v2.batch = <<>> /\ Cardinality(Missed') <= Cardinality(v5)
    BY <1>1
  <2>1. Missed' \in SUBSET Missed /\ Missed \subseteq Tickets /\ v5 \subseteq Tickets
    BY <1>1, <1>2, <1>3 DEF Missed, PagesInv, Pages!TypeOK
  <2>2. Cardinality(Missed') <= Cardinality(Missed) /\ Cardinality(Missed) \in Nat
        /\ Cardinality(v5) \in Nat
    BY <2>1, TicketsCounted
  <2>3. Cardinality(Missed') \in Nat
    BY <2>1, TicketsCounted
  <2> QED
    BY <2>2, <2>3 DEF PagesInv
<1> QED
  BY <1>1, <1>2, <1>4, <1>5, <1>6, <1>7 DEF PagesInv

LEMMA LoopBegins ==
  ASSUME Pages!Assumptions, PagesInv, Pages!Start
  PROVE  PagesInv'
<1>1. /\ v1' = v1 /\ v3' = v3 /\ v4' = v1 /\ v5' = v5 /\ v2' = [v2 EXCEPT !.at = "count"]
      /\ v2.at = "idle" /\ v2 \in PagesScan
  BY DEF Pages!Start, PagesInv, Pages!TypeOK, PagesScan
<1>2. /\ v2'.at = "count" /\ v2'.after = v2.after /\ v2'.count = v2.count /\ v2'.batch = v2.batch
      /\ v2' \in PagesScan
  BY <1>1 DEF PagesScan
<1>3. Seen' = Seen
  BY <1>1, <1>2 DEF Seen
<1>4. v2.after = 0
  BY <1>1 DEF PagesInv
<1> QED
  BY <1>1, <1>2, <1>3, <1>4 DEF PagesInv, Pages!TypeOK, PagesScan

LEMMA TicketsAreCounted ==
  ASSUME Pages!Assumptions, PagesInv, Pages!Count
  PROVE  PagesInv'
<1>1. /\ v1' = v1 /\ v3' = v3 /\ v4' = v4 /\ v5' = {} /\ v2.at = "count" /\ v2 \in PagesScan
      /\ v2' = [v2 EXCEPT !.at = "page", !.total = Cardinality(v1)] /\ v1 \subseteq Tickets
  BY SameOperators DEF Pages!Count, PagesInv, Pages!TypeOK, PagesScan
<1>2. /\ v2'.at = "page" /\ v2'.after = v2.after /\ v2'.count = v2.count /\ v2'.batch = v2.batch
      /\ v2' \in PagesScan /\ v2'.total = Cardinality(v1)
  BY <1>1, TicketsCounted DEF PagesScan
<1>3. Seen' = Seen /\ (\A t : Equalled(t)' = Equalled(t)) /\ v1 \ {} = v1
  BY <1>1, <1>2 DEF Seen, Equalled
<1> QED
  BY <1>1, <1>2, <1>3 DEF PagesInv, Pages!TypeOK, PagesScan

LEMMA PageTurned ==
  ASSUME Pages!Assumptions, PagesInv, Pages!Turn
  PROVE  PagesInv'
<1>1. PICK page \in Pages!Pages(v2.after) :
        LET batch == v2.batch \o page
            full  == Len(batch) > DetectorBatch
            rest  == IF full THEN <<>> ELSE batch
            count == v2.count + Len(page)
            ends  == count >= v2.total \/ page = <<>>
        IN /\ v2' = [at |-> IF ends THEN "done" ELSE "count",
                     after |-> IF page = <<>> THEN v2.after ELSE Time[Pages!Last(page)],
                     total |-> v2.total,
                     count |-> count, batch |-> IF ends THEN <<>> ELSE rest]
           /\ v3' = v3 \o (IF full THEN <<batch>> ELSE <<>>) \o (IF ends THEN <<rest>> ELSE <<>>)
  BY DEF Pages!Turn
<1> DEFINE batch == v2.batch \o page
           full  == Len(batch) > DetectorBatch
           rest  == IF full THEN <<>> ELSE batch
           given == v3 \o (IF full THEN <<batch>> ELSE <<>>)
           ends  == v2.count + Len(page) >= v2.total \/ page = <<>>
           last  == Pages!Last(page)
           hits  == {t \in v1 : v2.after = 0 \/ Time[t] < v2.after}
<1>2. /\ v2'.at = (IF ends THEN "done" ELSE "count") /\ v2'.count = v2.count + Len(page)
      /\ v2'.after = (IF page = <<>> THEN v2.after ELSE Time[last])
      /\ v2'.batch = (IF ends THEN <<>> ELSE rest)
      /\ v2' = [at |-> IF ends THEN "done" ELSE "count",
                after |-> IF page = <<>> THEN v2.after ELSE Time[last],
                total |-> v2.total,
                count |-> v2.count + Len(page), batch |-> IF ends THEN <<>> ELSE rest]
      /\ v3' = given \o (IF ends THEN <<rest>> ELSE <<>>)
  BY <1>1, SameOperators
<1>3. v1' = v1 /\ v4' = v4 /\ v5' = v5 /\ v2.at = "page"
  BY DEF Pages!Turn
<1>4. /\ v1 \subseteq Tickets /\ v4 \subseteq v1 /\ v3 \in Seq(Seq(Tickets))
      /\ v2.after \in Nat /\ v2.count \in Nat /\ v2.batch \in Seq(Tickets)
      /\ Time \in [Tickets -> Nat \ {0}] /\ v2.count = Cardinality(Seen) /\ v2.total \in Nat
      /\ v5 \subseteq v1 /\ v4 \subseteq v1 \ v5 /\ v2.total = Cardinality(v1 \ v5)
  BY <1>3 DEF PagesInv, Pages!TypeOK, Pages!Assumptions
<1>5. /\ page \in Seq(Tickets) /\ Injective(page) /\ Elements(page) \subseteq hits
      /\ page = <<>> => hits = {}
      /\ page # <<>> => /\ last \in Elements(page)
                        /\ \A t \in Elements(page) : Time[t] >= Time[last]
                        /\ \A t \in hits \ Elements(page) : Time[t] <= Time[last]
  BY <1>4, PageRead
<1>6. Seen \cap Elements(page) = {}
  <2>1. \A t \in Seen : t \in Tickets /\ v2.after # 0 /\ Time[t] >= v2.after
    BY <1>4 DEF PagesInv
  <2>2. \A t \in Seen : Time[t] \in Nat
    BY <1>4, <2>1
  <2> QED BY <1>4, <1>5, <2>1, <2>2
<1>7. /\ batch \in Seq(Tickets) /\ Injective(batch)
      /\ Elements(batch) = Elements(v2.batch) \cup Elements(page)
      /\ AllOf(v3) \cap Elements(batch) = {}
  <2>1. Elements(v2.batch) \cap Elements(page) = {} /\ Injective(v2.batch)
    BY <1>6 DEF Seen, PagesInv
  <2>2. /\ batch \in Seq(Tickets) /\ Injective(batch)
        /\ Elements(batch) = Elements(v2.batch) \cup Elements(page)
    <3> DEFINE old == v2.batch
    <3>1. old \in Seq(Tickets) /\ page \in Seq(Tickets) /\ Injective(old) /\ Injective(page)
          /\ Elements(old) \cap Elements(page) = {}
      BY <1>4, <1>5, <2>1
    <3> HIDE DEF old
    <3>2. /\ old \o page \in Seq(Tickets) /\ Injective(old \o page)
          /\ Elements(old \o page) = Elements(old) \cup Elements(page)
      BY <3>1, Joined
    <3> QED BY <3>2 DEF old
  <2> QED BY <1>6, <2>2 DEF Seen, PagesInv
<1> HIDE DEF batch
<1>8. /\ given \in Seq(Seq(Tickets)) /\ Clean(given)
      /\ rest \in Seq(Tickets) /\ Injective(rest) /\ AllOf(given) \cap Elements(rest) = {}
      /\ AllOf(given) \cup Elements(rest) = AllOf(v3) \cup Elements(batch)
  <2>1. CASE full
    <3>1. given = v3 \o <<batch>> /\ rest = <<>>
      BY <2>1
    <3>2. /\ given \in Seq(Seq(Tickets)) /\ Clean(given)
          /\ AllOf(given) = AllOf(v3) \cup Elements(batch)
      BY <1>4, <1>7, <3>1, BatchAdded DEF PagesInv
    <3> QED BY <3>1, <3>2, EmptySequence
  <2>2. CASE ~full
    <3>1. given = v3 /\ rest = batch
      BY <1>4, <2>2
    <3> QED BY <1>4, <1>7, <3>1 DEF PagesInv
  <2> QED BY <2>1, <2>2
<1> HIDE DEF given, rest
<1>9. /\ v3' \in Seq(Seq(Tickets)) /\ Clean(v3') /\ v2'.batch \in Seq(Tickets)
      /\ Injective(v2'.batch) /\ AllOf(v3') \cap Elements(v2'.batch) = {}
      /\ AllOf(v3') \cup Elements(v2'.batch) = AllOf(given) \cup Elements(rest)
  <2>1. CASE ends
    <3>1. v3' = given \o <<rest>> /\ v2'.batch = <<>>
      BY <1>2, <2>1
    <3>2. /\ given \o <<rest>> \in Seq(Seq(Tickets)) /\ Clean(given \o <<rest>>)
          /\ AllOf(given \o <<rest>>) = AllOf(given) \cup Elements(rest)
      BY <1>8, BatchAdded
    <3> QED BY <3>1, <3>2, EmptySequence
  <2>2. CASE ~ends
    <3>1. v3' = given /\ v2'.batch = rest
      BY <1>2, <1>8, <2>2
    <3> QED BY <1>8, <3>1
  <2> QED BY <2>1, <2>2
<1>10. Seen' = Seen \cup Elements(page) /\ Seen' \subseteq v1
  <2>1. Seen' = AllOf(v3') \cup Elements(v2'.batch)
    BY DEF Seen
  <2>2. Seen' = Seen \cup Elements(page)
    BY <1>7, <1>8, <1>9, <2>1 DEF Seen
  <2> QED BY <1>5, <2>2 DEF PagesInv
<1>11. v2'.count = Cardinality(Seen')
  <2>1. IsFiniteSet(Seen) /\ IsFiniteSet(Elements(page)) /\ IsFiniteSet(v1)
    <3>1. IsFiniteSet(Tickets)
      BY SameOperators DEF Pages!Assumptions
    <3>2. IsFiniteSet(v1) /\ Seen \subseteq v1 /\ Elements(page) \subseteq v1
      BY <1>4, <1>5, <3>1, FS_Subset DEF PagesInv
    <3> QED BY <3>2, FS_Subset
  <2>2. Cardinality(Elements(page)) = Len(page)
    <3>1. page \in Injection(1 .. Len(page), Elements(page)) /\ page \in Surjection(1 .. Len(page), Elements(page))
      <4>1. DOMAIN page = 1 .. Len(page) /\ page = [n \in 1 .. Len(page) |-> page[n]]
        BY <1>5
      <4>2. page \in [1 .. Len(page) -> Elements(page)]
        BY <4>1 DEF Elements
      <4> QED BY <1>5, <4>1, <4>2 DEF Injection, Surjection, Injective, Elements, IsInjective
    <3>2. Cardinality(1 .. Len(page)) = Len(page) /\ IsFiniteSet(1 .. Len(page))
      <4>1. Len(page) \in Nat
        BY <1>5
      <4>2. IsFiniteSet(1 .. Len(page)) /\ Cardinality(1 .. Len(page)) = IF 1 > Len(page) THEN 0 ELSE Len(page) - 1 + 1
        BY <4>1, FS_Interval
      <4> QED BY <4>1, <4>2
    <3> QED BY <2>1, <3>1, <3>2, FS_Surjection
  <2>3. Cardinality(Seen \cap Elements(page)) = 0
    BY <1>6, FS_EmptySet
  <2>4. Cardinality(Seen \cup Elements(page)) = Cardinality(Seen) + Cardinality(Elements(page))
    <3>1. /\ Cardinality(Seen \cup Elements(page)) =
               Cardinality(Seen) + Cardinality(Elements(page)) - Cardinality(Seen \cap Elements(page))
          /\ Cardinality(Seen) \in Nat /\ Cardinality(Elements(page)) \in Nat
      BY <2>1, FS_Union, FS_CardinalityType
    <3> QED BY <2>3, <3>1
  <2> QED BY <1>2, <1>4, <1>10, <2>2, <2>4
<1>12. v2'.after \in Nat /\ \A t \in Seen' : v2'.after # 0 /\ Time[t] >= v2'.after
  <2>1. CASE page = <<>>
    <3>1. Seen' = Seen /\ v2'.after = v2.after
      BY <1>2, <1>5, <1>10, <2>1
    <3> QED BY <1>4, <3>1 DEF PagesInv
  <2>2. CASE page # <<>>
    <3>1. v2'.after = Time[last] /\ last \in hits /\ Time[last] \in Nat \ {0}
      BY <1>2, <1>4, <1>5, <2>2
    <3>2. ASSUME NEW t \in Seen PROVE Time[t] >= Time[last]
      <4>1. v2.after # 0 /\ Time[t] >= v2.after /\ t \in Tickets
        BY <1>4 DEF PagesInv
      <4>2. Time[last] < v2.after /\ Time[t] \in Nat
        BY <1>4, <3>1, <4>1
      <4> QED BY <1>4, <3>1, <4>1, <4>2
    <3> QED BY <1>5, <1>10, <2>2, <3>1, <3>2
  <2> QED BY <2>1, <2>2
<1>13. ASSUME NEW t \in v4 \ Seen', ~Equalled(t)
       PROVE  page # <<>> /\ Time[t] < Time[last]
  <2>1. t \in v1 /\ t \notin Seen /\ t \notin Elements(page)
    BY <1>4, <1>10, <1>13
  <2>2. t \in hits
    BY <1>3, <1>13, <2>1 DEF PagesInv
  <2>3. page # <<>> /\ Time[t] <= Time[last] /\ last \in v1 /\ last # t
    BY <1>5, <2>1, <2>2
  <2>4. Time[t] # Time[last]
    BY <1>13, <2>3 DEF Equalled
  <2>5. Time[t] \in Nat /\ Time[last] \in Nat
    BY <1>4, <2>1, <2>3
  <2> QED BY <2>3, <2>4, <2>5
<1>14. \A t : Equalled(t)' = Equalled(t)
  BY <1>3 DEF Equalled
<1>15. v2'.at \in {"count", "page"} =>
         \A t \in v4' \ Seen' : v2'.after = 0 \/ Time[t] < v2'.after \/ Equalled(t)'
  BY <1>2, <1>3, <1>13, <1>14
<1>16. v2'.at = "done" => v2'.batch = <<>> /\ Cardinality(Missed') <= Cardinality(v5')
  <2> SUFFICES ASSUME ends PROVE Cardinality(Missed') <= Cardinality(v5)
    BY <1>2, <1>3
  <2>0. /\ IsFiniteSet(v1) /\ Cardinality(v5) \in Nat /\ IsFiniteSet(v5)
        /\ Missed' = {t \in v4 \ Seen' : ~Equalled(t)}
    BY <1>3, <1>4, <1>14, TicketsCounted DEF Missed
  <2>1. CASE page = <<>>
    <3>1. Missed' = {}
      BY <1>13, <2>0, <2>1
    <3>2. Cardinality({}) = 0
      BY FS_EmptySet
    <3>3. Cardinality(Missed') = 0
      BY <3>1, <3>2, Zenon
    <3> QED
      BY <2>0, <3>3
  <2>2. CASE v2.count + Len(page) >= v2.total
    <3>1. Cardinality(Seen') >= Cardinality(v1 \ v5)
      BY <1>2, <1>4, <1>11, <2>2
    <3>2. Cardinality((v1 \ v5) \ Seen') <= Cardinality(v5)
      BY <1>4, <1>10, <2>0, <3>1, SlippedCount
    <3>3. Missed' \in SUBSET ((v1 \ v5) \ Seen') /\ (v1 \ v5) \ Seen' \subseteq Tickets
      BY <1>4, <2>0
    <3>4. /\ Cardinality(Missed') <= Cardinality((v1 \ v5) \ Seen')
          /\ Cardinality((v1 \ v5) \ Seen') \in Nat /\ Cardinality(Missed') \in Nat
      BY <3>3, TicketsCounted
    <3> QED
      BY <2>0, <3>2, <3>4
  <2> QED BY <2>1, <2>2
<1>17. v2' \in PagesScan /\ v2'.at \in {"count", "done"}
  <2>1. v2.count + Len(page) \in Nat
    BY <1>4, <1>5
  <2> QED BY <1>2, <1>4, <1>9, <1>12, <2>1 DEF PagesScan
<1>18. Pages!TypeOK'
  BY <1>3, <1>4, <1>9, <1>17 DEF Pages!TypeOK, PagesScan
<1> QED
  BY <1>3, <1>4, <1>9, <1>10, <1>11, <1>12, <1>15, <1>16, <1>17, <1>18 DEF PagesInv

LEMMA PagesGoOn ==
  ASSUME Pages!Assumptions, PagesInv, Pages!Next
  PROVE  PagesInv'
BY TicketIndexed, LoopBegins, TicketsAreCounted, PageTurned DEF Pages!Next

LEMMA PagesStay ==
  ASSUME PagesInv, UNCHANGED <<v1, v2, v3, v4, v5>>
  PROVE  PagesInv'
<1>1. v1' = v1 /\ v2' = v2 /\ v3' = v3 /\ v4' = v4 /\ v5' = v5
  OBVIOUS
<1>2. Seen' = Seen /\ \A t : Equalled(t)' = Equalled(t)
  BY <1>1 DEF Seen, Equalled
<1>3. Missed' = Missed
  BY <1>1, <1>2 DEF Missed
<1> QED
  BY <1>1, <1>2, <1>3 DEF PagesInv, Pages!TypeOK

(* How often the detector was given a ticket follows from there being one   *)
(* place for it.                                                            *)
LEMMA PagesHold ==
  ASSUME Pages!Assumptions, PagesInv
  PROVE  Pages!DetectedOnce
<1> DEFINE Given(t) == {p \in (DOMAIN v3) \X (1 .. Pages!Cardinality(Tickets)) :
                          p[2] \in DOMAIN v3[p[1]] /\ v3[p[1]][p[2]] = t}
<1>1. v3 \in Seq(Seq(Tickets)) /\ Clean(v3) /\ IsFiniteSet(Tickets) /\ v1 \subseteq Tickets
  BY SameOperators DEF PagesInv, Pages!TypeOK, Pages!Assumptions
<1>2. ASSUME NEW t \in Tickets
      PROVE  Pages!Times(t) <= 1 /\ (t \in AllOf(v3) => Pages!Times(t) = 1)
  <2>1. Pages!Times(t) = Cardinality(Given(t))
    BY SameOperators DEF Pages!Times
  <2>2. ASSUME NEW p \in Given(t), NEW q \in Given(t)
        PROVE  p = q
    <3>1. /\ p[1] \in DOMAIN v3 /\ p[2] \in DOMAIN v3[p[1]] /\ v3[p[1]][p[2]] = t
          /\ q[1] \in DOMAIN v3 /\ q[2] \in DOMAIN v3[q[1]] /\ v3[q[1]][q[2]] = t
          /\ p = <<p[1], p[2]>> /\ q = <<q[1], q[2]>>
      OBVIOUS
    <3>2. t \in Elements(v3[p[1]]) /\ t \in Elements(v3[q[1]])
      BY <3>1 DEF Elements
    <3>3. p[1] = q[1]
      BY <1>1, <3>1, <3>2 DEF Clean
    <3>4. p[2] = q[2]
      BY <1>1, <3>1, <3>3 DEF Clean, Injective
    <3> QED BY <3>1, <3>3, <3>4
  <2>3. Given(t) = {} \/ \E p : Given(t) = {p}
    BY <2>2
  <2>4. Cardinality(Given(t)) <= 1 /\ (Given(t) # {} => Cardinality(Given(t)) = 1)
    <3>1. CASE Given(t) = {}
      <4>1. Cardinality({}) = 0
        BY FS_EmptySet
      <4>2. Cardinality(Given(t)) = 0
        BY <3>1, <4>1
      <4> HIDE DEF Given
      <4> QED BY <3>1, <4>2
    <3>2. CASE \E p : Given(t) = {p}
      <4>1. PICK p : Given(t) = {p}
        BY <3>2
      <4>2. Cardinality({p}) = 1
        BY FS_Singleton
      <4>3. Cardinality(Given(t)) = 1
        BY <4>1, <4>2
      <4> QED BY <4>3
    <3> QED BY <2>3, <3>1, <3>2
  <2>5. ASSUME t \in AllOf(v3) PROVE Given(t) # {}
    <3>1. PICK b \in DOMAIN v3 : t \in Elements(v3[b])
      BY <2>5 DEF AllOf
    <3>2. PICK n \in DOMAIN v3[b] : v3[b][n] = t
      BY <3>1 DEF Elements
    <3>3. v3[b] \in Seq(Tickets) /\ Injective(v3[b])
      BY <1>1, <3>1 DEF Clean
    <3>4. Len(v3[b]) <= Cardinality(Tickets) /\ Cardinality(Tickets) \in Nat
      <4>1. /\ v3[b] \in Injection(1 .. Len(v3[b]), Tickets) /\ Len(v3[b]) \in Nat
        BY <3>3 DEF Injection, Injective, IsInjective
      <4>2. Cardinality(1 .. Len(v3[b])) = Len(v3[b])
        <5>1. Cardinality(1 .. Len(v3[b])) = IF 1 > Len(v3[b]) THEN 0 ELSE Len(v3[b]) - 1 + 1
          BY <4>1, FS_Interval
        <5> QED BY <4>1, <5>1
      <4> QED BY <1>1, <4>1, <4>2, FS_Injection, FS_CardinalityType
    <3>5. n \in 1 .. Cardinality(Tickets)
      BY <3>2, <3>3, <3>4
    <3>6. <<b, n>> \in Given(t)
      BY <3>1, <3>2, <3>5, SameOperators
    <3> QED BY <3>6
  <2> QED BY <2>1, <2>4, <2>5
<1>3. ASSUME v2.at = "done"
      PROVE  Pages!Cardinality(Pages!LeftOut) <= Pages!Cardinality(v5)
  <2>1. Elements(v2.batch) = {} /\ v4 \subseteq Tickets /\ v5 \subseteq Tickets
    BY <1>1, <1>3, EmptySequence DEF PagesInv, Pages!TypeOK
  <2>2. \A t \in v4 : t \in Seen => Pages!Times(t) = 1
    BY <1>2, <2>1 DEF Seen
  <2>3. Pages!LeftOut \in SUBSET Missed /\ Missed \subseteq Tickets
    BY <2>1, <2>2 DEF Pages!LeftOut, Missed, Equalled
  <2>4. /\ Cardinality(Pages!LeftOut) <= Cardinality(Missed) /\ Cardinality(Pages!LeftOut) \in Nat
        /\ Cardinality(Missed) \in Nat /\ Cardinality(v5) \in Nat
    BY <2>1, <2>3, TicketsCounted
  <2>5. Cardinality(Missed) <= Cardinality(v5)
    BY <1>3 DEF PagesInv
  <2>6. Cardinality(Pages!LeftOut) <= Cardinality(v5)
    BY <2>4, <2>5
  <2> QED
    BY <2>6, SameOperators
<1> QED
  BY <1>2, <1>3 DEF Pages!DetectedOnce

-----------------------------------------------------------------------------
(* Places in their order.                                                   *)
Ascending(f) == \A m, n \in DOMAIN f : m < n => f[m] < f[n]

LEMMA AscendingCovers ==
  ASSUME NEW N \in Nat, NEW P, P \subseteq 1 .. N,
         NEW f \in [1 .. Cardinality(P) -> P], Ascending(f)
  PROVE  /\ IsFiniteSet(P) /\ Cardinality(P) \in Nat /\ Cardinality(P) <= N
         /\ \A p \in P : \E k \in 1 .. Cardinality(P) : f[k] = p
<1>1. IsFiniteSet(P) /\ Cardinality(P) \in Nat /\ Cardinality(P) <= N
  <2>1. IsFiniteSet(1 .. N) /\ Cardinality(1 .. N) = IF 1 > N THEN 0 ELSE N - 1 + 1
    BY FS_Interval
  <2>2. Cardinality(1 .. N) = N
    BY <2>1
  <2>3. IsFiniteSet(P) /\ Cardinality(P) <= Cardinality(1 .. N)
    BY <2>1, FS_Subset
  <2>4. Cardinality(P) \in Nat
    BY <2>3, FS_CardinalityType
  <2> QED BY <2>2, <2>3, <2>4
<1>0. \A p \in P : p \in Nat
  OBVIOUS
<1> DEFINE c == Cardinality(P)
<1>c. c \in Nat /\ DOMAIN f = 1 .. c /\ \A k \in 1 .. c : f[k] \in P
  BY <1>1
<1>2. \A m, n \in 1 .. c : f[m] = f[n] => m = n
  <2> HIDE DEF c
  <2> SUFFICES ASSUME NEW m \in 1 .. c, NEW n \in 1 .. c, f[m] = f[n], m # n
               PROVE  FALSE
    OBVIOUS
  <2>1. c \in Nat /\ f[m] \in Nat /\ f[n] \in Nat /\ DOMAIN f = 1 .. c
    BY <1>0, <1>c
  <2>2. CASE m < n
    BY <2>1, <2>2 DEF Ascending
  <2>3. CASE n < m
    BY <2>1, <2>3 DEF Ascending
  <2> QED BY <2>1, <2>2, <2>3
<1>3. f \in Injection(1 .. c, P)
  BY <1>2 DEF Injection, IsInjective
<1>4. IsFiniteSet(1 .. c) /\ Cardinality(1 .. c) = c
  <2> HIDE DEF c
  <2>1. IsFiniteSet(1 .. c) /\ Cardinality(1 .. c) = IF 1 > c THEN 0 ELSE c - 1 + 1
    BY <1>c, FS_Interval
  <2> QED BY <1>c, <2>1
<1>5. f \in Surjection(1 .. c, P)
  <2> HIDE DEF c
  <2>1. Cardinality(1 .. c) = Cardinality(P)
    BY <1>4 DEF c
  <2> QED BY <1>1, <1>3, <2>1, FS_Injection
<1> QED
  BY <1>1, <1>5 DEF Surjection

LEMMA AscendingExists ==
  ASSUME NEW N \in Nat, NEW P, P \subseteq 1 .. N
  PROVE  \E f \in [1 .. Cardinality(P) -> P] : Ascending(f)
<1> DEFINE c == Cardinality(P)
           upTo(p) == {q \in P : q <= p}
           rank == [p \in P |-> Cardinality(upTo(p))]
<1>0. \A p \in P : p \in Nat
  OBVIOUS
<1>1. IsFiniteSet(P) /\ c \in Nat
  <2>1. IsFiniteSet(1 .. N)
    BY FS_Interval
  <2> QED BY <2>1, FS_Subset, FS_CardinalityType
<1>2. ASSUME NEW p \in P
      PROVE  IsFiniteSet(upTo(p)) /\ rank[p] \in 1 .. c /\ rank[p] = Cardinality(upTo(p))
  <2>1. upTo(p) \in SUBSET P /\ p \in upTo(p)
    OBVIOUS
  <2>2. IsFiniteSet(upTo(p)) /\ Cardinality(upTo(p)) <= c /\ Cardinality(upTo(p)) \in Nat
    BY <1>1, <2>1, FS_Subset, FS_CardinalityType
  <2>3. Cardinality(upTo(p)) # 0
    BY <2>1, <2>2, FS_EmptySet
  <2> QED BY <1>1, <2>2, <2>3
<1>3. ASSUME NEW p \in P, NEW q \in P, p <= q PROVE rank[p] <= rank[q] /\ (p # q => rank[p] # rank[q])
  <2>1. upTo(p) \in SUBSET upTo(q) /\ p \in Nat /\ q \in Nat
    <3>1. p \in Nat /\ q \in Nat /\ \A x \in P : x \in Nat
      BY <1>0
    <3>2. ASSUME NEW x \in P, x <= p PROVE x <= q
      <4>1. x \in Nat
        BY <3>1
      <4> QED BY <1>3, <3>1, <3>2, <4>1
    <3> QED BY <3>1, <3>2
  <2>2. Cardinality(upTo(p)) <= Cardinality(upTo(q))
    BY <1>2, <2>1, FS_Subset
  <2>3. ASSUME p # q PROVE Cardinality(upTo(p)) # Cardinality(upTo(q))
    <3>1. q \in upTo(q) /\ q \notin upTo(p)
      BY <1>3, <2>1, <2>3
    <3> QED BY <1>2, <2>1, <3>1, FS_Subset
  <2> QED BY <1>2, <2>2, <2>3
<1>4. rank \in [P -> 1 .. c]
  BY <1>2
<1>5. \A p, q \in P : rank[p] = rank[q] => p = q
  <2> SUFFICES ASSUME NEW p \in P, NEW q \in P, rank[p] = rank[q], p # q PROVE FALSE
    OBVIOUS
  <2>1. p \in Nat /\ q \in Nat
    OBVIOUS
  <2> HIDE DEF rank
  <2> QED BY <1>3, <2>1
<1> HIDE DEF rank
<1>6. rank \in Surjection(P, 1 .. c)
  <2>1. rank \in Injection(P, 1 .. c)
    BY <1>4, <1>5 DEF Injection, IsInjective
  <2>2. IsFiniteSet(1 .. c) /\ Cardinality(1 .. c) = c
    <3>1. IsFiniteSet(1 .. c) /\ Cardinality(1 .. c) = IF 1 > c THEN 0 ELSE c - 1 + 1
      BY <1>1, FS_Interval
    <3> QED BY <1>1, <3>1
  <2> QED BY <2>1, <2>2, FS_Injection
<1> DEFINE f == [k \in 1 .. c |-> CHOOSE p \in P : rank[p] = k]
<1>7. \A k \in 1 .. c : f[k] \in P /\ rank[f[k]] = k
  <2>1. \A k \in 1 .. c : \E p \in P : rank[p] = k
    BY <1>6 DEF Surjection
  <2> QED BY <2>1
<1>8. f \in [1 .. c -> P] /\ DOMAIN f = 1 .. c
  BY <1>7
<1> HIDE DEF f
<1>9. ASSUME NEW m \in 1 .. c, NEW n \in 1 .. c, m < n PROVE f[m] < f[n]
  <2>1. f[m] \in P /\ f[n] \in P /\ rank[f[m]] = m /\ rank[f[n]] = n
    BY <1>7
  <2>2. f[m] \in Nat /\ f[n] \in Nat
    BY <1>0, <2>1
  <2>3. CASE f[n] <= f[m]
    <3>1. n <= m
      BY <1>3, <2>1, <2>3
    <3> QED BY <1>1, <1>9, <3>1
  <2> QED BY <2>2, <2>3
<1> QED
  BY <1>8, <1>9 DEF Ascending

(* The elements of a sequence that are in a set: at places in their order.  *)
Places(s, set) == {n \in DOMAIN s : s[n] \in set}
AtPlaces(kept, s, P) ==
  \E f \in [1 .. Cardinality(P) -> P] :
    /\ Ascending(f)
    /\ \A p \in P : \E k \in 1 .. Cardinality(P) : f[k] = p
    /\ \A k \in 1 .. Cardinality(P) : kept[k] = s[f[k]]

LEMMA KeptInOrder ==
  ASSUME NEW S, NEW s \in Seq(S), NEW set
  PROVE  LET P == Places(s, set)
             kept == Detector!Keep(s, set)
         IN /\ IsFiniteSet(P) /\ Cardinality(P) \in Nat /\ Cardinality(P) <= Len(s)
            /\ kept \in Seq(S) /\ Len(kept) = Cardinality(P) /\ AtPlaces(kept, s, P)
<1> DEFINE P == Places(s, set)
           kept == Detector!Keep(s, set)
           f == CHOOSE g \in [1 .. Cardinality(P) -> P] : Ascending(g)
           N == Len(s)
<1>1. P \subseteq 1 .. N /\ N \in Nat
  BY DEF Places
<1>2. kept = [k \in DOMAIN f |-> s[f[k]]]
  <2> DEFINE order(c) == CHOOSE g \in [1 .. c -> P] : \A m, n \in DOMAIN g : m < n => g[m] < g[n]
  <2>1. kept = [k \in DOMAIN order(Detector!Cardinality(P)) |-> s[order(Detector!Cardinality(P))[k]]]
    BY DEF Detector!Keep, Places
  <2>2. Detector!Cardinality(P) = Cardinality(P)
    BY SameOperators
  <2>3. f = order(Cardinality(P))
    BY DEF Ascending
  <2> HIDE DEF order, f
  <2> QED BY <2>1, <2>2, <2>3
<1>3. \A n \in 1 .. N : s[n] \in S
  OBVIOUS
<1> HIDE DEF N, P, kept
<1>4. f \in [1 .. Cardinality(P) -> P] /\ Ascending(f)
  BY <1>1, AscendingExists
<1> HIDE DEF f
<1>5. /\ IsFiniteSet(P) /\ Cardinality(P) \in Nat /\ Cardinality(P) <= N
      /\ \A p \in P : \E k \in 1 .. Cardinality(P) : f[k] = p
  BY <1>1, <1>4, AscendingCovers, ZenonT(60)
<1>6. \A k \in 1 .. Cardinality(P) : s[f[k]] \in S
  BY <1>1, <1>3, <1>4
<1>7. kept = [k \in 1 .. Cardinality(P) |-> s[f[k]]]
  BY <1>2, <1>4
<1>8. kept \in Seq(S) /\ Len(kept) = Cardinality(P)
  BY <1>5, <1>6, <1>7
<1>9. \A k \in 1 .. Cardinality(P) : kept[k] = s[f[k]]
  BY <1>7
<1>10. AtPlaces(kept, s, P)
  BY <1>4, <1>5, <1>9 DEF AtPlaces
<1> QED
  BY <1>5, <1>8, <1>10 DEF N, P, kept

LEMMA ElementsKept ==
  ASSUME NEW S, NEW s \in Seq(S), NEW set
  PROVE  Elements(Detector!Keep(s, set)) = Elements(s) \cap set
<1> DEFINE P == Places(s, set)
           kept == Detector!Keep(s, set)
<1>1. /\ Cardinality(P) \in Nat /\ kept \in Seq(S) /\ Len(kept) = Cardinality(P)
      /\ AtPlaces(kept, s, P)
  BY KeptInOrder
<1>2. \A n : n \in P <=> n \in DOMAIN s /\ s[n] \in set
  BY DEF Places
<1> HIDE DEF P, kept
<1>3. PICK f \in [1 .. Cardinality(P) -> P] :
        /\ \A p \in P : \E k \in 1 .. Cardinality(P) : f[k] = p
        /\ \A k \in 1 .. Cardinality(P) : kept[k] = s[f[k]]
  BY <1>1 DEF AtPlaces
<1>4. DOMAIN kept = 1 .. Cardinality(P)
  BY <1>1
<1>5. \A k \in DOMAIN kept : kept[k] \in Elements(s) \cap set
  BY <1>2, <1>3, <1>4 DEF Elements
<1>6. ASSUME NEW n \in DOMAIN s, s[n] \in set
      PROVE  \E k \in DOMAIN kept : kept[k] = s[n]
  BY <1>2, <1>3, <1>4, <1>6
<1>7. Elements(kept) = Elements(s) \cap set
  BY <1>5, <1>6 DEF Elements
<1> QED
  BY <1>7 DEF kept

(* What a batch takes away: the first ones are not kept any more.           *)
LEMMA BatchLeaves ==
  ASSUME NEW S, NEW s \in Seq(S), NEW set, NEW size \in Nat, NEW less,
         less = set \ Elements(Detector!First(Detector!Keep(s, set), size))
  PROVE  \/ Detector!Keep(s, less) = <<>>
         \/ Len(Detector!Keep(s, less)) + size <= Len(Detector!Keep(s, set))
<1> DEFINE P == Places(s, set)
           Q == Places(s, less)
           c == Cardinality(P)
           kept == Detector!Keep(s, set)
           first == Detector!First(kept, size)
<1>1. /\ IsFiniteSet(P) /\ c \in Nat /\ kept \in Seq(S) /\ Len(kept) = c
      /\ AtPlaces(kept, s, P)
  BY KeptInOrder
<1>2. /\ IsFiniteSet(Q) /\ Cardinality(Q) \in Nat /\ Detector!Keep(s, less) \in Seq(S)
      /\ Len(Detector!Keep(s, less)) = Cardinality(Q)
  BY KeptInOrder
<1>3. Q = {n \in P : s[n] \notin Elements(first)}
  BY DEF Places
<1> HIDE DEF kept, P
<1>4. \A k \in 1 .. c : k <= size => kept[k] \in Elements(first)
  <2>1. Detector!Min({size, c}) = IF size <= c THEN size ELSE c
    BY <1>1, Smaller
  <2> DEFINE m == IF size <= c THEN size ELSE c
  <2>2. first = SubSeq(kept, 1, m) /\ m \in 0 .. c
    <3>1. first = SubSeq(kept, 1, Detector!Min({size, Len(kept)}))
      BY DEF Detector!First
    <3>2. first = SubSeq(kept, 1, Detector!Min({size, c}))
      BY <1>1, <3>1
    <3> HIDE DEF c, first
    <3>3. Detector!Min({size, c}) = m
      BY <2>1
    <3>4. c \in Nat
      BY <1>1
    <3>5. m \in 0 .. c
      BY <3>4
    <3> QED BY <3>2, <3>3, <3>5
  <2>3. DOMAIN first = 1 .. m /\ \A k \in 1 .. m : first[k] = kept[k]
    BY <1>1, <2>2
  <2>4. \A k \in 1 .. c : k <= size => k \in 1 .. m
    BY <1>1
  <2> QED BY <2>3, <2>4 DEF Elements
<1> HIDE DEF first
<1>5. PICK f \in [1 .. c -> P] :
        /\ \A p \in P : \E k \in 1 .. c : f[k] = p
        /\ \A k \in 1 .. c : kept[k] = s[f[k]]
  BY <1>1 DEF AtPlaces
<1> HIDE DEF c, Q
<1>6. ASSUME NEW p \in Q PROVE \E k \in size + 1 .. c : f[k] = p
  <2>1. PICK k \in 1 .. c : f[k] = p
    BY <1>3, <1>5
  <2>2. ~(k <= size)
    BY <1>3, <1>4, <1>5, <2>1
  <2> QED BY <1>1, <2>1, <2>2
<1>7. CASE c <= size
  <2>1. Q = {}
    BY <1>1, <1>6, <1>7
  <2>2. Len(Detector!Keep(s, less)) = 0
    BY <1>2, <2>1, FS_EmptySet
  <2> QED BY <1>2, <2>2
<1>8. CASE size < c
  <2> DEFINE I == {k \in size + 1 .. c : f[k] \in Q}
             g == [k \in I |-> f[k]]
  <2>1. IsFiniteSet(size + 1 .. c) /\ Cardinality(size + 1 .. c) = c - size
    <3>1. size + 1 \in Int /\ c \in Int
      BY <1>1
    <3>2. /\ IsFiniteSet(size + 1 .. c)
          /\ Cardinality(size + 1 .. c) = IF size + 1 > c THEN 0 ELSE c - (size + 1) + 1
      BY <3>1, FS_Interval
    <3> QED BY <1>1, <1>8, <3>2
  <2>2. IsFiniteSet(I) /\ Cardinality(I) <= c - size /\ Cardinality(I) \in Nat
    <3>1. I \in SUBSET (size + 1 .. c)
      OBVIOUS
    <3> HIDE DEF I
    <3>2. IsFiniteSet(I) /\ Cardinality(I) <= Cardinality(size + 1 .. c) /\ Cardinality(I) \in Nat
      BY <2>1, <3>1, FS_Subset, FS_CardinalityType
    <3> QED BY <2>1, <3>2
  <2>3. g \in Surjection(I, Q)
    BY <1>6 DEF Surjection
  <2>4. Cardinality(Q) <= Cardinality(I)
    <3> HIDE DEF I, g
    <3> QED BY <2>2, <2>3, FS_Surjection
  <2> HIDE DEF I
  <2>5. Cardinality(Q) + size <= c
    BY <1>1, <1>2, <2>2, <2>4
  <2> QED BY <1>1, <1>2, <2>5 DEF kept, c
<1> QED
  BY <1>1, <1>7, <1>8

-----------------------------------------------------------------------------
(* Questions about duplicates: v1 is where find_duplicates is, v2 the hashes *)
(* of the prompts, v3 what the service has answered, v4 what was fetched, v5 *)
(* what is found, v6 the record.                                            *)
Readable == Elements(Others) \ (Unreadable \cup {Issue})

(* All prompts are sent before the first poll, and all answers are fetched  *)
(* when the polls end; once the service has answered all, it goes on        *)
(* having answered all.                                                     *)
AskInv ==
  /\ Detector!TypeOK /\ v2 \in Seq(Elements(Others))
  /\ v1 \in {"poll", "answered", "timeout", "done"} => v2 = Detector!Messages
  /\ v1 \in {"answered", "done"} => v4 = Elements(v2)
  /\ v1 = "send" => v6.polls = 0 /\ ~v6.early
  /\ v6.early => v3 = Elements(v2)
  /\ Detector!PollsMakeProgress
  /\ Detector!VerdictsFit

LEMMA SetOfElements ==
  ASSUME NEW s
  PROVE  Detector!ToSet(s) = Elements(s)
BY DEF Detector!ToSet, Elements

LEMMA AskedAbout ==
  ASSUME Detector!Assumptions
  PROVE  /\ Detector!Messages \in Seq(Elements(Others)) /\ Elements(Detector!Messages) = Readable
         /\ Detector!IssuesToTest = Detector!Messages
         /\ AskBatch \in Nat \ {0} /\ MaxPolls \in Nat \ {0} /\ MaxFaults \in Nat
<1> DEFINE set == Elements(Others) \ (Unreadable \cup {Issue})
<1>1. Others \in Seq(Elements(Others))
  BY SetOfElements DEF Detector!Assumptions
<1>2. Detector!Messages = Detector!Keep(Others, set) /\ Detector!IssuesToTest = Detector!Messages
  BY SetOfElements DEF Detector!Messages, Detector!IssuesToTest
<1>3. Detector!Keep(Others, set) \in Seq(Elements(Others))
  BY <1>1, KeptInOrder
<1>4. Elements(Detector!Keep(Others, set)) = Elements(Others) \cap set
  BY <1>1, ElementsKept
<1>5. AskBatch \in Nat \ {0} /\ MaxPolls \in Nat \ {0} /\ MaxFaults \in Nat
  BY DEF Detector!Assumptions
<1> QED
  BY <1>2, <1>3, <1>4, <1>5 DEF Readable

LEMMA AskStart ==
  ASSUME Detector!Assumptions, Detector!Init
  PROVE  AskInv
<1>1. /\ v1 = "send" /\ v2 = <<>> /\ v3 = {} /\ v4 = {} /\ v5 = Detector!Nothing
      /\ v6 = [polls |-> 0, faults |-> 0, early |-> FALSE]
  BY DEF Detector!Init
<1>2. Detector!IsPrefix(v2, Detector!Messages)
  <2>1. Len(v2) = 0 /\ Len(Detector!Messages) \in Nat /\ Detector!Messages \in Seq(Elements(Others))
    BY <1>1, AskedAbout
  <2>2. SubSeq(v2, 1, 0) = <<>> /\ SubSeq(Detector!Messages, 1, 0) = <<>>
    BY <1>1, <2>1
  <2> QED BY <2>1, <2>2 DEF Detector!IsPrefix
<1>3. v5 \in [duplicates : Seq(Detector!ToSet(Others)), rest : Seq(Detector!ToSet(Others)), label : BOOLEAN]
  BY <1>1 DEF Detector!Nothing
<1>4. v6 \in [polls : 0 .. MaxPolls, faults : 0 .. MaxFaults, early : BOOLEAN]
  BY <1>1, AskedAbout
<1>5. v2 \in Seq(Elements(Others))
  BY <1>1
<1> QED
  BY <1>1, <1>2, <1>3, <1>4, <1>5
     DEF AskInv, Detector!TypeOK, Detector!PollsMakeProgress, Detector!VerdictsFit

LEMMA PromptsSent ==
  ASSUME Detector!Assumptions, v2 \in Seq(Elements(Others)), Detector!IsPrefix(v2, Detector!Messages),
         v2' = v2 \o Detector!First(Detector!Rest(Detector!Messages, Len(v2)), AskBatch)
  PROVE  /\ v2' \in Seq(Elements(Others)) /\ Detector!IsPrefix(v2', Detector!Messages)
         /\ Elements(v2) \subseteq Elements(v2')
<1> DEFINE S == Elements(Others)
           all == Detector!Messages
           n == Len(v2)
           N == Len(all)
           rest == Detector!Rest(all, n)
           size == AskBatch
           m == IF size <= N - n THEN size ELSE N - n
<1>0. /\ all \in Seq(S) /\ v2 \in Seq(S) /\ Detector!IsPrefix(v2, all) /\ size \in Nat
      /\ v2' = v2 \o Detector!First(Detector!Rest(all, Len(v2)), size)
  BY AskedAbout
<1> HIDE DEF S, all, size
<1>1. n \in Nat /\ N \in Nat /\ n <= N /\ \A k \in 1 .. n : v2[k] = all[k]
  <2>1. n \in Nat /\ N \in Nat /\ n <= N /\ SubSeq(v2, 1, n) = SubSeq(all, 1, n)
    BY <1>0 DEF Detector!IsPrefix
  <2>2. \A k \in 1 .. n : SubSeq(v2, 1, n)[k] = v2[k] /\ SubSeq(all, 1, n)[k] = all[k]
    BY <2>1
  <2> QED BY <2>1, <2>2
<1>2. rest = SubSeq(all, n + 1, N)
  <2>1. Detector!Min({n, N}) = n
    BY <1>1, Smaller
  <2> QED BY <2>1 DEF Detector!Rest
<1> HIDE DEF n, N, rest
<1>3. rest \in Seq(S) /\ Len(rest) = N - n /\ \A k \in 1 .. N - n : rest[k] = all[n + k]
  <2>1. N - n \in Nat /\ all \in Seq(S) /\ Len(all) = N
    BY <1>0, <1>1 DEF N
  <2>2. n + 1 \in 1 .. N + 1 /\ N \in n .. N
    BY <1>1
  <2> DEFINE from == n + 1
  <2>3. from \in 1 .. Len(all) + 1 /\ N \in from - 1 .. Len(all)
    BY <1>1, <2>1, <2>2
  <2>4. /\ from = n + 1 /\ (from <= N => N - from + 1 = N - n) /\ (~(from <= N) => N - n = 0)
        /\ N - from + 1 = N - n /\ \A k \in 1 .. N - n : from + k - 1 = n + k
    BY <1>1
  <2> HIDE DEF from
  <2>5. /\ SubSeq(all, from, N) \in Seq(S)
        /\ Len(SubSeq(all, from, N)) = IF from <= N THEN N - from + 1 ELSE 0
        /\ \A k \in 1 .. N - from + 1 : SubSeq(all, from, N)[k] = all[from + k - 1]
    BY <1>0, <2>3, SubSeqProperties
  <2> QED BY <1>2, <2>4, <2>5
<1>4. /\ m \in 0 .. N - n /\ Detector!First(rest, size) = SubSeq(rest, 1, m)
  <2>1. N - n \in Nat
    BY <1>1
  <2>2. Detector!Min({size, Len(rest)}) = m
    BY <1>0, <1>3, <2>1, Smaller
  <2>3. m \in 0 .. N - n
    BY <1>0, <2>1
  <2> HIDE DEF m
  <2> QED BY <2>2, <2>3 DEF Detector!First
<1> HIDE DEF m
<1>5. /\ v2' \in Seq(S) /\ Len(v2') = n + m
      /\ \A k \in 1 .. n + m : v2'[k] = IF k <= n THEN v2[k] ELSE rest[k - n]
  <2> DEFINE part == SubSeq(rest, 1, m)
  <2>1. part \in Seq(S) /\ Len(part) = m /\ \A k \in 1 .. m : part[k] = rest[k]
    BY <1>1, <1>3, <1>4
  <2> HIDE DEF part
  <2>2. v2' = v2 \o part /\ Len(v2) = n
    BY <1>0, <1>4 DEF part, rest, n
  <2>3. /\ v2' \in Seq(S) /\ Len(v2') = n + m
        /\ \A k \in 1 .. n + m : v2'[k] = IF k <= n THEN v2[k] ELSE part[k - n]
    <3>1. /\ v2 \o part \in Seq(S) /\ Len(v2 \o part) = Len(v2) + Len(part)
          /\ \A k \in 1 .. Len(v2) + Len(part) : (v2 \o part)[k] = IF k <= Len(v2) THEN v2[k] ELSE part[k - Len(v2)]
      BY <1>0, <2>1, ConcatProperties
    <3> QED BY <2>1, <2>2, <3>1
  <2>4. \A k \in 1 .. n + m : ~(k <= n) => k - n \in 1 .. m
    BY <1>1, <1>4
  <2> QED BY <2>1, <2>3, <2>4
<1>6. \A k \in 1 .. n + m : v2'[k] = all[k]
  <2> SUFFICES ASSUME NEW k \in 1 .. n + m PROVE v2'[k] = all[k]
    OBVIOUS
  <2>1. CASE k <= n
    <3>1. k \in 1 .. n
      BY <1>1, <1>4, <2>1
    <3> QED BY <1>1, <1>5, <2>1, <3>1
  <2>2. CASE ~(k <= n)
    <3>1. k - n \in 1 .. N - n /\ n + (k - n) = k
      BY <1>1, <1>4, <2>2
    <3> QED BY <1>3, <1>5, <2>2, <3>1
  <2> QED BY <2>1, <2>2
<1>7. n + m <= N /\ n + m \in Nat
  BY <1>1, <1>4
<1>8. SubSeq(v2', 1, n + m) = SubSeq(all, 1, n + m)
  <2>1. /\ SubSeq(v2', 1, n + m) = [k \in 1 .. n + m |-> v2'[k]]
        /\ SubSeq(all, 1, n + m) = [k \in 1 .. n + m |-> all[k]]
    BY <1>5, <1>7 DEF N
  <2> QED BY <1>6, <2>1
<1>9. Detector!IsPrefix(v2', all)
  BY <1>5, <1>7, <1>8 DEF Detector!IsPrefix, N
<1>10. \A k \in DOMAIN v2 : k \in DOMAIN v2' /\ v2'[k] = v2[k]
  <2>1. DOMAIN v2 = 1 .. n /\ DOMAIN v2' = 1 .. n + m
    BY <1>5 DEF n
  <2>2. \A k \in 1 .. n : k \in 1 .. n + m /\ k <= n
    BY <1>1, <1>4
  <2> QED BY <1>5, <2>1, <2>2
<1> QED
  BY <1>5, <1>9, <1>10 DEF Elements, S, all

(* The record, and that the other facts follow from a few.                  *)
Record6 == [polls : 0 .. MaxPolls, faults : 0 .. MaxFaults, early : BOOLEAN]

LEMMA FaultCounted ==
  ASSUME Detector!Assumptions, v6 \in Record6, v6.faults < MaxFaults,
         v6' = [v6 EXCEPT !.faults = @ + 1]
  PROVE  v6' \in Record6 /\ v6'.polls = v6.polls /\ v6'.early = v6.early
<1>1. v6.faults \in 0 .. MaxFaults /\ MaxFaults \in Nat
  BY AskedAbout DEF Record6
<1>2. v6.faults + 1 \in 0 .. MaxFaults
  BY <1>1
<1> QED
  BY <1>2 DEF Record6

LEMMA PromptSent ==
  ASSUME Detector!Assumptions, AskInv, Detector!Send
  PROVE  AskInv'
<1>1. /\ v1 = "send" /\ v3' = v3 /\ v4' = v4 /\ v5' = v5 /\ v6.polls = 0 /\ ~v6.early
      /\ v6 \in Record6
  BY DEF Detector!Send, AskInv, Detector!TypeOK, Record6
<1>2. /\ v1' \in {"send", "failed"} /\ v6' \in Record6 /\ ~v6'.early
      /\ v1' = "send" => v6'.polls = 0
  <2>1. CASE v1' = v1 /\ v6' = v6
    BY <1>1, <2>1
  <2>2. CASE Detector!Raises
    BY <1>1, <2>2, FaultCounted DEF Detector!Raises
  <2> QED BY <2>1, <2>2 DEF Detector!Send
<1>3. /\ Detector!IsPrefix(v2', Detector!Messages) /\ Elements(v2) \subseteq Elements(v2')
      /\ v2' \in Seq(Elements(Others))
  <2>1. CASE v2' = v2
    BY <2>1 DEF AskInv, Detector!TypeOK
  <2>2. CASE v2' = v2 \o Detector!First(Detector!Rest(Detector!Messages, Len(v2)), AskBatch)
    <3>1. v2 \in Seq(Elements(Others)) /\ Detector!IsPrefix(v2, Detector!Messages)
      BY DEF AskInv, Detector!TypeOK
    <3> QED BY <2>2, <3>1, PromptsSent
  <2> QED BY <2>1, <2>2 DEF Detector!Send
<1>4. Detector!Messages' = Detector!Messages
  BY DEF Detector!Messages
<1>5. Detector!TypeOK'
  <2>1. v4 \subseteq v3 /\ v3 \subseteq Elements(v2)
    BY SetOfElements DEF AskInv, Detector!TypeOK
  <2>2. v3' \subseteq Detector!ToSet(v2')
    BY <1>1, <1>3, <2>1, SetOfElements
  <2> QED BY <1>1, <1>2, <1>3, <1>4, <2>1, <2>2 DEF AskInv, Detector!TypeOK, Record6
<1> QED
  BY <1>2, <1>3, <1>5 DEF AskInv, Detector!PollsMakeProgress, Detector!VerdictsFit

LEMMA PollingStarts ==
  ASSUME Detector!Assumptions, AskInv, Detector!StartPolling
  PROVE  AskInv'
<1>1. /\ v1' = "poll" /\ v2' = v2 /\ v3' = v3 /\ v4' = v4 /\ v5' = v5 /\ v6' = v6
      /\ v2 = Detector!Messages
  BY DEF Detector!StartPolling
<1>2. Detector!Messages' = Detector!Messages /\ Detector!Waiting' = Detector!Waiting
  BY <1>1 DEF Detector!Messages, Detector!Waiting
<1> QED
  BY <1>1, <1>2 DEF AskInv, Detector!TypeOK, Detector!PollsMakeProgress, Detector!VerdictsFit

LEMMA PollingTimesOut ==
  ASSUME Detector!Assumptions, AskInv, Detector!TimesOut
  PROVE  AskInv'
<1>1. /\ v1 = "poll" /\ v1' = "timeout" /\ v2' = v2 /\ v3' = v3 /\ v4' = v4 /\ v5' = v5 /\ v6' = v6
  BY DEF Detector!TimesOut
<1>2. Detector!Messages' = Detector!Messages /\ Detector!Waiting' = Detector!Waiting
  BY <1>1 DEF Detector!Messages, Detector!Waiting
<1> QED
  BY <1>1, <1>2 DEF AskInv, Detector!TypeOK, Detector!PollsMakeProgress, Detector!VerdictsFit

LEMMA PromptAnswered ==
  ASSUME Detector!Assumptions, AskInv, NEW h \in Detector!ToSet(v2), Detector!Answer(h)
  PROVE  AskInv'
<1>1. /\ v3' = v3 \cup {h} /\ h \in Elements(v2) \ v3
      /\ v1' = v1 /\ v2' = v2 /\ v4' = v4 /\ v5' = v5 /\ v6' = v6
  BY SetOfElements DEF Detector!Answer
<1>2. Detector!Messages' = Detector!Messages /\ Detector!Waiting' = Detector!Waiting
  BY <1>1 DEF Detector!Messages, Detector!Waiting
<1>3. Detector!VerdictsFit'
  <2>1. Detector!DuplicatesRichText' = Detector!DuplicatesRichText
    BY <1>1 DEF Detector!DuplicatesRichText
  <2> QED BY <1>1, <2>1 DEF AskInv, Detector!VerdictsFit
<1>4. Detector!TypeOK'
  BY <1>1, <1>2 DEF AskInv, Detector!TypeOK
<1>5. ~v6.early
  BY <1>1 DEF AskInv
<1> QED
  BY <1>1, <1>2, <1>3, <1>4, <1>5 DEF AskInv, Detector!PollsMakeProgress

(* Nobody is asked for what was fetched.                                    *)
LEMMA NoneWaiting ==
  ASSUME NEW S, v2 \in Seq(S)
  PROVE  /\ Elements(Detector!Waiting) = Elements(v2) \ v4
         /\ Detector!Waiting \in Seq(S) /\ Len(Detector!Waiting) <= Len(v2)
         /\ Len(Detector!Waiting) \in Nat
<1> DEFINE set == Elements(v2) \ v4
<1>1. Detector!Waiting = Detector!Keep(v2, set)
  BY SetOfElements DEF Detector!Waiting
<1> HIDE DEF set
<1>2. Elements(Detector!Keep(v2, set)) = Elements(v2) \cap set
  BY ElementsKept
<1>3. /\ Detector!Keep(v2, set) \in Seq(S) /\ Len(Detector!Keep(v2, set)) <= Len(v2)
      /\ Len(Detector!Keep(v2, set)) \in Nat
  BY KeptInOrder
<1> QED
  BY <1>1, <1>2, <1>3 DEF set

LEMMA NextMultiple ==
  ASSUME NEW p \in Nat, NEW b \in Nat
  PROVE  (p + 1) * b = p * b + b /\ p * b \in Nat
OBVIOUS

LEMMA AnswersPolled ==
  ASSUME Detector!Assumptions, AskInv, Detector!Poll
  PROVE  AskInv'
<1> DEFINE W == Detector!Waiting
           B == AskBatch
           p == v6.polls
<1>1. /\ v1 = "poll" /\ v2' = v2 /\ v3' = v3 /\ v5' = v5 /\ v6 \in Record6 /\ v6.polls < MaxPolls
      /\ v2 = Detector!Messages /\ v4 \subseteq v3 /\ v3 \subseteq Elements(v2)
      /\ v2 \in Seq(Elements(Others))
  BY SetOfElements DEF Detector!Poll, AskInv, Detector!TypeOK, Record6
<1>2. Detector!Messages' = Detector!Messages
  BY DEF Detector!Messages
<1>3. /\ Elements(W) = Elements(v2) \ v4 /\ W \in Seq(Elements(Others))
      /\ Len(W) <= Len(v2) /\ Len(W) \in Nat /\ Len(v2) \in Nat
  BY <1>1, NoneWaiting
<1>4. CASE /\ v4' = v4 \cup (v3 \cap Elements(Detector!First(W, B)))
           /\ v1' = IF W = <<>> THEN "answered" ELSE "poll"
           /\ v6' = [v6 EXCEPT !.polls = @ + 1, !.early = @ \/ (v6.polls = 0 /\ v3 = Elements(v2))]
  <2>1. v4 \subseteq v4' /\ v4' \subseteq v3'
    BY <1>1, <1>4
  <2>2. /\ v6' \in Record6 /\ v6'.polls = p + 1
        /\ v6'.early => v6.early \/ (p = 0 /\ v3 = Elements(v2))
    <3>1. p \in 0 .. MaxPolls /\ p < MaxPolls /\ MaxPolls \in Nat
      BY <1>1, AskedAbout DEF Record6
    <3>2. p + 1 \in 0 .. MaxPolls
      BY <3>1
    <3>3. v6 \in [polls : 0 .. MaxPolls, faults : 0 .. MaxFaults, early : BOOLEAN]
      BY <1>1 DEF Record6
    <3>4. v6.early \/ (p = 0 /\ v3 = Elements(v2)) \in BOOLEAN
      OBVIOUS
    <3> QED BY <1>4, <3>2, <3>3 DEF Record6
  <2>3. v1' = "answered" => v4' = Elements(v2)
    <3>1. CASE W = <<>>
      <4>1. Elements(W) = {}
        BY <3>1 DEF Elements
      <4> QED BY <1>1, <1>3, <2>1, <4>1
    <3>2. CASE W # <<>>
      BY <1>4, <3>2
    <3> QED BY <3>1, <3>2
  <2>4. v6'.early => v3 = Elements(v2)
    BY <2>2 DEF AskInv
  <2>5. Detector!PollsMakeProgress'
    <3> SUFFICES ASSUME v6'.early
                 PROVE  Len(Detector!Waiting') + v6'.polls * B <= Len(v2) \/ Detector!Waiting' = <<>>
      BY <1>1 DEF Detector!PollsMakeProgress
    <3> DEFINE set == Elements(v2) \ v4
               less == Elements(v2) \ v4'
               W2 == Detector!Keep(v2, less)
    <3>1. W = Detector!Keep(v2, set) /\ Detector!Waiting' = W2
      BY <1>1, SetOfElements DEF Detector!Waiting
    <3>2. less = set \ Elements(Detector!First(Detector!Keep(v2, set), B))
      <4>1. v3 = Elements(v2)
        BY <2>4
      <4>2. v4' = v4 \cup (v3 \cap Elements(Detector!First(Detector!Keep(v2, set), B)))
        BY <1>4, <3>1
      <4> QED BY <4>1, <4>2
    <3>3. B \in Nat \ {0} /\ p \in Nat
      BY <1>1, AskedAbout DEF Record6
    <3> HIDE DEF set, less, W2
    <3>4. W2 = <<>> \/ Len(W2) + B <= Len(W)
      BY <1>1, <3>1, <3>2, <3>3, BatchLeaves DEF W2
    <3>5. W2 \in Seq(Elements(Others)) /\ Len(W2) \in Nat
      BY <1>1, KeptInOrder DEF W2
    <3>6. Len(W) + p * B <= Len(v2) \/ W = <<>>
      <4>1. CASE v6.early
        BY <4>1 DEF AskInv, Detector!PollsMakeProgress
      <4>2. CASE p = 0
        <5>1. p * B = 0
          BY <3>3, <4>2
        <5> QED BY <1>3, <5>1
      <4> QED BY <2>2, <4>1, <4>2
    <3>7. (p + 1) * B = p * B + B /\ p * B \in Nat
      BY <3>3, NextMultiple
    <3>8. CASE W = <<>>
      <4>1. Len(W) = 0
        BY <3>8
      <4>2. ~(Len(W2) + B <= Len(W))
        BY <3>3, <3>5, <4>1
      <4> QED BY <3>1, <3>4, <4>2
    <3>9. CASE Len(W) + p * B <= Len(v2) /\ Len(W2) + B <= Len(W)
      <4> DEFINE pB == p * B
                 next == (p + 1) * B
      <4>1. pB \in Nat /\ next = pB + B
        BY <3>7
      <4>2. Len(W) + pB <= Len(v2)
        BY <3>9
      <4> HIDE DEF pB, next
      <4>3. Len(W2) + next <= Len(v2)
        BY <1>3, <3>3, <3>5, <3>9, <4>1, <4>2
      <4> QED BY <2>2, <3>1, <4>3 DEF next
    <3> QED BY <3>1, <3>4, <3>6, <3>8, <3>9
  <2>6. v1' \in {"poll", "answered"}
    BY <1>4
  <2>7. Detector!TypeOK'
    BY <1>1, <1>2, <2>1, <2>2, <2>6 DEF AskInv, Detector!TypeOK, Record6
  <2>8. Detector!VerdictsFit'
    BY <2>6 DEF Detector!VerdictsFit
  <2> QED BY <1>1, <1>2, <2>3, <2>4, <2>5, <2>6, <2>7, <2>8 DEF AskInv
<1>5. CASE Detector!Raises /\ v4' = v4
  <2>1. /\ v1' = "failed" /\ v6' \in Record6 /\ v6'.polls = v6.polls /\ v6'.early = v6.early
    BY <1>1, <1>5, FaultCounted DEF Detector!Raises
  <2>2. Detector!Waiting' = Detector!Waiting
    BY <1>1, <1>5 DEF Detector!Waiting
  <2>3. Detector!TypeOK'
    BY <1>1, <1>2, <1>5, <2>1 DEF AskInv, Detector!TypeOK, Record6
  <2>4. Detector!PollsMakeProgress'
    BY <1>1, <2>1, <2>2 DEF AskInv, Detector!PollsMakeProgress
  <2> QED BY <1>1, <1>5, <2>1, <2>3, <2>4 DEF AskInv, Detector!VerdictsFit
<1> QED
  <2>1. Detector!ToSet(Detector!First(W, B)) = Elements(Detector!First(W, B)) /\ Detector!ToSet(v2) = Elements(v2)
    BY SetOfElements
  <2> QED BY <1>4, <1>5, <2>1 DEF Detector!Poll

-----------------------------------------------------------------------------
(* What find_duplicates makes of the completions, and the text it becomes.  *)
Judged(verdict) ==
  LET pairs  == 1 .. Detector!Min({Len(v2), Len(Detector!IssuesToTest)})
      places == Detector!Keep([n \in pairs |-> n], {n \in pairs : (v2[n] \in Duplicates) = verdict})
  IN [n \in DOMAIN places |-> Detector!IssuesToTest[places[n]]]

RichText(D) ==
  IF D = <<>> THEN <<>>
  ELSE <<[marks |-> {Issue} \cup Detector!ToSet(D), parent |-> TRUE]>>
       \o [n \in DOMAIN D |-> [marks |-> {Issue, D[n]}, parent |-> FALSE]]
       \o <<[reasons |-> D]>>

Offering(D) == {n \in DOMAIN RichText(D) : "parent" \in DOMAIN RichText(D)[n]}

(* Hashes and issues to test are the same sequence, so that the verdict at  *)
(* a place is on the issue at that place.                                   *)
LEMMA JudgedRight ==
  ASSUME Detector!Assumptions, v2 = Detector!Messages, NEW verdict \in BOOLEAN
  PROVE  /\ Judged(verdict) \in Seq(Elements(Others))
         /\ Elements(Judged(verdict)) = {x \in Readable : (x \in Duplicates) = verdict}
<1> DEFINE N == Len(v2)
           all == [n \in 1 .. N |-> n]
           set == {n \in 1 .. N : (v2[n] \in Duplicates) = verdict}
           places == Detector!Keep(all, set)
<1>1. /\ v2 \in Seq(Elements(Others)) /\ N \in Nat /\ Detector!IssuesToTest = v2
      /\ Elements(v2) = Readable
  BY AskedAbout
<1>2. Judged(verdict) = [n \in DOMAIN places |-> v2[places[n]]]
  <2>1. Detector!Min({N, N}) = N
    BY <1>1, Smaller
  <2> QED BY <1>1, <2>1 DEF Judged
<1>3. all \in Seq(Nat) /\ Elements(all) = 1 .. N
  BY <1>1 DEF Elements
<1> HIDE DEF all
<1>4. places \in Seq(Nat) /\ Elements(places) = set
  <2>1. set \subseteq 1 .. N
    OBVIOUS
  <2> HIDE DEF set
  <2>2. places \in Seq(Nat)
    BY <1>3, KeptInOrder
  <2>3. Elements(places) = Elements(all) \cap set
    BY <1>3, ElementsKept
  <2> QED BY <1>3, <2>1, <2>2, <2>3
<1> HIDE DEF places
<1>5. \A n \in DOMAIN places : places[n] \in set
  BY <1>4 DEF Elements
<1>6. \A k \in set : \E n \in DOMAIN places : places[n] = k
  BY <1>4 DEF Elements
<1>7. \A n \in DOMAIN places : /\ v2[places[n]] \in Readable \cap Elements(Others)
                               /\ (v2[places[n]] \in Duplicates) = verdict
  <2>1. DOMAIN v2 = 1 .. N
    BY <1>1
  <2> QED BY <1>1, <1>5, <2>1 DEF Elements, Readable
<1>8. Judged(verdict) \in Seq(Elements(Others))
  BY <1>2, <1>4, <1>7
<1>9. ASSUME NEW x \in Readable, (x \in Duplicates) = verdict
      PROVE  \E n \in DOMAIN places : v2[places[n]] = x
  <2>1. DOMAIN v2 = 1 .. N
    BY <1>1
  <2>2. PICK k \in 1 .. N : v2[k] = x
    BY <1>1, <2>1 DEF Elements
  <2>3. k \in set
    BY <1>9, <2>2
  <2> QED BY <1>6, <2>2, <2>3
<1>10. Elements(Judged(verdict)) = {x \in Readable : (x \in Duplicates) = verdict}
  <2>1. DOMAIN Judged(verdict) = DOMAIN places
    BY <1>2
  <2>2. \A n \in DOMAIN places : Judged(verdict)[n] = v2[places[n]]
    BY <1>2
  <2> QED BY <1>7, <1>9, <2>1, <2>2 DEF Elements
<1> QED
  BY <1>8, <1>10

(* The links of the text mark the new issue and the duplicates, no other.   *)
LEMMA TextOffers ==
  ASSUME NEW S, NEW D \in Seq(S)
  PROVE  (UNION {RichText(D)[n].marks : n \in Offering(D)}) \ {Issue} = Elements(D) \ {Issue}
<1>1. CASE D = <<>>
  <2>1. RichText(D) = <<>> /\ Elements(D) = {}
    BY <1>1 DEF RichText, Elements
  <2>2. Offering(D) = {}
    BY <2>1 DEF Offering
  <2> QED BY <2>1, <2>2
<1>2. CASE D # <<>>
  <2> DEFINE all  == [marks |-> {Issue} \cup Elements(D), parent |-> TRUE]
             each == [n \in DOMAIN D |-> [marks |-> {Issue, D[n]}, parent |-> FALSE]]
             last == [reasons |-> D]
             U == {all, last} \cup {each[n] : n \in DOMAIN D}
             N == Len(D)
             text == RichText(D)
  <2>1. text = (<<all>> \o each) \o <<last>>
    BY <1>2, SetOfElements DEF RichText
  <2>2. N \in Nat /\ DOMAIN D = 1 .. N
    OBVIOUS
  <2>3. /\ \A n \in 1 .. N : each[n].marks = {Issue, D[n]} /\ "parent" \in DOMAIN each[n]
        /\ DOMAIN each = 1 .. N
    BY <2>2
  <2>4. "parent" \in DOMAIN all /\ all.marks = {Issue} \cup Elements(D)
    OBVIOUS
  <2>5. "parent" \notin DOMAIN last
    OBVIOUS
  <2>6. each \in Seq(U) /\ Len(each) = N /\ <<all>> \in Seq(U) /\ <<last>> \in Seq(U)
    <3>1. \A n \in 1 .. N : each[n] \in U
      BY <2>2
    <3>2. all \in U /\ last \in U
      OBVIOUS
    <3>3. each = [n \in 1 .. N |-> each[n]]
      BY <2>2
    <3> HIDE DEF U, each, all, last, N
    <3>4. each \in Seq(U) /\ Len(each) = N
      BY <2>2, <3>1, <3>3
    <3>5. <<all>> \in Seq(U) /\ <<last>> \in Seq(U)
      BY <3>2
    <3> QED BY <3>4, <3>5
  <2> HIDE DEF all, each, last, U, N, text
  <2>7. /\ <<all>> \o each \in Seq(U) /\ Len(<<all>> \o each) = 1 + N
        /\ (<<all>> \o each)[1] = all /\ \A n \in 1 .. N : (<<all>> \o each)[n + 1] = each[n]
    <3>1. /\ <<all>> \o each \in Seq(U) /\ Len(<<all>> \o each) = Len(<<all>>) + Len(each)
          /\ \A k \in 1 .. Len(<<all>>) + Len(each) :
               (<<all>> \o each)[k] = IF k <= Len(<<all>>) THEN <<all>>[k] ELSE each[k - Len(<<all>>)]
      BY <2>6, ConcatProperties
    <3>2. Len(<<all>>) = 1 /\ <<all>>[1] = all /\ Len(each) = N /\ N \in Nat
      BY <2>2, <2>6
    <3>3. \A n \in 1 .. N : n + 1 \in 1 .. 1 + N /\ ~(n + 1 <= 1) /\ n + 1 - 1 = n
      BY <2>2
    <3>4. 1 \in 1 .. 1 + N
      BY <2>2
    <3> QED BY <3>1, <3>2, <3>3, <3>4
  <2> DEFINE first == <<all>> \o each
  <2> HIDE DEF first
  <2>8. /\ text \in Seq(U) /\ Len(text) = N + 2 /\ text[1] = all /\ text[N + 2] = last
        /\ \A n \in 1 .. N : text[n + 1] = each[n]
    <3>1. first \in Seq(U) /\ Len(first) = 1 + N /\ first[1] = all /\ \A n \in 1 .. N : first[n + 1] = each[n]
      BY <2>7 DEF first
    <3>2. first \in Seq(U) /\ <<last>> \in Seq(U)
      BY <2>6, <3>1
    <3>3. /\ text \in Seq(U) /\ Len(text) = Len(first) + Len(<<last>>)
          /\ \A k \in 1 .. Len(first) + Len(<<last>>) :
               text[k] = IF k <= Len(first) THEN first[k] ELSE <<last>>[k - Len(first)]
      <4>1. /\ first \o <<last>> \in Seq(U)
            /\ Len(first \o <<last>>) = Len(first) + Len(<<last>>)
            /\ \A k \in 1 .. Len(first) + Len(<<last>>) :
                 (first \o <<last>>)[k] = IF k <= Len(first) THEN first[k] ELSE <<last>>[k - Len(first)]
        BY <3>2, ConcatProperties
      <4>2. text = first \o <<last>>
        BY <2>1 DEF first
      <4> QED BY <4>1, <4>2
    <3>4. Len(<<last>>) = 1 /\ <<last>>[1] = last
      OBVIOUS
    <3>5. /\ \A n \in 1 .. N : n + 1 \in 1 .. N + 2 /\ n + 1 <= 1 + N
          /\ 1 \in 1 .. N + 2 /\ 1 <= 1 + N /\ 1 + N + 1 = N + 2
          /\ N + 2 \in 1 .. N + 2 /\ ~(N + 2 <= 1 + N) /\ N + 2 - (1 + N) = 1
      BY <2>2
    <3> QED BY <3>1, <3>3, <3>4, <3>5
  <2>9. Offering(D) = {1} \cup {n + 1 : n \in 1 .. N}
    <3>1. DOMAIN text = 1 .. N + 2
      BY <2>2, <2>8
    <3>2. \A k \in 1 .. N + 2 : k = 1 \/ k = N + 2 \/ \E n \in 1 .. N : k = n + 1
      <4> SUFFICES ASSUME NEW k \in 1 .. N + 2, k # 1, k # N + 2 PROVE k - 1 \in 1 .. N /\ k = k - 1 + 1
        OBVIOUS
      <4> QED BY <2>2
    <3>3. \A n \in 1 .. N : n + 1 \in 1 .. N + 2
      BY <2>2
    <3>4. 1 \in 1 .. N + 2
      BY <2>2
    <3> QED BY <2>3, <2>4, <2>5, <2>8, <3>1, <3>2, <3>3, <3>4 DEF Offering, text
  <2>10. UNION {text[n].marks : n \in Offering(D)} = {Issue} \cup Elements(D)
    <3>1. \A n \in 1 .. N : text[n + 1].marks = {Issue, D[n]} /\ {Issue, D[n]} \subseteq {Issue} \cup Elements(D)
      BY <2>2, <2>3, <2>8 DEF Elements
    <3>2. text[1].marks = {Issue} \cup Elements(D)
      BY <2>4, <2>8
    <3>3. \A n \in Offering(D) : text[n].marks \subseteq {Issue} \cup Elements(D)
      BY <2>9, <3>1, <3>2
    <3>4. 1 \in Offering(D)
      BY <2>9
    <3> QED BY <3>2, <3>3, <3>4
  <2> QED BY <2>10 DEF text
<1> QED
  BY <1>1, <1>2

(* The completions are judged when all were fetched, so that every issue    *)
(* that was asked about has its verdict.                                    *)
LEMMA CompletionsJudged ==
  ASSUME Detector!Assumptions, AskInv, Detector!Judge
  PROVE  AskInv'
<1> DEFINE dups == Judged(TRUE)
           rest == Judged(FALSE)
<1>1. /\ v1 = "answered" /\ v1' = "done" /\ v2' = v2 /\ v3' = v3 /\ v4' = v4
      /\ \E labelled \in BOOLEAN : v5' = [duplicates |-> dups, rest |-> rest, label |-> labelled]
      /\ \/ v6' = v6
         \/ v6.faults < MaxFaults /\ v6' = [v6 EXCEPT !.faults = @ + 1]
  BY DEF Detector!Judge, Judged
<1>2. /\ v2 = Detector!Messages /\ v4 = Elements(v2) /\ v6 \in Record6
      /\ Elements(Detector!Messages) = Readable
  BY <1>1, AskedAbout DEF AskInv, Detector!TypeOK, Record6
<1>3. /\ dups \in Seq(Elements(Others)) /\ Elements(dups) = Readable \cap Duplicates
      /\ rest \in Seq(Elements(Others)) /\ Elements(rest) = Readable \ Duplicates
  <2>1. /\ dups \in Seq(Elements(Others))
        /\ Elements(dups) = {x \in Readable : (x \in Duplicates) = TRUE}
    BY <1>2, JudgedRight
  <2>2. /\ rest \in Seq(Elements(Others))
        /\ Elements(rest) = {x \in Readable : (x \in Duplicates) = FALSE}
    BY <1>2, JudgedRight
  <2>3. \A x \in Readable : ((x \in Duplicates) = TRUE <=> x \in Duplicates)
    OBVIOUS
  <2>4. \A x \in Readable : ((x \in Duplicates) = FALSE <=> x \notin Duplicates)
    OBVIOUS
  <2>5. {x \in Readable : (x \in Duplicates) = TRUE} = Readable \cap Duplicates
    BY <2>3
  <2>6. {x \in Readable : (x \in Duplicates) = FALSE} = Readable \ Duplicates
    BY <2>4
  <2> QED BY <2>1, <2>2, <2>5, <2>6
<1> HIDE DEF dups, rest
<1>4. v6' \in Record6 /\ v6'.polls = v6.polls /\ v6'.early = v6.early
  BY <1>1, <1>2, FaultCounted
<1>5. Detector!Messages' = Detector!Messages /\ Detector!Waiting' = Detector!Waiting
  BY <1>1 DEF Detector!Messages, Detector!Waiting
<1>6. v5'.duplicates = dups /\ v5'.rest = rest
  BY <1>1
<1>7. Detector!TypeOK'
  <2>1. v5' \in [duplicates : Seq(Detector!ToSet(Others)), rest : Seq(Detector!ToSet(Others)), label : BOOLEAN]
    <3>1. dups \in Seq(Detector!ToSet(Others)) /\ rest \in Seq(Detector!ToSet(Others))
      BY <1>3, SetOfElements
    <3> QED BY <1>1, <3>1
  <2> QED BY <1>1, <1>4, <1>5, <2>1 DEF AskInv, Detector!TypeOK, Record6
<1>8. Detector!VerdictsFit'
  <2>1. Detector!DuplicatesRichText' = RichText(dups)
    BY <1>6 DEF Detector!DuplicatesRichText, RichText
  <2>2. {n \in DOMAIN Detector!DuplicatesRichText' :
           "parent" \in DOMAIN Detector!DuplicatesRichText'[n]} = Offering(dups)
    BY <2>1 DEF Offering
  <2>3. (UNION {RichText(dups)[n].marks : n \in Offering(dups)}) \ {Issue} = Elements(dups) \ {Issue}
    BY <1>3, TextOffers
  <2>4. Elements(dups) \ {Issue} = Readable \cap Duplicates
    BY <1>3 DEF Readable
  <2>5. Detector!ToSet(Others) \ (Unreadable \cup {Issue}) = Readable
    BY SetOfElements DEF Readable
  <2>6. /\ Detector!ToSet(v5'.duplicates) = Readable \cap Duplicates
        /\ Detector!ToSet(v5'.rest) = Readable \ Duplicates
    BY <1>3, <1>6, SetOfElements
  <2> QED BY <1>1, <1>2, <2>1, <2>2, <2>3, <2>4, <2>5, <2>6 DEF Detector!VerdictsFit
<1>9. Detector!PollsMakeProgress'
  BY <1>1, <1>4, <1>5 DEF AskInv, Detector!PollsMakeProgress
<1> QED
  BY <1>1, <1>2, <1>3, <1>4, <1>5, <1>7, <1>8, <1>9 DEF AskInv

LEMMA AskGoesOn ==
  ASSUME Detector!Assumptions, AskInv, Detector!Next
  PROVE  AskInv'
BY PromptSent, PollingStarts, AnswersPolled, PollingTimesOut, CompletionsJudged, PromptAnswered
   DEF Detector!Next, Detector!Detector

LEMMA AskStays ==
  ASSUME AskInv, UNCHANGED <<v1, v2, v3, v4, v5, v6>>
  PROVE  AskInv'
<1>1. v1' = v1 /\ v2' = v2 /\ v3' = v3 /\ v4' = v4 /\ v5' = v5 /\ v6' = v6
  OBVIOUS
<1>2. /\ Detector!Messages' = Detector!Messages /\ Detector!Waiting' = Detector!Waiting
      /\ Detector!DuplicatesRichText' = Detector!DuplicatesRichText
  BY <1>1 DEF Detector!Messages, Detector!Waiting, Detector!DuplicatesRichText
<1>3. Detector!VerdictsFit'
  BY <1>1, <1>2 DEF AskInv, Detector!VerdictsFit
<1> QED
  BY <1>1, <1>2, <1>3 DEF AskInv, Detector!TypeOK, Detector!PollsMakeProgress

-----------------------------------------------------------------------------
(* Induction over the hits of a search: what holds of no hit and with each   *)
(* hit of one more holds of all.                                            *)
LEMMA Smallest ==
  ASSUME NEW S, S \subseteq Nat, S # {}
  PROVE  \E m \in S : \A n \in S : m <= n
<1> DEFINE R == StrictSubsetOrdering(Nat)
           T == {0 .. n : n \in S}
<1>1. IsWellFoundedOn(R, FiniteSubsetsOf(Nat))
  BY FS_StrictSubsetOrderingWellFounded
<1>2. T \subseteq FiniteSubsetsOf(Nat) /\ T # {}
  <2>1. ASSUME NEW n \in S PROVE 0 .. n \in SUBSET Nat /\ IsFiniteSet(0 .. n)
    BY FS_Interval
  <2> QED BY <2>1 DEF FiniteSubsetsOf
<1>3. PICK x \in T : \A y \in T : ~(<<y, x>> \in R)
  <2> HIDE DEF R, T
  <2> QED BY <1>1, <1>2, WFMin
<1>4. PICK m \in S : x = 0 .. m
  BY <1>3
<1>5. ASSUME NEW n \in S, n < m PROVE FALSE
  <2>1. 0 .. n \subseteq 0 .. m /\ m \notin 0 .. n /\ m \in 0 .. m
    BY <1>5
  <2>2. <<0 .. n, 0 .. m>> \in R
    BY <2>1 DEF StrictSubsetOrdering
  <2> QED BY <1>3, <1>4, <2>2
<1> QED
  BY <1>5

LEMMA UpTo ==
  ASSUME NEW L \in Nat, NEW G, 0 \in G, \A n \in 1 .. L : n - 1 \in G => n \in G
  PROVE  \A n \in 0 .. L : n \in G
<1> DEFINE Bad == {n \in 0 .. L : n \notin G}
<1>1. ASSUME Bad # {} PROVE FALSE
  <2>1. PICK n \in Bad : \A m \in Bad : n <= m
    <3>1. Bad \subseteq Nat
      OBVIOUS
    <3> HIDE DEF Bad
    <3> QED BY <1>1, <3>1, Smallest
  <2>2. n \in 1 .. L /\ n - 1 \in 0 .. L /\ n - 1 < n
    BY <2>1
  <2>3. n - 1 \in G
    BY <2>1, <2>2
  <2> QED
    BY <2>1, <2>2, <2>3
<1> QED
  BY <1>1

(* A step for each of 1 .. L makes a function that takes them in turn.       *)
Steps(A, base, L, step) ==
  base \in A /\ L \in Nat /\ step \in [1 .. L -> [A -> A]]
Takes(f, A, base, L, step) ==
  f \in [0 .. L -> A] /\ f[0] = base /\ \A n \in 1 .. L : f[n] = step[n][f[n - 1]]

LEMMA StepsTaken ==
  ASSUME NEW A, NEW base, NEW L, NEW step, Steps(A, base, L, step)
  PROVE  \E f : Takes(f, A, base, L, step)
<1> DEFINE G == {k \in 0 .. L : \E f : Takes(f, A, base, k, step)}
<1>0. base \in A /\ L \in Nat /\ step \in [1 .. L -> [A -> A]]
  BY DEF Steps
<1>1. 0 \in G
  <2>1. Takes([n \in 0 .. 0 |-> base], A, base, 0, step)
    BY <1>0 DEF Takes
  <2>2. 0 \in 0 .. L
    BY <1>0
  <2> QED BY <2>1, <2>2
<1>2. ASSUME NEW k \in 1 .. L, k - 1 \in G PROVE k \in G
  <2>1. PICK f : Takes(f, A, base, k - 1, step)
    BY <1>2
  <2> DEFINE g == [n \in 0 .. k |-> IF n = k THEN step[k][f[k - 1]] ELSE f[n]]
  <2>2. k - 1 \in 0 .. k - 1 /\ k \in Int /\ k \in 0 .. L
    BY <1>0
  <2>3. \A n \in 0 .. k : n # k => n \in 0 .. k - 1
    BY <1>0
  <2>4. f[k - 1] \in A /\ step[k][f[k - 1]] \in A
    BY <1>0, <2>1, <2>2 DEF Takes
  <2>5. g \in [0 .. k -> A] /\ g[0] = base
    BY <1>0, <2>1, <2>3, <2>4 DEF Takes
  <2>6. ASSUME NEW n \in 1 .. k PROVE g[n] = step[n][g[n - 1]]
    <3>1. n - 1 \in 0 .. k /\ n - 1 # k /\ g[n - 1] = f[n - 1]
      BY <1>0
    <3>2. CASE n = k
      BY <3>1, <3>2
    <3>3. CASE n # k
      <4>1. n \in 1 .. k - 1 /\ g[n] = f[n]
        BY <1>0, <3>3
      <4>2. f[n] = step[n][f[n - 1]]
        BY <2>1, <4>1 DEF Takes
      <4> QED BY <3>1, <4>1, <4>2
    <3> QED BY <3>2, <3>3
  <2>7. Takes(g, A, base, k, step)
    BY <2>5, <2>6 DEF Takes
  <2> QED BY <2>2, <2>7
<1>3. L \in G
  <2>1. \A k \in 1 .. L : k - 1 \in G => k \in G
    BY <1>2
  <2> HIDE DEF G
  <2>2. \A k \in 0 .. L : k \in G
    BY <1>0, <1>1, <2>1, UpTo
  <2>3. L \in 0 .. L
    BY <1>0
  <2> QED BY <2>2, <2>3
<1> QED
  BY <1>3

LEMMA Appended ==
  ASSUME NEW S, NEW s \in Seq(S), NEW e \in S
  PROVE  /\ Append(s, e) \in Seq(S)
         /\ \A k \in DOMAIN s : k \in DOMAIN Append(s, e) /\ Append(s, e)[k] = s[k]
         /\ \A k \in DOMAIN Append(s, e) :
              k \in DOMAIN s \/ (k = Len(s) + 1 /\ Append(s, e)[k] = e)
         /\ Len(s) + 1 \in DOMAIN Append(s, e) /\ Append(s, e)[Len(s) + 1] = e
         /\ Len(s) + 1 \notin DOMAIN s
<1>1. /\ Append(s, e) \in Seq(S) /\ Len(Append(s, e)) = Len(s) + 1
      /\ \A k \in 1 .. Len(s) : Append(s, e)[k] = s[k]
      /\ Append(s, e)[Len(s) + 1] = e
  BY AppendProperties
<1> DEFINE t == Append(s, e)
<1>2. /\ DOMAIN t = 1 .. Len(s) + 1 /\ DOMAIN s = 1 .. Len(s) /\ Len(s) \in Nat
  BY <1>1
<1> HIDE DEF t
<1>3. /\ \A k \in DOMAIN s : k \in DOMAIN t /\ k \in 1 .. Len(s)
      /\ \A k \in DOMAIN t : k \in DOMAIN s \/ k = Len(s) + 1
      /\ Len(s) + 1 \in DOMAIN t /\ Len(s) + 1 \notin DOMAIN s
  BY <1>2
<1>4. t \in Seq(S) /\ t[Len(s) + 1] = e
  BY <1>1 DEF t
<1>5. \A k \in DOMAIN s : t[k] = s[k]
  BY <1>1, <1>3 DEF t
<1>6. \A k \in DOMAIN t : k \in DOMAIN s \/ (k = Len(s) + 1 /\ t[k] = e)
  BY <1>3, <1>4
<1> QED
  BY <1>3, <1>4, <1>5, <1>6 DEF t

-----------------------------------------------------------------------------
(* find_potential_jira_duplicates: the walk over the hits.                  *)
FindStep(in, chosen, found, i) ==
  IF \/ Len(found) >= in.count
     \/ ~Search!NotParent(in.docs, in.target, i, FALSE)
     \/ TRUE /\ i \in Search!ToSet(found) \cup Search!Linked(in.docs, found)
  THEN found
  ELSE Append(found, IF TRUE THEN chosen[i] ELSE i)

Found(in, chosen) ==
  LET results[n \in 0 .. Len(in.hits)] ==
        IF n = 0 THEN <<>> ELSE FindStep(in, chosen, results[n - 1], in.hits[n])
  IN results

Finds(in, chosen, f) ==
  f = [n \in 0 .. Len(in.hits) |->
         IF n = 0 THEN <<>> ELSE FindStep(in, chosen, f[n - 1], in.hits[n])]

LEMMA FoundBy ==
  ASSUME NEW in, NEW chosen
  PROVE  Search!PotentialDuplicates(in.docs, in.target, in.hits, chosen, FALSE, in.count, TRUE)
           = Found(in, chosen)[Len(in.hits)]
BY Zenon DEF Search!PotentialDuplicates, Found, FindStep

LEMMA FindsExists ==
  ASSUME NEW in, IsSearch(in), NEW chosen \in [InIndex -> InIndex]
  PROVE  Finds(in, chosen, Found(in, chosen))
<1> DEFINE A == Seq(InIndex)
           L == Len(in.hits)
           step == [n \in 1 .. L |-> [found \in A |-> FindStep(in, chosen, found, in.hits[n])]]
<1>1. L \in Nat /\ \A n \in 1 .. L : in.hits[n] \in InIndex
  BY DEF IsSearch
<1>2. ASSUME NEW found \in A, NEW i \in InIndex PROVE FindStep(in, chosen, found, i) \in A
  <2>1. Append(found, chosen[i]) \in A
    BY Appended
  <2> QED BY <2>1 DEF FindStep
<1>3. step \in [1 .. L -> [A -> A]]
  BY <1>1, <1>2
<1>4. <<>> \in A
  OBVIOUS
<1>5. PICK f \in [0 .. L -> A] : f[0] = <<>> /\ \A n \in 1 .. L : f[n] = step[n][f[n - 1]]
  <2>1. Steps(A, <<>>, L, step)
    BY <1>1, <1>3, <1>4 DEF Steps
  <2> HIDE DEF A, L, step
  <2>2. \E f : Takes(f, A, <<>>, L, step)
    BY <2>1, StepsTaken
  <2> QED BY <2>2 DEF Takes
<1>6. \A n \in 1 .. L : f[n] = FindStep(in, chosen, f[n - 1], in.hits[n])
  <2>1. \A n \in 1 .. L : n - 1 \in 0 .. L
    BY <1>1
  <2> HIDE DEF A, L
  <2> QED BY <1>5, <2>1
<1>7. Finds(in, chosen, f)
  <2>1. ASSUME NEW n \in 0 .. L
        PROVE  f[n] = IF n = 0 THEN <<>> ELSE FindStep(in, chosen, f[n - 1], in.hits[n])
    BY <1>1, <1>5, <1>6
  <2>2. DOMAIN f = 0 .. L
    BY <1>5
  <2> QED BY <1>5, <2>1, <2>2 DEF Finds
<1>8. Found(in, chosen) = CHOOSE g : Finds(in, chosen, g)
  BY Zenon DEF Found, Finds
<1> QED
  BY <1>7, <1>8, Zenon

(* A potential duplicate is answered twice, or the target or what it is     *)
(* linked to is, under the conditions of AppearsOnce only.                  *)
LEMMA SameSearchOperators ==
  ASSUME NEW s
  PROVE  Search!ToSet(s) = {s[k] : k \in DOMAIN s}
BY DEF Search!ToSet

MayBeAnswered(docs, target, new) ==
  /\ new = target => Search!Outdated(docs, target)
  /\ new \in Search!Known(docs, target) =>
       /\ new \in Search!Parents(docs)
       /\ \E i \in DOMAIN docs \ Search!Known(docs, target) : new \in docs[i].linked

LEMMA FindStepOnce ==
  ASSUME NEW in, IsSearch(in), NEW chosen \in Chosen(in.docs),
         NEW found \in Seq(InIndex), Search!AppearsOnce(in.docs, in.target, found),
         NEW i \in InIndex
  PROVE  LET next == FindStep(in, chosen, found, i)
         IN next \in Seq(InIndex) /\ Search!AppearsOnce(in.docs, in.target, next)
<1>1. CASE FindStep(in, chosen, found, i) = found
  BY <1>1
<1>2. CASE /\ i \notin Search!ToSet(found) \cup Search!Linked(in.docs, found)
           /\ Search!NotParent(in.docs, in.target, i, FALSE)
           /\ FindStep(in, chosen, found, i) = Append(found, chosen[i])
  <2> DEFINE new == chosen[i]
             next == Append(found, new)
  <2>0. DOMAIN in.docs = InIndex /\ in.target \in InIndex
    BY DEF IsSearch, IndexedDocs
  <2>1. /\ new \in InIndex
        /\ new = i \/ new \in in.docs[i].linked \cap Search!Parents(in.docs)
    <3>1. new \in InIndex /\ new \in Search!Substitutes(in.docs, i)
      BY DEF Chosen
    <3> HIDE DEF new
    <3> QED BY <3>1 DEF Search!Substitutes
  <2> HIDE DEF new
  <2>2. ASSUME NEW k \in DOMAIN found, found[k] = new PROVE Search!Outdated(in.docs, new)
    <3>1. i # new /\ i \notin in.docs[new].linked
      BY <1>2, <2>2, SameSearchOperators DEF Search!Linked
    <3>2. new \in in.docs[i].linked
      BY <2>1, <3>1
    <3> QED BY <2>0, <3>1, <3>2 DEF Search!Outdated
  <2>3. MayBeAnswered(in.docs, in.target, new)
    <3>1. i # in.target /\ i \notin Search!Known(in.docs, in.target)
      BY <1>2 DEF Search!NotParent
    <3>2. ASSUME new = in.target PROVE Search!Outdated(in.docs, in.target)
      <4>1. in.target \in in.docs[i].linked
        BY <2>1, <3>1, <3>2
      <4>2. i \notin in.docs[in.target].linked
        BY <3>1 DEF Search!Known
      <4> QED BY <2>0, <4>1, <4>2 DEF Search!Outdated
    <3>3. ASSUME new \in Search!Known(in.docs, in.target)
          PROVE  /\ new \in Search!Parents(in.docs)
                 /\ \E j \in DOMAIN in.docs \ Search!Known(in.docs, in.target) : new \in in.docs[j].linked
      BY <2>0, <2>1, <3>1, <3>3
    <3> QED BY <3>2, <3>3 DEF MayBeAnswered
  <2>4. /\ next \in Seq(InIndex)
        /\ \A k \in DOMAIN found : k \in DOMAIN next /\ next[k] = found[k]
        /\ \A k \in DOMAIN next : k \in DOMAIN found \/ (k = Len(found) + 1 /\ next[k] = new)
    BY <2>1, Appended
  <2>5. /\ \A j, k \in DOMAIN found : j # k /\ found[j] = found[k] => Search!Outdated(in.docs, found[j])
        /\ \A k \in DOMAIN found : MayBeAnswered(in.docs, in.target, found[k])
    BY DEF Search!AppearsOnce, MayBeAnswered
  <2> HIDE DEF next
  <2>6. \A j, k \in DOMAIN next : j # k /\ next[j] = next[k] => Search!Outdated(in.docs, next[j])
    BY <2>2, <2>4, <2>5
  <2>7. \A k \in DOMAIN next : MayBeAnswered(in.docs, in.target, next[k])
    BY <2>3, <2>4, <2>5
  <2>8. Search!AppearsOnce(in.docs, in.target, next)
    BY <2>6, <2>7 DEF Search!AppearsOnce, MayBeAnswered
  <2>9. FindStep(in, chosen, found, i) = next
    BY <1>2 DEF next, new
  <2> QED BY <2>4, <2>8, <2>9
<1> QED
  BY <1>1, <1>2 DEF FindStep

LEMMA FindsOnce ==
  ASSUME NEW in, IsSearch(in), NEW chosen \in Chosen(in.docs)
  PROVE  Search!AppearsOnce(in.docs, in.target,
           Search!PotentialDuplicates(in.docs, in.target, in.hits, chosen, FALSE, in.count, TRUE))
<1> SUFFICES Search!AppearsOnce(in.docs, in.target, Found(in, chosen)[Len(in.hits)])
  BY FoundBy
<1> DEFINE f == Found(in, chosen)
           L == Len(in.hits)
           Once(found) == Search!AppearsOnce(in.docs, in.target, found)
           G == {n \in 0 .. L : f[n] \in Seq(InIndex) /\ Once(f[n])}
<1>1. L \in Nat /\ \A n \in 1 .. L : in.hits[n] \in InIndex
  BY DEF IsSearch
<1>2. /\ f[0] = <<>>
      /\ \A n \in 1 .. L : f[n] = FindStep(in, chosen, f[n - 1], in.hits[n])
  <2>1. Finds(in, chosen, f)
    BY FindsExists DEF Chosen
  <2> HIDE DEF f, G
  <2>2. \A n \in 0 .. L : f[n] = IF n = 0 THEN <<>> ELSE FindStep(in, chosen, f[n - 1], in.hits[n])
    BY <2>1, Zenon DEF Finds
  <2>3. 0 \in 0 .. L /\ \A n \in 1 .. L : n \in 0 .. L /\ n # 0
    BY <1>1
  <2> HIDE DEF L
  <2> QED BY <2>2, <2>3, Zenon
<1> HIDE DEF f
<1>3. 0 \in G
  <2>1. <<>> \in Seq(InIndex) /\ DOMAIN <<>> = {}
    OBVIOUS
  <2>2. Once(<<>>)
    BY <2>1 DEF Search!AppearsOnce
  <2>3. 0 \in 0 .. L
    BY <1>1
  <2> HIDE DEF Once
  <2> QED BY <1>2, <2>1, <2>2, <2>3
<1>4. ASSUME NEW n \in 1 .. L, n - 1 \in G PROVE n \in G
  <2>1. f[n - 1] \in Seq(InIndex) /\ Once(f[n - 1])
    BY <1>4
  <2>2. FindStep(in, chosen, f[n - 1], in.hits[n]) \in Seq(InIndex)
        /\ Once(FindStep(in, chosen, f[n - 1], in.hits[n]))
    BY <1>1, <2>1, FindStepOnce
  <2> HIDE DEF Once
  <2> QED BY <1>1, <1>2, <2>2
<1>5. L \in G
  <2>1. \A n \in 1 .. L : n - 1 \in G => n \in G
    BY <1>4
  <2> HIDE DEF G, L
  <2>2. \A n \in 0 .. L : n \in G
    BY <1>1, <1>3, <2>1, UpTo
  <2> QED BY <1>1, <2>2
<1> QED
  BY <1>5 DEF f

-----------------------------------------------------------------------------
(* run_more_like_this_for_duplicates: the walk over the hits.               *)
AlikeStep(in, found, i) ==
  IF \/ Len(found) >= in.count
     \/ in.docs[i].type # "Bug"
     \/ i \in in.docs[in.target].linked \cup Search!Linked(in.docs, found)
  THEN found ELSE Append(found, i)

Alike(in) ==
  LET results[n \in 0 .. Len(in.hits)] ==
        IF n = 0 THEN <<>> ELSE AlikeStep(in, results[n - 1], in.hits[n])
  IN results

AreAlike(in, f) ==
  f = [n \in 0 .. Len(in.hits) |-> IF n = 0 THEN <<>> ELSE AlikeStep(in, f[n - 1], in.hits[n])]

LEMMA AlikeBy ==
  ASSUME NEW in
  PROVE  Search!MoreLikeThis(in.docs, in.target, in.hits, in.count) = Alike(in)[Len(in.hits)]
BY Zenon DEF Search!MoreLikeThis, Alike, AlikeStep

LEMMA AlikeExists ==
  ASSUME NEW in, IsSearch(in)
  PROVE  AreAlike(in, Alike(in))
<1> DEFINE A == Seq(InIndex)
           L == Len(in.hits)
           step == [n \in 1 .. L |-> [found \in A |-> AlikeStep(in, found, in.hits[n])]]
<1>1. L \in Nat /\ \A n \in 1 .. L : in.hits[n] \in InIndex
  BY DEF IsSearch
<1>2. ASSUME NEW found \in A, NEW i \in InIndex PROVE AlikeStep(in, found, i) \in A
  <2>1. Append(found, i) \in A
    BY Appended
  <2> QED BY <2>1 DEF AlikeStep
<1>3. step \in [1 .. L -> [A -> A]]
  BY <1>1, <1>2
<1>4. <<>> \in A
  OBVIOUS
<1>5. PICK f \in [0 .. L -> A] : f[0] = <<>> /\ \A n \in 1 .. L : f[n] = step[n][f[n - 1]]
  <2>1. Steps(A, <<>>, L, step)
    BY <1>1, <1>3, <1>4 DEF Steps
  <2> HIDE DEF A, L, step
  <2>2. \E f : Takes(f, A, <<>>, L, step)
    BY <2>1, StepsTaken
  <2> QED BY <2>2 DEF Takes
<1>6. \A n \in 1 .. L : f[n] = AlikeStep(in, f[n - 1], in.hits[n])
  <2>1. \A n \in 1 .. L : n - 1 \in 0 .. L
    BY <1>1
  <2> HIDE DEF A, L
  <2> QED BY <1>5, <2>1
<1>7. AreAlike(in, f)
  <2>1. ASSUME NEW n \in 0 .. L
        PROVE  f[n] = IF n = 0 THEN <<>> ELSE AlikeStep(in, f[n - 1], in.hits[n])
    BY <1>1, <1>5, <1>6
  <2>2. DOMAIN f = 0 .. L
    BY <1>5
  <2> QED BY <1>5, <2>1, <2>2 DEF AreAlike
<1>8. Alike(in) = CHOOSE g : AreAlike(in, g)
  BY Zenon DEF Alike, AreAlike
<1> QED
  BY <1>7, <1>8, Zenon

(* No two of the results link to each other, and each is one of the hits so *)
(* far; one that is there twice is another hit.                             *)
HitTwice(in, n, i) ==
  \E j, k \in 1 .. n : j # k /\ in.hits[j] = i /\ in.hits[k] = i
Apart(in, found, n) ==
  /\ \A j, k \in DOMAIN found :
       j # k /\ found[k] \in in.docs[found[j]].linked => found[j] \notin in.docs[found[k]].linked
  /\ \A j, k \in DOMAIN found : j # k /\ found[j] = found[k] => HitTwice(in, n, found[j])
  /\ \A k \in DOMAIN found : found[k] \notin in.docs[in.target].linked
FromHits(in, found, n) == \A k \in DOMAIN found : \E m \in 1 .. n : found[k] = in.hits[m]

LEMMA AlikeStepApart ==
  ASSUME NEW in, IsSearch(in), NEW found \in Seq(InIndex),
         NEW n \in 1 .. Len(in.hits), Apart(in, found, n - 1), FromHits(in, found, n - 1)
  PROVE  LET next == AlikeStep(in, found, in.hits[n])
         IN next \in Seq(InIndex) /\ Apart(in, next, n) /\ FromHits(in, next, n)
<1>1. /\ in.hits \in Seq(InIndex) /\ Len(in.hits) \in Nat /\ in.hits[n] \in InIndex
      /\ DOMAIN in.docs = InIndex
  BY DEF IsSearch, IndexedDocs
<1>2. /\ \A m \in 1 .. n - 1 : m \in 1 .. n /\ m \in 1 .. Len(in.hits) /\ m # n
      /\ n \in 1 .. n
  BY <1>1
<1>3. FromHits(in, found, n)
  BY <1>2 DEF FromHits
<1>4. Apart(in, found, n)
  <2>1. \A i : HitTwice(in, n - 1, i) => HitTwice(in, n, i)
    BY <1>2 DEF HitTwice
  <2> QED BY <2>1 DEF Apart
<1>5. CASE AlikeStep(in, found, in.hits[n]) = found
  BY <1>3, <1>4, <1>5
<1>6. CASE /\ in.hits[n] \notin in.docs[in.target].linked \cup Search!Linked(in.docs, found)
           /\ AlikeStep(in, found, in.hits[n]) = Append(found, in.hits[n])
  <2> DEFINE new == in.hits[n]
             next == Append(found, new)
  <2>1. new \in InIndex
    BY <1>1
  <2>2. ASSUME NEW k \in DOMAIN found
        PROVE  /\ new \notin in.docs[found[k]].linked
               /\ found[k] = new => HitTwice(in, n, new)
    <3>1. new \notin in.docs[found[k]].linked
      BY <1>6 DEF Search!Linked
    <3>2. ASSUME found[k] = new PROVE HitTwice(in, n, new)
      <4>1. PICK m \in 1 .. n - 1 : found[k] = in.hits[m]
        BY DEF FromHits
      <4>2. m \in 1 .. n /\ n \in 1 .. n /\ m # n
        BY <1>2
      <4>3. in.hits[m] = new /\ in.hits[n] = new
        BY <3>2, <4>1
      <4> HIDE DEF new
      <4> QED BY <4>2, <4>3 DEF HitTwice
    <3> QED BY <3>1, <3>2
  <2>3. /\ n \in 1 .. n /\ new = in.hits[n]
        /\ new \notin in.docs[in.target].linked
    BY <1>2, <1>6
  <2> HIDE DEF new
  <2>4. /\ next \in Seq(InIndex)
        /\ \A k \in DOMAIN found : k \in DOMAIN next /\ next[k] = found[k]
        /\ \A k \in DOMAIN next : k \in DOMAIN found \/ (k = Len(found) + 1 /\ next[k] = new)
    BY <2>1, Appended
  <2>5. AlikeStep(in, found, in.hits[n]) = next
    BY <1>6 DEF new
  <2> HIDE DEF next
  <2>6. \A j, k \in DOMAIN next : j # k =>
          \/ j \in DOMAIN found /\ k \in DOMAIN found /\ next[j] = found[j] /\ next[k] = found[k]
          \/ j \in DOMAIN found /\ next[j] = found[j] /\ next[k] = new
          \/ k \in DOMAIN found /\ next[k] = found[k] /\ next[j] = new
    BY <2>4
  <2>7. ASSUME NEW j \in DOMAIN next, NEW k \in DOMAIN next, j # k
        PROVE  /\ next[k] \in in.docs[next[j]].linked => next[j] \notin in.docs[next[k]].linked
               /\ next[j] = next[k] => HitTwice(in, n, next[j])
    BY <1>4, <2>2, <2>6, <2>7 DEF Apart
  <2>8. \A k \in DOMAIN next : next[k] \notin in.docs[in.target].linked
    BY <2>3, <2>4 DEF Apart
  <2>9. Apart(in, next, n)
    BY <2>7, <2>8 DEF Apart
  <2>10. FromHits(in, next, n)
    BY <1>3, <2>3, <2>4 DEF FromHits
  <2> QED BY <2>4, <2>5, <2>9, <2>10
<1> QED
  BY <1>5, <1>6 DEF AlikeStep

LEMMA AlikeDisjoint ==
  ASSUME NEW in, IsSearch(in)
  PROVE  Search!Disjoint(in.docs, in.target, in.hits, in.pages,
           Search!MoreLikeThis(in.docs, in.target, in.hits, in.count))
<1> DEFINE f == Alike(in)
           L == Len(in.hits)
           G == {n \in 0 .. L : f[n] \in Seq(InIndex) /\ Apart(in, f[n], n) /\ FromHits(in, f[n], n)}
<1>1. L \in Nat /\ DOMAIN in.hits = 1 .. L /\ \A n \in 1 .. L : in.hits[n] \in InIndex
  BY DEF IsSearch
<1>2. /\ f[0] = <<>>
      /\ \A n \in 1 .. L : f[n] = AlikeStep(in, f[n - 1], in.hits[n])
  <2>1. AreAlike(in, f)
    BY AlikeExists
  <2> HIDE DEF f, G
  <2>2. \A n \in 0 .. L : f[n] = IF n = 0 THEN <<>> ELSE AlikeStep(in, f[n - 1], in.hits[n])
    BY <2>1, Zenon DEF AreAlike
  <2>3. 0 \in 0 .. L /\ \A n \in 1 .. L : n \in 0 .. L /\ n # 0
    BY <1>1
  <2> HIDE DEF L
  <2> QED BY <2>2, <2>3, Zenon
<1> HIDE DEF f
<1>3. 0 \in G
  <2>1. <<>> \in Seq(InIndex) /\ DOMAIN <<>> = {}
    OBVIOUS
  <2>2. Apart(in, <<>>, 0) /\ FromHits(in, <<>>, 0)
    BY <2>1 DEF Apart, FromHits
  <2>3. 0 \in 0 .. L
    BY <1>1
  <2> QED BY <1>2, <2>1, <2>2, <2>3
<1>4. ASSUME NEW n \in 1 .. L, n - 1 \in G PROVE n \in G
  <2>1. f[n - 1] \in Seq(InIndex) /\ Apart(in, f[n - 1], n - 1) /\ FromHits(in, f[n - 1], n - 1)
    BY <1>4
  <2>2. f[n] = AlikeStep(in, f[n - 1], in.hits[n])
    BY <1>2
  <2>3. f[n] \in Seq(InIndex) /\ Apart(in, f[n], n) /\ FromHits(in, f[n], n)
    BY <2>1, <2>2, AlikeStepApart
  <2>4. n \in 0 .. L
    BY <1>1
  <2> QED BY <2>3, <2>4
<1>5. L \in G
  <2>1. \A n \in 1 .. L : n - 1 \in G => n \in G
    BY <1>4
  <2> HIDE DEF G, L
  <2>2. \A n \in 0 .. L : n \in G
    BY <1>1, <1>3, <2>1, UpTo
  <2> QED BY <1>1, <2>2
<1>6. Apart(in, f[L], L)
  BY <1>5
<1>7. ASSUME NEW i, HitTwice(in, L, i)
      PROVE  \E j, k \in DOMAIN in.hits :
               in.hits[j] = i /\ in.hits[k] = i /\ in.pages[j] # in.pages[k]
  <2>1. PICK j \in 1 .. L, k \in 1 .. L : j # k /\ in.hits[j] = i /\ in.hits[k] = i
    BY <1>7 DEF HitTwice
  <2>2. in.pages[j] # in.pages[k]
    BY <1>1, <2>1 DEF IsSearch
  <2> QED BY <1>1, <2>1, <2>2
<1>8. Search!Disjoint(in.docs, in.target, in.hits, in.pages, f[L])
  BY <1>6, <1>7 DEF Search!Disjoint, Apart
<1> QED
  BY <1>8, AlikeBy DEF f

-----------------------------------------------------------------------------
(* get_duplicate_graph: what can be reached from an issue is the same from  *)
(* wherever in it one starts, if both ends of a link were indexed.          *)
LEMMA GraphGrows ==
  ASSUME NEW docs \in IndexedDocs, NEW i \in InIndex
  PROVE  /\ i \in Search!Graph(docs, i) /\ Search!Graph(docs, i) \subseteq InIndex
         /\ Search!Closed(docs, Search!Graph(docs, i))
         /\ \A j \in Search!Graph(docs, i) : Search!Graph(docs, j) \subseteq Search!Graph(docs, i)
<1>1. DOMAIN docs = InIndex /\ \A j \in InIndex : docs[j].linked \subseteq InIndex
  BY DEF IndexedDocs
<1>2. ASSUME NEW k \in InIndex
      PROVE  /\ k \in Search!Graph(docs, k) /\ Search!Graph(docs, k) \subseteq InIndex
             /\ \A j \in Search!Graph(docs, k), S \in SUBSET InIndex :
                  k \in S /\ Search!Closed(docs, S) => j \in S
  BY <1>1 DEF Search!Graph
<1>3. Search!Closed(docs, Search!Graph(docs, i))
  <2>1. ASSUME NEW j \in Search!Graph(docs, i), NEW k \in docs[j].linked
        PROVE  k \in Search!Graph(docs, i)
    <3>1. ASSUME NEW S \in SUBSET InIndex, i \in S, Search!Closed(docs, S) PROVE k \in S
      BY <1>2, <3>1 DEF Search!Closed
    <3>2. k \in InIndex
      BY <1>1, <1>2
    <3> QED BY <1>1, <3>1, <3>2 DEF Search!Graph
  <2> QED BY <2>1 DEF Search!Closed
<1>4. ASSUME NEW j \in Search!Graph(docs, i)
      PROVE  Search!Graph(docs, j) \subseteq Search!Graph(docs, i)
  <2>1. j \in InIndex /\ Search!Graph(docs, i) \in SUBSET InIndex
    BY <1>2
  <2> QED BY <1>2, <1>3, <2>1
<1> QED
  BY <1>2, <1>3, <1>4

LEMMA GraphsAreGroups ==
  ASSUME NEW docs \in IndexedDocs, Search!Settled(docs), NEW i \in InIndex,
         NEW j \in Search!Graph(docs, i)
  PROVE  Search!Graph(docs, j) = Search!Graph(docs, i)
<1>1. /\ DOMAIN docs = InIndex /\ j \in InIndex
      /\ \A a \in InIndex : docs[a].linked \subseteq InIndex
  BY GraphGrows DEF IndexedDocs
<1> DEFINE Rest == InIndex \ Search!Graph(docs, j)
<1>2. Search!Closed(docs, Rest)
  <2>1. ASSUME NEW a \in Rest, NEW b \in docs[a].linked, b \in Search!Graph(docs, j) PROVE FALSE
    <3>1. a \in InIndex /\ b \in InIndex /\ a \in docs[b].linked
      BY <1>1, <2>1 DEF Search!Settled
    <3>2. a \in Search!Graph(docs, j)
      BY <1>1, <2>1, <3>1, GraphGrows DEF Search!Closed
    <3> QED BY <3>2
  <2> QED BY <1>1, <2>1 DEF Search!Closed
<1>3. i \in Search!Graph(docs, j)
  <2>1. Rest \in SUBSET InIndex
    OBVIOUS
  <2>2. i \in Rest => j \in Rest
    BY <1>1, <1>2, <2>1 DEF Search!Graph
  <2>3. j \in Search!Graph(docs, j)
    BY <1>1, GraphGrows
  <2> QED BY <2>2, <2>3
<1> QED
  BY <1>1, <1>3, GraphGrows

LEMMA OpenInGroup ==
  ASSUME NEW docs, NEW group
  PROVE  Search!Open(docs, group) \subseteq group
BY Zenon DEF Search!Open

LEMMA RepresentedByMember ==
  ASSUME NEW docs, NEW group, NEW i \in Search!Representatives(docs, group)
  PROVE  i \in group
<1> DEFINE parents   == {j \in group \cap Search!Parents(docs) : docs[j].type = "Bug"}
           notDupes  == {j \in group : docs[j].resolution # "Duplicate"}
           preferred == IF parents # {} THEN parents ELSE group
<1>1. parents \subseteq group /\ notDupes \subseteq group /\ preferred \subseteq group
  OBVIOUS
<1>2. /\ Search!Open(docs, group) \subseteq group
      /\ Search!Open(docs, preferred) \subseteq preferred
  BY OpenInGroup
<1>3. i \in preferred \/ i \in Search!Open(docs, preferred) \/ i \in parents \/ i \in notDupes \/ i \in group
  BY DEF Search!Representatives, parents, notDupes, preferred
<1> QED
  BY <1>1, <1>2, <1>3

-----------------------------------------------------------------------------
(* resolve_duplicate_graphs: the walk over the issues.                      *)
ResolveStep(in, represent, before, i) ==
  LET group  == Search!Graph(in.docs, i)
      parent == represent[group]
  IN IF i \in before.visited THEN before
     ELSE [visited |-> before.visited \cup group,
           representatives |->
             IF in.docs[parent].type = "Epic" THEN before.representatives
             ELSE Append(before.representatives, parent),
           parentOf |-> [j \in DOMAIN in.docs |->
                           IF j \in group \ {parent} THEN {parent} ELSE before.parentOf[j]]]

NoneResolved(in) ==
  [visited |-> {}, representatives |-> <<>>, parentOf |-> [j \in DOMAIN in.docs |-> {}]]

Resolved(in, represent) ==
  LET resolved[n \in 0 .. Len(in.hits)] ==
        IF n = 0 THEN NoneResolved(in)
        ELSE ResolveStep(in, represent, resolved[n - 1], in.hits[n])
  IN resolved

Resolves(in, represent, f) ==
  f = [n \in 0 .. Len(in.hits) |->
         IF n = 0 THEN NoneResolved(in) ELSE ResolveStep(in, represent, f[n - 1], in.hits[n])]

Resolutions == [visited : SUBSET InIndex, representatives : Seq(InIndex),
                parentOf : [InIndex -> SUBSET InIndex]]

LEMMA ResolvedBy ==
  ASSUME NEW in, NEW represent
  PROVE  Search!Resolve(in.docs, in.hits, represent) = Resolved(in, represent)[Len(in.hits)]
BY Zenon DEF Search!Resolve, Resolved, ResolveStep, NoneResolved

(* The issue that is picked for the group of an issue is a member.          *)
LEMMA MemberPicked ==
  ASSUME NEW in, IsSearch(in), NEW represent \in Picked(in.docs), NEW i \in InIndex
  PROVE  represent[Search!Graph(in.docs, i)] \in Search!Graph(in.docs, i) \cap InIndex
<1>1. represent[Search!Graph(in.docs, i)] \in Search!Representatives(in.docs, Search!Graph(in.docs, i))
  BY DEF Picked
<1>2. Search!Graph(in.docs, i) \subseteq InIndex
  BY GraphGrows DEF IsSearch
<1> QED
  BY <1>1, <1>2, RepresentedByMember

LEMMA ResolveStepTyped ==
  ASSUME NEW in, IsSearch(in), NEW represent \in Picked(in.docs), NEW before \in Resolutions,
         NEW i \in InIndex
  PROVE  ResolveStep(in, represent, before, i) \in Resolutions
<1> DEFINE group  == Search!Graph(in.docs, i)
           parent == represent[group]
<1>1. group \subseteq InIndex /\ parent \in InIndex /\ DOMAIN in.docs = InIndex
  BY MemberPicked, GraphGrows DEF IsSearch, IndexedDocs
<1>2. ResolveStep(in, represent, before, i) =
        IF i \in before.visited THEN before
        ELSE [visited |-> before.visited \cup group,
              representatives |->
                IF in.docs[parent].type = "Epic" THEN before.representatives
                ELSE Append(before.representatives, parent),
              parentOf |-> [j \in DOMAIN in.docs |->
                              IF j \in group \ {parent} THEN {parent} ELSE before.parentOf[j]]]
  BY DEF ResolveStep
<1> HIDE DEF group, parent
<1>3. /\ before.visited \in SUBSET InIndex /\ before.representatives \in Seq(InIndex)
      /\ before.parentOf \in [InIndex -> SUBSET InIndex]
  BY DEF Resolutions
<1>4. Append(before.representatives, parent) \in Seq(InIndex)
  BY <1>1, <1>3, Appended
<1>5. [j \in DOMAIN in.docs |->
         IF j \in group \ {parent} THEN {parent} ELSE before.parentOf[j]] \in [InIndex -> SUBSET InIndex]
  BY <1>1, <1>3
<1> QED
  BY <1>1, <1>2, <1>3, <1>4, <1>5 DEF Resolutions

LEMMA ResolvesExists ==
  ASSUME NEW in, IsSearch(in), NEW represent \in Picked(in.docs)
  PROVE  Resolves(in, represent, Resolved(in, represent))
<1> DEFINE A == Resolutions
           L == Len(in.hits)
           step == [n \in 1 .. L |-> [before \in A |-> ResolveStep(in, represent, before, in.hits[n])]]
<1>1. L \in Nat /\ \A n \in 1 .. L : in.hits[n] \in InIndex
  BY DEF IsSearch
<1>2. step \in [1 .. L -> [A -> A]]
  <2>1. \A before \in A, i \in InIndex : ResolveStep(in, represent, before, i) \in A
    BY ResolveStepTyped
  <2> HIDE DEF A
  <2> QED BY <1>1, <2>1
<1>3. NoneResolved(in) \in A
  BY DEF NoneResolved, Resolutions, IsSearch, IndexedDocs
<1>4. PICK f \in [0 .. L -> A] : f[0] = NoneResolved(in) /\ \A n \in 1 .. L : f[n] = step[n][f[n - 1]]
  <2>1. Steps(A, NoneResolved(in), L, step)
    BY <1>1, <1>2, <1>3 DEF Steps
  <2> HIDE DEF A, L, step
  <2>2. \E f : Takes(f, A, NoneResolved(in), L, step)
    BY <2>1, StepsTaken
  <2> QED BY <2>2 DEF Takes
<1>5. \A n \in 1 .. L : f[n] = ResolveStep(in, represent, f[n - 1], in.hits[n])
  <2>1. \A n \in 1 .. L : n - 1 \in 0 .. L
    BY <1>1
  <2> HIDE DEF A, L
  <2> QED BY <1>4, <2>1
<1>6. Resolves(in, represent, f)
  <2>1. ASSUME NEW n \in 0 .. L
        PROVE  f[n] = IF n = 0 THEN NoneResolved(in)
                      ELSE ResolveStep(in, represent, f[n - 1], in.hits[n])
    BY <1>1, <1>4, <1>5
  <2>2. DOMAIN f = 0 .. L
    BY <1>4
  <2> QED BY <1>4, <2>1, <2>2 DEF Resolves
<1>7. Resolved(in, represent) = CHOOSE g : Resolves(in, represent, g)
  BY Zenon DEF Resolved, Resolves
<1> QED
  BY <1>6, <1>7, Zenon

(* Who was visited is represented, or its parent is an epic; who was not    *)
(* has no parent.                                                           *)
IsRepresented(in, r, j) ==
  \/ \E m \in DOMAIN r.representatives : Search!StandsFor(r, m, j)
  \/ \E e \in Search!HeadOf(r, j) : in.docs[e].type = "Epic"
Standing(in, r) ==
  /\ \A j \in r.visited : IsRepresented(in, r, j)
  /\ \A j \in InIndex \ r.visited : r.parentOf[j] = {}

(* Graphs are visited whole, a parent is of one's own group, and of each    *)
(* group not more than one represents it.                                   *)
InGroups(in, r) ==
  /\ \A j \in r.visited : Search!Graph(in.docs, j) \subseteq r.visited
  /\ \A j \in InIndex : r.parentOf[j] \subseteq Search!Graph(in.docs, j)
  /\ \A m \in DOMAIN r.representatives : r.representatives[m] \in r.visited
  /\ \A m, n \in DOMAIN r.representatives :
       m # n => r.representatives[m] \notin Search!Graph(in.docs, r.representatives[n])

(* What a step does that visits a graph.                                    *)
Visits(in, represent, before, next, i) ==
  LET group  == Search!Graph(in.docs, i)
      parent == represent[group]
      old    == before.representatives
      new    == next.representatives
  IN /\ next.visited = before.visited \cup group
     /\ \A j \in InIndex : next.parentOf[j] =
          IF j \in group \ {parent} THEN {parent} ELSE before.parentOf[j]
     /\ \A k \in DOMAIN old : k \in DOMAIN new /\ new[k] = old[k]
     /\ \A k \in DOMAIN new : k \notin DOMAIN old => k = Len(old) + 1 /\ new[k] = parent
     /\ in.docs[parent].type = "Epic" \/ \E k \in DOMAIN new : new[k] = parent

LEMMA ResolveStepVisits ==
  ASSUME NEW in, IsSearch(in), NEW represent \in Picked(in.docs), NEW before \in Resolutions,
         NEW i \in InIndex
  PROVE  \/ i \in before.visited /\ ResolveStep(in, represent, before, i) = before
         \/ /\ i \notin before.visited
            /\ Visits(in, represent, before, ResolveStep(in, represent, before, i), i)
<1> DEFINE group  == Search!Graph(in.docs, i)
           parent == represent[group]
           next   == ResolveStep(in, represent, before, i)
           old    == before.representatives
           new    == next.representatives
<1>1. DOMAIN in.docs = InIndex /\ parent \in InIndex /\ old \in Seq(InIndex)
  BY MemberPicked DEF IsSearch, IndexedDocs, Resolutions
<1>2. CASE i \in before.visited
  BY <1>2 DEF ResolveStep
<1>3. CASE i \notin before.visited
  <2>1. /\ next.visited = before.visited \cup group
        /\ new = IF in.docs[parent].type = "Epic" THEN old ELSE Append(old, parent)
        /\ \A j \in InIndex : next.parentOf[j] =
             IF j \in group \ {parent} THEN {parent} ELSE before.parentOf[j]
    BY <1>1, <1>3 DEF ResolveStep
  <2> HIDE DEF group, parent, next, old, new
  <2>2. /\ \A k \in DOMAIN old : k \in DOMAIN Append(old, parent) /\ Append(old, parent)[k] = old[k]
        /\ \A k \in DOMAIN Append(old, parent) :
             k \in DOMAIN old \/ (k = Len(old) + 1 /\ Append(old, parent)[k] = parent)
        /\ \E k \in DOMAIN Append(old, parent) : Append(old, parent)[k] = parent
    BY <1>1, Appended
  <2>3. /\ \A k \in DOMAIN old : k \in DOMAIN new /\ new[k] = old[k]
        /\ \A k \in DOMAIN new : k \notin DOMAIN old => k = Len(old) + 1 /\ new[k] = parent
        /\ in.docs[parent].type = "Epic" \/ \E k \in DOMAIN new : new[k] = parent
    BY <2>1, <2>2
  <2> QED BY <1>3, <2>1, <2>3 DEF Visits, group, parent, next, old, new
<1> QED
  BY <1>2, <1>3

LEMMA ResolveStepStands ==
  ASSUME NEW in, IsSearch(in), NEW represent \in Picked(in.docs),
         NEW before \in Resolutions, Standing(in, before), NEW i \in InIndex
  PROVE  LET next == ResolveStep(in, represent, before, i)
         IN Standing(in, next) /\ i \in next.visited /\ before.visited \subseteq next.visited
<1> DEFINE group  == Search!Graph(in.docs, i)
           parent == represent[group]
           next   == ResolveStep(in, represent, before, i)
           old    == before.representatives
           new    == next.representatives
<1>1. parent \in group /\ group \subseteq InIndex /\ i \in group
  BY MemberPicked, GraphGrows DEF IsSearch
<1>2. CASE i \in before.visited /\ next = before
  BY <1>2
<1>3. CASE i \notin before.visited /\ Visits(in, represent, before, next, i)
  <2>1. /\ next.visited = before.visited \cup group
        /\ \A j \in InIndex : next.parentOf[j] =
             IF j \in group \ {parent} THEN {parent} ELSE before.parentOf[j]
        /\ \A k \in DOMAIN old : k \in DOMAIN new /\ new[k] = old[k]
        /\ in.docs[parent].type = "Epic" \/ \E k \in DOMAIN new : new[k] = parent
    BY <1>3 DEF Visits
  <2>2. before.visited \subseteq InIndex
    BY DEF Resolutions
  <2> HIDE DEF next, old, new, group, parent
  <2>3. ASSUME NEW j \in group, j # parent PROVE IsRepresented(in, next, j)
    <3>1. next.parentOf[j] = {parent}
      BY <1>1, <2>1, <2>3
    <3>2. /\ \A k \in DOMAIN new : new[k] = parent => Search!StandsFor(next, k, j)
          /\ parent \in Search!HeadOf(next, j)
      BY <3>1 DEF Search!StandsFor, Search!HeadOf, new
    <3> QED BY <2>1, <3>2 DEF IsRepresented, new
  <2>4. ASSUME NEW j \in before.visited, j \notin group \ {parent} PROVE IsRepresented(in, next, j)
    <3>1. next.parentOf[j] = before.parentOf[j]
      BY <2>1, <2>2, <2>4
    <3>2. Search!HeadOf(next, j) = Search!HeadOf(before, j)
      BY <3>1 DEF Search!HeadOf
    <3>3. \A m \in DOMAIN old : Search!StandsFor(before, m, j) =>
            m \in DOMAIN new /\ Search!StandsFor(next, m, j)
      BY <2>1, <3>1 DEF Search!StandsFor, old, new
    <3>4. IsRepresented(in, before, j)
      BY DEF Standing
    <3> QED BY <3>2, <3>3, <3>4 DEF IsRepresented, old, new
  <2>5. ASSUME parent \notin before.visited PROVE IsRepresented(in, next, parent)
    <3>1. next.parentOf[parent] = {}
      BY <1>1, <2>1, <2>5 DEF Standing
    <3>2. /\ \A k \in DOMAIN new : new[k] = parent => Search!StandsFor(next, k, parent)
          /\ parent \in Search!HeadOf(next, parent)
      BY <3>1 DEF Search!StandsFor, Search!HeadOf, new
    <3> QED BY <2>1, <3>2 DEF IsRepresented, new
  <2>6. \A j \in next.visited : IsRepresented(in, next, j)
    BY <2>1, <2>3, <2>4, <2>5
  <2>7. \A j \in InIndex \ next.visited : next.parentOf[j] = {}
    BY <2>1 DEF Standing
  <2>8. i \in next.visited /\ before.visited \subseteq next.visited
    BY <1>1, <2>1
  <2> QED BY <2>6, <2>7, <2>8 DEF Standing, next
<1> QED
  BY <1>2, <1>3, ResolveStepVisits

LEMMA ResolveStepInGroups ==
  ASSUME NEW in, IsSearch(in), Search!Settled(in.docs), NEW represent \in Picked(in.docs),
         NEW before \in Resolutions, InGroups(in, before), NEW i \in InIndex
  PROVE  InGroups(in, ResolveStep(in, represent, before, i))
<1> DEFINE GraphOf(j) == Search!Graph(in.docs, j)
           group  == GraphOf(i)
           parent == represent[group]
           next   == ResolveStep(in, represent, before, i)
           old    == before.representatives
           new    == next.representatives
<1>1. parent \in group /\ group \subseteq InIndex /\ i \in group
  BY MemberPicked, GraphGrows DEF IsSearch
<1>2. CASE i \in before.visited /\ next = before
  BY <1>2
<1>3. CASE i \notin before.visited /\ Visits(in, represent, before, next, i)
  <2>1. /\ next.visited = before.visited \cup group
        /\ \A j \in InIndex : next.parentOf[j] =
             IF j \in group \ {parent} THEN {parent} ELSE before.parentOf[j]
        /\ \A k \in DOMAIN old : k \in DOMAIN new /\ new[k] = old[k]
        /\ \A k \in DOMAIN new : k \notin DOMAIN old => k = Len(old) + 1 /\ new[k] = parent
    BY <1>3 DEF Visits
  <2>2. before.visited \subseteq InIndex
    BY DEF Resolutions
  <2>3. \A j \in group : GraphOf(j) = group
    BY GraphsAreGroups DEF IsSearch
  <2>4. /\ \A j \in before.visited : GraphOf(j) \subseteq before.visited
        /\ \A j \in InIndex : before.parentOf[j] \subseteq GraphOf(j)
        /\ \A m \in DOMAIN old : old[m] \in before.visited
        /\ \A m, n \in DOMAIN old : m # n => old[m] \notin GraphOf(old[n])
    BY DEF InGroups
  <2> HIDE DEF GraphOf, group, parent, next, old, new
  <2>5. \A j \in group : j \notin before.visited
    BY <1>1, <1>3, <2>3, <2>4
  <2>6. \A j \in next.visited : GraphOf(j) \subseteq next.visited
    BY <2>1, <2>3, <2>4
  <2>7. \A j \in InIndex : next.parentOf[j] \subseteq GraphOf(j)
    BY <1>1, <2>1, <2>3, <2>4
  <2>8. \A m \in DOMAIN new : new[m] \in next.visited
    BY <1>1, <2>1, <2>4
  <2>9. ASSUME NEW m \in DOMAIN new, NEW n \in DOMAIN new, m # n PROVE new[m] \notin GraphOf(new[n])
    <3>1. CASE m \in DOMAIN old /\ n \in DOMAIN old
      BY <2>1, <2>4, <2>9, <3>1
    <3>2. CASE m \in DOMAIN old /\ n \notin DOMAIN old
      BY <1>1, <2>1, <2>3, <2>4, <2>5, <3>2
    <3>3. CASE m \notin DOMAIN old /\ n \in DOMAIN old
      BY <1>1, <2>1, <2>4, <2>5, <3>3
    <3>4. m \in DOMAIN old \/ n \in DOMAIN old
      BY <2>1, <2>9
    <3> QED BY <3>1, <3>2, <3>3, <3>4
  <2> QED BY <2>6, <2>7, <2>8, <2>9 DEF InGroups, GraphOf, next, new
<1> QED
  BY <1>2, <1>3, ResolveStepVisits

(* Two that stand for one issue are of its group.                           *)
LEMMA StandsAlone ==
  ASSUME NEW in, IsSearch(in), Search!Settled(in.docs), NEW r \in Resolutions, InGroups(in, r),
         NEW i \in InIndex, NEW l \in DOMAIN r.representatives, NEW m \in DOMAIN r.representatives,
         Search!StandsFor(r, l, i), Search!StandsFor(r, m, i)
  PROVE  l = m
<1> DEFINE GraphOf(j) == Search!Graph(in.docs, j)
           reps == r.representatives
<1>1. reps[l] \in GraphOf(i) /\ reps[m] \in GraphOf(i)
  <2>1. i \in GraphOf(i) /\ r.parentOf[i] \subseteq GraphOf(i)
    BY GraphGrows DEF InGroups, IsSearch
  <2> HIDE DEF GraphOf
  <2> QED BY <2>1 DEF Search!StandsFor
<1>2. GraphOf(reps[m]) = GraphOf(i)
  BY <1>1, GraphsAreGroups DEF IsSearch
<1>3. l # m => reps[l] \notin GraphOf(reps[m])
  BY DEF InGroups
<1> HIDE DEF GraphOf, reps
<1> QED
  BY <1>1, <1>2, <1>3

LEMMA ResolvesOnce ==
  ASSUME NEW in, IsSearch(in), NEW represent \in Picked(in.docs)
  PROVE  Search!RepresentedOnce(in.docs, in.hits, Search!Resolve(in.docs, in.hits, represent))
<1> DEFINE f == Resolved(in, represent)
           L == Len(in.hits)
           Grouped(r) == Search!Settled(in.docs) => InGroups(in, r)
           G == {n \in 0 .. L : /\ f[n] \in Resolutions /\ Standing(in, f[n]) /\ Grouped(f[n])
                                /\ \A k \in 1 .. n : in.hits[k] \in f[n].visited}
<1> SUFFICES Search!RepresentedOnce(in.docs, in.hits, f[L])
  BY ResolvedBy
<1>1. L \in Nat /\ DOMAIN in.hits = 1 .. L /\ \A n \in 1 .. L : in.hits[n] \in InIndex
  BY DEF IsSearch
<1>2. /\ f[0] = NoneResolved(in)
      /\ \A n \in 1 .. L : f[n] = ResolveStep(in, represent, f[n - 1], in.hits[n])
  <2>1. Resolves(in, represent, f)
    BY ResolvesExists
  <2> HIDE DEF f, G
  <2>2. \A n \in 0 .. L : f[n] = IF n = 0 THEN NoneResolved(in) ELSE ResolveStep(in, represent, f[n - 1], in.hits[n])
    BY <2>1, Zenon DEF Resolves
  <2>3. 0 \in 0 .. L /\ \A n \in 1 .. L : n \in 0 .. L /\ n # 0
    BY <1>1
  <2> HIDE DEF L
  <2> QED BY <2>2, <2>3, Zenon
<1> HIDE DEF f
<1>3. 0 \in G
  <2>1. NoneResolved(in) \in Resolutions
    BY DEF NoneResolved, Resolutions, IsSearch, IndexedDocs
  <2>2. Standing(in, NoneResolved(in)) /\ InGroups(in, NoneResolved(in))
    <3>1. DOMAIN in.docs = InIndex /\ DOMAIN <<>> = {}
      BY DEF IsSearch, IndexedDocs
    <3> QED BY <3>1 DEF Standing, InGroups, NoneResolved
  <2>3. 0 \in 0 .. L /\ 1 .. 0 = {}
    BY <1>1
  <2> QED BY <1>2, <2>1, <2>2, <2>3
<1>4. ASSUME NEW n \in 1 .. L, n - 1 \in G PROVE n \in G
  <2>1. /\ f[n - 1] \in Resolutions /\ Standing(in, f[n - 1]) /\ Grouped(f[n - 1])
        /\ \A k \in 1 .. n - 1 : in.hits[k] \in f[n - 1].visited
    BY <1>4
  <2>2. in.hits[n] \in InIndex /\ f[n] = ResolveStep(in, represent, f[n - 1], in.hits[n])
    BY <1>1, <1>2
  <2>3. f[n] \in Resolutions
    BY <2>1, <2>2, ResolveStepTyped
  <2>4. Standing(in, f[n]) /\ in.hits[n] \in f[n].visited /\ f[n - 1].visited \subseteq f[n].visited
    BY <2>1, <2>2, ResolveStepStands
  <2>5. Grouped(f[n])
    BY <2>1, <2>2, ResolveStepInGroups
  <2>6. \A k \in 1 .. n : k = n \/ k \in 1 .. n - 1
    BY <1>1
  <2>7. \A k \in 1 .. n : in.hits[k] \in f[n].visited
    BY <2>1, <2>4, <2>6
  <2>8. n \in 0 .. L
    BY <1>1
  <2> HIDE DEF Grouped
  <2> QED BY <2>3, <2>4, <2>5, <2>7, <2>8
<1>5. L \in G
  <2>1. \A n \in 1 .. L : n - 1 \in G => n \in G
    BY <1>4
  <2> HIDE DEF G, L
  <2>2. \A n \in 0 .. L : n \in G
    BY <1>1, <1>3, <2>1, UpTo
  <2> QED BY <1>1, <2>2
<1>6. /\ f[L] \in Resolutions /\ Standing(in, f[L]) /\ Grouped(f[L])
      /\ \A n \in DOMAIN in.hits : in.hits[n] \in f[L].visited /\ in.hits[n] \in InIndex
  BY <1>1, <1>5
<1> HIDE DEF G, L
<1>7. Search!Represented(in.docs, in.hits, f[L])
  BY <1>6 DEF Standing, IsRepresented, Search!Represented
<1>8. ASSUME Search!Settled(in.docs)
      PROVE  /\ \A n \in DOMAIN in.hits : \A l, m \in DOMAIN f[L].representatives :
                  Search!StandsFor(f[L], l, in.hits[n]) /\ Search!StandsFor(f[L], m, in.hits[n]) => l = m
             /\ \A l, m \in DOMAIN f[L].representatives :
                  l # m => f[L].representatives[l] \notin Search!Graph(in.docs, f[L].representatives[m])
  <2>1. InGroups(in, f[L])
    BY <1>6, <1>8
  <2>2. ASSUME NEW n \in DOMAIN in.hits, NEW l \in DOMAIN f[L].representatives,
               NEW m \in DOMAIN f[L].representatives,
               Search!StandsFor(f[L], l, in.hits[n]), Search!StandsFor(f[L], m, in.hits[n])
        PROVE  l = m
    BY <1>6, <1>8, <2>1, <2>2, StandsAlone
  <2> QED BY <2>1, <2>2 DEF InGroups
<1> QED
  BY <1>7, <1>8 DEF Search!RepresentedOnce

-----------------------------------------------------------------------------
(* Sums over the subsets of a finite set of keys.                           *)
Smaller2(K, n) == {S \in SUBSET K : Cardinality(S) <= n}
First(S) == CHOOSE k \in S : TRUE
SumOf(p, f, S) == IF S = {} THEN 0 ELSE p[First(S)] + f[S \ {First(S)}]
HasSum(K, p) == \E f : f = [S \in SUBSET K |-> SumOf(p, f, S)]
SumsTo(f, p, K, n) == f = [S \in Smaller2(K, n) |-> SumOf(p, f, S)]

LEMMA FirstIn ==
  ASSUME NEW S, S # {}
  PROVE  First(S) \in S
BY DEF First

LEMMA OneLess ==
  ASSUME NEW S, IsFiniteSet(S), NEW k \in S
  PROVE  /\ IsFiniteSet(S \ {k}) /\ Cardinality(S) \in Nat \ {0}
         /\ Cardinality(S \ {k}) = Cardinality(S) - 1
<1>1. Cardinality(S) \in Nat /\ Cardinality(S) # 0
  BY FS_CardinalityType, FS_EmptySet
<1> QED
  BY <1>1, FS_RemoveElement

LEMMA SumsExist ==
  ASSUME NEW K, IsFiniteSet(K), NEW p
  PROVE  HasSum(K, p)
<1> DEFINE N == Cardinality(K)
           G == {n \in 0 .. N : \E f : SumsTo(f, p, K, n)}
<1>1. /\ N \in Nat
      /\ \A S \in SUBSET K : IsFiniteSet(S) /\ Cardinality(S) \in Nat /\ Cardinality(S) <= N
  BY FS_CardinalityType, FS_Subset
<1>2. 0 \in G
  <2>1. \A S \in Smaller2(K, 0) : S = {}
    <3>1. ASSUME NEW S \in SUBSET K, Cardinality(S) <= 0 PROVE S = {}
      <4>1. Cardinality(S) = 0 /\ IsFiniteSet(S)
        BY <1>1, <3>1
      <4> QED BY <4>1, FS_EmptySet
    <3> QED BY <3>1 DEF Smaller2
  <2> DEFINE f == [S \in Smaller2(K, 0) |-> 0]
  <2>2. SumsTo(f, p, K, 0)
    BY <2>1 DEF SumsTo, SumOf
  <2>3. 0 \in 0 .. N
    BY <1>1
  <2> HIDE DEF f
  <2> QED BY <2>2, <2>3
<1>3. ASSUME NEW n \in 1 .. N, n - 1 \in G PROVE n \in G
  <2>1. PICK f : SumsTo(f, p, K, n - 1)
    BY <1>3
  <2> DEFINE g == [S \in Smaller2(K, n) |-> SumOf(p, f, S)]
  <2>2. ASSUME NEW S \in Smaller2(K, n - 1) PROVE g[S] = f[S]
    <3>1. S \in Smaller2(K, n)
      BY <1>1 DEF Smaller2
    <3>2. f[S] = SumOf(p, f, S)
      BY <2>1 DEF SumsTo
    <3> QED BY <3>1, <3>2
  <2>3. ASSUME NEW S \in Smaller2(K, n), S # {} PROVE S \ {First(S)} \in Smaller2(K, n - 1)
    <3>1. S \in SUBSET K /\ Cardinality(S) <= n /\ First(S) \in S
      BY <2>3, FirstIn DEF Smaller2
    <3>2. Cardinality(S \ {First(S)}) = Cardinality(S) - 1 /\ Cardinality(S) \in Nat
      BY <1>1, <3>1, OneLess
    <3> QED BY <1>1, <3>1, <3>2 DEF Smaller2
  <2>4. ASSUME NEW S \in Smaller2(K, n) PROVE SumOf(p, f, S) = SumOf(p, g, S)
    <3> HIDE DEF g
    <3> QED BY <2>2, <2>3 DEF SumOf
  <2>5. SumsTo(g, p, K, n)
    BY <2>4 DEF SumsTo
  <2>6. n \in 0 .. N
    BY <1>1
  <2> HIDE DEF g
  <2> QED BY <2>5, <2>6
<1>4. N \in G
  <2>1. \A n \in 1 .. N : n - 1 \in G => n \in G
    BY <1>3
  <2>2. N \in 0 .. N
    BY <1>1
  <2> HIDE DEF G, N
  <2>3. \A n \in 0 .. N : n \in G
    BY <1>1, <1>2, <2>1, UpTo
  <2> QED BY <2>2, <2>3
<1>5. PICK f : SumsTo(f, p, K, N)
  BY <1>4
<1>6. Smaller2(K, N) = SUBSET K
  BY <1>1 DEF Smaller2
<1> QED
  BY <1>5, <1>6 DEF SumsTo, HasSum

(* What is summed, and that the sum does not depend on which key is taken   *)
(* first and is the sum of the sums of its parts.                           *)
Summing(K, p, f, H) ==
  /\ IsFiniteSet(K) /\ f = [S \in SUBSET K |-> SumOf(p, f, S)]
  /\ H \in SUBSET K /\ \A k \in H : p[k] \in Nat
Takes1(p, f, H) == \A S \in SUBSET H : f[S] \in Nat /\ \A k \in S : f[S] = p[k] + f[S \ {k}]
Joins(f, H) == \A A, B \in SUBSET H : A \cap B = {} => f[A \cup B] = f[A] + f[B]

LEMMA SumTaken ==
  ASSUME NEW K, NEW p, NEW f, NEW H, Summing(K, p, f, H)
  PROVE  Takes1(p, f, H)
<1>0. IsFiniteSet(K) /\ H \in SUBSET K /\ (\A k \in H : p[k] \in Nat)
      /\ f = [S \in SUBSET K |-> SumOf(p, f, S)]
  BY DEF Summing
<1> DEFINE N == Cardinality(H)
           Fine(S) == f[S] \in Nat /\ \A k \in S : f[S] = p[k] + f[S \ {k}]
           G == {n \in 0 .. N : \A S \in SUBSET H : Cardinality(S) <= n => Fine(S)}
<1>1. /\ N \in Nat
      /\ \A S \in SUBSET H : IsFiniteSet(S) /\ Cardinality(S) \in 0 .. N
  <2>1. IsFiniteSet(H)
    BY <1>0, FS_Subset
  <2> QED BY <2>1, FS_CardinalityType, FS_Subset
<1>2. \A S \in SUBSET H : f[S] = SumOf(p, f, S)
  BY <1>0
<1>3. ASSUME NEW S \in SUBSET H, S = {} PROVE Fine(S)
  <2>1. f[S] = 0
    BY <1>2, <1>3 DEF SumOf
  <2> QED BY <1>3, <2>1
<1>4. 0 \in G
  <2>1. \A S \in SUBSET H : Cardinality(S) <= 0 => S = {}
    <3>1. \A S \in SUBSET H : Cardinality(S) <= 0 => Cardinality(S) = 0
      BY <1>1
    <3> QED BY <1>1, <3>1, FS_EmptySet
  <2>2. 0 \in 0 .. N
    BY <1>1
  <2> HIDE DEF Fine
  <2> QED BY <1>3, <2>1, <2>2
<1>5. ASSUME NEW n \in 1 .. N, n - 1 \in G PROVE n \in G
  <2>1. ASSUME NEW T \in SUBSET H, Cardinality(T) <= n - 1 PROVE Fine(T)
    <3> HIDE DEF Fine
    <3> QED BY <1>5, <2>1
  <2>2. ASSUME NEW S \in SUBSET H, S # {}, Cardinality(S) <= n PROVE Fine(S)
    <3> DEFINE c == First(S)
    <3>1. IsFiniteSet(S) /\ Cardinality(S) \in Nat
      BY <1>1
    <3>2. c \in S /\ f[S] = p[c] + f[S \ {c}]
      BY <1>2, <2>2, FirstIn DEF SumOf
    <3> HIDE DEF c
    <3>3. ASSUME NEW T \in SUBSET S, T # S PROVE T \in SUBSET H /\ Fine(T)
      <4>1. PICK k \in S : k \notin T
        BY <3>3
      <4>2. T \in SUBSET (S \ {k}) /\ Cardinality(S \ {k}) = Cardinality(S) - 1 /\ IsFiniteSet(S \ {k})
        BY <3>1, <4>1, OneLess
      <4>3. Cardinality(T) <= Cardinality(S \ {k}) /\ Cardinality(T) \in Nat
        BY <4>2, FS_Subset, FS_CardinalityType
      <4>4. Cardinality(T) <= n - 1 /\ T \in SUBSET H
        BY <2>2, <3>1, <4>2, <4>3
      <4> HIDE DEF Fine
      <4> QED BY <2>1, <4>4
    <3>4. f[S] \in Nat
      <4>1. Fine(S \ {c}) /\ p[c] \in Nat
        <5> HIDE DEF Fine
        <5> QED BY <1>0, <3>2, <3>3
      <4> QED BY <3>2, <4>1
    <3>5. ASSUME NEW k \in S, k # c PROVE f[S] = p[k] + f[S \ {k}]
      <4> DEFINE rest == (S \ {k}) \ {c}
      <4>1. k \in S \ {c} /\ c \in S \ {k} /\ (S \ {c}) \ {k} = rest
        BY <3>2, <3>5
      <4>2. Fine(S \ {c}) /\ Fine(S \ {k}) /\ Fine(rest)
        <5> HIDE DEF Fine
        <5> QED BY <3>2, <3>3, <3>5
      <4>3. f[S \ {c}] = p[k] + f[rest] /\ f[S \ {k}] = p[c] + f[rest] /\ f[rest] \in Nat
        BY <4>1, <4>2
      <4>4. p[k] \in Nat /\ p[c] \in Nat
        BY <1>0, <3>2
      <4> HIDE DEF rest
      <4> QED BY <3>2, <4>3, <4>4
    <3> QED BY <3>2, <3>4, <3>5
  <2>3. n \in 0 .. N
    BY <1>1
  <2> HIDE DEF Fine
  <2> QED BY <1>3, <2>2, <2>3
<1>6. \A n \in 0 .. N : n \in G
  <2>1. \A n \in 1 .. N : n - 1 \in G => n \in G
    BY <1>5
  <2> HIDE DEF G, N
  <2> QED BY <1>1, <1>4, <2>1, UpTo
<1> QED
  <2>1. ASSUME NEW S \in SUBSET H PROVE Fine(S)
    <3>1. Cardinality(S) \in 0 .. N
      BY <1>1
    <3>2. Cardinality(S) <= Cardinality(S)
      BY <3>1
    <3> HIDE DEF Fine
    <3>3. Cardinality(S) \in G
      <4> HIDE DEF G
      <4> QED BY <1>6, <3>1
    <3> QED BY <3>2, <3>3
  <2> QED BY <2>1 DEF Takes1

LEMMA SumJoins ==
  ASSUME NEW K, NEW p, NEW f, NEW H, Summing(K, p, f, H)
  PROVE  Joins(f, H)
<1>0. IsFiniteSet(K) /\ H \in SUBSET K /\ f = [S \in SUBSET K |-> SumOf(p, f, S)]
  BY DEF Summing
<1> DEFINE N == Cardinality(H)
           Adds(B) == \A A \in SUBSET H : A \cap B = {} => f[A \cup B] = f[A] + f[B]
           G == {n \in 0 .. N : \A B \in SUBSET H : Cardinality(B) = n => Adds(B)}
<1>1. /\ N \in Nat
      /\ \A S \in SUBSET H : IsFiniteSet(S) /\ Cardinality(S) \in 0 .. N
  <2>1. IsFiniteSet(H)
    BY <1>0, FS_Subset
  <2> QED BY <2>1, FS_CardinalityType, FS_Subset
<1>2. \A S \in SUBSET H : f[S] \in Nat /\ \A k \in S : f[S] = p[k] + f[S \ {k}]
  BY SumTaken DEF Takes1
<1>3. 0 \in G
  <2>1. f[{}] = 0
    BY <1>0 DEF SumOf
  <2>2. ASSUME NEW B \in SUBSET H, Cardinality(B) = 0 PROVE Adds(B)
    <3>1. B = {}
      BY <1>1, <2>2, FS_EmptySet
    <3>2. ASSUME NEW A \in SUBSET H PROVE f[A \cup B] = f[A] + f[B]
      <4>1. A \cup B = A
        BY <3>1
      <4>2. f[A] \in Nat /\ f[B] = 0
        BY <1>2, <2>1, <3>1
      <4> QED BY <4>1, <4>2
    <3> QED BY <3>2
  <2>3. 0 \in 0 .. N
    BY <1>1
  <2> HIDE DEF Adds
  <2> QED BY <2>2, <2>3
<1>4. ASSUME NEW n \in 1 .. N, n - 1 \in G PROVE n \in G
  <2>1. ASSUME NEW B \in SUBSET H, Cardinality(B) = n PROVE Adds(B)
    <3>1. B # {} /\ IsFiniteSet(B)
      BY <1>1, <2>1, FS_EmptySet
    <3>2. PICK k : k \in B
      BY <3>1
    <3>3. B \ {k} \in SUBSET H /\ Cardinality(B \ {k}) = n - 1
      BY <2>1, <3>1, <3>2, OneLess
    <3>4. Adds(B \ {k})
      <4> HIDE DEF Adds
      <4> QED BY <1>4, <3>3
    <3>5. ASSUME NEW A \in SUBSET H, A \cap B = {} PROVE f[A \cup B] = f[A] + f[B]
      <4>1. A \cup B \in SUBSET H /\ k \in A \cup B /\ (A \cup B) \ {k} = A \cup (B \ {k})
            /\ A \cap (B \ {k}) = {}
        BY <3>2, <3>5
      <4>2. f[A \cup B] = p[k] + f[A \cup (B \ {k})]
        BY <1>2, <4>1
      <4>3. f[A \cup (B \ {k})] = f[A] + f[B \ {k}]
        BY <3>4, <4>1
      <4>4. f[B] = p[k] + f[B \ {k}]
        BY <1>2, <3>2
      <4>5. p[k] \in Nat /\ f[A] \in Nat /\ f[B \ {k}] \in Nat
        BY <1>2, <3>2, <3>3 DEF Summing
      <4> QED BY <4>2, <4>3, <4>4, <4>5
    <3> QED BY <3>5
  <2>2. n \in 0 .. N
    BY <1>1
  <2> HIDE DEF Adds
  <2> QED BY <2>1, <2>2
<1>5. \A n \in 0 .. N : n \in G
  <2>1. \A n \in 1 .. N : n - 1 \in G => n \in G
    BY <1>4
  <2> HIDE DEF G, N
  <2> QED BY <1>1, <1>3, <2>1, UpTo
<1> QED
  <2>1. ASSUME NEW B \in SUBSET H PROVE Adds(B)
    <3>1. Cardinality(B) \in 0 .. N
      BY <1>1
    <3>2. Cardinality(B) \in G
      <4> HIDE DEF G
      <4> QED BY <1>5, <3>1
    <3> HIDE DEF Adds
    <3> QED BY <3>2
  <2> QED BY <2>1 DEF Joins

LEMMA SumCompared ==
  ASSUME NEW K, NEW p, NEW f, NEW q, NEW g, NEW H,
         Summing(K, p, f, H), Summing(K, q, g, H), \A k \in H : q[k] = p[k]
  PROVE  f[H] = g[H]
<1>0. IsFiniteSet(K) /\ H \in SUBSET K /\ f = [S \in SUBSET K |-> SumOf(p, f, S)]
      /\ g = [S \in SUBSET K |-> SumOf(q, g, S)]
  BY DEF Summing
<1> DEFINE N == Cardinality(H)
           G == {n \in 0 .. N : \A S \in SUBSET H : Cardinality(S) = n => f[S] = g[S]}
<1>1. /\ N \in Nat
      /\ \A S \in SUBSET H : IsFiniteSet(S) /\ Cardinality(S) \in 0 .. N
  <2>1. IsFiniteSet(H)
    BY <1>0, FS_Subset
  <2> QED BY <2>1, FS_CardinalityType, FS_Subset
<1>2. \A S \in SUBSET H : f[S] = SumOf(p, f, S) /\ g[S] = SumOf(q, g, S)
  BY <1>0
<1>3. 0 \in G
  <2>1. ASSUME NEW S \in SUBSET H, Cardinality(S) = 0 PROVE f[S] = g[S]
    <3>1. S = {}
      BY <1>1, <2>1, FS_EmptySet
    <3> QED BY <1>2, <3>1 DEF SumOf
  <2>2. 0 \in 0 .. N
    BY <1>1
  <2> QED BY <2>1, <2>2
<1>4. ASSUME NEW n \in 1 .. N, n - 1 \in G PROVE n \in G
  <2>1. ASSUME NEW S \in SUBSET H, Cardinality(S) = n PROVE f[S] = g[S]
    <3>1. S # {} /\ IsFiniteSet(S)
      BY <1>1, <2>1, FS_EmptySet
    <3>2. First(S) \in S
      BY <3>1, FirstIn
    <3>3. S \ {First(S)} \in SUBSET H /\ Cardinality(S \ {First(S)}) = n - 1
      BY <2>1, <3>1, <3>2, OneLess
    <3>4. f[S \ {First(S)}] = g[S \ {First(S)}]
      BY <1>4, <3>3
    <3>5. /\ f[S] = p[First(S)] + f[S \ {First(S)}]
          /\ g[S] = q[First(S)] + g[S \ {First(S)}]
      BY <1>2, <3>1 DEF SumOf
    <3>6. p[First(S)] = q[First(S)]
      BY <3>2
    <3> QED BY <3>4, <3>5, <3>6
  <2>2. n \in 0 .. N
    BY <1>1
  <2> QED BY <2>1, <2>2
<1>5. \A n \in 0 .. N : n \in G
  <2>1. \A n \in 1 .. N : n - 1 \in G => n \in G
    BY <1>4
  <2> HIDE DEF G, N
  <2> QED BY <1>1, <1>3, <2>1, UpTo
<1> QED
  <2>1. Cardinality(H) \in G
    BY <1>1, <1>5
  <2> QED BY <2>1

(* The points of issues are such a sum, and no issue counts nothing.        *)
PointsIn(rep) == [k \in ScoredKeys |-> Scores!Points(rep[k])]
PointsSum(rep) ==
  LET sum[S \in SUBSET ScoredKeys] ==
        IF S = {} THEN 0
        ELSE LET k == CHOOSE k \in S : TRUE IN Scores!Points(rep[k]) + sum[S \ {k}]
  IN sum

LEMMA PointsTyped ==
  ASSUME NEW issue \in ScoredIssues
  PROVE  Scores!Points(issue) \in Nat \ {0}
<1>1. Scores!Group(issue) \in {"Acute", "High", "Medium", "Low", "Unprioritized"}
  BY DEF Scores!Group
<1>2. issue.days \in Nat /\ issue.duplicates \in Nat
  BY DEF ScoredIssues
<1>3. Scores!Resolution(issue) \in {"FixedWithinOneWeek", "Fixed", "Closed", "Open"}
  <2>1. CASE Scores!IsFixed(issue) /\ issue.days <= 7
    <3>1. Scores!Resolution(issue) = "FixedWithinOneWeek"
      BY <1>2, <2>1 DEF Scores!Resolution
    <3> QED BY <3>1
  <2>2. CASE Scores!IsFixed(issue) /\ issue.days > 7
    <3>1. Scores!Resolution(issue) = "Fixed"
      BY <1>2, <2>2 DEF Scores!Resolution
    <3> QED BY <3>1
  <2>3. CASE ~Scores!IsFixed(issue)
    <3>1. Scores!Resolution(issue) = IF Scores!IsDone(issue) THEN "Closed" ELSE "Open"
      BY <2>3 DEF Scores!Resolution
    <3> QED BY <3>1
  <2> QED BY <1>2, <2>1, <2>2, <2>3
<1>4. ASSUME NEW group \in {"Acute", "High", "Medium", "Low", "Unprioritized"}
      PROVE  Scores!ScoreMap(group) \in
               [{"FixedWithinOneWeek", "Fixed", "Closed", "Open"} -> Nat \ {0}]
  <2> DEFINE Row(early, fixed, closed, open) ==
        [r \in {"FixedWithinOneWeek", "Fixed", "Closed", "Open"} |->
           CASE r = "FixedWithinOneWeek" -> early [] r = "Fixed" -> fixed
             [] r = "Closed" -> closed [] r = "Open" -> open]
  <2>1. \A a, b, c, d \in Nat \ {0} :
          Row(a, b, c, d) \in [{"FixedWithinOneWeek", "Fixed", "Closed", "Open"} -> Nat \ {0}]
    OBVIOUS
  <2>2. \E a, b, c, d \in Nat \ {0} : Scores!ScoreMap(group) = Row(a, b, c, d)
    <3> HIDE DEF Row
    <3>1. CASE group = "Acute"
      <4>1. Scores!ScoreMap(group) = Row(200, 100, 20, 200)
        BY <3>1 DEF Scores!ScoreMap, Row
      <4> QED BY <4>1
    <3>2. CASE group = "High"
      <4>1. Scores!ScoreMap(group) = Row(100, 50, 10, 100)
        BY <3>2 DEF Scores!ScoreMap, Row
      <4> QED BY <4>1
    <3>3. CASE group = "Medium"
      <4>1. Scores!ScoreMap(group) = Row(20, 10, 2, 10)
        BY <3>3 DEF Scores!ScoreMap, Row
      <4> QED BY <4>1
    <3>4. CASE group = "Low"
      <4>1. Scores!ScoreMap(group) = Row(10, 5, 1, 5)
        BY <3>4 DEF Scores!ScoreMap, Row
      <4> QED BY <4>1
    <3>5. CASE group = "Unprioritized"
      <4>1. Scores!ScoreMap(group) = Row(10, 5, 1, 50)
        BY <3>5 DEF Scores!ScoreMap, Row
      <4> QED BY <4>1
    <3> QED BY <3>1, <3>2, <3>3, <3>4, <3>5
  <2> HIDE DEF Row
  <2> QED BY <2>1, <2>2
<1>5. Scores!ScoreMap(Scores!Group(issue))[Scores!Resolution(issue)] \in Nat \ {0}
  <2>1. ASSUME NEW f \in [{"FixedWithinOneWeek", "Fixed", "Closed", "Open"} -> Nat \ {0}]
        PROVE  f[Scores!Resolution(issue)] \in Nat \ {0}
    BY <1>3
  <2> QED BY <1>1, <1>4, <2>1
<1> QED
  BY <1>2, <1>5 DEF Scores!Points

LEMMA PointsAreSum ==
  ASSUME NEW rep, NEW keys
  PROVE  Scores!PointsOf(rep, keys) = PointsSum(rep)[keys]
BY Zenon DEF Scores!PointsOf, PointsSum

LEMMA SumOfPoints ==
  ASSUME NEW rep
  PROVE  PointsSum(rep)
         = [S \in SUBSET ScoredKeys |-> SumOf(PointsIn(rep), PointsSum(rep), S)]
<1> DEFINE Of(f, S) == IF S = {} THEN 0 ELSE Scores!Points(rep[First(S)]) + f[S \ {First(S)}]
           IsSum(f) == f = [S \in SUBSET ScoredKeys |-> Of(f, S)]
<1>1. PointsSum(rep) = CHOOSE f : IsSum(f)
  BY Zenon DEF PointsSum, First
<1>2. ASSUME NEW f PROVE \A S \in SUBSET ScoredKeys : Of(f, S) = SumOf(PointsIn(rep), f, S)
  BY FirstIn DEF SumOf, PointsIn
<1>3. PICK f : f = [S \in SUBSET ScoredKeys |-> SumOf(PointsIn(rep), f, S)]
  <2>1. IsFiniteSet(ScoredKeys)
    BY DetectionAssumption
  <2>2. HasSum(ScoredKeys, PointsIn(rep))
    BY <2>1, SumsExist
  <2> QED BY <2>2 DEF HasSum
<1>4. IsSum(f)
  <2> HIDE DEF Of
  <2> QED BY <1>2, <1>3
<1>5. IsSum(PointsSum(rep))
  <2> HIDE DEF IsSum
  <2> QED BY <1>1, <1>4, Zenon
<1> QED
  <2> DEFINE s == PointsSum(rep)
  <2>1. s = [S \in SUBSET ScoredKeys |-> Of(s, S)]
    BY <1>5
  <2>2. \A S \in SUBSET ScoredKeys : Of(s, S) = SumOf(PointsIn(rep), s, S)
    BY <1>2
  <2> HIDE DEF Of, s
  <2>3. s = [S \in SUBSET ScoredKeys |-> SumOf(PointsIn(rep), s, S)]
    BY <2>1, <2>2
  <2> QED BY <2>3 DEF s

LEMMA PointsSummed ==
  ASSUME NEW rep \in Scored, NEW S \in SUBSET Scores!Held(rep)
  PROVE  Summing(ScoredKeys, PointsIn(rep), PointsSum(rep), S)
<1>1. rep \in [ScoredKeys -> ScoredIssues \cup {NotScored}] /\ IsFiniteSet(ScoredKeys)
  BY DetectionAssumption
<1>2. ASSUME NEW k \in S PROVE k \in ScoredKeys /\ PointsIn(rep)[k] \in Nat
  <2>1. k \in ScoredKeys /\ rep[k] \in ScoredIssues
    BY <1>1 DEF Scores!Held
  <2> QED BY <2>1, PointsTyped DEF PointsIn
<1> QED
  BY <1>1, <1>2, SumOfPoints DEF Summing

(* What the proofs need of the points of a report.                          *)
Counts(rep) ==
  /\ \A S \in SUBSET Scores!Held(rep) :
       /\ Scores!PointsOf(rep, S) \in Nat
       /\ Scores!PointsOf(rep, S) = 0 <=> S = {}
  /\ \A S, T \in SUBSET Scores!Held(rep) :
       S \cap T = {} => Scores!PointsOf(rep, S \cup T)
                        = Scores!PointsOf(rep, S) + Scores!PointsOf(rep, T)

LEMMA ReportCounts ==
  ASSUME NEW rep \in Scored
  PROVE  Counts(rep)
<1> DEFINE H == Scores!Held(rep)
           f == PointsSum(rep)
           p == PointsIn(rep)
<1>1. Summing(ScoredKeys, p, f, H)
  BY PointsSummed
<1>2. Takes1(p, f, H) /\ Joins(f, H)
  BY <1>1, SumTaken, SumJoins
<1>3. \A S : Scores!PointsOf(rep, S) = f[S]
  BY PointsAreSum
<1>4. \A k \in H : p[k] \in Nat \ {0}
  BY DetectionAssumption, PointsTyped DEF Scores!Held, PointsIn
<1>5. f[{}] = 0
  <2> HIDE DEF f, p
  <2> QED BY <1>1 DEF Summing, SumOf
<1> HIDE DEF f, p, H
<1>6. ASSUME NEW S \in SUBSET H PROVE f[S] \in Nat /\ (f[S] = 0 <=> S = {})
  <2>1. f[S] \in Nat
    BY <1>2 DEF Takes1
  <2>2. ASSUME NEW k \in S PROVE f[S] # 0
    <3>1. f[S] = p[k] + f[S \ {k}] /\ f[S \ {k}] \in Nat
      BY <1>2 DEF Takes1
    <3>2. p[k] \in Nat \ {0}
      BY <1>4
    <3> QED BY <3>1, <3>2
  <2> QED BY <1>5, <2>1, <2>2
<1>7. \A S, T \in SUBSET H : S \cap T = {} => f[S \cup T] = f[S] + f[T]
  BY <1>2 DEF Joins
<1> QED
  BY <1>3, <1>6, <1>7, Zenon DEF Counts, H

LEMMA SameCount ==
  ASSUME NEW before \in Scored, NEW now \in Scored,
         NEW S \in SUBSET (Scores!Held(before) \cap Scores!Held(now)),
         \A k \in S : Scores!Points(before[k]) = Scores!Points(now[k])
  PROVE  Scores!PointsOf(before, S) = Scores!PointsOf(now, S)
<1>1. /\ Summing(ScoredKeys, PointsIn(before), PointsSum(before), S)
      /\ Summing(ScoredKeys, PointsIn(now), PointsSum(now), S)
  BY PointsSummed
<1>2. \A k \in S : PointsIn(now)[k] = PointsIn(before)[k]
  BY DEF PointsIn, Scores!Held
<1>3. PointsSum(before)[S] = PointsSum(now)[S]
  BY <1>1, <1>2, SumCompared
<1> QED
  BY <1>3, PointsAreSum

Splits(rep, S, T) ==
  /\ Scores!PointsOf(rep, S) = Scores!PointsOf(rep, T) + Scores!PointsOf(rep, S \ T)
  /\ Scores!PointsOf(rep, S) \in Nat /\ Scores!PointsOf(rep, T) \in Nat
  /\ Scores!PointsOf(rep, S \ T) \in Nat

LEMMA PointsSplit ==
  ASSUME NEW rep, Counts(rep), NEW S \in SUBSET Scores!Held(rep), NEW T \in SUBSET S
  PROVE  Splits(rep, S, T)
<1>1. S = T \cup (S \ T) /\ T \cap (S \ T) = {} /\ T \in SUBSET Scores!Held(rep)
      /\ S \ T \in SUBSET Scores!Held(rep)
  OBVIOUS
<1>2. Scores!PointsOf(rep, T \cup (S \ T))
      = Scores!PointsOf(rep, T) + Scores!PointsOf(rep, S \ T)
  BY <1>1 DEF Counts
<1>3. /\ Scores!PointsOf(rep, S) \in Nat /\ Scores!PointsOf(rep, T) \in Nat
      /\ Scores!PointsOf(rep, S \ T) \in Nat
  BY <1>1 DEF Counts
<1> QED
  BY <1>1, <1>2, <1>3 DEF Splits

LEMMA TotalPoints ==
  ASSUME NEW rep, Counts(rep)
  PROVE  /\ Scores!ClosedPoints(rep) \in Nat /\ Scores!OpenPoints(rep) \in Nat
         /\ Scores!ClosedPoints(rep) + Scores!OpenPoints(rep)
            = Scores!PointsOf(rep, Scores!Held(rep))
<1>1. Scores!DoneOf(rep) \in SUBSET Scores!Held(rep)
  BY DEF Scores!DoneOf
<1> QED
  BY <1>1, PointsSplit DEF Splits, Scores!ClosedPoints, Scores!OpenPoints

(* The issues of two reports, by what became of them in between.            *)
LEMMA ChangesAreAll ==
  ASSUME NEW before \in Scored, NEW now \in Scored
  PROVE  Scores!ChangesAddUp(before, now) /\ Scores!ChangesStayInBounds(before, now)
<1> DEFINE B == Scores!Held(before)
           H == Scores!Held(now)
           DB == Scores!DoneOf(before)
           DH == Scores!DoneOf(now)
           R == Scores!Resolved(before, now)
           I == Scores!Included(before, now)
           X == Scores!Removed(before, now)
           PB(S) == Scores!PointsOf(before, S)
           PN(S) == Scores!PointsOf(now, S)
<1>1. /\ DB \subseteq B /\ DH \subseteq H /\ R \subseteq DH /\ R \cap DB = {}
      /\ I = (H \ B) \ R /\ X = B \ H /\ R \subseteq H /\ (DH \ R) \subseteq DB
  BY DEF Scores!DoneOf, Scores!Resolved, Scores!Included, Scores!Removed, Scores!Held
<1>2. Counts(before) /\ Counts(now)
  BY ReportCounts
<1> DEFINE closed == PB(DB) + PN(R)
           total == (PB(DB) + PB(B \ DB)) + (PN(R) - PB(R \cap B))
<1>5. Scores!AfterResolved(before, now) = [closed |-> closed, total |-> total]
  BY Zenon DEF Scores!AfterResolved, Scores!ClosedPoints, Scores!OpenPoints
<1>4. Scores!AfterIncluded(before, now) = [closed |-> closed, total |-> total + PN(I)]
  <2>1. Scores!AfterIncluded(before, now)
        = [Scores!AfterResolved(before, now) EXCEPT !.total = @ + PN(I)]
    BY Zenon DEF Scores!AfterIncluded
  <2> HIDE DEF closed, total, PN, PB
  <2> QED BY <1>5, <2>1
<1>3. Scores!AfterRemoved(before, now)
      = [closed |-> closed - PB(X \cap DB), total |-> (total + PN(I)) - PB(X)]
  <2>1. Scores!AfterRemoved(before, now)
        = [closed |-> Scores!AfterIncluded(before, now).closed - PB(X \cap DB),
           total |-> Scores!AfterIncluded(before, now).total - PB(X)]
    BY Zenon DEF Scores!AfterRemoved
  <2> HIDE DEF closed, total, PN, PB
  <2> QED BY <1>4, <2>1
<1>9. \A S \in SUBSET B : \A T \in SUBSET S :
        /\ PB(S) = PB(T) + PB(S \ T)
        /\ PB(S) \in Nat /\ PB(T) \in Nat /\ PB(S \ T) \in Nat
  <2>1. ASSUME NEW S \in SUBSET B, NEW T \in SUBSET S PROVE Splits(before, S, T)
    BY <1>2, PointsSplit
  <2> QED BY <2>1, Zenon DEF Splits
<1>10. \A S \in SUBSET H : \A T \in SUBSET S :
        /\ PN(S) = PN(T) + PN(S \ T)
        /\ PN(S) \in Nat /\ PN(T) \in Nat /\ PN(S \ T) \in Nat
  <2>1. ASSUME NEW S \in SUBSET H, NEW T \in SUBSET S PROVE Splits(now, S, T)
    BY <1>2, PointsSplit
  <2> QED BY <2>1, Zenon DEF Splits
<1>6. Scores!ClosedPoints(now) = PN(DH) /\ Scores!OpenPoints(now) = PN(H \ DH)
  BY DEF Scores!ClosedPoints, Scores!OpenPoints
<1> HIDE DEF B, H, DB, DH, R, I, X, PB, PN
<1>7. Scores!ChangesAddUp(before, now)
  <2> SUFFICES ASSUME Scores!Recounted(before, now) = {}
               PROVE  /\ Scores!AfterRemoved(before, now).closed = Scores!ClosedPoints(now)
                      /\ Scores!AfterRemoved(before, now).total
                         = Scores!ClosedPoints(now) + Scores!OpenPoints(now)
    BY DEF Scores!ChangesAddUp
  <2>1. \A k \in (B \cap H) \ R : /\ Scores!Points(before[k]) = Scores!Points(now[k])
                                  /\ k \in DB <=> k \in DH
    BY DEF Scores!Recounted, Scores!DoneOf, B, H, DB, DH, R
  <2>2. DB \ X = DH \ R /\ X \cap DB \subseteq DB /\ DB \ (X \cap DB) = DH \ R
    BY <1>1, <2>1
  <2>3. PB(DH \ R) = PN(DH \ R)
    <3>1. DH \ R \in SUBSET (B \cap H) /\ \A k \in DH \ R : Scores!Points(before[k]) = Scores!Points(now[k])
      BY <1>1, <2>1
    <3> QED BY <3>1, SameCount DEF B, H, PB, PN
  <2>4. PB((B \cap H) \ R) = PN((B \cap H) \ R)
    BY <2>1, SameCount DEF B, H, PB, PN
  <2>5. /\ PB(DB) = PB(X \cap DB) + PB(DH \ R)
        /\ PB(DB) \in Nat /\ PB(X \cap DB) \in Nat /\ PB(DH \ R) \in Nat
    <3>1. DB \in SUBSET B /\ X \cap DB \in SUBSET DB
      BY <1>1
    <3>2. /\ PB(DB) = PB(X \cap DB) + PB(DB \ (X \cap DB))
          /\ PB(DB) \in Nat /\ PB(X \cap DB) \in Nat /\ PB(DB \ (X \cap DB)) \in Nat
      BY <1>9, <3>1
    <3> QED BY <2>2, <3>2
  <2>6. PN(DH) = PN(R) + PN(DH \ R) /\ PN(R) \in Nat /\ PN(DH) \in Nat
    BY <1>1, <1>9, <1>10
  <2>7. /\ PB(B) = PB(X) + PB(B \ X) /\ PB(B) \in Nat /\ PB(X) \in Nat
        /\ PB(B) = PB(DB) + PB(B \ DB) /\ PB(B \ DB) \in Nat
    BY <1>1, <1>9, <1>10
  <2>8. /\ PB(B \ X) = PB(R \cap B) + PB((B \cap H) \ R)
        /\ PB(R \cap B) \in Nat /\ PB((B \cap H) \ R) \in Nat
    <3>1. /\ B \ X \in SUBSET B /\ R \cap B \in SUBSET (B \ X)
          /\ (B \ X) \ (R \cap B) = (B \cap H) \ R
      BY <1>1
    <3> QED BY <3>1, <1>9, <1>10
  <2>9. PN(H) = PN(R) + PN(H \ R) /\ PN(H \ R) \in Nat /\ PN(H) = PN(DH) + PN(H \ DH) /\ PN(H \ DH) \in Nat
    BY <1>1, <1>9, <1>10
  <2>10. PN(H \ R) = PN(I) + PN((B \cap H) \ R) /\ PN(I) \in Nat
    <3>1. H \ R \in SUBSET H /\ I \in SUBSET (H \ R) /\ (H \ R) \ I = (B \cap H) \ R
      BY <1>1
    <3>2. /\ PN(H \ R) = PN(I) + PN((H \ R) \ I) /\ PN(I) \in Nat
      BY <1>10, <3>1
    <3> QED BY <3>1, <3>2
  <2>11. closed - PB(X \cap DB) = PN(DH)
    BY <2>3, <2>5, <2>6
  <2>12. (total + PN(I)) - PB(X) = PN(DH) + PN(H \ DH)
    BY <2>4, <2>5, <2>6, <2>7, <2>8, <2>9, <2>10
  <2> QED BY <1>3, <1>6, <2>11, <2>12
<1>8. Scores!ChangesStayInBounds(before, now)
  <2>1. /\ PB(DB) = PB(X \cap DB) + PB(DB \ (X \cap DB))
        /\ PB(DB) \in Nat /\ PB(X \cap DB) \in Nat /\ PB(DB \ (X \cap DB)) \in Nat
    BY <1>1, <1>9, <1>10
  <2>2. PB(X) = PB(X \cap DB) + PB(X \ DB) /\ PB(X) \in Nat /\ PB(X \ DB) \in Nat
    <3>1. X \in SUBSET B /\ X \cap DB \in SUBSET X /\ X \ (X \cap DB) = X \ DB
      BY <1>1
    <3> QED BY <3>1, <1>9, <1>10
  <2>3. PB(B \ DB) = PB(R \cap B) + PB((B \ DB) \ R) /\ PB(R \cap B) \in Nat /\ PB(B \ DB) \in Nat
    <3>1. B \ DB \in SUBSET B /\ R \cap B \in SUBSET (B \ DB) /\ (B \ DB) \ (R \cap B) = (B \ DB) \ R
      BY <1>1
    <3> QED BY <3>1, <1>9, <1>10
  <2>4. PB((B \ DB) \ R) = PB(X \ DB) + PB(((B \ DB) \ R) \ (X \ DB)) /\ PB(((B \ DB) \ R) \ (X \ DB)) \in Nat
    <3>1. (B \ DB) \ R \in SUBSET B /\ X \ DB \in SUBSET ((B \ DB) \ R)
      BY <1>1
    <3> QED BY <3>1, <1>9, <1>10
  <2>5. PN(R) \in Nat /\ PN(I) \in Nat
    <3>1. R \in SUBSET H /\ I \in SUBSET H
      BY <1>1
    <3> QED BY <1>2, <3>1 DEF Counts, H, PN
  <2>6. /\ 0 <= Scores!AfterResolved(before, now).closed
        /\ Scores!AfterResolved(before, now).closed <= Scores!AfterResolved(before, now).total
    BY <1>5, <2>1, <2>2, <2>3, <2>4, <2>5
  <2>7. /\ 0 <= Scores!AfterIncluded(before, now).closed
        /\ Scores!AfterIncluded(before, now).closed <= Scores!AfterIncluded(before, now).total
    BY <1>4, <2>1, <2>2, <2>3, <2>4, <2>5
  <2>8. /\ 0 <= Scores!AfterRemoved(before, now).closed
        /\ Scores!AfterRemoved(before, now).closed <= Scores!AfterRemoved(before, now).total
    BY <1>3, <2>1, <2>2, <2>3, <2>4, <2>5
  <2> QED BY <2>6, <2>7, <2>8 DEF Scores!ChangesStayInBounds
<1> QED
  BY <1>7, <1>8

(* Rounding keeps the order of shares.                                      *)
LEMMA LessTimes ==
  ASSUME NEW a \in Nat, NEW b \in Nat, NEW c \in Nat, a <= b
  PROVE  a * c <= b * c /\ a * c \in Nat /\ b * c \in Nat
OBVIOUS

LEMMA RoundingKeepsOrder ==
  ASSUME NEW a \in Nat, NEW s \in Nat \ {0}, NEW b \in Nat, NEW t \in Nat \ {0}, a * t <= b * s
  PROVE  Scores!RoundedShare(a, s) <= Scores!RoundedShare(b, t)
<1> DEFINE q == (100 * a) \div s
           r == (100 * a) % s
           u == (100 * b) \div t
           v == (100 * b) % t
           Up(n, w, d) == IF 2 * w > d \/ (2 * w = d /\ n % 2 = 1) THEN n + 1 ELSE n
<1>1. Scores!RoundedShare(a, s) = Up(q, r, s) /\ Scores!RoundedShare(b, t) = Up(u, v, t)
  BY DEF Scores!RoundedShare
<1>2. /\ q \in Nat /\ r \in Nat /\ r < s /\ 100 * a = s * q + r
      /\ u \in Nat /\ v \in Nat /\ v < t /\ 100 * b = t * u + v
  OBVIOUS
<1> HIDE DEF q, r, u, v
<1>3. (s * q + r) * t <= (t * u + v) * s
  BY <1>2
<1>4. (s * t) * q + r * t <= (s * t) * u + v * s
  BY <1>2, <1>3
<1>5. q <= u
  <2> SUFFICES ASSUME q >= u + 1 PROVE FALSE
    BY <1>2
  <2>1. (s * t) * (u + 1) <= (s * t) * q
    BY <1>2
  <2>2. v * s < t * s
    BY <1>2
  <2>3. r * t >= 0
    BY <1>2
  <2>4. (s * t) * u + t * s <= (s * t) * q
    BY <1>2, <2>1
  <2> QED BY <1>2, <1>4, <2>2, <2>3, <2>4
<1>6. CASE q < u
  BY <1>1, <1>2, <1>6
<1>7. CASE q = u
  <2>1. r * t <= v * s
    BY <1>2, <1>4, <1>7
  <2>2. ASSUME 2 * r > s PROVE 2 * v > t
    <3> SUFFICES ASSUME 2 * v <= t PROVE FALSE
      BY <1>2
    <3>1. (2 * r) * t > s * t
      BY <1>2, <2>2
    <3>2. (2 * v) * s <= t * s
      BY <1>2
    <3> QED BY <1>2, <2>1, <3>1, <3>2
  <2>3. ASSUME 2 * r = s PROVE 2 * v >= t
    <3> SUFFICES ASSUME 2 * v < t PROVE FALSE
      BY <1>2
    <3>1. (2 * r) * t = s * t
      BY <1>2, <2>3
    <3>2. (2 * v) * s < t * s
      BY <1>2
    <3> QED BY <1>2, <2>1, <3>1, <3>2
  <2> QED BY <1>1, <1>2, <1>7, <2>2, <2>3
<1> QED
  BY <1>2, <1>5, <1>6, <1>7

LEMMA ResolvingScores ==
  ASSUME NEW before \in Scored, NEW now \in Scored
  PROVE  Scores!ResolvingHelps(before, now)
<1> DEFINE B == Scores!Held(before)
           DB == Scores!DoneOf(before)
           DH == Scores!DoneOf(now)
           PB(S) == Scores!PointsOf(before, S)
           PN(S) == Scores!PointsOf(now, S)
<1> SUFFICES ASSUME B = Scores!Held(now),
                    \A k \in B : \/ before[k] = now[k]
                                 \/ ~Scores!IsDone(before[k]) /\ Scores!IsDone(now[k])
             PROVE  Scores!OverallScore(now) >= Scores!OverallScore(before)
  BY DEF Scores!ResolvingHelps
<1>1. DB \subseteq DH /\ DH \subseteq B /\ \A k \in DB \cup (B \ DH) : before[k] = now[k]
  BY DEF Scores!DoneOf
<1>2. PB(DB) = PN(DB) /\ PB(B \ DH) = PN(B \ DH)
  <2>1. DB \in SUBSET (B \cap Scores!Held(now)) /\ B \ DH \in SUBSET (B \cap Scores!Held(now))
    BY <1>1
  <2> QED BY <1>1, <2>1, SameCount
<1>3. Counts(before) /\ Counts(now)
  BY ReportCounts
<1>4. PN(DH) = PN(DB) + PN(DH \ DB) /\ PN(DH) \in Nat /\ PN(DB) \in Nat /\ PN(DH \ DB) \in Nat
  <2>1. DH \in SUBSET Scores!Held(now) /\ DB \in SUBSET DH
    BY <1>1
  <2> HIDE DEF DH, DB
  <2> QED BY <1>3, <2>1, PointsSplit DEF Splits
<1>5. /\ PB(B \ DB) = PB(B \ DH) + PB((B \ DB) \ (B \ DH))
      /\ PB(B \ DB) \in Nat /\ PB(B \ DH) \in Nat /\ PB((B \ DB) \ (B \ DH)) \in Nat
  <2>1. B \ DB \in SUBSET B /\ B \ DH \in SUBSET (B \ DB)
    BY <1>1
  <2> QED BY <1>3, <2>1, PointsSplit DEF Splits
<1>6. /\ PB(B) = 0 <=> B = {}
      /\ PN(B) = 0 <=> B = {}
  BY <1>3 DEF Counts
<1>7. /\ Scores!ClosedPoints(before) = PB(DB) /\ Scores!OpenPoints(before) = PB(B \ DB)
      /\ Scores!ClosedPoints(now) = PN(DH) /\ Scores!OpenPoints(now) = PN(B \ DH)
  BY DEF Scores!ClosedPoints, Scores!OpenPoints
<1>8. PB(DB) + PB(B \ DB) = PB(B) /\ PN(DH) + PN(B \ DH) = PN(B)
  BY <1>3, <1>7, TotalPoints
<1> DEFINE a == PB(DB)
           b == PB(B \ DB)
           c == PN(DH)
           d == PN(B \ DH)
<1>9. a \in Nat /\ b \in Nat /\ c \in Nat /\ d \in Nat /\ a <= c /\ d <= b
      /\ (a + b = 0 <=> c + d = 0)
  <2> HIDE DEF PB, PN, B, DB, DH
  <2>1. a = PN(DB) /\ d = PB(B \ DH) /\ a + b = PB(B) /\ c + d = PN(B)
    BY <1>2, <1>8
  <2>2. a \in Nat /\ b \in Nat /\ c \in Nat /\ d \in Nat
    BY <1>4, <1>5, <2>1
  <2>3. a <= c
    BY <1>4, <2>1
  <2>4. d <= b
    BY <1>5, <2>1
  <2> QED BY <1>6, <2>1, <2>2, <2>3, <2>4
<1>10. /\ Scores!OverallScore(before) = IF a + b = 0 THEN 100 ELSE Scores!RoundedShare(a, a + b)
       /\ Scores!OverallScore(now) = IF c + d = 0 THEN 100 ELSE Scores!RoundedShare(c, c + d)
  BY <1>7 DEF Scores!OverallScore
<1> HIDE DEF B, DB, DH, PB, PN, a, b, c, d
<1>11. CASE a + b = 0
  BY <1>9, <1>10, <1>11
<1>12. CASE a + b # 0
  <2>1. a + b \in Nat \ {0} /\ c + d \in Nat \ {0}
    BY <1>9, <1>12
  <2>2. a * d <= c * b
    <3>1. a * d <= c * d /\ d * c <= b * c
      BY <1>9
    <3> QED BY <1>9, <3>1
  <2>3. a * (c + d) <= c * (a + b)
    BY <1>9, <2>2
  <2>4. Scores!RoundedShare(a, a + b) <= Scores!RoundedShare(c, c + d)
    BY <1>9, <2>1, <2>3, RoundingKeepsOrder
  <2>5. Scores!RoundedShare(a, a + b) \in Nat /\ Scores!RoundedShare(c, c + d) \in Nat
    BY <1>9, <2>1 DEF Scores!RoundedShare
  <2> QED BY <1>9, <1>10, <1>12, <2>1, <2>4, <2>5
<1> QED
  BY <1>9, <1>11, <1>12

-----------------------------------------------------------------------------
(* Both detectors, a search that is answered by what is computed, and two   *)
(* reports.                                                                 *)
SearchInv ==
  v1 \in Asked /\ (v2 = <<>> \/ \E found \in Answers(v1) : v2 = <<found>>)

ScoresInv ==
  v1 \in Scored /\ (v2 = <<>> \/ \E now \in Scored : v2 = <<now>>)

DetectionInv ==
  /\ service = "pages" => PagesInv
  /\ service = "detector" => AskInv
  /\ service = "search" => SearchInv
  /\ service = "scores" => ScoresInv

LEMMA DetectionAlways == SpecDetection => []DetectionInv
<1> USE DetectionAssumption
<1>1. InitDetection => DetectionInv
  BY PagesStart, AskStart DEF InitDetection, DetectionInv, SearchInv, ScoresInv
<1>2. ASSUME DetectionInv, [NextDetection]_<<vars, v1, v2, From2>>
      PROVE  DetectionInv'
  <2>1. CASE NextPages
    <3>1. service' = service /\ service = "pages" /\ Pages!Next
      BY <2>1 DEF NextPages, vars
    <3> QED BY <1>2, <3>1, PagesGoOn DEF DetectionInv
  <2>2. CASE NextDetector
    <3>1. service' = service /\ service = "detector" /\ Detector!Next
      BY <2>2 DEF NextDetector, vars
    <3> QED BY <1>2, <3>1, AskGoesOn DEF DetectionInv
  <2>3. CASE NextSearch
    <3>1. /\ service' = service /\ service = "search" /\ v1' = v1
          /\ \E found \in Answers(v1) : v2' = <<found>>
      BY <2>3 DEF NextSearch, vars
    <3> QED BY <1>2, <3>1 DEF DetectionInv, SearchInv
  <2>4. CASE NextScores
    <3>1. /\ service' = service /\ service = "scores" /\ v1' = v1
          /\ \E now \in Scored : v2' = <<now>>
      BY <2>4 DEF NextScores, vars
    <3> QED BY <1>2, <3>1 DEF DetectionInv, ScoresInv
  <2>5. CASE UNCHANGED <<vars, v1, v2, From2>>
    <3>1. service' = service /\ UNCHANGED <<v1, v2, v3, v4, v5, v6>>
      BY <2>5 DEF vars, From2
    <3>2. /\ service = "search" => SearchInv'
          /\ service = "scores" => ScoresInv'
      BY <1>2, <3>1 DEF DetectionInv, SearchInv, ScoresInv
    <3> QED BY <1>2, <3>1, <3>2, PagesStay, AskStays DEF DetectionInv
  <2> QED BY <1>2, <2>1, <2>2, <2>3, <2>4, <2>5 DEF NextDetection
<1> QED
  BY <1>1, <1>2, PTL DEF SpecDetection

LEMMA SearchHolds ==
  ASSUME SearchInv, v2 # <<>>
  PROVE  CASE v1.kind = "find" -> Search!AppearsOnce(v1.docs, v1.target, v2[1])
           [] v1.kind = "alike" -> Search!Disjoint(v1.docs, v1.target, v1.hits, v1.pages, v2[1])
           [] v1.kind = "resolve" -> Search!RepresentedOnce(v1.docs, v1.hits, v2[1])
<1>1. IsSearch(v1) /\ v1.kind \in {"find", "alike", "resolve"}
  BY DetectionAssumption DEF SearchInv, IsSearch
<1>2. v2[1] \in Answers(v1)
  BY DEF SearchInv
<1>3. CASE v1.kind = "find"
  <2>1. Search!AppearsOnce(v1.docs, v1.target, v2[1])
    BY <1>1, <1>2, <1>3, FindsOnce DEF Answers
  <2> QED BY <1>3, <2>1
<1>4. CASE v1.kind = "alike"
  <2>1. Search!Disjoint(v1.docs, v1.target, v1.hits, v1.pages, v2[1])
    BY <1>1, <1>2, <1>4, AlikeDisjoint DEF Answers
  <2> QED BY <1>4, <2>1
<1>5. CASE v1.kind = "resolve"
  <2>1. Search!RepresentedOnce(v1.docs, v1.hits, v2[1])
    BY <1>1, <1>2, <1>5, ResolvesOnce DEF Answers
  <2> QED BY <1>5, <2>1
<1> QED
  BY <1>1, <1>3, <1>4, <1>5

(* However pages shift while tickets are indexed, the spike detector is     *)
(* given no ticket twice, and of those that were indexed when it began and  *)
(* share their time with no other it misses no more than are indexed        *)
(* between the last count and its page (detect_spikes), for any tickets and *)
(* times and any sizes of pages and batches.                                *)
THEOREM DetectedOnceCorrect == SpecDetection => []DetectedOnce
<1>1. DetectionInv => DetectedOnce
  BY DetectionAssumption, PagesHold DEF DetectionInv, DetectedOnce, PagesInv
<1> QED
  BY <1>1, DetectionAlways, PTL

(* Every issue is given GPT's verdict on it and the text offers exactly the *)
(* duplicates, and a poll does not ask for what was fetched (find_duplicates, *)
(* batched_ask), for any issues, with repetitions, any batches and any      *)
(* number of polls and of failing requests.                                 *)
THEOREM VerdictsFitCorrect == SpecDetection => []VerdictsFit
<1>1. DetectionInv => VerdictsFit
  BY DEF DetectionInv, VerdictsFit, AskInv
<1> QED
  BY <1>1, DetectionAlways, PTL

(* Of potential duplicates none is answered twice unless its document is    *)
(* outdated, and what the target is linked to only as the parent of another *)
(* hit; results that are alike do not link to each other, and only what     *)
(* moved between pages is answered twice; and whoever is picked of each     *)
(* group, every issue whose group has no epic for its head is represented,  *)
(* and once where the documents agree (find_potential_jira_duplicates,      *)
(* run_more_like_this_for_duplicates, resolve_duplicate_graphs), for any    *)
(* documents, types and links, hits, pages and limits.                      *)
THEOREM ListedOnceCorrect == SpecDetection => []ListedOnce
<1>1. DetectionInv => ListedOnce
  BY SearchHolds DEF DetectionInv, ListedOnce
<1> QED
  BY <1>1, DetectionAlways, PTL

(* The points of what was resolved, added and removed since the report      *)
(* before are exactly what the points of both reports differ by, unless an  *)
(* issue counts differently without having been resolved; no change takes   *)
(* points from below zero or closes more than there is; and resolving       *)
(* issues never lowers the rounded score (find_recent_changes,              *)
(* calculate_scores), for any issues and any two reports on them.           *)
THEOREM ChangesAddUpCorrect == SpecDetection => []ChangesAddUp
<1>1. ASSUME ScoresInv, v2 # <<>> PROVE v1 \in Scored /\ v2[1] \in Scored
  BY <1>1 DEF ScoresInv
<1>2. DetectionInv => ChangesAddUp
  BY <1>1, ChangesAreAll, ResolvingScores DEF DetectionInv, ChangesAddUp
<1> QED
  BY <1>2, DetectionAlways, PTL
=============================================================================
