---------------------------- MODULE DriverProofs ----------------------------
(***************************************************************************)
(* The event list of the simulator (Evlst), in both implementations and    *)
(* through every turn of the resizing of the calendar queue, is the        *)
(* abstract event list (EventList), and the driver on it never lets an     *)
(* event become overdue (Driver), for any activities, times, widths and    *)
(* numbers of bins.                                                        *)
(*                                                                         *)
(* The argument: the elements of a bin are in order and of its time (Cal); *)
(* lastbin, lastprio and bintop point to the first of all elements         *)
(* (HeadAt), where bintop may be too low for it but never too high (Top),  *)
(* so that the round of FindHead cannot stop at a later one (HitHead);     *)
(* samples are before all that is left (SamplesOK), what waits to be       *)
(* copied is younger than what is copied (OldOK), and the new array has    *)
(* room for all of it, so that copying never resizes again (SizeOK).       *)
(***************************************************************************)
EXTENDS Driver, FiniteSetTheorems, SequenceTheorems, WellFoundedInduction, TLAPS

(* Quotient and remainder.                                                 *)
LEMMA Division ==
  ASSUME NEW a \in Nat, NEW n \in Nat \ {0}
  PROVE  /\ a \div n \in Nat /\ a % n \in 0..(n - 1)
         /\ a = n * (a \div n) + (a % n)
OBVIOUS

(* A set of numbers that is not empty has a least one.                     *)
LEMMA LeastNumber ==
  ASSUME NEW S \in SUBSET Nat, S # {} PROVE Min(S) \in S /\ \A k \in S : Min(S) <= k
<1> DEFINE R == OpToRel(<, Nat)
<1>1. \A x, y \in Nat : <<x, y>> \in R <=> x < y
  BY DEF OpToRel
<1>2. IsWellFoundedOn(R, Nat)
  BY NatLessThanWellFounded
<1> HIDE DEF R
<1>3. PICK x \in S : \A y \in S : <<y, x>> \notin R
  BY <1>2, WFMin
<1>4. ASSUME NEW y \in S PROVE x <= y
  <2>1. x \in Nat /\ y \in Nat /\ <<y, x>> \notin R
    BY <1>3
  <2> QED BY <1>1, <2>1
<1> QED BY <1>4 DEF Min

(* What insertion into a sequence returns.                                 *)
LEMMA InsertAtFacts ==
  ASSUME NEW S, NEW s \in Seq(S), NEW e \in S, NEW k \in 1..(Len(s) + 1)
  PROVE  /\ InsertAt(s, k, e) \in Seq(S)
         /\ Len(InsertAt(s, k, e)) = Len(s) + 1
         /\ \A j \in 1..(Len(s) + 1) :
              InsertAt(s, k, e)[j] = IF j < k THEN s[j] ELSE IF j = k THEN e ELSE s[j - 1]
<1> DEFINE a == SubSeq(s, 1, k - 1)  b == SubSeq(s, k, Len(s))
<1>1. a \in Seq(S) /\ Len(a) = k - 1 /\ \A j \in 1..(k - 1) : a[j] = s[j]
  BY SubSeqProperties
<1>2. b \in Seq(S) /\ Len(b) = Len(s) - k + 1
      /\ \A j \in 1..(Len(s) - k + 1) : b[j] = s[k + j - 1]
  BY SubSeqProperties
<1>3. <<e>> \in Seq(S) /\ Len(<<e>>) = 1 /\ <<e>>[1] = e
  OBVIOUS
<1> HIDE DEF a, b
<1>4. a \o <<e>> \in Seq(S) /\ Len(a \o <<e>>) = k
      /\ \A j \in 1..k : (a \o <<e>>)[j] = IF j < k THEN s[j] ELSE e
  BY <1>1, <1>3, ConcatProperties
<1>5. InsertAt(s, k, e) = a \o <<e>> \o b
  BY DEF InsertAt, a, b
<1> QED BY <1>2, <1>4, <1>5, ConcatProperties

(* What removal from a sequence returns.                                   *)
LEMMA RemoveAtFacts ==
  ASSUME NEW S, NEW s \in Seq(S), NEW k \in 1..Len(s)
  PROVE  /\ RemoveAt(s, k) \in Seq(S)
         /\ Len(RemoveAt(s, k)) = Len(s) - 1
         /\ \A j \in 1..(Len(s) - 1) :
              RemoveAt(s, k)[j] = IF j < k THEN s[j] ELSE s[j + 1]
<1> DEFINE a == SubSeq(s, 1, k - 1)  b == SubSeq(s, k + 1, Len(s))
<1>1. a \in Seq(S) /\ Len(a) = k - 1 /\ \A j \in 1..(k - 1) : a[j] = s[j]
  BY SubSeqProperties
<1>2. b \in Seq(S) /\ Len(b) = Len(s) - k /\ \A j \in 1..(Len(s) - k) : b[j] = s[k + j]
  BY SubSeqProperties
<1> HIDE DEF a, b
<1>3. RemoveAt(s, k) = a \o b
  BY DEF RemoveAt, a, b
<1> QED BY <1>1, <1>2, <1>3, ConcatProperties

(* A list loses its head.                                                  *)
LEMMA TailIsRemoval ==
  ASSUME NEW S, NEW s \in Seq(S), s # <<>>
  PROVE  Tail(s) = RemoveAt(s, 1)
<1>1. Tail(s) \in Seq(S) /\ Len(Tail(s)) = Len(s) - 1 /\ \A j \in 1..(Len(s) - 1) : Tail(s)[j] = s[j + 1]
  OBVIOUS
<1>2. 1 \in 1..Len(s)
  OBVIOUS
<1>3. RemoveAt(s, 1) \in Seq(S) /\ Len(RemoveAt(s, 1)) = Len(s) - 1
      /\ \A j \in 1..(Len(s) - 1) : RemoveAt(s, 1)[j] = s[j + 1]
  BY <1>2, RemoveAtFacts
<1> QED BY <1>1, <1>3

(* Multiples of a width are in the order of their factors.                 *)
LEMMA Multiples ==
  ASSUME NEW a \in Int, NEW b \in Int, NEW w \in Nat \ {0}
  PROVE  /\ a * w \in Int /\ b * w \in Int
         /\ a <= b => a * w <= b * w
         /\ a < b => a * w + w <= b * w
OBVIOUS

(* A time is in the span of time of its quotient.                          *)
LEMMA Quotient ==
  ASSUME NEW t \in Nat, NEW w \in Nat \ {0}
  PROVE  /\ t \div w \in Nat
         /\ (t \div w) * w <= t /\ t < (t \div w) * w + w
BY Division
-----------------------------------------------------------------------------
Before(e, f) == e.time < f.time \/ (e.time = f.time /\ e.no < f.no)
Sorted(s) == \A j, k \in 1..Len(s) : j < k => Before(s[j], s[k])
(* An element e can go to place p of s. *)
Fits(s, p, e) == /\ p \in 1..(Len(s) + 1)
                 /\ \A k \in 1..Len(s) : IF k < p THEN Before(s[k], e) ELSE Before(e, s[k])

(* The fields of an element.                                               *)
LEMMA EntryType ==
  ASSUME NEW e \in Entry
  PROVE  e.time \in Times /\ e.time \in Nat /\ e.no \in Nat
<1>1. e.time \in Times /\ e.no \in Nat
  BY DEF Entry
<1> QED BY <1>1, EvlstAssumption

(* The elements of a list.                                                 *)
LEMMA EntryFacts ==
  ASSUME NEW s \in Seq(Entry), NEW k \in 1..Len(s)
  PROVE  s[k] \in Entry /\ s[k].time \in Nat /\ s[k].no \in Nat
<1>1. s[k] \in Entry
  OBVIOUS
<1> QED BY <1>1, EntryType

(* Place finds a place behind the elements of the same time, if the new one *)
(* is younger than they are.                                               *)
LEMMA PlaceFits ==
  ASSUME NEW s \in Seq(Entry), Sorted(s), NEW e \in Entry,
         \A k \in 1..Len(s) : s[k].time = e.time => s[k].no < e.no
  PROVE  /\ Fits(s, Place(s, e.time, TRUE), e)
         /\ Place(s, e.time, TRUE) = 1 => s = <<>> \/ e.time < s[1].time
<1> DEFINE Stops == {k \in 1..Len(s) : e.time < s[k].time}  n == Len(s)
<1>1. e.time \in Nat /\ e.no \in Nat /\ n \in Nat
  BY EntryType
<1>2. \A k \in 1..n : s[k].time \in Nat /\ s[k].no \in Nat
  BY EntryFacts
<1> DEFINE P == Place(s, e.time, TRUE)
<1>3. P = IF s = <<>> \/ 1 \in Stops THEN 1
          ELSE IF e.time >= s[n].time THEN n + 1
          ELSE Min(Stops)
  BY DEF Place, Last
<1> HIDE DEF P
<1> SUFFICES Fits(s, P, e) /\ (P = 1 => s = <<>> \/ e.time < s[1].time)
  BY DEF P
<1>4. \A j, k \in 1..n : j < k => s[j].time < s[k].time \/ (s[j].time = s[k].time /\ s[j].no < s[k].no)
  BY DEF Sorted, Before
<1>5. \A j, k \in 1..n : j <= k => s[j].time <= s[k].time
  BY <1>2, <1>4
<1>6. CASE s = <<>>
  <2>1. n = 0 /\ P = 1
    BY <1>3, <1>6
  <2> QED BY <1>6, <2>1 DEF Fits
<1>7. CASE s # <<>> /\ 1 \in Stops
  <2>1. n > 0
    BY <1>1, <1>7
  <2>2. \A k \in 1..n : e.time < s[k].time
    BY <1>1, <1>2, <1>5, <1>7, <2>1
  <2> QED BY <1>1, <1>3, <1>7, <2>1, <2>2 DEF Fits, Before
<1>8. CASE s # <<>> /\ 1 \notin Stops /\ e.time >= s[n].time
  <2>1. n > 0
    BY <1>1, <1>8
  <2>2. \A k \in 1..n : s[k].time <= e.time
    BY <1>1, <1>2, <1>5, <1>8, <2>1
  <2>3. \A k \in 1..n : Before(s[k], e)
    BY <1>1, <1>2, <2>2 DEF Before
  <2> QED BY <1>1, <1>3, <1>8, <2>1, <2>3 DEF Fits
<1>9. CASE s # <<>> /\ 1 \notin Stops /\ ~(e.time >= s[n].time)
  <2>1. n > 0 /\ n \in Stops /\ Stops \in SUBSET Nat
    BY <1>1, <1>2, <1>9
  <2>2. Min(Stops) \in Stops /\ \A k \in Stops : Min(Stops) <= k
    BY <2>1, LeastNumber
  <2> DEFINE p == Min(Stops)
  <2> HIDE DEF p
  <2>3. p \in 1..n /\ e.time < s[p].time /\ p # 1
    BY <1>9, <2>2 DEF p
  <2>4. \A k \in 1..n : k < p => s[k].time <= e.time
    BY <1>1, <1>2, <2>2, <2>3 DEF p
  <2>5. \A k \in 1..n : k >= p => e.time < s[k].time
    BY <1>1, <1>2, <1>5, <2>3
  <2>6. P = p
    BY <1>3, <1>9 DEF p
  <2>7. \A k \in 1..n : IF k < p THEN Before(s[k], e) ELSE Before(e, s[k])
    BY <1>1, <1>2, <2>3, <2>4, <2>5 DEF Before
  <2> QED BY <1>1, <2>3, <2>6, <2>7 DEF Fits
<1> QED BY <1>6, <1>7, <1>8, <1>9

(* An insertion at a fitting place keeps a list in order.                  *)
LEMMA Inserted ==
  ASSUME NEW s \in Seq(Entry), Sorted(s), NEW e \in Entry, NEW p, Fits(s, p, e)
  PROVE  /\ InsertAt(s, p, e) \in Seq(Entry)
         /\ Sorted(InsertAt(s, p, e))
         /\ Range(InsertAt(s, p, e)) = Range(s) \cup {e}
         /\ InsertAt(s, p, e) # <<>>
         /\ InsertAt(s, p, e)[1] = IF p = 1 THEN e ELSE s[1]
<1> DEFINE t == InsertAt(s, p, e)  n == Len(s)
<1>1. n \in Nat /\ p \in 1..(n + 1)
  BY DEF Fits
<1>2. t \in Seq(Entry) /\ Len(t) = n + 1
      /\ \A j \in 1..(n + 1) : t[j] = IF j < p THEN s[j] ELSE IF j = p THEN e ELSE s[j - 1]
  BY <1>1, InsertAtFacts
<1> HIDE DEF t
<1>3. ASSUME NEW j \in 1..(n + 1), NEW k \in 1..(n + 1), j < k PROVE Before(t[j], t[k])
  <2>1. CASE k < p
    BY <1>1, <1>2, <1>3, <2>1 DEF Sorted
  <2>2. CASE j < p /\ k = p
    BY <1>1, <1>2, <1>3, <2>2 DEF Fits
  <2>3. CASE j = p
    BY <1>1, <1>2, <1>3, <2>3 DEF Fits
  <2>4. CASE j < p /\ k > p
    <3>1. j \in 1..n /\ k - 1 \in 1..n /\ j < k - 1 /\ t[j] = s[j] /\ t[k] = s[k - 1]
      BY <1>1, <1>2, <1>3, <2>4
    <3> QED BY <3>1 DEF Sorted
  <2>5. CASE j > p
    <3>1. j - 1 \in 1..n /\ k - 1 \in 1..n /\ j - 1 < k - 1 /\ t[j] = s[j - 1] /\ t[k] = s[k - 1]
      BY <1>1, <1>2, <1>3, <2>5
    <3> QED BY <3>1 DEF Sorted
  <2> QED BY <1>1, <1>3, <2>1, <2>2, <2>3, <2>4, <2>5
<1>4. ASSUME NEW x PROVE x \in Range(t) <=> x \in Range(s) \cup {e}
  <2>1. Range(t) = {t[j] : j \in 1..(n + 1)} /\ Range(s) = {s[j] : j \in 1..n}
    BY <1>2 DEF Range
  <2>2. ASSUME NEW j \in 1..(n + 1) PROVE t[j] \in Range(s) \cup {e}
    <3>1. CASE j < p
      BY <1>1, <1>2, <2>1, <3>1
    <3>2. CASE j > p
      <4>1. j - 1 \in 1..n /\ t[j] = s[j - 1]
        BY <1>1, <1>2, <3>2
      <4> QED BY <2>1, <4>1
    <3> QED BY <1>1, <1>2, <3>1, <3>2
  <2>3. ASSUME NEW j \in 1..n PROVE s[j] \in Range(t)
    <3>1. CASE j < p
      BY <1>1, <1>2, <2>1, <3>1
    <3>2. CASE j >= p
      <4>1. j + 1 \in 1..(n + 1) /\ t[j + 1] = s[j]
        BY <1>1, <1>2, <3>2
      <4> QED BY <2>1, <4>1
    <3> QED BY <1>1, <3>1, <3>2
  <2>4. e \in Range(t)
    BY <1>1, <1>2, <2>1
  <2> QED BY <2>1, <2>2, <2>3, <2>4
<1> QED BY <1>1, <1>2, <1>3, <1>4 DEF Sorted, t

(* A removal keeps a list in order, and takes one element.                 *)
LEMMA Removed ==
  ASSUME NEW s \in Seq(Entry), Sorted(s), NEW k \in 1..Len(s)
  PROVE  /\ RemoveAt(s, k) \in Seq(Entry)
         /\ Sorted(RemoveAt(s, k))
         /\ Range(RemoveAt(s, k)) = Range(s) \ {s[k]}
<1> DEFINE t == RemoveAt(s, k)  n == Len(s)
<1>1. n \in Nat /\ k \in 1..n
  OBVIOUS
<1>2. t \in Seq(Entry) /\ Len(t) = n - 1
      /\ \A j \in 1..(n - 1) : t[j] = IF j < k THEN s[j] ELSE s[j + 1]
  BY RemoveAtFacts
<1> HIDE DEF t
<1>3. \A i, j \in 1..n : i # j => s[i] # s[j]
  <2>1. \A i \in 1..n : s[i].time \in Nat /\ s[i].no \in Nat
    BY EntryFacts
  <2> QED BY <2>1 DEF Sorted, Before
<1>4. ASSUME NEW i \in 1..(n - 1), NEW j \in 1..(n - 1), i < j PROVE Before(t[i], t[j])
  <2> DEFINE i2 == IF i < k THEN i ELSE i + 1  j2 == IF j < k THEN j ELSE j + 1
  <2>1. i2 \in 1..n /\ j2 \in 1..n /\ i2 < j2 /\ t[i] = s[i2] /\ t[j] = s[j2]
    BY <1>1, <1>2, <1>4
  <2> QED BY <2>1 DEF Sorted
<1>5. ASSUME NEW x PROVE x \in Range(t) <=> x \in Range(s) \ {s[k]}
  <2>1. Range(t) = {t[j] : j \in 1..(n - 1)} /\ Range(s) = {s[j] : j \in 1..n}
    BY <1>2 DEF Range
  <2>2. ASSUME NEW j \in 1..(n - 1) PROVE t[j] \in Range(s) \ {s[k]}
    <3> DEFINE j2 == IF j < k THEN j ELSE j + 1
    <3>1. j2 \in 1..n /\ j2 # k /\ t[j] = s[j2]
      BY <1>1, <1>2
    <3> QED BY <1>3, <2>1, <3>1
  <2>3. ASSUME NEW j \in 1..n, j # k PROVE s[j] \in Range(t)
    <3> DEFINE j2 == IF j < k THEN j ELSE j - 1
    <3>1. j2 \in 1..(n - 1) /\ t[j2] = s[j]
      BY <1>1, <1>2, <2>3
    <3> QED BY <2>1, <3>1
  <2> QED BY <2>1, <2>2, <2>3
<1> QED BY <1>2, <1>4, <1>5 DEF Sorted, t
-----------------------------------------------------------------------------
Spaces == [0..(3 * CALQSZ - 1) -> Seq(Entry)]
Window(b, n) == b \in Nat /\ n \in Nat /\ n >= 2 /\ b + n <= 3 * CALQSZ
Bin(t, n, w) == (t \div w) % n
Cal(sp, b, n, w) ==
  \A i \in 0..(n - 1) : /\ Sorted(sp[b + i])
                        /\ \A e \in Range(sp[b + i]) : Bin(e.time, n, w) = i

(* The list l in bin i of the array from b on.                             *)
SetBin(sp, b, i, l) == [sp EXCEPT ![b + i] = l]

(* There is a bin for every time.                                          *)
LEMMA BinType ==
  ASSUME NEW t \in Nat, NEW n \in Nat, n >= 2, NEW w \in Nat \ {0}
  PROVE  Bin(t, n, w) \in 0..(n - 1) /\ Bin(t, n, w) \in Nat
<1>1. t \div w \in Nat
  BY Quotient
<1> QED BY <1>1, Division DEF Bin

(* Where the bins of an array are.                                         *)
LEMMA Cells ==
  ASSUME NEW sp \in Spaces, NEW b, NEW n, Window(b, n), NEW i \in 0..(n - 1)
  PROVE  /\ b + i \in 0..(3 * CALQSZ - 1) /\ b + i \in b..(b + n - 1)
         /\ sp[b + i] \in Seq(Entry)
BY EvlstAssumption DEF Spaces, Window

(* The elements of an array are those of its bins.                         *)
LEMMA InCells ==
  ASSUME NEW sp \in Spaces, NEW b, NEW n, Window(b, n), NEW x
  PROVE  x \in InArray(sp, b, n) <=> \E i \in 0..(n - 1) : x \in Range(sp[b + i])
<1>1. b \in Nat /\ n \in Nat
  BY DEF Window
<1>2. ASSUME NEW k \in b..(b + n - 1), x \in Range(sp[k])
      PROVE  \E i \in 0..(n - 1) : x \in Range(sp[b + i])
  <2>1. k - b \in 0..(n - 1) /\ b + (k - b) = k
    BY <1>1
  <2> QED BY <1>2, <2>1
<1>3. ASSUME NEW i \in 0..(n - 1), x \in Range(sp[b + i])
      PROVE  \E k \in b..(b + n - 1) : x \in Range(sp[k])
  <2>1. b + i \in b..(b + n - 1)
    BY <1>1
  <2> QED BY <1>3, <2>1
<1> QED BY <1>2, <1>3 DEF InArray

(* An element is in the bin of its time.                                   *)
LEMMA InOwnBin ==
  ASSUME NEW sp \in Spaces, NEW b, NEW n, NEW w \in Nat \ {0}, Window(b, n), Cal(sp, b, n, w),
         NEW x \in InArray(sp, b, n)
  PROVE  /\ x \in Entry /\ x.time \in Nat /\ x.no \in Nat
         /\ Bin(x.time, n, w) \in 0..(n - 1)
         /\ x \in Range(sp[b + Bin(x.time, n, w)])
         /\ \E k \in 1..Len(sp[b + Bin(x.time, n, w)]) : x = sp[b + Bin(x.time, n, w)][k]
<1>1. PICK i \in 0..(n - 1) : x \in Range(sp[b + i])
  BY InCells
<1>2. Bin(x.time, n, w) = i
  BY <1>1 DEF Cal
<1>3. sp[b + i] \in Seq(Entry)
  BY Cells
<1>4. PICK k \in 1..Len(sp[b + i]) : x = sp[b + i][k]
  BY <1>1, <1>3 DEF Range
<1>5. x \in Entry
  BY <1>3, <1>4
<1> QED BY <1>1, <1>2, <1>4, <1>5, EntryType

(* Changing one list of the array changes the set of its elements.         *)
LEMMA OneCell ==
  ASSUME NEW sp \in Spaces, NEW b, NEW n, NEW w \in Nat \ {0}, Window(b, n), Cal(sp, b, n, w),
         NEW i \in 0..(n - 1), NEW l \in Seq(Entry), Sorted(l),
         \A x \in Range(l) : Bin(x.time, n, w) = i,
         NEW sp2, sp2 = SetBin(sp, b, i, l)
  PROVE  /\ sp2 \in Spaces
         /\ Cal(sp2, b, n, w)
         /\ sp2[b + i] = l
         /\ \A k \in 0..(n - 1) : k # i => sp2[b + k] = sp[b + k]
         /\ \A k \in 0..(3 * CALQSZ - 1) : k \notin b..(b + n - 1) => sp2[k] = sp[k]
         /\ \A x : x \in InArray(sp2, b, n) <=>
              \/ x \in Range(l)
              \/ x \in InArray(sp, b, n) /\ x \notin Range(sp[b + i])
<1>1. b + i \in 0..(3 * CALQSZ - 1) /\ b \in Nat /\ n \in Nat /\ b + i \in b..(b + n - 1)
  BY Cells DEF Window
<1>2. sp2 \in Spaces /\ sp2[b + i] = l
  BY <1>1 DEF Spaces, SetBin
<1>3. \A k \in 0..(n - 1) : k # i => sp2[b + k] = sp[b + k]
  BY <1>1, Cells DEF Spaces, SetBin
<1>6. \A k \in 0..(3 * CALQSZ - 1) : k \notin b..(b + n - 1) => sp2[k] = sp[k]
  BY <1>1 DEF Spaces, SetBin
<1>4. Cal(sp2, b, n, w)
  BY <1>2, <1>3 DEF Cal
<1>5. ASSUME NEW x
      PROVE  x \in InArray(sp2, b, n) <=>
               x \in Range(l) \/ (x \in InArray(sp, b, n) /\ x \notin Range(sp[b + i]))
  <2>1. x \in InArray(sp2, b, n) <=> \E k \in 0..(n - 1) : x \in Range(sp2[b + k])
    BY <1>2, InCells
  <2>2. x \in InArray(sp, b, n) <=> \E k \in 0..(n - 1) : x \in Range(sp[b + k])
    BY InCells
  <2>3. \A k \in 0..(n - 1) : k # i /\ x \in Range(sp[b + k]) => x \notin Range(sp[b + i])
    BY DEF Cal
  <2> QED BY <1>2, <1>3, <2>1, <2>2, <2>3
<1> QED BY <1>2, <1>3, <1>4, <1>5, <1>6

(* Cells outside the window of an array do not matter to it.               *)
LEMMA Elsewhere ==
  ASSUME NEW sp \in Spaces, NEW sp2 \in Spaces, NEW b, NEW n, Window(b, n), NEW w \in Nat \ {0},
         \A k \in b..(b + n - 1) : sp2[k] = sp[k]
  PROVE  /\ InArray(sp2, b, n) = InArray(sp, b, n)
         /\ Cal(sp, b, n, w) => Cal(sp2, b, n, w)
<1>1. b \in Nat /\ n \in Nat
  BY DEF Window
<1>2. InArray(sp2, b, n) = InArray(sp, b, n)
  <2>1. {Range(sp2[k]) : k \in b..(b + n - 1)} = {Range(sp[k]) : k \in b..(b + n - 1)}
    OBVIOUS
  <2> QED BY <2>1 DEF InArray
<1>3. \A i \in 0..(n - 1) : sp2[b + i] = sp[b + i]
  BY <1>1
<1> QED BY <1>2, <1>3 DEF Cal

(* An element goes into the bin of its time.                               *)
Takes(sp, b, n, w, e, i, p, sp2) ==
  /\ sp \in Spaces /\ w \in Nat \ {0} /\ Window(b, n) /\ Cal(sp, b, n, w)
  /\ e \in Entry /\ i = Bin(e.time, n, w) /\ Fits(sp[b + i], p, e)
  /\ sp2 = SetBin(sp, b, i, InsertAt(sp[b + i], p, e))

LEMMA PutCal ==
  ASSUME NEW sp, NEW b, NEW n, NEW w, NEW e, NEW i, NEW p, NEW sp2,
         Takes(sp, b, n, w, e, i, p, sp2)
  PROVE  /\ i \in 0..(n - 1)
         /\ sp2 \in Spaces
         /\ Cal(sp2, b, n, w)
         /\ \A x : x \in InArray(sp2, b, n) <=> x = e \/ x \in InArray(sp, b, n)
         /\ sp2[b + i] # <<>>
         /\ sp2[b + i][1] = IF p = 1 THEN e ELSE sp[b + i][1]
         /\ \A k \in 0..(n - 1) : k # i => sp2[b + k] = sp[b + k]
         /\ \A k \in 0..(3 * CALQSZ - 1) : k \notin b..(b + n - 1) => sp2[k] = sp[k]
<1> USE DEF Takes
<1>1. e.time \in Nat /\ b \in Nat /\ n \in Nat /\ n >= 2
  BY EntryType DEF Window
<1>2. i \in 0..(n - 1)
  BY <1>1, BinType
<1>3. b + i \in b..(b + n - 1) /\ sp[b + i] \in Seq(Entry)
  BY <1>2, Cells
<1>4. Sorted(sp[b + i]) /\ \A x \in Range(sp[b + i]) : Bin(x.time, n, w) = i
  BY <1>2 DEF Cal
<1> DEFINE l == InsertAt(sp[b + i], p, e)
<1>5. /\ l \in Seq(Entry) /\ Sorted(l) /\ Range(l) = Range(sp[b + i]) \cup {e} /\ l # <<>>
      /\ l[1] = IF p = 1 THEN e ELSE sp[b + i][1]
  BY <1>3, <1>4, Inserted
<1>6. \A x \in Range(l) : Bin(x.time, n, w) = i
  BY <1>4, <1>5
<1> HIDE DEF l
<1>7. sp2 = SetBin(sp, b, i, l)
  BY DEF l
<1>8. /\ sp2 \in Spaces
      /\ Cal(sp2, b, n, w)
      /\ sp2[b + i] = l
      /\ \A k \in 0..(n - 1) : k # i => sp2[b + k] = sp[b + k]
      /\ \A x : x \in InArray(sp2, b, n) <=>
           \/ x \in Range(l)
           \/ x \in InArray(sp, b, n) /\ x \notin Range(sp[b + i])
      /\ \A k \in 0..(3 * CALQSZ - 1) : k \notin b..(b + n - 1) => sp2[k] = sp[k]
  BY <1>2, <1>5, <1>6, <1>7, OneCell
<1>9. \A x : x \in Range(sp[b + i]) => x \in InArray(sp, b, n)
  BY <1>2, InCells
<1> QED BY <1>2, <1>5, <1>8, <1>9

(* An element leaves its bin.                                              *)
Gives(sp, b, n, w, i, k, x, sp2) ==
  /\ sp \in Spaces /\ w \in Nat \ {0} /\ Window(b, n) /\ Cal(sp, b, n, w)
  /\ i \in 0..(n - 1) /\ k \in 1..Len(sp[b + i]) /\ x = sp[b + i][k]
  /\ sp2 = SetBin(sp, b, i, RemoveAt(sp[b + i], k))

LEMMA TakeCal ==
  ASSUME NEW sp, NEW b, NEW n, NEW w, NEW i, NEW k, NEW e, NEW sp2,
         Gives(sp, b, n, w, i, k, e, sp2)
  PROVE  /\ sp2 \in Spaces
         /\ Cal(sp2, b, n, w)
         /\ \A x : x \in InArray(sp2, b, n) <=> x \in InArray(sp, b, n) /\ x # e
         /\ \A j \in 0..(3 * CALQSZ - 1) : j \notin b..(b + n - 1) => sp2[j] = sp[j]
<1> USE DEF Gives
<1>1. b \in Nat /\ n \in Nat /\ b + i \in b..(b + n - 1) /\ sp[b + i] \in Seq(Entry)
  BY Cells DEF Window
<1>2. Sorted(sp[b + i]) /\ \A x \in Range(sp[b + i]) : Bin(x.time, n, w) = i
  BY DEF Cal
<1> DEFINE l == RemoveAt(sp[b + i], k)
<1>3. l \in Seq(Entry) /\ Sorted(l) /\ Range(l) = Range(sp[b + i]) \ {sp[b + i][k]}
  BY <1>1, <1>2, Removed
<1>4. \A x \in Range(l) : Bin(x.time, n, w) = i
  BY <1>2, <1>3
<1> HIDE DEF l
<1>5. sp2 = SetBin(sp, b, i, l)
  BY DEF l
<1>6. /\ sp2 \in Spaces
      /\ Cal(sp2, b, n, w)
      /\ \A x : x \in InArray(sp2, b, n) <=>
           \/ x \in Range(l)
           \/ x \in InArray(sp, b, n) /\ x \notin Range(sp[b + i])
      /\ \A j \in 0..(3 * CALQSZ - 1) : j \notin b..(b + n - 1) => sp2[j] = sp[j]
  BY <1>3, <1>4, <1>5, OneCell
<1>7. \A x : x \in Range(sp[b + i]) => x \in InArray(sp, b, n)
  BY InCells
<1>8. sp[b + i][k] \in Range(sp[b + i])
  BY <1>1 DEF Range
<1> QED BY <1>3, <1>6, <1>7, <1>8
-----------------------------------------------------------------------------
(* bintop (in half units) of an element of time t: that of its own span of *)
(* time, or one that is too low for any element that is not before it; the *)
(* code sets the latter when the element is not in the first round.        *)
Top(t, w, bt) == bt = (2 * (t \div w) + 3) * w \/ bt <= (2 * (t \div w) - 1) * w

(* lb, lp and bt point to the first of all elements.                       *)
HeadAt(sp, b, n, w, lb, lp, bt) ==
  /\ lb \in 0..(n - 1)
  /\ sp[b + lb] # <<>>
  /\ \A x \in InArray(sp, b, n) : x = sp[b + lb][1] \/ Before(sp[b + lb][1], x)
  /\ lp = sp[b + lb][1].time
  /\ bt \in Int /\ Top(lp, w, bt)

CalOK(sp, b, n, w, cq, lb, lp, bt) ==
  /\ sp \in Spaces
  /\ Cal(sp, b, n, w)
  /\ IsFiniteSet(InArray(sp, b, n)) /\ cq = Cardinality(InArray(sp, b, n))
  /\ InArray(sp, b, n) # {} => HeadAt(sp, b, n, w, lb, lp, bt)

(* The head is an element, in the bin of its time.                         *)
LEMMA HeadFacts ==
  ASSUME NEW sp \in Spaces, NEW b, NEW n, NEW w \in Nat \ {0}, Window(b, n), Cal(sp, b, n, w),
         NEW lb, NEW lp, NEW bt, HeadAt(sp, b, n, w, lb, lp, bt), NEW h, h = sp[b + lb][1]
  PROVE  /\ h \in Entry /\ h.time \in Nat /\ h.no \in Nat
         /\ h \in InArray(sp, b, n)
         /\ lp = h.time /\ lb = Bin(h.time, n, w) /\ lb \in 0..(n - 1)
         /\ sp[b + lb] \in Seq(Entry) /\ 1 \in 1..Len(sp[b + lb])
<1>1. lb \in 0..(n - 1) /\ sp[b + lb] # <<>> /\ lp = h.time
  BY DEF HeadAt
<1>2. sp[b + lb] \in Seq(Entry)
  BY <1>1, Cells
<1>3. 1 \in 1..Len(sp[b + lb])
  BY <1>1, <1>2
<1>4. h \in Entry /\ h \in Range(sp[b + lb])
  BY <1>2, <1>3 DEF Range
<1>5. h \in InArray(sp, b, n)
  BY <1>1, <1>4, InCells
<1>6. Bin(h.time, n, w) = lb
  BY <1>1, <1>4 DEF Cal
<1> QED BY <1>1, <1>2, <1>3, <1>4, <1>5, <1>6, EntryType

(* Every element is in a bin whose head is not after it.                   *)
LEMMA BehindHead ==
  ASSUME NEW sp \in Spaces, NEW b, NEW n, NEW w \in Nat \ {0}, Window(b, n), Cal(sp, b, n, w),
         NEW x \in InArray(sp, b, n), NEW i, i = Bin(x.time, n, w)
  PROVE  /\ i \in 0..(n - 1) /\ sp[b + i] # <<>>
         /\ x.time \in Nat /\ sp[b + i][1].time \in Nat /\ sp[b + i][1].time <= x.time
         /\ x = sp[b + i][1] \/ Before(sp[b + i][1], x)
<1>1. x.time \in Nat /\ i \in 0..(n - 1) /\ \E k \in 1..Len(sp[b + i]) : x = sp[b + i][k]
  BY InOwnBin
<1>2. sp[b + i] \in Seq(Entry) /\ Sorted(sp[b + i])
  BY <1>1, Cells DEF Cal
<1>3. PICK k \in 1..Len(sp[b + i]) : x = sp[b + i][k]
  BY <1>1
<1>4. Len(sp[b + i]) \in Nat /\ 1 \in 1..Len(sp[b + i]) /\ sp[b + i] # <<>>
  BY <1>2, <1>3
<1>5. sp[b + i][1].time \in Nat
  BY <1>2, <1>4, EntryFacts
<1>6. k = 1 \/ Before(sp[b + i][1], sp[b + i][k])
  BY <1>2, <1>3, <1>4 DEF Sorted
<1>7. x = sp[b + i][1] \/ Before(sp[b + i][1], x)
  BY <1>3, <1>6
<1>8. sp[b + i][1].time <= x.time
  BY <1>1, <1>5, <1>7 DEF Before
<1> QED BY <1>1, <1>4, <1>5, <1>7, <1>8

(* Times in the same bin are in the same span of time or a round apart.    *)
LEMMA RoundApart ==
  ASSUME NEW q \in Nat, NEW r \in Nat, NEW n \in Nat, n >= 2, q <= r, NEW j \in 0..(n - 1),
         r % n = (IF (q % n) + j < n THEN (q % n) + j ELSE (q % n) + j - n)
  PROVE  r = q + j \/ r >= q + j + n
<1>7. n \in Nat \ {0}
  OBVIOUS
<1>1. /\ q \div n \in Nat /\ q % n \in 0..(n - 1) /\ q = n * (q \div n) + (q % n)
      /\ r \div n \in Nat /\ r % n \in 0..(n - 1) /\ r = n * (r \div n) + (r % n)
  BY <1>7, Division
<1> DEFINE a == q \div n  c == r \div n  u == q % n  v == r % n
<1>2. a \in Nat /\ c \in Nat /\ u \in 0..(n - 1) /\ v \in 0..(n - 1)
      /\ q = n * a + u /\ r = n * c + v /\ v = (IF u + j < n THEN u + j ELSE u + j - n)
  BY <1>1
<1> HIDE DEF a, c, u, v
<1> DEFINE d == IF u + j < n THEN c - a ELSE c - a - 1
<1>3. r = q + j + n * d /\ d \in Int
  BY <1>2
<1> HIDE DEF d
<1>4. d >= 0
  <2> SUFFICES ASSUME d <= -1 PROVE FALSE
    BY <1>3
  <2>1. n * d <= -n
    BY <1>3
  <2> QED BY <1>3, <2>1
<1>5. d = 0 => n * d = 0
  OBVIOUS
<1>6. d >= 1 => n * d >= n
  BY <1>3
<1> QED BY <1>3, <1>4, <1>5, <1>6

(* The bin that is looked at j turns after bin lb.                         *)
Turn(lb, j, n) == IF lb + j < n THEN lb + j ELSE lb + j - n

(* Every bin is looked at in one round.                                    *)
LEMMA EveryTurn ==
  ASSUME NEW n \in Nat, NEW lb \in 0..(n - 1)
  PROVE  /\ \A j \in 0..(n - 1) : Turn(lb, j, n) \in 0..(n - 1)
         /\ \A i \in 0..(n - 1) : \E j \in 0..(n - 1) : i = Turn(lb, j, n)
<1>1. \A j \in 0..(n - 1) : Turn(lb, j, n) \in 0..(n - 1)
  BY DEF Turn
<1>2. ASSUME NEW i \in 0..(n - 1) PROVE \E j \in 0..(n - 1) : i = Turn(lb, j, n)
  <2>1. CASE i >= lb
    <3>1. i - lb \in 0..(n - 1) /\ i = Turn(lb, i - lb, n)
      BY <2>1 DEF Turn
    <3> QED BY <3>1
  <2>2. CASE i < lb
    <3>1. i - lb + n \in 0..(n - 1) /\ i = Turn(lb, i - lb + n, n)
      BY <2>2 DEF Turn
    <3> QED BY <3>1
  <2> QED BY <2>1, <2>2
<1> QED BY <1>1, <1>2

(* Spans of time are in the order of the times.                            *)
LEMMA QuotientOrder ==
  ASSUME NEW t \in Nat, NEW u \in Nat, NEW w \in Nat \ {0}
  PROVE  /\ t \div w < u \div w => t < u
         /\ t <= u => t \div w <= u \div w
<1>1. /\ t \div w \in Nat /\ (t \div w) * w <= t /\ t < (t \div w) * w + w
      /\ u \div w \in Nat /\ (u \div w) * w <= u /\ u < (u \div w) * w + w
  BY Quotient
<1> DEFINE a == t \div w  c == u \div w
<1>2. a \in Nat /\ c \in Nat /\ a * w <= t /\ t < a * w + w /\ c * w <= u /\ u < c * w + w
  BY <1>1
<1> HIDE DEF a, c
<1>3. /\ a * w \in Int /\ c * w \in Int
      /\ a < c => a * w + w <= c * w
      /\ c < a => c * w + w <= a * w
  BY <1>2, Multiples
<1>4. (a < c => t < u) /\ (t <= u => a <= c)
  BY <1>2, <1>3
<1> QED BY <1>4 DEF a, c

(* What is found within one round is in its own span of time.              *)
LEMMA WithinRound ==
  ASSUME NEW N \in Nat, NEW q \in Nat, NEW n \in Nat, n >= 2, NEW w \in Nat \ {0},
         NEW j \in 0..(n - 1), NEW t \in Nat, q * w <= t, N <= q, NEW bt \in Int,
         bt = (2 * N + 3) * w \/ bt <= (2 * N - 1) * w,
         2 * t < bt + 2 * j * w, q = N + j \/ q >= N + j + n
  PROVE  q = N + j /\ bt = (2 * N + 3) * w /\ bt + 2 * j * w = (2 * q + 3) * w
<1> DEFINE A == N * w  J == j * w  Q == q * w
<1>1. A \in Int /\ J \in Int /\ Q \in Int /\ Q <= t
  OBVIOUS
<1>2. (2 * N + 3) * w = 2 * A + 3 * w /\ (2 * N - 1) * w = 2 * A - w /\ 2 * j * w = 2 * J
      /\ (2 * q + 3) * w = 2 * Q + 3 * w
  OBVIOUS
<1>3. q = N + j => Q = A + J
  OBVIOUS
<1>4. q >= N + j + n => Q >= A + J + 2 * w
  <2>1. N + j + 2 \in Int /\ (q >= N + j + n => N + j + 2 <= q)
    OBVIOUS
  <2>2. N + j + 2 <= q => (N + j + 2) * w <= q * w
    BY Multiples
  <2>3. (N + j + 2) * w = A + J + 2 * w
    OBVIOUS
  <2> QED BY <2>1, <2>2, <2>3
<1> HIDE DEF A, J, Q
<1>5. bt = 2 * A + 3 * w \/ bt <= 2 * A - w
  BY <1>2
<1>6. 2 * t < bt + 2 * J
  BY <1>2
<1>7. Q >= A + J
  BY <1>1, <1>3, <1>4
<1>8. bt = 2 * A + 3 * w
  BY <1>1, <1>5, <1>6, <1>7
<1>9. q = N + j
  BY <1>1, <1>4, <1>6, <1>8
<1> QED BY <1>1, <1>2, <1>3, <1>8, <1>9

(* A head of time t is found j turns after the bin of time F.              *)
Hit(F, t, n, w, N, q, j, bt) ==
  /\ F \in Nat /\ t \in Nat /\ F <= t
  /\ n \in Nat /\ n >= 2 /\ w \in Nat \ {0}
  /\ N = F \div w /\ q = t \div w
  /\ j \in 0..(n - 1) /\ q % n = Turn(N % n, j, n)
  /\ bt \in Int /\ Top(F, w, bt) /\ 2 * t < bt + 2 * j * w

LEMMA HitSpan ==
  ASSUME NEW F, NEW t, NEW n, NEW w, NEW N, NEW q, NEW j, NEW bt, Hit(F, t, n, w, N, q, j, bt)
  PROVE  q = N + j /\ bt = (2 * N + 3) * w /\ Top(t, w, bt + 2 * j * w)
<1> USE DEF Hit
<1>1. N \in Nat /\ q \in Nat /\ q * w <= t /\ N <= q
  BY Quotient, QuotientOrder
<1>2. q = N + j \/ q >= N + j + n
  <2>1. q % n = (IF (N % n) + j < n THEN (N % n) + j ELSE (N % n) + j - n)
    BY DEF Turn
  <2> QED BY <1>1, <2>1, RoundApart
<1>3. bt = (2 * N + 3) * w \/ bt <= (2 * N - 1) * w
  BY DEF Top
<1>4. q = N + j /\ bt = (2 * N + 3) * w /\ bt + 2 * j * w = (2 * q + 3) * w
  BY <1>1, <1>2, <1>3, WithinRound
<1> QED BY <1>4 DEF Top

(* The first bin, from that of time F on, whose head is in time for it has *)
(* the first of all elements, if none is before F.                         *)
LEMMA HitHead ==
  ASSUME NEW sp \in Spaces, NEW b, NEW n, NEW w \in Nat \ {0}, Window(b, n), Cal(sp, b, n, w),
         NEW F \in Nat, \A x \in InArray(sp, b, n) : x.time >= F,
         NEW lb, lb = Bin(F, n, w), NEW bt \in Int, Top(F, w, bt),
         NEW j \in 0..(n - 1), NEW s, s = Turn(lb, j, n), sp[b + s] # <<>>,
         2 * sp[b + s][1].time < bt + 2 * j * w,
         \A k \in 0..(n - 1) : /\ sp[b + Turn(lb, k, n)] # <<>>
                               /\ 2 * sp[b + Turn(lb, k, n)][1].time < bt + 2 * k * w
                               => j <= k
  PROVE  HeadAt(sp, b, n, w, s, sp[b + s][1].time, bt + 2 * j * w)
<1>1. b \in Nat /\ n \in Nat /\ n >= 2
  BY DEF Window
<1> DEFINE N == F \div w  f == sp[b + s][1]  qf == f.time \div w
<1>2. N \in Nat /\ lb = N % n /\ lb \in 0..(n - 1)
  BY <1>1, BinType, Quotient DEF Bin
<1>3. s \in 0..(n - 1) /\ sp[b + s] \in Seq(Entry)
  BY <1>1, <1>2, EveryTurn, Cells
<1>4. 1 \in 1..Len(sp[b + s]) /\ f \in Range(sp[b + s]) /\ f \in Entry
  BY <1>3 DEF Range
<1>5. f \in InArray(sp, b, n) /\ f.time \in Nat /\ Bin(f.time, n, w) = s /\ f.time >= F
  BY <1>3, <1>4, InCells, EntryType DEF Cal
<1>6. qf \in Nat /\ qf * w <= f.time /\ N <= qf /\ qf % n = s
  BY <1>5, Quotient, QuotientOrder DEF Bin
<1> HIDE DEF N, f, qf
<1>7. qf = f.time \div w /\ N = F \div w /\ qf % n = Turn(N % n, j, n)
  BY <1>2, <1>6 DEF qf, N
<1>10. qf = N + j /\ bt = (2 * N + 3) * w /\ Top(f.time, w, bt + 2 * j * w)
  <2> DEFINE t == f.time
  <2>1. t \in Nat /\ F <= t /\ 2 * t < bt + 2 * j * w /\ qf = t \div w
    BY <1>5, <1>7 DEF f
  <2> HIDE DEF t
  <2>3. Hit(F, t, n, w, N, qf, j, bt)
    BY <1>1, <1>7, <2>1 DEF Hit
  <2>2. qf = N + j /\ bt = (2 * N + 3) * w /\ Top(t, w, bt + 2 * j * w)
    BY <2>3, HitSpan
  <2> QED BY <2>2 DEF t
<1>14. qf = N + j
  BY <1>10
<1>11. ASSUME NEW x \in InArray(sp, b, n) PROVE x = f \/ Before(f, x)
  <2> DEFINE i == Bin(x.time, n, w)  q == x.time \div w
  <2>1. /\ i \in 0..(n - 1) /\ sp[b + i] # <<>>
        /\ x.time \in Nat /\ sp[b + i][1].time \in Nat /\ sp[b + i][1].time <= x.time
        /\ x = sp[b + i][1] \/ Before(sp[b + i][1], x)
    BY BehindHead
  <2>2. q \in Nat /\ q * w <= x.time /\ x.time < q * w + w /\ N <= q /\ q % n = i
    BY <2>1, Quotient, QuotientOrder DEF Bin, N
  <2> HIDE DEF i, q
  <2>3. CASE i = s
    BY <2>1, <2>3 DEF f
  <2>4. CASE i # s
    <3>1. PICK k \in 0..(n - 1) : i = Turn(lb, k, n)
      BY <1>1, <1>2, <2>1, EveryTurn
    <3>2. q = N + k \/ q >= N + k + n
      <4>1. q % n = (IF (N % n) + k < n THEN (N % n) + k ELSE (N % n) + k - n)
        BY <1>2, <2>2, <3>1 DEF Turn
      <4> QED BY <1>1, <1>2, <2>2, <4>1, RoundApart
    <3>3. j # k
      BY <2>4, <3>1
    <3>4. CASE q = N + k
      <4> DEFINE Q == q * w  T == bt + 2 * k * w
      <4>1. T = 2 * Q + 3 * w
        <5>1. bt = (2 * N + 3) * w
          BY <1>10
        <5> QED BY <1>2, <3>4, <5>1
      <4>7. Q \in Int /\ x.time < Q + w /\ T \in Int
        BY <2>2
      <4> HIDE DEF Q, T
      <4>8. x.time \in Nat /\ sp[b + i][1].time \in Nat /\ sp[b + i][1].time <= x.time
        BY <2>1
      <4> DEFINE y == x.time  z == sp[b + i][1].time
      <4>9. y \in Nat /\ z \in Nat /\ z <= y /\ y < Q + w
        BY <4>7, <4>8
      <4> HIDE DEF y, z
      <4>10. 2 * z < T
        BY <4>1, <4>7, <4>9
      <4>3. 2 * sp[b + i][1].time < T
        BY <4>10 DEF z
      <4>4. j <= k
        BY <2>1, <3>1, <4>3 DEF T
      <4>5. qf < q
        BY <1>2, <1>14, <3>3, <3>4, <4>4
      <4>6. f.time < x.time
        BY <1>5, <2>1, <4>5, QuotientOrder DEF qf, q
      <4> QED BY <4>6 DEF Before
    <3>5. CASE q >= N + k + n
      <4>1. qf < q
        BY <1>1, <1>2, <1>14, <2>2, <3>5
      <4>2. f.time < x.time
        BY <1>5, <2>1, <4>1, QuotientOrder DEF qf, q
      <4> QED BY <4>2 DEF Before
    <3> QED BY <3>2, <3>4, <3>5
  <2> QED BY <2>3, <2>4
<1>12. Top(f.time, w, bt + 2 * j * w)
  BY <1>10
<1>13. bt + 2 * j * w \in Int
  OBVIOUS
<1> QED BY <1>3, <1>11, <1>12, <1>13 DEF HeadAt, f

(* The head that is least of all heads is the first of all elements.       *)
LEMMA DirectHead ==
  ASSUME NEW sp \in Spaces, NEW b, NEW n, NEW w \in Nat \ {0}, Window(b, n), Cal(sp, b, n, w),
         NEW i \in 0..(n - 1), sp[b + i] # <<>>,
         \A k \in 0..(n - 1) : sp[b + k] # <<>> =>
           sp[b + i][1].time < sp[b + k][1].time \/ sp[b + i][1].time = sp[b + k][1].time,
         NEW t, t = sp[b + i][1].time, NEW bt, bt = (2 * ((t \div w) + 1) + 1) * w
  PROVE  HeadAt(sp, b, n, w, i, t, bt)
<1>1. b \in Nat /\ n \in Nat /\ n >= 2
  BY DEF Window
<1> DEFINE f == sp[b + i][1]
<1>2. sp[b + i] \in Seq(Entry)
  BY Cells
<1>3. 1 \in 1..Len(sp[b + i]) /\ f \in Range(sp[b + i]) /\ f \in Entry
  BY <1>2 DEF Range
<1>4. f.time \in Nat /\ Bin(f.time, n, w) = i /\ t = f.time
  BY <1>3, EntryType DEF Cal
<1> HIDE DEF f
<1>5. ASSUME NEW x \in InArray(sp, b, n) PROVE x = f \/ Before(f, x)
  <2> DEFINE k == Bin(x.time, n, w)  g == sp[b + k][1]
  <2>1. /\ k \in 0..(n - 1) /\ sp[b + k] # <<>>
        /\ x.time \in Nat /\ g.time \in Nat /\ g.time <= x.time
        /\ x = g \/ Before(g, x)
    BY BehindHead
  <2>2. sp[b + k] \in Seq(Entry)
    BY <2>1, Cells
  <2>3. g \in Range(sp[b + k])
    BY <2>1, <2>2 DEF Range
  <2>4. Bin(g.time, n, w) = k
    BY <2>1, <2>3 DEF Cal
  <2>5. f.time < g.time \/ f.time = g.time
    BY <2>1 DEF f
  <2>6. CASE f.time < g.time
    BY <1>4, <2>1, <2>6 DEF Before
  <2>7. CASE f.time = g.time
    <3>1. i = k
      BY <1>4, <2>4, <2>7
    <3> QED BY <2>1, <3>1 DEF f
  <2> QED BY <2>5, <2>6, <2>7
<1>6. t \div w \in Nat /\ bt \in Int /\ bt = (2 * (t \div w) + 3) * w
  <2>1. t \div w \in Nat
    BY <1>4, Quotient
  <2> DEFINE q == t \div w
  <2> HIDE DEF q
  <2>2. q \in Nat => (2 * (q + 1) + 1) * w = (2 * q + 3) * w /\ (2 * q + 3) * w \in Int
    OBVIOUS
  <2> QED BY <2>1, <2>2 DEF q
<1> QED BY <1>4, <1>5, <1>6 DEF HeadAt, Top, f
-----------------------------------------------------------------------------
(* An element that is put behind all of its time, or before all elements.  *)
Ranked(e, S) == \/ \A x \in S : x.time = e.time => x.no < e.no
                \/ \A x \in S : Before(e, x)

(* With resizing off, an element that is before all goes to the front.     *)
LEMMA PlaceFront ==
  ASSUME NEW s \in Seq(Entry), NEW e \in Entry, \A k \in 1..Len(s) : Before(e, s[k])
  PROVE  Fits(s, Place(s, e.time, FALSE), e)
<1> DEFINE P == Place(s, e.time, FALSE)  n == Len(s)
           Stops == {k \in 1..Len(s) : e.time < s[k].time \/ (~FALSE /\ e.time = s[k].time)}
<1>1. n \in Nat /\ (s # <<>> => n > 0)
  OBVIOUS
<1>2. s # <<>> => 1 \in Stops
  BY <1>1 DEF Before
<1>3. P = IF s = <<>> \/ 1 \in Stops THEN 1
          ELSE IF e.time >= Last(s).time THEN Len(s) + 1
          ELSE Min(Stops)
  BY DEF Place
<1> HIDE DEF P, Stops
<1> SUFFICES Fits(s, P, e)
  BY DEF P
<1>4. P = 1
  BY <1>2, <1>3
<1> QED BY <1>1, <1>4 DEF Fits

(* bintop of an element that was put in front, by the number of its bin.   *)
LEMMA TopOfBin ==
  ASSUME NEW t \in Nat, NEW n \in Nat, n >= 2, NEW w \in Nat \ {0}, NEW i, i = Bin(t, n, w)
  PROVE  (2 * i + 3) * w \in Int /\ Top(t, w, (2 * i + 3) * w)
<1> DEFINE q == t \div w
<1>1. q \in Nat /\ i = q % n
  BY Quotient DEF Bin
<1>7. n \in Nat \ {0}
  OBVIOUS
<1>2. q \div n \in Nat /\ i \in 0..(n - 1) /\ q = n * (q \div n) + i
  BY <1>1, <1>7, Division
<1> DEFINE d == q \div n
<1>3. d \in Nat /\ q = n * d + i
  BY <1>2
<1> HIDE DEF q, d
<1>4. (2 * i + 3) * w \in Int
  BY <1>2
<1>5. CASE d = 0
  <2>1. q = i
    BY <1>2, <1>3, <1>5
  <2> QED BY <1>4, <2>1 DEF Top, q
<1>6. CASE d >= 1
  <2>1. n * d >= n
    BY <1>3, <1>6
  <2>2. 2 * i + 3 <= 2 * q - 1 /\ 2 * i + 3 \in Int /\ 2 * q - 1 \in Int
    BY <1>1, <1>2, <1>3, <2>1
  <2>3. (2 * i + 3) * w <= (2 * q - 1) * w
    BY <2>2, Multiples
  <2> QED BY <1>4, <2>3 DEF Top, q
<1> QED BY <1>3, <1>5, <1>6

(* Put keeps lastbin, lastprio and bintop at the first element: the new    *)
(* one if it comes before it.                                              *)
Noticed(cq, lb, lp, bt, t, i, w, lb2, lp2, bt2) ==
  IF cq = 0 \/ t < lp
  THEN lb2 = i /\ lp2 = t /\ bt2 = (2 * i + 3) * w
  ELSE lb2 = lb /\ lp2 = lp /\ bt2 = bt

LEMMA PutHead ==
  ASSUME NEW sp, NEW b, NEW n, NEW w, NEW e, NEW i, NEW p, NEW sp2,
         Takes(sp, b, n, w, e, i, p, sp2), Ranked(e, InArray(sp, b, n)),
         NEW cq, NEW lb, NEW lp, NEW bt, CalOK(sp, b, n, w, cq, lb, lp, bt),
         NEW lb2, NEW lp2, NEW bt2, Noticed(cq, lb, lp, bt, e.time, i, w, lb2, lp2, bt2)
  PROVE  HeadAt(sp2, b, n, w, lb2, lp2, bt2)
<1>11. /\ sp \in Spaces /\ w \in Nat \ {0} /\ Window(b, n) /\ e \in Entry
       /\ i = Bin(e.time, n, w) /\ Fits(sp[b + i], p, e)
  BY DEF Takes
<1>12. IF cq = 0 \/ e.time < lp
       THEN lb2 = i /\ lp2 = e.time /\ bt2 = (2 * i + 3) * w
       ELSE lb2 = lb /\ lp2 = lp /\ bt2 = bt
  BY DEF Noticed
<1>1. e.time \in Nat /\ b \in Nat /\ n \in Nat /\ n >= 2 /\ e.no \in Nat
  BY <1>11, EntryType DEF Window
<1>2. Cal(sp, b, n, w) /\ (cq = 0 <=> InArray(sp, b, n) = {})
  BY FS_EmptySet DEF CalOK
<1>3. /\ i \in 0..(n - 1)
      /\ sp2 \in Spaces
      /\ \A x : x \in InArray(sp2, b, n) <=> x = e \/ x \in InArray(sp, b, n)
      /\ sp2[b + i] # <<>>
      /\ sp2[b + i][1] = IF p = 1 THEN e ELSE sp[b + i][1]
      /\ \A k \in 0..(n - 1) : k # i => sp2[b + k] = sp[b + k]
  BY PutCal
<1>4. sp[b + i] \in Seq(Entry) /\ Len(sp[b + i]) \in Nat /\ p \in 1..(Len(sp[b + i]) + 1)
      /\ \A k \in 1..Len(sp[b + i]) : sp[b + i][k] \in InArray(sp, b, n) /\ sp[b + i][k] \in Entry
  <2>1. sp[b + i] \in Seq(Entry)
    BY <1>3, <1>11, Cells
  <2>2. \A k \in 1..Len(sp[b + i]) : sp[b + i][k] \in Range(sp[b + i]) /\ sp[b + i][k] \in Entry
    BY <2>1 DEF Range
  <2> QED BY <1>3, <1>11, <2>1, <2>2, InCells DEF Fits
<1> DEFINE h == sp[b + lb][1]
<1>5. cq # 0 => /\ HeadAt(sp, b, n, w, lb, lp, bt)
                /\ h \in Entry /\ h.time \in Nat /\ h.no \in Nat /\ h \in InArray(sp, b, n)
                /\ lp = h.time /\ lb = Bin(h.time, n, w) /\ lb \in 0..(n - 1)
                /\ sp[b + lb] \in Seq(Entry) /\ 1 \in 1..Len(sp[b + lb])
  <2>1. cq # 0 => HeadAt(sp, b, n, w, lb, lp, bt)
    BY <1>2 DEF CalOK
  <2> QED BY <1>2, <1>11, <2>1, HeadFacts
<1>6. cq # 0 => \A x \in InArray(sp, b, n) : x = h \/ Before(h, x)
  BY <1>5 DEF HeadAt
<1>7. cq # 0 => lp \in Nat /\ bt \in Int /\ Top(lp, w, bt)
  BY <1>5 DEF HeadAt
<1> HIDE DEF h
<1>8. CASE \A x \in InArray(sp, b, n) : Before(e, x)
  <2>1. p = 1
    <3> SUFFICES ASSUME p > 1 PROVE FALSE
      BY <1>4
    <3>1. 1 \in 1..Len(sp[b + i])
      BY <1>4
    <3>2. Before(sp[b + i][1], e)
      BY <1>11, <3>1 DEF Fits
    <3>3. Before(e, sp[b + i][1]) /\ sp[b + i][1].time \in Nat /\ sp[b + i][1].no \in Nat
      BY <1>4, <1>8, <3>1, EntryType
    <3> QED BY <1>1, <3>2, <3>3 DEF Before
  <2>2. sp2[b + i][1] = e
    BY <1>3, <2>1
  <2>3. lb2 = i /\ lp2 = e.time /\ bt2 \in Int /\ Top(e.time, w, bt2)
    <3>1. CASE cq = 0 \/ e.time < lp
      BY <1>1, <1>11, <1>12, <3>1, TopOfBin
    <3>2. CASE ~(cq = 0 \/ e.time < lp)
      <4>1. Before(e, h)
        BY <1>5, <1>8, <3>2
      <4>2. e.time = h.time
        BY <1>1, <1>5, <3>2, <4>1 DEF Before
      <4> QED BY <1>5, <1>7, <1>11, <1>12, <3>2, <4>2
    <3> QED BY <3>1, <3>2
  <2> QED BY <1>3, <1>8, <2>2, <2>3 DEF HeadAt
<1>9. CASE cq # 0 /\ ~(e.time < lp) /\ Before(h, e)
  <2>1. lb2 = lb /\ lp2 = lp /\ bt2 = bt
    BY <1>9, <1>12
  <2>2. sp2[b + lb] # <<>> /\ sp2[b + lb][1] = h
    <3>1. CASE lb # i
      <4>1. sp2[b + lb] = sp[b + lb]
        BY <1>3, <1>5, <1>9, <3>1
      <4>2. sp[b + lb] # <<>>
        BY <1>5, <1>9
      <4> QED BY <4>1, <4>2 DEF h
    <3>2. CASE lb = i
      <4>1. p # 1
        <5> SUFFICES ASSUME p = 1 PROVE FALSE
          OBVIOUS
        <5>1. Before(e, sp[b + i][1])
          BY <1>4, <1>5, <1>9, <1>11, <3>2 DEF Fits
        <5>2. Before(e, h)
          BY <3>2, <5>1 DEF h
        <5> QED BY <1>1, <1>5, <1>9, <5>2 DEF Before
      <4> QED BY <1>3, <3>2, <4>1 DEF h
    <3> QED BY <3>1, <3>2
  <2>3. \A x \in InArray(sp2, b, n) : x = h \/ Before(h, x)
    BY <1>3, <1>6, <1>9
  <2> QED BY <1>5, <1>7, <1>9, <2>1, <2>2, <2>3 DEF HeadAt
<1>10. (\A x \in InArray(sp, b, n) : Before(e, x)) \/ (cq # 0 /\ ~(e.time < lp) /\ Before(h, e))
  <2> SUFFICES ASSUME \A x \in InArray(sp, b, n) : x.time = e.time => x.no < e.no
               PROVE  \/ \A x \in InArray(sp, b, n) : Before(e, x)
                      \/ cq # 0 /\ ~(e.time < lp) /\ Before(h, e)
    BY DEF Ranked
  <2>1. CASE cq = 0
    BY <1>2, <2>1
  <2>2. CASE cq # 0 /\ e.time < lp
    <3>1. ASSUME NEW x \in InArray(sp, b, n) PROVE Before(e, x)
      <4>1. x.time \in Nat /\ (x = h \/ Before(h, x))
        BY <1>2, <1>6, <1>11, <2>2, InOwnBin
      <4> QED BY <1>1, <1>5, <2>2, <4>1 DEF Before
    <3> QED BY <3>1
  <2>3. CASE cq # 0 /\ ~(e.time < lp)
    <3>1. h.time = e.time => h.no < e.no
      BY <1>5, <2>3
    <3> QED BY <1>1, <1>5, <2>3, <3>1 DEF Before
  <2> QED BY <2>1, <2>2, <2>3
<1> QED BY <1>8, <1>9, <1>10
-----------------------------------------------------------------------------
Here == InArray(space, base, nbins)
BinsOK == /\ Window(base, nbins) /\ binwidth \in Nat \ {0}
          /\ CalOK(space, base, nbins, binwidth, cqsize, lastbin, lastprio, bintop)

(* The bin of a time that is not negative.                                 *)
LEMMA BinOfTime ==
  ASSUME NEW t \in Nat
  PROVE  BinOf(t) = Bin(t, nbins, binwidth)
<1>1. t >= 0
  OBVIOUS
<1> QED BY <1>1 DEF BinOf, Bin, Trunc

(* Put with e at place p of its bin.                                       *)
PutAt(sp, e, i, p) ==
  /\ space' = SetBin(sp, base, i, InsertAt(sp[base + i], p, e))
  /\ cqsize' = cqsize + 1
  /\ base' = base /\ nbins' = nbins /\ binwidth' = binwidth
  /\ IF cqsize = 0 \/ e.time < lastprio
     THEN lastbin' = i /\ lastprio' = e.time /\ bintop' = (2 * i + 3) * binwidth
     ELSE lastbin' = lastbin /\ lastprio' = lastprio /\ bintop' = bintop

(* What Put leaves, with sp for space before it.                           *)
PutInto(sp, e) ==
  /\ base' = base /\ nbins' = nbins /\ binwidth' = binwidth
  /\ \A x : x \in InArray(space', base, nbins) <=> x = e \/ x \in InArray(sp, base, nbins)
  /\ cqsize \in Nat /\ cqsize' = cqsize + 1
  /\ space' \in Spaces
  /\ \A k \in 0..(3 * CALQSZ - 1) : k \notin base..(base + nbins - 1) => space'[k] = sp[k]

LEMMA PutAtStep ==
  ASSUME Window(base, nbins), binwidth \in Nat \ {0}, NEW sp \in Spaces,
         CalOK(sp, base, nbins, binwidth, cqsize, lastbin, lastprio, bintop),
         NEW e \in Entry, Ranked(e, InArray(sp, base, nbins)),
         NEW i, i = Bin(e.time, nbins, binwidth), NEW p, Fits(sp[base + i], p, e), PutAt(sp, e, i, p)
  PROVE  BinsOK' /\ PutInto(sp, e)
<1>1. e.time \in Nat /\ e.no \in Nat
  BY EntryType
<1>4. Cal(sp, base, nbins, binwidth) /\ IsFiniteSet(InArray(sp, base, nbins))
      /\ cqsize = Cardinality(InArray(sp, base, nbins))
  BY DEF CalOK
<1> DEFINE sp2 == SetBin(sp, base, i, InsertAt(sp[base + i], p, e))
<1>15. Takes(sp, base, nbins, binwidth, e, i, p, sp2)
  BY <1>4 DEF Takes
<1>19. space' = sp2 /\ cqsize' = cqsize + 1 /\ base' = base /\ nbins' = nbins /\ binwidth' = binwidth
  BY DEF PutAt
<1>20. /\ sp2 \in Spaces
       /\ Cal(sp2, base, nbins, binwidth)
       /\ \A x : x \in InArray(sp2, base, nbins) <=> x = e \/ x \in InArray(sp, base, nbins)
       /\ \A k \in 0..(3 * CALQSZ - 1) : k \notin base..(base + nbins - 1) => sp2[k] = sp[k]
  BY <1>15, PutCal
<1>21. ASSUME NEW lb2, NEW lp2, NEW bt2,
              Noticed(cqsize, lastbin, lastprio, bintop, e.time, i, binwidth, lb2, lp2, bt2)
       PROVE  HeadAt(sp2, base, nbins, binwidth, lb2, lp2, bt2)
  BY <1>15, <1>21, PutHead
<1> HIDE DEF sp2
<1>10. HeadAt(sp2, base, nbins, binwidth, lastbin', lastprio', bintop')
  BY <1>21 DEF PutAt, Noticed
<1>11. e \notin InArray(sp, base, nbins)
  BY <1>1 DEF Ranked, Before
<1>12. InArray(sp2, base, nbins) = InArray(sp, base, nbins) \cup {e}
  BY <1>20
<1>13. IsFiniteSet(InArray(sp2, base, nbins)) /\ cqsize' = Cardinality(InArray(sp2, base, nbins))
  <2>1. /\ IsFiniteSet(InArray(sp, base, nbins) \cup {e})
        /\ Cardinality(InArray(sp, base, nbins) \cup {e}) = Cardinality(InArray(sp, base, nbins)) + 1
    BY <1>4, <1>11, FS_AddElement
  <2> QED BY <1>4, <1>12, <1>19, <2>1
<1>14. CalOK(sp2, base, nbins, binwidth, cqsize', lastbin', lastprio', bintop')
  BY <1>10, <1>13, <1>20 DEF CalOK
<1>16. BinsOK'
  BY <1>14, <1>19 DEF BinsOK
<1>17. cqsize \in Nat
  BY <1>4, FS_CardinalityType
<1>18. PutInto(sp, e)
  BY <1>17, <1>19, <1>20 DEF PutInto
<1> QED BY <1>16, <1>18

(* Put with resizing on, for an element that is younger than those of its  *)
(* time.                                                                   *)
LEMMA PutBehind ==
  ASSUME Window(base, nbins), binwidth \in Nat \ {0}, NEW sp \in Spaces,
         CalOK(sp, base, nbins, binwidth, cqsize, lastbin, lastprio, bintop), NEW e \in Entry,
         \A x \in InArray(sp, base, nbins) : x.time = e.time => x.no < e.no, Put(sp, e, TRUE)
  PROVE  BinsOK' /\ PutInto(sp, e)
<1> DEFINE i == Bin(e.time, nbins, binwidth)  p == Place(sp[base + i], e.time, TRUE)
<1>1. e.time \in Nat /\ nbins \in Nat /\ nbins >= 2 /\ Cal(sp, base, nbins, binwidth)
  BY EntryType DEF Window, CalOK
<1>2. i \in 0..(nbins - 1) /\ BinOf(e.time) = i
  BY <1>1, BinType, BinOfTime
<1>3. PutAt(sp, e, i, p)
  BY <1>2 DEF Put, PutAt, SetBin
<1>4. sp[base + i] \in Seq(Entry) /\ Sorted(sp[base + i])
  BY <1>1, <1>2, Cells DEF Cal
<1>5. \A k \in 1..Len(sp[base + i]) : sp[base + i][k].time = e.time => sp[base + i][k].no < e.no
  <2>1. \A k \in 1..Len(sp[base + i]) : sp[base + i][k] \in Range(sp[base + i])
    BY <1>4 DEF Range
  <2> QED BY <1>2, <2>1, InCells
<1>6. Fits(sp[base + i], p, e)
  BY <1>4, <1>5, PlaceFits
<1>7. Ranked(e, InArray(sp, base, nbins))
  BY DEF Ranked
<1>8. i = Bin(e.time, nbins, binwidth)
  OBVIOUS
<1> HIDE DEF i, p
<1> QED BY <1>3, <1>6, <1>7, <1>8, PutAtStep

(* Put with resizing off, for an element that is before all.               *)
LEMMA PutFront ==
  ASSUME Window(base, nbins), binwidth \in Nat \ {0}, NEW sp \in Spaces,
         CalOK(sp, base, nbins, binwidth, cqsize, lastbin, lastprio, bintop), NEW e \in Entry,
         \A x \in InArray(sp, base, nbins) : Before(e, x), Put(sp, e, FALSE)
  PROVE  BinsOK' /\ PutInto(sp, e)
<1> DEFINE i == Bin(e.time, nbins, binwidth)  p == Place(sp[base + i], e.time, FALSE)
<1>1. e.time \in Nat /\ nbins \in Nat /\ nbins >= 2
  BY EntryType DEF Window
<1>2. i \in 0..(nbins - 1) /\ BinOf(e.time) = i
  BY <1>1, BinType, BinOfTime
<1>3. PutAt(sp, e, i, p)
  BY <1>2 DEF Put, PutAt, SetBin
<1>4. sp[base + i] \in Seq(Entry)
  BY <1>2, Cells
<1>5. \A k \in 1..Len(sp[base + i]) : Before(e, sp[base + i][k])
  <2>1. \A k \in 1..Len(sp[base + i]) : sp[base + i][k] \in Range(sp[base + i])
    BY <1>4 DEF Range
  <2> QED BY <1>2, <2>1, InCells
<1>6. Fits(sp[base + i], p, e)
  BY <1>4, <1>5, PlaceFront
<1>7. Ranked(e, InArray(sp, base, nbins))
  BY DEF Ranked
<1>8. i = Bin(e.time, nbins, binwidth)
  OBVIOUS
<1> HIDE DEF i, p
<1> QED BY <1>3, <1>6, <1>7, <1>8, PutAtStep

(* YS__CalQueFindHead finds the first of all elements, from any bin and    *)
(* bintop of an element that none of them is before.                       *)
LEMMA FindHeadStep ==
  ASSUME Window(base, nbins), binwidth \in Nat \ {0}, NEW sp \in Spaces,
         Cal(sp, base, nbins, binwidth), InArray(sp, base, nbins) # {},
         NEW F \in Nat, \A x \in InArray(sp, base, nbins) : x.time >= F,
         lastbin = Bin(F, nbins, binwidth), bintop \in Int, Top(F, binwidth, bintop),
         FindHead(sp)
  PROVE  HeadAt(sp, base, nbins, binwidth, lastbin', lastprio', bintop')
<1> DEFINE Full == {i \in 0..(nbins - 1) : sp[base + i] # <<>>}
           Hits == {j \in 0..(nbins - 1) :
                      /\ Turn(lastbin, j, nbins) \in Full
                      /\ 2 * sp[base + Turn(lastbin, j, nbins)][1].time < bintop + 2 * j * binwidth}
<1>1. \A j : Slot(j) = Turn(lastbin, j, nbins)
  BY DEF Slot, Turn
<1>2. \/ \E j \in Hits :
           /\ \A k \in Hits : j <= k
           /\ lastbin' = Turn(lastbin, j, nbins)
           /\ lastprio' = sp[base + Turn(lastbin, j, nbins)][1].time
           /\ bintop' = bintop + 2 * j * binwidth
      \/ \E i \in Full :
           /\ \A k \in Full : \/ sp[base + i][1].time < sp[base + k][1].time
                              \/ sp[base + i][1].time = sp[base + k][1].time /\ i <= k
           /\ lastbin' = i /\ lastprio' = sp[base + i][1].time
           /\ bintop' = (2 * (Trunc(sp[base + i][1].time, binwidth) + 1) + 1) * binwidth
      \/ Full = {}
  BY <1>1 DEF FindHead
<1>3. nbins \in Nat /\ nbins >= 2 /\ lastbin \in 0..(nbins - 1)
  BY BinType DEF Window
<1>4. \A j \in 0..(nbins - 1) : Turn(lastbin, j, nbins) \in 0..(nbins - 1)
  BY <1>3, EveryTurn
<1>5. CASE \E j \in Hits :
             /\ \A k \in Hits : j <= k
             /\ lastbin' = Turn(lastbin, j, nbins)
             /\ lastprio' = sp[base + Turn(lastbin, j, nbins)][1].time
             /\ bintop' = bintop + 2 * j * binwidth
  <2>1. PICK j \in Hits :
             /\ \A k \in Hits : j <= k
             /\ lastbin' = Turn(lastbin, j, nbins)
             /\ lastprio' = sp[base + Turn(lastbin, j, nbins)][1].time
             /\ bintop' = bintop + 2 * j * binwidth
    BY <1>5
  <2> DEFINE s == Turn(lastbin, j, nbins)
  <2>2. j \in 0..(nbins - 1) /\ s = Turn(lastbin, j, nbins) /\ sp[base + s] # <<>>
        /\ 2 * sp[base + s][1].time < bintop + 2 * j * binwidth
    OBVIOUS
  <2>3. \A k \in 0..(nbins - 1) : /\ sp[base + Turn(lastbin, k, nbins)] # <<>>
                                  /\ 2 * sp[base + Turn(lastbin, k, nbins)][1].time
                                       < bintop + 2 * k * binwidth
                                  => j <= k
    BY <1>4, <2>1
  <2> HIDE DEF s
  <2>4. HeadAt(sp, base, nbins, binwidth, s, sp[base + s][1].time, bintop + 2 * j * binwidth)
    BY <2>2, <2>3, HitHead
  <2> QED BY <2>1, <2>4 DEF s
<1>6. CASE \E i \in Full :
           /\ \A k \in Full : \/ sp[base + i][1].time < sp[base + k][1].time
                              \/ sp[base + i][1].time = sp[base + k][1].time /\ i <= k
           /\ lastbin' = i /\ lastprio' = sp[base + i][1].time
           /\ bintop' = (2 * (Trunc(sp[base + i][1].time, binwidth) + 1) + 1) * binwidth
  <2>1. PICK i \in Full :
           /\ \A k \in Full : \/ sp[base + i][1].time < sp[base + k][1].time
                              \/ sp[base + i][1].time = sp[base + k][1].time /\ i <= k
           /\ lastbin' = i /\ lastprio' = sp[base + i][1].time
           /\ bintop' = (2 * (Trunc(sp[base + i][1].time, binwidth) + 1) + 1) * binwidth
    BY <1>6
  <2>2. i \in 0..(nbins - 1) /\ sp[base + i] # <<>>
        /\ \A k \in 0..(nbins - 1) : sp[base + k] # <<>> =>
             sp[base + i][1].time < sp[base + k][1].time \/ sp[base + i][1].time = sp[base + k][1].time
    BY <2>1
  <2>3. sp[base + i][1].time \in Nat
    <3>1. sp[base + i] \in Seq(Entry)
      BY <2>2, Cells
    <3>2. 1 \in 1..Len(sp[base + i])
      BY <2>2, <3>1
    <3> QED BY <3>1, <3>2, EntryFacts
  <2>4. Trunc(sp[base + i][1].time, binwidth) = sp[base + i][1].time \div binwidth
    BY <2>3 DEF Trunc
  <2> QED BY <2>1, <2>2, <2>4, DirectHead
<1>7. CASE Full = {}
  <2>1. PICK x : x \in InArray(sp, base, nbins)
    OBVIOUS
  <2>2. PICK i \in 0..(nbins - 1) : x \in Range(sp[base + i])
    BY <2>1, InCells
  <2>3. sp[base + i] # <<>>
    BY <2>2 DEF Range
  <2> QED BY <1>7, <2>2, <2>3
<1> QED BY <1>2, <1>5, <1>6, <1>7

(* The head is removed, and the next one is found.                         *)
LEMMA TakeStep ==
  ASSUME BinsOK, cqsize # 0, TakeHead
  PROVE  /\ BinsOK'
         /\ UNCHANGED <<base, nbins, binwidth>>
         /\ NextElement \in Here /\ NextElement \in Entry /\ lastprio = NextElement.time
         /\ \A x \in Here : x = NextElement \/ Before(NextElement, x)
         /\ \A x : x \in Here' <=> x \in Here /\ x # NextElement
         /\ cqsize \in Nat /\ cqsize' = cqsize - 1
         /\ space' \in Spaces
         /\ \A k \in 0..(3 * CALQSZ - 1) : k \notin base..(base + nbins - 1) => space'[k] = space[k]
<1>1. /\ Window(base, nbins) /\ binwidth \in Nat \ {0} /\ space \in Spaces
      /\ Cal(space, base, nbins, binwidth) /\ IsFiniteSet(Here) /\ cqsize = Cardinality(Here)
      /\ Here # {} => HeadAt(space, base, nbins, binwidth, lastbin, lastprio, bintop)
  BY DEF BinsOK, CalOK, Here
<1>2. cqsize \in Nat /\ Here # {}
  BY <1>1, FS_CardinalityType, FS_EmptySet
<1>3. HeadAt(space, base, nbins, binwidth, lastbin, lastprio, bintop)
  BY <1>1, <1>2
<1> DEFINE h == NextElement
<1>4. h = space[base + lastbin][1]
  BY DEF NextElement
<1>5. /\ h \in Entry /\ h.time \in Nat /\ h \in Here
      /\ lastprio = h.time /\ lastbin = Bin(h.time, nbins, binwidth) /\ lastbin \in 0..(nbins - 1)
      /\ space[base + lastbin] \in Seq(Entry) /\ 1 \in 1..Len(space[base + lastbin])
      /\ space[base + lastbin] # <<>>
  <2>1. space[base + lastbin] # <<>>
    BY <1>3 DEF HeadAt
  <2> QED BY <1>1, <1>3, <1>4, <2>1, HeadFacts DEF Here
<1>6. \A x \in Here : x = h \/ Before(h, x)
  BY <1>3, <1>4 DEF HeadAt, Here
<1> DEFINE sp == SetBin(space, base, lastbin, RemoveAt(space[base + lastbin], 1))
<1>7. Tail(space[base + lastbin]) = RemoveAt(space[base + lastbin], 1)
  BY <1>5, TailIsRemoval
<1>8. sp = [space EXCEPT ![base + lastbin] = Tail(@)]
  BY <1>7 DEF SetBin
<1>9. /\ space' = sp /\ cqsize' = cqsize - 1
      /\ UNCHANGED <<base, nbins, binwidth>>
      /\ cqsize # 1 => FindHead(sp)
  BY <1>8 DEF TakeHead
<1>10. /\ sp \in Spaces
       /\ Cal(sp, base, nbins, binwidth)
       /\ \A x : x \in InArray(sp, base, nbins) <=> x \in Here /\ x # h
       /\ \A k \in 0..(3 * CALQSZ - 1) : k \notin base..(base + nbins - 1) => sp[k] = space[k]
  <2>1. Gives(space, base, nbins, binwidth, lastbin, 1, h, sp)
    BY <1>1, <1>4, <1>5 DEF Gives
  <2> QED BY <2>1, TakeCal DEF Here
<1> HIDE DEF h, sp
<1>11. InArray(sp, base, nbins) = Here \ {h}
  BY <1>10
<1>12. IsFiniteSet(InArray(sp, base, nbins)) /\ cqsize' = Cardinality(InArray(sp, base, nbins))
  BY <1>1, <1>5, <1>9, <1>11, FS_RemoveElement
<1>13. InArray(sp, base, nbins) # {} => cqsize # 1
  <2>1. cqsize = 1 => Cardinality(InArray(sp, base, nbins)) = 0
    BY <1>9, <1>12
  <2> QED BY <1>12, <2>1, FS_EmptySet
<1>14. \A x \in InArray(sp, base, nbins) : x.time >= h.time
  <2>1. ASSUME NEW x \in InArray(sp, base, nbins) PROVE x.time >= h.time
    <3>1. x.time \in Nat
      BY <1>1, <1>10, InOwnBin DEF Here
    <3> QED BY <1>5, <1>6, <1>10, <3>1 DEF Before
  <2> QED BY <2>1
<1>15. bintop \in Int /\ Top(h.time, binwidth, bintop)
  BY <1>3, <1>5 DEF HeadAt
<1>16. InArray(sp, base, nbins) # {} => HeadAt(sp, base, nbins, binwidth, lastbin', lastprio', bintop')
  <2> SUFFICES ASSUME InArray(sp, base, nbins) # {}
               PROVE  HeadAt(sp, base, nbins, binwidth, lastbin', lastprio', bintop')
    OBVIOUS
  <2>1. FindHead(sp)
    BY <1>9, <1>13
  <2> QED BY <1>1, <1>5, <1>10, <1>14, <1>15, <2>1, FindHeadStep
<1>17. CalOK(space', base, nbins, binwidth, cqsize', lastbin', lastprio', bintop')
  BY <1>9, <1>10, <1>12, <1>16 DEF CalOK
<1>18. base' = base /\ nbins' = nbins /\ binwidth' = binwidth
  BY <1>9
<1>19. BinsOK'
  BY <1>1, <1>17, <1>18 DEF BinsOK
<1>20. \A x : x \in Here' <=> x \in Here /\ x # h
  BY <1>9, <1>10, <1>18 DEF Here
<1> QED BY <1>2, <1>5, <1>6, <1>9, <1>10, <1>18, <1>19, <1>20 DEF h
-----------------------------------------------------------------------------
(***************************************************************************)
(* The inductive invariant of the event list.                              *)
(***************************************************************************)
There == InArray(space, old.base, old.n)

KindOK == /\ type \in {"CALQUE", "LINQUE"}
          /\ pc \in {"idle", "take", "put", "copy"}
          /\ type = "LINQUE" => pc = "idle"
ListOK == list \in Seq(Entry) /\ Sorted(list)
PlaceOK == nbins <= 2 * CALQSZ /\ (base = 0 \/ base = 3 * CALQSZ - nbins)

(* Samples are before all elements in the bins.                            *)
SamplesOK == /\ samples \in Seq(Entry) /\ Sorted(samples)
             /\ \A k \in 1..Len(samples) : \A x \in Here : Before(samples[k], x)
             /\ pc \in {"idle", "copy"} => samples = <<>>

(* What is not copied yet is younger than what is, if the times are equal. *)
OldOK == pc = "copy" =>
           /\ Window(old.base, old.n)
           /\ \A k \in old.base..(old.base + old.n - 1) : k \notin base..(base + nbins - 1)
           /\ \E w \in Nat \ {0} : Cal(space, old.base, old.n, w)
           /\ IsFiniteSet(There)
           /\ \A g \in There, h \in Here : g.time = h.time => h.no < g.no

(* The new array has room for all that is copied into it.                  *)
SizeOK ==
  /\ pc = "idle" /\ autosize /\ nbins <= CALQSZ => cqsize <= 2 * nbins
  /\ pc # "idle" => newsize \in 2..(2 * CALQSZ)
  /\ pc \in {"take", "put"} => nbins + newsize <= 3 * CALQSZ /\ total <= 2 * newsize
  /\ pc = "take" => /\ samples # <<>> => total >= 2
                    /\ total >= 2 => Len(samples) < NSamples(total)
  /\ pc = "copy" => nbins = newsize /\ cqsize + Cardinality(There) <= 2 * newsize

NumbersOK == serial \in Nat /\ \A e \in Elements : e \in Entry /\ e.no < serial

EvInv == KindOK /\ ListOK /\ PlaceOK /\ BinsOK /\ SamplesOK /\ OldOK /\ SizeOK /\ NumbersOK

(* Sampling takes at least one element, and never all but those there are. *)
LEMMA Sampled ==
  ASSUME NEW n \in Nat, n >= 2
  PROVE  NSamples(n) \in Nat /\ 0 < NSamples(n) /\ NSamples(n) <= n
<1> DEFINE S == {5 + (n \div 10), 25}
<1>1. n \div 10 \in Nat /\ n = 10 * (n \div 10) + (n % 10) /\ n % 10 \in Nat
  OBVIOUS
<1>2. S \in SUBSET Nat /\ S # {}
  BY <1>1
<1>3. Min(S) \in S /\ Min(S) <= 5 + (n \div 10)
  BY <1>2, LeastNumber
<1>4. NSamples(n) = IF n <= 5 THEN n ELSE Min(S)
  BY DEF NSamples
<1> HIDE DEF S
<1>5. Min(S) \in Nat /\ Min(S) >= 5 /\ (n > 5 => Min(S) <= n)
  BY <1>1, <1>3 DEF S
<1> QED BY <1>4, <1>5

(* There is nothing in an empty list.                                      *)
LEMMA NoneInEmpty ==
  Range(<<>>) = {}
BY DEF Range

(* When nothing resizes the list, all its elements are in one place.       *)
LEMMA IdleElements ==
  ASSUME EvInv, pc = "idle"
  PROVE  /\ type = "CALQUE" => Elements = Here
         /\ type = "LINQUE" => Elements = Range(list)
BY NoneInEmpty DEF EvInv, SamplesOK, Elements, Here

(* cqsize tells whether there are elements.                                *)
LEMMA CqsizeIsNat ==
  ASSUME BinsOK
  PROVE  /\ cqsize \in Nat /\ (cqsize = 0 <=> Here = {})
         /\ nbins \in Nat /\ nbins >= 2 /\ base \in Nat /\ space \in Spaces
<1>1. IsFiniteSet(Here) /\ cqsize = Cardinality(Here)
  BY DEF BinsOK, CalOK, Here
<1>2. cqsize \in Nat /\ (cqsize = 0 <=> Here = {})
  BY <1>1, FS_CardinalityType, FS_EmptySet
<1> QED BY <1>2 DEF BinsOK, CalOK, Window

(* The list is part of the state that resizing does not touch.             *)
LEMMA NewElement ==
  ASSUME EvInv, pc = "idle", NEW a \in Activities, NEW t \in Times, NEW e,
         e = [act |-> a, time |-> t, no |-> serial]
  PROVE  /\ e \in Entry /\ e.time = t /\ e.no = serial /\ e.act = a
         /\ \A x \in Elements : x.no < e.no
<1>1. serial \in Nat /\ \A x \in Elements : x.no < serial
  BY DEF EvInv, NumbersOK
<1> QED BY <1>1 DEF Entry

(* An insertion into the calendar queue, which may grow it.                *)
LEMMA InsertCalendar ==
  ASSUME EvInv, NEW a \in Activities, NEW t \in Times, type = "CALQUE", EventListInsert(a, t)
  PROVE  /\ EvInv'
         /\ \E e \in Entry : /\ e = [act |-> a, time |-> t, no |-> serial]
                             /\ Elements' = Elements \cup {e}
<1>1. pc = "idle" /\ serial' = serial + 1 /\ list' = list /\ type' = type /\ autosize' = autosize
      /\ Put(space, [act |-> a, time |-> t, no |-> serial], TRUE)
      /\ Resizing(cqsize + 1 > thtop, 2 * nbins)
  BY DEF EventListInsert, kindVars
<1>2. PICK e : e = [act |-> a, time |-> t, no |-> serial]
  OBVIOUS
<1>3. e \in Entry /\ e.time = t /\ e.no = serial /\ e.act = a /\ \A x \in Elements : x.no < e.no
  BY <1>1, <1>2, NewElement
<1>4. BinsOK /\ KindOK /\ ListOK /\ PlaceOK /\ SamplesOK /\ OldOK /\ SizeOK /\ NumbersOK
  BY DEF EvInv
<1>5. Elements = Here /\ samples = <<>>
  BY <1>1, <1>4, IdleElements DEF SamplesOK
<1>6. PICK sp : sp = space
  OBVIOUS
<1>7. sp \in Spaces
  BY <1>4, <1>6, CqsizeIsNat
<1>8. BinsOK' /\ PutInto(sp, e)
  <2>1. Put(sp, e, TRUE)
    BY <1>1, <1>2, <1>6
  <2>2. Window(base, nbins) /\ binwidth \in Nat \ {0}
        /\ CalOK(sp, base, nbins, binwidth, cqsize, lastbin, lastprio, bintop)
    BY <1>4, <1>6 DEF BinsOK
  <2>3. \A x \in InArray(sp, base, nbins) : x.time = e.time => x.no < e.no
    BY <1>3, <1>5, <1>6 DEF Here
  <2> QED BY <1>3, <1>7, <2>1, <2>2, <2>3, PutBehind
<1>9. /\ base' = base /\ nbins' = nbins /\ cqsize' = cqsize + 1
      /\ \A x : x \in Here' <=> x = e \/ x \in Here
  BY <1>6, <1>8 DEF PutInto, Here
<1>10. cqsize \in Nat /\ nbins \in Nat /\ nbins >= 2 /\ CALQSZ \in Nat
  BY <1>4, CqsizeIsNat, EvlstAssumption
<1>11. samples' = <<>> /\ (pc' = "idle" \/ (pc' = "take" /\ newsize' = 2 * nbins))
  BY <1>1, <1>5 DEF Resizing, resizeVars
<1>12. Elements' = Here'
  BY <1>1, <1>11, NoneInEmpty DEF Elements, Here
<1>13. Elements' = Elements \cup {e}
  BY <1>5, <1>9, <1>12
<1>14. KindOK' /\ ListOK' /\ PlaceOK'
  BY <1>1, <1>4, <1>9, <1>11 DEF KindOK, ListOK, PlaceOK
<1>15. SamplesOK'
  BY <1>11 DEF SamplesOK, Sorted
<1>16. OldOK'
  BY <1>11 DEF OldOK
<1>17. SizeOK'
  <2>1. CASE pc' = "idle"
    <3>1. ~(autosize /\ cqsize + 1 > thtop /\ 2 * nbins <= 2 * CALQSZ)
      BY <1>1, <2>1 DEF Resizing
    <3>2. autosize /\ nbins <= CALQSZ => cqsize + 1 <= 2 * nbins
      BY <1>10, <3>1 DEF thtop
    <3> QED BY <1>1, <1>9, <2>1, <3>2 DEF SizeOK
  <2>2. CASE pc' = "take" /\ newsize' = 2 * nbins
    <3>1. autosize /\ cqsize + 1 > thtop /\ 2 * nbins <= 2 * CALQSZ
      BY <1>1, <2>2 DEF Resizing
    <3>2. cqsize <= 2 * nbins
      BY <1>1, <1>4, <1>10, <3>1 DEF SizeOK
    <3>3. total' = cqsize + 1
      BY <1>9, <1>10, <1>11 DEF total
    <3>4. Len(samples') = 0 /\ 0 < NSamples(total')
      <4>1. total' \in Nat /\ total' >= 2
        BY <1>10, <3>1, <3>3 DEF thtop
      <4> QED BY <1>11, <4>1, Sampled
    <3> QED BY <1>9, <1>10, <1>11, <2>2, <3>1, <3>2, <3>3, <3>4 DEF SizeOK
  <2> QED BY <1>11, <2>1, <2>2
<1>18. NumbersOK'
  <2>1. serial \in Nat /\ serial' = serial + 1 /\ e.no = serial
        /\ \A x \in Elements : x \in Entry /\ x.no \in Nat /\ x.no < serial
    BY <1>1, <1>3, <1>4, EntryType DEF NumbersOK
  <2>2. ASSUME NEW x \in Elements' PROVE x \in Entry /\ x.no < serial'
    BY <1>3, <1>13, <2>1
  <2> QED BY <2>1, <2>2 DEF NumbersOK
<1>19. EvInv'
  BY <1>8, <1>14, <1>15, <1>16, <1>17, <1>18 DEF EvInv
<1> QED BY <1>2, <1>3, <1>13, <1>19

(* BinsOK and all that belongs to the calendar queue alone.                *)
LEMMA ListKeepsBins ==
  ASSUME EvInv, UNCHANGED <<binVars, pc, resizeVars, kindVars>>
  PROVE  KindOK' /\ PlaceOK' /\ BinsOK' /\ SamplesOK' /\ OldOK' /\ SizeOK'
<1>1. UNCHANGED <<space, base, nbins, binwidth, cqsize, lastbin, bintop, lastprio, pc,
                  newsize, samples, savelastprio, old, type, autosize>>
  BY DEF binVars, resizeVars, kindVars
<1>2. Here' = Here /\ There' = There /\ total' = total
  BY <1>1 DEF Here, There, total
<1>3. KindOK' /\ PlaceOK' /\ BinsOK'
  BY <1>1 DEF EvInv, KindOK, PlaceOK, BinsOK
<1>4. SamplesOK'
  BY <1>1, <1>2 DEF EvInv, SamplesOK
<1>5. OldOK'
  BY <1>1, <1>2 DEF EvInv, OldOK
<1>6. SizeOK'
  BY <1>1, <1>2 DEF EvInv, SizeOK
<1> QED BY <1>3, <1>4, <1>5, <1>6

(* An insertion into the linear list.                                      *)
LEMMA InsertLinear ==
  ASSUME EvInv, NEW a \in Activities, NEW t \in Times, type = "LINQUE", EventListInsert(a, t)
  PROVE  /\ EvInv'
         /\ \E e \in Entry : /\ e = [act |-> a, time |-> t, no |-> serial]
                             /\ Elements' = Elements \cup {e}
<1>1. /\ pc = "idle" /\ serial' = serial + 1 /\ UNCHANGED <<binVars, pc, resizeVars, kindVars>>
      /\ list' = InsertAt(list, Place(list, t, TRUE), [act |-> a, time |-> t, no |-> serial])
  BY DEF EventListInsert
<1>2. PICK e : e = [act |-> a, time |-> t, no |-> serial]
  OBVIOUS
<1>3. e \in Entry /\ e.time = t /\ e.no = serial /\ e.act = a /\ \A x \in Elements : x.no < e.no
  BY <1>1, <1>2, NewElement
<1>4. KindOK' /\ PlaceOK' /\ BinsOK' /\ SamplesOK' /\ OldOK' /\ SizeOK'
  BY <1>1, ListKeepsBins
<1>5. PICK s : s = list
  OBVIOUS
<1>6. s \in Seq(Entry) /\ Sorted(s) /\ Elements = Range(s)
  BY <1>1, <1>5, IdleElements DEF EvInv, ListOK
<1>7. PICK p : p = Place(s, e.time, TRUE)
  OBVIOUS
<1>8. \A k \in 1..Len(s) : s[k].time = e.time => s[k].no < e.no
  <2>1. \A k \in 1..Len(s) : s[k] \in Elements
    BY <1>6 DEF Range
  <2> QED BY <1>3, <2>1
<1>9. Fits(s, p, e)
  BY <1>3, <1>6, <1>7, <1>8, PlaceFits
<1>10. list' = InsertAt(s, p, e)
  BY <1>1, <1>2, <1>3, <1>5, <1>7
<1>11. list' \in Seq(Entry) /\ Sorted(list') /\ Range(list') = Elements \cup {e}
  BY <1>3, <1>6, <1>9, <1>10, Inserted
<1>12. Elements' = Elements \cup {e}
  BY <1>1, <1>11 DEF Elements, kindVars
<1>13. NumbersOK'
  <2>1. serial \in Nat /\ serial' = serial + 1 /\ e.no = serial
        /\ \A x \in Elements : x \in Entry /\ x.no \in Nat /\ x.no < serial
    BY <1>1, <1>3, EntryType DEF EvInv, NumbersOK
  <2>2. ASSUME NEW x \in Elements' PROVE x \in Entry /\ x.no < serial'
    BY <1>3, <1>12, <2>1
  <2> QED BY <2>1, <2>2 DEF NumbersOK
<1>14. ListOK'
  BY <1>11 DEF ListOK
<1>15. EvInv'
  BY <1>4, <1>13, <1>14 DEF EvInv
<1> QED BY <1>2, <1>3, <1>12, <1>15

(* Taking out elements keeps the numbers.                                  *)
LEMMA FewerNumbers ==
  ASSUME EvInv, serial' = serial, \A x \in Elements' : x \in Elements
  PROVE  NumbersOK'
BY DEF EvInv, NumbersOK

(* The end of an operation of the idle calendar queue that may shrink it.  *)
LEMMA Shrinking ==
  ASSUME EvInv, pc = "idle", type = "CALQUE", UNCHANGED <<kindVars, list, serial>>,
         base' = base, nbins' = nbins, BinsOK', cqsize # 0, cqsize' = cqsize - 1,
         \A x : x \in Here' => x \in Here,
         NEW full, Resizing(full, nbins \div 2),
         full => cqsize - 1 < thbot
  PROVE  EvInv' /\ Elements' = Here'
<1>1. UNCHANGED <<type, autosize, list, serial>>
  BY DEF kindVars
<1>2. BinsOK /\ KindOK /\ ListOK /\ PlaceOK /\ SamplesOK /\ OldOK /\ SizeOK /\ NumbersOK
  BY DEF EvInv
<1>3. Elements = Here /\ samples = <<>>
  BY <1>2, IdleElements DEF SamplesOK
<1>4. cqsize \in Nat /\ nbins \in Nat /\ nbins >= 2 /\ CALQSZ \in Nat
  BY <1>2, CqsizeIsNat, EvlstAssumption
<1>5. samples' = <<>> /\ (pc' = "idle" \/ (pc' = "take" /\ newsize' = nbins \div 2))
  BY <1>3 DEF Resizing, resizeVars
<1>6. Elements' = Here'
  BY <1>1, <1>5, NoneInEmpty DEF Elements, Here
<1>7. KindOK' /\ ListOK' /\ PlaceOK'
  BY <1>1, <1>2, <1>5 DEF KindOK, ListOK, PlaceOK
<1>8. SamplesOK' /\ OldOK'
  BY <1>5 DEF SamplesOK, OldOK, Sorted
<1>9. NumbersOK'
  BY <1>1, <1>3, <1>6, FewerNumbers
<1>10. SizeOK'
  <2>1. CASE pc' = "idle"
    <3>1. autosize /\ nbins <= CALQSZ => cqsize' <= 2 * nbins
      BY <1>2, <1>4 DEF SizeOK
    <3> QED BY <1>1, <2>1, <3>1 DEF SizeOK
  <2>2. CASE pc' = "take" /\ newsize' = nbins \div 2
    <3>1. full
      BY <2>2 DEF Resizing
    <3> DEFINE m == nbins \div 2
    <3>2. m \in Nat /\ 2 * m <= nbins /\ cqsize' < m - 1 /\ newsize' = m
      BY <1>4, <2>2, <3>1 DEF thbot
    <3> HIDE DEF m
    <3>3. nbins <= 2 * CALQSZ
      BY <1>2 DEF PlaceOK
    <3>4. total' = cqsize' /\ Len(samples') = 0 /\ cqsize' \in Nat
      BY <1>4, <1>5 DEF total
    <3>5. total' >= 2 => 0 < NSamples(total')
      BY <3>4, Sampled
    <3> QED BY <1>4, <1>5, <2>2, <3>2, <3>3, <3>4, <3>5 DEF SizeOK
  <2> QED BY <1>5, <2>1, <2>2
<1> QED BY <1>6, <1>7, <1>8, <1>9, <1>10 DEF EvInv

(* An element of the calendar queue is deleted, and the first is found.    *)
LEMMA DeleteStep ==
  ASSUME BinsOK, NEW e \in Here, NEW k \in 1..Len(space[base + BinOf(e.time)]),
         space[base + BinOf(e.time)][k] = e,
         NEW sp, sp = [space EXCEPT ![base + BinOf(e.time)] = RemoveAt(@, k)],
         space' = sp, cqsize' = cqsize - 1, FindHead(sp), UNCHANGED <<base, nbins, binwidth>>
  PROVE  BinsOK' /\ \A x : x \in Here' <=> x \in Here /\ x # e
<1>1. /\ Window(base, nbins) /\ binwidth \in Nat \ {0} /\ space \in Spaces
      /\ Cal(space, base, nbins, binwidth) /\ IsFiniteSet(Here) /\ cqsize = Cardinality(Here)
      /\ HeadAt(space, base, nbins, binwidth, lastbin, lastprio, bintop)
  BY DEF BinsOK, CalOK, Here
<1> DEFINE i == Bin(e.time, nbins, binwidth)
<1>2. e.time \in Nat /\ i \in 0..(nbins - 1)
  BY <1>1, InOwnBin DEF Here
<1>3. BinOf(e.time) = i
  BY <1>2, BinOfTime
<1>4. sp = SetBin(space, base, i, RemoveAt(space[base + i], k))
  BY <1>3 DEF SetBin
<1>16. k \in 1..Len(space[base + i]) /\ space[base + i][k] = e
  BY <1>3
<1> HIDE DEF i
<1>17. Gives(space, base, nbins, binwidth, i, k, e, sp)
  BY <1>1, <1>2, <1>4, <1>16 DEF Gives
<1>5. /\ sp \in Spaces
      /\ Cal(sp, base, nbins, binwidth)
      /\ \A x : x \in InArray(sp, base, nbins) <=> x \in Here /\ x # e
  <2>1. /\ sp \in Spaces
        /\ Cal(sp, base, nbins, binwidth)
        /\ \A x : x \in InArray(sp, base, nbins) <=> x \in InArray(space, base, nbins) /\ x # e
        /\ \A j \in 0..(3 * CALQSZ - 1) : j \notin base..(base + nbins - 1) => sp[j] = space[j]
    BY ONLY <1>17, TakeCal
  <2> QED BY <2>1 DEF Here
<1>6. IsFiniteSet(InArray(sp, base, nbins)) /\ cqsize' = Cardinality(InArray(sp, base, nbins))
  <2>1. InArray(sp, base, nbins) = Here \ {e}
    BY <1>5
  <2> QED BY <1>1, <2>1, FS_RemoveElement
<1>7. PICK h : h = space[base + lastbin][1]
  OBVIOUS
<1>8. h.time \in Nat /\ lastprio = h.time /\ lastbin = Bin(h.time, nbins, binwidth)
  BY <1>1, <1>7, HeadFacts
<1>9. \A x \in InArray(sp, base, nbins) : x.time >= h.time
  <2>1. ASSUME NEW x \in InArray(sp, base, nbins) PROVE x.time >= h.time
    <3>1. x.time \in Nat /\ x \in Here
      BY <1>1, <1>5, InOwnBin DEF Here
    <3>2. x = h \/ Before(h, x)
      BY <1>1, <1>7, <3>1 DEF HeadAt, Here
    <3> QED BY <1>8, <3>1, <3>2 DEF Before
  <2> QED BY <2>1
<1>10. bintop \in Int /\ Top(h.time, binwidth, bintop)
  BY <1>1, <1>8 DEF HeadAt
<1>11. InArray(sp, base, nbins) # {} => HeadAt(sp, base, nbins, binwidth, lastbin', lastprio', bintop')
  BY <1>1, <1>5, <1>8, <1>9, <1>10, FindHeadStep
<1>12. CalOK(space', base, nbins, binwidth, cqsize', lastbin', lastprio', bintop')
  BY <1>5, <1>6, <1>11 DEF CalOK
<1>13. base' = base /\ nbins' = nbins /\ binwidth' = binwidth
  OBVIOUS
<1>14. BinsOK'
  BY <1>1, <1>12, <1>13 DEF BinsOK
<1>15. \A x : x \in Here' <=> x \in Here /\ x # e
  BY <1>5, <1>13 DEF Here
<1> QED BY <1>14, <1>15

(* A deletion takes out the element, in both implementations.              *)
LEMMA DeleteElement ==
  ASSUME EvInv, NEW e \in Elements, EventListDelete(e)
  PROVE  EvInv' /\ Elements' = Elements \ {e}
<1>1. pc = "idle" /\ UNCHANGED <<kindVars, serial, returned>> /\ type \in {"CALQUE", "LINQUE"}
  BY DEF EventListDelete, EvInv, KindOK
<1>2. CASE type = "CALQUE"
  <2>1. PICK k \in 1..Len(space[base + BinOf(e.time)]) :
          /\ space[base + BinOf(e.time)][k] = e
          /\ space' = [space EXCEPT ![base + BinOf(e.time)] = RemoveAt(@, k)]
          /\ cqsize' = cqsize - 1
          /\ FindHead([space EXCEPT ![base + BinOf(e.time)] = RemoveAt(@, k)])
          /\ Resizing(cqsize - 1 < thbot, nbins \div 2)
          /\ UNCHANGED <<base, nbins, binwidth, list>>
    BY <1>2 DEF EventListDelete
  <2>2. PICK sp : sp = [space EXCEPT ![base + BinOf(e.time)] = RemoveAt(@, k)]
    OBVIOUS
  <2>3. BinsOK /\ Elements = Here
    BY <1>1, <1>2, IdleElements DEF EvInv
  <2>4. BinsOK' /\ \A x : x \in Here' <=> x \in Here /\ x # e
    <3>1. space' = sp /\ FindHead(sp)
      BY <2>1, <2>2
    <3>2. UNCHANGED <<base, nbins, binwidth>>
      BY <2>1
    <3>3. e \in Here
      BY <2>3
    <3> QED BY <2>1, <2>2, <2>3, <3>1, <3>2, <3>3, DeleteStep
  <2>5. cqsize # 0
    BY <2>3, CqsizeIsNat
  <2>6. PICK full : full = (cqsize - 1 < thbot)
    OBVIOUS
  <2>7. Resizing(full, nbins \div 2) /\ (full => cqsize - 1 < thbot)
    BY <2>1, <2>6
  <2>8. base' = base /\ nbins' = nbins /\ UNCHANGED <<kindVars, list, serial>>
    BY <1>1, <2>1
  <2>9. EvInv' /\ Elements' = Here'
    BY <1>1, <1>2, <2>1, <2>4, <2>5, <2>7, <2>8, Shrinking
  <2> QED BY <2>3, <2>4, <2>9
<1>3. CASE type = "LINQUE"
  <2>1. PICK k \in 1..Len(list) : /\ list[k] = e
                                  /\ list' = RemoveAt(list, k)
                                  /\ UNCHANGED <<binVars, pc, resizeVars>>
    BY <1>3 DEF EventListDelete
  <2>2. KindOK' /\ PlaceOK' /\ BinsOK' /\ SamplesOK' /\ OldOK' /\ SizeOK'
    BY <1>1, <2>1, ListKeepsBins
  <2>3. list \in Seq(Entry) /\ Sorted(list) /\ Elements = Range(list)
    BY <1>1, <1>3, IdleElements DEF EvInv, ListOK
  <2>4. list' \in Seq(Entry) /\ Sorted(list') /\ Range(list') = Elements \ {e}
    BY <2>1, <2>3, Removed
  <2>5. Elements' = Elements \ {e}
    BY <1>1, <1>3, <2>4 DEF Elements, kindVars
  <2>6. NumbersOK'
    BY <1>1, <2>5, FewerNumbers
  <2> QED BY <2>2, <2>4, <2>5, <2>6 DEF EvInv, ListOK
<1> QED BY <1>1, <1>2, <1>3

(* The first of all elements is taken, if there is one.                    *)
LEMMA HeadTaken ==
  ASSUME EvInv, EventListGetHead
  PROVE  /\ EvInv'
         /\ \/ Elements = {} /\ returned' = NULL /\ Elements' = {}
            \/ \E e \in Elements : /\ \A f \in Elements \ {e} : Before(e, f)
                                   /\ returned' = e
                                   /\ Elements' = Elements \ {e}
<1>1. pc = "idle" /\ UNCHANGED <<kindVars, serial>> /\ type \in {"CALQUE", "LINQUE"}
      /\ EventListSize = (IF type = "CALQUE" THEN cqsize ELSE Len(list))
  BY DEF EventListGetHead, EvInv, KindOK, EventListSize
<1>2. list \in Seq(Entry) /\ Sorted(list) /\ BinsOK
  BY DEF EvInv, ListOK
<1>3. CASE EventListSize = 0
  <2>1. returned' = NULL /\ UNCHANGED <<binVars, list, pc, resizeVars, kindVars, serial>>
    BY <1>1, <1>3 DEF EventListGetHead
  <2>2. KindOK' /\ PlaceOK' /\ BinsOK' /\ SamplesOK' /\ OldOK' /\ SizeOK'
    BY <2>1, ListKeepsBins
  <2>3. Elements = {}
    <3>1. CASE type = "CALQUE"
      BY <1>1, <1>2, <1>3, <3>1, IdleElements, CqsizeIsNat
    <3>2. CASE type = "LINQUE"
      <4>1. list = <<>>
        BY <1>1, <1>2, <1>3, <3>2
      <4> QED BY <1>1, <3>2, <4>1, IdleElements, NoneInEmpty
    <3> QED BY <1>1, <3>1, <3>2
  <2>4. Elements' = Elements
    BY <2>1 DEF Elements, binVars, resizeVars, kindVars, InArray
  <2>5. NumbersOK'
    BY <2>1, <2>4, FewerNumbers
  <2> QED BY <1>2, <2>1, <2>2, <2>3, <2>4, <2>5 DEF EvInv, ListOK
<1>4. CASE EventListSize # 0 /\ type = "CALQUE"
  <2>1. returned' = NextElement /\ TakeHead /\ list' = list /\ cqsize # 0
        /\ Resizing(cqsize > 1 /\ cqsize - 1 < thbot, nbins \div 2)
    BY <1>1, <1>4 DEF EventListGetHead
  <2>2. Elements = Here
    BY <1>1, <1>4, IdleElements
  <2>3. /\ BinsOK'
        /\ UNCHANGED <<base, nbins, binwidth>>
        /\ NextElement \in Here
        /\ \A x \in Here : x = NextElement \/ Before(NextElement, x)
        /\ \A x : x \in Here' <=> x \in Here /\ x # NextElement
        /\ cqsize' = cqsize - 1
    BY <1>2, <2>1, TakeStep
  <2>4. PICK full : full = (cqsize > 1 /\ cqsize - 1 < thbot)
    OBVIOUS
  <2>5. Resizing(full, nbins \div 2) /\ (full => cqsize - 1 < thbot)
    BY <2>1, <2>4
  <2>6. base' = base /\ nbins' = nbins /\ UNCHANGED <<kindVars, list, serial>>
    BY <1>1, <2>1, <2>3
  <2>7. EvInv' /\ Elements' = Here'
    BY <1>1, <1>4, <2>1, <2>3, <2>5, <2>6, Shrinking
  <2>8. Elements' = Elements \ {NextElement}
    BY <2>2, <2>3, <2>7
  <2> QED BY <2>1, <2>2, <2>3, <2>7, <2>8
<1>5. CASE EventListSize # 0 /\ type = "LINQUE"
  <2>1. returned' = list[1] /\ list' = Tail(list) /\ UNCHANGED <<binVars, pc, resizeVars, kindVars, serial>>
        /\ list # <<>> /\ 1 \in 1..Len(list)
    BY <1>1, <1>2, <1>5 DEF EventListGetHead
  <2>2. KindOK' /\ PlaceOK' /\ BinsOK' /\ SamplesOK' /\ OldOK' /\ SizeOK'
    BY <2>1, ListKeepsBins
  <2>3. Elements = Range(list)
    BY <1>1, <1>5, IdleElements
  <2>4. list' = RemoveAt(list, 1)
    BY <1>2, <2>1, TailIsRemoval
  <2>5. list' \in Seq(Entry) /\ Sorted(list') /\ Range(list') = Elements \ {list[1]}
    BY <1>2, <2>1, <2>3, <2>4, Removed
  <2>6. Elements' = Elements \ {list[1]}
    BY <1>1, <1>5, <2>5 DEF Elements, kindVars
  <2>7. NumbersOK'
    BY <2>1, <2>6, FewerNumbers
  <2>8. \A f \in Elements \ {list[1]} : Before(list[1], f)
    BY <1>2, <2>1, <2>3 DEF Sorted, Range
  <2>9. list[1] \in Elements
    BY <2>1, <2>3 DEF Range
  <2> QED BY <2>1, <2>2, <2>5, <2>6, <2>7, <2>8, <2>9 DEF EvInv, ListOK
<1> QED BY <1>1, <1>3, <1>4, <1>5

(* CalQueInit leaves empty bins.                                           *)
LEMMA InitStep ==
  ASSUME NEW sp \in Spaces, NEW qbase, NEW bins, Window(qbase, bins), NEW width \in Nat \ {0},
         NEW startprio, CalQueInit(sp, qbase, bins, width, startprio)
  PROVE  /\ BinsOK' /\ Here' = {} /\ space' \in Spaces
         /\ base' = qbase /\ nbins' = bins /\ cqsize' = 0
         /\ \A k \in 0..(3 * CALQSZ - 1) : k \notin qbase..(qbase + bins - 1) => space'[k] = sp[k]
<1>1. /\ base' = qbase /\ nbins' = bins /\ binwidth' = width /\ cqsize' = 0
      /\ space' = [k \in DOMAIN sp |-> IF k \in qbase..(qbase + bins - 1) THEN <<>> ELSE sp[k]]
  BY DEF CalQueInit
<1>2. DOMAIN sp = 0..(3 * CALQSZ - 1) /\ qbase \in Nat /\ bins \in Nat
  BY DEF Spaces, Window
<1>3. space' \in Spaces
  BY <1>1, <1>2 DEF Spaces
<1>4. \A k \in 0..(3 * CALQSZ - 1) : k \notin qbase..(qbase + bins - 1) => space'[k] = sp[k]
  BY <1>1, <1>2
<1>5. \A i \in 0..(bins - 1) : space'[qbase + i] = <<>>
  <2>1. \A i \in 0..(bins - 1) : qbase + i \in 0..(3 * CALQSZ - 1) /\ qbase + i \in qbase..(qbase + bins - 1)
    BY Cells
  <2> QED BY <1>1, <1>2, <2>1
<1>6. Cal(space', qbase, bins, width)
  BY <1>5, NoneInEmpty DEF Cal, Sorted
<1>7. InArray(space', qbase, bins) = {}
  <2>1. PICK sp2 : sp2 = space'
    OBVIOUS
  <2>2. \A x : x \notin InArray(sp2, qbase, bins)
    BY <1>3, <1>5, <2>1, InCells, NoneInEmpty
  <2> QED BY <2>1, <2>2
<1>8. CalOK(space', qbase, bins, width, 0, lastbin', lastprio', bintop')
  BY <1>3, <1>6, <1>7, FS_EmptySet DEF CalOK
<1>9. BinsOK'
  BY <1>1, <1>8 DEF BinsOK
<1>10. Here' = {}
  BY <1>1, <1>7 DEF Here
<1> QED BY <1>1, <1>3, <1>4, <1>9, <1>10

(* EventListInit leaves an empty list.                                     *)
LEMMA ListEmptied ==
  ASSUME EvInv, EventListInit
  PROVE  EvInv' /\ Elements' = {} /\ UNCHANGED <<serial, returned>>
<1>1. pc = "idle" /\ UNCHANGED <<kindVars, pc, resizeVars, serial, returned>> /\ type \in {"CALQUE", "LINQUE"}
      /\ samples = <<>> /\ samples' = <<>> /\ pc' = "idle" /\ type' = type /\ autosize' = autosize
  BY DEF EventListInit, EvInv, KindOK, SamplesOK, kindVars, resizeVars
<1>2. CASE type = "CALQUE"
  <2>1. PICK sp : sp = space
    OBVIOUS
  <2>2. PICK bins : bins = nbins
    OBVIOUS
  <2>3. PICK width : width = binwidth
    OBVIOUS
  <2>4. CalQueInit(sp, 0, bins, width, 0) /\ list' = list
    BY <1>2, <2>1, <2>2, <2>3 DEF EventListInit
  <2>5. sp \in Spaces /\ Window(0, bins) /\ width \in Nat \ {0} /\ bins <= 2 * CALQSZ
    <3>1. Window(base, nbins) /\ binwidth \in Nat \ {0} /\ nbins <= 2 * CALQSZ /\ space \in Spaces
      BY CqsizeIsNat DEF EvInv, BinsOK, PlaceOK
    <3> QED BY <2>1, <2>2, <2>3, <3>1, EvlstAssumption DEF Window
  <2>6. BinsOK' /\ Here' = {} /\ base' = 0 /\ nbins' = bins /\ cqsize' = 0
    BY <2>4, <2>5, InitStep
  <2>7. Elements' = {}
    BY <1>1, <1>2, <2>6, NoneInEmpty DEF Elements, Here
  <2>8. KindOK' /\ ListOK' /\ PlaceOK'
    BY <1>1, <2>4, <2>5, <2>6 DEF EvInv, KindOK, ListOK, PlaceOK
  <2>9. SamplesOK' /\ OldOK'
    BY <1>1 DEF SamplesOK, OldOK, Sorted
  <2>10. SizeOK'
    <3>1. 0 <= 2 * nbins'
      BY <2>5, <2>6 DEF Window
    <3> QED BY <1>1, <2>6, <3>1 DEF SizeOK
  <2>11. NumbersOK'
    BY <1>1, <2>7, FewerNumbers
  <2> QED BY <1>1, <2>6, <2>7, <2>8, <2>9, <2>10, <2>11 DEF EvInv
<1>3. CASE type = "LINQUE"
  <2>1. list' = <<>> /\ UNCHANGED binVars
    BY <1>3 DEF EventListInit
  <2>2. KindOK' /\ PlaceOK' /\ BinsOK' /\ SamplesOK' /\ OldOK' /\ SizeOK'
    BY <1>1, <2>1, ListKeepsBins
  <2>3. list' \in Seq(Entry) /\ Sorted(list')
    BY <2>1 DEF Sorted
  <2>4. Elements' = {}
    BY <1>1, <1>3, <2>1, NoneInEmpty DEF Elements
  <2>5. NumbersOK'
    BY <1>1, <2>4, FewerNumbers
  <2> QED BY <1>1, <2>2, <2>3, <2>4, <2>5 DEF EvInv, ListOK
<1> QED BY <1>1, <1>2, <1>3

(* A sequence with an element appended.                                    *)
LEMMA Appended ==
  ASSUME NEW S, NEW s \in Seq(S), NEW e \in S
  PROVE  /\ Append(s, e) \in Seq(S) /\ Len(Append(s, e)) = Len(s) + 1
         /\ \A k \in 1..Len(s) : Append(s, e)[k] = s[k]
         /\ Append(s, e)[Len(s) + 1] = e
         /\ Range(Append(s, e)) = Range(s) \cup {e}
<1>1. /\ Append(s, e) \in Seq(S) /\ Len(Append(s, e)) = Len(s) + 1
      /\ \A k \in 1..Len(s) : Append(s, e)[k] = s[k]
      /\ Append(s, e)[Len(s) + 1] = e
  OBVIOUS
<1>2. PICK t \in Seq(S) : t = Append(s, e)
  BY <1>1
<1>3. /\ Len(t) = Len(s) + 1 /\ Len(s) \in Nat
      /\ \A k \in 1..Len(s) : t[k] = s[k]
      /\ t[Len(s) + 1] = e
  BY <1>1, <1>2
<1>4. Range(t) = {t[k] : k \in 1..(Len(s) + 1)} /\ Range(s) = {s[k] : k \in 1..Len(s)}
  BY <1>3 DEF Range
<1>5. \A x : x \in Range(t) <=> x \in Range(s) \cup {e}
  BY <1>3, <1>4
<1> QED BY <1>1, <1>2, <1>5

(* A sequence without its last element.                                    *)
LEMMA Shortened ==
  ASSUME NEW S, NEW s \in Seq(S), s # <<>>
  PROVE  /\ Front(s) \in Seq(S) /\ Len(Front(s)) = Len(s) - 1
         /\ \A k \in 1..(Len(s) - 1) : Front(s)[k] = s[k]
         /\ Last(s) = s[Len(s)] /\ Last(s) \in S /\ Len(s) \in 1..Len(s)
         /\ Range(s) = Range(Front(s)) \cup {Last(s)}
<1>1. Len(s) \in Nat /\ Len(s) \in 1..Len(s) /\ Last(s) = s[Len(s)] /\ Last(s) \in S
  BY DEF Last
<1>2. PICK t : t = Front(s)
  OBVIOUS
<1>3. t \in Seq(S) /\ Len(t) = Len(s) - 1 /\ \A k \in 1..(Len(s) - 1) : t[k] = s[k]
  <2> DEFINE m == Len(s) - 1
  <2>1. m \in Int /\ 1 \in Int /\ \A k \in 1..m : s[k] \in S
    BY <1>1
  <2>5. m \in Nat
    BY <1>1
  <2>3. t = SubSeq(s, 1, m)
    BY <1>2 DEF Front
  <2> HIDE DEF m
  <2>2. m - 1 + 1 = m /\ (IF 1 <= m THEN m - 1 + 1 ELSE 0) = m /\ \A k \in 1..m : 1 + k - 1 = k
    BY <2>5
  <2>4. t \in Seq(S) /\ Len(t) = m /\ \A k \in 1..m : t[k] = s[k]
    BY <2>1, <2>2, <2>3, SubSeqProperties
  <2> QED BY <2>4 DEF m
<1>4. Range(t) = {t[k] : k \in 1..(Len(s) - 1)} /\ Range(s) = {s[k] : k \in 1..Len(s)}
  BY <1>3 DEF Range
<1>5. \A x : x \in Range(s) <=> x \in Range(t) \cup {s[Len(s)]}
  BY <1>1, <1>3, <1>4
<1> QED BY <1>1, <1>2, <1>3, <1>5

(* The next sample is behind the others and before all that is left.       *)
LEMMA SampleTaken ==
  ASSUME EvInv, TakeSample
  PROVE  EvInv' /\ UNCHANGED <<Elements, serial, returned>>
<1>1. /\ pc = "take" /\ total >= 2 /\ TakeHead
      /\ samples' = Append(samples, NextElement)
      /\ pc' = (IF Len(samples) + 1 = NSamples(total) THEN "put" ELSE "take")
      /\ UNCHANGED <<newsize, old, type, autosize, list, serial, returned>>
  BY DEF TakeSample, restVars, kindVars
<1>2. BinsOK /\ KindOK /\ ListOK /\ PlaceOK /\ SamplesOK /\ OldOK /\ SizeOK /\ NumbersOK
  BY DEF EvInv
<1>3. type = "CALQUE" /\ pc' # "idle" /\ pc' # "copy"
  BY <1>1, <1>2 DEF KindOK
<1>4. cqsize \in Nat /\ nbins \in Nat /\ samples \in Seq(Entry) /\ Len(samples) \in Nat
      /\ total = cqsize + Len(samples) /\ total \in Nat /\ Sorted(samples)
      /\ \A k \in 1..Len(samples) : \A x \in Here : Before(samples[k], x)
  BY <1>2, CqsizeIsNat DEF SamplesOK, total
<1>5. Len(samples) < NSamples(total) /\ NSamples(total) \in Nat /\ NSamples(total) <= total
  BY <1>1, <1>2, <1>4, Sampled DEF SizeOK
<1>6. cqsize # 0
  BY <1>4, <1>5
<1>7. /\ BinsOK'
      /\ UNCHANGED <<base, nbins, binwidth>>
      /\ NextElement \in Here /\ NextElement \in Entry
      /\ \A x \in Here : x = NextElement \/ Before(NextElement, x)
      /\ \A x : x \in Here' <=> x \in Here /\ x # NextElement
      /\ cqsize' = cqsize - 1
  BY <1>1, <1>2, <1>6, TakeStep
<1>8. PICK h : h = NextElement
  OBVIOUS
<1>9. PICK s : s = samples
  OBVIOUS
<1>10. h \in Entry /\ s \in Seq(Entry) /\ samples' = Append(s, h)
  BY <1>1, <1>4, <1>7, <1>8, <1>9
<1>11. /\ samples' \in Seq(Entry) /\ Len(samples') = Len(samples) + 1
       /\ \A k \in 1..Len(samples) : samples'[k] = samples[k]
       /\ samples'[Len(samples) + 1] = h
       /\ Range(samples') = Range(samples) \cup {h}
  BY <1>9, <1>10, Appended
<1>12. Sorted(samples')
  <2>1. \A k \in 1..Len(samples) : Before(samples[k], h)
    BY <1>4, <1>7, <1>8
  <2> QED BY <1>4, <1>11, <2>1 DEF Sorted
<1>13. \A k \in 1..Len(samples') : \A x \in Here' : Before(samples'[k], x)
  <2>1. ASSUME NEW k \in 1..Len(samples'), NEW x \in Here' PROVE Before(samples'[k], x)
    <3>1. x \in Here /\ Before(h, x)
      BY <1>7, <1>8
    <3>2. CASE k \in 1..Len(samples)
      BY <1>4, <1>11, <3>1, <3>2
    <3>3. CASE k \notin 1..Len(samples)
      <4>1. k = Len(samples) + 1
        BY <1>4, <1>11, <3>3
      <4> QED BY <1>11, <3>1, <4>1
    <3> QED BY <3>2, <3>3
  <2> QED BY <2>1
<1>14. SamplesOK'
  BY <1>3, <1>11, <1>12, <1>13 DEF SamplesOK
<1>15. Elements' = Elements
  <2>1. Elements = Here \cup Range(samples)
    BY <1>1, <1>3 DEF Elements, Here
  <2>2. Elements' = Here' \cup Range(samples')
    BY <1>1, <1>3 DEF Elements, Here
  <2>3. \A x : x \in Here \cup Range(samples) <=> x \in Here' \cup Range(samples')
    BY <1>7, <1>8, <1>11
  <2> QED BY <2>1, <2>2, <2>3
<1>16. KindOK' /\ ListOK' /\ PlaceOK' /\ OldOK'
  BY <1>1, <1>2, <1>3, <1>7 DEF KindOK, ListOK, PlaceOK, OldOK
<1>17. SizeOK'
  <2>1. total' = total
    BY <1>4, <1>7, <1>11 DEF total
  <2>2. pc' = "take" => Len(samples') < NSamples(total')
    BY <1>1, <1>4, <1>5, <1>11, <2>1
  <2>3. newsize \in 2..(2 * CALQSZ) /\ nbins + newsize <= 3 * CALQSZ /\ total <= 2 * newsize
    BY <1>1, <1>2 DEF SizeOK
  <2> QED BY <1>1, <1>3, <1>7, <2>1, <2>2, <2>3 DEF SizeOK
<1>18. NumbersOK'
  BY <1>1, <1>15, FewerNumbers
<1> QED BY <1>1, <1>7, <1>14, <1>15, <1>16, <1>17, <1>18 DEF EvInv

(* A sample goes back before all that is in the bins.                      *)
LEMMA SamplePut ==
  ASSUME EvInv, PutSample
  PROVE  EvInv' /\ UNCHANGED <<Elements, serial, returned>>
<1>1. /\ pc = "put" /\ samples # <<>> /\ Put(space, Last(samples), FALSE)
      /\ samples' = Front(samples)
      /\ UNCHANGED <<pc, newsize, old, type, autosize, list, serial, returned>>
  BY DEF PutSample, restVars, kindVars
<1>2. BinsOK /\ KindOK /\ ListOK /\ PlaceOK /\ SamplesOK /\ OldOK /\ SizeOK /\ NumbersOK
  BY DEF EvInv
<1>3. type = "CALQUE" /\ pc' = "put"
  BY <1>1, <1>2 DEF KindOK
<1>4. samples \in Seq(Entry) /\ Sorted(samples)
      /\ \A k \in 1..Len(samples) : \A x \in Here : Before(samples[k], x)
  BY <1>2 DEF SamplesOK
<1>5. PICK s : s = samples
  OBVIOUS
<1>6. PICK e : e = Last(s)
  OBVIOUS
<1>7. PICK sp : sp = space
  OBVIOUS
<1>8. /\ samples' \in Seq(Entry) /\ Len(samples') = Len(s) - 1 /\ Len(s) \in 1..Len(s)
      /\ \A k \in 1..(Len(s) - 1) : samples'[k] = s[k]
      /\ e = s[Len(s)] /\ e \in Entry
      /\ Range(s) = Range(samples') \cup {e}
  BY <1>1, <1>4, <1>5, <1>6, Shortened
<1>9. BinsOK' /\ PutInto(sp, e)
  <2>1. Put(sp, e, FALSE)
    BY <1>1, <1>5, <1>6, <1>7
  <2>2. Window(base, nbins) /\ binwidth \in Nat \ {0} /\ sp \in Spaces
        /\ CalOK(sp, base, nbins, binwidth, cqsize, lastbin, lastprio, bintop)
    BY <1>2, <1>7 DEF BinsOK, CalOK
  <2>3. \A x \in InArray(sp, base, nbins) : Before(e, x)
    BY <1>4, <1>5, <1>7, <1>8 DEF Here
  <2> QED BY <1>8, <2>1, <2>2, <2>3, PutFront
<1>10. /\ base' = base /\ nbins' = nbins /\ cqsize' = cqsize + 1 /\ cqsize \in Nat
       /\ \A x : x \in Here' <=> x = e \/ x \in Here
  BY <1>7, <1>9 DEF PutInto, Here
<1>11. Len(s) \in Nat /\ Len(s) > 0
  BY <1>8
<1>12. Sorted(samples')
  BY <1>4, <1>5, <1>8, <1>11 DEF Sorted
<1>13. \A k \in 1..Len(samples') : \A x \in Here' : Before(samples'[k], x)
  <2>1. ASSUME NEW k \in 1..Len(samples'), NEW x \in Here' PROVE Before(samples'[k], x)
    <3>1. k \in 1..Len(s) /\ k < Len(s) /\ samples'[k] = s[k]
      BY <1>8, <1>11
    <3>2. CASE x = e
      BY <1>4, <1>5, <1>8, <3>1, <3>2 DEF Sorted
    <3>3. CASE x \in Here
      BY <1>4, <1>5, <3>1, <3>3
    <3> QED BY <1>10, <3>2, <3>3
  <2> QED BY <2>1
<1>14. SamplesOK'
  BY <1>3, <1>8, <1>12, <1>13 DEF SamplesOK
<1>15. Elements' = Elements
  <2>1. Elements = Here \cup Range(s)
    BY <1>1, <1>3, <1>5 DEF Elements, Here
  <2>2. Elements' = Here' \cup Range(samples')
    BY <1>1, <1>3 DEF Elements, Here
  <2>3. \A x : x \in Here \cup Range(s) <=> x \in Here' \cup Range(samples')
    BY <1>8, <1>10
  <2> QED BY <2>1, <2>2, <2>3
<1>16. KindOK' /\ ListOK' /\ PlaceOK' /\ OldOK'
  BY <1>1, <1>2, <1>3, <1>10 DEF KindOK, ListOK, PlaceOK, OldOK
<1>17. SizeOK'
  <2>1. total' = total
    BY <1>5, <1>8, <1>10, <1>11 DEF total
  <2>2. newsize \in 2..(2 * CALQSZ) /\ nbins + newsize <= 3 * CALQSZ /\ total <= 2 * newsize
    BY <1>1, <1>2 DEF SizeOK
  <2> QED BY <1>1, <1>3, <1>10, <2>1, <2>2 DEF SizeOK
<1>18. NumbersOK'
  BY <1>1, <1>15, FewerNumbers
<1> QED BY <1>1, <1>9, <1>14, <1>15, <1>16, <1>17, <1>18 DEF EvInv

(* The new array and the current one do not overlap.                       *)
LEMMA OtherEnd ==
  ASSUME PlaceOK, Window(base, nbins), newsize \in 2..(2 * CALQSZ), nbins + newsize <= 3 * CALQSZ
  PROVE  /\ Window(NewBase, newsize)
         /\ NewBase = 0 \/ NewBase = 3 * CALQSZ - newsize
         /\ \A k \in base..(base + nbins - 1) : k \notin NewBase..(NewBase + newsize - 1)
<1>1. CALQSZ \in Nat \ {0}
  BY EvlstAssumption
<1>2. base \in Nat /\ nbins \in Nat /\ nbins >= 2 /\ nbins <= 2 * CALQSZ
      /\ (base = 0 \/ base = 3 * CALQSZ - nbins)
  BY DEF PlaceOK, Window
<1>3. CASE base = 0
  BY <1>1, <1>2, <1>3 DEF NewBase, Window
<1>4. CASE base # 0
  BY <1>1, <1>2, <1>4 DEF NewBase, Window
<1> QED BY <1>3, <1>4

(* A new array is made, and all that was there waits to be copied.         *)
LEMMA ArrayMade ==
  ASSUME EvInv, pc \in {"take", "put"}, samples = <<>>,
         NEW width \in Nat \ {0}, NEW startprio, NewArray(width, startprio)
  PROVE  EvInv' /\ UNCHANGED <<Elements, serial, returned>>
<1>1. /\ CalQueInit(space, NewBase, newsize, width, startprio)
      /\ UNCHANGED <<type, autosize, list, serial, returned>>
      /\ IF cqsize = 0 THEN Return
         ELSE /\ old' = [base |-> base, n |-> nbins]
              /\ pc' = "copy"
              /\ UNCHANGED <<newsize, samples, savelastprio>>
  BY DEF NewArray, restVars, kindVars
<1>2. BinsOK /\ KindOK /\ ListOK /\ PlaceOK /\ SamplesOK /\ OldOK /\ SizeOK /\ NumbersOK
  BY DEF EvInv
<1>3. type = "CALQUE" /\ type' = "CALQUE" /\ Elements = Here
  BY <1>1, <1>2, NoneInEmpty DEF KindOK, Elements, Here
<1>4. /\ newsize \in 2..(2 * CALQSZ) /\ nbins + newsize <= 3 * CALQSZ /\ total <= 2 * newsize
      /\ CALQSZ \in Nat
  BY <1>2, EvlstAssumption DEF SizeOK
<1>5. /\ Window(base, nbins) /\ binwidth \in Nat \ {0} /\ Cal(space, base, nbins, binwidth)
      /\ IsFiniteSet(Here) /\ cqsize = Cardinality(Here) /\ cqsize \in Nat /\ (cqsize = 0 <=> Here = {})
      /\ space \in Spaces
  BY <1>2, CqsizeIsNat DEF BinsOK, CalOK, Here
<1>6. PICK b : b = NewBase
  OBVIOUS
<1>7. PICK n : n = newsize
  OBVIOUS
<1>8. /\ Window(b, n)
      /\ b = 0 \/ b = 3 * CALQSZ - n
      /\ \A k \in base..(base + nbins - 1) : k \notin b..(b + n - 1)
  BY <1>2, <1>4, <1>5, <1>6, <1>7, OtherEnd
<1>9. PICK sp : sp = space
  OBVIOUS
<1>10. /\ BinsOK' /\ Here' = {} /\ space' \in Spaces
       /\ base' = b /\ nbins' = n /\ cqsize' = 0
       /\ \A k \in 0..(3 * CALQSZ - 1) : k \notin b..(b + n - 1) => space'[k] = sp[k]
  <2>1. sp \in Spaces /\ CalQueInit(sp, b, n, width, startprio)
    BY <1>1, <1>5, <1>6, <1>7, <1>9
  <2> QED BY <1>8, <2>1, InitStep
<1>11. samples' = <<>> /\ (pc' = "idle" \/ pc' = "copy")
  BY <1>1 DEF Return
<1>12. KindOK' /\ ListOK' /\ PlaceOK'
  BY <1>1, <1>2, <1>4, <1>7, <1>8, <1>10, <1>11 DEF KindOK, ListOK, PlaceOK
<1>13. SamplesOK'
  BY <1>11 DEF SamplesOK, Sorted
<1>14. CASE cqsize = 0
  <2>1. pc' = "idle"
    BY <1>1, <1>14 DEF Return
  <2>2. Elements' = {} /\ Elements = {}
    BY <1>3, <1>5, <1>10, <1>11, <1>14, <2>1, NoneInEmpty DEF Elements, Here
  <2>3. OldOK'
    BY <2>1 DEF OldOK
  <2>4. SizeOK'
    BY <1>4, <1>7, <1>10, <2>1 DEF SizeOK
  <2>5. NumbersOK'
    BY <1>1, <2>2, FewerNumbers
  <2> QED BY <1>1, <1>10, <1>12, <1>13, <2>2, <2>3, <2>4, <2>5 DEF EvInv
<1>15. CASE cqsize # 0
  <2>1. pc' = "copy" /\ old'.base = base /\ old'.n = nbins /\ newsize' = newsize
    BY <1>1, <1>15
  <2>2. PICK sp2 : sp2 = space'
    OBVIOUS
  <2>3. \A k \in base..(base + nbins - 1) : sp2[k] = sp[k]
    <3>1. \A k \in base..(base + nbins - 1) : k \in 0..(3 * CALQSZ - 1)
      BY <1>4, <1>5 DEF Window
    <3> QED BY <1>8, <1>10, <2>2, <3>1
  <2>4. InArray(sp2, base, nbins) = Here /\ Cal(sp2, base, nbins, binwidth)
    <3>1. sp \in Spaces /\ sp2 \in Spaces /\ Cal(sp, base, nbins, binwidth)
      BY <1>5, <1>9, <1>10, <2>2
    <3>2. InArray(sp2, base, nbins) = InArray(sp, base, nbins) /\ Cal(sp2, base, nbins, binwidth)
      BY <1>5, <2>3, <3>1, Elsewhere
    <3> QED BY <1>9, <3>2 DEF Here
  <2>5. There' = Here
    BY <2>1, <2>2, <2>4 DEF There
  <2>6. OldOK'
    <3>1. Window(old'.base, old'.n)
      BY <1>5, <2>1
    <3>2. \A k \in old'.base..(old'.base + old'.n - 1) : k \notin base'..(base' + nbins' - 1)
      BY <1>8, <1>10, <2>1
    <3>3. Cal(space', old'.base, old'.n, binwidth)
      BY <2>1, <2>2, <2>4
    <3>4. \E w \in Nat \ {0} : Cal(space', old'.base, old'.n, w)
      BY <1>5, <3>3
    <3>5. IsFiniteSet(There')
      BY <1>5, <2>5
    <3> QED BY <1>10, <3>1, <3>2, <3>4, <3>5 DEF OldOK
  <2>7. Elements' = Elements
    <3>1. Elements' = Here' \cup Range(samples') \cup There'
      BY <1>3, <2>1 DEF Elements, Here, There
    <3> QED BY <1>3, <1>10, <1>11, <2>5, <3>1, NoneInEmpty
  <2>8. total = cqsize
    BY <1>5 DEF total
  <2>9. SizeOK'
    BY <1>4, <1>5, <1>7, <1>10, <2>1, <2>5, <2>8 DEF SizeOK
  <2>10. NumbersOK'
    BY <1>1, <2>7, FewerNumbers
  <2> QED BY <1>1, <1>10, <1>12, <1>13, <2>6, <2>7, <2>9, <2>10 DEF EvInv
<1> QED BY <1>14, <1>15

(* The width is found, from samples or without.                            *)
LEMMA WidthFound ==
  ASSUME EvInv, NewWidth
  PROVE  EvInv' /\ UNCHANGED <<Elements, serial, returned>>
<1>1. CASE pc = "take" /\ total < 2 /\ NewArray(1, lastprio)
  <2>1. samples = <<>>
    <3>1. samples # <<>> => total >= 2
      BY <1>1 DEF EvInv, SizeOK
    <3>2. total \in Nat
      BY CqsizeIsNat DEF EvInv, SamplesOK, total
    <3> QED BY <1>1, <3>1, <3>2
  <2>2. PICK start : start = lastprio
    OBVIOUS
  <2>3. NewArray(1, start) /\ 1 \in Nat \ {0}
    BY <1>1, <2>2
  <2> QED BY <1>1, <2>1, <2>3, ArrayMade
<1>2. CASE pc = "put" /\ samples = <<>> /\ \E w \in Widths : NewArray(w, savelastprio)
  <2>1. PICK w \in Widths : NewArray(w, savelastprio)
    BY <1>2
  <2>2. PICK start : start = savelastprio
    OBVIOUS
  <2>3. NewArray(w, start) /\ w \in Nat \ {0}
    BY <2>1, <2>2, EvlstAssumption
  <2> QED BY <1>2, <2>3, ArrayMade
<1> QED BY <1>1, <1>2 DEF NewWidth

(* The new array does not see that an element leaves the old one.          *)
LEMMA ElsewhereOK ==
  ASSUME NEW sp \in Spaces, NEW sp2 \in Spaces, NEW b, NEW n, Window(b, n), NEW w \in Nat \ {0},
         \A k \in b..(b + n - 1) : sp2[k] = sp[k],
         NEW cq, NEW lb, NEW lp, NEW bt, CalOK(sp, b, n, w, cq, lb, lp, bt)
  PROVE  CalOK(sp2, b, n, w, cq, lb, lp, bt) /\ InArray(sp2, b, n) = InArray(sp, b, n)
<1>1. InArray(sp2, b, n) = InArray(sp, b, n) /\ Cal(sp2, b, n, w)
  BY Elsewhere DEF CalOK
<1>2. HeadAt(sp, b, n, w, lb, lp, bt) => HeadAt(sp2, b, n, w, lb, lp, bt)
  <2>1. lb \in 0..(n - 1) => sp2[b + lb] = sp[b + lb]
    BY DEF Window
  <2> QED BY <1>1, <2>1 DEF HeadAt
<1> QED BY <1>1, <1>2 DEF CalOK

(* An element goes from the old array to the new one, behind all that are  *)
(* there and before all of its time that are still to come.                *)
LEMMA ElementCopied ==
  ASSUME EvInv, CopyElement
  PROVE  EvInv' /\ UNCHANGED <<Elements, serial, returned>>
<1>1. pc = "copy" /\ UNCHANGED <<type, autosize, list, serial, returned>>
  BY DEF CopyElement, restVars, kindVars
<1>2. PICK k \in Left :
        /\ Put([space EXCEPT ![k] = Tail(@)], space[k][1], TRUE)
        /\ IF autosize /\ cqsize + 1 > thtop THEN pc' = "nested" /\ UNCHANGED resizeVars
           ELSE IF Left = {k} /\ Len(space[k]) = 1 THEN Return
           ELSE UNCHANGED <<pc, resizeVars>>
  BY DEF CopyElement
<1>3. BinsOK /\ KindOK /\ ListOK /\ PlaceOK /\ SamplesOK /\ OldOK /\ SizeOK /\ NumbersOK
  BY DEF EvInv
<1>4. type = "CALQUE" /\ samples = <<>>
  BY <1>1, <1>3 DEF KindOK, SamplesOK
<1>5. PICK b : b = old.base
  OBVIOUS
<1>6. PICK n : n = old.n
  OBVIOUS
<1>7. /\ Window(b, n) /\ b \in Nat /\ n \in Nat /\ n >= 2
      /\ \A j \in b..(b + n - 1) : j \notin base..(base + nbins - 1)
      /\ IsFiniteSet(There)
      /\ \A g \in There, h \in Here : g.time = h.time => h.no < g.no
  BY <1>1, <1>3, <1>5, <1>6 DEF OldOK, Window
<1>8. PICK w \in Nat \ {0} : Cal(space, b, n, w)
  BY <1>1, <1>3, <1>5, <1>6 DEF OldOK
<1>9. /\ Window(base, nbins) /\ binwidth \in Nat \ {0} /\ space \in Spaces
      /\ CalOK(space, base, nbins, binwidth, cqsize, lastbin, lastprio, bintop)
      /\ cqsize \in Nat /\ nbins \in Nat
  BY <1>3, CqsizeIsNat DEF BinsOK
<1>10. k \in b..(b + n - 1) /\ space[k] # <<>>
  BY <1>2, <1>5, <1>6 DEF Left
<1>11. PICK i \in 0..(n - 1) : b + i = k
  <2>1. k - b \in 0..(n - 1) /\ b + (k - b) = k
    BY <1>7, <1>10
  <2> QED BY <2>1
<1>12. PICK g : g = space[k][1]
  OBVIOUS
<1>13. PICK sp : sp = [space EXCEPT ![k] = Tail(@)]
  OBVIOUS
<1>14. space[k] \in Seq(Entry) /\ 1 \in 1..Len(space[k]) /\ g \in Entry /\ g.time \in Nat /\ g.no \in Nat
  <2>1. space[k] \in Seq(Entry)
    BY <1>7, <1>9, <1>11, Cells
  <2>2. 1 \in 1..Len(space[k])
    BY <1>10, <2>1
  <2> QED BY <1>12, <2>1, <2>2, EntryFacts
<1>15. There = InArray(space, b, n) /\ Here = InArray(space, base, nbins)
  BY <1>5, <1>6 DEF There, Here
<1>16. Gives(space, b, n, w, i, 1, g, sp)
  <2>1. Tail(space[k]) = RemoveAt(space[k], 1)
    BY <1>10, <1>14, TailIsRemoval
  <2>2. sp = SetBin(space, b, i, RemoveAt(space[b + i], 1))
    BY <1>11, <1>13, <2>1 DEF SetBin
  <2> QED BY <1>7, <1>8, <1>9, <1>11, <1>12, <1>14, <2>2 DEF Gives
<1>17. /\ sp \in Spaces
       /\ Cal(sp, b, n, w)
       /\ \A x : x \in InArray(sp, b, n) <=> x \in InArray(space, b, n) /\ x # g
       /\ \A j \in 0..(3 * CALQSZ - 1) : j \notin b..(b + n - 1) => sp[j] = space[j]
  BY ONLY <1>16, TakeCal
<1>18. CalOK(sp, base, nbins, binwidth, cqsize, lastbin, lastprio, bintop)
       /\ InArray(sp, base, nbins) = Here
  <2>1. \A j \in base..(base + nbins - 1) : j \in 0..(3 * CALQSZ - 1) /\ j \notin b..(b + n - 1)
    BY <1>7, <1>9, EvlstAssumption DEF Window
  <2>2. \A j \in base..(base + nbins - 1) : sp[j] = space[j]
    BY <1>17, <2>1
  <2> QED BY <1>9, <1>15, <1>17, <2>2, ElsewhereOK
<1>19. g \in There
  <2>1. g \in Range(space[b + i])
    BY <1>11, <1>12, <1>14 DEF Range
  <2> QED BY <1>7, <1>9, <1>15, <2>1, InCells
<1>20. BinsOK' /\ PutInto(sp, g)
  <2>1. Put(sp, g, TRUE)
    BY <1>2, <1>12, <1>13
  <2>2. \A x \in InArray(sp, base, nbins) : x.time = g.time => x.no < g.no
    BY <1>7, <1>18, <1>19
  <2> QED BY <1>9, <1>14, <1>17, <1>18, <2>1, <2>2, PutBehind
<1>21. /\ base' = base /\ nbins' = nbins /\ cqsize' = cqsize + 1 /\ space' \in Spaces
       /\ \A x : x \in Here' <=> x = g \/ x \in Here
       /\ \A j \in 0..(3 * CALQSZ - 1) : j \notin base..(base + nbins - 1) => space'[j] = sp[j]
  BY <1>18, <1>20 DEF PutInto, Here
<1>22. PICK sp2 : sp2 = space'
  OBVIOUS
<1>23. InArray(sp2, b, n) = InArray(sp, b, n) /\ Cal(sp2, b, n, w)
  <2>1. \A j \in b..(b + n - 1) : j \in 0..(3 * CALQSZ - 1)
    BY <1>7, EvlstAssumption DEF Window
  <2>2. \A j \in b..(b + n - 1) : sp2[j] = sp[j]
    BY <1>7, <1>21, <1>22, <2>1
  <2>3. sp2 \in Spaces
    BY <1>21, <1>22
  <2> QED BY <1>7, <1>17, <2>2, <2>3, Elsewhere
<1>24. \A x : x \in InArray(sp2, b, n) <=> x \in There /\ x # g
  BY <1>15, <1>17, <1>23
<1>25. IsFiniteSet(There \ {g}) /\ Cardinality(There \ {g}) = Cardinality(There) - 1
       /\ Cardinality(There) \in Nat /\ Cardinality(There) # 0
  BY <1>7, <1>19, FS_RemoveElement, FS_CardinalityType, FS_EmptySet
<1>26. /\ nbins = newsize /\ newsize \in 2..(2 * CALQSZ)
       /\ cqsize + Cardinality(There) <= 2 * newsize
  BY <1>1, <1>3 DEF SizeOK
<1>27. IF Left = {k} /\ Len(space[k]) = 1 THEN Return ELSE UNCHANGED <<pc, resizeVars>>
  <2>1. ~(cqsize + 1 > thtop)
    BY <1>9, <1>25, <1>26 DEF thtop
  <2> QED BY <1>2, <2>1
<1>28. KindOK' /\ ListOK' /\ PlaceOK' /\ SamplesOK'
  <2>1. samples' = <<>> /\ (pc' = "idle" \/ pc' = "copy")
    BY <1>1, <1>4, <1>27 DEF Return, resizeVars
  <2> QED BY <1>1, <1>3, <1>4, <1>21, <2>1 DEF KindOK, ListOK, PlaceOK, SamplesOK, Sorted
<1>29. Elements = Here \cup There
  BY <1>1, <1>4, NoneInEmpty DEF Elements, Here, There
<1>30. CASE Left = {k} /\ Len(space[k]) = 1
  <2>1. pc' = "idle" /\ samples' = <<>> /\ type' = "CALQUE"
    BY <1>1, <1>4, <1>27, <1>30 DEF Return
  <2>2. ASSUME NEW x \in There PROVE x = g
    <3>1. PICK j \in 0..(n - 1) : x \in Range(space[b + j])
      BY <1>7, <1>9, <1>15, InCells
    <3>2. space[b + j] # <<>> /\ b + j \in b..(b + n - 1)
      BY <1>7, <3>1 DEF Range
    <3>3. b + j = k
      BY <1>5, <1>6, <1>30, <3>2 DEF Left
    <3> QED BY <1>12, <1>30, <3>1, <3>3 DEF Range
  <2>3. Elements' = Here'
    BY <2>1, NoneInEmpty DEF Elements, Here
  <2>4. Elements' = Elements
    BY <1>19, <1>21, <1>29, <2>2, <2>3
  <2>5. OldOK'
    BY <2>1 DEF OldOK
  <2>6. SizeOK'
    BY <1>9, <1>21, <1>25, <1>26, <2>1 DEF SizeOK
  <2>7. NumbersOK'
    BY <1>1, <2>4, FewerNumbers
  <2> QED BY <1>1, <1>20, <1>28, <2>4, <2>5, <2>6, <2>7 DEF EvInv
<1>31. CASE ~(Left = {k} /\ Len(space[k]) = 1)
  <2>1. UNCHANGED <<pc, newsize, samples, old>>
    BY <1>27, <1>31 DEF resizeVars
  <2>2. There' = There \ {g}
    <3>1. There' = InArray(sp2, b, n)
      BY <1>5, <1>6, <1>22, <2>1 DEF There
    <3> QED BY <1>24, <3>1
  <2>3. Elements' = Here' \cup There'
    BY <1>1, <1>4, <2>1, NoneInEmpty DEF Elements, Here, There
  <2>4. Elements' = Elements
    BY <1>19, <1>21, <1>29, <2>2, <2>3
  <2>5. ASSUME NEW x \in There', NEW h \in Here', x.time = h.time PROVE h.no < x.no
    <3>1. x \in There /\ x # g
      BY <2>2
    <3>2. CASE h \in Here
      BY <1>7, <2>5, <3>1, <3>2
    <3>3. CASE h = g
      <4>1. g \in Range(space[b + i])
        BY <1>11, <1>12, <1>14 DEF Range
      <4>2. Bin(g.time, n, w) = i
        BY <1>8, <4>1 DEF Cal
      <4>3. x \in Range(space[b + i])
        BY <1>7, <1>8, <1>9, <1>15, <2>5, <3>1, <3>3, <4>2, InOwnBin
      <4>4. PICK j \in 1..Len(space[k]) : x = space[k][j]
        BY <1>11, <1>14, <4>3 DEF Range
      <4>5. j # 1 /\ 1 < j
        BY <1>12, <1>14, <3>1, <4>4
      <4>6. Sorted(space[k])
        BY <1>8, <1>11 DEF Cal
      <4>7. Before(g, x)
        BY <1>12, <1>14, <4>4, <4>5, <4>6 DEF Sorted
      <4> QED BY <1>14, <2>5, <3>3, <4>7 DEF Before
    <3> QED BY <1>21, <3>2, <3>3
  <2>6. OldOK'
    <3>1. old'.base = b /\ old'.n = n
      BY <1>5, <1>6, <2>1
    <3>2. Cal(space', old'.base, old'.n, w)
      BY <1>22, <1>23, <3>1
    <3>3. \E v \in Nat \ {0} : Cal(space', old'.base, old'.n, v)
      BY <3>2
    <3>4. IsFiniteSet(There')
      BY <1>25, <2>2
    <3> QED BY <1>7, <1>21, <2>5, <3>1, <3>3, <3>4 DEF OldOK
  <2>7. SizeOK'
    BY <1>1, <1>9, <1>21, <1>25, <1>26, <2>1, <2>2 DEF SizeOK
  <2>8. NumbersOK'
    BY <1>1, <2>4, FewerNumbers
  <2> QED BY <1>1, <1>20, <1>28, <2>4, <2>6, <2>7, <2>8 DEF EvInv
<1> QED BY <1>30, <1>31
-----------------------------------------------------------------------------
(* The list starts empty.                                                  *)
LEMMA EvInit ==
  ASSUME Init PROVE EvInv /\ Elements = {}
<1>1. CALQSZ \in Nat \ {0} /\ 3 * CALQSZ - 1 \in Nat
  BY EvlstAssumption
<1>2. /\ type \in {"CALQUE", "LINQUE"} /\ pc = "idle" /\ list = <<>> /\ samples = <<>> /\ base = 0
      /\ cqsize = 0 /\ serial = 0 /\ space = [k \in 0..(3 * CALQSZ - 1) |-> <<>>]
  BY DEF Init, EventListSelect
<1>3. nbins \in 2..(2 * CALQSZ) /\ binwidth \in Nat \ {0}
  <2>1. nbins \in InitBins \cup {2} /\ binwidth \in Widths \cup {1}
    BY DEF Init, EventListSelect
  <2> QED BY <1>1, <2>1, EvlstAssumption
<1>4. Window(base, nbins) /\ space \in Spaces
  BY <1>1, <1>2, <1>3 DEF Window, Spaces
<1>5. \A i \in 0..(nbins - 1) : space[base + i] = <<>>
  <2>1. \A i \in 0..(nbins - 1) : base + i \in 0..(3 * CALQSZ - 1)
    BY <1>1, <1>2, <1>3
  <2> QED BY <1>2, <2>1
<1>6. Here = {}
  BY <1>4, <1>5, InCells, NoneInEmpty DEF Here
<1>7. Cal(space, base, nbins, binwidth)
  BY <1>5, NoneInEmpty DEF Cal, Sorted
<1>8. BinsOK
  BY <1>2, <1>3, <1>4, <1>6, <1>7, FS_EmptySet DEF BinsOK, CalOK, Here
<1>9. Elements = {}
  BY <1>2, <1>6, NoneInEmpty DEF Elements, Here
<1>10. KindOK /\ ListOK /\ PlaceOK /\ SamplesOK /\ OldOK
  BY <1>2, <1>3 DEF KindOK, ListOK, PlaceOK, SamplesOK, OldOK, Sorted
<1>11. SizeOK /\ NumbersOK
  BY <1>2, <1>3, <1>9 DEF SizeOK, NumbersOK
<1> QED BY <1>8, <1>9, <1>10, <1>11 DEF EvInv

(* What every turn of resizing does to the elements: nothing.              *)
LEMMA ResizeStep ==
  ASSUME EvInv, CalQueResize
  PROVE  EvInv' /\ UNCHANGED <<Elements, serial, returned>>
<1>1. CASE TakeSample
  BY <1>1, SampleTaken
<1>2. CASE PutSample
  BY <1>2, SamplePut
<1>3. CASE NewWidth
  BY <1>3, WidthFound
<1>4. CASE CopyElement
  BY <1>4, ElementCopied
<1> QED BY <1>1, <1>2, <1>3, <1>4 DEF CalQueResize

(* An insertion adds the new element, in both implementations.             *)
LEMMA InsertStep ==
  ASSUME EvInv, NEW a \in Activities, NEW t \in Times, EventListInsert(a, t)
  PROVE  /\ EvInv'
         /\ Elements' = Elements \cup {[act |-> a, time |-> t, no |-> serial]}
         /\ serial' = serial + 1 /\ returned' = returned
<1>1. type = "CALQUE" \/ type = "LINQUE"
  BY DEF EvInv, KindOK
<1>2. EvInv' /\ \E e \in Entry : /\ e = [act |-> a, time |-> t, no |-> serial]
                                 /\ Elements' = Elements \cup {e}
  BY <1>1, InsertCalendar, InsertLinear
<1>3. serial' = serial + 1 /\ returned' = returned
  BY DEF EventListInsert
<1> QED BY <1>2, <1>3

(* A step that leaves the list alone.                                      *)
LEMMA IdleKeeps ==
  ASSUME EvInv, UNCHANGED evlstVars
  PROVE  EvInv' /\ UNCHANGED <<Elements, serial, returned>>
<1>1. UNCHANGED <<space, base, nbins, binwidth, cqsize, lastbin, bintop, lastprio, pc, newsize,
                  samples, savelastprio, old, type, autosize, list, serial, returned>>
      /\ UNCHANGED <<binVars, pc, resizeVars, kindVars>>
  BY DEF evlstVars, binVars, resizeVars, kindVars
<1>2. KindOK' /\ PlaceOK' /\ BinsOK' /\ SamplesOK' /\ OldOK' /\ SizeOK'
  BY <1>1, ListKeepsBins
<1>3. Elements' = Elements
  BY <1>1 DEF Elements
<1>4. NumbersOK' /\ ListOK'
  BY <1>1, <1>3, FewerNumbers DEF EvInv, ListOK
<1> QED BY <1>1, <1>2, <1>3, <1>4 DEF EvInv

(* Every step keeps the invariant and is a step of the abstract event list. *)
LEMMA NextStep ==
  ASSUME EvInv, [Next]_evlstVars
  PROVE  EvInv' /\ [Abstract!Next]_(Abstract!listVars)
<1>1. CASE CalQueResize
  BY <1>1, ResizeStep DEF Abstract!listVars
<1>2. CASE EventListGetHead
  <2>1. EvInv' /\ serial' = serial
        /\ \/ Elements = {} /\ returned' = NULL /\ Elements' = {}
           \/ \E e \in Elements : /\ \A f \in Elements \ {e} : Before(e, f)
                                  /\ returned' = e
                                  /\ Elements' = Elements \ {e}
    BY <1>2, HeadTaken DEF EventListGetHead
  <2>2. Abstract!GetHead
    BY <2>1 DEF Abstract!GetHead, Abstract!Before, Before
  <2> QED BY <2>1, <2>2 DEF Abstract!Next
<1>3. CASE EventListInit
  <2>1. EvInv' /\ Elements' = {} /\ UNCHANGED <<serial, returned>>
    BY <1>3, ListEmptied
  <2> QED BY <2>1 DEF Abstract!Next, Abstract!Reset
<1>4. ASSUME NEW a \in Activities \ {e.act : e \in Elements}, NEW t \in Times, EventListInsert(a, t)
      PROVE  EvInv' /\ Abstract!Next
  <2>1. /\ EvInv'
        /\ Elements' = Elements \cup {[act |-> a, time |-> t, no |-> serial]}
        /\ serial' = serial + 1 /\ returned' = returned
    BY <1>4, InsertStep
  <2>2. \A e \in Elements : e.act # a
    OBVIOUS
  <2>3. Abstract!Insert(a, t)
    BY <2>1, <2>2 DEF Abstract!Insert
  <2> QED BY <2>1, <2>3 DEF Abstract!Next
<1>5. ASSUME NEW e \in Elements, EventListDelete(e)
      PROVE  EvInv' /\ Abstract!Next
  <2>1. EvInv' /\ Elements' = Elements \ {e} /\ UNCHANGED <<serial, returned>>
    BY <1>5, DeleteElement DEF EventListDelete
  <2>2. Abstract!Delete(e)
    BY <2>1 DEF Abstract!Delete
  <2> QED BY <2>1, <2>2 DEF Abstract!Next
<1>6. CASE UNCHANGED evlstVars
  BY <1>6, IdleKeeps DEF Abstract!listVars
<1> QED BY <1>1, <1>2, <1>3, <1>4, <1>5, <1>6 DEF Next

(* The invariant of the event list holds in every state it can reach.      *)
THEOREM ListIsSound == Spec => []EvInv
<1>1. Init => EvInv
  BY EvInit
<1>2. EvInv /\ [Next]_evlstVars => EvInv'
  BY NextStep
<1> QED BY <1>1, <1>2, PTL DEF Spec

(* Both implementations, the linear list and the calendar queue that       *)
(* resizes itself, are an event list (evlst.c, YS__EventListInsert,        *)
(* GetHead, Delete and Init): they return the first element by time and    *)
(* order of insertion, and lose or invent none.                            *)
THEOREM ListRefines == Spec => ListSpec
<1>1. Init => Abstract!Init
  <2> SUFFICES ASSUME Init PROVE Abstract!Init
    OBVIOUS
  <2>1. Elements = {} /\ serial = 0 /\ returned = NULL
    BY EvInit DEF Init
  <2> QED BY <2>1 DEF Abstract!Init
<1>2. EvInv /\ [Next]_evlstVars => [Abstract!Next]_(Abstract!listVars)
  BY NextStep
<1> QED BY <1>1, <1>2, ListIsSound, PTL DEF Spec, ListSpec, Abstract!Spec
-----------------------------------------------------------------------------
(***************************************************************************)
(* The driver on the event list.                                           *)
(***************************************************************************)
DriverOK == /\ driver \in {"user", "loop", "body"}
            /\ simtime \in Nat /\ simUpTo \in Int
            /\ NothingOverdue
            /\ driver = "body" => active \in Activities

DriverInv == EvInv /\ DriverOK

(* EventListHeadval is the time of the first element, -1 if there is none. *)
LEMMA HeadvalFacts ==
  ASSUME EvInv, pc = "idle"
  PROVE  /\ Elements = {} => EventListHeadval = -1
         /\ Elements # {} => /\ EventListHeadval \in Nat
                             /\ \A x \in Elements : EventListHeadval <= x.time
                             /\ \E x \in Elements : EventListHeadval = x.time
<1>1. BinsOK /\ list \in Seq(Entry) /\ Sorted(list) /\ type \in {"CALQUE", "LINQUE"}
  BY DEF EvInv, ListOK, KindOK
<1>2. \A x \in Elements : x \in Entry /\ x.time \in Nat
  BY EntryType DEF EvInv, NumbersOK
<1>3. CASE type = "CALQUE"
  <2>1. Elements = Here /\ (cqsize = 0 <=> Elements = {})
    BY <1>1, <1>3, IdleElements, CqsizeIsNat
  <2>2. EventListHeadval = IF cqsize = 0 THEN -1 ELSE lastprio
    BY <1>3 DEF EventListHeadval, EventListSize
  <2>3. ASSUME Elements # {}
        PROVE  /\ lastprio \in Nat /\ \A x \in Elements : lastprio <= x.time
               /\ \E x \in Elements : lastprio = x.time
    <3>1. /\ Window(base, nbins) /\ binwidth \in Nat \ {0} /\ space \in Spaces
          /\ Cal(space, base, nbins, binwidth)
          /\ HeadAt(space, base, nbins, binwidth, lastbin, lastprio, bintop)
      BY <1>1, <2>1, <2>3 DEF BinsOK, CalOK, Here
    <3>2. PICK h : h = space[base + lastbin][1]
      OBVIOUS
    <3>3. lastprio = h.time /\ \A x \in Elements : x = h \/ Before(h, x)
      BY <2>1, <3>1, <3>2 DEF HeadAt, Here
    <3>4. h.time \in Nat /\ h \in Elements
      BY <2>1, <3>1, <3>2, HeadFacts DEF Here
    <3>5. ASSUME NEW x \in Elements PROVE lastprio <= x.time
      BY <1>2, <3>3, <3>4, <3>5 DEF Before
    <3> QED BY <3>3, <3>4, <3>5
  <2> QED BY <2>1, <2>2, <2>3
<1>4. CASE type = "LINQUE"
  <2>1. Elements = Range(list)
    BY <1>1, <1>4, IdleElements
  <2>2. Len(list) \in Nat /\ EventListHeadval = IF Len(list) = 0 THEN -1 ELSE list[1].time
    BY <1>1, <1>4 DEF EventListHeadval, EventListSize
  <2>3. CASE Len(list) = 0
    <3>1. Elements = {}
      BY <2>1, <2>3 DEF Range
    <3> QED BY <2>2, <2>3, <3>1
  <2>4. CASE Len(list) > 0
    <3>1. 1 \in 1..Len(list) /\ list[1] \in Elements
      BY <2>1, <2>2, <2>4 DEF Range
    <3>2. \A x \in Elements : x = list[1] \/ Before(list[1], x)
      BY <1>1, <2>1, <2>2, <3>1 DEF Sorted, Range
    <3>3. list[1].time \in Nat /\ \A x \in Elements : list[1].time <= x.time
      <4>1. ASSUME NEW x \in Elements PROVE list[1].time <= x.time
        BY <1>2, <3>1, <3>2 DEF Before
      <4> QED BY <1>2, <3>1, <4>1
    <3> QED BY <2>2, <2>4, <3>1, <3>3
  <2> QED BY <2>2, <2>3, <2>4
<1> QED BY <1>1, <1>3, <1>4

(* The driver starts with an empty list, at time 0.                        *)
LEMMA DriverStarts ==
  ASSUME DriverInit PROVE DriverInv
<1>1. EvInv /\ Elements = {}
  BY EvInit DEF DriverInit
<1>2. driver = "user" /\ simtime = 0 /\ simUpTo = -1
  BY DEF DriverInit
<1> QED BY <1>1, <1>2 DEF DriverInv, DriverOK, NothingOverdue

(* Scheduling for now or later keeps the past empty.                       *)
LEMMA Scheduled ==
  ASSUME DriverInv, NEW a \in Activities, NEW inc \in Delays, Schedule(a, inc)
  PROVE  DriverInv' /\ Abstract!Next
<1>1. EvInv /\ DriverOK
  BY DEF DriverInv
<1>2. PICK t : t = simtime + inc
  OBVIOUS
<1>3. /\ t \in Times /\ a \notin OnList /\ EventListInsert(a, t)
      /\ UNCHANGED <<driver, simtime, simUpTo, stopFlag, active>>
  BY <1>2 DEF Schedule
<1>4. /\ EvInv'
      /\ Elements' = Elements \cup {[act |-> a, time |-> t, no |-> serial]}
      /\ serial' = serial + 1 /\ returned' = returned
  BY <1>1, <1>3, InsertStep
<1>5. simtime \in Nat /\ inc \in Nat /\ t >= simtime
  BY <1>1, <1>2, DriverAssumption DEF DriverOK
<1>6. \A e \in Elements' : e.time >= simtime'
  BY <1>1, <1>3, <1>4, <1>5 DEF DriverOK, NothingOverdue
<1>7. DriverOK'
  BY <1>1, <1>3, <1>4, <1>6 DEF DriverOK, NothingOverdue
<1>8. Abstract!Insert(a, t)
  BY <1>3, <1>4 DEF Abstract!Insert, OnList
<1> QED BY <1>3, <1>4, <1>7, <1>8 DEF DriverInv, Abstract!Next

(* The event that occurs is the first, and it is due now.                  *)
LEMMA Occurs ==
  ASSUME DriverInv, Occur
  PROVE  DriverInv' /\ Abstract!Next
<1>1. EvInv /\ DriverOK
  BY DEF DriverInv
<1>2. /\ EventListHeadval = simtime /\ EventListGetHead /\ active' = returned'.act
      /\ driver' = "body" /\ UNCHANGED <<simtime, simUpTo, stopFlag>> /\ pc = "idle" /\ serial' = serial
  BY DEF Occur, EventListGetHead
<1>3. Elements # {} /\ \A x \in Elements : simtime <= x.time
  <2>1. simtime \in Nat /\ simtime # -1
    BY <1>1 DEF DriverOK
  <2> QED BY <1>1, <1>2, <2>1, HeadvalFacts
<1>4. /\ EvInv'
      /\ \E e \in Elements : /\ \A f \in Elements \ {e} : Before(e, f)
                             /\ returned' = e
                             /\ Elements' = Elements \ {e}
  BY <1>1, <1>2, <1>3, HeadTaken
<1>5. PICK e \in Elements : /\ \A f \in Elements \ {e} : Before(e, f)
                            /\ returned' = e
                            /\ Elements' = Elements \ {e}
  BY <1>4
<1>6. e \in Entry /\ e.time \in Nat /\ e.act \in Activities
  BY <1>1, EntryType DEF EvInv, NumbersOK, Entry
<1>7. e.time = simtime
  <2>1. PICK h \in Elements : h.time = simtime
    <3>1. \E h \in Elements : h.time = EventListHeadval
      BY <1>1, <1>2, <1>3, HeadvalFacts
    <3> QED BY <1>2, <3>1
  <2>2. e = h \/ Before(e, h)
    BY <1>5
  <2>3. simtime <= e.time /\ simtime \in Nat
    BY <1>1, <1>3 DEF DriverOK
  <2> QED BY <1>6, <2>1, <2>2, <2>3 DEF Before
<1>8. DriverOK'
  BY <1>1, <1>2, <1>3, <1>5, <1>6, <1>7 DEF DriverOK, NothingOverdue
<1>9. Abstract!GetHead
  BY <1>2, <1>5 DEF Abstract!GetHead, Abstract!Before, Before
<1> QED BY <1>4, <1>8, <1>9 DEF DriverInv, Abstract!Next

(* Steps of the driver alone.                                              *)
LEMMA ListRests ==
  ASSUME DriverInv, UNCHANGED evlstVars
  PROVE  EvInv' /\ UNCHANGED <<Elements, serial, returned>> /\ UNCHANGED Abstract!listVars
BY IdleKeeps DEF DriverInv, Abstract!listVars

(* The time advances to that of the first event, or less far.              *)
LEMMA Advances ==
  ASSUME DriverInv, Advance
  PROVE  DriverInv' /\ UNCHANGED Abstract!listVars
<1>1. EvInv' /\ UNCHANGED <<Elements, serial, returned>> /\ UNCHANGED Abstract!listVars
  BY ListRests DEF Advance
<1>2. EvInv /\ DriverOK
  BY DEF DriverInv
<1> DEFINE over == simUpTo > 0 /\ EventListHeadval > simUpTo
           none == EventListHeadval < 0
<1>3. /\ pc = "idle" /\ simUpTo' = simUpTo
      /\ simtime' = (IF none THEN simtime ELSE IF over THEN simUpTo ELSE EventListHeadval)
      /\ driver' \in {"user", "loop"}
  BY DEF Advance
<1>4. simtime \in Nat /\ simUpTo \in Int /\ \A x \in Elements : x.time >= simtime /\ x.time \in Nat
  BY <1>2, EntryType DEF DriverOK, NothingOverdue, EvInv, NumbersOK
<1>5. CASE Elements = {}
  <2>1. simtime' = simtime
    BY <1>2, <1>3, <1>5, HeadvalFacts
  <2> QED BY <1>1, <1>3, <1>4, <1>5, <2>1 DEF DriverInv, DriverOK, NothingOverdue
<1>6. CASE Elements # {}
  <2>1. EventListHeadval \in Nat /\ \A x \in Elements : EventListHeadval <= x.time
    BY <1>2, <1>3, <1>6, HeadvalFacts
  <2>2. simtime' \in Nat /\ simtime' <= EventListHeadval
    BY <1>3, <1>4, <2>1
  <2>3. ASSUME NEW x \in Elements PROVE x.time >= simtime'
    BY <1>4, <2>1, <2>2
  <2> QED BY <1>1, <1>3, <1>4, <2>2, <2>3 DEF DriverInv, DriverOK, NothingOverdue
<1> QED BY <1>5, <1>6

(* Every step of the driver keeps the invariant and is a step of the       *)
(* abstract event list.                                                    *)
LEMMA DriverStep ==
  ASSUME DriverInv, [DriverNext]_vars
  PROVE  DriverInv' /\ [Abstract!Next]_(Abstract!listVars)
<1>1. EvInv /\ DriverOK
  BY DEF DriverInv
<1>2. CASE CalQueResize /\ UNCHANGED driverVars
  <2>1. EvInv' /\ UNCHANGED <<Elements, serial, returned>>
    BY <1>1, <1>2, ResizeStep
  <2>2. DriverOK'
    BY <1>1, <1>2, <2>1 DEF DriverOK, NothingOverdue, driverVars
  <2> QED BY <2>1, <2>2 DEF DriverInv, Abstract!listVars
<1>3. ASSUME NEW a \in Activities, NEW inc \in Delays, ActivitySchedTime(a, inc)
      PROVE  DriverInv' /\ Abstract!Next
  BY <1>3, Scheduled DEF ActivitySchedTime
<1>4. ASSUME NEW inc \in Delays, EventReschedTime(inc)
      PROVE  DriverInv' /\ Abstract!Next
  <2>1. PICK a : a = active
    OBVIOUS
  <2>2. a \in Activities /\ Schedule(a, inc)
    BY <1>1, <1>4, <2>1 DEF DriverOK, EventReschedTime
  <2> QED BY <2>2, Scheduled
<1>5. CASE DriverInterrupt
  <2>1. EvInv' /\ UNCHANGED <<Elements, serial, returned>> /\ UNCHANGED Abstract!listVars
    BY <1>5, ListRests DEF DriverInterrupt
  <2>2. DriverOK'
    BY <1>1, <1>5, <2>1 DEF DriverInterrupt, DriverOK, NothingOverdue
  <2> QED BY <2>1, <2>2 DEF DriverInv
<1>6. ASSUME NEW time \in Durations, DriverRun(time)
      PROVE  DriverInv' /\ UNCHANGED Abstract!listVars
  <2>1. EvInv' /\ UNCHANGED <<Elements, serial, returned>> /\ UNCHANGED Abstract!listVars
    BY <1>6, ListRests DEF DriverRun
  <2>2. time \in Nat /\ simtime \in Nat
    BY <1>1, DriverAssumption DEF DriverOK
  <2>3. simUpTo' \in Int /\ driver' = "loop" /\ simtime' = simtime
    BY <1>6, <2>2 DEF DriverRun
  <2>4. DriverOK'
    BY <1>1, <2>1, <2>3 DEF DriverOK, NothingOverdue
  <2> QED BY <2>1, <2>4 DEF DriverInv
<1>7. CASE Occur
  BY <1>7, Occurs
<1>8. CASE BodyReturns
  <2>1. EvInv' /\ UNCHANGED <<Elements, serial, returned>> /\ UNCHANGED Abstract!listVars
    BY <1>8, ListRests DEF BodyReturns
  <2>2. driver' \in {"user", "loop"} /\ simtime' = simtime /\ simUpTo' = simUpTo
    BY <1>8 DEF BodyReturns
  <2>3. DriverOK'
    BY <1>1, <2>1, <2>2 DEF DriverOK, NothingOverdue
  <2> QED BY <2>1, <2>3 DEF DriverInv
<1>9. CASE Advance
  BY <1>9, Advances
<1>10. CASE DriverReset
  <2>1. EvInv' /\ Elements' = {} /\ UNCHANGED <<serial, returned>>
    BY <1>1, <1>10, ListEmptied DEF DriverReset
  <2>2. driver = "user" /\ driver' = "user" /\ simtime' = 0 /\ simUpTo' = simUpTo
    BY <1>10 DEF DriverReset
  <2>3. DriverOK'
    BY <1>1, <2>1, <2>2 DEF DriverOK, NothingOverdue
  <2> QED BY <2>1, <2>3 DEF DriverInv, Abstract!Next, Abstract!Reset
<1>11. CASE UNCHANGED vars
  <2>1. EvInv' /\ UNCHANGED <<Elements, serial, returned>> /\ UNCHANGED Abstract!listVars
    BY <1>11, ListRests DEF vars
  <2>2. DriverOK'
    BY <1>1, <1>11, <2>1 DEF vars, driverVars, DriverOK, NothingOverdue
  <2> QED BY <2>1, <2>2 DEF DriverInv
<1> QED BY <1>2, <1>3, <1>4, <1>5, <1>6, <1>7, <1>8, <1>9, <1>10, <1>11 DEF DriverNext

(* Simulated time never passes an event that is on the list, and an event  *)
(* occurs at its time (driver.c, DriverRun), with a list that resizes      *)
(* itself between any two events.                                          *)
THEOREM TimeIsRight == DriverSpec => []NothingOverdue
<1>1. DriverInit => DriverInv
  BY DriverStarts
<1>2. DriverInv /\ [DriverNext]_vars => DriverInv'
  BY DriverStep
<1>3. DriverInv => NothingOverdue
  BY DEF DriverInv, DriverOK
<1> QED BY <1>1, <1>2, <1>3, PTL DEF DriverSpec

(* The driver uses the event list as its operations are meant: what it     *)
(* sees is an event list in the order of time and of insertion (evlst.c).  *)
THEOREM DriverRefines == DriverSpec => ListSpec
<1>1. DriverInit => DriverInv /\ Abstract!Init
  <2> SUFFICES ASSUME DriverInit PROVE DriverInv /\ Abstract!Init
    OBVIOUS
  <2>1. Elements = {} /\ serial = 0 /\ returned = NULL
    BY EvInit DEF DriverInit, Init
  <2> QED BY <2>1, DriverStarts DEF Abstract!Init
<1>2. DriverInv /\ [DriverNext]_vars => DriverInv' /\ [Abstract!Next]_(Abstract!listVars)
  BY DriverStep
<1> QED BY <1>1, <1>2, PTL DEF DriverSpec, ListSpec, Abstract!Spec
=============================================================================
