-------------------------- MODULE MemoryStoreProofs --------------------------
(***************************************************************************)
(* The pages that the memory store gives out are those that were asked for *)
(* (if they fit an int) and stay so, and the store implements the abstract *)
(* one, for any keys, limits, capacities, requests and configurations and  *)
(* any size of an int.                                                     *)
(***************************************************************************)
EXTENDS MemoryStore, FiniteSetTheorems, TLAPS

-----------------------------------------------------------------------------
(* Ints and pages *)

Half == Word \div 2

(***************************************************************************)
(* What wraps around is between the bounds, and right but for a multiple   *)
(* of the number of values.                                                *)
(***************************************************************************)
LEMMA Wrapped ==
    ASSUME NEW x \in Int
    PROVE  /\ Wrap(x) \in -Half..Half - 1
           /\ \E q \in Int : Wrap(x) = x + q * Word
<1> DEFINE y == x + Half
           q == -(y \div Word)
<1>1. Word \in Nat \ {0} /\ Half \in Nat /\ Word = 2 * Half
  BY PagingAssumption DEF Half
<1>2. Wrap(x) = (y % Word) - Half
  BY DEF Wrap, Half
<1>3. y \in Int
  BY <1>1
<1> HIDE DEF y
<1>4. y \div Word \in Int /\ y % Word \in 0..Word - 1
  BY <1>1, <1>3
<1>5. y = Word * (y \div Word) + (y % Word)
  BY <1>1, <1>3
<1>6. q \in Int /\ q * Word = -(Word * (y \div Word))
  BY <1>1, <1>4
<1> HIDE DEF q
<1>7. Wrap(x) = x + q * Word
  BY <1>1, <1>2, <1>4, <1>5, <1>6 DEF y
<1>8. Wrap(x) \in -Half..Half - 1
  BY <1>1, <1>2, <1>4
<1> QED BY <1>6, <1>7, <1>8

(***************************************************************************)
(* What fits an int does not wrap around.                                  *)
(***************************************************************************)
LEMMA Fits ==
    ASSUME NEW x \in -Half..Half - 1
    PROVE  Wrap(x) = x
<1>1. Word \in Nat \ {0} /\ Half \in Nat /\ Word = 2 * Half
  BY PagingAssumption DEF Half
<1>0. x \in Int
  BY <1>1
<1>2. PICK q \in Int : Wrap(x) = x + q * Word
  BY <1>0, Wrapped
<1>3. Wrap(x) \in -Half..Half - 1
  BY <1>1, Wrapped
<1>4. q * Word < Word /\ q * Word > -Word
  <2>1. q * Word \in Int /\ q * Word = Wrap(x) - x
    BY <1>1, <1>2, <1>3
  <2> QED BY <1>1, <1>3, <2>1
<1>5. q = 0
  <2>1. CASE q >= 1
    <3>1. q * Word >= Word
      BY <1>1, <2>1
    <3> QED BY <1>1, <1>4, <3>1
  <2>2. CASE q <= -1
    <3>1. q * Word <= -Word
      BY <1>1, <2>2
    <3> QED BY <1>1, <1>4, <3>1
  <2> QED BY <2>1, <2>2
<1> QED BY <1>1, <1>2, <1>5

(***************************************************************************)
(* Whatever overflows, the slice expression of a page does not panic.      *)
(***************************************************************************)
LEMMA PageInRange ==
    ASSUME NEW n \in 0..Half - 1, NEW page \in Nat \ {0}, NEW size \in 1..Half - 1
    PROVE  InRange(Bounds(n, page, size), n)
<1>1. Word \in Nat \ {0} /\ Half \in Nat /\ Word = 2 * Half
  BY PagingAssumption DEF Half
<1> DEFINE whole == page * size
           start == Wrap(n - Wrap(whole))
           end   == Wrap(n - Wrap((page - 1) * size))
<1>2. whole \in Int /\ (page - 1) * size = whole - size
  BY <1>1
<1> HIDE DEF whole
<1>13. whole - size \in Int
  BY <1>1, <1>2
<1> HIDE DEF Half
<1>3. PICK a \in Int : Wrap(whole) = whole + a * Word
  BY <1>2, Wrapped
<1>4. PICK b \in Int : Wrap(whole - size) = whole - size + b * Word
  BY <1>13, Wrapped
<1>5. Wrap(whole) \in Int /\ Wrap(whole - size) \in Int
  BY <1>1, <1>2, <1>13, Wrapped
<1>14. n - Wrap(whole) \in Int /\ n - Wrap(whole - size) \in Int
  BY <1>1, <1>5
<1>6. PICK c \in Int : start = n - Wrap(whole) + c * Word
  BY <1>14, Wrapped
<1>7. PICK d \in Int : end = n - Wrap(whole - size) + d * Word
  BY <1>2, <1>14, Wrapped
<1>8. start \in Int /\ end \in Int
  BY <1>1, <1>2, <1>14, Wrapped
<1> HIDE DEF start, end
<1> DEFINE q == a - b + d - c
<1>9. q \in Int /\ q * Word = a * Word - b * Word + d * Word - c * Word
  BY <1>1
<1> HIDE DEF q
<1>10. end - start = size + q * Word
  <2>1. a * Word \in Int /\ b * Word \in Int /\ c * Word \in Int /\ d * Word \in Int
    BY <1>1
  <2> QED BY <1>1, <1>2, <1>3, <1>4, <1>6, <1>7, <1>8, <1>9, <2>1
<1>11. start \in 0..n /\ end \in 0..n => start <= end
  <2> SUFFICES ASSUME start \in 0..n, end \in 0..n, q <= -1 PROVE FALSE
    <3>1. q >= 0 => q * Word >= 0
      BY <1>1, <1>9
    <3> QED BY <1>1, <1>8, <1>9, <1>10, <3>1
  <2>1. q * Word <= -Word
    BY <1>1, <1>9
  <2> QED BY <1>1, <1>9, <1>10, <2>1
<1>12. Bounds(n, page, size)
         = [from |-> IF start > n THEN -1 ELSE IF start < 0 THEN 0 ELSE start,
            to   |-> IF end > n THEN n ELSE end]
  BY <1>1 DEF Bounds, start, end, whole
<1> QED BY <1>1, <1>8, <1>11, <1>12 DEF InRange, Exists

(***************************************************************************)
(* The part of a part of a sequence.                                       *)
(***************************************************************************)
LEMMA PartOfPart ==
    ASSUME NEW S, NEW seq \in Seq(S), NEW from \in Nat, NEW to \in 0..Len(seq), from <= to,
           NEW x \in Nat, NEW y \in 0..to - from, x <= y
    PROVE  SubSeq(SubSeq(seq, from + 1, to), x + 1, y) = SubSeq(seq, from + x + 1, from + y)
<1> DEFINE part == SubSeq(seq, from + 1, to)
           a == SubSeq(part, x + 1, y)
           b == SubSeq(seq, from + x + 1, from + y)
<1>1. Len(seq) \in Nat
  OBVIOUS
<1>2. /\ part \in Seq(S) /\ Len(part) = to - from
      /\ \A i \in 1..Len(part) : part[i] = seq[from + i]
  BY <1>1
<1>3. /\ b \in Seq(S) /\ Len(b) = y - x
      /\ \A i \in 1..y - x : b[i] = seq[from + x + i]
  BY <1>1
<1> HIDE DEF part, b
<1>4. /\ a \in Seq(S) /\ Len(a) = y - x
      /\ \A i \in 1..y - x : a[i] = part[x + i]
  BY <1>1, <1>2
<1> HIDE DEF a
<1>5. ASSUME NEW i \in 1..y - x PROVE a[i] = b[i]
  <2>1. x + i \in 1..Len(part) /\ from + (x + i) = from + x + i
    BY <1>1, <1>2
  <2> QED BY <1>2, <1>3, <1>4, <2>1
<1>6. a = b
  BY <1>3, <1>4, <1>5
<1> QED BY <1>6 DEF a, b, part

(***************************************************************************)
(* What is appended to a sequence is behind every part of it.              *)
(***************************************************************************)
LEMMA PartAfterAppend ==
    ASSUME NEW S, NEW seq \in Seq(S), NEW e \in S, NEW from \in Nat, NEW to \in 0..Len(seq),
           from <= to
    PROVE  SubSeq(Append(seq, e), from + 1, to) = SubSeq(seq, from + 1, to)
<1> DEFINE longer == Append(seq, e)
           a == SubSeq(longer, from + 1, to)
           b == SubSeq(seq, from + 1, to)
<1>1. /\ longer \in Seq(S) /\ Len(longer) = Len(seq) + 1 /\ Len(seq) \in Nat
      /\ \A i \in 1..Len(seq) : longer[i] = seq[i]
  OBVIOUS
<1>2. b \in Seq(S) /\ Len(b) = to - from /\ \A i \in 1..to - from : b[i] = seq[from + i]
  BY <1>1
<1> HIDE DEF longer, b
<1>3. a \in Seq(S) /\ Len(a) = to - from /\ \A i \in 1..to - from : a[i] = longer[from + i]
  BY <1>1
<1> HIDE DEF a
<1>4. ASSUME NEW i \in 1..to - from PROVE a[i] = b[i]
  <2>1. from + i \in 1..Len(seq)
    BY <1>1
  <2> QED BY <1>1, <1>2, <1>3, <2>1
<1>5. a = b
  BY <1>2, <1>3, <1>4
<1> QED BY <1>5 DEF a, b, longer

(***************************************************************************)
(* It is next to the part that goes to the end.                            *)
(***************************************************************************)
LEMMA EndAfterAppend ==
    ASSUME NEW S, NEW seq \in Seq(S), NEW e \in S, NEW from \in Nat, from <= Len(seq)
    PROVE  SubSeq(Append(seq, e), from + 1, Len(seq) + 1)
              = Append(SubSeq(seq, from + 1, Len(seq)), e)
<1> DEFINE longer == Append(seq, e)
           to == Len(seq)
           c == SubSeq(longer, from + 1, to + 1)
           b == SubSeq(seq, from + 1, to)
           d == Append(b, e)
<1>1. /\ longer \in Seq(S) /\ Len(longer) = to + 1 /\ longer[to + 1] = e
      /\ to \in Nat /\ from <= to
      /\ \A i \in 1..to : longer[i] = seq[i]
  OBVIOUS
<1>2. b \in Seq(S) /\ Len(b) = to - from /\ \A i \in 1..to - from : b[i] = seq[from + i]
  BY <1>1
<1> HIDE DEF longer, to, b
<1>3. /\ c \in Seq(S) /\ Len(c) = to - from + 1
      /\ \A i \in 1..to - from + 1 : c[i] = longer[from + i]
  BY <1>1
<1>4. /\ d \in Seq(S) /\ Len(d) = to - from + 1 /\ d[to - from + 1] = e
      /\ \A i \in 1..to - from : d[i] = b[i]
  <2>1. /\ d \in Seq(S) /\ Len(d) = Len(b) + 1 /\ d[Len(b) + 1] = e
        /\ \A i \in 1..Len(b) : d[i] = b[i]
    BY <1>2
  <2> HIDE DEF d
  <2> QED BY <1>2, <2>1
<1> HIDE DEF c, d
<1>5. ASSUME NEW i \in 1..to - from + 1 PROVE c[i] = d[i]
  <2>1. CASE i = to - from + 1
    <3>1. from + i = to + 1
      BY <1>1, <2>1
    <3> QED BY <1>1, <1>3, <1>4, <2>1, <3>1
  <2>2. CASE i # to - from + 1
    <3>1. i \in 1..to - from /\ from + i \in 1..to
      BY <1>1, <2>2
    <3> QED BY <1>1, <1>2, <1>3, <1>4, <3>1
  <2> QED BY <2>1, <2>2
<1>6. c = d
  BY <1>1, <1>3, <1>4, <1>5
<1> QED BY <1>6 DEF b, c, d, longer, to

(***************************************************************************)
(* A page that does not overflow shows the positions that belong on it.    *)
(***************************************************************************)
LEMMA PageIsThatAskedFor ==
    ASSUME NEW seq \in Seq(BOOLEAN), Len(seq) \in 0..Half - 1, NEW page \in Nat \ {0},
           NEW size \in 1..Half - 1, page * size < Half,
           NEW bounds, bounds = Bounds(Len(seq), page, size)
    PROVE  Reference(seq, page, size) =
              IF Exists(bounds) THEN SubSeq(seq, bounds.from + 1, bounds.to) ELSE <<>>
<1> DEFINE n == Len(seq)
           whole == page * size
           start == n - whole
           end   == n - (page - 1) * size
<1>1. Word \in Nat \ {0} /\ Half \in Nat /\ Word = 2 * Half
  BY PagingAssumption DEF Half
<1>2. whole \in Nat /\ (page - 1) * size = whole - size /\ whole >= size
  <2>1. (page - 1) * size \in Nat /\ page * size = (page - 1) * size + size
    BY <1>1
  <2> QED BY <1>1, <2>1
<1> HIDE DEF whole
<1>3. end = start + size /\ start \in Int /\ end \in Int /\ n \in Nat
  BY <1>1, <1>2
<1>4. Wrap(whole) = whole /\ Wrap(whole - size) = whole - size
  <2>1. whole \in -Half..Half - 1 /\ whole - size \in -Half..Half - 1
    BY <1>1, <1>2 DEF whole
  <2> QED BY <2>1, Fits
<1>5. Wrap(start) = start /\ Wrap(end) = end
  <2>1. start \in -Half..Half - 1 /\ end \in -Half..Half - 1
    BY <1>1, <1>2 DEF whole
  <2> QED BY <2>1, Fits
<1>6. Bounds(n, page, size)
         = [from |-> IF start > n THEN -1 ELSE IF start < 0 THEN 0 ELSE start,
            to   |-> IF end > n THEN n ELSE end]
  BY <1>1, <1>2, <1>4, <1>5 DEF Bounds, whole
<1>7. start < n /\ end <= n /\ start < end
  BY <1>1, <1>2, <1>3
<1>9. OnPage(n, page, size) = {i \in 1..n : start < i /\ i <= end}
  <2>1. \A i \in 1..n : /\ (page - 1) * size <= n - i <=> i <= end
                        /\ n - i < page * size <=> start < i
    BY <1>1, <1>2, <1>3 DEF whole
  <2> QED BY <2>1 DEF OnPage
<1> HIDE DEF start, end
<1>8. bounds.from = (IF start < 0 THEN 0 ELSE start) /\ bounds.to = end
  <2>1. bounds = [from |-> IF start < 0 THEN 0 ELSE start, to |-> end]
    BY <1>3, <1>6, <1>7
  <2> QED BY <2>1
<1>10. CASE end <= 0
  <2>1. OnPage(n, page, size) = {}
    BY <1>3, <1>9, <1>10
  <2>2. Reference(seq, page, size) = <<>>
    BY <2>1 DEF Reference
  <2>3. Exists(bounds) => bounds.from + 1 > bounds.to
    BY <1>3, <1>7, <1>8, <1>10 DEF Exists
  <2>4. Exists(bounds) => SubSeq(seq, bounds.from + 1, bounds.to) = <<>>
    BY <1>3, <1>8, <2>3 DEF Exists
  <2> QED BY <2>2, <2>4
<1>11. CASE end > 0
  <2> DEFINE low == bounds.from + 1
             here == OnPage(n, page, size)
  <2>1. low \in 1..end /\ bounds.from \in Nat /\ end \in 1..n
    BY <1>3, <1>7, <1>8, <1>11
  <2>2. here = low..end
    <3>1. \A i \in Int : i \in 1..n /\ start < i /\ i <= end <=> i \in low..end
      BY <1>3, <1>7, <1>8, <2>1
    <3>2. 1..n \subseteq Int /\ low..end \subseteq Int
      BY <1>3, <2>1
    <3> HIDE DEF low
    <3>3. \A i : i \in here <=> i \in 1..n /\ start < i /\ i <= end
      BY <1>9
    <3> HIDE DEF here
    <3>4. \A i : i \in here <=> i \in low..end
      BY <3>1, <3>2, <3>3
    <3> QED BY <3>4
  <2>3. Cardinality(here) = end - low + 1
    <3>1. low \in Int /\ end \in Int /\ ~(low > end)
      BY <1>3, <2>1
    <3> HIDE DEF low, here
    <3> QED BY <2>2, <3>1, FS_Interval
  <2> HIDE DEF here, low
  <2>4. (CHOOSE i \in here : \A j \in here : i <= j) = low
    BY <2>1, <2>2
  <2>5. here # {}
    BY <2>1, <2>2
  <2>6. Reference(seq, page, size) = SubSeq(seq, low, low + Cardinality(here) - 1)
    BY <2>4, <2>5 DEF Reference, here
  <2>7. low + Cardinality(here) - 1 = end
    BY <1>3, <2>1, <2>3
  <2>8. Exists(bounds)
    BY <1>8, <1>11, <2>1, <1>3 DEF Exists
  <2> QED BY <1>8, <2>6, <2>7, <2>8 DEF low
<1> QED BY <1>3, <1>10, <1>11

-----------------------------------------------------------------------------
(* The newest elements *)

(***************************************************************************)
(* The newest elements of a sequence are elements of it.                   *)
(***************************************************************************)
LEMMA NewestTyped ==
    ASSUME NEW S, NEW seq \in Seq(S), NEW n \in Nat \ {0}
    PROVE  Newest(seq, n) \in Seq(S)
<1>1. CASE Len(seq) <= n
  BY <1>1 DEF Newest
<1>2. CASE ~(Len(seq) <= n)
  <2> DEFINE first == Len(seq) - n + 1
             last  == Len(seq)
  <2>1. Newest(seq, n) = SubSeq(seq, first, last)
    BY <1>2 DEF Newest
  <2>2. first \in 1..last /\ last = Len(seq)
    BY <1>2
  <2> HIDE DEF first, last
  <2>3. SubSeq(seq, first, last) \in Seq(S)
    BY <2>2
  <2> QED BY <2>1, <2>3
<1> QED BY <1>1, <1>2

(***************************************************************************)
(* Newest(seq, n) has the n last elements, or all of them, in their order. *)
(***************************************************************************)
LEMMA NewestElements ==
    ASSUME NEW S, NEW seq \in Seq(S), NEW n \in Nat \ {0}
    PROVE  /\ Len(Newest(seq, n)) = IF Len(seq) <= n THEN Len(seq) ELSE n
           /\ Len(seq) \in Nat
           /\ \A i \in 1..Len(Newest(seq, n)) :
                 Newest(seq, n)[i] = seq[Len(seq) - Len(Newest(seq, n)) + i]
<1>1. CASE Len(seq) <= n
  BY <1>1 DEF Newest
<1>2. CASE Len(seq) > n
  <2> DEFINE first == Len(seq) - n + 1
             part == SubSeq(seq, first, Len(seq))
  <2>1. Newest(seq, n) = part /\ first \in 2..Len(seq) /\ Len(seq) \in Nat
    BY <1>2 DEF Newest
  <2>2. Len(part) = n /\ \A i \in 1..n : part[i] = seq[first + i - 1]
    BY <2>1
  <2> HIDE DEF part
  <2>3. \A i \in 1..n : first + i - 1 = Len(seq) - n + i
    BY <2>1
  <2> QED
    BY <1>2, <2>1, <2>2, <2>3
<1> QED
  BY <1>1, <1>2

(***************************************************************************)
(* Cutting twice is cutting once.                                          *)
(***************************************************************************)
LEMMA NewestTwice ==
    ASSUME NEW S, NEW seq \in Seq(S), NEW n \in Nat \ {0}
    PROVE  Newest(Newest(seq, n), n) = Newest(seq, n)
<1>1. Len(Newest(seq, n)) <= n
  BY NewestElements
<1> QED
  BY <1>1 DEF Newest

(***************************************************************************)
(* What is cut before one more element is appended is not missed after.    *)
(***************************************************************************)
LEMMA NewestAfterAppend ==
    ASSUME NEW S, NEW seq \in Seq(S), NEW e \in S, NEW n \in Nat \ {0}
    PROVE  Newest(Append(Newest(seq, n), e), n) = Newest(Append(seq, e), n)
<1> DEFINE cut == Newest(seq, n)
           less == Append(cut, e)
           more == Append(seq, e)
           a == Newest(less, n)
           b == Newest(more, n)
<1>1. cut \in Seq(S)
  BY NewestTyped
<1>2. /\ Len(seq) \in Nat
      /\ Len(cut) = IF Len(seq) <= n THEN Len(seq) ELSE n
      /\ \A i \in 1..Len(cut) : cut[i] = seq[Len(seq) - Len(cut) + i]
  BY NewestElements
<1> HIDE DEF cut
<1>3. /\ less \in Seq(S) /\ Len(less) = Len(cut) + 1 /\ less[Len(cut) + 1] = e
      /\ \A i \in 1..Len(cut) : less[i] = cut[i]
  BY <1>1
<1>4. /\ more \in Seq(S) /\ Len(more) = Len(seq) + 1 /\ more[Len(seq) + 1] = e
      /\ \A i \in 1..Len(seq) : more[i] = seq[i]
  OBVIOUS
<1> HIDE DEF less, more
<1>5. /\ Len(a) = IF Len(less) <= n THEN Len(less) ELSE n
      /\ \A i \in 1..Len(a) : a[i] = less[Len(less) - Len(a) + i]
  BY <1>3, NewestElements
<1>6. /\ Len(b) = IF Len(more) <= n THEN Len(more) ELSE n
      /\ \A i \in 1..Len(b) : b[i] = more[Len(more) - Len(b) + i]
  BY <1>4, NewestElements
<1>7. a \in Seq(S) /\ b \in Seq(S)
  BY <1>3, <1>4, NewestTyped
<1> HIDE DEF a, b
<1>8. /\ Len(seq) \in Nat /\ Len(cut) \in Nat /\ Len(a) \in 1..n /\ Len(b) = Len(a)
      /\ Len(less) = Len(cut) + 1 /\ Len(more) = Len(seq) + 1
      /\ Len(cut) <= Len(seq) /\ Len(a) <= Len(less)
  BY <1>2, <1>3, <1>4, <1>5, <1>6
<1>9. ASSUME NEW i \in 1..Len(a) PROVE a[i] = b[i]
  <2> DEFINE inLess == Len(less) - Len(a) + i
             inMore == Len(more) - Len(b) + i
  <2>1. a[i] = less[inLess] /\ b[i] = more[inMore]
    BY <1>5, <1>6, <1>8
  <2>2. CASE i = Len(a)
    <3>1. inLess = Len(cut) + 1 /\ inMore = Len(seq) + 1
      BY <2>2, <1>8
    <3> HIDE DEF inLess, inMore
    <3> QED
      BY <2>1, <3>1, <1>3, <1>4
  <2>3. CASE i < Len(a)
    <3>1. /\ inLess \in 1..Len(cut) /\ inMore \in 1..Len(seq)
          /\ Len(seq) - Len(cut) + inLess = inMore
      BY <2>3, <1>8
    <3> HIDE DEF inLess, inMore
    <3>2. less[inLess] = cut[inLess] /\ more[inMore] = seq[inMore]
      BY <3>1, <1>3, <1>4
    <3> QED
      BY <2>1, <3>1, <3>2, <1>2
  <2> QED
    BY <2>2, <2>3, <1>8
<1>10. a = b
  BY <1>7, <1>8, <1>9
<1> QED
  BY <1>10 DEF a, b, cut, less, more

-----------------------------------------------------------------------------
(* The invariant *)

Typed ==
    /\ heap \in [Arrays -> Seq(BOOLEAN)]
    /\ status \in [Keys -> Statuses \cup {None}]
    /\ inserting \in [Inserters -> Insertions \cup {None}]
    /\ answer \in [Readers -> Answers \cup {None}]
    /\ doomed \subseteq Keys /\ monitored \subseteq Keys /\ strangers \subseteq Keys

\* At most one insertion is under way, and of a status that it works on there
\* is no other version in the store.
OneCopy ==
    /\ \A i, j \in Inserters : inserting[i] # None /\ inserting[j] # None => i = j
    /\ \A i \in Inserters : inserting[i] # None =>
          status[inserting[i].key] \in {inserting[i].status, None}

\* The results of a status: some, not more than are kept, up to where its array
\* has been written.
StoreSlice(h, slice) ==
    /\ slice.from < slice.to /\ slice.to <= Capacity
    /\ slice.to - slice.from <= MaxResults
    /\ slice.to = Len(h[slice.array])

\* Every status has an array to itself; answers may refer to it too.
OwnArrays ==
    /\ \A k \in Keys : Visible(k) # None => StoreSlice(heap, Visible(k).results)
    /\ \A k, l \in Keys : Visible(k) # None /\ Visible(l) # None /\ k # l =>
          Visible(k).results.array # Visible(l).results.array

FreeArraysEmpty == \A a \in Arrays \ Live : heap[a] = <<>>

\* What a request was given lies where its array has been written.
Written(h, slice) == slice.from <= slice.to /\ slice.to <= Len(h[slice.array])

AnswersWritten ==
    \A r \in Readers : answer[r] # None =>
        /\ answer[r].inRange
        /\ answer[r].shown = Shown(heap, answer[r].slice)
        /\ answer[r].fits => answer[r].right
        /\ answer[r].slice # None => Written(heap, answer[r].slice)

Inv == Typed /\ OneCopy /\ OwnArrays /\ FreeArraysEmpty /\ AnswersWritten

-----------------------------------------------------------------------------
(* Who refers to what *)

VisibleKnown ==
    /\ \A i \in Inserters, k \in Keys : inserting[i] # None /\ inserting[i].key = k =>
          Visible(k) = inserting[i].status
    /\ \A k \in Keys : (\A i \in Inserters : inserting[i] # None => inserting[i].key # k) =>
          Visible(k) = status[k]
    /\ \A k \in Keys : Visible(k) \in Statuses \cup {None}
    /\ \A k \in Keys : status[k] # None => Visible(k) = status[k]

Given(a) ==
    \E r \in Readers : answer[r] # None /\ answer[r].slice # None /\ answer[r].slice.array = a

LiveKnown ==
    \A a : a \in Live <=>
        \/ \E k \in Keys : Visible(k) # None /\ Visible(k).results.array = a
        \/ Given(a)

(***************************************************************************)
(* The status that others see is that of the only insertion under way, or  *)
(* else the one in the store.                                              *)
(***************************************************************************)
LEMMA WhatIsVisible == Typed /\ OneCopy => VisibleKnown
<1> SUFFICES ASSUME Typed, OneCopy PROVE VisibleKnown
  OBVIOUS
<1>1. ASSUME NEW i \in Inserters, inserting[i] # None
      PROVE  /\ Visible(inserting[i].key) = inserting[i].status
             /\ inserting[i].key \in Keys /\ inserting[i].status \in Statuses \cup {None}
  <2> DEFINE at == {j \in Inserters : inserting[j] # None /\ inserting[j].key = inserting[i].key}
  <2>1. at = {i}
    BY <1>1 DEF OneCopy
  <2>2. (CHOOSE j \in at : TRUE) = i
    BY <2>1
  <2>3. Visible(inserting[i].key) = inserting[i].status
    BY <2>1, <2>2 DEF Visible
  <2>4. inserting[i] \in Insertions
    BY <1>1 DEF Typed
  <2> QED BY <2>3, <2>4 DEF Insertions
<1>2. ASSUME NEW k \in Keys, \A i \in Inserters : inserting[i] # None => inserting[i].key # k
      PROVE  Visible(k) = status[k]
  <2>1. {j \in Inserters : inserting[j] # None /\ inserting[j].key = k} = {}
    BY <1>2
  <2> QED BY <2>1 DEF Visible
<1>3. \A k \in Keys : status[k] \in Statuses \cup {None}
  BY DEF Typed
<1>4. ASSUME NEW k \in Keys
      PROVE  /\ Visible(k) \in Statuses \cup {None}
             /\ status[k] # None => Visible(k) = status[k]
  <2>1. CASE \E i \in Inserters : inserting[i] # None /\ inserting[i].key = k
    BY <1>1, <2>1 DEF OneCopy
  <2>2. CASE \A i \in Inserters : inserting[i] # None => inserting[i].key # k
    BY <1>2, <1>3, <2>2
  <2> QED BY <2>1, <2>2
<1> QED BY <1>1, <1>2, <1>4 DEF VisibleKnown

(***************************************************************************)
(* An array is live if the status of a key or an answer refers to it.      *)
(***************************************************************************)
LEMMA WhatIsLive == Typed /\ OneCopy => LiveKnown
<1> SUFFICES ASSUME Typed, OneCopy, NEW a
             PROVE  a \in Live <=>
                       \/ \E k \in Keys : Visible(k) # None /\ Visible(k).results.array = a
                       \/ Given(a)
  BY DEF LiveKnown
<1>1. VisibleKnown
  BY WhatIsVisible
<1>2. \A i \in Inserters : inserting[i] # None => inserting[i].key \in Keys
  <2>1. \A i \in Inserters : inserting[i] # None => inserting[i] \in Insertions
    BY DEF Typed
  <2> QED BY <2>1 DEF Insertions
<1>3. a \in Live <=>
         \/ \E k \in Keys : status[k] # None /\ status[k].results.array = a
         \/ \E i \in Inserters : /\ inserting[i] # None /\ inserting[i].status # None
                                 /\ inserting[i].status.results.array = a
         \/ Given(a)
  BY DEF Live, Found, Given
<1>4. ASSUME NEW k \in Keys, status[k] # None, status[k].results.array = a
      PROVE  \E l \in Keys : Visible(l) # None /\ Visible(l).results.array = a
  BY <1>1, <1>4 DEF VisibleKnown
<1>5. ASSUME NEW i \in Inserters, inserting[i] # None, inserting[i].status # None,
             inserting[i].status.results.array = a
      PROVE  \E l \in Keys : Visible(l) # None /\ Visible(l).results.array = a
  BY <1>1, <1>2, <1>5 DEF VisibleKnown
<1>6. ASSUME NEW k \in Keys, Visible(k) # None, Visible(k).results.array = a
      PROVE  \/ \E l \in Keys : status[l] # None /\ status[l].results.array = a
             \/ \E i \in Inserters : /\ inserting[i] # None /\ inserting[i].status # None
                                     /\ inserting[i].status.results.array = a
  <2>1. CASE \E i \in Inserters : inserting[i] # None /\ inserting[i].key = k
    BY <1>1, <1>6, <2>1 DEF VisibleKnown
  <2>2. CASE \A i \in Inserters : inserting[i] # None => inserting[i].key # k
    BY <1>1, <1>6, <2>2 DEF VisibleKnown
  <2> QED BY <2>1, <2>2
<1> QED BY <1>3, <1>4, <1>5, <1>6

(***************************************************************************)
(* There is an array that nothing refers to.                               *)
(***************************************************************************)
LEMMA RoomLeft ==
    ASSUME Typed, OneCopy
    PROVE  (CHOOSE a \in Arrays : a \notin Live) \in Arrays \ Live
<1> DEFINE K == {k \in Keys : Visible(k) # None}
           R == {r \in Readers : answer[r] # None /\ answer[r].slice # None}
           f == [k \in K |-> Visible(k).results.array]
           g == [r \in R |-> answer[r].slice.array]
           A == {f[k] : k \in K}
           B == {g[r] : r \in R}
<1>1. IsFiniteSet(K) /\ Cardinality(K) <= Cardinality(Keys)
  BY MemoryAssumption, FS_Subset
<1>2. IsFiniteSet(R) /\ Cardinality(R) <= Cardinality(Readers)
  BY MemoryAssumption, FS_Subset
<1> HIDE DEF K, R
<1>3. f \in Surjection(K, A) /\ g \in Surjection(R, B)
  BY DEF Surjection
<1> HIDE DEF f, g
<1>4. /\ IsFiniteSet(A) /\ Cardinality(A) <= Cardinality(K)
      /\ IsFiniteSet(B) /\ Cardinality(B) <= Cardinality(R)
  BY <1>1, <1>2, <1>3, FS_Surjection
<1> HIDE DEF A, B
<1>5. /\ IsFiniteSet(A \cup B)
      /\ Cardinality(A \cup B) = Cardinality(A) + Cardinality(B) - Cardinality(A \cap B)
  BY <1>4, FS_Union
<1>6. IsFiniteSet(A \cap B)
  <2>1. (A \cap B) \in SUBSET A
    OBVIOUS
  <2> QED BY <1>4, <2>1, FS_Subset
<1>7. /\ Cardinality(A) \in Nat /\ Cardinality(B) \in Nat /\ Cardinality(A \cap B) \in Nat
      /\ Cardinality(K) \in Nat /\ Cardinality(R) \in Nat
      /\ Cardinality(Keys) \in Nat /\ Cardinality(Readers) \in Nat
      /\ Cardinality(Arrays) \in Nat
  BY <1>1, <1>2, <1>4, <1>6, MemoryAssumption, FS_CardinalityType
<1>8. Cardinality(A \cup B) < Cardinality(Arrays)
  BY <1>1, <1>2, <1>4, <1>5, <1>7, MemoryAssumption
<1>9. Live \subseteq A \cup B
  BY WhatIsLive DEF LiveKnown, Given, A, B, f, g, K, R
<1>10. ASSUME Arrays \subseteq Live PROVE FALSE
  <2>1. Arrays \in SUBSET (A \cup B)
    BY <1>9, <1>10
  <2>2. Cardinality(Arrays) <= Cardinality(A \cup B)
    BY <1>5, <2>1, FS_Subset
  <2>3. Cardinality(A \cup B) \in Nat
    BY <1>5, FS_CardinalityType
  <2> QED BY <1>7, <1>8, <2>2, <2>3
<1>11. \E a \in Arrays : a \notin Live
  BY <1>10
<1> QED BY <1>11

-----------------------------------------------------------------------------
(* One more result *)

(***************************************************************************)
(* Moving the start of a slice cuts it to its newest elements.             *)
(***************************************************************************)
LEMMA MovedStart ==
    ASSUME NEW seq \in Seq(BOOLEAN), NEW from \in Nat, NEW to \in Nat,
           from < to, to = Len(seq)
    PROVE  SubSeq(seq, (IF to - from > MaxResults THEN to - MaxResults ELSE from) + 1, to)
              = Newest(SubSeq(seq, from + 1, to), MaxResults)
<1> DEFINE part == SubSeq(seq, from + 1, to)
           x == to - from - MaxResults
<1>1. MaxResults \in Nat \ {0}
  BY StoreAssumption
<1>2. Len(part) = to - from /\ to - from \in Nat /\ x \in Int
  BY <1>1
<1>3. x + 1 = Len(part) - MaxResults + 1
  BY <1>1, <1>2
<1>4. CASE to - from > MaxResults
  <2>1. x \in Nat /\ to - from \in 0..to - from /\ x <= to - from /\ to \in 0..Len(seq)
    BY <1>1, <1>4
  <2> HIDE DEF x
  <2>2. SubSeq(part, x + 1, to - from) = SubSeq(seq, from + x + 1, from + (to - from))
    BY <2>1, PartOfPart
  <2>3. from + x + 1 = to - MaxResults + 1 /\ from + (to - from) = to
    BY <1>1 DEF x
  <2> HIDE DEF part
  <2>4. Newest(part, MaxResults) = SubSeq(part, x + 1, to - from)
    <3>1. ~(Len(part) <= MaxResults)
      BY <1>1, <1>2, <1>4
    <3> QED BY <1>2, <1>3, <3>1 DEF Newest
  <2> QED BY <1>4, <2>2, <2>3, <2>4 DEF part
<1>5. CASE ~(to - from > MaxResults)
  <2>1. Len(part) <= MaxResults
    BY <1>1, <1>2, <1>5
  <2> HIDE DEF part
  <2>2. Newest(part, MaxResults) = part
    BY <2>1 DEF Newest
  <2> QED BY <1>5, <2>2 DEF part
<1> QED BY <1>4, <1>5

\* The results of a status that may not be there yet.
ResultsIn(got) == IF got = None THEN <<>> ELSE Contents(heap, got.results)

(***************************************************************************)
(* Append leaves every array that is referred to as it was, but for what   *)
(* it writes behind the slice, and makes the slice longer by the result.   *)
(***************************************************************************)
LEMMA AppendAddsOne ==
    ASSUME Inv, NEW got \in Statuses \cup {None}, NEW success \in BOOLEAN,
           got # None => StoreSlice(heap, got.results),
           NEW added, added = Appended(heap, StatusOrNew(got).results, success)
    PROVE  /\ added.slice \in Slices /\ added.heap \in [Arrays -> Seq(BOOLEAN)]
           /\ added.slice.from < added.slice.to /\ added.slice.to <= Capacity
           /\ added.slice.to = Len(added.heap[added.slice.array])
           /\ Contents(added.heap, added.slice) = Append(ResultsIn(got), success)
           /\ \A a \in Arrays \ {added.slice.array} : added.heap[a] = heap[a]
           /\ added.slice.array \in Live =>
                 /\ got # None /\ added.slice.array = got.results.array
                 /\ added.heap[added.slice.array] = Append(heap[added.slice.array], success)
<1> DEFINE free == CHOOSE a \in Arrays : a \notin Live
           old  == StatusOrNew(got).results
<1>1. free \in Arrays /\ free \notin Live
  BY RoomLeft DEF Inv
<1>2. heap \in [Arrays -> Seq(BOOLEAN)] /\ heap[free] = <<>>
  BY <1>1 DEF Inv, Typed, FreeArraysEmpty
<1>3. Capacity \in Nat /\ MaxResults \in Nat \ {0} /\ Capacity > MaxResults
  BY MemoryAssumption, StoreAssumption
<1>4. CASE got = None
  <2>1. old = [array |-> free, from |-> 0, to |-> 0]
    BY <1>4 DEF StatusOrNew
  <2> HIDE DEF free, old
  <2>2. old.to < Capacity /\ ~(old.to < Len(heap[old.array]))
    BY <1>2, <1>3, <2>1
  <2>3. added = [heap  |-> [heap EXCEPT ![free] = Append(heap[free], success)],
                 slice |-> [old EXCEPT !.to = @ + 1]]
    BY <2>1, <2>2 DEF Appended, old
  <2>4. added.slice = [array |-> free, from |-> 0, to |-> 1]
    BY <2>1, <2>3
  <2>5. added.heap = [heap EXCEPT ![free] = <<success>>]
    BY <1>2, <2>3
  <2>6. added.heap \in [Arrays -> Seq(BOOLEAN)] /\ added.heap[free] = <<success>>
    BY <1>1, <1>2, <2>5
  <2>7. SubSeq(<<success>>, 1, 1) = <<success>> /\ Append(<<>>, success) = <<success>>
    <3> DEFINE one == <<success>>
               part == SubSeq(one, 1, 1)
    <3>1. one \in Seq(BOOLEAN) /\ Len(one) = 1 /\ one[1] = success
      OBVIOUS
    <3> HIDE DEF one
    <3>2. part \in Seq(BOOLEAN) /\ Len(part) = 1 /\ part[1] = one[1]
      BY <3>1
    <3> HIDE DEF part
    <3>3. part = one
      BY <3>1, <3>2
    <3> QED BY <3>3 DEF one, part
  <2>8. Contents(added.heap, added.slice) = Append(ResultsIn(got), success)
    <3>1. Contents(added.heap, added.slice) = SubSeq(added.heap[free], 1, 1)
      BY <2>4 DEF Contents
    <3>2. ResultsIn(got) = <<>>
      BY <1>4 DEF ResultsIn
    <3> QED BY <2>6, <2>7, <3>1, <3>2
  <2>9. Len(<<success>>) = 1
    OBVIOUS
  <2>10. added.slice \in Slices /\ added.slice.array = free /\ added.slice.to <= Capacity
         /\ added.slice.from < added.slice.to /\ added.slice.to = 1
    BY <1>1, <1>3, <2>4 DEF Slices
  <2>11. \A a \in Arrays \ {free} : added.heap[a] = heap[a]
    BY <1>2, <2>5
  <2> QED BY <1>1, <2>6, <2>8, <2>9, <2>10, <2>11
<1>5. CASE got # None /\ got.results.to < Capacity
  <2>1. old = got.results /\ old \in Slices /\ StoreSlice(heap, old)
    BY <1>5 DEF StatusOrNew, Statuses
  <2>2. /\ old.array \in Arrays /\ old.from \in Nat /\ old.to \in Nat
        /\ old.from < old.to /\ old.to = Len(heap[old.array]) /\ old.to < Capacity
    BY <1>5, <2>1 DEF Slices, StoreSlice
  <2> HIDE DEF free, old
  <2> DEFINE seq == heap[old.array]
  <2>3. added = [heap  |-> [heap EXCEPT ![old.array] = Append(seq, success)],
                 slice |-> [old EXCEPT !.to = @ + 1]]
    <3>1. old.to < Capacity /\ ~(old.to < Len(seq)) /\ added = Appended(heap, old, success)
      BY <2>2 DEF old
    <3> QED BY <3>1 DEF Appended
  <2>4. seq \in Seq(BOOLEAN)
    BY <1>2, <2>2
  <2> HIDE DEF seq
  <2>5. /\ added.slice \in Slices /\ added.slice.array = old.array
        /\ added.slice.from = old.from /\ added.slice.to = old.to + 1
    BY <2>1, <2>2, <2>3 DEF Slices
  <2>6. /\ added.heap \in [Arrays -> Seq(BOOLEAN)]
        /\ added.heap[old.array] = Append(seq, success)
        /\ \A a \in Arrays \ {old.array} : added.heap[a] = heap[a]
    BY <1>2, <2>2, <2>3, <2>4
  <2>7. Len(Append(seq, success)) = old.to + 1
    BY <2>2, <2>4 DEF seq
  <2>8. SubSeq(Append(seq, success), old.from + 1, old.to + 1)
          = Append(SubSeq(seq, old.from + 1, old.to), success)
    <3>1. old.to \in 0..Len(seq) /\ old.from <= old.to /\ old.to = Len(seq)
      BY <2>2, <2>4 DEF seq
    <3> DEFINE from == old.from
               to   == old.to
               S    == BOOLEAN
    <3>4. seq \in Seq(S) /\ success \in S
      BY <2>4
    <3>2. /\ from \in Nat /\ to \in 0..Len(seq) /\ from <= to /\ to = Len(seq)
      BY <2>2, <3>1
    <3> HIDE DEF from, to, S
    <3>3. SubSeq(Append(seq, success), from + 1, to + 1)
            = Append(SubSeq(seq, from + 1, to), success)
      BY <3>2, <3>4, EndAfterAppend
    <3> QED BY <3>3 DEF from, to
  <2>9. Contents(added.heap, added.slice) = Append(ResultsIn(got), success)
    BY <1>5, <2>1, <2>5, <2>6, <2>8 DEF Contents, ResultsIn, seq
  <2> QED BY <1>3, <1>5, <2>1, <2>2, <2>5, <2>6, <2>7, <2>9 DEF seq
<1>6. CASE got # None /\ ~(got.results.to < Capacity)
  <2>1. old = got.results /\ old \in Slices /\ StoreSlice(heap, old)
    BY <1>6 DEF StatusOrNew, Statuses
  <2>2. /\ old.array \in Arrays /\ old.from \in Nat /\ old.to \in Nat
        /\ old.from < old.to /\ old.to = Len(heap[old.array]) /\ ~(old.to < Capacity)
        /\ old.to - old.from <= MaxResults
    BY <1>6, <2>1 DEF Slices, StoreSlice
  <2> DEFINE shown == Contents(heap, old)
  <2>3. shown \in Seq(BOOLEAN) /\ Len(shown) = old.to - old.from
    <3>1. heap[old.array] \in Seq(BOOLEAN)
      BY <1>2, <2>2
    <3> HIDE DEF old
    <3> QED BY <2>2, <3>1 DEF Contents
  <2>4. added = [heap  |-> [heap EXCEPT ![free] = Append(shown, success)],
                 slice |-> [array |-> free, from |-> 0, to |-> old.to - old.from + 1]]
    BY <2>2 DEF Appended
  <2>5. ResultsIn(got) = shown
    BY <1>6, <2>1 DEF ResultsIn
  <2> HIDE DEF free, old, shown
  <2>6. /\ added.slice \in Slices /\ added.slice.array = free
        /\ added.slice.from = 0 /\ added.slice.to = Len(shown) + 1
    BY <1>1, <2>2, <2>3, <2>4 DEF Slices
  <2>7. /\ added.heap \in [Arrays -> Seq(BOOLEAN)]
        /\ added.heap[free] = Append(shown, success)
        /\ \A a \in Arrays \ {free} : added.heap[a] = heap[a]
    BY <1>1, <1>2, <2>3, <2>4
  <2>8. /\ Len(Append(shown, success)) = Len(shown) + 1
        /\ SubSeq(Append(shown, success), 1, Len(shown) + 1) = Append(shown, success)
    BY <2>3
  <2>9. Contents(added.heap, added.slice) = Append(ResultsIn(got), success)
    BY <2>5, <2>6, <2>7, <2>8 DEF Contents
  <2>10. Len(shown) \in Nat /\ Len(shown) + 1 <= Capacity
    BY <1>3, <2>2, <2>3
  <2> QED BY <1>1, <2>6, <2>7, <2>8, <2>9, <2>10
<1> QED BY <1>4, <1>5, <1>6

(***************************************************************************)
(* What an insertion makes of a status: the newest results in an array of  *)
(* its own, and nothing that an answer shows is written to.                *)
(***************************************************************************)
LEMMA InsertAddsOne ==
    ASSUME Inv, NEW got \in Statuses \cup {None}, NEW success \in BOOLEAN,
           got # None => StoreSlice(heap, got.results),
           NEW added, added = Appended(heap, StatusOrNew(got).results, success),
           NEW cut, cut = Trimmed(added.heap, added.slice)
    PROVE  /\ cut.slice \in Slices /\ cut.heap \in [Arrays -> Seq(BOOLEAN)]
           /\ StoreSlice(cut.heap, cut.slice)
           /\ Contents(cut.heap, cut.slice) = Newest(Append(ResultsIn(got), success), MaxResults)
           /\ \A a \in Arrays \ {cut.slice.array} : cut.heap[a] = heap[a]
           /\ cut.slice.array \in Live => got # None /\ cut.slice.array = got.results.array
           /\ \A slice \in Slices : slice.array \in Live /\ Written(heap, slice) =>
                 Written(cut.heap, slice) /\ Contents(cut.heap, slice) = Contents(heap, slice)
<1> DEFINE new  == added.slice
           seq  == added.heap[new.array]
           from == IF new.to - new.from > MaxResults THEN new.to - MaxResults ELSE new.from
<1>1. /\ new \in Slices /\ added.heap \in [Arrays -> Seq(BOOLEAN)]
      /\ new.from < new.to /\ new.to <= Capacity /\ new.to = Len(seq)
      /\ Contents(added.heap, new) = Append(ResultsIn(got), success)
      /\ \A a \in Arrays \ {new.array} : added.heap[a] = heap[a]
      /\ new.array \in Live =>
            /\ got # None /\ new.array = got.results.array
            /\ seq = Append(heap[new.array], success)
  BY AppendAddsOne
<1>2. cut.heap = added.heap /\ cut.slice = [new EXCEPT !.from = from]
  BY DEF Trimmed
<1>3. MaxResults \in Nat \ {0} /\ Capacity \in Nat
  BY StoreAssumption, MemoryAssumption
<1>4. new.array \in Arrays /\ new.from \in Nat /\ new.to \in Nat
  BY <1>1 DEF Slices
<1>5. seq \in Seq(BOOLEAN)
  BY <1>1, <1>4
<1>6. from \in Nat /\ from < new.to /\ new.to - from <= MaxResults
  <2> DEFINE x == new.from
             y == new.to
             f == IF y - x > MaxResults THEN y - MaxResults ELSE x
  <2>1. x \in Nat /\ y \in Nat /\ x < y
    BY <1>1, <1>4
  <2> HIDE DEF x, y
  <2>2. f \in Nat /\ f < y /\ y - f <= MaxResults
    BY <1>3, <2>1
  <2> QED BY <2>2 DEF x, y
<1>7. /\ cut.slice.array = new.array /\ cut.slice.from = from /\ cut.slice.to = new.to
      /\ cut.slice \in Slices
  BY <1>1, <1>2, <1>4, <1>6 DEF Slices
<1>8. SubSeq(seq, from + 1, new.to) = Newest(SubSeq(seq, new.from + 1, new.to), MaxResults)
  <2> DEFINE x == new.from
             y == new.to
  <2>1. x \in Nat /\ y \in Nat /\ x < y /\ y = Len(seq)
    BY <1>1, <1>4
  <2> HIDE DEF x, y, seq
  <2>2. SubSeq(seq, (IF y - x > MaxResults THEN y - MaxResults ELSE x) + 1, y)
          = Newest(SubSeq(seq, x + 1, y), MaxResults)
    BY <1>5, <2>1, MovedStart
  <2> QED BY <2>2 DEF x, y
<1> HIDE DEF from
<1>9. Contents(cut.heap, cut.slice) = Newest(Append(ResultsIn(got), success), MaxResults)
  BY <1>1, <1>2, <1>7, <1>8 DEF Contents
<1>10. StoreSlice(cut.heap, cut.slice)
  BY <1>1, <1>2, <1>6, <1>7 DEF StoreSlice
<1>11. ASSUME NEW slice \in Slices, slice.array \in Live, Written(heap, slice)
       PROVE  Written(cut.heap, slice) /\ Contents(cut.heap, slice) = Contents(heap, slice)
  <2>1. slice.array \in Arrays /\ slice.from \in Nat /\ slice.to \in Nat
    BY DEF Slices
  <2>2. CASE slice.array # new.array
    BY <1>1, <1>2, <1>11, <2>1, <2>2 DEF Written, Contents
  <2>3. CASE slice.array = new.array
    <3> DEFINE was == heap[slice.array]
               x == slice.from
               y == slice.to
    <3>1. cut.heap[slice.array] = Append(was, success)
      BY <1>1, <1>2, <1>11, <2>3
    <3>2. was \in Seq(BOOLEAN)
      BY <2>1 DEF Inv, Typed
    <3>3. x \in Nat /\ y \in Nat /\ x <= y /\ y <= Len(was)
      BY <1>11, <2>1 DEF Written
    <3> HIDE DEF was, x, y
    <3>4. Len(Append(was, success)) = Len(was) + 1 /\ Len(was) \in Nat
      BY <3>2
    <3>5. y \in 0..Len(was)
      BY <3>3, <3>4
    <3>6. SubSeq(Append(was, success), x + 1, y) = SubSeq(was, x + 1, y)
      BY <3>2, <3>3, <3>5, PartAfterAppend
    <3>7. y <= Len(Append(was, success))
      BY <3>3, <3>4
    <3> QED BY <1>11, <3>1, <3>6, <3>7 DEF was, x, y, Written, Contents
  <2> QED BY <2>2, <2>3
<1>12. \A slice \in Slices : slice.array \in Live /\ Written(heap, slice) =>
          Written(cut.heap, slice) /\ Contents(cut.heap, slice) = Contents(heap, slice)
  BY <1>11
<1>13. \A a \in Arrays \ {cut.slice.array} : cut.heap[a] = heap[a]
  <2>1. \A a \in Arrays \ {new.array} : added.heap[a] = heap[a]
    BY ONLY <1>1
  <2>2. cut.heap = added.heap /\ cut.slice.array = new.array
    BY ONLY <1>2, <1>7
  <2> HIDE DEF new, seq
  <2> QED BY ONLY <2>1, <2>2
<1>14. cut.heap \in [Arrays -> Seq(BOOLEAN)]
  <2>1. added.heap \in [Arrays -> Seq(BOOLEAN)]
    BY ONLY <1>1
  <2>2. cut.heap = added.heap
    BY ONLY <1>2
  <2> QED BY ONLY <2>1, <2>2
<1>15. cut.slice.array \in Live => got # None /\ cut.slice.array = got.results.array
  BY <1>1, <1>7
<1> HIDE DEF new, seq
<1> QED BY <1>7, <1>9, <1>10, <1>12, <1>13, <1>14, <1>15

-----------------------------------------------------------------------------
(* One request *)

(***************************************************************************)
(* The bounds of a page are integers.                                      *)
(***************************************************************************)
LEMMA BoundsTyped ==
    ASSUME NEW n \in Int, NEW page \in Nat \ {0}, NEW size \in Nat
    PROVE  Bounds(n, page, size).from \in Int /\ Bounds(n, page, size).to \in Int
<1> DEFINE x == page * size
           y == (page - 1) * size
           start == Wrap(n - Wrap(x))
           end   == Wrap(n - Wrap(y))
<1>1. Half \in Nat /\ x \in Int /\ y \in Int
  BY PagingAssumption DEF Half
<1>2. Bounds(n, page, size)
         = [from |-> IF start > n THEN -1 ELSE IF start < 0 THEN 0 ELSE start,
            to   |-> IF end > n THEN n ELSE end]
  BY DEF Bounds
<1> HIDE DEF x, y
<1>3. \A i \in Int : Wrap(i) \in Int
  BY <1>1, Wrapped
<1>4. n - Wrap(x) \in Int /\ n - Wrap(y) \in Int
  BY <1>1, <1>3
<1>5. start \in Int /\ end \in Int
  BY <1>3, <1>4
<1> HIDE DEF start, end
<1> QED BY <1>2, <1>5

(***************************************************************************)
(* What a request is given: a part of what the status shows, which is the  *)
(* page it asked for unless its number and size are beyond an int.         *)
(***************************************************************************)
LEMMA ReadGives ==
    ASSUME Inv, NEW slice \in Slices, StoreSlice(heap, slice),
           NEW asked \in PageNumbers, NEW askedSize \in PageSizes,
           NEW p, p = RequestedPage(asked),
           NEW size, size = RequestedPageSize(p, askedSize, MaxResults),
           NEW copy, copy = ShallowCopy(slice, p, size)
    PROVE  /\ InRange(Bounds(slice.to - slice.from, p, size), slice.to - slice.from)
           /\ copy \in Slices \cup {None} /\ Shown(heap, copy) \in Seq(BOOLEAN)
           /\ copy # None => copy.array = slice.array /\ Written(heap, copy)
           /\ p * size < Word \div 2 =>
                 Reference(Contents(heap, slice), p, size) = Shown(heap, copy)
<1> DEFINE n == slice.to - slice.from
           bounds == Bounds(n, p, size)
           seq == heap[slice.array]
           from == slice.from
           to == slice.to
<1>1. Word \in Nat \ {0} /\ Half \in Nat /\ Word = 2 * Half
  BY PagingAssumption DEF Half
<1>2. \A i \in Ints : i \in Nat /\ i <= Half - 1
  BY <1>1 DEF Ints, Half
<1>3. /\ slice.array \in Arrays /\ from \in Nat /\ to \in Nat /\ from < to
      /\ n <= MaxResults /\ to = Len(seq)
  BY DEF StoreSlice, Slices
<1>4. MaxResults \in 1..Half - 1 /\ DefaultPageSize \in 1..Half - 1
  BY <1>1, <1>2, MemoryAssumption, StoreAssumption, PagingAssumption
<1>5. n \in 1..Half - 1
  BY <1>1, <1>3, <1>4
<1>6. asked \in Nat /\ askedSize \in Nat /\ askedSize <= Half - 1
  BY <1>2, MemoryAssumption
<1>7. p \in Nat \ {0}
  BY <1>6 DEF RequestedPage, DefaultPage
<1>8. size \in 1..Half - 1
  BY <1>1, <1>4, <1>6 DEF RequestedPageSize
<1>9. InRange(bounds, n)
  <2>1. n \in 0..Half - 1
    BY <1>5, <1>1
  <2> HIDE DEF n
  <2> QED BY <1>7, <1>8, <2>1, PageInRange
<1>10. bounds.from \in Int /\ bounds.to \in Int
  <2>1. n \in Int /\ size \in Nat
    BY <1>1, <1>5, <1>8
  <2> HIDE DEF n
  <2> QED BY <1>7, <2>1, BoundsTyped
<1>11. seq \in Seq(BOOLEAN)
  BY <1>3 DEF Inv, Typed
<1>12. Contents(heap, slice) = SubSeq(seq, from + 1, to)
  BY DEF Contents
<1>13. /\ Contents(heap, slice) \in Seq(BOOLEAN)
       /\ Len(Contents(heap, slice)) = n
  BY <1>3, <1>11, <1>12
<1>14. ASSUME p * size < Word \div 2
       PROVE  Reference(Contents(heap, slice), p, size)
                 = IF Exists(bounds)
                   THEN SubSeq(Contents(heap, slice), bounds.from + 1, bounds.to) ELSE <<>>
  <2> DEFINE shown == Contents(heap, slice)
  <2>1. shown \in Seq(BOOLEAN) /\ Len(shown) \in 0..Half - 1 /\ p * size < Half
        /\ bounds = Bounds(Len(shown), p, size)
    BY <1>1, <1>5, <1>13, <1>14 DEF Half
  <2> HIDE DEF shown, bounds
  <2>2. Reference(shown, p, size)
          = IF Exists(bounds) THEN SubSeq(shown, bounds.from + 1, bounds.to) ELSE <<>>
    BY <1>7, <1>8, <2>1, PageIsThatAskedFor
  <2> QED BY <2>2 DEF shown
<1>15. CASE ~Exists(bounds)
  <2>1. copy = None /\ Shown(heap, copy) = <<>>
    BY <1>15 DEF ShallowCopy, Shown
  <2>2. <<>> \in Seq(BOOLEAN)
    OBVIOUS
  <2> QED BY <1>9, <1>14, <1>15, <2>1, <2>2
<1>16. CASE Exists(bounds)
  <2> DEFINE x == bounds.from
             y == bounds.to
  <2>1. x \in Nat /\ y \in Nat /\ x <= y /\ y <= n
    BY <1>5, <1>9, <1>10, <1>16 DEF InRange, Exists
  <2>2. copy = [slice EXCEPT !.from = from + x, !.to = from + y]
    BY <1>16 DEF ShallowCopy
  <2> HIDE DEF x, y, n, bounds
  <2>10. from + x \in Nat /\ from + y \in Nat
    BY <1>3, <2>1
  <2>3. /\ copy.array = slice.array /\ copy.from = from + x /\ copy.to = from + y
        /\ copy \in Slices
    BY <1>3, <2>2, <2>10 DEF Slices
  <2>4. copy # None
    BY <2>3, MemoryAssumption
  <2>5. from + x <= from + y /\ from + y <= to
    BY <1>3, <2>1 DEF n
  <2>6. Written(heap, copy)
    BY <1>3, <2>3, <2>5 DEF Written
  <2>7. Shown(heap, copy) = SubSeq(seq, from + x + 1, from + y)
    BY <2>3, <2>4 DEF Shown, Contents
  <2>8. SubSeq(Contents(heap, slice), x + 1, y) = SubSeq(seq, from + x + 1, from + y)
    <3>1. from \in Nat /\ to \in 0..Len(seq) /\ from <= to /\ y \in 0..to - from
      BY <1>3, <2>1 DEF n
    <3> HIDE DEF from, to, seq
    <3>2. SubSeq(SubSeq(seq, from + 1, to), x + 1, y) = SubSeq(seq, from + x + 1, from + y)
      BY <1>11, <2>1, <3>1, PartOfPart
    <3> QED BY <1>12, <3>2
  <2>9. SubSeq(seq, from + x + 1, from + y) \in Seq(BOOLEAN)
    <3> HIDE DEF seq, from, to
    <3> QED BY <1>3, <1>11, <2>1, <2>5
  <2> QED BY <1>9, <1>14, <1>16, <2>3, <2>4, <2>6, <2>7, <2>8, <2>9 DEF x, y, bounds, n
<1> QED BY <1>15, <1>16

-----------------------------------------------------------------------------
(* The steps *)

(***************************************************************************)
(* Collecting the garbage leaves what is referred to.                      *)
(***************************************************************************)
LEMMA HeapAfter ==
    ASSUME NEW h \in [Arrays -> Seq(BOOLEAN)], HeapBecomes(h)
    PROVE  /\ heap' \in [Arrays -> Seq(BOOLEAN)]
           /\ FreeArraysEmpty'
           /\ \A a \in Arrays : a \in Live' => heap'[a] = h[a]
<1> DEFINE L == Live'
<1>1. heap' = [a \in Arrays |-> IF a \in L THEN h[a] ELSE <<>>]
  BY DEF HeapBecomes
<1>2. FreeArraysEmpty' <=> \A a \in Arrays \ L : heap'[a] = <<>>
  BY DEF FreeArraysEmpty
<1> HIDE DEF L
<1>3. <<>> \in Seq(BOOLEAN)
  OBVIOUS
<1>4. heap' \in [Arrays -> Seq(BOOLEAN)]
  BY <1>1, <1>3
<1>5. \A a \in Arrays : a \in L => heap'[a] = h[a]
  BY <1>1
<1>6. FreeArraysEmpty'
  BY <1>1, <1>2
<1> QED BY <1>4, <1>5, <1>6 DEF L

(***************************************************************************)
(* A step that at most takes away statuses and answers keeps the rest.     *)
(***************************************************************************)
LEMMA Fewer ==
    ASSUME Inv, Typed', OneCopy', HeapBecomes(heap),
           \A k \in Keys : Visible(k)' \in {Visible(k), None},
           \A r \in Readers : answer'[r] \in {answer[r], None}
    PROVE  Inv'
<1>1. LiveKnown'
  BY WhatIsLive, PTL
<1>2. VisibleKnown /\ VisibleKnown'
  BY WhatIsVisible, PTL DEF Inv
<1>3. /\ FreeArraysEmpty'
      /\ \A a \in Arrays : a \in Live' => heap'[a] = heap[a]
  BY HeapAfter DEF Inv, Typed
<1>4. ASSUME NEW k \in Keys, Visible(k)' # None
      PROVE  /\ Visible(k)' = Visible(k) /\ Visible(k) # None
             /\ StoreSlice(heap', Visible(k).results)
  <2>1. Visible(k)' = Visible(k)
    BY <1>4
  <2>2. Visible(k) \in Statuses /\ Visible(k) # None
    BY <1>2, <1>4, <2>1 DEF VisibleKnown
  <2>3. Visible(k).results.array \in Arrays
    BY <2>2 DEF Statuses, Slices
  <2>4. Visible(k).results.array \in Live'
    BY <1>1, <1>4, <2>1 DEF LiveKnown
  <2>5. heap'[Visible(k).results.array] = heap[Visible(k).results.array]
    BY <1>3, <2>3, <2>4
  <2> QED BY <2>1, <2>2, <2>5 DEF Inv, OwnArrays, StoreSlice
<1>5. OwnArrays'
  <2>1. ASSUME NEW k \in Keys, Visible(k)' # None
        PROVE  StoreSlice(heap', Visible(k)'.results)
    BY <1>4, <2>1
  <2>2. ASSUME NEW k \in Keys, NEW l \in Keys, Visible(k)' # None, Visible(l)' # None, k # l
        PROVE  Visible(k)'.results.array # Visible(l)'.results.array
    BY <1>4, <2>2 DEF Inv, OwnArrays
  <2> QED BY <2>1, <2>2 DEF OwnArrays
<1>6. AnswersWritten'
  <2>1. ASSUME NEW r \in Readers, answer'[r] # None
        PROVE  /\ answer'[r].inRange
               /\ answer'[r].shown = Shown(heap', answer'[r].slice)
               /\ answer'[r].fits => answer'[r].right
               /\ answer'[r].slice # None => Written(heap', answer'[r].slice)
    <3>1. answer'[r] = answer[r] /\ answer[r] # None
      BY <2>1
    <3>2. /\ answer[r].inRange
          /\ answer[r].shown = Shown(heap, answer[r].slice)
          /\ answer[r].fits => answer[r].right
          /\ answer[r].slice # None => Written(heap, answer[r].slice)
      BY <3>1 DEF Inv, AnswersWritten
    <3>3. CASE answer[r].slice = None
      BY <3>1, <3>2, <3>3 DEF Shown
    <3>4. CASE answer[r].slice # None
      <4>1. answer[r] \in Answers
        BY <3>1 DEF Inv, Typed
      <4>2. answer[r].slice.array \in Arrays
        BY <3>4, <4>1 DEF Answers, Slices
      <4>3. answer[r].slice.array \in Live'
        BY <1>1, <3>1, <3>4 DEF LiveKnown, Given
      <4>4. heap'[answer[r].slice.array] = heap[answer[r].slice.array]
        BY <1>3, <4>2, <4>3
      <4> QED BY <3>1, <3>2, <3>4, <4>4 DEF Shown, Contents, Written
    <3> QED BY <3>3, <3>4
  <2> QED BY <2>1 DEF AnswersWritten
<1> QED BY <1>3, <1>5, <1>6 DEF Inv

(***************************************************************************)
(* A step that changes neither the heap nor what refers to it.             *)
(***************************************************************************)
LEMMA Quiet ==
    ASSUME Inv, Typed', OneCopy', UNCHANGED <<heap, answer>>,
           \A k \in Keys : Visible(k)' = Visible(k)
    PROVE  Inv'
<1>1. LiveKnown /\ LiveKnown'
  BY WhatIsLive, PTL DEF Inv
<1>2. \A a : Given(a)' <=> Given(a)
  BY DEF Given
<1>3. \A a : a \in Live' <=> a \in Live
  BY <1>1, <1>2 DEF LiveKnown
<1>4. HeapBecomes(heap)
  <2> DEFINE L == Live'
  <2>1. \A a \in Arrays : a \notin L => heap[a] = <<>>
    BY <1>3 DEF Inv, FreeArraysEmpty
  <2> HIDE DEF L
  <2>2. heap \in [Arrays -> Seq(BOOLEAN)]
    BY DEF Inv, Typed
  <2>3. heap = [a \in Arrays |-> IF a \in L THEN heap[a] ELSE <<>>]
    BY <2>1, <2>2
  <2> QED BY <2>3 DEF HeapBecomes, L
<1> QED BY <1>4, Fewer

(***************************************************************************)
(* The insertion that gets the lock takes over the only copy.              *)
(***************************************************************************)
LEMMA BeginKeeps ==
    ASSUME Inv, NEW i \in Inserters, NEW k \in Keys, NEW success \in BOOLEAN,
           BeginInsert(i, k, success)
    PROVE  Inv' /\ \A l \in Keys : Visible(l)' = Visible(l)
<1> DEFINE begun == [key |-> k, success |-> success, status |-> status[k]]
<1>1. /\ inserting' = [inserting EXCEPT ![i] = begun]
      /\ \A j \in Inserters : inserting[j] = None
      /\ UNCHANGED <<heap, status, answer, doomed, monitored, strangers>>
  BY DEF BeginInsert, Unlocked
<1>2. begun \in Insertions /\ begun # None
  <2>1. status[k] \in Statuses \cup {None}
    BY DEF Inv, Typed
  <2>2. begun \in Insertions
    BY <2>1 DEF Insertions
  <2> HIDE DEF begun
  <2> QED BY <2>2, MemoryAssumption
<1>3. begun.key = k /\ begun.status = status[k]
  OBVIOUS
<1> HIDE DEF begun
<1>4. /\ inserting' \in [Inserters -> Insertions \cup {None}]
      /\ \A j \in Inserters : inserting'[j] = IF j = i THEN begun ELSE None
  BY <1>1, <1>2 DEF Inv, Typed
<1>5. Typed'
  BY <1>1, <1>4 DEF Inv, Typed
<1>6. OneCopy'
  BY <1>1, <1>3, <1>4 DEF OneCopy
<1>7. VisibleKnown /\ VisibleKnown'
  BY <1>5, <1>6, WhatIsVisible, PTL DEF Inv
<1>8. ASSUME NEW l \in Keys PROVE Visible(l)' = Visible(l)
  <2>1. Visible(l) = status[l]
    BY <1>1, <1>7 DEF VisibleKnown
  <2>2. Visible(l)' = status'[l]
    <3>1. CASE l = k
      BY <1>1, <1>2, <1>3, <1>4, <1>7, <3>1 DEF VisibleKnown
    <3>2. CASE l # k
      BY <1>3, <1>4, <1>7, <3>2 DEF VisibleKnown
    <3> QED BY <3>1, <3>2
  <2> QED BY <1>1, <2>1, <2>2
<1>9. Inv'
  BY <1>1, <1>5, <1>6, <1>8, Quiet
<1> QED BY <1>8, <1>9

(***************************************************************************)
(* The events that an insertion leaves are types of events.                *)
(***************************************************************************)
LEMMA EventsTyped ==
    ASSUME NEW events \in Seq(EventTypes), NEW results, NEW success \in BOOLEAN
    PROVE  EventsAdded(events, results, success) \in Seq(EventTypes)
<1> DEFINE more == Append(events, NewEventFromResult(success))
           S == EventTypes
<1>1. NewEventFromResult(success) \in S
  BY DEF NewEventFromResult, EventTypes
<1>2. more \in Seq(S)
  BY <1>1
<1> HIDE DEF more, S
<1>3. Newest(more, MaxEvents) \in Seq(S)
  BY <1>2, NewestTyped, StoreAssumption
<1> QED BY <1>2, <1>3 DEF EventsAdded, more, S

\* What an insertion makes of the status of a key: where its results are then,
\* and what it leaves alone.
Adds(key, got, success, cut) ==
    /\ Visible(key) = got
    /\ StoreSlice(cut.heap, cut.slice)
    /\ Contents(cut.heap, cut.slice) = Newest(Append(ResultsIn(got), success), MaxResults)
    /\ \A a \in Arrays \ {cut.slice.array} : cut.heap[a] = heap[a]
    /\ cut.slice.array \in Live => got # None /\ cut.slice.array = got.results.array
    /\ \A slice \in Slices : slice.array \in Live /\ Written(heap, slice) =>
          Written(cut.heap, slice) /\ Contents(cut.heap, slice) = Contents(heap, slice)

StatusAfter(got, success, cut) ==
    [results |-> cut.slice,
     events  |-> EventsAdded(IF got = None THEN <<"START">> ELSE got.events,
                             ResultsIn(got), success)]

Heaps == [heap : [Arrays -> Seq(BOOLEAN)], slice : Slices]

\* The end of the insertion of i does that.
Ends(i, key, got, success, cut) ==
    /\ Adds(key, got, success, cut)
    /\ inserting[i] # None /\ inserting[i].key = key
    /\ status' = [status EXCEPT ![key] = StatusAfter(got, success, cut)]
    /\ inserting' = [inserting EXCEPT ![i] = None]
    /\ UNCHANGED <<answer, doomed, monitored, strangers>>
    /\ HeapBecomes(cut.heap)

(***************************************************************************)
(* The end of an insertion gives its key a new status, and nothing else    *)
(* that others see changes.                                                *)
(***************************************************************************)
LEMMA EndGives ==
    ASSUME Inv, NEW i \in Inserters, EndInsert(i)
    PROVE  \E key \in Keys, got \in Statuses \cup {None}, success \in BOOLEAN, cut \in Heaps :
              Ends(i, key, got, success, cut)
<1> DEFINE key     == inserting[i].key
           got     == inserting[i].status
           success == inserting[i].success
           old     == StatusOrNew(got)
           added   == Appended(heap, old.results, success)
           cut     == Trimmed(added.heap, added.slice)
<1>1. inserting[i] # None /\ inserting[i] \in Insertions
  BY DEF EndInsert, Inv, Typed
<1>2. key \in Keys /\ got \in Statuses \cup {None} /\ success \in BOOLEAN
  BY <1>1 DEF Insertions
<1>3. VisibleKnown
  BY WhatIsVisible DEF Inv
<1>4. Visible(key) = got
  BY <1>1, <1>2, <1>3 DEF VisibleKnown
<1>5. got # None => StoreSlice(heap, got.results)
  BY <1>2, <1>4 DEF Inv, OwnArrays
<1>6. /\ status' = [status EXCEPT ![key] =
            [results |-> cut.slice,
             events  |-> EventsAdded(old.events, Contents(heap, old.results), success)]]
      /\ inserting' = [inserting EXCEPT ![i] = None]
      /\ UNCHANGED <<answer, doomed, monitored, strangers>>
      /\ HeapBecomes(cut.heap)
  BY DEF EndInsert
<1>7. old.events = (IF got = None THEN <<"START">> ELSE got.events)
  BY DEF StatusOrNew
<1>8. Contents(heap, old.results) = ResultsIn(got)
  <2>1. CASE got = None
    <3> DEFINE free == CHOOSE a \in Arrays : a \notin Live
    <3>1. free \in Arrays
      BY RoomLeft DEF Inv
    <3>2. old.results = [array |-> free, from |-> 0, to |-> 0]
      BY <2>1 DEF StatusOrNew
    <3> HIDE DEF free, old
    <3>3. Contents(heap, old.results) = SubSeq(heap[free], 1, 0)
      BY <3>2 DEF Contents
    <3>4. heap[free] \in Seq(BOOLEAN)
      BY <3>1 DEF Inv, Typed
    <3>5. SubSeq(heap[free], 1, 0) = <<>>
      BY <3>4
    <3> QED BY <2>1, <3>3, <3>5 DEF ResultsIn
  <2>2. CASE got # None
    BY <2>2 DEF StatusOrNew, ResultsIn
  <2> QED BY <2>1, <2>2
<1> HIDE DEF key, got, success
<1>9. /\ cut.slice \in Slices /\ cut.heap \in [Arrays -> Seq(BOOLEAN)]
      /\ StoreSlice(cut.heap, cut.slice)
      /\ Contents(cut.heap, cut.slice) = Newest(Append(ResultsIn(got), success), MaxResults)
      /\ \A a \in Arrays \ {cut.slice.array} : cut.heap[a] = heap[a]
      /\ cut.slice.array \in Live => got # None /\ cut.slice.array = got.results.array
      /\ \A slice \in Slices : slice.array \in Live /\ Written(heap, slice) =>
            Written(cut.heap, slice) /\ Contents(cut.heap, slice) = Contents(heap, slice)
  BY <1>2, <1>5, InsertAddsOne
<1>10. cut = [heap |-> cut.heap, slice |-> cut.slice]
  BY DEF Trimmed
<1> HIDE DEF old, cut
<1>11. cut \in Heaps
  BY <1>9, <1>10 DEF Heaps
<1>12. status' = [status EXCEPT ![key] = StatusAfter(got, success, cut)]
  BY <1>6, <1>7, <1>8 DEF StatusAfter
<1>13. Adds(key, got, success, cut)
  BY <1>4, <1>9 DEF Adds
<1>14. inserting[i] # None /\ inserting[i].key = key
  BY <1>1 DEF key
<1>15. Ends(i, key, got, success, cut)
  BY <1>6, <1>12, <1>13, <1>14 DEF Ends
<1>16. key \in Keys /\ got \in Statuses \cup {None} /\ success \in BOOLEAN
  BY <1>2
<1> USE <1>11, <1>16
<1> WITNESS key \in Keys, got \in Statuses \cup {None}, success \in BOOLEAN, cut \in Heaps
<1> QED BY <1>15

(***************************************************************************)
(* With it the invariant is kept, and its key alone has other results.     *)
(***************************************************************************)
LEMMA EndKeeps ==
    ASSUME Inv, NEW i \in Inserters,
           NEW key \in Keys, NEW got \in Statuses \cup {None}, NEW success \in BOOLEAN,
           NEW cut \in Heaps, Ends(i, key, got, success, cut)
    PROVE  /\ Inv'
           /\ Visible(key)' = StatusAfter(got, success, cut) /\ Visible(key)' # None
           /\ heap'[cut.slice.array] = cut.heap[cut.slice.array]
           /\ \A l \in Keys \ {key} : Visible(l)' = Visible(l)
           /\ \A l \in Keys \ {key} : Visible(l) # None =>
                 heap'[Visible(l).results.array] = heap[Visible(l).results.array]
<1> DEFINE after == StatusAfter(got, success, cut)
<1>1. /\ Adds(key, got, success, cut)
      /\ inserting[i] # None /\ inserting[i].key = key
      /\ status' = [status EXCEPT ![key] = StatusAfter(got, success, cut)]
      /\ inserting' = [inserting EXCEPT ![i] = None]
      /\ UNCHANGED <<answer, doomed, monitored, strangers>>
      /\ HeapBecomes(cut.heap)
  BY DEF Ends
<1>2. cut.heap \in [Arrays -> Seq(BOOLEAN)] /\ cut.slice \in Slices
  BY DEF Heaps
<1>3. after \in Statuses /\ after # None
  <2> DEFINE events == IF got = None THEN <<"START">> ELSE got.events
  <2>1. events \in Seq(EventTypes)
    <3>1. "START" \in EventTypes
      BY DEF EventTypes
    <3>2. <<"START">> \in Seq(EventTypes)
      BY <3>1
    <3>3. got # None => got.events \in Seq(EventTypes)
      BY DEF Statuses
    <3> QED BY <3>2, <3>3
  <2> HIDE DEF events
  <2>2. EventsAdded(events, ResultsIn(got), success) \in Seq(EventTypes)
    BY <2>1, EventsTyped
  <2>3. after \in Statuses
    BY <1>2, <2>2 DEF Statuses, StatusAfter, events
  <2> HIDE DEF after
  <2> QED BY <2>3, MemoryAssumption
<1>4. after.results = cut.slice
  BY DEF StatusAfter
<1> HIDE DEF after
<1>5. heap' \in [Arrays -> Seq(BOOLEAN)] /\ FreeArraysEmpty'
      /\ \A a \in Arrays : a \in Live' => heap'[a] = cut.heap[a]
  BY <1>1, <1>2, HeapAfter
<1>6. \A j \in Inserters : inserting'[j] = None
  BY <1>1 DEF Inv, OneCopy, Typed
<1>7. inserting' \in [Inserters -> Insertions \cup {None}]
  BY <1>1 DEF Inv, Typed
<1>8. /\ status' \in [Keys -> Statuses \cup {None}] /\ status'[key] = after
      /\ \A l \in Keys \ {key} : status'[l] = status[l]
  BY <1>1, <1>3 DEF Inv, Typed, after
<1>9. Typed'
  BY <1>1, <1>5, <1>7, <1>8 DEF Inv, Typed
<1>10. OneCopy'
  BY <1>6 DEF OneCopy
<1>11. VisibleKnown /\ VisibleKnown' /\ LiveKnown /\ LiveKnown'
  BY <1>9, <1>10, WhatIsVisible, WhatIsLive, PTL DEF Inv
<1>12. Visible(key)' = after
  BY <1>6, <1>8, <1>11 DEF VisibleKnown
<1>13. ASSUME NEW l \in Keys, l # key PROVE Visible(l)' = Visible(l)
  <2>1. Visible(l)' = status[l]
    BY <1>6, <1>8, <1>11, <1>13 DEF VisibleKnown
  <2>2. Visible(l) = status[l]
    BY <1>1, <1>11, <1>13 DEF VisibleKnown, Inv, OneCopy
  <2> QED BY <2>1, <2>2
<1>14. ASSUME NEW l \in Keys, l # key, Visible(l) # None
       PROVE  /\ heap'[Visible(l).results.array] = heap[Visible(l).results.array]
              /\ Visible(l).results.array # cut.slice.array
  <2> DEFINE a == Visible(l).results.array
  <2>1. Visible(l) \in Statuses
    BY <1>11, <1>14 DEF VisibleKnown
  <2>2. a \in Arrays
    BY <2>1 DEF Statuses, Slices
  <2>3. a \in Live
    BY <1>11, <1>14 DEF LiveKnown
  <2>4. a \in Live'
    BY <1>11, <1>13, <1>14 DEF LiveKnown
  <2>5. a # cut.slice.array
    <3>1. SUFFICES ASSUME a = cut.slice.array PROVE FALSE
      OBVIOUS
    <3>2. got # None /\ a = got.results.array /\ Visible(key) = got
      BY <1>1, <2>3, <3>1 DEF Adds
    <3> QED BY <1>14, <3>2 DEF Inv, OwnArrays
  <2>6. cut.heap[a] = heap[a]
    BY <1>1, <2>2, <2>5 DEF Adds
  <2> QED BY <1>5, <2>2, <2>4, <2>5, <2>6
<1>15. heap'[cut.slice.array] = cut.heap[cut.slice.array]
  <2>1. cut.slice.array \in Live'
    BY <1>3, <1>4, <1>11, <1>12 DEF LiveKnown
  <2>2. cut.slice.array \in Arrays
    BY <1>2 DEF Slices
  <2> QED BY <1>5, <2>1, <2>2
<1>16. OwnArrays'
  <2>1. ASSUME NEW k \in Keys, Visible(k)' # None
        PROVE  StoreSlice(heap', Visible(k)'.results)
    <3>1. CASE k = key
      BY <1>1, <1>4, <1>12, <1>15, <3>1 DEF Adds, StoreSlice
    <3>2. CASE k # key
      BY <1>13, <1>14, <2>1, <3>2 DEF Inv, OwnArrays, StoreSlice
    <3> QED BY <3>1, <3>2
  <2>2. ASSUME NEW k \in Keys, NEW l \in Keys, Visible(k)' # None, Visible(l)' # None, k # l
        PROVE  Visible(k)'.results.array # Visible(l)'.results.array
    <3>1. CASE k # key /\ l # key
      BY <1>13, <2>2, <3>1 DEF Inv, OwnArrays
    <3>2. CASE k = key
      BY <1>4, <1>12, <1>13, <1>14, <2>2, <3>2
    <3>3. CASE l = key
      BY <1>4, <1>12, <1>13, <1>14, <2>2, <3>3
    <3> QED BY <3>1, <3>2, <3>3
  <2> QED BY <2>1, <2>2 DEF OwnArrays
<1>17. AnswersWritten'
  <2>1. ASSUME NEW r \in Readers, answer'[r] # None
        PROVE  /\ answer'[r].inRange
               /\ answer'[r].shown = Shown(heap', answer'[r].slice)
               /\ answer'[r].fits => answer'[r].right
               /\ answer'[r].slice # None => Written(heap', answer'[r].slice)
    <3>1. answer'[r] = answer[r] /\ answer[r] # None
      BY <1>1, <2>1
    <3>2. /\ answer[r].inRange
          /\ answer[r].shown = Shown(heap, answer[r].slice)
          /\ answer[r].fits => answer[r].right
          /\ answer[r].slice # None => Written(heap, answer[r].slice)
      BY <3>1 DEF Inv, AnswersWritten
    <3>3. CASE answer[r].slice = None
      BY <3>1, <3>2, <3>3 DEF Shown
    <3>4. CASE answer[r].slice # None
      <4> DEFINE slice == answer[r].slice
      <4>1. answer[r] \in Answers
        BY <3>1 DEF Inv, Typed
      <4>2. slice \in Slices /\ slice.array \in Arrays
        BY <3>4, <4>1 DEF Answers, Slices
      <4>3. slice.array \in Live /\ slice.array \in Live'
        BY <1>11, <3>1, <3>4 DEF LiveKnown, Given
      <4>4. Written(cut.heap, slice) /\ Contents(cut.heap, slice) = Contents(heap, slice)
        BY <1>1, <3>2, <3>4, <4>2, <4>3 DEF Adds
      <4>5. heap'[slice.array] = cut.heap[slice.array]
        BY <1>5, <4>2, <4>3
      <4> QED BY <3>1, <3>2, <3>4, <4>4, <4>5 DEF Shown, Contents, Written
    <3> QED BY <3>3, <3>4
  <2> QED BY <2>1 DEF AnswersWritten
<1>18. Inv'
  BY <1>5, <1>9, <1>10, <1>16, <1>17 DEF Inv
<1> QED BY <1>3, <1>12, <1>13, <1>14, <1>15, <1>18 DEF after

(***************************************************************************)
(* A request refers to a part of what the store shows.                     *)
(***************************************************************************)
LEMMA ReadKeeps ==
    ASSUME Inv, NEW r \in Readers, NEW k \in Keys, NEW page \in PageNumbers,
           NEW pageSize \in PageSizes, Read(r, k, page, pageSize)
    PROVE  Inv' /\ \A l \in Keys : Visible(l)' = Visible(l)
<1> DEFINE slice == status[k].results
           p     == RequestedPage(page)
           size  == RequestedPageSize(p, pageSize, MaxResults)
           copy  == ShallowCopy(slice, p, size)
           ok    == InRange(Bounds(slice.to - slice.from, p, size), slice.to - slice.from)
           shown == Shown(heap, copy)
           fits  == p * size < Word \div 2
           right == shown = Reference(Contents(heap, slice), p, size)
           given == [slice |-> copy, inRange |-> ok, shown |-> shown,
                     fits |-> fits, right |-> right]
<1>1. /\ answer[r] = None /\ status[k] # None
      /\ answer' = [answer EXCEPT ![r] = given]
      /\ UNCHANGED <<heap, status, inserting, doomed, monitored, strangers>>
  BY DEF Read
<1>2. VisibleKnown
  BY WhatIsVisible DEF Inv
<1>3. Visible(k) = status[k] /\ status[k] \in Statuses
  BY <1>1, <1>2 DEF VisibleKnown, Inv, Typed
<1>4. slice \in Slices /\ StoreSlice(heap, slice)
  BY <1>1, <1>3 DEF Inv, OwnArrays, Statuses
<1>5. slice.array \in Live
  BY <1>1, <1>3, WhatIsLive DEF LiveKnown, Inv
<1> HIDE DEF slice
<1>6. /\ ok
      /\ copy \in Slices \cup {None} /\ Shown(heap, copy) \in Seq(BOOLEAN)
      /\ copy # None => copy.array = slice.array /\ Written(heap, copy)
      /\ p * size < Word \div 2 => Reference(Contents(heap, slice), p, size) = Shown(heap, copy)
  BY <1>4, ReadGives
<1> HIDE DEF p, size, copy, ok
<1>7. shown = Shown(heap, copy) /\ (fits => right)
  BY <1>6
<1>20. right \in BOOLEAN /\ fits \in BOOLEAN
  BY DEF right, fits
<1> HIDE DEF shown, fits, right
<1>8. /\ given.slice = copy /\ given.inRange = ok /\ given.shown = shown
      /\ given.fits = fits /\ given.right = right
  OBVIOUS
<1>9. given \in Answers
  <2>1. ok \in BOOLEAN
    BY DEF ok, InRange
  <2> QED BY <1>6, <1>7, <1>20, <2>1 DEF Answers
<1> HIDE DEF given
<1>10. given # None
  BY <1>9, MemoryAssumption
<1>11. /\ answer' \in [Readers -> Answers \cup {None}] /\ answer'[r] = given
       /\ \A q \in Readers : q # r => answer'[q] = answer[q]
  BY <1>1, <1>9 DEF Inv, Typed
<1>12. Typed'
  BY <1>1, <1>11 DEF Inv, Typed
<1>13. OneCopy'
  BY <1>1 DEF Inv, OneCopy
<1>14. \A l \in Keys : Visible(l)' = Visible(l)
  BY <1>1 DEF Visible
<1>15. LiveKnown /\ LiveKnown'
  BY <1>12, <1>13, WhatIsLive, PTL DEF Inv
<1>16. OwnArrays'
  BY <1>1, <1>14 DEF Inv, OwnArrays
<1>17. \A a : Given(a) => Given(a)'
  BY <1>1, <1>11 DEF Given
<1>18. FreeArraysEmpty'
  <2>1. \A a : a \in Live => a \in Live'
    BY <1>14, <1>15, <1>17 DEF LiveKnown
  <2> QED BY <1>1, <2>1 DEF Inv, FreeArraysEmpty
<1>19. AnswersWritten'
  <2>1. ASSUME NEW q \in Readers, answer'[q] # None
        PROVE  /\ answer'[q].inRange
               /\ answer'[q].shown = Shown(heap', answer'[q].slice)
               /\ answer'[q].fits => answer'[q].right
               /\ answer'[q].slice # None => Written(heap', answer'[q].slice)
    <3>1. CASE q = r
      BY <1>1, <1>6, <1>7, <1>8, <1>11, <3>1
    <3>2. CASE q # r
      BY <1>1, <1>11, <2>1, <3>2 DEF Inv, AnswersWritten
    <3> QED BY <3>1, <3>2
  <2> QED BY <2>1 DEF AnswersWritten
<1> QED BY <1>12, <1>13, <1>14, <1>16, <1>18, <1>19 DEF Inv

(***************************************************************************)
(* A response takes its answer away.                                       *)
(***************************************************************************)
LEMMA RespondKeeps ==
    ASSUME Inv, NEW r \in Readers, Respond(r)
    PROVE  Inv' /\ \A l \in Keys : Visible(l)' = Visible(l)
<1>1. /\ answer' = [answer EXCEPT ![r] = None]
      /\ UNCHANGED <<status, inserting, doomed, monitored, strangers>>
      /\ HeapBecomes(heap)
  BY DEF Respond
<1>2. heap' \in [Arrays -> Seq(BOOLEAN)]
  BY <1>1, HeapAfter DEF Inv, Typed
<1>3. Typed'
  BY <1>1, <1>2 DEF Inv, Typed
<1>4. OneCopy'
  BY <1>1 DEF Inv, OneCopy
<1>5. \A l \in Keys : Visible(l)' = Visible(l)
  BY <1>1 DEF Visible
<1>6. \A q \in Readers : answer'[q] \in {answer[q], None}
  BY <1>1 DEF Inv, Typed
<1>7. Inv'
  BY <1>1, <1>3, <1>4, <1>5, <1>6, Fewer
<1> QED BY <1>5, <1>7

(***************************************************************************)
(* A reload starts from an empty store.                                    *)
(***************************************************************************)
LEMMA ReloadKeeps ==
    ASSUME Inv, NEW keys \in Configurations, Reload(keys)
    PROVE  Inv' /\ \A l \in Keys : Visible(l)' = None
<1>1. /\ status' = [k \in Keys |-> None] /\ inserting' = [i \in Inserters |-> None]
      /\ strangers' = strangers \cup monitored /\ monitored' = keys
      /\ UNCHANGED <<answer, doomed>>
      /\ HeapBecomes(heap)
  BY DEF Reload
<1>2. heap' \in [Arrays -> Seq(BOOLEAN)]
  BY <1>1, HeapAfter DEF Inv, Typed
<1>3. Typed'
  BY <1>1, <1>2, MemoryAssumption DEF Inv, Typed
<1>4. OneCopy'
  BY <1>1 DEF OneCopy
<1>5. VisibleKnown'
  BY <1>3, <1>4, WhatIsVisible, PTL
<1>6. \A l \in Keys : Visible(l)' = None
  BY <1>1, <1>5 DEF VisibleKnown
<1>7. Inv'
  BY <1>1, <1>3, <1>4, <1>6, Fewer
<1> QED BY <1>6, <1>7

(***************************************************************************)
(* The deletion of old keys takes away what nobody is inserting into.      *)
(***************************************************************************)
LEMMA DeleteKeeps ==
    ASSUME Inv, DeleteAll
    PROVE  /\ Inv'
           /\ \A l \in Keys : Visible(l)' \in {Visible(l), None}
<1>1. /\ status' = [k \in Keys |-> IF k \in doomed THEN None ELSE status[k]]
      /\ doomed' = {}
      /\ UNCHANGED <<inserting, answer, monitored, strangers>>
      /\ HeapBecomes(heap)
  BY DEF DeleteAll
<1>2. heap' \in [Arrays -> Seq(BOOLEAN)]
  BY <1>1, HeapAfter DEF Inv, Typed
<1>3. \A k \in Keys : status'[k] \in {status[k], None}
  BY <1>1
<1>4. Typed'
  BY <1>1, <1>2 DEF Inv, Typed
<1>5. \A i \in Inserters : inserting[i] # None => inserting[i].key \in Keys
  <2>1. \A i \in Inserters : inserting[i] # None => inserting[i] \in Insertions
    BY DEF Inv, Typed
  <2> QED BY <2>1 DEF Insertions
<1>6. OneCopy'
  BY <1>1, <1>3, <1>5 DEF Inv, OneCopy
<1>7. VisibleKnown /\ VisibleKnown'
  BY <1>4, <1>6, WhatIsVisible, PTL DEF Inv
<1>8. ASSUME NEW l \in Keys PROVE Visible(l)' \in {Visible(l), None}
  <2>1. CASE \E i \in Inserters : inserting[i] # None /\ inserting[i].key = l
    BY <1>1, <1>7, <2>1 DEF VisibleKnown
  <2>2. CASE \A i \in Inserters : inserting[i] # None => inserting[i].key # l
    <3>1. Visible(l) = status[l] /\ Visible(l)' = status'[l]
      BY <1>1, <1>7, <2>2 DEF VisibleKnown
    <3> QED BY <1>3, <3>1
  <2> QED BY <2>1, <2>2
<1>9. \A r \in Readers : answer'[r] \in {answer[r], None}
  BY <1>1
<1>10. Inv'
  BY <1>1, <1>4, <1>6, <1>8, <1>9, Fewer
<1> QED BY <1>8, <1>10

(***************************************************************************)
(* The other steps change neither statuses nor answers.                    *)
(***************************************************************************)
LEMMA RestKeeps ==
    ASSUME Inv, ListKeys \/ (\E k \in Keys : StrangerReturns(k)) \/ UNCHANGED vars
    PROVE  Inv' /\ \A l \in Keys : Visible(l)' = Visible(l)
<1>1. UNCHANGED <<heap, status, inserting, answer>>
  BY DEF ListKeys, StrangerReturns, vars
<1>2. doomed' \subseteq Keys /\ monitored' \subseteq Keys /\ strangers' \subseteq Keys
  <2>1. Found \subseteq Keys
    BY DEF Found
  <2> QED BY <2>1 DEF ListKeys, StrangerReturns, vars, Inv, Typed
<1>3. Typed'
  BY <1>1, <1>2 DEF Inv, Typed
<1>4. OneCopy'
  BY <1>1 DEF Inv, OneCopy
<1>5. \A l \in Keys : Visible(l)' = Visible(l)
  BY <1>1 DEF Visible
<1>6. Inv'
  BY <1>1, <1>3, <1>4, <1>5, Quiet
<1> QED BY <1>5, <1>6

(***************************************************************************)
(* The invariant holds in the first state.                                 *)
(***************************************************************************)
LEMMA InvInit == Init => Inv
<1> SUFFICES ASSUME Init PROVE Inv
  OBVIOUS
<1>1. Typed
  <2>1. <<>> \in Seq(BOOLEAN)
    OBVIOUS
  <2> QED BY <2>1, MemoryAssumption DEF Init, Typed
<1>2. OneCopy
  BY DEF Init, OneCopy
<1>3. \A k \in Keys : Visible(k) = None
  BY <1>1, <1>2, WhatIsVisible DEF VisibleKnown, Init
<1> QED BY <1>1, <1>2, <1>3 DEF Inv, OwnArrays, FreeArraysEmpty, AnswersWritten, Init

(***************************************************************************)
(* Every step keeps it.                                                    *)
(***************************************************************************)
LEMMA InvStep == Inv /\ [Next]_vars => Inv'
<1> SUFFICES ASSUME Inv, [Next]_vars PROVE Inv'
  OBVIOUS
<1>1. ASSUME NEW i \in Inserters, NEW k \in Keys, NEW success \in BOOLEAN,
             BeginInsert(i, k, success)
      PROVE  Inv'
  BY <1>1, BeginKeeps
<1>2. ASSUME NEW i \in Inserters, EndInsert(i) PROVE Inv'
  <2>1. PICK key \in Keys, got \in Statuses \cup {None}, success \in BOOLEAN, cut \in Heaps :
              Ends(i, key, got, success, cut)
    BY <1>2, EndGives
  <2> QED BY <2>1, EndKeeps
<1>3. ASSUME NEW r \in Readers, NEW k \in Keys, NEW page \in PageNumbers,
             NEW size \in PageSizes, Read(r, k, page, size)
      PROVE  Inv'
  BY <1>3, ReadKeeps
<1>4. ASSUME NEW r \in Readers, Respond(r) PROVE Inv'
  BY <1>4, RespondKeeps
<1>5. ASSUME NEW keys \in Configurations, Reload(keys) PROVE Inv'
  BY <1>5, ReloadKeeps
<1>6. CASE DeleteAll
  BY <1>6, DeleteKeeps
<1>7. CASE ListKeys \/ (\E k \in Keys : StrangerReturns(k)) \/ UNCHANGED vars
  BY <1>7, RestKeeps
<1> QED BY <1>1, <1>2, <1>3, <1>4, <1>5, <1>6, <1>7 DEF Next

(***************************************************************************)
(* Any number of requests may be on their way to the client while results  *)
(* come in, statuses are trimmed and deleted, and the store is replaced:   *)
(* what ShallowCopyEndpointStatus cut out stays what it was and no slice   *)
(* expression panics, whatever was asked for; it is the page that was      *)
(* asked for unless page times page size does not fit an int.              *)
(***************************************************************************)
THEOREM PagesStay == Spec => []AnswersAreStable
<1>1. Inv => AnswersAreStable
  BY DEF Inv, AnswersWritten, AnswersAreStable
<1> QED BY <1>1, InvInit, InvStep, PTL DEF Spec

-----------------------------------------------------------------------------
(* The abstract store *)

(***************************************************************************)
(* Both stores go by the same rules.                                       *)
(***************************************************************************)
LEMMA SameRules ==
    /\ \A seq, n : Abstract!Newest(seq, n) = Newest(seq, n)
    /\ \A rs, es, success : Abstract!EventsWith(rs, es, success) = EventsWith(rs, es, success)
<1>1. \A seq, n : Abstract!Newest(seq, n) = Newest(seq, n)
  BY DEF Abstract!Newest, Newest
<1>2. /\ \A seq : Abstract!LastOf(seq) = LastOf(seq)
      /\ \A success : Abstract!NewEventFromResult(success) = NewEventFromResult(success)
  BY DEF Abstract!LastOf, LastOf, Abstract!NewEventFromResult, NewEventFromResult
<1>3. \A rs, es, success : Abstract!EventsWith(rs, es, success) = EventsWith(rs, es, success)
  BY <1>2 DEF Abstract!EventsWith, EventsWith
<1> QED BY <1>1, <1>3

\* What the store shows of the events of a status.
EventsShown(got) == IF got = None THEN <<>> ELSE Newest(got.events, MaxEvents)

(***************************************************************************)
(* That only a change of the outcome trims the events is not seen.         *)
(***************************************************************************)
LEMMA EventsAfter ==
    ASSUME NEW events \in Seq(EventTypes), NEW results, results # <<>>,
           NEW success \in BOOLEAN
    PROVE  Newest(EventsAdded(events, results, success), MaxEvents)
              = Newest(EventsWith(results, Newest(events, MaxEvents), success), MaxEvents)
<1> DEFINE e == NewEventFromResult(success)
           S == EventTypes
           n == MaxEvents
<1>1. e \in S /\ events \in Seq(S) /\ n \in Nat \ {0}
  BY StoreAssumption DEF NewEventFromResult, EventTypes
<1> HIDE DEF e, S, n
<1>2. CASE LastOf(results) = success
  <2>1. Newest(Newest(events, n), n) = Newest(events, n)
    BY <1>1, NewestTwice
  <2> QED BY <1>2, <2>1 DEF EventsAdded, EventsWith, n
<1>3. CASE LastOf(results) # success
  <2>1. Append(events, e) \in Seq(S)
    BY <1>1
  <2>2. Newest(Newest(Append(events, e), n), n) = Newest(Append(events, e), n)
    BY <1>1, <2>1, NewestTwice
  <2>3. Newest(Append(Newest(events, n), e), n) = Newest(Append(events, e), n)
    BY <1>1, NewestAfterAppend
  <2> QED BY <1>3, <2>2, <2>3 DEF EventsAdded, EventsWith, n, e
<1> QED BY <1>2, <1>3

(***************************************************************************)
(* Appending to a sequence of one gives one of two.                        *)
(***************************************************************************)
LEMMA FirstTwo == ASSUME NEW a, NEW b PROVE Append(<<a>>, b) = <<a, b>>
<1> DEFINE one == <<a>>
           two == <<a, b>>
           longer == Append(one, b)
           S == {a, b}
<1>1. one \in Seq(S) /\ Len(one) = 1 /\ one[1] = a
  OBVIOUS
<1>2. two \in Seq(S) /\ Len(two) = 2 /\ two[1] = a /\ two[2] = b
  OBVIOUS
<1>3. b \in S
  OBVIOUS
<1> HIDE DEF one, two, S
<1>4. /\ longer \in Seq(S) /\ Len(longer) = Len(one) + 1 /\ longer[Len(one) + 1] = b
      /\ \A i \in 1..Len(one) : longer[i] = one[i]
  BY <1>1, <1>3
<1> HIDE DEF longer
<1>5. longer[1] = two[1] /\ longer[2] = two[2]
  BY <1>1, <1>2, <1>4
<1>6. \A i \in 1..2 : longer[i] = two[i]
  BY <1>5
<1>7. longer = two
  <2>1. Len(longer) = 2
    BY <1>1, <1>4
  <2> QED BY <1>2, <1>4, <1>6, <2>1
<1> QED BY <1>7 DEF one, two, longer

(***************************************************************************)
(* The end of an insertion is the insertion of the abstract store.         *)
(***************************************************************************)
LEMMA EndIsInsertion ==
    ASSUME Inv, NEW i \in Inserters, EndInsert(i)
    PROVE  Abstract!Next
<1>1. PICK key \in Keys, got \in Statuses \cup {None}, success \in BOOLEAN, cut \in Heaps :
          Ends(i, key, got, success, cut)
  BY EndGives
<1>13. Adds(key, got, success, cut)
  BY <1>1 DEF Ends
<1>10. Visible(key)' = StatusAfter(got, success, cut) /\ Visible(key)' # None
  BY <1>1, EndKeeps
<1>11. heap'[cut.slice.array] = cut.heap[cut.slice.array]
  BY <1>1, EndKeeps
<1>12. \A l \in Keys \ {key} : Visible(l)' = Visible(l)
  BY <1>1, EndKeeps
<1>2. \A l \in Keys \ {key} : Visible(l) # None =>
          heap'[Visible(l).results.array] = heap[Visible(l).results.array]
  BY <1>1, EndKeeps
<1> DEFINE after == StatusAfter(got, success, cut)
           results == [k \in Keys |-> IF Visible(k) = None THEN <<>>
                                      ELSE Contents(heap, Visible(k).results)]
           events  == [k \in Keys |-> IF Visible(k) = None THEN <<>>
                                      ELSE Newest(Visible(k).events, MaxEvents)]
<1>3. Visible(key) = got /\ (got # None => StoreSlice(heap, got.results))
  BY <1>13 DEF Adds, Inv, OwnArrays
<1>4. results[key] = ResultsIn(got) /\ events[key] = EventsShown(got)
  BY <1>3 DEF ResultsIn, EventsShown
<1>5. results'[key] = Newest(Append(results[key], success), MaxResults)
  <2>1. results'[key] = Contents(heap', cut.slice)
    BY <1>10 DEF StatusAfter
  <2>2. Contents(heap', cut.slice) = Contents(cut.heap, cut.slice)
    BY <1>11 DEF Contents
  <2> QED BY <1>4, <1>13, <2>1, <2>2 DEF Adds
<1>6. events'[key] = Newest(EventsWith(results[key], events[key], success), MaxEvents)
  <2>1. events'[key] = Newest(after.events, MaxEvents)
    BY <1>10
  <2>2. CASE got = None
    <3>1. after.events = Append(<<"START">>, NewEventFromResult(success))
      BY <2>2 DEF StatusAfter, ResultsIn, EventsAdded
    <3>2. EventsWith(results[key], events[key], success)
            = <<"START", NewEventFromResult(success)>>
      BY <1>4, <2>2 DEF ResultsIn, EventsWith
    <3>3. Append(<<"START">>, NewEventFromResult(success))
            = <<"START", NewEventFromResult(success)>>
      BY FirstTwo
    <3> QED BY <2>1, <3>1, <3>2, <3>3
  <2>3. CASE got # None
    <3>1. ResultsIn(got) # <<>>
      <4> DEFINE seq == heap[got.results.array]
                 from == got.results.from
                 to == got.results.to
      <4>1. got.results \in Slices
        BY <2>3 DEF Statuses
      <4>2. from \in Nat /\ to \in Nat /\ from < to /\ to = Len(seq) /\ seq \in Seq(BOOLEAN)
        BY <1>3, <2>3, <4>1 DEF Slices, StoreSlice, Inv, Typed
      <4>3. ResultsIn(got) = SubSeq(seq, from + 1, to)
        BY <2>3 DEF ResultsIn, Contents
      <4> HIDE DEF seq, from, to
      <4>4. Len(SubSeq(seq, from + 1, to)) = to - from
        BY <4>2
      <4>5. Len(<<>>) = 0
        OBVIOUS
      <4>6. to - from # 0
        BY <4>2
      <4> QED BY <4>3, <4>4, <4>5, <4>6
    <3>2. got.events \in Seq(EventTypes)
      BY <2>3 DEF Statuses
    <3>3. after.events = EventsAdded(got.events, ResultsIn(got), success)
      BY <2>3 DEF StatusAfter
    <3>4. events[key] = Newest(got.events, MaxEvents)
      BY <1>4, <2>3 DEF EventsShown
    <3> QED BY <1>4, <2>1, <3>1, <3>2, <3>3, <3>4, EventsAfter
  <2> QED BY <2>2, <2>3
<1>7. ASSUME NEW l \in Keys, l # key
      PROVE  results'[l] = results[l] /\ events'[l] = events[l]
  BY <1>2, <1>7, <1>12 DEF Contents
<1>8. /\ results' = [results EXCEPT ![key] = Newest(Append(@, success), MaxResults)]
      /\ events' = [events EXCEPT ![key] = Newest(EventsWith(results[key], @, success), MaxEvents)]
  BY <1>5, <1>6, <1>7
<1>9. Abstract!InsertEndpointResult(key, success)
  BY <1>8, SameRules DEF Abstract!InsertEndpointResult
<1> QED BY <1>9 DEF Abstract!Next

(***************************************************************************)
(* A step after which every status is what it was or not there any more is *)
(* a deletion in the abstract store, of no key when none went.             *)
(***************************************************************************)
LEMMA IsDeletion ==
    ASSUME Inv, Inv', heap' = heap \/ HeapBecomes(heap),
           \A k \in Keys : Visible(k)' \in {Visible(k), None}
    PROVE  Abstract!Next
<1> DEFINE keys == {k \in Keys : Visible(k)' = Visible(k)}
           results == [k \in Keys |-> IF Visible(k) = None THEN <<>>
                                      ELSE Contents(heap, Visible(k).results)]
           events  == [k \in Keys |-> IF Visible(k) = None THEN <<>>
                                      ELSE Newest(Visible(k).events, MaxEvents)]
<1>1. VisibleKnown /\ VisibleKnown' /\ LiveKnown'
  BY WhatIsVisible, WhatIsLive, PTL DEF Inv
<1>2. ASSUME NEW k \in Keys, Visible(k)' # None
      PROVE  heap'[Visible(k)'.results.array] = heap[Visible(k)'.results.array]
  <2> DEFINE a == Visible(k)'.results.array
  <2>1. Visible(k)' \in Statuses
    BY <1>1, <1>2 DEF VisibleKnown
  <2>2. a \in Arrays /\ a \in Live'
    BY <1>1, <1>2, <2>1 DEF LiveKnown, Statuses, Slices
  <2>3. HeapBecomes(heap) => heap'[a] = heap[a]
    BY <2>2, HeapAfter DEF Inv, Typed
  <2> QED BY <2>3
<1>3. ASSUME NEW k \in Keys
      PROVE  /\ results'[k] = IF k \in keys THEN results[k] ELSE <<>>
             /\ events'[k] = IF k \in keys THEN events[k] ELSE <<>>
  <2>1. CASE Visible(k)' = None
    BY <2>1
  <2>2. CASE Visible(k)' # None
    BY <1>2, <2>2 DEF Contents
  <2> QED BY <2>1, <2>2
<1>4. /\ results' = [k \in Keys |-> IF k \in keys THEN results[k] ELSE <<>>]
      /\ events' = [k \in Keys |-> IF k \in keys THEN events[k] ELSE <<>>]
  BY <1>3
<1>5. Abstract!DeleteAllEndpointStatusesNotInKeys(keys)
  BY <1>4 DEF Abstract!DeleteAllEndpointStatusesNotInKeys
<1>6. keys \in SUBSET Keys
  OBVIOUS
<1> QED BY <1>5, <1>6 DEF Abstract!Next

(***************************************************************************)
(* Every step of the memory store is one of the abstract store.            *)
(***************************************************************************)
LEMMA AbstractStep == Inv /\ [Next]_vars => Abstract!Next
<1> SUFFICES ASSUME Inv, [Next]_vars PROVE Abstract!Next
  OBVIOUS
<1>0. Inv'
  BY InvStep
<1>1. ASSUME NEW i \in Inserters, NEW k \in Keys, NEW success \in BOOLEAN,
             BeginInsert(i, k, success)
      PROVE  Abstract!Next
  <2>1. heap' = heap /\ \A l \in Keys : Visible(l)' \in {Visible(l), None}
    BY <1>1, BeginKeeps DEF BeginInsert
  <2> QED BY <1>0, <2>1, IsDeletion
<1>2. ASSUME NEW i \in Inserters, EndInsert(i) PROVE Abstract!Next
  BY <1>2, EndIsInsertion
<1>3. ASSUME NEW r \in Readers, NEW k \in Keys, NEW page \in PageNumbers,
             NEW size \in PageSizes, Read(r, k, page, size)
      PROVE  Abstract!Next
  <2>1. heap' = heap /\ \A l \in Keys : Visible(l)' \in {Visible(l), None}
    BY <1>3, ReadKeeps DEF Read
  <2> QED BY <1>0, <2>1, IsDeletion
<1>4. ASSUME NEW r \in Readers, Respond(r) PROVE Abstract!Next
  <2>1. HeapBecomes(heap) /\ \A l \in Keys : Visible(l)' \in {Visible(l), None}
    BY <1>4, RespondKeeps DEF Respond
  <2> QED BY <1>0, <2>1, IsDeletion
<1>5. ASSUME NEW keys \in Configurations, Reload(keys) PROVE Abstract!Next
  <2>1. HeapBecomes(heap) /\ \A l \in Keys : Visible(l)' \in {Visible(l), None}
    BY <1>5, ReloadKeeps DEF Reload
  <2> QED BY <1>0, <2>1, IsDeletion
<1>6. CASE DeleteAll
  <2>1. HeapBecomes(heap) /\ \A l \in Keys : Visible(l)' \in {Visible(l), None}
    BY <1>6, DeleteKeeps DEF DeleteAll
  <2> QED BY <1>0, <2>1, IsDeletion
<1>7. CASE ListKeys \/ (\E k \in Keys : StrangerReturns(k)) \/ UNCHANGED vars
  <2>1. heap' = heap /\ \A l \in Keys : Visible(l)' \in {Visible(l), None}
    BY <1>7, RestKeeps DEF ListKeys, StrangerReturns, vars
  <2> QED BY <1>0, <2>1, IsDeletion
<1> QED BY <1>1, <1>2, <1>3, <1>4, <1>5, <1>6, <1>7 DEF Next

(***************************************************************************)
(* An insertion works on the only copy of a status, in steps between which *)
(* requests are answered, old keys are deleted and the store is replaced:  *)
(* what others see of the statuses changes as in the sequential store.     *)
(***************************************************************************)
THEOREM MemoryImplementsStore == Spec => Implements
<1>1. Init => Abstract!Init
  <2> SUFFICES ASSUME Init PROVE Abstract!Init
    OBVIOUS
  <2>1. VisibleKnown
    BY InvInit, WhatIsVisible DEF Inv
  <2>2. \A k \in Keys : Visible(k) = None
    BY <2>1 DEF VisibleKnown, Init
  <2> QED BY <2>2 DEF Abstract!Init
<1> QED BY <1>1, InvInit, InvStep, AbstractStep, PTL DEF Spec, Implements, Abstract!Spec

====
