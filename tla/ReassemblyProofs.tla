-------------------------- MODULE ReassemblyProofs --------------------------
(***************************************************************************)
(* Theorems about Reassembly, for every bound on a PDU and for every way a  *)
(* dissector has of calling its functions.                                  *)
(***************************************************************************)
EXTENDS Reassembly, InductionLemmas, SequenceTheorems, TLAPS

-----------------------------------------------------------------------------
(***************************************************************************)
(* Lists of fragments, and what their cache should be.                      *)
(***************************************************************************)

\* The fields of a fragment.
IsItem(fd) ==
    /\ fd = [uid |-> fd.uid, frame |-> fd.frame, offset |-> fd.offset, len |-> fd.len,
             variant |-> fd.variant, flags |-> fd.flags, has_data |-> fd.has_data]
    /\ fd.uid \in Nat \ {0} /\ fd.offset \in Nat /\ fd.len \in Nat

IsList(items) ==
    /\ Len(items) \in Nat
    /\ items = [i \in 1 .. Len(items) |-> items[i]]
    /\ \A i \in 1 .. Len(items) : IsItem(items[i])

\* No fragment is in the list twice.
Distinct(items) == \A i, j \in 1 .. Len(items) : items[i].uid = items[j].uid => i = j

InOrder(items) == \A i, j \in 1 .. Len(items) : i <= j => items[i].offset <= items[j].offset

\* The fragment at a place has position p.
Has(items, i, p) == items[i].offset <= p /\ p < EndOf(items[i])

CoveredUpTo(items, n) == \A p \in 0 .. n - 1 : \E i \in 1 .. Len(items) : Has(items, i, p)

\* What CacheExact says, place by place.
Exact(items, contiguous, gap) ==
    /\ CoveredUpTo(items, contiguous)
    /\ \A i \in 1 .. Len(items) : ~Has(items, i, contiguous)
    /\ \/ gap = NULL /\ \A i \in 1 .. Len(items) : items[i].offset > 0
       \/ \E k \in 1 .. Len(items) :
             /\ gap = items[k].uid /\ items[k].offset <= contiguous
             /\ \A j \in k + 1 .. Len(items) : items[j].offset > contiguous

\* A function on 1 .. n is a sequence.
LEMMA FunctionIsSeq ==
    ASSUME NEW n \in Nat, NEW f, f = [i \in 1 .. n |-> f[i]]
    PROVE  Len(f) = n /\ f \in Seq({f[i] : i \in 1 .. n}) /\ DOMAIN f = 1 .. n
<1>1. f \in [1 .. n -> {f[i] : i \in 1 .. n}]
  OBVIOUS
<1> QED  BY <1>1

\* The ends of fragments are numbers.
LEMMA EndsAreNumbers ==
    ASSUME NEW items, IsList(items), NEW i \in 1 .. Len(items)
    PROVE  /\ items[i].offset \in Nat /\ items[i].len \in Nat /\ EndOf(items[i]) \in Nat
           /\ items[i].offset <= EndOf(items[i])
           /\ items[i].uid \in Nat \ {0}
<1>1. items[i].offset \in Nat /\ items[i].len \in Nat /\ items[i].uid \in Nat \ {0}
  BY DEF IsList, IsItem
<1>2. PICK a \in Nat, b \in Nat : a = items[i].offset /\ b = items[i].len
  BY <1>1
<1> QED  BY <1>1, <1>2 DEF EndOf

\* A sorted list is in order.
LEMMA SortedInOrder ==
    ASSUME NEW head, IsList(head.items), Sorted(head)
    PROVE  InOrder(head.items)
<1> DEFINE q == head.items
<1>1. \A i \in 1 .. Len(q) : q[i].offset \in Nat /\ Len(q) \in Nat
  BY EndsAreNumbers DEF IsList
<1>2. \A i \in 1 .. Len(q) - 1 : q[i].offset <= q[i + 1].offset
  BY DEF Sorted
<1> HIDE DEF q
<1> SUFFICES ASSUME NEW i \in 1 .. Len(q)
             PROVE  \A j \in 1 .. Len(q) : i <= j => q[i].offset <= q[j].offset
  BY DEF InOrder, q
<1> DEFINE S == {d \in Nat : i + d <= Len(q) => q[i].offset <= q[i + d].offset}
<1>3. 0 \in S
  BY <1>1
<1>4. ASSUME NEW d \in Nat, d \in S PROVE d + 1 \in S
  <2> SUFFICES ASSUME i + (d + 1) <= Len(q) PROVE q[i].offset <= q[i + (d + 1)].offset
    OBVIOUS
  <2>1. i + d \in 1 .. Len(q) - 1 /\ i + (d + 1) \in 1 .. Len(q) /\ i + d \in 1 .. Len(q)
    BY <1>1
  <2>2. q[i].offset <= q[i + d].offset
    BY <1>4, <2>1
  <2>3. q[i + d].offset <= q[i + (d + 1)].offset
    BY <1>2, <2>1
  <2> QED  BY <1>1, <2>1, <2>2, <2>3
<1> HIDE DEF S
<1>5. Nat \subseteq S
  BY <1>3, <1>4, SetInduction
<1>6. ASSUME NEW j \in 1 .. Len(q), i <= j PROVE q[i].offset <= q[j].offset
  <2>1. j - i \in Nat /\ i + (j - i) = j /\ j <= Len(q)
    BY <1>1, <1>6
  <2>2. j - i \in S
    BY <1>5, <2>1
  <2> QED  BY <2>1, <2>2 DEF S
<1> QED  BY <1>6

\* Exact is what the cache should be.
LEMMA ExactCache ==
    ASSUME NEW head, IsList(head.items), InOrder(head.items), head.contiguous_len \in Nat,
           Exact(head.items, head.contiguous_len, head.first_gap)
    PROVE  Sorted(head) /\ CacheExact(head)
<1> DEFINE q == head.items
           c == head.contiguous_len
           before == {i \in DOMAIN q : q[i].offset <= c}
<1>1. DOMAIN q = 1 .. Len(q) /\ Len(q) \in Nat
  BY DEF IsList
<1>2. Sorted(head)
  BY <1>1 DEF Sorted, InOrder
<1>3. Covered(head, c)
  BY <1>1 DEF Covered, Exact, CoveredUpTo, Has
<1>4. ~Covered(head, c + 1)
  <2>1. c \in 0 .. (c + 1) - 1
    OBVIOUS
  <2>2. \A i \in DOMAIN q : ~(q[i].offset <= c /\ c < EndOf(q[i]))
    BY <1>1 DEF Exact, Has
  <2> QED  BY <2>1, <2>2 DEF Covered
<1>5. head.first_gap = IF \A i \in DOMAIN q : q[i].offset > 0 THEN NULL
                       ELSE q[CHOOSE i \in before : \A j \in before : j <= i].uid
  <2>1. CASE head.first_gap = NULL /\ \A i \in 1 .. Len(q) : q[i].offset > 0
    BY <1>1, <2>1
  <2>2. ASSUME NEW k \in 1 .. Len(q), head.first_gap = q[k].uid, q[k].offset <= c,
               \A j \in k + 1 .. Len(q) : q[j].offset > c
        PROVE  head.first_gap = IF \A i \in DOMAIN q : q[i].offset > 0 THEN NULL
                                ELSE q[CHOOSE i \in before : \A j \in before : j <= i].uid
    <3>1. \A i \in 1 .. Len(q) : q[i].offset \in Nat
      BY EndsAreNumbers
    <3>2. ~ \A i \in DOMAIN q : q[i].offset > 0
      <4>1. CASE c = 0
        <5>1. q[k].offset = 0
          BY <2>2, <3>1, <4>1
        <5> QED  BY <1>1, <5>1
      <4>2. CASE c # 0
        <5>1. 0 \in 0 .. c - 1
          BY <4>2
        <5>2. PICK i \in 1 .. Len(q) : q[i].offset <= 0
          BY <5>1 DEF Exact, CoveredUpTo, Has
        <5>3. q[i].offset = 0
          BY <3>1, <5>2
        <5> QED  BY <1>1, <5>3
      <4> QED  BY <4>1, <4>2
    <3>3. k \in before
      BY <1>1, <2>2
    <3>4. \A j \in before : j <= k
      <4> SUFFICES ASSUME NEW j \in 1 .. Len(q), q[j].offset <= c PROVE j <= k
        BY <1>1
      <4> SUFFICES ASSUME ~(j <= k) PROVE FALSE
        OBVIOUS
      <4>1. j \in k + 1 .. Len(q)
        BY <1>1
      <4>2. q[j].offset > c /\ q[j].offset \in Nat
        BY <2>2, <3>1, <4>1
      <4> QED  BY <4>2
    <3>5. \A i \in before : (\A j \in before : j <= i) => i = k
      BY <1>1, <3>3, <3>4
    <3> HIDE DEF before
    <3>6. (CHOOSE i \in before : \A j \in before : j <= i) = k
      BY <3>3, <3>4, <3>5
    <3> QED  BY <2>2, <3>2, <3>6
  <2> QED  BY <2>1, <2>2 DEF Exact
<1> QED  BY <1>2, <1>3, <1>4, <1>5 DEF CacheExact

-----------------------------------------------------------------------------
(***************************************************************************)
(* How far update_first_gap walks.                                          *)
(***************************************************************************)

\* What the fragments behind a place up to another reach, with what the others do.
Ends(items, from, k, place) == {k} \cup {EndOf(items[j]) : j \in from + 1 .. place}

\* Reach is the largest of these.
LEMMA ReachLargest ==
    ASSUME NEW items, IsList(items), NEW from \in 1 .. Len(items), NEW k \in Nat,
           NEW place \in from .. Len(items)
    PROVE  /\ Reach(items, from, k, place) \in Nat
           /\ Reach(items, from, k, place) \in Ends(items, from, k, place)
           /\ \A e \in Ends(items, from, k, place) : e <= Reach(items, from, k, place)
<1> DEFINE E(p) == Ends(items, from, k, p)
           S == {d \in Nat : from + d <= Len(items) =>
                                \E m \in E(from + d) : m \in Nat /\ \A y \in E(from + d) : m >= y}
<1>1. Len(items) \in Nat
  BY DEF IsList
<1>2. 0 \in S
  <2>1. E(from + 0) = {k}
    BY <1>1 DEF Ends
  <2>2. k \in {k} /\ k \in Nat /\ \A y \in {k} : k >= y
    OBVIOUS
  <2> HIDE DEF E
  <2> QED  BY <2>1, <2>2
<1>3. ASSUME NEW d \in Nat, d \in S PROVE d + 1 \in S
  <2> SUFFICES ASSUME from + (d + 1) <= Len(items)
               PROVE  \E m \in E(from + (d + 1)) : m \in Nat /\ \A y \in E(from + (d + 1)) : m >= y
    OBVIOUS
  <2>1. PICK m \in E(from + d) : m \in Nat /\ \A y \in E(from + d) : m >= y
    BY <1>1, <1>3
  <2>2. from + (d + 1) \in 1 .. Len(items)
    BY <1>1
  <2>3. PICK x \in Nat : x = EndOf(items[from + (d + 1)])
    BY <2>2, EndsAreNumbers
  <2>4. E(from + (d + 1)) = E(from + d) \cup {x}
    BY <1>1, <2>3 DEF Ends
  <2> HIDE DEF E
  <2>5. CASE x <= m
    BY <2>1, <2>4, <2>5
  <2>6. CASE ~(x <= m)
    <3>1. \A y \in E(from + d) : y \in Int => x >= y
      BY <2>1, <2>6
    <3>2. \A y \in E(from + d) : y \in Int
      <4> SUFFICES ASSUME NEW y \in E(from + d) PROVE y \in Int
        OBVIOUS
      <4>1. y = k \/ \E j \in from + 1 .. from + d : y = EndOf(items[j])
        BY DEF E, Ends
      <4>2. \A j \in from + 1 .. from + d : j \in 1 .. Len(items)
        BY <1>1, <2>2
      <4> QED  BY <4>1, <4>2, EndsAreNumbers
    <3> QED  BY <2>4, <3>1, <3>2
  <2> QED  BY <2>5, <2>6
<1> HIDE DEF S
<1>4. Nat \subseteq S
  BY <1>2, <1>3, SetInduction
<1>5. place - from \in Nat /\ from + (place - from) = place /\ place <= Len(items)
  BY <1>1
<1>6. \E m \in E(place) : m \in Nat /\ \A y \in E(place) : m >= y
  <2>1. place - from \in S
    BY <1>4, <1>5
  <2> QED  BY <1>5, <2>1 DEF S
<1>7. Reach(items, from, k, place) = CHOOSE m \in E(place) : \A y \in E(place) : m >= y
  BY DEF Reach, Max, Ends
<1>8. \A e \in E(place) : e \in Nat
  <2> SUFFICES ASSUME NEW y \in E(place) PROVE y \in Nat
    OBVIOUS
  <2>1. y = k \/ \E j \in from + 1 .. place : y = EndOf(items[j])
    BY DEF Ends
  <2>2. \A j \in from + 1 .. place : j \in 1 .. Len(items)
    BY <1>1
  <2> QED  BY <2>1, <2>2, EndsAreNumbers
<1> HIDE DEF E
<1>9. PICK r : r = Reach(items, from, k, place)
  OBVIOUS
<1>10. r \in E(place) /\ \A y \in E(place) : r >= y
  BY <1>6, <1>7, <1>9
<1>11. r \in Nat /\ \A e \in E(place) : e <= r
  BY <1>8, <1>10
<1> QED  BY <1>9, <1>10, <1>11 DEF E

\* What it says of the places.
LEMMA ReachFacts ==
    ASSUME NEW items, IsList(items), NEW from \in 1 .. Len(items), NEW k \in Nat,
           NEW place \in from .. Len(items)
    PROVE  /\ Reach(items, from, k, place) \in Nat
           /\ k <= Reach(items, from, k, place)
           /\ \A j \in from + 1 .. place : EndOf(items[j]) <= Reach(items, from, k, place)
           /\ place = from => Reach(items, from, k, place) = k
           /\ place < Len(items) =>
                 \/ Reach(items, from, k, place + 1) = Reach(items, from, k, place)
                 \/ Reach(items, from, k, place + 1) = EndOf(items[place + 1])
<1>1. Len(items) \in Nat
  BY DEF IsList
<1>2. /\ Reach(items, from, k, place) \in Nat
      /\ Reach(items, from, k, place) \in Ends(items, from, k, place)
      /\ \A e \in Ends(items, from, k, place) : e <= Reach(items, from, k, place)
  BY ReachLargest
<1>3. k <= Reach(items, from, k, place)
  BY <1>2 DEF Ends
<1>4. \A j \in from + 1 .. place : EndOf(items[j]) <= Reach(items, from, k, place)
  BY <1>2 DEF Ends
<1>5. place = from => Reach(items, from, k, place) = k
  <2>1. place = from => Ends(items, from, k, place) = {k}
    BY <1>1 DEF Ends
  <2> QED  BY <1>2, <2>1
<1>6. ASSUME place < Len(items)
      PROVE  \/ Reach(items, from, k, place + 1) = Reach(items, from, k, place)
             \/ Reach(items, from, k, place + 1) = EndOf(items[place + 1])
  <2>1. place + 1 \in from .. Len(items)
    BY <1>1, <1>6
  <2>2. PICK r, s : r = Reach(items, from, k, place) /\ s = Reach(items, from, k, place + 1)
    OBVIOUS
  <2>3. /\ s \in Nat /\ s \in Ends(items, from, k, place + 1)
        /\ \A e \in Ends(items, from, k, place + 1) : e <= s
    BY <2>1, <2>2, ReachLargest
  <2>4. Ends(items, from, k, place + 1) = Ends(items, from, k, place) \cup {EndOf(items[place + 1])}
    BY <1>1 DEF Ends
  <2>5. r \in Nat /\ r <= s
    BY <1>2, <2>2, <2>3, <2>4
  <2>6. s \in Ends(items, from, k, place) => s <= r
    BY <1>2, <2>2
  <2>7. s \in Ends(items, from, k, place) \/ s = EndOf(items[place + 1])
    BY <2>3, <2>4
  <2> QED  BY <2>2, <2>3, <2>5, <2>6, <2>7
<1> QED  BY <1>2, <1>3, <1>4, <1>5, <1>6

\* Where update_first_gap's walk ends.
LEMMA AdvanceStops ==
    ASSUME NEW items, IsList(items), NEW from \in 1 .. Len(items), NEW k \in Nat
    PROVE  \E at \in from .. Len(items) :
              /\ Advance(items, from, k) = [at |-> at, contiguous |-> Reach(items, from, k, at)]
              /\ at = Len(items) \/ items[at + 1].offset > Reach(items, from, k, at)
              /\ \A j \in from .. at - 1 : items[j + 1].offset <= Reach(items, from, k, j)
<1> DEFINE stops(i) == i = Len(items) \/ items[i + 1].offset > Reach(items, from, k, i)
           T == {i \in from .. Len(items) : stops(i)}
           first(i) == /\ i = Len(items) \/ items[i + 1].offset > Reach(items, from, k, i)
                       /\ \A j \in from .. i - 1 : items[j + 1].offset <= Reach(items, from, k, j)
<1>1. Len(items) \in Nat
  BY DEF IsList
<1>2. T \subseteq Nat /\ Len(items) \in T
  BY <1>1
<1>3. PICK i \in T : \A j \in T : i <= j
  <2> HIDE DEF T
  <2> QED  BY <1>2, NatMin
<1>4. i \in from .. Len(items) /\ first(i)
  <2>1. ASSUME NEW j \in from .. i - 1 PROVE items[j + 1].offset <= Reach(items, from, k, j)
    <3>1. j \in from .. Len(items) /\ j \notin T /\ j + 1 \in 1 .. Len(items)
      BY <1>1, <1>3
    <3>2. ~(items[j + 1].offset > Reach(items, from, k, j))
      BY <3>1
    <3>3. items[j + 1].offset \in Nat /\ Reach(items, from, k, j) \in Nat
      BY <3>1, EndsAreNumbers, ReachLargest
    <3> QED  BY <3>2, <3>3
  <2> QED  BY <1>3, <2>1
<1>5. PICK at : at = CHOOSE n \in from .. Len(items) : first(n)
  OBVIOUS
<1>6. at \in from .. Len(items) /\ first(at)
  <2> HIDE DEF first
  <2> QED  BY <1>4, <1>5
<1>7. Advance(items, from, k) = [at |-> at, contiguous |-> Reach(items, from, k, at)]
  BY <1>5 DEF Advance
<1> QED  BY <1>6, <1>7

\* The walk ends before the first gap.
LEMMA AdvanceExact ==
    ASSUME NEW items, IsList(items), InOrder(items), NEW from \in 1 .. Len(items), NEW k \in Nat,
           CoveredUpTo(items, k), \A j \in 1 .. from : EndOf(items[j]) <= k
    PROVE  LET a == Advance(items, from, k)
           IN  /\ a.at \in 1 .. Len(items) /\ a.contiguous \in Nat
               /\ Exact(items, a.contiguous, items[a.at].uid)
<1>1. Len(items) \in Nat
  BY DEF IsList
<1>2. PICK at \in from .. Len(items) :
         /\ Advance(items, from, k) = [at |-> at, contiguous |-> Reach(items, from, k, at)]
         /\ at = Len(items) \/ items[at + 1].offset > Reach(items, from, k, at)
         /\ \A j \in from .. at - 1 : items[j + 1].offset <= Reach(items, from, k, j)
  BY AdvanceStops
<1>3. \A i \in from .. Len(items) : /\ Reach(items, from, k, i) \in Nat /\ k <= Reach(items, from, k, i)
                                    /\ \A j \in from + 1 .. i : EndOf(items[j]) <= Reach(items, from, k, i)
  BY ReachFacts
<1>4. \A d \in Nat : from + d <= at => CoveredUpTo(items, Reach(items, from, k, from + d))
  <2> DEFINE S == {d \in Nat : from + d <= at => CoveredUpTo(items, Reach(items, from, k, from + d))}
  <2>1. 0 \in S
    <3>1. from \in from .. Len(items) /\ from + 0 = from
      BY <1>1
    <3>2. Reach(items, from, k, from + 0) = k
      BY <3>1, ReachFacts
    <3> QED  BY <3>2
  <2>2. ASSUME NEW d \in Nat, d \in S PROVE d + 1 \in S
    <3> SUFFICES ASSUME from + (d + 1) <= at
                 PROVE  CoveredUpTo(items, Reach(items, from, k, from + (d + 1)))
      OBVIOUS
    <3>1. PICK p \in from .. Len(items) : /\ p = from + d /\ p < at
                                          /\ p + 1 = from + (d + 1) /\ p + 1 \in 1 .. Len(items)
      BY <1>1
    <3>2. CoveredUpTo(items, Reach(items, from, k, p))
      BY <2>2, <3>1
    <3>3. PICK r \in Nat : r = Reach(items, from, k, p)
      BY <1>3, <3>1
    <3>4. \/ Reach(items, from, k, p + 1) = r
          \/ Reach(items, from, k, p + 1) = EndOf(items[p + 1])
      BY <1>1, <3>1, <3>3, ReachFacts
    <3>5. CASE Reach(items, from, k, p + 1) = r
      BY <3>1, <3>2, <3>3, <3>5
    <3>6. CASE Reach(items, from, k, p + 1) = EndOf(items[p + 1])
      <4>1. p \in from .. at - 1
        BY <1>1, <3>1
      <4>2. items[p + 1].offset <= r
        BY <1>2, <3>3, <4>1
      <4>3. PICK o \in Nat, e \in Nat : o = items[p + 1].offset /\ e = EndOf(items[p + 1])
        BY <3>1, EndsAreNumbers
      <4> SUFFICES ASSUME NEW x \in 0 .. e - 1 PROVE \E i \in 1 .. Len(items) : Has(items, i, x)
        BY <3>1, <3>6, <4>3 DEF CoveredUpTo
      <4>4. CASE x < r
        <5>1. x \in 0 .. r - 1
          BY <4>4
        <5> QED  BY <3>2, <3>3, <5>1 DEF CoveredUpTo
      <4>5. CASE ~(x < r)
        <5>1. o <= x /\ x < e
          BY <4>2, <4>3, <4>5
        <5>2. Has(items, p + 1, x)
          BY <4>3, <5>1 DEF Has
        <5> QED  BY <3>1, <5>2
      <4> QED  BY <4>4, <4>5
    <3> QED  BY <3>4, <3>5, <3>6
  <2> HIDE DEF S
  <2>3. Nat \subseteq S
    BY <2>1, <2>2, SetInduction
  <2> QED  BY <2>3 DEF S
<1>5. PICK r \in Nat : r = Reach(items, from, k, at)
  BY <1>3
<1>6. CoveredUpTo(items, r)
  <2>1. at - from \in Nat /\ from + (at - from) = at /\ at <= at
    BY <1>1
  <2> QED  BY <1>4, <1>5, <2>1
<1>7. \A i \in 1 .. at : EndOf(items[i]) <= r /\ items[i].offset <= r
  <2> SUFFICES ASSUME NEW i \in 1 .. at PROVE EndOf(items[i]) <= r /\ items[i].offset <= r
    OBVIOUS
  <2>1. i \in 1 .. Len(items)
    BY <1>1
  <2>2. PICK o \in Nat, e \in Nat : o = items[i].offset /\ e = EndOf(items[i]) /\ o <= e
    BY <2>1, EndsAreNumbers
  <2>3. CASE i <= from
    <3>1. i \in 1 .. from
      BY <1>1, <2>3
    <3>2. e <= k /\ k <= r
      BY <1>3, <1>5, <2>2, <3>1
    <3> QED  BY <2>2, <3>2
  <2>4. CASE ~(i <= from)
    <3>1. i \in from + 1 .. at
      BY <1>1, <2>4
    <3>2. e <= r
      BY <1>3, <1>5, <2>2, <3>1
    <3> QED  BY <2>2, <3>2
  <2> QED  BY <2>3, <2>4
<1>8. \A i \in at + 1 .. Len(items) : items[i].offset > r
  <2> SUFFICES ASSUME NEW i \in at + 1 .. Len(items) PROVE items[i].offset > r
    OBVIOUS
  <2>1. at # Len(items) /\ at + 1 \in 1 .. Len(items) /\ i \in 1 .. Len(items) /\ at + 1 <= i
    BY <1>1
  <2>2. PICK o \in Nat, e \in Nat : o = items[at + 1].offset /\ e = items[i].offset
    BY <2>1, EndsAreNumbers
  <2>3. o > r
    BY <1>2, <1>5, <2>1, <2>2
  <2>4. o <= e
    BY <2>1, <2>2 DEF InOrder
  <2>5. e > r
    BY <2>3, <2>4
  <2> QED  BY <2>2, <2>5
<1>9. \A i \in 1 .. Len(items) : ~Has(items, i, r)
  <2> SUFFICES ASSUME NEW i \in 1 .. Len(items), Has(items, i, r) PROVE FALSE
    OBVIOUS
  <2>1. PICK o \in Nat, e \in Nat : o = items[i].offset /\ e = EndOf(items[i])
    BY EndsAreNumbers
  <2>2. o <= r /\ r < e
    BY <2>1 DEF Has
  <2>3. CASE i <= at
    <3>1. i \in 1 .. at
      BY <1>1, <2>3
    <3>2. e <= r
      BY <1>7, <2>1, <3>1
    <3> QED  BY <2>2, <3>2
  <2>4. CASE ~(i <= at)
    <3>1. i \in at + 1 .. Len(items)
      BY <1>1, <2>4
    <3>2. o > r
      BY <1>8, <2>1, <3>1
    <3> QED  BY <2>2, <3>2
  <2> QED  BY <2>3, <2>4
<1>10. at \in 1 .. Len(items) /\ at \in 1 .. at
  BY <1>1
<1>11. Exact(items, r, items[at].uid)
  BY <1>6, <1>7, <1>8, <1>9, <1>10 DEF Exact
<1>12. Advance(items, from, k).at = at /\ Advance(items, from, k).contiguous = r
  BY <1>2, <1>5
<1> QED  BY <1>10, <1>11, <1>12

-----------------------------------------------------------------------------
(***************************************************************************)
(* Where LINK_FRAG puts a fragment, and what the list is then.              *)
(***************************************************************************)

\* A list of fragments with its cache.
GoodList(items, contiguous, gap) ==
    /\ IsList(items) /\ Distinct(items) /\ InOrder(items)
    /\ contiguous \in Nat
    /\ Exact(items, contiguous, gap)

\* PlaceOf finds a fragment.
LEMMA PlaceFound ==
    ASSUME NEW head, IsList(head.items), Distinct(head.items), NEW k \in 1 .. Len(head.items)
    PROVE  PlaceOf(head, head.items[k].uid) = k
<1> DEFINE q == head.items
<1>1. DOMAIN q = 1 .. Len(q)
  BY DEF IsList
<1>2. \A i \in 1 .. Len(q) : q[i].uid = q[k].uid => i = k
  BY DEF Distinct
<1> QED  BY <1>1, <1>2 DEF PlaceOf

\* No fragment has the address NULL.
LEMMA NullNotFound ==
    ASSUME NEW head, IsList(head.items)
    PROVE  PlaceOf(head, NULL) = 0
<1>1. \A i \in DOMAIN head.items : head.items[i].uid # NULL
  BY EndsAreNumbers DEF IsList, NULL
<1> QED  BY <1>1 DEF PlaceOf

\* LINK_FRAG puts a fragment behind those that begin no later.
LEMMA LinkedInOrder ==
    ASSUME NEW head, GoodList(head.items, head.contiguous_len, head.first_gap),
           NEW fd, fd.offset \in Nat
    PROVE  /\ LinkAfter(head, fd) \in 0 .. Len(head.items)
           /\ \A j \in 1 .. LinkAfter(head, fd) : head.items[j].offset <= fd.offset
           /\ \A j \in LinkAfter(head, fd) + 1 .. Len(head.items) : fd.offset < head.items[j].offset
<1> DEFINE q == head.items
           n == Len(head.items)
<1>1. n \in Nat /\ IsList(q) /\ InOrder(q) /\ Distinct(q) /\ q = [i \in 1 .. n |-> q[i]]
  BY DEF GoodList, IsList
<1>2. \A i \in 1 .. n : q[i].offset \in Nat
  BY <1>1, EndsAreNumbers
<1>3. PICK o \in Nat : o = fd.offset
  OBVIOUS
<1>4. CASE q = << >>
  <2>1. n = 0 /\ LinkAfter(head, fd) = 0
    BY <1>4 DEF LinkAfter
  <2> QED  BY <2>1
<1>5. CASE q # << >> /\ fd.offset < q[1].offset
  <2>1. LinkAfter(head, fd) = 0 /\ n # 0
    BY <1>1, <1>5 DEF LinkAfter
  <2>2. 1 \in 1 .. n
    BY <1>1, <2>1
  <2>3. ASSUME NEW j \in 1 .. n PROVE o < q[j].offset
    <3>1. q[1].offset <= q[j].offset
      BY <1>1, <2>2 DEF InOrder
    <3>2. PICK a \in Nat, b \in Nat : a = q[1].offset /\ b = q[j].offset
      BY <1>2, <2>2
    <3>3. o < a /\ a <= b
      BY <1>3, <1>5, <3>1, <3>2
    <3> QED  BY <3>2, <3>3
  <2> QED  BY <1>3, <2>1, <2>3
<1>6. CASE q # << >> /\ ~(fd.offset < q[1].offset)
  <2>1. n # 0 /\ 1 \in 1 .. n
    <3>1. n # 0
      BY <1>1, <1>6
    <3> QED  BY <1>1, <3>1
  <2>2. PICK gap : gap = PlaceOf(head, head.first_gap)
    OBVIOUS
  <2>3. gap \in 0 .. n
    <3>1. CASE head.first_gap = NULL
      BY <1>1, <2>2, <3>1, NullNotFound
    <3>2. CASE head.first_gap # NULL
      <4>1. PICK k \in 1 .. n : head.first_gap = q[k].uid
        BY <3>2 DEF GoodList, Exact
      <4>2. gap = k
        BY <1>1, <2>2, <4>1, PlaceFound
      <4> QED  BY <1>1, <4>2
    <3> QED  BY <3>1, <3>2
  <2>4. PICK from : from = IF gap # 0 /\ fd.offset >= q[gap].offset THEN gap ELSE 1
    OBVIOUS
  <2>5. from \in 1 .. n /\ q[from].offset <= o
    <3>1. CASE gap # 0 /\ fd.offset >= q[gap].offset
      <4>1. from = gap /\ gap \in 1 .. n
        BY <1>1, <2>3, <2>4, <3>1
      <4>2. PICK a \in Nat : a = q[gap].offset
        BY <1>2, <4>1
      <4>3. a <= o
        BY <1>3, <3>1, <4>2
      <4> QED  BY <4>1, <4>2, <4>3
    <3>2. CASE ~(gap # 0 /\ fd.offset >= q[gap].offset)
      <4>1. from = 1
        BY <2>4, <3>2
      <4>2. PICK a \in Nat : a = q[1].offset
        BY <1>2, <2>1
      <4>3. a <= o
        BY <1>3, <1>6, <4>2
      <4> QED  BY <2>1, <4>1, <4>2, <4>3
    <3> QED  BY <3>1, <3>2
  <2> DEFINE ends(i) == /\ i = n \/ fd.offset < q[i + 1].offset
                        /\ \A j \in from .. i - 1 : fd.offset >= q[j + 1].offset
             T == {i \in from .. n : i = n \/ fd.offset < q[i + 1].offset}
  <2>6. LinkAfter(head, fd) = CHOOSE i \in from .. n : ends(i)
    BY <1>6, <2>2, <2>4 DEF LinkAfter
  <2>7. T \subseteq Nat /\ n \in T
    BY <1>1, <2>5
  <2>8. PICK i \in T : \A j \in T : i <= j
    <3> HIDE DEF T
    <3> QED  BY <2>7, NatMin
  <2>9. i \in from .. n /\ ends(i)
    <3>1. ASSUME NEW j \in from .. i - 1 PROVE fd.offset >= q[j + 1].offset
      <4>1. j \in from .. n /\ j \notin T /\ j + 1 \in 1 .. n
        BY <1>1, <2>5, <2>8
      <4>2. ~(fd.offset < q[j + 1].offset) /\ q[j + 1].offset \in Nat
        BY <1>2, <4>1
      <4> QED  BY <4>2
    <3> QED  BY <2>8, <3>1
  <2>10. PICK m : m = LinkAfter(head, fd)
    OBVIOUS
  <2>11. m \in from .. n /\ ends(m)
    <3> HIDE DEF ends
    <3> QED  BY <2>6, <2>9, <2>10
  <2>12. m \in 1 .. n
    BY <1>1, <2>5, <2>11
  <2>13. q[m].offset <= o
    <3>1. CASE m = from
      BY <2>5, <3>1
    <3>2. CASE m # from
      <4>1. m - 1 \in from .. m - 1 /\ (m - 1) + 1 = m
        BY <1>1, <2>5, <2>11, <3>2
      <4>2. o >= q[m].offset
        BY <1>3, <2>11, <4>1
      <4> QED  BY <1>2, <2>12, <4>2
    <3> QED  BY <3>1, <3>2
  <2>14. ASSUME NEW j \in 1 .. m PROVE q[j].offset <= o
    <3>1. j \in 1 .. n /\ j <= m
      BY <1>1, <2>12
    <3>2. q[j].offset <= q[m].offset
      BY <1>1, <2>12, <3>1 DEF InOrder
    <3>3. q[j].offset \in Nat /\ q[m].offset \in Nat
      BY <1>2, <2>12, <3>1
    <3> QED  BY <2>13, <3>2, <3>3
  <2>15. ASSUME NEW j \in m + 1 .. n PROVE o < q[j].offset
    <3>1. m # n /\ m + 1 \in 1 .. n /\ j \in 1 .. n /\ m + 1 <= j
      BY <1>1, <2>12
    <3>2. o < q[m + 1].offset
      BY <1>3, <2>11, <3>1
    <3>3. q[m + 1].offset <= q[j].offset
      BY <1>1, <3>1 DEF InOrder
    <3>4. q[j].offset \in Nat /\ q[m + 1].offset \in Nat
      BY <1>2, <3>1
    <3> QED  BY <3>2, <3>3, <3>4
  <2>16. m \in 0 .. n
    BY <2>12
  <2> QED  BY <1>3, <2>10, <2>14, <2>15, <2>16
<1> QED  BY <1>4, <1>5, <1>6

\* A list after an insertion.
Inserted(items, n, fd, t) ==
    /\ IsList(t) /\ Len(t) = Len(items) + 1
    /\ \A j \in 1 .. n : t[j] = items[j]
    /\ t[n + 1] = fd
    /\ \A j \in n + 1 .. Len(items) : t[j + 1] = items[j]

\* InsertAt gives the list after an insertion.
LEMMA InsertedAt ==
    ASSUME NEW items, IsList(items), NEW fd, IsItem(fd), NEW n \in 0 .. Len(items)
    PROVE  Inserted(items, n, fd, InsertAt(items, n + 1, fd))
<1>1. Len(items) \in Nat /\ items = [i \in 1 .. Len(items) |-> items[i]]
  BY DEF IsList
<1>2. PICK V : V = {items[i] : i \in 1 .. Len(items)} \cup {fd}
  OBVIOUS
<1>3. items \in Seq(V) /\ fd \in V
  <2>1. items \in Seq({items[i] : i \in 1 .. Len(items)})
    BY <1>1, FunctionIsSeq
  <2> QED  BY <1>2, <2>1
<1>4. PICK a, b : a = SubSeq(items, 1, n) /\ b = SubSeq(items, n + 1, Len(items))
  OBVIOUS
<1>5. /\ a \in Seq(V) /\ Len(a) = n /\ \A j \in 1 .. n : a[j] = items[j]
  BY <1>1, <1>3, <1>4
<1>6. /\ b \in Seq(V) /\ Len(b) = Len(items) - n
      /\ \A j \in 1 .. Len(items) - n : b[j] = items[j + n]
  BY <1>1, <1>3, <1>4
<1>7. PICK e : e = <<fd>>
  OBVIOUS
<1>8. e \in Seq(V) /\ Len(e) = 1 /\ e[1] = fd
  BY <1>3, <1>7
<1>9. PICK c : c = a \o e
  OBVIOUS
<1>10. /\ c \in Seq(V) /\ Len(c) = n + 1 /\ c[n + 1] = fd
       /\ \A j \in 1 .. n : c[j] = items[j]
  <2>1. /\ c \in Seq(V) /\ Len(c) = Len(a) + Len(e)
        /\ \A i \in 1 .. Len(a) + Len(e) : c[i] = IF i <= Len(a) THEN a[i] ELSE e[i - Len(a)]
    BY <1>5, <1>8, <1>9, ConcatProperties
  <2>2. /\ c \in Seq(V) /\ Len(c) = n + 1
        /\ \A i \in 1 .. n + 1 : c[i] = IF i <= n THEN a[i] ELSE e[i - n]
    BY <1>5, <1>8, <2>1
  <2>3. n \in Nat /\ n + 1 \in 1 .. n + 1 /\ ~(n + 1 <= n) /\ (n + 1) - n = 1
    BY <1>1
  <2>4. c[n + 1] = fd
    BY <1>8, <2>2, <2>3
  <2>5. ASSUME NEW j \in 1 .. n PROVE c[j] = items[j]
    <3>1. j \in 1 .. n + 1 /\ j <= n
      BY <2>3
    <3>2. c[j] = a[j]
      BY <2>2, <3>1
    <3> QED  BY <1>5, <3>2
  <2> QED  BY <2>2, <2>4, <2>5
<1>11. PICK t : t = c \o b
  OBVIOUS
<1>12. /\ t \in Seq(V) /\ Len(t) = Len(items) + 1
       /\ \A i \in 1 .. Len(items) + 1 : t[i] = IF i <= n + 1 THEN c[i] ELSE b[i - (n + 1)]
  <2>1. /\ t \in Seq(V) /\ Len(t) = Len(c) + Len(b)
        /\ \A i \in 1 .. Len(c) + Len(b) : t[i] = IF i <= Len(c) THEN c[i] ELSE b[i - Len(c)]
    BY <1>6, <1>10, <1>11, ConcatProperties
  <2>2. Len(c) = n + 1 /\ Len(c) + Len(b) = Len(items) + 1
    BY <1>1, <1>6, <1>10
  <2> QED  BY <2>1, <2>2
<1>13. \A j \in n + 1 .. Len(items) : t[j + 1] = items[j]
  <2> SUFFICES ASSUME NEW j \in n + 1 .. Len(items) PROVE t[j + 1] = items[j]
    OBVIOUS
  <2>1. /\ j - n \in 1 .. Len(items) - n /\ (j + 1) - (n + 1) = j - n /\ (j - n) + n = j
        /\ j + 1 \in 1 .. Len(items) + 1 /\ ~(j + 1 <= n + 1)
    BY <1>1
  <2>2. t[j + 1] = b[j - n]
    BY <1>12, <2>1
  <2> QED  BY <1>6, <2>1, <2>2
<1>14. \A j \in 1 .. n + 1 : t[j] = c[j]
  <2>1. \A j \in 1 .. n + 1 : j \in 1 .. Len(items) + 1 /\ j <= n + 1
    BY <1>1
  <2> QED  BY <1>12, <2>1
<1>15. (\A j \in 1 .. n : t[j] = items[j]) /\ t[n + 1] = fd
  <2>1. n + 1 \in 1 .. n + 1 /\ \A j \in 1 .. n : j \in 1 .. n + 1
    BY <1>1
  <2> QED  BY <1>10, <1>14, <2>1
<1>16. t = InsertAt(items, n + 1, fd)
  <2>1. (n + 1) - 1 = n
    BY <1>1
  <2> QED  BY <1>4, <1>7, <1>9, <1>11, <2>1 DEF InsertAt
<1>17. IsList(t)
  <2>1. \A v \in V : IsItem(v)
    BY <1>2 DEF IsList
  <2>2. \A j \in 1 .. Len(t) : t[j] \in V
    BY <1>12
  <2>3. t = [j \in 1 .. Len(t) |-> t[j]] /\ Len(t) \in Nat
    BY <1>12
  <2> QED  BY <2>1, <2>2, <2>3 DEF IsList
<1> QED  BY <1>12, <1>13, <1>15, <1>16, <1>17 DEF Inserted

\* Where the fragments are after an insertion.
LEMMA InsertedPlaces ==
    ASSUME NEW items, IsList(items), NEW n \in 0 .. Len(items), NEW fd, NEW t,
           Inserted(items, n, fd, t)
    PROVE  /\ Len(items) \in Nat /\ Len(t) = Len(items) + 1 /\ n + 1 \in 1 .. Len(t)
           /\ t[n + 1] = fd
           /\ \A i \in 1 .. n : i \in 1 .. Len(t) /\ i \in 1 .. Len(items) /\ t[i] = items[i]
           /\ \A i \in n + 1 .. Len(items) :
                 i + 1 \in 1 .. Len(t) /\ i \in 1 .. Len(items) /\ t[i + 1] = items[i]
           /\ \A i \in n + 2 .. Len(t) :
                 i - 1 \in n + 1 .. Len(items) /\ i - 1 \in 1 .. Len(items) /\ t[i] = items[i - 1]
           /\ \A i \in 1 .. Len(t) : i \in 1 .. n \/ i = n + 1 \/ i \in n + 2 .. Len(t)
           /\ \A i \in 1 .. Len(items) : i \in 1 .. n \/ i \in n + 1 .. Len(items)
<1>1. Len(items) \in Nat /\ Len(t) = Len(items) + 1
  BY DEF IsList, Inserted
<1>2. n \in Nat /\ n <= Len(items)
  BY <1>1
<1>3. \A i \in 1 .. n : i \in 1 .. Len(t) /\ i \in 1 .. Len(items)
  BY <1>1, <1>2
<1>4. \A i \in 1 .. n : t[i] = items[i]
  BY DEF Inserted
<1>5. \A i \in n + 1 .. Len(items) : i + 1 \in 1 .. Len(t) /\ i \in 1 .. Len(items)
  BY <1>1, <1>2
<1>6. \A i \in n + 1 .. Len(items) : t[i + 1] = items[i]
  BY DEF Inserted
<1>7. \A i \in n + 2 .. Len(t) :
         i - 1 \in n + 1 .. Len(items) /\ i - 1 \in 1 .. Len(items) /\ (i - 1) + 1 = i
  BY <1>1, <1>2
<1>8. \A i \in n + 2 .. Len(t) : t[i] = items[i - 1]
  BY <1>6, <1>7
<1>9. \A i \in 1 .. Len(t) : i \in 1 .. n \/ i = n + 1 \/ i \in n + 2 .. Len(t)
  BY <1>1, <1>2
<1>10. \A i \in 1 .. Len(items) : i \in 1 .. n \/ i \in n + 1 .. Len(items)
  BY <1>1, <1>2
<1>11. n + 1 \in 1 .. Len(t)
  BY <1>1, <1>2
<1>12. t[n + 1] = fd
  BY DEF Inserted
<1> QED  BY <1>1, <1>3, <1>4, <1>5, <1>6, <1>7, <1>8, <1>9, <1>10, <1>11, <1>12

\* An insertion keeps the fragments distinct and in order.
LEMMA InsertedGood ==
    ASSUME NEW items, IsList(items), Distinct(items), InOrder(items),
           NEW n \in 0 .. Len(items), NEW fd, IsItem(fd), NEW t, Inserted(items, n, fd, t),
           \A j \in 1 .. n : items[j].offset <= fd.offset,
           \A j \in n + 1 .. Len(items) : fd.offset < items[j].offset,
           \A j \in 1 .. Len(items) : items[j].uid # fd.uid
    PROVE  IsList(t) /\ Distinct(t) /\ InOrder(t)
<1>1. IsList(t)
  BY DEF Inserted
<1>2. Len(items) \in Nat /\ Len(t) = Len(items) + 1 /\ n \in Nat /\ n <= Len(items)
  BY InsertedPlaces
<1>3. Distinct(t)
  <2> SUFFICES ASSUME NEW i \in 1 .. Len(t), NEW j \in 1 .. Len(t), t[i].uid = t[j].uid
               PROVE  i = j
    BY DEF Distinct
  <2> DEFINE old(k) == IF k <= n THEN k ELSE k - 1
  <2>1. ASSUME NEW k \in 1 .. Len(t), k # n + 1
        PROVE  old(k) \in 1 .. Len(items) /\ t[k] = items[old(k)]
    <3>1. CASE k \in 1 .. n
      <4>1. k \in 1 .. Len(items) /\ t[k] = items[k]
        BY <3>1, InsertedPlaces
      <4> QED  BY <1>2, <3>1, <4>1
    <3>2. CASE k \in n + 2 .. Len(t)
      <4>1. k - 1 \in 1 .. Len(items) /\ t[k] = items[k - 1]
        BY <3>2, InsertedPlaces
      <4> QED  BY <1>2, <3>2, <4>1
    <3> QED  BY <1>2, <2>1, <3>1, <3>2
  <2>2. t[n + 1].uid = fd.uid
    BY InsertedPlaces
  <2>3. CASE i = n + 1
    <3>1. CASE j = n + 1
      BY <2>3, <3>1
    <3>2. CASE j # n + 1
      BY <2>1, <2>2, <2>3, <3>2
    <3> QED  BY <3>1, <3>2
  <2>4. CASE i # n + 1
    <3>1. CASE j = n + 1
      BY <2>1, <2>2, <2>4, <3>1
    <3>2. CASE j # n + 1
      <4>1. PICK a, b : a = old(i) /\ b = old(j)
        OBVIOUS
      <4>2. a \in 1 .. Len(items) /\ b \in 1 .. Len(items) /\ items[a].uid = items[b].uid
        BY <2>1, <2>4, <3>2, <4>1
      <4>3. a = b
        BY <4>2 DEF Distinct
      <4> QED  BY <1>2, <2>4, <3>2, <4>1, <4>3
    <3> QED  BY <3>1, <3>2
  <2> QED  BY <2>3, <2>4
<1>4. InOrder(t)
  <2> SUFFICES ASSUME NEW i \in 1 .. Len(t), NEW j \in 1 .. Len(t), i <= j
               PROVE  t[i].offset <= t[j].offset
    BY DEF InOrder
  <2>1. fd.offset \in Nat /\ \A k \in 1 .. Len(items) : items[k].offset \in Nat
    BY EndsAreNumbers DEF IsItem
  <2>2. t[n + 1].offset = fd.offset
    BY InsertedPlaces
  <2>3. CASE i \in 1 .. n
    <3>1. i \in 1 .. Len(items) /\ t[i].offset = items[i].offset /\ items[i].offset <= fd.offset
      BY <2>3, InsertedPlaces
    <3>2. CASE j \in 1 .. n
      <4>1. j \in 1 .. Len(items) /\ t[j].offset = items[j].offset
        BY <3>2, InsertedPlaces
      <4> QED  BY <3>1, <4>1 DEF InOrder
    <3>3. CASE j = n + 1
      BY <2>2, <3>1, <3>3
    <3>4. CASE j \in n + 2 .. Len(t)
      <4>1. j - 1 \in 1 .. Len(items) /\ t[j].offset = items[j - 1].offset
        BY <3>4, InsertedPlaces
      <4>2. i <= j - 1
        BY <1>2, <2>3, <3>4
      <4> QED  BY <3>1, <4>1, <4>2 DEF InOrder
    <3> QED  BY <3>2, <3>3, <3>4, InsertedPlaces
  <2>4. CASE i = n + 1
    <3>1. CASE j = n + 1
      BY <2>1, <2>2, <2>4, <3>1
    <3>2. CASE j \in n + 2 .. Len(t)
      <4>1. PICK b : b = j - 1
        OBVIOUS
      <4>2. b \in n + 1 .. Len(items) /\ b \in 1 .. Len(items) /\ t[j].offset = items[b].offset
        BY <3>2, <4>1, InsertedPlaces
      <4>3. fd.offset < items[b].offset
        BY <4>2
      <4>4. fd.offset <= items[b].offset
        BY <2>1, <4>2, <4>3
      <4> QED  BY <2>2, <2>4, <4>2, <4>4
    <3>3. ~(j \in 1 .. n)
      BY <1>2, <2>4
    <3> QED  BY <3>1, <3>2, <3>3, InsertedPlaces
  <2>5. CASE i \in n + 2 .. Len(t)
    <3>1. j \in n + 2 .. Len(t) /\ i - 1 <= j - 1
      BY <1>2, <2>5
    <3>2. PICK a, b : a = i - 1 /\ b = j - 1
      OBVIOUS
    <3>3. /\ a \in 1 .. Len(items) /\ t[i].offset = items[a].offset
          /\ b \in 1 .. Len(items) /\ t[j].offset = items[b].offset /\ a <= b
      BY <2>5, <3>1, <3>2, InsertedPlaces
    <3> QED  BY <3>3 DEF InOrder
  <2> QED  BY <2>3, <2>4, <2>5, InsertedPlaces
<1> QED  BY <1>1, <1>3, <1>4

-----------------------------------------------------------------------------
(***************************************************************************)
(* What an insertion does to the contiguous part.                           *)
(***************************************************************************)

\* The positions that fragments have: those of the old ones and of the new one.
LEMMA InsertedCovers ==
    ASSUME NEW items, IsList(items), NEW n \in 0 .. Len(items), NEW fd, NEW t,
           Inserted(items, n, fd, t), NEW p
    PROVE  /\ (\E i \in 1 .. Len(items) : Has(items, i, p)) => \E i \in 1 .. Len(t) : Has(t, i, p)
           /\ \A i \in 1 .. Len(t) :
                 Has(t, i, p) => \/ fd.offset <= p /\ p < EndOf(fd)
                                 \/ \E j \in 1 .. Len(items) : Has(items, j, p)
<1>1. ASSUME NEW i \in 1 .. Len(items), Has(items, i, p)
      PROVE  \E j \in 1 .. Len(t) : Has(t, j, p)
  <2>1. CASE i \in 1 .. n
    <3>1. i \in 1 .. Len(t) /\ t[i] = items[i]
      BY <2>1, InsertedPlaces
    <3> QED  BY <1>1, <3>1 DEF Has
  <2>2. CASE i \in n + 1 .. Len(items)
    <3>1. i + 1 \in 1 .. Len(t) /\ t[i + 1] = items[i]
      BY <2>2, InsertedPlaces
    <3>2. Has(t, i + 1, p)
      BY <1>1, <3>1 DEF Has
    <3> QED  BY <3>1, <3>2
  <2> QED  BY <2>1, <2>2, InsertedPlaces
<1>2. ASSUME NEW i \in 1 .. Len(t), Has(t, i, p)
      PROVE  \/ fd.offset <= p /\ p < EndOf(fd)
             \/ \E j \in 1 .. Len(items) : Has(items, j, p)
  <2>1. CASE i \in 1 .. n
    <3>1. i \in 1 .. Len(items) /\ t[i] = items[i]
      BY <2>1, InsertedPlaces
    <3> QED  BY <1>2, <3>1 DEF Has
  <2>2. CASE i = n + 1
    <3>1. t[i] = fd
      BY <2>2, InsertedPlaces
    <3> QED  BY <1>2, <3>1 DEF Has
  <2>3. CASE i \in n + 2 .. Len(t)
    <3>1. i - 1 \in 1 .. Len(items) /\ t[i] = items[i - 1]
      BY <2>3, InsertedPlaces
    <3>2. Has(items, i - 1, p)
      BY <1>2, <3>1 DEF Has
    <3> QED  BY <3>1, <3>2
  <2> QED  BY <2>1, <2>2, <2>3, InsertedPlaces
<1> QED  BY <1>1, <1>2

\* A fragment behind the gap leaves the cache as it is.
LEMMA BehindGap ==
    ASSUME NEW items, NEW k, NEW g, GoodList(items, k, g), NEW n \in 0 .. Len(items), NEW fd,
           IsItem(fd), NEW t, Inserted(items, n, fd, t), fd.offset > k,
           \A j \in n + 1 .. Len(items) : fd.offset < items[j].offset
    PROVE  Exact(t, k, g)
<1>1. IsList(items) /\ k \in Nat /\ Exact(items, k, g) /\ InOrder(items)
  BY DEF GoodList
<1>2. fd.offset \in Nat /\ \A i \in 1 .. Len(items) : items[i].offset \in Nat
  BY <1>1, EndsAreNumbers DEF IsItem
<1>3. CoveredUpTo(t, k)
  <2> SUFFICES ASSUME NEW p \in 0 .. k - 1 PROVE \E i \in 1 .. Len(t) : Has(t, i, p)
    BY DEF CoveredUpTo
  <2>1. \E i \in 1 .. Len(items) : Has(items, i, p)
    BY <1>1 DEF Exact, CoveredUpTo
  <2> QED  BY <1>1, <2>1, InsertedCovers
<1>4. \A i \in 1 .. Len(t) : ~Has(t, i, k)
  <2>1. ~ \E j \in 1 .. Len(items) : Has(items, j, k)
    BY <1>1 DEF Exact
  <2>2. ~(fd.offset <= k)
    BY <1>1, <1>2
  <2> QED  BY <1>1, <2>1, <2>2, InsertedCovers
<1>5. CASE g = NULL /\ \A i \in 1 .. Len(items) : items[i].offset > 0
  <2>1. ASSUME NEW i \in 1 .. Len(t) PROVE t[i].offset > 0
    <3>1. CASE i \in 1 .. n
      <4>1. i \in 1 .. Len(items) /\ t[i] = items[i]
        BY <1>1, <3>1, InsertedPlaces
      <4> QED  BY <1>5, <4>1
    <3>2. CASE i = n + 1
      <4>1. t[i] = fd
        BY <1>1, <3>2, InsertedPlaces
      <4> QED  BY <1>1, <1>2, <4>1
    <3>3. CASE i \in n + 2 .. Len(t)
      <4>1. i - 1 \in 1 .. Len(items) /\ t[i] = items[i - 1]
        BY <1>1, <3>3, InsertedPlaces
      <4> QED  BY <1>5, <4>1
    <3> QED  BY <1>1, <3>1, <3>2, <3>3, InsertedPlaces
  <2> QED  BY <1>3, <1>4, <1>5, <2>1 DEF Exact
<1>6. ASSUME NEW a \in 1 .. Len(items), g = items[a].uid, items[a].offset <= k,
             \A j \in a + 1 .. Len(items) : items[j].offset > k
      PROVE  Exact(t, k, g)
  <2>1. a \in 1 .. n
    <3>1. ~(a \in n + 1 .. Len(items))
      <4> SUFFICES ASSUME a \in n + 1 .. Len(items) PROVE FALSE
        OBVIOUS
      <4>1. fd.offset < items[a].offset
        OBVIOUS
      <4> QED  BY <1>1, <1>2, <1>6, <4>1
    <3> QED  BY <1>1, <3>1, InsertedPlaces
  <2>2. a \in 1 .. Len(t) /\ t[a] = items[a]
    BY <1>1, <2>1, InsertedPlaces
  <2>3. ASSUME NEW j \in a + 1 .. Len(t) PROVE t[j].offset > k
    <3>1. Len(items) \in Nat /\ n \in Nat /\ j \in 1 .. Len(t)
      BY <1>1, <2>2, InsertedPlaces
    <3>2. CASE j \in 1 .. n
      <4>1. j \in a + 1 .. Len(items) /\ t[j] = items[j]
        <5>1. j \in 1 .. Len(items) /\ t[j] = items[j]
          BY <1>1, <3>2, InsertedPlaces
        <5> QED  BY <3>1, <5>1
      <4> QED  BY <1>6, <4>1
    <3>3. CASE j = n + 1
      <4>1. t[j] = fd
        BY <1>1, <3>3, InsertedPlaces
      <4> QED  BY <4>1
    <3>4. CASE j \in n + 2 .. Len(t)
      <4>1. j - 1 \in 1 .. Len(items) /\ t[j] = items[j - 1]
        BY <1>1, <3>4, InsertedPlaces
      <4>2. j - 1 \in a + 1 .. Len(items)
        BY <2>1, <3>1, <3>4, <4>1
      <4> QED  BY <1>6, <4>1, <4>2
    <3> QED  BY <1>1, <3>1, <3>2, <3>3, <3>4, InsertedPlaces
  <2> QED  BY <1>3, <1>4, <1>6, <2>2, <2>3 DEF Exact
<1> QED  BY <1>1, <1>5, <1>6 DEF Exact

\* Before the gap there is no fragment that ends behind it.
LEMMA EndsBeforeGap ==
    ASSUME NEW items, NEW k, NEW g, GoodList(items, k, g), NEW i \in 1 .. Len(items),
           items[i].offset <= k
    PROVE  EndOf(items[i]) <= k
<1>1. IsList(items) /\ k \in Nat /\ ~Has(items, i, k)
  BY DEF GoodList, Exact
<1>2. EndOf(items[i]) \in Nat
  BY <1>1, EndsAreNumbers
<1> QED  BY <1>1, <1>2 DEF Has

\* The first fragment at the start of the PDU begins the contiguous part.
LEMMA FirstAtStart ==
    ASSUME NEW items, NEW k, GoodList(items, k, NULL), NEW n \in 0 .. Len(items), NEW fd,
           IsItem(fd), NEW t, Inserted(items, n, fd, t), fd.offset <= k,
           \A j \in 1 .. n : items[j].offset <= fd.offset
    PROVE  /\ n = 0 /\ fd.offset = 0
           /\ CoveredUpTo(t, fd.len)
           /\ \A j \in 1 .. 1 : EndOf(t[j]) <= fd.len
<1>1. IsList(items) /\ k \in Nat /\ Exact(items, k, NULL)
  BY DEF GoodList
<1>2. \A i \in 1 .. Len(items) : items[i].uid # NULL /\ items[i].offset \in Nat
  BY <1>1, EndsAreNumbers DEF NULL
<1>3. \A i \in 1 .. Len(items) : items[i].offset > 0
  BY <1>1, <1>2 DEF Exact
<1>4. k = 0
  <2> SUFFICES ASSUME k # 0 PROVE FALSE
    OBVIOUS
  <2>1. 0 \in 0 .. k - 1
    BY <1>1
  <2>2. PICK i \in 1 .. Len(items) : items[i].offset <= 0
    BY <1>1, <2>1 DEF Exact, CoveredUpTo, Has
  <2> QED  BY <1>2, <1>3, <2>2
<1>5. fd.offset = 0 /\ fd.len \in Nat
  BY <1>4 DEF IsItem
<1>6. n = 0
  <2> SUFFICES ASSUME n # 0 PROVE FALSE
    OBVIOUS
  <2>1. Len(items) \in Nat
    BY <1>1 DEF IsList
  <2>2. 1 \in 1 .. n /\ 1 \in 1 .. Len(items)
    BY <2>1
  <2>3. items[1].offset <= 0
    BY <1>5, <2>2
  <2> QED  BY <1>2, <1>3, <2>2, <2>3
<1>7. t[1] = fd /\ 1 \in 1 .. Len(t)
  <2>1. n + 1 = 1
    BY <1>6
  <2> QED  BY <1>1, <2>1, InsertedPlaces
<1>8. EndOf(fd) = fd.len
  BY <1>5 DEF EndOf
<1>9. CoveredUpTo(t, fd.len)
  <2> SUFFICES ASSUME NEW p \in 0 .. fd.len - 1 PROVE \E i \in 1 .. Len(t) : Has(t, i, p)
    BY DEF CoveredUpTo
  <2>1. Has(t, 1, p)
    BY <1>5, <1>7, <1>8 DEF Has
  <2> QED  BY <1>7, <2>1
<1>10. \A j \in 1 .. 1 : EndOf(t[j]) <= fd.len
  BY <1>5, <1>7, <1>8
<1> QED  BY <1>5, <1>6, <1>9, <1>10

\* Where the contiguous part ends at least with a fragment that begins in it.
Furthest(k, fd) == IF EndOf(fd) > k THEN EndOf(fd) ELSE k

\* The list is contiguous up to c, and no fragment up to the one with the uid ends later.
Contiguous(t, uid, c) ==
    /\ CoveredUpTo(t, c)
    /\ \E from \in 1 .. Len(t) : t[from].uid = uid /\ \A j \in 1 .. from : EndOf(t[j]) <= c

\* A fragment that begins no later than the gap is before it, or right behind the
\* last one that is.
LEMMA BeforeGap ==
    ASSUME NEW items, NEW k, NEW a, a \in 1 .. Len(items), GoodList(items, k, items[a].uid),
           NEW n \in 0 .. Len(items), NEW fd, IsItem(fd), NEW t, Inserted(items, n, fd, t),
           fd.offset <= k, \A j \in 1 .. n : items[j].offset <= fd.offset
    PROVE  Contiguous(t, items[a].uid, Furthest(k, fd))
<1>1. PICK c : c = Furthest(k, fd)
  OBVIOUS
<1>2. IsList(items) /\ Distinct(items) /\ k \in Nat /\ Exact(items, k, items[a].uid) /\ InOrder(items)
  BY DEF GoodList
<1>3. fd.offset \in Nat /\ fd.len \in Nat /\ EndOf(fd) \in Nat
  <2>1. fd.offset \in Nat /\ fd.len \in Nat
    BY DEF IsItem
  <2> QED  BY <2>1 DEF EndOf
<1>4. \A i \in 1 .. Len(items) : items[i].offset \in Nat /\ EndOf(items[i]) \in Nat
  BY <1>2, EndsAreNumbers
<1>5. c \in Nat /\ EndOf(fd) <= c /\ k <= c /\ (c = k \/ c = EndOf(fd))
  BY <1>1, <1>2, <1>3 DEF Furthest
<1>6. CoveredUpTo(t, c)
  <2> SUFFICES ASSUME NEW p \in 0 .. c - 1 PROVE \E i \in 1 .. Len(t) : Has(t, i, p)
    BY DEF CoveredUpTo
  <2>1. CASE p < k
    <3>1. p \in 0 .. k - 1
      BY <1>2, <1>5, <2>1
    <3>2. \E i \in 1 .. Len(items) : Has(items, i, p)
      BY <1>2, <3>1 DEF Exact, CoveredUpTo
    <3> QED  BY <1>2, <3>2, InsertedCovers
  <2>2. CASE ~(p < k)
    <3>1. fd.offset <= p /\ p < EndOf(fd)
      BY <1>2, <1>3, <1>5, <2>2
    <3>2. n + 1 \in 1 .. Len(t) /\ t[n + 1] = fd
      BY <1>2, InsertedPlaces
    <3>3. Has(t, n + 1, p)
      BY <3>1, <3>2 DEF Has
    <3> QED  BY <3>2, <3>3
  <2> QED  BY <2>1, <2>2
<1>7. items[a].offset <= k /\ \A j \in a + 1 .. Len(items) : items[j].offset > k
  <2>1. items[a].uid # NULL
    BY <1>2, EndsAreNumbers DEF NULL
  <2>2. PICK b \in 1 .. Len(items) : /\ items[a].uid = items[b].uid /\ items[b].offset <= k
                                     /\ \A j \in b + 1 .. Len(items) : items[j].offset > k
    BY <1>2, <2>1 DEF Exact
  <2>3. a = b
    BY <1>2, <2>2 DEF Distinct
  <2> QED  BY <2>2, <2>3
<1>8. Len(items) \in Nat /\ n \in Nat /\ a \in Nat /\ Len(t) = Len(items) + 1 /\ n <= Len(items)
  BY <1>2, InsertedPlaces
<1>9. n <= a
  <2> SUFFICES ASSUME ~(n <= a) PROVE FALSE
    OBVIOUS
  <2>1. n \in a + 1 .. Len(items) /\ n \in 1 .. n /\ n \in 1 .. Len(items)
    BY <1>8
  <2>2. items[n].offset > k /\ items[n].offset <= fd.offset
    BY <1>7, <2>1
  <2> QED  BY <1>2, <1>3, <1>4, <2>1, <2>2
<1>10. ASSUME NEW i \in 1 .. a PROVE i \in 1 .. Len(items) /\ EndOf(items[i]) <= c
  <2>1. i \in 1 .. Len(items) /\ i <= a
    BY <1>8
  <2>2. items[i].offset <= items[a].offset
    BY <1>2, <2>1 DEF InOrder
  <2>3. items[i].offset <= k
    BY <1>2, <1>4, <1>7, <2>1, <2>2
  <2>4. EndOf(items[i]) <= k
    BY <2>1, <2>3, EndsBeforeGap
  <2> QED  BY <1>2, <1>4, <1>5, <2>1, <2>4
<1>11. ASSUME NEW j \in 1 .. a + 1 PROVE j = n + 1 \/ \E i \in 1 .. a : t[j] = items[i]
  <2>1. CASE j <= n
    <3>1. j \in 1 .. n /\ j \in 1 .. a
      BY <1>8, <1>9, <2>1
    <3>2. t[j] = items[j]
      BY <1>2, <3>1, InsertedPlaces
    <3> QED  BY <3>1, <3>2
  <2>2. CASE j > n + 1
    <3>1. j \in n + 2 .. Len(t) /\ j - 1 \in 1 .. a
      BY <1>8, <2>2
    <3>2. t[j] = items[j - 1]
      BY <1>2, <3>1, InsertedPlaces
    <3> QED  BY <3>1, <3>2
  <2> QED  BY <1>8, <2>1, <2>2
<1>12. CASE n = a
  <2>1. a \in 1 .. n /\ a \in 1 .. Len(t)
    BY <1>8, <1>12
  <2>2. t[a] = items[a]
    BY <1>2, <2>1, InsertedPlaces
  <2>3. ASSUME NEW j \in 1 .. a PROVE EndOf(t[j]) <= c
    <3>1. j \in 1 .. n
      BY <1>12
    <3>2. t[j] = items[j]
      BY <1>2, <3>1, InsertedPlaces
    <3> QED  BY <1>10, <3>2
  <2> QED  BY <1>1, <1>6, <2>1, <2>2, <2>3 DEF Contiguous
<1>13. CASE n # a
  <2>1. a + 1 \in n + 2 .. Len(t) /\ a + 1 \in 1 .. Len(t) /\ (a + 1) - 1 = a
    BY <1>8, <1>9, <1>13
  <2>2. t[a + 1] = items[a]
    BY <1>2, <2>1, InsertedPlaces
  <2>3. ASSUME NEW j \in 1 .. a + 1 PROVE EndOf(t[j]) <= c
    <3>1. CASE j = n + 1
      <4>1. t[j] = fd
        BY <1>2, <3>1, InsertedPlaces
      <4> QED  BY <1>5, <4>1
    <3>2. CASE \E i \in 1 .. a : t[j] = items[i]
      BY <1>10, <3>2
    <3> QED  BY <1>11, <3>1, <3>2
  <2> QED  BY <1>1, <1>6, <2>1, <2>2, <2>3 DEF Contiguous
<1> QED  BY <1>12, <1>13

-----------------------------------------------------------------------------
(***************************************************************************)
(* Heads: LINK_FRAG keeps the list sorted and its cache exact.              *)
(***************************************************************************)

\* The fields of a head.
IsHead(h) ==
    h = [exists |-> h.exists, items |-> h.items, first_gap |-> h.first_gap,
         contiguous_len |-> h.contiguous_len, datalen |-> h.datalen, flags |-> h.flags,
         data |-> h.data, has_data |-> h.has_data, frame |-> h.frame,
         reassembled_in |-> h.reassembled_in, error |-> h.error, lost |-> h.lost]

\* A head of which only the list and its cache may have changed.
SameRest(h, r) ==
    /\ IsHead(r) /\ r.exists = h.exists /\ r.datalen = h.datalen /\ r.flags = h.flags
    /\ r.data = h.data /\ r.has_data = h.has_data /\ r.frame = h.frame
    /\ r.reassembled_in = h.reassembled_in /\ r.error = h.error /\ r.lost = h.lost

\* Two such changes, one after the other.
LEMMA SameRestTransitive ==
    ASSUME NEW h, NEW r, NEW s, SameRest(h, r), SameRest(r, s)
    PROVE  SameRest(h, s)
BY DEF SameRest

GoodCache(h) == GoodList(h.items, h.contiguous_len, h.first_gap)

\* From a place up to which the list is contiguous the cache is brought up to date.
MovedTo(h, from, k) ==
    [h EXCEPT !.first_gap = h.items[Advance(h.items, from, k).at].uid,
              !.contiguous_len = Advance(h.items, from, k).contiguous]

\* The walk leaves the cache exact.
LEMMA MovedExact ==
    ASSUME NEW h, IsHead(h), IsList(h.items), InOrder(h.items), Distinct(h.items),
           NEW from \in 1 .. Len(h.items), NEW k \in Nat,
           CoveredUpTo(h.items, k), \A j \in 1 .. from : EndOf(h.items[j]) <= k
    PROVE  /\ GoodCache(MovedTo(h, from, k)) /\ SameRest(h, MovedTo(h, from, k))
           /\ MovedTo(h, from, k).items = h.items
<1>1. PICK r : r = MovedTo(h, from, k)
  OBVIOUS
<1>2. PICK a : a = Advance(h.items, from, k)
  OBVIOUS
<1>3. a.contiguous \in Nat /\ Exact(h.items, a.contiguous, h.items[a.at].uid)
  BY <1>2, AdvanceExact
<1>4. r = [h EXCEPT !.first_gap = h.items[a.at].uid, !.contiguous_len = a.contiguous]
  BY <1>1, <1>2 DEF MovedTo
<1>5. SameRest(h, r) /\ r.items = h.items
  BY <1>4 DEF SameRest, IsHead
<1>6. r.first_gap = h.items[a.at].uid /\ r.contiguous_len = a.contiguous
  BY <1>4 DEF IsHead
<1>7. GoodCache(r)
  BY <1>3, <1>5, <1>6 DEF GoodCache, GoodList
<1> QED  BY <1>1, <1>5, <1>7

\* LINK_FRAG keeps the list sorted and its cache exact.
LEMMA LinkKeeps ==
    ASSUME NEW head, IsHead(head), GoodCache(head), NEW fd, IsItem(fd),
           \A j \in 1 .. Len(head.items) : head.items[j].uid # fd.uid
    PROVE  /\ GoodCache(LINK_FRAG(head, fd)) /\ SameRest(head, LINK_FRAG(head, fd))
           /\ \E n \in 0 .. Len(head.items) :
                 Inserted(head.items, n, fd, LINK_FRAG(head, fd).items)
<1>1. PICK q, k, g : q = head.items /\ k = head.contiguous_len /\ g = head.first_gap
  OBVIOUS
<1>2. GoodList(q, k, g) /\ IsList(q) /\ Distinct(q) /\ InOrder(q) /\ k \in Nat
  BY <1>1 DEF GoodCache, GoodList
<1>3. fd.offset \in Nat /\ fd.len \in Nat /\ EndOf(fd) \in Nat
  <2>1. fd.offset \in Nat /\ fd.len \in Nat
    BY DEF IsItem
  <2> QED  BY <2>1 DEF EndOf
<1>4. PICK n : n = LinkAfter(head, fd)
  OBVIOUS
<1>5. /\ n \in 0 .. Len(q)
      /\ \A j \in 1 .. n : q[j].offset <= fd.offset
      /\ \A j \in n + 1 .. Len(q) : fd.offset < q[j].offset
  BY <1>1, <1>2, <1>3, <1>4, LinkedInOrder
<1>6. PICK t : t = InsertAt(q, n + 1, fd)
  OBVIOUS
<1>7. Inserted(q, n, fd, t)
  BY <1>2, <1>5, <1>6, InsertedAt
<1>8. IsList(t) /\ Distinct(t) /\ InOrder(t)
  BY <1>1, <1>2, <1>5, <1>7, InsertedGood
<1>9. PICK h : h = [head EXCEPT !.items = InsertAt(@, LinkAfter(head, fd) + 1, fd)]
  OBVIOUS
<1>10. IsHead(h) /\ SameRest(head, h) /\ h.items = t /\ h.contiguous_len = k /\ h.first_gap = g
  <2>1. h = [head EXCEPT !.items = t]
    BY <1>1, <1>4, <1>6, <1>9
  <2> QED  BY <1>1, <2>1 DEF IsHead, SameRest
<1>11. PICK r : r = LINK_FRAG(head, fd)
  OBVIOUS
<1>12. r = update_first_gap(h, fd, FALSE)
  BY <1>9, <1>11 DEF LINK_FRAG
<1>13. ASSUME r = h, Exact(t, k, g) PROVE GoodCache(r) /\ SameRest(head, r) /\ r.items = t
  BY <1>2, <1>8, <1>10, <1>13 DEF GoodCache, GoodList
<1>14. ASSUME NEW from \in 1 .. Len(t), NEW c \in Nat,
              CoveredUpTo(t, c), \A j \in 1 .. from : EndOf(t[j]) <= c,
              r = MovedTo(h, from, c)
       PROVE  GoodCache(r) /\ SameRest(head, r) /\ r.items = t
  <2>1. /\ IsList(h.items) /\ InOrder(h.items) /\ Distinct(h.items)
        /\ from \in 1 .. Len(h.items) /\ CoveredUpTo(h.items, c)
        /\ \A j \in 1 .. from : EndOf(h.items[j]) <= c
    BY <1>8, <1>10, <1>14
  <2>2. GoodCache(r) /\ SameRest(h, r) /\ r.items = h.items
    BY <1>10, <1>14, <2>1, MovedExact, Zenon
  <2>3. SameRest(head, r)
    BY <1>10, <2>2, SameRestTransitive
  <2> QED  BY <1>10, <2>2, <2>3
<1>15. CASE fd.offset > k
  <2>1. r = h
    BY <1>10, <1>12, <1>15 DEF update_first_gap
  <2>2. Exact(t, k, g)
    BY <1>2, <1>5, <1>7, <1>15, BehindGap
  <2> QED  BY <1>1, <1>5, <1>7, <1>11, <1>13, <2>1, <2>2
<1>16. CASE ~(fd.offset > k) /\ g = NULL
  <2>1. fd.offset <= k
    BY <1>2, <1>3, <1>16
  <2>2. /\ n = 0 /\ fd.offset = 0 /\ CoveredUpTo(t, fd.len)
        /\ \A j \in 1 .. 1 : EndOf(t[j]) <= fd.len
    BY <1>2, <1>5, <1>7, <1>16, <2>1, FirstAtStart
  <2>3. 1 \in 1 .. Len(t) /\ t[1] = fd
    <3>1. n + 1 = 1
      BY <2>2
    <3> QED  BY <1>2, <1>5, <1>7, <3>1, InsertedPlaces
  <2>4. PlaceOf(h, fd.uid) = 1
    BY <1>8, <1>10, <2>3, PlaceFound
  <2>5. r = MovedTo(h, 1, fd.len)
    BY <1>10, <1>12, <1>16, <2>2, <2>4 DEF update_first_gap, MovedTo
  <2> QED  BY <1>1, <1>3, <1>5, <1>7, <1>11, <1>14, <2>2, <2>3, <2>5
<1>17. CASE ~(fd.offset > k) /\ g # NULL
  <2>1. fd.offset <= k
    BY <1>2, <1>3, <1>17
  <2>2. PICK a \in 1 .. Len(q) : g = q[a].uid
    BY <1>2, <1>17 DEF GoodList, Exact
  <2>3. PICK c : c = Furthest(k, fd)
    OBVIOUS
  <2>4. c \in Nat
    BY <1>2, <1>3, <2>3 DEF Furthest
  <2>5. GoodList(q, k, q[a].uid)
    BY <1>2, <2>2
  <2>6. /\ CoveredUpTo(t, c)
        /\ \E from \in 1 .. Len(t) : t[from].uid = q[a].uid /\ \A j \in 1 .. from : EndOf(t[j]) <= c
    <3>1. n \in 0 .. Len(q) /\ \A j \in 1 .. n : q[j].offset <= fd.offset
      BY <1>5
    <3>2. Contiguous(t, q[a].uid, Furthest(k, fd))
      BY <1>7, <2>1, <2>5, <3>1, BeforeGap
    <3> QED  BY <2>3, <3>2 DEF Contiguous
  <2>7. PICK from \in 1 .. Len(t) : t[from].uid = g /\ \A j \in 1 .. from : EndOf(t[j]) <= c
    BY <2>2, <2>6
  <2>8. PlaceOf(h, g) = from
    BY <1>8, <1>10, <2>7, PlaceFound
  <2>9. r = MovedTo(h, from, c)
    <3>1. /\ ~(fd.offset > h.contiguous_len) /\ h.first_gap # NULL
          /\ PlaceOf(h, IF FALSE THEN fd.uid ELSE h.first_gap) = from
          /\ c = IF EndOf(fd) > h.contiguous_len THEN EndOf(fd) ELSE h.contiguous_len
      BY <1>10, <1>17, <2>3, <2>8 DEF Furthest
    <3> QED  BY <1>12, <3>1, Zenon DEF update_first_gap, MovedTo
  <2> QED  BY <1>1, <1>5, <1>7, <1>11, <1>14, <2>4, <2>6, <2>7, <2>9
<1> QED  BY <1>15, <1>16, <1>17

-----------------------------------------------------------------------------
(***************************************************************************)
(* Marks, resetting the cache, and cutting the list.                        *)
(***************************************************************************)

\* A list of the same fragments, with other marks on them.
Kept(items, t) ==
    /\ IsList(t) /\ Len(t) = Len(items)
    /\ \A i \in 1 .. Len(items) :
          /\ t[i].uid = items[i].uid /\ t[i].frame = items[i].frame
          /\ t[i].offset = items[i].offset /\ t[i].len = items[i].len

\* Marks do not matter to the cache.
LEMMA KeptGood ==
    ASSUME NEW items, NEW k, NEW g, GoodList(items, k, g), NEW t, Kept(items, t)
    PROVE  GoodList(t, k, g)
<1>1. \A i \in 1 .. Len(items) : \A p : Has(t, i, p) <=> Has(items, i, p)
  BY DEF Kept, Has, EndOf
<1>2. IsList(t) /\ Distinct(t) /\ InOrder(t) /\ k \in Nat
  BY DEF Kept, GoodList, Distinct, InOrder
<1>3. CoveredUpTo(t, k) /\ \A i \in 1 .. Len(t) : ~Has(t, i, k)
  BY <1>1 DEF Kept, GoodList, Exact, CoveredUpTo
<1>4. \/ g = NULL /\ \A i \in 1 .. Len(t) : t[i].offset > 0
      \/ \E a \in 1 .. Len(t) : /\ g = t[a].uid /\ t[a].offset <= k
                                /\ \A j \in a + 1 .. Len(t) : t[j].offset > k
  <2>1. CASE g = NULL /\ \A i \in 1 .. Len(items) : items[i].offset > 0
    BY <2>1 DEF Kept
  <2>2. ASSUME NEW a \in 1 .. Len(items), g = items[a].uid, items[a].offset <= k,
               \A j \in a + 1 .. Len(items) : items[j].offset > k
        PROVE  \E b \in 1 .. Len(t) : /\ g = t[b].uid /\ t[b].offset <= k
                                      /\ \A j \in b + 1 .. Len(t) : t[j].offset > k
    <3>1. Len(items) \in Nat /\ Len(t) = Len(items)
      BY DEF GoodList, IsList, Kept
    <3>2. \A j \in a + 1 .. Len(items) : j \in 1 .. Len(items)
      BY <3>1
    <3>3. \A j \in a + 1 .. Len(t) : t[j].offset > k
      BY <2>2, <3>1, <3>2 DEF Kept
    <3>4. g = t[a].uid /\ t[a].offset <= k
      BY <2>2 DEF Kept
    <3> QED  BY <3>1, <3>3, <3>4
  <2> QED  BY <2>1, <2>2 DEF GoodList, Exact
<1> QED  BY <1>2, <1>3, <1>4 DEF GoodList, Exact

\* Without a fragment at the start nothing is contiguous.
LEMMA NoGapNothing ==
    ASSUME NEW items, NEW k, GoodList(items, k, NULL)
    PROVE  k = 0 /\ \A i \in 1 .. Len(items) : items[i].offset > 0
<1>1. IsList(items) /\ k \in Nat /\ Exact(items, k, NULL)
  BY DEF GoodList
<1>2. \A i \in 1 .. Len(items) : items[i].uid # NULL /\ items[i].offset \in Nat
  BY <1>1, EndsAreNumbers DEF NULL
<1>3. \A i \in 1 .. Len(items) : items[i].offset > 0
  BY <1>1, <1>2 DEF Exact
<1>4. k = 0
  <2> SUFFICES ASSUME k # 0 PROVE FALSE
    OBVIOUS
  <2>1. 0 \in 0 .. k - 1
    BY <1>1
  <2>2. PICK i \in 1 .. Len(items) : items[i].offset <= 0
    BY <1>1, <2>1 DEF Exact, CoveredUpTo, Has
  <2> QED  BY <1>2, <1>3, <2>2
<1> QED  BY <1>3, <1>4

\* fragment_reset_first_gap
LEMMA ResetExact ==
    ASSUME NEW h, IsHead(h), IsList(h.items), Distinct(h.items), InOrder(h.items)
    PROVE  /\ GoodCache(fragment_reset_first_gap(h)) /\ SameRest(h, fragment_reset_first_gap(h))
           /\ fragment_reset_first_gap(h).items = h.items
<1>1. PICK q : q = h.items
  OBVIOUS
<1>2. PICK c : c = [h EXCEPT !.first_gap = NULL, !.contiguous_len = 0]
  OBVIOUS
<1>3. IsHead(c) /\ SameRest(h, c) /\ c.items = q /\ c.first_gap = NULL /\ c.contiguous_len = 0
  BY <1>1, <1>2 DEF IsHead, SameRest
<1>4. PICK r : r = fragment_reset_first_gap(h)
  OBVIOUS
<1>5. IsList(q) /\ Distinct(q) /\ InOrder(q) /\ Len(q) \in Nat
  BY <1>1 DEF IsList
<1>6. \A i \in 1 .. Len(q) : q[i].offset \in Nat
  BY <1>5, EndsAreNumbers
<1>7. ASSUME r = c, \A i \in 1 .. Len(q) : q[i].offset > 0
      PROVE  GoodCache(r) /\ SameRest(h, r) /\ r.items = h.items
  <2>1. CoveredUpTo(q, 0)
    BY DEF CoveredUpTo
  <2>2. \A i \in 1 .. Len(q) : ~Has(q, i, 0)
    BY <1>6, <1>7 DEF Has
  <2>3. Exact(q, 0, NULL)
    BY <1>7, <2>1, <2>2 DEF Exact
  <2>4. GoodCache(r)
    BY <1>3, <1>5, <1>7, <2>3 DEF GoodCache, GoodList
  <2> QED  BY <1>1, <1>3, <1>7, <2>4
<1>8. CASE q = << >>
  <2>1. r = c /\ Len(q) = 0
    BY <1>1, <1>2, <1>4, <1>8 DEF fragment_reset_first_gap
  <2> QED  BY <1>4, <1>7, <2>1
<1>9. CASE q # << >>
  <2>1. 1 \in 1 .. Len(q)
    <3>1. Len(q) # 0
      BY <1>5, <1>9 DEF IsList
    <3> QED  BY <1>5, <3>1
  <2>2. r = update_first_gap(c, q[1], Len(q) > 1)
    BY <1>1, <1>2, <1>4, <1>9 DEF fragment_reset_first_gap
  <2>3. CASE q[1].offset > 0
    <3>1. r = c
      BY <1>3, <2>2, <2>3 DEF update_first_gap
    <3>2. ASSUME NEW i \in 1 .. Len(q) PROVE q[i].offset > 0
      <4>1. 1 <= i /\ q[1].offset <= q[i].offset
        BY <1>5, <2>1 DEF InOrder
      <4> QED  BY <1>6, <2>1, <2>3, <4>1
    <3> QED  BY <1>4, <1>7, <3>1, <3>2
  <2>4. CASE ~(q[1].offset > 0)
    <3>1. q[1].offset = 0 /\ q[1].len \in Nat /\ EndOf(q[1]) \in Nat
      BY <1>5, <2>1, <2>4, EndsAreNumbers
    <3>2. EndOf(q[1]) = q[1].len
      BY <3>1 DEF EndOf
    <3>3. PlaceOf(c, q[1].uid) = 1
      BY <1>3, <1>5, <2>1, PlaceFound
    <3>4. r = MovedTo(c, 1, q[1].len)
      BY <1>3, <2>2, <3>1, <3>3 DEF update_first_gap, MovedTo
    <3>5. CoveredUpTo(q, q[1].len)
      <4> SUFFICES ASSUME NEW p \in 0 .. q[1].len - 1 PROVE \E i \in 1 .. Len(q) : Has(q, i, p)
        BY DEF CoveredUpTo
      <4>1. Has(q, 1, p)
        BY <3>1, <3>2 DEF Has
      <4> QED  BY <2>1, <4>1
    <3>6. \A j \in 1 .. 1 : EndOf(q[j]) <= q[1].len
      BY <3>1, <3>2
    <3>7. PICK k \in Nat : k = q[1].len
      BY <3>1
    <3>8. /\ IsList(c.items) /\ InOrder(c.items) /\ Distinct(c.items) /\ 1 \in 1 .. Len(c.items)
          /\ CoveredUpTo(c.items, k) /\ \A j \in 1 .. 1 : EndOf(c.items[j]) <= k
      BY <1>3, <1>5, <2>1, <3>5, <3>6, <3>7
    <3>9. GoodCache(r) /\ SameRest(c, r) /\ r.items = c.items
      BY <1>3, <3>4, <3>7, <3>8, MovedExact
    <3> QED  BY <1>1, <1>3, <1>4, <3>9, SameRestTransitive
  <2> QED  BY <2>3, <2>4
<1> QED  BY <1>8, <1>9

\* A list that was cut at a length.
Truncated(items, tot_len, t) ==
    /\ IsList(t) /\ Len(t) \in 0 .. Len(items)
    /\ Len(t) = Len(items) \/ items[Len(t) + 1].offset >= tot_len
    /\ \A i \in 1 .. Len(t) :
          /\ t[i].uid = items[i].uid /\ t[i].frame = items[i].frame
          /\ t[i].offset = items[i].offset /\ items[i].offset < tot_len
          /\ t[i].len = MinOf(items[i].len, tot_len - items[i].offset)

\* KeptItems cuts the list.
LEMMA KeptItemsTruncated ==
    ASSUME NEW items, IsList(items), NEW tot_len \in Nat
    PROVE  Truncated(items, tot_len, KeptItems(items, tot_len))
<1> DEFINE stops(k) == k = Len(items) \/ items[k + 1].offset >= tot_len
           before(k) == \A i \in 1 .. k : items[i].offset < tot_len
           n == CHOOSE k \in 0 .. Len(items) :
                /\ k = Len(items) \/ items[k + 1].offset >= tot_len
                /\ \A i \in 1 .. k : items[i].offset < tot_len
<1>1. Len(items) \in Nat /\ \A i \in 1 .. Len(items) : items[i].offset \in Nat
  BY EndsAreNumbers DEF IsList
<1>2. \E k \in 0 .. Len(items) : stops(k) /\ before(k)
  <2> DEFINE T == {k \in 0 .. Len(items) : stops(k)}
  <2>1. T \subseteq Nat /\ T # {}
    <3>1. Len(items) \in T
      BY <1>1
    <3>2. T \subseteq Nat
      BY <1>1
    <3> QED  BY <3>1, <3>2
  <2>2. PICK k \in T : \A y \in T : k <= y
    <3> HIDE DEF T
    <3> QED  BY <2>1, NatMin
  <2>3. ASSUME NEW i \in 1 .. k PROVE items[i].offset < tot_len
    <3>1. k \in 0 .. Len(items)
      OBVIOUS
    <3>2. i - 1 \in 0 .. Len(items) /\ i \in 1 .. Len(items) /\ ~(k <= i - 1) /\ (i - 1) + 1 = i
      BY <1>1, <3>1
    <3>3. ~stops(i - 1)
      BY <2>2, <3>2
    <3>4. ~(items[i].offset >= tot_len)
      BY <3>2, <3>3
    <3> QED  BY <1>1, <3>2, <3>4
  <2> QED  BY <2>2, <2>3
<1>3. n \in 0 .. Len(items) /\ stops(n) /\ before(n)
  BY <1>2
<1>4. PICK m : m = n
  OBVIOUS
<1>5. /\ m \in 0 .. Len(items) /\ m \in Nat /\ m <= Len(items)
      /\ m = Len(items) \/ items[m + 1].offset >= tot_len
      /\ \A i \in 1 .. m : i \in 1 .. Len(items) /\ items[i].offset < tot_len
  <2>1. m \in 0 .. Len(items) /\ stops(m) /\ before(m)
    BY <1>3, <1>4
  <2>2. m \in Nat /\ m <= Len(items)
    BY <1>1, <2>1
  <2>3. \A i \in 1 .. m : i \in 1 .. Len(items)
    BY <1>1, <2>2
  <2> QED  BY <2>1, <2>2, <2>3
<1>6. PICK t : t = [i \in 1 .. m |->
           [items[i] EXCEPT !.len = MinOf(@, tot_len - items[i].offset),
                            !.flags = @ \ {"TOOLONGFRAGMENT", "MULTIPLETAILS"}]]
  OBVIOUS
<1>7. KeptItems(items, tot_len) = t
  BY <1>4, <1>6 DEF KeptItems
<1> HIDE DEF n
<1>8. Len(t) = m /\ t = [i \in 1 .. Len(t) |-> t[i]]
  <2>1. t = [i \in 1 .. m |-> t[i]]
    BY <1>6
  <2> QED  BY <1>5, <2>1, FunctionIsSeq
<1>9. ASSUME NEW i \in 1 .. m
      PROVE  /\ IsItem(t[i])
             /\ t[i].uid = items[i].uid /\ t[i].frame = items[i].frame
             /\ t[i].offset = items[i].offset
             /\ t[i].len = MinOf(items[i].len, tot_len - items[i].offset)
  <2>1. PICK x : x = items[i]
    OBVIOUS
  <2>2. IsItem(x) /\ x.offset < tot_len
    BY <1>5, <2>1 DEF IsList
  <2>3. PICK l : l = MinOf(x.len, tot_len - x.offset)
    OBVIOUS
  <2>4. l \in Nat
    BY <2>2, <2>3 DEF MinOf, IsItem
  <2>5. PICK f : f = x.flags \ {"TOOLONGFRAGMENT", "MULTIPLETAILS"}
    OBVIOUS
  <2>6. t[i] = [x EXCEPT !.len = l, !.flags = f]
    BY <1>6, <2>1, <2>3, <2>5
  <2>7. /\ t[i].uid = x.uid /\ t[i].frame = x.frame /\ t[i].offset = x.offset /\ t[i].len = l
        /\ t[i].variant = x.variant /\ t[i].has_data = x.has_data /\ t[i].flags = f
    BY <2>2, <2>6 DEF IsItem
  <2>8. IsItem(t[i])
    <3>1. t[i] = [uid |-> x.uid, frame |-> x.frame, offset |-> x.offset, len |-> l,
                  variant |-> x.variant, flags |-> f, has_data |-> x.has_data]
      BY <2>2, <2>6 DEF IsItem
    <3> QED  BY <2>2, <2>4, <2>7, <3>1 DEF IsItem
  <2> QED  BY <2>1, <2>3, <2>7, <2>8
<1>10. IsList(t)
  BY <1>5, <1>8, <1>9 DEF IsList
<1> QED  BY <1>5, <1>7, <1>8, <1>9, <1>10 DEF Truncated

\* What a cut leaves covers what it covered, as far as it goes.
LEMMA TruncatedCovers ==
    ASSUME NEW items, NEW k, NEW g, GoodList(items, k, g), NEW tot_len \in Nat, NEW t,
           Truncated(items, tot_len, t)
    PROVE  /\ IsList(t) /\ Distinct(t) /\ InOrder(t)
           /\ MinOf(k, tot_len) \in Nat
           /\ CoveredUpTo(t, MinOf(k, tot_len))
           /\ \A i \in 1 .. Len(t) : ~Has(t, i, MinOf(k, tot_len))
<1>1. IsList(items) /\ Distinct(items) /\ InOrder(items) /\ k \in Nat /\ Exact(items, k, g)
  BY DEF GoodList
<1>2. Len(items) \in Nat /\ Len(t) \in Nat /\ Len(t) <= Len(items) /\ IsList(t)
  <2>1. Len(items) \in Nat
    BY <1>1 DEF IsList
  <2>2. IsList(t) /\ Len(t) \in 0 .. Len(items)
    BY DEF Truncated
  <2> QED  BY <2>1, <2>2
<1>3. \A i \in 1 .. Len(t) : i \in 1 .. Len(items)
  BY <1>2
<1>4. Distinct(t)
  <2> SUFFICES ASSUME NEW i \in 1 .. Len(t), NEW j \in 1 .. Len(t), t[i].uid = t[j].uid
               PROVE  i = j
    BY DEF Distinct
  <2>1. items[i].uid = items[j].uid
    BY DEF Truncated
  <2> QED  BY <1>1, <1>3, <2>1 DEF Distinct
<1>5. InOrder(t)
  BY <1>1, <1>3 DEF InOrder, Truncated
<1>6. PICK c : c = MinOf(k, tot_len)
  OBVIOUS
<1>7. c \in Nat /\ c <= k /\ c <= tot_len /\ (c = k \/ c = tot_len)
  BY <1>1, <1>6 DEF MinOf
<1>8. ASSUME NEW i \in 1 .. Len(t)
      PROVE  /\ items[i].offset \in Nat /\ items[i].len \in Nat
             /\ t[i].offset = items[i].offset
             /\ EndOf(t[i]) = MinOf(EndOf(items[i]), tot_len) /\ EndOf(items[i]) \in Nat
  <2>1. items[i].offset \in Nat /\ items[i].len \in Nat
    BY <1>1, <1>3, EndsAreNumbers
  <2>2. PICK o \in Nat, l \in Nat : o = items[i].offset /\ l = items[i].len
    BY <2>1
  <2>3. t[i].offset = o /\ t[i].len = MinOf(l, tot_len - o) /\ o < tot_len
    BY <2>2 DEF Truncated
  <2>4. EndOf(t[i]) = o + MinOf(l, tot_len - o) /\ EndOf(items[i]) = o + l
    BY <2>2, <2>3 DEF EndOf
  <2>5. o + MinOf(l, tot_len - o) = MinOf(o + l, tot_len)
    BY DEF MinOf
  <2> QED  BY <2>1, <2>2, <2>3, <2>4, <2>5
<1>9. CoveredUpTo(t, c)
  <2> SUFFICES ASSUME NEW p \in 0 .. c - 1 PROVE \E i \in 1 .. Len(t) : Has(t, i, p)
    BY DEF CoveredUpTo
  <2>1. p \in 0 .. k - 1 /\ p < tot_len
    BY <1>1, <1>7
  <2>2. PICK i \in 1 .. Len(items) : Has(items, i, p)
    BY <1>1, <2>1 DEF Exact, CoveredUpTo
  <2>3. i \in 1 .. Len(t)
    <3> SUFFICES ASSUME ~(i <= Len(t)) PROVE FALSE
      BY <1>2
    <3>1. Len(t) + 1 \in 1 .. Len(items) /\ Len(t) + 1 <= i /\ Len(t) # Len(items)
      BY <1>2
    <3>2. items[Len(t) + 1].offset >= tot_len
      BY <3>1 DEF Truncated
    <3>3. items[Len(t) + 1].offset <= items[i].offset
      BY <1>1, <3>1 DEF InOrder
    <3>4. items[Len(t) + 1].offset \in Nat /\ items[i].offset \in Nat
      BY <1>1, <3>1, EndsAreNumbers
    <3>5. items[i].offset <= p
      BY <2>2 DEF Has
    <3> QED  BY <2>1, <3>2, <3>3, <3>4, <3>5
  <2>4. PICK e \in Nat : e = EndOf(items[i])
    BY <1>8, <2>3
  <2>5. t[i].offset <= p /\ EndOf(t[i]) = MinOf(e, tot_len) /\ p < e
    BY <1>8, <2>2, <2>3, <2>4 DEF Has
  <2>6. p < EndOf(t[i])
    BY <2>1, <2>5 DEF MinOf
  <2> QED  BY <2>3, <2>5, <2>6 DEF Has
<1>10. ASSUME NEW i \in 1 .. Len(t), Has(t, i, c) PROVE FALSE
  <2>1. PICK e \in Nat, o \in Nat : e = EndOf(items[i]) /\ o = items[i].offset
    BY <1>8
  <2>2. o <= c /\ c < MinOf(e, tot_len)
    BY <1>8, <1>10, <2>1 DEF Has
  <2>3. c < e /\ c < tot_len
    BY <1>7, <2>2 DEF MinOf
  <2>4. c = k
    BY <1>7, <2>3
  <2>5. Has(items, i, k)
    BY <2>1, <2>2, <2>3, <2>4 DEF Has
  <2> QED  BY <1>1, <1>3, <2>5 DEF Exact
<1> QED  BY <1>2, <1>4, <1>5, <1>6, <1>7, <1>9, <1>10

\* fragment_items_removed after a cut.
LEMMA TruncatedExact ==
    ASSUME NEW items, NEW k, NEW g, GoodList(items, k, g), NEW tot_len \in Nat, NEW h,
           IsHead(h), Truncated(items, tot_len, h.items), h.first_gap = g,
           h.contiguous_len = MinOf(k, tot_len)
    PROVE  LET r == fragment_items_removed(h, Len(h.items))
           IN  GoodCache(r) /\ SameRest(h, r) /\ r.items = h.items
<1>1. PICK t, n, c : t = h.items /\ n = Len(h.items) /\ c = h.contiguous_len
  OBVIOUS
<1>2. /\ IsList(t) /\ Distinct(t) /\ InOrder(t) /\ c \in Nat
      /\ CoveredUpTo(t, c) /\ \A i \in 1 .. Len(t) : ~Has(t, i, c)
  BY <1>1, TruncatedCovers
<1>3. IsList(items) /\ InOrder(items) /\ k \in Nat /\ Exact(items, k, g)
  BY DEF GoodList
<1>4. c <= k /\ c <= tot_len /\ (c = k \/ c = tot_len)
  BY <1>1, <1>3 DEF MinOf
<1>5. n = Len(t) /\ n \in Nat /\ Len(items) \in Nat /\ n <= Len(items)
  BY <1>1, <1>2, <1>3 DEF IsList, Truncated
<1>6. PICK r : r = fragment_items_removed(h, Len(h.items))
  OBVIOUS
<1>7. ASSUME r = h,
             \/ g = NULL /\ \A i \in 1 .. Len(t) : t[i].offset > 0
             \/ \E a \in 1 .. Len(t) : /\ g = t[a].uid /\ t[a].offset <= c
                                       /\ \A j \in a + 1 .. Len(t) : t[j].offset > c
      PROVE  GoodCache(r) /\ SameRest(h, r) /\ r.items = h.items
  <2>1. Exact(t, c, g)
    BY <1>2, <1>7 DEF Exact
  <2>2. GoodCache(r)
    BY <1>1, <1>2, <1>7, <2>1 DEF GoodCache, GoodList
  <2> QED  BY <1>7, <2>2 DEF SameRest
<1>8. \A i \in 1 .. n : /\ i \in 1 .. Len(items) /\ t[i].uid = items[i].uid
                        /\ t[i].offset = items[i].offset /\ items[i].offset < tot_len
                        /\ items[i].offset \in Nat /\ items[i].uid # NULL
  <2>1. \A i \in 1 .. n : i \in 1 .. Len(items)
    BY <1>5
  <2>2. \A i \in 1 .. Len(items) : items[i].offset \in Nat /\ items[i].uid # NULL
    BY <1>3, EndsAreNumbers DEF NULL
  <2> QED  BY <1>1, <1>5, <2>1, <2>2 DEF Truncated
<1>9. CASE n = 0 /\ g = NULL
  <2>1. r = h
    BY <1>1, <1>6, <1>9 DEF fragment_items_removed
  <2>2. Len(t) = 0
    BY <1>5, <1>9
  <2> QED  BY <1>6, <1>7, <1>9, <2>1, <2>2
<1>10. CASE n # 0 /\ g = t[n].uid
  <2>1. r = h
    BY <1>1, <1>6, <1>10 DEF fragment_items_removed
  <2>2. n \in 1 .. n /\ n \in 1 .. Len(t) /\ \A j \in n + 1 .. Len(t) : FALSE
    BY <1>5, <1>10
  <2>3. n \in 1 .. Len(items) /\ g = items[n].uid /\ g # NULL
    BY <1>8, <1>10, <2>2
  <2>4. PICK a \in 1 .. Len(items) : g = items[a].uid /\ items[a].offset <= k
    BY <1>3, <2>3 DEF Exact
  <2>5. a = n
    BY <2>3, <2>4 DEF GoodList, Distinct
  <2>6. t[n].offset <= c
    BY <1>2, <1>3, <1>4, <1>8, <2>2, <2>4, <2>5
  <2> QED  BY <1>6, <1>7, <1>10, <2>1, <2>2, <2>6
<1>11. CASE n # 0 /\ t[n].offset > c
  <2>1. r = h
    BY <1>1, <1>6, <1>11 DEF fragment_items_removed
  <2>2. n \in 1 .. n /\ n \in 1 .. Len(t)
    BY <1>5, <1>11
  <2>3. c = k
    BY <1>2, <1>4, <1>8, <1>11, <2>2
  <2>4. CASE g = NULL /\ \A i \in 1 .. Len(items) : items[i].offset > 0
    <3>1. \A i \in 1 .. Len(t) : t[i].offset > 0
      BY <1>5, <1>8, <2>4
    <3> QED  BY <1>6, <1>7, <2>1, <2>4, <3>1
  <2>5. ASSUME NEW a \in 1 .. Len(items), g = items[a].uid, items[a].offset <= k,
               \A j \in a + 1 .. Len(items) : items[j].offset > k
        PROVE  GoodCache(r) /\ SameRest(h, r) /\ r.items = h.items
    <3>1. a <= n
      <4> SUFFICES ASSUME ~(a <= n) PROVE FALSE
        OBVIOUS
      <4>1. n \in 1 .. Len(items) /\ n <= a
        BY <1>5, <1>8, <2>2
      <4>2. items[n].offset <= items[a].offset
        BY <1>3, <4>1 DEF InOrder
      <4>3. items[a].offset \in Nat
        BY <1>3, EndsAreNumbers
      <4> QED  BY <1>2, <1>8, <1>11, <2>2, <2>3, <2>5, <4>2, <4>3
    <3>2. a \in 1 .. n /\ a \in 1 .. Len(t)
      BY <1>5, <3>1
    <3>3. g = t[a].uid /\ t[a].offset <= c
      BY <1>8, <2>3, <2>5, <3>2
    <3>4. \A j \in a + 1 .. Len(t) : j \in 1 .. n /\ j \in a + 1 .. Len(items)
      BY <1>5
    <3>5. \A j \in a + 1 .. Len(t) : t[j].offset > c
      BY <1>8, <2>3, <2>5, <3>4
    <3> QED  BY <1>6, <1>7, <2>1, <3>2, <3>3, <3>5
  <2> QED  BY <1>3, <1>6, <2>4, <2>5 DEF Exact
<1>12. CASE ~(n = 0 /\ g = NULL) /\ ~(n # 0 /\ g = t[n].uid) /\ ~(n # 0 /\ t[n].offset > c)
  <2>1. r = fragment_reset_first_gap(h)
    BY <1>1, <1>6, <1>12 DEF fragment_items_removed
  <2> QED  BY <1>1, <1>2, <1>6, <2>1, ResetExact
<1> QED  BY <1>6, <1>9, <1>10, <1>11, <1>12

-----------------------------------------------------------------------------
(***************************************************************************)
(* Putting a PDU together only marks fragments.                             *)
(***************************************************************************)

\* A head with the same fragments and cache, with other marks and data.
SameItems(h, r) ==
    /\ IsHead(r) /\ Kept(h.items, r.items)
    /\ r.exists = h.exists /\ r.frame = h.frame
    /\ r.first_gap = h.first_gap /\ r.contiguous_len = h.contiguous_len
    /\ h.datalen \in Nat => r.datalen \in Nat
    /\ "PARTIAL_REASSEMBLY" \in r.flags => "PARTIAL_REASSEMBLY" \in h.flags

\* A list keeps itself.
LEMMA KeptItself ==
    ASSUME NEW q, IsList(q)
    PROVE  Kept(q, q)
BY DEF Kept

\* Two changes of marks, one after the other.
LEMMA KeptTransitive ==
    ASSUME NEW q, NEW s, NEW t, Kept(q, s), Kept(s, t)
    PROVE  Kept(q, t)
BY DEF Kept

\* A head has its own fragments.
LEMMA SameItemsItself ==
    ASSUME NEW h, IsHead(h), IsList(h.items)
    PROVE  SameItems(h, h)
BY KeptItself DEF SameItems

\* Two such changes, one after the other.
LEMMA SameItemsTransitive ==
    ASSUME NEW h, NEW r, NEW s, SameItems(h, r), SameItems(r, s)
    PROVE  SameItems(h, s)
<1>1. Kept(h.items, s.items)
  BY KeptTransitive DEF SameItems
<1> QED  BY <1>1 DEF SameItems

\* The cache stays exact.
LEMMA SameItemsGood ==
    ASSUME NEW h, NEW r, GoodCache(h), SameItems(h, r)
    PROVE  GoodCache(r)
<1>1. GoodList(h.items, h.contiguous_len, h.first_gap) /\ Kept(h.items, r.items)
  BY DEF GoodCache, SameItems
<1>2. GoodList(r.items, h.contiguous_len, h.first_gap)
  BY <1>1, KeptGood
<1> QED  BY <1>2 DEF GoodCache, SameItems

\* One fragment is marked.
LEMMA OneKept ==
    ASSUME NEW q, IsList(q), NEW i, i \in 1 .. Len(q), NEW v, IsItem(v),
           v.uid = q[i].uid, v.frame = q[i].frame, v.offset = q[i].offset, v.len = q[i].len
    PROVE  Kept(q, [q EXCEPT ![i] = v])
<1>1. PICK n \in Nat : n = Len(q)
  BY DEF IsList
<1>2. q = [j \in 1 .. n |-> q[j]]
  BY <1>1 DEF IsList
<1>3. PICK t : t = [q EXCEPT ![i] = v]
  OBVIOUS
<1>4. t = [j \in 1 .. n |-> IF j = i THEN v ELSE q[j]]
  BY <1>2, <1>3
<1>5. t = [j \in 1 .. n |-> t[j]] /\ \A j \in 1 .. n : t[j] = IF j = i THEN v ELSE q[j]
  BY <1>4
<1>6. Len(t) = n
  BY <1>5, FunctionIsSeq
<1>7. \A j \in 1 .. n : IsItem(t[j])
  BY <1>1, <1>5 DEF IsList
<1>8. IsList(t)
  BY <1>5, <1>6, <1>7 DEF IsList
<1>9. \A j \in 1 .. n : /\ t[j].uid = q[j].uid /\ t[j].frame = q[j].frame
                        /\ t[j].offset = q[j].offset /\ t[j].len = q[j].len
  BY <1>5
<1> QED  BY <1>1, <1>3, <1>6, <1>8, <1>9 DEF Kept

\* The marks of a fragment do not matter, nor whether it has its data.
LEMMA ItemMarked ==
    ASSUME NEW fd, IsItem(fd), NEW v, NEW b
    PROVE  /\ IsItem([fd EXCEPT !.flags = v]) /\ IsItem([fd EXCEPT !.has_data = b])
           /\ [fd EXCEPT !.flags = v].uid = fd.uid /\ [fd EXCEPT !.flags = v].frame = fd.frame
           /\ [fd EXCEPT !.flags = v].offset = fd.offset /\ [fd EXCEPT !.flags = v].len = fd.len
           /\ [fd EXCEPT !.has_data = b].uid = fd.uid /\ [fd EXCEPT !.has_data = b].frame = fd.frame
           /\ [fd EXCEPT !.has_data = b].offset = fd.offset /\ [fd EXCEPT !.has_data = b].len = fd.len
BY DEF IsItem

\* A fragment with other marks is one still.
LEMMA FlagsChanged ==
    ASSUME NEW h, IsHead(h), IsList(h.items), NEW i, i \in 1 .. Len(h.items), NEW v
    PROVE  SameItems(h, [h EXCEPT !.items[i].flags = v])
<1>1. PICK w : w = [h.items[i] EXCEPT !.flags = v]
  OBVIOUS
<1>2. PICK r : r = [h EXCEPT !.items[i].flags = v]
  OBVIOUS
<1>3. PICK q : q = [h.items EXCEPT ![i] = w]
  OBVIOUS
<1>4. r = [h EXCEPT !.items = q]
  BY <1>1, <1>2, <1>3
<1>5. IsItem(h.items[i])
  BY DEF IsList
<1>6. /\ IsItem(w) /\ w.uid = h.items[i].uid /\ w.frame = h.items[i].frame
      /\ w.offset = h.items[i].offset /\ w.len = h.items[i].len
  BY <1>1, <1>5, ItemMarked
<1>7. Kept(h.items, q)
  BY <1>3, <1>6, OneKept
<1>8. SameItems(h, r)
  BY <1>4, <1>7 DEF SameItems, IsHead
<1> QED  BY <1>2, <1>8

\* A fragment whose data is freed is one still.
LEMMA DataFreed ==
    ASSUME NEW h, IsHead(h), IsList(h.items), NEW i, i \in 1 .. Len(h.items), NEW b
    PROVE  SameItems(h, [h EXCEPT !.items[i].has_data = b])
<1>1. PICK w : w = [h.items[i] EXCEPT !.has_data = b]
  OBVIOUS
<1>2. PICK r : r = [h EXCEPT !.items[i].has_data = b]
  OBVIOUS
<1>3. PICK q : q = [h.items EXCEPT ![i] = w]
  OBVIOUS
<1>4. r = [h EXCEPT !.items = q]
  BY <1>1, <1>2, <1>3
<1>5. IsItem(h.items[i])
  BY DEF IsList
<1>6. /\ IsItem(w) /\ w.uid = h.items[i].uid /\ w.frame = h.items[i].frame
      /\ w.offset = h.items[i].offset /\ w.len = h.items[i].len
  BY <1>1, <1>5, ItemMarked
<1>7. Kept(h.items, q)
  BY <1>3, <1>6, OneKept
<1>8. SameItems(h, r)
  BY <1>4, <1>7 DEF SameItems, IsHead
<1> QED  BY <1>2, <1>8

\* The shape of a head that has the same fragments.
LEMMA SameShape ==
    ASSUME NEW h, NEW r, SameItems(h, r)
    PROVE  IsHead(r) /\ IsList(r.items) /\ Len(r.items) = Len(h.items)
BY DEF SameItems, Kept

\* The fragment is used: marked, and its data is freed.
LEMMA UsedSame ==
    ASSUME NEW h, IsHead(h), IsList(h.items), NEW i, i \in 1 .. Len(h.items), NEW v, NEW b
    PROVE  SameItems(h, [h EXCEPT !.items[i].flags = v, !.items[i].has_data = b])
<1>1. PICK r : r = [h EXCEPT !.items[i].flags = v]
  OBVIOUS
<1>2. SameItems(h, r)
  BY <1>1, FlagsChanged
<1>3. IsHead(r) /\ IsList(r.items) /\ i \in 1 .. Len(r.items)
  BY <1>2, SameShape
<1>4. SameItems(r, [r EXCEPT !.items[i].has_data = b])
  BY <1>3, DataFreed
<1>5. SameItems(h, [r EXCEPT !.items[i].has_data = b])
  BY <1>2, <1>4, SameItemsTransitive
<1>6. [h EXCEPT !.items[i].flags = v, !.items[i].has_data = b] = [r EXCEPT !.items[i].has_data = b]
  BY <1>1
<1> QED  BY <1>5, <1>6

\* Mark
LEMMA MarkSame ==
    ASSUME NEW h, IsHead(h), IsList(h.items), NEW i, i \in 1 .. Len(h.items), NEW flags,
           "PARTIAL_REASSEMBLY" \notin flags
    PROVE  SameItems(h, Mark(h, i, flags))
<1>1. PICK v, w : v = h.flags \cup flags /\ w = h.items[i].flags \cup flags
  OBVIOUS
<1>2. PICK r : r = [h EXCEPT !.items[i].flags = w]
  OBVIOUS
<1>3. SameItems(h, r)
  BY <1>2, FlagsChanged
<1>4. r.flags = h.flags
  BY <1>2 DEF IsHead
<1>5. Mark(h, i, flags) = [r EXCEPT !.flags = v]
  <2>1. PICK q : q = [h.items EXCEPT ![i] = [h.items[i] EXCEPT !.flags = w]]
    OBVIOUS
  <2>2. r = [h EXCEPT !.items = q]
    BY <1>2, <2>1
  <2>3. Mark(h, i, flags) = [h EXCEPT !.flags = v, !.items = q]
    BY <1>1, <2>1 DEF Mark
  <2> QED  BY <2>2, <2>3 DEF IsHead
<1>6. SameItems(h, [r EXCEPT !.flags = v])
  <2>1. PICK s : s = [r EXCEPT !.flags = v]
    OBVIOUS
  <2>2. IsHead(r)
    BY <1>3, SameShape
  <2>3. /\ IsHead(s) /\ s.items = r.items /\ s.exists = r.exists /\ s.frame = r.frame
        /\ s.first_gap = r.first_gap /\ s.contiguous_len = r.contiguous_len
        /\ s.datalen = r.datalen /\ s.flags = v
    BY <2>1, <2>2 DEF IsHead
  <2>4. "PARTIAL_REASSEMBLY" \in v => "PARTIAL_REASSEMBLY" \in h.flags
    BY <1>1
  <2>5. SameItems(h, s)
    BY <1>3, <2>3, <2>4 DEF SameItems
  <2> QED  BY <2>1, <2>5
<1> QED  BY <1>5, <1>6

\* Neither the list nor its cache is changed.
LEMMA RestChanged ==
    ASSUME NEW h, IsHead(h), IsList(h.items), NEW r, IsHead(r), r.items = h.items,
           r.exists = h.exists, r.frame = h.frame, r.first_gap = h.first_gap,
           r.contiguous_len = h.contiguous_len, h.datalen \in Nat => r.datalen \in Nat,
           "PARTIAL_REASSEMBLY" \in r.flags => "PARTIAL_REASSEMBLY" \in h.flags
    PROVE  SameItems(h, r)
BY KeptItself DEF SameItems

\* A new buffer for the data.
LEMMA NewData ==
    ASSUME NEW h, IsHead(h), IsList(h.items), NEW d
    PROVE  SameItems(h, [h EXCEPT !.data = d])
<1>1. PICK r : r = [h EXCEPT !.data = d]
  OBVIOUS
<1>2. /\ IsHead(r) /\ r.items = h.items /\ r.exists = h.exists /\ r.frame = h.frame
      /\ r.first_gap = h.first_gap /\ r.contiguous_len = h.contiguous_len
      /\ r.datalen = h.datalen /\ r.flags = h.flags
  BY <1>1 DEF IsHead
<1>3. SameItems(h, r)
  BY <1>2, RestChanged
<1> QED  BY <1>1, <1>3

\* TakeFragment
LEMMA TakeSame ==
    ASSUME NEW h, IsHead(h), IsList(h.items), NEW i, i \in 1 .. Len(h.items), NEW dfpos
    PROVE  SameItems(h, TakeFragment(h, i, dfpos).head)
<1>1. PICK d, flags : /\ TakeFragment(h, i, dfpos).head = Mark([h EXCEPT !.data = d], i, flags)
                      /\ "PARTIAL_REASSEMBLY" \notin flags
  <2> DEFINE fd      == h.items[i]
             fraglen == MinOf(fd.len, h.datalen - fd.offset)
             overlap == IF fd.offset < dfpos THEN MinOf(dfpos, h.datalen) - fd.offset ELSE 0
             cmp_len == MinOf(fd.len, overlap)
             differs == \E k \in 0 .. cmp_len - 1 : h.data[fd.offset + k + 1] # Byte(fd, k)
             d == IF fd.offset + fraglen > dfpos
                    THEN Copied(h.data, dfpos, Bytes(fd, overlap, fraglen)) ELSE h.data
             flags   == (IF fraglen < fd.len THEN {"TOOLONGFRAGMENT"} ELSE {}) \cup
                        (IF fd.offset < dfpos THEN {"OVERLAP"} ELSE {}) \cup
                        (IF differs THEN {"OVERLAPCONFLICT"} ELSE {})
  <2>1. TakeFragment(h, i, dfpos).head = Mark([h EXCEPT !.data = d], i, flags)
    BY DEF TakeFragment
  <2>2. "PARTIAL_REASSEMBLY" \notin flags
    <3> HIDE DEF fd, fraglen, differs
    <3> QED  OBVIOUS
  <2> HIDE DEF d, flags
  <2> QED  BY <2>1, <2>2
<1>2. PICK r : r = [h EXCEPT !.data = d]
  OBVIOUS
<1>3. SameItems(h, r)
  BY <1>2, NewData
<1>4. IsHead(r) /\ IsList(r.items) /\ i \in 1 .. Len(r.items)
  BY <1>3, SameShape
<1>5. SameItems(r, Mark(r, i, flags))
  BY <1>1, <1>4, MarkSame
<1> QED  BY <1>1, <1>2, <1>3, <1>5, SameItemsTransitive

\* What the loops carry from one fragment to the next.
IsAcc(acc) == acc = [head |-> acc.head, dfpos |-> acc.dfpos]

\* A turn of the loop by offset.
LEMMA DefragmentItemSame ==
    ASSUME NEW acc, IsAcc(acc), NEW h, h = acc.head, IsHead(h), IsList(h.items),
           NEW i, i \in 1 .. Len(h.items)
    PROVE  IsAcc(DefragmentItem(acc, i)) /\ SameItems(h, DefragmentItem(acc, i).head)
<1>1. PICK r : r = DefragmentItem(acc, i)
  OBVIOUS
<1>2. PICK fd : fd = h.items[i]
  OBVIOUS
<1>3. PICK used : used = [h EXCEPT !.items[i].flags = @ \cup {"DEFRAGMENTED"},
                                   !.items[i].has_data = FALSE]
  OBVIOUS
<1>4. SameItems(h, used)
  <2>1. PICK v : v = h.items[i].flags \cup {"DEFRAGMENTED"}
    OBVIOUS
  <2>2. used = [h EXCEPT !.items[i].flags = v, !.items[i].has_data = FALSE]
    BY <1>3, <2>1
  <2> QED  BY <2>2, UsedSame
<1>5. IsHead(used) /\ IsList(used.items) /\ i \in 1 .. Len(used.items)
  BY <1>4, SameShape
<1>6. \A x : IsAcc([acc EXCEPT !.head = x]) /\ [acc EXCEPT !.head = x].head = x
  BY DEF IsAcc
<1>7. CASE fd.len = 0
  <2>1. r = acc
    BY <1>1, <1>2, <1>7 DEF DefragmentItem
  <2> QED  BY <1>1, <2>1, SameItemsItself
<1>8. CASE fd.len # 0 /\ fd.offset >= h.datalen
  <2>1. r = [acc EXCEPT !.head = Mark(used, i, {"TOOLONGFRAGMENT"})]
    BY <1>1, <1>2, <1>3, <1>8, Zenon DEF DefragmentItem
  <2>2. SameItems(used, Mark(used, i, {"TOOLONGFRAGMENT"}))
    BY <1>5, MarkSame
  <2>3. SameItems(h, Mark(used, i, {"TOOLONGFRAGMENT"}))
    BY <1>4, <2>2, SameItemsTransitive
  <2> QED  BY <1>1, <1>6, <2>1, <2>3
<1>9. CASE fd.len # 0 /\ ~(fd.offset >= h.datalen) /\ "DEFRAGMENTED" \in fd.flags
  <2>1. PICK x : x = IF EndOf(fd) > h.datalen THEN Mark(h, i, {"TOOLONGFRAGMENT"}) ELSE h
    OBVIOUS
  <2>2. r = [acc EXCEPT !.head = x]
    BY <1>1, <1>2, <1>9, <2>1, Zenon DEF DefragmentItem
  <2>3. SameItems(h, x)
    <3>1. SameItems(h, Mark(h, i, {"TOOLONGFRAGMENT"})) /\ SameItems(h, h)
      BY MarkSame, SameItemsItself
    <3> QED  BY <2>1, <3>1
  <2> QED  BY <1>1, <1>6, <2>2, <2>3
<1>10. CASE /\ fd.len # 0 /\ ~(fd.offset >= h.datalen) /\ ~("DEFRAGMENTED" \in fd.flags)
            /\ ~fd.has_data
  <2>1. r = [acc EXCEPT !.head.error = TRUE]
    BY <1>1, <1>2, <1>10, Zenon DEF DefragmentItem
  <2>2. PICK x : x = [h EXCEPT !.error = TRUE]
    OBVIOUS
  <2>3. r = [acc EXCEPT !.head = x]
    BY <2>1, <2>2
  <2>4. /\ IsHead(x) /\ x.items = h.items /\ x.exists = h.exists /\ x.frame = h.frame
        /\ x.first_gap = h.first_gap /\ x.contiguous_len = h.contiguous_len
        /\ x.datalen = h.datalen /\ x.flags = h.flags
    BY <2>2 DEF IsHead
  <2>5. SameItems(h, x)
    BY <2>4, RestChanged
  <2> QED  BY <1>1, <1>6, <2>3, <2>5
<1>11. CASE /\ fd.len # 0 /\ ~(fd.offset >= h.datalen) /\ ~("DEFRAGMENTED" \in fd.flags)
            /\ ~ ~fd.has_data
  <2>1. PICK taken : taken = TakeFragment(h, i, acc.dfpos)
    OBVIOUS
  <2>2. PICK th : th = taken.head
    OBVIOUS
  <2>3. PICK x : x = [th EXCEPT !.items[i].flags = @ \cup {"DEFRAGMENTED"},
                                !.items[i].has_data = FALSE]
    OBVIOUS
  <2>4. r = [head |-> x, dfpos |-> taken.dfpos]
    BY <1>1, <1>2, <1>11, <2>1, <2>2, <2>3, Zenon DEF DefragmentItem
  <2>5. SameItems(h, th)
    BY <2>1, <2>2, TakeSame
  <2>6. IsHead(th) /\ IsList(th.items) /\ i \in 1 .. Len(th.items)
    BY <2>5, SameShape
  <2>7. SameItems(th, x)
    <3>1. PICK v : v = th.items[i].flags \cup {"DEFRAGMENTED"}
      OBVIOUS
    <3>2. x = [th EXCEPT !.items[i].flags = v, !.items[i].has_data = FALSE]
      BY <2>3, <3>1
    <3> QED  BY <2>6, <3>2, UsedSame
  <2>8. SameItems(h, x)
    BY <2>5, <2>7, SameItemsTransitive
  <2>9. r.head = x /\ IsAcc(r)
    BY <2>4 DEF IsAcc
  <2> QED  BY <1>1, <2>8, <2>9
<1> QED  BY <1>7, <1>8, <1>9, <1>10, <1>11

IsBlockAcc(acc) == acc = [head |-> acc.head, dfpos |-> acc.dfpos, old_dfpos |-> acc.old_dfpos]

\* A turn of the loop by block number.
LEMMA DefragmentBlockSame ==
    ASSUME NEW acc, IsBlockAcc(acc), NEW h, h = acc.head, IsHead(h), IsList(h.items),
           NEW i, i \in 1 .. Len(h.items)
    PROVE  IsBlockAcc(DefragmentBlock(acc, i)) /\ SameItems(h, DefragmentBlock(acc, i).head)
<1> DEFINE used(x) == [x EXCEPT !.items[i].flags = @ \cup {"DEFRAGMENTED"},
                                !.items[i].has_data = FALSE]
           result(x) == IsBlockAcc([acc EXCEPT !.head = x]) /\ [acc EXCEPT !.head = x].head = x
<1>1. PICK r : r = DefragmentBlock(acc, i)
  OBVIOUS
<1>2. PICK fd : fd = h.items[i]
  OBVIOUS
<1>3. ASSUME NEW x, SameItems(h, x) PROVE SameItems(h, used(x))
  <2>1. IsHead(x) /\ IsList(x.items) /\ i \in 1 .. Len(x.items)
    BY <1>3, SameShape
  <2>2. PICK v : v = x.items[i].flags \cup {"DEFRAGMENTED"}
    OBVIOUS
  <2>3. SameItems(x, [x EXCEPT !.items[i].flags = v, !.items[i].has_data = FALSE])
    BY <2>1, UsedSame
  <2>4. used(x) = [x EXCEPT !.items[i].flags = v, !.items[i].has_data = FALSE]
    BY <2>2
  <2> QED  BY <1>3, <2>3, <2>4, SameItemsTransitive
<1>4. \A x : result(x)
  BY DEF IsBlockAcc
<1>5. PICK differs : differs = (\/ acc.old_dfpos + fd.len # acc.dfpos
                               \/ \E k \in 0 .. fd.len - 1 : h.data[acc.old_dfpos + k + 1] # Byte(fd, k))
  OBVIOUS
<1>6. PICK long : long = (acc.dfpos >= Len(h.data))
  OBVIOUS
<1>7. CASE fd.len = 0
  <2>1. r = acc
    BY <1>1, <1>2, <1>7 DEF DefragmentBlock
  <2> QED  BY <1>1, <2>1, SameItemsItself
<1>8. CASE fd.len # 0 /\ long
  <2>1. r = [acc EXCEPT !.head = used(Mark(h, i, {"TOOLONGFRAGMENT"}))]
    BY <1>1, <1>2, <1>6, <1>8, Zenon DEF DefragmentBlock
  <2>2. SameItems(h, Mark(h, i, {"TOOLONGFRAGMENT"}))
    BY MarkSame
  <2>3. SameItems(h, used(Mark(h, i, {"TOOLONGFRAGMENT"})))
    BY <1>3, <2>2
  <2> HIDE DEF used
  <2> QED  BY <1>1, <1>4, <2>1, <2>3
<1>9. CASE fd.len # 0 /\ ~long /\ IsFirst(h.items, i)
  <2>1. PICK d : d = IF "DEFRAGMENTED" \notin fd.flags
                       THEN Copied(h.data, acc.dfpos, Bytes(fd, 0, fd.len)) ELSE h.data
    OBVIOUS
  <2>2. r = [head |-> used([h EXCEPT !.data = d]), dfpos |-> acc.dfpos + fd.len,
             old_dfpos |-> acc.dfpos]
    BY <1>1, <1>2, <1>6, <1>9, <2>1, Zenon DEF DefragmentBlock
  <2>3. SameItems(h, [h EXCEPT !.data = d])
    BY NewData
  <2>4. SameItems(h, used([h EXCEPT !.data = d]))
    BY <1>3, <2>3
  <2> HIDE DEF used
  <2>5. IsBlockAcc(r) /\ r.head = used([h EXCEPT !.data = d])
    BY <2>2 DEF IsBlockAcc
  <2> QED  BY <1>1, <2>4, <2>5
<1>10. CASE fd.len # 0 /\ ~long /\ ~IsFirst(h.items, i) /\ "DEFRAGMENTED" \notin fd.flags
  <2>1. PICK flags : flags = {"OVERLAP"} \cup (IF differs THEN {"OVERLAPCONFLICT"} ELSE {})
    OBVIOUS
  <2>2. r = [acc EXCEPT !.head = used(Mark(h, i, flags))]
    BY <1>1, <1>2, <1>5, <1>6, <1>10, <2>1, Zenon DEF DefragmentBlock
  <2>3. SameItems(h, Mark(h, i, flags))
    BY <2>1, MarkSame
  <2>4. SameItems(h, used(Mark(h, i, flags)))
    BY <1>3, <2>3
  <2> HIDE DEF used
  <2> QED  BY <1>1, <1>4, <2>2, <2>4
<1>11. CASE fd.len # 0 /\ ~long /\ ~IsFirst(h.items, i) /\ ~("DEFRAGMENTED" \notin fd.flags)
  <2>1. r = acc
    BY <1>1, <1>2, <1>6, <1>11, Zenon DEF DefragmentBlock
  <2> QED  BY <1>1, <2>1, SameItemsItself
<1> QED  BY <1>7, <1>8, <1>9, <1>10, <1>11

\* The turns of the loop over n fragments.
Turns(start, n, f) ==
    f = [i \in 0 .. n |-> IF i = 0 THEN start ELSE DefragmentItem(f[i - 1], i)]

\* The recursive function of the loop by offset is defined.
LEMMA TurnsExist ==
    ASSUME NEW start
    PROVE  \A n \in Nat : \E f : Turns(start, n, f)
<1> DEFINE S == {n \in Nat : \E f : Turns(start, n, f)}
<1>1. 0 \in S
  <2>1. Turns(start, 0, [i \in 0 .. 0 |-> start])
    BY DEF Turns
  <2> QED  BY <2>1
<1>2. ASSUME NEW n \in Nat, n \in S PROVE n + 1 \in S
  <2>1. PICK f : Turns(start, n, f)
    BY <1>2
  <2> DEFINE g == [i \in 0 .. n + 1 |-> IF i = n + 1 THEN DefragmentItem(f[n], n + 1) ELSE f[i]]
  <2>2. Turns(start, n + 1, g)
    BY <2>1 DEF Turns
  <2> QED  BY <2>2
<1> HIDE DEF S
<1>3. Nat \subseteq S
  BY <1>1, <1>2, SetInduction
<1> QED  BY <1>3 DEF S

\* The list is the same after each turn.
LEMMA TurnsSame ==
    ASSUME NEW start, IsAcc(start), NEW h, h = start.head, IsHead(h), IsList(h.items),
           NEW f, Turns(start, Len(h.items), f)
    PROVE  SameItems(h, f[Len(h.items)].head)
<1> DEFINE S == {i \in Nat : i <= Len(h.items) => IsAcc(f[i]) /\ SameItems(h, f[i].head)}
<1>1. Len(h.items) \in Nat
  BY DEF IsList
<1>2. 0 \in S
  <2>1. f[0] = start
    BY <1>1 DEF Turns
  <2> QED  BY <2>1, SameItemsItself
<1>3. ASSUME NEW i \in Nat, i \in S PROVE i + 1 \in S
  <2> SUFFICES ASSUME i + 1 <= Len(h.items)
               PROVE  IsAcc(f[i + 1]) /\ SameItems(h, f[i + 1].head)
    OBVIOUS
  <2>1. IsAcc(f[i]) /\ SameItems(h, f[i].head)
    BY <1>1, <1>3
  <2>2. f[i + 1] = DefragmentItem(f[i], i + 1)
    <3>1. i + 1 \in 0 .. Len(h.items) /\ i + 1 # 0 /\ (i + 1) - 1 = i
      BY <1>1
    <3> QED  BY <3>1 DEF Turns
  <2>3. PICK a, x : a = f[i] /\ x = f[i].head
    OBVIOUS
  <2>4. IsHead(x) /\ IsList(x.items) /\ i + 1 \in 1 .. Len(x.items)
    <3>1. IsHead(x) /\ IsList(x.items) /\ Len(x.items) = Len(h.items)
      BY <2>1, <2>3, SameShape
    <3> QED  BY <1>1, <3>1
  <2>5. IsAcc(DefragmentItem(a, i + 1)) /\ SameItems(x, DefragmentItem(a, i + 1).head)
    BY <2>1, <2>3, <2>4, DefragmentItemSame
  <2> QED  BY <2>1, <2>2, <2>3, <2>5, SameItemsTransitive
<1> HIDE DEF S
<1>4. Nat \subseteq S
  BY <1>2, <1>3, SetInduction
<1> QED  BY <1>1, <1>4 DEF S

\* The same for the loop over blocks.
BlockTurns(start, n, f) ==
    f = [i \in 0 .. n |-> IF i = 0 THEN start ELSE DefragmentBlock(f[i - 1], i)]

\* The recursive function of the loop by block number is defined.
LEMMA BlockTurnsExist ==
    ASSUME NEW start
    PROVE  \A n \in Nat : \E f : BlockTurns(start, n, f)
<1> DEFINE S == {n \in Nat : \E f : BlockTurns(start, n, f)}
<1>1. 0 \in S
  <2>1. BlockTurns(start, 0, [i \in 0 .. 0 |-> start])
    BY DEF BlockTurns
  <2> QED  BY <2>1
<1>2. ASSUME NEW n \in Nat, n \in S PROVE n + 1 \in S
  <2>1. PICK f : BlockTurns(start, n, f)
    BY <1>2
  <2> DEFINE g == [i \in 0 .. n + 1 |-> IF i = n + 1 THEN DefragmentBlock(f[n], n + 1) ELSE f[i]]
  <2>2. BlockTurns(start, n + 1, g)
    BY <2>1 DEF BlockTurns
  <2> QED  BY <2>2
<1> HIDE DEF S
<1>3. Nat \subseteq S
  BY <1>1, <1>2, SetInduction
<1> QED  BY <1>3 DEF S

\* The list is the same after each turn of it.
LEMMA BlockTurnsSame ==
    ASSUME NEW start, IsBlockAcc(start), NEW h, h = start.head, IsHead(h), IsList(h.items),
           NEW f, BlockTurns(start, Len(h.items), f)
    PROVE  SameItems(h, f[Len(h.items)].head)
<1> DEFINE S == {i \in Nat : i <= Len(h.items) => IsBlockAcc(f[i]) /\ SameItems(h, f[i].head)}
<1>1. Len(h.items) \in Nat
  BY DEF IsList
<1>2. 0 \in S
  <2>1. f[0] = start
    BY <1>1 DEF BlockTurns
  <2> QED  BY <2>1, SameItemsItself
<1>3. ASSUME NEW i \in Nat, i \in S PROVE i + 1 \in S
  <2> SUFFICES ASSUME i + 1 <= Len(h.items)
               PROVE  IsBlockAcc(f[i + 1]) /\ SameItems(h, f[i + 1].head)
    OBVIOUS
  <2>1. IsBlockAcc(f[i]) /\ SameItems(h, f[i].head)
    BY <1>1, <1>3
  <2>2. f[i + 1] = DefragmentBlock(f[i], i + 1)
    <3>1. i + 1 \in 0 .. Len(h.items) /\ i + 1 # 0 /\ (i + 1) - 1 = i
      BY <1>1
    <3> QED  BY <3>1 DEF BlockTurns
  <2>3. PICK a, x : a = f[i] /\ x = f[i].head
    OBVIOUS
  <2>4. IsHead(x) /\ IsList(x.items) /\ i + 1 \in 1 .. Len(x.items)
    <3>1. IsHead(x) /\ IsList(x.items) /\ Len(x.items) = Len(h.items)
      BY <2>1, <2>3, SameShape
    <3> QED  BY <1>1, <3>1
  <2>5. IsBlockAcc(DefragmentBlock(a, i + 1)) /\ SameItems(x, DefragmentBlock(a, i + 1).head)
    BY <2>1, <2>3, <2>4, DefragmentBlockSame
  <2> QED  BY <2>1, <2>2, <2>3, <2>5, SameItemsTransitive
<1> HIDE DEF S
<1>4. Nat \subseteq S
  BY <1>2, <1>3, SetInduction
<1> QED  BY <1>1, <1>4 DEF S

\* Complete
LEMMA CompleteSame ==
    ASSUME NEW h, IsHead(h), IsList(h.items)
    PROVE  SameItems(h, Complete(h)) /\ "DEFRAGMENTED" \in Complete(h).flags
<1>1. PICK r : r = Complete(h)
  OBVIOUS
<1>2. /\ IsHead(r) /\ r.items = h.items /\ r.exists = h.exists /\ r.frame = h.frame
      /\ r.first_gap = h.first_gap /\ r.contiguous_len = h.contiguous_len
      /\ r.datalen = h.datalen /\ r.flags = h.flags \cup {"DEFRAGMENTED"}
  BY <1>1 DEF IsHead, Complete
<1>3. SameItems(h, r)
  BY <1>2, RestChanged
<1> QED  BY <1>1, <1>2, <1>3

\* Putting a PDU together changes neither its list nor the cache.
LEMMA DefragmentSame ==
    ASSUME NEW h, IsHead(h), IsList(h.items)
    PROVE  SameItems(h, Defragment(h)) /\ "DEFRAGMENTED" \in Defragment(h).flags
<1>1. PICK s : s = [h EXCEPT !.data = GrownFrom(h.data, h.datalen)]
  OBVIOUS
<1>2. SameItems(h, s)
  BY <1>1, NewData
<1>3. s.items = h.items /\ IsHead(s) /\ IsList(s.items) /\ Len(h.items) \in Nat
  BY <1>1, <1>2, SameShape DEF IsHead, IsList
<1>4. PICK start : start = [head |-> s, dfpos |-> Len(h.data)]
  OBVIOUS
<1>5. IsAcc(start) /\ start.head = s
  BY <1>4 DEF IsAcc
<1>6. PICK f : /\ f = [i \in 0 .. Len(h.items) |-> IF i = 0 THEN start ELSE DefragmentItem(f[i - 1], i)]
               /\ Defragment(h) = Complete(f[Len(h.items)].head)
  <2>1. \E f : f = [i \in 0 .. Len(h.items) |-> IF i = 0 THEN start ELSE DefragmentItem(f[i - 1], i)]
    BY <1>3, TurnsExist DEF Turns
  <2> QED  BY <1>1, <1>4, <2>1 DEF Defragment
<1>7. PICK x : x = f[Len(h.items)].head
  OBVIOUS
<1>8. SameItems(s, x)
  <2>1. Turns(start, Len(s.items), f)
    BY <1>3, <1>6 DEF Turns
  <2>2. SameItems(s, f[Len(s.items)].head)
    BY <1>3, <1>5, <2>1, TurnsSame
  <2> QED  BY <1>3, <1>7, <2>2
<1>9. IsHead(x) /\ IsList(x.items)
  BY <1>8, SameShape
<1>10. SameItems(x, Complete(x)) /\ "DEFRAGMENTED" \in Complete(x).flags
  BY <1>9, CompleteSame
<1>11. SameItems(h, Complete(x))
  BY <1>2, <1>8, <1>10, SameItemsTransitive
<1> QED  BY <1>6, <1>7, <1>10, <1>11

\* The same for fragment_defragment_and_free.
LEMMA DefragmentBlocksSame ==
    ASSUME NEW h, IsHead(h), IsList(h.items)
    PROVE  /\ SameItems(h, fragment_defragment_and_free(h))
           /\ "DEFRAGMENTED" \in fragment_defragment_and_free(h).flags
<1>1. PICK s : s = [h EXCEPT !.data = GrownFrom(h.data, BytesBefore(h.items, Len(h.items) + 1))]
  OBVIOUS
<1>2. SameItems(h, s)
  BY <1>1, NewData
<1>3. s.items = h.items /\ IsHead(s) /\ IsList(s.items) /\ Len(h.items) \in Nat
  BY <1>1, <1>2, SameShape DEF IsHead, IsList
<1>4. PICK start : start = [head |-> s, dfpos |-> 0, old_dfpos |-> 0]
  OBVIOUS
<1>5. IsBlockAcc(start) /\ start.head = s
  BY <1>4 DEF IsBlockAcc
<1>6. PICK f : /\ f = [i \in 0 .. Len(h.items) |-> IF i = 0 THEN start ELSE DefragmentBlock(f[i - 1], i)]
               /\ fragment_defragment_and_free(h) = Complete(f[Len(h.items)].head)
  <2>1. \E f : f = [i \in 0 .. Len(h.items) |-> IF i = 0 THEN start ELSE DefragmentBlock(f[i - 1], i)]
    BY <1>3, BlockTurnsExist DEF BlockTurns
  <2> QED  BY <1>1, <1>4, <2>1 DEF fragment_defragment_and_free
<1>7. PICK x : x = f[Len(h.items)].head
  OBVIOUS
<1>8. SameItems(s, x)
  <2>1. BlockTurns(start, Len(s.items), f)
    BY <1>3, <1>6 DEF BlockTurns
  <2>2. SameItems(s, f[Len(s.items)].head)
    BY <1>3, <1>5, <2>1, BlockTurnsSame
  <2> QED  BY <1>3, <1>7, <2>2
<1>9. IsHead(x) /\ IsList(x.items)
  BY <1>8, SameShape
<1>10. SameItems(x, Complete(x)) /\ "DEFRAGMENTED" \in Complete(x).flags
  BY <1>9, CompleteSame
<1>11. SameItems(h, Complete(x))
  BY <1>2, <1>8, <1>10, SameItemsTransitive
<1> QED  BY <1>6, <1>7, <1>10, <1>11

-----------------------------------------------------------------------------
(***************************************************************************)
(* What is kept of a head: the list, the cache, and the frames.             *)
(***************************************************************************)

\* A head as the program has it: the list and its cache are right, and each fragment
\* is known by the frame it came in, which is no later than that of the head.
GoodHead(h) ==
    /\ IsHead(h) /\ h.exists = TRUE
    /\ GoodCache(h)
    /\ h.frame \in Nat /\ h.datalen \in Nat
    /\ \A i \in 1 .. Len(h.items) :
          h.items[i].frame = h.items[i].uid /\ h.items[i].frame <= h.frame

\* Such a head has its fields, and a list.
LEMMA GoodShape ==
    ASSUME NEW h, GoodHead(h)
    PROVE  IsHead(h) /\ IsList(h.items)
BY DEF GoodHead, GoodCache, GoodList

\* Other marks and data leave a head as it should be.
LEMMA SameItemsHead ==
    ASSUME NEW h, NEW r, GoodHead(h), SameItems(h, r)
    PROVE  GoodHead(r) /\ FramesOf(r) = FramesOf(h)
<1>1. GoodCache(r)
  BY SameItemsGood DEF GoodHead
<1>2. DOMAIN r.items = 1 .. Len(r.items) /\ DOMAIN h.items = 1 .. Len(h.items)
  BY GoodShape, SameShape DEF IsList
<1>3. Len(r.items) = Len(h.items) /\ \A i \in 1 .. Len(h.items) :
         r.items[i].uid = h.items[i].uid /\ r.items[i].frame = h.items[i].frame
  BY DEF SameItems, Kept
<1>4. GoodHead(r)
  BY <1>1, <1>3 DEF GoodHead, SameItems
<1>5. FramesOf(r) = FramesOf(h)
  BY <1>2, <1>3 DEF FramesOf
<1> QED  BY <1>4, <1>5

\* fragment_reset_defragmentation
LEMMA ResetSame ==
    ASSUME NEW h, IsHead(h), IsList(h.items)
    PROVE  SameItems(h, fragment_reset_defragmentation(h))
<1>1. PICK wrong : wrong = {"TOOLONGFRAGMENT", "MULTIPLETAILS"}
  OBVIOUS
<1>2. PICK n \in Nat : n = Len(h.items)
  BY DEF IsList
<1>3. PICK t : t = [i \in 1 .. n |-> [h.items[i] EXCEPT !.flags = @ \ wrong]]
  OBVIOUS
<1>4. Kept(h.items, t)
  <2>1. t = [i \in 1 .. n |-> t[i]]
    BY <1>3
  <2>2. Len(t) = n
    BY <2>1, FunctionIsSeq
  <2>3. ASSUME NEW i \in 1 .. n
        PROVE  /\ IsItem(t[i]) /\ t[i].uid = h.items[i].uid /\ t[i].frame = h.items[i].frame
               /\ t[i].offset = h.items[i].offset /\ t[i].len = h.items[i].len
    <3>1. PICK x : x = h.items[i]
      OBVIOUS
    <3>2. PICK v : v = x.flags \ wrong
      OBVIOUS
    <3>3. t[i] = [x EXCEPT !.flags = v] /\ IsItem(x)
      BY <1>2, <1>3, <3>1, <3>2 DEF IsList
    <3>4. PICK w : w = [x EXCEPT !.flags = v]
      OBVIOUS
    <3>5. /\ IsItem(w) /\ w.uid = x.uid /\ w.frame = x.frame
          /\ w.offset = x.offset /\ w.len = x.len
      BY <3>3, <3>4, ItemMarked
    <3> QED  BY <3>1, <3>3, <3>4, <3>5
  <2>4. IsList(t)
    BY <2>1, <2>2, <2>3 DEF IsList
  <2> QED  BY <1>2, <2>2, <2>3, <2>4 DEF Kept
<1>5. PICK q : q = IF h.flags \cap wrong = {} THEN h.items ELSE t
  OBVIOUS
<1>6. Kept(h.items, q)
  BY <1>4, <1>5, KeptItself
<1>7. PICK v : v = h.flags \ ({"DEFRAGMENTED", "PARTIAL_REASSEMBLY", "DATALEN_SET"} \cup wrong)
  OBVIOUS
<1>8. PICK r : r = fragment_reset_defragmentation(h)
  OBVIOUS
<1>9. r = [h EXCEPT !.flags = v, !.items = q, !.datalen = 0, !.reassembled_in = 0]
  <2>1. DOMAIN h.items = 1 .. n
    BY <1>2 DEF IsList
  <2>2. [i \in DOMAIN h.items |-> [h.items[i] EXCEPT !.flags = @ \ wrong]] = t
    BY <1>3, <2>1
  <2>3. r = [h EXCEPT
                !.flags = h.flags \ ({"DEFRAGMENTED", "PARTIAL_REASSEMBLY", "DATALEN_SET"} \cup wrong),
                !.items = IF h.flags \cap wrong = {} THEN h.items
                          ELSE [i \in DOMAIN h.items |-> [h.items[i] EXCEPT !.flags = @ \ wrong]],
                !.datalen = 0, !.reassembled_in = 0]
    BY <1>1, <1>8 DEF fragment_reset_defragmentation
  <2> QED  BY <1>5, <1>7, <2>2, <2>3
<1>10. /\ IsHead(r) /\ r.items = q /\ r.exists = h.exists /\ r.frame = h.frame
       /\ r.first_gap = h.first_gap /\ r.contiguous_len = h.contiguous_len
       /\ r.datalen = 0 /\ r.flags = v
  BY <1>9 DEF IsHead
<1>11. "PARTIAL_REASSEMBLY" \notin v
  BY <1>7
<1>12. SameItems(h, r)
  BY <1>6, <1>10, <1>11 DEF SameItems
<1> QED  BY <1>8, <1>12

\* WithTail
LEMMA TailSame ==
    ASSUME NEW h, IsHead(h), IsList(h.items), NEW fd, IsItem(fd), NEW more_frags
    PROVE  /\ SameItems(h, WithTail(h, fd, more_frags).head)
           /\ WithTail(h, fd, more_frags).flags \subseteq {"MULTIPLETAILS"}
           /\ "DEFRAGMENTED" \in WithTail(h, fd, more_frags).head.flags <=> "DEFRAGMENTED" \in h.flags
<1>1. PICK end : end = IF calls.block THEN fd.offset ELSE EndOf(fd)
  OBVIOUS
<1>2. end \in Nat
  <2>1. fd.offset \in Nat /\ fd.len \in Nat
    BY DEF IsItem
  <2>2. EndOf(fd) \in Nat
    BY <2>1 DEF EndOf
  <2> QED  BY <1>1, <2>1, <2>2
<1>3. PICK w : w = WithTail(h, fd, more_frags)
  OBVIOUS
<1>4. CASE more_frags
  <2>1. w = [head |-> h, flags |-> {}]
    BY <1>3, <1>4 DEF WithTail
  <2>2. w.head = h /\ w.flags = {}
    BY <2>1
  <2> QED  BY <1>3, <2>2, SameItemsItself
<1>5. CASE ~more_frags /\ "DATALEN_SET" \in h.flags
  <2>1. PICK tails : tails = IF h.datalen # end THEN {"MULTIPLETAILS"} ELSE {}
    OBVIOUS
  <2>2. PICK r : r = [h EXCEPT !.flags = @ \cup tails]
    OBVIOUS
  <2>3. w = [head |-> r, flags |-> tails]
    BY <1>1, <1>3, <1>5, <2>1, <2>2, Zenon DEF WithTail
  <2>4. /\ IsHead(r) /\ r.items = h.items /\ r.exists = h.exists /\ r.frame = h.frame
        /\ r.first_gap = h.first_gap /\ r.contiguous_len = h.contiguous_len
        /\ r.datalen = h.datalen /\ r.flags = h.flags \cup tails
    BY <2>2 DEF IsHead
  <2>5. tails \subseteq {"MULTIPLETAILS"}
    BY <2>1
  <2>6. SameItems(h, r)
    BY <2>4, <2>5, RestChanged
  <2>7. "DEFRAGMENTED" \in r.flags <=> "DEFRAGMENTED" \in h.flags
    BY <2>4, <2>5
  <2>8. w.head = r /\ w.flags = tails
    BY <2>3
  <2> QED  BY <1>3, <2>5, <2>6, <2>7, <2>8
<1>6. CASE ~more_frags /\ "DATALEN_SET" \notin h.flags
  <2>1. PICK r : r = [h EXCEPT !.datalen = end, !.flags = @ \cup {"DATALEN_SET"}]
    OBVIOUS
  <2>2. w = [head |-> r, flags |-> {}]
    BY <1>1, <1>3, <1>6, <2>1, Zenon DEF WithTail
  <2>3. /\ IsHead(r) /\ r.items = h.items /\ r.exists = h.exists /\ r.frame = h.frame
        /\ r.first_gap = h.first_gap /\ r.contiguous_len = h.contiguous_len
        /\ r.datalen = end /\ r.flags = h.flags \cup {"DATALEN_SET"}
    BY <2>1 DEF IsHead
  <2>4. SameItems(h, r)
    BY <1>2, <2>3, RestChanged
  <2>5. "DEFRAGMENTED" \in r.flags <=> "DEFRAGMENTED" \in h.flags
    BY <2>3
  <2>6. w.head = r /\ w.flags = {}
    BY <2>2
  <2> QED  BY <1>3, <2>4, <2>5, <2>6
<1> QED  BY <1>4, <1>5, <1>6

\* WithFrame, for a frame that is later than those before.
LEMMA WithFrameGood ==
    ASSUME NEW h, GoodHead(h), NEW fd, fd.frame \in Nat, h.frame < fd.frame
    PROVE  LET r == WithFrame(h, fd)
           IN  /\ GoodHead(r) /\ r.items = h.items /\ r.frame = fd.frame /\ r.flags = h.flags
               /\ r.datalen = h.datalen /\ r.contiguous_len = h.contiguous_len
<1>1. PICK r : r = WithFrame(h, fd)
  OBVIOUS
<1>2. IsHead(h) /\ h.frame \in Nat
  BY DEF GoodHead
<1>3. r = [h EXCEPT !.frame = fd.frame]
  BY <1>1, <1>2 DEF WithFrame
<1>4. /\ IsHead(r) /\ r.items = h.items /\ r.exists = h.exists /\ r.frame = fd.frame
      /\ r.first_gap = h.first_gap /\ r.contiguous_len = h.contiguous_len
      /\ r.datalen = h.datalen /\ r.flags = h.flags
  BY <1>2, <1>3 DEF IsHead
<1>5. GoodCache(r)
  BY <1>4 DEF GoodCache, GoodHead
<1>6. ASSUME NEW i \in 1 .. Len(r.items)
      PROVE  r.items[i].frame = r.items[i].uid /\ r.items[i].frame <= r.frame
  <2>1. h.items[i].frame = h.items[i].uid /\ h.items[i].frame <= h.frame
    BY <1>4, <1>6 DEF GoodHead
  <2>2. h.items[i].uid \in Nat
    BY <1>4, GoodShape, EndsAreNumbers
  <2> QED  BY <1>2, <1>4, <2>1, <2>2
<1>7. GoodHead(r)
  BY <1>4, <1>5, <1>6 DEF GoodHead
<1> QED  BY <1>1, <1>4, <1>7

-----------------------------------------------------------------------------
(***************************************************************************)
(* A fragment is added.                                                     *)
(***************************************************************************)

\* A fragment that just came.
NewItem(h, fd) ==
    /\ IsItem(fd) /\ fd.frame = fd.uid
    /\ \A j \in 1 .. Len(h.items) : h.items[j].uid # fd.uid

\* The fragments of a list are those of another and a new one, wherever it is.
OneMore(q, fd, t) ==
    /\ Len(t) = Len(q) + 1
    /\ \A i \in 1 .. Len(t) : t[i] = fd \/ \E j \in 1 .. Len(q) : t[i] = q[j]
    /\ \E i \in 1 .. Len(t) : t[i] = fd
    /\ \A j \in 1 .. Len(q) : \E i \in 1 .. Len(t) : t[i] = q[j]

\* An insertion adds one fragment.
LEMMA InsertedOneMore ==
    ASSUME NEW q, IsList(q), NEW n \in 0 .. Len(q), NEW fd, NEW t, Inserted(q, n, fd, t)
    PROVE  OneMore(q, fd, t)
<1>1. Len(t) = Len(q) + 1 /\ n + 1 \in 1 .. Len(t) /\ t[n + 1] = fd
  BY InsertedPlaces
<1>2. ASSUME NEW i \in 1 .. Len(t) PROVE t[i] = fd \/ \E j \in 1 .. Len(q) : t[i] = q[j]
  <2>1. CASE i \in 1 .. n
    BY <2>1, InsertedPlaces
  <2>2. CASE i = n + 1
    BY <1>1, <2>2
  <2>3. CASE i \in n + 2 .. Len(t)
    <3>1. i - 1 \in 1 .. Len(q) /\ t[i] = q[i - 1]
      BY <2>3, InsertedPlaces
    <3> QED  BY <3>1
  <2> QED  BY <2>1, <2>2, <2>3, InsertedPlaces
<1>3. ASSUME NEW j \in 1 .. Len(q) PROVE \E i \in 1 .. Len(t) : t[i] = q[j]
  <2>1. CASE j \in 1 .. n
    BY <2>1, InsertedPlaces
  <2>2. CASE j \in n + 1 .. Len(q)
    <3>1. j + 1 \in 1 .. Len(t) /\ t[j + 1] = q[j]
      BY <2>2, InsertedPlaces
    <3> QED  BY <3>1
  <2> QED  BY <2>1, <2>2, InsertedPlaces
<1> QED  BY <1>1, <1>2, <1>3 DEF OneMore

\* What adding a fragment gives.
Added(h, fd, r) ==
    /\ GoodHead(r) /\ OneMore(h.items, fd, r.items)
    /\ FramesOf(r) \subseteq FramesOf(h) \cup {fd.frame}
    /\ r.frame = h.frame

\* LINK_FRAG adds one fragment, and nothing else.
LEMMA LinkGood ==
    ASSUME NEW h, GoodHead(h), NEW fd, NewItem(h, fd), h.frame = fd.frame
    PROVE  Added(h, fd, LINK_FRAG(h, fd)) /\ SameRest(h, LINK_FRAG(h, fd))
<1>1. PICK r, q, t : r = LINK_FRAG(h, fd) /\ q = h.items /\ t = r.items
  OBVIOUS
<1>2. GoodCache(r) /\ SameRest(h, r) /\ \E n \in 0 .. Len(q) : Inserted(q, n, fd, t)
  <2>1. IsHead(h) /\ GoodCache(h) /\ IsItem(fd)
    BY DEF GoodHead, NewItem
  <2>2. \A j \in 1 .. Len(h.items) : h.items[j].uid # fd.uid
    BY DEF NewItem
  <2> QED  BY <1>1, <2>1, <2>2, LinkKeeps
<1>3. IsList(q) /\ IsList(t)
  BY <1>1, <1>2, GoodShape DEF GoodCache, GoodList
<1>4. OneMore(q, fd, t)
  BY <1>2, <1>3, InsertedOneMore
<1>5. /\ r.exists = TRUE /\ r.frame = h.frame /\ r.frame \in Nat /\ r.datalen \in Nat /\ IsHead(r)
  BY <1>2 DEF SameRest, GoodHead
<1>6. ASSUME NEW i \in 1 .. Len(t)
      PROVE  /\ t[i].frame = t[i].uid /\ t[i].frame <= r.frame
             /\ t[i].frame = fd.frame \/ \E j \in 1 .. Len(q) : t[i].frame = q[j].frame
  <2>1. CASE t[i] = fd
    BY <1>5, <2>1 DEF NewItem
  <2>2. CASE \E j \in 1 .. Len(q) : t[i] = q[j]
    BY <1>1, <1>5, <2>2 DEF GoodHead
  <2> QED  BY <1>4, <2>1, <2>2 DEF OneMore
<1>7. GoodHead(r)
  BY <1>1, <1>2, <1>5, <1>6 DEF GoodHead
<1>8. FramesOf(r) \subseteq FramesOf(h) \cup {fd.frame}
  <2>1. DOMAIN t = 1 .. Len(t) /\ DOMAIN q = 1 .. Len(q)
    BY <1>3 DEF IsList
  <2> QED  BY <1>1, <1>6, <2>1 DEF FramesOf
<1> QED  BY <1>1, <1>2, <1>4, <1>5, <1>7, <1>8 DEF Added

\* LinkedAs
LEMMA LinkedAsGood ==
    ASSUME NEW h, GoodHead(h), NEW fd, NewItem(h, fd), h.frame = fd.frame, NEW flags,
           "PARTIAL_REASSEMBLY" \notin flags
    PROVE  /\ GoodHead(LinkedAs(h, fd, flags))
           /\ FramesOf(LinkedAs(h, fd, flags)) \subseteq FramesOf(h) \cup {fd.frame}
           /\ LinkedAs(h, fd, flags).frame = fd.frame
           /\ h.flags \subseteq LinkedAs(h, fd, flags).flags
           /\ "PARTIAL_REASSEMBLY" \in LinkedAs(h, fd, flags).flags => "PARTIAL_REASSEMBLY" \in h.flags
<1>1. PICK v, w : v = h.flags \cup (flags \ {"DEFRAGMENTED"}) /\ w = fd.flags \cup flags
  OBVIOUS
<1>2. PICK x, y : x = [h EXCEPT !.flags = v] /\ y = [fd EXCEPT !.flags = w]
  OBVIOUS
<1>3. LinkedAs(h, fd, flags) = LINK_FRAG(x, y)
  BY <1>1, <1>2 DEF LinkedAs
<1>4. /\ IsHead(x) /\ x.items = h.items /\ x.exists = h.exists /\ x.frame = h.frame
      /\ x.first_gap = h.first_gap /\ x.contiguous_len = h.contiguous_len
      /\ x.datalen = h.datalen /\ x.flags = v
  BY <1>2, GoodShape DEF IsHead
<1>5. "PARTIAL_REASSEMBLY" \in v => "PARTIAL_REASSEMBLY" \in h.flags
  BY <1>1
<1>6. GoodHead(x) /\ FramesOf(x) = FramesOf(h)
  <2>1. SameItems(h, x)
    BY <1>4, <1>5, GoodShape, RestChanged
  <2> QED  BY <2>1, SameItemsHead
<1>7. NewItem(x, y) /\ y.frame = fd.frame
  <2>1. IsItem(fd)
    BY DEF NewItem
  <2>2. IsItem(y) /\ y.uid = fd.uid /\ y.frame = fd.frame
    BY <1>2, <2>1, ItemMarked
  <2> QED  BY <1>4, <2>2 DEF NewItem
<1>8. PICK r : r = LINK_FRAG(x, y)
  OBVIOUS
<1>9. Added(x, y, r) /\ SameRest(x, r)
  BY <1>4, <1>6, <1>7, <1>8, LinkGood
<1>10. r.flags = v /\ r.frame = fd.frame
  BY <1>4, <1>9 DEF SameRest
<1>11. h.flags \subseteq v
  BY <1>1
<1>12. GoodHead(r) /\ FramesOf(r) \subseteq FramesOf(h) \cup {fd.frame}
  BY <1>6, <1>7, <1>9 DEF Added
<1> QED  BY <1>3, <1>5, <1>8, <1>10, <1>11, <1>12

-----------------------------------------------------------------------------
(***************************************************************************)
(* fragment_add_work and fragment_add_seq_work.                             *)
(***************************************************************************)

\* A fragment of a later frame.
Later(h, fd) == IsItem(fd) /\ fd.frame = fd.uid /\ fd.frame \in Nat /\ h.frame < fd.frame

\* Complete, and not to be extended.
Closed(h) == "DEFRAGMENTED" \in h.flags /\ "PARTIAL_REASSEMBLY" \notin h.flags

\* A fragment of a later frame is not in the list.
LEMMA LaterIsNew ==
    ASSUME NEW h, GoodHead(h), NEW fd, Later(h, fd)
    PROVE  NewItem(h, fd)
<1>1. ASSUME NEW j \in 1 .. Len(h.items) PROVE h.items[j].uid # fd.uid
  <2>1. h.items[j].frame = h.items[j].uid /\ h.items[j].frame <= h.frame /\ h.frame \in Nat
    BY DEF GoodHead
  <2>2. h.items[j].uid \in Nat
    BY GoodShape, EndsAreNumbers
  <2> QED  BY <2>1, <2>2 DEF Later
<1> QED  BY <1>1 DEF NewItem, Later

\* Its marks do not matter.
LEMMA NewItemMarked ==
    ASSUME NEW h, NEW fd, NewItem(h, fd), NEW v, NEW b
    PROVE  /\ NewItem(h, [fd EXCEPT !.flags = v]) /\ [fd EXCEPT !.flags = v].frame = fd.frame
           /\ [fd EXCEPT !.flags = v].offset = fd.offset
           /\ NewItem(h, [fd EXCEPT !.has_data = b]) /\ [fd EXCEPT !.has_data = b].frame = fd.frame
           /\ [fd EXCEPT !.has_data = b].offset = fd.offset
<1>1. IsItem(fd)
  BY DEF NewItem
<1>2. PICK x, y : x = [fd EXCEPT !.flags = v] /\ y = [fd EXCEPT !.has_data = b]
  OBVIOUS
<1>3. /\ IsItem(x) /\ x.uid = fd.uid /\ x.frame = fd.frame /\ x.offset = fd.offset
      /\ IsItem(y) /\ y.uid = fd.uid /\ y.frame = fd.frame /\ y.offset = fd.offset
  BY <1>1, <1>2, ItemMarked
<1>4. NewItem(h, x) /\ NewItem(h, y)
  BY <1>3 DEF NewItem
<1> QED  BY <1>2, <1>3, <1>4

\* Before a fragment is linked: the head that may be reset, gets its frame and the tail.
Prepared(h, fd, h1, th) ==
    /\ GoodHead(th) /\ FramesOf(th) = FramesOf(h) /\ th.frame = fd.frame
    /\ NewItem(th, fd)
    /\ "PARTIAL_REASSEMBLY" \in th.flags => "PARTIAL_REASSEMBLY" \in h.flags
    /\ "DEFRAGMENTED" \in th.flags <=> "DEFRAGMENTED" \in h1.flags
    /\ Closed(h) => "DEFRAGMENTED" \in h1.flags

\* What is done to the head before a fragment is linked keeps its list.
LEMMA Preparing ==
    ASSUME NEW h, GoodHead(h), NEW fd, Later(h, fd), NEW more_frags, NEW h1,
           h1 = WithFrame(IF Extends(h, fd) THEN fragment_reset_defragmentation(h) ELSE h, fd)
    PROVE  Prepared(h, fd, h1, WithTail(h1, fd, more_frags).head)
<1>1. PICK h0 : h0 = IF Extends(h, fd) THEN fragment_reset_defragmentation(h) ELSE h
  OBVIOUS
<1>2. SameItems(h, h0)
  <2>1. SameItems(h, h) /\ SameItems(h, fragment_reset_defragmentation(h))
    BY GoodShape, SameItemsItself, ResetSame
  <2> QED  BY <1>1, <2>1
<1>3. GoodHead(h0) /\ FramesOf(h0) = FramesOf(h) /\ h0.frame = h.frame
  BY <1>2, SameItemsHead DEF SameItems
<1>4. Later(h0, fd) /\ fd.frame \in Nat /\ h0.frame < fd.frame /\ IsItem(fd)
  BY <1>3 DEF Later
<1>5. GoodHead(h1) /\ h1.items = h0.items /\ h1.frame = fd.frame /\ h1.flags = h0.flags
  BY <1>1, <1>3, <1>4, WithFrameGood
<1>6. PICK th : th = WithTail(h1, fd, more_frags).head
  OBVIOUS
<1>7. SameItems(h1, th) /\ ("DEFRAGMENTED" \in th.flags <=> "DEFRAGMENTED" \in h1.flags)
  BY <1>4, <1>5, <1>6, GoodShape, TailSame
<1>8. GoodHead(th) /\ FramesOf(th) = FramesOf(h) /\ th.frame = fd.frame
  <2>1. GoodHead(th) /\ FramesOf(th) = FramesOf(h1)
    BY <1>5, <1>7, SameItemsHead
  <2>2. FramesOf(h1) = FramesOf(h)
    BY <1>3, <1>5 DEF FramesOf
  <2> QED  BY <1>5, <1>7, <2>1, <2>2 DEF SameItems
<1>9. NewItem(th, fd)
  <2>1. NewItem(h0, fd)
    BY <1>3, <1>4, LaterIsNew
  <2>2. Len(th.items) = Len(h0.items) /\ \A i \in 1 .. Len(h0.items) : th.items[i].uid = h0.items[i].uid
    BY <1>5, <1>7 DEF SameItems, Kept
  <2> QED  BY <2>1, <2>2 DEF NewItem
<1>10. "PARTIAL_REASSEMBLY" \in th.flags => "PARTIAL_REASSEMBLY" \in h.flags
  BY <1>2, <1>5, <1>7 DEF SameItems
<1>11. Closed(h) => "DEFRAGMENTED" \in h1.flags
  <2> SUFFICES ASSUME Closed(h) PROVE "DEFRAGMENTED" \in h1.flags
    OBVIOUS
  <2>1. ~Extends(h, fd)
    BY DEF Closed, Extends
  <2> QED  BY <1>1, <1>5, <2>1 DEF Closed
<1> QED  BY <1>6, <1>7, <1>8, <1>9, <1>10, <1>11 DEF Prepared

\* What a call gives.
Worked(h, fd, r) ==
    /\ GoodHead(r.head) /\ FramesOf(r.head) \subseteq FramesOf(h) \cup {fd.frame}
    /\ r.head.frame <= fd.frame
    /\ "PARTIAL_REASSEMBLY" \in r.head.flags => "PARTIAL_REASSEMBLY" \in h.flags
    /\ r.result = "complete" => "DEFRAGMENTED" \in r.head.flags
    /\ Closed(h) => Closed(r.head) /\ r.result # "incomplete"
    /\ r.result = "incomplete" /\ "DATALEN_SET" \in r.head.flags => Misses(r.head)

\* Nothing is at the end of the contiguous part.
LEMMA GapUncovered ==
    ASSUME NEW h, GoodHead(h), h.contiguous_len < h.datalen
    PROVE  ~Covered(h, h.datalen)
<1>1. /\ IsList(h.items) /\ h.contiguous_len \in Nat /\ h.datalen \in Nat
      /\ \A i \in 1 .. Len(h.items) : ~Has(h.items, i, h.contiguous_len)
  BY DEF GoodHead, GoodCache, GoodList, Exact
<1>2. h.contiguous_len \in 0 .. h.datalen - 1
  BY <1>1
<1>3. DOMAIN h.items = 1 .. Len(h.items)
  BY <1>1 DEF IsList
<1> QED  BY <1>1, <1>2, <1>3 DEF Covered, Has

\* fragment_add_work
LEMMA AddWorks ==
    ASSUME NEW h, GoodHead(h), NEW fd, Later(h, fd), NEW more_frags, NEW late, ~calls.block
    PROVE  Worked(h, fd, fragment_add_work(h, fd, more_frags, late))
<1>1. PICK r : r = fragment_add_work(h, fd, more_frags, late)
  OBVIOUS
<1>2. PICK past : past = ("DEFRAGMENTED" \in h.flags /\ EndOf(fd) > h.datalen)
  OBVIOUS
<1>3. PICK h1 : h1 = WithFrame(IF Extends(h, fd) THEN fragment_reset_defragmentation(h) ELSE h, fd)
  OBVIOUS
<1>4. PICK tail : tail = WithTail(h1, fd, more_frags)
  OBVIOUS
<1>5. PICK th : th = tail.head
  OBVIOUS
<1>6. PICK item : item = [fd EXCEPT !.flags = tail.flags]
  OBVIOUS
<1>7. PICK h2 : h2 = LINK_FRAG(th, item)
  OBVIOUS
<1>8. Prepared(h, fd, h1, th)
  BY <1>3, <1>4, <1>5, Preparing
<1>9. GoodHead(th) /\ NewItem(th, fd) /\ th.frame = fd.frame /\ FramesOf(th) = FramesOf(h)
  BY <1>8 DEF Prepared
<1>10. NewItem(th, item) /\ item.frame = fd.frame
  BY <1>6, <1>9, NewItemMarked
<1>11. Added(th, item, h2) /\ SameRest(th, h2)
  BY <1>7, <1>9, <1>10, LinkGood
<1>12. /\ GoodHead(h2) /\ FramesOf(h2) \subseteq FramesOf(h) \cup {fd.frame}
       /\ h2.frame = fd.frame /\ h2.flags = th.flags
  BY <1>9, <1>10, <1>11 DEF Added, SameRest
<1>13. fd.frame \in Nat /\ h.frame < fd.frame /\ h.frame \in Nat
  BY DEF Later, GoodHead
<1>14. CASE past /\ ~Extends(h, fd) /\ ~late
  <2>1. r = [head |-> h, result |-> "throw"]
    BY <1>1, <1>2, <1>14 DEF fragment_add_work
  <2>2. r.head = h /\ r.result = "throw"
    BY <2>1
  <2>3. h.frame <= fd.frame
    BY <1>13
  <2> QED  BY <1>1, <2>2, <2>3 DEF Worked
<1>15. CASE ~(past /\ ~Extends(h, fd) /\ ~late) /\ "DEFRAGMENTED" \in h1.flags
  <2>1. PICK y : y = [item EXCEPT !.has_data = FALSE]
    OBVIOUS
  <2>2. PICK x : x = LinkedAs(th, y, OverlapFlags(th, fd))
    OBVIOUS
  <2>3. r = [head |-> x, result |-> "complete"]
    BY <1>1, <1>2, <1>3, <1>4, <1>5, <1>6, <1>15, <2>1, <2>2, Zenon DEF fragment_add_work
  <2>4. r.head = x /\ r.result = "complete"
    BY <2>3
  <2>5. NewItem(th, y) /\ y.frame = fd.frame
    BY <1>10, <2>1, NewItemMarked
  <2>6. "PARTIAL_REASSEMBLY" \notin OverlapFlags(th, fd)
    BY DEF OverlapFlags
  <2>7. /\ GoodHead(x) /\ FramesOf(x) \subseteq FramesOf(th) \cup {y.frame} /\ x.frame = y.frame
        /\ th.flags \subseteq x.flags
        /\ "PARTIAL_REASSEMBLY" \in x.flags => "PARTIAL_REASSEMBLY" \in th.flags
    BY <1>9, <2>2, <2>5, <2>6, LinkedAsGood
  <2>8. FramesOf(x) \subseteq FramesOf(h) \cup {fd.frame} /\ x.frame <= fd.frame
    BY <1>9, <1>13, <2>5, <2>7
  <2>9. "DEFRAGMENTED" \in x.flags /\ ("PARTIAL_REASSEMBLY" \in x.flags => "PARTIAL_REASSEMBLY" \in h.flags)
    BY <1>8, <1>15, <2>7 DEF Prepared
  <2> QED  BY <1>1, <2>4, <2>7, <2>8, <2>9 DEF Worked, Closed
<1>16. CASE /\ ~(past /\ ~Extends(h, fd) /\ ~late) /\ "DEFRAGMENTED" \notin h1.flags
            /\ "DATALEN_SET" \notin h2.flags \/ ~Received(h2)
  <2>1. r = [head |-> h2, result |-> "incomplete"]
    BY <1>1, <1>2, <1>3, <1>4, <1>5, <1>6, <1>7, <1>16, Zenon DEF fragment_add_work
  <2>2. r.head = h2 /\ r.result = "incomplete"
    BY <2>1
  <2>3. ~Closed(h)
    BY <1>8, <1>16 DEF Prepared
  <2>4. "PARTIAL_REASSEMBLY" \in h2.flags => "PARTIAL_REASSEMBLY" \in h.flags
    BY <1>8, <1>12 DEF Prepared
  <2>5. ASSUME "DATALEN_SET" \in h2.flags PROVE Misses(h2)
    <3>1. ~(h2.contiguous_len >= h2.datalen)
      BY <1>16, <2>5 DEF Received
    <3>2. h2.contiguous_len \in Nat /\ h2.datalen \in Nat
      BY <1>12 DEF GoodHead, GoodCache, GoodList
    <3>3. h2.contiguous_len < h2.datalen
      BY <3>1, <3>2
    <3> QED  BY <1>12, <3>3, GapUncovered DEF Misses
  <2>6. h2.frame <= fd.frame
    BY <1>12, <1>13
  <2> QED  BY <1>1, <1>12, <2>2, <2>3, <2>4, <2>5, <2>6 DEF Worked
<1>17. CASE /\ ~(past /\ ~Extends(h, fd) /\ ~late) /\ "DEFRAGMENTED" \notin h1.flags
            /\ ~("DATALEN_SET" \notin h2.flags \/ ~Received(h2))
  <2>1. PICK h3 : h3 = Defragment(h2)
    OBVIOUS
  <2>2. r = [head |-> h3, result |-> IF h3.error THEN "throw" ELSE "complete"]
    BY <1>1, <1>2, <1>3, <1>4, <1>5, <1>6, <1>7, <1>17, <2>1, Zenon DEF fragment_add_work
  <2>3. r.head = h3 /\ r.result # "incomplete"
    BY <2>2
  <2>4. ~Closed(h)
    BY <1>8, <1>17 DEF Prepared
  <2>5. SameItems(h2, h3) /\ "DEFRAGMENTED" \in h3.flags
    BY <1>12, <2>1, GoodShape, DefragmentSame
  <2>6. GoodHead(h3) /\ FramesOf(h3) = FramesOf(h2) /\ h3.frame = fd.frame
    BY <1>12, <2>5, SameItemsHead DEF SameItems
  <2>7. "PARTIAL_REASSEMBLY" \in h3.flags => "PARTIAL_REASSEMBLY" \in h.flags
    BY <1>8, <1>12, <2>5 DEF Prepared, SameItems
  <2>8. h3.frame <= fd.frame
    BY <1>13, <2>6
  <2> QED  BY <1>1, <1>12, <2>3, <2>4, <2>5, <2>6, <2>7, <2>8 DEF Worked
<1> QED  BY <1>14, <1>15, <1>16, <1>17

\* The counter of BlocksInOrder over the first n fragments.
Counts(items, n, f) ==
    f = [i \in 0 .. n |-> IF i = 0 THEN 0
                          ELSE IF items[i].offset = f[i - 1] THEN f[i - 1] + 1 ELSE f[i - 1]]

\* The recursive function of BlocksInOrder is defined.
LEMMA CountsExist ==
    ASSUME NEW items
    PROVE  \A n \in Nat : \E f : Counts(items, n, f)
<1> DEFINE S == {n \in Nat : \E f : Counts(items, n, f)}
<1>1. 0 \in S
  <2>1. Counts(items, 0, [i \in 0 .. 0 |-> 0])
    BY DEF Counts
  <2> QED  BY <2>1
<1>2. ASSUME NEW n \in Nat, n \in S PROVE n + 1 \in S
  <2>1. PICK f : Counts(items, n, f)
    BY <1>2
  <2> DEFINE g == [i \in 0 .. n + 1 |->
                     IF i = n + 1 THEN IF items[n + 1].offset = f[n] THEN f[n] + 1 ELSE f[n]
                     ELSE f[i]]
  <2>2. Counts(items, n + 1, g)
    BY <2>1 DEF Counts
  <2> QED  BY <2>2
<1> HIDE DEF S
<1>3. Nat \subseteq S
  BY <1>1, <1>2, SetInduction
<1> QED  BY <1>3 DEF S

\* In a sorted list the counter ends at a number that no block has.
LEMMA CountMissing ==
    ASSUME NEW items, IsList(items), InOrder(items)
    PROVE  /\ BlocksInOrder(items) \in Nat
           /\ \A j \in 1 .. Len(items) : items[j].offset # BlocksInOrder(items)
<1>1. PICK n \in Nat : n = Len(items)
  BY DEF IsList
<1>2. PICK f : /\ f = [i \in 0 .. Len(items) |-> IF i = 0 THEN 0
                         ELSE IF items[i].offset = f[i - 1] THEN f[i - 1] + 1 ELSE f[i - 1]]
               /\ BlocksInOrder(items) = f[Len(items)]
  <2>1. \E f : f = [i \in 0 .. Len(items) |-> IF i = 0 THEN 0
                      ELSE IF items[i].offset = f[i - 1] THEN f[i - 1] + 1 ELSE f[i - 1]]
    <3>1. PICK g : Counts(items, n, g)
      BY CountsExist
    <3>2. Counts(items, Len(items), g)
      BY <1>1, <3>1
    <3> QED  BY <3>2 DEF Counts
  <2> QED  BY <2>1 DEF BlocksInOrder
<1>3. f[0] = 0 /\ \A i \in 1 .. n : f[i] = IF items[i].offset = f[i - 1] THEN f[i - 1] + 1 ELSE f[i - 1]
  BY <1>1, <1>2
<1>4. \A j \in 1 .. n : items[j].offset \in Nat
  BY <1>1, EndsAreNumbers
<1> DEFINE S == {i \in Nat : i <= n => f[i] \in Nat /\ \A j \in 1 .. i : items[j].offset # f[i]}
<1>5. 0 \in S
  BY <1>3
<1>6. ASSUME NEW i \in Nat, i \in S PROVE i + 1 \in S
  <2> SUFFICES ASSUME i + 1 <= n
               PROVE  f[i + 1] \in Nat /\ \A j \in 1 .. i + 1 : items[j].offset # f[i + 1]
    OBVIOUS
  <2>1. f[i] \in Nat /\ \A j \in 1 .. i : items[j].offset # f[i]
    BY <1>6
  <2>2. i + 1 \in 1 .. n /\ (i + 1) - 1 = i
    OBVIOUS
  <2>3. f[i + 1] = IF items[i + 1].offset = f[i] THEN f[i] + 1 ELSE f[i]
    BY <1>3, <2>2
  <2>4. CASE items[i + 1].offset = f[i]
    <3>1. f[i + 1] = f[i] + 1 /\ f[i + 1] \in Nat
      BY <2>1, <2>3, <2>4
    <3>2. ASSUME NEW j \in 1 .. i + 1 PROVE items[j].offset # f[i + 1]
      <4>1. j \in 1 .. n /\ j <= i + 1
        BY <2>2
      <4>2. items[j].offset <= items[i + 1].offset
        BY <1>1, <2>2, <4>1 DEF InOrder
      <4>3. items[j].offset \in Nat
        BY <1>4, <4>1
      <4> QED  BY <2>1, <2>4, <3>1, <4>2, <4>3
    <3> QED  BY <3>1, <3>2
  <2>5. CASE items[i + 1].offset # f[i]
    <3>1. f[i + 1] = f[i]
      BY <2>3, <2>5
    <3>2. \A j \in 1 .. i + 1 : j \in 1 .. i \/ j = i + 1
      OBVIOUS
    <3> QED  BY <2>1, <2>5, <3>1, <3>2
  <2> QED  BY <2>4, <2>5
<1> HIDE DEF S
<1>7. Nat \subseteq S
  BY <1>5, <1>6, SetInduction
<1>8. n \in S
  BY <1>7
<1> QED  BY <1>1, <1>2, <1>8 DEF S

\* LinkOverlap
LEMMA LinkOverlapGood ==
    ASSUME NEW h, GoodHead(h), NEW fd, NewItem(h, fd), NEW short, h.frame = fd.frame
    PROVE  /\ GoodHead(LinkOverlap(h, fd, short).head)
           /\ FramesOf(LinkOverlap(h, fd, short).head) \subseteq FramesOf(h) \cup {fd.frame}
           /\ LinkOverlap(h, fd, short).head.frame = fd.frame
           /\ h.flags \subseteq LinkOverlap(h, fd, short).head.flags
           /\ "PARTIAL_REASSEMBLY" \in LinkOverlap(h, fd, short).head.flags => "PARTIAL_REASSEMBLY" \in h.flags
           /\ LinkOverlap(h, fd, short).result # "incomplete"
<1>1. PICK r : r = LinkOverlap(h, fd, short)
  OBVIOUS
<1>2. PICK y : y = [fd EXCEPT !.has_data = FALSE]
  OBVIOUS
<1>3. \/ r = [head |-> [h EXCEPT !.flags = @ \cup {"OVERLAP"}], result |-> "throw"]
      \/ \E flags : /\ r = [head |-> LinkedAs(h, y, flags), result |-> "complete"]
                    /\ "PARTIAL_REASSEMBLY" \notin flags
  <2> DEFINE same == {i \in DOMAIN h.items : h.items[i].offset = fd.offset}
             i    == CHOOSE k \in same : \A j \in same : k <= j
             at   == BytesBefore(h.items, i)
             past == fd.offset > h.datalen
             compared == ~past /\ same # {} /\ h.items[i].len = fd.len
             differs  == IF compared THEN \E k \in 0 .. fd.len - 1 : h.data[at + k + 1] # Byte(fd, k)
                         ELSE ~past /\ same # {}
             flags == {"OVERLAP", "DEFRAGMENTED"} \cup
                      (IF past THEN {"TOOLONGFRAGMENT"} ELSE {}) \cup
                      (IF differs THEN {"OVERLAPCONFLICT"} ELSE {})
             long == compared /\ (Len(h.data) < at + fd.len \/ short)
  <2>1. r = IF long THEN [head |-> [h EXCEPT !.flags = @ \cup {"OVERLAP"}], result |-> "throw"]
            ELSE [head |-> LinkedAs(h, y, flags), result |-> "complete"]
    BY <1>1, <1>2 DEF LinkOverlap
  <2>2. "PARTIAL_REASSEMBLY" \notin flags
    <3> HIDE DEF past, differs
    <3> QED  OBVIOUS
  <2> HIDE DEF flags, long
  <2> QED  BY <2>1, <2>2
<1>4. CASE r = [head |-> [h EXCEPT !.flags = @ \cup {"OVERLAP"}], result |-> "throw"]
  <2>1. PICK x : x = [h EXCEPT !.flags = @ \cup {"OVERLAP"}]
    OBVIOUS
  <2>2. r.head = x /\ r.result = "throw"
    BY <1>4, <2>1
  <2>3. /\ IsHead(x) /\ x.items = h.items /\ x.exists = h.exists /\ x.frame = h.frame
        /\ x.first_gap = h.first_gap /\ x.contiguous_len = h.contiguous_len
        /\ x.datalen = h.datalen /\ x.flags = h.flags \cup {"OVERLAP"}
    BY <2>1, GoodShape DEF IsHead
  <2>4. SameItems(h, x)
    BY <2>3, GoodShape, RestChanged
  <2>5. GoodHead(x) /\ FramesOf(x) = FramesOf(h)
    BY <2>4, SameItemsHead
  <2> QED  BY <1>1, <2>2, <2>3, <2>5
<1>5. ASSUME NEW flags, r = [head |-> LinkedAs(h, y, flags), result |-> "complete"],
             "PARTIAL_REASSEMBLY" \notin flags
      PROVE  /\ GoodHead(r.head) /\ FramesOf(r.head) \subseteq FramesOf(h) \cup {fd.frame}
             /\ r.head.frame = fd.frame /\ h.flags \subseteq r.head.flags
             /\ "PARTIAL_REASSEMBLY" \in r.head.flags => "PARTIAL_REASSEMBLY" \in h.flags
             /\ r.result # "incomplete"
  <2>1. PICK x : x = LinkedAs(h, y, flags)
    OBVIOUS
  <2>2. r.head = x /\ r.result = "complete"
    BY <1>5, <2>1
  <2>3. NewItem(h, y) /\ y.frame = fd.frame
    BY <1>2, NewItemMarked
  <2>4. /\ GoodHead(x) /\ FramesOf(x) \subseteq FramesOf(h) \cup {y.frame} /\ x.frame = y.frame
        /\ h.flags \subseteq x.flags
        /\ "PARTIAL_REASSEMBLY" \in x.flags => "PARTIAL_REASSEMBLY" \in h.flags
    BY <1>5, <2>1, <2>3, LinkedAsGood
  <2> QED  BY <2>2, <2>3, <2>4
<1> QED  BY <1>1, <1>3, <1>4, <1>5

\* fragment_add_seq_work
LEMMA AddSeqWorks ==
    ASSUME NEW h, GoodHead(h), NEW fd, Later(h, fd), NEW more_frags, NEW short \in BOOLEAN, calls.block
    PROVE  Worked(h, fd, fragment_add_seq_work(h, fd, more_frags, short))
<1>1. PICK r : r = fragment_add_seq_work(h, fd, more_frags, short)
  OBVIOUS
<1>2. PICK h1 : h1 = WithFrame(IF Extends(h, fd) THEN fragment_reset_defragmentation(h) ELSE h, fd)
  OBVIOUS
<1>3. PICK tail : tail = WithTail(h1, fd, more_frags)
  OBVIOUS
<1>4. PICK th : th = tail.head
  OBVIOUS
<1>5. PICK max : max = BlocksInOrder(LINK_FRAG(th, fd).items)
  OBVIOUS
<1>6. PICK long : long = IF max > th.datalen + 1 THEN {"TOOLONGFRAGMENT"} ELSE {}
  OBVIOUS
<1>7. PICK item : item = [fd EXCEPT !.flags = tail.flags, !.has_data = fd.len > 0]
  OBVIOUS
<1>8. Prepared(h, fd, h1, th)
  BY <1>2, <1>3, <1>4, Preparing
<1>9. GoodHead(th) /\ NewItem(th, fd) /\ th.frame = fd.frame /\ FramesOf(th) = FramesOf(h)
  BY <1>8 DEF Prepared
<1>10. NewItem(th, item) /\ item.frame = fd.frame /\ item.offset = fd.offset
  <2>1. PICK v, b : v = tail.flags /\ b = (fd.len > 0)
    OBVIOUS
  <2>2. PICK x : x = [fd EXCEPT !.flags = v]
    OBVIOUS
  <2>3. NewItem(th, fd)
    BY <1>9
  <2>4. NewItem(th, x) /\ x.frame = fd.frame /\ x.offset = fd.offset
    BY <2>2, <2>3, NewItemMarked
  <2>5. item = [x EXCEPT !.has_data = b]
    BY <1>7, <2>1, <2>2
  <2>6. NewItem(th, item) /\ item.frame = x.frame /\ item.offset = x.offset
    BY <2>4, <2>5, NewItemMarked
  <2> QED  BY <2>4, <2>6
<1>11. fd.frame \in Nat /\ h.frame < fd.frame /\ h.frame \in Nat
  BY DEF Later, GoodHead
<1>12. CASE "DEFRAGMENTED" \in h1.flags
  <2>1. r = LinkOverlap(th, item, short)
    BY <1>1, <1>2, <1>3, <1>4, <1>7, <1>12, Zenon DEF fragment_add_seq_work
  <2>2. PICK x : x = r.head
    OBVIOUS
  <2>3. /\ GoodHead(x) /\ FramesOf(x) \subseteq FramesOf(th) \cup {item.frame} /\ x.frame = item.frame
        /\ th.flags \subseteq x.flags
        /\ "PARTIAL_REASSEMBLY" \in x.flags => "PARTIAL_REASSEMBLY" \in th.flags
        /\ r.result # "incomplete"
    BY <1>9, <1>10, <2>1, <2>2, LinkOverlapGood
  <2>4. FramesOf(x) \subseteq FramesOf(h) \cup {fd.frame} /\ x.frame <= fd.frame
    BY <1>9, <1>10, <1>11, <2>3
  <2>5. "DEFRAGMENTED" \in x.flags /\ ("PARTIAL_REASSEMBLY" \in x.flags => "PARTIAL_REASSEMBLY" \in h.flags)
    BY <1>8, <1>12, <2>3 DEF Prepared
  <2> QED  BY <1>1, <2>2, <2>3, <2>4, <2>5 DEF Worked, Closed
<1>13. CASE "DEFRAGMENTED" \notin h1.flags /\ ~short /\ ("DATALEN_SET" \notin th.flags \/ max <= th.datalen)
  <2>1. PICK x : x = LINK_FRAG(th, item)
    OBVIOUS
  <2>2. r = [head |-> x, result |-> "incomplete"]
    BY <1>1, <1>2, <1>3, <1>4, <1>5, <1>7, <1>13, <2>1, Zenon DEF fragment_add_seq_work
  <2>3. r.head = x /\ r.result = "incomplete"
    BY <2>2
  <2>4. Added(th, item, x) /\ SameRest(th, x)
    BY <1>9, <1>10, <2>1, LinkGood
  <2>5. /\ GoodHead(x) /\ FramesOf(x) \subseteq FramesOf(h) \cup {fd.frame} /\ x.frame = fd.frame
        /\ x.flags = th.flags /\ x.datalen = th.datalen /\ th.datalen \in Nat
    BY <1>9, <1>10, <2>4 DEF Added, SameRest, GoodHead
  <2>6. ~Closed(h)
    BY <1>8, <1>13 DEF Prepared
  <2>7. "PARTIAL_REASSEMBLY" \in x.flags => "PARTIAL_REASSEMBLY" \in h.flags
    BY <1>8, <2>5 DEF Prepared
  <2>8. ASSUME "DATALEN_SET" \in x.flags PROVE Misses(x)
    <3>1. PICK y, t : y = LINK_FRAG(th, fd) /\ t = y.items
      OBVIOUS
    <3>2. Added(th, fd, y)
      BY <1>9, <3>1, LinkGood
    <3>3. IsList(t) /\ InOrder(t)
      BY <3>1, <3>2 DEF Added, GoodHead, GoodCache, GoodList
    <3>4. max \in Nat /\ \A j \in 1 .. Len(t) : t[j].offset # max
      BY <1>5, <3>1, <3>3, CountMissing
    <3>5. max \in 0 .. x.datalen
      BY <1>13, <2>5, <2>8, <3>4
    <3>6. OneMore(th.items, fd, t) /\ OneMore(th.items, item, x.items)
      BY <2>4, <3>1, <3>2 DEF Added
    <3>7. ASSUME NEW i \in 1 .. Len(x.items) PROVE x.items[i].offset # max
      <4>1. CASE x.items[i] = item
        <5>1. PICK j \in 1 .. Len(t) : t[j] = fd
          BY <3>6 DEF OneMore
        <5> QED  BY <1>10, <3>4, <4>1, <5>1
      <4>2. ASSUME NEW k \in 1 .. Len(th.items), x.items[i] = th.items[k]
            PROVE  x.items[i].offset # max
        <5>1. PICK j \in 1 .. Len(t) : t[j] = th.items[k]
          BY <3>6 DEF OneMore
        <5> QED  BY <3>4, <4>2, <5>1
      <4> QED  BY <3>6, <4>1, <4>2 DEF OneMore
    <3>8. DOMAIN x.items = 1 .. Len(x.items)
      BY <2>5, GoodShape DEF IsList
    <3> QED  BY <3>5, <3>7, <3>8 DEF Misses
  <2>9. x.frame <= fd.frame
    BY <1>11, <2>5
  <2> QED  BY <1>1, <2>3, <2>5, <2>6, <2>7, <2>8, <2>9 DEF Worked
<1>14. CASE "DEFRAGMENTED" \notin h1.flags /\ ~short /\ ~("DATALEN_SET" \notin th.flags \/ max <= th.datalen)
  <2>1. PICK x : x = LinkedAs(th, item, long)
    OBVIOUS
  <2>2. PICK y : y = fragment_defragment_and_free(x)
    OBVIOUS
  <2>3. r = [head |-> y, result |-> "complete"]
    BY <1>1, <1>2, <1>3, <1>4, <1>5, <1>6, <1>7, <1>14, <2>1, <2>2, Zenon DEF fragment_add_seq_work
  <2>4. r.head = y /\ r.result = "complete"
    BY <2>3
  <2>5. "PARTIAL_REASSEMBLY" \notin long
    BY <1>6
  <2>6. /\ GoodHead(x) /\ FramesOf(x) \subseteq FramesOf(th) \cup {item.frame} /\ x.frame = item.frame
        /\ "PARTIAL_REASSEMBLY" \in x.flags => "PARTIAL_REASSEMBLY" \in th.flags
    BY <1>9, <1>10, <2>1, <2>5, LinkedAsGood
  <2>7. SameItems(x, y) /\ "DEFRAGMENTED" \in y.flags
    BY <2>2, <2>6, GoodShape, DefragmentBlocksSame
  <2>8. GoodHead(y) /\ FramesOf(y) = FramesOf(x) /\ y.frame = fd.frame
    BY <1>10, <2>6, <2>7, SameItemsHead DEF SameItems
  <2>9. FramesOf(y) \subseteq FramesOf(h) \cup {fd.frame} /\ y.frame <= fd.frame
    BY <1>9, <1>10, <1>11, <2>6, <2>8
  <2>10. "PARTIAL_REASSEMBLY" \in y.flags => "PARTIAL_REASSEMBLY" \in h.flags
    BY <1>8, <2>6, <2>7 DEF Prepared, SameItems
  <2>11. ~Closed(h)
    BY <1>8, <1>14 DEF Prepared
  <2> QED  BY <1>1, <2>4, <2>7, <2>8, <2>9, <2>10, <2>11 DEF Worked
<1>15. CASE "DEFRAGMENTED" \notin h1.flags /\ short
  <2>1. r = [head |-> th, result |-> "short"]
    BY <1>1, <1>2, <1>3, <1>4, <1>15, Zenon DEF fragment_add_seq_work
  <2>2. r.head = th /\ r.result = "short"
    BY <2>1
  <2>3. ~Closed(h) /\ ("PARTIAL_REASSEMBLY" \in th.flags => "PARTIAL_REASSEMBLY" \in h.flags)
    BY <1>8, <1>15 DEF Prepared
  <2>4. th.frame <= fd.frame
    BY <1>9, <1>11
  <2> QED  BY <1>1, <1>9, <2>2, <2>3, <2>4 DEF Worked
<1> QED  BY <1>12, <1>13, <1>14, <1>15

-----------------------------------------------------------------------------
(***************************************************************************)
(* The inductive invariant, and the kinds of steps that keep it.            *)
(***************************************************************************)

\* The head that fragments are added to.
HeadInv ==
    \/ fd_head = NoHead
    \/ GoodHead(fd_head) /\ fd_head.frame <= frame

\* The PDUs that are put together and moved.
FinishedInv ==
    /\ Len(finished) \in Nat
    /\ finished = [k \in 1 .. Len(finished) |-> finished[k]]
    /\ \A k \in 1 .. Len(finished) :
          GoodHead(finished[k]) /\ Closed(finished[k]) /\ finished[k].frame <= frame

\* Each frame of a PDU leads to it, and no frame is in two.
TableInv ==
    /\ reassembled = [f \in 1 .. calls.limit |-> reassembled[f]]
    /\ \A k \in 1 .. Len(finished) : \A f \in FramesOf(finished[k]) :
          reassembled[f] = k /\ f \notin FramesOf(fd_head)

\* A PDU that is moved when it is complete is never extended.
MovedInv == calls.check /\ fd_head # NoHead => "PARTIAL_REASSEMBLY" \notin fd_head.flags

\* The last call left something missing, if it says so.
WaitingInv ==
    ret = "incomplete" => fd_head # NoHead /\ ("DATALEN_SET" \in fd_head.flags => Misses(fd_head))

ReasInv ==
    /\ calls \in Calls /\ frame \in Nat /\ frame <= calls.limit
    /\ HeadInv /\ FinishedInv /\ TableInv /\ MovedInv /\ WaitingInv

\* What is assumed of the calls.
LEMMA CallsFacts ==
    ASSUME calls \in Calls
    PROVE  /\ calls.limit \in Nat /\ calls.lens \subseteq Nat
           /\ calls.check => "partial" \notin calls.ops
           /\ "end" \in calls.ops => calls.check
<1>1. /\ calls \in CallsType
      /\ calls.check => calls.ops \subseteq {"set_tot_len", "start", "end"}
      /\ calls.ops \cap {"start", "end"} # {} => calls.check /\ calls.block
  BY CallsAssumption
<1>2. calls.limit \in Nat /\ calls.lens \in SUBSET Nat
  BY <1>1 DEF CallsType
<1> QED  BY <1>1, <1>2

\* The frames of a PDU are no later than the head says.
LEMMA FramesBounded ==
    ASSUME NEW h, GoodHead(h), NEW f \in FramesOf(h)
    PROVE  f \in Nat \ {0} /\ f <= h.frame
<1>1. DOMAIN h.items = 1 .. Len(h.items)
  BY GoodShape DEF IsList
<1>2. PICK i \in 1 .. Len(h.items) : f = h.items[i].frame
  BY <1>1 DEF FramesOf
<1>3. h.items[i].frame = h.items[i].uid /\ h.items[i].frame <= h.frame
  BY DEF GoodHead
<1>4. h.items[i].uid \in Nat \ {0}
  BY GoodShape, EndsAreNumbers
<1> QED  BY <1>2, <1>3, <1>4

\* A head without fragments.
EmptyHead(h) ==
    /\ IsHead(h) /\ h.exists = TRUE /\ h.items = << >> /\ h.contiguous_len = 0
    /\ h.first_gap = NULL /\ h.frame = 0 /\ h.datalen \in Nat

\* Such a head is as it should be.
LEMMA EmptyHeadGood ==
    ASSUME NEW h, EmptyHead(h)
    PROVE  GoodHead(h) /\ FramesOf(h) = {} /\ h.frame = 0
<1>1. PICK q : q = h.items
  OBVIOUS
<1>2. q = << >> /\ Len(q) = 0 /\ DOMAIN q = {} /\ Len(q) \in Nat
  BY <1>1 DEF EmptyHead
<1>3. q = [i \in 1 .. Len(q) |-> q[i]]
  BY <1>2
<1>4. \A i \in 1 .. Len(q) : FALSE
  BY <1>2
<1>5. IsList(q)
  BY <1>2, <1>3, <1>4 DEF IsList
<1>6. Distinct(q) /\ InOrder(q)
  BY <1>4 DEF Distinct, InOrder
<1>7. Exact(q, 0, NULL)
  BY <1>4 DEF Exact, CoveredUpTo
<1>8. GoodCache(h)
  BY <1>1, <1>5, <1>6, <1>7 DEF GoodCache, GoodList, EmptyHead
<1>9. GoodHead(h)
  BY <1>1, <1>4, <1>8 DEF GoodHead, EmptyHead
<1>10. FramesOf(h) = {}
  BY <1>1, <1>2 DEF FramesOf
<1> QED  BY <1>9, <1>10 DEF EmptyHead

\* NoHead is not a head.
LEMMA NoHeadFacts ==
    /\ NoHead.exists = FALSE /\ FramesOf(NoHead) = {}
    /\ \A h : GoodHead(h) => h # NoHead
<1>1. NoHead.exists = FALSE /\ NoHead.items = << >>
  BY DEF NoHead
<1>2. DOMAIN NoHead.items = {}
  BY <1>1
<1>3. FramesOf(NoHead) = {}
  BY <1>2 DEF FramesOf
<1> QED  BY <1>1, <1>3 DEF GoodHead

\* fd_head.exists tells whether there is a head.
LEMMA ExistsFacts ==
    ASSUME HeadInv
    PROVE  fd_head.exists => GoodHead(fd_head) /\ fd_head # NoHead
<1> QED  BY NoHeadFacts DEF HeadInv

\* A step that changes at most the head.
LEMMA HeadStep ==
    ASSUME ReasInv, UNCHANGED <<calls, frame, reassembled, finished>>, ret' # "incomplete",
           \/ fd_head' = NoHead
           \/ /\ GoodHead(fd_head') /\ FramesOf(fd_head') \subseteq FramesOf(fd_head)
              /\ fd_head'.frame <= frame
              /\ calls.check => "PARTIAL_REASSEMBLY" \notin fd_head'.flags
    PROVE  ReasInv'
<1>1. FramesOf(fd_head') \subseteq FramesOf(fd_head)
  BY NoHeadFacts
<1>2. HeadInv'
  BY DEF HeadInv, NoHead
<1>3. FinishedInv'
  BY DEF FinishedInv, ReasInv
<1>4. TableInv'
  BY <1>1 DEF TableInv, ReasInv
<1>5. MovedInv'
  BY DEF MovedInv
<1>6. WaitingInv'
  BY DEF WaitingInv
<1> QED  BY <1>2, <1>3, <1>4, <1>5, <1>6 DEF ReasInv

\* A fragment was added to the head.
LEMMA KeepStep ==
    ASSUME ReasInv, Visit, UNCHANGED <<calls, reassembled, finished>>,
           NEW h, FramesOf(h) = FramesOf(fd_head),
           calls.check => "PARTIAL_REASSEMBLY" \notin h.flags,
           NEW fd, fd.frame = Pinfo, NEW r, Worked(h, fd, r),
           fd_head' = r.head, ret' = r.result
    PROVE  ReasInv'
<1>1. /\ frame \in Nat /\ frame' = frame + 1 /\ calls.limit \in Nat
      /\ frame' <= calls.limit /\ frame' \in Nat
  BY CallsFacts DEF ReasInv, Visit, Pinfo
<1>2. fd.frame = frame'
  BY <1>1 DEF Pinfo
<1>3. GoodHead(fd_head') /\ fd_head'.frame <= frame'
  BY <1>2 DEF Worked
<1>4. HeadInv'
  BY <1>3 DEF HeadInv
<1>5. \A k \in 1 .. Len(finished) : /\ GoodHead(finished[k]) /\ Closed(finished[k])
                                    /\ finished[k].frame <= frame /\ finished[k].frame \in Nat
  BY DEF ReasInv, FinishedInv, GoodHead
<1>6. FinishedInv'
  <2>1. \A k \in 1 .. Len(finished) : finished[k].frame <= frame'
    BY <1>1, <1>5
  <2> QED  BY <1>5, <2>1 DEF ReasInv, FinishedInv
<1>7. TableInv'
  <2>1. FramesOf(fd_head') \subseteq FramesOf(fd_head) \cup {frame'}
    BY <1>2 DEF Worked
  <2>2. ASSUME NEW k \in 1 .. Len(finished), NEW f \in FramesOf(finished[k])
        PROVE  f # frame'
    <3>1. f \in Nat /\ f <= finished[k].frame
      BY <1>5, FramesBounded
    <3> QED  BY <1>1, <1>5, <3>1
  <2>3. \A k \in 1 .. Len(finished) : \A f \in FramesOf(finished[k]) :
           reassembled[f] = k /\ f \notin FramesOf(fd_head')
    BY <2>1, <2>2 DEF ReasInv, TableInv
  <2> QED  BY <2>3 DEF ReasInv, TableInv
<1>8. MovedInv'
  BY DEF MovedInv, Worked
<1>9. WaitingInv'
  <2> SUFFICES ASSUME r.result = "incomplete"
               PROVE  fd_head' # NoHead /\ ("DATALEN_SET" \in fd_head'.flags => Misses(fd_head)')
    BY DEF WaitingInv
  <2>1. fd_head' # NoHead
    BY <1>3, NoHeadFacts
  <2>2. "DATALEN_SET" \in fd_head'.flags => Misses(fd_head')
    BY DEF Worked
  <2> QED  BY <2>1, <2>2 DEF Misses
<1> QED  BY <1>1, <1>4, <1>6, <1>7, <1>8, <1>9 DEF ReasInv

\* A PDU was put together and moved.
LEMMA MoveStep ==
    ASSUME ReasInv, Visit, UNCHANGED calls, NEW x, GoodHead(x), Closed(x), x.frame <= Pinfo,
           NEW frames, FramesOf(x) \subseteq frames, frames \subseteq FramesOf(fd_head) \cup {Pinfo},
           fragment_reassembled(x, frames), fd_head' = NoHead, ret' # "incomplete"
    PROVE  ReasInv'
<1>1. /\ frame \in Nat /\ frame' = frame + 1 /\ calls.limit \in Nat
      /\ frame' <= calls.limit /\ frame' \in Nat
  BY CallsFacts DEF ReasInv, Visit, Pinfo
<1>2. HeadInv' /\ MovedInv' /\ WaitingInv'
  BY DEF HeadInv, MovedInv, WaitingInv, NoHead
<1>3. PICK n \in Nat : n = Len(finished)
  BY DEF ReasInv, FinishedInv
<1>4. finished = [k \in 1 .. n |-> finished[k]]
  BY <1>3 DEF ReasInv, FinishedInv
<1>5. /\ finished' = [k \in 1 .. n + 1 |-> finished'[k]] /\ Len(finished') = n + 1
      /\ finished'[n + 1] = x
      /\ \A k \in 1 .. n : finished'[k] = finished[k]
  <2>1. PICK V : V = {finished[k] : k \in 1 .. n} \cup {x}
    OBVIOUS
  <2>2. finished \in Seq(V) /\ x \in V
    <3>1. finished \in Seq({finished[k] : k \in 1 .. n})
      BY <1>4, FunctionIsSeq
    <3> QED  BY <2>1, <3>1
  <2>3. finished' = Append(finished, x)
    BY DEF fragment_reassembled
  <2>4. PICK t : t = finished'
    OBVIOUS
  <2>5. /\ t \in Seq(V) /\ Len(t) = n + 1 /\ t[n + 1] = x
        /\ \A k \in 1 .. n : t[k] = finished[k]
    BY <1>3, <2>2, <2>3, <2>4
  <2>6. t = [k \in 1 .. n + 1 |-> t[k]]
    BY <2>5
  <2> QED  BY <2>4, <2>5, <2>6
<1>6. \A k \in 1 .. n : /\ GoodHead(finished[k]) /\ Closed(finished[k])
                        /\ finished[k].frame <= frame /\ finished[k].frame \in Nat
  BY <1>3 DEF ReasInv, FinishedInv, GoodHead
<1>7. \A k \in 1 .. n + 1 : k \in 1 .. n \/ k = n + 1
  OBVIOUS
<1>8. FinishedInv'
  <2>1. x.frame <= frame'
    BY <1>1 DEF Pinfo
  <2>2. \A k \in 1 .. n : finished[k].frame <= frame'
    BY <1>1, <1>6
  <2>3. \A k \in 1 .. n + 1 :
           GoodHead(finished'[k]) /\ Closed(finished'[k]) /\ finished'[k].frame <= frame'
    BY <1>5, <1>6, <1>7, <2>1, <2>2
  <2> QED  BY <1>5, <2>3 DEF FinishedInv
<1>9. \A f \in 1 .. calls.limit : reassembled'[f] = IF f \in frames THEN n + 1 ELSE reassembled[f]
  <2>1. DOMAIN reassembled = 1 .. calls.limit
    BY DEF ReasInv, TableInv
  <2> QED  BY <1>3, <2>1 DEF fragment_reassembled
<1>10. reassembled' = [f \in 1 .. calls.limit |-> reassembled'[f]]
  <2>1. DOMAIN reassembled = 1 .. calls.limit
    BY DEF ReasInv, TableInv
  <2> QED  BY <2>1 DEF fragment_reassembled
<1>11. ASSUME NEW k \in 1 .. n, NEW f \in FramesOf(finished[k]) PROVE reassembled'[f] = k
  <2>1. f \in Nat \ {0} /\ f <= finished[k].frame
    BY <1>6, FramesBounded
  <2>2. f \in 1 .. calls.limit /\ f # Pinfo
    BY <1>1, <1>6, <2>1 DEF Pinfo
  <2>3. f \notin FramesOf(fd_head) /\ reassembled[f] = k
    BY <1>3 DEF ReasInv, TableInv
  <2>4. f \notin frames
    BY <2>2, <2>3
  <2> QED  BY <1>9, <2>2, <2>3, <2>4
<1>12. ASSUME NEW f \in FramesOf(x) PROVE reassembled'[f] = n + 1
  <2>1. f \in Nat \ {0} /\ f <= x.frame
    BY FramesBounded
  <2>2. x.frame \in Nat /\ x.frame <= frame'
    BY <1>1 DEF GoodHead, Pinfo
  <2>3. f \in 1 .. calls.limit
    BY <1>1, <2>1, <2>2
  <2> QED  BY <1>9, <2>3
<1>13. TableInv'
  <2>1. ASSUME NEW k \in 1 .. n + 1, NEW f \in FramesOf(finished'[k])
        PROVE  reassembled'[f] = k /\ f \notin FramesOf(fd_head')
    <3>1. f \notin FramesOf(fd_head')
      BY NoHeadFacts
    <3>2. CASE k \in 1 .. n
      BY <1>5, <1>11, <3>1, <3>2
    <3>3. CASE k = n + 1
      BY <1>5, <1>12, <3>1, <3>3
    <3> QED  BY <1>7, <3>2, <3>3
  <2> QED  BY <1>5, <1>10, <2>1 DEF TableInv, FramesOf
<1> QED  BY <1>1, <1>2, <1>8, <1>13 DEF ReasInv

\* A late fragment was added to a PDU that was moved before.
LEMMA LateStep ==
    ASSUME ReasInv, Visit, UNCHANGED calls, fd_head = NoHead, UNCHANGED fd_head,
           NEW m \in 1 .. Len(finished), NEW fd, fd.frame = Pinfo, NEW r,
           Worked(finished[m], fd, r), finished' = [finished EXCEPT ![m] = r.head],
           reassembled' = [reassembled EXCEPT ![Pinfo] = m], ret' = r.result
    PROVE  ReasInv'
<1>1. /\ frame \in Nat /\ frame' = frame + 1 /\ calls.limit \in Nat
      /\ frame' <= calls.limit /\ frame' \in Nat
  BY CallsFacts DEF ReasInv, Visit, Pinfo
<1>2. PICK n \in Nat : n = Len(finished)
  BY DEF ReasInv, FinishedInv
<1>3. finished = [k \in 1 .. n |-> finished[k]]
  BY <1>2 DEF ReasInv, FinishedInv
<1>4. PICK t : t = finished'
  OBVIOUS
<1>5. t = [k \in 1 .. n |-> t[k]] /\ \A k \in 1 .. n : t[k] = IF k = m THEN r.head ELSE finished[k]
  BY <1>3, <1>4
<1>6. Len(t) = n
  BY <1>5, FunctionIsSeq
<1>7. \A k \in 1 .. n : /\ GoodHead(finished[k]) /\ Closed(finished[k])
                        /\ finished[k].frame <= frame /\ finished[k].frame \in Nat
  BY <1>2 DEF ReasInv, FinishedInv, GoodHead
<1>8. /\ GoodHead(r.head) /\ r.head.frame <= frame' /\ Closed(r.head) /\ r.result # "incomplete"
      /\ FramesOf(r.head) \subseteq FramesOf(finished[m]) \cup {Pinfo}
  BY <1>1, <1>2, <1>7 DEF Worked, Pinfo
<1>9. HeadInv' /\ MovedInv' /\ WaitingInv'
  BY <1>8 DEF HeadInv, MovedInv, WaitingInv, NoHead
<1>10. FinishedInv'
  <2>1. \A k \in 1 .. n : finished[k].frame <= frame'
    BY <1>1, <1>7
  <2>2. \A k \in 1 .. n : GoodHead(t[k]) /\ Closed(t[k]) /\ t[k].frame <= frame'
    BY <1>5, <1>7, <1>8, <2>1
  <2> QED  BY <1>4, <1>5, <1>6, <2>2 DEF FinishedInv
<1>11. /\ reassembled' = [f \in 1 .. calls.limit |-> reassembled'[f]]
       /\ \A f \in 1 .. calls.limit : reassembled'[f] = IF f = Pinfo THEN m ELSE reassembled[f]
  <2>1. reassembled = [f \in 1 .. calls.limit |-> reassembled[f]]
    BY DEF ReasInv, TableInv
  <2> QED  BY <2>1
<1>12. ASSUME NEW k \in 1 .. n, NEW f \in FramesOf(finished[k]) PROVE reassembled'[f] = k
  <2>1. f \in Nat \ {0} /\ f <= finished[k].frame
    BY <1>7, FramesBounded
  <2>2. f \in 1 .. calls.limit /\ f # Pinfo
    BY <1>1, <1>7, <2>1 DEF Pinfo
  <2>3. reassembled[f] = k
    BY <1>2 DEF ReasInv, TableInv
  <2> QED  BY <1>11, <2>2, <2>3
<1>13. reassembled'[Pinfo] = m
  <2>1. Pinfo \in 1 .. calls.limit
    BY <1>1 DEF Pinfo
  <2> QED  BY <1>11, <2>1
<1>14. TableInv'
  <2>1. ASSUME NEW k \in 1 .. n, NEW f \in FramesOf(t[k])
        PROVE  reassembled'[f] = k /\ f \notin FramesOf(fd_head')
    <3>1. f \notin FramesOf(fd_head')
      BY NoHeadFacts
    <3>2. CASE k = m
      <4>1. f \in FramesOf(finished[m]) \/ f = Pinfo
        BY <1>5, <1>8, <3>2
      <4> QED  BY <1>2, <1>12, <1>13, <3>1, <3>2, <4>1
    <3>3. CASE k # m
      BY <1>5, <1>12, <3>1, <3>3
    <3> QED  BY <3>2, <3>3
  <2> QED  BY <1>4, <1>6, <1>11, <2>1 DEF TableInv, FramesOf
<1> QED  BY <1>1, <1>9, <1>10, <1>14 DEF ReasInv

-----------------------------------------------------------------------------
(***************************************************************************)
(* Each call keeps it.                                                      *)
(***************************************************************************)

\* The head a fragment is added to: the one there is, or a new one.
LEMMA OldHead ==
    ASSUME ReasInv, NEW old, old = IF fd_head.exists THEN fd_head ELSE new_head
    PROVE  /\ GoodHead(old) /\ FramesOf(old) = FramesOf(fd_head) /\ old.frame <= frame
           /\ calls.check => "PARTIAL_REASSEMBLY" \notin old.flags
<1>1. frame \in Nat /\ HeadInv /\ MovedInv
  BY DEF ReasInv
<1>2. CASE fd_head.exists
  <2>1. old = fd_head /\ GoodHead(fd_head) /\ fd_head # NoHead
    BY <1>1, <1>2, ExistsFacts
  <2> QED  BY <1>1, <2>1 DEF HeadInv, MovedInv
<1>3. CASE ~fd_head.exists
  <2>1. old = new_head
    BY <1>3
  <2>2. EmptyHead(new_head) /\ new_head.flags = {}
    BY DEF EmptyHead, IsHead, new_head
  <2>3. GoodHead(old) /\ FramesOf(old) = {} /\ old.frame = 0
    BY <2>1, <2>2, EmptyHeadGood
  <2>4. fd_head = NoHead
    BY <1>1, <1>3 DEF HeadInv, GoodHead
  <2> QED  BY <1>1, <2>1, <2>2, <2>3, <2>4, NoHeadFacts
<1> QED  BY <1>2, <1>3

\* What a step of the history variable lost leaves alone.
LEMMA LostSame ==
    ASSUME NEW h, GoodHead(h), NEW x
    PROVE  LET r == [h EXCEPT !.lost = x]
           IN  GoodHead(r) /\ FramesOf(r) = FramesOf(h) /\ r.frame = h.frame /\ r.flags = h.flags
<1>1. PICK r : r = [h EXCEPT !.lost = x]
  OBVIOUS
<1>2. IsHead(h) /\ IsList(h.items)
  BY GoodShape
<1>3. /\ IsHead(r) /\ r.items = h.items /\ r.exists = h.exists /\ r.frame = h.frame
      /\ r.first_gap = h.first_gap /\ r.contiguous_len = h.contiguous_len
      /\ r.datalen = h.datalen /\ r.flags = h.flags
  BY <1>1, <1>2 DEF IsHead
<1>4. SameItems(h, r)
  BY <1>2, <1>3, RestChanged
<1>5. GoodHead(r) /\ FramesOf(r) = FramesOf(h)
  BY <1>4, SameItemsHead
<1> QED  BY <1>1, <1>3, <1>5

\* Where a fragment goes is a number.
LEMMA OffsetIsNumber ==
    ASSUME NEW h, GoodHead(h), NEW given \in Nat
    PROVE  Offset(h, given) \in Nat
<1>1. h.contiguous_len \in Nat
  BY DEF GoodHead, GoodCache, GoodList
<1>2. CASE h.items = << >>
  BY <1>1, <1>2 DEF Offset
<1>3. CASE h.items # << >>
  <2>1. PICK n \in Nat : n = Len(h.items)
    BY GoodShape DEF IsList
  <2>2. n # 0
    <3>1. h.items = [i \in 1 .. n |-> h.items[i]]
      BY <2>1, GoodShape DEF IsList
    <3> QED  BY <1>3, <3>1
  <2>3. h.items[n].offset \in Nat
    BY <2>1, <2>2, GoodShape, EndsAreNumbers
  <2> QED  BY <1>1, <2>1, <2>3 DEF Offset
<1> QED  BY <1>2, <1>3

\* Both ways of placing a fragment.
LEMMA WorkWorks ==
    ASSUME NEW h, GoodHead(h), NEW fd, Later(h, fd), NEW more_frags, NEW short \in BOOLEAN, NEW late
    PROVE  Worked(h, fd, Work(h, fd, more_frags, short, late))
<1>1. CASE calls.block
  <2>1. Work(h, fd, more_frags, short, late) = fragment_add_seq_work(h, fd, more_frags, short)
    BY <1>1 DEF Work
  <2> QED  BY <1>1, <2>1, AddSeqWorks
<1>2. CASE ~calls.block /\ ~short
  <2>1. Work(h, fd, more_frags, short, late) = fragment_add_work(h, fd, more_frags, late)
    BY <1>2 DEF Work
  <2> QED  BY <1>2, <2>1, AddWorks
<1>3. CASE ~calls.block /\ short
  <2>1. PICK r : r = Work(h, fd, more_frags, short, late)
    OBVIOUS
  <2>2. r = [head |-> h, result |-> "short"]
    BY <1>3, <2>1 DEF Work
  <2>3. r.head = h /\ r.result = "short"
    BY <2>2
  <2>4. h.frame <= fd.frame /\ h.frame \in Nat /\ fd.frame \in Nat
    BY DEF Later, GoodHead
  <2> QED  BY <2>1, <2>3, <2>4 DEF Worked
<1> QED  BY <1>1, <1>2, <1>3

\* A frame that no fragment is taken from.
LEMMA NothingAdded ==
    ASSUME ReasInv, Visit, UNCHANGED <<calls, reassembled, finished, fd_head>>, ret' # "incomplete"
    PROVE  ReasInv'
<1>1. /\ frame \in Nat /\ frame' = frame + 1 /\ calls.limit \in Nat
      /\ frame' <= calls.limit /\ frame' \in Nat
  BY CallsFacts DEF ReasInv, Visit, Pinfo
<1>2. HeadInv'
  <2>1. CASE fd_head = NoHead
    BY <2>1 DEF HeadInv
  <2>2. CASE GoodHead(fd_head) /\ fd_head.frame <= frame
    <3>1. fd_head.frame \in Nat
      BY <2>2 DEF GoodHead
    <3> QED  BY <1>1, <2>2, <3>1 DEF HeadInv
  <2> QED  BY <2>1, <2>2 DEF ReasInv, HeadInv
<1>3. FinishedInv'
  <2>1. ASSUME NEW k \in 1 .. Len(finished) PROVE finished[k].frame <= frame'
    <3>1. GoodHead(finished[k]) /\ finished[k].frame <= frame
      BY DEF ReasInv, FinishedInv
    <3>2. finished[k].frame \in Nat
      BY <3>1 DEF GoodHead
    <3> QED  BY <1>1, <3>1, <3>2
  <2> QED  BY <2>1 DEF ReasInv, FinishedInv
<1>4. TableInv' /\ MovedInv' /\ WaitingInv'
  BY DEF ReasInv, TableInv, MovedInv, WaitingInv
<1> QED  BY <1>1, <1>2, <1>3, <1>4 DEF ReasInv

\* A fragment of this frame comes after all those of a head.
LEMMA FragmentLater ==
    ASSUME frame \in Nat, NEW offset \in Nat, NEW len \in Nat, NEW variant,
           NEW h, h.frame \in Nat, h.frame <= frame
    PROVE  Later(h, new_fragment_item(offset, len, variant))
<1>1. PICK fd : fd = new_fragment_item(offset, len, variant)
  OBVIOUS
<1>2. /\ fd = [uid |-> fd.uid, frame |-> fd.frame, offset |-> fd.offset, len |-> fd.len,
               variant |-> fd.variant, flags |-> fd.flags, has_data |-> fd.has_data]
      /\ fd.uid = frame + 1 /\ fd.frame = frame + 1 /\ fd.offset = offset /\ fd.len = len
  BY <1>1 DEF new_fragment_item, Pinfo
<1>3. frame + 1 \in Nat \ {0} /\ h.frame < frame + 1
  OBVIOUS
<1> QED  BY <1>1, <1>2, <1>3 DEF Later, IsItem

\* fragment_add_check and fragment_add_seq_check
LEMMA AddAndMoveStep ==
    ASSUME ReasInv, Visit, UNCHANGED calls, calls.check, NEW h, GoodHead(h),
           FramesOf(h) = FramesOf(fd_head), "PARTIAL_REASSEMBLY" \notin h.flags,
           NEW fd, Later(h, fd), fd.frame = Pinfo, NEW more_frags,
           NEW short \in BOOLEAN, AddAndMove(h, fd, more_frags, short)
    PROVE  ReasInv'
<1>1. PICK r : r = Work(h, fd, more_frags, short, FALSE)
  OBVIOUS
<1>2. Worked(h, fd, r)
  BY <1>1, WorkWorks
<1>3. CASE r.result = "complete"
  <2>1. fragment_reassembled(r.head, FramesOf(r.head)) /\ fd_head' = NoHead /\ ret' = r.result
    BY <1>1, <1>3 DEF AddAndMove
  <2>2. GoodHead(r.head) /\ Closed(r.head) /\ r.head.frame <= Pinfo
    BY <1>2, <1>3 DEF Worked, Closed
  <2>3. FramesOf(r.head) \subseteq FramesOf(fd_head) \cup {Pinfo}
    BY <1>2 DEF Worked
  <2>4. ret' # "incomplete"
    BY <1>3, <2>1
  <2> QED  BY <2>1, <2>2, <2>3, <2>4, MoveStep
<1>4. CASE r.result # "complete"
  <2>1. fd_head' = r.head /\ UNCHANGED <<reassembled, finished>> /\ ret' = r.result
    BY <1>1, <1>4 DEF AddAndMove
  <2> QED  BY <1>2, <2>1, KeepStep
<1> QED  BY <1>3, <1>4

\* Adding a fragment, by any of the functions.
LEMMA AddFragmentStep ==
    ASSUME ReasInv, AddFragment
    PROVE  ReasInv'
<1>1. PICK given \in 0 .. PduBound, len \in calls.lens, variant \in calls.variants,
           more_frags \in BOOLEAN, short \in BOOLEAN, fallback \in 0 .. Len(finished) :
       LET old  == IF fd_head.exists THEN fd_head ELSE new_head
           fd   == new_fragment_item(Offset(old, given), len, variant)
           head == [old EXCEPT !.lost = IF Extends(old, fd) THEN Lost(old) ELSE @]
       IN  /\ Visit
           /\ IF ~calls.check THEN fallback = 0 /\ AddAndKeep(head, fd, more_frags, short)
              ELSE IF fd_head.exists THEN fallback = 0 /\ AddAndMove(head, fd, more_frags, short)
              ELSE IF fallback # 0 THEN calls.fallback /\ AddLate(fallback, fd, more_frags, short)
              ELSE IF calls.next /\ ~more_frags THEN AddOnly(len)
              ELSE AddAndMove(head, fd, more_frags, short)
  BY DEF AddFragment
<1>2. UNCHANGED calls
  BY DEF AddFragment
<1>3. frame \in Nat /\ len \in Nat /\ given \in Nat
  BY CallsFacts, BoundAssumption DEF ReasInv
<1>4. PICK old : old = IF fd_head.exists THEN fd_head ELSE new_head
  OBVIOUS
<1>5. PICK fd : fd = new_fragment_item(Offset(old, given), len, variant)
  OBVIOUS
<1>6. PICK head : head = [old EXCEPT !.lost = IF Extends(old, fd) THEN Lost(old) ELSE @]
  OBVIOUS
<1>7. /\ Visit
      /\ IF ~calls.check THEN fallback = 0 /\ AddAndKeep(head, fd, more_frags, short)
         ELSE IF fd_head.exists THEN fallback = 0 /\ AddAndMove(head, fd, more_frags, short)
         ELSE IF fallback # 0 THEN calls.fallback /\ AddLate(fallback, fd, more_frags, short)
         ELSE IF calls.next /\ ~more_frags THEN AddOnly(len)
         ELSE AddAndMove(head, fd, more_frags, short)
  BY <1>1, <1>4, <1>5, <1>6
<1>8. /\ GoodHead(old) /\ FramesOf(old) = FramesOf(fd_head) /\ old.frame <= frame
      /\ calls.check => "PARTIAL_REASSEMBLY" \notin old.flags
  BY <1>4, OldHead
<1>9. /\ GoodHead(head) /\ FramesOf(head) = FramesOf(fd_head) /\ head.frame <= frame
      /\ calls.check => "PARTIAL_REASSEMBLY" \notin head.flags
  <2>1. PICK x : head = [old EXCEPT !.lost = x]
    BY <1>6
  <2> QED  BY <1>8, <2>1, LostSame
<1>10. fd.frame = Pinfo
  BY <1>5 DEF new_fragment_item
<1>11. Offset(old, given) \in Nat
  BY <1>3, <1>8, OffsetIsNumber
<1>12. Later(head, fd)
  <2>1. head.frame \in Nat
    BY <1>9 DEF GoodHead
  <2> QED  BY <1>3, <1>5, <1>9, <1>11, <2>1, FragmentLater
<1>13. CASE ~calls.check /\ ~(short /\ ~calls.block)
  <2>1. PICK r : r = Work(head, fd, more_frags, short, FALSE)
    OBVIOUS
  <2>2. Worked(head, fd, r)
    BY <1>9, <1>12, <2>1, WorkWorks
  <2>3. fd_head' = r.head /\ ret' = r.result /\ UNCHANGED <<reassembled, finished>>
    BY <1>7, <1>13, <2>1 DEF AddAndKeep
  <2> QED  BY <1>2, <1>7, <1>9, <1>10, <2>2, <2>3, KeepStep
<1>14. CASE calls.check /\ AddAndMove(head, fd, more_frags, short)
  <2>1. "PARTIAL_REASSEMBLY" \notin head.flags
    BY <1>9, <1>14
  <2> QED  BY <1>2, <1>7, <1>9, <1>10, <1>12, <1>14, <2>1, AddAndMoveStep
<1>15. CASE ~fd_head.exists /\ fallback # 0 /\ AddLate(fallback, fd, more_frags, short)
  <2>1. fallback \in 1 .. Len(finished)
    BY <1>15 DEF ReasInv, FinishedInv
  <2>2. GoodHead(finished[fallback]) /\ finished[fallback].frame <= frame
    BY <2>1 DEF ReasInv, FinishedInv
  <2>3. Later(finished[fallback], fd)
    <3>1. finished[fallback].frame \in Nat
      BY <2>2 DEF GoodHead
    <3> QED  BY <1>3, <1>5, <1>11, <2>2, <3>1, FragmentLater
  <2>4. PICK r : r = Work(finished[fallback], fd, more_frags, short, TRUE)
    OBVIOUS
  <2>5. Worked(finished[fallback], fd, r)
    BY <2>2, <2>3, <2>4, WorkWorks
  <2>6. /\ finished' = [finished EXCEPT ![fallback] = r.head]
        /\ reassembled' = [reassembled EXCEPT ![Pinfo] = fallback]
        /\ ret' = r.result /\ UNCHANGED fd_head
    BY <1>15, <2>4 DEF AddLate
  <2>7. fd_head = NoHead
    BY <1>15 DEF ReasInv, HeadInv, GoodHead
  <2> QED  BY <1>2, <1>7, <1>10, <2>1, <2>5, <2>6, <2>7, LateStep
<1>16. CASE ~fd_head.exists /\ AddOnly(len)
  <2>1. fd_head = NoHead
    BY <1>16 DEF ReasInv, HeadInv, GoodHead
  <2>2. PICK x : x = [new_head EXCEPT !.datalen = IF calls.block THEN 0 ELSE len,
                                      !.flags = {"DEFRAGMENTED"}, !.reassembled_in = Pinfo]
    OBVIOUS
  <2>3. fragment_reassembled(x, {Pinfo}) /\ ret' = "complete" /\ fd_head' = NoHead
    BY <1>16, <2>1, <2>2 DEF AddOnly
  <2>4. EmptyHead(x) /\ x.flags = {"DEFRAGMENTED"}
    BY <1>3, <2>2 DEF EmptyHead, IsHead, new_head
  <2>5. GoodHead(x) /\ FramesOf(x) = {} /\ x.frame = 0
    BY <2>4, EmptyHeadGood
  <2>6. Closed(x)
    BY <2>4 DEF Closed
  <2>7. x.frame <= Pinfo
    BY <1>3, <2>5 DEF Pinfo
  <2>8. FramesOf(x) \subseteq {Pinfo} /\ {Pinfo} \subseteq FramesOf(fd_head) \cup {Pinfo}
    BY <2>5
  <2>9. ret' # "incomplete"
    BY <2>3
  <2> QED  BY <1>2, <1>7, <2>3, <2>5, <2>6, <2>7, <2>8, <2>9, MoveStep
<1>17. CASE ~calls.check /\ short /\ ~calls.block
  <2>1. UNCHANGED <<fd_head, reassembled, finished>> /\ ret' = "throw"
    BY <1>7, <1>17 DEF AddAndKeep
  <2> QED  BY <1>2, <1>7, <2>1, NothingAdded
<1> QED  BY <1>7, <1>13, <1>14, <1>15, <1>16, <1>17

\* The head that a function other than those that add a fragment is called for.
LEMMA CalledFor ==
    ASSUME ReasInv, fd_head.exists
    PROVE  /\ GoodHead(fd_head) /\ fd_head.frame <= frame /\ IsHead(fd_head) /\ IsList(fd_head.items)
           /\ calls.check => "PARTIAL_REASSEMBLY" \notin fd_head.flags
<1>1. GoodHead(fd_head) /\ fd_head # NoHead
  BY ExistsFacts DEF ReasInv
<1> QED  BY <1>1, GoodShape DEF ReasInv, HeadInv, MovedInv

\* Such a function keeps the fragments.
LEMMA SameStep ==
    ASSUME ReasInv, fd_head.exists, UNCHANGED <<calls, frame, reassembled, finished>>,
           ret' # "incomplete", SameItems(fd_head, fd_head')
    PROVE  ReasInv'
<1>1. /\ GoodHead(fd_head) /\ fd_head.frame <= frame
      /\ calls.check => "PARTIAL_REASSEMBLY" \notin fd_head.flags
  BY CalledFor
<1>2. GoodHead(fd_head') /\ FramesOf(fd_head') = FramesOf(fd_head)
  BY <1>1, SameItemsHead
<1>3. fd_head'.frame = fd_head.frame
  BY DEF SameItems
<1>4. calls.check => "PARTIAL_REASSEMBLY" \notin fd_head'.flags
  BY <1>1 DEF SameItems
<1> QED  BY <1>1, <1>2, <1>3, <1>4, HeadStep

\* The lengths a dissector gives.
LEMMA LengthsAreNumbers == Lengths \subseteq Nat
BY BoundAssumption DEF Lengths

\* Setting the length changes no fragment, also when it is refused.
LEMMA SetTotLenStep ==
    ASSUME ReasInv, fragment_set_tot_len
    PROVE  ReasInv'
<1>1. fd_head.exists /\ UNCHANGED <<calls, frame, reassembled, finished>>
  BY DEF fragment_set_tot_len
<1>2. ret' \in {"throw", "none"} /\ \E tot_len \in Nat : \E x :
         \/ fd_head' = [fd_head EXCEPT !.error = TRUE]
         \/ fd_head' = [fd_head EXCEPT !.datalen = tot_len, !.flags = @ \cup {"DATALEN_SET"},
                                       !.lost = x]
  BY LengthsAreNumbers DEF fragment_set_tot_len
<1>3. IsHead(fd_head) /\ IsList(fd_head.items)
  BY <1>1, CalledFor
<1>4. PICK r : r = fd_head'
  OBVIOUS
<1>5. /\ IsHead(r) /\ r.items = fd_head.items /\ r.exists = fd_head.exists /\ r.frame = fd_head.frame
      /\ r.first_gap = fd_head.first_gap /\ r.contiguous_len = fd_head.contiguous_len
      /\ r.datalen = fd_head.datalen \/ r.datalen \in Nat
      /\ r.flags = fd_head.flags \/ r.flags = fd_head.flags \cup {"DATALEN_SET"}
  BY <1>2, <1>3, <1>4 DEF IsHead
<1>6. SameItems(fd_head, r)
  <2>1. "PARTIAL_REASSEMBLY" \in r.flags => "PARTIAL_REASSEMBLY" \in fd_head.flags
    BY <1>5
  <2> QED  BY <1>3, <1>5, <2>1, RestChanged
<1> QED  BY <1>1, <1>2, <1>4, <1>6, SameStep

\* Taking a flag off.
LEMMA FlagRemoved ==
    ASSUME NEW h, IsHead(h), IsList(h.items), NEW r,
           r = [h EXCEPT !.flags = @ \ {"PARTIAL_REASSEMBLY"}]
    PROVE  /\ SameItems(h, r) /\ IsHead(r) /\ IsList(r.items) /\ r.datalen = h.datalen
           /\ r.items = h.items /\ "PARTIAL_REASSEMBLY" \notin r.flags
<1>1. /\ IsHead(r) /\ r.items = h.items /\ r.exists = h.exists /\ r.frame = h.frame
      /\ r.first_gap = h.first_gap /\ r.contiguous_len = h.contiguous_len
      /\ r.datalen = h.datalen /\ r.flags = h.flags \ {"PARTIAL_REASSEMBLY"}
  BY DEF IsHead
<1>2. "PARTIAL_REASSEMBLY" \notin r.flags
  BY <1>1
<1>3. SameItems(h, r)
  BY <1>1, <1>2, RestChanged
<1> QED  BY <1>1, <1>2, <1>3

\* Setting another length undoes the reassembly and keeps the fragments.
LEMMA ResetTotLenStep ==
    ASSUME ReasInv, fragment_reset_tot_len
    PROVE  ReasInv'
<1>1. fd_head.exists /\ UNCHANGED <<calls, frame, reassembled, finished>> /\ ret' = "none"
  BY DEF fragment_reset_tot_len
<1>2. PICK h1 : h1 = [fd_head EXCEPT !.flags = @ \ {"PARTIAL_REASSEMBLY"}]
  OBVIOUS
<1>3. PICK h2 : h2 = IF "DEFRAGMENTED" \in h1.flags THEN fragment_reset_defragmentation(h1) ELSE h1
  OBVIOUS
<1>4. \E tot_len \in Nat : \E x :
         \/ fd_head' = h1
         \/ fd_head' = [h2 EXCEPT !.datalen = tot_len, !.flags = @ \cup {"DATALEN_SET"}, !.lost = x]
  <2>1. PICK tot_len \in Lengths :
           fd_head' = IF tot_len = fd_head.datalen THEN h1
                      ELSE [h2 EXCEPT !.datalen = tot_len, !.flags = @ \cup {"DATALEN_SET"},
                                      !.lost = LostBy(fd_head, tot_len)]
    BY <1>2, <1>3 DEF fragment_reset_tot_len
  <2> QED  BY <2>1, LengthsAreNumbers
<1>5. IsHead(fd_head) /\ IsList(fd_head.items)
  BY <1>1, CalledFor
<1>6. SameItems(fd_head, h1) /\ IsHead(h1) /\ IsList(h1.items)
  BY <1>2, <1>5, FlagRemoved
<1>7. SameItems(h1, h2)
  BY <1>3, <1>6, ResetSame, SameItemsItself
<1>8. IsHead(h2) /\ IsList(h2.items)
  BY <1>7, SameShape
<1>9. ASSUME NEW tot_len \in Nat, NEW x,
             fd_head' = [h2 EXCEPT !.datalen = tot_len, !.flags = @ \cup {"DATALEN_SET"}, !.lost = x]
      PROVE  SameItems(h2, fd_head')
  <2>1. PICK r : r = fd_head'
    OBVIOUS
  <2>2. /\ IsHead(r) /\ r.items = h2.items /\ r.exists = h2.exists /\ r.frame = h2.frame
        /\ r.first_gap = h2.first_gap /\ r.contiguous_len = h2.contiguous_len
        /\ r.datalen \in Nat /\ r.flags = h2.flags \cup {"DATALEN_SET"}
    BY <1>8, <1>9, <2>1 DEF IsHead
  <2>3. "PARTIAL_REASSEMBLY" \in r.flags => "PARTIAL_REASSEMBLY" \in h2.flags
    BY <2>2
  <2>4. SameItems(h2, r)
    BY <1>8, <2>2, <2>3, RestChanged
  <2> QED  BY <2>1, <2>4
<1>10. SameItems(fd_head, fd_head')
  <2>1. CASE fd_head' = h1
    BY <1>6, <2>1
  <2>2. CASE SameItems(h2, fd_head')
    BY <1>6, <1>7, <2>2, SameItemsTransitive
  <2> QED  BY <1>4, <1>9, <2>1, <2>2
<1>11. ret' # "incomplete"
  BY <1>1
<1> QED  BY <1>1, <1>10, <1>11, SameStep

\* A PDU that is cut keeps some of its frames.
LEMMA TruncateStep ==
    ASSUME ReasInv, fragment_truncate
    PROVE  ReasInv'
<1>1. /\ fd_head.exists /\ UNCHANGED <<calls, frame, reassembled, finished>> /\ ret' = "none"
      /\ "truncate" \in calls.ops
  BY DEF fragment_truncate
<1>2. /\ GoodHead(fd_head) /\ fd_head.frame <= frame /\ IsHead(fd_head) /\ IsList(fd_head.items)
  BY <1>1, CalledFor
<1>3. PICK tot_len \in 0 .. fd_head.datalen :
        LET h1    == [fd_head EXCEPT !.flags = @ \ {"PARTIAL_REASSEMBLY"}]
            items == KeptItems(h1.items, tot_len)
            overlaps == (UNION {items[i].flags : i \in DOMAIN items})
                           \cap {"OVERLAP", "OVERLAPCONFLICT"}
            h2    == [h1 EXCEPT !.data = SubSeq(@, 1, tot_len), !.datalen = tot_len,
                                !.items = items,
                                !.flags = (@ \ {"OVERLAP", "OVERLAPCONFLICT", "TOOLONGFRAGMENT",
                                                "MULTIPLETAILS"}) \cup overlaps,
                                !.contiguous_len = MinOf(@, tot_len)]
        IN  fd_head' = IF tot_len = fd_head.datalen THEN h1
                       ELSE fragment_items_removed(h2, Len(items))
  BY DEF fragment_truncate
<1>4. PICK h1 : h1 = [fd_head EXCEPT !.flags = @ \ {"PARTIAL_REASSEMBLY"}]
  OBVIOUS
<1>5. /\ SameItems(fd_head, h1) /\ IsHead(h1) /\ IsList(h1.items) /\ h1.items = fd_head.items
      /\ "PARTIAL_REASSEMBLY" \notin h1.flags
  BY <1>2, <1>4, FlagRemoved
<1>6. GoodHead(h1) /\ h1.frame = fd_head.frame
  BY <1>2, <1>5, SameItemsHead DEF SameItems
<1>7. tot_len \in Nat
  BY <1>2 DEF GoodHead
<1>8. PICK items, over, data :
         /\ items = KeptItems(h1.items, tot_len) /\ "PARTIAL_REASSEMBLY" \notin over
         /\ \/ fd_head' = h1
            \/ fd_head' = fragment_items_removed(
                  [h1 EXCEPT !.data = data, !.datalen = tot_len, !.items = items,
                             !.flags = (@ \ {"OVERLAP", "OVERLAPCONFLICT", "TOOLONGFRAGMENT",
                                             "MULTIPLETAILS"}) \cup over,
                             !.contiguous_len = MinOf(@, tot_len)], Len(items))
  <2>1. PICK items, over, data : /\ items = KeptItems(h1.items, tot_len)
          /\ over = (UNION {items[i].flags : i \in DOMAIN items}) \cap {"OVERLAP", "OVERLAPCONFLICT"}
          /\ data = SubSeq(h1.data, 1, tot_len)
    OBVIOUS
  <2>2. "PARTIAL_REASSEMBLY" \notin over
    BY <2>1
  <2> QED  BY <1>3, <1>4, <2>1, <2>2
<1>9. ret' # "incomplete"
  BY <1>1
<1>10. CASE fd_head' = h1
  BY <1>1, <1>5, <1>9, <1>10, SameStep
<1>11. CASE fd_head' # h1
  <2>1. PICK h2 :
          h2 = [h1 EXCEPT !.data = data, !.datalen = tot_len, !.items = items,
                          !.flags = (@ \ {"OVERLAP", "OVERLAPCONFLICT", "TOOLONGFRAGMENT",
                                          "MULTIPLETAILS"}) \cup over,
                          !.contiguous_len = MinOf(@, tot_len)]
    OBVIOUS
  <2>2. fd_head' = fragment_items_removed(h2, Len(items))
    BY <1>8, <1>11, <2>1
  <2>3. /\ IsHead(h2) /\ h2.items = items /\ h2.exists = h1.exists /\ h2.frame = h1.frame
        /\ h2.first_gap = h1.first_gap /\ h2.contiguous_len = MinOf(h1.contiguous_len, tot_len)
        /\ h2.datalen = tot_len
    BY <1>5, <2>1 DEF IsHead
  <2>4. "PARTIAL_REASSEMBLY" \notin h2.flags
    <3>1. h2.flags \subseteq h1.flags \cup over
      BY <1>5, <2>1 DEF IsHead
    <3> QED  BY <1>5, <1>8, <3>1
  <2>5. GoodList(h1.items, h1.contiguous_len, h1.first_gap)
    BY <1>6 DEF GoodHead, GoodCache
  <2>6. Truncated(h1.items, tot_len, items)
    BY <1>5, <1>8, KeptItemsTruncated
  <2>7. PICK r : r = fd_head'
    OBVIOUS
  <2>8. GoodCache(r) /\ SameRest(h2, r) /\ r.items = items
    BY <2>2, <2>3, <2>5, <2>6, <2>7, TruncatedExact
  <2>9. /\ IsHead(r) /\ r.exists = TRUE /\ r.frame = fd_head.frame /\ r.datalen \in Nat
        /\ r.flags = h2.flags
    BY <1>6, <2>3, <2>8 DEF SameRest, GoodHead
  <2>10. /\ Len(items) \in Nat /\ Len(fd_head.items) \in Nat /\ Len(items) <= Len(fd_head.items)
         /\ \A i \in 1 .. Len(items) :
               items[i].uid = fd_head.items[i].uid /\ items[i].frame = fd_head.items[i].frame
    BY <1>2, <1>5, <2>6 DEF Truncated, IsList
  <2>11. \A i \in 1 .. Len(items) : i \in 1 .. Len(fd_head.items)
    BY <2>10
  <2>12. GoodHead(r)
    BY <1>2, <2>8, <2>9, <2>10, <2>11 DEF GoodHead
  <2>13. FramesOf(r) \subseteq FramesOf(fd_head)
    <3>1. DOMAIN r.items = 1 .. Len(items) /\ DOMAIN fd_head.items = 1 .. Len(fd_head.items)
      BY <1>2, <2>8, <2>12, GoodShape DEF IsList
    <3> QED  BY <2>8, <2>10, <2>11, <3>1 DEF FramesOf
  <2>14. r.frame <= frame /\ "PARTIAL_REASSEMBLY" \notin r.flags
    BY <1>2, <2>4, <2>9
  <2> QED  BY <1>1, <1>9, <2>7, <2>12, <2>13, <2>14, HeadStep
<1> QED  BY <1>10, <1>11

\* Only a PDU that is not moved is extended.
LEMMA SetPartialStep ==
    ASSUME ReasInv, fragment_set_partial_reassembly
    PROVE  ReasInv'
<1>1. /\ fd_head.exists /\ UNCHANGED <<calls, frame, reassembled, finished>> /\ ret' = "none"
      /\ "partial" \in calls.ops
  BY DEF fragment_set_partial_reassembly
<1>2. ~calls.check
  BY <1>1, CallsFacts DEF ReasInv
<1>3. /\ GoodHead(fd_head) /\ fd_head.frame <= frame /\ IsHead(fd_head) /\ IsList(fd_head.items)
  BY <1>1, CalledFor
<1>4. PICK r : r = fd_head'
  OBVIOUS
<1>5. r = [fd_head EXCEPT !.flags = @ \cup {"PARTIAL_REASSEMBLY"}]
  BY <1>4 DEF fragment_set_partial_reassembly
<1>6. /\ IsHead(r) /\ r.items = fd_head.items /\ r.exists = fd_head.exists /\ r.frame = fd_head.frame
      /\ r.first_gap = fd_head.first_gap /\ r.contiguous_len = fd_head.contiguous_len
      /\ r.datalen = fd_head.datalen
  BY <1>3, <1>5 DEF IsHead
<1>7. GoodHead(r) /\ FramesOf(r) = FramesOf(fd_head)
  BY <1>3, <1>6 DEF GoodHead, GoodCache, FramesOf
<1>8. ret' # "incomplete" /\ r.frame <= frame
  BY <1>1, <1>3, <1>6
<1> QED  BY <1>1, <1>2, <1>4, <1>7, <1>8, HeadStep

\* The head is removed.
LEMMA DeleteStep ==
    ASSUME ReasInv, fragment_delete
    PROVE  ReasInv'
<1>1. fd_head' = NoHead /\ UNCHANGED <<calls, frame, reassembled, finished>> /\ ret' # "incomplete"
  BY DEF fragment_delete
<1> QED  BY <1>1, HeadStep

\* A head is made before its first fragment.
LEMMA StartStep ==
    ASSUME ReasInv, fragment_start_seq_check
    PROVE  ReasInv'
<1>1. UNCHANGED <<calls, frame, reassembled, finished>> /\ ret' # "incomplete"
  BY DEF fragment_start_seq_check
<1>2. PICK tot_len \in 0 .. PduBound :
         fd_head' = [new_head EXCEPT !.datalen = tot_len, !.flags = {"DATALEN_SET"}]
  BY DEF fragment_start_seq_check
<1>3. PICK r : r = fd_head'
  OBVIOUS
<1>4. EmptyHead(r) /\ r.flags = {"DATALEN_SET"}
  <2>1. tot_len \in Nat
    BY BoundAssumption
  <2> QED  BY <1>2, <1>3, <2>1 DEF EmptyHead, IsHead, new_head
<1>5. GoodHead(r) /\ FramesOf(r) = {} /\ r.frame = 0
  BY <1>4, EmptyHeadGood
<1>6. r.frame <= frame /\ "PARTIAL_REASSEMBLY" \notin r.flags
  BY <1>4, <1>5 DEF ReasInv
<1> QED  BY <1>1, <1>3, <1>5, <1>6, HeadStep

\* The number of the last block.
LEMMA LastNumber ==
    ASSUME NEW h, GoodHead(h)
    PROVE  LET offsets == {0} \cup {h.items[i].offset : i \in DOMAIN h.items}
           IN  (CHOOSE m \in offsets : \A o \in offsets : o <= m) \in Nat
<1>1. PICK n \in Nat : n = Len(h.items)
  BY GoodShape DEF IsList
<1>2. DOMAIN h.items = 1 .. n /\ \A i \in 1 .. n : h.items[i].offset \in Nat
  BY <1>1, GoodShape, EndsAreNumbers DEF IsList
<1>3. PICK offsets : offsets = {0} \cup {h.items[i].offset : i \in DOMAIN h.items}
  OBVIOUS
<1>4. offsets \subseteq Nat
  BY <1>2, <1>3
<1>5. \E m \in offsets : \A o \in offsets : o <= m
  <2>1. CASE n = 0
    <3>1. offsets = {0}
      BY <1>2, <1>3, <2>1
    <3> QED  BY <3>1
  <2>2. CASE n # 0
    <3>1. \A i \in 1 .. n : h.items[i].offset <= h.items[n].offset
      BY <1>1, <2>2 DEF GoodHead, GoodCache, GoodList, InOrder
    <3>2. n \in 1 .. n
      BY <2>2
    <3>3. \A o \in offsets : o <= h.items[n].offset
      BY <1>2, <1>3, <3>1, <3>2
    <3> QED  BY <1>2, <1>3, <3>2, <3>3
  <2> QED  BY <2>1, <2>2
<1> QED  BY <1>3, <1>4, <1>5

\* The PDU is put together with the blocks there are, and moved.
LEMMA EndStep ==
    ASSUME ReasInv, fragment_end_seq_next
    PROVE  ReasInv'
<1>1. /\ fd_head.exists /\ Visit /\ UNCHANGED calls /\ fd_head' = NoHead /\ ret' = "complete"
      /\ "end" \in calls.ops
  BY DEF fragment_end_seq_next
<1>2. calls.check /\ frame \in Nat
  BY <1>1, CallsFacts DEF ReasInv
<1>3. /\ GoodHead(fd_head) /\ fd_head.frame <= frame /\ IsHead(fd_head) /\ IsList(fd_head.items)
      /\ "PARTIAL_REASSEMBLY" \notin fd_head.flags
  BY <1>1, <1>2, CalledFor
<1>4. PICK max, h, x :
         /\ max \in Nat
         /\ h = [fd_head EXCEPT !.datalen = max, !.flags = @ \cup {"DATALEN_SET"}]
         /\ x = fragment_defragment_and_free(h)
         /\ fragment_reassembled(x, FramesOf(fd_head) \cup {Pinfo})
  <2>1. PICK max : LET offsets == {0} \cup {fd_head.items[i].offset : i \in DOMAIN fd_head.items}
                   IN  max = CHOOSE m \in offsets : \A o \in offsets : o <= m
    OBVIOUS
  <2>2. max \in Nat
    BY <1>3, <2>1, LastNumber
  <2>3. fragment_reassembled(
           fragment_defragment_and_free([fd_head EXCEPT !.datalen = max,
                                                        !.flags = @ \cup {"DATALEN_SET"}]),
           FramesOf(fd_head) \cup {Pinfo})
    BY <2>1 DEF fragment_end_seq_next
  <2> QED  BY <2>2, <2>3
<1>5. /\ IsHead(h) /\ h.items = fd_head.items /\ h.exists = fd_head.exists /\ h.frame = fd_head.frame
      /\ h.first_gap = fd_head.first_gap /\ h.contiguous_len = fd_head.contiguous_len
      /\ h.datalen \in Nat /\ h.flags = fd_head.flags \cup {"DATALEN_SET"}
  BY <1>3, <1>4 DEF IsHead
<1>6. "PARTIAL_REASSEMBLY" \notin h.flags
  BY <1>3, <1>5
<1>7. SameItems(fd_head, h)
  BY <1>3, <1>5, <1>6, RestChanged
<1>8. GoodHead(h) /\ FramesOf(h) = FramesOf(fd_head)
  BY <1>3, <1>7, SameItemsHead
<1>9. SameItems(h, x) /\ "DEFRAGMENTED" \in x.flags
  BY <1>3, <1>4, <1>5, DefragmentBlocksSame
<1>10. GoodHead(x) /\ FramesOf(x) = FramesOf(fd_head)
  BY <1>8, <1>9, SameItemsHead
<1>11. Closed(x)
  BY <1>6, <1>9 DEF SameItems, Closed
<1>12. x.frame <= Pinfo
  <2>1. x.frame = fd_head.frame /\ x.frame \in Nat
    BY <1>5, <1>9, <1>10 DEF SameItems, GoodHead
  <2> QED  BY <1>2, <1>3, <2>1 DEF Pinfo
<1>13. ret' # "incomplete" /\ FramesOf(x) \subseteq FramesOf(fd_head) \cup {Pinfo}
  BY <1>1, <1>10
<1> QED  BY <1>1, <1>4, <1>10, <1>11, <1>12, <1>13, MoveStep

\* The invariant holds at first.
LEMMA ReasInvInit == Init => ReasInv
<1> SUFFICES ASSUME Init
             PROVE  ReasInv
  OBVIOUS
<1>1. calls \in Calls /\ frame = 0 /\ fd_head = NoHead /\ finished = << >> /\ ret = "none"
  BY DEF Init
<1>2. frame \in Nat /\ frame <= calls.limit
  BY <1>1, CallsFacts
<1>3. Len(finished) = 0 /\ \A k \in 1 .. Len(finished) : FALSE
  BY <1>1
<1>4. FinishedInv
  <2>1. finished = [k \in 1 .. Len(finished) |-> finished[k]]
    BY <1>1, <1>3
  <2> QED  BY <1>3, <2>1 DEF FinishedInv
<1>5. TableInv
  BY <1>3 DEF TableInv, Init
<1> QED  BY <1>1, <1>2, <1>4, <1>5 DEF ReasInv, HeadInv, MovedInv, WaitingInv

\* Every step keeps the invariant.
LEMMA ReasInvStep == ReasInv /\ [Next]_vars => ReasInv'
<1>1. ASSUME ReasInv, UNCHANGED vars
      PROVE  ReasInv'
  <2>1. UNCHANGED <<calls, frame, fd_head, reassembled, finished, ret>>
    BY <1>1 DEF vars
  <2>2. HeadInv' /\ MovedInv'
    BY <1>1, <2>1 DEF ReasInv, HeadInv, MovedInv
  <2>3. FinishedInv'
    BY <1>1, <2>1 DEF ReasInv, FinishedInv
  <2>4. TableInv'
    BY <1>1, <2>1 DEF ReasInv, TableInv
  <2>5. WaitingInv'
    BY <1>1, <2>1 DEF ReasInv, WaitingInv, Misses
  <2> QED  BY <1>1, <2>1, <2>2, <2>3, <2>4, <2>5 DEF ReasInv
<1> QED  BY <1>1, AddFragmentStep, SetTotLenStep, ResetTotLenStep, TruncateStep, SetPartialStep,
            DeleteStep, StartStep, EndStep DEF Next

\* ReasInv is an inductive invariant.
THEOREM ReasInvHolds == Spec => []ReasInv
BY ReasInvInit, ReasInvStep, PTL DEF Spec

\* The heads there are.
LEMMA HeadsAreGood ==
    ASSUME ReasInv, NEW h \in Heads
    PROVE  GoodHead(h)
<1>1. DOMAIN finished = 1 .. Len(finished)
  BY DEF ReasInv, FinishedInv
<1>2. CASE h \in {finished[k] : k \in DOMAIN finished}
  BY <1>1, <1>2 DEF ReasInv, FinishedInv
<1>3. CASE fd_head.exists /\ h = fd_head
  BY <1>3, CalledFor
<1> QED  BY <1>2, <1>3 DEF Heads

\* GapCacheExact: the list of the fragments is sorted and first_gap and contiguous_len
\* are what a walk over it would find, after every call.
THEOREM GapsStayExact == Spec => []GapCacheExact
<1>1. ReasInv => GapCacheExact
  <2> SUFFICES ASSUME ReasInv, NEW h \in Heads
               PROVE  Sorted(h) /\ CacheExact(h)
    BY DEF GapCacheExact
  <2>1. GoodHead(h)
    BY HeadsAreGood
  <2> QED  BY <2>1, ExactCache DEF GoodHead, GoodCache, GoodList
<1> QED  BY <1>1, ReasInvHolds, PTL

\* CompletesAtOnce: a call for a whole frame that leaves a PDU of known length incomplete
\* leaves a byte or a block missing, whatever short frames came before it.
THEOREM CompletedAtOnce == Spec => []CompletesAtOnce
<1>1. ReasInv => CompletesAtOnce
  BY DEF ReasInv, WaitingInv, CompletesAtOnce, Misses
<1> QED  BY <1>1, ReasInvHolds, PTL

\* SecondPassFinds: reassembled_table leads from every frame of a PDU to it.
THEOREM FramesLeadToPdus == Spec => []SecondPassFinds
<1>1. ReasInv => SecondPassFinds
  <2> SUFFICES ASSUME ReasInv
               PROVE  SecondPassFinds
    OBVIOUS
  <2>1. DOMAIN finished = 1 .. Len(finished)
    BY DEF ReasInv, FinishedInv
  <2>2. \A k \in DOMAIN finished : \A f \in FramesOf(finished[k]) : reassembled[f] = k
    BY <2>1 DEF ReasInv, TableInv
  <2>3. \A h \in Heads : \A f \in FramesOf(h) : f <= h.frame
    BY HeadsAreGood, FramesBounded
  <2> QED  BY <2>2, <2>3 DEF SecondPassFinds
<1> QED  BY <1>1, ReasInvHolds, PTL
=============================================================================
