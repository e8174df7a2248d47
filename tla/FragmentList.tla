---------------------------- MODULE FragmentList ----------------------------
(***************************************************************************)
(* The sorted list of the fragments of a PDU in epan/reassemble.c, and the  *)
(* cache that makes adding to it fast: first_gap, the last fragment before  *)
(* the first gap, and contiguous_len, where that gap begins.  A fragment    *)
(* has an identity, uid, which stands for its address.                      *)
(***************************************************************************)
EXTENDS Integers, Sequences, SequencesExt

NULL == 0

EndOf(fd) == fd.offset + fd.len

\* The place of a fragment in the list; 0 if it is not there.
PlaceOf(head, uid) ==
    IF \E i \in DOMAIN head.items : head.items[i].uid = uid
      THEN CHOOSE i \in DOMAIN head.items : head.items[i].uid = uid
      ELSE 0

\* How far the fragments up to a place reach, if those up to the place from do to
\* contiguous.
Reach(items, from, contiguous, place) ==
    Max({contiguous} \cup {EndOf(items[j]) : j \in from + 1 .. place})

\* Mutant of Advance: a fragment that touches the end is behind a gap.
AdvanceBelow(items, from, contiguous) ==
    LET reach(i) == Reach(items, from, contiguous, i)
        at == CHOOSE i \in from .. Len(items) :
                 /\ i = Len(items) \/ items[i+1].offset >= reach(i)
                 /\ \A j \in from .. i - 1 : items[j+1].offset < reach(j)
    IN  [at |-> at, contiguous |-> reach(at)]

\* From the fragment at a place on, as far as there is no gap.
Advance(items, from, contiguous) ==
    LET reach(i) == Reach(items, from, contiguous, i)
        at == CHOOSE i \in from .. Len(items) :
                 /\ i = Len(items) \/ items[i+1].offset > reach(i)
                 /\ \A j \in from .. i - 1 : items[j+1].offset <= reach(j)
    IN  [at |-> at, contiguous |-> reach(at)]

update_first_gap(head, inserted, multi_insert) ==
    LET moved(from, contiguous) ==
           LET end == Advance(head.items, from, contiguous)
           IN  [head EXCEPT !.first_gap = head.items[end.at].uid,
                            !.contiguous_len = end.contiguous]
    IN  IF inserted.offset > head.contiguous_len THEN head
        ELSE IF head.first_gap = NULL
          THEN IF inserted.offset # 0 THEN head
               ELSE moved(PlaceOf(head, inserted.uid), inserted.len)
        ELSE moved(PlaceOf(head, IF multi_insert THEN inserted.uid ELSE head.first_gap),
                   IF EndOf(inserted) > head.contiguous_len THEN EndOf(inserted)
                   ELSE head.contiguous_len)

\* After which place LINK_FRAG puts a fragment: after those of its own offset,
\* and looking only behind the first gap if it belongs there.
LinkAfter(head, fd) ==
    IF head.items = << >> \/ fd.offset < head.items[1].offset THEN 0
    ELSE LET gap  == PlaceOf(head, head.first_gap)
             from == IF gap # 0 /\ fd.offset >= head.items[gap].offset THEN gap ELSE 1
         IN  CHOOSE i \in from .. Len(head.items) :
                /\ i = Len(head.items) \/ fd.offset < head.items[i+1].offset
                /\ \A j \in from .. i - 1 : fd.offset >= head.items[j+1].offset

LINK_FRAG(head, fd) ==
    update_first_gap([head EXCEPT !.items = InsertAt(@, LinkAfter(head, fd) + 1, fd)], fd, FALSE)

fragment_reset_first_gap(head) ==
    LET cleared == [head EXCEPT !.first_gap = NULL, !.contiguous_len = 0]
    IN  IF head.items = << >> THEN cleared
        ELSE update_first_gap(cleared, head.items[1], Len(head.items) > 1)

\* The fragments behind a place were removed.
fragment_items_removed(head, place) ==
    IF \/ place = 0 /\ head.first_gap = NULL
       \/ place # 0 /\ head.first_gap = head.items[place].uid
       \/ place # 0 /\ head.items[place].offset > head.contiguous_len
      THEN head ELSE fragment_reset_first_gap(head)

-----------------------------------------------------------------------------
(***************************************************************************)
(* What the cache should be.                                                *)
(***************************************************************************)

Sorted(head) ==
    \A i \in 1 .. Len(head.items) - 1 : head.items[i].offset <= head.items[i+1].offset

\* The positions below n are all in fragments.
Covered(head, n) ==
    \A p \in 0 .. n - 1 :
       \E i \in DOMAIN head.items : head.items[i].offset <= p /\ p < EndOf(head.items[i])

\* contiguous_len is the first position that no fragment has, and first_gap is
\* the last fragment in the list that begins no later.
CacheExact(head) ==
    LET before == {i \in DOMAIN head.items : head.items[i].offset <= head.contiguous_len}
    IN  /\ Covered(head, head.contiguous_len)
        /\ ~Covered(head, head.contiguous_len + 1)
        /\ head.first_gap =
              IF \A i \in DOMAIN head.items : head.items[i].offset > 0 THEN NULL
              ELSE head.items[CHOOSE i \in before : \A j \in before : j <= i].uid
=============================================================================
