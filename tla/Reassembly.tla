----------------------------- MODULE Reassembly -----------------------------
(***************************************************************************)
(* Putting the fragments of a PDU together again, epan/reassemble.c, in the *)
(* first pass over a capture: the fragments of one PDU after the other that *)
(* share an id arrive in any order, doubled, overlapping, with other data   *)
(* or with the wrong end, and the dissector changes its mind about the      *)
(* length.  A fragment is placed by byte offset (fragment_add and           *)
(* fragment_add_check) or by block number (fragment_add_seq and             *)
(* fragment_add_seq_check).  The "check" functions move a complete PDU from *)
(* fragment_table to reassembled_table, under the number of each frame.     *)
(*                                                                          *)
(* A byte is <<where it belongs in the PDU, its variant>>: fragments of     *)
(* different variants have different data.                                  *)
(***************************************************************************)
EXTENDS FragmentList, FiniteSets

CONSTANTS
    Calls,        \* what a dissector does, see CallsType
    PduBound      \* bound on the length of a PDU, and on its block numbers

\* Which functions: are fragments placed by block number, do the functions move a
\* complete PDU, do they place a fragment behind the others (..._next), and do they
\* look for the PDU of a late fragment (the fallback frame); what else is called;
\* are there short frames, captured without all of their bytes; the lengths and
\* variants of the data; and a bound on the frames.
Ops == {"partial", "set_tot_len", "reset_tot_len", "truncate", "delete", "start", "end"}
CallsType ==
    [block : BOOLEAN, check : BOOLEAN, next : BOOLEAN, fallback : BOOLEAN, ops : SUBSET Ops,
     short : BOOLEAN, lens : SUBSET Nat, variants : SUBSET Nat, limit : Nat]

ASSUME CallsAssumption ==
    \A c \in Calls : /\ c \in CallsType
                     /\ c.next \/ c.fallback => c.check
                     /\ c.fallback => ~c.block /\ ~c.next
                     /\ c.check => c.ops \subseteq {"set_tot_len", "start", "end"}
                     /\ c.ops \cap {"start", "end"} # {} => c.check /\ c.block
                     /\ "truncate" \in c.ops => ~c.block
ASSUME BoundAssumption == PduBound \in Nat \ {0}

VARIABLES
    calls,
    frame,          \* the number of the last frame
    fd_head,        \* the entry in fragment_table, or NoHead
    reassembled,    \* reassembled_table: for each frame, a place in finished or 0
    finished,       \* the heads that reassembled_table has
    ret             \* what the last call did: "complete", "incomplete", "short" (it gave
                    \* up on a short frame), "throw" or "none"

vars == <<calls, frame, fd_head, reassembled, finished, ret>>

NoHead == [items |-> << >>, exists |-> FALSE]
Uninitialized == << >>

new_head == [exists |-> TRUE, items |-> << >>, first_gap |-> NULL, contiguous_len |-> 0,
             datalen |-> 0, flags |-> {}, data |-> << >>, has_data |-> FALSE, frame |-> 0,
             reassembled_in |-> 0, error |-> FALSE,
             lost |-> FALSE]  \* history: was it made longer over data that was freed?

Init ==
    /\ calls \in Calls
    /\ frame = 0
    /\ fd_head = NoHead
    /\ reassembled = [f \in 1 .. calls.limit |-> 0]
    /\ finished = << >>
    /\ ret = "none"

\* Byte i of a fragment, and the bytes from one to another.
Byte(fd, i) == IF calls.block THEN <<fd.offset, i, fd.variant>> ELSE <<fd.offset + i, 0, fd.variant>>
Bytes(fd, from, to) == [k \in 1 .. to - from |-> Byte(fd, from + k - 1)]

\* The data after bytes were copied to an offset.
Copied(data, at, bytes) ==
    [p \in DOMAIN data |-> IF p - at \in DOMAIN bytes THEN bytes[p - at] ELSE data[p]]

MinOf(a, b) == IF a < b THEN a ELSE b

\* A new buffer of n bytes with what fits of the old data.
GrownFrom(data, n) ==
    [p \in 1 .. n |-> IF p <= Len(data) THEN data[p] ELSE Uninitialized]

\* What is wrong with a fragment is noted on it and on the head.
Mark(head, place, flags) ==
    [head EXCEPT !.flags = @ \cup flags, !.items[place].flags = @ \cup flags]

-----------------------------------------------------------------------------
(***************************************************************************)
(* Undoing, and the tail.                                                   *)
(***************************************************************************)

fragment_reset_defragmentation(head) ==
    LET wrong == {"TOOLONGFRAGMENT", "MULTIPLETAILS"}
    IN  [head EXCEPT
           !.flags = @ \ ({"DEFRAGMENTED", "PARTIAL_REASSEMBLY", "DATALEN_SET"} \cup wrong),
           !.items = IF head.flags \cap wrong = {} THEN @
                     ELSE [i \in DOMAIN head.items |-> [head.items[i] EXCEPT !.flags = @ \ wrong]],
           !.datalen = 0, !.reassembled_in = 0]

\* Does a fragment continue a PDU that was put together before?
Extends(head, fd) ==
    /\ {"DEFRAGMENTED", "PARTIAL_REASSEMBLY"} \subseteq head.flags
    /\ IF calls.block THEN fd.offset >= head.datalen ELSE EndOf(fd) > head.datalen

\* Fragments past the end had no place in the PDU, and a second copy of the last
\* block is taken for one, but their data is freed with that of the others: when the
\* PDU is made longer over them, it is lost.
Lost(head) ==
    head.lost \/ \E i \in DOMAIN head.items :
       /\ "DEFRAGMENTED" \in head.items[i].flags
       /\ IF calls.block
            THEN head.items[i].offset > head.datalen \/ "TOOLONGFRAGMENT" \in head.items[i].flags
            ELSE EndOf(head.items[i]) > Len(head.data)

\* The tail tells the length, or the number of the last block, and a second one
\* should tell the same.  Returns the head and the flags of the fragment.
WithTail(head, fd, more_frags) ==
    LET end == IF calls.block THEN fd.offset ELSE EndOf(fd)
    IN  IF more_frags THEN [head |-> head, flags |-> {}]
        ELSE IF "DATALEN_SET" \in head.flags
          THEN LET tails == IF head.datalen # end THEN {"MULTIPLETAILS"} ELSE {}
               IN  [head |-> [head EXCEPT !.flags = @ \cup tails], flags |-> tails]
        ELSE [head |-> [head EXCEPT !.datalen = end, !.flags = @ \cup {"DATALEN_SET"}],
              flags |-> {}]

WithFrame(head, fd) == [head EXCEPT !.frame = IF fd.frame > @ THEN fd.frame ELSE @]

\* The fragment is marked, linked and its data is not needed.
LinkedAs(head, fd, flags) ==
    LINK_FRAG([head EXCEPT !.flags = @ \cup (flags \ {"DEFRAGMENTED"})],
              [fd EXCEPT !.flags = @ \cup flags])

-----------------------------------------------------------------------------
(***************************************************************************)
(* fragment_add_work: by byte offset.                                       *)
(***************************************************************************)

\* Mutant of TakeFragment: the data is copied to where the fragment begins.
TakeFragmentAgain(head, i, dfpos) ==
    LET fd      == head.items[i]
        fraglen == MinOf(fd.len, head.datalen - fd.offset)
        overlap == IF fd.offset < dfpos THEN MinOf(dfpos, head.datalen) - fd.offset ELSE 0
        cmp_len == MinOf(fd.len, overlap)
        differs == \E k \in 0 .. cmp_len - 1 : head.data[fd.offset + k + 1] # Byte(fd, k)
        flags   == (IF fraglen < fd.len THEN {"TOOLONGFRAGMENT"} ELSE {}) \cup
                   (IF fd.offset < dfpos THEN {"OVERLAP"} ELSE {}) \cup
                   (IF differs THEN {"OVERLAPCONFLICT"} ELSE {})
    IN  [head  |-> Mark([head EXCEPT !.data =
                            IF fd.offset + fraglen > dfpos
                              THEN Copied(@, dfpos, Bytes(fd, 0, fraglen)) ELSE @], i, flags),
         dfpos |-> IF fd.offset + fraglen > dfpos THEN fd.offset + fraglen ELSE dfpos]

\* A fragment whose data was not copied yet: what overlaps is compared, what is
\* new is copied behind it.
TakeFragment(head, i, dfpos) ==
    LET fd      == head.items[i]
        fraglen == MinOf(fd.len, head.datalen - fd.offset)
        overlap == IF fd.offset < dfpos THEN MinOf(dfpos, head.datalen) - fd.offset ELSE 0
        cmp_len == MinOf(fd.len, overlap)
        differs == \E k \in 0 .. cmp_len - 1 : head.data[fd.offset + k + 1] # Byte(fd, k)
        flags   == (IF fraglen < fd.len THEN {"TOOLONGFRAGMENT"} ELSE {}) \cup
                   (IF fd.offset < dfpos THEN {"OVERLAP"} ELSE {}) \cup
                   (IF differs THEN {"OVERLAPCONFLICT"} ELSE {})
    IN  [head  |-> Mark([head EXCEPT !.data =
                            IF fd.offset + fraglen > dfpos
                              THEN Copied(@, dfpos, Bytes(fd, overlap, fraglen)) ELSE @], i, flags),
         dfpos |-> IF fd.offset + fraglen > dfpos THEN fd.offset + fraglen ELSE dfpos]

\* One turn of the loop that defragments: what is past the end is only marked,
\* and so is what was copied before a reassembly was extended.
DefragmentItem(acc, i) ==
    LET fd   == acc.head.items[i]
        used == [acc.head EXCEPT !.items[i].flags = @ \cup {"DEFRAGMENTED"},
                                 !.items[i].has_data = FALSE]
    IN  IF fd.len = 0 THEN acc
        ELSE IF fd.offset >= acc.head.datalen
          THEN [acc EXCEPT !.head = Mark(used, i, {"TOOLONGFRAGMENT"})]
        ELSE IF "DEFRAGMENTED" \in fd.flags
          THEN [acc EXCEPT !.head = IF EndOf(fd) > acc.head.datalen
                                      THEN Mark(@, i, {"TOOLONGFRAGMENT"}) ELSE @]
        ELSE IF ~fd.has_data THEN [acc EXCEPT !.head.error = TRUE]
        ELSE LET taken == TakeFragment(acc.head, i, acc.dfpos)
             IN  [head  |-> [taken.head EXCEPT !.items[i].flags = @ \cup {"DEFRAGMENTED"},
                                               !.items[i].has_data = FALSE],
                  dfpos |-> taken.dfpos]

Complete(head) ==
    [head EXCEPT !.flags = @ \cup {"DEFRAGMENTED"}, !.reassembled_in = frame + 1, !.has_data = TRUE]

Defragment(head) ==
    LET start == [head EXCEPT !.data = GrownFrom(head.data, head.datalen)]
        turn[i \in 0 .. Len(head.items)] ==
           IF i = 0 THEN [head |-> start, dfpos |-> Len(head.data)] ELSE DefragmentItem(turn[i-1], i)
    IN  Complete(turn[Len(head.items)].head)

\* Mutant of OverlapFlags: only whether it fits.
OverlapFlagsLength(head, fd) ==
    {"OVERLAP", "DEFRAGMENTED"} \cup
    (IF EndOf(fd) > head.datalen THEN {"TOOLONGFRAGMENT"} ELSE {})

\* A fragment of a PDU that is already defragmented is compared with it.
OverlapFlags(head, fd) ==
    {"OVERLAP", "DEFRAGMENTED"} \cup
    (IF EndOf(fd) > head.datalen THEN {"TOOLONGFRAGMENT"}
     ELSE IF \E k \in 0 .. fd.len - 1 : head.data[fd.offset + k + 1] # Byte(fd, k)
       THEN {"OVERLAPCONFLICT"} ELSE {})

\* Mutant of Received: one byte too many is waited for.
ReceivedLater(head) == head.contiguous_len > head.datalen

Received(head) == head.contiguous_len >= head.datalen

\* Returns the head and what the function returns, or "throw".
fragment_add_work(head, fd, more_frags, allow_overlaps) ==
    LET past   == "DEFRAGMENTED" \in head.flags /\ EndOf(fd) > head.datalen
        extend == Extends(head, fd)
        h1     == WithFrame(IF extend THEN fragment_reset_defragmentation(head) ELSE head, fd)
        tail   == WithTail(h1, fd, more_frags)
        item   == [fd EXCEPT !.flags = tail.flags]
        h2     == LINK_FRAG(tail.head, item)
    IN  IF past /\ ~extend /\ ~allow_overlaps THEN [head |-> head, result |-> "throw"]
        ELSE IF "DEFRAGMENTED" \in h1.flags
          THEN [head |-> LinkedAs(tail.head, [item EXCEPT !.has_data = FALSE],
                                  OverlapFlags(tail.head, fd)),
                result |-> "complete"]
        ELSE IF "DATALEN_SET" \notin h2.flags \/ ~Received(h2)
          THEN [head |-> h2, result |-> "incomplete"]
        ELSE LET h3 == Defragment(h2)
             IN  [head |-> h3, result |-> IF h3.error THEN "throw" ELSE "complete"]

-----------------------------------------------------------------------------
(***************************************************************************)
(* fragment_add_seq_work: by block number.                                  *)
(***************************************************************************)

\* The first fragment of its number.
IsFirst(items, i) == i = 1 \/ items[i-1].offset # items[i].offset

\* The bytes of the first fragments of each number before a place.
BytesBefore(items, place) ==
    FoldLeft(LAMBDA n, i : IF i < place /\ IsFirst(items, i) THEN n + items[i].len ELSE n, 0,
             [i \in DOMAIN items |-> i])

\* One turn of the loop of fragment_defragment_and_free.
DefragmentBlock(acc, i) ==
    LET head  == acc.head
        fd    == head.items[i]
        size  == Len(head.data)
        used(h) == [h EXCEPT !.items[i].flags = @ \cup {"DEFRAGMENTED"},
                             !.items[i].has_data = FALSE]
        new   == "DEFRAGMENTED" \notin fd.flags
        differs == \/ acc.old_dfpos + fd.len # acc.dfpos
                   \/ \E k \in 0 .. fd.len - 1 :
                         head.data[acc.old_dfpos + k + 1] # Byte(fd, k)
    IN  IF fd.len = 0 THEN acc
        ELSE IF acc.dfpos >= size
          THEN [acc EXCEPT !.head = used(Mark(head, i, {"TOOLONGFRAGMENT"}))]
        ELSE IF IsFirst(head.items, i)
          THEN [head |-> used([head EXCEPT !.data =
                                  IF new THEN Copied(@, acc.dfpos, Bytes(fd, 0, fd.len)) ELSE @]),
                dfpos |-> acc.dfpos + fd.len, old_dfpos |-> acc.dfpos]
        ELSE IF new
          THEN [acc EXCEPT !.head = used(Mark(head, i, {"OVERLAP"} \cup
                                                 (IF differs THEN {"OVERLAPCONFLICT"} ELSE {})))]
        ELSE acc

fragment_defragment_and_free(head) ==
    LET size  == BytesBefore(head.items, Len(head.items) + 1)
        start == [head EXCEPT !.data = GrownFrom(head.data, size)]
        turn[i \in 0 .. Len(head.items)] ==
           IF i = 0 THEN [head |-> start, dfpos |-> 0, old_dfpos |-> 0]
           ELSE DefragmentBlock(turn[i-1], i)
    IN  Complete(turn[Len(head.items)].head)

\* How many of the blocks 0, 1, ... there are.
BlocksInOrder(items) ==
    LET max[i \in 0 .. Len(items)] ==
           IF i = 0 THEN 0
           ELSE IF items[i].offset = max[i-1] THEN max[i-1] + 1 ELSE max[i-1]
    IN  max[Len(items)]

\* A block of a PDU that is already defragmented is compared with the first of its
\* number, whose data is asserted to be there; reading that of a short frame throws.
LinkOverlap(head, fd, short) ==
    LET same == {i \in DOMAIN head.items : head.items[i].offset = fd.offset}
        i    == CHOOSE k \in same : \A j \in same : k <= j
        at   == BytesBefore(head.items, i)
        past == fd.offset > head.datalen
        compared == ~past /\ same # {} /\ head.items[i].len = fd.len
        differs  == IF compared THEN \E k \in 0 .. fd.len - 1 : head.data[at + k + 1] # Byte(fd, k)
                    ELSE ~past /\ same # {}
    IN  IF compared /\ (Len(head.data) < at + fd.len \/ short)
          THEN [head |-> [head EXCEPT !.flags = @ \cup {"OVERLAP"}], result |-> "throw"]
          ELSE [head |-> LinkedAs(head, [fd EXCEPT !.has_data = FALSE],
                                  {"OVERLAP", "DEFRAGMENTED"} \cup
                                  (IF past THEN {"TOOLONGFRAGMENT"} ELSE {}) \cup
                                  (IF differs THEN {"OVERLAPCONFLICT"} ELSE {})),
                result |-> "complete"]

\* A block of a short frame is not linked, but the PDU may have been reset for it,
\* and a last one has told the length.
fragment_add_seq_work(head, fd, more_frags, short) ==
    LET h1     == WithFrame(IF Extends(head, fd) THEN fragment_reset_defragmentation(head) ELSE head, fd)
        tail   == WithTail(h1, fd, more_frags)
        max    == BlocksInOrder(LINK_FRAG(tail.head, fd).items)
        long   == IF max > tail.head.datalen + 1 THEN {"TOOLONGFRAGMENT"} ELSE {}
        item   == [fd EXCEPT !.flags = tail.flags, !.has_data = fd.len > 0]
    IN  IF "DEFRAGMENTED" \in h1.flags
          THEN LinkOverlap(tail.head, item, short)
        ELSE IF short
          THEN [head |-> tail.head, result |-> "short"]
        ELSE IF "DATALEN_SET" \notin tail.head.flags \/ max <= tail.head.datalen
          THEN [head |-> LINK_FRAG(tail.head, item), result |-> "incomplete"]
        ELSE [head |-> fragment_defragment_and_free(LinkedAs(tail.head, item, long)),
              result |-> "complete"]

-----------------------------------------------------------------------------
(***************************************************************************)
(* The functions a dissector calls.                                         *)
(***************************************************************************)

Pinfo == frame + 1            \* pinfo->num of the call
Visit == frame < calls.limit /\ frame' = Pinfo

\* What is done with the head; fragment_add_check_common gives up on a short frame.
Work(head, fd, more_frags, short, late) ==
    IF calls.block THEN fragment_add_seq_work(head, fd, more_frags, short)
    ELSE IF short THEN [head |-> head, result |-> "short"]
    ELSE fragment_add_work(head, fd, more_frags, late)

new_fragment_item(offset, len, variant) ==
    [uid |-> Pinfo, frame |-> Pinfo, offset |-> offset, len |-> len, variant |-> variant,
     flags |-> {}, has_data |-> TRUE]

\* Where a fragment goes: where it says, or behind the others.
Offset(head, given) ==
    IF ~calls.next THEN given
    ELSE IF ~calls.block THEN head.contiguous_len
    ELSE IF head.items = << >> THEN 0 ELSE head.items[Len(head.items)].offset + 1

\* fragment_add and fragment_add_seq: a complete PDU stays where it is.  Before
\* anything else fragment_add asserts that the frame is not short.
AddAndKeep(head, fd, more_frags, short) ==
    LET r == IF short /\ ~calls.block THEN [head |-> fd_head, result |-> "throw"]
             ELSE Work(head, fd, more_frags, short, FALSE)
    IN  /\ fd_head' = r.head
        /\ ret' = r.result
        /\ UNCHANGED <<reassembled, finished>>

\* Mutant of fragment_reassembled: only the last frame can be looked up.
ReassembledLast(head, frames) ==
    /\ finished' = Append(finished, head)
    /\ reassembled' = [reassembled EXCEPT ![Pinfo] = Len(finished) + 1]

\* The PDU is entered under each of its frames.
fragment_reassembled(head, frames) ==
    /\ finished' = Append(finished, head)
    /\ reassembled' = [f \in DOMAIN reassembled |->
                          IF f \in frames THEN Len(finished) + 1 ELSE reassembled[f]]

FramesOf(head) == {head.items[i].frame : i \in DOMAIN head.items}

\* fragment_add_check and fragment_add_seq_check: it is moved.
AddAndMove(head, fd, more_frags, short) ==
    LET r == Work(head, fd, more_frags, short, FALSE)
    IN  /\ ret' = r.result
        /\ IF r.result = "complete"
             THEN fragment_reassembled(r.head, FramesOf(r.head)) /\ fd_head' = NoHead
             ELSE fd_head' = r.head /\ UNCHANGED <<reassembled, finished>>

\* The only fragment of a PDU, and its last: its data is not copied, so that it does
\* not matter whether the frame is short.
AddOnly(len) ==
    /\ fragment_reassembled([new_head EXCEPT !.datalen = IF calls.block THEN 0 ELSE len,
                                             !.flags = {"DEFRAGMENTED"}, !.reassembled_in = Pinfo],
                            {Pinfo})
    /\ ret' = "complete"
    /\ UNCHANGED fd_head

\* A late fragment of a PDU that the fallback frame leads to.
AddLate(k, fd, more_frags, short) ==
    LET r == Work(finished[k], fd, more_frags, short, TRUE)
    IN  /\ finished' = [finished EXCEPT ![k] = r.head]
        /\ reassembled' = [reassembled EXCEPT ![Pinfo] = k]
        /\ ret' = r.result
        /\ UNCHANGED fd_head

\* A fragment is added, with what the dissector gives for it.
AddFragment ==
    \E given \in 0 .. PduBound, len \in calls.lens, variant \in calls.variants,
       more_frags, short \in BOOLEAN, fallback \in 0 .. Len(finished) :
       LET old  == IF fd_head.exists THEN fd_head ELSE new_head
           fd   == new_fragment_item(Offset(old, given), len, variant)
           head == [old EXCEPT !.lost = IF Extends(old, fd) THEN Lost(old) ELSE @]
       IN  /\ calls.block \/ EndOf(fd) <= PduBound
           /\ calls.next => given = 0
           /\ short => calls.short /\ len > 0
           /\ Visit
           /\ IF ~calls.check THEN fallback = 0 /\ AddAndKeep(head, fd, more_frags, short)
              ELSE IF fd_head.exists THEN fallback = 0 /\ AddAndMove(head, fd, more_frags, short)
              ELSE IF fallback # 0 THEN calls.fallback /\ AddLate(fallback, fd, more_frags, short)
              ELSE IF calls.next /\ ~more_frags THEN AddOnly(len)
              ELSE AddAndMove(head, fd, more_frags, short)
    /\ UNCHANGED calls

\* The lengths a dissector gives: a number of bytes is not 0, the number of the
\* last block may be.
Lengths == (IF calls.block THEN 0 ELSE 1) .. PduBound

\* Is data lost when the length is set?
LostBy(head, tot_len) == IF tot_len > head.datalen THEN Lost(head) ELSE head.lost

fragment_set_tot_len ==
    /\ "set_tot_len" \in calls.ops /\ fd_head.exists
    /\ \E tot_len \in Lengths :
          LET offsets == {fd_head.items[i].offset : i \in DOMAIN fd_head.items}
              max_offset == IF calls.block /\ offsets # {}
                              THEN CHOOSE m \in offsets : \A o \in offsets : o <= m ELSE 0
          IN  IF \/ calls.block /\ max_offset > tot_len
                 \/ "DEFRAGMENTED" \in fd_head.flags /\ max_offset # tot_len
                THEN fd_head' = [fd_head EXCEPT !.error = TRUE] /\ ret' = "throw"
                ELSE /\ fd_head' = [fd_head EXCEPT !.datalen = tot_len,
                                                   !.flags = @ \cup {"DATALEN_SET"},
                                                   !.lost = LostBy(fd_head, tot_len)]
                     /\ ret' = "none"
    /\ UNCHANGED <<calls, frame, reassembled, finished>>

fragment_reset_tot_len ==
    /\ "reset_tot_len" \in calls.ops /\ fd_head.exists
    /\ \E tot_len \in Lengths :
          LET h1 == [fd_head EXCEPT !.flags = @ \ {"PARTIAL_REASSEMBLY"}]
              h2 == IF "DEFRAGMENTED" \in h1.flags THEN fragment_reset_defragmentation(h1) ELSE h1
          IN  fd_head' = IF tot_len = fd_head.datalen THEN h1
                         ELSE [h2 EXCEPT !.datalen = tot_len, !.flags = @ \cup {"DATALEN_SET"},
                                         !.lost = LostBy(fd_head, tot_len)]
    /\ ret' = "none"
    /\ UNCHANGED <<calls, frame, reassembled, finished>>

\* The fragments before the split point, the last ones shortened.
KeptItems(items, tot_len) ==
    LET n == CHOOSE k \in 0 .. Len(items) :
                /\ k = Len(items) \/ items[k+1].offset >= tot_len
                /\ \A i \in 1 .. k : items[i].offset < tot_len
    IN  [i \in 1 .. n |->
           [items[i] EXCEPT !.len = MinOf(@, tot_len - items[i].offset),
                            !.flags = @ \ {"TOOLONGFRAGMENT", "MULTIPLETAILS"}]]

\* Only for a PDU that is defragmented, and not to a larger length (asserted).
fragment_truncate ==
    /\ "truncate" \in calls.ops /\ fd_head.exists /\ "DEFRAGMENTED" \in fd_head.flags
    /\ \E tot_len \in 0 .. fd_head.datalen :
          LET h1    == [fd_head EXCEPT !.flags = @ \ {"PARTIAL_REASSEMBLY"}]
              items == KeptItems(h1.items, tot_len)
              overlaps == (UNION {items[i].flags : i \in DOMAIN items})
                             \cap {"OVERLAP", "OVERLAPCONFLICT"}
              h2    == [h1 EXCEPT !.data = SubSeq(@, 1, tot_len), !.datalen = tot_len,
                                  !.items = items,
                                  !.flags = (@ \ {"OVERLAP", "OVERLAPCONFLICT", "TOOLONGFRAGMENT",
                                                  "MULTIPLETAILS"}) \cup overlaps,
                                  !.contiguous_len = MinOf(@, tot_len)]
          IN  fd_head' = IF tot_len = fd_head.datalen THEN h1
                         ELSE fragment_items_removed(h2, Len(items))
    /\ ret' = "none"
    /\ UNCHANGED <<calls, frame, reassembled, finished>>

fragment_set_partial_reassembly ==
    /\ "partial" \in calls.ops /\ fd_head.exists
    /\ fd_head' = [fd_head EXCEPT !.flags = @ \cup {"PARTIAL_REASSEMBLY"}]
    /\ ret' = "none"
    /\ UNCHANGED <<calls, frame, reassembled, finished>>

fragment_delete ==
    /\ "delete" \in calls.ops /\ fd_head.exists
    /\ fd_head' = NoHead
    /\ ret' = "none"
    /\ UNCHANGED <<calls, frame, reassembled, finished>>

fragment_start_seq_check ==
    /\ "start" \in calls.ops /\ ~fd_head.exists
    /\ \E tot_len \in 0 .. PduBound :
          fd_head' = [new_head EXCEPT !.datalen = tot_len, !.flags = {"DATALEN_SET"}]
    /\ ret' = "none"
    /\ UNCHANGED <<calls, frame, reassembled, finished>>

\* The PDU ends before this frame, with the blocks there are.
fragment_end_seq_next ==
    /\ "end" \in calls.ops /\ fd_head.exists /\ Visit
    /\ LET offsets == {0} \cup {fd_head.items[i].offset : i \in DOMAIN fd_head.items}
           max_offset == CHOOSE m \in offsets : \A o \in offsets : o <= m
       IN  fragment_reassembled(
              fragment_defragment_and_free([fd_head EXCEPT !.datalen = max_offset,
                                                           !.flags = @ \cup {"DATALEN_SET"}]),
              FramesOf(fd_head) \cup {Pinfo})
    /\ fd_head' = NoHead
    /\ ret' = "complete"
    /\ UNCHANGED calls

Next ==
    \/ AddFragment
    \/ fragment_set_tot_len \/ fragment_reset_tot_len \/ fragment_truncate
    \/ fragment_set_partial_reassembly \/ fragment_delete
    \/ fragment_start_seq_check \/ fragment_end_seq_next

Spec == Init /\ [][Next]_vars

-----------------------------------------------------------------------------
(***************************************************************************)
(* Properties                                                               *)
(***************************************************************************)

Heads == {finished[k] : k \in DOMAIN finished} \cup (IF fd_head.exists THEN {fd_head} ELSE {})
Defragmented(h) == "DEFRAGMENTED" \in h.flags /\ h.has_data

\* The list is sorted and the cache is right after every insertion, truncation and
\* reset: first_gap is in the list, and contiguous_len is the first missing byte.
GapCacheExact == \A h \in Heads : Sorted(h) /\ CacheExact(h)

\* The data of the first fragment of each block number, in order.
Blocks(h) ==
    FoldLeft(LAMBDA data, i : IF IsFirst(h.items, i)
                                THEN data \o Bytes(h.items[i], 0, h.items[i].len) ELSE data,
             << >>, [i \in DOMAIN h.items |-> i])

\* Every byte of a PDU that is put together is there and in its place, with
\* fragments in any order, overlapping, past the end, and over extensions and
\* truncations; one that is put together by block number is its blocks in order, the
\* first fragment of each, unless one of those is marked as past the end.  (A PDU that
\* was made longer over fragments past its former end has uninitialized and misplaced
\* bytes.)
DataInPlace ==
    \A h \in Heads : Defragmented(h) /\ ~h.lost =>
       IF calls.block
         THEN \/ h.data = Blocks(h)
              \/ \E i \in DOMAIN h.items : IsFirst(h.items, i) /\ "TOOLONGFRAGMENT" \in h.items[i].flags
         ELSE /\ Len(h.data) = h.datalen
              /\ \A p \in DOMAIN h.data : h.data[p] # Uninitialized /\ h.data[p][1] = p - 1

\* Two fragments that have different data for the same bytes of the PDU.
Conflict(h) ==
    \E i, j \in DOMAIN h.items :
       LET a == h.items[i]  b == h.items[j]
       IN  /\ a.variant # b.variant
           /\ IF calls.block THEN a.offset = b.offset /\ a.len > 0 /\ b.len > 0
              ELSE \E p \in 0 .. h.datalen - 1 :
                      a.offset <= p /\ p < EndOf(a) /\ b.offset <= p /\ p < EndOf(b)

\* Fragments that contradict each other are never put together silently: the
\* head is marked, whichever came first and however far reassembly was.  And
\* whatever is marked on a fragment shows on the head, as
\* fragment_reset_defragmentation takes for granted.
ConflictsMarked ==
    \A h \in Heads :
       /\ Defragmented(h) /\ Conflict(h) /\ ~h.lost =>
             h.flags \cap {"OVERLAPCONFLICT", "TOOLONGFRAGMENT"} # {}
       /\ \A i \in DOMAIN h.items :
             h.items[i].flags \cap {"OVERLAP", "OVERLAPCONFLICT", "TOOLONGFRAGMENT", "MULTIPLETAILS"}
                \subseteq h.flags

\* Something of a PDU of known length is missing: a block, or a byte.
Misses(h) ==
    IF calls.block
      THEN \E n \in 0 .. h.datalen : \A i \in DOMAIN h.items : h.items[i].offset # n
      ELSE ~Covered(h, h.datalen)

\* A fragment that was captured whole and leaves the PDU incomplete really leaves
\* something missing: the PDU is put together with the fragment that completes it,
\* not with a later one, also after short frames, which add nothing but may have told
\* the length.  (The call for a short frame itself gives up, whatever is there, with
\* the result "short".)
CompletesAtOnce ==
    ret = "incomplete" /\ "DATALEN_SET" \in fd_head.flags => Misses(fd_head)

\* In the second pass every frame of a PDU leads to it, also one that came late.
SecondPassFinds ==
    /\ \A k \in DOMAIN finished : \A f \in FramesOf(finished[k]) : reassembled[f] = k
    /\ \A h \in Heads : \A f \in FramesOf(h) : f <= h.frame
=============================================================================
