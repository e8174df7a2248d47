---------------------------- MODULE PacketLedger ----------------------------
(***************************************************************************)
(* What a capture promises about packets, whatever threads and queues it    *)
(* uses: a packet that arrives is pending until it is written or lost; the  *)
(* packets of a source are written in the order of their arrival; nothing   *)
(* is written once the capture is closed, or beyond its limit.              *)
(***************************************************************************)
EXTENDS Naturals, Sequences

CONSTANT Sources

VARIABLES
    open,      \* are packets still being written?
    limit,     \* the number of packets to write, 0 for no limit
    arrived,   \* how many packets have arrived from each source
    pending,   \* the packets neither written nor lost
    written    \* the packets written, in order

vars == <<open, limit, arrived, pending, written>>

Init ==
    /\ open = TRUE
    /\ limit \in Nat
    /\ arrived = [s \in Sources |-> 0]
    /\ pending = {}
    /\ written = << >>

\* The next packet of s arrives.
Arrive(s) ==
    /\ arrived' = [arrived EXCEPT ![s] = @ + 1]
    /\ pending' = pending \cup {[src |-> s, seq |-> arrived[s] + 1]}
    /\ UNCHANGED <<open, limit, written>>

\* The oldest pending packet of its source is written; the last one closes, and
\* so may any other.
Write(p) ==
    /\ open
    /\ \A q \in pending : q.src = p.src => q.seq >= p.seq
    /\ pending' = pending \ {p}
    /\ written' = Append(written, p)
    /\ open' \in (IF limit = 0 \/ Len(written) + 1 < limit THEN BOOLEAN ELSE {FALSE})
    /\ UNCHANGED <<limit, arrived>>

\* A packet is lost: the queue is full, the write failed, or too late.
Lose(p) ==
    /\ pending' = pending \ {p}
    /\ UNCHANGED <<open, limit, arrived, written>>

Close ==
    /\ open' = FALSE
    /\ UNCHANGED <<limit, arrived, pending, written>>

Next ==
    \/ \E s \in Sources : Arrive(s)
    \/ \E p \in pending : Write(p) \/ Lose(p)
    \/ Close

Spec == Init /\ [][Next]_vars
=============================================================================
