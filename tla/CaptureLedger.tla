--------------------------- MODULE CaptureLedger ----------------------------
(***************************************************************************)
(* The capture loop as a ledger of packets: the refinement mapping from      *)
(* CaptureLoop to PacketLedger.                                              *)
(***************************************************************************)
EXTENDS CaptureLoop

Seqs == INSTANCE SequencesExt

\* The packets as the ledger names them.
Entry(p) == [src |-> p.src, seq |-> p.seq]

\* The ledger of a capture: what is pending is held or queued, what is written
\* is the concatenation of the files; the capture is closed once go is cleared
\* and no packet is being written.
Ledger == INSTANCE PacketLedger WITH
    open    <- go \/ wpc = "save",
    limit   <- opts.autostop_packets,
    pending <- {Entry(p) : p \in UNION {Queued(s) \cup Held(s) : s \in Sources}},
    written <- [i \in DOMAIN Seqs!FlattenSeq(out) |-> Entry(Seqs!FlattenSeq(out)[i])]

\* The capture loop implements the ledger: over all files the packets of a
\* source are written once and in the order of their arrival, whatever reader
\* threads, queue limits, file switches and stop conditions do; exactly the
\* packets asked for are written and, but for the one being written, none after
\* the capture is told to stop.
ImplementsLedger == Ledger!Spec
=============================================================================
