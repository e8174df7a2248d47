-------------------------- MODULE CaptureLoopProofs --------------------------
(***************************************************************************)
(* What holds of the capture loop for every set of devices and pcap pipes   *)
(* (pcapng pipes are in PcapngOutput and CapturePipe), every option         *)
(* and every interleaving of the reader threads, the main thread and the    *)
(* signal handler; that no packet is lost without being counted, and that   *)
(* the loop implements PacketLedger.                                        *)
(***************************************************************************)
EXTENDS CaptureLedger, InductionLemmas, SequenceTheorems, FiniteSetTheorems, TLAPS

\* The functions whose values the invariant speaks of are functions on Sources,
\* and the main thread knows where to go on after writing and switching.
Shape ==
    /\ wret \in {"update", "batch", "loop", "drain"}
    /\ rpc = [s \in Sources |-> rpc[s]]
    /\ rhand = [s \in Sources |-> rhand[s]]

LoopIInv == Shape /\ LoopInv

\* When the threads are started no reader holds a packet and the queue is empty.
LEMMA InitLoop == Init => LoopIInv
  BY DEF Init, LoopIInv, Shape, LoopInv, ReadersIdle, Stopping, Joined, Draining,
         ReadersExited

\* A step of a reader thread: it runs only before the main thread has joined it,
\* and it leaves the callback without a packet.
LEMMA ReaderKeeps ==
    ASSUME NEW s \in Sources, LoopIInv, Reader(s)
    PROVE  LoopIInv'
<1>0. rpc[s] # "exited"
  BY DEF Reader, ReaderLoop, ReaderPacket, ReaderReturn, ReaderEnds, QueuePacketCheck,
         QueuePacket, QueueFull, ReaderCounts
<1>1. /\ wpc \notin {"drain", "finish", "done"} /\ wret # "drain" /\ opts.use_threads
      /\ UNCHANGED <<wpc, wret, opts>>
      /\ ~go => ~go'
  BY <1>0 DEF LoopIInv, LoopInv, Joined, ReadersExited, Reader, ReaderLoop, ReaderPacket,
         ReaderReturn, ReaderEnds, QueuePacketCheck, QueuePacket, QueueFull, ReaderCounts,
         SourceEnds, writerVars
<1>2. Shape' /\ ReadersIdle'
  <2>1. CASE ReaderLoop(s)
    BY <2>1, <1>1 DEF ReaderLoop, LoopIInv, Shape, LoopInv, ReadersIdle
  <2>2. CASE \E size \in Sizes : ReaderPacket(s, size)
    BY <2>2, <1>1 DEF ReaderPacket, LoopIInv, Shape, LoopInv, ReadersIdle
  <2>3. CASE ReaderReturn(s)
    BY <2>3, <1>1 DEF ReaderReturn, LoopIInv, Shape, LoopInv, ReadersIdle
  <2>4. CASE ReaderEnds(s)
    BY <2>4, <1>1 DEF ReaderEnds, LoopIInv, Shape, LoopInv, ReadersIdle
  <2>5. CASE QueuePacketCheck(s)
    BY <2>5, <1>1 DEF QueuePacketCheck, LoopIInv, Shape, LoopInv, ReadersIdle
  <2>6. CASE QueuePacket(s)
    BY <2>6, <1>1 DEF QueuePacket, LoopIInv, Shape, LoopInv, ReadersIdle
  <2>7. CASE QueueFull(s)
    BY <2>7, <1>1 DEF QueueFull, LoopIInv, Shape, LoopInv, ReadersIdle
  <2>8. CASE ReaderCounts(s)
    BY <2>8, <1>1 DEF ReaderCounts, LoopIInv, Shape, LoopInv, ReadersIdle
  <2> QED  BY <2>1, <2>2, <2>3, <2>4, <2>5, <2>6, <2>7, <2>8 DEF Reader
<1>3. Stopping' /\ Joined' /\ Draining'
  BY <1>1 DEF LoopIInv, LoopInv, Stopping, Joined, Draining
<1> QED  BY <1>2, <1>3 DEF LoopIInv, LoopInv

\* The steps of the main thread inside the loop that leave the readers alone and
\* do not leave the loop.
LEMMA InLoopKeeps ==
    ASSUME LoopIInv, UNCHANGED <<opts, rpc, rhand>>, ~go => ~go',
           wpc \notin {"drain", "finish", "done", "crashed"}, wret # "drain",
           queue' = queue \/ opts.use_threads,
           wret' \in {"update", "batch", "loop"},
           wpc' \notin {"drain", "finish", "done"}, wpc' = "join" => ~go'
    PROVE  LoopIInv'
  BY DEF LoopIInv, Shape, LoopInv, ReadersIdle, Stopping, Joined, Draining, ReadersExited

\* A step of the main thread.
LEMMA WriterKeeps ==
    ASSUME LoopIInv, Writer
    PROVE  LoopIInv'
<1> USE DEF readerVars, writerVars, queueVars, fileVars
<1>1. CASE LoopTest
  BY <1>1, InLoopKeeps DEF LoopTest, LoopIInv, Shape, LoopInv, Draining
<1>2. CASE Dequeue
  <2>1. opts.use_threads
    BY <1>2 DEF Dequeue, LoopIInv, Shape, LoopInv, Draining
  <2>2. CASE wpc = "dequeue"
    BY <1>2, <2>1, <2>2, InLoopKeeps DEF Dequeue, LoopIInv, Shape, LoopInv, Draining
  <2>3. CASE wpc = "drain"
    BY <1>2, <2>1, <2>3 DEF Dequeue, LoopIInv, Shape, LoopInv, ReadersIdle, Stopping, Joined,
       Draining, ReadersExited
  <2> QED  BY <1>2, <2>2, <2>3 DEF Dequeue
<1>3. CASE DequeueTimeout
  BY <1>3 DEF DequeueTimeout, LoopIInv, Shape, LoopInv, ReadersIdle, Stopping, Joined,
     Draining, ReadersExited
<1>4. ASSUME NEW s \in Sources, NEW size \in Sizes, DispatchPacket(s, size)
      PROVE  LoopIInv'
  BY <1>4, InLoopKeeps DEF DispatchPacket, LoopIInv, Shape, LoopInv, Draining
<1>5. ASSUME NEW s \in Sources, DispatchReturn(s) \/ DispatchEnds(s)
      PROVE  LoopIInv'
  BY <1>5, InLoopKeeps DEF DispatchReturn, DispatchEnds, SourceEnds, LoopIInv, Shape, LoopInv, Draining
<1>6. CASE IdleCheck
  BY <1>6, InLoopKeeps DEF IdleCheck, LoopIInv, Shape, LoopInv, Draining
<1>7. CASE WritePacketFlushed
  BY <1>7 DEF WritePacketFlushed, LoopIInv, Shape, LoopInv, ReadersIdle, Stopping, Joined,
     Draining, ReadersExited
<1>8. CASE WritePacketCheck
  BY <1>8 DEF WritePacketCheck, Saving, LoopIInv, Shape, LoopInv, ReadersIdle, Stopping,
     Joined, Draining, ReadersExited
<1>9. CASE WriterCounts
  BY <1>9 DEF WriterCounts, LoopIInv, Shape, LoopInv, ReadersIdle, Stopping, Joined,
     Draining, ReadersExited
<1>10. CASE WritePacketFails \/ WritePacket
  BY <1>10 DEF WritePacketFails, WritePacket, LoopIInv, Shape, LoopInv, ReadersIdle, Stopping, Joined,
     Draining, ReadersExited
<1>11. CASE SwitchStops \/ SwitchSucceeds \/ SwitchFails \/ SwitchFailsOnStart
  BY <1>11 DEF SwitchStops, SwitchSucceeds, SwitchFails, SwitchFailsOnStart,
     LoopIInv, Shape, LoopInv, ReadersIdle, Stopping, Joined, Draining, ReadersExited
<1>12. CASE NoUpdate \/ Update \/ DurationOver \/ FileTimerOver \/ TimersDone
  BY <1>12, InLoopKeeps DEF NoUpdate, Update, DurationOver, FileTimerOver, TimersDone,
     LoopIInv, Shape, LoopInv, Draining
<1>13. CASE UpdateOnClosedStream
  BY <1>13 DEF UpdateOnClosedStream, LoopIInv, Shape, LoopInv, ReadersIdle, Stopping, Joined,
     Draining, ReadersExited
<1>14. CASE Join
  BY <1>14 DEF Join, LoopIInv, Shape, LoopInv, ReadersIdle, Stopping, Joined,
     Draining, ReadersExited
<1>15. CASE \E finish_ok, close_ok \in BOOLEAN : Finish(finish_ok, close_ok)
  BY <1>15 DEF Finish, LoopIInv, Shape, LoopInv, ReadersIdle, Stopping, Joined,
     Draining, ReadersExited
<1> QED
  BY <1>1, <1>2, <1>3, <1>4, <1>5, <1>6, <1>7, <1>8, <1>9, <1>10, <1>11, <1>12, <1>13,
     <1>14, <1>15 DEF Writer

\* Every step of the capture keeps the invariant.
LEMMA NextLoop == LoopIInv /\ [Next]_vars => LoopIInv'
<1> SUFFICES ASSUME LoopIInv, [Next]_vars PROVE LoopIInv'
  OBVIOUS
<1>1. CASE Writer
  BY <1>1, WriterKeeps
<1>2. CASE \E s \in Sources : Reader(s)
  BY <1>2, ReaderKeeps
<1>3. CASE Stop
  BY <1>3 DEF Stop, readerVars, writerVars, queueVars, LoopIInv, Shape, LoopInv,
     ReadersIdle, Stopping, Joined, Draining, ReadersExited
<1>4. CASE UNCHANGED vars
  BY <1>4 DEF vars, readerVars, writerVars, queueVars, LoopIInv, Shape, LoopInv,
     ReadersIdle, Stopping, Joined, Draining, ReadersExited
<1> QED  BY <1>1, <1>2, <1>3, <1>4 DEF Next, Terminated

-----------------------------------------------------------------------------
\* g_thread_join() on every reader is final and the drain is complete: whatever
\* the threads and the signal handler do, no packet is in a reader's hands or in
\* the queue when the capture finishes its output.
THEOREM JoinIsFinal == Spec => []StopIsFinal
<1>1. LoopIInv => StopIsFinal
  BY DEF LoopIInv, LoopInv, ReadersIdle, Stopping, Joined, Draining, ReadersExited, StopIsFinal
<1> QED  BY <1>1, InitLoop, NextLoop, PTL DEF Spec

\* Clearing global_ld.go is final: no thread sets it again, and after the packet
\* that is being written none is written any more.
THEOREM StopStopsWriting == Spec => NothingAfterStop
<1> DEFINE Quiet ==
      /\ ~go => ~go'
      /\ ~go /\ wpc # "save" => wpc' # "save" /\ packets_captured' = packets_captured
<1>1. ASSUME LoopIInv, [Next]_vars PROVE [Quiet]_vars
  <2> USE DEF writerVars, countVars
  <2>1. CASE Writer
    BY <2>1, <1>1 DEF Writer, LoopTest, Dequeue, DequeueTimeout, DispatchPacket, DispatchReturn,
       DispatchEnds, SourceEnds, IdleCheck, WritePacketFlushed, WritePacketCheck, Saving,
       WritePacketFails, WriterCounts, WritePacket, SwitchStops, SwitchSucceeds, SwitchFails,
       SwitchFailsOnStart, NoUpdate, Update, UpdateOnClosedStream, DurationOver,
       FileTimerOver, TimersDone, Join, Finish, LoopIInv, Shape
  <2>2. ASSUME NEW s \in Sources, Reader(s) PROVE Quiet
    BY <2>2 DEF Reader, ReaderLoop, ReaderPacket, ReaderReturn, ReaderEnds, SourceEnds,
       QueuePacketCheck, QueuePacket, QueueFull, ReaderCounts
  <2>3. CASE Stop
    BY <2>3 DEF Stop
  <2>4. CASE UNCHANGED vars
    BY <2>4 DEF vars
  <2> QED  BY <1>1, <2>1, <2>2, <2>3, <2>4 DEF Next, Terminated
<1> QED  BY <1>1, InitLoop, NextLoop, PTL DEF Spec, NothingAfterStop

-----------------------------------------------------------------------------
(***************************************************************************)
(* The number of bytes of a sequence of packets.                            *)
(***************************************************************************)

\* f sums up the sizes of the first n packets of q.
SumsTo(q, n, f) == f = [i \in 0 .. n |-> IF i = 0 THEN 0 ELSE f[i - 1] + q[i].size]

\* Such a function exists for every n, ...
LEMMA SumExists ==
    ASSUME NEW q
    PROVE  \A n \in Nat : \E f : SumsTo(q, n, f)
<1> DEFINE S == {n \in Nat : \E f : SumsTo(q, n, f)}
<1>1. 0 \in S
  <2>1. SumsTo(q, 0, [i \in 0 .. 0 |-> 0])
    BY DEF SumsTo
  <2> QED  BY <2>1
<1>2. ASSUME NEW n \in Nat, n \in S PROVE n + 1 \in S
  <2>1. PICK f : SumsTo(q, n, f)
    BY <1>2
  <2> DEFINE g == [i \in 0 .. n + 1 |-> IF i = n + 1 THEN f[n] + q[n + 1].size ELSE f[i]]
  <2>2. SumsTo(q, n + 1, g)
    BY <2>1 DEF SumsTo
  <2> QED  BY <2>2
<1> HIDE DEF S
<1>3. Nat \subseteq S
  BY <1>1, <1>2, SetInduction
<1> QED  BY <1>3 DEF S

\* ... and TotalSize is its last value.
LEMMA TotalSum ==
    ASSUME NEW q, Len(q) \in Nat
    PROVE  \E f : SumsTo(q, Len(q), f) /\ TotalSize(q) = f[Len(q)]
<1>1. \E f : f = [i \in 0 .. Len(q) |-> IF i = 0 THEN 0 ELSE f[i - 1] + q[i].size]
  BY SumExists DEF SumsTo
<1> QED  BY <1>1 DEF TotalSize, SumsTo

\* The n packets of r have the sizes of those of q after the k-th.
SameSizes(q, k, r, n) == \A i \in 1 .. n : r[i].size = q[k + i].size /\ r[i].size \in Int

\* Two sums over packets with the same sizes, k packets apart, differ by what comes before.
LEMMA SumsAgree ==
    ASSUME NEW q, NEW r, NEW m \in Nat, NEW n \in Nat, NEW k \in Nat, k + n <= m,
           NEW f, NEW g, SumsTo(q, m, f), SumsTo(r, n, g), SameSizes(q, k, r, n),
           f[k] \in Int
    PROVE  g[n] \in Int /\ f[k + n] = f[k] + g[n]
<1> USE DEF SameSizes
<1> DEFINE S == {i \in Nat : i <= n => g[i] \in Int /\ f[k + i] = f[k] + g[i]}
<1>1. 0 \in S
  BY DEF SumsTo
<1>2. ASSUME NEW i \in Nat, i \in S PROVE i + 1 \in S
  <2> SUFFICES ASSUME i + 1 <= n PROVE g[i + 1] \in Int /\ f[k + (i + 1)] = f[k] + g[i + 1]
    OBVIOUS
  <2>1. g[i] \in Int /\ f[k + i] = f[k] + g[i]
    BY <1>2
  <2>2. g[i + 1] = g[i] + r[i + 1].size
    BY DEF SumsTo
  <2>3. f[k + (i + 1)] = f[k + i] + q[k + (i + 1)].size
    BY DEF SumsTo
  <2> QED  BY <2>1, <2>2, <2>3
<1> HIDE DEF S
<1>3. Nat \subseteq S
  BY <1>1, <1>2, SetInduction
<1> QED  BY <1>3 DEF S

\* Sizes are natural numbers, and so are their sums.
LEMMA SumNat ==
    ASSUME NEW q, NEW n \in Nat, NEW f, SumsTo(q, n, f), \A i \in 1 .. n : q[i].size \in Nat
    PROVE  \A i \in 0 .. n : f[i] \in Nat
<1> DEFINE S == {i \in Nat : i <= n => f[i] \in Nat}
<1>1. 0 \in S
  BY DEF SumsTo
<1>2. ASSUME NEW i \in Nat, i \in S PROVE i + 1 \in S
  <2> SUFFICES ASSUME i + 1 <= n PROVE f[i + 1] \in Nat
    OBVIOUS
  <2>1. f[i] \in Nat
    BY <1>2
  <2>2. f[i + 1] = f[i] + q[i + 1].size
    BY DEF SumsTo
  <2> QED  BY <2>1, <2>2
<1> HIDE DEF S
<1>3. Nat \subseteq S
  BY <1>1, <1>2, SetInduction
<1> QED  BY <1>3 DEF S

\* Captured packets.
Packet == [src : Sources, seq : Nat \ {0}, size : Sizes]

\* The parts of a packet.
LEMMA PacketParts ==
    ASSUME NEW p \in Packet
    PROVE  p.src \in Sources /\ p.seq \in Nat \ {0} /\ p.size \in Sizes /\ p.size \in Nat
  BY SizesAssumption DEF Packet

\* The packets of a sequence have sizes.
LEMMA SizesOf ==
    ASSUME NEW q \in Seq(Packet)
    PROVE  \A i \in 1 .. Len(q) : q[i] \in Packet /\ q[i].size \in Nat
<1>1. \A i \in 1 .. Len(q) : q[i] \in Packet
  OBVIOUS
<1> QED  BY <1>1, PacketParts

\* What TotalSize gives for the sequences that the queue and the files go through.
LEMMA TotalType ==
    ASSUME NEW q \in Seq(Packet)
    PROVE  TotalSize(q) \in Nat
<1>1. PICK f : SumsTo(q, Len(q), f) /\ TotalSize(q) = f[Len(q)]
  BY TotalSum
<1>2. \A i \in 1 .. Len(q) : q[i].size \in Nat
  BY SizesOf
<1> QED  BY <1>1, <1>2, SumNat

\* No packets, no bytes.
LEMMA TotalEmpty == TotalSize(<< >>) = 0
<1>1. PICK f : SumsTo(<< >>, 0, f) /\ TotalSize(<< >>) = f[0]
  BY TotalSum
<1> QED  BY <1>1 DEF SumsTo

\* A packet more adds its size.
LEMMA TotalAppend ==
    ASSUME NEW q \in Seq(Packet), NEW p \in Packet
    PROVE  TotalSize(Append(q, p)) = TotalSize(q) + p.size
<1> DEFINE r == Append(q, p)
           n == Len(q)
<1>1. /\ n \in Nat /\ r \in Seq(Packet) /\ Len(r) = n + 1 /\ r[n + 1] = p
      /\ \A i \in 1 .. n : r[i] = q[i]
  OBVIOUS
<1> HIDE DEF r, n
<1>2. PICK f : SumsTo(r, n + 1, f) /\ TotalSize(r) = f[n + 1]
  BY <1>1, TotalSum
<1>3. PICK g : SumsTo(q, n, g) /\ TotalSize(q) = g[n]
  BY <1>1, TotalSum DEF n
<1>5. f[0] = 0
  BY <1>1, <1>2 DEF SumsTo
<1>6. SameSizes(r, 0, q, n)
  BY <1>1, SizesOf DEF n, SameSizes
<1>7. f[n] = g[n]
  <2>1. n + 1 \in Nat /\ 0 + n <= n + 1 /\ f[0] \in Int
    BY <1>1, <1>5
  <2>2. g[n] \in Int /\ f[0 + n] = f[0] + g[n]
    BY <1>1, <1>2, <1>3, <1>6, <2>1, SumsAgree
  <2> QED  BY <1>1, <1>5, <2>2
<1>8. f[n + 1] = f[n] + p.size
  BY <1>1, <1>2 DEF SumsTo
<1> QED  BY <1>2, <1>3, <1>7, <1>8 DEF r

\* The size of the first packet and the size of the rest.
LEMMA TotalTail ==
    ASSUME NEW q \in Seq(Packet), q # << >>
    PROVE  TotalSize(q) = Head(q).size + TotalSize(Tail(q))
<1> DEFINE r == Tail(q)
           n == Len(q) - 1
<1>1. /\ n \in Nat /\ r \in Seq(Packet) /\ Len(r) = n /\ Len(q) = n + 1
      /\ \A i \in 1 .. n : r[i] = q[1 + i]
      /\ Head(q) = q[1]
  OBVIOUS
<1> HIDE DEF r, n
<1>2. PICK f : SumsTo(q, n + 1, f) /\ TotalSize(q) = f[n + 1]
  BY <1>1, TotalSum
<1>3. PICK g : SumsTo(r, n, g) /\ TotalSize(r) = g[n]
  BY <1>1, TotalSum
<1>4. SameSizes(q, 1, r, n)
  <2>1. \A i \in 1 .. n : r[i].size \in Nat
    BY <1>1, SizesOf
  <2> QED  BY <1>1, <2>1 DEF SameSizes
<1>5. f[1] = q[1].size /\ f[1] \in Int
  <2>1. q[1].size \in Int  BY <1>1, SizesOf
  <2>2. f[0] = 0 /\ f[1] = f[0] + q[1].size  BY <1>1, <1>2 DEF SumsTo
  <2> QED  BY <2>1, <2>2
<1>6. g[n] \in Int /\ f[1 + n] = f[1] + g[n]
  <2>1. 1 \in Nat /\ 1 + n <= n + 1 /\ n + 1 \in Nat
    BY <1>1
  <2> QED  BY <1>1, <1>2, <1>3, <1>4, <1>5, <2>1, SumsAgree
<1> QED  BY <1>1, <1>2, <1>3, <1>5, <1>6 DEF r

\* The front of a sequence is not larger than that of the sequence it is the tail of.
Front(q) == SubSeq(q, 1, Len(q) - 1)

\* The packets of a sequence without its last one.
LEMMA FrontParts ==
    ASSUME NEW q \in Seq(Packet), q # << >>
    PROVE  /\ Front(q) \in Seq(Packet) /\ Len(Front(q)) = Len(q) - 1
           /\ \A i \in 1 .. Len(q) - 1 : Front(q)[i] = q[i]
<1> DEFINE n == Len(q) - 1
<1>1. n \in Nat
  OBVIOUS
<1>2. \A i \in 1 .. n : q[i] \in Packet
  OBVIOUS
<1> HIDE DEF n
<1>3. /\ SubSeq(q, 1, n) \in Seq(Packet)
      /\ Len(SubSeq(q, 1, n)) = IF 1 <= n THEN n - 1 + 1 ELSE 0
      /\ \A i \in 1 .. n - 1 + 1 : SubSeq(q, 1, n)[i] = q[1 + i - 1]
  <2>1. 1 \in Int /\ n \in Int
    BY <1>1
  <2> QED  BY <1>2, <2>1, SubSeqProperties
<1>4. /\ SubSeq(q, 1, n) \in Seq(Packet) /\ Len(SubSeq(q, 1, n)) = n
      /\ \A i \in 1 .. n : SubSeq(q, 1, n)[i] = q[i]
  BY <1>1, <1>3
<1> QED  BY <1>4 DEF Front, n

\* What is in front of the packet just appended is the sequence itself.
LEMMA FrontAppend ==
    ASSUME NEW q \in Seq(Packet), NEW p \in Packet
    PROVE  Front(Append(q, p)) = q
<1> DEFINE r == Append(q, p)
<1>1. r \in Seq(Packet) /\ r # << >> /\ Len(r) = Len(q) + 1 /\ \A i \in 1 .. Len(q) : r[i] = q[i]
  OBVIOUS
<1> HIDE DEF r
<1>2. /\ Front(r) \in Seq(Packet) /\ Len(Front(r)) = Len(q)
      /\ \A i \in 1 .. Len(Front(r)) : Front(r)[i] = q[i]
  <2>1. /\ Front(r) \in Seq(Packet) /\ Len(Front(r)) = Len(r) - 1
        /\ \A i \in 1 .. Len(r) - 1 : Front(r)[i] = r[i]
    BY <1>1, FrontParts
  <2> QED  BY <1>1, <2>1
<1>3. Front(r) = q
  BY <1>2, SeqEqual
<1> QED  BY <1>3 DEF r

\* Taking a packet from the head does not make the front larger.
LEMMA TotalFront ==
    ASSUME NEW q \in Seq(Packet), q # << >>, Tail(q) # << >>
    PROVE  TotalSize(Front(Tail(q))) <= TotalSize(Front(q))
<1> DEFINE front == Front(q)
           r == Tail(q)
           n == Len(q)
<1>1. /\ n \in Nat /\ n >= 2 /\ r \in Seq(Packet) /\ r # << >> /\ Len(r) = n - 1
      /\ \A i \in 1 .. n - 1 : r[i] = q[i + 1]
  OBVIOUS
<1> HIDE DEF r
<1>2. /\ front \in Seq(Packet) /\ Len(front) = n - 1
      /\ \A i \in 1 .. n - 1 : front[i] = q[i]
  BY FrontParts
<1>3. /\ Front(r) \in Seq(Packet) /\ Len(Front(r)) = n - 2
      /\ \A i \in 1 .. n - 2 : Front(r)[i] = q[i + 1]
  <2>1. /\ Front(r) \in Seq(Packet) /\ Len(Front(r)) = Len(r) - 1
        /\ \A i \in 1 .. Len(r) - 1 : Front(r)[i] = r[i]
    BY <1>1, FrontParts
  <2> QED  BY <1>1, <2>1
<1> HIDE DEF front, n
<1>4. front # << >>
  BY <1>1, <1>2
<1>5. Tail(front) \in Seq(Packet) /\ Len(Tail(front)) = n - 2 /\ \A i \in 1 .. n - 2 : Tail(front)[i] = q[i + 1]
  BY <1>1, <1>2, <1>4
<1>6. Tail(front) = Front(r)
  <2>1. Len(Tail(front)) = Len(Front(r)) /\ \A i \in 1 .. Len(Tail(front)) : Tail(front)[i] = Front(r)[i]
    BY <1>1, <1>3, <1>5
  <2> QED  BY <1>3, <1>5, <2>1, SeqEqual
<1>7. TotalSize(front) = Head(front).size + TotalSize(Tail(front))
  BY <1>2, <1>4, TotalTail
<1>8. Head(front) \in Packet
  BY <1>2, <1>4
<1>9. Head(front).size \in Nat /\ TotalSize(Tail(front)) \in Nat
  BY <1>5, <1>8, TotalType, PacketParts
<1>10. TotalSize(Tail(front)) <= TotalSize(front)
  BY <1>7, <1>9
<1> QED  BY <1>6, <1>10 DEF front, r

-----------------------------------------------------------------------------
(***************************************************************************)
(* The types of the variables, and the queue.                               *)
(***************************************************************************)

\* Where a reader, and where the main thread, has a packet in its hands.
InCallback == {"callback", "queue", "flushed++", "dropped++"}
Handling == {"write", "save", "flushed++", "dropped++"}

\* The types the invariants below rest on.
LoopTypes ==
    /\ opts \in ConfigType
    /\ arrived \in [Sources -> Nat]
    /\ queue \in Seq(Packet)
    /\ out \in Seq(Seq(Packet)) /\ out # << >>
    /\ \A s \in Sources : rpc[s] \in InCallback => rhand[s] \in Packet /\ rhand[s].src = s
    /\ wpc \in Handling => whand \in Packet
    /\ wpc \notin Handling => whand = NoPacket

\* s with its last element replaced.
LEMMA SetLastParts ==
    ASSUME NEW S, NEW q \in Seq(S), q # << >>, NEW e \in S
    PROVE  /\ SetLast(q, e) \in Seq(S) /\ Len(SetLast(q, e)) = Len(q)
           /\ Len(q) \in Nat \ {0} /\ Last(q) \in S
           /\ SetLast(q, e)[Len(q)] = e
           /\ \A i \in 1 .. Len(q) - 1 : SetLast(q, e)[i] = q[i]
<1>1. Len(q) \in Nat \ {0} /\ Len(q) \in 1 .. Len(q)
  OBVIOUS
<1>2. /\ [q EXCEPT ![Len(q)] = e] \in Seq(S)
      /\ Len([q EXCEPT ![Len(q)] = e]) = Len(q)
      /\ \A j \in 1 .. Len(q) : [q EXCEPT ![Len(q)] = e][j] = IF j = Len(q) THEN e ELSE q[j]
  BY <1>1, ExceptSeq
<1>3. Last(q) \in S
  BY <1>1 DEF Last
<1>4. /\ SetLast(q, e) \in Seq(S) /\ Len(SetLast(q, e)) = Len(q)
      /\ \A j \in 1 .. Len(q) : SetLast(q, e)[j] = IF j = Len(q) THEN e ELSE q[j]
  BY <1>2 DEF SetLast
<1> QED  BY <1>1, <1>3, <1>4

\* The types hold when the loop is entered, ...
LEMMA InitTypes == Init => LoopTypes
  BY ConfigsAssumption DEF Init, LoopTypes, InCallback, Handling

\* ... and every step keeps them.
LEMMA NextTypes == LoopIInv /\ LoopTypes /\ [Next]_vars => LoopTypes'
<1> SUFFICES ASSUME LoopIInv, LoopTypes, [Next]_vars PROVE LoopTypes'
  OBVIOUS
<1> USE DEF InCallback, Handling, LoopTypes, queueVars, fileVars, readerVars, writerVars
<1>0. wret \in {"update", "batch", "loop", "drain"} /\ rpc = [s \in Sources |-> rpc[s]]
      /\ rhand = [s \in Sources |-> rhand[s]]
  BY DEF LoopIInv, Shape
<1>1. ASSUME NEW s \in Sources, Reader(s) PROVE LoopTypes'
  <2>1. CASE ReaderLoop(s)
    BY <1>0, <2>1 DEF ReaderLoop
  <2>2. ASSUME NEW size \in Sizes, ReaderPacket(s, size) PROVE LoopTypes'
    <3> DEFINE p == [src |-> s, seq |-> arrived[s] + 1, size |-> size]
    <3>1. p \in Packet /\ p.src = s /\ arrived' \in [Sources -> Nat]
      BY <2>2 DEF ReaderPacket, Packet
    <3>2. rhand' = [rhand EXCEPT ![s] = p] /\ rpc' = [rpc EXCEPT ![s] = "callback"]
      BY <2>2 DEF ReaderPacket
    <3> HIDE DEF p
    <3> QED  BY <1>0, <2>2, <3>1, <3>2 DEF ReaderPacket
  <2>3. CASE ReaderReturn(s)
    BY <1>0, <2>3 DEF ReaderReturn
  <2>4. CASE ReaderEnds(s)
    BY <1>0, <2>4 DEF ReaderEnds
  <2>5. CASE QueuePacketCheck(s)
    BY <1>0, <2>5 DEF QueuePacketCheck
  <2>6. CASE QueuePacket(s)
    BY <1>0, <2>6 DEF QueuePacket, Pushed, AfterCallback
  <2>7. CASE QueueFull(s)
    BY <1>0, <2>7 DEF QueueFull
  <2>8. CASE ReaderCounts(s)
    BY <1>0, <2>8 DEF ReaderCounts, AfterCallback
  <2> QED  BY <1>1, <2>1, <2>2, <2>3, <2>4, <2>5, <2>6, <2>7, <2>8 DEF Reader
<1>2. CASE Writer
  <2>1. CASE LoopTest \/ DequeueTimeout \/ IdleCheck \/ NoUpdate \/ Update \/ DurationOver
             \/ FileTimerOver \/ TimersDone \/ Join
    BY <1>0, <2>1 DEF LoopTest, DequeueTimeout, IdleCheck, NoUpdate, Update, DurationOver,
       FileTimerOver, TimersDone, Join
  <2>2. CASE Dequeue
    BY <1>0, <2>2 DEF Dequeue
  <2>3. ASSUME NEW s \in Sources, NEW size \in Sizes, DispatchPacket(s, size) PROVE LoopTypes'
    <3> DEFINE p == [src |-> s, seq |-> arrived[s] + 1, size |-> size]
    <3>1. p \in Packet /\ p.src = s /\ arrived' \in [Sources -> Nat]
      BY <2>3 DEF DispatchPacket, Packet
    <3>2. whand' = p
      BY <2>3 DEF DispatchPacket
    <3> HIDE DEF p
    <3> QED  BY <1>0, <2>3, <3>1, <3>2 DEF DispatchPacket
  <2>4. ASSUME NEW s \in Sources, DispatchReturn(s) \/ DispatchEnds(s) PROVE LoopTypes'
    BY <1>0, <2>4 DEF DispatchReturn, DispatchEnds
  <2>5. CASE WritePacketFlushed \/ WritePacketCheck \/ WritePacketFails \/ WriterCounts
    BY <1>0, <2>5 DEF WritePacketFlushed, WritePacketCheck, WritePacketFails, WriterCounts
  <2>6. CASE WritePacket
    <3>1. Last(out) \in Seq(Packet) /\ whand \in Packet
      BY <2>6 DEF WritePacket, Last
    <3>2. Append(Last(out), whand) \in Seq(Packet)
      BY <3>1
    <3>3. out' \in Seq(Seq(Packet)) /\ Len(out') = Len(out) /\ Len(out) \in Nat \ {0}
      BY <2>6, <3>2, SetLastParts DEF WritePacket
    <3>4. out' # << >>
      BY <3>3
    <3> QED  BY <1>0, <2>6, <3>3, <3>4 DEF WritePacket
  <2>7. CASE SwitchStops \/ SwitchFails
    BY <1>0, <2>7 DEF SwitchStops, SwitchFails
  <2>8. CASE SwitchSucceeds \/ SwitchFailsOnStart
    <3>1. out' = Append(out, << >>)
      BY <2>8 DEF SwitchSucceeds, SwitchFailsOnStart
    <3>2. out' \in Seq(Seq(Packet)) /\ out' # << >>
      <4>1. << >> \in Seq(Packet)
        OBVIOUS
      <4> QED  BY <3>1, <4>1, AppendProperties
    <3> QED  BY <1>0, <2>8, <3>2 DEF SwitchSucceeds, SwitchFailsOnStart
  <2>9. CASE UpdateOnClosedStream
    BY <1>0, <2>9 DEF UpdateOnClosedStream
  <2>10. CASE \E finish_ok, close_ok \in BOOLEAN : Finish(finish_ok, close_ok)
    BY <1>0, <2>10 DEF Finish
  <2> QED  BY <1>2, <2>1, <2>2, <2>3, <2>4, <2>5, <2>6, <2>7, <2>8, <2>9, <2>10 DEF Writer
<1>3. CASE Stop
  BY <1>3 DEF Stop
<1>4. CASE UNCHANGED vars
  BY <1>4 DEF vars
<1> QED  BY <1>1, <1>2, <1>3, <1>4 DEF Next, Terminated

-----------------------------------------------------------------------------
\* Only a reader in its callback and the main thread's dequeue touch the queue.
LEMMA QueueSteps ==
    ASSUME [Next]_vars
    PROVE  \/ \E s \in Sources : QueuePacket(s)
           \/ Dequeue
           \/ UNCHANGED <<opts, queueVars>>
<1>1. ASSUME NEW s \in Sources, Reader(s) PROVE QueuePacket(s) \/ UNCHANGED <<opts, queueVars>>
  BY <1>1 DEF Reader, ReaderLoop, ReaderPacket, ReaderReturn, ReaderEnds, QueuePacketCheck,
     QueueFull, ReaderCounts
<1>2. CASE Writer
  BY <1>2 DEF Writer, LoopTest, DequeueTimeout, DispatchPacket, DispatchReturn,
     DispatchEnds, IdleCheck, WritePacketFlushed, WritePacketCheck,
     WritePacketFails, WriterCounts, WritePacket, SwitchStops, SwitchSucceeds, SwitchFails,
     SwitchFailsOnStart, NoUpdate, Update, UpdateOnClosedStream, DurationOver,
     FileTimerOver, TimersDone, Join, Finish
<1>3. CASE Stop
  BY <1>3 DEF Stop
<1>4. CASE UNCHANGED vars
  BY <1>4 DEF vars
<1> QED  BY <1>1, <1>2, <1>3, <1>4 DEF Next, Terminated

\* Every step keeps the queue within its limits: the limits are tested before the
\* packet is queued, under the same lock.
LEMMA NextQueue == LoopTypes /\ QueueBounded /\ [Next]_vars => QueueBounded'
<1> SUFFICES ASSUME LoopTypes, QueueBounded, [Next]_vars PROVE QueueBounded'
  OBVIOUS
<1>0. /\ queue \in Seq(Packet) /\ Len(queue) \in Nat /\ TotalSize(queue) \in Nat
      /\ opts.byte_limit \in Nat /\ opts.packet_limit \in Nat
  BY TotalType DEF LoopTypes, ConfigType
<1>1. ASSUME NEW s \in Sources, QueuePacket(s) PROVE QueueBounded'
  <2> DEFINE p == rhand[s]
             q == Append(queue, p)
  <2>1. p \in Packet /\ p.size \in Nat
    BY <1>1, PacketParts DEF QueuePacket, LoopTypes, InCallback
  <2>2. queue' = q /\ pcap_queue_bytes' = pcap_queue_bytes + p.size
        /\ pcap_queue_packets' = pcap_queue_packets + 1 /\ opts' = opts
    BY <1>1 DEF QueuePacket, Pushed
  <2>3. Len(q) = Len(queue) + 1 /\ TotalSize(q) = TotalSize(queue) + p.size /\ Front(q) = queue
    BY <1>0, <2>1, TotalAppend, FrontAppend
  <2> HIDE DEF p, q
  <2>4. opts.byte_limit # 0 => TotalSize(queue) < opts.byte_limit
    BY <1>1 DEF QueuePacket, QueueHasRoom, QueueBounded
  <2>5. opts.packet_limit # 0 => Len(queue) < opts.packet_limit
    BY <1>1 DEF QueuePacket, QueueHasRoom, QueueBounded
  <2>6. opts.byte_limit # 0 => TotalSize(Front(q)) < opts.byte_limit
    BY <2>3, <2>4
  <2>7. pcap_queue_packets' = Len(q) /\ pcap_queue_bytes' = TotalSize(q)
    BY <2>2, <2>3 DEF QueueBounded
  <2>8. opts.packet_limit # 0 => Len(q) <= opts.packet_limit
    BY <1>0, <2>3, <2>5
  <2> QED  BY <2>2, <2>6, <2>7, <2>8 DEF QueueBounded, Front
<1>2. CASE Dequeue
  <2> DEFINE p == Head(queue)
             q == Tail(queue)
  <2>0. queue # << >> /\ queue' = q /\ pcap_queue_bytes' = pcap_queue_bytes - p.size
        /\ pcap_queue_packets' = pcap_queue_packets - 1 /\ opts' = opts
    BY <1>2 DEF Dequeue, FreedBytes
  <2>1. p \in Packet /\ q \in Seq(Packet) /\ Len(q) = Len(queue) - 1
    BY <1>0, <2>0
  <2>2. p.size \in Nat /\ TotalSize(q) \in Nat
    BY <2>1, PacketParts, TotalType
  <2>3. TotalSize(queue) = p.size + TotalSize(q)
    BY <1>0, <2>0, TotalTail
  <2>4. q # << >> => TotalSize(Front(q)) <= TotalSize(Front(queue))
    BY <1>0, <2>0, TotalFront
  <2>5. q # << >> => TotalSize(Front(q)) \in Nat /\ TotalSize(Front(queue)) \in Nat
    <3>1. Front(queue) \in Seq(Packet) /\ (q # << >> => Front(q) \in Seq(Packet))
      BY <1>0, <2>0, <2>1, FrontParts
    <3> QED  BY <3>1, TotalType
  <2> HIDE DEF p, q
  <2>6. opts.byte_limit # 0 /\ q # << >> => TotalSize(Front(q)) < opts.byte_limit
    <3>1. opts.byte_limit # 0 => TotalSize(Front(queue)) < opts.byte_limit
      BY <2>0 DEF QueueBounded, Front
    <3> QED  BY <1>0, <2>4, <2>5, <3>1
  <2> QED  BY <1>0, <2>0, <2>1, <2>2, <2>3, <2>6 DEF QueueBounded, Front
<1>3. CASE UNCHANGED <<opts, queueVars>>
  BY <1>3 DEF queueVars, QueueBounded
<1> QED  BY <1>1, <1>2, <1>3, QueueSteps

\* The counters the limits of the queue are checked against are right, and both
\* limits hold, for every set of readers.
THEOREM QueueStaysBounded == Spec => []QueueBounded
<1>1. Init => QueueBounded
  BY TotalEmpty, InitTypes DEF Init, QueueBounded, LoopTypes, ConfigType
<1>2. Init => LoopIInv /\ LoopTypes /\ QueueBounded
  BY <1>1, InitLoop, InitTypes
<1>3. LoopIInv /\ LoopTypes /\ QueueBounded /\ [Next]_vars => (LoopIInv /\ LoopTypes /\ QueueBounded)'
  BY NextLoop, NextTypes, NextQueue
<1> QED  BY <1>2, <1>3, PTL DEF Spec

-----------------------------------------------------------------------------
(***************************************************************************)
(* The files.                                                               *)
(***************************************************************************)

\* What FilesAsAsked says of one file, and of a file that was switched from.
BytesUpTo(p, k) == HeaderSize + k * RecordSize + TotalSize(SubSeq(p, 1, k))
FileOK(p) ==
    /\ opts.file_packets # 0 => Len(p) <= opts.file_packets
    /\ opts.autostop_filesize # 0 =>
         \A k \in 1 .. Len(p) - 1 : BytesUpTo(p, k) < 1000 * opts.autostop_filesize
FileLeft(p) ==
    \/ Len(p) > 0 /\ Len(p) = opts.file_packets
    \/ opts.autostop_filesize # 0 /\ BytesUpTo(p, Len(p)) >= 1000 * opts.autostop_filesize

\* There is room in the current file for a packet.
Room ==
    /\ opts.file_packets # 0 => packets_written < opts.file_packets
    /\ opts.autostop_filesize # 0 /\ packets_written > 0 =>
         bytes_written < 1000 * opts.autostop_filesize

\* The counters are those of the current file; there is room in it whenever a
\* packet may be written, and it is full when it is switched from.
FileInv ==
    /\ packets_written = Len(Last(out))
    /\ bytes_written = HeaderSize + Len(Last(out)) * RecordSize + TotalSize(Last(out))
    /\ file_count \in Nat
    /\ opts.autostop_files # 0 => Len(out) <= file_count + 1
    /\ (go /\ wpc # "switch") \/ wpc = "save" => Room
    /\ wpc = "switch" /\ ~opts.file_timer => FileFull(packets_written, bytes_written)

\* The same for the sequence of files.
LEMMA SetLastFile ==
    ASSUME NEW q \in Seq(Seq(Packet)), q # << >>, NEW e \in Seq(Packet)
    PROVE  /\ SetLast(q, e) \in Seq(Seq(Packet)) /\ Len(SetLast(q, e)) = Len(q)
           /\ SetLast(q, e)[Len(q)] = e
           /\ \A i \in 1 .. Len(q) - 1 : SetLast(q, e)[i] = q[i]
<1>1. PICK S : S = Seq(Packet)
  OBVIOUS
<1>2. q \in Seq(S) /\ e \in S
  BY <1>1
<1> QED  BY <1>1, <1>2, SetLastParts

\* FilesAsAsked, file by file.
LEMMA FilesAsAskedParts ==
    FilesAsAsked <=>
      /\ opts.autostop_files # 0 => Len(out) <= opts.autostop_files
      /\ \A f \in DOMAIN out :
           FileOK(out[f]) /\ (f < Len(out) /\ ~opts.file_timer => FileLeft(out[f]))
  BY DEF FilesAsAsked, FileOK, FileLeft, BytesUpTo

\* The start of a sequence does not change when a packet is appended to it.
LEMMA SubSeqAppend ==
    ASSUME NEW p \in Seq(Packet), NEW e \in Packet, NEW k \in 1 .. Len(p)
    PROVE  SubSeq(Append(p, e), 1, k) = SubSeq(p, 1, k)
<1> DEFINE r == Append(p, e)
<1>1. /\ \A i \in 1 .. k : r[i] = p[i] /\ p[i] \in Packet
      /\ k \in Int /\ 1 \in Int /\ k >= 1
  OBVIOUS
<1> HIDE DEF r
<1>2. /\ SubSeq(p, 1, k) \in Seq(Packet) /\ Len(SubSeq(p, 1, k)) = IF 1 <= k THEN k - 1 + 1 ELSE 0
      /\ \A i \in 1 .. k - 1 + 1 : SubSeq(p, 1, k)[i] = p[1 + i - 1]
  BY <1>1, SubSeqProperties
<1>3. /\ SubSeq(r, 1, k) \in Seq(Packet) /\ Len(SubSeq(r, 1, k)) = IF 1 <= k THEN k - 1 + 1 ELSE 0
      /\ \A i \in 1 .. k - 1 + 1 : SubSeq(r, 1, k)[i] = r[1 + i - 1]
  <2>1. \A i \in 1 .. k : r[i] \in Packet
    BY <1>1
  <2> QED  BY <1>1, <2>1, SubSeqProperties
<1>4. /\ Len(SubSeq(r, 1, k)) = Len(SubSeq(p, 1, k))
      /\ \A i \in 1 .. Len(SubSeq(r, 1, k)) : SubSeq(r, 1, k)[i] = SubSeq(p, 1, k)[i]
  BY <1>1, <1>2, <1>3
<1>5. SubSeq(r, 1, k) = SubSeq(p, 1, k)
  BY <1>2, <1>3, <1>4, SeqEqual
<1> QED  BY <1>5 DEF r

\* The steps that write, switch or may do so next.
LEMMA FileSteps ==
    ASSUME LoopIInv, [Next]_vars
    PROVE  \/ WritePacket \/ SwitchStops \/ SwitchSucceeds \/ SwitchFails \/ SwitchFailsOnStart
           \/ FileTimerOver
           \/ /\ UNCHANGED <<opts, out, packets_written, bytes_written, file_count>>
              /\ go' => go
              /\ wpc' = "switch" <=> wpc = "switch"
              /\ wpc' = "save" => wpc = "save" \/ (go /\ wpc = "write")
<1> USE DEF fileVars, writerVars
<1>0. wret \in {"update", "batch", "loop", "drain"}
  BY DEF LoopIInv, Shape
<1>1. ASSUME NEW s \in Sources, Reader(s)
      PROVE  UNCHANGED <<opts, out, packets_written, bytes_written, file_count, wpc>> /\ (go' => go)
  BY <1>1 DEF Reader, ReaderLoop, ReaderPacket, ReaderReturn, ReaderEnds, SourceEnds, QueuePacketCheck,
     QueuePacket, QueueFull, ReaderCounts
<1>2. ASSUME Writer
      PROVE  \/ WritePacket \/ SwitchStops \/ SwitchSucceeds \/ SwitchFails \/ SwitchFailsOnStart
             \/ FileTimerOver
             \/ /\ UNCHANGED <<opts, out, packets_written, bytes_written, file_count>>
                /\ go' => go
                /\ wpc # "switch" /\ wpc' # "switch"
                /\ wpc' = "save" => wpc = "save" \/ (go /\ wpc = "write")
  BY <1>0, <1>2 DEF Writer, LoopTest, Dequeue, DequeueTimeout, DispatchPacket, DispatchReturn,
     DispatchEnds, SourceEnds, IdleCheck, WritePacketFlushed, WritePacketCheck, Saving,
     WritePacketFails, WriterCounts, NoUpdate, Update, UpdateOnClosedStream, DurationOver,
     TimersDone, Join, Finish
<1>3. CASE Stop
  BY <1>3 DEF Stop
<1>4. CASE UNCHANGED vars
  BY <1>4 DEF vars
<1> QED  BY <1>1, <1>2, <1>3, <1>4 DEF Next, Terminated

\* The first file is empty.
LEMMA InitFiles == Init => FileInv /\ FilesAsAsked
<1> SUFFICES ASSUME Init PROVE FileInv /\ FilesAsAsked
  OBVIOUS
<1>1. opts \in ConfigType
  BY ConfigsAssumption DEF Init
<1>2. out = << << >> >> /\ Len(out) = 1 /\ DOMAIN out = {1} /\ out[1] = << >> /\ Last(out) = << >>
  BY DEF Init, Last
<1>3. FileInv
  BY <1>1, <1>2, TotalEmpty, SizesAssumption DEF Init, FileInv, Room, FileFull, ConfigType
<1>4. FileOK(<< >>)
  BY <1>1 DEF FileOK, ConfigType
<1> QED  BY <1>1, <1>2, <1>3, <1>4, FilesAsAskedParts DEF ConfigType

\* Writing a packet keeps the current file within its limits, and leaves no room
\* only when the capture stops or the file is switched from.
LEMMA WriteKeepsFiles ==
    ASSUME LoopIInv, LoopTypes, FileInv, FilesAsAsked, WritePacket
    PROVE  FileInv' /\ FilesAsAsked'
<1> DEFINE p == Last(out)
           r == Append(p, whand)
           n == Len(p)
           k == Len(out)
<1>1. /\ p \in Seq(Packet) /\ whand \in Packet /\ n \in Nat /\ k \in Nat \ {0}
      /\ out \in Seq(Seq(Packet)) /\ DOMAIN out = 1 .. k /\ out[k] = p
  BY DEF WritePacket, LoopTypes, Handling, Last
<1>2. whand.size \in Nat /\ TotalSize(p) \in Nat /\ HeaderSize \in Nat /\ RecordSize \in Nat
  BY <1>1, PacketParts, TotalType, SizesAssumption
<1>3. /\ opts.file_packets \in Nat /\ opts.autostop_filesize \in Nat /\ opts.autostop_files \in Nat
      /\ opts' = opts /\ file_count' = file_count /\ wpc = "save"
      /\ wret \in {"update", "batch", "loop", "drain"}
  BY DEF LoopTypes, ConfigType, WritePacket, LoopIInv, Shape
<1>4. r \in Seq(Packet) /\ Len(r) = n + 1 /\ TotalSize(r) = TotalSize(p) + whand.size
  BY <1>1, TotalAppend
<1>5. /\ out' \in Seq(Seq(Packet)) /\ Len(out') = k /\ DOMAIN out' = 1 .. k /\ out'[k] = r
      /\ \A f \in 1 .. k - 1 : out'[f] = out[f]
  <2>1. out' = SetLast(out, r) /\ out # << >>
    BY DEF WritePacket, LoopTypes
  <2>2. /\ SetLast(out, r) \in Seq(Seq(Packet)) /\ Len(SetLast(out, r)) = k
        /\ SetLast(out, r)[k] = r
        /\ \A f \in 1 .. k - 1 : SetLast(out, r)[f] = out[f]
    BY <1>1, <1>4, <2>1, SetLastFile
  <2> HIDE DEF r
  <2> QED  BY <2>1, <2>2
<1>6. Last(out') = r
  BY <1>5 DEF Last
<1>7. /\ packets_written = n /\ packets_written' = n + 1
      /\ bytes_written = HeaderSize + n * RecordSize + TotalSize(p)
      /\ bytes_written' = bytes_written + RecordSize + whand.size
  BY DEF WritePacket, FileInv
<1>8. bytes_written' = HeaderSize + Len(r) * RecordSize + TotalSize(r)
  <2>1. (n + 1) * RecordSize = n * RecordSize + RecordSize /\ n * RecordSize \in Nat
    BY <1>1, <1>2
  <2> QED  BY <1>2, <1>4, <1>7, <2>1
<1>9. bytes_written \in Nat /\ bytes_written' \in Nat
  <2>1. n * RecordSize \in Nat
    BY <1>1, <1>2
  <2> QED  BY <1>2, <1>7, <2>1
<1>10. /\ \A j \in 1 .. n : SubSeq(r, 1, j) = SubSeq(p, 1, j)
       /\ n > 0 => SubSeq(p, 1, n) = p
  BY <1>1, SubSeqAppend, SubSeqFull
<1>11. Room
  BY <1>3 DEF FileInv
<1>12. FileOK(p)
  BY <1>1, FilesAsAskedParts
<1> HIDE DEF p, r, n, k
<1>13. FileOK(r)
  <2>1. opts.file_packets # 0 => Len(r) <= opts.file_packets
    BY <1>1, <1>3, <1>4, <1>7, <1>11 DEF Room
  <2>2. ASSUME opts.autostop_filesize # 0, NEW j \in 1 .. Len(r) - 1
        PROVE  BytesUpTo(r, j) < 1000 * opts.autostop_filesize
    <3>0. j \in 1 .. n
      BY <1>1, <1>4
    <3>1. BytesUpTo(r, j) = BytesUpTo(p, j)
      <4>1. SubSeq(r, 1, j) = SubSeq(p, 1, j)
        BY <1>10, <3>0
      <4> QED  BY <4>1 DEF BytesUpTo
    <3>2. CASE j < n
      BY <1>1, <2>2, <3>0, <3>1, <3>2, <1>12 DEF FileOK, n
    <3>3. CASE j = n
      <4>1. SubSeq(p, 1, n) = p
        BY <1>1, <1>10, <3>0
      <4>2. BytesUpTo(p, n) = bytes_written
        BY <1>7, <4>1 DEF BytesUpTo
      <4> QED  BY <1>1, <1>7, <1>11, <2>2, <3>0, <3>1, <3>3, <4>2 DEF Room
    <3> QED  BY <1>1, <3>0, <3>2, <3>3
  <2> QED  BY <2>1, <2>2 DEF FileOK
<1>14. FilesAsAsked'
  <2>1. \A f \in DOMAIN out' : FileOK(out'[f]) /\ (f < Len(out') /\ ~opts.file_timer => FileLeft(out'[f]))
    <3>1. \A f \in 1 .. k : FileOK(out[f]) /\ (f < k /\ ~opts.file_timer => FileLeft(out[f]))
      BY <1>1, FilesAsAskedParts DEF k
    <3> SUFFICES ASSUME NEW f \in 1 .. k
                 PROVE  FileOK(out'[f]) /\ (f < k /\ ~opts.file_timer => FileLeft(out'[f]))
      BY <1>5
    <3>2. CASE f = k
      BY <1>1, <1>5, <1>13, <3>2
    <3>3. CASE f # k
      <4>1. f \in 1 .. k - 1 /\ out'[f] = out[f]
        BY <1>1, <1>5, <3>3
      <4> QED  BY <3>1, <4>1
    <3> QED  BY <3>2, <3>3
  <2>2. (opts.autostop_files # 0 => Len(out) <= opts.autostop_files)
    BY DEF FilesAsAsked
  <2> QED  BY <1>3, <1>5, <2>1, <2>2 DEF k, FilesAsAsked, FileOK, FileLeft, BytesUpTo
<1>15. /\ opts.autostop_files # 0 => Len(out') <= file_count' + 1
       /\ file_count' \in Nat
  BY <1>3, <1>5 DEF FileInv, k
<1> DEFINE stop == AutostopReached(packets_captured + 1)
           full == FileFull(packets_written', bytes_written')
<1>16. go' = (go /\ ~stop) /\ wpc' = IF ~stop /\ full THEN "switch" ELSE wret
  BY <1>7 DEF WritePacket
<1>17. full = FileFull(packets_written, bytes_written)'
  BY <1>3 DEF FileFull
<1>18. ~full => Room'
  BY <1>3, <1>7, <1>9, <1>1 DEF FileFull, Room
<1> HIDE DEF stop, full
<1> QED
  BY <1>3, <1>4, <1>6, <1>7, <1>8, <1>14, <1>15, <1>16, <1>17, <1>18 DEF FileInv

\* A new file: the old one was full, unless a timer switched it.
LEMMA SwitchKeepsFiles ==
    ASSUME LoopIInv, LoopTypes, FileInv, FilesAsAsked, SwitchSucceeds \/ SwitchFailsOnStart
    PROVE  FileInv' /\ FilesAsAsked'
<1> DEFINE p == Last(out)
           n == Len(p)
           k == Len(out)
<1>1. /\ p \in Seq(Packet) /\ n \in Nat /\ k \in Nat \ {0}
      /\ out \in Seq(Seq(Packet)) /\ DOMAIN out = 1 .. k /\ out[k] = p
  BY DEF LoopTypes, Last
<1>2. TotalSize(p) \in Nat /\ HeaderSize \in Nat /\ RecordSize \in Nat
  BY <1>1, TotalType, SizesAssumption
<1>3. /\ opts.file_packets \in Nat /\ opts.autostop_filesize \in Nat /\ opts.autostop_files \in Nat
      /\ opts' = opts /\ wpc = "switch" /\ wpc' = wret /\ wret \in {"update", "batch", "loop", "drain"}
      /\ out' = Append(out, << >>) /\ packets_written' = 0 /\ bytes_written' = HeaderSize
      /\ opts.autostop_files # 0 => file_count + 1 < opts.autostop_files /\ file_count' = file_count + 1
      /\ opts.autostop_files = 0 => file_count' = file_count
  BY DEF LoopTypes, ConfigType, SwitchSucceeds, SwitchFailsOnStart, LoopIInv, Shape, FilesLeft, CountFile
<1>4. /\ out' \in Seq(Seq(Packet)) /\ Len(out') = k + 1 /\ DOMAIN out' = 1 .. k + 1
      /\ out'[k + 1] = << >> /\ \A f \in 1 .. k : out'[f] = out[f]
  <2>1. << >> \in Seq(Packet)
    OBVIOUS
  <2> QED  BY <1>1, <1>3, <2>1
<1>5. Last(out') = << >>
  BY <1>4 DEF Last
<1>6. packets_written = n /\ bytes_written = HeaderSize + n * RecordSize + TotalSize(p)
      /\ file_count \in Nat /\ (opts.autostop_files # 0 => k <= file_count + 1)
      /\ (~opts.file_timer => FileFull(packets_written, bytes_written))
  BY <1>3 DEF FileInv
<1>7. SubSeq(p, 1, n) = p
  BY <1>1, SubSeqFull
<1>8. \A f \in 1 .. k : FileOK(out[f]) /\ (f < k /\ ~opts.file_timer => FileLeft(out[f]))
  BY <1>1, FilesAsAskedParts DEF k
<1> HIDE DEF p, n, k
<1>9. BytesUpTo(p, n) = bytes_written /\ bytes_written \in Nat
  <2>1. n * RecordSize \in Nat
    BY <1>1, <1>2
  <2>2. BytesUpTo(p, n) = bytes_written
    BY <1>6, <1>7 DEF BytesUpTo
  <2> QED  BY <1>2, <1>6, <2>1, <2>2
<1>10. ~opts.file_timer => FileLeft(p)
  <2>1. FileOK(p)
    BY <1>1, <1>8
  <2>2. opts.file_packets # 0 => n <= opts.file_packets
    BY <2>1 DEF FileOK, n
  <2>3. ASSUME ~opts.file_timer
        PROVE  \/ opts.file_packets # 0 /\ n >= opts.file_packets
               \/ opts.autostop_filesize # 0 /\ bytes_written >= 1000 * opts.autostop_filesize
    BY <1>1, <1>3, <1>6, <1>9, <2>3 DEF FileFull
  <2> QED  BY <1>1, <1>3, <1>9, <2>2, <2>3 DEF FileLeft, n
<1>11. FileOK(<< >>)
  BY <1>3 DEF FileOK
<1>12. \A f \in DOMAIN out' : FileOK(out'[f]) /\ (f < Len(out') /\ ~opts.file_timer => FileLeft(out'[f]))
  <2> SUFFICES ASSUME NEW f \in 1 .. k + 1
               PROVE  FileOK(out'[f]) /\ (f < k + 1 /\ ~opts.file_timer => FileLeft(out'[f]))
    BY <1>4
  <2>1. CASE f = k + 1
    BY <1>1, <1>4, <1>11, <2>1
  <2>2. CASE f = k
    <3>1. f \in 1 .. k
      BY <1>1, <2>2
    <3> QED  BY <1>1, <1>4, <1>8, <1>10, <2>2, <3>1
  <2>3. CASE f # k + 1 /\ f # k
    <3>1. f \in 1 .. k /\ f < k /\ out'[f] = out[f]
      BY <1>1, <1>4, <2>3
    <3> QED  BY <1>8, <3>1
  <2> QED  BY <2>1, <2>2, <2>3
<1>13. opts.autostop_files # 0 => Len(out') <= opts.autostop_files /\ Len(out') <= file_count' + 1
  BY <1>1, <1>3, <1>4, <1>6
<1>14. FilesAsAsked'
  BY <1>3, <1>12, <1>13 DEF FilesAsAsked, FileOK, FileLeft, BytesUpTo
<1>15. file_count' \in Nat /\ Room'
  BY <1>3, <1>6 DEF Room
<1>16. packets_written' = Len(Last(out'))
  BY <1>3, <1>5
<1>17. bytes_written' = HeaderSize + Len(Last(out')) * RecordSize + TotalSize(Last(out'))
  <2>1. TotalSize(Last(out')) = 0 /\ Len(Last(out')) = 0
    BY <1>5, TotalEmpty
  <2> QED  BY <1>2, <1>3, <2>1
<1> QED  BY <1>3, <1>13, <1>14, <1>15, <1>16, <1>17 DEF FileInv

\* Every step keeps the files within what was asked for.
LEMMA NextFiles ==
    LoopIInv /\ LoopTypes /\ FileInv /\ FilesAsAsked /\ [Next]_vars => FileInv' /\ FilesAsAsked'
<1> SUFFICES ASSUME LoopIInv, LoopTypes, FileInv, FilesAsAsked, [Next]_vars
             PROVE  FileInv' /\ FilesAsAsked'
  OBVIOUS
<1>0. wret \in {"update", "batch", "loop", "drain"}
  BY DEF LoopIInv, Shape
<1>1. CASE WritePacket
  BY <1>1, WriteKeepsFiles
<1>2. CASE SwitchSucceeds \/ SwitchFailsOnStart
  BY <1>2, SwitchKeepsFiles
<1>3. CASE SwitchStops \/ SwitchFails
  <2>1. UNCHANGED <<opts, out, packets_written, bytes_written>> /\ ~go' /\ wpc' = wret
    BY <1>3 DEF SwitchStops, SwitchFails
  <2>2. file_count' \in Nat /\ file_count' >= file_count /\ file_count \in Nat
    BY <1>3 DEF SwitchStops, SwitchFails, CountFile, FileInv
  <2>3. Len(out) \in Nat
    BY DEF LoopTypes
  <2>4. FilesAsAsked'
    BY <2>1 DEF FilesAsAsked
  <2>5. opts.autostop_files # 0 => Len(out) <= file_count' + 1
    BY <2>2, <2>3 DEF FileInv
  <2> QED  BY <1>0, <2>1, <2>2, <2>4, <2>5 DEF FileInv
<1>4. CASE FileTimerOver
  BY <1>4 DEF FileTimerOver, fileVars, FileInv, Room, FileFull, FilesAsAsked
<1>5. CASE /\ UNCHANGED <<opts, out, packets_written, bytes_written, file_count>>
           /\ go' => go
           /\ wpc' = "switch" <=> wpc = "switch"
           /\ wpc' = "save" => wpc = "save" \/ (go /\ wpc = "write")
  BY <1>5 DEF FileInv, Room, FileFull, FilesAsAsked
<1> QED  BY <1>1, <1>2, <1>3, <1>4, <1>5, FileSteps

\* The files are what the -a and -b options ask for, whatever the options, the
\* sizes of the packets and the interleaving of the threads: capture_loop_write_packet_cb
\* tests the limits after each packet, and nothing is written before the switch.
THEOREM FilesStayAsAsked == Spec => []FilesAsAsked
<1> DEFINE I == LoopIInv /\ LoopTypes /\ FileInv /\ FilesAsAsked
<1>1. Init => I
  BY InitLoop, InitTypes, InitFiles
<1>2. I /\ [Next]_vars => I'
  BY NextLoop, NextTypes, NextFiles
<1> QED  BY <1>1, <1>2, PTL DEF Spec

-----------------------------------------------------------------------------
(***************************************************************************)
(* What the parent is told.                                                 *)
(***************************************************************************)

\* The record of what the parent was told.
ParentShape(p) ==
    /\ p = [files |-> p.files, drops |-> p.drops, errors |-> p.errors]
    /\ p.files \in Seq(Nat) /\ p.files # << >> /\ p.errors \in Nat

ParentTypes ==
    /\ ParentShape(parent)
    /\ inpkts_to_sync_pipe \in Nat
    /\ visible \in Seq(Nat) /\ Len(visible) = Len(out)

\* What was and what is still to be reported of the file last announced are the
\* packets in it; a file the parent does not know of is empty, and there is one
\* only after an error; after an error nothing is written any more.
ParentInv ==
    LET k == Len(parent.files)
    IN  /\ k <= Len(out)
        /\ parent.files[k] + inpkts_to_sync_pipe = Len(out[k])
        /\ \A f \in 1 .. k - 1 : parent.files[f] = Len(out[f])
        /\ \A f \in k + 1 .. Len(out) : out[f] = << >>
        /\ failed = {} => k = Len(out) /\ \A f \in 1 .. k : parent.files[f] <= visible[f]
        /\ failed # {} => ~go /\ wpc # "save"
        /\ pdh # "open" => failed # {}
        /\ wpc = "done" => inpkts_to_sync_pipe = 0

\* The same for sequences of counts.
LEMMA SetLastNat ==
    ASSUME NEW q \in Seq(Nat), q # << >>, NEW e \in Nat
    PROVE  /\ SetLast(q, e) \in Seq(Nat) /\ Len(SetLast(q, e)) = Len(q)
           /\ SetLast(q, e)[Len(q)] = e
           /\ \A i \in 1 .. Len(q) - 1 : SetLast(q, e)[i] = q[i]
           /\ SetLast(q, e) # << >>
<1>1. PICK S : S = Nat
  OBVIOUS
<1>2. q \in Seq(S) /\ e \in S
  BY <1>1
<1>3. /\ SetLast(q, e) \in Seq(S) /\ Len(SetLast(q, e)) = Len(q)
      /\ Len(q) \in Nat \ {0}
      /\ SetLast(q, e)[Len(q)] = e
      /\ \A i \in 1 .. Len(q) - 1 : SetLast(q, e)[i] = q[i]
  BY <1>2, SetLastParts
<1>4. SetLast(q, e) # << >>
  BY <1>3
<1> QED  BY <1>1, <1>3, <1>4

\* What the messages to the parent change.
LEMMA ReportParts ==
    ASSUME NEW p, ParentShape(p), NEW n \in Nat
    PROVE  /\ ParentShape(report_packet_count(p, n))
           /\ ParentShape(report_new_capture_file(p))
           /\ ParentShape(report_capture_error(p))
           /\ report_packet_count(p, n).files = SetLast(p.files, Last(p.files) + n)
           /\ report_packet_count(p, n).errors = p.errors
           /\ report_new_capture_file(p).files = Append(p.files, 0)
           /\ report_new_capture_file(p).errors = p.errors
           /\ report_capture_error(p).files = p.files
           /\ report_capture_error(p).errors = p.errors + 1
<1>1. p.files \in Seq(Nat) /\ p.files # << >> /\ p.errors \in Nat
      /\ p = [files |-> p.files, drops |-> p.drops, errors |-> p.errors]
  BY DEF ParentShape
<1>2. Last(p.files) \in Nat
  BY <1>1 DEF Last
<1>3. Last(p.files) + n \in Nat
  BY <1>2
<1>4. SetLast(p.files, Last(p.files) + n) \in Seq(Nat) /\ SetLast(p.files, Last(p.files) + n) # << >>
  BY <1>1, <1>3, SetLastNat
<1>5. Append(p.files, 0) \in Seq(Nat) /\ Append(p.files, 0) # << >>
  BY <1>1
<1> DEFINE a == SetLast(p.files, Last(p.files) + n)
           b == Append(p.files, 0)
<1>6. report_packet_count(p, n) = [files |-> a, drops |-> p.drops, errors |-> p.errors]
  BY <1>1 DEF report_packet_count
<1>7. report_new_capture_file(p) = [files |-> b, drops |-> p.drops, errors |-> p.errors]
  <2>1. report_new_capture_file(p) = [p EXCEPT !.files = b]
    BY DEF report_new_capture_file
  <2> HIDE DEF b
  <2> QED  BY <1>1, <2>1
<1>8. report_capture_error(p) = [files |-> p.files, drops |-> p.drops, errors |-> p.errors + 1]
  BY <1>1 DEF report_capture_error
<1> HIDE DEF a, b
<1>9. ParentShape(report_packet_count(p, n))
      /\ report_packet_count(p, n).files = a /\ report_packet_count(p, n).errors = p.errors
  BY <1>1, <1>4, <1>6 DEF ParentShape, a
<1>10. ParentShape(report_new_capture_file(p))
      /\ report_new_capture_file(p).files = b /\ report_new_capture_file(p).errors = p.errors
  BY <1>1, <1>5, <1>7 DEF ParentShape, b
<1>11. ParentShape(report_capture_error(p))
      /\ report_capture_error(p).files = p.files /\ report_capture_error(p).errors = p.errors + 1
  BY <1>1, <1>8 DEF ParentShape
<1> QED  BY <1>9, <1>10, <1>11 DEF a, b

\* The steps that write, report or fail, and what every other step leaves alone.
Quietly ==
    /\ UNCHANGED <<opts, out, visible, inpkts_to_sync_pipe, failed, pdh, err>>
    /\ parent' = parent \/ parent' = report_capture_error(parent)
    /\ go' => go
    /\ wpc' = "save" => wpc = "save" \/ go
    /\ wpc' = "switch" => wpc = "switch" \/ opts.file_timer
    /\ wpc' = "done" <=> wpc = "done"

\* Every step is one of them.
LEMMA ParentSteps ==
    ASSUME LoopIInv, [Next]_vars
    PROVE  \/ WritePacket \/ WritePacketFails \/ SwitchSucceeds \/ SwitchFails \/ SwitchFailsOnStart
           \/ Update \/ UpdateOnClosedStream
           \/ \E finish_ok, close_ok \in BOOLEAN : Finish(finish_ok, close_ok)
           \/ Quietly
<1> USE DEF fileVars, writerVars, countVars, Quietly
<1>0. wret \in {"update", "batch", "loop", "drain"}
  BY DEF LoopIInv, Shape
<1>1. ASSUME NEW s \in Sources, Reader(s) PROVE Quietly
  BY <1>1 DEF Reader, ReaderLoop, ReaderPacket, ReaderReturn, ReaderEnds, SourceEnds, QueuePacketCheck,
     QueuePacket, QueueFull, ReaderCounts
<1>2. ASSUME Writer
      PROVE  \/ WritePacket \/ WritePacketFails \/ SwitchSucceeds \/ SwitchFails \/ SwitchFailsOnStart
             \/ Update \/ UpdateOnClosedStream
             \/ \E finish_ok, close_ok \in BOOLEAN : Finish(finish_ok, close_ok)
             \/ Quietly
  <2>1. CASE LoopTest \/ Dequeue \/ DequeueTimeout \/ IdleCheck \/ NoUpdate \/ DurationOver
             \/ FileTimerOver \/ TimersDone \/ Join
    BY <1>0, <2>1 DEF LoopTest, Dequeue, DequeueTimeout, IdleCheck, NoUpdate, DurationOver,
       FileTimerOver, TimersDone, Join
  <2>2. ASSUME NEW s \in Sources, NEW size \in Sizes, DispatchPacket(s, size) PROVE Quietly
    BY <2>2 DEF DispatchPacket
  <2>3. ASSUME NEW s \in Sources, DispatchReturn(s) \/ DispatchEnds(s) PROVE Quietly
    BY <2>3 DEF DispatchReturn, DispatchEnds, SourceEnds
  <2>4. CASE WritePacketFlushed \/ WritePacketCheck \/ WriterCounts \/ SwitchStops
    BY <1>0, <2>4 DEF WritePacketFlushed, WritePacketCheck, Saving, WriterCounts, SwitchStops
  <2> QED  BY <1>2, <2>1, <2>2, <2>3, <2>4 DEF Writer
<1>3. CASE Stop
  BY <1>3 DEF Stop
<1>4. CASE UNCHANGED vars
  BY <1>4 DEF vars
<1> QED  BY <1>1, <1>2, <1>3, <1>4 DEF Next, Terminated

\* The packets the parent has not been told of are reported.
LEMMA CountReported ==
    ASSUME LoopTypes, ParentTypes, ParentInv, UNCHANGED <<opts, out, pdh>>,
           failed \subseteq failed', failed' # {} => ~go',
           parent' = report_packet_count(parent, inpkts_to_sync_pipe)
             \/ /\ ParentShape(parent')
                /\ parent'.files = report_packet_count(parent, inpkts_to_sync_pipe).files,
           inpkts_to_sync_pipe' = 0,
           visible' = SetLast(visible, Len(Last(out))) \/ (visible' = visible /\ failed' # {}),
           wpc' # "save"
    PROVE  ParentTypes' /\ ParentInv'
<1> DEFINE k == Len(parent.files)
           n == inpkts_to_sync_pipe
           m == Len(out)
           fs == parent'.files
<1>1. /\ parent.files \in Seq(Nat) /\ parent.files # << >> /\ n \in Nat /\ k \in Nat \ {0}
      /\ visible \in Seq(Nat) /\ Len(visible) = m /\ ParentShape(parent) /\ Last(parent.files) \in Nat
      /\ Last(parent.files) = parent.files[k]
  BY DEF ParentTypes, ParentShape, Last
<1>2. /\ m \in Nat \ {0} /\ \A f \in 1 .. m : Len(out[f]) \in Nat
  BY DEF LoopTypes
<1>3. Last(out) = out[m] /\ visible # << >>
  BY <1>1, <1>2 DEF Last
<1>4. ParentShape(parent') /\ fs = SetLast(parent.files, parent.files[k] + n)
  BY <1>1, ReportParts
<1>5. /\ Len(fs) = k /\ fs[k] = parent.files[k] + n
      /\ \A f \in 1 .. k - 1 : fs[f] = parent.files[f]
  <2>1. parent.files[k] + n \in Nat
    BY <1>1
  <2>2. PICK q, e : q = parent.files /\ e = parent.files[k] + n
    OBVIOUS
  <2>3. /\ Len(SetLast(q, e)) = Len(q) /\ SetLast(q, e)[Len(q)] = e
        /\ \A i \in 1 .. Len(q) - 1 : SetLast(q, e)[i] = q[i]
    BY <1>1, <2>1, <2>2, SetLastNat
  <2> QED  BY <1>4, <2>2, <2>3
<1>6. /\ visible' \in Seq(Nat) /\ Len(visible') = m
      /\ failed' = {} => visible'[m] = Len(out[m]) /\ \A f \in 1 .. m - 1 : visible'[f] = visible[f]
  <2>1. Len(Last(out)) \in Nat
    BY <1>2, <1>3
  <2>2. CASE visible' = visible /\ failed' # {}
    BY <1>1, <2>2
  <2>3. CASE visible' = SetLast(visible, Len(Last(out)))
    BY <1>1, <1>3, <2>1, <2>3, SetLastNat
  <2> QED  BY <2>2, <2>3
<1>7. ParentTypes'
  BY <1>4, <1>6 DEF ParentTypes
<1>8. /\ k <= m /\ parent.files[k] + n = Len(out[k])
      /\ \A f \in 1 .. k - 1 : parent.files[f] = Len(out[f])
      /\ \A f \in k + 1 .. m : out[f] = << >>
      /\ failed = {} => k = m /\ \A f \in 1 .. k : parent.files[f] <= visible[f]
      /\ failed # {} => ~go /\ wpc # "save"
      /\ pdh # "open" => failed # {}
  BY DEF ParentInv
<1>9. fs[k] + 0 = Len(out[k]) /\ k \in 1 .. m
  BY <1>1, <1>2, <1>5, <1>8
<1>10. failed' = {} => \A f \in 1 .. k : fs[f] <= visible'[f]
  <2> SUFFICES ASSUME failed' = {}, NEW f \in 1 .. k PROVE fs[f] <= visible'[f]
    OBVIOUS
  <2>0. failed = {}
    OBVIOUS
  <2> HIDE DEF k, n, m, fs
  <2>1. CASE f = k
    BY <1>2, <1>5, <1>6, <1>8, <1>9, <2>0, <2>1
  <2>2. CASE f # k
    <3>1. f \in 1 .. k - 1 /\ f \in 1 .. m - 1
      BY <1>1, <1>2, <1>8, <2>0, <2>2
    <3> QED  BY <1>5, <1>6, <1>8, <2>0, <3>1
  <2> QED  BY <2>1, <2>2
<1> HIDE DEF k, n, m, fs
<1>11. ParentInv'
  <2>1. Len(parent'.files) = k
    BY <1>5 DEF fs
  <2>2. Len(out') = m /\ out' = out
    BY DEF m
  <2>3. failed' = {} => failed = {}
    OBVIOUS
  <2> QED  BY <1>5, <1>8, <1>9, <1>10, <2>1, <2>2, <2>3 DEF ParentInv, fs
<1> QED  BY <1>7, <1>11

\* An output error is remembered until it is reported, in a capture whose files
\* are not switched by a timer: no switch can follow it and clear it.
ErrorInv ==
    failed # {} /\ ~opts.file_timer =>
        wpc # "switch" /\ IF wpc = "done" THEN parent.errors > 0 ELSE err

\* The parent was told of the first file and of no packet.
LEMMA InitParent == Init => ParentTypes /\ ParentInv /\ ErrorInv
<1> SUFFICES ASSUME Init PROVE ParentTypes /\ ParentInv /\ ErrorInv
  OBVIOUS
<1>1. out = << << >> >> /\ visible = <<0>> /\ parent.files = <<0>> /\ parent.errors = 0
      /\ parent = [files |-> parent.files, drops |-> parent.drops, errors |-> parent.errors]
      /\ inpkts_to_sync_pipe = 0 /\ failed = {} /\ pdh = "open" /\ wpc = "loop"
  BY DEF Init
<1>2. ParentTypes
  BY <1>1 DEF ParentTypes, ParentShape
<1>3. ParentInv
  BY <1>1 DEF ParentInv
<1> QED  BY <1>1, <1>2, <1>3 DEF ErrorInv

\* Nothing that is reported, written or failed.
LEMMA QuietKeepsParent ==
    ASSUME ParentTypes, ParentInv, ErrorInv, Quietly
    PROVE  ParentTypes' /\ ParentInv' /\ ErrorInv'
<1>1. /\ ParentShape(parent') /\ parent'.files = parent.files
      /\ parent.errors \in Nat /\ parent'.errors >= parent.errors /\ parent'.errors \in Nat
  <2>1. ParentShape(parent) /\ parent.errors \in Nat /\ 0 \in Nat
    BY DEF ParentTypes, ParentShape
  <2>2. /\ ParentShape(report_capture_error(parent))
        /\ report_capture_error(parent).files = parent.files
        /\ report_capture_error(parent).errors = parent.errors + 1
    BY <2>1, ReportParts
  <2>3. CASE parent' = parent
    BY <2>1, <2>3
  <2>4. CASE parent' = report_capture_error(parent)
    BY <2>1, <2>2, <2>4
  <2> QED  BY <2>3, <2>4 DEF Quietly
<1>2. ParentTypes'
  BY <1>1 DEF ParentTypes, Quietly
<1>3. ParentInv'
  BY <1>1 DEF ParentInv, Quietly
<1>4. ErrorInv'
  BY <1>1 DEF ParentInv, ErrorInv, Quietly
<1> QED  BY <1>2, <1>3, <1>4

\* Another packet in the current file, to be reported.
LEMMA WriteKeepsParent ==
    ASSUME LoopIInv, LoopTypes, ParentTypes, ParentInv, ErrorInv, WritePacket
    PROVE  ParentTypes' /\ ParentInv' /\ ErrorInv'
<1> DEFINE k == Len(parent.files)
           r == Append(Last(out), whand)
           n == inpkts_to_sync_pipe
<1>0. wret \in {"update", "batch", "loop", "drain"} /\ wpc = "save" /\ failed = {}
  BY DEF LoopIInv, Shape, WritePacket, ParentInv
<1>1. /\ UNCHANGED <<opts, failed, pdh, err, parent>> /\ n' = n + 1 /\ (go' => go)
      /\ wpc' \in {wret, "switch"}
      /\ out' = SetLast(out, r)
      /\ visible' = visible \/ visible' = SetLast(visible, Len(Last(out')))
  BY DEF WritePacket
<1>2. /\ Last(out) \in Seq(Packet) /\ whand \in Packet /\ Len(out) \in Nat \ {0} /\ out # << >>
      /\ out \in Seq(Seq(Packet))
  BY <1>0 DEF LoopTypes, Handling, Last
<1>3. /\ r \in Seq(Packet) /\ Len(r) = Len(Last(out)) + 1 /\ Len(r) \in Nat
  BY <1>2
<1>4. /\ k \in Nat \ {0} /\ n \in Nat /\ parent.files \in Seq(Nat) /\ visible \in Seq(Nat)
      /\ Len(visible) = Len(out) /\ visible # << >> /\ parent.files[k] \in Nat
  BY <1>2 DEF ParentTypes, ParentShape
<1>5. /\ k = Len(out) /\ parent.files[k] + n = Len(out[k])
      /\ \A f \in 1 .. k - 1 : parent.files[f] = Len(out[f])
      /\ \A f \in 1 .. k : parent.files[f] <= visible[f]
      /\ pdh = "open"
  BY <1>0 DEF ParentInv
<1> HIDE DEF r
<1>6. /\ Len(out') = k /\ out'[k] = r /\ \A f \in 1 .. k - 1 : out'[f] = out[f]
      /\ Last(out') = r
  <2>1. /\ Len(SetLast(out, r)) = Len(out) /\ SetLast(out, r)[Len(out)] = r
        /\ \A f \in 1 .. Len(out) - 1 : SetLast(out, r)[f] = out[f]
    BY <1>2, <1>3, SetLastFile
  <2> QED  BY <1>1, <1>5, <2>1 DEF Last
<1>7. parent.files[k] + (n + 1) = Len(r) /\ parent.files[k] <= Len(r)
  <2>1. Last(out) = out[k]
    BY <1>5 DEF Last
  <2>2. Len(out[k]) \in Nat
    BY <1>2, <2>1
  <2>3. Len(r) = (parent.files[k] + n) + 1
    BY <1>3, <1>5, <2>1
  <2>4. PICK a \in Nat, b \in Nat : a = parent.files[k] /\ b = n
    BY <1>4
  <2>5. Len(r) = (a + b) + 1
    BY <2>3, <2>4
  <2>6. a + (b + 1) = Len(r) /\ a <= Len(r)
    BY <2>5
  <2> QED  BY <2>4, <2>6
<1>8. /\ visible' \in Seq(Nat) /\ Len(visible') = k
      /\ \A f \in 1 .. k : parent.files[f] <= visible'[f]
  <2>1. CASE visible' = visible
    BY <1>4, <1>5, <2>1
  <2>2. CASE visible' = SetLast(visible, Len(Last(out')))
    <3>1. /\ visible' \in Seq(Nat) /\ Len(visible') = Len(visible) /\ visible'[Len(visible)] = Len(r)
          /\ \A f \in 1 .. Len(visible) - 1 : visible'[f] = visible[f]
      BY <1>3, <1>4, <1>6, <2>2, SetLastNat
    <3> SUFFICES ASSUME NEW f \in 1 .. k PROVE parent.files[f] <= visible'[f]
      BY <1>4, <1>5, <3>1
    <3>2. f = k \/ f \in 1 .. Len(visible) - 1
      BY <1>4, <1>5
    <3> QED  BY <1>4, <1>5, <1>7, <3>1, <3>2
  <2> QED  BY <1>1, <2>1, <2>2
<1>9. ParentTypes'
  BY <1>1, <1>4, <1>6, <1>8 DEF ParentTypes
<1> HIDE DEF k, n
<1>10. ParentInv'
  <2>1. k = Len(parent'.files) /\ k = Len(out') /\ \A f \in k + 1 .. k : FALSE
    BY <1>1, <1>4, <1>6 DEF k
  <2>2. parent'.files[k] + inpkts_to_sync_pipe' = Len(out'[k])
    BY <1>1, <1>6, <1>7 DEF n
  <2> QED  BY <1>0, <1>1, <1>4, <1>5, <1>6, <1>8, <2>1, <2>2 DEF ParentInv
<1> QED  BY <1>0, <1>1, <1>9, <1>10 DEF ErrorInv

\* An output operation fails and no file is added.
LEMMA FailKeepsParent ==
    ASSUME LoopIInv, LoopTypes, ParentTypes, ParentInv, ErrorInv, WritePacketFails \/ SwitchFails
    PROVE  ParentTypes' /\ ParentInv' /\ ErrorInv'
<1>0. wret \in {"update", "batch", "loop", "drain"}
  BY DEF LoopIInv, Shape
<1>1. /\ UNCHANGED <<opts, out, parent, inpkts_to_sync_pipe>> /\ failed' # {} /\ err' /\ ~go'
      /\ wpc' \in {wret, "dropped++"}
      /\ visible' = visible \/ visible' = SetLast(visible, Len(Last(out)))
  BY DEF WritePacketFails, SwitchFails, RecordError, countVars
<1>2. visible' \in Seq(Nat) /\ Len(visible') = Len(visible)
  <2>1. visible \in Seq(Nat) /\ visible # << >> /\ Len(Last(out)) \in Nat
    BY DEF ParentTypes, LoopTypes, Last
  <2> QED  BY <1>1, <2>1, SetLastNat
<1>3. ParentTypes'
  BY <1>1, <1>2 DEF ParentTypes
<1>4. ParentInv'
  BY <1>0, <1>1 DEF ParentInv
<1> QED  BY <1>0, <1>1, <1>3, <1>4 DEF ErrorInv

\* The sizes of what the parent and the output have, for the steps below.
LEMMA ParentFacts ==
    ASSUME LoopIInv, LoopTypes, ParentTypes
    PROVE  /\ wret \in {"update", "batch", "loop", "drain"}
           /\ Len(parent.files) \in Nat \ {0} /\ Len(out) \in Nat \ {0}
           /\ out \in Seq(Seq(Packet)) /\ << >> \in Seq(Packet)
           /\ \A f \in 1 .. Len(out) : Len(out[f]) \in Nat
           /\ \A f \in 1 .. Len(parent.files) : parent.files[f] \in Nat
           /\ Last(out) = out[Len(out)] /\ Len(Last(out)) \in Nat
           /\ visible \in Seq(Nat) /\ visible # << >> /\ Len(visible) = Len(out)
           /\ inpkts_to_sync_pipe \in Nat /\ ParentShape(parent)
<1>1. /\ wret \in {"update", "batch", "loop", "drain"}
      /\ Len(parent.files) \in Nat \ {0} /\ Len(out) \in Nat \ {0}
      /\ out \in Seq(Seq(Packet)) /\ << >> \in Seq(Packet)
      /\ visible \in Seq(Nat) /\ Len(visible) = Len(out)
      /\ inpkts_to_sync_pipe \in Nat /\ ParentShape(parent)
      /\ \A f \in 1 .. Len(parent.files) : parent.files[f] \in Nat
  BY DEF LoopIInv, Shape, LoopTypes, ParentTypes, ParentShape
<1>2. \A f \in 1 .. Len(out) : Len(out[f]) \in Nat
  BY <1>1
<1>3. Last(out) = out[Len(out)] /\ Len(Last(out)) \in Nat /\ visible # << >>
  BY <1>1, <1>2 DEF Last
<1> QED  BY <1>1, <1>2, <1>3

\* A file is added to the output and to what is visible of it.
LEMMA FileAdded ==
    ASSUME LoopIInv, LoopTypes, ParentTypes,
           out' = Append(out, << >>),
           visible' = Append(SetLast(visible, Len(Last(out))), 0)
    PROVE  LET m == Len(out)
           IN  /\ Len(out') = m + 1 /\ out'[m + 1] = << >> /\ \A f \in 1 .. m : out'[f] = out[f]
               /\ visible' \in Seq(Nat) /\ Len(visible') = m + 1 /\ visible'[m + 1] = 0
               /\ visible'[m] = Len(out[m]) /\ \A f \in 1 .. m - 1 : visible'[f] = visible[f]
<1> DEFINE m == Len(out)
           v == SetLast(visible, Len(Last(out)))
<1>1. Len(out') = m + 1 /\ out'[m + 1] = << >> /\ \A f \in 1 .. m : out'[f] = out[f]
  BY ParentFacts
<1>2. /\ v \in Seq(Nat) /\ Len(v) = m /\ v[m] = Len(out[m])
      /\ \A f \in 1 .. m - 1 : v[f] = visible[f]
  <2>1. /\ v \in Seq(Nat) /\ Len(v) = Len(visible) /\ v[Len(visible)] = Len(Last(out))
        /\ \A f \in 1 .. Len(visible) - 1 : v[f] = visible[f]
    BY ParentFacts, SetLastNat
  <2> QED  BY <2>1, ParentFacts
<1>3. m \in Nat \ {0}
  BY ParentFacts
<1>4. visible' = Append(v, 0)
  OBVIOUS
<1> HIDE DEF m, v
<1>5. /\ visible' \in Seq(Nat) /\ Len(visible') = m + 1 /\ visible'[m + 1] = 0
      /\ \A f \in 1 .. m : visible'[f] = v[f]
  <2>1. v \in Seq(Nat) /\ Len(v) = m
    BY <1>2
  <2>2. /\ Append(v, 0) \in Seq(Nat) /\ Len(Append(v, 0)) = Len(v) + 1
        /\ Append(v, 0)[Len(v) + 1] = 0 /\ \A f \in 1 .. Len(v) : Append(v, 0)[f] = v[f]
    BY <2>1
  <2> QED  BY <1>4, <2>1, <2>2
<1>6. visible'[m] = Len(out[m]) /\ \A f \in 1 .. m - 1 : visible'[f] = visible[f]
  BY <1>2, <1>3, <1>5
<1> QED  BY <1>1, <1>5, <1>6 DEF m

\* A switch that succeeds: the old file is reported in full, then the new one.
LEMMA SwitchKeepsParent ==
    ASSUME LoopIInv, LoopTypes, ParentTypes, ParentInv, ErrorInv, SwitchSucceeds
    PROVE  ParentTypes' /\ ParentInv' /\ ErrorInv'
<1> DEFINE k == Len(parent.files)
           m == Len(out)
           n == inpkts_to_sync_pipe
           fs == SetLast(parent.files, Last(parent.files) + n)
<1>1. /\ UNCHANGED <<opts, go, failed>> /\ n' = 0 /\ pdh' = "open" /\ wpc' = wret /\ wpc = "switch"
      /\ out' = Append(out, << >>) /\ visible' = Append(SetLast(visible, Len(Last(out))), 0)
      /\ parent' = report_new_capture_file(report_packet_count(parent, n))
  BY DEF SwitchSucceeds, ReportSwitch
<1>2. /\ Len(out') = m + 1 /\ out'[m + 1] = << >> /\ \A f \in 1 .. m : out'[f] = out[f]
      /\ visible' \in Seq(Nat) /\ Len(visible') = m + 1 /\ visible'[m + 1] = 0
      /\ visible'[m] = Len(out[m]) /\ \A f \in 1 .. m - 1 : visible'[f] = visible[f]
  BY <1>1, FileAdded
<1>3. ParentShape(parent') /\ parent'.files = Append(fs, 0)
  <2>1. ParentShape(parent) /\ n \in Nat
    BY ParentFacts
  <2>2. ParentShape(report_packet_count(parent, n)) /\ report_packet_count(parent, n).files = fs
    BY <2>1, ReportParts
  <2> QED  BY <1>1, <2>1, <2>2, ReportParts
<1>4. /\ k \in Nat \ {0} /\ m \in Nat \ {0} /\ wret \in {"update", "batch", "loop", "drain"}
      /\ parent.files \in Seq(Nat) /\ Last(parent.files) = parent.files[k]
      /\ parent.files[k] \in Nat /\ n \in Nat
      /\ parent.files # << >>
      /\ \A f \in 1 .. m : Len(out[f]) \in Nat
  BY ParentFacts DEF ParentShape, Last
<1>5. /\ fs \in Seq(Nat) /\ Len(fs) = k /\ fs[k] = parent.files[k] + n
      /\ \A f \in 1 .. k - 1 : fs[f] = parent.files[f]
  <2>1. PICK q, e : q = parent.files /\ e = Last(parent.files) + n
    OBVIOUS
  <2>2. q \in Seq(Nat) /\ q # << >> /\ e \in Nat
    BY <1>4, <2>1
  <2>3. /\ SetLast(q, e) \in Seq(Nat) /\ Len(SetLast(q, e)) = Len(q) /\ SetLast(q, e)[Len(q)] = e
        /\ \A f \in 1 .. Len(q) - 1 : SetLast(q, e)[f] = q[f]
    BY <2>2, SetLastNat
  <2> QED  BY <1>4, <2>1, <2>3
<1> HIDE DEF fs
<1>6. /\ Len(parent'.files) = k + 1 /\ parent'.files[k + 1] = 0
      /\ \A f \in 1 .. k : parent'.files[f] = fs[f]
  BY <1>3, <1>4, <1>5
<1>7. /\ k <= m /\ parent.files[k] + n = Len(out[k])
      /\ \A f \in 1 .. k - 1 : parent.files[f] = Len(out[f])
      /\ \A f \in k + 1 .. m : out[f] = << >>
      /\ failed = {} => k = m /\ \A f \in 1 .. k : parent.files[f] <= visible[f]
      /\ failed # {} => ~go
  BY DEF ParentInv
<1> HIDE DEF k, m
<1>8. \A f \in 1 .. k : parent'.files[f] = Len(out'[f])
  <2> SUFFICES ASSUME NEW f \in 1 .. k PROVE parent'.files[f] = Len(out'[f])
    OBVIOUS
  <2>1. f \in 1 .. m /\ (f = k \/ f \in 1 .. k - 1)
    BY <1>4, <1>7
  <2>2. out'[f] = out[f] /\ parent'.files[f] = fs[f]
    BY <1>2, <1>6, <2>1
  <2> QED  BY <1>5, <1>7, <2>1, <2>2
<1>9. \A f \in k + 1 .. m + 1 : out'[f] = << >>
  <2> SUFFICES ASSUME NEW f \in k + 1 .. m + 1 PROVE out'[f] = << >>
    OBVIOUS
  <2>1. CASE f = m + 1
    BY <1>2, <2>1
  <2>2. CASE f # m + 1
    <3>1. f \in 1 .. m /\ f \in k + 1 .. m
      BY <1>4, <2>2
    <3> QED  BY <1>2, <1>7, <3>1
  <2> QED  BY <2>1, <2>2
<1>10. k + 1 \in k + 1 .. m + 1
  BY <1>4, <1>7
<1>11. parent'.files[k + 1] + n' = Len(out'[k + 1])
  <2>1. Len(out'[k + 1]) = 0
    BY <1>9, <1>10
  <2>2. parent'.files[k + 1] = 0 /\ n' = 0
    BY <1>1, <1>6
  <2> QED  BY <2>1, <2>2
<1>12. failed = {} => \A f \in 1 .. k + 1 : parent'.files[f] <= visible'[f]
  <2> SUFFICES ASSUME failed = {}, NEW f \in 1 .. k + 1 PROVE parent'.files[f] <= visible'[f]
    OBVIOUS
  <2>0. k = m
    BY <1>7
  <2>1. CASE f = k + 1
    BY <1>2, <1>6, <2>0, <2>1
  <2>2. CASE f = k
    <3>1. f \in 1 .. k /\ parent'.files[f] = Len(out'[f]) /\ out'[f] = out[f] /\ f \in 1 .. m
      BY <1>2, <1>4, <1>8, <2>0, <2>2
    <3>2. Len(out[f]) \in Nat /\ visible'[f] = Len(out[f])
      BY <1>2, <1>4, <2>0, <2>2, <3>1
    <3> QED  BY <3>1, <3>2
  <2>3. CASE f # k + 1 /\ f # k
    <3>1. f \in 1 .. k - 1 /\ f \in 1 .. k /\ f \in 1 .. m - 1
      BY <1>4, <2>0, <2>3
    <3>2. parent'.files[f] = parent.files[f] /\ visible'[f] = visible[f] /\ parent.files[f] <= visible[f]
      BY <1>2, <1>5, <1>6, <1>7, <3>1
    <3> QED  BY <3>2
  <2> QED  BY <2>1, <2>2, <2>3
<1>13. ParentTypes'
  BY <1>1, <1>2, <1>3 DEF ParentTypes
<1>14. ParentInv'
  <2>0. Len(parent'.files) = k + 1 /\ Len(out') = m + 1
    BY <1>2, <1>6
  <2>1. k + 1 <= m + 1 /\ (k + 1) - 1 = k
    <3>1. k \in Nat /\ m \in Nat /\ k <= m
      BY <1>4, <1>7
    <3> QED  BY <3>1
  <2>2. \A f \in (k + 1) + 1 .. m + 1 : out'[f] = << >>
    <3>1. \A f \in (k + 1) + 1 .. m + 1 : f \in k + 1 .. m + 1
      BY <1>4
    <3> QED  BY <1>9, <3>1
  <2>3. failed = {} => k + 1 = m + 1
    BY <1>7
  <2> QED  BY <1>1, <1>4, <1>7, <1>8, <1>11, <1>12, <2>0, <2>1, <2>2, <2>3 DEF ParentInv
<1>15. ErrorInv'
  BY <1>1, <1>4 DEF ErrorInv
<1> QED  BY <1>13, <1>14, <1>15

\* A switch that fails when the file is there already.
LEMMA StartFailKeepsParent ==
    ASSUME LoopIInv, LoopTypes, ParentTypes, ParentInv, ErrorInv, SwitchFailsOnStart
    PROVE  ParentTypes' /\ ParentInv' /\ ErrorInv'
<1> DEFINE k == Len(parent.files)
           m == Len(out)
<1>1. /\ UNCHANGED <<opts, parent, inpkts_to_sync_pipe>> /\ failed' # {} /\ err' /\ ~go' /\ wpc' = wret
      /\ out' = Append(out, << >>) /\ visible' = Append(SetLast(visible, Len(Last(out))), 0)
  BY DEF SwitchFailsOnStart, RecordError, countVars
<1>2. /\ Len(out') = m + 1 /\ out'[m + 1] = << >> /\ \A f \in 1 .. m : out'[f] = out[f]
      /\ visible' \in Seq(Nat) /\ Len(visible') = m + 1
  BY <1>1, FileAdded
<1>3. k \in Nat \ {0} /\ m \in Nat \ {0} /\ wret \in {"update", "batch", "loop", "drain"}
  BY ParentFacts
<1>4. /\ k <= m /\ parent.files[k] + inpkts_to_sync_pipe = Len(out[k])
      /\ \A f \in 1 .. k - 1 : parent.files[f] = Len(out[f])
      /\ \A f \in k + 1 .. m : out[f] = << >>
  BY DEF ParentInv
<1> HIDE DEF m
<1>5. out'[k] = out[k] /\ \A f \in 1 .. k - 1 : out'[f] = out[f]
  <2>1. k \in 1 .. m /\ \A f \in 1 .. k - 1 : f \in 1 .. m
    BY <1>3, <1>4
  <2> QED  BY <1>2, <2>1
<1>6. \A f \in k + 1 .. m + 1 : out'[f] = << >>
  <2> SUFFICES ASSUME NEW f \in k + 1 .. m + 1 PROVE out'[f] = << >>
    OBVIOUS
  <2>1. CASE f = m + 1
    BY <1>2, <2>1
  <2>2. CASE f # m + 1
    <3>1. f \in 1 .. m /\ f \in k + 1 .. m
      BY <1>3, <2>2
    <3> QED  BY <1>2, <1>4, <3>1
  <2> QED  BY <2>1, <2>2
<1>7. ParentTypes'
  BY <1>1, <1>2 DEF ParentTypes
<1>8. ParentInv'
  <2>1. k <= m + 1
    BY <1>3, <1>4
  <2> QED  BY <1>1, <1>2, <1>3, <1>4, <1>5, <1>6, <2>1 DEF ParentInv
<1> QED  BY <1>1, <1>3, <1>7, <1>8 DEF ErrorInv

\* The periodic report, on an open stream or on one left over from a failed switch.
LEMMA UpdateKeepsParent ==
    ASSUME LoopIInv, LoopTypes, ParentTypes, ParentInv, ErrorInv, Update \/ UpdateOnClosedStream
    PROVE  ParentTypes' /\ ParentInv' /\ ErrorInv'
<1>1. /\ UNCHANGED <<opts, go, out, failed, pdh, err>> /\ wpc = "update"
      /\ wpc' \in {"timers", "crashed"}
      /\ \/ /\ parent' = report_packet_count(parent, inpkts_to_sync_pipe)
            /\ inpkts_to_sync_pipe' = 0
            /\ visible' = SetLast(visible, Len(Last(out))) \/ (visible' = visible /\ pdh # "open")
         \/ UNCHANGED <<parent, visible, inpkts_to_sync_pipe>>
  BY DEF Update, UpdateOnClosedStream, fileVars
<1>2. failed # {} => ~go
  BY DEF ParentInv
<1>3. pdh # "open" => failed # {}
  BY DEF ParentInv
<1>4. CASE UNCHANGED <<parent, visible, inpkts_to_sync_pipe>>
  <2>1. Quietly
    BY <1>1, <1>4 DEF Quietly
  <2> QED  BY <2>1, QuietKeepsParent
<1>5. CASE /\ parent' = report_packet_count(parent, inpkts_to_sync_pipe)
           /\ inpkts_to_sync_pipe' = 0
           /\ visible' = SetLast(visible, Len(Last(out))) \/ (visible' = visible /\ pdh # "open")
  <2>1. ParentTypes' /\ ParentInv'
    BY <1>1, <1>2, <1>3, <1>5, CountReported
  <2>2. ErrorInv'
    BY <1>1 DEF ErrorInv
  <2> QED  BY <2>1, <2>2
<1> QED  BY <1>1, <1>4, <1>5

\* The last report: the errors, the packets left and the drops.
LEMMA FinishKeepsParent ==
    ASSUME LoopIInv, LoopTypes, ParentTypes, ParentInv, ErrorInv,
           NEW finish_ok \in BOOLEAN, NEW close_ok \in BOOLEAN, Finish(finish_ok, close_ok)
    PROVE  ParentTypes' /\ ParentInv' /\ ErrorInv'
<1> DEFINE n == inpkts_to_sync_pipe
           p0 == ErrorIf(parent, SourceFailed)
           p1 == ErrorIf(p0, err')
           p2 == report_packet_count(p1, n)
           p3 == ErrorIf(p2, ~close_ok /\ ~err')
<1>1. /\ UNCHANGED <<opts, out, pdh>> /\ ~go' /\ wpc = "finish" /\ wpc' = "done" /\ n' = 0
      /\ err' = (err \/ ~finish_ok)
      /\ failed' = failed \cup (IF finish_ok THEN {} ELSE {"write"})
                          \cup (IF close_ok THEN {} ELSE {"close"})
      /\ visible' = IF close_ok /\ pdh = "open" THEN SetLast(visible, Len(Last(out))) ELSE visible
      /\ parent' = [p3 EXCEPT !.drops = Drops]
  BY DEF Finish, CloseOutput
<1>2. ASSUME NEW p, ParentShape(p), NEW c
      PROVE  /\ ParentShape(ErrorIf(p, c)) /\ ErrorIf(p, c).files = p.files
             /\ p.errors \in Nat
             /\ ErrorIf(p, c).errors = (IF c THEN p.errors + 1 ELSE p.errors)
  <2>1. 0 \in Nat /\ p.errors \in Nat
    BY <1>2 DEF ParentShape
  <2>2. /\ ParentShape(report_capture_error(p)) /\ report_capture_error(p).files = p.files
        /\ report_capture_error(p).errors = p.errors + 1
    BY <1>2, <2>1, ReportParts
  <2> QED  BY <1>2, <2>1, <2>2 DEF ErrorIf
<1>3. ParentShape(parent) /\ n \in Nat
  BY ParentFacts
<1>4. ParentShape(p0) /\ p0.files = parent.files /\ p0.errors \in Nat
  BY <1>2, <1>3 DEF ParentShape
<1> HIDE DEF p0
<1>5. /\ ParentShape(p1) /\ p1.files = parent.files /\ p1.errors \in Nat
      /\ p1.errors = (IF err' THEN p0.errors + 1 ELSE p0.errors)
  BY <1>2, <1>4 DEF ParentShape
<1> HIDE DEF p1
<1>6. ParentShape(p2) /\ p2.files = SetLast(parent.files, Last(parent.files) + n) /\ p2.errors = p1.errors
  BY <1>3, <1>5, ReportParts
<1> HIDE DEF p2
<1>7. /\ ParentShape(p3) /\ p3.files = p2.files
      /\ p3.errors = (IF ~close_ok /\ ~err' THEN p2.errors + 1 ELSE p2.errors)
  BY <1>2, <1>6
<1> HIDE DEF p3
<1>8. ParentShape(parent') /\ parent'.files = p3.files /\ parent'.errors = p3.errors
  <2>1. PICK d : d = Drops
    OBVIOUS
  <2>2. parent' = [files |-> p3.files, drops |-> d, errors |-> p3.errors]
    BY <1>1, <1>7, <2>1 DEF ParentShape
  <2> QED  BY <1>7, <2>2 DEF ParentShape
<1>9. parent'.files = report_packet_count(parent, n).files
  BY <1>3, <1>6, <1>7, <1>8, ReportParts
<1>10. pdh # "open" => failed # {}
  BY DEF ParentInv
<1>11. failed \subseteq failed' /\ (~close_ok => failed' # {}) /\ (failed # {} => failed' # {})
  BY <1>1
<1>12. visible' = SetLast(visible, Len(Last(out))) \/ (visible' = visible /\ failed' # {})
  BY <1>1, <1>10, <1>11
<1>13. ParentTypes' /\ ParentInv'
  BY <1>1, <1>8, <1>9, <1>11, <1>12, CountReported
<1>14. ErrorInv'
  <2> SUFFICES ASSUME failed' # {}, ~opts.file_timer PROVE parent'.errors > 0
    BY <1>1 DEF ErrorInv
  <2>1. err' \/ ~close_ok
    BY <1>1 DEF ErrorInv
  <2>2. p0.errors \in Nat /\ p1.errors \in Nat
    BY <1>4, <1>5
  <2> QED  BY <1>5, <1>6, <1>7, <1>8, <2>1, <2>2
<1> QED  BY <1>13, <1>14

ParentIInv == LoopIInv /\ LoopTypes /\ ParentTypes /\ ParentInv /\ ErrorInv

\* Every step keeps what the parent knows in line with the files.
LEMMA NextParent == ParentIInv /\ [Next]_vars => ParentIInv'
<1> SUFFICES ASSUME ParentIInv, [Next]_vars PROVE ParentIInv'
  OBVIOUS
<1> USE DEF ParentIInv
<1>1. LoopIInv' /\ LoopTypes'
  BY NextLoop, NextTypes
<1>2. CASE WritePacket
  BY <1>1, <1>2, WriteKeepsParent
<1>3. CASE WritePacketFails \/ SwitchFails
  BY <1>1, <1>3, FailKeepsParent
<1>4. CASE SwitchSucceeds
  BY <1>1, <1>4, SwitchKeepsParent
<1>5. CASE SwitchFailsOnStart
  BY <1>1, <1>5, StartFailKeepsParent
<1>6. CASE Update \/ UpdateOnClosedStream
  BY <1>1, <1>6, UpdateKeepsParent
<1>7. CASE \E finish_ok, close_ok \in BOOLEAN : Finish(finish_ok, close_ok)
  BY <1>1, <1>7, FinishKeepsParent
<1>8. CASE Quietly
  BY <1>1, <1>8, QuietKeepsParent
<1> QED  BY <1>2, <1>3, <1>4, <1>5, <1>6, <1>7, <1>8, ParentSteps

\* The invariant holds when the loop is entered.
LEMMA InitParentIInv == Init => ParentIInv
  BY InitLoop, InitTypes, InitParent DEF ParentIInv

\* With devices and pcap pipes, the counts sent to the parent are those of the
\* files they were sent for, never ahead of what is flushed, and complete when
\* dumpcap ends, whatever output operation fails.
THEOREM ParentKnowsCounts == Spec => []ParentCounts
<1>1. ParentIInv => ParentCounts
  <2> SUFFICES ASSUME ParentIInv PROVE ParentCounts
    OBVIOUS
  <2> DEFINE k == Len(parent.files)
  <2>1. /\ k \in Nat \ {0} /\ DOMAIN parent.files = 1 .. k /\ parent.files[k] \in Nat
        /\ inpkts_to_sync_pipe \in Nat
    BY ParentFacts DEF ParentIInv, ParentShape
  <2>2. /\ k <= Len(out) /\ parent.files[k] + inpkts_to_sync_pipe = Len(out[k])
        /\ \A f \in 1 .. k - 1 : parent.files[f] = Len(out[f])
        /\ failed = {} => \A f \in 1 .. k : parent.files[f] <= visible[f]
        /\ wpc = "done" => inpkts_to_sync_pipe = 0
    BY DEF ParentIInv, ParentInv
  <2> HIDE DEF k
  <2>3. ASSUME wpc = "done", NEW f \in 1 .. k PROVE parent.files[f] = Len(out[f])
    <3>1. f = k \/ f \in 1 .. k - 1
      BY <2>1
    <3> QED  BY <2>1, <2>2, <2>3, <3>1
  <2> QED  BY <2>1, <2>2, <2>3 DEF ParentCounts, k
<1> QED  BY <1>1, InitParentIInv, NextParent, PTL DEF Spec

\* Every failed output operation is reported before dumpcap ends, unless the files
\* are switched by a timer.
THEOREM OutputErrorsAreReported == Spec => []OutputErrorReported
<1>1. ParentIInv => OutputErrorReported
  <2> SUFFICES ASSUME ParentIInv, wpc = "done", failed # {}, ~opts.file_timer
               PROVE  parent.errors > 0
    BY DEF OutputErrorReported
  <2> QED  BY DEF ParentIInv, ErrorInv
<1> QED  BY <1>1, InitParentIInv, NextParent, PTL DEF Spec

-----------------------------------------------------------------------------
(***************************************************************************)
(* Where the packets are.                                                   *)
(***************************************************************************)

\* The packets in the files o, and those in a queue or in a thread's hands.
PacketsOf(o) == UNION {{o[f][i] : i \in DOMAIN o[f]} : f \in DOMAIN o}
WrittenAll == PacketsOf(out)
PendingIn(q, r, w) ==
    {q[i] : i \in DOMAIN q} \cup (({r[s] : s \in Sources} \cup {w}) \ {NoPacket})
Pending == PendingIn(queue, rhand, whand)

\* The packets of the files, by file and position.
LEMMA PacketsOfParts ==
    ASSUME NEW o \in Seq(Seq(Packet)), NEW p
    PROVE  p \in PacketsOf(o) <=> \E f \in 1 .. Len(o) : \E i \in 1 .. Len(o[f]) : p = o[f][i]
<1>1. DOMAIN o = 1 .. Len(o) /\ \A f \in 1 .. Len(o) : o[f] \in Seq(Packet)
  OBVIOUS
<1>2. \A f \in 1 .. Len(o) : DOMAIN o[f] = 1 .. Len(o[f])
  BY <1>1
<1>3. p \in PacketsOf(o) <=> \E f \in DOMAIN o : \E i \in DOMAIN o[f] : p = o[f][i]
  BY DEF PacketsOf
<1> QED  BY <1>1, <1>2, <1>3

\* An empty file has no packet.
LEMMA PacketsOfNew ==
    ASSUME NEW o \in Seq(Seq(Packet))
    PROVE  PacketsOf(Append(o, << >>)) = PacketsOf(o)
<1> DEFINE r == Append(o, << >>)
<1>1. << >> \in Seq(Packet)
  OBVIOUS
<1>2. /\ r \in Seq(Seq(Packet)) /\ Len(r) = Len(o) + 1 /\ r[Len(o) + 1] = << >>
      /\ \A f \in 1 .. Len(o) : r[f] = o[f] /\ Len(o) \in Nat
  BY <1>1
<1> HIDE DEF r
<1>3. ASSUME NEW p PROVE p \in PacketsOf(r) <=> p \in PacketsOf(o)
  <2>1. ASSUME p \in PacketsOf(o) PROVE p \in PacketsOf(r)
    <3>1. PICK f \in 1 .. Len(o) : \E i \in 1 .. Len(o[f]) : p = o[f][i]
      BY <2>1, PacketsOfParts
    <3>2. f \in 1 .. Len(r) /\ r[f] = o[f]
      BY <1>2
    <3> QED  BY <1>2, <3>1, <3>2, PacketsOfParts
  <2>2. ASSUME p \in PacketsOf(r) PROVE p \in PacketsOf(o)
    <3>1. PICK f \in 1 .. Len(r) : \E i \in 1 .. Len(r[f]) : p = r[f][i]
      BY <1>2, <2>2, PacketsOfParts
    <3>2. f # Len(o) + 1
      BY <1>2, <3>1
    <3>3. f \in 1 .. Len(o) /\ r[f] = o[f]
      BY <1>2, <3>2
    <3> QED  BY <3>1, <3>3, PacketsOfParts
  <2> QED  BY <2>1, <2>2
<1> QED  BY <1>3 DEF r

\* A packet more in the last file.
LEMMA PacketsOfWrite ==
    ASSUME NEW o \in Seq(Seq(Packet)), o # << >>, NEW p \in Packet
    PROVE  PacketsOf(SetLast(o, Append(Last(o), p))) = PacketsOf(o) \cup {p}
<1> DEFINE n == Len(o)
           l == o[n]
<1>1. n \in Nat \ {0} /\ Last(o) = l /\ l \in Seq(Packet) /\ n \in 1 .. n /\ Len(l) \in Nat
  BY DEF Last
<1>a. PICK e : e = Append(l, p)
  OBVIOUS
<1>b. PICK r : r = SetLast(o, e)
  OBVIOUS
<1>2. e \in Seq(Packet) /\ Len(e) = Len(l) + 1 /\ e[Len(l) + 1] = p
      /\ \A i \in 1 .. Len(l) : e[i] = l[i]
  BY <1>1, <1>a
<1>3. /\ r \in Seq(Seq(Packet)) /\ Len(r) = n /\ r[n] = e
      /\ \A f \in 1 .. n - 1 : r[f] = o[f]
  BY <1>1, <1>2, <1>b, SetLastFile
<1>4. ASSUME NEW q PROVE q \in PacketsOf(r) <=> q \in PacketsOf(o) \cup {p}
  <2>1. ASSUME q \in PacketsOf(o) PROVE q \in PacketsOf(r)
    <3>0. PICK f \in 1 .. n : \E i \in 1 .. Len(o[f]) : q = o[f][i]
      BY <2>1, PacketsOfParts
    <3>1. PICK i \in 1 .. Len(o[f]) : q = o[f][i]
      BY <3>0
    <3>2. CASE f = n
      <4>1. i \in 1 .. Len(e) /\ q = e[i]
        BY <1>1, <1>2, <3>1, <3>2
      <4>2. n \in 1 .. Len(r) /\ i \in 1 .. Len(r[n]) /\ q = r[n][i]
        BY <1>1, <1>3, <4>1
      <4> QED  BY <1>3, <4>2, PacketsOfParts
    <3>3. CASE f # n
      <4>1. r[f] = o[f] /\ f \in 1 .. Len(r)
        BY <1>1, <1>3, <3>3
      <4> QED  BY <1>3, <3>1, <4>1, PacketsOfParts
    <3> QED  BY <3>2, <3>3
  <2>2. p \in PacketsOf(r)
    <3>1. Len(l) + 1 \in 1 .. Len(e)
      BY <1>1, <1>2
    <3>2. n \in 1 .. Len(r) /\ Len(l) + 1 \in 1 .. Len(r[n]) /\ p = r[n][Len(l) + 1]
      BY <1>1, <1>2, <1>3, <3>1
    <3> QED  BY <1>3, <3>2, PacketsOfParts
  <2>3. ASSUME q \in PacketsOf(r), q # p PROVE q \in PacketsOf(o)
    <3>a. r \in Seq(Seq(Packet))
      BY <1>3
    <3>b. q \in PacketsOf(r) <=> \E f \in 1 .. Len(r) : \E i \in 1 .. Len(r[f]) : q = r[f][i]
      BY <3>a, PacketsOfParts
    <3>0. PICK f \in 1 .. Len(r) : \E i \in 1 .. Len(r[f]) : q = r[f][i]
      BY <2>3, <3>b, Zenon
    <3>1. PICK i \in 1 .. Len(r[f]) : q = r[f][i]
      BY <3>0
    <3>2. CASE f = n
      <4>0. i \in 1 .. Len(e) /\ q = e[i] /\ i # Len(l) + 1
        BY <1>2, <1>3, <2>3, <3>1, <3>2
      <4>1. i \in 1 .. Len(l) /\ q = l[i]
        BY <1>1, <1>2, <4>0
      <4> QED  BY <1>1, <4>1, PacketsOfParts
    <3>3. CASE f # n
      <4>1. r[f] = o[f] /\ f \in 1 .. n
        BY <1>1, <1>3, <3>3
      <4> QED  BY <3>1, <4>1, PacketsOfParts
    <3> QED  BY <3>2, <3>3
  <2> QED  BY <2>1, <2>2, <2>3
<1> QED  BY <1>1, <1>4, <1>a, <1>b

\* The pending packets, by place.
LEMMA PendingParts ==
    ASSUME NEW q \in Seq(Packet), NEW r, NEW w, NEW p
    PROVE  p \in PendingIn(q, r, w) <=>
             \/ \E i \in 1 .. Len(q) : p = q[i]
             \/ \E s \in Sources : p = r[s] /\ p # NoPacket
             \/ p = w /\ p # NoPacket
<1>1. DOMAIN q = 1 .. Len(q)
  OBVIOUS
<1> QED  BY <1>1 DEF PendingIn

\* A packet is not the absence of one.
LEMMA NotNoPacket == NoPacket \notin Packet
<1>1. NoPacket.seq = 0
  BY DEF NoPacket
<1> QED  BY <1>1, PacketParts
-----------------------------------------------------------------------------
(***************************************************************************)
(* The order of the packets: they never overtake each other.                *)
(***************************************************************************)

\* Of two packets of one source the first one is older.
Before(p, q) == p.src = q.src => p.seq < q.seq

\* What a reader holds comes from its source; a reader of a process that has
\* ended has ended; the main thread reads the source only without readers.
HandInv ==
    /\ \A s \in Sources : rhand[s] # NoPacket => rhand[s] \in Packet /\ rhand[s].src = s
    /\ wpc = "crashed" => ReadersExited
    /\ wpc \in {"dispatch", "batch"} \/ wret = "batch" => ~opts.use_threads

\* A source's packets go from the reader's hands through the queue and the hands of
\* the main thread to the files, and never overtake each other.
OrderInv ==
    /\ \A i, j \in 1 .. Len(queue) : i < j => Before(queue[i], queue[j])
    /\ \A i \in 1 .. Len(queue) : \A s \in Sources :
         rhand[s] # NoPacket => Before(queue[i], rhand[s])
    /\ whand # NoPacket => \A i \in 1 .. Len(queue) : Before(whand, queue[i])
    /\ whand # NoPacket => \A s \in Sources : rhand[s] # NoPacket => Before(whand, rhand[s])
    /\ \A p \in WrittenAll : \A q \in Pending : Before(p, q)
    /\ \A p \in WrittenAll \cup Pending : p \in Packet /\ p.seq <= arrived[p.src]

LedgerIInv == LoopIInv /\ LoopTypes /\ HandInv /\ OrderInv

\* When the capture starts there are no packets to order.
LEMMA InitLedger == Init => HandInv /\ OrderInv
<1> SUFFICES ASSUME Init PROVE HandInv /\ OrderInv
  OBVIOUS
<1>1. /\ queue = << >> /\ out = << << >> >> /\ whand = NoPacket /\ wpc = "loop" /\ wret = "update"
      /\ \A s \in Sources : rhand[s] = NoPacket
  BY DEF Init
<1>2. HandInv
  BY <1>1 DEF HandInv
<1>3. Pending = {}
  BY <1>1 DEF Pending, PendingIn
<1>4. WrittenAll = {}
  <2>1. out \in Seq(Seq(Packet)) /\ Len(out) = 1 /\ Len(out[1]) = 0
    BY <1>1
  <2>2. ~ \E f \in 1 .. Len(out) : \E i \in 1 .. Len(out[f]) : TRUE
    BY <2>1
  <2>3. \A p : p \notin WrittenAll
    BY <2>1, <2>2, PacketsOfParts DEF WrittenAll
  <2> QED  BY <2>3
<1> QED  BY <1>1, <1>2, <1>3, <1>4 DEF OrderInv

\* The steps that move packets; every other step leaves them where they are.
Still ==
    /\ UNCHANGED <<queue, rhand, whand, arrived>>
    /\ out' = out \/ out' = Append(out, << >>)

\* The steps that move packets, and the rest.
LEMMA LedgerSteps ==
    ASSUME [Next]_vars
    PROVE  \/ \E s \in Sources : \E size \in Sizes : ReaderPacket(s, size) \/ DispatchPacket(s, size)
           \/ \E s \in Sources : QueuePacket(s) \/ ReaderCounts(s)
           \/ Dequeue \/ WriterCounts \/ WritePacket
           \/ Still
<1> USE DEF Still, queueVars, readerVars, writerVars, fileVars
<1>1. ASSUME NEW s \in Sources, Reader(s)
      PROVE  \/ \E size \in Sizes : ReaderPacket(s, size)
             \/ QueuePacket(s) \/ ReaderCounts(s) \/ Still
  BY <1>1 DEF Reader, ReaderLoop, ReaderReturn, ReaderEnds, QueuePacketCheck, QueueFull
<1>2. ASSUME Writer
      PROVE  \/ \E s \in Sources : \E size \in Sizes : DispatchPacket(s, size)
             \/ Dequeue \/ WriterCounts \/ WritePacket \/ Still
  <2>1. CASE LoopTest \/ DequeueTimeout \/ IdleCheck \/ NoUpdate \/ Update \/ DurationOver
             \/ FileTimerOver \/ TimersDone \/ Join
    BY <2>1 DEF LoopTest, DequeueTimeout, IdleCheck, NoUpdate, Update, DurationOver,
       FileTimerOver, TimersDone, Join
  <2>2. ASSUME NEW s \in Sources, DispatchReturn(s) \/ DispatchEnds(s) PROVE Still
    BY <2>2 DEF DispatchReturn, DispatchEnds
  <2>3. CASE WritePacketFlushed \/ WritePacketCheck \/ WritePacketFails
    BY <2>3 DEF WritePacketFlushed, WritePacketCheck, WritePacketFails
  <2>4. CASE SwitchStops \/ SwitchSucceeds \/ SwitchFails \/ SwitchFailsOnStart
    BY <2>4 DEF SwitchStops, SwitchSucceeds, SwitchFails, SwitchFailsOnStart
  <2>5. CASE UpdateOnClosedStream \/ \E finish_ok, close_ok \in BOOLEAN : Finish(finish_ok, close_ok)
    BY <2>5 DEF UpdateOnClosedStream, Finish
  <2> QED  BY <1>2, <2>1, <2>2, <2>3, <2>4, <2>5 DEF Writer
<1>3. CASE Stop
  BY <1>3 DEF Stop
<1>4. CASE UNCHANGED vars
  BY <1>4 DEF vars
<1> QED  BY <1>1, <1>2, <1>3, <1>4 DEF Next, Terminated

\* Every step keeps HandInv.
LEMMA NextHand == LoopIInv /\ LoopTypes /\ HandInv /\ [Next]_vars => HandInv'
<1> SUFFICES ASSUME LoopIInv, LoopTypes, HandInv, [Next]_vars PROVE HandInv'
  OBVIOUS
<1> USE DEF HandInv, readerVars, writerVars, ReadersExited
<1>0. /\ wret \in {"update", "batch", "loop", "drain"} /\ rpc = [s \in Sources |-> rpc[s]]
      /\ rhand = [s \in Sources |-> rhand[s]] /\ arrived \in [Sources -> Nat]
  BY DEF LoopIInv, Shape, LoopTypes
<1>1. ASSUME NEW s \in Sources, Reader(s) PROVE HandInv'
  <2>1. CASE \E size \in Sizes : ReaderPacket(s, size)
    <3>1. PICK size \in Sizes : ReaderPacket(s, size)
      BY <2>1
    <3>2. PICK p : p = [src |-> s, seq |-> arrived[s] + 1, size |-> size]
      OBVIOUS
    <3>3. p \in Packet /\ p.src = s
      BY <1>0, <3>2 DEF Packet
    <3>4. rhand' = [rhand EXCEPT ![s] = p] /\ UNCHANGED <<wpc, wret, opts>> /\ rpc[s] = "dispatch"
      BY <3>1, <3>2 DEF ReaderPacket
    <3>5. wpc # "crashed"
      BY <3>4
    <3> QED  BY <1>0, <3>3, <3>4, <3>5
  <2>2. CASE ~ \E size \in Sizes : ReaderPacket(s, size)
    <3>1. rpc[s] # "exited" /\ UNCHANGED <<wpc, wret, opts>>
          /\ (rhand' = rhand \/ rhand' = [rhand EXCEPT ![s] = NoPacket])
      BY <1>1, <2>2 DEF Reader, ReaderLoop, ReaderReturn, ReaderEnds, QueuePacketCheck,
         QueuePacket, QueueFull, ReaderCounts
    <3>2. wpc # "crashed"
      BY <3>1
    <3> QED  BY <1>0, <3>1, <3>2
  <2> QED  BY <2>1, <2>2
<1>2. CASE Writer
  <2>1. /\ rhand' = rhand /\ opts' = opts
        /\ wpc' = "crashed" => \A s \in Sources : rpc'[s] = "exited"
    BY <1>0, <1>2 DEF Writer, LoopTest, Dequeue, DequeueTimeout, DispatchPacket, DispatchReturn,
     DispatchEnds, IdleCheck, WritePacketFlushed, WritePacketCheck,
     WritePacketFails, WriterCounts, WritePacket, SwitchStops, SwitchSucceeds, SwitchFails,
     SwitchFailsOnStart, NoUpdate, Update, UpdateOnClosedStream, DurationOver,
     FileTimerOver, TimersDone, Join, Finish
  <2>2. wpc' \in {"dispatch", "batch"} \/ wret' = "batch" => ~opts.use_threads
    BY <1>0, <1>2 DEF Writer, LoopTest, Dequeue, DequeueTimeout, DispatchPacket, DispatchReturn,
     DispatchEnds, IdleCheck, WritePacketFlushed, WritePacketCheck,
     WritePacketFails, WriterCounts, WritePacket, SwitchStops, SwitchSucceeds, SwitchFails,
     SwitchFailsOnStart, NoUpdate, Update, UpdateOnClosedStream, DurationOver,
     FileTimerOver, TimersDone, Join, Finish
  <2> QED  BY <2>1, <2>2
<1>3. CASE Stop
  BY <1>3 DEF Stop
<1>4. CASE UNCHANGED vars
  BY <1>4 DEF vars
<1> QED  BY <1>1, <1>2, <1>3, <1>4 DEF Next, Terminated

\* Where the packets are, from the invariant.
LEMMA PendingFacts ==
    ASSUME LedgerIInv
    PROVE  /\ queue \in Seq(Packet) /\ Len(queue) \in Nat
           /\ \A p : p \in Pending <=>
                \/ \E i \in 1 .. Len(queue) : p = queue[i]
                \/ \E s \in Sources : p = rhand[s] /\ p # NoPacket
                \/ p = whand /\ p # NoPacket
           /\ \A p \in WrittenAll \cup Pending :
                /\ p \in Packet /\ p.src \in Sources /\ p.seq \in Nat /\ p.seq <= arrived[p.src]
                /\ p # NoPacket
           /\ \A s \in Sources : arrived[s] \in Nat
           /\ rhand = [s \in Sources |-> rhand[s]]
<1>1. queue \in Seq(Packet) /\ Len(queue) \in Nat
  BY DEF LedgerIInv, LoopTypes
<1>2. \A p \in WrittenAll \cup Pending : p \in Packet /\ p.seq <= arrived[p.src]
  BY DEF LedgerIInv, OrderInv
<1>3. \A p \in Packet : p.src \in Sources /\ p.seq \in Nat /\ p # NoPacket
  BY PacketParts, NotNoPacket
<1>4. \A s \in Sources : arrived[s] \in Nat
  BY DEF LedgerIInv, LoopTypes
<1>5. rhand = [s \in Sources |-> rhand[s]]
  BY DEF LedgerIInv, LoopIInv, Shape
<1>6. \A p : p \in Pending <=>
                \/ \E i \in 1 .. Len(queue) : p = queue[i]
                \/ \E s \in Sources : p = rhand[s] /\ p # NoPacket
                \/ p = whand /\ p # NoPacket
  BY <1>1, PendingParts DEF Pending
<1> QED  BY <1>1, <1>2, <1>3, <1>4, <1>5, <1>6

\* A source delivers a packet to the reader thread, ...
LEMMA ReaderArrives ==
    ASSUME LedgerIInv, NEW s \in Sources, NEW size \in Sizes, ReaderPacket(s, size)
    PROVE  LET p == [src |-> s, seq |-> arrived[s] + 1, size |-> size]
           IN  /\ Pending' = Pending \cup {p} /\ p \in Packet
               /\ arrived' = [arrived EXCEPT ![s] = @ + 1]
               /\ out' = out
               /\ OrderInv'
<1>1. PICK p : p = [src |-> s, seq |-> arrived[s] + 1, size |-> size]
  OBVIOUS
<1>2. /\ p \in Packet /\ p.src = s /\ p.seq = arrived[s] + 1 /\ arrived[s] \in Nat /\ p # NoPacket
  <2>1. arrived[s] \in Nat
    BY PendingFacts
  <2>2. p \in Packet /\ p.src = s /\ p.seq = arrived[s] + 1
    BY <1>1, <2>1 DEF Packet
  <2> QED  BY <2>1, <2>2, NotNoPacket
<1>3. /\ rhand' = [rhand EXCEPT ![s] = p] /\ UNCHANGED <<queue, whand, out>>
      /\ arrived' = [arrived EXCEPT ![s] = @ + 1] /\ rpc[s] = "dispatch"
  BY <1>1 DEF ReaderPacket, queueVars, fileVars, writerVars
<1>4. rhand[s] = NoPacket
  <2>1. wpc # "crashed"
    BY <1>3 DEF LedgerIInv, HandInv, ReadersExited
  <2> QED  BY <1>3, <2>1 DEF LedgerIInv, LoopIInv, LoopInv, ReadersIdle
<1>5. rhand'[s] = p /\ \A t \in Sources : t # s => rhand'[t] = rhand[t]
  BY <1>3, PendingFacts
<1>6. Pending' = Pending \cup {p}
  <2>1. ASSUME NEW q PROVE q \in Pending' <=> q \in Pending \cup {p}
    <3>1. q \in Pending' <=>
             \/ \E i \in 1 .. Len(queue) : q = queue[i]
             \/ \E t \in Sources : q = rhand'[t] /\ q # NoPacket
             \/ q = whand /\ q # NoPacket
      <4>1. queue \in Seq(Packet)
        BY PendingFacts
      <4>2. Pending' = PendingIn(queue, rhand', whand)
        BY <1>3 DEF Pending
      <4> QED  BY <4>1, <4>2, PendingParts
    <3>2. (\E t \in Sources : q = rhand'[t] /\ q # NoPacket)
            <=> q = p \/ \E t \in Sources : q = rhand[t] /\ q # NoPacket
      BY <1>2, <1>4, <1>5
    <3> QED  BY <3>1, <3>2, PendingFacts
  <2> QED  BY <2>1
<1>7. \A q \in WrittenAll \cup Pending : Before(q, p)
  BY <1>2, PendingFacts DEF Before
<1>8. /\ arrived'[s] = arrived[s] + 1 /\ \A t \in Sources : arrived[t] \in Nat /\ arrived'[t] \in Nat /\ arrived'[t] >= arrived[t]
  BY <1>2, <1>3, PendingFacts DEF LedgerIInv, LoopTypes
<1>9. WrittenAll' = WrittenAll
  BY <1>3 DEF WrittenAll
<1>10. \A q \in WrittenAll' \cup Pending' : q \in Packet /\ q.seq <= arrived'[q.src]
  <2> SUFFICES ASSUME NEW q \in WrittenAll \cup Pending \cup {p} PROVE q \in Packet /\ q.seq <= arrived'[q.src]
    BY <1>6, <1>9
  <2>1. CASE q = p
    BY <1>2, <1>8, <2>1
  <2>2. CASE q # p
    <3>1. q \in Packet /\ q.src \in Sources /\ q.seq \in Nat /\ q.seq <= arrived[q.src]
      BY <2>2, PendingFacts
    <3> QED  BY <1>8, <3>1
  <2> QED  BY <2>1, <2>2
<1>11. \A q \in WrittenAll' : \A r \in Pending' : Before(q, r)
  BY <1>6, <1>7, <1>9 DEF LedgerIInv, OrderInv
<1>12. \A i \in 1 .. Len(queue) : queue[i] \in Pending
  BY PendingFacts
<1>13. whand # NoPacket => whand \in Pending
  BY PendingFacts
<1>14. OrderInv'
  BY <1>3, <1>5, <1>7, <1>10, <1>11, <1>12, <1>13 DEF LedgerIInv, OrderInv
<1> QED  BY <1>1, <1>2, <1>3, <1>6, <1>14

\* ... or, without threads, to the main thread.
LEMMA MainArrives ==
    ASSUME LedgerIInv, NEW s \in Sources, NEW size \in Sizes, DispatchPacket(s, size)
    PROVE  LET p == [src |-> s, seq |-> arrived[s] + 1, size |-> size]
           IN  /\ Pending' = Pending \cup {p} /\ p \in Packet
               /\ arrived' = [arrived EXCEPT ![s] = @ + 1]
               /\ out' = out
               /\ OrderInv'
<1>1. PICK p : p = [src |-> s, seq |-> arrived[s] + 1, size |-> size]
  OBVIOUS
<1>2. /\ p \in Packet /\ p.src = s /\ p.seq = arrived[s] + 1 /\ arrived[s] \in Nat /\ p # NoPacket
  <2>1. arrived[s] \in Nat
    BY PendingFacts
  <2>2. p \in Packet /\ p.src = s /\ p.seq = arrived[s] + 1
    BY <1>1, <2>1 DEF Packet
  <2> QED  BY <2>1, <2>2, NotNoPacket
<1>3. /\ whand' = p /\ UNCHANGED <<queue, rhand, out>>
      /\ arrived' = [arrived EXCEPT ![s] = @ + 1] /\ wpc \in {"dispatch", "batch"}
  BY <1>1 DEF DispatchPacket, queueVars, fileVars, writerVars
<1>4. whand = NoPacket /\ queue = << >> /\ \A t \in Sources : rhand[t] = NoPacket
  BY <1>3 DEF LedgerIInv, HandInv, LoopTypes, Handling, LoopIInv, LoopInv, Draining, Joined,
     ReadersIdle, ReadersExited
<1>5. Pending = {} /\ Pending' = {p}
  <2>1. ASSUME NEW q PROVE q \in Pending' <=> q = p
    <3>1. q \in Pending' <=>
             \/ \E i \in 1 .. Len(queue) : q = queue[i]
             \/ \E t \in Sources : q = rhand[t] /\ q # NoPacket
             \/ q = p /\ q # NoPacket
      BY <1>3, PendingFacts, PendingParts DEF Pending
    <3> QED  BY <1>2, <1>4, <3>1
  <2>2. Pending = {}
    BY <1>4, PendingFacts
  <2> QED  BY <2>1, <2>2
<1>7. \A q \in WrittenAll : Before(q, p)
  BY <1>2, PendingFacts DEF Before
<1>8. /\ arrived'[s] = arrived[s] + 1 /\ \A t \in Sources : arrived[t] \in Nat /\ arrived'[t] \in Nat /\ arrived'[t] >= arrived[t]
  BY <1>2, <1>3, PendingFacts DEF LedgerIInv, LoopTypes
<1>9. WrittenAll' = WrittenAll
  BY <1>3 DEF WrittenAll
<1>10. \A q \in WrittenAll' \cup Pending' : q \in Packet /\ q.seq <= arrived'[q.src]
  <2> SUFFICES ASSUME NEW q \in WrittenAll \cup {p} PROVE q \in Packet /\ q.seq <= arrived'[q.src]
    BY <1>5, <1>9
  <2>1. CASE q = p
    BY <1>2, <1>8, <2>1
  <2>2. CASE q # p
    <3>1. q \in Packet /\ q.src \in Sources /\ q.seq \in Nat /\ q.seq <= arrived[q.src]
      BY <2>2, PendingFacts
    <3> QED  BY <1>8, <3>1
  <2> QED  BY <2>1, <2>2
<1>14. OrderInv'
  BY <1>3, <1>4, <1>5, <1>7, <1>9, <1>10 DEF LedgerIInv, OrderInv
<1> QED  BY <1>1, <1>2, <1>3, <1>5, <1>14

\* The parts of the order that only speak of the sets of packets are kept when a
\* pending packet is moved, or when it leaves.
LEMMA SetsKeepOrder ==
    ASSUME LedgerIInv, Pending' \subseteq Pending, WrittenAll' = WrittenAll, arrived' = arrived
    PROVE  /\ \A p \in WrittenAll' : \A q \in Pending' : Before(p, q)
           /\ \A p \in WrittenAll' \cup Pending' : p \in Packet /\ p.seq <= arrived'[p.src]
  BY DEF LedgerIInv, OrderInv

\* A reader puts its packet into the queue.
LEMMA QueueMoves ==
    ASSUME LedgerIInv, NEW s \in Sources, QueuePacket(s)
    PROVE  Pending' = Pending /\ UNCHANGED <<out, arrived>> /\ OrderInv'
<1>1. PICK p : p = rhand[s]
  OBVIOUS
<1>2. /\ queue' = Append(queue, p) /\ rhand' = [rhand EXCEPT ![s] = NoPacket]
      /\ UNCHANGED <<whand, out, arrived>> /\ rpc[s] = "queue"
  BY <1>1 DEF QueuePacket, Pushed, fileVars, writerVars
<1>3. /\ p \in Packet /\ p.src = s /\ p # NoPacket /\ p \in Pending
  BY <1>1, <1>2, NotNoPacket, PendingFacts DEF LedgerIInv, LoopTypes, InCallback
<1>4. queue \in Seq(Packet) /\ Len(queue) \in Nat
  BY PendingFacts
<1>5. /\ queue' \in Seq(Packet) /\ Len(queue') = Len(queue) + 1 /\ queue'[Len(queue) + 1] = p
      /\ \A i \in 1 .. Len(queue) : queue'[i] = queue[i]
  BY <1>2, <1>3, <1>4
<1>6. rhand'[s] = NoPacket /\ \A t \in Sources : t # s => rhand'[t] = rhand[t]
  BY <1>2, PendingFacts
<1>7. \A i \in 1 .. Len(queue') : i = Len(queue) + 1 \/ i \in 1 .. Len(queue)
  BY <1>4, <1>5
<1>8. Pending' = Pending
  <2>1. ASSUME NEW q PROVE q \in Pending' <=> q \in Pending
    <3>1. q \in Pending' <=>
             \/ \E i \in 1 .. Len(queue') : q = queue'[i]
             \/ \E t \in Sources : q = rhand'[t] /\ q # NoPacket
             \/ q = whand /\ q # NoPacket
      <4>1. Pending' = PendingIn(queue', rhand', whand)
        BY <1>2 DEF Pending
      <4> QED  BY <1>5, <4>1, PendingParts
    <3>2. (\E i \in 1 .. Len(queue') : q = queue'[i]) <=> q = p \/ \E i \in 1 .. Len(queue) : q = queue[i]
      <4>1. Len(queue) + 1 \in 1 .. Len(queue') /\ \A i \in 1 .. Len(queue) : i \in 1 .. Len(queue')
        BY <1>4, <1>5
      <4> QED  BY <1>5, <1>7, <4>1
    <3>3. (\E t \in Sources : q = rhand[t] /\ q # NoPacket)
            <=> q = p \/ \E t \in Sources : q = rhand'[t] /\ q # NoPacket
      BY <1>1, <1>3, <1>6
    <3> QED  BY <3>1, <3>2, <3>3, PendingFacts
  <2> QED  BY <2>1
<1>9. WrittenAll' = WrittenAll
  BY <1>2 DEF WrittenAll
<1>10. /\ \A i \in 1 .. Len(queue) : Before(queue[i], p)
       /\ whand # NoPacket => Before(whand, p)
  BY <1>1, <1>3 DEF LedgerIInv, OrderInv
<1>11. \A t \in Sources : rhand'[t] # NoPacket => Before(p, rhand'[t])
  BY <1>3, <1>6 DEF LedgerIInv, HandInv, Before
<1>12. \A i, j \in 1 .. Len(queue') : i < j => Before(queue'[i], queue'[j])
  <2> SUFFICES ASSUME NEW i \in 1 .. Len(queue'), NEW j \in 1 .. Len(queue'), i < j
               PROVE  Before(queue'[i], queue'[j])
    OBVIOUS
  <2>1. i \in 1 .. Len(queue)
    BY <1>4, <1>5
  <2>2. CASE j = Len(queue) + 1
    BY <1>5, <1>10, <2>1, <2>2
  <2>3. CASE j \in 1 .. Len(queue)
    BY <1>5, <2>1, <2>3 DEF LedgerIInv, OrderInv
  <2> QED  BY <1>7, <2>2, <2>3
<1>13. \A i \in 1 .. Len(queue') : \A t \in Sources : rhand'[t] # NoPacket => Before(queue'[i], rhand'[t])
  <2> SUFFICES ASSUME NEW i \in 1 .. Len(queue'), NEW t \in Sources, rhand'[t] # NoPacket
               PROVE  Before(queue'[i], rhand'[t])
    OBVIOUS
  <2>1. CASE i = Len(queue) + 1
    BY <1>5, <1>11, <2>1
  <2>2. CASE i \in 1 .. Len(queue)
    BY <1>5, <1>6, <2>2 DEF LedgerIInv, OrderInv
  <2> QED  BY <1>7, <2>1, <2>2
<1>14. whand' # NoPacket => /\ \A i \in 1 .. Len(queue') : Before(whand', queue'[i])
                            /\ \A t \in Sources : rhand'[t] # NoPacket => Before(whand', rhand'[t])
  BY <1>2, <1>5, <1>6, <1>7, <1>10 DEF LedgerIInv, OrderInv
<1>15. OrderInv'
  BY <1>2, <1>8, <1>9, <1>12, <1>13, <1>14, SetsKeepOrder DEF OrderInv
<1> QED  BY <1>2, <1>8, <1>15

\* The main thread takes the packet at the head of the queue.
LEMMA DequeueMoves ==
    ASSUME LedgerIInv, Dequeue
    PROVE  Pending' = Pending /\ UNCHANGED <<out, arrived>> /\ OrderInv'
<1>1. PICK p : p = Head(queue)
  OBVIOUS
<1>2. /\ queue # << >> /\ queue' = Tail(queue) /\ whand' = p
      /\ UNCHANGED <<rhand, out, arrived>> /\ wpc \in {"dequeue", "drain"}
  BY <1>1 DEF Dequeue, fileVars, readerVars
<1>3. whand = NoPacket
  BY <1>2 DEF LedgerIInv, LoopTypes, Handling
<1>4. queue \in Seq(Packet) /\ Len(queue) \in Nat \ {0}
  BY <1>2, PendingFacts
<1>5. /\ queue' \in Seq(Packet) /\ Len(queue') = Len(queue) - 1 /\ p = queue[1] /\ p \in Packet
      /\ \A i \in 1 .. Len(queue') : queue'[i] = queue[i + 1]
  BY <1>1, <1>2, <1>4
<1>6. p # NoPacket
  BY <1>5, NotNoPacket
<1>7. \A i \in 1 .. Len(queue) : i = 1 \/ (i - 1 \in 1 .. Len(queue') /\ queue[i] = queue'[i - 1])
  BY <1>4, <1>5
<1>8. \A i \in 1 .. Len(queue') : i + 1 \in 1 .. Len(queue) /\ 1 \in 1 .. Len(queue) /\ 1 < i + 1
  BY <1>4, <1>5
<1>9. Pending' = Pending
  <2>1. ASSUME NEW q PROVE q \in Pending' <=> q \in Pending
    <3>1. q \in Pending' <=>
             \/ \E i \in 1 .. Len(queue') : q = queue'[i]
             \/ \E t \in Sources : q = rhand[t] /\ q # NoPacket
             \/ q = p /\ q # NoPacket
      <4>1. Pending' = PendingIn(queue', rhand, p)
        BY <1>2 DEF Pending
      <4> QED  BY <1>5, <4>1, PendingParts
    <3>2. (\E i \in 1 .. Len(queue) : q = queue[i]) <=> q = p \/ \E i \in 1 .. Len(queue') : q = queue'[i]
      <4>1. 1 \in 1 .. Len(queue)
        BY <1>4
      <4> QED  BY <1>5, <1>7, <1>8, <4>1
    <3> QED  BY <1>3, <1>6, <3>1, <3>2, PendingFacts
  <2> QED  BY <2>1
<1>10. WrittenAll' = WrittenAll
  BY <1>2 DEF WrittenAll
<1>11. \A i \in 1 .. Len(queue') : Before(p, queue'[i])
  BY <1>5, <1>8 DEF LedgerIInv, OrderInv
<1>12. \A t \in Sources : rhand[t] # NoPacket => Before(p, rhand[t])
  <2>1. 1 \in 1 .. Len(queue)
    BY <1>4
  <2> QED  BY <1>5, <2>1 DEF LedgerIInv, OrderInv
<1>13. \A i, j \in 1 .. Len(queue') : i < j => Before(queue'[i], queue'[j])
  <2> SUFFICES ASSUME NEW i \in 1 .. Len(queue'), NEW j \in 1 .. Len(queue'), i < j
               PROVE  Before(queue'[i], queue'[j])
    OBVIOUS
  <2>1. i + 1 < j + 1 /\ i + 1 \in 1 .. Len(queue) /\ j + 1 \in 1 .. Len(queue)
    BY <1>4, <1>5
  <2>2. Before(queue[i + 1], queue[j + 1])
    BY <2>1 DEF LedgerIInv, OrderInv
  <2> QED  BY <1>5, <2>2
<1>14. \A i \in 1 .. Len(queue') : \A t \in Sources : rhand[t] # NoPacket => Before(queue'[i], rhand[t])
  BY <1>5, <1>8 DEF LedgerIInv, OrderInv
<1>15. OrderInv'
  BY <1>2, <1>9, <1>10, <1>11, <1>12, <1>13, <1>14, SetsKeepOrder DEF OrderInv
<1> QED  BY <1>2, <1>9, <1>15

\* A reader gives up its packet: it was flushed or dropped.
LEMMA ReaderLoses ==
    ASSUME LedgerIInv, NEW s \in Sources, ReaderCounts(s)
    PROVE  /\ rhand[s] \in Pending /\ Pending' = Pending \ {rhand[s]}
           /\ UNCHANGED <<out, arrived>> /\ OrderInv'
<1>1. PICK p : p = rhand[s]
  OBVIOUS
<1>2. /\ rhand' = [rhand EXCEPT ![s] = NoPacket] /\ rpc[s] \in {"flushed++", "dropped++"}
      /\ UNCHANGED <<queue, whand, out, arrived>>
  BY DEF ReaderCounts, queueVars, fileVars, writerVars
<1>3. p \in Packet /\ p.src = s /\ p # NoPacket /\ p.seq \in Nat
  BY <1>1, <1>2, NotNoPacket, PacketParts DEF LedgerIInv, LoopTypes, InCallback
<1>4. p \in Pending
  BY <1>1, <1>3, PendingFacts
<1>5. rhand'[s] = NoPacket /\ \A t \in Sources : t # s => rhand'[t] = rhand[t]
  BY <1>2, PendingFacts
<1>6. /\ \A i \in 1 .. Len(queue) : queue[i] # p
      /\ whand # NoPacket => whand # p
      /\ \A t \in Sources : t # s /\ rhand[t] # NoPacket => rhand[t] # p
  BY <1>1, <1>3 DEF LedgerIInv, OrderInv, HandInv, Before
<1>7. Pending' = Pending \ {p}
  <2>1. ASSUME NEW q PROVE q \in Pending' <=> q \in Pending \ {p}
    <3>1. q \in Pending' <=>
             \/ \E i \in 1 .. Len(queue) : q = queue[i]
             \/ \E t \in Sources : q = rhand'[t] /\ q # NoPacket
             \/ q = whand /\ q # NoPacket
      <4>1. queue \in Seq(Packet)
        BY PendingFacts
      <4>2. Pending' = PendingIn(queue, rhand', whand)
        BY <1>2 DEF Pending
      <4> QED  BY <4>1, <4>2, PendingParts
    <3>2. (\E t \in Sources : q = rhand'[t] /\ q # NoPacket)
            <=> q # p /\ \E t \in Sources : q = rhand[t] /\ q # NoPacket
      BY <1>1, <1>5, <1>6
    <3> QED  BY <1>3, <1>6, <3>1, <3>2, PendingFacts
  <2> QED  BY <2>1
<1>8. WrittenAll' = WrittenAll
  BY <1>2 DEF WrittenAll
<1>9. OrderInv'
  <2>1. /\ \A r \in WrittenAll' : \A q \in Pending' : Before(r, q)
        /\ \A r \in WrittenAll' \cup Pending' : r \in Packet /\ r.seq <= arrived'[r.src]
    BY <1>2, <1>7, <1>8, SetsKeepOrder
  <2> QED  BY <1>2, <1>5, <2>1 DEF LedgerIInv, OrderInv
<1> QED  BY <1>1, <1>2, <1>4, <1>7, <1>9

\* The packet in the hands of the main thread is the oldest of its source; when it
\* leaves them it is in nobody's hands.
LEMMA MainGives ==
    ASSUME LedgerIInv, wpc \in Handling, whand' = NoPacket, UNCHANGED <<queue, rhand>>
    PROVE  /\ whand \in Pending /\ whand \in Packet
           /\ Pending' = Pending \ {whand}
           /\ \A q \in Pending : q # whand => Before(whand, q)
<1>1. whand \in Packet /\ whand # NoPacket /\ whand.seq \in Nat
  BY NotNoPacket, PacketParts DEF LedgerIInv, LoopTypes
<1>2. whand \in Pending
  BY <1>1, PendingFacts
<1>3. /\ \A i \in 1 .. Len(queue) : Before(whand, queue[i])
      /\ \A t \in Sources : rhand[t] # NoPacket => Before(whand, rhand[t])
  BY <1>1 DEF LedgerIInv, OrderInv
<1>4. ASSUME NEW q, Before(whand, q) PROVE q # whand
  BY <1>1, <1>4 DEF Before
<1>5. Pending' = Pending \ {whand}
  <2>1. ASSUME NEW q PROVE q \in Pending' <=> q \in Pending \ {whand}
    <3>1. q \in Pending' <=>
             \/ \E i \in 1 .. Len(queue) : q = queue[i]
             \/ \E t \in Sources : q = rhand[t] /\ q # NoPacket
             \/ q = NoPacket /\ q # NoPacket
      <4>1. queue \in Seq(Packet)
        BY PendingFacts
      <4>2. Pending' = PendingIn(queue, rhand, NoPacket)
        BY DEF Pending
      <4> QED  BY <4>1, <4>2, PendingParts
    <3> QED  BY <1>3, <1>4, <3>1, PendingFacts
  <2> QED  BY <2>1
<1>6. \A q \in Pending : q # whand => Before(whand, q)
  BY <1>3, PendingFacts
<1> QED  BY <1>1, <1>2, <1>5, <1>6

\* The main thread gives up its packet: it was flushed or could not be written.
LEMMA MainLoses ==
    ASSUME LedgerIInv, WriterCounts
    PROVE  /\ whand \in Pending /\ Pending' = Pending \ {whand}
           /\ UNCHANGED <<out, arrived>> /\ OrderInv'
<1>1. wpc \in Handling /\ whand' = NoPacket /\ UNCHANGED <<queue, rhand, out, arrived>>
  BY DEF WriterCounts, Handling, queueVars, readerVars, fileVars
<1>2. whand \in Pending /\ Pending' = Pending \ {whand}
  BY <1>1, MainGives
<1>3. WrittenAll' = WrittenAll
  BY <1>1 DEF WrittenAll
<1>4. /\ \A r \in WrittenAll' : \A q \in Pending' : Before(r, q)
      /\ \A r \in WrittenAll' \cup Pending' : r \in Packet /\ r.seq <= arrived'[r.src]
  BY <1>1, <1>2, <1>3, SetsKeepOrder
<1>5. OrderInv'
  BY <1>1, <1>4 DEF LedgerIInv, OrderInv
<1> QED  BY <1>1, <1>2, <1>5

\* The main thread writes its packet.
LEMMA MainWrites ==
    ASSUME LedgerIInv, WritePacket
    PROVE  /\ whand \in Pending /\ whand \in Packet /\ Pending' = Pending \ {whand}
           /\ \A q \in Pending : q # whand => Before(whand, q)
           /\ WrittenAll' = WrittenAll \cup {whand}
           /\ arrived' = arrived /\ OrderInv'
<1>1. /\ wpc \in Handling /\ whand' = NoPacket /\ UNCHANGED <<queue, rhand, arrived>>
      /\ out' = SetLast(out, Append(Last(out), whand))
  BY DEF WritePacket, Handling, queueVars, readerVars
<1>2. /\ whand \in Pending /\ whand \in Packet /\ Pending' = Pending \ {whand}
      /\ \A q \in Pending : q # whand => Before(whand, q)
  BY <1>1, MainGives
<1>3. WrittenAll' = WrittenAll \cup {whand}
  <2>1. out \in Seq(Seq(Packet)) /\ out # << >>
    BY DEF LedgerIInv, LoopTypes
  <2> QED  BY <1>1, <1>2, <2>1, PacketsOfWrite DEF WrittenAll
<1>4. \A p \in WrittenAll' : \A q \in Pending' : Before(p, q)
  BY <1>2, <1>3 DEF LedgerIInv, OrderInv
<1>5. \A p \in WrittenAll' \cup Pending' : p \in Packet /\ p.seq <= arrived'[p.src]
  BY <1>1, <1>2, <1>3 DEF LedgerIInv, OrderInv
<1>6. OrderInv'
  BY <1>1, <1>4, <1>5 DEF LedgerIInv, OrderInv
<1> QED  BY <1>1, <1>2, <1>3, <1>6

\* Every other step leaves the packets where they are.
LEMMA StillKeeps ==
    ASSUME LedgerIInv, Still
    PROVE  Pending' = Pending /\ WrittenAll' = WrittenAll /\ OrderInv'
<1>1. UNCHANGED <<queue, rhand, whand, arrived>> /\ (out' = out \/ out' = Append(out, << >>))
  BY DEF Still
<1>2. WrittenAll' = WrittenAll
  <2>1. out \in Seq(Seq(Packet))
    BY DEF LedgerIInv, LoopTypes
  <2> QED  BY <1>1, <2>1, PacketsOfNew DEF WrittenAll
<1>3. Pending' = Pending
  BY <1>1 DEF Pending
<1>4. OrderInv'
  BY <1>1, <1>2, <1>3 DEF LedgerIInv, OrderInv
<1> QED  BY <1>2, <1>3, <1>4

\* Every step keeps the order, ...
LEMMA NextLedger == LedgerIInv /\ [Next]_vars => LedgerIInv'
<1> SUFFICES ASSUME LedgerIInv, [Next]_vars PROVE LedgerIInv'
  OBVIOUS
<1>1. LoopIInv' /\ LoopTypes' /\ HandInv'
  BY NextLoop, NextTypes, NextHand DEF LedgerIInv
<1>2. OrderInv'
  BY LedgerSteps, ReaderArrives, MainArrives, QueueMoves, DequeueMoves, ReaderLoses,
     MainLoses, MainWrites, StillKeeps
<1> QED  BY <1>1, <1>2 DEF LedgerIInv

\* ... which holds at the start.
LEMMA InitLedgerIInv == Init => LedgerIInv
  BY InitLoop, InitTypes, InitLedger DEF LedgerIInv
-----------------------------------------------------------------------------
(***************************************************************************)
(* The accounts: every packet that arrived is kept, flushed or dropped.     *)
(***************************************************************************)

\* The packets of a source that are neither flushed nor dropped.
Kept(s) == {p \in WrittenAll \cup Pending : p.src = s}

Counting == {"flushed++", "dropped++"}

\* F packets of s were flushed and D dropped: together with the packets kept they
\* are all that arrived.  No counter, and no copy of it that a thread has loaded,
\* is ahead; the counters are exact until the capture is stopped.
Accounts(s, F, D) ==
    /\ F + D + Cardinality(Kept(s)) = arrived[s]
    /\ flushed[s] <= F /\ dropped[s] <= D
    /\ rpc[s] = "flushed++" => rload[s] <= F
    /\ rpc[s] = "dropped++" => rload[s] <= D
    /\ wpc = "flushed++" /\ whand.src = s => wload <= F
    /\ wpc = "dropped++" /\ whand.src = s => wload <= D
    /\ go \/ ~opts.use_threads => flushed[s] = F /\ dropped[s] = D

CountTypes ==
    /\ flushed \in [Sources -> Nat] /\ dropped \in [Sources -> Nat]
    /\ rload \in [Sources -> Nat] /\ wload \in Nat

\* Before the capture is stopped only a reader counts, and nobody else counts in
\* the same field; without threads only the main thread does.
CountInv ==
    /\ go => wpc \notin Counting
    /\ \A s \in Sources :
         go => rpc[s] # "flushed++" /\ (rpc[s] = "dropped++" => rload[s] = dropped[s])
    /\ ~opts.use_threads =>
         /\ wpc = "flushed++" => wload = flushed[whand.src]
         /\ wpc = "dropped++" => wload = dropped[whand.src]

DropInv ==
    /\ CountTypes
    /\ CountInv
    /\ \A s \in Sources : IsFiniteSet(Kept(s)) /\ \E F, D \in Nat : Accounts(s, F, D)

\* The steps that count.
Uncounted ==
    /\ UNCHANGED <<opts, flushed, dropped, arrived, rload, wload>>
    /\ go' => go
    /\ \A s \in Sources : rpc'[s] \in Counting => rpc'[s] = rpc[s]
    /\ wpc' \in Counting => wpc' = wpc /\ whand' = whand

\* The steps that load or store a counter, and the rest.
LEMMA CountSteps ==
    ASSUME LoopIInv, [Next]_vars
    PROVE  \/ \E s \in Sources : \E size \in Sizes : ReaderPacket(s, size) \/ DispatchPacket(s, size)
           \/ \E s \in Sources : QueuePacketCheck(s) \/ QueueFull(s) \/ ReaderCounts(s)
           \/ WritePacketFlushed \/ WritePacketFails \/ WriterCounts
           \/ Uncounted /\ ((\E s \in Sources : QueuePacket(s)) \/ Dequeue \/ WritePacket \/ Still)
<1> USE DEF Uncounted, Counting, Still, queueVars, readerVars, writerVars, fileVars, statVars
<1>0. wret \in {"update", "batch", "loop", "drain"} /\ rpc = [s \in Sources |-> rpc[s]]
  BY DEF LoopIInv, Shape
<1>1. ASSUME NEW s \in Sources, Reader(s)
      PROVE  \/ \E size \in Sizes : ReaderPacket(s, size)
             \/ QueuePacketCheck(s) \/ QueueFull(s) \/ ReaderCounts(s)
             \/ Uncounted /\ (QueuePacket(s) \/ Still)
  <2>1. CASE ReaderLoop(s) \/ ReaderReturn(s)
    BY <1>0, <2>1 DEF ReaderLoop, ReaderReturn
  <2>2. CASE ReaderEnds(s)
    BY <1>0, <2>2 DEF ReaderEnds, SourceEnds
  <2>3. CASE QueuePacket(s)
    BY <1>0, <2>3 DEF QueuePacket, AfterCallback
  <2> QED  BY <1>1, <2>1, <2>2, <2>3 DEF Reader
<1>2. ASSUME Writer
      PROVE  \/ \E s \in Sources : \E size \in Sizes : DispatchPacket(s, size)
             \/ WritePacketFlushed \/ WritePacketFails \/ WriterCounts
             \/ Uncounted /\ (Dequeue \/ WritePacket \/ Still)
  <2>1. CASE LoopTest \/ DequeueTimeout \/ IdleCheck \/ NoUpdate \/ Update \/ DurationOver
             \/ FileTimerOver \/ TimersDone \/ Join
    BY <2>1 DEF LoopTest, DequeueTimeout, IdleCheck, NoUpdate, Update, DurationOver,
       FileTimerOver, TimersDone, Join
  <2>2. ASSUME NEW s \in Sources, DispatchReturn(s) \/ DispatchEnds(s) PROVE Uncounted /\ Still
    BY <2>2 DEF DispatchReturn, DispatchEnds, SourceEnds
  <2>3. CASE Dequeue \/ WritePacketCheck
    BY <2>3 DEF Dequeue, WritePacketCheck
  <2>4. CASE WritePacket
    BY <1>0, <2>4 DEF WritePacket
  <2>5. CASE SwitchStops \/ SwitchSucceeds \/ SwitchFails \/ SwitchFailsOnStart
    BY <1>0, <2>5 DEF SwitchStops, SwitchSucceeds, SwitchFails, SwitchFailsOnStart
  <2>6. CASE UpdateOnClosedStream \/ \E finish_ok, close_ok \in BOOLEAN : Finish(finish_ok, close_ok)
    BY <1>0, <2>6 DEF UpdateOnClosedStream, Finish
  <2> QED  BY <1>2, <2>1, <2>2, <2>3, <2>4, <2>5, <2>6 DEF Writer
<1>3. CASE Stop
  BY <1>3 DEF Stop
<1>4. CASE UNCHANGED vars
  BY <1>4 DEF vars
<1> QED  BY <1>1, <1>2, <1>3, <1>4 DEF Next, Terminated

\* Nothing is counted and no packet of s leaves: the account stays as it is.
LEMMA AccountKept ==
    ASSUME CountTypes, NEW s \in Sources, Kept(s)' = Kept(s), IsFiniteSet(Kept(s)),
           \E F, D \in Nat : Accounts(s, F, D),
           opts' = opts, go' => go,
           arrived'[s] = arrived[s], flushed'[s] = flushed[s], dropped'[s] = dropped[s],
           rpc'[s] = "flushed++" => rload'[s] = flushed[s] \/ (rpc[s] = "flushed++" /\ rload'[s] = rload[s]),
           rpc'[s] = "dropped++" => rload'[s] = dropped[s] \/ (rpc[s] = "dropped++" /\ rload'[s] = rload[s]),
           wpc' = "flushed++" /\ whand'.src = s =>
             wload' = flushed[s] \/ (wpc = "flushed++" /\ wload' = wload /\ whand' = whand),
           wpc' = "dropped++" /\ whand'.src = s =>
             wload' = dropped[s] \/ (wpc = "dropped++" /\ wload' = wload /\ whand' = whand)
    PROVE  IsFiniteSet(Kept(s)') /\ \E F, D \in Nat : Accounts(s, F, D)'
<1>1. PICK F \in Nat, D \in Nat : Accounts(s, F, D)
  OBVIOUS
<1>2. Accounts(s, F, D)'
  BY <1>1 DEF Accounts
<1> QED  BY <1>2

\* The counters stay numbers, and before the stop, or without threads, a counter
\* that is loaded is not stored by anybody else in between.
LEMMA NextCounts == LedgerIInv /\ CountTypes /\ CountInv /\ [Next]_vars => CountTypes' /\ CountInv'
<1> SUFFICES ASSUME LedgerIInv, CountTypes, CountInv, [Next]_vars PROVE CountTypes' /\ CountInv'
  OBVIOUS
<1> USE DEF CountTypes, CountInv, Counting
<1>0. /\ wret \in {"update", "batch", "loop", "drain"} /\ rpc = [s \in Sources |-> rpc[s]]
      /\ ~opts.use_threads => \A s \in Sources : rpc[s] = "exited"
      /\ wpc \in Handling => whand.src \in Sources
  BY PacketParts DEF LedgerIInv, LoopIInv, Shape, LoopInv, Joined, ReadersExited, LoopTypes
<1>1. ASSUME NEW s \in Sources, NEW size \in Sizes, ReaderPacket(s, size) \/ DispatchPacket(s, size)
      PROVE  CountTypes' /\ CountInv'
  BY <1>0, <1>1 DEF ReaderPacket, DispatchPacket, statVars, writerVars
<1>2. ASSUME NEW s \in Sources, QueuePacketCheck(s) \/ QueueFull(s)
      PROVE  CountTypes' /\ CountInv'
  BY <1>0, <1>2 DEF QueuePacketCheck, QueueFull, statVars, writerVars
<1>3. ASSUME NEW s \in Sources, ReaderCounts(s) PROVE CountTypes' /\ CountInv'
  <2>1. /\ \A t \in Sources : flushed[t] \in Nat /\ dropped[t] \in Nat /\ rload[t] \in Nat
        /\ flushed' = IF rpc[s] = "flushed++" THEN [flushed EXCEPT ![s] = rload[s] + 1] ELSE flushed
        /\ dropped' = IF rpc[s] = "dropped++" THEN [dropped EXCEPT ![s] = rload[s] + 1] ELSE dropped
        /\ rload' = [rload EXCEPT ![s] = 0] /\ rpc[s] # "exited"
        /\ UNCHANGED <<opts, go, wpc, wload, whand>>
        /\ \E pc \in {"loop", "dispatch"} : rpc' = [rpc EXCEPT ![s] = pc]
    BY <1>3 DEF ReaderCounts, writerVars, AfterCallback
  <2>2. CountTypes'
    BY <2>1
  <2>3. rpc'[s] \notin Counting /\ \A t \in Sources : t # s =>
          rpc'[t] = rpc[t] /\ rload'[t] = rload[t] /\ dropped'[t] = dropped[t]
    BY <1>0, <2>1
  <2> QED  BY <1>0, <2>1, <2>2, <2>3
<1>4. CASE WritePacketFlushed \/ WritePacketFails
  BY <1>0, <1>4 DEF WritePacketFlushed, WritePacketFails, Saving, statVars, readerVars, Handling
<1>5. CASE WriterCounts
  <2>1. /\ flushed' = IF wpc = "flushed++" THEN [flushed EXCEPT ![whand.src] = wload + 1] ELSE flushed
        /\ dropped' = IF wpc = "dropped++" THEN [dropped EXCEPT ![whand.src] = wload + 1] ELSE dropped
        /\ wload' = 0 /\ wpc' = wret /\ UNCHANGED <<opts, go, rpc, rload>> /\ wpc \in Counting
    BY <1>5 DEF WriterCounts, readerVars
  <2>2. whand.src \in Sources /\ ~go /\ wload \in Nat /\ wload + 1 \in Nat
    BY <1>0, <2>1 DEF Handling
  <2> QED  BY <1>0, <2>1, <2>2
<1>6. CASE Uncounted
  BY <1>0, <1>6 DEF Uncounted
<1> QED  BY <1>1, <1>2, <1>3, <1>4, <1>5, <1>6, CountSteps DEF LedgerIInv

\* A packet that arrives is kept until it is written, flushed or dropped.
LEMMA KeptArrives ==
    ASSUME LedgerIInv, NEW s \in Sources, NEW p \in Packet, p.src = s, p.seq = arrived[s] + 1,
           Pending' = Pending \cup {p}, WrittenAll' = WrittenAll
    PROVE  /\ p \notin Kept(s) /\ Kept(s)' = Kept(s) \cup {p}
           /\ \A t \in Sources : t # s => Kept(t)' = Kept(t)
<1>1. p \notin WrittenAll \cup Pending
  BY PendingFacts
<1>2. WrittenAll' \cup Pending' = (WrittenAll \cup Pending) \cup {p}
  OBVIOUS
<1> QED  BY <1>1, <1>2 DEF Kept

\* A packet that leaves was not written.
LEMMA KeptLeaves ==
    ASSUME LedgerIInv, NEW p \in Pending, Pending' = Pending \ {p}, WrittenAll' = WrittenAll
    PROVE  /\ p \in Kept(p.src) /\ Kept(p.src)' = Kept(p.src) \ {p}
           /\ \A t \in Sources : t # p.src => Kept(t)' = Kept(t)
<1>1. p \notin WrittenAll
  <2>1. p \in WrittenAll => Before(p, p)
    BY DEF LedgerIInv, OrderInv
  <2> QED  BY <2>1, PendingFacts DEF Before
<1>2. WrittenAll' \cup Pending' = (WrittenAll \cup Pending) \ {p}
  BY <1>1
<1> QED  BY <1>2 DEF Kept

\* The account of a source, after a step, as the invariant has it.
Accounted(s) == IsFiniteSet(Kept(s)) /\ \E F, D \in Nat : Accounts(s, F, D)

\* A packet arrives: one more is kept.
LEMMA ArrivalAccounted ==
    ASSUME LedgerIInv, DropInv, NEW s \in Sources, NEW size \in Sizes,
           ReaderPacket(s, size) \/ DispatchPacket(s, size), NEW t \in Sources
    PROVE  Accounted(t)'
<1>1. PICK p : p = [src |-> s, seq |-> arrived[s] + 1, size |-> size]
  OBVIOUS
<1>2. /\ p \in Packet /\ Pending' = Pending \cup {p} /\ arrived' = [arrived EXCEPT ![s] = @ + 1] /\ out' = out
  BY <1>1, ReaderArrives, MainArrives
<1>3. p.src = s /\ p.seq = arrived[s] + 1 /\ WrittenAll' = WrittenAll
  BY <1>1, <1>2 DEF WrittenAll
<1>4. /\ p \notin Kept(s) /\ Kept(s)' = Kept(s) \cup {p}
      /\ t # s => Kept(t)' = Kept(t)
  BY <1>2, <1>3, KeptArrives
<1>5. arrived'[s] = arrived[s] + 1 /\ arrived[s] \in Nat /\ (t # s => arrived'[t] = arrived[t])
  BY <1>2, PendingFacts DEF LedgerIInv, LoopTypes
<1>6. /\ UNCHANGED <<opts, go, flushed, dropped, rload, wload>>
      /\ rpc'[t] \in Counting => rpc'[t] = rpc[t]
      /\ wpc' \in Counting => wpc' = wpc /\ whand' = whand
  BY DEF ReaderPacket, DispatchPacket, statVars, writerVars, Counting, LedgerIInv, LoopIInv, Shape
<1>7. PICK F \in Nat, D \in Nat : Accounts(t, F, D)
  BY DEF DropInv
<1>8. IsFiniteSet(Kept(t))
  BY DEF DropInv
<1>9. CASE t = s
  <2>1. IsFiniteSet(Kept(t)') /\ Cardinality(Kept(t)') = Cardinality(Kept(t)) + 1
    BY <1>4, <1>8, <1>9, FS_AddElement
  <2>2. Cardinality(Kept(t)) \in Nat
    BY <1>8, FS_CardinalityType
  <2>3. F + D + Cardinality(Kept(t)') = arrived'[t]
    BY <1>5, <1>7, <1>9, <2>1, <2>2 DEF Accounts
  <2>4. Accounts(t, F, D)'
    BY <1>6, <1>7, <2>3 DEF Accounts, Counting
  <2> QED  BY <2>1, <2>4 DEF Accounted
<1>10. CASE t # s
  <2>1. Accounts(t, F, D)'
    BY <1>4, <1>5, <1>6, <1>7, <1>10 DEF Accounts, Counting
  <2> QED  BY <1>4, <1>8, <1>10, <2>1 DEF Accounted
<1> QED  BY <1>9, <1>10

\* A thread loads a counter, or nobody does: the account stays as it is.
LEMMA LoadAccounted ==
    ASSUME LedgerIInv, DropInv, NEW t \in Sources,
           \/ \E s \in Sources : QueuePacketCheck(s) \/ QueueFull(s)
           \/ WritePacketFlushed \/ WritePacketFails
    PROVE  Accounted(t)'
<1>1. Still
  BY DEF QueuePacketCheck, QueueFull, WritePacketFlushed, WritePacketFails, Still, queueVars,
     readerVars, writerVars, fileVars
<1>2. Kept(t)' = Kept(t) /\ arrived' = arrived
  BY <1>1, StillKeeps DEF Kept, Still
<1>3. rpc = [s \in Sources |-> rpc[s]] /\ rload \in [Sources -> Nat]
  BY DEF LedgerIInv, LoopIInv, Shape, DropInv, CountTypes
<1>4. /\ UNCHANGED <<opts, flushed, dropped>> /\ (go' => go)
      /\ rpc'[t] = "flushed++" => rload'[t] = flushed[t] \/ (rpc[t] = "flushed++" /\ rload'[t] = rload[t])
      /\ rpc'[t] = "dropped++" => rload'[t] = dropped[t] \/ (rpc[t] = "dropped++" /\ rload'[t] = rload[t])
      /\ wpc' = "flushed++" /\ whand'.src = t =>
             wload' = flushed[t] \/ (wpc = "flushed++" /\ wload' = wload /\ whand' = whand)
      /\ wpc' = "dropped++" /\ whand'.src = t =>
             wload' = dropped[t] \/ (wpc = "dropped++" /\ wload' = wload /\ whand' = whand)
  BY <1>3 DEF QueuePacketCheck, QueueFull, WritePacketFlushed, WritePacketFails, statVars,
     readerVars, writerVars
<1> QED  BY <1>2, <1>4, AccountKept DEF DropInv, Accounted

\* A step that counts nothing.
LEMMA UncountedAccounted ==
    ASSUME LedgerIInv, DropInv, NEW t \in Sources, Uncounted,
           (\E s \in Sources : QueuePacket(s)) \/ Dequeue \/ WritePacket \/ Still
    PROVE  Accounted(t)'
<1>1. WrittenAll' \cup Pending' = WrittenAll \cup Pending
  <2>1. CASE (\E s \in Sources : QueuePacket(s)) \/ Dequeue
    BY <2>1, QueueMoves, DequeueMoves DEF WrittenAll
  <2>2. CASE WritePacket
    BY <2>2, MainWrites
  <2>3. CASE Still
    BY <2>3, StillKeeps
  <2> QED  BY <2>1, <2>2, <2>3
<1>2. Kept(t)' = Kept(t)
  BY <1>1 DEF Kept
<1> QED  BY <1>2, AccountKept DEF DropInv, Accounted, Uncounted, Counting

\* A reader stores its counter and gives up the packet.
LEMMA ReaderCountAccounted ==
    ASSUME LedgerIInv, DropInv, NEW s \in Sources, ReaderCounts(s), NEW t \in Sources
    PROVE  Accounted(t)'
<1>1. PICK p : p = rhand[s]
  OBVIOUS
<1>2. p \in Pending /\ Pending' = Pending \ {p} /\ WrittenAll' = WrittenAll /\ arrived' = arrived
  BY <1>1, ReaderLoses DEF WrittenAll
<1>3. p.src = s
  BY <1>1, <1>2, PendingFacts DEF LedgerIInv, HandInv
<1>4. /\ p \in Kept(s) /\ Kept(s)' = Kept(s) \ {p} /\ (t # s => Kept(t)' = Kept(t))
  BY <1>2, <1>3, KeptLeaves
<1>5. /\ \A u \in Sources : flushed[u] \in Nat /\ dropped[u] \in Nat /\ rload[u] \in Nat
      /\ flushed \in [Sources -> Nat] /\ dropped \in [Sources -> Nat] /\ rload \in [Sources -> Nat]
      /\ wload \in Nat /\ rpc = [u \in Sources |-> rpc[u]] /\ arrived[t] \in Nat
  BY PendingFacts DEF DropInv, CountTypes, LedgerIInv, LoopIInv, Shape
<1>6. /\ rpc[s] \in Counting
      /\ flushed' = IF rpc[s] = "flushed++" THEN [flushed EXCEPT ![s] = rload[s] + 1] ELSE flushed
      /\ dropped' = IF rpc[s] = "dropped++" THEN [dropped EXCEPT ![s] = rload[s] + 1] ELSE dropped
      /\ rload' = [rload EXCEPT ![s] = 0]
      /\ UNCHANGED <<opts, go, wpc, wload, whand>>
      /\ \E pc \in {"loop", "dispatch"} : rpc' = [rpc EXCEPT ![s] = pc]
  BY DEF ReaderCounts, writerVars, AfterCallback, Counting
<1>7. opts.use_threads /\ (go => rpc[s] = "dropped++" /\ rload[s] = dropped[s])
  BY <1>6 DEF LedgerIInv, LoopIInv, LoopInv, Joined, ReadersExited, DropInv, CountInv, Counting
<1>8. PICK F \in Nat, D \in Nat : Accounts(t, F, D)
  BY DEF DropInv
<1>9. IsFiniteSet(Kept(t)) /\ Cardinality(Kept(t)) \in Nat
  BY FS_CardinalityType DEF DropInv
<1>10. CASE t = s
  <2>1. IsFiniteSet(Kept(t)') /\ Cardinality(Kept(t)') = Cardinality(Kept(t)) - 1
    BY <1>4, <1>9, <1>10, FS_RemoveElement
  <2>2. PICK k : k = Cardinality(Kept(t)')
    OBVIOUS
  <2>3. k = Cardinality(Kept(t)) - 1 /\ k \in Int
    BY <1>9, <2>1, <2>2
  <2>4. rpc'[t] \notin Counting
    BY <1>5, <1>6, <1>10 DEF Counting
  <2>5. CASE rpc[s] = "flushed++"
    <3>1. flushed'[t] = rload[t] + 1 /\ dropped'[t] = dropped[t] /\ ~go
      BY <1>5, <1>6, <1>7, <1>10, <2>5
    <3>2. F + 1 + D + k = arrived[t] /\ F + 1 \in Nat
      BY <1>5, <1>8, <1>9, <2>3 DEF Accounts
    <3>3. flushed'[t] <= F + 1 /\ dropped'[t] <= D
      BY <1>5, <1>8, <1>10, <2>5, <3>1 DEF Accounts
    <3>4. (wpc = "flushed++" /\ whand.src = t => wload <= F + 1) /\ (wpc = "dropped++" /\ whand.src = t => wload <= D)
      BY <1>5, <1>8 DEF Accounts
    <3>5. Accounts(t, F + 1, D)'
      BY <1>2, <1>6, <1>7, <2>2, <2>4, <3>1, <3>2, <3>3, <3>4 DEF Accounts, Counting
    <3> QED  BY <2>1, <3>2, <3>5 DEF Accounted
  <2>6. CASE rpc[s] = "dropped++"
    <3>1. dropped'[t] = rload[t] + 1 /\ flushed'[t] = flushed[t]
      BY <1>5, <1>6, <1>10, <2>6
    <3>2. F + (D + 1) + k = arrived[t] /\ D + 1 \in Nat
      BY <1>5, <1>8, <1>9, <2>3 DEF Accounts
    <3>3. dropped'[t] <= D + 1 /\ flushed'[t] <= F
      BY <1>5, <1>8, <1>10, <2>6, <3>1 DEF Accounts
    <3>4. (wpc = "flushed++" /\ whand.src = t => wload <= F) /\ (wpc = "dropped++" /\ whand.src = t => wload <= D + 1)
      BY <1>5, <1>8 DEF Accounts
    <3>6. go => flushed'[t] = F /\ dropped'[t] = D + 1
      BY <1>5, <1>7, <1>8, <1>10, <3>1 DEF Accounts
    <3>5. Accounts(t, F, D + 1)'
      BY <1>2, <1>6, <1>7, <2>2, <2>4, <3>2, <3>3, <3>4, <3>6 DEF Accounts, Counting
    <3> QED  BY <2>1, <3>2, <3>5 DEF Accounted
  <2> QED  BY <1>6, <2>5, <2>6 DEF Counting
<1>11. CASE t # s
  <2>1. flushed'[t] = flushed[t] /\ dropped'[t] = dropped[t] /\ rload'[t] = rload[t] /\ rpc'[t] = rpc[t]
    BY <1>5, <1>6, <1>11
  <2>2. Accounts(t, F, D)'
    BY <1>2, <1>4, <1>6, <1>8, <1>11, <2>1 DEF Accounts
  <2> QED  BY <1>4, <1>9, <1>11, <2>2 DEF Accounted
<1> QED  BY <1>10, <1>11

\* The main thread stores its counter and gives up the packet.
LEMMA MainCountAccounted ==
    ASSUME LedgerIInv, DropInv, WriterCounts, NEW t \in Sources
    PROVE  Accounted(t)'
<1>1. PICK p : p = whand
  OBVIOUS
<1>2. p \in Pending /\ Pending' = Pending \ {p} /\ WrittenAll' = WrittenAll /\ arrived' = arrived
  BY <1>1, MainLoses DEF WrittenAll
<1>3. PICK s : s = p.src
  OBVIOUS
<1>4. /\ p \in Kept(s) /\ Kept(s)' = Kept(s) \ {p} /\ (t # s => Kept(t)' = Kept(t)) /\ s \in Sources
  BY <1>2, <1>3, KeptLeaves, PendingFacts
<1>5. /\ \A u \in Sources : flushed[u] \in Nat /\ dropped[u] \in Nat /\ rload[u] \in Nat
      /\ flushed \in [Sources -> Nat] /\ dropped \in [Sources -> Nat]
      /\ wload \in Nat /\ arrived[t] \in Nat /\ wret \in {"update", "batch", "loop", "drain"}
  BY PendingFacts DEF DropInv, CountTypes, LedgerIInv, LoopIInv, Shape
<1>6. /\ wpc \in Counting
      /\ flushed' = IF wpc = "flushed++" THEN [flushed EXCEPT ![s] = wload + 1] ELSE flushed
      /\ dropped' = IF wpc = "dropped++" THEN [dropped EXCEPT ![s] = wload + 1] ELSE dropped
      /\ wpc' = wret /\ UNCHANGED <<opts, go, rpc, rload>>
  BY <1>1, <1>3 DEF WriterCounts, readerVars, Counting
<1>7. /\ ~go
      /\ ~opts.use_threads => /\ wpc = "flushed++" => wload = flushed[s]
                              /\ wpc = "dropped++" => wload = dropped[s]
  BY <1>1, <1>3, <1>6 DEF DropInv, CountInv
<1>8. PICK F \in Nat, D \in Nat : Accounts(t, F, D)
  BY DEF DropInv
<1>9. IsFiniteSet(Kept(t)) /\ Cardinality(Kept(t)) \in Nat
  BY FS_CardinalityType DEF DropInv
<1>a. wpc' \notin Counting
  BY <1>5, <1>6 DEF Counting
<1>10. CASE t = s
  <2>1. IsFiniteSet(Kept(t)') /\ Cardinality(Kept(t)') = Cardinality(Kept(t)) - 1
    BY <1>4, <1>9, <1>10, FS_RemoveElement
  <2>2. PICK k : k = Cardinality(Kept(t)')
    OBVIOUS
  <2>3. k = Cardinality(Kept(t)) - 1 /\ k \in Int
    BY <1>9, <2>1, <2>2
  <2>4. whand.src = t
    BY <1>1, <1>3, <1>10
  <2>5. CASE wpc = "flushed++"
    <3>1. flushed'[t] = wload + 1 /\ dropped'[t] = dropped[t]
      BY <1>5, <1>6, <1>10, <2>5
    <3>2. F + 1 + D + k = arrived[t] /\ F + 1 \in Nat
      BY <1>5, <1>8, <1>9, <2>3 DEF Accounts
    <3>3. flushed'[t] <= F + 1 /\ dropped'[t] <= D
      BY <1>5, <1>8, <2>4, <2>5, <3>1 DEF Accounts
    <3>4. (rpc[t] = "flushed++" => rload[t] <= F + 1) /\ (rpc[t] = "dropped++" => rload[t] <= D)
      BY <1>5, <1>8 DEF Accounts
    <3>6. ~opts.use_threads => flushed'[t] = F + 1 /\ dropped'[t] = D
      BY <1>5, <1>7, <1>8, <1>10, <2>5, <3>1 DEF Accounts
    <3>5. Accounts(t, F + 1, D)'
      BY <1>2, <1>6, <1>7, <1>a, <2>2, <3>2, <3>3, <3>4, <3>6 DEF Accounts, Counting
    <3> QED  BY <2>1, <3>2, <3>5 DEF Accounted
  <2>6. CASE wpc = "dropped++"
    <3>1. dropped'[t] = wload + 1 /\ flushed'[t] = flushed[t]
      BY <1>5, <1>6, <1>10, <2>6
    <3>2. F + (D + 1) + k = arrived[t] /\ D + 1 \in Nat
      BY <1>5, <1>8, <1>9, <2>3 DEF Accounts
    <3>3. dropped'[t] <= D + 1 /\ flushed'[t] <= F
      BY <1>5, <1>8, <2>4, <2>6, <3>1 DEF Accounts
    <3>4. (rpc[t] = "flushed++" => rload[t] <= F) /\ (rpc[t] = "dropped++" => rload[t] <= D + 1)
      BY <1>5, <1>8 DEF Accounts
    <3>6. ~opts.use_threads => flushed'[t] = F /\ dropped'[t] = D + 1
      BY <1>5, <1>7, <1>8, <1>10, <2>6, <3>1 DEF Accounts
    <3>5. Accounts(t, F, D + 1)'
      BY <1>2, <1>6, <1>7, <1>a, <2>2, <3>2, <3>3, <3>4, <3>6 DEF Accounts, Counting
    <3> QED  BY <2>1, <3>2, <3>5 DEF Accounted
  <2> QED  BY <1>6, <2>5, <2>6 DEF Counting
<1>11. CASE t # s
  <2>1. flushed'[t] = flushed[t] /\ dropped'[t] = dropped[t]
    BY <1>4, <1>5, <1>6, <1>11
  <2>2. Accounts(t, F, D)'
    BY <1>2, <1>4, <1>6, <1>7, <1>8, <1>a, <1>11, <2>1 DEF Accounts, Counting
  <2> QED  BY <1>4, <1>9, <1>11, <2>2 DEF Accounted
<1> QED  BY <1>10, <1>11

\* Every step keeps the accounts, ...
LEMMA NextDrops == LedgerIInv /\ DropInv /\ [Next]_vars => DropInv'
<1> SUFFICES ASSUME LedgerIInv, DropInv, [Next]_vars PROVE DropInv'
  OBVIOUS
<1>1. CountTypes' /\ CountInv'
  BY NextCounts DEF DropInv
<1>2. ASSUME NEW t \in Sources PROVE Accounted(t)'
  <2>1. LoopIInv
    BY DEF LedgerIInv
  <2> QED  BY <2>1, CountSteps, ArrivalAccounted, LoadAccounted, UncountedAccounted, ReaderCountAccounted,
     MainCountAccounted
<1> QED  BY <1>1, <1>2 DEF DropInv, Accounted

\* ... which begin with nothing.
LEMMA InitDrops == Init => DropInv
<1> SUFFICES ASSUME Init PROVE DropInv
  OBVIOUS
<1>1. /\ queue = << >> /\ out = << << >> >> /\ whand = NoPacket /\ wpc = "loop"
      /\ rhand = [s \in Sources |-> NoPacket]
      /\ flushed = [s \in Sources |-> 0] /\ dropped = [s \in Sources |-> 0]
      /\ rload = [s \in Sources |-> 0] /\ wload = 0 /\ arrived = [s \in Sources |-> 0]
      /\ \A s \in Sources : rpc[s] \in {"loop", "exited"}
  BY DEF Init
<1>2. CountTypes /\ CountInv
  BY <1>1 DEF CountTypes, CountInv, Counting
<1>3. Pending = {}
  BY <1>1 DEF Pending, PendingIn
<1>4. WrittenAll = {}
  <2>1. out \in Seq(Seq(Packet)) /\ Len(out) = 1 /\ Len(out[1]) = 0
    BY <1>1
  <2>2. ~ \E f \in 1 .. Len(out) : \E i \in 1 .. Len(out[f]) : TRUE
    BY <2>1
  <2>3. \A p : p \notin WrittenAll
    BY <2>1, <2>2, PacketsOfParts DEF WrittenAll
  <2> QED  BY <2>3
<1>5. ASSUME NEW s \in Sources PROVE IsFiniteSet(Kept(s)) /\ \E F, D \in Nat : Accounts(s, F, D)
  <2>1. Kept(s) = {}
    BY <1>3, <1>4 DEF Kept
  <2>2. IsFiniteSet(Kept(s)) /\ Cardinality(Kept(s)) = 0
    BY <2>1, FS_EmptySet
  <2>3. Accounts(s, 0, 0)
    BY <1>1, <2>2 DEF Accounts
  <2> QED  BY <2>2, <2>3
<1> QED  BY <1>2, <1>5 DEF DropInv

\* What is kept is written, queued or held, and in one of these places only.
LEMMA KeptPlaces ==
    ASSUME LedgerIInv, NEW s \in Sources
    PROVE  /\ Kept(s) = Written(s) \cup Queued(s) \cup Held(s)
           /\ Written(s) \cap Queued(s) = {}
           /\ (Written(s) \cup Queued(s)) \cap Held(s) = {}
<1>1. Written(s) = {p \in WrittenAll : p.src = s}
  BY DEF Written, WrittenAll, PacketsOf
<1>2. queue \in Seq(Packet) /\ DOMAIN queue = 1 .. Len(queue)
  BY PendingFacts
<1>3. \A p : p \in Queued(s) <=> p.src = s /\ \E i \in 1 .. Len(queue) : p = queue[i]
  BY <1>2 DEF Queued
<1>4. \A p : p \in Held(s) <=> p.src = s /\ p # NoPacket /\ (p = rhand[s] \/ p = whand)
  BY DEF Held
<1>5. \A t \in Sources : rhand[t] # NoPacket => rhand[t].src = t
  BY DEF LedgerIInv, HandInv
<1>6. Kept(s) = Written(s) \cup Queued(s) \cup Held(s)
  <2>1. ASSUME NEW p PROVE p \in Kept(s) <=> p \in Written(s) \cup Queued(s) \cup Held(s)
    <3>1. p \in Pending /\ p.src = s <=> p \in Queued(s) \cup Held(s)
      <4>1. p.src = s => ((\E t \in Sources : p = rhand[t] /\ p # NoPacket) <=> p = rhand[s] /\ p # NoPacket)
        BY <1>5
      <4> QED  BY <1>3, <1>4, <4>1, PendingFacts
    <3> QED  BY <1>1, <3>1 DEF Kept
  <2> QED  BY <2>1
<1>7. \A p \in Pending : p \notin WrittenAll
  <2>1. \A p \in Pending : p \in WrittenAll => Before(p, p)
    BY DEF LedgerIInv, OrderInv
  <2> QED  BY <2>1, PendingFacts DEF Before
<1>8. \A p \in Queued(s) \cup Held(s) : p \in Pending
  BY <1>3, <1>4, PendingFacts
<1>9. ASSUME NEW p \in Queued(s), p \in Held(s) PROVE FALSE
  <2>1. PICK i \in 1 .. Len(queue) : p = queue[i]
    BY <1>3, <1>9
  <2>2. Before(p, p)
    BY <1>4, <1>9, <2>1 DEF LedgerIInv, OrderInv
  <2> QED  BY <1>8, <2>2, PendingFacts DEF Before
<1> QED  BY <1>1, <1>6, <1>7, <1>8, <1>9

\* The accounts make the statement about drops true.
LEMMA AccountsSuffice == LedgerIInv /\ DropInv => DropsAccounted
<1> SUFFICES ASSUME LedgerIInv, DropInv, NEW s \in Sources
             PROVE  LET settled == Cardinality(Written(s)) + Cardinality(Queued(s)) + dropped[s] + flushed[s]
                    IN  /\ settled + Cardinality(Held(s)) <= arrived[s]
                        /\ go \/ ~opts.use_threads => settled + Cardinality(Held(s)) = arrived[s]
  BY DEF DropsAccounted
<1>1. PICK F \in Nat, D \in Nat : Accounts(s, F, D)
  BY DEF DropInv
<1>2. IsFiniteSet(Kept(s))
  BY DEF DropInv
<1>3. /\ Kept(s) = Written(s) \cup Queued(s) \cup Held(s)
      /\ Written(s) \cap Queued(s) = {} /\ (Written(s) \cup Queued(s)) \cap Held(s) = {}
  BY KeptPlaces
<1>4. IsFiniteSet(Written(s)) /\ IsFiniteSet(Queued(s)) /\ IsFiniteSet(Held(s))
  <2>1. Written(s) \in SUBSET Kept(s) /\ Queued(s) \in SUBSET Kept(s) /\ Held(s) \in SUBSET Kept(s)
    BY <1>3
  <2> QED  BY <1>2, <2>1, FS_Subset
<1>5. /\ Cardinality(Written(s)) \in Nat /\ Cardinality(Queued(s)) \in Nat /\ Cardinality(Held(s)) \in Nat
  BY <1>4, FS_CardinalityType
<1>6. Cardinality(Kept(s)) = Cardinality(Written(s)) + Cardinality(Queued(s)) + Cardinality(Held(s))
  <2>1. /\ IsFiniteSet(Written(s) \cup Queued(s))
        /\ Cardinality(Written(s) \cup Queued(s)) = Cardinality(Written(s)) + Cardinality(Queued(s)) - Cardinality({})
    BY <1>3, <1>4, FS_Union
  <2>2. Cardinality(Kept(s)) = Cardinality(Written(s) \cup Queued(s)) + Cardinality(Held(s)) - Cardinality({})
    BY <1>3, <1>4, <2>1, FS_Union
  <2> QED  BY <1>5, <2>1, <2>2, FS_EmptySet
<1>7. flushed[s] \in Nat /\ dropped[s] \in Nat /\ arrived[s] \in Nat
  BY PendingFacts DEF DropInv, CountTypes
<1>8. /\ F + D + Cardinality(Kept(s)) = arrived[s] /\ flushed[s] <= F /\ dropped[s] <= D
      /\ go \/ ~opts.use_threads => flushed[s] = F /\ dropped[s] = D
  BY <1>1 DEF Accounts
<1> QED  BY <1>5, <1>6, <1>7, <1>8

\* received, dropped and flushed never account for more packets than there were,
\* and until the stop for all of them.
THEOREM DropsStayAccounted == Spec => []DropsAccounted
<1>1. Init => LedgerIInv /\ DropInv
  BY InitLedgerIInv, InitDrops
<1>2. (LedgerIInv /\ DropInv) /\ [Next]_vars => (LedgerIInv /\ DropInv)'
  BY NextLedger, NextDrops
<1>3. LedgerIInv /\ DropInv => DropsAccounted
  BY AccountsSuffice
<1> QED  BY <1>1, <1>2, <1>3, PTL DEF Spec
-----------------------------------------------------------------------------
(***************************************************************************)
(* The packets of all files, one after the other.                           *)
(***************************************************************************)

Flat(o) == Seqs!FlattenSeq(o)

\* f joins the first n of the sequences in o.
JoinsTo(o, n, f) == f = [i \in 1 .. n |-> IF i = 1 THEN o[i] ELSE f[i - 1] \o o[i]]

\* What it is at each position.
LEMMA JoinStep ==
    ASSUME NEW o, NEW n \in Nat, NEW f, JoinsTo(o, n, f), NEW i \in 1 .. n
    PROVE  (i = 1 => f[i] = o[i]) /\ (i # 1 => f[i] = f[i - 1] \o o[i])
<1>1. f[i] = IF i = 1 THEN o[i] ELSE f[i - 1] \o o[i]
  BY Zenon DEF JoinsTo
<1> QED  BY <1>1, Zenon

\* Such a function exists for every n, ...
LEMMA JoinExists ==
    ASSUME NEW o
    PROVE  \A n \in Nat : \E f : JoinsTo(o, n, f)
<1> DEFINE S == {n \in Nat : \E f : JoinsTo(o, n, f)}
<1>1. 0 \in S
  <2>1. JoinsTo(o, 0, [i \in 1 .. 0 |-> o])
    BY DEF JoinsTo
  <2> QED  BY <2>1
<1>2. ASSUME NEW n \in Nat, n \in S PROVE n + 1 \in S
  <2>1. PICK f : JoinsTo(o, n, f)
    BY <1>2
  <2> DEFINE g == [i \in 1 .. n + 1 |-> IF i = n + 1 THEN (IF i = 1 THEN o[i] ELSE f[n] \o o[n + 1]) ELSE f[i]]
  <2>2. ASSUME NEW i \in 1 .. n + 1 PROVE g[i] = IF i = 1 THEN o[i] ELSE g[i - 1] \o o[i]
    <3>1. CASE i = n + 1 /\ i = 1
      BY <3>1
    <3>2. CASE i = n + 1 /\ i # 1
      <4>1. n \in 1 .. n + 1 /\ n # n + 1 /\ i - 1 = n
        BY <3>2
      <4>2. g[n] = f[n]
        BY <4>1
      <4>3. g[i] = f[n] \o o[i]
        BY <3>2, Zenon
      <4> QED  BY <3>2, <4>1, <4>2, <4>3, Zenon
    <3>3. CASE i # n + 1
      <4>1. i \in 1 .. n
        BY <3>3
      <4>2. g[i] = f[i]
        BY <3>3
      <4>3. i # 1 => g[i - 1] = f[i - 1]
        BY <4>1
      <4>4. (i = 1 => f[i] = o[i]) /\ (i # 1 => f[i] = f[i - 1] \o o[i])
        BY <2>1, <4>1, JoinStep
      <4> QED  BY <4>2, <4>3, <4>4, Zenon
    <3> QED  BY <3>1, <3>2, <3>3
  <2>3. g = [i \in 1 .. n + 1 |-> g[i]]
    OBVIOUS
  <2>4. JoinsTo(o, n + 1, g)
    <3> HIDE DEF g
    <3> QED  BY <2>2, <2>3, Zenon DEF JoinsTo
  <2> QED  BY <2>4
<1> HIDE DEF S
<1>3. Nat \subseteq S
  BY <1>1, <1>2, SetInduction
<1> QED  BY <1>3 DEF S

\* ... and the concatenation is its last value.
LEMMA FlatJoin ==
    ASSUME NEW o \in Seq(Seq(Packet)), o # << >>
    PROVE  \E f : JoinsTo(o, Len(o), f) /\ Flat(o) = f[Len(o)]
<1>0. Len(o) \in Nat /\ Len(o) # 0
  OBVIOUS
<1>1. \E f : f = [i \in 1 .. Len(o) |-> IF i = 1 THEN o[i] ELSE f[i - 1] \o o[i]]
  BY <1>0, JoinExists DEF JoinsTo
<1> QED  BY <1>0, <1>1 DEF Flat, Seqs!FlattenSeq, JoinsTo

\* The concatenation of packet sequences is one.
LEMMA JoinType ==
    ASSUME NEW o, NEW n \in Nat, NEW f, JoinsTo(o, n, f), \A i \in 1 .. n : o[i] \in Seq(Packet)
    PROVE  \A i \in 1 .. n : f[i] \in Seq(Packet)
<1> DEFINE S == {i \in Nat : i \in 1 .. n => f[i] \in Seq(Packet)}
<1>1. 0 \in S
  OBVIOUS
<1>2. ASSUME NEW i \in Nat, i \in S PROVE i + 1 \in S
  <2> SUFFICES ASSUME i + 1 \in 1 .. n PROVE f[i + 1] \in Seq(Packet)
    OBVIOUS
  <2>1. CASE i = 0
    BY <2>1 DEF JoinsTo
  <2>2. CASE i # 0
    <3>1. f[i] \in Seq(Packet) /\ o[i + 1] \in Seq(Packet)
      BY <1>2, <2>2
    <3>2. f[i + 1] = f[i] \o o[i + 1]
      <4>1. i + 1 # 1 /\ (i + 1) - 1 = i /\ i + 1 \in 1 .. n
        BY <2>2
      <4>2. f[i + 1] = f[(i + 1) - 1] \o o[i + 1]
        BY <4>1, JoinStep, Zenon
      <4> QED  BY <4>1, <4>2, Zenon
    <3> QED  BY <3>1, <3>2
  <2> QED  BY <2>1, <2>2
<1> HIDE DEF S
<1>3. Nat \subseteq S
  BY <1>1, <1>2, SetInduction
<1> QED  BY <1>3 DEF S

SameUpTo(f, g, k) == \A i \in 1 .. k : f[i] = g[i]

\* Joining the same sequences gives the same.
LEMMA JoinsAgree ==
    ASSUME NEW o, NEW r, NEW m \in Nat, NEW n \in Nat, NEW k \in Nat, k <= m, k <= n,
           NEW f, NEW g, JoinsTo(o, m, f), JoinsTo(r, n, g), SameUpTo(o, r, k)
    PROVE  SameUpTo(f, g, k)
<1> USE DEF SameUpTo
<1> DEFINE S == {i \in Nat : i \in 1 .. k => f[i] = g[i]}
<1>1. 0 \in S
  OBVIOUS
<1>2. ASSUME NEW i \in Nat, i \in S PROVE i + 1 \in S
  <2> SUFFICES ASSUME i + 1 \in 1 .. k PROVE f[i + 1] = g[i + 1]
    OBVIOUS
  <2>1. CASE i = 0
    BY <2>1 DEF JoinsTo
  <2>2. CASE i # 0
    <3>1. f[i] = g[i] /\ o[i + 1] = r[i + 1]
      BY <1>2, <2>2
    <3>2. f[i + 1] = f[i] \o o[i + 1] /\ g[i + 1] = g[i] \o r[i + 1]
      <4>1. i + 1 # 1 /\ (i + 1) - 1 = i /\ i + 1 \in 1 .. m /\ i + 1 \in 1 .. n
        BY <2>2
      <4>2. f[i + 1] = f[(i + 1) - 1] \o o[i + 1]
        BY <4>1, JoinStep, Zenon
      <4>3. g[i + 1] = g[(i + 1) - 1] \o r[i + 1]
        BY <4>1, JoinStep, Zenon
      <4> QED  BY <4>1, <4>2, <4>3, Zenon
    <3> QED  BY <3>1, <3>2
  <2> QED  BY <2>1, <2>2
<1> HIDE DEF S
<1>3. Nat \subseteq S
  BY <1>1, <1>2, SetInduction
<1> QED  BY <1>3 DEF S

\* The packets of all files are a sequence of packets.
LEMMA FlatType ==
    ASSUME NEW o \in Seq(Seq(Packet)), o # << >>
    PROVE  Flat(o) \in Seq(Packet)
<1>1. PICK f : JoinsTo(o, Len(o), f) /\ Flat(o) = f[Len(o)]
  BY FlatJoin
<1>2. Len(o) \in Nat /\ Len(o) \in 1 .. Len(o) /\ \A i \in 1 .. Len(o) : o[i] \in Seq(Packet)
  OBVIOUS
<1> QED  BY <1>1, <1>2, JoinType

\* A new file adds no packet to them.
LEMMA FlatNew ==
    ASSUME NEW o \in Seq(Seq(Packet)), o # << >>
    PROVE  Flat(Append(o, << >>)) = Flat(o)
<1>1. PICK r : r = Append(o, << >>)
  OBVIOUS
<1>2. PICK n : n = Len(o)
  OBVIOUS
<1>3. /\ r \in Seq(Seq(Packet)) /\ Len(r) = n + 1 /\ r[n + 1] = << >> /\ r # << >>
      /\ n \in Nat \ {0} /\ \A i \in 1 .. n : r[i] = o[i]
  BY <1>1, <1>2
<1>4. PICK f : JoinsTo(o, n, f) /\ Flat(o) = f[n]
  BY <1>2, FlatJoin
<1>5. PICK g : JoinsTo(r, n + 1, g) /\ Flat(r) = g[n + 1]
  BY <1>3, FlatJoin
<1>6. f[n] = g[n]
  <2>1. SameUpTo(o, r, n)
    BY <1>3 DEF SameUpTo
  <2>2. n \in Nat /\ n + 1 \in Nat /\ n <= n /\ n <= n + 1 /\ n \in 1 .. n
    BY <1>3
  <2>3. SameUpTo(f, g, n)
    BY <1>4, <1>5, <2>1, <2>2, JoinsAgree
  <2> QED  BY <2>2, <2>3 DEF SameUpTo
<1>7. g[n + 1] = g[n] \o << >>
  <2>1. n + 1 # 1 /\ (n + 1) - 1 = n /\ n + 1 \in 1 .. n + 1 /\ n + 1 \in Nat
    BY <1>3
  <2>2. g[n + 1] = g[(n + 1) - 1] \o r[n + 1]
    BY <1>5, <2>1, JoinStep, Zenon
  <2> QED  BY <1>3, <2>1, <2>2, Zenon
<1>8. f[n] \in Seq(Packet)
  BY <1>4, FlatType
<1> QED  BY <1>1, <1>4, <1>5, <1>6, <1>7, <1>8

\* A packet written to the last file comes last.
LEMMA FlatWrite ==
    ASSUME NEW o \in Seq(Seq(Packet)), o # << >>, NEW p \in Packet
    PROVE  Flat(SetLast(o, Append(Last(o), p))) = Append(Flat(o), p)
<1>2. PICK n : n = Len(o)
  OBVIOUS
<1>a. PICK l : l = o[n]
  OBVIOUS
<1>b. PICK e : e = Append(l, p)
  OBVIOUS
<1>1. PICK r : r = SetLast(o, e)
  OBVIOUS
<1>c. n \in Nat \ {0} /\ Last(o) = l /\ l \in Seq(Packet) /\ e \in Seq(Packet)
  BY <1>2, <1>a, <1>b DEF Last
<1>3. /\ r \in Seq(Seq(Packet)) /\ Len(r) = n /\ r[n] = e /\ r # << >>
      /\ \A i \in 1 .. n - 1 : r[i] = o[i]
  BY <1>1, <1>2, <1>c, SetLastFile
<1>4. PICK f : JoinsTo(o, n, f) /\ Flat(o) = f[n]
  BY <1>2, FlatJoin
<1>5. PICK g : JoinsTo(r, n, g) /\ Flat(r) = g[n]
  BY <1>3, FlatJoin
<1>6. g[n] = Append(f[n], p)
  <2>1. CASE n = 1
    <3>1. g[n] = e /\ f[n] = l
      BY <1>3, <1>4, <1>5, <1>a, <2>1 DEF JoinsTo
    <3> QED  BY <1>b, <3>1
  <2>2. CASE n # 1
    <3>1. SameUpTo(o, r, n - 1)
      BY <1>3 DEF SameUpTo
    <3>2. n - 1 \in Nat /\ n - 1 <= n /\ n - 1 \in 1 .. n - 1 /\ n \in Nat
      BY <1>c, <2>2
    <3>3. SameUpTo(f, g, n - 1)
      BY <1>4, <1>5, <3>1, <3>2, JoinsAgree
    <3>4. f[n - 1] = g[n - 1]
      BY <3>2, <3>3 DEF SameUpTo
    <3>5. f[n] = f[n - 1] \o l /\ g[n] = g[n - 1] \o e
      <4>1. n \in 1 .. n
        BY <1>c
      <4>2. f[n] = f[n - 1] \o o[n]
        BY <1>4, <2>2, <3>2, <4>1, JoinStep, Zenon
      <4>3. g[n] = g[n - 1] \o r[n]
        BY <1>5, <2>2, <3>2, <4>1, JoinStep, Zenon
      <4> QED  BY <1>3, <1>a, <4>2, <4>3, Zenon
    <3>6. f[n - 1] \in Seq(Packet)
      <4>1. \A i \in 1 .. n : o[i] \in Seq(Packet)
        BY <1>2
      <4> QED  BY <1>4, <3>2, <4>1, JoinType
    <3>7. PICK a : a = f[n - 1]
      OBVIOUS
    <3>8. a \o Append(l, p) = Append(a \o l, p)
      <4>1. a \in Seq(Packet) /\ <<p>> \in Seq(Packet) /\ a \o l \in Seq(Packet)
        BY <1>c, <3>6, <3>7
      <4>2. Append(l, p) = l \o <<p>> /\ Append(a \o l, p) = (a \o l) \o <<p>>
        BY <1>c, <4>1, AppendIsConcat
      <4>3. (a \o l) \o <<p>> = a \o (l \o <<p>>)
        BY <1>c, <4>1, ConcatAssociative
      <4> QED  BY <4>2, <4>3
    <3> QED  BY <1>b, <3>4, <3>5, <3>7, <3>8
  <2> QED  BY <2>1, <2>2
<1> QED  BY <1>1, <1>4, <1>5, <1>6, <1>b, <1>c
-----------------------------------------------------------------------------
(***************************************************************************)
(* The refinement: the capture loop implements the packet ledger.           *)
(***************************************************************************)

\* The mapping: what the ledger sees of the loop.
Open == go \/ wpc = "save"
PendingEntries == {Entry(p) : p \in UNION {Queued(s) \cup Held(s) : s \in Sources}}
Entries(q) == [i \in DOMAIN q |-> Entry(q[i])]

\* The counter of the packets captured is that of the packets in the files.
CapturedInv == packets_captured = Len(Flat(out))

RefineInv == LedgerIInv /\ CapturedInv

\* The pending entries are those of the pending packets.
LEMMA PendingMapped == LedgerIInv => PendingEntries = {Entry(p) : p \in Pending}
<1> SUFFICES ASSUME LedgerIInv PROVE PendingEntries = {Entry(p) : p \in Pending}
  OBVIOUS
<1>1. ASSUME NEW p PROVE (p \in UNION {Queued(s) \cup Held(s) : s \in Sources}) <=> p \in Pending
  <2>1. queue \in Seq(Packet) /\ DOMAIN queue = 1 .. Len(queue)
    BY PendingFacts
  <2>2. p \in UNION {Queued(s) \cup Held(s) : s \in Sources}
          <=> \E s \in Sources : p \in Queued(s) \/ p \in Held(s)
    OBVIOUS
  <2>3. \A s : p \in Queued(s) <=> p.src = s /\ \E i \in 1 .. Len(queue) : p = queue[i]
    BY <2>1 DEF Queued
  <2>4. \A s : p \in Held(s) <=> p.src = s /\ p # NoPacket /\ (p = rhand[s] \/ p = whand)
    BY DEF Held
  <2>5. \A s \in Sources : rhand[s] # NoPacket => rhand[s].src = s
    BY DEF LedgerIInv, HandInv
  <2>6. p \in Pending => p.src \in Sources
    BY PendingFacts
  <2> QED  BY <2>2, <2>3, <2>4, <2>5, <2>6, PendingFacts
<1> QED  BY <1>1 DEF PendingEntries

\* They are so after a step, too.
LEMMA PendingMappedNext == (LedgerIInv => PendingEntries = {Entry(p) : p \in Pending})'
  BY PendingMapped, PTL

\* No two pending packets have the same entry.
LEMMA PendingUnique ==
    ASSUME LedgerIInv, NEW p \in Pending, NEW q \in Pending, Entry(p) = Entry(q)
    PROVE  p = q
<1>1. p.src = q.src /\ p.seq = q.seq /\ p.seq \in Nat
  BY PendingFacts DEF Entry
<1>2. ~Before(p, q) /\ ~Before(q, p)
  BY <1>1 DEF Before
<1>3. ASSUME NEW i \in 1 .. Len(queue), p = queue[i] PROVE p = q
  <2>1. ASSUME NEW j \in 1 .. Len(queue), q = queue[j] PROVE p = q
    <3>1. ~(i < j) /\ ~(j < i)
      BY <1>2, <1>3, <2>1 DEF LedgerIInv, OrderInv
    <3> QED  BY <1>3, <2>1, <3>1, PendingFacts
  <2> QED  BY <1>2, <1>3, <2>1, PendingFacts DEF LedgerIInv, OrderInv
<1>4. ASSUME NEW s \in Sources, p = rhand[s], p # NoPacket PROVE p = q
  BY <1>1, <1>2, <1>4, PendingFacts DEF LedgerIInv, OrderInv, HandInv
<1>5. ASSUME p = whand, p # NoPacket PROVE p = q
  BY <1>2, <1>5, PendingFacts DEF LedgerIInv, OrderInv
<1> QED  BY <1>3, <1>4, <1>5, PendingFacts

\* The entry of a packet that leaves is pending no more.
LEMMA EntryLeaves ==
    ASSUME LedgerIInv, NEW p \in Pending, Pending' = Pending \ {p}, LedgerIInv'
    PROVE  Entry(p) \in PendingEntries /\ PendingEntries' = PendingEntries \ {Entry(p)}
<1>1. PendingEntries = {Entry(q) : q \in Pending}
  BY PendingMapped
<1>2. PendingEntries' = {Entry(q) : q \in Pending'}
  BY PendingMappedNext
<1>3. \A q \in Pending : Entry(q) = Entry(p) => q = p
  BY PendingUnique
<1> QED  BY <1>1, <1>2, <1>3

\* The entries of a sequence that grows.
LEMMA EntriesAppend ==
    ASSUME NEW q \in Seq(Packet), NEW p \in Packet
    PROVE  Entries(Append(q, p)) = Append(Entries(q), Entry(p)) /\ Len(Entries(q)) = Len(q)
<1>1. PICK S : S = {Entry(x) : x \in Packet}
  OBVIOUS
<1>2. PICK r : r = Append(q, p)
  OBVIOUS
<1>3. /\ r \in Seq(Packet) /\ Len(r) = Len(q) + 1 /\ r[Len(q) + 1] = p
      /\ \A i \in 1 .. Len(q) : r[i] = q[i] /\ Len(q) \in Nat
  BY <1>2
<1>4. ASSUME NEW u \in Seq(Packet)
      PROVE  /\ Entries(u) = [i \in 1 .. Len(u) |-> Entry(u[i])] /\ Entries(u) \in Seq(S)
             /\ Len(Entries(u)) = Len(u) /\ \A i \in 1 .. Len(u) : Entries(u)[i] = Entry(u[i])
  <2>1. DOMAIN u = 1 .. Len(u) /\ Len(u) \in Nat /\ \A i \in 1 .. Len(u) : Entry(u[i]) \in S
    BY <1>1
  <2>2. Entries(u) = [i \in 1 .. Len(u) |-> Entry(u[i])]
    BY <2>1 DEF Entries
  <2>3. Entries(u) \in Seq(S) /\ Len(Entries(u)) = Len(u)
    BY <2>1, <2>2
  <2> QED  BY <2>2, <2>3
<1>5. /\ Entries(q) \in Seq(S) /\ Len(Entries(q)) = Len(q) /\ \A i \in 1 .. Len(q) : Entries(q)[i] = Entry(q[i])
  BY <1>4
<1>6. /\ Entries(r) \in Seq(S) /\ Len(Entries(r)) = Len(r) /\ \A i \in 1 .. Len(r) : Entries(r)[i] = Entry(r[i])
  BY <1>3, <1>4
<1>7. PICK a : a = Append(Entries(q), Entry(p))
  OBVIOUS
<1>8. Entry(p) \in S
  BY <1>1
<1>9. /\ a \in Seq(S) /\ Len(a) = Len(q) + 1 /\ a[Len(q) + 1] = Entry(p)
      /\ \A i \in 1 .. Len(q) : a[i] = Entry(q[i])
  BY <1>5, <1>7, <1>8
<1>10. Len(Entries(r)) = Len(a) /\ \A i \in 1 .. Len(Entries(r)) : Entries(r)[i] = a[i]
  <2>1. \A i \in 1 .. Len(q) + 1 : i = Len(q) + 1 \/ i \in 1 .. Len(q)
    BY <1>3
  <2> QED  BY <1>3, <1>6, <1>9, <2>1
<1>11. Entries(r) = a
  BY <1>6, <1>9, <1>10, SeqEqual
<1> QED  BY <1>2, <1>5, <1>7, <1>11

\* What every step does to the options, to the flag and to the count: nothing is
\* opened again, and only a written packet is counted.
LEMMA OpenSteps ==
    ASSUME LedgerIInv, [Next]_vars
    PROVE  /\ opts' = opts
           /\ Open' => Open
           /\ WritePacket \/ packets_captured' = packets_captured
<1> USE DEF Open, writerVars, countVars
<1>0. wret \in {"update", "batch", "loop", "drain"}
  BY DEF LedgerIInv, LoopIInv, Shape
<1>1. CASE Writer
  <2>1. opts' = opts
    BY <1>1 DEF Writer, LoopTest, Dequeue, DequeueTimeout, DispatchPacket, DispatchReturn,
     DispatchEnds, SourceEnds, IdleCheck, WritePacketFlushed, WritePacketCheck, Saving,
     WritePacketFails, WriterCounts, WritePacket, SwitchStops, SwitchSucceeds, SwitchFails,
     SwitchFailsOnStart, NoUpdate, Update, UpdateOnClosedStream, DurationOver,
     FileTimerOver, TimersDone, Join, Finish
  <2>2. WritePacket \/ packets_captured' = packets_captured
    BY <1>1 DEF Writer, LoopTest, Dequeue, DequeueTimeout, DispatchPacket, DispatchReturn,
     DispatchEnds, SourceEnds, IdleCheck, WritePacketFlushed, WritePacketCheck, Saving,
     WritePacketFails, WriterCounts, SwitchStops, SwitchSucceeds, SwitchFails,
     SwitchFailsOnStart, NoUpdate, Update, UpdateOnClosedStream, DurationOver,
     FileTimerOver, TimersDone, Join, Finish
  <2>3. Open' => Open
    BY <1>0, <1>1 DEF Writer, LoopTest, Dequeue, DequeueTimeout, DispatchPacket, DispatchReturn,
     DispatchEnds, SourceEnds, IdleCheck, WritePacketFlushed, WritePacketCheck, Saving,
     WritePacketFails, WriterCounts, WritePacket, SwitchStops, SwitchSucceeds, SwitchFails,
     SwitchFailsOnStart, NoUpdate, Update, UpdateOnClosedStream, DurationOver,
     FileTimerOver, TimersDone, Join, Finish
  <2> QED  BY <2>1, <2>2, <2>3
<1>2. ASSUME NEW s \in Sources, Reader(s) PROVE opts' = opts /\ (Open' => Open) /\ packets_captured' = packets_captured
  BY <1>2 DEF Reader, ReaderLoop, ReaderPacket, ReaderReturn, ReaderEnds, SourceEnds,
     QueuePacketCheck, QueuePacket, QueueFull, ReaderCounts
<1>3. CASE Stop
  BY <1>3 DEF Stop
<1>4. CASE UNCHANGED vars
  BY <1>4 DEF vars
<1> QED  BY <1>1, <1>2, <1>3, <1>4 DEF Next, Terminated

\* The packets of the files after a step.
LEMMA FlatSteps ==
    ASSUME LedgerIInv, [Next]_vars
    PROVE  /\ Flat(out) \in Seq(Packet)
           /\ WritePacket => Flat(out') = Append(Flat(out), whand) /\ whand \in Packet
           /\ ~WritePacket => Flat(out') = Flat(out)
<1>1. out \in Seq(Seq(Packet)) /\ out # << >>
  BY DEF LedgerIInv, LoopTypes
<1>2. Flat(out) \in Seq(Packet)
  BY <1>1, FlatType
<1>3. ASSUME WritePacket PROVE Flat(out') = Append(Flat(out), whand) /\ whand \in Packet
  <2>1. whand \in Packet /\ out' = SetLast(out, Append(Last(out), whand))
    BY <1>3, MainWrites DEF WritePacket
  <2> QED  BY <1>1, <2>1, FlatWrite
<1>4. ASSUME ~WritePacket PROVE Flat(out') = Flat(out)
  <2>1. out' = out \/ out' = Append(out, << >>)
    BY <1>4, LedgerSteps, ReaderArrives, MainArrives, QueueMoves, DequeueMoves, ReaderLoses,
       MainLoses DEF Still
  <2> QED  BY <1>1, <2>1, FlatNew
<1> QED  BY <1>2, <1>3, <1>4

\* The count is that of the packets in the files, ...
LEMMA InitRefine == Init => RefineInv
<1> SUFFICES ASSUME Init PROVE RefineInv
  OBVIOUS
<1>1. out = << << >> >> /\ packets_captured = 0
  BY DEF Init
<1>2. Flat(out) = << >>
  <2>1. out \in Seq(Seq(Packet)) /\ out # << >> /\ Len(out) = 1 /\ out[1] = << >>
    BY <1>1
  <2>2. PICK f : JoinsTo(out, Len(out), f) /\ Flat(out) = f[Len(out)]
    BY <2>1, FlatJoin
  <2>3. JoinsTo(out, 1, f) /\ Flat(out) = f[1]
    BY <2>1, <2>2
  <2>4. f[1] = out[1]
    <3>1. 1 \in Nat /\ 1 \in 1 .. 1
      OBVIOUS
    <3>2. f[1] = IF 1 = 1 THEN out[1] ELSE f[1 - 1] \o out[1]
      BY <2>3, <3>1, Zenon DEF JoinsTo
    <3> QED  BY <3>2
  <2> QED  BY <2>1, <2>3, <2>4
<1>3. CapturedInv
  BY <1>1, <1>2 DEF CapturedInv
<1> QED  BY <1>3, InitLedgerIInv DEF RefineInv

\* ... and every step keeps it so.
LEMMA NextRefine == RefineInv /\ [Next]_vars => RefineInv'
<1> SUFFICES ASSUME RefineInv, [Next]_vars PROVE RefineInv'
  OBVIOUS
<1>1. LedgerIInv /\ LedgerIInv'
  BY NextLedger DEF RefineInv
<1>2. CASE WritePacket
  <2>1. Flat(out') = Append(Flat(out), whand) /\ whand \in Packet /\ Flat(out) \in Seq(Packet)
    BY <1>1, <1>2, FlatSteps
  <2>2. packets_captured' = packets_captured + 1
    BY <1>2 DEF WritePacket
  <2>3. Len(Flat(out')) = Len(Flat(out)) + 1
    BY <2>1
  <2> QED  BY <1>1, <2>2, <2>3 DEF RefineInv, CapturedInv
<1>3. CASE ~WritePacket
  <2>1. packets_captured' = packets_captured
    BY <1>1, <1>3, OpenSteps
  <2>2. Flat(out') = Flat(out)
    BY <1>1, <1>3, FlatSteps
  <2> QED  BY <1>1, <2>1, <2>2 DEF RefineInv, CapturedInv
<1> QED  BY <1>2, <1>3

WrittenEntries == Entries(Flat(out))

\* The capture begins with an empty ledger.
LEMMA InitMapped == Init => Ledger!Init
<1> SUFFICES ASSUME Init PROVE Ledger!Init
  OBVIOUS
<1>1. RefineInv
  BY InitRefine
<1>2. opts \in ConfigType /\ go = TRUE /\ arrived = [s \in Sources |-> 0] /\ packets_captured = 0
  BY ConfigsAssumption DEF Init
<1>3. opts.autostop_packets \in Nat
  BY <1>2 DEF ConfigType
<1>4. Flat(out) \in Seq(Packet) /\ Len(Flat(out)) = 0
  BY <1>1, <1>2, FlatType DEF RefineInv, CapturedInv, LedgerIInv, LoopTypes
<1>5. WrittenEntries = << >>
  <2>1. Flat(out) = << >>
    BY <1>4
  <2> QED  BY <2>1 DEF WrittenEntries, Entries
<1>6. PendingEntries = {}
  <2>1. queue = << >> /\ whand = NoPacket /\ rhand = [s \in Sources |-> NoPacket]
    BY DEF Init
  <2>2. Pending = {}
    BY <2>1 DEF Pending, PendingIn
  <2> QED  BY <1>1, <2>2, PendingMapped DEF RefineInv
<1> QED  BY <1>2, <1>3, <1>5, <1>6 DEF Ledger!Init, WrittenEntries, Entries, Flat, PendingEntries

\* A step that moves no packet closes the ledger or leaves it alone.
LEMMA QuietMapped ==
    ASSUME RefineInv, [Next]_vars, ~WritePacket, Pending' = Pending, arrived' = arrived
    PROVE  [Ledger!Next]_Ledger!vars
<1>1. LedgerIInv /\ LedgerIInv' /\ opts' = opts /\ (Open' => Open)
  BY NextLedger, OpenSteps DEF RefineInv
<1>2. PendingEntries' = PendingEntries
  BY <1>1, PendingMapped, PendingMappedNext
<1>3. Flat(out)' = Flat(out)
  BY <1>1, FlatSteps
<1>4. WrittenEntries' = WrittenEntries
  BY <1>3 DEF WrittenEntries
<1>5. Open' = FALSE \/ Open' = Open
  BY <1>1 DEF Open
<1> QED  BY <1>1, <1>2, <1>4, <1>5 DEF Ledger!Next, Ledger!Close, Ledger!vars, Open,
            PendingEntries, WrittenEntries, Entries, Flat

\* A packet arrives.
LEMMA ArrivalMapped ==
    ASSUME RefineInv, [Next]_vars, NEW s \in Sources, NEW size \in Sizes,
           ReaderPacket(s, size) \/ DispatchPacket(s, size)
    PROVE  Ledger!Arrive(s)
<1>1. LedgerIInv /\ LedgerIInv' /\ opts' = opts
  BY NextLedger, OpenSteps DEF RefineInv
<1>2. PICK p : p = [src |-> s, seq |-> arrived[s] + 1, size |-> size]
  OBVIOUS
<1>3. Pending' = Pending \cup {p} /\ arrived' = [arrived EXCEPT ![s] = @ + 1] /\ out' = out
  BY <1>1, <1>2, ReaderArrives, MainArrives
<1>4. Entry(p) = [src |-> s, seq |-> arrived[s] + 1]
  BY <1>2 DEF Entry
<1>5. PendingEntries' = PendingEntries \cup {[src |-> s, seq |-> arrived[s] + 1]}
  <2>1. PendingEntries = {Entry(q) : q \in Pending} /\ PendingEntries' = {Entry(q) : q \in Pending'}
    BY <1>1, PendingMapped, PendingMappedNext
  <2> QED  BY <1>3, <1>4, <2>1
<1>6. WrittenEntries' = WrittenEntries
  BY <1>3 DEF WrittenEntries
<1>7. Open' = Open
  BY DEF Open, ReaderPacket, DispatchPacket, writerVars
<1> QED  BY <1>1, <1>3, <1>5, <1>6, <1>7 DEF Ledger!Arrive, Open, PendingEntries, WrittenEntries,
            Entries, Flat

\* A packet is lost.
LEMMA LossMapped ==
    ASSUME RefineInv, [Next]_vars, (\E s \in Sources : ReaderCounts(s)) \/ WriterCounts
    PROVE  \E e \in PendingEntries : Ledger!Lose(e)
<1>1. LedgerIInv /\ LedgerIInv' /\ opts' = opts /\ wret \in {"update", "batch", "loop", "drain"}
  BY NextLedger, OpenSteps DEF RefineInv, LedgerIInv, LoopIInv, Shape
<1>2. PICK p \in Pending : Pending' = Pending \ {p} /\ UNCHANGED <<out, arrived>>
  BY <1>1, ReaderLoses, MainLoses
<1>3. Entry(p) \in PendingEntries /\ PendingEntries' = PendingEntries \ {Entry(p)}
  BY <1>1, <1>2, EntryLeaves
<1>4. WrittenEntries' = WrittenEntries
  BY <1>2 DEF WrittenEntries
<1>5. Open' = Open
  BY <1>1 DEF Open, ReaderCounts, WriterCounts, writerVars
<1>6. Ledger!Lose(Entry(p))
  BY <1>1, <1>2, <1>3, <1>4, <1>5 DEF Ledger!Lose, Open, PendingEntries, WrittenEntries, Entries, Flat
<1> QED  BY <1>3, <1>6

\* A packet is written: the oldest of its source, before the limit is reached.
LEMMA WriteMapped ==
    ASSUME RefineInv, [Next]_vars, WritePacket
    PROVE  \E e \in PendingEntries : Ledger!Write(e)
<1>1. /\ LedgerIInv /\ LedgerIInv' /\ opts' = opts /\ wret \in {"update", "batch", "loop", "drain"}
      /\ opts \in ConfigType
  BY NextLedger, OpenSteps DEF RefineInv, LedgerIInv, LoopIInv, Shape, LoopTypes
<1>2. PICK p : p = whand
  OBVIOUS
<1>3. /\ p \in Pending /\ p \in Packet /\ Pending' = Pending \ {p} /\ arrived' = arrived
      /\ \A q \in Pending : q # p => Before(p, q)
  BY <1>1, <1>2, MainWrites
<1>4. Entry(p) \in PendingEntries /\ PendingEntries' = PendingEntries \ {Entry(p)}
  BY <1>1, <1>3, EntryLeaves
<1>5. Flat(out)' = Append(Flat(out), p) /\ Flat(out) \in Seq(Packet)
  BY <1>1, <1>2, FlatSteps
<1>6. WrittenEntries' = Append(WrittenEntries, Entry(p)) /\ Len(WrittenEntries) = Len(Flat(out))
  BY <1>3, <1>5, EntriesAppend DEF WrittenEntries
<1>7. \A e \in PendingEntries : e.src = Entry(p).src => e.seq >= Entry(p).seq
  <2> SUFFICES ASSUME NEW q \in Pending, Entry(q).src = Entry(p).src PROVE Entry(q).seq >= Entry(p).seq
    BY <1>1, PendingMapped
  <2>1. q.src = p.src /\ Entry(q).seq = q.seq /\ Entry(p).seq = p.seq /\ p.seq \in Nat /\ q.seq \in Nat
    BY <1>1, <1>3, PendingFacts DEF Entry
  <2> QED  BY <1>3, <2>1 DEF Before
<1>8. Open /\ Open' = (go /\ ~AutostopReached(packets_captured + 1))
  BY <1>1 DEF Open, WritePacket
<1>9. Open' \in (IF opts.autostop_packets = 0 \/ Len(WrittenEntries) + 1 < opts.autostop_packets
                   THEN BOOLEAN ELSE {FALSE})
  <2>1. opts.autostop_packets \in Nat /\ packets_captured = Len(WrittenEntries) /\ packets_captured \in Nat
    BY <1>1, <1>5, <1>6 DEF ConfigType, RefineInv, CapturedInv
  <2>2. Open' \in BOOLEAN
    BY DEF Open
  <2>3. CASE opts.autostop_packets = 0 \/ Len(WrittenEntries) + 1 < opts.autostop_packets
    BY <2>2, <2>3
  <2>4. CASE ~(opts.autostop_packets = 0 \/ Len(WrittenEntries) + 1 < opts.autostop_packets)
    <3>1. AutostopReached(packets_captured + 1)
      BY <2>1, <2>4 DEF AutostopReached
    <3> QED  BY <1>8, <2>4, <3>1
  <2> QED  BY <2>3, <2>4
<1>10. Ledger!Write(Entry(p))
  BY <1>1, <1>3, <1>4, <1>6, <1>7, <1>8, <1>9 DEF Ledger!Write, Open, PendingEntries, WrittenEntries,
     Entries, Flat
<1> QED  BY <1>4, <1>10

\* Every step of the capture loop is one of the ledger, or none.
LEMMA NextMapped == RefineInv /\ [Next]_vars => [Ledger!Next]_Ledger!vars
<1> SUFFICES ASSUME RefineInv, [Next]_vars PROVE [Ledger!Next]_Ledger!vars
  OBVIOUS
<1>0. LedgerIInv
  BY DEF RefineInv
<1>1. CASE \E s \in Sources : \E size \in Sizes : ReaderPacket(s, size) \/ DispatchPacket(s, size)
  BY <1>1, ArrivalMapped DEF Ledger!Next
<1>2. CASE (\E s \in Sources : ReaderCounts(s)) \/ WriterCounts
  BY <1>2, LossMapped DEF Ledger!Next, PendingEntries
<1>3. CASE WritePacket
  BY <1>3, WriteMapped DEF Ledger!Next, PendingEntries
<1>4. CASE ~WritePacket /\ ((\E s \in Sources : QueuePacket(s)) \/ Dequeue \/ Still)
  <2>1. Pending' = Pending /\ arrived' = arrived
    BY <1>0, <1>4, QueueMoves, DequeueMoves, StillKeeps DEF Still
  <2> QED  BY <1>4, <2>1, QuietMapped
<1> QED  BY <1>1, <1>2, <1>3, <1>4, LedgerSteps

\* The capture loop implements the packet ledger.
THEOREM LoopImplementsLedger == Spec => ImplementsLedger
<1>1. Init => Ledger!Init
  BY InitMapped
<1>2. RefineInv /\ [Next]_vars => [Ledger!Next]_Ledger!vars
  BY NextMapped
<1>3. Init => RefineInv
  BY InitRefine
<1>4. RefineInv /\ [Next]_vars => RefineInv'
  BY NextRefine
<1> QED  BY <1>1, <1>2, <1>3, <1>4, PTL DEF Spec, ImplementsLedger, Ledger!Spec
=============================================================================
