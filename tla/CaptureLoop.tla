---------------------------- MODULE CaptureLoop -----------------------------
(***************************************************************************)
(* dumpcap's capture loop: one reader thread per capture source that queues *)
(* packets, the main thread that writes them to the output file, checks the *)
(* stop and file switch conditions and reports to the parent process, and   *)
(* the signal handler that stops the capture.  Without threads the main     *)
(* thread reads its only source itself.  Each action runs up to the next    *)
(* access to state that another thread can change.                          *)
(*                                                                          *)
(* A packet is the number its source gave it and its captured length.  The  *)
(* output is the sequence of the files written; how ringbuffer.c names and  *)
(* keeps them is module RingBuffer.                                         *)
(*                                                                          *)
(* The sources are devices and capture pipes in pcap format.  A pipe in     *)
(* pcapng format is not one of them: its blocks, the SP_FILE that is delayed*)
(* when they are passed through and the counts that follow it are module    *)
(* PcapngOutput, and its reader, which may block inside a block without     *)
(* looking at go, is module CapturePipe.                                    *)
(***************************************************************************)
EXTENDS Integers, Sequences, FiniteSets

CONSTANTS
    Sources,       \* the interfaces captured on
    Sizes,         \* captured lengths of packets
    HeaderSize,    \* bytes of the headers at the start of a file
    RecordSize,    \* bytes of the header of a packet in a file
    Configs,       \* the capture options, see ConfigType
    Faults,        \* what may fail, see FaultKinds
    Signals,       \* may a signal stop the capture?
    PacketBound,   \* bound on the packets a source delivers
    FileBound      \* bound on the number of files a timer may start

FaultKinds == {"write", "close", "switch", "start", "source"}

\* capture_options and the queue limits; 0 is "not set" for every limit.
ConfigType ==
    [pipes : SUBSET Sources,   \* the sources that are capture pipes in pcap format
     use_threads : BOOLEAN,
     byte_limit : Nat,         \* pcap_queue_byte_limit   (-C)
     packet_limit : Nat,       \* pcap_queue_packet_limit (-N)
     autostop_packets : Nat,   \* -c, -a packets:
     autostop_filesize : Nat,  \* -a filesize:, -b filesize:, in bytes/1000
     autostop_files : Nat,     \* -a files:
     file_packets : Nat,       \* -b packets:
     multi_files_on : BOOLEAN,
     autostop_duration : BOOLEAN,
     file_timer : BOOLEAN]     \* -b duration: or -b interval:

ASSUME SourcesAssumption == IsFiniteSet(Sources)
ASSUME SizesAssumption   ==
    Sizes \subseteq Nat /\ HeaderSize \in Nat /\ RecordSize \in Nat
ASSUME ConfigsAssumption == Configs \subseteq ConfigType
ASSUME FaultsAssumption  == Faults \subseteq FaultKinds
ASSUME SignalsAssumption == Signals \in BOOLEAN
ASSUME BoundsAssumption  == PacketBound \in Nat /\ FileBound \in Nat \ {0}

VARIABLES
    opts,                \* the options of this capture
    go,                  \* global_ld.go
    err,                 \* global_ld.err # 0
    pdh,                 \* global_ld.pdh: "open", "stale" (closed) or "NULL"
    queue,               \* pcap_queue
    pcap_queue_bytes,
    pcap_queue_packets,
    received,            \* pcap_src->received, dropped, flushed
    dropped,
    flushed,
    cap_pipe_err,        \* pcap_src->cap_pipe_err
    pcap_err,            \* pcap_src->pcap_err
    broken,              \* pcap_breakloop() was called on the source
    rpc,                 \* where the reader thread of a source is
    rhand,               \* the packet its callback holds
    rload,               \* the counter it has loaded to add 1 to
    wpc,                 \* where the main thread is
    whand,               \* the packet it holds
    wload,               \* the counter it has loaded to add 1 to
    wret,                \* where it goes on after do_file_switch_or_stop
    packets_captured,    \* global_ld counters
    packets_written,
    bytes_written,
    inpkts_to_sync_pipe,
    file_count,
    out,                 \* the files written: a sequence of packet sequences
    visible,             \* how many packets of each file other processes see
    parent,              \* what the parent was told: for every SP_FILE the packet
                         \* counts sent since, the last SP_DROPS of each source
                         \* and the number of error messages
    arrived,             \* history: packets the source delivered
    failed               \* history: outputs that failed

queueVars  == <<queue, pcap_queue_bytes, pcap_queue_packets>>
statVars   == <<received, dropped, flushed>>
sourceVars == <<cap_pipe_err, pcap_err, broken>>
readerVars == <<rpc, rhand, rload, arrived>>
fileVars   == <<out, visible, packets_written, bytes_written, file_count, pdh, err, failed>>
countVars  == <<packets_captured, inpkts_to_sync_pipe>>
writerVars == <<wpc, whand, wload, wret>>
vars == <<opts, go, queueVars, statVars, sourceVars, readerVars, fileVars,
          countVars, writerVars, parent>>

NoPacket == [seq |-> 0]       \* a packet has its src, its seq and its size

Last(s) == s[Len(s)]
\* s with e in place of its last element
SetLast(s, e) == [s EXCEPT ![Len(s)] = e]

\* report_packet_count
report_packet_count(p, n) == [p EXCEPT !.files = SetLast(@, Last(@) + n)]
\* report_new_capture_file, where global_ld.pcapng_passthrough is not set: no
\* source of this module is a pcapng pipe, so SP_FILE is sent at once.
report_new_capture_file(p) == [p EXCEPT !.files = Append(@, 0)]
\* report_capture_error
report_capture_error(p) == [p EXCEPT !.errors = @ + 1]

-----------------------------------------------------------------------------
Init ==
    /\ opts \in Configs
    /\ go = TRUE
    /\ err = FALSE
    /\ pdh = "open"
    /\ queue = << >> /\ pcap_queue_bytes = 0 /\ pcap_queue_packets = 0
    /\ received = [s \in Sources |-> 0]
    /\ dropped = [s \in Sources |-> 0]
    /\ flushed = [s \in Sources |-> 0]
    /\ cap_pipe_err = [s \in Sources |-> "PIPOK"]
    /\ pcap_err = [s \in Sources |-> FALSE]
    /\ broken = [s \in Sources |-> FALSE]
    /\ rpc = [s \in Sources |-> IF opts.use_threads THEN "loop" ELSE "exited"]
    /\ rhand = [s \in Sources |-> NoPacket]
    /\ rload = [s \in Sources |-> 0]
    /\ wpc = "loop" /\ whand = NoPacket /\ wload = 0 /\ wret = "update"
    /\ packets_captured = 0 /\ packets_written = 0 /\ bytes_written = HeaderSize
    /\ inpkts_to_sync_pipe = 0 /\ file_count = 0
    /\ out = << << >> >> /\ visible = <<0>>
    /\ parent = [files |-> <<0>>, drops |-> [s \in Sources |-> -1], errors |-> 0]
    /\ arrived = [s \in Sources |-> 0]
    /\ failed = {}

-----------------------------------------------------------------------------
(***************************************************************************)
(* A reader thread, pcap_read_handler.                                      *)
(***************************************************************************)

\* Mutant of KeepsReading: the "stop capturing" flag is not tested.
KeepsReadingOpenPipe(s) == cap_pipe_err[s] = "PIPOK"

\* The condition of the thread's loop: global_ld.go && cap_pipe_err == PIPOK
KeepsReading(s) == go /\ cap_pipe_err[s] = "PIPOK"

ReaderLoop(s) ==
    /\ rpc[s] = "loop"
    /\ rpc' = [rpc EXCEPT ![s] = IF KeepsReading(s) THEN "dispatch" ELSE "exited"]
    /\ UNCHANGED <<opts, go, queueVars, statVars, sourceVars, rhand, rload, arrived,
                   fileVars, countVars, writerVars, parent>>

\* The source delivers a packet to the callback.
ReaderPacket(s, size) ==
    /\ rpc[s] = "dispatch"
    /\ ~broken[s]
    /\ arrived[s] < PacketBound
    /\ arrived' = [arrived EXCEPT ![s] = @ + 1]
    /\ rhand' = [rhand EXCEPT ![s] = [src |-> s, seq |-> arrived[s] + 1, size |-> size]]
    /\ rpc' = [rpc EXCEPT ![s] = "callback"]
    /\ UNCHANGED <<rload, opts, go, queueVars, statVars, sourceVars, fileVars, countVars,
                   writerVars, parent>>

\* capture_loop_dispatch returns: nothing more to read for now.
ReaderReturn(s) ==
    /\ rpc[s] = "dispatch"
    /\ ~broken[s]
    /\ rpc' = [rpc EXCEPT ![s] = "loop"]
    /\ UNCHANGED <<opts, go, queueVars, statVars, sourceVars, rhand, rload, arrived,
                   fileVars, countVars, writerVars, parent>>

\* How a pipe ends: at its end of file, or with a read error or a record that is
\* too long.
PipeEnds(s) ==
    \E e \in {"PIPEOF"} \cup (IF "source" \in Faults THEN {"PIPERR"} ELSE {}) :
        cap_pipe_err' = [cap_pipe_err EXCEPT ![s] = e]

\* What a dispatch that fails does to its source: a pipe ends or breaks, a
\* device reports an error, or pcap_breakloop() ends the dispatch.
SourceEnds(s) ==
    \/ /\ s \in opts.pipes
       /\ PipeEnds(s)
       /\ UNCHANGED <<go, pcap_err, parent>>
    \/ /\ s \notin opts.pipes
       /\ broken[s]
       /\ go' = FALSE
       /\ UNCHANGED <<cap_pipe_err, pcap_err, parent>>
    \/ /\ s \notin opts.pipes
       /\ ~broken[s] /\ "source" \in Faults
       /\ pcap_err' = [pcap_err EXCEPT ![s] = TRUE]
       /\ go' = FALSE
       /\ UNCHANGED <<cap_pipe_err, parent>>
    \/ \* select() fails
       /\ s \in opts.pipes
       /\ "source" \in Faults
       /\ parent' = report_capture_error(parent)
       /\ go' = FALSE
       /\ UNCHANGED <<cap_pipe_err, pcap_err>>

ReaderEnds(s) ==
    /\ rpc[s] = "dispatch"
    /\ SourceEnds(s)
    /\ rpc' = [rpc EXCEPT ![s] = "loop"]
    /\ UNCHANGED <<opts, queueVars, statVars, broken, rhand, rload, arrived, fileVars,
                   countVars, writerVars>>

\* Where a reader goes on after the callback: a device may have more packets
\* in this batch, a pipe is read one record per dispatch.
AfterCallback(s) == IF s \in opts.pipes THEN {"loop"} ELSE {"loop", "dispatch"}

\* capture_loop_queue_packet_cb up to the copy of the packet.
QueuePacketCheck(s) ==
    /\ rpc[s] = "callback"
    /\ \/ go /\ rpc' = [rpc EXCEPT ![s] = "queue"] /\ UNCHANGED rload
       \/ /\ ~go
          /\ rload' = [rload EXCEPT ![s] = flushed[s]]
          /\ rpc' = [rpc EXCEPT ![s] = "flushed++"]
    /\ UNCHANGED <<opts, go, queueVars, statVars, sourceVars, rhand, arrived,
                   fileVars, countVars, writerVars, parent>>

\* Mutant of QueueHasRoom: the limit itself still counts as room.
QueueHasRoomForOneMore ==
    /\ opts.byte_limit = 0 \/ pcap_queue_bytes <= opts.byte_limit
    /\ opts.packet_limit = 0 \/ pcap_queue_packets <= opts.packet_limit

\* Is there room in the queue?
QueueHasRoom ==
    /\ opts.byte_limit = 0 \/ pcap_queue_bytes < opts.byte_limit
    /\ opts.packet_limit = 0 \/ pcap_queue_packets < opts.packet_limit

\* Mutant of Pushed: the packet goes to the front of the queue.
PushedFront(p) == <<p>> \o queue

\* g_async_queue_push_unlocked
Pushed(p) == Append(queue, p)

\* The rest of capture_loop_queue_packet_cb: the part under the queue's lock,
\* and received, which only this thread touches.
QueuePacket(s) ==
    /\ rpc[s] = "queue"
    /\ QueueHasRoom
    /\ queue' = Pushed(rhand[s])
    /\ pcap_queue_bytes' = pcap_queue_bytes + rhand[s].size
    /\ pcap_queue_packets' = pcap_queue_packets + 1
    /\ received' = [received EXCEPT ![s] = @ + 1]
    /\ rhand' = [rhand EXCEPT ![s] = NoPacket]
    /\ \E pc \in AfterCallback(s) : rpc' = [rpc EXCEPT ![s] = pc]
    /\ UNCHANGED <<opts, go, dropped, flushed, sourceVars, rload, arrived, fileVars,
                   countVars, writerVars, parent>>

\* Mutant of QueueFull: the packet is dropped without being counted.
QueueFullUncounted(s) ==
    /\ rpc[s] = "queue"
    /\ ~QueueHasRoom
    /\ rhand' = [rhand EXCEPT ![s] = NoPacket]
    /\ rpc' = [rpc EXCEPT ![s] = "loop"]
    /\ UNCHANGED <<opts, go, queueVars, statVars, sourceVars, rload, arrived,
                   fileVars, countVars, writerVars, parent>>

\* No room: the packet is dropped.
QueueFull(s) ==
    /\ rpc[s] = "queue"
    /\ ~QueueHasRoom
    /\ rload' = [rload EXCEPT ![s] = dropped[s]]
    /\ rpc' = [rpc EXCEPT ![s] = "dropped++"]
    /\ UNCHANGED <<opts, go, queueVars, statVars, sourceVars, rhand, arrived,
                   fileVars, countVars, writerVars, parent>>

\* pcap_src->flushed++ and pcap_src->dropped++ are not atomic, and the main
\* thread counts in the same fields: the counter loaded before is stored here.
ReaderCounts(s) ==
    /\ rpc[s] \in {"flushed++", "dropped++"}
    /\ flushed' = IF rpc[s] = "flushed++"
                    THEN [flushed EXCEPT ![s] = rload[s] + 1] ELSE flushed
    /\ dropped' = IF rpc[s] = "dropped++"
                    THEN [dropped EXCEPT ![s] = rload[s] + 1] ELSE dropped
    /\ rhand' = [rhand EXCEPT ![s] = NoPacket]
    /\ rload' = [rload EXCEPT ![s] = 0]
    /\ \E pc \in AfterCallback(s) : rpc' = [rpc EXCEPT ![s] = pc]
    /\ UNCHANGED <<opts, go, queueVars, received, sourceVars, arrived, fileVars,
                   countVars, writerVars, parent>>

-----------------------------------------------------------------------------
(***************************************************************************)
(* The main thread, capture_loop_start from the loop on.                    *)
(***************************************************************************)

\* while (global_ld.go)
LoopTest ==
    /\ wpc = "loop"
    /\ wpc' = IF ~go THEN "join" ELSE IF opts.use_threads THEN "dequeue" ELSE "dispatch"
    /\ UNCHANGED <<opts, go, queueVars, statVars, sourceVars, readerVars, fileVars,
                   countVars, whand, wload, wret, parent>>

\* What leaves pcap_queue_bytes with a packet.
FreedBytes(p) == p.size

\* capture_loop_dequeue_packet takes the head of the queue, under its lock; in
\* the loop and, once the readers have ended, to drain the queue.
Dequeue ==
    /\ wpc \in {"dequeue", "drain"}
    /\ queue # << >>
    /\ whand' = Head(queue)
    /\ queue' = Tail(queue)
    /\ pcap_queue_bytes' = pcap_queue_bytes - FreedBytes(Head(queue))
    /\ pcap_queue_packets' = pcap_queue_packets - 1
    /\ wpc' = "write"
    /\ wret' = IF wpc = "drain" THEN "drain" ELSE "update"
    /\ UNCHANGED <<opts, go, statVars, sourceVars, readerVars, fileVars, countVars, wload,
                   parent>>

\* The queue stays empty for WRITER_THREAD_TIMEOUT.
DequeueTimeout ==
    /\ wpc \in {"dequeue", "drain"}
    /\ queue = << >>
    /\ wpc' = IF wpc = "drain" THEN "finish" ELSE "idle"
    /\ UNCHANGED <<opts, go, queueVars, statVars, sourceVars, readerVars, fileVars,
                   countVars, whand, wload, wret, parent>>

\* Without threads: the source delivers a packet to capture_loop_write_packet_cb.
DispatchPacket(s, size) ==
    /\ wpc \in {"dispatch", "batch"}
    /\ ~broken[s]
    /\ arrived[s] < PacketBound
    /\ arrived' = [arrived EXCEPT ![s] = @ + 1]
    /\ whand' = [src |-> s, seq |-> arrived[s] + 1, size |-> size]
    /\ wpc' = "write"
    /\ wret' = IF s \in opts.pipes THEN "update" ELSE "batch"
    /\ UNCHANGED <<opts, go, queueVars, statVars, sourceVars, rpc, rhand, rload, fileVars,
                   countVars, wload, parent>>

\* Without threads: the dispatch returns, after some packets or after none.
DispatchReturn(s) ==
    /\ wpc \in {"dispatch", "batch"}
    /\ ~broken[s]
    /\ wpc' = IF wpc = "batch" THEN "update" ELSE "idle"
    /\ UNCHANGED <<opts, go, queueVars, statVars, sourceVars, readerVars, fileVars,
                   countVars, whand, wload, wret, parent>>

\* Without threads: the dispatch fails.
DispatchEnds(s) ==
    /\ wpc \in {"dispatch", "batch"}
    /\ SourceEnds(s)
    /\ wpc' = IF wpc = "batch" THEN "update" ELSE "idle"
    /\ UNCHANGED <<opts, queueVars, statVars, broken, readerVars, fileVars, countVars,
                   whand, wload, wret>>

\* Mutant of OpenInterfaces: a pipe at its end still counts as open.
OpenUnlessFailed == \E s \in Sources : cap_pipe_err[s] # "PIPERR"

\* True for both non-pipes and open pipes.
OpenInterfaces == \E s \in Sources : cap_pipe_err[s] = "PIPOK"

\* Stop capturing if all of the sources are pipes and none of them is open.
IdleCheck ==
    /\ wpc = "idle"
    /\ go' = IF OpenInterfaces THEN go ELSE FALSE
    /\ wpc' = "update"
    /\ UNCHANGED <<opts, queueVars, statVars, sourceVars, readerVars, fileVars,
                   countVars, whand, wload, wret, parent>>

\* Mutant of Saving: packets are written after the capture was stopped.
SavingAlways == TRUE

\* Are packets still to be saved?  The "stop capturing" flag.
Saving == go

\* Mutant of RecordError: global_ld.err is not set.
RecordNoError(kind) == failed' = failed \cup {kind} /\ UNCHANGED err

\* An output operation has failed: global_ld.err is its error.
RecordError(kind) == failed' = failed \cup {kind} /\ err' = TRUE

\* capture_loop_write_packet_cb when the capture is being stopped.
WritePacketFlushed ==
    /\ wpc = "write"
    /\ ~Saving
    /\ wload' = flushed[whand.src]
    /\ wpc' = "flushed++"
    /\ UNCHANGED <<opts, go, queueVars, statVars, sourceVars, readerVars, fileVars,
                   countVars, whand, wret, parent>>

\* The flag is tested before the packet is written: a signal or a reader that
\* clears it in between comes too late for this packet.
WritePacketCheck ==
    /\ wpc = "write"
    /\ Saving
    /\ wpc' = "save"
    /\ UNCHANGED <<opts, go, queueVars, statVars, sourceVars, readerVars, fileVars,
                   countVars, whand, wload, wret, parent>>

\* capture_loop_write_packet_cb: writing the packet fails.
WritePacketFails ==
    /\ wpc = "save"
    /\ "write" \in Faults
    /\ go' = FALSE
    /\ RecordError("write")
    /\ wload' = dropped[whand.src]
    /\ wpc' = "dropped++"
    /\ UNCHANGED <<opts, queueVars, statVars, sourceVars, readerVars, out, visible,
                   packets_written, bytes_written, file_count, pdh, countVars,
                   whand, wret, parent>>

\* The store of pcap_src->flushed++ or pcap_src->dropped++.
WriterCounts ==
    /\ wpc \in {"flushed++", "dropped++"}
    /\ flushed' = IF wpc = "flushed++"
                    THEN [flushed EXCEPT ![whand.src] = wload + 1] ELSE flushed
    /\ dropped' = IF wpc = "dropped++"
                    THEN [dropped EXCEPT ![whand.src] = wload + 1] ELSE dropped
    /\ whand' = NoPacket
    /\ wload' = 0
    /\ wpc' = wret
    /\ UNCHANGED <<opts, go, queueVars, received, sourceVars, readerVars, fileVars,
                   countVars, wret, parent>>

\* -c NUM and -a packets:NUM
AutostopReached(captured) ==
    opts.autostop_packets # 0 /\ captured >= opts.autostop_packets

\* Mutant of FileFull: one packet or one kilobyte more than asked for.
FileOverfull(written, bytes) ==
    \/ opts.file_packets # 0 /\ written > opts.file_packets
    \/ opts.autostop_filesize # 0 /\ bytes \div 1000 > opts.autostop_filesize

\* -b packets:NUM and -a filesize:NUM
FileFull(written, bytes) ==
    \/ opts.file_packets # 0 /\ written >= opts.file_packets
    \/ opts.autostop_filesize # 0 /\ bytes \div 1000 >= opts.autostop_filesize

\* capture_loop_write_packet_cb and capture_loop_wrote_one_packet.
WritePacket ==
    /\ wpc = "save"
    /\ out' = SetLast(out, Append(Last(out), whand))
    /\ packets_captured' = packets_captured + 1
    /\ packets_written' = packets_written + 1
    /\ bytes_written' = bytes_written + RecordSize + whand.size
    /\ inpkts_to_sync_pipe' = inpkts_to_sync_pipe + 1
    /\ received' = IF opts.use_threads THEN received
                   ELSE [received EXCEPT ![whand.src] = @ + 1]
    /\ whand' = NoPacket
    /\ LET stop == AutostopReached(packets_captured + 1)
           full == FileFull(packets_written + 1, bytes_written + RecordSize + whand.size)
       IN  /\ go' = (go /\ ~stop)
           /\ visible' = IF stop THEN SetLast(visible, Len(Last(out')))
                                 ELSE visible
           /\ wpc' = IF ~stop /\ full THEN "switch" ELSE wret
    /\ UNCHANGED <<opts, queueVars, dropped, flushed, sourceVars, readerVars,
                   file_count, pdh, err, failed, wload, wret, parent>>

\* do_file_switch_or_stop: a single file, or no files left.
SwitchStops ==
    /\ wpc = "switch"
    /\ LET last == /\ opts.multi_files_on /\ opts.autostop_files # 0
                   /\ file_count + 1 >= opts.autostop_files
       IN  /\ ~opts.multi_files_on \/ last
           /\ file_count' = IF last THEN file_count + 1 ELSE file_count
    /\ go' = FALSE
    /\ wpc' = wret
    /\ UNCHANGED <<opts, queueVars, statVars, sourceVars, readerVars, out, visible,
                   packets_written, bytes_written, pdh, err, failed, countVars,
                   whand, wload, wret, parent>>

\* Are there files left to switch to?
FilesLeft ==
    /\ opts.multi_files_on
    /\ opts.autostop_files = 0 \/ file_count + 1 < opts.autostop_files
CountFile == file_count' = IF opts.autostop_files = 0 THEN file_count ELSE file_count + 1

\* Mutant of ReportSwitch: the new file is reported before the packets of the old.
ReportSwitchFirst(n) == report_packet_count(report_new_capture_file(parent), n)

\* The packets not yet reported belong to the old file.
ReportSwitch(n) == report_new_capture_file(report_packet_count(parent, n))

\* do_file_switch_or_stop: ringbuf_switch_file and the new header succeed.
\* Closing the old file and making the stream of the new one set
\* global_ld.err to 0.
SwitchSucceeds ==
    /\ wpc = "switch"
    /\ FilesLeft
    /\ CountFile
    /\ out' = Append(out, << >>)
    /\ visible' = Append(SetLast(visible, Len(Last(out))), 0)
    /\ packets_written' = 0
    /\ bytes_written' = HeaderSize
    /\ err' = FALSE
    /\ pdh' = "open"
    /\ parent' = ReportSwitch(inpkts_to_sync_pipe)
    /\ inpkts_to_sync_pipe' = 0
    /\ wpc' = wret
    /\ UNCHANGED <<opts, go, queueVars, statVars, sourceVars, readerVars,
                   packets_captured, failed, whand, wload, wret>>

\* do_file_switch_or_stop: ringbuf_switch_file fails, in closing the old file
\* or in opening the new one; global_ld.pdh still points to the old stream.
SwitchFails ==
    /\ wpc = "switch"
    /\ FilesLeft
    /\ "switch" \in Faults
    /\ CountFile
    /\ visible' \in {visible, SetLast(visible, Len(Last(out)))}
    /\ RecordError("switch")
    /\ pdh' = "stale"
    /\ go' = FALSE
    /\ wpc' = wret
    /\ UNCHANGED <<opts, queueVars, statVars, sourceVars, readerVars, out,
                   packets_written, bytes_written, countVars, whand, wload, wret, parent>>

\* do_file_switch_or_stop: the header of the new file cannot be written.
SwitchFailsOnStart ==
    /\ wpc = "switch"
    /\ FilesLeft
    /\ "start" \in Faults
    /\ CountFile
    /\ out' = Append(out, << >>)
    /\ visible' = Append(SetLast(visible, Len(Last(out))), 0)
    /\ packets_written' = 0
    /\ bytes_written' = HeaderSize
    /\ RecordError("start")
    /\ pdh' = "NULL"
    /\ go' = FALSE
    /\ wpc' = wret
    /\ UNCHANGED <<opts, queueVars, statVars, sourceVars, readerVars, countVars,
                   whand, wload, wret, parent>>

\* The update interval is not over yet.
NoUpdate ==
    /\ wpc = "update"
    /\ wpc' = "loop"
    /\ UNCHANGED <<opts, go, queueVars, statVars, sourceVars, readerVars, fileVars,
                   countVars, whand, wload, wret, parent>>

\* The update interval is over: flush the file and tell the parent.
Update ==
    /\ wpc = "update"
    /\ inpkts_to_sync_pipe > 0 => pdh = "open"
    /\ IF inpkts_to_sync_pipe > 0
         THEN /\ visible' = SetLast(visible, Len(Last(out)))
              /\ parent' = report_packet_count(parent, inpkts_to_sync_pipe)
              /\ inpkts_to_sync_pipe' = 0
         ELSE UNCHANGED <<visible, parent, inpkts_to_sync_pipe>>
    /\ wpc' = "timers"
    /\ UNCHANGED <<opts, go, queueVars, statVars, sourceVars, readerVars, out,
                   packets_written, bytes_written, file_count, pdh, err, failed,
                   packets_captured, whand, wload, wret>>

\* The same with global_ld.pdh not open, after a failed file switch: flushing
\* it is undefined; dumpcap crashes, or goes on and reports the count.
UpdateOnClosedStream ==
    /\ wpc = "update"
    /\ inpkts_to_sync_pipe > 0 /\ pdh # "open"
    /\ \/ /\ wpc' = "crashed"
          /\ rpc' = [s \in Sources |-> "exited"]
          /\ UNCHANGED <<parent, inpkts_to_sync_pipe>>
       \/ /\ pdh = "stale"
          /\ wpc' = "timers"
          /\ parent' = report_packet_count(parent, inpkts_to_sync_pipe)
          /\ inpkts_to_sync_pipe' = 0
          /\ UNCHANGED rpc
    /\ UNCHANGED <<opts, go, queueVars, statVars, sourceVars, rhand, rload, arrived,
                   fileVars, packets_captured, whand, wload, wret>>

\* The timers: the capture duration is over, ...
DurationOver ==
    /\ wpc = "timers"
    /\ opts.autostop_duration
    /\ go' = FALSE
    /\ wpc' = "loop"
    /\ UNCHANGED <<opts, queueVars, statVars, sourceVars, readerVars, fileVars,
                   countVars, whand, wload, wret, parent>>

\* ... the duration or interval of the file is over, ...
FileTimerOver ==
    /\ wpc = "timers"
    /\ opts.file_timer
    /\ Len(out) < FileBound
    /\ wpc' = "switch"
    /\ wret' = "loop"
    /\ UNCHANGED <<opts, go, queueVars, statVars, sourceVars, readerVars, fileVars,
                   countVars, whand, wload, parent>>

\* ... or neither is.
TimersDone ==
    /\ wpc = "timers"
    /\ wpc' = "loop"
    /\ UNCHANGED <<opts, go, queueVars, statVars, sourceVars, readerVars, fileVars,
                   countVars, whand, wload, wret, parent>>

\* Mutant of ReadersExited: only one thread is waited for.
OneReaderExited == \E s \in Sources : rpc[s] = "exited"

ReadersExited == \A s \in Sources : rpc[s] = "exited"

\* g_thread_join() on every reader thread.
Join ==
    /\ wpc = "join"
    /\ ReadersExited
    /\ wpc' = IF opts.use_threads THEN "drain" ELSE "finish"
    /\ UNCHANGED <<opts, go, queueVars, statVars, sourceVars, readerVars, fileVars,
                   countVars, whand, wload, wret, parent>>

\* After the loop: report an input error and an output error, close the output,
\* tell the parent about the last packets, report the drops.
SourceFailed == \E s \in Sources : pcap_err[s] \/ cap_pipe_err[s] = "PIPERR"
ErrorIf(p, cond) == IF cond THEN report_capture_error(p) ELSE p
Drops == [s \in Sources |-> dropped[s] + flushed[s]]

\* capture_loop_finish_output, which is called unless there was an output error,
\* writes statistics to a single file, and that may fail.
FinishOutput(finish_ok) ==
    finish_ok \/ ("write" \in Faults /\ ~err /\ ~opts.multi_files_on)

\* capture_loop_close_output: what is still buffered gets to the file.
CloseOutput(close_ok) ==
    /\ close_ok \/ "close" \in Faults
    /\ visible' = IF close_ok /\ pdh = "open" THEN SetLast(visible, Len(Last(out))) ELSE visible

Finish(finish_ok, close_ok) ==
    /\ wpc = "finish"
    /\ FinishOutput(finish_ok)
    /\ CloseOutput(close_ok)
    /\ err' = (err \/ ~finish_ok)
    /\ failed' = failed \cup (IF finish_ok THEN {} ELSE {"write"})
                        \cup (IF close_ok THEN {} ELSE {"close"})
    /\ LET p1 == ErrorIf(ErrorIf(parent, SourceFailed), err')
           p2 == report_packet_count(p1, inpkts_to_sync_pipe)
           p3 == ErrorIf(p2, ~close_ok /\ ~err')
       IN  parent' = [p3 EXCEPT !.drops = Drops]
    /\ inpkts_to_sync_pipe' = 0
    /\ go' = FALSE
    /\ wpc' = "done"
    /\ UNCHANGED <<opts, queueVars, statVars, sourceVars, readerVars, out,
                   packets_written, bytes_written, file_count, pdh,
                   packets_captured, whand, wload, wret>>

-----------------------------------------------------------------------------
\* capture_loop_stop, from the signal handler: at any moment of the loop.
Stop ==
    /\ Signals
    /\ wpc \notin {"done", "crashed"}
    /\ broken' = [s \in Sources |-> broken[s] \/ s \notin opts.pipes]
    /\ go' = FALSE
    /\ UNCHANGED <<opts, queueVars, statVars, cap_pipe_err, pcap_err, readerVars,
                   fileVars, countVars, writerVars, parent>>

Reader(s) ==
    \/ ReaderLoop(s)
    \/ \E size \in Sizes : ReaderPacket(s, size)
    \/ ReaderReturn(s)
    \/ ReaderEnds(s)
    \/ QueuePacketCheck(s) \/ QueuePacket(s) \/ QueueFull(s) \/ ReaderCounts(s)

Writer ==
    \/ LoopTest \/ Dequeue \/ DequeueTimeout
    \/ \E s \in Sources :
         \/ \E size \in Sizes : DispatchPacket(s, size)
         \/ DispatchReturn(s)
         \/ DispatchEnds(s)
    \/ IdleCheck
    \/ WritePacketFlushed \/ WritePacketCheck \/ WritePacketFails \/ WriterCounts \/ WritePacket
    \/ SwitchStops \/ SwitchSucceeds \/ SwitchFails \/ SwitchFailsOnStart
    \/ NoUpdate \/ Update \/ UpdateOnClosedStream
    \/ DurationOver \/ FileTimerOver \/ TimersDone
    \/ Join
    \/ \E finish_ok, close_ok \in BOOLEAN : Finish(finish_ok, close_ok)

\* The process has ended.
Terminated == wpc \in {"done", "crashed"} /\ UNCHANGED vars

Next ==
    \/ Writer
    \/ \E s \in Sources : Reader(s)
    \/ Stop
    \/ Terminated

Spec == Init /\ [][Next]_vars

\* Every thread is scheduled again and again, and each call that one of them
\* waits in comes back: pcap_dispatch after CAP_READ_TIMEOUT or pcap_breakloop(),
\* the select() before each read() of a pcap pipe after PIPE_READ_TIMEOUT, the
\* dequeue after WRITER_THREAD_TIMEOUT.  The reader of a pcapng pipe has no such
\* bound: cap_pipe_read_data_bytes() selects again until the block is complete.
\* It is outside this module; StopNoticed of CapturePipe speaks of it.
Fairness == WF_vars(Writer) /\ \A s \in Sources : WF_vars(Reader(s))

FairSpec == Spec /\ Fairness
-----------------------------------------------------------------------------
(***************************************************************************)
(* Properties.                                                              *)
(***************************************************************************)

\* The number of bytes of the packets in q.
TotalSize(q) ==
    LET sum[i \in 0 .. Len(q)] == IF i = 0 THEN 0 ELSE sum[i - 1] + q[i].size
    IN  sum[Len(q)]

\* The counters the queue's limits are checked against are those of the queue
\* itself, and both limits hold whatever the readers and the main thread do:
\* only the last packet queued may exceed the limit on the bytes.
QueueBounded ==
    /\ pcap_queue_packets = Len(queue)
    /\ pcap_queue_bytes = TotalSize(queue)
    /\ opts.packet_limit # 0 => Len(queue) <= opts.packet_limit
    /\ opts.byte_limit # 0 /\ queue # << >> =>
         TotalSize(SubSeq(queue, 1, Len(queue) - 1)) < opts.byte_limit

\* Where the packets of a source are.
Written(s) == {p \in UNION {{out[f][i] : i \in DOMAIN out[f]} : f \in DOMAIN out} : p.src = s}
Queued(s)  == {p \in {queue[i] : i \in DOMAIN queue} : p.src = s}
Held(s)    == {p \in {rhand[s], whand} : p # NoPacket /\ p.src = s}

\* received, dropped and flushed never account for more packets than there
\* were; until the capture is told to stop, and without threads always, they
\* account for every packet that is not written, queued or being handled.
DropsAccounted ==
    \A s \in Sources :
      LET settled == Cardinality(Written(s)) + Cardinality(Queued(s)) + dropped[s] + flushed[s]
      IN  /\ settled + Cardinality(Held(s)) <= arrived[s]
          /\ go \/ ~opts.use_threads => settled + Cardinality(Held(s)) = arrived[s]

\* Every file has what the -b and -a options ask for: no file has more packets
\* than file_packets or reaches the file size before its last packet, a file
\* is left only when it is full (or by the timer), and there are no more files
\* than asked for.
FilesAsAsked ==
    /\ opts.autostop_files # 0 => Len(out) <= opts.autostop_files
    /\ \A f \in DOMAIN out :
         LET n == Len(out[f])
             Bytes(k) == HeaderSize + k * RecordSize + TotalSize(SubSeq(out[f], 1, k))
         IN  /\ opts.file_packets # 0 => n <= opts.file_packets
             /\ opts.autostop_filesize # 0 =>
                  \A k \in 1 .. n - 1 : Bytes(k) < 1000 * opts.autostop_filesize
             /\ f < Len(out) /\ ~opts.file_timer =>
                  \/ n > 0 /\ n = opts.file_packets
                  \/ opts.autostop_filesize # 0 /\ Bytes(n) >= 1000 * opts.autostop_filesize

\* With devices and pcap pipes (CountsReachParent of PcapngOutput is about a
\* pcapng pipe that is passed through, whose later files are not announced):
\* the parent learns of every packet in the file it was told about, under that
\* file's name and not before it can read it there: the count of a file that
\* was switched from is exact, that of the current file never ahead of what is
\* flushed, and when the capture ends nothing is left unreported.
ParentCounts ==
    /\ Len(parent.files) <= Len(out)
    /\ \A f \in 1 .. Len(parent.files) - 1 : parent.files[f] = Len(out[f])
    /\ failed = {} => \A f \in DOMAIN parent.files : parent.files[f] <= visible[f]
    /\ wpc = "done" => \A f \in DOMAIN parent.files : parent.files[f] = Len(out[f])

\* A failed write, switch or close is reported to the parent when the capture
\* ends, in every capture whose files are not switched by a timer.
OutputErrorReported ==
    wpc = "done" /\ failed # {} /\ ~opts.file_timer => parent.errors > 0

\* Once the readers have been joined none of them holds or queues a packet any
\* more, and the drain that follows leaves nothing in the queue.
StopIsFinal ==
    /\ wpc \in {"drain", "finish", "done"} =>
         ~go /\ \A s \in Sources : rpc[s] = "exited" /\ rhand[s] = NoPacket
    /\ wpc \in {"finish", "done"} => queue = << >>

\* Strengthening of StopIsFinal: a reader holds a packet only inside a callback;
\* past the loop the flag is cleared; the readers have ended from the join on,
\* also while the drain discards a packet; without threads there never is one.
ReadersIdle ==
    wpc # "crashed" =>
        \A s \in Sources : rpc[s] \in {"loop", "dispatch", "exited"} => rhand[s] = NoPacket
Stopping == wpc \in {"join", "drain", "finish", "done"} \/ wret = "drain" => ~go
Joined ==
    wpc \in {"drain", "finish", "done"} \/ wret = "drain" \/ ~opts.use_threads => ReadersExited
Draining ==
    /\ wret = "drain" => wpc \in {"write", "flushed++", "drain", "finish", "done"}
    /\ wpc \in {"finish", "done"} \/ ~opts.use_threads => queue = << >>
LoopInv == ReadersIdle /\ Stopping /\ Joined /\ Draining

\* No step starts the capture again after go was cleared, and no packet is
\* written then except the one the main thread had already tested the flag for.
NothingAfterStop ==
    [][/\ ~go => ~go'
       /\ ~go /\ wpc # "save" => wpc' # "save" /\ packets_captured' = packets_captured]_vars

\* Once it was told to stop a capture from devices and pcap pipes ends, however
\* silent its sources are.
StopEnds == ~go ~> wpc \in {"done", "crashed"}

\* The capture ends when every source is a pipe and all of them have ended.
EofEnds ==
    (\A s \in Sources : cap_pipe_err[s] # "PIPOK") ~> wpc \in {"done", "crashed"}

\* "If this fails, set "global_ld.go" to false, to stop the capture, and set
\* "global_ld.err" to the error" (capture_loop_write_packet_cb), which "did we
\* have an output error while capturing?" (capture_loop_start) reports.
WriteErrorReported == wpc = "done" /\ "write" \in failed => parent.errors > 0
=============================================================================
