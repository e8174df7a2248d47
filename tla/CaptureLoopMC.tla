--------------------------- MODULE CaptureLoopMC ----------------------------
(* CaptureLoop and its refinement of PacketLedger on small instances.         *)
EXTENDS CaptureLedger

\* A capture without any condition.
Plain == [pipes |-> {}, use_threads |-> TRUE, byte_limit |-> 0, packet_limit |-> 0,
          autostop_packets |-> 0, autostop_filesize |-> 0, autostop_files |-> 0,
          file_packets |-> 0, multi_files_on |-> FALSE,
          autostop_duration |-> FALSE, file_timer |-> FALSE]

\* The same captures on pipes.
OnPipes(configs) == {[c EXCEPT !.pipes = Sources] : c \in configs}

\* Two sources with threads: devices, a device and a pipe, and pipes; a queue limit
\* of each kind with a stop condition, and a ring of files switched by packets.
MCThreads ==
    {[Plain EXCEPT !.packet_limit = 1, !.autostop_packets = 2],
     [Plain EXCEPT !.pipes = {CHOOSE s \in Sources : TRUE}, !.byte_limit = 600,
                   !.autostop_filesize = 1],
     [Plain EXCEPT !.pipes = Sources, !.packet_limit = 2,
                   !.multi_files_on = TRUE, !.file_packets = 1,
                   !.autostop_files = 2]}

\* One source that the main thread reads itself, or a thread.
MCOneSource ==
    LET base == {[Plain EXCEPT !.multi_files_on = TRUE, !.file_packets = 2, !.autostop_packets = 3],
                 [Plain EXCEPT !.multi_files_on = TRUE, !.autostop_filesize = 1, !.autostop_files = 3],
                 [Plain EXCEPT !.multi_files_on = TRUE, !.file_timer = TRUE, !.file_packets = 1],
                 [Plain EXCEPT !.autostop_duration = TRUE, !.autostop_filesize = 2]}
        both == base \cup {[c EXCEPT !.use_threads = FALSE] : c \in base}
    IN  both \cup OnPipes(both)

MCTimer == {[Plain EXCEPT !.multi_files_on = TRUE, !.file_timer = TRUE]}
MCSizes == {500, 1000}
MCOneSize == {500}
MCAllFaults == FaultKinds
MCSourceFaults == {"source"}
MCWriteFaults == {"write"}
=============================================================================
