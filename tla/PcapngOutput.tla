---------------------------- MODULE PcapngOutput ----------------------------
(***************************************************************************)
(* How dumpcap puts the blocks of several sources into one pcapng output:   *)
(* pcapng_adjust_block and capture_loop_write_pcapng_cb, the Section Header *)
(* and Interface Description Blocks capture_file_start_output_pcapng        *)
(* repeats at the start of every file, and when the parent is told of a     *)
(* file and of the packets in it.  A source is a device (or a pipe in pcap  *)
(* format), for which dumpcap makes an IDB, or a pipe in pcapng format,     *)
(* which sends sections of its own: an SHB, then IDBs, and packets (EPBs)   *)
(* that should refer to one of them.                                        *)
(*                                                                          *)
(* A source is its number in the interface list.  An interface is named by  *)
(* its source, the section of the source and its number there; the blocks   *)
(* in `files' carry the interface they describe or really came from.        *)
(***************************************************************************)
EXTENDS Integers, Sequences, FiniteSets

CONSTANTS
    Configs,         \* the captures, see ConfigType
    SectionBound,    \* bounds on the sections of a source, ...
    PacketBound,     \* ... the packets of a source, ...
    QueueBound,      \* ... the blocks in the queue, ...
    FileBound        \* ... and the files

\* The kind of each source, the most interfaces it describes in a section, are
\* there reader threads, and the limit on the queue between them and the main
\* thread (0: none).
ConfigType ==
    [ifaces : Seq({"device", "pcapng"}), described : Seq(Nat), use_threads : BOOLEAN,
     packet_limit : Nat]

ASSUME ConfigsAssumption ==
    \A c \in Configs : c \in ConfigType /\ Len(c.ifaces) > 0 /\ Len(c.described) = Len(c.ifaces)
ASSUME BoundsAssumption ==
    {SectionBound, PacketBound, QueueBound, FileBound} \subseteq Nat

VARIABLES
    conf,
    phase,                    \* running; stopped; or how dumpcap died
    cap_pipe_state,           \* "shb": the fixed part of an SHB has been read
    byte_swapped,             \* cap_pipe_info.pcapng.byte_swapped
    section,                  \* where each source is: its section, ...
    interfaces,               \* ... how many IDBs of it were sent, ...
    packets,                  \* ... and how many packets
    queue,                    \* pcap_queue
    saved_shb,                \* global_ld.saved_shb
    saved_idbs,               \* global_ld.saved_idbs
    src_iface_to_global,      \* of each pcapng source
    files,                    \* the blocks of each file
    report_capture_filename,  \* the file whose SP_FILE is delayed, or 0
    told,                     \* the files SP_FILE was sent for
    inpkts_to_sync_pipe,      \* the packets written and not yet counted
    counted,                  \* the packets counted to the parent: before any SP_FILE
                              \* and after each of them
    stray                     \* history: sources that sent a packet of an interface
                              \* they had not described

sourceVars == <<cap_pipe_state, byte_swapped, section, interfaces, packets>>
outVars    == <<saved_shb, saved_idbs, src_iface_to_global, files,
                report_capture_filename, told>>
countVars  == <<inpkts_to_sync_pipe, counted>>
vars == <<conf, phase, sourceVars, queue, outVars, countVars, stray>>

Ifaces == 1 .. Len(conf.ifaces)
IsDevice(s) == conf.ifaces[s] = "device"

\* pcapng_passthrough: "We have one source and it's pcapng."
pcapng_passthrough == Len(conf.ifaces) = 1 /\ ~IsDevice(1)

NoShb == << >>                \* a saved SHB is <<its byte order>>

\* idb_id: the devices have the first output interfaces, in order.
idb_id(s) == Cardinality({d \in Ifaces : d < s /\ IsDevice(d)})
DeviceIdbs ==
    [i \in 1 .. Cardinality({d \in Ifaces : IsDevice(d)}) |->
       [deleted |-> FALSE,
        who |-> [src |-> CHOOSE d \in Ifaces : IsDevice(d) /\ idb_id(d) = i - 1,
                 sec |-> 0, id |-> 0]]]

Dummy == [src |-> 0, sec |-> 0, id |-> 0]

\* Mutant of FileStart: deleted interfaces are left out.
FileStartWithoutDummies(shb, idbs) ==
    IF pcapng_passthrough /\ shb = NoShb THEN << >>
    ELSE LET live == SelectSeq(idbs, LAMBDA idb : ~idb.deleted)
         IN  <<[type |-> "SHB"]>> \o
             [i \in DOMAIN live |-> [type |-> "IDB", who |-> live[i].who]]

\* capture_file_start_output_pcapng: what a file starts with.
FileStart(shb, idbs) ==
    IF pcapng_passthrough /\ shb = NoShb THEN << >>
    ELSE <<[type |-> "SHB"]>> \o
         [i \in DOMAIN idbs |->
            [type |-> "IDB", who |-> IF idbs[i].deleted THEN Dummy ELSE idbs[i].who]]

Init ==
    /\ conf \in Configs
    /\ phase = "running"
    /\ cap_pipe_state = [s \in Ifaces |-> IF IsDevice(s) THEN "device" ELSE "shb"]
    /\ byte_swapped \in [Ifaces -> IF pcapng_passthrough THEN BOOLEAN ELSE {FALSE}]
    /\ section = [s \in Ifaces |-> 0]
    /\ interfaces = [s \in Ifaces |-> 0]
    /\ packets = [s \in Ifaces |-> 0]
    /\ queue = << >>
    /\ saved_shb = NoShb
    /\ saved_idbs = DeviceIdbs
    /\ src_iface_to_global = [s \in Ifaces |-> << >>]
    /\ files = <<FileStart(NoShb, DeviceIdbs)>>
    /\ report_capture_filename = IF pcapng_passthrough THEN 1 ELSE 0
    /\ told = IF pcapng_passthrough THEN << >> ELSE <<1>>
    /\ inpkts_to_sync_pipe = 0
    /\ counted = IF pcapng_passthrough THEN <<0>> ELSE <<0, 0>>
    /\ stray = {}

-----------------------------------------------------------------------------
(***************************************************************************)
(* Writing a block: capture_loop_write_pcapng_cb with pcapng_adjust_block,  *)
(* and capture_loop_write_packet_cb for the packets of a device.            *)
(***************************************************************************)

WriteOut(block) == files' = [files EXCEPT ![Len(files)] = Append(@, block)]

\* g_array_set_size(src_iface_to_global, 0)
ForgetInterfaces(s) == src_iface_to_global' = [src_iface_to_global EXCEPT ![s] = << >>]

\* A new section of the only source is passed through and kept for later files.
PassSectionHeader(b) ==
    /\ b.type = "SHB" /\ pcapng_passthrough
    /\ saved_shb' = <<b.swapped>>
    /\ saved_idbs' = << >>
    /\ ForgetInterfaces(b.who.src)
    /\ WriteOut([type |-> "SHB"])
    /\ IF report_capture_filename # 0
         THEN /\ told' = Append(told, report_capture_filename)
              /\ counted' = Append(counted, 0)
              /\ report_capture_filename' = 0
         ELSE UNCHANGED <<told, counted, report_capture_filename>>
    /\ UNCHANGED <<phase, inpkts_to_sync_pipe>>

\* A new section of one of several sources: its interfaces go out of scope.
AbsorbSectionHeader(b) ==
    /\ b.type = "SHB" /\ ~pcapng_passthrough
    /\ saved_idbs' = [i \in DOMAIN saved_idbs |->
                        IF \E j \in DOMAIN src_iface_to_global[b.who.src] :
                              src_iface_to_global[b.who.src][j] = i - 1
                          THEN [deleted |-> TRUE, who |-> Dummy] ELSE saved_idbs[i]]
    /\ ForgetInterfaces(b.who.src)
    /\ UNCHANGED <<phase, saved_shb, files, told, report_capture_filename, countVars>>

\* The global number of the next interface, its place in saved_idbs.
NextGlobalId == Len(saved_idbs)

\* An interface is saved, mapped to the next global number and written.
WriteInterface(b) ==
    /\ b.type = "IDB"
    /\ saved_idbs' = Append(saved_idbs, [deleted |-> FALSE, who |-> b.who])
    /\ src_iface_to_global' =
         [src_iface_to_global EXCEPT ![b.who.src] = Append(@, NextGlobalId)]
    /\ WriteOut([type |-> "IDB", who |-> b.who])
    /\ UNCHANGED <<phase, saved_shb, told, report_capture_filename, countVars>>

\* The output interface of a packet; its own number when passed through.
OutputInterface(b) ==
    IF IsDevice(b.who.src) THEN idb_id(b.who.src)
    ELSE IF pcapng_passthrough THEN b.who.id
    ELSE src_iface_to_global[b.who.src][b.who.id + 1]

IsMapped(b) ==
    \/ IsDevice(b.who.src) \/ pcapng_passthrough
    \/ b.who.id < Len(src_iface_to_global[b.who.src])

WritePacket(b) ==
    /\ b.type = "EPB" /\ IsMapped(b)
    /\ WriteOut([type |-> "EPB", iface |-> OutputInterface(b), known |-> b.known,
                 who |-> b.who])
    /\ inpkts_to_sync_pipe' = inpkts_to_sync_pipe + 1
    /\ UNCHANGED <<phase, saved_shb, saved_idbs, src_iface_to_global, told,
                   report_capture_filename, counted>>

\* pcapng_adjust_block fails: ws_assert_not_reached().
PacketNotMapped(b) ==
    /\ b.type = "EPB" /\ ~IsMapped(b)
    /\ phase' = "aborted"
    /\ UNCHANGED <<outVars, countVars>>

WriteBlock(b) ==
    \/ PassSectionHeader(b)
    \/ AbsorbSectionHeader(b)
    \/ WriteInterface(b)
    \/ WritePacket(b)
    \/ PacketNotMapped(b)

-----------------------------------------------------------------------------
(***************************************************************************)
(* The sources.                                                             *)
(***************************************************************************)

\* A whole block has been read: it is written at once without threads, and
\* queued or dropped with them.
Deliver(b) ==
    \/ /\ ~conf.use_threads
       /\ WriteBlock(b)
       /\ UNCHANGED queue
    \/ /\ conf.use_threads
       /\ Len(queue) < QueueBound \/ conf.packet_limit # 0
       /\ queue' = IF conf.packet_limit = 0 \/ Len(queue) < conf.packet_limit
                     THEN Append(queue, b) ELSE queue
       /\ UNCHANGED <<phase, outVars, countVars>>

\* pcapng_read_shb: the fixed part of an SHB tells the byte order of the
\* section.  One in the other byte order is accepted only to pass it through.
ReadShb(s, swapped) ==
    /\ phase = "running"
    /\ cap_pipe_state[s] = "header"
    /\ section[s] < SectionBound
    /\ swapped => pcapng_passthrough
    /\ cap_pipe_state' = [cap_pipe_state EXCEPT ![s] = "shb"]
    /\ byte_swapped' = [byte_swapped EXCEPT ![s] = swapped]
    /\ UNCHANGED <<conf, phase, section, interfaces, packets, queue, outVars, countVars,
                   stray>>

\* The rest of the SHB: a new section without interfaces.
ReadSection(s) ==
    /\ phase = "running"
    /\ cap_pipe_state[s] = "shb"
    /\ cap_pipe_state' = [cap_pipe_state EXCEPT ![s] = "header"]
    /\ section' = [section EXCEPT ![s] = @ + 1]
    /\ interfaces' = [interfaces EXCEPT ![s] = 0]
    /\ Deliver([type |-> "SHB", swapped |-> byte_swapped[s],
                who |-> [src |-> s, sec |-> section[s] + 1, id |-> 0]])
    /\ UNCHANGED <<conf, byte_swapped, packets, stray>>

ReadInterface(s) ==
    /\ phase = "running"
    /\ cap_pipe_state[s] = "header"
    /\ interfaces[s] < conf.described[s]
    /\ interfaces' = [interfaces EXCEPT ![s] = @ + 1]
    /\ Deliver([type |-> "IDB",
                who |-> [src |-> s, sec |-> section[s], id |-> interfaces[s]]])
    /\ UNCHANGED <<conf, cap_pipe_state, byte_swapped, section, packets, stray>>

\* Has the source described its interface id in the current section?
IsKnown(s, id) == IsDevice(s) \/ id < interfaces[s]

\* A packet of a device, or of interface id in the current section of a pipe,
\* whether the pipe has described that interface or not.
ReadPacket(s, id) ==
    /\ phase = "running"
    /\ packets[s] < PacketBound
    /\ \/ cap_pipe_state[s] = "header"
       \/ cap_pipe_state[s] = "device" /\ id = 0
    /\ packets' = [packets EXCEPT ![s] = @ + 1]
    /\ stray' = IF IsKnown(s, id) THEN stray ELSE stray \cup {s}
    /\ Deliver([type |-> "EPB", known |-> IsKnown(s, id),
                who |-> [src |-> s, sec |-> section[s], id |-> id]])
    /\ UNCHANGED <<conf, cap_pipe_state, byte_swapped, section, interfaces>>

-----------------------------------------------------------------------------
(***************************************************************************)
(* The main thread.                                                         *)
(***************************************************************************)

\* With threads: the head of the queue is written.
Dequeue ==
    /\ phase = "running"
    /\ queue # << >>
    /\ WriteBlock(Head(queue))
    /\ queue' = Tail(queue)
    /\ UNCHANGED <<conf, sourceVars, stray>>

\* report_packet_count of the packets not yet counted: the parent counts them to
\* the file of the last SP_FILE.
CountReported == [counted EXCEPT ![Len(counted)] = @ + inpkts_to_sync_pipe]

\* The update interval is over.
Update ==
    /\ phase = "running"
    /\ inpkts_to_sync_pipe > 0
    /\ counted' = CountReported
    /\ inpkts_to_sync_pipe' = 0
    /\ UNCHANGED <<conf, phase, sourceVars, queue, outVars, stray>>

\* Is the length in the saved SHB read in the byte order it was saved in?
SavedShbReadable ==
    pcapng_passthrough /\ saved_shb # NoShb => saved_shb = <<byte_swapped[1]>>

\* Mutants of ReportNewFile: SP_FILE is never delayed, ...
ReportNewFileAtOnce(f, counts) ==
    /\ told' = Append(told, f)
    /\ counted' = Append(counts, 0)
    /\ UNCHANGED report_capture_filename

\* ... and it is sent before the last packets of the old file are counted.
ReportNewFileFirst(f, counts) ==
    IF pcapng_passthrough
      THEN report_capture_filename' = f /\ counted' = counts /\ UNCHANGED told
      ELSE /\ told' = Append(told, f)
           /\ counted' = Append(counted, inpkts_to_sync_pipe)
           /\ UNCHANGED report_capture_filename

\* report_new_capture_file: the parent is told at once, or, of a source that is
\* passed through, when its next section header is.
ReportNewFile(f, counts) ==
    IF pcapng_passthrough
      THEN report_capture_filename' = f /\ counted' = counts /\ UNCHANGED told
      ELSE /\ told' = Append(told, f)
           /\ counted' = Append(counts, 0)
           /\ UNCHANGED report_capture_filename

\* do_file_switch_or_stop to a new file.
SwitchFile ==
    /\ phase = "running"
    /\ Len(files) < FileBound
    /\ SavedShbReadable
    /\ files' = Append(files, FileStart(saved_shb, saved_idbs))
    /\ ReportNewFile(Len(files) + 1, CountReported)
    /\ inpkts_to_sync_pipe' = 0
    /\ UNCHANGED <<conf, phase, sourceVars, queue, saved_shb, saved_idbs,
                   src_iface_to_global, stray>>

\* The end of the capture: the last packets are counted.
EndCapture ==
    /\ phase' = "stopped"
    /\ counted' = CountReported
    /\ inpkts_to_sync_pipe' = 0

\* The same with the length of the saved SHB read in the wrong byte order: the
\* file cannot be started, or dumpcap reads beyond the block.
SwitchFileMisread ==
    /\ phase = "running"
    /\ Len(files) < FileBound
    /\ ~SavedShbReadable
    /\ files' = Append(files, << >>)
    /\ \/ EndCapture
       \/ phase' = "crashed" /\ UNCHANGED countVars
    /\ UNCHANGED <<conf, sourceVars, queue, saved_shb, saved_idbs,
                   src_iface_to_global, report_capture_filename, told, stray>>

\* The capture stops; what is still queued is discarded.
Stop ==
    /\ phase = "running"
    /\ EndCapture
    /\ queue' = << >>
    /\ UNCHANGED <<conf, sourceVars, outVars, stray>>

Read(s) ==
    \/ \E swapped \in BOOLEAN : ReadShb(s, swapped)
    \/ ReadSection(s)
    \/ ReadInterface(s)
    \/ \E id \in 0 .. interfaces[s] : ReadPacket(s, id)

Next ==
    \/ \E s \in Ifaces : Read(s)
    \/ Dequeue
    \/ Update
    \/ SwitchFile
    \/ SwitchFileMisread
    \/ Stop

Spec == Init /\ [][Next]_vars
-----------------------------------------------------------------------------
(***************************************************************************)
(* Properties.                                                              *)
(***************************************************************************)

\* The interface described by the p-th block of a file: how many descriptions are
\* between it and the header of its section.
InterfaceNumber(file, p) ==
    Cardinality({j \in 1 .. p - 1 : /\ file[j].type = "IDB"
                                    /\ \A h \in j .. p - 1 : file[h].type # "SHB"})

\* The k-th block, a packet, refers to the interface it was captured on: that is
\* described before it, in the same section.
Described(file, k) ==
    \E p \in 1 .. k - 1 :
       /\ file[p].type = "IDB" /\ file[p].who = file[k].who
       /\ InterfaceNumber(file, p) = file[k].iface
       /\ \A h \in p .. k : file[h].type # "SHB"
       /\ \E h \in 1 .. p - 1 : file[h].type = "SHB"

\* Every packet in every file refers to an Interface Description Block earlier
\* in its section of the same file, and that block describes the interface it
\* came from, whatever sections the sources start and whenever files are
\* switched; only a packet whose own source had not described its interface is
\* passed through without one, or makes pcapng_adjust_block fail, which aborts
\* dumpcap.
\* (With a limit on the queue an interface description may be dropped, and does.)
EveryPacketDescribed ==
    conf.packet_limit = 0 =>
        /\ phase = "aborted" => stray # {} /\ ~pcapng_passthrough
        /\ \A f \in DOMAIN files : \A k \in DOMAIN files[f] :
              files[f][k].type = "EPB" =>
                 Described(files[f], k) \/ (pcapng_passthrough /\ ~files[f][k].known)

\* When the parent is told of a file it can read a Section Header Block at its
\* start ("SHB is now ready for capture parent to read on SP_FILE message"),
\* and it is told of each file at most once and in order.
ReportedFileReadable ==
    /\ \A i \in DOMAIN told : files[told[i]] # << >> /\ files[told[i]][1].type = "SHB"
    /\ \A i, j \in DOMAIN told : i < j => told[i] < told[j]

\* The number of packets in a file, in all files, and counted to the parent.
PacketsIn(file) == Cardinality({k \in DOMAIN file : file[k].type = "EPB"})
PacketsWritten ==
    LET sum[i \in 0 .. Len(files)] == IF i = 0 THEN 0 ELSE sum[i - 1] + PacketsIn(files[i])
    IN  sum[Len(files)]
PacketsCounted ==
    LET sum[i \in 0 .. Len(counted)] == IF i = 0 THEN 0 ELSE sum[i - 1] + counted[i]
    IN  sum[Len(counted)]

\* Every packet written is counted to the parent once, none before the parent
\* knows of a file, and none is left out when the capture ends; unless the source
\* is passed through, whose later files are announced late or never, the counts
\* sent while a file was the current one are those of its own packets.
CountsReachParent ==
    /\ Len(counted) = Len(told) + 1 /\ counted[1] = 0
    /\ PacketsCounted + inpkts_to_sync_pipe = PacketsWritten
    /\ phase = "stopped" => inpkts_to_sync_pipe = 0
    /\ ~pcapng_passthrough =>
         \A i \in 1 .. Len(told) - 1 : counted[i + 1] = PacketsIn(files[told[i]])
=============================================================================
