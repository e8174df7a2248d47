----------------------------- MODULE RingBuffer -----------------------------
(***************************************************************************)
(* dumpcap's multiple-files output: the data structure of ringbuffer.c      *)
(* (rb_data) together with the calls dumpcap.c makes on it, in the order    *)
(* its capture loop makes them.  A file is identified by its generation,    *)
(* the value curr_file_num had when the file was named.  The path of a      *)
(* file is the number printed in its name and the time stamp printed in it; *)
(* the disk maps each path to the generation whose data is stored there.    *)
(***************************************************************************)
EXTENDS Integers, Sequences, FiniteSets

CONSTANTS
    Requests,      \* values the files: criterion may ask for; 0 is "not set"
    MaxNumFiles,   \* RINGBUFFER_MAX_NUM_FILES
    Times,         \* time stamps a file name may carry
    PrintNames,    \* is the printname: criterion given?
    Faults,        \* which calls may fail, see FaultKinds
    FileNumBound   \* bound on curr_file_num (an unsigned int in the code)

\* The failures ringbuffer.c and its callers have code for.
FaultKinds == {"open", "fdopen", "close", "unlink", "start", "printname"}

ASSUME RequestsAssumption == Requests \subseteq Nat
ASSUME MaxAssumption      == MaxNumFiles \in Nat \ {0}
ASSUME FaultsAssumption   == Faults \subseteq FaultKinds
ASSUME BoundAssumption    == FileNumBound \in Nat
ASSUME PrintAssumption    == PrintNames \in BOOLEAN

VARIABLES
    phase,          \* where capture_loop_start is in its use of the ring
    files,          \* rb_data.files: slot -> name; the empty function is NULL
    num_files,      \* rb_data.num_files
    unlimited,      \* rb_data.unlimited
    curr_file_num,  \* rb_data.curr_file_num
    fd,             \* rb_data.fd, "none" for -1
    pdh,            \* rb_data.pdh; "freed" is a pointer to a closed stream
    name_h,         \* rb_data.name_h; "closed" is a pointer to a closed FILE
    save_file,      \* capture_opts->save_file
    disk,           \* path -> generation stored there, or Absent
    printed,        \* generations whose name was written to name_h
    created,        \* history: generations whose file was really created
    stuck,          \* history: generations whose ws_unlink() failed
    misuse          \* history: handles used while not open, names freed twice

ring   == <<files, num_files, unlimited, curr_file_num>>
stream == <<fd, pdh, name_h>>
vars   == <<phase, files, num_files, unlimited, curr_file_num, fd, pdh,
            name_h, save_file, disk, printed, created, stuck, misuse>>

Absent == -1                  \* no file at this path
NullFile == -1                \* save_file is NULL
OwnFile  == -2                \* save_file is a string of its own
NoName == [gen |-> -1]        \* rb_file.name is NULL

Path == (0 .. MaxNumFiles - 1) \X Times

\* Mutant of FileNum: the number wraps one file too early.
FileNumOffByOne(g) == (g + 1) % (MaxNumFiles - 1)

\* The number printed in the name of generation g.
FileNum(g) == (g + 1) % MaxNumFiles
\* The path of the file a slot names.
PathOf(slot) == <<FileNum(slot.gen), slot.time>>

MayFail(kind, ok) == ok \/ kind \in Faults

ringbuf_is_initialized == DOMAIN files # {}

Index(g) == g % num_files

-----------------------------------------------------------------------------
(***************************************************************************)
(* Pieces of ringbuffer.c shared by the actions.                            *)
(***************************************************************************)

\* Mutant of AfterUnlink: the old file of a slot is not removed.
AfterNoUnlink(i, ok) == disk

\* What the disk is after ws_unlink() on the old name of slot i.
AfterUnlink(i, ok) ==
    IF files[i] # NoName /\ ~unlimited /\ ok
        THEN [disk EXCEPT ![PathOf(files[i])] = Absent]
        ELSE disk

\* ringbuf_open_file on the slot of generation g, named at time t.
ringbuf_open_file(g, t, opened, unlinked) ==
    LET i    == Index(g)
        slot == [gen |-> g, time |-> t]
        gone == AfterUnlink(i, unlinked)
    IN  /\ files' = [files EXCEPT ![i] = slot]
        /\ disk' = IF opened THEN [gone EXCEPT ![PathOf(slot)] = g] ELSE gone
        /\ created' = IF opened THEN created \cup {g} ELSE created
        /\ stuck' = IF files[i] # NoName /\ ~unlimited /\ ~unlinked
                        THEN stuck \cup {files[i].gen} ELSE stuck

\* Mutant of PrintCurrentName: the name is taken after curr_file_num++.
PrintNextName ==
    printed' = IF name_h = "NULL" THEN printed ELSE Append(printed, curr_file_num + 1)

\* fprintf(name_h, ringbuf_current_filename())
PrintCurrentName ==
    printed' = IF name_h = "NULL" THEN printed ELSE Append(printed, curr_file_num)

\* Mutant of ErrorCleanup: the names are freed before the files are unlinked.
ErrorCleanupFreesFirst(names, stream_ptr, name_ptr, unlinked) ==
    /\ files' = << >>
    /\ fd' = "none"
    /\ pdh' = "NULL"
    /\ name_h' = IF name_ptr = "NULL" THEN "NULL" ELSE "closed"
    /\ UNCHANGED <<disk, misuse>>

\* ringbuf_error_cleanup, closing what is open, with the ring's slots `names`.
ErrorCleanup(names, stream_ptr, name_ptr, unlinked) ==
    /\ disk' = [p \in Path |->
                  IF unlinked /\ \E i \in DOMAIN names :
                                    names[i] # NoName /\ PathOf(names[i]) = p
                      THEN Absent ELSE disk[p]]
    /\ files' = << >>
    /\ fd' = "none"
    /\ pdh' = "NULL"
    /\ name_h' = IF name_ptr = "NULL" THEN "NULL" ELSE "closed"
    /\ misuse' = misuse \cup (IF stream_ptr = "freed" THEN {"pdh"} ELSE {})
                        \cup (IF name_ptr = "closed" THEN {"name_h"} ELSE {})

-----------------------------------------------------------------------------
Init ==
    /\ phase = "start"
    /\ files = << >>
    /\ num_files = 1
    /\ unlimited = FALSE
    /\ curr_file_num = 0
    /\ fd = "none"
    /\ pdh = "NULL"
    /\ name_h = "NULL"
    /\ save_file = OwnFile
    /\ disk = [p \in Path |-> Absent]
    /\ printed = << >>
    /\ created = {}
    /\ stuck = {}
    /\ misuse = {}

\* Mutant of RingSize: the clamp to RINGBUFFER_MAX_NUM_FILES is missing.
RingSizeUnclamped(req) == IF req = 0 THEN 1 ELSE req

\* The sizes ringbuf_init computes from the number of files asked for.
RingSize(req) ==
    IF req = 0 THEN 1 ELSE IF req <= MaxNumFiles THEN req ELSE MaxNumFiles

\* ringbuf_init succeeds, and so does ringbuf_set_print_name.
OpenOutput(req, t) ==
    /\ phase = "start"
    /\ num_files' = RingSize(req)
    /\ unlimited' = (req = 0)
    /\ curr_file_num' = 0
    /\ LET slot == [gen |-> 0, time |-> t]
       IN  /\ files' = [i \in 0 .. RingSize(req) - 1 |->
                          IF i = 0 THEN slot ELSE NoName]
           /\ disk' = [disk EXCEPT ![PathOf(slot)] = 0]
    /\ fd' = "open"
    /\ pdh' = "NULL"
    /\ name_h' = IF PrintNames THEN "open" ELSE "NULL"
    /\ save_file' = 0
    /\ created' = {0}
    /\ phase' = "opened"
    /\ UNCHANGED <<printed, stuck, misuse>>

\* The first file cannot be created: ringbuf_init cleans up, the print file
\* is opened all the same, capture_loop_open_output cleans up again and so
\* does the error label of capture_loop_start.
OpenOutputFailsOnFile(req) ==
    /\ phase = "start"
    /\ "open" \in Faults
    /\ num_files' = RingSize(req)
    /\ unlimited' = (req = 0)
    /\ curr_file_num' = 0
    /\ \E name \in {"NULL", "open"} :
          /\ name = "open" => PrintNames
          /\ name = "NULL" => ~PrintNames \/ "printname" \in Faults
          /\ ErrorCleanup(<< >>, "NULL", IF name = "open" THEN "closed" ELSE name, TRUE)
    /\ phase' = "error"
    /\ UNCHANGED <<save_file, printed, created, stuck>>

\* The file for the names cannot be opened: the first file is removed again.
OpenOutputFailsOnPrintName(req, t, unlinked) ==
    /\ phase = "start"
    /\ PrintNames
    /\ "printname" \in Faults
    /\ MayFail("unlink", unlinked)
    /\ num_files' = RingSize(req)
    /\ unlimited' = (req = 0)
    /\ curr_file_num' = 0
    /\ files' = << >>
    /\ disk' = [disk EXCEPT ![PathOf([gen |-> 0, time |-> t])] =
                   IF unlinked THEN Absent ELSE 0]
    /\ created' = {0}
    /\ stuck' = IF unlinked THEN {} ELSE {0}
    /\ phase' = "error"
    /\ UNCHANGED <<fd, pdh, name_h, save_file, printed, misuse>>

\* capture_loop_init_output: the stream is set up and the header written.
InitOutput ==
    /\ phase = "opened"
    /\ pdh' = "open"
    /\ phase' = "running"
    /\ UNCHANGED <<ring, fd, name_h, save_file, disk, printed, created, stuck, misuse>>

\* capture_loop_init_output fails: in ws_cwstream_fdopen, or in writing the
\* header, where dumpcap closes the stream through its own pointer to it.
InitOutputFails(kind, unlinked) ==
    /\ phase = "opened"
    /\ kind \in {"fdopen", "start"} \cap Faults
    /\ MayFail("unlink", unlinked)
    /\ ErrorCleanup(files, IF kind = "start" THEN "freed" ELSE "NULL", name_h, unlinked)
    /\ stuck' = IF unlinked THEN stuck ELSE {0}
    /\ phase' = "error"
    /\ UNCHANGED <<num_files, unlimited, curr_file_num, save_file, printed, created>>

\* ringbuf_switch_file succeeds, and the header of the new file is written.
SwitchFile(t, unlinked) ==
    /\ phase = "running"
    /\ curr_file_num < FileNumBound
    /\ MayFail("unlink", unlinked)
    /\ PrintCurrentName
    /\ curr_file_num' = curr_file_num + 1
    /\ ringbuf_open_file(curr_file_num + 1, t, TRUE, unlinked)
    /\ save_file' = curr_file_num + 1
    /\ UNCHANGED <<phase, num_files, unlimited, fd, pdh, name_h, misuse>>

\* ws_cwstream_close() reports an error on the current file.
SwitchFailsOnClose ==
    /\ phase = "running"
    /\ "close" \in Faults
    /\ fd' = "none"
    /\ pdh' = "NULL"
    /\ phase' = "stopping"
    /\ UNCHANGED <<ring, name_h, save_file, disk, printed, created, stuck, misuse>>

\* The next file cannot be created (open), or it is and no stream can be made
\* for it (fdopen): curr_file_num and the slot have changed, save_file has not.
SwitchFailsOnOpen(kind, t, unlinked) ==
    /\ phase = "running"
    /\ curr_file_num < FileNumBound
    /\ kind \in {"open", "fdopen"} \cap Faults
    /\ MayFail("unlink", unlinked)
    /\ PrintCurrentName
    /\ curr_file_num' = curr_file_num + 1
    /\ ringbuf_open_file(curr_file_num + 1, t, kind = "fdopen", unlinked)
    /\ fd' = IF kind = "fdopen" THEN "open" ELSE "none"
    /\ pdh' = "NULL"
    /\ phase' = "stopping"
    /\ UNCHANGED <<num_files, unlimited, name_h, save_file, misuse>>

\* The switch succeeds but the header of the new file cannot be written:
\* do_file_switch_or_stop closes the stream through global_ld.pdh.
SwitchFailsOnStart(t, unlinked) ==
    /\ phase = "running"
    /\ curr_file_num < FileNumBound
    /\ "start" \in Faults
    /\ MayFail("unlink", unlinked)
    /\ PrintCurrentName
    /\ curr_file_num' = curr_file_num + 1
    /\ ringbuf_open_file(curr_file_num + 1, t, TRUE, unlinked)
    /\ save_file' = curr_file_num + 1
    /\ pdh' = "freed"
    /\ phase' = "stopping"
    /\ UNCHANGED <<num_files, unlimited, fd, name_h, misuse>>

\* After a switch that a packet count or file size asked for has failed, the
\* capture loop still ends its iteration: if the update interval is over it
\* flushes global_ld.pdh, which is NULL or the stream closed by the switch;
\* what that does is undefined.
FlushAfterFailedSwitch ==
    /\ phase = "stopping"
    /\ misuse' = misuse \cup {"pdh"}
    /\ phase' \in {"crashed", "stopping"}
    /\ UNCHANGED <<ring, stream, save_file, disk, printed, created, stuck>>

\* capture_loop_close_output, i.e. ringbuf_libpcap_dump_close.  A failing
\* close still leaves pdh and fd cleared.
CloseOutput ==
    /\ phase \in {"running", "stopping"}
    /\ misuse' = IF pdh = "freed" THEN misuse \cup {"pdh"} ELSE misuse
    /\ fd' = IF pdh = "NULL" THEN fd ELSE "none"
    /\ pdh' = "NULL"
    /\ PrintCurrentName
    /\ name_h' = IF name_h = "NULL" THEN "NULL" ELSE "closed"
    /\ save_file' = curr_file_num
    /\ phase' = "closed"
    /\ UNCHANGED <<ring, disk, created, stuck>>

\* do_cleanup: ringbuf_free() if the ring is initialized, and then save_file
\* is forgotten; otherwise capture_opts_cleanup() frees save_file, and a name of
\* the ring a second time.
Cleanup ==
    /\ phase \in {"closed", "error"}
    /\ files' = << >>
    /\ save_file' = NullFile
    /\ misuse' = IF ringbuf_is_initialized \/ save_file = NullFile THEN misuse
                 ELSE misuse \cup {"save_file"}
    /\ phase' = "done"
    /\ UNCHANGED <<num_files, unlimited, curr_file_num, stream, disk, printed, created, stuck>>

Start ==
    \E req \in Requests :
        \/ \E t \in Times :
              \/ OpenOutput(req, t)
              \/ \E unlinked \in BOOLEAN : OpenOutputFailsOnPrintName(req, t, unlinked)
        \/ OpenOutputFailsOnFile(req)

Switch ==
    \E t \in Times, unlinked \in BOOLEAN :
        \/ SwitchFile(t, unlinked)
        \/ \E kind \in {"open", "fdopen"} : SwitchFailsOnOpen(kind, t, unlinked)
        \/ SwitchFailsOnStart(t, unlinked)

Next ==
    \/ Start
    \/ InitOutput
    \/ \E kind \in {"fdopen", "start"}, unlinked \in BOOLEAN : InitOutputFails(kind, unlinked)
    \/ Switch
    \/ SwitchFailsOnClose
    \/ FlushAfterFailedSwitch
    \/ CloseOutput
    \/ Cleanup

Spec == Init /\ [][Next]_vars
-----------------------------------------------------------------------------
(***************************************************************************)
(* Properties.                                                              *)
(***************************************************************************)

InUse == phase \in {"opened", "running", "stopping", "closed"}

Slot == [gen : Nat, time : Times]

TypeOK ==
    /\ phase \in {"start", "opened", "running", "stopping", "closed", "error",
                "crashed", "done"}
    /\ num_files \in 1 .. MaxNumFiles
    /\ unlimited \in BOOLEAN
    /\ curr_file_num \in 0 .. FileNumBound
    /\ files \in [0 .. num_files - 1 -> Slot \cup {NoName}] \/ files = << >>
    /\ InUse => files \in [0 .. num_files - 1 -> Slot \cup {NoName}]
    /\ fd \in {"none", "open"}
    /\ pdh \in {"NULL", "open", "freed"}
    /\ name_h \in {"NULL", "open", "closed"}
    /\ save_file \in Int
    /\ disk \in [Path -> Int]
    /\ printed \in Seq(Nat)
    /\ created \subseteq 0 .. curr_file_num
    /\ stuck \subseteq 0 .. curr_file_num
    /\ misuse \subseteq {"pdh", "name_h", "save_file"}

\* How many of the newest files a capture can count on.  Without a files:
\* criterion nothing is removed, but the number in a name wraps around.
KeepSize == IF unlimited THEN MaxNumFiles ELSE num_files

\* The newest num_files files that were created are all on disk, each with its
\* own data: switching neither unlinks one of them nor truncates it by reusing
\* its name, whatever the clock shows and whichever call fails.
NewestKept ==
    InUse => \A g \in created :
                g > curr_file_num - KeepSize => \E p \in Path : disk[p] = g

\* A ring with a files: criterion leaves nothing else behind: what is on disk
\* is one of the newest num_files files, or its ws_unlink() failed.
RingBounded ==
    InUse /\ ~unlimited =>
        \A p \in Path : disk[p] # Absent =>
            disk[p] > curr_file_num - num_files \/ disk[p] \in stuck

\* With printname:, when the output is closed the name of every file of the
\* capture has been written exactly once and in order, whichever call failed.
EveryNamePrintedOnce ==
    phase = "closed" /\ PrintNames =>
        printed = [i \in 1 .. curr_file_num + 1 |-> i - 1]

\* A capture that could not be started leaves no file of the ring behind
\* (ringbuf_error_cleanup), unless ws_unlink() failed on it.
StartFailureLeavesNoFile ==
    phase = "error" =>
        \A p \in Path : disk[p] = Absent \/ disk[p] \in stuck

\* Strengthening of the two invariants above: a slot holds one of the newest
\* num_files generations, the one that belongs there; ...
SlotsCurrent ==
    InUse => \A i \in DOMAIN files : files[i] # NoName =>
                /\ files[i].gen \in 0 .. curr_file_num
                /\ files[i].gen > curr_file_num - num_files
                /\ Index(files[i].gen) = i

\* ... the newest files are found under the number their generation gives; ...
NewestNumbered ==
    InUse => \A g \in created :
                g > curr_file_num - KeepSize =>
                    \E t \in Times : disk[<<FileNum(g), t>>] = g

\* ... a file of a ring is named by the slot of its generation unless it is
\* stuck; and nothing is on disk before the first file is created.
OnDiskNamed ==
    /\ InUse /\ ~unlimited =>
         \A p \in Path : disk[p] # Absent /\ disk[p] \notin stuck =>
            /\ disk[p] \in 0 .. curr_file_num
            /\ files[Index(disk[p])] = [gen |-> disk[p], time |-> p[2]]
            /\ p[1] = FileNum(disk[p])
    /\ phase = "start" =>
         disk = [p \in Path |-> Absent] /\ stuck = {} /\ created = {}

RingInv == TypeOK /\ SlotsCurrent /\ NewestNumbered /\ OnDiskNamed
=============================================================================
