--------------------------- MODULE CaptureSession ---------------------------
(***************************************************************************)
(* A live capture as the GUI process sees it: the capture session that      *)
(* starts dumpcap and possibly an extcap program, follows dumpcap's messages *)
(* on the sync pipe, opens and reads the capture file while dumpcap writes   *)
(* it, and ends when both children are gone; and the main window, which      *)
(* starts, stops, restarts and closes captures.                             *)
(*                                                                          *)
(* The GUI process has one thread, so a callback is one action: it maps the  *)
(* state s of the process to another one, and so do the operators below.     *)
(* What dumpcap does inside is module CaptureLoop; here it is what its       *)
(* parent can notice.  A capture file is its index in disk.                  *)
(***************************************************************************)
EXTENDS Integers, Sequences, FiniteSets

CONSTANTS
    Configs,        \* the settings of the program, see ConfigType
    MaxCaptures,    \* bound on the captures started
    MaxPackets,     \* bound on the packets of a capture
    MaxFiles        \* bound on the files of a capture

Faults == {"fork", "start", "crash", "open"}

ConfigType ==
    [real_time_mode : BOOLEAN,      \* initially
     prefs : SUBSET BOOLEAN,        \* what the user may change it to
     multi_files_on : BOOLEAN,      \* -b
     named : BOOLEAN,               \* the user named a file (-w)
     extcap : BOOLEAN,              \* the interface is an extcap
     passthrough : BOOLEAN,         \* the only source is a pipe in pcapng format
     ask_unsaved : BOOLEAN,         \* prefs.gui_ask_unsaved
     faults : SUBSET Faults]

ASSUME ConfigsAssumption == Configs \subseteq ConfigType
ASSUME BoundsAssumption  ==
    MaxCaptures \in Nat /\ MaxPackets \in Nat /\ MaxFiles \in Nat \ {0}

VARIABLES
    cfg,        \* the settings, chosen once
    s,          \* the GUI process, see ParentType
    gui,        \* where the main window is in tryClosingCaptureFile
    child,      \* dumpcap
    pipe,       \* the sync pipe
    disk,       \* the capture files, in the order dumpcap created them
    captures    \* history: the captures started

vars == <<cfg, s, gui, child, pipe, disk, captures>>

-----------------------------------------------------------------------------
(* The state of the GUI process: capture_session, the capture_options that   *)
(* change, the capture_file, the extcap of the interface and the menus.      *)

ParentType ==
    [state : {"STOPPED", "PREPARING", "RUNNING"},
     count : Nat,                \* packets dumpcap reported
     count_pending : Nat,
     fork_child : BOOLEAN,       \* # WS_INVALID_PID
     watch : BOOLEAN,            \* the sync pipe is watched
     real_time_mode : BOOLEAN,
     save_file : {"NULL", "user", "temp", "ring"},
     restart : BOOLEAN,
     stop_after_extcaps : BOOLEAN,
     cf : {"CLOSED", "PENDING", "IN_PROGRESS", "ABORTED", "DONE"},
     filename : Nat,             \* the file cf is open on, 0 if none
     newest : Nat,               \* the file save_file names
     is_tempfile : BOOLEAN,
     read : Nat,                 \* cf->count
     told : Nat,                 \* history: packets reported for newest
     drops : Nat,                \* the capture whose drops cf has, 0: not known
     unlinked : SUBSET Nat,      \* files removed
     pid : BOOLEAN,              \* extcap_pid # WS_INVALID_PID
     io : BOOLEAN,               \* some watch of the extcap's pipes is left
     extcap_alive : BOOLEAN,     \* the extcap process runs
     killed : BOOLEAN,           \* it was sent SIGKILL
     terminate_id : BOOLEAN,     \* extcap_terminate_id: the timer runs
     wait_cbs : BOOLEAN,         \* wait_for_extcap_cbs
     signalled : BOOLEAN,        \* dumpcap was sent SIGINT or SIGTERM just now
     start_enabled : BOOLEAN,    \* actionCaptureStart
     stop_enabled : BOOLEAN,     \* actionCaptureStop, actionCaptureRestart
     stopping : BOOLEAN,         \* capture_stopping_
     ok : BOOLEAN]               \* no assertion failed, no NULL was used

InitParent ==
    [state |-> "STOPPED", count |-> 0, count_pending |-> 0, fork_child |-> FALSE,
     watch |-> FALSE, real_time_mode |-> cfg.real_time_mode,
     save_file |-> IF cfg.named THEN "user" ELSE "NULL",
     restart |-> FALSE, stop_after_extcaps |-> FALSE, cf |-> "CLOSED",
     filename |-> 0, newest |-> 0, is_tempfile |-> FALSE, read |-> 0,
     told |-> 0, drops |-> 0, unlinked |-> {},
     pid |-> FALSE, io |-> FALSE, extcap_alive |-> FALSE, killed |-> FALSE,
     terminate_id |-> FALSE, wait_cbs |-> FALSE, signalled |-> FALSE,
     start_enabled |-> TRUE, stop_enabled |-> FALSE,
     stopping |-> FALSE, ok |-> TRUE]

ws_assert(p, condition) == [p EXCEPT !.ok = @ /\ condition]

setMenusForCaptureInProgress(p, yes) ==
    [p EXCEPT !.start_enabled = ~yes, !.stop_enabled = yes]

\* The callbacks capture_update_finished, capture_fixed_finished and
\* capture_failed.
CaptureFinished(p) ==
    [setMenusForCaptureInProgress(p, FALSE) EXCEPT !.stopping = FALSE]

\* capFile(): the file the main window can work with.
HasCapFile(p) == p.cf \notin {"CLOSED", "PENDING"}

Least(a, b) == IF a < b THEN a ELSE b

-----------------------------------------------------------------------------
(* The capture file.                                                         *)

cf_close(p) ==
    IF HasCapFile(p)
    THEN [ws_assert(p, p.cf # "IN_PROGRESS")
            EXCEPT !.cf = "CLOSED", !.filename = 0, !.read = 0,
                   !.unlinked = @ \cup (IF p.is_tempfile THEN {p.filename} ELSE {})]
    ELSE p

\* cf_open() that succeeds; one that fails changes nothing.
cf_open(p) ==
    [cf_close(p) EXCEPT !.cf = "IN_PROGRESS", !.filename = p.newest, !.drops = 0]

\* Mutant: read up to the end of the file instead of what was reported.
ContinueToEnd(p, to_read) ==
    IF p.cf = "IN_PROGRESS" THEN [p EXCEPT !.read = disk[p.filename].pkts]
    ELSE ws_assert(p, HasCapFile(p))

cf_continue_tail(p, to_read) ==
    IF p.cf = "IN_PROGRESS"
    THEN [p EXCEPT !.read = Least(@ + to_read, disk[p.filename].pkts)]
    ELSE ws_assert(p, HasCapFile(p))

cf_fake_continue_tail(p) == [p EXCEPT !.cf = IF @ = "CLOSED" THEN "PENDING" ELSE @]

cf_finish_tail(p) ==
    IF p.cf = "ABORTED" THEN cf_close(p)
    ELSE [p EXCEPT !.read = disk[p.filename].pkts, !.cf = "DONE"]

\* cf_read(), which the user does not abort.
cf_read(p) == [p EXCEPT !.read = disk[p.filename].pkts, !.cf = "DONE"]

-----------------------------------------------------------------------------
(* dumpcap and the extcap, as the process signals them.                      *)

\* Mutant: the check for a child is inverted.
StopNoChild(p) == [p EXCEPT !.signalled = @ \/ ~p.fork_child]

\* kill() of dumpcap with SIGINT (sync_pipe_stop) or SIGTERM (sync_pipe_kill).
sync_pipe_stop(p) == [p EXCEPT !.signalled = @ \/ p.fork_child]

sync_pipe_kill(p) == sync_pipe_stop(p)

\* extcap_session_stop() is TRUE when the extcap is gone; it then forgets the
\* timer.
ExtcapGone(p) == ~p.pid /\ ~p.io
extcap_session_stop(p) ==
    IF ExtcapGone(p) THEN [p EXCEPT !.wait_cbs = FALSE, !.terminate_id = FALSE] ELSE p

\* SIGTERM, which the extcap may ignore, and the timer.
extcap_request_stop(p) ==
    IF p.terminate_id \/ p.wait_cbs THEN p
    ELSE IF ExtcapGone(p) THEN extcap_session_stop(p)
    ELSE [p EXCEPT !.terminate_id = TRUE]

capture_stop(p) ==
    LET q == [p EXCEPT !.stop_enabled = FALSE, !.stopping = TRUE]
    IN  IF ExtcapGone(q) THEN sync_pipe_stop(extcap_session_stop(q))
        ELSE [extcap_request_stop(q) EXCEPT !.stop_after_extcaps = TRUE]

-----------------------------------------------------------------------------
(* What dumpcap reports.  opens: does cf_open() succeed?                     *)

\* The file that is being captured to is finished: dumpcap goes on with another.
FinishOldFile(p) ==
    IF p.save_file = "NULL" \/ p.cf = "CLOSED" THEN p
    ELSE IF p.cf = "PENDING" THEN CaptureFinished(p)
    ELSE cf_close(cf_finish_tail(CaptureFinished(p)))

\* Mutant: is_tempfile is not reset for a file the user named.
NewFileAlwaysTemp(p, file, opens) ==
    LET named == [FinishOldFile(p) EXCEPT !.is_tempfile = TRUE, !.newest = file,
                    !.save_file = disk[file].kind, !.told = 0, !.state = "RUNNING"]
    IN  setMenusForCaptureInProgress(
          IF p.real_time_mode THEN cf_open(named)
          ELSE [named EXCEPT !.count_pending = 0], TRUE)

\* Refused (a file that cannot be opened) is the emergency brake of
\* sync_pipe_input_cb(), see InputFile.
capture_input_new_file(p, file, opens) ==
    LET old   == FinishOldFile(ws_assert(p, p.state \in {"PREPARING", "RUNNING"}))
        named == [old EXCEPT !.is_tempfile = (p.save_file = "NULL"),
                             !.save_file = disk[file].kind,
                             !.newest = file, !.told = 0]
    IN  IF ~p.real_time_mode
        THEN [setMenusForCaptureInProgress(named, TRUE)
                EXCEPT !.count_pending = 0, !.state = "RUNNING"]
        ELSE IF opens
        THEN [setMenusForCaptureInProgress(cf_open(named), TRUE)
                EXCEPT !.state = "RUNNING"]
        ELSE [named EXCEPT !.save_file = "NULL"]

capture_input_new_packets(p, n, opens) ==
    LET a == ws_assert([p EXCEPT !.count = @ + n, !.told = @ + n],
                       p.save_file # "NULL")
        b == IF a.cf # "PENDING" THEN a
             ELSE setMenusForCaptureInProgress(
                    IF opens THEN cf_open(a)
                    ELSE sync_pipe_kill([a EXCEPT !.save_file = "NULL"]), TRUE)
        c == cf_continue_tail([b EXCEPT !.count_pending = 0], n + b.count_pending)
    IN  IF ~a.real_time_mode
        THEN [cf_fake_continue_tail(a) EXCEPT !.count_pending = @ + n]
        ELSE IF c.cf = "ABORTED" THEN sync_pipe_kill(c) ELSE c

capture_input_drops(p) ==
    [ws_assert(p, p.state = "RUNNING") EXCEPT !.drops = captures]

capture_input_error(p) == ws_assert(p, p.state \in {"PREPARING", "RUNNING"})

\* "No packets captured": the file is closed again.
NoPackets(p) == IF p.count = 0 /\ ~p.restart THEN cf_close(p) ELSE p

\* Mutant: the drops are stored before cf_open(), which clears them.
ReadAllDropsFirst(p, opens) == IF opens THEN NoPackets(cf_read(cf_open(p))) ELSE p

\* capture_input_read_all(): the drops stored so far survive cf_open().
capture_input_read_all(p, opens) ==
    IF opens
    THEN NoPackets(cf_read([cf_open(p) EXCEPT !.drops = p.drops]))
    ELSE p

\* The capture is over: read what is left of the file.
ReadRest(p, opens) ==
    IF p.state = "PREPARING" THEN p
    ELSE IF p.cf = "IN_PROGRESS" THEN NoPackets(cf_finish_tail(p))
    ELSE IF p.cf # "PENDING" THEN cf_close(p)
    ELSE IF p.save_file # "NULL" THEN capture_input_read_all(p, opens) ELSE p

\* The name the next capture is saved to.
NextSaveFile(p) ==
    IF cfg.multi_files_on /\ cfg.named
    THEN IF p.restart /\ p.is_tempfile THEN "NULL" ELSE "user"
    ELSE IF p.restart /\ ~p.is_tempfile THEN p.save_file ELSE "NULL"

capture_input_closed(p, opens) ==
    LET a == ReadRest(ws_assert(p, p.state \in {"PREPARING", "RUNNING"}), opens)
        b == [CaptureFinished(a) EXCEPT !.state = "STOPPED"]
    IN  IF b.save_file = "NULL" THEN cf_close(b)
        ELSE [b EXCEPT !.restart = FALSE, !.save_file = NextSaveFile(b)]

\* Mutant: the session is closed although dumpcap still runs.
FinishedTooEarly(p, opens) ==
    LET q == extcap_session_stop(p) IN
    IF ExtcapGone(q) THEN capture_input_closed(q, opens) ELSE q

\* Mutant: dumpcap is not told to stop once the extcaps are gone.
FinishedForgetsStop(p, opens) ==
    LET q == extcap_session_stop(p) IN
    IF ~ExtcapGone(q) \/ q.fork_child THEN q
    ELSE [capture_input_closed(q, opens) EXCEPT !.stop_after_extcaps = FALSE]

\* The session is over once the extcap and dumpcap are gone.
capture_process_finished(p, opens) ==
    LET q == extcap_session_stop(p) IN
    IF ~ExtcapGone(q) THEN q
    ELSE IF q.fork_child
    THEN IF q.stop_after_extcaps
         THEN sync_pipe_stop([q EXCEPT !.stop_after_extcaps = FALSE]) ELSE q
    ELSE [capture_input_closed(q, opens) EXCEPT !.stop_after_extcaps = FALSE]

\* extcap_terminate_cb(): the extcap had its time.
extcap_terminate_cb(p, opens) ==
    LET q == [p EXCEPT !.killed = @ \/ p.pid, !.io = FALSE, !.wait_cbs = TRUE,
                       !.terminate_id = FALSE]
    IN  IF p.pid THEN q ELSE capture_process_finished(q, opens)

extcap_watch_removed(p, opens) ==
    IF ExtcapGone(p) THEN capture_process_finished(p, opens) ELSE p

-----------------------------------------------------------------------------
(* dumpcap: "exec" until its signal handler is installed, "setup" until the   *)
(* capture loop sets global_ld.go, "open" until the output file is there,     *)
(* "run" while it captures, "done" once the file is closed.  A source in       *)
(* pcapng format is passed through: its section headers too.                   *)

ChildType ==
    [phase : {"none", "exec", "setup", "open", "run", "done", "exited"},
     go : BOOLEAN, unsent : Nat, pkts : Nat, files : Nat,
     section : BOOLEAN,          \* a section header was written
     delayed : Nat,              \* report_capture_filename, 0 if NULL
     kind : {"temp", "user", "ring"}, by : {"start", "restart"},
     crashed : BOOLEAN]

MessageType ==
    [type : {"FILE"}, file : Nat] \cup [type : {"COUNT"}, n : Nat] \cup
    [type : {"DROPS", "ERROR"}]

\* capture_cleanup_handler(); before it is installed a signal kills, and what it
\* does to go before the capture loop starts is lost.
Signalled(c) ==
    CASE c.phase = "exec" -> [c EXCEPT !.phase = "exited", !.crashed = TRUE]
      [] c.phase \in {"open", "run"} -> [c EXCEPT !.go = FALSE]
      [] OTHER -> c

Send(msgs) == pipe' = pipe \o msgs

\* report_packet_count() of what was not reported yet.
Counted(c) == IF c.unsent > 0 THEN <<[type |-> "COUNT", n |-> c.unsent]>> ELSE <<>>

\* The program runs: no assertion failed and the window is there.
Running == s.ok /\ gui.pc # "quit"

ChildStep(c) == Running /\ child' = c /\ UNCHANGED <<cfg, s, gui, captures>>

\* main() installs the handler, capture_loop_start() sets go.
ChildBoot ==
    /\ child.phase \in {"exec", "setup"}
    /\ ChildStep([child EXCEPT !.phase = IF @ = "exec" THEN "setup" ELSE "open",
                               !.go = (child.phase = "setup")])
    /\ UNCHANGED <<pipe, disk>>

\* A new file is there.  report_new_capture_file() tells the parent at once, or,
\* of a source that is passed through, with its next section header.
NewOutput ==
    /\ disk' = Append(disk, [kind |-> child.kind, by |-> child.by, pkts |-> 0])
    /\ Send(Counted(child) \o
            IF cfg.passthrough THEN <<>> ELSE <<[type |-> "FILE", file |-> Len(disk) + 1]>>)

Delayed == IF cfg.passthrough THEN Len(disk) + 1 ELSE 0

\* capture_loop_open_output() and report_new_capture_file().
ChildOpenOutput ==
    /\ child.phase = "open"
    /\ NewOutput
    /\ ChildStep([child EXCEPT !.phase = "run", !.files = 1, !.delayed = Delayed,
                               !.section = ~cfg.passthrough])

\* capture_loop_write_pcapng_cb() of a section header: "SHB is now ready for
\* capture parent to read on SP_FILE message".
ChildPassesSection ==
    /\ child.phase = "run" /\ child.go /\ child.delayed # 0
    /\ Send(<<[type |-> "FILE", file |-> child.delayed]>>)
    /\ ChildStep([child EXCEPT !.delayed = 0, !.section = TRUE])
    /\ UNCHANGED disk

\* The error path of capture_loop_start().
ChildFailsToStart ==
    /\ "start" \in cfg.faults
    /\ child.phase = "open"
    /\ Send(<<[type |-> "ERROR"]>>)
    /\ ChildStep([child EXCEPT !.phase = "exited"])
    /\ UNCHANGED disk

ChildWritesPacket ==
    /\ child.phase = "run" /\ child.go /\ child.section /\ child.pkts < MaxPackets
    /\ disk' = [disk EXCEPT ![Len(disk)].pkts = @ + 1]
    /\ ChildStep([child EXCEPT !.pkts = @ + 1, !.unsent = @ + 1])
    /\ UNCHANGED pipe

ChildReports ==
    /\ child.phase = "run" /\ child.unsent > 0
    /\ Send(Counted(child))
    /\ ChildStep([child EXCEPT !.unsent = 0])
    /\ UNCHANGED disk

\* do_file_switch_or_stop() in multiple files mode.
ChildSwitchesFile ==
    /\ child.phase = "run" /\ child.go
    /\ cfg.multi_files_on /\ child.files < MaxFiles
    /\ NewOutput
    /\ ChildStep([child EXCEPT !.unsent = 0, !.files = @ + 1, !.delayed = Delayed])

\* A stop condition of the capture, or the end of a capture pipe.
ChildStops ==
    /\ child.phase = "run" /\ child.go
    /\ ChildStep([child EXCEPT !.go = FALSE])
    /\ UNCHANGED <<pipe, disk>>

\* The end of capture_loop_start(): the file is closed, the last count is sent,
\* then the drops.
ChildClosesOutput ==
    /\ child.phase = "run" /\ ~child.go
    /\ Send(Counted(child))
    /\ ChildStep([child EXCEPT !.phase = "done", !.unsent = 0])
    /\ UNCHANGED disk

ChildExits ==
    /\ child.phase = "done"
    /\ Send(<<[type |-> "DROPS"]>>)
    /\ ChildStep([child EXCEPT !.phase = "exited"])
    /\ UNCHANGED disk

ChildCrashes ==
    /\ "crash" \in cfg.faults
    /\ child.phase \in {"setup", "open", "run", "done"}
    /\ ChildStep([child EXCEPT !.phase = "exited", !.crashed = TRUE])
    /\ UNCHANGED <<pipe, disk>>

-----------------------------------------------------------------------------
(* The callbacks of the GUI process.                                         *)

\* The process is in state p now, and the signal it sent has arrived.
Becomes(p) ==
    /\ Running
    /\ s' = [p EXCEPT !.signalled = FALSE]
    /\ child' = IF p.signalled THEN Signalled(child) ELSE child
    /\ UNCHANGED <<cfg, disk, captures>>

\* cf_open() fails only where the settings let it.
Opens == {TRUE} \cup (IF "open" \in cfg.faults THEN {FALSE} ELSE {})

Receives(type) == s.watch /\ pipe # <<>> /\ Head(pipe).type = type

\* sync_pipe_input_cb(): one message at a time.  A file that cannot be opened
\* is the emergency brake: dumpcap is told to stop and is not listened to any
\* more.
InputFile ==
    /\ Receives("FILE")
    /\ \E opens \in Opens :
         LET p == capture_input_new_file(s, Head(pipe).file, opens) IN
         IF p.save_file = "NULL"
         THEN Becomes([capture_input_closed(sync_pipe_stop(p), opens)
                         EXCEPT !.watch = FALSE])
         ELSE Becomes(p)
    /\ pipe' = Tail(pipe)
    /\ UNCHANGED gui

InputPacketCount ==
    /\ Receives("COUNT")
    /\ \E opens \in Opens :
         Becomes(capture_input_new_packets(s, Head(pipe).n, opens))
    /\ pipe' = Tail(pipe)
    /\ UNCHANGED gui

InputDrops ==
    /\ Receives("DROPS")
    /\ Becomes(capture_input_drops(s))
    /\ pipe' = Tail(pipe)
    /\ UNCHANGED gui

InputError ==
    /\ Receives("ERROR")
    /\ Becomes(capture_input_error(s))
    /\ pipe' = Tail(pipe)
    /\ UNCHANGED gui

\* The sync pipe is closed: dumpcap is reaped.
InputEnd ==
    /\ s.watch /\ pipe = <<>> /\ child.phase = "exited"
    /\ LET p == [s EXCEPT !.fork_child = FALSE, !.watch = FALSE] IN
       IF ExtcapGone(p)
       THEN \E opens \in Opens : Becomes(capture_process_finished(p, opens))
       ELSE Becomes(extcap_request_stop(p))
    /\ UNCHANGED <<gui, pipe>>

\* The extcap exits: by itself, on SIGTERM or on SIGKILL.
ExtcapExits ==
    /\ Running /\ s.extcap_alive
    /\ s' = [s EXCEPT !.extcap_alive = FALSE]
    /\ UNCHANGED <<cfg, gui, child, pipe, disk, captures>>

extcap_child_watch_cb ==
    /\ s.pid /\ ~s.extcap_alive
    /\ \E opens \in Opens : Becomes(extcap_watch_removed([s EXCEPT !.pid = FALSE], opens))
    /\ UNCHANGED <<gui, pipe>>

\* The last of its pipes is closed; a process it left behind may keep them open.
ExtcapPipesClosed ==
    /\ s.io /\ ~s.extcap_alive
    /\ \E opens \in Opens : Becomes(extcap_watch_removed([s EXCEPT !.io = FALSE], opens))
    /\ UNCHANGED <<gui, pipe>>

TerminateTimer ==
    /\ s.terminate_id
    /\ \E opens \in Opens : Becomes(extcap_terminate_cb(s, opens))
    /\ UNCHANGED <<gui, pipe>>

-----------------------------------------------------------------------------
(* The main window.  While it is in tryClosingCaptureFile() its own event     *)
(* loops run the callbacks above: in the dialog that asks about unsaved       *)
(* packets, and in captureStop(), before ("save") and after ("close") that.   *)

GuiType == [pc : {"idle", "dialog", "save", "close", "quit"},
            context : {"start", "restart", "quit"},
            capture_in_progress : BOOLEAN]

\* The options of the dumpcap that capture_start() runs: -w with the save file,
\* if there is one, and -b.
NewChild(p) ==
    [phase |-> "exec", go |-> FALSE, unsent |-> 0, pkts |-> 0, files |-> 0,
     section |-> FALSE, delayed |-> 0,
     kind |-> IF p.save_file = "NULL" THEN "temp"
              ELSE IF cfg.multi_files_on THEN "ring" ELSE "user",
     by |-> IF gui'.context = "restart" THEN "restart" ELSE "start",
     crashed |-> FALSE]

\* sync_pipe_start() starts the extcap, then dumpcap.
capture_start(p, forks) ==
    LET q == [p EXCEPT !.state = "PREPARING", !.count = 0, !.fork_child = FALSE,
                       !.pid = cfg.extcap, !.io = cfg.extcap,
                       !.extcap_alive = cfg.extcap, !.killed = FALSE]
    IN  IF forks
        THEN [setMenusForCaptureInProgress(q, TRUE)
                EXCEPT !.fork_child = TRUE, !.watch = TRUE]
        ELSE [q EXCEPT !.save_file = "NULL", !.state = "STOPPED"]

startCapture(p) ==
    /\ Running
    /\ IF p.state # "STOPPED" \/ captures = MaxCaptures
       THEN s' = p /\ UNCHANGED <<child, pipe, captures>>
       ELSE \E forks \in {TRUE} \cup (IF "fork" \in cfg.faults THEN {FALSE} ELSE {}) :
              /\ s' = capture_start(cf_close(p), forks)
              /\ IF forks
                 THEN /\ child' = NewChild(p) /\ pipe' = <<>>
                      /\ captures' = captures + 1
                 ELSE UNCHANGED <<child, pipe, captures>>
    /\ UNCHANGED <<cfg, disk>>

At(pc, context, capture_in_progress) ==
    gui' = [pc |-> pc, context |-> context, capture_in_progress |-> capture_in_progress]

\* tryClosingCaptureFile() returned TRUE.
Closed(p, context) ==
    IF context = "quit"
    THEN At("quit", context, FALSE) /\ Becomes(p) /\ UNCHANGED pipe
    ELSE At("idle", context, FALSE) /\ startCapture(p)

\* captureStop() without the loop that follows.
captureStop(p, discard) ==
    capture_stop(IF discard /\ HasCapFile(p) THEN [p EXCEPT !.cf = "ABORTED"] ELSE p)

\* The file is closed, unless it is to be captured to again.
CloseFile(p, context) ==
    Closed(IF context = "restart" THEN p ELSE cf_close(p), context)

\* do_close_file; capture_in_progress is what it was when the window asked.
DoCloseFile(p, context, capture_in_progress) ==
    IF capture_in_progress
    THEN /\ At("close", context, TRUE)
         /\ Becomes(captureStop(p, TRUE)) /\ UNCHANGED pipe
    ELSE CloseFile(p, context)

tryClosingCaptureFile(p, context) ==
    LET capture_in_progress == p.cf = "IN_PROGRESS" /\ p.state # "STOPPED"
    IN  IF ~HasCapFile(p) THEN Closed(p, context)
        ELSE IF cfg.ask_unsaved /\ p.is_tempfile /\ p.read > 0
        THEN At("dialog", context, capture_in_progress) /\ Becomes(p) /\ UNCHANGED pipe
        ELSE DoCloseFile(p, context, capture_in_progress)

ClickStart ==
    /\ gui.pc = "idle" /\ s.start_enabled /\ captures < MaxCaptures
    /\ tryClosingCaptureFile(s, "start")

ClickStop ==
    /\ gui.pc = "idle" /\ s.stop_enabled
    /\ Becomes(capture_stop(s))
    /\ UNCHANGED <<gui, pipe>>

ClickRestart ==
    /\ gui.pc = "idle" /\ s.stop_enabled /\ captures < MaxCaptures
    /\ tryClosingCaptureFile([s EXCEPT !.restart = TRUE], "restart")

\* closeEvent(): the window is closed.
CloseWindow ==
    /\ gui.pc = "idle" /\ ~s.stopping
    /\ tryClosingCaptureFile(s, "quit")

\* The user answers the dialog.
Cancel ==
    /\ gui.pc = "dialog"
    /\ At("idle", gui.context, FALSE)
    /\ Becomes(s) /\ UNCHANGED pipe

Discard ==
    /\ gui.pc = "dialog"
    /\ DoCloseFile(s, gui.context, gui.capture_in_progress)

\* saveCaptureFile(): the user saves, or cancels the choice of a file.
SaveFile ==
    \/ DoCloseFile(s, gui.context, gui.capture_in_progress)
    \/ HasCapFile(s) /\ At("idle", gui.context, FALSE) /\ Becomes(s) /\ UNCHANGED pipe

Save ==
    /\ gui.pc = "dialog"
    /\ IF gui.capture_in_progress
       THEN /\ At("save", gui.context, TRUE)
            /\ Becomes(captureStop(s, FALSE)) /\ UNCHANGED pipe
       ELSE SaveFile

\* The loop of captureStop() ends when the file is read or closed.
StopLoopEnds == s.cf \notin {"IN_PROGRESS", "ABORTED"}

SaveStopped ==
    /\ gui.pc = "save" /\ StopLoopEnds
    /\ SaveFile

CloseStopped ==
    /\ gui.pc = "close" /\ StopLoopEnds
    /\ CloseFile(s, gui.context)

\* prefs_to_capture_opts(), after the preferences dialog.
ChangePreference ==
    /\ gui.pc = "idle"
    /\ \E mode \in cfg.prefs :
         /\ mode # s.real_time_mode
         /\ Becomes([s EXCEPT !.real_time_mode = mode])
    /\ UNCHANGED <<gui, pipe>>

-----------------------------------------------------------------------------

Init ==
    /\ cfg \in Configs
    /\ s = InitParent
    /\ gui = [pc |-> "idle", context |-> "start", capture_in_progress |-> FALSE]
    /\ child = [phase |-> "none", go |-> FALSE, unsent |-> 0, pkts |-> 0,
                files |-> 0, section |-> FALSE, delayed |-> 0, kind |-> "temp", by |-> "start", crashed |-> FALSE]
    /\ pipe = <<>> /\ disk = <<>> /\ captures = 0

ChildAction ==
    \/ ChildBoot \/ ChildOpenOutput \/ ChildFailsToStart \/ ChildPassesSection
    \/ ChildWritesPacket \/ ChildReports \/ ChildSwitchesFile \/ ChildStops \/ ChildClosesOutput
    \/ ChildExits \/ ChildCrashes

InputAction == InputFile \/ InputPacketCount \/ InputDrops \/ InputError \/ InputEnd

ExtcapAction ==
    \/ ExtcapExits \/ extcap_child_watch_cb \/ ExtcapPipesClosed \/ TerminateTimer

UserAction ==
    \/ ClickStart \/ ClickStop \/ ClickRestart \/ CloseWindow
    \/ Cancel \/ Discard \/ Save \/ ChangePreference

Next ==
    \/ ChildAction \/ InputAction \/ ExtcapAction
    \/ UserAction \/ SaveStopped \/ CloseStopped

\* The event loop serves every source; dumpcap starts, and ends once it is told
\* to; the operating system ends a process on SIGKILL.  Nothing is assumed of
\* the user, of the packets or of what an extcap does on SIGTERM.
Fairness ==
    /\ WF_vars(InputAction)
    /\ WF_vars((SaveStopped \/ CloseStopped))
    /\ WF_vars(TerminateTimer)
    /\ WF_vars(extcap_child_watch_cb)
    /\ WF_vars(s.killed /\ ExtcapExits)
    /\ WF_vars((ChildBoot \/ ChildOpenOutput))
    /\ WF_vars((ChildClosesOutput \/ ChildExits))

Spec == Init /\ [][Next]_vars /\ Fairness

-----------------------------------------------------------------------------
(* Properties.                                                               *)

\* dumpcap opened its output and has ended, but the source it passes through had
\* not sent its section header: the parent was told of no file.
EndedUnannounced ==
    cfg.passthrough /\ child.phase = "exited" /\ child.files > 0 /\ ~child.section

\* No assertion of the session fails and no file is read that is not open,
\* whatever order the messages of dumpcap, the ends of dumpcap and the extcap,
\* the timer and the user come in (the ws_assert()s of ui/capture.c and cf_close()),
\* but for a capture that ends before its source, which is passed through, has
\* sent a section header (DropsWhileRunning); and everything keeps its type.
AssertionsHold ==
    /\ s \in ParentType /\ gui \in GuiType /\ child \in ChildType
    /\ \A i \in DOMAIN pipe : pipe[i] \in MessageType
    /\ s.ok \/ (EndedUnannounced /\ s.state = "PREPARING")

\* The drops are reported only while the capture is RUNNING: the assertion of
\* capture_input_drops().
DropsWhileRunning == Receives("DROPS") => s.state = "RUNNING"

\* What is shown when a capture is over is all of the last file dumpcap wrote,
\* and, unless dumpcap died, with every packet of the capture counted and with
\* the drops of this capture and not of an earlier one (capture_input_closed()).
\* Of a source that is passed through the last file may be one that dumpcap never
\* told the parent of (report_capture_filename is still set); then an earlier
\* file of the capture is shown, also to its end.
WholeCaptureShown ==
    s.state = "STOPPED" /\ s.cf = "DONE" =>
        /\ s.filename # Len(disk) =>
             /\ cfg.passthrough /\ child.delayed = Len(disk)
             /\ s.filename \in Len(disk) - child.files + 1 .. Len(disk)
        /\ s.read = disk[s.filename].pkts
        /\ ~child.crashed => s.count = child.pkts /\ s.drops = captures

\* While dumpcap writes a file, no record is read from it that dumpcap has not
\* reported and thus flushed (cf_continue_tail()).
ReadsWhatWasReported ==
    s.state = "RUNNING" /\ s.cf = "IN_PROGRESS" => s.read <= s.told

\* Only temporary files are removed when a capture file is closed: never one
\* the user named (cf_close(), is_tempfile across capture_input_new_file()).
UserFilesKept == \A i \in s.unlinked : disk[i].kind = "temp"

\* A capture is over only when dumpcap is gone or, after the emergency brake,
\* when it was told to stop; and no extcap is left that nobody will stop.
NothingLeftRunning ==
    s.state = "STOPPED" =>
        /\ child.phase = "run" => ~child.go
        /\ "open" \notin cfg.faults => ~s.extcap_alive /\ child.phase \in {"none", "exited"}

\* A capture that runs and is told to stop comes to its end, even when the
\* extcap ignores SIGTERM and leaves its pipes open.
StopEndsSession ==
    s.state = "RUNNING" /\ ~s.stop_enabled ~> (s.state = "STOPPED" \/ gui.pc = "quit")

\* A capture that is started with the Start button after one to a permanent file
\* goes to a temporary file: the permanent one is not overwritten.
PermanentFileKept ==
    \A i, j \in DOMAIN disk :
        i < j /\ disk[i].kind = "user" /\ disk[j].by = "start" => disk[j].kind # "user"

=============================================================================
