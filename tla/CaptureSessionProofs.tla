------------------------ MODULE CaptureSessionProofs ------------------------
(***************************************************************************)
(* What holds of a capture session for all settings but two, any number of  *)
(* captures, packets and files, and every order of dumpcap's messages, the   *)
(* ends of the processes, the timer of the extcap and the user.              *)
(***************************************************************************)
EXTENDS CaptureSession, SequenceTheorems, TLAPS

-----------------------------------------------------------------------------
(* The settings the theorems are about, and the inductive invariant.         *)

\* Real time mode is not switched on during a capture, and no extcap is
\* started for a dumpcap that cannot be.  See the README for what happens
\* otherwise.
CoveredSettings ==
    /\ TRUE \notin cfg.prefs
    /\ ~(cfg.extcap /\ "fork" \in cfg.faults)

FileType == [kind : {"temp", "user", "ring"}, by : {"start", "restart"}, pkts : Nat]

\* The capture file that is open is the newest one; a file is marked as
\* temporary only if it is, and only such files were removed.
FilesInv(p, d) ==
    /\ p.cf \in {"CLOSED", "PENDING"} => p.read = 0
    /\ HasCapFile(p) => p.filename = p.newest /\ p.newest \in 1 .. Len(d)
    /\ p.is_tempfile => p.newest \in 1 .. Len(d) /\ d[p.newest].kind = "temp"
    /\ \A i \in p.unlinked : i \in 1 .. Len(d) /\ d[i].kind = "temp"

\* What is open and how far it is read, in each state of the session.
ReadInv(p, d) ==
    /\ p.real_time_mode => p.cf # "PENDING" /\ p.count_pending = 0
    /\ p.cf = "IN_PROGRESS" => p.state = "RUNNING" /\ p.read + p.count_pending <= p.told
    /\ p.cf = "DONE" => p.state = "STOPPED"
    /\ p.state = "PREPARING" => p.cf \in {"CLOSED", "PENDING"}
    /\ p.state = "RUNNING" =>
         /\ p.save_file # "NULL" /\ p.newest \in 1 .. Len(d)
         /\ p.real_time_mode => HasCapFile(p)

\* A file is being discarded only while the window waits for that, and what the
\* window remembers across its dialog is still true when nothing was captured.
WindowInv(p, g) ==
    /\ p.cf = "ABORTED" => g.pc = "close"
    /\ g.pc = "dialog" /\ ~g.capture_in_progress => p.state = "STOPPED"
    /\ g.pc = "save" => g.capture_in_progress

\* The extcap, and the timer that runs only while it is there.
ExtcapInv(p, f) ==
    /\ p.pid \/ p.io => f.extcap
    /\ ~p.pid => ~p.extcap_alive
    /\ p.state = "STOPPED" /\ (p.pid \/ p.io) => p.fork_child

TimerInv(p) == p.terminate_id => p.pid \/ p.io

\* dumpcap as the session knows it: watched, or gone, or left to end after the
\* emergency brake.
ChildInv(p, c, q, f) ==
    /\ p.watch => p.state # "STOPPED" /\ p.fork_child
    /\ p.state # "STOPPED" /\ ~p.watch => c.phase = "exited" /\ q = << >> /\ ~p.fork_child
    /\ p.state = "STOPPED" =>
         /\ c.phase \notin {"exec", "setup", "open"}
         /\ c.phase = "run" => ~c.go
         /\ "open" \notin f.faults => ~p.fork_child /\ c.phase \in {"none", "exited"}

\* dumpcap itself.
DumpcapInv(c, d) ==
    /\ c.phase \in {"exec", "setup", "open"} =>
         c.files = 0 /\ c.unsent = 0 /\ c.pkts = 0 /\ ~c.section /\ c.delayed = 0
    /\ c.phase \in {"run", "done"} => c.files > 0
    /\ c.phase = "done" => c.unsent = 0
    /\ c.phase = "exited" /\ ~c.crashed => c.unsent = 0
    /\ c.phase = "run" => Len(d) > 0
    /\ c.unsent > 0 => c.section
    /\ c.section => c.files > 0
    /\ c.delayed # 0 =>
         c.delayed = Len(d) /\ c.delayed \in 1 .. Len(d) /\ d[c.delayed].kind = c.kind

\* dumpcap has ended without a section header: the session knows of no file.
Unannounced(c) == c.phase = "exited" /\ c.files > 0 /\ ~c.section

\* Only a source that is passed through delays the name of a file.
PassInv(f, c) ==
    (c.delayed # 0 => f.passthrough) /\ (c.files > 0 /\ ~c.section => f.passthrough)

\* What the session knows of the capture: that there is a file, the packets
\* reported, the newest file, and whether the drops were reported after it.
ViewType == [running : BOOLEAN, count : Nat, newest : Nat, drops : BOOLEAN]

\* What a message changes of that, and when dumpcap may send it.
After(v, m) ==
    IF m.type = "FILE"
    THEN [running |-> TRUE, count |-> v.count, newest |-> m.file, drops |-> FALSE]
    ELSE IF m.type = "COUNT"
    THEN [running |-> v.running, count |-> v.count + m.n, newest |-> v.newest,
          drops |-> v.drops]
    ELSE IF m.type = "DROPS"
    THEN [running |-> v.running, count |-> v.count, newest |-> v.newest, drops |-> TRUE]
    ELSE v

Legal(v, m, c, d) ==
    /\ m.type = "FILE" => m.file \in 1 .. Len(d) /\ d[m.file].kind = c.kind /\ c.files > 0
    /\ m.type = "COUNT" => v.running
    /\ m.type = "DROPS" => v.running \/ Unannounced(c)

\* The session knows what v says, in state p with n captures started.
Knows(p, v, n) ==
    /\ v.running <=> p.state = "RUNNING"
    /\ v.count = p.count
    /\ v.running => v.newest = p.newest
    /\ v.drops => p.drops = n

\* n is the last file, or one of the files of the capture while the name of the
\* last one is delayed.
Latest(n, c, d) ==
    n = Len(d) \/ (c.delayed # 0 /\ n <= Len(d) /\ n > Len(d) - c.files)

\* v is all there is to know of dumpcap, but for what it has not reported.
Final(v, c, d) ==
    /\ v.count + c.unsent = c.pkts
    /\ v.running <=> c.section
    /\ v.running => Latest(v.newest, c, d)
    /\ v.running /\ c.phase = "exited" /\ ~c.crashed => v.drops

\* v[i] is what the session knows after i messages of the pipe q.
Replay(v, p, c, q, d, n) ==
    /\ v \in [0 .. Len(q) -> ViewType]
    /\ Knows(p, v[0], n)
    /\ \A i \in 1 .. Len(q) : v[i] = After(v[i - 1], q[i]) /\ Legal(v[i - 1], q[i], c, d)

\* l is what it knows after all of them.
Tells(p, c, q, d, n, l) == \E v : Replay(v, p, c, q, d, n) /\ v[Len(q)] = l

\* The messages on their way complete what the session knows; and a capture
\* without a name is one to a temporary file.
PipeInv(p, c, q, d, n) ==
    p.state # "STOPPED" =>
        /\ \E l : Tells(p, c, q, d, n, l) /\ Final(l, c, d)
        /\ p.state = "PREPARING" /\ p.save_file = "NULL" => c.kind = "temp"

\* A capture that is over and shown is shown as dumpcap left it.
ShownInv(p, c, d, n) ==
    p.state = "STOPPED" /\ p.cf = "DONE" =>
        /\ c.phase = "exited" /\ Latest(p.newest, c, d) /\ p.read = d[p.newest].pkts
        /\ ~c.crashed => p.count = c.pkts /\ p.drops = n

SessionType(p, g, c, q, d) ==
    /\ p \in ParentType /\ g \in GuiType /\ c \in ChildType
    /\ q \in Seq(MessageType) /\ d \in Seq(FileType)
    /\ p.ok

Consistent(f, p, g, c, q, d, n) ==
    /\ SessionType(p, g, c, q, d)
    /\ FilesInv(p, d) /\ ReadInv(p, d) /\ WindowInv(p, g) /\ ExtcapInv(p, f)
    /\ ChildInv(p, c, q, f) /\ DumpcapInv(c, d)
    /\ PipeInv(p, c, q, d, n) /\ ShownInv(p, c, d, n)

Good(f, p, g, c, q, d, n) == Consistent(f, p, g, c, q, d, n) /\ TimerInv(p)

\* The assertion of capture_input_drops() has failed, and nothing runs any more.
Lost ==
    /\ s \in ParentType /\ gui \in GuiType /\ child \in ChildType /\ pipe \in Seq(MessageType)
    /\ ~s.ok /\ s.state = "PREPARING" /\ Unannounced(child) /\ cfg.passthrough
    /\ \A i \in s.unlinked : i \in 1 .. Len(disk) /\ disk[i].kind = "temp"

\* The inductive invariant.
SessionInv ==
    /\ cfg \in ConfigType /\ captures \in Nat
    /\ CoveredSettings =>
         \/ Good(cfg, s, gui, child, pipe, disk, captures) /\ PassInv(cfg, child)
         \/ Lost
-----------------------------------------------------------------------------
(* States of the process that differ little.                                 *)

SameFile(p, q) ==
    q.cf = p.cf /\ q.filename = p.filename /\ q.read = p.read /\ q.unlinked = p.unlinked

SameNames(p, q) ==
    q.save_file = p.save_file /\ q.newest = p.newest /\ q.is_tempfile = p.is_tempfile

SameCounts(p, q) ==
    /\ q.count = p.count /\ q.count_pending = p.count_pending /\ q.told = p.told
    /\ q.drops = p.drops /\ q.real_time_mode = p.real_time_mode

SameProcesses(p, q) ==
    /\ q.fork_child = p.fork_child /\ q.watch = p.watch
    /\ q.pid = p.pid /\ q.io = p.io /\ q.extcap_alive = p.extcap_alive

\* They differ in nothing the invariant is about, but maybe in the timer
\* of an extcap that is there.
SameCore(p, q) ==
    /\ q \in ParentType
    /\ SameFile(p, q) /\ SameNames(p, q) /\ SameCounts(p, q) /\ SameProcesses(p, q)
    /\ q.state = p.state /\ (p.ok => q.ok)
    /\ q.terminate_id => p.terminate_id \/ p.pid \/ p.io

\* q is p with the capture file closed, or without one.
FileClosed(p, q) ==
    /\ q \in ParentType
    /\ q.cf = (IF HasCapFile(p) THEN "CLOSED" ELSE p.cf)
    /\ q.read = (IF HasCapFile(p) THEN 0 ELSE p.read)
    /\ q.unlinked = p.unlinked \cup (IF HasCapFile(p) /\ p.is_tempfile THEN {p.filename} ELSE {})
    /\ SameNames(p, q) /\ SameCounts(p, q) /\ SameProcesses(p, q)
    /\ q.state = p.state /\ (p.ok => q.ok)
    /\ q.terminate_id => p.terminate_id \/ p.pid \/ p.io

\* The menus are no part of the core.
LEMMA MenusCore ==
    ASSUME NEW p \in ParentType, NEW yes \in BOOLEAN, NEW q,
           q = setMenusForCaptureInProgress(p, yes)
    PROVE  SameCore(p, q)
<1>1. q = [p EXCEPT !.start_enabled = ~yes, !.stop_enabled = yes]
  BY DEF setMenusForCaptureInProgress
<1>2. [p EXCEPT !.start_enabled = ~yes, !.stop_enabled = yes] \in ParentType
  BY Zenon DEF ParentType
<1>3. QED
  BY <1>1, <1>2, SMT DEF ParentType, SameCore, SameFile, SameNames, SameCounts, SameProcesses

\* Nor is the mark that the window waits for the capture to stop.
LEMMA StoppingCore ==
    ASSUME NEW p \in ParentType, NEW x \in BOOLEAN, NEW q, q = [p EXCEPT !.stopping = x]
    PROVE  SameCore(p, q)
<1>1. q \in ParentType
  BY Zenon DEF ParentType
<1>2. QED
  BY <1>1, SMT DEF ParentType, SameCore, SameFile, SameNames, SameCounts, SameProcesses

\* Two changes outside the core are one.
LEMMA CoreTransitive ==
    ASSUME NEW p, NEW q, NEW r, SameCore(p, q), SameCore(q, r)
    PROVE  SameCore(p, r)
  BY SMT DEF SameCore, SameFile, SameNames, SameCounts, SameProcesses

\* The callbacks at the end of a capture change menus only.
LEMMA FinishedCore ==
    ASSUME NEW p \in ParentType, NEW r, r = CaptureFinished(p)
    PROVE  SameCore(p, r)
<1>1. PICK q : q = setMenusForCaptureInProgress(p, FALSE)
  OBVIOUS
<1>2. q \in ParentType /\ SameCore(p, q)
  BY <1>1, MenusCore DEF SameCore
<1>3. r = [q EXCEPT !.stopping = FALSE]
  BY <1>1 DEF CaptureFinished
<1>4. SameCore(q, r)
  BY <1>2, <1>3, StoppingCore
<1>5. QED
  BY <1>2, <1>4, CoreTransitive

\* An assertion that holds leaves the state as it is.
LEMMA AssertHolds ==
    ASSUME NEW p \in ParentType, p.ok, NEW c \in BOOLEAN, c
    PROVE  ws_assert(p, c) = p
<1>1. (p.ok /\ c) = p.ok
  BY DEF ParentType
<1>2. ws_assert(p, c) = [p EXCEPT !.ok = p.ok]
  BY <1>1 DEF ws_assert
<1>3. [p EXCEPT !.ok = p.ok] = p
  BY SMT DEF ParentType
<1>4. QED
  BY <1>2, <1>3

\* cf_close() of a file that is not being read: it is closed, and removed if it
\* is marked as temporary.
LEMMA CloseFiles ==
    ASSUME NEW p \in ParentType, p.ok, p.cf # "IN_PROGRESS", NEW q, q = cf_close(p)
    PROVE  FileClosed(p, q)
<1>1. CASE HasCapFile(p)
  <2>1. PICK u : u = p.unlinked \cup (IF p.is_tempfile THEN {p.filename} ELSE {})
    OBVIOUS
  <2>2. ws_assert(p, p.cf # "IN_PROGRESS") = p
    BY AssertHolds
  <2>3. q = [p EXCEPT !.cf = "CLOSED", !.filename = 0, !.read = 0, !.unlinked = u]
    BY <1>1, <2>1, <2>2 DEF cf_close
  <2>4. p.filename \in Nat /\ p.unlinked \in SUBSET Nat
    BY DEF ParentType
  <2>5. u \in SUBSET Nat
    BY <2>1, <2>4
  <2>6. q \in ParentType
    <3>1. [p EXCEPT !.cf = "CLOSED", !.filename = 0, !.read = 0, !.unlinked = u] \in ParentType
      BY <2>5, Zenon DEF ParentType
    <3>2. QED
      BY <2>3, <3>1, Zenon
  <2>7. /\ q.cf = "CLOSED" /\ q.read = 0 /\ q.unlinked = u
        /\ q.state = p.state
    BY <2>3, <2>6, SMT DEF ParentType
  <2>8. q.terminate_id = p.terminate_id /\ q.restart = p.restart
    BY <2>3, <2>6, SMT DEF ParentType
  <2>9. (p.ok => q.ok)
    BY <2>3, <2>6, SMT DEF ParentType
  <2>10. SameNames(p, q) /\ SameCounts(p, q) /\ SameProcesses(p, q)
    BY <2>3, <2>6, SMT DEF ParentType, SameNames, SameCounts, SameProcesses
  <2>11. QED
    BY <1>1, <2>1, <2>6, <2>7, <2>8, <2>9, <2>10, Zenon DEF FileClosed
<1>2. CASE ~HasCapFile(p)
  <2>1. q = p
    BY <1>2 DEF cf_close
  <2>2. QED
    BY <1>2, <2>1 DEF FileClosed, SameNames, SameCounts, SameProcesses
<1>3. QED
  BY <1>1, <1>2
-----------------------------------------------------------------------------
(* Signals, the timer and the menus do not touch the core.                   *)

\* A state has its own core.
LEMMA CoreReflexive ==
    ASSUME NEW p \in ParentType
    PROVE  SameCore(p, p)
  BY DEF SameCore, SameFile, SameNames, SameCounts, SameProcesses

\* sync_pipe_stop() does not touch the core.
LEMMA StopChildCore ==
    ASSUME NEW p \in ParentType, NEW q, q = sync_pipe_stop(p)
    PROVE  SameCore(p, q)
<1>1. PICK x : x = (p.signalled \/ p.fork_child)
  OBVIOUS
<1>2. q = [p EXCEPT !.signalled = x] /\ x \in BOOLEAN
  BY <1>1 DEF sync_pipe_stop
<1>3. [p EXCEPT !.signalled = x] \in ParentType
  BY <1>2, Zenon DEF ParentType
<1>4. QED
  BY <1>2, <1>3, SMT DEF ParentType, SameCore, SameFile, SameNames, SameCounts, SameProcesses

\* extcap_session_stop() does not touch the core.
LEMMA SessionStopCore ==
    ASSUME NEW p \in ParentType, NEW q, q = extcap_session_stop(p)
    PROVE  SameCore(p, q)
<1>1. CASE ExtcapGone(p)
  <2>1. q = [p EXCEPT !.wait_cbs = FALSE, !.terminate_id = FALSE]
    BY <1>1 DEF extcap_session_stop
  <2>2. [p EXCEPT !.wait_cbs = FALSE, !.terminate_id = FALSE] \in ParentType
    BY Zenon DEF ParentType
  <2>3. QED
    BY <2>1, <2>2, SMT DEF ParentType, SameCore, SameFile, SameNames, SameCounts, SameProcesses
<1>2. CASE ~ExtcapGone(p)
  BY <1>2, CoreReflexive DEF extcap_session_stop
<1>3. QED
  BY <1>1, <1>2

\* extcap_request_stop() starts the timer only for an extcap that is there.
LEMMA RequestStopCore ==
    ASSUME NEW p \in ParentType, NEW q, q = extcap_request_stop(p)
    PROVE  SameCore(p, q)
<1>1. CASE q = p
  BY <1>1, CoreReflexive
<1>2. CASE q = extcap_session_stop(p)
  BY <1>2, SessionStopCore
<1>3. CASE ~ExtcapGone(p) /\ q = [p EXCEPT !.terminate_id = TRUE]
  <2>1. [p EXCEPT !.terminate_id = TRUE] \in ParentType
    BY Zenon DEF ParentType
  <2>2. SameFile(p, q) /\ SameNames(p, q) /\ SameCounts(p, q) /\ SameProcesses(p, q)
        /\ q.state = p.state
    BY <1>3, <2>1, SMT DEF ParentType, SameFile, SameNames, SameCounts, SameProcesses
  <2>3. p.ok => q.ok
    BY <1>3, <2>1, SMT DEF ParentType
  <2>4. p.pid \/ p.io
    BY <1>3 DEF ExtcapGone
  <2>5. QED
    BY <1>3, <2>1, <2>2, <2>3, <2>4 DEF SameCore
<1>4. QED
  BY <1>1, <1>2, <1>3 DEF extcap_request_stop

\* capture_stop() neither: what it asks for happens later.
LEMMA CaptureStopCore ==
    ASSUME NEW p \in ParentType, NEW r, r = capture_stop(p)
    PROVE  SameCore(p, r)
<1>1. PICK q : q = [p EXCEPT !.stop_enabled = FALSE, !.stopping = TRUE]
  OBVIOUS
<1>2. [p EXCEPT !.stop_enabled = FALSE, !.stopping = TRUE] \in ParentType
  BY Zenon DEF ParentType
<1>3. q \in ParentType
  BY <1>1, <1>2
<1>4. SameCore(p, q)
  BY <1>1, <1>3, SMT DEF ParentType, SameCore, SameFile, SameNames, SameCounts, SameProcesses
<1>5. r = IF ExtcapGone(q) THEN sync_pipe_stop(extcap_session_stop(q))
          ELSE [extcap_request_stop(q) EXCEPT !.stop_after_extcaps = TRUE]
  BY <1>1 DEF capture_stop
<1>6. SameCore(q, r)
  <2>1. CASE ExtcapGone(q)
    <3>1. PICK e : e = extcap_session_stop(q)
      OBVIOUS
    <3>2. SameCore(q, e) /\ e \in ParentType
      BY <1>3, <3>1, SessionStopCore DEF SameCore
    <3>3. SameCore(e, r)
      BY <1>5, <2>1, <3>1, <3>2, StopChildCore
    <3>4. QED
      BY <3>2, <3>3, CoreTransitive
  <2>2. CASE ~ExtcapGone(q)
    <3>1. PICK e : e = extcap_request_stop(q)
      OBVIOUS
    <3>2. SameCore(q, e)
      BY <1>3, <3>1, RequestStopCore
    <3>3. e \in ParentType
      BY <3>2 DEF SameCore
    <3>4. r = [e EXCEPT !.stop_after_extcaps = TRUE]
      BY <1>5, <2>2, <3>1
    <3>5. [e EXCEPT !.stop_after_extcaps = TRUE] \in ParentType
      BY <3>3, Zenon DEF ParentType
    <3>6. SameCore(e, r)
      BY <3>3, <3>4, <3>5, SMT
         DEF ParentType, SameCore, SameFile, SameNames, SameCounts, SameProcesses
    <3>7. QED
      BY <3>2, <3>6, CoreTransitive
  <2>3. QED
    BY <2>1, <2>2
<1>7. QED
  BY <1>4, <1>6, CoreTransitive
-----------------------------------------------------------------------------
(* The file that is being captured to.                                       *)

\* cf_open() of the newest file when none is open.
LEMMA OpenFiles ==
    ASSUME NEW p \in ParentType, ~HasCapFile(p), NEW q, q = cf_open(p)
    PROVE  /\ q \in ParentType
           /\ q.cf = "IN_PROGRESS" /\ q.filename = p.newest /\ q.drops = 0
           /\ q.read = p.read /\ q.unlinked = p.unlinked
           /\ q.count = p.count /\ q.count_pending = p.count_pending /\ q.told = p.told
           /\ q.real_time_mode = p.real_time_mode
           /\ SameNames(p, q) /\ SameProcesses(p, q)
           /\ q.state = p.state /\ (p.ok => q.ok) /\ q.terminate_id = p.terminate_id
<1>1. PICK n : n = p.newest
  OBVIOUS
<1>2. q = [p EXCEPT !.cf = "IN_PROGRESS", !.filename = n, !.drops = 0]
  BY <1>1 DEF cf_open, cf_close
<1>3. n \in Nat
  BY <1>1 DEF ParentType
<1>4. [p EXCEPT !.cf = "IN_PROGRESS", !.filename = n, !.drops = 0] \in ParentType
  BY <1>3, Zenon DEF ParentType
<1>5. q \in ParentType
  BY <1>2, <1>4
<1>6. /\ q.cf = "IN_PROGRESS" /\ q.filename = n /\ q.drops = 0
      /\ q.read = p.read /\ q.unlinked = p.unlinked
      /\ q.count = p.count /\ q.count_pending = p.count_pending /\ q.told = p.told
      /\ q.real_time_mode = p.real_time_mode
      /\ q.state = p.state /\ (p.ok => q.ok) /\ q.terminate_id = p.terminate_id
  BY <1>2, <1>5, SMT DEF ParentType
<1>7. SameNames(p, q) /\ SameProcesses(p, q)
  BY <1>2, <1>5, SMT DEF ParentType, SameNames, SameProcesses
<1>8. QED
  BY <1>1, <1>5, <1>6, <1>7

\* The file, of n packets, is read up to its end.
Finish(p, n) == [p EXCEPT !.read = n, !.cf = "DONE"]

FileRead(p, q, n) ==
    /\ q \in ParentType
    /\ q.cf = "DONE" /\ q.read = n /\ q.filename = p.filename /\ q.unlinked = p.unlinked
    /\ SameNames(p, q) /\ SameCounts(p, q) /\ SameProcesses(p, q)
    /\ q.state = p.state /\ (p.ok => q.ok) /\ q.terminate_id = p.terminate_id

\* Reading a file to its end.
LEMMA FinishReads ==
    ASSUME NEW p \in ParentType, NEW n \in Nat, NEW q, q = Finish(p, n)
    PROVE  FileRead(p, q, n)
<1>1. [p EXCEPT !.read = n, !.cf = "DONE"] \in ParentType
  BY Zenon DEF ParentType
<1>2. q = [p EXCEPT !.read = n, !.cf = "DONE"] /\ q \in ParentType
  BY <1>1 DEF Finish
<1>3. /\ q.cf = "DONE" /\ q.read = n /\ q.filename = p.filename /\ q.unlinked = p.unlinked
      /\ q.state = p.state /\ (p.ok => q.ok) /\ q.terminate_id = p.terminate_id
  BY <1>2, SMT DEF ParentType
<1>4. SameNames(p, q) /\ SameCounts(p, q) /\ SameProcesses(p, q)
  BY <1>2, SMT DEF ParentType, SameNames, SameCounts, SameProcesses
<1>5. QED
  BY <1>2, <1>3, <1>4 DEF FileRead

\* A file that is closed after a change outside the core.
LEMMA CoreClosed ==
    ASSUME NEW p, NEW q, NEW r, SameCore(p, q), FileClosed(q, r)
    PROVE  FileClosed(p, r)
  BY SMT DEF SameCore, FileClosed, SameFile, SameNames, SameCounts, SameProcesses, HasCapFile

\* The old file of the capture is read and closed.
LEMMA OldFileClosed ==
    ASSUME NEW p \in ParentType, p.ok, p.save_file = "NULL" => ~HasCapFile(p),
           HasCapFile(p) => disk[p.filename].pkts \in Nat, NEW r, r = FinishOldFile(p)
    PROVE  FileClosed(p, r)
<1>1. CASE p.save_file = "NULL" \/ p.cf = "CLOSED"
  <2>1. r = p /\ ~HasCapFile(p)
    BY <1>1 DEF FinishOldFile, HasCapFile
  <2>2. QED
    BY <2>1 DEF FileClosed, SameNames, SameCounts, SameProcesses
<1>2. CASE p.save_file # "NULL" /\ p.cf = "PENDING"
  <2>1. r = CaptureFinished(p) /\ ~HasCapFile(p)
    BY <1>2 DEF FinishOldFile, HasCapFile
  <2>2. SameCore(p, r)
    BY <2>1, FinishedCore
  <2>3. QED
    BY <2>1, <2>2 DEF SameCore, SameFile, FileClosed
<1>3. CASE p.save_file # "NULL" /\ HasCapFile(p)
  <2>1. PICK q : q = CaptureFinished(p)
    OBVIOUS
  <2>2. SameCore(p, q)
    BY <2>1, FinishedCore
  <2>3. PICK t : t = cf_finish_tail(q)
    OBVIOUS
  <2>4. r = cf_close(t)
    BY <1>3, <2>1, <2>3 DEF FinishOldFile, HasCapFile
  <2>5. q \in ParentType /\ q.ok /\ q.cf = p.cf /\ q.filename = p.filename
    BY <2>2 DEF SameCore, SameFile
  <2>6. HasCapFile(q)
    BY <1>3, <2>5 DEF HasCapFile
  <2>7. FileClosed(q, r)
    <3>1. CASE q.cf = "ABORTED"
      <4>1. t = cf_close(q)
        BY <2>3, <3>1 DEF cf_finish_tail
      <4>2. FileClosed(q, t)
        BY <2>5, <3>1, <4>1, CloseFiles
      <4>3. t.cf = "CLOSED"
        BY <2>6, <4>2 DEF FileClosed
      <4>4. r = t
        BY <2>4, <4>3 DEF cf_close, HasCapFile
      <4>5. QED
        BY <4>2, <4>4
    <3>2. CASE q.cf # "ABORTED"
      <4>1. PICK n : n = disk[q.filename].pkts
        OBVIOUS
      <4>2. n \in Nat
        BY <1>3, <2>5, <4>1
      <4>3. t = Finish(q, n)
        BY <2>3, <3>2, <4>1 DEF cf_finish_tail, Finish
      <4>4. FileRead(q, t, n)
        BY <2>5, <4>2, <4>3, FinishReads
      <4>5. FileClosed(t, r)
        BY <2>4, <2>5, <4>4, CloseFiles DEF FileRead
      <4>6. HasCapFile(t)
        BY <4>4 DEF HasCapFile, FileRead
      <4>7. QED
        BY <2>6, <4>4, <4>5, <4>6, SMT
           DEF FileClosed, FileRead, SameNames, SameCounts, SameProcesses
    <3>3. QED
      BY <3>1, <3>2
  <2>8. QED
    BY <2>2, <2>7, CoreClosed
<1>4. QED
  BY <1>1, <1>2, <1>3 DEF HasCapFile
-----------------------------------------------------------------------------
(* capture_input_new_file(): the state after dumpcap reported a file.         *)

Rename(p, temp, kind, file) ==
    [p EXCEPT !.is_tempfile = temp, !.save_file = kind, !.newest = file, !.told = 0]

Renamed(p, q, temp, kind, file) ==
    /\ q \in ParentType
    /\ q.is_tempfile = temp /\ q.save_file = kind /\ q.newest = file /\ q.told = 0
    /\ SameFile(p, q) /\ SameProcesses(p, q)
    /\ q.count = p.count /\ q.count_pending = p.count_pending /\ q.drops = p.drops
    /\ q.real_time_mode = p.real_time_mode
    /\ q.state = p.state /\ (p.ok => q.ok) /\ q.terminate_id = p.terminate_id

\* The new name of the capture file, and whether it is temporary.
LEMMA RenameRenames ==
    ASSUME NEW p \in ParentType, NEW temp \in BOOLEAN, NEW kind \in {"NULL", "user", "temp", "ring"},
           NEW file \in Nat, NEW q, q = Rename(p, temp, kind, file)
    PROVE  Renamed(p, q, temp, kind, file)
<1>1. [p EXCEPT !.is_tempfile = temp, !.save_file = kind, !.newest = file, !.told = 0]
        \in ParentType
  BY Zenon DEF ParentType
<1>2. /\ q = [p EXCEPT !.is_tempfile = temp, !.save_file = kind, !.newest = file, !.told = 0]
      /\ q \in ParentType
  BY <1>1 DEF Rename
<1>3. /\ q.is_tempfile = temp /\ q.save_file = kind /\ q.newest = file /\ q.told = 0
      /\ q.count = p.count /\ q.count_pending = p.count_pending /\ q.drops = p.drops
      /\ q.real_time_mode = p.real_time_mode
      /\ q.state = p.state /\ (p.ok => q.ok) /\ q.terminate_id = p.terminate_id
  BY <1>2, SMT DEF ParentType
<1>4. SameFile(p, q) /\ SameProcesses(p, q)
  BY <1>2, SMT DEF ParentType, SameFile, SameProcesses
<1>5. QED
  BY <1>2, <1>3, <1>4 DEF Renamed

\* r is p after the new file: what is the same whatever the mode is, and then
\* what is not.
NewFile(p, r, file) ==
    /\ r \in ParentType /\ r.ok
    /\ SameProcesses(p, r) /\ r.count = p.count /\ r.real_time_mode = p.real_time_mode
    /\ r.newest = file /\ r.told = 0 /\ r.is_tempfile = (p.save_file = "NULL")
    /\ r.unlinked = p.unlinked \cup (IF HasCapFile(p) /\ p.is_tempfile THEN {p.filename} ELSE {})
    /\ r.terminate_id => p.terminate_id \/ p.pid \/ p.io

NewFileLater(p, r, file) ==
    /\ r.state = "RUNNING" /\ r.save_file = disk[file].kind /\ r.count_pending = 0
    /\ r.cf = (IF p.cf = "PENDING" THEN "PENDING" ELSE "CLOSED")
    /\ r.read = (IF HasCapFile(p) THEN 0 ELSE p.read)

NewFileOpened(p, r, file) ==
    /\ r.state = "RUNNING" /\ r.save_file = disk[file].kind
    /\ r.count_pending = p.count_pending
    /\ r.cf = "IN_PROGRESS" /\ r.filename = file
    /\ r.read = (IF HasCapFile(p) THEN 0 ELSE p.read)

NewFileRefused(p, r) ==
    /\ r.state = p.state /\ r.save_file = "NULL"
    /\ r.count_pending = p.count_pending
    /\ r.cf = "CLOSED"
    /\ r.read = (IF HasCapFile(p) THEN 0 ELSE p.read)

\* A new file that is not opened yet.
LEMMA PendingStateUpdate ==
    ASSUME NEW p \in ParentType, NEW q,
           q = [p EXCEPT !.count_pending = 0, !.state = "RUNNING"]
    PROVE  /\ q \in ParentType
           /\ SameFile(p, q) /\ SameNames(p, q) /\ SameProcesses(p, q)
           /\ q.count = p.count /\ q.count_pending = 0 /\ q.told = p.told
           /\ q.drops = p.drops /\ q.real_time_mode = p.real_time_mode
           /\ q.state = "RUNNING" /\ (p.ok => q.ok) /\ q.terminate_id = p.terminate_id
<1>1. [p EXCEPT !.count_pending = 0, !.state = "RUNNING"] \in ParentType
  BY Zenon DEF ParentType
<1>2. q \in ParentType
  BY <1>1
<1>3. /\ q.count = p.count /\ q.count_pending = 0 /\ q.told = p.told
      /\ q.drops = p.drops /\ q.real_time_mode = p.real_time_mode
      /\ q.state = "RUNNING" /\ (p.ok => q.ok) /\ q.terminate_id = p.terminate_id
  BY <1>2, SMT DEF ParentType
<1>4. SameFile(p, q) /\ SameNames(p, q) /\ SameProcesses(p, q)
  BY <1>2, SMT DEF ParentType, SameFile, SameNames, SameProcesses
<1>5. QED
  BY <1>2, <1>3, <1>4

\* The session is in another state, and nothing else changed.
LEMMA StateUpdate ==
    ASSUME NEW p \in ParentType, NEW st \in {"STOPPED", "PREPARING", "RUNNING"}, NEW q,
           q = [p EXCEPT !.state = st]
    PROVE  /\ q \in ParentType
           /\ SameFile(p, q) /\ SameNames(p, q) /\ SameCounts(p, q) /\ SameProcesses(p, q)
           /\ q.state = st /\ (p.ok => q.ok) /\ q.terminate_id = p.terminate_id
<1>1. [p EXCEPT !.state = st] \in ParentType
  BY Zenon DEF ParentType
<1>2. q \in ParentType
  BY <1>1
<1>3. q.state = st /\ (p.ok => q.ok) /\ q.terminate_id = p.terminate_id
  BY <1>2, SMT DEF ParentType
<1>4. SameFile(p, q) /\ SameNames(p, q) /\ SameCounts(p, q) /\ SameProcesses(p, q)
  BY <1>2, SMT DEF ParentType, SameFile, SameNames, SameCounts, SameProcesses
<1>5. QED
  BY <1>2, <1>3, <1>4

\* The name of the capture file is forgotten or set.
LEMMA SaveFileUpdate ==
    ASSUME NEW p \in ParentType, NEW f \in {"NULL", "user", "temp", "ring"}, NEW q,
           q = [p EXCEPT !.save_file = f]
    PROVE  /\ q \in ParentType
           /\ SameFile(p, q) /\ SameCounts(p, q) /\ SameProcesses(p, q)
           /\ q.save_file = f /\ q.newest = p.newest /\ q.is_tempfile = p.is_tempfile
           /\ q.state = p.state /\ (p.ok => q.ok) /\ q.terminate_id = p.terminate_id
<1>1. [p EXCEPT !.save_file = f] \in ParentType
  BY Zenon DEF ParentType
<1>2. q \in ParentType
  BY <1>1
<1>3. /\ q.save_file = f /\ q.newest = p.newest /\ q.is_tempfile = p.is_tempfile
      /\ q.state = p.state /\ (p.ok => q.ok) /\ q.terminate_id = p.terminate_id
  BY <1>2, SMT DEF ParentType
<1>4. SameFile(p, q) /\ SameCounts(p, q) /\ SameProcesses(p, q)
  BY <1>2, SMT DEF ParentType, SameFile, SameCounts, SameProcesses
<1>5. QED
  BY <1>2, <1>3, <1>4

\* capture_input_new_file() up to the place where it opens the file.
LEMMA NewFileNamed ==
    ASSUME NEW p \in ParentType, p.ok, p.state \in {"PREPARING", "RUNNING"},
           p.save_file = "NULL" => ~HasCapFile(p),
           HasCapFile(p) => disk[p.filename].pkts \in Nat,
           NEW file \in Nat, disk[file].kind \in {"temp", "user", "ring"},
           NEW opens \in BOOLEAN, NEW r, r = capture_input_new_file(p, file, opens),
           p.real_time_mode => p.cf # "PENDING"
    PROVE  /\ NewFile(p, r, file)
           /\ ~p.real_time_mode => NewFileLater(p, r, file)
           /\ p.real_time_mode /\ opens => NewFileOpened(p, r, file)
           /\ p.real_time_mode /\ ~opens => NewFileRefused(p, r)
<1>1. PICK temp, kind : temp = (p.save_file = "NULL") /\ kind = disk[file].kind
  OBVIOUS
<1>2. PICK old : old = FinishOldFile(p)
  OBVIOUS
<1>3. PICK named : named = Rename(old, temp, kind, file)
  OBVIOUS
<1>4. ws_assert(p, p.state \in {"PREPARING", "RUNNING"}) = p
  BY AssertHolds
<1>5. r = IF ~p.real_time_mode
          THEN [setMenusForCaptureInProgress(named, TRUE)
                  EXCEPT !.count_pending = 0, !.state = "RUNNING"]
          ELSE IF opens
          THEN [setMenusForCaptureInProgress(cf_open(named), TRUE) EXCEPT !.state = "RUNNING"]
          ELSE [named EXCEPT !.save_file = "NULL"]
  BY <1>1, <1>2, <1>3, <1>4 DEF capture_input_new_file, Rename
<1>6. FileClosed(p, old)
  BY <1>2, OldFileClosed
<1>7. old \in ParentType
  BY <1>6 DEF FileClosed
<1>8. temp \in BOOLEAN /\ kind \in {"NULL", "user", "temp", "ring"}
  BY <1>1
<1>9. Renamed(old, named, temp, kind, file)
  BY <1>3, <1>7, <1>8, RenameRenames
<1>10. named \in ParentType
  BY <1>9 DEF Renamed
<1>11. NewFile(p, named, file)
  BY <1>1, <1>6, <1>9, SMT
     DEF NewFile, FileClosed, Renamed, SameFile, SameCounts, SameProcesses
<1>12. /\ named.cf = (IF HasCapFile(p) THEN "CLOSED" ELSE p.cf)
       /\ named.read = (IF HasCapFile(p) THEN 0 ELSE p.read)
       /\ named.state = p.state /\ named.count_pending = p.count_pending
       /\ named.save_file = kind /\ named.newest = file
  BY <1>6, <1>9, SMT DEF FileClosed, Renamed, SameFile, SameCounts
<1>13. CASE ~p.real_time_mode
  <2>1. PICK m : m = setMenusForCaptureInProgress(named, TRUE)
    OBVIOUS
  <2>2. SameCore(named, m)
    BY <1>10, <2>1, MenusCore
  <2>3. m \in ParentType
    BY <2>2 DEF SameCore
  <2>4. r = [m EXCEPT !.count_pending = 0, !.state = "RUNNING"]
    BY <1>5, <1>13, <2>1
  <2>5. /\ r \in ParentType
        /\ SameFile(m, r) /\ SameNames(m, r) /\ SameProcesses(m, r)
        /\ r.count = m.count /\ r.count_pending = 0 /\ r.told = m.told
        /\ r.drops = m.drops /\ r.real_time_mode = m.real_time_mode
        /\ r.state = "RUNNING" /\ (m.ok => r.ok) /\ r.terminate_id = m.terminate_id
    BY <2>3, <2>4, PendingStateUpdate
  <2>6. NewFile(p, r, file)
    BY <1>11, <2>2, <2>5, SMT
       DEF NewFile, SameCore, SameFile, SameNames, SameCounts, SameProcesses
  <2>7. NewFileLater(p, r, file)
    BY <1>1, <1>12, <2>2, <2>5, SMT
       DEF NewFileLater, SameCore, SameFile, SameNames, HasCapFile, ParentType
  <2>8. QED
    BY <1>13, <2>6, <2>7
<1>14. CASE p.real_time_mode /\ opens
  <2>1. ~HasCapFile(named)
    BY <1>12 DEF HasCapFile
  <2>2. PICK o : o = cf_open(named)
    OBVIOUS
  <2>3. /\ o \in ParentType
        /\ o.cf = "IN_PROGRESS" /\ o.filename = named.newest /\ o.drops = 0
        /\ o.read = named.read /\ o.unlinked = named.unlinked
        /\ o.count = named.count /\ o.count_pending = named.count_pending
        /\ o.told = named.told /\ o.real_time_mode = named.real_time_mode
        /\ SameNames(named, o) /\ SameProcesses(named, o)
        /\ o.state = named.state /\ (named.ok => o.ok) /\ o.terminate_id = named.terminate_id
    BY <1>10, <2>1, <2>2, OpenFiles
  <2>4. PICK m : m = setMenusForCaptureInProgress(o, TRUE)
    OBVIOUS
  <2>5. SameCore(o, m)
    BY <2>3, <2>4, MenusCore
  <2>6. m \in ParentType
    BY <2>5 DEF SameCore
  <2>7. r = [m EXCEPT !.state = "RUNNING"]
    BY <1>5, <1>14, <2>2, <2>4
  <2>8. /\ r \in ParentType
        /\ SameFile(m, r) /\ SameNames(m, r) /\ SameCounts(m, r) /\ SameProcesses(m, r)
        /\ r.state = "RUNNING" /\ (m.ok => r.ok) /\ r.terminate_id = m.terminate_id
    BY <2>6, <2>7, StateUpdate
  <2>9. NewFile(p, r, file)
    BY <1>11, <2>3, <2>5, <2>8, SMT
       DEF NewFile, SameCore, SameFile, SameNames, SameCounts, SameProcesses
  <2>10. NewFileOpened(p, r, file)
    BY <1>1, <1>12, <2>3, <2>5, <2>8, SMT
       DEF NewFileOpened, SameCore, SameFile, SameNames, SameCounts
  <2>11. QED
    BY <1>14, <2>9, <2>10
<1>15. CASE p.real_time_mode /\ ~opens
  <2>1. r = [named EXCEPT !.save_file = "NULL"]
    BY <1>5, <1>15
  <2>2. /\ r \in ParentType
        /\ SameFile(named, r) /\ SameCounts(named, r) /\ SameProcesses(named, r)
        /\ r.save_file = "NULL" /\ r.newest = named.newest /\ r.is_tempfile = named.is_tempfile
        /\ r.state = named.state /\ (named.ok => r.ok) /\ r.terminate_id = named.terminate_id
    BY <1>10, <2>1, SaveFileUpdate
  <2>3. NewFile(p, r, file)
    BY <1>11, <2>2, SMT DEF NewFile, SameFile, SameCounts, SameProcesses
  <2>4. NewFileRefused(p, r)
    BY <1>12, <1>15, <2>2, SMT DEF NewFileRefused, SameFile, SameCounts, HasCapFile
  <2>5. QED
    BY <1>15, <2>3, <2>4
<1>16. QED
  BY <1>13, <1>14, <1>15 DEF ParentType
-----------------------------------------------------------------------------
(* capture_input_new_packets(): the state after n packets were reported.      *)

Count(p, n) == [p EXCEPT !.count = @ + n, !.told = @ + n]

\* q is p with n packets more, which are read or will be.
Counts(p, q, n) ==
    /\ q \in ParentType /\ (p.ok => q.ok)
    /\ q.count = p.count + n /\ q.told = p.told + n
    /\ SameNames(p, q) /\ SameProcesses(p, q)
    /\ q.real_time_mode = p.real_time_mode /\ q.drops = p.drops
    /\ q.filename = p.filename /\ q.unlinked = p.unlinked
    /\ q.state = p.state
    /\ q.terminate_id => p.terminate_id \/ p.pid \/ p.io

\* The packets that were reported are added up.
LEMMA CountCounts ==
    ASSUME NEW p \in ParentType, NEW n \in Nat, NEW q, q = Count(p, n)
    PROVE  Counts(p, q, n) /\ q.cf = p.cf /\ q.read = p.read /\ q.count_pending = p.count_pending
<1>1. PICK a, b : a = p.count + n /\ b = p.told + n
  OBVIOUS
<1>2. p.count \in Nat /\ p.told \in Nat
  BY DEF ParentType
<1>3. a \in Nat /\ b \in Nat
  BY <1>1, <1>2
<1>4. q = [p EXCEPT !.count = a, !.told = b]
  BY <1>1 DEF Count
<1>5. [p EXCEPT !.count = a, !.told = b] \in ParentType
  BY <1>3, Zenon DEF ParentType
<1>6. q \in ParentType
  BY <1>4, <1>5
<1>7. /\ q.count = a /\ q.told = b /\ (p.ok => q.ok)
      /\ q.real_time_mode = p.real_time_mode /\ q.drops = p.drops
      /\ q.filename = p.filename /\ q.unlinked = p.unlinked
      /\ q.state = p.state /\ q.terminate_id = p.terminate_id
      /\ q.cf = p.cf /\ q.read = p.read /\ q.count_pending = p.count_pending
  BY <1>4, <1>6, SMT DEF ParentType
<1>8. SameNames(p, q) /\ SameProcesses(p, q)
  BY <1>4, <1>6, SMT DEF ParentType, SameNames, SameProcesses
<1>9. QED
  BY <1>1, <1>6, <1>7, <1>8 DEF Counts

\* Only what is read, or what is open and waits to be read, changes.
SameButReading(p, q) ==
    /\ q \in ParentType /\ (p.ok => q.ok)
    /\ q.count = p.count /\ q.told = p.told
    /\ SameNames(p, q) /\ SameProcesses(p, q)
    /\ q.real_time_mode = p.real_time_mode /\ q.drops = p.drops
    /\ q.filename = p.filename /\ q.unlinked = p.unlinked
    /\ q.state = p.state /\ q.terminate_id = p.terminate_id

\* The capture file is in another state.
LEMMA CfUpdate ==
    ASSUME NEW p \in ParentType, NEW x \in {"CLOSED", "PENDING", "IN_PROGRESS", "ABORTED", "DONE"},
           NEW q, q = [p EXCEPT !.cf = x]
    PROVE  /\ SameButReading(p, q) /\ q.cf = x
           /\ q.read = p.read /\ q.count_pending = p.count_pending
<1>1. [p EXCEPT !.cf = x] \in ParentType
  BY Zenon DEF ParentType
<1>2. q \in ParentType
  BY <1>1
<1>3. QED
  BY <1>2, SMT DEF ParentType, SameButReading, SameNames, SameProcesses

\* The packets that wait to be read are others.
LEMMA PendingUpdate ==
    ASSUME NEW p \in ParentType, NEW x \in Nat, NEW q, q = [p EXCEPT !.count_pending = x]
    PROVE  SameButReading(p, q) /\ q.cf = p.cf /\ q.read = p.read /\ q.count_pending = x
<1>1. [p EXCEPT !.count_pending = x] \in ParentType
  BY Zenon DEF ParentType
<1>2. q \in ParentType
  BY <1>1
<1>3. QED
  BY <1>2, SMT DEF ParentType, SameButReading, SameNames, SameProcesses

\* More of the file is read.
LEMMA ReadUpdate ==
    ASSUME NEW p \in ParentType, NEW x \in Nat, NEW q, q = [p EXCEPT !.read = x]
    PROVE  SameButReading(p, q) /\ q.cf = p.cf /\ q.read = x /\ q.count_pending = p.count_pending
<1>1. [p EXCEPT !.read = x] \in ParentType
  BY Zenon DEF ParentType
<1>2. q \in ParentType
  BY <1>1
<1>3. QED
  BY <1>2, SMT DEF ParentType, SameButReading, SameNames, SameProcesses

\* Packets are counted, then read.
LEMMA CountsThenReads ==
    ASSUME NEW p, NEW q, NEW r, NEW n, Counts(p, q, n), SameButReading(q, r)
    PROVE  Counts(p, r, n)
  BY SMT DEF Counts, SameButReading, SameNames, SameProcesses

\* Reading in two steps is reading.
LEMMA ReadingTransitive ==
    ASSUME NEW p, NEW q, NEW r, SameButReading(p, q), SameButReading(q, r)
    PROVE  SameButReading(p, r)
  BY SMT DEF SameButReading, SameNames, SameProcesses

\* cf_continue_tail() of a file that is open reads no more than it is told to.
LEMMA ContinueReads ==
    ASSUME NEW p \in ParentType, p.ok, HasCapFile(p), disk[p.filename].pkts \in Nat,
           NEW n \in Nat, NEW q, q = cf_continue_tail(p, n)
    PROVE  /\ SameButReading(p, q) /\ q.cf = p.cf /\ q.count_pending = p.count_pending
           /\ q.read <= p.read + n
<1>1. PICK pkts : pkts = disk[p.filename].pkts
  OBVIOUS
<1>2. pkts \in Nat /\ p.read \in Nat
  BY <1>1 DEF ParentType
<1>3. CASE p.cf = "IN_PROGRESS"
  <2>1. PICK x : x = Least(p.read + n, pkts)
    OBVIOUS
  <2>2. x \in Nat /\ x <= p.read + n
    BY <1>2, <2>1 DEF Least
  <2>3. q = [p EXCEPT !.read = x]
    BY <1>1, <1>3, <2>1 DEF cf_continue_tail
  <2>4. SameButReading(p, q) /\ q.cf = p.cf /\ q.read = x /\ q.count_pending = p.count_pending
    BY <2>2, <2>3, ReadUpdate
  <2>5. QED
    BY <2>2, <2>4
<1>4. CASE p.cf # "IN_PROGRESS"
  <2>1. HasCapFile(p) \in BOOLEAN
    BY DEF HasCapFile
  <2>2. q = p
    BY <1>4, <2>1, AssertHolds DEF cf_continue_tail
  <2>3. QED
    BY <1>2, <2>2 DEF SameButReading, SameNames, SameProcesses
<1>5. QED
  BY <1>3, <1>4

\* capture_input_new_packets(): all packets are counted, and those that are read
\* or wait to be read were reported.
LEMMA NewPacketsCounted ==
    ASSUME NEW p \in ParentType, p.ok, p.save_file # "NULL",
           p.real_time_mode => HasCapFile(p) /\ p.count_pending = 0,
           HasCapFile(p) => disk[p.filename].pkts \in Nat,
           NEW n \in Nat, NEW opens \in BOOLEAN,
           NEW r, r = capture_input_new_packets(p, n, opens)
    PROVE  /\ Counts(p, r, n)
           /\ ~p.real_time_mode =>
                /\ r.cf = (IF p.cf = "CLOSED" THEN "PENDING" ELSE p.cf)
                /\ r.read = p.read /\ r.count_pending = p.count_pending + n
           /\ p.real_time_mode =>
                /\ r.cf = p.cf /\ r.read <= p.read + n /\ r.count_pending = 0
<1>1. PICK a : a = Count(p, n)
  OBVIOUS
<1>2. Counts(p, a, n) /\ a.cf = p.cf /\ a.read = p.read /\ a.count_pending = p.count_pending
  BY <1>1, CountCounts
<1>3. a \in ParentType /\ a.ok /\ a.real_time_mode = p.real_time_mode /\ a.filename = p.filename
  BY <1>2 DEF Counts
<1>4. ws_assert([p EXCEPT !.count = @ + n, !.told = @ + n], p.save_file # "NULL") = a
  BY <1>1, <1>3, AssertHolds DEF Count
<1>5. CASE ~p.real_time_mode
  <2>1. r = [cf_fake_continue_tail(a) EXCEPT !.count_pending = @ + n]
    BY <1>3, <1>4, <1>5 DEF capture_input_new_packets
  <2>2. PICK x : x = (IF a.cf = "CLOSED" THEN "PENDING" ELSE a.cf)
    OBVIOUS
  <2>3. PICK q : q = [a EXCEPT !.cf = x]
    OBVIOUS
  <2>4. cf_fake_continue_tail(a) = q
    BY <2>2, <2>3 DEF cf_fake_continue_tail
  <2>5. x \in {"CLOSED", "PENDING", "IN_PROGRESS", "ABORTED", "DONE"}
    BY <1>3, <2>2 DEF ParentType
  <2>6. /\ SameButReading(a, q) /\ q.cf = x
        /\ q.read = a.read /\ q.count_pending = a.count_pending
    BY <1>3, <2>3, <2>5, CfUpdate
  <2>7. q \in ParentType
    BY <2>6 DEF SameButReading
  <2>8. PICK y : y = q.count_pending + n
    OBVIOUS
  <2>9. y \in Nat
    BY <2>7, <2>8 DEF ParentType
  <2>10. r = [q EXCEPT !.count_pending = y]
    BY <2>1, <2>4, <2>8
  <2>11. SameButReading(q, r) /\ r.cf = q.cf /\ r.read = q.read /\ r.count_pending = y
    BY <2>7, <2>9, <2>10, PendingUpdate
  <2>12. Counts(p, r, n)
    BY <1>2, <2>6, <2>11, CountsThenReads, ReadingTransitive
  <2>13. QED
    BY <1>2, <1>5, <2>2, <2>6, <2>8, <2>11, <2>12
<1>6. CASE p.real_time_mode
  <2>1. a.cf # "PENDING" /\ a.count_pending = 0 /\ HasCapFile(a)
    BY <1>2, <1>6 DEF HasCapFile
  <2>2. PICK b : b = [a EXCEPT !.count_pending = 0]
    OBVIOUS
  <2>3. SameButReading(a, b) /\ b.cf = a.cf /\ b.read = a.read /\ b.count_pending = 0
    BY <1>3, <2>2, PendingUpdate
  <2>4. PICK c : c = cf_continue_tail(b, n + a.count_pending)
    OBVIOUS
  <2>5. n + a.count_pending = n
    BY <2>1
  <2>6. b \in ParentType /\ b.ok /\ b.filename = p.filename /\ HasCapFile(b)
    BY <1>3, <2>1, <2>3 DEF SameButReading, HasCapFile
  <2>7. disk[b.filename].pkts \in Nat
    BY <1>6, <2>6
  <2>8. /\ SameButReading(b, c) /\ c.cf = b.cf /\ c.count_pending = b.count_pending
        /\ c.read <= b.read + n
    BY <2>4, <2>5, <2>6, <2>7, ContinueReads
  <2>9. c \in ParentType
    BY <2>8 DEF SameButReading
  <2>10. Counts(p, c, n)
    BY <1>2, <2>3, <2>8, CountsThenReads, ReadingTransitive
  <2>11. r = IF c.cf = "ABORTED" THEN sync_pipe_kill(c) ELSE c
    BY <1>3, <1>4, <1>6, <2>1, <2>2, <2>4 DEF capture_input_new_packets
  <2>12. SameCore(c, r)
    BY <2>9, <2>11, StopChildCore, CoreReflexive DEF sync_pipe_kill
  <2>13. Counts(p, r, n)
    BY <2>10, <2>12, SMT
       DEF Counts, SameCore, SameFile, SameNames, SameCounts, SameProcesses
  <2>14. r.cf = c.cf /\ r.read = c.read /\ r.count_pending = c.count_pending
    BY <2>12 DEF SameCore, SameFile, SameCounts
  <2>15. QED
    BY <1>2, <1>6, <2>3, <2>8, <2>13, <2>14
<1>7. QED
  BY <1>5, <1>6
-----------------------------------------------------------------------------
(* capture_input_closed(): the capture is over.                              *)

\* What an end of the capture finds: nothing is open without a name, and an
\* open file is the newest one.
MayEnd(p) ==
    /\ p \in ParentType /\ p.ok
    /\ p.state \in {"PREPARING", "RUNNING"}
    /\ p.save_file = "NULL" => ~HasCapFile(p)
    /\ p.state = "PREPARING" => ~HasCapFile(p)
    /\ ~HasCapFile(p) => p.read = 0
    /\ HasCapFile(p) => p.filename = p.newest
    /\ p.state = "RUNNING" => disk[p.newest].pkts \in Nat

\* r is p with the file read to its end, or closed, or not open.
RestRead(p, r) ==
    /\ r \in ParentType /\ r.ok
    /\ SameCounts(p, r) /\ SameProcesses(p, r)
    /\ r.newest = p.newest /\ r.is_tempfile = p.is_tempfile
    /\ r.cf \in {"CLOSED", "PENDING", "DONE"}
    /\ r.cf = "PENDING" => p.cf = "PENDING"
    /\ r.cf = "DONE" =>
         p.state = "RUNNING" /\ r.filename = p.newest /\ r.read = disk[p.newest].pkts
    /\ r.cf # "DONE" => r.read = 0
    /\ r.unlinked \subseteq p.unlinked \cup (IF p.is_tempfile THEN {p.newest} ELSE {})
    /\ r.terminate_id => p.terminate_id \/ p.pid \/ p.io

\* At the end of a capture whose file is not open there is nothing to read.
LEMMA NotOpenRest ==
    ASSUME NEW p, MayEnd(p), ~HasCapFile(p)
    PROVE  RestRead(p, p)
  BY SMT DEF MayEnd, RestRead, HasCapFile, SameCounts, SameProcesses, ParentType

\* Nor is there of a file that is closed at once.
LEMMA ClosedRest ==
    ASSUME NEW p, MayEnd(p), NEW r, FileClosed(p, r)
    PROVE  RestRead(p, r)
<1>1. r \in ParentType /\ r.ok /\ SameCounts(p, r) /\ SameProcesses(p, r)
      /\ r.newest = p.newest /\ r.is_tempfile = p.is_tempfile
      /\ (r.terminate_id => p.terminate_id \/ p.pid \/ p.io)
  BY DEF MayEnd, FileClosed, SameNames
<1>2. r.unlinked \subseteq p.unlinked \cup (IF p.is_tempfile THEN {p.newest} ELSE {})
  BY DEF MayEnd, FileClosed
<1>3. r.cf \in {"CLOSED", "PENDING"} /\ r.read = 0 /\ (r.cf = "PENDING" => p.cf = "PENDING")
  BY <1>1, SMT DEF MayEnd, FileClosed, HasCapFile, ParentType
<1>4. QED
  BY <1>1, <1>2, <1>3 DEF RestRead

\* A file that was read to its end stays open unless no packet was captured.
LEMMA NoPacketsRest ==
    ASSUME NEW p, MayEnd(p), p.state = "RUNNING",
           NEW q \in ParentType, q.ok, q.cf = "DONE", q.filename = p.newest,
           q.read = disk[p.newest].pkts, q.unlinked = p.unlinked,
           SameNames(p, q), SameCounts(p, q), SameProcesses(p, q), q.state = p.state,
           q.terminate_id = p.terminate_id,
           NEW r, r = NoPackets(q)
    PROVE  RestRead(p, r) /\ r.state = p.state /\ r.save_file = p.save_file
<1>1. CASE r = q
  <2>1. RestRead(p, q)
    BY SMT DEF RestRead, SameNames
  <2>2. QED
    BY <1>1, <2>1 DEF SameNames
<1>2. CASE r = cf_close(q)
  <2>1. FileClosed(q, r)
    BY <1>2, CloseFiles
  <2>2. HasCapFile(q)
    BY DEF HasCapFile
  <2>3. /\ r \in ParentType /\ r.ok /\ r.cf = "CLOSED" /\ r.read = 0
        /\ r.unlinked = q.unlinked \cup (IF q.is_tempfile THEN {q.filename} ELSE {})
        /\ SameNames(q, r) /\ SameCounts(q, r) /\ SameProcesses(q, r) /\ r.state = q.state
        /\ (r.terminate_id => q.terminate_id \/ q.pid \/ q.io)
    BY <2>1, <2>2 DEF FileClosed
  <2>4. r.unlinked = p.unlinked \cup (IF p.is_tempfile THEN {p.newest} ELSE {})
    BY <2>3 DEF SameNames
  <2>5. /\ SameCounts(p, r) /\ SameProcesses(p, r) /\ SameNames(p, r)
        /\ (r.terminate_id => p.terminate_id \/ p.pid \/ p.io)
    BY <2>3, SMT DEF SameNames, SameCounts, SameProcesses
  <2>6. RestRead(p, r)
    BY <2>3, <2>4, <2>5 DEF RestRead, SameNames
  <2>7. QED
    BY <2>3, <2>5, <2>6 DEF SameNames
<1>3. QED
  BY <1>1, <1>2 DEF NoPackets

\* The drops of the capture are stored.
LEMMA DropsUpdate ==
    ASSUME NEW p \in ParentType, NEW x \in Nat, NEW q, q = [p EXCEPT !.drops = x]
    PROVE  /\ q \in ParentType
           /\ SameFile(p, q) /\ SameNames(p, q) /\ SameProcesses(p, q)
           /\ q.count = p.count /\ q.count_pending = p.count_pending /\ q.told = p.told
           /\ q.drops = x /\ q.real_time_mode = p.real_time_mode
           /\ q.state = p.state /\ (p.ok => q.ok) /\ q.terminate_id = p.terminate_id
<1>1. [p EXCEPT !.drops = x] \in ParentType
  BY Zenon DEF ParentType
<1>2. q \in ParentType
  BY <1>1
<1>3. QED
  BY <1>2, SMT DEF ParentType, SameFile, SameNames, SameProcesses

\* ReadRest(): the file is read to its end or closed.
LEMMA RestIsRead ==
    ASSUME NEW p, MayEnd(p), NEW opens \in BOOLEAN, NEW r, r = ReadRest(p, opens)
    PROVE  /\ RestRead(p, r) /\ r.state = p.state /\ r.save_file = p.save_file
           /\ p.save_file = "NULL" => ~HasCapFile(r)
<1>1. p \in ParentType /\ p.ok
  BY DEF MayEnd
<1>2. CASE p.state = "PREPARING"
  <2>1. r = p /\ ~HasCapFile(p)
    BY <1>2 DEF ReadRest, MayEnd
  <2>2. QED
    BY <2>1, NotOpenRest
<1>3. CASE p.state = "RUNNING" /\ p.cf = "IN_PROGRESS"
  <2>1. PICK n : n = disk[p.newest].pkts
    OBVIOUS
  <2>2. HasCapFile(p) /\ p.filename = p.newest /\ n \in Nat /\ p.save_file # "NULL"
    BY <1>3, <2>1 DEF MayEnd, HasCapFile
  <2>3. PICK q : q = Finish(p, n)
    OBVIOUS
  <2>4. cf_finish_tail(p) = q
    BY <1>3, <2>1, <2>2, <2>3 DEF cf_finish_tail, Finish
  <2>5. r = NoPackets(q)
    BY <1>3, <2>4 DEF ReadRest
  <2>6. FileRead(p, q, n)
    BY <1>1, <2>2, <2>3, FinishReads
  <2>7. RestRead(p, r) /\ r.state = p.state /\ r.save_file = p.save_file
    BY <1>1, <1>3, <2>1, <2>2, <2>5, <2>6, NoPacketsRest DEF FileRead
  <2>8. QED
    BY <2>2, <2>7
<1>4. CASE p.state = "RUNNING" /\ p.cf = "PENDING"
  <2>1. ~HasCapFile(p) /\ p.cf # "IN_PROGRESS" /\ p.state # "PREPARING"
    BY <1>4 DEF HasCapFile
  <2>2. CASE p.save_file = "NULL" \/ ~opens
    <3>1. r = p
      BY <1>4, <2>1, <2>2 DEF ReadRest, capture_input_read_all
    <3>2. QED
      BY <2>1, <3>1, NotOpenRest
  <2>3. CASE p.save_file # "NULL" /\ opens
    <3>1. PICK o : o = cf_open(p)
      OBVIOUS
    <3>2. /\ o \in ParentType
          /\ o.cf = "IN_PROGRESS" /\ o.filename = p.newest /\ o.drops = 0
          /\ o.read = p.read /\ o.unlinked = p.unlinked
          /\ o.count = p.count /\ o.count_pending = p.count_pending /\ o.told = p.told
          /\ o.real_time_mode = p.real_time_mode
          /\ SameNames(p, o) /\ SameProcesses(p, o)
          /\ o.state = p.state /\ (p.ok => o.ok) /\ o.terminate_id = p.terminate_id
      BY <1>1, <2>1, <3>1, OpenFiles
    <3>3. PICK x : x = p.drops
      OBVIOUS
    <3>4. x \in Nat
      BY <1>1, <3>3 DEF ParentType
    <3>5. PICK w : w = [o EXCEPT !.drops = x]
      OBVIOUS
    <3>6. /\ w \in ParentType
          /\ SameFile(o, w) /\ SameNames(o, w) /\ SameProcesses(o, w)
          /\ w.count = o.count /\ w.count_pending = o.count_pending /\ w.told = o.told
          /\ w.drops = x /\ w.real_time_mode = o.real_time_mode
          /\ w.state = o.state /\ (o.ok => w.ok) /\ w.terminate_id = o.terminate_id
      BY <3>2, <3>4, <3>5, DropsUpdate
    <3>7. PICK n : n = disk[p.newest].pkts
      OBVIOUS
    <3>8. n \in Nat
      BY <1>4, <3>7 DEF MayEnd
    <3>9. PICK q : q = Finish(w, n)
      OBVIOUS
    <3>10. w.filename = p.newest
      BY <3>2, <3>6 DEF SameFile
    <3>11. r = NoPackets(q)
      <4>1. r = NoPackets(cf_read(w))
        BY <1>4, <2>1, <2>3, <3>1, <3>3, <3>5 DEF ReadRest, capture_input_read_all
      <4>2. cf_read(w) = q
        BY <3>7, <3>9, <3>10 DEF cf_read, Finish
      <4>3. QED
        BY <4>1, <4>2
    <3>12. FileRead(w, q, n)
      BY <3>6, <3>8, <3>9, FinishReads
    <3>13. /\ q \in ParentType /\ q.ok /\ q.cf = "DONE" /\ q.filename = p.newest
           /\ q.read = disk[p.newest].pkts /\ q.unlinked = p.unlinked
           /\ q.state = p.state /\ q.terminate_id = p.terminate_id
      BY <1>1, <3>2, <3>6, <3>7, <3>12 DEF FileRead, SameFile
    <3>14. SameNames(p, q) /\ SameCounts(p, q) /\ SameProcesses(p, q)
      BY <3>2, <3>3, <3>6, <3>12, SMT DEF FileRead, SameNames, SameCounts, SameProcesses
    <3>15. RestRead(p, r) /\ r.state = p.state /\ r.save_file = p.save_file
      BY <1>4, <3>11, <3>13, <3>14, NoPacketsRest
    <3>16. QED
      BY <2>3, <3>15
  <2>4. QED
    BY <2>2, <2>3
<1>5. CASE p.state = "RUNNING" /\ p.cf \notin {"IN_PROGRESS", "PENDING"}
  <2>1. r = cf_close(p)
    BY <1>5 DEF ReadRest
  <2>2. FileClosed(p, r)
    BY <1>1, <1>5, <2>1, CloseFiles
  <2>3. RestRead(p, r)
    BY <2>2, ClosedRest
  <2>4. r.state = p.state /\ r.save_file = p.save_file /\ (~HasCapFile(p) => r.cf = p.cf)
    BY <2>2 DEF FileClosed, SameNames
  <2>5. QED
    BY <2>3, <2>4 DEF MayEnd, HasCapFile
<1>6. QED
  BY <1>2, <1>3, <1>4, <1>5 DEF MayEnd

NextName(p, x) == [p EXCEPT !.restart = FALSE, !.save_file = x]

\* The name the next capture is saved to.
LEMMA NextNameUpdate ==
    ASSUME NEW p \in ParentType, NEW x \in {"NULL", "user", "temp", "ring"},
           NEW q, q = NextName(p, x)
    PROVE  /\ q \in ParentType
           /\ SameFile(p, q) /\ SameCounts(p, q) /\ SameProcesses(p, q)
           /\ q.newest = p.newest /\ q.is_tempfile = p.is_tempfile
           /\ q.state = p.state /\ (p.ok => q.ok) /\ q.terminate_id = p.terminate_id
<1>1. [p EXCEPT !.restart = FALSE, !.save_file = x] \in ParentType
  BY Zenon DEF ParentType
<1>2. q = [p EXCEPT !.restart = FALSE, !.save_file = x] /\ q \in ParentType
  BY <1>1 DEF NextName
<1>3. SameFile(p, q) /\ SameCounts(p, q) /\ SameProcesses(p, q)
  BY <1>2, SMT DEF ParentType, SameFile, SameCounts, SameProcesses
<1>4. /\ q.newest = p.newest /\ q.is_tempfile = p.is_tempfile
      /\ q.state = p.state /\ (p.ok => q.ok) /\ q.terminate_id = p.terminate_id
  BY <1>2, SMT DEF ParentType
<1>5. QED
  BY <1>2, <1>3, <1>4

\* capture_input_closed(): the session stops with the rest read.
LEMMA CaptureEnds ==
    ASSUME NEW p, MayEnd(p), NEW opens \in BOOLEAN, NEW r, r = capture_input_closed(p, opens)
    PROVE  RestRead(p, r) /\ r.state = "STOPPED"
<1>1. p \in ParentType /\ p.ok
  BY DEF MayEnd
<1>2. ws_assert(p, p.state \in {"PREPARING", "RUNNING"}) = p
  BY <1>1, AssertHolds DEF MayEnd
<1>3. PICK a : a = ReadRest(p, opens)
  OBVIOUS
<1>4. /\ RestRead(p, a) /\ a.state = p.state /\ a.save_file = p.save_file
      /\ p.save_file = "NULL" => ~HasCapFile(a)
  BY <1>3, RestIsRead
<1>5. a \in ParentType
  BY <1>4 DEF RestRead
<1>6. PICK m : m = CaptureFinished(a)
  OBVIOUS
<1>7. SameCore(a, m)
  BY <1>5, <1>6, FinishedCore
<1>8. m \in ParentType
  BY <1>7 DEF SameCore
<1>9. PICK b : b = [m EXCEPT !.state = "STOPPED"]
  OBVIOUS
<1>10. /\ b \in ParentType
       /\ SameFile(m, b) /\ SameNames(m, b) /\ SameCounts(m, b) /\ SameProcesses(m, b)
       /\ b.state = "STOPPED" /\ (m.ok => b.ok) /\ b.terminate_id = m.terminate_id
  BY <1>8, <1>9, StateUpdate
<1>11. RestRead(p, b)
  BY <1>4, <1>7, <1>10, SMT
     DEF RestRead, SameCore, SameFile, SameNames, SameCounts, SameProcesses
<1>12. b.save_file = a.save_file /\ b.cf = a.cf
  BY <1>7, <1>10 DEF SameCore, SameFile, SameNames
<1>13. r = IF b.save_file = "NULL" THEN cf_close(b)
           ELSE [b EXCEPT !.restart = FALSE, !.save_file = NextSaveFile(b)]
  BY <1>2, <1>3, <1>6, <1>9 DEF capture_input_closed
<1>14. CASE b.save_file = "NULL"
  <2>1. ~HasCapFile(b)
    BY <1>4, <1>12, <1>14 DEF HasCapFile
  <2>2. r = b
    BY <1>13, <1>14, <2>1 DEF cf_close
  <2>3. QED
    BY <1>10, <1>11, <2>2
<1>15. CASE b.save_file # "NULL"
  <2>1. PICK x : x = NextSaveFile(b)
    OBVIOUS
  <2>2. x \in {"NULL", "user", "temp", "ring"}
    BY <1>10, <2>1 DEF NextSaveFile, ParentType
  <2>3. r = NextName(b, x)
    BY <1>13, <1>15, <2>1 DEF NextName
  <2>4. /\ r \in ParentType
        /\ SameFile(b, r) /\ SameCounts(b, r) /\ SameProcesses(b, r)
        /\ r.newest = b.newest /\ r.is_tempfile = b.is_tempfile
        /\ r.state = b.state /\ (b.ok => r.ok) /\ r.terminate_id = b.terminate_id
    BY <1>10, <2>2, <2>3, NextNameUpdate
  <2>5. RestRead(p, r)
    BY <1>11, <2>4, SMT DEF RestRead, SameFile, SameCounts, SameProcesses
  <2>6. QED
    BY <1>10, <2>4, <2>5
<1>16. QED
  BY <1>14, <1>15
-----------------------------------------------------------------------------
(* The invariant depends on the core only, and survives a signal.            *)

\* What the messages tell depends on what the session knows only.
LEMMA TellsCore ==
    ASSUME NEW p, NEW r, NEW c, NEW q, NEW d, NEW n, NEW l, Tells(p, c, q, d, n, l),
           r.state = p.state, r.count = p.count, r.newest = p.newest, r.drops = p.drops
    PROVE  Tells(r, c, q, d, n, l)
  BY DEF Tells, Replay, Knows

\* The invariant without the timer depends on the core only.
LEMMA CoreConsistent ==
    ASSUME NEW f, NEW p, NEW r, NEW g, NEW c, NEW q, NEW d, NEW n,
           Consistent(f, p, g, c, q, d, n), SameCore(p, r)
    PROVE  Consistent(f, r, g, c, q, d, n)
<1>1. SessionType(r, g, c, q, d)
  BY DEF Consistent, SessionType, SameCore
<1>2. FilesInv(r, d)
  BY DEF Consistent, FilesInv, SameCore, SameFile, SameNames, HasCapFile
<1>3. ReadInv(r, d)
  BY SMT DEF Consistent, ReadInv, SameCore, SameFile, SameNames, SameCounts, HasCapFile
<1>4. WindowInv(r, g)
  BY DEF Consistent, WindowInv, SameCore, SameFile
<1>5. ExtcapInv(r, f)
  BY SMT DEF Consistent, ExtcapInv, SameCore, SameProcesses
<1>6. ChildInv(r, c, q, f)
  BY SMT DEF Consistent, ChildInv, SameCore, SameProcesses
<1>7. PipeInv(r, c, q, d, n)
  <2>1. /\ r.state = p.state /\ r.count = p.count /\ r.newest = p.newest /\ r.drops = p.drops
        /\ r.save_file = p.save_file
    BY DEF SameCore, SameNames, SameCounts
  <2>2. PipeInv(p, c, q, d, n)
    BY DEF Consistent
  <2>3. QED
    BY <2>1, <2>2, TellsCore DEF PipeInv
<1>8. ShownInv(r, c, d, n)
  BY SMT DEF Consistent, ShownInv, SameCore, SameFile, SameNames, SameCounts
<1>9. DumpcapInv(c, d)
  BY DEF Consistent
<1>10. QED
  BY <1>1, <1>2, <1>3, <1>4, <1>5, <1>6, <1>7, <1>8, <1>9 DEF Consistent

\* So does the invariant.
LEMMA CoreGood ==
    ASSUME NEW f, NEW p, NEW r, NEW g, NEW c, NEW q, NEW d, NEW n,
           Good(f, p, g, c, q, d, n), SameCore(p, r)
    PROVE  Good(f, r, g, c, q, d, n)
<1>1. Consistent(f, r, g, c, q, d, n)
  BY CoreConsistent DEF Good
<1>2. TimerInv(r)
  BY DEF Good, TimerInv, SameCore, SameProcesses
<1>3. QED
  BY <1>1, <1>2 DEF Good

\* What a signal may do to dumpcap.
LEMMA SignalledChild ==
    ASSUME NEW c \in ChildType, NEW k, k = Signalled(c)
    PROVE  /\ k \in ChildType
           /\ k.unsent = c.unsent /\ k.pkts = c.pkts /\ k.files = c.files /\ k.kind = c.kind
           /\ k.section = c.section /\ k.delayed = c.delayed
           /\ \/ k.phase = c.phase /\ k.crashed = c.crashed /\ c.phase # "exec"
              \/ k.phase = "exited" /\ c.phase = "exec" /\ k.crashed
           /\ k.phase \in {"open", "run"} => ~k.go
<1>1. CASE c.phase = "exec"
  <2>1. k = [c EXCEPT !.phase = "exited", !.crashed = TRUE]
    BY <1>1 DEF Signalled
  <2>2. [c EXCEPT !.phase = "exited", !.crashed = TRUE] \in ChildType
    BY Zenon DEF ChildType
  <2>3. QED
    BY <1>1, <2>1, <2>2, SMT DEF ChildType
<1>2. CASE c.phase \in {"open", "run"}
  <2>1. k = [c EXCEPT !.go = FALSE]
    BY <1>2 DEF Signalled
  <2>2. [c EXCEPT !.go = FALSE] \in ChildType
    BY Zenon DEF ChildType
  <2>3. QED
    BY <1>2, <2>1, <2>2, SMT DEF ChildType
<1>3. CASE c.phase \notin {"exec", "open", "run"}
  <2>1. k = c
    BY <1>3 DEF Signalled
  <2>2. QED
    BY <1>3, <2>1
<1>4. QED
  BY <1>1, <1>2, <1>3

\* Files that are added, or grow, do not change what the messages tell.
LEMMA TellsWider ==
    ASSUME NEW p, NEW c, NEW k, NEW q \in Seq(MessageType), NEW d, NEW e, NEW n, NEW l,
           Tells(p, c, q, d, n, l), k.kind = c.kind, c.files > 0 => k.files > 0,
           Unannounced(c) => Unannounced(k),
           Len(d) \in Nat, Len(e) \in Nat, Len(d) <= Len(e),
           \A i \in 1 .. Len(d) : e[i].kind = d[i].kind
    PROVE  Tells(p, k, q, e, n, l)
<1>1. PICK v : Replay(v, p, c, q, d, n) /\ v[Len(q)] = l
  BY DEF Tells
<1>2. \A i \in 1 .. Len(q) : v[i] = After(v[i - 1], q[i]) /\ Legal(v[i - 1], q[i], c, d)
  BY <1>1 DEF Replay
<1>3. \A i \in 1 .. Len(q) : Legal(v[i - 1], q[i], c, d) => Legal(v[i - 1], q[i], k, e)
  BY SMT DEF Legal
<1>4. Replay(v, p, k, q, e, n)
  BY <1>1, <1>2, <1>3 DEF Replay
<1>5. QED
  BY <1>1, <1>4 DEF Tells

\* A signal to dumpcap keeps the invariant.
LEMMA SignalGood ==
    ASSUME NEW f, NEW p, NEW g, NEW c, NEW k, NEW q, NEW d, NEW n,
           Good(f, p, g, c, q, d, n), k = Signalled(c)
    PROVE  Good(f, p, g, k, q, d, n)
<1>1. c \in ChildType
  BY DEF Good, Consistent, SessionType
<1>2. /\ k \in ChildType
      /\ k.unsent = c.unsent /\ k.pkts = c.pkts /\ k.files = c.files /\ k.kind = c.kind
      /\ k.section = c.section /\ k.delayed = c.delayed
      /\ \/ k.phase = c.phase /\ k.crashed = c.crashed /\ c.phase # "exec"
         \/ k.phase = "exited" /\ c.phase = "exec" /\ k.crashed
      /\ k.phase \in {"open", "run"} => ~k.go
  BY <1>1, SignalledChild
<1>3. SessionType(p, g, k, q, d)
  BY <1>2 DEF Good, Consistent, SessionType
<1>4. ChildInv(p, k, q, f)
  BY <1>2, SMT DEF Good, Consistent, ChildInv
<1>5. DumpcapInv(k, d)
  BY <1>2, SMT DEF Good, Consistent, DumpcapInv
<1>6. PipeInv(p, k, q, d, n)
  <2>1. ASSUME NEW l, Tells(p, c, q, d, n, l), Final(l, c, d)
        PROVE  Tells(p, k, q, d, n, l) /\ Final(l, k, d)
    <3>1. Tells(p, k, q, d, n, l)
      <4>1. q \in Seq(MessageType) /\ Len(d) \in Nat
        BY DEF Good, Consistent, SessionType
      <4>2. QED
        BY <1>2, <2>1, <4>1, TellsWider DEF Unannounced
    <3>2. Final(l, k, d)
      BY <1>2, <2>1, SMT DEF Final, Latest
    <3>3. QED
      BY <3>1, <3>2
  <2>2. PipeInv(p, c, q, d, n)
    BY DEF Good, Consistent
  <2>3. QED
    BY <1>2, <2>1, <2>2, Zenon DEF PipeInv
<1>7. ShownInv(p, k, d, n)
  BY <1>2, SMT DEF Good, Consistent, ShownInv, Latest
<1>8. QED
  BY <1>3, <1>4, <1>5, <1>6, <1>7 DEF Good, Consistent

\* A signal that has arrived is forgotten.
LEMMA SignalCleared ==
    ASSUME NEW p \in ParentType, NEW q, q = [p EXCEPT !.signalled = FALSE]
    PROVE  SameCore(p, q)
<1>1. [p EXCEPT !.signalled = FALSE] \in ParentType
  BY Zenon DEF ParentType
<1>2. q \in ParentType
  BY <1>1
<1>3. QED
  BY <1>2, SMT DEF ParentType, SameCore, SameFile, SameNames, SameCounts, SameProcesses

\* A callback that ends in a state that satisfies the invariant keeps it.
LEMMA BecomesGood ==
    ASSUME NEW p, NEW g, NEW q, Becomes(p), Good(cfg, p, g, child, q, disk, captures)
    PROVE  /\ Good(cfg, s', g, child', q, disk, captures)
           /\ UNCHANGED <<cfg, disk, captures>>
<1>1. p \in ParentType
  BY DEF Good, Consistent, SessionType
<1>2. SameCore(p, s')
  BY <1>1, SignalCleared DEF Becomes
<1>3. Good(cfg, s', g, child, q, disk, captures)
  BY <1>2, CoreGood
<1>4. child' = child \/ child' = Signalled(child)
  BY DEF Becomes
<1>5. Good(cfg, s', g, child', q, disk, captures)
  BY <1>3, <1>4, SignalGood
<1>6. QED
  BY <1>5 DEF Becomes
-----------------------------------------------------------------------------
(* What the messages tell, when one is sent or received.                     *)

\* A message leads from a view of the capture to another.
LEMMA AfterType ==
    ASSUME NEW l \in ViewType, NEW m \in MessageType
    PROVE  After(l, m) \in ViewType
<1>1. m.type = "FILE" => m.file \in Nat
  BY DEF MessageType
<1>2. m.type = "COUNT" => m.n \in Nat
  BY DEF MessageType
<1>3. QED
  BY <1>1, <1>2, SMT DEF After, ViewType

\* What the messages tell is a view of the capture.
LEMMA TellsType ==
    ASSUME NEW p, NEW c, NEW q \in Seq(MessageType), NEW d, NEW n, NEW l,
           Tells(p, c, q, d, n, l)
    PROVE  l \in ViewType
  BY DEF Tells, Replay

\* An empty pipe tells what the session knows.
LEMMA TellsNothing ==
    ASSUME NEW p, NEW c, NEW d, NEW n, NEW l \in ViewType, Knows(p, l, n)
    PROVE  Tells(p, c, << >>, d, n, l)
<1>1. PICK v : v = [i \in 0 .. 0 |-> l]
  OBVIOUS
<1>2. Replay(v, p, c, << >>, d, n) /\ v[Len(<< >>)] = l
  BY <1>1 DEF Replay
<1>3. QED
  BY <1>2 DEF Tells

\* When all messages are read the session knows what they told.
LEMMA TellsAllRead ==
    ASSUME NEW p, NEW c, NEW d, NEW n, NEW l, Tells(p, c, << >>, d, n, l)
    PROVE  Knows(p, l, n) /\ l \in ViewType
  BY DEF Tells, Replay

\* A message that is sent extends what is told.
LEMMA TellsSent ==
    ASSUME NEW p, NEW c, NEW q \in Seq(MessageType), NEW d, NEW n, NEW l,
           Tells(p, c, q, d, n, l), NEW m \in MessageType, Legal(l, m, c, d)
    PROVE  Tells(p, c, Append(q, m), d, n, After(l, m))
<1>1. PICK v : Replay(v, p, c, q, d, n) /\ v[Len(q)] = l
  BY DEF Tells
<1>2. PICK k : k = Len(q)
  OBVIOUS
<1>3. k \in Nat /\ Len(Append(q, m)) = k + 1
  BY <1>2
<1>4. PICK r : r = Append(q, m)
  OBVIOUS
<1>5. Len(r) = k + 1 /\ r[k + 1] = m /\ \A i \in 1 .. k : r[i] = q[i]
  BY <1>2, <1>4
<1>6. v \in [0 .. k -> ViewType] /\ Knows(p, v[0], n)
      /\ \A i \in 1 .. k : v[i] = After(v[i - 1], q[i]) /\ Legal(v[i - 1], q[i], c, d)
  BY <1>1, <1>2 DEF Replay
<1>7. PICK a : a = After(l, m)
  OBVIOUS
<1>8. a \in ViewType
  BY <1>1, <1>2, <1>3, <1>6, <1>7, AfterType
<1>9. PICK w : w = [i \in 0 .. (k + 1) |-> IF i = k + 1 THEN a ELSE v[i]]
  OBVIOUS
<1>10. w \in [0 .. (k + 1) -> ViewType]
  BY <1>3, <1>6, <1>8, <1>9
<1>11. w[0] = v[0] /\ w[k + 1] = a /\ \A i \in 0 .. k : w[i] = v[i]
  BY <1>3, <1>9
<1>12. \A i \in 1 .. (k + 1) : w[i] = After(w[i - 1], r[i]) /\ Legal(w[i - 1], r[i], c, d)
  <2>1. SUFFICES ASSUME NEW i \in 1 .. (k + 1)
                 PROVE  w[i] = After(w[i - 1], r[i]) /\ Legal(w[i - 1], r[i], c, d)
    OBVIOUS
  <2>2. CASE i = k + 1
    <3>1. w[i - 1] = l
      BY <1>1, <1>2, <1>3, <1>11, <2>2
    <3>2. r[i] = m /\ w[i] = a
      BY <1>5, <1>11, <2>2
    <3>3. QED
      BY <1>7, <3>1, <3>2
  <2>3. CASE i # k + 1
    <3>1. i \in 1 .. k /\ i - 1 \in 0 .. k /\ i \in 0 .. k
      BY <1>3, <2>1, <2>3
    <3>2. w[i] = v[i] /\ w[i - 1] = v[i - 1] /\ r[i] = q[i]
      BY <1>5, <1>11, <3>1
    <3>3. QED
      BY <1>6, <3>1, <3>2
  <2>4. QED
    BY <2>2, <2>3
<1>13. Replay(w, p, c, r, d, n)
  BY <1>5, <1>6, <1>10, <1>11, <1>12 DEF Replay
<1>14. QED
  BY <1>4, <1>5, <1>7, <1>11, <1>13 DEF Tells

\* A message that is received is known, and the rest tells the same.
LEMMA TellsReceived ==
    ASSUME NEW p, NEW r, NEW c, NEW q \in Seq(MessageType), NEW d, NEW n, NEW l,
           Tells(p, c, q, d, n, l), q # << >>
    PROVE  \E v \in ViewType :
              /\ Knows(p, v, n) /\ Legal(v, Head(q), c, d)
              /\ Knows(r, After(v, Head(q)), n) => Tells(r, c, Tail(q), d, n, l)
<1>1. PICK v : Replay(v, p, c, q, d, n) /\ v[Len(q)] = l
  BY DEF Tells
<1>2. PICK k : k = Len(q)
  OBVIOUS
<1>3. k \in Nat /\ k >= 1 /\ Head(q) = q[1]
  BY <1>2
<1>4. PICK t : t = Tail(q)
  OBVIOUS
<1>5. Len(t) = k - 1 /\ \A i \in 1 .. (k - 1) : t[i] = q[i + 1]
  BY <1>2, <1>3, <1>4
<1>6. v \in [0 .. k -> ViewType] /\ Knows(p, v[0], n)
      /\ \A i \in 1 .. k : v[i] = After(v[i - 1], q[i]) /\ Legal(v[i - 1], q[i], c, d)
  BY <1>1, <1>2 DEF Replay
<1>7. v[0] \in ViewType
  BY <1>3, <1>6
<1>8. v[1] = After(v[0], q[1]) /\ Legal(v[0], q[1], c, d)
  <2>1. 1 \in 1 .. k /\ 1 - 1 = 0
    BY <1>3
  <2>2. v[1] = After(v[1 - 1], q[1]) /\ Legal(v[1 - 1], q[1], c, d)
    BY <1>6, <2>1
  <2>3. QED
    BY <2>1, <2>2
<1>9. ASSUME Knows(r, After(v[0], Head(q)), n)
      PROVE  Tells(r, c, t, d, n, l)
  <2>1. PICK w : w = [i \in 0 .. (k - 1) |-> v[i + 1]]
    OBVIOUS
  <2>2. w \in [0 .. (k - 1) -> ViewType]
    <3>1. \A i \in 0 .. (k - 1) : i + 1 \in 0 .. k
      BY <1>3
    <3>2. QED
      BY <1>6, <2>1, <3>1
  <2>3. \A i \in 0 .. (k - 1) : w[i] = v[i + 1]
    BY <2>1
  <2>4. w[0] = v[1] /\ w[k - 1] = l
    BY <1>1, <1>2, <1>3, <2>3
  <2>5. Knows(r, w[0], n)
    BY <1>3, <1>8, <1>9, <2>4
  <2>6. \A i \in 1 .. (k - 1) : w[i] = After(w[i - 1], t[i]) /\ Legal(w[i - 1], t[i], c, d)
    <3>1. SUFFICES ASSUME NEW i \in 1 .. (k - 1)
                   PROVE  w[i] = After(w[i - 1], t[i]) /\ Legal(w[i - 1], t[i], c, d)
      OBVIOUS
    <3>2. i \in 0 .. (k - 1) /\ i - 1 \in 0 .. (k - 1) /\ i + 1 \in 1 .. k
          /\ (i - 1) + 1 = i /\ (i + 1) - 1 = i
      BY <1>3, <3>1
    <3>3. w[i] = v[i + 1] /\ w[i - 1] = v[i] /\ t[i] = q[i + 1]
      BY <1>5, <2>3, <3>1, <3>2
    <3>4. v[i + 1] = After(v[(i + 1) - 1], q[i + 1]) /\ Legal(v[(i + 1) - 1], q[i + 1], c, d)
      BY <1>6, <3>2
    <3>5. QED
      BY <3>2, <3>3, <3>4
  <2>7. Replay(w, r, c, t, d, n)
    BY <1>5, <2>2, <2>5, <2>6 DEF Replay
  <2>8. QED
    BY <1>5, <2>4, <2>7 DEF Tells
<1>10. QED
  BY <1>3, <1>4, <1>6, <1>7, <1>8, <1>9
-----------------------------------------------------------------------------
(* The steps of dumpcap.                                                     *)

\* A step of dumpcap keeps the invariant if it keeps its own part of it and
\* tells the session what it did.
LEMMA ChildGood ==
    ASSUME NEW f, NEW p, NEW g, NEW c, NEW k, NEW q, NEW r, NEW d, NEW e, NEW n,
           Good(f, p, g, c, q, d, n),
           k \in ChildType, r \in Seq(MessageType), e \in Seq(FileType),
           c.phase \notin {"none", "exited"}, k.kind = c.kind,
           Len(d) <= Len(e), \A i \in 1 .. Len(d) : e[i].kind = d[i].kind,
           DumpcapInv(k, e),
           c.phase \in {"run", "done"} /\ (c.phase = "run" => ~c.go) =>
              k.phase \in {"run", "done", "exited"} /\ (k.phase = "run" => ~k.go),
           p.state # "STOPPED" => \E l : Tells(p, k, r, e, n, l) /\ Final(l, k, e)
    PROVE  Good(f, p, g, k, r, e, n)
<1>1. Len(d) \in Nat /\ Len(e) \in Nat /\ p \in ParentType /\ c \in ChildType
  BY DEF Good, Consistent, SessionType
<1>2. SessionType(p, g, k, r, e)
  BY DEF Good, Consistent, SessionType
<1>3. FilesInv(p, e)
  <2>1. FilesInv(p, d)
    BY DEF Good, Consistent
  <2>2. 1 .. Len(d) \subseteq 1 .. Len(e)
    BY <1>1
  <2>3. QED
    BY <2>1, <2>2 DEF FilesInv
<1>4. ReadInv(p, e)
  <2>1. ReadInv(p, d)
    BY DEF Good, Consistent
  <2>2. 1 .. Len(d) \subseteq 1 .. Len(e)
    BY <1>1
  <2>3. QED
    BY <2>1, <2>2 DEF ReadInv
<1>5. WindowInv(p, g) /\ ExtcapInv(p, f)
  BY DEF Good, Consistent
<1>6. ChildInv(p, k, r, f)
  BY <1>1, SMT DEF Good, Consistent, ChildInv, ChildType
<1>7. PipeInv(p, k, r, e, n)
  BY DEF Good, Consistent, PipeInv
<1>8. ShownInv(p, k, e, n)
  BY DEF Good, Consistent, ShownInv
<1>9. QED
  BY <1>2, <1>3, <1>4, <1>5, <1>6, <1>7, <1>8 DEF Good, Consistent

\* dumpcap sends nothing, and the files grow at most.
LEMMA NothingSent ==
    ASSUME NEW f, NEW p, NEW g, NEW c, NEW k, NEW q, NEW d, NEW e, NEW n,
           Good(f, p, g, c, q, d, n),
           k.kind = c.kind, k.files = c.files, c.phase # "exited",
           Len(e) = Len(d), \A i \in 1 .. Len(d) : e[i].kind = d[i].kind,
           \A l \in ViewType : Final(l, c, d) => Final(l, k, e)
    PROVE  p.state # "STOPPED" => \E l : Tells(p, k, q, e, n, l) /\ Final(l, k, e)
<1>1. SUFFICES ASSUME p.state # "STOPPED"
               PROVE  \E l : Tells(p, k, q, e, n, l) /\ Final(l, k, e)
  OBVIOUS
<1>2. PICK l : Tells(p, c, q, d, n, l) /\ Final(l, c, d)
  BY <1>1 DEF Good, Consistent, PipeInv
<1>3. q \in Seq(MessageType) /\ Len(d) \in Nat
  BY DEF Good, Consistent, SessionType
<1>4. l \in ViewType
  BY <1>2, <1>3, TellsType
<1>5. Len(d) <= Len(e) /\ Len(e) \in Nat
  BY <1>3
<1>6. Tells(p, k, q, e, n, l)
  BY <1>2, <1>3, <1>5, TellsWider DEF Unannounced
<1>7. QED
  BY <1>2, <1>4, <1>6

\* dumpcap gets ready.
LEMMA ChildBootGood ==
    ASSUME Good(cfg, s, gui, child, pipe, disk, captures), ChildBoot
    PROVE  /\ Good(cfg, s, gui, child', pipe, disk, captures)
           /\ UNCHANGED <<cfg, s, gui, pipe, disk, captures>>
<1>1. UNCHANGED <<cfg, s, gui, pipe, disk, captures>>
  BY DEF ChildBoot, ChildStep
<1>2. child \in ChildType /\ pipe \in Seq(MessageType) /\ disk \in Seq(FileType)
      /\ DumpcapInv(child, disk) /\ Len(disk) \in Nat
  BY DEF Good, Consistent, SessionType
<1>3. PICK k : k = child'
  OBVIOUS
<1>4. PICK x, y : x = (IF child.phase = "exec" THEN "setup" ELSE "open")
               /\ y = (child.phase = "setup")
  OBVIOUS
<1>5. k = [child EXCEPT !.phase = x, !.go = y] /\ child.phase \in {"exec", "setup"}
  BY <1>3, <1>4 DEF ChildBoot, ChildStep
<1>6. x \in {"setup", "open"} /\ y \in BOOLEAN
  BY <1>4
<1>7. [child EXCEPT !.phase = x, !.go = y] \in ChildType
  BY <1>2, <1>6, Zenon DEF ChildType
<1>8. /\ k \in ChildType /\ k.phase = x
      /\ k.unsent = child.unsent /\ k.pkts = child.pkts /\ k.files = child.files
      /\ k.section = child.section /\ k.delayed = child.delayed
      /\ k.kind = child.kind /\ k.crashed = child.crashed
  BY <1>2, <1>5, <1>7, SMT DEF ChildType
<1>9. DumpcapInv(k, disk)
  BY <1>2, <1>5, <1>6, <1>8, SMT DEF DumpcapInv
<1>10. \A l \in ViewType : Final(l, child, disk) => Final(l, k, disk)
  BY <1>5, <1>6, <1>8, SMT DEF Final, Latest
<1>11. s.state # "STOPPED" => \E l : Tells(s, k, pipe, disk, captures, l) /\ Final(l, k, disk)
  BY <1>5, <1>8, <1>10, NothingSent
<1>12. /\ child.phase \notin {"none", "exited"} /\ Len(disk) <= Len(disk)
       /\ (child.phase \in {"run", "done"} /\ (child.phase = "run" => ~child.go) =>
             k.phase \in {"run", "done", "exited"} /\ (k.phase = "run" => ~k.go))
  BY <1>2, <1>5
<1>13. Good(cfg, s, gui, k, pipe, disk, captures)
  BY <1>2, <1>8, <1>9, <1>11, <1>12, ChildGood
<1>14. QED
  BY <1>1, <1>3, <1>13

\* dumpcap decides to stop.
LEMMA ChildStopsGood ==
    ASSUME Good(cfg, s, gui, child, pipe, disk, captures), ChildStops
    PROVE  /\ Good(cfg, s, gui, child', pipe, disk, captures)
           /\ UNCHANGED <<cfg, s, gui, pipe, disk, captures>>
<1>1. UNCHANGED <<cfg, s, gui, pipe, disk, captures>>
  BY DEF ChildStops, ChildStep
<1>2. child \in ChildType /\ pipe \in Seq(MessageType) /\ disk \in Seq(FileType)
      /\ DumpcapInv(child, disk) /\ Len(disk) \in Nat
  BY DEF Good, Consistent, SessionType
<1>3. PICK k : k = child'
  OBVIOUS
<1>4. k = [child EXCEPT !.go = FALSE] /\ child.phase = "run"
  BY <1>3 DEF ChildStops, ChildStep
<1>5. [child EXCEPT !.go = FALSE] \in ChildType
  BY <1>2, Zenon DEF ChildType
<1>6. /\ k \in ChildType /\ k.phase = child.phase /\ ~k.go
      /\ k.unsent = child.unsent /\ k.pkts = child.pkts /\ k.files = child.files
      /\ k.section = child.section /\ k.delayed = child.delayed
      /\ k.kind = child.kind /\ k.crashed = child.crashed
  BY <1>2, <1>4, <1>5, SMT DEF ChildType
<1>7. DumpcapInv(k, disk)
  BY <1>2, <1>4, <1>6, SMT DEF DumpcapInv
<1>8. \A l \in ViewType : Final(l, child, disk) => Final(l, k, disk)
  BY <1>6, SMT DEF Final, Latest
<1>9. s.state # "STOPPED" => \E l : Tells(s, k, pipe, disk, captures, l) /\ Final(l, k, disk)
  BY <1>4, <1>6, <1>8, NothingSent
<1>10. /\ child.phase \notin {"none", "exited"} /\ Len(disk) <= Len(disk)
       /\ (child.phase \in {"run", "done"} /\ (child.phase = "run" => ~child.go) =>
             k.phase \in {"run", "done", "exited"} /\ (k.phase = "run" => ~k.go))
  BY <1>2, <1>4, <1>6
<1>11. Good(cfg, s, gui, k, pipe, disk, captures)
  BY <1>2, <1>6, <1>7, <1>9, <1>10, ChildGood
<1>12. QED
  BY <1>1, <1>3, <1>11

\* dumpcap dies: what it did not report is lost, and that is known.
LEMMA ChildCrashesGood ==
    ASSUME Good(cfg, s, gui, child, pipe, disk, captures), ChildCrashes
    PROVE  /\ Good(cfg, s, gui, child', pipe, disk, captures)
           /\ UNCHANGED <<cfg, s, gui, pipe, disk, captures>>
<1>1. UNCHANGED <<cfg, s, gui, pipe, disk, captures>>
  BY DEF ChildCrashes, ChildStep
<1>2. child \in ChildType /\ pipe \in Seq(MessageType) /\ disk \in Seq(FileType)
      /\ DumpcapInv(child, disk) /\ Len(disk) \in Nat
  BY DEF Good, Consistent, SessionType
<1>3. PICK k : k = child'
  OBVIOUS
<1>4. /\ k = [child EXCEPT !.phase = "exited", !.crashed = TRUE]
      /\ child.phase \in {"setup", "open", "run", "done"}
  BY <1>3 DEF ChildCrashes, ChildStep
<1>5. [child EXCEPT !.phase = "exited", !.crashed = TRUE] \in ChildType
  BY <1>2, Zenon DEF ChildType
<1>6. /\ k \in ChildType /\ k.phase = "exited" /\ k.crashed
      /\ k.unsent = child.unsent /\ k.pkts = child.pkts /\ k.files = child.files
      /\ k.section = child.section /\ k.delayed = child.delayed
      /\ k.kind = child.kind
  BY <1>2, <1>4, <1>5, SMT DEF ChildType
<1>7. DumpcapInv(k, disk)
  BY <1>2, <1>6, SMT DEF DumpcapInv
<1>8. \A l \in ViewType : Final(l, child, disk) => Final(l, k, disk)
  BY <1>6, SMT DEF Final, Latest
<1>9. s.state # "STOPPED" => \E l : Tells(s, k, pipe, disk, captures, l) /\ Final(l, k, disk)
  BY <1>4, <1>6, <1>8, NothingSent
<1>10. /\ child.phase \notin {"none", "exited"} /\ Len(disk) <= Len(disk)
       /\ (child.phase \in {"run", "done"} /\ (child.phase = "run" => ~child.go) =>
             k.phase \in {"run", "done", "exited"} /\ (k.phase = "run" => ~k.go))
  BY <1>2, <1>4, <1>6
<1>11. Good(cfg, s, gui, k, pipe, disk, captures)
  BY <1>2, <1>6, <1>7, <1>9, <1>10, ChildGood
<1>12. QED
  BY <1>1, <1>3, <1>11

\* A packet is written before it is reported.
LEMMA ChildWritesPacketGood ==
    ASSUME Good(cfg, s, gui, child, pipe, disk, captures), ChildWritesPacket
    PROVE  /\ Good(cfg, s, gui, child', pipe, disk', captures)
           /\ UNCHANGED <<cfg, s, gui, pipe, captures>>
<1>1. UNCHANGED <<cfg, s, gui, pipe, captures>>
  BY DEF ChildWritesPacket, ChildStep
<1>2. child \in ChildType /\ pipe \in Seq(MessageType) /\ disk \in Seq(FileType)
      /\ DumpcapInv(child, disk) /\ Len(disk) \in Nat
  BY DEF Good, Consistent, SessionType
<1>3. PICK k, e, z : k = child' /\ e = disk' /\ z = Len(disk)
  OBVIOUS
<1>4. /\ k = [child EXCEPT !.pkts = @ + 1, !.unsent = @ + 1]
      /\ child.phase = "run" /\ child.go /\ child.section
  BY <1>3 DEF ChildWritesPacket, ChildStep
<1>5. PICK x, y : x = child.pkts + 1 /\ y = child.unsent + 1
  OBVIOUS
<1>6. k = [child EXCEPT !.pkts = x, !.unsent = y] /\ x \in Nat /\ y \in Nat
  BY <1>2, <1>4, <1>5 DEF ChildType
<1>7. [child EXCEPT !.pkts = x, !.unsent = y] \in ChildType
  BY <1>2, <1>6, Zenon DEF ChildType
<1>8. k.phase = child.phase /\ k.go = child.go
  BY <1>2, <1>6, <1>7, SMT DEF ChildType
<1>9. /\ k.unsent = y /\ k.pkts = x /\ k.files = child.files
     /\ k.section = child.section /\ k.delayed = child.delayed
     /\ k.kind = child.kind /\ k.crashed = child.crashed
  BY <1>2, <1>6, <1>7, SMT DEF ChildType
<1>10. /\ k \in ChildType /\ k.phase = "run" /\ k.go
       /\ k.unsent = y /\ k.pkts = x /\ k.files = child.files
       /\ k.section = child.section /\ k.delayed = child.delayed
       /\ k.kind = child.kind /\ k.crashed = child.crashed
  BY <1>4, <1>6, <1>7, <1>8, <1>9
<1>11. z \in 1 .. Len(disk)
  BY <1>2, <1>3, <1>4 DEF DumpcapInv
<1>12. disk[z] \in FileType
  BY <1>2, <1>11
<1>13. PICK b : b = [disk[z] EXCEPT !.pkts = @ + 1]
  OBVIOUS
<1>14. b \in FileType /\ b.kind = disk[z].kind
  BY <1>12, <1>13 DEF FileType
<1>15. e = [disk EXCEPT ![z] = b]
  BY <1>3, <1>13 DEF ChildWritesPacket
<1>16. e \in Seq(FileType) /\ Len(e) = Len(disk) /\ \A i \in 1 .. Len(disk) : e[i].kind = disk[i].kind
  BY <1>2, <1>11, <1>14, <1>15
<1>17. DumpcapInv(k, e)
  BY <1>2, <1>4, <1>10, <1>16, SMT DEF DumpcapInv
<1>18. child.unsent \in Nat /\ child.pkts \in Nat
  BY <1>2 DEF ChildType
<1>19. \A l \in ViewType : Final(l, child, disk) => Final(l, k, e)
  BY <1>4, <1>5, <1>10, <1>16, <1>18, SMT DEF Final, Latest, ViewType
<1>20. s.state # "STOPPED" => \E l : Tells(s, k, pipe, e, captures, l) /\ Final(l, k, e)
  BY <1>4, <1>10, <1>16, <1>19, NothingSent
<1>21. Len(disk) <= Len(e)
  BY <1>2, <1>16
<1>22. Good(cfg, s, gui, k, pipe, e, captures)
  BY <1>2, <1>4, <1>10, <1>16, <1>17, <1>20, <1>21, ChildGood
<1>23. QED
  BY <1>1, <1>3, <1>22

\* report_packet_count() sends messages.
LEMMA CountedType ==
    ASSUME NEW c \in ChildType
    PROVE  Counted(c) \in Seq(MessageType)
<1>1. CASE c.unsent > 0
  <2>1. PICK m : m = [type |-> "COUNT", n |-> c.unsent]
    OBVIOUS
  <2>2. m \in MessageType
    BY <2>1 DEF MessageType, ChildType
  <2>3. <<m>> \in Seq(MessageType)
    BY <2>2
  <2>4. QED
    BY <1>1, <2>1, <2>3 DEF Counted
<1>2. CASE ~(c.unsent > 0)
  BY <1>2 DEF Counted
<1>3. QED
  BY <1>1, <1>2

\* What dumpcap has not reported yet is sent.
LEMMA CountedSent ==
    ASSUME NEW p, NEW c \in ChildType, NEW q \in Seq(MessageType), NEW d, NEW n, NEW l,
           Tells(p, c, q, d, n, l), Final(l, c, d), c.unsent > 0 => c.section
    PROVE  /\ q \o Counted(c) \in Seq(MessageType)
           /\ \E a \in ViewType :
                /\ Tells(p, c, q \o Counted(c), d, n, a)
                /\ a.count = c.pkts /\ (a.running <=> c.section)
                /\ a.running => Latest(a.newest, c, d)
<1>1. c.unsent \in Nat /\ c.pkts \in Nat
  BY DEF ChildType
<1>2. l \in ViewType
  BY TellsType
<1>3. CASE c.unsent > 0
  <2>1. PICK m : m = [type |-> "COUNT", n |-> c.unsent]
    OBVIOUS
  <2>2. m \in MessageType /\ m.type = "COUNT" /\ m.n = c.unsent
    BY <1>1, <2>1 DEF MessageType
  <2>3. q \o Counted(c) = Append(q, m)
    BY <1>3, <2>1, <2>2, AppendIsConcat DEF Counted
  <2>4. Legal(l, m, c, d)
    BY <1>3, <2>2 DEF Legal, Final
  <2>5. Tells(p, c, Append(q, m), d, n, After(l, m))
    BY <2>2, <2>4, TellsSent
  <2>6. PICK a : a = After(l, m)
    OBVIOUS
  <2>7. a = [running |-> l.running, count |-> l.count + m.n, newest |-> l.newest,
             drops |-> l.drops]
    BY <2>2, <2>6 DEF After
  <2>8. a.count = c.pkts /\ (a.running <=> c.section) /\ (a.running => Latest(a.newest, c, d))
    BY <2>2, <2>7 DEF Final
  <2>9. a \in ViewType
    BY <1>2, <2>2, <2>6, AfterType
  <2>10. q \o Counted(c) \in Seq(MessageType)
    BY <2>2, <2>3
  <2>11. QED
    BY <2>3, <2>5, <2>6, <2>8, <2>9, <2>10
<1>4. CASE ~(c.unsent > 0)
  <2>1. q \o Counted(c) = q
    BY <1>4, ConcatEmptySeq DEF Counted
  <2>2. l.count = c.pkts /\ (l.running <=> c.section) /\ (l.running => Latest(l.newest, c, d))
    BY <1>1, <1>2, <1>4 DEF Final, ViewType
  <2>3. QED
    BY <1>2, <2>1, <2>2
<1>5. QED
  BY <1>3, <1>4

\* The same for a child that changed nothing else than what is not reported,
\* while it runs or closes its file.
LEMMA CountedGood ==
    ASSUME Good(cfg, s, gui, child, pipe, disk, captures), child.phase = "run",
           NEW k \in ChildType, k.phase \in {"run", "done"}, k.unsent = 0,
           k.pkts = child.pkts, k.files = child.files, k.kind = child.kind,
           k.section = child.section, k.delayed = child.delayed,
           k.phase = "run" => k.go = child.go
    PROVE  Good(cfg, s, gui, k, pipe \o Counted(child), disk, captures)
<1>1. child \in ChildType /\ pipe \in Seq(MessageType) /\ disk \in Seq(FileType)
      /\ DumpcapInv(child, disk) /\ Len(disk) \in Nat
  BY DEF Good, Consistent, SessionType
<1>2. child.files > 0 /\ (child.unsent > 0 => child.section)
  BY <1>1 DEF DumpcapInv
<1>3. PICK r : r = pipe \o Counted(child)
  OBVIOUS
<1>4. r \in Seq(MessageType)
  <2>1. Counted(child) \in Seq(MessageType)
    BY <1>1, CountedType
  <2>2. QED
    BY <1>1, <1>3, <2>1, ConcatProperties
<1>5. s.state # "STOPPED" => \E l : Tells(s, k, r, disk, captures, l) /\ Final(l, k, disk)
  <2>1. SUFFICES ASSUME s.state # "STOPPED"
                 PROVE  \E l : Tells(s, k, r, disk, captures, l) /\ Final(l, k, disk)
    OBVIOUS
  <2>2. PICK l : Tells(s, child, pipe, disk, captures, l) /\ Final(l, child, disk)
    BY <2>1 DEF Good, Consistent, PipeInv
  <2>3. PICK a \in ViewType :
          /\ Tells(s, child, r, disk, captures, a)
          /\ a.count = child.pkts /\ (a.running <=> child.section)
          /\ a.running => Latest(a.newest, child, disk)
    BY <1>1, <1>2, <1>3, <2>2, CountedSent
  <2>4. Len(disk) <= Len(disk)
    BY <1>1
  <2>5. Tells(s, k, r, disk, captures, a)
    BY <1>1, <1>2, <1>4, <2>3, <2>4, TellsWider DEF Unannounced
  <2>6. Final(a, k, disk)
    BY <2>3, SMT DEF Final, Latest, ViewType
  <2>7. QED
    BY <2>5, <2>6
<1>6. DumpcapInv(k, disk)
  BY <1>1, <1>2, SMT DEF DumpcapInv
<1>7. Len(disk) <= Len(disk) /\ child.phase \notin {"none", "exited"}
  BY <1>1
<1>8. child.phase \in {"run", "done"} /\ (child.phase = "run" => ~child.go) =>
        k.phase \in {"run", "done", "exited"} /\ (k.phase = "run" => ~k.go)
  OBVIOUS
<1>9. Good(cfg, s, gui, k, r, disk, captures)
  BY <1>1, <1>4, <1>5, <1>6, <1>7, <1>8, ChildGood
<1>10. QED
  BY <1>3, <1>9

\* dumpcap reports its packets.
LEMMA ChildReportsGood ==
    ASSUME Good(cfg, s, gui, child, pipe, disk, captures), ChildReports
    PROVE  /\ Good(cfg, s, gui, child', pipe', disk, captures)
           /\ UNCHANGED <<cfg, s, gui, disk, captures>>
<1>1. UNCHANGED <<cfg, s, gui, disk, captures>> /\ pipe' = pipe \o Counted(child)
  BY DEF ChildReports, ChildStep, Send
<1>2. child \in ChildType
  BY DEF Good, Consistent, SessionType
<1>3. PICK k : k = child'
  OBVIOUS
<1>4. k = [child EXCEPT !.unsent = 0] /\ child.phase = "run"
  BY <1>3 DEF ChildReports, ChildStep
<1>5. [child EXCEPT !.unsent = 0] \in ChildType
  BY <1>2, Zenon DEF ChildType
<1>6. /\ k \in ChildType /\ k.phase = child.phase /\ k.go = child.go
      /\ k.unsent = 0 /\ k.pkts = child.pkts /\ k.files = child.files /\ k.kind = child.kind
      /\ k.section = child.section /\ k.delayed = child.delayed
  BY <1>2, <1>4, <1>5, SMT DEF ChildType
<1>7. Good(cfg, s, gui, k, pipe \o Counted(child), disk, captures)
  BY <1>4, <1>6, CountedGood
<1>8. QED
  BY <1>1, <1>3, <1>7

\* dumpcap closes its file with everything reported.
LEMMA ChildClosesOutputGood ==
    ASSUME Good(cfg, s, gui, child, pipe, disk, captures), ChildClosesOutput
    PROVE  /\ Good(cfg, s, gui, child', pipe', disk, captures)
           /\ UNCHANGED <<cfg, s, gui, disk, captures>>
<1>1. UNCHANGED <<cfg, s, gui, disk, captures>> /\ pipe' = pipe \o Counted(child)
  BY DEF ChildClosesOutput, ChildStep, Send
<1>2. child \in ChildType
  BY DEF Good, Consistent, SessionType
<1>3. PICK k : k = child'
  OBVIOUS
<1>4. k = [child EXCEPT !.phase = "done", !.unsent = 0] /\ child.phase = "run"
  BY <1>3 DEF ChildClosesOutput, ChildStep
<1>5. [child EXCEPT !.phase = "done", !.unsent = 0] \in ChildType
  BY <1>2, Zenon DEF ChildType
<1>6. /\ k \in ChildType /\ k.phase = "done"
      /\ k.unsent = 0 /\ k.pkts = child.pkts /\ k.files = child.files /\ k.kind = child.kind
      /\ k.section = child.section /\ k.delayed = child.delayed
  BY <1>2, <1>4, <1>5, SMT DEF ChildType
<1>7. Good(cfg, s, gui, k, pipe \o Counted(child), disk, captures)
  BY <1>4, <1>6, CountedGood
<1>8. QED
  BY <1>1, <1>3, <1>7

\* dumpcap sends its last message and exits.
LEMMA LastMessageGood ==
    ASSUME Good(cfg, s, gui, child, pipe, disk, captures),
           NEW m \in MessageType, NEW k \in ChildType, k.phase = "exited",
           k.unsent = child.unsent, k.pkts = child.pkts, k.files = child.files,
           k.kind = child.kind, child.unsent = 0,
           k.section = child.section, k.delayed = child.delayed,
           \/ m.type = "ERROR" /\ child.phase = "open"
           \/ m.type = "DROPS" /\ child.phase = "done"
    PROVE  Good(cfg, s, gui, k, pipe \o <<m>>, disk, captures)
<1>1. child \in ChildType /\ pipe \in Seq(MessageType) /\ disk \in Seq(FileType)
      /\ DumpcapInv(child, disk) /\ Len(disk) \in Nat
  BY DEF Good, Consistent, SessionType
<1>2. PICK r : r = pipe \o <<m>>
  OBVIOUS
<1>3. r = Append(pipe, m) /\ r \in Seq(MessageType)
  BY <1>1, <1>2, AppendIsConcat, AppendProperties
<1>4. s.state # "STOPPED" => \E l : Tells(s, k, r, disk, captures, l) /\ Final(l, k, disk)
  <2>1. SUFFICES ASSUME s.state # "STOPPED"
                 PROVE  \E l : Tells(s, k, r, disk, captures, l) /\ Final(l, k, disk)
    OBVIOUS
  <2>2. PICK l : Tells(s, child, pipe, disk, captures, l) /\ Final(l, child, disk)
    BY <2>1 DEF Good, Consistent, PipeInv
  <2>3. Len(disk) <= Len(disk)
    BY <1>1
  <2>4. Tells(s, k, pipe, disk, captures, l)
    BY <1>1, <2>2, <2>3, TellsWider DEF Unannounced
  <2>5. child.files \in Nat /\ l \in ViewType
    BY <1>1, <2>2, TellsType DEF ChildType
  <2>6. CASE m.type = "ERROR" /\ child.phase = "open"
    <3>1. Legal(l, m, k, disk)
      BY <2>6 DEF Legal
    <3>2. Tells(s, k, r, disk, captures, After(l, m))
      BY <1>1, <1>3, <2>4, <3>1, TellsSent
    <3>3. After(l, m) = l
      BY <2>6 DEF After
    <3>4. ~l.running
      BY <1>1, <2>2, <2>6 DEF Final, DumpcapInv
    <3>5. Final(l, k, disk)
      BY <2>2, <3>4 DEF Final
    <3>6. QED
      BY <3>2, <3>3, <3>5
  <2>7. CASE m.type = "DROPS" /\ child.phase = "done"
    <3>1. l.running \/ Unannounced(k)
      BY <1>1, <2>2, <2>7 DEF Final, DumpcapInv, Unannounced
    <3>2. Legal(l, m, k, disk)
      BY <2>7, <3>1 DEF Legal
    <3>3. Tells(s, k, r, disk, captures, After(l, m))
      BY <1>1, <1>3, <2>4, <3>2, TellsSent
    <3>4. PICK a : a = After(l, m)
      OBVIOUS
    <3>5. a = [running |-> l.running, count |-> l.count, newest |-> l.newest, drops |-> TRUE]
      BY <2>7, <3>4 DEF After
    <3>6. Final(a, k, disk)
      BY <2>2, <3>5 DEF Final, Latest
    <3>7. QED
      BY <3>3, <3>4, <3>6
  <2>8. QED
    BY <2>6, <2>7
<1>5. DumpcapInv(k, disk)
  BY <1>1, SMT DEF DumpcapInv
<1>6. Len(disk) <= Len(disk) /\ child.phase \notin {"none", "exited"}
  BY <1>1
<1>7. child.phase \in {"run", "done"} /\ (child.phase = "run" => ~child.go) =>
        k.phase \in {"run", "done", "exited"} /\ (k.phase = "run" => ~k.go)
  OBVIOUS
<1>8. Good(cfg, s, gui, k, r, disk, captures)
  BY <1>1, <1>3, <1>4, <1>5, <1>6, <1>7, ChildGood
<1>9. QED
  BY <1>2, <1>8

\* dumpcap exits after the drops, or after an error before it had a file.
LEMMA ChildEndsGood ==
    ASSUME Good(cfg, s, gui, child, pipe, disk, captures), ChildExits \/ ChildFailsToStart
    PROVE  /\ Good(cfg, s, gui, child', pipe', disk, captures)
           /\ UNCHANGED <<cfg, s, gui, disk, captures>>
<1>1. UNCHANGED <<cfg, s, gui, disk, captures>>
  BY DEF ChildExits, ChildFailsToStart, ChildStep
<1>2. child \in ChildType /\ DumpcapInv(child, disk)
  BY DEF Good, Consistent, SessionType
<1>3. PICK k : k = child'
  OBVIOUS
<1>4. k = [child EXCEPT !.phase = "exited"]
  BY <1>3 DEF ChildExits, ChildFailsToStart, ChildStep
<1>5. [child EXCEPT !.phase = "exited"] \in ChildType
  BY <1>2, Zenon DEF ChildType
<1>6. /\ k \in ChildType /\ k.phase = "exited" /\ k.unsent = child.unsent
      /\ k.pkts = child.pkts /\ k.files = child.files /\ k.kind = child.kind
      /\ k.section = child.section /\ k.delayed = child.delayed
  BY <1>2, <1>4, <1>5, SMT DEF ChildType
<1>7. PICK m : /\ pipe' = pipe \o <<m>>
               /\ \/ m = [type |-> "ERROR"] /\ child.phase = "open"
                  \/ m = [type |-> "DROPS"] /\ child.phase = "done"
  BY DEF ChildExits, ChildFailsToStart, Send
<1>8. /\ m \in MessageType
      /\ \/ m.type = "ERROR" /\ child.phase = "open"
         \/ m.type = "DROPS" /\ child.phase = "done"
  BY <1>7 DEF MessageType
<1>9. child.unsent = 0
  BY <1>2, <1>7 DEF DumpcapInv
<1>10. Good(cfg, s, gui, k, pipe \o <<m>>, disk, captures)
  BY <1>6, <1>8, <1>9, LastMessageGood
<1>11. QED
  BY <1>1, <1>3, <1>7, <1>10

\* What the name of a new file is delayed to.
LEMMA DelayedType ==
    ASSUME cfg \in ConfigType, disk \in Seq(FileType)
    PROVE  Delayed \in Nat /\ cfg.passthrough \in BOOLEAN
<1>1. cfg.passthrough \in BOOLEAN
  BY DEF ConfigType
<1>2. QED
  BY <1>1 DEF Delayed

\* A new file: the packets of the old one are reported, then the file is, or it
\* is delayed.
LEMMA NewOutputGood ==
    ASSUME cfg \in ConfigType, Good(cfg, s, gui, child, pipe, disk, captures), NewOutput,
           PassInv(cfg, child), child.phase \in {"open", "run"},
           NEW k \in ChildType, k.phase = "run", k.go = child.go, k.unsent = 0,
           k.pkts = child.pkts, k.files = child.files + 1, k.kind = child.kind,
           k.delayed = Delayed,
           child.phase = "open" => k.section = ~cfg.passthrough,
           child.phase = "run" => k.section = child.section
    PROVE  Good(cfg, s, gui, k, pipe', disk', captures)
<1>1. child \in ChildType /\ pipe \in Seq(MessageType) /\ disk \in Seq(FileType)
      /\ DumpcapInv(child, disk) /\ Len(disk) \in Nat
  BY DEF Good, Consistent, SessionType
<1>2. PICK b, e, m, q :
        /\ b = [kind |-> child.kind, by |-> child.by, pkts |-> 0]
        /\ e = Append(disk, b)
        /\ m = [type |-> "FILE", file |-> Len(disk) + 1]
        /\ q = pipe \o Counted(child)
  OBVIOUS
<1>3. b \in FileType /\ b.kind = child.kind
  BY <1>1, <1>2 DEF FileType, ChildType
<1>4. m \in MessageType /\ m.type = "FILE" /\ m.file = Len(disk) + 1
  BY <1>1, <1>2 DEF MessageType
<1>5. e \in Seq(FileType) /\ Len(e) = Len(disk) + 1 /\ e[Len(disk) + 1] = b
      /\ \A i \in 1 .. Len(disk) : e[i] = disk[i]
  BY <1>1, <1>2, <1>3, AppendProperties
<1>6. Counted(child) \in Seq(MessageType)
  BY <1>1, CountedType
<1>7. q \in Seq(MessageType)
  BY <1>1, <1>2, <1>6, ConcatProperties
<1>8. child.files \in Nat /\ child.pkts \in Nat /\ k.files \in Nat /\ k.files > 0
  BY <1>1 DEF ChildType
<1>9. e = disk'
  BY <1>2 DEF NewOutput
<1>10. Len(disk) <= Len(e) /\ Len(e) \in Nat /\ \A i \in 1 .. Len(disk) : e[i].kind = disk[i].kind
  BY <1>1, <1>5
<1>11. ASSUME s.state # "STOPPED"
       PROVE  \E a \in ViewType :
                 /\ Tells(s, k, q, e, captures, a)
                 /\ a.count = child.pkts /\ (a.running <=> child.section)
                 /\ a.running => Latest(a.newest, child, disk)
  <2>1. PICK l : Tells(s, child, pipe, disk, captures, l) /\ Final(l, child, disk)
    BY <1>11 DEF Good, Consistent, PipeInv
  <2>2. child.unsent > 0 => child.section
    BY <1>1 DEF DumpcapInv
  <2>3. PICK a \in ViewType :
          /\ Tells(s, child, q, disk, captures, a)
          /\ a.count = child.pkts /\ (a.running <=> child.section)
          /\ a.running => Latest(a.newest, child, disk)
    BY <1>1, <1>2, <2>1, <2>2, CountedSent
  <2>4. Unannounced(child) => Unannounced(k)
    BY DEF Unannounced
  <2>5. Tells(s, k, q, e, captures, a)
    BY <1>1, <1>7, <1>8, <1>10, <2>3, <2>4, TellsWider
  <2>6. QED
    BY <2>3, <2>5
<1>12. child.phase = "open" => ~child.section /\ child.files = 0
  BY <1>1 DEF DumpcapInv
<1>13. child.phase = "run" => child.files > 0
  BY <1>1 DEF DumpcapInv
<1>14. /\ child.phase \notin {"none", "exited"}
       /\ (child.phase \in {"run", "done"} /\ (child.phase = "run" => ~child.go) =>
             k.phase \in {"run", "done", "exited"} /\ (k.phase = "run" => ~k.go))
  OBVIOUS
<1>15. DumpcapInv(k, e)
  <2>1. k.delayed = 0 \/ k.delayed = Len(disk) + 1
    BY DEF Delayed
  <2>2. k.delayed # 0 =>
          k.delayed = Len(e) /\ k.delayed \in 1 .. Len(e) /\ e[k.delayed].kind = k.kind
    BY <1>1, <1>3, <1>5, <2>1
  <2>3. QED
    BY <1>1, <1>5, <1>8, <2>2 DEF DumpcapInv
<1>16. CASE cfg.passthrough
  <2>1. q = pipe'
    <3>1. pipe' = pipe \o (Counted(child) \o << >>)
      BY <1>16 DEF NewOutput, Send
    <3>2. Counted(child) \o << >> = Counted(child)
      BY <1>6, ConcatEmptySeq
    <3>3. QED
      BY <1>2, <3>1, <3>2
  <2>2. k.delayed = Len(disk) + 1 /\ (k.section <=> child.section)
    BY <1>12, <1>16 DEF Delayed
  <2>3. s.state # "STOPPED" => \E l : Tells(s, k, q, e, captures, l) /\ Final(l, k, e)
    <3>1. SUFFICES ASSUME s.state # "STOPPED"
                   PROVE  \E l : Tells(s, k, q, e, captures, l) /\ Final(l, k, e)
      OBVIOUS
    <3>2. PICK a \in ViewType :
             /\ Tells(s, k, q, e, captures, a)
             /\ a.count = child.pkts /\ (a.running <=> child.section)
             /\ a.running => Latest(a.newest, child, disk)
      BY <1>11, <3>1
    <3>3. a.running => Latest(a.newest, k, e)
      <4>1. a.newest \in Nat
        BY DEF ViewType
      <4>2. child.section => child.files > 0
        BY <1>1 DEF DumpcapInv
      <4>3. a.running => a.newest <= Len(disk) /\ a.newest > Len(disk) - child.files
        BY <1>1, <1>8, <3>2, <4>1, <4>2 DEF Latest
      <4>4. k.delayed # 0
        BY <1>1, <2>2
      <4>5. a.running => a.newest <= Len(e) /\ a.newest > Len(e) - k.files
        BY <1>1, <1>5, <1>8, <4>1, <4>3
      <4>6. QED
        BY <4>4, <4>5 DEF Latest
    <3>4. a.count + k.unsent = k.pkts
      BY <1>8, <3>2
    <3>5. Final(a, k, e)
      BY <2>2, <3>2, <3>3, <3>4 DEF Final
    <3>6. QED
      BY <3>2, <3>5
  <2>4. Good(cfg, s, gui, k, q, e, captures)
    BY <1>5, <1>7, <1>10, <1>14, <1>15, <2>3, ChildGood
  <2>5. QED
    BY <1>9, <2>1, <2>4
<1>17. CASE ~cfg.passthrough
  <2>1. PICK r : r = Append(q, m)
    OBVIOUS
  <2>2. r \in Seq(MessageType)
    BY <1>4, <1>7, <2>1, AppendProperties
  <2>3. r = pipe'
    <3>1. pipe' = pipe \o (Counted(child) \o <<m>>)
      BY <1>2, <1>17 DEF NewOutput, Send
    <3>2. <<m>> \in Seq(MessageType)
      BY <1>4
    <3>3. (pipe \o Counted(child)) \o <<m>> = pipe \o (Counted(child) \o <<m>>)
      BY <1>1, <1>6, <3>2, ConcatAssociative
    <3>4. r = q \o <<m>>
      BY <1>4, <1>7, <2>1, AppendIsConcat
    <3>5. QED
      BY <1>2, <3>1, <3>3, <3>4
  <2>4. k.section
    BY <1>13, <1>17 DEF PassInv
  <2>5. s.state # "STOPPED" => \E l : Tells(s, k, r, e, captures, l) /\ Final(l, k, e)
    <3>1. SUFFICES ASSUME s.state # "STOPPED"
                   PROVE  \E l : Tells(s, k, r, e, captures, l) /\ Final(l, k, e)
      OBVIOUS
    <3>2. PICK a \in ViewType : Tells(s, k, q, e, captures, a) /\ a.count = child.pkts
      BY <1>11, <3>1
    <3>3. Legal(a, m, k, e)
      BY <1>1, <1>3, <1>4, <1>5, <1>8 DEF Legal
    <3>4. Tells(s, k, r, e, captures, After(a, m))
      BY <1>4, <1>7, <2>1, <3>2, <3>3, TellsSent
    <3>5. PICK z : z = After(a, m)
      OBVIOUS
    <3>6. z = [running |-> TRUE, count |-> a.count, newest |-> m.file, drops |-> FALSE]
      BY <1>4, <3>5 DEF After
    <3>7. Latest(z.newest, k, e) /\ z.running
      BY <1>4, <1>5, <3>6 DEF Latest
    <3>8. z.count + k.unsent = k.pkts
      BY <1>8, <3>2, <3>6
    <3>9. Final(z, k, e)
      BY <2>4, <3>7, <3>8 DEF Final
    <3>10. QED
      BY <3>4, <3>5, <3>9
  <2>6. Good(cfg, s, gui, k, r, e, captures)
    BY <1>5, <1>10, <1>14, <1>15, <2>2, <2>5, ChildGood
  <2>7. QED
    BY <1>9, <2>3, <2>6
<1>18. QED
  BY <1>16, <1>17

\* A section header is passed through: the session is told of the file.
LEMMA ChildPassesSectionGood ==
    ASSUME Good(cfg, s, gui, child, pipe, disk, captures), ChildPassesSection
    PROVE  /\ Good(cfg, s, gui, child', pipe', disk, captures)
           /\ UNCHANGED <<cfg, s, gui, disk, captures>>
<1>1. UNCHANGED <<cfg, s, gui, disk, captures>>
  BY DEF ChildPassesSection, ChildStep
<1>2. child \in ChildType /\ pipe \in Seq(MessageType) /\ disk \in Seq(FileType)
      /\ DumpcapInv(child, disk) /\ Len(disk) \in Nat
  BY DEF Good, Consistent, SessionType
<1>3. PICK k, b, m, r : /\ k = child' /\ b = TRUE
                        /\ m = [type |-> "FILE", file |-> child.delayed] /\ r = Append(pipe, m)
  OBVIOUS
<1>4. k = [child EXCEPT !.delayed = 0, !.section = b] /\ b \in BOOLEAN
      /\ child.phase = "run" /\ child.delayed # 0
  BY <1>3 DEF ChildPassesSection, ChildStep
<1>5. [child EXCEPT !.delayed = 0, !.section = b] \in ChildType
  BY <1>2, <1>4, Zenon DEF ChildType
<1>6. /\ k \in ChildType /\ k.phase = child.phase /\ k.go = child.go
      /\ k.unsent = child.unsent /\ k.pkts = child.pkts /\ k.files = child.files
      /\ k.section = b /\ k.delayed = 0
      /\ k.kind = child.kind /\ k.crashed = child.crashed
  BY <1>2, <1>4, <1>5, SMT DEF ChildType
<1>7. k.section
  BY <1>3, <1>6
<1>8. /\ child.delayed = Len(disk) /\ child.delayed \in 1 .. Len(disk)
      /\ disk[child.delayed].kind = child.kind /\ child.files > 0
  BY <1>2, <1>4 DEF DumpcapInv
<1>9. m \in MessageType /\ m.type = "FILE" /\ m.file = child.delayed
  BY <1>2, <1>3, <1>8 DEF MessageType
<1>10. r \in Seq(MessageType)
  BY <1>2, <1>3, <1>9, AppendProperties
<1>11. r = pipe'
  BY <1>2, <1>3, <1>9, AppendIsConcat DEF ChildPassesSection, Send
<1>12. DumpcapInv(k, disk)
  BY <1>2, <1>4, <1>6, <1>7, <1>8 DEF DumpcapInv
<1>13. s.state # "STOPPED" => \E l : Tells(s, k, r, disk, captures, l) /\ Final(l, k, disk)
  <2>1. SUFFICES ASSUME s.state # "STOPPED"
                 PROVE  \E l : Tells(s, k, r, disk, captures, l) /\ Final(l, k, disk)
    OBVIOUS
  <2>2. PICK a : Tells(s, child, pipe, disk, captures, a) /\ Final(a, child, disk)
    BY <2>1 DEF Good, Consistent, PipeInv
  <2>3. Len(disk) <= Len(disk) /\ (Unannounced(child) => Unannounced(k))
    BY <1>2, <1>4 DEF Unannounced
  <2>4. Tells(s, k, pipe, disk, captures, a)
    BY <1>2, <1>6, <2>2, <2>3, TellsWider
  <2>5. Legal(a, m, k, disk)
    BY <1>6, <1>8, <1>9 DEF Legal
  <2>6. Tells(s, k, r, disk, captures, After(a, m))
    BY <1>2, <1>3, <1>9, <2>4, <2>5, TellsSent
  <2>7. PICK z : z = After(a, m)
    OBVIOUS
  <2>8. z = [running |-> TRUE, count |-> a.count, newest |-> m.file, drops |-> FALSE]
    BY <1>9, <2>7 DEF After
  <2>9. Latest(z.newest, k, disk) /\ z.running
    BY <1>8, <1>9, <2>8 DEF Latest
  <2>10. z.count + k.unsent = k.pkts
    BY <1>6, <2>2, <2>8 DEF Final
  <2>11. Final(z, k, disk)
    BY <1>4, <1>6, <1>7, <2>9, <2>10 DEF Final
  <2>12. QED
    BY <2>6, <2>7, <2>11
<1>14. Len(disk) <= Len(disk) /\ child.phase \notin {"none", "exited"}
  BY <1>2, <1>4
<1>15. child.phase \in {"run", "done"} /\ (child.phase = "run" => ~child.go) =>
         k.phase \in {"run", "done", "exited"} /\ (k.phase = "run" => ~k.go)
  BY <1>4, <1>6
<1>16. Good(cfg, s, gui, k, r, disk, captures)
  BY <1>2, <1>6, <1>10, <1>12, <1>13, <1>14, <1>15, ChildGood
<1>17. QED
  BY <1>1, <1>3, <1>11, <1>16

\* dumpcap opens its first file.
LEMMA ChildOpenOutputGood ==
    ASSUME cfg \in ConfigType, Good(cfg, s, gui, child, pipe, disk, captures),
           PassInv(cfg, child), ChildOpenOutput
    PROVE  /\ Good(cfg, s, gui, child', pipe', disk', captures)
           /\ UNCHANGED <<cfg, s, gui, captures>>
<1>1. UNCHANGED <<cfg, s, gui, captures>> /\ NewOutput
  BY DEF ChildOpenOutput, ChildStep
<1>2. child \in ChildType /\ disk \in Seq(FileType) /\ DumpcapInv(child, disk)
  BY DEF Good, Consistent, SessionType
<1>3. PICK k, x, y : k = child' /\ x = Delayed /\ y = ~cfg.passthrough
  OBVIOUS
<1>a. x \in Nat /\ y \in BOOLEAN
  BY <1>2, <1>3, DelayedType
<1>4. k = [child EXCEPT !.phase = "run", !.files = 1, !.delayed = x, !.section = y]
      /\ child.phase = "open"
  BY <1>3 DEF ChildOpenOutput, ChildStep
<1>5. [child EXCEPT !.phase = "run", !.files = 1, !.delayed = x, !.section = y] \in ChildType
  BY <1>2, <1>a, Zenon DEF ChildType
<1>6. /\ k \in ChildType /\ k.phase = "run" /\ k.files = 1 /\ k.unsent = child.unsent
      /\ k.pkts = child.pkts /\ k.kind = child.kind /\ k.go = child.go
      /\ k.delayed = x /\ k.section = y
  BY <1>2, <1>4, <1>5, SMT DEF ChildType
<1>7. child.unsent = 0 /\ child.files = 0 /\ k.files = child.files + 1
  BY <1>2, <1>4, <1>6 DEF DumpcapInv
<1>8. Good(cfg, s, gui, k, pipe', disk', captures)
  BY <1>1, <1>3, <1>4, <1>6, <1>7, NewOutputGood
<1>9. QED
  BY <1>1, <1>3, <1>8

\* dumpcap goes on with another file.
LEMMA ChildSwitchesFileGood ==
    ASSUME cfg \in ConfigType, Good(cfg, s, gui, child, pipe, disk, captures),
           PassInv(cfg, child), ChildSwitchesFile
    PROVE  /\ Good(cfg, s, gui, child', pipe', disk', captures)
           /\ UNCHANGED <<cfg, s, gui, captures>>
<1>1. UNCHANGED <<cfg, s, gui, captures>> /\ NewOutput
  BY DEF ChildSwitchesFile, ChildStep
<1>2. child \in ChildType /\ disk \in Seq(FileType)
  BY DEF Good, Consistent, SessionType
<1>3. PICK k, x, y : k = child' /\ x = child.files + 1 /\ y = Delayed
  OBVIOUS
<1>4. x \in Nat /\ x > 0 /\ y \in Nat
  BY <1>2, <1>3, DelayedType DEF ChildType
<1>5. k = [child EXCEPT !.unsent = 0, !.files = x, !.delayed = y] /\ child.phase = "run"
  BY <1>3 DEF ChildSwitchesFile, ChildStep
<1>6. [child EXCEPT !.unsent = 0, !.files = x, !.delayed = y] \in ChildType
  BY <1>2, <1>4, Zenon DEF ChildType
<1>7. /\ k \in ChildType /\ k.phase = child.phase /\ k.files = x /\ k.unsent = 0
      /\ k.pkts = child.pkts /\ k.kind = child.kind /\ k.go = child.go
      /\ k.delayed = y /\ k.section = child.section
  BY <1>2, <1>5, <1>6, SMT DEF ChildType
<1>8. Good(cfg, s, gui, k, pipe', disk', captures)
  BY <1>1, <1>3, <1>4, <1>5, <1>7, NewOutputGood
<1>9. QED
  BY <1>1, <1>3, <1>8
-----------------------------------------------------------------------------
(* The messages of dumpcap.                                                  *)

\* A message is received: the session, now in state r, knows what it says.
LEMMA MessageGood ==
    ASSUME Good(cfg, s, gui, child, pipe, disk, captures), s.watch, pipe # << >>,
           NEW r \in ParentType, r.ok, r.state # "STOPPED", SameProcesses(s, r),
           r.terminate_id => s.terminate_id \/ s.pid \/ s.io,
           FilesInv(r, disk), ReadInv(r, disk), r.cf = "ABORTED" => s.cf = "ABORTED",
           r.state = "PREPARING" => s.state = "PREPARING" /\ r.save_file = s.save_file,
           \A v \in ViewType : Knows(s, v, captures) /\ Legal(v, Head(pipe), child, disk)
                                 => Knows(r, After(v, Head(pipe)), captures)
    PROVE  Good(cfg, r, gui, child, Tail(pipe), disk, captures)
<1>1. /\ SessionType(s, gui, child, pipe, disk) /\ WindowInv(s, gui) /\ ExtcapInv(s, cfg)
      /\ ChildInv(s, child, pipe, cfg) /\ DumpcapInv(child, disk) /\ TimerInv(s)
      /\ PipeInv(s, child, pipe, disk, captures)
  BY DEF Good, Consistent
<1>2. s.state # "STOPPED" /\ s.fork_child
  BY <1>1 DEF ChildInv
<1>3. pipe \in Seq(MessageType) /\ Tail(pipe) \in Seq(MessageType)
  BY <1>1 DEF SessionType
<1>4. SessionType(r, gui, child, Tail(pipe), disk)
  BY <1>1, <1>3 DEF SessionType
<1>5. WindowInv(r, gui)
  BY <1>1, <1>2 DEF WindowInv
<1>6. ExtcapInv(r, cfg) /\ TimerInv(r)
  BY <1>1, SMT DEF ExtcapInv, TimerInv, SameProcesses
<1>7. ChildInv(r, child, Tail(pipe), cfg)
  BY <1>2 DEF ChildInv, SameProcesses
<1>8. PICK l : Tells(s, child, pipe, disk, captures, l) /\ Final(l, child, disk)
  BY <1>1, <1>2 DEF PipeInv
<1>9. PICK v \in ViewType :
        /\ Knows(s, v, captures) /\ Legal(v, Head(pipe), child, disk)
        /\ Knows(r, After(v, Head(pipe)), captures)
             => Tells(r, child, Tail(pipe), disk, captures, l)
  BY <1>3, <1>8, TellsReceived
<1>10. Tells(r, child, Tail(pipe), disk, captures, l)
  BY <1>9
<1>11. PipeInv(r, child, Tail(pipe), disk, captures)
  BY <1>1, <1>8, <1>10 DEF PipeInv
<1>12. ShownInv(r, child, disk, captures)
  BY DEF ShownInv
<1>13. QED
  BY <1>1, <1>4, <1>5, <1>6, <1>7, <1>11, <1>12 DEF Good, Consistent

\* The message at the head of the pipe is one dumpcap may send now.
LEMMA HeadLegal ==
    ASSUME Good(cfg, s, gui, child, pipe, disk, captures), s.watch, pipe # << >>
    PROVE  /\ s.state # "STOPPED" /\ s.fork_child /\ Head(pipe) \in MessageType
           /\ \E v \in ViewType : Knows(s, v, captures) /\ Legal(v, Head(pipe), child, disk)
<1>1. /\ SessionType(s, gui, child, pipe, disk) /\ ChildInv(s, child, pipe, cfg)
      /\ PipeInv(s, child, pipe, disk, captures)
  BY DEF Good, Consistent
<1>2. s.state # "STOPPED" /\ s.fork_child
  BY <1>1 DEF ChildInv
<1>3. pipe \in Seq(MessageType) /\ Head(pipe) \in MessageType
  BY <1>1 DEF SessionType
<1>4. PICK l : Tells(s, child, pipe, disk, captures, l)
  BY <1>1, <1>2 DEF PipeInv
<1>5. QED
  BY <1>2, <1>3, <1>4, TellsReceived

\* An error message changes nothing.
LEMMA InputErrorGood ==
    ASSUME Good(cfg, s, gui, child, pipe, disk, captures), InputError
    PROVE  /\ Good(cfg, s', gui, child', pipe', disk, captures)
           /\ UNCHANGED <<cfg, gui, disk, captures>>
<1>1. s.watch /\ pipe # << >> /\ Head(pipe).type = "ERROR" /\ pipe' = Tail(pipe) /\ gui' = gui
      /\ Becomes(capture_input_error(s))
  BY DEF InputError, Receives
<1>2. s \in ParentType /\ s.ok /\ FilesInv(s, disk) /\ ReadInv(s, disk)
  BY DEF Good, Consistent, SessionType
<1>3. s.state # "STOPPED"
  BY <1>1, HeadLegal
<1>4. s.state \in {"PREPARING", "RUNNING"}
  BY <1>2, <1>3 DEF ParentType
<1>5. capture_input_error(s) = s
  BY <1>2, <1>4, AssertHolds DEF capture_input_error
<1>6. \A v \in ViewType : After(v, Head(pipe)) = v
  BY <1>1 DEF After
<1>7. SameProcesses(s, s)
  BY DEF SameProcesses
<1>8. Good(cfg, s, gui, child, Tail(pipe), disk, captures)
  BY <1>1, <1>2, <1>3, <1>6, <1>7, MessageGood
<1>9. QED
  BY <1>1, <1>5, <1>8, BecomesGood

\* The drops are those of this capture.
LEMMA InputDropsGood ==
    ASSUME Good(cfg, s, gui, child, pipe, disk, captures), InputDrops, captures \in Nat,
           s.state = "RUNNING"
    PROVE  /\ Good(cfg, s', gui, child', pipe', disk, captures)
           /\ UNCHANGED <<cfg, gui, disk, captures>>
<1>1. s.watch /\ pipe # << >> /\ Head(pipe).type = "DROPS" /\ pipe' = Tail(pipe) /\ gui' = gui
      /\ Becomes(capture_input_drops(s))
  BY DEF InputDrops, Receives
<1>2. s \in ParentType /\ s.ok /\ FilesInv(s, disk) /\ ReadInv(s, disk)
  BY DEF Good, Consistent, SessionType
<1>3. s.state = "RUNNING"
  OBVIOUS
<1>4. PICK r : r = [s EXCEPT !.drops = captures]
  OBVIOUS
<1>5. capture_input_drops(s) = r
  BY <1>2, <1>3, <1>4, AssertHolds DEF capture_input_drops
<1>6. /\ r \in ParentType
      /\ SameFile(s, r) /\ SameNames(s, r) /\ SameProcesses(s, r)
      /\ r.count = s.count /\ r.count_pending = s.count_pending /\ r.told = s.told
      /\ r.drops = captures /\ r.real_time_mode = s.real_time_mode
      /\ r.state = s.state /\ (s.ok => r.ok) /\ r.terminate_id = s.terminate_id
  BY <1>2, <1>4, DropsUpdate
<1>7. FilesInv(r, disk)
  BY <1>2, <1>6 DEF FilesInv, SameFile, SameNames, HasCapFile
<1>8. ReadInv(r, disk)
  BY <1>2, <1>6, SMT DEF ReadInv, SameFile, SameNames, HasCapFile
<1>9. ASSUME NEW v \in ViewType, Knows(s, v, captures), Legal(v, Head(pipe), child, disk)
      PROVE  Knows(r, After(v, Head(pipe)), captures)
  <2>1. After(v, Head(pipe)) =
          [running |-> v.running, count |-> v.count, newest |-> v.newest, drops |-> TRUE]
    BY <1>1 DEF After
  <2>2. QED
    BY <1>6, <1>9, <2>1 DEF Knows, SameNames
<1>10. r.cf = s.cf
  BY <1>6 DEF SameFile
<1>11. Good(cfg, r, gui, child, Tail(pipe), disk, captures)
  BY <1>1, <1>2, <1>3, <1>6, <1>7, <1>8, <1>9, <1>10, MessageGood
<1>12. QED
  BY <1>1, <1>5, <1>11, BecomesGood

\* The drops of a capture without a section header come before any file is known.
LEMMA InputDropsLost ==
    ASSUME Good(cfg, s, gui, child, pipe, disk, captures), InputDrops, captures \in Nat,
           PassInv(cfg, child), s.state # "RUNNING"
    PROVE  Lost'
<1>1. s.watch /\ pipe # << >> /\ Head(pipe).type = "DROPS" /\ pipe' = Tail(pipe) /\ gui' = gui
      /\ Becomes(capture_input_drops(s))
  BY DEF InputDrops, Receives
<1>2. /\ s \in ParentType /\ gui \in GuiType /\ child \in ChildType
      /\ pipe \in Seq(MessageType) /\ FilesInv(s, disk)
  BY DEF Good, Consistent, SessionType
<1>3. s.state # "STOPPED"
  BY <1>1, HeadLegal
<1>4. s.state = "PREPARING"
  BY <1>2, <1>3 DEF ParentType
<1>5. PICK v \in ViewType : Knows(s, v, captures) /\ Legal(v, Head(pipe), child, disk)
  BY <1>1, HeadLegal
<1>6. ~v.running
  BY <1>4, <1>5 DEF Knows
<1>7. Unannounced(child) /\ cfg.passthrough
  BY <1>1, <1>5, <1>6 DEF Legal, Unannounced, PassInv
<1>8. PICK b : b = FALSE
  OBVIOUS
<1>9. PICK r : r = [s EXCEPT !.ok = b, !.drops = captures, !.signalled = b]
  OBVIOUS
<1>10. (s.ok /\ s.state = "RUNNING") = b
  BY <1>4, <1>8
<1>11. s' = r
  <2>1. PICK x : x = [s EXCEPT !.ok = b]
    OBVIOUS
  <2>2. ws_assert(s, s.state = "RUNNING") = x
    BY <1>10, <2>1 DEF ws_assert
  <2>3. capture_input_drops(s) = [x EXCEPT !.drops = captures]
    BY <2>2 DEF capture_input_drops
  <2>4. s' = [[x EXCEPT !.drops = captures] EXCEPT !.signalled = b]
    BY <1>1, <1>8, <2>3 DEF Becomes
  <2>5. QED
    BY <1>9, <2>1, <2>4
<1>12. [s EXCEPT !.ok = b, !.drops = captures, !.signalled = b] \in ParentType
  <2>1. b \in BOOLEAN
    BY <1>8
  <2>2. QED
    BY <1>2, <2>1, Zenon DEF ParentType
<1>13. r \in ParentType /\ r.state = s.state /\ r.unlinked = s.unlinked /\ r.ok = b
  BY <1>2, <1>9, <1>12, SMT DEF ParentType
<1>14. child' \in ChildType /\ Unannounced(child')
  <2>1. CASE child' = child
    BY <1>2, <1>7, <2>1
  <2>2. CASE child' = Signalled(child)
    <3>1. Signalled(child) = child
      BY <1>7 DEF Signalled, Unannounced
    <3>2. QED
      BY <1>2, <1>7, <2>2, <3>1
  <2>3. QED
    BY <1>1, <2>1, <2>2 DEF Becomes
<1>15. cfg' = cfg /\ disk' = disk
  BY <1>1 DEF Becomes
<1>16. \A i \in s'.unlinked : i \in 1 .. Len(disk) /\ disk[i].kind = "temp"
  BY <1>2, <1>11, <1>13 DEF FilesInv
<1>17. Tail(pipe) \in Seq(MessageType)
  BY <1>1, <1>2
<1>18. s' \in ParentType /\ ~s'.ok /\ s'.state = "PREPARING"
  BY <1>4, <1>8, <1>11, <1>13
<1>19. QED
  BY <1>1, <1>2, <1>7, <1>14, <1>15, <1>16, <1>17, <1>18 DEF Lost

\* The file that is open has been written by dumpcap.
LEMMA OpenFileOnDisk ==
    ASSUME NEW p, NEW d, d \in Seq(FileType), FilesInv(p, d), HasCapFile(p)
    PROVE  d[p.filename].pkts \in Nat
<1>1. p.filename \in 1 .. Len(d)
  BY DEF FilesInv
<1>2. d[p.filename] \in FileType
  BY <1>1
<1>3. QED
  BY <1>2 DEF FileType

\* Packets are counted, and read if the file is open.
LEMMA InputPacketCountGood ==
    ASSUME Good(cfg, s, gui, child, pipe, disk, captures), InputPacketCount
    PROVE  /\ Good(cfg, s', gui, child', pipe', disk, captures)
           /\ UNCHANGED <<cfg, gui, disk, captures>>
<1>1. s.watch /\ pipe # << >> /\ Head(pipe).type = "COUNT" /\ pipe' = Tail(pipe) /\ gui' = gui
  BY DEF InputPacketCount, Receives
<1>2. PICK opens \in Opens : Becomes(capture_input_new_packets(s, Head(pipe).n, opens))
  BY DEF InputPacketCount
<1>3. opens \in BOOLEAN
  BY DEF Opens
<1>4. s \in ParentType /\ s.ok /\ FilesInv(s, disk) /\ ReadInv(s, disk)
      /\ disk \in Seq(FileType)
  BY DEF Good, Consistent, SessionType
<1>5. s.state = "RUNNING" /\ Head(pipe) \in MessageType
  BY <1>1, HeadLegal DEF Legal, Knows
<1>6. PICK n, r : n = Head(pipe).n /\ r = capture_input_new_packets(s, n, opens)
  OBVIOUS
<1>7. n \in Nat
  BY <1>1, <1>5, <1>6 DEF MessageType
<1>8. s.save_file # "NULL" /\ (s.real_time_mode => HasCapFile(s) /\ s.count_pending = 0)
  BY <1>4, <1>5 DEF ReadInv
<1>9. HasCapFile(s) => disk[s.filename].pkts \in Nat
  BY <1>4, OpenFileOnDisk
<1>10. /\ Counts(s, r, n)
       /\ ~s.real_time_mode =>
            /\ r.cf = (IF s.cf = "CLOSED" THEN "PENDING" ELSE s.cf)
            /\ r.read = s.read /\ r.count_pending = s.count_pending + n
       /\ s.real_time_mode =>
            /\ r.cf = s.cf /\ r.read <= s.read + n /\ r.count_pending = 0
  BY <1>3, <1>4, <1>6, <1>7, <1>8, <1>9, NewPacketsCounted
<1>11. /\ r \in ParentType /\ r.ok /\ SameProcesses(s, r) /\ SameNames(s, r)
       /\ r.count = s.count + n /\ r.told = s.told + n
       /\ r.real_time_mode = s.real_time_mode /\ r.drops = s.drops
       /\ r.filename = s.filename /\ r.unlinked = s.unlinked /\ r.state = s.state
       /\ (r.terminate_id => s.terminate_id \/ s.pid \/ s.io)
  BY <1>4, <1>10 DEF Counts
<1>12. s.real_time_mode \in BOOLEAN
  BY <1>4 DEF ParentType
<1>13. HasCapFile(r) <=> HasCapFile(s)
  BY <1>10, <1>12 DEF HasCapFile
<1>14. r.cf \in {"CLOSED", "PENDING"} => r.read = 0
  BY <1>4, <1>8, <1>10, <1>12, <1>13 DEF FilesInv, HasCapFile
<1>15. FilesInv(r, disk)
  BY <1>4, <1>11, <1>13, <1>14 DEF FilesInv, SameNames
<1>16. ReadInv(r, disk)
  <2>1. s.read \in Nat /\ s.told \in Nat /\ s.count_pending \in Nat /\ r.read \in Nat
    BY <1>4, <1>11 DEF ParentType
  <2>2. r.real_time_mode => r.cf # "PENDING" /\ r.count_pending = 0
    BY <1>4, <1>10, <1>11 DEF ReadInv
  <2>3. r.cf = "IN_PROGRESS" => s.cf = "IN_PROGRESS"
    BY <1>10, <1>12
  <2>4. s.cf = "IN_PROGRESS" => s.read + s.count_pending <= s.told
    BY <1>4 DEF ReadInv
  <2>5. r.cf = "IN_PROGRESS" => r.read + r.count_pending <= r.told
    <3>1. CASE s.real_time_mode
      BY <1>7, <1>8, <1>10, <1>11, <2>1, <2>3, <2>4, <3>1
    <3>2. CASE ~s.real_time_mode
      BY <1>7, <1>10, <1>11, <2>1, <2>3, <2>4, <3>2
    <3>3. QED
      BY <3>1, <3>2
  <2>6. r.cf # "DONE"
    BY <1>4, <1>5, <1>10, <1>12 DEF ReadInv
  <2>7. QED
    BY <1>4, <1>5, <1>11, <1>13, <2>2, <2>5, <2>6 DEF ReadInv, SameNames
<1>17. ASSUME NEW v \in ViewType, Knows(s, v, captures), Legal(v, Head(pipe), child, disk)
       PROVE  Knows(r, After(v, Head(pipe)), captures)
  <2>1. After(v, Head(pipe)) =
          [running |-> v.running, count |-> v.count + n, newest |-> v.newest,
           drops |-> v.drops]
    BY <1>1, <1>6 DEF After
  <2>2. QED
    BY <1>11, <1>17, <2>1 DEF Knows, SameNames
<1>18. r.cf = "ABORTED" => s.cf = "ABORTED"
  BY <1>10, <1>12
<1>19. Good(cfg, r, gui, child, Tail(pipe), disk, captures)
  BY <1>1, <1>5, <1>11, <1>15, <1>16, <1>17, <1>18, MessageGood
<1>20. QED
  BY <1>1, <1>2, <1>6, <1>19, BecomesGood
\* What capture_input_new_file() starts from.
LEMMA NewFileFacts ==
    ASSUME Good(cfg, s, gui, child, pipe, disk, captures), s.watch, pipe # << >>,
           Head(pipe).type = "FILE", NEW file, file = Head(pipe).file
    PROVE  /\ s.state \in {"PREPARING", "RUNNING"}
           /\ file \in 1 .. Len(disk) /\ file \in Nat /\ disk[file] \in FileType
           /\ disk[file].kind = child.kind /\ child.files > 0
           /\ s.save_file = "NULL" => ~HasCapFile(s) /\ child.kind = "temp"
           /\ HasCapFile(s) => disk[s.filename].pkts \in Nat
           /\ s.real_time_mode => s.cf # "PENDING" /\ s.count_pending = 0
<1>1. /\ s \in ParentType /\ FilesInv(s, disk) /\ ReadInv(s, disk) /\ disk \in Seq(FileType)
      /\ PipeInv(s, child, pipe, disk, captures)
  BY DEF Good, Consistent, SessionType
<1>2. s.state # "STOPPED"
  BY HeadLegal
<1>3. s.state \in {"PREPARING", "RUNNING"}
  BY <1>1, <1>2 DEF ParentType
<1>4. file \in 1 .. Len(disk) /\ disk[file].kind = child.kind /\ child.files > 0
  BY HeadLegal DEF Legal
<1>5. disk[file] \in FileType /\ file \in Nat
  BY <1>1, <1>4
<1>6. s.save_file = "NULL" => s.state = "PREPARING"
  BY <1>1, <1>3 DEF ReadInv
<1>7. s.save_file = "NULL" => ~HasCapFile(s) /\ child.kind = "temp"
  BY <1>1, <1>6 DEF ReadInv, HasCapFile, PipeInv
<1>8. HasCapFile(s) => disk[s.filename].pkts \in Nat
  BY <1>1, OpenFileOnDisk
<1>9. QED
  BY <1>1, <1>3, <1>4, <1>5, <1>7, <1>8 DEF ReadInv

\* Only temporary files are marked so and removed.
LEMMA NewFileFiles ==
    ASSUME NEW p, NEW r, NEW d, NEW file \in 1 .. Len(d), FilesInv(p, d), NewFile(p, r, file),
           p.save_file = "NULL" => d[file].kind = "temp"
    PROVE  /\ r.is_tempfile => r.newest \in 1 .. Len(d) /\ d[r.newest].kind = "temp"
           /\ \A i \in r.unlinked : i \in 1 .. Len(d) /\ d[i].kind = "temp"
<1>1. r.is_tempfile => r.newest \in 1 .. Len(d) /\ d[r.newest].kind = "temp"
  BY DEF NewFile
<1>2. ASSUME NEW i \in r.unlinked
      PROVE  i \in 1 .. Len(d) /\ d[i].kind = "temp"
  <2>1. CASE i \in p.unlinked
    BY <2>1 DEF FilesInv
  <2>2. CASE i \notin p.unlinked
    <3>1. HasCapFile(p) /\ p.is_tempfile /\ i = p.filename
      BY <1>2, <2>2 DEF NewFile
    <3>2. QED
      BY <3>1 DEF FilesInv
  <2>3. QED
    BY <2>1, <2>2
<1>3. QED
  BY <1>1, <1>2

\* A new file is opened, or will be.
LEMMA FileAcceptedGood ==
    ASSUME Good(cfg, s, gui, child, pipe, disk, captures), s.watch, pipe # << >>,
           Head(pipe).type = "FILE", NEW file, file = Head(pipe).file, NEW opens \in BOOLEAN,
           NEW r, r = capture_input_new_file(s, file, opens), ~s.real_time_mode \/ opens
    PROVE  r.save_file # "NULL" /\ Good(cfg, r, gui, child, Tail(pipe), disk, captures)
<1>1. /\ s \in ParentType /\ s.ok /\ FilesInv(s, disk) /\ ReadInv(s, disk)
      /\ disk \in Seq(FileType)
  BY DEF Good, Consistent, SessionType
<1>2. /\ s.state \in {"PREPARING", "RUNNING"}
      /\ file \in 1 .. Len(disk) /\ file \in Nat /\ disk[file] \in FileType
      /\ disk[file].kind = child.kind /\ child.files > 0
      /\ s.save_file = "NULL" => ~HasCapFile(s) /\ child.kind = "temp"
      /\ HasCapFile(s) => disk[s.filename].pkts \in Nat
      /\ s.real_time_mode => s.cf # "PENDING" /\ s.count_pending = 0
  BY NewFileFacts
<1>3. disk[file].kind \in {"temp", "user", "ring"}
  BY <1>2 DEF FileType
<1>4. /\ NewFile(s, r, file)
      /\ ~s.real_time_mode => NewFileLater(s, r, file)
      /\ s.real_time_mode /\ opens => NewFileOpened(s, r, file)
      /\ s.real_time_mode /\ ~opens => NewFileRefused(s, r)
  BY <1>1, <1>2, <1>3, NewFileNamed
<1>5. /\ r.is_tempfile => r.newest \in 1 .. Len(disk) /\ disk[r.newest].kind = "temp"
      /\ \A i \in r.unlinked : i \in 1 .. Len(disk) /\ disk[i].kind = "temp"
  BY <1>1, <1>2, <1>4, NewFileFiles
<1>6. s.real_time_mode \in BOOLEAN /\ s.read \in Nat
  BY <1>1 DEF ParentType
<1>7. ~HasCapFile(s) => s.read = 0
  BY <1>1 DEF FilesInv, HasCapFile
<1>8. /\ r.state = "RUNNING" /\ r.save_file = disk[file].kind
      /\ r.read = 0 /\ r.count_pending = 0
      /\ \/ r.cf = "IN_PROGRESS" /\ r.filename = file
         \/ r.cf \in {"CLOSED", "PENDING"} /\ ~s.real_time_mode
  <2>1. CASE ~s.real_time_mode
    BY <1>4, <1>7, <2>1 DEF NewFileLater
  <2>2. CASE s.real_time_mode
    BY <1>2, <1>4, <1>7, <2>2 DEF NewFileOpened
  <2>3. QED
    BY <1>6, <2>1, <2>2
<1>9. /\ r \in ParentType /\ r.ok /\ SameProcesses(s, r)
      /\ r.newest = file /\ r.told = 0 /\ r.count = s.count
      /\ r.real_time_mode = s.real_time_mode
      /\ (r.terminate_id => s.terminate_id \/ s.pid \/ s.io)
  BY <1>4 DEF NewFile
<1>10. FilesInv(r, disk)
  BY <1>2, <1>5, <1>8, <1>9 DEF FilesInv, HasCapFile
<1>11. ReadInv(r, disk)
  BY <1>2, <1>3, <1>8, <1>9, SMT DEF ReadInv, HasCapFile
<1>12. ASSUME NEW v \in ViewType, Knows(s, v, captures)
       PROVE  Knows(r, After(v, Head(pipe)), captures)
  <2>1. After(v, Head(pipe)) =
          [running |-> TRUE, count |-> v.count, newest |-> file, drops |-> FALSE]
    BY DEF After
  <2>2. QED
    BY <1>8, <1>9, <1>12, <2>1 DEF Knows
<1>13. r.cf # "ABORTED" /\ r.state # "STOPPED" /\ r.state # "PREPARING"
  BY <1>8
<1>14. Good(cfg, r, gui, child, Tail(pipe), disk, captures)
  BY <1>9, <1>10, <1>11, <1>12, <1>13, MessageGood
<1>15. QED
  BY <1>3, <1>8, <1>14

\* capture_input_closed() when nothing is open: only the state and the menus
\* change.
LEMMA BrakeCloses ==
    ASSUME NEW p \in ParentType, p.ok, p.state \in {"PREPARING", "RUNNING"},
           p.cf = "CLOSED", p.save_file = "NULL", NEW opens, NEW r,
           r = capture_input_closed(p, opens)
    PROVE  /\ r \in ParentType /\ r.ok /\ r.state = "STOPPED" /\ r.signalled = p.signalled
           /\ SameFile(p, r) /\ SameNames(p, r) /\ SameCounts(p, r) /\ SameProcesses(p, r)
           /\ r.terminate_id => p.terminate_id \/ p.pid \/ p.io
<1>1. ws_assert(p, p.state \in {"PREPARING", "RUNNING"}) = p
  BY AssertHolds
<1>2. ~HasCapFile(p)
  BY DEF HasCapFile
<1>3. ReadRest(p, opens) = p
  BY <1>2 DEF ReadRest, cf_close
<1>4. PICK m : m = CaptureFinished(p)
  OBVIOUS
<1>5. SameCore(p, m)
  BY <1>4, FinishedCore
<1>6. m.signalled = p.signalled
  <2>1. PICK w : w = [p EXCEPT !.start_enabled = ~FALSE, !.stop_enabled = FALSE]
    OBVIOUS
  <2>2. w.signalled = p.signalled
    BY <2>1, SMT DEF ParentType
  <2>3. [p EXCEPT !.start_enabled = ~FALSE, !.stop_enabled = FALSE] \in ParentType
    BY Zenon DEF ParentType
  <2>4. m = [w EXCEPT !.stopping = FALSE] /\ w \in ParentType
    BY <1>4, <2>1, <2>3 DEF CaptureFinished, setMenusForCaptureInProgress
  <2>5. QED
    BY <2>2, <2>4, SMT DEF ParentType
<1>7. m \in ParentType /\ m.ok /\ m.cf = p.cf /\ m.save_file = p.save_file
  BY <1>5 DEF SameCore, SameFile, SameNames
<1>8. PICK b : b = [m EXCEPT !.state = "STOPPED"]
  OBVIOUS
<1>9. /\ b \in ParentType
      /\ SameFile(m, b) /\ SameNames(m, b) /\ SameCounts(m, b) /\ SameProcesses(m, b)
      /\ b.state = "STOPPED" /\ (m.ok => b.ok) /\ b.terminate_id = m.terminate_id
  BY <1>7, <1>8, StateUpdate
<1>10. b.signalled = m.signalled
  BY <1>7, <1>8, SMT DEF ParentType
<1>11. ~HasCapFile(b) /\ b.save_file = "NULL"
  BY <1>7, <1>9 DEF SameFile, SameNames, HasCapFile
<1>12. r = b
  BY <1>1, <1>3, <1>4, <1>8, <1>11 DEF capture_input_closed, cf_close
<1>13. /\ SameFile(p, r) /\ SameNames(p, r) /\ SameCounts(p, r) /\ SameProcesses(p, r)
       /\ (r.terminate_id => p.terminate_id \/ p.pid \/ p.io)
  BY <1>5, <1>9, <1>12, SMT
     DEF SameCore, SameFile, SameNames, SameCounts, SameProcesses
<1>14. QED
  BY <1>6, <1>7, <1>9, <1>10, <1>12, <1>13

\* The sync pipe is not watched any more.
LEMMA WatchUpdate ==
    ASSUME NEW p \in ParentType, NEW q, q = [p EXCEPT !.watch = FALSE]
    PROVE  /\ q \in ParentType
           /\ SameFile(p, q) /\ SameNames(p, q) /\ SameCounts(p, q)
           /\ ~q.watch /\ q.fork_child = p.fork_child /\ q.pid = p.pid /\ q.io = p.io
           /\ q.extcap_alive = p.extcap_alive /\ q.signalled = p.signalled
           /\ q.state = p.state /\ (p.ok => q.ok) /\ q.terminate_id = p.terminate_id
<1>1. [p EXCEPT !.watch = FALSE] \in ParentType
  BY Zenon DEF ParentType
<1>2. q \in ParentType
  BY <1>1
<1>3. SameFile(p, q) /\ SameNames(p, q) /\ SameCounts(p, q)
  BY <1>2, SMT DEF ParentType, SameFile, SameNames, SameCounts
<1>4. /\ ~q.watch /\ q.fork_child = p.fork_child /\ q.pid = p.pid /\ q.io = p.io
      /\ q.extcap_alive = p.extcap_alive /\ q.signalled = p.signalled
      /\ q.state = p.state /\ (p.ok => q.ok) /\ q.terminate_id = p.terminate_id
  BY <1>2, SMT DEF ParentType
<1>5. QED
  BY <1>2, <1>3, <1>4

Brake(p, opens) == [capture_input_closed(sync_pipe_stop(p), opens) EXCEPT !.watch = FALSE]

\* The emergency brake: the session is over, and dumpcap was told to stop.
LEMMA FileRefusedGood ==
    ASSUME Good(cfg, s, gui, child, pipe, disk, captures), s.watch, pipe # << >>,
           Head(pipe).type = "FILE", NEW file, file = Head(pipe).file,
           "open" \in cfg.faults, s.real_time_mode,
           NEW opens \in BOOLEAN, ~opens, NEW p, p = capture_input_new_file(s, file, opens),
           NEW r, r = Brake(p, opens)
    PROVE  /\ p.save_file = "NULL" /\ r.signalled
           /\ Good(cfg, r, gui, Signalled(child), Tail(pipe), disk, captures)
<1>1. /\ SessionType(s, gui, child, pipe, disk) /\ FilesInv(s, disk) /\ ReadInv(s, disk)
      /\ WindowInv(s, gui) /\ ExtcapInv(s, cfg) /\ TimerInv(s)
      /\ ChildInv(s, child, pipe, cfg) /\ DumpcapInv(child, disk)
  BY DEF Good, Consistent
<1>2. /\ s.state \in {"PREPARING", "RUNNING"}
      /\ file \in 1 .. Len(disk) /\ file \in Nat /\ disk[file] \in FileType
      /\ disk[file].kind = child.kind /\ child.files > 0
      /\ s.save_file = "NULL" => ~HasCapFile(s) /\ child.kind = "temp"
      /\ HasCapFile(s) => disk[s.filename].pkts \in Nat
      /\ s.real_time_mode => s.cf # "PENDING" /\ s.count_pending = 0
  BY NewFileFacts
<1>3. s \in ParentType /\ s.ok /\ disk[file].kind \in {"temp", "user", "ring"}
  BY <1>1, <1>2 DEF SessionType, FileType
<1>4. NewFile(s, p, file) /\ NewFileRefused(s, p)
  BY <1>2, <1>3, NewFileNamed
<1>5. /\ p.is_tempfile => p.newest \in 1 .. Len(disk) /\ disk[p.newest].kind = "temp"
      /\ \A i \in p.unlinked : i \in 1 .. Len(disk) /\ disk[i].kind = "temp"
  <2>1. /\ FilesInv(s, disk) /\ file \in 1 .. Len(disk)
        /\ (s.save_file = "NULL" => disk[file].kind = "temp")
    BY <1>1, <1>2
  <2>2. QED
    BY <1>4, <2>1, NewFileFiles
<1>6. s.fork_child
  BY HeadLegal
<1>7. ~HasCapFile(s) => s.read = 0
  BY <1>1 DEF FilesInv, HasCapFile
<1>8. /\ p \in ParentType /\ p.ok /\ p.state \in {"PREPARING", "RUNNING"}
      /\ p.cf = "CLOSED" /\ p.save_file = "NULL" /\ p.read = 0 /\ p.count_pending = 0
      /\ p.fork_child /\ SameProcesses(s, p)
      /\ (p.terminate_id => s.terminate_id \/ s.pid \/ s.io)
  BY <1>2, <1>4, <1>6, <1>7 DEF NewFile, NewFileRefused, SameProcesses
<1>9. PICK x : x = sync_pipe_stop(p)
  OBVIOUS
<1>10. SameCore(p, x)
  BY <1>8, <1>9, StopChildCore
<1>11. x.signalled
  <2>1. x = [p EXCEPT !.signalled = p.signalled \/ p.fork_child]
    BY <1>9 DEF sync_pipe_stop
  <2>2. "signalled" \in DOMAIN p
    BY <1>8 DEF ParentType
  <2>3. x.signalled = (p.signalled \/ p.fork_child)
    BY <2>1, <2>2, Zenon
  <2>4. QED
    BY <1>8, <2>3
<1>12. /\ x \in ParentType /\ x.ok /\ x.state \in {"PREPARING", "RUNNING"}
       /\ x.cf = "CLOSED" /\ x.save_file = "NULL"
  BY <1>8, <1>10 DEF SameCore, SameFile, SameNames
<1>13. PICK y : y = capture_input_closed(x, opens)
  OBVIOUS
<1>14. /\ y \in ParentType /\ y.ok /\ y.state = "STOPPED" /\ y.signalled = x.signalled
       /\ SameFile(x, y) /\ SameNames(x, y) /\ SameCounts(x, y) /\ SameProcesses(x, y)
       /\ y.terminate_id => x.terminate_id \/ x.pid \/ x.io
  BY <1>12, <1>13, BrakeCloses
<1>15. r = [y EXCEPT !.watch = FALSE]
  BY <1>9, <1>13 DEF Brake
<1>16. /\ r \in ParentType
       /\ SameFile(y, r) /\ SameNames(y, r) /\ SameCounts(y, r)
       /\ ~r.watch /\ r.fork_child = y.fork_child /\ r.pid = y.pid /\ r.io = y.io
       /\ r.extcap_alive = y.extcap_alive /\ r.signalled = y.signalled
       /\ r.state = y.state /\ (y.ok => r.ok) /\ r.terminate_id = y.terminate_id
  BY <1>14, <1>15, WatchUpdate
<1>17. r.signalled /\ r.ok
  BY <1>11, <1>14, <1>16
<1>18. /\ r.state = "STOPPED" /\ r.cf = "CLOSED" /\ r.read = 0
       /\ r.unlinked = p.unlinked /\ r.newest = p.newest /\ r.is_tempfile = p.is_tempfile
       /\ r.count_pending = 0
  <2>1. r.state = "STOPPED"
    BY <1>14, <1>16
  <2>2. r.cf = p.cf /\ r.read = p.read /\ r.unlinked = p.unlinked
    BY <1>10, <1>14, <1>16, SMT DEF SameCore, SameFile
  <2>3. r.newest = p.newest /\ r.is_tempfile = p.is_tempfile
    BY <1>10, <1>14, <1>16, SMT DEF SameCore, SameNames
  <2>4. r.count_pending = p.count_pending
    BY <1>10, <1>14, <1>16, SMT DEF SameCore, SameCounts
  <2>5. QED
    BY <1>8, <2>1, <2>2, <2>3, <2>4
<1>19. /\ r.fork_child /\ r.pid = s.pid /\ r.io = s.io /\ r.extcap_alive = s.extcap_alive
       /\ (r.terminate_id => s.terminate_id \/ s.pid \/ s.io)
  <2>1. r.fork_child = p.fork_child /\ r.pid = p.pid /\ r.io = p.io
        /\ r.extcap_alive = p.extcap_alive
    BY <1>10, <1>14, <1>16, SMT DEF SameCore, SameProcesses
  <2>2. r.terminate_id => p.terminate_id \/ p.pid \/ p.io
    BY <1>10, <1>14, <1>16 DEF SameCore, SameProcesses
  <2>3. p.pid = s.pid /\ p.io = s.io /\ p.extcap_alive = s.extcap_alive
    BY <1>8 DEF SameProcesses
  <2>4. QED
    BY <1>8, <2>1, <2>2, <2>3
<1>20. PICK k : k = Signalled(child)
  OBVIOUS
<1>21. /\ k \in ChildType
       /\ k.unsent = child.unsent /\ k.pkts = child.pkts /\ k.files = child.files
       /\ k.section = child.section /\ k.delayed = child.delayed
       /\ k.kind = child.kind
       /\ \/ k.phase = child.phase /\ k.crashed = child.crashed /\ child.phase # "exec"
          \/ k.phase = "exited" /\ child.phase = "exec" /\ k.crashed
       /\ k.phase \in {"open", "run"} => ~k.go
  BY <1>1, <1>20, SignalledChild DEF SessionType
<1>22. child.phase \notin {"exec", "setup", "open"}
  BY <1>1, <1>2 DEF DumpcapInv
<1>23. SessionType(r, gui, k, Tail(pipe), disk)
  <2>1. pipe \in Seq(MessageType) /\ gui \in GuiType /\ disk \in Seq(FileType)
    BY <1>1 DEF SessionType
  <2>2. Tail(pipe) \in Seq(MessageType)
    BY <2>1
  <2>3. QED
    BY <1>16, <1>17, <1>21, <2>1, <2>2 DEF SessionType
<1>24. FilesInv(r, disk)
  BY <1>5, <1>18 DEF FilesInv, HasCapFile
<1>25. ReadInv(r, disk)
  BY <1>18 DEF ReadInv
<1>26. WindowInv(r, gui)
  BY <1>1, <1>18 DEF WindowInv
<1>27. ExtcapInv(r, cfg) /\ TimerInv(r)
  BY <1>1, <1>19, SMT DEF ExtcapInv, TimerInv
<1>28. ChildInv(r, k, Tail(pipe), cfg)
  BY <1>16, <1>18, <1>21, <1>22, SMT DEF ChildInv
<1>29. DumpcapInv(k, disk)
  BY <1>1, <1>21, SMT DEF DumpcapInv
<1>30. PipeInv(r, k, Tail(pipe), disk, captures) /\ ShownInv(r, k, disk, captures)
  BY <1>18 DEF PipeInv, ShownInv
<1>31. Good(cfg, r, gui, k, Tail(pipe), disk, captures)
  BY <1>23, <1>24, <1>25, <1>26, <1>27, <1>28, <1>29, <1>30 DEF Good, Consistent
<1>32. QED
  BY <1>8, <1>17, <1>20, <1>31

\* SP_FILE: the file is taken, or the emergency brake is pulled.
LEMMA InputFileGood ==
    ASSUME Good(cfg, s, gui, child, pipe, disk, captures), InputFile
    PROVE  /\ Good(cfg, s', gui, child', pipe', disk, captures)
           /\ UNCHANGED <<cfg, gui, disk, captures>>
<1>1. s.watch /\ pipe # << >> /\ Head(pipe).type = "FILE" /\ pipe' = Tail(pipe) /\ gui' = gui
  BY DEF InputFile, Receives
<1>2. PICK file : file = Head(pipe).file
  OBVIOUS
<1>3. PICK opens \in Opens :
         LET p == capture_input_new_file(s, file, opens) IN
         IF p.save_file = "NULL"
         THEN Becomes([capture_input_closed(sync_pipe_stop(p), opens)
                         EXCEPT !.watch = FALSE])
         ELSE Becomes(p)
  BY <1>2 DEF InputFile
<1>4. opens \in BOOLEAN /\ (~opens => "open" \in cfg.faults)
  BY DEF Opens
<1>5. s.real_time_mode \in BOOLEAN
  BY DEF Good, Consistent, SessionType, ParentType
<1>6. PICK p, r : /\ p = capture_input_new_file(s, file, opens)
                  /\ r = [capture_input_closed(sync_pipe_stop(p), opens) EXCEPT !.watch = FALSE]
  OBVIOUS
<1>7. IF p.save_file = "NULL" THEN Becomes(r) ELSE Becomes(p)
  BY <1>3, <1>6
<1>8. CASE ~s.real_time_mode \/ opens
  <2>1. p.save_file # "NULL" /\ Good(cfg, p, gui, child, Tail(pipe), disk, captures)
    BY <1>1, <1>2, <1>4, <1>6, <1>8, FileAcceptedGood
  <2>2. QED
    BY <1>1, <1>7, <2>1, BecomesGood
<1>9. CASE s.real_time_mode /\ ~opens
  <2>1. r = Brake(p, opens)
    BY <1>6 DEF Brake
  <2>2. /\ p.save_file = "NULL" /\ r.signalled
        /\ Good(cfg, r, gui, Signalled(child), Tail(pipe), disk, captures)
    BY <1>1, <1>2, <1>4, <1>6, <1>9, <2>1, FileRefusedGood
  <2>3. Becomes(r)
    BY <1>7, <2>2
  <2>4. s' = [r EXCEPT !.signalled = FALSE] /\ child' = Signalled(child)
        /\ UNCHANGED <<cfg, disk, captures>>
    BY <2>2, <2>3 DEF Becomes
  <2>5. r \in ParentType
    BY <2>2 DEF Good, Consistent, SessionType
  <2>6. SameCore(r, s')
    BY <2>4, <2>5, SignalCleared
  <2>7. Good(cfg, s', gui, Signalled(child), Tail(pipe), disk, captures)
    BY <2>2, <2>6, CoreGood
  <2>8. QED
    BY <1>1, <2>4, <2>7
<1>10. QED
  BY <1>5, <1>8, <1>9
-----------------------------------------------------------------------------
(* The ends of dumpcap and of the extcap.                                    *)

\* Whether dumpcap is to be stopped after the extcaps is no part of the core.
LEMMA StopAfterCore ==
    ASSUME NEW p \in ParentType, NEW x \in BOOLEAN, NEW q,
           q = [p EXCEPT !.stop_after_extcaps = x]
    PROVE  SameCore(p, q)
<1>1. [p EXCEPT !.stop_after_extcaps = x] \in ParentType
  BY Zenon DEF ParentType
<1>2. q \in ParentType
  BY <1>1
<1>3. QED
  BY <1>2, SMT DEF ParentType, SameCore, SameFile, SameNames, SameCounts, SameProcesses

\* The session ends with dumpcap and the extcap gone: what is shown is what
\* dumpcap left.
LEMMA EndGood ==
    ASSUME NEW p, NEW g, NEW q, Consistent(cfg, p, g, child, q, disk, captures),
           p.state # "STOPPED", ~p.fork_child, ~p.pid, ~p.io, ~p.terminate_id,
           NEW opens \in BOOLEAN, NEW r, r = capture_input_closed(p, opens)
    PROVE  Good(cfg, r, g, child, q, disk, captures)
<1>1. /\ SessionType(p, g, child, q, disk) /\ FilesInv(p, disk) /\ ReadInv(p, disk)
      /\ WindowInv(p, g) /\ ExtcapInv(p, cfg)
      /\ ChildInv(p, child, q, cfg) /\ DumpcapInv(child, disk)
      /\ PipeInv(p, child, q, disk, captures)
  BY DEF Consistent
<1>2. /\ p \in ParentType /\ p.ok /\ g \in GuiType /\ child \in ChildType
      /\ q \in Seq(MessageType) /\ disk \in Seq(FileType)
  BY <1>1 DEF SessionType
<1>3. ~p.watch
  BY <1>1 DEF ChildInv
<1>4. child.phase = "exited" /\ q = << >>
  BY <1>1, <1>3 DEF ChildInv
<1>5. p.state \in {"PREPARING", "RUNNING"}
  BY <1>2 DEF ParentType
<1>6. p.state = "RUNNING" => p.newest \in 1 .. Len(disk) /\ disk[p.newest].pkts \in Nat
  <2>1. p.state = "RUNNING" => p.newest \in 1 .. Len(disk)
    BY <1>1 DEF ReadInv
  <2>2. p.newest \in 1 .. Len(disk) => disk[p.newest] \in FileType
    BY <1>2
  <2>3. QED
    BY <2>1, <2>2 DEF FileType
<1>7. MayEnd(p)
  <2>1. p.save_file = "NULL" => ~HasCapFile(p)
    BY <1>1, <1>5 DEF ReadInv, HasCapFile
  <2>2. p.state = "PREPARING" => ~HasCapFile(p)
    BY <1>1 DEF ReadInv, HasCapFile
  <2>3. (~HasCapFile(p) => p.read = 0) /\ (HasCapFile(p) => p.filename = p.newest)
    BY <1>1 DEF FilesInv, HasCapFile
  <2>4. QED
    BY <1>2, <1>5, <1>6, <2>1, <2>2, <2>3 DEF MayEnd
<1>8. RestRead(p, r) /\ r.state = "STOPPED"
  BY <1>7, CaptureEnds
<1>9. /\ r \in ParentType /\ r.ok
      /\ r.count = p.count /\ r.count_pending = p.count_pending
      /\ r.drops = p.drops /\ r.real_time_mode = p.real_time_mode
      /\ r.fork_child = p.fork_child /\ r.watch = p.watch
      /\ r.pid = p.pid /\ r.io = p.io /\ r.extcap_alive = p.extcap_alive
      /\ r.newest = p.newest /\ r.is_tempfile = p.is_tempfile
      /\ r.cf \in {"CLOSED", "PENDING", "DONE"}
      /\ (r.cf = "PENDING" => p.cf = "PENDING")
      /\ (r.cf = "DONE" =>
            p.state = "RUNNING" /\ r.filename = p.newest /\ r.read = disk[p.newest].pkts)
      /\ (r.cf # "DONE" => r.read = 0)
      /\ (r.terminate_id => p.terminate_id \/ p.pid \/ p.io)
  BY <1>8 DEF RestRead, SameCounts, SameProcesses
<1>10. r.unlinked \subseteq p.unlinked \cup (IF p.is_tempfile THEN {p.newest} ELSE {})
  BY <1>8 DEF RestRead
<1>11. SessionType(r, g, child, q, disk)
  BY <1>2, <1>9 DEF SessionType
<1>12. FilesInv(r, disk)
  <2>1. r.cf \in {"CLOSED", "PENDING"} => r.read = 0
    BY <1>9
  <2>2. HasCapFile(r) => r.filename = r.newest /\ r.newest \in 1 .. Len(disk)
    BY <1>6, <1>9 DEF HasCapFile
  <2>3. r.is_tempfile => r.newest \in 1 .. Len(disk) /\ disk[r.newest].kind = "temp"
    BY <1>1, <1>9 DEF FilesInv
  <2>4. \A i \in r.unlinked : i \in 1 .. Len(disk) /\ disk[i].kind = "temp"
    BY <1>1, <1>10 DEF FilesInv
  <2>5. QED
    BY <2>1, <2>2, <2>3, <2>4 DEF FilesInv
<1>13. ReadInv(r, disk)
  BY <1>1, <1>8, <1>9 DEF ReadInv
<1>14. WindowInv(r, g)
  BY <1>1, <1>8, <1>9 DEF WindowInv
<1>15. ExtcapInv(r, cfg) /\ TimerInv(r)
  BY <1>1, <1>9, SMT DEF ExtcapInv, TimerInv
<1>16. ChildInv(r, child, q, cfg)
  BY <1>3, <1>4, <1>8, <1>9 DEF ChildInv
<1>17. PipeInv(r, child, q, disk, captures)
  BY <1>8 DEF PipeInv
<1>18. ShownInv(r, child, disk, captures)
  <2>1. SUFFICES ASSUME r.cf = "DONE"
                 PROVE  /\ child.phase = "exited" /\ Latest(r.newest, child, disk)
                        /\ r.read = disk[r.newest].pkts
                        /\ ~child.crashed => r.count = child.pkts /\ r.drops = captures
    BY DEF ShownInv
  <2>2. p.state = "RUNNING" /\ r.read = disk[r.newest].pkts
    BY <1>9, <2>1
  <2>3. PICK l : Tells(p, child, q, disk, captures, l) /\ Final(l, child, disk)
    BY <1>1, <2>2 DEF PipeInv
  <2>4. Knows(p, l, captures) /\ l \in ViewType
    BY <1>4, <2>3, TellsAllRead
  <2>5. l.running /\ l.count = p.count /\ l.newest = p.newest /\ (l.drops => p.drops = captures)
    BY <2>2, <2>4 DEF Knows
  <2>6. Latest(p.newest, child, disk)
    BY <2>3, <2>5 DEF Final
  <2>7. ASSUME ~child.crashed
        PROVE  p.count = child.pkts /\ p.drops = captures
    <3>1. child.unsent = 0 /\ child.pkts \in Nat /\ l.count \in Nat
      BY <1>1, <1>2, <1>4, <2>4, <2>7 DEF DumpcapInv, ChildType, ViewType
    <3>2. l.count + child.unsent = child.pkts /\ l.drops
      BY <1>4, <2>3, <2>5, <2>7 DEF Final
    <3>3. QED
      BY <2>5, <3>1, <3>2
  <2>8. QED
    BY <1>4, <1>9, <2>2, <2>6, <2>7
<1>19. QED
  BY <1>1, <1>11, <1>12, <1>13, <1>14, <1>15, <1>16, <1>17, <1>18 DEF Good, Consistent

\* capture_process_finished() with the extcap gone: the session ends when dumpcap
\* is gone too.
LEMMA ProcessFinishedGood ==
    ASSUME NEW p, NEW g, NEW m, Consistent(cfg, p, g, child, m, disk, captures),
           ExtcapGone(p), p.state = "STOPPED" => p.fork_child,
           NEW opens \in BOOLEAN, NEW r, r = capture_process_finished(p, opens)
    PROVE  Good(cfg, r, g, child, m, disk, captures)
<1>1. p \in ParentType
  BY DEF Consistent, SessionType
<1>2. PICK q : q = extcap_session_stop(p)
  OBVIOUS
<1>3. SameCore(p, q)
  BY <1>1, <1>2, SessionStopCore
<1>4. Consistent(cfg, q, g, child, m, disk, captures)
  BY <1>3, CoreConsistent
<1>5. q \in ParentType /\ ~q.pid /\ ~q.io /\ ExtcapGone(q)
  BY <1>3 DEF SameCore, SameProcesses, ExtcapGone
<1>6. q = [p EXCEPT !.wait_cbs = FALSE, !.terminate_id = FALSE]
  BY <1>2 DEF extcap_session_stop
<1>7. ~q.terminate_id
  BY <1>1, <1>6, SMT DEF ParentType
<1>8. Good(cfg, q, g, child, m, disk, captures)
  BY <1>4, <1>7 DEF Good, TimerInv
<1>9. CASE q.fork_child
  <2>1. r = IF q.stop_after_extcaps
            THEN sync_pipe_stop([q EXCEPT !.stop_after_extcaps = FALSE]) ELSE q
    BY <1>2, <1>5, <1>9 DEF capture_process_finished
  <2>2. CASE r = q
    BY <1>8, <2>2
  <2>3. CASE r = sync_pipe_stop([q EXCEPT !.stop_after_extcaps = FALSE])
    <3>1. PICK x : x = [q EXCEPT !.stop_after_extcaps = FALSE]
      OBVIOUS
    <3>2. SameCore(q, x)
      BY <1>5, <3>1, StopAfterCore
    <3>3. x \in ParentType
      BY <3>2 DEF SameCore
    <3>4. SameCore(x, r)
      BY <2>3, <3>1, <3>3, StopChildCore
    <3>5. Good(cfg, x, g, child, m, disk, captures)
      BY <1>8, <3>2, CoreGood
    <3>6. QED
      BY <3>4, <3>5, CoreGood
  <2>4. QED
    BY <2>1, <2>2, <2>3
<1>10. CASE ~q.fork_child
  <2>1. q.state # "STOPPED"
    BY <1>3, <1>10 DEF SameCore, SameProcesses
  <2>2. PICK y : y = capture_input_closed(q, opens)
    OBVIOUS
  <2>3. Good(cfg, y, g, child, m, disk, captures)
    BY <1>4, <1>5, <1>7, <1>10, <2>1, <2>2, EndGood
  <2>4. r = [y EXCEPT !.stop_after_extcaps = FALSE]
    BY <1>2, <1>5, <1>10, <2>2 DEF capture_process_finished
  <2>5. y \in ParentType
    BY <2>3 DEF Good, Consistent, SessionType
  <2>6. SameCore(y, r)
    BY <2>4, <2>5, StopAfterCore
  <2>7. QED
    BY <2>3, <2>6, CoreGood
<1>11. QED
  BY <1>9, <1>10

\* p is the state of the session but for the processes it watches.
ProcessUpdate(p, q) ==
    /\ q \in ParentType
    /\ SameFile(p, q) /\ SameNames(p, q) /\ SameCounts(p, q)
    /\ q.state = p.state /\ (p.ok => q.ok)

\* Such an update keeps everything but what is about the processes.
LEMMA ProcessConsistent ==
    ASSUME NEW f, NEW p, NEW r, NEW g, NEW c, NEW q, NEW d, NEW n,
           Consistent(f, p, g, c, q, d, n), ProcessUpdate(p, r),
           ExtcapInv(r, f), ChildInv(r, c, q, f)
    PROVE  Consistent(f, r, g, c, q, d, n)
<1>1. SessionType(r, g, c, q, d)
  BY DEF Consistent, SessionType, ProcessUpdate
<1>2. FilesInv(r, d)
  BY DEF Consistent, FilesInv, ProcessUpdate, SameFile, SameNames, HasCapFile
<1>3. ReadInv(r, d)
  BY SMT DEF Consistent, ReadInv, ProcessUpdate, SameFile, SameNames, SameCounts, HasCapFile
<1>4. WindowInv(r, g)
  BY DEF Consistent, WindowInv, ProcessUpdate, SameFile
<1>5. PipeInv(r, c, q, d, n)
  <2>1. /\ r.state = p.state /\ r.count = p.count /\ r.newest = p.newest /\ r.drops = p.drops
        /\ r.save_file = p.save_file
    BY DEF ProcessUpdate, SameNames, SameCounts
  <2>2. PipeInv(p, c, q, d, n)
    BY DEF Consistent
  <2>3. QED
    BY <2>1, <2>2, TellsCore DEF PipeInv
<1>6. ShownInv(r, c, d, n)
  BY SMT DEF Consistent, ShownInv, ProcessUpdate, SameFile, SameNames, SameCounts
<1>7. DumpcapInv(c, d)
  BY DEF Consistent
<1>8. QED
  BY <1>1, <1>2, <1>3, <1>4, <1>5, <1>6, <1>7 DEF Consistent

\* dumpcap is gone: the session ends, or the extcap is asked to.
LEMMA InputEndGood ==
    ASSUME Good(cfg, s, gui, child, pipe, disk, captures), InputEnd
    PROVE  /\ Good(cfg, s', gui, child', pipe, disk, captures)
           /\ UNCHANGED <<cfg, gui, pipe, disk, captures>>
<1>1. s.watch /\ pipe = << >> /\ child.phase = "exited" /\ UNCHANGED <<gui, pipe>>
  BY DEF InputEnd
<1>2. /\ Consistent(cfg, s, gui, child, pipe, disk, captures)
      /\ s \in ParentType /\ ExtcapInv(s, cfg) /\ ChildInv(s, child, pipe, cfg)
  BY DEF Good, Consistent, SessionType
<1>3. PICK p : p = [s EXCEPT !.fork_child = FALSE, !.watch = FALSE]
  OBVIOUS
<1>4. [s EXCEPT !.fork_child = FALSE, !.watch = FALSE] \in ParentType
  BY <1>2, Zenon DEF ParentType
<1>5. p \in ParentType
  BY <1>3, <1>4
<1>6. ProcessUpdate(s, p)
  BY <1>2, <1>3, <1>5, SMT DEF ParentType, ProcessUpdate, SameFile, SameNames, SameCounts
<1>7. /\ p.pid = s.pid /\ p.io = s.io /\ p.extcap_alive = s.extcap_alive /\ p.state = s.state
      /\ ~p.fork_child /\ ~p.watch
  BY <1>2, <1>3, <1>5, SMT DEF ParentType
<1>8. p.state # "STOPPED"
  BY <1>1, <1>2, <1>7 DEF ChildInv
<1>9. ExtcapInv(p, cfg)
  BY <1>2, <1>7, <1>8 DEF ExtcapInv
<1>10. ChildInv(p, child, pipe, cfg)
  BY <1>1, <1>7, <1>8 DEF ChildInv
<1>11. Consistent(cfg, p, gui, child, pipe, disk, captures)
  BY <1>2, <1>6, <1>9, <1>10, ProcessConsistent
<1>12. CASE ExtcapGone(p)
  <2>1. PICK opens \in Opens : Becomes(capture_process_finished(p, opens))
    BY <1>3, <1>12 DEF InputEnd
  <2>2. opens \in BOOLEAN
    BY DEF Opens
  <2>3. PICK r : r = capture_process_finished(p, opens)
    OBVIOUS
  <2>4. Good(cfg, r, gui, child, pipe, disk, captures)
    BY <1>8, <1>11, <1>12, <2>2, <2>3, ProcessFinishedGood
  <2>5. Becomes(r)
    BY <2>1, <2>3
  <2>6. QED
    BY <1>1, <2>4, <2>5, BecomesGood
<1>13. CASE ~ExtcapGone(p)
  <2>1. Becomes(extcap_request_stop(p))
    BY <1>3, <1>13 DEF InputEnd
  <2>2. PICK r : r = extcap_request_stop(p)
    OBVIOUS
  <2>3. SameCore(p, r)
    BY <1>5, <2>2, RequestStopCore
  <2>4. Consistent(cfg, r, gui, child, pipe, disk, captures)
    BY <1>11, <2>3, CoreConsistent
  <2>5. TimerInv(r)
    BY <1>13, <2>3 DEF TimerInv, ExtcapGone, SameCore, SameProcesses
  <2>6. Becomes(r)
    BY <2>1, <2>2
  <2>7. Good(cfg, r, gui, child, pipe, disk, captures)
    BY <2>4, <2>5 DEF Good
  <2>8. QED
    BY <1>1, <2>6, <2>7, BecomesGood
<1>14. QED
  BY <1>12, <1>13

\* One of the things the session watches of an extcap is gone.
LEMMA WatchRemovedGood ==
    ASSUME NEW p, NEW g, NEW m, Consistent(cfg, p, g, child, m, disk, captures),
           p.state = "STOPPED" => p.fork_child,
           NEW opens \in BOOLEAN, NEW r, r = extcap_watch_removed(p, opens)
    PROVE  Good(cfg, r, g, child, m, disk, captures)
<1>1. CASE ExtcapGone(p)
  <2>1. r = capture_process_finished(p, opens)
    BY <1>1 DEF extcap_watch_removed
  <2>2. QED
    BY <1>1, <2>1, ProcessFinishedGood
<1>2. CASE ~ExtcapGone(p)
  <2>1. r = p
    BY <1>2 DEF extcap_watch_removed
  <2>2. TimerInv(p)
    BY <1>2 DEF TimerInv, ExtcapGone
  <2>3. QED
    BY <2>1, <2>2 DEF Good
<1>3. QED
  BY <1>1, <1>2

\* q is p with fewer signs of life of the extcap.
ExtcapUpdate(p, q) ==
    /\ ProcessUpdate(p, q)
    /\ q.fork_child = p.fork_child /\ q.watch = p.watch
    /\ (q.pid => p.pid) /\ (q.io => p.io)

\* An extcap that shows less life keeps the invariant, but for the timer.
LEMMA ExtcapConsistent ==
    ASSUME NEW f, NEW p, NEW r, NEW g, NEW c, NEW q, NEW d, NEW n,
           Consistent(f, p, g, c, q, d, n), ExtcapUpdate(p, r), ~r.pid => ~r.extcap_alive
    PROVE  Consistent(f, r, g, c, q, d, n)
<1>1. ExtcapInv(p, f) /\ ChildInv(p, c, q, f)
  BY DEF Consistent
<1>2. ExtcapInv(r, f)
  BY <1>1 DEF ExtcapInv, ExtcapUpdate, ProcessUpdate
<1>3. ChildInv(r, c, q, f)
  BY <1>1 DEF ChildInv, ExtcapUpdate, ProcessUpdate
<1>4. QED
  BY <1>2, <1>3, ProcessConsistent DEF ExtcapUpdate

\* The extcap exits and nobody knows yet.
LEMMA ExtcapExitsGood ==
    ASSUME Good(cfg, s, gui, child, pipe, disk, captures), ExtcapExits
    PROVE  /\ Good(cfg, s', gui, child, pipe, disk, captures)
           /\ UNCHANGED <<cfg, gui, child, pipe, disk, captures>>
<1>1. s' = [s EXCEPT !.extcap_alive = FALSE] /\ UNCHANGED <<cfg, gui, child, pipe, disk, captures>>
  BY DEF ExtcapExits
<1>2. /\ Consistent(cfg, s, gui, child, pipe, disk, captures)
      /\ s \in ParentType /\ TimerInv(s)
  BY DEF Good, Consistent, SessionType
<1>3. PICK p : p = [s EXCEPT !.extcap_alive = FALSE]
  OBVIOUS
<1>4. [s EXCEPT !.extcap_alive = FALSE] \in ParentType
  BY <1>2, Zenon DEF ParentType
<1>5. p \in ParentType
  BY <1>3, <1>4
<1>6. ProcessUpdate(s, p)
  BY <1>2, <1>3, <1>5, SMT DEF ParentType, ProcessUpdate, SameFile, SameNames, SameCounts
<1>7. /\ p.pid = s.pid /\ p.io = s.io /\ ~p.extcap_alive /\ p.terminate_id = s.terminate_id
      /\ p.fork_child = s.fork_child /\ p.watch = s.watch
  BY <1>2, <1>3, <1>5, SMT DEF ParentType
<1>8. Consistent(cfg, p, gui, child, pipe, disk, captures)
  BY <1>2, <1>6, <1>7, ExtcapConsistent DEF ExtcapUpdate
<1>9. TimerInv(p)
  BY <1>2, <1>7 DEF TimerInv
<1>10. QED
  BY <1>1, <1>3, <1>8, <1>9 DEF Good

\* The end of the extcap, or of its pipes, is noticed.
LEMMA ExtcapWatchGood ==
    ASSUME Good(cfg, s, gui, child, pipe, disk, captures),
           extcap_child_watch_cb \/ ExtcapPipesClosed
    PROVE  /\ Good(cfg, s', gui, child', pipe, disk, captures)
           /\ UNCHANGED <<cfg, gui, pipe, disk, captures>>
<1>1. /\ Consistent(cfg, s, gui, child, pipe, disk, captures)
      /\ s \in ParentType /\ ExtcapInv(s, cfg)
  BY DEF Good, Consistent, SessionType
<1>2. UNCHANGED <<gui, pipe>> /\ ~s.extcap_alive /\ (s.pid \/ s.io)
  BY DEF extcap_child_watch_cb, ExtcapPipesClosed
<1>3. ASSUME NEW p, NEW opens \in Opens,
             p = [s EXCEPT !.pid = FALSE] \/ p = [s EXCEPT !.io = FALSE],
             Becomes(extcap_watch_removed(p, opens))
      PROVE  /\ Good(cfg, s', gui, child', pipe, disk, captures)
             /\ UNCHANGED <<cfg, gui, pipe, disk, captures>>
  <2>1. [s EXCEPT !.pid = FALSE] \in ParentType
    BY <1>1, Zenon DEF ParentType
  <2>2. [s EXCEPT !.io = FALSE] \in ParentType
    BY <1>1, Zenon DEF ParentType
  <2>3. p \in ParentType
    BY <1>3, <2>1, <2>2
  <2>4. ProcessUpdate(s, p)
    BY <1>1, <1>3, <2>3, SMT DEF ParentType, ProcessUpdate, SameFile, SameNames, SameCounts
  <2>5. /\ (p.pid => s.pid) /\ (p.io => s.io) /\ p.extcap_alive = s.extcap_alive
        /\ p.fork_child = s.fork_child /\ p.watch = s.watch /\ p.state = s.state
    BY <1>1, <1>3, <2>3, SMT DEF ParentType
  <2>6. Consistent(cfg, p, gui, child, pipe, disk, captures)
    BY <1>1, <1>2, <2>4, <2>5, ExtcapConsistent DEF ExtcapUpdate
  <2>7. p.state = "STOPPED" => p.fork_child
    BY <1>1, <1>2, <2>5 DEF ExtcapInv
  <2>8. opens \in BOOLEAN
    BY DEF Opens
  <2>9. PICK r : r = extcap_watch_removed(p, opens)
    OBVIOUS
  <2>10. Good(cfg, r, gui, child, pipe, disk, captures)
    BY <2>6, <2>7, <2>8, <2>9, WatchRemovedGood
  <2>11. Becomes(r)
    BY <1>3, <2>9
  <2>12. QED
    BY <1>2, <2>10, <2>11, BecomesGood
<1>4. CASE extcap_child_watch_cb
  <2>1. PICK opens \in Opens : Becomes(extcap_watch_removed([s EXCEPT !.pid = FALSE], opens))
    BY <1>4 DEF extcap_child_watch_cb
  <2>2. PICK p : p = [s EXCEPT !.pid = FALSE]
    OBVIOUS
  <2>3. Becomes(extcap_watch_removed(p, opens))
    BY <2>1, <2>2
  <2>4. QED
    BY <1>3, <2>2, <2>3
<1>5. CASE ExtcapPipesClosed
  <2>1. PICK opens \in Opens : Becomes(extcap_watch_removed([s EXCEPT !.io = FALSE], opens))
    BY <1>5 DEF ExtcapPipesClosed
  <2>2. PICK p : p = [s EXCEPT !.io = FALSE]
    OBVIOUS
  <2>3. Becomes(extcap_watch_removed(p, opens))
    BY <2>1, <2>2
  <2>4. QED
    BY <1>3, <2>2, <2>3
<1>6. QED
  BY <1>4, <1>5

\* The timer runs out: there is an extcap, which is killed or given up.
LEMMA TerminateTimerGood ==
    ASSUME Good(cfg, s, gui, child, pipe, disk, captures), TerminateTimer
    PROVE  /\ Good(cfg, s', gui, child', pipe, disk, captures)
           /\ UNCHANGED <<cfg, gui, pipe, disk, captures>>
<1>1. /\ Consistent(cfg, s, gui, child, pipe, disk, captures)
      /\ s \in ParentType /\ ExtcapInv(s, cfg) /\ TimerInv(s)
  BY DEF Good, Consistent, SessionType
<1>2. s.terminate_id /\ UNCHANGED <<gui, pipe>>
  BY DEF TerminateTimer
<1>3. PICK opens \in Opens : Becomes(extcap_terminate_cb(s, opens))
  BY DEF TerminateTimer
<1>4. s.pid \/ s.io
  BY <1>1, <1>2 DEF TimerInv
<1>5. PICK x : x = (s.killed \/ s.pid)
  OBVIOUS
<1>6. x \in BOOLEAN
  BY <1>5
<1>7. PICK q : q = [s EXCEPT !.killed = x, !.io = FALSE, !.wait_cbs = TRUE, !.terminate_id = FALSE]
  OBVIOUS
<1>8. [s EXCEPT !.killed = x, !.io = FALSE, !.wait_cbs = TRUE, !.terminate_id = FALSE]
        \in ParentType
  BY <1>1, <1>6, Zenon DEF ParentType
<1>9. q \in ParentType
  BY <1>7, <1>8
<1>10. ProcessUpdate(s, q)
  BY <1>1, <1>7, <1>9, SMT DEF ParentType, ProcessUpdate, SameFile, SameNames, SameCounts
<1>11. /\ q.pid = s.pid /\ ~q.io /\ q.extcap_alive = s.extcap_alive /\ ~q.terminate_id
       /\ q.fork_child = s.fork_child /\ q.watch = s.watch /\ q.state = s.state
  BY <1>1, <1>7, <1>9, SMT DEF ParentType
<1>12. Consistent(cfg, q, gui, child, pipe, disk, captures)
  <2>1. ExtcapUpdate(s, q)
    BY <1>10, <1>11 DEF ExtcapUpdate
  <2>2. ~q.pid => ~q.extcap_alive
    BY <1>1, <1>11 DEF ExtcapInv
  <2>3. QED
    BY <1>1, <2>1, <2>2, ExtcapConsistent
<1>13. PICK r : r = IF s.pid THEN q ELSE capture_process_finished(q, opens)
  OBVIOUS
<1>14. Becomes(r)
  BY <1>3, <1>5, <1>7, <1>13 DEF extcap_terminate_cb
<1>15. Good(cfg, r, gui, child, pipe, disk, captures)
  <2>1. CASE s.pid
    BY <1>11, <1>12, <1>13, <2>1 DEF Good, TimerInv
  <2>2. CASE ~s.pid
    <3>1. ExtcapGone(q)
      BY <1>11, <2>2 DEF ExtcapGone
    <3>2. q.state = "STOPPED" => q.fork_child
      BY <1>1, <1>4, <1>11 DEF ExtcapInv
    <3>3. opens \in BOOLEAN
      BY DEF Opens
    <3>4. r = capture_process_finished(q, opens)
      BY <1>13, <2>2
    <3>5. QED
      BY <1>12, <3>1, <3>2, <3>3, <3>4, ProcessFinishedGood
  <2>3. QED
    BY <2>1, <2>2
<1>16. QED
  BY <1>2, <1>14, <1>15, BecomesGood
-----------------------------------------------------------------------------
(* The main window.                                                          *)

\* That a capture is to be restarted is no part of the core.
LEMMA RestartCore ==
    ASSUME NEW p \in ParentType, NEW q, q = [p EXCEPT !.restart = TRUE]
    PROVE  SameCore(p, q)
<1>1. [p EXCEPT !.restart = TRUE] \in ParentType
  BY Zenon DEF ParentType
<1>2. q \in ParentType
  BY <1>1
<1>3. QED
  BY <1>2, SMT DEF ParentType, SameCore, SameFile, SameNames, SameCounts, SameProcesses

\* The window is elsewhere.
LEMMA WindowGood ==
    ASSUME NEW f, NEW p, NEW g, NEW h \in GuiType, NEW c, NEW q, NEW d, NEW n,
           Good(f, p, g, c, q, d, n), WindowInv(p, h)
    PROVE  Good(f, p, h, c, q, d, n)
  BY DEF Good, Consistent, SessionType

\* A file is closed when no capture goes to it.
LEMMA ClosingGood ==
    ASSUME NEW f, NEW p, NEW r, NEW g, NEW c, NEW q, NEW d, NEW n,
           Good(f, p, g, c, q, d, n), HasCapFile(p) => p.state = "STOPPED", r = cf_close(p)
    PROVE  /\ Good(f, r, g, c, q, d, n)
           /\ ~HasCapFile(r) /\ r.state = p.state /\ r.save_file = p.save_file
<1>1. /\ SessionType(p, g, c, q, d) /\ FilesInv(p, d) /\ ReadInv(p, d)
      /\ WindowInv(p, g) /\ ExtcapInv(p, f)
      /\ ChildInv(p, c, q, f) /\ DumpcapInv(c, d)
      /\ PipeInv(p, c, q, d, n) /\ TimerInv(p)
  BY DEF Good, Consistent
<1>2. p \in ParentType /\ p.ok
  BY <1>1 DEF SessionType
<1>3. p.cf # "IN_PROGRESS"
  BY <1>1 DEF ReadInv, HasCapFile
<1>4. FileClosed(p, r)
  BY <1>2, <1>3, CloseFiles
<1>5. /\ r \in ParentType /\ r.ok /\ r.state = p.state
      /\ r.cf = (IF HasCapFile(p) THEN "CLOSED" ELSE p.cf)
      /\ r.read = (IF HasCapFile(p) THEN 0 ELSE p.read)
      /\ SameNames(p, r) /\ SameCounts(p, r) /\ SameProcesses(p, r)
      /\ r.terminate_id => p.terminate_id \/ p.pid \/ p.io
  BY <1>2, <1>4 DEF FileClosed
<1>6. r.unlinked = p.unlinked \cup (IF HasCapFile(p) /\ p.is_tempfile THEN {p.filename} ELSE {})
  BY <1>4 DEF FileClosed
<1>7. r.cf \in {"CLOSED", "PENDING"} /\ r.read = 0 /\ (r.cf = "PENDING" => p.cf = "PENDING")
  BY <1>1, <1>5 DEF FilesInv, HasCapFile
<1>8. SessionType(r, g, c, q, d)
  BY <1>1, <1>5 DEF SessionType
<1>9. FilesInv(r, d)
  <2>1. r.is_tempfile => r.newest \in 1 .. Len(d) /\ d[r.newest].kind = "temp"
    BY <1>1, <1>5 DEF FilesInv, SameNames
  <2>2. \A i \in r.unlinked : i \in 1 .. Len(d) /\ d[i].kind = "temp"
    BY <1>1, <1>6 DEF FilesInv
  <2>3. QED
    BY <1>7, <2>1, <2>2 DEF FilesInv, HasCapFile
<1>10. ReadInv(r, d)
  <2>1. r.real_time_mode => r.cf # "PENDING" /\ r.count_pending = 0
    BY <1>1, <1>5, <1>7 DEF ReadInv, SameCounts
  <2>2. r.state = "RUNNING" => r.save_file # "NULL" /\ r.newest \in 1 .. Len(d)
    BY <1>1, <1>5 DEF ReadInv, SameNames
  <2>3. r.state = "RUNNING" /\ r.real_time_mode => HasCapFile(r)
    BY <1>1, <1>5 DEF ReadInv, SameCounts
  <2>4. QED
    BY <1>7, <2>1, <2>2, <2>3 DEF ReadInv
<1>11. WindowInv(r, g)
  BY <1>1, <1>5, <1>7 DEF WindowInv
<1>12. ExtcapInv(r, f) /\ TimerInv(r)
  BY <1>1, <1>5 DEF ExtcapInv, TimerInv, SameProcesses
<1>13. ChildInv(r, c, q, f)
  BY <1>1, <1>5 DEF ChildInv, SameProcesses
<1>14. PipeInv(r, c, q, d, n)
  <2>1. /\ r.state = p.state /\ r.count = p.count /\ r.newest = p.newest /\ r.drops = p.drops
        /\ r.save_file = p.save_file
    BY <1>5 DEF SameNames, SameCounts
  <2>2. QED
    BY <1>1, <2>1, TellsCore DEF PipeInv
<1>15. ShownInv(r, c, d, n)
  BY <1>7 DEF ShownInv
<1>16. ~HasCapFile(r) /\ r.save_file = p.save_file
  BY <1>5, <1>7 DEF HasCapFile, SameNames
<1>17. QED
  BY <1>1, <1>5, <1>8, <1>9, <1>10, <1>11, <1>12, <1>13, <1>14, <1>15, <1>16
     DEF Good, Consistent

\* The file of a capture is to be discarded, and the window waits for it.
LEMMA AbortGood ==
    ASSUME NEW f, NEW p, NEW r, NEW g, NEW c, NEW q, NEW d, NEW n,
           Good(f, p, g, c, q, d, n), HasCapFile(p), g.pc = "close",
           r = [p EXCEPT !.cf = "ABORTED"]
    PROVE  Good(f, r, g, c, q, d, n)
<1>1. /\ SessionType(p, g, c, q, d) /\ FilesInv(p, d) /\ ReadInv(p, d)
      /\ WindowInv(p, g) /\ ExtcapInv(p, f)
      /\ ChildInv(p, c, q, f) /\ DumpcapInv(c, d)
      /\ PipeInv(p, c, q, d, n) /\ TimerInv(p)
  BY DEF Good, Consistent
<1>2. p \in ParentType /\ p.ok
  BY <1>1 DEF SessionType
<1>3. /\ SameButReading(p, r) /\ r.cf = "ABORTED"
      /\ r.read = p.read /\ r.count_pending = p.count_pending
  BY <1>2, CfUpdate
<1>4. /\ r \in ParentType /\ r.ok /\ r.state = p.state
      /\ r.count = p.count /\ r.drops = p.drops /\ r.real_time_mode = p.real_time_mode
      /\ SameNames(p, r) /\ SameProcesses(p, r) /\ HasCapFile(r)
      /\ r.filename = p.filename /\ r.unlinked = p.unlinked /\ r.terminate_id = p.terminate_id
  BY <1>2, <1>3 DEF SameButReading, HasCapFile
<1>5. SessionType(r, g, c, q, d)
  BY <1>1, <1>4 DEF SessionType
<1>6. FilesInv(r, d)
  BY <1>1, <1>3, <1>4 DEF FilesInv, HasCapFile, SameNames
<1>7. ReadInv(r, d)
  BY <1>1, <1>3, <1>4 DEF ReadInv, HasCapFile, SameNames
<1>8. WindowInv(r, g)
  BY <1>1, <1>4 DEF WindowInv
<1>9. ExtcapInv(r, f) /\ TimerInv(r)
  BY <1>1, <1>4 DEF ExtcapInv, TimerInv, SameProcesses
<1>10. ChildInv(r, c, q, f)
  BY <1>1, <1>4 DEF ChildInv, SameProcesses
<1>11. PipeInv(r, c, q, d, n)
  <2>1. /\ r.state = p.state /\ r.count = p.count /\ r.newest = p.newest /\ r.drops = p.drops
        /\ r.save_file = p.save_file
    BY <1>4 DEF SameNames
  <2>2. QED
    BY <1>1, <2>1, TellsCore DEF PipeInv
<1>12. ShownInv(r, c, d, n)
  BY <1>3 DEF ShownInv
<1>13. QED
  BY <1>1, <1>5, <1>6, <1>7, <1>8, <1>9, <1>10, <1>11, <1>12 DEF Good, Consistent

\* Where the window is.
LEMMA AtType ==
    ASSUME NEW pc \in {"idle", "dialog", "save", "close", "quit"},
           NEW context \in {"start", "restart", "quit"}, NEW x \in BOOLEAN,
           At(pc, context, x)
    PROVE  /\ gui' \in GuiType
           /\ gui'.pc = pc /\ gui'.context = context /\ gui'.capture_in_progress = x
<1>1. gui' = [pc |-> pc, context |-> context, capture_in_progress |-> x]
  BY DEF At
<1>2. gui' \in GuiType
  BY <1>1, Zenon DEF GuiType
<1>3. QED
  BY <1>1, <1>2

\* What a step of the window keeps.
WindowStep ==
    /\ Good(cfg, s', gui', child', pipe', disk, captures')
    /\ UNCHANGED <<cfg, disk>> /\ (captures' = captures \/ captures' = captures + 1)

\* capture_start(), of a session that is stopped and without a capture file.
Started(p, q) ==
    /\ q \in ParentType
    /\ SameFile(p, q) /\ q.newest = p.newest /\ q.is_tempfile = p.is_tempfile
    /\ q.count = 0 /\ q.count_pending = p.count_pending /\ q.told = p.told
    /\ q.drops = p.drops /\ q.real_time_mode = p.real_time_mode
    /\ q.pid = cfg.extcap /\ q.io = cfg.extcap /\ q.extcap_alive = cfg.extcap
    /\ (p.ok => q.ok) /\ q.terminate_id = p.terminate_id

\* dumpcap is there and its pipe is watched.
LEMMA WatchedState ==
    ASSUME NEW p \in ParentType, NEW x \in BOOLEAN, NEW q,
           q = [p EXCEPT !.fork_child = x, !.watch = x]
    PROVE  /\ q \in ParentType
           /\ SameFile(p, q) /\ SameNames(p, q) /\ SameCounts(p, q) /\ q.state = p.state
           /\ q.pid = p.pid /\ q.io = p.io /\ q.extcap_alive = p.extcap_alive
           /\ q.terminate_id = p.terminate_id /\ q.fork_child = x /\ q.watch = x
           /\ (p.ok => q.ok)
<1>1. [p EXCEPT !.fork_child = x, !.watch = x] \in ParentType
  BY Zenon DEF ParentType
<1>2. q \in ParentType
  BY <1>1
<1>3. QED
  BY <1>2, SMT DEF ParentType, SameFile, SameNames, SameCounts

\* capture_start() when dumpcap can be started.
LEMMA ForkedState ==
    ASSUME NEW p \in ParentType, cfg \in ConfigType, NEW forks \in BOOLEAN, forks,
           NEW r, r = capture_start(p, forks)
    PROVE  /\ Started(p, r) /\ r.state = "PREPARING" /\ r.fork_child /\ r.watch
           /\ r.save_file = p.save_file
<1>1. PICK x : x = cfg.extcap
  OBVIOUS
<1>2. x \in BOOLEAN
  BY <1>1 DEF ConfigType
<1>3. PICK q : q = [p EXCEPT !.state = "PREPARING", !.count = 0, !.fork_child = FALSE,
                       !.pid = x, !.io = x, !.extcap_alive = x, !.killed = FALSE]
  OBVIOUS
<1>4. [p EXCEPT !.state = "PREPARING", !.count = 0, !.fork_child = FALSE,
                       !.pid = x, !.io = x, !.extcap_alive = x, !.killed = FALSE]
        \in ParentType
  BY <1>2, Zenon DEF ParentType
<1>5. q \in ParentType
  BY <1>3, <1>4
<1>6. PICK m : m = setMenusForCaptureInProgress(q, TRUE)
  OBVIOUS
<1>7. SameCore(q, m)
  BY <1>5, <1>6, MenusCore
<1>8. m \in ParentType
  BY <1>7 DEF SameCore
<1>9. PICK y \in BOOLEAN : y = TRUE
  OBVIOUS
<1>10. r = [m EXCEPT !.fork_child = y, !.watch = y]
  BY <1>1, <1>3, <1>6, <1>9 DEF capture_start
<1>11. /\ r \in ParentType
       /\ SameFile(m, r) /\ SameNames(m, r) /\ SameCounts(m, r) /\ r.state = m.state
       /\ r.pid = m.pid /\ r.io = m.io /\ r.extcap_alive = m.extcap_alive
       /\ r.terminate_id = m.terminate_id /\ r.fork_child = y /\ r.watch = y
       /\ (m.ok => r.ok)
  BY <1>8, <1>10, WatchedState
<1>12. m = [q EXCEPT !.start_enabled = ~TRUE, !.stop_enabled = TRUE]
  BY <1>6 DEF setMenusForCaptureInProgress
<1>13. m.terminate_id = q.terminate_id
  BY <1>5, <1>8, <1>12, SMT DEF ParentType
<1>14. /\ SameFile(p, q) /\ SameNames(p, q) /\ q.state = "PREPARING"
       /\ q.count = 0 /\ q.count_pending = p.count_pending /\ q.told = p.told
       /\ q.drops = p.drops /\ q.real_time_mode = p.real_time_mode
       /\ q.pid = x /\ q.io = x /\ q.extcap_alive = x /\ q.terminate_id = p.terminate_id
  BY <1>3, <1>5, SMT DEF ParentType, SameFile, SameNames
<1>15. p.ok => q.ok
  BY <1>3, <1>5, SMT DEF ParentType
<1>16. r.state = "PREPARING" /\ r.save_file = p.save_file
  BY <1>7, <1>11, <1>14 DEF SameCore, SameNames
<1>17. r.fork_child /\ r.watch
  BY <1>9, <1>11
<1>18. Started(p, r)
  <2>1. SameFile(p, r)
    BY <1>7, <1>11, <1>14 DEF SameCore, SameFile
  <2>2. r.newest = p.newest /\ r.is_tempfile = p.is_tempfile
    BY <1>7, <1>11, <1>14 DEF SameCore, SameNames
  <2>3. /\ r.count = 0 /\ r.count_pending = p.count_pending /\ r.told = p.told
        /\ r.drops = p.drops /\ r.real_time_mode = p.real_time_mode
    BY <1>7, <1>11, <1>14 DEF SameCore, SameCounts
  <2>4. r.pid = x /\ r.io = x /\ r.extcap_alive = x /\ r.terminate_id = p.terminate_id
    BY <1>7, <1>11, <1>13, <1>14 DEF SameCore, SameProcesses
  <2>5. p.ok => r.ok
    BY <1>7, <1>11, <1>15 DEF SameCore
  <2>6. QED
    BY <1>1, <1>11, <2>1, <2>2, <2>3, <2>4, <2>5 DEF Started
<1>19. QED
  BY <1>16, <1>17, <1>18

\* capture_start() when it cannot.
LEMMA NotForkedState ==
    ASSUME NEW p \in ParentType, cfg \in ConfigType, NEW forks \in BOOLEAN, ~forks,
           NEW r, r = capture_start(p, forks)
    PROVE  Started(p, r) /\ r.state = "STOPPED" /\ ~r.fork_child /\ r.watch = p.watch
<1>1. PICK x : x = cfg.extcap
  OBVIOUS
<1>2. x \in BOOLEAN
  BY <1>1 DEF ConfigType
<1>3. PICK q : q = [p EXCEPT !.state = "PREPARING", !.count = 0, !.fork_child = FALSE,
                       !.pid = x, !.io = x, !.extcap_alive = x, !.killed = FALSE]
  OBVIOUS
<1>4. [p EXCEPT !.state = "PREPARING", !.count = 0, !.fork_child = FALSE,
                       !.pid = x, !.io = x, !.extcap_alive = x, !.killed = FALSE]
        \in ParentType
  BY <1>2, Zenon DEF ParentType
<1>5. q \in ParentType
  BY <1>3, <1>4
<1>6. r = [q EXCEPT !.save_file = "NULL", !.state = "STOPPED"]
  BY <1>1, <1>3 DEF capture_start
<1>7. [q EXCEPT !.save_file = "NULL", !.state = "STOPPED"] \in ParentType
  BY <1>5, Zenon DEF ParentType
<1>8. r \in ParentType
  BY <1>6, <1>7
<1>9. /\ SameFile(p, q) /\ q.newest = p.newest /\ q.is_tempfile = p.is_tempfile
      /\ q.count = 0 /\ q.count_pending = p.count_pending /\ q.told = p.told
      /\ q.drops = p.drops /\ q.real_time_mode = p.real_time_mode
      /\ q.pid = x /\ q.io = x /\ q.extcap_alive = x /\ q.terminate_id = p.terminate_id
      /\ ~q.fork_child /\ q.watch = p.watch
  BY <1>3, <1>5, SMT DEF ParentType, SameFile
<1>10. p.ok => q.ok
  BY <1>3, <1>5, SMT DEF ParentType
<1>11. /\ SameFile(q, r) /\ r.newest = q.newest /\ r.is_tempfile = q.is_tempfile
       /\ SameCounts(q, r) /\ SameProcesses(q, r)
       /\ r.terminate_id = q.terminate_id /\ r.state = "STOPPED"
  BY <1>5, <1>6, <1>8, SMT DEF ParentType, SameFile, SameCounts, SameProcesses
<1>12. q.ok => r.ok
  BY <1>5, <1>6, <1>8, SMT DEF ParentType
<1>13. Started(p, r)
  BY <1>1, <1>8, <1>9, <1>10, <1>11, <1>12 DEF Started, SameFile, SameCounts, SameProcesses
<1>14. QED
  BY <1>9, <1>11, <1>13 DEF SameProcesses

\* dumpcap runs, and nothing is known of it yet.
LEMMA ForkedGood ==
    ASSUME NEW p, NEW g, NEW q, cfg \in ConfigType,
           Good(cfg, p, g, child, q, disk, captures), ~HasCapFile(p), p.state = "STOPPED",
           g.pc = "idle", NEW forks \in BOOLEAN, forks,
           NEW r, r = capture_start(p, forks), NEW k \in ChildType, k.phase = "exec",
           k.files = 0, k.unsent = 0, k.pkts = 0, ~k.section, k.delayed = 0,
           p.save_file = "NULL" => k.kind = "temp", NEW n \in Nat
    PROVE  Good(cfg, r, g, k, << >>, disk, n)
<1>1. /\ SessionType(p, g, child, q, disk) /\ FilesInv(p, disk) /\ ReadInv(p, disk)
      /\ ExtcapInv(p, cfg) /\ TimerInv(p)
  BY DEF Good, Consistent
<1>2. p \in ParentType /\ p.ok /\ g \in GuiType /\ disk \in Seq(FileType)
  BY <1>1 DEF SessionType
<1>3. /\ Started(p, r) /\ r.state = "PREPARING" /\ r.fork_child /\ r.watch
      /\ r.save_file = p.save_file
  BY <1>2, ForkedState
<1>4. SessionType(r, g, k, << >>, disk)
  <2>1. << >> \in Seq(MessageType)
    OBVIOUS
  <2>2. r \in ParentType /\ r.ok
    BY <1>2, <1>3 DEF Started
  <2>3. QED
    BY <1>2, <2>1, <2>2 DEF SessionType
<1>5. /\ r.cf = p.cf /\ r.read = p.read /\ r.unlinked = p.unlinked
      /\ r.newest = p.newest /\ r.is_tempfile = p.is_tempfile
      /\ r.count = 0 /\ r.count_pending = p.count_pending
      /\ r.real_time_mode = p.real_time_mode
      /\ r.pid = cfg.extcap /\ r.io = cfg.extcap /\ r.terminate_id = p.terminate_id
      /\ r.extcap_alive = cfg.extcap
  BY <1>3 DEF Started, SameFile
<1>6. r.cf \in {"CLOSED", "PENDING"} /\ r.newest \in Nat
  BY <1>2, <1>5 DEF HasCapFile, ParentType
<1>7. FilesInv(r, disk)
  BY <1>1, <1>5, <1>6 DEF FilesInv, HasCapFile
<1>8. ReadInv(r, disk)
  BY <1>1, <1>3, <1>5, <1>6 DEF ReadInv
<1>9. WindowInv(r, g)
  BY <1>6 DEF WindowInv
<1>10. ExtcapInv(r, cfg)
  BY <1>3, <1>5 DEF ExtcapInv
<1>11. TimerInv(r)
  BY <1>1, <1>5 DEF ExtcapInv, TimerInv
<1>12. ChildInv(r, k, << >>, cfg)
  BY <1>3 DEF ChildInv
<1>13. DumpcapInv(k, disk)
  BY DEF DumpcapInv
<1>14. PipeInv(r, k, << >>, disk, n)
  <2>1. PICK b \in BOOLEAN : ~b
    OBVIOUS
  <2>2. PICK l : l = [running |-> b, count |-> 0, newest |-> r.newest, drops |-> b]
    OBVIOUS
  <2>3. l \in ViewType /\ ~l.running /\ l.count = 0 /\ ~l.drops
    BY <1>6, <2>1, <2>2 DEF ViewType
  <2>4. Knows(r, l, n)
    BY <1>3, <1>5, <2>3 DEF Knows
  <2>5. Tells(r, k, << >>, disk, n, l)
    BY <2>3, <2>4, TellsNothing
  <2>6. Final(l, k, disk)
    BY <2>3 DEF Final
  <2>7. QED
    BY <1>3, <2>5, <2>6 DEF PipeInv
<1>15. ShownInv(r, k, disk, n)
  BY <1>3 DEF ShownInv
<1>16. QED
  BY <1>4, <1>7, <1>8, <1>9, <1>10, <1>11, <1>12, <1>13, <1>14, <1>15 DEF Good, Consistent

\* dumpcap cannot be started, and there is no extcap that was.
LEMMA NotForkedGood ==
    ASSUME NEW p, NEW g, NEW q, cfg \in ConfigType, ~cfg.extcap,
           Good(cfg, p, g, child, q, disk, captures), ~HasCapFile(p), p.state = "STOPPED",
           g.pc = "idle", NEW forks \in BOOLEAN, ~forks, NEW r, r = capture_start(p, forks)
    PROVE  Good(cfg, r, g, child, q, disk, captures)
<1>1. /\ SessionType(p, g, child, q, disk) /\ FilesInv(p, disk) /\ ReadInv(p, disk)
      /\ ExtcapInv(p, cfg) /\ TimerInv(p) /\ ChildInv(p, child, q, cfg)
      /\ DumpcapInv(child, disk)
  BY DEF Good, Consistent
<1>2. p \in ParentType /\ p.ok
  BY <1>1 DEF SessionType
<1>3. Started(p, r) /\ r.state = "STOPPED" /\ ~r.fork_child /\ r.watch = p.watch
  BY <1>2, NotForkedState
<1>4. SessionType(r, g, child, q, disk)
  BY <1>1, <1>2, <1>3 DEF SessionType, Started
<1>5. /\ r.cf = p.cf /\ r.read = p.read /\ r.unlinked = p.unlinked
      /\ r.newest = p.newest /\ r.is_tempfile = p.is_tempfile
      /\ r.count_pending = p.count_pending
      /\ r.real_time_mode = p.real_time_mode
      /\ r.pid = cfg.extcap /\ r.io = cfg.extcap /\ r.terminate_id = p.terminate_id
      /\ r.extcap_alive = cfg.extcap
  BY <1>3 DEF Started, SameFile
<1>6. r.cf \in {"CLOSED", "PENDING"}
  BY <1>2, <1>5 DEF HasCapFile, ParentType
<1>7. FilesInv(r, disk)
  BY <1>1, <1>5, <1>6 DEF FilesInv, HasCapFile
<1>8. ReadInv(r, disk)
  BY <1>1, <1>3, <1>5, <1>6 DEF ReadInv
<1>9. WindowInv(r, g)
  BY <1>6 DEF WindowInv
<1>10. ExtcapInv(r, cfg)
  BY <1>3, <1>5 DEF ExtcapInv
<1>11. TimerInv(r)
  BY <1>1, <1>5 DEF ExtcapInv, TimerInv
<1>12. ChildInv(r, child, q, cfg)
  BY <1>1, <1>3 DEF ChildInv
<1>13. PipeInv(r, child, q, disk, captures)
  BY <1>3 DEF PipeInv
<1>14. ShownInv(r, child, disk, captures)
  BY <1>6 DEF ShownInv
<1>15. QED
  BY <1>1, <1>4, <1>7, <1>8, <1>9, <1>10, <1>11, <1>12, <1>13, <1>14 DEF Good, Consistent

\* The dumpcap that is started, with a temporary file if none was named.
LEMMA NewChildStarts ==
    ASSUME NEW p, NEW k, k = NewChild(p)
    PROVE  /\ k \in ChildType /\ k.phase = "exec"
           /\ k.files = 0 /\ k.unsent = 0 /\ k.pkts = 0 /\ ~k.section /\ k.delayed = 0
           /\ p.save_file = "NULL" => k.kind = "temp"
<1>1. PICK x : x = IF p.save_file = "NULL" THEN "temp"
                   ELSE IF cfg.multi_files_on THEN "ring" ELSE "user"
  OBVIOUS
<1>2. PICK y : y = IF gui'.context = "restart" THEN "restart" ELSE "start"
  OBVIOUS
<1>3. x \in {"temp", "user", "ring"} /\ y \in {"start", "restart"}
  BY <1>1, <1>2
<1>4. PICK b \in BOOLEAN : b = FALSE
  OBVIOUS
<1>5. k = [phase |-> "exec", go |-> b, unsent |-> 0, pkts |-> 0, files |-> 0,
           section |-> b, delayed |-> 0, kind |-> x, by |-> y, crashed |-> b]
  BY <1>1, <1>2, <1>4 DEF NewChild
<1>6. k \in ChildType
  BY <1>3, <1>4, <1>5 DEF ChildType
<1>7. /\ k.phase = "exec" /\ k.files = 0 /\ k.unsent = 0 /\ k.pkts = 0 /\ k.kind = x
      /\ k.section = b /\ k.delayed = 0
  BY <1>5
<1>8. QED
  BY <1>1, <1>4, <1>6, <1>7

\* startCapture(): the old file is closed and the capture started, or not.
LEMMA StartCaptureGood ==
    ASSUME NEW p, cfg \in ConfigType, captures \in Nat, CoveredSettings,
           Good(cfg, p, gui', child, pipe, disk, captures), gui'.pc = "idle",
           startCapture(p)
    PROVE  WindowStep
<1>1. UNCHANGED <<cfg, disk>>
  BY DEF startCapture
<1>2. CASE p.state # "STOPPED" \/ captures = MaxCaptures
  <2>1. s' = p /\ UNCHANGED <<child, pipe, captures>>
    BY <1>2 DEF startCapture
  <2>2. QED
    BY <1>1, <2>1 DEF WindowStep
<1>3. CASE p.state = "STOPPED" /\ captures # MaxCaptures
  <2>1. PICK forks \in {TRUE} \cup (IF "fork" \in cfg.faults THEN {FALSE} ELSE {}) :
           /\ s' = capture_start(cf_close(p), forks)
           /\ IF forks
              THEN /\ child' = NewChild(p) /\ pipe' = <<>>
                   /\ captures' = captures + 1
              ELSE UNCHANGED <<child, pipe, captures>>
    BY <1>3 DEF startCapture
  <2>2. forks \in BOOLEAN /\ (~forks => "fork" \in cfg.faults)
    BY <2>1
  <2>3. PICK q : q = cf_close(p)
    OBVIOUS
  <2>4. /\ Good(cfg, q, gui', child, pipe, disk, captures)
        /\ ~HasCapFile(q) /\ q.state = p.state /\ q.save_file = p.save_file
    BY <1>3, <2>3, ClosingGood
  <2>5. s' = capture_start(q, forks)
    BY <2>1, <2>3
  <2>6. CASE forks
    <3>1. child' = NewChild(p) /\ pipe' = << >> /\ captures' = captures + 1
      BY <2>1, <2>6
    <3>2. /\ child' \in ChildType /\ child'.phase = "exec"
          /\ child'.files = 0 /\ child'.unsent = 0 /\ child'.pkts = 0
          /\ ~child'.section /\ child'.delayed = 0
          /\ p.save_file = "NULL" => child'.kind = "temp"
      BY <3>1, NewChildStarts
    <3>3. captures' \in Nat
      BY <3>1
    <3>4. Good(cfg, s', gui', child', << >>, disk, captures')
      BY <1>3, <2>2, <2>4, <2>5, <2>6, <3>2, <3>3, ForkedGood
    <3>5. QED
      BY <1>1, <3>1, <3>4 DEF WindowStep
  <2>7. CASE ~forks
    <3>1. UNCHANGED <<child, pipe, captures>>
      BY <2>1, <2>7
    <3>2. ~cfg.extcap
      BY <2>2, <2>7 DEF CoveredSettings
    <3>3. Good(cfg, s', gui', child, pipe, disk, captures)
      BY <1>3, <2>2, <2>4, <2>5, <2>7, <3>2, NotForkedGood
    <3>4. QED
      BY <1>1, <3>1, <3>3 DEF WindowStep
  <2>8. QED
    BY <2>2, <2>6, <2>7
<1>4. QED
  BY <1>2, <1>3

\* A step of the window that is a callback's, in the window's new place.
LEMMA WindowBecomes ==
    ASSUME NEW p, Becomes(p), Good(cfg, p, gui', child, pipe, disk, captures), UNCHANGED pipe
    PROVE  WindowStep
<1>1. Good(cfg, s', gui', child', pipe, disk, captures) /\ UNCHANGED <<cfg, disk, captures>>
  BY BecomesGood
<1>2. QED
  BY <1>1 DEF WindowStep

Contexts == {"start", "restart", "quit"}

\* tryClosingCaptureFile() is done: the window closes or starts a capture.
LEMMA ClosedGood ==
    ASSUME NEW p, cfg \in ConfigType, captures \in Nat, CoveredSettings,
           Good(cfg, p, gui, child, pipe, disk, captures), p.cf # "ABORTED",
           NEW context \in Contexts, Closed(p, context)
    PROVE  WindowStep
<1>1. PICK b \in BOOLEAN : b = FALSE
  OBVIOUS
<1>2. CASE context = "quit"
  <2>1. At("quit", context, b) /\ Becomes(p) /\ UNCHANGED pipe
    BY <1>1, <1>2 DEF Closed
  <2>2. gui' \in GuiType /\ gui'.pc = "quit"
    BY <2>1, AtType DEF Contexts
  <2>3. WindowInv(p, gui')
    BY <2>2 DEF WindowInv
  <2>4. Good(cfg, p, gui', child, pipe, disk, captures)
    BY <2>2, <2>3, WindowGood
  <2>5. QED
    BY <2>1, <2>4, WindowBecomes
<1>3. CASE context # "quit"
  <2>1. At("idle", context, b) /\ startCapture(p)
    BY <1>1, <1>3 DEF Closed
  <2>2. gui' \in GuiType /\ gui'.pc = "idle"
    BY <2>1, AtType DEF Contexts
  <2>3. WindowInv(p, gui')
    BY <2>2 DEF WindowInv
  <2>4. Good(cfg, p, gui', child, pipe, disk, captures)
    BY <2>2, <2>3, WindowGood
  <2>5. QED
    BY <2>1, <2>2, <2>4, StartCaptureGood
<1>4. QED
  BY <1>2, <1>3

\* The file is closed unless it is captured to again.
LEMMA CloseFileGood ==
    ASSUME NEW p, cfg \in ConfigType, captures \in Nat, CoveredSettings,
           Good(cfg, p, gui, child, pipe, disk, captures), p.cf # "ABORTED",
           HasCapFile(p) => p.state = "STOPPED",
           NEW context \in Contexts, CloseFile(p, context)
    PROVE  WindowStep
<1>1. CASE context = "restart"
  <2>1. Closed(p, context)
    BY <1>1 DEF CloseFile
  <2>2. QED
    BY <2>1, ClosedGood
<1>2. CASE context # "restart"
  <2>1. PICK q : q = cf_close(p)
    OBVIOUS
  <2>2. Closed(q, context)
    BY <1>2, <2>1 DEF CloseFile
  <2>3. Good(cfg, q, gui, child, pipe, disk, captures) /\ ~HasCapFile(q)
    BY <2>1, ClosingGood
  <2>4. q.cf # "ABORTED"
    BY <2>3 DEF HasCapFile
  <2>5. QED
    BY <2>2, <2>3, <2>4, ClosedGood
<1>3. QED
  BY <1>1, <1>2

\* captureStop() of a capture whose file is discarded.
LEMMA DiscardGood ==
    ASSUME NEW p, Good(cfg, p, gui, child, pipe, disk, captures),
           NEW context \in Contexts, NEW b \in BOOLEAN, b, At("close", context, b),
           Becomes(captureStop(p, b)), UNCHANGED pipe
    PROVE  WindowStep
<1>1. gui' \in GuiType /\ gui'.pc = "close"
  BY AtType DEF Contexts
<1>2. WindowInv(p, gui')
  BY <1>1 DEF WindowInv
<1>3. Good(cfg, p, gui', child, pipe, disk, captures)
  BY <1>1, <1>2, WindowGood
<1>4. PICK q : q = IF HasCapFile(p) THEN [p EXCEPT !.cf = "ABORTED"] ELSE p
  OBVIOUS
<1>5. Good(cfg, q, gui', child, pipe, disk, captures)
  BY <1>1, <1>3, <1>4, AbortGood
<1>6. q \in ParentType
  BY <1>5 DEF Good, Consistent, SessionType
<1>7. PICK r : r = capture_stop(q)
  OBVIOUS
<1>8. Good(cfg, r, gui', child, pipe, disk, captures)
  <2>1. SameCore(q, r)
    BY <1>6, <1>7, CaptureStopCore
  <2>2. QED
    BY <1>5, <2>1, CoreGood
<1>9. Becomes(r)
  BY <1>4, <1>7 DEF captureStop
<1>10. QED
  BY <1>8, <1>9, WindowBecomes

\* The file is closed, or its capture stopped first.
LEMMA DoCloseFileGood ==
    ASSUME NEW p, cfg \in ConfigType, captures \in Nat, CoveredSettings,
           Good(cfg, p, gui, child, pipe, disk, captures),
           NEW context \in Contexts, NEW x \in BOOLEAN,
           ~x => p.cf # "ABORTED" /\ (HasCapFile(p) => p.state = "STOPPED"),
           DoCloseFile(p, context, x)
    PROVE  WindowStep
<1>1. CASE x
  <2>1. PICK b \in BOOLEAN : b = TRUE
    OBVIOUS
  <2>2. At("close", context, b) /\ Becomes(captureStop(p, b)) /\ UNCHANGED pipe
    BY <1>1, <2>1 DEF DoCloseFile
  <2>3. QED
    BY <2>1, <2>2, DiscardGood
<1>2. CASE ~x
  <2>1. CloseFile(p, context)
    BY <1>2 DEF DoCloseFile
  <2>2. QED
    BY <1>2, <2>1, CloseFileGood
<1>3. QED
  BY <1>1, <1>2

\* tryClosingCaptureFile(), whatever the state of the capture file.
LEMMA TryClosingGood ==
    ASSUME NEW p, cfg \in ConfigType, captures \in Nat, CoveredSettings,
           Good(cfg, p, gui, child, pipe, disk, captures), gui.pc = "idle",
           NEW context \in Contexts, tryClosingCaptureFile(p, context)
    PROVE  WindowStep
<1>1. PICK x : x = (p.cf = "IN_PROGRESS" /\ p.state # "STOPPED")
  OBVIOUS
<1>2. x \in BOOLEAN
  BY <1>1
<1>3. p.cf # "ABORTED" /\ p \in ParentType /\ ReadInv(p, disk)
  BY DEF Good, Consistent, SessionType, WindowInv
<1>4. ~x => (HasCapFile(p) => p.state = "STOPPED")
  BY <1>1, <1>3 DEF ReadInv, HasCapFile, ParentType
<1>5. CASE ~HasCapFile(p)
  <2>1. Closed(p, context)
    BY <1>5 DEF tryClosingCaptureFile
  <2>2. QED
    BY <1>3, <2>1, ClosedGood
<1>6. CASE HasCapFile(p) /\ cfg.ask_unsaved /\ p.is_tempfile /\ p.read > 0
  <2>1. At("dialog", context, x) /\ Becomes(p) /\ UNCHANGED pipe
    BY <1>1, <1>6 DEF tryClosingCaptureFile
  <2>2. gui' \in GuiType /\ gui'.pc = "dialog" /\ gui'.capture_in_progress = x
    BY <1>2, <2>1, AtType DEF Contexts
  <2>3. WindowInv(p, gui')
    BY <1>3, <1>4, <1>6, <2>2 DEF WindowInv
  <2>4. Good(cfg, p, gui', child, pipe, disk, captures)
    BY <2>2, <2>3, WindowGood
  <2>5. QED
    BY <2>1, <2>4, WindowBecomes
<1>7. CASE HasCapFile(p) /\ ~(cfg.ask_unsaved /\ p.is_tempfile /\ p.read > 0)
  <2>1. DoCloseFile(p, context, x)
    BY <1>1, <1>7 DEF tryClosingCaptureFile
  <2>2. QED
    BY <1>2, <1>3, <1>4, <2>1, DoCloseFileGood
<1>8. QED
  BY <1>5, <1>6, <1>7

\* Start, Restart and closing the window.
LEMMA ClickGood ==
    ASSUME cfg \in ConfigType, captures \in Nat, CoveredSettings,
           Good(cfg, s, gui, child, pipe, disk, captures),
           ClickStart \/ ClickRestart \/ CloseWindow
    PROVE  WindowStep
<1>1. CASE ClickStart
  BY <1>1, TryClosingGood DEF ClickStart, Contexts
<1>2. CASE ClickRestart
  <2>1. PICK p : p = [s EXCEPT !.restart = TRUE]
    OBVIOUS
  <2>2. s \in ParentType
    BY DEF Good, Consistent, SessionType
  <2>3. SameCore(s, p)
    BY <2>1, <2>2, RestartCore
  <2>4. Good(cfg, p, gui, child, pipe, disk, captures)
    BY <2>3, CoreGood
  <2>5. gui.pc = "idle" /\ tryClosingCaptureFile(p, "restart")
    BY <1>2, <2>1 DEF ClickRestart
  <2>6. QED
    BY <2>4, <2>5, TryClosingGood DEF Contexts
<1>3. CASE CloseWindow
  BY <1>3, TryClosingGood DEF CloseWindow, Contexts
<1>4. QED
  BY <1>1, <1>2, <1>3

\* Stop.
LEMMA ClickStopGood ==
    ASSUME Good(cfg, s, gui, child, pipe, disk, captures), ClickStop
    PROVE  WindowStep
<1>1. gui' = gui /\ UNCHANGED pipe
  BY DEF ClickStop
<1>2. s \in ParentType
  BY DEF Good, Consistent, SessionType
<1>3. PICK r : r = capture_stop(s)
  OBVIOUS
<1>4. SameCore(s, r)
  BY <1>2, <1>3, CaptureStopCore
<1>5. Good(cfg, r, gui', child, pipe, disk, captures)
  BY <1>1, <1>4, CoreGood
<1>6. Becomes(r)
  BY <1>3 DEF ClickStop
<1>7. QED
  BY <1>1, <1>5, <1>6, WindowBecomes

\* The window gives up what it was doing.
LEMMA BackToIdle ==
    ASSUME Good(cfg, s, gui, child, pipe, disk, captures), s.cf # "ABORTED",
           NEW context \in Contexts, NEW b \in BOOLEAN, At("idle", context, b),
           Becomes(s), UNCHANGED pipe
    PROVE  WindowStep
<1>1. gui' \in GuiType /\ gui'.pc = "idle"
  BY AtType DEF Contexts
<1>2. WindowInv(s, gui')
  BY <1>1 DEF WindowInv
<1>3. Good(cfg, s, gui', child, pipe, disk, captures)
  BY <1>1, <1>2, WindowGood
<1>4. QED
  BY <1>3, WindowBecomes

\* What holds when the window does not wait for a file to be discarded.
LEMMA WaitingFacts ==
    ASSUME Good(cfg, s, gui, child, pipe, disk, captures)
    PROVE  /\ gui.context \in Contexts /\ gui.capture_in_progress \in BOOLEAN
           /\ gui.pc # "close" => s.cf # "ABORTED"
           /\ gui.pc = "dialog" /\ ~gui.capture_in_progress => s.state = "STOPPED"
           /\ gui.pc = "save" => gui.capture_in_progress
           /\ StopLoopEnds /\ HasCapFile(s) => s.state = "STOPPED"
<1>1. gui \in GuiType /\ s \in ParentType /\ WindowInv(s, gui) /\ ReadInv(s, disk)
  BY DEF Good, Consistent, SessionType
<1>2. gui.context \in Contexts /\ gui.capture_in_progress \in BOOLEAN
  BY <1>1 DEF GuiType, Contexts
<1>3. StopLoopEnds /\ HasCapFile(s) => s.state = "STOPPED"
  BY <1>1 DEF StopLoopEnds, HasCapFile, ParentType, ReadInv
<1>4. QED
  BY <1>1, <1>2, <1>3 DEF WindowInv

\* The file is saved and closed, or not.
LEMMA SaveFileGood ==
    ASSUME cfg \in ConfigType, captures \in Nat, CoveredSettings,
           Good(cfg, s, gui, child, pipe, disk, captures), gui.pc \in {"dialog", "save"},
           SaveFile
    PROVE  WindowStep
<1>1. PICK context, x : context = gui.context /\ x = gui.capture_in_progress
  OBVIOUS
<1>2. /\ context \in Contexts /\ x \in BOOLEAN /\ s.cf # "ABORTED"
      /\ ~x => s.state = "STOPPED"
  BY <1>1, WaitingFacts
<1>3. CASE DoCloseFile(s, gui.context, gui.capture_in_progress)
  <2>1. DoCloseFile(s, context, x)
    BY <1>1, <1>3
  <2>2. QED
    BY <1>2, <2>1, DoCloseFileGood
<1>4. CASE At("idle", gui.context, FALSE) /\ Becomes(s) /\ UNCHANGED pipe
  <2>1. PICK b \in BOOLEAN : b = FALSE
    OBVIOUS
  <2>2. At("idle", context, b)
    BY <1>1, <1>4, <2>1
  <2>3. QED
    BY <1>2, <1>4, <2>2, BackToIdle
<1>5. QED
  BY <1>3, <1>4 DEF SaveFile

\* The answers to the dialog: what it remembers of the capture is true or its file
\* is discarded.
LEMMA AnswerGood ==
    ASSUME cfg \in ConfigType, captures \in Nat, CoveredSettings,
           Good(cfg, s, gui, child, pipe, disk, captures), Cancel \/ Discard \/ Save
    PROVE  WindowStep
<1>1. PICK context, x : context = gui.context /\ x = gui.capture_in_progress
  OBVIOUS
<1>2. gui.pc = "dialog"
  BY DEF Cancel, Discard, Save
<1>3. /\ context \in Contexts /\ x \in BOOLEAN /\ s.cf # "ABORTED"
      /\ ~x => s.state = "STOPPED"
  BY <1>1, <1>2, WaitingFacts
<1>4. CASE Cancel
  <2>1. PICK b \in BOOLEAN : b = FALSE
    OBVIOUS
  <2>2. At("idle", context, b) /\ Becomes(s) /\ UNCHANGED pipe
    BY <1>1, <1>4, <2>1 DEF Cancel
  <2>3. QED
    BY <1>3, <2>2, BackToIdle
<1>5. CASE Discard
  <2>1. DoCloseFile(s, context, x)
    BY <1>1, <1>5 DEF Discard
  <2>2. QED
    BY <1>3, <2>1, DoCloseFileGood
<1>6. CASE Save /\ ~gui.capture_in_progress
  <2>1. SaveFile
    BY <1>6 DEF Save
  <2>2. QED
    BY <1>2, <2>1, SaveFileGood
<1>7. CASE Save /\ gui.capture_in_progress
  <2>1. PICK b \in BOOLEAN : b = TRUE
    OBVIOUS
  <2>2. At("save", context, b) /\ UNCHANGED pipe
    BY <1>1, <1>7, <2>1 DEF Save
  <2>3. gui' \in GuiType /\ gui'.pc = "save" /\ gui'.capture_in_progress = b
    BY <1>3, <2>2, AtType DEF Contexts
  <2>4. WindowInv(s, gui')
    BY <1>3, <2>1, <2>3 DEF WindowInv
  <2>5. Good(cfg, s, gui', child, pipe, disk, captures)
    BY <2>3, <2>4, WindowGood
  <2>6. PICK r : r = capture_stop(s)
    OBVIOUS
  <2>7. Becomes(r)
    BY <1>7, <2>6 DEF Save, captureStop
  <2>8. s \in ParentType
    BY DEF Good, Consistent, SessionType
  <2>9. SameCore(s, r)
    BY <2>6, <2>8, CaptureStopCore
  <2>10. Good(cfg, r, gui', child, pipe, disk, captures)
    BY <2>5, <2>9, CoreGood
  <2>11. QED
    BY <2>2, <2>7, <2>10, WindowBecomes
<1>8. QED
  BY <1>4, <1>5, <1>6, <1>7

\* The loop of captureStop() is over.
LEMMA StoppedGood ==
    ASSUME cfg \in ConfigType, captures \in Nat, CoveredSettings,
           Good(cfg, s, gui, child, pipe, disk, captures), SaveStopped \/ CloseStopped
    PROVE  WindowStep
<1>1. CASE SaveStopped
  BY <1>1, SaveFileGood DEF SaveStopped
<1>2. CASE CloseStopped
  <2>1. PICK context : context = gui.context
    OBVIOUS
  <2>2. StopLoopEnds /\ CloseFile(s, context)
    BY <1>2, <2>1 DEF CloseStopped
  <2>3. context \in Contexts /\ (HasCapFile(s) => s.state = "STOPPED")
    BY <2>1, <2>2, WaitingFacts
  <2>4. s.cf # "ABORTED"
    BY <2>2 DEF StopLoopEnds
  <2>5. QED
    BY <2>2, <2>3, <2>4, CloseFileGood
<1>3. QED
  BY <1>1, <1>2

\* Real time mode is switched off during a capture.
LEMMA ChangePreferenceGood ==
    ASSUME cfg \in ConfigType, CoveredSettings,
           Good(cfg, s, gui, child, pipe, disk, captures), ChangePreference
    PROVE  WindowStep
<1>1. PICK mode \in cfg.prefs : Becomes([s EXCEPT !.real_time_mode = mode])
  BY DEF ChangePreference
<1>2. gui' = gui /\ UNCHANGED pipe
  BY DEF ChangePreference
<1>3. mode \in BOOLEAN /\ ~mode
  <2>1. cfg.prefs \subseteq BOOLEAN
    BY DEF ConfigType
  <2>2. TRUE \notin cfg.prefs
    BY DEF CoveredSettings
  <2>3. QED
    BY <2>1, <2>2
<1>4. PICK r : r = [s EXCEPT !.real_time_mode = mode]
  OBVIOUS
<1>5. /\ SessionType(s, gui, child, pipe, disk) /\ FilesInv(s, disk) /\ ReadInv(s, disk)
      /\ WindowInv(s, gui) /\ ExtcapInv(s, cfg)
      /\ ChildInv(s, child, pipe, cfg) /\ DumpcapInv(child, disk)
      /\ PipeInv(s, child, pipe, disk, captures) /\ TimerInv(s)
      /\ ShownInv(s, child, disk, captures)
  BY DEF Good, Consistent
<1>6. s \in ParentType /\ s.ok
  BY <1>5 DEF SessionType
<1>7. [s EXCEPT !.real_time_mode = mode] \in ParentType
  BY <1>3, <1>6, Zenon DEF ParentType
<1>8. r \in ParentType
  BY <1>4, <1>7
<1>9. /\ SameFile(s, r) /\ SameNames(s, r) /\ SameProcesses(s, r)
      /\ r.count = s.count /\ r.count_pending = s.count_pending /\ r.told = s.told
      /\ r.drops = s.drops /\ r.real_time_mode = mode /\ r.state = s.state
      /\ r.terminate_id = s.terminate_id
  BY <1>3, <1>4, <1>6, <1>8, SMT DEF ParentType, SameFile, SameNames, SameProcesses
<1>10. r.ok
  BY <1>4, <1>6, <1>8, SMT DEF ParentType
<1>11. SessionType(r, gui, child, pipe, disk)
  BY <1>5, <1>8, <1>10 DEF SessionType
<1>12. FilesInv(r, disk)
  BY <1>5, <1>9 DEF FilesInv, HasCapFile, SameFile, SameNames
<1>13. ReadInv(r, disk)
  BY <1>3, <1>5, <1>9 DEF ReadInv, SameFile, SameNames
<1>14. WindowInv(r, gui)
  BY <1>5, <1>9 DEF WindowInv, SameFile
<1>15. ExtcapInv(r, cfg) /\ TimerInv(r)
  BY <1>5, <1>9 DEF ExtcapInv, TimerInv, SameProcesses
<1>16. ChildInv(r, child, pipe, cfg)
  BY <1>5, <1>9 DEF ChildInv, SameProcesses
<1>17. PipeInv(r, child, pipe, disk, captures)
  <2>1. /\ r.state = s.state /\ r.count = s.count /\ r.newest = s.newest /\ r.drops = s.drops
        /\ r.save_file = s.save_file
    BY <1>9 DEF SameNames
  <2>2. QED
    BY <1>5, <2>1, TellsCore DEF PipeInv
<1>18. ShownInv(r, child, disk, captures)
  BY <1>5, <1>9 DEF ShownInv, SameFile, SameNames
<1>19. Good(cfg, r, gui', child, pipe, disk, captures)
  BY <1>2, <1>5, <1>11, <1>12, <1>13, <1>14, <1>15, <1>16, <1>17, <1>18 DEF Good, Consistent
<1>20. Becomes(r)
  BY <1>1, <1>4
<1>21. QED
  BY <1>2, <1>19, <1>20, WindowBecomes
-----------------------------------------------------------------------------
(* The invariant, and what follows from it.                                  *)

\* The settings never change, and captures are counted one by one.
LEMMA NextSettings ==
    ASSUME captures \in Nat, [Next]_vars
    PROVE  cfg' = cfg /\ captures' \in Nat
<1>1. ASSUME NEW p, NEW context, Closed(p, context)
      PROVE  cfg' = cfg /\ captures' \in Nat
  <2>1. CASE startCapture(p)
    <3>1. cfg' = cfg
      BY <2>1 DEF startCapture
    <3>2. captures' = captures \/ captures' = captures + 1
      BY <2>1 DEF startCapture
    <3>3. QED
      BY <3>1, <3>2
  <2>2. CASE Becomes(p)
    BY <2>2 DEF Becomes
  <2>3. QED
    BY <1>1, <2>1, <2>2 DEF Closed
<1>2. ASSUME NEW p, NEW context, CloseFile(p, context)
      PROVE  cfg' = cfg /\ captures' \in Nat
  BY <1>1, <1>2 DEF CloseFile
<1>3. ASSUME NEW p, Becomes(p)
      PROVE  cfg' = cfg /\ captures' \in Nat
  BY <1>3 DEF Becomes
<1>4. ASSUME NEW p, NEW context, NEW x, DoCloseFile(p, context, x)
      PROVE  cfg' = cfg /\ captures' \in Nat
  BY <1>2, <1>3, <1>4 DEF DoCloseFile
<1>5. ASSUME NEW p, NEW context, tryClosingCaptureFile(p, context)
      PROVE  cfg' = cfg /\ captures' \in Nat
  <2>1. \/ Closed(p, context)
        \/ Becomes(p)
        \/ DoCloseFile(p, context, p.cf = "IN_PROGRESS" /\ p.state # "STOPPED")
    BY <1>5 DEF tryClosingCaptureFile
  <2>2. QED
    BY <1>1, <1>3, <1>4, <2>1
<1>6. CASE ChildAction
  BY <1>6 DEF ChildAction, ChildBoot, ChildOpenOutput, ChildFailsToStart, ChildWritesPacket,
     ChildPassesSection, ChildReports, ChildSwitchesFile, ChildStops, ChildClosesOutput,
     ChildExits, ChildCrashes, ChildStep
<1>7. CASE InputAction
  <2>1. \E p : Becomes(p)
    BY <1>7 DEF InputAction, InputFile, InputPacketCount, InputDrops, InputError, InputEnd
  <2>2. QED
    BY <1>3, <2>1
<1>8. CASE ExtcapAction
  <2>1. CASE ExtcapExits
    BY <2>1 DEF ExtcapExits
  <2>2. CASE extcap_child_watch_cb \/ ExtcapPipesClosed \/ TerminateTimer
    <3>1. \E p : Becomes(p)
      BY <2>2 DEF extcap_child_watch_cb, ExtcapPipesClosed, TerminateTimer
    <3>2. QED
      BY <1>3, <3>1
  <2>3. QED
    BY <1>8, <2>1, <2>2 DEF ExtcapAction
<1>9. CASE ClickStart \/ ClickRestart \/ CloseWindow
  BY <1>5, <1>9 DEF ClickStart, ClickRestart, CloseWindow
<1>10. CASE ClickStop \/ Cancel \/ ChangePreference
  <2>1. \E p : Becomes(p)
    BY <1>10 DEF ClickStop, Cancel, ChangePreference
  <2>2. QED
    BY <1>3, <2>1
<1>11. CASE Discard \/ Save \/ SaveStopped \/ CloseStopped
  <2>1. ASSUME SaveFile
        PROVE  cfg' = cfg /\ captures' \in Nat
    BY <1>3, <1>4, <2>1 DEF SaveFile
  <2>2. QED
    BY <1>2, <1>3, <1>4, <1>11, <2>1 DEF Discard, Save, SaveStopped, CloseStopped
<1>12. CASE UNCHANGED vars
  BY <1>12 DEF vars
<1>13. QED
  BY <1>6, <1>7, <1>8, <1>9, <1>10, <1>11, <1>12 DEF Next, UserAction

\* What becomes of dumpcap in a step that is not its own.
ChildChange ==
    child' = child \/ child' = Signalled(child) \/ (\E p : child' = NewChild(p))

\* Nothing happens after an assertion failed, and only dumpcap, a signal to it and
\* the start of a new capture change dumpcap.
LEMMA NextRuns ==
    ASSUME [Next]_vars
    PROVE  /\ Running \/ UNCHANGED vars
           /\ ChildAction \/ ChildChange
<1>1. ASSUME NEW p, Becomes(p)
      PROVE  Running /\ ChildChange
  BY <1>1 DEF Becomes, ChildChange
<1>2. ASSUME NEW p, startCapture(p)
      PROVE  Running /\ ChildChange
  BY <1>2 DEF startCapture, ChildChange
<1>3. ASSUME NEW p, NEW context, Closed(p, context)
      PROVE  Running /\ ChildChange
  BY <1>1, <1>2, <1>3 DEF Closed
<1>4. ASSUME NEW p, NEW context, CloseFile(p, context)
      PROVE  Running /\ ChildChange
  BY <1>3, <1>4 DEF CloseFile
<1>5. ASSUME NEW p, NEW context, NEW x, DoCloseFile(p, context, x)
      PROVE  Running /\ ChildChange
  BY <1>1, <1>4, <1>5 DEF DoCloseFile
<1>6. ASSUME NEW p, NEW context, tryClosingCaptureFile(p, context)
      PROVE  Running /\ ChildChange
  <2>1. \/ Closed(p, context)
        \/ Becomes(p)
        \/ DoCloseFile(p, context, p.cf = "IN_PROGRESS" /\ p.state # "STOPPED")
    BY <1>6 DEF tryClosingCaptureFile
  <2>2. QED
    BY <1>1, <1>3, <1>5, <2>1
<1>7. CASE ChildAction
  BY <1>7 DEF ChildAction, ChildBoot, ChildOpenOutput, ChildFailsToStart, ChildWritesPacket,
     ChildPassesSection, ChildReports, ChildSwitchesFile, ChildStops, ChildClosesOutput,
     ChildExits, ChildCrashes, ChildStep
<1>8. CASE InputAction
  <2>1. \E p : Becomes(p)
    BY <1>8 DEF InputAction, InputFile, InputPacketCount, InputDrops, InputError, InputEnd
  <2>2. QED
    BY <1>1, <2>1
<1>9. CASE ExtcapAction
  <2>1. CASE ExtcapExits
    BY <2>1 DEF ExtcapExits, ChildChange
  <2>2. CASE extcap_child_watch_cb \/ ExtcapPipesClosed \/ TerminateTimer
    <3>1. \E p : Becomes(p)
      BY <2>2 DEF extcap_child_watch_cb, ExtcapPipesClosed, TerminateTimer
    <3>2. QED
      BY <1>1, <3>1
  <2>3. QED
    BY <1>9, <2>1, <2>2 DEF ExtcapAction
<1>10. CASE ClickStart \/ ClickRestart \/ CloseWindow
  BY <1>6, <1>10 DEF ClickStart, ClickRestart, CloseWindow
<1>11. CASE ClickStop \/ Cancel \/ ChangePreference
  <2>1. \E p : Becomes(p)
    BY <1>11 DEF ClickStop, Cancel, ChangePreference
  <2>2. QED
    BY <1>1, <2>1
<1>12. CASE Discard \/ Save \/ SaveStopped \/ CloseStopped
  <2>1. ASSUME SaveFile
        PROVE  Running /\ ChildChange
    BY <1>1, <1>5, <2>1 DEF SaveFile
  <2>2. QED
    BY <1>1, <1>4, <1>5, <1>12, <2>1 DEF Discard, Save, SaveStopped, CloseStopped
<1>13. CASE UNCHANGED vars
  BY <1>13 DEF vars, ChildChange
<1>14. QED
  BY <1>7, <1>8, <1>9, <1>10, <1>11, <1>12, <1>13 DEF Next, UserAction

\* Only a source that is passed through has the name of its file delayed.
LEMMA PassStep ==
    ASSUME cfg \in ConfigType, Good(cfg, s, gui, child, pipe, disk, captures),
           PassInv(cfg, child), [Next]_vars
    PROVE  PassInv(cfg, child')
<1>1. child \in ChildType /\ cfg.passthrough \in BOOLEAN
  BY DEF Good, Consistent, SessionType, ConfigType
<1>2. CASE ChildChange
  <2>1. CASE child' = child
    BY <2>1
  <2>2. CASE child' = Signalled(child)
    BY <1>1, <2>2, SignalledChild DEF PassInv
  <2>3. CASE \E p : child' = NewChild(p)
    BY <2>3, NewChildStarts DEF PassInv
  <2>4. QED
    BY <1>2, <2>1, <2>2, <2>3 DEF ChildChange
<1>3. CASE ChildAction
  <2>1. CASE ChildBoot \/ ChildFailsToStart \/ ChildWritesPacket \/ ChildReports \/ ChildStops
             \/ ChildClosesOutput \/ ChildExits \/ ChildCrashes
    <3>1. child'.files = child.files /\ child'.section = child.section /\ child'.delayed = child.delayed
      BY <1>1, <2>1 DEF ChildBoot, ChildFailsToStart, ChildWritesPacket, ChildReports, ChildStops,
         ChildClosesOutput, ChildExits, ChildCrashes, ChildStep, ChildType
    <3>2. QED
      BY <3>1 DEF PassInv
  <2>2. CASE ChildPassesSection
    <3>1. child'.delayed = 0 /\ child'.section = TRUE
      BY <1>1, <2>2 DEF ChildPassesSection, ChildStep, ChildType
    <3>2. QED
      BY <3>1 DEF PassInv
  <2>3. CASE ChildOpenOutput
    <3>1. child'.delayed = Delayed /\ child'.section = ~cfg.passthrough
      BY <1>1, <2>3 DEF ChildOpenOutput, ChildStep, ChildType
    <3>2. QED
      BY <1>1, <3>1 DEF PassInv, Delayed
  <2>4. CASE ChildSwitchesFile
    <3>1. child'.delayed = Delayed /\ child'.section = child.section /\ child.phase = "run"
      BY <1>1, <2>4 DEF ChildSwitchesFile, ChildStep, ChildType
    <3>2. child.files > 0
      BY <3>1 DEF Good, Consistent, DumpcapInv
    <3>3. QED
      BY <1>1, <3>1, <3>2 DEF PassInv, Delayed
  <2>5. QED
    BY <1>3, <2>1, <2>2, <2>3, <2>4 DEF ChildAction
<1>4. QED
  BY <1>2, <1>3, NextRuns

\* Every step of dumpcap keeps the invariant.
LEMMA ChildActionGood ==
    ASSUME cfg \in ConfigType, Good(cfg, s, gui, child, pipe, disk, captures),
           PassInv(cfg, child), ChildAction
    PROVE  Good(cfg', s', gui', child', pipe', disk', captures')
<1>1. CASE ChildBoot
  BY <1>1, ChildBootGood
<1>2. CASE ChildOpenOutput
  BY <1>2, ChildOpenOutputGood
<1>3. CASE ChildFailsToStart \/ ChildExits
  BY <1>3, ChildEndsGood
<1>4. CASE ChildWritesPacket
  BY <1>4, ChildWritesPacketGood
<1>5. CASE ChildReports
  BY <1>5, ChildReportsGood
<1>6. CASE ChildSwitchesFile
  BY <1>6, ChildSwitchesFileGood
<1>7. CASE ChildStops
  BY <1>7, ChildStopsGood
<1>8. CASE ChildClosesOutput
  BY <1>8, ChildClosesOutputGood
<1>9. CASE ChildCrashes
  BY <1>9, ChildCrashesGood
<1>10. CASE ChildPassesSection
  BY <1>10, ChildPassesSectionGood
<1>11. QED
  BY <1>1, <1>2, <1>3, <1>4, <1>5, <1>6, <1>7, <1>8, <1>9, <1>10 DEF ChildAction

\* Every message does, or the drops come too early.
LEMMA InputActionGood ==
    ASSUME Good(cfg, s, gui, child, pipe, disk, captures), captures \in Nat, InputAction,
           PassInv(cfg, child)
    PROVE  Good(cfg', s', gui', child', pipe', disk', captures') \/ Lost'
<1>1. CASE InputFile
  BY <1>1, InputFileGood
<1>2. CASE InputPacketCount
  BY <1>2, InputPacketCountGood
<1>3. CASE InputDrops
  BY <1>3, InputDropsGood, InputDropsLost
<1>4. CASE InputError
  BY <1>4, InputErrorGood
<1>5. CASE InputEnd
  BY <1>5, InputEndGood
<1>6. QED
  BY <1>1, <1>2, <1>3, <1>4, <1>5 DEF InputAction

\* So does what happens to the extcap.
LEMMA ExtcapActionGood ==
    ASSUME Good(cfg, s, gui, child, pipe, disk, captures), ExtcapAction
    PROVE  Good(cfg', s', gui', child', pipe', disk', captures')
<1>1. CASE ExtcapExits
  BY <1>1, ExtcapExitsGood
<1>2. CASE extcap_child_watch_cb \/ ExtcapPipesClosed
  BY <1>2, ExtcapWatchGood
<1>3. CASE TerminateTimer
  BY <1>3, TerminateTimerGood
<1>4. QED
  BY <1>1, <1>2, <1>3 DEF ExtcapAction

\* And what the user does.
LEMMA WindowActionGood ==
    ASSUME cfg \in ConfigType, captures \in Nat, CoveredSettings,
           Good(cfg, s, gui, child, pipe, disk, captures),
           UserAction \/ SaveStopped \/ CloseStopped
    PROVE  Good(cfg', s', gui', child', pipe', disk', captures')
<1>1. WindowStep
  <2>1. CASE ClickStart \/ ClickRestart \/ CloseWindow
    BY <2>1, ClickGood
  <2>2. CASE ClickStop
    BY <2>2, ClickStopGood
  <2>3. CASE Cancel \/ Discard \/ Save
    BY <2>3, AnswerGood
  <2>4. CASE ChangePreference
    BY <2>4, ChangePreferenceGood
  <2>5. CASE SaveStopped \/ CloseStopped
    BY <2>5, StoppedGood
  <2>6. QED
    BY <2>1, <2>2, <2>3, <2>4, <2>5 DEF UserAction
<1>2. QED
  BY <1>1 DEF WindowStep

\* The invariant holds before the first capture.
LEMMA InitGood ==
    ASSUME Init
    PROVE  SessionInv
<1>1. cfg \in ConfigType
  BY ConfigsAssumption DEF Init
<1>2. PICK b, t : b = FALSE /\ t = TRUE
  OBVIOUS
<1>3. PICK x, y : x = cfg.real_time_mode /\ y = IF cfg.named THEN "user" ELSE "NULL"
  OBVIOUS
<1>4. b \in BOOLEAN /\ t \in BOOLEAN /\ x \in BOOLEAN /\ y \in {"user", "NULL"}
  BY <1>1, <1>2, <1>3 DEF ConfigType
<1>5. s = [state |-> "STOPPED", count |-> 0, count_pending |-> 0, fork_child |-> b,
           watch |-> b, real_time_mode |-> x, save_file |-> y,
           restart |-> b, stop_after_extcaps |-> b, cf |-> "CLOSED",
           filename |-> 0, newest |-> 0, is_tempfile |-> b, read |-> 0,
           told |-> 0, drops |-> 0, unlinked |-> {},
           pid |-> b, io |-> b, extcap_alive |-> b, killed |-> b,
           terminate_id |-> b, wait_cbs |-> b, signalled |-> b,
           start_enabled |-> t, stop_enabled |-> b,
           stopping |-> b, ok |-> t]
  BY <1>2, <1>3, Zenon DEF Init, InitParent
<1>6. s \in ParentType
  BY <1>4, <1>5, SMT DEF ParentType
<1>7. /\ s.state = "STOPPED" /\ s.cf = "CLOSED" /\ s.read = 0 /\ s.count_pending = 0
      /\ s.unlinked = {} /\ s.is_tempfile = b /\ s.ok = t /\ s.fork_child = b /\ s.watch = b
      /\ s.pid = b /\ s.io = b /\ s.extcap_alive = b /\ s.terminate_id = b
  BY <1>5, SMT
<1>8. /\ s.ok /\ ~s.is_tempfile /\ ~s.fork_child /\ ~s.watch /\ ~s.pid /\ ~s.io
      /\ ~s.extcap_alive /\ ~s.terminate_id
  BY <1>2, <1>7
<1>9. /\ gui = [pc |-> "idle", context |-> "start", capture_in_progress |-> b]
      /\ child = [phase |-> "none", go |-> b, unsent |-> 0, pkts |-> 0,
                  files |-> 0, section |-> b, delayed |-> 0, kind |-> "temp", by |-> "start", crashed |-> b]
      /\ pipe = << >> /\ disk = << >> /\ captures = 0
  BY <1>2, Zenon DEF Init
<1>10. gui \in GuiType /\ gui.pc = "idle" /\ child \in ChildType /\ child.phase = "none"
       /\ child.files = 0 /\ child.unsent = 0 /\ ~child.section /\ child.delayed = 0
  BY <1>2, <1>4, <1>9 DEF GuiType, ChildType
<1>11. SessionType(s, gui, child, pipe, disk)
  BY <1>6, <1>8, <1>9, <1>10 DEF SessionType
<1>12. FilesInv(s, disk) /\ ReadInv(s, disk) /\ WindowInv(s, gui)
  BY <1>7, <1>8, <1>10 DEF FilesInv, ReadInv, WindowInv, HasCapFile
<1>13. ExtcapInv(s, cfg) /\ TimerInv(s) /\ ChildInv(s, child, pipe, cfg) /\ DumpcapInv(child, disk)
  BY <1>7, <1>8, <1>10 DEF ExtcapInv, TimerInv, ChildInv, DumpcapInv
<1>14. PipeInv(s, child, pipe, disk, captures) /\ ShownInv(s, child, disk, captures)
  BY <1>7 DEF PipeInv, ShownInv
<1>15. Good(cfg, s, gui, child, pipe, disk, captures)
  BY <1>11, <1>12, <1>13, <1>14 DEF Good, Consistent
<1>16. PassInv(cfg, child)
  BY <1>10 DEF PassInv
<1>17. QED
  BY <1>1, <1>9, <1>15, <1>16 DEF SessionInv

\* Every step keeps it.
LEMMA NextGood ==
    ASSUME SessionInv, [Next]_vars
    PROVE  SessionInv'
<1>1. cfg \in ConfigType /\ captures \in Nat
  BY DEF SessionInv
<1>2. cfg' = cfg /\ captures' \in Nat
  BY <1>1, NextSettings
<1>3. CoveredSettings' = CoveredSettings
  BY <1>2 DEF CoveredSettings
<1>4. ASSUME CoveredSettings, Good(cfg, s, gui, child, pipe, disk, captures), PassInv(cfg, child)
      PROVE  Good(cfg', s', gui', child', pipe', disk', captures') \/ Lost'
  <2>1. CASE ChildAction
    BY <1>1, <1>4, <2>1, ChildActionGood
  <2>2. CASE InputAction
    BY <1>1, <1>4, <2>2, InputActionGood
  <2>3. CASE ExtcapAction
    BY <1>4, <2>3, ExtcapActionGood
  <2>4. CASE UserAction \/ SaveStopped \/ CloseStopped
    BY <1>1, <1>4, <2>4, WindowActionGood
  <2>5. CASE UNCHANGED vars
    BY <1>4, <2>5 DEF vars
  <2>6. QED
    BY <2>1, <2>2, <2>3, <2>4, <2>5 DEF Next
<1>5. ASSUME CoveredSettings, Good(cfg, s, gui, child, pipe, disk, captures), PassInv(cfg, child)
      PROVE  PassInv(cfg', child')
  BY <1>1, <1>2, <1>5, PassStep
<1>6. ASSUME Lost
      PROVE  Lost'
  <2>1. ~Running
    BY <1>6 DEF Lost, Running
  <2>2. UNCHANGED vars
    BY <2>1, NextRuns
  <2>3. QED
    BY <1>6, <2>2 DEF Lost, vars
<1>7. QED
  BY <1>1, <1>2, <1>3, <1>4, <1>5, <1>6 DEF SessionInv

\* The inductive invariant holds: in every session whose real time mode is not
\* switched on while it runs and whose extcap is never left behind by a dumpcap
\* that could not be started.
THEOREM SessionInvariant == Spec => []SessionInv
<1>1. Init => SessionInv
  BY InitGood
<1>2. SessionInv /\ [Next]_vars => SessionInv'
  BY NextGood
<1>3. QED
  BY <1>1, <1>2, PTL DEF Spec

\* No assertion of ui/capture.c or cf_close() fails, and everything keeps its
\* type, in whatever order messages, ends of processes, the timer and the user
\* come; but for the drops of a passed-through source that sent no section header.
THEOREM SessionAssertions == Spec => [](CoveredSettings => AssertionsHold)
<1>1. SessionInv => (CoveredSettings => AssertionsHold)
  <2>1. ASSUME Good(cfg, s, gui, child, pipe, disk, captures)
        PROVE  AssertionsHold
    BY <2>1 DEF Good, Consistent, SessionType, AssertionsHold
  <2>2. ASSUME Lost
        PROVE  AssertionsHold
    BY <2>2 DEF Lost, Unannounced, AssertionsHold, EndedUnannounced
  <2>3. QED
    BY <2>1, <2>2 DEF SessionInv
<1>2. QED
  BY <1>1, SessionInvariant, PTL

\* A capture that is over is shown as dumpcap left it: all of its last file, or
\* of the last one the session was told of, every packet counted and the drops of
\* this capture (capture_input_closed()).
THEOREM SessionShowsCapture == Spec => [](CoveredSettings => WholeCaptureShown)
<1>1. SessionInv => (CoveredSettings => WholeCaptureShown)
  <2>1. SUFFICES ASSUME SessionInv, CoveredSettings, s.state = "STOPPED", s.cf = "DONE"
                 PROVE  /\ s.filename # Len(disk) =>
                             /\ cfg.passthrough /\ child.delayed = Len(disk)
                             /\ s.filename \in Len(disk) - child.files + 1 .. Len(disk)
                        /\ s.read = disk[s.filename].pkts
                        /\ ~child.crashed => s.count = child.pkts /\ s.drops = captures
    BY DEF WholeCaptureShown
  <2>2. /\ FilesInv(s, disk) /\ ShownInv(s, child, disk, captures) /\ DumpcapInv(child, disk)
        /\ PassInv(cfg, child) /\ SessionType(s, gui, child, pipe, disk)
    BY <2>1 DEF SessionInv, Good, Consistent, Lost
  <2>3. s.filename = s.newest /\ s.newest \in Nat /\ Len(disk) \in Nat /\ child.files \in Nat
    BY <2>1, <2>2 DEF FilesInv, HasCapFile, SessionType, ParentType, ChildType
  <2>4. /\ Latest(s.newest, child, disk) /\ s.read = disk[s.newest].pkts
        /\ ~child.crashed => s.count = child.pkts /\ s.drops = captures
    BY <2>1, <2>2 DEF ShownInv
  <2>5. ASSUME s.filename # Len(disk)
        PROVE  /\ cfg.passthrough /\ child.delayed = Len(disk)
               /\ s.filename \in Len(disk) - child.files + 1 .. Len(disk)
    <3>1. child.delayed # 0 /\ s.newest <= Len(disk) /\ s.newest > Len(disk) - child.files
      BY <2>3, <2>4, <2>5 DEF Latest
    <3>2. child.delayed = Len(disk) /\ cfg.passthrough
      BY <2>2, <3>1 DEF DumpcapInv, PassInv
    <3>3. QED
      BY <2>3, <3>1, <3>2
  <2>6. QED
    BY <2>3, <2>4, <2>5
<1>2. QED
  BY <1>1, SessionInvariant, PTL

\* Nothing is read from a file dumpcap still writes that it has not reported
\* (cf_continue_tail()).
THEOREM SessionReads == Spec => [](CoveredSettings => ReadsWhatWasReported)
<1>1. SessionInv => (CoveredSettings => ReadsWhatWasReported)
  <2>1. SUFFICES ASSUME SessionInv, CoveredSettings, s.state = "RUNNING", s.cf = "IN_PROGRESS"
                 PROVE  s.read <= s.told
    BY DEF ReadsWhatWasReported
  <2>2. s \in ParentType /\ s.read + s.count_pending <= s.told
    BY <2>1 DEF SessionInv, Good, Consistent, SessionType, ReadInv, Lost
  <2>3. s.read \in Nat /\ s.count_pending \in Nat /\ s.told \in Nat
    BY <2>2 DEF ParentType
  <2>4. QED
    BY <2>2, <2>3
<1>2. QED
  BY <1>1, SessionInvariant, PTL

\* Only temporary files are removed (cf_close(), is_tempfile).
THEOREM SessionKeepsUserFiles == Spec => [](CoveredSettings => UserFilesKept)
<1>1. SessionInv => (CoveredSettings => UserFilesKept)
  BY DEF SessionInv, Good, Consistent, FilesInv, Lost, UserFilesKept
<1>2. QED
  BY <1>1, SessionInvariant, PTL

\* When the session is over dumpcap and the extcap are gone, or, where opening a
\* file may fail and the emergency brake ends the session, dumpcap was told to stop
\* (capture_process_finished(), sync_pipe_input_cb()).
THEOREM SessionLeavesNothing == Spec => [](CoveredSettings => NothingLeftRunning)
<1>1. SessionInv => (CoveredSettings => NothingLeftRunning)
  <2>1. SUFFICES ASSUME SessionInv, CoveredSettings, s.state = "STOPPED"
                 PROVE  /\ child.phase = "run" => ~child.go
                        /\ "open" \notin cfg.faults =>
                             ~s.extcap_alive /\ child.phase \in {"none", "exited"}
    BY DEF NothingLeftRunning
  <2>2. ExtcapInv(s, cfg) /\ ChildInv(s, child, pipe, cfg)
    BY <2>1 DEF SessionInv, Good, Consistent, Lost
  <2>3. QED
    BY <2>1, <2>2 DEF ExtcapInv, ChildInv
<1>2. QED
  BY <1>1, SessionInvariant, PTL

=============================================================================
