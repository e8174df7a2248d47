# Formal models of Wireshark's capture engine and of its dissection tables

TLA+ specifications of the parts of Wireshark whose correctness depends on order:
`dumpcap`, the process that captures packets and writes them to files, with the
pipes it reads from; the session of the GUI process that starts, follows and ends
it; and the two tables of the dissection engine that every protocol relies on,
reassembly and conversations. The modules are translated from the C and C++
sources; `PROJECT.json` maps every definition to the lines it models.

## The system and its parts

Wireshark and TShark do not capture themselves. They start `dumpcap`, which
opens the devices and capture pipes, writes capture files, and tells its parent
over the *sync pipe* which file it writes (`SP_FILE`), how many more packets are
in it (`SP_PACKET_COUNT`), what went wrong (`SP_ERROR_MSG`) and how many packets
were lost (`SP_DROPS`). The parent reads the packets from the file, dissects
them once in order, and later again in any order as the user looks at them.

| Part | State | Operations | Hard because | Correct when |
|---|---|---|---|---|
| Ring buffer, `ringbuffer.c` | `rb_data`: slots with file names, current number, stream, name handle | init, switch, close, free, error cleanup | numbers in names wrap; each call can fail half-way; dumpcap keeps its own copies of the stream and of a name | the newest files are on disk with their data and nothing else is; names are printed once; a failed start leaves nothing |
| Capture loop, `dumpcap.c` | `global_ld`, `pcap_queue` with its counters, per-source counters and errors | reader threads queue, the main thread writes, checks conditions, switches files, reports, drains and closes; a signal stops | threads, a signal handler, limits of the queue, failures of input and output in any iteration | order kept, limits exact, every packet accounted for, the parent told the right counts for the right file, the capture ends |
| pcapng output, `dumpcap.c` | saved section header and interface descriptions, the map from each source's interfaces to global ones | blocks of all sources are merged; each new file repeats the descriptions | sources start new sections while others go on and files are switched; blocks wait in the queue | each packet refers to the description of its own interface in its own section of its own file |
| Capture pipes, `dumpcap.c` | state of the record being read, its buffer | open, read header, read data | reads return any part of what was asked for; the writer ends anywhere; lengths are malformed, byte swapped or interchanged | records are cut out of the stream whole and in order, no buffer is overrun, a closed pipe ends the source |
| Sync pipe and session, `capture/capture_sync.c`, `ui/capture.c`, `extcap.c`, `ui/qt/wireshark_main_window*.cpp` | session state, child processes, timer, capture file, menus | messages and their callbacks, start, stop, restart, kill, closing the window | order of messages, the death of either child, a stop that races them, nested event loops | the last file is shown whole, no assertion fails, nothing is left running, the user's files are kept, a stop ends the session |
| Reassembly, `epan/reassemble.c` | fragment lists with a cached first gap, tables of complete PDUs by frame | add by offset or block number, extend, truncate, delete | fragments come in any order, doubled, overlapping, contradicting; the length changes | every byte in its place, conflicts marked, complete at once, found again in the second pass |
| Conversations, `epan/conversation.c` | hash tables by kind of key, chains ordered by setup frame, a cached last hit | create, find, replace a wildcard, use a template | keys change in place, both directions, later passes in any order | each conversation stays reachable, a lookup gives the latest one that was set up in time, later passes agree with the first |
| Capture file, `file.c`, `epan/frame_data*` | frames, states of reading | load, rescan, retap | the event loop is entered again in the middle | (only its states during a live capture; see the plan) |
| File library, `wiretap/` | open files, interface maps, merge heap | read, seek, write, merge | mapping of interfaces, order | (planned) |

The calls run from the loop to the ring (`do_file_switch_or_stop` calls
`ringbuf_switch_file`), from the loop to the pcapng output (the write callback,
and the start of each file), from the dispatchers of the pipes to the loop, and
from all of them to the sync pipe. The shared state is `global_ld.go` (written by
every thread and by the signal handler), the queue with its counters (under the
queue's lock), the counters `dropped` and `flushed` of a source (no lock) and
`cap_pipe_err` (no lock). The GUI process has one thread; what interleaves there
are callbacks of the event loop, nested in dialogs and in `captureStop()`.
`PROJECT.json` lists every part, also those that are not modelled, with the
reason, and under "hazards" each line where something can go wrong that a test
would hardly reach.

## Modules

| Module | Models |
|---|---|
| `RingBuffer` | all of `ringbuffer.c`, with the calls of `dumpcap.c` on it |
| `RingBufferMC`, `RingBufferProofs` | the instance TLC checks; theorems for all parameters |
| `CaptureLoop` | reader threads, queue, main thread, signal, for devices and pipes in pcap format |
| `CaptureLoopMC`, `CaptureLoopProofs` | instances; theorems for all parameters |
| `PacketLedger` | abstract specification: what a capture promises about packets |
| `CaptureLedger` | the refinement mapping from `CaptureLoop` to `PacketLedger`; `CaptureLoopProofs` has the proof |
| `PcapngOutput` | blocks, sections and interfaces over several files, and what the parent is told of them |
| `PcapngOutputMC`, `PcapngOutputProofs` | six captures; theorems for all sources, sections and file switches |
| `CapturePipe` | reading a capture file from a pipe, byte by byte |
| `CapturePipeMC`, `CapturePipeProofs` | thirteen files; theorems for all contents of the pipe |
| `CaptureSession` | the GUI process, with dumpcap and an extcap as it can notice them |
| `CaptureSessionMC`, `CaptureSessionProofs` | eight settings; theorems for all but two, and any number of captures |
| `FragmentList` | the sorted list of fragments and its gap cache |
| `Reassembly` | adding fragments, completing, extending and truncating PDUs |
| `ReassemblyMC`, `ReassemblyProofs` | eleven ways of calling the functions; theorems for all of them |
| `Conversation` | tables, chains and the search for conversations |
| `ConversationMC`, `ConversationProofs` | two instances; theorems for all packets, set-ups and searches |
| `InductionLemmas` | induction over the natural numbers in the form the proofs use |

### RingBuffer

`files`, `num_files`, `unlimited`, `curr_file_num`, `fd`, `pdh` and `name_h` are
the fields of `rb_data`; `save_file` is dumpcap's option that points to a name of
the ring. A file is its *generation*, the value of `curr_file_num` when it was
named. A path is what tells two names of the ring apart: the number printed in
them, `(curr_file_num + 1) % RINGBUFFER_MAX_NUM_FILES`, and the time stamp,
which is any member of `Times` at any moment. `disk` maps a path to the
generation whose data is there, so opening a path a second time (with
`O_TRUNC`) destroys a generation. `created`, `stuck` and `misuse` are history.

An action is a call of dumpcap together with what it does after it:
`OpenOutput`, `InitOutput`, `SwitchFile`, `CloseOutput`, `Cleanup`, and one more
for each way a call fails (`...FailsOnOpen`, `...FailsOnClose`, ...), with the
cleanups the code then makes. `Faults` names the system calls that may fail.
`FlushAfterFailedSwitch` is the flush the loop does on a stream that a failed
switch has closed; what it does is undefined, so the process may crash or go on.

### CaptureLoop

The variables are the fields of `global_ld`, the queue and its two counters, and
`capture_src`'s counters and errors. `rpc` and `wpc` say where a reader thread
and the main thread are. A step runs up to the next access to state another
thread can change: a reader tests `go`, copies the packet and only then takes
the queue's lock; `flushed++` and `dropped++` are a load and a store, because
two threads do them without a lock; the main thread tests `go` before it writes
a packet, and the signal may come in between. With `use_threads` false the main
thread reads its source itself.

`out` has the packets of every file written so far, `visible` how many of them
another process can read (they were flushed or the file was closed), `parent`
what was sent on the sync pipe. `Configs` are the options of a capture: limits
of the queue, `-c`, `-a` and `-b` conditions, and which sources are pipes. A
timer may run out in any iteration in which the update interval is over, where
the code checks it. A file timer is `-b duration` or `-b interval`.

The sources are devices and pipes in pcap format. A pipe in pcapng format differs in
what this module is about: its `SP_FILE` may be delayed (`dumpcap.c:6439`), and its reader
blocks inside a block without looking at `go` (`dumpcap.c:1813`). It is left to
`PcapngOutput` and `CapturePipe`, so `ParentCounts` and `StopEnds` say nothing of it;
`CountsReachParent` and `StopNoticed` say what holds there.

### PacketLedger and the refinement

The ledger knows nothing of threads, queues or files: packets arrive, wait, and
are written or lost; those of a source are written once and in the order of
arrival; with a limit exactly that many are written; once closed nothing is
written. `CaptureLedger` instantiates it with `written` the concatenation of all
files and `pending` what is queued or held by a thread. The ledger is open while
`go` is set or the main thread is past its test of `go`.

### PcapngOutput

A source is a device, for which dumpcap makes the description, or a pcapng pipe
that sends section headers (SHB), interface descriptions (IDB) and packets
(EPB). `saved_shb`, `saved_idbs` and `src_iface_to_global` are dumpcap's, and
`files` has the blocks written. An interface is named by its source, section
and number, and each packet in a file keeps the interface it *really* came from,
so that it can be compared with the description its number refers to.
`ReadShb` and `ReadSection` are the two parts in which a section header is read;
the byte order changes with the first, the block is delivered with the second.

The dispatcher does not look at the interface of a packet, so `ReadPacket` sends one of
any number, described or not. `stray` remembers those that were not, and `known` in a
packet that it was: with one source such a packet is passed through, with several
`pcapng_adjust_block` fails (`dumpcap.c:2693`) and dumpcap aborts (`dumpcap.c:4990`).
`told` has the files the parent was told of, at once or, for a source that is passed
through, when its section header is written; `inpkts_to_sync_pipe` the packets not yet
counted to it, and `counted` the counts sent before the first `SP_FILE` and after each.

### CapturePipe

A byte is its position in the stream, so a buffer shows which bytes it holds and
`delivered` can be compared with the records of the pipe. `cap_pipe_state`,
`cap_pipe_bytes_read`, `cap_pipe_databuf` and so on are the fields of
`capture_src`; `pc` says in which call dumpcap is. A `read()` returns between one
byte and all that was asked for (`Chunk`). The pcapng dispatcher blocks in
`cap_pipe_read_data_bytes` until a block is complete, so each of its reads is a
step of its own (`got`); the pcap dispatcher makes one read for each call.
A pcapng header read in the wrong byte order, or bytes that are not the start of
a record, give `Misread`. The buffer may be any set of sizes (`BufSizes`), in the
code the powers of two.

### CaptureSession

`s` is the state of the GUI process, a record; each callback is an operator from
one such state to another, composed as the code calls them, and one action. `child`
is dumpcap as its parent can notice it: it boots, opens its output, writes and
reports packets, switches files, stops by itself or on a signal, fails, or dies. With
`passthrough` its one source is in pcapng format: `SP_FILE` is not sent when the output
is opened or switched (`child.delayed`) but with the next section header of the source
(`ChildPassesSection`), if there is one; `SP_DROPS` is sent all the same.
`pipe` has the messages under way; the end of the pipe is what is left when the
child is gone. The extcap program may ignore SIGTERM and may leave its pipes open;
the timer then kills it. `gui` says where the main window is inside
`tryClosingCaptureFile`: in the dialog, or in the event loop of `captureStop()`,
in which every other callback goes on.

### FragmentList and Reassembly

A head has the fields of `fragment_head`; its list of fragments is a sequence, and
`first_gap`, a pointer in the code, is the `uid` of a fragment in it. Bytes are named by where they
belong and by a variant, so that data in the wrong place and contradicting data can
be seen. `Calls` says which functions a dissector uses (by offset or by block
number, kept in the table or moved when complete, `..._next`, with a fallback
frame), which others it calls in between, and whether frames may be *short*, not captured
as far as they were on the wire. A fragment of a short frame is given up: in the "check"
functions before it is added (`reassemble.c:1872`), by an exception in
`fragment_add` (`reassemble.c:1563`), but by block number only after the PDU was opened
for it and its length, flags and frame were set (`reassemble.c:2189`). `lost` is a history
field, see the observations.

### Conversation

`st` has the conversations with their keys, options and pointers, and for each kind
of key a table whose entries point to the *key of a conversation*, as in the code,
where the key is changed in place. `find_conversation`, `conversation_new` and the
others map one state of the tables to another, so that a property can ask what a
lookup *would* find. The first pass visits frames in order, `LaterPass` any of
them again; dissectors set up conversations and search with other options.

## Runs

| Run | Expected | Shows |
|---|---|---|
| `ringbuffer` | pass | `NewestKept`, `RingBounded`, `EveryNamePrintedOnce`, `StartFailureLeavesNoFile` |
| `capture_threads` | pass | `QueueBounded`, `DropsAccounted`, `StopIsFinal`, `ImplementsLedger`, `StopEnds`, `EofEnds` |
| `capture_files` | pass | `FilesAsAsked`, `ParentCounts`, `OutputErrorReported`, `NothingAfterStop` |
| `capture_write_error` | violation | `WriteErrorReported`: a file switch in the same iteration wipes out the error |
| `pcapng_output` | pass | `EveryPacketDescribed`, `ReportedFileReadable`, `CountsReachParent` |
| `pipe` | pass | `RecordsWhole`, `BuffersNotOverrun`, `CleanEndLosesNothing`, `ClosedPipeEnds`, `StopNoticed` |
| `session` | pass | `AssertionsHold`, `WholeCaptureShown`, `ReadsWhatWasReported`, `UserFilesKept`, `NothingLeftRunning`, `StopEndsSession` |
| `session_restart` | violation | `PermanentFileKept`: a restart that does not happen leaves its flag set, and the next capture overwrites the file the user named |
| `session_drops` | violation | `DropsWhileRunning`: a capture that ends before its source, which is passed through, has sent a section header reports its drops without having announced a file |
| `reassembly` | pass | `GapCacheExact`, `DataInPlace`, `ConflictsMarked`, `CompletesAtOnce`, `SecondPassFinds` |
| `conversation` | pass | `Reachable`, `ChainsOrdered`, `LookupExact`, `SecondPassSame`, `VisitsAgree`, `TemplatesStay` |
| `conversation_shared` | violation | `Reachable`: when the head of a chain gets its wildcard replaced, the rest of the chain is lost |

`ringbuffer` checks a type invariant that is proved as well. Each `violation` run checks one
statement that a comment or an assertion of the repository makes; `PROJECT.json` quotes it under
"findings".

### Bounds

* RingBuffer: `MaxNumFiles` is 3 and `FileNumBound` is 6, so the number in a name
  wraps twice and each slot is reused; requests are 0 (no limit), 1, 2, 3 and 5
  (above the maximum); two time stamps allow the clock to stand still, advance
  and go back.
* CaptureLoop: two sources, devices, pipes or one of each, with two packets each for
  the threads (a limit of 1 or 2 packets or 600 bytes is reached); one source with three
  packets of two sizes for files, where a file fills after one or two packets and the third
  file is reached.
* PcapngOutput: two sections for each source with up to two interfaces in each
  (one for the second of two pcapng sources), one packet for each source, two
  blocks in the queue, three files: a source can change sections
  before, after and between a file switch and a packet, and a file can be closed
  before it was announced. The packet may be of an interface the source has not
  described. A source that is passed
  through is also run with a queue of one packet, where everything but the first
  section header can be dropped.
* CapturePipe: the headers have their real sizes, the records up to 48 bytes; the
  buffer starts at 32 and grows to 64, so that it is grown between a header and
  its data. The files have every magic number, versions 2.2, 2.3 and 2.4, sections
  that change the byte order, and each kind of record that dumpcap refuses.
* CaptureSession: two captures one after the other, each with up to two packets and
  two files; each of eight settings has its own faults (fork, start, crash, opening
  the file), and two have a source that is passed through, one with an extcap and one with
  several files. A second capture is what shows state left over from the first.
* Reassembly: up to four fragments of up to three bytes in a PDU of at most three
  (more can be past its end), so that a gap can be filled from both sides; two
  variants where contradiction matters; eleven combinations of calls, with three
  or four frames, two PDUs of one id in the "check" functions; in seven of them frames
  may be short.
* Conversation: three frames between a server and two ports of a client in both
  directions, four conversations, six kinds of setup, five of searches; three
  conversations of one key are enough for a head, a middle and an end. The shared run
  sets up a wildcard that is replaced and one that is not (`NO_PORT2_FORCE`) of one key.

Deadlock checking is off where the system may stop: a capture ends, and the
dissection of a bounded number of frames does too.

### Fairness

`FairSpec` of `CaptureLoop` has weak fairness of the main thread and of each reader
thread and none for the signal or for a source. The operating system runs each
thread, and no call the reader of a device or of a pipe in pcap format makes blocks for ever: `pcap_dispatch` returns after
`CAP_READ_TIMEOUT` or on `pcap_breakloop`, `select` after `PIPE_READ_TIMEOUT`,
the dequeue after `WRITER_THREAD_TIMEOUT`. A reader that delivers packets
without end is cut off by the bound on packets; in the code the test of `go`
after each batch does it. The reader of a pcapng pipe gives no such guarantee:
`cap_pipe_read_data_bytes` (`dumpcap.c:1813`) waits for the rest of a block whatever `go`
says, and the join (`dumpcap.c:4603`) waits for it. Such a pipe is not in this module, and
`StopNoticed` of `CapturePipe` excepts exactly this read.

`CapturePipe` has weak fairness of what dumpcap does by itself, with reads that
succeed when there is data and ends of file when the pipe is closed; none for the
program that writes.

`CaptureSession` assumes that the event loop serves each source (the sync pipe, the
child watch of the extcap, its timer, the loop in `captureStop()`), that dumpcap
starts and, once told to stop, closes its output and exits (what `StopEnds` of
`CaptureLoop` is about; a dumpcap that waits inside a block of a pcapng pipe does not
until the writer goes on or ends, so `StopEndsSession` assumes that it does), and that SIGKILL ends an extcap. Nothing is assumed of the
user, of packets, or of what an extcap does on SIGTERM.

## Proofs

`PROJECT.json` lists the theorems. The proofs have one step per action, and below it
one per part of the invariant that the action can disturb. Few of the invariants
that the runs check are inductive as they stand; what each section says of the
strengthening is the reason why the code is right.

What a recursive definition computes is proved through `InductionLemmas`:
a property of numbers is a *set* of numbers there (`SetInduction`: a set that has 0
and with each number the next one has them all; `NatMin`: a set that is not empty
has a least member), because the induction theorems of the library take an
operator, which the provers cannot instantiate.

### RingBufferProofs

For every number of files, every maximum, every set of time stamps and every
combination of failing calls:

* `RingInvariant`: `Spec => []RingInv`;
* `RingTyped`: `Spec => []TypeOK`;
* `NewestFilesKept`: `Spec => []NewestKept`;
* `RingStaysBounded`: `Spec => []RingBounded`;
* `NamesPrintedOnce`: `Spec => []EveryNamePrintedOnce`;
* `FailedStartCleansUp`: `Spec => []StartFailureLeavesNoFile`.

`NewestKept` is not inductive: it says that a file is *somewhere* on disk, but
what a switch destroys depends on where. `RingInv` adds that a slot holds the one
generation among the newest `num_files` whose index it is (`SlotsCurrent`), that
a newest file is stored under the number of its generation (`NewestNumbered`), and
that a file on disk is the one its slot names unless its removal failed
(`OnDiskNamed`). With these, the file a switch unlinks has left the newest
`num_files`, and the path it creates carries a number that no newest file has,
because two generations less than `MaxNumFiles` apart have different numbers
(`FileNumInjective`, from `ModInjective`). The lemma `Rotate` is this argument,
once for all the ways a switch can end. `NamesSoFar` says that while a capture runs
exactly the names of the files before the current one are printed, whose own is
printed when it is left or closed; `OnlyFirstFile` that until the first header is
written the first file is all there is and a slot names it, so that the error
cleanup finds it. The assumptions are those on the constants: natural numbers, a
maximum of at least 1.

### CaptureLoopProofs

For every set of devices and pipes in pcap format, all options, faults and interleavings:

* `JoinIsFinal`: `Spec => []StopIsFinal`;
* `StopStopsWriting`: `Spec => NothingAfterStop`;
* `QueueStaysBounded`: `Spec => []QueueBounded`;
* `FilesStayAsAsked`: `Spec => []FilesAsAsked`;
* `ParentKnowsCounts`: `Spec => []ParentCounts`;
* `OutputErrorsAreReported`: `Spec => []OutputErrorReported`.

`StopIsFinal` speaks of the end of the capture only; its strengthening `LoopInv`
says why it comes out right: a reader has a packet in its hands only inside a
callback (`ReadersIdle`), past the loop and while draining `go` is cleared
(`Stopping`), from the join on every reader has ended, and without threads there
never was one (`Joined`), and the drain goes from the queue to `flushed` only, so
that it can neither write nor switch files (`Draining`). The proof has
`ReaderKeeps` for a reader, which cannot run once it is joined, and `WriterKeeps`
for the main thread.

`QueueBounded` compares `pcap_queue_bytes` with the sum of the sizes in the queue, a
fold, so its proof rests on what the fold gives for a queue that gets or loses an
element. `FileInv` says that the counters are those of the current file, that
there is room in it whenever a packet may be written (`Room`: `go` is set and no
switch is due, or the packet is already past the test) and that it is full when it
is switched from, unless a timer did it. `ParentInv` accounts for the packets of
the file that was announced last: those reported and those still to be reported
are the ones in it; a file the parent does not know of is empty and there is one
only after an error. `ErrorInv` says that no switch can follow an output error
and wipe it out, *in a capture whose files are not switched by a timer*; with such a
timer it can, which is what `capture_write_error` shows.

The module also has the proof that the loop implements `PacketLedger`:

* `DropsStayAccounted`: `Spec => []DropsAccounted`;
* `LoopImplementsLedger`: `Spec => ImplementsLedger`.

`OrderInv` says that a source's packets go from the hands of its reader through the
queue and the hands of the main thread to the files and never overtake each other.
With `CapturedInv` (the counter is the number of packets in the files) each step of
the loop is a step of the ledger or leaves it alone: `Arrive` when a reader takes a
packet, `Write` when the main thread saves it, `Lose` when it is flushed or dropped,
`Close` when the last one after a stop is out.
The lemmas about `FlattenSeq` say what one more packet and one more file do to the
concatenation of all files.

`DropsAccounted` is about two counters without a lock that two threads increment by
loading and storing them. Neither can be followed by itself; `Accounts(s, F, D)` says
that there are numbers `F` and `D` of packets *really* flushed and dropped, which with the
packets kept are all that arrived, that no counter and no value a thread has loaded is
ahead of them, and that they are exact until the capture is stopped, because until then
nobody counts in a field that another thread counts in (`CountInv`).

### CaptureSessionProofs

For any number of captures, packets and files, every order of dumpcap's messages, of
the ends of dumpcap and of the extcap, of the timer and of what the user does, and every
combination of settings and faults but two:

* `SessionInvariant`: `Spec => []SessionInv`;
* `SessionAssertions`: `Spec => [](CoveredSettings => AssertionsHold)`;
* `SessionShowsCapture`: `Spec => [](CoveredSettings => WholeCaptureShown)`;
* `SessionReads`: `Spec => [](CoveredSettings => ReadsWhatWasReported)`;
* `SessionKeepsUserFiles`: `Spec => [](CoveredSettings => UserFilesKept)`;
* `SessionLeavesNothing`: `Spec => [](CoveredSettings => NothingLeftRunning)`.

`CoveredSettings` leaves out real time mode that is switched *on* during a capture
(`ui/capture.c:548`) and an extcap that was started for a dumpcap that then could not be
(`capture/capture_sync.c:983`): with either, assertions of the code do fail, see the
observations. The settings of the runs are all covered. Of a source that is passed through
the first two theorems say less, as the properties do: no assertion fails until a dumpcap that
announced no file at all has ended (`Unannounced`; from then on `Lost` is all that is
claimed, since the assertion of `capture_input_drops` has ended the process), and what is
shown is the last file or, while the name of that one is still delayed, the whole of an
earlier file of the capture.

None of the five is inductive, because what the session does next depends on messages
that are still in the pipe. `Good` has one part for each relation that the callbacks rely
on: the file that is open is the newest, and is marked as temporary only if it is
(`FilesInv`); what is open and how far it may be read in each state of the session
(`ReadInv`); what the window remembers across its dialogs (`WindowInv`); the extcap and
its timer, which runs only while there is an extcap, so that it cannot close a session
twice (`ExtcapInv`, `TimerInv`); dumpcap is watched, or gone with its pipe empty, or was
told to stop (`ChildInv`); which files dumpcap has announced, all of them or, when they are
passed through, only after a section header (`PassInv`). `PipeInv` bridges the pipe: there is a sequence of views of the
capture (`Replay`), one before and one after each message, which starts with what the
session knows and in which each message is one that dumpcap may send (`Legal`), and the last
view is all there is to know of dumpcap but what it has not reported (`Final`). So when the
pipe is empty and dumpcap has exited, the session knows the last file that was announced
(`Latest`), every packet and the drops, which is `WholeCaptureShown`.

A callback maps the state of the process to another one through several functions of the
code; `SameCore`, `FileClosed`, `RestRead` and the like say what a function may change, and
the lemmas follow the calls. `BecomesGood` is the end of each: the signal the callback sent
has arrived.

The proof needed the order in which the code tests conditions that can hold together
(`ReadRest`: a session that is being prepared and a file that is pending; `BlockError` of
`CapturePipe`): the arms of a `CASE` leave that open, so both are chains of `IF` now.

### CapturePipeProofs

For every contents of the pipe (any sequence of records, of which the last may be
malformed), every first size of the buffer, every set of sizes it may be grown to and
every way the reads are cut:

* `PipeTyped`: `Spec => []TypeOK`;
* `ReadsFit`: `Spec => []BuffersNotOverrun`;
* `RecordsArriveWhole`: `Spec => []RecordsWhole`;
* `CleanEndsLoseNothing`: `Spec => []CleanEndLosesNothing`.

A read fits because of what was done several steps earlier, so `BuffersNotOverrun`
is not inductive. `PipeInv` adds that in the read loop no more is asked for than the
buffer has (`RoomToRead`), that as soon as data is expected the buffer has room for
the length in the header (`RoomForData`), and that a header is replaced only while no
data is expected (`StateMatchesPc`). `HeaderType` says that whatever bytes are taken
for a header, its lengths are among those of the pipe's records or `Misread`;
`RoundUpFits` and `EnsureFits` that the buffer is then large enough; `ChunkFits` and
`FilledFits` that a read writes inside it.

For the framing, `CutInv` says for each state dumpcap can be in where in the pipe it is,
counted from the start of the record after those delivered, and which bytes its buffers
hold: while opening (`OpenPos`), inside the read loop of pcapng (`ReadLoopPos`), and
between two calls of a dispatcher (`LoopPos`). A header in the buffer is that of the
current record, because records do not overlap (`RecordsOrdered`, `RecordFound`); the
byte order is that of the section last read (`SectionKnown`); so the length taken from
it is the record's own and the next read begins where the next record does.

The assumptions are `PipesAssumption` (records follow each other from the file header
to the end of the pipe, and all but the last are ones that dumpcap takes; a file that
ends inside a record is a writer that stops early) and `SizesAssumption`: the first
size holds a section header, and some size holds each length, which in the code is the
memory that `g_realloc` gives or aborts without.

### PcapngOutputProofs

For every combination of devices and pcapng sources, with and without threads, any
number of sections, interfaces and packets, and file switches at any time:

* `FilesReportedReadable`: `Spec => []ReportedFileReadable`;
* `PacketsAreDescribed`: `Spec => []EveryPacketDescribed`, which excepts only packets whose
  own source had not described their interface.

`ReportInv` says that until the first section header of a source that is passed through
is written it is the next block to be written (`ShbFirst`), and that the file the parent
is still to be told of is the last one (`OutInv`). The first header meets an empty
queue, so a limit on the queue cannot drop it, and the first theorem holds with one
as well.

`DescribedInv` has to bridge the queue: dumpcap's map is that of the blocks *written*, a
packet waits in the queue with the number its source gave it, and in between the source
may have started other sections. `Replay(st)` says that there is a sequence `st` of positions
(section and number of interfaces of each source), one before and one after each
block of the queue, that starts with the one dumpcap's map is right for (`Mapped`), in which
each block is one its source may send at that position (`Legal`), and that ends where the
sources are now. So a block that is appended extends the replay, and the block written
next meets the map it was meant for. A packet that was `known` when its source sent it is
still so when it is written, and one that was not finds no entry in the map, whatever the
other sources have described in the meantime, so it is never taken down to the interface of
another. `FileMatches` says that the last file describes each
saved interface under its number in the last section, and a file switch rebuilds it.

### ReassemblyProofs

For every way a dissector may call the functions (`Calls`), fragments of any length in any
number and order, short frames among them, and every bound on a PDU:

* `ReasInvHolds`: `Spec => []ReasInv`;
* `GapsStayExact`: `Spec => []GapCacheExact`;
* `CompletedAtOnce`: `Spec => []CompletesAtOnce`;
* `FramesLeadToPdus`: `Spec => []SecondPassFinds`.

The cache is right because of three arguments, which are the sections of the module on
lists. `update_first_gap` walks to the first gap behind the place it starts from
(`AdvanceStops`, `AdvanceExact`: `Reach` says how far the fragments up to a place go).
The walk may start at `first_gap` although the new fragment was linked before it, because
nothing before the gap ends behind it (`EndsBeforeGap`, `BeforeGap`). And
`LINK_FRAG` may look for the place of a fragment behind `first_gap` only
(`LinkedInOrder`), because the list was sorted. Both of the last two need the list to be
sorted and each fragment to be in it once, so `GoodList` says this together with
`Exact`, which is `CacheExact` place by place. A cut keeps the cache only in the three cases in
which `fragment_items_removed` says so; otherwise it is computed anew (`TruncatedExact`,
`ResetExact`). The loops that put a PDU together change marks and data and nothing else
(`SameItems`, turn by turn).

A PDU by offset is incomplete when `contiguous_len` is short of its length, so some byte is
missing by the exactness of the cache (`GapUncovered`). By block number the code counts
the blocks it meets in order; the count ends at a number that no block has, because the list
is sorted (`CountMissing`). `CompletesAtOnce` is about the calls with a fragment of a frame
that was captured whole, whatever short ones came before; a call with a short one gives
up, and may do so with nothing missing, see the observations. That the list and its
cache stay right when a block is given up half-way is part of `ReasInv`.

`FramesLeadToPdus` needs that no frame is in two PDUs and that a PDU that was moved is
`Closed`, complete and not to be extended, so that a late fragment goes into the PDU it
is looked up for and never makes that PDU incomplete again. That holds because functions which
move a complete PDU are not used together with `fragment_set_partial_reassembly`
(`CallsAssumption`, which says how the functions may be combined).

### ConversationProofs

For every set of packets, of conversations that dissectors set up and of options they
search with:

* `TemplatesRemain`: `Spec => TemplatesStay`;
* `ChainsStayOrdered`, `ConversationsStayReachable`, `LookupsStayExact`: if
  `~SharedWildcards`, `Spec => []ChainsOrdered`, `[]Reachable` and `[]LookupExact`;
* `SecondPassIsSame`: `Spec => []SecondPassSame`;
* `VisitsStayEqual`: if `~SharedWildcards`, `Spec => []VisitsAgree`.

One step of a search is many changes: chains are relinked, a conversation moves from one
table to another, lookups leave their cached hit behind. `KeepsKeys` is the relation of
the changes that touch pointers and tables only (insertion, removal, lookup),
`KeepsTemplates` the one of those that leave the templates alone; both are transitive, so
the lemmas follow the calls of the code, from `conversation_insert_into_hashtable` up to
`find_or_create_conversation`. A wildcard is filled in either in place, which is done
only to a conversation that is no template, or in a new conversation. The inductive
invariant of `TemplatesRemain` is the shape of the tables (`IsState`).

The other theorems rest on `InOrder(st, {})`. Every entry of a table leads to a chain
(`IsChain`: the next pointers go through it and end, and no conversation comes twice) of
conversations of the entry's key and kind, sorted by setup frame; the head knows the last
one; what it remembers as found is in the chain; the entry points to the key of one of
them; no two entries of a table have one hash; a wildcard option is one of the key, too
(`WildcardsFit`); and every conversation is in
its chain (`InTable`). The second argument of `InOrder` is the set of conversations that
are out of the tables at the moment: `Moved` takes one out, changes its key and puts it
into another table, and the lemmas `RemoveInOrder`, `MovedKey` and `MovedInOrder` say
that the tables are in order with `{c}` in between and with `{}` at the end. `From`
follows the pointers, and `ChainIsFrom` says that what it follows *is* the chain, by
induction over the length of the chain (`InductionLemmas`). Taking the head out keeps the
entry's pointer to the old key, which the move then changes: that leaves the tables in
order only when the chain was that conversation alone, which is the assumption
`~SharedWildcards` (with it `Allowed` lets a key change only if no other conversation has
it). `conversation_shared` shows that the assumption is needed. `TablesInv` is `InOrder`
until a shared wildcard is used.

`SecondPassIsSame` needs no such assumption, since it speaks of the time before the first
wildcard is used. Its invariant `PassInv` says that every frame so far is `Settled`: the
conversation it was given is one of those that the search for the frame considers
(`Candidates`, of the exact lookups and of each wildcard lookup in their order), the
lookups before that one have candidates of this very frame only, and in
that lookup no candidate is younger, unless this frame set it up. A conversation that is added later belongs
to the same or a later frame and so disturbs no earlier one (`SettledAdded`), a lookup
disturbs none (`SettledKept`), and a search of a settled frame finds what
`SecondPassSame` says (`SettledFinds`).

`VisitsStayEqual` compares two searches after each other, of which the first may have
changed the tables. What a lookup leaves in `latest_found` does not change what the next
ones for the same frame give (`Repeats`, `LookupRepeats`): the walk then starts at the
conversation that was found, and finds it (`SamePlace`). So a first visit that used
nothing is repeated step by step (`NotUsedAgain`), the wildcard lookup that had the first
match included (`HitKept`). Otherwise the exact lookup had found nothing, and the visit
completed a wildcard, used a template or made a conversation; each of these gives *one*
conversation of the ends of the packet (`OnlyCompleted`, `OnlyNew`), so the exact lookup
of the second visit finds that one (`FoundAgain`). That the ends are those of the packet
(`TemplateCompleted`, `WildcardCompleted`) needs packets that have both ends
(`PacketsAssumption`), and options from which no wildcard is left over once those that can be
replaced are: `OptionsInv` says that the options stay as `OptionsAssumption` has them, and
is inductive together with `TablesInv`.

### Only model-checked

Liveness (`StopEnds`, `EofEnds`, `ClosedPipeEnds`, `StopNoticed`, `StopEndsSession`)
is out of the prover's reach. `CountsReachParent` of `PcapngOutput`, which adds up the packets
of all files, and `DataInPlace` and `ConflictsMarked` of `Reassembly`, which
are about what the loops copy and compare byte by byte, are checked on the instances
above.

## Observations

What the models show besides the findings. The passing properties are stated so
that they say what does hold; the exceptions below are why they say no more.

dumpcap and the ring:

* `dumpcap.c:4115` says that "!ringbuf_is_initialized() is equivalent to
  capture_opts->save_file not being part of ringbuffer"; after a first header that
  cannot be written, the error label (`dumpcap.c:4826`) frees the ring and leaves
  `save_file` pointing to a name in it, which `do_cleanup` (line 1321) then has freed
  again; with one slot, a switch that fails in opening
  the next file has likewise freed the name that `save_file` points to, and the name
  printed for `printname:` is that of the file that was not created;
* a stream that dumpcap has closed after a failed header is closed again by the ring
  (`ringbuffer.c:357`, `dumpcap.c:4172`, `dumpcap.c:3708`), and after a failed switch the
  same iteration may flush the closed stream (`dumpcap.c:4564`; `FlushAfterFailedSwitch`,
  `UpdateOnClosedStream`). The history variable `misuse` records all of
  these;
* `name_h` is not cleared when it is closed, so a first file that cannot be created
  closes it twice (`ringbuffer.c:437`).

The capture loop:

* `flushed++` by a reader and by the main thread at once can lose an update, so
  the number in `SP_DROPS` can be too small after a stop; `DropsAccounted` states
  what still holds: never too large, and exact while the capture is running;
* packets that pipes deliver between the idle time-out of the main thread and its
  check that all pipes have ended are queued and then discarded (`dumpcap.c:4507`);
* the result of `ws_cwstream_flush` is not looked at, so a failing flush is noticed
  with a later write or with the close.

pcapng output:

* a full queue drops a description like a packet, and the next packet of that
  interface reaches `ws_assert_not_reached()` (`dumpcap.c:5201`, `dumpcap.c:4990`);
  `EveryPacketDescribed` is about captures without a limit on the queue;
* beside another source a packet of an interface that its source has not described, or not
  yet in its new section, ends dumpcap (`dumpcap.c:2693`, `dumpcap.c:4990`); the format
  forbids such a packet, but the dispatcher does not look. One source alone is passed
  through with it. `EveryPacketDescribed` has both exceptions;
* `capture/sync_pipe.h:48` calls `SP_FILE` "the name of the recently opened file"; with
  a source that is passed through it waits for a section header from the source
  (`dumpcap.c:6439`), but that of the second and later files is written from
  `saved_shb`, so their `SP_FILE` is not sent unless the source starts another section. The parent
  then counts their packets to the file it knows (`CountsReachParent` makes no claim
  about the file for such a source) and shows that file (`WholeCaptureShown`);
* the length of the saved section header is read in the byte order of the section
  that the source is in now, which changes before the new header is saved
  (`dumpcap.c:3537`): a file switch in between writes a wrong length;
* a pipe that ends, or a capture that is stopped, before a section header was passed
  through makes dumpcap send `SP_DROPS` without `SP_FILE` (`dumpcap.c:4811`), against the
  assertion at `ui/capture.c:608`: the run `session_drops`.

The session:

* `capture_in_progress` is computed before the dialog about unsaved packets
  (`wireshark_main_window.cpp:1891`) and is still true after `captureStop(false)` has
  stopped the capture to save it, or after the capture has ended while the dialog was
  open; `captureStop(true)` (line 2075) then marks the finished file as aborted and
  waits for a state that no callback sets any more (`gui.pc = "close"` with the file
  `ABORTED`);
* real time mode that is switched on between `SP_FILE` and the first packet count
  makes `cf_continue_tail` read from a file that was not opened (`ui/capture.c:548`);
  the settings of the runs only switch it off;
* when dumpcap cannot be started after the extcap was, `sync_pipe_start` returns with the
  extcap running (`capture/capture_sync.c:983`); the end of the extcap then closes the session
  that `capture_start` has already stopped, against the assertion of `capture_input_closed`
  (`ui/capture.c:752`).

Reassembly:

* a block of a short frame is given up half-way (`reassemble.c:2189`): a complete PDU has
  been opened again for it and its length may have been set. It stays incomplete, with
  nothing missing, until the next block comes, although `reassemble.c:2030` says
  "Returns true if we have all the fragments, false otherwise";
* some dissectors use `fragment_delete` together with the "check" functions, which
  `CallsAssumption` leaves out: it takes away an incomplete PDU only, and none of the
  properties speaks of what was in one;
* a fragment past the end of a PDU is marked as used and its data freed although it
  was not copied; when the PDU is then extended over it, bytes stay uninitialized or
  are misplaced (`reassemble.c:1522`). `lost` marks such a PDU, and `DataInPlace`
  and `ConflictsMarked` except it;
* a second copy of the last block is marked as too long and not as an overlap
  (`reassemble.c:1977`); a block behind a gap after the last one goes into the PDU
  without a mark (`reassemble.c:2229`); `fragment_set_tot_len` on a complete PDU by
  offset accepts only the length 0 (`reassemble.c:846`), which no dissector gives.

Conversations:

* `conversation.h:412` allows `NO_ADDR2` with `NO_PORT2_FORCE` and `conversation.c:1101` makes
  such a conversation, but `conversation_set_addr2` (1554) would look for it in a table that
  it is not in and go through a null pointer (905). No dissector asks for it, and
  `OptionsAssumption` leaves it out;
* of two conversations with one key and setup frame the younger is found while they
  are the last of the chain and the older afterwards (`conversation.c:1599`), which is
  why `SecondPassSame` compares setup frames;
* a wildcard that the packet matches in the forward direction is not replaced
  (`conversation.c:1962`, issue 8010); two wildcards that match are told apart by their
  `conv_index` (1901); a conversation made from a template shares its `dissector_tree`
  (429).

## Not modelled

* Output to a pipe or standard output and captures without a file, which differ
  only in extra flushes and in a close that is left out; the SIGINFO counter; the
  Windows signal pipe, whose effect is that of the signal; process information
  blocks; `pcap_stats`; interface statistics blocks, which are written at the end of a
  capture to a single file.
* A failing `ws_cwstream_flush`, whose result the code ignores.
* `curr_file_num` wrapping at 2^32.
* Opening of inputs, capture filters, privileges, options: their result is the
  constant `Configs`.
* In `CaptureLoop` the non-packet blocks of pcapng sources, which
  `PcapngOutput` has; in `PcapngOutput` the stop conditions, which `CaptureLoop`
  has; in both the bytes of a record, which `CapturePipe` has.
* In `CaptureSession` the synchronous calls for lists of interfaces, the encoding of
  messages, TShark's own session, and the Windows variants of processes and pipes.
* In `Reassembly` `fragment_add_seq_single` and its aging, the merge of two ranges,
  `fragment_add_seq_offset`, the 802.11 exception, streaming reassembly, the checks
  against 32-bit overflow, a frame that is added twice, `fragment_delete` beside the "check"
  functions.
* In `Conversation` the updates of `last_frame` (`conversation.c:3042`, 3060), which no search
  reads, direct calls of `conversation_set_port2` (`packet-tftp.c:947`),
  keys of other elements and ids, deinterlacing, Fibre Channel and
  Infiniband, collisions of hashes, the dissectors of conversations.
* Dissectors, display filters, memory allocators, the file formats of wiretap, name
  resolution, sharkd, Lua, the rest of the user interface: see "components" in
  `PROJECT.json` for each reason. Most of the repository's lines are protocol
  decoders, which are conversions of data with little state of their own.

## Plan

1. (done) `RingBuffer`, `CaptureLoop` with `PacketLedger`, `PcapngOutput`,
   `CapturePipe`, `CaptureSession`, `Reassembly`, `Conversation`; proofs of every
   safety property of dumpcap's four modules and of `CaptureSession`, of the refinement,
   of the gap cache and the tables of `Reassembly`, and of every safety property of
   `Conversation`.
2. Proofs: the data of a PDU in `Reassembly`.
3. `Merge` (`wiretap/merge.c`: time order and interface maps), `CaptureFile`
   (re-entrant rescans in `file.c`), `fileset.c` against the names of `RingBuffer`.
4. The composition of `CaptureLoop` with `CaptureSession`, in which the child's
   actions are those of the loop.
