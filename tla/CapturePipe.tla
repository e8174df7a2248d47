----------------------------- MODULE CapturePipe -----------------------------
(***************************************************************************)
(* How dumpcap reads a capture file from a pipe or a socket: cap_pipe_open  *)
(* and the headers it reads, then the state machines pcap_pipe_dispatch and *)
(* pcapng_pipe_dispatch, which cut the stream of bytes into records.  A     *)
(* read() may return any part of what was asked for, the program that       *)
(* writes may stop anywhere, and a signal may stop the capture (UN*X).      *)
(*                                                                          *)
(* A byte is its position in the stream, so that a buffer shows which bytes *)
(* it holds.  A record is where it starts and what its header says:         *)
(*   pcap    incl_len and orig_len as they stand in the file;               *)
(*   pcapng  the type and block_total_length, and the section's byte order. *)
(***************************************************************************)
EXTENDS Integers, Sequences

CONSTANTS
    Pipes,          \* what is written to the pipe, see PipeType
    InitialBufSize, \* 2048: the size of cap_pipe_databuf at first
    BufSizes,       \* the powers of two that it is grown to
    MaxPktSize,     \* cap_pipe_max_pkt_size
    Misread         \* what a length is, read in the wrong byte order

MagicSize    == 4    \* sizeof magic
PcapHdrSize  == 20   \* sizeof(struct pcap_hdr), the magic number excluded
BlockHdrSize == 8    \* sizeof(pcapng_block_header_t)
ShbSize      == 16   \* sizeof(pcapng_section_header_block_t)
TrailerSize  == 4    \* the length again, after the block

Magics == {"pcap", "modified", "swapped", "swapped_modified", "shb", "unknown"}
BlockTypes == {"SHB", "data", "other"}

\* A pipe: its first four bytes, the version of a pcap file, its records and
\* the bytes up to their end, and whether dumpcap has no other source.
RecordType ==
    [start : Nat, size : Nat, type : BlockTypes, incl_len : Nat, orig_len : Nat,
     swapped : BOOLEAN, magic_ok : BOOLEAN]
PipeType ==
    [magic : Magics, major : Nat, minor : Nat, records : Seq(RecordType), total : Nat,
     passthrough : BOOLEAN]

IsPcapng(p) == p.magic = "shb"

\* sizeof(struct pcaprec_modified_hdr) or sizeof(struct pcaprec_hdr)
RecHdrSize(p) ==
    IF IsPcapng(p) THEN BlockHdrSize
    ELSE IF p.magic \in {"modified", "swapped_modified"} THEN 24 ELSE 16

\* The length a writer of this pipe means.
TrueLen(p, r) ==
    IF ~IsPcapng(p) /\ p.major = 2 /\ (p.minor < 3 \/ (p.minor = 3 /\ r.incl_len > r.orig_len))
      THEN r.orig_len ELSE r.incl_len

\* What dumpcap takes for a record.
WellFormed(p, r) ==
    IF ~IsPcapng(p) THEN TrueLen(p, r) <= MaxPktSize
    ELSE /\ r.incl_len % 4 = 0
         /\ r.type = "data" => r.incl_len <= MaxPktSize
         /\ r.incl_len >= BlockHdrSize + TrailerSize + (IF r.type = "SHB" THEN ShbSize ELSE 0)
         /\ r.type = "SHB" => r.magic_ok /\ (r.swapped => p.passthrough)

\* Where record i begins: after the file header, or after the record before it.
RecordStart(p, i) ==
    IF i = 1 THEN (IF IsPcapng(p) THEN 0 ELSE MagicSize + PcapHdrSize)
    ELSE p.records[i-1].start + p.records[i-1].size

\* The records follow each other to the end; only the last may be malformed.
Consecutive(p) ==
    /\ p.total = RecordStart(p, Len(p.records) + 1)
    /\ \A i \in 1 .. Len(p.records) :
          LET r == p.records[i]
          IN  /\ r.start = RecordStart(p, i)
              /\ r.size >= RecHdrSize(p) + (IF r.type = "SHB" THEN ShbSize ELSE 0)
              /\ i < Len(p.records) => WellFormed(p, r)
              /\ WellFormed(p, r) =>
                    r.size = TrueLen(p, r) + (IF IsPcapng(p) THEN 0 ELSE RecHdrSize(p))

\* A pcapng file begins with a section header, and its blocks are in the byte
\* order of their section; so is a pcap file in that of its magic number.
ByteOrder(p) ==
    IF IsPcapng(p)
      THEN \A i \in 1 .. Len(p.records) :
              /\ i = 1 => p.records[i].type = "SHB"
              /\ i > 1 /\ p.records[i].type # "SHB" =>
                    p.records[i].swapped = p.records[i-1].swapped
      ELSE \A i \in 1 .. Len(p.records) :
              /\ p.records[i].type = "data"
              /\ p.records[i].swapped = (p.magic \in {"swapped", "swapped_modified"})

\* Is there a least size that has room for n bytes?
HasBufSize(n) == \E s \in BufSizes : s >= n /\ \A t \in BufSizes : t >= n => s <= t

ASSUME PipesAssumption ==
    \A p \in Pipes : p \in PipeType /\ Consecutive(p) /\ ByteOrder(p)
ASSUME SizesAssumption ==
    /\ InitialBufSize \in Nat /\ InitialBufSize >= BlockHdrSize + ShbSize
    /\ BufSizes \subseteq Nat /\ MaxPktSize \in Nat /\ Misread \in Nat
    /\ Misread % 4 = 0 /\ Misread > MaxPktSize
    /\ HasBufSize(Misread)
    /\ \A p \in Pipes : \A i \in 1 .. Len(p.records) :
          HasBufSize(p.records[i].incl_len) /\ HasBufSize(p.records[i].orig_len)

VARIABLES
    pipe,                   \* what a program writes to the pipe
    writer,                 \* that program: writing, closed (the pipe) or stalled
    pos,                    \* how many bytes were read
    pc,                     \* where dumpcap is in the code, see TypeOK
    got,                    \* bytes_read of cap_pipe_read_data_bytes and of cap_pipe_open
    cap_pipe_state,
    cap_pipe_err,
    cap_pipe_bytes_to_read,
    cap_pipe_bytes_read,
    cap_pipe_databuf_size,
    cap_pipe_databuf,       \* the bytes it holds
    rechdr,                 \* the bytes in cap_pipe_info.pcap.rechdr
    bh,                     \* the header read last: type, incl_len, swapped
    byte_swapped,           \* of the pipe, or of the section
    go,                     \* global_ld.go
    delivered               \* the records given to the capture loop

srcVars == <<cap_pipe_state, cap_pipe_err, cap_pipe_bytes_to_read, cap_pipe_bytes_read,
             cap_pipe_databuf_size, cap_pipe_databuf, rechdr, bh, byte_swapped>>
vars == <<pipe, writer, pos, pc, got, srcVars, go, delivered>>

NoByte == -1                  \* what was in a buffer before

\* cap_pipe_open is called for a pipe with these records.
Init ==
    /\ pipe \in Pipes
    /\ writer = "writing"
    /\ pos = 0 /\ pc = "magic" /\ got = 0
    /\ cap_pipe_state = "STATE_EXPECT_REC_HDR"
    /\ cap_pipe_err = "PIPOK"
    /\ cap_pipe_bytes_to_read = 0 /\ cap_pipe_bytes_read = 0
    /\ cap_pipe_databuf_size = InitialBufSize
    /\ cap_pipe_databuf = [j \in 0 .. InitialBufSize - 1 |-> NoByte]
    /\ rechdr = [j \in 0 .. 23 |-> NoByte]
    /\ bh = [type |-> "other", incl_len |-> 0, orig_len |-> 0]   \* g_new0
    /\ byte_swapped = FALSE
    /\ go = TRUE
    /\ delivered = << >>

-----------------------------------------------------------------------------
(***************************************************************************)
(* Reading bytes, and what a header made of them says.                      *)
(***************************************************************************)

\* cap_pipe_read: how many bytes read() may return.
Chunk(want) == {b \in 1 .. want : writer = "writing" /\ pos + b <= pipe.total}

\* What was written before the pipe was closed has been read.
AtEof == writer = "closed"

\* A buffer after b bytes were read to an offset, whatever its size is.
Filled(buf, off, b) ==
    [j \in DOMAIN buf \cup off .. off + b - 1 |->
        IF j \in off .. off + b - 1 THEN pos + (j - off) ELSE buf[j]]

\* Is this the beginning of the record r?
Begins(buf, n, r) == \A j \in 0 .. n - 1 : j \in DOMAIN buf /\ buf[j] = r.start + j

\* What other bytes, or those of another byte order, are taken for.
Garbled == [start |-> 0, size |-> 0, type |-> "other", incl_len |-> Misread,
            orig_len |-> Misread, swapped |-> FALSE, magic_ok |-> FALSE]

\* The record whose first n bytes are in a buffer.
RecordIn(buf, n) ==
    IF \E i \in 1 .. Len(pipe.records) : Begins(buf, n, pipe.records[i])
      THEN pipe.records[CHOOSE i \in 1 .. Len(pipe.records) : Begins(buf, n, pipe.records[i])]
      ELSE Garbled

HeaderOf(r) == [type |-> r.type, incl_len |-> r.incl_len, orig_len |-> r.orig_len]

\* The header in the first n bytes of a buffer.  The type of an SHB is the same
\* in both byte orders.
HeaderIn(buf, n) ==
    LET r == RecordIn(buf, n)
    IN  HeaderOf(IF r.type = "SHB" \/ r.swapped = byte_swapped THEN r ELSE Garbled)

\* Mutant of cap_pipe_adjust_pcap_header: those of version 2.3 all have.
AdjustAllOf23(h) ==
    IF pipe.major = 2 /\ pipe.minor <= 3
      THEN [h EXCEPT !.incl_len = h.orig_len, !.orig_len = h.incl_len] ELSE h

cap_pipe_adjust_pcap_header(h) ==
    IF pipe.major = 2 /\ (pipe.minor < 3 \/ (pipe.minor = 3 /\ h.incl_len > h.orig_len))
      THEN [h EXCEPT !.incl_len = h.orig_len, !.orig_len = h.incl_len] ELSE h

RoundUp(n) == CHOOSE s \in BufSizes : s >= n /\ \A t \in BufSizes : t >= n => s <= t

cap_pipe_ensure_databuf_size(n) ==
    IF n > cap_pipe_databuf_size
      THEN /\ cap_pipe_databuf_size' = RoundUp(n)
           /\ cap_pipe_databuf' = [j \in 0 .. RoundUp(n) - 1 |->
                 IF j \in DOMAIN cap_pipe_databuf THEN cap_pipe_databuf[j] ELSE NoByte]
      ELSE UNCHANGED <<cap_pipe_databuf_size, cap_pipe_databuf>>

-----------------------------------------------------------------------------
(***************************************************************************)
(* Opening: cap_pipe_open, pcap_pipe_finish_reading_header and              *)
(* pcapng_pipe_finish_reading_shb.                                          *)
(***************************************************************************)

\* The first four bytes tell the format.
Identify ==
    IF pipe.magic = "unknown"
      THEN /\ pc' = "failed" /\ cap_pipe_err' = "PIPERR"
           /\ UNCHANGED <<byte_swapped, cap_pipe_databuf, cap_pipe_bytes_read,
                          cap_pipe_bytes_to_read>>
    ELSE IF IsPcapng(pipe)
      THEN /\ pc' = "open_block_hdr"
           /\ cap_pipe_databuf' = [j \in DOMAIN cap_pipe_databuf |->
                 IF j < MagicSize THEN j ELSE cap_pipe_databuf[j]]
           /\ cap_pipe_bytes_read' = MagicSize
           /\ cap_pipe_bytes_to_read' = BlockHdrSize
           /\ UNCHANGED <<byte_swapped, cap_pipe_err>>
    ELSE /\ pc' = "open_pcap_hdr"
         /\ byte_swapped' = (pipe.magic \in {"swapped", "swapped_modified"})
         /\ UNCHANGED <<cap_pipe_err, cap_pipe_databuf, cap_pipe_bytes_read,
                        cap_pipe_bytes_to_read>>

ReadMagic ==
    /\ pc = "magic"
    /\ \E b \in Chunk(MagicSize - got) :
          /\ pos' = pos + b
          /\ IF got + b < MagicSize
               THEN got' = got + b /\ UNCHANGED <<pc, srcVars>>
               ELSE /\ got' = 0 /\ Identify
                    /\ UNCHANGED <<cap_pipe_state, cap_pipe_databuf_size, rechdr, bh>>
    /\ UNCHANGED <<pipe, writer, go, delivered>>

\* The rest of the header of a pcap file.
ReadPcapHeader ==
    /\ pc = "open_pcap_hdr"
    /\ \E b \in Chunk(PcapHdrSize - got) :
          /\ pos' = pos + b
          /\ IF got + b < PcapHdrSize
               THEN got' = got + b /\ UNCHANGED <<pc, cap_pipe_err>>
               ELSE /\ got' = 0
                    /\ pc' = IF pipe.major < 2 THEN "failed" ELSE "loop"
                    /\ cap_pipe_err' = IF pipe.major < 2 THEN "PIPERR" ELSE cap_pipe_err
    /\ UNCHANGED <<pipe, writer, go, delivered, cap_pipe_state, cap_pipe_bytes_to_read, bh, rechdr,
                   cap_pipe_bytes_read, cap_pipe_databuf_size, cap_pipe_databuf, byte_swapped>>

\* The block length of the first section header was read; its fixed part is next.
OpenShb ==
    /\ pc = "open_block_hdr" /\ cap_pipe_bytes_read = cap_pipe_bytes_to_read
    /\ bh' = HeaderIn(cap_pipe_databuf, BlockHdrSize)
    /\ cap_pipe_bytes_to_read' = BlockHdrSize + ShbSize
    /\ pc' = "open_shb"
    /\ UNCHANGED <<pipe, writer, pos, got, cap_pipe_state, cap_pipe_err, cap_pipe_bytes_read, rechdr,
                   cap_pipe_databuf_size, cap_pipe_databuf, byte_swapped, go, delivered>>

-----------------------------------------------------------------------------
(***************************************************************************)
(* cap_pipe_read_data_bytes: a loop that ends only with all the bytes, or   *)
(* with an error.                                                           *)
(***************************************************************************)

InReadLoop == pc \in {"open_block_hdr", "open_shb", "shb", "block_hdr", "block"}
Opening    == pc \in {"magic", "open_pcap_hdr", "open_block_hdr", "open_shb"}

\* Mutant of BytesWanted: the bytes read in this call are asked for again.
BytesWantedAgain == cap_pipe_bytes_to_read - cap_pipe_bytes_read

BytesWanted == cap_pipe_bytes_to_read - cap_pipe_bytes_read - got

ReadTo == cap_pipe_bytes_read + got

cap_pipe_read_data_bytes ==
    /\ InReadLoop
    /\ \E b \in Chunk(BytesWanted) :
          /\ pos' = pos + b
          /\ cap_pipe_databuf' = Filled(cap_pipe_databuf, ReadTo, b)
          /\ IF got + b < cap_pipe_bytes_to_read - cap_pipe_bytes_read
               THEN got' = got + b /\ UNCHANGED cap_pipe_bytes_read
               ELSE got' = 0 /\ cap_pipe_bytes_read' = cap_pipe_bytes_read + got + b
    /\ UNCHANGED <<pipe, writer, pc, cap_pipe_state, cap_pipe_err, cap_pipe_bytes_to_read, rechdr,
                   cap_pipe_databuf_size, bh, byte_swapped, go, delivered>>

\* What cap_pipe_err becomes; the callers of pcapng_read_shb, and those
\* that open the pipe, make it PIPERR.
ReadLoopError(e) == IF Opening \/ pc = "shb" THEN "PIPERR" ELSE e

\* read() or select() fails, a signal interrupts select(), or the pipe ends.
ReadLoopFails ==
    /\ InReadLoop \/ Opening
    /\ InReadLoop => BytesWanted > 0
    /\ \E e \in {"PIPEOF", "PIPERR"} :
          /\ e = "PIPEOF" => AtEof
          /\ cap_pipe_err' = ReadLoopError(e)
    /\ pc' = IF Opening THEN "failed" ELSE "loop"
    /\ got' = 0
    /\ go' \in {go, FALSE}
    /\ UNCHANGED <<pipe, writer, pos, cap_pipe_state, cap_pipe_bytes_to_read, cap_pipe_bytes_read,
                   cap_pipe_databuf_size, cap_pipe_databuf, rechdr, bh, byte_swapped, delivered>>

-----------------------------------------------------------------------------
(***************************************************************************)
(* pcapng_pipe_dispatch, called by capture_loop_dispatch when select() says *)
(* that there is something to read.                                         *)
(***************************************************************************)

Ready == (writer = "writing" /\ pos < pipe.total) \/ AtEof

\* Mutant of LoopDone: cap_pipe_err is not looked at.
LoopDoneStopped == ~go

\* Mutant of LoopDone: go is not looked at.
LoopDonePipe == cap_pipe_err # "PIPOK"

\* pcap_read_handler and capture_loop_start leave their loops.
LoopDone == ~go \/ cap_pipe_err # "PIPOK"

Dispatching == pc = "loop" /\ ~LoopDone /\ Ready

\* A header is wanted: the buffer is filled from its beginning.
ExpectBlockHeader ==
    /\ Dispatching /\ IsPcapng(pipe) /\ cap_pipe_state = "STATE_EXPECT_REC_HDR"
    /\ cap_pipe_state' = "STATE_READ_REC_HDR"
    /\ cap_pipe_bytes_to_read' = BlockHdrSize
    /\ cap_pipe_bytes_read' = 0
    /\ pc' = "block_hdr"
    /\ UNCHANGED <<pipe, writer, pos, got, cap_pipe_err, cap_pipe_databuf_size, cap_pipe_databuf,
                   rechdr, bh, byte_swapped, go, delivered>>

\* The contents of a block follow what was read of it.
BlockReadFrom == cap_pipe_bytes_read

ExpectBlock ==
    /\ Dispatching /\ IsPcapng(pipe) /\ cap_pipe_state = "STATE_EXPECT_DATA"
    /\ cap_pipe_state' = "STATE_READ_DATA"
    /\ cap_pipe_bytes_to_read' = bh.incl_len
    /\ cap_pipe_bytes_read' = BlockReadFrom
    /\ pc' = "block"
    /\ UNCHANGED <<pipe, writer, pos, got, cap_pipe_err, cap_pipe_databuf_size, cap_pipe_databuf,
                   rechdr, bh, byte_swapped, go, delivered>>

\* What is wrong with the header of a block other than an SHB.
BlockError(h) ==
    IF h.incl_len % 4 # 0 THEN "PIPERR"
    ELSE IF h.type = "data" /\ h.incl_len > MaxPktSize THEN "PIPERR"
    ELSE IF h.incl_len < BlockHdrSize + TrailerSize THEN "PIPEOF"
    ELSE "PIPOK"

\* A block header was read.
BlockHeaderRead ==
    /\ pc = "block_hdr" /\ cap_pipe_bytes_read = cap_pipe_bytes_to_read
    /\ LET h == HeaderIn(cap_pipe_databuf, BlockHdrSize)
       IN  /\ bh' = h
           /\ IF h.type = "SHB"
                THEN /\ pc' = "shb"
                     /\ cap_pipe_bytes_to_read' = BlockHdrSize + ShbSize
                     /\ UNCHANGED <<cap_pipe_state, cap_pipe_err, cap_pipe_databuf_size,
                                    cap_pipe_databuf>>
                ELSE /\ pc' = "loop"
                     /\ cap_pipe_err' = BlockError(h)
                     /\ IF BlockError(h) = "PIPERR"
                          THEN UNCHANGED <<cap_pipe_databuf_size, cap_pipe_databuf>>
                          ELSE cap_pipe_ensure_databuf_size(h.incl_len)
                     /\ cap_pipe_state' = IF BlockError(h) = "PIPOK" THEN "STATE_EXPECT_DATA"
                                          ELSE cap_pipe_state
                     /\ UNCHANGED cap_pipe_bytes_to_read
    /\ UNCHANGED <<pipe, writer, pos, got, cap_pipe_bytes_read, rechdr, byte_swapped, go, delivered>>

\* Is the fixed part of the section header one that dumpcap takes?
ShbAccepted(r) == r.magic_ok /\ (r.swapped => pipe.passthrough) /\ r.incl_len % 4 = 0

\* Mutant of SectionOrder: a section in our byte order does not reset it.
SectionOrderSticks(r) == byte_swapped \/ r.swapped

\* The byte order that the magic number of a section header shows.
SectionOrder(r) == r.swapped

\* pcapng_read_shb has the fixed part: the byte order of the section is known.
pcapng_read_shb ==
    /\ pc \in {"open_shb", "shb"} /\ cap_pipe_bytes_read = cap_pipe_bytes_to_read
    /\ LET n == BlockHdrSize + ShbSize
           r == RecordIn(cap_pipe_databuf, n)
           sane == ShbAccepted(r) /\ r.incl_len >= n + TrailerSize
       IN  /\ IF r.magic_ok /\ (r.swapped => pipe.passthrough)
                THEN byte_swapped' = SectionOrder(r) /\ bh' = HeaderOf(r)
                ELSE UNCHANGED <<byte_swapped, bh>>
           /\ IF ShbAccepted(r) THEN cap_pipe_ensure_databuf_size(r.incl_len)
              ELSE UNCHANGED <<cap_pipe_databuf_size, cap_pipe_databuf>>
           /\ pc' = IF sane \/ pc = "shb" THEN "loop" ELSE "failed"
           /\ cap_pipe_err' = IF sane THEN cap_pipe_err ELSE "PIPERR"
           /\ cap_pipe_state' = IF sane THEN "STATE_EXPECT_DATA" ELSE cap_pipe_state
    /\ UNCHANGED <<pipe, writer, pos, got, cap_pipe_bytes_to_read, cap_pipe_bytes_read, rechdr, go,
                   delivered>>

\* capture_loop_queue_pcapng_cb or capture_loop_write_pcapng_cb gets the block.
BlockRead ==
    /\ pc = "block" /\ cap_pipe_bytes_read = cap_pipe_bytes_to_read
    /\ delivered' = Append(delivered, [j \in 0 .. bh.incl_len - 1 |-> cap_pipe_databuf[j]])
    /\ cap_pipe_state' = "STATE_EXPECT_REC_HDR"
    /\ pc' = "loop"
    /\ UNCHANGED <<pipe, writer, pos, got, cap_pipe_err, cap_pipe_bytes_to_read, cap_pipe_bytes_read,
                   cap_pipe_databuf_size, cap_pipe_databuf, rechdr, bh, byte_swapped, go>>

-----------------------------------------------------------------------------
(***************************************************************************)
(* pcap_pipe_dispatch: one read() for each call.                            *)
(***************************************************************************)

\* Where the next bytes of a record header go.
HeaderReadFrom == IF cap_pipe_state = "STATE_EXPECT_REC_HDR" THEN 0 ELSE cap_pipe_bytes_read

Deliver(len, buf) == delivered' = Append(delivered, [j \in 0 .. len - 1 |-> buf[j]])

\* A record header is complete: its data is next, if there is any.
RecordHeaderRead(h) ==
    /\ bh' = h
    /\ IF h.incl_len > MaxPktSize
         THEN /\ cap_pipe_err' = "PIPERR" /\ cap_pipe_state' = "STATE_READ_REC_HDR"
              /\ UNCHANGED <<cap_pipe_databuf_size, cap_pipe_databuf, delivered>>
         ELSE /\ cap_pipe_ensure_databuf_size(h.incl_len)
              /\ IF h.incl_len > 0
                   THEN cap_pipe_state' = "STATE_EXPECT_DATA" /\ UNCHANGED delivered
                   ELSE cap_pipe_state' = "STATE_EXPECT_REC_HDR" /\ Deliver(0, cap_pipe_databuf)
              /\ UNCHANGED cap_pipe_err

ReadRecordHeader ==
    /\ Dispatching /\ ~IsPcapng(pipe)
    /\ cap_pipe_state \in {"STATE_EXPECT_REC_HDR", "STATE_READ_REC_HDR"}
    /\ cap_pipe_bytes_to_read' = RecHdrSize(pipe)
    /\ \E b \in Chunk(RecHdrSize(pipe) - HeaderReadFrom) :
          /\ pos' = pos + b
          /\ rechdr' = Filled(rechdr, HeaderReadFrom, b)
          /\ cap_pipe_bytes_read' = HeaderReadFrom + b
          /\ IF HeaderReadFrom + b < RecHdrSize(pipe)
               THEN /\ cap_pipe_state' = "STATE_READ_REC_HDR"
                    /\ UNCHANGED <<bh, cap_pipe_err, cap_pipe_databuf_size, cap_pipe_databuf,
                                   delivered>>
               ELSE RecordHeaderRead(
                       cap_pipe_adjust_pcap_header(HeaderIn(rechdr', RecHdrSize(pipe))))
    /\ UNCHANGED <<pipe, writer, pc, got, byte_swapped, go>>

DataReadFrom == IF cap_pipe_state = "STATE_EXPECT_DATA" THEN 0 ELSE cap_pipe_bytes_read

ReadRecordData ==
    /\ Dispatching /\ ~IsPcapng(pipe)
    /\ cap_pipe_state \in {"STATE_EXPECT_DATA", "STATE_READ_DATA"}
    /\ cap_pipe_bytes_to_read' = bh.incl_len
    /\ \E b \in Chunk(bh.incl_len - DataReadFrom) :
          /\ pos' = pos + b
          /\ cap_pipe_databuf' = Filled(cap_pipe_databuf, DataReadFrom, b)
          /\ cap_pipe_bytes_read' = DataReadFrom + b
          /\ IF DataReadFrom + b < bh.incl_len
               THEN cap_pipe_state' = "STATE_READ_DATA" /\ UNCHANGED delivered
               ELSE /\ cap_pipe_state' = "STATE_EXPECT_REC_HDR"
                    /\ Deliver(bh.incl_len, cap_pipe_databuf')
    /\ UNCHANGED <<pipe, writer, pc, got, cap_pipe_err, cap_pipe_databuf_size, rechdr, bh,
                   byte_swapped, go>>

\* The end of the pipe, or an error of read(), in whatever state.
PcapPipeEnds ==
    /\ Dispatching /\ ~IsPcapng(pipe)
    /\ \E e \in {"PIPEOF", "PIPERR"} :
          /\ e = "PIPEOF" => AtEof
          /\ cap_pipe_err' = e
    /\ cap_pipe_state' = CASE cap_pipe_state = "STATE_EXPECT_REC_HDR" -> "STATE_READ_REC_HDR"
                           [] cap_pipe_state = "STATE_EXPECT_DATA" -> "STATE_READ_DATA"
                           [] OTHER -> cap_pipe_state
    /\ cap_pipe_bytes_read' =
          IF cap_pipe_state \in {"STATE_EXPECT_REC_HDR", "STATE_EXPECT_DATA"} THEN 0
          ELSE cap_pipe_bytes_read
    /\ cap_pipe_bytes_to_read' =
          IF cap_pipe_state \in {"STATE_EXPECT_REC_HDR", "STATE_READ_REC_HDR"}
            THEN RecHdrSize(pipe) ELSE bh.incl_len
    /\ UNCHANGED <<pipe, writer, pos, pc, got, cap_pipe_databuf_size, cap_pipe_databuf, rechdr, bh,
                   byte_swapped, go, delivered>>

-----------------------------------------------------------------------------
(***************************************************************************)
(* The loop around the dispatcher, and the signal to stop.                  *)
(***************************************************************************)

\* select() fails before the dispatcher is called, not with EINTR.
SelectFails ==
    /\ pc = "loop" /\ ~LoopDone
    /\ go' = FALSE
    /\ UNCHANGED <<pipe, writer, pos, pc, got, srcVars, delivered>>

LoopEnds ==
    /\ pc = "loop" /\ LoopDone
    /\ pc' = "ended"
    /\ UNCHANGED <<pipe, writer, pos, got, srcVars, go, delivered>>

\* capture_loop_stop, or a limit of the capture is reached.
capture_loop_stop ==
    /\ go /\ pc \notin {"ended", "failed"}
    /\ go' = FALSE
    /\ UNCHANGED <<pipe, writer, pos, pc, got, srcVars, delivered>>

\* The program that writes ends or stops writing, in whatever place.
WriterStops ==
    /\ writer = "writing"
    /\ writer' \in {"closed", "stalled"}
    /\ UNCHANGED <<pipe, pos, pc, got, srcVars, go, delivered>>

\* What dumpcap does by itself; every read() that is not an error.
Progress ==
    \/ ReadMagic \/ ReadPcapHeader \/ OpenShb
    \/ cap_pipe_read_data_bytes
    \/ ExpectBlockHeader \/ ExpectBlock \/ BlockHeaderRead \/ pcapng_read_shb \/ BlockRead
    \/ ReadRecordHeader \/ ReadRecordData
    \/ LoopEnds
    \/ AtEof /\ ReadLoopFails
    \/ AtEof /\ PcapPipeEnds

Next == Progress \/ ReadLoopFails \/ PcapPipeEnds \/ SelectFails \/ capture_loop_stop \/ WriterStops

Spec == Init /\ [][Next]_vars /\ WF_vars(Progress)

-----------------------------------------------------------------------------
(***************************************************************************)
(* Properties                                                               *)
(***************************************************************************)

States == {"STATE_EXPECT_REC_HDR", "STATE_READ_REC_HDR", "STATE_EXPECT_DATA", "STATE_READ_DATA"}

\* Type invariant.  The size of the buffer is the first one or a power of two.
TypeOK ==
    /\ pipe \in Pipes
    /\ writer \in {"writing", "closed", "stalled"}
    /\ pos \in 0 .. pipe.total
    /\ pc \in {"magic", "open_pcap_hdr", "open_block_hdr", "open_shb", "loop", "block_hdr", "shb",
               "block", "ended", "failed"}
    /\ got \in Nat
    /\ cap_pipe_state \in States
    /\ cap_pipe_err \in {"PIPOK", "PIPEOF", "PIPERR"}
    /\ cap_pipe_bytes_to_read \in Nat
    /\ cap_pipe_bytes_read \in Nat
    /\ cap_pipe_databuf_size \in BufSizes \cup {InitialBufSize}
    /\ bh \in [type : BlockTypes, incl_len : Nat, orig_len : Nat]
    /\ byte_swapped \in BOOLEAN
    /\ go \in BOOLEAN

\* No read() writes past the end of cap_pipe_databuf or of the record header:
\* the buffer is grown before a longer record is read, also one of a block that
\* is not a packet, and after any number of partial reads.
BuffersNotOverrun ==
    /\ DOMAIN cap_pipe_databuf = 0 .. cap_pipe_databuf_size - 1
    /\ DOMAIN rechdr = 0 .. 23

\* What a record of the pipe is, given to the capture loop whole.
Whole(p, r) ==
    IF IsPcapng(p) THEN [j \in 0 .. r.size - 1 |-> r.start + j]
    ELSE [j \in 0 .. TrueLen(p, r) - 1 |-> r.start + RecHdrSize(p) + j]

\* The records that were read to their end and that dumpcap takes.
Complete == {i \in 1 .. Len(pipe.records) :
                /\ pipe.records[i].start + pipe.records[i].size <= pos
                /\ WellFormed(pipe, pipe.records[i])}

\* The capture loop gets the records of the pipe in order, each once, and each
\* with exactly its own bytes, however the pipe cuts them into pieces: whether
\* the header's fields are byte swapped or interchanged, sections change their
\* byte order, or the buffer is grown between the header and the data.  It never
\* gets a part of a record at the end of a pipe, or one with an illegal length.
RecordsWhole ==
    \A i \in 1 .. Len(delivered) :
       i \in Complete /\ delivered[i] = Whole(pipe, pipe.records[i])

\* When the source ends like one whose writer closed the pipe, with no error to
\* report, every record that was written completely has been delivered.
CleanEndLosesNothing ==
    cap_pipe_err = "PIPEOF" => \A i \in Complete : i <= Len(delivered)

\* A pipe that is closed ends the source, or makes opening it fail, whatever was
\* being read.
ClosedPipeEnds == writer = "closed" ~> pc \in {"ended", "failed"}

\* A stop is noticed although no more data comes, unless a writer of pcapng stops
\* in the middle of a block (cap_pipe_read_data_bytes does not look at go), or
\* before the pipe is open.
StopNoticed ==
    ~go ~> \/ pc \in {"ended", "failed"}
           \/ writer # "closed" /\ (InReadLoop \/ Opening)
=============================================================================
