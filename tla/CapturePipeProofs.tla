-------------------------- MODULE CapturePipeProofs --------------------------
(***************************************************************************)
(* For every contents of the pipe, every size of the buffer and every way   *)
(* in which the reads are cut: no read() writes past a buffer, the records  *)
(* of the pipe are delivered whole and in order, and a clean end loses none.*)
(***************************************************************************)
EXTENDS CapturePipe, InductionLemmas, TLAPS

\* The buffer has room for what the read loop asks for, ...
RoomToRead ==
    /\ cap_pipe_databuf_size >= BlockHdrSize + ShbSize
    /\ InReadLoop => cap_pipe_bytes_to_read <= cap_pipe_databuf_size

\* ... and for the data of a record as soon as its header is known; ...
RoomForData ==
    cap_pipe_state \in {"STATE_EXPECT_DATA", "STATE_READ_DATA"} => bh.incl_len <= cap_pipe_databuf_size

\* ... which rests on the header being replaced only while no data is expected.
StateMatchesPc ==
    /\ pc \in {"magic", "open_pcap_hdr", "open_block_hdr", "open_shb"} =>
          cap_pipe_state = "STATE_EXPECT_REC_HDR"
    /\ pc \in {"block_hdr", "shb"} => cap_pipe_state = "STATE_READ_REC_HDR"

PipeInv == TypeOK /\ BuffersNotOverrun /\ RoomToRead /\ RoomForData /\ StateMatchesPc

Header == [type : BlockTypes, incl_len : Nat, orig_len : Nat]

\* The lengths that a header can have.
Lengths == {Misread} \cup {pipe.records[i].incl_len : i \in 1 .. Len(pipe.records)}
                     \cup {pipe.records[i].orig_len : i \in 1 .. Len(pipe.records)}

-----------------------------------------------------------------------------
\* The records of a pipe are records.
LEMMA RecordTypes ==
    ASSUME pipe \in Pipes
    PROVE  /\ pipe.total \in Nat
           /\ Len(pipe.records) \in Nat
           /\ \A i \in 1 .. Len(pipe.records) :
                 /\ pipe.records[i].type \in BlockTypes
                 /\ pipe.records[i].incl_len \in Nat
                 /\ pipe.records[i].orig_len \in Nat
                 /\ pipe.records[i].swapped \in BOOLEAN
<1>1. pipe \in PipeType
  BY PipesAssumption
<1>2. pipe.total \in Nat /\ pipe.records \in Seq(RecordType)
  BY <1>1 DEF PipeType
<1>3. \A i \in 1 .. Len(pipe.records) : pipe.records[i] \in RecordType
  BY <1>2
<1>4. ASSUME NEW r \in RecordType
      PROVE  /\ r.type \in BlockTypes /\ r.swapped \in BOOLEAN
             /\ r.incl_len \in Nat /\ r.orig_len \in Nat
  BY DEF RecordType
<1>5. Len(pipe.records) \in Nat
  BY <1>2
<1> QED  BY <1>2, <1>3, <1>4, <1>5, Zenon

\* Whatever bytes are in a buffer, they are taken for a header with one of the lengths.
LEMMA HeaderType ==
    ASSUME pipe \in Pipes, NEW buf, NEW n
    PROVE  /\ HeaderIn(buf, n) \in Header
           /\ HeaderIn(buf, n).incl_len \in Lengths
           /\ HeaderIn(buf, n).orig_len \in Lengths
           /\ HeaderOf(RecordIn(buf, n)) \in Header
           /\ RecordIn(buf, n).incl_len \in Lengths
<1> DEFINE r == RecordIn(buf, n)
<1>1. r = Garbled \/ \E i \in 1 .. Len(pipe.records) : r = pipe.records[i]
  BY DEF RecordIn
<1>2. /\ HeaderOf(Garbled) \in Header
      /\ HeaderOf(Garbled).incl_len = Misread /\ HeaderOf(Garbled).orig_len = Misread
      /\ Garbled.incl_len = Misread
  BY SizesAssumption DEF HeaderOf, Garbled, Header, BlockTypes
<1>3. ASSUME NEW i \in 1 .. Len(pipe.records)
      PROVE  /\ HeaderOf(pipe.records[i]) \in Header
             /\ HeaderOf(pipe.records[i]).incl_len = pipe.records[i].incl_len
             /\ HeaderOf(pipe.records[i]).orig_len = pipe.records[i].orig_len
  BY RecordTypes DEF HeaderOf, Header
<1>4. /\ HeaderOf(r) \in Header
      /\ HeaderOf(r).incl_len \in Lengths
      /\ HeaderOf(r).orig_len \in Lengths
      /\ r.incl_len \in Lengths
  BY <1>1, <1>2, <1>3 DEF Lengths
<1>5. HeaderIn(buf, n) = HeaderOf(r) \/ HeaderIn(buf, n) = HeaderOf(Garbled)
  BY DEF HeaderIn
<1> QED  BY <1>2, <1>4, <1>5 DEF Lengths

\* A length that a header can have is rounded up to a size that has room for it.
LEMMA RoundUpFits ==
    ASSUME pipe \in Pipes, NEW n \in Lengths
    PROVE  n \in Nat /\ RoundUp(n) \in BufSizes /\ RoundUp(n) \in Nat /\ RoundUp(n) >= n
<1>1. n \in Nat /\ HasBufSize(n)
  BY RecordTypes, SizesAssumption DEF Lengths
<1> QED  BY <1>1, SizesAssumption DEF RoundUp, HasBufSize

\* The buffer after it was made large enough for a record.
LEMMA EnsureFits ==
    ASSUME PipeInv, NEW n \in Lengths, cap_pipe_ensure_databuf_size(n)
    PROVE  /\ cap_pipe_databuf_size' \in BufSizes \cup {InitialBufSize}
           /\ cap_pipe_databuf_size' \in Nat
           /\ n \in Nat /\ n <= cap_pipe_databuf_size'
           /\ cap_pipe_databuf_size <= cap_pipe_databuf_size'
           /\ DOMAIN cap_pipe_databuf' = 0 .. cap_pipe_databuf_size' - 1
<1>1. /\ pipe \in Pipes
      /\ cap_pipe_databuf_size \in BufSizes \cup {InitialBufSize}
      /\ DOMAIN cap_pipe_databuf = 0 .. cap_pipe_databuf_size - 1
  BY DEF PipeInv, TypeOK, BuffersNotOverrun
<1>2. cap_pipe_databuf_size \in Nat
  BY <1>1, SizesAssumption
<1>3. n \in Nat /\ RoundUp(n) \in BufSizes /\ RoundUp(n) \in Nat /\ RoundUp(n) >= n
  BY <1>1, RoundUpFits
<1>4. CASE n > cap_pipe_databuf_size
  <2>1. /\ cap_pipe_databuf_size' = RoundUp(n)
        /\ DOMAIN cap_pipe_databuf' = 0 .. RoundUp(n) - 1
    BY <1>4 DEF cap_pipe_ensure_databuf_size
  <2> QED  BY <1>2, <1>3, <1>4, <2>1
<1>5. CASE ~(n > cap_pipe_databuf_size)
  <2>1. UNCHANGED <<cap_pipe_databuf_size, cap_pipe_databuf>>
    BY <1>5 DEF cap_pipe_ensure_databuf_size
  <2> QED  BY <1>1, <1>2, <1>3, <1>5, <2>1
<1> QED  BY <1>4, <1>5

\* A read that fits leaves the buffer as large as it is.
LEMMA FilledFits ==
    ASSUME NEW m \in Nat, NEW buf, DOMAIN buf = 0 .. m - 1,
           NEW off \in Nat, NEW b \in Nat, off + b <= m
    PROVE  DOMAIN Filled(buf, off, b) = 0 .. m - 1
<1>1. DOMAIN Filled(buf, off, b) = 0 .. m - 1 \cup off .. off + b - 1
  BY DEF Filled
<1>2. off .. off + b - 1 \subseteq 0 .. m - 1
  OBVIOUS
<1> QED  BY <1>1, <1>2

\* What a read() returns.
LEMMA ChunkFits ==
    ASSUME TypeOK, NEW want \in Int, NEW b \in Chunk(want)
    PROVE  b \in Nat /\ b <= want /\ pos + b \in 0 .. pipe.total
<1>1. pipe.total \in Nat /\ pos \in 0 .. pipe.total
  BY RecordTypes DEF TypeOK
<1>2. b \in 1 .. want /\ pos + b <= pipe.total
  BY DEF Chunk
<1> QED  BY <1>1, <1>2

\* There is room when the pipe is opened.
LEMMA InitInv == Init => PipeInv
<1> SUFFICES ASSUME Init PROVE PipeInv
  OBVIOUS
<1>1. TypeOK
  <2>1. pipe.total \in Nat
    BY RecordTypes DEF Init
  <2>2. byte_swapped \in BOOLEAN /\ go \in BOOLEAN
    BY DEF Init
  <2> QED  BY <2>1, <2>2 DEF Init, TypeOK, States, BlockTypes
<1>2. BuffersNotOverrun
  BY SizesAssumption DEF Init, BuffersNotOverrun
<1>3. RoomToRead /\ RoomForData /\ StateMatchesPc
  BY SizesAssumption
     DEF Init, RoomToRead, RoomForData, StateMatchesPc, InReadLoop, BlockHdrSize, ShbSize
<1> QED  BY <1>1, <1>2, <1>3 DEF PipeInv

-----------------------------------------------------------------------------
\* Opening the pipe keeps the invariant.
LEMMA OpenInv ==
    ASSUME PipeInv, ReadMagic \/ ReadPcapHeader \/ OpenShb
    PROVE  PipeInv'
<1> USE DEF MagicSize, PcapHdrSize, BlockHdrSize, ShbSize
<1>0. TypeOK /\ pipe \in Pipes /\ cap_pipe_databuf_size \in Nat /\ got \in Nat
  BY SizesAssumption DEF PipeInv, TypeOK
<1>1. ASSUME ReadMagic PROVE PipeInv'
  <2> USE <1>1
  <2>1. PICK b \in Chunk(MagicSize - got) :
           /\ pos' = pos + b
           /\ IF got + b < MagicSize
                THEN got' = got + b /\ UNCHANGED <<pc, srcVars>>
                ELSE /\ got' = 0 /\ Identify
                     /\ UNCHANGED <<cap_pipe_state, cap_pipe_databuf_size, rechdr, bh>>
    BY DEF ReadMagic
  <2>2. b \in Nat /\ pos' \in 0 .. pipe.total
    BY <1>0, <2>1, ChunkFits
  <2>3. UNCHANGED <<pipe, writer, go, cap_pipe_state, cap_pipe_databuf_size, rechdr, bh>>
    BY <2>1 DEF ReadMagic, srcVars
  <2>4. CASE got + b < MagicSize
    BY <1>0, <2>1, <2>2, <2>3, <2>4
       DEF PipeInv, TypeOK, BuffersNotOverrun, RoomToRead, RoomForData, StateMatchesPc, srcVars, InReadLoop
  <2>5. CASE ~(got + b < MagicSize)
    <3>1. got' = 0 /\ Identify
      BY <2>1, <2>5
    <3>2. /\ pc' \in {"failed", "open_block_hdr", "open_pcap_hdr"}
          /\ cap_pipe_err' \in {cap_pipe_err, "PIPERR"}
          /\ DOMAIN cap_pipe_databuf' = DOMAIN cap_pipe_databuf
          /\ cap_pipe_bytes_read' \in {cap_pipe_bytes_read, MagicSize}
          /\ pc' = "open_block_hdr" => cap_pipe_bytes_to_read' = BlockHdrSize
          /\ cap_pipe_bytes_to_read' \in {cap_pipe_bytes_to_read, BlockHdrSize}
      BY <3>1 DEF Identify
    <3>3. byte_swapped' \in BOOLEAN
      <4>1. byte_swapped \in BOOLEAN
        BY <1>0 DEF TypeOK
      <4>2. byte_swapped' = byte_swapped \/ byte_swapped' = (pipe.magic \in {"swapped", "swapped_modified"})
        BY <3>1, Zenon DEF Identify
      <4>3. (pipe.magic \in {"swapped", "swapped_modified"}) \in BOOLEAN
        BY SMT
      <4> QED  BY <4>1, <4>2, <4>3
    <3>4. TypeOK'
      BY <1>0, <2>2, <2>3, <3>1, <3>2, <3>3 DEF TypeOK, PipeInv
    <3>5. BuffersNotOverrun'
      BY <2>3, <3>2 DEF BuffersNotOverrun, PipeInv
    <3>6. cap_pipe_state = "STATE_EXPECT_REC_HDR"
      BY DEF PipeInv, StateMatchesPc, ReadMagic
    <3>7. RoomToRead' /\ RoomForData' /\ StateMatchesPc'
      BY <1>0, <2>3, <3>2, <3>6 DEF PipeInv, RoomToRead, RoomForData, StateMatchesPc, InReadLoop
    <3> QED  BY <3>4, <3>5, <3>7 DEF PipeInv
  <2> QED  BY <2>4, <2>5
<1>2. ASSUME ReadPcapHeader PROVE PipeInv'
  <2> USE <1>2
  <2>1. PICK b \in Chunk(PcapHdrSize - got) :
           /\ pos' = pos + b
           /\ IF got + b < PcapHdrSize
                THEN got' = got + b /\ UNCHANGED <<pc, cap_pipe_err>>
                ELSE /\ got' = 0
                     /\ pc' = IF pipe.major < 2 THEN "failed" ELSE "loop"
                     /\ cap_pipe_err' = IF pipe.major < 2 THEN "PIPERR" ELSE cap_pipe_err
    BY DEF ReadPcapHeader
  <2>2. b \in Nat /\ pos' \in 0 .. pipe.total
    BY <1>0, <2>1, ChunkFits
  <2>3. /\ got' \in Nat /\ pc' \in {"open_pcap_hdr", "failed", "loop"}
        /\ cap_pipe_err' \in {cap_pipe_err, "PIPERR"}
    BY <1>0, <2>1, <2>2 DEF ReadPcapHeader
  <2>4. TypeOK'
    BY <1>0, <2>2, <2>3 DEF TypeOK, PipeInv, ReadPcapHeader
  <2> QED
    BY <2>3, <2>4
       DEF PipeInv, ReadPcapHeader, BuffersNotOverrun, RoomToRead, RoomForData, StateMatchesPc, InReadLoop
<1>3. ASSUME OpenShb PROVE PipeInv'
  <2>1. bh' \in Header
    BY <1>0, <1>3, HeaderType DEF OpenShb
  <2>2. TypeOK'
    BY <1>0, <1>3, <2>1 DEF TypeOK, OpenShb, Header
  <2> QED
    BY <1>0, <1>3, <2>2
       DEF PipeInv, OpenShb, BuffersNotOverrun, RoomToRead, RoomForData, StateMatchesPc, InReadLoop
<1> QED  BY <1>1, <1>2, <1>3

\* The read loop writes where there is room.
LEMMA ReadLoopInv ==
    ASSUME PipeInv, cap_pipe_read_data_bytes \/ ReadLoopFails
    PROVE  PipeInv'
<1>0. /\ TypeOK /\ cap_pipe_databuf_size \in Nat /\ got \in Nat
      /\ cap_pipe_bytes_read \in Nat /\ cap_pipe_bytes_to_read \in Nat
  BY SizesAssumption DEF PipeInv, TypeOK
<1>1. ASSUME cap_pipe_read_data_bytes PROVE PipeInv'
  <2> USE <1>1
  <2>1. PICK b \in Chunk(BytesWanted) :
           /\ pos' = pos + b
           /\ cap_pipe_databuf' = Filled(cap_pipe_databuf, ReadTo, b)
           /\ IF got + b < cap_pipe_bytes_to_read - cap_pipe_bytes_read
                THEN got' = got + b /\ UNCHANGED cap_pipe_bytes_read
                ELSE got' = 0 /\ cap_pipe_bytes_read' = cap_pipe_bytes_read + got + b
    BY DEF cap_pipe_read_data_bytes
  <2>2. BytesWanted \in Int /\ ReadTo \in Nat
    BY <1>0 DEF BytesWanted, ReadTo
  <2>3. b \in Nat /\ b <= BytesWanted /\ pos' \in 0 .. pipe.total
    BY <1>0, <2>1, <2>2, ChunkFits
  <2>4. ReadTo + b <= cap_pipe_databuf_size
    <3>1. cap_pipe_bytes_to_read <= cap_pipe_databuf_size
      BY DEF PipeInv, RoomToRead, cap_pipe_read_data_bytes
    <3> QED  BY <1>0, <2>3, <3>1 DEF BytesWanted, ReadTo
  <2>5. DOMAIN cap_pipe_databuf' = 0 .. cap_pipe_databuf_size - 1
    BY <1>0, <2>1, <2>2, <2>3, <2>4, FilledFits DEF PipeInv, BuffersNotOverrun
  <2>6. got' \in Nat /\ cap_pipe_bytes_read' \in Nat
    BY <1>0, <2>1, <2>3
  <2>7. TypeOK'
    BY <1>0, <2>3, <2>6 DEF TypeOK, cap_pipe_read_data_bytes
  <2> QED
    BY <2>5, <2>7
       DEF PipeInv, cap_pipe_read_data_bytes, BuffersNotOverrun, RoomToRead, RoomForData,
           StateMatchesPc, InReadLoop
<1>2. ASSUME ReadLoopFails PROVE PipeInv'
  <2>1. /\ cap_pipe_err' \in {"PIPEOF", "PIPERR"} /\ pc' \in {"failed", "loop"} /\ got' = 0
        /\ UNCHANGED <<pipe, writer, pos, cap_pipe_state, cap_pipe_bytes_to_read, cap_pipe_bytes_read,
                       cap_pipe_databuf_size, cap_pipe_databuf, rechdr, bh, byte_swapped>>
    BY <1>2 DEF ReadLoopFails, ReadLoopError
  <2>2. go' \in BOOLEAN
    BY <1>0, <1>2 DEF ReadLoopFails, TypeOK
  <2>3. TypeOK'
    BY <1>0, <2>1, <2>2 DEF TypeOK
  <2> QED
    BY <2>1, <2>3
       DEF PipeInv, BuffersNotOverrun, RoomToRead, RoomForData, StateMatchesPc, InReadLoop
<1> QED  BY <1>1, <1>2

\* The blocks of a pcapng pipe.
LEMMA BlockInv ==
    ASSUME PipeInv, ExpectBlockHeader \/ ExpectBlock \/ BlockHeaderRead \/ pcapng_read_shb \/ BlockRead
    PROVE  PipeInv'
<1> USE DEF BlockHdrSize, ShbSize
<1>0. /\ TypeOK /\ pipe \in Pipes /\ cap_pipe_databuf_size \in Nat /\ got \in Nat
      /\ cap_pipe_bytes_read \in Nat /\ cap_pipe_bytes_to_read \in Nat /\ bh.incl_len \in Nat
  BY SizesAssumption DEF PipeInv, TypeOK
<1>1. ASSUME ExpectBlockHeader PROVE PipeInv'
  <2>1. TypeOK'
    BY <1>0, <1>1 DEF TypeOK, ExpectBlockHeader, States
  <2> QED
    BY <1>0, <1>1, <2>1
       DEF PipeInv, ExpectBlockHeader, BuffersNotOverrun, RoomToRead, RoomForData, StateMatchesPc, InReadLoop
<1>2. ASSUME ExpectBlock PROVE PipeInv'
  <2>1. TypeOK'
    BY <1>0, <1>2 DEF TypeOK, ExpectBlock, States, BlockReadFrom
  <2> QED
    BY <1>0, <1>2, <2>1
       DEF PipeInv, ExpectBlock, BuffersNotOverrun, RoomToRead, RoomForData, StateMatchesPc, InReadLoop
<1>3. ASSUME BlockHeaderRead PROVE PipeInv'
  <2> USE <1>3
  <2> DEFINE h == HeaderIn(cap_pipe_databuf, BlockHdrSize)
  <2>1. h \in Header /\ h.incl_len \in Lengths
    BY <1>0, HeaderType
  <2>2. /\ bh' = h
        /\ UNCHANGED <<pipe, writer, pos, got, cap_pipe_bytes_read, rechdr, byte_swapped, go>>
        /\ pc = "block_hdr"
    BY DEF BlockHeaderRead
  <2>3. cap_pipe_state = "STATE_READ_REC_HDR"
    BY <2>2 DEF PipeInv, StateMatchesPc
  <2> HIDE DEF h
  <2>4. CASE h.type = "SHB"
    <3>1. /\ pc' = "shb" /\ cap_pipe_bytes_to_read' = BlockHdrSize + ShbSize
          /\ UNCHANGED <<cap_pipe_state, cap_pipe_err, cap_pipe_databuf_size, cap_pipe_databuf>>
      BY <2>4 DEF BlockHeaderRead, h
    <3>2. TypeOK'
      BY <1>0, <2>1, <2>2, <3>1 DEF TypeOK, Header
    <3> QED
      BY <1>0, <2>2, <2>3, <3>1, <3>2
         DEF PipeInv, BuffersNotOverrun, RoomToRead, RoomForData, StateMatchesPc, InReadLoop
  <2>5. CASE h.type # "SHB"
    <3>1. /\ pc' = "loop" /\ cap_pipe_err' = BlockError(h)
          /\ IF BlockError(h) = "PIPERR"
               THEN UNCHANGED <<cap_pipe_databuf_size, cap_pipe_databuf>>
               ELSE cap_pipe_ensure_databuf_size(h.incl_len)
          /\ cap_pipe_state' = IF BlockError(h) = "PIPOK" THEN "STATE_EXPECT_DATA" ELSE cap_pipe_state
          /\ UNCHANGED cap_pipe_bytes_to_read
      BY <2>5 DEF BlockHeaderRead, h
    <3>2. BlockError(h) \in {"PIPOK", "PIPEOF", "PIPERR"}
      BY DEF BlockError
    <3>3. /\ cap_pipe_databuf_size' \in BufSizes \cup {InitialBufSize}
          /\ cap_pipe_databuf_size' \in Nat
          /\ cap_pipe_databuf_size <= cap_pipe_databuf_size'
          /\ DOMAIN cap_pipe_databuf' = 0 .. cap_pipe_databuf_size' - 1
          /\ BlockError(h) = "PIPOK" => h.incl_len <= cap_pipe_databuf_size'
      <4>1. CASE BlockError(h) = "PIPERR"
        BY <1>0, <3>1, <4>1 DEF PipeInv, BuffersNotOverrun, TypeOK
      <4>2. CASE BlockError(h) # "PIPERR"
        BY <2>1, <3>1, <4>2, EnsureFits
      <4> QED  BY <4>1, <4>2
    <3>4. TypeOK'
      BY <1>0, <2>1, <2>2, <2>3, <3>1, <3>2, <3>3 DEF TypeOK, Header, States
    <3> QED
      BY <1>0, <2>2, <2>3, <3>1, <3>2, <3>3, <3>4
         DEF PipeInv, BuffersNotOverrun, RoomToRead, RoomForData, StateMatchesPc, InReadLoop
  <2> QED  BY <2>4, <2>5
<1>4. ASSUME pcapng_read_shb PROVE PipeInv'
  <2> USE <1>4
  <2> DEFINE n == BlockHdrSize + ShbSize
             r == RecordIn(cap_pipe_databuf, n)
             sane == ShbAccepted(r) /\ r.incl_len >= n + TrailerSize
  <2>1. HeaderOf(r) \in Header /\ r.incl_len \in Lengths /\ HeaderOf(r).incl_len = r.incl_len
    BY <1>0, HeaderType DEF HeaderOf
  <2>2. r.swapped \in BOOLEAN
    <3>1. r = Garbled \/ \E i \in 1 .. Len(pipe.records) : r = pipe.records[i]
      BY DEF RecordIn
    <3>2. Garbled.swapped \in BOOLEAN
      BY DEF Garbled
    <3> QED  BY <1>0, <3>1, <3>2, RecordTypes
  <2> HIDE DEF r, n
  <2>3. /\ pc \in {"open_shb", "shb"}
        /\ IF r.magic_ok /\ (r.swapped => pipe.passthrough)
             THEN byte_swapped' = SectionOrder(r) /\ bh' = HeaderOf(r)
             ELSE UNCHANGED <<byte_swapped, bh>>
        /\ IF ShbAccepted(r) THEN cap_pipe_ensure_databuf_size(r.incl_len)
           ELSE UNCHANGED <<cap_pipe_databuf_size, cap_pipe_databuf>>
        /\ pc' = IF sane \/ pc = "shb" THEN "loop" ELSE "failed"
        /\ cap_pipe_err' = IF sane THEN cap_pipe_err ELSE "PIPERR"
        /\ cap_pipe_state' = IF sane THEN "STATE_EXPECT_DATA" ELSE cap_pipe_state
        /\ UNCHANGED <<pipe, writer, pos, got, cap_pipe_bytes_to_read, cap_pipe_bytes_read, rechdr, go>>
    BY Zenon DEF pcapng_read_shb, r, n
  <2>4. cap_pipe_state \in {"STATE_EXPECT_REC_HDR", "STATE_READ_REC_HDR"}
    BY <2>3 DEF PipeInv, StateMatchesPc
  <2>5. bh' \in Header /\ (sane => bh' = HeaderOf(r))
    BY <1>0, <2>1, <2>3 DEF ShbAccepted, TypeOK, Header
  <2>6. byte_swapped' \in BOOLEAN
    BY <1>0, <2>2, <2>3, Zenon DEF SectionOrder, TypeOK
  <2>7. /\ cap_pipe_databuf_size' \in BufSizes \cup {InitialBufSize}
        /\ cap_pipe_databuf_size' \in Nat
        /\ cap_pipe_databuf_size <= cap_pipe_databuf_size'
        /\ DOMAIN cap_pipe_databuf' = 0 .. cap_pipe_databuf_size' - 1
        /\ sane => r.incl_len <= cap_pipe_databuf_size'
    <3>1. CASE ShbAccepted(r)
      BY <2>1, <2>3, <3>1, EnsureFits
    <3>2. CASE ~ShbAccepted(r)
      BY <1>0, <2>3, <3>2 DEF PipeInv, BuffersNotOverrun, TypeOK
    <3> QED  BY <3>1, <3>2
  <2>8. pc' \in {"loop", "failed"}
    BY <2>3
  <2>9. cap_pipe_state' \in {cap_pipe_state, "STATE_EXPECT_DATA"} /\ cap_pipe_err' \in {cap_pipe_err, "PIPERR"}
    BY <2>3
  <2>10. TypeOK'
    BY <1>0, <2>3, <2>4, <2>5, <2>6, <2>7, <2>8, <2>9 DEF TypeOK, Header, States
  <2>11. RoomForData'
    BY <2>1, <2>3, <2>4, <2>5, <2>7 DEF RoomForData
  <2>12. RoomToRead' /\ StateMatchesPc'
    BY <1>0, <2>7, <2>8 DEF PipeInv, RoomToRead, StateMatchesPc, InReadLoop
  <2>13. BuffersNotOverrun'
    BY <2>3, <2>7 DEF PipeInv, BuffersNotOverrun
  <2> QED  BY <2>10, <2>11, <2>12, <2>13 DEF PipeInv
<1>5. ASSUME BlockRead PROVE PipeInv'
  <2>1. TypeOK'
    BY <1>0, <1>5 DEF TypeOK, BlockRead, States
  <2> QED
    BY <1>5, <2>1
       DEF PipeInv, BlockRead, BuffersNotOverrun, RoomToRead, RoomForData, StateMatchesPc, InReadLoop
<1> QED  BY <1>1, <1>2, <1>3, <1>4, <1>5

\* The records of a pcap pipe.
LEMMA PcapInv ==
    ASSUME PipeInv, ReadRecordHeader \/ ReadRecordData \/ PcapPipeEnds
    PROVE  PipeInv'
<1>0. /\ TypeOK /\ pipe \in Pipes /\ cap_pipe_databuf_size \in Nat /\ got \in Nat
      /\ cap_pipe_bytes_read \in Nat /\ cap_pipe_bytes_to_read \in Nat /\ bh.incl_len \in Nat
  BY SizesAssumption DEF PipeInv, TypeOK
<1>1. RecHdrSize(pipe) \in Nat /\ RecHdrSize(pipe) <= 24
  BY DEF RecHdrSize, BlockHdrSize
<1>2. ASSUME ReadRecordHeader PROVE PipeInv'
  <2> USE <1>2
  <2> DEFINE h == cap_pipe_adjust_pcap_header(HeaderIn(rechdr', RecHdrSize(pipe)))
  <2>1. PICK b \in Chunk(RecHdrSize(pipe) - HeaderReadFrom) :
           /\ pos' = pos + b
           /\ rechdr' = Filled(rechdr, HeaderReadFrom, b)
           /\ cap_pipe_bytes_read' = HeaderReadFrom + b
           /\ IF HeaderReadFrom + b < RecHdrSize(pipe)
                THEN /\ cap_pipe_state' = "STATE_READ_REC_HDR"
                     /\ UNCHANGED <<bh, cap_pipe_err, cap_pipe_databuf_size, cap_pipe_databuf,
                                    delivered>>
                ELSE RecordHeaderRead(h)
    BY DEF ReadRecordHeader
  <2>2. /\ HeaderReadFrom \in Nat /\ RecHdrSize(pipe) - HeaderReadFrom \in Int
    BY <1>0, <1>1 DEF HeaderReadFrom
  <2>3. b \in Nat /\ b <= RecHdrSize(pipe) - HeaderReadFrom /\ pos' \in 0 .. pipe.total
    BY <1>0, <2>1, <2>2, ChunkFits
  <2>4. DOMAIN rechdr' = 0 .. 23
    <3> DEFINE m == 24
    <3>1. m \in Nat /\ HeaderReadFrom + b <= m /\ DOMAIN rechdr = 0 .. m - 1
      BY <1>1, <2>2, <2>3 DEF PipeInv, BuffersNotOverrun
    <3> HIDE DEF m
    <3>2. DOMAIN rechdr' = 0 .. m - 1
      BY <2>1, <2>2, <2>3, <3>1, FilledFits
    <3> QED  BY <3>2 DEF m
  <2>5. h \in Header /\ h.incl_len \in Lengths
    <3> DEFINE g == HeaderIn(rechdr', RecHdrSize(pipe))
    <3>1. g \in Header /\ g.incl_len \in Lengths /\ g.orig_len \in Lengths
      BY <1>0, HeaderType
    <3> HIDE DEF g
    <3>2. h = g \/ h = [g EXCEPT !.incl_len = g.orig_len, !.orig_len = g.incl_len]
      BY DEF cap_pipe_adjust_pcap_header, g
    <3> QED  BY <3>1, <3>2 DEF Header
  <2>6. /\ UNCHANGED <<pipe, writer, pc, got, byte_swapped, go>>
        /\ pc = "loop" /\ cap_pipe_bytes_to_read' \in Nat /\ cap_pipe_bytes_read' \in Nat
    BY <1>1, <2>1, <2>2, <2>3 DEF ReadRecordHeader, Dispatching
  <2> HIDE DEF h
  <2>7. /\ bh' \in Header /\ cap_pipe_err' \in {cap_pipe_err, "PIPERR"}
        /\ cap_pipe_state' \in {"STATE_READ_REC_HDR", "STATE_EXPECT_DATA", "STATE_EXPECT_REC_HDR"}
        /\ cap_pipe_databuf_size' \in BufSizes \cup {InitialBufSize}
        /\ cap_pipe_databuf_size' \in Nat
        /\ cap_pipe_databuf_size <= cap_pipe_databuf_size'
        /\ DOMAIN cap_pipe_databuf' = 0 .. cap_pipe_databuf_size' - 1
        /\ cap_pipe_state' = "STATE_EXPECT_DATA" => bh'.incl_len <= cap_pipe_databuf_size'
    <3>1. CASE HeaderReadFrom + b < RecHdrSize(pipe)
      BY <1>0, <2>1, <3>1 DEF PipeInv, TypeOK, BuffersNotOverrun, Header
    <3>2. CASE ~(HeaderReadFrom + b < RecHdrSize(pipe))
      <4>1. RecordHeaderRead(h)
        BY <2>1, <3>2
      <4>2. CASE h.incl_len > MaxPktSize
        BY <1>0, <2>5, <4>1, <4>2 DEF RecordHeaderRead, PipeInv, TypeOK, BuffersNotOverrun
      <4>3. CASE ~(h.incl_len > MaxPktSize)
        <5>1. /\ bh' = h /\ cap_pipe_err' = cap_pipe_err
              /\ cap_pipe_ensure_databuf_size(h.incl_len)
              /\ cap_pipe_state' \in {"STATE_EXPECT_DATA", "STATE_EXPECT_REC_HDR"}
          BY <4>1, <4>3 DEF RecordHeaderRead
        <5> QED  BY <2>5, <5>1, EnsureFits
      <4> QED  BY <4>2, <4>3
    <3> QED  BY <3>1, <3>2
  <2>8. TypeOK'
    BY <1>0, <2>3, <2>6, <2>7 DEF TypeOK, Header, States
  <2>9. BuffersNotOverrun' /\ RoomForData'
    BY <2>4, <2>7 DEF BuffersNotOverrun, RoomForData
  <2>10. RoomToRead' /\ StateMatchesPc'
    BY <1>0, <2>6, <2>7 DEF PipeInv, RoomToRead, StateMatchesPc, InReadLoop, BlockHdrSize, ShbSize
  <2> QED  BY <2>8, <2>9, <2>10 DEF PipeInv
<1>3. ASSUME ReadRecordData PROVE PipeInv'
  <2> USE <1>3
  <2>1. PICK b \in Chunk(bh.incl_len - DataReadFrom) :
           /\ pos' = pos + b
           /\ cap_pipe_databuf' = Filled(cap_pipe_databuf, DataReadFrom, b)
           /\ cap_pipe_bytes_read' = DataReadFrom + b
           /\ cap_pipe_state' \in {"STATE_READ_DATA", "STATE_EXPECT_REC_HDR"}
    BY DEF ReadRecordData
  <2>2. DataReadFrom \in Nat /\ bh.incl_len - DataReadFrom \in Int
    BY <1>0 DEF DataReadFrom
  <2>3. b \in Nat /\ b <= bh.incl_len - DataReadFrom /\ pos' \in 0 .. pipe.total
    BY <1>0, <2>1, <2>2, ChunkFits
  <2>4. bh.incl_len <= cap_pipe_databuf_size
    BY DEF PipeInv, RoomForData, ReadRecordData
  <2>5. DOMAIN cap_pipe_databuf' = 0 .. cap_pipe_databuf_size - 1
    <3>1. DataReadFrom + b <= cap_pipe_databuf_size
      BY <1>0, <2>2, <2>3, <2>4
    <3> QED  BY <1>0, <2>1, <2>2, <2>3, <3>1, FilledFits DEF PipeInv, BuffersNotOverrun
  <2>6. /\ UNCHANGED <<pipe, writer, pc, got, cap_pipe_err, cap_pipe_databuf_size, rechdr, bh,
                       byte_swapped, go>>
        /\ pc = "loop" /\ cap_pipe_bytes_to_read' = bh.incl_len /\ cap_pipe_bytes_read' \in Nat
    BY <2>1, <2>2, <2>3 DEF ReadRecordData, Dispatching
  <2>7. TypeOK'
    BY <1>0, <2>1, <2>3, <2>6 DEF TypeOK, States
  <2> QED
    BY <2>1, <2>4, <2>5, <2>6, <2>7
       DEF PipeInv, BuffersNotOverrun, RoomToRead, RoomForData, StateMatchesPc, InReadLoop
<1>4. ASSUME PcapPipeEnds PROVE PipeInv'
  <2>1. /\ UNCHANGED <<pipe, writer, pos, pc, got, cap_pipe_databuf_size, cap_pipe_databuf, rechdr, bh,
                       byte_swapped, go>>
        /\ pc = "loop" /\ cap_pipe_err' \in {"PIPEOF", "PIPERR"}
        /\ cap_pipe_bytes_read' \in Nat /\ cap_pipe_bytes_to_read' \in Nat
    BY <1>0, <1>1, <1>4 DEF PcapPipeEnds, Dispatching
  <2>2. /\ cap_pipe_state' \in States
        /\ cap_pipe_state' \in {"STATE_EXPECT_DATA", "STATE_READ_DATA"} =>
              cap_pipe_state \in {"STATE_EXPECT_DATA", "STATE_READ_DATA"}
    BY <1>0, <1>4 DEF PcapPipeEnds, TypeOK, States
  <2>3. TypeOK'
    BY <1>0, <2>1, <2>2 DEF TypeOK
  <2> QED
    BY <2>1, <2>2, <2>3
       DEF PipeInv, BuffersNotOverrun, RoomToRead, RoomForData, StateMatchesPc, InReadLoop
<1> QED  BY <1>2, <1>3, <1>4

\* Every step keeps the buffers and the room in them.
LEMMA NextInv == PipeInv /\ [Next]_vars => PipeInv'
<1> SUFFICES ASSUME PipeInv, [Next]_vars PROVE PipeInv'
  OBVIOUS
<1>1. CASE ReadMagic \/ ReadPcapHeader \/ OpenShb
  BY <1>1, OpenInv
<1>2. CASE cap_pipe_read_data_bytes \/ ReadLoopFails
  BY <1>2, ReadLoopInv
<1>3. CASE ExpectBlockHeader \/ ExpectBlock \/ BlockHeaderRead \/ pcapng_read_shb \/ BlockRead
  BY <1>3, BlockInv
<1>4. CASE ReadRecordHeader \/ ReadRecordData \/ PcapPipeEnds
  BY <1>4, PcapInv
<1>5. CASE SelectFails \/ LoopEnds \/ capture_loop_stop \/ WriterStops
  <2>1. go' \in BOOLEAN
    BY <1>5 DEF PipeInv, TypeOK, SelectFails, LoopEnds, capture_loop_stop, WriterStops
  <2>2. /\ pc' \in {pc, "ended"} /\ writer' \in {writer, "closed", "stalled"}
        /\ UNCHANGED <<pipe, pos, got, srcVars>>
    BY <1>5 DEF SelectFails, LoopEnds, capture_loop_stop, WriterStops
  <2>3. TypeOK'
    BY <2>1, <2>2 DEF PipeInv, TypeOK, srcVars
  <2> QED
    BY <2>2, <2>3
       DEF PipeInv, BuffersNotOverrun, RoomToRead, RoomForData, StateMatchesPc, InReadLoop, srcVars
<1>6. CASE UNCHANGED vars
  BY <1>6 DEF vars, srcVars, PipeInv, TypeOK, BuffersNotOverrun, RoomToRead, RoomForData,
              StateMatchesPc, InReadLoop
<1> QED  BY <1>1, <1>2, <1>3, <1>4, <1>5, <1>6 DEF Next, Progress

-----------------------------------------------------------------------------
\* The types of cap_pipe_open and of the two dispatchers: what is read is a part
\* of the pipe, and cap_pipe_databuf is the first size or one it was grown to.
THEOREM PipeTyped == Spec => []TypeOK
<1>1. PipeInv => TypeOK
  BY DEF PipeInv
<1> QED  BY <1>1, InitInv, NextInv, PTL DEF Spec

\* No read() of cap_pipe_open, of cap_pipe_read_data_bytes or of
\* pcap_pipe_dispatch writes past cap_pipe_databuf or the record header,
\* whatever the program at the other end writes and wherever it stops.
THEOREM ReadsFit == Spec => []BuffersNotOverrun
<1>1. PipeInv => BuffersNotOverrun
  BY DEF PipeInv
<1> QED  BY <1>1, InitInv, NextInv, PTL DEF Spec

-----------------------------------------------------------------------------
(***************************************************************************)
(* Framing: where in the pipe dumpcap is, by the state it is in, and which  *)
(* bytes its buffers hold.                                                  *)
(***************************************************************************)

\* The record that is read, and where it begins.
Current == Len(delivered) + 1
Start == RecordStart(pipe, Current)

\* A buffer begins with n bytes of the pipe.
Holds(buf, from, n) == \A j \in 0 .. n - 1 : buf[j] = from + j

\* What can have been delivered.
Wholes == {Whole(pipe, pipe.records[i]) : i \in 1 .. Len(pipe.records)}

\* The header of a record that dumpcap takes has been read.
ReadsRecord ==
    /\ Current \in 1 .. Len(pipe.records)
    /\ WellFormed(pipe, pipe.records[Current])
    /\ bh.incl_len = TrueLen(pipe, pipe.records[Current])
    /\ byte_swapped = pipe.records[Current].swapped

\* The pipe has the byte order of the section that was read last.
SectionKnown ==
    /\ Len(delivered) \in 1 .. Len(pipe.records)
    /\ byte_swapped = pipe.records[Len(delivered)].swapped

\* Opening: only the header of the file has been read.
OpenPos ==
    Opening => /\ delivered = << >> /\ cap_pipe_err = "PIPOK"
               /\ pc = "magic" => pos = got /\ got < MagicSize
               /\ pc = "open_pcap_hdr" =>
                     /\ ~IsPcapng(pipe) /\ pos = MagicSize + got /\ got < PcapHdrSize
                     /\ byte_swapped = (pipe.magic \in {"swapped", "swapped_modified"})

\* In the read loop the buffer holds what was read of the current block; of an SHB
\* only the type is known, of any other block that dumpcap takes it.
ReadLoopPos ==
    InReadLoop =>
       /\ IsPcapng(pipe) /\ cap_pipe_err = "PIPOK"
       /\ pos = Start + ReadTo
       /\ ReadTo <= cap_pipe_bytes_to_read
       /\ got > 0 => ReadTo < cap_pipe_bytes_to_read
       /\ Holds(cap_pipe_databuf, Start, ReadTo)
       /\ pc \in {"open_block_hdr", "block_hdr"} => cap_pipe_bytes_to_read = BlockHdrSize
       /\ pc = "block_hdr" => SectionKnown
       /\ pc \in {"open_shb", "shb"} =>
             /\ cap_pipe_bytes_to_read = BlockHdrSize + ShbSize
             /\ Current \in 1 .. Len(pipe.records)
             /\ pipe.records[Current].type = "SHB"
       /\ pc = "block" => /\ ReadsRecord /\ cap_pipe_state = "STATE_READ_DATA"
                          /\ cap_pipe_bytes_to_read = bh.incl_len

\* When the dispatcher is called, cap_pipe_state says how much of the current
\* record was read, and the buffers hold it.
LoopPos ==
    pc = "loop" /\ cap_pipe_err = "PIPOK" =>
       /\ got = 0
       /\ cap_pipe_state = "STATE_EXPECT_REC_HDR" => pos = Start
       /\ IsPcapng(pipe) =>
             /\ cap_pipe_state \in {"STATE_EXPECT_REC_HDR", "STATE_EXPECT_DATA"}
             /\ cap_pipe_state = "STATE_EXPECT_REC_HDR" => SectionKnown
             /\ cap_pipe_state = "STATE_EXPECT_DATA" =>
                   /\ ReadsRecord /\ pos = Start + cap_pipe_bytes_read
                   /\ cap_pipe_bytes_read <= bh.incl_len
                   /\ Holds(cap_pipe_databuf, Start, cap_pipe_bytes_read)
       /\ ~IsPcapng(pipe) =>
             /\ byte_swapped = (pipe.magic \in {"swapped", "swapped_modified"})
             /\ cap_pipe_state = "STATE_READ_REC_HDR" =>
                   /\ pos = Start + cap_pipe_bytes_read
                   /\ cap_pipe_bytes_read < RecHdrSize(pipe)
                   /\ Holds(rechdr, Start, cap_pipe_bytes_read)
             /\ cap_pipe_state = "STATE_EXPECT_DATA" =>
                   ReadsRecord /\ bh.incl_len > 0 /\ pos = Start + RecHdrSize(pipe)
             /\ cap_pipe_state = "STATE_READ_DATA" =>
                   /\ ReadsRecord /\ cap_pipe_bytes_read < bh.incl_len
                   /\ pos = Start + RecHdrSize(pipe) + cap_pipe_bytes_read
                   /\ Holds(cap_pipe_databuf, Start + RecHdrSize(pipe), cap_pipe_bytes_read)

\* The property itself, with the type that makes it inductive.
DeliveredOK == delivered \in Seq(Wholes) /\ RecordsWhole

\* The pipe is cut where its records begin.
CutInv == DeliveredOK /\ OpenPos /\ ReadLoopPos /\ LoopPos

-----------------------------------------------------------------------------
\* What is known of a pipe and of its records.
LEMMA PipeFacts ==
    ASSUME pipe \in Pipes
    PROVE  /\ pipe.total \in Nat /\ Len(pipe.records) \in Nat
           /\ pipe.total = RecordStart(pipe, Len(pipe.records) + 1)
           /\ RecHdrSize(pipe) \in {8, 16, 24}
           /\ IsPcapng(pipe) <=> RecHdrSize(pipe) = 8
           /\ \A i \in 1 .. Len(pipe.records) :
                 LET r == pipe.records[i]
                 IN  /\ r \in RecordType
                     /\ r.start \in Nat /\ r.size \in Nat /\ r.incl_len \in Nat /\ r.orig_len \in Nat
                     /\ r.start = RecordStart(pipe, i)
                     /\ r.size >= RecHdrSize(pipe) + (IF r.type = "SHB" THEN 16 ELSE 0)
                     /\ i < Len(pipe.records) => WellFormed(pipe, r)
                     /\ WellFormed(pipe, r) =>
                           r.size = TrueLen(pipe, r) + (IF IsPcapng(pipe) THEN 0 ELSE RecHdrSize(pipe))
<1>1. pipe \in PipeType /\ Consecutive(pipe)
  BY PipesAssumption
<1>2. pipe.total \in Nat /\ pipe.records \in Seq(RecordType)
  BY <1>1 DEF PipeType
<1>3. \A i \in 1 .. Len(pipe.records) : pipe.records[i] \in RecordType
  BY <1>2
<1>4. /\ RecHdrSize(pipe) \in {8, 16, 24}
      /\ IsPcapng(pipe) <=> RecHdrSize(pipe) = 8
  BY DEF RecHdrSize, BlockHdrSize
<1>5. Len(pipe.records) \in Nat
  BY <1>2
<1>6. \A i \in 1 .. Len(pipe.records) :
         LET r == pipe.records[i]
         IN  r.start \in Nat /\ r.size \in Nat /\ r.incl_len \in Nat /\ r.orig_len \in Nat
  BY <1>3 DEF RecordType
<1>7. /\ pipe.total = RecordStart(pipe, Len(pipe.records) + 1)
      /\ \A i \in 1 .. Len(pipe.records) :
            LET r == pipe.records[i]
            IN  /\ r.start = RecordStart(pipe, i)
                /\ r.size >= RecHdrSize(pipe) + (IF r.type = "SHB" THEN 16 ELSE 0)
                /\ i < Len(pipe.records) => WellFormed(pipe, r)
                /\ WellFormed(pipe, r) =>
                      r.size = TrueLen(pipe, r) + (IF IsPcapng(pipe) THEN 0 ELSE RecHdrSize(pipe))
  BY <1>1, Zenon DEF Consecutive, ShbSize
<1> QED  BY <1>2, <1>3, <1>4, <1>5, <1>6, <1>7

\* Where the record after record i begins.
LEMMA NextStart ==
    ASSUME pipe \in Pipes, NEW i \in 1 .. Len(pipe.records)
    PROVE  RecordStart(pipe, i + 1) = pipe.records[i].start + pipe.records[i].size
  BY PipeFacts DEF RecordStart

\* A record ends where a later one begins, or before.
LEMMA StartsIncrease ==
    ASSUME pipe \in Pipes
    PROVE  \A j \in 1 .. Len(pipe.records) + 1 : \A i \in 1 .. Len(pipe.records) :
              i < j => pipe.records[i].start + pipe.records[i].size <= RecordStart(pipe, j)
<1> DEFINE L == Len(pipe.records)
           End(i) == pipe.records[i].start + pipe.records[i].size
           S == {n \in Nat : n \in 1 .. L + 1 =>
                    \A i \in 1 .. L : i < n => End(i) <= RecordStart(pipe, n)}
<1>1. L \in Nat /\ \A i \in 1 .. L : End(i) \in Nat /\ RecordStart(pipe, i) \in Nat
                     /\ RecordStart(pipe, i) <= End(i) /\ RecordStart(pipe, i + 1) = End(i)
  BY PipeFacts, NextStart
<1> HIDE DEF L, End
<1>2. 0 \in S
  OBVIOUS
<1>3. ASSUME NEW n \in Nat, n \in S PROVE n + 1 \in S
  <2> SUFFICES ASSUME n + 1 \in 1 .. L + 1, NEW i \in 1 .. L, i < n + 1
               PROVE  End(i) <= RecordStart(pipe, n + 1)
    OBVIOUS
  <2>1. n \in 1 .. L /\ n \in 1 .. L + 1
    BY <1>1
  <2>2. i < n => End(i) <= RecordStart(pipe, n)
    BY <1>3, <2>1
  <2>3. i = n \/ i < n
    BY <1>1
  <2> QED  BY <1>1, <2>1, <2>2, <2>3
<1> HIDE DEF S
<1>4. Nat \subseteq S
  BY <1>2, <1>3, SetInduction
<1> QED  BY <1>1, <1>4 DEF S, L, End

\* The same for two records.
LEMMA RecordsOrdered ==
    ASSUME pipe \in Pipes, NEW i \in 1 .. Len(pipe.records), NEW j \in 1 .. Len(pipe.records), i < j
    PROVE  pipe.records[i].start + pipe.records[i].size <= pipe.records[j].start
<1>1. j \in 1 .. Len(pipe.records) + 1
  BY PipeFacts
<1>2. pipe.records[i].start + pipe.records[i].size <= RecordStart(pipe, j)
  BY <1>1, StartsIncrease
<1>3. pipe.records[j].start = RecordStart(pipe, j)
  BY PipeFacts
<1> QED  BY <1>2, <1>3

\* A buffer with the first bytes of a record is taken for that record.
LEMMA RecordFound ==
    ASSUME pipe \in Pipes, NEW k \in 1 .. Len(pipe.records), NEW buf, NEW n \in Nat, n > 0,
           Begins(buf, n, pipe.records[k])
    PROVE  RecordIn(buf, n) = pipe.records[k]
<1>1. ASSUME NEW i \in 1 .. Len(pipe.records), Begins(buf, n, pipe.records[i])
      PROVE  i = k
  <2>1. 0 \in 0 .. n - 1
    OBVIOUS
  <2>2. pipe.records[i].start = pipe.records[k].start
    <3>1. buf[0] = pipe.records[i].start + 0 /\ buf[0] = pipe.records[k].start + 0
      BY <1>1, <2>1 DEF Begins
    <3> QED  BY <3>1, PipeFacts
  <2>3. /\ i < k => pipe.records[i].start + pipe.records[i].size <= pipe.records[k].start
        /\ k < i => pipe.records[k].start + pipe.records[k].size <= pipe.records[i].start
    BY RecordsOrdered
  <2>4. /\ pipe.records[i].size \in Nat /\ pipe.records[k].size \in Nat
        /\ pipe.records[i].start \in Nat /\ pipe.records[k].start \in Nat
        /\ RecHdrSize(pipe) \in {8, 16, 24}
    BY PipeFacts, Zenon
  <2>5. pipe.records[i].size > 0 /\ pipe.records[k].size > 0
    <3>1. /\ pipe.records[i].size >= RecHdrSize(pipe) + (IF pipe.records[i].type = "SHB" THEN 16 ELSE 0)
          /\ pipe.records[k].size >= RecHdrSize(pipe) + (IF pipe.records[k].type = "SHB" THEN 16 ELSE 0)
      BY PipeFacts, Zenon
    <3>2. PICK h \in {8, 16, 24}, e \in {0, 16}, d \in {0, 16} :
             /\ h = RecHdrSize(pipe)
             /\ e = (IF pipe.records[i].type = "SHB" THEN 16 ELSE 0)
             /\ d = (IF pipe.records[k].type = "SHB" THEN 16 ELSE 0)
      BY <2>4, Zenon
    <3>3. pipe.records[i].size >= h + e /\ pipe.records[k].size >= h + d
      BY <3>1, <3>2, Zenon
    <3>4. PICK x \in Nat, y \in Nat : x = pipe.records[i].size /\ y = pipe.records[k].size
      BY <2>4, Zenon
    <3>5. x >= h + e /\ y >= h + d
      BY <3>3, <3>4, Zenon
    <3>6. x > 0 /\ y > 0
      BY <3>5
    <3> QED  BY <3>4, <3>6, Zenon
  <2>6. PICK a \in Nat, b \in Nat, x \in Nat, y \in Nat :
           /\ a = pipe.records[i].start /\ x = pipe.records[i].size
           /\ b = pipe.records[k].start /\ y = pipe.records[k].size
    BY <2>4, Zenon
  <2>7. a = b /\ x > 0 /\ y > 0 /\ (i < k => a + x <= b) /\ (k < i => b + y <= a)
    BY <2>2, <2>3, <2>5, <2>6
  <2>8. i \in Int /\ k \in Int
    OBVIOUS
  <2> QED  BY <2>7, <2>8
<1> DEFINE c == CHOOSE i \in 1 .. Len(pipe.records) : Begins(buf, n, pipe.records[i])
<1>2. c \in 1 .. Len(pipe.records) /\ Begins(buf, n, pipe.records[c])
  OBVIOUS
<1>3. c = k
  BY <1>1, <1>2
<1>4. RecordIn(buf, n) = pipe.records[c]
  BY DEF RecordIn
<1> QED  BY <1>3, <1>4

\* What has been delivered are the first records.
LEMMA DeliveredFacts ==
    ASSUME pipe \in Pipes, DeliveredOK
    PROVE  /\ Len(delivered) \in Nat /\ Len(delivered) <= Len(pipe.records)
           /\ Current \in 1 .. Len(pipe.records) + 1 /\ Current - 1 = Len(delivered)
           /\ Start \in Nat
           /\ Len(delivered) > 0 =>
                 Start = pipe.records[Len(delivered)].start + pipe.records[Len(delivered)].size
           /\ Current \in 1 .. Len(pipe.records) => pipe.records[Current].start = Start
<1>1. Len(delivered) \in Nat /\ Len(pipe.records) \in Nat
  BY PipeFacts DEF DeliveredOK
<1>2. Len(delivered) > 0 => Len(delivered) \in 1 .. Len(pipe.records)
  BY <1>1 DEF DeliveredOK, RecordsWhole, Complete
<1>3. Current \in 1 .. Len(pipe.records) + 1 /\ Current - 1 = Len(delivered)
  BY <1>1, <1>2 DEF Current
<1>4. Len(delivered) > 0 =>
         /\ Start = pipe.records[Len(delivered)].start + pipe.records[Len(delivered)].size
         /\ Start \in Nat
  BY <1>1, <1>2, NextStart, PipeFacts DEF Start, Current
<1>5. Len(delivered) = 0 => Start \in Nat
  BY DEF Start, Current, RecordStart, MagicSize, PcapHdrSize
<1> QED  BY <1>1, <1>2, <1>3, <1>4, <1>5, PipeFacts DEF Start

\* There is a record where the pipe does not end with the last one delivered.
LEMMA CurrentExists ==
    ASSUME pipe \in Pipes, DeliveredOK, Start < pipe.total
    PROVE  Current \in 1 .. Len(pipe.records) /\ pipe.records[Current].start = Start
<1>1. Current # Len(pipe.records) + 1
  BY PipeFacts, DeliveredFacts DEF Start
<1> QED  BY <1>1, PipeFacts, DeliveredFacts

\* Until the end of the current record is read, none is complete but those delivered.
LEMMA NoneLeft ==
    ASSUME TypeOK, DeliveredOK,
           Current \in 1 .. Len(pipe.records) =>
              pos < Start + pipe.records[Current].size \/ ~WellFormed(pipe, pipe.records[Current])
    PROVE  \A i \in Complete : i <= Len(delivered)
<1>1. pipe \in Pipes /\ pos \in 0 .. pipe.total
  BY DEF TypeOK
<1> SUFFICES ASSUME NEW i \in Complete, i > Len(delivered) PROVE FALSE
  BY <1>1, PipeFacts, DeliveredFacts DEF Complete
<1>2. /\ i \in 1 .. Len(pipe.records) /\ pipe.records[i].start + pipe.records[i].size <= pos
      /\ WellFormed(pipe, pipe.records[i])
  BY DEF Complete
<1>3. Current \in 1 .. Len(pipe.records) /\ Current <= i /\ pipe.records[Current].start = Start
  BY <1>1, <1>2, DeliveredFacts, PipeFacts
<1>4. CASE i = Current
  BY <1>1, <1>2, <1>3, <1>4, PipeFacts
<1>5. CASE Current < i
  <2>1. WellFormed(pipe, pipe.records[Current])
    BY <1>1, <1>2, <1>3, <1>5, PipeFacts
  <2>2. pipe.records[Current].start + pipe.records[Current].size <= pipe.records[i].start
    BY <1>1, <1>2, <1>3, <1>5, RecordsOrdered
  <2>3. pos < Start + pipe.records[Current].size
    BY <1>3, <2>1
  <2>4. /\ pos \in Nat /\ Start \in Nat /\ pipe.records[Current].size \in Nat
        /\ pipe.records[i].start \in Nat /\ pipe.records[i].size \in Nat
    BY <1>1, <1>2, <1>3, PipeFacts, DeliveredFacts
  <2>5. PICK p \in Nat, s \in Nat, x \in Nat, a \in Nat, y \in Nat :
           /\ p = pos /\ s = Start /\ x = pipe.records[Current].size
           /\ a = pipe.records[i].start /\ y = pipe.records[i].size
    BY <2>4, Zenon
  <2>6. a + y <= p /\ s + x <= a /\ p < s + x
    BY <1>2, <1>3, <2>2, <2>3, <2>5
  <2> QED  BY <2>6
<1> QED  BY <1>1, <1>2, <1>3, <1>4, <1>5, PipeFacts

\* The first bytes of the current record are taken for it.
LEMMA CurrentFound ==
    ASSUME pipe \in Pipes, DeliveredOK, NEW buf, NEW n \in Nat, n > 0, Start + n <= pipe.total,
           Holds(buf, Start, n), 0 .. n - 1 \subseteq DOMAIN buf
    PROVE  /\ Current \in 1 .. Len(pipe.records) /\ pipe.records[Current].start = Start
           /\ RecordIn(buf, n) = pipe.records[Current]
<1>1. Start \in Nat /\ pipe.total \in Nat
  BY PipeFacts, DeliveredFacts
<1>2. Current \in 1 .. Len(pipe.records) /\ pipe.records[Current].start = Start
  BY <1>1, CurrentExists
<1>3. Begins(buf, n, pipe.records[Current])
  BY <1>2 DEF Begins, Holds
<1> QED  BY <1>2, <1>3, RecordFound

\* The blocks of a section are in its byte order.
LEMMA InSection ==
    ASSUME pipe \in Pipes, IsPcapng(pipe), DeliveredOK, Current \in 1 .. Len(pipe.records)
    PROVE  /\ Len(delivered) = 0 => pipe.records[Current].type = "SHB"
           /\ pipe.records[Current].type # "SHB" /\ SectionKnown =>
                 pipe.records[Current].swapped = byte_swapped
<1>1. ByteOrder(pipe)
  BY PipesAssumption
<1>2. Current = Len(delivered) + 1 /\ Len(delivered) \in Nat
  BY DeliveredFacts DEF Current
<1>3. Len(delivered) = 0 => pipe.records[Current].type = "SHB"
  BY <1>1, <1>2 DEF ByteOrder
<1>4. ASSUME SectionKnown PROVE Current > 1 /\ Current - 1 = Len(delivered)
  BY <1>2, <1>4 DEF SectionKnown
<1>5. ASSUME SectionKnown, pipe.records[Current].type # "SHB"
      PROVE  pipe.records[Current].swapped = pipe.records[Current - 1].swapped
  BY <1>1, <1>4, <1>5, Zenon DEF ByteOrder
<1>6. ASSUME SectionKnown, pipe.records[Current].type # "SHB"
      PROVE  pipe.records[Current].swapped = byte_swapped
  <2>1. byte_swapped = pipe.records[Len(delivered)].swapped
    BY <1>6 DEF SectionKnown
  <2> QED  BY <1>4, <1>5, <1>6, <2>1, Zenon
<1> QED  BY <1>3, <1>6

\* The records of a pcap file are in the byte order of its magic number.
LEMMA InFile ==
    ASSUME pipe \in Pipes, ~IsPcapng(pipe), NEW i \in 1 .. Len(pipe.records)
    PROVE  /\ pipe.records[i].type = "data"
           /\ pipe.records[i].swapped = (pipe.magic \in {"swapped", "swapped_modified"})
<1>1. ByteOrder(pipe)
  BY PipesAssumption
<1> QED  BY <1>1, Zenon DEF ByteOrder

\* The length in an adjusted header is the one that the writer means.
LEMMA AdjustedLength ==
    ASSUME pipe \in Pipes, ~IsPcapng(pipe), NEW i \in 1 .. Len(pipe.records)
    PROVE  cap_pipe_adjust_pcap_header(HeaderOf(pipe.records[i])).incl_len = TrueLen(pipe, pipe.records[i])
<1>1. PICK r : r = pipe.records[i]
  OBVIOUS
<1>2. PICK h : h = HeaderOf(r)
  OBVIOUS
<1>3. /\ h \in Header /\ h.incl_len = r.incl_len /\ h.orig_len = r.orig_len
  <2>1. r.type \in BlockTypes /\ r.incl_len \in Nat /\ r.orig_len \in Nat
    BY <1>1, RecordTypes
  <2> QED  BY <1>2, <2>1 DEF HeaderOf, Header
<1>4. cap_pipe_adjust_pcap_header(h).incl_len = TrueLen(pipe, r)
  BY <1>3 DEF cap_pipe_adjust_pcap_header, TrueLen, Header
<1> QED  BY <1>1, <1>2, <1>4

\* Bytes are read, and nothing is delivered.
LEMMA QuietDelivered ==
    ASSUME TypeOK, DeliveredOK, UNCHANGED <<pipe, delivered>>, pos' \in Int, pos <= pos'
    PROVE  DeliveredOK' /\ Start' = Start /\ Current' = Current /\ Len(delivered') = Len(delivered)
<1>1. pos \in Int /\ pipe \in Pipes /\ pipe.total \in Nat
  BY PipeFacts DEF TypeOK
<1>2. \A i \in 1 .. Len(pipe.records) : pipe.records[i].start + pipe.records[i].size \in Int
  BY <1>1, PipeFacts
<1>3. Complete \subseteq Complete'
  BY <1>1, <1>2 DEF Complete
<1>4. delivered' \in Seq(Wholes')
  BY DEF DeliveredOK, Wholes
<1>5. RecordsWhole'
  BY <1>3 DEF DeliveredOK, RecordsWhole
<1>6. Start' = Start /\ Current' = Current
  BY DEF Start, Current
<1> QED  BY <1>4, <1>5, <1>6 DEF DeliveredOK

\* The current record is delivered.
LEMMA OneDelivered ==
    ASSUME TypeOK, DeliveredOK, UNCHANGED pipe, pos' \in Int, pos <= pos',
           Current \in 1 .. Len(pipe.records), WellFormed(pipe, pipe.records[Current]),
           pos' = Start + pipe.records[Current].size,
           delivered' = Append(delivered, Whole(pipe, pipe.records[Current]))
    PROVE  /\ DeliveredOK' /\ Start' = pos'
           /\ Len(delivered') = Current
<1>1. pos \in Int /\ pipe \in Pipes /\ pipe.total \in Nat /\ Current = Len(delivered) + 1
  BY PipeFacts DEF TypeOK, Current
<1>2. pipe.records[Current].start = Start /\ Start \in Nat /\ Len(delivered) \in Nat
  BY <1>1, DeliveredFacts
<1>3. \A i \in 1 .. Len(pipe.records) : pipe.records[i].start + pipe.records[i].size \in Int
  <2>1. \A i \in 1 .. Len(pipe.records) : pipe.records[i].start \in Nat /\ pipe.records[i].size \in Nat
    BY <1>1, PipeFacts, Zenon
  <2> QED  BY <2>1
<1>4. Complete \subseteq Complete' /\ Current \in Complete'
  <2>1. PICK q \in Int : q = pos'
    OBVIOUS
  <2>2. Complete' = {i \in 1 .. Len(pipe.records) : /\ pipe.records[i].start + pipe.records[i].size <= q
                                                   /\ WellFormed(pipe, pipe.records[i])}
    BY <2>1 DEF Complete
  <2>3. Current \in Complete'
    BY <1>1, <1>2, <1>3, <2>1, <2>2
  <2>4. ASSUME NEW i \in Complete PROVE i \in Complete'
    <3>1. /\ i \in 1 .. Len(pipe.records) /\ WellFormed(pipe, pipe.records[i])
          /\ pipe.records[i].start + pipe.records[i].size <= pos
      BY DEF Complete
    <3>2. PICK e \in Int, p \in Int : e = pipe.records[i].start + pipe.records[i].size /\ p = pos
      BY <1>1, <1>3, <3>1, Zenon
    <3>3. e <= p /\ p <= q
      BY <3>1, <3>2, <2>1
    <3>4. e <= q
      BY <3>3
    <3> QED  BY <3>1, <3>2, <3>4, <2>2, Zenon
  <2> QED  BY <2>3, <2>4
<1>5. PICK w : w = Whole(pipe, pipe.records[Current])
  OBVIOUS
<1>6. w \in Wholes
  BY <1>5 DEF Wholes
<1>7. delivered \in Seq(Wholes) /\ Wholes' = Wholes
  BY DEF DeliveredOK, Wholes
<1>8. /\ delivered' \in Seq(Wholes) /\ Len(delivered') = Current /\ delivered'[Current] = w
      /\ \A i \in 1 .. Len(delivered) : delivered'[i] = delivered[i]
  BY <1>1, <1>5, <1>6, <1>7
<1>9. RecordsWhole'
  <2> SUFFICES ASSUME NEW i \in 1 .. Len(delivered')
               PROVE  i \in Complete' /\ delivered'[i] = Whole(pipe, pipe.records[i])
    BY DEF RecordsWhole
  <2>1. CASE i = Current
    BY <1>4, <1>5, <1>8, <2>1
  <2>2. CASE i # Current
    <3>1. i \in 1 .. Len(delivered)
      BY <1>1, <1>2, <1>8, <2>2
    <3> QED  BY <1>4, <1>8, <3>1 DEF DeliveredOK, RecordsWhole
  <2> QED  BY <2>1, <2>2
<1>10. Start' = pos'
  <2>1. Start' = RecordStart(pipe, Current + 1)
    BY <1>8 DEF Start, Current
  <2>2. RecordStart(pipe, Current + 1) = pipe.records[Current].start + pipe.records[Current].size
    BY <1>1, NextStart
  <2> QED  BY <1>2, <2>1, <2>2
<1> QED  BY <1>7, <1>8, <1>9, <1>10 DEF DeliveredOK

\* The inductive invariant.
FrameInv == PipeInv /\ CutInv

\* What the steps below need of the state.
LEMMA FrameTypes ==
    ASSUME FrameInv
    PROVE  /\ TypeOK /\ pipe \in Pipes /\ DeliveredOK /\ PipeInv
           /\ pos \in Nat /\ pos <= pipe.total /\ pipe.total \in Nat
           /\ got \in Nat /\ cap_pipe_bytes_read \in Nat /\ cap_pipe_bytes_to_read \in Nat
           /\ cap_pipe_databuf_size \in Nat /\ cap_pipe_databuf_size >= 24
           /\ DOMAIN cap_pipe_databuf = 0 .. cap_pipe_databuf_size - 1
           /\ DOMAIN rechdr = 0 .. 23
           /\ bh.incl_len \in Nat
           /\ Start \in Nat /\ Len(delivered) \in Nat
<1>1. TypeOK /\ pipe \in Pipes /\ DeliveredOK /\ PipeInv
  BY DEF FrameInv, PipeInv, CutInv, TypeOK
<1>2. pipe.total \in Nat /\ Start \in Nat /\ Len(delivered) \in Nat
  BY <1>1, PipeFacts, DeliveredFacts
<1>3. cap_pipe_databuf_size \in Nat
  BY <1>1, SizesAssumption DEF TypeOK
<1> QED  BY <1>1, <1>2, <1>3 DEF PipeInv, TypeOK, RoomToRead, BuffersNotOverrun, BlockHdrSize, ShbSize

\* What was read before the first record: nothing, or the file header.
LEMMA FirstStart ==
    ASSUME delivered = << >>
    PROVE  Start = IF IsPcapng(pipe) THEN 0 ELSE 24
  BY DEF Start, Current, RecordStart, MagicSize, PcapHdrSize

\* Opening the pipe.
LEMMA ReadMagicCut ==
    ASSUME FrameInv, ReadMagic
    PROVE  CutInv'
<1> USE DEF MagicSize, BlockHdrSize
<1>0. /\ TypeOK /\ pipe \in Pipes /\ DeliveredOK /\ pos \in Nat /\ got \in Nat
      /\ cap_pipe_databuf_size \in Nat /\ cap_pipe_databuf_size >= 24
      /\ DOMAIN cap_pipe_databuf = 0 .. cap_pipe_databuf_size - 1
  BY FrameTypes
<1>1. PICK b \in Chunk(MagicSize - got) :
         /\ pos' = pos + b
         /\ IF got + b < MagicSize
              THEN got' = got + b /\ UNCHANGED <<pc, srcVars>>
              ELSE got' = 0 /\ Identify
  BY DEF ReadMagic
<1>2. /\ pc = "magic" /\ UNCHANGED <<pipe, delivered>>
      /\ delivered = << >> /\ cap_pipe_err = "PIPOK" /\ pos = got /\ got < 4
  BY DEF ReadMagic, FrameInv, CutInv, OpenPos, Opening
<1>3. b \in Nat /\ b <= 4 - got
  BY <1>0, <1>1, ChunkFits
<1>4. DeliveredOK' /\ Start' = Start
  BY <1>0, <1>1, <1>2, <1>3, QuietDelivered
<1>5. CASE got + b < MagicSize
  <2>1. pc' = "magic" /\ pos' = got' /\ got' < 4 /\ cap_pipe_err' = "PIPOK" /\ delivered' = << >>
    BY <1>0, <1>1, <1>2, <1>3, <1>5 DEF srcVars
  <2> QED  BY <1>4, <2>1 DEF CutInv, OpenPos, ReadLoopPos, LoopPos, Opening, InReadLoop
<1>6. CASE ~(got + b < MagicSize)
  <2>1. got' = 0 /\ Identify /\ pos' = 4
    BY <1>0, <1>1, <1>2, <1>3, <1>6
  <2>2. CASE pipe.magic = "unknown"
    <3>1. pc' = "failed"
      BY <2>1, <2>2 DEF Identify
    <3> QED  BY <1>4, <3>1 DEF CutInv, OpenPos, ReadLoopPos, LoopPos, Opening, InReadLoop
  <2>3. CASE pipe.magic # "unknown" /\ IsPcapng(pipe)
    <3>1. /\ pc' = "open_block_hdr"
          /\ cap_pipe_databuf' = [j \in DOMAIN cap_pipe_databuf |->
                                     IF j < 4 THEN j ELSE cap_pipe_databuf[j]]
          /\ cap_pipe_bytes_read' = 4 /\ cap_pipe_bytes_to_read' = 8 /\ cap_pipe_err' = "PIPOK"
      BY <1>2, <2>1, <2>3 DEF Identify
    <3>2. Start' = 0 /\ ReadTo' = 4
      BY <1>2, <1>4, <2>1, <2>3, <3>1, FirstStart DEF ReadTo
    <3>3. Holds(cap_pipe_databuf', Start', ReadTo')
      BY <1>0, <3>1, <3>2 DEF Holds
    <3>4. ReadLoopPos'
      BY <1>2, <2>1, <2>3, <3>1, <3>2, <3>3 DEF ReadLoopPos, IsPcapng
    <3> QED  BY <1>2, <1>4, <3>1, <3>4 DEF CutInv, OpenPos, LoopPos
  <2>4. CASE pipe.magic # "unknown" /\ ~IsPcapng(pipe)
    <3>1. /\ pc' = "open_pcap_hdr" /\ cap_pipe_err' = "PIPOK"
          /\ byte_swapped' = (pipe.magic \in {"swapped", "swapped_modified"})
      BY <1>2, <2>1, <2>4, Zenon DEF Identify
    <3>2. byte_swapped' = (pipe'.magic \in {"swapped", "swapped_modified"})
      BY <1>2, <3>1, Zenon
    <3>3. /\ pc' = "open_pcap_hdr" /\ cap_pipe_err' = "PIPOK" /\ delivered' = << >>
          /\ ~IsPcapng(pipe') /\ pos' = 4 + got' /\ got' < 20
      BY <1>2, <2>1, <2>4, <3>1 DEF IsPcapng
    <3>4. OpenPos'
      BY <3>2, <3>3, Zenon DEF OpenPos, PcapHdrSize
    <3> QED  BY <1>4, <3>3, <3>4 DEF CutInv, ReadLoopPos, LoopPos, InReadLoop
  <2> QED  BY <2>2, <2>3, <2>4
<1> QED  BY <1>5, <1>6

\* The header of a pcap file.
LEMMA ReadPcapHeaderCut ==
    ASSUME FrameInv, ReadPcapHeader
    PROVE  CutInv'
<1> USE DEF MagicSize, PcapHdrSize
<1>0. /\ TypeOK /\ pipe \in Pipes /\ DeliveredOK /\ pos \in Nat /\ got \in Nat
  BY FrameTypes
<1>1. PICK b \in Chunk(PcapHdrSize - got) :
         /\ pos' = pos + b
         /\ IF got + b < PcapHdrSize
              THEN got' = got + b /\ UNCHANGED <<pc, cap_pipe_err>>
              ELSE /\ got' = 0
                   /\ pc' = IF pipe.major < 2 THEN "failed" ELSE "loop"
  BY DEF ReadPcapHeader
<1>2. /\ pc = "open_pcap_hdr" /\ UNCHANGED <<pipe, delivered, byte_swapped, cap_pipe_state>>
      /\ delivered = << >> /\ cap_pipe_err = "PIPOK" /\ pos = 4 + got /\ got < 20
      /\ ~IsPcapng(pipe)
      /\ cap_pipe_state = "STATE_EXPECT_REC_HDR"
  BY DEF ReadPcapHeader, FrameInv, PipeInv, StateMatchesPc, CutInv, OpenPos, Opening
<1>3. b \in Nat /\ b <= 20 - got
  BY <1>0, <1>1, ChunkFits
<1>4. DeliveredOK' /\ Start' = Start
  BY <1>0, <1>1, <1>2, <1>3, QuietDelivered
<1>5. byte_swapped' = (pipe'.magic \in {"swapped", "swapped_modified"})
  <2>1. byte_swapped = (pipe.magic \in {"swapped", "swapped_modified"})
    BY <1>2, Zenon DEF FrameInv, CutInv, OpenPos, Opening
  <2> QED  BY <1>2, <2>1, Zenon
<1>6. ~IsPcapng(pipe')
  BY <1>2 DEF IsPcapng
<1>7. CASE got + b < PcapHdrSize
  <2>1. /\ pc' = "open_pcap_hdr" /\ pos' = 4 + got' /\ got' < 20 /\ cap_pipe_err' = "PIPOK"
        /\ delivered' = << >>
    BY <1>0, <1>1, <1>2, <1>3, <1>7
  <2>2. OpenPos'
    BY <1>5, <1>6, <2>1, Zenon DEF OpenPos
  <2> QED  BY <1>4, <2>1, <2>2 DEF CutInv, ReadLoopPos, LoopPos, InReadLoop
<1>8. CASE ~(got + b < PcapHdrSize)
  <2>1. got' = 0 /\ pos' = 24 /\ pc' \in {"failed", "loop"}
    BY <1>0, <1>1, <1>2, <1>3, <1>8
  <2>2. Start' = 24
    BY <1>2, <1>4, FirstStart
  <2>3. LoopPos'
    <3>1. /\ got' = 0 /\ pos' = Start' /\ cap_pipe_state' = "STATE_EXPECT_REC_HDR"
      BY <1>2, <2>1, <2>2
    <3> QED  BY <1>5, <1>6, <3>1, Zenon DEF LoopPos
  <2> QED  BY <1>4, <2>1, <2>3 DEF CutInv, OpenPos, ReadLoopPos, Opening, InReadLoop
<1> QED  BY <1>7, <1>8

\* The first block header of a pcapng file.
LEMMA OpenShbCut ==
    ASSUME FrameInv, OpenShb
    PROVE  CutInv'
<1> USE DEF BlockHdrSize, ShbSize
<1>0. /\ TypeOK /\ pipe \in Pipes /\ DeliveredOK /\ pos \in Nat /\ got \in Nat
      /\ pos <= pipe.total /\ pipe.total \in Nat /\ Start \in Nat /\ cap_pipe_bytes_read \in Nat
  BY FrameTypes
<1>1. /\ pc = "open_block_hdr" /\ pc' = "open_shb" /\ cap_pipe_bytes_read = 8
      /\ cap_pipe_bytes_to_read' = 24
      /\ UNCHANGED <<pipe, pos, got, cap_pipe_err, cap_pipe_bytes_read, cap_pipe_databuf, delivered>>
      /\ IsPcapng(pipe) /\ cap_pipe_err = "PIPOK" /\ pos = Start + ReadTo
      /\ ReadTo <= 8 /\ Holds(cap_pipe_databuf, Start, ReadTo) /\ delivered = << >>
  BY DEF OpenShb, FrameInv, CutInv, OpenPos, ReadLoopPos, InReadLoop, Opening
<1>2. ReadTo = 8 /\ ReadTo' = 8 /\ got' = 0
  BY <1>0, <1>1 DEF ReadTo
<1>3. DeliveredOK' /\ Start' = Start /\ Current' = Current
  BY <1>0, <1>1, QuietDelivered
<1>4. Current \in 1 .. Len(pipe.records)
  BY <1>0, <1>1, <1>2, CurrentExists
<1>5. pipe.records[Current].type = "SHB"
  BY <1>0, <1>1, <1>4, InSection
<1>6. ReadLoopPos'
  BY <1>0, <1>1, <1>2, <1>3, <1>4, <1>5 DEF ReadLoopPos, IsPcapng
<1> QED  BY <1>1, <1>3, <1>6 DEF CutInv, OpenPos, LoopPos

\* A read appends to what a buffer holds.
LEMMA FilledHolds ==
    ASSUME NEW buf, NEW from \in Nat, NEW n \in Nat, NEW b \in Nat, Holds(buf, from, n),
           0 .. n - 1 \subseteq DOMAIN buf, pos = from + n
    PROVE  Holds(Filled(buf, n, b), from, n + b)
<1> SUFFICES ASSUME NEW j \in 0 .. n + b - 1
             PROVE  Filled(buf, n, b)[j] = from + j
  BY DEF Holds
<1>1. CASE j < n
  <2>1. j \in 0 .. n - 1 /\ j \in DOMAIN buf /\ ~(j \in n .. n + b - 1)
    BY <1>1
  <2>2. Filled(buf, n, b)[j] = buf[j]
    BY <2>1 DEF Filled
  <2> QED  BY <2>1, <2>2 DEF Holds
<1>2. CASE j >= n
  <2>1. j \in n .. n + b - 1
    BY <1>2
  <2>2. Filled(buf, n, b)[j] = pos + (j - n)
    BY <2>1 DEF Filled
  <2> QED  BY <1>2, <2>2
<1> QED  BY <1>1, <1>2

\* A buffer that is grown keeps what it holds.
LEMMA EnsureHolds ==
    ASSUME PipeInv, NEW n \in Lengths, cap_pipe_ensure_databuf_size(n), NEW from, NEW m \in Nat,
           Holds(cap_pipe_databuf, from, m), m <= cap_pipe_databuf_size
    PROVE  Holds(cap_pipe_databuf', from, m)
<1>1. /\ cap_pipe_databuf_size' \in Nat /\ cap_pipe_databuf_size <= cap_pipe_databuf_size'
      /\ DOMAIN cap_pipe_databuf' = 0 .. cap_pipe_databuf_size' - 1
  BY EnsureFits
<1>2. cap_pipe_databuf_size \in Nat /\ DOMAIN cap_pipe_databuf = 0 .. cap_pipe_databuf_size - 1
  BY SizesAssumption DEF PipeInv, TypeOK, BuffersNotOverrun
<1>3. CASE n > cap_pipe_databuf_size
  <2>0. PICK z : z = cap_pipe_databuf_size'
    OBVIOUS
  <2>1. cap_pipe_databuf' = [j \in 0 .. z - 1 |->
           IF j \in DOMAIN cap_pipe_databuf THEN cap_pipe_databuf[j] ELSE NoByte]
    BY <1>3, <2>0 DEF cap_pipe_ensure_databuf_size
  <2>2. ASSUME NEW j \in 0 .. m - 1 PROVE cap_pipe_databuf'[j] = from + j
    <3>1. z \in Int /\ cap_pipe_databuf_size <= z /\ cap_pipe_databuf_size \in Int
      BY <1>1, <1>2, <2>0
    <3>2. PICK y : y = cap_pipe_databuf_size
      OBVIOUS
    <3>3. y \in Int /\ y <= z /\ m <= y /\ m \in Int
      BY <3>1, <3>2
    <3>4. j \in 0 .. z - 1 /\ j \in 0 .. y - 1
      BY <3>1, <3>3
    <3>5. j \in 0 .. z - 1 /\ j \in DOMAIN cap_pipe_databuf
      BY <1>2, <3>2, <3>4
    <3>6. cap_pipe_databuf'[j] = cap_pipe_databuf[j]
      BY <2>1, <3>5
    <3> QED  BY <3>6 DEF Holds
  <2> QED  BY <2>2 DEF Holds
<1>4. CASE ~(n > cap_pipe_databuf_size)
  BY <1>4 DEF cap_pipe_ensure_databuf_size
<1> QED  BY <1>3, <1>4

\* The read loop.
LEMMA ReadLoopCut ==
    ASSUME FrameInv, cap_pipe_read_data_bytes
    PROVE  CutInv'
<1>0. /\ TypeOK /\ pipe \in Pipes /\ DeliveredOK /\ pos \in Nat /\ got \in Nat
      /\ Start \in Nat /\ cap_pipe_bytes_read \in Nat /\ cap_pipe_bytes_to_read \in Nat
      /\ DOMAIN cap_pipe_databuf = 0 .. cap_pipe_databuf_size - 1 /\ cap_pipe_databuf_size \in Nat
  BY FrameTypes
<1>1. PICK b \in Chunk(BytesWanted) :
         /\ pos' = pos + b
         /\ cap_pipe_databuf' = Filled(cap_pipe_databuf, ReadTo, b)
         /\ IF got + b < cap_pipe_bytes_to_read - cap_pipe_bytes_read
              THEN got' = got + b /\ UNCHANGED cap_pipe_bytes_read
              ELSE got' = 0 /\ cap_pipe_bytes_read' = cap_pipe_bytes_read + got + b
  BY DEF cap_pipe_read_data_bytes
<1>2. /\ InReadLoop
      /\ UNCHANGED <<pipe, pc, cap_pipe_state, cap_pipe_err, cap_pipe_bytes_to_read, bh, byte_swapped,
                     delivered>>
  BY DEF cap_pipe_read_data_bytes
<1>3. /\ pos = Start + ReadTo /\ Holds(cap_pipe_databuf, Start, ReadTo)
      /\ ReadTo <= cap_pipe_bytes_to_read /\ cap_pipe_bytes_to_read <= cap_pipe_databuf_size
  BY <1>2 DEF FrameInv, CutInv, ReadLoopPos, PipeInv, RoomToRead
<1>4. BytesWanted \in Int /\ ReadTo \in Nat /\ ReadTo + BytesWanted = cap_pipe_bytes_to_read
  BY <1>0 DEF BytesWanted, ReadTo
<1>5. b \in Nat /\ b <= BytesWanted
  BY <1>0, <1>1, <1>4, ChunkFits
<1>6. /\ ReadTo' = ReadTo + b /\ ReadTo' <= cap_pipe_bytes_to_read
      /\ got' > 0 => ReadTo' < cap_pipe_bytes_to_read
  BY <1>0, <1>1, <1>4, <1>5 DEF ReadTo, BytesWanted
<1>7. DeliveredOK' /\ Start' = Start /\ Current' = Current
  BY <1>0, <1>1, <1>2, <1>5, QuietDelivered
<1>8. Holds(cap_pipe_databuf', Start', ReadTo')
  <2>1. 0 .. ReadTo - 1 \subseteq DOMAIN cap_pipe_databuf
    BY <1>0, <1>3, <1>4
  <2>2. Holds(Filled(cap_pipe_databuf, ReadTo, b), Start, ReadTo + b)
    BY <1>0, <1>3, <1>4, <1>5, <2>1, FilledHolds
  <2> QED  BY <1>1, <1>6, <1>7, <2>2
<1>9. pos' = Start' + ReadTo'
  BY <1>0, <1>1, <1>3, <1>4, <1>5, <1>6, <1>7
<1>10. ReadLoopPos
  BY DEF FrameInv, CutInv
<1>11. (SectionKnown => SectionKnown') /\ (ReadsRecord => ReadsRecord')
  BY <1>2, <1>7 DEF SectionKnown, ReadsRecord
<1>12. ReadLoopPos'
  BY <1>2, <1>6, <1>7, <1>8, <1>9, <1>10, <1>11 DEF ReadLoopPos, InReadLoop
<1>13. OpenPos'
  <2>1. pc' # "magic" /\ pc' # "open_pcap_hdr"
    BY <1>2 DEF InReadLoop
  <2>2. OpenPos
    BY DEF FrameInv, CutInv
  <2> QED  BY <1>2, <2>1, <2>2 DEF OpenPos, Opening
<1> QED  BY <1>2, <1>7, <1>12, <1>13 DEF CutInv, LoopPos, InReadLoop

\* An error, or the end of the pipe.
LEMMA ReadLoopFailsCut ==
    ASSUME FrameInv, ReadLoopFails
    PROVE  CutInv'
<1>1. /\ cap_pipe_err' # "PIPOK" /\ pc' \in {"failed", "loop"}
      /\ UNCHANGED <<pipe, pos, delivered>>
  BY DEF ReadLoopFails, ReadLoopError
<1>2. DeliveredOK'
  BY <1>1, FrameTypes, QuietDelivered
<1> QED  BY <1>1, <1>2 DEF CutInv, OpenPos, ReadLoopPos, LoopPos, Opening, InReadLoop

\* A pcapng block begins.
LEMMA ExpectCut ==
    ASSUME FrameInv, ExpectBlockHeader \/ ExpectBlock
    PROVE  CutInv'
<1>0. /\ TypeOK /\ pipe \in Pipes /\ DeliveredOK /\ pos \in Nat /\ got \in Nat
      /\ Start \in Nat /\ cap_pipe_bytes_read \in Nat /\ cap_pipe_bytes_to_read \in Nat
      /\ bh.incl_len \in Nat
  BY FrameTypes
<1>1. /\ pc = "loop" /\ cap_pipe_err = "PIPOK" /\ IsPcapng(pipe) /\ pc' \in {"block_hdr", "block"}
      /\ UNCHANGED <<pipe, pos, got, cap_pipe_err, bh, byte_swapped, delivered, cap_pipe_databuf>>
  BY DEF ExpectBlockHeader, ExpectBlock, Dispatching, LoopDone
<1>2. got = 0 /\ LoopPos
  BY <1>1 DEF FrameInv, CutInv, LoopPos
<1>3. DeliveredOK' /\ Start' = Start /\ Current' = Current
  BY <1>0, <1>1, QuietDelivered
<1>4. (SectionKnown => SectionKnown') /\ (ReadsRecord => ReadsRecord')
  BY <1>1, <1>3 DEF SectionKnown, ReadsRecord
<1>5. IsPcapng(pipe')
  BY <1>1
<1>6. ReadLoopPos'
  <2>1. CASE ExpectBlockHeader
    <3>1. /\ cap_pipe_state = "STATE_EXPECT_REC_HDR" /\ pc' = "block_hdr"
          /\ cap_pipe_bytes_read' = 0 /\ cap_pipe_bytes_to_read' = 8
      BY <2>1 DEF ExpectBlockHeader, BlockHdrSize
    <3>2. pos' = Start' /\ SectionKnown' /\ ReadTo' = 0
      BY <1>1, <1>2, <1>3, <1>4, <3>1 DEF LoopPos, ReadTo
    <3>3. Holds(cap_pipe_databuf', Start', 0)
      BY DEF Holds
    <3> QED  BY <1>0, <1>1, <1>2, <1>3, <1>5, <3>1, <3>2, <3>3 DEF ReadLoopPos, BlockHdrSize
  <2>2. CASE ExpectBlock
    <3>1. /\ cap_pipe_state = "STATE_EXPECT_DATA" /\ pc' = "block"
          /\ cap_pipe_state' = "STATE_READ_DATA"
          /\ cap_pipe_bytes_read' = cap_pipe_bytes_read /\ cap_pipe_bytes_to_read' = bh.incl_len
      BY <2>2 DEF ExpectBlock, BlockReadFrom
    <3>2. /\ ReadsRecord' /\ ReadTo' = cap_pipe_bytes_read
          /\ pos' = Start' + ReadTo' /\ ReadTo' <= bh.incl_len
          /\ Holds(cap_pipe_databuf', Start', ReadTo')
      BY <1>0, <1>1, <1>2, <1>3, <1>4, <3>1 DEF LoopPos, ReadTo
    <3> QED  BY <1>1, <1>2, <1>5, <3>1, <3>2 DEF ReadLoopPos
  <2> QED  BY <2>1, <2>2
<1> QED  BY <1>1, <1>3, <1>6 DEF CutInv, OpenPos, LoopPos, Opening

\* In the read loop the header of the current record is found.
LEMMA LoopFinds ==
    ASSUME FrameInv, InReadLoop, NEW n \in Nat, n > 0, n <= ReadTo
    PROVE  /\ Current \in 1 .. Len(pipe.records) /\ pipe.records[Current].start = Start
           /\ RecordIn(cap_pipe_databuf, n) = pipe.records[Current]
<1>0. /\ pipe \in Pipes /\ DeliveredOK /\ pos \in Nat /\ pos <= pipe.total /\ pipe.total \in Nat
      /\ got \in Nat /\ Start \in Nat /\ cap_pipe_bytes_read \in Nat /\ cap_pipe_bytes_to_read \in Nat
      /\ DOMAIN cap_pipe_databuf = 0 .. cap_pipe_databuf_size - 1 /\ cap_pipe_databuf_size \in Nat
  BY FrameTypes
<1>1. /\ pos = Start + ReadTo /\ Holds(cap_pipe_databuf, Start, ReadTo)
      /\ ReadTo <= cap_pipe_bytes_to_read /\ cap_pipe_bytes_to_read <= cap_pipe_databuf_size
  BY DEF FrameInv, CutInv, ReadLoopPos, PipeInv, RoomToRead
<1>2. ReadTo \in Nat
  BY <1>0 DEF ReadTo
<1>3. Start + n <= pipe.total /\ 0 .. n - 1 \subseteq DOMAIN cap_pipe_databuf
  BY <1>0, <1>1, <1>2
<1>4. Holds(cap_pipe_databuf, Start, n)
  BY <1>1, <1>2 DEF Holds
<1> QED  BY <1>0, <1>3, <1>4, CurrentFound

\* A block header is read: it is that of the current record.
LEMMA BlockHeaderReadCut ==
    ASSUME FrameInv, BlockHeaderRead
    PROVE  CutInv'
<1> USE DEF BlockHdrSize, ShbSize
<1>0. /\ TypeOK /\ PipeInv /\ pipe \in Pipes /\ DeliveredOK /\ pos \in Nat /\ got \in Nat
      /\ Start \in Nat /\ cap_pipe_bytes_read \in Nat /\ cap_pipe_bytes_to_read \in Nat
      /\ cap_pipe_databuf_size \in Nat /\ cap_pipe_databuf_size >= 24
  BY FrameTypes
<1>1. /\ pc = "block_hdr" /\ cap_pipe_bytes_read = cap_pipe_bytes_to_read
      /\ UNCHANGED <<pipe, pos, got, cap_pipe_bytes_read, byte_swapped, delivered>>
  BY DEF BlockHeaderRead
<1>2. /\ IsPcapng(pipe) /\ cap_pipe_err = "PIPOK" /\ pos = Start + ReadTo /\ ReadTo <= 8
      /\ cap_pipe_bytes_to_read = 8 /\ SectionKnown /\ Holds(cap_pipe_databuf, Start, ReadTo)
      /\ cap_pipe_state = "STATE_READ_REC_HDR"
  BY <1>1 DEF FrameInv, CutInv, ReadLoopPos, InReadLoop, PipeInv, StateMatchesPc
<1>3. ReadTo = 8 /\ got = 0 /\ pos = Start + 8 /\ cap_pipe_bytes_read = 8
  BY <1>0, <1>1, <1>2 DEF ReadTo
<1>4. PICK r : r = pipe.records[Current]
  OBVIOUS
<1>5. Current \in 1 .. Len(pipe.records) /\ RecordIn(cap_pipe_databuf, 8) = r
  BY <1>1, <1>3, <1>4, LoopFinds DEF InReadLoop
<1>6. r.type = "SHB" \/ r.swapped = byte_swapped
  BY <1>0, <1>2, <1>4, <1>5, InSection
<1>7. HeaderIn(cap_pipe_databuf, 8) = HeaderOf(r)
  BY <1>5, <1>6, Zenon DEF HeaderIn
<1>8. PICK h : h = HeaderOf(r)
  OBVIOUS
<1>9. /\ h.type = r.type /\ h.incl_len = r.incl_len /\ h \in Header /\ h.incl_len \in Lengths
      /\ r.incl_len \in Nat
  <2>1. h.type = r.type /\ h.incl_len = r.incl_len
    BY <1>8 DEF HeaderOf
  <2>2. h \in Header /\ h.incl_len \in Lengths
    BY <1>0, <1>7, <1>8, HeaderType
  <2>3. r.incl_len \in Nat
    BY <1>0, <1>4, <1>5, PipeFacts
  <2> QED  BY <2>1, <2>2, <2>3
<1>10. bh' = h
  BY <1>7, <1>8 DEF BlockHeaderRead
<1>11. DeliveredOK' /\ Start' = Start /\ Current' = Current
  BY <1>0, <1>1, QuietDelivered
<1>12. CASE r.type = "SHB"
  <2>1. /\ pc' = "shb" /\ cap_pipe_bytes_to_read' = 24
        /\ UNCHANGED <<cap_pipe_err, cap_pipe_databuf>>
    BY <1>7, <1>8, <1>9, <1>12 DEF BlockHeaderRead
  <2>2. ReadTo' = ReadTo /\ IsPcapng(pipe')
    BY <1>1, <1>2 DEF ReadTo
  <2>3. ReadLoopPos'
    BY <1>1, <1>2, <1>3, <1>4, <1>5, <1>11, <1>12, <2>1, <2>2 DEF ReadLoopPos
  <2> QED  BY <1>11, <2>1, <2>3 DEF CutInv, OpenPos, LoopPos, Opening
<1>13. CASE r.type # "SHB"
  <2>1. /\ pc' = "loop" /\ cap_pipe_err' = BlockError(h)
        /\ IF BlockError(h) = "PIPERR"
             THEN UNCHANGED <<cap_pipe_databuf_size, cap_pipe_databuf>>
             ELSE cap_pipe_ensure_databuf_size(h.incl_len)
        /\ cap_pipe_state' = IF BlockError(h) = "PIPOK" THEN "STATE_EXPECT_DATA" ELSE cap_pipe_state
    BY <1>7, <1>8, <1>9, <1>13 DEF BlockHeaderRead
  <2>2. CASE BlockError(h) # "PIPOK"
    BY <1>11, <2>1, <2>2 DEF CutInv, OpenPos, LoopPos, ReadLoopPos, Opening, InReadLoop
  <2>3. CASE BlockError(h) = "PIPOK"
    <3>1. WellFormed(pipe, r) /\ TrueLen(pipe, r) = r.incl_len /\ 8 <= r.incl_len
      <4>1. /\ r.incl_len % 4 = 0 /\ ~(r.type = "data" /\ r.incl_len > MaxPktSize)
            /\ ~(r.incl_len < 12)
        BY <1>9, <2>3 DEF BlockError, TrailerSize
      <4>2. MaxPktSize \in Nat
        BY SizesAssumption
      <4> QED  BY <1>2, <1>9, <1>13, <4>1, <4>2 DEF WellFormed, TrueLen, TrailerSize
    <3>2. Holds(cap_pipe_databuf', Start', 8)
      <4>1. cap_pipe_ensure_databuf_size(h.incl_len)
        BY <2>1, <2>3
      <4>2. Holds(cap_pipe_databuf, Start, 8) /\ 8 <= cap_pipe_databuf_size
        BY <1>0, <1>2, <1>3
      <4>3. Holds(cap_pipe_databuf', Start, 8)
        BY <1>0, <1>9, <4>1, <4>2, EnsureHolds
      <4> QED  BY <1>11, <4>3
    <3>3. ReadsRecord'
      <4>1. byte_swapped' = pipe'.records[Current'].swapped
        BY <1>1, <1>4, <1>6, <1>11, <1>13
      <4>2. bh'.incl_len = TrueLen(pipe', pipe'.records[Current'])
        BY <1>1, <1>4, <1>9, <1>10, <1>11, <3>1
      <4>3. Current' \in 1 .. Len(pipe'.records) /\ WellFormed(pipe', pipe'.records[Current'])
        BY <1>1, <1>4, <1>5, <1>11, <3>1
      <4> QED  BY <4>1, <4>2, <4>3 DEF ReadsRecord
    <3>4. LoopPos'
      BY <1>1, <1>2, <1>3, <1>9, <1>10, <1>11, <2>1, <2>3, <3>1, <3>2, <3>3 DEF LoopPos
    <3> QED  BY <1>11, <2>1, <3>4 DEF CutInv, OpenPos, ReadLoopPos, Opening, InReadLoop
  <2> QED  BY <2>2, <2>3
<1> QED  BY <1>12, <1>13

\* The fixed part of a section header is read.
LEMMA ReadShbCut ==
    ASSUME FrameInv, pcapng_read_shb
    PROVE  CutInv'
<1> USE DEF BlockHdrSize, ShbSize
<1>0. /\ TypeOK /\ PipeInv /\ pipe \in Pipes /\ DeliveredOK /\ pos \in Nat /\ got \in Nat
      /\ Start \in Nat /\ cap_pipe_bytes_read \in Nat /\ cap_pipe_bytes_to_read \in Nat
      /\ cap_pipe_databuf_size \in Nat /\ cap_pipe_databuf_size >= 24
  BY FrameTypes
<1>1. /\ pc \in {"open_shb", "shb"} /\ cap_pipe_bytes_read = cap_pipe_bytes_to_read
      /\ UNCHANGED <<pipe, pos, got, cap_pipe_bytes_read, delivered>>
  BY DEF pcapng_read_shb
<1>2. /\ IsPcapng(pipe) /\ cap_pipe_err = "PIPOK" /\ pos = Start + ReadTo /\ ReadTo <= 24
      /\ cap_pipe_bytes_to_read = 24 /\ Holds(cap_pipe_databuf, Start, ReadTo)
      /\ pipe.records[Current].type = "SHB"
  BY <1>1 DEF FrameInv, CutInv, ReadLoopPos, InReadLoop
<1>3. ReadTo = 24 /\ got = 0 /\ pos = Start + 24 /\ cap_pipe_bytes_read = 24
  BY <1>0, <1>1, <1>2 DEF ReadTo
<1>4. PICK r : r = pipe.records[Current]
  OBVIOUS
<1>5. Current \in 1 .. Len(pipe.records) /\ RecordIn(cap_pipe_databuf, 24) = r
  BY <1>1, <1>3, <1>4, LoopFinds DEF InReadLoop
<1>6. r.incl_len \in Nat /\ r.incl_len \in Lengths
  BY <1>0, <1>4, <1>5, PipeFacts DEF Lengths
<1>7. DeliveredOK' /\ Start' = Start /\ Current' = Current
  BY <1>0, <1>1, QuietDelivered
<1>8. PICK sane : sane = (ShbAccepted(r) /\ r.incl_len >= 28)
  OBVIOUS
<1>9. /\ r.magic_ok /\ (r.swapped => pipe.passthrough) => byte_swapped' = SectionOrder(r) /\ bh' = HeaderOf(r)
      /\ ShbAccepted(r) => cap_pipe_ensure_databuf_size(r.incl_len)
      /\ pc' = IF (ShbAccepted(r) /\ r.incl_len >= 24 + TrailerSize) \/ pc = "shb" THEN "loop" ELSE "failed"
      /\ cap_pipe_err' = IF ShbAccepted(r) /\ r.incl_len >= 24 + TrailerSize THEN cap_pipe_err ELSE "PIPERR"
      /\ cap_pipe_state' = IF ShbAccepted(r) /\ r.incl_len >= 24 + TrailerSize
                           THEN "STATE_EXPECT_DATA" ELSE cap_pipe_state
  <2>1. /\ RecordIn(cap_pipe_databuf, BlockHdrSize + ShbSize) = r
        /\ BlockHdrSize + ShbSize = 24
    BY <1>5
  <2> QED  BY <2>1 DEF pcapng_read_shb
<1>10. CASE ~(ShbAccepted(r) /\ r.incl_len >= 24 + TrailerSize)
  <2>1. cap_pipe_err' = "PIPERR" /\ pc' \in {"loop", "failed"}
    BY <1>9, <1>10
  <2> QED  BY <1>7, <2>1 DEF CutInv, OpenPos, ReadLoopPos, LoopPos, Opening, InReadLoop
<1>11. CASE ShbAccepted(r) /\ r.incl_len >= 24 + TrailerSize
  <2>1. /\ pc' = "loop" /\ cap_pipe_state' = "STATE_EXPECT_DATA"
        /\ cap_pipe_ensure_databuf_size(r.incl_len) /\ bh' = HeaderOf(r)
    BY <1>9, <1>11 DEF ShbAccepted
  <2>2. byte_swapped' = r.swapped
    BY <1>9, <1>11 DEF ShbAccepted, SectionOrder
  <2>3. bh'.incl_len = r.incl_len
    BY <2>1 DEF HeaderOf
  <2>4. WellFormed(pipe, r) /\ TrueLen(pipe, r) = r.incl_len /\ 24 <= r.incl_len
    BY <1>2, <1>4, <1>6, <1>11 DEF WellFormed, TrueLen, ShbAccepted, TrailerSize
  <2>5. Holds(cap_pipe_databuf', Start', 24)
    <3>1. Holds(cap_pipe_databuf, Start, 24)
      BY <1>2, <1>3
    <3>2. Holds(cap_pipe_databuf', Start, 24)
      BY <1>0, <1>6, <2>1, <3>1, EnsureHolds
    <3> QED  BY <1>7, <3>2
  <2>6. ReadsRecord'
    BY <1>1, <1>4, <1>5, <1>7, <2>2, <2>3, <2>4 DEF ReadsRecord
  <2>7. LoopPos'
    BY <1>1, <1>2, <1>3, <1>7, <2>1, <2>3, <2>4, <2>5, <2>6 DEF LoopPos
  <2> QED  BY <1>7, <2>1, <2>7 DEF CutInv, OpenPos, ReadLoopPos, Opening, InReadLoop
<1> QED  BY <1>10, <1>11

\* A block is delivered.
LEMMA BlockReadCut ==
    ASSUME FrameInv, BlockRead
    PROVE  CutInv'
<1>0. /\ TypeOK /\ PipeInv /\ pipe \in Pipes /\ DeliveredOK /\ pos \in Nat /\ got \in Nat
      /\ Start \in Nat /\ cap_pipe_bytes_read \in Nat /\ cap_pipe_bytes_to_read \in Nat
  BY FrameTypes
<1>1. /\ pc = "block" /\ cap_pipe_bytes_read = cap_pipe_bytes_to_read /\ pc' = "loop"
      /\ cap_pipe_state' = "STATE_EXPECT_REC_HDR"
      /\ UNCHANGED <<pipe, pos, got, cap_pipe_err, byte_swapped>>
      /\ delivered' = Append(delivered, [j \in 0 .. bh.incl_len - 1 |-> cap_pipe_databuf[j]])
  BY DEF BlockRead
<1>2. /\ IsPcapng(pipe) /\ cap_pipe_err = "PIPOK" /\ pos = Start + ReadTo
      /\ ReadTo <= cap_pipe_bytes_to_read /\ Holds(cap_pipe_databuf, Start, ReadTo)
      /\ ReadsRecord /\ cap_pipe_bytes_to_read = bh.incl_len
  BY <1>1 DEF FrameInv, CutInv, ReadLoopPos, InReadLoop
<1>3. PICK r : r = pipe.records[Current]
  OBVIOUS
<1>4. /\ Current \in 1 .. Len(pipe.records) /\ WellFormed(pipe, r)
      /\ bh.incl_len = TrueLen(pipe, r) /\ byte_swapped = r.swapped
  BY <1>2, <1>3 DEF ReadsRecord
<1>5. r.size = bh.incl_len /\ r.start = Start
  BY <1>0, <1>2, <1>3, <1>4, PipeFacts, DeliveredFacts
<1>6. ReadTo = r.size /\ got = 0 /\ pos = Start + r.size
  BY <1>0, <1>1, <1>2, <1>5 DEF ReadTo
<1>7. [j \in 0 .. bh.incl_len - 1 |-> cap_pipe_databuf[j]] = Whole(pipe, r)
  BY <1>2, <1>5, <1>6 DEF Whole, Holds
<1>8. DeliveredOK' /\ Start' = pos' /\ Len(delivered') = Current
  BY <1>0, <1>1, <1>3, <1>4, <1>6, <1>7, OneDelivered
<1>9. SectionKnown'
  BY <1>1, <1>3, <1>4, <1>8 DEF SectionKnown
<1>10. LoopPos'
  BY <1>1, <1>2, <1>6, <1>8, <1>9 DEF LoopPos
<1> QED  BY <1>1, <1>8, <1>10 DEF CutInv, OpenPos, ReadLoopPos, Opening, InReadLoop

\* The dispatcher of a pcap pipe is called, and reads a part of the header or of the data.
LEMMA PcapFacts ==
    ASSUME FrameInv, Dispatching, ~IsPcapng(pipe)
    PROVE  /\ pc = "loop" /\ cap_pipe_err = "PIPOK" /\ LoopPos /\ got = 0
           /\ RecHdrSize(pipe) \in Nat /\ RecHdrSize(pipe) <= 24 /\ RecHdrSize(pipe) > 0
           /\ cap_pipe_state \in {"STATE_EXPECT_REC_HDR", "STATE_READ_REC_HDR"} =>
                 /\ HeaderReadFrom \in Nat /\ pos = Start + HeaderReadFrom
                 /\ HeaderReadFrom < RecHdrSize(pipe)
                 /\ Holds(rechdr, Start, HeaderReadFrom)
           /\ cap_pipe_state \in {"STATE_EXPECT_DATA", "STATE_READ_DATA"} =>
                 /\ ReadsRecord
                 /\ DataReadFrom \in Nat /\ pos = Start + RecHdrSize(pipe) + DataReadFrom
                 /\ DataReadFrom < bh.incl_len
                 /\ Holds(cap_pipe_databuf, Start + RecHdrSize(pipe), DataReadFrom)
<1>0. /\ pipe \in Pipes /\ pos \in Nat /\ Start \in Nat /\ cap_pipe_bytes_read \in Nat
  BY FrameTypes
<1>1. pc = "loop" /\ cap_pipe_err = "PIPOK" /\ LoopPos /\ got = 0
  BY DEF Dispatching, LoopDone, FrameInv, CutInv, LoopPos
<1>2. RecHdrSize(pipe) \in Nat /\ RecHdrSize(pipe) <= 24 /\ RecHdrSize(pipe) > 0
  BY <1>0, PipeFacts
<1>3. CASE cap_pipe_state = "STATE_EXPECT_REC_HDR"
  <2>1. HeaderReadFrom = 0 /\ pos = Start
    BY <1>1, <1>3 DEF HeaderReadFrom, LoopPos
  <2>2. Holds(rechdr, Start, 0)
    BY DEF Holds
  <2> QED  BY <1>0, <1>1, <1>2, <1>3, <2>1, <2>2
<1>4. CASE cap_pipe_state = "STATE_READ_REC_HDR"
  <2>1. HeaderReadFrom = cap_pipe_bytes_read
    BY <1>4 DEF HeaderReadFrom
  <2>2. /\ pos = Start + cap_pipe_bytes_read /\ cap_pipe_bytes_read < RecHdrSize(pipe)
        /\ Holds(rechdr, Start, cap_pipe_bytes_read)
    BY <1>1, <1>4 DEF LoopPos
  <2> QED  BY <1>0, <1>1, <1>2, <1>4, <2>1, <2>2
<1>5. CASE cap_pipe_state = "STATE_EXPECT_DATA"
  <2>1. DataReadFrom = 0 /\ pos = Start + RecHdrSize(pipe) /\ ReadsRecord /\ bh.incl_len > 0
    BY <1>1, <1>5 DEF DataReadFrom, LoopPos
  <2>2. Holds(cap_pipe_databuf, Start + RecHdrSize(pipe), 0)
    BY DEF Holds
  <2> QED  BY <1>0, <1>1, <1>2, <1>5, <2>1, <2>2
<1>6. CASE cap_pipe_state = "STATE_READ_DATA"
  <2>1. DataReadFrom = cap_pipe_bytes_read
    BY <1>6 DEF DataReadFrom
  <2>2. /\ ReadsRecord /\ cap_pipe_bytes_read < bh.incl_len
        /\ pos = Start + RecHdrSize(pipe) + cap_pipe_bytes_read
        /\ Holds(cap_pipe_databuf, Start + RecHdrSize(pipe), cap_pipe_bytes_read)
    BY <1>1, <1>6 DEF LoopPos
  <2> QED  BY <1>0, <1>1, <1>2, <1>6, <2>1, <2>2
<1>7. cap_pipe_state \in States
  BY DEF FrameInv, PipeInv, TypeOK
<1> QED  BY <1>1, <1>2, <1>3, <1>4, <1>5, <1>6, <1>7 DEF States

\* The byte order of a pcap file does not change.
LEMMA FileOrder ==
    ASSUME FrameInv, Dispatching, ~IsPcapng(pipe), UNCHANGED <<pipe, byte_swapped>>
    PROVE  byte_swapped' = (pipe'.magic \in {"swapped", "swapped_modified"}) /\ ~IsPcapng(pipe')
<1>1. pc = "loop" /\ cap_pipe_err = "PIPOK" /\ LoopPos
  BY PcapFacts
<1>2. byte_swapped = (pipe.magic \in {"swapped", "swapped_modified"})
  BY <1>1, Zenon DEF LoopPos
<1>3. byte_swapped' = (pipe'.magic \in {"swapped", "swapped_modified"})
  BY <1>2, Zenon
<1> QED  BY <1>3

\* A part of a record header is read.
LEMMA ReadRecordHeaderCut ==
    ASSUME FrameInv, ReadRecordHeader
    PROVE  CutInv'
<1>0. /\ TypeOK /\ PipeInv /\ pipe \in Pipes /\ DeliveredOK /\ pos \in Nat
      /\ Start \in Nat /\ pipe.total \in Nat /\ DOMAIN rechdr = 0 .. 23
  BY FrameTypes
<1>1. /\ Dispatching /\ ~IsPcapng(pipe)
      /\ cap_pipe_state \in {"STATE_EXPECT_REC_HDR", "STATE_READ_REC_HDR"}
      /\ UNCHANGED <<pipe, pc, got, byte_swapped>>
  BY DEF ReadRecordHeader
<1>2. PICK n : n = RecHdrSize(pipe)
  OBVIOUS
<1>3. PICK f : f = HeaderReadFrom
  OBVIOUS
<1>4. PICK b \in Chunk(n - f) :
         /\ pos' = pos + b
         /\ rechdr' = Filled(rechdr, f, b)
         /\ cap_pipe_bytes_read' = f + b
         /\ IF f + b < n
              THEN cap_pipe_state' = "STATE_READ_REC_HDR" /\ UNCHANGED <<cap_pipe_err, delivered>>
              ELSE RecordHeaderRead(cap_pipe_adjust_pcap_header(HeaderIn(rechdr', n)))
  BY <1>2, <1>3 DEF ReadRecordHeader
<1>5. /\ pc = "loop" /\ cap_pipe_err = "PIPOK" /\ got = 0
      /\ n \in Nat /\ n <= 24 /\ n > 0 /\ f \in Nat /\ pos = Start + f /\ f < n
      /\ Holds(rechdr, Start, f)
  BY <1>1, <1>2, <1>3, PcapFacts
<1>6. b \in Nat /\ b <= n - f /\ pos' <= pipe.total
  BY <1>0, <1>4, <1>5, ChunkFits
<1>7. pos' \in Int /\ pos <= pos' /\ pos' = Start + (f + b)
  BY <1>0, <1>4, <1>5, <1>6
<1>8. Holds(rechdr', Start, f + b)
  <2>1. 0 .. f - 1 \subseteq DOMAIN rechdr
    BY <1>0, <1>5
  <2>2. Holds(Filled(rechdr, f, b), Start, f + b)
    BY <1>0, <1>5, <1>6, <2>1, FilledHolds
  <2> QED  BY <1>4, <2>2
<1>9. byte_swapped' = (pipe'.magic \in {"swapped", "swapped_modified"}) /\ ~IsPcapng(pipe')
  BY <1>1, FileOrder
<1>10. RecHdrSize(pipe') = n
  BY <1>1, <1>2
<1>11. CASE f + b < n
  <2>1. cap_pipe_state' = "STATE_READ_REC_HDR" /\ UNCHANGED <<cap_pipe_err, delivered>>
    BY <1>4, <1>11
  <2>2. DeliveredOK' /\ Start' = Start
    BY <1>0, <1>1, <1>7, <2>1, QuietDelivered
  <2>3. /\ pos' = Start' + cap_pipe_bytes_read' /\ cap_pipe_bytes_read' < RecHdrSize(pipe')
        /\ Holds(rechdr', Start', cap_pipe_bytes_read') /\ got' = 0
    BY <1>1, <1>4, <1>5, <1>7, <1>8, <1>10, <1>11, <2>2
  <2>4. LoopPos'
    BY <1>9, <2>1, <2>3, Zenon DEF LoopPos
  <2> QED  BY <1>1, <1>5, <2>2, <2>4 DEF CutInv, OpenPos, ReadLoopPos, Opening, InReadLoop
<1>12. CASE ~(f + b < n)
  <2>1. f + b = n /\ pos' = Start + n /\ Start + n <= pipe.total
    BY <1>0, <1>5, <1>6, <1>7, <1>12
  <2>2. 0 .. n - 1 \subseteq DOMAIN rechdr'
    <3>1. DOMAIN rechdr' = 0 .. 23
      BY <1>0, PcapInv DEF PipeInv, BuffersNotOverrun
    <3> QED  BY <1>5, <3>1
  <2>3. PICK r : r = pipe.records[Current]
    OBVIOUS
  <2>4. Current \in 1 .. Len(pipe.records) /\ r.start = Start /\ RecordIn(rechdr', n) = r
    BY <1>0, <1>5, <1>8, <2>1, <2>2, <2>3, CurrentFound
  <2>5. r.swapped = byte_swapped
    <3>1. r.swapped = (pipe.magic \in {"swapped", "swapped_modified"})
      BY <1>0, <1>1, <2>3, <2>4, InFile
    <3>2. byte_swapped = (pipe.magic \in {"swapped", "swapped_modified"})
      BY <1>1, <1>9, Zenon
    <3> QED  BY <3>1, <3>2, Zenon
  <2>6. HeaderIn(rechdr', n) = HeaderOf(r)
    BY <2>4, <2>5, Zenon DEF HeaderIn
  <2>7. PICK h : h = cap_pipe_adjust_pcap_header(HeaderOf(r))
    OBVIOUS
  <2>8. h.incl_len = TrueLen(pipe, r)
    BY <1>0, <1>1, <2>3, <2>4, <2>7, AdjustedLength
  <2>9. RecordHeaderRead(h)
    BY <1>4, <1>12, <2>6, <2>7
  <2>10. TrueLen(pipe, r) \in Nat /\ MaxPktSize \in Nat
    BY <1>0, <2>3, <2>4, PipeFacts, SizesAssumption DEF TrueLen
  <2>11. CASE h.incl_len > MaxPktSize
    <3>1. cap_pipe_err' = "PIPERR" /\ UNCHANGED delivered
      BY <2>9, <2>11 DEF RecordHeaderRead
    <3>2. DeliveredOK'
      BY <1>0, <1>1, <1>7, <3>1, QuietDelivered
    <3> QED  BY <1>1, <1>5, <3>1, <3>2 DEF CutInv, OpenPos, ReadLoopPos, LoopPos, Opening, InReadLoop
  <2>12. CASE ~(h.incl_len > MaxPktSize)
    <3>1. WellFormed(pipe, r)
      BY <1>1, <2>8, <2>10, <2>12 DEF WellFormed
    <3>2. bh' = h /\ UNCHANGED cap_pipe_err
      BY <2>9, <2>12 DEF RecordHeaderRead
    <3>3. CASE h.incl_len > 0
      <4>1. cap_pipe_state' = "STATE_EXPECT_DATA" /\ UNCHANGED delivered
        BY <2>9, <2>12, <3>3 DEF RecordHeaderRead
      <4>2. DeliveredOK' /\ Start' = Start /\ Current' = Current
        BY <1>0, <1>1, <1>7, <4>1, QuietDelivered
      <4>3. ReadsRecord'
        <5>1. byte_swapped' = pipe'.records[Current'].swapped
          BY <1>1, <2>3, <2>5, <4>2
        <5>2. bh'.incl_len = TrueLen(pipe', pipe'.records[Current'])
          BY <1>1, <2>3, <2>8, <3>2, <4>2
        <5>3. Current' \in 1 .. Len(pipe'.records) /\ WellFormed(pipe', pipe'.records[Current'])
          BY <1>1, <2>3, <2>4, <3>1, <4>2
        <5> QED  BY <5>1, <5>2, <5>3 DEF ReadsRecord
      <4>4. bh'.incl_len > 0 /\ pos' = Start' + RecHdrSize(pipe') /\ got' = 0
        BY <1>1, <1>5, <1>10, <2>1, <3>2, <3>3, <4>2
      <4>5. LoopPos'
        BY <1>9, <4>1, <4>3, <4>4, Zenon DEF LoopPos
      <4> QED  BY <1>1, <1>5, <4>2, <4>5 DEF CutInv, OpenPos, ReadLoopPos, Opening, InReadLoop
    <3>4. CASE ~(h.incl_len > 0)
      <4>1. /\ cap_pipe_state' = "STATE_EXPECT_REC_HDR"
            /\ delivered' = Append(delivered, [j \in 0 .. 0 - 1 |-> cap_pipe_databuf[j]])
        BY <2>9, <2>12, <3>4 DEF RecordHeaderRead, Deliver
      <4>2. TrueLen(pipe, r) = 0
        BY <2>8, <2>10, <3>4
      <4>3. [j \in 0 .. 0 - 1 |-> cap_pipe_databuf[j]] = Whole(pipe, r)
        BY <1>1, <4>2 DEF Whole
      <4>4. r.size = n
        <5>1. r.size = TrueLen(pipe, r) + RecHdrSize(pipe)
          BY <1>0, <1>1, <2>3, <2>4, <3>1, PipeFacts
        <5> QED  BY <1>2, <1>5, <4>2, <5>1
      <4>5. DeliveredOK' /\ Start' = pos'
        BY <1>0, <1>1, <1>7, <2>1, <2>3, <2>4, <3>1, <4>1, <4>3, <4>4, OneDelivered
      <4>6. LoopPos'
        <5>1. got' = 0 /\ pos' = Start'
          BY <1>1, <1>5, <4>5
        <5> QED  BY <1>9, <4>1, <5>1, Zenon DEF LoopPos
      <4> QED  BY <1>1, <1>5, <4>5, <4>6 DEF CutInv, OpenPos, ReadLoopPos, Opening, InReadLoop
    <3> QED  BY <3>3, <3>4
  <2> QED  BY <2>11, <2>12
<1> QED  BY <1>11, <1>12

\* A part of the data of a record is read.
LEMMA ReadRecordDataCut ==
    ASSUME FrameInv, ReadRecordData
    PROVE  CutInv'
<1>0. /\ TypeOK /\ PipeInv /\ pipe \in Pipes /\ DeliveredOK /\ pos \in Nat
      /\ Start \in Nat /\ bh.incl_len \in Nat /\ cap_pipe_databuf_size \in Nat
      /\ DOMAIN cap_pipe_databuf = 0 .. cap_pipe_databuf_size - 1
  BY FrameTypes
<1>1. /\ Dispatching /\ ~IsPcapng(pipe)
      /\ cap_pipe_state \in {"STATE_EXPECT_DATA", "STATE_READ_DATA"}
      /\ UNCHANGED <<pipe, pc, got, byte_swapped, bh, cap_pipe_err>>
  BY DEF ReadRecordData
<1>2. PICK n : n = RecHdrSize(pipe)
  OBVIOUS
<1>3. PICK f : f = DataReadFrom
  OBVIOUS
<1>4. PICK b \in Chunk(bh.incl_len - f) :
         /\ pos' = pos + b
         /\ cap_pipe_databuf' = Filled(cap_pipe_databuf, f, b)
         /\ cap_pipe_bytes_read' = f + b
         /\ IF f + b < bh.incl_len
              THEN cap_pipe_state' = "STATE_READ_DATA" /\ UNCHANGED delivered
              ELSE /\ cap_pipe_state' = "STATE_EXPECT_REC_HDR"
                   /\ Deliver(bh.incl_len, cap_pipe_databuf')
  BY <1>3 DEF ReadRecordData
<1>5. /\ pc = "loop" /\ cap_pipe_err = "PIPOK" /\ got = 0 /\ ReadsRecord
      /\ n \in Nat /\ f \in Nat /\ pos = Start + n + f /\ f < bh.incl_len
      /\ Holds(cap_pipe_databuf, Start + n, f)
  BY <1>1, <1>2, <1>3, PcapFacts
<1>6. b \in Nat /\ b <= bh.incl_len - f
  BY <1>0, <1>4, <1>5, ChunkFits
<1>7. pos' \in Int /\ pos <= pos' /\ pos' = Start + n + (f + b)
  BY <1>0, <1>4, <1>5, <1>6
<1>8. bh.incl_len <= cap_pipe_databuf_size
  BY <1>1 DEF FrameInv, PipeInv, RoomForData
<1>9. Holds(cap_pipe_databuf', Start + n, f + b)
  <2>1. 0 .. f - 1 \subseteq DOMAIN cap_pipe_databuf
    BY <1>0, <1>5, <1>8
  <2>2. Start + n \in Nat /\ pos = (Start + n) + f
    BY <1>0, <1>5
  <2>3. Holds(Filled(cap_pipe_databuf, f, b), Start + n, f + b)
    BY <1>5, <1>6, <2>1, <2>2, FilledHolds
  <2> QED  BY <1>4, <2>3
<1>10. byte_swapped' = (pipe'.magic \in {"swapped", "swapped_modified"}) /\ ~IsPcapng(pipe')
  BY <1>1, FileOrder
<1>11. RecHdrSize(pipe') = n
  BY <1>1, <1>2
<1>12. CASE f + b < bh.incl_len
  <2>1. cap_pipe_state' = "STATE_READ_DATA" /\ UNCHANGED delivered
    BY <1>4, <1>12
  <2>2. DeliveredOK' /\ Start' = Start /\ Current' = Current
    BY <1>0, <1>1, <1>7, <2>1, QuietDelivered
  <2>3. ReadsRecord'
    BY <1>1, <1>5, <2>2 DEF ReadsRecord
  <2>4. /\ pos' = Start' + RecHdrSize(pipe') + cap_pipe_bytes_read'
        /\ cap_pipe_bytes_read' < bh'.incl_len /\ got' = 0
        /\ Holds(cap_pipe_databuf', Start' + RecHdrSize(pipe'), cap_pipe_bytes_read')
    BY <1>1, <1>4, <1>5, <1>7, <1>9, <1>11, <1>12, <2>2
  <2>5. LoopPos'
    BY <1>10, <2>1, <2>3, <2>4, Zenon DEF LoopPos
  <2> QED  BY <1>1, <1>5, <2>2, <2>5 DEF CutInv, OpenPos, ReadLoopPos, Opening, InReadLoop
<1>13. CASE ~(f + b < bh.incl_len)
  <2>1. f + b = bh.incl_len
    BY <1>0, <1>5, <1>6, <1>13
  <2>2. PICK r : r = pipe.records[Current]
    OBVIOUS
  <2>3. /\ Current \in 1 .. Len(pipe.records) /\ WellFormed(pipe, r)
        /\ bh.incl_len = TrueLen(pipe, r)
    BY <1>5, <2>2 DEF ReadsRecord
  <2>4. r.size = bh.incl_len + n /\ r.start = Start
    BY <1>0, <1>1, <1>2, <2>2, <2>3, PipeFacts, DeliveredFacts
  <2>5. pos' = Start + r.size
    BY <1>0, <1>5, <1>7, <2>1, <2>4
  <2>6. /\ cap_pipe_state' = "STATE_EXPECT_REC_HDR"
        /\ delivered' = Append(delivered, [j \in 0 .. bh.incl_len - 1 |-> cap_pipe_databuf'[j]])
    BY <1>4, <1>13 DEF Deliver
  <2>7. [j \in 0 .. bh.incl_len - 1 |-> cap_pipe_databuf'[j]] = Whole(pipe, r)
    <3>1. \A j \in 0 .. bh.incl_len - 1 : cap_pipe_databuf'[j] = r.start + n + j
      BY <1>9, <2>1, <2>4 DEF Holds
    <3>2. Whole(pipe, r) = [j \in 0 .. bh.incl_len - 1 |-> r.start + n + j]
      BY <1>1, <1>2, <2>3 DEF Whole
    <3> QED  BY <3>1, <3>2
  <2>8. DeliveredOK' /\ Start' = pos'
    BY <1>0, <1>1, <1>7, <2>2, <2>3, <2>5, <2>6, <2>7, OneDelivered
  <2>9. LoopPos'
    <3>1. got' = 0 /\ pos' = Start'
      BY <1>1, <1>5, <2>8
    <3> QED  BY <1>10, <2>6, <3>1, Zenon DEF LoopPos
  <2> QED  BY <1>1, <1>5, <2>8, <2>9 DEF CutInv, OpenPos, ReadLoopPos, Opening, InReadLoop
<1> QED  BY <1>12, <1>13

\* The pipe is cut into its records by every step.
LEMMA NextCut == FrameInv /\ [Next]_vars => CutInv'
<1> SUFFICES ASSUME FrameInv, [Next]_vars PROVE CutInv'
  OBVIOUS
<1>1. CASE ReadMagic \/ ReadPcapHeader \/ OpenShb
  BY <1>1, ReadMagicCut, ReadPcapHeaderCut, OpenShbCut
<1>2. CASE cap_pipe_read_data_bytes \/ ReadLoopFails
  BY <1>2, ReadLoopCut, ReadLoopFailsCut
<1>3. CASE ExpectBlockHeader \/ ExpectBlock \/ BlockHeaderRead \/ pcapng_read_shb \/ BlockRead
  BY <1>3, ExpectCut, BlockHeaderReadCut, ReadShbCut, BlockReadCut
<1>4. CASE ReadRecordHeader \/ ReadRecordData
  BY <1>4, ReadRecordHeaderCut, ReadRecordDataCut
<1>5. CASE PcapPipeEnds
  <2>1. cap_pipe_err' # "PIPOK" /\ pc' = "loop" /\ UNCHANGED <<pipe, pos, delivered>>
    BY <1>5 DEF PcapPipeEnds, Dispatching
  <2>2. DeliveredOK'
    BY <2>1, FrameTypes, QuietDelivered
  <2> QED  BY <2>1, <2>2 DEF CutInv, OpenPos, ReadLoopPos, LoopPos, Opening, InReadLoop
<1>6. CASE LoopEnds
  <2>1. pc' = "ended" /\ UNCHANGED <<pipe, pos, delivered>>
    BY <1>6 DEF LoopEnds
  <2>2. DeliveredOK'
    BY <2>1, FrameTypes, QuietDelivered
  <2> QED  BY <2>1, <2>2 DEF CutInv, OpenPos, ReadLoopPos, LoopPos, Opening, InReadLoop
<1>7. CASE SelectFails \/ capture_loop_stop \/ WriterStops \/ UNCHANGED vars
  <2>1. UNCHANGED <<pipe, pos, pc, got, srcVars, delivered>>
    BY <1>7 DEF SelectFails, capture_loop_stop, WriterStops, vars
  <2>2. DeliveredOK' /\ Start' = Start /\ Current' = Current
    BY <2>1, FrameTypes, QuietDelivered
  <2>3. ReadTo' = ReadTo /\ (SectionKnown => SectionKnown') /\ (ReadsRecord => ReadsRecord')
    BY <2>1, <2>2 DEF ReadTo, SectionKnown, ReadsRecord, srcVars
  <2>4. OpenPos'
    BY <2>1, Zenon DEF FrameInv, CutInv, OpenPos, Opening, srcVars
  <2>5. ReadLoopPos'
    BY <2>1, <2>2, <2>3 DEF FrameInv, CutInv, ReadLoopPos, InReadLoop, srcVars
  <2>6. LoopPos'
    BY <2>1, <2>2, <2>3, Zenon DEF FrameInv, CutInv, LoopPos, srcVars
  <2> QED  BY <2>2, <2>4, <2>5, <2>6 DEF CutInv
<1> QED  BY <1>1, <1>2, <1>3, <1>4, <1>5, <1>6, <1>7 DEF Next, Progress

\* Nothing has been read or delivered at first.
LEMMA InitFrame == Init => FrameInv
<1> SUFFICES ASSUME Init PROVE FrameInv
  OBVIOUS
<1>1. PipeInv
  BY InitInv
<1>2. DeliveredOK
  BY DEF Init, DeliveredOK, RecordsWhole, Wholes
<1>3. OpenPos /\ ReadLoopPos /\ LoopPos
  BY DEF Init, OpenPos, ReadLoopPos, LoopPos, Opening, InReadLoop, MagicSize
<1> QED  BY <1>1, <1>2, <1>3 DEF FrameInv, CutInv

\* The invariant of the framing is inductive.
LEMMA NextFrame == FrameInv /\ [Next]_vars => FrameInv'
  BY NextCut, NextInv DEF FrameInv

\* The capture loop gets the records of the pipe, in order, each once and whole,
\* whatever the program at the other end writes and however the reads of
\* cap_pipe_read_data_bytes and of pcap_pipe_dispatch are cut.
THEOREM RecordsArriveWhole == Spec => []RecordsWhole
<1>1. FrameInv => RecordsWhole
  BY DEF FrameInv, CutInv, DeliveredOK
<1> QED  BY <1>1, InitFrame, NextFrame, PTL DEF Spec

-----------------------------------------------------------------------------
\* The end of the pipe is noticed before the current record is complete.
LEMMA EofInside ==
    ASSUME FrameInv, PcapPipeEnds \/ ReadLoopFails \/ BlockHeaderRead, cap_pipe_err' = "PIPEOF"
    PROVE  \A i \in Complete : i <= Len(delivered)
<1>0. /\ TypeOK /\ PipeInv /\ pipe \in Pipes /\ DeliveredOK /\ pos \in Nat /\ got \in Nat
      /\ Start \in Nat /\ cap_pipe_bytes_read \in Nat /\ cap_pipe_bytes_to_read \in Nat
      /\ bh.incl_len \in Nat
  BY FrameTypes
<1> SUFFICES ASSUME Current \in 1 .. Len(pipe.records), WellFormed(pipe, pipe.records[Current])
             PROVE  pos < Start + pipe.records[Current].size
  BY <1>0, NoneLeft
<1>1. PICK r : r = pipe.records[Current]
  OBVIOUS
<1>2. /\ r.size \in Nat /\ r.size >= RecHdrSize(pipe) /\ RecHdrSize(pipe) \in Nat
      /\ r.size = TrueLen(pipe, r) + (IF IsPcapng(pipe) THEN 0 ELSE RecHdrSize(pipe))
      /\ IsPcapng(pipe) => RecHdrSize(pipe) = 8
      /\ TrueLen(pipe, r) \in Nat
  BY <1>0, <1>1, PipeFacts DEF TrueLen
<1>3. CASE PcapPipeEnds
  <2>1. Dispatching /\ ~IsPcapng(pipe) /\ cap_pipe_state \in States
    BY <1>0, <1>3 DEF PcapPipeEnds, TypeOK
  <2>2. CASE cap_pipe_state \in {"STATE_EXPECT_REC_HDR", "STATE_READ_REC_HDR"}
    <3>1. HeaderReadFrom \in Nat /\ pos = Start + HeaderReadFrom /\ HeaderReadFrom < RecHdrSize(pipe)
      BY <2>1, <2>2, PcapFacts
    <3> QED  BY <1>0, <1>1, <1>2, <3>1
  <2>3. CASE cap_pipe_state \in {"STATE_EXPECT_DATA", "STATE_READ_DATA"}
    <3>1. /\ DataReadFrom \in Nat /\ pos = Start + RecHdrSize(pipe) + DataReadFrom
          /\ DataReadFrom < bh.incl_len /\ ReadsRecord
      BY <2>1, <2>3, PcapFacts
    <3>2. bh.incl_len = TrueLen(pipe, r)
      BY <1>1, <3>1 DEF ReadsRecord
    <3> QED  BY <1>0, <1>1, <1>2, <2>1, <3>1, <3>2
  <2> QED  BY <2>1, <2>2, <2>3 DEF States
<1>4. CASE ReadLoopFails
  <2>1. pc \in {"block_hdr", "block"} /\ BytesWanted > 0
    BY <1>4 DEF ReadLoopFails, ReadLoopError, InReadLoop, Opening
  <2>2. /\ pos = Start + ReadTo /\ IsPcapng(pipe)
        /\ pc = "block_hdr" => cap_pipe_bytes_to_read = 8
        /\ pc = "block" => ReadsRecord /\ cap_pipe_bytes_to_read = bh.incl_len
    BY <2>1 DEF FrameInv, CutInv, ReadLoopPos, InReadLoop, BlockHdrSize
  <2>3. ReadTo < cap_pipe_bytes_to_read /\ ReadTo \in Nat
    BY <1>0, <2>1 DEF BytesWanted, ReadTo
  <2>4. cap_pipe_bytes_to_read <= r.size
    BY <1>0, <1>1, <1>2, <2>1, <2>2 DEF ReadsRecord
  <2> QED  BY <1>0, <1>1, <1>2, <2>2, <2>3, <2>4
<1>5. CASE BlockHeaderRead
  <2>1. /\ pc = "block_hdr" /\ cap_pipe_bytes_read = cap_pipe_bytes_to_read
        /\ IsPcapng(pipe) /\ cap_pipe_err = "PIPOK" /\ SectionKnown
        /\ ReadTo <= cap_pipe_bytes_to_read /\ cap_pipe_bytes_to_read = 8
    BY <1>5 DEF BlockHeaderRead, FrameInv, CutInv, ReadLoopPos, InReadLoop, BlockHdrSize
  <2>2. RecordIn(cap_pipe_databuf, 8) = r
    <3>1. 8 <= ReadTo
      BY <1>0, <2>1 DEF ReadTo
    <3> QED  BY <1>1, <2>1, <3>1, LoopFinds DEF InReadLoop
  <2>3. r.type = "SHB" \/ r.swapped = byte_swapped
    BY <1>0, <1>1, <2>1, InSection
  <2>4. HeaderIn(cap_pipe_databuf, 8) = HeaderOf(r)
    BY <2>2, <2>3, Zenon DEF HeaderIn
  <2>5. PICK h : h = HeaderOf(r)
    OBVIOUS
  <2>6. h.type = r.type /\ h.incl_len = r.incl_len /\ r.incl_len \in Nat
    BY <1>0, <1>1, <2>5, PipeFacts DEF HeaderOf
  <2>7. h.type # "SHB" /\ BlockError(h) = "PIPEOF"
    BY <1>5, <2>1, <2>4, <2>5 DEF BlockHeaderRead, BlockHdrSize
  <2>8. r.incl_len < 12
    BY <2>6, <2>7 DEF BlockError, BlockHdrSize, TrailerSize
  <2>9. r.incl_len >= 12
    BY <1>1, <2>1, <2>6, <2>7 DEF WellFormed, BlockHdrSize, TrailerSize
  <2> QED  BY <2>6, <2>8, <2>9
<1> QED  BY <1>3, <1>4, <1>5

\* A clean end remains one, and begins inside a record or between two.
LEMMA NextClean == FrameInv /\ CleanEndLosesNothing /\ [Next]_vars => CleanEndLosesNothing'
<1> SUFFICES ASSUME FrameInv, CleanEndLosesNothing, [Next]_vars, cap_pipe_err' = "PIPEOF"
             PROVE  \A i \in Complete' : i <= Len(delivered')
  BY DEF CleanEndLosesNothing
<1>1. Opening \/ InReadLoop => cap_pipe_err = "PIPOK"
  BY DEF FrameInv, CutInv, OpenPos, ReadLoopPos
<1>2. /\ UNCHANGED <<pipe, pos, delivered>>
      /\ cap_pipe_err = "PIPEOF" \/ PcapPipeEnds \/ ReadLoopFails \/ BlockHeaderRead
  <2>1. CASE PcapPipeEnds \/ ReadLoopFails \/ BlockHeaderRead
    BY <2>1 DEF PcapPipeEnds, ReadLoopFails, BlockHeaderRead
  <2>2. CASE LoopEnds \/ SelectFails \/ capture_loop_stop \/ WriterStops \/ UNCHANGED vars
    BY <2>2 DEF LoopEnds, SelectFails, capture_loop_stop, WriterStops, vars, srcVars
  <2>3. CASE ReadMagic \/ ReadPcapHeader \/ OpenShb
    <3>1. cap_pipe_err = "PIPOK"
      BY <1>1, <2>3 DEF ReadMagic, ReadPcapHeader, OpenShb, Opening
    <3>2. cap_pipe_err' \in {cap_pipe_err, "PIPERR"}
      BY <2>3 DEF ReadMagic, ReadPcapHeader, OpenShb, Identify, srcVars
    <3> QED  BY <3>1, <3>2
  <2>4. CASE cap_pipe_read_data_bytes \/ pcapng_read_shb \/ BlockRead
    <3>1. cap_pipe_err = "PIPOK"
      BY <1>1, <2>4 DEF cap_pipe_read_data_bytes, pcapng_read_shb, BlockRead, InReadLoop
    <3>2. cap_pipe_err' \in {cap_pipe_err, "PIPERR"}
      BY <2>4 DEF cap_pipe_read_data_bytes, pcapng_read_shb, BlockRead
    <3> QED  BY <3>1, <3>2
  <2>5. CASE ExpectBlockHeader \/ ExpectBlock \/ ReadRecordHeader \/ ReadRecordData
    <3>1. cap_pipe_err = "PIPOK"
      BY <2>5 DEF ExpectBlockHeader, ExpectBlock, ReadRecordHeader, ReadRecordData, Dispatching, LoopDone
    <3>2. cap_pipe_err' \in {cap_pipe_err, "PIPERR"}
      BY <2>5 DEF ExpectBlockHeader, ExpectBlock, ReadRecordHeader, ReadRecordData, RecordHeaderRead
    <3> QED  BY <3>1, <3>2
  <2> QED  BY <2>1, <2>2, <2>3, <2>4, <2>5 DEF Next, Progress
<1>3. \A i \in Complete : i <= Len(delivered)
  BY <1>2, EofInside DEF CleanEndLosesNothing
<1>4. Complete' = Complete
  BY <1>2 DEF Complete
<1> QED  BY <1>2, <1>3, <1>4

\* A source that ends without an error to report has delivered every record that
\* was written completely: PIPEOF is never set inside a complete record, by the
\* end of the pipe or by a block that is too short.
THEOREM CleanEndsLoseNothing == Spec => []CleanEndLosesNothing
<1>1. Init => CleanEndLosesNothing
  BY DEF Init, CleanEndLosesNothing
<1> QED  BY <1>1, InitFrame, NextFrame, NextClean, PTL DEF Spec
=============================================================================
