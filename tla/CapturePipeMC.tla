---------------------------- MODULE CapturePipeMC ----------------------------
(* CapturePipe on small instances: records of a few bytes in real headers.    *)
EXTENDS CapturePipe, TLC

\* The header of a record; its place is computed.
Rec(type, incl_len, orig_len, swapped) ==
    [type |-> type, incl_len |-> incl_len, orig_len |-> orig_len, swapped |-> swapped,
     magic_ok |-> TRUE]

\* Records one after the other, from a place on; a malformed one has 32 bytes.
Written(magic, major, minor, passthrough, headers) ==
    LET p == [magic |-> magic, major |-> major, minor |-> minor, passthrough |-> passthrough]
        first == IF IsPcapng(p) THEN 0 ELSE MagicSize + PcapHdrSize
        size(h) == IF ~WellFormed(p, h) THEN 32
                   ELSE TrueLen(p, h) + (IF IsPcapng(p) THEN 0 ELSE RecHdrSize(p))
        start[i \in 1 .. Len(headers) + 1] ==
           IF i = 1 THEN first ELSE start[i-1] + size(headers[i-1])
    IN  p @@ [total |-> start[Len(headers) + 1],
              records |-> [i \in 1 .. Len(headers) |->
                             headers[i] @@ [start |-> start[i], size |-> size(headers[i])]]]

Shb(len, swapped) == Rec("SHB", len, 0, swapped)
Block(type, len, swapped) == Rec(type, len, 0, swapped)
Pcapng(passthrough, headers) == Written("shb", 2, 4, passthrough, headers)

\* Sections of both byte orders, a block that is longer than a packet may be, and
\* each kind of block that dumpcap does not take.
MCPcapng ==
    {Pcapng(TRUE, <<Shb(28, TRUE), Block("data", 16, TRUE), Shb(40, FALSE),
                    Block("other", 48, FALSE), Block("data", 12, FALSE)>>),
     Pcapng(FALSE, <<Shb(28, FALSE), Block("data", 36, FALSE), Block("data", 40, FALSE)>>),
     Pcapng(FALSE, <<Shb(28, FALSE), Block("other", 14, FALSE)>>),
     Pcapng(FALSE, <<Shb(28, FALSE), Block("other", 8, FALSE)>>),
     Pcapng(FALSE, <<Shb(28, FALSE), Shb(28, TRUE)>>),
     Pcapng(TRUE, <<Shb(28, TRUE), Shb(24, FALSE)>>),
     Pcapng(TRUE, <<[Shb(28, FALSE) EXCEPT !.magic_ok = FALSE]>>)}

\* Versions with the lengths interchanged, always or in some records, headers of
\* both sizes and byte orders, empty packets, and what dumpcap does not take.
MCPcap ==
    {Written("pcap", 2, 4, TRUE, <<Rec("data", 3, 9, FALSE), Rec("data", 0, 5, FALSE),
                                   Rec("data", 36, 36, FALSE)>>),
     Written("modified", 2, 3, TRUE, <<Rec("data", 2, 3, FALSE), Rec("data", 5, 1, FALSE),
                                       Rec("data", 0, 0, FALSE)>>),
     Written("swapped", 2, 2, TRUE, <<Rec("data", 4, 2, TRUE), Rec("data", 5, 5, TRUE)>>),
     Written("swapped_modified", 2, 4, TRUE, <<Rec("data", 1, 2, TRUE), Rec("data", 38, 38, TRUE)>>),
     Written("pcap", 1, 0, TRUE, << >>),
     Written("unknown", 2, 4, TRUE, << >>)}

MCPipes == MCPcapng \cup MCPcap
MCBufSizes == {2^k : k \in 4 .. 7}
=============================================================================
