------------------------- MODULE PcapngOutputProofs -------------------------
(***************************************************************************)
(* Two results about PcapngOutput, for every list of sources, any number of *)
(* sections, interfaces, packets and files:                                 *)
(*   FilesReportedReadable  the parent is told of a file only when its       *)
(*                          section header is there (ReportedFileReadable);  *)
(*   PacketsAreDescribed    every packet refers to a description of its own  *)
(*                          interface, if its source has sent one            *)
(*                          (EveryPacketDescribed).                          *)
(*                                                                          *)
(* ReportInv carries the first: the first block to be written to a file     *)
(* without an SHB is an SHB.  DescribedInv carries the second: the blocks   *)
(* in the queue lead from where the output stands (st[1]) to where the      *)
(* sources stand (ReadPos), each a block its source may send there; the     *)
(* interfaces of the section where the output stands are saved, mapped and  *)
(* not deleted; and the last file describes each saved interface under its  *)
(* number.                                                                  *)
(***************************************************************************)
EXTENDS PcapngOutput, FiniteSetTheorems, SequenceTheorems, TLAPS

\* The blocks read, those written, and the interfaces saved.
Interface == [src : Nat, sec : Nat, id : Nat]
BlockIn ==
    [type : {"SHB"}, swapped : BOOLEAN, who : [src : Ifaces, sec : Nat, id : Nat]]
    \cup [type : {"IDB"}, who : [src : Ifaces, sec : Nat, id : Nat]]
    \cup [type : {"EPB"}, known : BOOLEAN, who : [src : Ifaces, sec : Nat, id : Nat]]
BlockOut ==
    {[type |-> "SHB"]} \cup [type : {"IDB"}, who : Interface]
    \cup [type : {"EPB"}, iface : Nat, known : BOOLEAN, who : Interface]
SavedIdb == [deleted : BOOLEAN, who : Interface]

SourceTypes ==
    /\ conf \in Configs
    /\ cap_pipe_state \in [Ifaces -> {"device", "shb", "header"}]
    /\ byte_swapped \in [Ifaces -> BOOLEAN]
    /\ section \in [Ifaces -> Nat]
    /\ interfaces \in [Ifaces -> Nat]
    /\ packets \in [Ifaces -> Nat]
    /\ queue \in Seq(BlockIn)

OutputTypes ==
    /\ phase \in {"running", "stopped", "crashed", "aborted"}
    /\ saved_idbs \in Seq(SavedIdb)
    /\ src_iface_to_global \in [Ifaces -> Seq(Nat)]
    /\ files \in Seq(Seq(BlockOut)) /\ Len(files) > 0
    /\ report_capture_filename \in Nat
    /\ told \in Seq(Nat)

Types == SourceTypes /\ OutputTypes

-----------------------------------------------------------------------------
\* What is known of a capture.
LEMMA ConfFacts ==
    ASSUME conf \in Configs
    PROVE  /\ Len(conf.ifaces) \in Nat /\ Len(conf.ifaces) > 0
           /\ Ifaces = 1 .. Len(conf.ifaces) /\ 1 \in Ifaces
           /\ conf.packet_limit \in Nat
           /\ conf.use_threads \in BOOLEAN
           /\ \A s \in Ifaces : conf.ifaces[s] \in {"device", "pcapng"} /\ s \in Nat /\ conf.described[s] \in Nat
           /\ IsFiniteSet(Ifaces)
<1>1. conf \in ConfigType /\ Len(conf.ifaces) > 0 /\ Len(conf.described) = Len(conf.ifaces)
  BY ConfigsAssumption
<1>2. /\ conf.ifaces \in Seq({"device", "pcapng"}) /\ conf.described \in Seq(Nat)
      /\ conf.use_threads \in BOOLEAN /\ conf.packet_limit \in Nat
  BY <1>1 DEF ConfigType
<1>3. Len(conf.ifaces) \in Nat /\ Len(conf.ifaces) > 0 /\ Ifaces = 1 .. Len(conf.ifaces)
  BY <1>1, <1>2 DEF Ifaces
<1>4. \A s \in Ifaces : conf.ifaces[s] \in {"device", "pcapng"} /\ s \in Nat /\ conf.described[s] \in Nat
  BY <1>1, <1>2, <1>3
<1>5. IsFiniteSet(Ifaces)
  BY <1>3, FS_Interval
<1> QED  BY <1>2, <1>3, <1>4, <1>5

\* The number of a device is a natural number.
LEMMA IdbIdType ==
    ASSUME conf \in Configs, NEW s \in Ifaces
    PROVE  idb_id(s) \in Nat
<1>1. IsFiniteSet({d \in Ifaces : d < s /\ IsDevice(d)})
  BY ConfFacts, FS_Subset
<1> QED  BY <1>1, FS_CardinalityType DEF idb_id

Devices == {d \in Ifaces : IsDevice(d)}

\* The devices are numbered from 0 without gaps, each with its own number.
LEMMA DeviceNumbers ==
    ASSUME conf \in Configs
    PROVE  /\ Cardinality(Devices) \in Nat
           /\ \A d \in Devices : idb_id(d) \in 0 .. Cardinality(Devices) - 1
           /\ \A d, e \in Devices : idb_id(d) = idb_id(e) => d = e
           /\ \A i \in 0 .. Cardinality(Devices) - 1 : \E d \in Devices : idb_id(d) = i
<1> DEFINE Before(s) == {d \in Ifaces : d < s /\ IsDevice(d)}
<1>1. IsFiniteSet(Devices) /\ Cardinality(Devices) \in Nat
  <2>1. Devices \in SUBSET Ifaces
    BY DEF Devices
  <2> QED  BY <2>1, ConfFacts, FS_Subset, FS_CardinalityType
<1>2. \A s \in Ifaces : /\ IsFiniteSet(Before(s)) /\ idb_id(s) = Cardinality(Before(s))
                         /\ idb_id(s) \in Nat
  <2>1. \A s \in Ifaces : Before(s) \in SUBSET Ifaces
    OBVIOUS
  <2> QED  BY <2>1, ConfFacts, FS_Subset, IdbIdType DEF idb_id
<1>3. ASSUME NEW d \in Devices, NEW T, IsFiniteSet(T), Before(d) \subseteq T, d \in T
      PROVE  idb_id(d) < Cardinality(T)
  <2>1. d \in Ifaces /\ d \in Nat /\ d \notin Before(d)
    BY ConfFacts DEF Devices
  <2>2. IsFiniteSet(T \ {d}) /\ Cardinality(T \ {d}) = Cardinality(T) - 1
    BY <1>3, FS_RemoveElement
  <2>3. Before(d) \in SUBSET (T \ {d})
    BY <1>3, <2>1
  <2>4. Cardinality(Before(d)) <= Cardinality(T \ {d})
    BY <2>2, <2>3, FS_Subset
  <2>5. Cardinality(T) \in Nat
    BY <1>3, FS_CardinalityType
  <2> QED  BY <1>2, <2>1, <2>2, <2>4, <2>5
<1>4. \A d \in Devices : Before(d) \subseteq Devices
  BY DEF Devices
<1>5. \A d, e \in Devices : d < e => Before(d) \subseteq Before(e) /\ d \in Before(e)
  BY ConfFacts DEF Devices
<1>6. \A d \in Devices : d \in Ifaces /\ d \in Nat
  BY ConfFacts DEF Devices
<1> HIDE DEF Before
<1>7. \A d \in Devices : idb_id(d) \in 0 .. Cardinality(Devices) - 1
  <2>1. \A d \in Devices : idb_id(d) < Cardinality(Devices)
    BY <1>1, <1>3, <1>4
  <2> QED  BY <1>1, <1>2, <1>6, <2>1
<1>8. \A d, e \in Devices : d < e => idb_id(d) < idb_id(e)
  BY <1>2, <1>3, <1>5, <1>6
<1>9. \A d, e \in Devices : idb_id(d) = idb_id(e) => d = e
  <2> SUFFICES ASSUME NEW d \in Devices, NEW e \in Devices, idb_id(d) = idb_id(e), d # e PROVE FALSE
    OBVIOUS
  <2>1. d < e \/ e < d
    BY <1>6
  <2>2. idb_id(d) < idb_id(e) \/ idb_id(e) < idb_id(d)
    BY <1>8, <2>1
  <2> QED  BY <1>2, <1>6, <2>2
<1>10. \A i \in 0 .. Cardinality(Devices) - 1 : \E d \in Devices : idb_id(d) = i
  <2>1. PICK f : f = [d \in Devices |-> idb_id(d)]
    OBVIOUS
  <2>2. f \in Injection(Devices, 0 .. Cardinality(Devices) - 1)
    BY <1>7, <1>9, <2>1 DEF Injection, IsInjective
  <2>3. /\ IsFiniteSet(0 .. Cardinality(Devices) - 1)
        /\ Cardinality(0 .. Cardinality(Devices) - 1) = Cardinality(Devices)
    BY <1>1, FS_Interval
  <2>4. f \in Surjection(Devices, 0 .. Cardinality(Devices) - 1)
    BY <2>2, <2>3, FS_Injection
  <2> QED  BY <2>1, <2>4 DEF Surjection
<1> QED  BY <1>1, <1>7, <1>9, <1>10

\* The interfaces of the devices are saved under their numbers.
LEMMA DeviceIdbsType ==
    ASSUME conf \in Configs
    PROVE  /\ DeviceIdbs \in Seq(SavedIdb)
           /\ Len(DeviceIdbs) = Cardinality(Devices)
           /\ \A s \in Devices :
                 /\ idb_id(s) \in Nat /\ idb_id(s) + 1 \in 1 .. Len(DeviceIdbs)
                 /\ DeviceIdbs[idb_id(s) + 1] =
                       [deleted |-> FALSE, who |-> [src |-> s, sec |-> 0, id |-> 0]]
<1>1. PICK n : n = Cardinality(Devices)
  OBVIOUS
<1> DEFINE chosen(i) == CHOOSE d \in Ifaces : IsDevice(d) /\ idb_id(d) = i - 1
<1>2. /\ n \in Nat
      /\ DeviceIdbs = [i \in 1 .. n |-> [deleted |-> FALSE, who |-> [src |-> chosen(i), sec |-> 0, id |-> 0]]]
  BY <1>1, DeviceNumbers DEF DeviceIdbs, Devices
<1>3. ASSUME NEW i \in 1 .. n
      PROVE  chosen(i) \in Devices /\ idb_id(chosen(i)) = i - 1
  <2>1. i - 1 \in 0 .. Cardinality(Devices) - 1
    BY <1>1, <1>2
  <2>2. \E d \in Devices : idb_id(d) = i - 1
    BY <2>1, DeviceNumbers
  <2> QED  BY <2>2 DEF Devices
<1>4. ASSUME NEW s \in Devices
      PROVE  idb_id(s) \in Nat /\ idb_id(s) + 1 \in 1 .. n /\ chosen(idb_id(s) + 1) = s
  <2>1. idb_id(s) \in Nat /\ idb_id(s) + 1 \in 1 .. n
    BY <1>1, <1>2, DeviceNumbers
  <2>2. chosen(idb_id(s) + 1) \in Devices /\ idb_id(chosen(idb_id(s) + 1)) = idb_id(s)
    BY <1>3, <2>1
  <2> QED  BY <2>1, <2>2, DeviceNumbers
<1> HIDE DEF chosen
<1>5. \A d \in Devices : d \in Nat
  BY ConfFacts DEF Devices
<1>6. \A i \in 1 .. n : [deleted |-> FALSE, who |-> [src |-> chosen(i), sec |-> 0, id |-> 0]] \in SavedIdb
  BY <1>3, <1>5 DEF SavedIdb, Interface
<1>7. DeviceIdbs \in Seq(SavedIdb) /\ Len(DeviceIdbs) = n
  BY <1>2, <1>6
<1> QED  BY <1>1, <1>2, <1>4, <1>7

\* How a file starts.
LEMMA FileStartType ==
    ASSUME NEW shb, NEW idbs \in Seq(SavedIdb)
    PROVE  /\ FileStart(shb, idbs) \in Seq(BlockOut)
           /\ pcapng_passthrough /\ shb = NoShb => FileStart(shb, idbs) = << >>
           /\ ~(pcapng_passthrough /\ shb = NoShb) =>
                 /\ Len(FileStart(shb, idbs)) = Len(idbs) + 1
                 /\ FileStart(shb, idbs)[1] = [type |-> "SHB"]
                 /\ \A i \in 1 .. Len(idbs) :
                       FileStart(shb, idbs)[i + 1] =
                          [type |-> "IDB", who |-> IF idbs[i].deleted THEN Dummy ELSE idbs[i].who]
<1>1. CASE pcapng_passthrough /\ shb = NoShb
  BY <1>1 DEF FileStart
<1>2. CASE ~(pcapng_passthrough /\ shb = NoShb)
  <2>1. PICK d : d = [i \in DOMAIN idbs |->
                        [type |-> "IDB", who |-> IF idbs[i].deleted THEN Dummy ELSE idbs[i].who]]
    OBVIOUS
  <2>2. PICK h : h = <<[type |-> "SHB"]>>
    OBVIOUS
  <2>3. FileStart(shb, idbs) = h \o d
    BY <1>2, <2>1, <2>2, Zenon DEF FileStart
  <2>4. /\ \A i \in 1 .. Len(idbs) : d[i] \in BlockOut
        /\ d = [i \in 1 .. Len(idbs) |-> d[i]] /\ Len(idbs) \in Nat
    <3>1. \A i \in 1 .. Len(idbs) : idbs[i] \in SavedIdb
      OBVIOUS
    <3>2. Dummy \in Interface /\ \A i \in 1 .. Len(idbs) : idbs[i].who \in Interface
      BY <3>1 DEF Dummy, Interface, SavedIdb
    <3>3. \A i \in 1 .. Len(idbs) : d[i] \in [type : {"IDB"}, who : Interface]
      BY <2>1, <3>2
    <3>4. DOMAIN idbs = 1 .. Len(idbs) /\ Len(idbs) \in Nat
      OBVIOUS
    <3>5. d = [i \in 1 .. Len(idbs) |-> d[i]]
      BY <2>1, <3>4
    <3> QED  BY <3>3, <3>4, <3>5 DEF BlockOut
  <2>5. d \in Seq(BlockOut) /\ Len(d) = Len(idbs)
    BY <2>4
  <2>6. h \in Seq(BlockOut) /\ Len(h) = 1 /\ h[1] = [type |-> "SHB"]
    <3>1. [type |-> "SHB"] \in BlockOut
      BY DEF BlockOut
    <3>2. PICK e : e = [type |-> "SHB"]
      OBVIOUS
    <3> QED  BY <2>2, <3>1, <3>2
  <2>7. /\ h \o d \in Seq(BlockOut) /\ Len(h \o d) = Len(idbs) + 1
        /\ (h \o d)[1] = h[1]
        /\ \A i \in 1 .. Len(d) : (h \o d)[i + 1] = d[i]
    <3>1. h \in Seq(BlockOut) /\ d \in Seq(BlockOut)
      BY <2>5, <2>6
    <3>2. /\ h \o d \in Seq(BlockOut) /\ Len(h \o d) = Len(h) + Len(d)
          /\ \A i \in 1 .. Len(h) + Len(d) : (h \o d)[i] = IF i <= Len(h) THEN h[i] ELSE d[i - Len(h)]
      BY <3>1, ConcatProperties, Zenon
    <3>3. PICK c : c = h \o d
      OBVIOUS
    <3>4. /\ c \in Seq(BlockOut) /\ Len(c) = Len(h) + Len(d)
          /\ \A i \in 1 .. Len(h) + Len(d) : c[i] = IF i <= Len(h) THEN h[i] ELSE d[i - Len(h)]
      BY <3>2, <3>3, Zenon
    <3>5. PICK n \in Nat : n = Len(d)
      BY <2>4, <2>5
    <3>6. \A i \in 1 .. 1 + n : c[i] = IF i <= 1 THEN h[i] ELSE d[i - 1]
      BY <2>6, <3>4, <3>5, Zenon
    <3>7. c[1] = h[1] /\ \A i \in 1 .. n : c[i + 1] = d[i]
      BY <3>5, <3>6
    <3>8. Len(c) = Len(idbs) + 1
      BY <2>4, <2>5, <2>6, <3>4
    <3> QED  BY <3>3, <3>4, <3>5, <3>7, <3>8, Zenon
  <2>8. /\ FileStart(shb, idbs) \in Seq(BlockOut) /\ Len(FileStart(shb, idbs)) = Len(idbs) + 1
        /\ FileStart(shb, idbs)[1] = h[1]
        /\ \A i \in 1 .. Len(d) : FileStart(shb, idbs)[i + 1] = d[i]
    BY <2>3, <2>7, Zenon
  <2>9. \A i \in 1 .. Len(idbs) :
           d[i] = [type |-> "IDB", who |-> IF idbs[i].deleted THEN Dummy ELSE idbs[i].who]
    BY <2>1
  <2> QED  BY <1>2, <2>5, <2>6, <2>8, <2>9
<1> QED  BY <1>1, <1>2

\* A block is added to the last file.
LEMMA WriteOutFacts ==
    ASSUME files \in Seq(Seq(BlockOut)), Len(files) > 0, NEW b \in BlockOut, WriteOut(b)
    PROVE  /\ files' \in Seq(Seq(BlockOut)) /\ Len(files') = Len(files) /\ Len(files) \in Nat
           /\ \A f \in 1 .. Len(files) - 1 : files'[f] = files[f]
           /\ files'[Len(files)] = Append(files[Len(files)], b)
           /\ files[Len(files)] \in Seq(BlockOut)
<1>1. PICK n : n = Len(files)
  OBVIOUS
<1>2. n \in Nat /\ n \in 1 .. n /\ files[n] \in Seq(BlockOut)
  BY <1>1
<1>3. files' = [files EXCEPT ![n] = Append(files[n], b)]
  BY <1>1 DEF WriteOut
<1>4. Append(files[n], b) \in Seq(BlockOut)
  BY <1>2
<1> QED  BY <1>1, <1>2, <1>3, <1>4

\* The packet that is written for a packet read.
LEMMA PacketOut ==
    ASSUME Types, NEW b \in BlockIn, WritePacket(b)
    PROVE  [type |-> "EPB", iface |-> OutputInterface(b), known |-> b.known, who |-> b.who] \in BlockOut
<1>a. b.type = "EPB"
  BY DEF WritePacket
<1>b. b.known \in BOOLEAN
  <2>1. b \in [type : {"EPB"}, known : BOOLEAN, who : [src : Ifaces, sec : Nat, id : Nat]]
    BY <1>a DEF BlockIn
  <2> QED  BY <2>1, Zenon
<1>0. /\ conf \in Configs /\ b.who \in [src : Ifaces, sec : Nat, id : Nat]
      /\ b.who.src \in Ifaces /\ b.who.id \in Nat
  BY DEF BlockIn, Types, SourceTypes
<1>1. b.who \in Interface
  BY <1>0, ConfFacts DEF Interface
<1>2. IsDevice(b.who.src) => OutputInterface(b) \in Nat
  BY <1>0, IdbIdType DEF OutputInterface
<1>3. ~IsDevice(b.who.src) /\ pcapng_passthrough => OutputInterface(b) \in Nat
  BY <1>0 DEF OutputInterface
<1>4. ASSUME ~IsDevice(b.who.src), ~pcapng_passthrough PROVE OutputInterface(b) \in Nat
  <2>1. src_iface_to_global[b.who.src] \in Seq(Nat) /\ b.who.id < Len(src_iface_to_global[b.who.src])
    BY <1>0, <1>4 DEF Types, OutputTypes, WritePacket, IsMapped
  <2>2. b.who.id + 1 \in 1 .. Len(src_iface_to_global[b.who.src])
    BY <1>0, <2>1
  <2> QED  BY <1>4, <2>1, <2>2 DEF OutputInterface
<1>5. OutputInterface(b) \in Nat
  BY <1>2, <1>3, <1>4
<1> QED  BY <1>1, <1>5, <1>b, Zenon DEF BlockOut

\* Writing a block keeps the types.
LEMMA WriteTypes ==
    ASSUME Types, NEW b \in BlockIn, WriteBlock(b)
    PROVE  /\ phase' \in {phase, "aborted"}
           /\ saved_idbs' \in Seq(SavedIdb)
           /\ src_iface_to_global' \in [Ifaces -> Seq(Nat)]
           /\ files' \in Seq(Seq(BlockOut)) /\ Len(files') = Len(files)
           /\ report_capture_filename' \in Nat
           /\ told' \in Seq(Nat)
<1>0. /\ conf \in Configs /\ b.who \in [src : Ifaces, sec : Nat, id : Nat] /\ b.type \in {"SHB", "IDB", "EPB"}
      /\ b.who.src \in Ifaces /\ b.who.id \in Nat
  BY DEF BlockIn, Types, SourceTypes
<1>1. b.who \in Interface
  BY <1>0, ConfFacts DEF Interface
<1>2. OutputTypes
  BY DEF Types
<1>3. CASE PassSectionHeader(b)
  <2>1. WriteOut([type |-> "SHB"]) /\ phase' = phase /\ saved_idbs' = << >>
        /\ src_iface_to_global' = [src_iface_to_global EXCEPT ![b.who.src] = << >>]
    BY <1>3 DEF PassSectionHeader, ForgetInterfaces
  <2>2. [type |-> "SHB"] \in BlockOut
    BY DEF BlockOut
  <2>3. files' \in Seq(Seq(BlockOut)) /\ Len(files') = Len(files)
    BY <1>2, <2>1, <2>2, WriteOutFacts DEF OutputTypes
  <2>4. report_capture_filename' \in Nat /\ told' \in Seq(Nat)
    <3>1. CASE report_capture_filename # 0
      <4>1. told' = Append(told, report_capture_filename) /\ report_capture_filename' = 0
        BY <1>3, <3>1 DEF PassSectionHeader
      <4>2. told \in Seq(Nat) /\ report_capture_filename \in Nat
        BY <1>2 DEF OutputTypes
      <4> QED  BY <4>1, <4>2
    <3>2. CASE report_capture_filename = 0
      BY <1>2, <1>3, <3>2 DEF PassSectionHeader, OutputTypes
    <3> QED  BY <3>1, <3>2
  <2> QED  BY <1>0, <1>2, <2>1, <2>3, <2>4 DEF OutputTypes
<1>4. CASE AbsorbSectionHeader(b)
  <2>1. PICK dead : saved_idbs' = [i \in DOMAIN saved_idbs |->
                        IF i \in dead THEN [deleted |-> TRUE, who |-> Dummy] ELSE saved_idbs[i]]
    <3>1. PICK dead : dead = {i \in DOMAIN saved_idbs : \E j \in DOMAIN src_iface_to_global[b.who.src] :
                              src_iface_to_global[b.who.src][j] = i - 1}
      OBVIOUS
    <3> QED  BY <1>4, <3>1 DEF AbsorbSectionHeader
  <2>2. [deleted |-> TRUE, who |-> Dummy] \in SavedIdb
    BY DEF SavedIdb, Dummy, Interface
  <2>3. saved_idbs' \in Seq(SavedIdb)
    <3>1. DOMAIN saved_idbs = 1 .. Len(saved_idbs) /\ Len(saved_idbs) \in Nat
      BY <1>2 DEF OutputTypes
    <3>2. \A i \in 1 .. Len(saved_idbs) : saved_idbs'[i] \in SavedIdb
      BY <1>2, <2>1, <2>2, <3>1 DEF OutputTypes
    <3>3. saved_idbs' = [i \in 1 .. Len(saved_idbs) |-> saved_idbs'[i]]
      BY <2>1, <3>1
    <3> QED  BY <3>1, <3>2, <3>3
  <2> QED  BY <1>0, <1>2, <1>4, <2>3 DEF AbsorbSectionHeader, ForgetInterfaces, OutputTypes
<1>5. CASE WriteInterface(b)
  <2>1. [type |-> "IDB", who |-> b.who] \in BlockOut /\ [deleted |-> FALSE, who |-> b.who] \in SavedIdb
    BY <1>1 DEF BlockOut, SavedIdb
  <2>2. files' \in Seq(Seq(BlockOut)) /\ Len(files') = Len(files)
    BY <1>2, <1>5, <2>1, WriteOutFacts DEF OutputTypes, WriteInterface
  <2>3. saved_idbs' \in Seq(SavedIdb) /\ Len(saved_idbs) \in Nat
    <3>1. PICK e : e = [deleted |-> FALSE, who |-> b.who]
      OBVIOUS
    <3>2. saved_idbs' = Append(saved_idbs, e) /\ e \in SavedIdb
      BY <1>5, <2>1, <3>1 DEF WriteInterface
    <3> QED  BY <1>2, <3>2 DEF OutputTypes
  <2>4. src_iface_to_global' \in [Ifaces -> Seq(Nat)]
    BY <1>0, <1>2, <1>5, <2>3 DEF WriteInterface, NextGlobalId, OutputTypes
  <2> QED  BY <1>2, <1>5, <2>2, <2>3, <2>4 DEF WriteInterface, OutputTypes
<1>6. CASE WritePacket(b)
  <2>1. [type |-> "EPB", iface |-> OutputInterface(b), known |-> b.known, who |-> b.who] \in BlockOut
    BY <1>6, PacketOut
  <2>2. files' \in Seq(Seq(BlockOut)) /\ Len(files') = Len(files)
    BY <1>2, <1>6, <2>1, WriteOutFacts DEF OutputTypes, WritePacket
  <2> QED  BY <1>2, <1>6, <2>2 DEF WritePacket, OutputTypes
<1>7. CASE PacketNotMapped(b)
  BY <1>2, <1>7 DEF PacketNotMapped, OutputTypes, outVars
<1> QED  BY <1>3, <1>4, <1>5, <1>6, <1>7 DEF WriteBlock

\* What depends on the capture alone stays.
LEMMA ConfStays ==
    ASSUME conf' = conf
    PROVE  /\ Ifaces' = Ifaces /\ BlockIn' = BlockIn
           /\ pcapng_passthrough' <=> pcapng_passthrough
           /\ \A s : IsDevice(s)' <=> IsDevice(s)
           /\ \A s : idb_id(s)' = idb_id(s)
BY DEF Ifaces, BlockIn, pcapng_passthrough, IsDevice, idb_id

\* A block that has been read is of the right type.
LEMMA BlocksRead ==
    ASSUME SourceTypes, NEW s \in Ifaces
    PROVE  /\ [type |-> "SHB", swapped |-> byte_swapped[s],
               who |-> [src |-> s, sec |-> section[s] + 1, id |-> 0]] \in BlockIn
           /\ [type |-> "IDB", who |-> [src |-> s, sec |-> section[s], id |-> interfaces[s]]] \in BlockIn
           /\ \A id \in Nat, known \in BOOLEAN : [type |-> "EPB", known |-> known, who |-> [src |-> s, sec |-> section[s], id |-> id]] \in BlockIn
<1>1. byte_swapped[s] \in BOOLEAN
  BY Zenon DEF SourceTypes
<1>2. section[s] \in Nat /\ section[s] + 1 \in Nat /\ interfaces[s] \in Nat
  BY DEF SourceTypes
<1> QED  BY <1>1, <1>2, Zenon, 0 \in Nat DEF BlockIn

\* Delivering a block keeps the types.
LEMMA DeliverTypes ==
    ASSUME Types, NEW b \in BlockIn, Deliver(b), conf' = conf
    PROVE  OutputTypes' /\ queue' \in Seq(BlockIn)
<1>1. Ifaces' = Ifaces
  BY ConfStays
<1>2. CASE WriteBlock(b) /\ UNCHANGED queue
  <2>1. /\ phase' \in {phase, "aborted"}
        /\ saved_idbs' \in Seq(SavedIdb)
        /\ src_iface_to_global' \in [Ifaces -> Seq(Nat)]
        /\ files' \in Seq(Seq(BlockOut)) /\ Len(files') = Len(files)
        /\ report_capture_filename' \in Nat
        /\ told' \in Seq(Nat)
    BY <1>2, WriteTypes
  <2> QED  BY <1>1, <1>2, <2>1 DEF Types, SourceTypes, OutputTypes, SavedIdb, BlockOut, Interface
<1>3. CASE UNCHANGED <<phase, outVars>> /\ queue' \in {Append(queue, b), queue}
  <2>1. queue \in Seq(BlockIn)
    BY DEF Types, SourceTypes
  <2>2. queue' \in Seq(BlockIn)
    BY <1>3, <2>1
  <2> QED  BY <1>1, <1>3, <2>2 DEF Types, OutputTypes, outVars, SavedIdb, BlockOut, Interface
<1> QED  BY <1>2, <1>3 DEF Deliver

\* The types hold when the capture starts.
LEMMA InitTypes == ASSUME Init PROVE Types
<1>1. conf \in Configs
  BY DEF Init
<1>2. DeviceIdbs \in Seq(SavedIdb)
  BY <1>1, DeviceIdbsType
<1>3. FileStart(NoShb, DeviceIdbs) \in Seq(BlockOut)
  BY <1>2, FileStartType
<1>4. SourceTypes
  <2>1. /\ cap_pipe_state = [s \in Ifaces |-> IF IsDevice(s) THEN "device" ELSE "shb"]
        /\ section = [s \in Ifaces |-> 0]
        /\ interfaces = [s \in Ifaces |-> 0]
        /\ packets = [s \in Ifaces |-> 0]
        /\ queue = << >>
    BY DEF Init
  <2>2. byte_swapped \in [Ifaces -> BOOLEAN]
    <3>1. byte_swapped \in [Ifaces -> IF pcapng_passthrough THEN BOOLEAN ELSE {FALSE}]
      BY DEF Init
    <3> QED  BY <3>1
  <2> QED  BY <1>1, <2>1, <2>2 DEF SourceTypes
<1>5. OutputTypes
  BY <1>2, <1>3 DEF Init, OutputTypes
<1> QED  BY <1>4, <1>5 DEF Types

\* The types are kept by every step.
LEMMA NextTypes == ASSUME Types, [Next]_vars PROVE Types'
<1> USE DEF Types
<1>0. /\ conf' = conf /\ Ifaces' = Ifaces /\ BlockIn' = BlockIn
      /\ SavedIdb' = SavedIdb /\ BlockOut' = BlockOut
  <2>1. conf' = conf
    BY DEF Next, Read, ReadShb, ReadSection, ReadInterface, ReadPacket, Dequeue, SwitchFile,
           SwitchFileMisread, Stop, Update, vars
  <2> QED  BY <2>1, ConfStays DEF SavedIdb, BlockOut, Interface
<1>1. ASSUME NEW s \in Ifaces, NEW swapped \in BOOLEAN, ReadShb(s, swapped) PROVE Types'
  <2>1. cap_pipe_state' \in [Ifaces -> {"device", "shb", "header"}] /\ byte_swapped' \in [Ifaces -> BOOLEAN]
    BY <1>1, Zenon DEF ReadShb, SourceTypes
  <2> QED  BY <1>0, <1>1, <2>1 DEF ReadShb, SourceTypes, OutputTypes, outVars
<1>2. ASSUME NEW s \in Ifaces, ReadSection(s) PROVE Types'
  <2>1. PICK b : b = [type |-> "SHB", swapped |-> byte_swapped[s],
                      who |-> [src |-> s, sec |-> section[s] + 1, id |-> 0]]
    OBVIOUS
  <2>2. b \in BlockIn /\ Deliver(b)
    BY <1>2, <2>1, BlocksRead DEF ReadSection
  <2>3. OutputTypes' /\ queue' \in Seq(BlockIn)
    BY <1>0, <2>2, DeliverTypes
  <2>4. /\ cap_pipe_state' \in [Ifaces -> {"device", "shb", "header"}]
        /\ section' \in [Ifaces -> Nat] /\ interfaces' \in [Ifaces -> Nat]
    BY <1>2 DEF ReadSection, SourceTypes
  <2> QED  BY <1>0, <1>2, <2>3, <2>4 DEF ReadSection, SourceTypes
<1>3. ASSUME NEW s \in Ifaces, ReadInterface(s) PROVE Types'
  <2>1. PICK b : b = [type |-> "IDB", who |-> [src |-> s, sec |-> section[s], id |-> interfaces[s]]]
    OBVIOUS
  <2>2. b \in BlockIn /\ Deliver(b)
    BY <1>3, <2>1, BlocksRead DEF ReadInterface
  <2>3. OutputTypes' /\ queue' \in Seq(BlockIn)
    BY <1>0, <2>2, DeliverTypes
  <2>4. interfaces' \in [Ifaces -> Nat]
    <3>1. interfaces[s] \in Nat /\ interfaces[s] + 1 \in Nat
      BY DEF SourceTypes
    <3> QED  BY <1>3, <3>1, Zenon DEF ReadInterface, SourceTypes
  <2> QED  BY <1>0, <1>3, <2>3, <2>4 DEF ReadInterface, SourceTypes
<1>4. ASSUME NEW s \in Ifaces, NEW id \in 0 .. interfaces[s], ReadPacket(s, id) PROVE Types'
  <2>1. PICK b : b = [type |-> "EPB", known |-> IsKnown(s, id), who |-> [src |-> s, sec |-> section[s], id |-> id]]
    OBVIOUS
  <2>2. b \in BlockIn /\ Deliver(b)
    <3>1. id \in Nat
      BY DEF SourceTypes
    <3>2. IsKnown(s, id) \in BOOLEAN
      BY DEF IsKnown
    <3> QED  BY <1>4, <2>1, <3>1, <3>2, BlocksRead DEF ReadPacket
  <2>3. OutputTypes' /\ queue' \in Seq(BlockIn)
    BY <1>0, <2>2, DeliverTypes
  <2> QED  BY <1>0, <1>4, <2>3 DEF ReadPacket, SourceTypes
<1>5. CASE Dequeue
  <2>1. Head(queue) \in BlockIn /\ WriteBlock(Head(queue)) /\ queue' \in Seq(BlockIn)
    BY <1>5 DEF Dequeue, SourceTypes
  <2>2. /\ phase' \in {phase, "aborted"}
        /\ saved_idbs' \in Seq(SavedIdb)
        /\ src_iface_to_global' \in [Ifaces -> Seq(Nat)]
        /\ files' \in Seq(Seq(BlockOut)) /\ Len(files') = Len(files)
        /\ report_capture_filename' \in Nat
        /\ told' \in Seq(Nat)
    BY <2>1, WriteTypes
  <2>3. OutputTypes'
    BY <1>0, <2>2 DEF OutputTypes
  <2> QED  BY <1>0, <1>5, <2>1, <2>3 DEF Dequeue, sourceVars, SourceTypes
<1>6. CASE SwitchFile
  <2>1. PICK start : start = FileStart(saved_shb, saved_idbs) /\ start \in Seq(BlockOut)
    BY FileStartType DEF OutputTypes
  <2>2. files' = Append(files, start)
    BY <1>6, <2>1 DEF SwitchFile
  <2>3. files' \in Seq(Seq(BlockOut)) /\ Len(files') > 0
    BY <2>1, <2>2 DEF OutputTypes
  <2>4. told' \in Seq(Nat) /\ report_capture_filename' \in Nat
    <3>1. PICK n \in Nat : n = Len(files) + 1
      BY DEF OutputTypes
    <3>2. told \in Seq(Nat) /\ report_capture_filename \in Nat
      BY DEF OutputTypes
    <3>3. told' \in {told, Append(told, n)} /\ report_capture_filename' \in {report_capture_filename, n}
      BY <1>6, <3>1, Zenon DEF SwitchFile, ReportNewFile
    <3>4. Append(told, n) \in Seq(Nat)
      BY <3>1, <3>2
    <3> QED  BY <3>1, <3>2, <3>3, <3>4, Zenon
  <2> QED  BY <1>0, <1>6, <2>3, <2>4 DEF SwitchFile, sourceVars, SourceTypes, OutputTypes
<1>7. CASE SwitchFileMisread
  <2>1. files' = Append(files, << >>)
    BY <1>7 DEF SwitchFileMisread
  <2>2. files' \in Seq(Seq(BlockOut)) /\ Len(files') > 0
    BY <2>1 DEF OutputTypes
  <2> QED  BY <1>0, <1>7, <2>2 DEF SwitchFileMisread, EndCapture, sourceVars, SourceTypes, OutputTypes
<1>8. CASE Stop
  BY <1>0, <1>8 DEF Stop, EndCapture, sourceVars, outVars, SourceTypes, OutputTypes
<1>10. CASE Update
  BY <1>0, <1>10 DEF Update, sourceVars, outVars, SourceTypes, OutputTypes
<1>9. CASE UNCHANGED vars
  BY <1>0, <1>9 DEF vars, sourceVars, outVars, SourceTypes, OutputTypes
<1> QED  BY <1>1, <1>2, <1>3, <1>4, <1>5, <1>6, <1>7, <1>8, <1>9, <1>10 DEF Next, Read

-----------------------------------------------------------------------------
(* What the parent is told. *)

LastFile == files[Len(files)]

\* Where the sources are: only a device has no sections, and without threads the
\* queue is not used.
SourcesInv ==
    /\ \A s \in Ifaces : cap_pipe_state[s] = "device" <=> IsDevice(s)
    /\ \A s \in Ifaces : IsDevice(s) => section[s] = 0 /\ interfaces[s] = 0
    /\ \A s \in Ifaces : cap_pipe_state[s] = "header" => section[s] > 0
    /\ \A s \in Ifaces : section[s] = 0 => interfaces[s] = 0
    /\ ~conf.use_threads => queue = << >>

\* Until the first section header of the only source is written it is the next
\* block to be written.
ShbFirst ==
    phase = "running" /\ pcapng_passthrough /\ saved_shb = NoShb =>
       \/ queue = << >> /\ cap_pipe_state[1] = "shb"
       \/ queue # << >> /\ Head(queue).type = "SHB"

\* The parent was told of the files in order, and each starts with an SHB.
ToldInv ==
    /\ \A i \in 1 .. Len(told) :
          /\ told[i] \in 1 .. Len(files)
          /\ files[told[i]] # << >> /\ files[told[i]][1].type = "SHB"
    /\ \A i, j \in 1 .. Len(told) : i < j => told[i] < told[j]

\* The file the parent is still to be told of is the last one.
DelayInv ==
    report_capture_filename # 0 =>
       /\ pcapng_passthrough /\ report_capture_filename = Len(files)
       /\ \A i \in 1 .. Len(told) : told[i] < Len(files)

\* The last file starts with an SHB, unless none has come yet.
LastFileInv ==
    IF LastFile = << >> THEN pcapng_passthrough /\ saved_shb = NoShb
                        ELSE LastFile[1].type = "SHB"

OutInv == ToldInv /\ (phase = "running" => DelayInv /\ LastFileInv)

ReportInv == Types /\ SourcesInv /\ ShbFirst /\ OutInv
-----------------------------------------------------------------------------

\* A block that is added to the last file leaves what was there.
LEMMA AddedBlock ==
    ASSUME Types, NEW b \in BlockOut, WriteOut(b)
    PROVE  /\ files' \in Seq(Seq(BlockOut)) /\ Len(files') = Len(files) /\ Len(files) \in Nat \ {0}
           /\ \A f \in 1 .. Len(files) - 1 : files'[f] = files[f]
           /\ LastFile \in Seq(BlockOut) /\ LastFile' \in Seq(BlockOut)
           /\ LastFile' = Append(LastFile, b)
           /\ Len(LastFile') = Len(LastFile) + 1 /\ Len(LastFile) \in Nat
           /\ \A k \in 1 .. Len(LastFile) : LastFile'[k] = LastFile[k]
           /\ LastFile'[Len(LastFile) + 1] = b
           /\ LastFile' # << >>
<1>1. files \in Seq(Seq(BlockOut)) /\ Len(files) > 0 /\ Len(files) \in Nat
  BY DEF Types, OutputTypes
<1>2. /\ files' \in Seq(Seq(BlockOut)) /\ Len(files') = Len(files)
      /\ \A f \in 1 .. Len(files) - 1 : files'[f] = files[f]
      /\ LastFile \in Seq(BlockOut) /\ LastFile' = Append(LastFile, b)
  BY <1>1, WriteOutFacts DEF LastFile
<1>3. PICK l : l = LastFile
  OBVIOUS
<1>4. PICK m : m = LastFile'
  OBVIOUS
<1>5. l \in Seq(BlockOut) /\ m = Append(l, b)
  BY <1>2, <1>3, <1>4
<1>6. /\ m \in Seq(BlockOut) /\ Len(m) = Len(l) + 1 /\ Len(l) \in Nat
      /\ \A k \in 1 .. Len(l) : m[k] = l[k]
      /\ m[Len(l) + 1] = b
      /\ m # << >>
  BY <1>5
<1>7. /\ LastFile' \in Seq(BlockOut) /\ Len(LastFile') = Len(LastFile) + 1 /\ Len(LastFile) \in Nat
      /\ \A k \in 1 .. Len(LastFile) : LastFile'[k] = LastFile[k]
      /\ LastFile'[Len(LastFile) + 1] = b
      /\ LastFile' # << >>
  BY <1>3, <1>4, <1>6, Zenon
<1>8. Len(files) \in Nat \ {0}
  BY <1>1
<1> QED  BY <1>2, <1>7, <1>8, Zenon

\* After an SHB, or in a file that starts with one, a block leaves the last file with
\* an SHB at its start, and the files the parent knows as they started.
LEMMA AddedBlockReadable ==
    ASSUME Types, OutInv, phase = "running", NEW b \in BlockOut, WriteOut(b),
           LastFile = << >> => b.type = "SHB"
    PROVE  /\ Len(files') = Len(files) /\ Len(files) \in Nat \ {0}
           /\ LastFile' # << >> /\ LastFile'[1].type = "SHB"
           /\ \A f \in 1 .. Len(files) :
                 files[f] # << >> /\ files[f][1].type = "SHB" =>
                    files'[f] # << >> /\ files'[f][1].type = "SHB"
<1>1. /\ Len(files') = Len(files) /\ Len(files) \in Nat \ {0}
      /\ \A f \in 1 .. Len(files) - 1 : files'[f] = files[f]
      /\ LastFile' # << >>
  BY AddedBlock
<1>2. LastFile'[1].type = "SHB"
  <2>1. CASE LastFile = << >>
    <3>1. Len(LastFile) = 0 /\ LastFile'[Len(LastFile) + 1] = b
      BY <2>1, AddedBlock
    <3> QED  BY <2>1, <3>1
  <2>2. CASE LastFile # << >>
    <3>1. LastFile[1].type = "SHB"
      BY <2>2 DEF OutInv, LastFileInv
    <3>2. LastFile \in Seq(BlockOut) /\ \A k \in 1 .. Len(LastFile) : LastFile'[k] = LastFile[k]
      BY AddedBlock
    <3>3. 1 \in 1 .. Len(LastFile)
      BY <2>2, <3>2
    <3> QED  BY <3>1, <3>2, <3>3
  <2> QED  BY <2>1, <2>2
<1>3. ASSUME NEW f \in 1 .. Len(files), files[f] # << >>, files[f][1].type = "SHB"
      PROVE  files'[f] # << >> /\ files'[f][1].type = "SHB"
  <2>1. CASE f = Len(files)
    BY <1>1, <1>2, <2>1 DEF LastFile
  <2>2. CASE f # Len(files)
    <3>1. f \in 1 .. Len(files) - 1
      BY <1>1, <2>2
    <3> QED  BY <1>1, <1>3, <3>1
  <2> QED  BY <2>1, <2>2
<1> QED  BY <1>1, <1>2, <1>3

\* A block is written: the parent is told of the last file only with its SHB.
LEMMA WriteReadable ==
    ASSUME Types, OutInv, phase = "running", NEW b \in BlockIn, WriteBlock(b), conf' = conf,
           pcapng_passthrough /\ saved_shb = NoShb => b.type = "SHB"
    PROVE  OutInv' /\ (pcapng_passthrough => saved_shb' # NoShb)
<1>0. /\ b.type \in {"SHB", "IDB", "EPB"} /\ told \in Seq(Nat) /\ Len(told) \in Nat
      /\ Len(files) \in Nat \ {0} /\ report_capture_filename \in Nat
      /\ pcapng_passthrough' <=> pcapng_passthrough
  <2>1. pcapng_passthrough' <=> pcapng_passthrough
    BY ConfStays, Zenon
  <2> QED  BY <2>1 DEF Types, BlockIn, OutputTypes
<1>1. ASSUME NEW o \in BlockOut, WriteOut(o), LastFile = << >> => o.type = "SHB",
             told' = told, report_capture_filename' \in {report_capture_filename, 0}, phase' = phase
      PROVE  OutInv'
  <2>1. /\ Len(files') = Len(files) /\ Len(files) \in Nat \ {0}
        /\ LastFile' # << >> /\ LastFile'[1].type = "SHB"
        /\ \A f \in 1 .. Len(files) :
              files[f] # << >> /\ files[f][1].type = "SHB" =>
                 files'[f] # << >> /\ files'[f][1].type = "SHB"
    BY <1>1, AddedBlockReadable
  <2>2. ToldInv'
    BY <1>1, <2>1 DEF OutInv, ToldInv
  <2>3. DelayInv'
    BY <1>0, <1>1, <2>1 DEF OutInv, DelayInv
  <2>4. LastFileInv'
    BY <2>1 DEF LastFileInv
  <2> QED  BY <2>2, <2>3, <2>4 DEF OutInv
<1>2. LastFile = << >> => pcapng_passthrough /\ saved_shb = NoShb
  BY DEF OutInv, LastFileInv
<1>3. CASE PassSectionHeader(b)
  <2>1. [type |-> "SHB"] \in BlockOut /\ [type |-> "SHB"].type = "SHB"
    BY DEF BlockOut
  <2>2. PICK o : o = [type |-> "SHB"] /\ o \in BlockOut /\ o.type = "SHB"
    BY <2>1
  <2>3. WriteOut(o) /\ phase' = phase /\ saved_shb' = <<b.swapped>>
    BY <1>3, <2>2 DEF PassSectionHeader
  <2>4. saved_shb' # NoShb
    BY <2>3 DEF NoShb
  <2>5. CASE report_capture_filename = 0
    <3>1. told' = told /\ report_capture_filename' = report_capture_filename
      BY <1>3, <2>5 DEF PassSectionHeader
    <3> QED  BY <1>1, <2>2, <2>3, <2>4, <3>1
  <2>6. CASE report_capture_filename # 0
    <3>1. told' = Append(told, report_capture_filename) /\ report_capture_filename' = 0
      BY <1>3, <2>6 DEF PassSectionHeader
    <3>2. /\ Len(files') = Len(files)
          /\ LastFile' # << >> /\ LastFile'[1].type = "SHB"
          /\ \A f \in 1 .. Len(files) :
                files[f] # << >> /\ files[f][1].type = "SHB" =>
                   files'[f] # << >> /\ files'[f][1].type = "SHB"
      BY <2>2, <2>3, AddedBlockReadable
    <3>3. /\ report_capture_filename = Len(files) /\ \A i \in 1 .. Len(told) : told[i] < Len(files)
      BY <2>6 DEF OutInv, DelayInv
    <3>4. /\ Len(told') = Len(told) + 1
          /\ \A i \in 1 .. Len(told) : told'[i] = told[i]
          /\ told'[Len(told) + 1] = Len(files)
      BY <1>0, <3>1, <3>3
    <3>5. \A i \in 1 .. Len(told') : i \in 1 .. Len(told) \/ i = Len(told) + 1
      BY <1>0, <3>4
    <3>6. ASSUME NEW i \in 1 .. Len(told')
          PROVE  /\ told'[i] \in 1 .. Len(files')
                 /\ files'[told'[i]] # << >> /\ files'[told'[i]][1].type = "SHB"
      <4>1. CASE i \in 1 .. Len(told)
        BY <3>2, <3>4, <4>1 DEF OutInv, ToldInv
      <4>2. CASE i = Len(told) + 1
        <5>1. told'[i] = Len(files') /\ files'[told'[i]] = LastFile'
          BY <3>2, <3>4, <4>2 DEF LastFile
        <5> QED  BY <1>0, <3>2, <5>1
      <4> QED  BY <3>5, <4>1, <4>2
    <3>7. ASSUME NEW i \in 1 .. Len(told'), NEW j \in 1 .. Len(told'), i < j
          PROVE  told'[i] < told'[j]
      <4>1. i \in 1 .. Len(told)
        BY <1>0, <3>4, <3>7
      <4>2. CASE j \in 1 .. Len(told)
        BY <3>4, <3>7, <4>1, <4>2 DEF OutInv, ToldInv
      <4>3. CASE j = Len(told) + 1
        BY <3>3, <3>4, <4>1, <4>3
      <4> QED  BY <3>5, <4>2, <4>3
    <3>8. ToldInv'
      BY <3>6, <3>7 DEF ToldInv
    <3>9. DelayInv' /\ LastFileInv'
      BY <3>1, <3>2 DEF DelayInv, LastFileInv
    <3> QED  BY <2>4, <3>8, <3>9 DEF OutInv
  <2> QED  BY <2>5, <2>6
<1>4. CASE AbsorbSectionHeader(b)
  <2>1. ~pcapng_passthrough /\ phase' = phase /\ saved_shb' = saved_shb /\ files' = files /\ told' = told
        /\ report_capture_filename' = report_capture_filename
    BY <1>4 DEF AbsorbSectionHeader
  <2> QED  BY <1>0, <2>1 DEF OutInv, ToldInv, DelayInv, LastFileInv, LastFile
<1>5. CASE WriteInterface(b)
  <2>1. PICK o : o = [type |-> "IDB", who |-> b.who]
    OBVIOUS
  <2>2. /\ b.type = "IDB" /\ WriteOut(o) /\ phase' = phase /\ saved_shb' = saved_shb /\ told' = told
        /\ report_capture_filename' = report_capture_filename
    BY <1>5, <2>1 DEF WriteInterface
  <2>3. o \in BlockOut
    BY <2>1, ConfFacts DEF BlockOut, Interface, BlockIn, Types, SourceTypes
  <2>4. LastFile # << >> /\ (pcapng_passthrough => saved_shb' # NoShb)
    BY <1>2, <2>2
  <2> QED  BY <1>1, <2>2, <2>3, <2>4
<1>6. CASE WritePacket(b)
  <2>1. PICK o : o = [type |-> "EPB", iface |-> OutputInterface(b), known |-> b.known, who |-> b.who]
    OBVIOUS
  <2>2. /\ b.type = "EPB" /\ WriteOut(o) /\ phase' = phase /\ saved_shb' = saved_shb /\ told' = told
        /\ report_capture_filename' = report_capture_filename
    BY <1>6, <2>1 DEF WritePacket
  <2>3. o \in BlockOut
    BY <1>6, <2>1, PacketOut
  <2>4. LastFile # << >> /\ (pcapng_passthrough => saved_shb' # NoShb)
    BY <1>2, <2>2
  <2> QED  BY <1>1, <2>2, <2>3, <2>4
<1>7. CASE PacketNotMapped(b)
  <2>1. /\ b.type = "EPB" /\ phase' = "aborted" /\ UNCHANGED outVars
    BY <1>7 DEF PacketNotMapped
  <2> QED  BY <2>1 DEF OutInv, ToldInv, outVars
<1> QED  BY <1>3, <1>4, <1>5, <1>6, <1>7 DEF WriteBlock

\* A block is delivered: at once, or to the end of the queue.
LEMMA DeliverReadable ==
    ASSUME ReportInv, phase = "running", NEW b \in BlockIn, Deliver(b), conf' = conf,
           pcapng_passthrough /\ saved_shb = NoShb /\ queue = << >> => b.type = "SHB"
    PROVE  /\ OutInv'
           /\ ~conf.use_threads => queue' = << >>
           /\ pcapng_passthrough /\ saved_shb' = NoShb => queue' # << >> /\ Head(queue').type = "SHB"
<1>1. Types /\ OutInv /\ queue \in Seq(BlockIn) /\ conf.packet_limit \in Nat
  BY ConfFacts DEF ReportInv, Types, SourceTypes
<1>2. CASE ~conf.use_threads /\ WriteBlock(b) /\ queue' = queue
  <2>1. queue = << >>
    BY <1>2 DEF ReportInv, SourcesInv
  <2>2. OutInv' /\ (pcapng_passthrough => saved_shb' # NoShb)
    BY <1>1, <1>2, <2>1, WriteReadable
  <2> QED  BY <1>2, <2>1, <2>2
<1>3. CASE /\ conf.use_threads /\ UNCHANGED <<phase, outVars>>
           /\ queue' = IF conf.packet_limit = 0 \/ Len(queue) < conf.packet_limit
                         THEN Append(queue, b) ELSE queue
  <2>1. OutInv' /\ saved_shb' = saved_shb
    <3>1. pcapng_passthrough' <=> pcapng_passthrough
      BY ConfStays, Zenon
    <3> QED  BY <1>1, <1>3, <3>1
             DEF outVars, OutInv, ToldInv, DelayInv, LastFileInv, LastFile, Types, OutputTypes
  <2>2. ASSUME pcapng_passthrough, saved_shb = NoShb
        PROVE  queue' # << >> /\ Head(queue').type = "SHB"
    <3>1. CASE queue = << >>
      <4>1. queue' = Append(queue, b) /\ b.type = "SHB"
        BY <1>1, <1>3, <2>2, <3>1
      <4> QED  BY <1>1, <3>1, <4>1
    <3>2. CASE queue # << >>
      <4>1. Head(queue).type = "SHB"
        BY <2>2, <3>2 DEF ReportInv, ShbFirst
      <4>2. queue' # << >> /\ Head(queue') = Head(queue)
        BY <1>1, <1>3, <3>2
      <4> QED  BY <4>1, <4>2
    <3> QED  BY <3>1, <3>2
  <2> QED  BY <1>3, <2>1, <2>2
<1> QED  BY <1>2, <1>3 DEF Deliver

\* ReportInv holds when the first file is started.
LEMMA InitReadable == ASSUME Init PROVE ReportInv
<1>0. Types /\ conf \in Configs
  BY InitTypes DEF Types, SourceTypes
<1>1. DeviceIdbs \in Seq(SavedIdb)
  BY <1>0, DeviceIdbsType
<1>2. PICK start : start = FileStart(NoShb, DeviceIdbs)
  OBVIOUS
<1>3. IF pcapng_passthrough THEN start = << >> ELSE start # << >> /\ start[1].type = "SHB"
  <2>1. CASE pcapng_passthrough
    BY <1>1, <1>2, <2>1, FileStartType
  <2>2. CASE ~pcapng_passthrough
    <3>1. Len(start) = Len(DeviceIdbs) + 1 /\ start[1] = [type |-> "SHB"] /\ start \in Seq(BlockOut)
      BY <1>1, <1>2, <2>2, FileStartType
    <3> QED  BY <1>1, <2>2, <3>1
  <2> QED  BY <2>1, <2>2
<1>4. files = <<start>> /\ LastFile = start /\ Len(files) = 1
  BY <1>2 DEF Init, LastFile
<1>5. SourcesInv
  <2>1. /\ cap_pipe_state = [s \in Ifaces |-> IF IsDevice(s) THEN "device" ELSE "shb"]
        /\ section = [s \in Ifaces |-> 0]
        /\ interfaces = [s \in Ifaces |-> 0]
        /\ queue = << >>
    BY DEF Init
  <2> QED  BY <2>1 DEF SourcesInv
<1>6. ShbFirst
  <2>1. /\ cap_pipe_state = [s \in Ifaces |-> IF IsDevice(s) THEN "device" ELSE "shb"]
        /\ queue = << >>
    BY DEF Init
  <2> QED  BY <1>0, <2>1, ConfFacts DEF ShbFirst, pcapng_passthrough
<1>7. ToldInv
  BY <1>3, <1>4 DEF Init, ToldInv
<1>8. DelayInv
  BY <1>4 DEF Init, DelayInv
<1>9. LastFileInv
  BY <1>3, <1>4 DEF Init, LastFileInv
<1> QED  BY <1>0, <1>5, <1>6, <1>7, <1>8, <1>9 DEF ReportInv, OutInv

\* ReportInv is kept by every step.
LEMMA NextReadable == ASSUME ReportInv, [Next]_vars PROVE ReportInv'
<1>0. Types' /\ Types
  BY NextTypes DEF ReportInv
<1>a. /\ conf' = conf /\ conf \in Configs /\ Ifaces' = Ifaces
      /\ (pcapng_passthrough' <=> pcapng_passthrough)
      /\ (\A s : IsDevice(s)' <=> IsDevice(s))
  <2>1. conf' = conf
    BY DEF Next, Read, ReadShb, ReadSection, ReadInterface, ReadPacket, Dequeue, SwitchFile,
           SwitchFileMisread, Stop, Update, vars
  <2>2. conf \in Configs
    BY <1>0 DEF Types, SourceTypes
  <2> QED  BY <2>1, <2>2, ConfStays, Zenon
<1>b. /\ cap_pipe_state \in [Ifaces -> {"device", "shb", "header"}]
      /\ section \in [Ifaces -> Nat] /\ interfaces \in [Ifaces -> Nat] /\ 1 \in Ifaces
      /\ (pcapng_passthrough => Ifaces = {1})
  <2>1. 1 \in Ifaces /\ (pcapng_passthrough => Ifaces = {1})
    BY <1>a, ConfFacts DEF pcapng_passthrough
  <2> QED  BY <1>0, <2>1 DEF Types, SourceTypes
<1>1. ASSUME NEW s \in Ifaces, NEW swapped \in BOOLEAN, ReadShb(s, swapped) PROVE ReportInv'
  <2>1. /\ cap_pipe_state[s] = "header" /\ cap_pipe_state' = [cap_pipe_state EXCEPT ![s] = "shb"]
        /\ UNCHANGED <<phase, section, interfaces, queue, saved_shb, files, report_capture_filename, told>>
        /\ phase = "running"
    BY <1>1 DEF ReadShb, outVars
  <2>2. SourcesInv'
    BY <1>a, <1>b, <2>1 DEF ReportInv, SourcesInv
  <2>3. ShbFirst'
    BY <1>a, <1>b, <2>1 DEF ReportInv, ShbFirst
  <2>4. OutInv'
    BY <1>a, <2>1 DEF ReportInv, OutInv, ToldInv, DelayInv, LastFileInv, LastFile
  <2> QED  BY <1>0, <2>2, <2>3, <2>4 DEF ReportInv
<1>2. ASSUME NEW s \in Ifaces, ReadSection(s) PROVE ReportInv'
  <2>1. PICK b : b = [type |-> "SHB", swapped |-> byte_swapped[s],
                      who |-> [src |-> s, sec |-> section[s] + 1, id |-> 0]]
    OBVIOUS
  <2>2. b \in BlockIn /\ Deliver(b) /\ phase = "running" /\ b.type = "SHB"
    BY <1>0, <1>2, <2>1, BlocksRead DEF ReadSection, Types
  <2>3. /\ OutInv' /\ (~conf.use_threads => queue' = << >>)
        /\ pcapng_passthrough /\ saved_shb' = NoShb => queue' # << >> /\ Head(queue').type = "SHB"
    BY <1>a, <2>2, DeliverReadable
  <2>4. /\ cap_pipe_state[s] = "shb" /\ cap_pipe_state' = [cap_pipe_state EXCEPT ![s] = "header"]
        /\ section' = [section EXCEPT ![s] = section[s] + 1]
        /\ interfaces' = [interfaces EXCEPT ![s] = 0]
    BY <1>2 DEF ReadSection
  <2>5. SourcesInv'
    BY <1>a, <1>b, <2>3, <2>4 DEF ReportInv, SourcesInv
  <2>6. ShbFirst'
    BY <1>a, <2>3 DEF ShbFirst
  <2> QED  BY <1>0, <2>3, <2>5, <2>6 DEF ReportInv
<1>3. ASSUME NEW s \in Ifaces, ReadInterface(s) PROVE ReportInv'
  <2>1. PICK b : b = [type |-> "IDB", who |-> [src |-> s, sec |-> section[s], id |-> interfaces[s]]]
    OBVIOUS
  <2>2. b \in BlockIn /\ Deliver(b) /\ phase = "running" /\ cap_pipe_state[s] = "header"
    BY <1>0, <1>3, <2>1, BlocksRead DEF ReadInterface, Types
  <2>3. ~(pcapng_passthrough /\ saved_shb = NoShb /\ queue = << >>)
    BY <1>b, <2>2 DEF ReportInv, ShbFirst
  <2>4. /\ OutInv' /\ (~conf.use_threads => queue' = << >>)
        /\ pcapng_passthrough /\ saved_shb' = NoShb => queue' # << >> /\ Head(queue').type = "SHB"
    BY <1>a, <2>2, <2>3, DeliverReadable
  <2>5. /\ UNCHANGED <<cap_pipe_state, section>>
        /\ interfaces' = [interfaces EXCEPT ![s] = interfaces[s] + 1]
    BY <1>3 DEF ReadInterface
  <2>6. SourcesInv'
    BY <1>a, <1>b, <2>2, <2>4, <2>5 DEF ReportInv, SourcesInv
  <2>7. ShbFirst'
    BY <1>a, <2>4 DEF ShbFirst
  <2> QED  BY <1>0, <2>4, <2>6, <2>7 DEF ReportInv
<1>4. ASSUME NEW s \in Ifaces, NEW id \in 0 .. interfaces[s], ReadPacket(s, id) PROVE ReportInv'
  <2>1. PICK b : b = [type |-> "EPB", known |-> IsKnown(s, id), who |-> [src |-> s, sec |-> section[s], id |-> id]]
    OBVIOUS
  <2>2. b \in BlockIn /\ Deliver(b) /\ phase = "running" /\ cap_pipe_state[s] \in {"header", "device"}
    <3>1. id \in Nat
      BY <1>b
    <3>2. IsKnown(s, id) \in BOOLEAN
      BY DEF IsKnown
    <3> QED  BY <1>0, <1>4, <2>1, <3>1, <3>2, BlocksRead DEF ReadPacket, Types
  <2>3. ~(pcapng_passthrough /\ saved_shb = NoShb /\ queue = << >>)
    BY <1>b, <2>2 DEF ReportInv, ShbFirst
  <2>4. /\ OutInv' /\ (~conf.use_threads => queue' = << >>)
        /\ pcapng_passthrough /\ saved_shb' = NoShb => queue' # << >> /\ Head(queue').type = "SHB"
    BY <1>a, <2>2, <2>3, DeliverReadable
  <2>5. UNCHANGED <<cap_pipe_state, section, interfaces>>
    BY <1>4 DEF ReadPacket
  <2>6. SourcesInv'
    BY <1>a, <2>4, <2>5 DEF ReportInv, SourcesInv
  <2>7. ShbFirst'
    BY <1>a, <2>4 DEF ShbFirst
  <2> QED  BY <1>0, <2>4, <2>6, <2>7 DEF ReportInv
<1>5. CASE Dequeue
  <2>1. PICK b \in BlockIn : b = Head(queue)
    BY <1>0, <1>5 DEF Dequeue, Types, SourceTypes
  <2>2. WriteBlock(b) /\ phase = "running" /\ queue # << >> /\ queue' = Tail(queue) /\ UNCHANGED sourceVars
    BY <1>5, <2>1 DEF Dequeue
  <2>3. pcapng_passthrough /\ saved_shb = NoShb => b.type = "SHB"
    BY <2>1, <2>2 DEF ReportInv, ShbFirst
  <2>4. OutInv' /\ (pcapng_passthrough => saved_shb' # NoShb)
    BY <1>0, <1>a, <2>2, <2>3, WriteReadable DEF ReportInv
  <2>5. SourcesInv'
    BY <1>a, <2>2 DEF ReportInv, SourcesInv, sourceVars
  <2>6. ShbFirst'
    BY <1>a, <2>4 DEF ShbFirst
  <2> QED  BY <1>0, <2>4, <2>5, <2>6 DEF ReportInv
<1>6. CASE SwitchFile
  <2>1. PICK start : start = FileStart(saved_shb, saved_idbs)
    OBVIOUS
  <2>2. /\ files \in Seq(Seq(BlockOut)) /\ Len(files) \in Nat \ {0} /\ saved_idbs \in Seq(SavedIdb)
        /\ told \in Seq(Nat) /\ Len(told) \in Nat
    BY <1>0 DEF Types, OutputTypes
  <2>3. /\ start \in Seq(BlockOut)
        /\ IF start = << >> THEN pcapng_passthrough /\ saved_shb = NoShb ELSE start[1].type = "SHB"
    <3>1. CASE pcapng_passthrough /\ saved_shb = NoShb
      BY <2>1, <2>2, <3>1, FileStartType
    <3>2. CASE ~(pcapng_passthrough /\ saved_shb = NoShb)
      <4>1. start \in Seq(BlockOut) /\ Len(start) = Len(saved_idbs) + 1 /\ start[1] = [type |-> "SHB"]
        BY <2>1, <2>2, <3>2, FileStartType
      <4> QED  BY <2>2, <4>1
    <3> QED  BY <3>1, <3>2
  <2>4. files' = Append(files, start) /\ ReportNewFile(Len(files) + 1, CountReported) /\ phase = "running"
        /\ UNCHANGED <<phase, cap_pipe_state, section, interfaces, queue, saved_shb>>
    BY <1>6, <2>1 DEF SwitchFile, sourceVars
  <2>5. /\ Len(files') = Len(files) + 1 /\ \A f \in 1 .. Len(files) : files'[f] = files[f]
        /\ LastFile' = start
    BY <2>2, <2>3, <2>4 DEF LastFile
  <2>6. SourcesInv'
    BY <1>a, <2>4 DEF ReportInv, SourcesInv
  <2>7. ShbFirst'
    BY <1>a, <2>4 DEF ReportInv, ShbFirst
  <2>8. LastFileInv'
    BY <1>a, <2>3, <2>4, <2>5 DEF LastFileInv
  <2>9. /\ \A i \in 1 .. Len(told) :
              /\ told[i] \in 1 .. Len(files)
              /\ files[told[i]] # << >> /\ files[told[i]][1].type = "SHB"
        /\ \A i, j \in 1 .. Len(told) : i < j => told[i] < told[j]
    BY DEF ReportInv, OutInv, ToldInv
  <2>a. \A i \in 1 .. Len(told) :
           /\ told[i] \in 1 .. Len(files') /\ told[i] \in Nat /\ told[i] < Len(files')
           /\ files'[told[i]] # << >> /\ files'[told[i]][1].type = "SHB"
    <3> SUFFICES ASSUME NEW i \in 1 .. Len(told)
                 PROVE  /\ told[i] \in 1 .. Len(files') /\ told[i] \in Nat /\ told[i] < Len(files')
                        /\ files'[told[i]] # << >> /\ files'[told[i]][1].type = "SHB"
      OBVIOUS
    <3>1. PICK f : f = told[i]
      OBVIOUS
    <3>2. f \in 1 .. Len(files) /\ files'[f] = files[f]
      BY <2>5, <2>9, <3>1
    <3>3. files[f] # << >> /\ files[f][1].type = "SHB"
      BY <2>9, <3>1
    <3>4. f \in 1 .. Len(files') /\ f \in Nat /\ f < Len(files')
      BY <2>2, <2>5, <3>2
    <3> QED  BY <3>1, <3>2, <3>3, <3>4
  <2>10. CASE pcapng_passthrough
    <3>1. report_capture_filename' = Len(files) + 1 /\ told' = told
      BY <2>4, <2>10 DEF ReportNewFile
    <3>2. ToldInv'
      BY <2>9, <2>a, <3>1 DEF ToldInv
    <3>3. DelayInv'
      BY <1>a, <2>5, <2>10, <2>a, <3>1 DEF DelayInv
    <3> QED  BY <1>0, <2>6, <2>7, <2>8, <3>2, <3>3 DEF ReportInv, OutInv
  <2>11. CASE ~pcapng_passthrough
    <3>1. report_capture_filename' = report_capture_filename /\ told' = Append(told, Len(files) + 1)
      BY <2>4, <2>11 DEF ReportNewFile
    <3>2. /\ Len(told') = Len(told) + 1
          /\ \A i \in 1 .. Len(told) : told'[i] = told[i]
          /\ told'[Len(told) + 1] = Len(files) + 1
      BY <2>2, <3>1
    <3>3. start # << >> /\ start[1].type = "SHB" /\ files'[Len(files) + 1] = start
      BY <2>3, <2>5, <2>11 DEF LastFile
    <3>4. \A i \in 1 .. Len(told') : i \in 1 .. Len(told) \/ i = Len(told) + 1
      <4>1. PICK n \in Nat : n = Len(told)
        BY <2>2
      <4>2. \A i \in 1 .. n + 1 : i \in 1 .. n \/ i = n + 1
        OBVIOUS
      <4> QED  BY <3>2, <4>1, <4>2, Zenon
    <3>5. ToldInv'
      <4>1. \A i \in 1 .. Len(told') :
               /\ told'[i] \in 1 .. Len(files')
               /\ files'[told'[i]] # << >> /\ files'[told'[i]][1].type = "SHB"
        <5> TAKE i \in 1 .. Len(told')
        <5>1. CASE i \in 1 .. Len(told)
          BY <2>a, <3>2, <5>1
        <5>2. CASE i = Len(told) + 1
          <6>1. told'[i] = Len(files) + 1 /\ Len(files) + 1 \in 1 .. Len(files')
            BY <2>2, <2>5, <3>2, <5>2
          <6> QED  BY <3>3, <6>1
        <5> QED  BY <3>4, <5>1, <5>2
      <4>2. \A i, j \in 1 .. Len(told') : i < j => told'[i] < told'[j]
        <5> SUFFICES ASSUME NEW i \in 1 .. Len(told'), NEW j \in 1 .. Len(told'), i < j
                     PROVE  told'[i] < told'[j]
          OBVIOUS
        <5>1. i \in 1 .. Len(told)
          BY <2>2, <3>2
        <5>2. CASE j \in 1 .. Len(told)
          BY <2>9, <3>2, <5>1, <5>2
        <5>3. CASE j = Len(told) + 1
          BY <2>5, <2>a, <3>2, <5>1, <5>3
        <5> QED  BY <3>4, <5>2, <5>3
      <4> QED  BY <4>1, <4>2 DEF ToldInv
    <3>6. report_capture_filename = 0
      BY <2>4, <2>11 DEF ReportInv, OutInv, DelayInv
    <3>7. DelayInv'
      BY <3>1, <3>6 DEF DelayInv
    <3> QED  BY <1>0, <2>6, <2>7, <2>8, <3>5, <3>7 DEF ReportInv, OutInv
  <2> QED  BY <2>10, <2>11
<1>7. CASE SwitchFileMisread
  <2>1. /\ files' = Append(files, << >>) /\ phase' # "running"
        /\ UNCHANGED <<cap_pipe_state, section, interfaces, queue, told>>
    BY <1>7 DEF SwitchFileMisread, EndCapture, sourceVars
  <2>2. files \in Seq(Seq(BlockOut)) /\ Len(files) \in Nat
    BY <1>0 DEF Types, OutputTypes
  <2>3. Len(files') = Len(files) + 1 /\ \A f \in 1 .. Len(files) : files'[f] = files[f]
    BY <2>1, <2>2
  <2>4. ToldInv'
    BY <2>1, <2>2, <2>3 DEF ReportInv, OutInv, ToldInv
  <2>5. SourcesInv'
    BY <1>a, <2>1 DEF ReportInv, SourcesInv
  <2> QED  BY <1>0, <2>1, <2>4, <2>5 DEF ReportInv, OutInv, ShbFirst
<1>8. CASE Stop
  <2>1. /\ phase' # "running" /\ queue' = << >>
        /\ UNCHANGED <<cap_pipe_state, section, interfaces, told, files>>
    BY <1>8 DEF Stop, EndCapture, sourceVars, outVars
  <2>2. SourcesInv'
    BY <1>a, <2>1 DEF ReportInv, SourcesInv
  <2> QED  BY <1>0, <2>1, <2>2 DEF ReportInv, OutInv, ToldInv, ShbFirst
<1>9. ASSUME UNCHANGED <<phase, queue, cap_pipe_state, section, interfaces, told, files, saved_shb,
                         report_capture_filename>>
      PROVE  ReportInv'
  <2>1. SourcesInv' /\ ShbFirst'
    BY <1>9, <1>a DEF ReportInv, SourcesInv, ShbFirst
  <2> QED  BY <1>0, <1>9, <1>a, <2>1 DEF ReportInv, OutInv, ToldInv, DelayInv, LastFileInv, LastFile
<1>10. Update \/ UNCHANGED vars =>
         UNCHANGED <<phase, queue, cap_pipe_state, section, interfaces, told, files, saved_shb,
                     report_capture_filename>>
  BY DEF Update, vars, sourceVars, outVars
<1> QED  BY <1>1, <1>2, <1>3, <1>4, <1>5, <1>6, <1>7, <1>8, <1>9, <1>10 DEF Next, Read

\* The parent is told of the files in order, each once, and only of a file that
\* starts with a Section Header Block: SP_FILE of a source passed through waits
\* for its SHB, with and without threads and whatever the limit on the queue.
THEOREM FilesReportedReadable == Spec => []ReportedFileReadable
<1>1. ReportInv => ReportedFileReadable
  <2> SUFFICES ASSUME ReportInv PROVE ReportedFileReadable
    OBVIOUS
  <2>1. told \in Seq(Nat) /\ ToldInv
    BY DEF ReportInv, OutInv, Types, OutputTypes
  <2>2. DOMAIN told = 1 .. Len(told)
    BY <2>1
  <2> QED  BY <2>1, <2>2 DEF ToldInv, ReportedFileReadable
<1> QED  BY <1>1, InitReadable, NextReadable, PTL DEF Spec

-----------------------------------------------------------------------------
(* Descriptions in a file. *)

\* The descriptions in the section that a file ends with.
Open(file) ==
    {j \in 1 .. Len(file) : file[j].type = "IDB" /\ \A h \in j .. Len(file) : file[h].type # "SHB"}

\* What another block changes in the descriptions of a file, and what it leaves.
LEMMA OpenAppend ==
    ASSUME NEW F \in Seq(BlockOut), NEW b \in BlockOut, NEW G, G = Append(F, b)
    PROVE  /\ b.type = "SHB" => Open(G) = {}
           /\ b.type = "IDB" => Open(G) = Open(F) \cup {Len(F) + 1}
           /\ b.type = "EPB" => Open(G) = Open(F)
           /\ InterfaceNumber(G, Len(F) + 1) = Cardinality(Open(F))
           /\ \A p \in 1 .. Len(F) : InterfaceNumber(G, p) = InterfaceNumber(F, p)
           /\ \A k \in 1 .. Len(F) : Described(F, k) => Described(G, k)
<1>1. PICK n \in Nat : n = Len(F)
  OBVIOUS
<1>2. Len(G) = n + 1 /\ G[n + 1] = b /\ \A k \in 1 .. n : G[k] = F[k]
  BY <1>1
<1>3. b.type = "SHB" => Open(G) = {}
  <2> SUFFICES ASSUME b.type = "SHB", NEW j \in Open(G) PROVE FALSE
    OBVIOUS
  <2>1. j \in 1 .. n + 1 /\ \A h \in j .. n + 1 : G[h].type # "SHB"
    BY <1>2 DEF Open
  <2>2. n + 1 \in j .. n + 1
    BY <2>1
  <2> QED  BY <1>2, <2>1, <2>2
<1>4. ASSUME NEW j \in 1 .. n, b.type # "SHB"
      PROVE  j \in Open(G) <=> j \in Open(F)
  <2>1. G[j] = F[j] /\ j \in 1 .. n + 1
    BY <1>2
  <2>2. (\A h \in j .. n + 1 : G[h].type # "SHB") <=> (\A h \in j .. n : F[h].type # "SHB")
    <3>1. \A h \in j .. n : h \in j .. n + 1 /\ G[h] = F[h]
      BY <1>2
    <3>2. \A h \in j .. n + 1 : h \in j .. n \/ h = n + 1
      OBVIOUS
    <3> QED  BY <1>2, <1>4, <3>1, <3>2
  <2> QED  BY <1>1, <1>2, <2>1, <2>2 DEF Open
<1>5. n + 1 \in Open(G) <=> b.type = "IDB"
  <2>1. n + 1 \in 1 .. n + 1 /\ \A h \in n + 1 .. n + 1 : h = n + 1
    OBVIOUS
  <2> QED  BY <1>2, <2>1 DEF Open
<1>6. Open(G) \subseteq 1 .. n + 1 /\ Open(F) \subseteq 1 .. n
  BY <1>1, <1>2 DEF Open
<1>7. \A j \in 1 .. n + 1 : j \in 1 .. n \/ j = n + 1
  OBVIOUS
<1>8. n + 1 \notin 1 .. n
  OBVIOUS
<1>9. b.type = "IDB" => Open(G) = Open(F) \cup {n + 1}
  BY <1>4, <1>5, <1>6, <1>7
<1>10. b.type = "EPB" => Open(G) = Open(F)
  BY <1>4, <1>5, <1>6, <1>7, <1>8
<1>11. InterfaceNumber(G, n + 1) = Cardinality(Open(F))
  <2>1. (n + 1) - 1 = n
    OBVIOUS
  <2>2. {j \in 1 .. n : G[j].type = "IDB" /\ \A h \in j .. n : G[h].type # "SHB"} = Open(F)
    <3>1. \A j \in 1 .. n : \A h \in j .. n : G[h] = F[h]
      BY <1>2
    <3> QED  BY <1>1, <1>2, <3>1 DEF Open
  <2> QED  BY <2>1, <2>2 DEF InterfaceNumber
<1>12. \A p \in 1 .. n : InterfaceNumber(G, p) = InterfaceNumber(F, p)
  <2> TAKE p \in 1 .. n
  <2>1. \A j \in 1 .. p - 1 : G[j] = F[j] /\ \A h \in j .. p - 1 : G[h] = F[h]
    BY <1>2
  <2>2. {j \in 1 .. p - 1 : G[j].type = "IDB" /\ \A h \in j .. p - 1 : G[h].type # "SHB"}
      = {j \in 1 .. p - 1 : F[j].type = "IDB" /\ \A h \in j .. p - 1 : F[h].type # "SHB"}
    BY <2>1
  <2> QED  BY <2>2 DEF InterfaceNumber
<1>13. ASSUME NEW k \in 1 .. n, Described(F, k) PROVE Described(G, k)
  <2>1. PICK p \in 1 .. k - 1 :
           /\ F[p].type = "IDB" /\ F[p].who = F[k].who
           /\ InterfaceNumber(F, p) = F[k].iface
           /\ \A h \in p .. k : F[h].type # "SHB"
           /\ \E h \in 1 .. p - 1 : F[h].type = "SHB"
    BY <1>13 DEF Described
  <2>2. p \in 1 .. n /\ G[p] = F[p] /\ G[k] = F[k] /\ InterfaceNumber(G, p) = InterfaceNumber(F, p)
    BY <1>2, <1>12
  <2>3. \A h \in p .. k : G[h] = F[h]
    BY <1>2
  <2>4. \A h \in 1 .. p - 1 : G[h] = F[h]
    BY <1>2
  <2> QED  BY <2>1, <2>2, <2>3, <2>4 DEF Described
<1> QED  BY <1>1, <1>3, <1>9, <1>10, <1>11, <1>12, <1>13

\* A file has finitely many descriptions.
LEMMA OpenFinite ==
    ASSUME NEW F \in Seq(BlockOut)
    PROVE  IsFiniteSet(Open(F)) /\ Cardinality(Open(F)) \in Nat /\ Open(F) \subseteq 1 .. Len(F)
<1>1. Open(F) \in SUBSET (1 .. Len(F)) /\ Len(F) \in Nat
  BY DEF Open
<1>2. IsFiniteSet(1 .. Len(F))
  BY <1>1, FS_Interval
<1>3. IsFiniteSet(Open(F))
  BY <1>1, <1>2, FS_Subset
<1> QED  BY <1>1, <1>3, FS_CardinalityType

\* A new file describes each saved interface under its number.
LEMMA OpenStart ==
    ASSUME NEW shb, NEW idbs \in Seq(SavedIdb), NEW F, F = FileStart(shb, idbs),
           pcapng_passthrough /\ shb = NoShb => idbs = << >>
    PROVE  /\ F \in Seq(BlockOut)
           /\ \A k \in 1 .. Len(F) : F[k].type # "EPB"
           /\ Cardinality(Open(F)) = Len(idbs)
           /\ \A g \in 1 .. Len(idbs) : ~idbs[g].deleted =>
                 \E p \in Open(F) : InterfaceNumber(F, p) = g - 1 /\ F[p].who = idbs[g].who
<1>1. PICK n \in Nat : n = Len(idbs)
  OBVIOUS
<1>2. CASE pcapng_passthrough /\ shb = NoShb
  <2>1. F = << >> /\ n = 0
    BY <1>1, <1>2, FileStartType
  <2>2. Len(F) = 0 /\ Open(F) = {}
    BY <2>1 DEF Open
  <2>3. F \in Seq(BlockOut)
    BY <2>1
  <2>4. Cardinality(Open(F)) = 0
    BY <2>2, FS_EmptySet
  <2>5. \A k \in 1 .. n : FALSE
    BY <2>1
  <2> QED  BY <1>1, <2>1, <2>2, <2>3, <2>4, <2>5
<1>3. CASE ~(pcapng_passthrough /\ shb = NoShb)
  <2>1. /\ F \in Seq(BlockOut) /\ Len(F) = n + 1 /\ F[1] = [type |-> "SHB"]
        /\ \A i \in 1 .. n :
              F[i + 1] = [type |-> "IDB", who |-> IF idbs[i].deleted THEN Dummy ELSE idbs[i].who]
    BY <1>1, <1>3, FileStartType
  <2>a. \A i \in 1 .. n : F[i + 1].type = "IDB" /\ (~idbs[i].deleted => F[i + 1].who = idbs[i].who)
    <3> SUFFICES ASSUME NEW i \in 1 .. n
                 PROVE  F[i + 1].type = "IDB" /\ (~idbs[i].deleted => F[i + 1].who = idbs[i].who)
      OBVIOUS
    <3>1. PICK w : w = IF idbs[i].deleted THEN Dummy ELSE idbs[i].who
      OBVIOUS
    <3>2. F[i + 1] = [type |-> "IDB", who |-> w]
      BY <2>1, <3>1, Zenon
    <3>3. F[i + 1].type = "IDB" /\ F[i + 1].who = w
      BY <3>2
    <3> QED  BY <3>1, <3>3, Zenon
  <2>2. F[1].type = "SHB"
    BY <2>1
  <2>3. \A p \in 2 .. n + 1 : F[p].type = "IDB"
    <3> TAKE p \in 2 .. n + 1
    <3>1. p - 1 \in 1 .. n /\ (p - 1) + 1 = p
      OBVIOUS
    <3>2. F[(p - 1) + 1].type = "IDB"
      BY <2>a, <3>1, Zenon
    <3> QED  BY <3>1, <3>2
  <2>4. \A k \in 1 .. n + 1 : k = 1 \/ k \in 2 .. n + 1
    OBVIOUS
  <2>5. Open(F) = 2 .. n + 1
    <3>1. \A j \in 2 .. n + 1 : j \in 1 .. n + 1 /\ \A h \in j .. n + 1 : h \in 2 .. n + 1
      OBVIOUS
    <3>2. 2 .. n + 1 \subseteq Open(F)
      BY <2>1, <2>3, <3>1 DEF Open
    <3>3. Open(F) \subseteq 1 .. n + 1 /\ 1 \notin Open(F)
      BY <2>1, <2>2 DEF Open
    <3> QED  BY <2>4, <3>2, <3>3
  <2>6. Cardinality(2 .. n + 1) = n
    <3>1. Cardinality(2 .. n + 1) = IF 2 > n + 1 THEN 0 ELSE (n + 1) - 2 + 1
      BY FS_Interval
    <3> QED  BY <3>1
  <2>7. ASSUME NEW p \in 2 .. n + 1 PROVE InterfaceNumber(F, p) = p - 2
    <3>1. {j \in 1 .. p - 1 : F[j].type = "IDB" /\ \A h \in j .. p - 1 : F[h].type # "SHB"} = 2 .. p - 1
      <4>1. \A j \in 2 .. p - 1 : j \in 1 .. p - 1 /\ j \in 2 .. n + 1 /\ \A h \in j .. p - 1 : h \in 2 .. n + 1
        OBVIOUS
      <4>2. \A j \in 1 .. p - 1 : j = 1 \/ j \in 2 .. p - 1
        OBVIOUS
      <4> QED  BY <2>2, <2>3, <4>1, <4>2
    <3>2. Cardinality(2 .. p - 1) = IF 2 > p - 1 THEN 0 ELSE (p - 1) - 2 + 1
      BY FS_Interval
    <3>3. Cardinality(2 .. p - 1) = p - 2
      BY <3>2
    <3> QED  BY <3>1, <3>3 DEF InterfaceNumber
  <2>8. ASSUME NEW g \in 1 .. n, ~idbs[g].deleted
        PROVE  \E p \in Open(F) : InterfaceNumber(F, p) = g - 1 /\ F[p].who = idbs[g].who
    <3>1. g + 1 \in 2 .. n + 1 /\ (g + 1) - 2 = g - 1
      OBVIOUS
    <3>2. InterfaceNumber(F, g + 1) = g - 1
      BY <2>7, <3>1
    <3>3. F[g + 1].who = idbs[g].who
      BY <2>8, <2>a
    <3> QED  BY <2>5, <3>1, <3>2, <3>3
  <2>9. \A k \in 1 .. Len(F) : F[k].type # "EPB"
    BY <2>1, <2>2, <2>3, <2>4
  <2> QED  BY <1>1, <2>1, <2>5, <2>6, <2>8, <2>9
<1> QED  BY <1>2, <1>3

-----------------------------------------------------------------------------
(* The interfaces the output knows. *)

\* How far the blocks of a source have come: its section and the interfaces in it.
Pos == [sec : Nat, n : Nat]

\* A block that the source may send there, and where it is after it.
Legal(b, pos) ==
    LET s == b.who.src IN
    \/ b.type = "SHB" /\ ~IsDevice(s) /\ b.who = [src |-> s, sec |-> pos[s].sec + 1, id |-> 0]
    \/ b.type = "IDB" /\ ~IsDevice(s) /\ b.who = [src |-> s, sec |-> pos[s].sec, id |-> pos[s].n]
    \/ /\ b.type = "EPB"
       /\ IF IsDevice(s) THEN b.known /\ b.who = [src |-> s, sec |-> 0, id |-> 0]
                         ELSE b.who.sec = pos[s].sec /\ (b.known <=> b.who.id < pos[s].n)

After(b, pos) ==
    CASE b.type = "SHB" -> [pos EXCEPT ![b.who.src] = [sec |-> pos[b.who.src].sec + 1, n |-> 0]]
      [] b.type = "IDB" -> [pos EXCEPT ![b.who.src] = [sec |-> pos[b.who.src].sec, n |-> pos[b.who.src].n + 1]]
      [] OTHER -> pos

\* Interface g of the output is the interface who.
Saved(g, who) ==
    g + 1 \in 1 .. Len(saved_idbs) /\ saved_idbs[g + 1] = [deleted |-> FALSE, who |-> who]

DevicesSaved == \A d \in Devices : Saved(idb_id(d), [src |-> d, sec |-> 0, id |-> 0])

\* The interfaces of the current section of each source are mapped to themselves.
Mapped(pos) ==
    \A s \in Ifaces : ~IsDevice(s) =>
       /\ Len(src_iface_to_global[s]) = pos[s].n
       /\ \A j \in 1 .. pos[s].n :
             Saved(src_iface_to_global[s][j], [src |-> s, sec |-> pos[s].sec, id |-> j - 1])
       /\ pcapng_passthrough =>
             /\ Len(saved_idbs) = pos[s].n
             /\ \A j \in 1 .. pos[s].n : src_iface_to_global[s][j] = j - 1

\* The last file describes each saved interface under its number in its last section.
FileMatches ==
    /\ Cardinality(Open(LastFile)) = Len(saved_idbs)
    /\ \A g \in 1 .. Len(saved_idbs) : ~saved_idbs[g].deleted =>
          \E p \in Open(LastFile) :
             InterfaceNumber(LastFile, p) = g - 1 /\ LastFile[p].who = saved_idbs[g].who

NothingSaved == pcapng_passthrough /\ saved_shb = NoShb => saved_idbs = << >>

\* A packet is described, or was passed through from a source that had not
\* described its interface.
DescribedOrStray(file, k) == Described(file, k) \/ (pcapng_passthrough /\ ~file[k].known)

AllDescribed ==
    \A f \in 1 .. Len(files) : \A k \in 1 .. Len(files[f]) :
       files[f][k].type = "EPB" => DescribedOrStray(files[f], k)
-----------------------------------------------------------------------------

\* A block that is no packet, or a packet described before it, is added.
LEMMA DescribedStays ==
    ASSUME Types, AllDescribed, conf' = conf, NEW b \in BlockOut, WriteOut(b),
           b.type = "EPB" => Described(LastFile', Len(LastFile) + 1) \/ (pcapng_passthrough /\ ~b.known)
    PROVE  AllDescribed'
<1>0. pcapng_passthrough' <=> pcapng_passthrough
  BY ConfStays, Zenon
<1>1. /\ Len(files') = Len(files) /\ Len(files) \in Nat \ {0}
      /\ \A f \in 1 .. Len(files) - 1 : files'[f] = files[f]
      /\ LastFile \in Seq(BlockOut) /\ LastFile' = Append(LastFile, b)
      /\ Len(LastFile') = Len(LastFile) + 1 /\ Len(LastFile) \in Nat
      /\ \A k \in 1 .. Len(LastFile) : LastFile'[k] = LastFile[k]
      /\ LastFile'[Len(LastFile) + 1] = b
  BY AddedBlock
<1>2. ASSUME NEW f \in 1 .. Len(files), f # Len(files), NEW k \in 1 .. Len(files'[f]), files'[f][k].type = "EPB"
      PROVE  DescribedOrStray(files'[f], k)
  <2>1. files'[f] = files[f]
    BY <1>1, <1>2
  <2> QED  BY <1>2, <2>1 DEF AllDescribed
<1>3. PICK F : F = LastFile
  OBVIOUS
<1>4. PICK G : G = LastFile'
  OBVIOUS
<1>5. ASSUME NEW k \in 1 .. Len(G), G[k].type = "EPB" PROVE DescribedOrStray(G, k)
  <2>1. CASE k = Len(F) + 1
    BY <1>1, <1>3, <1>4, <1>5, <2>1 DEF DescribedOrStray
  <2>2. CASE k # Len(F) + 1
    <3>1. k \in 1 .. Len(F) /\ F[k].type = "EPB"
      BY <1>1, <1>3, <1>4, <1>5, <2>2
    <3>2. DescribedOrStray(F, k) /\ G[k] = F[k]
      BY <1>1, <1>3, <1>4, <3>1 DEF AllDescribed, LastFile
    <3>3. \A i \in 1 .. Len(F) : Described(F, i) => Described(G, i)
      BY <1>1, <1>3, <1>4, OpenAppend
    <3> QED  BY <3>1, <3>2, <3>3 DEF DescribedOrStray
  <2> QED  BY <2>1, <2>2
<1>6. files'[Len(files)] = G
  BY <1>1, <1>4 DEF LastFile
<1>7. \A F1, k : DescribedOrStray(F1, k)' <=> DescribedOrStray(F1, k)
  BY <1>0 DEF DescribedOrStray
<1> QED  BY <1>1, <1>2, <1>5, <1>6, <1>7 DEF AllDescribed

\* A packet of a saved interface is described.
LEMMA PacketDescribed ==
    ASSUME Types, LastFileInv, FileMatches, NEW b \in BlockOut, WriteOut(b), b.type = "EPB",
           Saved(b.iface, b.who), b.iface \in Nat
    PROVE  Described(LastFile', Len(LastFile) + 1)
<1>1. PICK F : F = LastFile
  OBVIOUS
<1>2. PICK G : G = LastFile'
  OBVIOUS
<1>3. PICK n \in Nat : n = Len(F)
  BY <1>1, AddedBlock
<1>4. /\ F \in Seq(BlockOut) /\ G = Append(F, b)
      /\ \A k \in 1 .. n : G[k] = F[k]
      /\ G[n + 1] = b
  BY <1>1, <1>2, <1>3, AddedBlock
<1>5. b.iface + 1 \in 1 .. Len(saved_idbs) /\ ~saved_idbs[b.iface + 1].deleted
      /\ saved_idbs[b.iface + 1].who = b.who
  BY DEF Saved
<1>6. PICK p \in Open(F) : InterfaceNumber(F, p) = (b.iface + 1) - 1 /\ F[p].who = b.who
  BY <1>1, <1>5, Zenon DEF FileMatches
<1>7. p \in 1 .. n /\ F[p].type = "IDB" /\ \A h \in p .. n : F[h].type # "SHB"
  BY <1>3, <1>6 DEF Open
<1>8. InterfaceNumber(G, p) = b.iface
  <2>1. InterfaceNumber(G, p) = InterfaceNumber(F, p)
    <3>1. \A q \in 1 .. Len(F) : InterfaceNumber(G, q) = InterfaceNumber(F, q)
      BY <1>4, OpenAppend, Zenon
    <3> QED  BY <1>3, <1>7, <3>1, Zenon
  <2>2. PICK i \in Nat : i = b.iface
    OBVIOUS
  <2>3. (i + 1) - 1 = i
    OBVIOUS
  <2> QED  BY <1>6, <2>1, <2>2, <2>3, Zenon
<1>9. F[1].type = "SHB"
  <2>1. F # << >>
    BY <1>3, <1>4, <1>7
  <2> QED  BY <1>1, <2>1 DEF LastFileInv
<1>10. 1 \in 1 .. p - 1 /\ G[1].type = "SHB"
  <2>1. p # 1
    BY <1>7, <1>9
  <2>2. 1 \in 1 .. p - 1 /\ 1 \in 1 .. n
    BY <1>7, <2>1
  <2> QED  BY <1>4, <1>9, <2>2
<1>11. \A h \in p .. n + 1 : G[h].type # "SHB"
  <2>1. \A h \in p .. n + 1 : h = n + 1 \/ (h \in p .. n /\ h \in 1 .. n)
    BY <1>7
  <2> QED  BY <1>4, <1>7, <2>1
<1>12. p \in 1 .. (n + 1) - 1 /\ G[p] = F[p]
  <2>1. (n + 1) - 1 = n
    OBVIOUS
  <2>2. p \in 1 .. n
    BY <1>7
  <2> QED  BY <1>4, <2>1, <2>2, Zenon
<1>13. Described(G, n + 1)
  <2>1. /\ G[p].type = "IDB" /\ G[p].who = G[n + 1].who /\ InterfaceNumber(G, p) = G[n + 1].iface
        /\ \E h \in 1 .. p - 1 : G[h].type = "SHB"
    BY <1>4, <1>6, <1>7, <1>8, <1>10, <1>12
  <2> QED  BY <1>11, <1>12, <2>1, Zenon DEF Described
<1> QED  BY <1>1, <1>2, <1>3, <1>13

\* The block a source may send next is written: the output still describes every
\* interface, every packet is described, and only a packet that its source did not
\* describe is left without an interface.
LEMMA WriteDescribed ==
    ASSUME Types, LastFileInv, phase = "running", conf' = conf,
           NEW pos \in [Ifaces -> Pos], NEW b \in BlockIn, Legal(b, pos), WriteBlock(b),
           NEW new, new = After(b, pos),
           DevicesSaved, Mapped(pos), FileMatches, AllDescribed
    PROVE  /\ new \in [Ifaces -> Pos]
           /\ phase' = phase \/ (phase' = "aborted" /\ ~pcapng_passthrough /\ b.type = "EPB" /\ ~b.known)
           /\ DevicesSaved' /\ Mapped(new)' /\ FileMatches' /\ AllDescribed'
<1> DEFINE s == b.who.src
<1>0. /\ s \in Ifaces /\ b.who.sec \in Nat /\ b.who.id \in Nat /\ conf \in Configs
      /\ b.who = [src |-> s, sec |-> b.who.sec, id |-> b.who.id]
      /\ b.type \in {"SHB", "IDB", "EPB"}
      /\ pos[s] \in Pos /\ pos[s].sec \in Nat /\ pos[s].n \in Nat
  BY DEF BlockIn, Types, SourceTypes, Pos
<1>a. /\ Ifaces' = Ifaces /\ (pcapng_passthrough' <=> pcapng_passthrough)
      /\ (\A t : IsDevice(t)' <=> IsDevice(t)) /\ (\A t : idb_id(t)' = idb_id(t))
      /\ Devices' = Devices
  <2>1. /\ Ifaces' = Ifaces /\ (pcapng_passthrough' <=> pcapng_passthrough)
        /\ (\A t : IsDevice(t)' <=> IsDevice(t)) /\ (\A t : idb_id(t)' = idb_id(t))
    BY ConfStays, Zenon
  <2> QED  BY <2>1 DEF Devices
<1>b. /\ saved_idbs \in Seq(SavedIdb) /\ Len(saved_idbs) \in Nat
      /\ src_iface_to_global \in [Ifaces -> Seq(Nat)]
      /\ \A t \in Ifaces : Len(src_iface_to_global[t]) \in Nat
  BY DEF Types, OutputTypes
<1>c. \A t \in Devices : t \in Ifaces /\ IsDevice(t) /\ idb_id(t) \in Nat
  BY <1>0, IdbIdType DEF Devices
<1>d. pcapng_passthrough => Ifaces = {1} /\ Devices = {} /\ ~IsDevice(1)
  BY <1>0, ConfFacts DEF pcapng_passthrough, Devices
<1>e. \A t \in Ifaces : pos[t].n \in Nat /\ pos[t].sec \in Nat
  BY DEF Pos
<1> HIDE DEF s
<1>1. CASE PassSectionHeader(b)
  <2>1. /\ b.type = "SHB" /\ pcapng_passthrough /\ saved_idbs' = << >> /\ phase' = phase
        /\ src_iface_to_global' = [src_iface_to_global EXCEPT ![s] = << >>]
        /\ WriteOut([type |-> "SHB"])
    BY <1>1 DEF PassSectionHeader, ForgetInterfaces, s
  <2>2. PICK o : o = [type |-> "SHB"]
    OBVIOUS
  <2>3. o \in BlockOut /\ o.type = "SHB" /\ WriteOut(o)
    BY <2>1, <2>2 DEF BlockOut
  <2>4. new = [pos EXCEPT ![s] = [sec |-> pos[s].sec + 1, n |-> 0]]
    BY <2>1 DEF After, s
  <2>5. new \in [Ifaces -> Pos] /\ new[s].n = 0 /\ s = 1
    BY <1>0, <1>d, <2>1, <2>4 DEF Pos
  <2>6. DevicesSaved'
    BY <1>a, <1>d, <2>1 DEF DevicesSaved
  <2>7. Mapped(new)'
    <3>1. src_iface_to_global'[1] = << >> /\ Len(src_iface_to_global'[1]) = 0
      BY <1>0, <1>b, <2>1, <2>5
    <3>2. \A j \in 1 .. new[1].n : FALSE
      BY <2>5
    <3> QED  BY <1>a, <1>d, <2>1, <2>5, <3>1, <3>2 DEF Mapped
  <2>8. Open(LastFile') = {}
    BY <2>3, AddedBlock, OpenAppend, Zenon
  <2>9. FileMatches'
    <3>1. Cardinality(Open(LastFile')) = 0 /\ Len(saved_idbs') = 0
      BY <2>1, <2>8, FS_EmptySet
    <3>2. \A g \in 1 .. Len(saved_idbs') : FALSE
      BY <3>1
    <3> QED  BY <3>1, <3>2 DEF FileMatches
  <2>10. AllDescribed'
    BY <2>3, DescribedStays
  <2> QED  BY <2>1, <2>5, <2>6, <2>7, <2>9, <2>10
<1>2. CASE AbsorbSectionHeader(b)
  <2>1. /\ b.type = "SHB" /\ ~pcapng_passthrough /\ phase' = phase /\ files' = files
        /\ src_iface_to_global' = [src_iface_to_global EXCEPT ![s] = << >>]
    BY <1>2 DEF AbsorbSectionHeader, ForgetInterfaces, s
  <2>2. new = [pos EXCEPT ![s] = [sec |-> pos[s].sec + 1, n |-> 0]]
    BY <2>1 DEF After, s
  <2>3. ~IsDevice(s)
    BY <2>1 DEF Legal, s
  <2>4. /\ new \in [Ifaces -> Pos] /\ new[s].n = 0
        /\ \A t \in Ifaces : t # s => new[t] = pos[t]
    BY <1>0, <2>2 DEF Pos
  <2>5. PICK dead : dead = {i \in DOMAIN saved_idbs : \E j \in DOMAIN src_iface_to_global[s] :
                              src_iface_to_global[s][j] = i - 1}
    OBVIOUS
  <2>6. saved_idbs' = [i \in DOMAIN saved_idbs |->
                        IF i \in dead THEN [deleted |-> TRUE, who |-> Dummy] ELSE saved_idbs[i]]
    BY <1>2, <2>5 DEF AbsorbSectionHeader, s
  <2>7. Len(saved_idbs') = Len(saved_idbs) /\ DOMAIN saved_idbs = 1 .. Len(saved_idbs)
    <3>1. DOMAIN saved_idbs = 1 .. Len(saved_idbs) /\ DOMAIN saved_idbs' = 1 .. Len(saved_idbs)
      BY <1>b, <2>6
    <3>2. saved_idbs' \in Seq(SavedIdb)
      BY WriteTypes
    <3> QED  BY <1>b, <3>1, <3>2
  <2>8. ASSUME NEW g \in Nat, NEW who, who.src # s, Saved(g, who) PROVE Saved(g, who)'
    <3>1. g + 1 \in 1 .. Len(saved_idbs) /\ saved_idbs[g + 1] = [deleted |-> FALSE, who |-> who]
      BY <2>8 DEF Saved
    <3>2. ASSUME g + 1 \in dead PROVE FALSE
      <4>1. PICK j \in DOMAIN src_iface_to_global[s] : src_iface_to_global[s][j] = (g + 1) - 1
        BY <2>5, <3>2
      <4>2. j \in 1 .. pos[s].n /\ src_iface_to_global[s][j] = g
        BY <1>0, <1>b, <2>3, <4>1 DEF Mapped
      <4>3. Saved(g, [src |-> s, sec |-> pos[s].sec, id |-> j - 1])
        BY <1>0, <2>3, <4>2, Zenon DEF Mapped
      <4>4. saved_idbs[g + 1].who = [src |-> s, sec |-> pos[s].sec, id |-> j - 1]
            /\ saved_idbs[g + 1].who = who
        BY <3>1, <4>3 DEF Saved
      <4> QED  BY <2>8, <4>4
    <3>3. saved_idbs'[g + 1] = saved_idbs[g + 1]
      BY <2>6, <2>7, <3>1, <3>2
    <3> QED  BY <2>7, <3>1, <3>3 DEF Saved
  <2>9. DevicesSaved'
    <3>1. ASSUME NEW d \in Devices PROVE Saved(idb_id(d), [src |-> d, sec |-> 0, id |-> 0])'
      <4>1. PICK w : w = [src |-> d, sec |-> 0, id |-> 0]
        OBVIOUS
      <4>2. w.src # s
        BY <1>c, <2>3, <4>1
      <4>3. PICK g \in Nat : g = idb_id(d)
        BY <1>c
      <4>4. Saved(g, w)
        BY <4>1, <4>3 DEF DevicesSaved
      <4>5. Saved(g, w)'
        BY <2>8, <4>2, <4>4
      <4>6. idb_id(d)' = g
        BY <1>a, <4>3
      <4> QED  BY <4>1, <4>5, <4>6
    <3> QED  BY <1>a, <3>1 DEF DevicesSaved
  <2>10. Mapped(new)'
    <3>1. ASSUME NEW t \in Ifaces, ~IsDevice(t), t # s
          PROVE  /\ Len(src_iface_to_global'[t]) = new[t].n
                 /\ \A j \in 1 .. new[t].n :
                       Saved(src_iface_to_global[t][j], [src |-> t, sec |-> new[t].sec, id |-> j - 1])'
      <4>1. src_iface_to_global'[t] = src_iface_to_global[t] /\ new[t] = pos[t]
        BY <1>b, <2>1, <2>4, <3>1
      <4>2. Len(src_iface_to_global[t]) = pos[t].n
        BY <3>1 DEF Mapped
      <4>3. ASSUME NEW j \in 1 .. new[t].n
            PROVE  Saved(src_iface_to_global[t][j], [src |-> t, sec |-> new[t].sec, id |-> j - 1])'
        <5>1. PICK w : w = [src |-> t, sec |-> pos[t].sec, id |-> j - 1]
          OBVIOUS
        <5>2. PICK g \in Nat : g = src_iface_to_global[t][j]
          BY <1>b, <4>1, <4>2
        <5>3. Saved(g, w)
          BY <3>1, <4>1, <5>1, <5>2 DEF Mapped
        <5>4. w.src # s
          BY <3>1, <5>1
        <5>5. Saved(g, w)'
          BY <2>8, <5>3, <5>4
        <5> QED  BY <4>1, <5>1, <5>2, <5>5
      <4> QED  BY <4>1, <4>2, <4>3
    <3>2. src_iface_to_global'[s] = << >> /\ Len(src_iface_to_global'[s]) = 0
      BY <1>0, <1>b, <2>1
    <3>3. \A j \in 1 .. new[s].n : FALSE
      BY <2>4
    <3>4. \A t \in Ifaces' : ~IsDevice(t)' =>
             /\ Len(src_iface_to_global'[t]) = new[t].n
             /\ \A j \in 1 .. new[t].n :
                   Saved(src_iface_to_global[t][j], [src |-> t, sec |-> new[t].sec, id |-> j - 1])'
      BY <1>a, <2>4, <3>1, <3>2, <3>3
    <3> QED  BY <1>a, <2>1, <3>4 DEF Mapped
  <2>11. LastFile' = LastFile
    BY <2>1 DEF LastFile
  <2>12. FileMatches'
    <3>1. Cardinality(Open(LastFile')) = Len(saved_idbs')
      BY <2>7, <2>11 DEF FileMatches
    <3>2. ASSUME NEW g \in 1 .. Len(saved_idbs'), ~saved_idbs'[g].deleted
          PROVE  \E p \in Open(LastFile') :
                    InterfaceNumber(LastFile', p) = g - 1 /\ LastFile'[p].who = saved_idbs'[g].who
      <4>1. saved_idbs'[g] = saved_idbs[g] /\ g \in 1 .. Len(saved_idbs)
        BY <2>6, <2>7, <3>2
      <4> QED  BY <2>11, <3>2, <4>1 DEF FileMatches
    <3> QED  BY <3>1, <3>2 DEF FileMatches
  <2>13. AllDescribed'
    <3>1. \A F, k : DescribedOrStray(F, k)' <=> DescribedOrStray(F, k)
      BY <1>a DEF DescribedOrStray
    <3> QED  BY <2>1, <3>1 DEF AllDescribed
  <2> QED  BY <2>1, <2>4, <2>9, <2>10, <2>12, <2>13
<1>3. CASE WriteInterface(b)
  <2>1. PICK m \in Nat : m = Len(saved_idbs)
    BY <1>b
  <2>2. PICK o : o = [type |-> "IDB", who |-> b.who]
    OBVIOUS
  <2>3. PICK e : e = [deleted |-> FALSE, who |-> b.who]
    OBVIOUS
  <2>4. /\ b.type = "IDB" /\ phase' = phase /\ WriteOut(o) /\ saved_idbs' = Append(saved_idbs, e)
        /\ src_iface_to_global' = [src_iface_to_global EXCEPT ![s] = Append(src_iface_to_global[s], m)]
    BY <1>3, <2>1, <2>2, <2>3 DEF WriteInterface, NextGlobalId, s
  <2>5. o \in BlockOut /\ o.type = "IDB" /\ o.who = b.who
    BY <1>0, <2>2, ConfFacts DEF BlockOut, Interface
  <2>6. ~IsDevice(s) /\ b.who = [src |-> s, sec |-> pos[s].sec, id |-> pos[s].n]
    BY <2>4 DEF Legal, s
  <2>7. new = [pos EXCEPT ![s] = [sec |-> pos[s].sec, n |-> pos[s].n + 1]]
    BY <2>4 DEF After, s
  <2>8. /\ new \in [Ifaces -> Pos] /\ new[s].n = pos[s].n + 1 /\ new[s].sec = pos[s].sec
        /\ \A t \in Ifaces : t # s => new[t] = pos[t]
    BY <1>0, <2>7 DEF Pos
  <2>9. /\ Len(saved_idbs') = m + 1 /\ saved_idbs'[m + 1] = e
        /\ \A i \in 1 .. m : saved_idbs'[i] = saved_idbs[i]
    BY <1>b, <2>1, <2>4
  <2>10. ASSUME NEW g \in Nat, NEW who, Saved(g, who) PROVE Saved(g, who)'
    <3>1. g + 1 \in 1 .. m /\ saved_idbs[g + 1] = [deleted |-> FALSE, who |-> who]
      BY <2>1, <2>10 DEF Saved
    <3>2. g + 1 \in 1 .. m + 1
      BY <3>1
    <3> QED  BY <2>9, <3>1, <3>2 DEF Saved
  <2>11. DevicesSaved'
    <3>1. ASSUME NEW d \in Devices PROVE Saved(idb_id(d), [src |-> d, sec |-> 0, id |-> 0])'
      <4>1. PICK w : w = [src |-> d, sec |-> 0, id |-> 0]
        OBVIOUS
      <4>2. PICK g \in Nat : g = idb_id(d)
        BY <1>c
      <4>3. Saved(g, w)
        BY <4>1, <4>2 DEF DevicesSaved
      <4>4. Saved(g, w)'
        BY <2>10, <4>3
      <4>5. idb_id(d)' = g
        BY <1>a, <4>2
      <4> QED  BY <4>1, <4>4, <4>5
    <3> QED  BY <1>a, <3>1 DEF DevicesSaved
  <2>13. /\ Len(src_iface_to_global'[s]) = pos[s].n + 1
         /\ src_iface_to_global'[s][pos[s].n + 1] = m
         /\ \A j \in 1 .. pos[s].n : src_iface_to_global'[s][j] = src_iface_to_global[s][j]
         /\ \A t \in Ifaces : t # s => src_iface_to_global'[t] = src_iface_to_global[t]
    <3>1. PICK map : map = src_iface_to_global[s]
      OBVIOUS
    <3>2. map \in Seq(Nat) /\ Len(map) = pos[s].n
      BY <1>0, <1>b, <2>6, <3>1 DEF Mapped
    <3>3. src_iface_to_global'[s] = Append(map, m)
      BY <1>0, <1>b, <2>4, <3>1
    <3>4. \A t \in Ifaces : t # s => src_iface_to_global'[t] = src_iface_to_global[t]
      BY <1>b, <2>4
    <3> QED  BY <1>0, <2>1, <3>1, <3>2, <3>3, <3>4
  <2>14. ASSUME NEW t \in Ifaces, ~IsDevice(t), NEW j \in 1 .. new[t].n
         PROVE  Saved(src_iface_to_global[t][j], [src |-> t, sec |-> new[t].sec, id |-> j - 1])'
    <3>1. PICK w : w = [src |-> t, sec |-> new[t].sec, id |-> j - 1]
      OBVIOUS
    <3>2. PICK g : g = src_iface_to_global'[t][j]
      OBVIOUS
    <3>3. CASE t = s /\ j = pos[s].n + 1
      <4>1. g = m /\ w = b.who
        BY <1>0, <2>6, <2>8, <2>13, <3>1, <3>2, <3>3
      <4>2. Saved(g, w)'
        <5>1. m + 1 \in 1 .. Len(saved_idbs') /\ saved_idbs'[m + 1] = [deleted |-> FALSE, who |-> w]
          BY <2>1, <2>3, <2>9, <4>1
        <5> QED  BY <4>1, <5>1 DEF Saved
      <4> QED  BY <3>1, <3>2, <4>2
    <3>4. CASE ~(t = s /\ j = pos[s].n + 1)
      <4>1. j \in 1 .. pos[t].n /\ new[t].sec = pos[t].sec
        BY <1>0, <2>8, <3>4
      <4>2. g = src_iface_to_global[t][j]
        BY <2>13, <3>2, <4>1
      <4>3. g \in Nat
        BY <1>b, <2>14, <4>1, <4>2 DEF Mapped
      <4>4. Saved(g, w)
        BY <2>14, <3>1, <4>1, <4>2 DEF Mapped
      <4>5. Saved(g, w)'
        BY <2>10, <4>3, <4>4
      <4> QED  BY <3>1, <3>2, <4>5
    <3> QED  BY <3>3, <3>4
  <2>15. Mapped(new)'
    <3>1. ASSUME NEW t \in Ifaces, ~IsDevice(t) PROVE Len(src_iface_to_global'[t]) = new[t].n
      <4>1. Len(src_iface_to_global[t]) = pos[t].n
        BY <3>1 DEF Mapped
      <4> QED  BY <2>8, <2>13, <4>1
    <3>2. ASSUME NEW t \in Ifaces, ~IsDevice(t), pcapng_passthrough
          PROVE  /\ Len(saved_idbs') = new[t].n
                 /\ \A j \in 1 .. new[t].n : src_iface_to_global'[t][j] = j - 1
      <4>1. t = s /\ m = pos[s].n
            /\ \A j \in 1 .. pos[s].n : src_iface_to_global[s][j] = j - 1
        BY <1>0, <1>d, <2>1, <2>6, <3>2 DEF Mapped
      <4>2. Len(saved_idbs') = new[t].n
        BY <2>8, <2>9, <4>1
      <4>3. ASSUME NEW j \in 1 .. new[t].n PROVE src_iface_to_global'[t][j] = j - 1
        <5>1. CASE j = pos[s].n + 1
          BY <1>0, <2>13, <4>1, <5>1
        <5>2. CASE j # pos[s].n + 1
          <6>1. j \in 1 .. pos[s].n
            BY <1>0, <2>8, <4>1, <5>2
          <6> QED  BY <2>13, <4>1, <6>1
        <5> QED  BY <5>1, <5>2
      <4> QED  BY <4>2, <4>3
    <3>3. \A t \in Ifaces' : ~IsDevice(t)' =>
             /\ Len(src_iface_to_global'[t]) = new[t].n
             /\ \A j \in 1 .. new[t].n :
                   Saved(src_iface_to_global[t][j], [src |-> t, sec |-> new[t].sec, id |-> j - 1])'
             /\ pcapng_passthrough' =>
                   /\ Len(saved_idbs') = new[t].n
                   /\ \A j \in 1 .. new[t].n : src_iface_to_global'[t][j] = j - 1
      BY <1>a, <2>14, <3>1, <3>2
    <3> QED  BY <3>3 DEF Mapped
  <2>16. FileMatches'
    <3>1. PICK F : F = LastFile
      OBVIOUS
    <3>2. PICK G : G = LastFile'
      OBVIOUS
    <3>3. F \in Seq(BlockOut) /\ G = Append(F, o) /\ Len(F) \in Nat
          /\ (\A k \in 1 .. Len(F) : G[k] = F[k]) /\ G[Len(F) + 1] = o
      BY <2>4, <2>5, <3>1, <3>2, AddedBlock
    <3>4. Open(G) = Open(F) \cup {Len(F) + 1} /\ InterfaceNumber(G, Len(F) + 1) = Cardinality(Open(F))
          /\ \A p \in 1 .. Len(F) : InterfaceNumber(G, p) = InterfaceNumber(F, p)
      BY <2>5, <3>3, OpenAppend, Zenon
    <3>5. IsFiniteSet(Open(F)) /\ Open(F) \subseteq 1 .. Len(F)
      BY <3>3, OpenFinite
    <3>6. Cardinality(Open(F)) = m
      BY <2>1, <3>1 DEF FileMatches
    <3>7. Len(F) + 1 \notin Open(F)
      BY <3>3, <3>5
    <3>8. Cardinality(Open(G)) = m + 1
      BY <3>4, <3>5, <3>6, <3>7, FS_AddElement
    <3>9. ASSUME NEW g \in 1 .. m + 1, ~saved_idbs'[g].deleted
          PROVE  \E p \in Open(G) : InterfaceNumber(G, p) = g - 1 /\ G[p].who = saved_idbs'[g].who
      <4>1. CASE g = m + 1
        <5>1. saved_idbs'[g].who = b.who
          BY <2>3, <2>9, <4>1
        <5>2. InterfaceNumber(G, Len(F) + 1) = g - 1 /\ G[Len(F) + 1].who = b.who
          BY <2>1, <2>5, <3>3, <3>4, <3>6, <4>1
        <5> QED  BY <3>4, <5>1, <5>2
      <4>2. CASE g # m + 1
        <5>1. g \in 1 .. m /\ saved_idbs'[g] = saved_idbs[g]
          BY <2>1, <2>9, <4>2
        <5>2. PICK p \in Open(F) : InterfaceNumber(F, p) = g - 1 /\ F[p].who = saved_idbs[g].who
          BY <2>1, <3>1, <3>9, <5>1 DEF FileMatches
        <5>3. InterfaceNumber(G, p) = InterfaceNumber(F, p) /\ G[p] = F[p] /\ p \in Open(G)
          BY <3>3, <3>4, <3>5
        <5> QED  BY <5>1, <5>2, <5>3
      <4> QED  BY <4>1, <4>2
    <3> QED  BY <2>9, <3>2, <3>8, <3>9 DEF FileMatches
  <2>17. AllDescribed'
    BY <2>4, <2>5, DescribedStays
  <2> QED  BY <2>4, <2>8, <2>11, <2>15, <2>16, <2>17
<1>4. b.type = "EPB" /\ b.known => IsMapped(b) /\ OutputInterface(b) \in Nat /\ Saved(OutputInterface(b), b.who)
  <2> SUFFICES ASSUME b.type = "EPB", b.known
               PROVE  IsMapped(b) /\ OutputInterface(b) \in Nat /\ Saved(OutputInterface(b), b.who)
    OBVIOUS
  <2>1. CASE IsDevice(s)
    <3>1. s \in Devices /\ b.who = [src |-> s, sec |-> 0, id |-> 0]
      BY <1>0, <2>1 DEF Devices, Legal, s
    <3>2. IsMapped(b) /\ OutputInterface(b) = idb_id(s)
      BY <2>1 DEF IsMapped, OutputInterface, s
    <3> QED  BY <1>c, <3>1, <3>2 DEF DevicesSaved
  <2>2. CASE ~IsDevice(s)
    <3>1. b.who.sec = pos[s].sec /\ b.who.id < pos[s].n
      BY <2>2 DEF Legal, s
    <3>2. PICK j \in 1 .. pos[s].n : j = b.who.id + 1
      BY <1>0, <3>1
    <3>3. b.who = [src |-> s, sec |-> pos[s].sec, id |-> j - 1]
      BY <1>0, <3>1, <3>2
    <3>4. Len(src_iface_to_global[s]) = pos[s].n /\ Saved(src_iface_to_global[s][j], b.who)
          /\ (pcapng_passthrough => src_iface_to_global[s][j] = j - 1)
      BY <1>0, <2>2, <3>3 DEF Mapped
    <3>5. IsMapped(b)
      BY <3>1, <3>4 DEF IsMapped, s
    <3>6. OutputInterface(b) = src_iface_to_global[s][j]
      BY <1>0, <2>2, <3>2, <3>4 DEF OutputInterface, s
    <3>7. src_iface_to_global[s][j] \in Nat
      BY <1>0, <1>b, <3>4
    <3> QED  BY <3>4, <3>5, <3>6, <3>7
  <2> QED  BY <2>1, <2>2
<1>f. b.type = "EPB" /\ ~b.known /\ IsMapped(b) => pcapng_passthrough
  <2> SUFFICES ASSUME b.type = "EPB", ~b.known, IsMapped(b), ~pcapng_passthrough PROVE FALSE
    OBVIOUS
  <2>1. ~IsDevice(s) /\ ~(b.who.id < pos[s].n)
    BY DEF Legal, s
  <2>2. Len(src_iface_to_global[s]) = pos[s].n
    BY <1>0, <2>1 DEF Mapped
  <2> QED  BY <2>1, <2>2 DEF IsMapped, s
<1>5. CASE WritePacket(b)
  <2>1. PICK o : o = [type |-> "EPB", iface |-> OutputInterface(b), known |-> b.known, who |-> b.who]
    OBVIOUS
  <2>2. /\ b.type = "EPB" /\ WriteOut(o) /\ phase' = phase /\ UNCHANGED <<saved_idbs, src_iface_to_global>>
    BY <1>5, <2>1 DEF WritePacket
  <2>a. IsMapped(b)
    BY <1>5 DEF WritePacket
  <2>3. o \in BlockOut
    BY <1>5, <2>1, PacketOut
  <2>4. o.type = "EPB" /\ o.iface = OutputInterface(b) /\ o.who = b.who /\ o.known = b.known
    BY <2>1
  <2>5. new = pos
    BY <2>2 DEF After
  <2>6. DevicesSaved' /\ Mapped(new)'
    BY <1>a, <2>2, <2>5 DEF DevicesSaved, Mapped, Saved
  <2>7. Described(LastFile', Len(LastFile) + 1) \/ (pcapng_passthrough /\ ~o.known)
    <3>1. CASE b.known
      BY <1>4, <2>2, <2>3, <2>4, <3>1, PacketDescribed
    <3>2. CASE ~b.known
      BY <1>f, <2>2, <2>4, <2>a, <3>2
    <3> QED  BY <3>1, <3>2
  <2>8. AllDescribed'
    BY <2>2, <2>3, <2>7, DescribedStays
  <2>9. FileMatches'
    <3>1. PICK F : F = LastFile
      OBVIOUS
    <3>2. PICK G : G = LastFile'
      OBVIOUS
    <3>3. F \in Seq(BlockOut) /\ G = Append(F, o) /\ \A k \in 1 .. Len(F) : G[k] = F[k]
      BY <2>2, <2>3, <3>1, <3>2, AddedBlock
    <3>4. Open(G) = Open(F) /\ \A p \in 1 .. Len(F) : InterfaceNumber(G, p) = InterfaceNumber(F, p)
      BY <2>3, <2>4, <3>3, OpenAppend, Zenon
    <3>5. Open(F) \subseteq 1 .. Len(F)
      BY <3>3, OpenFinite
    <3> QED  BY <2>2, <3>1, <3>2, <3>3, <3>4, <3>5 DEF FileMatches
  <2> QED  BY <2>2, <2>5, <2>6, <2>8, <2>9
<1>6. CASE PacketNotMapped(b)
  <2>1. /\ b.type = "EPB" /\ ~IsMapped(b) /\ phase' = "aborted"
        /\ UNCHANGED <<saved_shb, saved_idbs, src_iface_to_global, files>>
    BY <1>6 DEF PacketNotMapped, outVars
  <2>2. ~b.known
    BY <1>4, <2>1
  <2>3. ~pcapng_passthrough
    BY <2>1 DEF IsMapped
  <2>4. new = pos
    BY <2>1 DEF After
  <2>5. DevicesSaved' /\ Mapped(new)'
    BY <1>a, <2>1, <2>4 DEF DevicesSaved, Mapped, Saved
  <2>6. FileMatches' /\ AllDescribed'
    BY <1>a, <2>1 DEF FileMatches, AllDescribed, DescribedOrStray, LastFile
  <2> QED  BY <2>1, <2>2, <2>3, <2>4, <2>5, <2>6
<1> QED  BY <1>1, <1>2, <1>3, <1>5, <1>6 DEF WriteBlock

\* Where the sources are, and the places st between there and the last block that
\* was written: the queue leads from one to the other.
ReadPos == [s \in Ifaces |-> [sec |-> section[s], n |-> interfaces[s]]]

Replay(st) ==
    /\ st \in [1 .. Len(queue) + 1 -> [Ifaces -> Pos]]
    /\ \A i \in 1 .. Len(queue) : Legal(queue[i], st[i]) /\ st[i + 1] = After(queue[i], st[i])
    /\ st[Len(queue) + 1] = ReadPos
    /\ Mapped(st[1])

\* A packet in the queue whose interface is not described is held against its source.
StrayNoted ==
    stray = {} => \A i \in 1 .. Len(queue) : queue[i].type = "EPB" => queue[i].known

RunningInv == NothingSaved /\ DevicesSaved /\ FileMatches /\ StrayNoted /\ \E st : Replay(st)

DescribedInv ==
    conf.packet_limit = 0 =>
       /\ phase = "aborted" => stray # {} /\ ~pcapng_passthrough
       /\ AllDescribed
       /\ phase = "running" => RunningInv
-----------------------------------------------------------------------------

\* A block is read, and a source that has not described its interface is noted.
StrayKept(b) ==
    /\ stray # {} => stray' # {}
    /\ b.type = "EPB" /\ ~b.known => stray' # {}

\* A block that its source may send is delivered: written, or appended to the queue.
LEMMA DeliverDescribed ==
    ASSUME ReportInv, DescribedInv, phase = "running", conf' = conf, conf.packet_limit = 0,
           NEW b \in BlockIn, Deliver(b), Legal(b, ReadPos), ReadPos' = After(b, ReadPos),
           StrayKept(b),
           pcapng_passthrough /\ saved_shb = NoShb /\ queue = << >> => b.type = "SHB"
    PROVE  DescribedInv'
<1>1. Types /\ OutInv /\ queue \in Seq(BlockIn) /\ Len(queue) \in Nat
  BY DEF ReportInv, Types, SourceTypes
<1>2. AllDescribed /\ NothingSaved /\ DevicesSaved /\ FileMatches /\ StrayNoted /\ LastFileInv
  BY DEF DescribedInv, RunningInv, ReportInv, OutInv
<1>3. PICK st : Replay(st)
  BY DEF DescribedInv, RunningInv
<1>4. /\ (pcapng_passthrough' <=> pcapng_passthrough) /\ Ifaces' = Ifaces
      /\ (\A t : IsDevice(t)' <=> IsDevice(t)) /\ (\A t : idb_id(t)' = idb_id(t))
  BY ConfStays, Zenon
<1>5. PICK pos : pos = ReadPos
  OBVIOUS
<1>6. PICK new : new = After(b, pos)
  OBVIOUS
<1>7. pos \in [Ifaces -> Pos] /\ Legal(b, pos) /\ ReadPos' = new /\ st[Len(queue) + 1] = pos
  <2>1. pos \in [Ifaces -> Pos]
    BY <1>1, <1>5 DEF ReadPos, Pos, Types, SourceTypes
  <2> QED  BY <1>3, <1>5, <1>6, <2>1 DEF Replay
<1>8. CASE ~conf.use_threads /\ WriteBlock(b) /\ queue' = queue
  <2>1. queue = << >> /\ Len(queue) = 0
    BY <1>8 DEF ReportInv, SourcesInv
  <2>2. Mapped(pos)
    BY <1>3, <1>7, <2>1 DEF Replay
  <2>3. /\ new \in [Ifaces -> Pos]
        /\ phase' = phase \/ (phase' = "aborted" /\ ~pcapng_passthrough /\ b.type = "EPB" /\ ~b.known)
        /\ DevicesSaved' /\ Mapped(new)' /\ FileMatches' /\ AllDescribed'
    BY <1>1, <1>2, <1>6, <1>7, <1>8, <2>2, WriteDescribed
  <2>4. pcapng_passthrough => saved_shb' # NoShb
    BY <1>1, <1>8, <2>1, WriteReadable
  <2>5. NothingSaved'
    BY <1>4, <2>4 DEF NothingSaved
  <2>6. PICK one : one = [i \in 1 .. 1 |-> new]
    OBVIOUS
  <2>7. Len(queue') = 0 /\ one[1] = new /\ one \in [1 .. 0 + 1 -> [Ifaces -> Pos]]
    BY <1>8, <2>1, <2>3, <2>6
  <2>8. Replay(one)'
    BY <1>4, <1>7, <2>3, <2>7 DEF Replay
  <2>9. StrayNoted'
    BY <2>7 DEF StrayNoted
  <2>10. phase' = "aborted" => stray' # {} /\ ~pcapng_passthrough'
    BY <1>4, <2>3 DEF StrayKept
  <2> QED  BY <2>3, <2>5, <2>8, <2>9, <2>10 DEF DescribedInv, RunningInv
<1>9. CASE queue' = Append(queue, b) /\ UNCHANGED <<phase, outVars>>
  <2>1. UNCHANGED <<phase, saved_shb, saved_idbs, src_iface_to_global, files>>
    BY <1>9 DEF outVars
  <2>2. PICK n \in Nat : n = Len(queue)
    BY <1>1
  <2>3. Len(queue') = n + 1 /\ queue'[n + 1] = b /\ \A i \in 1 .. n : queue'[i] = queue[i]
    BY <1>1, <1>9, <2>2
  <2>4. new \in [Ifaces -> Pos]
    <3>1. b.who.src \in Ifaces
      BY DEF BlockIn
    <3>2. pos[b.who.src].sec \in Nat /\ pos[b.who.src].n \in Nat
      BY <1>7, <3>1 DEF Pos
    <3>3. /\ [sec |-> pos[b.who.src].sec + 1, n |-> 0] \in Pos
          /\ [sec |-> pos[b.who.src].sec, n |-> pos[b.who.src].n + 1] \in Pos
      BY <3>2 DEF Pos
    <3> QED  BY <1>6, <1>7, <3>1, <3>3 DEF After
  <2>5. PICK more : more = [i \in 1 .. n + 2 |-> IF i = n + 2 THEN new ELSE st[i]]
    OBVIOUS
  <2>6. st \in [1 .. n + 1 -> [Ifaces -> Pos]] /\ st[n + 1] = pos
    BY <1>3, <1>7, <2>2 DEF Replay
  <2>7. /\ more \in [1 .. n + 2 -> [Ifaces -> Pos]] /\ more[n + 2] = new
        /\ \A i \in 1 .. n + 1 : more[i] = st[i]
    BY <2>4, <2>5, <2>6
  <2>8. ASSUME NEW i \in 1 .. n + 1
        PROVE  Legal(queue'[i], more[i]) /\ more[i + 1] = After(queue'[i], more[i])
    <3>1. CASE i = n + 1
      BY <1>6, <1>7, <2>3, <2>6, <2>7, <3>1
    <3>2. CASE i # n + 1
      <4>1. i \in 1 .. n /\ i + 1 \in 1 .. n + 1
        BY <3>2
      <4>2. Legal(queue[i], st[i]) /\ st[i + 1] = After(queue[i], st[i])
        BY <1>3, <2>2, <4>1 DEF Replay
      <4> QED  BY <2>3, <2>7, <4>1, <4>2
    <3> QED  BY <3>1, <3>2
  <2>9. \A c, p : Legal(c, p)' <=> Legal(c, p)
    BY <1>4 DEF Legal
  <2>10. Mapped(more[1])'
    <3>1. Mapped(st[1]) /\ more[1] = st[1]
      BY <1>3, <2>7 DEF Replay
    <3> QED  BY <1>4, <2>1, <3>1 DEF Mapped, Saved
  <2>11. Replay(more)'
    <3>1. more \in [1 .. Len(queue') + 1 -> [Ifaces' -> Pos]] /\ more[Len(queue') + 1] = ReadPos'
      <4>1. (n + 1) + 1 = n + 2
        OBVIOUS
      <4> QED  BY <1>4, <1>7, <2>3, <2>7, <4>1
    <3> QED  BY <2>3, <2>8, <2>9, <2>10, <3>1 DEF Replay
  <2>12. NothingSaved' /\ DevicesSaved' /\ FileMatches' /\ AllDescribed'
    <3>1. Devices' = Devices
      BY <1>4 DEF Devices
    <3> QED  BY <1>2, <1>4, <2>1, <3>1 DEF NothingSaved, DevicesSaved, Saved, FileMatches, AllDescribed, DescribedOrStray, LastFile
  <2>13. StrayNoted'
    <3> SUFFICES ASSUME stray' = {}, NEW i \in 1 .. n + 1, queue'[i].type = "EPB" PROVE queue'[i].known
      BY <2>3 DEF StrayNoted
    <3>1. stray = {}
      BY DEF StrayKept
    <3>2. CASE i = n + 1
      BY <2>3, <3>2 DEF StrayKept
    <3>3. CASE i # n + 1
      <4>1. i \in 1 .. n
        BY <3>3
      <4> QED  BY <1>2, <2>2, <2>3, <3>1, <4>1 DEF StrayNoted
    <3> QED  BY <3>2, <3>3
  <2>14. phase' # "aborted"
    BY <2>1
  <2> QED  BY <2>1, <2>11, <2>12, <2>13, <2>14 DEF DescribedInv, RunningInv
<1> QED  BY <1>8, <1>9 DEF Deliver

\* DescribedInv holds when the first file is started: only the devices have interfaces.
LEMMA InitDescribed == ASSUME Init PROVE DescribedInv
<1>1. Types /\ conf \in Configs /\ ReportInv
  BY InitTypes, InitReadable DEF Types, SourceTypes
<1>2. /\ saved_idbs = DeviceIdbs /\ queue = << >> /\ Len(queue) = 0 /\ phase = "running"
      /\ src_iface_to_global = [s \in Ifaces |-> << >>]
      /\ section = [s \in Ifaces |-> 0] /\ interfaces = [s \in Ifaces |-> 0]
      /\ saved_shb = NoShb
  BY DEF Init
<1>3. /\ DeviceIdbs \in Seq(SavedIdb) /\ Len(DeviceIdbs) = Cardinality(Devices)
      /\ \A s \in Devices :
            /\ idb_id(s) \in Nat /\ idb_id(s) + 1 \in 1 .. Len(DeviceIdbs)
            /\ DeviceIdbs[idb_id(s) + 1] =
                  [deleted |-> FALSE, who |-> [src |-> s, sec |-> 0, id |-> 0]]
  BY <1>1, DeviceIdbsType
<1>4. pcapng_passthrough => Devices = {} /\ Ifaces = {1}
  BY <1>1, ConfFacts DEF pcapng_passthrough, Devices
<1>5. pcapng_passthrough => saved_idbs = << >> /\ Len(saved_idbs) = 0
  <2> SUFFICES ASSUME pcapng_passthrough PROVE saved_idbs = << >> /\ Len(saved_idbs) = 0
    OBVIOUS
  <2>1. Cardinality(Devices) = 0
    BY <1>4, FS_EmptySet
  <2> QED  BY <1>2, <1>3, <2>1
<1>6. NothingSaved
  BY <1>5 DEF NothingSaved
<1>7. DevicesSaved
  BY <1>2, <1>3 DEF DevicesSaved, Saved
<1>8. PICK F : F = FileStart(NoShb, DeviceIdbs)
  OBVIOUS
<1>9. files = <<F>> /\ Len(files) = 1 /\ LastFile = F /\ files[1] = F
  BY <1>8 DEF Init, LastFile
<1>10. /\ \A k \in 1 .. Len(F) : F[k].type # "EPB"
       /\ Cardinality(Open(F)) = Len(DeviceIdbs)
       /\ \A g \in 1 .. Len(DeviceIdbs) : ~DeviceIdbs[g].deleted =>
             \E p \in Open(F) : InterfaceNumber(F, p) = g - 1 /\ F[p].who = DeviceIdbs[g].who
  <2>1. pcapng_passthrough => DeviceIdbs = << >>
    BY <1>2, <1>5
  <2>2. PICK idbs : idbs = DeviceIdbs
    OBVIOUS
  <2> QED  BY <1>3, <1>8, <2>1, <2>2, OpenStart
<1>11. FileMatches
  BY <1>2, <1>9, <1>10 DEF FileMatches
<1>12. AllDescribed
  BY <1>9, <1>10 DEF AllDescribed
<1>13. PICK zero : zero = [s \in Ifaces |-> [sec |-> 0, n |-> 0]]
  OBVIOUS
<1>14. zero \in [Ifaces -> Pos] /\ zero = ReadPos /\ \A s \in Ifaces : zero[s].n = 0
  BY <1>2, <1>13 DEF ReadPos, Pos
<1>15. Mapped(zero)
  <2>1. \A s \in Ifaces : Len(src_iface_to_global[s]) = 0 /\ \A j \in 1 .. zero[s].n : FALSE
    BY <1>2, <1>14
  <2> QED  BY <1>5, <1>14, <2>1 DEF Mapped
<1>16. PICK one : one = [i \in 1 .. 1 |-> zero]
  OBVIOUS
<1>17. one[1] = zero /\ one \in [1 .. 0 + 1 -> [Ifaces -> Pos]]
  BY <1>14, <1>16
<1>18. Replay(one)
  BY <1>2, <1>14, <1>15, <1>17 DEF Replay
<1>19. StrayNoted
  BY <1>2 DEF StrayNoted
<1> QED  BY <1>2, <1>6, <1>7, <1>11, <1>12, <1>18, <1>19 DEF DescribedInv, RunningInv

\* DescribedInv is kept by every step.
LEMMA NextDescribed == ASSUME ReportInv, DescribedInv, [Next]_vars PROVE DescribedInv'
<1>a. /\ conf' = conf /\ conf \in Configs /\ Types
      /\ (pcapng_passthrough' <=> pcapng_passthrough) /\ Ifaces' = Ifaces
      /\ (\A t : IsDevice(t)' <=> IsDevice(t)) /\ (\A t : idb_id(t)' = idb_id(t))
  <2>1. conf' = conf
    BY DEF Next, Read, ReadShb, ReadSection, ReadInterface, ReadPacket, Dequeue, SwitchFile,
           SwitchFileMisread, Stop, Update, vars
  <2>2. conf \in Configs /\ Types
    BY DEF ReportInv, Types, SourceTypes
  <2> QED  BY <2>1, <2>2, ConfStays, Zenon
<1>b. Devices' = Devices
  BY <1>a DEF Devices
<1>c. /\ cap_pipe_state \in [Ifaces -> {"device", "shb", "header"}]
      /\ section \in [Ifaces -> Nat] /\ interfaces \in [Ifaces -> Nat] /\ 1 \in Ifaces
      /\ (pcapng_passthrough => Ifaces = {1})
  <2>1. 1 \in Ifaces /\ (pcapng_passthrough => Ifaces = {1})
    BY <1>a, ConfFacts DEF pcapng_passthrough
  <2> QED  BY <1>a, <2>1 DEF Types, SourceTypes
<1>d. \A c, p : Legal(c, p)' <=> Legal(c, p)
  BY <1>a DEF Legal
<1> SUFFICES ASSUME conf.packet_limit = 0 PROVE DescribedInv'
  BY <1>a DEF DescribedInv
<1>e. /\ phase = "aborted" => stray # {} /\ ~pcapng_passthrough
      /\ AllDescribed /\ (phase = "running" => RunningInv)
  BY DEF DescribedInv
<1>f. \A F, k : DescribedOrStray(F, k)' <=> DescribedOrStray(F, k)
  BY <1>a DEF DescribedOrStray
<1>g. ASSUME UNCHANGED <<phase, section, interfaces, queue, saved_shb, saved_idbs, src_iface_to_global,
                         files, stray>>
      PROVE  DescribedInv'
  <2>1. AllDescribed'
    BY <1>e, <1>f, <1>g DEF AllDescribed
  <2>2. phase' = "aborted" => stray' # {} /\ ~pcapng_passthrough'
    BY <1>a, <1>e, <1>g
  <2>3. phase' = "running" => RunningInv'
    <3> SUFFICES ASSUME phase = "running" PROVE RunningInv'
      BY <1>g
    <3>1. PICK st : Replay(st)
      BY <1>e DEF RunningInv
    <3>2. Replay(st)'
      BY <1>a, <1>d, <1>g, <3>1 DEF Replay, Mapped, Saved, ReadPos
    <3>3. NothingSaved' /\ DevicesSaved' /\ FileMatches' /\ StrayNoted'
      BY <1>a, <1>b, <1>e, <1>g
         DEF RunningInv, NothingSaved, DevicesSaved, Saved, FileMatches, LastFile, StrayNoted
    <3> QED  BY <3>2, <3>3 DEF RunningInv
  <2> QED  BY <2>1, <2>2, <2>3 DEF DescribedInv
<1>1. ASSUME NEW s \in Ifaces, NEW swapped \in BOOLEAN, ReadShb(s, swapped) PROVE DescribedInv'
  BY <1>1, <1>g DEF ReadShb, outVars
<1>2. ASSUME NEW s \in Ifaces, ReadSection(s) PROVE DescribedInv'
  <2>1. PICK b : b = [type |-> "SHB", swapped |-> byte_swapped[s],
                      who |-> [src |-> s, sec |-> section[s] + 1, id |-> 0]]
    OBVIOUS
  <2>2. b \in BlockIn /\ Deliver(b) /\ phase = "running"
    BY <1>2, <1>a, <2>1, BlocksRead DEF ReadSection, Types
  <2>3. b.type = "SHB" /\ b.who = [src |-> s, sec |-> section[s] + 1, id |-> 0] /\ b.who.src = s
    BY <2>1
  <2>4. /\ cap_pipe_state[s] = "shb"
        /\ section' = [section EXCEPT ![s] = section[s] + 1] /\ interfaces' = [interfaces EXCEPT ![s] = 0]
    BY <1>2 DEF ReadSection
  <2>5. ~IsDevice(s)
    BY <2>4 DEF ReportInv, SourcesInv
  <2>6. ReadPos[s] = [sec |-> section[s], n |-> interfaces[s]]
    BY DEF ReadPos
  <2>7. Legal(b, ReadPos)
    BY <2>3, <2>5, <2>6 DEF Legal
  <2>8. ReadPos' = After(b, ReadPos)
    <3>1. After(b, ReadPos) = [ReadPos EXCEPT ![s] = [sec |-> section[s] + 1, n |-> 0]]
      <4>1. ReadPos[s].sec = section[s]
        BY <2>6
      <4> QED  BY <2>3, <4>1, Zenon DEF After
    <3> QED  BY <1>a, <1>c, <2>4, <3>1 DEF ReadPos
  <2>9. StrayKept(b)
    BY <1>2, <2>3 DEF ReadSection, StrayKept
  <2> QED  BY <1>a, <2>2, <2>3, <2>7, <2>8, <2>9, DeliverDescribed
<1>3. ASSUME NEW s \in Ifaces, ReadInterface(s) PROVE DescribedInv'
  <2>1. PICK b : b = [type |-> "IDB", who |-> [src |-> s, sec |-> section[s], id |-> interfaces[s]]]
    OBVIOUS
  <2>2. b \in BlockIn /\ Deliver(b) /\ phase = "running"
    BY <1>3, <1>a, <2>1, BlocksRead DEF ReadInterface, Types
  <2>3. b.type = "IDB" /\ b.who = [src |-> s, sec |-> section[s], id |-> interfaces[s]] /\ b.who.src = s
    BY <2>1
  <2>4. /\ cap_pipe_state[s] = "header" /\ section' = section
        /\ interfaces' = [interfaces EXCEPT ![s] = interfaces[s] + 1]
    BY <1>3 DEF ReadInterface
  <2>5. ~IsDevice(s)
    BY <2>4 DEF ReportInv, SourcesInv
  <2>6. ReadPos[s] = [sec |-> section[s], n |-> interfaces[s]]
    BY DEF ReadPos
  <2>7. Legal(b, ReadPos)
    BY <2>3, <2>5, <2>6 DEF Legal
  <2>8. ReadPos' = After(b, ReadPos)
    <3>1. After(b, ReadPos) = [ReadPos EXCEPT ![s] = [sec |-> section[s], n |-> interfaces[s] + 1]]
      <4>1. ReadPos[s].sec = section[s] /\ ReadPos[s].n = interfaces[s]
        BY <2>6
      <4>2. b.type # "SHB"
        BY <2>3
      <4> QED  BY <2>3, <4>1, <4>2, Zenon DEF After
    <3> QED  BY <1>a, <1>c, <2>4, <3>1 DEF ReadPos
  <2>9. ~(pcapng_passthrough /\ saved_shb = NoShb /\ queue = << >>)
    BY <1>c, <2>2, <2>4 DEF ReportInv, ShbFirst
  <2>10. StrayKept(b)
    BY <1>3, <2>3 DEF ReadInterface, StrayKept
  <2> QED  BY <1>a, <2>2, <2>7, <2>8, <2>9, <2>10, DeliverDescribed
<1>4. ASSUME NEW s \in Ifaces, NEW id \in 0 .. interfaces[s], ReadPacket(s, id) PROVE DescribedInv'
  <2>1. PICK b : b = [type |-> "EPB", known |-> IsKnown(s, id), who |-> [src |-> s, sec |-> section[s], id |-> id]]
    OBVIOUS
  <2>2. b \in BlockIn /\ Deliver(b) /\ phase = "running" /\ id \in Nat
    <3>1. id \in Nat
      BY <1>c
    <3>2. IsKnown(s, id) \in BOOLEAN
      BY DEF IsKnown
    <3> QED  BY <1>4, <1>a, <2>1, <3>1, <3>2, BlocksRead DEF ReadPacket, Types
  <2>3. b.type = "EPB" /\ b.who = [src |-> s, sec |-> section[s], id |-> id] /\ b.who.src = s
        /\ b.who.sec = section[s] /\ b.who.id = id
    BY <2>1
  <2>4. /\ section' = section /\ interfaces' = interfaces
        /\ \/ cap_pipe_state[s] = "header"
           \/ cap_pipe_state[s] = "device" /\ id = 0
    BY <1>4 DEF ReadPacket
  <2>5. IF IsDevice(s) THEN section[s] = 0 /\ id = 0 /\ b.known ELSE b.known <=> id < interfaces[s]
    <3>1. b.known <=> IsKnown(s, id)
      BY <2>1
    <3> QED  BY <2>4, <3>1 DEF ReportInv, SourcesInv, IsKnown
  <2>6. ReadPos[s] = [sec |-> section[s], n |-> interfaces[s]]
    BY DEF ReadPos
  <2>7. Legal(b, ReadPos)
    BY <2>3, <2>5, <2>6 DEF Legal
  <2>8. ReadPos' = After(b, ReadPos)
    BY <1>a, <2>3, <2>4 DEF ReadPos, After
  <2>9. ~(pcapng_passthrough /\ saved_shb = NoShb /\ queue = << >>)
    BY <1>c, <2>2, <2>4 DEF ReportInv, ShbFirst
  <2>10. StrayKept(b)
    <3>1. b.known <=> IsKnown(s, id)
      BY <2>1
    <3> QED  BY <1>4, <3>1 DEF ReadPacket, StrayKept
  <2> QED  BY <1>a, <2>2, <2>7, <2>8, <2>9, <2>10, DeliverDescribed
<1>5. CASE Dequeue
  <2>1. PICK b \in BlockIn : b = Head(queue)
    BY <1>5, <1>a DEF Dequeue, Types, SourceTypes
  <2>2. WriteBlock(b) /\ phase = "running" /\ queue # << >> /\ queue' = Tail(queue)
        /\ section' = section /\ interfaces' = interfaces /\ stray' = stray
    BY <1>5, <2>1 DEF Dequeue, sourceVars
  <2>3. PICK st : Replay(st)
    BY <1>e, <2>2 DEF RunningInv
  <2>4. PICK n \in Nat : Len(queue) = n + 1
    <3>1. Len(queue) \in Nat /\ Len(queue) # 0
      BY <1>a, <2>2 DEF Types, SourceTypes
    <3> QED  BY <3>1
  <2>5. queue[1] = b /\ Len(queue') = n /\ \A i \in 1 .. n : queue'[i] = queue[i + 1]
    BY <1>a, <2>1, <2>2, <2>4 DEF Types, SourceTypes
  <2>6. /\ st \in [1 .. n + 2 -> [Ifaces -> Pos]] /\ st[n + 2] = ReadPos /\ Mapped(st[1])
        /\ \A i \in 1 .. n + 1 : Legal(queue[i], st[i]) /\ st[i + 1] = After(queue[i], st[i])
    <3>1. (n + 1) + 1 = n + 2
      OBVIOUS
    <3> QED  BY <2>3, <2>4, <3>1, Zenon DEF Replay
  <2>7. PICK pos \in [Ifaces -> Pos] : pos = st[1]
    <3>1. 1 \in 1 .. n + 2
      OBVIOUS
    <3> QED  BY <2>6, <3>1
  <2>8. PICK new : new = After(b, pos)
    OBVIOUS
  <2>9. Legal(b, pos) /\ st[2] = new
    <3>1. 1 \in 1 .. n + 1 /\ 1 + 1 = 2
      OBVIOUS
    <3>2. Legal(queue[1], st[1]) /\ st[1 + 1] = After(queue[1], st[1])
      BY <2>6, <3>1
    <3> QED  BY <2>5, <2>7, <2>8, <3>1, <3>2
  <2>10. /\ phase' = phase \/ (phase' = "aborted" /\ ~pcapng_passthrough /\ b.type = "EPB" /\ ~b.known)
         /\ DevicesSaved' /\ Mapped(new)' /\ FileMatches' /\ AllDescribed'
    <3>1. LastFileInv /\ DevicesSaved /\ FileMatches /\ AllDescribed /\ Mapped(pos)
      BY <1>e, <2>2, <2>6, <2>7 DEF ReportInv, OutInv, RunningInv
    <3> QED  BY <1>a, <2>2, <2>8, <2>9, <3>1, WriteDescribed
  <2>11. NothingSaved'
    <3>1. pcapng_passthrough /\ saved_shb = NoShb => b.type = "SHB"
      BY <2>1, <2>2 DEF ReportInv, ShbFirst
    <3>2. pcapng_passthrough => saved_shb' # NoShb
      BY <1>a, <2>2, <3>1, WriteReadable DEF ReportInv
    <3> QED  BY <1>a, <3>2 DEF NothingSaved
  <2>12. PICK rest : rest = [i \in 1 .. n + 1 |-> st[i + 1]]
    OBVIOUS
  <2>13. /\ rest \in [1 .. n + 1 -> [Ifaces -> Pos]] /\ rest[1] = st[2] /\ rest[n + 1] = st[n + 2]
    <3>1. \A i \in 1 .. n + 1 : i + 1 \in 1 .. n + 2
      OBVIOUS
    <3>2. 1 \in 1 .. n + 1 /\ 1 + 1 = 2 /\ n + 1 \in 1 .. n + 1 /\ (n + 1) + 1 = n + 2
      OBVIOUS
    <3> QED  BY <2>6, <2>12, <3>1, <3>2
  <2>14. ASSUME NEW i \in 1 .. n
         PROVE  Legal(queue'[i], rest[i]) /\ rest[i + 1] = After(queue'[i], rest[i])
    <3>1. i + 1 \in 1 .. n + 1 /\ i \in 1 .. n + 1
      OBVIOUS
    <3>2. rest[i] = st[i + 1] /\ rest[i + 1] = st[(i + 1) + 1] /\ queue'[i] = queue[i + 1]
      BY <2>5, <2>12, <3>1
    <3>3. Legal(queue[i + 1], st[i + 1]) /\ st[(i + 1) + 1] = After(queue[i + 1], st[i + 1])
      BY <2>6, <3>1
    <3> QED  BY <3>2, <3>3
  <2>15. ReadPos' = ReadPos
    BY <1>a, <2>2 DEF ReadPos
  <2>16. Replay(rest)'
    BY <1>a, <1>d, <2>5, <2>6, <2>9, <2>10, <2>13, <2>14, <2>15 DEF Replay
  <2>17. StrayNoted
    BY <1>e, <2>2 DEF RunningInv
  <2>18. stray = {} => (b.type = "EPB" => b.known)
    <3>1. 1 \in 1 .. Len(queue)
      BY <2>4
    <3> QED  BY <2>5, <2>17, <3>1 DEF StrayNoted
  <2>19. StrayNoted'
    <3> SUFFICES ASSUME stray = {}, NEW i \in 1 .. n, queue'[i].type = "EPB" PROVE queue'[i].known
      BY <2>2, <2>5 DEF StrayNoted
    <3>1. i + 1 \in 1 .. Len(queue) /\ queue'[i] = queue[i + 1]
      BY <2>4, <2>5
    <3> QED  BY <2>17, <3>1 DEF StrayNoted
  <2>20. phase' = "aborted" => stray' # {} /\ ~pcapng_passthrough'
    BY <1>a, <2>2, <2>10, <2>18
  <2> QED  BY <2>2, <2>10, <2>11, <2>16, <2>19, <2>20 DEF DescribedInv, RunningInv
<1>6. CASE SwitchFile
  <2>1. PICK F : F = FileStart(saved_shb, saved_idbs)
    OBVIOUS
  <2>2. /\ files' = Append(files, F) /\ phase = "running"
        /\ UNCHANGED <<phase, section, interfaces, queue, saved_shb, saved_idbs, src_iface_to_global, stray>>
    BY <1>6, <2>1 DEF SwitchFile, sourceVars
  <2>3. files \in Seq(Seq(BlockOut)) /\ Len(files) \in Nat /\ saved_idbs \in Seq(SavedIdb)
    BY <1>a DEF Types, OutputTypes
  <2>4. /\ F \in Seq(BlockOut)
        /\ \A k \in 1 .. Len(F) : F[k].type # "EPB"
        /\ Cardinality(Open(F)) = Len(saved_idbs)
        /\ \A g \in 1 .. Len(saved_idbs) : ~saved_idbs[g].deleted =>
              \E p \in Open(F) : InterfaceNumber(F, p) = g - 1 /\ F[p].who = saved_idbs[g].who
    <3>1. pcapng_passthrough /\ saved_shb = NoShb => saved_idbs = << >>
      BY <1>e, <2>2 DEF RunningInv, NothingSaved
    <3>2. PICK idbs \in Seq(SavedIdb) : idbs = saved_idbs
      BY <2>3
    <3>3. PICK shb : shb = saved_shb
      OBVIOUS
    <3>4. F = FileStart(shb, idbs) /\ (pcapng_passthrough /\ shb = NoShb => idbs = << >>)
      BY <2>1, <3>1, <3>2, <3>3
    <3>5. /\ F \in Seq(BlockOut)
          /\ \A k \in 1 .. Len(F) : F[k].type # "EPB"
          /\ Cardinality(Open(F)) = Len(idbs)
          /\ \A g \in 1 .. Len(idbs) : ~idbs[g].deleted =>
                \E p \in Open(F) : InterfaceNumber(F, p) = g - 1 /\ F[p].who = idbs[g].who
      BY <3>4, OpenStart
    <3> QED  BY <3>2, <3>5, Zenon
  <2>5. /\ Len(files') = Len(files) + 1 /\ files'[Len(files) + 1] = F
        /\ \A f \in 1 .. Len(files) : files'[f] = files[f]
    BY <2>2, <2>3, <2>4
  <2>6. LastFile' = F
    BY <2>5 DEF LastFile
  <2>7. FileMatches'
    BY <2>2, <2>4, <2>6 DEF FileMatches
  <2>8. AllDescribed'
    <3>1. \A f \in 1 .. Len(files') : f \in 1 .. Len(files) \/ f = Len(files) + 1
      BY <2>3, <2>5
    <3> QED  BY <1>e, <1>f, <2>4, <2>5, <3>1 DEF AllDescribed
  <2>9. PICK st : Replay(st)
    BY <1>e, <2>2 DEF RunningInv
  <2>10. Replay(st)'
    BY <1>a, <1>d, <2>2, <2>9 DEF Replay, Mapped, Saved, ReadPos
  <2>11. NothingSaved' /\ DevicesSaved' /\ StrayNoted'
    BY <1>a, <1>b, <1>e, <2>2 DEF RunningInv, NothingSaved, DevicesSaved, Saved, StrayNoted
  <2> QED  BY <2>2, <2>7, <2>8, <2>10, <2>11 DEF DescribedInv, RunningInv
<1>7. CASE SwitchFileMisread
  <2>1. files' = Append(files, << >>) /\ phase' \in {"stopped", "crashed"}
    BY <1>7 DEF SwitchFileMisread, EndCapture
  <2>2. files \in Seq(Seq(BlockOut)) /\ Len(files) \in Nat
    BY <1>a DEF Types, OutputTypes
  <2>3. /\ Len(files') = Len(files) + 1 /\ files'[Len(files) + 1] = << >>
        /\ \A f \in 1 .. Len(files) : files'[f] = files[f]
    BY <2>1, <2>2
  <2>4. AllDescribed'
    <3>1. \A f \in 1 .. Len(files') : f \in 1 .. Len(files) \/ f = Len(files) + 1
      BY <2>2, <2>3
    <3>2. \A k \in 1 .. Len(<< >>) : FALSE
      OBVIOUS
    <3> QED  BY <1>e, <1>f, <2>3, <3>1, <3>2 DEF AllDescribed
  <2> QED  BY <2>1, <2>4 DEF DescribedInv
<1>8. CASE Stop
  <2>1. files' = files /\ phase' = "stopped"
    BY <1>8 DEF Stop, EndCapture, outVars
  <2> QED  BY <1>e, <1>f, <2>1 DEF DescribedInv, AllDescribed
<1>9. CASE UNCHANGED vars
  BY <1>9, <1>g DEF vars, sourceVars, outVars
<1>10. CASE Update
  BY <1>10, <1>g DEF Update, sourceVars, outVars
<1> QED  BY <1>1, <1>2, <1>3, <1>4, <1>5, <1>6, <1>7, <1>8, <1>9, <1>10 DEF Next, Read

\* Without a limit on the queue every packet in every file refers to a description
\* of the interface it came from, earlier in its section of that file, whatever
\* sections the sources start and whenever files are switched; only a packet whose
\* source has not described its interface is passed through as it is, or leaves
\* pcapng_adjust_block without an interface.
THEOREM PacketsAreDescribed == Spec => []EveryPacketDescribed
<1>1. ReportInv /\ DescribedInv => EveryPacketDescribed
  <2> SUFFICES ASSUME ReportInv, DescribedInv PROVE EveryPacketDescribed
    OBVIOUS
  <2>1. files \in Seq(Seq(BlockOut))
    BY DEF ReportInv, Types, OutputTypes
  <2>2. DOMAIN files = 1 .. Len(files) /\ \A f \in 1 .. Len(files) : DOMAIN files[f] = 1 .. Len(files[f])
    BY <2>1
  <2> QED  BY <2>2 DEF DescribedInv, AllDescribed, DescribedOrStray, EveryPacketDescribed
<1>2. Init => ReportInv /\ DescribedInv
  BY InitReadable, InitDescribed
<1>3. ReportInv /\ DescribedInv /\ [Next]_vars => (ReportInv /\ DescribedInv)'
  BY NextReadable, NextDescribed
<1> QED  BY <1>1, <1>2, <1>3, PTL DEF Spec
=============================================================================
