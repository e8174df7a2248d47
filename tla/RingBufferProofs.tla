-------------------------- MODULE RingBufferProofs --------------------------
EXTENDS RingBuffer, TLAPS

(***************************************************************************)
(* Facts about the remainder used for slots and for the numbers in names.   *)
(***************************************************************************)

\* Division with remainder, as the slot index and the file number use it.
LEMMA DivMod ==
    ASSUME NEW a \in Int, NEW n \in Nat \ {0}
    PROVE  /\ a % n \in 0 .. n - 1
           /\ a \div n \in Int
           /\ a = n * (a \div n) + (a % n)
  OBVIOUS

\* A multiple of n strictly between -n and n is zero.
LEMMA SmallMultiple ==
    ASSUME NEW d \in Int, NEW n \in Nat \ {0}, n * d < n, - n < n * d
    PROVE  d = 0
<1>1. CASE d >= 1
  <2>1. n * d >= n * 1  BY <1>1
  <2> QED  BY <2>1
<1>2. CASE d <= -1
  <2>1. n * d <= n * (-1)  BY <1>2
  <2> QED  BY <2>1
<1> QED  BY <1>1, <1>2

\* Adding the number of slots does not change the slot.
LEMMA ModShift ==
    ASSUME NEW a \in Int, NEW n \in Nat \ {0}
    PROVE  (a + n) % n = a % n
<1> DEFINE q1 == a \div n
           r1 == a % n
           q2 == (a + n) \div n
           r2 == (a + n) % n
           d  == q2 - (q1 + 1)
<1>0. q1 \in Int /\ r1 \in 0 .. n - 1 /\ a = n * q1 + r1
  BY DivMod
<1>1. /\ q1 \in Int /\ r1 \in 0 .. n - 1 /\ a = n * q1 + r1
      /\ q2 \in Int /\ r2 \in 0 .. n - 1 /\ a + n = n * q2 + r2
  <2> DEFINE b == a + n
  <2>1. b \in Int  OBVIOUS
  <2> HIDE DEF b
  <2>2. b % n \in 0 .. n - 1 /\ b \div n \in Int /\ b = n * (b \div n) + (b % n)
    BY <2>1, DivMod
  <2> QED  BY <1>0, <2>2 DEF b
<1> HIDE DEF q1, r1, q2, r2
<1>2. n * q2 = n * (q1 + 1) + n * (q2 - (q1 + 1))
  BY <1>1
<1>3. n * (q1 + 1) = n * q1 + n
  BY <1>1
<1>4. n * d = r1 - r2
  BY <1>1, <1>2, <1>3
<1>5. n * d < n /\ - n < n * d
  BY <1>1, <1>4
<1>6. d = 0
  <2>1. d \in Int  BY <1>1
  <2> HIDE DEF d
  <2> QED  BY <1>5, <2>1, SmallMultiple
<1>7. r1 = r2
  BY <1>1, <1>4, <1>6
<1> QED
  BY <1>7 DEF r1, r2

\* Two numbers less than n apart with the same remainder are the same.
LEMMA ModInjective ==
    ASSUME NEW a \in Int, NEW b \in Int, NEW n \in Nat \ {0},
           a % n = b % n, a - b < n, b - a < n
    PROVE  a = b
<1> DEFINE q1 == a \div n
           q2 == b \div n
           d  == q1 - q2
<1>1. /\ q1 \in Int /\ a % n \in 0 .. n - 1 /\ a = n * q1 + (a % n)
      /\ q2 \in Int /\ b = n * q2 + (b % n)
  BY DivMod
<1> HIDE DEF q1, q2
<1>2. n * q1 = n * q2 + n * (q1 - q2)
  BY <1>1
<1>3. n * d = a - b
  BY <1>1, <1>2
<1>4. d = 0
  <2>1. d \in Int /\ n * d < n /\ - n < n * d  BY <1>1, <1>3
  <2> HIDE DEF d
  <2> QED  BY <2>1, SmallMultiple
<1> QED
  BY <1>1, <1>3, <1>4

-----------------------------------------------------------------------------
(***************************************************************************)
(* The invariant of the ring.                                               *)
(***************************************************************************)

USE MaxAssumption, BoundAssumption

\* A file number is a number the name can carry, and so a path is a path.
LEMMA PathType ==
    ASSUME NEW g \in Nat, NEW t \in Times
    PROVE  FileNum(g) \in 0 .. MaxNumFiles - 1 /\ <<FileNum(g), t>> \in Path
<1>1. g + 1 \in Int  OBVIOUS
<1>2. (g + 1) % MaxNumFiles \in 0 .. MaxNumFiles - 1
  <2> DEFINE b == g + 1
  <2> HIDE DEF b
  <2> QED  BY <1>1, DivMod DEF b
<1> QED  BY <1>2 DEF FileNum, Path

\* Generations less than RINGBUFFER_MAX_NUM_FILES apart have different numbers.
LEMMA FileNumInjective ==
    ASSUME NEW g \in Nat, NEW h \in Nat, FileNum(g) = FileNum(h),
           g - h < MaxNumFiles, h - g < MaxNumFiles
    PROVE  g = h
<1> DEFINE a == g + 1
           b == h + 1
<1>1. a \in Int /\ b \in Int /\ a % MaxNumFiles = b % MaxNumFiles
      /\ a - b < MaxNumFiles /\ b - a < MaxNumFiles
  BY DEF FileNum
<1>2. a = b
  <2> HIDE DEF a, b
  <2> QED  BY <1>1, ModInjective
<1> QED  BY <1>2

\* What ringbuf_open_file does for the next generation, whichever of its calls
\* fail: the part of the invariant that is about names and files survives.
LEMMA Rotate ==
    ASSUME RingInv, phase = "running", phase' \in {"running", "stopping"},
           NEW t \in Times, NEW opened \in BOOLEAN, NEW unlinked \in BOOLEAN,
           curr_file_num < FileNumBound,
           curr_file_num' = curr_file_num + 1,
           ringbuf_open_file(curr_file_num + 1, t, opened, unlinked),
           UNCHANGED <<num_files, unlimited>>
    PROVE  /\ files' \in [0 .. num_files - 1 -> Slot \cup {NoName}]
           /\ disk' \in [Path -> Int]
           /\ created' \subseteq 0 .. curr_file_num'
           /\ stuck' \subseteq 0 .. curr_file_num'
           /\ SlotsCurrent' /\ NewestNumbered' /\ OnDiskNamed'
<1> DEFINE g    == curr_file_num + 1
           i    == Index(g)
           slot == [gen |-> g, time |-> t]
           gone == AfterUnlink(i, unlinked)
<1>1. /\ InUse /\ InUse' /\ phase' # "start"
      /\ curr_file_num \in Nat /\ g \in Nat
      /\ num_files \in Nat \ {0} /\ num_files <= MaxNumFiles
      /\ unlimited \in BOOLEAN
      /\ files \in [0 .. num_files - 1 -> Slot \cup {NoName}]
      /\ disk \in [Path -> Int]
      /\ created \subseteq 0 .. curr_file_num
      /\ stuck \subseteq 0 .. curr_file_num
  BY DEF RingInv, TypeOK, InUse
<1>2. i \in 0 .. num_files - 1
  <2>1. g \in Int  BY <1>1
  <2> HIDE DEF g
  <2> QED  BY <1>1, <2>1, DivMod DEF Index
<1>3. PathOf(slot) \in Path /\ PathOf(slot) = <<FileNum(g), t>>
  <2>1. PathOf(slot) = <<FileNum(g), t>>  BY DEF PathOf
  <2> HIDE DEF g
  <2> QED  BY <1>1, <2>1, PathType
<1>4. /\ files' = [files EXCEPT ![i] = slot]
      /\ disk' = IF opened THEN [gone EXCEPT ![PathOf(slot)] = g] ELSE gone
      /\ created' = IF opened THEN created \cup {g} ELSE created
      /\ stuck' = IF files[i] # NoName /\ ~unlimited /\ ~unlinked
                      THEN stuck \cup {files[i].gen} ELSE stuck
  BY DEF ringbuf_open_file
<1>5. \A n : Index(n)' = Index(n)
  BY DEF Index
<1>6. files[i] # NoName =>
         /\ files[i] \in Slot
         /\ files[i].gen \in 0 .. curr_file_num
         /\ files[i].gen > curr_file_num - num_files
         /\ Index(files[i].gen) = i
  BY <1>1, <1>2 DEF RingInv, SlotsCurrent
<1>a. slot.gen = g /\ slot.time = t /\ slot \in Slot
  BY <1>1 DEF Slot
<1> HIDE DEF g, i, gone, slot
<1>7. gone \in [Path -> Int]
  <2>1. CASE gone = disk
    BY <1>1, <2>1
  <2>2. CASE gone = [disk EXCEPT ![PathOf(files[i])] = Absent]
    <3>1. Absent \in Int  BY DEF Absent
    <3>2. disk \in [Path -> Int]  BY <1>1
    <3> QED  BY <2>2, <3>1, <3>2, Zenon
  <2> QED  BY <2>1, <2>2 DEF gone, AfterUnlink
<1>8. \A p \in Path : \/ gone[p] = disk[p]
                     \/ /\ gone[p] = Absent /\ files[i] # NoName
                        /\ ~unlimited /\ unlinked /\ p = PathOf(files[i])
  BY <1>1 DEF gone, AfterUnlink
<1>9. \A p \in Path : ~opened \/ p # PathOf(slot) => disk'[p] = gone[p]
  BY <1>3, <1>4, <1>7
<1>b. opened => disk'[PathOf(slot)] = g
  BY <1>3, <1>4, <1>7
<1>10. files' \in [0 .. num_files - 1 -> Slot \cup {NoName}]
  BY <1>1, <1>2, <1>4, <1>a
<1>11. disk' \in [Path -> Int]
  BY <1>1, <1>3, <1>4, <1>7
<1>12. created' \subseteq 0 .. curr_file_num' /\ stuck' \subseteq 0 .. curr_file_num'
  <2>1. g \in 0 .. curr_file_num'  BY <1>1 DEF g
  <2>2. 0 .. curr_file_num \subseteq 0 .. curr_file_num'  BY <1>1
  <2>3. created' \subseteq 0 .. curr_file_num'  BY <1>1, <1>4, <2>1, <2>2
  <2>4. stuck' \subseteq 0 .. curr_file_num'
    <3>1. CASE stuck' = stuck  BY <1>1, <2>2, <3>1
    <3>2. CASE files[i] # NoName /\ stuck' = stuck \cup {files[i].gen}
      BY <1>1, <1>6, <2>2, <3>2
    <3> QED  BY <1>4, <3>1, <3>2
  <2> QED  BY <2>3, <2>4
<1>13. SlotsCurrent'
  <2> SUFFICES ASSUME NEW j \in 0 .. num_files - 1, files'[j] # NoName
               PROVE  /\ files'[j].gen \in 0 .. curr_file_num'
                      /\ files'[j].gen > curr_file_num' - num_files
                      /\ Index(files'[j].gen) = j
    BY <1>5, <1>10 DEF SlotsCurrent
  <2>1. CASE j = i
    <3>1. files'[j] = slot  BY <1>1, <1>2, <1>4, <2>1
    <3>2. files'[j].gen = g  BY <3>1, <1>a
    <3> QED  BY <1>1, <2>1, <3>2 DEF g, i
  <2>2. CASE j # i
    <3> DEFINE h == files[j].gen
    <3>1. files'[j] = files[j]  BY <1>1, <1>2, <1>4, <2>2
    <3>2. h \in 0 .. curr_file_num /\ h > curr_file_num - num_files /\ Index(h) = j
      BY <1>1, <3>1 DEF RingInv, SlotsCurrent
    <3>3. h # g - num_files
      <4> SUFFICES ASSUME h = g - num_files PROVE FALSE
        OBVIOUS
      <4>1. h \in Int /\ h + num_files = g  BY <1>1, <3>2
      <4>2. (h + num_files) % num_files = h % num_files
        <5> HIDE DEF h
        <5> QED  BY <1>1, <4>1, ModShift
      <4>3. Index(g) = Index(h)
        BY <4>1, <4>2 DEF Index
      <4> QED  BY <2>2, <3>2, <4>3 DEF i
    <3> QED  BY <1>1, <3>1, <3>2, <3>3 DEF g
  <2> QED  BY <2>1, <2>2
<1>14. NewestNumbered'
  <2> SUFFICES ASSUME NEW h \in created', h > curr_file_num' - KeepSize
               PROVE  \E u \in Times : disk'[<<FileNum(h), u>>] = h
    BY DEF NewestNumbered, KeepSize
  <2>0. KeepSize \in Nat /\ KeepSize <= MaxNumFiles
    BY <1>1 DEF KeepSize
  <2>1. CASE h = g
    <3>1. opened  BY <1>1, <1>4, <2>1 DEF g
    <3>2. disk'[<<FileNum(h), t>>] = h  BY <1>3, <1>b, <2>1, <3>1
    <3> QED  BY <3>2
  <2>2. CASE h # g
    <3>1. h \in created /\ h \in 0 .. curr_file_num /\ h \in Nat
      BY <1>1, <1>4, <2>2
    <3>2. h > curr_file_num - KeepSize
      BY <1>1, <2>0, <3>1 DEF g
    <3>3. PICK u \in Times : disk[<<FileNum(h), u>>] = h
      BY <1>1, <3>1, <3>2 DEF RingInv, NewestNumbered
    <3> DEFINE p == <<FileNum(h), u>>
    <3>4. p \in Path
      BY <3>1, PathType
    <3>5. FileNum(h) # FileNum(g)
      <4> SUFFICES ASSUME FileNum(h) = FileNum(g) PROVE FALSE
        OBVIOUS
      <4>1. g - h < MaxNumFiles /\ h - g < MaxNumFiles
        BY <1>1, <2>0, <3>1 DEF g
      <4>2. g = h
        BY <1>1, <3>1, <4>1, FileNumInjective
      <4> QED  BY <2>2, <4>2
    <3>6. p # PathOf(slot)
      BY <1>3, <3>5
    <3>7. ~(files[i] # NoName /\ ~unlimited /\ p = PathOf(files[i]))
      <4> SUFFICES ASSUME files[i] # NoName, ~unlimited, p = PathOf(files[i])
                   PROVE  FALSE
        OBVIOUS
      <4> DEFINE k == files[i].gen
      <4>1. k \in Nat /\ k <= curr_file_num /\ k > curr_file_num - num_files /\ Index(k) = i
        BY <1>1, <1>6
      <4>2. FileNum(k) = FileNum(h)
        BY DEF PathOf
      <4>3. h > curr_file_num - num_files
        BY <3>2 DEF KeepSize
      <4>4. k = h
        <5>1. k - h < MaxNumFiles /\ h - k < MaxNumFiles
          BY <1>1, <3>1, <4>1, <4>3
        <5> HIDE DEF k
        <5> QED  BY <3>1, <4>1, <4>2, <5>1, FileNumInjective
      <4>5. g % num_files = h % num_files
        BY <4>1, <4>4 DEF Index, i
      <4>6. h > g - num_files
        BY <1>1, <3>1 DEF KeepSize, g
      <4>7. g = h
        <5>1. g - h < num_files /\ h - g < num_files /\ g \in Int /\ h \in Int
          BY <1>1, <3>1, <4>6 DEF g
        <5> QED  BY <1>1, <4>5, <5>1, ModInjective
      <4> QED  BY <2>2, <4>7
    <3>8. disk'[p] = h
      BY <1>8, <1>9, <3>3, <3>4, <3>6, <3>7
    <3> QED  BY <3>8
  <2> QED  BY <2>1, <2>2
<1>15. OnDiskNamed'
  <2> SUFFICES ASSUME ~unlimited, NEW p \in Path, disk'[p] # Absent, disk'[p] \notin stuck'
               PROVE  /\ disk'[p] \in 0 .. curr_file_num'
                      /\ files'[Index(disk'[p])] = [gen |-> disk'[p], time |-> p[2]]
                      /\ p[1] = FileNum(disk'[p])
    BY <1>1, <1>5 DEF OnDiskNamed, FileNum
  <2>1. CASE opened /\ p = PathOf(slot)
    <3>1. disk'[p] = g  BY <1>b, <2>1
    <3>2. p[1] = FileNum(g) /\ p[2] = t  BY <1>3, <2>1
    <3>3. files'[i] = slot  BY <1>1, <1>2, <1>4
    <3> QED  BY <1>1, <3>1, <3>2, <3>3 DEF g, i, slot
  <2>2. CASE ~(opened /\ p = PathOf(slot))
    <3>1. disk'[p] = gone[p] /\ gone[p] = disk[p]
      BY <1>8, <1>9, <2>2
    <3>2. disk[p] \notin stuck
      BY <1>4, <3>1
    <3>3. /\ disk[p] \in 0 .. curr_file_num
          /\ files[Index(disk[p])] = [gen |-> disk[p], time |-> p[2]]
          /\ p[1] = FileNum(disk[p])
      BY <1>1, <3>1, <3>2 DEF RingInv, OnDiskNamed
    <3>4. Index(disk[p]) \in 0 .. num_files - 1
      <4>1. disk[p] \in Int  BY <1>1
      <4> QED  BY <1>1, <4>1, DivMod DEF Index
    <3>5. Index(disk[p]) # i
      <4> SUFFICES ASSUME Index(disk[p]) = i PROVE FALSE
        OBVIOUS
      <4>1. files[i] = [gen |-> disk[p], time |-> p[2]]
        BY <3>3
      <4>2. files[i] # NoName /\ files[i].gen = disk[p] /\ files[i].time = p[2]
        BY <3>3, <4>1 DEF NoName
      <4>3. PathOf(files[i]) = p
        BY <3>3, <4>2 DEF PathOf, Path
      <4>4. CASE unlinked
        <5>1. gone = [disk EXCEPT ![p] = Absent]
          BY <4>2, <4>3, <4>4 DEF gone, AfterUnlink
        <5> QED  BY <1>1, <3>1, <5>1
      <4>5. CASE ~unlinked
        BY <1>4, <3>1, <4>2, <4>5
      <4> QED  BY <4>4, <4>5
    <3>6. files'[Index(disk[p])] = files[Index(disk[p])]
      BY <1>1, <1>4, <3>4, <3>5
    <3> QED  BY <1>1, <3>1, <3>3, <3>6
  <2> QED  BY <2>1, <2>2
<1> QED  BY <1>10, <1>11, <1>12, <1>13, <1>14, <1>15

\* The rotation lemma with the rest of the type invariant added.
LEMMA SwitchPreserves ==
    ASSUME RingInv, phase = "running", phase' \in {"running", "stopping"},
           NEW t \in Times, NEW opened \in BOOLEAN, NEW unlinked \in BOOLEAN,
           curr_file_num < FileNumBound,
           curr_file_num' = curr_file_num + 1,
           ringbuf_open_file(curr_file_num + 1, t, opened, unlinked),
           PrintCurrentName,
           UNCHANGED <<num_files, unlimited, name_h, misuse>>,
           fd' \in {"none", "open"}, pdh' \in {"NULL", "open", "freed"},
           save_file' \in Int
    PROVE  RingInv'
<1>1. /\ files' \in [0 .. num_files - 1 -> Slot \cup {NoName}]
      /\ disk' \in [Path -> Int]
      /\ created' \subseteq 0 .. curr_file_num'
      /\ stuck' \subseteq 0 .. curr_file_num'
      /\ SlotsCurrent' /\ NewestNumbered' /\ OnDiskNamed'
  BY Rotate
<1>2. printed' \in Seq(Nat)
  BY DEF PrintCurrentName, RingInv, TypeOK
<1>3. TypeOK'
  BY <1>1, <1>2 DEF RingInv, TypeOK, InUse, Slot
<1> QED  BY <1>1, <1>3 DEF RingInv

\* Before ringbuf_init there is nothing the invariant could be wrong about.
LEMMA InitInv == Init => RingInv
<1> SUFFICES ASSUME Init PROVE RingInv
  OBVIOUS
<1>1. TypeOK
  <2>1. disk \in [Path -> Int]  BY DEF Init, Absent
  <2>2. 1 \in 1 .. MaxNumFiles /\ 0 \in 0 .. FileNumBound  OBVIOUS
  <2>3. OwnFile \in Int  BY DEF OwnFile
  <2>4. << >> \in Seq(Nat)  OBVIOUS
  <2> QED  BY <2>1, <2>2, <2>3, <2>4 DEF Init, TypeOK, InUse
<1>2. ~InUse /\ disk = [p \in Path |-> Absent] /\ stuck = {} /\ created = {}
  BY DEF Init, InUse
<1> QED  BY <1>1, <1>2 DEF RingInv, SlotsCurrent, NewestNumbered, OnDiskNamed

\* The number of slots ringbuf_init chooses.
LEMMA RingSizeType ==
    ASSUME NEW req \in Requests
    PROVE  RingSize(req) \in 1 .. MaxNumFiles
  BY RequestsAssumption DEF RingSize

\* A step that ends in a phase where the ring is not in use keeps the
\* invariant as soon as it keeps the types.
LEMMA NotInUse ==
    ASSUME TypeOK', phase' \in {"error", "crashed", "done"}
    PROVE  RingInv'
  BY DEF RingInv, SlotsCurrent, NewestNumbered, OnDiskNamed, InUse

\* ringbuf_init: the ring starts with the first file in its first slot.
LEMMA OpenOutputPreserves ==
    ASSUME RingInv, NEW req \in Requests, NEW t \in Times, OpenOutput(req, t)
    PROVE  RingInv'
<1> DEFINE n == RingSize(req)
           slot == [gen |-> 0, time |-> t]
<1>1. n \in 1 .. MaxNumFiles /\ n \in Nat \ {0}
  BY RingSizeType
<1>2. /\ num_files' = n /\ curr_file_num' = 0 /\ InUse' /\ phase' = "opened"
      /\ created' = {0} /\ stuck' = stuck /\ printed' = printed
      /\ files' = [i \in 0 .. n - 1 |-> IF i = 0 THEN slot ELSE NoName]
      /\ disk' = [disk EXCEPT ![PathOf(slot)] = 0]
      /\ disk = [p \in Path |-> Absent]
  BY DEF OpenOutput, InUse, RingInv, OnDiskNamed
<1>3. PathOf(slot) = <<FileNum(0), t>> /\ PathOf(slot) \in Path /\ slot \in Slot
  BY PathType DEF PathOf, Slot
<1>4. disk' = [p \in Path |-> IF p = PathOf(slot) THEN 0 ELSE Absent]
  BY <1>2, <1>3
<1>a. slot.gen = 0 /\ slot.time = t
  OBVIOUS
<1> HIDE DEF n, slot
<1>5. TypeOK'
  <2>1. disk' \in [Path -> Int]  BY <1>4 DEF Absent
  <2>2. files' \in [0 .. num_files' - 1 -> Slot \cup {NoName}]
    BY <1>2, <1>3
  <2>3. stuck = {}
    BY DEF OpenOutput, RingInv, OnDiskNamed
  <2> QED
    BY <1>1, <1>2, <2>1, <2>2, <2>3 DEF RingInv, TypeOK, OpenOutput
<1>6. 0 % n = 0
  BY <1>1
<1>7. SlotsCurrent'
  <2>1. \A i \in DOMAIN files' : files'[i] # NoName => i = 0 /\ files'[i] = slot
    BY <1>2
  <2>2. Index(0)' = 0
    BY <1>2, <1>6 DEF Index
  <2> QED  BY <1>1, <1>2, <1>a, <2>1, <2>2 DEF SlotsCurrent, Index
<1>8. NewestNumbered'
  <2>1. disk'[<<FileNum(0), t>>] = 0  BY <1>3, <1>4
  <2> QED  BY <1>2, <2>1 DEF NewestNumbered
<1>9. OnDiskNamed'
  <2> SUFFICES ASSUME NEW p \in Path, disk'[p] # Absent
               PROVE  /\ disk'[p] = 0
                      /\ files'[Index(0)'] = [gen |-> 0, time |-> p[2]]
                      /\ p[1] = FileNum(0)
    BY <1>2 DEF OnDiskNamed, Index, FileNum
  <2>1. p = PathOf(slot) /\ disk'[p] = 0  BY <1>4
  <2>2. p[1] = FileNum(0) /\ p[2] = t  BY <1>3, <2>1
  <2>3. Index(0)' = 0 /\ files'[0] = slot
    BY <1>1, <1>2, <1>6 DEF Index
  <2> QED  BY <2>1, <2>2, <2>3 DEF slot
<1> QED  BY <1>5, <1>7, <1>8, <1>9 DEF RingInv

\* The type invariant through the error path of capture_loop_start.
LEMMA ErrorPreserves ==
    ASSUME RingInv, NEW names, NEW unlinked,
           NEW stream_ptr \in {"NULL", "freed"}, NEW name_ptr,
           ErrorCleanup(names, stream_ptr, name_ptr, unlinked),
           phase' = "error", num_files' \in 1 .. MaxNumFiles,
           unlimited' \in BOOLEAN, curr_file_num' \in {0, curr_file_num},
           UNCHANGED <<save_file, printed>>,
           created' \subseteq 0 .. curr_file_num', stuck' \subseteq 0 .. curr_file_num'
    PROVE  RingInv'
<1>1. disk' \in [Path -> Int]
  BY DEF RingInv, TypeOK, ErrorCleanup, Absent
<1>2. misuse' \subseteq {"pdh", "name_h", "save_file"}
  BY DEF RingInv, TypeOK, ErrorCleanup
<1>3. curr_file_num' \in 0 .. FileNumBound
  BY DEF RingInv, TypeOK
<1>4. TypeOK'
  BY <1>1, <1>2, <1>3 DEF RingInv, TypeOK, ErrorCleanup, InUse
<1> QED  BY <1>4, NotInUse

\* Every call the capture loop makes on the ring keeps the invariant.
LEMMA NextInv == RingInv /\ [Next]_vars => RingInv'
<1> SUFFICES ASSUME RingInv, [Next]_vars PROVE RingInv'
  OBVIOUS
<1>1. ASSUME NEW req \in Requests, NEW t \in Times, OpenOutput(req, t)
      PROVE  RingInv'
  BY <1>1, OpenOutputPreserves
<1>2. ASSUME NEW req \in Requests, OpenOutputFailsOnFile(req)
      PROVE  RingInv'
  <2>1. PICK name \in {"NULL", "open"} :
           ErrorCleanup(<< >>, "NULL", IF name = "open" THEN "closed" ELSE name, TRUE)
    BY <1>2 DEF OpenOutputFailsOnFile
  <2>2. RingSize(req) \in 1 .. MaxNumFiles  BY RingSizeType
  <2>3. created = {} /\ stuck = {}
    BY <1>2 DEF OpenOutputFailsOnFile, RingInv, OnDiskNamed
  <2> QED
    BY <1>2, <2>1, <2>2, <2>3, ErrorPreserves DEF OpenOutputFailsOnFile
<1>3. ASSUME NEW req \in Requests, NEW t \in Times, NEW unlinked \in BOOLEAN,
             OpenOutputFailsOnPrintName(req, t, unlinked)
      PROVE  RingInv'
  <2>1. RingSize(req) \in 1 .. MaxNumFiles  BY RingSizeType
  <2>2. disk' \in [Path -> Int]
    <3> DEFINE v == IF unlinked THEN Absent ELSE 0
    <3>1. v \in Int  BY DEF Absent
    <3>2. disk' = [disk EXCEPT ![PathOf([gen |-> 0, time |-> t])] = v]
      BY <1>3 DEF OpenOutputFailsOnPrintName
    <3>3. disk \in [Path -> Int]  BY DEF RingInv, TypeOK
    <3> HIDE DEF v
    <3> QED  BY <3>1, <3>2, <3>3
  <2>3. stuck' \subseteq {0} /\ created' = {0} /\ curr_file_num' = 0
    BY <1>3 DEF OpenOutputFailsOnPrintName
  <2>4. TypeOK'
    BY <1>3, <2>1, <2>2, <2>3 DEF OpenOutputFailsOnPrintName, RingInv, TypeOK, InUse
  <2> QED  BY <1>3, <2>4, NotInUse DEF OpenOutputFailsOnPrintName
<1>4. CASE InitOutput
  <2>1. TypeOK'
    BY <1>4 DEF InitOutput, RingInv, TypeOK, InUse, ring
  <2>2. SlotsCurrent' /\ NewestNumbered' /\ OnDiskNamed'
    BY <1>4 DEF InitOutput, RingInv, SlotsCurrent, NewestNumbered, OnDiskNamed,
                InUse, ring, KeepSize, Index
  <2> QED  BY <2>1, <2>2 DEF RingInv
<1>5. ASSUME NEW kind \in {"fdopen", "start"}, NEW unlinked \in BOOLEAN,
             InitOutputFails(kind, unlinked)
      PROVE  RingInv'
  <2>1. ErrorCleanup(files, IF kind = "start" THEN "freed" ELSE "NULL", name_h, unlinked)
    BY <1>5 DEF InitOutputFails
  <2>2. curr_file_num \in Nat /\ created \subseteq 0 .. curr_file_num /\ stuck' \subseteq 0 .. curr_file_num
    BY <1>5 DEF InitOutputFails, RingInv, TypeOK
  <2> QED
    BY <1>5, <2>1, <2>2, ErrorPreserves DEF InitOutputFails, RingInv, TypeOK
<1>6. ASSUME NEW t \in Times, NEW unlinked \in BOOLEAN, SwitchFile(t, unlinked)
      PROVE  RingInv'
  <2>1. save_file' \in Int /\ fd' \in {"none", "open"} /\ pdh' \in {"NULL", "open", "freed"}
    BY <1>6 DEF SwitchFile, RingInv, TypeOK
  <2> QED  BY <1>6, <2>1, SwitchPreserves DEF SwitchFile
<1>7. CASE SwitchFailsOnClose
  <2>1. TypeOK'
    BY <1>7 DEF SwitchFailsOnClose, RingInv, TypeOK, InUse, ring
  <2>2. SlotsCurrent' /\ NewestNumbered' /\ OnDiskNamed'
    BY <1>7 DEF SwitchFailsOnClose, RingInv, SlotsCurrent, NewestNumbered, OnDiskNamed,
                InUse, ring, KeepSize, Index
  <2> QED  BY <2>1, <2>2 DEF RingInv
<1>8. ASSUME NEW kind \in {"open", "fdopen"}, NEW t \in Times, NEW unlinked \in BOOLEAN,
             SwitchFailsOnOpen(kind, t, unlinked)
      PROVE  RingInv'
  <2>1. save_file' \in Int /\ fd' \in {"none", "open"} /\ pdh' \in {"NULL", "open", "freed"}
    BY <1>8 DEF SwitchFailsOnOpen, RingInv, TypeOK
  <2>2. (kind = "fdopen") \in BOOLEAN  OBVIOUS
  <2> QED  BY <1>8, <2>1, <2>2, SwitchPreserves DEF SwitchFailsOnOpen
<1>9. ASSUME NEW t \in Times, NEW unlinked \in BOOLEAN, SwitchFailsOnStart(t, unlinked)
      PROVE  RingInv'
  <2>1. save_file' \in Int /\ fd' \in {"none", "open"} /\ pdh' \in {"NULL", "open", "freed"}
    BY <1>9 DEF SwitchFailsOnStart, RingInv, TypeOK
  <2> QED  BY <1>9, <2>1, SwitchPreserves DEF SwitchFailsOnStart
<1>10. CASE CloseOutput
  <2>1. printed' \in Seq(Nat)
    BY <1>10 DEF CloseOutput, PrintCurrentName, RingInv, TypeOK
  <2>2. TypeOK'
    BY <1>10, <2>1 DEF CloseOutput, RingInv, TypeOK, InUse, ring
  <2>3. SlotsCurrent' /\ NewestNumbered' /\ OnDiskNamed'
    BY <1>10 DEF CloseOutput, RingInv, SlotsCurrent, NewestNumbered, OnDiskNamed,
                 InUse, ring, KeepSize, Index
  <2> QED  BY <2>2, <2>3 DEF RingInv
<1>11. CASE Cleanup
  <2>1. TypeOK'
    BY <1>11 DEF Cleanup, RingInv, TypeOK, InUse, stream, NullFile
  <2> QED  BY <1>11, <2>1, NotInUse DEF Cleanup
<1>12. CASE FlushAfterFailedSwitch
  <2>1. TypeOK'
    BY <1>12 DEF FlushAfterFailedSwitch, RingInv, TypeOK, InUse, ring, stream
  <2>2. SlotsCurrent' /\ NewestNumbered' /\ OnDiskNamed'
    BY <1>12 DEF FlushAfterFailedSwitch, RingInv, SlotsCurrent, NewestNumbered, OnDiskNamed,
                 InUse, ring, KeepSize, Index
  <2> QED  BY <2>1, <2>2 DEF RingInv
<1>13. CASE UNCHANGED vars
  BY <1>13 DEF vars, RingInv, TypeOK, SlotsCurrent, NewestNumbered, OnDiskNamed,
               InUse, KeepSize, Index
<1> QED
  BY <1>1, <1>2, <1>3, <1>4, <1>5, <1>6, <1>7, <1>8, <1>9, <1>10, <1>11, <1>12, <1>13
  DEF Next, Start, Switch

-----------------------------------------------------------------------------
\* The invariant of the ring holds for every number of files, every clock and
\* every combination of failing calls.
THEOREM RingInvariant == Spec => []RingInv
  BY InitInv, NextInv, PTL DEF Spec

\* The types of rb_data: curr_file_num counts every file that was opened, and the
\* slots are as many as num_files while the ring is in use.
THEOREM RingTyped == Spec => []TypeOK
<1>1. RingInv => TypeOK
  BY DEF RingInv
<1> QED  BY <1>1, RingInvariant, PTL

\* Switching files never loses one of the newest files: not by unlinking it,
\* not by truncating it under a reused name (ringbuf_open_file).
THEOREM NewestFilesKept == Spec => []NewestKept
<1>1. RingInv => NewestKept
  <2> SUFFICES ASSUME RingInv, InUse, NEW g \in created, g > curr_file_num - KeepSize
               PROVE  \E p \in Path : disk[p] = g
    BY DEF NewestKept
  <2>1. PICK t \in Times : disk[<<FileNum(g), t>>] = g
    BY DEF RingInv, NewestNumbered
  <2>2. g \in Nat  BY DEF RingInv, TypeOK
  <2> QED  BY <2>1, <2>2, PathType
<1> QED  BY <1>1, RingInvariant, PTL

\* A ring with a files: criterion keeps no older file on disk, except one whose
\* ws_unlink() failed.
THEOREM RingStaysBounded == Spec => []RingBounded
<1>1. RingInv => RingBounded
  <2> SUFFICES ASSUME RingInv, InUse, ~unlimited, NEW p \in Path,
                      disk[p] # Absent, disk[p] \notin stuck
               PROVE  disk[p] > curr_file_num - num_files
    BY DEF RingBounded
  <2>1. /\ disk[p] \in 0 .. curr_file_num
        /\ files[Index(disk[p])] = [gen |-> disk[p], time |-> p[2]]
    BY DEF RingInv, OnDiskNamed
  <2>2. Index(disk[p]) \in DOMAIN files
    <3>1. disk[p] \in Int /\ num_files \in Nat \ {0}
      BY DEF RingInv, TypeOK
    <3>2. DOMAIN files = 0 .. num_files - 1
      BY DEF RingInv, TypeOK
    <3> QED  BY <3>1, <3>2, DivMod DEF Index
  <2>3. files[Index(disk[p])] # NoName /\ files[Index(disk[p])].gen = disk[p]
    BY <2>1 DEF NoName
  <2> QED  BY <2>2, <2>3 DEF RingInv, SlotsCurrent
<1> QED  BY <1>1, RingInvariant, PTL

-----------------------------------------------------------------------------
(***************************************************************************)
(* The names printed and the start that fails.                              *)
(***************************************************************************)

\* The generations 0 .. n - 1 in order.
FirstNames(n) == [i \in 1 .. n |-> i - 1]

\* While a capture runs the names of all files but the current one are printed.
NamesSoFar ==
    /\ phase = "start" => printed = << >>
    /\ PrintNames /\ phase \in {"opened", "running", "stopping"} =>
         name_h = "open" /\ printed = FirstNames(curr_file_num)
    /\ EveryNamePrintedOnce

\* One name more.
LEMMA OneMoreName ==
    ASSUME NEW n \in Nat
    PROVE  Append(FirstNames(n), n) = FirstNames(n + 1) /\ FirstNames(0) = << >>
<1>1. FirstNames(n) \in Seq(Nat) /\ Len(FirstNames(n)) = n
  BY DEF FirstNames
<1>2. FirstNames(n + 1) \in Seq(Nat) /\ Len(FirstNames(n + 1)) = n + 1
  BY DEF FirstNames
<1>3. \A i \in 1 .. n + 1 : Append(FirstNames(n), n)[i] = FirstNames(n + 1)[i]
  BY <1>1 DEF FirstNames
<1>4. Append(FirstNames(n), n) \in Seq(Nat) /\ Len(Append(FirstNames(n), n)) = n + 1
  BY <1>1
<1>5. FirstNames(0) = << >>
  BY DEF FirstNames
<1> QED  BY <1>2, <1>3, <1>4, <1>5

\* Every step prints the name of the file it leaves, or none.
LEMMA NamesNext == RingInv /\ NamesSoFar /\ [Next]_vars => NamesSoFar'
<1> SUFFICES ASSUME RingInv, NamesSoFar, [Next]_vars PROVE NamesSoFar'
  OBVIOUS
<1> USE DEF NamesSoFar, EveryNamePrintedOnce
<1>0. /\ curr_file_num \in Nat
      /\ Append(FirstNames(curr_file_num), curr_file_num) = FirstNames(curr_file_num + 1)
      /\ FirstNames(0) = << >>
  <2>1. curr_file_num \in Nat
    BY DEF RingInv, TypeOK
  <2> QED  BY <2>1, OneMoreName
<1>1. ASSUME NEW req \in Requests, NEW t \in Times, OpenOutput(req, t)
      PROVE  NamesSoFar'
  BY <1>0, <1>1 DEF OpenOutput
<1>2. ASSUME NEW req \in Requests, OpenOutputFailsOnFile(req)
      PROVE  NamesSoFar'
  BY <1>2 DEF OpenOutputFailsOnFile
<1>3. ASSUME NEW req \in Requests, NEW t \in Times, NEW unlinked \in BOOLEAN,
             OpenOutputFailsOnPrintName(req, t, unlinked)
      PROVE  NamesSoFar'
  BY <1>3 DEF OpenOutputFailsOnPrintName
<1>4. CASE InitOutput
  BY <1>4 DEF InitOutput, ring
<1>5. ASSUME NEW kind \in {"fdopen", "start"}, NEW unlinked \in BOOLEAN,
             InitOutputFails(kind, unlinked)
      PROVE  NamesSoFar'
  BY <1>5 DEF InitOutputFails
<1>6. ASSUME NEW t \in Times, NEW unlinked \in BOOLEAN, SwitchFile(t, unlinked)
      PROVE  NamesSoFar'
  BY <1>0, <1>6 DEF SwitchFile, PrintCurrentName
<1>7. CASE SwitchFailsOnClose
  BY <1>7 DEF SwitchFailsOnClose, ring
<1>8. ASSUME NEW kind \in {"open", "fdopen"}, NEW t \in Times, NEW unlinked \in BOOLEAN,
             SwitchFailsOnOpen(kind, t, unlinked)
      PROVE  NamesSoFar'
  BY <1>0, <1>8 DEF SwitchFailsOnOpen, PrintCurrentName
<1>9. ASSUME NEW t \in Times, NEW unlinked \in BOOLEAN, SwitchFailsOnStart(t, unlinked)
      PROVE  NamesSoFar'
  BY <1>0, <1>9 DEF SwitchFailsOnStart, PrintCurrentName
<1>10. CASE CloseOutput
  BY <1>0, <1>10 DEF CloseOutput, PrintCurrentName, ring, FirstNames
<1>11. CASE Cleanup
  BY <1>11 DEF Cleanup
<1>12. CASE FlushAfterFailedSwitch
  BY <1>12 DEF FlushAfterFailedSwitch, ring, stream
<1>13. CASE UNCHANGED vars
  BY <1>13 DEF vars
<1> QED
  BY <1>1, <1>2, <1>3, <1>4, <1>5, <1>6, <1>7, <1>8, <1>9, <1>10, <1>11, <1>12, <1>13
  DEF Next, Start, Switch

\* With printname: the name of every file is written once and in order by the time
\* the output is closed (ringbuf_switch_file, ringbuf_libpcap_dump_close).
THEOREM NamesPrintedOnce == Spec => []EveryNamePrintedOnce
<1>1. Init => NamesSoFar
  BY DEF Init, NamesSoFar, EveryNamePrintedOnce
<1>2. NamesSoFar => EveryNamePrintedOnce
  BY DEF NamesSoFar
<1> QED  BY <1>1, <1>2, NamesNext, RingInvariant, PTL DEF Spec

\* Until the first header is written the first file is all there is, and its slot
\* names it.
OnlyFirstFile ==
    /\ phase = "opened" =>
         \A p \in Path : \/ disk[p] = Absent
                         \/ /\ disk[p] = 0
                            /\ \E i \in DOMAIN files : files[i] # NoName /\ PathOf(files[i]) = p
    /\ StartFailureLeavesNoFile

\* Only the steps of the start can disturb it.
LEMMA FirstFileNext == RingInv /\ OnlyFirstFile /\ [Next]_vars => OnlyFirstFile'
<1> SUFFICES ASSUME RingInv, OnlyFirstFile, [Next]_vars PROVE OnlyFirstFile'
  OBVIOUS
<1> USE DEF OnlyFirstFile, StartFailureLeavesNoFile
<1>0. /\ phase = "start" => disk = [p \in Path |-> Absent]
      /\ disk \in [Path -> Int]
  BY DEF RingInv, OnDiskNamed, TypeOK
<1>1. ASSUME NEW req \in Requests, NEW t \in Times, OpenOutput(req, t)
      PROVE  OnlyFirstFile'
  <2> DEFINE slot == [gen |-> 0, time |-> t]
  <2>1. /\ phase' = "opened"
        /\ files' = [i \in 0 .. RingSize(req) - 1 |-> IF i = 0 THEN slot ELSE NoName]
        /\ disk' = [disk EXCEPT ![PathOf(slot)] = 0]
        /\ disk = [p \in Path |-> Absent]
    BY <1>0, <1>1 DEF OpenOutput
  <2>2. slot # NoName
    BY DEF NoName
  <2>3. PathOf(slot)' = PathOf(slot)
    BY DEF PathOf
  <2> HIDE DEF slot
  <2>4. 0 \in DOMAIN files' /\ files'[0] = slot
    BY <2>1, RingSizeType
  <2>5. \A p \in Path : disk'[p] = Absent \/ (disk'[p] = 0 /\ p = PathOf(slot))
    BY <2>1
  <2> QED  BY <2>1, <2>2, <2>3, <2>4, <2>5 DEF PathOf
<1>2. ASSUME NEW req \in Requests, OpenOutputFailsOnFile(req)
      PROVE  OnlyFirstFile'
  BY <1>0, <1>2 DEF OpenOutputFailsOnFile, ErrorCleanup
<1>3. ASSUME NEW req \in Requests, NEW t \in Times, NEW unlinked \in BOOLEAN,
             OpenOutputFailsOnPrintName(req, t, unlinked)
      PROVE  OnlyFirstFile'
  BY <1>0, <1>3 DEF OpenOutputFailsOnPrintName
<1>4. ASSUME NEW kind \in {"fdopen", "start"}, NEW unlinked \in BOOLEAN,
             InitOutputFails(kind, unlinked)
      PROVE  OnlyFirstFile'
  BY <1>4 DEF InitOutputFails, ErrorCleanup
<1>5. CASE phase' \notin {"opened", "error"}
  BY <1>5
<1>6. CASE UNCHANGED vars
  BY <1>6 DEF vars, PathOf
<1>7. ASSUME Next, ~Start,
             ~\E kind \in {"fdopen", "start"}, unlinked \in BOOLEAN : InitOutputFails(kind, unlinked)
      PROVE  phase' \notin {"opened", "error"}
  BY <1>7 DEF Next, InitOutput, Switch, SwitchFile, SwitchFailsOnClose, SwitchFailsOnOpen,
              SwitchFailsOnStart, FlushAfterFailedSwitch, CloseOutput, Cleanup
<1> QED  BY <1>1, <1>2, <1>3, <1>4, <1>5, <1>6, <1>7 DEF Start

\* A start that fails removes the file it created, whichever call failed
\* (ringbuf_error_cleanup), unless ws_unlink() itself failed.
THEOREM FailedStartCleansUp == Spec => []StartFailureLeavesNoFile
<1>1. Init => OnlyFirstFile
  BY DEF Init, OnlyFirstFile, StartFailureLeavesNoFile
<1>2. OnlyFirstFile => StartFailureLeavesNoFile
  BY DEF OnlyFirstFile
<1> QED  BY <1>1, <1>2, FirstFileNext, RingInvariant, PTL DEF Spec
=============================================================================
