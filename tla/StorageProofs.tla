--------------------------- MODULE StorageProofs ---------------------------
(***************************************************************************)
(* Proofs about the disk driver, for every request and every timeout, and  *)
(* about kmain, which reads the volume with it, for every disk; then about *)
(* the file commands on what it has mounted, for every volume that can be  *)
(* read and whose directories form a tree.                                 *)
(***************************************************************************)
EXTENDS Boot, WellFoundedInduction, TLAPS

\* A quotient of numbers.
LEMMA Quotient ==
  ASSUME NEW a \in Nat, NEW b \in Nat \ {0}
  PROVE  a \div b \in Nat /\ a % b \in 0 .. b - 1 /\ a = (a \div b) * b + (a % b)
<1> DEFINE q == a \div b
           r == a % b
<1>1. q \in Int /\ r \in 0 .. b - 1 /\ a = b * q + r
  OBVIOUS
<1> HIDE DEF q, r
<1>2. CASE q < 0
  <2> DEFINE m == -q - 1
  <2>1. m \in Nat /\ q = -1 - m
    BY <1>1, <1>2
  <2> HIDE DEF m
  <2>2. b * q = -b - b * m /\ b * m \in Nat
    BY <2>1
  <2> QED BY <1>1, <2>2
<1>3. b * q = q * b
  BY <1>1
<1> QED BY <1>1, <1>2, <1>3 DEF q, r

\* The remainder of a number, of a small one, and of a multiple.
LEMMA Low ==
  ASSUME NEW a \in Nat, NEW b \in Nat \ {0}
  PROVE  /\ a % b \in 0 .. b - 1 /\ a % b <= a
         /\ a < b => a % b = a
         /\ a % b = 0 /\ a # 0 => a >= b
<1> DEFINE q == a \div b
           r == a % b
<1>1. q \in Nat /\ r \in 0 .. b - 1 /\ a = q * b + r
  BY Quotient
<1> HIDE DEF q, r
<1>2. CASE q = 0
  BY <1>1, <1>2 DEF r
<1>3. CASE q # 0
  <2> DEFINE m == q - 1
  <2>1. m \in Nat /\ q = m + 1
    BY <1>1, <1>3
  <2> HIDE DEF m
  <2>2. q * b = m * b + b /\ m * b \in Nat
    BY <2>1
  <2> DEFINE x == m * b
  <2> HIDE DEF x
  <2>3. x \in Nat /\ a = x + b + r
    BY <1>1, <2>2 DEF x
  <2> QED BY <1>1, <2>3 DEF r
<1> QED BY <1>2, <1>3

\* What the registers keep of a request: for the numbers that they have room for,
\* all; and never more sectors than were asked for.
LEMMA Sent ==
  ASSUME NEW r \in [lba : Nat, count : Nat]
  PROVE  /\ sent_lba(r) \in Nat /\ sent_count(r) \in Nat \ {0}
         /\ r.lba < LBA_SPACE => sent_lba(r) = r.lba
         /\ r.count # 0 => sent_count(r) <= r.count
         /\ r.count # 0 /\ r.count <= MAX_SECTORS => sent_count(r) = r.count
<1> DEFINE a == r.lba
           c == r.count
<1>1. a \in Nat /\ c \in Nat /\ LBA_SPACE \in Nat \ {0} /\ MAX_SECTORS \in Nat \ {0}
  BY DiskAssumption
<1> HIDE DEF a, c
<1>2. a % LBA_SPACE \in 0 .. LBA_SPACE - 1 /\ (a < LBA_SPACE => a % LBA_SPACE = a)
  BY <1>1, Low
<1>3. /\ c % MAX_SECTORS \in 0 .. MAX_SECTORS - 1 /\ c % MAX_SECTORS <= c
      /\ c < MAX_SECTORS => c % MAX_SECTORS = c
      /\ c % MAX_SECTORS = 0 /\ c # 0 => c >= MAX_SECTORS
  BY <1>1, Low
<1>4. CASE c # MAX_SECTORS
  BY <1>1, <1>2, <1>3, <1>4 DEF sent_lba, sent_count, a, c
<1>5. CASE c = MAX_SECTORS
  <2>1. c % MAX_SECTORS = 0
    <3> DEFINE q == c \div MAX_SECTORS
               m == c % MAX_SECTORS
    <3>1. q \in Nat /\ m \in 0 .. MAX_SECTORS - 1 /\ c = q * MAX_SECTORS + m
      BY <1>1, Quotient
    <3> HIDE DEF q, m
    <3>2. CASE q = 0
      BY <1>1, <1>5, <3>1, <3>2
    <3>3. CASE q # 0
      <4> DEFINE d == q - 1
      <4>1. d \in Nat /\ q = d + 1
        BY <3>1, <3>3
      <4> HIDE DEF d
      <4>2. q * MAX_SECTORS = d * MAX_SECTORS + MAX_SECTORS /\ d * MAX_SECTORS \in Nat
        BY <1>1, <4>1
      <4>3. m = 0
        BY <1>1, <1>5, <3>1, <4>2
      <4> QED BY <4>3 DEF m
    <3> QED BY <3>2, <3>3
  <2> QED BY <1>1, <1>2, <1>5, <2>1 DEF sent_lba, sent_count, a, c
<1> QED BY <1>4, <1>5

\* The sectors stored so far are the first ones of the command.
Prefix == \A k \in 1 .. Len(buffer) : buffer[k] = sent_lba(request) + k - 1

\* Inductive: what is stored is right so far, and what the drive has yet to
\* deliver is the rest.
DiskInv ==
    /\ request \in [lba : Nat, count : Nat]
    /\ buffer \in Seq(Int)
    /\ job \in Nat
    /\ Prefix
    /\ pc = "select" => buffer = << >> /\ request.count > 0
    /\ pc = "poll" => Len(buffer) < request.count
    /\ pc \in {"init_busy", "init_ready", "done", "idle"} => Len(buffer) = request.count
    /\ job > 0 => /\ pc \in {"poll", "stuck"} /\ request.count > 0
                  /\ Len(buffer) + job = sent_count(request)
    /\ drive = "data" => job > 0

\* Steps of ata_init and failed attempts leave request, buffer and job alone.
LEMMA QuietStep ==
  ASSUME DiskInv, UNCHANGED <<request, buffer, job>>,
         drive' = "data" => drive = "data",
         \/ pc' \in {pc, "panic", "stuck"}
         \/ pc' \in {"init_ready", "idle"} /\ pc \in {"init_busy", "init_ready", "done"},
         job > 0 => pc' \in {"poll", "stuck"}
  PROVE  DiskInv'
BY DEF DiskInv, Prefix

\* Storing a sector that the drive has ready keeps the driver in step with it.
LEMMA StoreStep ==
  ASSUME DiskInv, pc = "poll", drive = "data", insw, UNCHANGED request
  PROVE  DiskInv'
<1>1. /\ Len(buffer) \in Nat /\ job > 0 /\ job \in Nat
      /\ Len(buffer) + job = sent_count(request)
      /\ sent_lba(request) \in Nat /\ sent_count(request) \in Nat /\ request.count \in Nat
      /\ sent_count(request) <= request.count
  BY Sent DEF DiskInv
<1>2. Delivered = sent_lba(request) + Len(buffer) /\ Delivered \in Int
  BY <1>1 DEF Delivered
<1>3. /\ buffer' = Append(buffer, Delivered)
      /\ buffer' \in Seq(Int)
      /\ Len(buffer') = Len(buffer) + 1
      /\ \A k \in 1 .. Len(buffer) : buffer'[k] = buffer[k]
      /\ buffer'[Len(buffer) + 1] = Delivered
  BY <1>1, <1>2 DEF DiskInv, insw
<1>4. Prefix'
  <2> SUFFICES ASSUME NEW k \in 1 .. Len(buffer) + 1
               PROVE  buffer'[k] = sent_lba(request) + k - 1
    BY <1>3 DEF Prefix
  <2>1. CASE k \in 1 .. Len(buffer)
    BY <1>3, <2>1 DEF DiskInv, Prefix
  <2>2. CASE k = Len(buffer) + 1
    BY <1>1, <1>2, <1>3, <2>2
  <2> QED BY <1>1, <2>1, <2>2
<1>5. /\ job' = job - 1
      /\ drive' = (IF job = 1 THEN "ready" ELSE "busy")
      /\ pc' = (IF Len(buffer') = request.count THEN "done" ELSE "poll")
  BY DEF insw
<1> QED BY <1>1, <1>3, <1>4, <1>5 DEF DiskInv

\* The poll counters and the count of failed attempts stay in their ranges, and
\* what is stored is never more than was asked for.
DiskTypes ==
    /\ pc \in {"init_busy", "init_ready", "panic", "idle", "select", "poll", "done", "stuck"}
    /\ timeout \in 0 .. WORD - 1
    /\ error_count \in 0 .. ATTEMPTS
    /\ pc = "poll" => error_count < ATTEMPTS
    /\ drive \in {"absent", "busy", "spinning", "ready", "data", "error"}
    /\ Len(buffer) <= request.count

\* Every step of ata_init, of disk_read_ex and of the drive keeps the invariant:
\* timeouts, retries and late answers do not put the driver and the drive out of
\* step.
LEMMA DriverStep ==
  ASSUME DiskInv, DriveMoves \/ Driver
  PROVE  DiskInv'
<1>1. CASE DriveMoves
  BY <1>1 DEF DriveMoves, DiskInv, Prefix
<1>2. CASE InitBusy
  BY <1>2, QuietStep DEF InitBusy, InitRound, hardware, DiskInv
<1>3. CASE InitReady
  BY <1>3, QuietStep DEF InitReady, InitRound, hardware, DiskInv
<1>4. CASE Command
  <2>1. sent_count(request) \in Nat \ {0}
    BY Sent DEF DiskInv
  <2> QED BY <1>4, <2>1 DEF Command, hardware, DiskInv, Prefix
<1>5. CASE Poll
  <2>1. CASE Fail
    BY <1>5, <2>1, QuietStep DEF Poll, Fail, hardware, DiskInv
  <2>2. CASE insw /\ ~BSY /\ DRQ
    BY <1>5, <2>2, StoreStep DEF Poll, BSY, DRQ
  <2>3. CASE UNCHANGED <<pc, error_count, buffer, hardware>>
    BY <1>5, <2>3, QuietStep DEF Poll, hardware, DiskInv
  <2> QED BY <1>5, <2>1, <2>2, <2>3 DEF Poll
<1>6. CASE Return
  BY <1>6, QuietStep DEF Return, hardware, DiskInv
<1> QED BY <1>1, <1>2, <1>3, <1>4, <1>5, <1>6 DEF Driver

\* So does the call of disk_read, with any sector and any count but 0.
LEMMA ReadStep ==
  ASSUME DiskInv, NEW r \in [lba : Nat, count : Nat \ {0}], disk_read(r)
  PROVE  DiskInv' /\ request' = r
BY DEF disk_read, hardware, DiskInv, Prefix

\* The same steps keep the ranges.
LEMMA DriverTypes ==
  ASSUME DiskInv, DiskTypes, DriveMoves \/ Driver
  PROVE  DiskTypes'
<1>a. /\ Len(buffer) \in Nat /\ request.count \in Nat
      /\ WORD \in Nat \ {0} /\ TIMEOUT \in 0 .. WORD - 1 /\ INIT_POLLS \in 0 .. WORD - 1
  BY DiskAssumption, WordAssumption DEF DiskInv
<1>b. ASSUME NEW n \in 0 .. WORD - 1 PROVE CountDown(n) \in 0 .. WORD - 1
  BY <1>a DEF CountDown
<1>c. ASSUME NEW b \in BOOLEAN, NEW next \in {"init_ready", "idle"}, InitRound(b, next),
             UNCHANGED <<error_count, request, buffer, hardware>>
      PROVE  DiskTypes'
  <2> DEFINE n == IF b THEN CountDown(timeout) ELSE timeout
  <2>1. n \in 0 .. WORD - 1
    BY <1>b DEF DiskTypes
  <2>2. timeout' \in {n, INIT_POLLS} /\ pc' \in {pc, "panic", next} /\ (pc' = "poll" => pc = "poll")
    BY <1>c DEF InitRound
  <2> HIDE DEF n
  <2> QED BY <1>a, <1>c, <2>1, <2>2 DEF DiskTypes, hardware
<1>1. CASE DriveMoves
  BY <1>1 DEF DriveMoves, DiskTypes
<1>2. CASE InitBusy
  <2>1. BSY \in BOOLEAN
    BY DEF BSY
  <2>2. InitRound(BSY, "init_ready") /\ UNCHANGED <<error_count, request, buffer, hardware>>
    BY <1>2 DEF InitBusy
  <2> QED BY <2>1, <2>2, <1>c
<1>3. CASE InitReady
  <2>1. CASE ERR
    BY <1>3, <2>1 DEF InitReady, DiskTypes, hardware
  <2>2. CASE ~ERR
    BY <1>3, <2>2, <1>c DEF InitReady, DRDY
  <2> QED BY <2>1, <2>2
<1>4. CASE Command
  BY <1>4, <1>a DEF Command, hardware, DiskTypes, ATTEMPTS
<1>5. CASE Poll
  <2>1. CASE Fail
    BY <1>5, <1>a, <2>1 DEF Poll, Fail, hardware, DiskTypes, ATTEMPTS
  <2>2. CASE insw
    <3>1. Len(buffer') = Len(buffer) + 1 /\ Len(buffer) < request.count
      BY <1>5, <2>2 DEF Poll, insw, DiskInv
    <3> QED BY <1>5, <1>a, <2>2, <3>1 DEF Poll, insw, hardware, DiskTypes, ATTEMPTS
  <2>3. CASE timeout # 0 /\ timeout' = timeout - 1 /\ UNCHANGED <<pc, error_count, buffer, hardware>>
    BY <1>5, <1>a, <2>3 DEF Poll, hardware, DiskTypes
  <2> QED BY <1>5, <2>1, <2>2, <2>3 DEF Poll
<1>6. CASE Return
  BY <1>6 DEF Return, hardware, DiskTypes
<1> QED BY <1>1, <1>2, <1>3, <1>4, <1>5, <1>6 DEF Driver

\* And so does the call of disk_read.
LEMMA ReadTypes ==
  ASSUME DiskTypes, NEW r \in [lba : Nat, count : Nat \ {0}], disk_read(r)
  PROVE  DiskTypes'
BY DEF disk_read, hardware, DiskTypes

\* What the driver starts from: the drive has been reset.
LEMMA DiskStart ==
  ASSUME Init
  PROVE  DiskInv /\ DiskTypes
BY DiskAssumption, WordAssumption DEF Init, DiskInv, DiskTypes, Prefix, NoRequest, ATTEMPTS

\* A step that leaves the driver and the drive alone.
LEMMA DiskIdle ==
  ASSUME DiskInv, DiskTypes, UNCHANGED vars
  PROVE  DiskInv' /\ DiskTypes'
BY DEF vars, DiskInv, DiskTypes, Prefix

\* The ranges are TypeOK's, for a request that was one of Requests.
LEMMA DiskRanges ==
  ASSUME DiskInv, DiskTypes, request \in Requests \cup {NoRequest}
  PROVE  TypeOK
<1>1. job \in 0 .. request.count
  BY Sent DEF DiskInv
<1> QED BY <1>1 DEF DiskTypes, TypeOK

\* The sectors of a read that has returned.
LEMMA WhatWasRead ==
  ASSUME DiskInv, pc \in {"done", "idle"}
  PROVE  buffer = [k \in 1 .. request.count |-> sent_lba(request) + k - 1]
<1>1. Len(buffer) = request.count /\ buffer \in Seq(Int)
  BY DEF DiskInv
<1>2. buffer = [k \in 1 .. Len(buffer) |-> buffer[k]]
  BY <1>1
<1> QED BY <1>1, <1>2 DEF DiskInv, Prefix

\* What disk_read_ex has stored and what the drive has yet to deliver fit together
\* in every state of the driver by itself, for every sequence of requests.
THEOREM DiskCorrect == Spec => [](DiskInv /\ DiskTypes)
<1>1. Init => DiskInv /\ DiskTypes
  BY DiskStart
<1>2. DiskInv /\ DiskTypes /\ [Next]_vars => (DiskInv /\ DiskTypes)'
  <2> SUFFICES ASSUME DiskInv, DiskTypes, [Next]_vars PROVE DiskInv' /\ DiskTypes'
    OBVIOUS
  <2>1. CASE DriveMoves \/ Driver
    BY <2>1, DriverStep, DriverTypes
  <2>2. ASSUME NEW r \in Requests, disk_read(r) PROVE DiskInv' /\ DiskTypes'
    <3>1. r \in [lba : Nat, count : Nat \ {0}]
      BY DiskAssumption, WordAssumption
    <3> QED BY <2>2, <3>1, ReadStep, ReadTypes
  <2>3. CASE UNCHANGED vars
    BY <2>3, DiskIdle
  <2> QED BY <2>1, <2>2, <2>3 DEF Next
<1> QED BY <1>1, <1>2, PTL DEF Spec

\* What the driver promises follows from what it keeps, as far as the registers have
\* room for a request.
LEMMA Promised ==
  ASSUME DiskInv
  PROVE  ReadsRight /\ InStep
<1>1. request \in [lba : Nat, count : Nat] /\ LBA_SPACE \in Nat
  BY DiskAssumption DEF DiskInv
<1>2. ReadsRight
  <2> SUFFICES ASSUME pc = "done", request.lba + request.count <= LBA_SPACE
               PROVE  buffer = [k \in 1 .. request.count |-> request.lba + k - 1]
    BY DEF ReadsRight
  <2>1. buffer = [k \in 1 .. request.count |-> sent_lba(request) + k - 1]
    BY WhatWasRead
  <2>2. CASE request.count = 0
    BY <2>1, <2>2
  <2>3. CASE request.count # 0
    <3>1. request.lba < LBA_SPACE
      BY <1>1, <2>3
    <3>2. sent_lba(request) = request.lba
      BY <1>1, <3>1, Sent
    <3> QED BY <2>1, <3>2
  <2> QED BY <2>2, <2>3
<1>3. InStep
  <2>1. ASSUME pc = "poll", job > 0, request.count <= MAX_SECTORS PROVE Len(buffer) + job = request.count
    <3>1. request.count # 0 /\ Len(buffer) + job = sent_count(request)
      BY <2>1 DEF DiskInv
    <3> QED BY <1>1, <2>1, <3>1, Sent
  <2> QED BY <2>1 DEF InStep
<1> QED BY <1>2, <1>3

\* A read that returns has stored exactly the sectors that it was asked for, for
\* every request of uint32_t that does not go behind the sectors that 28 bits can name.
THEOREM DiskReads == Spec => []ReadsRight
<1>1. DiskInv => ReadsRight
  BY Promised
<1> QED BY <1>1, DiskCorrect, PTL

\* While disk_read_ex polls, the drive is at the sector that it waits for.
THEOREM DiskInStep == Spec => []InStep
<1>1. DiskInv => InStep
  BY Promised
<1> QED BY <1>1, DiskCorrect, PTL

\* No attempt follows the third failure, and nothing is stored behind the end of
\* the caller's buffer.
THEOREM DiskTyped == Spec => []TypeOK
<1> DEFINE Asked == request \in Requests \cup {NoRequest}
<1>1. Init => Asked
  BY DEF Init
<1>2. Asked /\ [Next]_vars => Asked'
  <2>1. ASSUME [Next]_vars PROVE request' = request \/ request' \in Requests
    BY <2>1 DEF Next, vars, DriveMoves, Driver, InitBusy, InitReady, Command, Poll, Return, disk_read
  <2> QED BY <2>1
<1>3. DiskInv /\ DiskTypes /\ Asked => TypeOK
  BY DiskRanges
<1> HIDE DEF Asked
<1> QED BY <1>1, <1>2, <1>3, DiskCorrect, PTL DEF Spec
-----------------------------------------------------------------------------
\* The sectors of a block: a block has at least one, and together they are not
\* longer than the block.
LEMMA SectorsOf ==
  ASSUME NEW a \in Nat, NEW b \in Nat \ {0}, a >= b
  PROVE  a \div b \in Nat \ {0} /\ (a \div b) * b <= a
<1> DEFINE q == a \div b
           r == a % b
<1>1. q \in Int /\ r \in 0 .. b - 1 /\ a = b * q + r
  OBVIOUS
<1> HIDE DEF q, r
<1>2. CASE q <= 0
  <2>1. b * q <= 0
    BY <1>1, <1>2
  <2> QED BY <1>1, <2>1
<1>3. q * b = b * q
  BY <1>1
<1>4. q \in Nat \ {0} /\ q * b <= a
  BY <1>1, <1>2, <1>3
<1> QED BY <1>4 DEF q

\* Blocks of the same length start at different sectors.
LEMMA OneStart ==
  ASSUME NEW i \in Nat, NEW j \in Nat, NEW m \in Nat \ {0}, i * m = j * m
  PROVE  i = j
<1>1. ASSUME NEW x \in Nat, NEW y \in Nat, x < y PROVE x * m < y * m
  <2> DEFINE d == y - x
  <2>1. d \in Nat \ {0} /\ y = x + d
    BY <1>1
  <2> HIDE DEF d
  <2>2. /\ y * m = x * m + d * m
        /\ d * m \in Int /\ d * m > 0 /\ x * m \in Int
    BY <2>1
  <2> QED BY <2>2
<1>2. i * m \in Int /\ j * m \in Int
  OBVIOUS
<1> QED BY <1>1, <1>2

\* The first Linux partition, if there is one, is a partition of the table.
LEMMA Least ==
  ASSUME NEW C \in SUBSET Nat, C # {}
  PROVE  Min(C) \in C /\ \A y \in C : Min(C) <= y
<1>1. PICK x \in C : \A y \in C : ~(<<y, x>> \in OpToRel(<, Nat))
  BY NatLessThanWellFounded, WFMin
<1>2. OpToRel(<, Nat) = {ss \in Nat \X Nat : ss[1] < ss[2]}
  BY DEF OpToRel
<1>3. ASSUME NEW y \in C PROVE x <= y
  <2>1. CASE y < x
    <3>1. <<y, x>> \in {ss \in Nat \X Nat : ss[1] < ss[2]}
      BY <2>1
    <3> QED BY <1>1, <1>2, <3>1
  <2> QED BY <2>1
<1> QED BY <1>3 DEF Min

\* What a sequence holds, here the entries of a partition table.
LEMMA ElementIn ==
  ASSUME NEW T, NEW q \in Seq(T), NEW k \in DOMAIN q
  PROVE  q[k] \in T
OBVIOUS

\* probe_ext2_partition gives a sector number, whatever the table says.
LEMMA ProbeStart ==
  ASSUME disk \in Disks, NEW sectors
  PROVE  probe_ext2_partition(MBR(sectors)) \in Nat
<1> DEFINE mbr == MBR(sectors)
           linux == {i \in DOMAIN mbr.partitions : mbr.partitions[i].type = LINUX}
<1>1. disk.mbr.partitions \in Seq([type : Nat, start : 0 .. WORD - 1])
  BY DisksAssumption DEF Described
<1>2. mbr.partitions \in Seq([type : Nat, start : 0 .. WORD - 1])
  BY <1>1 DEF MBR
<1>3. linux \in SUBSET Nat /\ linux \subseteq DOMAIN mbr.partitions
  BY <1>2
<1>4. ASSUME linux # {} PROVE mbr.partitions[Min(linux)].start \in Nat
  <2>1. Min(linux) \in linux
    <3> HIDE DEF linux
    <3> QED BY <1>3, <1>4, Least
  <2>2. Min(linux) \in DOMAIN mbr.partitions
    BY <1>3, <2>1
  <2> DEFINE p == mbr.partitions
             k == Min(linux)
  <2>3. p \in Seq([type : Nat, start : 0 .. WORD - 1]) /\ k \in DOMAIN p
    BY <1>2, <2>2
  <2> HIDE DEF p, k
  <2>4. p[k] \in [type : Nat, start : 0 .. WORD - 1]
    BY <2>3, ElementIn
  <2>5. p[k].start \in Nat
    BY <2>4, WordAssumption
  <2> QED BY <2>5 DEF p, k
<1> HIDE DEF linux
<1>5. probe_ext2_partition(mbr) =
        IF mbr.signature /\ linux # {} THEN mbr.partitions[Min(linux)].start ELSE 0
  BY DEF probe_ext2_partition, linux
<1> HIDE DEF mbr
<1>6. probe_ext2_partition(mbr) \in Nat
  BY <1>4, <1>5
<1> QED BY <1>6 DEF mbr
-----------------------------------------------------------------------------
\* What kmain has taken from the superblock is what the volume really has.
OnVolume ==
    /\ disk.sb.magic
    /\ InReach(ext2_start_lba, disk.block_size) => ext2_start_lba = disk.start
    /\ vol.g_block_size = disk.block_size
    /\ vol.g_inode_size = inode_size(disk.sb) /\ vol.g_inode_size # 0

\* The block that read_inode(2) reads is the one with the root's inode.
RootRead ==
    LET n == disk.block_size \div SECTOR
        per == disk.block_size \div inode_size(disk.sb)
        id == disk.block[disk.group] + (ROOT - 1) \div per
    IN  /\ disk.group \in DOMAIN disk.block
        /\ vol.bg_inode_table = disk.block[disk.group]
        /\ vol.s_inodes_count = disk.sb.s_inodes_count
        /\ per # 0 /\ id <= MAX_BLOCK
        /\ request = [lba |-> (ext2_start_lba + id * n) % WORD, count |-> n]

\* The root is a directory, if it is the root of this volume that kmain has read.
RootIs ==
    InReach(ext2_start_lba, disk.block_size) /\ disk.sb.s_inodes_count >= ROOT => disk.root_mode = "dir"

Fields == {"g_block_size", "g_inode_size", "bg_inode_table", "s_inodes_count", "left", "block"}

\* Inductive.  The tables are there from the first stage on; a read in progress is
\* the one that its stage waits for; the volume has no blocks before the shell.
BootInv ==
    /\ disk \in Disks
    /\ ext2_start_lba \in Nat
    /\ DOMAIN vol = Fields /\ vol.left = disk.left
    /\ stage # "reset"
    /\ stage # "ata" => gates = {0, 7, 8, 10, 11, 12, 13, 14, 33, 128} /\ unmasked = {1}
    /\ IF_ => stage = "shell"
    /\ stage = "superblock" => request = [lba |-> (ext2_start_lba + 2) % WORD, count |-> 2]
    /\ stage \in {"group", "root", "uninitialised", "shell"} => OnVolume
    /\ stage = "root" => RootRead
    /\ stage = "uninitialised" => ROOT > disk.sb.s_inodes_count
    /\ stage # "shell" => vol.block = << >>
    /\ stage = "shell" => IF_ /\ RootIs
    /\ BootInside

\* The constants are numbers, and so is what a disk says.
LEMMA DiskNumbers ==
  ASSUME disk \in Disks
  PROVE  /\ SECTOR \in Nat \ {0} /\ MIN_BLOCK = 2 * SECTOR /\ BUFFER \in Nat /\ SIZEOF_INODE \in Nat \ {0}
         /\ MAX_BLOCK \in Nat \ {0} /\ LBA_SPACE \in Nat \ {0} /\ WORD \in Nat \ {0} /\ LBA_SPACE <= WORD
         /\ disk.start \in Nat /\ disk.block_size \in Nat /\ disk.block_size >= MIN_BLOCK
         /\ DOMAIN disk.block \subseteq Nat
         /\ disk.group \in DOMAIN disk.block => disk.block[disk.group] \in Nat
         /\ disk.sb.magic =>
              /\ disk.sb.s_first_data_block \in Nat
              /\ disk.sb.s_rev_level \in Nat /\ disk.sb.s_inode_size \in Nat
              /\ disk.sb.s_inodes_count \in Nat
              /\ disk.block_size = MIN_BLOCK * 2 ^ disk.sb.s_log_block_size
<1>1. Described(disk)
  BY DisksAssumption
<1>2. /\ SECTOR \in Nat \ {0} /\ MIN_BLOCK = 2 * SECTOR /\ BUFFER \in Nat /\ SIZEOF_INODE \in Nat \ {0}
      /\ MAX_BLOCK \in Nat \ {0} /\ LBA_SPACE \in Nat \ {0} /\ WORD \in Nat \ {0} /\ LBA_SPACE <= WORD
  BY BootAssumption, Ext2Assumption, DiskAssumption, WordAssumption
<1>3. /\ disk.start \in Nat /\ disk.block_size \in MIN_BLOCK .. WORD - 1
      /\ DOMAIN disk.block \subseteq Nat
      /\ disk.group \in DOMAIN disk.block => disk.block[disk.group] \in Nat
      /\ disk.sb.magic =>
            /\ {disk.sb.s_first_data_block, disk.sb.s_rev_level, disk.sb.s_inode_size,
                disk.sb.s_inodes_count} \subseteq 0 .. WORD - 1
            /\ disk.block_size = MIN_BLOCK * 2 ^ disk.sb.s_log_block_size
  BY <1>1, Zenon DEF Described
<1>4. 0 .. WORD - 1 \subseteq Nat /\ disk.block_size \in Nat /\ disk.block_size >= MIN_BLOCK
  BY <1>2, <1>3
<1> QED BY <1>2, <1>3, <1>4, ZenonT(60)

\* Sectors of a block of the volume, the same number for every block.
LEMMA BlockSectors ==
  ASSUME disk \in Disks
  PROVE  /\ disk.block_size \div SECTOR \in Nat \ {0}
         /\ (disk.block_size \div SECTOR) * SECTOR <= disk.block_size
<1>1. /\ disk.block_size \in Nat /\ SECTOR \in Nat \ {0} /\ disk.block_size >= SECTOR
  BY DiskNumbers
<1> QED BY <1>1, SectorsOf

\* Nothing that kmain reads of a volume in reach wraps.
LEMMA NoWrap ==
  ASSUME disk \in Disks, NEW e \in Nat, InReach(e, disk.block_size),
         NEW n, n = disk.block_size \div SECTOR, NEW id \in Nat, id <= MAX_BLOCK
  PROVE  /\ (e + 2) % WORD = e + 2 /\ e + 2 < LBA_SPACE
         /\ (e + id * n) % WORD = e + id * n /\ e + id * n < LBA_SPACE
<1> DEFINE bs == disk.block_size
<1>1. /\ MAX_BLOCK \in Nat \ {0} /\ LBA_SPACE \in Nat \ {0} /\ WORD \in Nat \ {0} /\ LBA_SPACE <= WORD
      /\ bs \in Nat /\ bs >= 2 * SECTOR /\ SECTOR \in Nat \ {0}
      /\ e + (MAX_BLOCK + 1) * n <= LBA_SPACE
  BY DiskNumbers DEF InReach
<1> HIDE DEF bs
<1>2. n \in Nat /\ n >= 2
  <2> DEFINE r == bs % SECTOR
  <2>1. n \in Nat /\ r \in 0 .. SECTOR - 1 /\ bs = n * SECTOR + r
    BY <1>1, Quotient DEF bs
  <2> HIDE DEF r
  <2>2. n # 0 /\ n # 1
    BY <1>1, <2>1
  <2> QED BY <2>1, <2>2
<1> DEFINE d == MAX_BLOCK - id
           x == id * n
           y == d * n
           z == (MAX_BLOCK + 1) * n
<1>3. d \in Nat /\ MAX_BLOCK = id + d
  BY <1>1
<1> HIDE DEF d
<1>4. z = x + y + n /\ x \in Nat /\ y \in Nat
  BY <1>2, <1>3
<1>5. z >= 2 * n
  <2> DEFINE m == MAX_BLOCK - 1
             w == m * n
  <2>1. m \in Nat /\ MAX_BLOCK = m + 1
    BY <1>1
  <2> HIDE DEF m
  <2>2. z = w + n + n /\ w \in Nat
    BY <1>2, <2>1
  <2> HIDE DEF w, z
  <2> QED BY <1>2, <2>2
<1> HIDE DEF x, y, z
<1>6. e + z <= LBA_SPACE
  BY <1>1 DEF z
<1>7. e + 2 < LBA_SPACE /\ e + x < LBA_SPACE /\ e + 2 \in Nat /\ e + x \in Nat
  BY <1>1, <1>2, <1>4, <1>5, <1>6
<1>8. (e + 2) % WORD = e + 2 /\ (e + x) % WORD = e + x
  <2>1. ASSUME NEW a \in Nat, a < LBA_SPACE PROVE a % WORD = a
    <3>1. a < WORD /\ WORD \in Nat \ {0}
      BY <1>1, <2>1
    <3> QED BY <3>1, Low, Zenon
  <2> QED BY <1>7, <2>1
<1> QED BY <1>7, <1>8 DEF x

\* A read of kmain, into a buffer that is too small only for large blocks.
LEMMA ReadBlock ==
  ASSUME DiskInv, DiskTypes, disk \in Disks, BootInside, ext2_start_lba \in Nat,
         NEW v, v.g_block_size = disk.block_size, NEW id \in Nat, NEW next,
         read_block(v, id, next), UNCHANGED disk
  PROVE  /\ DiskInv' /\ DiskTypes' /\ BootInside'
         /\ \/ stage' = "hang"
            \/ /\ stage' = next /\ id <= MAX_BLOCK
               /\ request' = [lba |-> (ext2_start_lba + id * (disk.block_size \div SECTOR)) % WORD,
                              count |-> disk.block_size \div SECTOR]
<1> DEFINE n == disk.block_size \div SECTOR
           r == [lba |-> (ext2_start_lba + id * n) % WORD, count |-> n]
<1>1. n \in Nat \ {0} /\ n * SECTOR <= disk.block_size /\ SECTOR \in Nat \ {0}
      /\ disk.block_size \in Nat /\ BUFFER \in Nat
  BY BlockSectors, DiskNumbers
<1>2. CASE stage' = "hang" /\ UNCHANGED <<vars, over>>
  BY <1>2, DiskIdle DEF BootInside
<1>3. CASE ~(id > MAX_BLOCK) /\ stage' = next /\ Read((ext2_start_lba + id * n) % WORD, n, BUFFER)
  <2>1. disk_read(r) /\ over' = (over \/ n * SECTOR > BUFFER)
    BY <1>3 DEF Read
  <2> HIDE DEF n
  <2>2. (ext2_start_lba + id * n) % WORD \in Nat
    <3> DEFINE a == ext2_start_lba + id * n
    <3>1. a \in Nat /\ WORD \in Nat \ {0}
      BY <1>1, WordAssumption
    <3> HIDE DEF a
    <3>2. a % WORD \in Nat
      BY <3>1, Low
    <3> QED BY <3>2 DEF a
  <2>3. r \in [lba : Nat, count : Nat \ {0}]
    BY <1>1, <2>2
  <2> HIDE DEF r
  <2>4. DiskInv' /\ DiskTypes' /\ request' = r
    BY <2>1, <2>3, ReadStep, ReadTypes
  <2>5. n * SECTOR \in Int /\ (n * SECTOR > BUFFER => disk.block_size > BUFFER)
    BY <1>1
  <2>6. BootInside'
    BY <2>1, <2>5 DEF BootInside
  <2>7. id <= MAX_BLOCK
    BY <1>3, DiskNumbers
  <2> QED BY <1>3, <2>4, <2>6, <2>7 DEF r, n
<1> QED BY <1>2, <1>3 DEF read_block

\* The sizes that fs_init takes from a superblock.
LEMMA Sizes ==
  ASSUME BootInv, disk.sb.magic, NEW v, v = fs_init(disk.sb)
  PROVE  /\ v.g_block_size = disk.block_size
         /\ v.g_inode_size = inode_size(disk.sb)
         /\ v.block = vol.block /\ v.left = vol.left /\ DOMAIN v = DOMAIN vol
<1>1. disk.block_size = MIN_BLOCK * 2 ^ disk.sb.s_log_block_size
  BY DiskNumbers DEF BootInv
<1>2. DOMAIN vol = Fields
  BY DEF BootInv
<1> QED BY <1>1, <1>2 DEF fs_init, Fields

\* kmain sets the tables up and reads the MBR.
LEMMA TablesStep ==
  ASSUME DiskInv, DiskTypes, BootInv, Tables
  PROVE  DiskInv' /\ DiskTypes' /\ BootInv'
<1> DEFINE r == [lba |-> 0, count |-> 1]
<1>1. /\ stage = "ata" /\ stage' = "mbr" /\ idt_init
      /\ disk_read(r) /\ over' = (over \/ 1 * SECTOR > SECTOR)
      /\ UNCHANGED <<files_vars, disk, ext2_start_lba, IF_>>
  BY DEF Tables, At, Read
<1>2. r \in [lba : Nat, count : Nat \ {0}]
  OBVIOUS
<1> HIDE DEF r
<1>3. DiskInv' /\ DiskTypes'
  BY <1>1, <1>2, ReadStep, ReadTypes
<1>4. SECTOR \in Nat /\ ~(1 * SECTOR > SECTOR)
  BY DiskNumbers DEF BootInv
<1>5. BootInside'
  BY <1>1, <1>4 DEF BootInv, BootInside
<1> QED BY <1>1, <1>3, <1>5 DEF BootInv, idt_init, files_vars

\* The partition is found, or not, and the superblock read from where it should be.
LEMMA ProbeStep ==
  ASSUME DiskInv, DiskTypes, BootInv, Probe
  PROVE  DiskInv' /\ DiskTypes' /\ BootInv'
<1> DEFINE e == ext2_start_lba'
           r == [lba |-> (e + 2) % WORD, count |-> 2]
<1>1. /\ stage = "mbr" /\ stage' = "superblock"
      /\ e = probe_ext2_partition(MBR(buffer))
      /\ disk_read(r) /\ over' = (over \/ 2 * SECTOR > 2 * SECTOR)
      /\ UNCHANGED <<files_vars, disk, gates, unmasked, IF_>>
  BY DEF Probe, At, Read
<1>2. e \in Nat
  BY <1>1, ProbeStart DEF BootInv
<1> HIDE DEF e
<1>3. r \in [lba : Nat, count : Nat \ {0}]
  <2>1. (e + 2) % WORD \in Nat
    BY <1>2, WordAssumption, Low
  <2> QED BY <2>1
<1> HIDE DEF r
<1>4. DiskInv' /\ DiskTypes' /\ request' = r
  BY <1>1, <1>3, ReadStep, ReadTypes
<1>5. SECTOR \in Nat /\ ~(2 * SECTOR > 2 * SECTOR)
  BY DiskNumbers DEF BootInv
<1>6. BootInside'
  BY <1>1, <1>5 DEF BootInv, BootInside
<1> QED BY <1>1, <1>2, <1>4, <1>6 DEF BootInv, files_vars, r, e

\* Without a superblock kmain panics; with one it is at the volume's start, and the
\* sizes are the volume's.
LEMMA SuperblockStep ==
  ASSUME DiskInv, DiskTypes, BootInv, CheckSuperblock
  PROVE  DiskInv' /\ DiskTypes' /\ BootInv'
<1> DEFINE sb == Superblock(buffer)
<1>1. /\ stage = "superblock" /\ pc = "idle"
      /\ UNCHANGED <<cwd, g_cwd_path, smashed, out, disk, ext2_start_lba, gates, unmasked, IF_>>
      /\ IF ~sb.magic THEN Stop("panic") /\ UNCHANGED vol
         ELSE /\ vol' = fs_init(sb)
              /\ IF vol'.g_inode_size = 0 THEN DivideError
                 ELSE read_block(vol', (sb.s_first_data_block + 1) % WORD, "group")
  BY DEF CheckSuperblock, At
<1>2. /\ request = [lba |-> (ext2_start_lba + 2) % WORD, count |-> 2]
      /\ disk \in Disks /\ ext2_start_lba \in Nat /\ disk.start \in Nat
  BY <1>1, DiskNumbers DEF BootInv
<1>3. CASE ~sb.magic
  <2>1. stage' = "panic" /\ UNCHANGED <<vars, over, vol>>
    BY <1>1, <1>3 DEF Stop
  <2> QED BY <1>1, <2>1, DiskIdle DEF BootInv, BootInside
<1>4. CASE sb.magic
  <2>1. sb = disk.sb /\ buffer = <<disk.start + 2, disk.start + 3>>
    BY <1>4 DEF Superblock, Nothing
  <2>2. buffer = [k \in 1 .. 2 |-> sent_lba(request) + k - 1]
    BY <1>1, <1>2, WhatWasRead
  <2>3. buffer[1] = disk.start + 2
    BY <2>1
  <2>4. buffer[1] = sent_lba(request) + 1 - 1
    BY <2>2
  <2>5. InReach(ext2_start_lba, disk.block_size) => ext2_start_lba = disk.start
    <3> SUFFICES ASSUME InReach(ext2_start_lba, disk.block_size) PROVE ext2_start_lba = disk.start
      OBVIOUS
    <3>1. 0 \in Nat /\ 0 <= MAX_BLOCK
      BY <1>2, DiskNumbers
    <3>2. (ext2_start_lba + 2) % WORD = ext2_start_lba + 2 /\ ext2_start_lba + 2 < LBA_SPACE
      BY <1>2, <3>1, NoWrap
    <3>3. request \in [lba : Nat, count : Nat] /\ request.lba = ext2_start_lba + 2
      BY <1>2, <3>2
    <3>4. sent_lba(request) = ext2_start_lba + 2
      BY <3>2, <3>3, Sent
    <3> QED BY <1>2, <2>3, <2>4, <3>4
  <2>6. /\ vol'.g_block_size = disk.block_size /\ vol'.g_inode_size = inode_size(disk.sb)
        /\ vol'.block = vol.block /\ vol'.left = vol.left /\ DOMAIN vol' = DOMAIN vol
    BY <1>1, <1>4, <2>1, Sizes
  <2>7. CASE vol'.g_inode_size = 0
    <3>1. stage' = "dead" /\ UNCHANGED <<vars, over>>
      BY <1>1, <1>4, <2>7 DEF DivideError, Stop, BootInv
    <3> QED BY <1>1, <2>6, <3>1, DiskIdle DEF BootInv, BootInside
  <2>8. CASE vol'.g_inode_size # 0
    <3> DEFINE id == (sb.s_first_data_block + 1) % WORD
    <3>1. id \in Nat
      <4> DEFINE a == sb.s_first_data_block + 1
      <4>1. a \in Nat /\ WORD \in Nat \ {0}
        BY <1>2, <1>4, <2>1, DiskNumbers
      <4> HIDE DEF a
      <4>2. a % WORD \in Nat
        BY <4>1, Low
      <4> QED BY <4>2 DEF a
    <3>2. read_block(vol', id, "group")
      BY <1>1, <1>4, <2>8
    <3> HIDE DEF id
    <3>3. DiskInv' /\ DiskTypes' /\ BootInside' /\ stage' \in {"hang", "group"}
      BY <1>1, <1>2, <2>6, <3>1, <3>2, ReadBlock DEF BootInv
    <3>4. OnVolume'
      BY <1>1, <1>4, <2>1, <2>5, <2>6, <2>8 DEF OnVolume
    <3> QED BY <1>1, <2>6, <3>3, <3>4 DEF BootInv
  <2> QED BY <2>7, <2>8
<1> QED BY <1>3, <1>4

\* The group descriptor gives the inode table, and the block with the root's inode
\* is read.
LEMMA GroupStep ==
  ASSUME DiskInv, DiskTypes, BootInv, CheckGroup
  PROVE  DiskInv' /\ DiskTypes' /\ BootInv'
<1> DEFINE table == bg_inode_table(buffer)
           per == disk.block_size \div inode_size(disk.sb)
<1>1. /\ stage = "group"
      /\ UNCHANGED <<cwd, g_cwd_path, smashed, out, disk, ext2_start_lba, gates, unmasked, IF_>>
      /\ vol' = [vol EXCEPT !.bg_inode_table = table, !.s_inodes_count = disk.sb.s_inodes_count]
      /\ IF vol'.bg_inode_table = 0 \/ vol'.bg_inode_table > MAX_TABLE THEN Stop("hang")
         ELSE IF ROOT > vol'.s_inodes_count THEN Stop("uninitialised")
         ELSE IF inodes_per_block = 0 THEN Stop("hang")
         ELSE read_block(vol', vol'.bg_inode_table + (ROOT - 1) \div inodes_per_block, "root")
  BY DEF CheckGroup, At
<1>2. /\ disk \in Disks /\ OnVolume /\ DOMAIN vol = Fields
      /\ vol.left = disk.left /\ ext2_start_lba \in Nat
  BY <1>1 DEF BootInv, OnVolume
<1>3. /\ vol'.g_block_size = disk.block_size /\ vol'.g_inode_size = inode_size(disk.sb)
      /\ vol'.bg_inode_table = table /\ vol'.s_inodes_count = disk.sb.s_inodes_count
      /\ vol'.block = vol.block /\ vol'.left = vol.left /\ DOMAIN vol' = DOMAIN vol
  BY <1>1, <1>2 DEF OnVolume, Fields
<1>4. OnVolume'
  BY <1>1, <1>2, <1>3 DEF OnVolume
<1>5. inodes_per_block = per
  BY <1>2 DEF OnVolume, inodes_per_block
<1>6. CASE Stop("hang") \/ (ROOT > disk.sb.s_inodes_count /\ Stop("uninitialised"))
  BY <1>1, <1>2, <1>3, <1>4, <1>6, DiskIdle DEF Stop, BootInv, BootInside
<1>7. CASE /\ table # 0 /\ per # 0
           /\ read_block(vol', table + (ROOT - 1) \div per, "root")
  <2> DEFINE id == table + (ROOT - 1) \div per
             n == disk.block_size \div SECTOR
  <2>1. disk.group \in DOMAIN disk.block /\ table = disk.block[disk.group] /\ table \in Nat
    <3>1. disk.group \in Blocks(buffer) /\ table = disk.block[disk.group]
      BY <1>7 DEF bg_inode_table
    <3>2. disk.group \in DOMAIN disk.block
      BY <3>1 DEF Blocks
    <3> QED BY <1>2, <3>1, <3>2, DiskNumbers
  <2>2. per \in Nat \ {0}
    <3> DEFINE size == inode_size(disk.sb)
    <3>1. size \in Nat \ {0} /\ disk.block_size \in Nat
      BY <1>2, DiskNumbers DEF OnVolume, inode_size
    <3> HIDE DEF size
    <3>2. disk.block_size \div size \in Nat
      BY <3>1
    <3> QED BY <1>7, <3>2 DEF size
  <2>3. id \in Nat
    <3> HIDE DEF table, per
    <3>1. (ROOT - 1) \div per \in Nat
      BY <2>2 DEF ROOT
    <3> QED BY <2>1, <3>1
  <2>4. read_block(vol', id, "root") /\ disk' = disk /\ vol'.g_block_size = disk.block_size
    BY <1>1, <1>3, <1>7
  <2> HIDE DEF id
  <2>5. /\ DiskInv' /\ DiskTypes' /\ BootInside'
        /\ \/ stage' = "hang"
           \/ /\ stage' = "root" /\ id <= MAX_BLOCK
              /\ request' = [lba |-> (ext2_start_lba + id * n) % WORD, count |-> n]
    BY <1>2, <2>3, <2>4, ReadBlock DEF BootInv
  <2>6. CASE stage' = "hang"
    BY <1>1, <1>2, <1>3, <2>5, <2>6 DEF BootInv
  <2>7. CASE stage' = "root"
    <3>1. request' = [lba |-> (ext2_start_lba' + id * n) % WORD, count |-> n] /\ id <= MAX_BLOCK
      BY <1>1, <2>5, <2>7
    <3>2. RootRead'
      BY <1>1, <1>3, <1>7, <2>1, <3>1 DEF RootRead, id
    <3> QED BY <1>1, <1>2, <1>3, <1>4, <2>5, <2>7, <3>2 DEF BootInv
  <2> QED BY <2>5, <2>6, <2>7
<1> QED BY <1>1, <1>3, <1>5, <1>6, <1>7

\* read_inode finds the root's own inode in what was read.
LEMMA RootFound ==
  ASSUME DiskInv, BootInv, stage = "root", pc = "idle",
         InodeIn(buffer, ((ROOT - 1) % inodes_per_block) + 1).i_mode = "dir",
         InReach(ext2_start_lba, disk.block_size)
  PROVE  disk.root_mode = "dir"
<1> DEFINE n == disk.block_size \div SECTOR
           per == disk.block_size \div inode_size(disk.sb)
           id == disk.block[disk.group] + (ROOT - 1) \div per
           i == ((ROOT - 1) % per) + 1
<1>1. /\ disk \in Disks /\ OnVolume /\ disk.group \in DOMAIN disk.block /\ per # 0
      /\ request = [lba |-> (ext2_start_lba + id * n) % WORD, count |-> n] /\ id <= MAX_BLOCK
      /\ ext2_start_lba = disk.start
  BY DEF BootInv, RootRead, OnVolume
<1>2. n \in Nat \ {0} /\ disk.start \in Nat
  BY <1>1, BlockSectors, DiskNumbers
<1>3. inodes_per_block = per
  BY <1>1 DEF OnVolume, inodes_per_block
<1>4. id \in Nat
  <2>1. inode_size(disk.sb) \in Nat \ {0} /\ disk.block_size \in Nat /\ disk.block[disk.group] \in Nat
    BY <1>1, DiskNumbers DEF OnVolume, inode_size
  <2> DEFINE size == inode_size(disk.sb)
  <2> HIDE DEF size
  <2>2. disk.block_size \div size \in Nat
    BY <2>1 DEF size
  <2>3. per \in Nat \ {0}
    BY <1>1, <2>2 DEF size
  <2> HIDE DEF per
  <2>4. (ROOT - 1) \div per \in Nat
    BY <2>3 DEF ROOT
  <2> QED BY <2>1, <2>4
<1>5. InodeIn(buffer, i).i_mode = "dir"
  BY <1>3
<1>6. Blocks(buffer) # {}
  BY <1>5 DEF InodeIn
<1>7. ASSUME NEW j \in Blocks(buffer) PROVE j = id
  <2> HIDE DEF id, n
  <2>1. buffer = [k \in 1 .. n |-> disk.start + id * n + k - 1]
    <3> DEFINE lba == disk.start + id * n
    <3>1. lba % WORD = lba /\ lba < LBA_SPACE
      <4>1. n = disk.block_size \div SECTOR
        BY DEF n
      <4> QED BY <1>1, <1>2, <1>4, <4>1, NoWrap
    <3>2. request.lba = lba /\ request.count = n
      BY <1>1, <3>1
    <3>3. buffer = [k \in 1 .. request.count |-> sent_lba(request) + k - 1]
      BY WhatWasRead
    <3> HIDE DEF lba
    <3>4. sent_lba(request) = lba
      BY <3>1, <3>2, Sent DEF DiskInv
    <3>5. buffer = [k \in 1 .. n |-> lba + k - 1]
      BY <3>2, <3>3, <3>4
    <3> QED BY <3>5 DEF lba
  <2>2. j \in DOMAIN disk.block /\ buffer = [k \in 1 .. n |-> disk.start + j * n + k - 1]
    BY DEF Blocks, n
  <2>3. j \in Nat
    BY <1>1, <2>2, DiskNumbers
  <2> DEFINE x == id * n
             y == j * n
  <2>4. x \in Int /\ y \in Int
    BY <1>2, <1>4, <2>3
  <2> HIDE DEF x, y
  <2>5. buffer[1] = disk.start + x + 1 - 1
    BY <1>2, <2>1 DEF x
  <2>6. buffer[1] = disk.start + y + 1 - 1
    BY <1>2, <2>2 DEF y
  <2>7. x = y
    BY <1>2, <2>4, <2>5, <2>6
  <2> QED BY <1>2, <1>4, <2>3, <2>7, OneStart DEF x, y
<1>8. (CHOOSE j \in Blocks(buffer) : TRUE) = id /\ id \in DOMAIN disk.block
  <2>1. (CHOOSE j \in Blocks(buffer) : TRUE) \in Blocks(buffer)
    BY <1>6
  <2> QED BY <1>7, <2>1 DEF Blocks
<1>9. disk.block[id][i].i_mode = "dir"
  BY <1>5, <1>6, <1>8 DEF InodeIn
<1>10. disk.block[id][i].i_mode = disk.root_mode
  BY <1>1, <1>8, DisksAssumption DEF Described, OnVolume
<1> QED BY <1>9, <1>10

\* The root is a directory, and the shell starts; or kmain panics; or the copy of an
\* inode larger than the struct has made anything possible.
LEMMA RootStep ==
  ASSUME DiskInv, DiskTypes, BootInv, CheckRoot
  PROVE  DiskInv' /\ DiskTypes' /\ BootInv'
<1>1. /\ stage = "root" /\ pc = "idle"
      /\ over' = (over \/ vol.g_inode_size > SIZEOF_INODE)
      /\ UNCHANGED <<vars, cwd, g_cwd_path, smashed, out, disk, ext2_start_lba, gates, unmasked>>
  BY DEF CheckRoot, At
<1>2. DiskInv' /\ DiskTypes'
  BY <1>1, DiskIdle
<1>3. OnVolume /\ disk \in Disks
  BY <1>1 DEF BootInv
<1>4. BootInside'
  <2>1. vol.g_inode_size > SIZEOF_INODE => disk.sb.s_inode_size > SIZEOF_INODE
    BY <1>3, DiskNumbers DEF OnVolume, inode_size
  <2> QED BY <1>1, <2>1 DEF BootInside, BootInv
<1>5. CASE /\ InodeIn(buffer, ((ROOT - 1) % inodes_per_block) + 1).i_mode = "dir"
           /\ StartShell
  <2>1. RootIs
    BY <1>1, <1>5, RootFound DEF RootIs
  <2>2. /\ stage' = "shell" /\ IF_' = TRUE
        /\ DOMAIN vol' = DOMAIN vol /\ vol'.left = vol.left
        /\ vol'.g_block_size = vol.g_block_size /\ vol'.g_inode_size = vol.g_inode_size
    BY <1>5 DEF StartShell, BootInv, Fields
  <2>3. OnVolume'
    BY <1>1, <1>3, <2>2 DEF OnVolume
  <2>4. RootIs'
    BY <1>1, <2>1 DEF RootIs
  <2> QED BY <1>1, <1>2, <1>4, <2>2, <2>3, <2>4 DEF BootInv
<1>6. CASE stage' \in {"panic", "wild"} /\ UNCHANGED <<IF_, vol>>
  BY <1>1, <1>2, <1>4, <1>6 DEF BootInv
<1> QED BY <1>5, <1>6 DEF CheckRoot

\* root_inode was never written: a volume that does not count its root.
LEMMA GuessStep ==
  ASSUME DiskInv, DiskTypes, BootInv, GuessRoot
  PROVE  DiskInv' /\ DiskTypes' /\ BootInv'
<1>1. /\ stage = "uninitialised" /\ OnVolume /\ ROOT > disk.sb.s_inodes_count
      /\ UNCHANGED <<vars, disk, ext2_start_lba, gates, unmasked, over>>
      /\ disk \in Disks /\ disk.sb.magic
  BY DEF GuessRoot, At, BootInv, OnVolume
<1>2. DiskInv' /\ DiskTypes' /\ BootInside'
  BY <1>1, DiskIdle DEF BootInv, BootInside
<1>3. CASE StartShell
  <2>1. /\ stage' = "shell" /\ IF_' = TRUE
        /\ DOMAIN vol' = DOMAIN vol /\ vol'.left = vol.left
        /\ vol'.g_block_size = vol.g_block_size /\ vol'.g_inode_size = vol.g_inode_size
    BY <1>3 DEF StartShell, BootInv, Fields
  <2>2. OnVolume'
    BY <1>1, <2>1 DEF OnVolume
  <2>3. RootIs'
    <3>1. ~(disk.sb.s_inodes_count >= ROOT)
      BY <1>1, DiskNumbers DEF ROOT
    <3> QED BY <1>1, <3>1 DEF RootIs
  <2> QED BY <1>1, <1>2, <2>1, <2>2, <2>3 DEF BootInv
<1>4. CASE stage' = "panic" /\ UNCHANGED <<IF_, vol>>
  BY <1>1, <1>2, <1>4 DEF BootInv
<1> QED BY <1>3, <1>4 DEF GuessRoot

\* What kmain relies on holds in every state, whatever the drive does and whatever
\* is on the disk.
THEOREM BootCorrect == BootSpec => [](DiskInv /\ DiskTypes /\ BootInv)
<1>1. BootInit => DiskInv /\ DiskTypes /\ BootInv
  <2> SUFFICES ASSUME BootInit PROVE DiskInv /\ DiskTypes /\ BootInv
    OBVIOUS
  <2>1. DiskInv /\ DiskTypes
    BY DiskStart DEF BootInit
  <2> QED BY <2>1 DEF BootInit, BootInv, BootInside, Fields
<1>2. DiskInv /\ DiskTypes /\ BootInv /\ [BootNext]_boot_vars => (DiskInv /\ DiskTypes /\ BootInv)'
  <2> SUFFICES ASSUME DiskInv, DiskTypes, BootInv, [BootNext]_boot_vars
               PROVE  DiskInv' /\ DiskTypes' /\ BootInv'
    OBVIOUS
  <2>1. CASE (DriveMoves \/ Driver) /\ UNCHANGED <<files_vars, kmain_vars>>
    <3>1. DiskInv' /\ DiskTypes'
      BY <2>1, DriverStep, DriverTypes
    <3>2. request' = request
      BY <2>1 DEF DriveMoves, Driver, InitBusy, InitReady, Command, Poll, Return
    <3> QED BY <2>1, <3>1, <3>2 DEF files_vars, kmain_vars, BootInv, OnVolume, RootRead, RootIs, BootInside
  <2>2. CASE Kmain
    BY <2>2, TablesStep, ProbeStep, SuperblockStep, GroupStep, RootStep, GuessStep DEF Kmain
  <2>3. CASE stage = "shell" /\ FilesNext /\ UNCHANGED <<vars, kmain_vars>>
    <3>1. UNCHANGED <<vars, kmain_vars, vol>>
      BY <2>3 DEF FilesNext
    <3> QED BY <2>3, <3>1, DiskIdle DEF kmain_vars, BootInv, OnVolume, RootIs, BootInside
  <2>4. CASE UNCHANGED boot_vars
    <3>1. UNCHANGED <<vars, kmain_vars, vol>>
      BY <2>4 DEF boot_vars, files_vars
    <3>2. request' = request
      BY <3>1 DEF vars
    <3> QED BY <3>1, <3>2, DiskIdle DEF kmain_vars, BootInv, OnVolume, RootRead, RootIs, BootInside
  <2> QED BY <2>1, <2>2, <2>3, <2>4 DEF BootNext
<1> QED BY <1>1, <1>2, PTL DEF BootSpec

\* When interrupts are on, every IRQ that comes through has its gate, and the shell
\* works on the volume that is on the disk: its start, its block size, and a root
\* that is a directory.
THEOREM BootReady == BootSpec => []RunsReady
<1>1. BootInv => RunsReady
  <2> SUFFICES ASSUME BootInv PROVE RunsReady
    OBVIOUS
  <2>1. IF_ => \A i \in unmasked : 32 + i \in gates
    BY DEF BootInv
  <2> QED BY <2>1 DEF BootInv, RunsReady, OnVolume, RootIs
<1> QED BY <1>1, BootCorrect, PTL

\* The reads of kmain and the copy of the root's inode stay inside their buffers on
\* every disk whose blocks and inodes are not larger than these.
THEOREM BootStaysInside == BootSpec => []BootInside
<1>1. BootInv => BootInside
  BY DEF BootInv
<1> QED BY <1>1, BootCorrect, PTL

\* The driver keeps its promise to kmain too: what its reads return is what kmain
\* asked for.
THEOREM BootReads == BootSpec => [](ReadsRight /\ InStep)
<1>1. DiskInv => ReadsRight /\ InStep
  BY Promised
<1> QED BY <1>1, BootCorrect, PTL
-----------------------------------------------------------------------------

\* A piece of a component of a path, in resolve_path, and the component.
Into(dir, piece) == IF dir = 0 THEN 0 ELSE ext2_lookup(vol, dir, piece, FALSE)

Cut == INSTANCE SequenceFacts WITH op <- Into

Down(dir, name) == Cut!Fold(dir, Pieces[name])

Walk == INSTANCE SequenceFacts WITH op <- Down

\* The same when kmalloc fails.
IntoShort(dir, piece) == IF dir = 0 THEN 0 ELSE ext2_lookup(vol, dir, piece, TRUE)

CutShort == INSTANCE SequenceFacts WITH op <- IntoShort

DownShort(dir, name) == CutShort!Fold(dir, Pieces[name])

WalkShort == INSTANCE SequenceFacts WITH op <- DownShort

\* FlattenSeq is the operator of SequenceFacts.
LEMMA Flattened == ASSUME NEW q PROVE FlattenSeq(q) = Walk!Flat(q)
BY DEF FlattenSeq, Walk!Flat

\* The smaller of two numbers.
LEMMA Smaller ==
  ASSUME NEW a \in Nat, NEW b \in Nat
  PROVE  Min({a, b}) = IF a <= b THEN a ELSE b
BY DEF Min

\* The least element of a set of numbers.
LEMMA LeastIs ==
  ASSUME NEW C \in SUBSET Nat, NEW x \in C, \A y \in C : x <= y
  PROVE  Min(C) = x
<1>1. Min(C) \in C /\ \A y \in C : Min(C) <= y
  <2>1. \E z \in C : \A y \in C : z <= y
    OBVIOUS
  <2> QED BY <2>1 DEF Min
<1>2. Min(C) \in Nat /\ x \in Nat /\ Min(C) <= x /\ x <= Min(C)
  BY <1>1
<1> QED BY <1>2

\* Blocks of a file or directory.
LEMMA Counted ==
  ASSUME NEW s \in Nat, NEW b \in Nat \ {0}
  PROVE  /\ (s + b - 1) \div b \in Nat
         /\ \A k \in Nat : k < (s + b - 1) \div b <=> k * b < s
<1> DEFINE q == (s + b - 1) \div b
           r == (s + b - 1) % b
<1>1. q \in Int /\ r \in 0 .. b - 1 /\ s + b - 1 = b * q + r
  OBVIOUS
<1> HIDE DEF q, r
<1>2. q \in Nat
  <2>1. CASE q < 0
    <3> DEFINE m == -q - 1
    <3>1. m \in Nat /\ q = -1 - m
      BY <1>1, <2>1
    <3> HIDE DEF m
    <3>2. b * q = -b - b * m /\ b * m \in Nat
      BY <3>1
    <3> QED BY <1>1, <3>2
  <2> QED BY <1>1, <2>1
<1>3. ASSUME NEW k \in Nat PROVE k < q <=> k * b < s
  <2>1. CASE k < q
    <3> DEFINE m == q - k - 1
    <3>1. m \in Nat /\ q = k + 1 + m
      BY <1>2, <2>1
    <3> HIDE DEF m
    <3>2. b * q = k * b + b + b * m /\ b * m \in Nat /\ k * b \in Nat
      BY <3>1
    <3> QED BY <1>1, <2>1, <3>2
  <2>2. CASE ~(k < q)
    <3> DEFINE m == k - q
    <3>1. m \in Nat /\ k = q + m
      BY <1>2, <2>2
    <3> HIDE DEF m
    <3>2. k * b = b * q + b * m /\ b * m \in Nat /\ b * q \in Nat
      BY <1>2, <3>1
    <3> QED BY <1>1, <2>2, <3>2
  <2> QED BY <2>1, <2>2
<1> QED BY <1>2, <1>3 DEF q

\* The count in uint32_t is never more than the blocks that are needed, and right
\* unless it wraps.
LEMMA Counts ==
  ASSUME NEW inode, inode.i_size \in Nat, vol.g_block_size \in Nat \ {0}
  PROVE  /\ Needed(vol, inode) \in Nat /\ block_count(vol, inode) \in Nat
         /\ block_count(vol, inode) <= Needed(vol, inode)
         /\ Countable(inode) => block_count(vol, inode) = Needed(vol, inode)
<1> DEFINE b == vol.g_block_size
           x == inode.i_size + b - 1
           y == x % WORD
           m == y \div b
           n == x \div b
           r == x % b
           t == y % b
<1>1. b \in Nat \ {0} /\ x \in Nat /\ WORD \in Nat \ {0}
  BY WordAssumption
<1>2. Needed(vol, inode) = n /\ block_count(vol, inode) = m /\ (Countable(inode) <=> x < WORD)
  BY DEF Needed, block_count, Countable
<1> HIDE DEF b, x
<1>3. y \in Nat /\ y <= x /\ (x < WORD => y = x)
  <2>1. y \in 0 .. WORD - 1 /\ y <= x /\ (x < WORD => y = x)
    BY <1>1, Low, Zenon
  <2> HIDE DEF y
  <2> QED BY <1>1, <2>1
<1> HIDE DEF y
<1>4. /\ n \in Nat /\ r \in 0 .. b - 1 /\ x = n * b + r
      /\ m \in Nat /\ t \in 0 .. b - 1 /\ y = m * b + t
  BY <1>1, <1>3, Quotient
<1>5. x < WORD => m = n
  BY <1>3
<1> HIDE DEF m, n, r, t
<1>6. m <= n
  <2> SUFFICES ASSUME m > n PROVE FALSE
    BY <1>4
  <2> DEFINE d == m - n - 1
             u == d * b
             v == n * b
  <2>1. d \in Nat /\ m = n + 1 + d
    BY <1>4
  <2> HIDE DEF d
  <2>2. m * b = v + b + u /\ u \in Nat /\ v \in Nat
    BY <1>1, <1>4, <2>1
  <2> HIDE DEF u
  <2>3. x = v + r
    BY <1>4
  <2> HIDE DEF v
  <2> QED BY <1>1, <1>3, <1>4, <2>2, <2>3
<1> QED BY <1>2, <1>4, <1>5, <1>6

\* A block that belongs to an inode of a readable volume, and what holds of it.
LEMMA Pointers ==
  ASSUME NEW used, Readable(vol, used), NEW num \in used,
         NEW inode, inode = read_inode(vol, num), inode.i_mode \in {"dir", "file"},
         NEW n, n \in {block_count(vol, inode), Needed(vol, inode)},
         NEW indirect \in BOOLEAN, indirect => inode.i_block[DIRECT + 1] # 0
  PROVE  /\ vol.g_block_size \in Nat \ {0} /\ inode.i_size \in Nat
         /\ n \in Nat
         /\ Reach(vol, n, indirect) \in Nat
         /\ Reach(vol, n, indirect) <= n
         /\ Reach(vol, n, indirect) <= Reach(vol, n, inode.i_block[DIRECT + 1] # 0)
         /\ \A k \in 0 .. Reach(vol, n, indirect) - 1 :
              LET id == block_id(vol, inode, k)
              IN  /\ id \in Nat
                  /\ id # 0 => IF inode.i_mode = "file" THEN vol.block[id] \in [1 .. vol.g_block_size -> Nat]
                               ELSE DirBlock(vol.block[id], used)
<1> DEFINE last == inode.i_block[DIRECT + 1]
           bs == vol.g_block_size
           far == DIRECT + bs \div NUMBER
           most == Reach(vol, n, last # 0)
           top == Reach(vol, Needed(vol, inode), last # 0)
           Fits(k) == LET id == block_id(vol, inode, k)
                      IN  id # 0 => IF inode.i_mode = "file" THEN vol.block[id] \in [1 .. bs -> Nat]
                                    ELSE DirBlock(vol.block[id], used)
<1>0. bs \in Nat \ {0} /\ Whole(vol, used, inode)
  BY Zenon DEF Readable
<1>1. /\ bs \in Nat \ {0} /\ inode.i_size \in Nat
      /\ inode.i_block \in [1 .. DIRECT + 1 -> Nat]
      /\ last # 0 => vol.block[last] \in [1 .. bs \div NUMBER -> Nat]
  BY <1>0 DEF Whole
<1>2. \A k \in 0 .. top - 1 : Fits(k)
  BY <1>0, Zenon DEF Whole
<1> HIDE DEF Fits
<1>3. DIRECT \in Nat \ {0} /\ NUMBER \in Nat \ {0}
  BY Ext2Assumption
<1>4. n \in Nat /\ Needed(vol, inode) \in Nat /\ n <= Needed(vol, inode)
  BY <1>1, Counts
<1>5. bs \div NUMBER \in Nat /\ far \in Nat /\ far >= DIRECT
  <2> HIDE DEF bs
  <2>1. bs \div NUMBER \in Nat
    BY <1>1, <1>3, Quotient
  <2> QED BY <1>3, <2>1
<1> DEFINE here == Reach(vol, n, indirect)
           all == Needed(vol, inode)
           near == IF n <= DIRECT THEN n ELSE DIRECT
           both == IF n <= far THEN n ELSE far
<1>6. /\ Reach(vol, n, TRUE) = both /\ Reach(vol, n, FALSE) = near
      /\ top = IF last # 0 THEN IF all <= far THEN all ELSE far
               ELSE IF all <= DIRECT THEN all ELSE DIRECT
  BY <1>3, <1>4, <1>5, Smaller DEF Reach
<1>6a. most = IF last # 0 THEN both ELSE near
  BY <1>3, <1>4, <1>5, Smaller DEF Reach
<1> HIDE DEF top, all
<1>7. \/ indirect /\ last # 0 /\ here = both /\ most = both
      \/ here = near /\ most \in {both, near}
  <2> HIDE DEF near, both
  <2>1. (last # 0) = TRUE \/ (last # 0) = FALSE
    OBVIOUS
  <2>2. most = both \/ most = near
    BY <1>6, <2>1, Zenon
  <2>3. CASE indirect = TRUE
    <3>1. last # 0
      BY <2>3
    <3>2. (last # 0) = TRUE
      BY <3>1
    <3> QED BY <1>6, <2>3, <3>1, <3>2, Zenon
  <2>4. CASE indirect = FALSE
    BY <1>6, <2>2, <2>4, Zenon
  <2> QED BY <2>3, <2>4
<1> HIDE DEF here, most
<1>8. /\ here \in Nat /\ most \in Nat /\ here <= n /\ here <= most
      /\ \A k \in 0 .. here - 1 : k < DIRECT \/ (last # 0 /\ k < far)
  <2> HIDE DEF far, last
  <2> QED BY <1>3, <1>4, <1>5, <1>7
<1>8a. top \in Nat /\ most <= top
  <2>1. all \in Nat /\ n <= all
    BY <1>4 DEF all
  <2> HIDE DEF far
  <2> QED BY <1>3, <1>4, <1>5, <1>6, <1>6a, <2>1
<1> HIDE DEF near, both
<1>9. ASSUME NEW k \in 0 .. here - 1 PROVE block_id(vol, inode, k) \in Nat /\ Fits(k)
  <2>1. k \in 0 .. top - 1 /\ k \in Nat
    BY <1>8, <1>8a
  <2>2. Fits(k)
    BY <1>2, <2>1
  <2>3. CASE k < DIRECT
    BY <1>1, <1>3, <2>1, <2>2, <2>3 DEF block_id
  <2>4. CASE ~(k < DIRECT)
    <3>2. last # 0 /\ k < far
      BY <1>8, <2>4
    <3>3. k - DIRECT + 1 \in 1 .. bs \div NUMBER
      BY <1>3, <1>5, <2>1, <2>4, <3>2 DEF far
    <3>4. vol.block[last] \in [1 .. bs \div NUMBER -> Nat]
      BY <1>1, <3>2
    <3>5. block_id(vol, inode, k) = vol.block[last][k - DIRECT + 1]
      BY <2>4 DEF block_id, read_fs_block
    <3> QED BY <2>2, <3>3, <3>4, <3>5
  <2> QED BY <2>3, <2>4
<1> QED BY <1>1, <1>4, <1>8, <1>9, Zenon DEF here, most, Fits

\* Entries of a directory that are in use.
InUse(used) == [inode : used, name : DOMAIN Length, bad : BOOLEAN]

\* An entry that is in use and has a name.
HasName(e) == e.inode # 0 /\ Length[e.name] > 0

\* The entries that a walk finds in a directory block are those in use.
LEMMA EntriesAre ==
  ASSUME NEW used, NEW block, DirBlock(block, used)
  PROVE  /\ Entries(block) \in Seq(InUse(used))
         /\ \A e : Walk!In(e, Entries(block)) <=> Walk!In(e, block) /\ HasName(e) /\ ~e.bad
<1> DEFINE end == {i \in DOMAIN block : block[i].bad}
           seen == IF end = {} THEN block ELSE SubSeq(block, 1, Min(end) - 1)
           piece(i) == IF HasName(seen[i]) THEN <<seen[i]>> ELSE << >>
           q == [i \in DOMAIN seen |-> piece(i)]
           n == Len(block)
<1>1. /\ n \in Nat /\ DOMAIN block = 1 .. n /\ block \in Seq(Records(used))
      /\ \A i \in 1 .. n : block[i] \in Records(used)
  BY DEF DirBlock
<1>1a. end \subseteq 1 .. n /\ \A i \in end : i = n
  BY <1>1, Zenon DEF DirBlock
<1>1b. \A i \in 1 .. n : i \in end <=> block[i].bad
  BY <1>1, Zenon
<1>2. /\ seen \in Seq(Records(used)) /\ Len(seen) \in Nat /\ DOMAIN seen = 1 .. Len(seen)
      /\ Len(seen) <= n
      /\ \A i \in 1 .. Len(seen) : seen[i] = block[i] /\ i \notin end
      /\ \A i \in 1 .. n : i \notin end => i \in 1 .. Len(seen)
  <2> HIDE DEF end
  <2>1. CASE end = {}
    <3>1. seen = block
      BY <2>1
    <3> HIDE DEF seen
    <3> QED BY <1>1, <2>1, <3>1
  <2>2. CASE end # {}
    <3>1. n \in end /\ n >= 1 /\ end \in SUBSET Nat /\ \A y \in end : n <= y
      <4> HIDE DEF n
      <4>1. PICK y \in end : TRUE
        BY <2>2
      <4>2. y = n /\ y \in 1 .. n
        BY <1>1a
      <4>3. n \in end /\ n >= 1
        BY <1>1, <4>1, <4>2
      <4>4. end \in SUBSET Nat
        BY <1>1, <1>1a
      <4>5. ASSUME NEW z \in end PROVE n <= z
        BY <1>1, <1>1a
      <4> QED BY <4>3, <4>4, <4>5
    <3>3. Min(end) = n
      BY <3>1, LeastIs
    <3>4. seen = SubSeq(block, 1, n - 1)
      BY <2>2, <3>3
    <3> HIDE DEF seen, n
    <3>5. /\ seen \in Seq(Records(used)) /\ Len(seen) = n - 1 /\ DOMAIN seen = 1 .. n - 1
          /\ \A i \in 1 .. n - 1 : seen[i] = block[i]
      <4>1. Len(block) = n
        BY DEF n
      <4> QED BY <1>1, <3>1, <3>4, <4>1
    <3>6. \A i \in 1 .. n - 1 : i \notin end
      BY <1>1, <1>1a
    <3> QED BY <1>1, <3>1, <3>5, <3>6
  <2> QED BY <2>1, <2>2
<1> HIDE DEF seen, end, n
<1>3. ASSUME NEW i \in 1 .. Len(seen), HasName(seen[i]) PROVE seen[i] \in InUse(used)
  <2>1. seen[i] \in Records(used)
    BY <1>2
  <2>2. seen[i].inode # 0
    BY <1>3 DEF HasName
  <2> QED BY <2>1, <2>2 DEF Records, InUse
<1>4. ASSUME NEW i \in 1 .. Len(seen) PROVE piece(i) \in Seq(InUse(used))
  BY <1>3
<1>5. q \in Seq(Seq(InUse(used))) /\ Len(q) = Len(seen) /\ \A i \in 1 .. Len(seen) : q[i] = piece(i)
  <2> HIDE DEF piece
  <2> QED BY <1>2, <1>4
<1>6. Entries(block) = Walk!Flat(q)
  BY Flattened DEF Entries, seen, end, HasName
<1> HIDE DEF q
<1>7. Walk!Flat(q) \in Seq(InUse(used))
  BY <1>5, Walk!FlatJoins
<1>8. ASSUME NEW e PROVE Walk!In(e, Entries(block)) <=> Walk!In(e, block) /\ HasName(e) /\ ~e.bad
  <2>1. Walk!In(e, Walk!Flat(q)) <=> \E k \in 1 .. Len(q) : Walk!In(e, q[k])
    BY <1>5, Walk!FlatRange
  <2>2. ASSUME NEW k \in 1 .. Len(seen)
        PROVE  Walk!In(e, q[k]) <=> seen[k] = e /\ HasName(e)
    <3>1. q[k] = piece(k)
      BY <1>5
    <3>2. CASE ~HasName(seen[k])
      <4>1. q[k] = << >>
        BY <3>1, <3>2
      <4> QED BY <3>2, <4>1 DEF Walk!In
    <3>3. CASE HasName(seen[k])
      <4>1. q[k] = <<seen[k]>>
        BY <3>1, <3>3
      <4> QED BY <3>3, <4>1 DEF Walk!In
    <3> QED BY <3>2, <3>3
  <2>3. Walk!In(e, Entries(block)) <=> \E k \in 1 .. Len(seen) : seen[k] = e /\ HasName(e)
    BY <1>5, <1>6, <2>1, <2>2
  <2>4. (\E k \in 1 .. Len(seen) : seen[k] = e) <=> Walk!In(e, block) /\ ~e.bad
    <3>1. ASSUME NEW k \in 1 .. Len(seen), seen[k] = e PROVE Walk!In(e, block) /\ ~e.bad
      <4>1. k \in 1 .. n /\ block[k] = e /\ k \notin end
        BY <1>1, <1>2, <3>1
      <4>2. ~e.bad
        BY <1>1b, <4>1, Zenon
      <4> QED BY <4>1, <4>2, Zenon DEF Walk!In, n
    <3>2. ASSUME NEW k \in 1 .. n, block[k] = e, ~e.bad PROVE \E i \in 1 .. Len(seen) : seen[i] = e
      <4>1. k \notin end
        BY <1>1b, <3>2, Zenon
      <4> QED BY <1>2, <3>2, <4>1
    <3> QED BY <3>1, <3>2, Zenon DEF Walk!In, n
  <2> QED BY <2>3, <2>4, Zenon
<1> QED BY <1>6, <1>7, <1>8

\* An entry that ls prints.
Shown(e) == HasName(e) /\ ~e.bad

\* What the walk puts together for the k-th block of a directory, and for the first n.
Piece(inode, k) ==
    IF block_id(vol, inode, k) = 0 THEN << >> ELSE Entries(vol.block[block_id(vol, inode, k)])
Gathered(inode, n) == [k \in 1 .. n |-> Piece(inode, k - 1)]

\* The walk over a directory puts these together.
LEMMA ListingIs ==
  ASSUME NEW inode, NEW full, NEW indirect, indirect = (inode.i_block[DIRECT + 1] # 0 /\ ~full)
  PROVE  Listing(vol, inode, full) = Walk!Flat(Gathered(inode, Reach(vol, block_count(vol, inode), indirect)))
<1> DEFINE n == Reach(vol, block_count(vol, inode), indirect)
           ids == BlocksOf(vol, inode, n)
           p == [k \in DOMAIN ids |-> IF ids[k] = 0 THEN << >> ELSE Entries(read_fs_block(vol, ids[k]))]
<1>1. Listing(vol, inode, full) = FlattenSeq(p)
  BY Zenon DEF Listing
<1> HIDE DEF n
<1>2. DOMAIN ids = 1 .. n /\ \A k \in 1 .. n : ids[k] = block_id(vol, inode, k - 1)
  BY DEF BlocksOf
<1>3. p = Gathered(inode, n)
  <2> HIDE DEF ids
  <2> QED BY <1>2 DEF Gathered, Piece, read_fs_block
<1> QED BY <1>1, <1>3, Flattened, Zenon DEF n

\* They are sequences of entries in use, found in the blocks of the directory.
LEMMA PiecesAre ==
  ASSUME NEW used, Readable(vol, used), NEW num \in used,
         NEW inode, inode = read_inode(vol, num), inode.i_mode = "dir",
         NEW indirect \in BOOLEAN, indirect => inode.i_block[DIRECT + 1] # 0,
         NEW n, n = Reach(vol, block_count(vol, inode), indirect)
  PROVE  /\ n \in Nat /\ Gathered(inode, n) \in Seq(Seq(InUse(used))) /\ Len(Gathered(inode, n)) = n
         /\ \A k \in 0 .. n - 1 : \A e :
              Walk!In(e, Piece(inode, k)) <=>
                 /\ block_id(vol, inode, k) # 0
                 /\ Walk!In(e, vol.block[block_id(vol, inode, k)]) /\ Shown(e)
<1> DEFINE c == block_count(vol, inode)
<1>0. c \in {block_count(vol, inode), Needed(vol, inode)} /\ n = Reach(vol, c, indirect)
      /\ inode.i_mode \in {"dir", "file"}
  OBVIOUS
<1> HIDE DEF c
<1>1. n \in Nat
  BY <1>0, Pointers
<1>2. ASSUME NEW k \in 0 .. n - 1, block_id(vol, inode, k) # 0
      PROVE  DirBlock(vol.block[block_id(vol, inode, k)], used)
  <2>1. inode.i_mode # "file" /\ k \in 0 .. Reach(vol, c, indirect) - 1
    BY <1>0
  <2> QED BY <1>0, <1>2, <2>1, Pointers
<1>3. ASSUME NEW k \in 0 .. n - 1
      PROVE  /\ Piece(inode, k) \in Seq(InUse(used))
             /\ \A e : Walk!In(e, Piece(inode, k)) <=>
                 /\ block_id(vol, inode, k) # 0
                 /\ Walk!In(e, vol.block[block_id(vol, inode, k)]) /\ Shown(e)
  <2>1. CASE block_id(vol, inode, k) = 0
    BY <2>1 DEF Piece, Walk!In
  <2>2. CASE block_id(vol, inode, k) # 0
    <3> DEFINE b == vol.block[block_id(vol, inode, k)]
    <3>1. Piece(inode, k) = Entries(b) /\ DirBlock(b, used)
      BY <1>2, <2>2 DEF Piece
    <3> HIDE DEF b
    <3>2. /\ Entries(b) \in Seq(InUse(used))
          /\ \A e : Walk!In(e, Entries(b)) <=> Walk!In(e, b) /\ Shown(e)
      BY <3>1, EntriesAre DEF Shown
    <3> QED BY <2>2, <3>1, <3>2, Zenon DEF b
  <2> QED BY <2>1, <2>2
<1>4. Gathered(inode, n) \in Seq(Seq(InUse(used))) /\ Len(Gathered(inode, n)) = n
  <2>1. \A k \in 1 .. n : Piece(inode, k - 1) \in Seq(InUse(used))
    BY <1>1, <1>3
  <2> QED BY <1>1, <2>1 DEF Gathered
<1> QED BY <1>1, <1>3, <1>4

\* A sequence begins with another.
Begins(p, q) == Len(p) <= Len(q) /\ \A i \in 1 .. Len(p) : p[i] = q[i]

\* The two walks, without and with the indirect block.
LEMMA Listings ==
  ASSUME NEW used, Readable(vol, used), NEW num \in used,
         NEW inode, inode = read_inode(vol, num), inode.i_mode = "dir",
         NEW a, a = Listing(vol, inode, TRUE), NEW b, b = Listing(vol, inode, FALSE)
  PROVE  a \in Seq(InUse(used)) /\ b \in Seq(InUse(used)) /\ Begins(a, b)
<1> DEFINE T == InUse(used)
           last == inode.i_block[DIRECT + 1]
           near == FALSE
           far == last # 0
           n == Reach(vol, block_count(vol, inode), near)
           m == Reach(vol, block_count(vol, inode), far)
           p == Gathered(inode, n)
           q == Gathered(inode, m)
<1>0. near \in BOOLEAN /\ (near => last # 0) /\ far \in BOOLEAN /\ (far => last # 0)
  OBVIOUS
<1>1. a = Walk!Flat(p)
  <2>1. FALSE = (last # 0 /\ ~TRUE)
    OBVIOUS
  <2> QED BY <2>1, ListingIs, Zenon
<1>2. b = Walk!Flat(q)
  <2>1. (last # 0) = (last # 0 /\ ~FALSE)
    OBVIOUS
  <2> QED BY <2>1, ListingIs, Zenon
<1>5. n <= m
  <2> DEFINE c == block_count(vol, inode)
  <2>1. c \in {block_count(vol, inode), Needed(vol, inode)} /\ n = Reach(vol, c, near)
        /\ m = Reach(vol, c, inode.i_block[DIRECT + 1] # 0) /\ inode.i_mode \in {"dir", "file"}
    OBVIOUS
  <2> HIDE DEF near, c, n, m
  <2> QED BY <1>0, <2>1, Pointers
<1> HIDE DEF near, far
<1>3. n \in Nat /\ p \in Seq(Seq(T)) /\ Len(p) = n
  BY <1>0, PiecesAre
<1>4. m \in Nat /\ q \in Seq(Seq(T)) /\ Len(q) = m
  BY <1>0, PiecesAre
<1> HIDE DEF n, m
<1>6. \A k \in 1 .. Len(p) : p[k] = q[k]
  BY <1>3, <1>4, <1>5 DEF Gathered
<1> HIDE DEF p, q, T
<1>7. /\ Walk!Flat(p) \in Seq(T) /\ Walk!Flat(q) \in Seq(T) /\ Len(Walk!Flat(p)) <= Len(Walk!Flat(q))
      /\ \A i \in 1 .. Len(Walk!Flat(p)) : Walk!Flat(p)[i] = Walk!Flat(q)[i]
  BY <1>3, <1>4, <1>5, <1>6, Walk!FlatPrefix
<1> QED BY <1>1, <1>2, <1>7, Zenon DEF T, Begins

\* Where a sequence has entries of that name.
Named(q, name) == {i \in DOMAIN q : q[i].name = name}

\* The first entry of a name, in a sequence and in one that begins with it.
LEMMA SameFirst ==
  ASSUME NEW T, NEW p \in Seq(T), NEW q \in Seq(T), Begins(p, q), NEW name,
         NEW f, f = Named(p, name), f # {}, NEW g, g = Named(q, name)
  PROVE  g # {} /\ p[Min(f)] = q[Min(g)]
<1>1. /\ Len(p) \in Nat /\ Len(q) \in Nat /\ DOMAIN p = 1 .. Len(p) /\ DOMAIN q = 1 .. Len(q)
      /\ Len(p) <= Len(q) /\ \A i \in 1 .. Len(p) : p[i] = q[i]
  BY DEF Begins
<1>2. f \in SUBSET Nat /\ g \in SUBSET Nat
  BY <1>1 DEF Named
<1> DEFINE x == Min(f)
<1>3. x \in f /\ \A y \in f : x <= y
  BY <1>2, Least
<1> HIDE DEF x
<1>4. x \in 1 .. Len(p) /\ p[x].name = name
  BY <1>1, <1>3 DEF Named
<1>5. x \in g
  BY <1>1, <1>4 DEF Named
<1>6. ASSUME NEW y \in g PROVE x <= y
  <2>1. CASE y <= Len(p)
    <3>1. y \in 1 .. Len(p) /\ q[y].name = name
      BY <1>1, <2>1 DEF Named
    <3>2. y \in f
      BY <1>1, <3>1 DEF Named
    <3> QED BY <1>3, <3>2
  <2>2. CASE ~(y <= Len(p))
    BY <1>1, <1>2, <1>4, <2>2
  <2> QED BY <2>1, <2>2
<1>7. Min(g) = x
  BY <1>2, <1>5, <1>6, LeastIs
<1> QED BY <1>1, <1>4, <1>5, <1>7 DEF x

\* A lookup answers with an inode in use, or 0.  It answers the same when kmalloc
\* fails, or that there is no such name.
LEMMA Lookups ==
  ASSUME NEW used, Readable(vol, used), NEW num \in used, NEW name, NEW full \in BOOLEAN
  PROVE  /\ ext2_lookup(vol, num, name, FALSE) \in used \cup {0}
         /\ ext2_lookup(vol, num, name, full) \in {0, ext2_lookup(vol, num, name, FALSE)}
         /\ ext2_lookup(vol, num, name, full) # 0 => read_inode(vol, num).i_mode = "dir"
<1> DEFINE inode == read_inode(vol, num)
           p == Listing(vol, inode, TRUE)
           q == Listing(vol, inode, FALSE)
           f == Named(p, name)
           g == Named(q, name)
           less == ext2_lookup(vol, num, name, TRUE)
           more == ext2_lookup(vol, num, name, FALSE)
<1>1. /\ less = IF inode.i_mode # "dir" \/ f = {} THEN 0 ELSE p[Min(f)].inode
      /\ more = IF inode.i_mode # "dir" \/ g = {} THEN 0 ELSE q[Min(g)].inode
  BY Zenon DEF ext2_lookup, Named
<1>2. (less # 0 \/ more # 0) => inode.i_mode = "dir"
  BY <1>1
<1>3. more \in used \cup {0} /\ less \in {0, more}
  <2>1. CASE inode.i_mode # "dir"
    BY <1>1, <2>1
  <2>2. CASE inode.i_mode = "dir"
    <3>1. p \in Seq(InUse(used)) /\ q \in Seq(InUse(used)) /\ Begins(p, q)
      <4>1. inode = read_inode(vol, num) /\ p = Listing(vol, inode, TRUE) /\ q = Listing(vol, inode, FALSE)
        OBVIOUS
      <4> HIDE DEF inode, p, q, f, g, less, more
      <4>2. num \in used /\ Readable(vol, used) /\ inode.i_mode = "dir"
        BY <2>2
      <4> QED BY <4>1, <4>2, Listings
    <3> HIDE DEF p, q, inode, less, more
    <3>2. f # {} => g # {} /\ p[Min(f)] = q[Min(g)]
      <4> DEFINE T == InUse(used)
      <4>1. p \in Seq(T) /\ q \in Seq(T)
        BY <3>1
      <4>2. f = Named(p, name) /\ g = Named(q, name)
        OBVIOUS
      <4> HIDE DEF T, f, g
      <4> QED BY <3>1, <4>1, <4>2, SameFirst
    <3>3. g # {} => q[Min(g)].inode \in used
      <4> SUFFICES ASSUME g # {} PROVE q[Min(g)].inode \in used
        OBVIOUS
      <4>1. g \in SUBSET Nat /\ g \subseteq DOMAIN q
        BY <3>1 DEF Named
      <4>2. Min(g) \in g
        <5> HIDE DEF g
        <5> QED BY <4>1, Least
      <4> DEFINE k == Min(g)
      <4>3. k \in DOMAIN q
        BY <4>1, <4>2
      <4> HIDE DEF k
      <4>4. q[k] \in InUse(used)
        BY <3>1, <4>3, ElementIn
      <4>5. q[k].inode \in used
        BY <4>4 DEF InUse
      <4> QED BY <4>5 DEF k
    <3> HIDE DEF f, g
    <3> QED BY <1>1, <2>2, <3>2, <3>3
  <2> QED BY <2>1, <2>2
<1>4. CASE full = TRUE
  <2>1. ext2_lookup(vol, num, name, full) = less
    BY <1>4
  <2> QED BY <1>2, <1>3, <2>1, Zenon
<1>5. CASE full = FALSE
  <2>1. ext2_lookup(vol, num, name, full) = more
    BY <1>5
  <2> QED BY <1>2, <1>3, <2>1, Zenon
<1> QED BY <1>4, <1>5

\* The pointers lead to every block exactly if there are not more than they can hold.
LEMMA Reached ==
  ASSUME NEW used, Readable(vol, used), NEW num \in used,
         NEW inode, inode = read_inode(vol, num), inode.i_mode \in {"dir", "file"}
  PROVE  (Reach(vol, Needed(vol, inode), inode.i_block[DIRECT + 1] # 0) = Needed(vol, inode)) <=> Addressed(inode)
<1> DEFINE last == inode.i_block[DIRECT + 1]
           n == Needed(vol, inode)
           far == DIRECT + vol.g_block_size \div NUMBER
           most == Reach(vol, n, last # 0)
           lim == IF last = 0 THEN DIRECT ELSE far
<1>1. n \in Nat /\ vol.g_block_size \in Nat
  <2> DEFINE b == FALSE
  <2>1. b \in BOOLEAN /\ (b => last # 0)
    OBVIOUS
  <2> HIDE DEF b
  <2>2. n \in {block_count(vol, inode), Needed(vol, inode)}
    OBVIOUS
  <2> HIDE DEF n
  <2> QED BY <2>1, <2>2, Pointers
<1>2. lim \in Nat
  <2>1. DIRECT \in Nat /\ NUMBER \in Nat \ {0}
    BY Ext2Assumption
  <2>2. vol.g_block_size \div NUMBER \in Nat
    BY <1>1, <2>1, Quotient
  <2> QED BY <2>1, <2>2
<1>3. most = Min({n, lim})
  BY DEF Reach
<1>4. Addressed(inode) <=> n <= lim
  BY DEF Addressed
<1> HIDE DEF n, lim, most
<1>5. most = IF n <= lim THEN n ELSE lim
  BY <1>1, <1>2, <1>3, Smaller
<1>6. most = n <=> n <= lim
  BY <1>1, <1>2, <1>5
<1> QED BY <1>4, <1>6 DEF most, n

\* The count of the blocks of a file or directory that is not too large for it.
LEMMA Sized ==
  ASSUME NEW used, Readable(vol, used), NEW num \in used,
         NEW inode, inode = read_inode(vol, num), inode.i_mode \in {"dir", "file"}, Countable(inode)
  PROVE  block_count(vol, inode) = Needed(vol, inode)
<1>1. vol.g_block_size \in Nat \ {0} /\ Whole(vol, used, inode)
  BY Zenon DEF Readable
<1>2. inode.i_size \in Nat
  BY <1>1 DEF Whole
<1> QED BY <1>1, <1>2, Counts

\* Range of a sequence.
LEMMA RangeIs == ASSUME NEW T, NEW q \in Seq(T), NEW e PROVE e \in Range(q) <=> Walk!In(e, q)
BY DEF Range, Walk!In

\* What ls prints of a directory that the pointers lead to.
LEMMA ListsEvery ==
  ASSUME NEW used, Readable(vol, used), NEW num \in used,
         NEW inode, inode = read_inode(vol, num), inode.i_mode = "dir", Addressed(inode), Countable(inode),
         NEW ids, ids = {block_id(vol, inode, k) : k \in 0 .. Needed(vol, inode) - 1} \ {0}
  PROVE  Range(Listing(vol, inode, FALSE))
           = {e \in UNION {Range(vol.block[id]) : id \in ids} : e.inode # 0 /\ Length[e.name] > 0 /\ ~e.bad}
<1> DEFINE T == InUse(used)
           far == inode.i_block[DIRECT + 1] # 0
           m == Reach(vol, block_count(vol, inode), far)
           q == Gathered(inode, m)
           all == UNION {Range(vol.block[id]) : id \in ids}
<1>1. Listing(vol, inode, FALSE) = Walk!Flat(q)
  <2>1. far = (far /\ ~FALSE)
    OBVIOUS
  <2> QED BY <2>1, ListingIs, Zenon
<1>2. m = Needed(vol, inode)
  <2>1. block_count(vol, inode) = Needed(vol, inode)
    BY Sized
  <2>2. Reach(vol, Needed(vol, inode), far) = Needed(vol, inode)
    BY Reached
  <2> QED BY <2>1, <2>2, Zenon
<1>3. far \in BOOLEAN /\ (far => inode.i_block[DIRECT + 1] # 0)
  OBVIOUS
<1> HIDE DEF far
<1>4. /\ m \in Nat /\ q \in Seq(Seq(T)) /\ Len(q) = m
      /\ \A k \in 0 .. m - 1 : \A e :
           Walk!In(e, Piece(inode, k)) <=>
              /\ block_id(vol, inode, k) # 0
              /\ Walk!In(e, vol.block[block_id(vol, inode, k)]) /\ Shown(e)
  BY <1>3, PiecesAre
<1>5. \A k \in 0 .. m - 1 : block_id(vol, inode, k) # 0 => DirBlock(vol.block[block_id(vol, inode, k)], used)
  <2> DEFINE c == block_count(vol, inode)
  <2>1. inode.i_mode \in {"dir", "file"} /\ inode.i_mode # "file"
        /\ c \in {block_count(vol, inode), Needed(vol, inode)} /\ m = Reach(vol, c, far)
    OBVIOUS
  <2> HIDE DEF c, m
  <2> QED BY <1>3, <2>1, Pointers
<1> HIDE DEF m, T
<1>6. ASSUME NEW id \in ids, NEW e PROVE e \in Range(vol.block[id]) <=> Walk!In(e, vol.block[id])
  <2> DEFINE b == vol.block[id]
  <2>1. b \in Seq(Records(used))
    BY <1>2, <1>5 DEF DirBlock
  <2> HIDE DEF b
  <2>2. e \in Range(b) <=> Walk!In(e, b)
    BY <2>1, RangeIs
  <2> QED BY <2>2 DEF b
<1>7. ASSUME NEW e PROVE e \in all <=> \E id \in ids : Walk!In(e, vol.block[id])
  BY <1>6
<1>8. \A k \in 1 .. m : q[k] = Piece(inode, k - 1)
  BY DEF Gathered
<1> HIDE DEF q, all
<1>9. ASSUME NEW e PROVE e \in Range(Walk!Flat(q)) <=> e \in all /\ Shown(e)
  <2>1. Walk!Flat(q) \in Seq(T)
    BY <1>4, Walk!FlatJoins
  <2>2. e \in Range(Walk!Flat(q)) <=> \E k \in 1 .. Len(q) : Walk!In(e, q[k])
    BY <1>4, <2>1, RangeIs, Walk!FlatRange
  <2>3. ASSUME NEW k \in 1 .. m, Walk!In(e, q[k]) PROVE e \in all /\ Shown(e)
    <3>1. k - 1 \in 0 .. m - 1 /\ Walk!In(e, Piece(inode, k - 1))
      BY <1>4, <1>8, <2>3
    <3>2. block_id(vol, inode, k - 1) \in ids
      BY <1>2, <1>4, <3>1
    <3> QED BY <1>4, <1>7, <3>1, <3>2
  <2>4. ASSUME e \in all, Shown(e) PROVE \E k \in 1 .. m : Walk!In(e, q[k])
    <3>1. PICK id \in ids : Walk!In(e, vol.block[id])
      BY <1>7, <2>4
    <3>2. PICK k \in 0 .. m - 1 : id = block_id(vol, inode, k) /\ id # 0
      BY <1>2
    <3>3. Walk!In(e, Piece(inode, k))
      BY <1>4, <2>4, <3>1, <3>2
    <3>4. k + 1 \in 1 .. m /\ (k + 1) - 1 = k
      BY <1>4
    <3> QED BY <1>8, <3>3, <3>4
  <2> QED BY <1>4, <2>2, <2>3, <2>4
<1>10. Range(Walk!Flat(q)) = {e \in all : Shown(e)}
  <2> QED BY <1>9
<1> QED BY <1>1, <1>10, Zenon DEF all, Shown, HasName

\* The byte b of a file is in a block that it has, at its place in the block.
LEMMA ByteAt ==
  ASSUME NEW size \in Nat, NEW bs \in Nat \ {0}, NEW b \in 0 .. size - 1
  PROVE  /\ b \div bs \in 0 .. ((size + bs - 1) \div bs) - 1
         /\ (b % bs) + 1 \in 1 .. bs
         /\ (b \div bs) * bs + ((b % bs) + 1) = b + 1
<1> DEFINE q == b \div bs
           r == b % bs
           n == (size + bs - 1) \div bs
<1>0. b \in Nat
  OBVIOUS
<1>1. q \in Nat /\ r \in 0 .. bs - 1 /\ b = q * bs + r
  BY <1>0, Quotient
<1>2. n \in Nat /\ \A k \in Nat : k < n <=> k * bs < size
  BY Counted
<1> HIDE DEF q, r, n
<1> DEFINE x == q * bs
<1>3. x \in Nat
  BY <1>1
<1>4. q < n <=> x < size
  BY <1>1, <1>2
<1>5. b = x + r
  BY <1>1
<1> HIDE DEF x
<1>6. q \in 0 .. n - 1 /\ r + 1 \in 1 .. bs /\ x + (r + 1) = b + 1
  BY <1>1, <1>2, <1>3, <1>4, <1>5
<1> QED BY <1>6 DEF q, r, n, x

\* Its place, the other way round.
LEMMA PlaceOf ==
  ASSUME NEW bs \in Nat \ {0}, NEW k \in Nat, NEW j \in 0 .. bs - 1
  PROVE  (k * bs + j) \div bs = k /\ (k * bs + j) % bs = j
<1> DEFINE b == k * bs + j
           q == b \div bs
           r == b % bs
<1>1. b \in Nat
  BY Quotient
<1>2. q \in Nat /\ r \in 0 .. bs - 1 /\ b = q * bs + r
  <2> HIDE DEF b
  <2> QED BY <1>1, Quotient
<1>3. q * bs + r = k * bs + j
  BY <1>2
<1> HIDE DEF q, r, b
<1>4. ASSUME NEW x \in Nat, NEW y \in Nat, x < y PROVE x * bs + bs <= y * bs
  <2> DEFINE d == y - x - 1
  <2>1. d \in Nat /\ y = x + 1 + d
    BY <1>4
  <2> HIDE DEF d
  <2>2. y * bs = x * bs + bs + d * bs /\ d * bs \in Nat /\ x * bs \in Nat
    BY <2>1
  <2> QED BY <2>2
<1>5. q * bs \in Nat /\ k * bs \in Nat
  BY <1>2
<1>6. ~(q < k)
  <2> SUFFICES ASSUME q < k PROVE FALSE
    OBVIOUS
  <2>1. q * bs + bs <= k * bs
    BY <1>2, <1>4
  <2> QED BY <1>2, <1>3, <1>5, <2>1
<1>7. ~(k < q)
  <2> SUFFICES ASSUME k < q PROVE FALSE
    OBVIOUS
  <2>1. k * bs + bs <= q * bs
    BY <1>2, <1>4
  <2> QED BY <1>2, <1>3, <1>5, <2>1
<1>8. q = k
  BY <1>2, <1>6, <1>7
<1>9. r = j
  BY <1>2, <1>3, <1>5, <1>8
<1> QED BY <1>8, <1>9 DEF q, r, b

\* The k-th block of a file in memory.
Loaded(inode, k) ==
    IF block_id(vol, inode, k) = 0 THEN Zeros(vol) ELSE vol.block[block_id(vol, inode, k)]

\* load_file_to_memory puts these together.
LEMMA LoadIs ==
  ASSUME NEW num, NEW inode, inode = read_inode(vol, num),
         NEW n, n = Reach(vol, block_count(vol, inode), load_indirect(vol, inode))
  PROVE  load_file_to_memory(vol, num)
           = [ok    |-> inode.i_size # 0 /\ n = block_count(vol, inode),
              image |-> Walk!Flat([k \in 1 .. n |-> Loaded(inode, k - 1)])]
<1> DEFINE ids == BlocksOf(vol, inode, n)
           p == [k \in 1 .. n |-> IF ids[k] = 0 THEN Zeros(vol) ELSE read_fs_block(vol, ids[k])]
           q == [k \in 1 .. n |-> Loaded(inode, k - 1)]
<1>1. load_file_to_memory(vol, num)
           = [ok |-> inode.i_size # 0 /\ n = block_count(vol, inode), image |-> FlattenSeq(p)]
  BY Zenon DEF load_file_to_memory
<1>2. \A k \in 1 .. n : ids[k] = block_id(vol, inode, k - 1)
  BY DEF BlocksOf
<1>3. p = q
  <2> HIDE DEF ids
  <2> QED BY <1>2 DEF Loaded, read_fs_block
<1>4. FlattenSeq(p) = Walk!Flat(q)
  BY <1>3, Flattened, Zenon
<1> HIDE DEF p, q
<1>5. load_file_to_memory(vol, num)
           = [ok |-> inode.i_size # 0 /\ n = block_count(vol, inode), image |-> Walk!Flat(q)]
  BY <1>1, <1>4, Zenon
<1> QED BY <1>5, Zenon DEF q

\* The file that load_file_to_memory loads.
LEMMA LoadsEvery ==
  ASSUME NEW used, Readable(vol, used), NEW num \in used,
         NEW inode, inode = read_inode(vol, num), inode.i_mode = "file", inode.i_size # 0,
         Countable(inode), ~Overrun(vol),
         NEW r, r = load_file_to_memory(vol, num)
  PROVE  /\ r.ok = Addressed(inode)
         /\ r.ok => /\ Len(r.image) = Needed(vol, inode) * vol.g_block_size
                    /\ \A b \in 0 .. inode.i_size - 1 : r.image[b + 1] = Byte(inode, b)
<1> DEFINE bs == vol.g_block_size
           far == inode.i_block[DIRECT + 1] # 0
           all == Needed(vol, inode)
           n == Reach(vol, all, far)
           q == [k \in 1 .. n |-> Loaded(inode, k - 1)]
           size == inode.i_size
<1>0. block_count(vol, inode) = all
  BY Sized
<1>a. load_indirect(vol, inode) = far
  <2>1. vol.g_block_size \in Nat /\ BUFFER \in Nat /\ ~(vol.g_block_size > BUFFER)
    BY Ext2Assumption DEF Readable, Overrun
  <2>2. vol.g_block_size <= BUFFER
    BY <2>1
  <2> QED BY <2>2 DEF load_indirect
<1>b. n = Reach(vol, block_count(vol, inode), load_indirect(vol, inode))
  BY <1>0, <1>a, Zenon
<1>1. r = [ok |-> inode.i_size # 0 /\ n = all, image |-> Walk!Flat(q)]
  BY <1>0, <1>b, LoadIs, Zenon
<1>2. (n = all) <=> Addressed(inode)
  BY Reached
<1>3. r.ok = Addressed(inode)
  <2>1. r.ok = (inode.i_size # 0 /\ n = all)
    <3> HIDE DEF n, q, all
    <3> QED BY <1>1
  <2>2. Addressed(inode) \in BOOLEAN
    BY DEF Addressed
  <2> HIDE DEF n
  <2> QED BY <1>2, <2>1, <2>2, Zenon
<1>4. far \in BOOLEAN /\ (far => inode.i_block[DIRECT + 1] # 0)
  OBVIOUS
<1> HIDE DEF far
<1>5. /\ bs \in Nat \ {0} /\ size \in Nat /\ n \in Nat
      /\ \A k \in 0 .. n - 1 : /\ block_id(vol, inode, k) \in Nat
                               /\ block_id(vol, inode, k) # 0
                                    => vol.block[block_id(vol, inode, k)] \in [1 .. bs -> Nat]
  <2>1. all \in {block_count(vol, inode), Needed(vol, inode)}
    OBVIOUS
  <2> HIDE DEF all
  <2> QED BY <1>4, <2>1, Pointers
<1> HIDE DEF n
<1>6. ASSUME NEW k \in 0 .. n - 1
      PROVE  /\ Loaded(inode, k) \in Seq(Nat) /\ Len(Loaded(inode, k)) = bs
             /\ \A j \in 1 .. bs : Loaded(inode, k)[j] =
                  IF block_id(vol, inode, k) = 0 THEN 0 ELSE vol.block[block_id(vol, inode, k)][j]
  <2> DEFINE f == Loaded(inode, k)
  <2>1. f \in [1 .. bs -> Nat]
    BY <1>5 DEF Loaded, Zeros
  <2>2. \A j \in 1 .. bs : f[j] =
                  IF block_id(vol, inode, k) = 0 THEN 0 ELSE vol.block[block_id(vol, inode, k)][j]
    BY <1>5 DEF Loaded, Zeros
  <2> HIDE DEF f
  <2>3. f \in Seq(Nat) /\ Len(f) = bs
    BY <1>5, <2>1
  <2> QED BY <2>2, <2>3 DEF f
<1>7. q \in Seq(Seq(Nat)) /\ Len(q) = n /\ \A k \in 1 .. n : q[k] = Loaded(inode, k - 1)
  BY <1>5, <1>6
<1>8. \A k \in 1 .. Len(q) : Len(q[k]) = bs
  BY <1>5, <1>6, <1>7
<1> HIDE DEF q
<1> DEFINE image == Walk!Flat(q)
<1>9. /\ Len(image) = n * bs
      /\ \A k \in 0 .. n - 1, j \in 1 .. bs : image[k * bs + j] = q[k + 1][j]
  <2>1. bs \in Nat /\ Len(q) = n /\ q \in Seq(Seq(Nat))
    BY <1>5, <1>7
  <2> HIDE DEF bs
  <2>2. /\ Len(Walk!Flat(q)) = Len(q) * bs
        /\ \A k \in 0 .. Len(q) - 1, j \in 1 .. bs : Walk!Flat(q)[k * bs + j] = q[k + 1][j]
    BY <1>8, <2>1, Walk!FlatEqual
  <2> QED BY <2>1, <2>2
<1> HIDE DEF image
<1>10. ASSUME n = all, NEW b \in 0 .. size - 1 PROVE image[b + 1] = Byte(inode, b)
  <2> DEFINE k == b \div bs
             j == (b % bs) + 1
  <2>1. k \in 0 .. n - 1 /\ j \in 1 .. bs /\ k * bs + j = b + 1
    BY <1>5, <1>10, ByteAt DEF Needed
  <2>2. Byte(inode, b) = IF block_id(vol, inode, k) = 0 THEN 0 ELSE vol.block[block_id(vol, inode, k)][j]
    BY DEF Byte
  <2> HIDE DEF k, j
  <2>3. k + 1 \in 1 .. n /\ (k + 1) - 1 = k
    BY <1>5, <2>1
  <2>4. image[k * bs + j] = Loaded(inode, k)[j]
    <3>1. image[k * bs + j] = q[k + 1][j]
      BY <1>9, <2>1, ZenonT(60)
    <3>2. q[k + 1] = Loaded(inode, (k + 1) - 1)
      BY <1>7, <2>3
    <3> QED BY <2>3, <3>1, <3>2
  <2>5. image[b + 1] = image[k * bs + j]
    BY <2>1
  <2> QED BY <1>6, <2>1, <2>2, <2>4, <2>5
<1>11. r.image = image /\ (r.ok => n = all)
  BY <1>1, <1>2, <1>3 DEF image
<1> QED BY <1>3, <1>9, <1>10, <1>11

\* One more byte of a block.
LEMMA OneMore ==
  ASSUME NEW T, NEW m \in Nat, NEW f \in [1 .. m -> T], NEW j \in 0 .. m - 1
  PROVE  /\ SubSeq(f, 1, 0) = << >> /\ SubSeq(f, 1, j) \in Seq(T) /\ SubSeq(f, 1, j + 1) \in Seq(T)
         /\ Walk!Consists(SubSeq(f, 1, j + 1), SubSeq(f, 1, j), <<f[j + 1]>>)
<1>1. f \in Seq(T) /\ Len(f) = m
  OBVIOUS
<1> DEFINE a == SubSeq(f, 1, j)
           c == SubSeq(f, 1, j + 1)
           b == <<f[j + 1]>>
           d == a \o b
<1>2. /\ a \in Seq(T) /\ Len(a) = j /\ \A i \in 1 .. j : a[i] = f[i]
      /\ c \in Seq(T) /\ Len(c) = j + 1 /\ \A i \in 1 .. j + 1 : c[i] = f[i]
      /\ SubSeq(f, 1, 0) = << >>
  BY <1>1
<1>3. b \in Seq(T) /\ Len(b) = 1 /\ b[1] = f[j + 1]
  OBVIOUS
<1> HIDE DEF a, b, c
<1>4. d \in Seq(T) /\ Len(d) = Len(a) + Len(b) /\ (\A i \in 1 .. Len(a) : d[i] = a[i])
      /\ \A i \in 1 .. Len(b) : d[Len(a) + i] = b[i]
  <2>1. a \in Seq(T) /\ b \in Seq(T)
    BY <1>2, <1>3
  <2>2. d = a \o b
    OBVIOUS
  <2> HIDE DEF d
  <2> QED BY <2>1, <2>2, Walk!JoinedAs
<1> HIDE DEF d
<1>5. Len(d) = Len(c) /\ \A i \in 1 .. Len(d) : d[i] = c[i]
  <2>1. Len(d) = j + 1
    BY <1>2, <1>3, <1>4
  <2>2. d[j + 1] = f[j + 1]
    BY <1>2, <1>3, <1>4
  <2>3. ASSUME NEW i \in 1 .. j + 1 PROVE d[i] = c[i]
    <3>1. c[i] = f[i]
      BY <1>2
    <3>2. i = j + 1 \/ i \in 1 .. j
      OBVIOUS
    <3>3. i \in 1 .. j => d[i] = f[i]
      BY <1>2, <1>4
    <3> QED BY <2>2, <3>1, <3>2, <3>3, Zenon
  <2> QED BY <1>2, <2>1, <2>3
<1>6. c = d
  BY <1>2, <1>4, <1>5, Walk!SameString
<1>7. Walk!Consists(c, a, b)
  BY <1>6, Zenon DEF Walk!Consists, d
<1> QED BY <1>2, <1>7 DEF a, b, c

\* The first j bytes of the k-th block, as cat prints them.
Shows(inode, k, j) ==
    IF block_id(vol, inode, k) = 0 THEN << >> ELSE SubSeq(vol.block[block_id(vol, inode, k)], 1, j)

\* ext2_cat puts these together.
LEMMA CatIs ==
  ASSUME NEW inode, NEW n, n = Reach(vol, Needed(vol, inode), inode.i_block[DIRECT + 1] # 0)
  PROVE  Printed(vol, inode) = Walk!Flat([k \in 1 .. n |->
             Shows(inode, k - 1, Min({vol.g_block_size, inode.i_size - (k - 1) * vol.g_block_size}))])
<1> DEFINE ids == BlocksOf(vol, inode, n)
           bytes(k) == Min({vol.g_block_size, inode.i_size - (k - 1) * vol.g_block_size})
           p == [k \in 1 .. n |-> IF ids[k] = 0 THEN << >> ELSE SubSeq(read_fs_block(vol, ids[k]), 1, bytes(k))]
           q == [k \in 1 .. n |-> Shows(inode, k - 1, bytes(k))]
<1>1. Printed(vol, inode) = FlattenSeq(p)
  BY Zenon DEF Printed
<1>2. \A k \in 1 .. n : ids[k] = block_id(vol, inode, k - 1)
  BY DEF BlocksOf
<1>3. p = q
  <2> HIDE DEF ids, bytes
  <2> QED BY <1>2 DEF Shows, read_fs_block
<1> QED BY <1>1, <1>3, Flattened, Zenon

\* How many bytes of a file are in its first blocks, for up to n of them.
Offsets(size, bs, n) == [k \in 0 .. n |-> IF k * bs <= size THEN k * bs ELSE size]

\* How many bytes of it are in block k.
Rest(size, bs, k) == Min({bs, size - k * bs})

\* The blocks follow each other, and each has the bytes up to the next one's.
Apart(size, bs, n, o) ==
    /\ o \in [0 .. n -> 0 .. size] /\ o[0] = 0 /\ o[n] = size
    /\ \A k \in 0 .. n - 1 : /\ o[k] = k * bs /\ o[k] <= o[k + 1]
                             /\ o[k + 1] - o[k] = Rest(size, bs, k)
                             /\ o[k + 1] - o[k] \in 0 .. bs

\* The places of bytes that are in one block.
LEMMA BlockBytes ==
  ASSUME NEW size \in Nat, NEW bs \in Nat \ {0}, NEW n, n = (size + bs - 1) \div bs,
         NEW o, o = Offsets(size, bs, n)
  PROVE  Apart(size, bs, n, o)
<1>1. n \in Nat /\ \A k \in Nat : k < n <=> k * bs < size
  BY Counted
<1>2. ASSUME NEW k \in 0 .. n PROVE k \in Nat /\ k * bs \in Nat /\ o[k] = IF k * bs <= size THEN k * bs ELSE size
  BY <1>1 DEF Offsets
<1>3. o \in [0 .. n -> 0 .. size]
  BY <1>2 DEF Offsets
<1>4. o[0] = 0
  <2>1. 0 \in 0 .. n /\ 0 * bs = 0
    BY <1>1
  <2> QED BY <1>2, <2>1
<1>5. o[n] = size
  <2>1. n \in 0 .. n /\ ~(n * bs < size)
    BY <1>1
  <2> DEFINE x == n * bs
  <2>2. x \in Nat /\ o[n] = (IF x <= size THEN x ELSE size) /\ ~(x < size)
    BY <1>2, <2>1
  <2> HIDE DEF x
  <2> QED BY <2>2
<1>6. ASSUME NEW k \in 0 .. n - 1
      PROVE  /\ o[k] = k * bs /\ o[k] <= o[k + 1]
             /\ o[k + 1] - o[k] = Rest(size, bs, k)
             /\ o[k + 1] - o[k] \in 0 .. bs
  <2> DEFINE x == k * bs
             y == (k + 1) * bs
  <2>1. k \in 0 .. n /\ k + 1 \in 0 .. n /\ k < n /\ k \in Nat
    BY <1>1
  <2>2. x < size /\ x \in Nat
    BY <1>1, <1>2, <2>1
  <2>3. y = x + bs
    BY <2>1
  <2>4. /\ o[k] = (IF x <= size THEN x ELSE size)
        /\ o[k + 1] = (IF y <= size THEN y ELSE size)
    BY <1>2, <2>1
  <2> HIDE DEF x, y
  <2>5. size - x \in Nat
    BY <2>2
  <2>6. Min({bs, size - x}) = IF bs <= size - x THEN bs ELSE size - x
    BY <2>5, Smaller
  <2>7. o[k] = x /\ o[k + 1] = IF bs <= size - x THEN x + bs ELSE size
    BY <2>2, <2>3, <2>4
  <2>8. /\ o[k] = x /\ o[k] <= o[k + 1]
        /\ o[k + 1] - o[k] = Min({bs, size - x})
        /\ o[k + 1] - o[k] \in 0 .. bs
    BY <2>2, <2>5, <2>6, <2>7
  <2> QED BY <2>8 DEF x, Rest
<1> QED BY <1>3, <1>4, <1>5, <1>6, Zenon DEF Apart

\* The bytes that cat is to print, and nothing in the place of others.
Bytes(inode) == [b \in 1 .. inode.i_size |->
                    IF block_id(vol, inode, (b - 1) \div vol.g_block_size) = 0 THEN << >>
                    ELSE <<Byte(inode, b - 1)>>]

\* What cat prints of a file that the pointers lead to.
LEMMA CatsEvery ==
  ASSUME NEW used, Readable(vol, used), NEW num \in used,
         NEW inode, inode = read_inode(vol, num), inode.i_mode = "file", Addressed(inode)
  PROVE  Printed(vol, inode) = FlattenSeq(Bytes(inode))
<1> DEFINE s == Bytes(inode)
           bs == vol.g_block_size
           far == inode.i_block[DIRECT + 1] # 0
           n == Reach(vol, Needed(vol, inode), far)
           size == inode.i_size
           bytes(k) == Rest(size, bs, k)
           p == [k \in 1 .. n |-> Shows(inode, k - 1, bytes(k - 1))]
           o == Offsets(size, bs, n)
           c == [k \in 0 .. n - 1 |-> [j \in 0 .. bs |-> Shows(inode, k, j)]]
<1>1. Printed(vol, inode) = Walk!Flat(p)
  BY CatIs, Zenon DEF Rest
<1>2. n = Needed(vol, inode)
  BY Reached
<1>4. far \in BOOLEAN /\ (far => inode.i_block[DIRECT + 1] # 0)
  OBVIOUS
<1> HIDE DEF far, s
<1>5. /\ bs \in Nat \ {0} /\ size \in Nat /\ n \in Nat
      /\ \A k \in 0 .. n - 1 : /\ block_id(vol, inode, k) \in Nat
                               /\ block_id(vol, inode, k) # 0
                                    => vol.block[block_id(vol, inode, k)] \in [1 .. bs -> Nat]
  <2> DEFINE all == Needed(vol, inode)
  <2>1. /\ all \in {block_count(vol, inode), Needed(vol, inode)} /\ n = Reach(vol, all, far)
        /\ inode.i_mode \in {"dir", "file"}
    OBVIOUS
  <2> HIDE DEF all, n
  <2> QED BY <1>4, <2>1, Pointers
<1>6. n = (size + bs - 1) \div bs
  BY <1>2 DEF Needed
<1> HIDE DEF n
<1>7. /\ o \in [0 .. n -> 0 .. size] /\ o[0] = 0 /\ o[n] = size
      /\ \A k \in 0 .. n - 1 : /\ o[k] = k * bs /\ o[k] <= o[k + 1]
                               /\ o[k + 1] - o[k] = bytes(k) /\ o[k + 1] - o[k] \in 0 .. bs
  <2>1. o = Offsets(size, bs, n)
    OBVIOUS
  <2>2. bs \in Nat \ {0} /\ size \in Nat
    BY <1>5
  <2> HIDE DEF o, bs, size
  <2>3. Apart(size, bs, n, o)
    BY <1>6, <2>1, <2>2, BlockBytes
  <2> QED BY <2>3, Zenon DEF Apart
<1> HIDE DEF o
<1>8. ASSUME NEW k \in 0 .. n - 1
      PROVE  /\ Shows(inode, k, 0) = << >>
             /\ \A j \in 0 .. bs : Shows(inode, k, j) \in Seq(Nat)
  <2>1. CASE block_id(vol, inode, k) = 0
    BY <2>1 DEF Shows
  <2>2. CASE block_id(vol, inode, k) # 0
    <3> DEFINE f == vol.block[block_id(vol, inode, k)]
    <3>1. f \in [1 .. bs -> Nat] /\ bs \in Nat \ {0}
      BY <1>5, <2>2
    <3> HIDE DEF f, bs
    <3>2. SubSeq(f, 1, 0) = << >> /\ \A j \in 0 .. bs : SubSeq(f, 1, j) \in Seq(Nat)
      BY <3>1
    <3> QED BY <2>2, <3>2 DEF Shows, f
  <2> QED BY <2>1, <2>2
<1>9. ASSUME NEW k \in 0 .. n - 1, NEW j \in 0 .. bs - 1, NEW b \in 1 .. size, b = k * bs + j + 1
      PROVE  Walk!Consists(Shows(inode, k, j + 1), Shows(inode, k, j), s[b]) /\ s[b] \in Seq(Nat)
  <2>0. k \in Nat /\ k * bs \in Nat /\ b - 1 = k * bs + j
    <3>1. k \in Nat /\ bs \in Nat
      BY <1>5
    <3> HIDE DEF bs
    <3>2. k * bs \in Nat
      BY <3>1
    <3> QED BY <1>9, <3>1, <3>2
  <2>1. (b - 1) \div bs = k /\ (b - 1) % bs = j
    <3>1. k \in Nat /\ bs \in Nat \ {0}
      BY <1>5, <2>0
    <3> HIDE DEF bs
    <3>2. (k * bs + j) \div bs = k /\ (k * bs + j) % bs = j
      BY <3>1, PlaceOf
    <3> QED BY <2>0, <3>2
  <2>2. s[b] = IF block_id(vol, inode, k) = 0 THEN << >> ELSE <<Byte(inode, b - 1)>>
    BY <2>1 DEF s, Bytes
  <2>3. CASE block_id(vol, inode, k) = 0
    <3>1. << >> \o << >> = << >>
      OBVIOUS
    <3>2. Shows(inode, k, j + 1) = << >> /\ Shows(inode, k, j) = << >> /\ s[b] = << >>
      BY <2>2, <2>3 DEF Shows
    <3>3. << >> \in Seq(Nat)
      OBVIOUS
    <3> QED BY <3>1, <3>2, <3>3, Zenon DEF Walk!Consists
  <2>4. CASE block_id(vol, inode, k) # 0
    <3> DEFINE f == vol.block[block_id(vol, inode, k)]
    <3>1. f \in [1 .. bs -> Nat] /\ bs \in Nat
      BY <1>5, <2>4
    <3>2. Byte(inode, b - 1) = f[j + 1]
      BY <2>1, <2>4 DEF Byte
    <3>3. s[b] = <<f[j + 1]>>
      BY <2>2, <2>4, <3>2
    <3>4. Shows(inode, k, j + 1) = SubSeq(f, 1, j + 1) /\ Shows(inode, k, j) = SubSeq(f, 1, j)
      BY <2>4 DEF Shows
    <3> HIDE DEF f, bs
    <3>5. Walk!Consists(SubSeq(f, 1, j + 1), SubSeq(f, 1, j), <<f[j + 1]>>)
      BY <3>1, OneMore
    <3>6. f[j + 1] \in Nat
      BY <3>1
    <3>7. <<f[j + 1]>> \in Seq(Nat)
      BY <3>6
    <3> QED BY <3>3, <3>4, <3>5, <3>7, Zenon
  <2> QED BY <2>3, <2>4
<1>10. p \in Seq(Seq(Nat)) /\ Len(p) = n /\ \A k \in 1 .. n : p[k] = Shows(inode, k - 1, bytes(k - 1))
  <2> HIDE DEF bytes, bs
  <2>1. ASSUME NEW k \in 1 .. n PROVE Shows(inode, k - 1, bytes(k - 1)) \in Seq(Nat)
    <3>1. k - 1 \in 0 .. n - 1
      BY <1>5
    <3>2. bytes(k - 1) \in 0 .. bs
      BY <1>7, <3>1
    <3> QED BY <1>8, <3>1, <3>2
  <2> QED BY <1>5, <2>1
<1>11. s \in Seq(Seq(Nat)) /\ Len(s) = size
  <2>1. ASSUME NEW b \in 1 .. size PROVE s[b] \in Seq(Nat)
    <3> DEFINE d == b - 1
               k == d \div bs
               j == d % bs
    <3>1. d \in 0 .. size - 1 /\ d + 1 = b
      BY <1>5
    <3> HIDE DEF d
    <3>2. k \in 0 .. n - 1 /\ j + 1 \in 1 .. bs /\ k * bs + (j + 1) = d + 1
      BY <1>5, <1>6, <3>1, ByteAt
    <3>3. j \in 0 .. bs - 1
      <4>1. d \in Nat
        BY <1>5, <3>1
      <4> QED BY <1>5, <4>1, Quotient
    <3> HIDE DEF k, j, bs
    <3>4. b = k * bs + j + 1
      <4> DEFINE x == k * bs
      <4>1. x \in Int
        BY <1>5, <3>2
      <4>2. x + (j + 1) = b
        BY <3>1, <3>2
      <4> HIDE DEF x
      <4>3. b = x + j + 1
        BY <3>3, <4>1, <4>2
      <4> QED BY <4>3 DEF x
    <3> QED BY <1>9, <3>2, <3>3, <3>4 DEF bs
  <2>2. s = [b \in 1 .. size |-> s[b]]
    BY DEF s, Bytes
  <2> HIDE DEF size
  <2> QED BY <1>5, <2>1, <2>2
<1>12. ASSUME NEW k \in 0 .. n - 1
       PROVE  /\ c[k][0] = << >> /\ c[k][o[k + 1] - o[k]] = p[k + 1]
              /\ \A j \in 0 .. o[k + 1] - o[k] : c[k][j] \in Seq(Nat)
              /\ \A j \in 0 .. o[k + 1] - o[k] - 1 : Walk!Consists(c[k][j + 1], c[k][j], s[o[k] + j + 1])
  <2> DEFINE d == o[k + 1] - o[k]
             x == o[k]
  <2>1. /\ d \in 0 .. bs /\ d = bytes(k) /\ x = k * bs /\ o[k + 1] \in 0 .. size /\ x \in 0 .. size
        /\ x + d = o[k + 1]
    <3> HIDE DEF bs, bytes, size
    <3>1. k \in 0 .. n /\ k + 1 \in 0 .. n
      BY <1>5
    <3>2. o[k + 1] \in 0 .. size /\ o[k] \in 0 .. size
      BY <1>7, <3>1
    <3> QED BY <1>7, <3>2
  <2>2. \A j \in 0 .. bs : c[k][j] = Shows(inode, k, j)
    OBVIOUS
  <2>3. p[k + 1] = Shows(inode, k, bytes(k))
    <3>1. k + 1 \in 1 .. n /\ (k + 1) - 1 = k
      BY <1>5
    <3> HIDE DEF bytes
    <3> QED BY <1>10, <3>1
  <2> HIDE DEF bs, bytes, d, x, c, p
  <2>4. c[k][0] = << >> /\ c[k][d] = p[k + 1]
    <3>1. 0 \in 0 .. bs
      BY <1>5
    <3>2. c[k][0] = << >>
      BY <1>8, <2>2, <3>1
    <3>3. c[k][d] = p[k + 1]
      BY <2>1, <2>2, <2>3
    <3> QED BY <3>2, <3>3
  <2>5. ASSUME NEW j \in 0 .. d PROVE c[k][j] \in Seq(Nat)
    <3>1. j \in 0 .. bs
      BY <1>5, <2>1
    <3> QED BY <1>8, <2>2, <3>1, SMTT(60)
  <2>6. ASSUME NEW j \in 0 .. d - 1 PROVE Walk!Consists(c[k][j + 1], c[k][j], s[x + j + 1])
    <3>1. j \in 0 .. bs - 1 /\ j \in 0 .. bs /\ j + 1 \in 0 .. bs
      BY <1>5, <2>1
    <3>2. x + j + 1 \in 1 .. size
      <4>1. x \in Nat /\ d \in Nat /\ size \in Nat
        BY <1>5, <2>1
      <4>2. x + d <= size
        BY <1>5, <2>1
      <4> HIDE DEF size
      <4> QED BY <4>1, <4>2, Walk!Within
    <3>3. Walk!Consists(Shows(inode, k, j + 1), Shows(inode, k, j), s[x + j + 1])
      <4>1. x + j + 1 = k * bs + j + 1
        BY <2>1
      <4> QED BY <1>9, <3>1, <3>2, <4>1 DEF bs
    <3> QED BY <2>2, <3>1, <3>3
  <2> QED BY <2>4, <2>5, <2>6 DEF d, x
<1> HIDE DEF p, c
<1>13. Walk!Flat(p) = Walk!Flat(s)
  <2>1. o \in [0 .. Len(p) -> 0 .. Len(s)] /\ o[Len(p)] = Len(s) /\ o[0] = 0
    BY <1>7, <1>10, <1>11
  <2>2. \A k \in 0 .. Len(p) - 1 : o[k] <= o[k + 1]
    BY <1>7, <1>10
  <2>3. Walk!Groups(Nat, p, s, o, c)
    BY <1>10, <1>12, <2>1, <2>2, Zenon DEF Walk!Groups
  <2>4. p \in Seq(Seq(Nat)) /\ s \in Seq(Seq(Nat))
    BY <1>10, <1>11
  <2> QED BY <2>3, <2>4, Walk!FlatRegroup
<1> QED BY <1>1, <1>13, Flattened, Zenon DEF s
-----------------------------------------------------------------------------
\* resolve_path is the fold of these steps.
LEMMA ResolveIs ==
  ASSUME NEW path
  PROVE  /\ resolve_path(vol, path, FALSE) = Walk!Fold(ROOT, path)
         /\ resolve_path(vol, path, TRUE) = WalkShort!Fold(ROOT, path)
<1>1. resolve_path(vol, path, FALSE) = Walk!Fold(ROOT, path)
  BY DEF resolve_path, FoldLeft, MapThenFoldSet, Max, Walk!Fold, Walk!Step, Walk!Greatest, Down,
         Cut!Fold, Cut!Step, Cut!Greatest, Into
<1>2. resolve_path(vol, path, TRUE) = WalkShort!Fold(ROOT, path)
  BY DEF resolve_path, FoldLeft, MapThenFoldSet, Max, WalkShort!Fold, WalkShort!Step,
         WalkShort!Greatest, DownShort, CutShort!Fold, CutShort!Step, CutShort!Greatest, IntoShort
<1> QED BY <1>1, <1>2

\* It answers with an inode in use, or 0.
LEMMA Resolves ==
  ASSUME NEW used, Readable(vol, used), NEW path \in Seq(DOMAIN Length), NEW full \in BOOLEAN
  PROVE  resolve_path(vol, path, full) \in used \cup {0}
<1> DEFINE S == used \cup {0}
           T == DOMAIN Length
<1>1. ROOT \in S
  BY DEF Readable
<1>2. ASSUME NEW dir \in S, NEW piece \in T PROVE Into(dir, piece) \in S
  <2>1. CASE dir = 0
    BY <2>1 DEF Into
  <2>2. CASE dir # 0
    <3>1. ext2_lookup(vol, dir, piece, FALSE) \in S
      BY <2>2, Lookups
    <3> QED BY <3>1 DEF Into
  <2> QED BY <2>1, <2>2
<1>3. ASSUME NEW dir \in S, NEW piece \in T PROVE IntoShort(dir, piece) \in S
  <2>1. CASE dir = 0
    BY <2>1 DEF IntoShort
  <2>2. CASE dir # 0
    <3> DEFINE full1 == TRUE
    <3>1. full1 \in BOOLEAN
      OBVIOUS
    <3>2. IntoShort(dir, piece) \in {0, ext2_lookup(vol, dir, piece, full1)}
      BY DEF IntoShort
    <3> HIDE DEF full1
    <3>3. ext2_lookup(vol, dir, piece, full1) \in S
      BY <2>2, <3>1, Lookups
    <3> QED BY <3>2, <3>3
  <2> QED BY <2>1, <2>2
<1>4. \A name \in T : Pieces[name] \in Seq(T)
  BY Ext2Assumption
<1>5. path \in Seq(T)
  OBVIOUS
<1> HIDE DEF S, T
<1>6. ASSUME NEW dir \in S, NEW name \in T PROVE Down(dir, name) \in S
  BY <1>2, <1>4, Cut!FoldIn DEF Down
<1>7. ASSUME NEW dir \in S, NEW name \in T PROVE DownShort(dir, name) \in S
  BY <1>3, <1>4, CutShort!FoldIn DEF DownShort
<1>8. Walk!Fold(ROOT, path) \in S
  BY <1>1, <1>5, <1>6, Walk!FoldIn
<1>9. WalkShort!Fold(ROOT, path) \in S
  BY <1>1, <1>5, <1>7, WalkShort!FoldIn
<1>10. full = TRUE \/ full = FALSE
  OBVIOUS
<1> QED BY <1>8, <1>9, <1>10, ResolveIs, Zenon DEF S

\* A name that fits into the buffer is looked up as a whole.
LEMMA InOnePiece ==
  ASSUME NEW dir, NEW name \in DOMAIN Length, Length[name] < NAME_BUF
  PROVE  Down(dir, name) = Into(dir, name)
<1>1. Pieces[name] = <<name>>
  BY Ext2Assumption
<1> DEFINE T == DOMAIN Length
<1>2. << >> \in Seq(T) /\ name \in T /\ <<name>> = Append(<< >>, name)
  OBVIOUS
<1> HIDE DEF T
<1>3. Cut!Fold(dir, Append(<< >>, name)) = Into(Cut!Fold(dir, << >>), name)
  BY <1>2, Cut!FoldLast, ZenonT(60)
<1>4. Cut!Fold(dir, << >>) = dir
  BY Cut!FoldNone
<1> QED BY <1>1, <1>2, <1>3, <1>4, Zenon DEF Down

\* The directories on the way to a directory; the names of all but the special ones.
Plain == DOMAIN Length \ {".", ".."}

Way(path, dir, r) ==
    /\ r \in [0 .. Len(path) -> disk.used]
    /\ r[0] = ROOT /\ r[Len(path)] = dir
    /\ \A k \in 0 .. Len(path) : mode(r[k]) = "dir"
    /\ \A k \in 0 .. Len(path) - 1 : r[k + 1] = ext2_lookup(vol, r[k], path[k + 1], FALSE)

\* A way leads where resolve_path does, if the names fit into its buffer.
LEMMA WayResolves ==
  ASSUME disk.used \subseteq Nat \ {0}, NEW path \in Seq(Plain), NEW dir, NEW r, Way(path, dir, r),
         \A i \in DOMAIN path : Length[path[i]] < NAME_BUF
  PROVE  resolve_path(vol, path, FALSE) = dir
<1> DEFINE n == Len(path)
<1>1. n \in Nat /\ DOMAIN path = 1 .. n /\ \A k \in 1 .. n : path[k] \in Plain
  OBVIOUS
<1>2. ASSUME NEW k \in 0 .. n - 1 PROVE r[k + 1] = Down(r[k], path[k + 1])
  <2>1. k \in 0 .. n /\ k + 1 \in 1 .. n
    BY <1>1
  <2>2. r[k] \in Nat \ {0}
    BY <2>1 DEF Way
  <2>3. path[k + 1] \in DOMAIN Length /\ Length[path[k + 1]] < NAME_BUF
    BY <1>1, <2>1 DEF Plain
  <2>4. r[k + 1] = ext2_lookup(vol, r[k], path[k + 1], FALSE)
    BY DEF Way
  <2>5. r[k] # 0
    BY <2>2
  <2>6. Down(r[k], path[k + 1]) = Into(r[k], path[k + 1])
    BY <2>3, InOnePiece
  <2> QED BY <2>4, <2>5, <2>6, Zenon DEF Into
<1>3. Walk!Run(ROOT, path, n, r)
  BY <1>2, Zenon DEF Walk!Run, Way
<1>4. PICK t : Walk!Run(ROOT, path, n, t) /\ Walk!Fold(ROOT, path) = t[n]
  BY <1>1, Walk!StepsRun
<1>5. r[n] = t[n]
  BY <1>1, <1>3, <1>4, Walk!RunsAgree
<1>6. r[n] = dir
  BY DEF Way
<1> QED BY <1>4, <1>5, <1>6, ResolveIs

\* From a way to the working directory to one to the directory that cd goes to.
LEMMA WayOn ==
  ASSUME Readable(vol, disk.used), Tree(vol, disk.used), g_cwd_path \in Seq(Plain),
         NEW r, Way(g_cwd_path, cwd, r), NEW name \in DOMAIN Length,
         NEW target, target = ext2_lookup(vol, cwd, name, FALSE), target # 0, mode(target) = "dir"
  PROVE  path_after(name) \in Seq(Plain) /\ \E s : Way(path_after(name), target, s)
<1> DEFINE n == Len(g_cwd_path)
           used == disk.used
<1>1. n \in Nat /\ n \in 0 .. n
  OBVIOUS
<1>2. /\ r \in [0 .. n -> used] /\ r[0] = ROOT /\ r[n] = cwd
      /\ \A k \in 0 .. n : mode(r[k]) = "dir"
      /\ \A k \in 0 .. n - 1 : r[k + 1] = ext2_lookup(vol, r[k], g_cwd_path[k + 1], FALSE)
  BY Zenon DEF Way
<1>3. cwd \in used /\ mode(cwd) = "dir" /\ used \subseteq Nat \ {0}
  BY <1>1, <1>2 DEF Readable
<1>4. target \in used
  BY <1>3, Lookups
<1>5. CASE name = "."
  <2>1. target = cwd
    BY <1>3, <1>5, Zenon DEF Tree, mode
  <2>2. path_after(name) = g_cwd_path
    BY <1>5 DEF path_after
  <2> QED BY <2>1, <2>2
<1>6. CASE name = ".." /\ g_cwd_path = << >>
  <2>1. cwd = ROOT /\ path_after(name) = << >>
    BY <1>2, <1>6 DEF path_after
  <2>2. target = ROOT
    BY <1>6, <2>1 DEF Tree
  <2> QED BY <1>6, <2>1, <2>2
<1>7. CASE name = ".." /\ g_cwd_path # << >>
  <2> DEFINE p == path_after(name)
             m == n - 1
             s == [k \in 0 .. m |-> r[k]]
  <2>1. m \in Nat /\ m + 1 = n /\ m \in 0 .. n - 1 /\ m \in 0 .. n /\ n \in 1 .. n
    BY <1>7
  <2>2. p = SubSeq(g_cwd_path, 1, m)
    BY <1>7 DEF path_after, Front
  <2> HIDE DEF p
  <2>3. p \in Seq(Plain) /\ Len(p) = m /\ \A k \in 1 .. m : p[k] = g_cwd_path[k]
    BY <2>1, <2>2
  <2>4. r[n] = ext2_lookup(vol, r[m], g_cwd_path[n], FALSE) /\ r[m] \in used /\ g_cwd_path[n] \in Plain
    <3>1. r[m] \in used /\ g_cwd_path[n] \in Plain
      BY <1>2, <2>1
    <3> HIDE DEF m, n
    <3>2. r[m + 1] = ext2_lookup(vol, r[m], g_cwd_path[m + 1], FALSE)
      BY <1>2, <2>1, Zenon
    <3>3. m + 1 = n
      BY <2>1
    <3> QED BY <3>1, <3>2, <3>3, Zenon
  <2>5. ext2_lookup(vol, cwd, "..", FALSE) = r[m]
    <3> DEFINE x == r[m]
               e == g_cwd_path[n]
    <3>1. cwd = ext2_lookup(vol, x, e, FALSE) /\ x \in used /\ e \in DOMAIN Length \ {".", ".."}
      BY <1>2, <2>4 DEF Plain
    <3>2. cwd # 0 /\ read_inode(vol, cwd).i_mode = "dir"
      BY <1>3 DEF mode
    <3> HIDE DEF x, e
    <3>3. ext2_lookup(vol, cwd, "..", FALSE) = x
      BY <3>1, <3>2, Zenon DEF Tree
    <3> QED BY <3>3 DEF x
  <2>6. target = r[m]
    BY <1>7, <2>5
  <2> HIDE DEF m
  <2>7. ASSUME NEW k \in 0 .. m - 1 PROVE s[k + 1] = ext2_lookup(vol, s[k], p[k + 1], FALSE)
    <3>1. k \in 0 .. m /\ k + 1 \in 0 .. m /\ k + 1 \in 1 .. m /\ k \in 0 .. n - 1
      BY <1>1, <2>1
    <3>2. s[k + 1] = r[k + 1] /\ s[k] = r[k] /\ p[k + 1] = g_cwd_path[k + 1]
      BY <2>3, <3>1
    <3>3. r[k + 1] = ext2_lookup(vol, r[k], g_cwd_path[k + 1], FALSE)
      BY <1>2, <3>1
    <3> HIDE DEF s
    <3> QED BY <3>2, <3>3, Zenon
  <2>8. s \in [0 .. m -> used] /\ s[0] = ROOT /\ s[m] = target /\ \A k \in 0 .. m : mode(s[k]) = "dir"
    BY <1>2, <2>1, <2>6
  <2> HIDE DEF s
  <2>9. Way(p, target, s)
    BY <2>3, <2>7, <2>8, Zenon DEF Way
  <2> QED BY <2>3, <2>9 DEF p
<1>8. CASE name \notin {".", ".."}
  <2> DEFINE p == path_after(name)
             s == [k \in 0 .. n + 1 |-> IF k = n + 1 THEN target ELSE r[k]]
  <2>1. p = Append(g_cwd_path, name) /\ name \in Plain
    BY <1>8 DEF path_after, Plain
  <2> HIDE DEF p
  <2>2. p \in Seq(Plain) /\ Len(p) = n + 1 /\ p[n + 1] = name /\ \A k \in 1 .. n : p[k] = g_cwd_path[k]
    BY <2>1
  <2> HIDE DEF n
  <2>3. ASSUME NEW k \in 0 .. (n + 1) - 1 PROVE s[k + 1] = ext2_lookup(vol, s[k], p[k + 1], FALSE)
    <3>1. CASE k = n
      <4>1. s[k + 1] = target /\ s[k] = cwd /\ p[k + 1] = name
        BY <1>1, <1>2, <2>2, <3>1
      <4> HIDE DEF s
      <4> QED BY <4>1, Zenon
    <3>2. CASE k # n
      <4>1. k \in 0 .. n - 1 /\ k + 1 \in 1 .. n
        BY <1>1, <3>2
      <4>2. s[k + 1] = r[k + 1] /\ s[k] = r[k] /\ p[k + 1] = g_cwd_path[k + 1]
        <5>1. k \in 0 .. n + 1 /\ k + 1 \in 0 .. n + 1 /\ k # n + 1 /\ k + 1 # n + 1
          BY <1>1, <4>1
        <5>2. s[k + 1] = r[k + 1] /\ s[k] = r[k]
          BY <5>1, Zenon
        <5>3. p[k + 1] = g_cwd_path[k + 1]
          BY <2>2, <4>1, Zenon
        <5> QED BY <5>2, <5>3
      <4>3. r[k + 1] = ext2_lookup(vol, r[k], g_cwd_path[k + 1], FALSE)
        BY <1>2, <4>1
      <4> HIDE DEF s
      <4> QED BY <4>2, <4>3, Zenon
    <3> QED BY <3>1, <3>2
  <2>4. /\ s \in [0 .. n + 1 -> used] /\ s[0] = ROOT /\ s[n + 1] = target
        /\ \A k \in 0 .. n + 1 : mode(s[k]) = "dir"
    BY <1>1, <1>2, <1>4
  <2> HIDE DEF s
  <2>5. Way(p, target, s)
    BY <2>2, <2>3, <2>4, Zenon DEF Way
  <2> QED BY <2>2, <2>5 DEF p
<1> QED BY <1>5, <1>6, <1>7, <1>8
-----------------------------------------------------------------------------
\* What the last command gave is what the volume has of a directory or file in use.
Answers ==
    LET inode == read_inode(vol, out.num)
    IN  /\ out.full \in BOOLEAN
        /\ out.cmd \in {"ls", "cat", "load"} => out.num \in disk.used
        /\ out.cmd = "ls" => inode.i_mode = "dir" /\ out.result = Listing(vol, inode, out.full)
        /\ out.cmd = "cat" => inode.i_mode = "file" /\ out.result = Printed(vol, inode)
        /\ out.cmd = "load" => /\ inode.i_mode = "file" /\ inode.i_size # 0
                               /\ out.result = load_file_to_memory(vol, out.num)
                               /\ smashed = Overrun(vol)

\* There is a way to the working directory.
OnWay == g_cwd_path \in Seq(Plain) /\ \E r : Way(g_cwd_path, cwd, r)

\* Inductive.  The shell works on the volume of the disk, whose root is a directory.
FilesInv ==
    /\ Consistent(disk)
    /\ ~Mounted => cwd = ROOT /\ g_cwd_path = << >> /\ out = Said("prompt")
    /\ Mounted => vol = Volume(disk) /\ mode(ROOT) = "dir" /\ OnWay /\ Answers

\* Nothing of this is disturbed by the rest of the kernel.
LEMMA FilesKept ==
  ASSUME FilesInv, UNCHANGED <<files_vars, disk>>
  PROVE  FilesInv'
<1>1. /\ vol' = vol /\ cwd' = cwd /\ g_cwd_path' = g_cwd_path /\ out' = out /\ disk' = disk
      /\ smashed' = smashed
  BY DEF files_vars
<1> QED BY <1>1 DEF FilesInv, Mounted, OnWay, Answers, Way, mode

\* Before the shell starts there is no volume.
LEMMA Unmounted ==
  ASSUME FilesInv, ~Mounted, UNCHANGED <<cwd, g_cwd_path, out, disk>>, ~Mounted'
  PROVE  FilesInv'
BY DEF FilesInv, Said, Mounted

\* A command that answers with words alone.
LEMMA Quiet ==
  ASSUME NEW what, out' = Said(what) PROVE Answers'
BY DEF Said, Answers

\* A directory with a parent is a directory.
LEMMA RootDirectory ==
  ASSUME NEW v, NEW used, Tree(v, used) PROVE read_inode(v, ROOT).i_mode = "dir"
<1> DEFINE up == ext2_lookup(v, ROOT, "..", FALSE)
<1>1. up = 2
  BY Zenon DEF Tree, ROOT
<1> HIDE DEF up
<1>2. up # 0
  BY <1>1
<1> QED BY <1>2, Zenon DEF up, ext2_lookup

\* The shell starts, in the root directory.
LEMMA FirstPrompt ==
  ASSUME BootInv, FilesInv, CheckRoot
  PROVE  FilesInv'
<1>1. /\ stage = "root" /\ pc = "idle" /\ vol.block = << >>
      /\ UNCHANGED <<cwd, g_cwd_path, out, disk>>
  BY DEF CheckRoot, At, BootInv
<1>2. ~Mounted /\ cwd = ROOT /\ g_cwd_path = << >> /\ out = Said("prompt") /\ Consistent(disk)
  BY <1>1 DEF Mounted, FilesInv
<1>3. CASE vol' = vol
  BY <1>1, <1>2, <1>3, Unmounted DEF Mounted
<1>4. CASE StartShell
  <2>1. read_inode(Volume(disk), ROOT).i_mode = "dir"
    BY <1>2, RootDirectory DEF Consistent
  <2>2. vol' = Volume(disk)
    <3>1. vol' = [vol EXCEPT !.block = disk.block]
      BY <1>4 DEF StartShell
    <3>2. /\ DOMAIN vol = Fields
          /\ vol.g_block_size = disk.block_size /\ vol.g_inode_size = inode_size(disk.sb)
          /\ vol.bg_inode_table = disk.block[disk.group]
          /\ vol.s_inodes_count = disk.sb.s_inodes_count /\ vol.left = disk.left
      BY <1>1 DEF BootInv, OnVolume, RootRead
    <3> QED BY <3>1, <3>2 DEF Volume, Fields
  <2>3. mode(ROOT)' = "dir" /\ ROOT \in disk.used
    BY <1>2, <2>1, <2>2 DEF mode, Consistent, Readable
  <2>4. OnWay'
    <3> DEFINE r == [k \in 0 .. 0 |-> ROOT]
    <3>1. Len(g_cwd_path') = 0 /\ g_cwd_path' \in Seq(Plain) /\ cwd' = ROOT /\ disk' = disk
      BY <1>1, <1>2
    <3>2. r \in [0 .. 0 -> disk.used] /\ r[0] = ROOT
      BY <2>3
    <3>3. \A k \in 0 .. 0 : mode(r[k])' = "dir"
      BY <2>3
    <3> HIDE DEF r
    <3>4. Way(g_cwd_path, cwd, r)'
      BY <3>1, <3>2, <3>3 DEF Way
    <3> QED BY <3>1, <3>4 DEF OnWay
  <2>5. Answers'
    BY <1>1, <1>2, Quiet
  <2> QED BY <1>1, <1>2, <2>2, <2>3, <2>4, <2>5 DEF FilesInv
<1> QED BY <1>3, <1>4 DEF CheckRoot

\* A command that leaves the working directory alone.
LEMMA StaysPut ==
  ASSUME FilesInv, Mounted, UNCHANGED <<vol, disk, cwd, g_cwd_path>>, Answers'
  PROVE  FilesInv'
<1>1. OnWay'
  BY DEF FilesInv, OnWay, Way, mode
<1> QED BY <1>1 DEF FilesInv, Mounted, mode

\* What the commands know of the volume and of the working directory.
LEMMA AtWork ==
  ASSUME FilesInv, Mounted
  PROVE  /\ Readable(vol, disk.used) /\ Tree(vol, disk.used) /\ mode(ROOT) = "dir"
         /\ ROOT \in disk.used /\ disk.used \subseteq Nat \ {0}
         /\ cwd \in disk.used /\ mode(cwd) = "dir"
         /\ g_cwd_path \in Seq(Plain) /\ \E r : Way(g_cwd_path, cwd, r)
<1>1. vol = Volume(disk) /\ Consistent(disk) /\ OnWay /\ mode(ROOT) = "dir"
  BY DEF FilesInv
<1>2. Readable(vol, disk.used) /\ Tree(vol, disk.used)
  BY <1>1 DEF Consistent
<1>3. g_cwd_path \in Seq(Plain) /\ \E r : Way(g_cwd_path, cwd, r)
  BY <1>1 DEF OnWay
<1>4. PICK r : Way(g_cwd_path, cwd, r)
  BY <1>3
<1>5. cwd \in disk.used /\ mode(cwd) = "dir"
  <2>1. Len(g_cwd_path) \in 0 .. Len(g_cwd_path)
    BY <1>3
  <2> QED BY <1>4, <2>1 DEF Way
<1>6. disk.used \subseteq Nat \ {0} /\ ROOT \in disk.used
  BY <1>2 DEF Readable
<1> QED BY <1>1, <1>2, <1>3, <1>5, <1>6

\* A name in the working directory, whether or not kmalloc fails.
LEMMA FoundHere ==
  ASSUME FilesInv, Mounted, NEW name, NEW full \in BOOLEAN, NEW num,
         num = ext2_lookup(vol, cwd, name, full), num # 0
  PROVE  num \in disk.used /\ num = ext2_lookup(vol, cwd, name, FALSE)
<1>1. Readable(vol, disk.used) /\ cwd \in disk.used
  BY AtWork
<1> DEFINE more == ext2_lookup(vol, cwd, name, FALSE)
<1>2. more \in disk.used \cup {0} /\ ext2_lookup(vol, cwd, name, full) \in {0, more}
  BY <1>1, Lookups
<1> HIDE DEF more
<1>3. num = more /\ num \in disk.used
  BY <1>2
<1> QED BY <1>3 DEF more

\* cd.
LEMMA CdStep ==
  ASSUME FilesInv, Mounted, NEW name \in Names, NEW full \in BOOLEAN, ext2_cd(name, full),
         UNCHANGED <<vol, disk>>
  PROVE  FilesInv'
<1> DEFINE target == ext2_lookup(vol, cwd, name, full)
<1>1. CASE UNCHANGED <<cwd, g_cwd_path>> /\ \E what : out' = Said(what)
  BY <1>1, Quiet, StaysPut
<1>2. CASE /\ target # 0 /\ mode(target) = "dir" /\ g_cwd_path' = path_after(name)
           /\ cwd' = target /\ out' = Said("prompt")
  <2>1. name \in DOMAIN Length
    BY FilesAssumption
  <2>2. target = ext2_lookup(vol, cwd, name, FALSE)
    BY <1>2, FoundHere, Zenon
  <2>3. PICK r : Way(g_cwd_path, cwd, r)
    BY AtWork
  <2> HIDE DEF target
  <2>4. path_after(name) \in Seq(Plain) /\ \E s : Way(path_after(name), target, s)
    BY <1>2, <2>1, <2>2, <2>3, AtWork, WayOn
  <2>5. PICK s : Way(path_after(name), target, s)
    BY <2>4
  <2>6. Way(g_cwd_path, cwd, s)'
    BY <1>2, <2>5 DEF Way, mode
  <2>7. OnWay'
    BY <1>2, <2>4, <2>6 DEF OnWay
  <2>8. Answers'
    BY <1>2, Quiet
  <2> QED BY <2>7, <2>8 DEF FilesInv, Mounted, mode
<1> QED BY <1>1, <1>2 DEF ext2_cd, Stays

\* A listing is that of the directory asked for.
LEMMA ListStep ==
  ASSUME NEW num \in disk.used, mode(num) = "dir", NEW full \in BOOLEAN, ext2_ls(num, full),
         UNCHANGED <<vol, disk>>
  PROVE  Answers'
BY DEF ext2_ls, Gave, Answers, mode

\* ls lists the root, whatever the working directory is.
LEMMA LsStep ==
  ASSUME FilesInv, Mounted, NEW full \in BOOLEAN, ls(full), UNCHANGED <<vol, disk>>
  PROVE  FilesInv'
<1>1. g_cwd_inode \in disk.used /\ mode(g_cwd_inode) = "dir"
  BY AtWork DEF g_cwd_inode, ROOT
<1> QED BY <1>1, ListStep, StaysPut DEF ls, Stays

\* ls of a path.
LEMMA LsPathStep ==
  ASSUME FilesInv, Mounted, NEW path \in Paths, NEW full \in BOOLEAN, ls_path(path, full),
         UNCHANGED <<vol, disk>>
  PROVE  FilesInv'
<1> DEFINE target == resolve_path(vol, path, full)
<1>1. UNCHANGED <<cwd, g_cwd_path>>
  BY DEF ls_path, Stays
<1>2. CASE \E what : out' = Said(what)
  BY <1>1, <1>2, Quiet, StaysPut
<1>3. CASE target # 0 /\ mode(target) = "dir" /\ ext2_ls(target, full)
  <2>1. target \in disk.used
    BY <1>3, AtWork, Resolves, FilesAssumption
  <2> HIDE DEF target
  <2> QED BY <1>1, <1>3, <2>1, ListStep, StaysPut
<1> QED BY <1>2, <1>3 DEF ls_path

\* cat.
LEMMA CatStep ==
  ASSUME FilesInv, Mounted, NEW name \in Names, NEW full \in BOOLEAN, ext2_cat(name, full),
         UNCHANGED <<vol, disk>>
  PROVE  FilesInv'
<1> DEFINE num == ext2_lookup(vol, cwd, name, full)
<1>1. UNCHANGED <<cwd, g_cwd_path>>
  BY DEF ext2_cat, Stays
<1>2. CASE \E what : out' = Said(what)
  BY <1>1, <1>2, Quiet, StaysPut
<1>3. CASE /\ num # 0 /\ mode(num) = "file"
           /\ out' = Gave("cat", num, full, Printed(vol, read_inode(vol, num)))
  <2>1. num \in disk.used
    BY <1>3, FoundHere, Zenon
  <2> HIDE DEF num
  <2>2. Answers'
    BY <1>3, <2>1 DEF Gave, Answers, mode
  <2> QED BY <1>1, <2>2, StaysPut
<1> QED BY <1>2, <1>3 DEF ext2_cat

\* The start of a program.
LEMMA RunStep ==
  ASSUME FilesInv, Mounted, NEW path \in Paths, NEW full \in BOOLEAN, run(path, full),
         UNCHANGED <<vol, disk>>
  PROVE  FilesInv'
<1> DEFINE num == resolve_path(vol, path, full)
<1>1. UNCHANGED <<cwd, g_cwd_path>> /\ smashed' = Overrun(vol)
  BY DEF run, Stays
<1>2. CASE \E what : out' = Said(what)
  BY <1>1, <1>2, Quiet, StaysPut
<1>3. CASE /\ num # 0 /\ mode(num) = "file" /\ read_inode(vol, num).i_size # 0
           /\ out' = Gave("load", num, full, load_file_to_memory(vol, num))
  <2>1. num \in disk.used
    BY <1>3, AtWork, Resolves, FilesAssumption
  <2> HIDE DEF num
  <2>2. Answers'
    BY <1>1, <1>3, <2>1 DEF Gave, Answers, mode
  <2> QED BY <1>1, <2>2, StaysPut
<1> QED BY <1>2, <1>3 DEF run

\* A command of the shell.
LEMMA CommandStep ==
  ASSUME FilesInv, FilesNext, UNCHANGED kmain_vars
  PROVE  FilesInv'
<1>1. Mounted /\ UNCHANGED <<vol, disk>>
  BY DEF FilesNext, kmain_vars
<1>2. PICK full \in BOOLEAN :
          \/ \E name \in Names : ext2_cd(name, full) \/ ext2_cat(name, full)
          \/ \E path \in Paths : ls_path(path, full) \/ run(path, full)
          \/ ls(full)
  BY DEF FilesNext
<1>3. CASE \E name \in Names : ext2_cd(name, full) \/ ext2_cat(name, full)
  BY <1>1, <1>3, CdStep, CatStep
<1>4. CASE \E path \in Paths : ls_path(path, full) \/ run(path, full)
  BY <1>1, <1>4, LsPathStep, RunStep
<1>5. CASE ls(full)
  BY <1>1, <1>5, LsStep
<1> QED BY <1>2, <1>3, <1>4, <1>5

\* Mounting and the commands keep what the commands rely on, on every disk whose
\* volume is consistent, whatever the drive does and wherever kmalloc fails.
THEOREM FilesCorrect == BootSpec /\ Consistent(disk) => []FilesInv
<1>1. BootInit /\ Consistent(disk) => FilesInv
  <2> SUFFICES ASSUME BootInit, Consistent(disk) PROVE FilesInv
    OBVIOUS
  <2>1. ~Mounted
    BY DEF BootInit, Mounted
  <2> QED BY <2>1 DEF BootInit, FilesInit, FilesInv
<1>2. DiskInv /\ DiskTypes /\ BootInv /\ FilesInv /\ [BootNext]_boot_vars => FilesInv'
  <2> SUFFICES ASSUME DiskInv, BootInv, FilesInv, [BootNext]_boot_vars PROVE FilesInv'
    OBVIOUS
  <2>1. CASE UNCHANGED <<files_vars, disk>>
    BY <2>1, FilesKept
  <2>2. CASE CheckSuperblock \/ CheckGroup
    <3>1. stage # "shell" /\ UNCHANGED <<cwd, g_cwd_path, out, disk>>
      BY <2>2 DEF CheckSuperblock, CheckGroup, At
    <3>2. vol.block = << >> /\ DOMAIN vol = Fields
      BY <3>1 DEF BootInv
    <3>3. CASE CheckSuperblock
      <4>1. vol' = vol \/ \E b, i : vol' = [vol EXCEPT !.g_block_size = b, !.g_inode_size = i]
        BY <3>3, Zenon DEF CheckSuperblock, fs_init
      <4>2. vol'.block = << >>
        BY <3>2, <4>1 DEF Fields
      <4> QED BY <3>1, <3>2, <4>2, Unmounted DEF Mounted
    <3>4. CASE CheckGroup
      <4>1. vol' = [vol EXCEPT !.bg_inode_table = bg_inode_table(buffer),
                               !.s_inodes_count = disk.sb.s_inodes_count]
        BY <3>4 DEF CheckGroup
      <4>2. vol'.block = << >>
        BY <3>2, <4>1 DEF Fields
      <4> QED BY <3>1, <3>2, <4>2, Unmounted DEF Mounted
    <3> QED BY <2>2, <3>3, <3>4
  <2>3. CASE CheckRoot
    BY <2>3, FirstPrompt
  <2>4. CASE FilesNext /\ UNCHANGED kmain_vars
    BY <2>4, CommandStep
  <2>5. CASE Tables \/ Probe
    BY <2>5, <2>1 DEF Tables, Probe
  <2>6. CASE GuessRoot
    <3>1. disk.sb.s_inodes_count \in Nat /\ ROOT \in 1 .. disk.sb.s_inodes_count
      BY DEF FilesInv, Consistent, Readable, Volume
    <3>2. ROOT > disk.sb.s_inodes_count
      BY <2>6 DEF GuessRoot, At, BootInv
    <3> QED BY <3>1, <3>2 DEF ROOT
  <2> QED BY <2>1, <2>2, <2>3, <2>4, <2>5, <2>6 DEF BootNext, Kmain, boot_vars, kmain_vars
<1> QED BY <1>1, <1>2, BootCorrect, PTL DEF BootSpec

\* The path in the prompt is the one of the working directory, after any commands.
THEOREM PromptNames == BootSpec /\ Consistent(disk) => []CwdNamed
<1>1. FilesInv => CwdNamed
  <2> SUFFICES ASSUME FilesInv, Mounted
               PROVE  /\ mode(cwd) = "dir"
                      /\ (\A i \in DOMAIN g_cwd_path : Length[g_cwd_path[i]] < NAME_BUF)
                            => resolve_path(vol, g_cwd_path, FALSE) = cwd
    BY DEF CwdNamed
  <2>1. mode(cwd) = "dir" /\ disk.used \subseteq Nat \ {0} /\ g_cwd_path \in Seq(Plain)
    BY AtWork
  <2>2. PICK r : Way(g_cwd_path, cwd, r)
    BY AtWork
  <2>3. ASSUME \A i \in DOMAIN g_cwd_path : Length[g_cwd_path[i]] < NAME_BUF
        PROVE  resolve_path(vol, g_cwd_path, FALSE) = cwd
    BY <2>1, <2>2, <2>3, WayResolves
  <2> QED BY <2>1, <2>3
<1> QED BY <1>1, FilesCorrect, PTL

\* Only a mounted volume gives answers, and they are about inodes in use.
LEMMA Answered ==
  ASSUME FilesInv, out.cmd \in {"ls", "cat", "load"}
  PROVE  Readable(vol, disk.used) /\ Answers /\ out.num \in disk.used
<1>1. Mounted
  BY DEF FilesInv, Said
<1>2. Answers
  BY <1>1 DEF FilesInv
<1> QED BY <1>1, <1>2, AtWork DEF Answers

\* A program starts from the whole file, or not at all: for every size that
\* block_count can count, and every block size that fits into the buffers.
THEOREM LoadsRight == BootSpec /\ Consistent(disk) => []LoadsWhole
<1>1. FilesInv => LoadsWhole
  <2> SUFFICES ASSUME FilesInv, out.cmd = "load", ~smashed, Countable(read_inode(vol, out.num))
               PROVE  LoadsWhole
    BY Zenon DEF LoadsWhole
  <2> DEFINE inode == read_inode(vol, out.num)
             r == out.result
  <2>1. Readable(vol, disk.used) /\ out.num \in disk.used
    BY Answered
  <2>2. /\ inode.i_mode = "file" /\ inode.i_size # 0 /\ r = load_file_to_memory(vol, out.num)
        /\ ~Overrun(vol) /\ Countable(inode)
    BY Answered DEF Answers
  <2> HIDE DEF inode, r
  <2>3. /\ r.ok = Addressed(inode)
        /\ r.ok => /\ Len(r.image) = Needed(vol, inode) * vol.g_block_size
                   /\ \A b \in 0 .. inode.i_size - 1 : r.image[b + 1] = Byte(inode, b)
    BY <2>1, <2>2, LoadsEvery DEF inode
  <2> QED BY <2>3, Zenon DEF LoadsWhole, inode, r
<1> QED BY <1>1, FilesCorrect, PTL

\* cat prints the file, no more and no less, for every size that its pointers lead
\* to and every block size that fits into the buffers.
THEOREM CatsRight == BootSpec /\ Consistent(disk) => []CatPrints
<1>1. FilesInv => CatPrints
  <2> SUFFICES ASSUME FilesInv, out.cmd = "cat", Addressed(read_inode(vol, out.num)) PROVE CatPrints
    BY Zenon DEF CatPrints
  <2> DEFINE inode == read_inode(vol, out.num)
  <2>1. Readable(vol, disk.used) /\ out.num \in disk.used
    BY Answered
  <2>2. inode.i_mode = "file" /\ out.result = Printed(vol, inode)
    BY Answered DEF Answers
  <2>3. Printed(vol, inode) = FlattenSeq(Bytes(inode))
    BY <2>1, <2>2, CatsEvery
  <2>4. out.result = FlattenSeq(Bytes(inode))
    BY <2>2, <2>3, Zenon
  <2> QED BY <2>4, Zenon DEF CatPrints, Bytes
<1> QED BY <1>1, FilesCorrect, PTL

\* ls shows the entries in use of the directory, all of them and nothing else, if
\* its blocks fit into the buffers and it is not too large to be counted.
THEOREM ListsRight == BootSpec /\ Consistent(disk) => []ListsAll
<1>1. FilesInv => ListsAll
  <2> SUFFICES ASSUME FilesInv, out.cmd = "ls", Addressed(read_inode(vol, out.num)),
                      Countable(read_inode(vol, out.num)), ~out.full
               PROVE  ListsAll
    BY Zenon DEF ListsAll
  <2> DEFINE inode == read_inode(vol, out.num)
             ids == {block_id(vol, inode, k) : k \in 0 .. Needed(vol, inode) - 1} \ {0}
  <2>1. Readable(vol, disk.used) /\ out.num \in disk.used
    BY Answered
  <2>2. inode.i_mode = "dir" /\ out.result = Listing(vol, inode, out.full) /\ out.full \in BOOLEAN
    BY Answered DEF Answers
  <2>3. out.full = FALSE
    BY <2>2
  <2>4. out.result = Listing(vol, inode, FALSE)
    BY <2>2, <2>3, Zenon
  <2>5. Range(Listing(vol, inode, FALSE))
           = {e \in UNION {Range(vol.block[id]) : id \in ids} : e.inode # 0 /\ Length[e.name] > 0 /\ ~e.bad}
    <3> DEFINE is == ids
    <3> HIDE DEF is
    <3>1. is = {block_id(vol, inode, k) : k \in 0 .. Needed(vol, inode) - 1} \ {0}
      BY Zenon DEF is
    <3>2. Range(Listing(vol, inode, FALSE))
           = {e \in UNION {Range(vol.block[id]) : id \in is} : e.inode # 0 /\ Length[e.name] > 0 /\ ~e.bad}
      BY <2>1, <2>2, <3>1, ListsEvery, Zenon
    <3> QED BY <3>2, Zenon DEF is
  <2> QED BY <2>4, <2>5, Zenon DEF ListsAll
<1> QED BY <1>1, FilesCorrect, PTL
=============================================================================
