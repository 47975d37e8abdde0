---------------------------- MODULE MachineProofs ----------------------------
(***************************************************************************)
(* Proofs about Machine.tla: the processor, the interrupt controllers, the *)
(* disk driver, the names of files, power management and the archive, in   *)
(* every world, for every width of the drive's address registers and for   *)
(* every size of a name, of a block and of the size field.                 *)
(***************************************************************************)
EXTENDS Machine, WellFoundedInduction, TLAPS

-----------------------------------------------------------------------------
(* The order of the boot sequence. *)

\* What follows the i-th step of the boot sequence.
LEMMA FollowingStep ==
  ASSUME NEW i \in 1..14
  PROVE  Following(BootOrder[i]) = BootOrder[i + 1]
<1> DEFINE I == {j \in 1..Len(BootOrder) : BootOrder[j] = BootOrder[i]}
<1>1. Len(BootOrder) = 15
  BY DEF BootOrder
<1>2. \A j \in 1..15 : BootOrder[j] = BootOrder[i] => j = i
  BY DEF BootOrder
<1>3. I = {i}
  BY <1>1, <1>2
<1>4. Min(I) = i
  BY <1>3 DEF Min
<1>5. SelectInSeq(BootOrder, LAMBDA s : s = BootOrder[i]) = i
  BY <1>3, <1>4 DEF SelectInSeq
<1> QED BY <1>5 DEF Following

\* The order of the boot sequence, step by step.
LEMMA BootSteps ==
  /\ Following("serial_init") = "vga_init" /\ Following("vga_init") = "gdt_init"
  /\ Following("gdt_init") = "idt_init" /\ Following("idt_init") = "fpu_init"
  /\ Following("fpu_init") = "syscall_init" /\ Following("syscall_init") = "pic_remap"
  /\ Following("pic_remap") = "pmm_init" /\ Following("pmm_init") = "vmm_init"
  /\ Following("vmm_init") = "heap_init" /\ Following("heap_init") = "tarfs_init"
  /\ Following("tarfs_init") = "fat16_init" /\ Following("fat16_init") = "pci_init"
  /\ Following("pci_init") = "acpi_init" /\ Following("acpi_init") = "shell"
<1>1. \A i \in 1..14 : Following(BootOrder[i]) = BootOrder[i + 1]
  BY FollowingStep
<1>2. /\ BootOrder[1] = "serial_init" /\ BootOrder[2] = "vga_init" /\ BootOrder[3] = "gdt_init"
      /\ BootOrder[4] = "idt_init" /\ BootOrder[5] = "fpu_init" /\ BootOrder[6] = "syscall_init"
      /\ BootOrder[7] = "pic_remap" /\ BootOrder[8] = "pmm_init" /\ BootOrder[9] = "vmm_init"
      /\ BootOrder[10] = "heap_init" /\ BootOrder[11] = "tarfs_init" /\ BootOrder[12] = "fat16_init"
      /\ BootOrder[13] = "pci_init" /\ BootOrder[14] = "acpi_init" /\ BootOrder[15] = "shell"
  BY DEF BootOrder
<1>3. /\ 1 + 1 = 2 /\ 2 + 1 = 3 /\ 3 + 1 = 4 /\ 4 + 1 = 5 /\ 5 + 1 = 6 /\ 6 + 1 = 7 /\ 7 + 1 = 8
      /\ 8 + 1 = 9 /\ 9 + 1 = 10 /\ 10 + 1 = 11 /\ 11 + 1 = 12 /\ 12 + 1 = 13 /\ 13 + 1 = 14 /\ 14 + 1 = 15
  OBVIOUS
<1>4. /\ Following(BootOrder[1]) = BootOrder[2] /\ Following(BootOrder[2]) = BootOrder[3]
      /\ Following(BootOrder[3]) = BootOrder[4] /\ Following(BootOrder[4]) = BootOrder[5]
      /\ Following(BootOrder[5]) = BootOrder[6] /\ Following(BootOrder[6]) = BootOrder[7]
      /\ Following(BootOrder[7]) = BootOrder[8] /\ Following(BootOrder[8]) = BootOrder[9]
      /\ Following(BootOrder[9]) = BootOrder[10] /\ Following(BootOrder[10]) = BootOrder[11]
      /\ Following(BootOrder[11]) = BootOrder[12] /\ Following(BootOrder[12]) = BootOrder[13]
      /\ Following(BootOrder[13]) = BootOrder[14] /\ Following(BootOrder[14]) = BootOrder[15]
  BY <1>1, <1>3
<1> QED BY <1>2, <1>4

-----------------------------------------------------------------------------
(* The processor.  What a step may rely on depends on where the processor  *)
(* is; during a file system call, on where that call will return to.       *)

BeforeGdt == {"serial_init", "vga_init", "gdt_init"}
BeforeIdt == BeforeGdt \cup {"idt_init"}
BeforeStar == BeforeIdt \cup {"fpu_init", "syscall_init"}
BootLate ==
  {"pmm_init", "vmm_init", "heap_init", "tarfs_init", "fat16_init", "pci_init", "acpi_init"}
OnLoader == BeforeStar \cup {"pic_remap"} \cup BootLate \cup {"shell", "process_exec", "jump_usermode"}
OnUser == {"sysret", "user", "syscall_entry"}
OnKStack == {"syscall_handler_c", "getchar", "leave_syscall"}
Halts == {"panic", "off", "reset"}
Places == OnLoader \cup OnUser \cup OnKStack \cup Halts

Where == IF pc \in {"ata", "fat16"} THEN after ELSE pc

PlacesOK ==
  /\ Where \in Places
  /\ after \in {"pci_init", "shell", "process_exec", "leave_syscall"}
  /\ ring = IF pc = "user" THEN 3 ELSE 0

StacksOK ==
  /\ Where \in OnLoader => stack = Loader
  /\ Where \in OnUser => stack = User
  /\ Where \in OnKStack => stack = KStack /\ current_user_rsp = User
  /\ Where \in OnUser \cup OnKStack =>
       tss_rsp0 = KStack /\ current_kernel_stack = KStack /\ kernel_saved_rsp = Loader

FlagsOK ==
  /\ if_flag \in BOOLEAN
  /\ Where \in OnLoader \ BeforeIdt => if_flag
  /\ Where \in BeforeIdt \cup Halts \cup {"syscall_entry"} => ~if_flag
  /\ pc = "user" => if_flag

Gdt == <<"null", "kernel code", "kernel data", "user data", "user code", "tss">>
NoStar == [user |-> 0, kernel |-> 0]
Star == [user |-> 16, kernel |-> 8]

TablesOK ==
  /\ tables \in [gdt : {<<>>, Gdt}, idt : {"limine", "kernel"}, star : {NoStar, Star}, fmask : {{}, {"IF"}}]
  /\ IF pc \in BeforeGdt THEN tables.gdt = <<>> ELSE tables.gdt = Gdt
  /\ Where \notin BeforeStar \cup {"panic"} => tables.star = Star /\ tables.fmask = {"IF"}

SegmentsOK ==
  pc \notin BeforeGdt => IF pc = "user" THEN cs = 32 /\ ss = 24 ELSE cs = 8 /\ ss \in {0, 16}

\* How far the sequence of a controller has come after the writes so far.
Icw(done) == IF done \in {1, 2} THEN 1 ELSE IF done \in {3, 4} THEN 2 ELSE IF done \in {5, 6} THEN 3 ELSE 0

PicOK ==
  /\ remap \in 0..10
  /\ pic \in [icw : [{"master", "slave"} -> 0..3], base : [{"master", "slave"} -> Nat],
              imr : SUBSET (0..15), irr : SUBSET (0..15), isr : SUBSET (0..15)]
  /\ pic.icw["master"] = Icw(remap)
  /\ pic.icw["slave"] = IF remap = 0 THEN 0 ELSE Icw(remap - 1)
  /\ remap >= 3 => pic.base["master"] = 32
  /\ remap = 0 => pic.imr = 0..15
  /\ remap >= 9 => \A n \in 0..7 : n \in pic.imr <=> n # Kbd
  /\ Where \in BeforeStar => remap = 0
  /\ Where \notin BeforeStar \cup {"pic_remap", "panic"} => remap = 10

CpuInv ==
  world \in Worlds /\ PlacesOK /\ StacksOK /\ FlagsOK /\ TablesOK /\ SegmentsOK /\ PicOK

-----------------------------------------------------------------------------
(* The disk. *)

Images == [LBAs -> Contents]
Commands == {"none", "read", "write", "commit", "flush"}

DriveType ==
  /\ drive \in [fitted : BOOLEAN, fails : BOOLEAN, bsy : BOOLEAN, drq : BOOLEAN, err : BOOLEAN,
                cmd : Commands, regs : [head : Nat, hi : Nat, mid : Nat, lo : Nat],
                port : Contents, cache : Images, medium : Images]
  /\ call \in [op : {"none", "read", "write"}, lba : LBAs, buffer : Contents,
               at : {"idle", "ready", "select", "command", "data", "transfer", "flush", "flushed", "done"}]
  /\ written \in Images
  /\ failed \in BOOLEAN /\ ignored \in BOOLEAN

\* The drive is busy only after a command or the data of a write, and shows
\* neither an error nor data then.
BusyOK ==
  /\ ~drive.fitted => ~drive.bsy /\ ~drive.drq
  /\ drive.bsy => call.at \in {"data", "flush", "flushed"} /\ ~drive.drq /\ ~drive.err
  /\ ~(drive.drq /\ drive.err)
  /\ drive.bsy /\ call.at = "data" => drive.cmd = call.op
  /\ drive.bsy /\ call.at = "flush" => drive.cmd = "commit"
  /\ drive.bsy /\ call.at = "flushed" => drive.cmd \in {"commit", "flush"}

\* The steps of a call.
CallOK ==
  /\ call.at # "idle" => call.op \in {"read", "write"}
  /\ call.at \in {"flush", "flushed"} => call.op = "write"
  /\ call.at \in {"command", "data", "transfer", "flush", "flushed"} =>
       drive.regs = Registers(call.lba)

\* The cache is what was written, but for the sector of the call in progress.
CacheOK ==
  /\ \A l \in LBAs : l # call.lba => drive.cache[l] = written[l]
  /\ ~(drive.fitted /\ call.op = "write" /\ call.at \in {"flush", "flushed", "done"}) =>
       drive.cache[call.lba] = written[call.lba]

\* How far the transfer has come if the drive reports no error.
TransferOK ==
  drive.fitted /\ ~failed =>
    /\ (call.at = "data" /\ ~drive.bsy) \/ call.at = "transfer" =>
         drive.drq /\ (call.op = "read" => drive.port = drive.cache[call.lba])
    /\ call.at = "done" /\ call.op = "read" => call.buffer = drive.cache[call.lba]
    /\ call.at \in {"flush", "flushed"} =>
         IF drive.bsy /\ drive.cmd = "commit" THEN drive.port = call.buffer
                                              ELSE drive.cache[call.lba] = call.buffer
    /\ call.at = "flushed" /\ ~ignored =>
         IF drive.bsy THEN drive.cmd = "flush" ELSE drive.medium[call.lba] = call.buffer
    /\ call.at = "done" /\ call.op = "write" =>
         /\ drive.cache[call.lba] = call.buffer
         /\ ~ignored => drive.medium[call.lba] = call.buffer

DiskInv == DriveType /\ BusyOK /\ CallOK /\ CacheOK /\ TransferOK

USE ATAAssumption

\* Quotient and remainder are unique.
LEMMA DivUnique ==
  ASSUME NEW d \in Nat \ {0}, NEW q \in Nat, NEW r \in Nat, r < d, NEW a \in Nat, a = q * d + r
  PROVE  a \div d = q /\ a % d = r
<1> DEFINE p == a \div d
           m == a % d
<1>1. p \in Nat /\ m \in 0..(d - 1) /\ a = d * p + m
  OBVIOUS
<1> HIDE DEF p, m
<1>2. ASSUME NEW x \in Nat, NEW y \in Nat, x < y PROVE x * d + d <= y * d
  <2>1. (x + 1) * d <= y * d
    BY <1>2
  <2> QED BY <2>1
<1>3. d * p = p * d /\ p * d \in Nat /\ q * d \in Nat
  BY <1>1
<1>4. ~(p < q) /\ ~(q < p)
  BY <1>1, <1>2, <1>3
<1>5. p = q /\ m = r
  BY <1>1, <1>3, <1>4
<1> QED BY <1>5 DEF p, m

\* The address registers hold the whole address of every sector.
LEMMA RegisterSplit ==
  ASSUME NEW l \in LBAs
  PROVE  /\ Registers(l) \in [head : Nat, hi : Nat, mid : Nat, lo : Nat]
         /\ Addressed(Registers(l)) = l
<1> DEFINE q1 == l \div Byte
           r0 == l % Byte
           q2 == q1 \div Byte
           r1 == q1 % Byte
           q3 == q2 \div Byte
           r2 == q2 % Byte
<1>1. l \in Nat /\ l < Byte * Byte * Byte * Nibble
  <2>1. Byte * Byte * Byte * Nibble \in Nat
    OBVIOUS
  <2> QED BY <2>1 DEF LBAs
<1>2. ASSUME NEW x \in Nat PROVE /\ x \div Byte \in Nat /\ x % Byte \in Nat /\ x % Byte < Byte
                                  /\ x = (x \div Byte) * Byte + (x % Byte)
  OBVIOUS
<1>3. q1 \in Nat /\ r0 \in Nat /\ r0 < Byte /\ l = q1 * Byte + r0
  BY <1>1, <1>2
<1>4. q2 \in Nat /\ r1 \in Nat /\ r1 < Byte /\ q1 = q2 * Byte + r1
  BY <1>2, <1>3
<1>5. q3 \in Nat /\ r2 \in Nat /\ r2 < Byte /\ q2 = q3 * Byte + r2
  BY <1>2, <1>4
<1> HIDE DEF q1, r0, q2, r1, q3, r2
<1>6. l \div (Byte * Byte) = q2
  <2> DEFINE r == r1 * Byte + r0
             d == Byte * Byte
  <2>1. l = q2 * d + r
    BY <1>3, <1>4
  <2>2. r \in Nat /\ r < d /\ d \in Nat \ {0}
    <3>1. r1 * Byte <= (Byte - 1) * Byte /\ (Byte - 1) * Byte = Byte * Byte - Byte
      BY <1>4
    <3>2. r1 * Byte \in Nat /\ Byte * Byte \in Nat /\ Byte * Byte > 0
      BY <1>4
    <3> QED BY <1>3, <3>1, <3>2
  <2> HIDE DEF r, d
  <2>3. l \div d = q2
    BY <1>1, <1>4, <2>1, <2>2, DivUnique
  <2> QED BY <2>3 DEF d
<1>7. l \div (Byte * Byte * Byte) = q3
  <2> DEFINE r == r2 * (Byte * Byte) + (r1 * Byte + r0)
             d == Byte * Byte * Byte
  <2>1. l = q3 * d + r
    BY <1>3, <1>4, <1>5
  <2>2. r \in Nat /\ r < d /\ d \in Nat \ {0}
    <3> DEFINE b == Byte * Byte
    <3>1. b \in Nat \ {0} /\ r1 * Byte <= b - Byte /\ r1 * Byte \in Nat
      <4>1. r1 * Byte <= (Byte - 1) * Byte /\ (Byte - 1) * Byte = Byte * Byte - Byte
        BY <1>4
      <4>2. Byte * Byte \in Nat /\ Byte * Byte > 0 /\ r1 * Byte \in Nat
        BY <1>4
      <4> QED BY <4>1, <4>2
    <3>2. d = Byte * b
      OBVIOUS
    <3> HIDE DEF b, d
    <3>3. r2 * b <= (Byte - 1) * b /\ (Byte - 1) * b = Byte * b - b /\ r2 * b \in Nat /\ Byte * b \in Nat /\ Byte * b > 0
      BY <1>5, <3>1
    <3>4. r = r2 * b + (r1 * Byte + r0)
      BY DEF b
    <3> QED BY <1>3, <3>1, <3>2, <3>3, <3>4
  <2> HIDE DEF r, d
  <2>3. l \div d = q3
    BY <1>1, <1>5, <2>1, <2>2, DivUnique
  <2> QED BY <2>3 DEF d
<1>8. q3 < Nibble
  <2> DEFINE d == Byte * Byte * Byte
  <2>1. d \in Nat \ {0} /\ l < d * Nibble
    <3>1. Byte * Byte \in Nat /\ Byte * Byte > 0
      OBVIOUS
    <3>2. (Byte * Byte) * Byte \in Nat /\ (Byte * Byte) * Byte > 0
      BY <3>1
    <3> QED BY <1>1, <3>2
  <2>2. q3 * d <= l
    <3>1. q3 = l \div d
      BY <1>7
    <3> HIDE DEF d
    <3>2. l = (l \div d) * d + (l % d) /\ (l % d) \in Nat
      BY <1>1, <2>1
    <3>3. l = q3 * d + (l % d)
      BY <3>1, <3>2
    <3>4. q3 * d \in Nat
      BY <1>5, <2>1
    <3> QED BY <3>2, <3>3, <3>4
  <2> HIDE DEF d
  <2>3. ASSUME q3 >= Nibble PROVE FALSE
    <3>1. q3 * d >= Nibble * d /\ Nibble * d = d * Nibble
      BY <1>5, <2>1, <2>3
    <3>2. q3 * d \in Nat /\ d * Nibble \in Nat
      BY <1>5, <2>1
    <3> QED BY <1>1, <2>1, <2>2, <3>1, <3>2
  <2> QED BY <1>5, <2>3
<1>9. q3 % Nibble = q3
  BY <1>5, <1>8
<1>10. Registers(l) = [head |-> q3, hi |-> r2, mid |-> r1, lo |-> r0]
  BY <1>6, <1>7, <1>9 DEF Registers, q1, r0, r1, r2
<1>11. ((q3 * Byte + r2) * Byte + r1) * Byte + r0 = l
  BY <1>3, <1>4, <1>5
<1> QED BY <1>3, <1>4, <1>5, <1>10, <1>11 DEF Addressed

\* The disk at start.
LEMMA DiskAtStart ==
  ASSUME NEW fitted \in BOOLEAN, NEW fails \in BOOLEAN, DiskInit(fitted, fails, Formatted)
  PROVE  DiskInv
<1>1. Formatted \in Images /\ 0 \in LBAs /\ Junk \in Contents
  <2>1. Byte * Byte \in Nat /\ Byte * Byte > 0
    OBVIOUS
  <2>2. Byte * Byte * Byte \in Nat /\ Byte * Byte * Byte > 0
    BY <2>1
  <2>3. Byte * Byte * Byte * Nibble \in Nat /\ Byte * Byte * Byte * Nibble > 0
    BY <2>2
  <2> QED BY <2>3, MachineAssumption DEF Images, LBAs
<1>2. DriveType
  BY <1>1 DEF DiskInit, DriveType, Commands, NoCall
<1>3. BusyOK /\ CallOK /\ CacheOK /\ TransferOK
  BY <1>1 DEF DiskInit, BusyOK, CallOK, CacheOK, TransferOK, NoCall
<1> QED BY <1>2, <1>3 DEF DiskInv

\* A call begins.
LEMMA DiskBegin ==
  ASSUME DiskInv, NEW op \in {"read", "write"}, NEW lba \in LBAs, NEW buf \in Contents,
         Begin(op, lba, buf)
  PROVE  DiskInv'
<1>1. /\ call' = [op |-> op, lba |-> lba, buffer |-> buf, at |-> "ready"]
      /\ drive' = drive /\ written' = written /\ failed' = FALSE /\ ignored' = FALSE
      /\ call.at = "idle"
  BY DEF Begin
<1>2. DriveType'
  BY <1>1 DEF DiskInv, DriveType
<1>3. BusyOK' /\ CallOK' /\ TransferOK'
  BY <1>1 DEF DiskInv, BusyOK, CallOK, TransferOK
<1>4. CacheOK'
  BY <1>1 DEF DiskInv, CacheOK, DriveType
<1> QED BY <1>2, <1>3, <1>4 DEF DiskInv

\* A wait passes only when the drive is not busy.
LEMMA DiskWait ==
  ASSUME DiskInv, UNCHANGED <<drive, written, failed, ignored>>,
         \/ ata_wait_ready("ready", "select") \/ ata_wait_ready("data", "transfer")
         \/ ata_wait_ready("flushed", "done")
  PROVE  DiskInv'
<1>1. PICK from, to : /\ <<from, to>> \in {<<"ready", "select">>, <<"data", "transfer">>, <<"flushed", "done">>}
                      /\ ata_wait_ready(from, to)
  OBVIOUS
<1>2. /\ \/ from = "ready" /\ to = "select"
         \/ from = "data" /\ to = "transfer"
         \/ from = "flushed" /\ to = "done"
      /\ call.at = from /\ call' = [call EXCEPT !.at = to]
  BY <1>1 DEF ata_wait_ready
<1>3. ~drive.bsy
  <2>1. "BSY" \notin Status \/ "ERR" \in Status
    BY <1>1 DEF ata_wait_ready
  <2>2. drive.fitted /\ drive.bsy => "BSY" \in Status /\ ~drive.err
    BY DEF Status, DiskInv, BusyOK
  <2>3. drive.fitted /\ "ERR" \in Status => drive.err
    BY DEF Status
  <2> QED BY <2>1, <2>2, <2>3 DEF DiskInv, BusyOK
<1>4. /\ call'.op = call.op /\ call'.lba = call.lba /\ call'.buffer = call.buffer /\ call'.at = to
      /\ drive' = drive /\ written' = written /\ failed' = failed /\ ignored' = ignored
  BY <1>2 DEF DiskInv, DriveType
<1>5. DriveType'
  BY <1>2, <1>4 DEF DiskInv, DriveType
<1>6. BusyOK'
  BY <1>2, <1>3, <1>4 DEF DiskInv, BusyOK
<1>7. CallOK' /\ CacheOK'
  BY <1>2, <1>4 DEF DiskInv, CallOK, CacheOK
<1>8. TransferOK'
  BY <1>2, <1>3, <1>4 DEF DiskInv, TransferOK, CallOK
<1> QED BY <1>5, <1>6, <1>7, <1>8 DEF DiskInv

\* The address registers: the drive is not busy and takes them.
LEMMA DiskSelect ==
  ASSUME DiskInv, Select, UNCHANGED <<written, failed, ignored>>
  PROVE  DiskInv'
<1>1. ~drive.bsy /\ call.at = "select" /\ call.lba \in LBAs
  BY DEF DiskInv, BusyOK, Select, DriveType
<1>2. drive' = [drive EXCEPT !.regs = Registers(call.lba)]
  BY <1>1 DEF Select
<1>3. /\ drive'.regs = Registers(call.lba) /\ drive'.fitted = drive.fitted /\ drive'.bsy = drive.bsy
      /\ drive'.drq = drive.drq /\ drive'.err = drive.err /\ drive'.cmd = drive.cmd
      /\ drive'.port = drive.port /\ drive'.cache = drive.cache /\ drive'.medium = drive.medium
  BY <1>2 DEF DiskInv, DriveType
<1>4. /\ call'.op = call.op /\ call'.lba = call.lba /\ call'.buffer = call.buffer /\ call'.at = "command"
  BY DEF Select, DiskInv, DriveType
<1>5. DriveType'
  <2>1. Registers(call.lba) \in [head : Nat, hi : Nat, mid : Nat, lo : Nat]
    BY <1>1, RegisterSplit
  <2>2. call' = [call EXCEPT !.at = "command"]
    BY DEF Select
  <2> QED BY <1>2, <2>1, <2>2 DEF DiskInv, DriveType
<1>6. BusyOK' /\ CallOK' /\ CacheOK' /\ TransferOK'
  BY <1>1, <1>3, <1>4 DEF DiskInv, BusyOK, CallOK, CacheOK, TransferOK
<1> QED BY <1>5, <1>6 DEF DiskInv

\* The command byte: the drive is not busy and takes it.
LEMMA DiskCommand ==
  ASSUME DiskInv, Command, UNCHANGED <<written, failed, ignored>>
  PROVE  DiskInv'
<1>1. ~drive.bsy /\ call.at = "command" /\ call.op \in {"read", "write"}
  BY DEF DiskInv, BusyOK, Command, CallOK
<1>2. /\ call'.op = call.op /\ call'.lba = call.lba /\ call'.buffer = call.buffer /\ call'.at = "data"
      /\ call' = [call EXCEPT !.at = "data"]
  BY DEF Command, DiskInv, DriveType
<1>3. CASE ~drive.fitted
  <2>1. drive' = drive
    BY <1>3 DEF Command, Obeys
  <2>2. DriveType'
    BY <1>2, <2>1 DEF DiskInv, DriveType
  <2> QED BY <1>1, <1>2, <1>3, <2>1, <2>2 DEF DiskInv, BusyOK, CallOK, CacheOK, TransferOK
<1>4. CASE drive.fitted
  <2>1. drive' = [drive EXCEPT !.bsy = TRUE, !.drq = FALSE, !.err = FALSE, !.cmd = call.op]
    BY <1>1, <1>4 DEF Command, Obeys
  <2>2. /\ drive'.regs = drive.regs /\ drive'.fitted = drive.fitted /\ drive'.bsy = TRUE
        /\ drive'.drq = FALSE /\ drive'.err = FALSE /\ drive'.cmd = call.op
        /\ drive'.port = drive.port /\ drive'.cache = drive.cache /\ drive'.medium = drive.medium
    BY <2>1 DEF DiskInv, DriveType
  <2>3. DriveType'
    BY <1>1, <1>2, <2>1 DEF DiskInv, DriveType, Commands
  <2> QED BY <1>1, <1>2, <1>4, <2>2, <2>3 DEF DiskInv, BusyOK, CallOK, CacheOK, TransferOK
<1> QED BY <1>3, <1>4

\* The data of a read.
LEMMA DiskReadData ==
  ASSUME DiskInv, ReadData, UNCHANGED <<written, failed, ignored>>
  PROVE  DiskInv'
<1> DEFINE buf == IF drive.drq THEN drive.port ELSE Junk
<1>1. /\ call.at = "transfer" /\ call.op = "read" /\ ~drive.bsy /\ buf \in Contents
      /\ call' = [call EXCEPT !.at = "done", !.buffer = buf] /\ drive' = [drive EXCEPT !.drq = FALSE]
  BY DEF ReadData, DiskInv, BusyOK, DriveType
<1>2. /\ drive'.regs = drive.regs /\ drive'.fitted = drive.fitted /\ drive'.bsy = drive.bsy
      /\ drive'.drq = FALSE /\ drive'.err = drive.err /\ drive'.cmd = drive.cmd
      /\ drive'.port = drive.port /\ drive'.cache = drive.cache /\ drive'.medium = drive.medium
  BY <1>1 DEF DiskInv, DriveType
<1>3. call'.op = call.op /\ call'.lba = call.lba /\ call'.buffer = buf /\ call'.at = "done"
  BY <1>1 DEF DiskInv, DriveType
<1>4. DriveType'
  <2> HIDE DEF buf
  <2> QED BY <1>1 DEF DiskInv, DriveType
<1>5. BusyOK' /\ CallOK' /\ CacheOK'
  BY <1>1, <1>2, <1>3 DEF DiskInv, BusyOK, CallOK, CacheOK
<1>6. TransferOK'
  BY <1>1, <1>2, <1>3 DEF DiskInv, TransferOK
<1> QED BY <1>4, <1>5, <1>6 DEF DiskInv

\* The data of a write.
LEMMA DiskWriteData ==
  ASSUME DiskInv, WriteData, UNCHANGED <<written, failed, ignored>>
  PROVE  DiskInv'
<1>1. /\ call.at = "transfer" /\ call.op = "write" /\ ~drive.bsy
      /\ call' = [call EXCEPT !.at = "flush"]
  BY DEF WriteData, DiskInv, BusyOK
<1>2. call'.op = call.op /\ call'.lba = call.lba /\ call'.buffer = call.buffer /\ call'.at = "flush"
  BY <1>1 DEF DiskInv, DriveType
<1>3. CASE ~drive.drq
  <2>1. drive' = drive
    BY <1>3 DEF WriteData
  <2>2. DriveType'
    BY <1>1, <2>1 DEF DiskInv, DriveType
  <2>3. BusyOK' /\ CallOK' /\ CacheOK' /\ TransferOK'
    BY <1>1, <1>2, <1>3, <2>1 DEF DiskInv, BusyOK, CallOK, CacheOK, TransferOK
  <2> QED BY <2>2, <2>3 DEF DiskInv
<1>4. CASE drive.drq
  <2>1. drive' = [drive EXCEPT !.bsy = TRUE, !.drq = FALSE, !.cmd = "commit", !.port = call.buffer]
    BY <1>4 DEF WriteData
  <2>2. /\ drive'.regs = drive.regs /\ drive'.fitted = drive.fitted /\ drive'.bsy = TRUE
        /\ drive'.drq = FALSE /\ drive'.err = drive.err /\ drive'.cmd = "commit"
        /\ drive'.port = call.buffer /\ drive'.cache = drive.cache /\ drive'.medium = drive.medium
    BY <2>1 DEF DiskInv, DriveType
  <2>3. DriveType'
    BY <1>1, <2>1 DEF DiskInv, DriveType, Commands
  <2>4. BusyOK' /\ CallOK' /\ CacheOK' /\ TransferOK'
    BY <1>1, <1>2, <1>4, <2>2 DEF DiskInv, BusyOK, CallOK, CacheOK, TransferOK
  <2> QED BY <2>3, <2>4 DEF DiskInv
<1> QED BY <1>3, <1>4

\* The flush command, which a busy drive ignores.
LEMMA DiskFlush == ASSUME DiskInv, Flush PROVE DiskInv'
<1>1. /\ call.at = "flush" /\ call.op = "write" /\ call' = [call EXCEPT !.at = "flushed"]
      /\ ignored' = drive.bsy /\ written' = written /\ failed' = failed
  BY DEF Flush, DiskInv, CallOK
<1>2. call'.op = call.op /\ call'.lba = call.lba /\ call'.buffer = call.buffer /\ call'.at = "flushed"
  BY <1>1 DEF DiskInv, DriveType
<1>3. CASE drive.bsy \/ ~drive.fitted
  <2>1. drive' = drive
    BY <1>3 DEF Flush, Obeys
  <2>2. DriveType'
    BY <1>1, <2>1 DEF DiskInv, DriveType
  <2>3. BusyOK' /\ CallOK' /\ CacheOK' /\ TransferOK'
    BY <1>1, <1>2, <1>3, <2>1 DEF DiskInv, BusyOK, CallOK, CacheOK, TransferOK
  <2> QED BY <2>2, <2>3 DEF DiskInv
<1>4. CASE ~drive.bsy /\ drive.fitted
  <2>1. drive' = [drive EXCEPT !.bsy = TRUE, !.drq = FALSE, !.err = FALSE, !.cmd = "flush"]
    BY <1>4 DEF Flush, Obeys
  <2>2. /\ drive'.regs = drive.regs /\ drive'.fitted = drive.fitted /\ drive'.bsy = TRUE
        /\ drive'.drq = FALSE /\ drive'.err = FALSE /\ drive'.cmd = "flush"
        /\ drive'.port = drive.port /\ drive'.cache = drive.cache /\ drive'.medium = drive.medium
    BY <2>1 DEF DiskInv, DriveType
  <2>3. DriveType'
    <3>1. ignored' \in BOOLEAN
      BY <1>1 DEF DiskInv, DriveType
    <3> QED BY <1>1, <2>1, <3>1 DEF DiskInv, DriveType, Commands
  <2>4. BusyOK' /\ CallOK' /\ CacheOK' /\ TransferOK'
    BY <1>1, <1>2, <1>4, <2>2 DEF DiskInv, BusyOK, CallOK, CacheOK, TransferOK
  <2> QED BY <2>3, <2>4 DEF DiskInv
<1> QED BY <1>3, <1>4 DEF DiskInv, DriveType

\* The drive completes the command in progress.
LEMMA DiskCompletes == ASSUME DiskInv, DriveCompletes PROVE DiskInv'
<1>1. /\ drive.bsy /\ call' = call /\ written' = written /\ failed' = failed /\ ignored' = ignored
      /\ drive' = Completed
  BY DEF DriveCompletes
<1>2. /\ call.at \in {"data", "flush", "flushed"} /\ drive.fitted
      /\ call.lba \in LBAs /\ drive.regs = Registers(call.lba)
  BY <1>1 DEF DiskInv, BusyOK, CallOK, DriveType
<1>3. Addressed(drive.regs) = call.lba
  BY <1>2, RegisterSplit
<1>4. CASE drive.cmd = "read"
  <2>1. drive' = [drive EXCEPT !.bsy = FALSE, !.drq = TRUE, !.port = drive.cache[call.lba]]
    BY <1>1, <1>3, <1>4 DEF Completed
  <2>2. /\ drive'.regs = drive.regs /\ drive'.fitted = drive.fitted /\ drive'.bsy = FALSE
        /\ drive'.drq = TRUE /\ drive'.err = drive.err /\ drive'.cmd = "read"
        /\ drive'.port = drive.cache[call.lba] /\ drive'.cache = drive.cache /\ drive'.medium = drive.medium
    BY <1>4, <2>1 DEF DiskInv, DriveType
  <2>3. DriveType'
    <3>1. drive.cache[call.lba] \in Contents
      BY <1>2 DEF DiskInv, DriveType, Images
    <3> QED BY <1>1, <2>1, <3>1 DEF DiskInv, DriveType
  <2>4. BusyOK' /\ CallOK' /\ CacheOK' /\ TransferOK'
    BY <1>1, <1>2, <1>4, <2>2 DEF DiskInv, BusyOK, CallOK, CacheOK, TransferOK
  <2> QED BY <2>3, <2>4 DEF DiskInv
<1>5. CASE drive.cmd = "write"
  <2>1. drive' = [drive EXCEPT !.bsy = FALSE, !.drq = TRUE]
    BY <1>1, <1>5 DEF Completed
  <2>2. /\ drive'.regs = drive.regs /\ drive'.fitted = drive.fitted /\ drive'.bsy = FALSE
        /\ drive'.drq = TRUE /\ drive'.err = drive.err /\ drive'.cmd = "write"
        /\ drive'.port = drive.port /\ drive'.cache = drive.cache /\ drive'.medium = drive.medium
    BY <1>5, <2>1 DEF DiskInv, DriveType
  <2>3. DriveType'
    BY <1>1, <2>1 DEF DiskInv, DriveType
  <2>4. BusyOK' /\ CallOK' /\ CacheOK' /\ TransferOK'
    BY <1>1, <1>2, <1>5, <2>2 DEF DiskInv, BusyOK, CallOK, CacheOK, TransferOK
  <2> QED BY <2>3, <2>4 DEF DiskInv
<1>6. CASE drive.cmd = "commit"
  <2>1. drive' = [drive EXCEPT !.bsy = FALSE, !.cache[call.lba] = drive.port]
    BY <1>1, <1>3, <1>6 DEF Completed
  <2>2. /\ drive'.regs = drive.regs /\ drive'.fitted = drive.fitted /\ drive'.bsy = FALSE
        /\ drive'.drq = drive.drq /\ drive'.err = drive.err /\ drive'.cmd = "commit"
        /\ drive'.port = drive.port /\ drive'.cache = [drive.cache EXCEPT ![call.lba] = drive.port]
        /\ drive'.medium = drive.medium
    BY <1>6, <2>1 DEF DiskInv, DriveType
  <2>3. drive'.cache \in Images /\ drive'.cache[call.lba] = drive.port
        /\ \A l \in LBAs : l # call.lba => drive'.cache[l] = drive.cache[l]
    BY <1>2, <2>2 DEF DiskInv, DriveType, Images
  <2>4. DriveType'
    <3>1. drive' = [drive EXCEPT !.bsy = FALSE, !.cache = drive'.cache]
      BY <2>1, <2>2 DEF DiskInv, DriveType
    <3> QED BY <1>1, <2>3, <3>1 DEF DiskInv, DriveType
  <2>5. call.at \in {"flush", "flushed"} /\ call.op = "write"
    BY <1>1, <1>2, <1>6 DEF DiskInv, BusyOK, CallOK
  <2>6. BusyOK' /\ CallOK'
    BY <1>1, <1>2, <2>2, <2>5 DEF DiskInv, BusyOK, CallOK
  <2>7. CacheOK'
    BY <1>1, <1>2, <2>2, <2>3, <2>5 DEF DiskInv, CacheOK
  <2>8. TransferOK'
    BY <1>1, <1>2, <1>6, <2>2, <2>3, <2>5 DEF DiskInv, TransferOK
  <2> QED BY <2>4, <2>6, <2>7, <2>8 DEF DiskInv
<1>7. CASE drive.cmd = "flush"
  <2>1. drive' = [drive EXCEPT !.bsy = FALSE, !.medium = drive.cache]
    BY <1>1, <1>7 DEF Completed
  <2>2. /\ drive'.regs = drive.regs /\ drive'.fitted = drive.fitted /\ drive'.bsy = FALSE
        /\ drive'.drq = drive.drq /\ drive'.err = drive.err /\ drive'.cmd = "flush"
        /\ drive'.port = drive.port /\ drive'.cache = drive.cache /\ drive'.medium = drive.cache
    BY <1>7, <2>1 DEF DiskInv, DriveType
  <2>3. DriveType'
    BY <1>1, <2>1 DEF DiskInv, DriveType
  <2>4. BusyOK' /\ CallOK' /\ CacheOK' /\ TransferOK'
    BY <1>1, <1>2, <1>7, <2>2 DEF DiskInv, BusyOK, CallOK, CacheOK, TransferOK
  <2> QED BY <2>3, <2>4 DEF DiskInv
<1> QED BY <1>1, <1>2, <1>4, <1>5, <1>6, <1>7 DEF DiskInv, BusyOK, CallOK

\* The drive fails the command in progress.
LEMMA DiskFails == ASSUME DiskInv, DriveFails PROVE DiskInv'
<1>1. /\ drive.bsy /\ call' = call /\ written' = written /\ failed' = TRUE /\ ignored' = ignored
      /\ drive' = [drive EXCEPT !.bsy = FALSE, !.err = TRUE]
  BY DEF DriveFails
<1>2. /\ drive'.regs = drive.regs /\ drive'.fitted = drive.fitted /\ drive'.bsy = FALSE
      /\ drive'.drq = drive.drq /\ drive'.err = TRUE /\ drive'.cmd = drive.cmd
      /\ drive'.port = drive.port /\ drive'.cache = drive.cache /\ drive'.medium = drive.medium
  BY <1>1 DEF DiskInv, DriveType
<1>3. DriveType'
  BY <1>1 DEF DiskInv, DriveType
<1>4. BusyOK' /\ CallOK' /\ CacheOK' /\ TransferOK'
  BY <1>1, <1>2 DEF DiskInv, BusyOK, CallOK, CacheOK, TransferOK
<1> QED BY <1>3, <1>4 DEF DiskInv

\* The call returns.
LEMMA DiskEnd == ASSUME DiskInv, EndCall PROVE DiskInv'
<1> DEFINE now == IF failed THEN drive.cache[call.lba] ELSE call.buffer
<1>1. /\ call.at = "done" /\ call' = NoCall /\ drive' = drive /\ failed' = failed /\ ignored' = ignored
      /\ call.lba \in LBAs /\ ~drive.bsy
  BY DEF EndCall, DiskInv, DriveType, BusyOK
<1>2. now \in Contents /\ written \in [LBAs -> Contents] /\ drive.cache \in [LBAs -> Contents]
  BY <1>1 DEF DiskInv, DriveType, Images
<1>3. written' \in [LBAs -> Contents] /\ \A l \in LBAs : written'[l] = drive.cache[l]
  <2>1. CASE call.op = "write" /\ drive.fitted
    <3>1. written' = [written EXCEPT ![call.lba] = now]
      BY <2>1 DEF EndCall
    <3>2. now = drive.cache[call.lba]
      BY <1>1, <2>1 DEF DiskInv, TransferOK
    <3> HIDE DEF now
    <3> QED BY <1>1, <1>2, <3>1, <3>2 DEF DiskInv, CacheOK
  <2>2. CASE call.op = "read"
    <3>1. written' = written
      BY <2>2 DEF EndCall
    <3> QED BY <1>1, <1>2, <2>2, <3>1 DEF DiskInv, CacheOK
  <2>3. CASE call.op = "write" /\ ~drive.fitted
    <3>1. written' = written
      BY <2>3 DEF EndCall
    <3> QED BY <1>1, <1>2, <2>3, <3>1 DEF DiskInv, CacheOK
  <2> QED BY <1>1, <2>1, <2>2, <2>3 DEF DiskInv, CallOK
<1>4. 0 \in LBAs
  BY <1>1 DEF LBAs
<1>5. DriveType'
  BY <1>1, <1>3, <1>4 DEF DiskInv, DriveType, NoCall, Images
<1>6. BusyOK' /\ CallOK' /\ CacheOK' /\ TransferOK'
  BY <1>1, <1>3, <1>4 DEF DiskInv, BusyOK, CallOK, CacheOK, TransferOK, NoCall
<1> QED BY <1>5, <1>6 DEF DiskInv

\* Every step of the machine keeps the disk's invariant.
LEMMA DiskStepOK == ASSUME DiskInv, [Next]_vars PROVE DiskInv'
<1>1. CASE UNCHANGED ata
  BY <1>1 DEF ata, DiskInv, DriveType, BusyOK, CallOK, CacheOK, TransferOK
<1>2. CASE BootStep
  <2>1. CASE Begin("read", 0, Junk)
    <3>1. 0 \in LBAs
      BY DEF DiskInv, DriveType, LBAs
    <3> QED BY <2>1, <3>1, DiskBegin
  <2> QED BY <1>1, <1>2, <2>1 DEF BootStep
<1>3. CASE AtaStep
  <2>1. DriverStep
    BY <1>3 DEF AtaStep
  <2> QED
    BY <2>1, DiskWait, DiskSelect, DiskCommand, DiskReadData, DiskWriteData, DiskFlush DEF DriverStep
<1>4. CASE AtaReturns
  BY <1>4, DiskEnd DEF AtaReturns
<1>5. CASE Transfer
  <2>1. PICK l \in Sectors : Begin("read", l, Junk) \/ Begin("write", l, Payload)
    BY <1>5 DEF Transfer
  <2>2. l \in LBAs /\ Payload \in Contents
    BY MachineAssumption
  <2> QED BY <2>1, <2>2, DiskBegin
<1>6. CASE Drive
  BY <1>6, DiskCompletes, DiskFails DEF Drive, DiskStep
<1>7. CASE process_exec \/ SyscallFile \/ FsReturns
  BY <1>1, <1>7 DEF process_exec, SyscallFile, FsReturns
<1>8. CASE Shell
  BY <1>1, <1>8 DEF Shell, CommandPrints, CommandDir, CommandPoweroff, CommandReboot, CommandRm,
     CommandType, CommandExec
<1>9. CASE \/ Cpu(pic_remap \/ jump_usermode \/ SysRet \/ syscall_entry \/ LeaveSyscall)
           \/ Cpu(SyscallConsole \/ SyscallGetchar \/ SyscallExit)
  BY <1>1, <1>9 DEF Cpu
<1>10. CASE \E name \in DOMAIN Calls : Cpu(Syscall(name))
  BY <1>1, <1>10 DEF Cpu
<1>11. CASE Cpu(Getchar) \/ Cpu(Exception) \/ Cpu(TakeInterrupt) \/ \E n \in world.devices : Cpu(Raise(n))
  BY <1>1, <1>11 DEF Cpu
<1>12. CASE UNCHANGED vars
  BY <1>1, <1>12 DEF vars
<1> QED
  BY <1>2, <1>3, <1>4, <1>5, <1>6, <1>7, <1>8, <1>9, <1>10, <1>11, <1>12 DEF Next, Kernel

\* As long as the drive reports no error, a sector reads as it was last
\* written, and a write of ata_write_sector changes its sector and no other:
\* for every timing of the drive, every number of sectors and every split of
\* the address over the registers of ata.c.  When the flush command was not
\* ignored, the sector is on the medium.
THEOREM DiskReadsSeeWrites == Spec => []ReadsSeeWrites
<1>1. Init => DiskInv
  <2>1. SUFFICES ASSUME Init PROVE DiskInv
    OBVIOUS
  <2>2. world.fitted \in BOOLEAN /\ world.fails \in BOOLEAN /\ DiskInit(world.fitted, world.fails, Formatted)
    BY <2>1, MachineAssumption DEF Init
  <2> QED BY <2>2, DiskAtStart
<1>2. DiskInv /\ [Next]_vars => DiskInv'
  BY DiskStepOK
<1>3. DiskInv => ReadsSeeWrites
  <2>1. SUFFICES ASSUME DiskInv, drive.fitted, ~failed
                 PROVE  /\ call.at = "idle" => drive.cache = written
                        /\ call.at = "done" /\ call.op = "read" => call.buffer = written[call.lba]
                        /\ call.at = "done" /\ call.op = "write" /\ ~ignored => drive.medium[call.lba] = call.buffer
    BY DEF ReadsSeeWrites
  <2>2. call.at = "idle" => drive.cache = written
    <3>1. drive.cache \in [LBAs -> Contents] /\ written \in [LBAs -> Contents]
      BY <2>1 DEF DiskInv, DriveType, Images
    <3>2. call.at = "idle" => \A l \in LBAs : drive.cache[l] = written[l]
      BY <2>1 DEF DiskInv, CacheOK
    <3> QED BY <3>1, <3>2
  <2>3. call.at = "done" /\ call.op = "read" => call.buffer = written[call.lba]
    BY <2>1 DEF DiskInv, TransferOK, CacheOK
  <2>4. call.at = "done" /\ call.op = "write" /\ ~ignored => drive.medium[call.lba] = call.buffer
    BY <2>1 DEF DiskInv, TransferOK
  <2> QED BY <2>2, <2>3, <2>4
<1> QED BY <1>1, <1>2, <1>3, PTL DEF Spec

-----------------------------------------------------------------------------
(* The processor, step by step. *)

\* The processor's invariant at start.
LEMMA CpuAtStart == Init => CpuInv
<1> SUFFICES ASSUME Init PROVE CpuInv
  OBVIOUS
<1>1. /\ pc = "serial_init" /\ ring = 0 /\ if_flag = FALSE /\ stack = Loader /\ remap = 0
      /\ after = "shell" /\ Where = "serial_init" /\ world \in Worlds
  BY DEF Init, CpuInit, Where
<1>2. PlacesOK /\ StacksOK
  BY <1>1 DEF PlacesOK, StacksOK, Places, OnLoader, OnUser, OnKStack, BeforeStar, BeforeIdt, BeforeGdt
<1>3. FlagsOK
  BY <1>1 DEF FlagsOK, BeforeIdt, BeforeGdt
<1>4. TablesOK /\ SegmentsOK
  <2>1. tables = [gdt |-> <<>>, idt |-> "limine", star |-> NoStar, fmask |-> {}]
    BY DEF Init, CpuInit, NoStar
  <2> QED BY <1>1, <2>1 DEF TablesOK, SegmentsOK, BeforeStar, BeforeIdt, BeforeGdt
<1>5. PicOK
  <2>1. pic = [icw |-> [ch \in {"master", "slave"} |-> 0],
               base |-> [ch \in {"master", "slave"} |-> IF ch = "master" THEN 8 ELSE 112],
               imr |-> 0..15, irr |-> {}, isr |-> {}]
    BY DEF Init, CpuInit
  <2>2. /\ pic.icw = [ch \in {"master", "slave"} |-> 0] /\ pic.imr = 0..15
        /\ pic.base = [ch \in {"master", "slave"} |-> IF ch = "master" THEN 8 ELSE 112]
    BY <2>1
  <2>3. pic.icw \in [{"master", "slave"} -> 0..3] /\ pic.base \in [{"master", "slave"} -> Nat]
    BY <2>2
  <2>4. pic \in [icw : [{"master", "slave"} -> 0..3], base : [{"master", "slave"} -> Nat],
                 imr : SUBSET (0..15), irr : SUBSET (0..15), isr : SUBSET (0..15)]
    BY <2>1, <2>3
  <2> QED BY <1>1, <2>2, <2>4 DEF PicOK, Icw, BeforeStar, BeforeIdt, BeforeGdt
<1> QED BY <1>1, <1>2, <1>3, <1>4, <1>5 DEF CpuInv

\* A step that moves within a place, or to a place of the same kind, and leaves
\* stacks, flags, segments, tables and controllers alone.
LEMMA CpuMoves ==
  ASSUME CpuInv, UNCHANGED <<world, ring, if_flag, cs, ss, stack, pic, remap, tables, stacks>>,
         pc # "user", pc' # "user", pc \notin BeforeGdt, pc' \notin BeforeGdt,
         after' \in {"pci_init", "shell", "process_exec", "leave_syscall"},
         \/ /\ Where \in BootLate \cup {"shell", "process_exec", "jump_usermode"}
            /\ Where' \in BootLate \cup {"shell", "process_exec", "jump_usermode"}
         \/ Where \in OnKStack /\ Where' \in OnKStack
  PROVE  CpuInv'
<1>1. PlacesOK'
  BY DEF CpuInv, PlacesOK, Places, OnLoader
<1>2. StacksOK'
  BY DEF CpuInv, StacksOK, OnLoader, OnUser, OnKStack, BootLate, stacks, BeforeStar, BeforeIdt, BeforeGdt
<1>3. FlagsOK'
  BY DEF CpuInv, FlagsOK, OnLoader, OnKStack, BootLate, BeforeStar, BeforeIdt, BeforeGdt, Halts
<1>4. TablesOK' /\ SegmentsOK'
  BY DEF CpuInv, TablesOK, SegmentsOK, OnKStack, BootLate, BeforeStar, BeforeIdt, BeforeGdt
<1>5. PicOK'
  BY DEF CpuInv, PicOK, OnKStack, BootLate, BeforeStar, BeforeIdt, BeforeGdt
<1> QED BY <1>1, <1>2, <1>3, <1>4, <1>5 DEF CpuInv

\* The steps of _start.
LEMMA CpuBoot == ASSUME CpuInv, BootStep PROVE CpuInv'
<1>1. pc \in BeforeStar \cup {"pic_remap"} \cup BootLate
  <2>1. PICK i \in 1..15 : pc = BootOrder[i] /\ pc # "shell"
    BY DEF BootStep, BootOrder, Range
  <2> QED BY <2>1 DEF BootOrder, BeforeStar, BeforeIdt, BeforeGdt, BootLate
<1>2. /\ pc' = IF pc = "fat16_init" THEN "ata" ELSE Following(pc)
      /\ UNCHANGED <<world, ring, stack, pic, remap, current_kernel_stack, current_user_rsp,
                     kernel_saved_rsp, key, num>>
  BY DEF BootStep
<1>3. Where = pc
  BY <1>1 DEF Where, BeforeStar, BeforeIdt, BeforeGdt, BootLate
<1>4. CASE pc \in {"serial_init", "vga_init", "fpu_init"}
  <2>1. /\ UNCHANGED <<if_flag, cs, ss, tables, tss_rsp0, memory>>
        /\ \/ pc = "serial_init" /\ pc' = "vga_init"
           \/ pc = "vga_init" /\ pc' = "gdt_init"
           \/ pc = "fpu_init" /\ pc' = "syscall_init"
    BY <1>2, <1>4, BootSteps DEF BootStep
  <2>2. Where' = pc' /\ after' = after
    BY <2>1 DEF Where, memory
  <2>3. PlacesOK' /\ StacksOK'
    BY <1>2, <1>3, <2>1, <2>2 DEF CpuInv, PlacesOK, StacksOK, Places, OnLoader, OnUser, OnKStack,
       BeforeStar, BeforeIdt, BeforeGdt
  <2>4. FlagsOK'
    BY <1>2, <1>3, <2>1, <2>2 DEF CpuInv, FlagsOK, OnLoader, BeforeStar, BeforeIdt, BeforeGdt, Halts
  <2>5. TablesOK' /\ SegmentsOK'
    BY <1>2, <1>3, <2>1, <2>2 DEF CpuInv, TablesOK, SegmentsOK, BeforeStar, BeforeIdt, BeforeGdt
  <2>6. PicOK'
    BY <1>2, <1>3, <2>1, <2>2 DEF CpuInv, PicOK, BeforeStar, BeforeIdt, BeforeGdt
  <2> QED BY <1>2, <2>3, <2>4, <2>5, <2>6 DEF CpuInv
<1>5. CASE pc = "gdt_init"
  <2>1. gdt_init /\ UNCHANGED <<if_flag, memory>> /\ pc' = "idt_init"
    BY <1>2, <1>5, BootSteps DEF BootStep, Elsewhere
  <2>2. Where' = pc' /\ after' = after
    BY <2>1 DEF Where, memory
  <2>3. PlacesOK' /\ StacksOK'
    BY <1>2, <1>3, <1>5, <2>1, <2>2 DEF CpuInv, PlacesOK, StacksOK, Places, OnLoader, OnUser, OnKStack,
       BeforeStar, BeforeIdt, BeforeGdt
  <2>4. FlagsOK'
    BY <1>2, <1>3, <1>5, <2>1, <2>2 DEF CpuInv, FlagsOK, OnLoader, BeforeStar, BeforeIdt, BeforeGdt, Halts
  <2>5. TablesOK' /\ SegmentsOK'
    <3>1. tables' = [tables EXCEPT !.gdt = Gdt] /\ cs' = 8 /\ ss' = 16
      BY <2>1 DEF gdt_init, Gdt
    <3>2. /\ tables' \in [gdt : {<<>>, Gdt}, idt : {"limine", "kernel"}, star : {NoStar, Star}, fmask : {{}, {"IF"}}]
          /\ tables'.gdt = Gdt
      <4> HIDE DEF Gdt, NoStar, Star
      <4> QED BY <3>1 DEF CpuInv, TablesOK
    <3> QED BY <2>1, <2>2, <3>1, <3>2 DEF TablesOK, SegmentsOK, BeforeStar, BeforeIdt, BeforeGdt
  <2>6. PicOK'
    BY <1>2, <1>3, <1>5, <2>1, <2>2 DEF CpuInv, PicOK, BeforeStar, BeforeIdt, BeforeGdt
  <2> QED BY <1>2, <2>3, <2>4, <2>5, <2>6 DEF CpuInv
<1>6. CASE pc = "idt_init"
  <2>1. idt_init /\ UNCHANGED <<cs, ss, tss_rsp0, memory>> /\ pc' = "fpu_init"
    BY <1>2, <1>6, BootSteps DEF BootStep, Elsewhere
  <2>2. Where' = pc' /\ after' = after
    BY <2>1 DEF Where, memory
  <2>3. PlacesOK' /\ StacksOK'
    BY <1>2, <1>3, <1>6, <2>1, <2>2 DEF CpuInv, PlacesOK, StacksOK, Places, OnLoader, OnUser, OnKStack,
       BeforeStar, BeforeIdt, BeforeGdt
  <2>4. FlagsOK'
    BY <2>1, <2>2 DEF idt_init, FlagsOK, OnLoader, BeforeStar, BeforeIdt, BeforeGdt, Halts
  <2>5. TablesOK' /\ SegmentsOK'
    <3>1. tables' = [tables EXCEPT !.idt = "kernel"] /\ tables.gdt = Gdt
      BY <1>6, <2>1 DEF idt_init, CpuInv, TablesOK, BeforeGdt
    <3>2. /\ tables' \in [gdt : {<<>>, Gdt}, idt : {"limine", "kernel"}, star : {NoStar, Star}, fmask : {{}, {"IF"}}]
          /\ tables'.gdt = Gdt
      <4> HIDE DEF Gdt, NoStar, Star
      <4> QED BY <3>1 DEF CpuInv, TablesOK
    <3>3. cs = 8 /\ ss \in {0, 16}
      BY <1>6 DEF CpuInv, SegmentsOK, BeforeGdt
    <3> QED BY <2>1, <2>2, <3>2, <3>3 DEF TablesOK, SegmentsOK, BeforeStar, BeforeIdt, BeforeGdt
  <2>6. PicOK'
    BY <1>2, <1>3, <1>6, <2>1, <2>2 DEF CpuInv, PicOK, BeforeStar, BeforeIdt, BeforeGdt
  <2> QED BY <1>2, <2>3, <2>4, <2>5, <2>6 DEF CpuInv
<1>7. CASE pc = "syscall_init"
  <2>1. syscall_init /\ UNCHANGED <<if_flag, cs, ss, tss_rsp0, memory>> /\ pc' = "pic_remap"
    BY <1>2, <1>7, BootSteps DEF BootStep, Elsewhere
  <2>2. Where' = pc' /\ after' = after
    BY <2>1 DEF Where, memory
  <2>3. PlacesOK' /\ StacksOK'
    BY <1>2, <1>3, <1>7, <2>1, <2>2 DEF CpuInv, PlacesOK, StacksOK, Places, OnLoader, OnUser, OnKStack,
       BeforeStar, BeforeIdt, BeforeGdt
  <2>4. FlagsOK'
    BY <1>2, <1>3, <1>7, <2>1, <2>2 DEF CpuInv, FlagsOK, OnLoader, BeforeStar, BeforeIdt, BeforeGdt, Halts
  <2>5. TablesOK' /\ SegmentsOK'
    <3>1. tables' = [tables EXCEPT !.star = Star, !.fmask = {"IF"}] /\ tables.gdt = Gdt
      BY <1>7, <2>1 DEF syscall_init, CpuInv, TablesOK, BeforeGdt, Star
    <3>2. /\ tables' \in [gdt : {<<>>, Gdt}, idt : {"limine", "kernel"}, star : {NoStar, Star}, fmask : {{}, {"IF"}}]
          /\ tables'.gdt = Gdt /\ tables'.star = Star /\ tables'.fmask = {"IF"}
      <4> HIDE DEF Gdt, NoStar, Star
      <4> QED BY <3>1 DEF CpuInv, TablesOK
    <3>3. cs = 8 /\ ss \in {0, 16}
      BY <1>7 DEF CpuInv, SegmentsOK, BeforeGdt
    <3> QED BY <2>1, <2>2, <3>2, <3>3 DEF TablesOK, SegmentsOK, BeforeStar, BeforeIdt, BeforeGdt
  <2>6. PicOK'
    BY <1>2, <1>3, <1>7, <2>1, <2>2 DEF CpuInv, PicOK, BeforeStar, BeforeIdt, BeforeGdt
  <2> QED BY <1>2, <2>3, <2>4, <2>5, <2>6 DEF CpuInv
<1>8. CASE pc = "pic_remap"
  <2>1. remap = 10 /\ UNCHANGED <<if_flag, cs, ss, tables, tss_rsp0, memory>> /\ pc' = "pmm_init"
    <3>1. Len(RemapWrites) = 10
      BY DEF RemapWrites
    <3> QED BY <1>2, <1>8, <3>1, BootSteps DEF BootStep, Elsewhere
  <2>2. Where' = pc' /\ after' = after
    BY <2>1 DEF Where, memory
  <2>3. PlacesOK' /\ StacksOK'
    BY <1>2, <1>3, <1>8, <2>1, <2>2 DEF CpuInv, PlacesOK, StacksOK, Places, OnLoader, OnUser, OnKStack,
       BeforeStar, BeforeIdt, BeforeGdt, BootLate
  <2>4. FlagsOK'
    BY <1>2, <1>3, <1>8, <2>1, <2>2 DEF CpuInv, FlagsOK, OnLoader, BeforeStar, BeforeIdt, BeforeGdt, Halts, BootLate
  <2>5. TablesOK' /\ SegmentsOK'
    BY <1>2, <1>3, <1>8, <2>1, <2>2 DEF CpuInv, TablesOK, SegmentsOK, BeforeStar, BeforeIdt, BeforeGdt
  <2>6. PicOK'
    BY <1>2, <1>3, <1>8, <2>1, <2>2 DEF CpuInv, PicOK, BeforeStar, BeforeIdt, BeforeGdt
  <2> QED BY <1>2, <2>3, <2>4, <2>5, <2>6 DEF CpuInv
<1>9. CASE pc \in BootLate
  <2>1. UNCHANGED <<if_flag, cs, ss, tables, tss_rsp0>>
    BY <1>9 DEF BootStep, BootLate
  <2>2. pc' \in BootLate \cup {"shell", "ata"}
    BY <1>2, <1>9, BootSteps DEF BootLate
  <2>3. pc' = "ata" => after' = "pci_init"
    <3>1. pc' = "ata" => pc = "fat16_init"
      BY <1>2, <1>9, BootSteps DEF BootLate
    <3> QED BY <3>1 DEF BootStep, Elsewhere
  <2>4. Where' \in BootLate \cup {"shell"}
    BY <2>2, <2>3 DEF Where, BootLate
  <2>5. after' \in {"pci_init", "shell", "process_exec", "leave_syscall"}
    <3>1. after' = after \/ after' = "pci_init"
      BY DEF BootStep, memory
    <3> QED BY <3>1 DEF CpuInv, PlacesOK
  <2>6. pc # "user" /\ pc' # "user" /\ pc \notin BeforeGdt /\ pc' \notin BeforeGdt
    BY <1>9, <2>2 DEF BootLate, BeforeGdt
  <2> QED BY <1>2, <1>3, <1>9, <2>1, <2>4, <2>5, <2>6, CpuMoves DEF stacks
<1> QED BY <1>1, <1>4, <1>5, <1>6, <1>7, <1>8, <1>9 DEF BeforeStar, BeforeIdt, BeforeGdt

\* The ten writes of pic_remap.
LEMMA WritesOfRemap ==
  /\ Len(RemapWrites) = 10
  /\ \A k \in 1..10 :
       /\ RemapWrites[k].chip = IF k \in {1, 3, 5, 7, 9} THEN "master" ELSE "slave"
       /\ RemapWrites[k].icw1 <=> k \in {1, 2}
       /\ RemapWrites[k].value \in Nat
  /\ RemapWrites[3].value = 32 /\ RemapWrites[9].value = 253
<1>1. /\ RemapWrites[1].chip = "master" /\ RemapWrites[1].icw1 /\ RemapWrites[1].value = 17
      /\ RemapWrites[2].chip = "slave" /\ RemapWrites[2].icw1 /\ RemapWrites[2].value = 17
      /\ RemapWrites[3].chip = "master" /\ ~RemapWrites[3].icw1 /\ RemapWrites[3].value = 32
      /\ RemapWrites[4].chip = "slave" /\ ~RemapWrites[4].icw1 /\ RemapWrites[4].value = 40
      /\ RemapWrites[5].chip = "master" /\ ~RemapWrites[5].icw1 /\ RemapWrites[5].value = 4
  BY DEF RemapWrites
<1>2. /\ RemapWrites[6].chip = "slave" /\ ~RemapWrites[6].icw1 /\ RemapWrites[6].value = 2
      /\ RemapWrites[7].chip = "master" /\ ~RemapWrites[7].icw1 /\ RemapWrites[7].value = 1
      /\ RemapWrites[8].chip = "slave" /\ ~RemapWrites[8].icw1 /\ RemapWrites[8].value = 1
      /\ RemapWrites[9].chip = "master" /\ ~RemapWrites[9].icw1 /\ RemapWrites[9].value = 253
      /\ RemapWrites[10].chip = "slave" /\ ~RemapWrites[10].icw1 /\ RemapWrites[10].value = 255
  BY DEF RemapWrites, MasterMask, SlaveMask
<1>3. Len(RemapWrites) = 10
  BY DEF RemapWrites
<1>4. \A k \in 1..10 : k = 1 \/ k = 2 \/ k = 3 \/ k = 4 \/ k = 5 \/ k = 6 \/ k = 7 \/ k = 8 \/ k = 9 \/ k = 10
  OBVIOUS
<1>5. \A k \in 1..10 : RemapWrites[k].chip = IF k \in {1, 3, 5, 7, 9} THEN "master" ELSE "slave"
  BY <1>1, <1>2, <1>4
<1>6. \A k \in 1..10 : RemapWrites[k].icw1 <=> k \in {1, 2}
  BY <1>1, <1>2, <1>4
<1>7. \A k \in 1..10 : RemapWrites[k].value \in Nat
  BY <1>1, <1>2, <1>4
<1> QED BY <1>1, <1>2, <1>3, <1>5, <1>6, <1>7

\* The mask of pic_remap leaves the keyboard's line open and no other of the
\* first controller.
LEMMA MasterLines == \A n \in 0..7 : n \in Bits("master", 253) <=> n # Kbd
<1>1. \A n \in 0..7 : n \in Bits("master", 253) <=> (253 \div BitWeight[(n % 8) + 1]) % 2 = 1
  BY DEF Bits, Lines
<1>2. \A n \in 0..7 : (n % 8) + 1 = n + 1
  OBVIOUS
<1>3. /\ BitWeight[1] = 1 /\ BitWeight[2] = 2 /\ BitWeight[3] = 4 /\ BitWeight[4] = 8
      /\ BitWeight[5] = 16 /\ BitWeight[6] = 32 /\ BitWeight[7] = 64 /\ BitWeight[8] = 128
  BY DEF BitWeight
<1>4. /\ (253 \div 1) % 2 = 1 /\ (253 \div 2) % 2 = 0 /\ (253 \div 4) % 2 = 1 /\ (253 \div 8) % 2 = 1
      /\ (253 \div 16) % 2 = 1 /\ (253 \div 32) % 2 = 1 /\ (253 \div 64) % 2 = 1 /\ (253 \div 128) % 2 = 1
  OBVIOUS
<1>5. \A n \in 0..7 : (253 \div BitWeight[n + 1]) % 2 = 1 <=> n # 1
  BY <1>3, <1>4
<1> QED BY <1>1, <1>2, <1>5 DEF Kbd

PicType ==
  [icw : [{"master", "slave"} -> 0..3], base : [{"master", "slave"} -> Nat],
   imr : SUBSET (0..15), irr : SUBSET (0..15), isr : SUBSET (0..15)]

\* One write to a controller, in pic_remap.
LEMMA CpuRemap == ASSUME CpuInv, pic_remap, UNCHANGED <<world, memory>> PROVE CpuInv'
<1> DEFINE w == RemapWrites[remap + 1]
           ch == w.chip
<1>1. /\ pc = "pic_remap" /\ remap \in 0..9 /\ pic' = outb(w) /\ remap' = remap + 1
      /\ UNCHANGED <<cpu, tables, stacks, key, num>>
  BY WritesOfRemap DEF pic_remap, CpuInv, PicOK
<1>2. /\ ch = IF remap \in {0, 2, 4, 6, 8} THEN "master" ELSE "slave"
      /\ (w.icw1 <=> remap \in {0, 1}) /\ w.value \in Nat
      /\ remap = 2 => w.value = 32
      /\ remap = 8 => w.value = 253
  BY <1>1, WritesOfRemap
<1> HIDE DEF w
<1>3. /\ pic \in PicType /\ pic.icw["master"] = Icw(remap)
      /\ pic.icw["slave"] = IF remap = 0 THEN 0 ELSE Icw(remap - 1)
  BY DEF CpuInv, PicOK, PicType
<1>4. /\ remap \in {2, 3} => pic.icw[ch] = 1
      /\ remap \in {4, 5} => pic.icw[ch] = 2
      /\ remap \in {6, 7} => pic.icw[ch] = 3
      /\ remap \in {8, 9} => pic.icw[ch] = 0
  BY <1>1, <1>2, <1>3 DEF Icw
<1>5. ch \in {"master", "slave"} /\ Lines("master") = 0..7 /\ Lines("slave") = 8..15
  BY <1>2 DEF Lines
<1>6. Where = "pic_remap" /\ Where' = "pic_remap" /\ pc' = pc /\ after' = after
  BY <1>1 DEF Where, cpu, memory
<1>7. PlacesOK' /\ StacksOK' /\ FlagsOK' /\ TablesOK' /\ SegmentsOK'
  BY <1>1, <1>6 DEF CpuInv, PlacesOK, StacksOK, FlagsOK, TablesOK, SegmentsOK, cpu, stacks
<1>8. PicOK'
  <2>1. CASE remap \in {0, 1}
    <3>1. pic' = [pic EXCEPT !.icw[ch] = 1, !.imr = @ \ Lines(ch), !.irr = @ \ Lines(ch), !.isr = @ \ Lines(ch)]
      BY <1>1, <1>2, <2>1 DEF outb
    <3>2. pic' \in PicType /\ pic'.icw[ch] = 1 /\ \A o \in {"master", "slave"} : o # ch => pic'.icw[o] = pic.icw[o]
      <4>1. /\ pic'.icw = [pic.icw EXCEPT ![ch] = 1] /\ pic'.base = pic.base
            /\ pic'.imr = pic.imr \ Lines(ch) /\ pic'.irr = pic.irr \ Lines(ch) /\ pic'.isr = pic.isr \ Lines(ch)
        BY <1>3, <3>1 DEF PicType
      <4>2. pic'.icw \in [{"master", "slave"} -> 0..3]
        BY <1>3, <1>5, <4>1 DEF PicType
      <4> QED BY <1>3, <1>5, <3>1, <4>1, <4>2 DEF PicType
    <3> QED BY <1>1, <1>2, <1>3, <1>6, <2>1, <3>2 DEF PicOK, PicType, Icw, BeforeStar, BeforeIdt, BeforeGdt
  <2>2. CASE remap \in {2, 3}
    <3>1. pic' = [pic EXCEPT !.icw[ch] = 2, !.base[ch] = w.value]
      BY <1>1, <1>2, <1>4, <2>2 DEF outb
    <3>2. /\ pic' \in PicType /\ pic'.icw[ch] = 2 /\ pic'.base[ch] = w.value
          /\ \A o \in {"master", "slave"} : o # ch => pic'.icw[o] = pic.icw[o] /\ pic'.base[o] = pic.base[o]
      <4>1. pic'.icw = [pic.icw EXCEPT ![ch] = 2] /\ pic'.base = [pic.base EXCEPT ![ch] = w.value]
        BY <1>3, <3>1 DEF PicType
      <4>2. pic'.icw \in [{"master", "slave"} -> 0..3] /\ pic'.base \in [{"master", "slave"} -> Nat]
        BY <1>2, <1>3, <1>5, <4>1 DEF PicType
      <4> QED BY <1>2, <1>3, <1>5, <3>1, <4>1, <4>2 DEF PicType
    <3>3. remap = 3 => pic.base["master"] = 32
      BY DEF CpuInv, PicOK
    <3>4. pic'.base["master"] = 32
      BY <1>2, <2>2, <3>2, <3>3
    <3> QED BY <1>1, <1>2, <1>3, <1>6, <2>2, <3>2, <3>4 DEF PicOK, PicType, Icw, BeforeStar, BeforeIdt, BeforeGdt
  <2>3. CASE remap \in {4, 5, 6, 7}
    <3>1. pic' = [pic EXCEPT !.icw[ch] = (@ + 1) % 4]
      BY <1>1, <1>2, <1>4, <2>3 DEF outb
    <3>2. /\ pic' \in PicType /\ pic'.icw[ch] = (pic.icw[ch] + 1) % 4 /\ pic'.base = pic.base
          /\ \A o \in {"master", "slave"} : o # ch => pic'.icw[o] = pic.icw[o]
      BY <1>2, <1>3, <1>5, <3>1 DEF PicType
    <3>3. pic'.icw[ch] = IF remap \in {4, 5} THEN 3 ELSE 0
      BY <1>4, <2>3, <3>2
    <3>4. pic.base["master"] = 32
      BY <2>3 DEF CpuInv, PicOK
    <3> QED BY <1>1, <1>2, <1>3, <1>6, <2>3, <3>2, <3>3, <3>4 DEF PicOK, PicType, Icw, BeforeStar, BeforeIdt, BeforeGdt
  <2>4. CASE remap \in {8, 9}
    <3>1. pic' = [pic EXCEPT !.imr = (@ \ Lines(ch)) \cup Bits(ch, w.value)]
      BY <1>1, <1>2, <1>4, <2>4 DEF outb
    <3>2. Bits(ch, w.value) \subseteq Lines(ch)
      BY DEF Bits
    <3>3. /\ pic' \in PicType /\ pic'.icw = pic.icw /\ pic'.base = pic.base
          /\ pic'.imr = (pic.imr \ Lines(ch)) \cup Bits(ch, w.value)
      BY <1>3, <1>5, <3>1, <3>2 DEF PicType
    <3>4. pic.base["master"] = 32 /\ (remap = 9 => \A n \in 0..7 : n \in pic.imr <=> n # Kbd)
      BY <2>4 DEF CpuInv, PicOK
    <3>5. \A n \in 0..7 : n \in pic'.imr <=> n # Kbd
      <4>1. CASE remap = 8
        BY <1>2, <1>5, <3>3, <4>1, MasterLines
      <4>2. CASE remap = 9
        BY <1>2, <1>5, <3>2, <3>3, <3>4, <4>2
      <4> QED BY <2>4, <4>1, <4>2
    <3> QED BY <1>1, <1>2, <1>3, <1>6, <2>4, <3>3, <3>4, <3>5 DEF PicOK, PicType, Icw, BeforeStar, BeforeIdt, BeforeGdt
  <2> QED BY <1>1, <2>1, <2>2, <2>3, <2>4
<1> QED BY <1>7, <1>8 DEF CpuInv

\* Requests and service of interrupts change nothing that pic_remap has set.
LEMMA PicRequests ==
  ASSUME CpuInv, pic' \in PicType, remap' = remap,
         pic'.icw = pic.icw, pic'.base = pic.base, pic'.imr = pic.imr,
         Where' \in BeforeStar => remap = 0,
         Where' \notin BeforeStar \cup {"pic_remap", "panic"} => remap = 10
  PROVE  PicOK'
BY DEF CpuInv, PicOK, PicType

\* A device raises its line.
LEMMA CpuRaise ==
  ASSUME CpuInv, NEW n \in world.devices, Raise(n), UNCHANGED <<world, memory>>
  PROVE  CpuInv'
<1>1. n \in 0..15
  BY MachineAssumption DEF CpuInv, Irqs, Timer, Kbd, Disk
<1>2. pic' = [pic EXCEPT !.irr = @ \cup {n}] /\ UNCHANGED <<cpu, remap, tables, stacks, key, num>>
  BY DEF Raise
<1>3. Where' = Where /\ pc' = pc /\ after' = after
  BY <1>2 DEF Where, cpu, memory
<1>4. PlacesOK' /\ StacksOK' /\ FlagsOK' /\ TablesOK' /\ SegmentsOK'
  BY <1>2, <1>3 DEF CpuInv, PlacesOK, StacksOK, FlagsOK, TablesOK, SegmentsOK, cpu, stacks
<1>5. PicOK'
  <2>1. pic \in PicType /\ pic' = [pic EXCEPT !.irr = pic.irr \cup {n}, !.isr = pic.isr]
    BY <1>2 DEF CpuInv, PicOK, PicType
  <2>2. pic' \in PicType /\ pic'.icw = pic.icw /\ pic'.base = pic.base /\ pic'.imr = pic.imr
    BY <1>1, <2>1 DEF PicType
  <2>3. /\ Where' \in BeforeStar => remap = 0
        /\ Where' \notin BeforeStar \cup {"pic_remap", "panic"} => remap = 10
    BY <1>3 DEF CpuInv, PicOK
  <2> QED BY <1>2, <2>2, <2>3, PicRequests
<1> QED BY <1>4, <1>5 DEF CpuInv

\* The exception handler: a program gives way to the shell, the kernel stops.
LEMMA CpuException ==
  ASSUME CpuInv, exception_handler, if_flag, PicOK', UNCHANGED <<world, memory, tables, stacks>>
  PROVE  CpuInv'
<1>1. after' = after
  BY DEF memory
<1>2. CASE pc = "user"
  <2>1. /\ cs' = 8 /\ ring' = 0 /\ ss' = 0 /\ stack' = kernel_saved_rsp /\ if_flag' = TRUE /\ pc' = "shell"
        /\ Where = "user" /\ Where' = "shell"
    BY <1>2 DEF exception_handler, asm_return_to_kernel, CpuInv, PlacesOK, Where
  <2>2. kernel_saved_rsp = Loader /\ tables.star = Star /\ tables.fmask = {"IF"} /\ tables.gdt = Gdt
    BY <1>2, <2>1 DEF CpuInv, StacksOK, TablesOK, OnUser, BeforeStar, BeforeIdt, BeforeGdt
  <2>3. PlacesOK' /\ StacksOK' /\ FlagsOK'
    BY <1>1, <2>1, <2>2 DEF CpuInv, PlacesOK, StacksOK, FlagsOK, Places, OnLoader, OnUser, OnKStack,
       BeforeStar, BeforeIdt, BeforeGdt, Halts
  <2>4. TablesOK' /\ SegmentsOK'
    BY <2>1, <2>2 DEF CpuInv, TablesOK, SegmentsOK, BeforeGdt
  <2> QED BY <2>3, <2>4 DEF CpuInv
<1>3. CASE pc # "user"
  <2>1. /\ cs' = 8 /\ ring' = 0 /\ ss' = ss /\ stack' = stack /\ if_flag' = FALSE /\ pc' = "panic"
        /\ Where' = "panic"
    BY <1>3 DEF exception_handler, CpuInv, PlacesOK, Where
  <2>2. Where \notin BeforeIdt /\ pc \notin BeforeGdt
    BY DEF CpuInv, FlagsOK, Where, BeforeIdt, BeforeGdt
  <2>3. PlacesOK' /\ StacksOK' /\ FlagsOK'
    BY <1>1, <2>1 DEF CpuInv, PlacesOK, StacksOK, FlagsOK, Places, OnLoader, OnUser, OnKStack,
       BeforeStar, BeforeIdt, BeforeGdt, BootLate, Halts
  <2>4. TablesOK' /\ SegmentsOK'
    BY <1>3, <2>1, <2>2 DEF CpuInv, TablesOK, SegmentsOK, BeforeGdt
  <2> QED BY <2>3, <2>4 DEF CpuInv
<1> QED BY <1>2, <1>3

\* An interrupt is taken.
LEMMA CpuInterrupt == ASSUME CpuInv, TakeInterrupt, UNCHANGED <<world, memory>> PROVE CpuInv'
<1>1. if_flag /\ UNCHANGED <<remap, tables, stacks>>
  BY DEF TakeInterrupt
<1>2. PICK n \in Requests :
        \/ keyboard_handler(n) /\ UNCHANGED <<cpu, num>>
        \/ pic' = [pic EXCEPT !.irr = @ \ {n}, !.isr = @ \cup {n}] /\ exception_handler
  BY Zenon DEF TakeInterrupt
<1>3. pic \in PicType /\ n \in 0..15
  BY DEF CpuInv, PicOK, PicType, Requests
<1>4. CASE keyboard_handler(n) /\ UNCHANGED <<cpu, num>>
  <2>1. Where' = Where /\ pc' = pc /\ after' = after
    BY <1>4 DEF Where, cpu, memory
  <2>2. PlacesOK' /\ StacksOK' /\ FlagsOK' /\ TablesOK' /\ SegmentsOK'
    BY <1>1, <1>4, <2>1 DEF CpuInv, PlacesOK, StacksOK, FlagsOK, TablesOK, SegmentsOK, cpu, stacks
  <2>3. pic' = [pic EXCEPT !.irr = pic.irr \ {n}, !.isr = pic.isr]
    BY <1>3, <1>4 DEF keyboard_handler, PicType
  <2>4. pic' \in PicType /\ pic'.icw = pic.icw /\ pic'.base = pic.base /\ pic'.imr = pic.imr
    BY <1>3, <2>3 DEF PicType
  <2>5. /\ Where' \in BeforeStar => remap = 0
        /\ Where' \notin BeforeStar \cup {"pic_remap", "panic"} => remap = 10
    BY <2>1 DEF CpuInv, PicOK
  <2>6. PicOK'
    BY <1>1, <2>4, <2>5, PicRequests
  <2> QED BY <2>2, <2>6 DEF CpuInv
<1>5. CASE pic' = [pic EXCEPT !.irr = @ \ {n}, !.isr = @ \cup {n}] /\ exception_handler
  <2>1. pic' = [pic EXCEPT !.irr = pic.irr \ {n}, !.isr = pic.isr \cup {n}]
    BY <1>5
  <2>2. pic' \in PicType /\ pic'.icw = pic.icw /\ pic'.base = pic.base /\ pic'.imr = pic.imr
    BY <1>3, <2>1 DEF PicType
  <2>3. Where' \in {"shell", "panic"} /\ (Where' = "shell" => Where = "user")
    BY <1>5 DEF exception_handler, asm_return_to_kernel, CpuInv, PlacesOK, Where
  <2>4. /\ Where' \in BeforeStar => remap = 0
        /\ Where' \notin BeforeStar \cup {"pic_remap", "panic"} => remap = 10
    BY <2>3 DEF CpuInv, PicOK, BeforeStar, BeforeIdt, BeforeGdt
  <2>5. PicOK'
    BY <1>1, <2>2, <2>4, PicRequests
  <2> QED BY <1>1, <1>5, <2>5, CpuException
<1> QED BY <1>2, <1>4, <1>5

\* A fault of the program.
LEMMA CpuFault == ASSUME CpuInv, Exception, UNCHANGED <<world, memory>> PROVE CpuInv'
<1>1. /\ pc = "user" /\ exception_handler /\ UNCHANGED <<pic, remap, tables, stacks, key>>
      /\ if_flag /\ Where = "user" /\ Where' = "shell"
  BY DEF Exception, exception_handler, asm_return_to_kernel, CpuInv, FlagsOK, PlacesOK, Where
<1>2. PicOK'
  BY <1>1 DEF CpuInv, PicOK, BeforeStar, BeforeIdt, BeforeGdt
<1> QED BY <1>1, <1>2, CpuException

\* Into a program and back: the switches of ring and stack.
LEMMA CpuSwitches ==
  ASSUME CpuInv, UNCHANGED <<world, memory>>,
         \/ jump_usermode \/ SysRet \/ (\E name \in DOMAIN Calls : Syscall(name))
         \/ syscall_entry \/ LeaveSyscall
  PROVE  CpuInv'
<1>1. after' = after
  BY DEF memory
<1>2. CASE jump_usermode
  <2>1. /\ pc = "jump_usermode" /\ tss_rsp0' = KStack /\ current_kernel_stack' = KStack
        /\ kernel_saved_rsp' = stack /\ stack' = User /\ pc' = "sysret"
        /\ UNCHANGED <<ring, if_flag, cs, ss, pic, remap, tables, current_user_rsp>>
        /\ Where = "jump_usermode" /\ Where' = "sysret"
    BY <1>2 DEF jump_usermode, Where
  <2>2. PlacesOK' /\ StacksOK' /\ FlagsOK'
    BY <1>1, <2>1 DEF CpuInv, PlacesOK, StacksOK, FlagsOK, Places, OnLoader, OnUser, OnKStack,
       BeforeStar, BeforeIdt, BeforeGdt, BootLate, Halts
  <2>3. TablesOK' /\ SegmentsOK' /\ PicOK'
    BY <2>1 DEF CpuInv, TablesOK, SegmentsOK, PicOK, BeforeStar, BeforeIdt, BeforeGdt
  <2> QED BY <2>2, <2>3 DEF CpuInv
<1>3. CASE SysRet
  <2>1. /\ pc = "sysret" /\ ring' = 3 /\ if_flag' = TRUE /\ pc' = "user"
        /\ cs' = tables.star.user + 16 /\ ss' = tables.star.user + 8
        /\ UNCHANGED <<stack, pic, remap, tables, stacks>>
        /\ Where = "sysret" /\ Where' = "user"
    BY <1>3 DEF SysRet, Where
  <2>2. PlacesOK' /\ StacksOK' /\ FlagsOK'
    BY <1>1, <2>1 DEF CpuInv, PlacesOK, StacksOK, FlagsOK, Places, OnLoader, OnUser, OnKStack,
       BeforeStar, BeforeIdt, BeforeGdt, BootLate, Halts, stacks
  <2>3. TablesOK' /\ PicOK'
    BY <2>1 DEF CpuInv, TablesOK, PicOK, BeforeStar, BeforeIdt, BeforeGdt
  <2>4. SegmentsOK'
    <3>1. tables.star = Star
      BY <2>1 DEF CpuInv, TablesOK, BeforeStar, BeforeIdt, BeforeGdt
    <3>2. tables.star.user = 16
      BY <3>1 DEF Star
    <3> QED BY <2>1, <3>2 DEF SegmentsOK
  <2> QED BY <2>2, <2>3, <2>4 DEF CpuInv
<1>4. CASE \E name \in DOMAIN Calls : Syscall(name)
  <2>1. /\ pc = "user" /\ ring' = 0 /\ if_flag' = (if_flag /\ "IF" \notin tables.fmask) /\ pc' = "syscall_entry"
        /\ cs' = tables.star.kernel /\ ss' = tables.star.kernel + 8
        /\ UNCHANGED <<stack, pic, remap, tables, stacks>>
        /\ Where = "user" /\ Where' = "syscall_entry"
    BY <1>4 DEF Syscall, Where
  <2>2. tables.star = Star /\ tables.fmask = {"IF"}
    BY <2>1 DEF CpuInv, TablesOK, BeforeStar, BeforeIdt, BeforeGdt
  <2>3. ~if_flag' /\ if_flag' \in BOOLEAN
    BY <2>1, <2>2
  <2>4. PlacesOK' /\ StacksOK'
    BY <1>1, <2>1 DEF CpuInv, PlacesOK, StacksOK, Places, OnLoader, OnUser, OnKStack,
       BeforeStar, BeforeIdt, BeforeGdt, BootLate, Halts, stacks
  <2>5. FlagsOK'
    BY <2>1, <2>3 DEF FlagsOK, OnLoader, BeforeStar, BeforeIdt, BeforeGdt, BootLate, Halts
  <2>6. TablesOK' /\ PicOK'
    BY <2>1 DEF CpuInv, TablesOK, PicOK, BeforeStar, BeforeIdt, BeforeGdt
  <2>7. SegmentsOK'
    <3>1. tables.star.kernel = 8
      BY <2>2 DEF Star
    <3> QED BY <2>1, <3>1 DEF SegmentsOK
  <2> QED BY <2>4, <2>5, <2>6, <2>7 DEF CpuInv
<1>5. CASE syscall_entry
  <2>1. /\ pc = "syscall_entry" /\ current_user_rsp' = stack /\ stack' = current_kernel_stack
        /\ pc' = "syscall_handler_c"
        /\ UNCHANGED <<ring, if_flag, cs, ss, pic, remap, tables, tss_rsp0, current_kernel_stack, kernel_saved_rsp>>
        /\ Where = "syscall_entry" /\ Where' = "syscall_handler_c"
    BY <1>5 DEF syscall_entry, Where
  <2>2. PlacesOK' /\ StacksOK' /\ FlagsOK'
    BY <1>1, <2>1 DEF CpuInv, PlacesOK, StacksOK, FlagsOK, Places, OnLoader, OnUser, OnKStack,
       BeforeStar, BeforeIdt, BeforeGdt, BootLate, Halts
  <2>3. TablesOK' /\ SegmentsOK' /\ PicOK'
    BY <2>1 DEF CpuInv, TablesOK, SegmentsOK, PicOK, BeforeStar, BeforeIdt, BeforeGdt
  <2> QED BY <2>2, <2>3 DEF CpuInv
<1>6. CASE LeaveSyscall
  <2>1. /\ pc = "leave_syscall" /\ stack' = current_user_rsp /\ pc' = "sysret"
        /\ UNCHANGED <<ring, if_flag, cs, ss, pic, remap, tables, stacks>>
        /\ Where = "leave_syscall" /\ Where' = "sysret"
    BY <1>6 DEF LeaveSyscall, Where
  <2>2. PlacesOK' /\ StacksOK' /\ FlagsOK'
    BY <1>1, <2>1 DEF CpuInv, PlacesOK, StacksOK, FlagsOK, Places, OnLoader, OnUser, OnKStack,
       BeforeStar, BeforeIdt, BeforeGdt, BootLate, Halts, stacks
  <2>3. TablesOK' /\ SegmentsOK' /\ PicOK'
    BY <2>1 DEF CpuInv, TablesOK, SegmentsOK, PicOK, BeforeStar, BeforeIdt, BeforeGdt
  <2> QED BY <2>2, <2>3 DEF CpuInv
<1> QED BY <1>2, <1>3, <1>4, <1>5, <1>6

\* The calls a program makes: screen and keyboard, and the end of the program.
LEMMA CpuCalls ==
  ASSUME CpuInv, UNCHANGED <<world, memory>>,
         SyscallConsole \/ SyscallGetchar \/ Getchar \/ SyscallExit
  PROVE  CpuInv'
<1>1. after' = after /\ after \in {"pci_init", "shell", "process_exec", "leave_syscall"}
  BY DEF memory, CpuInv, PlacesOK
<1>2. CASE SyscallConsole \/ Getchar
  <2>1. /\ pc \in {"syscall_handler_c", "getchar"} /\ pc' = "leave_syscall"
        /\ UNCHANGED <<ring, if_flag, cs, ss, stack, pic, remap, tables, stacks>>
    BY <1>2 DEF SyscallConsole, Getchar
  <2>2. Where \in OnKStack /\ Where' \in OnKStack
    BY <2>1 DEF Where, OnKStack
  <2> QED BY <1>1, <2>1, <2>2, CpuMoves DEF BeforeGdt
<1>3. CASE SyscallGetchar
  <2>1. /\ pc = "syscall_handler_c" /\ pc' = "getchar" /\ if_flag' = TRUE
        /\ UNCHANGED <<ring, cs, ss, stack, pic, remap, tables, stacks>>
        /\ Where = "syscall_handler_c" /\ Where' = "getchar"
    BY <1>3 DEF SyscallGetchar, Where
  <2>2. PlacesOK' /\ StacksOK' /\ FlagsOK'
    BY <1>1, <2>1 DEF CpuInv, PlacesOK, StacksOK, FlagsOK, Places, OnLoader, OnUser, OnKStack,
       BeforeStar, BeforeIdt, BeforeGdt, BootLate, Halts, stacks
  <2>3. TablesOK' /\ SegmentsOK' /\ PicOK'
    BY <2>1 DEF CpuInv, TablesOK, SegmentsOK, PicOK, BeforeStar, BeforeIdt, BeforeGdt
  <2> QED BY <2>2, <2>3 DEF CpuInv
<1>4. CASE SyscallExit
  <2>1. /\ pc = "syscall_handler_c" /\ stack' = kernel_saved_rsp /\ if_flag' = TRUE /\ pc' = "shell"
        /\ UNCHANGED <<ring, cs, ss, pic, remap, tables, stacks>>
        /\ Where = "syscall_handler_c" /\ Where' = "shell"
    BY <1>4 DEF SyscallExit, asm_return_to_kernel, Where
  <2>2. PlacesOK' /\ StacksOK' /\ FlagsOK'
    BY <1>1, <2>1 DEF CpuInv, PlacesOK, StacksOK, FlagsOK, Places, OnLoader, OnUser, OnKStack,
       BeforeStar, BeforeIdt, BeforeGdt, BootLate, Halts, stacks
  <2>3. TablesOK' /\ SegmentsOK' /\ PicOK'
    BY <2>1 DEF CpuInv, TablesOK, SegmentsOK, PicOK, BeforeStar, BeforeIdt, BeforeGdt
  <2> QED BY <2>2, <2>3 DEF CpuInv
<1> QED BY <1>2, <1>3, <1>4

\* The file system and the disk driver: the processor stays where the call
\* came from.
LEMMA CpuFiles ==
  ASSUME CpuInv, Transfer \/ FsReturns \/ AtaReturns \/ process_exec \/ SyscallFile
  PROVE  CpuInv'
<1> DEFINE Kept == UNCHANGED <<world, ring, if_flag, cs, ss, stack, pic, remap, tables, stacks>>
           Fs == {"pci_init", "shell", "process_exec", "leave_syscall"}
<1>1. after \in Fs
  BY DEF CpuInv, PlacesOK
<1>2. CASE Transfer
  <2>1. Kept /\ pc = "fat16" /\ pc' = "ata" /\ after' = after
    BY <1>2 DEF Transfer, Goto, memory
  <2>2. Where = after /\ Where' = after
    BY <2>1 DEF Where
  <2> QED BY <1>1, <2>1, <2>2, CpuMoves DEF BootLate, OnKStack, BeforeGdt
<1>3. CASE FsReturns
  <2>1. Kept /\ pc = "fat16" /\ pc' = after /\ after' = after
    BY <1>3 DEF FsReturns, Goto, memory
  <2>2. Where = after /\ Where' = after
    BY <1>1, <2>1 DEF Where
  <2> QED BY <1>1, <2>1, <2>2, CpuMoves DEF BootLate, OnKStack, BeforeGdt
<1>4. CASE AtaReturns
  <2>1. Kept /\ pc = "ata" /\ after' = after /\ pc' = IF after = "pci_init" THEN "pci_init" ELSE "fat16"
    BY <1>4 DEF AtaReturns, Goto
  <2>2. Where = after /\ Where' = after
    BY <1>1, <2>1 DEF Where
  <2> QED BY <1>1, <2>1, <2>2, CpuMoves DEF BootLate, OnKStack, BeforeGdt
<1>5. CASE process_exec
  <2>1. Kept /\ pc = "process_exec" /\ after' = after /\ pc' \in {"jump_usermode", "shell"}
    BY <1>5 DEF process_exec, Goto
  <2>2. Where = pc /\ Where' = pc'
    BY <2>1 DEF Where
  <2> QED BY <1>1, <2>1, <2>2, CpuMoves DEF BootLate, OnKStack, BeforeGdt
<1>6. CASE SyscallFile
  <2>1. Kept /\ pc = "syscall_handler_c" /\ pc' = "fat16" /\ after' = "leave_syscall"
    BY <1>6 DEF SyscallFile, Goto
  <2>2. Where = pc /\ Where' = after'
    BY <2>1 DEF Where
  <2> QED BY <1>1, <2>1, <2>2, CpuMoves DEF BootLate, OnKStack, BeforeGdt
<1> QED BY <1>2, <1>3, <1>4, <1>5, <1>6

\* The shell's commands.
LEMMA CpuShell == ASSUME CpuInv, Shell PROVE CpuInv'
<1> DEFINE Kept == UNCHANGED <<world, ring, cs, ss, stack, pic, remap, tables, stacks>>
<1> DEFINE Stays == pc' = "shell" /\ if_flag' = if_flag /\ after' = after
           ToFiles == pc' = "fat16" /\ if_flag' = if_flag /\ after' \in {"shell", "process_exec"}
<1>0. Kept /\ pc = "shell" /\ (Stays \/ ToFiles \/ CommandPoweroff \/ CommandReboot)
  <2>1. CASE CommandPrints
    BY <2>1 DEF CommandPrints, Line, Goto, SameMemory
  <2>2. CASE CommandDir
    <3>1. /\ pc = "shell" /\ pc' = "fat16" /\ after' = "shell" /\ world' = world
          /\ UNCHANGED <<ring, if_flag, cs, ss, stack, pic, remap, tables, stacks, num>>
      BY <2>2, Zenon DEF CommandDir, Line, Goto
    <3> QED BY <3>1
  <2>3. CASE CommandPoweroff \/ CommandReboot
    BY <2>3 DEF CommandPoweroff, CommandReboot, Line
  <2>4. ASSUME NEW name, CommandRm(name) PROVE Kept /\ pc = "shell" /\ ToFiles
    <3>1. /\ pc = "shell" /\ pc' = "fat16" /\ after' = "shell" /\ world' = world
          /\ UNCHANGED <<ring, if_flag, cs, ss, stack, pic, remap, tables, stacks, num>>
      BY <2>4, Zenon DEF CommandRm, Line, Goto
    <3> QED BY <3>1
  <2>5. ASSUME NEW f, CommandType(f) PROVE Kept /\ pc = "shell" /\ Stays
    BY <2>5 DEF CommandType, Line, Goto
  <2>6. ASSUME NEW f, CommandExec(f) PROVE Kept /\ pc = "shell" /\ ToFiles
    BY <2>6 DEF CommandExec, Line, Goto
  <2> QED BY <2>1, <2>2, <2>3, <2>4, <2>5, <2>6 DEF Shell
<1>1. Kept /\ pc = "shell"
  BY <1>0
<1>2. after \in {"pci_init", "shell", "process_exec", "leave_syscall"}
  BY DEF CpuInv, PlacesOK
<1>3. CASE CommandPoweroff \/ CommandReboot
  <2>1. pc' \in {"off", "reset"} /\ if_flag' = FALSE /\ after' = after
    BY <1>3 DEF CommandPoweroff, CommandReboot, SameMemory
  <2>2. Where = "shell" /\ Where' = pc'
    BY <1>1, <2>1 DEF Where
  <2>3. PlacesOK' /\ StacksOK' /\ FlagsOK'
    BY <1>1, <1>2, <2>1, <2>2 DEF CpuInv, PlacesOK, StacksOK, FlagsOK, Places, OnLoader, OnUser, OnKStack,
       BeforeStar, BeforeIdt, BeforeGdt, BootLate, Halts
  <2>4. TablesOK' /\ SegmentsOK' /\ PicOK'
    BY <1>1, <2>1, <2>2 DEF CpuInv, TablesOK, SegmentsOK, PicOK, BeforeStar, BeforeIdt, BeforeGdt
  <2> QED BY <1>1, <2>3, <2>4 DEF CpuInv
<1>4. CASE ~(CommandPoweroff \/ CommandReboot)
  <2>1. /\ if_flag' = if_flag /\ pc' \in {"shell", "fat16"}
        /\ after' = after \/ after' \in {"shell", "process_exec"}
        /\ pc' = "fat16" => after' \in {"shell", "process_exec"}
    BY <1>0, <1>4
  <2>2. Where = "shell" /\ Where' \in {"shell", "process_exec"}
    BY <1>1, <2>1 DEF Where
  <2> QED BY <1>1, <1>2, <2>1, <2>2, CpuMoves DEF BootLate, BeforeGdt
<1> QED BY <1>3, <1>4

\* Every step of the machine keeps the processor's invariant.
LEMMA CpuStep == ASSUME CpuInv, [Next]_vars PROVE CpuInv'
<1>1. CASE UNCHANGED <<world, interrupts, memory>>
  BY <1>1 DEF interrupts, memory, cpu, stacks, CpuInv, PlacesOK, StacksOK, FlagsOK, TablesOK, SegmentsOK,
     PicOK, Where
<1>2. CASE AtaStep \/ Drive \/ UNCHANGED vars
  BY <1>1, <1>2 DEF AtaStep, Drive, DiskStep, vars
<1>3. CASE BootStep
  BY <1>3, CpuBoot
<1>4. CASE Cpu(pic_remap \/ jump_usermode \/ SysRet \/ syscall_entry \/ LeaveSyscall)
  BY <1>4, CpuRemap, CpuSwitches DEF Cpu
<1>5. CASE Cpu(SyscallConsole \/ SyscallGetchar \/ SyscallExit) \/ Cpu(Getchar)
  BY <1>5, CpuCalls DEF Cpu
<1>6. CASE \E name \in DOMAIN Calls : Cpu(Syscall(name))
  BY <1>6, CpuSwitches DEF Cpu
<1>7. CASE Transfer \/ FsReturns \/ AtaReturns \/ process_exec \/ SyscallFile
  BY <1>7, CpuFiles
<1>8. CASE Shell
  BY <1>8, CpuShell
<1>9. CASE Cpu(Exception) \/ Cpu(TakeInterrupt)
  BY <1>9, CpuFault, CpuInterrupt DEF Cpu
<1>10. CASE \E n \in world.devices : Cpu(Raise(n))
  BY <1>10, CpuRaise DEF Cpu
<1> QED BY <1>2, <1>3, <1>4, <1>5, <1>6, <1>7, <1>8, <1>9, <1>10 DEF Next, Kernel

\* The processor's invariant holds always.
LEMMA CpuAlways == Spec => []CpuInv
<1>1. CpuInv /\ [Next]_vars => CpuInv'
  BY CpuStep
<1> QED BY <1>1, CpuAtStart, PTL DEF Spec

\* Wherever an interrupt or an exception can strike, with whatever devices,
\* its frame goes to a stack of the kernel, but for the step before sysretq;
\* and a program runs only when its way into the kernel and the way back to
\* the shell (asm_jump_usermode, syscall_entry) are set.
THEOREM FramesStayOnKernelStacks == Spec => []FramesOnKernelStack
<1>1. CpuInv => FramesOnKernelStack
  <2>1. SUFFICES ASSUME CpuInv PROVE FramesOnKernelStack
    OBVIOUS
  <2>2. ring = 3 => pc = "user" /\ Where = "user"
    BY <2>1 DEF CpuInv, PlacesOK, Where
  <2>3. ring = 3 => tss_rsp0 = KStack /\ current_kernel_stack = KStack /\ kernel_saved_rsp = Loader
    BY <2>1, <2>2 DEF CpuInv, StacksOK, OnUser
  <2>4. if_flag /\ ring # 3 /\ pc # "sysret" => stack \in {Loader, KStack}
    <3>1. SUFFICES ASSUME if_flag, ring # 3, pc # "sysret" PROVE stack \in {Loader, KStack}
      OBVIOUS
    <3>2. pc # "user" /\ Where \notin Halts \cup {"syscall_entry"}
      BY <2>1, <3>1 DEF CpuInv, PlacesOK, FlagsOK
    <3>3. Where # "sysret" /\ Where # "user"
      BY <2>1, <3>1, <3>2 DEF CpuInv, PlacesOK, Where
    <3>4. Where \in OnLoader \cup OnKStack
      BY <2>1, <3>2, <3>3 DEF CpuInv, PlacesOK, Places, OnUser
    <3> QED BY <2>1, <3>4 DEF CpuInv, StacksOK
  <2> QED BY <2>3, <2>4 DEF FramesOnKernelStack, FrameStack
<1> QED BY <1>1, CpuAlways, PTL

\* The selectors that syscall, sysretq and the gates load fit the descriptor
\* table of gdt_init in every ring, and the shell runs on its own stack with
\* interrupts on, however the program before it ended.
THEOREM SegmentsAlwaysFit == Spec => []SegmentsFitRing
<1>1. CpuInv => SegmentsFitRing
  <2>1. SUFFICES ASSUME CpuInv PROVE SegmentsFitRing
    OBVIOUS
  <2>0. CASE tables.gdt = <<>>
    BY <2>0, Zenon DEF SegmentsFitRing
  <2>2. CASE pc \notin BeforeGdt /\ tables.gdt = Gdt
    <3>1. IF ring = 3 THEN cs = 32 /\ ss = 24 ELSE cs = 8 /\ (ss = 0 \/ ss = 16)
      BY <2>1, <2>2 DEF CpuInv, SegmentsOK, PlacesOK
    <3>2. /\ Descriptor(0) = Gdt[0 \div 8 + 1] /\ Descriptor(8) = Gdt[8 \div 8 + 1]
          /\ Descriptor(16) = Gdt[16 \div 8 + 1] /\ Descriptor(24) = Gdt[24 \div 8 + 1]
          /\ Descriptor(32) = Gdt[32 \div 8 + 1]
      BY <2>2, Zenon DEF Descriptor
    <3>3. 0 \div 8 + 1 = 1 /\ 8 \div 8 + 1 = 2 /\ 16 \div 8 + 1 = 3 /\ 24 \div 8 + 1 = 4 /\ 32 \div 8 + 1 = 5
      OBVIOUS
    <3>4. /\ Gdt[1] = "null" /\ Gdt[2] = "kernel code" /\ Gdt[3] = "kernel data" /\ Gdt[4] = "user data"
          /\ Gdt[5] = "user code"
      BY DEF Gdt
    <3>5. /\ Descriptor(0) = "null" /\ Descriptor(8) = "kernel code" /\ Descriptor(16) = "kernel data"
          /\ Descriptor(24) = "user data" /\ Descriptor(32) = "user code"
      BY <3>2, <3>3, <3>4, Zenon
    <3>6. ring = 3 => Descriptor(cs) = "user code" /\ Descriptor(ss) = "user data"
      BY <3>1, <3>5, Zenon
    <3>7. ring # 3 => Descriptor(cs) = "kernel code" /\ Descriptor(ss) \in {"kernel data", "null"}
      BY <3>1, <3>5, Zenon
    <3>8. pc = "shell" => stack = Loader /\ ring = 0 /\ if_flag
      BY <2>1 DEF CpuInv, PlacesOK, StacksOK, FlagsOK, Where, OnLoader, BeforeIdt, BeforeGdt
    <3>9. Descriptor(cs) = IF ring = 3 THEN "user code" ELSE "kernel code"
      BY <3>6, <3>7, Zenon
    <3>10. Descriptor(ss) \in IF ring = 3 THEN {"user data"} ELSE {"kernel data", "null"}
      BY <3>6, <3>7, Zenon
    <3> QED BY <3>8, <3>9, <3>10, Zenon DEF SegmentsFitRing
  <2> QED BY <2>0, <2>1, <2>2 DEF CpuInv, TablesOK
<1> QED BY <1>1, CpuAlways, PTL

\* Every interrupt that is taken returns to where it came from: the mask of
\* pic_remap lets no line through that has no handler, and the keyboard's line
\* leads to its handler.  Only between the first and the ninth write of
\* pic_remap an interrupt can lead to a kernel panic.
THEOREM DevicesAlwaysHandled == Spec => DevicesAreHandled
<1>1. ASSUME CpuInv, TakeInterrupt PROVE pc' = pc \/ (pc = "pic_remap" /\ remap \in 1..8)
  <2>1. if_flag /\ pic \in PicType /\ remap \in 0..10
    BY <1>1 DEF TakeInterrupt, CpuInv, PicOK, PicType
  <2>2. PICK n \in Requests :
          \/ Gate(Vector(n)) = "isr_keyboard" /\ UNCHANGED <<cpu, num>>
          \/ Gate(Vector(n)) = "exception"
    BY <1>1, Zenon DEF TakeInterrupt
  <2>3. n \in 0..15 /\ n \notin pic.imr /\ (n > 7 => Cascade \notin pic.imr)
    BY <2>1 DEF Requests, PicType
  <2>4. CASE remap = 0
    BY <1>1, <2>3, <2>4 DEF CpuInv, PicOK
  <2>5. CASE remap \in 1..8
    <3>1. Where \in {"pic_remap", "panic"}
      BY <1>1, <2>5 DEF CpuInv, PicOK
    <3>2. Where # "panic"
      BY <1>1, <2>1 DEF CpuInv, FlagsOK, Halts
    <3>3. pc = "pic_remap"
      BY <1>1, <3>1, <3>2 DEF Where, CpuInv, PlacesOK
    <3> QED BY <2>5, <3>3
  <2>6. CASE remap \in 9..10
    <3>1. (\A k \in 0..7 : k \in pic.imr <=> k # Kbd) /\ pic.base["master"] = 32
      BY <1>1, <2>6 DEF CpuInv, PicOK
    <3>2. n = 1
      BY <2>3, <3>1 DEF Cascade, Kbd
    <3>3. Gate(Vector(n)) = "isr_keyboard"
      BY <3>1, <3>2 DEF Gate, Vector
    <3> QED BY <2>2, <3>3 DEF cpu
  <2> QED BY <2>1, <2>4, <2>5, <2>6
<1>2. CpuInv /\ [Next]_vars =>
        [TakeInterrupt => pc' = pc \/ (pc = "pic_remap" /\ remap \in 1..8)]_interrupts
  BY <1>1
<1> QED BY <1>2, CpuAlways, PTL DEF Spec, DevicesAreHandled

-----------------------------------------------------------------------------
(* Loops.  A loop over positions is a function defined by recursion; that  *)
(* there is such a function follows from the order of the numbers.         *)

\* Every set of numbers that is not empty has a least member.
LEMMA LeastNumber ==
  ASSUME NEW T \in SUBSET Nat, T # {}
  PROVE  \E x \in T : \A y \in T : x <= y
<1> DEFINE R == {ab \in Nat \X Nat : ab[1] < ab[2]}
<1>1. IsWellFoundedOn(R, Nat)
  BY NatLessThanWellFounded DEF OpToRel
<1>2. \A a, b \in Nat : <<a, b>> \in R <=> a < b
  OBVIOUS
<1> HIDE DEF R
<1>3. PICK x \in T : \A y \in T : ~ (<<y, x>> \in R)
  BY <1>1, WFMin
<1>4. ASSUME NEW y \in T PROVE x <= y
  <2>1. x \in Nat /\ y \in Nat
    OBVIOUS
  <2>2. ~(y < x)
    BY <1>2, <1>3, <2>1
  <2> QED BY <2>1, <2>2
<1> QED BY <1>4

\* A set that holds 0 and with a number the next one, up to N.
LEMMA Upwards ==
  ASSUME NEW N \in Nat, NEW T, 0 \in T, \A n \in 1..N : n - 1 \in T => n \in T
  PROVE  0..N \subseteq T
<1> DEFINE F == (0..N) \ T
<1>1. SUFFICES ASSUME F # {} PROVE FALSE
  OBVIOUS
<1>2. F \in SUBSET Nat
  OBVIOUS
<1> HIDE DEF F
<1>3. PICK x \in F : \A y \in F : x <= y
  BY <1>1, <1>2, LeastNumber
<1>4. x \in Nat /\ x \in 0..N /\ x \notin T
  BY <1>3 DEF F
<1>5. x # 0 /\ x \in 1..N /\ x - 1 \in 0..N /\ ~(x <= x - 1)
  BY <1>4
<1>6. x - 1 \notin F
  BY <1>3, <1>5
<1>7. x - 1 \in T
  BY <1>5, <1>6 DEF F
<1> QED BY <1>4, <1>5, <1>7

\* N steps of a loop: g[n] is what the n-th step makes of the state before it.
IsLoop(f, N, S, a, g) == f \in [0..N -> S] /\ f[0] = a /\ \A n \in 1..N : f[n] = g[n][f[n - 1]]

LEMMA LoopRuns ==
  ASSUME NEW N \in Nat, NEW S, NEW a \in S, NEW g, \A n \in 1..N : \A x \in S : g[n][x] \in S
  PROVE  \E f : IsLoop(f, N, S, a, g)
<1> DEFINE Upto(f, m) == f \in [0..N -> S] /\ f[0] = a /\ \A n \in 1..m : f[n] = g[n][f[n - 1]]
           T == {m \in 0..N : \E f : Upto(f, m)}
<1>1. 0 \in T
  <2>1. PICK f : f = [n \in 0..N |-> a]
    OBVIOUS
  <2>2. Upto(f, 0)
    BY <2>1
  <2> QED BY <2>2
<1>2. ASSUME NEW m \in 1..N, m - 1 \in T PROVE m \in T
  <2>1. PICK f : Upto(f, m - 1)
    BY <1>2
  <2>2. m - 1 \in 0..N /\ g[m][f[m - 1]] \in S
    BY <2>1
  <2>3. PICK h : h = [f EXCEPT ![m] = g[m][f[m - 1]]]
    OBVIOUS
  <2>4. h \in [0..N -> S] /\ h[0] = a
    BY <2>1, <2>2, <2>3
  <2>5. ASSUME NEW n \in 1..m PROVE h[n] = g[n][h[n - 1]]
    <3>1. n \in 0..N /\ n - 1 \in 0..N /\ n - 1 # m /\ (n # m => n \in 1..(m - 1))
      OBVIOUS
    <3>2. h[n - 1] = f[n - 1] /\ h[n] = IF n = m THEN g[m][f[m - 1]] ELSE f[n]
      BY <2>1, <2>3, <3>1
    <3> QED BY <2>1, <3>1, <3>2
  <2>6. Upto(h, m)
    BY <2>4, <2>5
  <2> QED BY <2>6
<1> HIDE DEF T
<1>3. 0..N \subseteq T
  BY <1>1, <1>2, Upwards
<1>4. N \in T
  BY <1>3
<1> QED BY <1>4 DEF T, IsLoop

-----------------------------------------------------------------------------
(* Names of files on the disk. *)

\* The loop of fat16_dir over the characters of a field.
LEMMA UnfilledSteps ==
  ASSUME NEW C, NEW field \in Seq(C)
  PROVE  \E f \in [0..Len(field) -> Seq(C)] :
           /\ f[0] = <<>> /\ Unfilled(field) = f[Len(field)]
           /\ \A n \in 1..Len(field) :
                f[n] = IF field[n] # Filler THEN Append(f[n - 1], field[n]) ELSE f[n - 1]
<1> DEFINE N == Len(field)
           Eq(f) == f = [n \in 0..N |->
                           IF n = 0 THEN <<>>
                           ELSE IF field[n] # Filler THEN Append(f[n - 1], field[n]) ELSE f[n - 1]]
           w == CHOOSE f : Eq(f)
<1>1. N \in Nat /\ (\A n \in 1..N : field[n] \in C) /\ <<>> \in Seq(C)
  OBVIOUS
<1>2. PICK g : g = [n \in 1..N |-> [x \in Seq(C) |-> IF field[n] # Filler THEN Append(x, field[n]) ELSE x]]
  OBVIOUS
<1>3. \A n \in 1..N : \A x \in Seq(C) : g[n][x] \in Seq(C)
  <2>1. ASSUME NEW n \in 1..N, NEW x \in Seq(C)
        PROVE  (IF field[n] # Filler THEN Append(x, field[n]) ELSE x) \in Seq(C)
    BY <1>1
  <2> QED BY <1>2, <2>1
<1>4. PICK f \in [0..N -> Seq(C)] : f[0] = <<>> /\ \A n \in 1..N : f[n] = g[n][f[n - 1]]
  <2>1. \E f : IsLoop(f, N, Seq(C), <<>>, g)
    BY <1>1, <1>3, LoopRuns
  <2> QED BY <2>1 DEF IsLoop
<1>5. \A n \in 1..N : f[n] = IF field[n] # Filler THEN Append(f[n - 1], field[n]) ELSE f[n - 1]
  <2>1. \A n \in 1..N : f[n - 1] \in Seq(C)
    BY <1>1
  <2> QED BY <1>2, <1>4, <2>1
<1>6. \E h : Eq(h)
  <2>1. \A n \in 0..N : n = 0 \/ n \in 1..N
    BY <1>1
  <2>2. Eq(f)
    BY <1>4, <1>5, <2>1
  <2> QED BY <2>2
<1>7. Eq(w)
  BY <1>6, Zenon
<1>8. Unfilled(field) = w[N]
  BY DEF Unfilled
<1> HIDE DEF w
<1>9. \A n \in 0..N : w[n] = f[n]
  <2> DEFINE T == {n \in 0..N : w[n] = f[n]}
  <2>0. \A n \in 0..N : w[n] = IF n = 0 THEN <<>>
                               ELSE IF field[n] # Filler THEN Append(w[n - 1], field[n]) ELSE w[n - 1]
    BY <1>7
  <2>1. 0 \in T
    BY <1>1, <1>4, <2>0
  <2>2. ASSUME NEW n \in 1..N, n - 1 \in T PROVE n \in T
    BY <1>5, <2>0, <2>2
  <2> HIDE DEF T
  <2>3. 0..N \subseteq T
    BY <1>1, <2>1, <2>2, Upwards
  <2> QED BY <2>3 DEF T
<1> QED BY <1>1, <1>4, <1>5, <1>8, <1>9

\* What a field holds.
LEMMA FieldShape ==
  ASSUME NEW C, NEW s \in Seq(C), NEW n \in Nat, NEW B, Filler \in B, \A i \in 1..Len(s) : UpperOf(s[i]) \in B
  PROVE  /\ Field(s, n) \in Seq(B) /\ Len(Field(s, n)) = n
         /\ \A k \in 1..n : Field(s, n)[k] = IF k <= Len(s) THEN UpperOf(s[k]) ELSE Filler
<1>1. \A k \in 1..n : (IF k <= Len(s) THEN UpperOf(s[k]) ELSE Filler) \in B
  <2>1. Len(s) \in Nat
    OBVIOUS
  <2> QED BY <2>1
<1> QED BY <1>1 DEF Field

\* A field shows the name that was put into it, in upper case.
LEMMA UnfilledField ==
  ASSUME NEW C, NEW s \in Seq(C), NEW n \in Nat, Len(s) <= n, \A i \in 1..Len(s) : s[i] # Filler
  PROVE  Unfilled(Field(s, n)) = InUpper(s)
<1> DEFINE D == {UpperOf(s[i]) : i \in 1..Len(s)} \cup {Filler}
           field == Field(s, n)
           Shown(k) == [i \in 1..(IF k <= Len(s) THEN k ELSE Len(s)) |-> UpperOf(s[i])]
<1>1. Len(s) \in Nat /\ \A i \in 1..Len(s) : UpperOf(s[i]) # Filler
  BY FatNameAssumption DEF UpperOf
<1>2. /\ field \in Seq(D) /\ Len(field) = n
      /\ \A k \in 1..n : field[k] = IF k <= Len(s) THEN UpperOf(s[k]) ELSE Filler
  <2>1. Filler \in D /\ \A i \in 1..Len(s) : UpperOf(s[i]) \in D
    OBVIOUS
  <2> HIDE DEF D
  <2> QED BY <2>1, FieldShape
<1> HIDE DEF field
<1>3. PICK f \in [0..n -> Seq(D)] :
        /\ f[0] = <<>> /\ Unfilled(field) = f[n]
        /\ \A k \in 1..n : f[k] = IF field[k] # Filler THEN Append(f[k - 1], field[k]) ELSE f[k - 1]
  <2>1. PICK B : B = D
    OBVIOUS
  <2>2. field \in Seq(B)
    BY <1>2, <2>1
  <2>3. \E f \in [0..Len(field) -> Seq(B)] :
          /\ f[0] = <<>> /\ Unfilled(field) = f[Len(field)]
          /\ \A k \in 1..Len(field) :
               f[k] = IF field[k] # Filler THEN Append(f[k - 1], field[k]) ELSE f[k - 1]
    BY <2>2, UnfilledSteps
  <2> QED BY <1>2, <2>1, <2>3
<1>4. \A k \in 0..n : f[k] = Shown(k)
  <2> DEFINE T == {k \in 0..n : f[k] = Shown(k)}
  <2>1. 0 \in T
    BY <1>1, <1>3
  <2>2. ASSUME NEW k \in 1..n, k - 1 \in T PROVE k \in T
    <3>1. f[k - 1] = Shown(k - 1) /\ k - 1 \in Nat /\ k \in 0..n
      BY <2>2
    <3>2. CASE k <= Len(s)
      <4>0. field[k] = UpperOf(s[k]) /\ field[k] # Filler
        BY <1>1, <1>2, <3>2
      <4>1. f[k] = Append(f[k - 1], UpperOf(s[k]))
        BY <1>3, <4>0
      <4>2. f[k - 1] = [i \in 1..(k - 1) |-> UpperOf(s[i])]
        BY <1>1, <3>1, <3>2
      <4>3. Append([i \in 1..(k - 1) |-> UpperOf(s[i])], UpperOf(s[k])) = [i \in 1..k |-> UpperOf(s[i])]
        OBVIOUS
      <4> QED BY <3>1, <3>2, <4>1, <4>2, <4>3
    <3>3. CASE ~(k <= Len(s))
      <4>1. f[k] = f[k - 1]
        BY <1>2, <1>3, <3>3
      <4>2. Shown(k) = Shown(k - 1)
        BY <1>1, <3>1, <3>3
      <4> QED BY <3>1, <4>1, <4>2
    <3> QED BY <3>2, <3>3
  <2> HIDE DEF T
  <2>3. 0..n \subseteq T
    BY <2>1, <2>2, Upwards
  <2> QED BY <2>3 DEF T
<1>5. Shown(n) = InUpper(s)
  BY <1>1 DEF InUpper
<1> QED BY <1>3, <1>4, <1>5 DEF field

\* Where the extension of a name begins.
LEMMA DotPosition ==
  ASSUME NEW C, NEW name \in Seq(C)
  PROVE  /\ {k \in 1..Len(name) : name[k] = Dot} = {} => DotAt(name) = Len(name) + 1
         /\ \A d \in 1..Len(name) : {k \in 1..Len(name) : name[k] = Dot} = {d} => DotAt(name) = d
<1> DEFINE I == {k \in 1..Len(name) : name[k] = Dot}
<1>1. CASE I = {}
  <2>1. SelectInSeq(name, LAMBDA ch : ch = Dot) = 0
    BY <1>1 DEF SelectInSeq
  <2> QED BY <1>1, <2>1 DEF DotAt
<1>2. ASSUME NEW d \in 1..Len(name), I = {d} PROVE DotAt(name) = d
  <2>1. Min(I) = d
    BY <1>2 DEF Min
  <2>2. SelectInSeq(name, LAMBDA ch : ch = Dot) = d
    BY <1>2, <2>1 DEF SelectInSeq
  <2> QED BY <2>2 DEF DotAt
<1> QED BY <1>1, <1>2

\* w is u and v, one behind the other.
IsJoin(w, u, v, B) ==
  /\ w \in Seq(B) /\ Len(w) = Len(u) + Len(v)
  /\ \A i \in 1..Len(u) : w[i] = u[i]
  /\ \A i \in 1..Len(v) : w[Len(u) + i] = v[i]
  /\ SubSeq(w, 1, Len(u)) = u /\ SubSeq(w, Len(u) + 1, Len(u) + Len(v)) = v

LEMMA Together ==
  ASSUME NEW B, NEW u \in Seq(B), NEW v \in Seq(B)
  PROVE  IsJoin(u \o v, u, v, B)
<1>0. Len(u) \in Nat /\ Len(v) \in Nat
  OBVIOUS
<1>1. u \o v \in Seq(B) /\ Len(u \o v) = Len(u) + Len(v)
  OBVIOUS
<1>2. \A i \in 1..Len(u) : (u \o v)[i] = u[i]
  OBVIOUS
<1>3. \A i \in 1..Len(v) : (u \o v)[Len(u) + i] = v[i]
  OBVIOUS
<1>4. PICK w \in Seq(B) : w = u \o v
  BY <1>1
<1>5. SubSeq(w, 1, Len(u)) = u
  <2>1. SubSeq(w, 1, Len(u)) = [i \in 1..Len(u) |-> w[i]]
    BY <1>0, <1>1, <1>4
  <2>2. u = [i \in 1..Len(u) |-> u[i]]
    OBVIOUS
  <2> QED BY <1>2, <1>4, <2>1, <2>2
<1>6. SubSeq(w, Len(u) + 1, Len(u) + Len(v)) = v
  <2>1. SubSeq(w, Len(u) + 1, Len(u) + Len(v)) = [i \in 1..Len(v) |-> w[Len(u) + i]]
    BY <1>0, <1>1, <1>4
  <2>2. v = [i \in 1..Len(v) |-> v[i]]
    OBVIOUS
  <2> QED BY <1>3, <1>4, <2>1, <2>2
<1> QED BY <1>1, <1>2, <1>3, <1>4, <1>5, <1>6 DEF IsJoin

\* The two fields of an entry, one behind the other.
LEMMA EntryFields ==
  ASSUME NEW C, NEW s \in Seq(C), NEW t \in Seq(C), Len(s) <= NameLen, Len(t) <= ExtLen,
         \A i \in 1..Len(s) : s[i] # Filler, \A i \in 1..Len(t) : t[i] # Filler
  PROVE  Listed(Field(s, NameLen) \o Field(t, ExtLen)) =
           InUpper(s) \o (IF t = <<>> THEN <<>> ELSE <<Dot>> \o InUpper(t))
<1> DEFINE entry == Field(s, NameLen) \o Field(t, ExtLen)
<1>0. NameLen \in Nat \ {0} /\ ExtLen \in Nat \ {0} /\ Len(s) \in Nat /\ Len(t) \in Nat
  BY FatNameAssumption
<1>1. PICK B : /\ Field(s, NameLen) \in Seq(B) /\ Len(Field(s, NameLen)) = NameLen
               /\ Field(t, ExtLen) \in Seq(B) /\ Len(Field(t, ExtLen)) = ExtLen
               /\ Field(t, ExtLen)[1] = IF t = <<>> THEN Filler ELSE UpperOf(t[1])
  <2> DEFINE B == {UpperOf(s[i]) : i \in 1..Len(s)} \cup {UpperOf(t[i]) : i \in 1..Len(t)} \cup {Filler}
  <2>0. Filler \in B /\ (\A i \in 1..Len(s) : UpperOf(s[i]) \in B) /\ (\A i \in 1..Len(t) : UpperOf(t[i]) \in B)
    OBVIOUS
  <2> HIDE DEF B
  <2>1. Field(s, NameLen) \in Seq(B) /\ Len(Field(s, NameLen)) = NameLen
    BY <1>0, <2>0, FieldShape
  <2>2. Field(t, ExtLen) \in Seq(B) /\ Len(Field(t, ExtLen)) = ExtLen
    BY <1>0, <2>0, FieldShape
  <2>3. 1 <= Len(t) <=> t # <<>>
    BY <1>0
  <2>4. Field(t, ExtLen)[1] = IF t = <<>> THEN Filler ELSE UpperOf(t[1])
    BY <1>0, <2>3 DEF Field
  <2> QED BY <2>1, <2>2, <2>4
<1>2. PICK u, v : u = Field(s, NameLen) /\ v = Field(t, ExtLen)
  OBVIOUS
<1>3. /\ SubSeq(u \o v, 1, NameLen) = u /\ SubSeq(u \o v, NameLen + 1, NameLen + ExtLen) = v
      /\ (u \o v)[NameLen + 1] = v[1]
  <2>1. u \in Seq(B) /\ v \in Seq(B) /\ Len(u) = NameLen /\ Len(v) = ExtLen /\ 1 \in 1..ExtLen
    BY <1>0, <1>1, <1>2
  <2>2. /\ SubSeq(u \o v, 1, Len(u)) = u /\ SubSeq(u \o v, Len(u) + 1, Len(u) + Len(v)) = v
        /\ \A i \in 1..Len(v) : (u \o v)[Len(u) + i] = v[i]
    <3>1. IsJoin(u \o v, u, v, B)
      BY <2>1, Together
    <3> QED BY <3>1 DEF IsJoin
  <2> QED BY <2>1, <2>2
<1>4. Unfilled(u) = InUpper(s) /\ Unfilled(v) = InUpper(t)
  BY <1>0, <1>2, UnfilledField
<1>5. t # <<>> => UpperOf(t[1]) # Filler
  BY <1>0, FatNameAssumption DEF UpperOf
<1>6. v[1] # Filler <=> t # <<>>
  BY <1>1, <1>2, <1>5
<1> QED BY <1>2, <1>3, <1>4, <1>6 DEF Listed

\* What fat16_dir lists for a name that fits its fields.
LEMMA NameRoundTrip ==
  ASSUME NEW C, NEW name \in Seq(C), Fits(name)
  PROVE  Listed(format_fat_name(name)) = InUpper(name)
<1> DEFINE dots == {k \in 1..Len(name) : name[k] = Dot}
           s == SubSeq(name, 1, DotAt(name) - 1)
           t == SubSeq(name, DotAt(name) + 1, Len(name))
<1>1. /\ \A k \in 1..Len(name) : name[k] # Filler
      /\ \A d \in dots : dots = {d} /\ d - 1 \in 1..NameLen /\ Len(name) - d \in 1..ExtLen
      /\ dots = {} => Len(name) \in 1..NameLen
  BY DEF Fits, Range
<1>2. Len(name) \in Nat /\ NameLen \in Nat /\ ExtLen \in Nat
  BY FatNameAssumption
<1>3. format_fat_name(name) = Field(s, NameLen) \o Field(t, ExtLen)
  BY DEF format_fat_name
<1>4. CASE dots = {}
  <2>1. DotAt(name) = Len(name) + 1
    BY <1>4, DotPosition
  <2>2. s = name /\ t = <<>>
    BY <1>2, <2>1
  <2>3. Listed(Field(name, NameLen) \o Field(<<>>, ExtLen)) = InUpper(name) \o <<>>
    <3>1. PICK e : e = <<>>
      OBVIOUS
    <3>2. e \in Seq(C) /\ Len(e) = 0 /\ Len(e) <= ExtLen /\ Len(name) <= NameLen /\ \A i \in 1..Len(e) : e[i] # Filler
      BY <1>1, <1>2, <1>4, <3>1
    <3>3. Listed(Field(name, NameLen) \o Field(e, ExtLen)) = InUpper(name) \o (IF e = <<>> THEN <<>> ELSE <<Dot>> \o InUpper(e))
      BY <1>1, <3>2, EntryFields
    <3> QED BY <3>1, <3>3
  <2>4. InUpper(name) \o <<>> = InUpper(name)
    BY <1>2 DEF InUpper
  <2> QED BY <1>3, <2>2, <2>3, <2>4
<1>5. CASE dots # {}
  <2>1. PICK d \in 1..Len(name) : dots = {d} /\ name[d] = Dot /\ d - 1 \in 1..NameLen /\ Len(name) - d \in 1..ExtLen
    BY <1>1, <1>5
  <2>2. DotAt(name) = d
    BY <2>1, DotPosition
  <2>3. PICK x, y : x = SubSeq(name, 1, d - 1) /\ y = SubSeq(name, d + 1, Len(name))
    OBVIOUS
  <2>4. /\ x \in Seq(C) /\ Len(x) = d - 1 /\ \A i \in 1..(d - 1) : x[i] = name[i]
        /\ y \in Seq(C) /\ Len(y) = Len(name) - d /\ \A i \in 1..(Len(name) - d) : y[i] = name[i + d]
    <3>1. x \in Seq(C) /\ Len(x) = d - 1 /\ \A i \in 1..(d - 1) : x[i] = name[i]
      BY <1>2, <2>1, <2>3
    <3>2. y \in Seq(C) /\ Len(y) = Len(name) - d
      BY <1>2, <2>1, <2>3
    <3>3. \A i \in 1..(Len(name) - d) : y[i] = name[i + d]
      BY <1>2, <2>1, <2>3
    <3> QED BY <3>1, <3>2, <3>3
  <2>5. /\ \A i \in 1..Len(x) : x[i] # Filler
        /\ \A i \in 1..Len(y) : y[i] # Filler
        /\ y # <<>>
    <3>1. \A i \in 1..(d - 1) : i \in 1..Len(name)
      BY <1>2
    <3>2. \A i \in 1..(Len(name) - d) : i + d \in 1..Len(name)
      BY <1>2
    <3>3. Len(y) # 0
      BY <2>1, <2>4
    <3> QED BY <1>1, <2>4, <3>1, <3>2, <3>3
  <2>6. Listed(Field(x, NameLen) \o Field(y, ExtLen)) = InUpper(x) \o (<<Dot>> \o InUpper(y))
    <3>1. Len(x) <= NameLen /\ Len(y) <= ExtLen
      BY <1>2, <2>1, <2>4
    <3>2. Listed(Field(x, NameLen) \o Field(y, ExtLen)) = InUpper(x) \o (IF y = <<>> THEN <<>> ELSE <<Dot>> \o InUpper(y))
      BY <2>4, <2>5, <3>1, EntryFields
    <3> QED BY <2>5, <3>2
  <2>7. InUpper(x) \o (<<Dot>> \o InUpper(y)) = InUpper(name)
    <3>1. UpperOf(Dot) = Dot
      BY FatNameAssumption DEF UpperOf
    <3>2. /\ InUpper(x) = [i \in 1..(d - 1) |-> UpperOf(name[i])]
          /\ InUpper(y) = [i \in 1..(Len(name) - d) |-> UpperOf(name[i + d])]
      BY <2>4 DEF InUpper
    <3>3. <<Dot>> \o InUpper(y) = [i \in 1..(Len(name) - d + 1) |-> UpperOf(name[i + d - 1])]
      BY <1>2, <2>1, <3>1, <3>2
    <3>4. InUpper(x) \o (<<Dot>> \o InUpper(y)) = [i \in 1..Len(name) |-> UpperOf(name[i])]
      <4>1. PICK u, v : u = InUpper(x) /\ v = <<Dot>> \o InUpper(y)
        OBVIOUS
      <4> DEFINE E == {UpperOf(name[i]) : i \in 1..Len(name)}
      <4>2. /\ u \in Seq(E) /\ Len(u) = d - 1 /\ \A i \in 1..(d - 1) : u[i] = UpperOf(name[i])
            /\ v \in Seq(E) /\ Len(v) = Len(name) - d + 1
            /\ \A i \in 1..(Len(name) - d + 1) : v[i] = UpperOf(name[i + d - 1])
        <5>1. \A i \in 1..Len(name) : UpperOf(name[i]) \in E
          OBVIOUS
        <5> HIDE DEF E
        <5>2. u \in Seq(E) /\ Len(u) = d - 1 /\ \A i \in 1..(d - 1) : u[i] = UpperOf(name[i])
          BY <1>2, <2>1, <3>2, <4>1, <5>1
        <5>3. Len(name) - d + 1 \in Nat /\ \A i \in 1..(Len(name) - d + 1) : i + d - 1 \in 1..Len(name)
          BY <1>2, <2>1
        <5>4. v = [i \in 1..(Len(name) - d + 1) |-> UpperOf(name[i + d - 1])]
          BY <3>3, <4>1
        <5>5. v \in Seq(E) /\ Len(v) = Len(name) - d + 1
          BY <5>1, <5>3, <5>4
        <5> QED BY <5>2, <5>4, <5>5
      <4> HIDE DEF E
      <4>3. /\ u \o v \in Seq(E) /\ Len(u \o v) = Len(u) + Len(v)
            /\ \A i \in 1..Len(u) : (u \o v)[i] = u[i]
            /\ \A i \in 1..Len(v) : (u \o v)[Len(u) + i] = v[i]
        <5>1. IsJoin(u \o v, u, v, E)
          BY <4>2, Together
        <5> QED BY <5>1 DEF IsJoin
      <4>4. Len(u \o v) = Len(name)
        BY <1>2, <2>1, <4>2, <4>3
      <4>5. ASSUME NEW i \in 1..Len(name) PROVE (u \o v)[i] = UpperOf(name[i])
        <5>1. CASE i <= d - 1
          BY <4>2, <4>3, <5>1
        <5>2. CASE ~(i <= d - 1)
          <6>1. PICK j \in 1..(Len(name) - d + 1) : i = (d - 1) + j /\ j + d - 1 = i
            BY <1>2, <2>1, <5>2
          <6>2. (u \o v)[(d - 1) + j] = v[j]
            BY <4>2, <4>3
          <6> QED BY <4>2, <6>1, <6>2
        <5> QED BY <5>1, <5>2
      <4>6. u \o v = [i \in 1..Len(name) |-> (u \o v)[i]]
        <5>1. PICK z \in Seq(E) : z = u \o v
          BY <4>3
        <5>2. z = [i \in 1..Len(z) |-> z[i]]
          OBVIOUS
        <5> QED BY <4>4, <5>1, <5>2
      <4> QED BY <4>1, <4>5, <4>6
    <3> QED BY <3>4 DEF InUpper
  <2> QED BY <1>3, <2>2, <2>3, <2>6, <2>7
<1> QED BY <1>4, <1>5

\* What the shell keeps of the last command.
NameShown == shown.cmd = "rm" => shown.name \in world.typed /\ shown.text = format_fat_name(shown.name)
WorldOK == world \in Worlds

\* The fields of it.
LEMMA ShownFields ==
  ASSUME NEW cmd, NEW file, NEW text
  PROVE  /\ Showing(cmd, file, text).cmd = cmd /\ Showing(cmd, file, text).file = file
         /\ Showing(cmd, file, text).text = text
BY DEF Nothing, Showing

LEMMA NameStep == ASSUME WorldOK, NameShown, [Next]_vars PROVE WorldOK' /\ NameShown'
<1>1. CASE UNCHANGED <<world, shown>>
  BY <1>1 DEF WorldOK, NameShown
<1>2. CASE shown' = Nothing /\ UNCHANGED world
  <2>1. shown'.cmd # "rm"
    BY <1>2 DEF Nothing
  <2> QED BY <1>2, <2>1 DEF WorldOK, NameShown
<1>3. ASSUME NEW cmd, cmd # "rm", NEW file, NEW text, shown' = Showing(cmd, file, text), UNCHANGED world
      PROVE  WorldOK' /\ NameShown'
  <2>1. shown'.cmd # "rm"
    BY <1>3, ShownFields
  <2> QED BY <1>3, <2>1 DEF WorldOK, NameShown
<1>4. ASSUME NEW name \in world.typed, CommandRm(name) PROVE WorldOK' /\ NameShown'
  <2>1. shown' = [Showing("rm", "", format_fat_name(name)) EXCEPT !.name = name] /\ UNCHANGED world
    BY <1>4 DEF CommandRm
  <2>2. shown'.name = name /\ shown'.text = format_fat_name(name)
    BY <2>1 DEF Showing, Nothing
  <2> QED BY <1>4, <2>1, <2>2 DEF WorldOK, NameShown
<1>5. CASE Shell
  <2>1. CASE CommandPrints \/ CommandPoweroff \/ CommandReboot
    BY <1>2, <2>1 DEF CommandPrints, CommandPoweroff, CommandReboot, SameMemory
  <2>2. CASE CommandDir
    <3>1. shown' = Showing("dir", "", tarfs_dir(ramdisk)) /\ "dir" # "rm" /\ UNCHANGED world
      BY <2>2 DEF CommandDir
    <3> QED BY <1>3, <3>1
  <2>3. ASSUME NEW f \in Files, CommandType(f) \/ CommandExec(f) PROVE WorldOK' /\ NameShown'
    BY <1>3, <2>3 DEF CommandType, CommandExec
  <2> QED BY <1>4, <1>5, <2>1, <2>2, <2>3 DEF Shell
<1>6. CASE process_exec
  BY <1>2, <1>3, <1>6 DEF process_exec
<1>7. CASE BootStep
  BY <1>1, <1>7 DEF BootStep, memory
<1>8. CASE AtaStep \/ AtaReturns \/ SyscallFile \/ Transfer \/ FsReturns \/ Drive \/ UNCHANGED vars
  BY <1>1, <1>8 DEF AtaStep, AtaReturns, SyscallFile, Transfer, FsReturns, Drive, DiskStep, vars, memory
<1>9. ASSUME NEW A, Cpu(A) PROVE WorldOK' /\ NameShown'
  BY <1>1, <1>9 DEF Cpu, memory
<1> QED BY <1>5, <1>6, <1>7, <1>8, <1>9 DEF Next, Kernel

\* Every name that fits the fields of an entry is listed by fat16_dir as it
\* was typed, in upper case: for every length of the fields and every name,
\* what format_fat_name writes is what the listing reads.
THEOREM NamesRoundTrip == Spec => []EntryNamesRoundTrip
<1>1. Init => WorldOK /\ NameShown
  <2>1. ASSUME Init PROVE shown = Nothing /\ world \in Worlds
    BY <2>1 DEF Init
  <2>2. Nothing.cmd # "rm"
    BY DEF Nothing
  <2> QED BY <2>1, <2>2 DEF WorldOK, NameShown
<1>2. (WorldOK /\ NameShown) /\ [Next]_vars => WorldOK' /\ NameShown'
  BY NameStep
<1>3. WorldOK /\ NameShown => EntryNamesRoundTrip
  <2>1. SUFFICES ASSUME WorldOK, NameShown, shown.cmd = "rm", Fits(shown.name)
                 PROVE  Listed(shown.text) = InUpper(shown.name)
    BY DEF EntryNamesRoundTrip
  <2>2. shown.name \in Seq(Range(shown.name)) /\ shown.text = format_fat_name(shown.name)
    BY <2>1, MachineAssumption DEF WorldOK, NameShown
  <2> QED BY <2>1, <2>2, NameRoundTrip
<1> QED BY <1>1, <1>2, <1>3, PTL DEF Spec

-----------------------------------------------------------------------------
(* The end of the boot sequence. *)

Starts == BeforeStar \cup {"pic_remap", "panic"} \cup BootLate

\* The steps of _start, one after the other.
LEMMA BootMoves ==
  ASSUME CpuInv, BootStep
  PROVE  /\ pc \in Starts /\ Where = pc /\ UNCHANGED <<world, shown>>
         /\ pc # "acpi_init" => Where' \in Starts /\ UNCHANGED <<pm, ports>>
         /\ pc = "acpi_init" => pc' = "shell" /\ pm' = acpi_init(world.firmware) /\ ports' = pm'.out
         /\ pc # "tarfs_init" => ramdisk' = ramdisk
         /\ pc \in BeforeStar \cup {"pic_remap", "pmm_init", "vmm_init", "heap_init"} =>
              Where' \in BeforeStar \cup {"pic_remap", "pmm_init", "vmm_init", "heap_init", "tarfs_init"}
         /\ pc = "tarfs_init" => tarfs_init
<1>1. pc \in BeforeStar \cup {"pic_remap"} \cup BootLate
  <2>1. PICK i \in 1..15 : pc = BootOrder[i] /\ pc # "shell"
    BY DEF BootStep, BootOrder, Range
  <2> QED BY <2>1 DEF BootOrder, BeforeStar, BeforeIdt, BeforeGdt, BootLate
<1>2. pc \in Starts /\ Where = pc
  BY <1>1 DEF Where, Starts, BeforeStar, BeforeIdt, BeforeGdt, BootLate
<1>3. UNCHANGED world /\ pc' = IF pc = "fat16_init" THEN "ata" ELSE Following(pc)
  BY DEF BootStep
<1>4. /\ UNCHANGED shown
      /\ pc # "acpi_init" => UNCHANGED <<pm, ports>>
      /\ pc = "acpi_init" => pm' = acpi_init(world.firmware) /\ ports' = pm'.out
      /\ pc # "tarfs_init" => ramdisk' = ramdisk
      /\ pc = "tarfs_init" => tarfs_init
      /\ pc = "fat16_init" => after' = "pci_init"
  BY <1>1 DEF BootStep, Elsewhere, memory, BeforeStar, BeforeIdt, BeforeGdt, BootLate
<1>5. CASE pc = "fat16_init"
  <2>1. Where' = "pci_init"
    BY <1>3, <1>4, <1>5 DEF Where
  <2> QED BY <1>2, <1>3, <1>4, <1>5, <2>1 DEF Starts, BeforeStar, BeforeIdt, BeforeGdt, BootLate
<1>6. CASE pc # "fat16_init"
  <2>1. pc' = Following(pc) /\ pc' \in {"vga_init", "gdt_init", "idt_init", "fpu_init", "syscall_init", "pic_remap",
          "pmm_init", "vmm_init", "heap_init", "tarfs_init", "fat16_init", "acpi_init", "shell"}
    BY <1>1, <1>3, <1>6, BootSteps DEF BeforeStar, BeforeIdt, BeforeGdt, BootLate
  <2>2. Where' = pc'
    BY <2>1 DEF Where
  <2>3. /\ pc = "acpi_init" => pc' = "shell"
        /\ pc # "acpi_init" => pc' \in Starts
    BY <1>1, <2>1, BootSteps DEF Starts, BeforeStar, BeforeIdt, BeforeGdt, BootLate
  <2>4. pc \in BeforeStar \cup {"pic_remap", "pmm_init", "vmm_init", "heap_init"} =>
          pc' \in BeforeStar \cup {"pic_remap", "pmm_init", "vmm_init", "heap_init", "tarfs_init"}
    BY <2>1, BootSteps DEF BeforeStar, BeforeIdt, BeforeGdt
  <2> QED BY <1>2, <1>3, <1>4, <2>2, <2>3, <2>4
<1> QED BY <1>5, <1>6

\* Any other step: the boot sequence stays where it is, and only poweroff
\* writes to the ports.
LEMMA OtherMoves ==
  ASSUME CpuInv, [Next]_vars, ~BootStep
  PROVE  /\ Where \in Starts => Where' \in {Where, "panic"}
         /\ UNCHANGED <<world, ramdisk, pm>>
         /\ \/ CommandPoweroff
            \/ ports' = ports /\ (pc' = "off" => pc = "off")
<1> DEFINE Kept == UNCHANGED <<world, ramdisk, pm, ports>>
           Quiet == Kept /\ (pc' = "off" => pc = "off")
           Stays == Where \in Starts => Where' \in {Where, "panic"}
<1>0. after \in {"pci_init", "shell", "process_exec", "leave_syscall"}
  BY DEF CpuInv, PlacesOK
<1>1. CASE AtaStep \/ Drive \/ UNCHANGED vars
  <2>1. Kept /\ UNCHANGED <<pc, after>>
    BY <1>1 DEF AtaStep, Drive, DiskStep, vars, memory, interrupts, cpu
  <2> QED BY <2>1 DEF Where
<1>2. ASSUME UNCHANGED <<world, memory>>, pc' = pc \/ pc' = "panic" PROVE Quiet /\ Stays
  BY <1>2 DEF memory, Where
<1>3. ASSUME UNCHANGED <<world, memory>>, pc \notin Starts \cup {"ata", "fat16"}, pc' # "off" PROVE Quiet /\ Stays
  BY <1>3 DEF memory, Where
<1>4. CASE Cpu(pic_remap \/ jump_usermode \/ SysRet \/ syscall_entry \/ LeaveSyscall)
  <2>1. CASE pic_remap
    <3>1. pc' = pc /\ UNCHANGED <<world, memory>>
      BY <1>4, <2>1 DEF Cpu, pic_remap, cpu
    <3> QED BY <1>2, <3>1
  <2>2. CASE jump_usermode \/ SysRet \/ syscall_entry \/ LeaveSyscall
    <3>1. pc \in {"jump_usermode", "sysret", "syscall_entry", "leave_syscall"} /\ pc' # "off"
      BY <2>2 DEF jump_usermode, SysRet, syscall_entry, LeaveSyscall
    <3> QED BY <1>3, <1>4, <3>1 DEF Cpu, Starts, BeforeStar, BeforeIdt, BeforeGdt, BootLate
  <2> QED BY <1>4, <2>1, <2>2 DEF Cpu
<1>5. CASE Cpu(SyscallConsole \/ SyscallGetchar \/ SyscallExit) \/ Cpu(Getchar)
  <2>1. pc \in {"syscall_handler_c", "getchar"} /\ pc' # "off" /\ UNCHANGED <<world, memory>>
    BY <1>5 DEF Cpu, SyscallConsole, SyscallGetchar, SyscallExit, asm_return_to_kernel, Getchar
  <2> QED BY <1>3, <2>1 DEF Starts, BeforeStar, BeforeIdt, BeforeGdt, BootLate
<1>6. ASSUME NEW name \in DOMAIN Calls, Cpu(Syscall(name)) PROVE Quiet /\ Stays
  <2>1. pc = "user" /\ pc' # "off" /\ UNCHANGED <<world, memory>>
    BY <1>6 DEF Cpu, Syscall
  <2> QED BY <1>3, <2>1 DEF Starts, BeforeStar, BeforeIdt, BeforeGdt, BootLate
<1>7. CASE Transfer \/ FsReturns \/ AtaReturns
  <2>1. Kept /\ after' = after /\ pc \in {"ata", "fat16"} /\ Where' = after
    BY <1>0, <1>7 DEF Transfer, FsReturns, AtaReturns, Goto, memory, Where
  <2>2. pc' # "off"
    BY <1>0, <1>7 DEF Transfer, FsReturns, AtaReturns, Goto
  <2> QED BY <2>1, <2>2 DEF Where
<1>8. CASE process_exec \/ SyscallFile
  <2>1. pc \in {"process_exec", "syscall_handler_c"} /\ pc' # "off" /\ Kept
    BY <1>8 DEF process_exec, SyscallFile, Goto
  <2> QED BY <2>1 DEF Where, Starts, BeforeStar, BeforeIdt, BeforeGdt, BootLate
<1>9. CASE Shell
  <2>1. pc = "shell" /\ UNCHANGED <<world, ramdisk, pm>>
    BY <1>9 DEF Shell, CommandPrints, CommandDir, CommandPoweroff, CommandReboot, CommandRm, CommandType,
       CommandExec, SameMemory, Line
  <2>2. CommandPoweroff \/ (ports' = ports /\ pc' # "off")
    BY <1>9 DEF Shell, CommandPrints, CommandDir, CommandReboot, CommandRm, CommandType, CommandExec, Goto
  <2> QED BY <2>1, <2>2 DEF Where, Starts, BeforeStar, BeforeIdt, BeforeGdt, BootLate
<1>10. CASE Cpu(Exception) \/ Cpu(TakeInterrupt)
  <2>1. UNCHANGED <<world, memory>>
    BY <1>10 DEF Cpu
  <2>2. pc' \in {pc, "panic"} \/ (pc = "user" /\ pc' # "off")
    <3>1. ring = 3 => pc = "user"
      BY DEF CpuInv, PlacesOK
    <3>2. exception_handler => pc' \in {pc, "panic"} \/ (pc = "user" /\ pc' # "off")
      BY <3>1 DEF exception_handler, asm_return_to_kernel
    <3>3. exception_handler \/ UNCHANGED cpu
      BY <1>10 DEF Cpu, Exception, TakeInterrupt
    <3> QED BY <3>2, <3>3 DEF cpu
  <2> QED BY <1>2, <1>3, <2>1, <2>2 DEF Starts, BeforeStar, BeforeIdt, BeforeGdt, BootLate
<1>11. ASSUME NEW n \in world.devices, Cpu(Raise(n)) PROVE Quiet /\ Stays
  <2>1. UNCHANGED <<world, memory, pc>>
    BY <1>11 DEF Cpu, Raise, cpu
  <2> QED BY <1>2, <2>1
<1> QED BY <1>1, <1>4, <1>5, <1>6, <1>7, <1>8, <1>9, <1>10, <1>11 DEF Next, Kernel

-----------------------------------------------------------------------------
(* Power management. *)

\* The search in the DSDT, step by step.
LEMMA BasesSteps ==
  ASSUME NEW dsdt \in Seq(0..255)
  PROVE  /\ Bases(dsdt)[0] = 0
         /\ \A n \in 1..Len(dsdt) : Bases(dsdt)[n] = Moved(dsdt, n)[Bases(dsdt)[n - 1]]
<1> DEFINE N == Len(dsdt)
           Eq(f) == f = [n \in 0..N |-> IF n = 0 THEN 0 ELSE Moved(dsdt, n)[f[n - 1]]]
           w == CHOOSE f : Eq(f)
<1>1. N \in Nat
  OBVIOUS
<1>2. PICK g : g = [n \in 1..N |-> Moved(dsdt, n)]
  OBVIOUS
<1>3. \A n \in 1..N : \A x \in Nat : g[n][x] \in Nat
  <2>1. ASSUME NEW n \in 1..N, NEW x \in Nat PROVE Moved(dsdt, n)[x] \in Nat
    BY DEF Moved
  <2> QED BY <1>2, <2>1
<1>4. PICK f : IsLoop(f, N, Nat, 0, g)
  BY <1>1, <1>3, LoopRuns
<1>5. \E h : Eq(h)
  <2>1. ASSUME NEW n \in 0..N PROVE f[n] = IF n = 0 THEN 0 ELSE Moved(dsdt, n)[f[n - 1]]
    <3>1. n = 0 \/ n \in 1..N
      BY <1>1
    <3> QED BY <1>2, <1>4, <3>1 DEF IsLoop
  <2>2. f = [n \in 0..N |-> f[n]]
    BY <1>4 DEF IsLoop
  <2>3. Eq(f)
    BY <2>1, <2>2
  <2> QED BY <2>3
<1>6. Eq(w)
  BY <1>5, Zenon
<1>7. Bases(dsdt) = w
  BY DEF Bases
<1> HIDE DEF w
<1>8. \A n \in 0..N : w[n] = IF n = 0 THEN 0 ELSE Moved(dsdt, n)[w[n - 1]]
  BY <1>6
<1>9. 0 \in 0..N /\ \A n \in 1..N : n \in 0..N /\ n # 0
  BY <1>1
<1> QED BY <1>7, <1>8, <1>9

\* acpi_init finds the sleep type that the DSDT defines.
LEMMA FindsS5 ==
  ASSUME NEW dsdt \in Seq(0..255), NEW v, DefinesS5(dsdt, v)
  PROVE  S5(dsdt) = v /\ v \in 0..255
<1>1. PICK d \in 1..Len(dsdt) :
        /\ IsDefinition(dsdt, d) /\ \A e \in 1..(d - 1) : ~IsDefinition(dsdt, e)
        /\ At(dsdt, d + 1) = PackageOp
        /\ \/ At(dsdt, d + 4) = BytePrefix /\ At(dsdt, d + 5) = v
           \/ At(dsdt, d + 4) = 1 /\ v = 1
  BY DEF DefinesS5
<1>2. PICK base : base = Bases(dsdt)
  OBVIOUS
<1>3. base[0] = 0 /\ \A n \in 1..Len(dsdt) : base[n] = Moved(dsdt, n)[base[n - 1]]
  BY <1>2, BasesSteps
<1>4. Len(dsdt) \in Nat /\ d \in Nat /\ d - 1 \in Nat
  OBVIOUS
<1>5. \A n \in 0..(d - 1) : base[n] = 0
  <2> DEFINE T == {n \in 0..(d - 1) : base[n] = 0}
  <2>1. 0 \in T
    BY <1>3, <1>4
  <2>2. ASSUME NEW n \in 1..(d - 1), n - 1 \in T PROVE n \in T
    <3>1. n \in 1..Len(dsdt) /\ base[n - 1] = 0 /\ ~IsDefinition(dsdt, n)
      BY <1>1, <2>2
    <3>2. Moved(dsdt, n)[0] = IF IsDefinition(dsdt, 0 + n) THEN 0 + n ELSE 0
      BY DEF Moved
    <3>3. 0 + n = n
      OBVIOUS
    <3>4. base[n] = 0
      BY <1>3, <3>1, <3>2, <3>3
    <3> QED BY <3>4
  <2> HIDE DEF T
  <2>3. 0..(d - 1) \subseteq T
    BY <1>4, <2>1, <2>2, Upwards
  <2> QED BY <2>3 DEF T
<1> DEFINE found == {n \in 1..Len(dsdt) : /\ IsDefinition(dsdt, base[n - 1] + n)
                                          /\ At(dsdt, base[n - 1] + n + 1) = PackageOp}
<1>6. d \in found
  <2>1. base[d - 1] = 0 /\ 0 + d = d /\ 0 + d + 1 = d + 1
    BY <1>4, <1>5
  <2> QED BY <1>1, <2>1
<1>7. \A n \in found : d <= n
  <2>1. SUFFICES ASSUME NEW n \in found, ~(d <= n) PROVE FALSE
    OBVIOUS
  <2>2. n \in 1..(d - 1) /\ n - 1 \in 0..(d - 1) /\ 0 + n = n
    BY <1>4, <2>1
  <2>3. IsDefinition(dsdt, n)
    BY <1>5, <2>1, <2>2
  <2> QED BY <1>1, <2>2, <2>3
<1>8. found \subseteq Nat
  OBVIOUS
<1>9. S5(dsdt) = IF found = {} THEN 0 ELSE SleepType(dsdt, base[Min(found) - 1] + Min(found))
  BY <1>2 DEF S5
<1> HIDE DEF found
<1>10. Min(found) = d
  <2>1. \A x \in found : (\A y \in found : x <= y) => x = d
    BY <1>4, <1>6, <1>7, <1>8
  <2> QED BY <1>6, <1>7, <2>1 DEF Min
<1>11. S5(dsdt) = SleepType(dsdt, d)
  <2>1. base[d - 1] + d = d
    BY <1>4, <1>5
  <2> QED BY <1>6, <1>9, <1>10, <2>1
<1>12. v \in 0..255
  <2>1. \A k \in 1..Len(dsdt) : dsdt[k] \in 0..255
    <3>1. ASSUME NEW S, NEW s \in Seq(S) PROVE \A k \in 1..Len(s) : s[k] \in S
      OBVIOUS
    <3> QED BY <3>1
  <2>2. ASSUME NEW k \in Nat PROVE At(dsdt, k) \in 0..255
    <3>1. DOMAIN dsdt = 1..Len(dsdt)
      OBVIOUS
    <3>2. CASE k \in DOMAIN dsdt
      BY <2>1, <3>1, <3>2 DEF At
    <3>3. CASE k \notin DOMAIN dsdt
      <4>1. At(dsdt, k) = 0
        BY <3>3 DEF At
      <4> QED BY <4>1
    <3> QED BY <3>2, <3>3
  <2>3. d + 4 \in Nat /\ d + 5 \in Nat
    BY <1>4
  <2>4. CASE v = 1
    BY <2>4
  <2>5. CASE v = At(dsdt, d + 5)
    BY <2>2, <2>3, <2>5
  <2> QED BY <1>1, <2>4, <2>5
<1> QED BY <1>1, <1>11, <1>12 DEF SleepType, BytePrefix

\* The shift and the enable bit in 16 bits: the sleep type's field has the low
\* three bits of the byte.
LEMMA ControlFields ==
  ASSUME NEW type \in 0..255, type % 64 # 0
  PROVE  /\ Shifted(type) # 0
         /\ SlpTyp(WithEnable(Shifted(type))) = type % 8 /\ SlpEn(WithEnable(Shifted(type))) = 1
<1>1. PICK v : v = Shifted(type)
  OBVIOUS
<1>2. v = (type % 64) * 1024
  BY <1>1 DEF Shifted, Word
<1>3. v \in Nat /\ v # 0 /\ (v \div 1024) = type % 64
  BY <1>2
<1>4. (v \div 1024) % 8 = type % 8
  BY <1>3
<1>5. CASE (v \div SLP_EN) % 2 = 1
  BY <1>1, <1>3, <1>4, <1>5 DEF WithEnable, SlpTyp, SlpEn
<1>6. CASE (v \div SLP_EN) % 2 # 1
  <2>1. ((v + 8192) \div 1024) % 8 = (v \div 1024) % 8
    BY <1>3
  <2>2. ((v + 8192) \div 8192) % 2 = 1
    BY <1>3, <1>6 DEF SLP_EN
  <2> QED BY <1>1, <1>3, <1>4, <1>6, <2>1, <2>2 DEF WithEnable, SlpTyp, SlpEn, SLP_EN
<1> QED BY <1>5, <1>6

\* Once the machine is up, pm is what acpi_init made of the firmware's tables,
\* and the ports have been written by acpi_init and, when off, by poweroff.
PowerOK ==
  Where \notin Starts =>
    /\ pm = acpi_init(world.firmware)
    /\ ports = IF pc = "off" THEN pm.out \o acpi_poweroff(pm) ELSE pm.out

LEMMA PowerStep == ASSUME CpuInv, PowerOK, [Next]_vars PROVE PowerOK'
<1>1. CASE BootStep
  <2>1. CASE pc = "acpi_init"
    <3>1. pc' = "shell" /\ pm' = acpi_init(world.firmware) /\ ports' = pm'.out /\ UNCHANGED world
      BY <1>1, <2>1, BootMoves
    <3> QED BY <3>1 DEF PowerOK
  <2>2. CASE pc # "acpi_init"
    BY <1>1, <2>2, BootMoves DEF PowerOK
  <2> QED BY <2>1, <2>2
<1>2. CASE ~BootStep
  <2>1. /\ Where \in Starts => Where' \in {Where, "panic"}
        /\ UNCHANGED <<world, pm>>
        /\ CommandPoweroff \/ (ports' = ports /\ (pc' = "off" => pc = "off"))
    BY <1>2, OtherMoves
  <2>2. "panic" \in Starts
    BY DEF Starts
  <2>3. CASE Where \in Starts
    BY <2>1, <2>2, <2>3 DEF PowerOK
  <2>4. CASE Where \notin Starts /\ CommandPoweroff
    <3>1. pc = "shell" /\ pc' = "off" /\ ports' = ports \o acpi_poweroff(pm)
      BY <2>4 DEF CommandPoweroff, Line
    <3> QED BY <2>1, <2>4, <3>1 DEF PowerOK
  <2>5. CASE Where \notin Starts /\ ports' = ports /\ (pc' = "off" => pc = "off")
    <3>1. pc = "off" => pc' = "off" \/ Where' \in Starts
      <4>1. SUFFICES ASSUME pc = "off", pc' # "off" PROVE Where' \in Starts
        OBVIOUS
      <4>2. ~if_flag
        BY <4>1 DEF CpuInv, FlagsOK, Where, Halts
      <4>3. UNCHANGED pc
        BY <1>2, <4>1, <4>2 DEF Next, Kernel, Cpu, DiskStep, AtaStep, AtaReturns, process_exec, pic_remap, jump_usermode,
           SysRet, syscall_entry, LeaveSyscall, SyscallConsole, SyscallGetchar, SyscallExit, SyscallFile, Transfer,
           FsReturns, Shell, CommandPrints, CommandDir, CommandPoweroff, CommandReboot, CommandRm, CommandType,
           CommandExec, Line, Syscall, Getchar, Exception, TakeInterrupt, Raise, Drive, vars, interrupts, cpu
      <4> QED BY <4>1, <4>3
    <3> QED BY <2>1, <2>5, <3>1 DEF PowerOK
  <2> QED BY <2>1, <2>3, <2>4, <2>5
<1> QED BY <1>1, <1>2

\* A sequence of at most one write.
LEMMA OneWrite ==
  ASSUME NEW C, NEW x \in C, NEW s, s = <<>> \/ s = <<x>>
  PROVE  s \in Seq(C) /\ Len(s) \in Nat
<1>1. CASE s = <<>>
  BY <1>1
<1>2. CASE s = <<x>>
  BY <1>2
<1> QED BY <1>1, <1>2

\* What is written after it is the last write.
LEMMA LastWritten ==
  ASSUME NEW x, NEW y, NEW s, s = <<>> \/ s = <<x>>
  PROVE  (s \o <<y>>)[Len(s \o <<y>>)] = y
<1> DEFINE C == {x, y}
<1>1. s \in Seq(C) /\ Len(s) \in Nat
  BY OneWrite
<1>2. <<y>> \in Seq(C) /\ Len(<<y>>) = 1 /\ <<y>>[1] = y
  OBVIOUS
<1> HIDE DEF C
<1>3. IsJoin(s \o <<y>>, s, <<y>>, C)
  BY <1>1, <1>2, Together
<1>4. Len(s \o <<y>>) = Len(s) + 1 /\ (s \o <<y>>)[Len(s) + 1] = <<y>>[1]
  BY <1>1, <1>2, <1>3 DEF IsJoin
<1> QED BY <1>2, <1>4

\* Two writes after it are among all of them.
LEMMA BothWritten ==
  ASSUME NEW x, NEW y, NEW z, NEW s, s = <<>> \/ s = <<x>>, NEW u \in Seq({y, z}),
         Len(u) = 2, u[1] = y, u[2] = z
  PROVE  y \in Range(s \o u) /\ z \in Range(s \o u)
<1> DEFINE C == {x, y, z}
<1>1. s \in Seq(C) /\ Len(s) \in Nat
  BY OneWrite
<1>2. u \in Seq(C) /\ Len(u) = 2 /\ u[1] = y /\ u[2] = z
  <2>1. {y, z} \subseteq C
    OBVIOUS
  <2> HIDE DEF C
  <2> QED BY <2>1
<1> HIDE DEF C
<1>3. IsJoin(s \o u, s, u, C)
  BY <1>1, <1>2, Together
<1>4. s \o u \in Seq(C) /\ Len(s \o u) = Len(s) + 2 /\ (s \o u)[Len(s) + 1] = y /\ (s \o u)[Len(s) + 2] = z
  BY <1>1, <1>2, <1>3 DEF IsJoin
<1>5. Len(s) + 1 \in DOMAIN (s \o u) /\ Len(s) + 2 \in DOMAIN (s \o u)
  <2>1. DOMAIN (s \o u) = 1..(Len(s) + 2)
    BY <1>4
  <2> QED BY <1>1, <2>1
<1> QED BY <1>4, <1>5 DEF Range

\* poweroff asks the chipset for the sleep state that the first FADT's DSDT
\* defines, for every list of tables and every DSDT with a proper definition
\* of it, and the emulators' ports when no such table was found.
THEOREM PowerAlwaysOff == Spec => []PowersOff
<1>1. Init => PowerOK
  BY DEF Init, CpuInit, PowerOK, Where, Starts, BeforeStar, BeforeIdt, BeforeGdt
<1>2. CpuInv /\ PowerOK /\ [Next]_vars => PowerOK'
  BY PowerStep
<1>3. CpuInv /\ PowerOK => PowersOff
  <2>1. SUFFICES ASSUME CpuInv, PowerOK, pc = "off" PROVE PowersOff
    <3>1. pc # "off" => PowersOff
      BY DEF PowersOff
    <3> QED BY <3>1
  <2> DEFINE fw == world.firmware
             rsdt == fw.rsdt
             used == {k \in 1..Len(rsdt) : /\ fw.rsdp /\ rsdt[k].sig = "FACP" /\ rsdt[k].pm1a # 0
                                           /\ \A j \in 1..(k - 1) : rsdt[j].sig # "FACP"}
             F == Fadts(fw)
             Fall == {<<Fallback[k], SLP_EN>> : k \in 1..2}
             Asks(t) == t.pm1a < Word /\ t.s5 % 64 # 0 =>
                          LET last == ports[Len(ports)]
                          IN last[1] = t.pm1a /\ SlpTyp(last[2]) = t.s5 % 8 /\ SlpEn(last[2]) = 1
  <2>2. /\ rsdt \in Seq(Range(rsdt)) /\ Len(rsdt) \in Nat
        /\ \A k \in 1..Len(rsdt) : 
             /\ rsdt[k].dsdt \in Seq(0..255) /\ rsdt[k].pm1a \in Nat
             /\ rsdt[k].s5 # 0 => DefinesS5(rsdt[k].dsdt, rsdt[k].s5)
    <3>1. world \in Worlds
      BY <2>1 DEF CpuInv
    <3>2. /\ rsdt \in Seq(Range(rsdt))
          /\ \A t \in Range(rsdt) : /\ t.dsdt \in Seq(0..255) /\ t.pm1a \in Nat
                                    /\ t.s5 # 0 => DefinesS5(t.dsdt, t.s5)
      BY <3>1, MachineAssumption
    <3> HIDE DEF rsdt
    <3>3. Len(rsdt) \in Nat /\ \A k \in 1..Len(rsdt) : rsdt[k] \in Range(rsdt)
      BY <3>2
    <3> QED BY <3>2, <3>3
  <2>3. pm = acpi_init(fw) /\ ports = pm.out \o acpi_poweroff(pm)
    BY <2>1 DEF PowerOK, Where, Starts, BeforeStar, BeforeIdt, BeforeGdt, BootLate
  <2>4. F = {k \in 1..Len(rsdt) : rsdt[k].sig = "FACP"}
    BY DEF Fadts
  <2>5. SUFFICES /\ \A k \in used : Asks(rsdt[k])
                 /\ used = {} => Fall \subseteq Range(ports)
    BY DEF PowersOff
  <2>6. ASSUME pm.pm1a = 0, NEW x, pm.out = <<>> \/ pm.out = <<x>> PROVE Fall \subseteq Range(ports)
    <3>1. PICK u : u = acpi_poweroff(pm)
      OBVIOUS
    <3>2. u = [k \in 1..2 |-> <<Fallback[k], SLP_EN>>]
      BY <2>6, <3>1 DEF acpi_poweroff
    <3>3. PICK y : y = <<Fallback[1], SLP_EN>>
      OBVIOUS
    <3>4. PICK z : z = <<Fallback[2], SLP_EN>>
      OBVIOUS
    <3>5. u \in Seq({y, z}) /\ Len(u) = 2 /\ u[1] = y /\ u[2] = z
      <4>1. \A k \in 1..2 : <<Fallback[k], SLP_EN>> \in {y, z}
        BY <3>3, <3>4
      <4> QED BY <3>2, <3>3, <3>4, <4>1
    <3>6. y \in Range(pm.out \o u) /\ z \in Range(pm.out \o u)
      BY <2>6, <3>5, BothWritten
    <3>7. \A e \in Fall : e = y \/ e = z
      BY <3>3, <3>4
    <3> QED BY <2>3, <3>1, <3>6, <3>7
  <2>7. CASE ~fw.rsdp \/ F = {}
    <3>1. pm = [pm1a |-> 0, slp_typa |-> 0, out |-> <<>>]
      BY <2>3, <2>7 DEF acpi_init
    <3>2. pm.pm1a = 0 /\ pm.out = <<>>
      BY <3>1
    <3>3. used = {}
      BY <2>4, <2>7
    <3> QED BY <2>6, <3>2, <3>3
  <2>8. CASE fw.rsdp /\ F # {}
    <3>0. F \in SUBSET Nat
      BY <2>2, <2>4
    <3>1. PICK q \in F : \A k \in F : q <= k
      BY <2>8, <3>0, LeastNumber
    <3>2. Min(F) = q
      <4>1. \A x \in F : (\A y \in F : x <= y) => x = q
        BY <3>0, <3>1
      <4> QED BY <3>1, <4>1 DEF Min
    <3>3. q \in 1..Len(rsdt) /\ rsdt[q].sig = "FACP" /\ \A k \in used : k = q
      <4>1. ASSUME NEW k \in used PROVE k = q
        <5>1. k \in F /\ \A j \in 1..(k - 1) : rsdt[j].sig # "FACP"
          BY <2>4
        <5>2. ~(q \in 1..(k - 1)) /\ q <= k /\ q \in 1..Len(rsdt) /\ k \in 1..Len(rsdt)
          BY <2>4, <3>1, <5>1
        <5> QED BY <2>2, <5>2
      <4> QED BY <2>4, <3>1, <4>1
    <3>4. PICK t : t = rsdt[q]
      OBVIOUS
    <3>5. /\ pm.pm1a = t.pm1a /\ pm.slp_typa = IF Shifted(S5(t.dsdt)) = 0 THEN Shifted(5) ELSE Shifted(S5(t.dsdt))
          /\ pm.out = <<>> \/ pm.out = << <<t.smi % Word, t.enable>> >>
      <4>1. pm = [pm1a |-> t.pm1a, slp_typa |-> IF Shifted(S5(t.dsdt)) = 0 THEN Shifted(5) ELSE Shifted(S5(t.dsdt)),
                  out |-> IF t.smi # 0 /\ t.enable # 0 THEN << <<t.smi % Word, t.enable>> >> ELSE <<>>]
        BY <2>3, <2>8, <3>2, <3>4 DEF acpi_init
      <4> QED BY <4>1
    <3>6. CASE t.pm1a = 0
      <4>1. used = {}
        BY <3>3, <3>4, <3>6
      <4> QED BY <2>6, <3>5, <3>6, <4>1
    <3>7. CASE t.pm1a # 0
      <4>1. \A j \in 1..(q - 1) : rsdt[j].sig # "FACP"
        <5>1. SUFFICES ASSUME NEW j \in 1..(q - 1), rsdt[j].sig = "FACP" PROVE FALSE
          OBVIOUS
        <5>2. j \in F /\ ~(q <= j)
          BY <2>2, <2>4, <3>3, <5>1
        <5> QED BY <3>1, <5>2
      <4>2. q \in used
        BY <2>8, <3>3, <3>4, <3>7, <4>1
      <4>3. ASSUME t.pm1a < Word, t.s5 % 64 # 0
            PROVE  /\ ports[Len(ports)][1] = t.pm1a
                   /\ SlpTyp(ports[Len(ports)][2]) = t.s5 % 8 /\ SlpEn(ports[Len(ports)][2]) = 1
        <5>0. t.s5 # 0 /\ t.pm1a \in Nat
          BY <2>2, <3>3, <3>4, <4>3
        <5>9. t.dsdt \in Seq(0..255) /\ DefinesS5(t.dsdt, t.s5)
          BY <2>2, <3>3, <3>4, <5>0
        <5>1. S5(t.dsdt) = t.s5 /\ t.s5 \in 0..255
          BY <5>9, FindsS5
        <5>2. pm.slp_typa = Shifted(t.s5)
          BY <3>5, <4>3, <5>1, ControlFields
        <5>3. t.pm1a % Word = t.pm1a
          BY <4>3, <5>0 DEF Word
        <5>4. PICK y : y = <<t.pm1a, WithEnable(Shifted(t.s5))>>
          OBVIOUS
        <5>5. acpi_poweroff(pm) = <<y>>
          BY <3>5, <3>7, <5>2, <5>3, <5>4 DEF acpi_poweroff
        <5>6. ports[Len(ports)] = y
          BY <2>3, <3>5, <5>5, LastWritten
        <5>7. /\ SlpTyp(WithEnable(Shifted(t.s5))) = t.s5 % 8
              /\ SlpEn(WithEnable(Shifted(t.s5))) = 1
          BY <4>3, <5>1, ControlFields
        <5>8. y[1] = t.pm1a /\ y[2] = WithEnable(Shifted(t.s5))
          BY <5>4
        <5> QED BY <5>6, <5>7, <5>8
      <4> QED BY <3>3, <3>4, <4>2, <4>3
    <3> QED BY <3>6, <3>7
  <2> QED BY <2>7, <2>8
<1> QED BY <1>1, <1>2, <1>3, CpuAlways, PTL DEF Spec

-----------------------------------------------------------------------------
(* The archive: sizes. *)

\* A number loses its last octal digits one by one.
LEMMA RestSteps ==
  ASSUME NEW n \in Nat
  PROVE  /\ Rest(n)[0] = n /\ \A k \in 0..SizeDigits : Rest(n)[k] \in Nat
         /\ \A k \in 1..SizeDigits : Rest(n)[k] = Rest(n)[k - 1] \div 8
<1> DEFINE N == SizeDigits
           Eq(f) == f = [k \in 0..N |-> IF k = 0 THEN n ELSE f[k - 1] \div 8]
           w == CHOOSE f : Eq(f)
<1>1. N \in Nat
  BY TarFSAssumption
<1>2. PICK g : g = [k \in 1..N |-> [x \in Nat |-> x \div 8]]
  OBVIOUS
<1>3. \A k \in 1..N : \A x \in Nat : g[k][x] \in Nat
  BY <1>2
<1>4. PICK f : IsLoop(f, N, Nat, n, g)
  BY <1>1, <1>3, LoopRuns
<1>5. \E h : Eq(h)
  <2>1. ASSUME NEW k \in 0..N PROVE f[k] = IF k = 0 THEN n ELSE f[k - 1] \div 8
    <3>1. k = 0 \/ (k \in 1..N /\ k - 1 \in 0..N)
      BY <1>1
    <3> QED BY <1>2, <1>4, <3>1 DEF IsLoop
  <2>2. f = [k \in 0..N |-> f[k]]
    BY <1>4 DEF IsLoop
  <2>3. Eq(f)
    BY <2>1, <2>2
  <2> QED BY <2>3
<1>6. Eq(w)
  BY <1>5, Zenon
<1>7. Rest(n) = w
  BY DEF Rest
<1> HIDE DEF w
<1>8. \A k \in 0..N : w[k] = IF k = 0 THEN n ELSE w[k - 1] \div 8
  BY <1>6
<1>9. w[0] = n /\ \A k \in 1..N : w[k] = w[k - 1] \div 8
  <2>1. 0 \in 0..N /\ \A k \in 1..N : k \in 0..N /\ k # 0
    BY <1>1
  <2> QED BY <1>8, <2>1
<1>10. \A k \in 0..N : w[k] \in Nat
  <2> DEFINE T == {k \in 0..N : w[k] \in Nat}
  <2>1. 0 \in T
    BY <1>1, <1>9
  <2>2. ASSUME NEW k \in 1..N, k - 1 \in T PROVE k \in T
    BY <1>9, <2>2
  <2> HIDE DEF T
  <2>3. 0..N \subseteq T
    BY <1>1, <2>1, <2>2, Upwards
  <2> QED BY <2>3 DEF T
<1> QED BY <1>7, <1>9, <1>10

\* octal_to_int, digit by digit, on a field without a zero byte.
LEMMA OctalSteps ==
  ASSUME NEW field, \A k \in 1..SizeDigits : field[k] \in Nat \ {NUL}
  PROVE  \E f : /\ f[0] = 0 /\ octal_to_int(field) = f[SizeDigits]
                /\ \A k \in 1..SizeDigits : f[k] = IF field[k] \in 0..7 THEN f[k - 1] * 8 + field[k] ELSE f[k - 1]
<1> DEFINE N == SizeDigits
           Eq(f) == f = [n \in 0..N |->
                           IF n = 0 THEN 0
                           ELSE IF (\A j \in 1..n : field[j] # NUL) /\ field[n] \in 0..7
                                  THEN f[n - 1] * 8 + field[n] ELSE f[n - 1]]
           w == CHOOSE f : Eq(f)
<1>1. N \in Nat
  BY TarFSAssumption
<1>2. PICK g : g = [n \in 1..N |-> [x \in Nat |-> IF field[n] \in 0..7 THEN x * 8 + field[n] ELSE x]]
  OBVIOUS
<1>3. \A n \in 1..N : \A x \in Nat : g[n][x] \in Nat
  <2>1. ASSUME NEW n \in 1..N, NEW x \in Nat
        PROVE  (IF field[n] \in 0..7 THEN x * 8 + field[n] ELSE x) \in Nat
    OBVIOUS
  <2> QED BY <1>2, <2>1
<1>4. PICK f : IsLoop(f, N, Nat, 0, g)
  BY <1>1, <1>3, LoopRuns
<1>5. \A n \in 1..N : \A j \in 1..n : field[j] # NUL
  BY <1>1
<1>6. \E h : Eq(h)
  <2>1. ASSUME NEW n \in 0..N
        PROVE  f[n] = IF n = 0 THEN 0
                      ELSE IF (\A j \in 1..n : field[j] # NUL) /\ field[n] \in 0..7
                             THEN f[n - 1] * 8 + field[n] ELSE f[n - 1]
    <3>1. n = 0 \/ (n \in 1..N /\ n - 1 \in 0..N)
      BY <1>1
    <3> QED BY <1>2, <1>4, <1>5, <3>1 DEF IsLoop
  <2>2. f = [n \in 0..N |-> f[n]]
    BY <1>4 DEF IsLoop
  <2>3. Eq(f)
    BY <2>1, <2>2
  <2> QED BY <2>3
<1>7. Eq(w)
  BY <1>6, Zenon
<1>8. octal_to_int(field) = w[N]
  BY DEF octal_to_int
<1> HIDE DEF w
<1>9. \A n \in 0..N : w[n] = IF n = 0 THEN 0
                             ELSE IF (\A j \in 1..n : field[j] # NUL) /\ field[n] \in 0..7
                                    THEN w[n - 1] * 8 + field[n] ELSE w[n - 1]
  BY <1>7
<1>10. 0 \in 0..N /\ \A n \in 1..N : n \in 0..N /\ n # 0
  BY <1>1
<1>11. w[0] = 0 /\ \A n \in 1..N : w[n] = IF field[n] \in 0..7 THEN w[n - 1] * 8 + field[n] ELSE w[n - 1]
  BY <1>5, <1>9, <1>10
<1> QED BY <1>8, <1>11

\* The size that tar writes is the size that is read.
LEMMA OctalRoundTrip ==
  ASSUME NEW n \in Nat, NEW pad \in {0, Blank}, Rest(n)[SizeDigits] = 0
  PROVE  octal_to_int(SizeField(n, pad)) = n
<1> DEFINE N == SizeDigits
<1>0. N \in Nat
  BY TarFSAssumption
<1>1. PICK r : r = Rest(n)
  OBVIOUS
<1>2. /\ r[0] = n /\ r[N] = 0 /\ \A k \in 0..N : r[k] \in Nat
      /\ \A k \in 1..N : r[k] = r[k - 1] \div 8
  BY <1>1, RestSteps
<1>3. PICK field : field = SizeField(n, pad)
  OBVIOUS
<1>4. \A k \in 1..N : field[k] = IF r[N - k] = 0 THEN pad ELSE r[N - k] % 8
  BY <1>1, <1>3 DEF SizeField
<1>5. \A k \in 1..N : N - k \in 0..N /\ r[N - k] \in Nat /\ r[N - k] % 8 \in 0..7
  <2>1. \A k \in 1..N : N - k \in 0..N
    BY <1>0
  <2>2. \A k \in 1..N : r[N - k] \in Nat
    BY <1>2, <2>1
  <2>3. \A x \in Nat : x % 8 \in 0..7
    OBVIOUS
  <2> QED BY <2>1, <2>2, <2>3
<1>6. \A k \in 1..N : field[k] \in Nat \ {NUL}
  BY <1>4, <1>5 DEF NUL, Blank
<1>7. PICK f : /\ f[0] = 0 /\ octal_to_int(field) = f[N]
               /\ \A k \in 1..N : f[k] = IF field[k] \in 0..7 THEN f[k - 1] * 8 + field[k] ELSE f[k - 1]
  BY <1>6, OctalSteps
<1>8. \A k \in 0..N : f[k] = r[N - k]
  <2> DEFINE T == {k \in 0..N : f[k] = r[N - k]}
  <2>1. 0 \in T
    BY <1>0, <1>2, <1>7
  <2>2. ASSUME NEW k \in 1..N, k - 1 \in T PROVE k \in T
    <3>1. N - (k - 1) \in 1..N /\ N - (k - 1) - 1 = N - k
      BY <1>0
    <3>2. PICK x \in Nat : x = r[N - k]
      BY <1>5
    <3>3. f[k - 1] = x \div 8
      BY <1>2, <2>2, <3>1, <3>2
    <3>4. f[k] = IF field[k] \in 0..7 THEN (x \div 8) * 8 + field[k] ELSE x \div 8
      BY <1>7, <3>3
    <3>5. CASE x = 0
      <4>1. field[k] = pad
        BY <1>4, <3>2, <3>5
      <4>2. x \div 8 = 0
        BY <3>5
      <4>3. f[k] = 0
        BY <3>4, <4>1, <4>2 DEF Blank
      <4>4. f[k] = r[N - k] /\ k \in 0..N
        BY <3>2, <3>5, <4>3
      <4> QED BY <4>4
    <3>6. CASE x # 0
      <4>1. field[k] = x % 8 /\ x % 8 \in 0..7
        BY <1>4, <3>2, <3>6
      <4>2. (x \div 8) * 8 + (x % 8) = x
        OBVIOUS
      <4> QED BY <3>2, <3>4, <4>1, <4>2
    <3> QED BY <3>5, <3>6
  <2> HIDE DEF T
  <2>3. 0..N \subseteq T
    BY <1>0, <2>1, <2>2, Upwards
  <2> QED BY <2>3 DEF T
<1>9. f[N] = n
  BY <1>0, <1>2, <1>8
<1> QED BY <1>3, <1>7, <1>9

-----------------------------------------------------------------------------
(* The archive: where its blocks are. *)

Header(m, pad) == Block(m.name, SizeField(Len(m.text), pad), IF m.dir THEN Directory ELSE "0", <<>>)
Count(m) == file_blocks(Len(m.text))
Members(ms) == ms \in Seq(Range(ms)) /\ \A n \in 1..Len(ms) : MemberOK(ms[n])

\* B holds every block of the archive.
Holds(B, ms, pad) ==
  /\ EndBlock \in B
  /\ \A n \in 1..Len(ms) :
       Header(ms[n], pad) \in B /\ \A b \in 1..Count(ms[n]) : DataBlocks(ms[n].text)[b] \in B

LEMMA HeldBlocks == ASSUME NEW ms, NEW pad PROVE \E B : Holds(B, ms, pad)
<1> DEFINE D(n) == {DataBlocks(ms[n].text)[b] : b \in 1..Count(ms[n])}
           B == {EndBlock} \cup {Header(ms[n], pad) : n \in 1..Len(ms)} \cup UNION {D(n) : n \in 1..Len(ms)}
<1>1. ASSUME NEW n \in 1..Len(ms), NEW b \in 1..Count(ms[n]) PROVE DataBlocks(ms[n].text)[b] \in B
  <2>1. DataBlocks(ms[n].text)[b] \in D(n)
    OBVIOUS
  <2> HIDE DEF D
  <2> QED BY <2>1
<1>2. ASSUME NEW n \in 1..Len(ms) PROVE Header(ms[n], pad) \in B
  OBVIOUS
<1>3. EndBlock \in B
  OBVIOUS
<1> HIDE DEF B
<1> QED BY <1>1, <1>2, <1>3 DEF Holds

\* The size of a member in blocks.
LEMMA MemberSize ==
  ASSUME NEW m, MemberOK(m)
  PROVE  /\ Len(m.text) \in Nat /\ Count(m) \in Nat
         /\ DOMAIN DataBlocks(m.text) = 1..Count(m)
<1>1. Len(m.text) \in Nat
  <2>1. PICK text : text = m.text
    OBVIOUS
  <2>2. PICK C : text \in Seq(C)
    BY <2>1 DEF MemberOK
  <2> QED BY <2>1, <2>2
<1>2. PICK len \in Nat : len = Len(m.text)
  BY <1>1
<1>3. (len + BlockSize - 1) \div BlockSize \in Nat
  <2>1. PICK d \in Nat : d = BlockSize /\ d # 0
    BY TarFSAssumption
  <2>2. PICK a \in Nat : a = len + d - 1
    BY <2>1
  <2>3. a \div d \in Nat
    BY <2>1, <2>2
  <2> QED BY <2>1, <2>2, <2>3
<1>4. Count(m) \in Nat
  BY <1>2, <1>3 DEF Count, file_blocks
<1>5. DOMAIN DataBlocks(m.text) = 1..Count(m)
  BY DEF DataBlocks, Count, file_blocks
<1> QED BY <1>1, <1>4, <1>5

\* The blocks of a member.
LEMMA MemberShape ==
  ASSUME NEW m, MemberOK(m), NEW pad, NEW B, Header(m, pad) \in B,
         \A b \in 1..Count(m) : DataBlocks(m.text)[b] \in B
  PROVE  /\ MemberBlocks(m, pad) \in Seq(B) /\ Len(MemberBlocks(m, pad)) = 1 + Count(m)
         /\ MemberBlocks(m, pad)[1] = Header(m, pad)
         /\ \A b \in 1..Count(m) : MemberBlocks(m, pad)[1 + b] = DataBlocks(m.text)[b]
<1>1. PICK c \in Nat : c = Count(m)
  BY MemberSize
<1>2. PICK d : d = DataBlocks(m.text)
  OBVIOUS
<1>3. d = [b \in 1..c |-> d[b]]
  <2>1. d = [b \in DOMAIN d |-> d[b]]
    BY <1>2 DEF DataBlocks
  <2> QED BY <1>1, <1>2, <2>1, MemberSize
<1>4. d \in Seq(B) /\ Len(d) = c
  BY <1>1, <1>2, <1>3
<1>5. PICK h : h = Header(m, pad)
  OBVIOUS
<1>6. <<h>> \in Seq(B) /\ Len(<<h>>) = 1 /\ <<h>>[1] = h
  BY <1>5
<1>7. IsJoin(<<h>> \o d, <<h>>, d, B)
  BY <1>4, <1>6, Together
<1>8. MemberBlocks(m, pad) = <<h>> \o d
  BY <1>2, <1>5 DEF MemberBlocks, Header
<1> QED BY <1>1, <1>2, <1>4, <1>5, <1>6, <1>7, <1>8 DEF IsJoin

\* The archive, member by member.
Grows(f, ms, pad, ended, B) ==
  /\ f[0] = <<>> /\ \A n \in 0..Len(ms) : f[n] \in Seq(B)
  /\ \A n \in 1..Len(ms) : f[n] = f[n - 1] \o MemberBlocks(ms[n], pad)
  /\ Archive(ms, pad, ended) = f[Len(ms)] \o (IF ended THEN <<EndBlock, EndBlock>> ELSE <<>>)

LEMMA ArchiveSteps ==
  ASSUME NEW ms, Members(ms), NEW pad, NEW ended, NEW B, Holds(B, ms, pad)
  PROVE  \E f : Grows(f, ms, pad, ended, B)
<1> DEFINE M == Len(ms)
           Eq(f) == f = [n \in 0..M |-> IF n = 0 THEN <<>> ELSE f[n - 1] \o MemberBlocks(ms[n], pad)]
           w == CHOOSE f : Eq(f)
<1>1. M \in Nat /\ <<>> \in Seq(B)
  BY DEF Members
<1>2. PICK g : g = [n \in 1..M |-> [x \in Seq(B) |-> x \o MemberBlocks(ms[n], pad)]]
  OBVIOUS
<1>3. \A n \in 1..M : MemberBlocks(ms[n], pad) \in Seq(B)
  BY MemberShape DEF Members, Holds
<1>4. \A n \in 1..M : \A x \in Seq(B) : g[n][x] \in Seq(B)
  <2>1. ASSUME NEW n \in 1..M, NEW x \in Seq(B) PROVE x \o MemberBlocks(ms[n], pad) \in Seq(B)
    <3>1. PICK y \in Seq(B) : y = MemberBlocks(ms[n], pad)
      BY <1>3
    <3>2. x \o y \in Seq(B)
      OBVIOUS
    <3> QED BY <3>1, <3>2
  <2> QED BY <1>2, <2>1
<1>5. PICK f : IsLoop(f, M, Seq(B), <<>>, g)
  BY <1>1, <1>4, LoopRuns
<1>6. ASSUME NEW n \in 0..M PROVE f[n] = IF n = 0 THEN <<>> ELSE f[n - 1] \o MemberBlocks(ms[n], pad)
  <2>1. n = 0 \/ (n \in 1..M /\ n - 1 \in 0..M)
    BY <1>1
  <2> QED BY <1>2, <1>5, <2>1 DEF IsLoop
<1>7. \E h : Eq(h)
  <2>1. f = [n \in 0..M |-> f[n]]
    BY <1>5 DEF IsLoop
  <2>2. Eq(f)
    BY <1>6, <2>1
  <2> QED BY <2>2
<1>8. Eq(w)
  BY <1>7, Zenon
<1>9. Archive(ms, pad, ended) = w[M] \o (IF ended THEN <<EndBlock, EndBlock>> ELSE <<>>)
  BY DEF Archive
<1> HIDE DEF w
<1>10. \A n \in 0..M : w[n] = IF n = 0 THEN <<>> ELSE w[n - 1] \o MemberBlocks(ms[n], pad)
  BY <1>8
<1>11. 0 \in 0..M /\ \A n \in 1..M : n \in 0..M /\ n # 0
  BY <1>1
<1>12. w[0] = <<>> /\ \A n \in 1..M : w[n] = w[n - 1] \o MemberBlocks(ms[n], pad)
  BY <1>10, <1>11
<1>13. \A n \in 0..M : w[n] = f[n]
  <2> DEFINE T == {n \in 0..M : w[n] = f[n]}
  <2>1. 0 \in T
    BY <1>6, <1>11, <1>12
  <2>2. ASSUME NEW n \in 1..M, n - 1 \in T PROVE n \in T
    BY <1>6, <1>11, <1>12, <2>2
  <2> HIDE DEF T
  <2>3. 0..M \subseteq T
    BY <1>1, <2>1, <2>2, Upwards
  <2> QED BY <2>3 DEF T
<1>14. \A n \in 0..M : w[n] \in Seq(B)
  BY <1>5, <1>13 DEF IsLoop
<1> QED BY <1>9, <1>12, <1>14 DEF Grows

\* The n-th member starts behind start[n - 1] blocks.
LaidOut(I, start, ms, pad) ==
  /\ Len(I) \in Nat /\ start \in [0..Len(ms) -> 0..Len(I)] /\ start[0] = 0
  /\ \A n \in 1..Len(ms) :
       /\ start[n] = start[n - 1] + 1 + Count(ms[n])
       /\ I[start[n - 1] + 1] = Header(ms[n], pad)
       /\ \A b \in 1..Count(ms[n]) : I[start[n - 1] + 1 + b] = DataBlocks(ms[n].text)[b]
  /\ AtEnd(I, start[Len(ms)])

LEMMA Layout ==
  ASSUME NEW ms, Members(ms), NEW pad, NEW ended
  PROVE  \E start : LaidOut(Archive(ms, pad, ended), start, ms, pad)
<1> DEFINE M == Len(ms)
<1>0. M \in Nat
  BY DEF Members
<1>1. PICK B : Holds(B, ms, pad)
  BY HeldBlocks
<1>2. PICK f : /\ f[0] = <<>> /\ \A n \in 0..M : f[n] \in Seq(B)
               /\ \A n \in 1..M : f[n] = f[n - 1] \o MemberBlocks(ms[n], pad)
               /\ Archive(ms, pad, ended) = f[M] \o (IF ended THEN <<EndBlock, EndBlock>> ELSE <<>>)
  <2>1. \E f : Grows(f, ms, pad, ended, B)
    BY <1>1, ArchiveSteps
  <2> QED BY <2>1, Zenon DEF Grows
<1>3. PICK I : I = Archive(ms, pad, ended)
  OBVIOUS
<1>4. PICK tail : tail = IF ended THEN <<EndBlock, EndBlock>> ELSE <<>>
  OBVIOUS
<1>5. tail \in Seq(B) /\ (Len(tail) = 0 \/ (Len(tail) = 2 /\ tail[1] = EndBlock))
  <2>1. EndBlock \in B
    BY <1>1 DEF Holds
  <2>2. PICK e : e = EndBlock
    OBVIOUS
  <2>3. <<e, e>> \in Seq(B) /\ Len(<<e, e>>) = 2 /\ <<e, e>>[1] = e /\ <<>> \in Seq(B) /\ Len(<<>>) = 0
    BY <2>1, <2>2
  <2> QED BY <1>4, <2>2, <2>3
<1>6. IsJoin(I, f[M], tail, B)
  <2>1. f[M] \in Seq(B)
    BY <1>0, <1>2
  <2>2. IsJoin(f[M] \o tail, f[M], tail, B)
    BY <1>5, <2>1, Together
  <2> QED BY <1>2, <1>3, <1>4, <2>2
<1>7. ASSUME NEW n \in 1..M
      PROVE  /\ n - 1 \in 0..M /\ n \in 0..M /\ Count(ms[n]) \in Nat
             /\ IsJoin(f[n], f[n - 1], MemberBlocks(ms[n], pad), B)
             /\ Len(MemberBlocks(ms[n], pad)) = 1 + Count(ms[n])
             /\ MemberBlocks(ms[n], pad)[1] = Header(ms[n], pad)
             /\ \A b \in 1..Count(ms[n]) : MemberBlocks(ms[n], pad)[1 + b] = DataBlocks(ms[n].text)[b]
  <2>1. n - 1 \in 0..M /\ n \in 0..M
    BY <1>0
  <2>2. f[n - 1] \in Seq(B)
    BY <1>2, <2>1
  <2>3. MemberOK(ms[n])
    BY DEF Members
  <2>4. /\ MemberBlocks(ms[n], pad) \in Seq(B) /\ Len(MemberBlocks(ms[n], pad)) = 1 + Count(ms[n])
        /\ MemberBlocks(ms[n], pad)[1] = Header(ms[n], pad)
        /\ \A b \in 1..Count(ms[n]) : MemberBlocks(ms[n], pad)[1 + b] = DataBlocks(ms[n].text)[b]
    BY <1>1, <2>3, MemberShape DEF Holds
  <2>5. IsJoin(f[n - 1] \o MemberBlocks(ms[n], pad), f[n - 1], MemberBlocks(ms[n], pad), B)
    BY <2>2, <2>4, Together
  <2> QED BY <1>2, <2>1, <2>3, <2>4, <2>5, MemberSize
<1>8. \A n \in 0..M : Len(f[n]) \in Nat
  BY <1>2
<1>9. ASSUME NEW n \in 0..M, NEW k \in 0..M, n <= k
      PROVE  Len(f[n]) <= Len(f[k]) /\ \A i \in 1..Len(f[n]) : f[k][i] = f[n][i]
  <2> DEFINE T == {j \in 0..M : n <= j => Len(f[n]) <= Len(f[j]) /\ \A i \in 1..Len(f[n]) : f[j][i] = f[n][i]}
  <2>1. 0 \in T
    BY <1>0, <1>8
  <2>2. ASSUME NEW j \in 1..M, j - 1 \in T PROVE j \in T
    <3>1. j \in 0..M /\ j - 1 \in 0..M /\ Len(f[n]) \in Nat /\ Len(f[j]) \in Nat /\ Len(f[j - 1]) \in Nat
      BY <1>7, <1>8
    <3>2. Len(f[j]) = Len(f[j - 1]) + 1 + Count(ms[j]) /\ Count(ms[j]) \in Nat
      <4>1. Len(f[j]) = Len(f[j - 1]) + Len(MemberBlocks(ms[j], pad))
        BY <1>7 DEF IsJoin
      <4>2. Len(MemberBlocks(ms[j], pad)) = 1 + Count(ms[j]) /\ Count(ms[j]) \in Nat
        BY <1>7
      <4>3. PICK x \in Nat : x = Len(f[j - 1])
        BY <3>1
      <4>4. PICK y \in Nat : y = Count(ms[j])
        BY <4>2
      <4>5. x + (1 + y) = x + 1 + y
        OBVIOUS
      <4> QED BY <4>1, <4>2, <4>3, <4>4, <4>5
    <3>3. \A i \in 1..Len(f[j - 1]) : f[j][i] = f[j - 1][i]
      BY <1>7 DEF IsJoin
    <3>4. CASE n <= j - 1
      <4>1. Len(f[n]) <= Len(f[j - 1]) /\ \A i \in 1..Len(f[n]) : f[j - 1][i] = f[n][i]
        BY <2>2, <3>4
      <4>2. Len(f[j - 1]) <= Len(f[j])
        BY <3>1, <3>2
      <4>3. Len(f[n]) <= Len(f[j]) /\ \A i \in 1..Len(f[n]) : i \in 1..Len(f[j - 1])
        BY <3>1, <4>1, <4>2
      <4> QED BY <3>1, <3>3, <4>1, <4>3
    <3>5. CASE n = j
      BY <3>1, <3>5
    <3>6. CASE j < n
      BY <3>1, <3>6
    <3> QED BY <3>1, <3>4, <3>5, <3>6
  <2> HIDE DEF T
  <2>3. 0..M \subseteq T
    BY <1>0, <2>1, <2>2, Upwards
  <2>4. k \in T
    BY <2>3
  <2> QED BY <1>9, <2>4 DEF T
<1>10. Len(I) \in Nat /\ Len(I) = Len(f[M]) + Len(tail) /\ Len(tail) \in Nat /\ Len(f[M]) \in Nat
  <2>1. Len(f[M]) \in Nat
    BY <1>0, <1>8
  <2> QED BY <1>5, <1>6, <2>1 DEF IsJoin
<1>11. ASSUME NEW n \in 0..M PROVE Len(f[n]) \in 0..Len(I) /\ \A i \in 1..Len(f[n]) : I[i] = f[n][i]
  <2>1. M \in 0..M /\ n <= M
    BY <1>0
  <2>2. Len(f[n]) <= Len(f[M]) /\ \A i \in 1..Len(f[n]) : f[M][i] = f[n][i]
    BY <1>9, <2>1
  <2>3. Len(f[n]) \in Nat
    BY <1>8
  <2>4. \A i \in 1..Len(f[M]) : I[i] = f[M][i]
    BY <1>6 DEF IsJoin
  <2>5. \A i \in 1..Len(f[n]) : i \in 1..Len(f[M])
    BY <1>10, <2>2, <2>3
  <2> QED BY <1>10, <2>2, <2>3, <2>4, <2>5
<1>12. PICK start : start = [n \in 0..M |-> Len(f[n])]
  OBVIOUS
<1>13. start \in [0..M -> 0..Len(I)] /\ start[0] = 0
  <2>1. 0 \in 0..M /\ Len(<<>>) = 0
    BY <1>0
  <2> QED BY <1>2, <1>11, <1>12, <2>1
<1>14. ASSUME NEW n \in 1..M
       PROVE  /\ start[n] = start[n - 1] + 1 + Count(ms[n])
              /\ I[start[n - 1] + 1] = Header(ms[n], pad)
              /\ \A b \in 1..Count(ms[n]) : I[start[n - 1] + 1 + b] = DataBlocks(ms[n].text)[b]
  <2>1. n - 1 \in 0..M /\ n \in 0..M /\ Count(ms[n]) \in Nat
    BY <1>7
  <2>2. PICK p \in Nat : p = Len(f[n - 1])
    BY <1>8, <2>1
  <2>3. PICK c \in Nat : c = Count(ms[n])
    BY <2>1
  <2>4. PICK u : u = MemberBlocks(ms[n], pad)
    OBVIOUS
  <2>5. /\ Len(u) = 1 + c /\ u[1] = Header(ms[n], pad)
        /\ \A b \in 1..c : u[1 + b] = DataBlocks(ms[n].text)[b]
    BY <1>7, <2>3, <2>4
  <2>6. Len(f[n]) = p + (1 + c) /\ \A i \in 1..(1 + c) : f[n][p + i] = u[i]
    BY <1>7, <2>2, <2>4, <2>5 DEF IsJoin
  <2>7. \A i \in 1..(1 + c) : I[p + i] = u[i]
    <3>1. \A i \in 1..(1 + c) : p + i \in 1..Len(f[n])
      BY <2>6
    <3>2. \A i \in 1..Len(f[n]) : I[i] = f[n][i]
      BY <1>11, <2>1
    <3> QED BY <2>6, <3>1, <3>2
  <2>8. start[n - 1] = p /\ start[n] = p + 1 + c
    <3>1. start[n - 1] = Len(f[n - 1]) /\ start[n] = Len(f[n])
      BY <1>12, <2>1
    <3>2. p + (1 + c) = p + 1 + c
      OBVIOUS
    <3> QED BY <2>2, <2>6, <3>1, <3>2
  <2>9. I[p + 1] = Header(ms[n], pad)
    <3>1. 1 \in 1..(1 + c)
      OBVIOUS
    <3> QED BY <2>5, <2>7, <3>1
  <2>10. \A b \in 1..c : I[p + 1 + b] = DataBlocks(ms[n].text)[b]
    <3>1. \A b \in 1..c : 1 + b \in 1..(1 + c) /\ p + 1 + b = p + (1 + b)
      OBVIOUS
    <3> QED BY <2>5, <2>7, <3>1
  <2> QED BY <2>3, <2>8, <2>9, <2>10
<1>15. AtEnd(I, start[M])
  <2>1. start[M] = Len(f[M])
    BY <1>0, <1>12
  <2>2. CASE Len(tail) = 0
    BY <1>10, <2>1, <2>2 DEF AtEnd
  <2>3. CASE Len(tail) = 2
    <3>1. tail[1] = EndBlock /\ 1 \in 1..Len(tail)
      BY <1>5, <2>3
    <3>2. I[Len(f[M]) + 1] = EndBlock
      BY <1>6, <3>1 DEF IsJoin
    <3>3. EndBlock.name = ""
      BY DEF EndBlock, Block
    <3> QED BY <2>1, <3>2, <3>3 DEF AtEnd, HeaderAt
  <2> QED BY <1>5, <2>2, <2>3
<1>16. LaidOut(I, start, ms, pad)
  BY <1>10, <1>13, <1>14, <1>15 DEF LaidOut
<1> QED BY <1>3, <1>16

-----------------------------------------------------------------------------
(* The archive: the loop over its headers. *)

\* What the loop sees at a member.
LEMMA AtMember ==
  ASSUME NEW ms, Members(ms), NEW pad \in {0, Blank}, NEW I, NEW start, LaidOut(I, start, ms, pad), NEW n \in 1..Len(ms)
  PROVE  /\ HeaderAt(I, start[n - 1]).name = ms[n].name
         /\ HeaderAt(I, start[n - 1]).typeflag = IF ms[n].dir THEN Directory ELSE "0"
         /\ SizeAt(I, start[n - 1]) = Len(ms[n].text)
         /\ ~AtEnd(I, start[n - 1])
         /\ start[n - 1] \in Nat /\ start[n] \in Nat /\ n - 1 \in 0..Len(ms) /\ n \in 0..Len(ms)
         /\ start[n - 1] + 1 + file_blocks(SizeAt(I, start[n - 1])) = start[n]
<1> DEFINE M == Len(ms)
<1>1. M \in Nat /\ MemberOK(ms[n])
  BY DEF Members
<1>2. n - 1 \in 0..M /\ n \in 0..M
  BY <1>1
<1>3. Len(I) \in Nat /\ start[n - 1] \in 0..Len(I) /\ start[n] \in 0..Len(I)
  BY <1>2 DEF LaidOut
<1>4. start[n - 1] \in Nat /\ start[n] \in Nat /\ Count(ms[n]) \in Nat /\ Len(ms[n].text) \in Nat
  BY <1>1, <1>3, MemberSize
<1>5. HeaderAt(I, start[n - 1]) = Header(ms[n], pad) /\ start[n] = start[n - 1] + 1 + Count(ms[n])
  BY DEF LaidOut, HeaderAt
<1>6. /\ Header(ms[n], pad).name = ms[n].name
      /\ Header(ms[n], pad).typeflag = IF ms[n].dir THEN Directory ELSE "0"
      /\ Header(ms[n], pad).size = SizeField(Len(ms[n].text), pad)
  BY DEF Header, Block
<1>7. SizeAt(I, start[n - 1]) = Len(ms[n].text)
  <2>1. Rest(Len(ms[n].text))[SizeDigits] = 0
    BY <1>1 DEF MemberOK
  <2> QED BY <1>4, <1>5, <1>6, <2>1, OctalRoundTrip DEF SizeAt
<1>8. ~AtEnd(I, start[n - 1])
  <2>1. start[n - 1] < Len(I)
    BY <1>3, <1>4, <1>5
  <2>2. ms[n].name # ""
    BY <1>1 DEF MemberOK
  <2>3. ~(start[n - 1] >= Len(I))
    BY <1>3, <1>4, <2>1
  <2> QED BY <1>5, <1>6, <2>2, <2>3 DEF AtEnd
<1> QED BY <1>2, <1>4, <1>5, <1>6, <1>7, <1>8 DEF Count

\* The loop finds the header of every member and nothing else.
LEMMA HeadersFound ==
  ASSUME NEW ms, Members(ms), NEW pad \in {0, Blank}, NEW I, NEW start, LaidOut(I, start, ms, pad)
  PROVE  Headers(I) = [k \in 1..Len(ms) |-> start[k - 1]]
<1> DEFINE M == Len(ms)
           L == Len(I)
           P(n) == [k \in 1..(n + 1) |-> start[k - 1]]
           Eq(t) == t = [n \in 0..L |-> IF n = 0 THEN <<0>> ELSE Round(I)[t[n - 1]]]
           w == CHOOSE t : Eq(t)
<1>1. M \in Nat /\ L \in Nat
  BY DEF Members, LaidOut
<1>2. \A n \in 0..M : start[n] \in Nat /\ start[n] <= L
  BY <1>1 DEF LaidOut
<1>3. ASSUME NEW n \in 0..M PROVE P(n) \in Seq(Nat) /\ Len(P(n)) = n + 1 /\ P(n)[Len(P(n))] = start[n]
  <2>1. n + 1 \in Nat /\ \A k \in 1..(n + 1) : k - 1 \in 0..M
    BY <1>1
  <2>2. \A k \in 1..(n + 1) : start[k - 1] \in Nat
    BY <1>2, <2>1
  <2>3. P(n) \in Seq(Nat) /\ Len(P(n)) = n + 1
    BY <2>1, <2>2
  <2>4. n + 1 \in 1..(n + 1) /\ n + 1 - 1 = n
    OBVIOUS
  <2> QED BY <2>3, <2>4
<1> HIDE DEF P
<1>4. ASSUME NEW n \in 1..M PROVE Round(I)[P(n - 1)] = P(n)
  <2>1. n - 1 \in 0..M /\ n \in 0..M
    BY <1>1
  <2>2. PICK p \in Seq(Nat) : p = P(n - 1) /\ Len(p) = n /\ p[Len(p)] = start[n - 1]
    <3>1. P(n - 1) \in Seq(Nat) /\ Len(P(n - 1)) = n - 1 + 1 /\ P(n - 1)[Len(P(n - 1))] = start[n - 1]
      BY <1>3, <2>1
    <3>2. n - 1 + 1 = n
      OBVIOUS
    <3> QED BY <3>1, <3>2
  <2>3. Round(I)[p] = Append(p, start[n])
    <3>1. ~AtEnd(I, start[n - 1]) /\ start[n - 1] + 1 + file_blocks(SizeAt(I, start[n - 1])) = start[n]
      BY AtMember
    <3> QED BY <2>2, <3>1 DEF Round
  <2>4. Append(p, start[n]) = [k \in 1..(n + 1) |-> IF k = n + 1 THEN start[n] ELSE p[k]]
    BY <2>2
  <2>5. ASSUME NEW k \in 1..(n + 1) PROVE (IF k = n + 1 THEN start[n] ELSE p[k]) = start[k - 1]
    BY <2>2 DEF P
  <2> QED BY <2>2, <2>3, <2>4, <2>5 DEF P
<1>5. Round(I)[P(M)] = P(M)
  <2>1. PICK p \in Seq(Nat) : p = P(M) /\ p[Len(p)] = start[M]
    <3>1. M \in 0..M
      BY <1>1
    <3>2. P(M) \in Seq(Nat) /\ P(M)[Len(P(M))] = start[M]
      BY <1>3, <3>1
    <3> QED BY <3>2
  <2>2. AtEnd(I, start[M])
    BY DEF LaidOut
  <2> QED BY <2>1, <2>2 DEF Round
<1>6. PICK q : q = [n \in 0..M |-> P(n)]
  OBVIOUS
<1>7. /\ \A n \in 0..M : q[n] = P(n)
      /\ \A n \in 1..M : Round(I)[q[n - 1]] = q[n]
      /\ Round(I)[q[M]] = q[M]
      /\ q[0] = <<0>>
  <2>1. \A n \in 1..M : n - 1 \in 0..M /\ n \in 0..M
    BY <1>1
  <2>2. P(0) = <<0>>
    <3>1. start[0] = 0
      BY DEF LaidOut
    <3>2. \A k \in 1..1 : k = 1
      OBVIOUS
    <3>3. P(0) = [k \in 1..1 |-> 0]
      BY <3>1 DEF P
    <3>4. [k \in 1..1 |-> 0] = <<0>>
      OBVIOUS
    <3> QED BY <3>3, <3>4
  <2> QED BY <1>1, <1>4, <1>5, <1>6, <2>1, <2>2
<1>8. PICK f : f = [n \in 0..L |-> IF n <= M THEN q[n] ELSE q[M]]
  OBVIOUS
<1>9. ASSUME NEW n \in 0..L PROVE f[n] = IF n = 0 THEN <<0>> ELSE Round(I)[f[n - 1]]
  <2>1. CASE n = 0
    BY <1>1, <1>7, <1>8, <2>1
  <2>2. CASE n # 0 /\ n <= M
    <3>1. n \in 1..M /\ n - 1 \in 0..L /\ n - 1 <= M
      BY <1>1, <2>2
    <3> QED BY <1>7, <1>8, <2>2, <3>1
  <2>3. CASE n # 0 /\ ~(n <= M)
    <3>1. n - 1 \in 0..L /\ (n - 1 <= M => n - 1 = M)
      BY <1>1, <2>3
    <3>2. f[n - 1] = q[M] /\ f[n] = q[M]
      BY <1>8, <2>3, <3>1
    <3> QED BY <1>7, <2>3, <3>2
  <2> QED BY <2>1, <2>2, <2>3
<1>10. \E t : Eq(t)
  <2>1. f = [n \in 0..L |-> f[n]]
    BY <1>8
  <2>2. Eq(f)
    BY <1>9, <2>1
  <2> QED BY <2>2
<1>11. Eq(w)
  BY <1>10, Zenon
<1>12. Headers(I) = Front(w[L])
  BY DEF Headers
<1> HIDE DEF w
<1>13. \A n \in 0..L : w[n] = IF n = 0 THEN <<0>> ELSE Round(I)[w[n - 1]]
  BY <1>11
<1>14. \A n \in 0..L : w[n] = f[n]
  <2> DEFINE T == {n \in 0..L : w[n] = f[n]}
  <2>0. \A n \in 1..L : n \in 0..L /\ n # 0
    BY <1>1
  <2>1. 0 \in T
    BY <1>1, <1>9, <1>13
  <2>2. ASSUME NEW n \in 1..L, n - 1 \in T PROVE n \in T
    BY <1>9, <1>13, <2>0, <2>2
  <2> HIDE DEF T
  <2>3. 0..L \subseteq T
    BY <1>1, <2>1, <2>2, Upwards
  <2> QED BY <2>3 DEF T
<1>15. M <= L
  <2> DEFINE T == {n \in 0..M : n <= start[n]}
  <2>1. 0 \in T
    BY <1>1 DEF LaidOut
  <2>2. ASSUME NEW n \in 1..M, n - 1 \in T PROVE n \in T
    <3>1. MemberOK(ms[n])
      BY DEF Members
    <3>2. Count(ms[n]) \in Nat
      BY <3>1, MemberSize
    <3>3. start[n] = start[n - 1] + 1 + Count(ms[n])
      BY DEF LaidOut
    <3>4. start[n - 1] \in Nat /\ n \in 0..M
      BY <1>1, <1>2
    <3> QED BY <2>2, <3>2, <3>3, <3>4
  <2> HIDE DEF T
  <2>3. 0..M \subseteq T
    BY <1>1, <2>1, <2>2, Upwards
  <2>4. M \in 0..M
    BY <1>1
  <2>5. M \in T
    BY <2>3, <2>4
  <2> QED BY <1>1, <1>2, <2>4, <2>5 DEF T
<1>16. w[L] = q[M]
  <2>1. f[L] = IF L <= M THEN q[L] ELSE q[M]
    BY <1>1, <1>8
  <2> QED BY <1>1, <1>14, <1>15, <2>1
<1>17. PICK p \in Seq(Nat) : p = w[L] /\ Len(p) = M + 1 /\ \A k \in 1..(M + 1) : p[k] = start[k - 1]
  <2>1. w[L] = P(M) /\ M \in 0..M
    BY <1>1, <1>7, <1>16
  <2>2. P(M) \in Seq(Nat) /\ Len(P(M)) = M + 1
    BY <1>3, <2>1
  <2>3. \A k \in 1..(M + 1) : P(M)[k] = start[k - 1]
    BY DEF P
  <2> QED BY <2>1, <2>2, <2>3
<1>18. Front(p) = [k \in 1..M |-> p[k]]
  <2>1. Front(p) = SubSeq(p, 1, M)
    BY <1>1, <1>17 DEF Front
  <2> QED BY <1>1, <1>17, <2>1
<1>19. \A k \in 1..M : p[k] = start[k - 1]
  BY <1>1, <1>17
<1> QED BY <1>12, <1>17, <1>18, <1>19

-----------------------------------------------------------------------------
(* The archive: what the functions give. *)

\* The bytes behind a header are the text of the member.
LEMMA DataFound ==
  ASSUME NEW ms, Members(ms), NEW pad \in {0, Blank}, NEW I, NEW start, LaidOut(I, start, ms, pad), NEW n \in 1..Len(ms)
  PROVE  file_data(I, start[n - 1]) = ms[n].text
<1>1. PICK d \in Nat : d = BlockSize /\ d # 0
  BY TarFSAssumption
<1>2. MemberOK(ms[n])
  BY DEF Members
<1>3. PICK text : text = ms[n].text
  OBVIOUS
<1>4. PICK C : text \in Seq(C)
  BY <1>2, <1>3 DEF MemberOK
<1>5. PICK len \in Nat : len = Len(text)
  BY <1>4
<1>6. text = [i \in 1..len |-> text[i]]
  BY <1>4, <1>5
<1>7. PICK o \in Nat : o = start[n - 1]
  BY AtMember
<1>8. SizeAt(I, o) = len
  BY <1>3, <1>5, <1>7, AtMember
<1>9. PICK c \in Nat : c = Count(ms[n]) /\ c = (len + d - 1) \div d
  <2>1. Count(ms[n]) \in Nat
    BY <1>2, MemberSize
  <2> QED BY <1>1, <1>3, <1>5, <2>1 DEF Count, file_blocks
<1>10. \A b \in 1..c : I[o + 1 + b].data = [i \in 1..d |-> IF (b - 1) * d + i <= len THEN text[(b - 1) * d + i] ELSE "fill"]
  <2>1. \A b \in 1..c : I[o + 1 + b] = DataBlocks(text)[b]
    BY <1>3, <1>7, <1>9 DEF LaidOut
  <2>2. DOMAIN DataBlocks(text) = 1..c
    BY <1>2, <1>3, <1>9, MemberSize
  <2>3. ASSUME NEW b \in 1..c
        PROVE  DataBlocks(text)[b].data = [i \in 1..d |-> IF (b - 1) * d + i <= len THEN text[(b - 1) * d + i] ELSE "fill"]
    <3>1. b \in 1..((Len(text) + BlockSize - 1) \div BlockSize)
      BY <2>2 DEF DataBlocks
    <3> QED BY <1>1, <1>5, <3>1 DEF DataBlocks, Block
  <2> QED BY <2>1, <2>3
<1>11. ASSUME NEW i \in 1..len
       PROVE  I[o + 2 + (i - 1) \div d].data[((i - 1) % d) + 1] = text[i]
  <2>1. PICK q \in Nat : q = (i - 1) \div d
    BY <1>1
  <2>2. PICK r \in 0..(d - 1) : r = (i - 1) % d
    BY <1>1
  <2>3. d * q + r = i - 1
    BY <1>1, <2>1, <2>2
  <2>4. q + 1 <= c
    <3>1. PICK s \in 0..(d - 1) : d * c + s = len + d - 1
      <4>1. PICK a \in Nat : a = len + d - 1
        BY <1>1
      <4>2. d * (a \div d) + (a % d) = a /\ a % d \in 0..(d - 1)
        BY <1>1, <4>1
      <4> QED BY <1>9, <4>1, <4>2
    <3>2. SUFFICES ASSUME c <= q PROVE FALSE
      OBVIOUS
    <3>3. d * c <= d * q
      BY <1>1, <3>2
    <3>4. d * c \in Nat /\ d * q \in Nat
      BY <1>1
    <3> QED BY <1>1, <2>3, <3>1, <3>3, <3>4
  <2>5. q + 1 \in 1..c /\ o + 2 + q = o + 1 + (q + 1) /\ q + 1 - 1 = q
    BY <2>4
  <2>6. I[o + 2 + q].data = [j \in 1..d |-> IF q * d + j <= len THEN text[q * d + j] ELSE "fill"]
    <3>1. PICK b \in 1..c : b - 1 = q /\ o + 1 + b = o + 2 + q
      BY <2>5
    <3>2. I[o + 1 + b].data = [j \in 1..d |-> IF (b - 1) * d + j <= len THEN text[(b - 1) * d + j] ELSE "fill"]
      BY <1>10
    <3> QED BY <3>1, <3>2
  <2>7. r + 1 \in 1..d
    BY <1>1
  <2>8. q * d + (r + 1) = i
    <3>1. q * d = d * q /\ q * d \in Nat
      BY <1>1
    <3> QED BY <2>3, <3>1
  <2>9. I[o + 2 + q].data[r + 1] = text[i]
    <3>1. PICK j \in 1..d : j = r + 1 /\ q * d + j = i
      BY <2>7, <2>8
    <3>2. I[o + 2 + q].data[j] = IF q * d + j <= len THEN text[q * d + j] ELSE "fill"
      BY <2>6
    <3>3. i <= len
      OBVIOUS
    <3> QED BY <3>1, <3>2, <3>3
  <2> QED BY <2>1, <2>2, <2>9
<1>12. file_data(I, o) = [i \in 1..len |-> I[o + 2 + (i - 1) \div d].data[((i - 1) % d) + 1]]
  BY <1>1, <1>8 DEF file_data
<1> QED BY <1>3, <1>6, <1>7, <1>11, <1>12

\* The members of that name.
LEMMA NamedFound ==
  ASSUME NEW ms, Members(ms), NEW pad \in {0, Blank}, NEW I, NEW start, LaidOut(I, start, ms, pad), NEW file
  PROVE  /\ Named(I, file) = {k \in 1..Len(ms) : ms[k].name = file}
         /\ Named(I, file) # {} => /\ Min(Named(I, file)) \in Named(I, file)
                                   /\ First(I, file) = start[Min(Named(I, file)) - 1]
<1>0. Len(ms) \in Nat
  BY DEF Members
<1>1. PICK h : h = Headers(I)
  OBVIOUS
<1>2. h = [k \in 1..Len(ms) |-> start[k - 1]]
  BY <1>1, HeadersFound
<1>3. Len(h) = Len(ms)
  BY <1>0, <1>2
<1>4. \A k \in 1..Len(ms) : HeaderAt(I, h[k]).name = ms[k].name
  BY <1>2, AtMember
<1>5. Named(I, file) = {k \in 1..Len(h) : HeaderAt(I, h[k]).name = file}
  BY <1>1 DEF Named
<1>6. Named(I, file) = {k \in 1..Len(ms) : ms[k].name = file}
  BY <1>3, <1>4, <1>5
<1>7. PICK T : T = Named(I, file)
  OBVIOUS
<1>8. ASSUME T # {} PROVE Min(T) \in T
  <2>1. T \in SUBSET Nat
    BY <1>0, <1>6, <1>7
  <2>2. \E x \in T : \A y \in T : x <= y
    BY <1>8, <2>1, LeastNumber
  <2> QED BY <2>2 DEF Min
<1>9. ASSUME T # {} PROVE First(I, file) = start[Min(T) - 1]
  <2>1. Min(T) \in 1..Len(ms)
    BY <1>6, <1>7, <1>8, <1>9
  <2>2. First(I, file) = h[Min(T)]
    BY <1>1, <1>7 DEF First
  <2> QED BY <1>2, <2>1, <2>2
<1> QED BY <1>6, <1>7, <1>8, <1>9

\* The loops of the listing and of its reference.
LEMMA DirFound ==
  ASSUME NEW ms, Members(ms), NEW pad \in {0, Blank}, NEW I, NEW start, LaidOut(I, start, ms, pad)
  PROVE  tarfs_dir(I) = FileNames(ms)
<1> DEFINE M == Len(ms)
           F(f) == f = [n \in 0..M |->
                          IF n = 0 THEN <<>>
                          ELSE IF ms[n].dir THEN f[n - 1] ELSE Append(f[n - 1], ms[n].name)]
           u == CHOOSE f : F(f)
<1>1. M \in Nat
  BY DEF Members
<1>2. PICK N : \A n \in 1..M : ms[n].name \in N
  <2>1. \A n \in 1..M : ms[n].name \in {ms[k].name : k \in 1..M}
    OBVIOUS
  <2> QED BY <2>1
<1>3. PICK g : g = [n \in 1..M |-> [x \in Seq(N) |-> IF ms[n].dir THEN x ELSE Append(x, ms[n].name)]]
  OBVIOUS
<1>4. \A n \in 1..M : \A x \in Seq(N) : g[n][x] \in Seq(N)
  <2>1. ASSUME NEW n \in 1..M, NEW x \in Seq(N)
        PROVE  (IF ms[n].dir THEN x ELSE Append(x, ms[n].name)) \in Seq(N)
    BY <1>2
  <2> QED BY <1>3, <2>1
<1>5. PICK f : IsLoop(f, M, Seq(N), <<>>, g)
  <2>1. <<>> \in Seq(N)
    OBVIOUS
  <2> QED BY <1>1, <1>4, <2>1, LoopRuns
<1>6. /\ f = [n \in 0..M |-> f[n]] /\ f[0] = <<>>
      /\ \A n \in 1..M : f[n] = IF ms[n].dir THEN f[n - 1] ELSE Append(f[n - 1], ms[n].name)
  <2>1. ASSUME NEW n \in 1..M PROVE f[n] = IF ms[n].dir THEN f[n - 1] ELSE Append(f[n - 1], ms[n].name)
    <3>1. n - 1 \in 0..M
      BY <1>1
    <3>2. f[n - 1] \in Seq(N) /\ f[n] = g[n][f[n - 1]]
      BY <1>5, <3>1 DEF IsLoop
    <3> QED BY <1>3, <3>2
  <2> QED BY <1>5, <2>1 DEF IsLoop
<1>7. \A n \in 0..M : n = 0 \/ n \in 1..M
  BY <1>1
<1>8. FileNames(ms) = f[M]
  <2>1. F(f)
    BY <1>6, <1>7
  <2>2. F(u)
    BY <2>1, Zenon
  <2>3. FileNames(ms) = u[M]
    BY DEF FileNames
  <2> HIDE DEF u
  <2>4. \A n \in 0..M : u[n] = IF n = 0 THEN <<>>
                               ELSE IF ms[n].dir THEN u[n - 1] ELSE Append(u[n - 1], ms[n].name)
    BY <2>2
  <2> DEFINE T == {n \in 0..M : u[n] = f[n]}
  <2>5. 0 \in T
    BY <1>1, <1>6, <2>4
  <2>6. ASSUME NEW n \in 1..M, n - 1 \in T PROVE n \in T
    <3>1. n \in 0..M /\ n # 0
      BY <1>1
    <3> QED BY <1>6, <2>4, <2>6, <3>1
  <2> HIDE DEF T
  <2>7. 0..M \subseteq T
    BY <1>1, <2>5, <2>6, Upwards
  <2>8. M \in T
    BY <1>1, <2>7
  <2> QED BY <2>3, <2>8 DEF T
<1>9. tarfs_dir(I) = f[M]
  <2>1. PICK h : h = Headers(I)
    OBVIOUS
  <2>2. h = [k \in 1..M |-> start[k - 1]]
    BY <2>1, HeadersFound
  <2>3. Len(h) = M
    BY <1>1, <2>2
  <2>4. \A n \in 1..M : /\ HeaderAt(I, h[n]).name = ms[n].name
                        /\ HeaderAt(I, h[n]).typeflag # Directory <=> ~ms[n].dir
    <3>1. ASSUME NEW n \in 1..M
          PROVE  /\ HeaderAt(I, h[n]).name = ms[n].name
                 /\ HeaderAt(I, h[n]).typeflag = IF ms[n].dir THEN Directory ELSE "0"
      BY <2>2, AtMember
    <3>2. Directory # "0"
      BY DEF Directory
    <3> QED BY <3>1, <3>2
  <2> DEFINE G(t) == t = [n \in 0..Len(h) |->
                            IF n = 0 THEN <<>>
                            ELSE LET hd == HeaderAt(I, h[n])
                                 IN IF hd.typeflag # Directory THEN Append(t[n - 1], hd.name) ELSE t[n - 1]]
             v == CHOOSE t : G(t)
  <2>5. \A n \in 0..M : f[n] = IF n = 0 THEN <<>>
                               ELSE LET hd == HeaderAt(I, h[n])
                                    IN IF hd.typeflag # Directory THEN Append(f[n - 1], hd.name) ELSE f[n - 1]
    BY <1>6, <1>7, <2>4
  <2>6. G(f)
    BY <1>6, <2>3, <2>5
  <2>7. G(v)
    BY <2>6, Zenon
  <2>8. tarfs_dir(I) = v[Len(h)]
    BY <2>1 DEF tarfs_dir
  <2> HIDE DEF v
  <2>9. \A n \in 0..M : v[n] = IF n = 0 THEN <<>>
                               ELSE LET hd == HeaderAt(I, h[n])
                                    IN IF hd.typeflag # Directory THEN Append(v[n - 1], hd.name) ELSE v[n - 1]
    BY <2>3, <2>7
  <2> DEFINE T == {n \in 0..M : v[n] = f[n]}
  <2>10. 0 \in T
    BY <1>1, <2>5, <2>9
  <2>11. ASSUME NEW n \in 1..M, n - 1 \in T PROVE n \in T
    <3>1. n \in 0..M /\ n # 0
      BY <1>1
    <3> QED BY <2>5, <2>9, <2>11, <3>1
  <2> HIDE DEF T
  <2>12. 0..M \subseteq T
    BY <1>1, <2>10, <2>11, Upwards
  <2>13. M \in T
    BY <1>1, <2>12
  <2> QED BY <2>3, <2>8, <2>13 DEF T
<1> QED BY <1>8, <1>9

-----------------------------------------------------------------------------
(* The archive in memory. *)

Image(w) == IF w.module THEN Archive(w.members, w.pad, w.ended) ELSE NoRamdisk

\* What the functions give for the archive of the world.
LEMMA FoundAsWritten ==
  ASSUME WorldOK, ramdisk = Image(world)
  PROVE  /\ \A file : tarfs_dir(ramdisk) = Expected(world.members, "dir", file)
         /\ \A file : tarfs_type(ramdisk, file) = Expected(world.members, "type", file)
         /\ \A file : tarfs_read_file(ramdisk, file) = Expected(world.members, "exec", file)
<1>1. PICK ms : ms = world.members
  OBVIOUS
<1>2. PICK pad : pad = world.pad
  OBVIOUS
<1>3. /\ ms \in Seq(Range(ms)) /\ \A m \in Range(ms) : MemberOK(m)
      /\ pad \in {0, Blank} /\ (~world.module => ms = <<>>)
  BY <1>1, <1>2, MachineAssumption DEF WorldOK
<1>4. Members(ms)
  <2>1. \A n \in 1..Len(ms) : ms[n] \in Range(ms)
    BY <1>3 DEF Range
  <2> QED BY <1>3, <2>1 DEF Members
<1>5. PICK I : I = ramdisk
  OBVIOUS
<1>6. PICK start : LaidOut(I, start, ms, pad)
  <2>1. CASE world.module
    <3>1. I = Archive(ms, pad, world.ended)
      BY <1>1, <1>2, <1>5, <2>1 DEF Image
    <3> QED BY <1>4, <3>1, Layout
  <2>2. CASE ~world.module
    <3>1. I = <<>> /\ ms = <<>> /\ Len(<<>>) = 0
      BY <1>3, <1>5, <2>2 DEF Image, NoRamdisk
    <3>2. PICK s : s = [n \in 0..0 |-> 0]
      OBVIOUS
    <3>3. s \in [0..Len(ms) -> 0..Len(I)] /\ s[0] = 0 /\ Len(I) \in Nat /\ Len(I) = 0 /\ Len(ms) = 0
      BY <3>1, <3>2
    <3>4. AtEnd(I, s[Len(ms)])
      <4>1. s[Len(ms)] = 0 /\ 0 >= Len(I)
        BY <3>3
      <4> QED BY <4>1 DEF AtEnd
    <3>5. LaidOut(I, s, ms, pad)
      BY <3>3, <3>4 DEF LaidOut
    <3> QED BY <3>5
  <2> QED BY <2>1, <2>2
<1>7. ASSUME NEW file PROVE tarfs_dir(I) = Expected(world.members, "dir", file)
  <2>1. tarfs_dir(I) = FileNames(ms)
    BY <1>3, <1>4, <1>6, DirFound
  <2> QED BY <1>1, <2>1 DEF Expected
<1>8. ASSUME NEW file
      PROVE  /\ tarfs_type(I, file) = Expected(world.members, "type", file)
             /\ tarfs_read_file(I, file) = Expected(world.members, "exec", file)
  <2>1. PICK T : T = Named(I, file)
    OBVIOUS
  <2>2. /\ T = {k \in 1..Len(ms) : ms[k].name = file}
        /\ T # {} => Min(T) \in T /\ First(I, file) = start[Min(T) - 1]
    BY <1>3, <1>4, <1>6, <2>1, NamedFound
  <2>3. T # {} => file_data(I, First(I, file)) = ms[Min(T)].text
    BY <1>3, <1>4, <1>6, <2>2, DataFound
  <2>4. /\ tarfs_type(I, file) = IF T = {} THEN Absent ELSE Visible(file_data(I, First(I, file)))
        /\ tarfs_read_file(I, file) = IF T = {} THEN <<>> ELSE file_data(I, First(I, file))
    BY <2>1 DEF tarfs_type, tarfs_read_file
  <2>5. /\ Expected(world.members, "type", file) = IF T = {} THEN Absent ELSE Visible(IF T = {} THEN <<>> ELSE ms[Min(T)].text)
        /\ Expected(world.members, "exec", file) = IF T = {} THEN <<>> ELSE ms[Min(T)].text
    BY <1>1, <2>2 DEF Expected
  <2>6. CASE T = {}
    BY <2>4, <2>5, <2>6
  <2>7. CASE T # {}
    BY <2>3, <2>4, <2>5, <2>7
  <2> QED BY <2>6, <2>7
<1> QED BY <1>5, <1>7, <1>8

\* Until tarfs_init there is none.
BeforeTar == BeforeStar \cup {"pic_remap", "pmm_init", "vmm_init", "heap_init", "tarfs_init"}
RamdiskOK == Where \in BeforeTar \cup {"panic"} \/ ramdisk = Image(world)

LEMMA RamdiskStep == ASSUME CpuInv, RamdiskOK, [Next]_vars PROVE RamdiskOK'
<1>1. BeforeTar \cup {"panic"} \subseteq Starts
  BY DEF BeforeTar, Starts, BootLate
<1>2. CASE BootStep
  <2>1. UNCHANGED world /\ Where = pc /\ pc # "panic"
    BY <1>2, BootMoves DEF BootStep, BootOrder, Range
  <2>2. CASE pc = "tarfs_init"
    <3>1. tarfs_init
      BY <1>2, <2>2, BootMoves
    <3> QED BY <2>1, <3>1 DEF tarfs_init, RamdiskOK, Image
  <2>3. CASE pc \in BeforeTar /\ pc # "tarfs_init"
    <3>1. Where' \in BeforeTar
      BY <1>2, <2>3, BootMoves DEF BeforeTar
    <3> QED BY <3>1 DEF RamdiskOK
  <2>4. CASE pc \notin BeforeTar
    <3>1. ramdisk' = ramdisk
      BY <1>2, <2>4, BootMoves DEF BeforeTar
    <3>2. ramdisk = Image(world)
      BY <2>1, <2>4 DEF RamdiskOK
    <3> QED BY <2>1, <3>1, <3>2 DEF RamdiskOK, Image
  <2> QED BY <2>2, <2>3, <2>4
<1>3. CASE ~BootStep
  <2>1. UNCHANGED <<world, ramdisk>> /\ (Where \in Starts => Where' \in {Where, "panic"})
    BY <1>3, OtherMoves
  <2>2. CASE Where \in BeforeTar \cup {"panic"}
    BY <1>1, <2>1, <2>2 DEF RamdiskOK
  <2>3. CASE ramdisk = Image(world)
    BY <2>1, <2>3 DEF RamdiskOK, Image
  <2> QED BY <2>2, <2>3 DEF RamdiskOK
<1> QED BY <1>2, <1>3

LEMMA ArchiveStep ==
  ASSUME WorldOK, RamdiskOK, ArchiveAsWritten, [Next]_vars
  PROVE  ArchiveAsWritten'
<1>1. CASE UNCHANGED <<world, shown>>
  BY <1>1 DEF ArchiveAsWritten
<1>2. ASSUME shown'.cmd \notin {"dir", "type", "exec"} PROVE ArchiveAsWritten'
  BY <1>2 DEF ArchiveAsWritten
<1>3. ASSUME pc \in {"shell", "process_exec"}
      PROVE  /\ \A file : tarfs_dir(ramdisk) = Expected(world.members, "dir", file)
             /\ \A file : tarfs_type(ramdisk, file) = Expected(world.members, "type", file)
             /\ \A file : tarfs_read_file(ramdisk, file) = Expected(world.members, "exec", file)
  <2>1. ramdisk = Image(world)
    BY <1>3 DEF RamdiskOK, Where, BeforeTar, BeforeStar, BeforeIdt, BeforeGdt
  <2> QED BY <2>1, FoundAsWritten
<1>4. ASSUME NEW cmd \in {"dir", "type", "exec"}, NEW file, NEW text, UNCHANGED world,
             shown' = Showing(cmd, file, text), text = Expected(world.members, cmd, file)
      PROVE  ArchiveAsWritten'
  <2>1. shown'.cmd = cmd /\ shown'.file = file /\ shown'.text = text
    BY <1>4, ShownFields
  <2> QED BY <1>4, <2>1 DEF ArchiveAsWritten
<1>5. Nothing.cmd = "none"
  BY DEF Nothing
<1>6. CASE Shell
  <2>1. pc = "shell"
    BY <1>6 DEF Shell, CommandPrints, CommandDir, CommandPoweroff, CommandReboot, CommandRm, CommandType,
       CommandExec, Line
  <2>2. CASE CommandPrints \/ CommandPoweroff \/ CommandReboot
    <3>1. shown' = Nothing
      BY <2>2 DEF CommandPrints, CommandPoweroff, CommandReboot, SameMemory
    <3> QED BY <1>2, <1>5, <3>1
  <2>3. CASE CommandDir
    <3>1. shown' = Showing("dir", "", tarfs_dir(ramdisk)) /\ UNCHANGED world
      BY <2>3 DEF CommandDir
    <3>2. tarfs_dir(ramdisk) = Expected(world.members, "dir", "")
      BY <1>3, <2>1
    <3> QED BY <1>4, <3>1, <3>2
  <2>4. ASSUME NEW f \in Files, CommandType(f) PROVE ArchiveAsWritten'
    <3>1. shown' = Showing("type", f, tarfs_type(ramdisk, f)) /\ UNCHANGED world
      BY <2>4 DEF CommandType
    <3>2. tarfs_type(ramdisk, f) = Expected(world.members, "type", f)
      BY <1>3, <2>1
    <3> QED BY <1>4, <3>1, <3>2
  <2>5. ASSUME NEW f \in Files, CommandExec(f) PROVE ArchiveAsWritten'
    <3>1. shown' = Showing("lookup", f, <<>>)
      BY <2>5 DEF CommandExec
    <3>2. shown'.cmd = "lookup"
      BY <3>1, ShownFields
    <3> QED BY <1>2, <3>2
  <2>6. ASSUME NEW name \in world.typed, CommandRm(name) PROVE ArchiveAsWritten'
    <3>1. shown' = [Showing("rm", "", format_fat_name(name)) EXCEPT !.name = name]
      BY <2>6 DEF CommandRm
    <3>2. shown'.cmd = "rm"
      BY <3>1 DEF Showing, Nothing
    <3> QED BY <1>2, <3>2
  <2> QED BY <1>6, <2>2, <2>3, <2>4, <2>5, <2>6 DEF Shell
<1>7. CASE process_exec
  <2>1. pc = "process_exec" /\ UNCHANGED world
    BY <1>7 DEF process_exec
  <2>2. \/ shown' = Nothing
        \/ shown' = Showing("exec", shown.file, tarfs_read_file(ramdisk, shown.file))
    BY <1>7 DEF process_exec
  <2>3. CASE shown' = Nothing
    BY <1>2, <1>5, <2>3
  <2>4. CASE shown' = Showing("exec", shown.file, tarfs_read_file(ramdisk, shown.file))
    <3>1. tarfs_read_file(ramdisk, shown.file) = Expected(world.members, "exec", shown.file)
      BY <1>3, <2>1
    <3> QED BY <1>4, <2>1, <2>4, <3>1
  <2> QED BY <2>2, <2>3, <2>4
<1>8. CASE BootStep
  BY <1>1, <1>8 DEF BootStep, memory
<1>9. CASE AtaStep \/ AtaReturns \/ SyscallFile \/ Transfer \/ FsReturns \/ Drive \/ UNCHANGED vars
  BY <1>1, <1>9 DEF AtaStep, AtaReturns, SyscallFile, Transfer, FsReturns, Drive, DiskStep, vars, memory
<1>10. ASSUME NEW A, Cpu(A) PROVE ArchiveAsWritten'
  BY <1>1, <1>10 DEF Cpu, memory
<1> QED BY <1>6, <1>7, <1>8, <1>9, <1>10 DEF Next, Kernel

\* dir, type and exec see the members of the archive as tar wrote them, in
\* every archive: for every number, size and order of members, every size of
\* a block and of the size field, with and without end blocks, and without a
\* boot module.
THEOREM ArchiveAlwaysAsWritten == Spec => []ArchiveAsWritten
<1>1. Init => WorldOK /\ NameShown /\ RamdiskOK /\ ArchiveAsWritten
  <2>1. SUFFICES ASSUME Init PROVE WorldOK /\ NameShown /\ RamdiskOK /\ ArchiveAsWritten
    OBVIOUS
  <2>2. shown = Nothing /\ world \in Worlds /\ pc = "serial_init"
    BY <2>1 DEF Init, CpuInit
  <2>3. Nothing.cmd = "none"
    BY DEF Nothing
  <2>4. Where \in BeforeTar
    BY <2>2 DEF Where, BeforeTar, BeforeStar, BeforeIdt, BeforeGdt
  <2> QED BY <2>2, <2>3, <2>4 DEF WorldOK, NameShown, RamdiskOK, ArchiveAsWritten
<1>2. (WorldOK /\ NameShown) /\ [Next]_vars => WorldOK' /\ NameShown'
  BY NameStep
<1>3. CpuInv /\ RamdiskOK /\ [Next]_vars => RamdiskOK'
  BY RamdiskStep
<1>4. WorldOK /\ RamdiskOK /\ ArchiveAsWritten /\ [Next]_vars => ArchiveAsWritten'
  BY ArchiveStep
<1> QED BY <1>1, <1>2, <1>3, <1>4, CpuAlways, PTL DEF Spec
=============================================================================
