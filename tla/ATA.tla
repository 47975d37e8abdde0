--------------------------------- MODULE ATA ---------------------------------
(***************************************************************************)
(* The disk driver of hal/ata.c, register write by register write, against *)
(* a drive (external) that executes READ SECTOR, WRITE SECTOR and FLUSH    *)
(* CACHE with a write cache of its own.                                    *)
(*                                                                         *)
(* The drive is busy from a command to its completion, and again after the *)
(* data of a write; while it is busy it ignores commands.  It may fail a   *)
(* command: the status then shows ERR next to DRDY.  Without a drive every *)
(* status bit reads as one.  A sector's contents are a model value.        *)
(***************************************************************************)
EXTENDS Naturals

CONSTANTS
  Byte, Nibble,      \* 256 and 16: values of an address register and of the head field
  Contents,          \* what a sector can hold
  Boot,              \* a boot sector: its signature is 0xAA55
  Junk               \* what the data port yields when there is no data

LBAs == 0..(Byte * Byte * Byte * Nibble - 1)

ASSUME ATAAssumption ==
  /\ Byte \in Nat \ {0, 1} /\ Nibble \in Nat \ {0, 1}
  /\ Boot \in Contents /\ Junk \in Contents /\ Boot # Junk

VARIABLES
  drive,       \* [fitted, fails, bsy, drq, err, cmd, regs, port, cache, medium]
  call,        \* the call in progress: [op, lba, buffer, at]
  written,     \* ghost: the last contents written to each sector by a call; after
               \* an error, whatever the drive kept
  failed,      \* ghost: the drive reported an error during the call
  ignored      \* ghost: the drive was busy when the flush command arrived

ata == <<drive, call, written, failed, ignored>>

NoCall == [op |-> "none", lba |-> 0, buffer |-> Junk, at |-> "idle"]

\* Sector 0 holds a boot sector; the others what `first` says.
DiskInit(fitted, fails, first) ==
  /\ drive = [fitted |-> fitted, fails |-> fails, bsy |-> FALSE, drq |-> FALSE, err |-> FALSE,
              cmd |-> "none", regs |-> [head |-> 0, hi |-> 0, mid |-> 0, lo |-> 0],
              port |-> Junk, cache |-> first, medium |-> first]
  /\ call = NoCall
  /\ written = first
  /\ failed = FALSE /\ ignored = FALSE

-----------------------------------------------------------------------------
(* The drive. *)

Status ==
  IF drive.fitted
    THEN {"DRDY"} \cup (IF drive.bsy THEN {"BSY"} ELSE {}) \cup (IF drive.drq THEN {"DRQ"} ELSE {})
           \cup (IF drive.err THEN {"ERR"} ELSE {})
    ELSE {"BSY", "DRDY", "DRQ", "ERR"}

Addressed(r) == ((r.head * Byte + r.hi) * Byte + r.mid) * Byte + r.lo

\* A command byte; ignored while busy.
Obeys(cmd) ==
  drive' = IF drive.bsy \/ ~drive.fitted THEN drive
           ELSE [drive EXCEPT !.bsy = TRUE, !.drq = FALSE, !.err = FALSE, !.cmd = cmd]

\* The end of the command in progress.  "commit" is a write whose data has
\* arrived.
Completed ==
  LET l == Addressed(drive.regs) IN
  CASE drive.cmd = "read" -> [drive EXCEPT !.bsy = FALSE, !.drq = TRUE, !.port = drive.cache[l]]
    [] drive.cmd = "write" -> [drive EXCEPT !.bsy = FALSE, !.drq = TRUE]
    [] drive.cmd = "commit" -> [drive EXCEPT !.bsy = FALSE, !.cache[l] = drive.port]
    [] drive.cmd = "flush" -> [drive EXCEPT !.bsy = FALSE, !.medium = drive.cache]

DriveCompletes ==
  /\ drive.bsy
  /\ drive' = Completed
  /\ UNCHANGED <<call, written, failed, ignored>>

DriveFails ==
  /\ drive.bsy /\ drive.fails
  /\ drive' = [drive EXCEPT !.bsy = FALSE, !.err = TRUE]
  /\ failed' = TRUE
  /\ UNCHANGED <<call, written, ignored>>

-----------------------------------------------------------------------------
(* The driver. *)

\* Mutant: an error does not end the wait.
ata_wait_ready_NoErr(from, to) ==
  /\ call.at = from
  /\ "BSY" \notin Status /\ "DRDY" \in Status
  /\ call' = [call EXCEPT !.at = to]

\* ata_wait_ready: polls until the drive is ready or shows an error, whichever
\* it sees; the caller is not told which.
ata_wait_ready(from, to) ==
  /\ call.at = from
  /\ ("BSY" \notin Status /\ "DRDY" \in Status) \/ "ERR" \in Status
  /\ call' = [call EXCEPT !.at = to]

Begin(op, lba, buffer) ==
  /\ call.at = "idle"
  /\ call' = [op |-> op, lba |-> lba, buffer |-> buffer, at |-> "ready"]
  /\ failed' = FALSE /\ ignored' = FALSE
  /\ UNCHANGED <<drive, written>>

\* Mutant: the middle and the low byte are swapped.
Registers_Swapped(lba) ==
  [head |-> (lba \div (Byte * Byte * Byte)) % Nibble, hi |-> (lba \div (Byte * Byte)) % Byte,
   mid |-> lba % Byte, lo |-> (lba \div Byte) % Byte]

\* The address registers.
Registers(lba) ==
  [head |-> (lba \div (Byte * Byte * Byte)) % Nibble, hi |-> (lba \div (Byte * Byte)) % Byte,
   mid |-> (lba \div Byte) % Byte, lo |-> lba % Byte]

Select ==
  /\ call.at = "select"
  /\ drive' = [drive EXCEPT !.regs = IF drive.bsy THEN @ ELSE Registers(call.lba)]
  /\ call' = [call EXCEPT !.at = "command"]

Command ==
  /\ call.at = "command"
  /\ Obeys(call.op)
  /\ call' = [call EXCEPT !.at = "data"]

\* insw: the drive's data, or whatever the port yields when it has none.
ReadData ==
  /\ call.at = "transfer" /\ call.op = "read"
  /\ call' = [call EXCEPT !.at = "done", !.buffer = IF drive.drq THEN drive.port ELSE Junk]
  /\ drive' = [drive EXCEPT !.drq = FALSE]

\* outsw: without DRQ the drive takes no data.
WriteData ==
  /\ call.at = "transfer" /\ call.op = "write"
  /\ call' = [call EXCEPT !.at = "flush"]
  /\ drive' = IF drive.drq THEN [drive EXCEPT !.bsy = TRUE, !.drq = FALSE, !.cmd = "commit",
                                              !.port = call.buffer]
              ELSE drive

\* The command follows the data at once, whether the drive has taken it in or
\* is still busy with it.
Flush ==
  /\ call.at = "flush"
  /\ Obeys("flush")
  /\ ignored' = drive.bsy
  /\ call' = [call EXCEPT !.at = "flushed"]
  /\ UNCHANGED <<written, failed>>

\* One step of ata_read_sector or ata_write_sector.
DriverStep ==
  \/ /\ ata_wait_ready("ready", "select") \/ ata_wait_ready("data", "transfer")
        \/ ata_wait_ready("flushed", "done")
     /\ UNCHANGED <<drive, written, failed, ignored>>
  \/ /\ Select \/ Command \/ ReadData \/ WriteData
     /\ UNCHANGED <<written, failed, ignored>>
  \/ Flush

\* The call returns; nothing tells the caller of an error.
EndCall ==
  /\ call.at = "done"
  /\ call' = NoCall
  /\ written' = IF call.op = "write" /\ drive.fitted
                  THEN [written EXCEPT ![call.lba] =
                          IF failed THEN drive.cache[call.lba] ELSE call.buffer]
                  ELSE written
  /\ UNCHANGED <<drive, failed, ignored>>

-----------------------------------------------------------------------------
(* Properties. *)

\* Sector transfers do what the file system relies on, as long as the drive
\* reports no error: a read returns what was last written to that sector, a
\* write changes that sector and no other, for every split of the address
\* into registers and every timing of the drive.  When ata_write_sector
\* returns, the sector is on the medium and would survive the loss of power -
\* unless the flush command came while the drive was still busy with the data.
ReadsSeeWrites ==
  drive.fitted /\ ~failed =>
    /\ call.at = "idle" => drive.cache = written
    /\ call.at = "done" /\ call.op = "read" => call.buffer = written[call.lba]
    /\ call.at = "done" /\ call.op = "write" /\ ~ignored => drive.medium[call.lba] = call.buffer
=============================================================================
