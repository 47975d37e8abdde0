------------------------------- MODULE Machine -------------------------------
(***************************************************************************)
(* The whole machine: the boot sequence of kernel/main.c, then the shell's *)
(* commands, programs and their syscalls, on top of the processor          *)
(* (Interrupts), the disk (ATA), the archive (TarFS) and power management  *)
(* (ACPI), with interrupts between any two steps.                          *)
(*                                                                         *)
(* A world is what the machine finds when it starts: the members of the    *)
(* boot module, the firmware's tables, the drive, the devices that         *)
(* interrupt and the names typed for files on the disk.  What a file       *)
(* system call does with the disk is modelled in Fat16.tla; here it is any *)
(* sequence of sector transfers.  Memory and the loader are in PMM.tla and *)
(* Process.tla, line input in Console.tla.                                 *)
(***************************************************************************)
EXTENDS Interrupts, ATA, TarFS, FatName, ACPI

CONSTANTS
  Worlds,        \* [members, pad, ended, module, firmware, fitted, fails, devices, typed]
  Files,         \* names of members given to commands
  Sectors,       \* sectors the file system transfers
  Formatted,     \* what the sectors hold at first
  Payload        \* what is written to them

ASSUME MachineAssumption ==
  /\ Sectors \subseteq LBAs \ {0}
  /\ Formatted \in [LBAs -> Contents] /\ Formatted[0] = Boot
  /\ Payload \in Contents
  /\ \A w \in Worlds : w.devices \subseteq Irqs /\ w.fitted \in BOOLEAN /\ w.fails \in BOOLEAN
  /\ \A w \in Worlds : \A name \in w.typed : name \in Seq(Range(name))
  /\ \A w \in Worlds :
       /\ w.members \in Seq(Range(w.members)) /\ \A m \in Range(w.members) : MemberOK(m)
       /\ w.pad \in {0, Blank} /\ (~w.module => w.members = <<>>)
  /\ \A w \in Worlds :
       /\ w.firmware.rsdt \in Seq(Range(w.firmware.rsdt))
       /\ \A t \in Range(w.firmware.rsdt) :
            /\ t.dsdt \in Seq(0..255) /\ t.pm1a \in Nat
            /\ t.s5 # 0 => DefinesS5(t.dsdt, t.s5)

VARIABLES
  world,
  ramdisk,           \* ramdisk_base, ramdisk_size
  root_dir_size,     \* 0 until fat16_init has seen a boot sector
  pm,                \* pm1a_cnt_blk, slp_typa
  ports,             \* the ports acpi.c has written: <<port, value>>
  after,             \* where the file system call in progress returns to
  shown              \* ghost: what the last command made of its argument

memory == <<ramdisk, root_dir_size, pm, ports, after, shown>>
vars == <<world, interrupts, ata, memory>>

Nothing == [cmd |-> "none", file |-> "", name |-> <<>>, text |-> <<>>]
Showing(cmd, file, text) == [Nothing EXCEPT !.cmd = cmd, !.file = file, !.text = text]

Init ==
  /\ world \in Worlds
  /\ CpuInit
  /\ DiskInit(world.fitted, world.fails, Formatted)
  /\ ramdisk = NoRamdisk /\ root_dir_size = 0
  /\ pm = [pm1a |-> 0, slp_typa |-> 0, out |-> <<>>] /\ ports = <<>>
  /\ after = "shell" /\ shown = Nothing

-----------------------------------------------------------------------------
(* Boot. *)

BootOrder ==
  <<"serial_init", "vga_init", "gdt_init", "idt_init", "fpu_init", "syscall_init", "pic_remap",
    "pmm_init", "vmm_init", "heap_init", "tarfs_init", "fat16_init", "pci_init", "acpi_init", "shell">>

Following(step) == BootOrder[SelectInSeq(BootOrder, LAMBDA s : s = step) + 1]

\* Steps that touch nothing of this model.
Elsewhere == {"serial_init", "vga_init", "fpu_init", "pmm_init", "vmm_init", "heap_init", "pci_init"}

tarfs_init == ramdisk' = IF world.module THEN Archive(world.members, world.pad, world.ended) ELSE NoRamdisk

\* One call of _start; fat16_init reads sector 0.
BootStep ==
  /\ pc \in Range(BootOrder) \ {"shell"}
  /\ pc' = IF pc = "fat16_init" THEN "ata" ELSE Following(pc)
  /\ \/ /\ pc \in Elsewhere \/ (pc = "pic_remap" /\ remap = Len(RemapWrites))
        /\ UNCHANGED <<if_flag, cs, ss, tables, tss_rsp0, ata, memory>>
     \/ /\ pc = "gdt_init" /\ gdt_init
        /\ UNCHANGED <<if_flag, ata, memory>>
     \/ /\ pc = "idt_init" /\ idt_init
        /\ UNCHANGED <<cs, ss, tss_rsp0, ata, memory>>
     \/ /\ pc = "syscall_init" /\ syscall_init
        /\ UNCHANGED <<if_flag, cs, ss, tss_rsp0, ata, memory>>
     \/ /\ pc = "tarfs_init" /\ tarfs_init
        /\ UNCHANGED <<if_flag, cs, ss, tables, tss_rsp0, ata, root_dir_size, pm, ports, after, shown>>
     \/ /\ pc = "fat16_init" /\ Begin("read", 0, Junk)
        /\ after' = "pci_init"
        /\ UNCHANGED <<if_flag, cs, ss, tables, tss_rsp0, ramdisk, root_dir_size, pm, ports, shown>>
     \/ /\ pc = "acpi_init"
        /\ pm' = acpi_init(world.firmware)
        /\ ports' = pm'.out
        /\ UNCHANGED <<if_flag, cs, ss, tables, tss_rsp0, ata, ramdisk, root_dir_size, after, shown>>
  /\ UNCHANGED <<world, ring, stack, pic, remap, current_kernel_stack, current_user_rsp,
                 kernel_saved_rsp, key, num>>

-----------------------------------------------------------------------------
(* The file system on the disk. *)

Goto(p) == pc' = p /\ UNCHANGED <<ring, if_flag, cs, ss, stack, pic, remap, tables, stacks, num>>

\* One of its transfers.  Every call starts with the root directory, of which
\* there is none without a boot sector.
Transfer ==
  /\ pc = "fat16" /\ root_dir_size > 0
  /\ \E l \in Sectors : Begin("read", l, Junk) \/ Begin("write", l, Payload)
  /\ Goto("ata")
  /\ UNCHANGED <<world, key, memory>>

FsReturns ==
  /\ pc = "fat16"
  /\ Goto(after)
  /\ UNCHANGED <<world, key, ata, memory>>

AtaStep ==
  /\ pc = "ata"
  /\ DriverStep
  /\ UNCHANGED <<world, interrupts, memory>>

\* The transfer is done; the one of fat16_init decides about the volume.
AtaReturns ==
  /\ pc = "ata"
  /\ EndCall
  /\ IF after = "pci_init"
       THEN Goto("pci_init") /\ root_dir_size' = IF call.buffer = Boot THEN 1 ELSE 0
       ELSE Goto("fat16") /\ UNCHANGED root_dir_size
  /\ UNCHANGED <<world, key, ramdisk, pm, ports, after, shown>>

-----------------------------------------------------------------------------
(* The shell: a line has been typed. *)

Line == pc = "shell" /\ key /\ key' = FALSE

\* Commands that read nothing of the archive.
SameMemory == shown' = Nothing /\ UNCHANGED <<ramdisk, root_dir_size, pm, after>>

\* echo, cls, rm without argument and unknown commands: output only.
CommandPrints ==
  /\ Line
  /\ Goto("shell")
  /\ SameMemory
  /\ UNCHANGED <<world, ata, ports>>

CommandDir ==
  /\ Line
  /\ shown' = Showing("dir", "", tarfs_dir(ramdisk))
  /\ Goto("fat16") /\ after' = "shell"
  /\ UNCHANGED <<world, ata, ramdisk, root_dir_size, pm, ports>>

CommandType(file) ==
  /\ Line
  /\ shown' = Showing("type", file, tarfs_type(ramdisk, file))
  /\ Goto("shell")
  /\ UNCHANGED <<world, ata, ramdisk, root_dir_size, pm, ports, after>>

\* The entry to delete.
CommandRm(name) ==
  /\ Line
  /\ shown' = [Showing("rm", "", format_fat_name(name)) EXCEPT !.name = name]
  /\ Goto("fat16") /\ after' = "shell"
  /\ UNCHANGED <<world, ata, ramdisk, root_dir_size, pm, ports>>

\* edit, lisp and exec: process_exec looks on the disk first.
CommandExec(file) ==
  /\ Line
  /\ shown' = Showing("lookup", file, <<>>)
  /\ Goto("fat16") /\ after' = "process_exec"
  /\ UNCHANGED <<world, ata, ramdisk, root_dir_size, pm, ports>>

\* A file the disk does not have, or has empty, is taken from the archive.
\* The loader may still refuse it (Process.tla).
process_exec ==
  /\ pc = "process_exec"
  /\ \/ /\ root_dir_size > 0
        /\ Goto("jump_usermode")
        /\ shown' = Nothing
     \/ /\ tarfs_get_file_size(ramdisk, shown.file) > 0
        /\ Goto("jump_usermode")
        /\ shown' = Showing("exec", shown.file, tarfs_read_file(ramdisk, shown.file))
     \/ /\ Goto("shell")
        /\ shown' = Nothing
  /\ UNCHANGED <<world, key, ata, ramdisk, root_dir_size, pm, ports, after>>

\* poweroff and exit, then cli; hlt.
CommandPoweroff ==
  /\ Line
  /\ ports' = ports \o acpi_poweroff(pm)
  /\ pc' = "off" /\ if_flag' = FALSE
  /\ SameMemory
  /\ UNCHANGED <<world, ring, cs, ss, stack, pic, remap, tables, stacks, num, ata>>

\* reboot: the keyboard controller is ready some time, then resets the machine.
CommandReboot ==
  /\ Line
  /\ pc' = "reset" /\ if_flag' = FALSE
  /\ SameMemory
  /\ UNCHANGED <<world, ring, cs, ss, stack, pic, remap, tables, stacks, num, ata, ports>>

Shell ==
  \/ CommandPrints \/ CommandDir \/ CommandPoweroff \/ CommandReboot
  \/ \E name \in world.typed : CommandRm(name)
  \/ \E f \in Files : CommandType(f) \/ CommandExec(f)

\* Reading, writing and looking up a file.
SyscallFile ==
  /\ pc = "syscall_handler_c" /\ num \in FileCalls
  /\ Goto("fat16") /\ after' = "leave_syscall"
  /\ UNCHANGED <<world, key, ata, ramdisk, root_dir_size, pm, ports, shown>>

-----------------------------------------------------------------------------
Cpu(action) == action /\ UNCHANGED <<world, ata, memory>>
DiskStep(action) == action /\ UNCHANGED <<world, interrupts, memory>>

\* Steps of the kernel that wait for nobody.
Kernel ==
  \/ BootStep \/ AtaStep \/ AtaReturns \/ process_exec
  \/ Cpu(pic_remap \/ jump_usermode \/ SysRet \/ syscall_entry \/ LeaveSyscall)
  \/ Cpu(SyscallConsole \/ SyscallGetchar \/ SyscallExit) \/ SyscallFile

Drive == DiskStep(DriveCompletes \/ DriveFails)

Next ==
  \/ Kernel \/ Transfer \/ FsReturns \/ Shell
  \/ \E name \in DOMAIN Calls : Cpu(Syscall(name))
  \/ Cpu(Getchar) \/ Cpu(Exception) \/ Cpu(TakeInterrupt)
  \/ \E n \in world.devices : Cpu(Raise(n))
  \/ Drive

\* The processor does not stop, the drive ends its commands, file system calls
\* end (CallsReturn of Fat16.tla), and the processor takes an interrupt that is
\* requested as soon as it may.
Fairness ==
  /\ WF_vars(Kernel) /\ WF_vars(Drive) /\ SF_vars(FsReturns)
  /\ SF_vars(Cpu(TakeInterrupt))

Spec == Init /\ [][Next]_vars /\ Fairness

-----------------------------------------------------------------------------
(* Properties. *)

\* The names of the members that are files.
FileNames(members) ==
  LET names[n \in 0..Len(members)] ==
        IF n = 0 THEN <<>>
        ELSE IF members[n].dir THEN names[n - 1] ELSE Append(names[n - 1], members[n].name)
  IN names[Len(members)]

\* What the archive should give: the first member of that name, the names of
\* all files.
Expected(members, cmd, file) ==
  LET found == {k \in 1..Len(members) : members[k].name = file}
      text  == IF found = {} THEN <<>> ELSE members[Min(found)].text
  IN CASE cmd = "dir"  -> FileNames(members)
       [] cmd = "type" -> IF found = {} THEN Absent ELSE Visible(text)
       [] OTHER        -> text

\* Commands see the archive as tar wrote it: every listing, every file and
\* every program agrees with the list of its members, for sizes that fill
\* whole blocks or none, sizes of several octal digits padded with zeros or
\* spaces, directories among the files, names that occur twice, with and
\* without end blocks, and without a boot module.
ArchiveAsWritten ==
  shown.cmd \in {"dir", "type", "exec"} => shown.text = Expected(world.members, shown.cmd, shown.file)

\* A name that fits the fields of an entry is listed as it was typed, in upper
\* case: no two of them mean the same file.
EntryNamesRoundTrip ==
  shown.cmd = "rm" /\ Fits(shown.name) => Listed(shown.text) = InUpper(shown.name)

\* poweroff asks the chipset for the sleep state the firmware defines as off,
\* however the DSDT spells it: the last port written is the one the FADT
\* names, the three bits of its sleep type are the low bits of the byte the
\* DSDT has and its enable bit is set.  A byte whose low six bits are 0 is not
\* told from a missing one after the shift (acpi.c:133), and a port beyond 16
\* bits is cut.  Without an FADT the emulators' ports are written.
PowersOff ==
  LET rsdt == world.firmware.rsdt
      used == {k \in 1..Len(rsdt) : /\ world.firmware.rsdp /\ rsdt[k].sig = "FACP" /\ rsdt[k].pm1a # 0
                                    /\ \A j \in 1..(k - 1) : rsdt[j].sig # "FACP"}
  IN pc = "off" =>
       /\ \A k \in used :
            rsdt[k].pm1a < Word /\ rsdt[k].s5 % 64 # 0 =>
              LET last == ports[Len(ports)]
              IN last[1] = rsdt[k].pm1a /\ SlpTyp(last[2]) = rsdt[k].s5 % 8 /\ SlpEn(last[2]) = 1
       /\ used = {} => {<<Fallback[k], SLP_EN>> : k \in 1..2} \subseteq Range(ports)

Stopped == pc \in {"panic", "off", "reset"}

\* Every sector transfer ends, with a drive, a failing one or none.
DiskCallsReturn == pc = "ata" ~> pc # "ata"

\* A keystroke is taken in, wherever the machine is: no path leaves interrupts
\* off or the controller waiting for the end of an interrupt.
KeysAreTaken == Kbd \in pic.irr ~> (Kbd \notin pic.irr \/ Stopped)
=============================================================================
