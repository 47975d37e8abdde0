# LISP-DOS in TLA+

LISP-DOS is a single-user operating system for x86-64, written in C: a ring-0
kernel booted by Limine, a shell, a FAT16 disk, and a few ring-3 programs (a
text editor, a Lisp interpreter). There is one CPU, one process at a time and
one source of concurrency, hardware interrupts. What can go wrong is therefore
mostly sequencing: what a call leaves behind when one of its steps fails, what
an interrupt sees between two instructions, what is on the disk when the
machine stops, and arithmetic at the edges of buffers, tables and memory.

This directory holds TLA+ models of the kernel, its drivers, the editor and
the Lisp interpreter, the TLC configurations that check them on small instances,
and TLAPS proofs, for every value of the parameters, about the physical memory
manager, the keyboard driver, the checks of syscalls, the FAT16 driver, the
loader with its page maps and what it puts in memory, the disk driver, the
interrupts, the archive, file names, power management, the console with the shell,
and the editor. Paths below are relative to the repository root.
`PROJECT.json` lists components, runs, mutants, the map from definitions to
source lines, findings, hazards and theorems.

To run: `tlc -config MCPMM.cfg MCPMM`, and so on for each row of the table
under *Runs*; `tlapm PMMProofs.tla`, and so on for each `...Proofs` module.

## 1. Inventory

| Component | State | Operations | Correct when | Module |
|---|---|---|---|---|
| Physical memory manager, `src/kernel/pmm.c` | the bitmap (in the memory it manages), free-memory counter, next-fit hint | `pmm_init`, `pmm_alloc_page`, `pmm_alloc_pages`, `pmm_free_page` | a page has one holder; the bitmap is never handed out; the counter is exact; a single page is refused only when none is left | `PMM`, `PageRuns`, `PMMScan`, `PageAllocator`, `PMMProofs` |
| Virtual memory manager, `src/kernel/vmm.c` | page tables, CR3 | new, map, switch, free, check user pointer | the lower half of a page map is a private tree; freeing gives back all of it, once, and nothing of the kernel's half; the checks accept exactly the program's memory | `Process`, `UserAccess`, `ProcessProofs`, `UserAccessProofs` |
| Process loader, `src/kernel/process.c` | file buffer, page map, saved kernel stack | `process_exec` | every failure path frees what was taken; the program sees exactly its segments and its stack | `Process`, `ProcessProofs` |
| System calls, `src/kernel/syscall.c`, `syscall_asm.S`, `src/tools/syscalls.h` | STAR and FMASK, kernel and user stack, interrupt flag | 1..10, 60 | control returns to the right ring, stack and segments with interrupts on; results reach the caller; only the program's memory is touched for it | `Interrupts`, `UserAccess`, `UserAccessProofs`; each call with the component it reaches |
| Exceptions and interrupts, `src/hal/idt.c`, `interrupts.S`, `pic.c` | IDT; masks, vectors and requests of the controllers | IRQ1, faults, `pic_remap` | a device never stops the system; frames go to a kernel stack; a faulting program leaves the kernel usable | `Interrupts`, `Machine`, `Keyboard`, `MachineProofs` |
| Segments and task state, `src/hal/gdt.c` | GDT, RSP0 | `gdt_init`, `tss_set_kernel_stack` | the selectors that `syscall` and `sysretq` compute fit the table | `Interrupts`, `MachineProofs` |
| Keyboard, `src/hal/keyboard.c` | ring buffer, shift and E0 flags | handler, `keyboard_getchar` | each key is delivered once, in order, decoded as typed; no lost wake-up | `Keyboard`, `KeyboardProofs` |
| FAT16, `src/kernel/fat16.c` | two FAT copies, root directory, data clusters | init, dir, read, size, write, delete | chains are disjoint and complete; nothing leaks; other files survive; every call ends | `Fat16`, `FileStore`, `Fat16Proofs` |
| Console, `src/hal/vga.c` | cursor, cells | putchar, print, clear, set cursor | the shell stays on the screen; what is shown is what was typed | `Console`, `ConsoleProofs` |
| Boot and shell, `src/kernel/main.c` | command line | boot order, line input, splitting, dispatch, commands | the command that runs is the line that was typed; each command does what it says | `Console`, `Machine`, `ConsoleProofs`, `MachineProofs` |
| Disk driver, `src/hal/ata.c` | device registers | `ata_read_sector`, `ata_write_sector` | reads see writes, writes reach the medium, calls return | `ATA`, `MachineProofs` |
| TarFS, `src/kernel/tarfs.c` | the archive Limine loaded | init, dir, type, size, read | the archive is seen as `tar` wrote it | `TarFS`, `MachineProofs` |
| File names, `format_fat_name` and the listing in `src/kernel/fat16.c` | - | format, list | names that fit are told apart and listed as typed | `FatName`, `MachineProofs` |
| Power management, `src/hal/acpi.c` | PM1a port, sleep type | `acpi_init`, `acpi_poweroff` | the state the firmware defines as off is requested | `ACPI`, `MachineProofs` |
| Editor, `src/tools/editor.c` | buffer, cursor, mode | load, keys, save, quit | it edits a text: inserts and deletes at the cursor, moves by lines, saves what it shows | `Editor`, `TextEditor`, `EditorProofs` |
| Lisp interpreter, `src/tools/lisp.c` | node pool, global environment | read, eval, print | a script runs as it means, up to the program's limits | `Lisp`, `LispMeaning` |
| Kernel heap; string routines; serial port; PCI and USB; font; test program; Limine header | - | - | - | not modelled, see section 6 |

How they interact. The shell and the programs call `keyboard_getchar`, which
waits on a ring buffer that the IRQ1 handler fills: shared memory, with `cli`,
`sti` and `hlt` for synchronisation. `process_exec` takes pages for the file,
reads the file into them, builds a page map out of further pages, frees the
file's pages, switches CR3 and jumps to ring 3; the program comes back through
syscall 60, which frees the map, or through a fault, which does not. Syscalls
run with interrupts off, except inside `keyboard_getchar`. The editor
and the Lisp interpreter reach FAT16 through syscalls; FAT16 reaches the disk
sector by sector, by polling. `process_exec` looks on the disk first and then in
the archive. Interrupts arrive through two controllers which the boot sequence
reprograms after it has enabled interrupts. All that is put on the screen goes
through one cursor.

Hard behaviours, in the order the modules take them up: the bitmap lives in
the memory it describes; interrupts between the test of the ring and `hlt`;
the interrupt flag across syscall, exit and fault; a crash between two sector
writes; a disk that fills up in mid-write; memory that runs out at any
allocation of `process_exec`; page tables made of recycled pages; interrupts
during boot and between the switch of stacks and `sysretq`; a drive that is
slow, fails or is missing. The
`hazards` of `PROJECT.json` give each with its line.

## 2. Modules

`PageAllocator` (abstract) <- `PMM` (uses `PageRuns`; `PMMScan` checks
`PageRuns` against the loops). `FileStore` (abstract) <- `Fat16`.
`TextEditor` (abstract) <- `Editor`. `Process` composes loader, page tables and
allocator (through `PageRuns`). `Keyboard` composes the driver with its callers.
`Console` composes the screen with the shell. `LispMeaning` (a reference
evaluator) is what `Lisp` is checked against. `Machine` composes `Interrupts`,
`ATA`, `TarFS`, `FatName` and `ACPI` with the boot sequence, the shell's commands
and the programs' calls. An `MC` module gives the
constants that a configuration file cannot express. A `Proofs` module extends the
module it is about and holds its theorems (section 5; `PMMProofs` is about `PMMScan`
too). Definitions keep the names
of the source. Operators called `X_Y` and marked *Mutant* are plausible wrong
versions of `X`: each property is violated when one of them takes the place of
the original, which shows that the property speaks about that code. Where a module
has a type invariant `TypeOK`, it is checked on its own (`PMM`, `Editor`) or as a
conjunct of the first property that needs it.

**PMM.** Byte addresses; page size and bits per byte are parameters. The
iterations of `pmm_init` are steps: scan the memory map, place the bitmap in
the first large enough usable region and carve it from that region's entry,
fill it, clear the bits of the usable regions. The bits of the last partial
byte, which the fill does not reach, hold anything. An allocation is one step,
with the run that the two scan loops find stated as a predicate (`PageRuns`).
`pmm_free_page` is called by a holder, or a second time on a free page.
`HolderWrites`, external, is a holder that stores into its page: bits that live
there change. Out of scope: freeing a page that was never handed out. `held`
and `ret` are ghosts.

**PMMScan.** The two loops of `pmm_alloc_pages` bit by bit, from every bitmap,
hint and count, against `PageRuns`.

**Keyboard.** The handler runs through an interrupt gate, so it is one step,
enabled when the flag is set and a scancode waits. `keyboard_getchar` is four
steps: `cli`; test, then `sti; break` or `sti; hlt` (one step: the CPU takes
no interrupt between these two); load; advance. Callers are the shell and a
program, with the syscall's entry and `sysretq`, exit and fault. Characters in
the ring are indices into the ghost sequence `stored`, so that a
character returned twice or from an overwritten slot is told apart. The PS/2
device is external: scancode set 1, with Print Screen as the key that sends an
E0-prefixed shift.

**Fat16.** Each sector write is a step: FAT, its second copy, data, directory.
Sizes count clusters; contents are tagged with the write they come from. The
directory has several sectors, each of which `fat16_write_file` scans up to its
own end marker, and may hold a subdirectory. `Crash` stops the machine
between two writes. `torn` records that a replacement or a deletion was cut
short, or that a replacement was refused for lack of space: after that the
properties of the volume are known not to hold (findings). Names
are names after `format_fat_name` (`FatName` has that function); those whose first
byte would read as the mark of a deleted slot or of the directory's end are left out. Sector
transfers succeed, as `ReadsSeeWrites` of `ATA` says while the drive reports no error.

**FileStore.** The promise that `Fat16` implements: files, the names with an entry, the
running call with its name and what it was given, and the value it returned. A call takes
effect when it returns, on its own file, by what it was given, and returns the size or 1;
one that returns 0 and a crash change nothing, or, in mid-replacement and mid-deletion, tear the
volume, which still spares the other files at that step. In the refinement mapping the
running call and its content come from the driver's locals (`RunningCall`), `ret` is the driver's.

**Process.** Pages are numbers, and every page has contents as a page table, so
that a page that is not cleared maps what its last owner left. Virtual pages
have four indices; the top level has a kernel half. The total memory is chosen
at the start from 3 to 24 pages: exhaustion strikes at each allocation in some
behaviour. An executable is a verdict on its header and a list of segments with
address, size in memory, size and place in the file; the file is read into its
buffer, and the clipping and copying of each page is done byte by byte on pages
of three bytes, as is the argument string. A file part that reaches behind the file
buffer copies bytes of which nothing is known (`Stale`). The stack page keeps what it held. `abandoned` collects
the pages that nothing refers to any more: those of a faulted program, and
those replaced when two segments share a page. `vmm_map_page` does not test its
allocations: with no page left, physical page 0 is cleared and becomes the table, on
several levels if memory stays out, and `vmm_free_pagemap` later frees page 0, which a
further allocation returns as NULL (`NullAlloc`). As a table page 0 goes by the number
`Zero`, since 0 is an absent entry; `zeroed` records that it happened, and from then on only
types are promised. Where page 0 serves on two levels a program's page is read as a
table; what it holds is a stand-in (`Garbage`: entries for one reserved page). The model
stops where a page of a segment lies in the kernel's half (`kernel_half`), since
`vmm_map_page` would then change tables that all page maps share.

**UserAccess.** The syscalls that take pointers. `vmm_check_user_string` is one
step per page, because it reads the memory it is checking;
`vmm_check_user_ptr` touches only page tables and is a predicate. The four-level
walk with its flags is reduced to `mapped`: `process_exec` maps every page with
user and write permission, so that a page has all flags on all levels or fails
the walk. Addresses and sizes have widths; the third argument of the write call is
narrowed as the code does. `touched` records every byte the kernel reads or writes.

**Editor.** One action per branch of the key loop. The buffer is a function on
offsets with its size, the bytes after the text keep what they held. A file is read
under the name given and saved under that name cut to 31 characters; `target` says
whether the cut lost the extension and so means another entry. Saving
either stores everything or is refused. A refused replacement leaves the entry on its
freed chain, of which one cluster can be read: as it was, or with a piece of the
new text (`Refused`); the rest of the editor's buffer stays zero. In all cases
syscall 9 returns 0. `screen` is what `draw_editor_ui` painted last; the refinement
maps the screen, not the buffer, to `TextEditor`, so that a branch that forgets to
redraw breaks it.

**Console.** `vga_putchar` and its callers as functions on (cells, row,
column), printing a string as a recursive function of its length; the shell's line
loop, one key per step; splitting at the first space; dispatch. Row and column are
`size_t` with their wrap at `SizeMax`, and a program sets them to any value, as
`vga_set_cursor` lets it. A character at a cursor outside the grid is a stray write
(`stray`): the cursor goes on as in the code, what was hit is not modelled, and the write
may fault. The ghosts follow the line as it was edited (`line`), of which the array may hold
less (`full`), where it begins on the screen (`start`), how many of its first characters
later ones overwrote after a lap of the screen (`hidden`), and whether a backspace
found the cursor in the top left corner (`stuck`). A line whose arguments do not fit
`args` ends in `clobbered`.

**Lisp.** The script is a sequence of tokens. `read_expr` and `read_list` return
the node, the tokens left and the nodes made; `eval` is a recursive operator
that threads the program's static state (environment, pool, output) and a
status: the pool may be exhausted, the stack page overflow (a frame of `eval`
takes about 800 bytes, so that a fifth nested list ends in a fault), an
argument be stored outside its array, a NULL pointer be followed. Nodes are
values, since no node changes once made. `LispMeaning` gives expressions their
meaning by substitution, on mathematical integers and unbounded tables, and no
meaning to what is an error; it shares with `Lisp` only the constructors of nodes.
It stays with TLC: the operators are recursive.

**TarFS, FatName, ACPI.** Pure operators: an image is a sequence of blocks, a
name a sequence of characters, a DSDT a sequence of bytes; sleep type and port have 16 bits,
and the enable bit is OR-ed. `Archive` is what
`tar` writes for a list of members and is the reference for everything that
reads the image. Loops over characters, blocks and bytes are recursive functions of
the number of rounds, so that they can be reasoned about.

**ATA.** Both calls, step by step: poll, address registers, command, poll, data,
flush, poll. The drive (external) has a write cache, takes time for each
command and for the data of a write, ignores commands while busy, and may fail:
the status then shows ERR next to DRDY. Without a drive all bits read as one.

**Interrupts.** Rings, segment selectors, interrupt flag and stacks (each known
by its name), the tables the set-up code loads, and the two controllers with
masks, vectors, requests and priorities. Each write of `pic_remap` is a step. A
program may make any call or fault at any time.

**Machine.** The boot order of `_start`, then one action per shell command, with
an interrupt possible between any two steps. A `world` is what the machine finds
at power-on: archive, firmware tables, drive, interrupting devices, names typed.
A file system call is any sequence of sector transfers; what FAT16 does with
them is in `Fat16`. Memory, loading and line input are in `PMM`, `Process` and
`Console`, so that the commands begin when a line has been typed.

## 3. Runs

| Run | Checks | Result |
|---|---|---|
| `pmm` | types, bitmap reserved, bitmap = holders, exact counter, refinement of `PageAllocator`; map of six regions, 12 pages, bitmap of three pages, counts up to 3 | holds |
| `pmm_scan` | loops = `PageRuns` for all bitmaps of 6 pages, counts up to 4 | holds |
| `pmm_unaligned` | `BitmapIsReserved` with a bitmap of 1.5 pages | **violated** |
| `keyboard` | no ghost keys, nothing lost without overrun, keystrokes decode as typed, keys delivered; ring of 3, every order of 5 taps of letters, arrows, shift and Print Screen (a lap and a half of the ring, overrun included) | holds |
| `fat16` | chains, leaks, FAT copies, directory, refinement of `FileStore` (each call with its effect and result), every call ends (on torn volumes too); 3 names and a subdirectory, 5 clusters of which 3 are allocatable (one of them the subdirectory's), sizes 0..2, 3 writes, any number of deletes, 1 crash; two FAT sectors, two directory sectors | holds |
| `fat16_rollback` | a refused write leaves no entry on free clusters | **violated** |
| `process` | types throughout and, until a page table is put into page 0: page maps private, pages accounted and the kernel's kept, exactly the segments mapped, segments and arguments in memory byte by byte, CR3 live; 9 executables, 3 runs, 3..24 pages of 3 bytes | holds |
| `user_access` | the kernel touches only the program's memory, refuses exactly the bad calls, every syscall returns; 3 user pages of 2 bytes, all sets of mapped pages, all placements of zero bytes, pointers and sizes at, before and after each boundary | holds |
| `editor` | buffer in bounds, vertical moves against a definition by lines, refinement of `TextEditor` by what the screen shows; room for 3 more characters, pool of 5 bytes, clusters of one, 2 sessions on the two names | holds |
| `console` | shell on the screen, screen = line typed, line = command while it fits, dispatch = line typed; 2 x 3 cells, coordinates up to 4, line of 6, 8 keys and calls | holds |
| `lisp` | the reader inverts writing, one slot per name, scripts run as they mean, numbers read back as printed, every round of the main loop consumes text; all texts of up to 6 tokens over 5 tokens and all sequences of up to 3 of 22 forms; 5-bit integers, 60 nodes, 2 names, 2 arguments, 4 frames | holds |
| `machine` | segments, stacks and frames at every step, sectors read back and reach the medium, archive and names as written, power-off, devices handled, transfers end, keys are taken; one world each with a working and a failing drive, one where timer, keyboard and disk interrupt, one where every name of up to 4 characters is typed, and one per archive (all of up to 2 of 6 members, and two of 3) and per firmware (22) | holds |

Why the bounds are enough. They are chosen so that each limit in the code is
reached and passed: the ring overruns and wraps; the disk fills in mid-file, and
a slot is reused after a deletion; the directory fills; memory ends at each
allocation; the hint wraps; the editor's buffer fills; the command line
fills, the cursor wraps in both directions, a line goes once around the screen, and a program puts the cursor beyond each edge and at the largest `size_t`; the node pool, the table of
names, the arguments and the stack of the interpreter are exceeded, and its
integers wrap; an archive has sizes of none, part of, exactly and several
blocks, with one and two octal digits; names are shorter than, as long as and
longer than their fields; a drive is busy for any length of time at each poll,
and fails at each command. Page size, ring size, table
sizes and buffer sizes are scaled down; the code compares and increments them
and does not otherwise depend on their values. For the properties
of section 5 the proofs remove the bounds.

Symmetry is used for the three file names of `fat16_rollback` (interchangeable
model values), and not in `fat16`, which checks liveness. `CHECK_DEADLOCK FALSE` is set where
the model ends: bounded sessions, programs and keys, a power-off, the scan.

### Fairness

`KeysAreDelivered` assumes weak fairness of the steps of `keyboard_getchar`,
`sysretq` and the return to the shell (the CPU executes its instructions),
strong fairness of the handler (an interrupt that is pending each time the flag
is set is taken: the PIC keeps the request), and strong fairness of the calls of
`keyboard_getchar`: whoever runs goes on asking for keys. The last is what
shell, editor and Lisp do in their main loops; a program that never reads the
keyboard would refute it and is not the driver's fault. `CallsReturn` assumes
weak fairness of the next step of a running FAT16 call: sequential code on a disk
that answers. `SyscallsReturn` assumes the same of `syscall_handler_c`.
`DiskCallsReturn` and `KeysAreTaken` assume weak fairness of the kernel's own
steps (the CPU executes its instructions) and of the drive (it ends a command,
one way or the other), strong fairness of the return of file system calls
(`CallsReturn` of `Fat16`; a call that transfers sectors for ever would keep
interrupts off) and of taking an interrupt that is requested while the flag is
set. Nothing is assumed of keys, programs or devices.

## 4. Findings

1. `pmm.c:71` (run `pmm_unaligned`): the bitmap is carved from its region in
   bytes. Unless the number of pages is a multiple of 32768 (128 MiB), the page
   with the bitmap's end is cleared as usable, and its holder overwrites
   allocation bits.
2. `fat16.c:264` (`fat16_rollback`): a replacement that is refused for lack of
   space leaves the entry pointing at the freed chain ("sem corromper o FAT").

`PROJECT.json` quotes for each the document or comment it disagrees with. Seen
while modelling, visible in the models, and without a run of their own:
a free run of pages that spans the next-fit hint is found by neither loop
(`pmm.c:139`, `Exhausted` in `PageRuns`); the last two clusters of a volume are
never allocated (`fat16.c:61`, `Allocatable` in `Fat16`); a failed allocation of a
page table is not noticed: page 0 becomes the table and is later freed (`vmm.c:58`, `zeroed`
in `Process`, the exception in its properties); a segment is refused when it begins in the
kernel's half, not when it runs into it (`process.c:97`, `kernel_half` in `Process`);
that the file holds a segment's file part is not checked (`process.c:131`, `FileByte` and
the exception in `ProgramSeesItsFile`); a segment of size 0 inside a page maps that page
(`process.c:106`, `SegmentPages`);
the screen does
not scroll, the cursor goes to the top (`vga.c:94`, `NextRow` in `Console`), although
`doc/dev-guide-html/syscall.html:225` speaks of "rolagem de tela", and a backspace does not come
back from there (`vga.c:76`, `stuck`); a program may set the cursor to any row and column,
and characters are then stored outside the framebuffer, by the next prompt at the latest
(`syscall.c:55`, `vga.c:41`, `vga.c:86` and `vga.c:114`, `stray` in `Console`); an
E0-prefixed shift leaves `e0_pressed` set, and the next key is lost
(`keyboard.c:37`, the exception in `DecodesKeystrokes`); a buffer that ends at the
very top of the lower half is refused (`vmm.c:116`, the exception in
`RefusesExactlyTheBad`); without arguments the args pointer of a program refers to
the unmapped page after its stack (`process.c:147`, `user_stack_ptr` in `Process`);
the pages of a program that faults are never freed (`idt.c:66`, `abandoned` in
`Process`), nor, when the program exits, is the page that a second segment on the same page
replaced (`vmm.c:78`), although `doc/os-design/lisp_dos_specification.md:48` says of the
cleanup at `sys_exit` "garantindo que não há vazamento de memória";
a file name of more than 31 characters is read whole and saved cut (`editor.c:84`, `target` in
`Editor`);
syscall 9 returns 0 in any case, so that the editor reports an error after every
save (`syscall.c:91`, `Save` in `Editor`). In the machine: interrupts are enabled
before the controllers are remapped, and from ICW1 to the mask a timer tick, a
disk interrupt or an early key ends in a kernel panic (`idt.c:103`, the exception
in `DevicesAreHandled`); the comment at `pic.c:20` speaks of unmasking the cascade,
the mask leaves it off; between the switch to the user's stack and `sysretq` an
interrupt pushes its frame below the user's stack pointer, where the programs,
which are compiled with a red zone, may keep data (`syscall_asm.S:50`, the exception
in `FramesOnKernelStack`); a flush command that follows the data too fast is
ignored by a busy drive (`ata.c:51`, the exception in `ReadsSeeWrites`); a
failed read returns what the data port held, and nobody is told (`ata.c:11`); a
sleep type whose low six bits are 0 is replaced by 5 (`acpi.c:141`, the exception in `PowersOff`), and
after a definition of `_S5_` that is no package the search goes on in the wrong
place (`acpi.c:127`). In the interpreter: a text that ends inside a list runs as if
it were closed (`lisp.c:148`); arguments that are errors count as 0 (`lisp.c:237`);
names beyond the 128th are dropped silently (`lisp.c:168`); `(-)` reads an
unset slot (`lisp.c:242`), more than 16 arguments are stored outside the array
(`lisp.c:229`), the least integer divided by -1 traps (`lisp.c:253`) and prints as a
lone sign (`lisp.c:15`), an incomplete `defun` or `setq` follows a NULL pointer
(`lisp.c:206`), and five nested calls overflow the one-page stack (`lisp.c:192`).

## 5. Proofs

| Module | Theorem | States, for every value of the constants |
|---|---|---|
| `PMMProofs` | `Invariance` | the inductive invariant `IInv` |
| | `TypeCorrect` | `TypeOK`: among others, the counter is never negative, the hint never passes the end |
| | `BitmapReserved` | no page that stores part of the bitmap is handed out |
| | `HoldersTracked` | clear bits = pool pages that nobody holds |
| | `FreeMemoryCounted` | the counter is exact, through `pmm_init` too |
| | `Refinement` | `PMM` implements `PageAllocator` |
| | `ScanFindsTheRun` | the two loops of `pmm_alloc_pages` stop at the run that `PageRuns` defines; `PMM` and `Process` use that definition |
| `KeyboardProofs` | `KeyboardReturnsNoGhosts` | each character is returned at most once, and in order, also when the ring overruns |
| | `KeyboardLosesNothing` | until then, returned and waiting characters are all that were stored |
| | `KeyboardDecodes` | the characters stored are those of the keystrokes |
| `UserAccessProofs` | `SyscallsStayInUserMemory` | no syscall touches a byte outside the program's memory |
| | `SyscallsRefuseExactlyTheBad` | a call is refused exactly when its string or buffer leaves that memory |
| `Fat16Proofs` | `Fat16CopiesAgree` | both copies of the FAT are the same between calls |
| | `Fat16DirectoryWellFormed` | one entry per name, none behind the end marker |
| | `Fat16ChainsIntact` | chains are complete and disjoint |
| | `Fat16LosesNoClusters` | without a crash every cluster in use belongs to an entry |
| | `Fat16ImplementsFileStore` | `Fat16` implements `FileStore`: effect and result of each call belong together |
| `ProcessProofs` | `ProcessAccountsForPages` | types; until page 0 becomes a page table, every busy page is the kernel's, in use or abandoned, whichever other allocation fails |
| | `ProcessTreeIsPrivate` | a page map is a tree of pages that nothing else refers to |
| | `ProcessCr3IsLive` | CR3 refers to a busy page with the kernel's half, after a fault too |
| | `ProcessProgramSeesItsFile` | a running program has exactly its pages, each byte as the file says, and its arguments |
| `ConsoleProofs` | `ConsoleEchoes` | the shell stays on the screen, which shows the line typed, and the line is the command while the array holds it; wherever programs put the cursor |
| | `ConsoleRunsWhatWasTyped` | the command that runs is the one whose whole name was typed |
| `MachineProofs` | `DiskReadsSeeWrites` | sectors read back as written and reach the medium |
| | `FramesStayOnKernelStacks` | frames of interrupts and exceptions go to a kernel stack |
| | `SegmentsAlwaysFit` | the selectors fit ring and descriptor table |
| | `DevicesAlwaysHandled` | no device ends in a panic (an action property) |
| | `NamesRoundTrip` | names that fit an entry are listed as typed, in upper case |
| | `PowerAlwaysOff` | power-off requests what the firmware defines as off, in 16 bits |
| | `ArchiveAlwaysAsWritten` | `dir`, `type` and `exec` see the archive as `tar` wrote it |
| `EditorProofs` | `EditorStaysInBuffer` | `TypeOK`: cursor in the text, text in the buffer with a byte to spare |
| | `EditorMovesByLines` | the arrows up and down go to the neighbouring line |
| | `EditorImplementsTextEditor` | `Editor` implements `TextEditor` |

Each property has the exceptions that its definition states and section 4 lists; the
proofs show that there are no others.

### Assumptions

Every module names its own, and TLC evaluates them on the constants of its run.
- `PMM`: `SizesAssumption` (positive sizes, NULL is no address), `MemMapAssumption`
  (what the Limine protocol promises of usable entries: page aligned, no overlap), and
  the hypothesis `BitmapFillsPages` of each theorem: the number of pages is a multiple of
  `BitsPerByte * PageSize`. It is not an artefact: run `pmm_unaligned` is the
  same specification without it and fails. The code should establish it
  by rounding `bitmap_size` up to pages.
- `Keyboard`: a ring of at least two slots; any set of the keys modelled.
- `UserAccess`: the lower half is a number of whole pages, and adding a size to an
  address in it does not wrap: a 32-bit size added to a 47-bit address.
- `Fat16`: positive sizes of volume, sector and directory, fewer clusters than FAT16
  has numbers for (65519), and names that are no directory marks.
- `Process`: user and kernel indices differ, user indices count from 0, pages have at least
  one byte, at least three pages of memory; any set of executables with any segments, in
  any order and at any place, also overlapping, with file parts longer than the memory or
  the file; argument strings shorter than a page (`main.c` has 224 bytes for them).
- `Console`: at least two rows and two columns, which a `size_t` can count; the prompt begins with a
  visible character; spaces can be typed, a newline and a
  backspace are no characters; names of commands leave a byte of their array free, so
  that a name that was cut is no command's.
- `Machine`, `ATA`: the types of the worlds at power-on (DSDTs of bytes); registers of at least two
  values; a formatted disk has its boot sector at sector 0.
- `TarFS`: members have a name and a size that fits the size field; the field is padded with
  zeros or blanks (`MemberOK`); without a boot module there are no members.
- `FatName`: upper case changes no character into a space, and no dot.
- `ACPI`: a sleep type that a world claims is the one its DSDT defines (`DefinesS5`): the
  first definition of `_S5_` is a package with that first element. `PowersOff` says nothing of
  the others, nor of ports of more than 16 bits, which the code cuts.
- `Editor`: files are sequences of characters and zeroes; a cluster has at least one byte; the buffer has at least one
  byte more than the file (`editor.c` asks for 8 KiB more).

### Inductive invariants

None of the properties is inductive. What each needs besides itself:

`PMM`, `IInv`: `Types`, `TypeOK` with the range of the loop counters in each phase;
`HighestSoFar`, `highest_address` is the top of the usable entries seen so far, hence,
once the scan is over, one that `BitmapFillsPages` speaks of; `EntriesSound`, usable
entries stay page aligned and disjoint, also the one that was carved (the use of
`BitmapFillsPages`); `BitmapApart`, the bytes of the bitmap lie in no usable entry;
`ClearedSoFar`, in the clearing loop the clear bits are exactly the pages of the
entries and offsets visited; `Quiet`, before `ready` nobody holds a page. The
counter is exact only because no page is cleared twice (disjoint entries), and a store by a
holder leaves `bitmap` alone only because no page of the pool stores a bit of it
(`BitmapApart`). There is one lemma per action, `XKeeps`; the arithmetic of aligned
addresses is in lemmas of its own. For the refinement, a failed scan for one page means
that no bit is clear (`SinglePageFound`); `HolderWrites` stutters.

`PMMScan`, `ScanInv`: the loop over a range has passed every run that ends
before its counter, and `contiguous` counts exactly the clear bits behind it. The
second loop needs that the first has failed.

`Keyboard`, `RingInv`: head and tail are the numbers of characters stored and
returned, modulo the ring size; every slot holds the latest index
that belongs to it; the last index returned is congruent to the number returned, even
after the handler has overtaken the reader; and what `keyboard_getchar` has tested or
loaded stays true whatever the handler does before its next step (`InFlight`).
`DecodeInv` gives for every scancode on the wire what the handler will make of it, so
that the flags `shift_pressed` and `e0_pressed` are those of the key that sent it.

`UserAccess`, `AccessInv`: the search has passed over mapped bytes only, none of them
zero (`Searched`); hence it ends at the first zero, and a string that passed is good until
it is used (`Checked`).

`Fat16`: `TypeInv`; `CopiesInv`, the copies differ at most in the sector whose second
write is due; `DirInv`, slots behind the first end marker are end markers, and the slot a
call has chosen is one whose use keeps names unique; `ChainInv`, while the volume is not
torn there is one path per owner (each slot, and the running call), each a chain of the
FAT, no two with a cluster in common, and the running call's path is what it has linked
so far or has still to free; `WasInv`, a call that replaces nothing is about a name that
did not exist. `ChainInv` is what the properties between calls lack: in mid-call the
directory does not say who owns the new clusters. From it, the walk of the reader along the
FAT visits exactly the path (`Walk`, `OnPath`), and a step that spares the paths of
an entry leaves what it reads alone (`Spared`). In the refinement the last directory
write of a call is its one visible step: what is on the path then is what the call was
given (`Given`), all of it, and the size it returns.

`Process`, `TypesAlways` holds throughout; `ProcInv` until page 0 becomes a page table
(`StaysZeroed`: that is never undone, so that a step from a state before it leads to one
before it or to one of which nothing else is said). `NullAlloc` there means that no page is free,
since page 0 is busy. `ProcInv`: there are levels `L` that form a tree in memory under the current
page map (`TreeOK`: every page but the root is referred to by one entry, from the level
above), and file buffer, tree, page in hand, abandoned and reserved pages are apart
and together the busy ones. Maps are built from recycled pages, so that the invariant must say
that a fresh table is cleared before it is linked (`EntrySet`); and freeing gives back
the tree, once, because no page is on two levels or behind two entries.
On top of it, `SeesInv` says what has been loaded so far (`Maps`): with `Limit[k]` the pages of
segment k that are done, the pages mapped are those, and each that no later segment took
over holds the bytes of the file, clipped at both ends; in mid-mapping the table in hand is
where the walk along the new address has come (`CursorInv`), and the file buffer holds the
file (`DataInv`). That a step changes one translation and no other is read off the tree:
two addresses with different indices end in different entries.

`Console`, `ConInv`: the line that is being typed starts where the prompt ended, each of its
characters but the `hidden` ones is in its cell, counted around the screen, and the cursor is
behind the last, as long as no backspace was stuck and nothing was stored outside; `line` is
what the array holds until a character does not fit, and is never shorter. Printing is
followed character by character: from any cursor at all, the first visible character of a prompt
is a stray write or finds the cursor on the screen, where it then stays. A typed character fills its
cell, and a backspace undoes it, over a line end too. For the command, cutting the
name does not matter: a name that is cut is longer than every command.

`Machine`, `CpuInv`: what stack, flag, ring, selectors, tables and controllers are
as a function of where the processor is (`StacksOK`, `FlagsOK`, `TablesOK`,
`SegmentsOK`, `PicOK`), during a file system call as a function of where that call will
return to (`Where`). `DiskInv`: the registers are those of the call's sector from
the command on, the drive's cache is what was written but for the sector in flight, and
each step of a call knows how far an error-free transfer has come (`TransferOK`).
The properties of commands need little invariance and much about functions: that the archive in
memory is `Image(world)` once `tarfs_init` has run (`RamdiskOK`), that what was found in the
tables at boot is kept (`PowerOK`), that what was shown is about a name that was typed
(`NameShown`). For the archive: the size field reads back as written (`OctalRoundTrip`, the
digits of the number from either end); the image is the members' blocks one behind the other
(`Layout`); the loop stops at each header and nowhere else, whatever data blocks look like
(`HeadersFound`); the bytes behind a header are the text of the member, also in a last block that
is part filled (`DataFound`). For names: what `format_fat_name` pads and cuts, the listing
joins (`NameRoundTrip`). For power-off: the search finds the first definition (`FindsS5`), and
shift and OR in 16 bits keep the low three bits of its value.

`Editor`, `EditInv`: buffer and cursor bounds while it runs, and the screen shows the
buffer (`Painted`), without which the refinement, which reads the screen, does not
hold. That the loops over bytes that shift the text insert and delete one character, and
that the searches for newlines find the lines that `LineOf` counts, are lemmas on
texts.

What a recursive function or a choice of a least element yields is proved by the least
counterexample (`LeastNumber`, from `WFMin` and `NatLessThanWellFounded` of the library),
since the library's induction theorems cannot be instantiated by the provers at hand. For
loops, `LoopRuns` gives the function that N rounds define, and `Upwards` carries a fact
from each round to the next.

### Only model-checked

- Liveness under fairness, which is beyond the prover: `KeysAreDelivered`, `CallsReturn`,
  `SyscallsReturn`, `DiskCallsReturn`, `KeysAreTaken`.
- `Lisp` and `LispMeaning` (`ReadsWhatIsWritten`, `RunsAsItMeans`, `EveryRoundConsumes`): reader,
  evaluator and reference are `RECURSIVE` operators over nested lists, with which the
  provers cannot work, and what they compute needs induction over expressions.

Every other property that a passing run checks is stated by a theorem.

## 6. Not modelled, and the plan

Not modelled, as components: the kernel heap (`heap.c`: a bump allocator nothing
calls; `heap_init` is empty, `kfree` does nothing); the string routines, which
appear as assignments; the serial port (output only); PCI and USB (`pci_init`
prints what it finds and keeps nothing, the USB routines are stubs); the font;
the ring-3 test program, an instance of `Process`'s programs; the vendored Limine
header, whose promises are assumptions of `PMM` and the initial state of
`Interrupts`.

Not modelled, in the components that are: timing, such as the 400 ns a drive may
take to show BSY; the fields of the ELF header beyond a verdict, and what
follows when a segment reaches from the user's half into the kernel's (`process.c:97`);
glyphs and colours; white
space and long atoms in Lisp, and the stack that its reader uses; whatever else uses physical
page 0 once it is a page table (`vmm.c:58`), and what a program's page means as a table
there; what a line longer than `args` overwrites (`main.c:134`), and what a character outside
the framebuffer does (`vga.c:114`).

The models cover the code that keeps state, and all of their safety properties outside
the interpreter are proved. What is left: the interpreter, which would need an
evaluator without recursive operators (an explicit stack of frames, one action per frame)
before its properties could be proved; and liveness, which stays with TLC.
