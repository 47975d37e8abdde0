------------------------------- MODULE Process -------------------------------
(***************************************************************************)
(* Running a program: process_exec (kernel/process.c) on top of the page   *)
(* tables of kernel/vmm.c and of the allocator of kernel/pmm.c, then the   *)
(* two ways back to the shell: syscall 60 (kernel/syscall.c) and a fault   *)
(* in ring 3 (exception_handler in hal/idt.c).                             *)
(*                                                                         *)
(* Physical pages are numbers.  A page that serves as a page table holds   *)
(* one entry per index: the page it refers to, or 0 (not present).  Page 0 *)
(* is what a failed allocation returns, and vmm_map_page does not check:   *)
(* page 0 as a table goes by the number Zero, so that an entry for it and  *)
(* an absent one differ.                                                   *)
(* A virtual page is a tuple of four indices, PML4 first.  A page that     *)
(* serves a program or the file buffer holds bytes: the byte of the file   *)
(* at offset n is n + 1, other pages hold Stale bytes.  The allocator is   *)
(* the next-fit scan of PageRuns, so that exhaustion strikes at every      *)
(* allocation of process_exec, depending on the memory left.               *)
(***************************************************************************)
EXTENDS Naturals, FiniteSets, Sequences, PageRuns

CONSTANTS
  Programs,        \* [file_pages, header, segs, args]; a segment is
                   \* [vaddr, memsz, filesz, offset]
  PageBytes,       \* 4096
  UserIndices,     \* indices of a table; at the top level the lower half
  KernelIndex,     \* stands for the upper half of a PML4, 256 .. 511
  StackPage,       \* 0x700000000000
  TopPages,        \* the values of pmm_highest_page to try
  MaxRuns          \* bound: number of programs started

\* Physical pages that pmm_init leaves busy: page 0, the kernel's PML4 and
\* the table that its upper half refers to.
KernelPML4 == 1
KernelTable == 2
Reserved == {0, KernelPML4, KernelTable}

Indices == UserIndices \cup {KernelIndex}

Fanout == Cardinality(UserIndices)
UserTop == Fanout ^ 4 * PageBytes      \* 0x0000800000000000
Stale == 99
NULL == <<0>>                          \* no argument string: a string has no zero byte

ASSUME ProcessAssumption ==
  /\ KernelIndex \notin UserIndices
  /\ Fanout \in Nat \ {0} /\ UserIndices = 0..(Fanout - 1) /\ PageBytes \in Nat \ {0}
  /\ StackPage \in UserIndices \X UserIndices \X UserIndices \X UserIndices
  /\ TopPages \subseteq Nat /\ \A t \in TopPages : t > 2
  /\ MaxRuns \in Nat
  /\ Programs # {}
  /\ \A p \in Programs :
       /\ p.file_pages \in Nat
       /\ p.segs \in Seq([vaddr : Nat, memsz : Nat, filesz : Nat, offset : Nat])
       /\ p.args # NULL => p.args \in Seq(Nat) /\ Len(p.args) < PageBytes

VARIABLES
  top,             \* pmm_highest_page
  bitmap,          \* the busy pages
  hint,            \* pmm_last_allocated_index
  mem,             \* contents of every page, seen as a page table
  data,            \* contents of every page, seen as bytes
  cr3,             \* the page map in use
  pc,              \* where process_exec is; "shell" or "user" outside it
  prog,            \* the program
  phys_buf,        \* first page of the buffer that holds the file
  process_pml4,
  seg, j,          \* the segment and the page of it to load next
  frame,           \* paddr / stack_phys: the page to map next
  vpage,           \* where to map it
  level, table,    \* progress of vmm_map_page
  runs,
  abandoned,       \* ghost: pages that no one can free any more
  zeroed           \* ghost: page 0 became a page table

alloc == <<bitmap, hint>>
mapping == <<frame, vpage, level, table>>
vars == <<top, alloc, mem, data, cr3, pc, prog, phys_buf, process_pml4, seg, j, mapping,
          runs, abandoned, zeroed>>

Frames == 1..(top - 1)
Zero == top                                   \* page 0, as a page table
Empty == [k \in Indices |-> 0]
Garbage == [k \in Indices |-> KernelTable]    \* memory that is no page table

\* pmm_alloc_page and pmm_alloc_pages (see PMM.tla).
Alloc(s, n) ==
  /\ Picks(bitmap, hint, top, s, n)
  /\ bitmap' = bitmap \cup s..(s + n - 1)
  /\ hint' = IF n = 1 THEN s ELSE s + n

AllocFails(n) == Exhausted(bitmap, hint, top, n)

\* The bitmap and the hint after an allocation that returned NULL: there was no
\* page, or page 0 was free, whose address is NULL.
NullAlloc(n) ==
  IF AllocFails(n) THEN {[busy |-> bitmap, hint |-> hint]}
  ELSE IF Picks(bitmap, hint, top, 0, n)
    THEN {[busy |-> bitmap \cup 0..(n - 1), hint |-> IF n = 1 THEN 0 ELSE n]}
    ELSE {}

FileBuffer == phys_buf..(phys_buf + prog.file_pages - 1)

Present(t, indices) == {mem[t][k] : k \in indices} \ {0}

\* The tables of a page map: those of its lower half, on three levels.
Tables(map) ==
  LET pdpts == Present(map, UserIndices)
      pds   == UNION {Present(t, Indices) : t \in pdpts}
      pts   == UNION {Present(t, Indices) : t \in pds}
  IN [all |-> {map} \cup pdpts \cup pds \cup pts, last |-> pts]

\* A page map: its tables and the pages they map.
MapPages(map) ==
  Tables(map).all \cup UNION {Present(t, Indices) : t \in Tables(map).last}

\* The pages that vmm_free_pagemap frees, page 0 like any other.  Where page 0
\* serves on several levels a program's page is taken for a table: Garbage.
vmm_free_pagemap(map) == {IF p = Zero THEN 0 ELSE p : p \in MapPages(map)}

\* The page that a virtual page translates to, 0 if it is not mapped: the walk
\* of the MMU.
Translate(map, v) ==
  LET next(t, k) == IF t = 0 THEN 0 ELSE mem[t][v[k]]
  IN next(next(next(next(map, 1), 2), 3), 4)

UserPages == UserIndices \X UserIndices \X UserIndices \X UserIndices

Init ==
  /\ top \in TopPages
  /\ bitmap = Reserved
  /\ hint = 0
  /\ mem = [p \in 0..top |->
       IF p = KernelPML4 THEN [Empty EXCEPT ![KernelIndex] = KernelTable] ELSE Garbage]
  /\ data = [p \in 0..(top - 1) |-> [k \in 0..(PageBytes - 1) |-> Stale]]
  /\ cr3 = KernelPML4
  /\ pc = "shell"
  /\ prog = CHOOSE p \in Programs : TRUE
  /\ phys_buf = 0 /\ process_pml4 = 0 /\ seg = 1 /\ j = 1
  /\ frame = 0 /\ vpage = StackPage /\ level = 0 /\ table = 0
  /\ runs = 0
  /\ abandoned = {} /\ zeroed = FALSE

-----------------------------------------------------------------------------
(* process_exec *)

\* An early return: the locals are dead.
ToShell ==
  /\ pc' = "shell"
  /\ phys_buf' = 0 /\ process_pml4' = 0 /\ seg' = 1 /\ j' = 1
  /\ frame' = 0 /\ vpage' = StackPage /\ level' = 0 /\ table' = 0

\* No such file: nothing happens.  Otherwise a buffer for the whole file.
Exec(p) ==
  /\ pc = "shell"
  /\ runs < MaxRuns
  /\ runs' = runs + 1
  /\ prog' = p
  /\ \/ /\ p.file_pages > 0
        /\ \E s \in Frames : Alloc(s, p.file_pages) /\ phys_buf' = s
        /\ pc' = "check"
     \/ /\ p.file_pages > 0
        /\ \E a \in NullAlloc(p.file_pages) : bitmap' = a.busy /\ hint' = a.hint
        /\ UNCHANGED <<pc, phys_buf>>
     \/ /\ p.file_pages = 0
        /\ UNCHANGED <<alloc, pc, phys_buf>>
  /\ UNCHANGED <<top, mem, data, cr3, process_pml4, seg, j, mapping, abandoned, zeroed>>

\* Unreadable file, no ELF, program headers outside the file, entry point in
\* kernel space: the buffer is freed.
CheckHeader ==
  /\ pc = "check"
  /\ data' = [p \in DOMAIN data |->
       IF p \in FileBuffer THEN [k \in 0..(PageBytes - 1) |-> (p - phys_buf) * PageBytes + k + 1]
       ELSE data[p]]
  /\ IF prog.header = "bad"
       THEN /\ bitmap' = bitmap \ FileBuffer
            /\ ToShell
       ELSE /\ pc' = "pagemap"
            /\ UNCHANGED <<bitmap, phys_buf, process_pml4, seg, j, mapping>>
  /\ UNCHANGED <<top, hint, mem, cr3, prog, runs, abandoned, zeroed>>

\* Mutant: the file buffer is not freed when there is no page for the map.
NewPagemap_KeepsBuffer ==
  /\ pc = "pagemap"
  /\ \/ /\ \E s \in Frames :
             /\ Alloc(s, 1)
             /\ process_pml4' = s
             /\ mem' = [mem EXCEPT ![s] =
                  [Empty EXCEPT ![KernelIndex] = mem[KernelPML4][KernelIndex]]]
        /\ pc' = "segments"
        /\ UNCHANGED <<phys_buf, seg, j, mapping>>
     \/ /\ \E a \in NullAlloc(1) : bitmap' = a.busy /\ hint' = a.hint
        /\ ToShell
        /\ UNCHANGED mem
  /\ UNCHANGED <<top, data, cr3, prog, runs, abandoned, zeroed>>

\* vmm_new_pagemap: cleared, the upper half copied from the kernel's.
NewPagemap ==
  /\ pc = "pagemap"
  /\ \/ /\ \E s \in Frames :
             /\ Alloc(s, 1)
             /\ process_pml4' = s
             /\ mem' = [mem EXCEPT ![s] =
                  [Empty EXCEPT ![KernelIndex] = mem[KernelPML4][KernelIndex]]]
        /\ pc' = "segments"
        /\ UNCHANGED <<phys_buf, seg, j, mapping>>
     \/ /\ \E a \in NullAlloc(1) : bitmap' = a.busy \ FileBuffer /\ hint' = a.hint
        /\ ToShell
        /\ UNCHANGED mem
  /\ UNCHANGED <<top, data, cr3, prog, runs, abandoned, zeroed>>

\* Every later failure frees the buffer and the page map.
GiveUp(busy) ==
  /\ bitmap' = (busy \ FileBuffer) \ vmm_free_pagemap(process_pml4)
  /\ ToShell

\* A segment is refused when it begins in kernel space; one that runs into it
\* is not, and vmm_map_page would write the tables of the kernel's half.  What
\* happens after that is not modelled.
StartMapping(s, v) ==
  /\ Alloc(s, 1)
  /\ frame' = s /\ vpage' = v
  /\ level' = 1 /\ table' = process_pml4
  /\ pc' = IF v \in UserPages THEN "map" ELSE "kernel_half"
  /\ UNCHANGED <<phys_buf, process_pml4>>

page_offset(segment) == segment.vaddr % PageBytes

\* page_count: the pages that the segment's bytes touch.
PageCount(segment) == (segment.memsz + page_offset(segment) + PageBytes - 1) \div PageBytes

\* The indices of the n-th virtual page.
VPage(n) ==
  LET pt == n \div Fanout
      pd == pt \div Fanout
      pdpt == pd \div Fanout
  IN <<pdpt, pd % Fanout, pt % Fanout, n % Fanout>>

\* The next page of the next segment; a segment in kernel space is refused.
LoadPage ==
  /\ pc = "segments" /\ seg <= Len(prog.segs)
  /\ LET segment == prog.segs[seg] IN
     \/ /\ segment.vaddr >= UserTop
        /\ GiveUp(bitmap) /\ UNCHANGED hint
     \/ /\ segment.vaddr < UserTop /\ j <= PageCount(segment)
        /\ \E s \in Frames : StartMapping(s, VPage(segment.vaddr \div PageBytes + j - 1))
        /\ j' = j + 1 /\ UNCHANGED seg
     \/ /\ segment.vaddr < UserTop /\ j <= PageCount(segment)
        /\ \E a \in NullAlloc(1) : GiveUp(a.busy) /\ hint' = a.hint
     \/ /\ segment.vaddr < UserTop /\ j > PageCount(segment)
        /\ seg' = seg + 1 /\ j' = 1
        /\ UNCHANGED <<alloc, pc, phys_buf, process_pml4, mapping>>
  /\ UNCHANGED <<top, mem, data, cr3, prog, runs, abandoned, zeroed>>

LoadStack ==
  /\ pc = "segments" /\ seg = Len(prog.segs) + 1
  /\ \/ /\ \E s \in Frames : StartMapping(s, StackPage)
        /\ seg' = seg + 1 /\ UNCHANGED j
     \/ \E a \in NullAlloc(1) : GiveUp(a.busy) /\ hint' = a.hint
  /\ UNCHANGED <<top, mem, data, cr3, prog, runs, abandoned, zeroed>>

\* Mutant: a new table is not cleared.
NewTable_Uncleared(s) == mem[s]

\* memset: what a new table holds.
NewTable(s) == Empty

\* The page s is cleared and becomes the missing table.
HangTable(s) ==
  /\ mem' = [mem EXCEPT ![s] = NewTable(s), ![table] = [@ EXCEPT ![vpage[level]] = s]]
  /\ table' = s /\ level' = level + 1

\* vmm_map_page, one level per step: a missing table is allocated.  The
\* allocation is not checked: when it fails, page 0 is cleared and used, at
\* this level and, where the next allocations fail too, at the ones below.
WalkTable ==
  /\ pc = "map" /\ level < 4
  /\ LET entry == mem[table][vpage[level]] IN
     \/ /\ entry # 0
        /\ table' = entry /\ level' = level + 1
        /\ UNCHANGED <<alloc, mem, zeroed>>
     \/ /\ entry = 0
        /\ \E s \in Frames : Alloc(s, 1) /\ HangTable(s)
        /\ UNCHANGED zeroed
     \/ /\ entry = 0
        /\ \E a \in NullAlloc(1) : bitmap' = a.busy /\ hint' = a.hint
        /\ HangTable(Zero)
        /\ zeroed' = TRUE
  /\ UNCHANGED <<top, data, cr3, pc, prog, phys_buf, process_pml4, seg, j, frame, vpage,
                 runs, abandoned>>

\* That the file holds a segment's file part is not checked: what lies behind
\* the buffer is copied then, which Stale stands for.
FileByte(at) ==
  LET p == phys_buf + at \div PageBytes
  IN IF p \in FileBuffer THEN data[p][at % PageBytes] ELSE Stale

\* The part of a segment's page that comes from the file: first byte, number
\* of bytes, place in the file.
Copied(segment, current_vaddr) ==
  LET start == IF current_vaddr < segment.vaddr THEN page_offset(segment) ELSE 0
      end   == segment.vaddr + segment.filesz
      size  == IF current_vaddr + PageBytes > end THEN end - (current_vaddr + start) ELSE PageBytes - start
  IN [start |-> start, src |-> segment.offset + (current_vaddr + start - segment.vaddr),
      size |-> IF current_vaddr + PageBytes > segment.vaddr /\ current_vaddr < end THEN size ELSE 0]

\* Mutant: the page is not cleared.
SegmentPage_NotCleared(segment, current_vaddr) ==
  LET c == Copied(segment, current_vaddr)
  IN [k \in 0..(PageBytes - 1) |->
        IF k \in c.start..(c.start + c.size - 1) THEN FileByte(c.src + (k - c.start)) ELSE data[frame][k]]

\* memset, then memcpy.
SegmentPage(segment, current_vaddr) ==
  LET c == Copied(segment, current_vaddr)
  IN [k \in 0..(PageBytes - 1) |->
        IF k \in c.start..(c.start + c.size - 1) THEN FileByte(c.src + (k - c.start)) ELSE 0]

\* user_stack_ptr, from the start of the stack page: the argument string and its
\* zero byte end with the page; without arguments it is the page's end.
user_stack_ptr == IF prog.args = NULL THEN PageBytes ELSE PageBytes - (Len(prog.args) + 1)

\* The stack page is not cleared.
StackData ==
  [k \in 0..(PageBytes - 1) |->
     IF k < user_stack_ptr THEN data[frame][k] ELSE Append(prog.args, 0)[k - user_stack_ptr + 1]]

\* The last level: the entry is written whatever it held, then the page is
\* cleared and filled from the file, or gets the arguments.
MapFrame ==
  /\ pc = "map" /\ level = 4
  /\ mem' = [mem EXCEPT ![table] = [@ EXCEPT ![vpage[4]] = frame], ![frame] = Garbage]
  /\ abandoned' = abandoned \cup ({mem[table][vpage[4]]} \ {0})
  /\ \/ /\ seg > Len(prog.segs)
        /\ data' = [data EXCEPT ![frame] = StackData]
        /\ pc' = "enter"
     \/ /\ seg <= Len(prog.segs)
        /\ LET segment == prog.segs[seg] IN
           data' = [data EXCEPT ![frame] =
                      SegmentPage(segment, (segment.vaddr \div PageBytes + j - 2) * PageBytes)]
        /\ pc' = "segments"
  /\ frame' = 0 /\ vpage' = StackPage /\ level' = 0 /\ table' = 0
  /\ UNCHANGED <<top, alloc, cr3, prog, phys_buf, process_pml4, seg, j, runs, zeroed>>

\* The buffer is freed and CR3 switched.
EnterProgram ==
  /\ pc = "enter"
  /\ bitmap' = bitmap \ FileBuffer
  /\ phys_buf' = 0
  /\ cr3' = process_pml4
  /\ pc' = "user"
  /\ UNCHANGED <<top, hint, mem, data, prog, process_pml4, seg, j, mapping, runs, abandoned, zeroed>>

-----------------------------------------------------------------------------
(* Back to the shell. *)

\* Mutant: CR3 keeps the program's map.
SysExit_KeepsCr3 ==
  /\ pc = "user"
  /\ process_pml4' = cr3
  /\ pc' = "exit"
  /\ UNCHANGED <<top, alloc, mem, data, cr3, prog, phys_buf, seg, j, mapping, runs, abandoned, zeroed>>

\* Syscall 60: CR3 is read, the kernel's map restored ...
SysExit ==
  /\ pc = "user"
  /\ process_pml4' = cr3
  /\ cr3' = KernelPML4
  /\ pc' = "exit"
  /\ UNCHANGED <<top, alloc, mem, data, prog, phys_buf, seg, j, mapping, runs, abandoned, zeroed>>

\* ... and the program's map freed; asm_return_to_kernel.
ExitFree ==
  /\ pc = "exit"
  /\ bitmap' = bitmap \ vmm_free_pagemap(process_pml4)
  /\ ToShell
  /\ UNCHANGED <<top, hint, mem, data, cr3, prog, runs, abandoned, zeroed>>

\* A fault in ring 3: straight to asm_return_to_kernel, nothing is freed and
\* CR3 stays.
Fault ==
  /\ pc = "user"
  /\ abandoned' = abandoned \cup MapPages(cr3)
  /\ ToShell
  /\ UNCHANGED <<top, alloc, mem, data, cr3, prog, runs, zeroed>>

Next ==
  \/ \E p \in Programs : Exec(p)
  \/ CheckHeader \/ NewPagemap \/ LoadPage \/ LoadStack \/ WalkTable \/ MapFrame
  \/ EnterProgram \/ SysExit \/ ExitFree \/ Fault

Spec == Init /\ [][Next]_vars

-----------------------------------------------------------------------------
(* Properties. *)

\* Types of the allocator's state, of the page tables and of the locals of
\* process_exec.
TypeOK ==
  /\ bitmap \subseteq 0..(top - 1) /\ hint \in 0..top
  /\ mem \in [0..top -> [Indices -> 0..top]]
  /\ cr3 \in Frames
  /\ pc \in {"shell", "check", "pagemap", "segments", "map", "kernel_half", "enter", "user", "exit"}
  /\ prog \in Programs
  /\ {phys_buf, process_pml4, frame} \subseteq 0..(top - 1) /\ table \in 0..top
  /\ pc # "kernel_half" => vpage \in UserPages
  /\ level \in 0..4

\* Pages the running call or program holds.
InUse ==
  (IF phys_buf = 0 THEN {} ELSE FileBuffer)
    \cup (IF process_pml4 = 0 THEN {} ELSE MapPages(process_pml4))
    \cup ({frame} \ {0})

\* Memory is accounted for at every step of process_exec and of the exit, as
\* long as vmm_map_page got a page for every table: a busy page belongs to the
\* kernel, to the file buffer, to the page map or is the page being mapped, or
\* was abandoned, by a fault or by two segments that share a page (which is a
\* leak that lisp_dos_specification.md:48 rules out).  Hence in the shell nothing
\* else is busy, also after an allocation of process_exec itself or of
\* vmm_new_pagemap failed, and no page of the kernel is free.  When a table has
\* no page, only the types are kept: page 0 takes its place and is freed.
PagesAccounted == TypeOK /\ (~zeroed => bitmap = Reserved \cup InUse \cup abandoned)

\* The page map of the running program is a tree of pages of its own: none of
\* them is free, in the file buffer, abandoned, or reached from two entries,
\* unless page 0 became one of its tables.
TreeIsPrivate ==
  process_pml4 # 0 /\ ~zeroed =>
    /\ MapPages(process_pml4) \subseteq bitmap \ abandoned
    /\ phys_buf # 0 => MapPages(process_pml4) \cap FileBuffer = {}
    /\ \A v, w \in UserPages : v # w /\ Translate(process_pml4, v) # 0 =>
          Translate(process_pml4, v) # Translate(process_pml4, w)
    /\ \A v \in UserPages : Translate(process_pml4, v) \notin Tables(process_pml4).all

\* The pages a program asks for: from the page boundary at or below a segment's
\* start to its last byte.  An empty segment inside a page takes that page.
SegmentPages(segment) ==
  {VPage(a \div PageBytes) : a \in (segment.vaddr - page_offset(segment))..(segment.vaddr + segment.memsz - 1)}
Wanted(p) == {StackPage} \cup UNION {SegmentPages(p.segs[k]) : k \in DOMAIN p.segs}

\* A program finds in memory what its file says, in exactly the pages of its
\* segments and its stack page: nothing is missing and nothing is left over
\* from the page tables or the data of an earlier program.  Each byte of a segment is the
\* file's byte, or zero behind filesz, at every alignment, whatever the pages
\* held before; except where a later segment or the stack took over the page,
\* or the segment asks for bytes that its file does not have.
\* Its argument string ends with the stack page.  All this unless page 0
\* became a page table.
ProgramSeesItsFile ==
  LET at(a) == data[Translate(cr3, VPage(a \div PageBytes))][a % PageBytes]
      last(k, a) == /\ VPage(a \div PageBytes) # StackPage
                    /\ \A l \in (k + 1)..Len(prog.segs) :
                         VPage(a \div PageBytes) \notin SegmentPages(prog.segs[l])
      there(s, n) == n < s.filesz => s.offset + n < prog.file_pages * PageBytes
  IN pc = "user" /\ ~zeroed =>
       /\ {v \in UserPages : Translate(cr3, v) # 0} = Wanted(prog)
       /\ \A k \in DOMAIN prog.segs : \A n \in 0..(prog.segs[k].memsz - 1) :
            LET s == prog.segs[k] IN
            last(k, s.vaddr + n) /\ there(s, n) =>
              at(s.vaddr + n) = IF n < s.filesz THEN s.offset + n + 1 ELSE 0
       /\ prog.args # NULL =>
            [k \in 1..(PageBytes - user_stack_ptr) |->
               data[Translate(cr3, StackPage)][user_stack_ptr + k - 1]] = Append(prog.args, 0)

\* CR3 never refers to a free page: the map is not freed before the switch,
\* also after a fault left CR3 on a dead program's map; unless page 0 became a
\* page table.
Cr3IsLive == ~zeroed => cr3 \in bitmap /\ mem[cr3][KernelIndex] = KernelTable

=============================================================================
