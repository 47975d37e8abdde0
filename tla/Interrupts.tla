----------------------------- MODULE Interrupts -----------------------------
(***************************************************************************)
(* The processor's side of LISP-DOS: segments and task state (hal/gdt.c),  *)
(* gates and exceptions (hal/idt.c, hal/interrupts.S), the two interrupt   *)
(* controllers (hal/pic.c), the registers of the syscall instruction       *)
(* (kernel/syscall.c) and the stack switches of kernel/syscall_asm.S.      *)
(*                                                                         *)
(* Processor, controllers and devices are external; every write to a       *)
(* controller is a step, between which an interrupt is taken whenever the  *)
(* interrupt flag is set.  Handlers run through interrupt gates and are    *)
(* atomic.  A stack is known by its name: the loader's, on which the shell *)
(* runs, "kstack" of jump_usermode, the program's.                         *)
(***************************************************************************)
EXTENDS Naturals, Sequences

VARIABLES
  pc,                    \* what the processor is executing
  ring, if_flag,         \* privilege level and interrupt flag
  cs, ss,                \* the segment selectors
  stack,                 \* the stack RSP points into
  pic,                   \* the controllers: [icw, base, imr, irr, isr]
  remap,                 \* writes of pic_remap done
  tables,                \* [gdt, idt, star, fmask]: what the set-up code has loaded
  tss_rsp0,
  current_kernel_stack, current_user_rsp, kernel_saved_rsp,
  key,                   \* keyboard_buffer is not empty
  num                    \* RAX: number of the syscall in progress, 0 outside

cpu == <<pc, ring, if_flag, cs, ss, stack>>
stacks == <<tss_rsp0, current_kernel_stack, current_user_rsp, kernel_saved_rsp>>
interrupts == <<cpu, pic, remap, tables, stacks, key, num>>

Loader == "loader"
KStack == "kstack"
User == "user"
NoStack == "none"

Timer == 0
Kbd == 1
Cascade == 2
Disk == 14
Irqs == {Timer, Kbd, Disk}

Lines(chip) == IF chip = "master" THEN 0..7 ELSE 8..15

\* As Limine leaves the machine: interrupts off, both controllers masked, the
\* firmware's vectors.
CpuInit ==
  /\ pc = "serial_init" /\ ring = 0 /\ if_flag = FALSE /\ cs = 40 /\ ss = 48 /\ stack = Loader
  /\ pic = [icw |-> [c \in {"master", "slave"} |-> 0],
            base |-> [c \in {"master", "slave"} |-> IF c = "master" THEN 8 ELSE 112],
            imr |-> 0..15, irr |-> {}, isr |-> {}]
  /\ remap = 0
  /\ tables = [gdt |-> <<>>, idt |-> "limine", star |-> [user |-> 0, kernel |-> 0], fmask |-> {}]
  /\ tss_rsp0 = NoStack /\ current_kernel_stack = NoStack
  /\ current_user_rsp = NoStack /\ kernel_saved_rsp = NoStack
  /\ key = FALSE /\ num = 0

-----------------------------------------------------------------------------
(* The set-up code. *)

\* The descriptors in the order of their selectors, the task state last.
\* gdt_flush reloads the segment registers, tss_flush the task register; RSP0
\* is cleared.
gdt_init ==
  /\ tables' = [tables EXCEPT !.gdt = <<"null", "kernel code", "kernel data", "user data",
                                         "user code", "tss">>]
  /\ cs' = 8 /\ ss' = 16
  /\ tss_rsp0' = NoStack

\* All vectors lead to exception_handler except the keyboard's.
Gate(vector) == IF vector = 33 THEN "isr_keyboard" ELSE "exception"

\* lidt, then sti: from here on interrupts are taken.
idt_init ==
  /\ tables' = [tables EXCEPT !.idt = "kernel"]
  /\ if_flag' = TRUE

\* Mutant: the selector of the 32-bit code segment that the layout skips.
syscall_init_Star ==
  tables' = [tables EXCEPT !.star = [user |-> 24, kernel |-> 8], !.fmask = {"IF"}]

\* STAR and FMASK.
syscall_init ==
  tables' = [tables EXCEPT !.star = [user |-> 16, kernel |-> 8], !.fmask = {"IF"}]

\* Mutant: the timer is left unmasked.
MasterMask_Timer == 252

\* All lines but the keyboard's.
MasterMask == 253
SlaveMask == 255

\* The lines whose bit is set in a mask.
BitWeight == <<1, 2, 4, 8, 16, 32, 64, 128>>
Bits(chip, mask) == {n \in Lines(chip) : (mask \div BitWeight[(n % 8) + 1]) % 2 = 1}

\* The writes of pic_remap: ICW1 to ICW4, each to both controllers, then the
\* masks.
RemapWrites ==
  << [chip |-> "master", icw1 |-> TRUE,  value |-> 17], [chip |-> "slave", icw1 |-> TRUE,  value |-> 17],
     [chip |-> "master", icw1 |-> FALSE, value |-> 32], [chip |-> "slave", icw1 |-> FALSE, value |-> 40],
     [chip |-> "master", icw1 |-> FALSE, value |-> 4],  [chip |-> "slave", icw1 |-> FALSE, value |-> 2],
     [chip |-> "master", icw1 |-> FALSE, value |-> 1],  [chip |-> "slave", icw1 |-> FALSE, value |-> 1],
     [chip |-> "master", icw1 |-> FALSE, value |-> MasterMask], [chip |-> "slave", icw1 |-> FALSE, value |-> SlaveMask] >>

\* A controller starts over with ICW1, which also clears its mask; the next
\* write sets its vectors, two more end the sequence, later ones set the mask.
outb(w) ==
  LET c == w.chip IN
  CASE w.icw1 -> [pic EXCEPT !.icw[c] = 1, !.imr = @ \ Lines(c), !.irr = @ \ Lines(c), !.isr = @ \ Lines(c)]
    [] ~w.icw1 /\ pic.icw[c] = 1 -> [pic EXCEPT !.icw[c] = 2, !.base[c] = w.value]
    [] ~w.icw1 /\ pic.icw[c] \in {2, 3} -> [pic EXCEPT !.icw[c] = (@ + 1) % 4]
    [] ~w.icw1 /\ pic.icw[c] = 0 -> [pic EXCEPT !.imr = (@ \ Lines(c)) \cup Bits(c, w.value)]

pic_remap ==
  /\ pc = "pic_remap" /\ remap < Len(RemapWrites)
  /\ pic' = outb(RemapWrites[remap + 1])
  /\ remap' = remap + 1
  /\ UNCHANGED <<cpu, tables, stacks, key, num>>

-----------------------------------------------------------------------------
(* Rings and stacks. *)

\* Mutant: RSP0 is not set.
jump_usermode_NoTss ==
  /\ pc = "jump_usermode"
  /\ current_kernel_stack' = KStack
  /\ kernel_saved_rsp' = stack
  /\ stack' = User
  /\ pc' = "sysret"
  /\ UNCHANGED <<ring, if_flag, cs, ss, pic, remap, tables, tss_rsp0, current_user_rsp, key, num>>

\* jump_usermode and asm_jump_usermode up to sysretq: still ring 0, interrupts
\* on, RSP already the program's.
jump_usermode ==
  /\ pc = "jump_usermode"
  /\ tss_rsp0' = KStack /\ current_kernel_stack' = KStack
  /\ kernel_saved_rsp' = stack
  /\ stack' = User
  /\ pc' = "sysret"
  /\ UNCHANGED <<ring, if_flag, cs, ss, pic, remap, tables, current_user_rsp, key, num>>

\* sysretq: the selectors come from STAR; R11 holds flags with IF set.
SysRet ==
  /\ pc = "sysret"
  /\ ring' = 3 /\ if_flag' = TRUE
  /\ cs' = tables.star.user + 16 /\ ss' = tables.star.user + 8
  /\ pc' = "user"
  /\ UNCHANGED <<stack, pic, remap, tables, stacks, key, num>>

\* The calls of a program and their numbers; 11 stands for those there are not.
Calls ==
  [sys_write |-> 1, sys_clear |-> 2, sys_set_cursor |-> 3, sys_putchar |-> 4, sys_set_color |-> 5,
   sys_get_max_rows |-> 6, sys_keyboard_getchar |-> 7, sys_fat16_read_file |-> 8,
   sys_fat16_write_file |-> 9, sys_fat16_get_file_size |-> 10, sys_exit |-> 60, unknown |-> 11]

FileCalls == {8, 9, 10}

\* The syscall instruction changes ring, segments and flags, not the stack.
Syscall(name) ==
  /\ pc = "user"
  /\ num' = Calls[name]
  /\ ring' = 0 /\ if_flag' = (if_flag /\ "IF" \notin tables.fmask)
  /\ cs' = tables.star.kernel /\ ss' = tables.star.kernel + 8
  /\ pc' = "syscall_entry"
  /\ UNCHANGED <<stack, pic, remap, tables, stacks, key>>

syscall_entry ==
  /\ pc = "syscall_entry"
  /\ current_user_rsp' = stack
  /\ stack' = current_kernel_stack
  /\ pc' = "syscall_handler_c"
  /\ UNCHANGED <<ring, if_flag, cs, ss, pic, remap, tables, tss_rsp0, current_kernel_stack,
                 kernel_saved_rsp, key, num>>

\* The end of syscall_entry up to sysretq.
LeaveSyscall ==
  /\ pc = "leave_syscall"
  /\ stack' = current_user_rsp
  /\ pc' = "sysret" /\ num' = 0
  /\ UNCHANGED <<ring, if_flag, cs, ss, pic, remap, tables, stacks, key>>

\* Back to process_exec and from there to the shell, from whatever stack.
asm_return_to_kernel ==
  /\ stack' = kernel_saved_rsp
  /\ if_flag' = TRUE
  /\ pc' = "shell" /\ num' = 0

\* keyboard_getchar in the middle of a syscall: interrupts are on while it
\* waits and stay on (Keyboard.tla has its steps).
SyscallGetchar ==
  /\ pc = "syscall_handler_c" /\ num = Calls.sys_keyboard_getchar
  /\ if_flag' = TRUE
  /\ pc' = "getchar"
  /\ UNCHANGED <<ring, cs, ss, stack, pic, remap, tables, stacks, key, num>>

Getchar ==
  /\ pc = "getchar" /\ key
  /\ key' = FALSE
  /\ pc' = "leave_syscall"
  /\ UNCHANGED <<ring, if_flag, cs, ss, stack, pic, remap, tables, stacks, num>>

\* Calls that write to the screen or read its size; unknown ones return too.
SyscallConsole ==
  /\ pc = "syscall_handler_c" /\ num \in (1..6) \cup {Calls.unknown}
  /\ pc' = "leave_syscall"
  /\ UNCHANGED <<ring, if_flag, cs, ss, stack, pic, remap, tables, stacks, key, num>>

SyscallExit ==
  /\ pc = "syscall_handler_c" /\ num = Calls.sys_exit
  /\ asm_return_to_kernel
  /\ UNCHANGED <<ring, cs, ss, pic, remap, tables, stacks, key>>

-----------------------------------------------------------------------------
(* Interrupts and exceptions. *)

\* Entering a gate: from ring 3 the frame goes to RSP0 and SS is cleared, from
\* ring 0 it goes where RSP points.
FrameStack == IF ring = 3 THEN tss_rsp0 ELSE stack

\* exception_handler: a program is given up, in the kernel everything stops.
exception_handler ==
  /\ cs' = 8 /\ ring' = 0
  /\ IF ring = 3
       THEN asm_return_to_kernel /\ ss' = 0
       ELSE pc' = "panic" /\ if_flag' = FALSE /\ UNCHANGED <<stack, ss, num>>

\* A fault of the running program.
Exception ==
  /\ pc = "user"
  /\ exception_handler
  /\ UNCHANGED <<pic, remap, tables, stacks, key>>

\* A device raises its line.
Raise(n) ==
  /\ n \notin pic.irr
  /\ n = Kbd => ~key
  /\ pic' = [pic EXCEPT !.irr = @ \cup {n}]
  /\ UNCHANGED <<cpu, remap, tables, stacks, key, num>>

\* Requests that get through: not masked, nothing as urgent in service.
Requests == {n \in pic.irr \ pic.imr : (n > 7 => Cascade \notin pic.imr) /\ \A k \in pic.isr : n < k}

Vector(n) == IF n > 7 THEN pic.base["slave"] + n - 8 ELSE pic.base["master"] + n

\* Mutant: the end of interrupt is not sent.
keyboard_handler_NoEoi(n) ==
  /\ key' = TRUE
  /\ pic' = [pic EXCEPT !.irr = @ \ {n}, !.isr = @ \cup {n}]

\* keyboard_handler stores a character and sends the end of interrupt, so that
\* the controller is as before; then iretq.
keyboard_handler(n) ==
  /\ key' = TRUE
  /\ pic' = [pic EXCEPT !.irr = @ \ {n}]

\* No other handler sends the end of interrupt.
TakeInterrupt ==
  /\ if_flag
  /\ \E n \in Requests :
       /\ \A k \in Requests : n <= k
       /\ \/ /\ Gate(Vector(n)) = "isr_keyboard"
             /\ keyboard_handler(n)
             /\ UNCHANGED <<cpu, num>>
          \/ /\ Gate(Vector(n)) = "exception"
             /\ pic' = [pic EXCEPT !.irr = @ \ {n}, !.isr = @ \cup {n}]
             /\ exception_handler
             /\ UNCHANGED key
  /\ UNCHANGED <<remap, tables, stacks>>

-----------------------------------------------------------------------------
(* Properties. *)

\* A device never stops the system or a program: every interrupt that is
\* taken returns to where it came from.  Not in pic_remap: from ICW1, which
\* clears the masks, to the write of the new mask the timer, the disk and,
\* before the vectors are moved, the keyboard lead to a kernel panic, because
\* idt_init has already enabled interrupts.
DevicesAreHandled ==
  [][TakeInterrupt => pc' = pc \/ (pc = "pic_remap" /\ remap \in 1..8)]_interrupts

\* Wherever an interrupt or an exception can strike, its frame goes to a stack
\* of the kernel.  The exception is the step before sysretq, where RSP already
\* is the program's while interrupts may be on: on the way to a program, and
\* after a syscall that waited for a key.  A program runs only after its
\* syscalls' stack is set and the way back to the shell has been saved.
FramesOnKernelStack ==
  /\ if_flag \/ ring = 3 => FrameStack \in {Loader, KStack} \/ pc = "sysret"
  /\ ring = 3 => kernel_saved_rsp = Loader /\ current_kernel_stack = KStack

Descriptor(selector) == tables.gdt[selector \div 8 + 1]

\* The selectors that syscall, sysretq and the gates load fit the descriptor
\* table of gdt_init in every ring; after an exception in a program SS is
\* empty, which ring 0 may have.  The shell always runs on its own stack.
SegmentsFitRing ==
  tables.gdt # <<>> =>
    /\ Descriptor(cs) = IF ring = 3 THEN "user code" ELSE "kernel code"
    /\ Descriptor(ss) \in IF ring = 3 THEN {"user data"} ELSE {"kernel data", "null"}
    /\ pc = "shell" => stack = Loader /\ ring = 0 /\ if_flag
=============================================================================
