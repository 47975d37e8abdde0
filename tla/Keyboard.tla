------------------------------ MODULE Keyboard ------------------------------
(***************************************************************************)
(* Keyboard input: the IRQ1 handler (hal/keyboard.c, keyboard_handler,     *)
(* entered through isr_keyboard in hal/interrupts.S), the ring buffer it   *)
(* shares with keyboard_getchar, and the callers of keyboard_getchar: the  *)
(* shell in ring 0 and a program in ring 3 through syscall 7.              *)
(*                                                                         *)
(* The handler runs through an interrupt gate and so is atomic; the steps  *)
(* of keyboard_getchar and of the callers interleave with it wherever the  *)
(* interrupt flag is set.  `sti; hlt` is one step: an interrupt is not     *)
(* taken between the two instructions.  The PS/2 device is external: it    *)
(* queues the scancode bytes of every keystroke.                           *)
(***************************************************************************)
EXTENDS Naturals, Sequences, SequencesExt

CONSTANTS
  BufSize,       \* 256: length of keyboard_buffer
  Keys,          \* the keys used, a subset of AllKeys
  MaxKeys        \* bound: number of keystrokes

AllKeys == {"letter", "arrow", "shift", "printscreen"}

ASSUME KeyboardAssumption ==
  /\ BufSize \in Nat \ {0, 1}
  /\ Keys \subseteq AllKeys
  /\ MaxKeys \in Nat

VARIABLES
  wire,              \* scancodes sent by the device and not yet read from port 0x60
  shift_pressed, e0_pressed,
  keyboard_buffer, kbd_head, kbd_tail,
  if_flag,           \* the interrupt flag of the CPU
  pc,                \* where the CPU is outside the handler
  mode,              \* "shell" or "program": who called keyboard_getchar
  c,                 \* local of keyboard_getchar
  strokes,           \* number of keystrokes so far
  shift_down,        \* the shift key is physically held
  typed,             \* ghost: the characters the keystrokes mean
  stored,            \* ghost: the characters the handler has put in the buffer
  got,               \* ghost: what keyboard_getchar returned: index into stored
  fake_shift,        \* ghost: an E0-prefixed shift code was sent
  overrun            \* ghost: the buffer held BufSize characters

buffer == <<keyboard_buffer, kbd_head, kbd_tail>>
decoder == <<shift_pressed, e0_pressed>>
device == <<strokes, shift_down, typed, fake_shift>>
vars == <<wire, decoder, buffer, if_flag, pc, mode, c, device, stored, got, overrun>>

Init ==
  /\ wire = <<>>
  /\ shift_pressed = FALSE /\ e0_pressed = FALSE
  /\ keyboard_buffer = [s \in 0..(BufSize - 1) |-> 0]
  /\ kbd_head = 0 /\ kbd_tail = 0
  /\ if_flag = TRUE /\ pc = "running" /\ mode = "shell" /\ c = 0
  /\ strokes = 0 /\ shift_down = FALSE
  /\ typed = <<>> /\ stored = <<>> /\ got = <<>>
  /\ fake_shift = FALSE /\ overrun = FALSE

-----------------------------------------------------------------------------
(* The device (external): scancode set 1.  A tap sends make and break.     *)
(* Grey keys are prefixed by E0 and, while shift is held, wrapped in an    *)
(* E0-prefixed release and press of shift; print screen always is.         *)

Stroke(key) ==
  /\ strokes < MaxKeys
  /\ key \in Keys
  /\ strokes' = strokes + 1
  /\ CASE key = "shift" ->
            /\ wire' = wire \o << IF shift_down THEN "LSHIFT_UP" ELSE "LSHIFT" >>
            /\ shift_down' = ~shift_down
            /\ UNCHANGED <<typed, fake_shift>>
       [] key = "letter" ->
            /\ wire' = wire \o <<"A", "A_UP">>
            /\ typed' = Append(typed, IF shift_down THEN "A" ELSE "a")
            /\ UNCHANGED <<shift_down, fake_shift>>
       [] key = "arrow" ->
            /\ wire' = wire \o
                 (IF shift_down
                    THEN <<"E0", "LSHIFT_UP", "E0", "UP", "E0", "UP_UP", "E0", "LSHIFT">>
                    ELSE <<"E0", "UP", "E0", "UP_UP">>)
            /\ typed' = Append(typed, "up")
            /\ fake_shift' = (fake_shift \/ shift_down)
            /\ UNCHANGED shift_down
       [] key = "printscreen" ->
            /\ wire' = wire \o <<"E0", "LSHIFT", "E0", "PRTSC", "E0", "PRTSC_UP", "E0", "LSHIFT_UP">>
            /\ fake_shift' = TRUE
            /\ UNCHANGED <<shift_down, typed>>
  /\ UNCHANGED <<decoder, buffer, if_flag, pc, mode, c, stored, got, overrun>>

-----------------------------------------------------------------------------
(* The handler. *)

Ring(k) == (k + 1) % BufSize

\* The character of a make code, "none" for 0: arrows after E0, otherwise
\* the two tables.
Char(code) ==
  CASE e0_pressed /\ code = "UP" -> "up"
    [] ~e0_pressed /\ code = "A" -> IF shift_pressed THEN "A" ELSE "a"
    [] OTHER -> "none"

Breaks == {"A_UP", "UP_UP", "PRTSC_UP"}

\* Mutant: the release of a grey key does not end the prefix.
PrefixAfter_KeptOnRelease(code) ==
  CASE code = "E0" -> TRUE
    [] code \in {"LSHIFT", "LSHIFT_UP"} \cup Breaks -> e0_pressed
    [] OTHER -> FALSE

\* The new value of e0_pressed; the shift branches leave it alone.
PrefixAfter(code) ==
  CASE code = "E0" -> TRUE
    [] code \in {"LSHIFT", "LSHIFT_UP"} -> e0_pressed
    [] OTHER -> FALSE

\* Store at the head; there is no test for a full buffer.
PutChar(ch) ==
  /\ keyboard_buffer' = [keyboard_buffer EXCEPT ![kbd_head] = Len(stored) + 1]
  /\ kbd_head' = Ring(kbd_head)
  /\ stored' = Append(stored, ch)
  /\ overrun' = (overrun \/ Ring(kbd_head) = kbd_tail)
  /\ UNCHANGED kbd_tail

keyboard_handler ==
  /\ if_flag
  /\ wire # <<>>
  /\ wire' = Tail(wire)
  /\ LET code == Head(wire) IN
     /\ e0_pressed' = PrefixAfter(code)
     /\ shift_pressed' = CASE code = "LSHIFT" -> TRUE
                           [] code = "LSHIFT_UP" -> FALSE
                           [] OTHER -> shift_pressed
     /\ IF code \in {"E0", "LSHIFT", "LSHIFT_UP"} \cup Breaks \/ Char(code) = "none"
          THEN UNCHANGED <<buffer, stored, overrun>>
          ELSE PutChar(Char(code))
  /\ pc' = IF pc = "halted" THEN "cli" ELSE pc      \* hlt ends, the loop repeats
  /\ UNCHANGED <<if_flag, mode, c, device, got>>

\* Mutant: after hlt the buffer is not tested again.
SpuriousWake_NoRetest ==
  /\ pc = "halted"
  /\ pc' = "load"
  /\ UNCHANGED <<wire, decoder, buffer, if_flag, mode, c, device, stored, got, overrun>>

\* hlt ends for another reason, or IRQ1 finds the status bit clear.
SpuriousWake ==
  /\ pc = "halted"
  /\ pc' = "cli"
  /\ UNCHANGED <<wire, decoder, buffer, if_flag, mode, c, device, stored, got, overrun>>

-----------------------------------------------------------------------------
(* keyboard_getchar. *)

DisableInterrupts ==
  /\ pc = "cli"
  /\ if_flag' = FALSE
  /\ pc' = "test"
  /\ UNCHANGED <<wire, decoder, buffer, mode, c, device, stored, got, overrun>>

\* Mutant: a head that has wrapped around counts as empty.
TestBuffer_HeadBehind ==
  /\ pc = "test"
  /\ if_flag' = TRUE
  /\ pc' = IF kbd_head > kbd_tail THEN "load" ELSE "halted"
  /\ UNCHANGED <<wire, decoder, buffer, mode, c, device, stored, got, overrun>>

\* Either `sti` and leave the loop, or `sti; hlt`.
TestBuffer ==
  /\ pc = "test"
  /\ if_flag' = TRUE
  /\ pc' = IF kbd_head # kbd_tail THEN "load" ELSE "halted"
  /\ UNCHANGED <<wire, decoder, buffer, mode, c, device, stored, got, overrun>>

LoadChar ==
  /\ pc = "load"
  /\ c' = keyboard_buffer[kbd_tail]
  /\ pc' = "advance"
  /\ UNCHANGED <<wire, decoder, buffer, if_flag, mode, device, stored, got, overrun>>

\* Mutant: the tail catches up with the head.
AdvanceTail_Drains ==
  /\ pc = "advance"
  /\ kbd_tail' = kbd_head
  /\ got' = Append(got, c)
  /\ pc' = IF mode = "shell" THEN "running" ELSE "sysret"
  /\ UNCHANGED <<wire, decoder, keyboard_buffer, kbd_head, if_flag, mode, c,
                 device, stored, overrun>>

AdvanceTail ==
  /\ pc = "advance"
  /\ kbd_tail' = Ring(kbd_tail)
  /\ got' = Append(got, c)
  /\ pc' = IF mode = "shell" THEN "running" ELSE "sysret"
  /\ UNCHANGED <<wire, decoder, keyboard_buffer, kbd_head, if_flag, mode, c,
                 device, stored, overrun>>

-----------------------------------------------------------------------------
(* The callers. *)

\* The shell calls keyboard_getchar directly; a program issues syscall 7,
\* which clears the interrupt flag (MSR_FMASK).
CallGetchar ==
  /\ pc = "running"
  /\ pc' = "cli"
  /\ if_flag' = (mode = "shell")
  /\ UNCHANGED <<wire, decoder, buffer, mode, c, device, stored, got, overrun>>

\* Any other syscall of a program runs with interrupts disabled.
OtherSyscall ==
  /\ pc = "running" /\ mode = "program"
  /\ if_flag' = FALSE
  /\ pc' = "sysret"
  /\ UNCHANGED <<wire, decoder, buffer, mode, c, device, stored, got, overrun>>

\* sysretq loads RFLAGS from r11, in which the flag was set.
SysRet ==
  /\ pc = "sysret"
  /\ if_flag' = TRUE
  /\ pc' = "running"
  /\ UNCHANGED <<wire, decoder, buffer, mode, c, device, stored, got, overrun>>

\* asm_jump_usermode enters ring 3 with RFLAGS = 0x202.
JumpUsermode ==
  /\ pc = "running" /\ mode = "shell"
  /\ mode' = "program"
  /\ if_flag' = TRUE
  /\ UNCHANGED <<wire, decoder, buffer, pc, c, device, stored, got, overrun>>

\* syscall 60 or a fault in ring 3: both clear the flag on entry...
LeaveProgram ==
  /\ pc = "running" /\ mode = "program"
  /\ if_flag' = FALSE
  /\ pc' = "return"
  /\ UNCHANGED <<wire, decoder, buffer, mode, c, device, stored, got, overrun>>

\* ... and end in asm_return_to_kernel, which sets it.
asm_return_to_kernel ==
  /\ pc = "return"
  /\ if_flag' = TRUE
  /\ mode' = "shell"
  /\ pc' = "running"
  /\ UNCHANGED <<wire, decoder, buffer, c, device, stored, got, overrun>>

keyboard_getchar == DisableInterrupts \/ TestBuffer \/ LoadChar \/ AdvanceTail

Next ==
  \/ \E key \in Keys : Stroke(key)
  \/ keyboard_handler \/ SpuriousWake
  \/ DisableInterrupts \/ TestBuffer \/ LoadChar \/ AdvanceTail
  \/ CallGetchar \/ OtherSyscall \/ SysRet
  \/ JumpUsermode \/ LeaveProgram \/ asm_return_to_kernel

Spec == Init /\ [][Next]_vars

\* The CPU keeps executing, a pending interrupt is taken again and again
\* enabled, and whoever runs keeps asking for keys.
Fairness ==
  /\ WF_vars(keyboard_getchar)
  /\ WF_vars(SysRet) /\ WF_vars(asm_return_to_kernel)
  /\ SF_vars(keyboard_handler)
  /\ SF_vars(CallGetchar)

FairSpec == Spec /\ Fairness

-----------------------------------------------------------------------------
(* Properties. *)

\* Types of the keyboard driver's variables; the interrupt flag is off only
\* inside keyboard_getchar's critical section and in syscalls.
TypeOK ==
  /\ shift_pressed \in BOOLEAN /\ e0_pressed \in BOOLEAN
  /\ keyboard_buffer \in [0..(BufSize - 1) -> 0..Len(stored)]
  /\ kbd_head \in 0..(BufSize - 1) /\ kbd_tail \in 0..(BufSize - 1)
  /\ if_flag \in BOOLEAN
  /\ pc \in {"running", "cli", "test", "halted", "load", "advance", "sysret", "return"}
  /\ mode \in {"shell", "program"}
  /\ c \in 0..Len(stored)
  /\ strokes \in 0..MaxKeys /\ shift_down \in BOOLEAN
  /\ stored \in Seq({"a", "A", "up"}) /\ typed \in Seq({"a", "A", "up"})
  /\ got \in Seq(Nat)
  /\ fake_shift \in BOOLEAN /\ overrun \in BOOLEAN

\* keyboard_getchar never returns a character twice, never one that was not
\* stored, and never reverses two characters: even after the handler has run
\* around the whole buffer between the test, the load and the advance.
NoGhostKeys ==
  /\ TypeOK
  /\ \A k \in 1..Len(got) : got[k] >= 1
  /\ \A k \in 1..(Len(got) - 1) : got[k] < got[k + 1]

\* While fewer than BufSize characters wait, none is lost: what was returned
\* and what lies between tail and head is everything the handler stored.
NothingLostWithoutOverrun ==
  ~overrun /\ pc # "advance" =>
     Len(stored) = Len(got) + ((kbd_head + BufSize - kbd_tail) % BufSize)

\* The handler turns keystrokes into the characters they mean, whatever the
\* order of shift, letters and arrows, unless the device sent an E0-prefixed
\* shift code, after which e0_pressed stays set and eats the next key.
DecodesKeystrokes ==
  ~fake_shift => /\ IsPrefix(stored, typed)
                 /\ wire = <<>> => stored = typed

\* Whoever asks for keys catches up with the keyboard: every keystroke is
\* eventually returned, unless the buffer overran or an E0-prefixed shift was
\* sent.  No wake-up is lost between the test of the buffer and hlt.
KeysAreDelivered ==
  (Len(got) < Len(typed)) ~> (Len(got) = Len(typed) \/ overrun \/ fake_shift)
=============================================================================
