------------------------------ MODULE Console ------------------------------
(***************************************************************************)
(* The text console of hal/vga.c and the shell's line input and dispatch   *)
(* in kernel/main.c, which writes to it; a program in ring 3 writes to it  *)
(* through syscalls 1 .. 5.                                                *)
(*                                                                         *)
(* The framebuffer is a grid of character cells; glyphs, colours and the   *)
(* serial copy of the output are left out.  Characters are model values:   *)
(* "nl", "bs" and the printable ones.  A code without a glyph, such as an  *)
(* arrow key in the shell, is a character like any other: it is echoed and *)
(* becomes part of the command.                                            *)
(*                                                                         *)
(* Row and column are size_t, and a program may set them to anything: a    *)
(* character stored at a cursor outside the grid is a stray write, which   *)
(* spoils memory or other cells and may fault.  The cursor goes on as in   *)
(* the code; what the write hit is not modelled.                           *)
(***************************************************************************)
EXTENDS Naturals, Sequences, SequencesExt

CONSTANTS
  Rows, Cols,        \* vga_get_max_rows, vga_get_max_cols
  SizeMax,           \* 2^64 - 1: the largest size_t
  Chars,             \* characters typed, with the space among them
  Prompt,            \* "C:\> "
  Message,           \* what a command prints that is not modelled further
  Commands,          \* the shell's commands: name |-> what it does
  LineSize,          \* 256: sizeof(command)
  NameSize,          \* 32: sizeof(cmd_name)
  ArgsSize,          \* 224: sizeof(args)
  MaxKeys            \* bound: keystrokes and calls of programs

NL == "nl"
BS == "bs"
Space == " "
Blank == "blank"

ASSUME ConsoleAssumption ==
  /\ Rows \in Nat \ {0, 1} /\ Cols \in Nat \ {0, 1}
  /\ SizeMax \in Nat /\ Rows <= SizeMax /\ Cols <= SizeMax
  /\ Space \in Chars /\ NL \notin Chars /\ BS \notin Chars
  /\ \A s \in {Prompt, Message} : s \in Seq(Range(s))
  /\ Prompt # <<>> /\ Prompt[1] \notin {NL, BS}
  /\ {LineSize, NameSize, ArgsSize} \subseteq Nat \ {0}
  /\ \A n \in DOMAIN Commands :
       Len(n) < NameSize - 1 /\ Commands[n] \in {"echo", "cls", "files", "program", "poweroff"}
  /\ MaxKeys \in Nat

VARIABLES
  tty,               \* [cell, row, col, stray]: the screen, terminal_row,
                     \* terminal_column; a character was stored outside the grid
  pc,                \* "line", "run", "program", "halted", "clobbered"
  command,           \* command[0 .. cmd_len - 1]
  keys,              \* number of keys so far
  start,             \* ghost: where the line being typed begins on the screen
  line,              \* ghost: the line as edited, however long
  full,              \* ghost: a character was typed that command cannot hold
  hidden,            \* ghost: how many of its first characters later ones have overwritten
  stuck              \* ghost: a backspace in it found the cursor in the top left corner

ghosts == <<start, line, full, hidden, stuck>>
vars == <<tty, pc, command, keys, ghosts>>

-----------------------------------------------------------------------------
(* hal/vga.c *)

Grid == (0..(Rows - 1)) \X (0..(Cols - 1))

OnScreen(t) == <<t.row, t.col>> \in Grid

BlankScreen == [cell |-> [p \in Grid |-> Blank], row |-> 0, col |-> 0, stray |-> FALSE]

vga_clear(t) == [BlankScreen EXCEPT !.stray = t.stray]

\* ++ of a size_t.
Inc(n) == IF n = SizeMax THEN 0 ELSE n + 1

\* Below the last row comes the first.
NextRow(t) == [t EXCEPT !.col = 0, !.row = IF Inc(t.row) >= Rows THEN 0 ELSE Inc(t.row)]

Put(t, ch) == IF OnScreen(t) THEN [t EXCEPT !.cell[<<t.row, t.col>>] = ch] ELSE [t EXCEPT !.stray = TRUE]

\* Mutant: the cursor does not go back to the row above.
StepBack_InRow(t) ==
  IF t.col > 0 THEN [t EXCEPT !.col = t.col - 1] ELSE t

StepBack(t) ==
  CASE t.col > 0 -> [t EXCEPT !.col = t.col - 1]
    [] t.col = 0 /\ t.row > 0 -> [t EXCEPT !.row = t.row - 1, !.col = Cols - 1]
    [] OTHER -> t

vga_putchar(t, ch) ==
  CASE ch = BS -> Put(StepBack(t), Blank)
    [] ch = NL -> NextRow(t)
    [] OTHER -> LET u == Put(t, ch) IN
                IF Inc(u.col) >= Cols THEN NextRow(u) ELSE [u EXCEPT !.col = Inc(u.col)]

\* One character after the other; after[n]: the screen after the first n.
vga_print(t, s) ==
  LET after[n \in 0..Len(s)] == IF n = 0 THEN t ELSE vga_putchar(after[n - 1], s[n])
  IN after[Len(s)]

vga_set_cursor(t, r, cl) == [t EXCEPT !.row = r, !.col = cl]

-----------------------------------------------------------------------------
(* The shell. *)

Area == Rows * Cols

\* The cursor, counted along the rows.
At(t) == t.row * Cols + t.col

\* The prompt and an empty line.
NewPrompt(t) ==
  LET u == vga_print(t, Prompt) IN
  /\ tty' = u
  /\ pc' = "line"
  /\ command' = <<>>
  /\ start' = At(u) /\ line' = <<>> /\ full' = FALSE /\ hidden' = 0 /\ stuck' = FALSE

Init ==
  /\ tty = vga_print(BlankScreen, Prompt)
  /\ pc = "line" /\ command = <<>> /\ keys = 0
  /\ start = At(tty) /\ line = <<>> /\ full = FALSE /\ hidden = 0 /\ stuck = FALSE

Typed == keys < MaxKeys /\ keys' = keys + 1

\* The character is echoed whether or not there is room for it.
TypeChar(ch) ==
  /\ pc = "line" /\ Typed
  /\ tty' = vga_putchar(tty, ch)
  /\ command' = IF Len(command) < LineSize - 1 THEN Append(command, ch) ELSE command
  /\ full' = (full \/ Len(command) = LineSize - 1)
  /\ line' = Append(line, ch)
  /\ hidden' = IF Len(line) + 1 > hidden + Area THEN hidden + 1 ELSE hidden
  /\ UNCHANGED <<pc, start, stuck>>

TypeBackspace ==
  /\ pc = "line" /\ Typed
  /\ IF Len(command) > 0
       THEN /\ tty' = vga_putchar(tty, BS)
            /\ command' = Front(command)
            /\ line' = Front(line)
            /\ stuck' = (stuck \/ At(tty) = 0)
       ELSE UNCHANGED <<tty, command, line, stuck>>
  /\ UNCHANGED <<pc, start, full, hidden>>

\* Position of the first space, Len + 1 if there is none.
FirstSpace(s) == IF Space \in Range(s) THEN SelectInSeq(s, LAMBDA ch : ch = Space) ELSE Len(s) + 1

\* Mutant: the name is cut too short.
cmd_name_Short ==
  LET n == FirstSpace(command) - 1 IN SubSeq(command, 1, IF n < NameSize - 2 THEN n ELSE NameSize - 2)

\* The name is cut to the size of its array, ...
cmd_name ==
  LET n == FirstSpace(command) - 1 IN SubSeq(command, 1, IF n < NameSize - 1 THEN n ELSE NameSize - 1)

\* ... the arguments are not.
args == SubSeq(command, FirstSpace(command) + 1, Len(command))

\* An empty line prompts again.  Arguments longer than their array overwrite
\* the kernel's stack; what follows is not modelled.
TypeEnter ==
  /\ pc = "line" /\ Typed
  /\ IF command = <<>>
       THEN NewPrompt(vga_putchar(tty, NL))
       ELSE /\ tty' = vga_putchar(tty, NL)
            /\ pc' = IF Len(args) < ArgsSize THEN "run" ELSE "clobbered"
            /\ UNCHANGED <<command, ghosts>>

Action(name) == IF name \in DOMAIN Commands THEN Commands[name] ELSE "invalid"

\* The chain of strcmp.  "files" stands for dir, type and rm and for
\* process_exec when it returns at once, which print and return.
RunCommand ==
  /\ pc = "run"
  /\ UNCHANGED keys
  /\ CASE Action(cmd_name) = "echo" -> NewPrompt(vga_print(tty, Append(args, NL)))
       [] Action(cmd_name) = "cls" -> NewPrompt(vga_clear(tty))
       [] Action(cmd_name) \in {"files", "invalid"} -> NewPrompt(vga_print(tty, Message))
       [] Action(cmd_name) = "program" ->
            pc' = "program" /\ UNCHANGED <<tty, command, ghosts>>
       [] Action(cmd_name) = "poweroff" ->
            pc' = "halted" /\ tty' = vga_print(tty, Message) /\ UNCHANGED <<command, ghosts>>

\* A program's output; it places the cursor anywhere.
ProgramWrites ==
  /\ pc = "program" /\ Typed
  /\ \/ \E ch \in Chars \cup {NL, BS} : tty' = vga_putchar(tty, ch)
     \/ tty' = vga_clear(tty)
     \/ \E r, cl \in 0..SizeMax : tty' = vga_set_cursor(tty, r, cl)
  /\ UNCHANGED <<pc, command, ghosts>>

ProgramEnds ==
  /\ pc = "program"
  /\ NewPrompt(tty)
  /\ UNCHANGED keys

\* A stray write that meets a page which is not mapped ends in a kernel panic.
StrayFault ==
  /\ tty.stray /\ pc # "halted"
  /\ pc' = "halted"
  /\ UNCHANGED <<tty, command, keys, ghosts>>

Next ==
  \/ \E ch \in Chars : TypeChar(ch)
  \/ TypeBackspace \/ TypeEnter \/ RunCommand
  \/ ProgramWrites \/ ProgramEnds \/ StrayFault

Spec == Init /\ [][Next]_vars

-----------------------------------------------------------------------------
(* Properties. *)

\* Types; the shell never takes the cursor off the screen, whatever the mixture
\* of output, line wraps and backspaces: its stores hit the framebuffer, unless
\* a program put the cursor outside, which vga_set_cursor lets it, and a
\* character was stored there, by the program or by the next prompt.
TypeOK ==
  /\ tty.cell \in [Grid -> Chars \cup {Blank} \cup Range(Prompt) \cup Range(Message)]
  /\ tty.row \in 0..SizeMax /\ tty.col \in 0..SizeMax /\ tty.stray \in BOOLEAN
  /\ pc \in {"line", "run"} /\ ~tty.stray => OnScreen(tty)
  /\ pc \in {"line", "run", "program", "halted", "clobbered"}
  /\ Len(command) < LineSize

CellAt(k) == tty.cell[<<k \div Cols, k % Cols>>]

\* What the screen shows between the prompt and the cursor is the line as it
\* was edited, across line ends, from the last row on to the first, also beyond
\* what the command array holds and over the prompt itself; and it is the
\* command that Enter will run as long as the array holds it.  Two ways out:
\* a backspace from the first row to the last, where the cursor stays in the
\* corner, and a character that was stored outside the screen.
EchoMatchesCommand ==
  /\ TypeOK
  /\ ~full => line = command
  /\ pc = "line" /\ ~stuck /\ ~tty.stray =>
       /\ At(tty) = (start + Len(line)) % Area
       /\ \A k \in (hidden + 1)..Len(line) : CellAt((start + k - 1) % Area) = line[k]

\* The command that runs is the one whose whole name was typed, although the
\* name is cut to the size of its array.
RunsWhatWasTyped ==
  pc = "run" /\ ~full => Action(cmd_name) = Action(SubSeq(line, 1, FirstSpace(line) - 1))
=============================================================================
