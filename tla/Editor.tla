------------------------------- MODULE Editor -------------------------------
(***************************************************************************)
(* The text editor, tools/editor.c: a ring-3 program with a flat buffer, a *)
(* cursor position and two modes, which reads a file at the start and      *)
(* writes it when `w` is pressed.  One action per branch of the key loop.  *)
(*                                                                         *)
(* The file system calls are external to this module (Fat16.tla): the file *)
(* is read whole, and a write stores everything or is refused by a full    *)
(* disk or directory.  The screen is what draw_editor_ui painted last.     *)
(*                                                                         *)
(* The file is read under the name given and saved under that name cut to  *)
(* 31 characters.  Both mean the same entry unless the cut takes off the   *)
(* extension: `target` says which of the two a session saves to.           *)
(***************************************************************************)
EXTENDS Integers, Sequences, FiniteSets, FiniteSetsExt

CONSTANTS
  Slack,             \* 8192: room for new text
  PoolSize,          \* MEMORY_POOL_SIZE
  ClusterBytes,      \* bytes in a cluster of the disk
  Printable,         \* codes 32 .. 126 that are typed
  Files,             \* contents a file may have at first
  Absent,            \* no such file
  MaxSessions        \* bound: number of times the editor is started

NL == "nl"
NUL == "nul"                     \* .bss, and what a refused write may leave
Chars == Printable \cup {NL}
\* A key of neither kind (tab); backspace; escape; the arrows 128 .. 131.
Keys == Chars \cup {"tab", "bs", "esc", "up", "down", "left", "right"}
NoKey == "none"
Names == {"given", "cut"}

ASSUME EditorAssumption ==
  /\ Slack \in Nat \ {0} /\ ClusterBytes \in Nat \ {0} /\ PoolSize \in Nat /\ MaxSessions \in Nat
  /\ \A f \in Files : f = Absent \/ f \in Seq(Chars \cup {NUL})

VARIABLES
  files,             \* on the disk, under the two names
  target,            \* the one that current_filename means
  pc,                \* "shell", "loop" (waiting for a key)
  edit_buffer, edit_buffer_max, buffer_len, cursor_pos,
  is_insert_mode, last_cmd_key,
  screen,            \* what draw_editor_ui painted, or a message
  sessions

buf == <<edit_buffer, edit_buffer_max, buffer_len>>
vars == <<files, target, pc, buf, cursor_pos, is_insert_mode, last_cmd_key, screen, sessions>>

Init ==
  /\ files \in [Names -> Files] /\ target = "given"
  /\ pc = "shell"
  /\ edit_buffer = <<>> /\ edit_buffer_max = 0 /\ buffer_len = 0
  /\ cursor_pos = 0 /\ is_insert_mode = FALSE /\ last_cmd_key = NoKey
  /\ screen = "prompt" /\ sessions = 0

\* draw_editor_ui: the text, the cursor, the mode and, in normal mode, the key.
View(b, len, pos, insert, key) ==
  [text |-> [k \in 1..len |-> b[k - 1]], cursor |-> pos, insert |-> insert,
   key |-> IF ~insert /\ key \in Printable THEN key ELSE NoKey]

draw_editor_ui ==
  screen' = View(edit_buffer', buffer_len', cursor_pos', is_insert_mode', last_cmd_key')

\* sys_exit: the process and its memory are gone.
Exit(message) ==
  /\ pc' = "shell"
  /\ screen' = message
  /\ edit_buffer' = <<>> /\ edit_buffer_max' = 0 /\ buffer_len' = 0
  /\ cursor_pos' = 0 /\ is_insert_mode' = FALSE /\ last_cmd_key' = NoKey
  /\ target' = "given"

file == files["given"]
FileSize == IF file = Absent THEN 0 ELSE Len(file)

\* _start up to the key loop: editor_malloc fails when the file and the slack
\* do not fit in the pool.
Start ==
  /\ pc = "shell"
  /\ sessions < MaxSessions
  /\ sessions' = sessions + 1
  /\ IF FileSize + Slack > PoolSize
       THEN Exit("no_memory")
       ELSE /\ pc' = "loop"
            /\ edit_buffer_max' = FileSize + Slack
            /\ edit_buffer' = [k \in 0..(FileSize + Slack - 1) |->
                                 IF k < FileSize THEN file[k + 1] ELSE NUL]
            /\ buffer_len' = FileSize
            /\ target' \in Names
            /\ cursor_pos' = 0 /\ is_insert_mode' = FALSE /\ last_cmd_key' = NoKey
            /\ draw_editor_ui
  /\ UNCHANGED files

\* keyboard_getchar has returned a key.
Key == pc = "loop" /\ UNCHANGED sessions

Escape ==
  /\ Key
  /\ is_insert_mode' = FALSE /\ last_cmd_key' = NoKey
  /\ UNCHANGED <<files, target, pc, buf, cursor_pos>>
  /\ draw_editor_ui

-----------------------------------------------------------------------------
(* The arrows. *)

Left == IF cursor_pos > 0 THEN cursor_pos - 1 ELSE cursor_pos

Right == IF cursor_pos < buffer_len THEN cursor_pos + 1 ELSE cursor_pos

\* Scanning back from position p: the last newline before it, or -1.
Before(p) == Max({-1} \cup {k \in 0..(p - 1) : edit_buffer[k] = NL})

Column == cursor_pos - 1 - Before(cursor_pos)

\* Mutant: the column is not cut at the end of the line above.
Up_NotCut ==
  LET p == Before(cursor_pos) IN
  IF p < 0 THEN cursor_pos ELSE Before(p) + 1 + Column

\* p is the newline that ends the line above; the position stops there.
Up ==
  LET p == Before(cursor_pos) IN
  IF p < 0 THEN cursor_pos ELSE Min({Before(p) + 1 + Column, p})

\* The newline at or after the cursor, buffer_len if there is none.
EndOfLine(p) == Min({buffer_len} \cup {k \in p..(buffer_len - 1) : edit_buffer[k] = NL})

Down ==
  LET next_start == EndOfLine(cursor_pos) + 1 IN
  IF next_start > buffer_len THEN cursor_pos
  ELSE Min({next_start + Column, EndOfLine(next_start)})

Arrow(pos) ==
  /\ Key
  /\ cursor_pos' = pos
  /\ UNCHANGED <<files, target, pc, buf, is_insert_mode, last_cmd_key>>
  /\ draw_editor_ui

-----------------------------------------------------------------------------
(* Insert mode. *)

\* Mutant: the shift starts one position too late.
ShiftLeft_Late ==
  [k \in DOMAIN edit_buffer |->
     IF k \in cursor_pos..(buffer_len - 2) THEN edit_buffer[k + 1] ELSE edit_buffer[k]]

\* The loop of backspace: every byte from the cursor on moves down by one.
ShiftLeft ==
  [k \in DOMAIN edit_buffer |->
     IF k \in (cursor_pos - 1)..(buffer_len - 2) THEN edit_buffer[k + 1] ELSE edit_buffer[k]]

Backspace ==
  /\ Key /\ is_insert_mode
  /\ IF cursor_pos > 0
       THEN /\ edit_buffer' = ShiftLeft
            /\ cursor_pos' = cursor_pos - 1 /\ buffer_len' = buffer_len - 1
            /\ UNCHANGED edit_buffer_max
       ELSE UNCHANGED <<buf, cursor_pos>>
  /\ UNCHANGED <<files, target, pc, is_insert_mode, last_cmd_key>>
  /\ draw_editor_ui

\* Mutant: no room is kept for the terminating zero.
HasRoom_NoTerminator == buffer_len < edit_buffer_max

HasRoom == buffer_len < edit_buffer_max - 1

\* Every byte from the cursor on moves up by one and k is stored.
ShiftRight(k) ==
  [l \in DOMAIN edit_buffer |->
     IF l = cursor_pos THEN k
     ELSE IF l \in (cursor_pos + 1)..buffer_len THEN edit_buffer[l - 1]
     ELSE edit_buffer[l]]

Insert(k) ==
  /\ Key /\ is_insert_mode
  /\ IF HasRoom /\ k \in Chars
       THEN /\ edit_buffer' = ShiftRight(k)
            /\ cursor_pos' = cursor_pos + 1 /\ buffer_len' = buffer_len + 1
            /\ UNCHANGED edit_buffer_max
       ELSE UNCHANGED <<buf, cursor_pos>>
  /\ UNCHANGED <<files, target, pc, is_insert_mode, last_cmd_key>>
  /\ draw_editor_ui

-----------------------------------------------------------------------------
(* Normal mode. *)

EnterInsert ==
  /\ Key /\ ~is_insert_mode
  /\ is_insert_mode' = TRUE /\ last_cmd_key' = NoKey
  /\ UNCHANGED <<files, target, pc, buf, cursor_pos>>
  /\ draw_editor_ui

OtherKey(k) ==
  /\ Key /\ ~is_insert_mode
  /\ last_cmd_key' = k
  /\ UNCHANGED <<files, target, pc, buf, cursor_pos, is_insert_mode>>
  /\ draw_editor_ui

\* What the editor sees of fat16_write_file: syscall 9 returns 0 in any case.
SyscallWriteResult(size) == 0

\* What a refused write leaves of a file.  Its chain has been freed and the
\* entry still points to it, so only the first cluster is read, which keeps
\* what it had or has got a whole piece of the new text before the disk was
\* full; the rest of the (fresh) buffer stays zero.  A new file stays absent.
Pieces(old, text) ==
  {old} \cup {[k \in 1..ClusterBytes |-> text[at + k]] :
             at \in {p \in 0..Len(text) : p % ClusterBytes = 0 /\ p + ClusterBytes < Len(text)}}

Refused(old, text) ==
  IF old = Absent THEN {Absent}
  ELSE {[k \in 1..Len(old) |-> IF k <= ClusterBytes THEN piece[k] ELSE NUL] : piece \in Pieces(old, text)}

\* `w`: a zero goes after the text, which is written to the disk.
Save ==
  /\ pc = "loop" /\ ~is_insert_mode
  /\ LET text == [k \in 1..buffer_len |-> [edit_buffer EXCEPT ![buffer_len] = NUL][k - 1]]
     IN \/ /\ files' = [files EXCEPT ![target] = text]
           /\ Exit(IF SyscallWriteResult(buffer_len) > 0 THEN "saved" ELSE "save_error")
        \/ /\ \E left \in Refused(files[target], text) : files' = [files EXCEPT ![target] = left]
           /\ Exit("save_error")
  /\ UNCHANGED sessions

Quit ==
  /\ Key /\ ~is_insert_mode
  /\ Exit("cleared")
  /\ UNCHANGED files

Next ==
  \/ Start
  \/ Escape
  \/ Arrow(Left) \/ Arrow(Right) \/ Arrow(Up) \/ Arrow(Down)
  \/ Backspace
  \/ \E k \in Chars \cup {"tab"} : Insert(k)
  \/ EnterInsert \/ Save \/ Quit
  \/ \E k \in (Chars \cup {"tab", "bs"}) \ {"i", "w", "q"} : OtherKey(k)

Spec == Init /\ [][Next]_vars

-----------------------------------------------------------------------------
(* Properties. *)

Text == [k \in 1..buffer_len |-> edit_buffer[k - 1]]

\* Types; while the editor runs, the cursor stays in the text and the text
\* leaves room in the buffer for the zero that `w` appends.
TypeOK ==
  /\ pc \in {"shell", "loop"}
  /\ DOMAIN edit_buffer = 0..(edit_buffer_max - 1) \/ edit_buffer_max = 0
  /\ \A k \in 0..(edit_buffer_max - 1) : edit_buffer[k] \in Chars \cup {NUL}
  /\ buffer_len \in 0..edit_buffer_max
  /\ pc = "loop" => buffer_len < edit_buffer_max /\ edit_buffer_max <= PoolSize
  /\ cursor_pos \in 0..buffer_len
  /\ is_insert_mode \in BOOLEAN /\ last_cmd_key \in Keys \cup {NoKey}

\* The line of a position counted by the newlines before it, the first
\* position of a line, and its length.
LineOf(p) == Cardinality({k \in 1..p : Text[k] = NL})
StartOf(l) == Min({p \in 0..buffer_len : LineOf(p) = l})
LengthOf(l) == Max({p \in 0..buffer_len : LineOf(p) = l}) - StartOf(l)
ColumnOf(p) == p - StartOf(LineOf(p))

\* The same column of line l, or its end if it is shorter.
InLine(l) == StartOf(l) + Min({ColumnOf(cursor_pos), LengthOf(l)})

\* Up and down go to the line above and below, in the same column or at the
\* end of a shorter line, and stay where there is no such line: the backward
\* and forward scans for newlines are right for every text and position.
VerticalMoves ==
  pc = "loop" =>
    /\ Up = IF LineOf(cursor_pos) = 0 THEN cursor_pos ELSE InLine(LineOf(cursor_pos) - 1)
    /\ Down = IF LineOf(cursor_pos) = LineOf(buffer_len) THEN cursor_pos
              ELSE InLine(LineOf(cursor_pos) + 1)

\* What the user sees is TextEditor, whose text and position are taken from the
\* screen: shifting bytes in place inserts and deletes exactly one character,
\* no branch of the key loop forgets to redraw, a file changes only on `w` and
\* then holds what was shown; a refused save costs the old text, never another
\* file.
ShownText == IF pc = "loop" THEN screen.text ELSE <<>>
ShownCursor == IF pc = "loop" THEN screen.cursor ELSE 0

Abstract == INSTANCE TextEditor WITH open <- pc = "loop", text <- ShownText, cursor <- ShownCursor

ImplementsTextEditor == Abstract!Spec
=============================================================================
