----------------------------- MODULE TextEditor -----------------------------
(* What the text editor promises (tools/editor.c, doc/doc-edit.md): a text  *)
(* and a position in it; a key inserts one character there, removes the one *)
(* before it, or moves the position; a file changes only when the text is   *)
(* saved to it and then holds the text.  The text is saved under the name   *)
(* it was read from or, if that is too long, under a shorter one.           *)
(* Editor.tla is shown to implement this.                                   *)
EXTENDS Naturals, Sequences

CONSTANTS Chars, NUL, Absent, Names

VARIABLES files, target, open, text, cursor

tvars == <<files, target, open, text, cursor>>

ContentsOf(f) == IF f = Absent THEN <<>> ELSE f

Init == open = FALSE /\ target = "given" /\ text = <<>> /\ cursor = 0

Open ==
  /\ ~open
  /\ open' = TRUE
  /\ target' \in Names
  /\ text' = ContentsOf(files["given"]) /\ cursor' = 0
  /\ UNCHANGED files

Insert(ch) ==
  /\ open
  /\ text' = SubSeq(text, 1, cursor) \o <<ch>> \o SubSeq(text, cursor + 1, Len(text))
  /\ cursor' = cursor + 1
  /\ UNCHANGED <<files, target, open>>

Delete ==
  /\ open /\ cursor > 0
  /\ text' = SubSeq(text, 1, cursor - 1) \o SubSeq(text, cursor + 1, Len(text))
  /\ cursor' = cursor - 1
  /\ UNCHANGED <<files, target, open>>

Move ==
  /\ open
  /\ cursor' \in 0..Len(text)
  /\ UNCHANGED <<files, target, open, text>>

Close == open /\ open' = FALSE /\ target' = "given" /\ text' = <<>> /\ cursor' = 0

Save == Close /\ files' = [files EXCEPT ![target] = text]

Quit == Close /\ UNCHANGED files

\* What is left of a file when the disk is full (fat16_write_file): none if
\* there was none, else one of the same length, each byte of which may have
\* been lost or replaced by one of the text.
Mangled(old, f) ==
  IF old = Absent THEN f = Absent
  ELSE /\ DOMAIN f = 1..Len(old)
       /\ \A k \in 1..Len(old) : f[k] \in {old[k], NUL} \cup {text[j] : j \in 1..Len(text)}

SaveRefused ==
  /\ Close
  /\ files' = [files EXCEPT ![target] = files'[target]]
  /\ Mangled(files[target], files'[target])

Next ==
  \/ Open \/ Delete \/ Move \/ Save \/ Quit \/ SaveRefused
  \/ \E ch \in Chars : Insert(ch)

Spec == Init /\ [][Next]_tvars
=============================================================================
