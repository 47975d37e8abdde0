------------------------------ MODULE FileStore ------------------------------
(***************************************************************************)
(* What the FAT16 driver promises to the shell and to programs: a map from *)
(* names to contents.  A call begins, and what it does happens all at once *)
(* when it returns: the file it names holds what was given to it, or is    *)
(* gone, and no other file changes; it returns the size written, or 1 for  *)
(* a deletion.  A call that is refused returns 0 and changes nothing, and  *)
(* a crash in the middle of a call changes nothing, both for a name that   *)
(* has no entry yet.  Where it has one, a crash or a full disk may tear    *)
(* the volume: the other files are still there, but nothing is promised    *)
(* any more.  Fat16.tla is shown to implement this.                        *)
(***************************************************************************)
CONSTANTS Names, Contents, Absent, Directories

VARIABLES
  files,       \* the contents of every name, or Absent
  names,       \* the names that have an entry: files and directories
  call,        \* the running call, or NoCall
  ret,         \* what the last call returned
  torn         \* the volume was left inconsistent

fvars == <<files, names, call, ret, torn>>

Call(op, n, content) == [op |-> op, name |-> n, content |-> content]
NoCall == [op |-> "none"]

Running == call # NoCall
New == call.name \notin names

Init ==
  /\ files = [n \in Names |-> Absent]
  /\ names = Directories
  /\ call = NoCall /\ ret = 0 /\ torn = FALSE

\* A write may name anything; a deletion names an entry.
Begin(c) ==
  /\ ~Running
  /\ c.op = "delete" => c.name \in names
  /\ call' = c
  /\ UNCHANGED <<files, names, ret, torn>>

Write ==
  /\ Running /\ call.op = "write"
  /\ files' = [files EXCEPT ![call.name] = call.content]
  /\ names' = names \cup {call.name}
  /\ call' = NoCall /\ ret' = call.content.size
  /\ UNCHANGED torn

Delete ==
  /\ Running /\ call.op = "delete"
  /\ files' = [files EXCEPT ![call.name] = Absent]
  /\ names' = names \ {call.name}
  /\ call' = NoCall /\ ret' = 1
  /\ UNCHANGED torn

\* The disk is full, or the machine stops.
Refuse == Running /\ New /\ call' = NoCall /\ ret' = 0 /\ UNCHANGED <<files, names, torn>>
Crash  == Running /\ New /\ call' = NoCall /\ UNCHANGED <<files, names, ret, torn>>

\* Refused at once: nothing to delete, or no slot for a new name.
RefuseAtOnce(n) ==
  /\ ~Running /\ files[n] = Absent
  /\ ret' = 0
  /\ UNCHANGED <<files, names, call, torn>>

Tear ==
  /\ Running /\ ~New
  /\ \A n \in Names \ {call.name} : files'[n] = files[n]
  /\ call' = NoCall /\ ret' \in {0, ret} /\ torn' = TRUE
  /\ UNCHANGED names

Next ==
  \/ \E n \in Names : \/ \E content \in Contents : Begin(Call("write", n, content))
                      \/ Begin(Call("delete", n, Absent))
                      \/ RefuseAtOnce(n)
  \/ Write \/ Delete \/ Refuse \/ Crash \/ Tear

Spec == Init /\ [][torn \/ Next]_fvars
=============================================================================
