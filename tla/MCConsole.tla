------------------------------ MODULE MCConsole ------------------------------
(* A prompt of one cell, commands of one letter.  "up" is a key without a   *)
(* glyph.                                                                   *)
EXTENDS Console, TLC

Typeable == {"e", "c", "p", "up", Space}
PromptCells == <<">">>
MessageCells == <<"m", NL>>
ShellCommands ==
  (<<"e">> :> "echo") @@ (<<"c">> :> "cls") @@ (<<"p">> :> "program")
    @@ (<<"up">> :> "poweroff")
=============================================================================
