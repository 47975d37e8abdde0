------------------------------- MODULE FatName -------------------------------
(***************************************************************************)
(* File names on the FAT16 disk (kernel/fat16.c): format_fat_name turns    *)
(* what was typed into the fixed fields of a directory entry, fat16_dir    *)
(* turns the fields back into what it lists.  A name is a sequence of      *)
(* characters.                                                             *)
(***************************************************************************)
EXTENDS Naturals, Sequences, SequencesExt

CONSTANTS
  NameLen, ExtLen,       \* 8 and 3: the fields of a directory entry
  Upper                  \* the upper-case letter of every lower-case letter

Dot == "."
Filler == " "

ASSUME FatNameAssumption ==
  /\ NameLen \in Nat \ {0} /\ ExtLen \in Nat \ {0}
  /\ Dot \notin DOMAIN Upper /\ \A ch \in DOMAIN Upper : Upper[ch] # Filler

UpperOf(ch) == IF ch \in DOMAIN Upper THEN Upper[ch] ELSE ch

\* The first n characters in upper case, filled up with spaces.
Field(s, n) == [k \in 1..n |-> IF k <= Len(s) THEN UpperOf(s[k]) ELSE Filler]

\* Mutant: the search for the dot ends with the field.
DotAt_InField(name) ==
  LET at == SelectInSeq(SubSeq(name, 1, IF Len(name) < NameLen THEN Len(name) ELSE NameLen), LAMBDA ch : ch = Dot)
  IN IF at = 0 THEN Len(name) + 1 ELSE at

\* Position of the first dot, behind the end if there is none.
DotAt(name) ==
  LET at == SelectInSeq(name, LAMBDA ch : ch = Dot) IN IF at = 0 THEN Len(name) + 1 ELSE at

\* The part before the first dot and the part behind it, each cut to its field.
format_fat_name(name) ==
  Field(SubSeq(name, 1, DotAt(name) - 1), NameLen)
    \o Field(SubSeq(name, DotAt(name) + 1, Len(name)), ExtLen)

\* A field as it is listed: character by character, without the spaces.
Unfilled(field) ==
  LET shown[n \in 0..Len(field)] ==
        IF n = 0 THEN <<>>
        ELSE IF field[n] # Filler THEN Append(shown[n - 1], field[n]) ELSE shown[n - 1]
  IN shown[Len(field)]

\* fat16_dir: a dot only before an extension.
Listed(entry) ==
  Unfilled(SubSeq(entry, 1, NameLen))
    \o (IF entry[NameLen + 1] # Filler
          THEN <<Dot>> \o Unfilled(SubSeq(entry, NameLen + 1, NameLen + ExtLen)) ELSE <<>>)

-----------------------------------------------------------------------------
\* A name that the fields can hold: without spaces, and with at most one dot,
\* which stands between a name and an extension that are not too long.
Fits(name) ==
  LET dots == {k \in 1..Len(name) : name[k] = Dot}
  IN /\ Filler \notin Range(name)
     /\ \A d \in dots : dots = {d} /\ d - 1 \in 1..NameLen /\ Len(name) - d \in 1..ExtLen
     /\ dots = {} => Len(name) \in 1..NameLen

InUpper(name) == [k \in 1..Len(name) |-> UpperOf(name[k])]
=============================================================================
