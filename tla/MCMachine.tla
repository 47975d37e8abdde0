------------------------------ MODULE MCMachine ------------------------------
(* Blocks of two characters, address registers of one bit, names of two plus *)
(* one characters.  One world with a working and one with a failing drive;   *)
(* without a drive, one in which all devices interrupt, one in which all     *)
(* names are typed, one for every small archive and one for every kind of    *)
(* firmware table.  The keyboard interrupts in all of them.                  *)
EXTENDS Machine

SectorContents == {"boot", "old", "new", "junk"}
FirstContents == [l \in LBAs |-> IF l = 0 THEN "boot" ELSE "old"]

UpperLetters == [a |-> "A", b |-> "B"]
Typed == UNION {[1..n -> {"a", "b", Dot}] : n \in 1..4}
Short == <<"a">>

File(name, text) == [name |-> name, dir |-> FALSE, text |-> text]
Dir(name) == [name |-> name, dir |-> TRUE, text |-> <<>>]
Long == [k \in 1..9 |-> IF k = 2 THEN CR ELSE "y"]

SomeMembers ==
  {Dir("a"), File("a", <<>>), File("a", <<"x">>), File("b", <<CR, "x">>), File("b", <<"x", CR, "z">>),
   File("b", Long)}

Archives == UNION {[1..n -> SomeMembers] : n \in 0..2}
  \cup {<<Dir("d"), File("a", Long), File("b", <<"x">>)>>, <<File("a", <<>>), Dir("b"), File("c", <<"x">>)>>}

Other == [sig |-> "APIC", smi |-> 0, enable |-> 0, pm1a |-> 0, dsdt |-> <<>>, s5 |-> 0]
Fadt(smi, pm1a, dsdt, s5) ==
  [sig |-> "FACP", smi |-> smi, enable |-> 160, pm1a |-> pm1a, dsdt |-> dsdt, s5 |-> s5]

\* Definitions of _S5_: with a byte prefix, after a mention of the name, with
\* the root prefix; types that fill the byte, or vanish in the shift; none.
Dsdts ==
  {<< <<NameOp, S5Name, PackageOp, 6, 4, BytePrefix, 7>>, 7 >>,
   << <<1, S5Name, 2, NameOp, S5Name, PackageOp, 6, 4, 1, 1>>, 1 >>,
   << <<1, NameOp, RootChar, S5Name, PackageOp, 6, 4, BytePrefix, 5, 5>>, 5 >>,
   << <<NameOp, S5Name, PackageOp, 6, 4, 0>>, 0 >>,
   << <<NameOp, S5Name, PackageOp, 6, 4, BytePrefix, 13>>, 13 >>,
   << <<NameOp, S5Name, PackageOp, 6, 4, BytePrefix, 255>>, 255 >>,
   << <<NameOp, S5Name, PackageOp, 6, 4, BytePrefix, 192>>, 192 >>,
   << <<1, 2>>, 0 >>}

Firmwares ==
  {[rsdp |-> FALSE, rsdt |-> <<>>], [rsdp |-> TRUE, rsdt |-> <<Other>>]}
    \cup {[rsdp |-> TRUE, rsdt |-> <<Other, Fadt(smi, pm1a, d[1], d[2])>>] :
            smi \in {0, 178}, pm1a \in {0, 1028, Word + 1028}, d \in Dsdts}

World(members, pad, ended, module, firmware, fitted, fails, devices, typed) ==
  [members |-> members, pad |-> pad, ended |-> ended, module |-> module, firmware |-> firmware,
   fitted |-> fitted, fails |-> fails, devices |-> devices, typed |-> typed]

Plain == [rsdp |-> TRUE, rsdt |-> <<Fadt(178, 1028, <<NameOp, S5Name, PackageOp, 6, 4, BytePrefix, 7>>, 7)>>]
Usual == <<Dir("d"), File("a", <<"x", CR>>)>>

SomeWorlds ==
  {World(Usual, 0, TRUE, TRUE, Plain, TRUE, fails, {Kbd}, {Short}) : fails \in BOOLEAN}
    \cup {World(Usual, 0, TRUE, TRUE, Plain, FALSE, FALSE, Irqs, {Short})}
    \cup {World(Usual, 0, TRUE, TRUE, Plain, FALSE, FALSE, {Kbd}, Typed)}
    \cup {World(m, p, e, TRUE, Plain, FALSE, FALSE, {Kbd}, {Short}) : m \in Archives, p \in {0, Blank}, e \in BOOLEAN}
    \cup {World(<<>>, 0, TRUE, FALSE, f, FALSE, FALSE, {Kbd}, {Short}) : f \in Firmwares}
=============================================================================
