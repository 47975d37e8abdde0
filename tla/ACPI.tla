-------------------------------- MODULE ACPI --------------------------------
(***************************************************************************)
(* Power management (hal/acpi.c): what acpi_init takes from the firmware's *)
(* tables and what acpi_poweroff writes to the ports.                      *)
(*                                                                         *)
(* A firmware is [rsdp, rsdt]: whether Limine found an RSDP and the tables *)
(* its RSDT lists.  A table is [sig, smi, enable, pm1a, dsdt]; only the    *)
(* FADT is looked into.  The DSDT is a sequence of bytes in which the four *)
(* letters of _S5_ are one element.  pm1a_cnt_blk has 32 bits, slp_typa    *)
(* and the number of a port 16: the casts of the code cut them.            *)
(***************************************************************************)
EXTENDS Naturals, Sequences, SequencesExt

SLP_EN == 8192                      \* 0x2000
Word == 65536                       \* values of a uint16_t
Fallback == <<1540, 45060>>         \* 0x604 and 0xB004, ports of emulators

NameOp == 8
RootChar == 92
S5Name == 95                        \* the letters _S5_
PackageOp == 18
BytePrefix == 10

\* The byte after `at`, 0 behind the end.
At(dsdt, at) == IF at \in DOMAIN dsdt THEN dsdt[at] ELSE 0

\* The position is the definition of _S5_.
IsDefinition(dsdt, i) ==
  /\ At(dsdt, i) = S5Name
  /\ At(dsdt, i - 1) = NameOp \/ (At(dsdt, i - 1) = RootChar /\ At(dsdt, i - 2) = NameOp)

\* Mutant: the prefix of a byte is taken for the value.
SleepType_Prefix(dsdt, i) == At(dsdt, i + 4)

\* After the package operator come its length, its number of elements and the
\* first element, with or without the prefix of a byte.
SleepType(dsdt, i) == IF At(dsdt, i + 4) = BytePrefix THEN At(dsdt, i + 5) ELSE At(dsdt, i + 4)

\* What the n-th step of the search makes of its base.  At a definition that
\* is not a package it moves while the index does not: what lies up to twice
\* as far is looked at next.
Moved(dsdt, n) == [b \in Nat |-> IF IsDefinition(dsdt, b + n) THEN b + n ELSE b]

\* The base after n steps.
Bases(dsdt) ==
  LET base[n \in 0..Len(dsdt)] == IF n = 0 THEN 0 ELSE Moved(dsdt, n)[base[n - 1]]
  IN base

\* The first definition that is a package, 0 if there is none.
S5(dsdt) ==
  LET base  == Bases(dsdt)
      found == {n \in 1..Len(dsdt) : /\ IsDefinition(dsdt, base[n - 1] + n)
                                     /\ At(dsdt, base[n - 1] + n + 1) = PackageOp}
  IN IF found = {} THEN 0 ELSE SleepType(dsdt, base[Min(found) - 1] + Min(found))

\* The FADTs among the tables; the loop takes the first.
Fadts(firmware) == {k \in 1..Len(firmware.rsdt) : firmware.rsdt[k].sig = "FACP"}

\* *(s5Addr) << 10, stored in a uint16_t.
Shifted(type) == (type * 1024) % Word

\* slp_typa | 0x2000.
WithEnable(value) == IF (value \div SLP_EN) % 2 = 1 THEN value ELSE value + SLP_EN

\* What acpi_init leaves behind: pm1a_cnt_blk, slp_typa and the ports written.
\* What is 0 after the shift cannot be told from a missing type and becomes 5.
acpi_init(firmware) ==
  IF ~firmware.rsdp \/ Fadts(firmware) = {}
    THEN [pm1a |-> 0, slp_typa |-> 0, out |-> <<>>]
    ELSE LET fadt == firmware.rsdt[Min(Fadts(firmware))]
         IN [pm1a |-> fadt.pm1a,
             slp_typa |-> IF Shifted(S5(fadt.dsdt)) = 0 THEN Shifted(5) ELSE Shifted(S5(fadt.dsdt)),
             out |-> IF fadt.smi # 0 /\ fadt.enable # 0 THEN << <<fadt.smi % Word, fadt.enable>> >> ELSE <<>>]

\* The ports and values acpi_poweroff writes.
acpi_poweroff(pm) ==
  IF pm.pm1a = 0
    THEN [k \in 1..2 |-> <<Fallback[k], SLP_EN>>]
    ELSE << <<pm.pm1a % Word, WithEnable(pm.slp_typa)>> >>
-----------------------------------------------------------------------------
\* The fields of the control register that a value written to it sets.
SlpTyp(value) == (value \div 1024) % 8
SlpEn(value) == (value \div SLP_EN) % 2

\* A DSDT that defines _S5_ as a package with v as its first element, and not
\* before as something else.  A byte has its prefix; 1 may stand for itself.
DefinesS5(dsdt, v) ==
  \E d \in 1..Len(dsdt) :
    /\ IsDefinition(dsdt, d) /\ \A e \in 1..(d - 1) : ~IsDefinition(dsdt, e)
    /\ At(dsdt, d + 1) = PackageOp
    /\ \/ At(dsdt, d + 4) = BytePrefix /\ At(dsdt, d + 5) = v
       \/ At(dsdt, d + 4) = 1 /\ v = 1
=============================================================================
