-------------------------------- MODULE TarFS --------------------------------
(***************************************************************************)
(* The read-only file system of kernel/tarfs.c: a tar archive that the     *)
(* boot loader leaves in memory.                                           *)
(*                                                                         *)
(* An image is a sequence of blocks of BlockSize characters (512 bytes).   *)
(* A block is a record: the three fields the code looks at when it takes   *)
(* it for a header, and its characters when it holds data.  An empty name  *)
(* ends the archive, as the zero blocks at its end do.  The characters of  *)
(* the size field are the digits 0 .. 7, NUL and Blank.  Offsets count     *)
(* blocks.                                                                 *)
(***************************************************************************)
EXTENDS Naturals, Sequences, SequencesExt

CONSTANTS
  BlockSize,       \* 512
  SizeDigits       \* 11: characters of the size field that are read

ASSUME TarFSAssumption == BlockSize \in Nat \ {0} /\ SizeDigits \in Nat \ {0}

NUL == 8
Blank == 9
CR == "cr"
Directory == "5"
NoRamdisk == <<>>        \* ramdisk_base == NULL

\* The digits before the first zero byte; other characters do not count.
octal_to_int(field) ==
  LET value[n \in 0..SizeDigits] ==
        IF n = 0 THEN 0
        ELSE IF (\A j \in 1..n : field[j] # NUL) /\ field[n] \in 0..7
               THEN value[n - 1] * 8 + field[n] ELSE value[n - 1]
  IN value[SizeDigits]

\* Mutant: a file of whole blocks is taken to be one block longer.
file_blocks_OneMore(size) == size \div BlockSize + 1

file_blocks(size) == (size + BlockSize - 1) \div BlockSize

HeaderAt(image, offset) == image[offset + 1]
SizeAt(image, offset) == octal_to_int(HeaderAt(image, offset).size)

\* The loop all four functions share ends with the image or at an empty name.
AtEnd(image, offset) == offset >= Len(image) \/ HeaderAt(image, offset).name = ""

\* One round of it, with the offsets so far: to the next header.
Round(image) ==
  [trail \in Seq(Nat) |->
     LET o == trail[Len(trail)]
     IN IF AtEnd(image, o) THEN trail ELSE Append(trail, o + 1 + file_blocks(SizeAt(image, o)))]

\* The offsets of the headers.
Headers(image) ==
  LET trail[n \in 0..Len(image)] == IF n = 0 THEN <<0>> ELSE Round(image)[trail[n - 1]]
  IN Front(trail[Len(image)])

\* The size bytes behind a header.
file_data(image, offset) ==
  [i \in 1..SizeAt(image, offset) |->
     image[offset + 2 + (i - 1) \div BlockSize].data[((i - 1) % BlockSize) + 1]]

\* The headers with that name, by number; the loops take the first.
Named(image, filename) ==
  LET header == Headers(image)
  IN {k \in 1..Len(header) : HeaderAt(image, header[k]).name = filename}

First(image, filename) == Headers(image)[Min(Named(image, filename))]

\* Directories are left out of the listing.
tarfs_dir(image) ==
  LET header == Headers(image)
      listed[n \in 0..Len(header)] ==
        IF n = 0 THEN <<>>
        ELSE LET h == HeaderAt(image, header[n])
             IN IF h.typeflag # Directory THEN Append(listed[n - 1], h.name) ELSE listed[n - 1]
  IN listed[Len(header)]

Absent == <<"no such file">>

\* Carriage returns are not shown.
Visible(text) == SelectSeq(text, LAMBDA ch : ch # CR)

tarfs_type(image, filename) ==
  IF Named(image, filename) = {} THEN Absent ELSE Visible(file_data(image, First(image, filename)))

tarfs_get_file_size(image, filename) ==
  IF Named(image, filename) = {} THEN 0 ELSE SizeAt(image, First(image, filename))

tarfs_read_file(image, filename) ==
  IF Named(image, filename) = {} THEN <<>> ELSE file_data(image, First(image, filename))

-----------------------------------------------------------------------------
(* What tar writes for a list of members [name, dir, text] (Makefile,      *)
(* ramdisk.tar).                                                           *)

\* A number without its last k octal digits.
Rest(n) == LET rest[k \in 0..SizeDigits] == IF k = 0 THEN n ELSE rest[k - 1] \div 8 IN rest

\* The size field, filled on the left with zeros or blanks.
SizeField(n, pad) ==
  [k \in 1..SizeDigits |-> IF Rest(n)[SizeDigits - k] = 0 THEN pad ELSE Rest(n)[SizeDigits - k] % 8]

Block(name, size, typeflag, data) ==
  [name |-> name, size |-> size, typeflag |-> typeflag, data |-> data]

\* The last block is filled up; taken for a header its name is of no member.
DataBlocks(text) ==
  [b \in 1..((Len(text) + BlockSize - 1) \div BlockSize) |->
     Block("data", <<NUL>>, "0",
           [i \in 1..BlockSize |-> IF (b - 1) * BlockSize + i <= Len(text)
                                     THEN text[(b - 1) * BlockSize + i] ELSE "fill"])]

EndBlock == Block("", <<NUL>>, "", <<>>)

MemberBlocks(m, pad) ==
  << Block(m.name, SizeField(Len(m.text), pad), IF m.dir THEN Directory ELSE "0", <<>>) >> \o DataBlocks(m.text)

Archive(members, pad, ended) ==
  LET image[n \in 0..Len(members)] ==
        IF n = 0 THEN <<>> ELSE image[n - 1] \o MemberBlocks(members[n], pad)
  IN image[Len(members)] \o (IF ended THEN <<EndBlock, EndBlock>> ELSE <<>>)

\* A member that tar can write: it has a name, and its size fits the field.
MemberOK(m) ==
  /\ m.name # "" /\ m.dir \in BOOLEAN
  /\ m.text \in Seq(Range(m.text)) /\ Rest(Len(m.text))[SizeDigits] = 0
=============================================================================
