---------------------------- MODULE ConsoleProofs ----------------------------
(***************************************************************************)
(* Proofs about Console.tla, for every size of screen, prompt, message,    *)
(* set of commands and size of the shell's arrays, and for programs that   *)
(* put the cursor anywhere: the shell keeps it on the screen, what the     *)
(* screen shows is the line that was typed, and the command that runs is   *)
(* the one that was typed.                                                 *)
(***************************************************************************)
EXTENDS Console, WellFoundedInduction, TLAPS

Glyphs == Chars \cup {Blank} \cup Range(Prompt) \cup Range(Message)

\* What can be printed.
Output == Glyphs \cup {NL, BS}

\* What the constants are.
LEMMA Constants ==
  /\ Rows \in Nat /\ Cols \in Nat /\ Rows > 1 /\ Cols > 1 /\ Cols \in Nat \ {0}
  /\ SizeMax \in Nat /\ Rows <= SizeMax /\ Cols <= SizeMax
  /\ Space \in Chars /\ NL \notin Chars /\ BS \notin Chars
  /\ LineSize \in Nat \ {0} /\ NameSize \in Nat \ {0} /\ ArgsSize \in Nat \ {0}
BY ConsoleAssumption

USE Constants

\* Every set of numbers that is not empty has a least member.
LEMMA LeastNumber ==
  ASSUME NEW T \in SUBSET Nat, T # {}
  PROVE  \E x \in T : \A y \in T : x <= y
<1> DEFINE R == {ss \in Nat \X Nat : ss[1] < ss[2]}
<1>1. IsWellFoundedOn(R, Nat)
  BY NatLessThanWellFounded DEF OpToRel
<1>2. \A a, b \in Nat : <<a, b>> \in R <=> a < b
  OBVIOUS
<1> HIDE DEF R
<1>3. PICK x \in T : \A y \in T : ~ (<<y, x>> \in R)
  BY <1>1, WFMin
<1>4. ASSUME NEW y \in T PROVE x <= y
  <2>1. x \in Nat /\ y \in Nat
    OBVIOUS
  <2>2. ~(y < x)
    BY <1>2, <1>3, <2>1
  <2> QED BY <2>1, <2>2
<1> QED BY <1>4

-----------------------------------------------------------------------------
(* The screen. *)

\* Any cursor, and one on the screen with nothing stored outside so far.
Displays == [cell : [Grid -> Glyphs], row : 0..SizeMax, col : 0..SizeMax, stray : BOOLEAN]

Screens == [cell : [Grid -> Glyphs], row : 0..(Rows - 1), col : 0..(Cols - 1), stray : {FALSE}]

\* A screen is known by its parts.
LEMMA ScreenParts ==
  ASSUME NEW t \in Screens
  PROVE  /\ t.cell \in [Grid -> Glyphs] /\ t.row \in 0..(Rows - 1) /\ t.col \in 0..(Cols - 1)
         /\ <<t.row, t.col>> \in Grid /\ OnScreen(t) /\ t.stray = FALSE
         /\ Inc(t.row) = t.row + 1 /\ Inc(t.col) = t.col + 1
<1>1. t.cell \in [Grid -> Glyphs] /\ t.row \in 0..(Rows - 1) /\ t.col \in 0..(Cols - 1) /\ t.stray = FALSE
  BY DEF Screens
<1>2. <<t.row, t.col>> \in Grid
  BY <1>1 DEF Grid
<1>3. Inc(t.row) = t.row + 1 /\ Inc(t.col) = t.col + 1
  BY <1>1 DEF Inc
<1> QED BY <1>1, <1>2, <1>3 DEF OnScreen

LEMMA DisplayParts ==
  ASSUME NEW t \in Displays
  PROVE  /\ t.cell \in [Grid -> Glyphs] /\ t.row \in 0..SizeMax /\ t.col \in 0..SizeMax /\ t.stray \in BOOLEAN
         /\ t = [cell |-> t.cell, row |-> t.row, col |-> t.col, stray |-> t.stray]
         /\ OnScreen(t) /\ ~t.stray => t \in Screens
<1>1. /\ t.cell \in [Grid -> Glyphs] /\ t.row \in 0..SizeMax /\ t.col \in 0..SizeMax /\ t.stray \in BOOLEAN
      /\ t = [cell |-> t.cell, row |-> t.row, col |-> t.col, stray |-> t.stray]
  BY DEF Displays
<1>2. ASSUME OnScreen(t), ~t.stray PROVE t \in Screens
  <2>1. t.row \in 0..(Rows - 1) /\ t.col \in 0..(Cols - 1)
    BY <1>2 DEF OnScreen, Grid
  <2>2. t.stray \in {FALSE}
    BY <1>1, <1>2
  <2> QED BY <1>1, <2>1, <2>2 DEF Screens
<1> QED BY <1>1, <1>2

LEMMA ScreenIsDisplay == ASSUME NEW t \in Screens PROVE t \in Displays
<1>1. 0..(Rows - 1) \subseteq 0..SizeMax /\ 0..(Cols - 1) \subseteq 0..SizeMax /\ {FALSE} \subseteq BOOLEAN
  OBVIOUS
<1> QED BY <1>1 DEF Screens, Displays

\* Storing a character where the cursor is.
LEMMA PutOnScreen ==
  ASSUME NEW t \in Screens, NEW ch \in Glyphs
  PROVE  /\ Put(t, ch) \in Screens
         /\ Put(t, ch).row = t.row /\ Put(t, ch).col = t.col
         /\ Put(t, ch).cell = [t.cell EXCEPT ![<<t.row, t.col>>] = ch]
<1>1. [t.cell EXCEPT ![<<t.row, t.col>>] = ch] \in [Grid -> Glyphs]
  BY ScreenParts
<1>2. Put(t, ch) = [t EXCEPT !.cell[<<t.row, t.col>>] = ch]
  BY ScreenParts DEF Put
<1> QED BY <1>1, <1>2, ScreenParts DEF Screens

\* The cursor goes to the next row, ...
LEMMA NextRowOnScreen ==
  ASSUME NEW t \in Screens
  PROVE  /\ NextRow(t) \in Screens /\ NextRow(t).cell = t.cell /\ NextRow(t).col = 0
         /\ NextRow(t).row = IF t.row + 1 >= Rows THEN 0 ELSE t.row + 1
<1>1. t.row \in 0..(Rows - 1) /\ Inc(t.row) = t.row + 1
  BY ScreenParts
<1>2. (t.row + 1 >= Rows \/ t.row + 1 \in 0..(Rows - 1)) /\ 0 \in 0..(Rows - 1) /\ 0 \in 0..(Cols - 1)
  BY <1>1
<1> QED BY <1>1, <1>2, ScreenParts DEF NextRow, Screens

\* ... to another column, ...
LEMMA ColumnOnScreen ==
  ASSUME NEW t \in Screens, NEW cl \in 0..(Cols - 1), NEW u, u = [t EXCEPT !.col = cl]
  PROVE  u \in Screens /\ u.cell = t.cell /\ u.row = t.row /\ u.col = cl
BY ScreenParts DEF Screens

\* ... or anywhere.
LEMMA CursorOnScreen ==
  ASSUME NEW t \in Screens, NEW r \in 0..(Rows - 1), NEW cl \in 0..(Cols - 1)
  PROVE  LET u == vga_set_cursor(t, r, cl) IN
         u \in Screens /\ u.cell = t.cell /\ u.row = r /\ u.col = cl
BY ScreenParts DEF Screens, vga_set_cursor

LEMMA StepBackOnScreen ==
  ASSUME NEW t \in Screens
  PROVE  /\ StepBack(t) \in Screens /\ StepBack(t).cell = t.cell
         /\ t.col > 0 => StepBack(t).row = t.row /\ StepBack(t).col = t.col - 1
         /\ t.col = 0 /\ t.row > 0 => StepBack(t).row = t.row - 1 /\ StepBack(t).col = Cols - 1
<1>1. t.row \in 0..(Rows - 1) /\ t.col \in 0..(Cols - 1)
  BY ScreenParts
<1>2. CASE t.col > 0
  <2>1. StepBack(t) = [t EXCEPT !.col = t.col - 1]
    BY <1>2 DEF StepBack
  <2>2. t.col - 1 \in 0..(Cols - 1)
    BY <1>1, <1>2
  <2>3. StepBack(t) \in Screens /\ StepBack(t).cell = t.cell /\ StepBack(t).row = t.row
          /\ StepBack(t).col = t.col - 1
    BY <2>1, <2>2, ColumnOnScreen
  <2> QED BY <1>1, <1>2, <2>3
<1>3. CASE t.col = 0 /\ t.row > 0
  <2>1. StepBack(t) = vga_set_cursor(t, t.row - 1, Cols - 1)
    BY <1>3 DEF StepBack, vga_set_cursor
  <2>2. t.row - 1 \in 0..(Rows - 1) /\ Cols - 1 \in 0..(Cols - 1)
    BY <1>1, <1>3
  <2>3. StepBack(t) \in Screens /\ StepBack(t).cell = t.cell /\ StepBack(t).row = t.row - 1
          /\ StepBack(t).col = Cols - 1
    <3>1. PICK r \in 0..(Rows - 1) : r = t.row - 1
      BY <2>2
    <3>2. PICK cl \in 0..(Cols - 1) : cl = Cols - 1
      BY <2>2
    <3>3. LET u == vga_set_cursor(t, r, cl) IN
            u \in Screens /\ u.cell = t.cell /\ u.row = r /\ u.col = cl
      BY CursorOnScreen
    <3>4. StepBack(t) = vga_set_cursor(t, r, cl)
      BY <2>1, <3>1, <3>2
    <3> QED BY <3>1, <3>2, <3>3, <3>4
  <2> QED BY <1>1, <1>3, <2>3
<1>4. CASE t.col = 0 /\ t.row = 0
  BY <1>4 DEF StepBack
<1> QED BY <1>1, <1>2, <1>3, <1>4

\* A character that is printed as it is: the cursor is to the right of it.
LEMMA PutcharPlain ==
  ASSUME NEW t \in Screens, NEW ch \in Glyphs, ch # NL, ch # BS
  PROVE  /\ vga_putchar(t, ch) \in Screens
         /\ vga_putchar(t, ch).cell = [t.cell EXCEPT ![<<t.row, t.col>>] = ch]
         /\ IF t.col + 1 >= Cols
              THEN /\ vga_putchar(t, ch).col = 0
                   /\ vga_putchar(t, ch).row = IF t.row + 1 >= Rows THEN 0 ELSE t.row + 1
              ELSE vga_putchar(t, ch).row = t.row /\ vga_putchar(t, ch).col = t.col + 1
<1> DEFINE u == Put(t, ch)
<1>1. u \in Screens /\ u.row = t.row /\ u.col = t.col /\ u.cell = [t.cell EXCEPT ![<<t.row, t.col>>] = ch]
  BY PutOnScreen
<1>2. vga_putchar(t, ch) = IF u.col + 1 >= Cols THEN NextRow(u) ELSE [u EXCEPT !.col = u.col + 1]
  <2>1. Inc(u.col) = u.col + 1
    BY <1>1, ScreenParts
  <2> QED BY <2>1 DEF vga_putchar
<1> HIDE DEF u
<1>3. t.row \in 0..(Rows - 1) /\ t.col \in 0..(Cols - 1)
  BY ScreenParts
<1>4. CASE u.col + 1 >= Cols
  BY <1>1, <1>2, <1>4, NextRowOnScreen
<1>5. CASE ~(u.col + 1 >= Cols)
  <2>1. u.col + 1 \in 0..(Cols - 1)
    BY <1>1, <1>3, <1>5
  <2>2. vga_putchar(t, ch) = [u EXCEPT !.col = u.col + 1]
    BY <1>2, <1>5
  <2>3. /\ vga_putchar(t, ch) \in Screens /\ vga_putchar(t, ch).cell = u.cell
        /\ vga_putchar(t, ch).row = u.row /\ vga_putchar(t, ch).col = u.col + 1
    BY <1>1, <2>1, <2>2, ColumnOnScreen
  <2> QED BY <1>1, <1>5, <2>3
<1> QED BY <1>4, <1>5

\* Backspace clears the character before the cursor.
LEMMA PutcharBack ==
  ASSUME NEW t \in Screens
  PROVE  LET u == StepBack(t) IN
         /\ vga_putchar(t, BS) \in Screens
         /\ vga_putchar(t, BS).row = u.row /\ vga_putchar(t, BS).col = u.col
         /\ vga_putchar(t, BS).cell = [t.cell EXCEPT ![<<u.row, u.col>>] = Blank]
<1>1. vga_putchar(t, BS) = Put(StepBack(t), Blank) /\ Blank \in Glyphs
  BY DEF vga_putchar, Glyphs, BS, NL
<1> QED BY <1>1, StepBackOnScreen, PutOnScreen

\* vga_putchar keeps the cursor on the screen, whatever it is given.
LEMMA PutcharOnScreen ==
  ASSUME NEW t \in Screens, NEW ch \in Output
  PROVE  vga_putchar(t, ch) \in Screens
<1>1. CASE ch = BS
  BY <1>1, PutcharBack
<1>2. CASE ch = NL
  <2>1. vga_putchar(t, ch) = NextRow(t)
    BY <1>2 DEF vga_putchar, NL, BS
  <2> QED BY <2>1, NextRowOnScreen
<1>3. CASE ch # BS /\ ch # NL
  BY <1>3, PutcharPlain DEF Output
<1> QED BY <1>1, <1>2, <1>3

-----------------------------------------------------------------------------
(* Any cursor. *)

Strays == {t \in Displays : t.stray}

LEMMA IncInRange == ASSUME NEW n \in 0..SizeMax PROVE Inc(n) \in 0..SizeMax
BY DEF Inc

\* A character is stored on the screen, or is a stray write.
LEMMA PutAnywhere ==
  ASSUME NEW t \in Displays, NEW ch \in Glyphs
  PROVE  /\ Put(t, ch) \in Displays /\ (t.stray => Put(t, ch).stray)
         /\ Put(t, ch).row = t.row /\ Put(t, ch).col = t.col
         /\ t \notin Screens => Put(t, ch).stray
<1>1. CASE OnScreen(t)
  <2>1. Put(t, ch) = [t EXCEPT !.cell[<<t.row, t.col>>] = ch]
    BY <1>1 DEF Put
  <2>2. [t.cell EXCEPT ![<<t.row, t.col>>] = ch] \in [Grid -> Glyphs]
    BY <1>1, DisplayParts DEF OnScreen
  <2>3. Put(t, ch) = [cell |-> [t.cell EXCEPT ![<<t.row, t.col>>] = ch], row |-> t.row, col |-> t.col, stray |-> t.stray]
    BY <2>1, DisplayParts
  <2>4. t \notin Screens => t.stray
    BY <1>1, DisplayParts
  <2> QED BY <2>2, <2>3, <2>4, DisplayParts DEF Displays
<1>2. CASE ~OnScreen(t)
  <2>1. Put(t, ch) = [t EXCEPT !.stray = TRUE]
    BY <1>2 DEF Put
  <2>2. Put(t, ch) = [cell |-> t.cell, row |-> t.row, col |-> t.col, stray |-> TRUE]
    BY <2>1, DisplayParts
  <2> QED BY <2>2, DisplayParts DEF Displays
<1> QED BY <1>1, <1>2

\* Wherever the cursor is, vga_putchar leaves a display, and a stray write is
\* never undone.
LEMMA PutcharAnywhere ==
  ASSUME NEW t \in Displays, NEW ch \in Output
  PROVE  /\ vga_putchar(t, ch) \in Displays /\ (t.stray => vga_putchar(t, ch).stray)
         /\ t \notin Screens /\ ch \notin {NL, BS} => vga_putchar(t, ch).stray
<1>0. 0 \in 0..SizeMax /\ Cols - 1 \in 0..SizeMax
  OBVIOUS
<1>1. ASSUME NEW u \in Displays
      PROVE  /\ NextRow(u) \in Displays /\ NextRow(u).stray = u.stray
             /\ [u EXCEPT !.col = Inc(u.col)] \in Displays /\ [u EXCEPT !.col = Inc(u.col)].stray = u.stray
             /\ StepBack(u) \in Displays /\ StepBack(u).stray = u.stray
  <2>1. u.row \in 0..SizeMax /\ u.col \in 0..SizeMax /\ Inc(u.row) \in 0..SizeMax /\ Inc(u.col) \in 0..SizeMax
    BY <1>1, DisplayParts, IncInRange
  <2>5. u = [cell |-> u.cell, row |-> u.row, col |-> u.col, stray |-> u.stray] /\ u.cell \in [Grid -> Glyphs] /\ u.stray \in BOOLEAN
    BY DisplayParts
  <2>2. NextRow(u) \in Displays /\ NextRow(u).stray = u.stray
    <3>1. PICK r \in 0..SizeMax : r = IF Inc(u.row) >= Rows THEN 0 ELSE Inc(u.row)
      BY <1>0, <2>1
    <3>2. NextRow(u) = [cell |-> u.cell, row |-> r, col |-> 0, stray |-> u.stray]
      <4>1. NextRow(u) = [u EXCEPT !.col = 0, !.row = r]
        BY <3>1 DEF NextRow
      <4> QED BY <2>5, <4>1
    <3> QED BY <1>0, <2>5, <3>2 DEF Displays
  <2>3. [u EXCEPT !.col = Inc(u.col)] \in Displays /\ [u EXCEPT !.col = Inc(u.col)].stray = u.stray
    <3>1. [u EXCEPT !.col = Inc(u.col)] = [cell |-> u.cell, row |-> u.row, col |-> Inc(u.col), stray |-> u.stray]
      BY <2>5
    <3> QED BY <2>5, <2>1, <3>1 DEF Displays
  <2>4. StepBack(u) \in Displays /\ StepBack(u).stray = u.stray
    <3>1. CASE u.col > 0
      <4>1. StepBack(u) = [u EXCEPT !.col = u.col - 1] /\ u.col - 1 \in 0..SizeMax
        BY <2>1, <3>1 DEF StepBack
      <4>2. StepBack(u) = [cell |-> u.cell, row |-> u.row, col |-> u.col - 1, stray |-> u.stray]
        BY <2>5, <4>1
      <4> QED BY <2>5, <2>1, <4>1, <4>2 DEF Displays
    <3>2. CASE u.col = 0 /\ u.row > 0
      <4>1. StepBack(u) = [u EXCEPT !.row = u.row - 1, !.col = Cols - 1] /\ u.row - 1 \in 0..SizeMax
        BY <2>1, <3>2, DisplayParts DEF StepBack
      <4>2. StepBack(u) = [cell |-> u.cell, row |-> u.row - 1, col |-> Cols - 1, stray |-> u.stray]
        BY <2>5, <4>1
      <4> QED BY <1>0, <2>5, <4>1, <4>2 DEF Displays
    <3>3. CASE u.col = 0 /\ u.row = 0
      BY <3>3 DEF StepBack
    <3> QED BY <2>1, <3>1, <3>2, <3>3
  <2> QED BY <2>2, <2>3, <2>4
<1>2. CASE ch = BS
  <2>1. vga_putchar(t, ch) = Put(StepBack(t), Blank) /\ Blank \in Glyphs
    BY <1>2 DEF vga_putchar, Glyphs, BS, NL
  <2>2. PICK b \in Displays : b = StepBack(t) /\ b.stray = t.stray
    BY <1>1
  <2>3. Put(b, Blank) \in Displays /\ (b.stray => Put(b, Blank).stray)
    BY <2>1, PutAnywhere
  <2> QED BY <1>2, <2>1, <2>2, <2>3
<1>3. CASE ch = NL
  <2>1. vga_putchar(t, ch) = NextRow(t)
    BY <1>3 DEF vga_putchar, NL, BS
  <2> QED BY <1>1, <1>3, <2>1
<1>4. CASE ch # BS /\ ch # NL
  <2>1. PICK u \in Displays : u = Put(t, ch) /\ (t.stray => u.stray) /\ (t \notin Screens => u.stray)
    BY <1>4, PutAnywhere DEF Output
  <2>2. vga_putchar(t, ch) = IF Inc(u.col) >= Cols THEN NextRow(u) ELSE [u EXCEPT !.col = Inc(u.col)]
    BY <1>4, <2>1 DEF vga_putchar
  <2>3. vga_putchar(t, ch) \in Displays /\ vga_putchar(t, ch).stray = u.stray
    BY <1>1, <2>2
  <2> QED BY <2>1, <2>3
<1> QED BY <1>2, <1>3, <1>4

\* vga_print is its calls of vga_putchar, one after the other.
LEMMA PrintSteps ==
  ASSUME NEW t, NEW s \in Seq(Output)
  PROVE  \E w : /\ w[0] = t /\ \A n \in 1..Len(s) : w[n] = vga_putchar(w[n - 1], s[n])
               /\ vga_print(t, s) = w[Len(s)]
<1> DEFINE K == 0..Len(s)
           Eq(h) == h = [n \in K |-> IF n = 0 THEN t ELSE vga_putchar(h[n - 1], s[n])]
           Upto(h, m) == h[0] = t /\ \A n \in 1..m : h[n] = vga_putchar(h[n - 1], s[n])
           w == CHOOSE h : Eq(h)
<1>1. Len(s) \in Nat /\ \A n \in 1..Len(s) : s[n] \in Output
  OBVIOUS
<1>2. \A m \in K : \E h : Upto(h, m)
  <2> DEFINE T == {m \in K : ~ \E h : Upto(h, m)}
  <2>1. SUFFICES ASSUME T # {} PROVE FALSE
    OBVIOUS
  <2>2. T \in SUBSET Nat
    BY <1>1
  <2> HIDE DEF T
  <2>3. PICK x \in T : \A y \in T : x <= y
    BY <2>1, <2>2, LeastNumber
  <2>4. x \in K /\ x \in Nat /\ ~ \E h : Upto(h, x)
    BY <1>1, <2>3 DEF T
  <2>5. CASE x = 0
    <3>1. PICK h : h = [n \in {0} |-> t]
      OBVIOUS
    <3>2. Upto(h, 0)
      BY <3>1
    <3> QED BY <2>4, <2>5, <3>2
  <2>6. CASE x # 0
    <3>1. x - 1 \in K /\ x - 1 \in Nat /\ ~(x <= x - 1)
      BY <1>1, <2>4, <2>6
    <3>2. x - 1 \notin T
      BY <2>3, <3>1
    <3>3. PICK h : Upto(h, x - 1)
      BY <3>1, <3>2 DEF T
    <3>4. PICK g : g = [n \in 0..x |-> IF n = x THEN vga_putchar(h[x - 1], s[x]) ELSE h[n]]
      OBVIOUS
    <3>5. g[0] = t /\ g[x - 1] = h[x - 1] /\ g[x] = vga_putchar(h[x - 1], s[x])
      BY <2>4, <2>6, <3>1, <3>3, <3>4
    <3>6. ASSUME NEW n \in 1..x PROVE g[n] = vga_putchar(g[n - 1], s[n])
      <4>1. CASE n = x
        BY <3>5, <4>1
      <4>2. CASE n # x
        <5>1. n \in 1..(x - 1) /\ n \in 0..x /\ n - 1 \in 0..x /\ n - 1 # x
          BY <2>4, <4>2
        <5>2. g[n] = h[n] /\ g[n - 1] = h[n - 1]
          BY <3>4, <4>2, <5>1
        <5> QED BY <3>3, <5>1, <5>2
      <4> QED BY <4>1, <4>2
    <3>7. Upto(g, x)
      BY <3>5, <3>6
    <3> QED BY <2>4, <3>7
  <2> QED BY <2>5, <2>6
<1>3. \E h : Eq(h)
  <2>1. PICK h : Upto(h, Len(s))
    BY <1>1, <1>2
  <2>2. PICK g : g = [n \in K |-> h[n]]
    OBVIOUS
  <2>3. ASSUME NEW n \in K PROVE g[n] = IF n = 0 THEN t ELSE vga_putchar(g[n - 1], s[n])
    <3>1. n = 0 \/ (n \in 1..Len(s) /\ n - 1 \in K)
      BY <1>1
    <3> QED BY <2>1, <2>2, <3>1
  <2>4. g = [n \in K |-> IF n = 0 THEN t ELSE vga_putchar(g[n - 1], s[n])]
    BY <2>2, <2>3
  <2> QED BY <2>4
<1>4. vga_print(t, s) = w[Len(s)]
  BY DEF vga_print
<1>5. Eq(w)
  BY <1>3
<1> HIDE DEF w
<1>6. \A n \in K : w[n] = IF n = 0 THEN t ELSE vga_putchar(w[n - 1], s[n])
  BY <1>5
<1>7. w[0] = t /\ \A n \in 1..Len(s) : w[n] = vga_putchar(w[n - 1], s[n])
  <2>1. 0 \in K /\ \A n \in 1..Len(s) : n \in K /\ n # 0
    BY <1>1
  <2> QED BY <1>6, <2>1
<1> QED BY <1>4, <1>7

\* What they keep, from the start or from the first call on, holds at the end.
LEMMA PrintKeeps ==
  ASSUME NEW t, NEW s \in Seq(Output), NEW S, \A u \in S : \A ch \in Output : vga_putchar(u, ch) \in S,
         t \in S \/ (Len(s) > 0 /\ vga_putchar(t, s[1]) \in S)
  PROVE  vga_print(t, s) \in S
<1> DEFINE K == 0..Len(s)
<1>1. Len(s) \in Nat /\ \A n \in 1..Len(s) : s[n] \in Output
  OBVIOUS
<1>2. PICK w : /\ w[0] = t /\ \A n \in 1..Len(s) : w[n] = vga_putchar(w[n - 1], s[n])
               /\ vga_print(t, s) = w[Len(s)]
  BY PrintSteps
<1>7. PICK m \in K : w[m] \in S
  <2>1. CASE t \in S
    <3>1. 0 \in K /\ w[0] = t
      BY <1>1, <1>2
    <3> QED BY <2>1, <3>1
  <2>2. CASE Len(s) > 0 /\ vga_putchar(t, s[1]) \in S
    <3>1. 1 \in K /\ 1 \in 1..Len(s) /\ 1 - 1 = 0
      BY <1>1, <2>2
    <3>2. w[1] = vga_putchar(t, s[1])
      BY <1>2, <3>1
    <3> QED BY <2>2, <3>1, <3>2
  <2> QED BY <2>1, <2>2
<1>8. \A n \in K : n >= m => w[n] \in S
  <2> DEFINE T == {n \in K : n >= m /\ w[n] \notin S}
  <2>1. SUFFICES ASSUME T # {} PROVE FALSE
    OBVIOUS
  <2>2. T \in SUBSET Nat
    BY <1>1
  <2> HIDE DEF T
  <2>3. PICK x \in T : \A y \in T : x <= y
    BY <2>1, <2>2, LeastNumber
  <2>4. x \in K /\ x >= m /\ w[x] \notin S
    BY <2>3 DEF T
  <2>5. x > m
    BY <1>1, <1>7, <2>4
  <2>6. x - 1 \in K /\ x - 1 >= m /\ ~(x <= x - 1) /\ x \in 1..Len(s) /\ x # 0
    BY <1>1, <1>7, <2>4, <2>5
  <2>7. w[x - 1] \in S
    BY <2>3, <2>6 DEF T
  <2>8. w[x] = vga_putchar(w[x - 1], s[x]) /\ s[x] \in Output
    BY <1>1, <1>2, <2>4, <2>6
  <2> QED BY <2>4, <2>7, <2>8
<1>9. Len(s) \in K /\ Len(s) >= m
  BY <1>1, <1>7
<1> QED BY <1>2, <1>8, <1>9

LEMMA PrintOnScreen ==
  ASSUME NEW t \in Screens, NEW s \in Seq(Output)
  PROVE  vga_print(t, s) \in Screens
BY PrintKeeps, PutcharOnScreen

LEMMA PrintAnywhere ==
  ASSUME NEW t \in Displays, NEW s \in Seq(Output)
  PROVE  vga_print(t, s) \in Displays /\ (t.stray => vga_print(t, s).stray)
<1>1. vga_print(t, s) \in Displays
  BY PrintKeeps, PutcharAnywhere
<1>2. ASSUME t.stray PROVE vga_print(t, s).stray
  <2>1. t \in Strays /\ \A u \in Strays : \A ch \in Output : vga_putchar(u, ch) \in Strays
    BY <1>2, PutcharAnywhere DEF Strays
  <2>2. vga_print(t, s) \in Strays
    BY <2>1, PrintKeeps
  <2> QED BY <2>2 DEF Strays
<1> QED BY <1>1, <1>2

\* A prompt off the screen is a stray write.
LEMMA PromptShows ==
  ASSUME NEW t \in Displays, Prompt \in Seq(Output)
  PROVE  /\ vga_print(t, Prompt) \in Displays
         /\ ~vga_print(t, Prompt).stray => vga_print(t, Prompt) \in Screens
<1>1. vga_print(t, Prompt) \in Displays
  BY PrintAnywhere
<1>2. CASE t \in Screens
  BY <1>1, <1>2, PrintOnScreen
<1>3. CASE t \notin Screens
  <2>1. Len(Prompt) > 0 /\ Prompt[1] \in Output /\ Prompt[1] \notin {NL, BS}
    BY ConsoleAssumption
  <2>2. vga_putchar(t, Prompt[1]) \in Strays
    BY <1>3, <2>1, PutcharAnywhere DEF Strays
  <2>3. \A u \in Strays : \A ch \in Output : vga_putchar(u, ch) \in Strays
    BY PutcharAnywhere DEF Strays
  <2>4. vga_print(t, Prompt) \in Strays
    BY <2>1, <2>2, <2>3, PrintKeeps
  <2> QED BY <1>1, <2>4 DEF Strays
<1> QED BY <1>2, <1>3

-----------------------------------------------------------------------------
(* Positions on the screen, counted along its rows. *)

LEMMA DivMod ==
  ASSUME NEW d \in Nat \ {0}, NEW a \in Nat
  PROVE  a \div d \in Nat /\ a % d \in 0..(d - 1) /\ a = d * (a \div d) + (a % d)
OBVIOUS

LEMMA MulOrder ==
  ASSUME NEW d \in Nat \ {0}, NEW m \in Nat, NEW n \in Nat
  PROVE  d * n \in Nat /\ (m < n => d * m + d <= d * n)
OBVIOUS

\* The quotient and the remainder are the only ones.
LEMMA DivUnique ==
  ASSUME NEW d \in Nat \ {0}, NEW q \in Nat, NEW r \in 0..(d - 1), NEW a \in Nat, a = d * q + r
  PROVE  a \div d = q /\ a % d = r
<1>1. a = d * (a \div d) + (a % d) /\ a \div d \in Nat /\ a % d \in 0..(d - 1)
  BY DivMod
<1>2. ~(a \div d < q)
  BY <1>1, MulOrder
<1>3. ~(q < a \div d)
  BY <1>1, MulOrder
<1> QED BY <1>1, <1>2, <1>3, MulOrder

\* Counting round: the next position, and positions less than a round apart.
LEMMA ModNext ==
  ASSUME NEW d \in Nat \ {0}, NEW a \in Nat
  PROVE  (a + 1) % d = IF (a % d) + 1 = d THEN 0 ELSE (a % d) + 1
<1>1. a \div d \in Nat /\ a % d \in 0..(d - 1) /\ a = d * (a \div d) + (a % d)
  BY DivMod
<1>2. PICK q \in Nat, r \in 0..(d - 1) : q = a \div d /\ r = a % d
  BY <1>1
<1>3. CASE r + 1 = d
  <2>1. d * (q + 1) = d * q + d
    OBVIOUS
  <2>2. PICK p \in Nat, z \in 0..(d - 1), c \in Nat : p = q + 1 /\ z = 0 /\ c = a + 1
    OBVIOUS
  <2>3. c = d * p + z
    BY <1>1, <1>2, <1>3, <2>1, <2>2
  <2>4. c % d = z
    BY <2>3, DivUnique
  <2> QED BY <1>2, <1>3, <2>2, <2>4
<1>4. CASE r + 1 # d
  <2>1. PICK z \in 0..(d - 1), c \in Nat : z = r + 1 /\ c = a + 1
    BY <1>4
  <2>2. d * q \in Nat /\ c = d * q + z
    BY <1>1, <1>2, <2>1, MulOrder
  <2>3. c % d = z
    BY <2>2, DivUnique
  <2> QED BY <1>2, <1>4, <2>1, <2>3
<1> QED BY <1>3, <1>4

LEMMA ModApart ==
  ASSUME NEW d \in Nat \ {0}, NEW a \in Nat, NEW b \in Nat, a < b, b < a + d
  PROVE  a % d # b % d
<1>1. SUFFICES ASSUME a % d = b % d PROVE FALSE
  OBVIOUS
<1>2. PICK q \in Nat, p \in Nat, r \in 0..(d - 1) : a = d * q + r /\ b = d * p + r
  <2>1. a \div d \in Nat /\ a % d \in 0..(d - 1) /\ a = d * (a \div d) + (a % d)
    BY DivMod
  <2>2. b \div d \in Nat /\ b % d \in 0..(d - 1) /\ b = d * (b \div d) + (b % d)
    BY DivMod
  <2> QED BY <1>1, <2>1, <2>2
<1>3. d * q \in Nat /\ d * p \in Nat /\ (q < p => d * q + d <= d * p) /\ (p < q => d * p + d <= d * q)
  BY MulOrder
<1>4. q < p \/ p < q \/ q = p
  OBVIOUS
<1> QED BY <1>2, <1>3, <1>4

LEMMA AreaIs == Area \in Nat \ {0} /\ Area = Cols * Rows /\ Area > 1
<1>1. Cols * 1 \in Nat /\ Cols * Rows \in Nat /\ Cols * 1 + Cols <= Cols * Rows /\ Cols * 1 = Cols
  BY MulOrder
<1>2. Area = Cols * Rows
  BY DEF Area
<1> QED BY <1>1, <1>2

\* The cell a position stands for.
Place(k) == <<k \div Cols, k % Cols>>

\* The positions of the screen are its cells, ...
LEMMA Places ==
  ASSUME NEW k \in 0..(Area - 1)
  PROVE  Place(k) \in Grid /\ \A j \in 0..(Area - 1) : Place(j) = Place(k) => j = k
<1>1. \A j \in 0..(Area - 1) : j \div Cols \in Nat /\ j % Cols \in 0..(Cols - 1) /\ j = Cols * (j \div Cols) + (j % Cols)
  <2>1. ASSUME NEW j \in 0..(Area - 1) PROVE j \in Nat
    BY AreaIs
  <2> QED BY <2>1, DivMod
<1>2. PICK q \in Nat, r \in 0..(Cols - 1) : q = k \div Cols /\ r = k % Cols /\ k = Cols * q + r
  BY <1>1
<1>3. q < Rows
  <2>1. ~(Rows < q) /\ q # Rows
    BY <1>2, AreaIs, MulOrder
  <2> QED BY <2>1
<1>4. Place(k) \in Grid
  BY <1>2, <1>3 DEF Place, Grid
<1>5. ASSUME NEW j \in 0..(Area - 1), Place(j) = Place(k) PROVE j = k
  <2>1. j \div Cols = k \div Cols /\ j % Cols = k % Cols
    BY <1>5 DEF Place
  <2> QED BY <1>1, <2>1
<1> QED BY <1>4, <1>5

\* ... and the cursor is at the cell of its position.
LEMMA CursorPlace ==
  ASSUME NEW t \in Screens
  PROVE  At(t) \in 0..(Area - 1) /\ At(t) = Cols * t.row + t.col /\ Place(At(t)) = <<t.row, t.col>>
<1>0. t.row \in 0..(Rows - 1) /\ t.col \in 0..(Cols - 1)
  BY ScreenParts
<1>1. t.row \in Nat /\ t.row < Rows /\ t.col \in 0..(Cols - 1)
  BY <1>0
<1>2. Cols * t.row \in Nat /\ At(t) = Cols * t.row + t.col /\ Cols * t.row + Cols <= Cols * Rows
  BY <1>1, MulOrder DEF At
<1>3. At(t) \in 0..(Area - 1) /\ At(t) \in Nat
  BY <1>1, <1>2, AreaIs
<1>4. At(t) \div Cols = t.row /\ At(t) % Cols = t.col
  <2>1. PICK q \in Nat : q = t.row
    BY <1>1
  <2>2. PICK r \in 0..(Cols - 1) : r = t.col
    BY <1>1
  <2>3. PICK a \in Nat : a = At(t)
    BY <1>3
  <2>4. a = Cols * q + r
    BY <1>2, <2>1, <2>2, <2>3
  <2>5. a \div Cols = q /\ a % Cols = r
    BY <2>4, DivUnique
  <2> QED BY <2>1, <2>2, <2>3, <2>5
<1> QED BY <1>2, <1>3, <1>4 DEF Place

\* A typed character is stored at the cursor, which goes to the next position
\* or, from the last one, to the first.
LEMMA CharEchoed ==
  ASSUME NEW t \in Screens, NEW ch \in Chars
  PROVE  LET u == vga_putchar(t, ch) IN
         /\ u \in Screens
         /\ At(u) = IF At(t) + 1 = Area THEN 0 ELSE At(t) + 1
         /\ u.cell[Place(At(t))] = ch
         /\ \A k \in 0..(Area - 1) : k # At(t) => u.cell[Place(k)] = t.cell[Place(k)]
<1> DEFINE u == vga_putchar(t, ch)
<1>1. ch \in Glyphs /\ ch # NL /\ ch # BS
  BY DEF Glyphs
<1>2. /\ u \in Screens /\ u.cell = [t.cell EXCEPT ![<<t.row, t.col>>] = ch]
      /\ IF t.col + 1 >= Cols
           THEN u.col = 0 /\ u.row = IF t.row + 1 >= Rows THEN 0 ELSE t.row + 1
           ELSE u.row = t.row /\ u.col = t.col + 1
  BY <1>1, PutcharPlain
<1> HIDE DEF u
<1>3. /\ t.row \in 0..(Rows - 1) /\ t.col \in 0..(Cols - 1) /\ <<t.row, t.col>> \in Grid
      /\ t.cell \in [Grid -> Glyphs]
  BY ScreenParts
<1>4. /\ At(t) \in 0..(Area - 1) /\ At(t) = Cols * t.row + t.col
      /\ At(u) \in 0..(Area - 1) /\ At(u) = Cols * u.row + u.col
      /\ Place(At(t)) = <<t.row, t.col>>
  BY <1>2, CursorPlace
<1>5. At(u) = IF At(t) + 1 = Area THEN 0 ELSE At(t) + 1
  <2>1. CASE t.col + 1 >= Cols /\ t.row + 1 >= Rows
    <3>1. u.row = 0 /\ u.col = 0 /\ t.col + 1 = Cols /\ t.row + 1 = Rows
      BY <1>2, <1>3, <2>1
    <3>2. Cols * 0 = 0 /\ Cols * (t.row + 1) = Cols * t.row + Cols
      BY <1>3
    <3> QED BY <1>3, <1>4, <3>1, <3>2, AreaIs
  <2>2. CASE t.col + 1 >= Cols /\ ~(t.row + 1 >= Rows)
    <3>1. u.row = t.row + 1 /\ u.col = 0 /\ t.col + 1 = Cols
      BY <1>2, <1>3, <2>2
    <3>2. Cols * (t.row + 1) = Cols * t.row + Cols
      BY <1>3
    <3>3. At(u) = At(t) + 1
      BY <1>3, <1>4, <3>1, <3>2
    <3> QED BY <1>4, <3>3, AreaIs
  <2>3. CASE ~(t.col + 1 >= Cols)
    <3>1. At(u) = At(t) + 1
      BY <1>2, <1>3, <1>4, <2>3
    <3> QED BY <1>4, <3>1, AreaIs
  <2> QED BY <2>1, <2>2, <2>3
<1>6. u.cell[Place(At(t))] = ch
  BY <1>2, <1>3, <1>4
<1>7. ASSUME NEW k \in 0..(Area - 1), k # At(t) PROVE u.cell[Place(k)] = t.cell[Place(k)]
  <2>1. Place(k) \in Grid /\ Place(k) # Place(At(t))
    BY <1>4, <1>7, Places
  <2> QED BY <1>2, <1>3, <1>4, <2>1
<1> QED BY <1>2, <1>5, <1>6, <1>7 DEF u

\* A backspace goes back to the position before the cursor and clears it.
LEMMA CharErased ==
  ASSUME NEW t \in Screens, At(t) > 0
  PROVE  LET u == vga_putchar(t, BS) IN
         /\ u \in Screens
         /\ At(u) = At(t) - 1
         /\ \A k \in 0..(Area - 1) : k # At(u) => u.cell[Place(k)] = t.cell[Place(k)]
<1> DEFINE b == StepBack(t)
           u == vga_putchar(t, BS)
<1>1. /\ u \in Screens /\ u.row = b.row /\ u.col = b.col
      /\ u.cell = [t.cell EXCEPT ![<<b.row, b.col>>] = Blank]
  BY PutcharBack
<1>2. /\ t.col > 0 => b.row = t.row /\ b.col = t.col - 1
      /\ t.col = 0 /\ t.row > 0 => b.row = t.row - 1 /\ b.col = Cols - 1
  BY StepBackOnScreen
<1> HIDE DEF b, u
<1>3. t.row \in 0..(Rows - 1) /\ t.col \in 0..(Cols - 1) /\ t.cell \in [Grid -> Glyphs]
  BY ScreenParts
<1>4. /\ At(t) \in Nat /\ At(t) = Cols * t.row + t.col
      /\ At(u) \in 0..(Area - 1) /\ At(u) = Cols * u.row + u.col /\ Place(At(u)) = <<u.row, u.col>>
  BY <1>1, CursorPlace, AreaIs
<1>5. At(u) = At(t) - 1
  <2>1. CASE t.col > 0
    BY <1>1, <1>2, <1>3, <1>4, <2>1
  <2>2. CASE t.col = 0 /\ t.row > 0
    <3>1. Cols * (t.row - 1) = Cols * t.row - Cols
      BY <1>3
    <3> QED BY <1>1, <1>2, <1>3, <1>4, <2>2, <3>1
  <2>3. CASE t.col = 0 /\ t.row = 0
    BY <1>4, <2>3
  <2> QED BY <1>3, <2>1, <2>2, <2>3
<1>6. ASSUME NEW k \in 0..(Area - 1), k # At(u) PROVE u.cell[Place(k)] = t.cell[Place(k)]
  <2>1. Place(k) \in Grid /\ Place(k) # <<b.row, b.col>>
    BY <1>1, <1>4, <1>6, Places
  <2> QED BY <1>1, <1>3, <2>1
<1> QED BY <1>1, <1>5, <1>6 DEF u

-----------------------------------------------------------------------------
(* The line and its words. *)

\* The first space is in the line or just after it.
LEMMA FirstSpaceInLine ==
  ASSUME NEW s \in Seq(Chars)
  PROVE  FirstSpace(s) \in 1..(Len(s) + 1)
<1>1. CASE Space \in Range(s)
  <2> DEFINE I == {i \in 1..Len(s) : s[i] = Space}
  <2>1. I # {}
    BY <1>1 DEF Range
  <2>2. FirstSpace(s) = Min(I)
    BY <1>1, <2>1 DEF FirstSpace, SelectInSeq
  <2>3. I \in SUBSET Nat /\ \A i \in I : i \in 1..Len(s)
    OBVIOUS
  <2> HIDE DEF I
  <2>4. \E x \in I : \A y \in I : x <= y
    BY <2>1, <2>3, LeastNumber
  <2>5. Min(I) \in I
    BY <2>4 DEF Min
  <2>6. Min(I) \in 1..Len(s)
    BY <2>3, <2>5
  <2> QED BY <2>2, <2>6
<1>2. CASE Space \notin Range(s)
  BY <1>2 DEF FirstSpace
<1> QED BY <1>1, <1>2

\* A part of a line is a line.
LEMMA PartOfLine ==
  ASSUME NEW s \in Seq(Chars), NEW m \in Nat \ {0}, NEW n \in 0..Len(s)
  PROVE  SubSeq(s, m, n) \in Seq(Chars) /\ (m = 1 => Len(SubSeq(s, m, n)) = n)
OBVIOUS

\* What is printed.
LEMMA Printed ==
  /\ Prompt \in Seq(Output) /\ Message \in Seq(Output)
  /\ \A s \in Seq(Chars) : Append(s, NL) \in Seq(Output)
<1>1. Prompt \in Seq(Range(Prompt)) /\ Message \in Seq(Range(Message))
  BY ConsoleAssumption
<1>2. Range(Prompt) \subseteq Output /\ Range(Message) \subseteq Output /\ Chars \subseteq Output /\ NL \in Output
  BY DEF Output, Glyphs
<1>3. \A S : S \subseteq Output => Seq(S) \subseteq Seq(Output)
  OBVIOUS
<1>4. Prompt \in Seq(Output) /\ Message \in Seq(Output)
  BY <1>1, <1>2, <1>3
<1>5. ASSUME NEW s \in Seq(Chars) PROVE Append(s, NL) \in Seq(Output)
  <2>1. s \in Seq(Output)
    BY <1>2, <1>3
  <2> QED BY <1>2, <2>1
<1> QED BY <1>4, <1>5

-----------------------------------------------------------------------------
(* The inductive invariant. *)

\* Where the k-th character of the line is.
Spot(k) == (start + k - 1) % Area

\* Between the prompt and the cursor the screen shows the line.
Echoed ==
  /\ At(tty) = (start + Len(line)) % Area
  /\ \A k \in (hidden + 1)..Len(line) : tty.cell[Place(Spot(k))] = line[k]

\* The line and the command; no more than a screen of the line is not hidden.
LineOK ==
  /\ command \in Seq(Chars) /\ Len(command) < LineSize
  /\ line \in Seq(Chars) /\ Len(command) <= Len(line)
  /\ start \in Nat /\ hidden \in Nat /\ Len(line) <= hidden + Area
  /\ full \in BOOLEAN /\ stuck \in BOOLEAN
  /\ ~full => line = command

ConInv ==
  /\ tty \in Displays
  /\ pc \in {"line", "run", "program", "halted", "clobbered"}
  /\ pc \in {"line", "run"} /\ ~tty.stray => tty \in Screens
  /\ LineOK
  /\ pc = "line" /\ ~stuck /\ ~tty.stray => Echoed

\* A prompt on any screen starts an empty line.
LEMMA PromptInv ==
  ASSUME NEW t \in Displays, NewPrompt(t)
  PROVE  ConInv'
<1> DEFINE u == vga_print(t, Prompt)
<1>1. u \in Displays /\ (~u.stray => u \in Screens)
  BY Printed, PromptShows
<1>3. /\ tty' = u /\ pc' = "line" /\ command' = <<>> /\ start' = At(u) /\ line' = <<>>
      /\ full' = FALSE /\ hidden' = 0 /\ stuck' = FALSE
  BY DEF NewPrompt
<1> HIDE DEF u
<1>2. At(u) \in Nat
  <2>1. u.row \in Nat /\ u.col \in Nat
    BY <1>1, DisplayParts
  <2> QED BY <2>1 DEF At
<1>4. <<>> \in Seq(Chars) /\ Len(<<>>) = 0
  OBVIOUS
<1>5. ASSUME ~u.stray PROVE Echoed'
  <2>1. At(u) \in 0..(Area - 1)
    BY <1>1, <1>5, CursorPlace
  <2>2. (At(u) + 0) % Area = At(u)
    BY <2>1, AreaIs
  <2>3. At(tty') = (start' + Len(line')) % Area
    BY <1>3, <1>4, <2>2 DEF At
  <2>4. (hidden' + 1)..Len(line') = {}
    BY <1>3, <1>4
  <2> QED BY <2>3, <2>4 DEF Echoed, At
<1>6. LineOK'
  <2>1. 0 < LineSize /\ 0 <= 0 /\ 0 <= 0 + Area /\ FALSE \in BOOLEAN
    BY AreaIs
  <2>2. full' \in BOOLEAN /\ stuck' \in BOOLEAN
    BY <1>3, Zenon
  <2> QED BY <1>2, <1>3, <1>4, <2>1, <2>2 DEF LineOK, Area
<1> QED BY <1>1, <1>3, <1>5, <1>6 DEF ConInv

LEMMA BlankOnScreen == BlankScreen \in Screens
<1>1. 0 \in 0..(Rows - 1) /\ 0 \in 0..(Cols - 1) /\ Blank \in Glyphs
  BY DEF Glyphs
<1> QED BY <1>1 DEF BlankScreen, Screens

LEMMA ClearAnywhere ==
  ASSUME NEW t \in Displays
  PROVE  vga_clear(t) \in Displays
<1>0. BlankScreen.cell \in [Grid -> Glyphs]
  BY BlankOnScreen, ScreenParts
<1>1. BlankScreen.cell \in [Grid -> Glyphs] /\ 0 \in 0..SizeMax
  BY <1>0
<1>2. vga_clear(t) = [cell |-> BlankScreen.cell, row |-> 0, col |-> 0, stray |-> t.stray]
  BY DEF vga_clear, BlankScreen
<1> QED BY <1>1, <1>2, DisplayParts DEF Displays

LEMMA InvInit == Init => ConInv
<1> SUFFICES ASSUME Init PROVE ConInv
  OBVIOUS
<1>1. tty \in Screens /\ tty \in Displays
  BY Printed, PrintOnScreen, BlankOnScreen, ScreenIsDisplay DEF Init
<1>2. At(tty) \in 0..(Area - 1)
  BY <1>1, CursorPlace
<1>3. <<>> \in Seq(Chars) /\ Len(<<>>) = 0
  OBVIOUS
<1>4. pc = "line" /\ start = At(tty) /\ command = <<>> /\ line = <<>> /\ full = FALSE /\ hidden = 0 /\ stuck = FALSE
  BY DEF Init
<1>5. Echoed
  <2>1. (At(tty) + 0) % Area = At(tty)
    BY <1>2, AreaIs
  <2>2. (hidden + 1)..Len(line) = {}
    BY <1>3, <1>4
  <2> QED BY <1>3, <1>4, <2>1, <2>2 DEF Echoed
<1>6. LineOK
  <2>1. 0 < LineSize /\ 0 <= 0 /\ 0 <= 0 + Area /\ At(tty) \in Nat
    BY <1>2, AreaIs
  <2>2. full \in BOOLEAN /\ stuck \in BOOLEAN
    BY <1>4, Zenon
  <2> QED BY <1>3, <1>4, <2>1, <2>2 DEF LineOK
<1> QED BY <1>1, <1>4, <1>5, <1>6 DEF ConInv

LEMMA InvTypeChar ==
  ASSUME ConInv, NEW ch \in Chars, TypeChar(ch)
  PROVE  ConInv'
<1> DEFINE u == vga_putchar(tty, ch)
           n == Len(line)
<1>1. /\ tty' = u /\ pc = "line" /\ pc' = pc /\ start' = start /\ stuck' = stuck
      /\ command' = IF Len(command) < LineSize - 1 THEN Append(command, ch) ELSE command
      /\ full' = (full \/ Len(command) = LineSize - 1)
      /\ line' = Append(line, ch)
      /\ hidden' = IF Len(line) + 1 > hidden + Area THEN hidden + 1 ELSE hidden
  BY DEF TypeChar
<1>2. /\ tty \in Displays /\ (~tty.stray => tty \in Screens) /\ (~stuck /\ ~tty.stray => Echoed) /\ LineOK
  BY <1>1 DEF ConInv
<1>3. u \in Displays /\ (tty.stray => u.stray)
  BY <1>2, PutcharAnywhere DEF Output, Glyphs
<1>4. /\ command \in Seq(Chars) /\ Len(command) < LineSize /\ Len(command) \in Nat
      /\ line \in Seq(Chars) /\ n \in Nat /\ Len(command) <= n
      /\ start \in Nat /\ hidden \in Nat /\ n <= hidden + Area
      /\ full \in BOOLEAN /\ stuck \in BOOLEAN /\ (~full => line = command)
  BY <1>2 DEF LineOK
<1>5. line' \in Seq(Chars) /\ Len(line') = n + 1 /\ line'[n + 1] = ch /\ \A k \in 1..n : line'[k] = line[k]
  BY <1>1, <1>4
<1>6. hidden' \in Nat /\ n + 1 <= hidden' + Area /\ hidden <= hidden'
  BY <1>1, <1>4, AreaIs
<1>7. LineOK'
  <2>1. command' \in Seq(Chars) /\ Len(command') < LineSize /\ Len(command') <= Len(line')
    BY <1>1, <1>4, <1>5
  <2>2. full' \in BOOLEAN
    BY <1>1
  <2>3. ASSUME ~full' PROVE line' = command'
    <3>1. ~full /\ Len(command) # LineSize - 1
      BY <1>1, <2>3
    <3>2. Len(command) < LineSize - 1
      BY <1>4, <3>1
    <3> QED BY <1>1, <1>4, <3>1, <3>2
  <2> QED BY <1>1, <1>4, <1>5, <1>6, <2>1, <2>2, <2>3 DEF LineOK
<1>8. ASSUME ~u.stray PROVE u \in Screens
  BY <1>2, <1>3, <1>8, CharEchoed
<1>9. ASSUME ~u.stray, ~stuck PROVE Echoed'
  <2>1. tty \in Screens /\ Echoed
    BY <1>2, <1>3, <1>9
  <2>2. /\ At(u) = IF At(tty) + 1 = Area THEN 0 ELSE At(tty) + 1
        /\ u.cell[Place(At(tty))] = ch
        /\ \A k \in 0..(Area - 1) : k # At(tty) => u.cell[Place(k)] = tty.cell[Place(k)]
    BY <2>1, CharEchoed
  <2> HIDE DEF u
  <2>3. At(tty) = (start + n) % Area /\ \A k \in (hidden + 1)..n : tty.cell[Place(Spot(k))] = line[k]
    BY <2>1 DEF Echoed
  <2>4. At(tty') = (start' + Len(line')) % Area
    <3>1. PICK a \in Nat : a = start + n
      BY <1>4
    <3>2. (a + 1) % Area = IF (a % Area) + 1 = Area THEN 0 ELSE (a % Area) + 1
      BY AreaIs, ModNext
    <3>3. start' + Len(line') = a + 1
      BY <1>1, <1>4, <1>5, <3>1
    <3> QED BY <1>1, <2>2, <2>3, <3>1, <3>2, <3>3 DEF At
  <2>5. ASSUME NEW k \in (hidden' + 1)..(n + 1) PROVE tty'.cell[Place(Spot(k)')] = line'[k]
    <3>1. Spot(k)' = (start + k - 1) % Area /\ start + k - 1 \in Nat
      BY <1>1, <1>4, <1>6 DEF Spot, Area
    <3>2. CASE k = n + 1
      <4>1. start + k - 1 = start + n
        BY <1>4, <3>2
      <4> QED BY <1>1, <1>5, <2>2, <2>3, <3>1, <3>2, <4>1
    <3>3. CASE k # n + 1
      <4>1. k \in 1..n /\ k \in (hidden + 1)..n /\ Spot(k) = (start + k - 1) % Area
        <5>1. PICK h \in Nat, g \in Nat, m \in Nat : h = hidden /\ g = hidden' /\ m = n
          BY <1>4, <1>6
        <5>2. h <= g /\ k \in (g + 1)..(m + 1) /\ k # m + 1
          BY <1>6, <3>3, <5>1
        <5>3. k \in 1..m /\ k \in (h + 1)..m
          BY <5>2
        <5> QED BY <5>1, <5>3 DEF Spot
      <4>2. PICK a \in Nat, b \in Nat : a = start + k - 1 /\ b = start + n
        <5>1. start + n \in Nat
          BY <1>4
        <5> QED BY <3>1, <5>1
      <4>3. a < b /\ b < a + Area
        <5>1. PICK g \in Nat, m \in Nat, w \in Nat, x \in Nat : g = hidden' /\ m = n /\ w = Area /\ x = start
          BY <1>4, <1>6, AreaIs
        <5>2. m + 1 <= g + w /\ k \in (g + 1)..(m + 1) /\ k # m + 1 /\ a = x + k - 1 /\ b = x + m
          BY <1>6, <3>3, <4>2, <5>1
        <5>3. a < b /\ b < a + w
          BY <5>2
        <5> QED BY <5>1, <5>3
      <4>4. a % Area # b % Area /\ a % Area \in 0..(Area - 1)
        BY <4>3, AreaIs, ModApart, DivMod
      <4>5. u.cell[Place(a % Area)] = tty.cell[Place(a % Area)]
        BY <2>2, <2>3, <4>2, <4>4
      <4> QED BY <1>1, <1>5, <2>3, <3>1, <4>1, <4>2, <4>5
    <3> QED BY <3>2, <3>3
  <2> QED BY <1>5, <2>4, <2>5 DEF Echoed
<1> HIDE DEF u
<1> QED BY <1>1, <1>3, <1>7, <1>8, <1>9 DEF ConInv

LEMMA InvTypeBackspace ==
  ASSUME ConInv, TypeBackspace
  PROVE  ConInv'
<1> DEFINE n == Len(line)
<1>1. /\ pc = "line" /\ pc' = pc /\ start' = start /\ full' = full /\ hidden' = hidden
  BY DEF TypeBackspace
<1>2. /\ tty \in Displays /\ (~tty.stray => tty \in Screens) /\ (~stuck /\ ~tty.stray => Echoed) /\ LineOK
  BY <1>1 DEF ConInv
<1>3. /\ command \in Seq(Chars) /\ Len(command) < LineSize /\ Len(command) \in Nat
      /\ line \in Seq(Chars) /\ n \in Nat /\ Len(command) <= n
      /\ start \in Nat /\ hidden \in Nat /\ n <= hidden + Area
      /\ full \in BOOLEAN /\ stuck \in BOOLEAN /\ (~full => line = command)
  BY <1>2 DEF LineOK
<1>4. CASE Len(command) > 0
  <2> DEFINE u == vga_putchar(tty, BS)
  <2>1. tty' = u /\ command' = Front(command) /\ line' = Front(line) /\ stuck' = (stuck \/ At(tty) = 0)
    BY <1>4 DEF TypeBackspace
  <2>2. u \in Displays /\ (tty.stray => u.stray)
    BY <1>2, PutcharAnywhere DEF Output
  <2>3. ASSUME NEW s \in Seq(Chars), Len(s) > 0
        PROVE  /\ Front(s) \in Seq(Chars) /\ Len(Front(s)) = Len(s) - 1
               /\ \A k \in 1..(Len(s) - 1) : Front(s)[k] = s[k]
    <3>1. Front(s) = SubSeq(s, 1, Len(s) - 1) /\ Len(s) - 1 \in 0..Len(s)
      BY <2>3 DEF Front
    <3>2. Front(s) \in Seq(Chars) /\ Len(Front(s)) = Len(s) - 1
      <4>1. PICK m \in 0..Len(s) : m = Len(s) - 1
        BY <3>1
      <4>2. SubSeq(s, 1, m) \in Seq(Chars) /\ Len(SubSeq(s, 1, m)) = m
        BY PartOfLine
      <4> QED BY <3>1, <4>1, <4>2
    <3>3. \A k \in 1..(Len(s) - 1) : Front(s)[k] = s[k]
      BY <3>1
    <3> QED BY <3>2, <3>3
  <2>4. /\ command' \in Seq(Chars) /\ Len(command') = Len(command) - 1
        /\ line' \in Seq(Chars) /\ Len(line') = n - 1 /\ \A k \in 1..(n - 1) : line'[k] = line[k]
    <3>1. Len(line) > 0 /\ Len(command) > 0
      BY <1>3, <1>4
    <3>2. /\ Front(command) \in Seq(Chars) /\ Len(Front(command)) = Len(command) - 1
          /\ Front(line) \in Seq(Chars) /\ Len(Front(line)) = Len(line) - 1
          /\ \A k \in 1..(Len(line) - 1) : Front(line)[k] = line[k]
      BY <1>3, <2>3, <3>1
    <3> QED BY <2>1, <3>2
  <2>5. stuck' \in BOOLEAN
    BY <2>1
  <2>6. LineOK'
    BY <1>1, <1>3, <1>4, <2>1, <2>4, <2>5 DEF LineOK, Area
  <2>7. ASSUME ~u.stray PROVE u \in Screens
    BY <1>2, <2>2, <2>7, PutcharBack
  <2>8. ASSUME ~u.stray, ~stuck' PROVE Echoed'
    <3>1. tty \in Screens /\ Echoed /\ At(tty) # 0
      BY <1>2, <2>1, <2>2, <2>8
    <3>2. At(tty) = (start + n) % Area /\ \A k \in (hidden + 1)..n : tty.cell[Place(Spot(k))] = line[k]
      BY <3>1 DEF Echoed
    <3>3. At(tty) \in 0..(Area - 1) /\ At(tty) > 0
      BY <3>1, CursorPlace, AreaIs
    <3>4. At(u) = At(tty) - 1 /\ \A k \in 0..(Area - 1) : k # At(u) => u.cell[Place(k)] = tty.cell[Place(k)]
      BY <3>1, <3>3, CharErased
    <3> HIDE DEF u
    <3>5. PICK b \in Nat : b = start + n - 1
      BY <1>3, <1>4
    <3>6. At(u) = b % Area
      <4>1. (b + 1) % Area = IF (b % Area) + 1 = Area THEN 0 ELSE (b % Area) + 1
        BY AreaIs, ModNext
      <4>2. b + 1 = start + n
        BY <1>3, <3>5
      <4>3. b % Area \in 0..(Area - 1)
        BY AreaIs, DivMod
      <4> QED BY <3>2, <3>3, <3>4, <4>1, <4>2, <4>3
    <3>7. At(tty') = (start' + Len(line')) % Area
      <4>1. start' + Len(line') = b
        BY <1>1, <1>3, <2>4, <3>5
      <4> QED BY <2>1, <3>6, <4>1 DEF At
    <3>8. ASSUME NEW k \in (hidden' + 1)..(n - 1) PROVE tty'.cell[Place(Spot(k)')] = line'[k]
      <4>1. /\ k \in 1..(n - 1) /\ k \in (hidden + 1)..n
            /\ Spot(k)' = (start + k - 1) % Area /\ Spot(k) = (start + k - 1) % Area
        BY <1>1, <1>3 DEF Spot, Area
      <4>2. PICK a \in Nat : a = start + k - 1
        BY <1>3, <4>1
      <4>3. a < b /\ b < a + Area
        <5>1. PICK g \in Nat, m \in Nat, w \in Nat, x \in Nat : g = hidden /\ m = n /\ w = Area /\ x = start
          BY <1>3, AreaIs
        <5>2. m <= g + w /\ k \in (g + 1)..m /\ k \in 1..(m - 1) /\ a = x + k - 1 /\ b = x + m - 1
          BY <1>3, <3>5, <4>1, <4>2, <5>1
        <5>3. a < b /\ b < a + w
          BY <5>2
        <5> QED BY <5>1, <5>3
      <4>4. a % Area # b % Area /\ a % Area \in 0..(Area - 1)
        BY <4>3, AreaIs, ModApart, DivMod
      <4>5. u.cell[Place(a % Area)] = tty.cell[Place(a % Area)]
        BY <3>4, <3>6, <4>4
      <4> QED BY <2>1, <2>4, <3>2, <4>1, <4>2, <4>5
    <3> QED BY <2>4, <3>7, <3>8 DEF Echoed
  <2> HIDE DEF u
  <2> QED BY <1>1, <2>1, <2>2, <2>6, <2>7, <2>8 DEF ConInv
<1>5. CASE ~(Len(command) > 0)
  <2>1. UNCHANGED <<tty, command, line, stuck>>
    BY <1>5 DEF TypeBackspace
  <2> QED BY <1>1, <2>1 DEF ConInv, LineOK, Echoed, Spot, At, Area
<1> QED BY <1>4, <1>5

LEMMA InvTypeEnter ==
  ASSUME ConInv, TypeEnter
  PROVE  ConInv'
<1>1. /\ tty \in Displays /\ (~tty.stray => tty \in Screens) /\ LineOK
  BY DEF ConInv, TypeEnter
<1>2. PICK u \in Displays : /\ u = vga_putchar(tty, NL) /\ (~u.stray => u \in Screens)
  <2>1. vga_putchar(tty, NL) \in Displays /\ (tty.stray => vga_putchar(tty, NL).stray)
    BY <1>1, PutcharAnywhere DEF Output
  <2>2. tty \in Screens => vga_putchar(tty, NL) \in Screens
    BY PutcharOnScreen DEF Output
  <2> QED BY <1>1, <2>1, <2>2
<1>3. CASE command = <<>>
  BY <1>2, <1>3, PromptInv DEF TypeEnter
<1>4. CASE command # <<>>
  <2>1. tty' = u /\ pc' \in {"run", "clobbered"} /\ UNCHANGED <<command, start, line, full, hidden, stuck>>
    BY <1>2, <1>4 DEF TypeEnter, ghosts
  <2>2. LineOK'
    BY <1>1, <2>1 DEF LineOK, Area
  <2> QED BY <1>2, <2>1, <2>2 DEF ConInv
<1> QED BY <1>3, <1>4

LEMMA InvRunCommand ==
  ASSUME ConInv, RunCommand
  PROVE  ConInv'
<1> DEFINE a == Action(cmd_name)
<1>1. tty \in Displays /\ command \in Seq(Chars) /\ LineOK
  BY DEF ConInv, LineOK
<1>2. args \in Seq(Chars)
  <2>1. FirstSpace(command) + 1 \in Nat \ {0} /\ Len(command) \in 0..Len(command)
    BY <1>1, FirstSpaceInLine
  <2> QED BY <1>1, <2>1, PartOfLine DEF args
<1>3. /\ vga_print(tty, Append(args, NL)) \in Displays /\ vga_clear(tty) \in Displays
      /\ vga_print(tty, Message) \in Displays
  BY <1>1, <1>2, Printed, PrintAnywhere, ClearAnywhere
<1>4. a \in {"echo", "cls", "files", "program", "poweroff", "invalid"}
  BY ConsoleAssumption DEF Action
<1>5. CASE a = "echo"
  <2>1. NewPrompt(vga_print(tty, Append(args, NL)))
    BY <1>5 DEF RunCommand
  <2> QED BY <1>3, <2>1, PromptInv
<1>6. CASE a = "cls"
  <2>1. NewPrompt(vga_clear(tty))
    BY <1>6 DEF RunCommand
  <2> QED BY <1>3, <2>1, PromptInv
<1>7. CASE a \in {"files", "invalid"}
  <2>1. NewPrompt(vga_print(tty, Message))
    BY <1>7 DEF RunCommand
  <2> QED BY <1>3, <2>1, PromptInv
<1>8. ASSUME UNCHANGED <<command, ghosts>> PROVE LineOK'
  BY <1>1, <1>8 DEF LineOK, ghosts, Area
<1>9. CASE a = "program"
  <2>1. pc' = "program" /\ UNCHANGED <<tty, command, ghosts>>
    BY <1>9 DEF RunCommand
  <2> QED BY <1>1, <1>8, <2>1 DEF ConInv
<1>10. CASE a = "poweroff"
  <2>1. pc' = "halted" /\ tty' = vga_print(tty, Message) /\ UNCHANGED <<command, ghosts>>
    BY <1>10 DEF RunCommand
  <2> QED BY <1>3, <1>8, <2>1 DEF ConInv
<1> HIDE DEF a
<1> QED BY <1>4, <1>5, <1>6, <1>7, <1>9, <1>10

LEMMA InvProgramWrites ==
  ASSUME ConInv, ProgramWrites
  PROVE  ConInv'
<1>1. tty \in Displays /\ LineOK
  BY DEF ConInv
<1>2. tty' \in Displays
  <2>1. ASSUME NEW ch \in Chars \cup {NL, BS} PROVE vga_putchar(tty, ch) \in Displays
    <3>1. ch \in Output
      BY DEF Output, Glyphs
    <3> QED BY <1>1, <3>1, PutcharAnywhere
  <2>2. ASSUME NEW r \in 0..SizeMax, NEW cl \in 0..SizeMax PROVE vga_set_cursor(tty, r, cl) \in Displays
    <3>1. PICK t \in Displays : t = tty
      BY <1>1
    <3>2. vga_set_cursor(t, r, cl) = [cell |-> t.cell, row |-> r, col |-> cl, stray |-> t.stray]
      <4>1. t = [cell |-> t.cell, row |-> t.row, col |-> t.col, stray |-> t.stray]
        BY DisplayParts
      <4>2. vga_set_cursor(t, r, cl) = [t EXCEPT !.row = r, !.col = cl]
        BY DEF vga_set_cursor
      <4> QED BY <4>1, <4>2
    <3> QED BY <3>1, <3>2, DisplayParts DEF Displays
  <2>3. vga_clear(tty) \in Displays
    BY <1>1, ClearAnywhere
  <2> QED BY <2>1, <2>2, <2>3 DEF ProgramWrites
<1>3. pc' = "program" /\ UNCHANGED <<command, ghosts>>
  BY DEF ProgramWrites
<1>4. LineOK'
  BY <1>1, <1>3 DEF LineOK, ghosts, Area
<1> QED BY <1>2, <1>3, <1>4 DEF ConInv

LEMMA InvProgramEnds ==
  ASSUME ConInv, ProgramEnds
  PROVE  ConInv'
BY PromptInv DEF ConInv, ProgramEnds

LEMMA InvStrayFault ==
  ASSUME ConInv, StrayFault
  PROVE  ConInv'
<1>1. pc' = "halted" /\ tty' = tty /\ UNCHANGED <<command, ghosts>> /\ tty \in Displays /\ LineOK
  BY DEF StrayFault, ConInv
<1>2. LineOK'
  BY <1>1 DEF LineOK, ghosts, Area
<1> QED BY <1>1, <1>2 DEF ConInv

LEMMA InvNext == ConInv /\ [Next]_vars => ConInv'
<1> SUFFICES ASSUME ConInv, [Next]_vars PROVE ConInv'
  OBVIOUS
<1>1. CASE UNCHANGED vars
  <2>1. UNCHANGED <<tty, pc, command, start, line, full, hidden, stuck>>
    BY <1>1 DEF vars, ghosts
  <2>2. LineOK' <=> LineOK
    BY <2>1 DEF LineOK, Area
  <2>3. Echoed' <=> Echoed
    BY <2>1 DEF Echoed, Spot, At, Area
  <2> QED BY <2>1, <2>2, <2>3 DEF ConInv
<1>2. ASSUME NEW ch \in Chars, TypeChar(ch) PROVE ConInv'
  BY <1>2, InvTypeChar
<1>3. CASE TypeBackspace
  BY <1>3, InvTypeBackspace
<1>4. CASE TypeEnter
  BY <1>4, InvTypeEnter
<1>5. CASE RunCommand
  BY <1>5, InvRunCommand
<1>6. CASE ProgramWrites
  BY <1>6, InvProgramWrites
<1>7. CASE ProgramEnds
  BY <1>7, InvProgramEnds
<1>8. CASE StrayFault
  BY <1>8, InvStrayFault
<1> QED BY <1>1, <1>2, <1>3, <1>4, <1>5, <1>6, <1>7, <1>8 DEF Next

\* In every reachable state.
LEMMA ConAlways == Spec => []ConInv
BY InvInit, InvNext, PTL DEF Spec

-----------------------------------------------------------------------------
(* The theorems. *)

LEMMA InvEcho == ConInv => EchoMatchesCommand
<1> SUFFICES ASSUME ConInv PROVE EchoMatchesCommand
  OBVIOUS
<1>1. /\ tty.cell \in [Grid -> Glyphs] /\ tty.row \in 0..SizeMax /\ tty.col \in 0..SizeMax /\ tty.stray \in BOOLEAN
  BY DisplayParts DEF ConInv
<1>2. pc \in {"line", "run"} /\ ~tty.stray => OnScreen(tty)
  BY ScreenParts DEF ConInv
<1>3. TypeOK
  BY <1>1, <1>2 DEF TypeOK, Glyphs, ConInv, LineOK
<1>4. Echoed => /\ At(tty) = (start + Len(line)) % Area
                /\ \A k \in (hidden + 1)..Len(line) : CellAt((start + k - 1) % Area) = line[k]
  BY DEF Echoed, CellAt, Place, Spot
<1> QED BY <1>3, <1>4 DEF ConInv, LineOK, EchoMatchesCommand

\* The shell stores inside the framebuffer, and while a line is typed the
\* screen shows between the prompt and the cursor the line that was typed and
\* that Enter will run, on a screen of any size, after any prompt and wherever
\* programs put the cursor, unless a character was stored off the screen: the
\* invariant that EchoMatchesCommand states.
THEOREM ConsoleEchoes == Spec => []EchoMatchesCommand
BY ConAlways, InvEcho, PTL

\* A name too long for its array is the name of no command, cut or not.
LEMMA InvRuns == ConInv => RunsWhatWasTyped
<1> SUFFICES ASSUME ConInv, pc = "run", ~full
             PROVE  Action(cmd_name) = Action(SubSeq(line, 1, FirstSpace(line) - 1))
  BY DEF RunsWhatWasTyped
<1>1. line = command /\ command \in Seq(Chars)
  BY DEF ConInv, LineOK
<1> DEFINE n == FirstSpace(command) - 1
<1>2. n \in 0..Len(command)
  BY <1>1, FirstSpaceInLine
<1>3. cmd_name = SubSeq(command, 1, IF n < NameSize - 1 THEN n ELSE NameSize - 1)
  BY DEF cmd_name
<1>4. Action(SubSeq(line, 1, FirstSpace(line) - 1)) = Action(SubSeq(command, 1, n))
  BY <1>1
<1> HIDE DEF n
<1>5. CASE n < NameSize - 1
  BY <1>3, <1>4, <1>5
<1>6. CASE ~(n < NameSize - 1)
  <2>1. NameSize - 1 \in 0..Len(command)
    BY <1>2, <1>6
  <2>2. Len(SubSeq(command, 1, n)) = n /\ Len(SubSeq(command, 1, NameSize - 1)) = NameSize - 1
    BY <1>1, <1>2, <2>1, PartOfLine
  <2>3. cmd_name = SubSeq(command, 1, NameSize - 1)
    BY <1>3, <1>6
  <2>4. \A c \in DOMAIN Commands : Len(c) < NameSize - 1
    BY ConsoleAssumption
  <2>5. cmd_name \notin DOMAIN Commands
    <3>1. ~(Len(cmd_name) < NameSize - 1)
      BY <2>2, <2>3
    <3> QED BY <2>4, <3>1
  <2>6. SubSeq(command, 1, n) \notin DOMAIN Commands
    BY <1>6, <2>2, <2>4
  <2> QED BY <1>4, <2>5, <2>6 DEF Action
<1> QED BY <1>5, <1>6

\* The command that runs is the one whose whole name was typed, whatever the
\* size of the arrays: the invariant that RunsWhatWasTyped states.
THEOREM ConsoleRunsWhatWasTyped == Spec => []RunsWhatWasTyped
BY ConAlways, InvRuns, PTL
=============================================================================
