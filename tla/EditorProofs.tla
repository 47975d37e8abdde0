---------------------------- MODULE EditorProofs ----------------------------
(***************************************************************************)
(* Proofs about Editor.tla, for every file, every size of the buffer and   *)
(* any number of sessions: the text and the cursor stay in the buffer, the *)
(* arrows find the line above and below, and what the user sees is         *)
(* TextEditor.                                                             *)
(***************************************************************************)
EXTENDS Editor, FiniteSetTheorems, SequenceTheorems, NaturalsInduction, TLAPS

Bytes == Chars \cup {NUL}
Contents == Seq(Bytes) \cup {Absent}

-----------------------------------------------------------------------------
(* The invariant. *)

\* While the editor runs: the text lies in the buffer with room for a zero,
\* the cursor in the text, and the screen shows both.
Running ==
  /\ edit_buffer_max \in Nat /\ edit_buffer_max <= PoolSize
  /\ edit_buffer \in [0..(edit_buffer_max - 1) -> Bytes]
  /\ buffer_len \in Nat /\ buffer_len < edit_buffer_max
  /\ cursor_pos \in 0..buffer_len

Painted == screen = View(edit_buffer, buffer_len, cursor_pos, is_insert_mode, last_cmd_key)

EditInv ==
  /\ pc \in {"shell", "loop"}
  /\ files \in [Names -> Contents] /\ target \in Names
  /\ is_insert_mode \in BOOLEAN /\ last_cmd_key \in Keys \cup {NoKey}
  /\ pc = "shell" => target = "given" /\ edit_buffer_max = 0 /\ buffer_len = 0 /\ cursor_pos = 0
  /\ pc = "loop" => Running /\ Painted

-----------------------------------------------------------------------------
(* Least and greatest elements. *)

\* Min of a set with a least element is that element.
LEMMA MinIs ==
  ASSUME NEW S, NEW x \in S, \A y \in S : y \in Int /\ x <= y
  PROVE  Min(S) = x
<1>1. \A z \in S : (\A y \in S : z <= y) => z = x
  OBVIOUS
<1>2. \A y \in S : x <= y
  OBVIOUS
<1>3. \E z \in S : \A y \in S : z <= y
  BY <1>2
<1>4. Min(S) \in S /\ \A y \in S : Min(S) <= y
  BY <1>3 DEF Min
<1> QED BY <1>1, <1>4

\* Max of a set with a greatest element is that element.
LEMMA MaxIs ==
  ASSUME NEW S, NEW x \in S, \A y \in S : y \in Int /\ x >= y
  PROVE  Max(S) = x
<1>1. \A z \in S : (\A y \in S : z >= y) => z = x
  OBVIOUS
<1>2. \A y \in S : x >= y
  OBVIOUS
<1>3. \E z \in S : \A y \in S : z >= y
  BY <1>2
<1>4. Max(S) \in S /\ \A y \in S : Max(S) >= y
  BY <1>3 DEF Max
<1> QED BY <1>1, <1>4

\* Of two numbers.
LEMMA MinOfTwo ==
  ASSUME NEW x \in Int, NEW y \in Int
  PROVE  Min({x, y}) = IF x <= y THEN x ELSE y
<1>1. CASE x <= y
  <2>1. x \in {x, y} /\ \A z \in {x, y} : z \in Int /\ x <= z
    BY <1>1
  <2>2. Min({x, y}) = x
    BY <2>1, MinIs
  <2> QED BY <1>1, <2>2
<1>2. CASE ~(x <= y)
  <2>1. y \in {x, y} /\ \A z \in {x, y} : z \in Int /\ y <= z
    BY <1>2
  <2>2. Min({x, y}) = y
    BY <2>1, MinIs
  <2> QED BY <1>2, <2>2
<1> QED BY <1>1, <1>2

\* A non-empty set of natural numbers has a least one.
LEMMA LeastNumber ==
  ASSUME NEW T \in SUBSET Nat, T # {}
  PROVE  \E x \in T : \A y \in T : x <= y
<1> DEFINE R == {ss \in Nat \X Nat : ss[1] < ss[2]}
<1>1. IsWellFoundedOn(R, Nat)
  BY NatLessThanWellFounded DEF OpToRel
<1>2. \A a, b \in Nat : <<a, b>> \in R <=> a < b
  OBVIOUS
<1> HIDE DEF R
<1>3. PICK x \in T : \A y \in T : ~ (<<y, x>> \in R)
  BY <1>1, WFMin
<1>4. ASSUME NEW y \in T PROVE x <= y
  <2>1. x \in Nat /\ y \in Nat
    OBVIOUS
  <2>2. ~(y < x)
    BY <1>2, <1>3, <2>1
  <2> QED BY <2>1, <2>2
<1> QED BY <1>4

\* A set of integers with a lower bound has a least one, ...
LEMMA MinExists ==
  ASSUME NEW lo \in Int, NEW S, S # {}, \A y \in S : y \in Int /\ lo <= y
  PROVE  Min(S) \in S /\ \A y \in S : Min(S) <= y
<1> DEFINE T == {d \in Nat : lo + d \in S}
<1>1. T \in SUBSET Nat /\ T # {}
  <2>1. PICK y \in S : TRUE
    OBVIOUS
  <2>2. lo + (y - lo) = y /\ y - lo \in Nat
    OBVIOUS
  <2>3. y - lo \in T
    BY <2>2
  <2> QED BY <2>3
<1>2. PICK d \in T : \A e \in T : d <= e
  BY <1>1, LeastNumber
<1>3. lo + d \in S
  OBVIOUS
<1>4. ASSUME NEW y \in S PROVE y \in Int /\ lo + d <= y
  <2>1. y \in Int /\ y - lo \in Nat /\ lo + (y - lo) = y
    OBVIOUS
  <2>2. y - lo \in T
    BY <2>1
  <2>3. d <= y - lo /\ d \in Nat
    BY <1>2, <2>2
  <2> QED BY <2>1, <2>3
<1>5. Min(S) = lo + d
  BY <1>3, <1>4, MinIs
<1> QED BY <1>3, <1>4, <1>5

\* ... and one with an upper bound a greatest.
LEMMA MaxExists ==
  ASSUME NEW hi \in Int, NEW S, S # {}, \A y \in S : y \in Int /\ y <= hi
  PROVE  Max(S) \in S /\ \A y \in S : y <= Max(S)
<1> DEFINE T == {d \in Nat : hi - d \in S}
<1>1. T \in SUBSET Nat /\ T # {}
  <2>1. PICK y \in S : TRUE
    OBVIOUS
  <2>2. hi - (hi - y) = y /\ hi - y \in Nat
    OBVIOUS
  <2>3. hi - y \in T
    BY <2>2
  <2> QED BY <2>3
<1>2. PICK d \in T : \A e \in T : d <= e
  BY <1>1, LeastNumber
<1>3. hi - d \in S
  OBVIOUS
<1>4. ASSUME NEW y \in S PROVE y \in Int /\ hi - d >= y
  <2>1. y \in Int /\ hi - y \in Nat /\ hi - (hi - y) = y
    OBVIOUS
  <2>2. hi - y \in T
    BY <2>1
  <2>3. d <= hi - y /\ d \in Nat
    BY <1>2, <2>2
  <2> QED BY <2>1, <2>3
<1>5. Max(S) = hi - d
  BY <1>3, <1>4, MaxIs
<1> QED BY <1>3, <1>4, <1>5

-----------------------------------------------------------------------------
(* Lines.  The positions a .. z are a line of the text.                    *)

NoNewline(a, z) == \A k \in Nat : a <= k /\ k < z => edit_buffer[k] # NL

\* Scanning back from p stops behind the newline before it.
LEMMA BeforeIs ==
  ASSUME Running, NEW p \in 0..buffer_len
  PROVE  /\ Before(p) \in Int /\ -1 <= Before(p) /\ Before(p) < p
         /\ Before(p) # -1 => edit_buffer[Before(p)] = NL
         /\ NoNewline(Before(p) + 1, p)
<1> DEFINE S == {-1} \cup {k \in 0..(p - 1) : edit_buffer[k] = NL}
<1>1. p \in Nat /\ p - 1 \in Int /\ -1 \in Int /\ -1 <= p - 1
  BY DEF Running
<1>2. \A y \in S : y \in Int /\ y <= p - 1
  BY <1>1
<1>3. -1 \in S
  OBVIOUS
<1> HIDE DEF S
<1>4. Max(S) \in S /\ \A y \in S : y <= Max(S)
  BY <1>1, <1>2, <1>3, MaxExists
<1>5. Before(p) = Max(S)
  BY DEF Before, S
<1>6. PICK n : n = Before(p)
  OBVIOUS
<1>7. n \in S /\ \A y \in S : y <= n
  BY <1>4, <1>5, <1>6
<1>8. n \in Int /\ -1 <= n /\ n < p
  BY <1>1, <1>2, <1>3, <1>7
<1>9. n # -1 => edit_buffer[n] = NL
  BY <1>7 DEF S
<1>10. ASSUME NEW k \in Nat, n + 1 <= k, k < p PROVE edit_buffer[k] # NL
  <2>1. k \in 0..(p - 1) /\ ~(k <= n)
    BY <1>1, <1>8, <1>10
  <2> QED BY <1>7, <2>1 DEF S
<1> QED BY <1>6, <1>8, <1>9, <1>10 DEF NoNewline

\* Scanning forward from p stops at the newline that ends its line.
LEMMA EndIs ==
  ASSUME Running, NEW p \in 0..buffer_len
  PROVE  /\ EndOfLine(p) \in Nat /\ p <= EndOfLine(p) /\ EndOfLine(p) <= buffer_len
         /\ EndOfLine(p) # buffer_len => edit_buffer[EndOfLine(p)] = NL
         /\ NoNewline(p, EndOfLine(p))
<1> DEFINE S == {buffer_len} \cup {k \in p..(buffer_len - 1) : edit_buffer[k] = NL}
<1>1. p \in Nat /\ p \in Int /\ buffer_len \in Nat /\ p <= buffer_len
  BY DEF Running
<1>2. \A y \in S : y \in Int /\ p <= y
  BY <1>1
<1>3. buffer_len \in S
  OBVIOUS
<1> HIDE DEF S
<1>4. Min(S) \in S /\ \A y \in S : Min(S) <= y
  BY <1>1, <1>2, <1>3, MinExists
<1>5. EndOfLine(p) = Min(S)
  BY DEF EndOfLine, S
<1>6. PICK n : n = EndOfLine(p)
  OBVIOUS
<1>7. n \in S /\ \A y \in S : n <= y
  BY <1>4, <1>5, <1>6
<1>8. n \in Nat /\ p <= n /\ n <= buffer_len
  BY <1>1, <1>2, <1>3, <1>7
<1>9. n # buffer_len => edit_buffer[n] = NL
  BY <1>7 DEF S
<1>10. ASSUME NEW k \in Nat, p <= k, k < n PROVE edit_buffer[k] # NL
  <2>1. k \in p..(buffer_len - 1) /\ ~(n <= k)
    BY <1>1, <1>8, <1>10
  <2> QED BY <1>7, <2>1 DEF S
<1> QED BY <1>6, <1>8, <1>9, <1>10 DEF NoNewline

\* The newlines before a position; LineOf counts them.
Newlines(p) == {k \in 1..p : Text[k] = NL}

LEMMA NewlinesAre ==
  ASSUME Running, NEW p \in 0..buffer_len
  PROVE  /\ \A k : k \in Newlines(p) <=> k \in 1..p /\ edit_buffer[k - 1] = NL
         /\ IsFiniteSet(Newlines(p)) /\ LineOf(p) = Cardinality(Newlines(p)) /\ LineOf(p) \in Nat
<1>1. p \in Nat /\ buffer_len \in Nat /\ p <= buffer_len
  BY DEF Running
<1>2. \A k \in 1..p : Text[k] = edit_buffer[k - 1]
  BY <1>1 DEF Text
<1>3. \A k : k \in Newlines(p) <=> k \in 1..p /\ edit_buffer[k - 1] = NL
  BY <1>2 DEF Newlines
<1>4. IsFiniteSet(1..p)
  BY <1>1, FS_Interval
<1>5. Newlines(p) \in SUBSET (1..p)
  BY DEF Newlines
<1>6. IsFiniteSet(Newlines(p))
  BY <1>4, <1>5, FS_Subset
<1>7. LineOf(p) = Cardinality(Newlines(p))
  BY DEF LineOf, Newlines
<1>8. LineOf(p) \in Nat
  BY <1>6, <1>7, FS_CardinalityType
<1> QED BY <1>3, <1>6, <1>7, <1>8

\* Further down the text the line is the same, or a later one if there is a
\* newline in between.
LEMMA LinesGrow ==
  ASSUME Running, NEW p \in 0..buffer_len, NEW q \in 0..buffer_len, p <= q
  PROVE  LineOf(p) <= LineOf(q) /\ (LineOf(p) = LineOf(q) <=> NoNewline(p, q))
<1>1. p \in Nat /\ q \in Nat
  BY DEF Running
<1>2. /\ \A k : k \in Newlines(p) <=> k \in 1..p /\ edit_buffer[k - 1] = NL
      /\ IsFiniteSet(Newlines(p)) /\ LineOf(p) = Cardinality(Newlines(p))
  BY NewlinesAre
<1>3. /\ \A k : k \in Newlines(q) <=> k \in 1..q /\ edit_buffer[k - 1] = NL
      /\ IsFiniteSet(Newlines(q)) /\ LineOf(q) = Cardinality(Newlines(q))
  BY NewlinesAre
<1>4. Newlines(p) \in SUBSET Newlines(q)
  BY <1>1, <1>2, <1>3
<1>5. LineOf(p) <= LineOf(q) /\ (LineOf(q) = LineOf(p) => Newlines(q) = Newlines(p))
  BY <1>2, <1>3, <1>4, FS_Subset
<1>6. ASSUME Newlines(p) = Newlines(q) PROVE NoNewline(p, q)
  <2>1. ASSUME NEW k \in Nat, p <= k, k < q, edit_buffer[k] = NL PROVE FALSE
    <3>1. k + 1 \in 1..q /\ (k + 1) - 1 = k /\ ~(k + 1 \in 1..p)
      BY <1>1, <2>1
    <3> QED BY <1>2, <1>3, <1>6, <2>1, <3>1
  <2> QED BY <2>1 DEF NoNewline
<1>7. ASSUME NoNewline(p, q) PROVE Newlines(p) = Newlines(q)
  <2>1. ASSUME NEW k, k \in Newlines(q) PROVE k \in Newlines(p)
    <3>1. k \in 1..q /\ edit_buffer[k - 1] = NL
      BY <1>3, <2>1
    <3>2. k - 1 \in Nat /\ k - 1 < q
      BY <1>1, <3>1
    <3>3. ~(p <= k - 1)
      BY <1>7, <3>1, <3>2 DEF NoNewline
    <3> QED BY <1>1, <1>2, <3>1, <3>3
  <2> QED BY <1>4, <2>1
<1> QED BY <1>2, <1>3, <1>5, <1>6, <1>7

\* Behind a newline begins the next line.
LEMMA NextLine ==
  ASSUME Running, NEW p \in 0..buffer_len, p < buffer_len, edit_buffer[p] = NL
  PROVE  LineOf(p + 1) = LineOf(p) + 1
<1>1. p \in Nat /\ p + 1 \in 0..buffer_len /\ buffer_len \in Nat
  BY DEF Running
<1>2. /\ \A k : k \in Newlines(p) <=> k \in 1..p /\ edit_buffer[k - 1] = NL
      /\ IsFiniteSet(Newlines(p)) /\ LineOf(p) = Cardinality(Newlines(p))
  BY NewlinesAre
<1>3. /\ \A k : k \in Newlines(p + 1) <=> k \in 1..(p + 1) /\ edit_buffer[k - 1] = NL
      /\ LineOf(p + 1) = Cardinality(Newlines(p + 1))
  BY <1>1, NewlinesAre
<1>4. p + 1 \notin Newlines(p) /\ (p + 1) - 1 = p
  BY <1>1, <1>2
<1>5. \A k : k \in Newlines(p + 1) <=> k \in Newlines(p) \cup {p + 1}
  BY <1>1, <1>2, <1>3, <1>4
<1>6. Newlines(p + 1) = Newlines(p) \cup {p + 1}
  BY <1>5
<1>7. Cardinality(Newlines(p) \cup {p + 1}) = Cardinality(Newlines(p)) + 1
  BY <1>2, <1>4, FS_AddElement
<1> QED BY <1>2, <1>3, <1>6, <1>7

IsLine(a, z) ==
  /\ a \in Nat /\ z \in Nat /\ a <= z /\ z <= buffer_len
  /\ a = 0 \/ edit_buffer[a - 1] = NL
  /\ z = buffer_len \/ edit_buffer[z] = NL
  /\ NoNewline(a, z)

\* The line of a position between two newlines begins and ends there.
LEMMA LineIs ==
  ASSUME Running, NEW a, NEW z, IsLine(a, z), NEW p \in Nat, a <= p, p <= z
  PROVE  StartOf(LineOf(p)) = a /\ LengthOf(LineOf(p)) = z - a /\ ColumnOf(p) = p - a
<1>1. /\ a \in Nat /\ z \in Nat /\ a <= z /\ z <= buffer_len /\ buffer_len \in Nat
      /\ a \in 0..buffer_len /\ z \in 0..buffer_len /\ p \in 0..buffer_len
  BY DEF IsLine, Running
<1>2. \A q \in 0..buffer_len : LineOf(q) \in Nat
  BY NewlinesAre
<1>3. ASSUME NEW q \in 0..buffer_len, a <= q, q <= z PROVE LineOf(q) = LineOf(a)
  <2>1. NoNewline(a, q) /\ q \in Nat
    BY <1>1, <1>3 DEF IsLine, NoNewline
  <2> QED BY <1>1, <1>3, <2>1, LinesGrow
<1>4. ASSUME NEW q \in 0..buffer_len, q < a PROVE LineOf(q) # LineOf(a)
  <2>1. a - 1 \in Nat /\ q <= a - 1 /\ a - 1 < a /\ edit_buffer[a - 1] = NL /\ q \in Nat
    BY <1>1, <1>4 DEF IsLine
  <2>2. ~NoNewline(q, a)
    BY <2>1 DEF NoNewline
  <2>3. q <= a
    BY <1>1, <1>4, <2>1
  <2> QED BY <1>1, <2>2, <2>3, LinesGrow
<1>5. ASSUME NEW q \in 0..buffer_len, z < q PROVE LineOf(q) # LineOf(a)
  <2>1. edit_buffer[z] = NL /\ q \in Nat /\ a <= q
    BY <1>1, <1>5 DEF IsLine
  <2>2. ~NoNewline(a, q)
    BY <1>1, <1>5, <2>1 DEF NoNewline
  <2> QED BY <1>1, <2>1, <2>2, LinesGrow
<1> DEFINE S == {q \in 0..buffer_len : LineOf(q) = LineOf(p)}
<1>6. LineOf(p) = LineOf(a)
  BY <1>1, <1>3
<1>7. \A q : q \in S <=> q \in Nat /\ a <= q /\ q <= z
  BY <1>1, <1>3, <1>4, <1>5, <1>6
<1>8. StartOf(LineOf(p)) = Min(S) /\ LengthOf(LineOf(p)) = Max(S) - StartOf(LineOf(p))
  BY DEF StartOf, LengthOf
<1> HIDE DEF S
<1>9. Min(S) = a
  <2>1. a \in S /\ \A y \in S : y \in Int /\ a <= y
    BY <1>1, <1>7
  <2> QED BY <2>1, MinIs
<1>10. Max(S) = z
  <2>1. z \in S /\ \A y \in S : y \in Int /\ z >= y
    BY <1>1, <1>7
  <2> QED BY <2>1, MaxIs
<1>11. ColumnOf(p) = p - StartOf(LineOf(p))
  BY DEF ColumnOf
<1> QED BY <1>8, <1>9, <1>10, <1>11

\* The scans from a position find the line that it is in.
LEMMA LineAround ==
  ASSUME Running, NEW p \in 0..buffer_len
  PROVE  IsLine(Before(p) + 1, EndOfLine(p)) /\ Before(p) + 1 <= p /\ p <= EndOfLine(p) /\ p \in Nat
<1>1. p \in Nat /\ buffer_len \in Nat
  BY DEF Running
<1>2. PICK b : b = Before(p)
  OBVIOUS
<1>3. PICK e : e = EndOfLine(p)
  OBVIOUS
<1>4. b \in Int /\ -1 <= b /\ b < p /\ (b # -1 => edit_buffer[b] = NL) /\ NoNewline(b + 1, p)
  BY <1>2, BeforeIs
<1>5. e \in Nat /\ p <= e /\ e <= buffer_len /\ (e # buffer_len => edit_buffer[e] = NL) /\ NoNewline(p, e)
  BY <1>3, EndIs
<1>6. NoNewline(b + 1, e)
  BY <1>1, <1>4, <1>5 DEF NoNewline
<1>7. b + 1 \in Nat /\ b + 1 <= p /\ (b + 1) - 1 = b /\ b + 1 <= e
  BY <1>1, <1>4, <1>5
<1>8. b + 1 = 0 \/ edit_buffer[(b + 1) - 1] = NL
  BY <1>4, <1>7
<1> QED BY <1>1, <1>2, <1>3, <1>5, <1>6, <1>7, <1>8 DEF IsLine

\* There is no line above the first.
LEMMA FirstLine == ASSUME Running PROVE 0 \in 0..buffer_len /\ LineOf(0) = 0
<1>1. 0 \in 0..buffer_len
  BY DEF Running
<1>2. /\ \A k : k \in Newlines(0) <=> k \in 1..0 /\ edit_buffer[k - 1] = NL
      /\ LineOf(0) = Cardinality(Newlines(0))
  BY <1>1, NewlinesAre
<1>3. Newlines(0) = {}
  BY <1>2
<1> QED BY <1>1, <1>2, <1>3, FS_EmptySet

\* Up stays on the first line, and goes to the line above from any other.
LEMMA UpIs ==
  ASSUME Running
  PROVE  /\ Up \in 0..buffer_len
         /\ Up = IF LineOf(cursor_pos) = 0 THEN cursor_pos ELSE InLine(LineOf(cursor_pos) - 1)
<1>1. cursor_pos \in 0..buffer_len /\ cursor_pos \in Nat /\ buffer_len \in Nat /\ cursor_pos <= buffer_len
  BY DEF Running
<1>2. PICK c : c = cursor_pos
  OBVIOUS
<1>3. PICK p : p = Before(c)
  OBVIOUS
<1>4. p \in Int /\ -1 <= p /\ p < c /\ (p # -1 => edit_buffer[p] = NL) /\ NoNewline(p + 1, c) /\ c \in Nat
      /\ c \in 0..buffer_len
  BY <1>1, <1>2, <1>3, BeforeIs
<1>5. Column = (c - 1) - p
  BY <1>2, <1>3 DEF Column
<1>6. \A q \in 0..buffer_len : LineOf(q) \in Nat
  BY NewlinesAre
<1>7. CASE p = -1
  <2>1. Up = c
    BY <1>2, <1>3, <1>7 DEF Up
  <2>2. NoNewline(0, c)
    BY <1>4, <1>7
  <2>3. LineOf(c) = 0
    BY <1>4, <2>2, FirstLine, LinesGrow
  <2> QED BY <1>1, <1>2, <2>1, <2>3
<1>8. CASE p # -1
  <2>1. p \in Nat /\ p \in 0..buffer_len /\ p < buffer_len /\ edit_buffer[p] = NL
        /\ p + 1 \in 0..buffer_len /\ p + 1 <= c
    BY <1>1, <1>2, <1>4, <1>8
  <2>2. LineOf(p + 1) = LineOf(p) + 1
    BY <2>1, NextLine
  <2>3. LineOf(p + 1) = LineOf(c)
    BY <1>4, <2>1, LinesGrow
  <2>4. LineOf(p) \in Nat /\ LineOf(c) = LineOf(p) + 1
    BY <1>6, <2>1, <2>2, <2>3
  <2>5. PICK a : a = Before(p) + 1
    OBVIOUS
  <2>6. IsLine(a, p) /\ a <= p /\ a \in Nat
    <3>1. PICK b : b = Before(p)
      OBVIOUS
    <3>2. b \in Int /\ -1 <= b /\ b < p /\ (b # -1 => edit_buffer[b] = NL) /\ NoNewline(b + 1, p)
      BY <2>1, <3>1, BeforeIs
    <3>3. a = b + 1 /\ a \in Nat /\ a <= p /\ a - 1 = b
      BY <2>1, <2>5, <3>1, <3>2
    <3>4. a = 0 \/ edit_buffer[a - 1] = NL
      BY <3>2, <3>3
    <3> QED BY <2>1, <3>2, <3>3, <3>4 DEF IsLine
  <2>7. StartOf(LineOf(p)) = a /\ LengthOf(LineOf(p)) = p - a
    BY <2>1, <2>6, LineIs
  <2>8. ColumnOf(c) = c - (p + 1)
    <3>1. PICK e : e = EndOfLine(c)
      OBVIOUS
    <3>2. IsLine(p + 1, e) /\ p + 1 <= c /\ c <= e /\ c \in Nat
      BY <1>3, <1>4, <3>1, LineAround
    <3> QED BY <3>2, LineIs
  <2>9. PICK col : col = c - (p + 1)
    OBVIOUS
  <2>10. col \in Nat /\ ColumnOf(c) = col /\ Column = col
    BY <1>4, <1>5, <2>1, <2>8, <2>9
  <2>11. Up = Min({a + col, p})
    <3>1. ~(p < 0)
      BY <2>1
    <3> QED BY <1>2, <1>3, <2>5, <2>10, <3>1 DEF Up
  <2>12. LineOf(c) - 1 = LineOf(p)
    BY <2>4
  <2>13. InLine(LineOf(c) - 1) = a + Min({col, p - a})
    BY <1>2, <2>7, <2>10, <2>12 DEF InLine
  <2>14. /\ Min({a + col, p}) = IF a + col <= p THEN a + col ELSE p
         /\ Min({col, p - a}) = IF col <= p - a THEN col ELSE p - a
    <3>1. a + col \in Int /\ p \in Int /\ col \in Int /\ p - a \in Int
      BY <2>1, <2>6, <2>10
    <3> QED BY <3>1, MinOfTwo
  <2>15. Up = InLine(LineOf(c) - 1) /\ Up \in 0..buffer_len
    BY <1>1, <2>1, <2>6, <2>10, <2>11, <2>13, <2>14
  <2> QED BY <1>2, <2>4, <2>15
<1> QED BY <1>7, <1>8

\* Down stays on the last line, and goes to the line below from any other.
LEMMA DownIs ==
  ASSUME Running
  PROVE  /\ Down \in 0..buffer_len
         /\ Down = IF LineOf(cursor_pos) = LineOf(buffer_len) THEN cursor_pos
                   ELSE InLine(LineOf(cursor_pos) + 1)
<1>1. /\ cursor_pos \in 0..buffer_len /\ cursor_pos \in Nat /\ buffer_len \in Nat /\ cursor_pos <= buffer_len
      /\ buffer_len \in 0..buffer_len
  BY DEF Running
<1>2. PICK c : c = cursor_pos
  OBVIOUS
<1>3. PICK e : e = EndOfLine(c)
  OBVIOUS
<1>4. /\ e \in Nat /\ c <= e /\ e <= buffer_len /\ (e # buffer_len => edit_buffer[e] = NL) /\ NoNewline(c, e)
      /\ c \in Nat /\ c \in 0..buffer_len /\ e \in 0..buffer_len
  BY <1>1, <1>2, <1>3, EndIs
<1>5. LineOf(e) = LineOf(c)
  BY <1>4, LinesGrow
<1>6. CASE e = buffer_len
  <2>1. e + 1 > buffer_len
    BY <1>1, <1>6
  <2>2. Down = c
    BY <1>2, <1>3, <2>1 DEF Down
  <2> QED BY <1>1, <1>2, <1>5, <1>6, <2>2
<1>7. CASE e # buffer_len
  <2>1. e < buffer_len /\ e + 1 \in Nat /\ e + 1 \in 0..buffer_len /\ ~(e + 1 > buffer_len) /\ edit_buffer[e] = NL
    BY <1>1, <1>4, <1>7
  <2>2. PICK a : a = e + 1
    OBVIOUS
  <2>3. LineOf(a) = LineOf(c) + 1
    BY <1>4, <1>5, <2>1, <2>2, NextLine
  <2>4. LineOf(c) # LineOf(buffer_len)
    <3>1. ~NoNewline(c, buffer_len)
      BY <1>4, <2>1 DEF NoNewline
    <3> QED BY <1>1, <1>4, <3>1, LinesGrow
  <2>5. PICK z : z = EndOfLine(a)
    OBVIOUS
  <2>6. z \in Nat /\ a <= z /\ z <= buffer_len /\ (z # buffer_len => edit_buffer[z] = NL) /\ NoNewline(a, z)
    BY <2>1, <2>2, <2>5, EndIs
  <2>7. a - 1 = e /\ a \in Nat
    BY <1>4, <2>2
  <2>8. IsLine(a, z)
    BY <2>1, <2>6, <2>7 DEF IsLine
  <2>9. StartOf(LineOf(a)) = a /\ LengthOf(LineOf(a)) = z - a
    BY <2>6, <2>7, <2>8, LineIs
  <2>10. PICK b : b = Before(c)
    OBVIOUS
  <2>11. b \in Int /\ -1 <= b /\ b < c
    BY <1>4, <2>10, BeforeIs
  <2>12. ColumnOf(c) = c - (b + 1)
    <3>1. IsLine(b + 1, e) /\ b + 1 <= c /\ c <= e /\ c \in Nat
      BY <1>3, <1>4, <2>10, LineAround
    <3> QED BY <3>1, LineIs
  <2>13. PICK col : col = c - (b + 1)
    OBVIOUS
  <2>14. col \in Nat /\ ColumnOf(c) = col /\ Column = col
    <3>1. Column = (c - 1) - b
      BY <1>2, <2>10 DEF Column
    <3> QED BY <1>4, <2>11, <2>12, <2>13, <3>1
  <2>15. Down = Min({a + col, z})
    BY <1>2, <1>3, <2>1, <2>2, <2>5, <2>14 DEF Down
  <2>16. InLine(LineOf(c) + 1) = a + Min({col, z - a})
    BY <1>2, <2>3, <2>9, <2>14 DEF InLine
  <2>17. /\ Min({a + col, z}) = IF a + col <= z THEN a + col ELSE z
         /\ Min({col, z - a}) = IF col <= z - a THEN col ELSE z - a
    <3>1. a + col \in Int /\ z \in Int /\ col \in Int /\ z - a \in Int
      BY <2>6, <2>7, <2>14
    <3> QED BY <3>1, MinOfTwo
  <2>18. Down = InLine(LineOf(c) + 1) /\ Down \in 0..buffer_len
    BY <1>1, <2>6, <2>7, <2>14, <2>15, <2>16, <2>17
  <2> QED BY <1>2, <2>4, <2>18
<1> QED BY <1>6, <1>7

-----------------------------------------------------------------------------
(* Texts. *)

TextOf(b, n) == [k \in 1..n |-> b[k - 1]]

\* The first n bytes of a buffer are a sequence of that length.
LEMMA TextIsSeq ==
  ASSUME NEW m \in Nat, NEW n \in Nat, n <= m, NEW b \in [0..(m - 1) -> Bytes]
  PROVE  /\ TextOf(b, n) \in Seq(Bytes) /\ Len(TextOf(b, n)) = n
         /\ \A k \in 1..n : TextOf(b, n)[k] = b[k - 1]
<1>1. \A k \in 1..n : b[k - 1] \in Bytes
  OBVIOUS
<1>2. TextOf(b, n) \in [1..n -> Bytes]
  BY <1>1 DEF TextOf
<1>3. TextOf(b, n) \in Seq(Bytes)
  BY <1>2
<1>4. Len(TextOf(b, n)) = n
  BY <1>2, <1>3, LenProperties
<1> QED BY <1>3, <1>4 DEF TextOf

\* The text u is t with ch inserted behind position c, ...
Inserted(t, c, ch, u) ==
  /\ t \in Seq(Bytes) /\ u \in Seq(Bytes) /\ ch \in Bytes /\ c \in 0..Len(t) /\ Len(u) = Len(t) + 1
  /\ \A k \in 1..Len(u) : u[k] = IF k <= c THEN t[k] ELSE IF k = c + 1 THEN ch ELSE t[k - 1]

\* ... or with the character before position c deleted.
Deleted(t, c, u) ==
  /\ t \in Seq(Bytes) /\ u \in Seq(Bytes) /\ c \in 1..Len(t) /\ Len(u) = Len(t) - 1
  /\ \A k \in 1..Len(u) : u[k] = IF k <= c - 1 THEN t[k] ELSE t[k + 1]

\* A part of a text.
LEMMA PartOf ==
  ASSUME NEW t \in Seq(Bytes), NEW m \in Nat, NEW n \in Nat, 1 <= m, n <= Len(t), m <= n + 1
  PROVE  /\ SubSeq(t, m, n) \in Seq(Bytes) /\ Len(SubSeq(t, m, n)) = (n - m) + 1
         /\ \A k \in 1..((n - m) + 1) : SubSeq(t, m, n)[k] = t[(m + k) - 1]
<1>1. \A i \in m..n : t[i] \in Bytes
  BY ElementOfSeq, LenProperties
<1>2. m \in Int /\ n \in Int
  OBVIOUS
<1>3. /\ SubSeq(t, m, n) \in Seq(Bytes) /\ Len(SubSeq(t, m, n)) = IF m <= n THEN n-m+1 ELSE 0
      /\ \A i \in 1 .. n-m+1 : SubSeq(t, m, n)[i] = t[m+i-1]
  BY <1>1, <1>2, SubSeqProperties
<1> QED BY <1>3

\* TextEditor's form of the same.
LEMMA InsertIs ==
  ASSUME NEW t, NEW c, NEW ch, NEW u, Inserted(t, c, ch, u)
  PROVE  u = SubSeq(t, 1, c) \o <<ch>> \o SubSeq(t, c + 1, Len(t))
<1>1. /\ t \in Seq(Bytes) /\ u \in Seq(Bytes) /\ ch \in Bytes /\ c \in Nat /\ c <= Len(t) /\ Len(u) = Len(t) + 1
      /\ Len(t) \in Nat
  BY LenProperties DEF Inserted
<1>2. PICK x : x = SubSeq(t, 1, c)
  OBVIOUS
<1>3. PICK y : y = <<ch>>
  OBVIOUS
<1>4. PICK z : z = SubSeq(t, c + 1, Len(t))
  OBVIOUS
<1>5. x \in Seq(Bytes) /\ Len(x) = c /\ \A k \in 1..c : x[k] = t[k]
  <2>1. /\ x \in Seq(Bytes) /\ Len(x) = (c - 1) + 1 /\ \A k \in 1..((c - 1) + 1) : x[k] = t[(1 + k) - 1]
    BY <1>1, <1>2, PartOf
  <2> QED BY <1>1, <2>1
<1>6. y \in Seq(Bytes) /\ Len(y) = 1 /\ y[1] = ch
  BY <1>1, <1>3
<1>7. z \in Seq(Bytes) /\ Len(z) = Len(t) - c /\ \A k \in 1..(Len(t) - c) : z[k] = t[c + k]
  <2>1. /\ z \in Seq(Bytes) /\ Len(z) = (Len(t) - (c + 1)) + 1
        /\ \A k \in 1..((Len(t) - (c + 1)) + 1) : z[k] = t[((c + 1) + k) - 1]
    BY <1>1, <1>4, PartOf
  <2> QED BY <1>1, <2>1
<1>8. PICK w : w = x \o y
  OBVIOUS
<1>9. w \in Seq(Bytes) /\ Len(w) = c + 1 /\ \A k \in 1..(c + 1) : w[k] = IF k <= c THEN x[k] ELSE y[k - c]
  <2>1. /\ w \in Seq(Bytes) /\ Len(w) = Len(x) + Len(y)
        /\ \A k \in 1..(Len(x) + Len(y)) : w[k] = IF k <= Len(x) THEN x[k] ELSE y[k - Len(x)]
    BY <1>5, <1>6, <1>8, ConcatProperties
  <2> QED BY <1>5, <1>6, <2>1
<1>10. PICK v : v = w \o z
  OBVIOUS
<1>11. /\ v \in Seq(Bytes) /\ Len(v) = Len(t) + 1
       /\ \A k \in 1..(Len(t) + 1) : v[k] = IF k <= c + 1 THEN w[k] ELSE z[k - (c + 1)]
  <2>1. /\ v \in Seq(Bytes) /\ Len(v) = Len(w) + Len(z)
        /\ \A k \in 1..(Len(w) + Len(z)) : v[k] = IF k <= Len(w) THEN w[k] ELSE z[k - Len(w)]
    BY <1>7, <1>9, <1>10, ConcatProperties
  <2>2. Len(w) + Len(z) = Len(t) + 1
    BY <1>1, <1>7, <1>9
  <2> QED BY <1>9, <2>1, <2>2
<1>12. ASSUME NEW k \in 1..Len(u) PROVE u[k] = v[k]
  <2>1. k \in Nat /\ k \in 1..(Len(t) + 1)
    BY <1>1
  <2>2. CASE k <= c
    <3>1. v[k] = w[k] /\ w[k] = x[k] /\ x[k] = t[k]
      BY <1>1, <1>5, <1>9, <1>11, <2>1, <2>2
    <3> QED BY <2>2, <3>1 DEF Inserted
  <2>3. CASE k = c + 1
    <3>1. v[k] = w[k] /\ w[k] = y[1] /\ ~(k <= c)
      BY <1>1, <1>9, <1>11, <2>1, <2>3
    <3> QED BY <1>6, <2>3, <3>1 DEF Inserted
  <2>4. CASE k > c + 1
    <3>1. v[k] = z[k - (c + 1)] /\ k - (c + 1) \in 1..(Len(t) - c) /\ c + (k - (c + 1)) = k - 1
      <4>1. /\ ~(k <= c + 1) /\ k - (c + 1) \in 1..(Len(t) - c) /\ c + (k - (c + 1)) = k - 1
        BY <1>1, <2>1, <2>4
      <4> QED BY <1>11, <2>1, <4>1
    <3>2. z[k - (c + 1)] = t[k - 1]
      BY <1>7, <3>1
    <3>3. ~(k <= c) /\ k # c + 1
      BY <1>1, <2>1, <2>4
    <3> QED BY <3>1, <3>2, <3>3 DEF Inserted
  <2> QED BY <1>1, <2>1, <2>2, <2>3, <2>4
<1>13. u = v
  BY <1>1, <1>11, <1>12, SeqEqual
<1> QED BY <1>2, <1>3, <1>4, <1>8, <1>10, <1>13

\* TextEditor's form of a deletion.
LEMMA DeleteIs ==
  ASSUME NEW t, NEW c, NEW u, Deleted(t, c, u)
  PROVE  u = SubSeq(t, 1, c - 1) \o SubSeq(t, c + 1, Len(t))
<1>1. /\ t \in Seq(Bytes) /\ u \in Seq(Bytes) /\ c \in Nat /\ 1 <= c /\ c <= Len(t) /\ Len(u) = Len(t) - 1
      /\ Len(t) \in Nat
  BY LenProperties DEF Deleted
<1>2. PICK x : x = SubSeq(t, 1, c - 1)
  OBVIOUS
<1>3. PICK z : z = SubSeq(t, c + 1, Len(t))
  OBVIOUS
<1>4. x \in Seq(Bytes) /\ Len(x) = c - 1 /\ \A k \in 1..(c - 1) : x[k] = t[k]
  <2>1. c - 1 \in Nat /\ c - 1 <= Len(t) /\ 1 <= (c - 1) + 1
    BY <1>1
  <2>2. /\ x \in Seq(Bytes) /\ Len(x) = ((c - 1) - 1) + 1
        /\ \A k \in 1..(((c - 1) - 1) + 1) : x[k] = t[(1 + k) - 1]
    BY <1>1, <1>2, <2>1, PartOf
  <2> QED BY <1>1, <2>2
<1>5. z \in Seq(Bytes) /\ Len(z) = Len(t) - c /\ \A k \in 1..(Len(t) - c) : z[k] = t[c + k]
  <2>1. /\ z \in Seq(Bytes) /\ Len(z) = (Len(t) - (c + 1)) + 1
        /\ \A k \in 1..((Len(t) - (c + 1)) + 1) : z[k] = t[((c + 1) + k) - 1]
    BY <1>1, <1>3, PartOf
  <2> QED BY <1>1, <2>1
<1>6. PICK v : v = x \o z
  OBVIOUS
<1>7. /\ v \in Seq(Bytes) /\ Len(v) = Len(t) - 1
      /\ \A k \in 1..(Len(t) - 1) : v[k] = IF k <= c - 1 THEN x[k] ELSE z[k - (c - 1)]
  <2>1. /\ v \in Seq(Bytes) /\ Len(v) = Len(x) + Len(z)
        /\ \A k \in 1..(Len(x) + Len(z)) : v[k] = IF k <= Len(x) THEN x[k] ELSE z[k - Len(x)]
    BY <1>4, <1>5, <1>6, ConcatProperties
  <2>2. Len(x) + Len(z) = Len(t) - 1
    BY <1>1, <1>4, <1>5
  <2> QED BY <1>4, <2>1, <2>2
<1>8. ASSUME NEW k \in 1..Len(u) PROVE u[k] = v[k]
  <2>1. k \in Nat /\ k \in 1..(Len(t) - 1)
    BY <1>1
  <2>2. CASE k <= c - 1
    <3>1. v[k] = x[k] /\ x[k] = t[k]
      BY <1>1, <1>4, <1>7, <2>1, <2>2
    <3> QED BY <2>2, <3>1 DEF Deleted
  <2>3. CASE ~(k <= c - 1)
    <3>1. v[k] = z[k - (c - 1)] /\ k - (c - 1) \in 1..(Len(t) - c) /\ c + (k - (c - 1)) = k + 1
      BY <1>1, <1>7, <2>1, <2>3
    <3>2. z[k - (c - 1)] = t[k + 1]
      BY <1>5, <3>1
    <3> QED BY <2>3, <3>1, <3>2 DEF Deleted
  <2> QED BY <2>2, <2>3
<1>9. u = v
  BY <1>1, <1>7, <1>8, SeqEqual
<1> QED BY <1>2, <1>3, <1>6, <1>9

-----------------------------------------------------------------------------
(* The steps.  Each keeps the invariant and is a step of TextEditor.       *)

\* The text and the cursor that draw_editor_ui paints.
LEMMA ViewIs ==
  ASSUME NEW b, NEW n, NEW c, NEW i, NEW k
  PROVE  View(b, n, c, i, k).text = TextOf(b, n) /\ View(b, n, c, i, k).cursor = c
<1>1. PICK t : t = TextOf(b, n)
  OBVIOUS
<1>2. PICK shown : shown = IF ~i /\ k \in Printable THEN k ELSE NoKey
  OBVIOUS
<1>3. View(b, n, c, i, k) = [text |-> t, cursor |-> c, insert |-> i, key |-> shown]
  BY <1>1, <1>2, Zenon DEF View, TextOf
<1> QED BY <1>1, <1>3

\* What the user sees of the editor.
LEMMA SeenIs ==
  /\ pc = "loop" /\ Painted => ShownText = TextOf(edit_buffer, buffer_len) /\ ShownCursor = cursor_pos
  /\ pc # "loop" => ShownText = <<>> /\ ShownCursor = 0
BY ViewIs DEF ShownText, ShownCursor, Painted

LEMMA SeenNext ==
  /\ pc' = "loop" /\ Painted' => ShownText' = TextOf(edit_buffer', buffer_len') /\ ShownCursor' = cursor_pos'
  /\ pc' # "loop" => ShownText' = <<>> /\ ShownCursor' = 0
<1>1. PICK b, n, c, i, k :
        b = edit_buffer' /\ n = buffer_len' /\ c = cursor_pos' /\ i = is_insert_mode' /\ k = last_cmd_key'
  OBVIOUS
<1>2. View(b, n, c, i, k).text = TextOf(b, n) /\ View(b, n, c, i, k).cursor = c
  BY ViewIs
<1> QED BY <1>1, <1>2 DEF ShownText, ShownCursor, Painted

Implements == EditInv' /\ [Abstract!Next]_(Abstract!tvars)

\* What the invariant says of the text on the screen.
LEMMA Reading ==
  ASSUME EditInv, pc = "loop"
  PROVE  /\ Running /\ ShownText = TextOf(edit_buffer, buffer_len) /\ ShownCursor = cursor_pos
         /\ ShownText \in Seq(Bytes) /\ Len(ShownText) = buffer_len
         /\ \A k \in 1..buffer_len : ShownText[k] = edit_buffer[k - 1]
<1>1. Running /\ ShownText = TextOf(edit_buffer, buffer_len) /\ ShownCursor = cursor_pos
  BY SeenIs DEF EditInv
<1>2. /\ edit_buffer_max \in Nat /\ buffer_len \in Nat /\ buffer_len <= edit_buffer_max
      /\ edit_buffer \in [0..(edit_buffer_max - 1) -> Bytes]
  BY <1>1 DEF Running
<1> QED BY <1>1, <1>2, TextIsSeq

\* A key that only moves the cursor or changes the mode.
LEMMA Moved ==
  ASSUME EditInv, Key, UNCHANGED <<files, target, pc, buf>>, cursor_pos' \in 0..buffer_len,
         is_insert_mode' \in BOOLEAN, last_cmd_key' \in Keys \cup {NoKey}, draw_editor_ui
  PROVE  Implements
<1>1. pc = "loop" /\ pc' = "loop" /\ files' = files /\ target' = target /\ Painted'
      /\ UNCHANGED <<edit_buffer, edit_buffer_max, buffer_len>>
  BY DEF Key, buf, Painted, draw_editor_ui
<1>2. /\ Running /\ ShownText = TextOf(edit_buffer, buffer_len) /\ Len(ShownText) = buffer_len
  BY <1>1, Reading
<1>3. Running'
  BY <1>1, <1>2 DEF Running
<1>4. EditInv'
  BY <1>1, <1>3 DEF EditInv
<1>5. ShownText' = TextOf(edit_buffer', buffer_len') /\ ShownCursor' = cursor_pos'
  BY <1>1, SeenNext
<1>6. ShownText' = ShownText /\ ShownCursor' \in 0..Len(ShownText)
  BY <1>1, <1>2, <1>5
<1>7. (pc = "loop") /\ (pc = "loop")' = (pc = "loop")
  BY <1>1
<1>8. Abstract!Move
  BY <1>1, <1>6, <1>7 DEF Abstract!Move
<1> QED BY <1>4, <1>8 DEF Implements, Abstract!Next

\* Escape, the arrows, `i` and the keys that normal mode ignores.
LEMMA StepQuiet ==
  ASSUME EditInv,
         \/ Escape \/ Arrow(Left) \/ Arrow(Right) \/ Arrow(Up) \/ Arrow(Down) \/ EnterInsert
         \/ \E k \in (Chars \cup {"tab", "bs"}) \ {"i", "w", "q"} : OtherKey(k)
  PROVE  Implements
<1>1. Key /\ UNCHANGED <<files, target, pc, buf>> /\ draw_editor_ui
  BY DEF Escape, Arrow, EnterInsert, OtherKey
<1>2. pc = "loop" /\ Running
  BY <1>1, Reading DEF Key
<1>3. cursor_pos \in 0..buffer_len /\ Left \in 0..buffer_len /\ Right \in 0..buffer_len
  BY <1>2 DEF Running, Left, Right
<1>4. Up \in 0..buffer_len /\ Down \in 0..buffer_len
  BY <1>2, UpIs, DownIs
<1>5. cursor_pos' \in 0..buffer_len
  BY <1>3, <1>4 DEF Escape, Arrow, EnterInsert, OtherKey
<1>6. is_insert_mode' \in BOOLEAN
  <2>1. is_insert_mode \in BOOLEAN
    BY DEF EditInv
  <2>2. is_insert_mode' = FALSE \/ is_insert_mode' = TRUE \/ is_insert_mode' = is_insert_mode
    BY Zenon DEF Escape, Arrow, EnterInsert, OtherKey
  <2> QED BY <2>1, <2>2, Zenon
<1>7. last_cmd_key' \in Keys \cup {NoKey}
  BY DEF EditInv, Escape, Arrow, EnterInsert, OtherKey, Keys
<1> QED BY <1>1, <1>5, <1>6, <1>7, Moved

\* Backspace shifts the bytes behind the cursor down, over the one before it.
LEMMA StepBackspace == ASSUME EditInv, Backspace PROVE Implements
<1>1. /\ Key /\ pc = "loop" /\ UNCHANGED <<files, target, pc, is_insert_mode, last_cmd_key>> /\ draw_editor_ui
  BY DEF Backspace, Key
<1>2. /\ Running /\ ShownText = TextOf(edit_buffer, buffer_len) /\ ShownCursor = cursor_pos
      /\ ShownText \in Seq(Bytes) /\ Len(ShownText) = buffer_len
      /\ \A k \in 1..buffer_len : ShownText[k] = edit_buffer[k - 1]
  BY <1>1, Reading
<1>3. CASE cursor_pos > 0
  <2>1. /\ edit_buffer' = ShiftLeft /\ cursor_pos' = cursor_pos - 1 /\ buffer_len' = buffer_len - 1
        /\ edit_buffer_max' = edit_buffer_max
    BY <1>3 DEF Backspace
  <2>2. /\ edit_buffer_max \in Nat /\ edit_buffer \in [0..(edit_buffer_max - 1) -> Bytes]
        /\ buffer_len \in Nat /\ buffer_len < edit_buffer_max /\ cursor_pos \in 1..buffer_len
        /\ edit_buffer_max <= PoolSize
    BY <1>2, <1>3 DEF Running
  <2>3. PICK b : b = ShiftLeft
    OBVIOUS
  <2>4. /\ b \in [0..(edit_buffer_max - 1) -> Bytes]
        /\ \A k \in 0..(edit_buffer_max - 1) :
             b[k] = IF k \in (cursor_pos - 1)..(buffer_len - 2) THEN edit_buffer[k + 1] ELSE edit_buffer[k]
    BY <2>2, <2>3 DEF ShiftLeft
  <2>5. Running'
    BY <2>1, <2>2, <2>3, <2>4 DEF Running
  <2>6. Painted'
    BY <1>1 DEF Painted, draw_editor_ui
  <2>7. EditInv'
    BY <1>1, <2>5, <2>6 DEF EditInv
  <2>8. PICK n, c, t, u : n = buffer_len /\ c = cursor_pos /\ t = ShownText /\ u = TextOf(b, n - 1)
    OBVIOUS
  <2>9. ShownText' = u /\ ShownCursor' = c - 1
    BY <1>1, <2>1, <2>3, <2>6, <2>8, SeenNext
  <2>10. u \in Seq(Bytes) /\ Len(u) = n - 1 /\ \A k \in 1..(n - 1) : u[k] = b[k - 1]
    <3>1. PICK m, q : m = edit_buffer_max /\ q = n - 1
      OBVIOUS
    <3>2. m \in Nat /\ q \in Nat /\ q <= m /\ b \in [0..(m - 1) -> Bytes]
      BY <2>2, <2>4, <2>8, <3>1
    <3>3. TextOf(b, q) \in Seq(Bytes) /\ Len(TextOf(b, q)) = q /\ \A k \in 1..q : TextOf(b, q)[k] = b[k - 1]
      BY <3>2, TextIsSeq
    <3> QED BY <2>8, <3>1, <3>3
  <2>11. ASSUME NEW k \in 1..(n - 1) PROVE u[k] = IF k <= c - 1 THEN t[k] ELSE t[k + 1]
    <3>1. /\ k - 1 \in 0..(edit_buffer_max - 1) /\ k \in 1..n /\ k + 1 \in 1..n /\ (k - 1) + 1 = k /\ (k + 1) - 1 = k
          /\ (k - 1 \in (c - 1)..(n - 2) <=> ~(k <= c - 1))
      BY <2>2, <2>8
    <3>2. u[k] = IF k <= c - 1 THEN edit_buffer[k - 1] ELSE edit_buffer[k]
      BY <2>4, <2>8, <2>10, <3>1
    <3>3. t[k] = edit_buffer[k - 1] /\ t[k + 1] = edit_buffer[k]
      BY <1>2, <2>8, <3>1
    <3> QED BY <3>2, <3>3
  <2>12. Deleted(t, c, u)
    BY <1>2, <2>2, <2>8, <2>10, <2>11 DEF Deleted
  <2>13. u = SubSeq(t, 1, c - 1) \o SubSeq(t, c + 1, Len(t))
    BY <2>12, DeleteIs
  <2>14. (pc = "loop") /\ (pc = "loop")' = (pc = "loop")
    BY <1>1
  <2>15. Abstract!Delete
    BY <1>1, <1>2, <1>3, <2>8, <2>9, <2>13, <2>14 DEF Abstract!Delete
  <2> QED BY <2>7, <2>15 DEF Implements, Abstract!Next
<1>4. CASE ~(cursor_pos > 0)
  <2>1. UNCHANGED <<buf, cursor_pos>>
    BY <1>4 DEF Backspace
  <2>2. cursor_pos' \in 0..buffer_len
    BY <1>2, <2>1 DEF Running
  <2>3. is_insert_mode' \in BOOLEAN /\ last_cmd_key' \in Keys \cup {NoKey}
    BY <1>1 DEF EditInv
  <2> QED BY <1>1, <2>1, <2>2, <2>3, Moved
<1> QED BY <1>3, <1>4

\* A character is stored and the bytes behind it are shifted up, if there is
\* room for them and the final zero.
LEMMA StepInsert == ASSUME EditInv, NEW ch \in Chars \cup {"tab"}, Insert(ch) PROVE Implements
<1>1. /\ Key /\ pc = "loop" /\ UNCHANGED <<files, target, pc, is_insert_mode, last_cmd_key>> /\ draw_editor_ui
  BY DEF Insert, Key
<1>2. /\ Running /\ ShownText = TextOf(edit_buffer, buffer_len) /\ ShownCursor = cursor_pos
      /\ ShownText \in Seq(Bytes) /\ Len(ShownText) = buffer_len
      /\ \A k \in 1..buffer_len : ShownText[k] = edit_buffer[k - 1]
  BY <1>1, Reading
<1>3. CASE HasRoom /\ ch \in Chars
  <2>1. /\ edit_buffer' = ShiftRight(ch) /\ cursor_pos' = cursor_pos + 1 /\ buffer_len' = buffer_len + 1
        /\ edit_buffer_max' = edit_buffer_max
    BY <1>3 DEF Insert
  <2>2. /\ edit_buffer_max \in Nat /\ edit_buffer \in [0..(edit_buffer_max - 1) -> Bytes]
        /\ buffer_len \in Nat /\ buffer_len + 1 < edit_buffer_max /\ cursor_pos \in 0..buffer_len
        /\ edit_buffer_max <= PoolSize /\ ch \in Bytes
    BY <1>2, <1>3 DEF Running, HasRoom, Bytes
  <2>3. PICK b : b = ShiftRight(ch)
    OBVIOUS
  <2>4. /\ b \in [0..(edit_buffer_max - 1) -> Bytes]
        /\ \A k \in 0..(edit_buffer_max - 1) :
             b[k] = IF k = cursor_pos THEN ch
                    ELSE IF k \in (cursor_pos + 1)..buffer_len THEN edit_buffer[k - 1] ELSE edit_buffer[k]
    BY <2>2, <2>3 DEF ShiftRight
  <2>5. Running'
    BY <2>1, <2>2, <2>3, <2>4 DEF Running
  <2>6. Painted'
    BY <1>1 DEF Painted, draw_editor_ui
  <2>7. EditInv'
    BY <1>1, <2>5, <2>6 DEF EditInv
  <2>8. PICK n, c, t, u : n = buffer_len /\ c = cursor_pos /\ t = ShownText /\ u = TextOf(b, n + 1)
    OBVIOUS
  <2>9. ShownText' = u /\ ShownCursor' = c + 1
    BY <1>1, <2>1, <2>3, <2>6, <2>8, SeenNext
  <2>10. u \in Seq(Bytes) /\ Len(u) = n + 1 /\ \A k \in 1..(n + 1) : u[k] = b[k - 1]
    BY <2>2, <2>4, <2>8, TextIsSeq
  <2>11. ASSUME NEW k \in 1..(n + 1)
         PROVE  u[k] = IF k <= c THEN t[k] ELSE IF k = c + 1 THEN ch ELSE t[k - 1]
    <3>1. /\ k - 1 \in 0..(edit_buffer_max - 1) /\ (k - 1 = c <=> k = c + 1) /\ (k <= c => k \in 1..n)
          /\ (k - 1 \in (c + 1)..n <=> k > c + 1) /\ (k > c + 1 => k - 1 \in 1..n)
          /\ (k <= c \/ k = c + 1 \/ k > c + 1) /\ (k = c + 1 => ~(k <= c)) /\ (k > c + 1 => ~(k <= c) /\ k # c + 1)
      BY <2>2, <2>8
    <3>2. u[k] = IF k = c + 1 THEN ch ELSE IF k > c + 1 THEN edit_buffer[(k - 1) - 1] ELSE edit_buffer[k - 1]
      BY <2>4, <2>8, <2>10, <3>1
    <3>3. (k <= c => t[k] = edit_buffer[k - 1]) /\ (k > c + 1 => t[k - 1] = edit_buffer[(k - 1) - 1])
      BY <1>2, <2>8, <3>1
    <3> QED BY <3>1, <3>2, <3>3
  <2>12. Inserted(t, c, ch, u)
    BY <1>2, <2>2, <2>8, <2>10, <2>11 DEF Inserted
  <2>13. u = SubSeq(t, 1, c) \o <<ch>> \o SubSeq(t, c + 1, Len(t))
    BY <2>12, InsertIs
  <2>14. (pc = "loop") /\ (pc = "loop")' = (pc = "loop")
    BY <1>1
  <2>15. Abstract!Insert(ch)
    BY <1>1, <1>2, <2>8, <2>9, <2>13, <2>14 DEF Abstract!Insert
  <2> QED BY <1>3, <2>7, <2>15 DEF Implements, Abstract!Next
<1>4. CASE ~(HasRoom /\ ch \in Chars)
  <2>1. UNCHANGED <<buf, cursor_pos>>
    BY <1>4 DEF Insert
  <2>2. cursor_pos' \in 0..buffer_len
    BY <1>2, <2>1 DEF Running
  <2>3. is_insert_mode' \in BOOLEAN /\ last_cmd_key' \in Keys \cup {NoKey}
    BY <1>1 DEF EditInv
  <2> QED BY <1>1, <2>1, <2>2, <2>3, Moved
<1> QED BY <1>3, <1>4

\* The program ends, and only the files are left.
LEMMA Exited ==
  ASSUME EditInv, NEW message, Exit(message), files' \in [Names -> Contents]
  PROVE  EditInv' /\ target' = "given" /\ (pc = "loop")' = FALSE /\ ShownText' = <<>> /\ ShownCursor' = 0
<1>1. pc' = "shell" /\ edit_buffer_max' = 0 /\ buffer_len' = 0 /\ cursor_pos' = 0 /\ last_cmd_key' = NoKey
      /\ target' = "given" /\ target' \in Names
  BY DEF Exit, Names
<1>2. is_insert_mode' = FALSE
  BY Zenon DEF Exit
<1>3. is_insert_mode' \in BOOLEAN
  BY <1>2, Zenon
<1>4. EditInv'
  BY <1>1, <1>3 DEF EditInv
<1> QED BY <1>1, <1>4, SeenNext

\* The file is read into the buffer, if both fit in the pool.
LEMMA StepStart == ASSUME EditInv, Start PROVE Implements
<1>0. pc = "shell" /\ files' = files /\ files \in [Names -> Contents] /\ files' \in [Names -> Contents]
  BY DEF Start, EditInv
<1>1. pc = "shell" /\ files' = files /\ (file = Absent \/ file \in Seq(Bytes))
  BY <1>0 DEF file, Names, Contents
<1>2. ShownText = <<>> /\ ShownCursor = 0
  BY <1>1, SeenIs
<1>3. FileSize \in Nat /\ Slack \in Nat /\ Slack > 0 /\ PoolSize \in Nat
  BY <1>1, EditorAssumption, LenProperties DEF FileSize
<1>4. CASE FileSize + Slack > PoolSize
  <2>1. Exit("no_memory")
    BY <1>4 DEF Start
  <2>2. EditInv' /\ (pc = "loop")' = FALSE /\ ShownText' = <<>> /\ ShownCursor' = 0
    BY <1>0, <2>1, Exited
  <2>3. (pc = "loop")' = (pc = "loop")
    BY <1>1, <2>2
  <2>4. target = "given" /\ target' = "given"
    BY <1>0, <2>1 DEF EditInv, Exit
  <2>5. UNCHANGED Abstract!tvars
    BY <1>1, <1>2, <2>2, <2>3, <2>4 DEF Abstract!tvars
  <2> QED BY <2>2, <2>5 DEF Implements
<1>5. CASE ~(FileSize + Slack > PoolSize)
  <2>1. PICK n, m, b : /\ n = FileSize /\ m = FileSize + Slack
                       /\ b = [k \in 0..(FileSize + Slack - 1) |-> IF k < FileSize THEN file[k + 1] ELSE NUL]
    OBVIOUS
  <2>2. /\ pc' = "loop" /\ edit_buffer_max' = m /\ buffer_len' = n /\ cursor_pos' = 0 /\ last_cmd_key' = NoKey
        /\ edit_buffer' = b /\ draw_editor_ui /\ target' \in Names
    <3>1. /\ pc' = "loop" /\ edit_buffer_max' = FileSize + Slack /\ buffer_len' = FileSize /\ cursor_pos' = 0
          /\ last_cmd_key' = NoKey /\ draw_editor_ui /\ target' \in Names
          /\ edit_buffer' = [k \in 0..(FileSize + Slack - 1) |-> IF k < FileSize THEN file[k + 1] ELSE NUL]
      BY <1>5, Zenon DEF Start
    <3>2. edit_buffer' = b
      BY <2>1, <3>1, Zenon
    <3> QED BY <2>1, <3>1, <3>2
  <2>3. n \in Nat /\ m \in Nat /\ n < m /\ m <= PoolSize
    BY <1>3, <1>5, <2>1
  <2>4. \A k \in 0..(m - 1) : k < n => file[k + 1] \in Bytes
    <3>1. ASSUME NEW k \in 0..(m - 1), k < n PROVE file[k + 1] \in Bytes
      <4>1. file # Absent /\ file \in Seq(Bytes) /\ n = Len(file)
        BY <1>1, <2>1, <3>1 DEF FileSize
      <4>2. k + 1 \in 1..Len(file)
        BY <2>3, <3>1, <4>1
      <4> QED BY <4>1, <4>2, ElementOfSeq
    <3> QED BY <3>1
  <2>5. /\ b \in [0..(m - 1) -> Bytes]
        /\ \A k \in 0..(m - 1) : b[k] = IF k < n THEN file[k + 1] ELSE NUL
    <3>1. FileSize + Slack - 1 = m - 1
      BY <1>3, <2>1
    <3>2. b = [k \in 0..(m - 1) |-> IF k < FileSize THEN file[k + 1] ELSE NUL]
      BY <2>1, <3>1, Zenon
    <3>3. NUL \in Bytes
      BY DEF Bytes
    <3>4. \A k \in 0..(m - 1) : b[k] = IF k < FileSize THEN file[k + 1] ELSE NUL
      BY <3>2
    <3>5. \A k \in 0..(m - 1) : b[k] = IF k < n THEN file[k + 1] ELSE NUL
      BY <2>1, <3>4
    <3>6. \A k \in 0..(m - 1) : b[k] \in Bytes
      BY <2>4, <3>3, <3>5
    <3>7. b \in [0..(m - 1) -> Bytes]
      BY <3>2, <3>6
    <3> QED BY <3>5, <3>7
  <2>6. Running'
    BY <2>2, <2>3, <2>5 DEF Running
  <2>7. Painted'
    BY <2>2 DEF Painted, draw_editor_ui
  <2>8. is_insert_mode' \in BOOLEAN
    <3>1. is_insert_mode' = FALSE
      BY <1>5, Zenon DEF Start
    <3> QED BY <3>1, Zenon
  <2>9. EditInv'
    BY <1>0, <2>2, <2>6, <2>7, <2>8 DEF EditInv
  <2>10. PICK u : u = TextOf(b, n)
    OBVIOUS
  <2>11. ShownText' = u /\ ShownCursor' = 0
    BY <2>2, <2>7, <2>10, SeenNext
  <2>12. u \in Seq(Bytes) /\ Len(u) = n /\ \A k \in 1..n : u[k] = b[k - 1]
    BY <2>3, <2>5, <2>10, TextIsSeq
  <2>13. u = Abstract!ContentsOf(file)
    <3>1. CASE file = Absent
      <4>1. Len(u) = 0
        BY <2>1, <2>12, <3>1 DEF FileSize
      <4>2. u = <<>>
        BY <2>12, <4>1, EmptySeq
      <4> QED BY <3>1, <4>2 DEF Abstract!ContentsOf
    <3>2. CASE file # Absent
      <4>1. file \in Seq(Bytes) /\ Len(file) = n
        BY <1>1, <2>1, <3>2 DEF FileSize
      <4>2. ASSUME NEW k \in 1..n PROVE u[k] = file[k]
        <5>1. k - 1 \in 0..(m - 1) /\ k - 1 < n /\ (k - 1) + 1 = k
          BY <2>3
        <5> QED BY <2>5, <2>12, <5>1
      <4>3. u = file
        BY <2>12, <4>1, <4>2, SeqEqual
      <4> QED BY <3>2, <4>3 DEF Abstract!ContentsOf
    <3> QED BY <3>1, <3>2
  <2>14. ~(pc = "loop") /\ (pc = "loop")' = TRUE
    BY <1>1, <2>2
  <2>15. Abstract!Open
    BY <1>1, <2>2, <2>11, <2>13, <2>14 DEF Abstract!Open, file
  <2> QED BY <2>9, <2>15 DEF Implements, Abstract!Next
<1> QED BY <1>4, <1>5

\* A refused write leaves a file of the old length, or none if there was none.
LEMMA RefusedIs ==
  ASSUME NEW old \in Contents, ShownText \in Seq(Bytes), NEW f \in Refused(old, ShownText)
  PROVE  f \in Contents /\ Abstract!Mangled(old, f)
<1>1. CASE old = Absent
  BY <1>1 DEF Refused, Contents, Abstract!Mangled
<1>2. CASE old # Absent
  <2>1. old \in Seq(Bytes) /\ Len(old) \in Nat /\ Len(ShownText) \in Nat /\ ClusterBytes \in Nat
    BY <1>2, EditorAssumption DEF Contents
  <2>2. PICK piece \in Pieces(old, ShownText) :
          f = [k \in 1..Len(old) |-> IF k <= ClusterBytes THEN piece[k] ELSE NUL]
    BY <1>2 DEF Refused
  <2> DEFINE Mixed(k) == {old[k], NUL} \cup {ShownText[j] : j \in 1..Len(ShownText)}
  <2>3. ASSUME NEW k \in 1..Len(old), k <= ClusterBytes PROVE piece[k] \in Mixed(k)
    <3>1. CASE piece = old
      BY <3>1
    <3>2. CASE piece # old
      <4>1. PICK at \in {p \in 0..Len(ShownText) : p % ClusterBytes = 0 /\ p + ClusterBytes < Len(ShownText)} :
              piece = [n \in 1..ClusterBytes |-> ShownText[at + n]]
        BY <3>2 DEF Pieces
      <4>2. at \in Nat /\ at + ClusterBytes < Len(ShownText) /\ k \in 1..ClusterBytes
        BY <2>1, <2>3, <4>1
      <4>3. piece[k] = ShownText[at + k] /\ at + k \in 1..Len(ShownText)
        BY <2>1, <4>1, <4>2
      <4> QED BY <4>3
    <3> QED BY <3>1, <3>2
  <2>4. ASSUME NEW k \in 1..Len(old) PROVE f[k] \in Mixed(k)
    BY <2>2, <2>3
  <2>5. \A k \in 1..Len(old) : f[k] \in Bytes
    <3>1. ASSUME NEW t \in Seq(Bytes) PROVE \A k \in 1..Len(t) : t[k] \in Bytes
      OBVIOUS
    <3>2. \A k \in 1..Len(old) : Mixed(k) \subseteq Bytes
      BY <2>1, <3>1 DEF Bytes
    <3> QED BY <2>4, <3>2
  <2>6. DOMAIN f = 1..Len(old) /\ f = [k \in 1..Len(old) |-> f[k]]
    BY <2>2
  <2>7. f \in Seq(Bytes)
    BY <2>1, <2>5, <2>6
  <2>8. Abstract!Mangled(old, f)
    BY <1>2, <2>4, <2>6 DEF Abstract!Mangled
  <2> QED BY <2>7, <2>8 DEF Contents
<1> QED BY <1>1, <1>2

\* `w`: the file holds the text, or the disk refused it.
LEMMA StepSave == ASSUME EditInv, Save PROVE Implements
<1>1. pc = "loop" /\ target \in Names /\ files \in [Names -> Contents] /\ files[target] \in Contents
  BY DEF Save, EditInv
<1>2. /\ Running /\ ShownText = TextOf(edit_buffer, buffer_len) /\ ShownText \in Seq(Bytes)
      /\ Len(ShownText) = buffer_len
  BY <1>1, Reading
<1>3. \E message : Exit(message)
  BY DEF Save
<1>4. ASSUME NEW f \in Contents, files' = [files EXCEPT ![target] = f]
      PROVE  /\ EditInv' /\ target' = "given" /\ (pc = "loop")' = FALSE /\ ShownText' = <<>>
             /\ ShownCursor' = 0 /\ files'[target] = f
  <2>1. files' \in [Names -> Contents] /\ files'[target] = f
    BY <1>1, <1>4
  <2> QED BY <1>3, <2>1, Exited
<1> DEFINE text == [k \in 1..buffer_len |-> [edit_buffer EXCEPT ![buffer_len] = NUL][k - 1]]
<1>5. text = ShownText
  <2>1. \A k \in 1..buffer_len : [edit_buffer EXCEPT ![buffer_len] = NUL][k - 1] = edit_buffer[k - 1]
    BY <1>2 DEF Running
  <2> QED BY <1>2, <2>1 DEF TextOf
<1>6. \/ files' = [files EXCEPT ![target] = text]
      \/ \E left \in Refused(files[target], text) : files' = [files EXCEPT ![target] = left]
  BY DEF Save
<1> HIDE DEF text
<1>7. CASE files' = [files EXCEPT ![target] = text]
  <2>1. files' = [files EXCEPT ![target] = ShownText] /\ ShownText \in Contents
    BY <1>2, <1>5, <1>7 DEF Contents
  <2>2. EditInv' /\ target' = "given" /\ (pc = "loop")' = FALSE /\ ShownText' = <<>> /\ ShownCursor' = 0
    BY <1>4, <2>1
  <2>3. Abstract!Save
    BY <1>1, <2>1, <2>2 DEF Abstract!Save, Abstract!Close
  <2> QED BY <2>2, <2>3 DEF Implements, Abstract!Next
<1>8. CASE \E left \in Refused(files[target], text) : files' = [files EXCEPT ![target] = left]
  <2>1. PICK left \in Refused(files[target], ShownText) : files' = [files EXCEPT ![target] = left]
    BY <1>5, <1>8
  <2>2. left \in Contents /\ Abstract!Mangled(files[target], left)
    BY <1>1, <1>2, <2>1, RefusedIs
  <2>3. /\ EditInv' /\ target' = "given" /\ (pc = "loop")' = FALSE /\ ShownText' = <<>> /\ ShownCursor' = 0
        /\ files'[target] = left
    BY <1>4, <2>1, <2>2
  <2>4. Abstract!SaveRefused
    BY <1>1, <2>1, <2>2, <2>3 DEF Abstract!SaveRefused, Abstract!Close
  <2> QED BY <2>3, <2>4 DEF Implements, Abstract!Next
<1> QED BY <1>6, <1>7, <1>8

\* `q`: the text is lost and the file as it was.
LEMMA StepQuit == ASSUME EditInv, Quit PROVE Implements
<1>1. pc = "loop" /\ files' = files /\ Exit("cleared") /\ files' \in [Names -> Contents]
  BY DEF Quit, Key, EditInv
<1>2. EditInv' /\ target' = "given" /\ (pc = "loop")' = FALSE /\ ShownText' = <<>> /\ ShownCursor' = 0
  BY <1>1, Exited
<1>3. Abstract!Quit
  BY <1>1, <1>2 DEF Abstract!Quit, Abstract!Close
<1> QED BY <1>2, <1>3 DEF Implements, Abstract!Next

\* Every step.
LEMMA StepAny == ASSUME EditInv, [Next]_vars PROVE Implements
<1>1. CASE UNCHANGED vars
  <2>1. /\ UNCHANGED <<files, target, pc, edit_buffer, edit_buffer_max, buffer_len, cursor_pos>>
        /\ is_insert_mode' = is_insert_mode /\ last_cmd_key' = last_cmd_key /\ screen' = screen
    BY <1>1, Zenon DEF vars, buf
  <2>2. Running' <=> Running
    BY <2>1 DEF Running
  <2>3. Painted' <=> Painted
    BY <2>1, Zenon DEF Painted
  <2>4. is_insert_mode' \in BOOLEAN
    BY <2>1, Zenon DEF EditInv
  <2>5. EditInv'
    BY <2>1, <2>2, <2>3, <2>4 DEF EditInv
  <2>6. (pc = "loop")' = (pc = "loop") /\ ShownText' = ShownText /\ ShownCursor' = ShownCursor
    BY <2>1 DEF ShownText, ShownCursor
  <2>7. UNCHANGED Abstract!tvars
    BY <2>1, <2>6 DEF Abstract!tvars
  <2> QED BY <2>5, <2>7 DEF Implements
<1>2. CASE Start
  BY <1>2, StepStart
<1>3. CASE \/ Escape \/ Arrow(Left) \/ Arrow(Right) \/ Arrow(Up) \/ Arrow(Down) \/ EnterInsert
           \/ \E k \in (Chars \cup {"tab", "bs"}) \ {"i", "w", "q"} : OtherKey(k)
  BY <1>3, StepQuiet
<1>4. CASE Backspace
  BY <1>4, StepBackspace
<1>5. CASE \E k \in Chars \cup {"tab"} : Insert(k)
  BY <1>5, StepInsert
<1>6. CASE Save
  BY <1>6, StepSave
<1>7. CASE Quit
  BY <1>7, StepQuit
<1> QED BY <1>1, <1>2, <1>3, <1>4, <1>5, <1>6, <1>7 DEF Next

\* At first nothing is open.
LEMMA InvInit == ASSUME Init PROVE EditInv
<1>1. /\ files \in [Names -> Files] /\ target = "given" /\ pc = "shell" /\ edit_buffer_max = 0 /\ buffer_len = 0 /\ cursor_pos = 0
      /\ last_cmd_key = NoKey
  BY DEF Init
<1>2. is_insert_mode \in BOOLEAN
  <2>1. is_insert_mode = FALSE
    BY Zenon DEF Init
  <2> QED BY <2>1, Zenon
<1>3. files \in [Names -> Contents] /\ target \in Names
  BY <1>1, EditorAssumption DEF Bytes, Contents, Names
<1> QED BY <1>1, <1>2, <1>3 DEF EditInv

\* The invariant holds in every state.
LEMMA EditAlways == Spec => []EditInv
<1>1. Init => EditInv
  BY InvInit
<1>2. EditInv /\ [Next]_vars => EditInv'
  BY StepAny DEF Implements
<1> QED BY <1>1, <1>2, PTL DEF Spec

-----------------------------------------------------------------------------
(* The theorems. *)

\* No key sequence, in no session, takes the cursor out of the text or the
\* text out of the buffer, and the byte behind the text is always free for
\* the zero that `w` stores there.
THEOREM EditorStaysInBuffer == Spec => []TypeOK
<1>1. EditInv => TypeOK
  <2> SUFFICES ASSUME EditInv PROVE TypeOK
    OBVIOUS
  <2>1. pc \in {"shell", "loop"} /\ is_insert_mode \in BOOLEAN /\ last_cmd_key \in Keys \cup {NoKey}
    BY DEF EditInv
  <2>2. CASE pc = "shell"
    <3>1. edit_buffer_max = 0 /\ buffer_len = 0 /\ cursor_pos = 0
      BY <2>2 DEF EditInv
    <3> QED BY <2>1, <2>2, <3>1 DEF TypeOK
  <2>3. CASE pc = "loop"
    <3>1. Running
      BY <2>3 DEF EditInv
    <3> QED BY <2>1, <3>1 DEF TypeOK, Running, Bytes
  <2> QED BY <2>1, <2>2, <2>3
<1> QED BY <1>1, EditAlways, PTL

\* The arrows up and down go to the neighbouring line, in the same column or
\* at the end of a shorter line, for every text and position.
THEOREM EditorMovesByLines == Spec => []VerticalMoves
<1>1. EditInv => VerticalMoves
  <2> SUFFICES ASSUME EditInv, pc = "loop"
               PROVE  /\ Up = IF LineOf(cursor_pos) = 0 THEN cursor_pos ELSE InLine(LineOf(cursor_pos) - 1)
                      /\ Down = IF LineOf(cursor_pos) = LineOf(buffer_len) THEN cursor_pos
                                ELSE InLine(LineOf(cursor_pos) + 1)
    BY DEF VerticalMoves
  <2>1. Running
    BY DEF EditInv
  <2> QED BY <2>1, UpIs, DownIs
<1> QED BY <1>1, EditAlways, PTL

\* What the user sees is TextEditor: a key inserts, removes or moves past
\* exactly one character or moves the cursor, the screen is never behind the
\* buffer, and a file changes only on `w` and then holds what was shown, or is refused.
THEOREM EditorImplementsTextEditor == Spec => ImplementsTextEditor
<1>1. Init => Abstract!Init
  <2>1. SUFFICES ASSUME Init PROVE Abstract!Init
    OBVIOUS
  <2>2. pc # "loop" /\ (pc = "loop") = FALSE
    BY <2>1 DEF Init
  <2>3. ShownText = <<>> /\ ShownCursor = 0
    BY <2>2, SeenIs
  <2> QED BY <2>1, <2>2, <2>3 DEF Abstract!Init, Init
<1>2. EditInv /\ [Next]_vars => [Abstract!Next]_(Abstract!tvars)
  BY StepAny DEF Implements
<1> QED BY <1>1, <1>2, EditAlways, PTL DEF Spec, ImplementsTextEditor, Abstract!Spec
=============================================================================
