--------------------------- MODULE KeyboardProofs ---------------------------
(***************************************************************************)
(* Proofs about Keyboard.tla, for every length of the ring, every set of   *)
(* keys and every number of keystrokes.                                    *)
(***************************************************************************)
EXTENDS Keyboard, TLAPS

-----------------------------------------------------------------------------
(* Arithmetic of ring positions. *)

\* Quotient and remainder by the length of the ring.
LEMMA DivMod ==
  ASSUME NEW d \in Nat \ {0}, NEW a \in Nat
  PROVE  /\ a \div d \in Nat
         /\ a % d \in 0..(d - 1)
         /\ a = d * (a \div d) + (a % d)
  OBVIOUS

\* The remainder of a number in [d*q, d*q + d).
LEMMA ModUnique ==
  ASSUME NEW d \in Nat \ {0}, NEW q \in Nat, NEW r \in 0..(d - 1), NEW a \in Nat, a = d * q + r
  PROVE  a % d = r
<1>1. a = d * (a \div d) + (a % d) /\ a \div d \in Nat /\ a % d \in 0..(d-1)
  BY DivMod
<1> DEFINE p == a \div d
<1> HIDE DEF p
<1>2. p \in Nat /\ a = d * p + (a % d)
  BY <1>1 DEF p
<1>3. ASSUME NEW m \in Nat, NEW n \in Nat, m < n PROVE d * m + d <= d * n
  BY <1>3
<1>4. ~(p < q) /\ ~(q < p)
  BY <1>1, <1>2, <1>3
<1> QED BY <1>1, <1>2, <1>4

\* Stepping around the ring follows counting.
LEMMA RingCounts ==
  ASSUME NEW d \in Nat \ {0, 1}, NEW a \in Nat
  PROVE  ((a % d) + 1) % d = (a + 1) % d
<1> DEFINE q == a \div d
           r == a % d
<1>1. q \in Nat /\ r \in 0..(d - 1) /\ a = d * q + r
  BY DivMod
<1> HIDE DEF q, r
<1>2. CASE r + 1 < d
  <2>1. (a + 1) % d = r + 1
    BY <1>1, <1>2, ModUnique
  <2>2. r + 1 = d * 0 + (r + 1)
    BY <1>1
  <2>3. (r + 1) % d = r + 1
    BY <1>1, <1>2, <2>2, ModUnique
  <2> QED BY <2>1, <2>3 DEF r
<1>3. CASE r + 1 = d
  <2>1. a + 1 = d * (q + 1) + 0 /\ r + 1 = d * 1 + 0 /\ q + 1 \in Nat
    BY <1>1, <1>3
  <2>2. (a + 1) % d = 0
    BY <1>1, <2>1, ModUnique
  <2>3. (r + 1) % d = 0
    BY <1>1, <2>1, ModUnique
  <2> QED BY <2>2, <2>3 DEF r
<1> QED BY <1>1, <1>2, <1>3

\* Two counters at the same position stay there when both are increased, and
\* were there before.
LEMMA RingCancel ==
  ASSUME NEW d \in Nat \ {0, 1}, NEW a \in Nat, NEW b \in Nat
  PROVE  a % d = b % d <=> (a + 1) % d = (b + 1) % d
<1>1. a % d = b % d => (a + 1) % d = (b + 1) % d
  BY RingCounts
<1>2. ASSUME NEW x \in 0..(d - 1), NEW y \in 0..(d - 1), (x + 1) % d = (y + 1) % d
      PROVE  x = y
  <2>1. ASSUME NEW z \in 0..(d - 1)
        PROVE  (z + 1) % d = IF z + 1 = d THEN 0 ELSE z + 1
    <3>1. z + 1 = d => z + 1 = d * 1 + 0
      OBVIOUS
    <3>2. z + 1 # d => z + 1 = d * 0 + (z + 1) /\ z + 1 \in 0..(d - 1)
      OBVIOUS
    <3> QED BY <3>1, <3>2, ModUnique
  <2> QED BY <1>2, <2>1
<1>3. a % d \in 0..(d - 1) /\ b % d \in 0..(d - 1)
  BY DivMod
<1> QED BY <1>1, <1>2, <1>3, RingCounts

\* Two counters less than a lap apart are at the same position only if equal,
\* and the distance around the ring is their difference.
LEMMA RingDistance ==
  ASSUME NEW d \in Nat \ {0, 1}, NEW a \in Nat, NEW b \in Nat, b <= a, a - b < d
  PROVE  /\ ((a % d) + d - (b % d)) % d = a - b
         /\ a % d = b % d => a = b
<1> DEFINE p == a \div d
           q == b \div d
           x == a % d
           y == b % d
<1>1. /\ p \in Nat /\ x \in 0..(d - 1) /\ a = d * p + x
      /\ q \in Nat /\ y \in 0..(d - 1) /\ b = d * q + y
  BY DivMod
<1> HIDE DEF p, q, x, y
<1>2. p = q \/ p = q + 1
  <2>1. ASSUME NEW m \in Nat, NEW n \in Nat, m < n PROVE d * m + d <= d * n
    BY <2>1
  <2>2. ~(p < q)
    BY <1>1, <2>1
  <2>3. ~(q + 1 < p)
    <3>1. SUFFICES ASSUME q + 1 < p PROVE FALSE
      OBVIOUS
    <3>2. d * (q + 1) + d <= d * p /\ d * (q + 1) = d * q + d
      BY <1>1, <2>1, <3>1
    <3> QED BY <1>1, <3>2
  <2> QED BY <1>1, <2>2, <2>3
<1>3. CASE p = q
  <2>1. x + d - y = d * 1 + (a - b) /\ a - b \in 0..(d - 1) /\ x + d - y \in Nat
    BY <1>1, <1>3
  <2>2. (x + d - y) % d = a - b
    BY <2>1, ModUnique
  <2> QED BY <1>1, <1>3, <2>2 DEF x, y
<1>4. CASE p = q + 1
  <2>1. x + d - y = d * 0 + (a - b) /\ a - b \in 0..(d - 1) /\ x + d - y \in Nat /\ x # y
    <3>1. d * p = d * q + d
      BY <1>1, <1>4
    <3> QED BY <1>1, <3>1
  <2>2. (x + d - y) % d = a - b
    BY <2>1, ModUnique
  <2> QED BY <2>1, <2>2 DEF x, y
<1> QED BY <1>2, <1>3, <1>4

\* A whole lap leads back to the same position.
LEMMA RingLap ==
  ASSUME NEW d \in Nat \ {0}, NEW a \in Nat
  PROVE  (a + d) % d = a % d
<1>1. a \div d \in Nat /\ a % d \in 0..(d - 1) /\ a = d * (a \div d) + (a % d)
  BY DivMod
<1> DEFINE q == a \div d
           r == a % d
<1>2. q \in Nat /\ r \in 0..(d - 1) /\ a = d * q + r
  BY <1>1
<1> HIDE DEF q, r
<1>3. a + d = d * (q + 1) + r /\ q + 1 \in Nat /\ a + d \in Nat
  BY <1>2
<1>4. (a + d) % d = r
  BY <1>2, <1>3, ModUnique
<1> QED BY <1>4 DEF r

-----------------------------------------------------------------------------
(* The ring.  The head and the tail are the numbers of characters stored   *)
(* and returned, around the ring.  A slot holds the last character stored  *)
(* at its position; the last character returned lies, around the ring,     *)
(* just before the tail.  This is what excludes ghosts even when the       *)
(* handler has overtaken the reader.                                       *)

LastGot == IF got = <<>> THEN 0 ELSE got[Len(got)]

PositionsCount ==
  /\ kbd_head = Len(stored) % BufSize
  /\ kbd_tail = Len(got) % BufSize

SlotsHoldLatest ==
  /\ \A k \in 0..(BufSize - 1) :
       keyboard_buffer[k] # 0 => (keyboard_buffer[k] - 1) % BufSize = k
  /\ \A i \in 1..Len(stored) : keyboard_buffer[(i - 1) % BufSize] >= i

GotInOrder ==
  /\ \A k \in 1..Len(got) : got[k] \in 1..Len(stored)
  /\ \A k \in 1..(Len(got) - 1) : got[k] < got[k + 1]
  /\ LastGot % BufSize = Len(got) % BufSize

\* What getchar knows between its steps, whatever the handler does there.
InFlight ==
  /\ pc = "load" => LastGot < Len(stored)
  /\ pc = "advance" => /\ c > LastGot
                       /\ c % BufSize = (Len(got) + 1) % BufSize

Unlapped ==
  ~overrun => /\ Len(got) <= Len(stored)
              /\ Len(stored) - Len(got) < BufSize
              /\ pc \in {"load", "advance"} => Len(got) < Len(stored)

RingInv ==
  TypeOK /\ PositionsCount /\ SlotsHoldLatest /\ GotInOrder /\ InFlight /\ Unlapped

USE KeyboardAssumption

\* Every count has a position in the ring.
LEMMA SlotExists == \A a \in Nat : a % BufSize \in 0..(BufSize - 1)
  OBVIOUS

\* The ring invariant holds at start.
LEMMA RingInit == Init => RingInv
<1> SUFFICES ASSUME Init PROVE RingInv
  OBVIOUS
<1>1. stored = <<>> /\ got = <<>> /\ typed = <<>> /\ Len(stored) = 0 /\ Len(got) = 0
  BY DEF Init
<1>2. 0 % BufSize = 0
  <2>1. 0 = BufSize * 0 + 0
    OBVIOUS
  <2> QED BY <2>1, ModUnique
<1>3. TypeOK
  <2>1. /\ shift_pressed \in BOOLEAN /\ e0_pressed \in BOOLEAN /\ if_flag \in BOOLEAN
        /\ shift_down \in BOOLEAN /\ fake_shift \in BOOLEAN /\ overrun \in BOOLEAN
    BY DEF Init
  <2>2. /\ keyboard_buffer \in [0..(BufSize - 1) -> 0..Len(stored)]
        /\ kbd_head \in 0..(BufSize - 1) /\ kbd_tail \in 0..(BufSize - 1)
        /\ c \in 0..Len(stored) /\ strokes \in 0..MaxKeys
    BY <1>1 DEF Init
  <2>3. /\ pc \in {"running", "cli", "test", "halted", "load", "advance", "sysret", "return"}
        /\ mode \in {"shell", "program"}
        /\ stored \in Seq({"a", "A", "up"}) /\ typed \in Seq({"a", "A", "up"})
        /\ got \in Seq(Nat)
    BY <1>1 DEF Init
  <2> QED BY <2>1, <2>2, <2>3 DEF TypeOK
<1>4. PositionsCount /\ GotInOrder
  BY <1>1, <1>2 DEF Init, PositionsCount, GotInOrder, LastGot
<1>5. SlotsHoldLatest /\ InFlight /\ Unlapped
  BY <1>1 DEF Init, SlotsHoldLatest, InFlight, Unlapped
<1> QED BY <1>3, <1>4, <1>5 DEF RingInv

\* The number of the last character returned is that of one stored.
LEMMA LastGotStored ==
  ASSUME RingInv
  PROVE  /\ LastGot \in 0..Len(stored) /\ Len(stored) \in Nat /\ Len(got) \in Nat
         /\ got \in Seq(Nat) /\ c \in 0..Len(stored)
<1>1. GotInOrder /\ stored \in Seq({"a", "A", "up"}) /\ got \in Seq(Nat) /\ c \in 0..Len(stored)
  BY DEF RingInv, TypeOK
<1>2. Len(stored) \in Nat /\ Len(got) \in Nat
  BY <1>1
<1>3. LastGot \in 0..Len(stored)
  <2>1. CASE got = <<>>
    BY <1>2, <2>1 DEF LastGot
  <2>2. CASE got # <<>>
    <3>1. Len(got) \in 1..Len(got)
      BY <1>1, <2>2
    <3>2. got[Len(got)] \in 1..Len(stored)
      BY <1>1, <3>1 DEF GotInOrder
    <3> QED BY <1>2, <2>2, <3>2 DEF LastGot
  <2> QED BY <2>1, <2>2
<1> QED BY <1>1, <1>2, <1>3

\* A keystroke does not touch the ring.
LEMMA RingStroke == ASSUME RingInv, NEW key \in Keys, Stroke(key) PROVE RingInv'
<1>1. TypeOK'
  <2>1. /\ strokes' \in 0..MaxKeys
        /\ UNCHANGED <<decoder, buffer, if_flag, pc, mode, c, stored, got, overrun>>
    <3>1. strokes \in 0..MaxKeys /\ MaxKeys \in Nat
      BY KeyboardAssumption DEF RingInv, TypeOK
    <3>2. /\ strokes < MaxKeys /\ strokes' = strokes + 1
          /\ UNCHANGED <<decoder, buffer, if_flag, pc, mode, c, stored, got, overrun>>
      BY DEF Stroke
    <3> QED BY <3>1, <3>2
  <2>2. shift_down' \in BOOLEAN /\ typed' \in Seq({"a", "A", "up"}) /\ fake_shift' \in BOOLEAN
    <3>1. key \in {"letter", "arrow", "shift", "printscreen"}
      BY DEF AllKeys
    <3>2. shift_down \in BOOLEAN /\ typed \in Seq({"a", "A", "up"}) /\ fake_shift \in BOOLEAN
      BY DEF RingInv, TypeOK
    <3>3. CASE key = "letter"
      <4>1. /\ typed' = Append(typed, IF shift_down THEN "A" ELSE "a")
            /\ shift_down' = shift_down /\ fake_shift' = fake_shift
        BY <3>3 DEF Stroke
      <4> QED BY <3>2, <4>1
    <3>4. CASE key = "arrow"
      <4>1. /\ typed' = Append(typed, "up") /\ shift_down' = shift_down
            /\ fake_shift' = (fake_shift \/ shift_down)
        BY <3>4 DEF Stroke
      <4>2. fake_shift' \in BOOLEAN
        BY <4>1
      <4> QED BY <3>2, <4>1, <4>2
    <3>5. CASE key = "shift"
      BY <3>2, <3>5 DEF Stroke
    <3>6. CASE key = "printscreen"
      BY <3>2, <3>6 DEF Stroke
    <3> QED BY <3>1, <3>3, <3>4, <3>5, <3>6
  <2> QED BY <2>1, <2>2 DEF RingInv, TypeOK, decoder, buffer
<1>2. UNCHANGED <<buffer, pc, c, stored, got, overrun>>
  BY DEF Stroke
<1> QED
  BY <1>1, <1>2 DEF RingInv, PositionsCount, SlotsHoldLatest, GotInOrder, LastGot, InFlight,
     Unlapped, buffer

\* The handler stores a character: at its position, after all the others.
LEMMA RingPutChar ==
  ASSUME RingInv, NEW ch \in {"a", "A", "up"}, PutChar(ch), UNCHANGED <<got, c>>,
         pc' = IF pc = "halted" THEN "cli" ELSE pc
  PROVE  /\ keyboard_buffer' \in [0..(BufSize - 1) -> 0..Len(stored')]
         /\ kbd_head' \in 0..(BufSize - 1)
         /\ stored' \in Seq({"a", "A", "up"}) /\ Len(stored') = Len(stored) + 1
         /\ overrun' \in BOOLEAN
         /\ PositionsCount' /\ SlotsHoldLatest' /\ GotInOrder' /\ InFlight' /\ Unlapped'
<1> DEFINE s == Len(stored)
           g == Len(got)
<1>1. /\ s \in Nat /\ g \in Nat /\ stored' \in Seq({"a", "A", "up"}) /\ Len(stored') = s + 1
      /\ got' = got /\ c' = c /\ kbd_tail' = kbd_tail /\ LastGot' = LastGot
  BY DEF RingInv, TypeOK, PutChar, LastGot
<1>2. s % BufSize \in 0..(BufSize - 1) /\ (s + 1) % BufSize \in 0..(BufSize - 1)
  <2>1. s \in Nat /\ s + 1 \in Nat
    BY <1>1
  <2> QED BY <2>1, SlotExists
<1>3. kbd_head = s % BufSize /\ kbd_tail = g % BufSize
  BY DEF RingInv, PositionsCount
<1>4. Ring(kbd_head) = (s + 1) % BufSize
  BY <1>1, <1>3, RingCounts DEF Ring
<1>5. keyboard_buffer' = [keyboard_buffer EXCEPT ![s % BufSize] = s + 1]
  BY <1>3 DEF PutChar
<1>6. keyboard_buffer \in [0..(BufSize - 1) -> 0..s]
  BY DEF RingInv, TypeOK
<1>7. keyboard_buffer' \in [0..(BufSize - 1) -> 0..(s + 1)]
  BY <1>1, <1>2, <1>5, <1>6
<1>8. overrun' \in BOOLEAN
  BY DEF RingInv, TypeOK, PutChar
<1>9. PositionsCount'
  BY <1>1, <1>3, <1>4 DEF PutChar, PositionsCount
<1>10. SlotsHoldLatest'
  <2>1. ASSUME NEW k \in 0..(BufSize - 1), keyboard_buffer'[k] # 0
        PROVE  (keyboard_buffer'[k] - 1) % BufSize = k
    <3>1. CASE k = s % BufSize
      BY <1>1, <1>5, <1>6, <3>1
    <3>2. CASE k # s % BufSize
      BY <1>5, <1>6, <2>1, <3>2 DEF RingInv, SlotsHoldLatest
    <3> QED BY <3>1, <3>2
  <2>2. ASSUME NEW i \in 1..(s + 1)
        PROVE  keyboard_buffer'[(i - 1) % BufSize] >= i
    <3>1. (i - 1) % BufSize \in 0..(BufSize - 1)
      <4>1. i - 1 \in Nat
        BY <1>1
      <4> QED BY <4>1, SlotExists
    <3>2. CASE (i - 1) % BufSize = s % BufSize
      BY <1>1, <1>5, <1>6, <3>1, <3>2
    <3>3. CASE (i - 1) % BufSize # s % BufSize
      <4>1. i \in 1..s
        BY <1>1, <3>3
      <4>2. keyboard_buffer[(i - 1) % BufSize] >= i
        BY <4>1 DEF RingInv, SlotsHoldLatest
      <4> QED BY <1>5, <1>6, <3>1, <3>3, <4>2
    <3> QED BY <3>2, <3>3
  <2> QED BY <1>1, <2>1, <2>2 DEF SlotsHoldLatest
<1>11. GotInOrder'
  BY <1>1 DEF RingInv, GotInOrder
<1>12. InFlight'
  <2>1. GotInOrder /\ InFlight /\ TypeOK
    BY DEF RingInv
  <2>2. LastGot \in Nat
    BY <2>1 DEF LastGot, TypeOK, GotInOrder
  <2> QED BY <1>1, <2>1, <2>2 DEF InFlight
<1>13. Unlapped'
  <2>1. SUFFICES ASSUME ~overrun'
                 PROVE  /\ g <= s + 1 /\ s + 1 - g < BufSize
                        /\ pc' \in {"load", "advance"} => g < s + 1
    BY <1>1 DEF Unlapped
  <2>2. ~overrun /\ (s + 1) % BufSize # g % BufSize
    BY <1>3, <1>4, <2>1 DEF PutChar
  <2>3. g <= s /\ s - g < BufSize
    BY <2>2 DEF RingInv, Unlapped
  <2>4. s + 1 # g + BufSize
    BY <1>1, <2>2, RingLap
  <2> QED BY <1>1, <2>3, <2>4
<1> QED BY <1>1, <1>2, <1>4, <1>7, <1>8, <1>9, <1>10, <1>11, <1>12, <1>13 DEF PutChar

\* The handler.
LEMMA RingHandler == ASSUME RingInv, keyboard_handler PROVE RingInv'
<1> DEFINE code == Head(wire)
<1>1. /\ UNCHANGED <<if_flag, mode, c, device, got>>
      /\ pc' = IF pc = "halted" THEN "cli" ELSE pc
  BY DEF keyboard_handler
<1>2. shift_pressed' \in BOOLEAN /\ e0_pressed' \in BOOLEAN
  BY DEF keyboard_handler, PrefixAfter, RingInv, TypeOK
<1>3. pc' \in {"running", "cli", "test", "halted", "load", "advance", "sysret", "return"}
  BY <1>1 DEF RingInv, TypeOK
<1>4. CASE UNCHANGED <<buffer, stored, overrun>>
  <2>1. TypeOK'
    BY <1>1, <1>2, <1>3, <1>4 DEF RingInv, TypeOK, buffer, device
  <2>2. /\ stored' = stored /\ got' = got /\ c' = c /\ overrun' = overrun
        /\ keyboard_buffer' = keyboard_buffer /\ kbd_head' = kbd_head /\ kbd_tail' = kbd_tail
    BY <1>1, <1>4 DEF buffer
  <2>3. PositionsCount' /\ SlotsHoldLatest' /\ GotInOrder'
    BY <2>2 DEF RingInv, PositionsCount, SlotsHoldLatest, GotInOrder, LastGot
  <2>4. InFlight' /\ Unlapped'
    BY <1>1, <2>2 DEF RingInv, InFlight, Unlapped, LastGot
  <2> QED BY <2>1, <2>3, <2>4 DEF RingInv
<1>5. CASE PutChar(Char(code)) /\ Char(code) # "none"
  <2>1. Char(code) \in {"a", "A", "up"}
    BY <1>5 DEF Char
  <2>2. /\ keyboard_buffer' \in [0..(BufSize - 1) -> 0..Len(stored')]
        /\ kbd_head' \in 0..(BufSize - 1)
        /\ stored' \in Seq({"a", "A", "up"}) /\ Len(stored') = Len(stored) + 1
        /\ overrun' \in BOOLEAN
        /\ PositionsCount' /\ SlotsHoldLatest' /\ GotInOrder' /\ InFlight' /\ Unlapped'
    BY <1>1, <1>5, <2>1, RingPutChar
  <2>3. c' \in 0..Len(stored')
    BY <1>1, <2>2 DEF RingInv, TypeOK
  <2>4. TypeOK'
    BY <1>1, <1>2, <1>3, <1>5, <2>2, <2>3 DEF RingInv, TypeOK, PutChar, device
  <2> QED BY <2>2, <2>4 DEF RingInv
<1> QED BY <1>4, <1>5 DEF keyboard_handler

\* getchar finds the ring not empty: there is a character it has not returned.
LEMMA RingTest == ASSUME RingInv, TestBuffer PROVE RingInv'
<1>1. UNCHANGED <<wire, decoder, buffer, mode, c, device, stored, got, overrun>>
  BY DEF TestBuffer
<1>2. TypeOK'
  <2>1. if_flag' \in BOOLEAN /\ pc' \in {"load", "halted"}
    BY DEF TestBuffer
  <2> QED BY <1>1, <2>1 DEF RingInv, TypeOK, buffer, device, decoder
<1>3. PositionsCount' /\ SlotsHoldLatest' /\ GotInOrder'
  BY <1>1 DEF RingInv, PositionsCount, SlotsHoldLatest, GotInOrder, LastGot, buffer
<1>4. LastGot' = LastGot /\ LastGot \in 0..Len(stored) /\ Len(stored) \in Nat /\ Len(got) \in Nat
  BY <1>1, LastGotStored DEF LastGot
<1>5. CASE kbd_head # kbd_tail
  <2>1. pc' = "load"
    BY <1>5 DEF TestBuffer
  <2>2. LastGot # Len(stored) /\ Len(got) # Len(stored)
    BY <1>5 DEF RingInv, PositionsCount, GotInOrder
  <2>3. InFlight'
    BY <1>1, <1>4, <2>1, <2>2 DEF InFlight
  <2>4. Unlapped'
    BY <1>1, <1>4, <2>1, <2>2 DEF RingInv, Unlapped
  <2> QED BY <1>2, <1>3, <2>3, <2>4 DEF RingInv
<1>6. CASE kbd_head = kbd_tail
  <2>1. pc' = "halted"
    BY <1>6 DEF TestBuffer
  <2> QED BY <1>1, <1>2, <1>3, <2>1 DEF RingInv, InFlight, Unlapped
<1> QED BY <1>5, <1>6

\* getchar loads a character newer than the last one it returned.
LEMMA RingLoad == ASSUME RingInv, LoadChar PROVE RingInv'
<1>1. /\ UNCHANGED <<wire, decoder, buffer, if_flag, mode, device, stored, got, overrun>>
      /\ c' = keyboard_buffer[kbd_tail] /\ pc = "load" /\ pc' = "advance"
  BY DEF LoadChar
<1>2. LastGot' = LastGot /\ LastGot \in Nat /\ Len(stored) \in Nat /\ Len(got) \in Nat
  BY <1>1, LastGotStored DEF LastGot
<1>3. kbd_tail = Len(got) % BufSize /\ LastGot % BufSize = Len(got) % BufSize
  BY DEF RingInv, PositionsCount, GotInOrder
<1>4. c' >= LastGot + 1 /\ c' \in 0..Len(stored)
  <2>1. LastGot + 1 \in 1..Len(stored)
    BY <1>1, <1>2 DEF RingInv, InFlight
  <2>2. keyboard_buffer[((LastGot + 1) - 1) % BufSize] >= LastGot + 1
    BY <2>1 DEF RingInv, SlotsHoldLatest
  <2>3. (LastGot + 1) - 1 = LastGot
    BY <1>2
  <2>4. keyboard_buffer[kbd_tail] \in 0..Len(stored)
    BY DEF RingInv, TypeOK
  <2> QED BY <1>1, <1>3, <2>2, <2>3, <2>4
<1>5. (c' - 1) % BufSize = kbd_tail
  <2>1. kbd_tail \in 0..(BufSize - 1) /\ keyboard_buffer[kbd_tail] # 0
    BY <1>1, <1>2, <1>4 DEF RingInv, TypeOK
  <2> QED BY <1>1, <2>1 DEF RingInv, SlotsHoldLatest
<1>6. c' % BufSize = (Len(got) + 1) % BufSize
  <2>1. (c' - 1) \in Nat /\ (c' - 1) + 1 = c'
    <3>1. c' \in Nat \ {0}
      BY <1>2, <1>4
    <3>2. \A n \in Nat \ {0} : (n - 1) \in Nat /\ (n - 1) + 1 = n
      OBVIOUS
    <3> QED BY <3>1, <3>2
  <2> QED BY <1>2, <1>3, <1>5, <2>1, RingCancel
<1>7. TypeOK'
  BY <1>1, <1>4 DEF RingInv, TypeOK, buffer, device, decoder
<1>8. PositionsCount' /\ SlotsHoldLatest' /\ GotInOrder'
  BY <1>1 DEF RingInv, PositionsCount, SlotsHoldLatest, GotInOrder, LastGot, buffer
<1>9. InFlight'
  BY <1>1, <1>2, <1>4, <1>6 DEF InFlight
<1>10. Unlapped'
  BY <1>1 DEF RingInv, Unlapped
<1> QED BY <1>7, <1>8, <1>9, <1>10 DEF RingInv

\* getchar returns the character and moves the tail.
LEMMA RingAdvance == ASSUME RingInv, AdvanceTail PROVE RingInv'
<1>1. /\ UNCHANGED <<wire, decoder, keyboard_buffer, kbd_head, if_flag, mode, c,
                     device, stored, overrun>>
      /\ kbd_tail' = Ring(kbd_tail) /\ got' = Append(got, c) /\ pc = "advance"
      /\ pc' \in {"running", "sysret"}
  BY DEF AdvanceTail
<1>2. /\ got \in Seq(Nat) /\ c \in 0..Len(stored) /\ Len(stored) \in Nat /\ Len(got) \in Nat
      /\ LastGot \in Nat
  BY LastGotStored
<1>3. c > LastGot /\ c % BufSize = (Len(got) + 1) % BufSize
  BY <1>1 DEF RingInv, InFlight
<1>4. /\ got' \in Seq(Nat) /\ Len(got') = Len(got) + 1 /\ LastGot' = c
      /\ \A k \in 1..Len(got) : got'[k] = got[k]
      /\ got'[Len(got) + 1] = c
  BY <1>1, <1>2 DEF LastGot
<1>5. Ring(kbd_tail) = (Len(got) + 1) % BufSize /\ Ring(kbd_tail) \in 0..(BufSize - 1)
  <2>1. kbd_tail = Len(got) % BufSize
    BY DEF RingInv, PositionsCount
  <2>2. Ring(kbd_tail) = (Len(got) + 1) % BufSize
    BY <1>2, <2>1, RingCounts DEF Ring
  <2>3. Len(got) + 1 \in Nat
    BY <1>2
  <2> QED BY <2>2, <2>3, SlotExists
<1>6. TypeOK'
  <2>1. kbd_tail' \in 0..(BufSize - 1)
    BY <1>1, <1>5
  <2> QED BY <1>1, <1>4, <2>1 DEF RingInv, TypeOK, decoder, device
<1>7. PositionsCount' /\ SlotsHoldLatest'
  BY <1>1, <1>4, <1>5 DEF RingInv, PositionsCount, SlotsHoldLatest
<1>8. GotInOrder'
  <2>1. ASSUME NEW k \in 1..Len(got') PROVE got'[k] \in 1..Len(stored')
    BY <1>1, <1>2, <1>3, <1>4 DEF RingInv, GotInOrder
  <2>2. ASSUME NEW k \in 1..(Len(got') - 1) PROVE got'[k] < got'[k + 1]
    <3>1. CASE k < Len(got)
      <4>1. k \in 1..(Len(got) - 1) /\ k \in 1..Len(got) /\ k + 1 \in 1..Len(got)
        BY <1>2, <1>4, <3>1
      <4>2. got[k] < got[k + 1]
        BY <4>1 DEF RingInv, GotInOrder
      <4> QED BY <1>4, <4>1, <4>2
    <3>2. CASE k = Len(got)
      BY <1>2, <1>3, <1>4, <3>2 DEF LastGot
    <3> QED BY <1>2, <1>4, <3>1, <3>2
  <2> QED BY <1>3, <1>4, <2>1, <2>2 DEF GotInOrder
<1>9. InFlight' /\ Unlapped'
  <2>1. ~overrun => Len(got) < Len(stored) /\ Len(stored) - Len(got) < BufSize
    BY <1>1 DEF RingInv, Unlapped
  <2> QED BY <1>1, <1>2, <1>4, <2>1 DEF InFlight, Unlapped
<1> QED BY <1>6, <1>7, <1>8, <1>9 DEF RingInv

\* The steps that leave the ring and what was returned alone, and are not
\* inside getchar after its test.
LEMMA RingOther ==
  ASSUME RingInv,
         UNCHANGED <<decoder, buffer, c, device, stored, got, overrun>>,
         if_flag' \in BOOLEAN, mode' \in {"shell", "program"},
         pc' \in {"running", "cli", "test", "sysret", "return"}
  PROVE  RingInv'
<1>1. TypeOK'
  BY DEF RingInv, TypeOK, decoder, buffer, device
<1>2. PositionsCount' /\ SlotsHoldLatest' /\ GotInOrder'
  BY DEF RingInv, PositionsCount, SlotsHoldLatest, GotInOrder, LastGot, buffer
<1>3. InFlight' /\ Unlapped'
  BY DEF RingInv, InFlight, Unlapped
<1> QED BY <1>1, <1>2, <1>3 DEF RingInv

\* Every step keeps the ring invariant.
LEMMA RingStep == ASSUME RingInv, [Next]_vars PROVE RingInv'
<1>1. if_flag \in BOOLEAN /\ mode \in {"shell", "program"}
  BY DEF RingInv, TypeOK
<1>2. CASE \E key \in Keys : Stroke(key)
  BY <1>2, RingStroke
<1>3. CASE keyboard_handler
  BY <1>3, RingHandler
<1>4. CASE SpuriousWake
  BY <1>1, <1>4, RingOther DEF SpuriousWake
<1>5. CASE DisableInterrupts
  BY <1>1, <1>5, RingOther DEF DisableInterrupts
<1>6. CASE TestBuffer
  BY <1>6, RingTest
<1>7. CASE LoadChar
  BY <1>7, RingLoad
<1>8. CASE AdvanceTail
  BY <1>8, RingAdvance
<1>9. CASE CallGetchar
  BY <1>1, <1>9, RingOther DEF CallGetchar
<1>10. CASE OtherSyscall
  BY <1>1, <1>10, RingOther DEF OtherSyscall
<1>11. CASE SysRet
  BY <1>1, <1>11, RingOther DEF SysRet
<1>12. CASE JumpUsermode
  BY <1>1, <1>12, RingOther DEF JumpUsermode
<1>13. CASE LeaveProgram
  BY <1>1, <1>13, RingOther DEF LeaveProgram
<1>14. CASE asm_return_to_kernel
  BY <1>1, <1>14, RingOther DEF asm_return_to_kernel
<1>15. CASE UNCHANGED vars
  <2>1. TypeOK'
    BY <1>15 DEF vars, RingInv, TypeOK, decoder, buffer, device
  <2>2. PositionsCount' /\ SlotsHoldLatest' /\ GotInOrder'
    BY <1>15 DEF vars, RingInv, PositionsCount, SlotsHoldLatest, GotInOrder, LastGot, buffer
  <2>3. InFlight' /\ Unlapped'
    BY <1>15 DEF vars, RingInv, InFlight, Unlapped, LastGot
  <2> QED BY <2>1, <2>2, <2>3 DEF RingInv
<1> QED
  BY <1>2, <1>3, <1>4, <1>5, <1>6, <1>7, <1>8, <1>9, <1>10, <1>11, <1>12, <1>13, <1>14,
     <1>15 DEF Next

\* In every behaviour the ring invariant holds in every state.
LEMMA RingAlways == Spec => []RingInv
<1>1. Init => RingInv
  BY RingInit
<1>2. RingInv /\ [Next]_vars => RingInv'
  BY RingStep
<1> QED BY <1>1, <1>2, PTL DEF Spec

\* keyboard_getchar returns no character that the handler did not store, none
\* twice and no two in the wrong order: for every length of the buffer and
\* every interleaving of the handler with its test, its load and its advance,
\* a handler that overruns the buffer in between included.
THEOREM KeyboardReturnsNoGhosts == Spec => []NoGhostKeys
<1>1. RingInv => NoGhostKeys
  BY DEF RingInv, GotInOrder, NoGhostKeys
<1> QED BY <1>1, RingAlways, PTL

\* While the buffer has not overrun, the characters returned and those between
\* kbd_tail and kbd_head are all that keyboard_handler stored.
THEOREM KeyboardLosesNothing == Spec => []NothingLostWithoutOverrun
<1>1. RingInv => NothingLostWithoutOverrun
  <2>1. SUFFICES ASSUME RingInv, ~overrun
                 PROVE  Len(stored) = Len(got) + ((kbd_head + BufSize - kbd_tail) % BufSize)
    BY DEF NothingLostWithoutOverrun
  <2>2. /\ Len(stored) \in Nat /\ Len(got) \in Nat
        /\ Len(got) <= Len(stored) /\ Len(stored) - Len(got) < BufSize
    BY <2>1 DEF RingInv, TypeOK, Unlapped
  <2>3. ((Len(stored) % BufSize) + BufSize - (Len(got) % BufSize)) % BufSize
           = Len(stored) - Len(got)
    <3> DEFINE a == Len(stored)
               b == Len(got)
    <3>1. a \in Nat /\ b \in Nat /\ b <= a /\ a - b < BufSize /\ BufSize \in Nat \ {0, 1}
      BY <2>2, KeyboardAssumption
    <3> HIDE DEF a, b
    <3>2. /\ ((a % BufSize) + BufSize - (b % BufSize)) % BufSize = a - b
          /\ a % BufSize = b % BufSize => a = b
      BY <3>1, RingDistance, Zenon
    <3> QED BY <3>2 DEF a, b
  <2> QED BY <2>1, <2>2, <2>3 DEF RingInv, PositionsCount
<1> QED BY <1>1, RingAlways, PTL

-----------------------------------------------------------------------------
(* The decoder.  As long as no E0-prefixed shift was sent, every scancode  *)
(* on the wire is known, and so is what the handler will make of it: ltr   *)
(* is the letter the tables give before each scancode, m the number of     *)
(* characters stored by then.                                              *)

Codes == {"E0", "UP", "UP_UP", "A", "A_UP", "LSHIFT", "LSHIFT_UP"}
WireCodes == Codes \cup {"PRTSC", "PRTSC_UP"}

CaseOf(shift) == IF shift THEN "A" ELSE "a"

\* The scancode before position p was E0.
Prefixed(p) == IF p = 1 THEN e0_pressed ELSE wire[p - 1] = "E0"

\* What the handler makes of the scancode at position p.
Decodes(ltr, m, p) ==
  /\ wire[p] \in Codes
  /\ ltr[p + 1] = CASE wire[p] = "LSHIFT" -> "A"
                    [] wire[p] = "LSHIFT_UP" -> "a"
                    [] OTHER -> ltr[p]
  /\ IF wire[p] \in {"A", "UP"}
       THEN /\ m[p + 1] = m[p] + 1
            /\ typed[m[p] + 1] = IF wire[p] = "A" THEN ltr[p] ELSE "up"
       ELSE m[p + 1] = m[p]

Decoding(ltr, m) ==
  /\ ltr \in [1..(Len(wire) + 1) -> {"a", "A"}]
  /\ m \in [1..(Len(wire) + 1) -> 0..Len(typed)]
  /\ ltr[1] = CaseOf(shift_pressed) /\ ltr[Len(wire) + 1] = CaseOf(shift_down)
  /\ m[1] = Len(stored) /\ m[Len(wire) + 1] = Len(typed)
  /\ \A p \in 1..Len(wire) : Decodes(ltr, m, p)
  /\ \A p \in 1..(Len(wire) + 1) :
       Prefixed(p) <=> p <= Len(wire) /\ wire[p] \in {"UP", "UP_UP"}

DecodeInv ==
  /\ TypeOK
  /\ wire \in Seq(WireCodes)
  /\ ~fake_shift => /\ \A i \in 1..Len(stored) : stored[i] = typed[i]
                    /\ \E ltr, m : Decoding(ltr, m)

\* The decoder's invariant holds at start.
LEMMA DecodeInit == Init => DecodeInv
<1> SUFFICES ASSUME Init PROVE DecodeInv
  OBVIOUS
<1>1. TypeOK
  BY RingInit DEF RingInv
<1>2. /\ wire = <<>> /\ typed = <<>> /\ stored = <<>> /\ shift_pressed = FALSE
      /\ shift_down = FALSE /\ e0_pressed = FALSE /\ Len(wire) = 0 /\ Len(typed) = 0 /\ Len(stored) = 0
  BY DEF Init
<1> DEFINE ltr == [p \in 1..(Len(wire) + 1) |-> "a"]
           m == [p \in 1..(Len(wire) + 1) |-> 0]
<1>3. Decoding(ltr, m)
  BY <1>2 DEF Decoding, Decodes, CaseOf, Prefixed
<1> QED BY <1>1, <1>2, <1>3 DEF DecodeInv

\* The wire grows from W to E scancodes, and typed with it; l2 and m2 extend
\* ltr and m over them.
Appends(ltr, m, l2, m2, W, E) ==
  /\ Len(wire) = W /\ Len(wire') = E /\ \A p \in 1..W : wire'[p] = wire[p]
  /\ Len(typed') \in Nat /\ Len(typed) <= Len(typed')
  /\ \A i \in 1..Len(typed) : typed'[i] = typed[i]
  /\ UNCHANGED <<stored, shift_pressed, e0_pressed>>
  /\ l2 \in [1..(E + 1) -> {"a", "A"}] /\ m2 \in [1..(E + 1) -> 0..Len(typed')]
  /\ \A p \in 1..(W + 1) : l2[p] = ltr[p] /\ m2[p] = m[p]
  /\ l2[E + 1] = CaseOf(shift_down') /\ m2[E + 1] = Len(typed')
  /\ \A p \in (W + 1)..E : Decodes(l2, m2, p)'
  /\ wire'[W + 1] \notin {"UP", "UP_UP"}
  /\ \A p \in (W + 2)..(E + 1) :
       wire'[p - 1] = "E0" <=> p <= E /\ wire'[p] \in {"UP", "UP_UP"}

\* The lengths are numbers.
LEMMA DecodeLengths ==
  ASSUME DecodeInv
  PROVE  Len(wire) \in Nat /\ Len(typed) \in Nat /\ Len(stored) \in Nat
<1>1. /\ wire \in Seq(WireCodes)
      /\ typed \in Seq({"a", "A", "up"}) /\ stored \in Seq({"a", "A", "up"})
  BY DEF DecodeInv, TypeOK
<1> QED BY <1>1

\* A keystroke appends scancodes: what was known of the ones before them stays.
LEMMA DecodeAppend ==
  ASSUME DecodeInv, NEW ltr, NEW m, Decoding(ltr, m), NEW l2, NEW m2,
         NEW W \in Nat, NEW E \in Nat, E > W, Appends(ltr, m, l2, m2, W, E)
  PROVE  Decoding(l2, m2)'
<1>0. W = Len(wire) /\ E = Len(wire')
  BY DEF Appends
<1>1. /\ l2 \in [1..(Len(wire') + 1) -> {"a", "A"}] /\ m2 \in [1..(Len(wire') + 1) -> 0..Len(typed')]
      /\ l2[Len(wire') + 1] = CaseOf(shift_down') /\ m2[Len(wire') + 1] = Len(typed')
  BY DEF Appends
<1>2. l2[1] = CaseOf(shift_pressed') /\ m2[1] = Len(stored')
  BY <1>0 DEF Decoding, CaseOf, Appends
<1>3. Len(typed) \in Nat
  BY DEF DecodeInv, TypeOK
<1>4. ASSUME NEW p \in 1..Len(wire') PROVE Decodes(l2, m2, p)'
  <2>1. CASE p <= W
    <3>1. p \in 1..W /\ p + 1 \in 1..(W + 1) /\ p \in 1..(W + 1)
      BY <1>0, <2>1
    <3>2. l2[p] = ltr[p] /\ l2[p + 1] = ltr[p + 1] /\ m2[p] = m[p] /\ m2[p + 1] = m[p + 1]
      BY <3>1 DEF Appends
    <3>3. wire'[p] = wire[p] /\ Decodes(ltr, m, p)
      BY <1>0, <3>1 DEF Decoding, Appends
    <3>4. m[p] \in 0..Len(typed) /\ m[p + 1] \in 0..Len(typed)
      BY <1>0, <3>1 DEF Decoding
    <3>5. m[p + 1] = m[p] + 1 => typed'[m[p] + 1] = typed[m[p] + 1]
      <4>1. m[p + 1] = m[p] + 1 => m[p] + 1 \in 1..Len(typed)
        BY <1>3, <3>4
      <4> QED BY <4>1 DEF Appends
    <3> QED BY <3>2, <3>3, <3>5 DEF Decodes
  <2>2. CASE p > W
    <3>1. p \in (W + 1)..E
      BY <1>0, <2>2
    <3> QED BY <3>1 DEF Appends
  <2> QED BY <1>0, <2>1, <2>2
<1>5. ASSUME NEW p \in 1..(Len(wire') + 1)
      PROVE  Prefixed(p)' <=> p <= Len(wire') /\ wire'[p] \in {"UP", "UP_UP"}
  <2>1. CASE p <= W
    <3>1. p \in 1..(Len(wire) + 1) /\ p <= Len(wire) /\ p <= Len(wire') /\ p \in 1..W
      BY <1>0, <2>1
    <3>2. Prefixed(p) <=> wire[p] \in {"UP", "UP_UP"}
      BY <3>1 DEF Decoding
    <3>3. Prefixed(p)' <=> Prefixed(p)
      BY <3>1 DEF Prefixed, Appends
    <3> QED BY <3>1, <3>2, <3>3 DEF Appends
  <2>2. CASE p = W + 1
    <3>1. p \in 1..(Len(wire) + 1) /\ ~(p <= Len(wire))
      BY <1>0, <2>2
    <3>2. ~Prefixed(p)
      BY <3>1 DEF Decoding
    <3>3. Prefixed(p)' <=> Prefixed(p)
      BY <2>2 DEF Prefixed, Appends
    <3> QED BY <2>2, <3>2, <3>3 DEF Appends
  <2>3. CASE p > W + 1
    <3>1. p \in (W + 2)..(E + 1) /\ p # 1
      BY <1>0, <2>3
    <3> QED BY <1>0, <3>1 DEF Prefixed, Appends
  <2>4. p <= W \/ p = W + 1 \/ p > W + 1
    BY <1>0
  <2> QED BY <2>1, <2>2, <2>3, <2>4
<1> QED BY <1>1, <1>2, <1>4, <1>5 DEF Decoding

\* The shift key.
LEMMA DecodeShift ==
  ASSUME DecodeInv, Stroke("shift"), ~fake_shift'
  PROVE  \E ltr, m : Decoding(ltr, m)'
<1>1. PICK W \in Nat : W = Len(wire)
  BY DEF DecodeInv
<1> DEFINE E == W + 1
<1>2. /\ wire' = wire \o <<IF shift_down THEN "LSHIFT_UP" ELSE "LSHIFT">>
      /\ shift_down' = ~shift_down /\ ~fake_shift
      /\ typed' = typed /\ UNCHANGED <<stored, shift_pressed, e0_pressed>>
  BY DEF Stroke, decoder
<1>3. /\ Len(wire') = W + 1 /\ \A p \in 1..W : wire'[p] = wire[p]
      /\ wire'[W + 1] = IF shift_down THEN "LSHIFT_UP" ELSE "LSHIFT"
  BY <1>1, <1>2 DEF DecodeInv
<1>4. PICK ltr, m : Decoding(ltr, m)
  BY <1>2 DEF DecodeInv
<1>5. Len(typed) \in Nat
  BY DEF DecodeInv, TypeOK
<1>6. CaseOf(shift_down') = IF wire'[W + 1] = "LSHIFT" THEN "A" ELSE "a"
  BY <1>2, <1>3 DEF CaseOf
<1>7. PICK l2, m2 :
         /\ l2 = [p \in 1..(E + 1) |-> IF p <= W + 1 THEN ltr[p] ELSE CaseOf(shift_down')]
         /\ m2 = [p \in 1..(E + 1) |-> IF p <= W + 1 THEN m[p] ELSE Len(typed)]
  OBVIOUS
<1>8. /\ l2 \in [1..(E + 1) -> {"a", "A"}] /\ m2 \in [1..(E + 1) -> 0..Len(typed')]
      /\ l2[E + 1] = CaseOf(shift_down') /\ m2[E + 1] = Len(typed')
      /\ \A p \in 1..(W + 1) : l2[p] = ltr[p] /\ m2[p] = m[p]
  BY <1>1, <1>2, <1>4, <1>5, <1>7 DEF Decoding, CaseOf
<1>9. Decodes(l2, m2, W + 1)'
  <2>1. m2[W + 1] = Len(typed)
    BY <1>1, <1>4, <1>8 DEF Decoding
  <2>2. l2[E + 1] = CaseOf(shift_down') /\ m2[E + 1] = Len(typed)
    BY <1>2, <1>8
  <2>3. wire'[W + 1] \in {"LSHIFT", "LSHIFT_UP"}
    BY <1>3
  <2> QED BY <1>6, <2>1, <2>2, <2>3 DEF Decodes, Codes
<1>10. Decoding(l2, m2)'
  <2>1. E \in Nat /\ E > W /\ \A p \in (W + 1)..E : p = W + 1
    OBVIOUS
  <2>2. \A p \in (W + 2)..(E + 1) : p - 1 = W + 1 /\ ~(p <= E)
    OBVIOUS
  <2>3. wire'[W + 1] \in {"LSHIFT", "LSHIFT_UP"}
    BY <1>3
  <2>4. \A p \in (W + 1)..E : Decodes(l2, m2, p)'
    BY <1>9, <2>1
  <2>5. \A p \in (W + 2)..(E + 1) :
            wire'[p - 1] = "E0" <=> p <= E /\ wire'[p] \in {"UP", "UP_UP"}
    BY <2>2, <2>3
  <2>6. wire'[W + 1] \notin {"UP", "UP_UP"}
    BY <2>3
  <2>7. Len(wire') = E /\ Len(typed') \in Nat /\ Len(typed) <= Len(typed')
    BY <1>2, <1>3, <1>5
  <2>8. \A i \in 1..Len(typed) : typed'[i] = typed[i]
    BY <1>2
  <2> HIDE DEF E
  <2>9. Appends(ltr, m, l2, m2, W, E)
    BY <1>1, <1>2, <1>3, <1>8, <2>4, <2>5, <2>6, <2>7, <2>8 DEF Appends
  <2> QED BY <1>4, <2>1, <2>9, DecodeAppend
<1> QED BY <1>10

\* A letter.
LEMMA DecodeLetter ==
  ASSUME DecodeInv, Stroke("letter"), ~fake_shift'
  PROVE  \E ltr, m : Decoding(ltr, m)'
<1>1. PICK W \in Nat : W = Len(wire)
  BY DEF DecodeInv
<1>2. PICK T \in Nat : T = Len(typed)
  BY DEF DecodeInv, TypeOK
<1> DEFINE E == W + 2
<1>3. /\ wire' = wire \o <<"A", "A_UP">>
      /\ typed' = Append(typed, CaseOf(shift_down))
      /\ shift_down' = shift_down /\ ~fake_shift /\ UNCHANGED <<stored, shift_pressed, e0_pressed>>
  BY DEF Stroke, decoder, CaseOf
<1>4. /\ Len(wire') = E /\ \A p \in 1..W : wire'[p] = wire[p]
      /\ wire'[W + 1] = "A" /\ wire'[W + 2] = "A_UP"
  BY <1>1, <1>3 DEF DecodeInv
<1>5. CaseOf(shift_down) \in {"a", "A"} /\ CaseOf(shift_down') = CaseOf(shift_down)
  BY <1>3 DEF CaseOf
<1>6. /\ Len(typed') = T + 1 /\ \A i \in 1..T : typed'[i] = typed[i]
      /\ typed'[T + 1] = CaseOf(shift_down)
  BY <1>2, <1>3, <1>5 DEF DecodeInv, TypeOK
<1>7. PICK ltr, m : Decoding(ltr, m)
  BY <1>3 DEF DecodeInv
<1>8. PICK l2, m2 :
         /\ l2 = [p \in 1..(E + 1) |-> IF p <= W + 1 THEN ltr[p] ELSE CaseOf(shift_down)]
         /\ m2 = [p \in 1..(E + 1) |-> IF p <= W + 1 THEN m[p] ELSE T + 1]
  OBVIOUS
<1>9. /\ l2 \in [1..(E + 1) -> {"a", "A"}] /\ m2 \in [1..(E + 1) -> 0..(T + 1)]
      /\ \A p \in 1..(W + 1) : l2[p] = ltr[p] /\ m2[p] = m[p]
      /\ l2[W + 1] = CaseOf(shift_down) /\ m2[W + 1] = T
      /\ l2[W + 2] = CaseOf(shift_down) /\ m2[W + 2] = T + 1
      /\ l2[W + 3] = CaseOf(shift_down) /\ m2[W + 3] = T + 1
      /\ E + 1 = W + 3
  BY <1>1, <1>2, <1>5, <1>7, <1>8 DEF Decoding
<1>10. Decodes(l2, m2, W + 1)'
  <2>1. (W + 1) + 1 = W + 2
    OBVIOUS
  <2> QED BY <1>4, <1>6, <1>9, <2>1 DEF Decodes, Codes
<1>11. Decodes(l2, m2, W + 2)'
  <2>1. (W + 2) + 1 = W + 3
    OBVIOUS
  <2> QED BY <1>4, <1>9, <2>1 DEF Decodes, Codes
<1>12. Appends(ltr, m, l2, m2, W, E)
  <2>1. \A p \in (W + 1)..E : p = W + 1 \/ p = W + 2
    OBVIOUS
  <2>2. \A p \in (W + 1)..E : Decodes(l2, m2, p)'
    BY <1>10, <1>11, <2>1
  <2>3. \A p \in (W + 2)..(E + 1) : p - 1 \in {W + 1, W + 2} /\ (p <= E => p = W + 2)
    OBVIOUS
  <2>4. \A p \in (W + 2)..(E + 1) :
            wire'[p - 1] = "E0" <=> p <= E /\ wire'[p] \in {"UP", "UP_UP"}
    BY <1>4, <2>3
  <2>5. wire'[W + 1] \notin {"UP", "UP_UP"}
    BY <1>4
  <2> HIDE DEF E
  <2> QED BY <1>1, <1>2, <1>3, <1>4, <1>5, <1>6, <1>9, <2>2, <2>4, <2>5 DEF Appends
<1>13. E \in Nat /\ E > W
  OBVIOUS
<1>14. Decoding(l2, m2)'
  BY <1>7, <1>12, <1>13, DecodeAppend
<1> QED BY <1>14

\* An arrow key without shift.
LEMMA DecodeArrow ==
  ASSUME DecodeInv, Stroke("arrow"), ~fake_shift'
  PROVE  \E ltr, m : Decoding(ltr, m)'
<1>1. PICK W \in Nat : W = Len(wire)
  BY DEF DecodeInv
<1>2. PICK T \in Nat : T = Len(typed)
  BY DEF DecodeInv, TypeOK
<1> DEFINE E == W + 4
<1>3. /\ wire' = wire \o <<"E0", "UP", "E0", "UP_UP">>
      /\ typed' = Append(typed, "up")
      /\ shift_down' = shift_down /\ ~fake_shift /\ UNCHANGED <<stored, shift_pressed, e0_pressed>>
  BY DEF Stroke, decoder
<1>4. /\ Len(wire') = E /\ \A p \in 1..W : wire'[p] = wire[p]
      /\ wire'[W + 1] = "E0" /\ wire'[W + 2] = "UP"
      /\ wire'[W + 3] = "E0" /\ wire'[W + 4] = "UP_UP"
  BY <1>1, <1>3 DEF DecodeInv
<1>5. CaseOf(shift_down) \in {"a", "A"} /\ CaseOf(shift_down') = CaseOf(shift_down)
  BY <1>3 DEF CaseOf
<1>6. Len(typed') = T + 1 /\ (\A i \in 1..T : typed'[i] = typed[i]) /\ typed'[T + 1] = "up"
  BY <1>2, <1>3 DEF DecodeInv, TypeOK
<1>7. PICK ltr, m : Decoding(ltr, m)
  BY <1>3 DEF DecodeInv
<1>8. PICK l2, m2 :
         /\ l2 = [p \in 1..(E + 1) |-> IF p <= W + 1 THEN ltr[p] ELSE CaseOf(shift_down)]
         /\ m2 = [p \in 1..(E + 1) |-> IF p <= W + 1 THEN m[p] ELSE IF p = W + 2 THEN T ELSE T + 1]
  OBVIOUS
<1>9. /\ l2 \in [1..(E + 1) -> {"a", "A"}] /\ m2 \in [1..(E + 1) -> 0..(T + 1)]
      /\ \A p \in 1..(W + 1) : l2[p] = ltr[p] /\ m2[p] = m[p]
      /\ \A p \in (W + 1)..(W + 5) : l2[p] = CaseOf(shift_down)
      /\ m2[W + 1] = T /\ m2[W + 2] = T
      /\ m2[W + 3] = T + 1 /\ m2[W + 4] = T + 1 /\ m2[W + 5] = T + 1
      /\ E + 1 = W + 5
  BY <1>1, <1>2, <1>5, <1>7, <1>8 DEF Decoding
<1>10. \A p \in (W + 1)..E : Decodes(l2, m2, p)'
  <2>1. Decodes(l2, m2, W + 1)'
    <3>1. (W + 1) + 1 = W + 2 /\ W + 1 \in (W + 1)..(W + 5) /\ W + 2 \in (W + 1)..(W + 5)
      OBVIOUS
    <3> QED BY <1>4, <1>9, <3>1 DEF Decodes, Codes
  <2>2. Decodes(l2, m2, W + 2)'
    <3>1. (W + 2) + 1 = W + 3 /\ W + 2 \in (W + 1)..(W + 5) /\ W + 3 \in (W + 1)..(W + 5)
      OBVIOUS
    <3> QED BY <1>4, <1>6, <1>9, <3>1 DEF Decodes, Codes
  <2>3. Decodes(l2, m2, W + 3)'
    <3>1. (W + 3) + 1 = W + 4 /\ W + 3 \in (W + 1)..(W + 5) /\ W + 4 \in (W + 1)..(W + 5)
      OBVIOUS
    <3> QED BY <1>4, <1>9, <3>1 DEF Decodes, Codes
  <2>4. Decodes(l2, m2, W + 4)'
    <3>1. (W + 4) + 1 = W + 5 /\ W + 4 \in (W + 1)..(W + 5) /\ W + 5 \in (W + 1)..(W + 5)
      OBVIOUS
    <3> QED BY <1>4, <1>9, <3>1 DEF Decodes, Codes
  <2>5. \A p \in (W + 1)..E : p = W + 1 \/ p = W + 2 \/ p = W + 3 \/ p = W + 4
    OBVIOUS
  <2> QED BY <2>1, <2>2, <2>3, <2>4, <2>5
<1>11. \A p \in (W + 2)..(E + 1) :
            wire'[p - 1] = "E0" <=> p <= E /\ wire'[p] \in {"UP", "UP_UP"}
  <2>1. SUFFICES ASSUME NEW p \in (W + 2)..(E + 1)
                 PROVE  wire'[p - 1] = "E0" <=> p <= E /\ wire'[p] \in {"UP", "UP_UP"}
    OBVIOUS
  <2>2. \/ p = W + 2 /\ p - 1 = W + 1 /\ p <= E
        \/ p = W + 3 /\ p - 1 = W + 2 /\ p <= E
        \/ p = W + 4 /\ p - 1 = W + 3 /\ p <= E
        \/ p = W + 5 /\ p - 1 = W + 4 /\ ~(p <= E)
    OBVIOUS
  <2> QED BY <1>4, <2>2
<1>12. Appends(ltr, m, l2, m2, W, E)
  <2>1. wire'[W + 1] \notin {"UP", "UP_UP"}
    BY <1>4
  <2>2. l2[E + 1] = CaseOf(shift_down) /\ m2[E + 1] = T + 1
    BY <1>9
  <2> HIDE DEF E
  <2> QED BY <1>1, <1>2, <1>3, <1>4, <1>5, <1>6, <1>9, <1>10, <1>11, <2>1, <2>2 DEF Appends
<1>13. E \in Nat /\ E > W
  OBVIOUS
<1>14. Decoding(l2, m2)'
  BY <1>7, <1>12, <1>13, DecodeAppend
<1> QED BY <1>14

\* Every keystroke keeps the decoder's invariant.
LEMMA DecodeStroke == ASSUME DecodeInv, TypeOK', NEW key \in Keys, Stroke(key) PROVE DecodeInv'
<1>1. key \in {"letter", "arrow", "shift", "printscreen"}
  BY DEF AllKeys
<1>2. wire' \in Seq(WireCodes)
  <2>0. wire \in Seq(WireCodes)
    BY DEF DecodeInv
  <2>1. CASE key = "letter"
    <3>1. wire' = wire \o <<"A", "A_UP">>
      BY <2>1 DEF Stroke
    <3> QED BY <2>0, <3>1 DEF WireCodes, Codes
  <2>2. CASE key = "shift"
    BY <2>0, <2>2 DEF Stroke, WireCodes, Codes
  <2>3. CASE key = "arrow"
    <3>1. CASE shift_down
      <4>1. wire' = wire \o <<"E0", "LSHIFT_UP", "E0", "UP", "E0", "UP_UP", "E0", "LSHIFT">>
        BY <2>3, <3>1 DEF Stroke
      <4> QED BY <2>0, <4>1 DEF WireCodes, Codes
    <3>2. CASE ~shift_down
      <4>1. wire' = wire \o <<"E0", "UP", "E0", "UP_UP">>
        BY <2>3, <3>2 DEF Stroke
      <4> QED BY <2>0, <4>1 DEF WireCodes, Codes
    <3> QED BY <3>1, <3>2
  <2>4. CASE key = "printscreen"
    <3>1. wire' = wire \o <<"E0", "LSHIFT", "E0", "PRTSC", "E0", "PRTSC_UP", "E0", "LSHIFT_UP">>
      BY <2>4 DEF Stroke
    <3> QED BY <2>0, <3>1 DEF WireCodes, Codes
  <2> QED BY <1>1, <2>1, <2>2, <2>3, <2>4
<1>3. ASSUME ~fake_shift'
      PROVE  /\ \A i \in 1..Len(stored') : stored'[i] = typed'[i]
             /\ \E ltr, m : Decoding(ltr, m)'
  <2>1. key # "printscreen" /\ ~fake_shift
    <3>1. key # "printscreen"
      BY <1>3 DEF Stroke
    <3>2. CASE key = "letter"
      BY <1>3, <3>2 DEF Stroke
    <3>3. CASE key = "shift"
      BY <1>3, <3>3 DEF Stroke
    <3>4. CASE key = "arrow"
      BY <1>3, <3>4 DEF Stroke
    <3> QED BY <1>1, <3>1, <3>2, <3>3, <3>4
  <2>2. \E ltr, m : Decoding(ltr, m)'
    BY <1>1, <1>3, <2>1, DecodeShift, DecodeLetter, DecodeArrow
  <2>3. Len(stored) <= Len(typed) /\ \A i \in 1..Len(stored) : stored[i] = typed[i]
    <3>1. PICK ltr, m : Decoding(ltr, m)
      BY <2>1 DEF DecodeInv
    <3>2. Len(wire) \in Nat /\ Len(typed) \in Nat
      BY DecodeLengths
    <3>3. m[1] \in 0..Len(typed) /\ m[1] = Len(stored)
      BY <3>1, <3>2 DEF Decoding
    <3> QED BY <2>1, <3>2, <3>3 DEF DecodeInv
  <2>4. stored' = stored
    BY DEF Stroke
  <2>5. \A i \in 1..Len(typed) : typed'[i] = typed[i]
    <3>1. typed \in Seq({"a", "A", "up"})
      BY DEF DecodeInv, TypeOK
    <3>2. typed' = typed \/ \E ch \in {"a", "A", "up"} : typed' = Append(typed, ch)
      BY <1>1 DEF Stroke
    <3> QED BY <3>1, <3>2
  <2>6. Len(stored) \in Nat /\ Len(typed) \in Nat
    BY DecodeLengths
  <2> QED BY <2>2, <2>3, <2>4, <2>5, <2>6
<1> QED BY <1>2, <1>3 DEF DecodeInv

\* The handler makes of a scancode what was foreseen.
LEMMA DecodeHandler == ASSUME DecodeInv, TypeOK', keyboard_handler PROVE DecodeInv'
<1>1. PICK W \in Nat : W = Len(wire) /\ W # 0
  BY DEF DecodeInv, keyboard_handler
<1>2. /\ wire \in Seq(WireCodes) /\ wire' = Tail(wire) /\ Head(wire) = wire[1]
      /\ typed' = typed /\ shift_down' = shift_down /\ fake_shift' = fake_shift
  BY DEF DecodeInv, keyboard_handler, device
<1>3. /\ wire' \in Seq(WireCodes) /\ Len(wire') = W - 1
      /\ \A p \in 1..(W - 1) : wire'[p] = wire[p + 1]
  BY <1>1, <1>2
<1>4. SUFFICES ASSUME ~fake_shift
               PROVE  /\ \A i \in 1..Len(stored') : stored'[i] = typed[i]
                      /\ \E ltr, m : Decoding(ltr, m)'
  BY <1>2, <1>3 DEF DecodeInv
<1>5. PICK ltr, m : Decoding(ltr, m)
  BY <1>4 DEF DecodeInv
<1>6. PICK l2, m2 : l2 = [p \in 1..W |-> ltr[p + 1]] /\ m2 = [p \in 1..W |-> m[p + 1]]
  OBVIOUS
<1>7. 1 \in 1..W /\ 1 \in 1..(W + 1) /\ 2 \in 1..(W + 1) /\ W = (W - 1) + 1 /\ W \in 1..W
  BY <1>1
<1>8. /\ l2 \in [1..W -> {"a", "A"}] /\ m2 \in [1..W -> 0..Len(typed)]
      /\ \A p \in 1..W : l2[p] = ltr[p + 1] /\ m2[p] = m[p + 1]
  BY <1>1, <1>5, <1>6 DEF Decoding
<1>9. /\ Decodes(ltr, m, 1) /\ ltr[1] = CaseOf(shift_pressed) /\ m[1] = Len(stored)
      /\ m[1] \in 0..Len(typed) /\ m[2] \in 0..Len(typed) /\ Len(typed) \in Nat
      /\ e0_pressed <=> wire[1] \in {"UP", "UP_UP"}
  <2>1. Prefixed(1) <=> 1 <= Len(wire) /\ wire[1] \in {"UP", "UP_UP"}
    BY <1>1, <1>5, <1>7 DEF Decoding
  <2>2. Prefixed(1) <=> e0_pressed
    BY DEF Prefixed
  <2>3. 1 <= Len(wire)
    BY <1>1
  <2>4. Decodes(ltr, m, 1) /\ ltr[1] = CaseOf(shift_pressed) /\ m[1] = Len(stored)
    BY <1>1, <1>5, <1>7 DEF Decoding
  <2>5. m[1] \in 0..Len(typed) /\ m[2] \in 0..Len(typed)
    BY <1>1, <1>5, <1>7 DEF Decoding
  <2> QED BY <2>1, <2>2, <2>3, <2>4, <2>5, DecodeLengths
<1>10. wire[1] \in Codes /\ ltr[1 + 1] = ltr[2] /\ m[1 + 1] = m[2]
  BY <1>9 DEF Decodes
<1>11. e0_pressed' <=> wire[1] = "E0"
  <2>1. e0_pressed' = PrefixAfter(wire[1])
    BY <1>2 DEF keyboard_handler
  <2> QED BY <1>9, <1>10, <2>1 DEF PrefixAfter, Codes
<1>12. CaseOf(shift_pressed') = ltr[2]
  <2>1. shift_pressed' = CASE wire[1] = "LSHIFT" -> TRUE
                           [] wire[1] = "LSHIFT_UP" -> FALSE
                           [] OTHER -> shift_pressed
    BY <1>2 DEF keyboard_handler
  <2>2. ltr[2] = CASE wire[1] = "LSHIFT" -> "A"
                   [] wire[1] = "LSHIFT_UP" -> "a"
                   [] OTHER -> ltr[1]
    BY <1>9, <1>10 DEF Decodes
  <2>3. CASE wire[1] = "LSHIFT"
    BY <2>1, <2>2, <2>3 DEF CaseOf
  <2>4. CASE wire[1] = "LSHIFT_UP"
    BY <2>1, <2>2, <2>4 DEF CaseOf
  <2>5. CASE wire[1] \notin {"LSHIFT", "LSHIFT_UP"}
    BY <1>9, <2>1, <2>2, <2>5 DEF CaseOf
  <2> QED BY <2>3, <2>4, <2>5
<1>13. Len(stored') = m[2] /\ \A i \in 1..Len(stored') : stored'[i] = typed[i]
  <2>1. stored \in Seq({"a", "A", "up"}) /\ \A i \in 1..Len(stored) : stored[i] = typed[i]
    BY <1>4 DEF DecodeInv, TypeOK
  <2>2. CASE wire[1] \in {"A", "UP"}
    <3>1. m[2] = m[1] + 1 /\ typed[m[1] + 1] = IF wire[1] = "A" THEN ltr[1] ELSE "up"
      BY <1>9, <1>10, <2>2 DEF Decodes
    <3>2. Char(wire[1]) = typed[m[1] + 1] /\ Char(wire[1]) \in {"a", "A", "up"}
      BY <1>9, <2>2, <3>1 DEF Char, CaseOf
    <3>3. stored' = Append(stored, Char(wire[1]))
      <4>1. ~(wire[1] \in {"E0", "LSHIFT", "LSHIFT_UP"} \cup Breaks \/ Char(wire[1]) = "none")
        BY <2>2, <3>2 DEF Breaks
      <4> QED BY <1>2, <4>1 DEF keyboard_handler, PutChar
    <3>4. /\ Len(stored') = Len(stored) + 1 /\ stored'[Len(stored) + 1] = Char(wire[1])
          /\ \A i \in 1..Len(stored) : stored'[i] = stored[i]
      BY <2>1, <3>2, <3>3
    <3>5. \A i \in 1..(Len(stored) + 1) : i \in 1..Len(stored) \/ i = Len(stored) + 1
      BY <2>1
    <3> QED BY <1>9, <2>1, <3>1, <3>2, <3>4, <3>5
  <2>3. CASE wire[1] \notin {"A", "UP"}
    <3>1. m[2] = m[1]
      BY <1>9, <1>10, <2>3 DEF Decodes
    <3>2. wire[1] \in {"E0", "LSHIFT", "LSHIFT_UP"} \cup Breaks
      BY <1>10, <2>3 DEF Codes, Breaks
    <3>3. stored' = stored
      BY <1>2, <3>2 DEF keyboard_handler
    <3> QED BY <1>9, <2>1, <3>1, <3>3
  <2> QED BY <2>2, <2>3
<1>14. ASSUME NEW p \in 1..(W - 1) PROVE Decodes(l2, m2, p)'
  <2>1. /\ p \in 1..W /\ p + 1 \in 1..W /\ p + 1 \in 1..Len(wire)
    BY <1>1
  <2>2. Decodes(ltr, m, p + 1) /\ wire'[p] = wire[p + 1]
    BY <1>3, <1>5, <2>1 DEF Decoding
  <2>3. l2[p] = ltr[p + 1] /\ l2[p + 1] = ltr[(p + 1) + 1] /\ m2[p] = m[p + 1] /\ m2[p + 1] = m[(p + 1) + 1]
    BY <1>8, <2>1
  <2> QED BY <1>2, <2>2, <2>3 DEF Decodes
<1>15. ASSUME NEW p \in 1..W
       PROVE  Prefixed(p)' <=> p <= W - 1 /\ wire'[p] \in {"UP", "UP_UP"}
  <2>1. p + 1 \in 1..(Len(wire) + 1) /\ (p <= W - 1 <=> p + 1 <= Len(wire)) /\ (p + 1) - 1 = p /\ p + 1 # 1
    BY <1>1
  <2>2. wire[p] = "E0" <=> p + 1 <= Len(wire) /\ wire[p + 1] \in {"UP", "UP_UP"}
    <3>1. Prefixed(p + 1) <=> wire[p] = "E0"
      BY <2>1 DEF Prefixed
    <3> QED BY <1>5, <2>1, <3>1 DEF Decoding
  <2>3. p <= W - 1 => wire'[p] = wire[p + 1]
    BY <1>1, <1>3
  <2>4. Prefixed(p)' <=> wire[p] = "E0"
    <3>1. CASE p = 1
      BY <1>11, <3>1 DEF Prefixed
    <3>2. CASE p # 1
      <4>1. p - 1 \in 1..(W - 1) /\ (p - 1) + 1 = p
        BY <1>1, <3>2
      <4>2. wire'[p - 1] = wire[p]
        BY <1>3, <4>1
      <4> QED BY <3>2, <4>2 DEF Prefixed
    <3> QED BY <3>1, <3>2
  <2> QED BY <2>1, <2>2, <2>3, <2>4
<1>16. Decoding(l2, m2)'
  <2>1. /\ l2 \in [1..(Len(wire') + 1) -> {"a", "A"}] /\ m2 \in [1..(Len(wire') + 1) -> 0..Len(typed')]
    BY <1>2, <1>3, <1>7, <1>8
  <2>2. l2[1] = CaseOf(shift_pressed') /\ m2[1] = Len(stored')
    BY <1>7, <1>8, <1>10, <1>12, <1>13
  <2>3. l2[Len(wire') + 1] = CaseOf(shift_down') /\ m2[Len(wire') + 1] = Len(typed')
    <3>1. l2[W] = ltr[W + 1] /\ m2[W] = m[W + 1]
      BY <1>7, <1>8
    <3> QED BY <1>1, <1>2, <1>3, <1>5, <1>7, <3>1 DEF Decoding, CaseOf
  <2>4. \A p \in 1..Len(wire') : Decodes(l2, m2, p)'
    BY <1>3, <1>14
  <2>5. \A p \in 1..(Len(wire') + 1) :
          Prefixed(p)' <=> p <= Len(wire') /\ wire'[p] \in {"UP", "UP_UP"}
    BY <1>3, <1>7, <1>15
  <2> QED BY <2>1, <2>2, <2>3, <2>4, <2>5 DEF Decoding
<1> QED BY <1>13, <1>16

\* The other steps do not touch the decoder.
LEMMA DecodeOther ==
  ASSUME DecodeInv, TypeOK', UNCHANGED <<wire, decoder, device, stored>>
  PROVE  DecodeInv'
<1>1. /\ wire' = wire /\ shift_pressed' = shift_pressed /\ e0_pressed' = e0_pressed
      /\ shift_down' = shift_down /\ typed' = typed /\ fake_shift' = fake_shift
      /\ stored' = stored
  BY DEF decoder, device
<1>2. \A ltr, m : Decoding(ltr, m)' <=> Decoding(ltr, m)
  BY <1>1 DEF Decoding, Decodes, Prefixed, CaseOf
<1> QED BY <1>1, <1>2 DEF DecodeInv

\* Every step keeps the decoder's invariant.
LEMMA DecodeStep == ASSUME DecodeInv, TypeOK', [Next]_vars PROVE DecodeInv'
<1>1. CASE \E key \in Keys : Stroke(key)
  BY <1>1, DecodeStroke
<1>2. CASE keyboard_handler
  BY <1>2, DecodeHandler
<1>3. CASE SpuriousWake \/ DisableInterrupts \/ TestBuffer \/ LoadChar
  BY <1>3, DecodeOther DEF SpuriousWake, DisableInterrupts, TestBuffer, LoadChar
<1>4. CASE AdvanceTail
  BY <1>4, DecodeOther DEF AdvanceTail
<1>5. CASE CallGetchar \/ OtherSyscall \/ SysRet
  BY <1>5, DecodeOther DEF CallGetchar, OtherSyscall, SysRet
<1>6. CASE JumpUsermode \/ LeaveProgram \/ asm_return_to_kernel
  BY <1>6, DecodeOther DEF JumpUsermode, LeaveProgram, asm_return_to_kernel
<1>7. CASE UNCHANGED vars
  BY <1>7, DecodeOther DEF vars
<1> QED BY <1>1, <1>2, <1>3, <1>4, <1>5, <1>6, <1>7 DEF Next

\* What the decoder's invariant says of what was stored and typed.
LEMMA DecodeImplies == ASSUME DecodeInv PROVE DecodesKeystrokes
<1>1. SUFFICES ASSUME ~fake_shift
               PROVE  IsPrefix(stored, typed) /\ (wire = <<>> => stored = typed)
  BY DEF DecodesKeystrokes
<1>2. PICK ltr, m : Decoding(ltr, m)
  BY <1>1 DEF DecodeInv
<1>3. /\ stored \in Seq({"a", "A", "up"}) /\ typed \in Seq({"a", "A", "up"})
      /\ \A i \in 1..Len(stored) : stored[i] = typed[i]
  BY <1>1 DEF DecodeInv, TypeOK
<1>4. m[1] \in 0..Len(typed) /\ m[1] = Len(stored) /\ (Len(wire) = 0 => m[1] = Len(typed))
  <2>1. 1 \in 1..(Len(wire) + 1) /\ (Len(wire) = 0 => Len(wire) + 1 = 1)
    BY DecodeLengths
  <2> QED BY <1>2, <2>1 DEF Decoding
<1>5. Len(stored) <= Len(typed)
  BY <1>4, DecodeLengths
<1>6. SubSeq(stored, 1, Len(stored)) = SubSeq(typed, 1, Len(stored))
  BY <1>3, <1>5
<1>7. wire = <<>> => stored = typed
  <2>1. SUFFICES ASSUME wire = <<>> PROVE stored = typed
    OBVIOUS
  <2>2. Len(stored) = Len(typed)
    BY <1>4, <2>1
  <2> QED BY <1>3, <2>2
<1> QED BY <1>5, <1>6, <1>7 DEF IsPrefix

\* keyboard_handler turns the scancodes of any sequence of letters, arrows and
\* shifts into the characters those keystrokes mean, in order and none left
\* out, however far it lags behind the device; unless the device sent an
\* E0-prefixed shift.
THEOREM KeyboardDecodes == Spec => []DecodesKeystrokes
<1>1. Init => DecodeInv
  BY DecodeInit
<1>2. RingInv' /\ DecodeInv /\ [Next]_vars => DecodeInv'
  BY DecodeStep DEF RingInv
<1>3. DecodeInv => DecodesKeystrokes
  BY DecodeImplies
<1> QED BY <1>1, <1>2, <1>3, RingAlways, PTL DEF Spec
=============================================================================
