-------------------------- MODULE UserAccessProofs --------------------------
(***************************************************************************)
(* Proofs about UserAccess.tla, for every page size, every page map, every *)
(* placement of zero bytes and every pointer and size a program may pass.  *)
(***************************************************************************)
EXTENDS UserAccess, WellFoundedInduction, TLAPS

USE UserAccessAssumption

\* Every set of numbers that is not empty has a least member.
LEMMA LeastNumber ==
  ASSUME NEW T \in SUBSET Nat, T # {}
  PROVE  \E x \in T : \A y \in T : x <= y
<1> DEFINE R == {ss \in Nat \X Nat : ss[1] < ss[2]}
<1>1. IsWellFoundedOn(R, Nat)
  BY NatLessThanWellFounded DEF OpToRel
<1>2. \A a, b \in Nat : <<a, b>> \in R <=> a < b
  OBVIOUS
<1> HIDE DEF R
<1>3. PICK x \in T : \A y \in T : ~ (<<y, x>> \in R)
  BY <1>1, WFMin
<1>4. ASSUME NEW y \in T PROVE x <= y
  <2>1. x \in Nat /\ y \in Nat
    OBVIOUS
  <2>2. ~(y < x)
    BY <1>2, <1>3, <2>1
  <2> QED BY <2>1, <2>2
<1> QED BY <1>4

-----------------------------------------------------------------------------
(* Pages. *)

\* A page begins at a multiple of the page size and ends before the next one.
LEMMA PageBounds ==
  ASSUME NEW a \in Nat
  PROVE  /\ PageOf(a) \in Nat
         /\ PageOf(a) * PageSize <= a
         /\ PageEnd(a) = PageOf(a) * PageSize + PageSize
         /\ PageEnd(a) \in Nat
         /\ a < PageEnd(a)
<1> DEFINE q == a \div PageSize
           r == a % PageSize
<1>1. q \in Nat /\ r \in 0..(PageSize - 1) /\ a = PageSize * q + r
  OBVIOUS
<1> HIDE DEF q, r
<1>2. (q + 1) * PageSize = q * PageSize + PageSize /\ PageSize * q = q * PageSize
  BY <1>1
<1>3. q * PageSize \in Nat
  BY <1>1
<1> QED BY <1>1, <1>2, <1>3 DEF q, PageOf, PageEnd

\* An address lies on one page only.
LEMMA PageUnique ==
  ASSUME NEW q \in Nat, NEW k \in Nat, q * PageSize <= k, k < q * PageSize + PageSize
  PROVE  PageOf(k) = q
<1> DEFINE p == PageOf(k)
<1>1. p \in Nat /\ p * PageSize <= k /\ k < p * PageSize + PageSize
  BY PageBounds
<1> HIDE DEF p
<1>2. ASSUME NEW m \in Nat, NEW n \in Nat, m < n PROVE m * PageSize + PageSize <= n * PageSize
  <2>1. (m + 1) * PageSize <= n * PageSize
    BY <1>2
  <2> QED BY <2>1
<1>3. q * PageSize \in Nat /\ p * PageSize \in Nat
  BY <1>1
<1>4. ~(p < q) /\ ~(q < p)
  BY <1>1, <1>2, <1>3
<1>5. p = q
  BY <1>1, <1>4
<1> QED BY <1>5 DEF p

\* Pages are in the order of their addresses.
LEMMA PageMonotone ==
  ASSUME NEW a \in Nat, NEW b \in Nat, a <= b
  PROVE  PageOf(a) <= PageOf(b)
<1> DEFINE p == PageOf(a)
           q == PageOf(b)
<1>1. /\ p \in Nat /\ p * PageSize <= a
      /\ q \in Nat /\ b < q * PageSize + PageSize
  BY PageBounds
<1> HIDE DEF p, q
<1>2. ASSUME q < p PROVE FALSE
  <2>1. (q + 1) * PageSize <= p * PageSize /\ (q + 1) * PageSize = q * PageSize + PageSize
    BY <1>1, <1>2
  <2>2. q * PageSize \in Nat /\ p * PageSize \in Nat
    BY <1>1
  <2> QED BY <1>1, <2>1, <2>2
<1>3. p <= q
  BY <1>1, <1>2
<1> QED BY <1>3 DEF p, q

\* A page of the lower half lies below UserTop.
LEMMA PageBelowTop ==
  ASSUME NEW a \in Nat, PageOf(a) \in Pages
  PROVE  a < UserTop
<1> DEFINE t == UserTop \div PageSize
           p == PageOf(a)
<1>1. t \in Nat /\ UserTop = PageSize * t
  OBVIOUS
<1>2. p \in Nat /\ a < p * PageSize + PageSize /\ p \in 0..(t - 1)
  BY PageBounds DEF Pages
<1> HIDE DEF t, p
<1>3. (p + 1) * PageSize <= t * PageSize /\ (p + 1) * PageSize = p * PageSize + PageSize
  BY <1>1, <1>2
<1>4. p * PageSize \in Nat /\ PageSize * t = t * PageSize
  BY <1>1, <1>2
<1> QED BY <1>1, <1>2, <1>3, <1>4

-----------------------------------------------------------------------------
(* The two checks of vmm.c. *)

\* What holds of the page map and the zero bytes for good.
MapOK ==
  /\ mapped \in SUBSET Pages
  /\ nul \in SUBSET UserAddresses

\* In the lower half it is enough that the page is mapped.
LEMMA MappedPage ==
  ASSUME MapOK, NEW a \in Nat, PageOf(a) \in mapped
  PROVE  Mapped(a)
BY PageBelowTop DEF MapOK, Mapped

\* The addresses on the page of a mapped address, from it on, are mapped.
LEMMA RestOfPage ==
  ASSUME MapOK, NEW a \in Nat, Mapped(a), NEW k \in a..(PageEnd(a) - 1)
  PROVE  Mapped(k)
<1>1. PageOf(a) \in Nat /\ PageOf(a) * PageSize <= k /\ k < PageOf(a) * PageSize + PageSize /\ k \in Nat
  <2>1. PageOf(a) \in Nat /\ PageOf(a) * PageSize \in Nat
    BY PageBounds
  <2> QED BY <2>1, PageBounds
<1>2. PageOf(k) = PageOf(a)
  BY <1>1, PageUnique
<1> QED BY <1>1, <1>2, MappedPage DEF Mapped

\* The scan of a page finds a zero byte exactly when there is one.
LEMMA ScanFinds ==
  ASSUME MapOK, NEW a \in Nat
  PROVE  Scanned(a) \cap nul = {} <=> \A z \in nul : ~(a <= z /\ z < PageEnd(a))
<1>1. PageEnd(a) \in Nat
  BY PageBounds
<1>2. nul \in SUBSET Nat
  BY DEF MapOK, UserAddresses
<1>3. ASSUME NEW z \in nul, a <= z, z < PageEnd(a) PROVE Scanned(a) \cap nul # {}
  <2> DEFINE T == {y \in nul : a <= y}
  <2>1. T \in SUBSET Nat /\ T # {}
    BY <1>2, <1>3
  <2>2. PICK x \in T : \A y \in T : x <= y
    BY <2>1, LeastNumber
  <2>3. x <= z /\ x \in Nat /\ z \in Nat /\ a <= x
    BY <1>2, <1>3, <2>2
  <2>4. x \in a..(PageEnd(a) - 1)
    BY <1>1, <1>3, <2>3
  <2>5. x \in Scanned(a)
    BY <2>2, <2>4 DEF Scanned
  <2> QED BY <2>2, <2>5
<1>4. ASSUME NEW z \in Scanned(a) \cap nul PROVE z \in nul /\ a <= z /\ z < PageEnd(a)
  BY <1>1 DEF Scanned
<1> QED BY <1>3, <1>4

\* The bytes of a good string are mapped.
LEMMA StringMapped ==
  ASSUME MapOK, NEW a \in Nat, GoodString(a), NEW k \in StringBytes(a)
  PROVE  Mapped(k)
<1>1. PICK z \in nul : a <= z /\ \A j \in a..z : Mapped(j)
  BY DEF GoodString
<1>2. k \in Nat /\ a <= k /\ k <= z /\ z \in Nat
  BY <1>1 DEF StringBytes, MapOK, UserAddresses
<1> QED BY <1>1, <1>2

\* vmm_check_user_ptr accepts a buffer exactly when each of its bytes is
\* mapped and it does not end at the very top of the lower half.
LEMMA CheckPtr ==
  ASSUME MapOK, NEW a \in Nat, NEW n \in 1..(SizeWidth - 1)
  PROVE  vmm_check_user_ptr(a, n) <=> GoodBuffer(a, n) /\ a + n # UserTop
<1>1. a < UserTop => (a + n) % Width = a + n
  <2>1. a < UserTop => a + n < Width /\ Width \in Nat \ {0}
    OBVIOUS
  <2> QED BY <2>1
<1>2. ASSUME vmm_check_user_ptr(a, n) PROVE GoodBuffer(a, n) /\ a + n # UserTop
  <2>1. a < UserTop /\ a + n < UserTop /\ PageOf(a)..PageOf(a + n - 1) \subseteq mapped
    BY <1>1, <1>2 DEF vmm_check_user_ptr
  <2>2. ASSUME NEW k \in 0..(n - 1) PROVE Mapped(a + k)
    <3>1. a + k \in Nat /\ a + n - 1 \in Nat /\ a <= a + k /\ a + k <= a + n - 1
      OBVIOUS
    <3>2. PageOf(a) <= PageOf(a + k) /\ PageOf(a + k) <= PageOf(a + n - 1)
      BY <3>1, PageMonotone
    <3>3. PageOf(a) \in Nat /\ PageOf(a + k) \in Nat /\ PageOf(a + n - 1) \in Nat
      BY <3>1, PageBounds
    <3>4. PageOf(a + k) \in mapped
      BY <2>1, <3>2, <3>3
    <3> QED BY <3>1, <3>4, MappedPage
  <2> QED BY <2>1, <2>2 DEF GoodBuffer
<1>3. ASSUME GoodBuffer(a, n), a + n # UserTop PROVE vmm_check_user_ptr(a, n)
  <2>1. a < UserTop /\ a + n < UserTop
    <3>1. 0 \in 0..(n - 1) /\ n - 1 \in 0..(n - 1) /\ a + 0 = a /\ a + (n - 1) = (a + n) - 1
      OBVIOUS
    <3>2. Mapped(a) /\ Mapped((a + n) - 1)
      BY <1>3, <3>1 DEF GoodBuffer
    <3> QED BY <1>3, <3>2 DEF Mapped
  <2>2. ASSUME NEW p \in PageOf(a)..PageOf(a + n - 1) PROVE p \in mapped
    <3> DEFINE e == a + n - 1
    <3>1. e \in Nat /\ e = a + (n - 1)
      OBVIOUS
    <3>2. /\ PageOf(a) \in Nat /\ PageOf(e) \in Nat /\ p \in Nat
          /\ a < PageOf(a) * PageSize + PageSize /\ PageOf(e) * PageSize <= e
      BY <3>1, PageBounds
    <3>3. CASE p = PageOf(a)
      <4>1. 0 \in 0..(n - 1) /\ a + 0 = a
        OBVIOUS
      <4>2. Mapped(a)
        BY <1>3, <4>1 DEF GoodBuffer
      <4> QED BY <3>3, <4>2 DEF Mapped
    <3>4. CASE p # PageOf(a)
      <4> DEFINE b == p * PageSize
      <4>1. b \in Nat /\ a < b /\ b <= e
        <5>1. PageOf(a) + 1 <= p /\ p <= PageOf(e)
          BY <3>1, <3>2, <3>4
        <5> DEFINE pa == PageOf(a)
                   pe == PageOf(e)
        <5>2. pa + 1 <= p /\ p <= pe /\ pa \in Nat /\ pe \in Nat
          BY <3>2, <5>1
        <5> HIDE DEF pa, pe
        <5>3. (pa + 1) * PageSize <= p * PageSize /\ p * PageSize <= pe * PageSize
          BY <3>2, <5>2
        <5>4. (pa + 1) * PageSize = pa * PageSize + PageSize /\ p * PageSize \in Nat /\ pa * PageSize \in Nat /\ pe * PageSize \in Nat
          BY <3>2, <5>2
        <5> HIDE DEF e
        <5> QED BY <3>1, <3>2, <5>3, <5>4 DEF pa, pe
      <4>2. PageOf(b) = p
        <5>1. b < p * PageSize + PageSize /\ p * PageSize <= b
          BY <4>1
        <5> QED BY <3>2, <4>1, <5>1, PageUnique
      <4> HIDE DEF b
      <4>3. b - a \in 0..(n - 1) /\ a + (b - a) = b
        BY <4>1
      <4>4. Mapped(b)
        BY <1>3, <4>3 DEF GoodBuffer
      <4> QED BY <4>2, <4>4 DEF Mapped
    <3> QED BY <3>3, <3>4
  <2>3. (a + n) % Width = a + n /\ a + n >= a
    BY <1>1, <2>1
  <2> QED BY <2>1, <2>2, <2>3 DEF vmm_check_user_ptr
<1> QED BY <1>2, <1>3

-----------------------------------------------------------------------------
(* The inductive invariant. *)

ArgsOK ==
  /\ pc \in {"user", "string", "checked", "return"}
  /\ num \in {0, 1, 8, 9, 10} /\ arg1 \in Nat /\ arg2 \in Nat
  /\ size \in 0..(SizeWidth - 1) /\ current \in Nat

\* The search has passed over mapped bytes, none of them zero.
Searched ==
  pc = "string" =>
    /\ String <= current
    /\ \A k \in String..(current - 1) : Mapped(k) /\ k \notin nul

\* A string that passed the check is good.
Checked == pc = "checked" => GoodString(String)

AccessInv ==
  MapOK /\ ArgsOK /\ Searched /\ Checked /\ KernelStaysInUserMemory /\ RefusesExactlyTheBad

\* The invariant holds at start.
LEMMA AccessInit == Init => AccessInv
<1> SUFFICES ASSUME Init PROVE AccessInv
  OBVIOUS
<1>1. MapOK
  BY DEF Init, MapOK
<1>2. ArgsOK
  BY DEF Init, ArgsOK
<1>3. Searched /\ Checked /\ KernelStaysInUserMemory /\ RefusesExactlyTheBad
  BY DEF Init, Searched, Checked, KernelStaysInUserMemory, RefusesExactlyTheBad
<1> QED BY <1>1, <1>2, <1>3 DEF AccessInv

\* The string argument is an address.
LEMMA StringNat == ASSUME ArgsOK PROVE String \in Nat
  BY DEF ArgsOK, String

\* A call starts.
LEMMA AccessEnter ==
  ASSUME AccessInv, NEW n \in {1, 8, 9, 10}, NEW a1 \in Nat, NEW a2 \in Nat, NEW a3 \in Nat,
         Enter(n, a1, a2, a3)
  PROVE  AccessInv'
<1>1. /\ mapped' = mapped /\ nul' = nul /\ pc' = "string" /\ num' = n /\ arg1' = a1 /\ arg2' = a2
      /\ size' = (IF n = 9 THEN a3 % SizeWidth ELSE 0) /\ current' = String' /\ touched' = {}
  BY DEF Enter
<1>2. MapOK'
  BY <1>1 DEF AccessInv, MapOK
<1>3. ArgsOK' /\ String' \in Nat
  <2>1. String' \in Nat
    BY <1>1 DEF String
  <2>2. size' \in 0..(SizeWidth - 1)
    <3>1. a3 % SizeWidth \in 0..(SizeWidth - 1)
      OBVIOUS
    <3> QED BY <1>1, <3>1
  <2> QED BY <1>1, <2>1, <2>2 DEF ArgsOK
<1>4. Searched'
  <2>1. \A x \in Nat : x <= x /\ \A k \in x..(x - 1) : FALSE
    OBVIOUS
  <2>2. current' = String' /\ String' \in Nat
    BY <1>1, <1>3
  <2> QED BY <2>1, <2>2 DEF Searched
<1>5. Checked' /\ KernelStaysInUserMemory' /\ RefusesExactlyTheBad'
  BY <1>1 DEF Checked, KernelStaysInUserMemory, RefusesExactlyTheBad
<1> QED BY <1>2, <1>3, <1>4, <1>5 DEF AccessInv

\* The predicates on memory do not change.
LEMMA SameMemory ==
  ASSUME UNCHANGED <<mapped, nul>>
  PROVE  /\ \A a : Mapped(a)' <=> Mapped(a)
         /\ \A a : GoodString(a)' <=> GoodString(a)
         /\ \A a, n : GoodBuffer(a, n)' <=> GoodBuffer(a, n)
BY DEF Mapped, GoodString, GoodBuffer

\* One page of the search for the end of the string.
LEMMA AccessCheck == ASSUME AccessInv, CheckString PROVE AccessInv'
<1>1. /\ mapped' = mapped /\ nul' = nul /\ num' = num /\ arg1' = arg1 /\ arg2' = arg2
      /\ size' = size /\ pc = "string" /\ String' = String
  BY DEF CheckString, args, String
<1>2. MapOK'
  BY <1>1 DEF AccessInv, MapOK
<1>3. /\ MapOK /\ ArgsOK /\ KernelStaysInUserMemory
      /\ String \in Nat /\ current \in Nat /\ String <= current
      /\ \A k \in String..(current - 1) : Mapped(k) /\ k \notin nul
  BY <1>1, StringNat DEF AccessInv, Searched, ArgsOK
<1>4. nul \in SUBSET Nat
  BY <1>3 DEF MapOK, UserAddresses
<1>5. CASE ~Reachable(current) /\ Return("refused") /\ UNCHANGED touched
  <2>1. ret' = "refused" /\ pc' = "return" /\ current' = 0 /\ touched' = touched
    BY <1>5 DEF Return
  <2>2. ~GoodString(String)
    <3>1. SUFFICES ASSUME NEW z \in nul, String <= z, \A k \in String..z : Mapped(k)
                   PROVE  FALSE
      BY DEF GoodString
    <3>2. z \in Nat /\ ~Mapped(current)
      BY <1>4, <1>5 DEF Reachable, Mapped
    <3>3. ~(current <= z)
      BY <1>3, <3>1, <3>2
    <3>4. z \in String..(current - 1)
      BY <1>3, <3>1, <3>2, <3>3
    <3> QED BY <1>3, <3>4
  <2>3. ~GoodString(String)'
    BY <1>1, <2>2 DEF GoodString, Mapped
  <2>4. RefusesExactlyTheBad'
    BY <2>1, <2>3 DEF RefusesExactlyTheBad
  <2>5. ArgsOK' /\ Searched' /\ Checked'
    BY <1>1, <1>3, <2>1 DEF ArgsOK, Searched, Checked
  <2>6. KernelStaysInUserMemory'
    BY <1>1, <1>3, <2>1 DEF KernelStaysInUserMemory
  <2> QED BY <1>2, <2>4, <2>5, <2>6 DEF AccessInv
<1>6. CASE /\ Reachable(current)
           /\ touched' = touched \cup Scanned(current)
           /\ IF Scanned(current) \cap nul # {}
                THEN pc' = "checked" /\ UNCHANGED <<current, ret>>
                ELSE current' = NextPage(current) /\ UNCHANGED <<pc, ret>>
  <2>1. Mapped(current)
    BY <1>6 DEF Reachable, Mapped
  <2>2. \A k \in current..(PageEnd(current) - 1) : Mapped(k)
    BY <1>3, <2>1, RestOfPage
  <2>3. KernelStaysInUserMemory'
    <3>1. SUFFICES ASSUME NEW k \in touched' PROVE Mapped(k)
      BY <1>1 DEF KernelStaysInUserMemory, Mapped
    <3>2. k \in touched \/ k \in current..(PageEnd(current) - 1)
      BY <1>6 DEF Scanned
    <3> QED BY <1>3, <2>2, <3>2 DEF KernelStaysInUserMemory, Mapped
  <2>4. PageEnd(current) \in Nat /\ current < PageEnd(current)
    BY <1>3, PageBounds
  <2>5. CASE Scanned(current) \cap nul # {}
    <3>1. pc' = "checked" /\ current' = current
      BY <1>6, <2>5
    <3>2. PICK z \in nul : current <= z /\ z < PageEnd(current)
      BY <1>3, <2>5, ScanFinds
    <3>3. z \in Nat
      BY <1>4
    <3>4. \A k \in String..z : Mapped(k)
      <4>1. ASSUME NEW k \in String..z PROVE k \in String..(current - 1) \/ k \in current..(PageEnd(current) - 1)
        BY <1>3, <2>4, <3>2, <3>3
      <4> QED BY <1>3, <2>2, <4>1
    <3>5. GoodString(String)
      <4>1. String <= z
        BY <1>3, <3>2, <3>3
      <4> QED BY <3>4, <4>1 DEF GoodString
    <3>6. GoodString(String)'
      BY <1>1, <3>5 DEF GoodString, Mapped
    <3>7. Checked' /\ Searched' /\ RefusesExactlyTheBad'
      BY <3>1, <3>6 DEF Checked, Searched, RefusesExactlyTheBad
    <3>8. ArgsOK'
      BY <1>1, <1>3, <3>1 DEF ArgsOK
    <3> QED BY <1>2, <2>3, <3>7, <3>8 DEF AccessInv
  <2>6. CASE Scanned(current) \cap nul = {}
    <3>1. current' = PageEnd(current) /\ pc' = "string"
      BY <1>1, <1>6, <2>6 DEF NextPage
    <3>2. \A z \in nul : ~(current <= z /\ z < PageEnd(current))
      BY <1>3, <2>6, ScanFinds
    <3>3. \A k \in String..(PageEnd(current) - 1) : Mapped(k) /\ k \notin nul
      <4>1. ASSUME NEW k \in String..(PageEnd(current) - 1)
            PROVE  \/ k \in String..(current - 1)
                   \/ k \in current..(PageEnd(current) - 1) /\ current <= k /\ k < PageEnd(current)
        BY <1>3, <2>4
      <4> QED BY <1>3, <2>2, <3>2, <4>1
    <3>4. Searched'
      <4>1. String' <= current'
        BY <1>1, <1>3, <2>4, <3>1
      <4>2. \A k \in String'..(current' - 1) : Mapped(k)' /\ k \notin nul'
        BY <1>1, <3>1, <3>3, SameMemory
      <4> QED BY <4>1, <4>2 DEF Searched
    <3>5. Checked' /\ RefusesExactlyTheBad'
      BY <3>1 DEF Checked, RefusesExactlyTheBad
    <3>6. ArgsOK'
      BY <1>1, <1>3, <2>4, <3>1 DEF ArgsOK
    <3> QED BY <1>2, <2>3, <3>4, <3>5, <3>6 DEF AccessInv
  <2> QED BY <2>5, <2>6
<1> QED BY <1>5, <1>6 DEF CheckString

\* The string is used: sys_write and sys_fat16_get_file_size.
LEMMA AccessUse == ASSUME AccessInv, UseString PROVE AccessInv'
<1>1. /\ mapped' = mapped /\ nul' = nul /\ num' = num /\ arg1' = arg1 /\ arg2' = arg2
      /\ size' = size /\ pc = "checked" /\ String' = String /\ num \in {1, 10}
      /\ ret' = "ok" /\ pc' = "return" /\ current' = 0
      /\ touched' = touched \cup StringBytes(String)
  BY DEF UseString, args, String, Return
<1>2. MapOK' /\ ArgsOK' /\ Searched' /\ Checked'
  BY <1>1 DEF AccessInv, MapOK, ArgsOK, Searched, Checked
<1>3. MapOK /\ GoodString(String) /\ String \in Nat
  BY <1>1, StringNat DEF AccessInv, Checked
<1>4. KernelStaysInUserMemory'
  BY <1>1, <1>3, StringMapped DEF AccessInv, KernelStaysInUserMemory, Mapped
<1>5. GoodString(String)'
  BY <1>1, <1>3 DEF GoodString, Mapped
<1>6. RefusesExactlyTheBad'
  BY <1>1, <1>5 DEF RefusesExactlyTheBad
<1> QED BY <1>2, <1>4, <1>6 DEF AccessInv

\* The bytes of a buffer, as the kernel moves them.
Buffer(a, n) == {a + k : k \in 0..(n - 1)}

\* A call that moves a buffer ends as it should.
LEMMA AccessMove ==
  ASSUME AccessInv, pc = "checked", num \in {8, 9}, NEW n \in 0..(SizeWidth - 1),
         UNCHANGED <<mapped, nul, args>>, size' = n,
         touched' \subseteq touched \cup StringBytes(arg1)
                     \cup (IF vmm_check_user_ptr(arg2, n) THEN Buffer(arg2, n) ELSE {}),
         Return(IF vmm_check_user_ptr(arg2, n) THEN "ok" ELSE "refused")
  PROVE  AccessInv'
<1>1. /\ mapped' = mapped /\ nul' = nul /\ num' = num /\ arg1' = arg1 /\ arg2' = arg2
      /\ pc' = "return" /\ current' = 0 /\ String = arg1 /\ String' = String
      /\ ret' = IF vmm_check_user_ptr(arg2, n) THEN "ok" ELSE "refused"
  BY DEF Return, args, String
<1>2. MapOK' /\ ArgsOK' /\ Searched' /\ Checked'
  BY <1>1 DEF AccessInv, MapOK, ArgsOK, Searched, Checked
<1>3. MapOK /\ GoodString(String) /\ String \in Nat /\ arg2 \in Nat
  BY StringNat DEF AccessInv, Checked, ArgsOK
<1>4. n = 0 => vmm_check_user_ptr(arg2, n)
  BY DEF vmm_check_user_ptr
<1>5. n # 0 => (vmm_check_user_ptr(arg2, n) <=> GoodBuffer(arg2, n) /\ arg2 + n # UserTop)
  <2>1. n # 0 => n \in 1..(SizeWidth - 1)
    OBVIOUS
  <2> QED BY <1>3, <2>1, CheckPtr
<1>6. KernelStaysInUserMemory'
  <2>1. SUFFICES ASSUME NEW a \in touched' PROVE Mapped(a)
    BY <1>1 DEF KernelStaysInUserMemory, Mapped
  <2>2. CASE a \in touched
    BY <2>2 DEF AccessInv, KernelStaysInUserMemory, Mapped
  <2>3. CASE a \in StringBytes(arg1)
    BY <1>1, <1>3, <2>3, StringMapped
  <2>4. CASE vmm_check_user_ptr(arg2, n) /\ a \in Buffer(arg2, n)
    <3>1. PICK k \in 0..(n - 1) : a = arg2 + k
      BY <2>4 DEF Buffer
    <3>2. n # 0
      BY <3>1
    <3> QED BY <1>5, <2>4, <3>1, <3>2 DEF GoodBuffer
  <2> QED BY <2>1, <2>2, <2>3, <2>4
<1>7. GoodString(String)'
  BY <1>1, <1>3 DEF GoodString, Mapped
<1>8. GoodBuffer(arg2, size)' <=> GoodBuffer(arg2, n)
  BY <1>1 DEF GoodBuffer, Mapped
<1>9. (n > 0) <=> (n # 0)
  OBVIOUS
<1>10. RefusesExactlyTheBad'
  <2>1. ret' = "refused" <=> ~vmm_check_user_ptr(arg2, n)
    BY <1>1
  <2> QED BY <1>1, <1>4, <1>5, <1>7, <1>8, <1>9, <2>1 DEF RefusesExactlyTheBad
<1> QED BY <1>2, <1>6, <1>10 DEF AccessInv

\* sys_fat16_read_file and sys_fat16_write_file.
LEMMA AccessFiles ==
  ASSUME AccessInv, WriteFile \/ \E s \in FileSizes : ReadFile(s)
  PROVE  AccessInv'
<1>1. CASE WriteFile
  <2>1. /\ pc = "checked" /\ num \in {8, 9} /\ size \in 0..(SizeWidth - 1)
        /\ UNCHANGED <<mapped, nul, args>> /\ size' = size
        /\ Return(IF vmm_check_user_ptr(arg2, size) THEN "ok" ELSE "refused")
    BY <1>1 DEF WriteFile, AccessInv, ArgsOK
  <2>2. touched' \subseteq touched \cup StringBytes(arg1)
                     \cup (IF vmm_check_user_ptr(arg2, size) THEN Buffer(arg2, size) ELSE {})
    BY <1>1 DEF WriteFile, Buffer
  <2> QED BY <2>1, <2>2, AccessMove
<1>2. CASE \E s \in FileSizes : ReadFile(s)
  <2>1. PICK s \in FileSizes : ReadFile(s)
    BY <1>2
  <2>2. /\ pc = "checked" /\ num \in {8, 9} /\ s \in 0..(SizeWidth - 1)
        /\ UNCHANGED <<mapped, nul, args>> /\ size' = s
        /\ Return(IF vmm_check_user_ptr(arg2, s) THEN "ok" ELSE "refused")
    BY <2>1 DEF ReadFile
  <2>3. touched' \subseteq touched \cup StringBytes(arg1)
                     \cup (IF vmm_check_user_ptr(arg2, s) THEN Buffer(arg2, s) ELSE {})
    BY <2>1 DEF ReadFile, Buffer
  <2> QED BY <2>2, <2>3, AccessMove
<1> QED BY <1>1, <1>2

\* Back to the program.
LEMMA AccessReturn == ASSUME AccessInv, SysRet PROVE AccessInv'
<1>1. /\ mapped' = mapped /\ nul' = nul /\ pc' = "user" /\ num' = 0 /\ arg1' = 0 /\ arg2' = 0
      /\ size' = 0 /\ touched' = {} /\ current' = current
  BY DEF SysRet
<1>2. MapOK' /\ ArgsOK'
  BY <1>1 DEF AccessInv, MapOK, ArgsOK
<1> QED BY <1>1, <1>2 DEF AccessInv, Searched, Checked, KernelStaysInUserMemory, RefusesExactlyTheBad

\* Every step keeps the invariant.
LEMMA AccessStep == ASSUME AccessInv, [Next]_vars PROVE AccessInv'
<1>1. 0 \in Nat /\ 1 \in Nat /\ Addresses \subseteq Nat /\ Sizes \subseteq Nat
  OBVIOUS
<1>2. CASE \E a2 \in Addresses : Enter(1, 1, a2, 0)
  BY <1>1, <1>2, AccessEnter
<1>3. CASE \E a1, a2 \in Addresses : Enter(8, a1, a2, 0)
  BY <1>1, <1>3, AccessEnter
<1>4. CASE \E a1, a2 \in Addresses, a3 \in Sizes : Enter(9, a1, a2, a3)
  BY <1>1, <1>4, AccessEnter
<1>5. CASE \E a1 \in Addresses : Enter(10, a1, 0, 0)
  BY <1>1, <1>5, AccessEnter
<1>6. CASE CheckString
  BY <1>6, AccessCheck
<1>7. CASE UseString
  BY <1>7, AccessUse
<1>8. CASE WriteFile \/ \E s \in FileSizes : ReadFile(s)
  BY <1>8, AccessFiles
<1>9. CASE SysRet
  BY <1>9, AccessReturn
<1>10. CASE UNCHANGED vars
  <2>1. /\ mapped' = mapped /\ nul' = nul /\ pc' = pc /\ num' = num /\ arg1' = arg1
        /\ arg2' = arg2 /\ size' = size /\ current' = current /\ ret' = ret
        /\ touched' = touched /\ String' = String
    BY <1>10 DEF vars, args, String
  <2>2. MapOK' /\ ArgsOK' /\ Searched' /\ Checked' /\ KernelStaysInUserMemory'
    BY <2>1 DEF AccessInv, MapOK, ArgsOK, Searched, Checked, KernelStaysInUserMemory, Mapped, GoodString
  <2>3. RefusesExactlyTheBad'
    BY <2>1 DEF AccessInv, RefusesExactlyTheBad, Mapped, GoodString, GoodBuffer
  <2> QED BY <2>2, <2>3 DEF AccessInv
<1> QED BY <1>2, <1>3, <1>4, <1>5, <1>6, <1>7, <1>8, <1>9, <1>10 DEF Next

\* In every behaviour the invariant holds in every state.
LEMMA AccessAlways == Spec => []AccessInv
<1>1. Init => AccessInv
  BY AccessInit
<1>2. AccessInv /\ [Next]_vars => AccessInv'
  BY AccessStep
<1> QED BY <1>1, <1>2, PTL DEF Spec

\* Whatever a program passes to syscalls 1, 8, 9 and 10, the checks of vmm.c
\* and the accesses that follow them in syscall_handler_c touch only memory
\* the program has.
THEOREM SyscallsStayInUserMemory == Spec => []KernelStaysInUserMemory
<1>1. AccessInv => KernelStaysInUserMemory
  BY DEF AccessInv
<1> QED BY <1>1, AccessAlways, PTL

\* vmm_check_user_string and vmm_check_user_ptr refuse every bad string and
\* buffer and, but for a buffer that ends at the very top of the lower half,
\* no good one: on every page map and for every width of addresses.
THEOREM SyscallsRefuseExactlyTheBad == Spec => []RefusesExactlyTheBad
<1>1. AccessInv => RefusesExactlyTheBad
  BY DEF AccessInv
<1> QED BY <1>1, AccessAlways, PTL
=============================================================================
