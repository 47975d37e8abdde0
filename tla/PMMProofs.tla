----------------------------- MODULE PMMProofs -----------------------------
(***************************************************************************)
(* Proofs about PMM.tla, for every page size, every number of bits per     *)
(* byte and every memory map, under the condition BitmapFillsPages; and    *)
(* about PMMScan.tla, for every number of pages and every count.           *)
(***************************************************************************)
EXTENDS PMM, PMMScan, FiniteSetTheorems, TLAPS

-----------------------------------------------------------------------------
(* Arithmetic. *)

\* Quotient and remainder, as the index computations of pmm.c use them.
LEMMA DivMod ==
  ASSUME NEW d \in Nat \ {0}, NEW a \in Nat
  PROVE  /\ a \div d \in Nat
         /\ a % d \in 0..(d - 1)
         /\ a = d * (a \div d) + (a % d)
  OBVIOUS

\* Multiplication by the page size keeps the order of page numbers.
LEMMA MulOrder ==
  ASSUME NEW d \in Nat \ {0}, NEW m \in Nat, NEW n \in Nat
  PROVE  /\ m < n <=> d * m < d * n
         /\ m < n => d * m + d <= d * n
         /\ d * n \in Nat
  OBVIOUS

\* The page number of an address is determined by its page and offset.
LEMMA DivUnique ==
  ASSUME NEW d \in Nat \ {0}, NEW q \in Nat, NEW r \in 0..(d - 1), NEW a \in Nat, a = d * q + r
  PROVE  a \div d = q /\ a % d = r
<1>1. a = d * (a \div d) + (a % d) /\ a \div d \in Nat /\ a % d \in 0..(d-1)
  BY DivMod
<1>2. ~(a \div d < q)
  <2>1. SUFFICES ASSUME a \div d < q PROVE FALSE
    OBVIOUS
  <2>2. d * (a \div d) + d <= d * q
    BY <1>1, <2>1, MulOrder
  <2> QED BY <1>1, <2>2, MulOrder
<1>3. ~(q < a \div d)
  <2>1. SUFFICES ASSUME q < a \div d PROVE FALSE
    OBVIOUS
  <2>2. d * q + d <= d * (a \div d)
    BY <1>1, <2>1, MulOrder
  <2> QED BY <1>1, <2>2, MulOrder
<1> QED BY <1>1, <1>2, <1>3, MulOrder

\* The first address of page q.
LEMMA Multiple ==
  ASSUME NEW d \in Nat \ {0}, NEW q \in Nat
  PROVE  (d * q) \div d = q /\ (d * q) % d = 0 /\ d * q \in Nat
<1>1. d * q \in Nat /\ d * q = d * q + 0 /\ 0 \in 0..(d - 1)
  BY MulOrder
<1> QED BY <1>1, DivUnique

\* An address on a page boundary is the page size times its page number.
LEMMA Aligned ==
  ASSUME NEW d \in Nat \ {0}, NEW a \in Nat, a % d = 0
  PROVE  /\ a = d * (a \div d)
         /\ a \div d \in Nat
         /\ \A p \in Nat : p < a \div d <=> d * p < a
BY DivMod, MulOrder

\* Sums and differences of page-aligned sizes are page aligned.
LEMMA AlignedSum ==
  ASSUME NEW d \in Nat \ {0}, NEW a \in Nat, NEW b \in Nat, a % d = 0, b % d = 0
  PROVE  /\ (a + b) % d = 0
         /\ b <= a => (a - b) % d = 0
         /\ a < b => a + d <= b
<1> DEFINE q == a \div d
           r == b \div d
<1>1. a = d * q /\ b = d * r /\ q \in Nat /\ r \in Nat
  BY Aligned
<1> HIDE DEF q, r
<1>2. (a + b) % d = 0
  <2>1. a + b = d * (q + r) /\ q + r \in Nat
    BY <1>1
  <2>2. (d * (q + r)) % d = 0
    BY <2>1, Multiple
  <2> QED BY <2>1, <2>2
<1>3. ASSUME b <= a PROVE (a - b) % d = 0
  <2>1. r <= q
    BY <1>1, <1>3, MulOrder
  <2>2. a - b = d * (q - r) /\ q - r \in Nat
    BY <1>1, <2>1
  <2>3. (d * (q - r)) % d = 0
    BY <2>2, Multiple
  <2> QED BY <2>2, <2>3
<1>4. ASSUME a < b PROVE a + d <= b
  BY <1>1, <1>4, MulOrder
<1> QED BY <1>2, <1>3, <1>4

-----------------------------------------------------------------------------
(* The inductive invariant. *)

\* What a sequence holds at its indices.
LEMMA SeqElement ==
  ASSUME NEW S, NEW s \in Seq(S)
  PROVE  \A k \in DOMAIN s : k \in 1..Len(s) /\ s[k] \in S
  OBVIOUS

Usable(k) == k \in DOMAIN entries /\ entries[k].usable

\* Types, without the counter: pmm_free_memory is a natural number because
\* of FreeMemoryExact.
Types ==
  /\ pc \in {"scan", "place", "fill", "clear", "ready", "hung"}
  /\ i \in Nat \ {0} /\ j \in Nat
  /\ entries \in Seq([base : Nat, length : Nat, usable : BOOLEAN])
  /\ highest_address \in Nat
  /\ pmm_bitmap \in Nat \cup {NULL}
  /\ bitmap \subseteq Pages
  /\ pmm_last_allocated_index \in 0..pmm_highest_page
  /\ held \subseteq Pages
  /\ ret \in [count : Nat, page : Nat \cup {NULL}]

\* What the scan of the memory map has found so far.
HighestSoFar ==
  /\ \A k \in DOMAIN entries :
       entries[k].usable /\ (k < i \/ pc # "scan") => Top(entries[k]) <= highest_address
  /\ highest_address # 0 =>
       \E k \in DOMAIN MemMap : MemMap[k].usable /\ Top(MemMap[k]) = highest_address

\* The entries stay page aligned and disjoint when the bitmap is carved out.
EntriesSound ==
  /\ \A k \in DOMAIN entries : entries[k].usable =>
        entries[k].base % PageSize = 0 /\ entries[k].length % PageSize = 0
  /\ \A k, l \in DOMAIN entries :
        (k # l /\ entries[k].usable /\ entries[l].usable) =>
          \/ Top(entries[k]) <= entries[l].base
          \/ Top(entries[l]) <= entries[k].base
  /\ pc \in {"scan", "place"} => entries = MemMap

\* The bitmap covers all pages and lies outside every entry.
BitmapApart ==
  pc \in {"fill", "clear", "ready"} =>
    /\ pmm_bitmap \in Nat
    /\ BitsPerByte * bitmap_size = pmm_highest_page
    /\ \A k \in DOMAIN entries : entries[k].usable =>
          \/ Top(entries[k]) <= pmm_bitmap
          \/ pmm_bitmap + bitmap_size <= entries[k].base

\* The pages of entry k, by address.
InEntry(p, k) ==
  entries[k].usable /\ entries[k].base <= PageSize * p /\ PageSize * p < Top(entries[k])

\* While pmm_init clears bits: those of the entries before i and of the part
\* of entry i below j.
ClearedSoFar ==
  pc = "clear" =>
    /\ j % PageSize = 0
    /\ \A p \in Pages :
         p \notin bitmap <=>
           \E k \in DOMAIN entries :
              /\ InEntry(p, k)
              /\ k < i \/ (k = i /\ PageSize * p < entries[k].base + j)

Quiet ==
  /\ pc # "ready" => held = {} /\ pmm_last_allocated_index = 0
  /\ pc \in {"scan", "place", "fill", "hung"} =>
       bitmap = {} /\ pmm_free_memory = 0 /\ j = 0
  /\ pc = "fill" => i = 1

Tracked ==
  pc = "ready" =>
    /\ held \subseteq Pool
    /\ Pages \ bitmap = Pool \ held

IInv ==
  /\ Types /\ HighestSoFar /\ EntriesSound /\ BitmapApart
  /\ ClearedSoFar /\ Quiet /\ Tracked /\ FreeMemoryExact

-----------------------------------------------------------------------------
(* Consequences of the invariant's parts. *)

Entry == [base : Nat, length : Nat, usable : BOOLEAN]

\* An entry's fields and its end are numbers.
LEMMA EntryNumbers ==
  ASSUME NEW e \in Entry
  PROVE  e.base \in Nat /\ e.length \in Nat /\ Top(e) \in Nat
<1>1. e.base \in Nat /\ e.length \in Nat
  BY DEF Entry
<1> QED BY <1>1 DEF Top

\* The pages that pmm_init's clearing loop visits are those whose address
\* lies in the entry.
LEMMA EntryPagesByAddress ==
  ASSUME NEW e \in Entry, e.base % PageSize = 0, e.length % PageSize = 0,
         highest_address \in Nat, highest_address % PageSize = 0,
         Top(e) <= highest_address,
         NEW p \in Nat
  PROVE  p \in EntryPages(e) <=> (e.base <= PageSize * p /\ PageSize * p < Top(e))
<1> DEFINE b == e.base \div PageSize
<1>0. PageSize \in Nat \ {0}
  BY SizesAssumption
<1>1. e.base \in Nat /\ e.length \in Nat
  BY DEF Entry
<1>2. e.base = PageSize * b /\ b \in Nat
  BY <1>0, <1>1, Aligned
<1> HIDE DEF b
<1>3. ASSUME NEW m \in Nat
      PROVE  PageAt(e, m * PageSize) = b + m /\ PageSize * (b + m) = e.base + m * PageSize
  <2>1. e.base + m * PageSize = PageSize * (b + m) /\ b + m \in Nat
    BY <1>0, <1>2
  <2>2. (PageSize * (b + m)) \div PageSize = b + m
    BY <2>1, <1>0, Multiple
  <2> QED BY <2>1, <2>2 DEF PageAt
<1>4. ASSUME p \in EntryPages(e)
      PROVE  e.base <= PageSize * p /\ PageSize * p < Top(e)
  <2>1. PICK m \in 0..e.length : m * PageSize < e.length /\ p = PageAt(e, m * PageSize)
    BY <1>4 DEF EntryPages
  <2>2. m \in Nat /\ m * PageSize \in Nat
    BY <1>0, <1>1
  <2>3. PageSize * p = e.base + m * PageSize
    BY <1>3, <2>1, <2>2
  <2> QED BY <2>1, <2>2, <2>3, <1>1 DEF Top
<1>5. ASSUME e.base <= PageSize * p, PageSize * p < Top(e)
      PROVE  p \in EntryPages(e)
  <2> DEFINE m == p - b
  <2>1. b <= p
    BY <1>0, <1>2, <1>5, MulOrder
  <2>2. m \in Nat /\ p = b + m
    BY <2>1, <1>2
  <2> HIDE DEF m
  <2>3. PageAt(e, m * PageSize) = p /\ PageSize * p = e.base + m * PageSize
    BY <1>3, <2>2
  <2>4. m * PageSize < e.length /\ m <= m * PageSize /\ m * PageSize \in Nat
    BY <1>0, <1>1, <1>5, <2>2, <2>3 DEF Top
  <2>5. m \in 0..e.length
    BY <1>1, <2>2, <2>4
  <2>6. p \in Pages
    <3>1. PageSize * p < highest_address
      BY <1>0, <1>1, <1>5, MulOrder DEF Top
    <3>2. p < highest_address \div PageSize /\ highest_address \div PageSize \in Nat
      BY <3>1, <1>0, Aligned
    <3> QED BY <3>2 DEF Pages, pmm_highest_page
  <2> QED BY <2>3, <2>4, <2>5, <2>6 DEF EntryPages
<1> QED BY <1>4, <1>5

\* highest_address is the end of an entry, hence a page boundary.
LEMMA HighestAligned ==
  ASSUME Types, HighestSoFar
  PROVE  /\ highest_address % PageSize = 0
         /\ pmm_highest_page \in Nat
         /\ highest_address = PageSize * pmm_highest_page
<1>0. PageSize \in Nat \ {0} /\ highest_address \in Nat
  BY SizesAssumption DEF Types
<1>1. highest_address % PageSize = 0
  <2>1. CASE highest_address = 0
    BY <1>0, <2>1, Multiple
  <2>2. CASE highest_address # 0
    <3>1. PICK k \in DOMAIN MemMap : MemMap[k].usable /\ Top(MemMap[k]) = highest_address
      BY <2>2 DEF HighestSoFar
    <3>2. MemMap[k] \in Entry
      <4>1. MemMap \in Seq(Entry)
        BY MemMapAssumption DEF Entry
      <4> QED BY <4>1, SeqElement
    <3>3. MemMap[k].base \in Nat /\ MemMap[k].length \in Nat
      BY <3>2 DEF Entry
    <3>4. MemMap[k].base % PageSize = 0 /\ MemMap[k].length % PageSize = 0
      BY <3>1, MemMapAssumption
    <3> QED BY <1>0, <3>1, <3>3, <3>4, AlignedSum DEF Top
  <2> QED BY <2>1, <2>2
<1> QED BY <1>0, <1>1, Aligned DEF pmm_highest_page

\* When the number of pages is a multiple of 8 * PAGE_SIZE, the bitmap has
\* one bit per page and fills whole pages.
LEMMA BitmapSize ==
  ASSUME BitmapFillsPages, Types, HighestSoFar, pc # "scan", entries = MemMap,
         highest_address # 0
  PROVE  /\ bitmap_size \in Nat \ {0}
         /\ BitsPerByte * bitmap_size = pmm_highest_page
         /\ bitmap_size % PageSize = 0
<1>0. PageSize \in Nat \ {0} /\ BitsPerByte \in Nat \ {0} /\ highest_address \in Nat
  BY SizesAssumption DEF Types
<1>1. pmm_highest_page \in Nat /\ highest_address = PageSize * pmm_highest_page
  BY HighestAligned
<1>2. pmm_highest_page # 0
  BY <1>0, <1>1
<1>3. (highest_address \div PageSize) % (BitsPerByte * PageSize) = 0
  BY <1>0 DEF BitmapFillsPages, HighestSoFar
<1> DEFINE w == BitsPerByte * PageSize
           q == pmm_highest_page \div w
<1>4. w \in Nat \ {0}
  BY <1>0
<1>5. pmm_highest_page = w * q /\ q \in Nat
  <2>1. pmm_highest_page % w = 0
    BY <1>3 DEF pmm_highest_page
  <2> HIDE DEF w
  <2> QED BY <2>1, <1>1, <1>4, Aligned
<1> HIDE DEF q
<1>6. q # 0 /\ PageSize * q \in Nat \ {0}
  BY <1>0, <1>2, <1>4, <1>5
<1>7. pmm_highest_page = BitsPerByte * (PageSize * q)
  BY <1>0, <1>5
<1>8. pmm_highest_page \div BitsPerByte = PageSize * q
  BY <1>0, <1>6, <1>7, Multiple
<1>9. bitmap_size = PageSize * q
  BY <1>6, <1>8 DEF bitmap_size
<1> QED BY <1>0, <1>5, <1>6, <1>7, <1>9, Multiple

\* Every usable entry is a typed, aligned record below highest_address.
LEMMA UsableEntry ==
  ASSUME Types, HighestSoFar, EntriesSound, pc # "scan",
         NEW k \in DOMAIN entries, entries[k].usable
  PROVE  /\ entries[k] \in Entry
         /\ entries[k].base \in Nat /\ entries[k].length \in Nat
         /\ entries[k].base % PageSize = 0 /\ entries[k].length % PageSize = 0
         /\ Top(entries[k]) \in Nat /\ Top(entries[k]) <= highest_address
<1>1. entries[k] \in Entry
  <2>1. entries \in Seq(Entry)
    BY DEF Types, Entry
  <2> QED BY <2>1, SeqElement
<1>2. entries[k].base \in Nat /\ entries[k].length \in Nat
  BY <1>1 DEF Entry
<1> QED BY <1>1, <1>2 DEF HighestSoFar, EntriesSound, Top

\* The pool, by address.
LEMMA PoolByAddress ==
  ASSUME Types, HighestSoFar, EntriesSound, pc # "scan", NEW p \in Nat
  PROVE  /\ p \in Pool <=> \E k \in DOMAIN entries : InEntry(p, k)
         /\ p \in Pool => p \in Pages
<1>1. highest_address % PageSize = 0 /\ highest_address \in Nat
  BY HighestAligned DEF Types
<1>2. ASSUME NEW k \in DOMAIN entries, entries[k].usable
      PROVE  p \in EntryPages(entries[k]) <=> InEntry(p, k)
  BY <1>1, <1>2, UsableEntry, EntryPagesByAddress DEF InEntry
<1>3. p \in Pool <=> \E k \in DOMAIN entries : entries[k].usable /\ p \in EntryPages(entries[k])
  BY DEF Pool
<1>4. p \in Pool => p \in Pages
  BY <1>3 DEF EntryPages
<1> QED BY <1>2, <1>3, <1>4 DEF InEntry

\* No page of the pool stores a bit of the bitmap.
LEMMA StoredApart ==
  ASSUME Types, HighestSoFar, EntriesSound, BitmapApart, pc = "ready",
         NEW p \in Pool, p \in Nat
  PROVE  StoredIn(p) = {}
<1>0. PageSize \in Nat \ {0} /\ BitsPerByte \in Nat \ {0} /\ pmm_bitmap \in Nat
  BY SizesAssumption DEF BitmapApart
<1>1. PICK k \in DOMAIN entries : InEntry(p, k)
  BY PoolByAddress
<1>2. /\ entries[k].base \in Nat /\ entries[k].length \in Nat
      /\ entries[k].base % PageSize = 0 /\ entries[k].length % PageSize = 0
      /\ Top(entries[k]) \in Nat
  BY <1>1, UsableEntry DEF InEntry
<1>3. PageSize * p + PageSize <= Top(entries[k]) /\ PageSize * p \in Nat
  <2>1. (PageSize * p) % PageSize = 0 /\ PageSize * p \in Nat
    BY <1>0, Multiple
  <2>2. Top(entries[k]) % PageSize = 0
    BY <1>0, <1>2, AlignedSum DEF Top
  <2>3. PageSize * p < Top(entries[k])
    BY <1>1 DEF InEntry
  <2> QED BY <1>0, <1>2, <2>1, <2>2, <2>3, AlignedSum
<1>4. pmm_highest_page \in Nat /\ bitmap_size \in Nat
  <2>1. pmm_highest_page \in Nat
    BY HighestAligned
  <2>2. pmm_highest_page \div BitsPerByte \in Nat
    BY <2>1, <1>0, DivMod
  <2> QED BY <2>1, <2>2 DEF bitmap_size
<1>5. SUFFICES ASSUME NEW b \in Pages, (pmm_bitmap + b \div BitsPerByte) \div PageSize = p
               PROVE  FALSE
  BY DEF StoredIn
<1> DEFINE q == b \div BitsPerByte
           byte == pmm_bitmap + q
<1>6. b \in Nat /\ b < pmm_highest_page
  BY <1>4 DEF Pages
<1>7. q \in Nat /\ q < bitmap_size
  <2>1. q \in Nat /\ b = BitsPerByte * q + (b % BitsPerByte) /\ b % BitsPerByte \in Nat
    <3>1. /\ b \div BitsPerByte \in Nat
          /\ b % BitsPerByte \in 0..(BitsPerByte - 1)
          /\ b = BitsPerByte * (b \div BitsPerByte) + (b % BitsPerByte)
      BY <1>0, <1>6, DivMod
    <3> QED BY <1>0, <3>1
  <2>2. BitsPerByte * q < BitsPerByte * bitmap_size
    <3>1. BitsPerByte * bitmap_size = pmm_highest_page
      BY DEF BitmapApart
    <3>2. BitsPerByte * q \in Nat
      BY <2>1, <1>0, MulOrder
    <3> HIDE DEF q
    <3> QED BY <2>1, <3>1, <3>2, <1>6, <1>4
  <2> HIDE DEF q
  <2> QED BY <2>1, <2>2, <1>0, <1>4, MulOrder
<1>8. byte \in Nat /\ byte \div PageSize = p
  BY <1>0, <1>7, <1>5
<1>9. PageSize * p <= byte /\ byte < PageSize * p + PageSize
  <2> HIDE DEF byte
  <2>1. byte = PageSize * p + (byte % PageSize) /\ byte % PageSize \in 0..(PageSize - 1)
    BY <1>0, <1>8, DivMod
  <2> QED BY <1>0, <1>3, <1>8, <2>1
<1>10. \/ Top(entries[k]) <= pmm_bitmap
       \/ pmm_bitmap + bitmap_size <= entries[k].base
  BY <1>1 DEF BitmapApart, InEntry
<1>11. entries[k].base <= PageSize * p
  BY <1>1 DEF InEntry
<1> HIDE DEF q
<1> QED BY <1>0, <1>2, <1>3, <1>4, <1>7, <1>9, <1>10, <1>11
-----------------------------------------------------------------------------
(* The invariant holds initially and every action keeps it. *)

\* Before the scan nothing is known and nothing is handed out.
LEMMA InitIInv == Init => IInv
<1> SUFFICES ASSUME Init PROVE IInv
  OBVIOUS
<1>0. PageSize \in Nat \ {0} /\ NULL \notin Nat
  BY SizesAssumption
<1>1. pmm_highest_page = 0
  <2>1. (PageSize * 0) \div PageSize = 0 /\ PageSize * 0 = 0
    BY <1>0, Multiple
  <2> QED BY <2>1 DEF Init, pmm_highest_page
<1>2. Types
  BY <1>0, <1>1, MemMapAssumption DEF Init, Types
<1>3. HighestSoFar
  <2>1. MemMap \in Seq(Entry)
    BY MemMapAssumption DEF Entry
  <2>2. \A k \in DOMAIN MemMap : ~(k < 1)
    BY <2>1, SeqElement
  <2> QED BY <2>2 DEF Init, HighestSoFar
<1>4. EntriesSound
  BY MemMapAssumption DEF Init, EntriesSound, Top
<1>5. BitmapApart /\ ClearedSoFar /\ Quiet /\ Tracked /\ FreeMemoryExact
  BY DEF Init, BitmapApart, ClearedSoFar, Quiet, Tracked, FreeMemoryExact
<1> QED BY <1>2, <1>3, <1>4, <1>5 DEF IInv

\* The scan for the highest address.
LEMMA ScanEntryKeeps == IInv /\ ScanEntry => IInv'
<1> SUFFICES ASSUME IInv, ScanEntry PROVE IInv'
  OBVIOUS
<1> USE DEF IInv
<1>0. PageSize \in Nat \ {0}
  BY SizesAssumption
<1>1. /\ pc = "scan" /\ entries = MemMap /\ entries' = MemMap
      /\ pc' \in {"scan", "place"} /\ held' = {} /\ bitmap' = {} /\ j' = 0
      /\ pmm_free_memory' = 0 /\ pmm_last_allocated_index' = 0
      /\ pmm_bitmap' = pmm_bitmap /\ ret' = ret
  BY DEF ScanEntry, EntriesSound, Quiet
<1>2. MemMap \in Seq(Entry)
  BY MemMapAssumption DEF Entry
<1>3. \A k \in DOMAIN MemMap : k \in 1..Len(MemMap) /\ MemMap[k] \in Entry /\ Top(MemMap[k]) \in Nat
  <2>1. \A k \in DOMAIN MemMap : k \in 1..Len(MemMap) /\ MemMap[k] \in Entry
    BY <1>2, SeqElement
  <2> QED BY <2>1, EntryNumbers
<1>4. i \in Nat \ {0} /\ highest_address \in Nat
  BY DEF Types
<1>5. i' \in Nat \ {0} /\ highest_address' \in Nat
  BY <1>1, <1>3, <1>4 DEF ScanEntry
<1>6. pmm_highest_page' \in Nat
  BY <1>0, <1>5, DivMod DEF pmm_highest_page
<1>7. Types'
  BY <1>1, <1>2, <1>5, <1>6 DEF Types, Entry
<1>8. HighestSoFar'
  <2>1. CASE i \in DOMAIN entries
    <3>1. /\ i' = i + 1 /\ pc' = "scan"
          /\ highest_address' = IF MemMap[i].usable /\ Top(MemMap[i]) > highest_address
                                  THEN Top(MemMap[i]) ELSE highest_address
      BY <1>1, <2>1 DEF ScanEntry
    <3>2. ASSUME NEW k \in DOMAIN MemMap, MemMap[k].usable, k < i + 1
          PROVE  Top(MemMap[k]) <= highest_address'
      <4>1. k < i \/ k = i
        BY <1>3, <1>4, <3>2
      <4>2. CASE k < i
        <5>1. Top(MemMap[k]) <= highest_address
          BY <1>1, <3>2, <4>2 DEF HighestSoFar
        <5> QED BY <5>1, <3>1, <1>1, <1>3, <1>4, <2>1
      <4>3. CASE k = i
        BY <4>3, <3>1, <3>2, <1>3, <1>4
      <4> QED BY <4>1, <4>2, <4>3
    <3>3. highest_address' # 0 =>
             \E k \in DOMAIN MemMap : MemMap[k].usable /\ Top(MemMap[k]) = highest_address'
      BY <3>1, <1>1, <2>1 DEF HighestSoFar
    <3> QED BY <3>1, <3>2, <3>3, <1>1 DEF HighestSoFar, Top
  <2>2. CASE i \notin DOMAIN entries
    <3>1. highest_address' = highest_address
      BY <2>2 DEF ScanEntry
    <3>2. \A k \in DOMAIN MemMap : k < i
      BY <2>2, <1>1, <1>2, <1>3, <1>4
    <3> QED BY <3>1, <3>2, <1>1 DEF HighestSoFar, Top
  <2> QED BY <2>1, <2>2
<1>9. EntriesSound'
  BY <1>1 DEF EntriesSound, Top
<1>10. BitmapApart' /\ ClearedSoFar' /\ Quiet' /\ Tracked' /\ FreeMemoryExact'
  BY <1>1 DEF BitmapApart, ClearedSoFar, Quiet, Tracked, FreeMemoryExact
<1> QED BY <1>7, <1>8, <1>9, <1>10

\* The length of the bitmap in bytes is never 0.
LEMMA BitmapSizePositive ==
  ASSUME pmm_highest_page \in Nat
  PROVE  bitmap_size \in Nat \ {0}
<1>1. pmm_highest_page \div BitsPerByte \in Nat
  BY SizesAssumption, DivMod
<1> QED BY <1>1 DEF bitmap_size

\* The search for a region, and the carving of the bitmap.
LEMMA PlaceBitmapKeeps == BitmapFillsPages /\ IInv /\ PlaceBitmap => IInv'
<1> SUFFICES ASSUME BitmapFillsPages, IInv, PlaceBitmap PROVE IInv'
  OBVIOUS
<1> USE DEF IInv
<1>0. PageSize \in Nat \ {0}
  BY SizesAssumption
<1>1. /\ pc = "place" /\ entries = MemMap
      /\ held' = {} /\ bitmap' = {} /\ j' = 0 /\ highest_address' = highest_address
      /\ pmm_free_memory' = 0 /\ pmm_last_allocated_index' = 0 /\ ret' = ret
  BY DEF PlaceBitmap, EntriesSound, Quiet
<1>2. /\ highest_address \in Nat /\ i \in Nat \ {0} /\ entries \in Seq(Entry)
      /\ pmm_bitmap \in Nat \cup {NULL} /\ ret \in [count : Nat, page : Nat \cup {NULL}]
  BY DEF Types, Entry
<1>3. pmm_highest_page \in Nat /\ pmm_highest_page' = pmm_highest_page /\ Pages' = Pages
  <2>1. pmm_highest_page' = pmm_highest_page
    BY <1>1 DEF pmm_highest_page
  <2> QED BY <2>1, HighestAligned DEF Pages
<1>4. bitmap_size \in Nat \ {0} /\ bitmap_size' = bitmap_size
  BY <1>3, BitmapSizePositive DEF bitmap_size
<1>5. CASE i \notin DOMAIN entries \/ ~(entries[i].usable /\ entries[i].length >= bitmap_size)
  <2>1. /\ pc' \in {"place", "hung"} /\ entries' = MemMap /\ pmm_bitmap' = pmm_bitmap
        /\ i' \in Nat \ {0}
    BY <1>1, <1>2, <1>5 DEF PlaceBitmap
  <2>2. Types'
    BY <2>1, <1>1, <1>2, <1>3 DEF Types, Entry
  <2>3. HighestSoFar'
    BY <2>1, <1>1 DEF HighestSoFar, Top
  <2>4. EntriesSound'
    BY <2>1, <1>1 DEF EntriesSound, Top
  <2>5. BitmapApart' /\ ClearedSoFar' /\ Quiet' /\ Tracked' /\ FreeMemoryExact'
    BY <1>1, <2>1 DEF BitmapApart, ClearedSoFar, Quiet, Tracked, FreeMemoryExact
  <2> QED BY <2>2, <2>3, <2>4, <2>5
<1>6. CASE i \in DOMAIN entries /\ entries[i].usable /\ entries[i].length >= bitmap_size
  <2> DEFINE carved == [base   |-> entries[i].base + bitmap_size,
                        length |-> entries[i].length - bitmap_size,
                        usable |-> TRUE]
  <2>1. /\ pc' = "fill" /\ i' = 1 /\ pmm_bitmap' = entries[i].base
        /\ entries' = [entries EXCEPT ![i] = carved]
    BY <1>6 DEF PlaceBitmap
  <2>2. /\ entries[i] \in Entry /\ entries[i].base \in Nat /\ entries[i].length \in Nat
        /\ entries[i].base % PageSize = 0 /\ entries[i].length % PageSize = 0
        /\ Top(entries[i]) \in Nat /\ Top(entries[i]) <= highest_address
    BY <1>1, <1>6, UsableEntry
  <2>3. highest_address # 0
    BY <1>4, <1>6, <2>2, <1>2 DEF Top
  <2>4. BitsPerByte * bitmap_size = pmm_highest_page /\ bitmap_size % PageSize = 0
    BY <1>1, <2>3, BitmapSize
  <2>5. /\ carved \in Entry /\ carved.base = entries[i].base + bitmap_size
        /\ carved.length = entries[i].length - bitmap_size
        /\ Top(carved) = Top(entries[i]) /\ carved.usable
    BY <1>4, <1>6, <2>2 DEF Entry, Top
  <2>6. carved.base % PageSize = 0 /\ carved.length % PageSize = 0
    BY <1>0, <1>4, <1>6, <2>2, <2>4, <2>5, AlignedSum
  <2> HIDE DEF carved
  <2>7. /\ entries' \in Seq(Entry) /\ DOMAIN entries' = DOMAIN entries
        /\ entries'[i] = carved
        /\ \A k \in DOMAIN entries : k # i => entries'[k] = entries[k]
    BY <1>2, <1>6, <2>1, <2>5
  <2>8. Types'
    BY <1>1, <1>2, <1>3, <2>1, <2>2, <2>7 DEF Types, Entry
  <2>9. \A k \in DOMAIN entries : entries'[k].usable => entries[k].usable
    BY <1>6, <2>7
  <2>10. \A k \in DOMAIN entries : Top(entries'[k]) = Top(entries[k])
    BY <1>6, <2>5, <2>7
  <2>11. HighestSoFar'
    <3>1. \A k \in DOMAIN entries : entries[k].usable => Top(entries[k]) <= highest_address
      BY <1>1 DEF HighestSoFar
    <3>2. \A k \in DOMAIN entries' : entries'[k].usable => Top(entries'[k]) <= highest_address'
      BY <1>1, <2>7, <2>9, <2>10, <3>1
    <3>3. highest_address' # 0 =>
             \E k \in DOMAIN MemMap : MemMap[k].usable /\ Top(MemMap[k]) = highest_address'
      BY <1>1 DEF HighestSoFar
    <3> QED BY <3>2, <3>3 DEF HighestSoFar, Top
  <2>12. \A k \in DOMAIN entries : entries[k].usable /\ k # i =>
            /\ entries[k].base \in Nat /\ Top(entries[k]) \in Nat
            /\ Top(entries[k]) <= entries[i].base \/ Top(entries[i]) <= entries[k].base
    BY <1>1, <1>6, UsableEntry DEF EntriesSound
  <2>13. EntriesSound'
    <3>1. \A k \in DOMAIN entries' : entries'[k].usable =>
             entries'[k].base % PageSize = 0 /\ entries'[k].length % PageSize = 0
      BY <2>6, <2>7 DEF EntriesSound
    <3>2. ASSUME NEW k \in DOMAIN entries, NEW l \in DOMAIN entries, k # l,
                 entries'[k].usable, entries'[l].usable
          PROVE  \/ Top(entries'[k]) <= entries'[l].base
                 \/ Top(entries'[l]) <= entries'[k].base
      <4>1. CASE k # i /\ l # i
        BY <3>2, <4>1, <2>7 DEF EntriesSound
      <4>2. CASE k = i
        BY <3>2, <4>2, <2>2, <2>5, <2>7, <2>9, <2>12, <1>4
      <4>3. CASE l = i
        BY <3>2, <4>3, <2>2, <2>5, <2>7, <2>9, <2>12, <1>4
      <4> QED BY <4>1, <4>2, <4>3
    <3> QED BY <3>1, <3>2, <2>1, <2>7 DEF EntriesSound, Top
  <2>14. BitmapApart'
    <3>1. ASSUME NEW k \in DOMAIN entries, entries'[k].usable
          PROVE  \/ Top(entries'[k]) <= entries[i].base
                 \/ entries[i].base + bitmap_size <= entries'[k].base
      <4>1. CASE k = i
        BY <4>1, <2>2, <2>5, <2>7, <1>4
      <4>2. CASE k # i
        BY <3>1, <4>2, <2>2, <2>7, <2>9, <2>12, <1>4, <1>6 DEF Top
      <4> QED BY <4>1, <4>2
    <3> QED BY <3>1, <1>3, <1>4, <2>1, <2>2, <2>4, <2>7 DEF BitmapApart, Top
  <2>15. ClearedSoFar' /\ Quiet' /\ Tracked' /\ FreeMemoryExact'
    BY <1>1, <2>1 DEF ClearedSoFar, Quiet, Tracked, FreeMemoryExact
  <2> QED BY <2>8, <2>11, <2>13, <2>14, <2>15
<1> QED BY <1>5, <1>6

\* After the bitmap is placed the layout of memory is fixed.
LEMMA LayoutFixed ==
  ASSUME entries' = entries, highest_address' = highest_address, pmm_bitmap' = pmm_bitmap
  PROVE  /\ pmm_highest_page' = pmm_highest_page /\ Pages' = Pages
         /\ bitmap_size' = bitmap_size /\ Pool' = Pool
         /\ \A p, k : InEntry(p, k)' <=> InEntry(p, k)
<1>1. pmm_highest_page' = pmm_highest_page
  BY DEF pmm_highest_page
<1>2. Pages' = Pages /\ bitmap_size' = bitmap_size
  BY <1>1 DEF Pages, bitmap_size
<1>3. Pool' = Pool
  BY <1>2 DEF Pool, EntryPages, PageAt
<1>4. \A p, k : InEntry(p, k)' <=> InEntry(p, k)
  BY DEF InEntry, Top
<1> QED BY <1>1, <1>2, <1>3, <1>4

\* The parts of the invariant about the layout survive every later step.
LEMMA LayoutKept ==
  ASSUME IInv, pc \in {"fill", "clear", "ready"}, pc' \in {"clear", "ready"},
         entries' = entries, highest_address' = highest_address, pmm_bitmap' = pmm_bitmap
  PROVE  HighestSoFar' /\ EntriesSound' /\ BitmapApart'
<1>1. HighestSoFar'
  BY DEF IInv, HighestSoFar, Top
<1>2. EntriesSound'
  BY DEF IInv, EntriesSound, Top
<1>3. BitmapApart'
  BY LayoutFixed DEF IInv, BitmapApart, Top
<1> QED BY <1>1, <1>2, <1>3

\* The set of pages and all its subsets are finite.
LEMMA PagesFinite ==
  ASSUME pmm_highest_page \in Nat, NEW S \in SUBSET Pages
  PROVE  IsFiniteSet(S) /\ Cardinality(S) \in Nat
<1>1. IsFiniteSet(Pages)
  BY FS_Interval DEF Pages
<1> QED BY <1>1, FS_Subset, FS_CardinalityType

\* All bits are set: the bitmap has exactly one bit per page.
LEMMA FillBitmapKeeps == IInv /\ FillBitmap => IInv'
<1> SUFFICES ASSUME IInv, FillBitmap PROVE IInv'
  OBVIOUS
<1> USE DEF IInv
<1>0. PageSize \in Nat \ {0}
  BY SizesAssumption
<1>1. /\ pc = "fill" /\ pc' = "clear" /\ i = 1 /\ i' = 1 /\ j = 0 /\ j' = 0
      /\ entries' = entries /\ highest_address' = highest_address /\ pmm_bitmap' = pmm_bitmap
      /\ pmm_free_memory' = 0 /\ held' = {} /\ ret' = ret
      /\ pmm_last_allocated_index' = 0
  BY DEF FillBitmap, initvars, Quiet
<1>2. HighestSoFar' /\ EntriesSound' /\ BitmapApart'
  BY <1>1, LayoutKept
<1>3. /\ pmm_highest_page \in Nat /\ Pages' = Pages /\ pmm_highest_page' = pmm_highest_page
      /\ \A p, k : InEntry(p, k)' <=> InEntry(p, k)
  BY <1>1, LayoutFixed, HighestAligned
<1>4. bitmap' = Pages
  <2>1. BitsPerByte * bitmap_size = pmm_highest_page
    BY <1>1 DEF BitmapApart
  <2>2. \A b \in Pages : b < pmm_highest_page /\ ~(b >= pmm_highest_page)
    BY <1>3 DEF Pages
  <2> QED BY <2>1, <2>2 DEF FillBitmap
<1>5. Types'
  BY <1>1, <1>3, <1>4 DEF Types
<1>6. ClearedSoFar'
  <2>1. entries \in Seq(Entry)
    BY DEF Types, Entry
  <2>2. \A k \in DOMAIN entries : ~(k < 1) /\ entries[k].base \in Nat
    BY <2>1, SeqElement, EntryNumbers
  <2>3. ASSUME NEW p \in Pages, NEW k \in DOMAIN entries, InEntry(p, k)
        PROVE  ~(PageSize * p < entries[k].base + 0)
    <3>1. PageSize * p \in Nat /\ entries[k].base <= PageSize * p
      BY <2>3, <1>0, <1>3, MulOrder DEF InEntry, Pages
    <3> QED BY <3>1, <2>2
  <2>4. 0 % PageSize = 0
    <3>1. (PageSize * 0) % PageSize = 0 /\ PageSize * 0 = 0
      BY <1>0, Multiple
    <3> QED BY <3>1
  <2>5. ASSUME NEW p \in Pages', NEW k \in DOMAIN entries', InEntry(p, k)'
        PROVE  ~(k < i' \/ (k = i' /\ PageSize * p < entries'[k].base + j'))
    BY <2>5, <2>2, <2>3, <1>1, <1>3
  <2>6. \A p \in Pages' : p \in bitmap'
    BY <1>3, <1>4
  <2> QED BY <2>4, <2>5, <2>6, <1>1 DEF ClearedSoFar
<1>7. FreeMemoryExact'
  <2>1. Pages' \ bitmap' = {}
    BY <1>3, <1>4
  <2>2. Cardinality({}) = 0 /\ PageSize * 0 = 0
    BY <1>0, FS_EmptySet
  <2> QED BY <2>1, <2>2, <1>1 DEF FreeMemoryExact
<1>8. Quiet' /\ Tracked'
  BY <1>1 DEF Quiet, Tracked
<1> QED BY <1>2, <1>5, <1>6, <1>7, <1>8

\* One iteration of the clearing loop.
LEMMA ClearPageKeeps == IInv /\ ClearPage => IInv'
<1> SUFFICES ASSUME IInv, ClearPage PROVE IInv'
  OBVIOUS
<1> USE DEF IInv
<1>0. PageSize \in Nat \ {0}
  BY SizesAssumption
<1> DEFINE e == entries[i]
           page == PageAt(e, j)
<1>1. /\ pc = "clear" /\ pc' = "clear" /\ i' = i /\ j' = j + PageSize /\ held' = {} /\ ret' = ret
      /\ entries' = entries /\ highest_address' = highest_address /\ pmm_bitmap' = pmm_bitmap
      /\ bitmap' = bitmap \ {page} /\ pmm_free_memory' = pmm_free_memory + PageSize
      /\ pmm_last_allocated_index' = 0 /\ i \in DOMAIN entries /\ e.usable /\ j < e.length
  BY DEF ClearPage, Quiet
<1>2. HighestSoFar' /\ EntriesSound' /\ BitmapApart'
  BY <1>1, LayoutKept
<1>3. /\ pmm_highest_page \in Nat /\ Pages' = Pages /\ pmm_highest_page' = pmm_highest_page
      /\ highest_address = PageSize * pmm_highest_page
      /\ \A p, k : InEntry(p, k)' <=> InEntry(p, k)
  BY <1>1, LayoutFixed, HighestAligned
<1>4. /\ e.base \in Nat /\ e.length \in Nat /\ e.base % PageSize = 0 /\ e.length % PageSize = 0
      /\ Top(e) \in Nat /\ Top(e) <= highest_address
  BY <1>1, UsableEntry
<1>5. j \in Nat /\ i \in Nat \ {0} /\ j % PageSize = 0 /\ highest_address \in Nat
  BY <1>1 DEF Types, ClearedSoFar
<1>6. page \in Nat /\ PageSize * page = e.base + j
  <2>0. (e.base + j) % PageSize = 0
    BY <1>0, <1>4, <1>5, AlignedSum
  <2>1. (e.base + j) % PageSize = 0 /\ e.base + j \in Nat
    BY <1>4, <1>5, <2>0
  <2> QED BY <1>0, <2>1, Aligned DEF PageAt
<1> HIDE DEF page
<1>7. InEntry(page, i) /\ page \in Pages
  <2>1. PageSize * page < Top(e) /\ e.base <= PageSize * page
    BY <1>1, <1>4, <1>5, <1>6 DEF Top
  <2>2. page < pmm_highest_page
    BY <2>1, <1>0, <1>3, <1>4, <1>5, <1>6, MulOrder
  <2> QED BY <2>1, <2>2, <1>1, <1>3, <1>6 DEF InEntry, Pages
<1>8. page \in bitmap
  <2>1. SUFFICES ASSUME NEW k \in DOMAIN entries, InEntry(page, k),
                        k < i \/ (k = i /\ PageSize * page < entries[k].base + j)
                 PROVE  FALSE
    BY <1>1, <1>7 DEF ClearedSoFar
  <2>2. k < i
    BY <2>1, <1>4, <1>5, <1>6
  <2>3. k # i
    BY <2>2, <1>5
  <2>4. /\ entries[k].base \in Nat /\ Top(entries[k]) \in Nat /\ entries[k].usable
        /\ entries[k].base <= PageSize * page /\ PageSize * page < Top(entries[k])
    BY <1>1, <2>1, UsableEntry DEF InEntry
  <2>5. Top(entries[k]) <= e.base \/ Top(e) <= entries[k].base
    BY <1>1, <2>1, <2>3, <2>4 DEF EntriesSound
  <2>6. e.base <= PageSize * page /\ PageSize * page < Top(e)
    BY <1>7 DEF InEntry
  <2> QED BY <2>4, <2>5, <2>6, <1>4, <1>5, <1>6
<1>9. Types'
  BY <1>0, <1>1, <1>3, <1>5 DEF Types
<1>10. ClearedSoFar'
  <2>1. j' % PageSize = 0
    <3>1. PageSize % PageSize = 0
      <4>1. (PageSize * 1) % PageSize = 0 /\ PageSize * 1 = PageSize
        BY <1>0, Multiple
      <4> QED BY <4>1
    <3> QED BY <1>0, <1>1, <1>5, <3>1, AlignedSum
  <2>2. ASSUME NEW p \in Pages
        PROVE  p \notin bitmap' <=>
                 \E k \in DOMAIN entries : InEntry(p, k) /\
                     (k < i \/ (k = i /\ PageSize * p < entries[k].base + (j + PageSize)))
    <3>1. p \in Nat /\ PageSize * p \in Nat
      BY <1>0, <1>3, MulOrder DEF Pages
    <3>2. PageSize * p < e.base + (j + PageSize) <=> PageSize * p < e.base + j \/ p = page
      <4>1. ASSUME PageSize * p < PageSize * page + PageSize PROVE p <= page
        BY <4>1, <3>1, <1>0, <1>6, MulOrder
      <4>2. ASSUME p < page PROVE PageSize * p < PageSize * page
        BY <4>2, <3>1, <1>0, <1>6, MulOrder
      <4>3. e.base + (j + PageSize) = PageSize * page + PageSize
        BY <1>0, <1>4, <1>5, <1>6
      <4>4. PageSize * page \in Nat
        BY <1>0, <1>6, MulOrder
      <4> QED BY <4>1, <4>2, <4>3, <4>4, <3>1, <1>0, <1>6
    <3>3. p \notin bitmap <=>
             \E k \in DOMAIN entries : InEntry(p, k) /\
                 (k < i \/ (k = i /\ PageSize * p < entries[k].base + j))
      BY <1>1 DEF ClearedSoFar
    <3>4. p \notin bitmap' <=> p \notin bitmap \/ p = page
      BY <1>1
    <3> QED BY <3>2, <3>3, <3>4, <1>1, <1>7
  <2> QED BY <2>1, <2>2, <1>1, <1>3 DEF ClearedSoFar
<1>11. FreeMemoryExact'
  <2> DEFINE free == Pages \ bitmap
  <2>1. Pages' \ bitmap' = free \cup {page} /\ page \notin free
    BY <1>1, <1>3, <1>7, <1>8
  <2>2. IsFiniteSet(free) /\ Cardinality(free) \in Nat
    BY <1>3, PagesFinite
  <2>3. Cardinality(free \cup {page}) = Cardinality(free) + 1
    BY <2>1, <2>2, FS_AddElement
  <2>4. pmm_free_memory = PageSize * Cardinality(free)
    BY <1>1 DEF FreeMemoryExact
  <2> HIDE DEF free
  <2>5. PageSize * (Cardinality(free) + 1) = PageSize * Cardinality(free) + PageSize
    BY <1>0, <2>2
  <2> QED BY <2>1, <2>3, <2>4, <2>5, <1>1 DEF FreeMemoryExact
<1>12. Quiet' /\ Tracked'
  BY <1>1 DEF Quiet, Tracked
<1> QED BY <1>2, <1>9, <1>10, <1>11, <1>12

\* The end of an entry, and the end of pmm_init.
LEMMA NextEntryKeeps == IInv /\ NextEntry => IInv'
<1> SUFFICES ASSUME IInv, NextEntry PROVE IInv'
  OBVIOUS
<1> USE DEF IInv
<1>0. PageSize \in Nat \ {0}
  BY SizesAssumption
<1>1. /\ pc = "clear" /\ pc' \in {"clear", "ready"} /\ held' = {} /\ ret' = ret
      /\ entries' = entries /\ highest_address' = highest_address /\ pmm_bitmap' = pmm_bitmap
      /\ bitmap' = bitmap /\ pmm_free_memory' = pmm_free_memory
      /\ pmm_last_allocated_index' = 0
  BY DEF NextEntry, Quiet
<1>2. HighestSoFar' /\ EntriesSound' /\ BitmapApart'
  BY <1>1, LayoutKept
<1>3. /\ pmm_highest_page \in Nat /\ Pages' = Pages /\ pmm_highest_page' = pmm_highest_page
      /\ Pool' = Pool /\ \A p, k : InEntry(p, k)' <=> InEntry(p, k)
  BY <1>1, LayoutFixed, HighestAligned
<1>4. /\ i \in Nat \ {0} /\ j \in Nat /\ entries \in Seq(Entry)
      /\ \A k \in DOMAIN entries : k \in 1..Len(entries)
  <2>1. i \in Nat \ {0} /\ j \in Nat /\ entries \in Seq(Entry)
    BY DEF Types, Entry
  <2> QED BY <2>1, SeqElement
<1>5. Types'
  <2>1. i' \in Nat \ {0} /\ j' \in Nat
    BY <1>4 DEF NextEntry
  <2> QED BY <2>1, <1>1, <1>3 DEF Types
<1>6. FreeMemoryExact'
  BY <1>1, <1>3 DEF FreeMemoryExact
<1>7. Quiet'
  BY <1>1 DEF Quiet
<1>8. ASSUME NEW p \in Pages
      PROVE  /\ p \notin bitmap <=>
                  \E k \in DOMAIN entries : InEntry(p, k) /\
                      (k < i \/ (k = i /\ PageSize * p < entries[k].base + j))
             /\ p \in Nat /\ PageSize * p \in Nat
  BY <1>0, <1>1, <1>3, MulOrder DEF ClearedSoFar, Pages
<1>9. ASSUME NEW p \in Pages, NEW k \in DOMAIN entries, InEntry(p, k)
      PROVE  /\ entries[k].base \in Nat /\ entries[k].length \in Nat /\ entries[k].usable
             /\ entries[k].base <= PageSize * p
             /\ PageSize * p < entries[k].base + entries[k].length
  BY <1>1, <1>9, UsableEntry DEF InEntry, Top
<1>10. CASE i \in DOMAIN entries
  <2>1. /\ i' = i + 1 /\ j' = 0 /\ pc' = "clear"
        /\ ~entries[i].usable \/ j >= entries[i].length
    BY <1>1, <1>10 DEF NextEntry
  <2>2. 0 % PageSize = 0
    <3>1. (PageSize * 0) % PageSize = 0 /\ PageSize * 0 = 0
      BY <1>0, Multiple
    <3> QED BY <3>1
  <2>3. ASSUME NEW p \in Pages, NEW k \in DOMAIN entries, InEntry(p, k)
        PROVE  (k < i \/ (k = i /\ PageSize * p < entries[k].base + j)) <=>
               (k < i + 1 \/ (k = i + 1 /\ PageSize * p < entries[k].base + 0))
    <3>1. k < i + 1 <=> k < i \/ k = i
      BY <1>4
    <3>2. ~(PageSize * p < entries[k].base + 0)
      BY <1>8, <1>9, <2>3
    <3>3. k = i => PageSize * p < entries[k].base + j
      BY <1>4, <1>8, <1>9, <2>1, <2>3
    <3> QED BY <3>1, <3>2, <3>3
  <2>4. ClearedSoFar'
    BY <1>1, <1>3, <1>8, <2>1, <2>2, <2>3 DEF ClearedSoFar
  <2>5. Tracked'
    BY <2>1 DEF Tracked
  <2> QED BY <1>2, <1>5, <1>6, <1>7, <2>4, <2>5
<1>11. CASE i \notin DOMAIN entries
  <2>1. pc' = "ready"
    BY <1>11 DEF NextEntry
  <2>2. \A k \in DOMAIN entries : k < i
    BY <1>4, <1>11
  <2>3. \A p \in Pages : p \notin bitmap <=> p \in Pool
    <3>1. ASSUME NEW p \in Pages PROVE p \in Pool <=> \E k \in DOMAIN entries : InEntry(p, k)
      BY <1>1, <1>8, PoolByAddress
    <3> QED BY <3>1, <1>8, <2>2
  <2>4. Pool \subseteq Pages
    BY DEF Pool, EntryPages
  <2>5. Tracked'
    BY <1>1, <1>3, <2>3, <2>4 DEF Tracked
  <2>6. ClearedSoFar'
    BY <2>1 DEF ClearedSoFar
  <2> QED BY <1>2, <1>5, <1>6, <1>7, <2>5, <2>6
<1> QED BY <1>10, <1>11

\* What a successful scan guarantees.
LEMMA ScanFinds ==
  ASSUME Types, pmm_highest_page \in Nat, NEW s \in Pages, NEW n \in Nat \ {0}, Scan(s, n)
  PROVE  /\ s..(s + n - 1) \subseteq Pages \ bitmap
         /\ s + n \in 0..pmm_highest_page
<1>1. /\ s \in Nat /\ pmm_last_allocated_index \in Nat
      /\ pmm_last_allocated_index <= pmm_highest_page
  BY DEF Types, Pages
<1>2. s + n <= pmm_highest_page /\ \A k \in s..(s + n - 1) : k \notin bitmap
  BY <1>1 DEF Scan, Picks, FirstRun, RunAt
<1> QED BY <1>1, <1>2 DEF Pages

\* The number of pages of a run.
LEMMA RunLength ==
  ASSUME NEW s \in Nat, NEW n \in Nat \ {0}
  PROVE  IsFiniteSet(s..(s + n - 1)) /\ Cardinality(s..(s + n - 1)) = n
BY FS_Interval

\* A step of the allocator that leaves the layout alone.
Allocating ==
  /\ pc = "ready" /\ pc' = "ready" /\ i' = i /\ j' = j
  /\ entries' = entries /\ highest_address' = highest_address /\ pmm_bitmap' = pmm_bitmap

\* A run is taken out of the free pages and becomes held.
LEMMA TakeKeeps ==
  ASSUME IInv, Allocating, NEW s \in Pages, NEW n \in Nat \ {0},
         NEW hint \in 0..pmm_highest_page, Scan(s, n), Take(s, n, hint)
  PROVE  IInv'
<1> USE DEF IInv
<1> DEFINE run == s..(s + n - 1)
           free == Pages \ bitmap
<1>0. PageSize \in Nat \ {0}
  BY SizesAssumption
<1>1. HighestSoFar' /\ EntriesSound' /\ BitmapApart'
  BY LayoutKept DEF Allocating
<1>2. /\ pmm_highest_page \in Nat /\ Pages' = Pages /\ pmm_highest_page' = pmm_highest_page
      /\ Pool' = Pool
  BY LayoutFixed, HighestAligned DEF Allocating
<1>3. run \subseteq free /\ s \in Nat
  BY <1>2, ScanFinds DEF Pages
<1>4. /\ bitmap' = bitmap \cup run /\ held' = held \cup run
      /\ pmm_free_memory' = pmm_free_memory - PageSize * n
      /\ pmm_last_allocated_index' = hint /\ ret' = [count |-> n, page |-> s]
  BY DEF Take
<1>5. held \subseteq Pool /\ free = Pool \ held
  BY DEF Tracked, Allocating
<1>6. Types'
  <2>1. bitmap' \subseteq Pages' /\ held' \subseteq Pages'
    BY <1>2, <1>3, <1>4 DEF Types
  <2>2. ret' \in [count : Nat, page : Nat \cup {NULL}]
    BY <1>3, <1>4
  <2> QED BY <2>1, <2>2, <1>2, <1>4 DEF Types, Allocating
<1>7. Tracked'
  <2> HIDE DEF run
  <2> QED BY <1>2, <1>3, <1>4, <1>5 DEF Tracked
<1>8. FreeMemoryExact'
  <2>1. IsFiniteSet(free) /\ Cardinality(free) \in Nat
    BY <1>2, PagesFinite
  <2>2. IsFiniteSet(run) /\ Cardinality(run) = n
    BY <1>3, RunLength
  <2>3. pmm_free_memory = PageSize * Cardinality(free)
    BY DEF FreeMemoryExact, Allocating
  <2>4. Pages' \ bitmap' = free \ run
    BY <1>2, <1>4
  <2> HIDE DEF run, free
  <2>5. Cardinality(free \ run) = Cardinality(free) - n
    <3>1. free \cap run = run
      BY <1>3
    <3> QED BY <2>1, <2>2, <3>1, FS_Difference
  <2>6. PageSize * (Cardinality(free) - n) = PageSize * Cardinality(free) - PageSize * n
    BY <1>0, <2>1
  <2> QED BY <1>4, <2>3, <2>4, <2>5, <2>6 DEF FreeMemoryExact
<1>9. ClearedSoFar' /\ Quiet'
  BY DEF ClearedSoFar, Quiet, Allocating
<1> QED BY <1>1, <1>6, <1>7, <1>8, <1>9

\* A step that leaves bitmap, counter, hint and holders alone.
LEMMA NothingTakenKeeps ==
  ASSUME IInv, Allocating, bitmap' = bitmap, held' = held,
         pmm_free_memory' = pmm_free_memory,
         pmm_last_allocated_index' = pmm_last_allocated_index,
         ret' \in [count : Nat, page : Nat \cup {NULL}]
  PROVE  IInv'
<1> USE DEF IInv
<1>1. HighestSoFar' /\ EntriesSound' /\ BitmapApart'
  BY LayoutKept DEF Allocating
<1>2. Pages' = Pages /\ pmm_highest_page' = pmm_highest_page /\ Pool' = Pool
  BY LayoutFixed DEF Allocating
<1>3. Types'
  BY <1>2 DEF Types, Allocating
<1>4. ClearedSoFar' /\ Quiet' /\ Tracked' /\ FreeMemoryExact'
  BY <1>2 DEF ClearedSoFar, Quiet, Tracked, FreeMemoryExact, Allocating
<1> QED BY <1>1, <1>3, <1>4

\* pmm_alloc_page takes the page it finds, or returns NULL.
LEMMA AllocPageKeeps == IInv /\ pmm_alloc_page => IInv'
<1> SUFFICES ASSUME IInv, pmm_alloc_page PROVE IInv'
  OBVIOUS
<1>1. Allocating
  BY DEF pmm_alloc_page, initvars, Allocating
<1>2. ASSUME NEW s \in Pages, Scan(s, 1), Take(s, 1, s) PROVE IInv'
  <2>1. pmm_highest_page \in Nat
    BY HighestAligned DEF IInv
  <2>2. s \in 0..pmm_highest_page
    BY <2>1 DEF Pages
  <2> QED BY <1>1, <1>2, <2>2, TakeKeeps
<1>3. ASSUME ReturnNull(1) PROVE IInv'
  <2>1. ret' \in [count : Nat, page : Nat \cup {NULL}]
    BY <1>3 DEF ReturnNull
  <2> QED BY <1>1, <1>3, <2>1, NothingTakenKeeps DEF ReturnNull
<1> QED BY <1>2, <1>3 DEF pmm_alloc_page

\* pmm_alloc_pages takes the run it finds, or returns NULL.
LEMMA AllocPagesKeeps ==
  ASSUME IInv, NEW count \in Nat, pmm_alloc_pages(count)
  PROVE  IInv'
<1>1. Allocating
  BY DEF pmm_alloc_pages, initvars, Allocating
<1>2. ASSUME NEW s \in Pages, count > 1, Scan(s, count), Take(s, count, s + count) PROVE IInv'
  <2>1. pmm_highest_page \in Nat
    BY HighestAligned DEF IInv
  <2>2. s + count \in 0..pmm_highest_page
    BY <1>2, <2>1, ScanFinds DEF IInv
  <2> QED BY <1>1, <1>2, <2>2, TakeKeeps
<1>3. ASSUME NEW n \in Nat, ReturnNull(n) PROVE IInv'
  <2>1. ret' \in [count : Nat, page : Nat \cup {NULL}]
    BY <1>3 DEF ReturnNull
  <2> QED BY <1>1, <1>3, <2>1, NothingTakenKeeps DEF ReturnNull
<1> QED BY <1>2, <1>3 DEF pmm_alloc_pages

\* pmm_free_page returns a held page to the pool; a repeated free changes nothing.
LEMMA FreePageKeeps ==
  ASSUME IInv, NEW p \in Pages, pmm_free_page(p)
  PROVE  IInv'
<1> USE DEF IInv
<1> DEFINE free == Pages \ bitmap
<1>0. PageSize \in Nat \ {0}
  BY SizesAssumption
<1>1. Allocating /\ pmm_last_allocated_index' = pmm_last_allocated_index /\ ret' = ret
  BY DEF pmm_free_page, initvars, Allocating
<1>2. /\ bitmap' = bitmap \ {p} /\ held' = held \ {p}
      /\ p \in held \/ p \in Pool \ bitmap
      /\ pmm_free_memory' = IF p \in bitmap THEN pmm_free_memory + PageSize ELSE pmm_free_memory
  BY DEF pmm_free_page
<1>3. held \subseteq Pool /\ free = Pool \ held
  BY <1>1 DEF Tracked, Allocating
<1>4. CASE p \in held
  <2>1. p \in bitmap
    BY <1>3, <1>4
  <2>2. HighestSoFar' /\ EntriesSound' /\ BitmapApart'
    BY <1>1, LayoutKept DEF Allocating
  <2>3. /\ pmm_highest_page \in Nat /\ Pages' = Pages /\ pmm_highest_page' = pmm_highest_page
        /\ Pool' = Pool
    BY <1>1, LayoutFixed, HighestAligned DEF Allocating
  <2>4. Types'
    BY <1>1, <1>2, <2>3 DEF Types, Allocating
  <2>5. Tracked'
    BY <1>2, <1>3, <1>4, <2>3 DEF Tracked
  <2>6. FreeMemoryExact'
    <3>1. Pages' \ bitmap' = free \cup {p} /\ p \notin free
      BY <1>2, <2>1, <2>3
    <3>2. IsFiniteSet(free) /\ Cardinality(free) \in Nat
      BY <2>3, PagesFinite
    <3>3. Cardinality(free \cup {p}) = Cardinality(free) + 1
      BY <3>1, <3>2, FS_AddElement
    <3>4. pmm_free_memory = PageSize * Cardinality(free)
      BY <1>1 DEF FreeMemoryExact, Allocating
    <3> HIDE DEF free
    <3>5. PageSize * (Cardinality(free) + 1) = PageSize * Cardinality(free) + PageSize
      BY <1>0, <3>2
    <3> QED BY <1>2, <2>1, <3>1, <3>3, <3>4, <3>5 DEF FreeMemoryExact
  <2>7. ClearedSoFar' /\ Quiet'
    BY <1>1 DEF ClearedSoFar, Quiet, Allocating
  <2> QED BY <2>2, <2>4, <2>5, <2>6, <2>7
<1>5. CASE p \in Pool \ bitmap
  <2>1. p \notin held /\ p \notin bitmap
    BY <1>3, <1>5
  <2>2. bitmap' = bitmap /\ held' = held /\ pmm_free_memory' = pmm_free_memory
    BY <1>2, <2>1
  <2>3. ret' \in [count : Nat, page : Nat \cup {NULL}]
    BY <1>1 DEF Types
  <2> QED BY <1>1, <2>2, <2>3, NothingTakenKeeps
<1> QED BY <1>2, <1>4, <1>5

\* A holder's store reaches no bit of the bitmap.
LEMMA HolderWritesKeeps ==
  ASSUME IInv, NEW p \in Pages, HolderWrites(p)
  PROVE  IInv'
<1>1. Allocating
  BY DEF HolderWrites, initvars, Allocating
<1>2. p \in Pool /\ p \in Nat
  <2>1. pmm_highest_page \in Nat
    BY HighestAligned DEF IInv
  <2> QED BY <2>1 DEF IInv, Tracked, HolderWrites, Pages
<1>3. StoredIn(p) = {}
  BY <1>1, <1>2, StoredApart DEF IInv, Allocating
<1>4. bitmap' = bitmap
  BY <1>3 DEF HolderWrites
<1>5. ret' \in [count : Nat, page : Nat \cup {NULL}]
  BY DEF HolderWrites, IInv, Types
<1> QED BY <1>1, <1>4, <1>5, NothingTakenKeeps DEF HolderWrites

-----------------------------------------------------------------------------
(* The theorems. *)

\* IInv is an invariant of pmm.c on every machine on which the bitmap fills
\* whole pages (pmm_init carves bitmap_size bytes out of a page-aligned region).
THEOREM Invariance == BitmapFillsPages => (Spec => []IInv)
<1> SUFFICES ASSUME BitmapFillsPages PROVE Spec => []IInv
  OBVIOUS
<1>1. Init => IInv
  BY InitIInv
<1>2. IInv /\ [Next]_vars => IInv'
  <2> SUFFICES ASSUME IInv, [Next]_vars PROVE IInv'
    OBVIOUS
  <2>1. ASSUME ScanEntry PROVE IInv'
    BY <2>1, ScanEntryKeeps
  <2>2. ASSUME PlaceBitmap PROVE IInv'
    BY <2>2, PlaceBitmapKeeps
  <2>3. ASSUME FillBitmap PROVE IInv'
    BY <2>3, FillBitmapKeeps
  <2>4. ASSUME ClearPage PROVE IInv'
    BY <2>4, ClearPageKeeps
  <2>5. ASSUME NextEntry PROVE IInv'
    BY <2>5, NextEntryKeeps
  <2>6. ASSUME pmm_alloc_page PROVE IInv'
    BY <2>6, AllocPageKeeps
  <2>7. ASSUME NEW count \in 0..MaxCount, pmm_alloc_pages(count) PROVE IInv'
    <3>1. count \in Nat
      BY SizesAssumption
    <3> QED BY <2>7, <3>1, AllocPagesKeeps
  <2>8. ASSUME NEW p \in Pages, pmm_free_page(p) PROVE IInv'
    BY <2>8, FreePageKeeps
  <2>9. ASSUME NEW p \in Pages, HolderWrites(p) PROVE IInv'
    BY <2>9, HolderWritesKeeps
  <2>10. ASSUME UNCHANGED vars PROVE IInv'
    <3> USE <2>10 DEF vars
    <3>1. /\ Pages' = Pages /\ pmm_highest_page' = pmm_highest_page /\ Pool' = Pool
          /\ bitmap_size' = bitmap_size /\ \A p, k : InEntry(p, k)' <=> InEntry(p, k)
      BY LayoutFixed
    <3>2. Types' /\ HighestSoFar' /\ EntriesSound' /\ BitmapApart'
      BY <3>1 DEF IInv, Types, HighestSoFar, EntriesSound, BitmapApart, Top
    <3>3. ClearedSoFar' /\ Quiet' /\ Tracked' /\ FreeMemoryExact'
      BY <3>1 DEF IInv, ClearedSoFar, Quiet, Tracked, FreeMemoryExact
    <3> QED BY <3>2, <3>3 DEF IInv
  <2> QED BY <2>1, <2>2, <2>3, <2>4, <2>5, <2>6, <2>7, <2>8, <2>9, <2>10 DEF Next
<1> QED BY <1>1, <1>2, PTL DEF Spec

\* Every variable of pmm.c keeps its type: pmm_free_memory never goes below 0,
\* the next-fit hint never passes pmm_highest_page.
THEOREM TypeCorrect == BitmapFillsPages => (Spec => []TypeOK)
<1> SUFFICES ASSUME BitmapFillsPages PROVE Spec => []TypeOK
  OBVIOUS
<1>1. IInv => TypeOK
  <2> SUFFICES ASSUME IInv PROVE TypeOK
    OBVIOUS
  <2>1. pmm_free_memory \in Nat
    <3>1. CASE pc \in {"clear", "ready"}
      <4>1. pmm_highest_page \in Nat
        BY HighestAligned DEF IInv
      <4>2. Cardinality(Pages \ bitmap) \in Nat
        BY <4>1, PagesFinite
      <4> QED BY <3>1, <4>2, SizesAssumption, MulOrder DEF IInv, FreeMemoryExact
    <3>2. CASE pc \notin {"clear", "ready"}
      BY <3>2 DEF IInv, Types, Quiet
    <3> QED BY <3>1, <3>2
  <2> QED BY <2>1 DEF IInv, Types, TypeOK
<1> QED BY <1>1, Invariance, PTL

\* pmm_alloc_page and pmm_alloc_pages never hand out a page in which the
\* bitmap is stored.
THEOREM BitmapReserved == BitmapFillsPages => (Spec => []BitmapIsReserved)
<1> SUFFICES ASSUME BitmapFillsPages PROVE Spec => []BitmapIsReserved
  OBVIOUS
<1>1. IInv => BitmapIsReserved
  <2> SUFFICES ASSUME IInv, pc = "ready", NEW p \in held PROVE StoredIn(p) = {}
    BY DEF BitmapIsReserved
  <2>1. pmm_highest_page \in Nat
    BY HighestAligned DEF IInv
  <2>2. p \in Pool /\ p \in Nat
    BY <2>1 DEF IInv, Tracked, Types, Pages
  <2> QED BY <2>2, StoredApart DEF IInv
<1> QED BY <1>1, Invariance, PTL

\* The clear bits are exactly the pool's pages that nobody holds: no page has
\* two holders and none is lost, whatever is allocated, freed and written.
THEOREM HoldersTracked == BitmapFillsPages => (Spec => []BitmapTracksHolders)
<1> SUFFICES ASSUME BitmapFillsPages PROVE Spec => []BitmapTracksHolders
  OBVIOUS
<1>1. IInv => BitmapTracksHolders
  BY DEF IInv, Tracked, BitmapTracksHolders
<1> QED BY <1>1, Invariance, PTL

\* pmm_free_memory is PAGE_SIZE times the number of clear bits at all times.
THEOREM FreeMemoryCounted == BitmapFillsPages => (Spec => []FreeMemoryExact)
<1> SUFFICES ASSUME BitmapFillsPages PROVE Spec => []FreeMemoryExact
  OBVIOUS
<1>1. IInv => FreeMemoryExact
  BY DEF IInv
<1> QED BY <1>1, Invariance, PTL

\* pmm_alloc_page returns NULL only when no bit is clear: the two loops
\* together pass over every page.
LEMMA SinglePageFound ==
  ASSUME Types, pmm_highest_page \in Nat, ScanFails(1)
  PROVE  Pages \subseteq bitmap
<1> SUFFICES ASSUME NEW p \in Pages, p \notin bitmap PROVE FALSE
  OBVIOUS
<1> DEFINE hint == pmm_last_allocated_index
<1>1. p \in Nat /\ p < pmm_highest_page /\ hint \in 0..pmm_highest_page
  BY DEF Pages, Types
<1>2. \A k \in p..(p + 1 - 1) : k \notin bitmap
  BY <1>1
<1> HIDE DEF hint
<1>3. CASE hint <= p
  <2>1. RunAt(bitmap, p, 1, hint, pmm_highest_page) /\ p \in hint..pmm_highest_page
    BY <1>1, <1>2, <1>3 DEF RunAt
  <2> QED BY <2>1 DEF ScanFails, Exhausted, NoRun, hint
<1>4. CASE p < hint
  <2>1. RunAt(bitmap, p, 1, 0, hint) /\ p \in 0..hint
    BY <1>1, <1>2, <1>4 DEF RunAt
  <2> QED BY <2>1 DEF ScanFails, Exhausted, NoRun, hint
<1> QED BY <1>1, <1>3, <1>4

\* A run handed out is a grant of pages of the pool that nobody held.
LEMMA TakeGrants ==
  ASSUME IInv, Allocating, NEW s \in Pages, NEW n \in 1..MaxCount, Scan(s, n),
         held' = held \cup s..(s + n - 1), ret' = [count |-> n, page |-> s]
  PROVE  Allocator!Next
<1>1. pmm_highest_page \in Nat /\ n \in Nat \ {0} /\ n \in 0..MaxCount
  BY HighestAligned, SizesAssumption DEF IInv
<1>2. s..(s + n - 1) \subseteq Pages \ bitmap /\ s \in Nat
  BY <1>1, ScanFinds DEF IInv, Pages
<1>3. s..(s + n - 1) \subseteq Pool \ held
  BY <1>2 DEF IInv, Tracked, Allocating
<1>4. s \in Pool
  BY <1>1, <1>2, <1>3
<1>5. Pool' = Pool
  BY LayoutFixed DEF Allocating
<1>6. Allocator!Grant(s, n)
  BY <1>1, <1>3, <1>5 DEF Allocator!Grant, Allocating
<1> QED BY <1>1, <1>4, <1>6 DEF Allocator!Next, Allocating

\* NULL is a refusal; for a single page every page of the pool is held.
LEMMA NullRefuses ==
  ASSUME IInv, Allocating, NEW n \in 0..MaxCount, n = 1 => ScanFails(1), ReturnNull(n)
  PROVE  Allocator!Next
<1>1. n = 1 => Pool \subseteq held
  <2>1. pmm_highest_page \in Nat
    BY HighestAligned DEF IInv
  <2>2. ASSUME n = 1 PROVE Pages \subseteq bitmap
    BY <2>1, <2>2, SinglePageFound DEF IInv
  <2>3. Pages \ bitmap = Pool \ held
    BY DEF IInv, Tracked, Allocating
  <2> QED BY <2>2, <2>3
<1>2. Pool' = Pool
  BY LayoutFixed DEF Allocating
<1>3. Allocator!Refuse(n)
  BY <1>1, <1>2 DEF Allocator!Refuse, ReturnNull, Allocating
<1> QED BY <1>3 DEF Allocator!Next

\* The bitmap allocator of pmm.c implements PageAllocator: a page has one
\* holder at a time, and a single page is refused only when all are held.
THEOREM Refinement == BitmapFillsPages => (Spec => AllocatorSpec)
<1> SUFFICES ASSUME BitmapFillsPages PROVE Spec => Allocator!Spec
  BY DEF AllocatorSpec
<1>1. Init => Allocator!Init
  BY DEF Init, Allocator!Init
<1>2. IInv /\ IInv' /\ [Next]_vars => [Allocator!Next]_(Allocator!avars)
  <2> SUFFICES ASSUME IInv, IInv', [Next]_vars
               PROVE  Allocator!Next \/ UNCHANGED (Allocator!avars)
    OBVIOUS
  <2>1. ASSUME ScanEntry \/ PlaceBitmap \/ FillBitmap \/ ClearPage
        PROVE  UNCHANGED (Allocator!avars)
    <3>1. pc # "ready" /\ pc' # "ready" /\ held' = held /\ ret' = ret
      <4>1. ASSUME ScanEntry PROVE pc # "ready" /\ pc' # "ready" /\ held' = held /\ ret' = ret
        BY <4>1 DEF ScanEntry
      <4>2. ASSUME PlaceBitmap PROVE pc # "ready" /\ pc' # "ready" /\ held' = held /\ ret' = ret
        BY <4>2 DEF PlaceBitmap
      <4> QED BY <2>1, <4>1, <4>2 DEF FillBitmap, ClearPage
    <3> QED BY <3>1 DEF Allocator!avars
  <2>2. ASSUME NextEntry PROVE Allocator!Next \/ UNCHANGED (Allocator!avars)
    <3>1. pc # "ready" /\ held' = held /\ ret' = ret
      BY <2>2 DEF NextEntry
    <3>2. CASE pc' = "ready"
      <4>1. Pool' \subseteq Nat
        <5>1. pmm_highest_page' \in Nat
          BY HighestAligned, LayoutFixed, <2>2 DEF IInv, NextEntry
        <5> QED BY <5>1 DEF Pool, EntryPages, Pages
      <4>2. Allocator!Boot
        BY <3>1, <3>2, <4>1 DEF Allocator!Boot
      <4> QED BY <4>2 DEF Allocator!Next
    <3>3. CASE pc' # "ready"
      BY <3>1, <3>3 DEF Allocator!avars
    <3> QED BY <3>2, <3>3
  <2>3. ASSUME pmm_alloc_page PROVE Allocator!Next
    <3>1. Allocating
      BY <2>3 DEF pmm_alloc_page, initvars, Allocating
    <3>2. 1 \in 0..MaxCount /\ 1 \in 1..MaxCount
      BY SizesAssumption
    <3>3. ASSUME NEW s \in Pages, Scan(s, 1), Take(s, 1, s) PROVE Allocator!Next
      BY <3>1, <3>2, <3>3, TakeGrants DEF Take
    <3>4. ASSUME ScanFails(1), ReturnNull(1) PROVE Allocator!Next
      BY <3>1, <3>2, <3>4, NullRefuses
    <3> QED BY <2>3, <3>3, <3>4 DEF pmm_alloc_page
  <2>4. ASSUME NEW count \in 0..MaxCount, pmm_alloc_pages(count) PROVE Allocator!Next
    <3>1. Allocating /\ count # 1
      BY <2>4 DEF pmm_alloc_pages, initvars, Allocating
    <3>2. ASSUME NEW s \in Pages, count > 1, Scan(s, count), Take(s, count, s + count)
          PROVE  Allocator!Next
      <4>1. count \in 1..MaxCount
        BY <3>2, SizesAssumption
      <4> QED BY <3>1, <3>2, <4>1, TakeGrants DEF Take
    <3>3. ASSUME ReturnNull(count) PROVE Allocator!Next
      BY <3>1, <3>3, NullRefuses
    <3> QED BY <2>4, <3>2, <3>3 DEF pmm_alloc_pages
  <2>5. ASSUME NEW p \in Pages, pmm_free_page(p) PROVE Allocator!Next \/ UNCHANGED (Allocator!avars)
    <3>1. Allocating /\ held' = held \ {p} /\ ret' = ret
      BY <2>5 DEF pmm_free_page, initvars, Allocating
    <3>2. Pool' = Pool
      BY <3>1, LayoutFixed DEF Allocating
    <3>3. CASE p \in held
      <4>1. Allocator!Release(p)
        BY <3>1, <3>2, <3>3 DEF Allocator!Release, Allocating
      <4> QED BY <3>3, <4>1 DEF Allocator!Next
    <3>4. CASE p \notin held
      <4>1. held' = held
        BY <3>1, <3>4
      <4> QED BY <3>1, <3>2, <4>1 DEF Allocator!avars, Allocating
    <3> QED BY <3>3, <3>4
  <2>6. ASSUME NEW p \in Pages, HolderWrites(p) PROVE UNCHANGED (Allocator!avars)
    <3>1. Allocating /\ held' = held /\ ret' = ret
      BY <2>6 DEF HolderWrites, initvars, Allocating
    <3>2. Pool' = Pool
      BY <3>1, LayoutFixed DEF Allocating
    <3> QED BY <3>1, <3>2 DEF Allocator!avars, Allocating
  <2>7. ASSUME UNCHANGED vars PROVE UNCHANGED (Allocator!avars)
    <3>1. Pool' = Pool
      BY <2>7, LayoutFixed DEF vars
    <3> QED BY <2>7, <3>1 DEF vars, Allocator!avars
  <2> QED BY <2>1, <2>2, <2>3, <2>4, <2>5, <2>6, <2>7 DEF Next
<1> QED BY <1>1, <1>2, Invariance, PTL DEF Spec, Allocator!Spec

-----------------------------------------------------------------------------
(* The scan loops of pmm_alloc_pages, as PMMScan.tla takes them step by    *)
(* step, stop at the run of pages that PageRuns defines.                   *)

\* A loop over the pages lo .. hi-1 has come to page i without a run: the last
\* contiguous pages before it are clear, the one before those is set or
\* outside, and every run of count pages that ends before i holds a set bit.
Scanned(lo, hi) ==
  /\ scan_i \in Nat /\ lo <= scan_i /\ scan_i <= hi
  /\ contiguous \in Nat /\ contiguous < scan_count /\ contiguous <= scan_i - lo
  /\ contiguous > 0 => start_index = scan_i - contiguous
  /\ \A k \in Nat : scan_i - contiguous <= k /\ k < scan_i => k \notin scan_bitmap
  /\ contiguous < scan_i - lo => (scan_i - contiguous) - 1 \in scan_bitmap
  /\ \A s \in Nat : lo <= s /\ s + scan_count <= scan_i
       => \E k \in s..(s + scan_count - 1) : k \in scan_bitmap

ScanInv ==
  /\ Highest \in Nat /\ scan_hint \in Nat /\ scan_hint <= Highest /\ scan_count \in Nat \ {0}
  /\ scan_pc \in {"from_hint", "from_start", "done"}
  /\ scan_pc = "from_hint" => Scanned(scan_hint, Highest) /\ result = Null
  /\ scan_pc = "from_start" => Scanned(0, scan_hint) /\ result = Null
                             /\ NoRun(scan_bitmap, scan_count, scan_hint, Highest)
  /\ LoopsMatchPageRuns

\* One iteration goes on, or stops at the first run of the window.
LEMMA VisitScans ==
  ASSUME NEW lo \in Nat, NEW hi \in Nat, scan_count \in Nat \ {0}, Scanned(lo, hi), scan_i < hi,
         Visit, scan_i' = scan_i + 1,
         UNCHANGED <<scan_bitmap, scan_hint, scan_count>>, result = Null
  PROVE  \/ scan_pc' = scan_pc /\ result' = Null /\ Scanned(lo, hi)'
         \/ scan_pc' = "done" /\ result' \in Nat /\ FirstRun(scan_bitmap, result', scan_count, lo, hi)
<1>1. /\ scan_i \in Nat /\ lo <= scan_i /\ scan_i <= hi
      /\ contiguous \in Nat /\ contiguous < scan_count /\ contiguous <= scan_i - lo
  BY DEF Scanned
<1>2. /\ contiguous > 0 => start_index = scan_i - contiguous
      /\ \A k \in Nat : scan_i - contiguous <= k /\ k < scan_i => k \notin scan_bitmap
      /\ contiguous < scan_i - lo => (scan_i - contiguous) - 1 \in scan_bitmap
      /\ \A s \in Nat : lo <= s /\ s + scan_count <= scan_i
           => \E k \in s..(s + scan_count - 1) : k \in scan_bitmap
  BY DEF Scanned
<1>3. CASE scan_i \in scan_bitmap
  <2>1. contiguous' = 0 /\ scan_pc' = scan_pc /\ result' = result
    BY <1>3 DEF Visit
  <2>2. ASSUME NEW s \in Nat, lo <= s, s + scan_count <= scan_i + 1
        PROVE \E k \in s..(s + scan_count - 1) : k \in scan_bitmap
    <3>1. CASE s + scan_count <= scan_i
      BY <1>2, <2>2, <3>1
    <3>2. CASE s + scan_count = scan_i + 1
      <4>1. scan_i \in s..(s + scan_count - 1)
        BY <1>1, <2>2, <3>2
      <4> QED BY <1>3, <4>1
    <3> QED BY <1>1, <2>2, <3>1, <3>2
  <2>3. (scan_i + 1) - 0 - 1 = scan_i
    BY <1>1
  <2>4. Scanned(lo, hi)'
    BY <1>1, <1>3, <2>1, <2>2, <2>3 DEF Scanned
  <2> QED BY <2>1, <2>4
<1>4. CASE scan_i \notin scan_bitmap
  <2>1. /\ start_index' = IF contiguous = 0 THEN scan_i ELSE start_index
        /\ contiguous' = contiguous + 1
        /\ IF contiguous + 1 = scan_count THEN scan_pc' = "done" /\ result' = start_index'
             ELSE UNCHANGED <<scan_pc, result>>
    BY <1>4 DEF Visit
  <2>2. start_index' = scan_i - contiguous /\ scan_i - contiguous \in Nat
    <3>1. CASE contiguous = 0
      <4>1. start_index' = scan_i /\ scan_i - 0 = scan_i
        BY <1>1, <2>1, <3>1
      <4> QED BY <1>1, <3>1, <4>1
    <3>2. CASE contiguous # 0
      <4>1. contiguous > 0 /\ start_index' = start_index
        BY <1>1, <2>1, <3>2
      <4> QED BY <1>1, <1>2, <4>1
    <3> QED BY <3>1, <3>2
  <2>3. \A k \in Nat : scan_i - contiguous <= k /\ k < scan_i + 1 => k \notin scan_bitmap
    BY <1>1, <1>2, <1>4
  <2>4. CASE contiguous + 1 = scan_count
    <3>1. PICK s : s = scan_i - contiguous
      OBVIOUS
    <3>2. scan_pc' = "done" /\ result' = s /\ s \in Nat /\ lo <= s /\ s + scan_count = scan_i + 1
      BY <1>1, <2>1, <2>2, <2>4, <3>1
    <3>3. RunAt(scan_bitmap, s, scan_count, lo, hi)
      BY <1>1, <2>3, <3>1, <3>2 DEF RunAt
    <3>4. ASSUME NEW t \in lo..(s - 1) PROVE ~RunAt(scan_bitmap, t, scan_count, lo, hi)
      <4>1. t \in Nat /\ lo <= t /\ t + scan_count <= scan_i
        BY <1>1, <3>2
      <4> QED BY <1>2, <4>1 DEF RunAt
    <3> QED BY <3>2, <3>3, <3>4 DEF FirstRun
  <2>5. CASE contiguous + 1 # scan_count
    <3>1. contiguous + 1 < scan_count /\ scan_pc' = scan_pc /\ result' = result
      BY <1>1, <2>1, <2>5
    <3>2. ASSUME NEW s \in Nat, lo <= s, s + scan_count <= scan_i + 1
          PROVE \E k \in s..(s + scan_count - 1) : k \in scan_bitmap
      <4>1. CASE s + scan_count <= scan_i
        BY <1>2, <3>2, <4>1
      <4>2. CASE s + scan_count = scan_i + 1
        <5>1. /\ contiguous < scan_i - lo /\ (scan_i - contiguous) - 1 \in s..(s + scan_count - 1)
          BY <1>1, <3>1, <3>2, <4>2
        <5> QED BY <1>2, <5>1
      <4> QED BY <1>1, <3>2, <4>1, <4>2
    <3>3. (scan_i + 1) - (contiguous + 1) = scan_i - contiguous
      BY <1>1
    <3>4. /\ scan_i' \in Nat /\ lo <= scan_i' /\ scan_i' <= hi
          /\ contiguous' \in Nat /\ contiguous' < scan_count' /\ contiguous' <= scan_i' - lo
      BY <1>1, <2>1, <3>1
    <3>5. /\ contiguous' > 0 => start_index' = scan_i' - contiguous'
          /\ contiguous' < scan_i' - lo => (scan_i' - contiguous') - 1 \in scan_bitmap'
      <4>1. scan_i' - contiguous' = scan_i - contiguous /\ start_index' = scan_i - contiguous
        BY <2>1, <2>2, <3>3
      <4>2. contiguous' < scan_i' - lo => contiguous < scan_i - lo
        BY <1>1, <2>1
      <4> QED BY <1>2, <4>1, <4>2
    <3>6. \A k \in Nat : scan_i' - contiguous' <= k /\ k < scan_i' => k \notin scan_bitmap'
      BY <2>1, <2>3, <3>3
    <3>7. Scanned(lo, hi)'
      BY <3>2, <3>4, <3>5, <3>6 DEF Scanned
    <3> QED BY <3>1, <3>7
  <2> QED BY <2>4, <2>5
<1> QED BY <1>3, <1>4

\* A loop that reaches the end of its window has found that it holds no run.
LEMMA ScannedAll ==
  ASSUME NEW lo \in Nat, NEW hi \in Nat, scan_count \in Nat \ {0}, Scanned(lo, hi), scan_i >= hi
  PROVE  NoRun(scan_bitmap, scan_count, lo, hi)
<1>1. scan_i = hi
  BY DEF Scanned
<1>2. ASSUME NEW s \in lo..hi PROVE ~RunAt(scan_bitmap, s, scan_count, lo, hi)
  <2>1. s \in Nat /\ lo <= s
    OBVIOUS
  <2> QED BY <1>1, <2>1 DEF Scanned, RunAt
<1> QED BY <1>2 DEF NoRun

\* A loop that begins has seen nothing.
LEMMA ScanBegins ==
  ASSUME NEW lo \in Nat, NEW hi \in Nat, lo <= hi, scan_count \in Nat \ {0}, scan_i = lo, contiguous = 0
  PROVE  Scanned(lo, hi)
BY DEF Scanned

\* The invariant is kept by every step.
LEMMA ScanStep == ASSUME ScanInv, [ScanNext]_scanvars PROVE ScanInv'
<1>1. scan_hint \in Nat /\ scan_hint <= Highest /\ scan_count \in Nat \ {0}
      /\ Highest \in Nat /\ Null \notin Nat /\ 0 \in Nat
  BY ScanAssumption DEF ScanInv
<1>2. CASE FromHint
  <2>1. /\ scan_pc = "from_hint" /\ scan_i < Highest /\ Visit /\ scan_i' = scan_i + 1
        /\ UNCHANGED <<scan_bitmap, scan_hint, scan_count>>
        /\ Scanned(scan_hint, Highest) /\ result = Null
    BY <1>2 DEF FromHint, ScanInv
  <2>2. \/ scan_pc' = scan_pc /\ result' = Null /\ Scanned(scan_hint, Highest)'
        \/ scan_pc' = "done" /\ result' \in Nat
           /\ FirstRun(scan_bitmap, result', scan_count, scan_hint, Highest)
    <3>1. PICK lo, hi : lo = scan_hint /\ hi = Highest
      OBVIOUS
    <3>2. \/ scan_pc' = scan_pc /\ result' = Null /\ Scanned(lo, hi)'
          \/ scan_pc' = "done" /\ result' \in Nat
             /\ FirstRun(scan_bitmap, result', scan_count, lo, hi)
      BY <1>1, <2>1, <3>1, VisitScans
    <3> QED BY <2>1, <3>1, <3>2 DEF Scanned
  <2>3. CASE scan_pc' = scan_pc /\ result' = Null /\ Scanned(scan_hint, Highest)'
    BY <1>1, <2>1, <2>3 DEF ScanInv, LoopsMatchPageRuns
  <2>4. CASE scan_pc' = "done" /\ result' \in Nat
             /\ FirstRun(scan_bitmap, result', scan_count, scan_hint, Highest)
    <3>1. LoopsMatchPageRuns'
      BY <1>1, <2>1, <2>4 DEF LoopsMatchPageRuns, Picks
    <3> QED BY <1>1, <2>1, <2>4, <3>1 DEF ScanInv
  <2> QED BY <2>2, <2>3, <2>4
<1>3. CASE Restart
  <2>1. /\ scan_pc = "from_hint" /\ scan_i >= Highest /\ scan_pc' = "from_start"
        /\ scan_i' = 0 /\ contiguous' = 0
        /\ UNCHANGED <<scan_bitmap, scan_hint, scan_count, result>> /\ Scanned(scan_hint, Highest) /\ result = Null
    BY <1>3 DEF Restart, ScanInv
  <2>2. NoRun(scan_bitmap, scan_count, scan_hint, Highest)
    BY <1>1, <2>1, ScannedAll
  <2>3. Scanned(0, scan_hint)'
    BY <1>1, <2>1 DEF Scanned
  <2> QED BY <1>1, <2>1, <2>2, <2>3 DEF ScanInv, LoopsMatchPageRuns
<1>4. CASE FromStart
  <2>1. /\ scan_pc = "from_start" /\ scan_i < scan_hint /\ Visit /\ scan_i' = scan_i + 1
        /\ UNCHANGED <<scan_bitmap, scan_hint, scan_count>>
        /\ Scanned(0, scan_hint) /\ result = Null
        /\ NoRun(scan_bitmap, scan_count, scan_hint, Highest)
    BY <1>4 DEF FromStart, ScanInv
  <2>2. \/ scan_pc' = scan_pc /\ result' = Null /\ Scanned(0, scan_hint)'
        \/ scan_pc' = "done" /\ result' \in Nat
           /\ FirstRun(scan_bitmap, result', scan_count, 0, scan_hint)
    <3>1. PICK lo, hi : lo = 0 /\ hi = scan_hint
      OBVIOUS
    <3>2. \/ scan_pc' = scan_pc /\ result' = Null /\ Scanned(lo, hi)'
          \/ scan_pc' = "done" /\ result' \in Nat
             /\ FirstRun(scan_bitmap, result', scan_count, lo, hi)
      BY <1>1, <2>1, <3>1, VisitScans
    <3> QED BY <2>1, <3>1, <3>2 DEF Scanned
  <2>3. CASE scan_pc' = scan_pc /\ result' = Null /\ Scanned(0, scan_hint)'
    BY <1>1, <2>1, <2>3 DEF ScanInv, LoopsMatchPageRuns
  <2>4. CASE scan_pc' = "done" /\ result' \in Nat
             /\ FirstRun(scan_bitmap, result', scan_count, 0, scan_hint)
    <3>1. LoopsMatchPageRuns'
      BY <1>1, <2>1, <2>4 DEF LoopsMatchPageRuns, Picks
    <3> QED BY <1>1, <2>1, <2>4, <3>1 DEF ScanInv
  <2> QED BY <2>2, <2>3, <2>4
<1>5. CASE GiveUp
  <2>1. /\ scan_pc = "from_start" /\ scan_i >= scan_hint /\ scan_pc' = "done"
        /\ UNCHANGED <<scan_bitmap, scan_hint, scan_count, result>>
        /\ Scanned(0, scan_hint) /\ result = Null
        /\ NoRun(scan_bitmap, scan_count, scan_hint, Highest)
    BY <1>5 DEF GiveUp, ScanInv
  <2>2. NoRun(scan_bitmap, scan_count, 0, scan_hint)
    BY <1>1, <2>1, ScannedAll
  <2>3. LoopsMatchPageRuns'
    BY <2>1, <2>2 DEF LoopsMatchPageRuns, Exhausted
  <2> QED BY <1>1, <2>1, <2>3 DEF ScanInv
<1>6. CASE UNCHANGED scanvars
  BY <1>6 DEF scanvars, ScanInv, Scanned, LoopsMatchPageRuns
<1> QED BY <1>2, <1>3, <1>4, <1>5, <1>6 DEF ScanNext

\* The loops of pmm_alloc_pages return the first run of free pages at or
\* after the hint, else the first one that lies before it, and NULL only if
\* both windows hold none; so what the proofs about PMM and Process take
\* from PageRuns is what the code computes.
THEOREM ScanFindsTheRun == ScanSpec => []LoopsMatchPageRuns
<1>1. ScanInit => ScanInv
  <2> SUFFICES ASSUME ScanInit PROVE ScanInv
    OBVIOUS
  <2>1. /\ scan_hint \in Nat /\ scan_hint <= Highest /\ scan_count \in Nat \ {0} /\ Highest \in Nat
        /\ scan_pc = "from_hint" /\ scan_i = scan_hint /\ contiguous = 0 /\ result = Null
    BY ScanAssumption DEF ScanInit
  <2>2. Scanned(scan_hint, Highest)
    BY <2>1, ScanBegins
  <2> QED BY <2>1, <2>2 DEF ScanInv, LoopsMatchPageRuns
<1>2. ScanInv /\ [ScanNext]_scanvars => ScanInv'
  BY ScanStep
<1>3. ScanInv => LoopsMatchPageRuns
  BY DEF ScanInv
<1> QED BY <1>1, <1>2, <1>3, PTL DEF ScanSpec
=============================================================================
