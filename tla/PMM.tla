-------------------------------- MODULE PMM --------------------------------
(***************************************************************************)
(* The physical memory manager, kernel/pmm.c: pmm_init builds a bitmap     *)
(* (one bit per physical page, 1 = busy) inside the first usable region of *)
(* the Limine memory map that is large enough, marks everything busy and   *)
(* clears the bits of the usable regions; pmm_alloc_page, pmm_alloc_pages  *)
(* and pmm_free_page then work on the bitmap with a next-fit hint.         *)
(*                                                                         *)
(* Addresses are byte addresses, pages are page numbers.  PageSize (4096)  *)
(* and BitsPerByte (8) are parameters so that TLC can work with small      *)
(* values of both while the proofs hold for all.  The bitmap lives in the  *)
(* memory it manages: a holder that writes to a page which stores part of  *)
(* it changes the bits stored there (HolderWrites).                        *)
(***************************************************************************)
EXTENDS Naturals, FiniteSets, Sequences, PageRuns

CONSTANTS
  PageSize,        \* PAGE_SIZE, bytes
  BitsPerByte,     \* 8
  MemMap,          \* what Limine reports: <<[base, length, usable], ...>>
  MaxCount,        \* bound: largest count given to pmm_alloc_pages
  NULL             \* the null pointer

ASSUME SizesAssumption ==
  /\ PageSize \in Nat \ {0}
  /\ BitsPerByte \in Nat \ {0}
  /\ MaxCount \in Nat \ {0}
  /\ NULL \notin Nat

\* The Limine protocol promises usable entries that are page aligned and
\* overlap no other entry.
ASSUME MemMapAssumption ==
  /\ MemMap \in Seq([base : Nat, length : Nat, usable : BOOLEAN])
  /\ \A k \in DOMAIN MemMap : MemMap[k].usable =>
        /\ MemMap[k].base % PageSize = 0
        /\ MemMap[k].length % PageSize = 0
  /\ \A k, l \in DOMAIN MemMap :
        (k # l /\ MemMap[k].usable /\ MemMap[l].usable) =>
          \/ MemMap[k].base + MemMap[k].length <= MemMap[l].base
          \/ MemMap[l].base + MemMap[l].length <= MemMap[k].base

VARIABLES
  pc,                        \* where pmm_init is, then "ready"; "hung" if it faults
  i, j,                      \* loop counters of pmm_init
  entries,                   \* mmap->entries, from which the bitmap is carved
  highest_address,
  pmm_bitmap,                \* address of the bitmap, NULL until placed
  bitmap,                    \* the set bits of pmm_bitmap
  pmm_free_memory,
  pmm_last_allocated_index,
  held,                      \* ghost: pages handed out and not yet freed
  ret                        \* ghost: the last allocation and its result

initvars  == <<i, j, entries, highest_address, pmm_bitmap>>
vars == <<pc, i, j, entries, highest_address, pmm_bitmap, bitmap,
          pmm_free_memory, pmm_last_allocated_index, held, ret>>

-----------------------------------------------------------------------------
(* Derived quantities of pmm_init. *)

Top(e) == e.base + e.length

pmm_highest_page == highest_address \div PageSize

Pages == 0..(pmm_highest_page - 1)

bitmap_size ==
  IF pmm_highest_page \div BitsPerByte = 0
    THEN 1 ELSE pmm_highest_page \div BitsPerByte

\* The page of an entry that bitmap_clear gets in the iteration at offset o.
PageAt(e, o) == (e.base + o) \div PageSize

\* All the pages that the clearing loop visits: offsets 0, PageSize, ...
EntryPages(e) ==
  {p \in Pages : \E m \in 0..e.length :
      m * PageSize < e.length /\ p = PageAt(e, m * PageSize)}

\* The pages handed to the allocator.
Pool == UNION {EntryPages(entries[k]) : k \in {l \in DOMAIN entries : entries[l].usable}}

\* The bits whose byte, pmm_bitmap + bit / 8, lies in page p.
StoredIn(p) ==
  IF pmm_bitmap = NULL THEN {}
  ELSE {b \in Pages : (pmm_bitmap + b \div BitsPerByte) \div PageSize = p}

-----------------------------------------------------------------------------
(* pmm_init, one loop iteration per step. *)

Init ==
  /\ pc = "scan" /\ i = 1 /\ j = 0
  /\ entries = MemMap
  /\ highest_address = 0
  /\ pmm_bitmap = NULL
  /\ bitmap = {}
  /\ pmm_free_memory = 0
  /\ pmm_last_allocated_index = 0
  /\ held = {}
  /\ ret = [count |-> 0, page |-> NULL]

ScanEntry ==
  /\ pc = "scan"
  /\ IF i \in DOMAIN entries
       THEN /\ highest_address' =
                 IF entries[i].usable /\ Top(entries[i]) > highest_address
                   THEN Top(entries[i]) ELSE highest_address
            /\ i' = i + 1
            /\ pc' = pc
       ELSE /\ pc' = "place"
            /\ i' = 1
            /\ UNCHANGED highest_address
  /\ UNCHANGED <<j, entries, pmm_bitmap, bitmap, pmm_free_memory,
                 pmm_last_allocated_index, held, ret>>

\* Mutant: the region keeps the pages that the bitmap occupies.
PlaceBitmap_NotCarved ==
  /\ pc = "place"
  /\ IF i \in DOMAIN entries /\ entries[i].usable /\ entries[i].length >= bitmap_size
       THEN pmm_bitmap' = entries[i].base /\ i' = 1 /\ pc' = "fill"
       ELSE i' = i + 1 /\ UNCHANGED <<pc, pmm_bitmap>>
  /\ UNCHANGED <<j, entries, highest_address, bitmap, pmm_free_memory,
                 pmm_last_allocated_index, held, ret>>

\* Without a large enough region pmm_bitmap stays NULL and the fill loop
\* faults on its first store.
PlaceBitmap ==
  /\ pc = "place"
  /\ CASE i \notin DOMAIN entries ->
            /\ pc' = "hung"
            /\ UNCHANGED <<i, entries, pmm_bitmap>>
       [] i \in DOMAIN entries /\ entries[i].usable /\ entries[i].length >= bitmap_size ->
            /\ pmm_bitmap' = entries[i].base
            /\ entries' = [entries EXCEPT
                 ![i] = [base   |-> entries[i].base + bitmap_size,
                         length |-> entries[i].length - bitmap_size,
                         usable |-> TRUE]]
            /\ i' = 1
            /\ pc' = "fill"
       [] OTHER ->
            /\ i' = i + 1
            /\ UNCHANGED <<pc, entries, pmm_bitmap>>
  /\ UNCHANGED <<j, highest_address, bitmap, pmm_free_memory,
                 pmm_last_allocated_index, held, ret>>

\* The bytes 0 .. bitmap_size - 1 become 0xFF.  Bits beyond them (the last
\* pages when their number is no multiple of 8) keep what memory held.
FillBitmap ==
  /\ pc = "fill"
  /\ \E garbage \in SUBSET {b \in Pages : b >= BitsPerByte * bitmap_size} :
        bitmap' = {b \in Pages : b < BitsPerByte * bitmap_size} \cup garbage
  /\ pc' = "clear"
  /\ UNCHANGED <<initvars, pmm_free_memory, pmm_last_allocated_index, held, ret>>

ClearPage ==
  /\ pc = "clear"
  /\ i \in DOMAIN entries /\ entries[i].usable /\ j < entries[i].length
  /\ bitmap' = bitmap \ {PageAt(entries[i], j)}
  /\ pmm_free_memory' = pmm_free_memory + PageSize
  /\ j' = j + PageSize
  /\ UNCHANGED <<pc, i, entries, highest_address, pmm_bitmap,
                 pmm_last_allocated_index, held, ret>>

NextEntry ==
  /\ pc = "clear"
  /\ IF i \in DOMAIN entries
       THEN /\ ~entries[i].usable \/ j >= entries[i].length
            /\ i' = i + 1 /\ j' = 0 /\ pc' = pc
       ELSE pc' = "ready" /\ UNCHANGED <<i, j>>
  /\ UNCHANGED <<entries, highest_address, pmm_bitmap, bitmap, pmm_free_memory,
                 pmm_last_allocated_index, held, ret>>

-----------------------------------------------------------------------------
(* The allocator. *)

\* The two scan loops find s, or nothing (PageRuns).
Scan(s, n) == Picks(bitmap, pmm_last_allocated_index, pmm_highest_page, s, n)

\* Mutant: the second loop is missing.
ScanFails_OneLoop(n) == NoRun(bitmap, n, pmm_last_allocated_index, pmm_highest_page)

ScanFails(n) == Exhausted(bitmap, pmm_last_allocated_index, pmm_highest_page, n)

\* Mutant: the hint is one page too far.
Take_HintTooFar(s, n, hint) ==
  /\ bitmap' = bitmap \cup s..(s + n - 1)
  /\ pmm_last_allocated_index' = hint + 1
  /\ pmm_free_memory' = pmm_free_memory - PageSize * n
  /\ held' = held \cup s..(s + n - 1)
  /\ ret' = [count |-> n, page |-> s]

\* Mutant: the last bit of the run is not set.
Take_OffByOne(s, n, hint) ==
  /\ bitmap' = bitmap \cup (s..(s + n - 1) \ {s + n - 1})
  /\ pmm_last_allocated_index' = hint
  /\ pmm_free_memory' = pmm_free_memory - PageSize * n
  /\ held' = held \cup s..(s + n - 1)
  /\ ret' = [count |-> n, page |-> s]

\* bitmap_set on the run, the new hint, the counter, the returned address.
Take(s, n, hint) ==
  /\ bitmap' = bitmap \cup s..(s + n - 1)
  /\ pmm_last_allocated_index' = hint
  /\ pmm_free_memory' = pmm_free_memory - PageSize * n
  /\ held' = held \cup s..(s + n - 1)
  /\ ret' = [count |-> n, page |-> s]

ReturnNull(n) ==
  /\ ret' = [count |-> n, page |-> NULL]
  /\ UNCHANGED <<bitmap, pmm_free_memory, pmm_last_allocated_index, held>>

pmm_alloc_page ==
  /\ pc = "ready"
  /\ \/ \E s \in Pages : Scan(s, 1) /\ Take(s, 1, s)
     \/ ScanFails(1) /\ ReturnNull(1)
  /\ UNCHANGED <<pc, initvars>>

\* count = 1 is pmm_alloc_page itself.
pmm_alloc_pages(count) ==
  /\ pc = "ready"
  /\ count # 1
  /\ \/ count = 0 /\ ReturnNull(0)
     \/ count > 1 /\ \E s \in Pages : Scan(s, count) /\ Take(s, count, s + count)
     \/ count > 1 /\ ScanFails(count) /\ ReturnNull(count)
  /\ UNCHANGED <<pc, initvars>>

\* Mutant: the bit is not tested first.
pmm_free_page_Untested(p) ==
  /\ pc = "ready"
  /\ p \in held \/ p \in Pool \ bitmap
  /\ bitmap' = bitmap \ {p}
  /\ pmm_free_memory' = pmm_free_memory + PageSize
  /\ held' = held \ {p}
  /\ UNCHANGED <<pc, initvars, pmm_last_allocated_index, ret>>

\* The caller frees a page it holds, or frees again one that is free already:
\* the bit is tested first, so that the second call changes nothing.
pmm_free_page(p) ==
  /\ pc = "ready"
  /\ p \in held \/ p \in Pool \ bitmap
  /\ bitmap' = bitmap \ {p}
  /\ pmm_free_memory' = IF p \in bitmap THEN pmm_free_memory + PageSize
                                        ELSE pmm_free_memory
  /\ held' = held \ {p}
  /\ UNCHANGED <<pc, initvars, pmm_last_allocated_index, ret>>

\* External: a holder stores to its page.  Bits of the bitmap that live in
\* that page take whatever value it stores.
HolderWrites(p) ==
  /\ pc = "ready"
  /\ p \in held
  /\ \E stored \in SUBSET StoredIn(p) : bitmap' = (bitmap \ StoredIn(p)) \cup stored
  /\ UNCHANGED <<pc, initvars, pmm_free_memory, pmm_last_allocated_index, held, ret>>

Next ==
  \/ ScanEntry \/ PlaceBitmap \/ FillBitmap \/ ClearPage \/ NextEntry
  \/ pmm_alloc_page
  \/ \E count \in 0..MaxCount : pmm_alloc_pages(count)
  \/ \E p \in Pages : pmm_free_page(p) \/ HolderWrites(p)

Spec == Init /\ [][Next]_vars

-----------------------------------------------------------------------------
(* Properties. *)

\* Types: what each variable of pmm.c may hold, in every phase of pmm_init
\* and afterwards; the hint may equal pmm_highest_page but not exceed it.
TypeOK ==
  /\ pc \in {"scan", "place", "fill", "clear", "ready", "hung"}
  /\ i \in Nat /\ j \in Nat
  /\ entries \in Seq([base : Nat, length : Nat, usable : BOOLEAN])
  /\ highest_address \in Nat
  /\ pmm_bitmap \in Nat \cup {NULL}
  /\ bitmap \subseteq Pages
  /\ pmm_free_memory \in Nat
  /\ pmm_last_allocated_index \in 0..pmm_highest_page
  /\ held \subseteq Pages
  /\ ret \in [count : Nat, page : Nat \cup {NULL}]

\* The bitmap occupies whole pages: the number of pages is a multiple of
\* 8 * PAGE_SIZE.  A condition on the machine, on which the properties below
\* depend: see BitmapIsReserved.
BitmapFillsPages ==
  \A h \in Nat :
     ( /\ \E k \in DOMAIN MemMap : MemMap[k].usable /\ Top(MemMap[k]) = h
       /\ \A k \in DOMAIN MemMap : MemMap[k].usable => Top(MemMap[k]) <= h )
     => (h \div PageSize) % (BitsPerByte * PageSize) = 0

\* pmm_alloc_page and pmm_alloc_pages never hand out a page that stores part
\* of the bitmap: whoever receives it would overwrite the allocator's state.
BitmapIsReserved ==
  pc = "ready" => \A p \in held : StoredIn(p) = {}

\* A page that someone holds is busy in the bitmap, and a page that nobody
\* holds and that belongs to the pool is free: pmm_alloc_page can neither give
\* a page to two holders nor lose one.
BitmapTracksHolders ==
  pc = "ready" => Pages \ bitmap = Pool \ held

\* pmm_free_memory is the number of free pages in bytes: through pmm_init,
\* allocations, frees and repeated frees the counter never drifts.
FreeMemoryExact ==
  pc \in {"clear", "ready"} => pmm_free_memory = PageSize * Cardinality(Pages \ bitmap)

\* The bitmap allocator implements PageAllocator.
Allocator == INSTANCE PageAllocator WITH
  Counts <- 0..MaxCount,
  booted <- (pc = "ready"),
  pool   <- IF pc = "ready" THEN Pool ELSE {}

AllocatorSpec == Allocator!Spec
=============================================================================
