--------------------------- MODULE PageAllocator ---------------------------
(***************************************************************************)
(* What the rest of the kernel relies on from the physical memory manager *)
(* (pmm.h): a pool of physical pages, fixed once pmm_init has run, out of  *)
(* which a page is handed to at most one holder at a time; a single page   *)
(* is refused only when nothing is left.  A request for several contiguous *)
(* pages may be refused at any time (fragmentation).                       *)
(*                                                                         *)
(* PMM.tla is the bitmap implementation and is shown to refine this        *)
(* module.                                                                 *)
(***************************************************************************)
EXTENDS Naturals

CONSTANTS
  NULL,                    \* the null pointer: no page
  Counts                   \* the numbers of pages that are asked for

VARIABLES
  booted,                  \* pmm_init has returned
  pool,                    \* the pages the allocator manages
  held,                    \* the pages handed out and not yet freed
  ret                      \* the last allocation: how many pages, which first page

avars == <<booted, pool, held, ret>>

Init ==
  /\ booted = FALSE
  /\ pool = {}
  /\ held = {}
  /\ ret = [count |-> 0, page |-> NULL]

\* pmm_init: the pool is some set of pages.
Boot ==
  /\ ~booted
  /\ booted' = TRUE
  /\ pool' \in SUBSET Nat
  /\ UNCHANGED <<held, ret>>

\* pmm_alloc_page / pmm_alloc_pages: n contiguous pages that nobody holds.
Grant(p, n) ==
  /\ booted
  /\ n > 0
  /\ p..(p + n - 1) \subseteq pool \ held
  /\ held' = held \cup (p..(p + n - 1))
  /\ ret' = [count |-> n, page |-> p]
  /\ UNCHANGED <<booted, pool>>

\* NULL: for a single page only when every page is held.
Refuse(n) ==
  /\ booted
  /\ n = 1 => pool \subseteq held
  /\ ret' = [count |-> n, page |-> NULL]
  /\ UNCHANGED <<booted, pool, held>>

\* pmm_free_page by the holder.
Release(p) ==
  /\ booted
  /\ held' = held \ {p}
  /\ UNCHANGED <<booted, pool, ret>>

Next ==
  \/ Boot
  \/ \E p \in pool, n \in Counts : Grant(p, n)
  \/ \E n \in Counts : Refuse(n)
  \/ \E p \in held : Release(p)

Spec == Init /\ [][Next]_avars
=============================================================================
