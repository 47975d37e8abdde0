------------------------------ MODULE PageRuns ------------------------------
(* Which run of free pages the two scan loops of pmm_alloc_page and         *)
(* pmm_alloc_pages settle on (kernel/pmm.c), stated without the loops.  b   *)
(* is the set of set bits, hint is pmm_last_allocated_index, top is         *)
(* pmm_highest_page.  PMMScan.tla runs the loops themselves against this.   *)
EXTENDS Naturals

\* n clear bits from s on, inside the window lo .. hi-1 of one loop.
RunAt(b, s, n, lo, hi) ==
  lo <= s /\ s + n <= hi /\ \A k \in s..(s + n - 1) : k \notin b

\* The run at which that loop stops: the first one.
FirstRun(b, s, n, lo, hi) ==
  RunAt(b, s, n, lo, hi) /\ \A t \in lo..(s - 1) : ~RunAt(b, t, n, lo, hi)

NoRun(b, n, lo, hi) == \A s \in lo..hi : ~RunAt(b, s, n, lo, hi)

\* Both loops: from the hint to the end, then from 0 to the hint.
Picks(b, hint, top, s, n) ==
  \/ FirstRun(b, s, n, hint, top)
  \/ NoRun(b, n, hint, top) /\ FirstRun(b, s, n, 0, hint)

\* Both loops end without a run.
Exhausted(b, hint, top, n) ==
  NoRun(b, n, hint, top) /\ NoRun(b, n, 0, hint)
=============================================================================
