------------------------------ MODULE PMMScan ------------------------------
(***************************************************************************)
(* The scan loops of pmm_alloc_pages (kernel/pmm.c), one iteration per     *)
(* step, on an arbitrary bitmap, hint and count.  The run they stop at is  *)
(* compared with PageRuns, the definition that PMM.tla uses.  Names that   *)
(* PMM.tla has too begin with scan here.                                   *)
(***************************************************************************)
EXTENDS Naturals, PageRuns

CONSTANTS
  Highest,       \* pmm_highest_page
  LargestCount,  \* bound: largest count
  Null           \* the null pointer

ASSUME ScanAssumption == Highest \in Nat /\ LargestCount \in Nat /\ Null \notin Nat

VARIABLES
  scan_bitmap,   \* the set bits on entry
  scan_hint,     \* pmm_last_allocated_index on entry
  scan_count,
  scan_pc, scan_i, contiguous, start_index,
  result         \* first page of the run, or NULL

scanvars == <<scan_bitmap, scan_hint, scan_count, scan_pc, scan_i, contiguous, start_index, result>>

ScanInit ==
  /\ scan_bitmap \in SUBSET (0..(Highest - 1))
  /\ scan_hint \in 0..Highest
  /\ scan_count \in 1..LargestCount
  /\ scan_pc = "from_hint" /\ scan_i = scan_hint
  /\ contiguous = 0 /\ start_index = scan_hint
  /\ result = Null

\* One iteration: a clear bit extends the run, a set bit ends it; a run of
\* count pages is returned.
Visit ==
  IF scan_i \notin scan_bitmap
    THEN /\ start_index' = IF contiguous = 0 THEN scan_i ELSE start_index
         /\ contiguous' = contiguous + 1
         /\ IF contiguous + 1 = scan_count
              THEN scan_pc' = "done" /\ result' = start_index'
              ELSE UNCHANGED <<scan_pc, result>>
    ELSE /\ contiguous' = 0
         /\ UNCHANGED <<start_index, scan_pc, result>>

FromHint ==
  /\ scan_pc = "from_hint" /\ scan_i < Highest
  /\ Visit
  /\ scan_i' = scan_i + 1
  /\ UNCHANGED <<scan_bitmap, scan_hint, scan_count>>

\* Mutant: contiguous keeps its value.
Restart_KeepsRun ==
  /\ scan_pc = "from_hint" /\ scan_i >= Highest
  /\ scan_pc' = "from_start" /\ scan_i' = 0
  /\ UNCHANGED <<scan_bitmap, scan_hint, scan_count, contiguous, start_index, result>>

\* contiguous is reset: a run does not wrap from the last page to the first.
Restart ==
  /\ scan_pc = "from_hint" /\ scan_i >= Highest
  /\ scan_pc' = "from_start" /\ scan_i' = 0 /\ contiguous' = 0
  /\ UNCHANGED <<scan_bitmap, scan_hint, scan_count, start_index, result>>

FromStart ==
  /\ scan_pc = "from_start" /\ scan_i < scan_hint
  /\ Visit
  /\ scan_i' = scan_i + 1
  /\ UNCHANGED <<scan_bitmap, scan_hint, scan_count>>

GiveUp ==
  /\ scan_pc = "from_start" /\ scan_i >= scan_hint
  /\ scan_pc' = "done"
  /\ UNCHANGED <<scan_bitmap, scan_hint, scan_count, scan_i, contiguous, start_index, result>>

ScanNext == FromHint \/ Restart \/ FromStart \/ GiveUp

ScanSpec == ScanInit /\ [][ScanNext]_scanvars

\* The loops of pmm_alloc_pages stop exactly at the run that PageRuns defines,
\* and return NULL exactly when it says that both windows hold none.
LoopsMatchPageRuns ==
  scan_pc = "done" =>
    IF result = Null THEN Exhausted(scan_bitmap, scan_hint, Highest, scan_count)
                     ELSE Picks(scan_bitmap, scan_hint, Highest, result, scan_count)
=============================================================================
