------------------------------- MODULE MCPMM -------------------------------
(* Memory maps for PMM: two bytes per page and two bits per byte, so that  *)
(* one page of bitmap describes four pages.                                *)
EXTENDS PMM

Region(first, pages, usable) ==
  [base |-> first * PageSize, length |-> pages * PageSize, usable |-> usable]

\* 12 pages, the bitmap needs three: the first usable region is too small, the
\* second holds the bitmap and pages 6 .. 8, the third follows a hole.
AlignedMap == << Region(0, 1, FALSE), Region(1, 1, TRUE), Region(2, 1, FALSE),
                 Region(3, 6, TRUE), Region(9, 1, FALSE), Region(10, 2, TRUE) >>

\* 7 pages: bitmap_size = 3 bytes, one and a half pages.
UnalignedMap == << Region(0, 1, FALSE), Region(1, 6, TRUE) >>
=============================================================================
