------------------------------ MODULE MCProcess ------------------------------
(* Executables for Process: pages of three bytes, two indices per table, so  *)
(* that pages of a segment share tables at every level.                      *)
EXTENDS Process

Segment(vaddr, memsz, filesz, offset) ==
  [vaddr |-> vaddr, memsz |-> memsz, filesz |-> filesz, offset |-> offset]

Program(file_pages, header, segs, args) ==
  [file_pages |-> file_pages, header |-> header, segs |-> segs, args |-> args]

\* A segment that begins and ends inside pages, its file part too; a whole page
\* and, far away, a byte that is not in the file; a header that is refused; a
\* second segment in kernel space; a missing file.
Sound == { Program(2, "ok", <<Segment(2, 6, 5, 1)>>, <<7, 8>>),
           Program(1, "ok", <<Segment(0, 3, 3, 0), Segment(17, 1, 0, 0)>>, <<>>),
           Program(2, "bad", <<>>, NULL),
           Program(1, "ok", <<Segment(3, 2, 1, 2), Segment(UserTop, 3, 0, 0)>>, NULL),
           Program(0, "bad", <<>>, NULL) }

\* A segment whose file part is longer than the file, behind an empty one that
\* begins inside a page.
Odd == { Program(1, "ok", <<Segment(10, 0, 0, 0), Segment(3, 3, 3, 1)>>, NULL) }

\* A segment that runs from the last user page into kernel space.
Crossing == { Program(1, "ok", <<Segment(45, 4, 0, 0)>>, NULL) }

\* Two segments on one page, and a segment on the page of the stack.
Overlapping == { Program(1, "ok", <<Segment(0, 4, 2, 0), Segment(4, 5, 2, 1)>>, <<7>>),
                 Program(1, "ok", <<Segment(24, 3, 3, 0)>>, NULL) }

AllPrograms == Sound \cup Odd \cup Crossing \cup Overlapping

Stack == <<1, 0, 0, 0>>

Memories == 3..24
=============================================================================
