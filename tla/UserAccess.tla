----------------------------- MODULE UserAccess -----------------------------
(***************************************************************************)
(* Syscalls that take pointers: syscall_handler_c (kernel/syscall.c), the  *)
(* checks vmm_check_user_string and vmm_check_user_ptr (kernel/vmm.c), and *)
(* the accesses to the program's memory that follow them.  The kernel runs *)
(* on the program's page map; a page it touches that is not there is a     *)
(* fault in ring 0, which stops the machine.                               *)
(*                                                                         *)
(* A page of the lower half is mapped on all four levels, with PAGE_USER   *)
(* and PAGE_WRITE (the only flags process_exec uses), or missing on one of *)
(* them: `mapped` keeps the outcome of the walk.  Addresses are unsigned   *)
(* numbers of a fixed width.                                               *)
(***************************************************************************)
EXTENDS Naturals

CONSTANTS
  PageSize,          \* 4096
  UserTop,           \* 0x0000800000000000
  Width,             \* 2^64
  SizeWidth,         \* 2^32: sizes are uint32_t
  Addresses,         \* the pointers a program passes
  Sizes,             \* the third argument it passes
  FileSizes          \* what fat16_get_file_size may answer

Pages == 0..(UserTop \div PageSize - 1)
UserAddresses == 0..(UserTop - 1)

ASSUME UserAccessAssumption ==
  /\ PageSize \in Nat \ {0} /\ UserTop \in Nat \ {0} /\ UserTop % PageSize = 0
  /\ SizeWidth \in Nat \ {0} /\ Width \in Nat /\ UserTop + SizeWidth <= Width
  /\ Addresses \subseteq 0..(Width - 1) /\ Sizes \subseteq 0..(Width - 1)
  /\ FileSizes \subseteq 0..(SizeWidth - 1)

VARIABLES
  mapped,            \* pages of the lower half that the program has
  nul,               \* addresses in them that hold a zero byte
  pc,                \* "user", or where syscall_handler_c is
  num, arg1, arg2,   \* the arguments
  size,              \* bytes to move
  current,           \* cursor of vmm_check_user_string
  ret,               \* "ok" or "refused" (-1)
  touched            \* ghost: what the kernel read or wrote during the call

args == <<num, arg1, arg2>>
vars == <<mapped, nul, pc, args, size, current, ret, touched>>

PageOf(a) == a \div PageSize
PageEnd(a) == (PageOf(a) + 1) * PageSize

Init ==
  /\ mapped \in SUBSET Pages
  /\ nul \in SUBSET {a \in UserAddresses : PageOf(a) \in mapped}
  /\ pc = "user" /\ num = 0 /\ arg1 = 0 /\ arg2 = 0
  /\ size = 0 /\ current = 0 /\ ret = "ok" /\ touched = {}

\* The string is the second argument of sys_write, otherwise the first.
String == IF num = 1 THEN arg2 ELSE arg1

\* Syscalls 1, 8, 9 and 10.  sys_fat16_write_file narrows its size.
Enter(n, a1, a2, a3) ==
  /\ pc = "user"
  /\ num' = n /\ arg1' = a1 /\ arg2' = a2
  /\ size' = IF n = 9 THEN a3 % SizeWidth ELSE 0
  /\ current' = String'
  /\ ret' = "ok" /\ touched' = {}
  /\ pc' = "string"
  /\ UNCHANGED <<mapped, nul>>

Return(result) ==
  /\ ret' = result
  /\ pc' = "return"
  /\ current' = 0

\* The bytes from a to the end of its page, or to the first zero before that.
Scanned(a) ==
  {k \in a..(PageEnd(a) - 1) : \A z \in nul : a <= z => k <= z}

\* Mutant: the scan starts over on the same page.
NextPage_Same(a) == a

NextPage(a) == PageEnd(a)

\* The page can be looked at: in the lower half, and the walk succeeds.
Reachable(a) == a < UserTop /\ PageOf(a) \in mapped

\* One iteration of vmm_check_user_string: a page.
CheckString ==
  /\ pc = "string"
  /\ \/ ~Reachable(current) /\ Return("refused") /\ UNCHANGED touched
     \/ /\ Reachable(current)
        /\ touched' = touched \cup Scanned(current)
        /\ IF Scanned(current) \cap nul # {}
             THEN pc' = "checked" /\ UNCHANGED <<current, ret>>
             ELSE current' = NextPage(current) /\ UNCHANGED <<pc, ret>>
  /\ UNCHANGED <<mapped, nul, args, size>>

\* Mutant: the page of the last byte is taken to be the page of the first.
vmm_check_user_ptr_OnePage(vaddr, n) ==
  n = 0 \/ /\ vaddr < UserTop
           /\ (vaddr + n) % Width >= vaddr
           /\ (vaddr + n) % Width < UserTop
           /\ PageOf(vaddr) \in mapped

\* Mutant: a buffer that ends on a page boundary needs the page after it.
vmm_check_user_ptr_PastEnd(vaddr, n) ==
  n = 0 \/ /\ vaddr < UserTop
           /\ (vaddr + n) % Width >= vaddr
           /\ (vaddr + n) % Width < UserTop
           /\ PageOf(vaddr)..PageOf(vaddr + n) \subseteq mapped

vmm_check_user_ptr(vaddr, n) ==
  n = 0 \/ /\ vaddr < UserTop
           /\ (vaddr + n) % Width >= vaddr
           /\ (vaddr + n) % Width < UserTop
           /\ PageOf(vaddr)..PageOf(vaddr + n - 1) \subseteq mapped

\* The characters of the string, as vga_print and format_fat_name read them.
StringBytes(a) ==
  {k \in a..(UserTop - 1) : \A z \in nul : a <= z => k <= z}

\* sys_write prints, sys_fat16_get_file_size answers.
UseString ==
  /\ pc = "checked" /\ num \in {1, 10}
  /\ touched' = touched \cup StringBytes(String)
  /\ Return("ok")
  /\ UNCHANGED <<mapped, nul, args, size>>

\* sys_fat16_read_file: the size of the file decides how much is written to
\* the program's buffer; nothing when there is no file or it is empty.
ReadFile(file_size) ==
  /\ pc = "checked" /\ num = 8
  /\ size' = file_size
  /\ LET ok == vmm_check_user_ptr(arg2, file_size) IN
     /\ touched' = touched \cup StringBytes(arg1)
                     \cup (IF ok THEN {arg2 + k : k \in 0..(file_size - 1)} ELSE {})
     /\ Return(IF ok THEN "ok" ELSE "refused")
  /\ UNCHANGED <<mapped, nul, args>>

\* sys_fat16_write_file.
WriteFile ==
  /\ pc = "checked" /\ num = 9
  /\ LET ok == vmm_check_user_ptr(arg2, size) IN
     /\ touched' = touched \cup
          (IF ok THEN StringBytes(arg1) \cup {arg2 + k : k \in 0..(size - 1)} ELSE {})
     /\ Return(IF ok THEN "ok" ELSE "refused")
  /\ UNCHANGED <<mapped, nul, args, size>>

\* Back to the program, which may look at the result.
SysRet ==
  /\ pc = "return"
  /\ pc' = "user"
  /\ num' = 0 /\ arg1' = 0 /\ arg2' = 0 /\ size' = 0
  /\ ret' = "ok" /\ touched' = {}
  /\ UNCHANGED <<mapped, nul, current>>

Next ==
  \/ \E a2 \in Addresses : Enter(1, 1, a2, 0)
  \/ \E a1, a2 \in Addresses : Enter(8, a1, a2, 0)
  \/ \E a1, a2 \in Addresses, a3 \in Sizes : Enter(9, a1, a2, a3)
  \/ \E a1 \in Addresses : Enter(10, a1, 0, 0)
  \/ CheckString \/ UseString \/ WriteFile \/ SysRet
  \/ \E s \in FileSizes : ReadFile(s)

\* syscall_handler_c is sequential code: it takes its next step.
Handler ==
  CheckString \/ UseString \/ WriteFile \/ SysRet \/ \E s \in FileSizes : ReadFile(s)

Spec == Init /\ [][Next]_vars /\ WF_vars(Handler)

-----------------------------------------------------------------------------
(* Properties. *)

\* Whatever pointers and sizes a program passes, syscall_handler_c touches
\* only pages that the program has, during the checks and after them: the
\* kernel neither faults nor reaches its own half on behalf of a program.
KernelStaysInUserMemory ==
  \A a \in touched : a < UserTop /\ PageOf(a) \in mapped

\* What a caller may pass, without the walk: a string that ends in memory the
\* program has, a buffer that lies in it.
Mapped(a) == a < UserTop /\ PageOf(a) \in mapped
GoodString(a) == \E z \in nul : a <= z /\ \A k \in a..z : Mapped(k)
GoodBuffer(a, n) == \A k \in 0..(n - 1) : Mapped(a + k)

\* The checks of vmm.c refuse exactly what they should: a call with a good
\* string and a good buffer is carried out, any other is refused; except that
\* a buffer which ends at the very top of the lower half is refused too.
RefusesExactlyTheBad ==
  pc = "return" =>
    LET moves == num \in {8, 9} /\ size > 0
        bad == ~GoodString(String) \/ (moves /\ ~GoodBuffer(arg2, size))
        topmost == moves /\ arg2 + size = UserTop
    IN (ret = "refused") = (bad \/ topmost)

\* Every syscall returns: the search for the end of a string stops at the
\* first page that is missing.
SyscallsReturn == (pc # "user") ~> (pc = "user")
=============================================================================
