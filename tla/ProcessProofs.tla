---------------------------- MODULE ProcessProofs ----------------------------
(***************************************************************************)
(* Proofs about Process.tla, for every size of the memory and of the page  *)
(* tables, every program and any number of runs: the page map of a program *)
(* is a tree of pages of its own, every busy page is accounted for, CR3    *)
(* never refers to a free page, and a program finds in its memory what its *)
(* file and its command line say.                                          *)
(***************************************************************************)
EXTENDS Process, TLAPS

\* What the constants are.
LEMMA Constants ==
  /\ KernelIndex \notin UserIndices /\ Indices = UserIndices \cup {KernelIndex} /\ StackPage \in UserPages
  /\ TopPages \subseteq Nat /\ \A t \in TopPages : t > 2
  /\ Programs # {} /\ \A p \in Programs : p.file_pages \in Nat
  /\ KernelPML4 = 1 /\ KernelTable = 2 /\ Reserved = {0, 1, 2}
BY ProcessAssumption DEF Indices, UserPages, KernelPML4, KernelTable, Reserved

USE Constants

\* The pages that are not the kernel's.
Pool == 3..(top - 1)

-----------------------------------------------------------------------------
(* Trees.  L gives the pages of every level of a page map: the PML4, the   *)
(* page directory pointer tables, the page directories, the page tables    *)
(* and, at level 4, the pages mapped.                                      *)

Levels == 0..4

TreePages(L) == UNION {L[d] : d \in Levels}

\* In the memory m, the levels L are a tree with root r: the entries of a
\* level refer to the next one, every page but the root is referred to, by one
\* entry, and no page is on two levels.
TreeOK(m, r, L) ==
  /\ L \in [Levels -> SUBSET (Nat \ {0})] /\ L[0] = {r}
  /\ \A d \in 0..3, q \in Nat : q \in L[d + 1] => \E p \in L[d], k \in UserIndices : m[p][k] = q
  /\ \A d \in 0..3, k \in UserIndices : \A p \in L[d] : m[p][k] = 0 \/ m[p][k] \in L[d + 1]
  /\ \A d \in 1..3 : \A p \in L[d] : m[p][KernelIndex] = 0
  /\ \A d, e \in Levels : \A q \in L[d] : q \in L[e] => d = e
  /\ \A d \in 0..3, k, l \in UserIndices : \A p, q \in L[d] :
       m[p][k] = m[q][l] /\ m[p][k] # 0 => p = q /\ k = l
  /\ m[r][KernelIndex] = KernelTable

\* A page is in the tree if it is on one of its levels.
LEMMA InTree ==
  ASSUME NEW L, NEW q
  PROVE  q \in TreePages(L) <=> \E d \in Levels : q \in L[d]
BY DEF TreePages

\* An entry k of the table p of level d, which held a leaf or nothing, now
\* refers to s; a new table is empty.
EntrySet(m, L, d, p, k, s, m2) ==
  /\ d \in 0..3 /\ p \in L[d] /\ k \in UserIndices /\ s \in Nat \ {0} /\ s \notin TreePages(L)
  /\ d = 3 \/ m[p][k] = 0
  /\ \A x \in TreePages(L), l \in Indices : m2[x][l] = IF x = p /\ l = k THEN s ELSE m[x][l]
  /\ d < 3 => \A l \in Indices : m2[s][l] = 0

NewLevels(m, L, d, p, k, s) == [L EXCEPT ![d + 1] = (L[d + 1] \ {m[p][k]}) \cup {s}]

\* The tree has then gained s, and lost the leaf.
LEMMA TreeGrows ==
  ASSUME NEW m, NEW r, NEW L, TreeOK(m, r, L), NEW d, NEW p, NEW k, NEW s, NEW m2,
         EntrySet(m, L, d, p, k, s, m2), NEW L2, L2 = NewLevels(m, L, d, p, k, s)
  PROVE  /\ TreeOK(m2, r, L2)
         /\ TreePages(L2) = (TreePages(L) \ {m[p][k]}) \cup {s}
<1> DEFINE old == m[p][k]
<1>1. d \in 0..3 /\ p \in L[d] /\ k \in UserIndices /\ s \in Nat \ {0} /\ d + 1 \in Levels /\ d \in Levels
  BY DEF EntrySet, Levels
<1>2. L \in [Levels -> SUBSET (Nat \ {0})] /\ L[0] = {r}
  BY DEF TreeOK
<1>3. \A e \in Levels : s \notin L[e]
  BY InTree DEF EntrySet
<1>4. \A e \in Levels : \A x : x \in L2[e] <=> (x \in L[e] /\ ~(e = d + 1 /\ x = old)) \/ (e = d + 1 /\ x = s)
  BY <1>1, <1>2 DEF NewLevels
<1>5. \A e \in Levels : \A x \in L[e] : \A l \in Indices : m2[x][l] = IF x = p /\ l = k THEN s ELSE m[x][l]
  BY InTree DEF EntrySet
<1>6. \A e \in Levels : \A x \in L[e] : x \in Nat /\ x # 0
  BY <1>2
<1>7. old = 0 \/ (d = 3 /\ old \in L[4])
  BY <1>1 DEF EntrySet, TreeOK
<1>8. \A e \in 0..3 : \A x \in L[e] : x \in L2[e]
  BY <1>1, <1>4, <1>6, <1>7 DEF Levels
<1>9. \A e \in 0..3 : \A x \in L2[e] : x \in L[e] \/ (x = s /\ e = d + 1 /\ d < 3)
  BY <1>1, <1>4 DEF Levels
<1>10. d < 3 => \A l \in Indices : m2[s][l] = 0
  BY DEF EntrySet
<1> HIDE DEF old
<1>11. L2 \in [Levels -> SUBSET (Nat \ {0})] /\ L2[0] = {r}
  <2>1. L2 \in [Levels -> SUBSET (Nat \ {0})]
    BY <1>1, <1>2 DEF NewLevels
  <2>2. 0 \in Levels /\ 0 # d + 1
    BY <1>1 DEF Levels
  <2>3. \A x : x \in L2[0] <=> x = r
    BY <1>2, <1>4, <2>2
  <2> QED BY <2>1, <2>3
<1>12. ASSUME NEW e \in 0..3, NEW q \in Nat, q \in L2[e + 1]
       PROVE  \E x \in L2[e], l \in UserIndices : m2[x][l] = q
  <2>1. e \in Levels /\ e + 1 \in Levels /\ (e + 1 = d + 1 <=> e = d)
    BY <1>1 DEF Levels
  <2>2. CASE q = s /\ e = d
    <3>1. p \in L2[e] /\ m2[p][k] = q
      BY <1>1, <1>5, <1>8, <2>1, <2>2
    <3> QED BY <1>1, <3>1
  <2>3. CASE ~(q = s /\ e = d)
    <3>1. q \in L[e + 1] /\ ~(e = d /\ q = old)
      BY <1>4, <1>12, <2>1, <2>3
    <3>2. PICK x \in L[e], l \in UserIndices : m[x][l] = q
      BY <3>1 DEF TreeOK
    <3>3. ~(x = p /\ l = k)
      BY <1>1, <2>1, <3>1, <3>2 DEF TreeOK, old
    <3>4. m2[x][l] = q
      BY <1>5, <2>1, <3>2, <3>3
    <3> QED BY <1>8, <3>2, <3>4
  <2> QED BY <2>2, <2>3
<1>13. ASSUME NEW e \in 0..3, NEW l \in UserIndices, NEW x \in L2[e]
       PROVE  m2[x][l] = 0 \/ m2[x][l] \in L2[e + 1]
  <2>1. e \in Levels /\ e + 1 \in Levels /\ (e + 1 = d + 1 <=> e = d)
    BY <1>1 DEF Levels
  <2>2. CASE x \notin L[e]
    BY <1>9, <1>10, <2>2
  <2>3. CASE x \in L[e] /\ x = p /\ l = k
    <3>1. e = d
      BY <1>1, <2>1, <2>3 DEF TreeOK
    <3> QED BY <1>1, <1>4, <1>5, <2>1, <2>3, <3>1
  <2>4. CASE x \in L[e] /\ ~(x = p /\ l = k)
    <3>1. m2[x][l] = m[x][l]
      BY <1>5, <2>1, <2>4
    <3>2. m[x][l] = 0 \/ m[x][l] \in L[e + 1]
      BY <2>4 DEF TreeOK
    <3>3. ~(e = d /\ m[x][l] = old /\ m[x][l] # 0)
      BY <1>1, <2>4 DEF TreeOK, old
    <3> QED BY <1>4, <2>1, <3>1, <3>2, <3>3
  <2> QED BY <2>2, <2>3, <2>4
<1>14. ASSUME NEW e \in 1..3, NEW x \in L2[e] PROVE m2[x][KernelIndex] = 0
  <2>1. e \in Levels /\ e \in 0..3
    BY DEF Levels
  <2>2. CASE x \in L[e]
    <3>1. m2[x][KernelIndex] = m[x][KernelIndex]
      BY <1>1, <1>5, <2>1, <2>2
    <3> QED BY <2>2, <3>1 DEF TreeOK
  <2>3. CASE x \notin L[e]
    BY <1>9, <1>10, <2>1, <2>3
  <2> QED BY <2>2, <2>3
<1>15. ASSUME NEW e \in Levels, NEW f \in Levels, NEW q \in L2[e], q \in L2[f] PROVE e = f
  BY <1>3, <1>4, <1>15 DEF TreeOK
<1>16. ASSUME NEW e \in 0..3, NEW l \in UserIndices, NEW h \in UserIndices, NEW x \in L2[e], NEW y \in L2[e],
              m2[x][l] = m2[y][h], m2[x][l] # 0
       PROVE  x = y /\ l = h
  <2>1. e \in Levels /\ e + 1 \in Levels
    BY DEF Levels
  <2>2. x \in L[e] /\ y \in L[e]
    BY <1>9, <1>10, <1>16
  <2>3. ASSUME NEW z \in L[e], NEW g \in UserIndices, m2[z][g] # 0
        PROVE  \/ z = p /\ g = k /\ m2[z][g] = s
               \/ ~(z = p /\ g = k) /\ m2[z][g] = m[z][g] /\ m2[z][g] # s
    <3>1. CASE z = p /\ g = k
      BY <1>5, <2>1, <3>1
    <3>2. CASE ~(z = p /\ g = k)
      <4>1. m2[z][g] = m[z][g]
        BY <1>5, <2>1, <3>2
      <4>2. m[z][g] \in L[e + 1]
        BY <2>3, <4>1 DEF TreeOK
      <4> QED BY <1>3, <2>1, <3>2, <4>1, <4>2
    <3> QED BY <3>1, <3>2
  <2>4. CASE m2[x][l] = s
    <3>1. m2[y][h] = s /\ m2[y][h] # 0
      BY <1>16, <2>4
    <3>2. x = p /\ l = k
      BY <1>16, <2>2, <2>3, <2>4
    <3>3. y = p /\ h = k
      BY <2>2, <2>3, <3>1
    <3> QED BY <3>2, <3>3
  <2>5. CASE m2[x][l] # s
    <3>1. m2[x][l] = m[x][l] /\ m2[y][h] = m[y][h]
      BY <1>16, <2>2, <2>3, <2>5
    <3>2. m[x][l] = m[y][h] /\ m[x][l] # 0
      BY <1>16, <3>1
    <3> QED BY <2>2, <3>2 DEF TreeOK
  <2> QED BY <2>4, <2>5
<1>17. m2[r][KernelIndex] = KernelTable
  <2>1. r \in L[0] /\ 0 \in Levels
    BY <1>2 DEF Levels
  <2>2. m2[r][KernelIndex] = m[r][KernelIndex]
    BY <1>1, <1>5, <2>1
  <2> QED BY <2>2 DEF TreeOK
<1>18. TreeOK(m2, r, L2)
  BY <1>11, <1>12, <1>13, <1>14, <1>15, <1>16, <1>17 DEF TreeOK
<1>19. ASSUME NEW x PROVE x \in TreePages(L2) <=> (x \in TreePages(L) /\ x # old) \/ x = s
  <2>1. ASSUME x \in TreePages(L2) PROVE (x \in TreePages(L) /\ x # old) \/ x = s
    <3>1. PICK e \in Levels : x \in L2[e]
      BY <2>1, InTree
    <3>2. CASE x = s
      BY <3>2
    <3>3. CASE x # s
      <4>1. x \in L[e] /\ ~(e = d + 1 /\ x = old)
        BY <1>4, <3>1, <3>3
      <4>2. x # old
        <5>1. CASE old = 0
          BY <1>6, <4>1, <5>1
        <5>2. CASE d = 3 /\ old \in L[4]
          <6>1. 4 \in Levels
            BY DEF Levels
          <6> QED BY <4>1, <5>2, <6>1 DEF TreeOK
        <5> QED BY <1>7, <5>1, <5>2
      <4> QED BY <4>1, <4>2, InTree
    <3> QED BY <3>2, <3>3
  <2>2. ASSUME x \in TreePages(L), x # old PROVE x \in TreePages(L2)
    <3>1. PICK e \in Levels : x \in L[e]
      BY <2>2, InTree
    <3> QED BY <1>4, <2>2, <3>1, InTree
  <2>3. s \in TreePages(L2)
    BY <1>1, <1>4, InTree
  <2> QED BY <2>1, <2>2, <2>3
<1>20. TreePages(L2) = (TreePages(L) \ {old}) \cup {s}
  BY <1>19
<1> QED BY <1>18, <1>20 DEF old

\* A new page map is a tree of one page.
Planted(s) == [d \in Levels |-> IF d = 0 THEN {s} ELSE {}]

\* vmm_new_pagemap makes one.
LEMMA TreePlanted ==
  ASSUME NEW s \in Nat \ {0}, NEW m2, NEW L, L = Planted(s),
         \A k \in UserIndices : m2[s][k] = 0, m2[s][KernelIndex] = KernelTable
  PROVE  TreeOK(m2, s, L) /\ TreePages(L) = {s}
<1>1. \A d \in Levels : L[d] = IF d = 0 THEN {s} ELSE {}
  BY DEF Planted
<1>2. L \in [Levels -> SUBSET (Nat \ {0})] /\ L[0] = {s}
  BY DEF Planted, Levels
<1>3. \A d \in 0..3 : d \in Levels /\ d + 1 \in Levels /\ d + 1 # 0
  BY DEF Levels
<1>4. \A d \in 0..3 : L[d + 1] = {} /\ (L[d] # {} => d = 0)
  BY <1>1, <1>3
<1>5. \A d \in 1..3 : L[d] = {}
  BY <1>1 DEF Levels
<1>6. TreeOK(m2, s, L)
  BY <1>1, <1>2, <1>4, <1>5 DEF TreeOK
<1>7. ASSUME NEW x PROVE x \in TreePages(L) <=> x = s
  <2>1. 0 \in Levels
    BY DEF Levels
  <2> QED BY <1>1, <2>1, InTree
<1> QED BY <1>6, <1>7

\* What the tables of a level refer to is the next level.
LEMMA NextLevel ==
  ASSUME NEW r, NEW L, TreeOK(mem, r, L)
  PROVE  /\ Present(r, UserIndices) = L[1]
         /\ \A d \in 1..3 : UNION {Present(t, Indices) : t \in L[d]} = L[d + 1]
<1>1. \A d \in Levels : \A q \in L[d] : q \in Nat /\ q # 0
  BY DEF TreeOK
<1>2. ASSUME NEW q PROVE q \in Present(r, UserIndices) <=> q \in L[1]
  <2>1. L[0] = {r} /\ 0 \in 0..3 /\ 0 + 1 = 1 /\ 1 \in Levels
    BY DEF TreeOK, Levels
  <2>2. q \in Present(r, UserIndices) <=> q # 0 /\ \E k \in UserIndices : mem[r][k] = q
    BY DEF Present
  <2>3. ASSUME q \in L[1] PROVE q \in Present(r, UserIndices)
    <3>1. q \in Nat /\ q # 0
      BY <1>1, <2>1, <2>3
    <3>2. \E p \in L[0], k \in UserIndices : mem[p][k] = q
      BY <2>1, <2>3, <3>1 DEF TreeOK
    <3> QED BY <2>1, <2>2, <3>1, <3>2
  <2>4. ASSUME q \in Present(r, UserIndices) PROVE q \in L[1]
    <3>1. PICK k \in UserIndices : mem[r][k] = q /\ q # 0
      BY <2>2, <2>4
    <3> QED BY <2>1, <3>1 DEF TreeOK
  <2> QED BY <2>3, <2>4
<1>3. ASSUME NEW d \in 1..3, NEW q PROVE q \in UNION {Present(t, Indices) : t \in L[d]} <=> q \in L[d + 1]
  <2>1. d \in 0..3 /\ d + 1 \in Levels
    BY DEF Levels
  <2>2. \A t : q \in Present(t, Indices) <=> q # 0 /\ \E k \in Indices : mem[t][k] = q
    BY DEF Present
  <2>3. ASSUME q \in L[d + 1] PROVE q \in UNION {Present(t, Indices) : t \in L[d]}
    <3>1. q \in Nat /\ q # 0
      BY <1>1, <2>1, <2>3
    <3>2. PICK p \in L[d], k \in UserIndices : mem[p][k] = q
      BY <2>1, <2>3, <3>1 DEF TreeOK
    <3>3. q \in Present(p, Indices)
      BY <2>2, <3>1, <3>2
    <3> QED BY <3>2, <3>3
  <2>4. ASSUME q \in UNION {Present(t, Indices) : t \in L[d]} PROVE q \in L[d + 1]
    <3>1. PICK t \in L[d] : q \in Present(t, Indices)
      BY <2>4
    <3>2. PICK k \in Indices : mem[t][k] = q /\ q # 0
      BY <2>2, <3>1
    <3>3. k \in UserIndices
      BY <3>1, <3>2 DEF TreeOK
    <3> QED BY <2>1, <3>1, <3>2, <3>3 DEF TreeOK
  <2> QED BY <2>3, <2>4
<1> QED BY <1>2, <1>3

\* The same, level by level.
LEMMA LevelByLevel ==
  ASSUME NEW r, NEW L, TreeOK(mem, r, L)
  PROVE  /\ UNION {Present(t, Indices) : t \in L[1]} = L[2]
         /\ UNION {Present(t, Indices) : t \in L[2]} = L[3]
         /\ UNION {Present(t, Indices) : t \in L[3]} = L[4]
         /\ r \in L[0] /\ r # 0 /\ \A d \in Levels : \A q \in L[d] : q # 0
         /\ \A k \in UserIndices : \A p \in L[0] : mem[p][k] = 0 \/ mem[p][k] \in L[1]
         /\ \A k \in UserIndices : \A p \in L[1] : mem[p][k] = 0 \/ mem[p][k] \in L[2]
         /\ \A k \in UserIndices : \A p \in L[2] : mem[p][k] = 0 \/ mem[p][k] \in L[3]
         /\ \A k \in UserIndices : \A p \in L[3] : mem[p][k] = 0 \/ mem[p][k] \in L[4]
<1>1. ASSUME NEW d \in 1..3, NEW e, e = d + 1 PROVE UNION {Present(t, Indices) : t \in L[d]} = L[e]
  BY <1>1, NextLevel
<1>2. ASSUME NEW d \in 0..3, NEW e, e = d + 1
      PROVE  \A k \in UserIndices : \A p \in L[d] : mem[p][k] = 0 \/ mem[p][k] \in L[e]
  BY <1>2 DEF TreeOK
<1>3. 0 \in 0..3 /\ 1 \in 0..3 /\ 2 \in 0..3 /\ 3 \in 0..3 /\ 1 = 0 + 1 /\ 2 = 1 + 1 /\ 3 = 2 + 1 /\ 4 = 3 + 1
      /\ 1 \in 1..3 /\ 2 \in 1..3 /\ 3 \in 1..3 /\ 0 \in Levels
  BY DEF Levels
<1>4. UNION {Present(t, Indices) : t \in L[1]} = L[2]
  BY <1>1, <1>3
<1>5. UNION {Present(t, Indices) : t \in L[2]} = L[3]
  BY <1>1, <1>3
<1>6. UNION {Present(t, Indices) : t \in L[3]} = L[4]
  BY <1>1, <1>3
<1>7. r \in L[0] /\ \A d \in Levels : \A q \in L[d] : q # 0
  BY DEF TreeOK
<1>8. \A k \in UserIndices : \A p \in L[0] : mem[p][k] = 0 \/ mem[p][k] \in L[1]
  BY <1>2, <1>3
<1>9. \A k \in UserIndices : \A p \in L[1] : mem[p][k] = 0 \/ mem[p][k] \in L[2]
  BY <1>2, <1>3
<1>10. \A k \in UserIndices : \A p \in L[2] : mem[p][k] = 0 \/ mem[p][k] \in L[3]
  BY <1>2, <1>3
<1>11. \A k \in UserIndices : \A p \in L[3] : mem[p][k] = 0 \/ mem[p][k] \in L[4]
  BY <1>2, <1>3
<1> QED BY <1>3, <1>4, <1>5, <1>6, <1>7, <1>8, <1>9, <1>10, <1>11

\* vmm_free_pagemap frees the pages of the tree, all of them and no other.
LEMMA MapIsTree ==
  ASSUME NEW r, NEW L, TreeOK(mem, r, L)
  PROVE  /\ MapPages(r) = TreePages(L)
         /\ Tables(r).all = L[0] \cup L[1] \cup L[2] \cup L[3]
<1>1. Present(r, UserIndices) = L[1] /\ L[0] = {r}
  BY NextLevel DEF TreeOK
<1>2. /\ UNION {Present(t, Indices) : t \in L[1]} = L[2]
      /\ UNION {Present(t, Indices) : t \in L[2]} = L[3]
      /\ UNION {Present(t, Indices) : t \in L[3]} = L[4]
  BY LevelByLevel
<1>3. Tables(r) = [all |-> {r} \cup L[1] \cup L[2] \cup L[3], last |-> L[3]]
  BY <1>1, <1>2 DEF Tables
<1>4. MapPages(r) = ({r} \cup L[1] \cup L[2] \cup L[3]) \cup L[4]
  <2>1. Tables(r).all = {r} \cup L[1] \cup L[2] \cup L[3] /\ Tables(r).last = L[3]
    BY <1>3
  <2> QED BY <1>2, <2>1 DEF MapPages
<1>5. ASSUME NEW q PROVE q \in TreePages(L) <=> q \in L[0] \/ q \in L[1] \/ q \in L[2] \/ q \in L[3] \/ q \in L[4]
  BY InTree DEF Levels
<1> QED BY <1>1, <1>3, <1>4, <1>5

\* The walk of the MMU goes down the levels of the tree.
LEMMA WalkInTree ==
  ASSUME NEW r, NEW L, TreeOK(mem, r, L), NEW v \in UserPages, Translate(r, v) # 0
  PROVE  \E p1 \in L[1], p2 \in L[2], p3 \in L[3], p4 \in L[4] :
           mem[r][v[1]] = p1 /\ mem[p1][v[2]] = p2 /\ mem[p2][v[3]] = p3 /\ mem[p3][v[4]] = p4
             /\ Translate(r, v) = p4
<1>1. v[1] \in UserIndices /\ v[2] \in UserIndices /\ v[3] \in UserIndices /\ v[4] \in UserIndices
  BY DEF UserPages
<1>2. r \in L[0] /\ r # 0
  BY LevelByLevel
<1> DEFINE next(t, k) == IF t = 0 THEN 0 ELSE mem[t][v[k]]
           p1 == next(r, 1)
           p2 == next(p1, 2)
           p3 == next(p2, 3)
           p4 == next(p3, 4)
<1>3. Translate(r, v) = p4
  BY DEF Translate
<1>4. p4 # 0 /\ p3 # 0 /\ p2 # 0 /\ p1 # 0
  BY <1>3
<1>5. p1 = mem[r][v[1]] /\ p2 = mem[p1][v[2]] /\ p3 = mem[p2][v[3]] /\ p4 = mem[p3][v[4]]
  BY <1>2, <1>4
<1> HIDE DEF p1, p2, p3, p4
<1>7. p1 \in L[1]
  BY <1>1, <1>2, <1>4, <1>5, LevelByLevel
<1>8. p2 \in L[2]
  BY <1>1, <1>4, <1>5, <1>7, LevelByLevel
<1>9. p3 \in L[3]
  BY <1>1, <1>4, <1>5, <1>8, LevelByLevel
<1>10. p4 \in L[4]
  BY <1>1, <1>4, <1>5, <1>9, LevelByLevel
<1> QED BY <1>3, <1>5, <1>7, <1>8, <1>9, <1>10

\* Two virtual pages never share a page, and no page mapped is a table.
LEMMA WalksApart ==
  ASSUME NEW r, NEW L, TreeOK(mem, r, L)
  PROVE  /\ \A v, w \in UserPages : v # w /\ Translate(r, v) # 0 => Translate(r, v) # Translate(r, w)
         /\ \A v \in UserPages : Translate(r, v) \notin Tables(r).all
<1>1. \A d \in 0..3, k, l \in UserIndices : \A p, q \in L[d] :
        mem[p][k] = mem[q][l] /\ mem[p][k] # 0 => p = q /\ k = l
  BY DEF TreeOK
<1>2. \A d \in Levels : \A q \in L[d] : q # 0
  BY DEF TreeOK
<1>3. ASSUME NEW v \in UserPages, NEW w \in UserPages, Translate(r, v) # 0, Translate(r, v) = Translate(r, w)
      PROVE  v = w
  <2>1. /\ v[1] \in UserIndices /\ v[2] \in UserIndices /\ v[3] \in UserIndices /\ v[4] \in UserIndices
        /\ w[1] \in UserIndices /\ w[2] \in UserIndices /\ w[3] \in UserIndices /\ w[4] \in UserIndices
    BY DEF UserPages
  <2>2. PICK p1 \in L[1], p2 \in L[2], p3 \in L[3], p4 \in L[4] :
          mem[r][v[1]] = p1 /\ mem[p1][v[2]] = p2 /\ mem[p2][v[3]] = p3 /\ mem[p3][v[4]] = p4
            /\ Translate(r, v) = p4
    BY <1>3, WalkInTree
  <2>3. PICK q1 \in L[1], q2 \in L[2], q3 \in L[3], q4 \in L[4] :
          mem[r][w[1]] = q1 /\ mem[q1][w[2]] = q2 /\ mem[q2][w[3]] = q3 /\ mem[q3][w[4]] = q4
            /\ Translate(r, w) = q4
    <3>1. Translate(r, w) # 0
      BY <1>3
    <3> QED BY <3>1, WalkInTree
  <2>4. p3 = q3 /\ v[4] = w[4]
    <3>0. p4 = q4 /\ p4 # 0
      BY <1>3, <2>2, <2>3, Zenon
    <3>1. mem[p3][v[4]] = mem[q3][w[4]] /\ mem[p3][v[4]] # 0 /\ 3 \in 0..3
      BY <2>2, <2>3, <3>0
    <3> QED BY <1>1, <2>1, <3>1
  <2>5. p2 = q2 /\ v[3] = w[3]
    BY <1>1, <1>2, <2>1, <2>2, <2>3, <2>4 DEF Levels
  <2>6. p1 = q1 /\ v[2] = w[2]
    BY <1>1, <1>2, <2>1, <2>2, <2>3, <2>5 DEF Levels
  <2>7. v[1] = w[1]
    <3>1. r \in L[0] /\ p1 # 0
      BY <1>2 DEF TreeOK, Levels
    <3> QED BY <1>1, <2>1, <2>2, <2>3, <2>6, <3>1
  <2>8. v = <<v[1], v[2], v[3], v[4]>> /\ w = <<w[1], w[2], w[3], w[4]>>
    BY DEF UserPages
  <2> QED BY <2>4, <2>5, <2>6, <2>7, <2>8
<1>4. ASSUME NEW v \in UserPages PROVE Translate(r, v) \notin L[0] \cup L[1] \cup L[2] \cup L[3]
  <2>1. CASE Translate(r, v) = 0
    BY <1>2, <2>1 DEF Levels
  <2>2. CASE Translate(r, v) # 0
    <3>1. Translate(r, v) \in L[4]
      BY <2>2, WalkInTree
    <3> QED BY <3>1 DEF TreeOK, Levels
  <2> QED BY <2>1, <2>2
<1> QED BY <1>3, <1>4, MapIsTree

-----------------------------------------------------------------------------
(* The invariant.  A busy page of the pool has one holder: the file        *)
(* buffer, the page map, the page to be mapped next, or nobody (it was     *)
(* abandoned).  What holds what follows from where process_exec is.        *)

Buffer == IF phys_buf = 0 THEN {} ELSE FileBuffer
Framed == {frame} \ {0}

Buffered == {"check", "pagemap", "segments", "map", "kernel_half", "enter"}
Mapped == {"segments", "map", "kernel_half", "enter", "user", "exit"}
Mapping == {"map", "kernel_half"}

\* Types, as long as every table has a page: TypeOK, and what the locals refer to
\* is in the pool.
PoolTypes ==
  /\ bitmap \subseteq 0..(top - 1) /\ hint \in 0..top
  /\ mem \in [0..top -> [Indices -> 0..top]]
  /\ cr3 \in 0..(top - 1)
  /\ pc \in {"shell", "check", "pagemap", "segments", "map", "kernel_half", "enter", "user", "exit"}
  /\ prog \in Programs
  /\ {phys_buf, process_pml4, frame, table} \subseteq {0} \cup Pool
  /\ pc # "kernel_half" => vpage \in UserPages
  /\ level \in 0..4

CtlInv ==
  /\ PoolTypes /\ top \in TopPages
  /\ phys_buf # 0 <=> pc \in Buffered
  /\ process_pml4 # 0 <=> pc \in Mapped
  /\ frame # 0 <=> pc \in Mapping
  /\ pc = "map" => level \in 1..4
  /\ mem[KernelPML4][KernelIndex] = KernelTable /\ mem[cr3][KernelIndex] = KernelTable
  /\ IF pc = "user" THEN cr3 = process_pml4 ELSE cr3 \in {KernelPML4} \cup abandoned

Apart(B, T, F, A) ==
  /\ B \cap T = {} /\ B \cap F = {} /\ B \cap A = {} /\ T \cap F = {} /\ T \cap A = {} /\ F \cap A = {}
  /\ Reserved \cap B = {} /\ Reserved \cap T = {} /\ Reserved \cap F = {} /\ Reserved \cap A = {}

Held(L) ==
  /\ IF process_pml4 = 0 THEN TreePages(L) = {} ELSE TreeOK(mem, process_pml4, L)
  /\ pc = "map" => table \in L[level - 1]
  /\ bitmap = Reserved \cup Buffer \cup TreePages(L) \cup Framed \cup abandoned
  /\ Apart(Buffer, TreePages(L), Framed, abandoned)

ProcInv == CtlInv /\ \E L : Held(L)

\* No page at all.
LEMMA NoTree == \E L : TreePages(L) = {}
<1> DEFINE L == [d \in Levels |-> {}]
<1>1. TreePages(L) = {}
  BY DEF TreePages
<1> QED BY <1>1

\* What the allocator returns was free, and lies in the memory.
LEMMA AllocGives ==
  ASSUME hint \in 0..top, top \in TopPages, NEW s \in Frames, NEW n \in Nat \ {0}, Alloc(s, n)
  PROVE  /\ bitmap' = bitmap \cup s..(s + n - 1) /\ (s..(s + n - 1)) \cap bitmap = {}
         /\ s..(s + n - 1) \subseteq 0..(top - 1)
         /\ hint' \in 0..top /\ s \in Nat \ {0} /\ top \in Nat /\ s \in 0..(top - 1)
<1>1. top \in Nat /\ top > 2 /\ hint \in 0..top
  OBVIOUS
<1>2. s \in Nat /\ s > 0 /\ s < top
  BY <1>1 DEF Frames
<1>3. s + n <= top /\ \A k \in s..(s + n - 1) : k \notin bitmap
  BY <1>1, <1>2 DEF Alloc, Picks, FirstRun, RunAt
<1>4. bitmap' = bitmap \cup s..(s + n - 1) /\ hint' = IF n = 1 THEN s ELSE s + n
  BY DEF Alloc
<1>5. \A k \in s..(s + n - 1) : k \in 0..(top - 1)
  BY <1>1, <1>2, <1>3
<1>6. hint' \in 0..top
  BY <1>1, <1>2, <1>3, <1>4
<1> QED BY <1>1, <1>2, <1>3, <1>4, <1>5, <1>6

\* One page.
LEMMA AllocOne ==
  ASSUME hint \in 0..top, top \in TopPages, NEW s \in Frames, Alloc(s, 1)
  PROVE  /\ bitmap' = bitmap \cup {s} /\ s \notin bitmap
         /\ hint' \in 0..top /\ s \in Nat \ {0} /\ top \in Nat /\ s \in 0..(top - 1)
<1>1. /\ bitmap' = bitmap \cup s..(s + 1 - 1) /\ (s..(s + 1 - 1)) \cap bitmap = {}
      /\ hint' \in 0..top /\ s \in Nat \ {0} /\ top \in Nat /\ s \in 0..(top - 1)
  BY AllocGives
<1>2. s..(s + 1 - 1) = {s}
  BY <1>1
<1> QED BY <1>1, <1>2

\* An allocation that returned NULL left the allocator as it was, unless page 0
\* was free.
LEMMA NullGives ==
  ASSUME bitmap \subseteq 0..(top - 1), hint \in 0..top, top \in TopPages, NEW n \in Nat \ {0}, NEW a \in NullAlloc(n)
  PROVE  /\ a.busy \subseteq 0..(top - 1) /\ a.hint \in 0..top
         /\ 0 \in bitmap => a.busy = bitmap /\ a.hint = hint
<1>1. CASE AllocFails(n)
  <2>1. a = [busy |-> bitmap, hint |-> hint]
    BY <1>1 DEF NullAlloc
  <2> QED BY <2>1
<1>2. CASE ~AllocFails(n)
  <2>1. Picks(bitmap, hint, top, 0, n) /\ a = [busy |-> bitmap \cup 0..(n - 1), hint |-> IF n = 1 THEN 0 ELSE n]
    BY <1>2 DEF NullAlloc
  <2>2. n <= top /\ \A k \in 0..(n - 1) : k \notin bitmap
    BY <2>1 DEF Picks, FirstRun, RunAt
  <2>3. 0..(n - 1) \subseteq 0..(top - 1) /\ 0 \in 0..(n - 1)
    BY <2>2
  <2> QED BY <2>1, <2>2, <2>3
<1> QED BY <1>1, <1>2

\* As long as every table has a page, pages come from the pool, ...
LEMMA PoolAlloc ==
  ASSUME ProcInv, NEW s \in Frames, NEW n \in Nat \ {0}, Alloc(s, n)
  PROVE  s \in Pool
<1>1. s \notin bitmap /\ s \in Nat /\ s < top /\ top \in Nat
  <2>1. hint \in 0..top /\ top \in TopPages
    BY DEF ProcInv, CtlInv, PoolTypes
  <2>2. s \in s..(s + n - 1)
    BY <2>1 DEF Frames
  <2> QED BY <2>1, <2>2, AllocGives DEF Frames
<1>2. Reserved \subseteq bitmap
  BY DEF ProcInv, Held
<1> QED BY <1>1, <1>2 DEF Pool

\* ... NULL means that none was free, ...
LEMMA NullMeansNone ==
  ASSUME ProcInv, NEW n \in Nat \ {0}, NEW a \in NullAlloc(n)
  PROVE  a.busy = bitmap /\ a.hint = hint
<1>1. 0 \in bitmap
  BY DEF ProcInv, Held
<1> QED BY <1>1, NullGives DEF ProcInv, CtlInv, PoolTypes

\* ... and a page map is freed without page 0.
LEMMA FreesTheMap ==
  ASSUME ProcInv, process_pml4 # 0
  PROVE  vmm_free_pagemap(process_pml4) = MapPages(process_pml4)
<1>1. PICK L : Held(L)
  BY DEF ProcInv
<1>2. MapPages(process_pml4) \subseteq bitmap
  BY <1>1, MapIsTree DEF Held
<1>3. top \notin bitmap
  BY DEF ProcInv, CtlInv, PoolTypes
<1>4. \A q \in MapPages(process_pml4) : q # Zero
  BY <1>2, <1>3 DEF Zero
<1> QED BY <1>4 DEF vmm_free_pagemap

\* A call or a program has come to its end, however it did, and what it held
\* is free or abandoned.
LEMMA BackInShell ==
  ASSUME ProcInv, ToShell, UNCHANGED <<top, mem, cr3, prog, hint>>, bitmap' \subseteq 0..(top - 1),
         bitmap' = Reserved \cup abandoned', Reserved \cap abandoned' = {}, cr3 \in {KernelPML4} \cup abandoned'
  PROVE  ProcInv'
<1>1. /\ pc' = "shell" /\ phys_buf' = 0 /\ process_pml4' = 0 /\ frame' = 0 /\ vpage' = StackPage
      /\ level' = 0 /\ table' = 0
  BY DEF ToShell
<1>2. PoolTypes'
  <2>1. PoolTypes
    BY DEF ProcInv, CtlInv
  <2>2. /\ hint' \in 0..top' /\ mem' \in [0..top' -> [Indices -> 0..top']] /\ cr3' \in 0..(top' - 1)
        /\ prog' \in Programs
    BY <2>1 DEF PoolTypes
  <2>3. {phys_buf', process_pml4', frame', table'} \subseteq {0} \cup Pool'
    BY <1>1
  <2>4. level' \in 0..4 /\ vpage' \in UserPages
    BY <1>1
  <2> QED BY <1>1, <2>2, <2>3, <2>4 DEF PoolTypes
<1>3. CtlInv'
  BY <1>1, <1>2 DEF ProcInv, CtlInv, Buffered, Mapped, Mapping
<1>4. PICK L : TreePages(L) = {}
  BY NoTree
<1>5. Buffer' = {} /\ Framed' = {}
  BY <1>1 DEF Buffer, Framed
<1>6. Held(L)'
  BY <1>1, <1>4, <1>5 DEF Held, Apart
<1> QED BY <1>3, <1>6 DEF ProcInv

\* Every failure after the page map was made frees everything.
LEMMA GivenUp ==
  ASSUME ProcInv, pc = "segments", GiveUp(bitmap), UNCHANGED <<top, hint, mem, cr3, prog, abandoned>>
  PROVE  ProcInv'
<1>1. PICK L : Held(L)
  BY DEF ProcInv
<1>2. process_pml4 # 0 /\ phys_buf # 0 /\ frame = 0 /\ cr3 \in {KernelPML4} \cup abandoned
  BY DEF ProcInv, CtlInv, Buffered, Mapped, Mapping
<1>3. Buffer = FileBuffer /\ Framed = {} /\ MapPages(process_pml4) = TreePages(L)
  BY <1>1, <1>2, MapIsTree DEF Buffer, Framed, Held
<1>4. bitmap' = (bitmap \ Buffer) \ TreePages(L) /\ ToShell /\ hint' = hint
  BY <1>2, <1>3, FreesTheMap DEF GiveUp
<1>5. bitmap' = Reserved \cup abandoned /\ Reserved \cap abandoned = {}
  BY <1>1, <1>3, <1>4 DEF Held, Apart
<1>6. bitmap' \subseteq 0..(top - 1)
  BY <1>4 DEF ProcInv, CtlInv, PoolTypes
<1> QED BY <1>2, <1>4, <1>5, <1>6, BackInShell

\* A page is allocated, to be mapped next.
LEMMA MappingStarts ==
  ASSUME ProcInv, pc = "segments", NEW s \in Pool, NEW v, StartMapping(s, v),
         UNCHANGED <<top, mem, cr3, prog, abandoned>>
  PROVE  ProcInv'
<1>1. PICK L : Held(L)
  BY DEF ProcInv
<1>2. process_pml4 # 0 /\ phys_buf # 0 /\ frame = 0 /\ cr3 \in {KernelPML4} \cup abandoned
  BY DEF ProcInv, CtlInv, Buffered, Mapped, Mapping
<1>3. /\ bitmap' = bitmap \cup {s} /\ s \notin bitmap /\ hint' \in 0..top /\ s \in Nat \ {0} /\ top \in Nat
      /\ s \in 0..(top - 1)
  <2>1. s \in Frames
    BY DEF Pool, Frames
  <2> QED BY <2>1, AllocOne DEF StartMapping, ProcInv, CtlInv, PoolTypes
<1>4. /\ frame' = s /\ vpage' = v /\ level' = 1 /\ table' = process_pml4
      /\ UNCHANGED <<phys_buf, process_pml4>> /\ pc' \in {"map", "kernel_half"}
      /\ pc' = "map" => v \in UserPages
  BY DEF StartMapping
<1>5. PoolTypes'
  <2>1. PoolTypes
    BY DEF ProcInv, CtlInv
  <2>2. /\ bitmap' \subseteq 0..(top' - 1) /\ hint' \in 0..top'
        /\ mem' \in [0..top' -> [Indices -> 0..top']] /\ cr3' \in 0..(top' - 1)
        /\ prog' \in Programs
    BY <1>3, <2>1 DEF PoolTypes
  <2>3. {phys_buf', process_pml4', frame', table'} \subseteq {0} \cup Pool'
    BY <1>4, <2>1 DEF PoolTypes, Pool
  <2>4. level' \in 0..4 /\ (pc' # "kernel_half" => vpage' \in UserPages)
    BY <1>4
  <2> QED BY <1>4, <2>2, <2>3, <2>4 DEF PoolTypes
<1>6. CtlInv'
  BY <1>2, <1>3, <1>4, <1>5 DEF ProcInv, CtlInv, Buffered, Mapped, Mapping
<1>7. Buffer' = Buffer /\ Framed = {} /\ Framed' = {s}
  BY <1>2, <1>3, <1>4 DEF Buffer, FileBuffer, Framed
<1>8. TreeOK(mem, process_pml4, L) /\ process_pml4 \in L[0]
  BY <1>1, <1>2 DEF Held, TreeOK
<1>9. Held(L)'
  <2>1. pc' = "map" => table' \in L[level' - 1]
    BY <1>4, <1>8
  <2>2. bitmap' = Reserved \cup Buffer' \cup TreePages(L) \cup Framed' \cup abandoned'
    BY <1>1, <1>3, <1>7 DEF Held
  <2>3. Apart(Buffer', TreePages(L), Framed', abandoned')
    BY <1>1, <1>3, <1>7 DEF Held, Apart
  <2> QED BY <1>2, <1>4, <1>8, <2>1, <2>2, <2>3 DEF Held
<1> QED BY <1>6, <1>9 DEF ProcInv

\* process_exec begins: a buffer for the file, or nothing.
LEMMA InvExec == ASSUME ProcInv, NEW p \in Programs, Exec(p) PROVE ProcInv'
<1>1. PICK L : Held(L)
  BY DEF ProcInv
<1>2. /\ pc = "shell" /\ prog' = p
      /\ UNCHANGED <<top, mem, cr3, process_pml4, frame, vpage, level, table, abandoned>>
  BY DEF Exec, mapping
<1>3. PoolTypes /\ top \in TopPages /\ p.file_pages \in Nat
  BY DEF ProcInv, CtlInv
<1>4. process_pml4 = 0 /\ phys_buf = 0 /\ frame = 0 /\ cr3 \in {KernelPML4} \cup abandoned
  BY <1>2 DEF ProcInv, CtlInv, Buffered, Mapped, Mapping
<1>5. TreePages(L) = {} /\ Buffer = {} /\ Framed = {} /\ Framed' = {}
  BY <1>1, <1>2, <1>4 DEF Held, Buffer, Framed
<1>6. CASE UNCHANGED <<alloc, pc, phys_buf>>
  <2>1. UNCHANGED <<bitmap, hint, pc, phys_buf>>
    BY <1>6 DEF alloc
  <2>2. PoolTypes'
    BY <1>2, <1>3, <2>1 DEF PoolTypes, Pool
  <2>3. CtlInv'
    BY <1>2, <2>1, <2>2 DEF ProcInv, CtlInv
  <2>4. Buffer' = {}
    BY <1>4, <2>1 DEF Buffer
  <2>5. Held(L)'
    BY <1>1, <1>2, <1>4, <1>5, <2>1, <2>4 DEF Held
  <2> QED BY <2>3, <2>5 DEF ProcInv
<1>7. CASE p.file_pages > 0 /\ \E s \in Frames : Alloc(s, p.file_pages) /\ phys_buf' = s /\ pc' = "check"
  <2>0. p.file_pages \in Nat \ {0}
    BY <1>3, <1>7
  <2>1. PICK s \in Pool : Alloc(s, p.file_pages) /\ phys_buf' = s /\ pc' = "check" /\ s \in Frames
    BY <1>7, <2>0, PoolAlloc
  <2> DEFINE B == s..(s + p.file_pages - 1)
  <2>2. hint \in 0..top
    BY <1>3 DEF PoolTypes
  <2>3. /\ bitmap' = bitmap \cup B /\ B \cap bitmap = {} /\ B \subseteq 0..(top - 1)
        /\ hint' \in 0..top /\ s # 0
    BY <1>3, <2>0, <2>1, <2>2, AllocGives
  <2>4. Buffer' = B
    BY <1>2, <2>1, <2>3 DEF Buffer, FileBuffer
  <2> HIDE DEF B
  <2>5. PoolTypes'
    <3>1. /\ bitmap' \subseteq 0..(top' - 1) /\ hint' \in 0..top'
          /\ mem' \in [0..top' -> [Indices -> 0..top']] /\ cr3' \in 0..(top' - 1)
      BY <1>2, <1>3, <2>3 DEF PoolTypes
    <3>2. {phys_buf', process_pml4', frame', table'} \subseteq {0} \cup Pool'
      BY <1>2, <1>3, <2>1 DEF PoolTypes, Pool
    <3> QED BY <1>2, <1>3, <2>1, <3>1, <3>2 DEF PoolTypes
  <2>6. CtlInv'
    BY <1>2, <1>4, <2>1, <2>3, <2>5 DEF ProcInv, CtlInv, Buffered, Mapped, Mapping
  <2>7. Held(L)'
    <3>1. bitmap' = Reserved \cup Buffer' \cup TreePages(L) \cup Framed' \cup abandoned'
      BY <1>1, <1>2, <1>5, <2>3, <2>4 DEF Held
    <3>2. Apart(Buffer', TreePages(L), Framed', abandoned')
      BY <1>1, <1>2, <1>5, <2>3, <2>4 DEF Held, Apart
    <3> QED BY <1>2, <1>4, <1>5, <2>1, <3>1, <3>2 DEF Held
  <2> QED BY <2>6, <2>7 DEF ProcInv
<1>8. CASE /\ p.file_pages > 0 /\ UNCHANGED <<pc, phys_buf>>
           /\ \E a \in NullAlloc(p.file_pages) : bitmap' = a.busy /\ hint' = a.hint
  <2>1. p.file_pages \in Nat \ {0}
    BY <1>3, <1>8
  <2>2. UNCHANGED <<bitmap, hint>>
    BY <1>8, <2>1, NullMeansNone
  <2> QED BY <1>6, <1>8, <2>2 DEF alloc
<1> QED BY <1>6, <1>7, <1>8 DEF Exec

\* The header of the file is checked.
LEMMA InvCheckHeader == ASSUME ProcInv, CheckHeader PROVE ProcInv'
<1>1. PICK L : Held(L)
  BY DEF ProcInv
<1>2. pc = "check" /\ UNCHANGED <<top, hint, mem, cr3, prog, abandoned>>
  BY DEF CheckHeader
<1>3. process_pml4 = 0 /\ phys_buf # 0 /\ frame = 0 /\ cr3 \in {KernelPML4} \cup abandoned
  BY <1>2 DEF ProcInv, CtlInv, Buffered, Mapped, Mapping
<1>4. CASE prog.header = "bad"
  <2>1. bitmap' = bitmap \ FileBuffer /\ ToShell
    BY <1>4 DEF CheckHeader
  <2>2. Buffer = FileBuffer /\ Framed = {} /\ TreePages(L) = {}
    BY <1>1, <1>3 DEF Buffer, Framed, Held
  <2>3. bitmap' = Reserved \cup abandoned /\ Reserved \cap abandoned = {}
    BY <1>1, <2>1, <2>2 DEF Held, Apart
  <2>4. bitmap' \subseteq 0..(top - 1)
    BY <2>1 DEF ProcInv, CtlInv, PoolTypes
  <2> QED BY <1>2, <1>3, <2>1, <2>3, <2>4, BackInShell
<1>5. CASE prog.header # "bad"
  <2>1. pc' = "pagemap" /\ UNCHANGED <<bitmap, phys_buf, process_pml4, frame, vpage, level, table>>
    BY <1>5 DEF CheckHeader, mapping
  <2>2. PoolTypes'
    BY <1>2, <2>1 DEF ProcInv, CtlInv, PoolTypes, Pool
  <2>3. CtlInv'
    BY <1>2, <2>1, <2>2 DEF ProcInv, CtlInv, Buffered, Mapped, Mapping
  <2>4. Held(L)'
    BY <1>1, <1>2, <2>1 DEF Held, Buffer, FileBuffer, Framed
  <2> QED BY <2>3, <2>4 DEF ProcInv
<1> QED BY <1>4, <1>5

\* vmm_new_pagemap, or the end for want of a page.
LEMMA InvNewPagemap == ASSUME ProcInv, NewPagemap PROVE ProcInv'
<1>1. PICK L : Held(L)
  BY DEF ProcInv
<1>2. pc = "pagemap" /\ UNCHANGED <<top, cr3, prog, abandoned>>
  BY DEF NewPagemap
<1>3. process_pml4 = 0 /\ phys_buf # 0 /\ frame = 0 /\ cr3 \in {KernelPML4} \cup abandoned
  BY <1>2 DEF ProcInv, CtlInv, Buffered, Mapped, Mapping
<1>4. Buffer = FileBuffer /\ Framed = {} /\ TreePages(L) = {}
  BY <1>1, <1>3 DEF Buffer, Framed, Held
<1>5. PoolTypes /\ top \in TopPages /\ mem[KernelPML4][KernelIndex] = KernelTable /\ mem[cr3][KernelIndex] = KernelTable
  BY DEF ProcInv, CtlInv
<1>6. CASE bitmap' = bitmap \ FileBuffer /\ ToShell /\ UNCHANGED <<hint, mem>>
  <2>1. bitmap' = Reserved \cup abandoned /\ Reserved \cap abandoned = {}
    BY <1>1, <1>4, <1>6 DEF Held, Apart
  <2>2. bitmap' \subseteq 0..(top - 1)
    BY <1>5, <1>6 DEF PoolTypes
  <2> QED BY <1>2, <1>3, <1>6, <2>1, <2>2, BackInShell
<1>7. CASE \E s \in Frames :
             /\ Alloc(s, 1) /\ process_pml4' = s /\ pc' = "segments" /\ UNCHANGED <<phys_buf, mapping>>
             /\ mem' = [mem EXCEPT ![s] = [Empty EXCEPT ![KernelIndex] = mem[KernelPML4][KernelIndex]]]
  <2>1. PICK s \in Frames :
             /\ Alloc(s, 1) /\ process_pml4' = s /\ pc' = "segments" /\ UNCHANGED <<phys_buf, mapping>>
             /\ mem' = [mem EXCEPT ![s] = [Empty EXCEPT ![KernelIndex] = mem[KernelPML4][KernelIndex]]]
    BY <1>7
  <2>18. s \in Pool
    BY <2>1, PoolAlloc
  <2>2. /\ bitmap' = bitmap \cup {s} /\ s \notin bitmap /\ hint' \in 0..top /\ s \in Nat \ {0} /\ top \in Nat
        /\ s \in 0..(top - 1) /\ top > 2
    BY <1>5, <2>1, AllocOne DEF PoolTypes
  <2>3. PICK row : row = [Empty EXCEPT ![KernelIndex] = KernelTable]
    OBVIOUS
  <2>4. /\ row \in [Indices -> 0..top] /\ row[KernelIndex] = KernelTable
        /\ \A k \in UserIndices : row[k] = 0
    BY <2>2, <2>3 DEF Empty
  <2>5. mem' = [mem EXCEPT ![s] = row]
    BY <1>5, <2>1, <2>3
  <2>6. mem \in [0..top -> [Indices -> 0..top]]
    BY <1>5 DEF PoolTypes
  <2>7. mem' \in [0..top -> [Indices -> 0..top]]
    BY <2>4, <2>5, <2>6
  <2>8. mem'[s] = row /\ \A x \in 0..(top - 1) : x # s => mem'[x] = mem[x]
    BY <2>2, <2>5, <2>6
  <2>9. frame' = frame /\ vpage' = vpage /\ level' = level /\ table' = table /\ phys_buf' = phys_buf
    BY <2>1 DEF mapping
  <2>10. PoolTypes'
    <3>1. bitmap' \subseteq 0..(top' - 1) /\ hint' \in 0..top' /\ cr3' \in 0..(top' - 1)
      BY <1>2, <1>5, <2>2 DEF PoolTypes
    <3>2. {phys_buf', process_pml4', frame', table'} \subseteq {0} \cup Pool'
      BY <1>2, <1>5, <2>1, <2>9, <2>18 DEF PoolTypes, Pool
    <3>3. prog' \in Programs /\ level' \in 0..4 /\ vpage' \in UserPages
      BY <1>2, <1>5, <2>9 DEF PoolTypes
    <3> QED BY <1>2, <2>1, <2>7, <3>1, <3>2, <3>3 DEF PoolTypes
  <2>11. cr3 # s /\ KernelPML4 # s /\ cr3 \in 0..(top - 1) /\ KernelPML4 \in 0..(top - 1)
    BY <1>1, <1>3, <1>5, <2>2 DEF Held, PoolTypes
  <2>12. CtlInv'
    <3>1. mem'[KernelPML4][KernelIndex] = KernelTable /\ mem'[cr3][KernelIndex] = KernelTable
      BY <1>5, <2>8, <2>11
    <3> QED BY <1>2, <1>3, <1>5, <2>1, <2>2, <2>9, <2>10, <3>1 DEF CtlInv, Buffered, Mapped, Mapping
  <2>13. PICK L2 : L2 = Planted(s)
    OBVIOUS
  <2>14. PICK m2 : m2 = mem'
    OBVIOUS
  <2>15. TreeOK(m2, s, L2) /\ TreePages(L2) = {s}
    BY <2>2, <2>4, <2>8, <2>13, <2>14, TreePlanted
  <2>16. Buffer' = Buffer /\ Framed' = {}
    BY <1>2, <1>3, <2>9 DEF Buffer, FileBuffer, Framed
  <2>17. Held(L2)'
    <3>1. bitmap' = Reserved \cup Buffer' \cup TreePages(L2) \cup Framed' \cup abandoned'
      BY <1>1, <1>2, <1>4, <2>2, <2>15, <2>16 DEF Held
    <3>2. Apart(Buffer', TreePages(L2), Framed', abandoned')
      BY <1>1, <1>2, <1>4, <2>2, <2>15, <2>16 DEF Held, Apart
    <3>3. TreeOK(mem', process_pml4', L2) /\ process_pml4' # 0
      BY <2>1, <2>2, <2>14, <2>15
    <3> QED BY <2>1, <3>1, <3>2, <3>3 DEF Held
  <2> QED BY <2>12, <2>17 DEF ProcInv
<1>8. CASE /\ \E a \in NullAlloc(1) : bitmap' = a.busy \ FileBuffer /\ hint' = a.hint
           /\ ToShell /\ UNCHANGED mem
  BY <1>6, <1>8, NullMeansNone
<1> QED BY <1>7, <1>8 DEF NewPagemap

\* The next page of a segment, the next segment, or the stack.
LEMMA InvLoad == ASSUME ProcInv, LoadPage \/ LoadStack PROVE ProcInv'
<1>1. pc = "segments" /\ UNCHANGED <<top, mem, cr3, prog, abandoned>>
  BY DEF LoadPage, LoadStack
<1>2. \/ GiveUp(bitmap) /\ hint' = hint
      \/ \E a \in NullAlloc(1) : GiveUp(a.busy) /\ hint' = a.hint
      \/ \E s \in Frames : \E v : StartMapping(s, v)
      \/ UNCHANGED <<alloc, pc, phys_buf, process_pml4, mapping>>
  BY DEF LoadPage, LoadStack
<1>3. CASE GiveUp(bitmap) /\ hint' = hint
  BY <1>1, <1>3, GivenUp
<1>6. CASE \E a \in NullAlloc(1) : GiveUp(a.busy) /\ hint' = a.hint
  BY <1>3, <1>6, NullMeansNone
<1>4. CASE \E s \in Frames : \E v : StartMapping(s, v)
  <2>3. PICK s \in Frames : \E v : StartMapping(s, v)
    BY <1>4
  <2>1. PICK v : StartMapping(s, v)
    BY <2>3
  <2>2. s \in Pool
    BY <2>1, PoolAlloc DEF StartMapping
  <2> QED BY <1>1, <2>1, <2>2, MappingStarts
<1>5. CASE UNCHANGED <<alloc, pc, phys_buf, process_pml4, mapping>>
  <2>1. UNCHANGED <<bitmap, hint, pc, phys_buf, process_pml4, frame, vpage, level, table>>
    BY <1>5 DEF alloc, mapping
  <2>2. PoolTypes'
    BY <1>1, <2>1 DEF ProcInv, CtlInv, PoolTypes, Pool
  <2>3. CtlInv'
    BY <1>1, <2>1, <2>2 DEF ProcInv, CtlInv
  <2>4. PICK L : Held(L)
    BY DEF ProcInv
  <2>5. Held(L)'
    BY <1>1, <2>1, <2>4 DEF Held, Buffer, FileBuffer, Framed
  <2> QED BY <2>3, <2>5 DEF ProcInv
<1> QED BY <1>2, <1>3, <1>4, <1>5, <1>6

\* The index that vmm_map_page looks up at a level is one of the lower half.
LEMMA IndexAt ==
  ASSUME NEW v \in UserPages, NEW l \in 1..4
  PROVE  v[l] \in UserIndices
<1>1. v[1] \in UserIndices /\ v[2] \in UserIndices /\ v[3] \in UserIndices /\ v[4] \in UserIndices
  BY DEF UserPages
<1>2. l = 1 \/ l = 2 \/ l = 3 \/ l = 4
  OBVIOUS
<1> QED BY <1>1, <1>2

\* vmm_map_page goes one level down, through a table that is there or a new one.
LEMMA InvWalkTable == ASSUME ProcInv, WalkTable, ~zeroed' PROVE ProcInv'
<1>1. PICK L : Held(L)
  BY DEF ProcInv
<1>2. /\ pc = "map" /\ level < 4
      /\ UNCHANGED <<top, cr3, pc, prog, phys_buf, process_pml4, frame, vpage, abandoned>>
  BY DEF WalkTable
<1>3. process_pml4 # 0 /\ phys_buf # 0 /\ frame # 0 /\ cr3 \in {KernelPML4} \cup abandoned /\ level \in 1..4
  BY <1>2 DEF ProcInv, CtlInv, Buffered, Mapped, Mapping
<1>4. PoolTypes /\ top \in TopPages /\ mem[KernelPML4][KernelIndex] = KernelTable /\ mem[cr3][KernelIndex] = KernelTable
  BY DEF ProcInv, CtlInv
<1>5. TreeOK(mem, process_pml4, L) /\ table \in L[level - 1]
  BY <1>1, <1>2, <1>3 DEF Held
<1>6. PICK k : k = vpage[level]
  OBVIOUS
<1>7. k \in UserIndices /\ vpage \in UserPages
  BY <1>2, <1>3, <1>4, <1>6, IndexAt DEF PoolTypes
<1>8. Buffer' = Buffer /\ Framed' = Framed
  BY <1>2 DEF Buffer, FileBuffer, Framed
<1>9. PICK d : d = level - 1
  OBVIOUS
<1>10. d \in 0..3 /\ d < 3 /\ d + 1 = level /\ d \in Levels /\ d + 1 \in Levels
  BY <1>2, <1>3, <1>9 DEF Levels
<1>11. mem \in [0..top -> [Indices -> 0..top]] /\ top \in Nat /\ top > 2
  BY <1>4 DEF PoolTypes
<1>12. CASE mem[table][k] # 0 /\ table' = mem[table][k] /\ level' = level + 1 /\ UNCHANGED <<alloc, mem>>
  <2>1. UNCHANGED <<bitmap, hint, mem, pc>>
    BY <1>2, <1>12 DEF alloc
  <2>2. table' \in L[d + 1]
    BY <1>5, <1>7, <1>9, <1>10, <1>12 DEF TreeOK
  <2>3. table' \in TreePages(L)
    BY <1>10, <2>2, InTree
  <2>4. table' \in Pool
    <3>1. table' \in bitmap /\ table' \notin Reserved
      BY <1>1, <2>3 DEF Held, Apart
    <3>2. table' \in 0..(top - 1)
      BY <1>4, <3>1 DEF PoolTypes
    <3> QED BY <1>11, <3>1, <3>2 DEF Pool
  <2>5. PoolTypes'
    <3>1. {phys_buf', process_pml4', frame', table'} \subseteq {0} \cup Pool'
      BY <1>2, <1>4, <2>4 DEF PoolTypes, Pool
    <3>2. level' \in 0..4
      BY <1>2, <1>3, <1>12
    <3> QED BY <1>2, <1>4, <2>1, <3>1, <3>2 DEF PoolTypes
  <2>6. CtlInv'
    <3>1. level' \in 1..4
      BY <1>2, <1>3, <1>12
    <3> QED BY <1>2, <1>3, <1>4, <2>1, <2>5, <3>1 DEF CtlInv, Buffered, Mapped, Mapping
  <2>7. Held(L)'
    <3>1. table' \in L[level' - 1]
      <4>1. level' - 1 = d + 1
        BY <1>3, <1>10, <1>12
      <4> QED BY <2>2, <4>1
    <3> QED BY <1>1, <1>2, <1>3, <1>5, <1>8, <2>1, <3>1 DEF Held
  <2> QED BY <2>6, <2>7 DEF ProcInv
<1>13. CASE \E s \in Frames :
              /\ mem[table][k] = 0 /\ Alloc(s, 1) /\ table' = s /\ level' = level + 1 /\ pc' = pc
              /\ mem' = [mem EXCEPT ![s] = NewTable(s), ![table] = [@ EXCEPT ![k] = s]]
  <2>1. PICK s \in Frames :
              /\ mem[table][k] = 0 /\ Alloc(s, 1) /\ table' = s /\ level' = level + 1 /\ pc' = pc
              /\ mem' = [mem EXCEPT ![s] = NewTable(s), ![table] = [@ EXCEPT ![k] = s]]
    BY <1>13
  <2>23. s \in Pool
    BY <2>1, PoolAlloc
  <2>2. /\ bitmap' = bitmap \cup {s} /\ s \notin bitmap /\ hint' \in 0..top /\ s \in Nat \ {0}
        /\ s \in 0..(top - 1)
    BY <1>4, <2>1, AllocOne DEF PoolTypes
  <2>3. table \in TreePages(L) /\ table \in bitmap /\ table \in 0..(top - 1) /\ table # s
    <3>1. table \in TreePages(L)
      BY <1>5, <1>9, <1>10, InTree
    <3>2. table \in bitmap
      BY <1>1, <3>1 DEF Held
    <3> QED BY <1>4, <2>2, <3>1, <3>2 DEF PoolTypes
  <2>4. Empty \in [Indices -> 0..top] /\ \A l \in Indices : Empty[l] = 0
    BY <1>11 DEF Empty
  <2>5. PICK row : row = [mem[table] EXCEPT ![k] = s]
    OBVIOUS
  <2>6. /\ row \in [Indices -> 0..top]
        /\ \A l \in Indices : row[l] = IF l = k THEN s ELSE mem[table][l]
    <3>1. s \in 0..top /\ table \in 0..top
      BY <1>11, <2>2, <2>3
    <3>2. mem[table] \in [Indices -> 0..top]
      BY <1>11, <3>1
    <3> QED BY <1>7, <2>5, <3>1, <3>2
  <2>7. mem' = [mem EXCEPT ![s] = Empty, ![table] = row]
    BY <1>11, <2>1, <2>2, <2>3, <2>5 DEF NewTable
  <2>8. /\ mem' \in [0..top -> [Indices -> 0..top]]
        /\ mem'[s] = Empty /\ mem'[table] = row
        /\ \A x \in 0..(top - 1) : x # s /\ x # table => mem'[x] = mem[x]
    <3>1. s \in 0..top /\ table \in 0..top /\ 0..(top - 1) \subseteq 0..top
      BY <1>11, <2>2, <2>3
    <3> QED BY <1>11, <2>3, <2>4, <2>6, <2>7, <3>1
  <2>9. \A x \in 0..(top - 1) : x # s => mem'[x][KernelIndex] = mem[x][KernelIndex]
    BY <1>7, <2>6, <2>8
  <2>10. PoolTypes'
    <3>1. bitmap' \subseteq 0..(top' - 1) /\ hint' \in 0..top' /\ cr3' \in 0..(top' - 1)
      BY <1>2, <1>4, <2>2 DEF PoolTypes
    <3>2. {phys_buf', process_pml4', frame', table'} \subseteq {0} \cup Pool'
      BY <1>2, <1>4, <2>1, <2>23 DEF PoolTypes, Pool
    <3>3. prog' \in Programs /\ level' \in 0..4 /\ vpage' \in UserPages
      BY <1>2, <1>3, <1>4, <1>7, <2>1 DEF PoolTypes
    <3>4. pc' = "map"
      BY <1>2, <2>1
    <3> QED BY <1>2, <2>8, <3>1, <3>2, <3>3, <3>4 DEF PoolTypes
  <2>11. cr3 # s /\ KernelPML4 # s /\ cr3 \in 0..(top - 1) /\ KernelPML4 \in 0..(top - 1)
    BY <1>1, <1>3, <1>4, <1>11, <2>2 DEF Held, PoolTypes
  <2>12. CtlInv'
    <3>1. mem'[KernelPML4][KernelIndex] = KernelTable /\ mem'[cr3][KernelIndex] = KernelTable
      BY <1>4, <2>9, <2>11
    <3>2. level' \in 1..4
      BY <1>2, <1>3, <2>1
    <3> QED BY <1>2, <1>3, <1>4, <2>1, <2>10, <3>1, <3>2 DEF CtlInv, Buffered, Mapped, Mapping
  <2>13. PICK m : m = mem
    OBVIOUS
  <2>14. PICK m2 : m2 = mem'
    OBVIOUS
  <2>15. PICK r : r = process_pml4
    OBVIOUS
  <2>16. PICK p : p = table
    OBVIOUS
  <2>17. EntrySet(m, L, d, p, k, s, m2)
    <3>1. s \notin TreePages(L)
      BY <1>1, <2>2 DEF Held
    <3>2. ASSUME NEW x \in TreePages(L), NEW l \in Indices
          PROVE  m2[x][l] = IF x = p /\ l = k THEN s ELSE m[x][l]
      <4>1. x \in 0..(top - 1) /\ x # s
        BY <1>1, <1>4, <2>2 DEF Held, PoolTypes
      <4>2. CASE x = table
        BY <2>6, <2>8, <2>13, <2>14, <2>16, <4>2
      <4>3. CASE x # table
        BY <2>8, <2>13, <2>14, <2>16, <4>1, <4>3
      <4> QED BY <4>2, <4>3
    <3>3. \A l \in Indices : m2[s][l] = 0
      BY <2>4, <2>8, <2>14
    <3> QED BY <1>5, <1>7, <1>9, <1>10, <2>1, <2>2, <2>13, <2>16, <3>1, <3>2, <3>3 DEF EntrySet
  <2>18. PICK L2 : L2 = NewLevels(m, L, d, p, k, s)
    OBVIOUS
  <2>19. TreeOK(m2, r, L2) /\ TreePages(L2) = (TreePages(L) \ {m[p][k]}) \cup {s}
    BY <1>5, <2>13, <2>15, <2>17, <2>18, TreeGrows
  <2>20. TreePages(L2) = TreePages(L) \cup {s}
    <3>1. 0 \notin TreePages(L)
      BY <1>1 DEF Held, Apart
    <3> QED BY <2>1, <2>13, <2>16, <2>19, <3>1
  <2>21. table' \in L2[level' - 1]
    <3>1. L \in [Levels -> SUBSET (Nat \ {0})]
      BY <1>5 DEF TreeOK
    <3>2. s \in L2[d + 1]
      BY <1>10, <2>18, <3>1 DEF NewLevels
    <3>3. level' - 1 = d + 1
      BY <1>3, <1>10, <2>1
    <3> QED BY <2>1, <3>2, <3>3
  <2>22. Held(L2)'
    <3>1. bitmap' = Reserved \cup Buffer' \cup TreePages(L2) \cup Framed' \cup abandoned'
      BY <1>1, <1>2, <1>8, <2>2, <2>20 DEF Held
    <3>2. Apart(Buffer', TreePages(L2), Framed', abandoned')
      BY <1>1, <1>2, <1>8, <2>2, <2>20 DEF Held, Apart
    <3>3. TreeOK(mem', process_pml4', L2) /\ process_pml4' # 0
      BY <1>2, <1>3, <2>14, <2>15, <2>19
    <3> QED BY <2>21, <3>1, <3>2, <3>3 DEF Held
  <2> QED BY <2>12, <2>22 DEF ProcInv
<1> QED BY <1>2, <1>6, <1>12, <1>13 DEF WalkTable, HangTable

\* The page is mapped; the one that the entry referred to is abandoned.
LEMMA InvMapFrame == ASSUME ProcInv, MapFrame PROVE ProcInv'
<1>1. PICK L : Held(L)
  BY DEF ProcInv
<1>2. /\ pc = "map" /\ level = 4 /\ pc' \in {"enter", "segments"}
      /\ frame' = 0 /\ vpage' = StackPage /\ level' = 0 /\ table' = 0
      /\ UNCHANGED <<top, bitmap, hint, cr3, prog, phys_buf, process_pml4>>
  BY DEF MapFrame, alloc
<1>3. process_pml4 # 0 /\ phys_buf # 0 /\ frame # 0 /\ cr3 \in {KernelPML4} \cup abandoned
  BY <1>2 DEF ProcInv, CtlInv, Buffered, Mapped, Mapping
<1>4. PoolTypes /\ top \in TopPages /\ mem[KernelPML4][KernelIndex] = KernelTable /\ mem[cr3][KernelIndex] = KernelTable
  BY DEF ProcInv, CtlInv
<1>5. TreeOK(mem, process_pml4, L) /\ table \in L[3]
  <2>1. level - 1 = 3
    BY <1>2
  <2> QED BY <1>1, <1>2, <1>3, <2>1 DEF Held
<1>6. PICK k : k = vpage[4]
  OBVIOUS
<1>7. k \in UserIndices
  BY <1>2, <1>4, <1>6, IndexAt DEF PoolTypes
<1>8. PICK s : s = frame
  OBVIOUS
<1>9. PICK p : p = table
  OBVIOUS
<1>10. PICK m : m = mem
  OBVIOUS
<1>11. mem \in [0..top -> [Indices -> 0..top]] /\ top \in Nat /\ top > 2
  BY <1>4 DEF PoolTypes
<1>12. s \in bitmap /\ s \notin TreePages(L) /\ s \notin Buffer /\ s \notin abandoned /\ s \notin Reserved /\ Framed = {s}
  <2>1. Framed = {s}
    BY <1>3, <1>8 DEF Framed
  <2> QED BY <1>1, <2>1 DEF Held, Apart
<1>13. s \in Nat \ {0} /\ s \in 0..(top - 1)
  BY <1>4, <1>11, <1>12 DEF PoolTypes
<1>14. p \in TreePages(L) /\ p \in 0..(top - 1) /\ p # s
  <2>1. p \in TreePages(L)
    BY <1>5, <1>9, InTree DEF Levels
  <2>2. p \in bitmap
    BY <1>1, <2>1 DEF Held
  <2> QED BY <1>4, <1>12, <2>1, <2>2 DEF PoolTypes
<1>15. Garbage \in [Indices -> 0..top] /\ Garbage[KernelIndex] = KernelTable
  BY <1>11 DEF Garbage
<1>16. PICK row : row = [m[p] EXCEPT ![k] = s]
  OBVIOUS
<1>17. /\ row \in [Indices -> 0..top]
       /\ \A l \in Indices : row[l] = IF l = k THEN s ELSE m[p][l]
  <2>1. s \in 0..top /\ p \in 0..top
    BY <1>11, <1>13, <1>14
  <2>2. m[p] \in [Indices -> 0..top]
    BY <1>10, <1>11, <2>1
  <2> QED BY <1>7, <1>16, <2>1, <2>2
<1>18. mem' = [mem EXCEPT ![p] = row, ![s] = Garbage]
  BY <1>6, <1>8, <1>9, <1>10, <1>11, <1>14, <1>16 DEF MapFrame
<1>19. /\ mem' \in [0..top -> [Indices -> 0..top]]
       /\ mem'[s] = Garbage /\ mem'[p] = row
       /\ \A x \in 0..(top - 1) : x # s /\ x # p => mem'[x] = mem[x]
  <2>1. s \in 0..top /\ p \in 0..top /\ 0..(top - 1) \subseteq 0..top
    BY <1>11, <1>13, <1>14
  <2> QED BY <1>11, <1>14, <1>15, <1>17, <1>18, <2>1
<1>20. PICK m2 : m2 = mem'
  OBVIOUS
<1>21. PICK old : old = m[p][k]
  OBVIOUS
<1>22. abandoned' = abandoned \cup ({old} \ {0}) /\ (old = 0 \/ old \in TreePages(L))
  <2>1. abandoned' = abandoned \cup ({old} \ {0})
    BY <1>6, <1>9, <1>10, <1>21 DEF MapFrame
  <2>2. old = 0 \/ old \in L[4]
    BY <1>5, <1>7, <1>9, <1>10, <1>21, LevelByLevel
  <2> QED BY <2>1, <2>2, InTree DEF Levels
<1>23. EntrySet(m, L, 3, p, k, s, m2)
  <2>1. ASSUME NEW x \in TreePages(L), NEW l \in Indices
        PROVE  m2[x][l] = IF x = p /\ l = k THEN s ELSE m[x][l]
    <3>1. x \in 0..(top - 1) /\ x # s
      BY <1>1, <1>4, <1>12 DEF Held, PoolTypes
    <3>2. CASE x = p
      BY <1>17, <1>19, <1>20, <3>2
    <3>3. CASE x # p
      BY <1>10, <1>19, <1>20, <3>1, <3>3
    <3> QED BY <3>2, <3>3
  <2> QED BY <1>5, <1>7, <1>9, <1>12, <1>13, <2>1 DEF EntrySet
<1>24. PICK r : r = process_pml4
  OBVIOUS
<1>25. PICK L2 : L2 = NewLevels(m, L, 3, p, k, s)
  OBVIOUS
<1>26. TreeOK(m2, r, L2) /\ TreePages(L2) = (TreePages(L) \ {old}) \cup {s}
  BY <1>5, <1>10, <1>21, <1>23, <1>24, <1>25, TreeGrows
<1>27. PoolTypes'
  <2>1. bitmap' \subseteq 0..(top' - 1) /\ hint' \in 0..top' /\ cr3' \in 0..(top' - 1)
    BY <1>2, <1>4 DEF PoolTypes
  <2>2. {phys_buf', process_pml4', frame', table'} \subseteq {0} \cup Pool'
    BY <1>2, <1>4 DEF PoolTypes, Pool
  <2>3. prog' \in Programs /\ level' \in 0..4 /\ vpage' \in UserPages
    BY <1>2, <1>4 DEF PoolTypes
  <2> QED BY <1>2, <1>19, <2>1, <2>2, <2>3 DEF PoolTypes
<1>28. CtlInv'
  <2>1. cr3 # s /\ KernelPML4 # s /\ cr3 \in 0..(top - 1) /\ KernelPML4 \in 0..(top - 1)
    BY <1>3, <1>4, <1>11, <1>12 DEF PoolTypes
  <2>2. \A x \in 0..(top - 1) : x # s => mem'[x][KernelIndex] = mem[x][KernelIndex]
    BY <1>7, <1>10, <1>17, <1>19
  <2>3. mem'[KernelPML4][KernelIndex] = KernelTable /\ mem'[cr3][KernelIndex] = KernelTable
    BY <1>4, <2>1, <2>2
  <2>4. cr3' \in {KernelPML4} \cup abandoned'
    BY <1>2, <1>3, <1>22
  <2> QED BY <1>2, <1>3, <1>4, <1>27, <2>3, <2>4 DEF CtlInv, Buffered, Mapped, Mapping
<1>29. Buffer' = Buffer /\ Framed' = {}
  BY <1>2 DEF Buffer, FileBuffer, Framed
<1>30. Held(L2)'
  <2>1. bitmap' = Reserved \cup Buffer' \cup TreePages(L2) \cup Framed' \cup abandoned'
    BY <1>1, <1>2, <1>12, <1>22, <1>26, <1>29 DEF Held
  <2>2. Apart(Buffer', TreePages(L2), Framed', abandoned')
    BY <1>1, <1>12, <1>22, <1>26, <1>29 DEF Held, Apart
  <2>3. TreeOK(mem', process_pml4', L2) /\ process_pml4' # 0
    BY <1>2, <1>3, <1>20, <1>24, <1>26
  <2> QED BY <1>2, <2>1, <2>2, <2>3 DEF Held
<1> QED BY <1>28, <1>30 DEF ProcInv

\* The program is entered: its buffer is freed.
LEMMA InvEnterProgram == ASSUME ProcInv, EnterProgram PROVE ProcInv'
<1>1. PICK L : Held(L)
  BY DEF ProcInv
<1>2. /\ pc = "enter" /\ pc' = "user" /\ bitmap' = bitmap \ FileBuffer /\ phys_buf' = 0 /\ cr3' = process_pml4
      /\ UNCHANGED <<top, hint, mem, prog, process_pml4, frame, vpage, level, table, abandoned>>
  BY DEF EnterProgram, mapping
<1>3. process_pml4 # 0 /\ phys_buf # 0 /\ frame = 0
  BY <1>2 DEF ProcInv, CtlInv, Buffered, Mapped, Mapping
<1>4. PoolTypes /\ top \in TopPages /\ mem[KernelPML4][KernelIndex] = KernelTable
  BY DEF ProcInv, CtlInv
<1>5. TreeOK(mem, process_pml4, L)
  BY <1>1, <1>3 DEF Held
<1>6. Buffer = FileBuffer /\ Buffer' = {} /\ Framed = {} /\ Framed' = {}
  BY <1>2, <1>3 DEF Buffer, Framed
<1>7. PoolTypes'
  <2>1. bitmap' \subseteq 0..(top' - 1) /\ hint' \in 0..top' /\ mem' \in [0..top' -> [Indices -> 0..top']]
    BY <1>2, <1>4 DEF PoolTypes
  <2>2. {phys_buf', process_pml4', frame', table'} \subseteq {0} \cup Pool'
    BY <1>2, <1>4 DEF PoolTypes, Pool
  <2>3. prog' \in Programs /\ level' \in 0..4 /\ vpage' \in UserPages
    BY <1>2, <1>4 DEF PoolTypes
  <2>4. cr3' \in 0..(top' - 1)
    BY <1>2, <1>3, <1>4 DEF PoolTypes, Pool
  <2> QED BY <1>2, <2>1, <2>2, <2>3, <2>4 DEF PoolTypes
<1>8. mem[process_pml4][KernelIndex] = KernelTable
  BY <1>5 DEF TreeOK
<1>9. CtlInv'
  BY <1>2, <1>3, <1>4, <1>7, <1>8 DEF CtlInv, Buffered, Mapped, Mapping
<1>10. Held(L)'
  <2>1. bitmap' = Reserved \cup Buffer' \cup TreePages(L) \cup Framed' \cup abandoned'
    BY <1>1, <1>2, <1>6 DEF Held, Apart
  <2>2. Apart(Buffer', TreePages(L), Framed', abandoned')
    BY <1>1, <1>2, <1>6 DEF Held, Apart
  <2> QED BY <1>2, <1>3, <1>5, <2>1, <2>2 DEF Held
<1> QED BY <1>9, <1>10 DEF ProcInv

\* Syscall 60 switches to the kernel's map before it frees the program's.
LEMMA InvSysExit == ASSUME ProcInv, SysExit PROVE ProcInv'
<1>1. PICK L : Held(L)
  BY DEF ProcInv
<1>2. /\ pc = "user" /\ pc' = "exit" /\ process_pml4' = cr3 /\ cr3' = KernelPML4
      /\ UNCHANGED <<top, bitmap, hint, mem, prog, phys_buf, frame, vpage, level, table, abandoned>>
  BY DEF SysExit, mapping, alloc
<1>3. process_pml4 # 0 /\ phys_buf = 0 /\ frame = 0 /\ cr3 = process_pml4
  BY <1>2 DEF ProcInv, CtlInv, Buffered, Mapped, Mapping
<1>4. PoolTypes /\ top \in TopPages /\ mem[KernelPML4][KernelIndex] = KernelTable
  BY DEF ProcInv, CtlInv
<1>5. PoolTypes'
  <2>1. KernelPML4 \in 0..(top - 1)
    BY <1>4
  <2> QED BY <1>2, <1>3, <1>4, <2>1 DEF PoolTypes, Pool
<1>6. CtlInv'
  BY <1>2, <1>3, <1>4, <1>5 DEF CtlInv, Buffered, Mapped, Mapping
<1>7. Held(L)'
  BY <1>1, <1>2, <1>3 DEF Held, Buffer, FileBuffer, Framed
<1> QED BY <1>6, <1>7 DEF ProcInv

\* The program's pages, freed or abandoned, are those of its tree.
LEMMA InvExitFree == ASSUME ProcInv, ExitFree PROVE ProcInv'
<1>1. PICK L : Held(L)
  BY DEF ProcInv
<1>2. /\ pc = "exit" /\ bitmap' = bitmap \ MapPages(process_pml4) /\ ToShell
      /\ UNCHANGED <<top, hint, mem, cr3, prog, abandoned>>
  <2>1. pc = "exit" /\ process_pml4 # 0
    BY DEF ExitFree, ProcInv, CtlInv, Mapped
  <2> QED BY <2>1, FreesTheMap DEF ExitFree
<1>3. process_pml4 # 0 /\ phys_buf = 0 /\ frame = 0 /\ cr3 \in {KernelPML4} \cup abandoned
  BY <1>2 DEF ProcInv, CtlInv, Buffered, Mapped, Mapping
<1>4. Buffer = {} /\ Framed = {} /\ MapPages(process_pml4) = TreePages(L)
  BY <1>1, <1>3, MapIsTree DEF Buffer, Framed, Held
<1>5. bitmap' = Reserved \cup abandoned /\ Reserved \cap abandoned = {}
  BY <1>1, <1>2, <1>4 DEF Held, Apart
<1>6. bitmap' \subseteq 0..(top - 1)
  BY <1>2 DEF ProcInv, CtlInv, PoolTypes
<1> QED BY <1>2, <1>3, <1>5, <1>6, BackInShell

\* A fault abandons them, and CR3 still refers to one.
LEMMA InvFault == ASSUME ProcInv, Fault PROVE ProcInv'
<1>1. PICK L : Held(L)
  BY DEF ProcInv
<1>2. /\ pc = "user" /\ abandoned' = abandoned \cup MapPages(cr3) /\ ToShell
      /\ UNCHANGED <<top, bitmap, hint, mem, cr3, prog>>
  BY DEF Fault, alloc
<1>3. process_pml4 # 0 /\ phys_buf = 0 /\ frame = 0 /\ cr3 = process_pml4
  BY <1>2 DEF ProcInv, CtlInv, Buffered, Mapped, Mapping
<1>4. Buffer = {} /\ Framed = {} /\ MapPages(cr3) = TreePages(L) /\ TreeOK(mem, cr3, L)
  BY <1>1, <1>3, MapIsTree DEF Buffer, Framed, Held
<1>5. bitmap' = Reserved \cup abandoned' /\ Reserved \cap abandoned' = {}
  BY <1>1, <1>2, <1>4 DEF Held, Apart
<1>6. cr3 \in abandoned'
  <2>1. cr3 \in L[0] /\ 0 \in Levels
    BY <1>4 DEF TreeOK, Levels
  <2> QED BY <1>2, <1>4, <2>1, InTree
<1>7. bitmap' \subseteq 0..(top - 1)
  BY <1>2 DEF ProcInv, CtlInv, PoolTypes
<1> QED BY <1>2, <1>5, <1>6, <1>7, BackInShell

\* At boot the kernel's pages are the only busy ones.
LEMMA InvInit == ASSUME Init PROVE ProcInv
<1>1. /\ top \in TopPages /\ bitmap = Reserved /\ hint = 0 /\ cr3 = KernelPML4 /\ pc = "shell"
      /\ phys_buf = 0 /\ process_pml4 = 0 /\ frame = 0 /\ vpage = StackPage /\ level = 0 /\ table = 0
      /\ abandoned = {} /\ prog = CHOOSE p \in Programs : TRUE
  BY DEF Init
<1>2. top \in Nat /\ top > 2
  BY <1>1
<1>3. prog \in Programs
  BY <1>1
<1>4. Empty \in [Indices -> 0..top] /\ Garbage \in [Indices -> 0..top]
  BY <1>2 DEF Empty, Garbage
<1>5. PICK row : row = [Empty EXCEPT ![KernelIndex] = KernelTable]
  OBVIOUS
<1>6. row \in [Indices -> 0..top] /\ row[KernelIndex] = KernelTable
  BY <1>2, <1>5 DEF Empty
<1>7. mem = [p \in 0..top |-> IF p = KernelPML4 THEN row ELSE Garbage]
  BY <1>5 DEF Init
<1>8. mem \in [0..top -> [Indices -> 0..top]] /\ mem[KernelPML4] = row
  BY <1>2, <1>4, <1>6, <1>7
<1>9. PoolTypes
  <2>1. bitmap \subseteq 0..(top - 1) /\ hint \in 0..top /\ cr3 \in 0..(top - 1)
    BY <1>1, <1>2
  <2>2. {phys_buf, process_pml4, frame, table} \subseteq {0} \cup Pool /\ level \in 0..4 /\ vpage \in UserPages
    BY <1>1
  <2> QED BY <1>1, <1>3, <1>8, <2>1, <2>2 DEF PoolTypes
<1>10. CtlInv
  BY <1>1, <1>6, <1>8, <1>9 DEF CtlInv, Buffered, Mapped, Mapping
<1>11. PICK L : TreePages(L) = {}
  BY NoTree
<1>12. Buffer = {} /\ Framed = {}
  BY <1>1 DEF Buffer, Framed
<1>13. Held(L)
  BY <1>1, <1>11, <1>12 DEF Held, Apart
<1> QED BY <1>10, <1>13 DEF ProcInv

\* That page 0 became a table is not forgotten.
LEMMA StaysZeroed == ASSUME [Next]_vars, zeroed PROVE zeroed'
BY DEF Next, vars, Exec, CheckHeader, NewPagemap, LoadPage, LoadStack, WalkTable, MapFrame, EnterProgram, SysExit,
       ExitFree, Fault

\* The invariant holds in every state in which it was not.
LEMMA ProcAlways == Spec => [](~zeroed => ProcInv)
<1>1. Init => ProcInv
  BY InvInit
<1>2. (~zeroed => ProcInv) /\ [Next]_vars => (~zeroed => ProcInv)'
  <2> SUFFICES ASSUME ~zeroed => ProcInv, [Next]_vars, ~zeroed' PROVE ProcInv'
    OBVIOUS
  <2>12. ProcInv
    BY StaysZeroed
  <2>1. CASE UNCHANGED vars
    <3>1. /\ UNCHANGED <<top, bitmap, hint, mem, cr3, pc, prog, phys_buf, process_pml4, frame, vpage>>
          /\ UNCHANGED <<level, table, abandoned>>
      BY <2>1 DEF vars, alloc, mapping
    <3>2. PICK L : Held(L)
      BY <2>12 DEF ProcInv
    <3>3. Held(L)'
      BY <3>1, <3>2 DEF Held, Buffer, FileBuffer, Framed
    <3>4. PoolTypes'
      BY <2>12, <3>1 DEF ProcInv, CtlInv, PoolTypes, Pool
    <3>5. CtlInv'
      BY <2>12, <3>1, <3>4 DEF ProcInv, CtlInv
    <3> QED BY <3>3, <3>5 DEF ProcInv
  <2>2. CASE \E p \in Programs : Exec(p)
    BY <2>12, <2>2, InvExec
  <2>3. CASE CheckHeader
    BY <2>12, <2>3, InvCheckHeader
  <2>4. CASE NewPagemap
    BY <2>12, <2>4, InvNewPagemap
  <2>5. CASE LoadPage \/ LoadStack
    BY <2>12, <2>5, InvLoad
  <2>6. CASE WalkTable
    BY <2>12, <2>6, InvWalkTable
  <2>7. CASE MapFrame
    BY <2>12, <2>7, InvMapFrame
  <2>8. CASE EnterProgram
    BY <2>12, <2>8, InvEnterProgram
  <2>9. CASE SysExit
    BY <2>12, <2>9, InvSysExit
  <2>10. CASE ExitFree
    BY <2>12, <2>10, InvExitFree
  <2>11. CASE Fault
    BY <2>12, <2>11, InvFault
  <2> QED BY <2>1, <2>2, <2>3, <2>4, <2>5, <2>6, <2>7, <2>8, <2>9, <2>10, <2>11 DEF Next
<1> QED BY <1>1, <1>2, PTL DEF Spec

-----------------------------------------------------------------------------
(* The types, which are kept also when page 0 is a page table.             *)

TypeInv ==
  /\ TypeOK /\ top \in TopPages
  /\ pc \in Mapped => process_pml4 # 0
  /\ pc = "map" => level \in 1..4

\* What is to show of a step.
LEMMA TypesKept ==
  ASSUME top' \in TopPages, bitmap' \subseteq 0..(top' - 1), hint' \in 0..top',
         mem' \in [0..top' -> [Indices -> 0..top']], cr3' \in 1..(top' - 1), prog' \in Programs,
         pc' \in {"shell", "check", "pagemap", "segments", "map", "kernel_half", "enter", "user", "exit"},
         phys_buf' \in 0..(top' - 1), process_pml4' \in 0..(top' - 1), frame' \in 0..(top' - 1), table' \in 0..top',
         pc' # "kernel_half" => vpage' \in UserPages, level' \in 0..4,
         pc' \in Mapped => process_pml4' # 0, pc' = "map" => level' \in 1..4
  PROVE  TypeInv'
<1>1. {phys_buf', process_pml4', frame'} \subseteq 0..(top' - 1)
  OBVIOUS
<1> QED BY <1>1 DEF TypeInv, TypeOK, Frames

\* Where process_exec ends.
LEMMA TypesInShell ==
  ASSUME TypeInv, ToShell, UNCHANGED <<top, mem, cr3, prog>>, bitmap' \subseteq 0..(top - 1), hint' \in 0..top
  PROVE  TypeInv'
<1>1. /\ pc' = "shell" /\ phys_buf' = 0 /\ process_pml4' = 0 /\ frame' = 0 /\ vpage' = StackPage
      /\ level' = 0 /\ table' = 0
  BY DEF ToShell
<1>2. top \in Nat /\ top > 2
  BY DEF TypeInv
<1>3. 0 \in 0..(top - 1) /\ 0 \in 0..top /\ 0 \in 0..4
  BY <1>2
<1>4. cr3 \in 1..(top - 1) /\ mem \in [0..top -> [Indices -> 0..top]] /\ prog \in Programs /\ top \in TopPages
  BY DEF TypeInv, TypeOK, Frames
<1> QED BY <1>1, <1>3, <1>4, TypesKept DEF Mapped

\* Where a page table is written.
LEMMA TableTyped ==
  ASSUME NEW w \in Nat, NEW m \in [0..w -> [Indices -> 0..w]], NEW t \in 0..w, NEW k \in Indices, NEW s \in 0..w,
         NEW row \in [Indices -> 0..w]
  PROVE  /\ [m EXCEPT ![s] = row, ![t] = [@ EXCEPT ![k] = s]] \in [0..w -> [Indices -> 0..w]]
         /\ [m EXCEPT ![t] = [@ EXCEPT ![k] = s], ![s] = row] \in [0..w -> [Indices -> 0..w]]
<1>1. PICK m1 \in [0..w -> [Indices -> 0..w]] : m1 = [m EXCEPT ![s] = row]
  OBVIOUS
<1>2. [m1[t] EXCEPT ![k] = s] \in [Indices -> 0..w] /\ [m[t] EXCEPT ![k] = s] \in [Indices -> 0..w]
  OBVIOUS
<1>3. [m1 EXCEPT ![t] = [m1[t] EXCEPT ![k] = s]] \in [0..w -> [Indices -> 0..w]]
  BY <1>2
<1>4. [m EXCEPT ![t] = [m[t] EXCEPT ![k] = s]] \in [0..w -> [Indices -> 0..w]]
  BY <1>2
<1> QED BY <1>1, <1>3, <1>4

LEMMA TypesNext == ASSUME TypeInv, [Next]_vars PROVE TypeInv'
<1>1. /\ top \in Nat /\ top > 2 /\ top \in TopPages /\ bitmap \subseteq 0..(top - 1) /\ hint \in 0..top
      /\ mem \in [0..top -> [Indices -> 0..top]] /\ cr3 \in 1..(top - 1) /\ prog \in Programs
      /\ phys_buf \in 0..(top - 1) /\ process_pml4 \in 0..(top - 1) /\ frame \in 0..(top - 1) /\ table \in 0..top
      /\ level \in 0..4 /\ (pc # "kernel_half" => vpage \in UserPages)
      /\ pc \in Mapped => process_pml4 # 0
      /\ pc = "map" => level \in 1..4
  BY DEF TypeInv, TypeOK, Frames
<1>2. ASSUME NEW s \in Frames, NEW n \in Nat \ {0}, Alloc(s, n)
      PROVE  bitmap' \subseteq 0..(top - 1) /\ hint' \in 0..top
  BY <1>1, <1>2, AllocGives
<1>3. ASSUME NEW n \in Nat \ {0}, NEW a \in NullAlloc(n) PROVE a.busy \subseteq 0..(top - 1) /\ a.hint \in 0..top
  BY <1>1, <1>3, NullGives
<1>4. Empty \in [Indices -> 0..top] /\ Garbage \in [Indices -> 0..top]
  BY <1>1 DEF Empty, Garbage
<1>5. CASE UNCHANGED vars
  BY <1>1, <1>5 DEF TypeInv, TypeOK, vars, alloc, mapping, Frames
<1>6. ASSUME NEW p \in Programs, Exec(p) PROVE TypeInv'
  <2>1. /\ pc = "shell" /\ prog' = p /\ UNCHANGED <<top, mem, cr3, process_pml4, frame, vpage, level, table>>
        /\ pc' \in {"shell", "check"} /\ p.file_pages \in Nat
    BY <1>6 DEF Exec, mapping
  <2>2. bitmap' \subseteq 0..(top - 1) /\ hint' \in 0..top /\ phys_buf' \in 0..(top - 1)
    <3>1. CASE p.file_pages > 0
      <4>1. p.file_pages \in Nat \ {0}
        BY <2>1, <3>1
      <4>2. CASE \E s \in Frames : Alloc(s, p.file_pages) /\ phys_buf' = s
        BY <1>1, <1>2, <4>1, <4>2 DEF Frames
      <4>3. CASE phys_buf' = phys_buf /\ \E a \in NullAlloc(p.file_pages) : bitmap' = a.busy /\ hint' = a.hint
        BY <1>1, <1>3, <4>1, <4>3
      <4> QED BY <1>6, <3>1, <4>1, <4>2, <4>3 DEF Exec
    <3>2. CASE ~(p.file_pages > 0)
      BY <1>1, <1>6, <3>2 DEF Exec, alloc
    <3> QED BY <3>1, <3>2
  <2> QED BY <1>1, <2>1, <2>2 DEF TypeInv, TypeOK, Frames, Mapped
<1>7. CASE CheckHeader
  <2>1. CASE ToShell /\ bitmap' = bitmap \ FileBuffer
    BY <1>1, <1>7, <2>1, TypesInShell DEF CheckHeader
  <2>2. CASE pc' = "pagemap" /\ UNCHANGED <<bitmap, phys_buf, process_pml4, seg, j, mapping>>
    BY <1>1, <1>7, <2>2 DEF CheckHeader, TypeInv, TypeOK, mapping, Frames, Mapped
  <2> QED BY <1>7, <2>1, <2>2 DEF CheckHeader
<1>8. CASE NewPagemap
  <2>1. pc = "pagemap" /\ UNCHANGED <<top, cr3, prog>>
    BY <1>8 DEF NewPagemap
  <2>2. CASE ToShell /\ mem' = mem /\ \E a \in NullAlloc(1) : bitmap' = a.busy \ FileBuffer /\ hint' = a.hint
    <3>1. bitmap' \subseteq 0..(top - 1) /\ hint' \in 0..top
      BY <1>3, <2>2
    <3> QED BY <2>1, <2>2, <3>1, TypesInShell
  <2>3. CASE /\ pc' = "segments" /\ UNCHANGED <<phys_buf, mapping>>
             /\ \E s \in Frames :
                  /\ Alloc(s, 1) /\ process_pml4' = s
                  /\ mem' = [mem EXCEPT ![s] = [Empty EXCEPT ![KernelIndex] = mem[KernelPML4][KernelIndex]]]
    <3>1. PICK s \in Frames :
                  /\ Alloc(s, 1) /\ process_pml4' = s
                  /\ mem' = [mem EXCEPT ![s] = [Empty EXCEPT ![KernelIndex] = mem[KernelPML4][KernelIndex]]]
      BY <2>3
    <3>2. bitmap' \subseteq 0..(top - 1) /\ hint' \in 0..top /\ s \in 0..(top - 1) /\ s # 0
      BY <1>1, <1>2, <3>1 DEF Frames
    <3>3. [Empty EXCEPT ![KernelIndex] = mem[KernelPML4][KernelIndex]] \in [Indices -> 0..top]
      BY <1>1, <1>4
    <3>4. mem' \in [0..top -> [Indices -> 0..top]]
      BY <1>1, <3>1, <3>3
    <3>5. UNCHANGED <<phys_buf, frame, vpage, level, table>> /\ pc' = "segments" /\ vpage \in UserPages
      BY <1>1, <2>1, <2>3 DEF mapping
    <3> QED BY <1>1, <2>1, <3>1, <3>2, <3>4, <3>5 DEF TypeInv, TypeOK, Frames
  <2> QED BY <1>8, <2>2, <2>3 DEF NewPagemap
<1>9. CASE LoadPage \/ LoadStack
  <2>1. pc = "segments" /\ UNCHANGED <<top, mem, cr3, prog>> /\ process_pml4 # 0 /\ vpage \in UserPages
    BY <1>1, <1>9 DEF LoadPage, LoadStack, Mapped
  <2>2. CASE GiveUp(bitmap) /\ hint' = hint
    <3>1. bitmap' \subseteq 0..(top - 1) /\ hint' \in 0..top
      BY <1>1, <2>2 DEF GiveUp
    <3> QED BY <2>1, <2>2, <3>1, TypesInShell DEF GiveUp
  <2>3. CASE \E a \in NullAlloc(1) : GiveUp(a.busy) /\ hint' = a.hint
    <3>1. bitmap' \subseteq 0..(top - 1) /\ hint' \in 0..top
      BY <1>3, <2>3 DEF GiveUp
    <3> QED BY <2>1, <2>3, <3>1, TypesInShell DEF GiveUp
  <2>4. CASE \E s \in Frames : \E v : StartMapping(s, v)
    <3>0. PICK s \in Frames : \E v : StartMapping(s, v)
      BY <2>4
    <3>1. PICK v : StartMapping(s, v)
      BY <3>0
    <3>2. bitmap' \subseteq 0..(top - 1) /\ hint' \in 0..top
      BY <1>2, <3>1 DEF StartMapping
    <3>3. /\ frame' = s /\ vpage' = v /\ level' = 1 /\ table' = process_pml4 /\ UNCHANGED <<phys_buf, process_pml4>>
          /\ pc' \in {"map", "kernel_half"} /\ (pc' # "kernel_half" => v \in UserPages)
      BY <3>1 DEF StartMapping
    <3>4. frame' \in 0..(top - 1) /\ table' \in 0..top
      BY <1>1, <3>3 DEF Frames
    <3>5. level' \in 0..4 /\ level' \in 1..4
      BY <3>3
    <3>6. process_pml4' # 0 /\ process_pml4' \in 0..(top - 1) /\ phys_buf' \in 0..(top - 1)
      BY <1>1, <2>1, <3>3
    <3> QED BY <1>1, <2>1, <3>2, <3>3, <3>4, <3>5, <3>6, TypesKept
  <2>5. CASE UNCHANGED <<alloc, pc, phys_buf, process_pml4, mapping>>
    BY <1>1, <2>1, <2>5 DEF TypeInv, TypeOK, Frames, alloc, mapping
  <2> QED BY <1>9, <2>2, <2>3, <2>4, <2>5 DEF LoadPage, LoadStack
<1>10. CASE WalkTable
  <2>1. pc = "map" /\ level < 4 /\ UNCHANGED <<top, cr3, pc, prog, phys_buf, process_pml4, frame, vpage>>
    BY <1>10 DEF WalkTable
  <2>2. level \in 1..4 /\ level + 1 \in 1..4 /\ vpage \in UserPages /\ process_pml4 # 0
    BY <1>1, <2>1 DEF Mapped
  <2>3. PICK k : k = vpage[level]
    OBVIOUS
  <2>4. k \in Indices /\ k \in UserIndices
    BY <2>2, <2>3, IndexAt
  <2>5. /\ bitmap' \subseteq 0..(top - 1) /\ hint' \in 0..top
        /\ mem' \in [0..top -> [Indices -> 0..top]] /\ table' \in 0..top /\ level' = level + 1
    <3>1. CASE table' = mem[table][k] /\ level' = level + 1 /\ UNCHANGED <<alloc, mem>>
      BY <1>1, <2>4, <3>1 DEF alloc
    <3>2. ASSUME NEW s \in 0..top, HangTable(s)
          PROVE  mem' \in [0..top -> [Indices -> 0..top]] /\ table' \in 0..top /\ level' = level + 1
      <4>1. mem' = [mem EXCEPT ![s] = Empty, ![table] = [@ EXCEPT ![k] = s]] /\ table' = s /\ level' = level + 1
        BY <2>3, <3>2 DEF HangTable, NewTable
      <4> QED BY <1>1, <1>4, <2>4, <4>1, TableTyped
    <3>3. CASE \E s \in Frames : Alloc(s, 1) /\ HangTable(s)
      <4>1. PICK s \in Frames : Alloc(s, 1) /\ HangTable(s)
        BY <3>3
      <4>2. s \in 0..top
        BY <1>1 DEF Frames
      <4>3. 1 \in Nat \ {0}
        OBVIOUS
      <4> QED BY <1>2, <3>2, <4>1, <4>2, <4>3
    <3>4. CASE HangTable(Zero) /\ \E a \in NullAlloc(1) : bitmap' = a.busy /\ hint' = a.hint
      <4>1. Zero \in 0..top
        BY <1>1 DEF Zero
      <4>2. bitmap' \subseteq 0..(top - 1) /\ hint' \in 0..top
        BY <1>3, <3>4
      <4> QED BY <3>2, <3>4, <4>1, <4>2
    <3> QED BY <1>10, <2>3, <3>1, <3>3, <3>4 DEF WalkTable
  <2>6. level' \in 0..4 /\ level' \in 1..4
    BY <2>2, <2>5
  <2> QED BY <1>1, <2>1, <2>2, <2>5, <2>6, TypesKept
<1>11. CASE MapFrame
  <2>1. /\ pc = "map" /\ pc' \in {"enter", "segments"} /\ frame' = 0 /\ vpage' = StackPage /\ level' = 0 /\ table' = 0
        /\ UNCHANGED <<top, bitmap, hint, cr3, prog, phys_buf, process_pml4>>
        /\ mem' = [mem EXCEPT ![table] = [@ EXCEPT ![vpage[4]] = frame], ![frame] = Garbage]
    BY <1>11 DEF MapFrame, alloc
  <2>2. process_pml4 # 0 /\ vpage \in UserPages
    BY <1>1, <2>1 DEF Mapped
  <2>3. PICK k \in Indices : k = vpage[4]
    BY <2>2, IndexAt
  <2>4. mem' \in [0..top -> [Indices -> 0..top]]
    <3>1. frame \in 0..top
      BY <1>1
    <3> QED BY <1>1, <1>4, <2>1, <2>3, <3>1, TableTyped
  <2>5. level' \in 0..4 /\ frame' \in 0..(top - 1) /\ table' \in 0..top /\ vpage' \in UserPages
    BY <1>1, <2>1
  <2> QED BY <1>1, <2>1, <2>2, <2>4, <2>5, TypesKept
<1>12. CASE EnterProgram
  <2>1. /\ pc = "enter" /\ pc' = "user" /\ bitmap' = bitmap \ FileBuffer /\ phys_buf' = 0 /\ cr3' = process_pml4
        /\ UNCHANGED <<top, hint, mem, prog, process_pml4, frame, vpage, level, table>>
    BY <1>12 DEF EnterProgram, mapping
  <2>2. process_pml4 # 0 /\ cr3' \in 1..(top - 1) /\ 0 \in 0..(top - 1)
    BY <1>1, <2>1 DEF Mapped
  <2>3. bitmap' \subseteq 0..(top - 1)
    BY <1>1, <2>1
  <2> QED BY <1>1, <2>1, <2>2, <2>3, TypesKept
<1>13. CASE SysExit
  <2>1. /\ pc = "user" /\ pc' = "exit" /\ process_pml4' = cr3 /\ cr3' = KernelPML4
        /\ UNCHANGED <<top, bitmap, hint, mem, prog, phys_buf, frame, vpage, level, table>>
    BY <1>13 DEF SysExit, mapping, alloc
  <2>2. process_pml4' \in 0..(top - 1) /\ process_pml4' # 0 /\ cr3' \in 1..(top - 1)
    BY <1>1, <2>1
  <2> QED BY <1>1, <2>1, <2>2, TypesKept
<1>14. CASE ExitFree
  <2>1. bitmap' \subseteq 0..(top - 1) /\ hint' \in 0..top
    BY <1>1, <1>14 DEF ExitFree
  <2> QED BY <1>14, <2>1, TypesInShell DEF ExitFree
<1>15. CASE Fault
  BY <1>1, <1>15, TypesInShell DEF Fault, alloc
<1> QED BY <1>5, <1>6, <1>7, <1>8, <1>9, <1>10, <1>11, <1>12, <1>13, <1>14, <1>15 DEF Next

LEMMA TypesAlways == Spec => []TypeOK
<1>1. Init => TypeInv
  <2> SUFFICES ASSUME Init PROVE TypeInv
    OBVIOUS
  <2>1. PoolTypes /\ top \in TopPages /\ pc = "shell" /\ cr3 = KernelPML4
    BY InvInit DEF Init, ProcInv, CtlInv
  <2>2. cr3 \in Frames /\ Pool \subseteq 0..(top - 1) /\ top \in Nat /\ 0 \in 0..(top - 1)
    BY <2>1 DEF Frames, Pool
  <2>4. {phys_buf, process_pml4, frame} \subseteq 0..(top - 1) /\ table \in 0..top
    <3>1. phys_buf = 0 /\ process_pml4 = 0 /\ frame = 0 /\ table = 0
      BY DEF Init
    <3> QED BY <2>2, <3>1
  <2>3. TypeOK
    BY <2>1, <2>2, <2>4 DEF TypeOK, PoolTypes
  <2> QED BY <2>1, <2>3 DEF TypeInv, Mapped
<1>2. TypeInv /\ [Next]_vars => TypeInv'
  BY TypesNext
<1>3. TypeInv => TypeOK
  BY DEF TypeInv
<1> QED BY <1>1, <1>2, <1>3, PTL DEF Spec

-----------------------------------------------------------------------------
(* The theorems. *)

\* Every busy page is the kernel's, in the file buffer, in the page map, the
\* page to be mapped next, or abandoned, at every step of process_exec and of
\* both ways out of a program, also where an allocation that is checked fails,
\* until the allocation of a page table fails, which is not; and then the types
\* are still kept.
THEOREM ProcessAccountsForPages == Spec => []PagesAccounted
<1>1. TypeOK /\ (~zeroed => ProcInv) => PagesAccounted
  <2> SUFFICES ASSUME TypeOK, ProcInv PROVE bitmap = Reserved \cup InUse \cup abandoned
    BY DEF PagesAccounted
  <2>1. PICK L : Held(L)
    BY DEF ProcInv
  <2>3. TreePages(L) = IF process_pml4 = 0 THEN {} ELSE MapPages(process_pml4)
    BY <2>1, MapIsTree DEF Held
  <2>4. InUse = Buffer \cup TreePages(L) \cup Framed
    BY <2>3 DEF InUse, Buffer, Framed
  <2> QED BY <2>1, <2>4 DEF Held
<1> QED BY <1>1, ProcAlways, TypesAlways, PTL

\* The page map of the running program is a tree of pages of its own: no page
\* of it is free, abandoned, in the file buffer, or reached by two entries,
\* and no page table is mapped.
THEOREM ProcessTreeIsPrivate == Spec => []TreeIsPrivate
<1>1. (~zeroed => ProcInv) => TreeIsPrivate
  <2> SUFFICES ASSUME ProcInv, process_pml4 # 0
               PROVE  /\ MapPages(process_pml4) \subseteq bitmap \ abandoned
                      /\ phys_buf # 0 => MapPages(process_pml4) \cap FileBuffer = {}
                      /\ \A v, w \in UserPages : v # w /\ Translate(process_pml4, v) # 0 =>
                            Translate(process_pml4, v) # Translate(process_pml4, w)
                      /\ \A v \in UserPages : Translate(process_pml4, v) \notin Tables(process_pml4).all
    BY DEF TreeIsPrivate
  <2>1. PICK L : Held(L)
    BY DEF ProcInv
  <2>2. TreeOK(mem, process_pml4, L)
    BY <2>1 DEF Held
  <2>3. MapPages(process_pml4) = TreePages(L)
    BY <2>2, MapIsTree
  <2>4. MapPages(process_pml4) \subseteq bitmap \ abandoned
    BY <2>1, <2>3 DEF Held, Apart
  <2>5. phys_buf # 0 => MapPages(process_pml4) \cap FileBuffer = {}
    BY <2>1, <2>3 DEF Held, Apart, Buffer
  <2>6. /\ \A v, w \in UserPages : v # w /\ Translate(process_pml4, v) # 0 =>
              Translate(process_pml4, v) # Translate(process_pml4, w)
        /\ \A v \in UserPages : Translate(process_pml4, v) \notin Tables(process_pml4).all
    BY <2>2, WalksApart
  <2> QED BY <2>4, <2>5, <2>6
<1> QED BY <1>1, ProcAlways, PTL

\* The processor never runs on a free page map, and the kernel's half is in
\* the map it runs on, also after a fault left it on a dead program's.
THEOREM ProcessCr3IsLive == Spec => []Cr3IsLive
<1>1. (~zeroed => ProcInv) => Cr3IsLive
  <2> SUFFICES ASSUME ProcInv PROVE cr3 \in bitmap /\ mem[cr3][KernelIndex] = KernelTable
    BY DEF Cr3IsLive
  <2>1. PICK L : Held(L)
    BY DEF ProcInv
  <2>2. mem[cr3][KernelIndex] = KernelTable
    BY DEF ProcInv, CtlInv
  <2>3. CASE pc = "user"
    <3>1. cr3 = process_pml4 /\ process_pml4 # 0
      BY <2>3 DEF ProcInv, CtlInv, Mapped
    <3>2. process_pml4 \in L[0] /\ 0 \in Levels
      BY <2>1, <3>1 DEF Held, TreeOK, Levels
    <3>3. process_pml4 \in TreePages(L)
      BY <3>2, InTree
    <3> QED BY <2>1, <2>2, <3>1, <3>3 DEF Held
  <2>4. CASE pc # "user"
    <3>1. cr3 \in {KernelPML4} \cup abandoned
      BY <2>4 DEF ProcInv, CtlInv
    <3> QED BY <2>1, <2>2, <3>1 DEF Held
  <2> QED BY <2>3, <2>4
<1> QED BY <1>1, ProcAlways, PTL

-----------------------------------------------------------------------------
(* What the program finds in its memory.  First, numbers.                  *)

SegmentType == [vaddr : Nat, memsz : Nat, filesz : Nat, offset : Nat]

\* The numbers of the constants.
LEMMA Numbers ==
  /\ Fanout \in Nat \ {0} /\ PageBytes \in Nat \ {0} /\ UserIndices = 0..(Fanout - 1)
  /\ \A p \in Programs : p.segs \in Seq(SegmentType)
  /\ \A p \in Programs : p.args # NULL => p.args \in Seq(Nat) /\ Len(p.args) < PageBytes
BY ProcessAssumption DEF SegmentType

LEMMA DivMod ==
  ASSUME NEW d \in Nat \ {0}, NEW a \in Nat
  PROVE  a \div d \in Nat /\ a % d \in 0..(d - 1) /\ a = d * (a \div d) + (a % d)
OBVIOUS

LEMMA MulOrder ==
  ASSUME NEW d \in Nat \ {0}, NEW m \in Nat, NEW n \in Nat
  PROVE  d * n \in Nat /\ (m < n => d * m + d <= d * n) /\ d * (m + n) = d * m + d * n
OBVIOUS

\* The quotient and the remainder are the only ones.
LEMMA DivUnique ==
  ASSUME NEW d \in Nat \ {0}, NEW q \in Nat, NEW r \in 0..(d - 1), NEW a \in Nat, a = d * q + r
  PROVE  a \div d = q /\ a % d = r
<1>1. a = d * (a \div d) + (a % d) /\ a \div d \in Nat /\ a % d \in 0..(d - 1)
  BY DivMod
<1>2. ~(a \div d < q)
  BY <1>1, MulOrder
<1>3. ~(q < a \div d)
  BY <1>1, MulOrder
<1> QED BY <1>1, <1>2, <1>3, MulOrder

\* Two pages with the same indices are one page.
LEMMA VPageInjective ==
  ASSUME NEW m \in Nat, NEW n \in Nat, VPage(m) = VPage(n)
  PROVE  m = n
<1>0. Fanout \in Nat \ {0}
  BY Numbers
<1>1. ASSUME NEW a \in Nat, NEW b \in Nat, a \div Fanout = b \div Fanout, a % Fanout = b % Fanout PROVE a = b
  BY <1>0, <1>1, DivMod
<1> DEFINE pt(x) == x \div Fanout
           pd(x) == pt(x) \div Fanout
           pdpt(x) == pd(x) \div Fanout
<1>2. \A x \in Nat : VPage(x) = <<pdpt(x), pd(x) % Fanout, pt(x) % Fanout, x % Fanout>>
  BY DEF VPage
<1>3. /\ pdpt(m) = pdpt(n) /\ pd(m) % Fanout = pd(n) % Fanout /\ pt(m) % Fanout = pt(n) % Fanout
      /\ m % Fanout = n % Fanout
  BY <1>2
<1>4. pt(m) \in Nat /\ pt(n) \in Nat
  BY <1>0, DivMod
<1>5. pd(m) \in Nat /\ pd(n) \in Nat
  <2> HIDE DEF pt
  <2> QED BY <1>0, <1>4, DivMod
<1>6. pd(m) = pd(n)
  <2>1. pd(m) \div Fanout = pd(n) \div Fanout
    BY <1>3
  <2> HIDE DEF pd, pt
  <2> QED BY <1>1, <1>3, <1>5, <2>1
<1>7. pt(m) = pt(n)
  <2>1. pt(m) \div Fanout = pt(n) \div Fanout
    BY <1>6
  <2> HIDE DEF pt
  <2> QED BY <1>1, <1>3, <1>4, <2>1
<1> QED BY <1>1, <1>3, <1>7

\* The i-th page of a segment.
SegPage(s, i) == VPage(s.vaddr \div PageBytes + i - 1)

\* The loop over page_count goes through the pages of the segment.
LEMMA PagesOfSegment ==
  ASSUME NEW s \in SegmentType
  PROVE  /\ PageCount(s) \in Nat
         /\ \A x : x \in SegmentPages(s) <=> \E i \in 1..PageCount(s) : x = SegPage(s, i)
<1> DEFINE o == s.vaddr % PageBytes
           q == s.vaddr \div PageBytes
           B == s.memsz + o
           c == (B + PageBytes - 1) \div PageBytes
           e == (B + PageBytes - 1) % PageBytes
<1>0. PageBytes \in Nat \ {0}
  BY Numbers
<1>1. s.vaddr \in Nat /\ s.memsz \in Nat
  BY DEF SegmentType
<1>2. q \in Nat /\ o \in 0..(PageBytes - 1) /\ s.vaddr = PageBytes * q + o
  BY <1>0, <1>1, DivMod
<1>3. B \in Nat /\ B + PageBytes - 1 \in Nat
  BY <1>0, <1>1, <1>2
<1>4. c \in Nat /\ e \in 0..(PageBytes - 1) /\ B + PageBytes - 1 = PageBytes * c + e
  <2> HIDE DEF B
  <2> QED BY <1>0, <1>3, DivMod
<1>5. PageCount(s) = c
  BY DEF PageCount, page_offset
<1>6. PageBytes * q \in Nat /\ s.vaddr - o = PageBytes * q /\ s.vaddr + s.memsz - 1 = PageBytes * q + B - 1
  <2>1. PageBytes * q \in Nat
    BY <1>0, <1>2, MulOrder
  <2> QED BY <1>1, <1>2, <2>1
<1>7. SegmentPages(s) = {VPage(a \div PageBytes) : a \in (PageBytes * q)..(PageBytes * q + B - 1)}
  BY <1>6 DEF SegmentPages, page_offset
<1>8. \A i : SegPage(s, i) = VPage(q + i - 1)
  BY DEF SegPage
<1> HIDE DEF o, q, B, c, e
<1>9. ASSUME NEW a \in (PageBytes * q)..(PageBytes * q + B - 1)
      PROVE  \E i \in 1..c : VPage(a \div PageBytes) = SegPage(s, i)
  <2> DEFINE b == a - PageBytes * q
             g == b \div PageBytes
             h == b % PageBytes
  <2>1. b \in Nat /\ b <= B - 1 /\ a = PageBytes * q + b /\ a \in Nat
    BY <1>3, <1>6
  <2>2. g \in Nat /\ h \in 0..(PageBytes - 1) /\ b = PageBytes * g + h
    <3> HIDE DEF b
    <3> QED BY <1>0, <2>1, DivMod
  <2> HIDE DEF b, g, h
  <2>3. q + g \in Nat /\ a = PageBytes * (q + g) + h
    BY <1>0, <1>2, <2>1, <2>2, MulOrder
  <2>4. a \div PageBytes = q + g
    BY <1>0, <2>1, <2>2, <2>3, DivUnique
  <2>5. g < c
    <3>1. SUFFICES ASSUME ~(g < c) PROVE FALSE
      OBVIOUS
    <3>2. c <= g /\ PageBytes * c \in Nat /\ PageBytes * g \in Nat
      BY <1>0, <1>4, <2>2, <3>1, MulOrder
    <3>3. PageBytes * c <= PageBytes * g
      BY <1>0, <1>4, <2>2, <3>2, MulOrder
    <3> QED BY <1>0, <1>3, <1>4, <2>1, <2>2, <3>2, <3>3
  <2>6. g + 1 \in 1..c /\ q + (g + 1) - 1 = q + g
    BY <1>2, <1>4, <2>2, <2>5
  <2> QED BY <1>8, <2>4, <2>6
<1>10. ASSUME NEW i \in 1..c
       PROVE  \E a \in (PageBytes * q)..(PageBytes * q + B - 1) : SegPage(s, i) = VPage(a \div PageBytes)
  <2> DEFINE g == i - 1
             a == PageBytes * (q + g)
  <2>1. g \in Nat /\ g < c /\ q + g \in Nat /\ q + i - 1 = q + g
    BY <1>2, <1>4
  <2>2. PageBytes * g + PageBytes <= PageBytes * c /\ PageBytes * g \in Nat /\ PageBytes * c \in Nat
    <3> HIDE DEF g
    <3> QED BY <1>0, <1>4, <2>1, MulOrder
  <2>3. a = PageBytes * q + PageBytes * g /\ a \in Nat
    <3> HIDE DEF g
    <3> QED BY <1>0, <1>2, <2>1, MulOrder
  <2>4. a \div PageBytes = q + g
    <3>1. a = PageBytes * (q + g) + 0 /\ 0 \in 0..(PageBytes - 1)
      BY <1>0, <2>3
    <3> HIDE DEF g, a
    <3> QED BY <1>0, <2>1, <2>3, <3>1, DivUnique
  <2> HIDE DEF g, a
  <2>5. a \in (PageBytes * q)..(PageBytes * q + B - 1)
    BY <1>0, <1>3, <1>4, <1>6, <2>2, <2>3
  <2> QED BY <1>8, <2>1, <2>4, <2>5
<1> QED BY <1>4, <1>5, <1>7, <1>9, <1>10

\* The arithmetic of the copy, P bytes to a page.
LEMMA CopyArithmetic ==
  ASSUME NEW P \in Nat \ {0}, NEW a \in Nat, NEW z \in Nat, NEW f \in Nat, NEW n \in Nat, NEW cur \in Nat,
         NEW k \in 0..(P - 1), NEW o \in 0..(P - 1), cur + k = a + n, cur < a => cur + o = a,
         NEW start, start = IF cur < a THEN o ELSE 0, NEW end, end = a + z,
         NEW full, full = IF cur + P > end THEN end - (cur + start) ELSE P - start,
         NEW size, size = IF cur + P > a /\ cur < end THEN full ELSE 0
  PROVE  /\ n < z <=> k \in start..(start + size - 1)
         /\ f + (cur + start - a) + (k - start) = f + n
<1>1. start \in Nat /\ start < P /\ start <= k /\ cur + start >= a
  <2>1. CASE cur < a
    BY <2>1
  <2>2. CASE ~(cur < a)
    BY <2>2
  <2> QED BY <2>1, <2>2
<1>2. f + (cur + start - a) + (k - start) = f + n
  BY <1>1
<1>3. cur + P > a /\ (n < z <=> cur + k < end) /\ end \in Nat
  OBVIOUS
<1>4. CASE cur < end /\ cur + P > end
  <2>1. size = end - (cur + start)
    BY <1>3, <1>4
  <2>2. start + size - 1 = end - cur - 1
    BY <1>1, <1>3, <2>1
  <2>3. k \in start..(start + size - 1) <=> k <= end - cur - 1
    BY <1>1, <1>3, <2>2
  <2> QED BY <1>2, <1>3, <2>3
<1>5. CASE cur < end /\ ~(cur + P > end)
  <2>1. size = P - start
    BY <1>3, <1>5
  <2>2. start + size - 1 = P - 1
    BY <1>1, <2>1
  <2>3. k \in start..(start + size - 1)
    BY <1>1, <2>2
  <2> QED BY <1>2, <1>3, <1>5, <2>3
<1>6. CASE ~(cur < end)
  <2>1. size = 0
    BY <1>6
  <2>2. k \notin start..(start + size - 1)
    BY <1>1, <2>1
  <2> QED BY <1>2, <1>3, <1>6, <2>2
<1> QED BY <1>4, <1>5, <1>6

\* The bytes of a page are copied from where they are in the file, and no
\* other is copied: byte n of segment s is byte k of the page at cur.
LEMMA CopiedBytes ==
  ASSUME NEW s \in SegmentType, NEW i \in Nat \ {0}, NEW n \in 0..(s.memsz - 1), NEW q \in Nat, NEW k,
         NEW cur, q = s.vaddr \div PageBytes + i - 1, (s.vaddr + n) \div PageBytes = q,
         k = (s.vaddr + n) % PageBytes, cur = q * PageBytes
  PROVE  LET c == Copied(s, cur) IN
         /\ n < s.filesz <=> k \in c.start..(c.start + c.size - 1)
         /\ c.src + (k - c.start) = s.offset + n
         /\ k \in 0..(PageBytes - 1)
<1> DEFINE o == s.vaddr % PageBytes
           p == s.vaddr \div PageBytes
<1>0. PageBytes \in Nat \ {0}
  BY Numbers
<1>1. s.vaddr \in Nat /\ s.memsz \in Nat /\ s.filesz \in Nat /\ s.offset \in Nat /\ n \in Nat
  BY DEF SegmentType
<1>2. p \in Nat /\ o \in 0..(PageBytes - 1) /\ s.vaddr = PageBytes * p + o
  BY <1>0, <1>1, DivMod
<1>3. k \in 0..(PageBytes - 1) /\ s.vaddr + n = PageBytes * q + k
  <2>1. s.vaddr + n \in Nat
    BY <1>1
  <2> QED BY <1>0, <2>1, DivMod
<1>4. cur \in Nat /\ cur + k = s.vaddr + n
  <2>1. PageBytes * q \in Nat /\ cur = PageBytes * q
    BY <1>0, MulOrder
  <2> QED BY <1>1, <1>3, <2>1
<1>5. cur < s.vaddr => cur + o = s.vaddr
  <2>1. ASSUME cur < s.vaddr PROVE q = p
    <3>1. q = p + i - 1
      OBVIOUS
    <3>2. q = p \/ p < q
      <4> HIDE DEF p
      <4> QED BY <1>2, <3>1
    <3>3. ~(p < q)
      <4>1. SUFFICES ASSUME p < q PROVE FALSE
        OBVIOUS
      <4>2. PageBytes * p + PageBytes <= PageBytes * q /\ PageBytes * p \in Nat /\ PageBytes * q \in Nat
        <5> HIDE DEF p
        <5> QED BY <1>0, <1>2, <4>1, MulOrder
      <4>3. cur = PageBytes * q
        BY <1>0
      <4> HIDE DEF p, o
      <4> QED BY <1>0, <1>1, <1>2, <2>1, <4>2, <4>3
    <3> QED BY <3>2, <3>3
  <2>2. PageBytes * p \in Nat
    <3> HIDE DEF p
    <3> QED BY <1>0, <1>2, MulOrder
  <2>3. cur = PageBytes * q
    BY <1>0
  <2> HIDE DEF p, o
  <2> QED BY <1>1, <1>2, <2>1, <2>2, <2>3
<1> DEFINE start == IF cur < s.vaddr THEN o ELSE 0
           end == s.vaddr + s.filesz
           full == IF cur + PageBytes > end THEN end - (cur + start) ELSE PageBytes - start
           size == IF cur + PageBytes > s.vaddr /\ cur < end THEN full ELSE 0
           src == s.offset + (cur + start - s.vaddr)
<1>6. Copied(s, cur).start = start /\ Copied(s, cur).src = src /\ Copied(s, cur).size = size
  BY DEF Copied, page_offset
<1> HIDE DEF o, p
<1>7. /\ n < s.filesz <=> k \in start..(start + size - 1)
      /\ src + (k - start) = s.offset + n
  <2>1. PICK P \in Nat \ {0} : P = PageBytes
    BY <1>0
  <2>2. PICK a \in Nat, z \in Nat, f \in Nat, x \in Nat : a = s.vaddr /\ z = s.filesz /\ f = s.offset /\ x = n
    BY <1>1
  <2>3. PICK u \in Nat, h \in 0..(P - 1), g \in 0..(P - 1) : u = cur /\ h = k /\ g = o
    BY <1>2, <1>3, <1>4, <2>1
  <2>4. PICK st, en, fu, si : st = start /\ en = end /\ fu = full /\ si = size
    OBVIOUS
  <2>5. /\ u + h = a + x /\ (u < a => u + g = a) /\ st = (IF u < a THEN g ELSE 0) /\ en = a + z
        /\ fu = (IF u + P > en THEN en - (u + st) ELSE P - st)
        /\ si = (IF u + P > a /\ u < en THEN fu ELSE 0)
    <3> HIDE DEF o
    <3> QED BY <1>4, <1>5, <2>1, <2>2, <2>3, <2>4
  <2>6. /\ x < z <=> h \in st..(st + si - 1)
        /\ f + (u + st - a) + (h - st) = f + x
    BY <2>5, CopyArithmetic
  <2> HIDE DEF start, end, full, size
  <2> QED BY <2>2, <2>3, <2>4, <2>6
<1> HIDE DEF start, size, src
<1> QED BY <1>3, <1>6, <1>7

-----------------------------------------------------------------------------
(* The walk of the MMU in a memory m, table by table. *)

Step(m, t, k) == IF t = 0 THEN 0 ELSE m[t][k]
Walk1(m, r, v) == Step(m, r, v[1])
Walk2(m, r, v) == Step(m, Walk1(m, r, v), v[2])
Walk3(m, r, v) == Step(m, Walk2(m, r, v), v[3])
Walk4(m, r, v) == Step(m, Walk3(m, r, v), v[4])

\* The table that vmm_map_page has reached after d levels.
WalkTo(m, r, v, d) ==
  CASE d = 0 -> r [] d = 1 -> Walk1(m, r, v) [] d = 2 -> Walk2(m, r, v) [] d = 3 -> Walk3(m, r, v)

LEMMA TranslateWalks == \A r, v : Translate(r, v) = Walk4(mem, r, v)
BY DEF Translate, Walk4, Walk3, Walk2, Walk1, Step

\* One step of the walk goes down one level.
LEMMA StepDown ==
  ASSUME NEW m, NEW r, NEW L, TreeOK(m, r, L), NEW e \in 0..3, NEW t, t = 0 \/ t \in L[e], NEW k \in UserIndices
  PROVE  Step(m, t, k) = 0 \/ (Step(m, t, k) \in L[e + 1] /\ t \in L[e] /\ Step(m, t, k) = m[t][k] /\ t # 0)
<1>1. CASE t = 0
  BY <1>1 DEF Step
<1>2. CASE t # 0
  BY <1>2 DEF Step, TreeOK
<1> QED BY <1>1, <1>2

\* The tables of a walk.
LEMMA WalkLevels ==
  ASSUME NEW m, NEW r, NEW L, TreeOK(m, r, L), NEW v \in UserPages
  PROVE  /\ r \in L[0] /\ r # 0
         /\ Walk1(m, r, v) = 0 \/ Walk1(m, r, v) \in L[1]
         /\ Walk2(m, r, v) = 0 \/ Walk2(m, r, v) \in L[2]
         /\ Walk3(m, r, v) = 0 \/ Walk3(m, r, v) \in L[3]
         /\ Walk4(m, r, v) = 0 \/ Walk4(m, r, v) \in L[4]
<1>1. v[1] \in UserIndices /\ v[2] \in UserIndices /\ v[3] \in UserIndices /\ v[4] \in UserIndices
  BY DEF UserPages
<1>2. r \in L[0] /\ r # 0
  <2>1. 0 \in Levels
    BY DEF Levels
  <2> QED BY <2>1 DEF TreeOK
<1>3. ASSUME NEW e \in 0..3, NEW f, f = e + 1, NEW t, t = 0 \/ t \in L[e], NEW k \in UserIndices
      PROVE  Step(m, t, k) = 0 \/ Step(m, t, k) \in L[f]
  BY <1>3, StepDown
<1>4. Walk1(m, r, v) = 0 \/ Walk1(m, r, v) \in L[1]
  BY <1>1, <1>2, <1>3 DEF Walk1
<1>5. Walk2(m, r, v) = 0 \/ Walk2(m, r, v) \in L[2]
  BY <1>1, <1>3, <1>4 DEF Walk2
<1>6. Walk3(m, r, v) = 0 \/ Walk3(m, r, v) \in L[3]
  BY <1>1, <1>3, <1>5 DEF Walk3
<1>7. Walk4(m, r, v) = 0 \/ Walk4(m, r, v) \in L[4]
  BY <1>1, <1>3, <1>6 DEF Walk4
<1> QED BY <1>2, <1>4, <1>5, <1>6, <1>7

\* Two walks that meet in a page table have the same indices before it.
LEMMA WalksMeet ==
  ASSUME NEW m, NEW r, NEW L, TreeOK(m, r, L), NEW v \in UserPages, NEW w \in UserPages,
         Walk3(m, r, v) = Walk3(m, r, w), Walk3(m, r, v) # 0
  PROVE  v[1] = w[1] /\ v[2] = w[2] /\ v[3] = w[3]
<1>1. /\ v[1] \in UserIndices /\ v[2] \in UserIndices /\ v[3] \in UserIndices /\ v[4] \in UserIndices
      /\ w[1] \in UserIndices /\ w[2] \in UserIndices /\ w[3] \in UserIndices /\ w[4] \in UserIndices
  BY DEF UserPages
<1>2. ASSUME NEW e \in 0..3, NEW t, NEW u, t = 0 \/ t \in L[e], u = 0 \/ u \in L[e],
             NEW k \in UserIndices, NEW l \in UserIndices, Step(m, t, k) = Step(m, u, l), Step(m, t, k) # 0
      PROVE  t = u /\ k = l /\ t # 0
  <2>1. t # 0 /\ u # 0 /\ m[t][k] = m[u][l] /\ m[t][k] # 0
    BY <1>2 DEF Step
  <2>2. t \in L[e] /\ u \in L[e]
    BY <1>2, <2>1
  <2> QED BY <2>1, <2>2 DEF TreeOK
<1>3. Walk2(m, r, v) = Walk2(m, r, w) /\ v[3] = w[3] /\ Walk2(m, r, v) # 0
  BY <1>1, <1>2, WalkLevels DEF Walk3
<1>4. Walk1(m, r, v) = Walk1(m, r, w) /\ v[2] = w[2] /\ Walk1(m, r, v) # 0
  BY <1>1, <1>2, <1>3, WalkLevels DEF Walk2
<1>5. v[1] = w[1]
  BY <1>1, <1>2, <1>4, WalkLevels DEF Walk1
<1> QED BY <1>3, <1>4, <1>5

\* Where an entry is set, a step of a walk changes at that entry only.
LEMMA StepChanged ==
  ASSUME NEW m, NEW r, NEW L, TreeOK(m, r, L), NEW d, NEW p, NEW k, NEW s, NEW m2,
         EntrySet(m, L, d, p, k, s, m2),
         NEW e \in 0..3, NEW t, t = 0 \/ t \in L[e], NEW l \in UserIndices
  PROVE  Step(m2, t, l) = IF e = d /\ t = p /\ l = k THEN s ELSE Step(m, t, l)
<1>1. d \in 0..3 /\ p \in L[d] /\ \A x \in TreePages(L), i \in Indices : m2[x][i] = IF x = p /\ i = k THEN s ELSE m[x][i]
  BY DEF EntrySet
<1>2. d \in Levels /\ e \in Levels
  BY <1>1 DEF Levels
<1>3. p # 0 /\ \A f \in Levels : 0 \notin L[f]
  BY <1>1, <1>2 DEF TreeOK
<1>4. CASE t = 0
  BY <1>3, <1>4 DEF Step
<1>5. CASE t # 0
  <2>1. t \in L[e] /\ t \in TreePages(L)
    BY <1>2, <1>5, InTree
  <2>2. t = p => e = d
    BY <1>1, <1>2, <2>1 DEF TreeOK
  <2>3. m2[t][l] = IF t = p /\ l = k THEN s ELSE m[t][l]
    BY <1>1, <2>1
  <2> QED BY <1>5, <2>2, <2>3 DEF Step
<1> QED BY <1>4, <1>5

\* Table by table: the walks of v before and after.
LEMMA WalkChanged ==
  ASSUME NEW m, NEW r, NEW L, TreeOK(m, r, L), NEW d, NEW p, NEW k, NEW s, NEW m2,
         EntrySet(m, L, d, p, k, s, m2), NEW v \in UserPages
  PROVE  /\ Walk1(m2, r, v) = IF d = 0 /\ r = p /\ v[1] = k THEN s ELSE Walk1(m, r, v)
         /\ Walk1(m2, r, v) = Walk1(m, r, v) =>
              Walk2(m2, r, v) = IF d = 1 /\ Walk1(m, r, v) = p /\ v[2] = k THEN s ELSE Walk2(m, r, v)
         /\ Walk2(m2, r, v) = Walk2(m, r, v) =>
              Walk3(m2, r, v) = IF d = 2 /\ Walk2(m, r, v) = p /\ v[3] = k THEN s ELSE Walk3(m, r, v)
         /\ Walk3(m2, r, v) = Walk3(m, r, v) =>
              Walk4(m2, r, v) = IF d = 3 /\ Walk3(m, r, v) = p /\ v[4] = k THEN s ELSE Walk4(m, r, v)
<1>1. v[1] \in UserIndices /\ v[2] \in UserIndices /\ v[3] \in UserIndices /\ v[4] \in UserIndices
  BY DEF UserPages
<1>2. ASSUME NEW e \in 0..3, NEW t, t = 0 \/ t \in L[e], NEW l \in UserIndices
      PROVE  Step(m2, t, l) = IF e = d /\ t = p /\ l = k THEN s ELSE Step(m, t, l)
  BY <1>2, StepChanged
<1>3. Walk1(m2, r, v) = IF d = 0 /\ r = p /\ v[1] = k THEN s ELSE Walk1(m, r, v)
  <2>1. r \in L[0]
    BY WalkLevels
  <2> QED BY <1>1, <1>2, <2>1 DEF Walk1
<1>4. Walk1(m2, r, v) = Walk1(m, r, v) =>
        Walk2(m2, r, v) = IF d = 1 /\ Walk1(m, r, v) = p /\ v[2] = k THEN s ELSE Walk2(m, r, v)
  <2>1. Walk1(m, r, v) = 0 \/ Walk1(m, r, v) \in L[1]
    BY WalkLevels
  <2> QED BY <1>1, <1>2, <2>1 DEF Walk2
<1>5. Walk2(m2, r, v) = Walk2(m, r, v) =>
        Walk3(m2, r, v) = IF d = 2 /\ Walk2(m, r, v) = p /\ v[3] = k THEN s ELSE Walk3(m, r, v)
  <2>1. Walk2(m, r, v) = 0 \/ Walk2(m, r, v) \in L[2]
    BY WalkLevels
  <2> QED BY <1>1, <1>2, <2>1 DEF Walk3
<1>6. Walk3(m2, r, v) = Walk3(m, r, v) =>
        Walk4(m2, r, v) = IF d = 3 /\ Walk3(m, r, v) = p /\ v[4] = k THEN s ELSE Walk4(m, r, v)
  <2>1. Walk3(m, r, v) = 0 \/ Walk3(m, r, v) \in L[3]
    BY WalkLevels
  <2> QED BY <1>1, <1>2, <2>1 DEF Walk4
<1> QED BY <1>3, <1>4, <1>5, <1>6

\* A new table is empty: no page is mapped or unmapped, and the walk to the
\* entry where it was missing goes on to it.
LEMMA NewTableWalks ==
  ASSUME NEW m, NEW r, NEW L, TreeOK(m, r, L), NEW d, NEW p, NEW k, NEW s, NEW m2,
         EntrySet(m, L, d, p, k, s, m2), d < 3, NEW v \in UserPages
  PROVE  /\ Walk4(m2, r, v) = Walk4(m, r, v)
         /\ WalkTo(m, r, v, d) = p /\ v[d + 1] = k => WalkTo(m2, r, v, d + 1) = s
<1>1. /\ d = 0 \/ d = 1 \/ d = 2
      /\ m[p][k] = 0 /\ s # 0 /\ (\A l \in UserIndices : m2[s][l] = 0) /\ p \in L[d] /\ d \in Levels
  BY DEF EntrySet, Levels
<1>2. v[1] \in UserIndices /\ v[2] \in UserIndices /\ v[3] \in UserIndices /\ v[4] \in UserIndices
  BY DEF UserPages
<1>3. /\ \A l \in UserIndices : Step(m2, s, l) = 0
      /\ \A l : Step(m2, 0, l) = 0 /\ Step(m, 0, l) = 0
      /\ Step(m, p, k) = 0
  BY <1>1 DEF Step
<1>4. PICK n1, n2, n3, n4 : n1 = Walk1(m, r, v) /\ n2 = Walk2(m, r, v) /\ n3 = Walk3(m, r, v) /\ n4 = Walk4(m, r, v)
  OBVIOUS
<1>5. PICK x1, x2, x3, x4 : x1 = Walk1(m2, r, v) /\ x2 = Walk2(m2, r, v) /\ x3 = Walk3(m2, r, v) /\ x4 = Walk4(m2, r, v)
  OBVIOUS
<1>6. /\ n1 = Step(m, r, v[1]) /\ n2 = Step(m, n1, v[2]) /\ n3 = Step(m, n2, v[3]) /\ n4 = Step(m, n3, v[4])
      /\ x1 = Step(m2, r, v[1]) /\ x2 = Step(m2, x1, v[2]) /\ x3 = Step(m2, x2, v[3]) /\ x4 = Step(m2, x3, v[4])
  BY <1>4, <1>5 DEF Walk4, Walk3, Walk2, Walk1
<1>7. /\ x1 = IF d = 0 /\ r = p /\ v[1] = k THEN s ELSE n1
      /\ x1 = n1 => x2 = IF d = 1 /\ n1 = p /\ v[2] = k THEN s ELSE n2
      /\ x2 = n2 => x3 = IF d = 2 /\ n2 = p /\ v[3] = k THEN s ELSE n3
      /\ x3 = n3 => x4 = IF d = 3 /\ n3 = p /\ v[4] = k THEN s ELSE n4
  BY <1>4, <1>5, WalkChanged
<1>8. WalkTo(m, r, v, 0) = r /\ WalkTo(m, r, v, 1) = n1 /\ WalkTo(m, r, v, 2) = n2
      /\ WalkTo(m2, r, v, 1) = x1 /\ WalkTo(m2, r, v, 2) = x2 /\ WalkTo(m2, r, v, 3) = x3
  BY <1>4, <1>5 DEF WalkTo
<1>9. CASE d = 0
  <2>1. d + 1 = 1
    BY <1>9
  <2>2. r = p /\ v[1] = k => n1 = 0 /\ n2 = 0 /\ n3 = 0 /\ n4 = 0 /\ x1 = s /\ x2 = 0 /\ x3 = 0 /\ x4 = 0
    BY <1>2, <1>3, <1>6, <1>7, <1>9
  <2>3. ~(r = p /\ v[1] = k) => x1 = n1 /\ x2 = n2 /\ x3 = n3 /\ x4 = n4
    BY <1>7, <1>9
  <2> QED BY <1>4, <1>5, <1>8, <1>9, <2>1, <2>2, <2>3
<1>10. CASE d = 1
  <2>1. d + 1 = 2 /\ x1 = n1
    BY <1>7, <1>10
  <2>2. n1 = p /\ v[2] = k => n2 = 0 /\ n3 = 0 /\ n4 = 0 /\ x2 = s /\ x3 = 0 /\ x4 = 0
    BY <1>2, <1>3, <1>6, <1>7, <1>10, <2>1
  <2>3. ~(n1 = p /\ v[2] = k) => x2 = n2 /\ x3 = n3 /\ x4 = n4
    BY <1>7, <1>10, <2>1
  <2> QED BY <1>4, <1>5, <1>8, <1>10, <2>1, <2>2, <2>3
<1>11. CASE d = 2
  <2>1. d + 1 = 3 /\ x1 = n1 /\ x2 = n2
    BY <1>7, <1>11
  <2>2. n2 = p /\ v[3] = k => n3 = 0 /\ n4 = 0 /\ x3 = s /\ x4 = 0
    BY <1>2, <1>3, <1>6, <1>7, <1>11, <2>1
  <2>3. ~(n2 = p /\ v[3] = k) => x3 = n3 /\ x4 = n4
    BY <1>7, <1>11, <2>1
  <2> QED BY <1>4, <1>5, <1>8, <1>11, <2>1, <2>2, <2>3
<1> QED BY <1>1, <1>9, <1>10, <1>11

\* Setting the last entry maps the one page that was walked for.
LEMMA LeafWalks ==
  ASSUME NEW m, NEW r, NEW L, TreeOK(m, r, L), NEW p, NEW k, NEW s, NEW m2,
         EntrySet(m, L, 3, p, k, s, m2), NEW w \in UserPages, Walk3(m, r, w) = p, w[4] = k
  PROVE  \A v \in UserPages : Walk4(m2, r, v) = IF v = w THEN s ELSE Walk4(m, r, v)
<1> SUFFICES ASSUME NEW v \in UserPages PROVE Walk4(m2, r, v) = IF v = w THEN s ELSE Walk4(m, r, v)
  OBVIOUS
<1>1. Walk4(m2, r, v) = IF Walk3(m, r, v) = p /\ v[4] = k THEN s ELSE Walk4(m, r, v)
  <2>1. /\ Walk1(m2, r, v) = IF 3 = 0 /\ r = p /\ v[1] = k THEN s ELSE Walk1(m, r, v)
        /\ Walk1(m2, r, v) = Walk1(m, r, v) =>
             Walk2(m2, r, v) = IF 3 = 1 /\ Walk1(m, r, v) = p /\ v[2] = k THEN s ELSE Walk2(m, r, v)
        /\ Walk2(m2, r, v) = Walk2(m, r, v) =>
             Walk3(m2, r, v) = IF 3 = 2 /\ Walk2(m, r, v) = p /\ v[3] = k THEN s ELSE Walk3(m, r, v)
        /\ Walk3(m2, r, v) = Walk3(m, r, v) =>
             Walk4(m2, r, v) = IF 3 = 3 /\ Walk3(m, r, v) = p /\ v[4] = k THEN s ELSE Walk4(m, r, v)
    BY WalkChanged
  <2> QED BY <2>1
<1>2. p # 0
  BY DEF EntrySet, TreeOK, Levels
<1>3. Walk3(m, r, v) = p /\ v[4] = k => v = w
  <2>1. v = <<v[1], v[2], v[3], v[4]>> /\ w = <<w[1], w[2], w[3], w[4]>>
    BY DEF UserPages
  <2>2. ASSUME Walk3(m, r, v) = p PROVE v[1] = w[1] /\ v[2] = w[2] /\ v[3] = w[3]
    <3>1. Walk3(m, r, v) = Walk3(m, r, w) /\ Walk3(m, r, v) # 0
      BY <1>2, <2>2
    <3> QED BY <3>1, WalksMeet
  <2> QED BY <2>1, <2>2
<1> QED BY <1>1, <1>3

-----------------------------------------------------------------------------
(* What is loaded.  T gives the page that a virtual page translates to, D  *)
(* the bytes of a page, lim how many pages of each segment are loaded, and *)
(* st the stack page once it is there.                                     *)

\* Byte n of segment s is on the i-th page, and in the file if it should be.
Asked(p, s, i, n) ==
  /\ (s.vaddr + n) \div PageBytes = s.vaddr \div PageBytes + i - 1
  /\ n < s.filesz => s.offset + n < p.file_pages * PageBytes

\* The bytes of the i-th page of segment s are the file's, or zero.
Holds(p, s, i, bytes) ==
  \A n \in 0..(s.memsz - 1) : Asked(p, s, i, n) =>
    bytes[(s.vaddr + n) % PageBytes] = IF n < s.filesz THEN s.offset + n + 1 ELSE 0

LoadedPages(p, lim, k) == {SegPage(p.segs[k], i) : i \in 1..lim[k]}

\* No later segment has taken the page v over.
Lasts(p, lim, st, k, v) ==
  v \notin st /\ \A l \in DOMAIN p.segs : l > k => v \notin LoadedPages(p, lim, l)

Maps(p, T, D, lim, st) ==
  /\ \A k \in DOMAIN p.segs : \A i \in 1..lim[k] : SegPage(p.segs[k], i) \in UserPages
  /\ \A v \in UserPages : T[v] # 0 <=> v \in st \/ \E k \in DOMAIN p.segs : v \in LoadedPages(p, lim, k)
  /\ \A k \in DOMAIN p.segs : \A i \in 1..lim[k] :
       Lasts(p, lim, st, k, SegPage(p.segs[k], i)) => Holds(p, p.segs[k], i, D[T[SegPage(p.segs[k], i)]])

\* The virtual page w is mapped to f now, and the pages mapped before hold what
\* they held.
Repointed(T, T2, w, f) == f # 0 /\ \A v \in UserPages : T2[v] = IF v = w THEN f ELSE T[v]
Kept(T, D, D2) == \A v \in UserPages : T[v] # 0 => D2[T[v]] = D[T[v]]

\* Segment a has h pages loaded instead of h - 1, the later ones none.
OneMore(p, lim, lim2, a, h) ==
  /\ lim \in [DOMAIN p.segs -> Nat] /\ a \in DOMAIN p.segs /\ h \in Nat /\ h = lim[a] + 1
  /\ lim2 = [lim EXCEPT ![a] = h]
  /\ \A l \in DOMAIN p.segs : l > a => lim[l] = 0

\* Two pages of a segment are different pages.
LEMMA SegPagesApart ==
  ASSUME NEW s \in SegmentType, NEW i \in Nat \ {0}, NEW e \in Nat \ {0}, SegPage(s, i) = SegPage(s, e)
  PROVE  i = e
<1> DEFINE q == s.vaddr \div PageBytes
<1>1. q \in Nat
  <2>1. s.vaddr \in Nat /\ PageBytes \in Nat \ {0}
    BY Numbers DEF SegmentType
  <2> QED BY <2>1, DivMod
<1>2. VPage(q + i - 1) = VPage(q + e - 1)
  BY DEF SegPage
<1> HIDE DEF q
<1>3. q + i - 1 \in Nat /\ q + e - 1 \in Nat
  BY <1>1
<1>4. q + i - 1 = q + e - 1
  BY <1>2, <1>3, VPageInjective
<1> QED BY <1>1, <1>4

\* The next page of segment a is mapped to f and filled.
LEMMA PageMapped ==
  ASSUME NEW p \in Programs, NEW T, NEW T2, NEW D, NEW D2, NEW lim, NEW lim2, NEW a, NEW f,
         NEW w \in UserPages, NEW h, OneMore(p, lim, lim2, a, h),
         Maps(p, T, D, lim, {}), w = SegPage(p.segs[a], h), Repointed(T, T2, w, f), Kept(T, D, D2),
         Holds(p, p.segs[a], h, D2[f])
  PROVE  Maps(p, T2, D2, lim2, {})
<1>0. /\ lim \in [DOMAIN p.segs -> Nat] /\ a \in DOMAIN p.segs /\ h \in Nat /\ h = lim[a] + 1
      /\ lim2 = [lim EXCEPT ![a] = h] /\ \A l \in DOMAIN p.segs : l > a => lim[l] = 0
      /\ f # 0 /\ \A v \in UserPages : T2[v] = IF v = w THEN f ELSE T[v]
      /\ \A v \in UserPages : T[v] # 0 => D2[T[v]] = D[T[v]]
  BY DEF OneMore, Repointed, Kept
<1>1. /\ \A k \in DOMAIN p.segs : p.segs[k] \in SegmentType /\ k \in Nat
      /\ \A k \in DOMAIN p.segs : lim[k] \in Nat /\ lim2[k] \in Nat /\ lim2[k] = IF k = a THEN h ELSE lim[k]
      /\ h > 0
  <2>1. p.segs \in Seq(SegmentType)
    BY Numbers
  <2>2. \A k \in DOMAIN p.segs : p.segs[k] \in SegmentType /\ k \in Nat
    BY <2>1
  <2> QED BY <1>0, <2>2
<1>2. \A k \in DOMAIN p.segs : \A i \in 1..lim2[k] : i \in 1..lim[k] \/ (k = a /\ i = h)
  BY <1>0, <1>1
<1>3. \A k \in DOMAIN p.segs : \A i \in 1..lim[k] : i \in 1..lim2[k]
  BY <1>0, <1>1
<1>4. \A k \in DOMAIN p.segs : \A v : v \in LoadedPages(p, lim2, k) <=> v \in LoadedPages(p, lim, k) \/ (k = a /\ v = w)
  <2> SUFFICES ASSUME NEW k \in DOMAIN p.segs, NEW v
               PROVE  v \in LoadedPages(p, lim2, k) <=> v \in LoadedPages(p, lim, k) \/ (k = a /\ v = w)
    OBVIOUS
  <2>1. h \in 1..lim2[a]
    BY <1>0, <1>1
  <2> QED BY <1>0, <1>2, <1>3, <2>1 DEF LoadedPages
<1>5. ASSUME NEW k \in DOMAIN p.segs, NEW i \in 1..lim2[k] PROVE SegPage(p.segs[k], i) \in UserPages
  BY <1>2 DEF Maps
<1>6. ASSUME NEW v \in UserPages
      PROVE  T2[v] # 0 <=> v \in {} \/ \E k \in DOMAIN p.segs : v \in LoadedPages(p, lim2, k)
  <2>1. T[v] # 0 <=> \E k \in DOMAIN p.segs : v \in LoadedPages(p, lim, k)
    BY DEF Maps
  <2> QED BY <1>0, <1>4, <2>1
<1>7. ASSUME NEW k \in DOMAIN p.segs, NEW i \in 1..lim2[k], Lasts(p, lim2, {}, k, SegPage(p.segs[k], i))
      PROVE  Holds(p, p.segs[k], i, D2[T2[SegPage(p.segs[k], i)]])
  <2> DEFINE v == SegPage(p.segs[k], i)
  <2>1. v \in UserPages
    BY <1>5
  <2>2. CASE k = a /\ i = h
    BY <1>0, <2>1, <2>2
  <2>3. CASE i \in 1..lim[k]
    <3>1. v # w
      <4>1. SUFFICES ASSUME v = w PROVE FALSE
        OBVIOUS
      <4>2. CASE k = a
        <5>1. i = h
          <6>1. i \in Nat \ {0} /\ h \in Nat \ {0} /\ SegPage(p.segs[a], i) = SegPage(p.segs[a], h)
            BY <1>0, <1>1, <4>1, <4>2
          <6> QED BY <1>0, <1>1, <6>1, SegPagesApart
        <5> QED BY <1>0, <1>1, <2>3, <4>2, <5>1
      <4>3. CASE k < a
        BY <1>0, <1>1, <1>4, <1>7, <4>1, <4>3 DEF Lasts
      <4>4. CASE k > a
        BY <1>0, <1>1, <2>3, <4>4
      <4> QED BY <1>0, <1>1, <4>2, <4>3, <4>4
    <3>2. Lasts(p, lim, {}, k, v)
      BY <1>4, <1>7 DEF Lasts
    <3>3. Holds(p, p.segs[k], i, D[T[v]])
      BY <2>3, <3>2 DEF Maps
    <3>4. T[v] # 0
      <4>1. v \in LoadedPages(p, lim, k)
        BY <2>3 DEF LoadedPages
      <4> QED BY <2>1, <4>1 DEF Maps
    <3>5. D2[T2[v]] = D[T[v]]
      BY <1>0, <2>1, <3>1, <3>4
    <3> QED BY <3>3, <3>5
  <2> QED BY <1>2, <2>2, <2>3
<1> QED BY <1>5, <1>6, <1>7 DEF Maps

\* The stack page is mapped to f; no segment is read from it any more.
LEMMA StackMapped ==
  ASSUME NEW p \in Programs, NEW T, NEW T2, NEW D, NEW D2, NEW lim, NEW f,
         Maps(p, T, D, lim, {}), Repointed(T, T2, StackPage, f), Kept(T, D, D2)
  PROVE  Maps(p, T2, D2, lim, {StackPage})
<1>0. /\ f # 0 /\ \A v \in UserPages : T2[v] = IF v = StackPage THEN f ELSE T[v]
      /\ \A v \in UserPages : T[v] # 0 => D2[T[v]] = D[T[v]]
  BY DEF Repointed, Kept
<1>1. \A k \in DOMAIN p.segs : \A i \in 1..lim[k] : SegPage(p.segs[k], i) \in UserPages
  BY DEF Maps
<1>2. \A v \in UserPages : T2[v] # 0 <=> v \in {StackPage} \/ \E k \in DOMAIN p.segs : v \in LoadedPages(p, lim, k)
  BY <1>0 DEF Maps
<1>3. ASSUME NEW k \in DOMAIN p.segs, NEW i \in 1..lim[k], Lasts(p, lim, {StackPage}, k, SegPage(p.segs[k], i))
      PROVE  Holds(p, p.segs[k], i, D2[T2[SegPage(p.segs[k], i)]])
  <2> DEFINE v == SegPage(p.segs[k], i)
  <2>1. v \in UserPages /\ v # StackPage /\ Lasts(p, lim, {}, k, v)
    BY <1>1, <1>3 DEF Lasts
  <2>2. v \in LoadedPages(p, lim, k)
    BY DEF LoadedPages
  <2>3. T[v] # 0 /\ Holds(p, p.segs[k], i, D[T[v]])
    BY <2>1, <2>2 DEF Maps
  <2> QED BY <1>0, <2>1, <2>3
<1> QED BY <1>1, <1>2, <1>3 DEF Maps

-----------------------------------------------------------------------------
(* The invariant of the loader, on top of ProcInv. *)

Loading == {"segments", "map", "enter", "user"}

\* How many pages of each segment are loaded.
Limit ==
  [k \in DOMAIN prog.segs |->
     IF k < seg THEN PageCount(prog.segs[k]) ELSE IF k > seg THEN 0 ELSE IF pc = "map" THEN j - 2 ELSE j - 1]

Pages == [v \in UserPages |-> Walk4(mem, process_pml4, v)]
Stacked == IF pc \in {"enter", "user"} THEN {StackPage} ELSE {}

\* The loops of process_exec and of vmm_map_page.
CursorInv ==
  /\ pc \in {"shell", "check", "pagemap"} => seg = 1 /\ j = 1
  /\ pc \in Loading => seg \in Nat \ {0} /\ j \in Nat \ {0}
  /\ pc = "segments" =>
       /\ seg <= Len(prog.segs) + 1
       /\ seg <= Len(prog.segs) => j <= PageCount(prog.segs[seg]) + 1
  /\ pc = "map" => IF seg <= Len(prog.segs)
                     THEN j - 1 \in 1..PageCount(prog.segs[seg]) /\ vpage = SegPage(prog.segs[seg], j - 1)
                     ELSE seg = Len(prog.segs) + 2 /\ vpage = StackPage
  /\ pc = "map" => table = WalkTo(mem, process_pml4, vpage, level - 1)
  /\ pc \in {"enter", "user"} => seg = Len(prog.segs) + 2

\* The file is in its buffer until all of it is loaded.
DataInv ==
  /\ data = [p \in 0..(top - 1) |-> data[p]]
  /\ pc \in {"pagemap", "segments", "map"} =>
       \A p \in FileBuffer, k \in 0..(PageBytes - 1) : data[p][k] = (p - phys_buf) * PageBytes + k + 1

\* The argument string is where the stack pointer is.
StackHolds(bytes) ==
  prog.args # NULL =>
    [k \in 1..(PageBytes - user_stack_ptr) |-> bytes[user_stack_ptr + k - 1]] = Append(prog.args, 0)

SeesInv ==
  /\ CursorInv /\ DataInv
  /\ pc \in Loading => Maps(prog, Pages, data, Limit, Stacked)
  /\ pc \in {"enter", "user"} => StackHolds(data[Pages[StackPage]])

\* What the segments of the program are.
LEMMA Segments ==
  ASSUME ProcInv
  PROVE  /\ prog \in Programs /\ prog.segs \in Seq(SegmentType) /\ Len(prog.segs) \in Nat
         /\ DOMAIN prog.segs = 1..Len(prog.segs)
         /\ \A k \in 1..Len(prog.segs) : prog.segs[k] \in SegmentType /\ PageCount(prog.segs[k]) \in Nat
<1>1. prog \in Programs
  BY DEF ProcInv, CtlInv, PoolTypes
<1>2. prog.segs \in Seq(SegmentType)
  BY <1>1, Numbers
<1>3. Len(prog.segs) \in Nat /\ DOMAIN prog.segs = 1..Len(prog.segs)
      /\ \A k \in 1..Len(prog.segs) : prog.segs[k] \in SegmentType
  BY <1>2
<1>4. \A k \in 1..Len(prog.segs) : PageCount(prog.segs[k]) \in Nat
  BY <1>3, PagesOfSegment
<1> QED BY <1>1, <1>2, <1>3, <1>4

\* Outside process_exec and the program, nothing is claimed of the page map.
LEMMA SeesToShell ==
  ASSUME SeesInv, ToShell, UNCHANGED <<top, prog>>, data' = [p \in 0..(top - 1) |-> data'[p]]
  PROVE  SeesInv'
<1>1. pc' = "shell" /\ seg' = 1 /\ j' = 1
  BY DEF ToShell
<1>2. CursorInv'
  BY <1>1 DEF CursorInv, Loading
<1>3. DataInv'
  BY <1>1 DEF DataInv
<1> QED BY <1>1, <1>2, <1>3 DEF SeesInv, Loading

LEMMA SeesInit == ASSUME Init PROVE SeesInv
<1>1. CursorInv
  BY DEF Init, CursorInv, Loading
<1>2. DataInv
  <2>1. data = [p \in 0..(top - 1) |-> [k \in 0..(PageBytes - 1) |-> Stale]] /\ pc = "shell"
    BY DEF Init
  <2> QED BY <2>1 DEF DataInv
<1> QED BY <1>1, <1>2 DEF Init, SeesInv, Loading

LEMMA SeesExec == ASSUME SeesInv, NEW p \in Programs, Exec(p) PROVE SeesInv'
<1>1. pc = "shell" /\ pc' \in {"shell", "check"} /\ UNCHANGED <<top, data, seg, j>>
  BY DEF Exec
<1>2. seg = 1 /\ j = 1 /\ data = [q \in 0..(top - 1) |-> data[q]]
  BY <1>1 DEF SeesInv, CursorInv, DataInv
<1>3. CursorInv'
  BY <1>1, <1>2 DEF CursorInv, Loading
<1>4. DataInv'
  BY <1>1, <1>2 DEF DataInv
<1> QED BY <1>1, <1>3, <1>4 DEF SeesInv, Loading

\* The file is read into the buffer.
LEMMA SeesCheckHeader == ASSUME ProcInv, SeesInv, CheckHeader PROVE SeesInv'
<1>1. pc = "check" /\ UNCHANGED <<top, prog>>
  BY DEF CheckHeader
<1>2. seg = 1 /\ j = 1 /\ data = [q \in 0..(top - 1) |-> data[q]]
  BY <1>1 DEF SeesInv, CursorInv, DataInv
<1>3. data' = [p \in 0..(top - 1) |->
        IF p \in FileBuffer THEN [k \in 0..(PageBytes - 1) |-> (p - phys_buf) * PageBytes + k + 1] ELSE data[p]]
  <2>1. DOMAIN data = 0..(top - 1)
    BY <1>2
  <2> QED BY <2>1 DEF CheckHeader
<1>4. data' = [p \in 0..(top - 1) |-> data'[p]]
  BY <1>3
<1>5. CASE prog.header = "bad"
  BY <1>1, <1>4, <1>5, SeesToShell DEF CheckHeader
<1>6. CASE prog.header # "bad"
  <2>1. pc' = "pagemap" /\ UNCHANGED <<phys_buf, seg, j, prog>> /\ FileBuffer' = FileBuffer
    BY <1>1, <1>6 DEF CheckHeader, FileBuffer
  <2>2. FileBuffer \subseteq 0..(top - 1)
    <3>1. PICK L : Held(L)
      BY DEF ProcInv
    <3>2. Buffer = FileBuffer
      BY <1>1 DEF ProcInv, CtlInv, Buffered, Buffer
    <3> QED BY <3>1, <3>2 DEF ProcInv, CtlInv, PoolTypes, Held
  <2>3. \A p \in FileBuffer, k \in 0..(PageBytes - 1) : data'[p][k] = (p - phys_buf) * PageBytes + k + 1
    BY <1>3, <2>2
  <2>4. DataInv'
    BY <1>1, <1>4, <2>1, <2>3 DEF DataInv
  <2>5. CursorInv'
    BY <1>2, <2>1 DEF CursorInv, Loading
  <2> QED BY <2>1, <2>4, <2>5 DEF SeesInv, Loading
<1> QED BY <1>5, <1>6

\* A new page map maps nothing, and nothing is loaded.
LEMMA SeesNewPagemap == ASSUME ProcInv, SeesInv, NewPagemap PROVE SeesInv'
<1>1. pc = "pagemap" /\ UNCHANGED <<top, prog, data>>
  BY DEF NewPagemap
<1>2. seg = 1 /\ j = 1 /\ data = [q \in 0..(top - 1) |-> data[q]]
      /\ \A p \in FileBuffer, k \in 0..(PageBytes - 1) : data[p][k] = (p - phys_buf) * PageBytes + k + 1
  BY <1>1 DEF SeesInv, CursorInv, DataInv
<1>3. CASE ToShell
  BY <1>1, <1>2, <1>3, SeesToShell
<1>4. CASE ~ToShell
  <2>1. PICK s \in Frames : /\ Alloc(s, 1) /\ process_pml4' = s
                          /\ mem' = [mem EXCEPT ![s] = [Empty EXCEPT ![KernelIndex] = mem[KernelPML4][KernelIndex]]]
    BY <1>4 DEF NewPagemap
  <2>2. pc' = "segments" /\ UNCHANGED <<phys_buf, seg, j>> /\ FileBuffer' = FileBuffer
    BY <1>1, <1>4 DEF NewPagemap, FileBuffer
  <2>3. s \in Nat \ {0} /\ s \in 0..(top - 1)
    BY <2>1, AllocOne DEF ProcInv, CtlInv, PoolTypes
  <2>4. \A k \in UserIndices : mem'[s][k] = 0
    <3>1. mem'[s] = [Empty EXCEPT ![KernelIndex] = mem[KernelPML4][KernelIndex]]
      BY <2>1, <2>3 DEF ProcInv, CtlInv, PoolTypes
    <3> QED BY <3>1 DEF Empty
  <2>5. \A v \in UserPages : Pages'[v] = 0
    <3>1. ASSUME NEW v \in UserPages PROVE Walk4(mem', s, v) = 0
      <4>1. v[1] \in UserIndices
        BY DEF UserPages
      <4>2. Walk1(mem', s, v) = 0
        BY <2>3, <2>4, <4>1 DEF Walk1, Step
      <4> QED BY <4>2 DEF Walk4, Walk3, Walk2, Step
    <3> QED BY <2>1, <3>1 DEF Pages
  <2>6. \A k \in DOMAIN prog.segs : Limit'[k] = 0
    <3>1. \A k \in DOMAIN prog.segs : k \in Nat /\ k >= 1
      BY Segments
    <3> QED BY <1>1, <1>2, <2>2, <3>1 DEF Limit
  <2>7. Stacked' = {}
    BY <2>2 DEF Stacked
  <2>8. Maps(prog, Pages', data', Limit', Stacked')
    <3>1. \A k \in DOMAIN prog.segs : \A i \in 1..Limit'[k] : FALSE
      BY <2>6
    <3>2. \A k \in DOMAIN prog.segs : \A v : v \notin LoadedPages(prog, Limit', k)
      BY <3>1 DEF LoadedPages
    <3> QED BY <2>5, <2>7, <3>1, <3>2 DEF Maps
  <2>9. CursorInv'
    BY <1>1, <1>2, <2>2, Segments DEF CursorInv, Loading
  <2>10. DataInv'
    BY <1>1, <1>2, <2>2 DEF DataInv
  <2> QED BY <1>1, <2>2, <2>8, <2>9, <2>10 DEF SeesInv, Loading
<1> QED BY <1>3, <1>4

\* A page is going to be mapped: what is loaded is the same.
LEMMA SeesMappingStarts ==
  ASSUME ProcInv, SeesInv, pc = "segments", NEW s, NEW v, StartMapping(s, v),
         UNCHANGED <<top, mem, data, prog>>,
         seg' \in Nat \ {0}, j' \in Nat \ {0},
         \A k \in DOMAIN prog.segs :
           Limit[k] = IF k < seg' THEN PageCount(prog.segs[k]) ELSE IF k > seg' THEN 0 ELSE j' - 2,
         IF seg' <= Len(prog.segs)
           THEN j' - 1 \in 1..PageCount(prog.segs[seg']) /\ v = SegPage(prog.segs[seg'], j' - 1)
           ELSE seg' = Len(prog.segs) + 2 /\ v = StackPage
  PROVE  SeesInv'
<1>1. /\ vpage' = v /\ level' = 1 /\ table' = process_pml4 /\ pc' \in {"map", "kernel_half"}
      /\ UNCHANGED <<phys_buf, process_pml4>> /\ FileBuffer' = FileBuffer
  BY DEF StartMapping, FileBuffer
<1>2. DataInv'
  BY <1>1 DEF SeesInv, DataInv
<1>3. CASE pc' = "kernel_half"
  <2>1. CursorInv'
    BY <1>3 DEF CursorInv, Loading
  <2> QED BY <1>2, <1>3, <2>1 DEF SeesInv, Loading
<1>4. CASE pc' = "map"
  <2>1. CursorInv'
    <3>1. level' - 1 = 0 /\ WalkTo(mem', process_pml4', vpage', 0) = process_pml4'
      BY <1>1 DEF WalkTo
    <3>2. table' = WalkTo(mem', process_pml4', vpage', level' - 1)
      BY <1>1, <3>1
    <3> QED BY <1>1, <1>4, <3>2 DEF CursorInv, Loading
  <2>2. Pages' = Pages /\ Stacked' = {} /\ Stacked = {}
    BY <1>1, <1>4 DEF Pages, Stacked
  <2>3. Limit' = Limit
    <3>1. \A k \in DOMAIN prog.segs : Limit'[k] = Limit[k]
      BY <1>4 DEF Limit
    <3>2. PICK a : a = Limit'
      OBVIOUS
    <3>3. PICK b : b = Limit
      OBVIOUS
    <3>4. a = [k \in DOMAIN prog.segs |-> a[k]] /\ b = [k \in DOMAIN prog.segs |-> b[k]]
      BY <3>2, <3>3 DEF Limit
    <3>5. \A k \in DOMAIN prog.segs : a[k] = b[k]
      BY <3>1, <3>2, <3>3
    <3>6. a = b
      BY <3>4, <3>5
    <3> QED BY <3>2, <3>3, <3>6
  <2>4. Maps(prog, Pages, data, Limit, {})
    BY <2>2 DEF SeesInv, Loading
  <2> QED BY <1>2, <1>4, <2>1, <2>2, <2>3, <2>4 DEF SeesInv, Loading
<1> QED BY <1>1, <1>3, <1>4

LEMMA SeesLoadPage == ASSUME ProcInv, SeesInv, LoadPage PROVE SeesInv'
<1>1. pc = "segments" /\ seg <= Len(prog.segs) /\ UNCHANGED <<top, mem, data, prog>>
  BY DEF LoadPage
<1> DEFINE sg == prog.segs[seg]
<1>2. /\ seg \in Nat \ {0} /\ j \in Nat \ {0} /\ j <= PageCount(sg) + 1
      /\ data = [q \in 0..(top - 1) |-> data[q]]
  BY <1>1 DEF SeesInv, CursorInv, DataInv, Loading
<1>3. /\ Len(prog.segs) \in Nat /\ DOMAIN prog.segs = 1..Len(prog.segs) /\ seg \in 1..Len(prog.segs)
      /\ PageCount(sg) \in Nat
  BY <1>1, <1>2, Segments
<1>4. \A k \in DOMAIN prog.segs :
        Limit[k] = IF k < seg THEN PageCount(prog.segs[k]) ELSE IF k > seg THEN 0 ELSE j - 1
  BY <1>1 DEF Limit
<1>5. CASE \E b : GiveUp(b)
  BY <1>1, <1>2, <1>5, SeesToShell DEF GiveUp
<1>6. CASE /\ j <= PageCount(sg) /\ \E s \in Frames : StartMapping(s, VPage(sg.vaddr \div PageBytes + j - 1))
           /\ j' = j + 1 /\ seg' = seg
  <2>1. PICK s \in Frames : StartMapping(s, VPage(sg.vaddr \div PageBytes + j - 1))
    BY <1>6
  <2>2. j' - 1 = j /\ j' - 2 = j - 1 /\ j' \in Nat \ {0} /\ j' - 1 \in 1..PageCount(sg)
    BY <1>2, <1>3, <1>6
  <2>3. VPage(sg.vaddr \div PageBytes + j - 1) = SegPage(prog.segs[seg'], j' - 1)
    BY <1>6, <2>2 DEF SegPage
  <2>4. \A k \in DOMAIN prog.segs :
          Limit[k] = IF k < seg' THEN PageCount(prog.segs[k]) ELSE IF k > seg' THEN 0 ELSE j' - 2
    BY <1>4, <1>6, <2>2
  <2>5. seg' \in Nat \ {0} /\ seg' <= Len(prog.segs) /\ j' - 1 \in 1..PageCount(prog.segs[seg'])
    BY <1>1, <1>2, <1>6, <2>2
  <2> QED BY <1>1, <2>1, <2>2, <2>3, <2>4, <2>5, SeesMappingStarts
<1>7. CASE /\ j > PageCount(sg) /\ seg' = seg + 1 /\ j' = 1
           /\ UNCHANGED <<alloc, pc, phys_buf, process_pml4, mapping>>
  <2>1. pc' = "segments" /\ UNCHANGED <<phys_buf, process_pml4>> /\ FileBuffer' = FileBuffer
    BY <1>1, <1>7 DEF FileBuffer
  <2>2. j - 1 = PageCount(sg)
    BY <1>2, <1>3, <1>7
  <2>3. Limit' = Limit
    <3>1. ASSUME NEW k \in DOMAIN prog.segs PROVE Limit'[k] = Limit[k]
      <4>1. k \in Nat
        BY <1>3
      <4>2. Limit'[k] = IF k < seg + 1 THEN PageCount(prog.segs[k]) ELSE IF k > seg + 1 THEN 0 ELSE 0
        BY <1>1, <1>7, <2>1 DEF Limit
      <4>3. CASE k < seg
        BY <1>2, <1>4, <4>1, <4>2, <4>3
      <4>4. CASE k = seg
        BY <1>2, <1>4, <2>2, <4>1, <4>2, <4>4
      <4>5. CASE k > seg
        BY <1>2, <1>4, <4>1, <4>2, <4>5
      <4> QED BY <1>2, <4>1, <4>3, <4>4, <4>5
    <3>2. Limit' = [k \in DOMAIN prog.segs |-> Limit'[k]] /\ Limit = [k \in DOMAIN prog.segs |-> Limit[k]]
      BY <1>1 DEF Limit
    <3> QED BY <3>1, <3>2
  <2>4. Pages' = Pages /\ Stacked' = Stacked
    BY <1>1, <2>1 DEF Pages, Stacked
  <2>5. Maps(prog, Pages, data, Limit, Stacked)
    BY <1>1 DEF SeesInv, Loading
  <2>6. CursorInv'
    <3>1. seg' \in Nat \ {0} /\ j' \in Nat \ {0} /\ seg' <= Len(prog.segs) + 1
      BY <1>1, <1>2, <1>3, <1>7
    <3>2. ASSUME seg' <= Len(prog.segs) PROVE j' <= PageCount(prog.segs[seg']) + 1
      <4>1. PageCount(prog.segs[seg']) \in Nat
        BY <3>1, <3>2, Segments
      <4> QED BY <1>7, <4>1
    <3> QED BY <1>1, <2>1, <3>1, <3>2 DEF CursorInv, Loading
  <2>7. DataInv'
    BY <1>1, <2>1 DEF SeesInv, DataInv
  <2> QED BY <1>1, <2>1, <2>3, <2>4, <2>5, <2>6, <2>7 DEF SeesInv, Loading
<1> QED BY <1>5, <1>6, <1>7 DEF LoadPage

LEMMA SeesLoadStack == ASSUME ProcInv, SeesInv, LoadStack PROVE SeesInv'
<1>1. pc = "segments" /\ seg = Len(prog.segs) + 1 /\ UNCHANGED <<top, mem, data, prog>>
  BY DEF LoadStack
<1>2. /\ j \in Nat \ {0} /\ data = [q \in 0..(top - 1) |-> data[q]]
      /\ Len(prog.segs) \in Nat /\ DOMAIN prog.segs = 1..Len(prog.segs)
  BY <1>1, Segments DEF SeesInv, CursorInv, DataInv, Loading
<1>3. CASE \E b : GiveUp(b)
  BY <1>1, <1>2, <1>3, SeesToShell DEF GiveUp
<1>4. CASE (\E s \in Frames : StartMapping(s, StackPage)) /\ seg' = seg + 1 /\ j' = j
  <2>1. PICK s \in Frames : StartMapping(s, StackPage)
    BY <1>4
  <2>2. seg' = Len(prog.segs) + 2 /\ seg' \in Nat \ {0} /\ ~(seg' <= Len(prog.segs)) /\ j' \in Nat \ {0}
    BY <1>1, <1>2, <1>4
  <2>3. ASSUME NEW k \in DOMAIN prog.segs
        PROVE  Limit[k] = IF k < seg' THEN PageCount(prog.segs[k]) ELSE IF k > seg' THEN 0 ELSE j' - 2
    <3>1. k < seg /\ k < seg'
      BY <1>1, <1>2, <2>2
    <3> QED BY <1>1, <3>1 DEF Limit
  <2> QED BY <1>1, <2>1, <2>2, <2>3, SeesMappingStarts
<1> QED BY <1>3, <1>4 DEF LoadStack

\* vmm_map_page at a missing table: where the new one is entered.
LEMMA TableAdded ==
  ASSUME ProcInv, pc = "map", level < 4, NEW L, Held(L), NEW s \in Frames, Alloc(s, 1),
         mem[table][vpage[level]] = 0, NEW m2,
         m2 = [mem EXCEPT ![s] = NewTable(s), ![table] = [@ EXCEPT ![vpage[level]] = s]]
  PROVE  EntrySet(mem, L, level - 1, table, vpage[level], s, m2) /\ TreeOK(mem, process_pml4, L)
<1>1. process_pml4 # 0 /\ level \in 1..4 /\ PoolTypes /\ top \in TopPages
  BY DEF ProcInv, CtlInv, Mapped
<1>2. TreeOK(mem, process_pml4, L) /\ table \in L[level - 1]
  BY <1>1 DEF Held
<1>3. PICK k : k = vpage[level]
  OBVIOUS
<1>4. k \in UserIndices
  BY <1>1, <1>3, IndexAt DEF PoolTypes
<1>5. level - 1 \in 0..3 /\ level - 1 < 3 /\ level - 1 \in Levels
  BY <1>1 DEF Levels
<1>6. mem \in [0..top -> [Indices -> 0..top]] /\ top \in Nat /\ top > 2
  BY <1>1 DEF PoolTypes
<1>7. s \notin bitmap /\ s \in Nat \ {0} /\ s \in 0..(top - 1)
  BY <1>1, AllocOne DEF PoolTypes
<1>8. TreePages(L) \subseteq bitmap /\ TreePages(L) \subseteq 0..(top - 1) /\ s \notin TreePages(L)
  BY <1>1, <1>7 DEF Held, PoolTypes
<1>9. table \in TreePages(L) /\ table \in 0..(top - 1) /\ table # s
  BY <1>2, <1>5, <1>8, InTree
<1>10. PICK row : row = [mem[table] EXCEPT ![k] = s]
  OBVIOUS
<1>11. \A l \in Indices : row[l] = IF l = k THEN s ELSE mem[table][l]
  <2>1. table \in 0..top
    BY <1>6, <1>9
  <2>2. mem[table] \in [Indices -> 0..top]
    BY <1>6, <2>1
  <2> QED BY <1>4, <1>10, <2>2
<1>12. m2 = [mem EXCEPT ![s] = Empty, ![table] = row]
  BY <1>3, <1>6, <1>7, <1>9, <1>10 DEF NewTable
<1>13. m2[s] = Empty /\ m2[table] = row /\ \A x \in 0..(top - 1) : x # s /\ x # table => m2[x] = mem[x]
  BY <1>6, <1>7, <1>9, <1>12
<1>14. ASSUME NEW x \in TreePages(L), NEW l \in Indices
       PROVE  m2[x][l] = IF x = table /\ l = k THEN s ELSE mem[x][l]
  <2>1. x \in 0..(top - 1) /\ x # s
    BY <1>8
  <2>2. CASE x = table
    BY <1>11, <1>13, <2>2
  <2>3. CASE x # table
    <3>1. m2[x] = mem[x]
      BY <1>13, <2>1, <2>3
    <3> QED BY <2>3, <3>1
  <2> QED BY <2>2, <2>3
<1>15. \A l \in Indices : m2[s][l] = 0
  BY <1>13 DEF Empty
<1>16. PICK d : d = level - 1
  OBVIOUS
<1>17. EntrySet(mem, L, d, table, k, s, m2)
  BY <1>2, <1>3, <1>4, <1>5, <1>7, <1>8, <1>14, <1>15, <1>16 DEF EntrySet
<1> QED BY <1>2, <1>3, <1>16, <1>17

\* A walk goes on at the table it has reached.
LEMMA WalkOn ==
  ASSUME NEW m, NEW r, NEW v, NEW d \in 0..2, NEW t, t # 0, t = WalkTo(m, r, v, d)
  PROVE  WalkTo(m, r, v, d + 1) = m[t][v[d + 1]]
<1>1. CASE d = 0
  BY <1>1 DEF WalkTo, Walk1, Step
<1>2. CASE d = 1
  BY <1>2 DEF WalkTo, Walk2, Step
<1>3. CASE d = 2
  BY <1>3 DEF WalkTo, Walk3, Step
<1> QED BY <1>1, <1>2, <1>3

\* vmm_map_page goes one level down: what is mapped and loaded is the same.
LEMMA SeesWalkTable == ASSUME ProcInv, SeesInv, WalkTable, ~zeroed' PROVE SeesInv'
<1>1. /\ pc = "map" /\ level < 4
      /\ UNCHANGED <<top, data, pc, prog, phys_buf, process_pml4, seg, j, frame, vpage>> /\ FileBuffer' = FileBuffer
  BY DEF WalkTable, FileBuffer
<1>2. PICK L : Held(L)
  BY DEF ProcInv
<1>3. PICK d : d = level - 1
  OBVIOUS
<1>4. /\ process_pml4 # 0 /\ level \in 1..4 /\ d \in 0..2 /\ d + 1 = level /\ d < 3
      /\ PoolTypes /\ top \in TopPages /\ vpage \in UserPages
  <2>1. process_pml4 # 0 /\ level \in 1..4 /\ PoolTypes /\ top \in TopPages
    BY <1>1 DEF ProcInv, CtlInv, Mapped
  <2>2. vpage \in UserPages
    BY <1>1, <2>1 DEF PoolTypes
  <2>3. d \in 0..2 /\ d + 1 = level /\ d < 3
    BY <1>1, <1>3, <2>1
  <2> QED BY <2>1, <2>2, <2>3
<1>5. TreeOK(mem, process_pml4, L) /\ table \in L[d] /\ table # 0
  <2>1. TreeOK(mem, process_pml4, L) /\ table \in L[d] /\ d \in Levels
    BY <1>1, <1>2, <1>3, <1>4 DEF Held, Levels
  <2> QED BY <2>1 DEF TreeOK
<1>6. table = WalkTo(mem, process_pml4, vpage, d) /\ Maps(prog, Pages, data, Limit, {}) /\ Stacked = {}
  BY <1>1, <1>3 DEF SeesInv, CursorInv, Loading, Stacked
<1>8. ASSUME pc' = "map", level' = level + 1, table' = WalkTo(mem', process_pml4, vpage, d + 1),
             \A v \in UserPages : Walk4(mem', process_pml4, v) = Walk4(mem, process_pml4, v)
      PROVE  SeesInv'
  <2>1. CursorInv'
    <3>1. level' - 1 = d + 1
      BY <1>4, <1>8
    <3>2. table' = WalkTo(mem', process_pml4', vpage', level' - 1)
      BY <1>1, <1>8, <3>1
    <3> QED BY <1>1, <1>8, <3>2 DEF SeesInv, CursorInv, Loading
  <2>2. DataInv'
    BY <1>1, <1>8 DEF SeesInv, DataInv
  <2>3. Limit' = Limit /\ Pages' = Pages /\ Stacked' = {}
    BY <1>1, <1>8 DEF Limit, Pages, Stacked
  <2> QED BY <1>1, <1>6, <1>8, <2>1, <2>2, <2>3 DEF SeesInv, Loading
<1>9. CASE table' = mem[table][vpage[level]] /\ level' = level + 1 /\ UNCHANGED <<alloc, mem>>
  <2>1. WalkTo(mem, process_pml4, vpage, d + 1) = mem[table][vpage[d + 1]]
    BY <1>4, <1>5, <1>6, WalkOn
  <2>2. mem' = mem /\ pc' = "map" /\ table' = WalkTo(mem', process_pml4, vpage, d + 1)
    BY <1>1, <1>4, <1>9, <2>1
  <2> QED BY <1>8, <1>9, <2>2
<1>10. CASE \E s \in Frames :
              /\ mem[table][vpage[level]] = 0 /\ Alloc(s, 1) /\ table' = s /\ level' = level + 1 /\ pc' = pc
              /\ mem' = [mem EXCEPT ![s] = NewTable(s), ![table] = [@ EXCEPT ![vpage[level]] = s]]
  <2>1. PICK s \in Frames :
              /\ mem[table][vpage[level]] = 0 /\ Alloc(s, 1) /\ table' = s /\ level' = level + 1 /\ pc' = pc
              /\ mem' = [mem EXCEPT ![s] = NewTable(s), ![table] = [@ EXCEPT ![vpage[level]] = s]]
    BY <1>10
  <2>2. PICK m2 : m2 = mem'
    OBVIOUS
  <2>3. PICK m : m = mem
    OBVIOUS
  <2>4. PICK r : r = process_pml4
    OBVIOUS
  <2>5. PICK p : p = table
    OBVIOUS
  <2>6. PICK k : k = vpage[level]
    OBVIOUS
  <2>7. EntrySet(m, L, d, p, k, s, m2) /\ TreeOK(m, r, L)
    <3>1. EntrySet(mem, L, level - 1, table, vpage[level], s, m2)
      BY <1>1, <1>2, <2>1, <2>2, TableAdded
    <3> QED BY <1>3, <1>5, <2>3, <2>4, <2>5, <2>6, <3>1
  <2>8. \A v \in UserPages : /\ Walk4(m2, r, v) = Walk4(m, r, v)
                             /\ WalkTo(m, r, v, d) = p /\ v[d + 1] = k => WalkTo(m2, r, v, d + 1) = s
    BY <1>4, <2>7, NewTableWalks
  <2>9. WalkTo(m, r, vpage, d) = p /\ vpage[d + 1] = k
    BY <1>4, <1>6, <2>3, <2>4, <2>5, <2>6
  <2>10. WalkTo(m2, r, vpage, d + 1) = s
    BY <1>4, <2>8, <2>9
  <2>11. table' = WalkTo(mem', process_pml4, vpage, d + 1) /\ pc' = "map" /\ level' = level + 1
    BY <1>1, <2>1, <2>2, <2>4, <2>10
  <2>12. \A v \in UserPages : Walk4(mem', process_pml4, v) = Walk4(mem, process_pml4, v)
    BY <2>2, <2>3, <2>4, <2>8
  <2> QED BY <1>8, <2>11, <2>12
<1> QED BY <1>1, <1>9, <1>10 DEF WalkTable, HangTable

\* What MapFrame writes into the page tables.
LEMMA FrameMapped ==
  ASSUME ProcInv, pc = "map", level = 4, NEW L, Held(L), NEW m2,
         m2 = [mem EXCEPT ![table] = [@ EXCEPT ![vpage[4]] = frame], ![frame] = Garbage]
  PROVE  /\ EntrySet(mem, L, 3, table, vpage[4], frame, m2) /\ TreeOK(mem, process_pml4, L)
         /\ frame \in 0..(top - 1) /\ frame # 0 /\ frame \notin TreePages(L) /\ frame \notin FileBuffer
         /\ TreePages(L) \subseteq 0..(top - 1) /\ FileBuffer \subseteq 0..(top - 1)
<1>1. process_pml4 # 0 /\ phys_buf # 0 /\ frame # 0 /\ PoolTypes /\ top \in TopPages
  BY DEF ProcInv, CtlInv, Mapped, Buffered, Mapping
<1>2. TreeOK(mem, process_pml4, L) /\ table \in L[3]
  <2>1. level - 1 = 3
    OBVIOUS
  <2> QED BY <1>1, <2>1 DEF Held
<1>3. PICK k : k = vpage[4]
  OBVIOUS
<1>4. k \in UserIndices
  BY <1>1, <1>3, IndexAt DEF PoolTypes
<1>5. mem \in [0..top -> [Indices -> 0..top]] /\ top \in Nat /\ bitmap \subseteq 0..(top - 1)
  BY <1>1 DEF PoolTypes
<1>6. PICK s : s = frame
  OBVIOUS
<1>7. /\ Framed = {s} /\ Buffer = FileBuffer /\ s \in bitmap /\ s \notin TreePages(L) /\ s \notin Buffer
      /\ TreePages(L) \subseteq bitmap /\ Buffer \subseteq bitmap
  <2>1. Framed = {s} /\ Buffer = FileBuffer
    BY <1>1, <1>6 DEF Framed, Buffer
  <2> QED BY <2>1 DEF Held, Apart
<1>8. s \in 0..(top - 1) /\ s \in Nat \ {0}
  BY <1>1, <1>5, <1>6, <1>7
<1>9. table \in TreePages(L) /\ table \in 0..(top - 1) /\ table # s
  <2>1. table \in TreePages(L)
    BY <1>2, InTree DEF Levels
  <2> QED BY <1>5, <1>7, <2>1
<1>10. PICK row : row = [mem[table] EXCEPT ![k] = s]
  OBVIOUS
<1>11. \A l \in Indices : row[l] = IF l = k THEN s ELSE mem[table][l]
  <2>1. table \in 0..top
    BY <1>5, <1>9
  <2>2. mem[table] \in [Indices -> 0..top]
    BY <1>5, <2>1
  <2> QED BY <1>4, <1>10, <2>2
<1>12. m2 = [mem EXCEPT ![table] = row, ![s] = Garbage]
  BY <1>3, <1>5, <1>6, <1>9, <1>10
<1>13. m2[table] = row /\ \A x \in 0..(top - 1) : x # s /\ x # table => m2[x] = mem[x]
  <2>1. s \in 0..top /\ table \in 0..top /\ 0..(top - 1) \subseteq 0..top
    BY <1>5, <1>8, <1>9
  <2> QED BY <1>5, <1>9, <1>12, <2>1
<1>14. ASSUME NEW x \in TreePages(L), NEW l \in Indices
       PROVE  m2[x][l] = IF x = table /\ l = k THEN s ELSE mem[x][l]
  <2>1. x \in 0..(top - 1) /\ x # s
    BY <1>5, <1>7
  <2>2. CASE x = table
    BY <1>11, <1>13, <2>2
  <2>3. CASE x # table
    <3>1. m2[x] = mem[x]
      BY <1>13, <2>1, <2>3
    <3> QED BY <2>3, <3>1
  <2> QED BY <2>2, <2>3
<1>15. EntrySet(mem, L, 3, table, k, s, m2)
  <2>1. 3 \in 0..3 /\ ~(3 < 3)
    OBVIOUS
  <2> QED BY <1>2, <1>4, <1>7, <1>8, <1>14, <2>1, Zenon DEF EntrySet
<1> QED BY <1>1, <1>2, <1>3, <1>5, <1>6, <1>7, <1>8, <1>15

\* The page is cleared and filled from the file.
LEMMA PageFilled ==
  ASSUME ProcInv, SeesInv, pc = "map", seg <= Len(prog.segs), NEW cur,
         cur = (prog.segs[seg].vaddr \div PageBytes + j - 2) * PageBytes
  PROVE  Holds(prog, prog.segs[seg], j - 1, SegmentPage(prog.segs[seg], cur))
<1>1. PICK s \in SegmentType : s = prog.segs[seg]
  <2>1. seg \in Nat \ {0}
    BY DEF SeesInv, CursorInv, Loading
  <2> QED BY <2>1, Segments
<1>2. PICK i \in Nat \ {0} : i = j - 1 /\ j \in Nat
  BY DEF SeesInv, CursorInv, Loading
<1>3. PageBytes \in Nat \ {0} /\ prog.file_pages \in Nat
  BY Numbers, Segments
<1>4. PICK q \in Nat : q = s.vaddr \div PageBytes + i - 1 /\ cur = q * PageBytes
  <2>1. s.vaddr \in Nat
    BY DEF SegmentType
  <2>2. PICK b \in Nat : b = s.vaddr \div PageBytes
    BY <1>3, <2>1, DivMod
  <2>3. b + i - 1 \in Nat /\ b + j - 2 = b + i - 1
    BY <1>2, <2>2
  <2> QED BY <1>1, <2>2, <2>3
<1>5. ASSUME NEW n \in 0..(s.memsz - 1), Asked(prog, s, i, n)
      PROVE  SegmentPage(s, cur)[(s.vaddr + n) % PageBytes] = IF n < s.filesz THEN s.offset + n + 1 ELSE 0
  <2>1. (s.vaddr + n) \div PageBytes = q /\ (n < s.filesz => s.offset + n < prog.file_pages * PageBytes)
    BY <1>4, <1>5 DEF Asked
  <2>2. PICK k : k = (s.vaddr + n) % PageBytes
    OBVIOUS
  <2>3. PICK c : c = Copied(s, cur)
    OBVIOUS
  <2>4. /\ n < s.filesz <=> k \in c.start..(c.start + c.size - 1)
        /\ c.src + (k - c.start) = s.offset + n
        /\ k \in 0..(PageBytes - 1)
    BY <1>4, <2>1, <2>2, <2>3, CopiedBytes
  <2>5. SegmentPage(s, cur)[k] =
          IF k \in c.start..(c.start + c.size - 1) THEN FileByte(c.src + (k - c.start)) ELSE 0
    BY <2>3, <2>4 DEF SegmentPage
  <2>6. SegmentPage(s, cur)[k] = IF n < s.filesz THEN FileByte(s.offset + n) ELSE 0
    BY <2>4, <2>5
  <2>7. ASSUME n < s.filesz PROVE FileByte(s.offset + n) = s.offset + n + 1
    <3>1. PICK a \in Nat : a = s.offset + n /\ a < prog.file_pages * PageBytes
      BY <2>1, <2>7 DEF SegmentType
    <3>2. PICK g \in Nat, h \in 0..(PageBytes - 1) : g = a \div PageBytes /\ h = a % PageBytes /\ a = PageBytes * g + h
      <4>1. a \div PageBytes \in Nat /\ a % PageBytes \in 0..(PageBytes - 1)
        BY <1>3, DivMod
      <4>2. a = PageBytes * (a \div PageBytes) + (a % PageBytes)
        BY <1>3, DivMod
      <4> QED BY <4>1, <4>2
    <3>3. g < prog.file_pages
      <4>1. SUFFICES ASSUME ~(g < prog.file_pages) PROVE FALSE
        OBVIOUS
      <4>2. PageBytes * prog.file_pages <= PageBytes * g /\ PageBytes * prog.file_pages \in Nat /\ PageBytes * g \in Nat
        BY <1>3, <4>1, MulOrder
      <4>3. prog.file_pages * PageBytes = PageBytes * prog.file_pages
        BY <1>3
      <4> QED BY <3>1, <3>2, <4>2, <4>3
    <3>4. phys_buf \in Nat
      BY DEF ProcInv, CtlInv, PoolTypes, Pool
    <3>5. PICK x : x = phys_buf + g
      OBVIOUS
    <3>6. x \in FileBuffer /\ x - phys_buf = g
      BY <1>3, <3>3, <3>4, <3>5 DEF FileBuffer
    <3>7. FileByte(a) = data[x][h]
      BY <3>2, <3>5, <3>6 DEF FileByte
    <3>8. data[x][h] = (x - phys_buf) * PageBytes + h + 1
      BY <3>6 DEF SeesInv, DataInv
    <3>9. (x - phys_buf) * PageBytes = PageBytes * g
      BY <1>3, <3>6
    <3> QED BY <3>1, <3>2, <3>7, <3>8, <3>9
  <2> QED BY <2>2, <2>6, <2>7
<1>6. Holds(prog, s, i, SegmentPage(s, cur))
  BY <1>5 DEF Holds
<1> QED BY <1>1, <1>2, <1>6

\* The stack page gets the argument string.
LEMMA StackFilled == ASSUME ProcInv PROVE StackHolds(StackData)
<1> SUFFICES ASSUME prog.args # NULL
             PROVE  [k \in 1..(PageBytes - user_stack_ptr) |-> StackData[user_stack_ptr + k - 1]] = Append(prog.args, 0)
  BY DEF StackHolds
<1>1. PageBytes \in Nat \ {0} /\ prog.args \in Seq(Nat) /\ Len(prog.args) < PageBytes
  BY Numbers, Segments
<1>2. PICK str : str = Append(prog.args, 0)
  OBVIOUS
<1>3. str \in Seq(Nat) /\ Len(str) = Len(prog.args) + 1
  BY <1>1, <1>2
<1>4. PICK u \in Nat : u = user_stack_ptr /\ PageBytes - u = Len(str)
  <2>1. user_stack_ptr = PageBytes - (Len(prog.args) + 1)
    BY DEF user_stack_ptr
  <2>2. Len(prog.args) \in Nat
    BY <1>1
  <2>3. \A P, n \in Nat : n < P => P - (n + 1) \in Nat /\ P - (P - (n + 1)) = n + 1
    OBVIOUS
  <2>4. PageBytes - (Len(prog.args) + 1) \in Nat /\ PageBytes - (PageBytes - (Len(prog.args) + 1)) = Len(prog.args) + 1
    BY <1>1, <2>2, <2>3
  <2> QED BY <1>3, <2>1, <2>4
<1>5. ASSUME NEW k \in 1..Len(str) PROVE StackData[u + k - 1] = str[k]
  <2>1. u + k - 1 \in 0..(PageBytes - 1) /\ ~(u + k - 1 < u) /\ u + k - 1 - u + 1 = k
    BY <1>1, <1>3, <1>4
  <2>2. \A x \in 0..(PageBytes - 1) : StackData[x] = IF x < u THEN data[frame][x] ELSE str[x - u + 1]
    BY <1>2, <1>4 DEF StackData
  <2> QED BY <2>1, <2>2
<1>6. str = [k \in 1..Len(str) |-> str[k]]
  BY <1>3
<1>7. [k \in 1..(PageBytes - u) |-> StackData[u + k - 1]] = [k \in 1..Len(str) |-> str[k]]
  BY <1>4, <1>5
<1> QED BY <1>2, <1>4, <1>6, <1>7

\* The page is mapped and filled: one page more is loaded.
LEMMA SeesMapFrame == ASSUME ProcInv, SeesInv, MapFrame PROVE SeesInv'
<1>1. /\ pc = "map" /\ level = 4
      /\ UNCHANGED <<top, prog, phys_buf, process_pml4, seg, j>> /\ FileBuffer' = FileBuffer
  BY DEF MapFrame, FileBuffer
<1>2. PICK L : Held(L)
  BY DEF ProcInv
<1>3. PICK m2 : m2 = mem'
  OBVIOUS
<1>4. m2 = [mem EXCEPT ![table] = [@ EXCEPT ![vpage[4]] = frame], ![frame] = Garbage]
  BY <1>3 DEF MapFrame
<1>5. /\ EntrySet(mem, L, 3, table, vpage[4], frame, m2) /\ TreeOK(mem, process_pml4, L)
      /\ frame \in 0..(top - 1) /\ frame # 0 /\ frame \notin TreePages(L) /\ frame \notin FileBuffer
      /\ TreePages(L) \subseteq 0..(top - 1) /\ FileBuffer \subseteq 0..(top - 1)
  BY <1>1, <1>2, <1>4, FrameMapped
<1>6. vpage \in UserPages /\ Walk3(mem, process_pml4, vpage) = table
  <2>1. level - 1 = 3 /\ table = WalkTo(mem, process_pml4, vpage, level - 1)
    BY <1>1 DEF SeesInv, CursorInv
  <2>2. table = WalkTo(mem, process_pml4, vpage, 3)
    BY <2>1
  <2>3. vpage \in UserPages
    BY <1>1 DEF ProcInv, CtlInv, PoolTypes
  <2> QED BY <2>2, <2>3 DEF WalkTo
<1>7. \A v \in UserPages : Walk4(m2, process_pml4, v) = IF v = vpage THEN frame ELSE Walk4(mem, process_pml4, v)
  <2>1. PICK k, p, s, r, m : k = vpage[4] /\ p = table /\ s = frame /\ r = process_pml4 /\ m = mem
    OBVIOUS
  <2>2. EntrySet(m, L, 3, p, k, s, m2) /\ TreeOK(m, r, L) /\ Walk3(m, r, vpage) = p /\ vpage[4] = k
    BY <1>5, <1>6, <2>1
  <2>3. \A v \in UserPages : Walk4(m2, r, v) = IF v = vpage THEN s ELSE Walk4(m, r, v)
    BY <1>6, <2>2, LeafWalks
  <2> QED BY <2>1, <2>3
<1>8. \A v \in UserPages : Pages'[v] = IF v = vpage THEN frame ELSE Pages[v]
  BY <1>1, <1>3, <1>7 DEF Pages
<1>9. PICK X : data' = [data EXCEPT ![frame] = X]
             /\ \/ seg > Len(prog.segs) /\ X = StackData /\ pc' = "enter"
                \/ /\ seg <= Len(prog.segs) /\ pc' = "segments"
                   /\ X = SegmentPage(prog.segs[seg], (prog.segs[seg].vaddr \div PageBytes + j - 2) * PageBytes)
  BY DEF MapFrame
<1>10. PICK D2 : D2 = data'
  OBVIOUS
<1>11. data = [p \in 0..(top - 1) |-> data[p]]
  BY DEF SeesInv, DataInv
<1>12. D2 = [p \in 0..(top - 1) |-> D2[p]] /\ D2[frame] = X /\ \A x \in 0..(top - 1) : x # frame => D2[x] = data[x]
  BY <1>5, <1>9, <1>10, <1>11
<1>13. \A v \in UserPages : Pages[v] # 0 => D2[Pages[v]] = data[Pages[v]]
  <2> SUFFICES ASSUME NEW v \in UserPages, Pages[v] # 0 PROVE D2[Pages[v]] = data[Pages[v]]
    OBVIOUS
  <2>1. Pages[v] = Walk4(mem, process_pml4, v)
    BY DEF Pages
  <2>2. Pages[v] \in L[4]
    BY <1>5, <2>1, WalkLevels
  <2>3. Pages[v] \in TreePages(L)
    BY <2>2, InTree DEF Levels
  <2> QED BY <1>5, <1>12, <2>3
<1>14. Maps(prog, Pages, data, Limit, {}) /\ seg \in Nat \ {0} /\ j \in Nat \ {0}
  BY <1>1 DEF SeesInv, Loading, Stacked, CursorInv
<1>15. prog \in Programs /\ Len(prog.segs) \in Nat /\ DOMAIN prog.segs = 1..Len(prog.segs)
  BY Segments
<1>16. CASE seg > Len(prog.segs)
  <2>1. X = StackData /\ pc' = "enter" /\ seg = Len(prog.segs) + 2 /\ vpage = StackPage
    BY <1>1, <1>9, <1>14, <1>15, <1>16 DEF SeesInv, CursorInv
  <2>2. Maps(prog, Pages', D2, Limit, {StackPage})
    <3>1. Repointed(Pages, Pages', StackPage, frame)
      BY <1>5, <1>8, <2>1 DEF Repointed
    <3>2. Kept(Pages, data, D2)
      BY <1>13 DEF Kept
    <3> QED BY <1>14, <1>15, <3>1, <3>2, StackMapped
  <2>3. Limit' = Limit
    <3>1. \A k \in DOMAIN prog.segs : k < seg
      BY <1>15, <2>1
    <3>2. \A k \in DOMAIN prog.segs : Limit'[k] = Limit[k]
      BY <1>1, <3>1 DEF Limit
    <3>3. Limit' = [k \in DOMAIN prog.segs |-> Limit'[k]] /\ Limit = [k \in DOMAIN prog.segs |-> Limit[k]]
      BY <1>1 DEF Limit
    <3> QED BY <3>2, <3>3
  <2>4. Stacked' = {StackPage}
    BY <2>1 DEF Stacked
  <2>5. StackHolds(D2[Pages'[StackPage]])
    <3>1. D2[Pages'[StackPage]] = StackData
      BY <1>6, <1>8, <1>12, <2>1
    <3> QED BY <3>1, StackFilled
  <2>6. StackHolds(data[Pages[StackPage]])'
    BY <1>1, <1>10, <2>5 DEF StackHolds, user_stack_ptr
  <2>7. CursorInv'
    BY <1>1, <1>14, <2>1 DEF CursorInv, Loading
  <2>8. DataInv'
    BY <1>1, <1>10, <1>12, <2>1 DEF DataInv
  <2> QED BY <1>1, <1>10, <2>1, <2>2, <2>3, <2>4, <2>6, <2>7, <2>8 DEF SeesInv, Loading
<1>17. CASE seg <= Len(prog.segs)
  <2>1. /\ pc' = "segments" /\ j - 1 \in 1..PageCount(prog.segs[seg]) /\ vpage = SegPage(prog.segs[seg], j - 1)
        /\ X = SegmentPage(prog.segs[seg], (prog.segs[seg].vaddr \div PageBytes + j - 2) * PageBytes)
    BY <1>1, <1>9, <1>14, <1>15, <1>17 DEF SeesInv, CursorInv
  <2>2. Holds(prog, prog.segs[seg], j - 1, X)
    BY <1>1, <1>17, <2>1, PageFilled
  <2>3. seg \in DOMAIN prog.segs /\ PageCount(prog.segs[seg]) \in Nat
    BY <1>14, <1>15, <1>17, Segments
  <2>4. ASSUME NEW k \in DOMAIN prog.segs
        PROVE  /\ Limit[k] = IF k < seg THEN PageCount(prog.segs[k]) ELSE IF k > seg THEN 0 ELSE j - 2
               /\ Limit'[k] = IF k < seg THEN PageCount(prog.segs[k]) ELSE IF k > seg THEN 0 ELSE j - 1
    BY <1>1, <2>1 DEF Limit
  <2>5. PICK h \in Nat : h = j - 1 /\ j - 2 \in Nat /\ h = (j - 2) + 1
    BY <1>14, <2>1, <2>3
  <2>6. /\ Limit \in [DOMAIN prog.segs -> Nat] /\ h = Limit[seg] + 1
        /\ \A l \in DOMAIN prog.segs : l > seg => Limit[l] = 0
        /\ Limit' = [Limit EXCEPT ![seg] = h]
    <3>1. \A k \in DOMAIN prog.segs : k \in Nat /\ PageCount(prog.segs[k]) \in Nat
      BY <1>15, Segments
    <3>2. Limit' = [k \in DOMAIN prog.segs |-> Limit'[k]] /\ Limit = [k \in DOMAIN prog.segs |-> Limit[k]]
      BY <1>1 DEF Limit
    <3>3. \A k \in DOMAIN prog.segs : Limit[k] \in Nat
      BY <2>4, <2>5, <3>1
    <3>4. \A k \in DOMAIN prog.segs : Limit'[k] = IF k = seg THEN h ELSE Limit[k]
      BY <1>14, <2>4, <2>5, <3>1
    <3>5. Limit \in [DOMAIN prog.segs -> Nat]
      BY <3>2, <3>3
    <3>6. h = Limit[seg] + 1 /\ \A l \in DOMAIN prog.segs : l > seg => Limit[l] = 0
      BY <1>14, <2>3, <2>4, <2>5, <3>1
    <3>7. Limit' = [Limit EXCEPT ![seg] = h]
      BY <3>2, <3>4, <3>5
    <3> QED BY <3>5, <3>6, <3>7
  <2>7. Maps(prog, Pages', D2, Limit', {})
    <3>1. Repointed(Pages, Pages', vpage, frame)
      BY <1>5, <1>8 DEF Repointed
    <3>2. Kept(Pages, data, D2)
      BY <1>13 DEF Kept
    <3>3. OneMore(prog, Limit, Limit', seg, h)
      BY <2>3, <2>6 DEF OneMore
    <3>4. Holds(prog, prog.segs[seg], h, D2[frame]) /\ vpage = SegPage(prog.segs[seg], h)
      BY <1>12, <2>1, <2>2, <2>5
    <3> QED BY <1>6, <1>14, <1>15, <3>1, <3>2, <3>3, <3>4, PageMapped
  <2>8. Stacked' = {}
    BY <2>1 DEF Stacked
  <2>9. CursorInv'
    <3>1. j <= PageCount(prog.segs[seg]) + 1 /\ seg <= Len(prog.segs) + 1
      BY <1>14, <1>15, <1>17, <2>1, <2>3
    <3> QED BY <1>1, <1>14, <2>1, <3>1 DEF CursorInv, Loading
  <2>10. DataInv'
    <3>1. \A p \in FileBuffer, k \in 0..(PageBytes - 1) : data[p][k] = (p - phys_buf) * PageBytes + k + 1
      BY <1>1 DEF SeesInv, DataInv
    <3>2. \A p \in FileBuffer : D2[p] = data[p]
      BY <1>5, <1>12
    <3> QED BY <1>1, <1>10, <1>12, <2>1, <3>1, <3>2 DEF DataInv
  <2> QED BY <1>1, <1>10, <2>1, <2>7, <2>8, <2>9, <2>10 DEF SeesInv, Loading
<1> QED BY <1>14, <1>15, <1>16, <1>17

LEMMA SeesEnterProgram == ASSUME SeesInv, EnterProgram PROVE SeesInv'
<1>1. pc = "enter" /\ pc' = "user" /\ UNCHANGED <<top, mem, data, prog, process_pml4, seg, j>>
  BY DEF EnterProgram
<1>2. Pages' = Pages /\ Limit' = Limit /\ Stacked' = Stacked
  BY <1>1 DEF Pages, Limit, Stacked
<1>3. CursorInv'
  BY <1>1 DEF SeesInv, CursorInv, Loading
<1>4. DataInv'
  BY <1>1 DEF SeesInv, DataInv
<1>5. StackHolds(data[Pages[StackPage]])'
  BY <1>1, <1>2 DEF SeesInv, StackHolds, user_stack_ptr
<1> QED BY <1>1, <1>2, <1>3, <1>4, <1>5 DEF SeesInv, Loading

\* The program is gone.
LEMMA SeesLeave == ASSUME SeesInv, SysExit \/ ExitFree \/ Fault PROVE SeesInv'
<1>1. UNCHANGED <<top, prog, data>> /\ data = [p \in 0..(top - 1) |-> data[p]]
  BY DEF SysExit, ExitFree, Fault, SeesInv, DataInv
<1>2. CASE ToShell
  BY <1>1, <1>2, SeesToShell
<1>3. CASE SysExit
  <2>1. pc' = "exit"
    BY <1>3 DEF SysExit
  <2>2. CursorInv' /\ DataInv'
    BY <1>1, <2>1 DEF CursorInv, DataInv, Loading
  <2> QED BY <2>1, <2>2 DEF SeesInv, Loading
<1> QED BY <1>2, <1>3 DEF ExitFree, Fault

LEMMA SeesAlways == Spec => [](~zeroed => ProcInv /\ SeesInv)
<1>1. Init => SeesInv
  BY SeesInit
<1>2. (~zeroed => ProcInv) /\ (~zeroed => SeesInv) /\ [Next]_vars => (~zeroed => SeesInv)'
  <2> SUFFICES ASSUME ~zeroed => ProcInv, ~zeroed => SeesInv, [Next]_vars, ~zeroed' PROVE SeesInv'
    OBVIOUS
  <2>11. ProcInv /\ SeesInv
    BY StaysZeroed
  <2>1. CASE UNCHANGED vars
    <3>1. UNCHANGED <<top, mem, data, pc, prog, phys_buf, process_pml4, seg, j, vpage, level, table>>
      BY <2>1 DEF vars, mapping
    <3>2. CursorInv' /\ Pages' = Pages /\ Limit' = Limit /\ Stacked' = Stacked
      BY <2>11, <3>1 DEF SeesInv, CursorInv, Pages, Limit, Stacked
    <3>3. DataInv'
      BY <2>11, <3>1 DEF SeesInv, DataInv, FileBuffer
    <3>4. pc \in {"enter", "user"} => StackHolds(data[Pages[StackPage]])'
      BY <2>11, <3>1, <3>2 DEF SeesInv, StackHolds, user_stack_ptr
    <3> QED BY <2>11, <3>1, <3>2, <3>3, <3>4 DEF SeesInv
  <2>2. CASE \E p \in Programs : Exec(p)
    BY <2>11, <2>2, SeesExec
  <2>3. CASE CheckHeader
    BY <2>11, <2>3, SeesCheckHeader
  <2>4. CASE NewPagemap
    BY <2>11, <2>4, SeesNewPagemap
  <2>5. CASE LoadPage
    BY <2>11, <2>5, SeesLoadPage
  <2>6. CASE LoadStack
    BY <2>11, <2>6, SeesLoadStack
  <2>7. CASE WalkTable
    BY <2>11, <2>7, SeesWalkTable
  <2>8. CASE MapFrame
    BY <2>11, <2>8, SeesMapFrame
  <2>9. CASE EnterProgram
    BY <2>11, <2>9, SeesEnterProgram
  <2>10. CASE SysExit \/ ExitFree \/ Fault
    BY <2>11, <2>10, SeesLeave
  <2> QED BY <2>1, <2>2, <2>3, <2>4, <2>5, <2>6, <2>7, <2>8, <2>9, <2>10 DEF Next
<1> QED BY <1>1, <1>2, ProcAlways, PTL DEF Spec

\* A program finds in its memory what its file says, in the pages of its
\* segments and its stack page and in no other, for every executable, size of
\* page and of memory, and whatever ran before: the invariant that
\* ProgramSeesItsFile states.
THEOREM ProcessProgramSeesItsFile == Spec => []ProgramSeesItsFile
<1>1. (~zeroed => ProcInv /\ SeesInv) => ProgramSeesItsFile
  <2> SUFFICES ASSUME ProcInv, SeesInv, pc = "user"
               PROVE  ProgramSeesItsFile
    BY DEF ProgramSeesItsFile
  <2>1. cr3 = process_pml4
    BY DEF ProcInv, CtlInv
  <2>2. /\ Maps(prog, Pages, data, Limit, {StackPage}) /\ StackHolds(data[Pages[StackPage]])
        /\ seg = Len(prog.segs) + 2
    BY DEF SeesInv, Loading, Stacked, CursorInv
  <2>3. \A v \in UserPages : Translate(cr3, v) = Pages[v]
    BY <2>1, TranslateWalks DEF Pages
  <2>4. /\ Len(prog.segs) \in Nat /\ DOMAIN prog.segs = 1..Len(prog.segs)
        /\ \A k \in 1..Len(prog.segs) : prog.segs[k] \in SegmentType /\ PageCount(prog.segs[k]) \in Nat
    BY Segments
  <2>5. \A k \in DOMAIN prog.segs : Limit[k] = PageCount(prog.segs[k])
    <3>1. \A k \in DOMAIN prog.segs : k < seg
      BY <2>2, <2>4
    <3> QED BY <3>1 DEF Limit
  <2>6. ASSUME NEW k \in DOMAIN prog.segs, NEW x
        PROVE  /\ x \in SegmentPages(prog.segs[k]) <=> \E i \in 1..Limit[k] : x = SegPage(prog.segs[k], i)
               /\ x \in SegmentPages(prog.segs[k]) <=> x \in LoadedPages(prog, Limit, k)
    BY <2>4, <2>5, PagesOfSegment DEF LoadedPages
  <2>7. {v \in UserPages : Translate(cr3, v) # 0} = Wanted(prog)
    <3>1. \A x : x \in Wanted(prog) <=> x = StackPage \/ \E k \in DOMAIN prog.segs : x \in SegmentPages(prog.segs[k])
      BY DEF Wanted
    <3>2. \A v \in UserPages : Pages[v] # 0 <=> v = StackPage \/ \E k \in DOMAIN prog.segs : v \in LoadedPages(prog, Limit, k)
      BY <2>2 DEF Maps
    <3>3. ASSUME NEW k \in DOMAIN prog.segs, NEW x \in SegmentPages(prog.segs[k]) PROVE x \in UserPages
      <4>1. PICK i \in 1..Limit[k] : x = SegPage(prog.segs[k], i)
        BY <2>6
      <4> QED BY <2>2, <4>1 DEF Maps
    <3>4. ASSUME NEW x PROVE x \in UserPages /\ Translate(cr3, x) # 0 <=> x \in Wanted(prog)
      BY <2>3, <2>6, <3>1, <3>2, <3>3
    <3> QED BY <3>4
  <2>8. ASSUME NEW k \in DOMAIN prog.segs, NEW n \in 0..(prog.segs[k].memsz - 1), NEW s, s = prog.segs[k],
               NEW a, a = s.vaddr + n, VPage(a \div PageBytes) # StackPage,
               \A l \in (k + 1)..Len(prog.segs) : VPage(a \div PageBytes) \notin SegmentPages(prog.segs[l]),
               n < s.filesz => s.offset + n < prog.file_pages * PageBytes
        PROVE  data[Translate(cr3, VPage(a \div PageBytes))][a % PageBytes] = IF n < s.filesz THEN s.offset + n + 1 ELSE 0
    <3>1. s \in SegmentType /\ k \in Nat /\ s.vaddr \in Nat /\ s.memsz \in Nat /\ n \in Nat /\ PageBytes \in Nat \ {0}
      BY <2>4, <2>8, Numbers DEF SegmentType
    <3>2. a \in Nat /\ a \in (s.vaddr - page_offset(s))..(s.vaddr + s.memsz - 1)
      <4>1. page_offset(s) \in 0..(PageBytes - 1) /\ page_offset(s) <= s.vaddr
        <5>1. PICK g \in Nat, h \in 0..(PageBytes - 1) : h = s.vaddr % PageBytes /\ s.vaddr = PageBytes * g + h
          BY <3>1, DivMod
        <5>2. PageBytes * g \in Nat
          BY <3>1, MulOrder
        <5> QED BY <5>1, <5>2 DEF page_offset
      <4>2. a = s.vaddr + n /\ n <= s.memsz - 1
        BY <2>8, <3>1
      <4> QED BY <3>1, <4>1, <4>2
    <3>3. PICK v : v = VPage(a \div PageBytes)
      OBVIOUS
    <3>4. v \in SegmentPages(s)
      BY <3>2, <3>3 DEF SegmentPages
    <3>5. PICK i \in 1..Limit[k] : v = SegPage(s, i)
      <4>1. v \in SegmentPages(prog.segs[k])
        BY <2>8, <3>4
      <4>2. \E i \in 1..Limit[k] : v = SegPage(prog.segs[k], i)
        BY <2>6, <4>1
      <4> QED BY <2>8, <4>2
    <3>6. a \div PageBytes = s.vaddr \div PageBytes + i - 1
      <4>1. a \div PageBytes \in Nat /\ s.vaddr \div PageBytes \in Nat
        BY <3>1, <3>2, DivMod
      <4>2. i \in Nat \ {0}
        BY <2>4, <2>5
      <4>3. s.vaddr \div PageBytes + i - 1 \in Nat
        BY <4>1, <4>2
      <4>4. VPage(a \div PageBytes) = VPage(s.vaddr \div PageBytes + i - 1)
        BY <3>3, <3>5 DEF SegPage
      <4> QED BY <4>1, <4>3, <4>4, VPageInjective
    <3>7. Lasts(prog, Limit, {StackPage}, k, v)
      <4>1. v # StackPage
        BY <2>8, <3>3
      <4>2. ASSUME NEW l \in DOMAIN prog.segs, l > k PROVE v \notin LoadedPages(prog, Limit, l)
        <5>1. l \in (k + 1)..Len(prog.segs)
          BY <2>4, <3>1, <4>2
        <5>2. v \notin SegmentPages(prog.segs[l])
          BY <2>8, <3>3, <5>1
        <5> QED BY <2>6, <5>2
      <4> QED BY <4>1, <4>2 DEF Lasts
    <3>8. Holds(prog, s, i, data[Pages[v]]) /\ v \in UserPages
      BY <2>2, <2>8, <3>5, <3>7 DEF Maps
    <3>9. Asked(prog, s, i, n)
      BY <2>8, <3>6 DEF Asked
    <3>10. data[Pages[v]][a % PageBytes] = IF n < s.filesz THEN s.offset + n + 1 ELSE 0
      BY <2>8, <3>8, <3>9 DEF Holds
    <3> QED BY <2>3, <3>3, <3>8, <3>10
  <2>9. prog.args # NULL =>
          [k \in 1..(PageBytes - user_stack_ptr) |-> data[Translate(cr3, StackPage)][user_stack_ptr + k - 1]]
            = Append(prog.args, 0)
    BY <2>2, <2>3 DEF StackHolds
  <2> DEFINE at(a) == data[Translate(cr3, VPage(a \div PageBytes))][a % PageBytes]
             last(k, a) == /\ VPage(a \div PageBytes) # StackPage
                           /\ \A l \in (k + 1)..Len(prog.segs) :
                                VPage(a \div PageBytes) \notin SegmentPages(prog.segs[l])
             there(s, n) == n < s.filesz => s.offset + n < prog.file_pages * PageBytes
  <2>10. ASSUME NEW k \in DOMAIN prog.segs, NEW n \in 0..(prog.segs[k].memsz - 1),
                last(k, prog.segs[k].vaddr + n), there(prog.segs[k], n)
         PROVE  at(prog.segs[k].vaddr + n) = IF n < prog.segs[k].filesz THEN prog.segs[k].offset + n + 1 ELSE 0
    BY <2>8, <2>10
  <2>11. \A k \in DOMAIN prog.segs : \A n \in 0..(prog.segs[k].memsz - 1) :
           LET s == prog.segs[k] IN
           last(k, s.vaddr + n) /\ there(s, n) =>
             at(s.vaddr + n) = IF n < s.filesz THEN s.offset + n + 1 ELSE 0
    <3> HIDE DEF at, last, there
    <3> QED BY <2>10
  <2> QED BY <2>7, <2>9, <2>11 DEF ProgramSeesItsFile
<1> QED BY <1>1, SeesAlways, PTL
=============================================================================
