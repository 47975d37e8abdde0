----------------------------- MODULE Fat16Proofs -----------------------------
(***************************************************************************)
(* Proofs about Fat16.tla, for every size of the volume, of its root       *)
(* directory and of the files: the invariants of the runs and that the     *)
(* driver implements FileStore.tla.                                        *)
(***************************************************************************)
EXTENDS Fat16, FiniteSetTheorems, FunctionTheorems, WellFoundedInduction, TLAPS

Writing == {"free_old", "alloc", "link", "data", "rollback"}
Freeing == {"free_old", "free_deleted", "rollback"}
Deleting == {"free_deleted", "mark"}

EntryType ==
  [name : Names \cup {END, DELETED}, attr : {"file", "dir"}, first : Clusters \cup {FREE}, size : 0..MaxSize]

\* What the constants are: numbers of clusters are numbers, and neither mark
\* of the FAT is one.
LEMMA Constants ==
  /\ Clusters \subseteq Nat /\ FREE \notin Clusters /\ EOC \notin Clusters /\ 2 \in Clusters
  /\ FREE # EOC /\ FREE = 0 /\ 0 \in Slots /\ Slots \subseteq Nat
  /\ total_clusters \in Nat /\ RootEntries \in Nat /\ MaxSize \in Nat /\ MaxWrites \in Nat
  /\ SubDir \in Names \cup {NoName} /\ NoName \notin Names
  /\ END \notin Names /\ DELETED \notin Names /\ END # DELETED
<1>1. Clusters \subseteq Nat /\ FREE \notin Clusters /\ EOC \notin Clusters /\ 2 \in Clusters /\ FREE # EOC /\ FREE = 0
  BY Fat16Assumption DEF Clusters, FREE, EOC
<1>2. END \notin Names /\ DELETED \notin Names /\ END # DELETED
  BY Fat16Assumption DEF END, DELETED
<1> QED BY <1>1, <1>2, Fat16Assumption DEF Slots

USE Constants

\* Assignments keep the type of a function, and FALSE is a truth value.
LEMMA Assigned ==
  /\ \A S, D, v, x : \A f \in [S -> D] : v \in D => [f EXCEPT ![x] = v] \in [S -> D]
  /\ \A r : r = FALSE => r \in BOOLEAN
OBVIOUS

\* Every set of numbers that is not empty has a least member.
LEMMA LeastNumber ==
  ASSUME NEW T \in SUBSET Nat, T # {}
  PROVE  \E x \in T : \A y \in T : x <= y
<1> DEFINE R == {ss \in Nat \X Nat : ss[1] < ss[2]}
<1>1. IsWellFoundedOn(R, Nat)
  BY NatLessThanWellFounded DEF OpToRel
<1>2. \A a, b \in Nat : <<a, b>> \in R <=> a < b
  OBVIOUS
<1> HIDE DEF R
<1>3. PICK x \in T : \A y \in T : ~ (<<y, x>> \in R)
  BY <1>1, WFMin
<1>4. ASSUME NEW y \in T PROVE x <= y
  <2>1. x \in Nat /\ y \in Nat
    OBVIOUS
  <2>2. ~(y < x)
    BY <1>2, <1>3, <2>1
  <2> QED BY <2>1, <2>2
<1> QED BY <1>4

-----------------------------------------------------------------------------
(* Types. *)

TypeInv ==
  /\ TypeOK
  /\ writes \in Nat /\ crashes \in Nat
  /\ pc \in Writing => writes \in 1..MaxWrites
  /\ pc # "idle" => name \in Names

\* Types at start.
LEMMA TypeAtStart == Init => TypeInv
<1> SUFFICES ASSUME Init PROVE TypeInv
  OBVIOUS
<1>1. fat \in [Clusters -> Clusters \cup {FREE, EOC}] /\ fat2 = fat
  BY DEF Init
<1>2. dir \in [Slots -> EntryType]
  <2>1. Entry(END, "file", 0, 0) \in EntryType
    BY DEF Entry, EntryType, FREE
  <2>2. SubDir # NoName => Entry(SubDir, "dir", 2, 0) \in EntryType
    BY DEF Entry, EntryType
  <2> QED BY <2>1, <2>2 DEF Init
<1>3. data \in [Clusters -> {Blank} \cup ((1..MaxWrites) \X (0..MaxSize))]
  BY DEF Init
<1>4. /\ mirror \in Clusters \cup {FREE} /\ c \in Clusters \cup {FREE, EOC} /\ first_cluster \in Clusters \cup {FREE}
      /\ current_cluster \in Clusters \cup {FREE} /\ new_c \in Clusters \cup {FREE}
  BY DEF Init, FREE
<1>5. name \in Names \cup {NoName} /\ size \in 0..MaxSize /\ target \in Slots /\ written \in 0..MaxSize
  BY DEF Init
<1>6. TypeOK
  <2>1. replacing \in BOOLEAN /\ torn \in BOOLEAN /\ pc = "idle"
    <3>1. replacing = FALSE /\ torn = FALSE /\ pc = "idle"
      BY Zenon DEF Init
    <3> QED BY <3>1, Assigned, Zenon
  <2> QED BY <1>1, <1>2, <1>3, <1>4, <1>5, <2>1 DEF TypeOK, EntryType
<1> QED BY <1>6 DEF Init, TypeInv, Writing

\* Types after a call has ended, however it did.
LEMMA TypeEnd ==
  ASSUME TypeInv, EndCall, mirror' \in Clusters \cup {FREE}, UNCHANGED <<fat, fat2, data, writes>>,
         dir' \in [Slots -> EntryType], torn' \in BOOLEAN, crashes' \in Nat
  PROVE  TypeInv'
<1>1. /\ c' \in Clusters \cup {FREE, EOC} /\ first_cluster' \in Clusters \cup {FREE}
      /\ current_cluster' \in Clusters \cup {FREE} /\ new_c' \in Clusters \cup {FREE}
  BY DEF EndCall, FREE
<1>2. /\ name' \in Names \cup {NoName} /\ size' \in 0..MaxSize /\ target' \in Slots /\ written' \in 0..MaxSize
      /\ pc' = "idle"
  BY DEF EndCall
<1>3. TypeOK'
  <2>1. replacing' \in BOOLEAN
    <3>1. replacing' = FALSE
      BY Zenon DEF EndCall
    <3> QED BY <3>1, Assigned, Zenon
  <2> QED BY <1>1, <1>2, <2>1 DEF TypeInv, TypeOK, EntryType
<1> QED BY <1>3 DEF TypeInv, EndCall, Writing

\* Types after a step that may change the FAT and the cursor.
LEMMA TypeFree ==
  ASSUME TypeInv, pc \in Freeing, FreeOne \/ ChainFreed
  PROVE  /\ fat' \in [Clusters -> Clusters \cup {FREE, EOC}] /\ mirror' \in Clusters \cup {FREE}
         /\ c' \in Clusters \cup {FREE, EOC}
BY DEF TypeInv, TypeOK, FreeOne, ChainFreed, fat16_set_fat_entry, IsCluster

\* Every step keeps the types.
LEMMA TypeStep == ASSUME TypeInv, [Next]_vars PROVE TypeInv'
<1> USE DEF disk, locals, ghosts, Writing
<1>1. ASSUME NEW n \in Names, NEW sz \in 0..MaxSize, BeginWrite(n, sz) PROVE TypeInv'
  <2>1. PICK s \in Slots : target' = s /\ c' = IF HasMatch(n) THEN dir[s].first ELSE 0
    BY <1>1 DEF BeginWrite
  <2>2. dir[s].first \in Clusters \cup {FREE}
    BY DEF TypeInv, TypeOK
  <2>3. pc' \in {"free_old", "alloc"} /\ replacing' \in BOOLEAN
    BY <1>1 DEF BeginWrite, HasMatch
  <2>4. TypeOK'
    BY <1>1, <2>1, <2>2, <2>3 DEF BeginWrite, TypeInv, TypeOK, FREE
  <2> QED BY <1>1, <2>3, <2>4 DEF BeginWrite, TypeInv
<1>2. CASE FreeOld
  <2>1. pc \in Freeing /\ (FreeOne \/ ChainFreed) /\ pc' \in {"free_old", "alloc"} /\ pc = "free_old"
    BY <1>2 DEF FreeOld, At, Freeing, FreeOne
  <2>2. UNCHANGED <<fat2, dir, data, name, size, target, first_cluster, current_cluster, new_c,
                    written, ret, writes, crashes, ghosts>>
    BY <1>2 DEF FreeOld
  <2>3. TypeOK'
    BY <2>1, <2>2, TypeFree DEF TypeInv, TypeOK
  <2> QED BY <2>1, <2>2, <2>3 DEF TypeInv
<1>3. CASE FreeDeleted
  <2>1. pc \in Freeing /\ (FreeOne \/ ChainFreed) /\ pc' \in {"free_deleted", "mark"} /\ pc = "free_deleted"
    BY <1>3 DEF FreeDeleted, At, Freeing, FreeOne
  <2>2. UNCHANGED <<fat2, dir, data, name, size, target, first_cluster, current_cluster, new_c,
                    written, ret, writes, crashes, ghosts>>
    BY <1>3 DEF FreeDeleted
  <2>3. TypeOK'
    BY <2>1, <2>2, TypeFree DEF TypeInv, TypeOK
  <2> QED BY <2>1, <2>2, <2>3 DEF TypeInv
<1>4. CASE Rollback
  <2>1. pc \in Freeing /\ (FreeOne \/ ChainFreed) /\ pc' = "rollback" /\ pc = "rollback"
    BY <1>4 DEF Rollback, At, Freeing, FreeOne
  <2>2. UNCHANGED <<fat2, dir, data, name, size, target, first_cluster, current_cluster, new_c,
                    written, ret, writes, crashes, ghosts>>
    BY <1>4 DEF Rollback
  <2>3. TypeOK'
    BY <2>1, <2>2, TypeFree DEF TypeInv, TypeOK
  <2> QED BY <2>1, <2>2, <2>3 DEF TypeInv
<1>5. CASE AllocCluster
  <2>1. TypeOK'
    BY <1>5 DEF AllocCluster, fat16_set_fat_entry, TypeInv, TypeOK
  <2> QED BY <1>5, <2>1 DEF AllocCluster, At, TypeInv
<1>6. CASE LinkCluster
  <2>1. fat' \in [Clusters -> Clusters \cup {FREE, EOC}] /\ mirror' \in Clusters \cup {FREE}
    BY <1>6 DEF LinkCluster, fat16_set_fat_entry, TypeInv, TypeOK
  <2>2. TypeOK'
    BY <1>6, <2>1 DEF LinkCluster, TypeInv, TypeOK
  <2> QED BY <1>6, <2>2 DEF LinkCluster, At, TypeInv
<1>7. CASE WriteData
  <2>1. /\ pc = "data" /\ pc' = "alloc" /\ data' = [data EXCEPT ![current_cluster] = NewData(writes, written)]
        /\ written' = IF written < size THEN written + 1 ELSE written
        /\ UNCHANGED <<fat, fat2, dir, mirror, name, size, target, c, first_cluster,
                 current_cluster, new_c, ret, writes, crashes, ghosts>>
    BY <1>7 DEF WriteData, At
  <2>2. NewData(writes, written) \in (1..MaxWrites) \X (0..MaxSize)
    BY <2>1 DEF TypeInv, TypeOK, NewData
  <2>3. data' \in [Clusters -> {Blank} \cup ((1..MaxWrites) \X (0..MaxSize))]
    <3> DEFINE D == {Blank} \cup ((1..MaxWrites) \X (0..MaxSize))
               v == NewData(writes, written)
    <3>1. data \in [Clusters -> D] /\ v \in D
      BY <2>2 DEF TypeInv, TypeOK
    <3>2. data' = [data EXCEPT ![current_cluster] = v]
      BY <2>1
    <3> HIDE DEF D, v
    <3>4. data' \in [Clusters -> D]
      BY <3>1, <3>2, Assigned, Zenon
    <3> QED BY <3>4 DEF D
  <2>4. written' \in 0..MaxSize
    BY <2>1 DEF TypeInv, TypeOK
  <2>5. TypeOK'
    BY <2>1, <2>3, <2>4 DEF TypeInv, TypeOK
  <2> QED BY <2>1, <2>5 DEF TypeInv
<1>8. CASE WriteEntry
  <2>1. Entry(name, "file", first_cluster, size) \in EntryType
    BY <1>8 DEF WriteEntry, At, TypeInv, TypeOK, Entry, EntryType
  <2>2. dir' \in [Slots -> EntryType]
    BY <1>8, <2>1 DEF WriteEntry, TypeInv, TypeOK, EntryType
  <2>3. EndCall /\ UNCHANGED <<fat, fat2, data, mirror, writes, crashes, torn>>
    BY <1>8 DEF WriteEntry, Return
  <2> QED BY <2>2, <2>3, TypeEnd DEF TypeInv, TypeOK
<1>9. CASE AllocFails
  <2>1. TypeOK'
    BY <1>9 DEF AllocFails, TypeInv, TypeOK
  <2> QED BY <1>9, <2>1 DEF AllocFails, At, TypeInv
<1>10. CASE RolledBack
  <2>1. EndCall /\ UNCHANGED <<fat, fat2, dir, data, mirror, writes, crashes>> /\ torn' \in BOOLEAN
    BY <1>10 DEF RolledBack, Return
  <2> QED BY <2>1, TypeEnd DEF TypeInv, TypeOK, EntryType
<1>11. ASSUME NEW n \in Names, WriteRefused(n) PROVE TypeInv'
  BY <1>11 DEF WriteRefused, TypeInv, TypeOK
<1>12. ASSUME NEW n \in Names, BeginDelete(n) PROVE TypeInv'
  <2>1. PICK s \in Slots : target' = s /\ c' = dir[s].first
    BY <1>12 DEF BeginDelete
  <2>2. dir[s].first \in Clusters \cup {FREE}
    BY DEF TypeInv, TypeOK
  <2>3. TypeOK'
    BY <1>12, <2>1, <2>2 DEF BeginDelete, TypeInv, TypeOK
  <2> QED BY <1>12, <2>3 DEF BeginDelete, TypeInv
<1>13. ASSUME NEW n \in Names, DeleteMissing(n) PROVE TypeInv'
  BY <1>13 DEF DeleteMissing, TypeInv, TypeOK
<1>14. CASE MarkDeleted
  <2>1. dir' \in [Slots -> EntryType]
    <3>1. dir' = [dir EXCEPT ![target] = [dir[target] EXCEPT !.name = DELETED]] /\ target \in Slots
      BY <1>14 DEF MarkDeleted, TypeInv, TypeOK
    <3>2. dir \in [Slots -> EntryType]
      BY DEF TypeInv, TypeOK, EntryType
    <3>3. [dir[target] EXCEPT !.name = DELETED] \in EntryType
      BY <3>1, <3>2 DEF EntryType
    <3> QED BY <3>1, <3>2, <3>3
  <2>2. EndCall /\ UNCHANGED <<fat, fat2, data, mirror, writes, crashes, torn>>
    BY <1>14 DEF MarkDeleted, Return
  <2> QED BY <2>1, <2>2, TypeEnd DEF TypeInv, TypeOK
<1>15. CASE WriteMirror
  <2>1. fat2' \in [Clusters -> Clusters \cup {FREE, EOC}]
    BY <1>15 DEF WriteMirror, TypeInv, TypeOK
  <2> QED BY <1>15, <2>1 DEF WriteMirror, TypeInv, TypeOK
<1>16. CASE Crash
  <2>1. EndCall /\ UNCHANGED <<fat, fat2, dir, data, writes>> /\ torn' \in BOOLEAN /\ mirror' = FREE
    BY <1>16 DEF Crash
  <2>2. crashes' \in Nat
    BY <1>16 DEF Crash, TypeInv
  <2> QED BY <2>1, <2>2, TypeEnd DEF TypeInv, TypeOK, EntryType
<1>17. CASE UNCHANGED vars
  BY <1>17 DEF vars, TypeInv, TypeOK
<1> QED
  BY <1>1, <1>2, <1>3, <1>4, <1>5, <1>6, <1>7, <1>8, <1>9, <1>10, <1>11, <1>12, <1>13, <1>14, <1>15,
     <1>16, <1>17 DEF Next

\* Types hold always.
LEMMA TypesAlways == Spec => []TypeInv
<1>1. TypeInv /\ [Next]_vars => TypeInv'
  BY TypeStep
<1> QED BY <1>1, TypeAtStart, PTL DEF Spec

-----------------------------------------------------------------------------
(* The two copies of the FAT differ at most in the entry whose sector is   *)
(* still to be written to the second one.                                  *)

CopiesInv ==
  /\ Idle => mirror = FREE
  /\ crashes = 0 => \A k \in Clusters : k # mirror => fat2[k] = fat[k]

\* A change of the FAT that fat16_set_fat_entry makes.
LEMMA CopiesSet ==
  ASSUME TypeInv, CopiesInv, mirror = FREE, NEW k \in Clusters \cup {FREE}, NEW v, fat16_set_fat_entry(k, v),
         fat2' = fat2, crashes' = crashes, pc' # "idle"
  PROVE  CopiesInv'
<1>1. crashes = 0 => \A j \in Clusters : fat2[j] = fat[j]
  BY DEF CopiesInv
<1>2. \A j \in Clusters : j # k => fat'[j] = fat[j]
  BY DEF fat16_set_fat_entry, TypeInv, TypeOK
<1> QED BY <1>1, <1>2 DEF CopiesInv, fat16_set_fat_entry, Idle

\* Every step keeps the copies together.
LEMMA CopiesStep == ASSUME TypeInv, CopiesInv, [Next]_vars PROVE CopiesInv'
<1> USE DEF disk, locals, ghosts
<1>1. CASE UNCHANGED <<fat, fat2, mirror, crashes>> /\ (pc' = "idle" => mirror = FREE)
  BY <1>1 DEF CopiesInv, Idle
<1>2. ASSUME NEW n \in Names, NEW sz \in 0..MaxSize, BeginWrite(n, sz) PROVE CopiesInv'
  BY <1>1, <1>2 DEF BeginWrite, CopiesInv, Idle
<1>3. CASE FreeOld \/ FreeDeleted \/ Rollback
  <2>1. At("free_old") \/ At("free_deleted") \/ At("rollback")
    BY <1>3 DEF FreeOld, FreeDeleted, Rollback
  <2>2. mirror = FREE /\ pc # "idle"
    BY <2>1 DEF At
  <2>3. CASE FreeOne
    <3>1. c \in Clusters /\ fat16_set_fat_entry(c, FREE) /\ pc' = pc /\ fat2' = fat2 /\ crashes' = crashes
      BY <1>3, <2>3 DEF FreeOne, IsCluster, FreeOld, FreeDeleted, Rollback
    <3> QED BY <2>2, <3>1, CopiesSet
  <2>4. CASE ~FreeOne
    BY <1>1, <1>3, <2>2, <2>4 DEF FreeOld, FreeDeleted, Rollback, ChainFreed
  <2> QED BY <2>3, <2>4
<1>4. CASE AllocCluster
  <2>1. PICK k \in Clusters : fat16_set_fat_entry(k, EOC)
    BY <1>4 DEF AllocCluster
  <2>2. mirror = FREE /\ pc' # "idle" /\ fat2' = fat2 /\ crashes' = crashes
    BY <1>4 DEF AllocCluster, At
  <2> QED BY <2>1, <2>2, CopiesSet
<1>5. CASE LinkCluster
  <2>1. mirror = FREE /\ pc' # "idle" /\ fat2' = fat2 /\ crashes' = crashes
    BY <1>5 DEF LinkCluster, At
  <2>2. CASE first_cluster = 0
    BY <1>1, <1>5, <2>1, <2>2 DEF LinkCluster
  <2>3. CASE first_cluster # 0
    <3>1. fat16_set_fat_entry(current_cluster, new_c) /\ current_cluster \in Clusters \cup {FREE}
      BY <1>5, <2>3 DEF LinkCluster, TypeInv, TypeOK
    <3> QED BY <2>1, <3>1, CopiesSet
  <2> QED BY <2>2, <2>3
<1>6. CASE WriteData \/ AllocFails \/ RolledBack \/ WriteEntry \/ MarkDeleted
  BY <1>1, <1>6 DEF WriteData, AllocFails, RolledBack, WriteEntry, MarkDeleted, At
<1>7. ASSUME NEW n \in Names, WriteRefused(n) \/ BeginDelete(n) \/ DeleteMissing(n) PROVE CopiesInv'
  BY <1>1, <1>7 DEF WriteRefused, BeginDelete, DeleteMissing, CopiesInv, Idle
<1>8. CASE WriteMirror
  <2>1. \A k \in Clusters : fat2'[k] = IF k \div FatPerSector = mirror \div FatPerSector THEN fat[k] ELSE fat2[k]
    BY <1>8 DEF WriteMirror
  <2>2. UNCHANGED <<fat, pc, crashes>> /\ mirror' = FREE
    BY <1>8 DEF WriteMirror
  <2>3. crashes = 0 => \A k \in Clusters : fat2'[k] = fat[k]
    BY <2>1 DEF CopiesInv
  <2> QED BY <2>2, <2>3 DEF CopiesInv
<1>9. CASE Crash
  BY <1>9 DEF Crash, CopiesInv, TypeInv
<1>10. CASE UNCHANGED vars
  BY <1>1, <1>10 DEF vars, CopiesInv, Idle
<1> QED
  BY <1>2, <1>3, <1>4, <1>5, <1>6, <1>7, <1>8, <1>9, <1>10 DEF Next

\* Whenever no call is running and the machine never crashed, both copies of
\* the FAT are the same, though fat16_set_fat_entry writes the second one a
\* sector at a time.
THEOREM Fat16CopiesAgree == Spec => []CopiesAgree
<1>1. Init => CopiesInv
  BY DEF Init, CopiesInv
<1>2. TypeInv /\ CopiesInv /\ [Next]_vars => CopiesInv'
  BY CopiesStep
<1>3. TypeInv /\ CopiesInv => CopiesAgree
  <2>1. SUFFICES ASSUME TypeInv, CopiesInv, Idle, crashes = 0 PROVE fat2 = fat
    BY DEF CopiesAgree
  <2>2. \A k \in Clusters : fat2[k] = fat[k]
    BY <2>1 DEF CopiesInv
  <2> DEFINE T == Clusters \cup {FREE, EOC}
  <2>3. fat \in [Clusters -> T] /\ fat2 \in [Clusters -> T]
    BY <2>1 DEF TypeInv, TypeOK
  <2> HIDE DEF T
  <2>4. fat = [k \in Clusters |-> fat[k]] /\ fat2 = [k \in Clusters |-> fat2[k]]
    BY <2>3
  <2> QED BY <2>2, <2>4
<1> QED BY <1>1, <1>2, <1>3, TypesAlways, PTL DEF Spec

-----------------------------------------------------------------------------
(* The root directory: slots behind the first end marker are end markers,  *)
(* a name has one entry, and the slot of the running call is the one that  *)
(* keeps this so.                                                          *)

DirInv ==
  /\ \A s, t \in Slots : s < t /\ dir[s].name = END => dir[t].name = END
  /\ \A s, t \in Slots : Used(s) /\ dir[s].name = dir[t].name => s = t
  /\ pc # "idle" =>
       /\ \A t \in Slots : dir[t].name = name => t = target
       /\ \A t \in Slots : t < target => dir[t].name # END
       /\ IF replacing THEN dir[target].name = name ELSE ~Used(target)
  /\ pc \in Deleting \cup {"free_old"} => replacing
  /\ Idle => ~replacing

\* Before a slot that is no end marker, there is none.
LEMMA NoGaps ==
  ASSUME DirInv, NEW s \in Slots, dir[s].name # END
  PROVE  Visible(s) /\ Scanned(s)
<1>1. \A t \in Slots : t < s => dir[t].name # END
  BY DEF DirInv
<1>2. \A t \in 0..s : t \in Slots /\ (t = s \/ t < s)
  BY DEF Slots
<1>3. Visible(s)
  BY <1>1, <1>2 DEF Visible
<1>4. Scanned(s)
  BY <1>1 DEF Scanned
<1> QED BY <1>3, <1>4

\* The slot a write takes: the entry of that name, or the first free slot when
\* there is none.
LEMMA SlotOfWrite ==
  ASSUME TypeInv, DirInv, NEW n \in Names, NEW s \in Slots, WriteSlot(n, s)
  PROVE  /\ \A t \in Slots : dir[t].name = n => t = s
         /\ \A t \in Slots : t < s => dir[t].name # END
         /\ IF HasMatch(n) THEN dir[s].name = n ELSE ~Used(s)
<1>1. \A t \in Slots : dir[t].name = n => Match(t, n) /\ Used(t)
  BY NoGaps DEF Match, Used
<1>2. CASE HasMatch(n)
  <2>1. dir[s].name = n
    BY <1>2 DEF WriteSlot, FirstMatch, Match
  <2>2. \A t \in Slots : dir[t].name = n => t = s
    BY <1>1, <2>1 DEF DirInv
  <2>3. \A t \in Slots : t < s => dir[t].name # END
    BY <2>1 DEF DirInv
  <2> QED BY <1>2, <2>1, <2>2, <2>3
<1>3. CASE ~HasMatch(n)
  <2>1. \A t \in Slots : dir[t].name # n
    BY <1>1, <1>3 DEF HasMatch
  <2>2. FirstFree(s)
    BY <1>3 DEF WriteSlot
  <2>3. ~Used(s) /\ \A t \in 0..(s - 1) : Scanned(t) => Used(t)
    BY <2>2 DEF FirstFree
  <2>4. \A t \in Slots : t < s => dir[t].name # END
    <3>1. SUFFICES ASSUME NEW t \in Slots, t < s, dir[t].name = END PROVE FALSE
      OBVIOUS
    <3> DEFINE T == {x \in Slots : x < s /\ dir[x].name = END}
    <3>2. T \in SUBSET Nat /\ T # {}
      BY <3>1
    <3>3. PICK x \in T : \A y \in T : x <= y
      BY <3>2, LeastNumber
    <3>4. x \in 0..(s - 1) /\ dir[x].name = END /\ x \in Slots /\ x < s
      BY <3>3 DEF Slots
    <3>5. Scanned(x)
      <4>1. ASSUME NEW y \in Slots, y < x PROVE dir[y].name # END
        BY <3>3, <3>4, <4>1
      <4> QED BY <4>1 DEF Scanned
    <3> QED BY <2>3, <3>4, <3>5 DEF Used
  <2> QED BY <1>3, <2>1, <2>3, <2>4
<1> QED BY <1>2, <1>3

\* Every step keeps the directory in order.
LEMMA DirStep == ASSUME TypeInv, DirInv, [Next]_vars PROVE DirInv'
<1> USE DEF disk, locals, ghosts
<1>1. ASSUME NEW n \in Names, NEW sz \in 0..MaxSize, BeginWrite(n, sz) PROVE DirInv'
  <2>1. PICK s \in Slots : /\ WriteSlot(n, s) /\ target' = s /\ replacing' = HasMatch(n)
                           /\ pc' = IF HasMatch(n) THEN "free_old" ELSE "alloc"
    BY <1>1, Zenon DEF BeginWrite
  <2>2. dir' = dir /\ name' = n
    BY <1>1 DEF BeginWrite
  <2>3. /\ \A t \in Slots : dir[t].name = n => t = s
        /\ \A t \in Slots : t < s => dir[t].name # END
        /\ IF HasMatch(n) THEN dir[s].name = n ELSE ~Used(s)
    BY <2>1, SlotOfWrite
  <2>4. replacing' <=> HasMatch(n)
    BY <2>1
  <2>5. pc' # "idle" /\ (pc' \in Deleting \cup {"free_old"} => replacing')
    BY <2>1, <2>4 DEF Deleting
  <2>6. IF replacing' THEN dir'[target'].name = name' ELSE ~Used(target)'
    BY <2>1, <2>2, <2>3, <2>4 DEF Used
  <2>7. ~Idle'
    BY <2>5 DEF Idle
  <2> QED BY <2>1, <2>2, <2>3, <2>5, <2>6, <2>7 DEF DirInv, Used
<1>2. ASSUME NEW n \in Names, BeginDelete(n) PROVE DirInv'
  <2>1. PICK s \in Slots : Lookup(s, n) /\ target' = s
    BY <1>2 DEF BeginDelete
  <2>2. dir' = dir /\ name' = n /\ pc' = "free_deleted" /\ replacing'
    BY <1>2 DEF BeginDelete
  <2>3. dir[s].name = n
    BY <2>1 DEF Lookup, IsFile
  <2>4. Used(s)
    BY <2>3 DEF Used
  <2>5. /\ \A t \in Slots : dir[t].name = n => t = s
        /\ \A t \in Slots : t < s => dir[t].name # END
    BY <2>3, <2>4 DEF DirInv
  <2>6. ~Idle' /\ pc' # "idle"
    BY <2>2 DEF Idle
  <2> QED BY <2>1, <2>2, <2>3, <2>5, <2>6 DEF DirInv, Used
<1>3. CASE /\ UNCHANGED <<dir, name, target, replacing>>
           /\ pc' # "idle" => pc # "idle"
           /\ pc' \in Deleting \cup {"free_old"} => replacing
           /\ Idle' => ~replacing
  BY <1>3 DEF DirInv, Used
<1>4. CASE FreeOld \/ FreeDeleted \/ Rollback
  <2>1. pc # "idle" /\ (pc \in Deleting \cup {"free_old"} => replacing)
    BY <1>4 DEF FreeOld, FreeDeleted, Rollback, At, DirInv
  <2>2. pc' # "idle" /\ (pc' \in Deleting \cup {"free_old"} => pc \in Deleting \cup {"free_old"})
    BY <1>4 DEF FreeOld, FreeDeleted, Rollback, FreeOne, Deleting, At
  <2> QED BY <1>3, <1>4, <2>1, <2>2 DEF FreeOld, FreeDeleted, Rollback, Idle
<1>5. CASE AllocCluster \/ LinkCluster \/ WriteData \/ AllocFails
  BY <1>3, <1>5 DEF AllocCluster, LinkCluster, WriteData, AllocFails, At, Deleting, Idle
<1>6. CASE RolledBack \/ Crash
  <2>1. dir' = dir /\ EndCall
    BY <1>6 DEF RolledBack, Crash, Return
  <2> QED BY <2>1 DEF EndCall, DirInv, Used, Idle, Deleting
<1>7. CASE WriteEntry
  <2>1. /\ pc # "idle" /\ EndCall /\ dir' = [dir EXCEPT ![target] = Entry(name, "file", first_cluster, size)]
        /\ target \in Slots /\ name \in Names
    BY <1>7 DEF WriteEntry, At, Return, TypeInv, TypeOK
  <2>2. \A s \in Slots : dir'[s].name = IF s = target THEN name ELSE dir[s].name
    BY <2>1 DEF TypeInv, TypeOK, Entry
  <2>3. /\ \A t \in Slots : dir[t].name = name => t = target
        /\ \A t \in Slots : t < target => dir[t].name # END
    BY <2>1 DEF DirInv
  <2>4. \A s, t \in Slots : s < t /\ dir'[s].name = END => dir'[t].name = END
    BY <2>1, <2>2, <2>3 DEF DirInv
  <2>5. \A s, t \in Slots : Used(s)' /\ dir'[s].name = dir'[t].name => s = t
    BY <2>2, <2>3 DEF DirInv, Used
  <2>6. pc' = "idle" /\ ~replacing'
    BY <2>1 DEF EndCall
  <2> QED BY <2>4, <2>5, <2>6 DEF DirInv, Idle, Deleting
<1>8. CASE MarkDeleted
  <2>1. /\ pc = "mark" /\ EndCall /\ dir' = [dir EXCEPT ![target].name = DELETED] /\ target \in Slots
    BY <1>8 DEF MarkDeleted, At, Return, TypeInv, TypeOK
  <2>2. \A s \in Slots : dir'[s].name = IF s = target THEN DELETED ELSE dir[s].name
    BY <2>1 DEF TypeInv, TypeOK
  <2>3. dir[target].name # END
    BY <2>1 DEF DirInv, Deleting, TypeInv
  <2>4. \A s, t \in Slots : s < t /\ dir'[s].name = END => dir'[t].name = END
    BY <2>2, <2>3 DEF DirInv
  <2>5. \A s, t \in Slots : Used(s)' /\ dir'[s].name = dir'[t].name => s = t
    BY <2>2 DEF DirInv, Used
  <2>6. pc' = "idle" /\ ~replacing'
    BY <2>1 DEF EndCall
  <2> QED BY <2>4, <2>5, <2>6 DEF DirInv, Idle, Deleting
<1>9. ASSUME NEW n \in Names, WriteRefused(n) \/ DeleteMissing(n) PROVE DirInv'
  BY <1>9 DEF WriteRefused, DeleteMissing, DirInv, Used, Idle
<1>10. CASE WriteMirror \/ UNCHANGED vars
  BY <1>10 DEF WriteMirror, vars, DirInv, Used, Idle
<1> QED
  BY <1>1, <1>2, <1>4, <1>5, <1>6, <1>7, <1>8, <1>9, <1>10 DEF Next

\* The directory's invariant holds always.
LEMMA DirAlways == Spec => []DirInv
<1>1. Init => DirInv
  <2>1. SUFFICES ASSUME Init PROVE DirInv
    OBVIOUS
  <2>2. \A s \in Slots : dir[s].name = IF SubDir # NoName /\ s = 0 THEN SubDir ELSE END
    BY <2>1 DEF Init, Entry
  <2>3. pc = "idle" /\ ~replacing
    BY <2>1 DEF Init
  <2>4. /\ \A s, t \in Slots : s < t /\ dir[s].name = END => dir[t].name = END
        /\ \A s, t \in Slots : Used(s) /\ dir[s].name = dir[t].name => s = t
    BY <2>2 DEF Used
  <2> QED BY <2>3, <2>4 DEF DirInv, Deleting
<1>2. TypeInv /\ DirInv /\ [Next]_vars => DirInv'
  BY DirStep
<1> QED BY <1>1, <1>2, TypesAlways, PTL DEF Spec

\* Reusing deleted slots, overwriting and deleting never make two entries of
\* one name, and never leave an entry behind the end marker at which
\* fat16_read_file stops, however many directory sectors there are, though
\* fat16_write_file searches every sector up to its own end marker; crashes
\* included.
THEOREM Fat16DirectoryWellFormed == Spec => []DirectoryWellFormed
<1>1. DirInv => DirectoryWellFormed
  <2>1. SUFFICES ASSUME DirInv PROVE DirectoryWellFormed
    OBVIOUS
  <2>2. \A s \in Slots : Used(s) => Visible(s)
    BY <2>1, NoGaps DEF Used
  <2> QED BY <2>1, <2>2 DEF DirInv, DirectoryWellFormed
<1> QED BY <1>1, DirAlways, PTL

-----------------------------------------------------------------------------
(* Chains.  A path is a function of positions together with a length; the  *)
(* reader's walk along the FAT visits exactly the path from its head.      *)

\* The walk of ChainAt in the FAT f.
Walk(f, first) ==
  LET at[k \in 0..(total_clusters + 1)] ==
        IF k = 0 THEN first
        ELSE IF IsCluster(at[k - 1]) THEN f[at[k - 1]] ELSE FREE
  IN at

\* p[0], ..., p[len - 1] is a chain of the FAT f.
Linked(f, p, len) ==
  \A i \in Nat : i < len => f[p[i]] = IF i + 1 = len THEN EOC ELSE p[i + 1]

OnPath(p, len, k) == IF k < len THEN p[k] ELSE IF k = len THEN EOC ELSE FREE

\* The walk from the head of a chain visits the chain, then the end mark.
LEMMA WalkOfPath ==
  ASSUME NEW f \in [Clusters -> Clusters \cup {FREE, EOC}], NEW p \in [Nat -> Clusters],
         NEW len \in Nat \ {0}, Linked(f, p, len), NEW k \in 0..(total_clusters + 1)
  PROVE  Walk(f, p[0])[k] = OnPath(p, len, k)
<1> DEFINE K == 0..(total_clusters + 1)
           Nxt(x) == IF IsCluster(x) THEN f[x] ELSE FREE
           Eq(h) == h = [j \in K |-> IF j = 0 THEN p[0] ELSE Nxt(h[j - 1])]
           g == [j \in K |-> OnPath(p, len, j)]
           w == Walk(f, p[0])
<1>0. \A j \in K : j = 0 \/ (j - 1 \in K /\ j - 1 \in Nat /\ (j - 1) + 1 = j) 
  OBVIOUS
<1>1. \A j \in K : j # 0 => OnPath(p, len, j) = Nxt(OnPath(p, len, j - 1))
  <2>1. SUFFICES ASSUME NEW j \in K, j # 0 PROVE OnPath(p, len, j) = Nxt(OnPath(p, len, j - 1))
    OBVIOUS
  <2>2. j - 1 \in Nat /\ (j - 1) + 1 = j
    BY <2>1
  <2>3. CASE j - 1 < len
    <3>1. OnPath(p, len, j - 1) = p[j - 1] /\ IsCluster(p[j - 1])
      BY <2>2, <2>3 DEF OnPath, IsCluster
    <3>2. f[p[j - 1]] = IF j = len THEN EOC ELSE p[j]
      BY <2>2, <2>3 DEF Linked
    <3> QED BY <2>1, <2>2, <2>3, <3>1, <3>2 DEF OnPath
  <2>4. CASE ~(j - 1 < len)
    <3>1. OnPath(p, len, j) = FREE /\ OnPath(p, len, j - 1) \in {EOC, FREE}
      BY <2>1, <2>2, <2>4 DEF OnPath
    <3> QED BY <3>1 DEF IsCluster
  <2> QED BY <2>3, <2>4
<1>2. Eq(g)
  <2>1. \A j \in K : g[j] = OnPath(p, len, j)
    OBVIOUS
  <2>2. OnPath(p, len, 0) = p[0]
    BY DEF OnPath
  <2> HIDE DEF Nxt
  <2>3. \A j \in K : OnPath(p, len, j) = IF j = 0 THEN p[0] ELSE Nxt(g[j - 1])
    BY <1>0, <1>1, <2>1, <2>2
  <2> QED BY <2>3
<1>3. w = CHOOSE h : Eq(h)
  BY DEF Walk
<1> HIDE DEF Eq, w, g
<1>4. Eq(w)
  BY <1>2, <1>3
<1>5. \A j \in K : g[j] = OnPath(p, len, j)
  BY DEF g
<1>6. w[0] = p[0] /\ \A j \in K : j # 0 => w[j] = Nxt(w[j - 1])
  BY <1>4 DEF Eq
<1>7. \A j \in K : w[j] = OnPath(p, len, j)
  <2> DEFINE T == {j \in K : w[j] # OnPath(p, len, j)}
  <2>1. SUFFICES ASSUME T # {} PROVE FALSE
    OBVIOUS
  <2>2. T \in SUBSET Nat
    OBVIOUS
  <2>3. PICK x \in T : \A y \in T : x <= y
    BY <2>1, <2>2, LeastNumber
  <2>4. x \in K /\ w[x] # OnPath(p, len, x)
    BY <2>3
  <2>5. x # 0
    BY <1>6, <2>4 DEF OnPath
  <2>6. x - 1 \in K /\ x - 1 \notin T
    BY <2>3, <2>4, <2>5
  <2>7. w[x - 1] = OnPath(p, len, x - 1)
    BY <2>6
  <2> HIDE DEF Nxt
  <2> QED BY <1>1, <1>6, <2>4, <2>5, <2>7
<1> QED BY <1>7 DEF w

\* No cluster is on the path twice.
Distinct(p, len) == \A i, j \in Nat : i < len /\ j < len /\ p[i] = p[j] => i = j

\* The clusters of a path.
OfPath(p, len) == {p[i] : i \in 0..(len - 1)}

\* A path has as many clusters as its length says, and no more than the volume.
LEMMA PathLength ==
  ASSUME NEW p \in [Nat -> Clusters], NEW len \in Nat, Distinct(p, len)
  PROVE  Cardinality(OfPath(p, len)) = len /\ len <= total_clusters
<1> DEFINE S == 0..(len - 1)
           T == {p[i] : i \in S}
           F == [i \in S |-> p[i]]
<1>1. IsFiniteSet(S) /\ Cardinality(S) = len
  <2>1. IsFiniteSet(S) /\ Cardinality(S) = IF 0 > len - 1 THEN 0 ELSE (len - 1) - 0 + 1
    BY FS_Interval
  <2> HIDE DEF S
  <2> QED BY <2>1
<1>2. F \in [S -> T]
  OBVIOUS
<1>3. \A a, b \in S : F[a] = F[b] => a = b
  BY DEF Distinct
<1>4. \A t \in T : \E a \in S : F[a] = t
  OBVIOUS
<1> HIDE DEF S, T, F
<1>5. F \in Bijection(S, T)
  BY <1>2, <1>3, <1>4, Fun_IsBij
<1>6. ExistsBijection(S, T)
  BY <1>5, Fun_ExistsBij
<1>7. IsFiniteSet(T) /\ Cardinality(T) = len
  BY <1>1, <1>6, FS_Bijection
<1>8. IsFiniteSet(Clusters) /\ Cardinality(Clusters) = total_clusters
  <2>1. total_clusters + 1 \in Int /\ 2 \in Int
    OBVIOUS
  <2>2. /\ IsFiniteSet(2..(total_clusters + 1))
        /\ Cardinality(2..(total_clusters + 1)) = IF 2 > total_clusters + 1 THEN 0 ELSE (total_clusters + 1) - 2 + 1
    BY <2>1, FS_Interval
  <2>3. (IF 2 > total_clusters + 1 THEN 0 ELSE (total_clusters + 1) - 2 + 1) = total_clusters
    OBVIOUS
  <2> QED BY <2>2, <2>3 DEF Clusters
<1>9. T \in SUBSET Clusters
  BY DEF T, S
<1>10. Cardinality(T) <= Cardinality(Clusters)
  BY <1>8, <1>9, FS_Subset
<1> QED BY <1>7, <1>8, <1>10 DEF T, S, OfPath

\* The chain of the model is the set of clusters on the path.
LEMMA ChainOfPath ==
  ASSUME TypeInv, NEW p \in [Nat -> Clusters], NEW len \in Nat \ {0}, Linked(fat, p, len), Distinct(p, len)
  PROVE  Chain(p[0]) = OfPath(p, len)
<1> DEFINE w == Walk(fat, p[0])
           L == {l \in 0..(total_clusters - 1) : \A m \in 0..l : IsCluster(w[m])}
<1>1. Chain(p[0]) = {w[k] : k \in L}
  BY DEF Chain, ChainAt, Walk
<1>2. len <= total_clusters
  BY PathLength
<1>3. fat \in [Clusters -> Clusters \cup {FREE, EOC}]
  BY DEF TypeInv, TypeOK
<1>4. \A k \in 0..(total_clusters + 1) : w[k] = OnPath(p, len, k)
  BY <1>3, WalkOfPath
<1> HIDE DEF w
<1>5. \A k \in 0..(len - 1) : w[k] = p[k] /\ IsCluster(w[k])
  BY <1>2, <1>4 DEF OnPath, IsCluster
<1>6. ~IsCluster(w[len])
  BY <1>2, <1>4 DEF OnPath, IsCluster
<1>7. L = 0..(len - 1)
  <2>1. ASSUME NEW l \in L PROVE l \in 0..(len - 1)
    <3>1. l \in 0..(total_clusters - 1) /\ \A m \in 0..l : IsCluster(w[m])
      OBVIOUS
    <3>2. len \notin 0..l
      BY <1>6, <3>1
    <3> QED BY <3>1, <3>2
  <2>2. ASSUME NEW l \in 0..(len - 1) PROVE l \in L
    <3>1. l \in 0..(total_clusters - 1) /\ 0..l \subseteq 0..(len - 1)
      BY <1>2
    <3> QED BY <1>5, <3>1
  <2> QED BY <2>1, <2>2
<1> HIDE DEF L
<1>8. {w[k] : k \in L} = OfPath(p, len)
  BY <1>5, <1>7 DEF OfPath
<1> QED BY <1>1, <1>8

-----------------------------------------------------------------------------
(* Who owns which cluster: the entries of the directory and, as one more   *)
(* owner, the running call.  As long as the volume is not torn, there are  *)
(* paths P with lengths n, one for each owner, that are chains of the FAT  *)
(* and have no cluster in common.                                          *)

Call == RootEntries
Owners == 0..RootEntries

Owned(P, n, k) == \E o \in Owners, i \in Nat : i < n[o] /\ P[o][i] = k

PathsOK(P, n) ==
  /\ P \in [Owners -> [Nat -> Clusters]] /\ n \in [Owners -> Nat]
  /\ \A o \in Owners : Linked(fat, P[o], n[o])
  /\ \A o, q \in Owners, i, j \in Nat : i < n[o] /\ j < n[q] /\ P[o][i] = P[q][j] => o = q /\ i = j

\* The entry whose chain the running call gives up no longer counts.
Live(s) == Used(s) /\ ~(replacing /\ s = target)

SlotsOK(P, n) ==
  \A s \in Slots : IF Live(s) THEN n[s] = Length(s) /\ P[s][0] = dir[s].first ELSE n[s] = 0

\* A call that frees owns what is left of the chain, from its cursor; a call
\* that writes owns what it has linked so far.
CallOK(P, n) ==
  /\ pc \in {"idle", "mark"} => n[Call] = 0
  /\ pc \in Freeing => IF n[Call] = 0 THEN ~IsCluster(c) ELSE c = P[Call][0]
  /\ pc = "free_old" => written = 0 /\ first_cluster = 0
  /\ pc \in {"alloc", "link"} =>
       /\ n[Call] = (IF size = 0 /\ first_cluster # 0 THEN 1 ELSE written) /\ written <= size
       /\ IF n[Call] = 0 THEN first_cluster = 0
                         ELSE first_cluster = P[Call][0] /\ current_cluster = P[Call][n[Call] - 1]
  /\ pc = "link" => NeedsCluster /\ new_c \in Clusters /\ fat[new_c] = EOC /\ ~Owned(P, n, new_c)
  /\ pc = "data" =>
       /\ n[Call] = written + 1 /\ first_cluster = P[Call][0] /\ current_cluster = P[Call][written]
       /\ written < size \/ (size = 0 /\ written = 0)

\* What has been written so far is in the clusters of the call, in order.
DataOK(P, n) ==
  pc \in {"alloc", "link", "data"} /\ size > 0 =>
    \A i \in Nat : i < written => data[P[Call][i]] = NewData(writes, i)

\* Without a crash, no cluster is in use that nobody owns.
NoneLost(P, n) ==
  crashes = 0 => \A k \in Clusters : fat[k] # FREE => Owned(P, n, k) \/ (pc = "link" /\ k = new_c)

Chains(P, n) == PathsOK(P, n) /\ SlotsOK(P, n) /\ CallOK(P, n) /\ DataOK(P, n) /\ NoneLost(P, n)

ChainInv == ~torn => \E P, n : Chains(P, n)

\* The call is an owner of its own.
LEMMA OwnersAre ==
  /\ Slots \subseteq Owners /\ Call \in Owners /\ Call \notin Slots
  /\ \A o \in Owners : o \in Slots \/ o = Call
BY DEF Owners, Call, Slots

\* A cluster that somebody owns is in use, and only its owner's path has it.
LEMMA OwnedInUse ==
  ASSUME NEW P, NEW n, PathsOK(P, n), NEW o \in Owners, NEW i \in Nat, i < n[o]
  PROVE  P[o][i] \in Clusters /\ fat[P[o][i]] # FREE /\ fat[P[o][i]] \in Clusters \cup {EOC}
<1>1. P[o] \in [Nat -> Clusters] /\ n[o] \in Nat
  BY DEF PathsOK
<1>2. fat[P[o][i]] = IF i + 1 = n[o] THEN EOC ELSE P[o][i + 1]
  BY DEF PathsOK, Linked
<1>3. P[o][i] \in Clusters /\ P[o][i + 1] \in Clusters
  BY <1>1
<1> QED BY <1>2, <1>3

\* Paths stay when the FAT changes only where nobody owns it.
LEMMA PathsKept ==
  ASSUME NEW P, NEW n, PathsOK(P, n),
         \A o \in Owners, i \in Nat : i < n[o] => fat'[P[o][i]] = fat[P[o][i]]
  PROVE  PathsOK(P, n)'
<1>1. \A o \in Owners : Linked(fat', P[o], n[o])
  BY DEF PathsOK, Linked
<1> QED BY <1>1 DEF PathsOK

\* A path changes hands: from owner a to owner b, who had none.
Moved(P, n, a, b, P2, n2) ==
  /\ a # b /\ n[b] = 0
  /\ P2 = [P EXCEPT ![b] = P[a]] /\ n2 = [n EXCEPT ![b] = n[a], ![a] = 0]

\* The paths are in order after the move, and what was owned still is.
LEMMA PathMoves ==
  ASSUME NEW P, NEW n, PathsOK(P, n), fat' = fat, NEW a \in Owners, NEW b \in Owners,
         NEW P2, NEW n2, Moved(P, n, a, b, P2, n2)
  PROVE  /\ PathsOK(P2, n2)'
         /\ \A k : Owned(P, n, k) => Owned(P2, n2, k)
<1> USE DEF Moved
<1>1. P \in [Owners -> [Nat -> Clusters]] /\ n \in [Owners -> Nat]
  BY DEF PathsOK
<1>2. P2 \in [Owners -> [Nat -> Clusters]] /\ n2 \in [Owners -> Nat]
  BY <1>1
<1>3. \A o \in Owners : P2[o] = IF o = b THEN P[a] ELSE P[o]
  BY <1>1
<1>4. \A o \in Owners : n2[o] = IF o = a THEN 0 ELSE IF o = b THEN n[a] ELSE n[o]
  BY <1>1
<1>5. ASSUME NEW o \in Owners PROVE Linked(fat', P2[o], n2[o])
  <2>1. CASE o = a
    <3>1. n2[o] = 0
      BY <1>4, <2>1
    <3> QED BY <3>1 DEF Linked
  <2>2. CASE o # a
    BY <1>3, <1>4, <2>2 DEF PathsOK, Linked
  <2> QED BY <2>1, <2>2
<1>6. ASSUME NEW o \in Owners, NEW q \in Owners, NEW i \in Nat, NEW j \in Nat,
             i < n2[o], j < n2[q], P2[o][i] = P2[q][j]
      PROVE  o = q /\ i = j
  <2>1. o # a /\ q # a
    BY <1>4, <1>6
  <2> DEFINE old(x) == IF x = b THEN a ELSE x
  <2>2. old(o) \in Owners /\ old(q) \in Owners /\ i < n[old(o)] /\ j < n[old(q)]
    BY <1>4, <1>6, <2>1
  <2>3. P[old(o)][i] = P[old(q)][j]
    BY <1>3, <1>6, <2>1
  <2>4. old(o) = old(q) /\ i = j
    BY <2>2, <2>3 DEF PathsOK
  <2> QED BY <2>1, <2>4
<1>7. ASSUME NEW k, Owned(P, n, k) PROVE Owned(P2, n2, k)
  <2>1. PICK o \in Owners, i \in Nat : i < n[o] /\ P[o][i] = k
    BY <1>7 DEF Owned
  <2>2. o # b
    BY <2>1
  <2>3. CASE o = a
    <3>1. i < n2[b] /\ P2[b][i] = k
      BY <1>3, <1>4, <2>1, <2>3
    <3> QED BY <3>1 DEF Owned
  <2>4. CASE o # a
    <3>1. i < n2[o] /\ P2[o][i] = k
      BY <1>3, <1>4, <2>1, <2>2, <2>4
    <3> QED BY <3>1 DEF Owned
  <2> QED BY <2>3, <2>4
<1> HIDE DEF Moved
<1>8. PathsOK(P2, n2)'
  BY <1>2, <1>5, <1>6 DEF PathsOK
<1> QED BY <1>7, <1>8

\* A call takes over the chain of an entry, to free it.
LEMMA ChainTaken ==
  ASSUME TypeInv, DirInv, NEW P, NEW n, Chains(P, n), Idle, NEW s \in Slots, Used(s),
         UNCHANGED <<fat, dir, data, crashes>>, target' = s, c' = dir[s].first, replacing',
         pc' \in {"free_old", "free_deleted"}, pc' = "free_old" => written' = 0 /\ first_cluster' = 0
  PROVE  \E P2, n2 : Chains(P2, n2)'
<1>0. PICK P2, n2 : P2 = [P EXCEPT ![Call] = P[s]] /\ n2 = [n EXCEPT ![Call] = n[s], ![s] = 0]
  OBVIOUS
<1>1. P \in [Owners -> [Nat -> Clusters]] /\ n \in [Owners -> Nat]
  BY DEF Chains, PathsOK
<1>2. pc = "idle" /\ ~replacing /\ n[Call] = 0
  BY DEF Idle, DirInv, Chains, CallOK
<1>3. s \in Owners /\ Call \in Owners /\ s # Call
  BY OwnersAre
<1>4. PathsOK(P2, n2)' /\ \A k : Owned(P, n, k) => Owned(P2, n2, k)
  <2>1. PathsOK(P, n) /\ fat' = fat
    BY DEF Chains
  <2>2. Moved(P, n, s, Call, P2, n2)
    BY <1>0, <1>2, <1>3 DEF Moved
  <2> QED BY <1>3, <2>1, <2>2, PathMoves
<1>5. n2[Call] = n[s] /\ P2[Call] = P[s]
  BY <1>0, <1>1, <1>3
<1>6. n[s] = Length(s) /\ P[s][0] = dir[s].first /\ n[s] # 0
  <2>1. Live(s)
    BY <1>2 DEF Live
  <2>2. n[s] = Length(s) /\ P[s][0] = dir[s].first
    BY <2>1 DEF Chains, SlotsOK
  <2>3. dir[s].size \in 0..MaxSize
    BY DEF TypeInv, TypeOK
  <2> QED BY <2>2, <2>3 DEF Length
<1>7. SlotsOK(P2, n2)'
  <2>1. ASSUME NEW t \in Slots
        PROVE  IF Live(t)' THEN n2[t] = Length(t)' /\ P2[t][0] = dir'[t].first ELSE n2[t] = 0
    <3>1. CASE t = s
      <4>1. ~Live(t)'
        BY <3>1 DEF Live
      <4>2. n2[t] = 0
        BY <1>0, <1>1, <1>3, <3>1
      <4> QED BY <4>1, <4>2
    <3>2. CASE t # s
      <4>1. Live(t)' <=> Live(t)
        BY <1>2, <3>2 DEF Live, Used
      <4>2. n2[t] = n[t] /\ P2[t] = P[t] /\ Length(t)' = Length(t)
        BY <1>0, <1>1, <1>3, <3>2, OwnersAre DEF Length
      <4> QED BY <4>1, <4>2 DEF Chains, SlotsOK
    <3> QED BY <3>1, <3>2
  <2> QED BY <2>1 DEF SlotsOK
<1>8. CallOK(P2, n2)'
  BY <1>5, <1>6 DEF CallOK, Freeing
<1>9. DataOK(P2, n2)'
  BY DEF DataOK
<1>10. NoneLost(P2, n2)'
  BY <1>2, <1>4 DEF Chains, NoneLost, Owned
<1>11. Chains(P2, n2)'
  BY <1>4, <1>7, <1>8, <1>9, <1>10 DEF Chains
<1> QED BY <1>11

\* fat16_write_file begins.
LEMMA ChainsBeginWrite ==
  ASSUME TypeInv, DirInv, NEW P, NEW n, Chains(P, n), NEW nm \in Names, NEW sz \in 0..MaxSize, BeginWrite(nm, sz)
  PROVE  \E P2, n2 : Chains(P2, n2)'
<1> USE DEF disk
<1>1. PICK s \in Slots : /\ WriteSlot(nm, s) /\ target' = s /\ c' = IF HasMatch(nm) THEN dir[s].first ELSE 0
                         /\ pc' = IF HasMatch(nm) THEN "free_old" ELSE "alloc"
                         /\ replacing' = HasMatch(nm)
  BY Zenon DEF BeginWrite
<1>2. /\ UNCHANGED <<fat, dir, data, crashes>> /\ written' = 0 /\ first_cluster' = 0 /\ pc = "idle" /\ size' = sz
  BY DEF BeginWrite
<1>3. IF HasMatch(nm) THEN dir[s].name = nm ELSE ~Used(s)
  BY <1>1, SlotOfWrite
<1>4. replacing' <=> HasMatch(nm)
  BY <1>1
<1>5. CASE HasMatch(nm)
  <2>1. Used(s) /\ Idle
    BY <1>2, <1>3, <1>5 DEF Used, Idle
  <2> QED BY <1>1, <1>2, <1>4, <1>5, <2>1, ChainTaken
<1>6. CASE ~HasMatch(nm)
  <2>1. pc' = "alloc" /\ ~replacing' /\ ~replacing /\ n[Call] = 0
    BY <1>1, <1>2, <1>4, <1>6 DEF DirInv, Idle, Chains, CallOK
  <2>2. PathsOK(P, n)'
    BY <1>2, PathsKept DEF Chains
  <2>3. SlotsOK(P, n)'
    <3>1. \A t \in Slots : (Live(t)' <=> Live(t)) /\ Length(t)' = Length(t)
      BY <1>2, <2>1 DEF Live, Used, Length
    <3> QED BY <1>2, <3>1 DEF Chains, SlotsOK
  <2>4. CallOK(P, n)'
    BY <1>2, <2>1 DEF CallOK, Freeing
  <2>5. DataOK(P, n)'
    BY <1>2 DEF DataOK
  <2>6. NoneLost(P, n)'
    BY <1>2, <2>1 DEF Chains, NoneLost, Owned
  <2>7. Chains(P, n)'
    BY <2>2, <2>3, <2>4, <2>5, <2>6 DEF Chains
  <2> QED BY <2>7
<1> QED BY <1>5, <1>6

\* fat16_delete_file begins.
LEMMA ChainsBeginDelete ==
  ASSUME TypeInv, DirInv, NEW P, NEW n, Chains(P, n), NEW nm \in Names, BeginDelete(nm)
  PROVE  \E P2, n2 : Chains(P2, n2)'
<1>1. PICK s \in Slots : Lookup(s, nm) /\ target' = s /\ c' = dir[s].first
  BY DEF BeginDelete
<1>2. UNCHANGED <<fat, dir, data, crashes>> /\ pc = "idle" /\ pc' = "free_deleted" /\ replacing'
  BY DEF BeginDelete, disk
<1>3. Used(s) /\ Idle
  BY <1>1, <1>2 DEF Lookup, IsFile, Used, Idle
<1> QED BY <1>1, <1>2, <1>3, ChainTaken

\* The loops that free a chain: one cluster.
LEMMA ChainsFreeOne ==
  ASSUME TypeInv, NEW P, NEW n, Chains(P, n), pc \in Freeing, FreeOne,
         UNCHANGED <<dir, data, crashes, target, replacing, written, first_cluster>>
  PROVE  \E P2, n2 : Chains(P2, n2)'
<1> DEFINE Q == P[Call]
           m == n[Call]
           Q2 == [i \in Nat |-> Q[i + 1]]
           P2 == [P EXCEPT ![Call] = Q2]
           n2 == [n EXCEPT ![Call] = m - 1]
<1>1. P \in [Owners -> [Nat -> Clusters]] /\ n \in [Owners -> Nat]
  BY DEF Chains, PathsOK
<1>2. Q \in [Nat -> Clusters] /\ m \in Nat /\ Call \in Owners
  BY <1>1, OwnersAre
<1>3. c \in Clusters /\ fat' = [fat EXCEPT ![c] = FREE] /\ c' = fat[c] /\ pc' = pc
  BY DEF FreeOne, IsCluster, fat16_set_fat_entry
<1>4. m # 0 /\ c = Q[0]
  BY <1>3 DEF Chains, CallOK, IsCluster
<1>5. \A k \in Clusters : fat'[k] = IF k = c THEN FREE ELSE fat[k]
  BY <1>3 DEF TypeInv, TypeOK
<1>6. /\ Q2 \in [Nat -> Clusters] /\ P2 \in [Owners -> [Nat -> Clusters]] /\ n2 \in [Owners -> Nat]
      /\ P2[Call] = Q2 /\ n2[Call] = m - 1
      /\ \A o \in Owners : o # Call => P2[o] = P[o] /\ n2[o] = n[o]
  <2>1. Q2 \in [Nat -> Clusters] /\ m - 1 \in Nat
    BY <1>2, <1>4
  <2> HIDE DEF Q2
  <2> QED BY <1>1, <1>2, <2>1
<1>7. \A i \in Nat : Q2[i] = Q[i + 1]
  OBVIOUS
<1>8. \A o \in Owners, i \in Nat : i < n[o] /\ P[o][i] = c => o = Call /\ i = 0
  <2>1. 0 < m
    BY <1>2, <1>4
  <2> QED BY <1>2, <1>4, <2>1 DEF Chains, PathsOK
<1> HIDE DEF Q2, P2, n2
<1>9. \A o \in Owners : Linked(fat', P2[o], n2[o])
  <2>1. ASSUME NEW o \in Owners, o # Call PROVE Linked(fat', P2[o], n2[o])
    <3>1. \A i \in Nat : i < n[o] => fat'[P[o][i]] = fat[P[o][i]]
      BY <1>1, <1>5, <1>8, <2>1
    <3>2. Linked(fat, P[o], n[o])
      BY DEF Chains, PathsOK
    <3>3. Linked(fat', P[o], n[o])
      BY <3>1, <3>2 DEF Linked
    <3> QED BY <1>6, <2>1, <3>3
  <2>2. ASSUME NEW i \in Nat, i < m - 1 PROVE fat'[Q2[i]] = IF i + 1 = m - 1 THEN EOC ELSE Q2[i + 1]
    <3>1. i + 1 \in Nat /\ i + 1 < m /\ i + 1 # 0 /\ (i + 1 = m - 1 <=> (i + 1) + 1 = m)
      BY <1>2, <2>2
    <3>2. Q[i + 1] # c /\ Q[i + 1] \in Clusters
      BY <1>2, <1>8, <3>1
    <3>3. fat[Q[i + 1]] = IF (i + 1) + 1 = m THEN EOC ELSE Q[(i + 1) + 1]
      BY <1>2, <3>1 DEF Chains, PathsOK, Linked
    <3> QED BY <1>5, <1>7, <3>1, <3>2, <3>3
  <2>3. Linked(fat', P2[Call], n2[Call])
    BY <1>6, <2>2 DEF Linked
  <2> QED BY <2>1, <2>3
<1>10. ASSUME NEW o \in Owners, NEW q \in Owners, NEW i \in Nat, NEW j \in Nat,
              i < n2[o], j < n2[q], P2[o][i] = P2[q][j]
       PROVE  o = q /\ i = j
  <2> DEFINE old(x, k) == IF x = Call THEN k + 1 ELSE k
  <2>1. /\ old(o, i) \in Nat /\ old(o, i) < n[o] /\ P2[o][i] = P[o][old(o, i)]
        /\ old(q, j) \in Nat /\ old(q, j) < n[q] /\ P2[q][j] = P[q][old(q, j)]
    BY <1>2, <1>6, <1>7, <1>10
  <2>2. o = q /\ old(o, i) = old(q, j)
    <3>1. \A k, l \in Nat : k < n[o] /\ l < n[q] /\ P[o][k] = P[q][l] => o = q /\ k = l
      BY DEF Chains, PathsOK
    <3> HIDE DEF old
    <3> QED BY <1>10, <2>1, <3>1
  <2> QED BY <2>2
<1>11. PathsOK(P2, n2)'
  BY <1>6, <1>9, <1>10 DEF PathsOK
<1>12. SlotsOK(P2, n2)'
  <2>1. \A t \in Slots : (Live(t)' <=> Live(t)) /\ Length(t)' = Length(t) /\ P2[t] = P[t] /\ n2[t] = n[t]
    BY <1>6, OwnersAre DEF Live, Used, Length
  <2> QED BY <2>1 DEF Chains, SlotsOK
<1>13. CallOK(P2, n2)'
  <2>1. c' = IF 1 = m THEN EOC ELSE Q[1]
    BY <1>2, <1>3, <1>4 DEF Chains, PathsOK, Linked
  <2>2. IF m - 1 = 0 THEN ~IsCluster(c)' ELSE c' = Q2[0]
    BY <1>2, <1>4, <1>7, <2>1 DEF IsCluster
  <2>3. pc' = "free_old" => written' = 0 /\ first_cluster' = 0
    BY <1>3 DEF Chains, CallOK
  <2> QED BY <1>3, <1>6, <2>2, <2>3 DEF CallOK, Freeing
<1>14. DataOK(P2, n2)'
  BY <1>3 DEF DataOK, Freeing
<1>15. NoneLost(P2, n2)'
  <2>1. ASSUME crashes = 0, NEW k \in Clusters, fat'[k] # FREE PROVE Owned(P2, n2, k)
    <3>1. k # c /\ fat[k] # FREE
      BY <1>5, <2>1
    <3>2. PICK o \in Owners, i \in Nat : i < n[o] /\ P[o][i] = k
      BY <1>3, <2>1, <3>1 DEF Chains, NoneLost, Owned, Freeing
    <3>3. CASE o # Call
      <4>1. i < n2[o] /\ P2[o][i] = k
        BY <1>6, <3>2, <3>3
      <4> QED BY <4>1 DEF Owned
    <3>4. CASE o = Call
      <4>1. i # 0 /\ i - 1 \in Nat /\ (i - 1) + 1 = i
        BY <1>4, <3>1, <3>2, <3>4
      <4>2. i - 1 < n2[Call] /\ P2[Call][i - 1] = k
        BY <1>2, <1>6, <1>7, <3>2, <3>4, <4>1
      <4> QED BY <1>2, <4>1, <4>2 DEF Owned
    <3> QED BY <3>3, <3>4
  <2> QED BY <2>1 DEF NoneLost, Owned
<1>16. Chains(P2, n2)'
  BY <1>11, <1>12, <1>13, <1>14, <1>15 DEF Chains
<1> QED BY <1>16

\* The loops that free a chain have come to its end.
LEMMA ChainsFreed ==
  ASSUME TypeInv, NEW P, NEW n, Chains(P, n), pc \in Freeing, ~IsCluster(c),
         UNCHANGED <<fat, dir, data, crashes, target, replacing, size, written, first_cluster>>,
         \/ pc = "free_old" /\ pc' = "alloc"
         \/ pc = "free_deleted" /\ pc' = "mark"
  PROVE  Chains(P, n)'
<1>1. n[Call] = 0
  <2>1. n[Call] # 0 => c = P[Call][0] /\ P[Call][0] \in Clusters
    BY OwnersAre DEF Chains, CallOK, PathsOK
  <2> QED BY <2>1 DEF IsCluster
<1>2. PathsOK(P, n)'
  BY PathsKept DEF Chains
<1>3. SlotsOK(P, n)'
  <2>1. \A t \in Slots : (Live(t)' <=> Live(t)) /\ Length(t)' = Length(t)
    BY DEF Live, Used, Length
  <2> QED BY <2>1 DEF Chains, SlotsOK
<1>4. CallOK(P, n)'
  <2>1. pc' = "alloc" => written' = 0 /\ first_cluster' = 0
    BY DEF Chains, CallOK
  <2>2. size' \in Nat
    BY DEF TypeInv, TypeOK
  <2> QED BY <1>1, <2>1, <2>2 DEF CallOK, Freeing
<1>5. DataOK(P, n)'
  <2>1. pc' = "alloc" => written' = 0
    BY DEF Chains, CallOK
  <2> QED BY <2>1 DEF DataOK
<1>6. NoneLost(P, n)'
  BY DEF Chains, NoneLost, Owned, Freeing
<1> QED BY <1>2, <1>3, <1>4, <1>5, <1>6 DEF Chains

\* fat16_alloc_cluster has found a cluster.
LEMMA ChainsAlloc ==
  ASSUME TypeInv, NEW P, NEW n, Chains(P, n), AllocCluster
  PROVE  Chains(P, n)'
<1>1. PICK k \in Clusters : Allocatable(k) /\ fat' = [fat EXCEPT ![k] = EOC] /\ new_c' = k
  BY DEF AllocCluster, fat16_set_fat_entry
<1>2. /\ pc = "alloc" /\ pc' = "link" /\ NeedsCluster /\ fat[k] = FREE
      /\ UNCHANGED <<dir, data, size, target, first_cluster, current_cluster, written, writes, crashes, replacing>>
  BY <1>1 DEF AllocCluster, At, ghosts, Allocatable
<1>3. \A j \in Clusters : fat'[j] = IF j = k THEN EOC ELSE fat[j]
  BY <1>1 DEF TypeInv, TypeOK
<1>4. \A o \in Owners, i \in Nat : i < n[o] => P[o][i] \in Clusters /\ P[o][i] # k
  BY <1>2, OwnedInUse DEF Chains
<1>5. PathsOK(P, n)'
  BY <1>3, <1>4, PathsKept DEF Chains
<1>6. SlotsOK(P, n)'
  <2>1. \A t \in Slots : (Live(t)' <=> Live(t)) /\ Length(t)' = Length(t)
    BY <1>2 DEF Live, Used, Length
  <2> QED BY <1>2, <2>1 DEF Chains, SlotsOK
<1>7. CallOK(P, n)'
  <2>1. ~Owned(P, n, k) /\ fat'[k] = EOC
    BY <1>3, <1>4 DEF Owned
  <2>2. NeedsCluster'
    BY <1>2 DEF NeedsCluster
  <2> QED BY <1>1, <1>2, <2>1, <2>2 DEF Chains, CallOK, Freeing, Owned
<1>8. DataOK(P, n)'
  BY <1>2 DEF Chains, DataOK, NewData
<1>9. NoneLost(P, n)'
  BY <1>1, <1>2, <1>3 DEF Chains, NoneLost, Owned
<1> QED BY <1>5, <1>6, <1>7, <1>8, <1>9 DEF Chains

\* The new cluster is linked to the file.
LEMMA ChainsLink ==
  ASSUME TypeInv, NEW P, NEW n, Chains(P, n), LinkCluster
  PROVE  \E P2, n2 : Chains(P2, n2)'
<1>0. PICK new : new = new_c
  OBVIOUS
<1> DEFINE Q == P[Call]
           m == n[Call]
           Q2 == [Q EXCEPT ![m] = new]
           P2 == [P EXCEPT ![Call] = Q2]
           n2 == [n EXCEPT ![Call] = m + 1]
<1>1. P \in [Owners -> [Nat -> Clusters]] /\ n \in [Owners -> Nat]
  BY DEF Chains, PathsOK
<1>2. Q \in [Nat -> Clusters] /\ m \in Nat /\ Call \in Owners
  BY <1>1, OwnersAre
<1>3. /\ pc = "link" /\ pc' = "data" /\ current_cluster' = new
      /\ UNCHANGED <<dir, data, size, target, written, writes, crashes, replacing>>
  BY <1>0 DEF LinkCluster, At, ghosts
<1>4. /\ NeedsCluster /\ new \in Clusters /\ fat[new] = EOC /\ ~Owned(P, n, new)
      /\ m = (IF size = 0 /\ first_cluster # 0 THEN 1 ELSE written) /\ written <= size
      /\ IF m = 0 THEN first_cluster = 0 ELSE first_cluster = Q[0] /\ current_cluster = Q[m - 1]
  BY <1>0, <1>3 DEF Chains, CallOK
<1>5. size \in Nat /\ written \in Nat
  BY DEF TypeInv, TypeOK
<1>6. m = written /\ (written < size \/ (size = 0 /\ written = 0))
  BY <1>4, <1>5 DEF NeedsCluster
<1>7. m = 0 <=> first_cluster = 0
  BY <1>2, <1>4
<1>8. \A k \in Clusters : fat'[k] = IF m # 0 /\ k = Q[m - 1] THEN new ELSE fat[k]
  <2>1. CASE m = 0
    BY <1>7, <2>1 DEF LinkCluster
  <2>2. CASE m # 0
    <3>1. fat' = [fat EXCEPT ![current_cluster] = new]
      BY <1>0, <1>7, <2>2 DEF LinkCluster, fat16_set_fat_entry
    <3> QED BY <1>4, <2>2, <3>1 DEF TypeInv, TypeOK
  <2> QED BY <2>1, <2>2
<1>9. /\ Q2 \in [Nat -> Clusters] /\ P2 \in [Owners -> [Nat -> Clusters]] /\ n2 \in [Owners -> Nat]
      /\ P2[Call] = Q2 /\ n2[Call] = m + 1
      /\ \A o \in Owners : o # Call => P2[o] = P[o] /\ n2[o] = n[o]
  <2>1. Q2 \in [Nat -> Clusters] /\ m + 1 \in Nat
    BY <1>2, <1>4
  <2> HIDE DEF Q2
  <2> QED BY <1>1, <1>2, <2>1
<1>10. \A i \in Nat : Q2[i] = IF i = m THEN new ELSE Q[i]
  BY <1>2
<1>11. \A o \in Owners, i \in Nat : i < n[o] => P[o][i] # new /\ P[o][i] \in Clusters
  BY <1>1, <1>4 DEF Owned
<1>12. \A o \in Owners, i \in Nat : i < n[o] /\ m # 0 /\ P[o][i] = Q[m - 1] => o = Call /\ i = m - 1
  <2>1. m # 0 => m - 1 \in Nat /\ m - 1 < m
    BY <1>2
  <2> QED BY <1>2, <2>1 DEF Chains, PathsOK
<1>13. m # 0 => Q[m - 1] # new
  <2>1. m # 0 => m - 1 \in Nat /\ m - 1 < m
    BY <1>2
  <2> QED BY <1>2, <1>11, <2>1
<1> HIDE DEF Q2, P2, n2
<1>14. \A o \in Owners : Linked(fat', P2[o], n2[o])
  <2>1. ASSUME NEW o \in Owners, o # Call PROVE Linked(fat', P2[o], n2[o])
    <3>1. \A i \in Nat : i < n[o] => fat'[P[o][i]] = fat[P[o][i]]
      BY <1>8, <1>11, <1>12, <2>1
    <3>2. Linked(fat, P[o], n[o])
      BY DEF Chains, PathsOK
    <3>3. Linked(fat', P[o], n[o])
      BY <3>1, <3>2 DEF Linked
    <3> QED BY <1>9, <2>1, <3>3
  <2>2. ASSUME NEW i \in Nat, i < m + 1 PROVE fat'[Q2[i]] = IF i + 1 = m + 1 THEN EOC ELSE Q2[i + 1]
    <3>1. CASE i = m
      BY <1>4, <1>8, <1>10, <1>13, <3>1
    <3>2. CASE i + 1 = m
      <4>1. i = m - 1 /\ Q2[i] = Q[i] /\ Q[i] \in Clusters
        BY <1>2, <1>10, <3>2
      <4>2. fat'[Q[i]] = new
        <5>1. m # 0 /\ Q[i] = Q[m - 1]
          BY <1>2, <3>2, <4>1
        <5> QED BY <1>8, <4>1, <5>1
      <4> QED BY <1>2, <1>10, <3>2, <4>1, <4>2
    <3>3. CASE i + 1 < m
      <4>1. i < m /\ i # m - 1 /\ i + 1 \in Nat
        BY <1>2, <3>3
      <4>2. Q2[i] = Q[i] /\ Q2[i + 1] = Q[i + 1] /\ Q[i] \in Clusters
        BY <1>2, <1>10, <3>3, <4>1
      <4>3. fat'[Q[i]] = fat[Q[i]]
        BY <1>2, <1>8, <1>12, <4>1, <4>2
      <4>4. fat[Q[i]] = Q[i + 1]
        BY <1>2, <3>3, <4>1 DEF Chains, PathsOK, Linked
      <4> QED BY <1>2, <3>3, <4>2, <4>3, <4>4
    <3> QED BY <1>2, <2>2, <3>1, <3>2, <3>3
  <2>3. Linked(fat', P2[Call], n2[Call])
    BY <1>9, <2>2 DEF Linked
  <2> QED BY <2>1, <2>3
<1>15. ASSUME NEW o \in Owners, NEW q \in Owners, NEW i \in Nat, NEW j \in Nat,
              i < n2[o], j < n2[q], P2[o][i] = P2[q][j]
       PROVE  o = q /\ i = j
  <2>1. ASSUME NEW x \in Owners, NEW k \in Nat, k < n2[x]
        PROVE  \/ x = Call /\ k = m /\ P2[x][k] = new
               \/ ~(x = Call /\ k = m) /\ k < n[x] /\ P2[x][k] = P[x][k] /\ P2[x][k] # new
    <3>1. CASE x # Call
      BY <1>9, <1>11, <2>1, <3>1
    <3>2. CASE x = Call /\ k = m
      BY <1>9, <1>10, <3>2
    <3>3. CASE x = Call /\ k # m
      <4>1. k < m /\ P2[x][k] = Q[k]
        BY <1>2, <1>9, <1>10, <2>1, <3>3
      <4> QED BY <1>11, <3>3, <4>1
    <3> QED BY <3>1, <3>2, <3>3
  <2>2. CASE o = Call /\ i = m
    BY <1>15, <2>1, <2>2
  <2>3. CASE ~(o = Call /\ i = m)
    <3>1. i < n[o] /\ P2[o][i] = P[o][i] /\ P2[o][i] # new
      BY <1>15, <2>1, <2>3
    <3>2. j < n[q] /\ P2[q][j] = P[q][j]
      BY <1>15, <2>1, <3>1
    <3> QED BY <1>15, <3>1, <3>2 DEF Chains, PathsOK
  <2> QED BY <2>2, <2>3
<1>16. PathsOK(P2, n2)'
  BY <1>9, <1>14, <1>15 DEF PathsOK
<1>17. SlotsOK(P2, n2)'
  <2>1. \A t \in Slots : (Live(t)' <=> Live(t)) /\ Length(t)' = Length(t) /\ P2[t] = P[t] /\ n2[t] = n[t]
    BY <1>3, <1>9, OwnersAre DEF Live, Used, Length
  <2> QED BY <1>3, <2>1 DEF Chains, SlotsOK
<1>18. CallOK(P2, n2)'
  <2>1. first_cluster' = Q2[0]
    <3>1. CASE m = 0
      BY <1>0, <1>2, <1>7, <1>10, <3>1 DEF LinkCluster
    <3>2. CASE m # 0
      BY <1>2, <1>4, <1>7, <1>10, <3>2 DEF LinkCluster
    <3> QED BY <3>1, <3>2
  <2>2. Q2[m] = new
    BY <1>2, <1>10
  <2> QED BY <1>3, <1>6, <1>9, <2>1, <2>2 DEF CallOK, Freeing
<1>19. DataOK(P2, n2)'
  <2>1. ASSUME size > 0, NEW i \in Nat, i < written PROVE data[Q2[i]] = NewData(writes, i)
    <3>1. Q2[i] = Q[i]
      BY <1>5, <1>6, <1>10, <2>1
    <3> QED BY <1>3, <2>1, <3>1 DEF Chains, DataOK
  <2> QED BY <1>3, <1>9, <2>1 DEF DataOK, NewData
<1>20. NoneLost(P2, n2)'
  <2>1. ASSUME crashes = 0, NEW k \in Clusters, fat'[k] # FREE PROVE Owned(P2, n2, k)
    <3>1. CASE k = new
      <4>1. m < n2[Call] /\ P2[Call][m] = k
        BY <1>2, <1>9, <1>10, <3>1
      <4> QED BY <1>2, <4>1 DEF Owned
    <3>2. CASE k # new
      <4>1. fat[k] # FREE
        <5>1. CASE m # 0 /\ k = Q[m - 1]
          <6>1. m - 1 \in Nat /\ m - 1 < m
            BY <1>2, <5>1
          <6> QED BY <1>2, <5>1, <6>1, OwnedInUse DEF Chains
        <5>2. CASE ~(m # 0 /\ k = Q[m - 1])
          BY <1>8, <2>1, <5>2
        <5> QED BY <5>1, <5>2
      <4>2. PICK o \in Owners, i \in Nat : i < n[o] /\ P[o][i] = k
        BY <1>0, <2>1, <3>2, <4>1 DEF Chains, NoneLost, Owned
      <4>3. i < n2[o] /\ P2[o][i] = k
        <5>1. CASE o # Call
          BY <1>9, <4>2, <5>1
        <5>2. CASE o = Call
          BY <1>2, <1>9, <1>10, <4>2, <5>2
        <5> QED BY <5>1, <5>2
      <4> QED BY <4>3 DEF Owned
    <3> QED BY <3>1, <3>2
  <2> QED BY <1>3, <2>1 DEF NoneLost, Owned
<1>21. Chains(P2, n2)'
  BY <1>16, <1>17, <1>18, <1>19, <1>20 DEF Chains
<1> QED BY <1>21

\* The data of the new cluster is written.
LEMMA ChainsData ==
  ASSUME TypeInv, NEW P, NEW n, Chains(P, n), WriteData
  PROVE  Chains(P, n)'
<1>1. /\ pc = "data" /\ pc' = "alloc" /\ data' = [data EXCEPT ![current_cluster] = NewData(writes, written)]
      /\ written' = IF written < size THEN written + 1 ELSE written
      /\ UNCHANGED <<fat, dir, size, target, first_cluster, current_cluster, writes, crashes, replacing>>
  BY DEF WriteData, At, ghosts
<1>2. P[Call] \in [Nat -> Clusters] /\ n[Call] \in Nat /\ Call \in Owners
  BY OwnersAre DEF Chains, PathsOK
<1>3. /\ n[Call] = written + 1 /\ first_cluster = P[Call][0] /\ current_cluster = P[Call][written]
      /\ written < size \/ (size = 0 /\ written = 0)
  BY <1>1 DEF Chains, CallOK
<1>4. size \in Nat /\ written \in Nat
  BY DEF TypeInv, TypeOK
<1>5. first_cluster # 0
  BY <1>2, <1>3 DEF Clusters
<1>6. PathsOK(P, n)'
  BY <1>1, PathsKept DEF Chains
<1>7. SlotsOK(P, n)'
  <2>1. \A t \in Slots : (Live(t)' <=> Live(t)) /\ Length(t)' = Length(t)
    BY <1>1 DEF Live, Used, Length
  <2> QED BY <1>1, <2>1 DEF Chains, SlotsOK
<1>8. CallOK(P, n)'
  <2>1. n[Call] = (IF size = 0 /\ first_cluster # 0 THEN 1 ELSE written') /\ written' <= size
    BY <1>1, <1>3, <1>4, <1>5
  <2>2. n[Call] # 0 /\ n[Call] - 1 = written
    BY <1>3, <1>4
  <2> QED BY <1>1, <1>3, <2>1, <2>2 DEF CallOK, Freeing
<1>9. DataOK(P, n)'
  <2>1. ASSUME size > 0, NEW i \in Nat, i < written' PROVE data'[P[Call][i]] = NewData(writes, i)
    <3>1. written' = written + 1 /\ i < n[Call]
      BY <1>1, <1>3, <1>4, <2>1
    <3>2. \A k \in Clusters : data'[k] = IF k = current_cluster THEN NewData(writes, written) ELSE data[k]
      BY <1>1 DEF TypeInv, TypeOK
    <3>3. CASE i = written
      BY <1>2, <1>3, <3>2, <3>3
    <3>4. CASE i # written
      <4>1. i < written /\ written < n[Call]
        BY <1>3, <1>4, <2>1, <3>1, <3>4
      <4>2. P[Call][i] # current_cluster /\ P[Call][i] \in Clusters
        BY <1>2, <1>3, <1>4, <3>1, <3>4, <4>1 DEF Chains, PathsOK
      <4>3. data[P[Call][i]] = NewData(writes, i)
        BY <1>1, <2>1, <4>1 DEF Chains, DataOK
      <4> QED BY <3>2, <4>2, <4>3
    <3> QED BY <3>3, <3>4
  <2> QED BY <1>1, <2>1 DEF DataOK, NewData
<1>10. NoneLost(P, n)'
  BY <1>1 DEF Chains, NoneLost, Owned
<1> QED BY <1>6, <1>7, <1>8, <1>9, <1>10 DEF Chains

\* The entry is written: the chain of the call becomes the chain of the entry.
LEMMA ChainsEntry ==
  ASSUME TypeInv, DirInv, NEW P, NEW n, Chains(P, n), WriteEntry
  PROVE  \E P2, n2 : Chains(P2, n2)'
<1>0. PICK s : s = target
  OBVIOUS
<1>1. PICK P2, n2 : P2 = [P EXCEPT ![s] = P[Call]] /\ n2 = [n EXCEPT ![s] = n[Call], ![Call] = 0]
  OBVIOUS
<1>2. /\ pc = "alloc" /\ ~NeedsCluster /\ dir' = [dir EXCEPT ![s] = Entry(name, "file", first_cluster, size)]
      /\ pc' = "idle" /\ ~replacing'
      /\ UNCHANGED <<fat, data, crashes>>
  BY <1>0 DEF WriteEntry, At, Return, EndCall
<1>3. s \in Slots /\ name \in Names /\ size \in Nat /\ written \in Nat
  BY <1>0, <1>2 DEF TypeInv, TypeOK
<1>4. s \in Owners /\ Call \in Owners /\ s # Call
  BY <1>3, OwnersAre
<1>5. P \in [Owners -> [Nat -> Clusters]] /\ n \in [Owners -> Nat]
  BY DEF Chains, PathsOK
<1>6. n[s] = 0
  <2>1. ~Live(s)
    BY <1>0, <1>2 DEF Live, DirInv
  <2> QED BY <1>3, <2>1 DEF Chains, SlotsOK
<1>7. n[Call] = (IF size = 0 THEN 1 ELSE size) /\ first_cluster = P[Call][0]
  BY <1>2, <1>3 DEF Chains, CallOK, NeedsCluster
<1>8. PathsOK(P2, n2)' /\ \A k : Owned(P, n, k) => Owned(P2, n2, k)
  <2>1. Moved(P, n, Call, s, P2, n2)
    BY <1>1, <1>4, <1>6 DEF Moved
  <2>2. PathsOK(P, n) /\ fat' = fat
    BY <1>2 DEF Chains
  <2> QED BY <1>4, <2>1, <2>2, PathMoves
<1>9. \A o \in Owners : /\ P2[o] = IF o = s THEN P[Call] ELSE P[o]
                        /\ n2[o] = IF o = Call THEN 0 ELSE IF o = s THEN n[Call] ELSE n[o]
  BY <1>1, <1>4, <1>5
<1>10. \A t \in Slots : dir'[t] = IF t = s THEN Entry(name, "file", first_cluster, size) ELSE dir[t]
  BY <1>2, <1>3 DEF TypeInv, TypeOK
<1>11. SlotsOK(P2, n2)'
  <2>1. ASSUME NEW t \in Slots
        PROVE  IF Live(t)' THEN n2[t] = Length(t)' /\ P2[t][0] = dir'[t].first ELSE n2[t] = 0
    <3>0. t \in Owners /\ t # Call
      BY OwnersAre
    <3>1. CASE t = s
      <4>1. dir'[t] = Entry(name, "file", first_cluster, size)
        BY <1>10, <3>1
      <4>2. dir'[t].name = name /\ dir'[t].first = first_cluster /\ dir'[t].size = size
        BY <4>1 DEF Entry
      <4>3. Live(t)' /\ Length(t)' = n[Call]
        BY <1>2, <1>3, <1>7, <4>2 DEF Live, Used, Length
      <4> QED BY <1>7, <1>9, <3>0, <3>1, <4>2, <4>3
    <3>2. CASE t # s
      <4>1. dir'[t] = dir[t]
        BY <1>10, <3>2
      <4>2. (Live(t)' <=> Live(t)) /\ Length(t)' = Length(t)
        BY <1>0, <1>2, <3>2, <4>1 DEF Live, Used, Length
      <4>3. n2[t] = n[t] /\ P2[t] = P[t]
        BY <1>9, <3>0, <3>2
      <4> QED BY <4>1, <4>2, <4>3 DEF Chains, SlotsOK
    <3> QED BY <3>1, <3>2
  <2> QED BY <2>1 DEF SlotsOK
<1>12. CallOK(P2, n2)' /\ DataOK(P2, n2)'
  BY <1>2, <1>4, <1>9 DEF CallOK, DataOK, Freeing
<1>13. NoneLost(P2, n2)'
  BY <1>2, <1>8 DEF Chains, NoneLost, Owned
<1>14. Chains(P2, n2)'
  BY <1>8, <1>11, <1>12, <1>13 DEF Chains
<1> QED BY <1>14

\* A call ends, or the machine stops, and no entry has lost its chain.
LEMMA ChainsDropped ==
  ASSUME TypeInv, NEW P, NEW n, Chains(P, n), UNCHANGED <<fat, data>>, pc' = "idle", ~replacing',
         \A t \in Slots : (Live(t)' <=> Live(t)) /\ Length(t)' = Length(t) /\ dir'[t].first = dir[t].first,
         crashes' = 0 => crashes = 0 /\ n[Call] = 0 /\ pc # "link"
  PROVE  \E P2, n2 : Chains(P2, n2)'
<1>1. PICK n2 : n2 = [n EXCEPT ![Call] = 0]
  OBVIOUS
<1>2. P \in [Owners -> [Nat -> Clusters]] /\ n \in [Owners -> Nat]
  BY DEF Chains, PathsOK
<1>3. n2 \in [Owners -> Nat] /\ \A o \in Owners : n2[o] = IF o = Call THEN 0 ELSE n[o]
  BY <1>1, <1>2
<1>4. \A o \in Owners, i \in Nat : i < n2[o] => i < n[o] /\ n2[o] = n[o]
  BY <1>3
<1>5. PathsOK(P, n2)'
  <2>1. \A o \in Owners : Linked(fat', P[o], n2[o])
    BY <1>4 DEF Chains, PathsOK, Linked
  <2>2. ASSUME NEW o \in Owners, NEW q \in Owners, NEW i \in Nat, NEW j \in Nat,
               i < n2[o], j < n2[q], P[o][i] = P[q][j]
        PROVE  o = q /\ i = j
    BY <1>4, <2>2 DEF Chains, PathsOK
  <2> QED BY <1>2, <1>3, <2>1, <2>2 DEF PathsOK
<1>6. SlotsOK(P, n2)'
  <2>1. \A t \in Slots : n2[t] = n[t]
    BY <1>3, OwnersAre
  <2> QED BY <2>1 DEF Chains, SlotsOK
<1>7. CallOK(P, n2)' /\ DataOK(P, n2)'
  BY <1>3, OwnersAre DEF CallOK, DataOK, Freeing
<1>8. NoneLost(P, n2)'
  <2>1. SUFFICES ASSUME crashes' = 0, NEW k \in Clusters, fat[k] # FREE PROVE Owned(P, n2, k)
    BY DEF NoneLost, Owned
  <2>2. PICK o \in Owners, i \in Nat : i < n[o] /\ P[o][i] = k
    BY <2>1 DEF Chains, NoneLost, Owned
  <2>3. i < n2[o]
    BY <1>2, <1>3, <2>1, <2>2
  <2> QED BY <2>2, <2>3 DEF Owned
<1>9. Chains(P, n2)'
  BY <1>5, <1>6, <1>7, <1>8 DEF Chains
<1> QED BY <1>9


\* A call that changes neither the disk nor the cursor of its loop.
LEMMA ChainsStay ==
  ASSUME TypeInv, NEW P, NEW n, Chains(P, n),
         UNCHANGED <<fat, dir, data, pc, name, size, target, c, first_cluster, current_cluster, new_c, written,
                     crashes, replacing>>,
         pc # "idle" => writes' = writes
  PROVE  Chains(P, n)'
<1>1. PathsOK(P, n)'
  BY PathsKept DEF Chains
<1>2. SlotsOK(P, n)'
  BY DEF Chains, SlotsOK, Live, Used, Length
<1>3. CallOK(P, n)'
  BY DEF Chains, CallOK, NeedsCluster, Owned, IsCluster
<1>4. DataOK(P, n)'
  <2>1. pc \in {"alloc", "link", "data"} => writes' = writes
    OBVIOUS
  <2> QED BY <2>1 DEF Chains, DataOK, NewData
<1>5. NoneLost(P, n)'
  BY DEF Chains, NoneLost, Owned
<1> QED BY <1>1, <1>2, <1>3, <1>4, <1>5 DEF Chains

\* The disk is full: the call is to free what it owns.
LEMMA ChainsFull ==
  ASSUME TypeInv, NEW P, NEW n, Chains(P, n), AllocFails
  PROVE  Chains(P, n)'
<1>1. /\ pc = "alloc" /\ pc' = "rollback" /\ c' = first_cluster
      /\ UNCHANGED <<fat, dir, data, size, target, first_cluster, written, writes, crashes, replacing>>
  BY DEF AllocFails, At, disk, ghosts
<1>2. PathsOK(P, n)'
  BY <1>1, PathsKept DEF Chains
<1>3. SlotsOK(P, n)'
  BY <1>1 DEF Chains, SlotsOK, Live, Used, Length
<1>4. CallOK(P, n)'
  <2>1. IF n[Call] = 0 THEN first_cluster = 0 ELSE first_cluster = P[Call][0]
    BY <1>1 DEF Chains, CallOK
  <2>2. IF n[Call] = 0 THEN ~IsCluster(c)' ELSE c' = P[Call][0]
    BY <1>1, <2>1 DEF IsCluster
  <2> QED BY <1>1, <2>2 DEF CallOK, Freeing
<1>5. DataOK(P, n)' /\ NoneLost(P, n)'
  BY <1>1 DEF Chains, DataOK, NoneLost, Owned
<1> QED BY <1>2, <1>3, <1>4, <1>5 DEF Chains

\* Every step keeps the chains apart, linked and of the right lengths, as long
\* as no replacement or deletion is cut short.
LEMMA ChainStep == ASSUME TypeInv, DirInv, ChainInv, [Next]_vars PROVE ChainInv'
<1> USE DEF disk, locals, ghosts
<1>0. SUFFICES ASSUME ~torn' PROVE \E P2, n2 : Chains(P2, n2)'
  BY DEF ChainInv
<1>1. ~torn /\ (RolledBack \/ Crash => ~replacing)
  <2>1. CASE RolledBack \/ Crash
    <3>1. torn' = (torn \/ replacing)
      BY <2>1, Zenon DEF RolledBack, Crash
    <3> QED BY <1>0, <3>1
  <2>2. CASE UNCHANGED vars
    BY <1>0, <2>1, <2>2 DEF vars
  <2>3. CASE \E nm \in Names, sz \in 0..MaxSize : BeginWrite(nm, sz)
    BY <1>0, <2>1, <2>3 DEF BeginWrite
  <2>4. CASE FreeOld \/ AllocCluster \/ LinkCluster \/ WriteData \/ WriteEntry \/ AllocFails \/ Rollback
    BY <1>0, <2>1, <2>4 DEF FreeOld, AllocCluster, LinkCluster, WriteData, WriteEntry, AllocFails, Rollback
  <2>5. CASE \E nm \in Names : WriteRefused(nm) \/ BeginDelete(nm) \/ DeleteMissing(nm)
    BY <1>0, <2>1, <2>5 DEF WriteRefused, BeginDelete, DeleteMissing
  <2>6. CASE FreeDeleted \/ MarkDeleted \/ WriteMirror
    BY <1>0, <2>1, <2>6 DEF FreeDeleted, MarkDeleted, WriteMirror
  <2> QED BY <2>1, <2>2, <2>3, <2>4, <2>5, <2>6 DEF Next
<1>2. PICK P, n : Chains(P, n)
  BY <1>1 DEF ChainInv
<1>3. ASSUME NEW nm \in Names, NEW sz \in 0..MaxSize, BeginWrite(nm, sz) PROVE \E P2, n2 : Chains(P2, n2)'
  BY <1>2, <1>3, ChainsBeginWrite
<1>4. CASE FreeOld \/ FreeDeleted \/ Rollback
  <2>1. /\ pc \in Freeing
        /\ UNCHANGED <<dir, data, crashes, target, replacing, size, written, first_cluster>>
        /\ \/ FreeOne
           \/ /\ ~IsCluster(c) /\ fat' = fat
              /\ \/ pc = "free_old" /\ pc' = "alloc"
                 \/ pc = "free_deleted" /\ pc' = "mark"
    BY <1>4 DEF FreeOld, FreeDeleted, Rollback, At, ChainFreed, Freeing
  <2>2. CASE FreeOne
    BY <1>2, <2>1, <2>2, ChainsFreeOne
  <2>3. CASE ~FreeOne
    <3>1. Chains(P, n)'
      BY <1>2, <2>1, <2>3, ChainsFreed
    <3> QED BY <3>1
  <2> QED BY <2>2, <2>3
<1>5. CASE AllocCluster
  <2>1. Chains(P, n)'
    BY <1>2, <1>5, ChainsAlloc
  <2> QED BY <2>1
<1>6. CASE LinkCluster
  BY <1>2, <1>6, ChainsLink
<1>7. CASE WriteData
  <2>1. Chains(P, n)'
    BY <1>2, <1>7, ChainsData
  <2> QED BY <2>1
<1>8. CASE WriteEntry
  BY <1>2, <1>8, ChainsEntry
<1>9. CASE AllocFails
  <2>1. Chains(P, n)'
    BY <1>2, <1>9, ChainsFull
  <2> QED BY <2>1
<1>10. CASE RolledBack
  <2>1. UNCHANGED <<fat, data, dir, crashes>> /\ pc = "rollback" /\ pc' = "idle" /\ ~replacing' /\ ~IsCluster(c)
    BY <1>10 DEF RolledBack, Return, EndCall, At
  <2>2. n[Call] = 0
    <3>1. n[Call] # 0 => c = P[Call][0] /\ P[Call][0] \in Clusters
      BY <1>2, <2>1, OwnersAre DEF Chains, CallOK, PathsOK, Freeing
    <3> QED BY <2>1, <3>1 DEF IsCluster
  <2>3. \A t \in Slots : (Live(t)' <=> Live(t)) /\ Length(t)' = Length(t) /\ dir'[t].first = dir[t].first
    BY <1>1, <1>10, <2>1 DEF Live, Used, Length
  <2> QED BY <1>2, <2>1, <2>2, <2>3, ChainsDropped
<1>11. CASE Crash
  <2>1. UNCHANGED <<fat, data, dir>> /\ pc' = "idle" /\ ~replacing' /\ crashes' = crashes + 1
    BY <1>11 DEF Crash, EndCall
  <2>2. crashes' # 0
    BY <2>1 DEF TypeInv
  <2>3. \A t \in Slots : (Live(t)' <=> Live(t)) /\ Length(t)' = Length(t) /\ dir'[t].first = dir[t].first
    BY <1>1, <1>11, <2>1 DEF Live, Used, Length
  <2> QED BY <1>2, <2>1, <2>2, <2>3, ChainsDropped
<1>12. CASE MarkDeleted
  <2>1. /\ UNCHANGED <<fat, data, crashes>> /\ pc = "mark" /\ pc' = "idle" /\ ~replacing'
        /\ dir' = [dir EXCEPT ![target].name = DELETED] /\ target \in Slots
    BY <1>12 DEF MarkDeleted, Return, EndCall, At, TypeInv, TypeOK
  <2>2. n[Call] = 0 /\ replacing
    BY <1>2, <2>1 DEF Chains, CallOK, DirInv, Deleting
  <2>3. dir \in [Slots -> EntryType]
    BY DEF TypeInv, TypeOK, EntryType
  <2>4. \A t \in Slots : /\ dir'[t].name = IF t = target THEN DELETED ELSE dir[t].name
                         /\ dir'[t].first = dir[t].first /\ dir'[t].size = dir[t].size
    BY <2>1, <2>3 DEF EntryType
  <2>5. \A t \in Slots : (Live(t)' <=> Live(t)) /\ Length(t)' = Length(t) /\ dir'[t].first = dir[t].first
    BY <2>1, <2>2, <2>4 DEF Live, Used, Length
  <2> QED BY <1>2, <2>1, <2>2, <2>5, ChainsDropped
<1>13. ASSUME NEW nm \in Names, BeginDelete(nm) PROVE \E P2, n2 : Chains(P2, n2)'
  BY <1>2, <1>13, ChainsBeginDelete
<1>14. CASE WriteMirror \/ UNCHANGED vars \/ \E nm \in Names : WriteRefused(nm) \/ DeleteMissing(nm)
  <2>1. /\ UNCHANGED <<fat, dir, data, pc, name, size, target, c, first_cluster, current_cluster, new_c, written,
                       crashes, replacing>>
        /\ pc # "idle" => writes' = writes
    BY <1>14 DEF WriteMirror, vars, WriteRefused, DeleteMissing
  <2>2. Chains(P, n)'
    BY <1>2, <2>1, ChainsStay
  <2> QED BY <2>2
<1> QED
  BY <1>3, <1>4, <1>5, <1>6, <1>7, <1>8, <1>9, <1>10, <1>11, <1>12, <1>13, <1>14 DEF Next

\* At start at most the subdirectory owns a cluster.
LEMMA ChainsAtStart == ASSUME Init PROVE \E P, n : Chains(P, n)
<1> DEFINE P == [o \in Owners |-> [i \in Nat |-> 2]]
           n == [o \in Owners |-> IF SubDir # NoName /\ o = 0 THEN 1 ELSE 0]
<1>1. P \in [Owners -> [Nat -> Clusters]] /\ n \in [Owners -> Nat]
  OBVIOUS
<1>2. /\ \A o \in Owners, i \in Nat : P[o][i] = 2
      /\ \A o \in Owners : n[o] = IF SubDir # NoName /\ o = 0 THEN 1 ELSE 0
  OBVIOUS
<1> HIDE DEF P, n
<1>3. \A k \in Clusters : fat[k] = IF SubDir # NoName /\ k = 2 THEN EOC ELSE FREE
  BY DEF Init
<1>4. \A o \in Owners, i \in Nat : i < n[o] => i = 0 /\ o = 0 /\ n[o] = 1 /\ SubDir # NoName
  BY <1>2
<1>5. PathsOK(P, n)
  <2>1. \A o \in Owners : Linked(fat, P[o], n[o])
    BY <1>2, <1>3, <1>4 DEF Linked
  <2>2. \A o, q \in Owners, i, j \in Nat : i < n[o] /\ j < n[q] /\ P[o][i] = P[q][j] => o = q /\ i = j
    BY <1>4
  <2> QED BY <1>1, <2>1, <2>2 DEF PathsOK
<1>6. SlotsOK(P, n)
  <2>1. ASSUME NEW s \in Slots PROVE IF Live(s) THEN n[s] = Length(s) /\ P[s][0] = dir[s].first ELSE n[s] = 0
    <3>0. s \in Owners /\ ~replacing
      BY OwnersAre DEF Init
    <3>1. CASE SubDir # NoName /\ s = 0
      <4>1. dir[s] = Entry(SubDir, "dir", 2, 0)
        BY <3>1 DEF Init
      <4>2. dir[s].name = SubDir /\ dir[s].first = 2 /\ dir[s].size = 0
        BY <4>1 DEF Entry
      <4> QED BY <1>2, <3>0, <3>1, <4>2 DEF Live, Used, Length
    <3>2. CASE ~(SubDir # NoName /\ s = 0)
      <4>1. dir[s] = Entry(END, "file", 0, 0)
        BY <3>2 DEF Init
      <4>2. dir[s].name = END
        BY <4>1 DEF Entry
      <4> QED BY <1>2, <3>0, <3>2, <4>2 DEF Live, Used
    <3> QED BY <3>1, <3>2
  <2> QED BY <2>1 DEF SlotsOK
<1>7. CallOK(P, n) /\ DataOK(P, n)
  <2>1. pc = "idle"
    BY DEF Init
  <2>2. n[Call] = 0
    BY <1>2, OwnersAre
  <2> QED BY <2>1, <2>2 DEF CallOK, DataOK, Freeing
<1>8. NoneLost(P, n)
  <2>1. ASSUME NEW k \in Clusters, fat[k] # FREE PROVE Owned(P, n, k)
    <3>1. SubDir # NoName /\ k = 2
      BY <1>3, <2>1
    <3>2. 0 \in Owners /\ 0 < n[0] /\ P[0][0] = k
      BY <1>2, <3>1, OwnersAre
    <3> QED BY <3>2 DEF Owned
  <2> QED BY <2>1 DEF NoneLost
<1> QED BY <1>5, <1>6, <1>7, <1>8 DEF Chains

\* The invariant of the chains holds always.
LEMMA ChainsAlways == Spec => []ChainInv
<1>1. Init => ChainInv
  BY ChainsAtStart DEF ChainInv
<1>2. TypeInv /\ DirInv /\ ChainInv /\ [Next]_vars => ChainInv'
  BY ChainStep
<1> QED BY <1>1, <1>2, TypesAlways, DirAlways, PTL DEF Spec


\* The path p is the chain of the entry of slot s.
PathOf(s, p, len) ==
  /\ p \in [Nat -> Clusters] /\ len \in Nat \ {0} /\ len = Length(s) /\ p[0] = dir[s].first
  /\ Linked(fat, p, len) /\ Distinct(p, len)
  /\ Chain(dir[s].first) = OfPath(p, len)

\* The path of an entry that counts is the chain that the driver walks.
LEMMA EntryChain ==
  ASSUME TypeInv, NEW P, NEW n, Chains(P, n), NEW s \in Slots, Live(s)
  PROVE  PathOf(s, P[s], n[s])
<1>1. s \in Owners
  BY OwnersAre
<1>2. P[s] \in [Nat -> Clusters] /\ n[s] \in Nat /\ Linked(fat, P[s], n[s])
  BY <1>1 DEF Chains, PathsOK
<1>3. Distinct(P[s], n[s])
  BY <1>1 DEF Chains, PathsOK, Distinct
<1>4. n[s] = Length(s) /\ P[s][0] = dir[s].first
  BY DEF Chains, SlotsOK
<1>5. dir[s].size \in Nat
  BY DEF TypeInv, TypeOK
<1>6. n[s] # 0
  BY <1>4, <1>5 DEF Length
<1>7. Chain(P[s][0]) = OfPath(P[s], n[s])
  BY <1>2, <1>3, <1>6, ChainOfPath
<1> QED BY <1>2, <1>3, <1>4, <1>6, <1>7 DEF PathOf

\* Between calls, on a volume that was not torn, every entry of the root
\* directory heads a chain of exactly as many clusters as its size asks for,
\* all in use, and no cluster belongs to two entries: whatever was written,
\* overwritten, deleted, refused for a full disk or cut short by a crash.
THEOREM Fat16ChainsIntact == Spec => []ChainsIntact
<1>1. ASSUME TypeInv, DirInv, ChainInv PROVE ChainsIntact
  <2>1. SUFFICES ASSUME Idle, ~torn
        PROVE  /\ \A s \in Slots : Used(s) =>
                    /\ Cardinality(Chain(dir[s].first)) = Length(s)
                    /\ \A k \in Chain(dir[s].first) : fat[k] # FREE
               /\ \A s, t \in Slots : Used(s) /\ Used(t) /\ s # t =>
                    Chain(dir[s].first) \cap Chain(dir[t].first) = {}
    BY <1>1 DEF ChainsIntact, TypeInv
  <2>2. PICK P, n : Chains(P, n)
    BY <1>1, <2>1 DEF ChainInv
  <2>3. \A s \in Slots : Used(s) => Live(s)
    BY <1>1, <2>1 DEF DirInv, Live
  <2>4. ASSUME NEW s \in Slots, Used(s)
        PROVE  Cardinality(Chain(dir[s].first)) = Length(s) /\ \A k \in Chain(dir[s].first) : fat[k] # FREE
    <3>1. /\ P[s] \in [Nat -> Clusters] /\ n[s] \in Nat \ {0} /\ n[s] = Length(s) /\ Distinct(P[s], n[s])
          /\ Chain(dir[s].first) = OfPath(P[s], n[s])
      BY <1>1, <2>2, <2>3, <2>4, EntryChain DEF PathOf
    <3>2. Cardinality(OfPath(P[s], n[s])) = n[s]
      BY <3>1, PathLength
    <3>3. \A i \in 0..(n[s] - 1) : i \in Nat /\ i < n[s]
      BY <3>1
    <3>4. s \in Owners /\ PathsOK(P, n)
      BY <2>2, OwnersAre DEF Chains
    <3>5. \A i \in 0..(n[s] - 1) : fat[P[s][i]] # FREE
      BY <3>3, <3>4, OwnedInUse
    <3> QED BY <3>1, <3>2, <3>5 DEF OfPath
  <2>5. ASSUME NEW s \in Slots, NEW t \in Slots, Used(s), Used(t), s # t, NEW k,
               k \in Chain(dir[s].first), k \in Chain(dir[t].first)
        PROVE  FALSE
    <3>0. PathOf(s, P[s], n[s]) /\ PathOf(t, P[t], n[t])
      BY <1>1, <2>2, <2>3, <2>5, EntryChain
    <3>1. /\ Chain(dir[s].first) = OfPath(P[s], n[s])
          /\ Chain(dir[t].first) = OfPath(P[t], n[t])
          /\ n[s] \in Nat /\ n[t] \in Nat
      BY <3>0 DEF PathOf
    <3>2. PICK i \in 0..(n[s] - 1), j \in 0..(n[t] - 1) : P[s][i] = k /\ P[t][j] = k
      BY <2>5, <3>1 DEF OfPath
    <3>3. i \in Nat /\ j \in Nat /\ i < n[s] /\ j < n[t] /\ s \in Owners /\ t \in Owners
      BY <3>1, OwnersAre
    <3> QED BY <2>2, <2>5, <3>2, <3>3 DEF Chains, PathsOK
  <2> QED BY <2>4, <2>5
<1> QED BY <1>1, TypesAlways, DirAlways, ChainsAlways, PTL

\* Without a crash no cluster leaks: between calls, on a volume that was not
\* torn, every cluster in use belongs to an entry of the root directory, also
\* after the roll-back of a write that filled the disk.
THEOREM Fat16LosesNoClusters == Spec => []NoLostClusters
<1>1. ASSUME TypeInv, DirInv, ChainInv PROVE NoLostClusters
  <2>1. SUFFICES ASSUME Idle, ~torn, crashes = 0, NEW k \in Clusters, fat[k] # FREE
        PROVE  \E s \in Slots : Used(s) /\ k \in Chain(dir[s].first)
    BY DEF NoLostClusters
  <2>2. PICK P, n : Chains(P, n)
    BY <1>1, <2>1 DEF ChainInv
  <2>3. PICK o \in Owners, j \in Nat : j < n[o] /\ P[o][j] = k
    BY <2>1, <2>2 DEF Chains, NoneLost, Owned, Idle
  <2>4. n[Call] = 0
    BY <2>1, <2>2 DEF Chains, CallOK, Idle
  <2>5. o \in Slots /\ n[o] \in Nat
    BY <2>2, <2>3, <2>4, OwnersAre DEF Chains, PathsOK
  <2>6. Live(o)
    BY <2>2, <2>3, <2>5 DEF Chains, SlotsOK
  <2>7. Chain(dir[o].first) = OfPath(P[o], n[o])
    BY <1>1, <2>2, <2>5, <2>6, EntryChain DEF PathOf
  <2>8. j \in 0..(n[o] - 1)
    BY <2>3, <2>5
  <2> QED BY <2>3, <2>5, <2>6, <2>7, <2>8 DEF Live, OfPath
<1> QED BY <1>1, TypesAlways, DirAlways, ChainsAlways, PTL


-----------------------------------------------------------------------------
(* The driver implements FileStore.  What fat16_read_file returns is a     *)
(* function of the FAT f, the directory d and the data dt.                 *)

FileIn(d, s, m) == (\A t \in 0..s : d[t].name # END) /\ d[s].name = m /\ d[s].attr = "file"

EntryRead(f, e, dt) ==
  LET at == Walk(f, e.first)
  IN [size |-> e.size,
      data |-> [k \in 1..e.size |->
         IF \A l \in 0..(k - 1) : IsCluster(at[l]) THEN dt[at[k - 1]] ELSE Stale]]

FirstFileIn(d, s, m) == FileIn(d, s, m) /\ \A t \in 0..(s - 1) : ~FileIn(d, t, m)

ReadIn(f, d, dt, m) ==
  IF ~(\E s \in Slots : FileIn(d, s, m)) THEN Absent
  ELSE EntryRead(f, d[CHOOSE s \in Slots : FirstFileIn(d, s, m)], dt)

\* It is what the model's fat16_read_file returns, before and after a step.
LEMMA ReadInIs ==
  ASSUME NEW m
  PROVE  /\ fat16_read_file(m) = ReadIn(fat, dir, data, m)
         /\ fat16_read_file(m)' = ReadIn(fat', dir', data', m)
BY DEF fat16_read_file, ReadIn, Exists, IsFile, Visible, Lookup, FileIn, FirstFileIn, EntryRead, ChainAt, Walk

\* A name that no entry has is absent.
LEMMA ReadNone ==
  ASSUME NEW f, NEW d, NEW dt, NEW m, \A s \in Slots : ~(d[s].name = m /\ d[s].attr = "file")
  PROVE  ReadIn(f, d, dt, m) = Absent
BY DEF ReadIn, FileIn

\* The entry of slot s is the only one of its name, no end marker before it,
\* and heads the chain p.
Heads(f, d, s, m, sz, p, len) ==
  /\ d[s].name = m /\ d[s].size = sz
  /\ d[s].attr = "file" /\ d[s].size \in Nat /\ d[s].size <= len /\ d[s].first = p[0]
  /\ \A t \in 0..s : d[t].name # END
  /\ \A t \in Slots : d[t].name = d[s].name => t = s
  /\ p \in [Nat -> Clusters] /\ len \in Nat \ {0} /\ Linked(f, p, len) /\ Distinct(p, len)

\* What the clusters of a path hold.
Pieces(dt, p, sz) == [size |-> sz, data |-> [k \in 1..sz |-> dt[p[k - 1]]]]

\* A file is read along the chain of its entry.
LEMMA ReadPath ==
  ASSUME NEW f \in [Clusters -> Clusters \cup {FREE, EOC}], NEW d, NEW dt, NEW s \in Slots,
         NEW m, NEW sz, NEW p, NEW len, Heads(f, d, s, m, sz, p, len)
  PROVE  ReadIn(f, d, dt, m) = Pieces(dt, p, sz)
<1>0. d[s].name = m /\ d[s].size = sz
  BY DEF Heads
<1>1. \A t \in Slots : FileIn(d, t, m) <=> t = s
  BY DEF Heads, FileIn
<1>2. FirstFileIn(d, s, m)
  <2>1. \A u \in 0..(s - 1) : u \in Slots /\ u # s
    BY DEF Slots
  <2> QED BY <1>1, <2>1 DEF FirstFileIn
<1>3. (CHOOSE t \in Slots : FirstFileIn(d, t, m)) = s
  <2>1. \A t \in Slots : FirstFileIn(d, t, m) => t = s
    BY <1>1 DEF FirstFileIn
  <2> QED BY <1>2, <2>1
<1>4. len <= total_clusters /\ p \in [Nat -> Clusters] /\ len \in Nat \ {0} /\ Linked(f, p, len)
  BY PathLength DEF Heads
<1>5. \A l \in 0..(total_clusters + 1) : Walk(f, p[0])[l] = OnPath(p, len, l)
  BY <1>4, WalkOfPath
<1> DEFINE w == Walk(f, p[0])
<1>6. ReadIn(f, d, dt, m) =
        [size |-> d[s].size,
         data |-> [k \in 1..d[s].size |-> IF \A l \in 0..(k - 1) : IsCluster(w[l]) THEN dt[w[k - 1]] ELSE Stale]]
  <2>1. d[s].first = p[0] /\ \E t \in Slots : FileIn(d, t, m)
    BY <1>1 DEF Heads
  <2>2. ReadIn(f, d, dt, m) = EntryRead(f, d[s], dt)
    BY <1>3, <2>1 DEF ReadIn
  <2> QED BY <2>1, <2>2 DEF EntryRead
<1> HIDE DEF w
<1>7. ASSUME NEW k \in 1..d[s].size
      PROVE  (IF \A l \in 0..(k - 1) : IsCluster(w[l]) THEN dt[w[k - 1]] ELSE Stale) = dt[p[k - 1]]
  <2>1. d[s].size \in Nat /\ d[s].size <= len
    BY DEF Heads
  <2>2. \A l \in 0..(k - 1) : l \in Nat /\ l < len /\ l \in 0..(total_clusters + 1)
    BY <1>4, <2>1
  <2>3. \A l \in 0..(k - 1) : w[l] = p[l] /\ IsCluster(w[l])
    BY <1>4, <1>5, <2>2 DEF OnPath, IsCluster, w
  <2>4. k - 1 \in 0..(k - 1)
    BY <2>1
  <2> QED BY <2>3, <2>4
<1>8. [k \in 1..d[s].size |-> IF \A l \in 0..(k - 1) : IsCluster(w[l]) THEN dt[w[k - 1]] ELSE Stale] =
      [k \in 1..d[s].size |-> dt[p[k - 1]]]
  BY <1>7
<1> QED BY <1>0, <1>6, <1>8 DEF Pieces

\* An entry that counts heads its chain.
LEMMA LiveHeads ==
  ASSUME TypeInv, DirInv, NEW P, NEW n, Chains(P, n), NEW s \in Slots, Live(s), dir[s].attr = "file"
  PROVE  Heads(fat, dir, s, dir[s].name, dir[s].size, P[s], n[s])
<1>1. /\ P[s] \in [Nat -> Clusters] /\ n[s] \in Nat \ {0} /\ n[s] = Length(s) /\ P[s][0] = dir[s].first
      /\ Linked(fat, P[s], n[s]) /\ Distinct(P[s], n[s])
  BY EntryChain DEF PathOf
<1>2. dir[s].size \in Nat
  BY DEF TypeInv, TypeOK
<1>3. dir[s].size <= n[s]
  BY <1>1, <1>2 DEF Length
<1>4. Used(s)
  BY DEF Live
<1>5. \A t \in 0..s : dir[t].name # END
  BY <1>4, NoGaps DEF Used, Visible
<1>6. \A t \in Slots : dir[t].name = dir[s].name => t = s
  BY <1>4 DEF DirInv
<1> QED BY <1>1, <1>2, <1>3, <1>5, <1>6 DEF Heads

\* A step that leaves alone the entries of a name, and the clusters of the
\* entries that count, leaves alone what that name holds.
Spared(P, n) ==
  \A s \in Slots, i \in Nat : i < n[s] => fat'[P[s][i]] = fat[P[s][i]] /\ data'[P[s][i]] = data[P[s][i]]

\* That file reads the same after the step.
LEMMA ReadKept ==
  ASSUME TypeInv, DirInv, TypeInv', DirInv', NEW P, NEW n, Chains(P, n), Spared(P, n), NEW m \in Names,
         \A s \in Slots : dir[s].name = m \/ dir'[s].name = m => Live(s) /\ dir'[s] = dir[s]
  PROVE  fat16_read_file(m)' = fat16_read_file(m)
<1>1. CASE \E s \in Slots : dir[s].name = m /\ dir[s].attr = "file"
  <2>1. PICK s \in Slots : dir[s].name = m /\ dir[s].attr = "file"
    BY <1>1
  <2>2. PICK p, len, sz : p = P[s] /\ len = n[s] /\ sz = dir[s].size
    OBVIOUS
  <2>3. Live(s) /\ dir'[s] = dir[s]
    BY <2>1
  <2>4. Heads(fat, dir, s, m, sz, p, len)
    BY <2>1, <2>2, <2>3, LiveHeads
  <2>5. \A i \in Nat : i < len => fat'[p[i]] = fat[p[i]] /\ data'[p[i]] = data[p[i]]
    BY <2>2 DEF Spared
  <2>6. Linked(fat', p, len)
    BY <2>4, <2>5 DEF Heads, Linked
  <2>7. \A t \in 0..s : dir'[t].name # END
    <3>1. \A t \in 0..s : t \in Slots /\ (t = s \/ t < s)
      BY DEF Slots
    <3>2. dir'[s].name # END
      BY <2>1, <2>3
    <3>3. \A t \in Slots : t < s => dir'[t].name # END
      BY <3>2 DEF DirInv
    <3> QED BY <3>1, <3>2, <3>3
  <2>8. \A t \in Slots : dir'[t].name = dir'[s].name => t = s
    BY <2>1, <2>3, <2>4 DEF Heads
  <2>9. Heads(fat', dir', s, m, sz, p, len)
    BY <2>3, <2>4, <2>6, <2>7, <2>8 DEF Heads
  <2>10. fat \in [Clusters -> Clusters \cup {FREE, EOC}] /\ fat' \in [Clusters -> Clusters \cup {FREE, EOC}]
    BY DEF TypeInv, TypeOK
  <2>11. ReadIn(fat, dir, data, m) = Pieces(data, p, sz)
    BY <2>4, <2>10, ReadPath
  <2>12. ReadIn(fat', dir', data', m) = Pieces(data', p, sz)
    BY <2>9, <2>10, ReadPath
  <2>13. [k \in 1..sz |-> data'[p[k - 1]]] = [k \in 1..sz |-> data[p[k - 1]]]
    <3>1. \A k \in 1..sz : k - 1 \in Nat /\ k - 1 < len
      BY <2>4 DEF Heads
    <3> QED BY <2>5, <3>1
  <2>14. ReadIn(fat', dir', data', m) = ReadIn(fat, dir, data, m)
    BY <2>1, <2>3, <2>11, <2>12, <2>13 DEF Pieces
  <2> QED BY <2>14, ReadInIs
<1>2. CASE ~ \E s \in Slots : dir[s].name = m /\ dir[s].attr = "file"
  <2>1. \A s \in Slots : ~(dir[s].name = m /\ dir[s].attr = "file")
    BY <1>2
  <2>2. \A s \in Slots : ~(dir'[s].name = m /\ dir'[s].attr = "file")
    BY <2>1
  <2>3. ReadIn(fat', dir', data', m) = Absent /\ ReadIn(fat, dir, data, m) = Absent
    BY <2>1, <2>2, ReadNone
  <2> QED BY <2>3, ReadInIs
<1> QED BY <1>1, <1>2

\* Steps that leave the disk alone leave every file alone.
LEMMA ReadSame ==
  ASSUME UNCHANGED <<fat, dir, data>>, NEW m
  PROVE  fat16_read_file(m)' = fat16_read_file(m)
BY ReadInIs

\* A call that replaces nothing is about a name that did not exist.
WasInv == pc # "idle" /\ ~replacing => was[name] = Absent

\* While a call that replaces nothing runs, its name is in no slot.
LEMMA NameAbsent ==
  ASSUME TypeInv, DirInv, pc # "idle", ~replacing
  PROVE  fat16_read_file(name) = Absent
<1>1. name \in Names
  BY DEF TypeInv
<1>2. \A s \in Slots : dir[s].name # name
  BY <1>1 DEF DirInv, Used
<1>3. ReadIn(fat, dir, data, name) = Absent
  BY <1>2, ReadNone
<1> QED BY <1>3, ReadInIs

\* A write that finds no entry begins with its name absent.
LEMMA WriteNew ==
  ASSUME TypeInv, DirInv, NEW m \in Names, NEW s \in Slots, WriteSlot(m, s), ~HasMatch(m)
  PROVE  fat16_read_file(m) = Absent
<1>1. \A t \in Slots : dir[t].name # m
  BY SlotOfWrite DEF Used
<1>2. ReadIn(fat, dir, data, m) = Absent
  BY <1>1, ReadNone
<1> QED BY <1>2, ReadInIs


\* The steps inside a call that do not end it.
Inside ==
  \/ FreeOld \/ AllocCluster \/ LinkCluster \/ WriteData \/ AllocFails \/ Rollback \/ FreeDeleted
  \/ (WriteMirror /\ pc # "idle")

\* They leave alone the name of the call, what was read when it began, and the
\* directory.
LEMMA InsideKeeps ==
  ASSUME Inside
  PROVE  /\ pc # "idle" /\ pc' # "idle" /\ (pc' \in Deleting <=> pc \in Deleting)
         /\ UNCHANGED <<name, size, writes, ret, was, replacing, torn, dir, target>>
BY DEF Inside, FreeOld, AllocCluster, LinkCluster, WriteData, AllocFails, Rollback, FreeDeleted, WriteMirror, At,
       locals, ghosts, disk, FreeOne, Deleting

\* What a step is: the beginning of a call, a step inside one, the end of one, a
\* call that is refused at once, or nothing that FileStore can see.
LEMMA StepIs ==
  ASSUME [Next]_vars
  PROVE  \/ \E m \in Names, sz \in 0..MaxSize : BeginWrite(m, sz)
         \/ \E m \in Names : BeginDelete(m)
         \/ Inside
         \/ WriteEntry \/ MarkDeleted \/ RolledBack \/ Crash
         \/ \E m \in Names : WriteRefused(m) \/ DeleteMissing(m)
         \/ UNCHANGED <<fat, dir, data, pc, name, size, writes, ret, was, replacing, torn>>
BY DEF Next, Inside, WriteMirror, vars, disk, locals, ghosts

\* The invariant about calls that replace nothing holds always.
LEMMA WasAlways == Spec => []WasInv
<1>1. Init => WasInv
  BY DEF Init, WasInv
<1>2. ASSUME TypeInv, DirInv, WasInv, [Next]_vars PROVE WasInv'
  <2>1. ASSUME NEW m \in Names, NEW sz \in 0..MaxSize, BeginWrite(m, sz) PROVE WasInv'
    <3>1. PICK s \in Slots : WriteSlot(m, s) /\ replacing' = HasMatch(m)
      BY <2>1, Zenon DEF BeginWrite
    <3>2. name' = m /\ was' = [x \in Names |-> fat16_read_file(x)]
      BY <2>1 DEF BeginWrite
    <3>3. was'[m] = fat16_read_file(m)
      BY <3>2
    <3>4. ~replacing' => ~HasMatch(m)
      BY <3>1
    <3> QED BY <1>2, <3>1, <3>2, <3>3, <3>4, WriteNew DEF WasInv
  <2>2. ASSUME NEW m \in Names, BeginDelete(m) PROVE WasInv'
    BY <2>2 DEF BeginDelete, WasInv
  <2>3. CASE Inside
    BY <1>2, <2>3, InsideKeeps DEF WasInv
  <2>4. CASE WriteEntry \/ MarkDeleted \/ RolledBack \/ Crash
    BY <2>4 DEF WriteEntry, MarkDeleted, RolledBack, Crash, Return, EndCall, WasInv
  <2>5. CASE \/ \E m \in Names : WriteRefused(m) \/ DeleteMissing(m)
             \/ UNCHANGED <<fat, dir, data, pc, name, size, writes, ret, was, replacing, torn>>
    BY <1>2, <2>5 DEF WriteRefused, DeleteMissing, locals, ghosts, WasInv
  <2> QED BY <1>2, <2>1, <2>2, <2>3, <2>4, <2>5, StepIs
<1> QED BY <1>1, <1>2, TypesAlways, DirAlways, PTL DEF Spec

\* What a step inside a call writes belongs to the call or to nobody.
LEMMA InsideSpares ==
  ASSUME TypeInv, NEW P, NEW n, Chains(P, n), Inside
  PROVE  Spared(P, n)
<1> USE DEF disk
<1>1. SUFFICES ASSUME NEW s \in Slots, NEW i \in Nat, i < n[s]
      PROVE  fat'[P[s][i]] = fat[P[s][i]] /\ data'[P[s][i]] = data[P[s][i]]
  BY DEF Spared
<1>2. s \in Owners /\ s # Call /\ Call \in Owners
  BY OwnersAre
<1>3. PathsOK(P, n) /\ n \in [Owners -> Nat] /\ P \in [Owners -> [Nat -> Clusters]]
  BY DEF Chains, PathsOK
<1>4. P[s][i] \in Clusters /\ fat[P[s][i]] # FREE
  BY <1>1, <1>2, <1>3, OwnedInUse
<1>5. \A j \in Nat : j < n[Call] => P[Call][j] # P[s][i]
  BY <1>1, <1>2, <1>3 DEF PathsOK
<1>6. CASE FreeOld \/ FreeDeleted \/ Rollback
  <2>1. data' = data /\ (fat' = fat \/ (FreeOne /\ pc \in Freeing))
    BY <1>6 DEF FreeOld, FreeDeleted, Rollback, ChainFreed, At, Freeing
  <2>2. ASSUME FreeOne, pc \in Freeing PROVE fat'[P[s][i]] = fat[P[s][i]]
    <3>1. c \in Clusters /\ fat' = [fat EXCEPT ![c] = FREE]
      BY <2>2 DEF FreeOne, IsCluster, fat16_set_fat_entry
    <3>2. n[Call] # 0 /\ c = P[Call][0]
      BY <2>2, <3>1 DEF Chains, CallOK, IsCluster
    <3>3. c # P[s][i]
      BY <1>2, <1>3, <1>5, <3>2
    <3> QED BY <1>4, <3>1, <3>3 DEF TypeInv, TypeOK
  <2> QED BY <2>1, <2>2
<1>7. CASE AllocCluster
  <2>1. PICK k \in Clusters : Allocatable(k) /\ fat' = [fat EXCEPT ![k] = EOC]
    BY <1>7 DEF AllocCluster, fat16_set_fat_entry
  <2>2. data' = data /\ k # P[s][i]
    BY <1>4, <1>7, <2>1 DEF AllocCluster, Allocatable
  <2> QED BY <1>4, <2>1, <2>2 DEF TypeInv, TypeOK
<1>8. CASE LinkCluster
  <2>1. data' = data /\ pc = "link"
    BY <1>8 DEF LinkCluster, At
  <2>2. CASE first_cluster = 0
    BY <1>8, <2>1, <2>2 DEF LinkCluster
  <2>3. CASE first_cluster # 0
    <3>1. fat' = [fat EXCEPT ![current_cluster] = new_c]
      BY <1>8, <2>3 DEF LinkCluster, fat16_set_fat_entry
    <3>2. n[Call] # 0 /\ current_cluster = P[Call][n[Call] - 1]
      BY <2>1, <2>3 DEF Chains, CallOK
    <3>3. n[Call] - 1 \in Nat /\ n[Call] - 1 < n[Call]
      BY <1>2, <1>3, <3>2
    <3>4. current_cluster # P[s][i]
      BY <1>5, <3>2, <3>3
    <3> QED BY <1>4, <2>1, <3>1, <3>4 DEF TypeInv, TypeOK
  <2> QED BY <2>2, <2>3
<1>9. CASE WriteData
  <2>1. fat' = fat /\ pc = "data" /\ data' = [data EXCEPT ![current_cluster] = NewData(writes, written)]
    BY <1>9 DEF WriteData, At
  <2>2. n[Call] = written + 1 /\ current_cluster = P[Call][written] /\ written \in Nat
    BY <2>1 DEF Chains, CallOK, TypeInv, TypeOK
  <2>3. current_cluster # P[s][i]
    BY <1>5, <2>2
  <2> QED BY <1>4, <2>1, <2>3 DEF TypeInv, TypeOK
<1>10. CASE AllocFails \/ WriteMirror
  BY <1>10 DEF AllocFails, WriteMirror
<1> QED BY <1>6, <1>7, <1>8, <1>9, <1>10 DEF Inside


\* What FileStore sees of a name.
ViewOf(m) == IF Idle \/ m # name THEN fat16_read_file(m) ELSE was[m]

\* The view is a map of names, before and after a step.
LEMMA ViewIs ==
  /\ FileStoreView = [m \in Names |-> ViewOf(m)]
  /\ FileStoreView' = [m \in Names |-> ViewOf(m)']
BY DEF FileStoreView, ViewOf

\* An entry of another name counts, and a step of the call that ends it or
\* not, but writes no slot except its own, leaves it alone.
LEMMA OthersKept ==
  ASSUME TypeInv, DirInv, TypeInv', DirInv', NEW P, NEW n, Chains(P, n), Spared(P, n), pc # "idle",
         \A s \in Slots : s # target => dir'[s] = dir[s],
         NEW m \in Names, m # name, dir'[target] = dir[target] \/ dir'[target].name # m
  PROVE  fat16_read_file(m)' = fat16_read_file(m)
<1>1. target \in Slots
  BY DEF TypeInv, TypeOK
<1>2. dir[target].name # m /\ dir'[target].name # m
  BY DEF DirInv, Used
<1>3. \A s \in Slots : dir[s].name = m \/ dir'[s].name = m => Live(s) /\ dir'[s] = dir[s]
  <2>1. SUFFICES ASSUME NEW s \in Slots, dir[s].name = m \/ dir'[s].name = m PROVE Live(s) /\ dir'[s] = dir[s]
    OBVIOUS
  <2>2. s # target
    BY <1>2, <2>1
  <2> QED BY <2>1, <2>2 DEF Live, Used
<1> QED BY <1>3, ReadKept

\* The entry that WriteEntry wrote is read back whole.
LEMMA WrittenIsRead ==
  ASSUME TypeInv, DirInv, TypeInv', DirInv', NEW P, NEW n, Chains(P, n), WriteEntry
  PROVE  ReadIn(fat', dir', data', name) = Given(writes, size)
<1>0. PICK s, m, sz, w, p, len : /\ s = target /\ m = name /\ sz = size /\ w = writes
                                 /\ p = P[Call] /\ len = n[Call]
  OBVIOUS
<1>1. /\ pc = "alloc" /\ ~NeedsCluster /\ dir' = [dir EXCEPT ![s] = Entry(m, "file", first_cluster, sz)]
      /\ UNCHANGED <<fat, data>>
  BY <1>0 DEF WriteEntry, At
<1>2. s \in Slots /\ m \in Names /\ sz \in 0..MaxSize /\ written \in Nat /\ w \in 1..MaxWrites
  BY <1>0, <1>1 DEF TypeInv, TypeOK, Writing
<1>3. len = (IF sz = 0 THEN 1 ELSE sz) /\ first_cluster = p[0] /\ (sz > 0 => written = sz)
  BY <1>0, <1>1, <1>2 DEF Chains, CallOK, NeedsCluster
<1>4. dir'[s] = Entry(m, "file", first_cluster, sz)
  BY <1>1, <1>2 DEF TypeInv, TypeOK
<1>5. dir'[s].name = m /\ dir'[s].attr = "file" /\ dir'[s].first = first_cluster /\ dir'[s].size = sz
  BY <1>4 DEF Entry
<1>6. p \in [Nat -> Clusters] /\ Linked(fat, p, len) /\ Distinct(p, len)
  BY <1>0, OwnersAre DEF Chains, PathsOK, Distinct
<1>7. Heads(fat', dir', s, m, sz, p, len)
  <2>1. \A t \in 0..s : t \in Slots /\ (t = s \/ t < s)
    BY <1>2 DEF Slots
  <2>2. dir'[s].name # END
    BY <1>2, <1>5
  <2>3. \A t \in Slots : t < s => dir'[t].name # END
    BY <1>2, <2>2 DEF DirInv
  <2>4. \A t \in 0..s : dir'[t].name # END
    BY <2>1, <2>2, <2>3
  <2>5. Used(s)'
    BY <1>0, <1>2, <1>5 DEF Used
  <2>6. \A t \in Slots : dir'[t].name = dir'[s].name => t = s
    BY <1>2, <1>5 DEF DirInv, Used
  <2>7. len \in Nat \ {0} /\ sz \in Nat /\ sz <= len
    BY <1>2, <1>3
  <2> QED BY <1>1, <1>3, <1>5, <1>6, <2>4, <2>6, <2>7 DEF Heads
<1>8. fat' \in [Clusters -> Clusters \cup {FREE, EOC}]
  BY DEF TypeInv, TypeOK
<1>9. ReadIn(fat', dir', data', m) = Pieces(data', p, sz)
  BY <1>2, <1>7, <1>8, ReadPath
<1>10. [k \in 1..sz |-> data'[p[k - 1]]] = [k \in 1..sz |-> NewData(w, k - 1)]
  <2>1. ASSUME NEW k \in 1..sz PROVE data'[p[k - 1]] = NewData(w, k - 1)
    <3>1. k - 1 \in Nat /\ k - 1 < written /\ sz > 0
      BY <1>2, <1>3
    <3> QED BY <1>0, <1>1, <3>1 DEF Chains, DataOK
  <2> QED BY <2>1
<1>11. Pieces(data', p, sz) = Given(w, sz)
  BY <1>10 DEF Pieces, Given
<1> QED BY <1>0, <1>9, <1>11

\* What is given to a write is among the contents.
LEMMA GivenIsContent ==
  ASSUME NEW w \in 1..MaxWrites, NEW sz \in 0..MaxSize
  PROVE  Given(w, sz) \in AllContents
<1> DEFINE OfWrite(v) == {Given(v, z) : z \in 0..MaxSize}
<1>1. AllContents = UNION {OfWrite(v) : v \in 1..MaxWrites}
  BY DEF AllContents
<1>2. Given(w, sz) \in OfWrite(w)
  OBVIOUS
<1> HIDE DEF OfWrite
<1> QED BY <1>1, <1>2

\* The running call as FileStore sees it, before and after a step.
CallAt(p, nm, w, sz) ==
  IF p = "idle" THEN [op |-> "none"]
  ELSE IF p \in Deleting THEN [op |-> "delete", name |-> nm, content |-> Absent]
  ELSE [op |-> "write", name |-> nm, content |-> Given(w, sz)]

LEMMA CallIs ==
  /\ RunningCall = CallAt(pc, name, writes, size)
  /\ RunningCall' = CallAt(pc', name', writes', size')
BY DEF RunningCall, CallAt, Idle, Deleting, Given, NewData

\* A call runs exactly outside the idle state, and has these fields.
LEMMA CallFields ==
  /\ pc = "idle" => RunningCall = Store!NoCall
  /\ pc' = "idle" => RunningCall' = Store!NoCall
  /\ pc # "idle" => /\ RunningCall # Store!NoCall /\ RunningCall.name = name
                    /\ pc \in Deleting => RunningCall.op = "delete" /\ RunningCall.content = Absent
                    /\ pc \notin Deleting => RunningCall.op = "write" /\ RunningCall.content = Given(writes, size)
<1>1. pc = "idle" => RunningCall = Store!NoCall
  BY CallIs DEF CallAt, Store!NoCall
<1>2. pc' = "idle" => RunningCall' = Store!NoCall
  BY CallIs DEF CallAt, Store!NoCall
<1>3. ASSUME pc # "idle", pc \in Deleting
      PROVE  RunningCall.op = "delete" /\ RunningCall.name = name /\ RunningCall.content = Absent
  BY <1>3, CallIs DEF CallAt
<1>4. ASSUME pc # "idle", pc \notin Deleting
      PROVE  RunningCall.op = "write" /\ RunningCall.name = name /\ RunningCall.content = Given(writes, size)
  BY <1>4, CallIs DEF CallAt
<1>5. Store!NoCall.op = "none"
  BY DEF Store!NoCall
<1> QED BY <1>1, <1>2, <1>3, <1>4, <1>5

\* A call replaces something exactly when its name has an entry.
LEMMA ReplacesEntry ==
  ASSUME TypeInv, DirInv, pc # "idle"
  PROVE  replacing <=> name \in EntryNames
<1>1. name \in Names /\ target \in Slots
  BY DEF TypeInv, TypeOK
<1>2. CASE replacing
  BY <1>1, <1>2 DEF DirInv, EntryNames
<1>3. CASE ~replacing
  <2>1. \A s \in Slots : dir[s].name # name
    BY <1>1, <1>3 DEF DirInv, Used
  <2> QED BY <1>3, <2>1 DEF EntryNames
<1> QED BY <1>2, <1>3

\* A write that finds no slot is about a name without an entry.
LEMMA RefusedIsNew ==
  ASSUME TypeInv, DirInv, NEW m \in Names, \A s \in Slots : ~WriteSlot(m, s)
  PROVE  fat16_read_file(m) = Absent
<1>1. ASSUME NEW s \in Slots, dir[s].name = m PROVE FALSE
  <2>1. Match(s, m) /\ Used(s)
    BY <1>1, NoGaps DEF Match, Used
  <2>2. \A t \in 0..(s - 1) : t \in Slots /\ t # s
    BY DEF Slots
  <2>3. \A t \in 0..(s - 1) : ~Match(t, m)
    BY <1>1, <2>1, <2>2 DEF DirInv, Match
  <2>4. HasMatch(m) /\ FirstMatch(s, m)
    BY <2>1, <2>3 DEF HasMatch, FirstMatch
  <2> QED BY <2>4 DEF WriteSlot
<1>2. ReadIn(fat, dir, data, m) = Absent
  BY <1>1, ReadNone
<1> QED BY <1>2, ReadInIs

\* Every step of the driver is a step of FileStore, or none.
LEMMA FileStoreStep ==
  ASSUME TypeInv, DirInv, ChainInv, WasInv, TypeInv', DirInv', [Next]_vars
  PROVE  [torn \/ Store!Next]_(Store!fvars)
<1> USE DEF disk
<1>1. CASE torn
  BY <1>1
<1>2. CASE ~torn
  <2>1. PICK P, n : Chains(P, n)
    BY <1>2 DEF ChainInv
  <2>2. torn \in BOOLEAN /\ torn' \in BOOLEAN
    BY DEF TypeInv, TypeOK
  <2>3. ASSUME \A m \in Names : ViewOf(m)' = ViewOf(m) PROVE FileStoreView' = FileStoreView
    BY <2>3, ViewIs
  <2>4. ASSUME UNCHANGED dir PROVE EntryNames' = EntryNames
    BY <2>4 DEF EntryNames
  <2>5. CASE \/ \E m \in Names, sz \in 0..MaxSize : BeginWrite(m, sz)
             \/ \E m \in Names : BeginDelete(m)
    <3>1. /\ pc = "idle" /\ pc' # "idle" /\ UNCHANGED <<fat, dir, data, ret, torn>>
          /\ was' = [m \in Names |-> fat16_read_file(m)]
      BY <2>5 DEF BeginWrite, BeginDelete
    <3>2. ASSUME NEW m \in Names PROVE ViewOf(m)' = ViewOf(m)
      <4>1. fat16_read_file(m)' = fat16_read_file(m)
        BY <3>1, ReadSame
      <4>2. was'[m] = fat16_read_file(m) /\ ViewOf(m) = fat16_read_file(m)
        BY <3>1 DEF ViewOf, Idle
      <4>3. ViewOf(m)' = IF m # name' THEN fat16_read_file(m)' ELSE was'[m]
        BY <3>1 DEF ViewOf, Idle
      <4> QED BY <4>1, <4>2, <4>3
    <3>3. FileStoreView' = FileStoreView /\ EntryNames' = EntryNames /\ ~Store!Running
      BY <2>3, <2>4, <3>1, <3>2, CallFields DEF Store!Running
    <3>4. ASSUME NEW m \in Names, NEW sz \in 0..MaxSize, BeginWrite(m, sz) PROVE Store!Next
      <4>1. name' = m /\ size' = sz /\ writes' = writes + 1 /\ writes < MaxWrites /\ pc' \notin Deleting
        BY <3>4 DEF BeginWrite, Deleting
      <4>2. writes' \in 1..MaxWrites
        BY <4>1 DEF TypeInv
      <4>3. PICK content \in AllContents : content = Given(writes', sz)
        BY <4>2, GivenIsContent
      <4>4. RunningCall' = Store!Call("write", m, content)
        BY <3>1, <4>1, <4>3, CallIs DEF CallAt, Store!Call
      <4>5. Store!Call("write", m, content).op = "write"
        BY DEF Store!Call
      <4>6. Store!Begin(Store!Call("write", m, content))
        BY <3>1, <3>3, <4>4, <4>5 DEF Store!Begin
      <4> QED BY <4>6 DEF Store!Next
    <3>5. ASSUME NEW m \in Names, BeginDelete(m) PROVE Store!Next
      <4>1. name' = m /\ pc' \in Deleting
        BY <3>5 DEF BeginDelete, Deleting
      <4>2. m \in EntryNames
        BY <3>5 DEF BeginDelete, Lookup, IsFile, EntryNames
      <4>3. RunningCall' = Store!Call("delete", m, Absent)
        BY <3>1, <4>1, CallIs DEF CallAt, Store!Call
      <4>4. Store!Call("delete", m, Absent).name = m
        BY DEF Store!Call
      <4>5. Store!Begin(Store!Call("delete", m, Absent))
        BY <3>1, <3>3, <4>2, <4>3, <4>4 DEF Store!Begin
      <4> QED BY <4>5 DEF Store!Next
    <3> QED BY <2>5, <3>4, <3>5
  <2>6. CASE Inside
    <3>1. /\ pc # "idle" /\ pc' # "idle" /\ (pc' \in Deleting <=> pc \in Deleting)
          /\ UNCHANGED <<name, size, writes, ret, was, dir, torn>>
      BY <2>6, InsideKeeps
    <3>2. Spared(P, n)
      BY <2>1, <2>6, InsideSpares
    <3>3. ASSUME NEW m \in Names PROVE ViewOf(m)' = ViewOf(m)
      <4>1. m # name => fat16_read_file(m)' = fat16_read_file(m)
        BY <2>1, <3>1, <3>2, OthersKept
      <4>2. /\ ViewOf(m)' = IF m # name' THEN fat16_read_file(m)' ELSE was'[m]
            /\ ViewOf(m) = IF m # name THEN fat16_read_file(m) ELSE was[m]
        BY <3>1 DEF ViewOf, Idle
      <4> QED BY <3>1, <4>1, <4>2
    <3>4. RunningCall' = RunningCall
      BY <3>1, CallIs DEF CallAt
    <3> QED BY <2>3, <2>4, <3>1, <3>3, <3>4 DEF Store!fvars
  <2>7. CASE WriteEntry
    <3>1. /\ pc = "alloc" /\ pc' = "idle" /\ UNCHANGED <<fat, data, torn>> /\ ret' = size
          /\ dir' = [dir EXCEPT ![target] = Entry(name, "file", first_cluster, size)]
      BY <2>7 DEF WriteEntry, At, Return, EndCall
    <3>2. name \in Names /\ target \in Slots
      BY <3>1 DEF TypeInv, TypeOK
    <3>3. \A s \in Slots : dir'[s] = IF s = target THEN Entry(name, "file", first_cluster, size) ELSE dir[s]
      BY <3>1, <3>2 DEF TypeInv, TypeOK
    <3>4. dir'[target].name = name
      <4>1. dir'[target] = Entry(name, "file", first_cluster, size)
        BY <3>2, <3>3
      <4> QED BY <4>1 DEF Entry
    <3>5. Spared(P, n)
      BY <3>1 DEF Spared
    <3>6. ASSUME NEW m \in Names, m # name PROVE ViewOf(m)' = ViewOf(m)
      <4>1. fat16_read_file(m)' = fat16_read_file(m)
        BY <2>1, <3>1, <3>3, <3>4, <3>5, <3>6, OthersKept
      <4> QED BY <3>1, <3>6, <4>1 DEF ViewOf, Idle
    <3>7. PICK m \in Names : m = name
      BY <3>2
    <3>8. PICK content : content = Given(writes, size)
      OBVIOUS
    <3>9. ViewOf(m)' = content
      <4>1. fat16_read_file(m)' = content
        BY <2>1, <2>7, <3>7, <3>8, ReadInIs, WrittenIsRead
      <4> QED BY <3>1, <4>1 DEF ViewOf, Idle
    <3>10. FileStoreView' = [FileStoreView EXCEPT ![m] = content]
      BY <3>6, <3>7, <3>9, ViewIs
    <3>11. EntryNames' = EntryNames \cup {m}
      <4>1. dir[target].name = name \/ dir[target].name \notin Names
        BY <3>1 DEF DirInv, Used
      <4>2. ASSUME NEW x \in Names PROVE x \in EntryNames' <=> (x \in EntryNames \/ x = m)
        BY <3>2, <3>3, <3>4, <3>7, <4>1 DEF EntryNames
      <4>3. EntryNames' \subseteq Names /\ EntryNames \subseteq Names
        BY DEF EntryNames
      <4> QED BY <4>2, <4>3
    <3>12. /\ RunningCall # Store!NoCall /\ RunningCall.name = m /\ RunningCall.op = "write"
           /\ RunningCall.content = content /\ RunningCall' = Store!NoCall
      BY <3>1, <3>7, <3>8, CallFields DEF Deleting
    <3>13. content.size = size
      BY <3>8 DEF Given
    <3>14. Store!Write
      BY <3>1, <3>10, <3>11, <3>12, <3>13 DEF Store!Write, Store!Running
    <3> QED BY <3>14 DEF Store!Next
  <2>8. CASE MarkDeleted
    <3>1. /\ pc = "mark" /\ pc' = "idle" /\ UNCHANGED <<fat, data, torn>> /\ ret' = 1
          /\ dir' = [dir EXCEPT ![target].name = DELETED]
      BY <2>8 DEF MarkDeleted, At, Return, EndCall
    <3>2. name \in Names /\ target \in Slots
      BY <3>1 DEF TypeInv, TypeOK
    <3>3. \A s \in Slots : /\ s # target => dir'[s] = dir[s]
                           /\ s = target => dir'[s].name = DELETED
      BY <3>1, <3>2 DEF TypeInv, TypeOK
    <3>4. Spared(P, n)
      BY <3>1 DEF Spared
    <3>5. ASSUME NEW m \in Names, m # name PROVE ViewOf(m)' = ViewOf(m)
      <4>1. dir'[target].name # m
        BY <3>2, <3>3
      <4>2. fat16_read_file(m)' = fat16_read_file(m)
        BY <2>1, <3>1, <3>3, <3>4, <3>5, <4>1, OthersKept
      <4> QED BY <3>1, <3>5, <4>2 DEF ViewOf, Idle
    <3>6. PICK m \in Names : m = name
      BY <3>2
    <3>7. \A s \in Slots : dir'[s].name # m
      BY <3>1, <3>3, <3>6 DEF DirInv
    <3>8. ViewOf(m)' = Absent
      <4>1. ReadIn(fat', dir', data', m) = Absent
        BY <3>7, ReadNone
      <4>2. fat16_read_file(m)' = Absent
        BY <4>1, ReadInIs
      <4> QED BY <3>1, <4>2 DEF ViewOf, Idle
    <3>9. FileStoreView' = [FileStoreView EXCEPT ![m] = Absent]
      BY <3>5, <3>6, <3>8, ViewIs
    <3>10. EntryNames' = EntryNames \ {m}
      <4>1. dir[target].name = m
        BY <3>1, <3>6 DEF DirInv, Deleting
      <4>2. ASSUME NEW x \in Names PROVE x \in EntryNames' <=> (x \in EntryNames /\ x # m)
        BY <3>2, <3>3, <3>7, <4>1 DEF EntryNames
      <4>3. EntryNames' \subseteq Names /\ EntryNames \subseteq Names
        BY DEF EntryNames
      <4> QED BY <4>2, <4>3
    <3>11. /\ RunningCall # Store!NoCall /\ RunningCall.name = m /\ RunningCall.op = "delete"
           /\ RunningCall' = Store!NoCall
      BY <3>1, <3>6, CallFields DEF Deleting
    <3>12. Store!Delete
      BY <3>1, <3>9, <3>10, <3>11 DEF Store!Delete, Store!Running
    <3> QED BY <3>12 DEF Store!Next
  <2>9. CASE RolledBack \/ Crash
    <3>1. /\ pc # "idle" /\ pc' = "idle" /\ UNCHANGED <<fat, dir, data>>
          /\ RolledBack => ret' = 0
          /\ Crash => ret' = ret
      BY <2>9 DEF RolledBack, Crash, At, Return, EndCall
    <3>2. torn' = (torn \/ replacing)
      BY <2>9, Zenon DEF RolledBack, Crash
    <3>3. ASSUME NEW m \in Names, m # name \/ ~replacing PROVE ViewOf(m)' = ViewOf(m)
      <4>1. fat16_read_file(m)' = fat16_read_file(m)
        BY <3>1, ReadSame
      <4>2. CASE m # name
        BY <3>1, <4>1, <4>2 DEF ViewOf, Idle
      <4>3. CASE ~replacing
        <5>1. was[name] = Absent /\ fat16_read_file(name) = Absent
          BY <3>1, <4>3, NameAbsent DEF WasInv
        <5> QED BY <3>1, <4>1, <5>1 DEF ViewOf, Idle
      <4> QED BY <3>3, <4>2, <4>3
    <3>4. /\ RunningCall # Store!NoCall /\ RunningCall.name = name /\ RunningCall' = Store!NoCall
          /\ EntryNames' = EntryNames
      BY <2>4, <3>1, CallFields
    <3>5. CASE ~replacing
      <4>1. torn' = torn
        BY <1>2, <2>2, <3>2, <3>5
      <4>2. FileStoreView' = FileStoreView /\ name \notin EntryNames
        BY <2>3, <3>1, <3>3, <3>5, ReplacesEntry
      <4>3. RolledBack => Store!Refuse
        BY <3>1, <3>4, <4>1, <4>2 DEF Store!Refuse, Store!Running, Store!New
      <4>4. Crash => Store!Crash
        BY <3>1, <3>4, <4>1, <4>2 DEF Store!Crash, Store!Running, Store!New
      <4> QED BY <2>9, <4>3, <4>4 DEF Store!Next
    <3>6. CASE replacing
      <4>1. torn' = TRUE /\ name \in EntryNames
        BY <2>2, <3>1, <3>2, <3>6, ReplacesEntry
      <4>2. \A m \in Names \ {name} : FileStoreView'[m] = FileStoreView[m]
        BY <3>3, ViewIs
      <4>3. Store!Tear
        BY <2>9, <3>1, <3>4, <4>1, <4>2 DEF Store!Tear, Store!Running, Store!New
      <4> QED BY <4>3 DEF Store!Next
    <3> QED BY <3>5, <3>6
  <2>10. CASE \E m \in Names : WriteRefused(m) \/ DeleteMissing(m)
    <3>1. PICK m \in Names : WriteRefused(m) \/ DeleteMissing(m)
      BY <2>10
    <3>2. /\ pc = "idle" /\ ret' = 0
          /\ UNCHANGED <<fat, dir, data, pc, name, size, was, torn>>
      BY <3>1 DEF WriteRefused, DeleteMissing, locals, ghosts
    <3>3. ASSUME NEW x \in Names PROVE ViewOf(x)' = ViewOf(x)
      BY <3>2, ReadSame DEF ViewOf, Idle
    <3>4. RunningCall = Store!NoCall /\ RunningCall' = Store!NoCall
      BY <3>2, CallFields
    <3>5. fat16_read_file(m) = Absent
      <4>1. DeleteMissing(m) => fat16_read_file(m) = Absent
        BY DEF DeleteMissing, fat16_read_file
      <4>2. WriteRefused(m) => fat16_read_file(m) = Absent
        BY RefusedIsNew DEF WriteRefused
      <4> QED BY <3>1, <4>1, <4>2
    <3>6. FileStoreView[m] = Absent
      BY <3>2, <3>5, ViewIs DEF ViewOf, Idle
    <3>7. Store!RefuseAtOnce(m)
      BY <2>3, <2>4, <3>2, <3>3, <3>4, <3>6 DEF Store!RefuseAtOnce, Store!Running
    <3> QED BY <3>7 DEF Store!Next
  <2>11. CASE UNCHANGED <<fat, dir, data, pc, name, size, writes, ret, was, replacing, torn>>
    <3>1. ASSUME NEW m \in Names PROVE ViewOf(m)' = ViewOf(m)
      BY <2>11, ReadSame DEF ViewOf, Idle
    <3>2. RunningCall' = RunningCall
      BY <2>11, CallIs
    <3> QED BY <2>3, <2>4, <2>11, <3>1, <3>2 DEF Store!fvars
  <2> QED BY <2>5, <2>6, <2>7, <2>8, <2>9, <2>10, <2>11, StepIs
<1> QED BY <1>1, <1>2

\* The driver implements the file store: the step in which a write returns makes
\* its file read back as it was given, and it returns the size; the step in
\* which a deletion returns makes its file absent; no call changes another file.
\* A call that is refused returns 0, and it and a crash change no file, unless
\* they cut a replacement or a deletion short: then the file named is lost and
\* every other one is still as it was.
THEOREM Fat16ImplementsFileStore == Spec => ImplementsFileStore
<1>1. Init => Store!Init
  <2>1. SUFFICES ASSUME Init PROVE Store!Init
    OBVIOUS
  <2>2. \A s \in Slots : dir[s] = IF SubDir # NoName /\ s = 0 THEN Entry(SubDir, "dir", 2, 0)
                                                            ELSE Entry(END, "file", 0, 0)
    BY <2>1 DEF Init
  <2>3. \A s \in Slots : /\ dir[s].name = IF SubDir # NoName /\ s = 0 THEN SubDir ELSE END
                         /\ dir[s].name \in Names => dir[s].attr = "dir"
    BY <2>2, Fat16Assumption DEF Entry, END
  <2>4. ASSUME NEW m \in Names PROVE ViewOf(m) = Absent
    <3>1. ReadIn(fat, dir, data, m) = Absent
      BY <2>3, ReadNone
    <3> QED BY <2>1, <3>1, ReadInIs DEF Init, ViewOf, Idle
  <2>5. torn = FALSE /\ ret = 0 /\ pc = "idle"
    BY <2>1, Zenon DEF Init
  <2>6. EntryNames = {SubDir} \ {NoName}
    <3>1. 0 \in Slots
      BY Fat16Assumption DEF Slots
    <3> QED BY <2>3, <3>1, Fat16Assumption DEF EntryNames, END
  <2>7. RunningCall = Store!NoCall
    BY <2>5, CallFields
  <2> QED BY <2>4, <2>5, <2>6, <2>7, ViewIs DEF Store!Init
<1>2. TypeInv /\ DirInv /\ ChainInv /\ WasInv /\ TypeInv' /\ DirInv' /\ [Next]_vars
        => [torn \/ Store!Next]_(Store!fvars)
  BY FileStoreStep
<1> QED
  BY <1>1, <1>2, TypesAlways, DirAlways, ChainsAlways, WasAlways, PTL DEF Spec, ImplementsFileStore, Store!Spec

=============================================================================
