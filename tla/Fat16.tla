-------------------------------- MODULE Fat16 --------------------------------
(***************************************************************************)
(* The FAT16 driver, kernel/fat16.c, on the disk that ata_read_sector and  *)
(* ata_write_sector reach.  Every sector write that the properties can     *)
(* tell apart is a step: the FAT, its second copy, a cluster of data and   *)
(* the root directory.  Between any two of them the machine may stop       *)
(* (Crash); it comes back with what is on the disk.  There is one caller   *)
(* at a time: the driver runs to completion inside a syscall or the shell. *)
(*                                                                         *)
(* Names are names after format_fat_name.  Sizes count clusters, and the   *)
(* contents of a file are pieces, one per cluster, tagged with the write   *)
(* that produced them.                                                     *)
(***************************************************************************)
EXTENDS Naturals, FiniteSets, Sequences

CONSTANTS
  Names,              \* file names
  SubDir,             \* a name that is a subdirectory at first, or NoName
  NoName,
  Absent,
  total_clusters,     \* data clusters of the volume, numbered 2 .. total_clusters + 1
  FatPerSector,       \* 256: FAT entries in a sector
  RootEntries,        \* bpb.root_entry_count
  EntriesPerSector,   \* 16: directory entries in a sector
  MaxSize,            \* bound: largest file, in clusters
  MaxWrites,          \* bound: number of writes
  MaxCrashes          \* bound: number of crashes

ASSUME Fat16Assumption ==
  /\ total_clusters \in Nat \ {0} /\ total_clusters < 65519 /\ FatPerSector \in Nat \ {0}
  /\ RootEntries \in Nat \ {0} /\ EntriesPerSector \in Nat \ {0}
  /\ MaxSize \in Nat /\ MaxWrites \in Nat /\ MaxCrashes \in Nat
  /\ SubDir \in Names \cup {NoName}
  /\ NoName \notin Names /\ Names \cap {"end", "deleted"} = {}

Clusters == 2..(total_clusters + 1)
Slots == 0..(RootEntries - 1)
FREE == 0
EOC == 65535                        \* 0xFFFF

\* The test of every chain loop: 2 <= c <= 0xFFEF, the largest cluster a
\* FAT16 volume can have.  Only numbers of clusters and EOC are ever stored.
IsCluster(c) == c \in Clusters

Blank == <<0, 0>>                   \* a cluster never written
Stale == <<0, 1>>                   \* what the caller's buffer held
NewData(w, k) == <<w, k>>           \* piece k of the w-th write

VARIABLES
  fat, fat2,          \* the two copies of the FAT
  dir,                \* the root directory: name END, DELETED or one of Names
  data,               \* the contents of every cluster
  mirror,             \* fat16_set_fat_entry still has to write this entry's sector to fat2
  pc,                 \* where the running call is, "idle" when there is none
  name, size,         \* its arguments
  target,             \* target_sec and target_idx together: a slot
  c,                  \* c, cluster, cl: the cursor of a chain loop
  first_cluster, current_cluster, new_c, written,
  ret,                \* the value the last call returned
  writes, crashes,    \* counters for the bounds
  was,                \* ghost: what each name held when the running call began
  replacing,          \* ghost: the running call is giving up an old chain
  torn                \* ghost: such a call did not complete

disk == <<fat, fat2, dir, data>>
locals == <<name, size, target, c, first_cluster, current_cluster, new_c, written>>
ghosts == <<was, replacing, torn>>
vars == <<disk, mirror, pc, locals, ret, writes, crashes, ghosts>>

Entry(n, attr, first, sz) == [name |-> n, attr |-> attr, first |-> first, size |-> sz]
END == "end"                        \* name[0] = 0x00
DELETED == "deleted"                \* name[0] = 0xE5

Used(s) == dir[s].name \notin {END, DELETED}

-----------------------------------------------------------------------------
(* Reading. *)

\* Slots before the first end marker: what fat16_read_file, fat16_get_file_size,
\* fat16_delete_file and fat16_dir visit.
Visible(s) == \A t \in 0..s : dir[t].name # END

\* The entry they settle on: the first of that name that is no directory.
IsFile(s, n) == Visible(s) /\ dir[s].name = n /\ dir[s].attr = "file"
Lookup(s, n) == IsFile(s, n) /\ \A t \in 0..(s - 1) : ~IsFile(t, n)
Exists(n) == \E s \in Slots : IsFile(s, n)

\* The k-th cluster of a chain, following the FAT from first.
ChainAt(first) ==
  LET at[k \in 0..(total_clusters + 1)] ==
        IF k = 0 THEN first
        ELSE IF IsCluster(at[k - 1]) THEN fat[at[k - 1]] ELSE FREE
  IN at

\* The size is returned whatever the chain holds: where it ends early the
\* caller's buffer keeps what it held.
fat16_read_file(n) ==
  IF ~Exists(n) THEN Absent
  ELSE LET e == dir[CHOOSE s \in Slots : Lookup(s, n)]
           at == ChainAt(e.first)
       IN [size |-> e.size,
           data |-> [k \in 1..e.size |->
              IF \A l \in 0..(k - 1) : IsCluster(at[l]) THEN data[at[k - 1]] ELSE Stale]]

-----------------------------------------------------------------------------

NoFiles == [n \in Names |-> Absent]

Init ==
  /\ fat = [k \in Clusters |-> IF SubDir # NoName /\ k = 2 THEN EOC ELSE FREE]
  /\ fat2 = fat
  /\ dir = [s \in Slots |-> IF SubDir # NoName /\ s = 0 THEN Entry(SubDir, "dir", 2, 0)
                                                       ELSE Entry(END, "file", 0, 0)]
  /\ data = [k \in Clusters |-> Blank]
  /\ mirror = FREE /\ pc = "idle"
  /\ name = NoName /\ size = 0 /\ target = 0 /\ c = 0
  /\ first_cluster = 0 /\ current_cluster = 0 /\ new_c = 0 /\ written = 0
  /\ ret = 0 /\ writes = 0 /\ crashes = 0
  /\ was = NoFiles /\ replacing = FALSE /\ torn = FALSE

\* fat16_set_fat_entry: read the sector of the first copy, change the entry,
\* write it back; the second copy follows in a write of its own.
fat16_set_fat_entry(k, value) ==
  /\ fat' = [fat EXCEPT ![k] = value]
  /\ mirror' = k

\* Mutant: the second copy is left alone.
WriteMirror_Skipped ==
  /\ mirror # FREE
  /\ mirror' = FREE
  /\ UNCHANGED <<fat, fat2, dir, data, pc, locals, ret, writes, crashes, ghosts>>

\* The second write stores the whole sector that the first one stored.
WriteMirror ==
  /\ mirror # FREE
  /\ fat2' = [k \in Clusters |->
       IF k \div FatPerSector = mirror \div FatPerSector THEN fat[k] ELSE fat2[k]]
  /\ mirror' = FREE
  /\ UNCHANGED <<fat, dir, data, pc, locals, ret, writes, crashes, ghosts>>

\* The next step of the running call, once both copies are written.
At(label) == pc = label /\ mirror = FREE

\* Outside a call the locals are dead.
EndCall ==
  /\ pc' = "idle"
  /\ name' = NoName /\ size' = 0 /\ target' = 0 /\ c' = 0
  /\ first_cluster' = 0 /\ current_cluster' = 0 /\ new_c' = 0 /\ written' = 0
  /\ was' = NoFiles
  /\ replacing' = FALSE

Return(value) == EndCall /\ ret' = value

\* fat16_alloc_cluster: the first free entry below total_clusters, 0 if none.
Allocatable(k) == k \in Clusters /\ k < total_clusters /\ fat[k] = FREE

-----------------------------------------------------------------------------
(* fat16_write_file *)

\* Pass 1 looks at every sector up to its own end marker.
Scanned(s) ==
  \A t \in Slots : (t < s /\ t \div EntriesPerSector = s \div EntriesPerSector)
                      => dir[t].name # END

Match(s, n) == Scanned(s) /\ dir[s].name = n
FirstMatch(s, n) == Match(s, n) /\ \A t \in 0..(s - 1) : ~Match(t, n)
HasMatch(n) == \E s \in Slots : Match(s, n)

FirstFree(s) ==
  /\ Scanned(s) /\ ~Used(s)
  /\ \A t \in 0..(s - 1) : ~(Scanned(t) /\ ~Used(t))

\* Mutant: a deleted slot is taken before the rest of the directory is searched.
WriteSlot_FirstFree(n, s) ==
  IF \E t \in Slots : FirstFree(t) THEN FirstFree(s) ELSE FirstMatch(s, n)

\* An entry of that name is reused whatever its attributes, its chain is
\* freed first; otherwise the first slot that is free.
WriteSlot(n, s) ==
  IF HasMatch(n) THEN FirstMatch(s, n) ELSE FirstFree(s)

BeginWrite(n, sz) ==
  /\ pc = "idle"
  /\ writes < MaxWrites
  /\ writes' = writes + 1
  /\ \E s \in Slots :
       /\ WriteSlot(n, s)
       /\ target' = s
       /\ c' = IF HasMatch(n) THEN dir[s].first ELSE 0
       /\ pc' = IF HasMatch(n) THEN "free_old" ELSE "alloc"
       /\ replacing' = HasMatch(n)
  /\ name' = n /\ size' = sz
  /\ first_cluster' = 0 /\ current_cluster' = 0 /\ new_c' = 0 /\ written' = 0
  /\ was' = [m \in Names |-> fat16_read_file(m)]
  /\ UNCHANGED <<disk, mirror, ret, crashes, torn>>

\* The root directory is full.
WriteRefused(n) ==
  /\ pc = "idle"
  /\ writes < MaxWrites
  /\ \A s \in Slots : ~WriteSlot(n, s)
  /\ writes' = writes + 1
  /\ ret' = 0
  /\ UNCHANGED <<disk, mirror, pc, locals, crashes, ghosts>>

\* Mutant: the cursor does not move on.
FreeOne_Stuck ==
  /\ IsCluster(c)
  /\ fat16_set_fat_entry(c, FREE)
  /\ UNCHANGED <<c, pc>>

\* One iteration of the loops that free a chain.
FreeOne ==
  /\ IsCluster(c)
  /\ fat16_set_fat_entry(c, FREE)
  /\ c' = fat[c]
  /\ UNCHANGED pc

ChainFreed == ~IsCluster(c) /\ UNCHANGED <<fat, mirror, c>>

FreeOld ==
  /\ At("free_old")
  /\ FreeOne \/ (ChainFreed /\ pc' = "alloc")
  /\ UNCHANGED <<fat2, dir, data, name, size, target, first_cluster, current_cluster,
                 new_c, written, ret, writes, crashes, ghosts>>

NeedsCluster == written < size \/ (size = 0 /\ first_cluster = 0)

AllocCluster ==
  /\ At("alloc") /\ NeedsCluster
  /\ \E k \in Clusters :
       /\ Allocatable(k) /\ \A l \in 2..(k - 1) : ~Allocatable(l)
       /\ fat16_set_fat_entry(k, EOC)
       /\ new_c' = k
  /\ pc' = "link"
  /\ UNCHANGED <<fat2, dir, data, name, size, target, c, first_cluster, current_cluster,
                 written, ret, writes, crashes, ghosts>>

\* Mutant: nothing is rolled back.
AllocFails_NoRollback ==
  /\ At("alloc") /\ NeedsCluster
  /\ \A k \in Clusters : ~Allocatable(k)
  /\ pc' = "rollback"
  /\ c' = 0
  /\ UNCHANGED <<disk, mirror, name, size, target, first_cluster, current_cluster,
                 new_c, written, ret, writes, crashes, ghosts>>

\* Disk full: the clusters taken so far are given back, 0 is returned.
AllocFails ==
  /\ At("alloc") /\ NeedsCluster
  /\ \A k \in Clusters : ~Allocatable(k)
  /\ pc' = "rollback"
  /\ c' = first_cluster
  /\ UNCHANGED <<disk, mirror, name, size, target, first_cluster, current_cluster,
                 new_c, written, ret, writes, crashes, ghosts>>

Rollback ==
  /\ At("rollback") /\ FreeOne
  /\ UNCHANGED <<fat2, dir, data, name, size, target, first_cluster, current_cluster,
                 new_c, written, ret, writes, crashes, ghosts>>

RolledBack ==
  /\ At("rollback") /\ ~IsCluster(c)
  /\ Return(0)
  /\ torn' = (torn \/ replacing)
  /\ UNCHANGED <<disk, mirror, writes, crashes>>

\* Mutant: the previous cluster is not linked to the new one.
LinkCluster_Unlinked ==
  /\ At("link")
  /\ first_cluster' = IF first_cluster = 0 THEN new_c ELSE first_cluster
  /\ current_cluster' = new_c
  /\ pc' = "data"
  /\ UNCHANGED <<fat, mirror, fat2, dir, data, name, size, target, c, new_c, written, ret,
                 writes, crashes, ghosts>>

LinkCluster ==
  /\ At("link")
  /\ IF first_cluster = 0
       THEN first_cluster' = new_c /\ UNCHANGED <<fat, mirror>>
       ELSE fat16_set_fat_entry(current_cluster, new_c) /\ UNCHANGED first_cluster
  /\ current_cluster' = new_c
  /\ pc' = "data"
  /\ UNCHANGED <<fat2, dir, data, name, size, target, c, new_c, written, ret,
                 writes, crashes, ghosts>>

\* Mutant: every cluster's data goes to the first cluster.
WriteData_First ==
  /\ At("data")
  /\ data' = [data EXCEPT ![first_cluster] = NewData(writes, written)]
  /\ written' = IF written < size THEN written + 1 ELSE written
  /\ pc' = "alloc"
  /\ UNCHANGED <<fat, fat2, dir, mirror, name, size, target, c, first_cluster,
                 current_cluster, new_c, ret, writes, crashes, ghosts>>

WriteData ==
  /\ At("data")
  /\ data' = [data EXCEPT ![current_cluster] = NewData(writes, written)]
  /\ written' = IF written < size THEN written + 1 ELSE written
  /\ pc' = "alloc"
  /\ UNCHANGED <<fat, fat2, dir, mirror, name, size, target, c, first_cluster,
                 current_cluster, new_c, ret, writes, crashes, ghosts>>

WriteEntry ==
  /\ At("alloc") /\ ~NeedsCluster
  /\ dir' = [dir EXCEPT ![target] = Entry(name, "file", first_cluster, size)]
  /\ Return(size)
  /\ UNCHANGED <<fat, fat2, data, mirror, writes, crashes, torn>>

-----------------------------------------------------------------------------
(* fat16_delete_file *)

BeginDelete(n) ==
  /\ pc = "idle"
  /\ \E s \in Slots :
       /\ Lookup(s, n)
       /\ target' = s
       /\ c' = dir[s].first
  /\ name' = n
  /\ pc' = "free_deleted"
  /\ was' = [m \in Names |-> fat16_read_file(m)]
  /\ replacing' = TRUE
  /\ UNCHANGED <<disk, mirror, size, first_cluster, current_cluster, new_c, written, ret,
                 writes, crashes, torn>>

DeleteMissing(n) ==
  /\ pc = "idle"
  /\ ~Exists(n)
  /\ ret' = 0
  /\ UNCHANGED <<disk, mirror, pc, locals, writes, crashes, ghosts>>

FreeDeleted ==
  /\ At("free_deleted")
  /\ FreeOne \/ (ChainFreed /\ pc' = "mark")
  /\ UNCHANGED <<fat2, dir, data, name, size, target, first_cluster, current_cluster,
                 new_c, written, ret, writes, crashes, ghosts>>

MarkDeleted ==
  /\ At("mark")
  /\ dir' = [dir EXCEPT ![target].name = DELETED]
  /\ Return(1)
  /\ UNCHANGED <<fat, fat2, data, mirror, writes, crashes, torn>>

-----------------------------------------------------------------------------

\* The machine stops between two sector writes and is started again.
Crash ==
  /\ pc # "idle"
  /\ crashes < MaxCrashes
  /\ crashes' = crashes + 1
  /\ EndCall
  /\ mirror' = FREE
  /\ torn' = (torn \/ replacing)
  /\ UNCHANGED <<disk, ret, writes>>

Next ==
  \/ \E n \in Names, sz \in 0..MaxSize : BeginWrite(n, sz)
  \/ FreeOld \/ AllocCluster \/ LinkCluster \/ WriteData \/ WriteEntry
  \/ AllocFails \/ Rollback \/ RolledBack
  \/ \E n \in Names : WriteRefused(n) \/ BeginDelete(n) \/ DeleteMissing(n)
  \/ FreeDeleted \/ MarkDeleted
  \/ WriteMirror
  \/ Crash

Spec == Init /\ [][Next]_vars

\* The driver is sequential code on a disk that answers: a call that has
\* begun takes its next step.
CallStep ==
  \/ FreeOld \/ AllocCluster \/ LinkCluster \/ WriteData \/ WriteEntry
  \/ AllocFails \/ Rollback \/ RolledBack
  \/ FreeDeleted \/ MarkDeleted \/ WriteMirror

FairSpec == Spec /\ WF_vars(CallStep)

-----------------------------------------------------------------------------
(* Properties. *)

Idle == pc = "idle"

\* Types of the disk and of the locals of the running call.
TypeOK ==
  /\ fat \in [Clusters -> Clusters \cup {FREE, EOC}]
  /\ fat2 \in [Clusters -> Clusters \cup {FREE, EOC}]
  /\ dir \in [Slots -> [name : Names \cup {END, DELETED}, attr : {"file", "dir"},
                        first : Clusters \cup {FREE}, size : 0..MaxSize]]
  /\ data \in [Clusters -> {Blank} \cup (1..MaxWrites) \X (0..MaxSize)]
  /\ mirror \in Clusters \cup {FREE}
  /\ pc \in {"idle", "free_old", "alloc", "link", "data", "rollback", "free_deleted", "mark"}
  /\ name \in Names \cup {NoName} /\ size \in 0..MaxSize /\ target \in Slots
  /\ c \in Clusters \cup {FREE, EOC}
  /\ first_cluster \in Clusters \cup {FREE} /\ current_cluster \in Clusters \cup {FREE}
  /\ new_c \in Clusters \cup {FREE} /\ written \in 0..MaxSize
  /\ replacing \in BOOLEAN /\ torn \in BOOLEAN

\* The clusters of an entry's chain.
Chain(first) ==
  LET at == ChainAt(first)
  IN {at[k] : k \in {l \in 0..(total_clusters - 1) : \A m \in 0..l : IsCluster(at[m])}}

Length(s) == IF dir[s].size = 0 THEN 1 ELSE dir[s].size

\* Every entry of the root directory heads a chain of exactly as many clusters
\* as its size asks for, all marked in use, and no cluster belongs to two
\* entries: after any sequence of writes, deletes, refused writes and crashes
\* that did not cut a replacement or a deletion short.
ChainsIntact ==
  TypeOK /\ (Idle /\ ~torn =>
    /\ \A s \in Slots : Used(s) =>
         /\ Cardinality(Chain(dir[s].first)) = Length(s)
         /\ \A k \in Chain(dir[s].first) : fat[k] # FREE
    /\ \A s, t \in Slots : Used(s) /\ Used(t) /\ s # t =>
         Chain(dir[s].first) \cap Chain(dir[t].first) = {})

\* No cluster leaks: without a crash, every cluster in use belongs to a chain
\* of the directory, also after the roll-back of a write that filled the disk.
NoLostClusters ==
  Idle /\ ~torn /\ crashes = 0 =>
    \A k \in Clusters : fat[k] # FREE => \E s \in Slots : Used(s) /\ k \in Chain(dir[s].first)

\* The second copy of the FAT equals the first whenever no call is running
\* and the machine never crashed.
CopiesAgree == Idle /\ crashes = 0 => fat2 = fat

\* A name has at most one entry, and no entry hides behind the end marker:
\* reusing deleted slots, overwriting and deleting never make two entries of
\* one name or strand one where fat16_read_file does not look.
DirectoryWellFormed ==
  /\ \A s, t \in Slots : Used(s) /\ dir[s].name = dir[t].name => s = t
  /\ \A s \in Slots : Used(s) => Visible(s)

\* Refinement of FileStore.  A call in progress has not happened yet: its name
\* reads as it did when the call began.
FileStoreView ==
  [n \in Names |-> IF Idle \/ n # name THEN fat16_read_file(n) ELSE was[n]]

EntryNames == {n \in Names : \E s \in Slots : dir[s].name = n}

\* What the w-th write is given.
Given(w, sz) == [size |-> sz, data |-> [k \in 1..sz |-> NewData(w, k - 1)]]

AllContents == UNION {{Given(w, sz) : sz \in 0..MaxSize} : w \in 1..MaxWrites}

RunningCall ==
  IF Idle THEN [op |-> "none"]
  ELSE IF pc \in {"free_deleted", "mark"} THEN [op |-> "delete", name |-> name, content |-> Absent]
  ELSE [op |-> "write", name |-> name, content |-> Given(writes, size)]

Store == INSTANCE FileStore WITH Contents <- AllContents, Directories <- {SubDir} \ {NoName},
           files <- FileStoreView, names <- EntryNames, call <- RunningCall

\* A write that returns has made the file it was given read back whole and
\* returns its size, a deletion has made its file absent, and every other file
\* is what it was; a call that is refused and a crash change no file, except
\* that one in mid-replacement or mid-deletion tears the volume, when still
\* only the file it names is gone.
ImplementsFileStore == Store!Spec

\* Every call returns, also on a torn volume on which entries refer to freed
\* or foreign chains: the loops that free a chain cannot go round in it.
CallsReturn == (pc # "idle") ~> (pc = "idle")

\* A write that is refused because the disk is full leaves no entry of the
\* directory pointing at clusters that are free.
RefusedWriteKeepsFat ==
  Idle /\ crashes = 0 =>
    \A s \in Slots : Used(s) => fat[dir[s].first] # FREE
=============================================================================
