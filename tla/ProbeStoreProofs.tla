--------------------------- MODULE ProbeStoreProofs ---------------------------
(***************************************************************************)
(* For every number of callers, devices, documents, files, chunks and      *)
(* faults: <udid>.json is always a complete document, readers see          *)
(* snapshots, and the file-backed store implements the atomic register of  *)
(* ProbeCache.  The inductive invariant says who may touch which file.     *)
(***************************************************************************)
EXTENDS ProbeStore, FiniteSetTheorems, TLAPS

\* The places of Save at which a caller holds a temporary file.
Saving == {"write", "close", "rename", "discard"}

Pointers ==
  \A p \in Procs :
    /\ pc[p] \in Saving <=> tmp[p] # NoInode
    /\ pc[p] = "read" <=> open[p] # NoInode

HeldFiles ==
  \A p \in Procs : tmp[p] # NoInode =>
    /\ tmp[p] \in linked
    /\ data[tmp[p]] # NoFile
    /\ pc[p] \in {"close", "rename"} => Written(data[tmp[p]])

OpenFiles ==
  \A p \in Procs : open[p] # NoInode =>
    /\ data[open[p]] # NoFile
    /\ Written(data[open[p]])
    /\ \A q \in Procs : tmp[q] # open[p]

IInv ==
  /\ TypeOK
  /\ Pointers
  /\ HeldFiles
  /\ OpenFiles
  /\ TmpExclusive
  /\ FinalIntact

\* Before the first call nobody holds a file.
LEMMA InitIInv == Init => IInv
  BY ChunksAssumption, MaxFaultsAssumption, SentinelAssumption
  DEF Init, IInv, TypeOK, Pointers, Saving, HeldFiles, OpenFiles,
      TmpExclusive, FinalIntact

\* Every system call of Save and Load, and a crash, preserves who may touch what.
LEMMA StepIInv == IInv /\ [Next]_vars => IInv'
<1> SUFFICES ASSUME IInv, [Next]_vars PROVE IInv'
  OBVIOUS
<1> USE ChunksAssumption, MaxFaultsAssumption, SentinelAssumption
    DEF IInv, TypeOK, Pointers, Saving, HeldFiles, OpenFiles, TmpExclusive,
        FinalIntact, Goto, dirVars, saveVars, loadVars, File, Written
<1>1. ASSUME NEW p \in Procs, NEW u \in Udids, NEW d \in Docs,
             CreateTemp(p, u, d)
      PROVE  IInv'
  BY <1>1 DEF CreateTemp, UniqueTmp
<1>2. ASSUME NEW p \in Procs, Write(p) PROVE IInv'
  BY <1>2 DEF Write
<1>3. ASSUME NEW p \in Procs, Close(p) PROVE IInv'
  BY <1>3 DEF Close
<1>4. ASSUME NEW p \in Procs, Rename(p) PROVE IInv'
  BY <1>4 DEF Rename
<1>5. ASSUME NEW p \in Procs, SaveFails(p) PROVE IInv'
  BY <1>5 DEF SaveFails
<1>6. ASSUME NEW p \in Procs, Discard(p) PROVE IInv'
  BY <1>6 DEF Discard
<1>7. ASSUME NEW p \in Procs, NEW u \in Udids, LoadOpen(p, u) PROVE IInv'
  BY <1>7, SMTT(30) DEF LoadOpen
<1>8. ASSUME NEW p \in Procs, LoadRead(p) PROVE IInv'
  BY <1>8 DEF LoadRead, Parse
<1>9. ASSUME NEW p \in Procs, LoadFails(p) PROVE IInv'
  BY <1>9 DEF LoadFails
<1>10. ASSUME NEW p \in Procs, Crash(p) PROVE IInv'
  BY <1>10 DEF Crash
<1>11. CASE UNCHANGED vars
  BY <1>11 DEF vars
<1>12. QED
  BY <1>1, <1>2, <1>3, <1>4, <1>5, <1>6, <1>7, <1>8, <1>9, <1>10, <1>11
  DEF Next, SaveStep, LoadStep

\* Hence the invariant holds in every reachable state.
LEMMA InductiveInvariant == Spec => []IInv
  BY InitIInv, StepIInv, PTL DEF Spec

\* Every variable keeps its type, whatever the callers do.
THEOREM TypeCorrect == Spec => []TypeOK
<1>1. IInv => TypeOK
  BY DEF IInv
<1>2. QED
  BY <1>1, InductiveInvariant, PTL

\* <udid>.json never names a half-written document or another device's file.
THEOREM FinalAlwaysIntact == Spec => []FinalIntact
<1>1. IInv => FinalIntact
  BY DEF IInv
<1>2. QED
  BY <1>1, InductiveInvariant, PTL

\* Overlapping saves never share a temporary file.
THEOREM TmpAlwaysExclusive == Spec => []TmpExclusive
<1>1. IInv => TmpExclusive
  BY DEF IInv
<1>2. QED
  BY <1>1, InductiveInvariant, PTL

-------------------------------------------------------------------------------
(* Orphaned temporary files *)

OrphanInv == IsFiniteSet(Orphans) /\ OrphansAreFaults

\* There is no temporary file at first.
LEMMA InitOrphans == Init => OrphanInv
  BY FS_EmptySet DEF Init, OrphanInv, Orphans, OrphansAreFaults

\* A step that lets go of a linked file without a trace makes it an orphan.
LEMMA OneMoreOrphan ==
  ASSUME NEW S, NEW T, NEW x, NEW n \in Nat, IsFiniteSet(S),
         Cardinality(S) <= n, T \in SUBSET (S \union {x})
  PROVE  IsFiniteSet(T) /\ Cardinality(T) <= n + 1
<1>0. Cardinality(S) \in Nat
  BY FS_CardinalityType
<1>1. /\ IsFiniteSet(S \union {x})
      /\ Cardinality(S \union {x}) <= Cardinality(S) + 1
  <2>1. /\ IsFiniteSet(S \union {x})
        /\ Cardinality(S \union {x}) =
             IF x \in S THEN Cardinality(S) ELSE Cardinality(S) + 1
    BY FS_AddElement
  <2>2. QED
    BY <1>0, <2>1
<1>2. IsFiniteSet(T) /\ Cardinality(T) <= Cardinality(S \union {x})
  BY <1>1, FS_Subset
<1>3. Cardinality(T) \in Nat /\ Cardinality(S \union {x}) \in Nat
  BY <1>1, <1>2, FS_CardinalityType
<1>4. QED
  BY <1>0, <1>1, <1>2, <1>3

\* Only a crash or a failed removal makes an orphan, one at a time.
LEMMA StepOrphans == IInv /\ OrphanInv /\ [Next]_vars => OrphanInv'
<1> SUFFICES ASSUME IInv, OrphanInv, [Next]_vars PROVE OrphanInv'
  OBVIOUS
<1> USE DEF IInv, TypeOK, OrphanInv, OrphansAreFaults, Goto, dirVars, saveVars,
            loadVars
<1>0. faults \in Nat
  BY MaxFaultsAssumption
<1>1. ASSUME Orphans' \in SUBSET Orphans, faults' = faults PROVE OrphanInv'
  BY <1>0, <1>1, FS_Subset, FS_CardinalityType
<1>2. ASSUME NEW p \in Procs, Orphans' \in SUBSET (Orphans \union {tmp[p]}),
             faults' = faults + 1
      PROVE  OrphanInv'
  BY <1>0, <1>2, OneMoreOrphan
<1>3. ASSUME NEW p \in Procs, NEW u \in Udids, NEW d \in Docs,
             CreateTemp(p, u, d)
      PROVE  OrphanInv'
  <2>1. tmp[p] = NoInode
    BY <1>3 DEF CreateTemp, Pointers, Saving
  <2>2. Orphans' \in SUBSET Orphans
    BY <1>3, <2>1, SentinelAssumption DEF CreateTemp, Orphans
  <2>3. QED
    BY <1>1, <1>3, <2>2 DEF CreateTemp
<1>4. ASSUME NEW p \in Procs, Write(p) PROVE OrphanInv'
  BY <1>1, <1>4 DEF Write, Orphans
<1>5. ASSUME NEW p \in Procs, Close(p) PROVE OrphanInv'
  BY <1>1, <1>5 DEF Close, Orphans
<1>6. ASSUME NEW p \in Procs, Rename(p) PROVE OrphanInv'
  <2>1. Orphans' \in SUBSET Orphans
    BY <1>6 DEF Rename, Orphans
  <2>2. QED
    BY <1>1, <1>6, <2>1 DEF Rename
<1>7. ASSUME NEW p \in Procs, SaveFails(p) PROVE OrphanInv'
  BY <1>1, <1>7 DEF SaveFails, Orphans
<1>8. ASSUME NEW p \in Procs, Discard(p) PROVE OrphanInv'
  <2>1. CASE linked' = linked \ {tmp[p]} /\ UNCHANGED faults
    <3>1. Orphans' \in SUBSET Orphans
      BY <1>8, <2>1 DEF Discard, Orphans
    <3>2. QED
      BY <1>1, <2>1, <3>1
  <2>2. CASE faults' = faults + 1 /\ UNCHANGED linked
    <3>1. Orphans' \in SUBSET (Orphans \union {tmp[p]})
      BY <1>8, <2>2 DEF Discard, Orphans
    <3>2. QED
      BY <1>2, <2>2, <3>1
  <2>3. QED
    BY <1>8, <2>1, <2>2 DEF Discard
<1>9. ASSUME NEW p \in Procs, LoadStep(p) PROVE OrphanInv'
  BY <1>1, <1>9 DEF LoadStep, LoadOpen, LoadRead, LoadFails, Orphans
<1>10. ASSUME NEW p \in Procs, Crash(p) PROVE OrphanInv'
  <2>1. Orphans' \in SUBSET (Orphans \union {tmp[p]})
    BY <1>10 DEF Crash, Orphans
  <2>2. QED
    BY <1>2, <1>10, <2>1 DEF Crash
<1>11. CASE UNCHANGED vars
  BY <1>1, <1>11 DEF vars, Orphans
<1>12. QED
  BY <1>3, <1>4, <1>5, <1>6, <1>7, <1>8, <1>9, <1>10, <1>11 DEF Next, SaveStep

\* Temporary files left behind never outnumber the crashes and failed removals.
THEOREM OrphansAlwaysFaults == Spec => []OrphansAreFaults
<1>1. OrphanInv => OrphansAreFaults
  BY DEF OrphanInv
<1>2. QED
  BY <1>1, InductiveInvariant, InitOrphans, StepOrphans, PTL DEF Spec

-------------------------------------------------------------------------------
(* Snapshots and refinement *)

\* No step writes to a file that a reader has open.
LEMMA OpenFileFrozen ==
  ASSUME IInv, Next, NEW p \in Procs, open[p] # NoInode
  PROVE  data'[open[p]] = data[open[p]]
<1> USE DEF IInv, TypeOK, OpenFiles, Goto, dirVars, saveVars, loadVars
<1>1. ASSUME NEW q \in Procs, NEW u \in Udids, NEW d \in Docs,
             CreateTemp(q, u, d)
      PROVE  data'[open[p]] = data[open[p]]
  BY <1>1 DEF CreateTemp, UniqueTmp
<1>2. ASSUME NEW q \in Procs, Write(q) PROVE data'[open[p]] = data[open[p]]
  BY <1>2 DEF Write
<1>3. QED
  BY <1>1, <1>2
  DEF Next, SaveStep, LoadStep, Close, Rename, SaveFails, Discard, LoadOpen,
      LoadRead, LoadFails, Crash

\* Every load that overlaps saves reads one unchanging, complete file.
THEOREM LoadsReadSnapshots == Spec => SnapshotReads
<1>1. IInv /\ [Next]_vars =>
        [\A p \in Procs : open[p] # NoInode =>
           /\ Written(data[open[p]])
           /\ data'[open[p]] = data[open[p]]]_vars
  BY OpenFileFrozen DEF IInv, OpenFiles
<1>2. QED
  BY <1>1, InductiveInvariant, PTL DEF Spec, SnapshotReads

\* The abstract values behind the variables of ProbeCache.
CacheOf == [u \in Udids |-> Published(final[u])]
ViewOf == [p \in Procs |-> IF open[p] = NoInode THEN loaded[p]
                                               ELSE Published(open[p])]

\* An empty directory is an empty register.
LEMMA InitImplements == Init => Cache!Init
  BY DEF Init, Cache!Init, Published

\* A rename is the abstract save, an open the abstract load; all else is a stutter
\* or a failed load.
LEMMA StepImplements == IInv /\ [Next]_vars => [Cache!Next]_(Cache!vars)
<1> SUFFICES ASSUME IInv, [Next]_vars PROVE [Cache!Next]_(<<CacheOf, ViewOf>>)
  BY DEF Cache!vars, CacheOf, ViewOf
<1> USE DEF IInv, TypeOK, Goto, dirVars, saveVars, loadVars
<1>a. ASSUME UNCHANGED final,
             \A u \in Udids : final[u] # NoInode => data'[final[u]] = data[final[u]]
      PROVE  UNCHANGED CacheOf
  BY <1>a DEF CacheOf, Published, Parse, Written
<1>b. ASSUME UNCHANGED loadVars,
             \A p \in Procs : open[p] # NoInode => data'[open[p]] = data[open[p]]
      PROVE  UNCHANGED ViewOf
  BY <1>b DEF ViewOf, Published, Parse, Written
<1>1. ASSUME NEW p \in Procs, NEW u \in Udids, NEW d \in Docs,
             CreateTemp(p, u, d)
      PROVE  UNCHANGED <<CacheOf, ViewOf>>
  BY <1>1, <1>a, <1>b DEF CreateTemp, UniqueTmp, FinalIntact, OpenFiles
<1>2. ASSUME NEW p \in Procs, Write(p) PROVE UNCHANGED <<CacheOf, ViewOf>>
  BY <1>2, <1>a, <1>b DEF Write, FinalIntact, OpenFiles, Pointers, Saving,
                          TmpExclusive
<1>3. ASSUME NEW p \in Procs, Close(p) \/ SaveFails(p) \/ Discard(p)
      PROVE  UNCHANGED <<CacheOf, ViewOf>>
  BY <1>3, <1>a, <1>b DEF Close, SaveFails, Discard
<1>4. ASSUME NEW p \in Procs, Rename(p)
      PROVE  \E u \in Udids, d \in Docs : Cache!Save(u, d)
  <2> DEFINE f == data[tmp[p]]
  <2>1. /\ tmp[p] \in Inodes
        /\ f \in File
        /\ f.udid \in Udids /\ f.doc \in Docs /\ Written(f)
    BY <1>4, SentinelAssumption DEF Rename, Pointers, Saving, HeldFiles, File
  <2>2. UNCHANGED ViewOf
    BY <1>4, <1>b DEF Rename
  <2>3. CacheOf' = [CacheOf EXCEPT ![f.udid] = f.doc]
    BY <1>4, <2>1, SentinelAssumption
    DEF Rename, CacheOf, Published, Parse, Written
  <2>4. Cache!Save(f.udid, f.doc)
    BY <2>2, <2>3 DEF Cache!Save, CacheOf, ViewOf
  <2>5. QED
    BY <2>1, <2>4
<1>5. ASSUME NEW p \in Procs, NEW u \in Udids, LoadOpen(p, u)
      PROVE  Cache!Load(p, u)
  <2>1. UNCHANGED CacheOf
    BY <1>5, <1>a DEF LoadOpen
  <2>2. open[p] = NoInode
    BY <1>5 DEF LoadOpen, Pointers
  <2>3. ViewOf' = [ViewOf EXCEPT ![p] = CacheOf[u]]
    BY <1>5, <2>2 DEF LoadOpen, ViewOf, CacheOf, Published, Parse, Written
  <2>4. QED
    BY <2>1, <2>3 DEF Cache!Load, CacheOf, ViewOf
<1>6. ASSUME NEW p \in Procs, LoadRead(p) PROVE UNCHANGED <<CacheOf, ViewOf>>
  <2>1. UNCHANGED CacheOf
    BY <1>6, <1>a DEF LoadRead
  <2>2. open[p] \in Inodes
    BY <1>6 DEF LoadRead, Pointers
  <2>3. UNCHANGED ViewOf
    BY <1>6, <2>2, SentinelAssumption DEF LoadRead, ViewOf, Published
  <2>4. QED
    BY <2>1, <2>3
<1>7. ASSUME NEW p \in Procs, LoadFails(p) \/ Crash(p) PROVE Cache!Fail(p)
  <2>1. UNCHANGED CacheOf
    BY <1>7, <1>a DEF LoadFails, Crash
  <2>2. ViewOf' = [ViewOf EXCEPT ![p] = LoadErr]
    BY <1>7 DEF LoadFails, Crash, ViewOf, Published, Parse, Written
  <2>3. QED
    BY <2>1, <2>2 DEF Cache!Fail, CacheOf, ViewOf
<1>8. CASE UNCHANGED vars
  BY <1>8, <1>a, <1>b DEF vars
<1>9. QED
  <2>1. ASSUME NEW p \in Procs, SaveStep(p)
        PROVE  [Cache!Next]_(<<CacheOf, ViewOf>>)
    BY <2>1, <1>1, <1>2, <1>3, <1>4 DEF SaveStep, Cache!Next
  <2>2. ASSUME NEW p \in Procs, LoadStep(p)
        PROVE  [Cache!Next]_(<<CacheOf, ViewOf>>)
    BY <2>2, <1>5, <1>6, <1>7 DEF LoadStep, Cache!Next
  <2>3. ASSUME NEW p \in Procs, Crash(p)
        PROVE  [Cache!Next]_(<<CacheOf, ViewOf>>)
    BY <2>3, <1>7 DEF Cache!Next
  <2>4. QED
    BY <1>8, <2>1, <2>2, <2>3 DEF Next

\* The file-backed store implements the atomic register of ProbeCache.
THEOREM StoreImplementsCache == Spec => ImplementsCache
  BY InductiveInvariant, InitImplements, StepImplements, PTL
  DEF Spec, ImplementsCache, Cache!Spec
===============================================================================
