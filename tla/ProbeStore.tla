------------------------------ MODULE ProbeStore ------------------------------
(***************************************************************************)
(* The file-backed probe store (fileProbeStore, probe_store.go) as the     *)
(* file system sees it.  Every caller - a CLI process or a tool call of    *)
(* the MCP server - runs Save and Load against one directory.  A file is   *)
(* an inode: CreateTemp makes a fresh one under a unique name, write(2)    *)
(* extends it chunk by chunk, rename(2) moves it to <udid>.json, and a     *)
(* reader keeps the inode it has opened whatever happens to the name.      *)
(***************************************************************************)
EXTENDS Integers, FiniteSets

CONSTANTS
  Procs,     \* callers of the store
  Udids,     \* devices, each with its own <udid>.json
  Docs,      \* serialised result lists
  Inodes,    \* files the callers may ever create; bounds the number of saves
  Chunks,    \* write(2) calls that a whole document takes
  MaxFaults, \* bound on crashes and failed removals together
  NoDoc, LoadErr, NoFile, NoInode

ASSUME ChunksAssumption == Chunks \in Nat \ {0}
ASSUME MaxFaultsAssumption == MaxFaults \in Nat
VARIABLES
  data,    \* data[i]: the file behind inode i, NoFile when never created
  linked,  \* inodes reachable under a temporary name
  final,   \* final[u]: the inode <udid>.json names
  pc,      \* pc[p]: where caller p is in Save or Load
  tmp,     \* tmp[p]: the temporary file that p's Save holds
  open,    \* open[p]: the inode that p's Load has opened
  loaded,  \* loaded[p]: what p's latest Load returned
  faults   \* crashes and failed removals so far

vars == <<data, linked, final, pc, tmp, open, loaded, faults>>
dirVars == <<linked, final>>
saveVars == <<data, linked, final, tmp>>
loadVars == <<open, loaded>>

\* The device in the temporary name, the payload, and how much is written.
File == [udid : Udids, doc : Docs, len : 0..Chunks]

ASSUME SentinelAssumption ==
  /\ NoDoc \notin Docs /\ LoadErr \notin Docs
  /\ NoFile \notin File /\ NoInode \notin Inodes

TypeOK ==
  /\ data \in [Inodes -> File \union {NoFile}]
  /\ linked \in SUBSET Inodes
  /\ final \in [Udids -> Inodes \union {NoInode}]
  /\ pc \in [Procs -> {"idle", "write", "close", "rename", "discard", "read"}]
  /\ tmp \in [Procs -> Inodes \union {NoInode}]
  /\ open \in [Procs -> Inodes \union {NoInode}]
  /\ loaded \in [Procs -> Docs \union {NoDoc, LoadErr}]
  /\ faults \in 0..MaxFaults

Init ==
  /\ data = [i \in Inodes |-> NoFile]
  /\ linked = {}
  /\ final = [u \in Udids |-> NoInode]
  /\ pc = [p \in Procs |-> "idle"]
  /\ tmp = [p \in Procs |-> NoInode]
  /\ open = [p \in Procs |-> NoInode]
  /\ loaded = [p \in Procs |-> NoDoc]
  /\ faults = 0

Goto(p, l) == pc' = [pc EXCEPT ![p] = l]

-------------------------------------------------------------------------------
(* Save *)

\* Mutation: no temporary file, the published one is truncated and rewritten.
InPlaceMut(i) == data[i] = NoFile \/ \E u \in Udids : final[u] = i

\* os.CreateTemp with a random suffix and O_EXCL: never an existing file.
UniqueTmp(i) == data[i] = NoFile

\* MkdirAll, the sorted copy, the marshalling and CreateTemp have succeeded;
\* a failure of one of them returns before any file exists and is a stutter.
CreateTemp(p, u, d) ==
  /\ pc[p] = "idle"
  /\ \E i \in Inodes :
       /\ UniqueTmp(i)
       /\ data' = [data EXCEPT ![i] = [udid |-> u, doc |-> d, len |-> 0]]
       /\ linked' = linked \union {i}
       /\ tmp' = [tmp EXCEPT ![p] = i]
  /\ Goto(p, "write")
  /\ UNCHANGED <<final, faults, loadVars>>

\* tmp.Write returns once the last chunk is in.
Written(f) == f.len = Chunks

\* Mutation: a short write is taken for a finished one.
ShortWriteMut(p) ==
  /\ pc[p] = "write"
  /\ Goto(p, "close")
  /\ UNCHANGED <<saveVars, faults, loadVars>>

Write(p) ==
  /\ pc[p] = "write"
  /\ IF Written(data[tmp[p]])
       THEN Goto(p, "close") /\ UNCHANGED data
       ELSE data' = [data EXCEPT ![tmp[p]].len = @ + 1] /\ UNCHANGED pc
  /\ UNCHANGED <<dirVars, tmp, faults, loadVars>>

Close(p) ==
  /\ pc[p] = "close"
  /\ Goto(p, "rename")
  /\ UNCHANGED <<saveVars, faults, loadVars>>

\* Mutation: the old document is removed before the new one is renamed.
RemoveThenRenameMut(p) ==
  LET u == data[tmp[p]].udid IN
  /\ pc[p] = "rename"
  /\ IF final[u] # NoInode
       THEN /\ final' = [final EXCEPT ![u] = NoInode]
            /\ UNCHANGED <<linked, tmp, pc>>
       ELSE /\ final' = [final EXCEPT ![u] = tmp[p]]
            /\ linked' = linked \ {tmp[p]}
            /\ tmp' = [tmp EXCEPT ![p] = NoInode]
            /\ Goto(p, "idle")
  /\ UNCHANGED <<data, faults, loadVars>>

Rename(p) ==
  /\ pc[p] = "rename"
  /\ final' = [final EXCEPT ![data[tmp[p]].udid] = tmp[p]]
  /\ linked' = linked \ {tmp[p]}
  /\ tmp' = [tmp EXCEPT ![p] = NoInode]
  /\ Goto(p, "idle")
  /\ UNCHANGED <<data, faults, loadVars>>

\* Write, Close or Rename returned an error.
SaveFails(p) ==
  /\ pc[p] \in {"write", "close", "rename"}
  /\ Goto(p, "discard")
  /\ UNCHANGED <<saveVars, faults, loadVars>>

\* Mutation: the error path returns without removing the temporary file.
NoDiscardMut(p) ==
  /\ pc[p] = "discard"
  /\ tmp' = [tmp EXCEPT ![p] = NoInode]
  /\ Goto(p, "idle")
  /\ UNCHANGED <<data, dirVars, faults, loadVars>>

\* The error path removes the temporary file and ignores os.Remove's error.
Discard(p) ==
  /\ pc[p] = "discard"
  /\ \/ linked' = linked \ {tmp[p]} /\ UNCHANGED faults
     \/ faults < MaxFaults /\ faults' = faults + 1 /\ UNCHANGED linked
  /\ tmp' = [tmp EXCEPT ![p] = NoInode]
  /\ Goto(p, "idle")
  /\ UNCHANGED <<data, final, loadVars>>

-------------------------------------------------------------------------------
(* Load *)

\* ReadFile opens the path; a missing file is an empty cache, not an error.
LoadOpen(p, u) ==
  /\ pc[p] = "idle"
  /\ IF final[u] = NoInode
       THEN /\ loaded' = [loaded EXCEPT ![p] = NoDoc]
            /\ UNCHANGED <<pc, open>>
       ELSE /\ open' = [open EXCEPT ![p] = final[u]]
            /\ Goto(p, "read")
            /\ UNCHANGED loaded
  /\ UNCHANGED <<saveVars, faults>>

\* A truncated document does not parse, and Load returns the parser's error.
Parse(f) == IF Written(f) THEN f.doc ELSE LoadErr

LoadRead(p) ==
  /\ pc[p] = "read"
  /\ loaded' = [loaded EXCEPT ![p] = Parse(data[open[p]])]
  /\ open' = [open EXCEPT ![p] = NoInode]
  /\ Goto(p, "idle")
  /\ UNCHANGED <<saveVars, faults>>

LoadFails(p) ==
  /\ pc[p] \in {"idle", "read"}
  /\ loaded' = [loaded EXCEPT ![p] = LoadErr]
  /\ open' = [open EXCEPT ![p] = NoInode]
  /\ Goto(p, "idle")
  /\ UNCHANGED <<saveVars, faults>>

-------------------------------------------------------------------------------

\* The process dies: its temporary file keeps its name, its result is gone.
Crash(p) ==
  /\ pc[p] # "idle"
  /\ faults < MaxFaults
  /\ faults' = faults + 1
  /\ Goto(p, "idle")
  /\ tmp' = [tmp EXCEPT ![p] = NoInode]
  /\ open' = [open EXCEPT ![p] = NoInode]
  /\ loaded' = [loaded EXCEPT ![p] = LoadErr]
  /\ UNCHANGED <<data, dirVars>>

SaveStep(p) ==
  \/ \E u \in Udids, d \in Docs : CreateTemp(p, u, d)
  \/ Write(p)
  \/ Close(p)
  \/ Rename(p)
  \/ SaveFails(p)
  \/ Discard(p)

LoadStep(p) ==
  \/ \E u \in Udids : LoadOpen(p, u)
  \/ LoadRead(p)
  \/ LoadFails(p)

Next == \E p \in Procs : SaveStep(p) \/ LoadStep(p) \/ Crash(p)

Spec == Init /\ [][Next]_vars

-------------------------------------------------------------------------------
(* Properties *)

\* No half-written document is ever reachable as <udid>.json, and the file a
\* device's name reaches was saved for that device: "a partial write can never
\* produce a half-valid final file" (probe_store.go:92-94).
FinalIntact ==
  \A u \in Udids : final[u] # NoInode =>
    /\ data[final[u]] # NoFile
    /\ Written(data[final[u]])
    /\ data[final[u]].udid = u

\* Two saves in progress never hold the same temporary file, and none of them
\* holds a published one: the reason for CreateTemp's unique names.
TmpExclusive ==
  \A p \in Procs : tmp[p] # NoInode =>
    /\ \A q \in Procs \ {p} : tmp[q] # tmp[p]
    /\ \A u \in Udids : final[u] # tmp[p]

\* Temporary files nobody will rename or remove any more.
Orphans == linked \ {tmp[p] : p \in Procs}

\* A save leaves a temporary file behind only if its process died or the
\* removal itself failed, at most one for each such fault: the error paths of
\* Save clean up after themselves.
OrphansAreFaults == Cardinality(Orphans) <= faults

\* A file that a reader has open is complete and no step changes it: a Load
\* that overlaps any number of saves returns one saved document.
SnapshotReads ==
  [][\A p \in Procs : open[p] # NoInode =>
       /\ Written(data[open[p]])
       /\ data'[open[p]] = data[open[p]]]_vars

\* The register that ProbeCache specifies: the document behind <udid>.json,
\* and for a caller the document its open file holds or its last result.
Published(i) == IF i = NoInode THEN NoDoc ELSE Parse(data[i])

Cache == INSTANCE ProbeCache WITH
  cache <- [u \in Udids |-> Published(final[u])],
  view <- [p \in Procs |-> IF open[p] = NoInode THEN loaded[p]
                                                ELSE Published(open[p])]

\* The store implements the atomic register: every save takes effect at its
\* rename, every load at its open, and no other step is visible to a caller.
ImplementsCache == Cache!Spec
===============================================================================
