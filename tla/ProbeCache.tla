------------------------------ MODULE ProbeCache ------------------------------
(***************************************************************************)
(* What a probe store promises its callers (the ProbeStore interface of    *)
(* internal/apps/probe_store.go): one register per device that Save        *)
(* replaces as a whole and Load reads as a whole, whoever else is saving   *)
(* and whenever a process dies.  ProbeStore implements it with files.      *)
(***************************************************************************)
CONSTANTS Procs, Udids, Docs, NoDoc, LoadErr

VARIABLES cache,  \* cache[u]: the document saved last for device u, or NoDoc
          view    \* view[p]: what the latest Load of caller p returned

vars == <<cache, view>>

TypeOK ==
  /\ cache \in [Udids -> Docs \union {NoDoc}]
  /\ view \in [Procs -> Docs \union {NoDoc, LoadErr}]

Init ==
  /\ cache = [u \in Udids |-> NoDoc]
  /\ view = [p \in Procs |-> NoDoc]

Save(u, d) ==
  /\ cache' = [cache EXCEPT ![u] = d]
  /\ UNCHANGED view

Load(p, u) ==
  /\ view' = [view EXCEPT ![p] = cache[u]]
  /\ UNCHANGED cache

\* A Load that fails, or a caller that dies and forgets what it had read.
Fail(p) ==
  /\ view' = [view EXCEPT ![p] = LoadErr]
  /\ UNCHANGED cache

Next ==
  \/ \E u \in Udids, d \in Docs : Save(u, d)
  \/ \E p \in Procs, u \in Udids : Load(p, u)
  \/ \E p \in Procs : Fail(p)

Spec == Init /\ [][Next]_vars
===============================================================================
