--------------------------- MODULE CrashLogsProofs ---------------------------
(***************************************************************************)
(* Proofs about CrashLogs for any number of calls and reports.  The         *)
(* invariant speaks about one call at a time and what it may rely on while  *)
(* the other calls and iOS change the device and the host.                  *)
(***************************************************************************)
EXTENDS CrashLogs, TLAPS

Early == {"args", "resolve", "list", "stat", "mkdir", "scan", "ask", "pull", "remove"}

Full(g) == Match[IF g = Empty THEN Star ELSE g]

Consented(p) ==
  LET c == run[p].cmd IN
  /\ c.kind = "clean"
  /\ c.front = "mcp" => c.sure # "no"
  /\ c.front = "cli" => /\ ~c.dry /\ run[p].listed # {}
                        /\ c.sure = "yes" \/ run[p].agreed

\* Which calls come where.
Route(p) ==
  /\ run[p].pc \in {"list", "stat"} =>
       run[p].cmd.front = "cli" \/ ReadOnly(run[p].cmd)
  /\ run[p].pc = "ask" =>
       /\ run[p].cmd.kind = "clean" /\ run[p].cmd.front = "cli"
       /\ ~run[p].cmd.dry /\ run[p].listed # {}
  /\ run[p].pc \in {"remove", "sum", "purge"} => Consented(p)
  /\ run[p].pc \in {"mkdir", "scan", "pull", "count", "download"} => run[p].cmd.kind = "pull"

\* Nothing is touched before the walk of the bulk operation.
Untouched(p) == run[p].removed = {} /\ run[p].written = {} /\ run[p].replaced = {}

Quiet(p) ==
  /\ run[p].pc \in Early \union {"sum", "count"} => Untouched(p)
  /\ run[p].pc \in Early => run[p].counted = {}
  /\ run[p].cancel = "early" => run[p].pc \notin Bulk /\ Untouched(p)

Deletes(p) ==
  /\ run[p].removed # {} =>
       Consented(p) /\ run[p].removed \subseteq Match[run[p].cmd.pattern]
  /\ run[p].pc = "purge" =>
       /\ run[p].walk \subseteq Match[run[p].cmd.pattern]
       /\ run[p].written = {} /\ run[p].replaced = {}

\* A report counted that is still on the device is in the walk to come.
Counts(p) ==
  /\ run[p].counted \intersect fresh = {}
  /\ run[p].pc = "sum" => run[p].counted \subseteq Match[run[p].cmd.pattern]
  /\ run[p].pc = "count" => run[p].counted \subseteq Full(run[p].cmd.pattern)
  /\ run[p].pc = "purge" => run[p].counted \intersect device \subseteq run[p].walk
  /\ run[p].pc = "download" =>
       run[p].counted \intersect device \subseteq run[p].written \union run[p].walk
  /\ Succeeded(p) =>
       /\ run[p].cmd.kind = "pull" =>
            run[p].counted \intersect device \subseteq run[p].written
       /\ run[p].cmd.kind = "clean" => run[p].counted \intersect device = {}

\* An old file in the way of a listed report is still to be asked about, or has
\* its answer.
Asks(p) ==
  run[p].cmd.front = "cli" /\ run[p].cmd.sure = "no" =>
    /\ run[p].pc = "scan" => \A r \in run[p].listed : host[r] = "old" =>
         r \in run[p].left \union run[p].accepted \union run[p].declined
    /\ run[p].pc \in {"pull", "count", "download"} => \A r \in run[p].listed :
         host[r] = "old" => r \in run[p].accepted
    /\ run[p].declined # {} => run[p].pc \in {"scan", "exit"} /\ Untouched(p)
    /\ run[p].replaced \intersect run[p].listed \subseteq run[p].accepted

CallInv(p) == Route(p) /\ Quiet(p) /\ Deletes(p) /\ Counts(p) /\ Asks(p)

IInv == TypeOK /\ \A p \in Calls : CallInv(p)

-------------------------------------------------------------------------------

\* What any step does to the device and the host: reports come only from
\* fresh, and no file becomes old.
WorldStep ==
  /\ fresh' \subseteq fresh
  /\ device' \subseteq device \union (fresh \ fresh')
  /\ \A r \in Reports : host'[r] = "old" => host[r] = "old"

\* The initial states satisfy the invariant.
LEMMA InitIInv == Init => IInv
<1> SUFFICES ASSUME Init PROVE IInv
  OBVIOUS
<1>1. TypeOK
  <2>1. ASSUME NEW p \in Calls PROVE run[p] \in Run
    <3>1. PICK c \in Commands :
            run[p] = [cmd |-> c, pc |-> "args", cancel |-> "no", listed |-> {},
                      left |-> {}, accepted |-> {}, declined |-> {}, counted |-> {},
                      agreed |-> FALSE, walk |-> {}, removed |-> {}, written |-> {},
                      replaced |-> {}, code |-> 0]
      BY DEF Init
    <3>2. "args" \in PCs /\ 0 \in 0..1
      BY DEF PCs
    <3> QED
      BY <3>1, <3>2 DEF Run
  <2>2. run \in [Calls -> Run]
    BY <2>1 DEF Init
  <2> QED
    BY <2>2 DEF Init, TypeOK
<1>2. \A p \in Calls : CallInv(p)
  BY DEF Init, CallInv, Route, Quiet, Untouched, Deletes, Counts, Asks, Early, Bulk,
     Succeeded, At
<1> QED
  BY <1>1, <1>2 DEF IInv

\* A listing is of reports of this device, and takes no pattern outside Match.
LEMMA ListingType ==
  ASSUME TypeOK, NEW p \in Calls
  PROVE  /\ Listing(run[p].cmd.pattern) \subseteq device
         /\ Listing(run[p].cmd.pattern) = device \intersect Full(run[p].cmd.pattern)
         /\ Removing(run[p].cmd.pattern) \subseteq device
         /\ Removing(run[p].cmd.pattern) = device \intersect Match[run[p].cmd.pattern]
BY DEF Listing, Removing, Full

\* A call that does not move keeps its part of the invariant.
LEMMA Stable ==
  ASSUME TypeOK, WorldStep, NEW p \in Calls, run'[p] = run[p], CallInv(p)
  PROVE  CallInv(p)'
<1> USE DEF TypeOK, Run
<1>1. Route(p)'
  BY DEF CallInv, Route, Consented
<1>2. Quiet(p)'
  BY DEF CallInv, Quiet, Untouched
<1>3. Deletes(p)'
  BY DEF CallInv, Deletes, Consented
<1>4. Counts(p)'
  BY DEF CallInv, Counts, WorldStep, Succeeded, At
<1>5. Asks(p)'
  BY DEF CallInv, Asks, WorldStep, Untouched
<1> QED
  BY <1>1, <1>2, <1>3, <1>4, <1>5 DEF CallInv

\* What the step of call p has to establish; Stable does the rest.
Moved(p) ==
  /\ TypeOK' /\ CallInv(p)' /\ WorldStep
  /\ \A q \in Calls : q # p => run'[q] = run[q]

\* The condition under which a call may report success.
Accounted(p) ==
  /\ run[p].cmd.kind = "pull" => run[p].counted \intersect device \subseteq run[p].written
  /\ run[p].cmd.kind = "clean" => run[p].counted \intersect device = {}

-------------------------------------------------------------------------------

\* A call may give up anywhere, and succeed when its count is accounted for.
LEMMA ExitMoves ==
  ASSUME TypeOK, NEW p \in Calls, CallInv(p), NEW c \in 0..1, Exit(p, c),
         UNCHANGED world, c = 0 => Accounted(p)
  PROVE  Moved(p)
<1> DEFINE n == [run[p] EXCEPT !.pc = "exit", !.code = c]
<1>1. run' = [run EXCEPT ![p] = n]
  BY DEF Exit, TypeOK
<1>2. n \in Run
  <2>1. run[p] \in Run /\ "exit" \in PCs /\ c \in 0..1
    BY DEF TypeOK, PCs
  <2> HIDE DEF n
  <2>2. ASSUME NEW d PROVE d \in 0..1 => [run[p] EXCEPT !.pc = "exit", !.code = d] \in Run
    BY <2>1 DEF Run
  <2> QED
    BY <2>1, <2>2 DEF n
<1>3. run'[p] = n /\ \A q \in Calls : q # p => run'[q] = run[q]
  BY <1>1 DEF TypeOK
<1>4. TypeOK' /\ WorldStep
  BY <1>1, <1>2 DEF TypeOK, world, WorldStep
<1>5. CallInv(p)'
  <2> USE <1>3 DEF TypeOK, Run, CallInv, world
  <2>1. Route(p)'
    BY DEF Route
  <2>2. Quiet(p)'
    BY DEF Quiet, Untouched, Early, Bulk
  <2>3. Deletes(p)'
    BY DEF Deletes, Consented
  <2>4. Counts(p)'
    BY DEF Counts, Succeeded, At, Accounted
  <2>5. Asks(p)'
    BY DEF Asks, Quiet, Untouched, Early
  <2> QED
    BY <2>1, <2>2, <2>3, <2>4, <2>5
<1> QED
  BY <1>3, <1>4, <1>5 DEF Moved

\* In the early phases nothing is counted, so a call may leave with success.
LEMMA EarlyAccounted ==
  ASSUME NEW p \in Calls, CallInv(p), run[p].pc \in Early
  PROVE  Accounted(p)
BY DEF CallInv, Quiet, Accounted

\* The steps that end a call.
LEMMA ExitsMove ==
  ASSUME TypeOK, NEW p \in Calls, CallInv(p),
         \/ Refused(p) \/ Fails(p) \/ PromptCancelled(p) \/ PurgeBreaks(p) \/ BulkEnds(p)
  PROVE  Moved(p)
<1>1. CASE BulkEnds(p)
  <2>1. Accounted(p)
    BY <1>1 DEF BulkEnds, CallInv, Counts, Route, Consented, Accounted
  <2> QED
    BY <1>1, <2>1, ExitMoves DEF BulkEnds
<1>2. CASE ~BulkEnds(p)
  BY <1>2, ExitMoves DEF Refused, Fails, PromptCancelled, PurgeBreaks
<1> QED
  BY <1>1, <1>2

\* The arguments are checked before anything else happens.
LEMMA CheckArgsMoves ==
  ASSUME TypeOK, NEW p \in Calls, CallInv(p), CheckArgs(p)
  PROVE  Moved(p)
<1>1. CASE Exit(p, 1)
  BY <1>1, ExitMoves DEF CheckArgs
<1>2. CASE Goto(p, "resolve")
  <2> DEFINE n == [run[p] EXCEPT !.pc = "resolve"]
  <2>1. run' = [run EXCEPT ![p] = n] /\ UNCHANGED world /\ run[p].pc = "args"
    BY <1>2 DEF Goto, TypeOK, CheckArgs, At
  <2>2. n \in Run
    BY DEF TypeOK, Run, PCs
  <2>3. run'[p] = n /\ \A q \in Calls : q # p => run'[q] = run[q]
    BY <2>1 DEF TypeOK
  <2>4. TypeOK' /\ WorldStep
    BY <2>1, <2>2 DEF TypeOK, world, WorldStep
  <2>5. CallInv(p)'
    BY <2>1, <2>3 DEF TypeOK, Run, CallInv, world, Route, Quiet, Untouched, Early,
       Bulk, Deletes, Consented, Counts, Succeeded, At, Asks
  <2> QED
    BY <2>3, <2>4, <2>5 DEF Moved
<1> QED
  BY <1>1, <1>2 DEF CheckArgs

\* The state of a call is a record of Run, and its labels are in PCs: cited in
\* place of PCs, which would cost the prover a case for every label.
LEMMA RunOf ==
  ASSUME TypeOK, NEW p \in Calls
  PROVE  /\ run[p] \in Run
         /\ \A l \in {"resolve", "list", "stat", "mkdir", "scan", "ask", "remove",
                      "sum", "purge", "pull", "count", "download", "exit"} : l \in PCs
BY DEF TypeOK, PCs

\* List returns what the pattern names at this moment.
LEMMA ListMoves ==
  ASSUME TypeOK, NEW p \in Calls, CallInv(p), List(p)
  PROVE  Moved(p)
<1> DEFINE L == Listing(run[p].cmd.pattern)
<1>0. L \in SUBSET Reports /\ L \subseteq device /\ L \subseteq Full(run[p].cmd.pattern)
      /\ device \intersect Full(run[p].cmd.pattern) \subseteq L
  BY ListingType DEF TypeOK
<1> DEFINE n == [run[p] EXCEPT !.pc = "stat", !.listed = L]
<1>1. run' = [run EXCEPT ![p] = n] /\ UNCHANGED world
  BY DEF List, Goto, TypeOK, At
<1> HIDE DEF L
<1>2. n \in Run
  BY <1>0, RunOf, ZenonT(60) DEF Run
<1>3. run'[p] = n /\ \A q \in Calls : q # p => run'[q] = run[q]
  BY <1>1 DEF TypeOK
<1>4. TypeOK' /\ WorldStep
  BY <1>1, <1>2 DEF TypeOK, world, WorldStep
<1>5. CallInv(p)'
  <2> USE <1>0, <1>1, <1>3 DEF TypeOK, Run, CallInv, world, List, At
  <2>1. Route(p)'
    BY DEF Route, Consented
  <2>2. Quiet(p)'
    BY DEF Quiet, Untouched, Early, Bulk, Cancelled, PCs
  <2>3. Deletes(p)'
    BY DEF Deletes, Consented, Quiet, Untouched, Early
  <2>4. Counts(p)'
    BY DEF Counts, Succeeded, Quiet, Early
  <2>5. Asks(p)'
    BY DEF Asks, Quiet, Untouched, Early
  <2> QED
    BY <2>1, <2>2, <2>3, <2>4, <2>5
<1> QED
  BY <1>3, <1>4, <1>5 DEF Moved

\* Pull counts what it will report, of a call that is not cancelled.
LEMMA PullMoves ==
  ASSUME TypeOK, NEW p \in Calls, CallInv(p), Pull(p)
  PROVE  Moved(p)
<1> DEFINE L == Listing(run[p].cmd.pattern)
<1>0. L \in SUBSET Reports /\ L \subseteq device /\ L \subseteq Full(run[p].cmd.pattern)
      /\ device \intersect Full(run[p].cmd.pattern) \subseteq L
  BY ListingType DEF TypeOK
<1> DEFINE n == [run[p] EXCEPT !.pc = "count", !.counted = L]
<1>1. run' = [run EXCEPT ![p] = n] /\ UNCHANGED world
  BY DEF Pull, Goto, TypeOK, At
<1> HIDE DEF L
<1>2. n \in Run
  BY <1>0, RunOf, ZenonT(60) DEF Run
<1>3. run'[p] = n /\ \A q \in Calls : q # p => run'[q] = run[q]
  BY <1>1 DEF TypeOK
<1>4. TypeOK' /\ WorldStep
  BY <1>1, <1>2 DEF TypeOK, world, WorldStep
<1>5. CallInv(p)'
  <2> USE <1>0, <1>1, <1>3 DEF TypeOK, Run, CallInv, world, Pull, At
  <2>1. Route(p)'
    BY DEF Route, Consented
  <2>2. Quiet(p)'
    BY DEF Quiet, Untouched, Early, Bulk, Cancelled, PCs
  <2>3. Deletes(p)'
    BY DEF Deletes, Consented, Quiet, Untouched, Early
  <2>4. Counts(p)'
    BY DEF Counts, Succeeded, Quiet, Early
  <2>5. Asks(p)'
    BY DEF Asks, Quiet, Untouched, Early
  <2> QED
    BY <2>1, <2>2, <2>3, <2>4, <2>5
<1> QED
  BY <1>3, <1>4, <1>5 DEF Moved

\* Remove counts what it will report, of a call that is not cancelled.
LEMMA RemoveMoves ==
  ASSUME TypeOK, NEW p \in Calls, CallInv(p), Remove(p)
  PROVE  Moved(p)
<1> DEFINE L == Removing(run[p].cmd.pattern)
<1>0. L \in SUBSET Reports /\ L \subseteq device /\ L \subseteq Match[run[p].cmd.pattern]
      /\ device \intersect Match[run[p].cmd.pattern] \subseteq L
  BY ListingType DEF TypeOK
<1> DEFINE n == [run[p] EXCEPT !.pc = "sum", !.counted = L]
<1>1. run' = [run EXCEPT ![p] = n] /\ UNCHANGED world
  BY DEF Remove, Goto, TypeOK, At
<1> HIDE DEF L
<1>2. n \in Run
  BY <1>0, RunOf, ZenonT(60) DEF Run
<1>3. run'[p] = n /\ \A q \in Calls : q # p => run'[q] = run[q]
  BY <1>1 DEF TypeOK
<1>4. TypeOK' /\ WorldStep
  BY <1>1, <1>2 DEF TypeOK, world, WorldStep
<1>5. CallInv(p)'
  <2> USE <1>0, <1>1, <1>3 DEF TypeOK, Run, CallInv, world, Remove, At
  <2>1. Route(p)'
    BY DEF Route, Consented
  <2>2. Quiet(p)'
    BY DEF Quiet, Untouched, Early, Bulk, Cancelled, PCs
  <2>3. Deletes(p)'
    BY DEF Deletes, Consented, Quiet, Untouched, Early
  <2>4. Counts(p)'
    BY DEF Counts, Succeeded, Quiet, Early
  <2>5. Asks(p)'
    BY DEF Asks, Quiet, Untouched, Early
  <2> QED
    BY <2>1, <2>2, <2>3, <2>4, <2>5
<1> QED
  BY <1>3, <1>4, <1>5 DEF Moved

\* The walk of the removal has every counted report that is still there.
LEMMA StartPurgeMoves ==
  ASSUME TypeOK, NEW p \in Calls, CallInv(p), StartPurge(p)
  PROVE  Moved(p)
<1> DEFINE L == Removing(run[p].cmd.pattern)
<1>0. L \in SUBSET Reports /\ L \subseteq device /\ L \subseteq Match[run[p].cmd.pattern]
      /\ device \intersect Match[run[p].cmd.pattern] \subseteq L
  BY ListingType DEF TypeOK
<1> DEFINE n == [run[p] EXCEPT !.pc = "purge", !.walk = L]
<1>1. run' = [run EXCEPT ![p] = n] /\ UNCHANGED world
  BY DEF StartPurge, Goto, TypeOK, At
<1> HIDE DEF L
<1>2. n \in Run
  BY <1>0, RunOf, ZenonT(60) DEF Run
<1>3. run'[p] = n /\ \A q \in Calls : q # p => run'[q] = run[q]
  BY <1>1 DEF TypeOK
<1>4. TypeOK' /\ WorldStep
  BY <1>1, <1>2 DEF TypeOK, world, WorldStep
<1>5. CallInv(p)'
  <2> USE <1>0, <1>1, <1>3 DEF TypeOK, Run, CallInv, world, StartPurge, At
  <2>1. Route(p)'
    BY DEF Route, Consented
  <2>2. Quiet(p)'
    BY DEF Quiet, Untouched, Early, Bulk, Cancelled, PCs
  <2>3. Deletes(p)'
    BY ZenonT(60) DEF Deletes, Consented, Quiet, Untouched, Early
  <2>4. Counts(p)'
    <3>1. run[p].counted \intersect device \subseteq L /\ run[p].counted \intersect fresh = {}
      BY DEF Counts
    <3>2. /\ run'[p].counted = run[p].counted /\ run'[p].walk = L
          /\ run'[p].pc = "purge" /\ device' = device /\ fresh' = fresh
      BY ONLY <1>1, <1>3, TypeOK DEF TypeOK, Run, world
    <3> QED
      BY ONLY <3>1, <3>2 DEF Counts, Succeeded, At
  <2>5. Asks(p)'
    BY DEF Asks, Quiet, Untouched, Early
  <2> QED
    BY <2>1, <2>2, <2>3, <2>4, <2>5
<1> QED
  BY <1>3, <1>4, <1>5 DEF Moved

\* A cancellation is early only when the bulk operation has not begun.
LEMMA CancelMoves ==
  ASSUME TypeOK, NEW p \in Calls, CallInv(p), Cancel(p)
  PROVE  Moved(p)
<1> DEFINE n == [run[p] EXCEPT !.cancel = IF run[p].pc \in Bulk THEN "late" ELSE "early"]
<1>1. run' = [run EXCEPT ![p] = n] /\ UNCHANGED world
  BY DEF Cancel, Goto, TypeOK, At
<1>2. n \in Run
  BY RunOf, ZenonT(60) DEF Run
<1>3. run'[p] = n /\ \A q \in Calls : q # p => run'[q] = run[q]
  BY <1>1 DEF TypeOK
<1>4. TypeOK' /\ WorldStep
  BY <1>1, <1>2 DEF TypeOK, world, WorldStep
<1>5. CallInv(p)'
  <2> USE <1>1, <1>3 DEF TypeOK, Run, CallInv, world, Cancel, At
  <2>1. Route(p)'
    BY DEF Route, Consented
  <2>2. Quiet(p)'
    BY DEF Quiet, Untouched, Early, Bulk, Cancelled, PCs
  <2>3. Deletes(p)'
    BY DEF Deletes, Consented, Quiet, Untouched, Early
  <2>4. Counts(p)'
    BY DEF Counts, Succeeded, Quiet, Early
  <2>5. Asks(p)'
    BY DEF Asks, Quiet, Untouched, Early
  <2> QED
    BY <2>1, <2>2, <2>3, <2>4, <2>5
<1> QED
  BY <1>3, <1>4, <1>5 DEF Moved

\* Where a call goes from the device's resolution, and why it may.
LEMMA FirstCallType ==
  ASSUME TypeOK, NEW p \in Calls
  PROVE  LET c == run[p].cmd IN
         \/ FirstCall(c) = "list" /\ (c.front = "cli" \/ ReadOnly(c))
         \/ FirstCall(c) = "pull" /\ c.kind = "pull" /\ c.front = "mcp"
         \/ FirstCall(c) = "remove" /\ c.kind = "clean" /\ c.front = "mcp" /\ c.sure # "no"
<1>1. run[p].cmd.front \in {"cli", "mcp"} /\ run[p].cmd.kind \in {"list", "pull", "clean"}
  BY CommandsAssumption DEF TypeOK, Run, Command
<1> QED
  BY <1>1 DEF FirstCall, ReadOnly, Confirmed

\* A resolved call lists, or, from a tool that acts, calls the client.
LEMMA FirstCallMoves ==
  ASSUME TypeOK, NEW p \in Calls, CallInv(p), Resolve(p), Goto(p, FirstCall(run[p].cmd))
  PROVE  Moved(p)
<1>0. LET c == run[p].cmd IN
         \/ FirstCall(c) = "list" /\ (c.front = "cli" \/ ReadOnly(c))
         \/ FirstCall(c) = "pull" /\ c.kind = "pull" /\ c.front = "mcp"
         \/ FirstCall(c) = "remove" /\ c.kind = "clean" /\ c.front = "mcp" /\ c.sure # "no"
  BY FirstCallType
<1> DEFINE n == [run[p] EXCEPT !.pc = FirstCall(run[p].cmd)]
<1>1. run' = [run EXCEPT ![p] = n] /\ UNCHANGED world
  BY DEF Resolve, Goto, TypeOK, At
<1>2. n \in Run
  BY <1>0, RunOf, ZenonT(60) DEF Run
<1>3. run'[p] = n /\ \A q \in Calls : q # p => run'[q] = run[q]
  BY <1>1 DEF TypeOK
<1>4. TypeOK' /\ WorldStep
  BY <1>1, <1>2 DEF TypeOK, world, WorldStep
<1>5. CallInv(p)'
  <2> USE <1>0, <1>1, <1>3 DEF TypeOK, Run, CallInv, world, Resolve, At
  <2>1. Route(p)'
    BY DEF Route, Consented
  <2>2. Quiet(p)'
    BY DEF Quiet, Untouched, Early, Bulk, Cancelled, PCs
  <2>3. Deletes(p)'
    BY DEF Deletes, Consented, Quiet, Untouched, Early
  <2>4. Counts(p)'
    BY DEF Counts, Succeeded, Quiet, Early
  <2>5. Asks(p)'
    BY DEF Asks, Quiet, Untouched, Early
  <2> QED
    BY <2>1, <2>2, <2>3, <2>4, <2>5
<1> QED
  BY <1>3, <1>4, <1>5 DEF Moved

\* A pull that has listed makes its directory.
LEMMA MkdirMoves ==
  ASSUME TypeOK, NEW p \in Calls, CallInv(p), AfterList(p), UNCHANGED world,
         run[p].pc = "stat", run[p].cmd.kind = "pull"
  PROVE  Moved(p)
<1> DEFINE n == [run[p] EXCEPT !.pc = "mkdir"]
<1>1. run' = [run EXCEPT ![p] = n] /\ UNCHANGED world
  BY DEF AfterList, Goto, TypeOK, At, ReadOnly
<1>2. n \in Run
  BY RunOf, ZenonT(60) DEF Run
<1>3. run'[p] = n /\ \A q \in Calls : q # p => run'[q] = run[q]
  BY <1>1 DEF TypeOK
<1>4. TypeOK' /\ WorldStep
  BY <1>1, <1>2 DEF TypeOK, world, WorldStep
<1>5. CallInv(p)'
  <2> USE <1>1, <1>3 DEF TypeOK, Run, CallInv, world, AfterList, At
  <2>1. Route(p)'
    BY DEF Route, Consented
  <2>2. Quiet(p)'
    BY DEF Quiet, Untouched, Early, Bulk, Cancelled, PCs
  <2>3. Deletes(p)'
    BY DEF Deletes, Consented, Quiet, Untouched, Early
  <2>4. Counts(p)'
    BY DEF Counts, Succeeded, Quiet, Early
  <2>5. Asks(p)'
    BY DEF Asks, Quiet, Untouched, Early
  <2> QED
    BY <2>1, <2>2, <2>3, <2>4, <2>5
<1> QED
  BY <1>3, <1>4, <1>5 DEF Moved

\* The pre-scan of a pull begins with all entries, or none by --force.
LEMMA ScanMoves ==
  ASSUME TypeOK, NEW p \in Calls, CallInv(p), MakeOut(p)
  PROVE  Moved(p)
<1> DEFINE n == [run[p] EXCEPT !.pc = "scan",
                      !.left = IF run[p].cmd.sure = "no" THEN run[p].listed ELSE {}]
<1>1. run' = [run EXCEPT ![p] = n] /\ UNCHANGED world
  BY DEF MakeOut, TypeOK, At
<1>2. n \in Run
  BY RunOf, ZenonT(60) DEF Run
<1>3. run'[p] = n /\ \A q \in Calls : q # p => run'[q] = run[q]
  BY <1>1 DEF TypeOK
<1>4. TypeOK' /\ WorldStep
  BY <1>1, <1>2 DEF TypeOK, world, WorldStep
<1>5. CallInv(p)'
  <2> USE <1>1, <1>3 DEF TypeOK, Run, CallInv, world, MakeOut, At
  <2>1. Route(p)'
    BY DEF Route, Consented
  <2>2. Quiet(p)'
    BY DEF Quiet, Untouched, Early, Bulk, Cancelled, PCs
  <2>3. Deletes(p)'
    BY DEF Deletes, Consented, Quiet, Untouched, Early
  <2>4. Counts(p)'
    BY DEF Counts, Succeeded, Quiet, Early
  <2>5. Asks(p)'
    BY DEF Asks, Quiet, Untouched, Early
  <2> QED
    BY <2>1, <2>2, <2>3, <2>4, <2>5
<1> QED
  BY <1>3, <1>4, <1>5 DEF Moved

\* A clean that has listed something asks, or removes by --yes.
LEMMA ToRemoveMoves ==
  ASSUME TypeOK, NEW p \in Calls, CallInv(p), AfterList(p), UNCHANGED world,
         run[p].pc = "stat", run[p].cmd.kind = "clean",
         ~ReadOnly(run[p].cmd), run[p].listed # {}
  PROVE  Moved(p)
<1>0. LET c == run[p].cmd IN
      /\ c.front = "cli" /\ ~c.dry /\ c.sure \in {"no", "yes"}
  <2> DEFINE c == run[p].cmd
  <2>1. /\ c.front \in {"cli", "mcp"} /\ c.sure \in {"no", "yes", "quoted"}
        /\ c.front = "cli" => c.sure # "quoted"
    BY CommandsAssumption DEF TypeOK, Run, Command
  <2> QED
    BY <2>1 DEF CallInv, Route, ReadOnly
<1> DEFINE n == [run[p] EXCEPT !.pc = IF run[p].cmd.sure = "no" THEN "ask" ELSE "remove"]
<1>1. run' = [run EXCEPT ![p] = n] /\ UNCHANGED world
  BY DEF AfterList, Goto, TypeOK, At
<1>2. n \in Run
  BY <1>0, RunOf, ZenonT(60) DEF Run
<1>3. run'[p] = n /\ \A q \in Calls : q # p => run'[q] = run[q]
  BY <1>1 DEF TypeOK
<1>4. TypeOK' /\ WorldStep
  BY <1>1, <1>2 DEF TypeOK, world, WorldStep
<1>5. CallInv(p)'
  <2> USE <1>0, <1>1, <1>3 DEF TypeOK, Run, CallInv, world, AfterList, At
  <2>1. Route(p)'
    BY DEF Route, Consented
  <2>2. Quiet(p)'
    BY DEF Quiet, Untouched, Early, Bulk, Cancelled, PCs
  <2>3. Deletes(p)'
    BY DEF Deletes, Consented, Quiet, Untouched, Early
  <2>4. Counts(p)'
    BY DEF Counts, Succeeded, Quiet, Early
  <2>5. Asks(p)'
    BY DEF Asks, Quiet, Untouched, Early
  <2> QED
    BY <2>1, <2>2, <2>3, <2>4, <2>5
<1> QED
  BY <1>3, <1>4, <1>5 DEF Moved

\* A listed report without a file needs no answer.
LEMMA SkipMoves ==
  ASSUME TypeOK, NEW p \in Calls, CallInv(p), ScanSkips(p),
         NEW r \in run[p].left, host[r] = "none",
         run' = [run EXCEPT ![p].left = @ \ {r}]
  PROVE  Moved(p)
<1> DEFINE n == [run[p] EXCEPT !.left = @ \ {r}]
<1>1. run' = [run EXCEPT ![p] = n] /\ UNCHANGED world
  BY DEF ScanSkips, Goto, TypeOK, At
<1>2. n \in Run
  BY RunOf, ZenonT(60) DEF Run
<1>3. run'[p] = n /\ \A q \in Calls : q # p => run'[q] = run[q]
  BY <1>1 DEF TypeOK
<1>4. TypeOK' /\ WorldStep
  BY <1>1, <1>2 DEF TypeOK, world, WorldStep
<1>5. CallInv(p)'
  <2> USE <1>1, <1>3 DEF TypeOK, Run, CallInv, world, ScanSkips, At
  <2>1. Route(p)'
    BY DEF Route, Consented
  <2>2. Quiet(p)'
    BY DEF Quiet, Untouched, Early, Bulk, Cancelled, PCs
  <2>3. Deletes(p)'
    BY DEF Deletes, Consented, Quiet, Untouched, Early
  <2>4. Counts(p)'
    BY DEF Counts, Succeeded, Quiet, Early
  <2>5. Asks(p)'
    BY DEF Asks, Quiet, Untouched, Early
  <2> QED
    BY <2>1, <2>2, <2>3, <2>4, <2>5
<1> QED
  BY <1>3, <1>4, <1>5 DEF Moved

\* A file that may be overwritten is remembered.
LEMMA AcceptMoves ==
  ASSUME TypeOK, NEW p \in Calls, CallInv(p), Overwrite(p),
         NEW r \in run[p].left,
         run' = [run EXCEPT ![p].left = @ \ {r}, ![p].accepted = @ \union {r}]
  PROVE  Moved(p)
<1> DEFINE n == [run[p] EXCEPT !.left = @ \ {r}, !.accepted = @ \union {r}]
<1>1. run' = [run EXCEPT ![p] = n] /\ UNCHANGED world
  BY DEF Overwrite, Goto, TypeOK, At
<1>2. n \in Run
  BY RunOf, ZenonT(60) DEF Run
<1>3. run'[p] = n /\ \A q \in Calls : q # p => run'[q] = run[q]
  BY <1>1 DEF TypeOK
<1>4. TypeOK' /\ WorldStep
  BY <1>1, <1>2 DEF TypeOK, world, WorldStep
<1>5. CallInv(p)'
  <2> USE <1>1, <1>3 DEF TypeOK, Run, CallInv, world, Overwrite, At
  <2>1. Route(p)'
    BY DEF Route, Consented
  <2>2. Quiet(p)'
    BY DEF Quiet, Untouched, Early, Bulk, Cancelled, PCs
  <2>3. Deletes(p)'
    BY DEF Deletes, Consented, Quiet, Untouched, Early
  <2>4. Counts(p)'
    BY DEF Counts, Succeeded, Quiet, Early
  <2>5. Asks(p)'
    BY DEF Asks, Quiet, Untouched, Early
  <2> QED
    BY <2>1, <2>2, <2>3, <2>4, <2>5
<1> QED
  BY <1>3, <1>4, <1>5 DEF Moved

\* A file that may not be overwritten is remembered.
LEMMA DeclineMoves ==
  ASSUME TypeOK, NEW p \in Calls, CallInv(p), Overwrite(p),
         NEW r \in run[p].left,
         run' = [run EXCEPT ![p].left = @ \ {r}, ![p].declined = @ \union {r}]
  PROVE  Moved(p)
<1> DEFINE n == [run[p] EXCEPT !.left = @ \ {r}, !.declined = @ \union {r}]
<1>1. run' = [run EXCEPT ![p] = n] /\ UNCHANGED world
  BY DEF Overwrite, Goto, TypeOK, At
<1>2. n \in Run
  BY RunOf, ZenonT(60) DEF Run
<1>3. run'[p] = n /\ \A q \in Calls : q # p => run'[q] = run[q]
  BY <1>1 DEF TypeOK
<1>4. TypeOK' /\ WorldStep
  BY <1>1, <1>2 DEF TypeOK, world, WorldStep
<1>5. CallInv(p)'
  <2> USE <1>1, <1>3 DEF TypeOK, Run, CallInv, world, Overwrite, At
  <2>1. Route(p)'
    BY DEF Route, Consented
  <2>2. Quiet(p)'
    BY DEF Quiet, Untouched, Early, Bulk, Cancelled, PCs
  <2>3. Deletes(p)'
    BY DEF Deletes, Consented, Quiet, Untouched, Early
  <2>4. Counts(p)'
    BY DEF Counts, Succeeded, Quiet, Early
  <2>5. Asks(p)'
    BY DEF Asks, Quiet, Untouched, Early
  <2> QED
    BY <2>1, <2>2, <2>3, <2>4, <2>5
<1> QED
  BY <1>3, <1>4, <1>5 DEF Moved

\* A pre-scan without a refusal has an answer for every file in the way.
LEMMA ToPullMoves ==
  ASSUME TypeOK, NEW p \in Calls, CallInv(p), ScanEnds(p), run[p].declined = {}
  PROVE  Moved(p)
<1> DEFINE n == [run[p] EXCEPT !.pc = "pull"]
<1>1. run' = [run EXCEPT ![p] = n] /\ UNCHANGED world
  BY DEF ScanEnds, Goto, TypeOK, At
<1>2. n \in Run
  BY RunOf, ZenonT(60) DEF Run
<1>3. run'[p] = n /\ \A q \in Calls : q # p => run'[q] = run[q]
  BY <1>1 DEF TypeOK
<1>4. TypeOK' /\ WorldStep
  BY <1>1, <1>2 DEF TypeOK, world, WorldStep
<1>5. CallInv(p)'
  <2> USE <1>1, <1>3 DEF TypeOK, Run, CallInv, world, ScanEnds, At
  <2>1. Route(p)'
    BY DEF Route, Consented
  <2>2. Quiet(p)'
    BY DEF Quiet, Untouched, Early, Bulk, Cancelled, PCs
  <2>3. Deletes(p)'
    BY DEF Deletes, Consented, Quiet, Untouched, Early
  <2>4. Counts(p)'
    BY DEF Counts, Succeeded, Quiet, Early
  <2>5. Asks(p)'
    BY DEF Asks, Quiet, Untouched, Early
  <2> QED
    BY <2>1, <2>2, <2>3, <2>4, <2>5
<1> QED
  BY <1>3, <1>4, <1>5 DEF Moved

\* A yes to the plan is the consent.
LEMMA AgreeMoves ==
  ASSUME TypeOK, NEW p \in Calls, CallInv(p), Confirm(p),
         run' = [run EXCEPT ![p].pc = "remove", ![p].agreed = TRUE]
  PROVE  Moved(p)
<1> DEFINE n == [run[p] EXCEPT !.pc = "remove", !.agreed = TRUE]
<1>1. run' = [run EXCEPT ![p] = n] /\ UNCHANGED world
  BY DEF Confirm, Goto, TypeOK, At
<1>2. n \in Run
  BY RunOf, ZenonT(60) DEF Run
<1>3. run'[p] = n /\ \A q \in Calls : q # p => run'[q] = run[q]
  BY <1>1 DEF TypeOK
<1>4. TypeOK' /\ WorldStep
  BY <1>1, <1>2 DEF TypeOK, world, WorldStep
<1>5. CallInv(p)'
  <2> USE <1>1, <1>3 DEF TypeOK, Run, CallInv, world, Confirm, At
  <2>1. Route(p)'
    BY DEF Route, Consented
  <2>2. Quiet(p)'
    BY DEF Quiet, Untouched, Early, Bulk, Cancelled, PCs
  <2>3. Deletes(p)'
    BY DEF Deletes, Consented, Quiet, Untouched, Early
  <2>4. Counts(p)'
    BY DEF Counts, Succeeded, Quiet, Early
  <2>5. Asks(p)'
    BY DEF Asks, Quiet, Untouched, Early
  <2> QED
    BY <2>1, <2>2, <2>3, <2>4, <2>5
<1> QED
  BY <1>3, <1>4, <1>5 DEF Moved

\* The walk of the download has every counted report that is still there.
LEMMA StartDownloadMoves ==
  ASSUME TypeOK, NEW p \in Calls, CallInv(p), StartDownload(p),
         ~(Cancelled(p) /\ run[p].counted # {})
  PROVE  Moved(p)
<1> DEFINE L == Listing(run[p].cmd.pattern)
<1>0. L \in SUBSET Reports /\ L \subseteq device /\ L \subseteq Full(run[p].cmd.pattern)
      /\ device \intersect Full(run[p].cmd.pattern) \subseteq L
  BY ListingType DEF TypeOK
<1> DEFINE n == [run[p] EXCEPT !.pc = "download", !.walk = L]
<1>1. run' = [run EXCEPT ![p] = n] /\ UNCHANGED world
  BY DEF StartDownload, Goto, TypeOK, At
<1> HIDE DEF L
<1>2. n \in Run
  BY <1>0, RunOf, ZenonT(60) DEF Run
<1>3. run'[p] = n /\ \A q \in Calls : q # p => run'[q] = run[q]
  BY <1>1 DEF TypeOK
<1>4. TypeOK' /\ WorldStep
  BY <1>1, <1>2 DEF TypeOK, world, WorldStep
<1>5. CallInv(p)'
  <2> USE <1>0, <1>1, <1>3 DEF TypeOK, Run, CallInv, world, StartDownload, At
  <2>1. Route(p)'
    BY DEF Route, Consented
  <2>2. Quiet(p)'
    BY DEF Quiet, Untouched, Early, Bulk, Cancelled, PCs
  <2>3. Deletes(p)'
    BY DEF Deletes, Consented, Quiet, Untouched, Early
  <2>4. Counts(p)'
    <3>1. run[p].counted \intersect device \subseteq L /\ run[p].counted \intersect fresh = {}
      BY DEF Counts
    <3>2. /\ run'[p].counted = run[p].counted /\ run'[p].walk = L
          /\ run'[p].pc = "download" /\ device' = device /\ fresh' = fresh
      BY ONLY <1>1, <1>3, TypeOK DEF TypeOK, Run, world
    <3> QED
      BY ONLY <3>1, <3>2 DEF Counts, Succeeded, At
  <2>5. Asks(p)'
    BY DEF Asks, Quiet, Untouched, Early
  <2> QED
    BY <2>1, <2>2, <2>3, <2>4, <2>5
<1> QED
  BY <1>3, <1>4, <1>5 DEF Moved

\* A report fetched leaves the walk, and what it overwrites had its answer.
LEMMA FetchMoves ==
  ASSUME TypeOK, NEW p \in Calls, CallInv(p), Download(p),
         NEW r \in run[p].walk \intersect device, host' = [host EXCEPT ![r] = "new"],
         run' = [run EXCEPT ![p].walk = @ \ {r}, ![p].written = @ \union {r},
                            ![p].replaced = Overwritten(p, r)]
  PROVE  Moved(p)
<1>0. Overwritten(p, r) \in SUBSET Reports
      /\ Overwritten(p, r) = IF host[r] = "old" THEN run[p].replaced \union {r}
                             ELSE run[p].replaced
  BY DEF Overwritten, TypeOK, Run
<1> DEFINE n == [run[p] EXCEPT !.walk = @ \ {r}, !.written = @ \union {r},
                      !.replaced = Overwritten(p, r)]
<1>1. run' = [run EXCEPT ![p] = n] /\ UNCHANGED <<device, fresh>>
  BY DEF Download, Goto, TypeOK, At
<1>2. n \in Run
  BY <1>0, RunOf, ZenonT(60) DEF Run
<1>3. run'[p] = n /\ \A q \in Calls : q # p => run'[q] = run[q]
  BY <1>1 DEF TypeOK
<1>4. TypeOK' /\ WorldStep
  BY <1>1, <1>2 DEF TypeOK, world, WorldStep
<1>5. CallInv(p)'
  <2> USE <1>0, <1>1, <1>3 DEF TypeOK, Run, CallInv, world, Download, At
  <2>1. Route(p)'
    BY DEF Route, Consented
  <2>2. Quiet(p)'
    BY DEF Quiet, Untouched, Early, Bulk, Cancelled, PCs
  <2>3. Deletes(p)'
    BY DEF Deletes, Consented, Quiet, Untouched, Early
  <2>4. Counts(p)'
    BY DEF Counts, Succeeded, Quiet, Early
  <2>5. Asks(p)'
    BY DEF Asks, Quiet, Untouched, Early
  <2> QED
    BY <2>1, <2>2, <2>3, <2>4, <2>5
<1> QED
  BY <1>3, <1>4, <1>5 DEF Moved

\* A download that breaks off has overwritten at most one file more.
LEMMA BreakMoves ==
  ASSUME TypeOK, NEW p \in Calls, CallInv(p), DownloadBreaks(p),
         NEW r \in run[p].walk, host' = [host EXCEPT ![r] = "part"],
         run' = [run EXCEPT ![p].pc = "exit", ![p].code = 1,
                            ![p].replaced = Overwritten(p, r)]
  PROVE  Moved(p)
<1>0. Overwritten(p, r) \in SUBSET Reports
      /\ Overwritten(p, r) = IF host[r] = "old" THEN run[p].replaced \union {r}
                             ELSE run[p].replaced
  BY DEF Overwritten, TypeOK, Run
<1> DEFINE n == [run[p] EXCEPT !.pc = "exit", !.code = 1, !.replaced = Overwritten(p, r)]
<1>1. run' = [run EXCEPT ![p] = n] /\ UNCHANGED <<device, fresh>>
  BY DEF DownloadBreaks, Goto, TypeOK, At
<1>2. n \in Run
  <2>1. 1 \in 0..1
    OBVIOUS
  <2> QED
    BY <1>0, <2>1, RunOf, ZenonT(60) DEF Run
<1>3. run'[p] = n /\ \A q \in Calls : q # p => run'[q] = run[q]
  BY <1>1 DEF TypeOK
<1>4. TypeOK' /\ WorldStep
  BY <1>1, <1>2, ZenonT(60) DEF TypeOK, world, WorldStep
<1>5. CallInv(p)'
  <2> USE <1>0, <1>1, <1>3 DEF TypeOK, Run, CallInv, world, DownloadBreaks, At
  <2>1. Route(p)'
    BY DEF Route, Consented
  <2>2. Quiet(p)'
    BY DEF Quiet, Untouched, Early, Bulk, Cancelled, PCs
  <2>3. Deletes(p)'
    BY DEF Deletes, Consented, Quiet, Untouched, Early
  <2>4. Counts(p)'
    BY DEF Counts, Succeeded, Quiet, Early
  <2>5. Asks(p)'
    BY DEF Asks, Quiet, Untouched, Early
  <2> QED
    BY <2>1, <2>2, <2>3, <2>4, <2>5
<1> QED
  BY <1>3, <1>4, <1>5 DEF Moved

\* A report removed leaves the device and the walk together.
LEMMA PurgeOneMoves ==
  ASSUME TypeOK, NEW p \in Calls, CallInv(p), Purge(p),
         NEW r \in run[p].walk \intersect device, device' = device \ {r},
         run' = [run EXCEPT ![p].walk = @ \ {r}, ![p].removed = @ \union {r}]
  PROVE  Moved(p)
<1> DEFINE n == [run[p] EXCEPT !.walk = @ \ {r}, !.removed = @ \union {r}]
<1>1. run' = [run EXCEPT ![p] = n] /\ UNCHANGED <<fresh, host>>
  BY DEF Purge, Goto, TypeOK, At
<1>2. n \in Run
  BY RunOf, ZenonT(60) DEF Run
<1>3. run'[p] = n /\ \A q \in Calls : q # p => run'[q] = run[q]
  BY <1>1 DEF TypeOK
<1>4. TypeOK' /\ WorldStep
  BY <1>1, <1>2 DEF TypeOK, world, WorldStep
<1>5. CallInv(p)'
  <2> USE <1>1, <1>3 DEF TypeOK, Run, CallInv, world, Purge, At
  <2>1. Route(p)'
    BY DEF Route, Consented
  <2>2. Quiet(p)'
    BY DEF Quiet, Untouched, Early, Bulk, Cancelled, PCs
  <2>3. Deletes(p)'
    <3>1. run[p].pc = "purge" /\ r \in run[p].walk
      BY DEF Purge, At
    <3>2. /\ run'[p].removed = run[p].removed \union {r}
          /\ run'[p].walk = run[p].walk \ {r}
          /\ run'[p].cmd = run[p].cmd /\ run'[p].pc = run[p].pc
          /\ run'[p].listed = run[p].listed /\ run'[p].agreed = run[p].agreed
          /\ run'[p].written = run[p].written /\ run'[p].replaced = run[p].replaced
      BY ONLY <1>1, <1>3, TypeOK DEF TypeOK, Run
    <3>3. Consented(p) /\ Deletes(p)
      BY <3>1 DEF Route
    <3> QED
      BY ONLY <3>1, <3>2, <3>3 DEF Deletes, Consented
  <2>4. Counts(p)'
    BY DEF Counts, Succeeded, Quiet, Early
  <2>5. Asks(p)'
    BY DEF Asks, Quiet, Untouched, Early
  <2> QED
    BY <2>1, <2>2, <2>3, <2>4, <2>5
<1> QED
  BY <1>3, <1>4, <1>5 DEF Moved

-------------------------------------------------------------------------------

\* Every step of a call, of its user's answers, of a failure or of a signal
\* establishes Moved.
LEMMA CallMoves ==
  ASSUME TypeOK, NEW p \in Calls, CallInv(p),
         Step(p) \/ Answer(p) \/ Fails(p) \/ Cancel(p)
  PROVE  Moved(p)
<1>1. ASSUME run[p].pc \in Early, UNCHANGED world, Exit(p, 0) \/ Exit(p, 1)
      PROVE  Moved(p)
  BY <1>1, EarlyAccounted, ExitMoves
<1>2. CASE Resolve(p)
  BY <1>1, <1>2, FirstCallMoves DEF Resolve, At, Early
<1>3. CASE Stat(p)
  <2>1. run[p].pc = "stat" /\ run[p].pc \in Early /\ UNCHANGED world
    BY <1>3 DEF Stat, At, Early
  <2>2. CASE Exit(p, 1)
    BY <1>1, <2>1, <2>2
  <2>3. CASE AfterList(p)
    <3>1. run[p].cmd.kind \in {"list", "pull", "clean"}
      BY CommandsAssumption DEF TypeOK, Run, Command
    <3>2. CASE run[p].cmd.kind = "pull"
      BY <2>1, <2>3, <3>2, MkdirMoves
    <3>3. CASE run[p].cmd.kind # "pull" /\ (ReadOnly(run[p].cmd) \/ run[p].listed = {})
      <4>1. Exit(p, 0)
        BY <2>3, <3>1, <3>3 DEF AfterList, ReadOnly
      <4> QED
        BY <1>1, <2>1, <4>1
    <3>4. CASE run[p].cmd.kind # "pull" /\ ~ReadOnly(run[p].cmd) /\ run[p].listed # {}
      <4>1. run[p].cmd.kind = "clean"
        BY <3>1, <3>4 DEF ReadOnly
      <4> QED
        BY <2>1, <2>3, <3>4, <4>1, ToRemoveMoves
    <3> QED
      BY <3>2, <3>3, <3>4
  <2> QED
    BY <1>3, <2>2, <2>3 DEF Stat
<1>4. CASE ScanSkips(p)
  BY <1>4, SkipMoves DEF ScanSkips
<1>5. CASE Overwrite(p)
  <2>1. PICK r \in run[p].left :
          \/ run' = [run EXCEPT ![p].left = @ \ {r}, ![p].accepted = @ \union {r}]
          \/ run' = [run EXCEPT ![p].left = @ \ {r}, ![p].declined = @ \union {r}]
    BY <1>5 DEF Overwrite
  <2> QED
    BY <1>5, <2>1, AcceptMoves, DeclineMoves
<1>6. CASE ScanEnds(p)
  <2>1. CASE run[p].declined = {}
    BY <1>6, <2>1, ToPullMoves
  <2>2. CASE run[p].declined # {}
    BY <1>1, <1>6, <2>2 DEF ScanEnds, At, Early
  <2> QED
    BY <2>1, <2>2
<1>7. CASE StartDownload(p)
  <2>1. CASE Cancelled(p) /\ run[p].counted # {}
    BY <1>7, <2>1, ExitMoves DEF StartDownload
  <2> QED
    BY <1>7, <2>1, StartDownloadMoves
<1>8. CASE Confirm(p)
  BY <1>1, <1>8, AgreeMoves DEF Confirm, At, Early
<1>9. CASE Download(p)
  BY <1>9, FetchMoves DEF Download
<1>10. CASE DownloadBreaks(p)
  BY <1>10, BreakMoves DEF DownloadBreaks
<1>11. CASE Purge(p)
  BY <1>11, PurgeOneMoves DEF Purge
<1> QED
  BY <1>2, <1>3, <1>4, <1>5, <1>6, <1>7, <1>8, <1>9, <1>10, <1>11, CheckArgsMoves,
     ExitsMove, ListMoves, ScanMoves, PullMoves, RemoveMoves, StartPurgeMoves, CancelMoves
     DEF Step, Answer

\* iOS writes and rotates reports within what every call relies on.
LEMMA DeviceSteps ==
  ASSUME TypeOK, Appear \/ Rotate
  PROVE  TypeOK' /\ WorldStep /\ run' = run
<1>1. CASE Appear
  BY <1>1 DEF Appear, TypeOK, WorldStep
<1>2. CASE Rotate
  BY <1>2 DEF Rotate, TypeOK, WorldStep
<1> QED
  BY <1>1, <1>2

\* Every step keeps the invariant: the call that moves by CallMoves, the others
\* because they rely on no more than WorldStep gives them.
LEMMA NextIInv == IInv /\ [Next]_vars => IInv'
<1> SUFFICES ASSUME IInv, [Next]_vars PROVE IInv'
  OBVIOUS
<1> USE DEF IInv
<1>1. ASSUME NEW p \in Calls, Step(p) \/ Answer(p) \/ Fails(p) \/ Cancel(p)
      PROVE  IInv'
  <2>1. Moved(p)
    BY <1>1, CallMoves
  <2>2. ASSUME NEW q \in Calls PROVE CallInv(q)'
    BY <2>1, Stable DEF Moved
  <2> QED
    BY <2>1, <2>2 DEF Moved
<1>2. ASSUME TypeOK', WorldStep, run' = run PROVE IInv'
  BY <1>2, Stable
<1>3. CASE Appear \/ Rotate
  BY <1>2, <1>3, DeviceSteps
<1>4. CASE UNCHANGED vars
  BY <1>2, <1>4 DEF vars, TypeOK, WorldStep
<1> QED
  BY <1>1, <1>3, <1>4 DEF Next

\* Every reachable state satisfies the invariant.
THEOREM Invariance == Spec => []IInv
BY InitIInv, NextIInv, PTL DEF Spec

\* Every state is well typed: a report that is still to be written is not on
\* the device, and a call's sets hold reports only.
THEOREM TypeCorrect == Spec => []TypeOK
<1>1. IInv => TypeOK
  BY DEF IInv
<1> QED
  BY <1>1, Invariance, PTL

\* A call of crashlogs clean deletes only what its pattern names, and only with
\* the consent its front end asks for, however many calls and rotations overlap.
THEOREM DeletionsConsented == Spec => []ConsentedDeletions
<1>1. IInv => ConsentedDeletions
  BY DEF IInv, CallInv, Deletes, Consented, ConsentedDeletions
<1> QED
  BY <1>1, Invariance, PTL

\* A pull without --force overwrites of the files it listed only those it had a
\* yes for, and after one no it overwrites and writes nothing.
THEOREM OverwritesConsented == Spec => []ConsentedOverwrites
<1>1. IInv => ConsentedOverwrites
  BY DEF IInv, CallInv, Asks, Untouched, ConsentedOverwrites
<1> QED
  BY <1>1, Invariance, PTL

\* The count of a successful call has happened, though it is made of a listing
\* that is older than the bulk operation's walk.
THEOREM CountsCorrect == Spec => []CountsHold
<1>1. IInv => CountsHold
  BY DEF IInv, CallInv, Counts, CountsHold
<1> QED
  BY <1>1, Invariance, PTL

\* A call cancelled before its bulk operation has deleted and written nothing.
THEOREM EarlyCancels == Spec => []EarlyCancelHarmless
<1>1. IInv => EarlyCancelHarmless
  BY DEF IInv, CallInv, Quiet, Untouched, EarlyCancelHarmless
<1> QED
  BY <1>1, Invariance, PTL
===============================================================================
