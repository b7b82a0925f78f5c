---------------------------- MODULE EvidenceProofs ----------------------------
(***************************************************************************)
(* What the probe rows are believed for.                                   *)
(*                                                                         *)
(* For any number of bundles, runs and calls and any limits of age: the    *)
(* gate opens only on the last answer that was saved, and only on one of   *)
(* which the age is what it should be but for what the host's clock was    *)
(* set back.  The inductive invariant follows a row on its way: from the   *)
(* answer not yet stamped to the rows of the run, the document of the      *)
(* device and the copy that a call has loaded.                             *)
(*                                                                         *)
(* For every snapshot of apps and rows: the advice for an app is what its  *)
(* newest row allows, and neither the quotas nor the limit of the table    *)
(* hide what is bigger.  The invariant says what the loops have done with  *)
(* the apps that are behind them, and that none ahead is bigger.           *)
(***************************************************************************)
EXTENDS ProbeLifecycle, Recommendations, FiniteSetTheorems, WellFoundedInduction, TLAPS

-------------------------------------------------------------------------------
(* The gate *)

RunStates ==
  [pc : {"idle", "next"}, todo : SUBSET Bundles, rows : SUBSET Row] \union
  [pc : {"stamp"}, todo : SUBSET Bundles, rows : SUBSET Row,
   asked : Bundles, said : Outcomes, since : Nat]

CallStates ==
  [pc : {"idle", "advise"}] \union
  [pc : {"gate", "open"}, front : {"cli", "mcp"}, bundle : Bundles,
   told : Row \union {Never}]

Shape ==
  /\ now \in 0..MaxNow /\ back \in 0..MaxBack /\ probes \in 0..MaxProbes
  /\ cache \in [{Device} -> SUBSET Row]
  /\ view \in [Calls -> SUBSET Row]
  /\ run \in [Runs -> RunStates]
  /\ call \in [Calls -> CallStates]
  /\ lastVend \in [Bundles -> Int]
  /\ lastSaid \in [Bundles -> Row \union {Never}]

\* The daemon's latest vending is not in the future.
Vendings == \A b \in Bundles : lastVend[b] >= -1 /\ lastVend[b] <= now

\* A vended row, wherever it is, was an answer of the daemon, and is stamped
\* at most ProbeTime after the latest one.
Witnessed(known) ==
  \A row \in known : row.outcome = "vended" =>
    lastVend[row.bundle] >= 0 /\ row.at <= lastVend[row.bundle] + ProbeTime

\* A run has at most one row for a bundle, and none for one still to be asked.
Rows(r) ==
  /\ OneRowEach(run[r].rows) /\ Witnessed(run[r].rows)
  /\ \A row \in run[r].rows : row.bundle \notin run[r].todo

\* The answer that waits for its stamp is of a bundle that has no row.
Pending(r) ==
  run[r].pc = "stamp" =>
    /\ run[r].asked \notin run[r].todo
    /\ \A row \in run[r].rows : row.bundle # run[r].asked
    /\ run[r].since <= now /\ now <= run[r].since + ProbeTime
    /\ run[r].said = "vended" => run[r].since <= lastVend[run[r].asked]

Cached ==
  /\ OneRowEach(cache[Device]) /\ Witnessed(cache[Device])
  /\ \A row \in cache[Device] : lastSaid[row.bundle] = row

\* What a call has loaded was the last answer when it loaded it.
Loaded(c) ==
  call[c].pc = "gate" =>
    /\ Witnessed(view[c])
    /\ \A row \in view[c] : row.bundle = call[c].bundle => call[c].told = row

IInv ==
  /\ Shape
  /\ Vendings
  /\ \A r \in Runs : Rows(r) /\ Pending(r)
  /\ Cached
  /\ \A c \in Calls : Loaded(c)

\* Nothing has been asked, saved or loaded.
LEMMA InitIInv == Init => IInv
  BY TimeAssumption
  DEF Init, IInv, Shape, RunStates, CallStates, Vendings, Witnessed, Rows,
      Pending, Cached, Loaded, OneRowEach, Idle, Never, Store!Init

\* A later vending bears out all that an earlier one did.
LEMMA VendingsWitness ==
  ASSUME NEW known \in SUBSET Row, Witnessed(known),
         lastVend \in [Bundles -> Int], lastVend' \in [Bundles -> Int],
         \A b \in Bundles : lastVend'[b] >= lastVend[b]
  PROVE  Witnessed(known)'
  BY TimeAssumption DEF Witnessed, Row

\* Every step of a run, a call or the clocks keeps what is known of the rows.
LEMMA StepIInv == IInv /\ [Next]_vars => IInv'
<1> SUFFICES ASSUME IInv, [Next]_vars PROVE IInv'
  OBVIOUS
<1> USE TimeAssumption DEF IInv
<1>1. ASSUME NEW r \in Runs, NEW targets \in SUBSET Bundles, Begin(r, targets)
      PROVE  IInv'
  <2> DEFINE n == [Idle EXCEPT !.pc = "next", !.todo = targets]
  <2>1. /\ n \in [pc : {"idle", "next"}, todo : SUBSET Bundles, rows : SUBSET Row]
        /\ n.pc = "next" /\ n.todo = targets /\ n.rows = {}
    BY DEF Idle
  <2>2. run' = [run EXCEPT ![r] = n] /\ UNCHANGED <<clock, store, call, history>>
    BY <1>1 DEF Begin
  <2> HIDE DEF n
  <2>3. Shape'
    BY <2>1, <2>2 DEF Shape, RunStates, clock, store, history
  <2>4. \A q \in Runs : Rows(q)' /\ Pending(q)'
    BY <2>1, <2>2 DEF Shape, Rows, Pending, Witnessed, OneRowEach, clock, history
  <2>5. Vendings' /\ Cached' /\ \A c \in Calls : Loaded(c)'
    BY <2>2 DEF Vendings, Cached, Loaded, Witnessed, clock, store, history
  <2>6. QED
    BY <2>3, <2>4, <2>5
<1>2. ASSUME NEW r \in Runs, NEW b \in Bundles, Probe(r, b) PROVE IInv'
  <2>1. PICK said \in Outcomes :
          /\ run' = [run EXCEPT ![r] =
                       [pc |-> "stamp", todo |-> @.todo \ {b}, rows |-> @.rows,
                        asked |-> b, said |-> said, since |-> now]]
          /\ lastVend' = IF said = "vended"
                           THEN [lastVend EXCEPT ![b] = now] ELSE lastVend
    BY <1>2 DEF Probe
  <2>2. Shape' /\ Vendings'
    BY <1>2, <2>1 DEF Probe, Shape, RunStates, Vendings, clock, store
  <2>3. \A a \in Bundles : lastVend'[a] >= lastVend[a]
    BY <2>1 DEF Shape, Vendings
  <2>4. (\A s \in Runs : Rows(s))'
    BY <1>2, <2>1, <2>2, <2>3, VendingsWitness
    DEF Probe, Rows, Shape, RunStates, OneRowEach
  <2>5. (\A s \in Runs : Pending(s))'
    BY <1>2, <2>1, <2>2, <2>3 DEF Probe, Rows, Pending, Shape, RunStates, clock
  <2>6. Cached'
    BY <1>2, <2>2, <2>3, VendingsWitness DEF Probe, Cached, Shape, store, OneRowEach
  <2>7. (\A c \in Calls : Loaded(c))'
    BY <1>2, <2>2, <2>3, VendingsWitness DEF Probe, Loaded, Shape, store
  <2>8. QED
    BY <2>2, <2>4, <2>5, <2>6, <2>7
<1>3. ASSUME NEW r \in Runs, Stamp(r) PROVE IInv'
  BY <1>3 DEF Stamp, Wall, Shape, RunStates, Vendings, Witnessed, Rows,
              Pending, Cached, Loaded, OneRowEach, Row, clock, store, history
<1>4. ASSUME NEW r \in Runs, Save(r) PROVE IInv'
  <2>1. cache'[Device] = run[r].rows /\ cache' \in [{Device} -> SUBSET Row]
    BY <1>4 DEF Save, Store!Save, Document, Shape, RunStates
  <2>2. \A row \in run[r].rows : Said(r, row.bundle) = row
    BY DEF Said, Rows, OneRowEach
  <2>3. \A b \in Bundles : Said(r, b) \in Row \union {Never}
    BY DEF Said, Shape, RunStates
  <2>4. Shape' /\ Vendings'
    BY <1>4, <2>1, <2>3 DEF Save, Store!Save, Shape, RunStates, Vendings, Idle, clock
  <2>5. Cached'
    BY <1>4, <2>1, <2>2 DEF Save, Cached, Rows, Witnessed, Shape, RunStates, Row,
                            OneRowEach
  <2>6. (\A s \in Runs : Rows(s) /\ Pending(s))'
    BY <1>4 DEF Save, Rows, Pending, Witnessed, OneRowEach, Idle, Shape, RunStates,
                clock
  <2>7. (\A c \in Calls : Loaded(c))'
    BY <1>4 DEF Save, Store!Save, Loaded, Witnessed
  <2>8. QED
    BY <2>4, <2>5, <2>6, <2>7
<1>5. ASSUME NEW r \in Runs, RunDies(r) PROVE IInv'
  BY <1>5 DEF RunDies, Idle, Shape, RunStates, Vendings, Witnessed, Rows,
              Pending, Cached, Loaded, OneRowEach, clock, store, history
<1>6. ASSUME NEW c \in Calls, NEW front \in {"cli", "mcp"}, NEW b \in Bundles,
             LoadToClean(c, front, b)
      PROVE  IInv'
  BY <1>6 DEF LoadToClean, Store!Load, Shape, CallStates, Vendings, Witnessed,
              Rows, Pending, Cached, Loaded, OneRowEach, clock, history
<1>7. ASSUME NEW c \in Calls, LoadToAdvise(c) PROVE IInv'
  BY <1>7 DEF LoadToAdvise, Store!Load, Store!Fail, Shape, CallStates, Vendings,
              Witnessed, Rows, Pending, Cached, Loaded, OneRowEach, clock, history
<1>8. ASSUME NEW c \in Calls, Gate(c) PROVE IInv'
  BY <1>8 DEF Gate, Store!Fail, Shape, CallStates, Vendings, Witnessed, Rows,
              Pending, Cached, Loaded, OneRowEach, clock, store, history
<1>9. ASSUME NEW c \in Calls, Return(c) PROVE IInv'
  BY <1>9 DEF Return, Store!Fail, Shape, CallStates, Vendings, Witnessed, Rows,
              Pending, Cached, Loaded, OneRowEach, clock, history
<1>10. CASE Tick
  BY <1>10 DEF Tick, Shape, RunStates, Vendings, Witnessed, Rows, Pending,
               Cached, Loaded, OneRowEach, store, history
<1>11. CASE SetBack
  BY <1>11 DEF SetBack, Shape, Vendings, Witnessed, Rows, Pending, Cached,
               Loaded, OneRowEach, store, history
<1>12. CASE UNCHANGED vars
  BY <1>12 DEF vars, Shape, Vendings, Witnessed, Rows, Pending, Cached, Loaded,
               OneRowEach
<1>13. QED
  BY <1>1, <1>2, <1>3, <1>4, <1>5, <1>6, <1>7, <1>8, <1>9, <1>10, <1>11, <1>12
  DEF Next, RunStep, CallStep

LEMMA InductiveInvariant == Spec => []IInv
  BY InitIInv, StepIInv, PTL DEF Spec

\* Documents, views, rows and answers keep their types, one row for a bundle.
THEOREM TypeCorrect == Spec => []TypeOK
<1>1. IInv => TypeOK
  BY TimeAssumption
  DEF IInv, TypeOK, Shape, RunStates, CallStates, Vendings, Rows, Pending,
      Cached, Store!TypeOK
<1>2. QED
  BY <1>1, InductiveInvariant, PTL

\* A gate that opens does so on the last row about the bundle that was saved.
LEMMA PassOnLast ==
  ASSUME IInv, [Next]_vars, NEW c \in Calls, Passes(c)
  PROVE  Gate(c) /\ Fresh(c, call[c].front, call[c].bundle)
<1>1. \A d \in Calls : Gate(d) => d = c
  BY DEF IInv, Shape, CallStates, Gate, Passes
<1>2. Gate(c)
  BY <1>1 DEF IInv, Shape, CallStates, Passes, Next, RunStep, CallStep, Begin,
    Probe, Stamp, Save, RunDies, LoadToClean, LoadToAdvise, Return, Tick, SetBack, vars
<1>3. QED
  BY <1>2 DEF IInv, Shape, CallStates, Gate, Passes

\* No older row of a bundle ever opens the gate against a newer answer.
THEOREM LastAnswerAlwaysCounts == Spec => LastAnswerCounts
<1>1. ASSUME IInv, [Next]_vars, NEW c \in Calls, Passes(c)
      PROVE  call[c].told.outcome = "vended"
  BY <1>1, PassOnLast DEF IInv, Loaded, Fresh, Passes
<1>2. IInv /\ [Next]_vars =>
        [\A c \in Calls : Passes(c) => call[c].told.outcome = "vended"]_vars
  BY <1>1
<1>3. QED
  BY <1>2, InductiveInvariant, PTL DEF Spec, LastAnswerCounts

\* A row that opens the gate was stamped soon after the daemon's latest vending,
\* by a clock that was at most as far behind as it is now.
LEMMA PassInTime ==
  ASSUME IInv, [Next]_vars, NEW c \in Calls, Passes(c)
  PROVE  InLimit(c, MaxBack)
<1>1. PICK row \in view[c] :
        /\ row.bundle = call[c].bundle /\ row.outcome = "vended"
        /\ InTime(call[c].front, Wall - row.at)
  BY PassOnLast DEF Fresh
<1>2. lastVend[row.bundle] >= 0 /\ row.at <= lastVend[row.bundle] + ProbeTime
  BY <1>1 DEF IInv, Loaded, Witnessed, Passes
<1>3. /\ now \in Int /\ back \in Int /\ back <= MaxBack
      /\ row.at \in Int /\ lastVend[row.bundle] \in Int
  BY <1>1, TimeAssumption DEF IInv, Shape, Row
<1>4. now - lastVend[row.bundle] - ProbeTime - MaxBack <= Wall - row.at
  BY <1>2, <1>3, TimeAssumption DEF Wall
<1>5. QED
  BY <1>1, <1>2, <1>3, <1>4, TimeAssumption DEF InTime, InLimit, Wall

\* Setting the clock back by at most MaxBack gains at most that.
THEOREM AlwaysVendedLately == Spec => VendedLately
<1>1. IInv /\ [Next]_vars =>
        [\A c \in Calls : Passes(c) => InLimit(c, MaxBack)]_vars
  BY PassInTime
<1>2. QED
  BY <1>1, InductiveInvariant, PTL DEF Spec, VendedLately

\* With a steady clock the daemon has vended the bundle within the limit.
THEOREM SteadyClockOnTime ==
  ASSUME MaxBack = 0 PROVE Spec => VendedOnTime
<1>1. IInv /\ [Next]_vars =>
        [\A c \in Calls : Passes(c) => InLimit(c, 0)]_vars
  BY PassInTime
<1>2. QED
  BY <1>1, InductiveInvariant, PTL DEF Spec, VendedOnTime

\* The advice goes by the last saved answer as the gate does, whatever its age:
\* it never tells to clean what a later saved probe found refused.
THEOREM AdviceAlwaysOnLast == Spec => AdviceOnLast
<1>1. ASSUME IInv, [Next]_vars, NEW c \in Calls,
             call[c].pc = "idle", call'[c].pc = "advise"
      PROVE  \A b \in Advice(c)' : lastSaid[b].outcome = "vended" /\ lastVend[b] >= 0
  <2>1. call \in [Calls -> CallStates] /\ view \in [Calls -> SUBSET Row]
    BY <1>1 DEF IInv, Shape
  <2>2. PICK d \in Calls : CallStep(d)
    BY <1>1 DEF Next, RunStep, Begin, Probe, Stamp, Save, RunDies, Tick, SetBack, vars
  <2>3. call'[c] # call[c]
    BY <1>1
  <2>4. LoadToAdvise(c)
    <3>1. CASE \E front \in {"cli", "mcp"}, b \in Bundles : LoadToClean(d, front, b)
      BY <1>1, <2>1, <2>3, <3>1 DEF LoadToClean
    <3>2. CASE LoadToAdvise(d)
      BY <2>1, <2>3, <3>2 DEF LoadToAdvise
    <3>3. CASE Gate(d)
      BY <1>1, <2>1, <2>3, <3>3 DEF Gate
    <3>4. CASE Return(d)
      BY <1>1, <2>1, <2>3, <3>4 DEF Return
    <3>5. QED
      BY <2>2, <3>1, <3>2, <3>3, <3>4 DEF CallStep
  <2>5. view'[c] \subseteq cache[Device]
    BY <2>1, <2>4 DEF LoadToAdvise, Store!Load, Store!Fail
  <2>6. Advice(c)' = {b \in Bundles : \E row \in view'[c] :
                                       row.bundle = b /\ row.outcome = "vended"}
    BY DEF Advice
  <2>7. QED
    BY <1>1, <2>5, <2>6 DEF IInv, Cached, Witnessed
<1>2. IInv /\ [Next]_vars =>
        [\A c \in Calls : call[c].pc = "idle" /\ call'[c].pc = "advise" =>
           \A b \in Advice(c)' : lastSaid[b].outcome = "vended" /\ lastVend[b] >= 0]_vars
  BY <1>1
<1>3. QED
  BY <1>2, InductiveInvariant, PTL DEF Spec, AdviceOnLast

\* The runs and calls use the cache as the register that ProbeCache specifies
\* and ProbeStore implements: each of their steps is one Save, one Load or one
\* Fail of it, or leaves it alone, and only whole documents go in.
THEOREM UsesRegister == Spec => Store!Spec
<1>1. Init => Store!Init
  BY DEF Init
<1>2. ASSUME IInv, [Next]_vars PROVE [Store!Next]_(Store!vars)
  <2>1. ASSUME NEW r \in Runs, Save(r) PROVE Store!Next
    <3>1. run[r].rows \in SUBSET Row
      BY <1>2 DEF IInv, Shape, RunStates
    <3>2. QED
      BY <2>1, <3>1 DEF Save, Document, Store!Next
  <2>2. ASSUME NEW c \in Calls, NEW front \in {"cli", "mcp"}, NEW b \in Bundles,
               LoadToClean(c, front, b)
        PROVE  Store!Next
    BY <2>2 DEF LoadToClean, Store!Next
  <2>3. ASSUME NEW c \in Calls, LoadToAdvise(c) \/ Gate(c) \/ Return(c)
        PROVE  [Store!Next]_(Store!vars)
    BY <2>3 DEF LoadToAdvise, Gate, Return, Store!Next, Store!vars, store
  <2>4. ASSUME NEW r \in Runs,
               \/ \E targets \in SUBSET Bundles : Begin(r, targets)
               \/ \E b \in Bundles : Probe(r, b)
               \/ Stamp(r) \/ RunDies(r)
        PROVE  UNCHANGED store
    BY <2>4 DEF Begin, Probe, Stamp, RunDies
  <2>5. Tick \/ SetBack \/ UNCHANGED vars => UNCHANGED store
    BY DEF Tick, SetBack, vars, store
  <2>6. QED
    BY <1>2, <2>1, <2>2, <2>3, <2>4, <2>5
    DEF Next, RunStep, CallStep, Store!vars, store
<1>3. QED
  BY <1>1, <1>2, InductiveInvariant, PTL DEF Spec, Store!Spec

-------------------------------------------------------------------------------
(* The advice *)

\* All recommendations so far, in their place or not yet.
Given == plan \union Advised

\* The apps that the loop is done with.
Taken == Apps \ (ahead \union {app})

\* The advice for an app.
KindOf(a) == IF NewestVended(a.bundle) THEN "clean_app_sandbox" ELSE "offload_app"

\* The places of storage_recommendations.
Building == {"in", "apps", "rows", "sort", "advised"}

\* What is set at each place of the two loops.
Places ==
  /\ pc = "in" => plan = {} /\ ahead = Apps
  /\ pc \in {"in", "apps", "rows"} => recs = <<>>
  /\ pc = "rows" => app \in Apps \ ahead /\ Worthwhile(app)
  /\ pc # "rows" => app = NoApp
  /\ pc \in {"sort", "advised"} => ahead = {}
  /\ pc = "advised" => plan = {}
  /\ pc \notin Building => plan = {} /\ recs = <<>>
  /\ pc \in Building => rows = <<>>

\* What has been taken is no smaller than what has not.
Downward ==
  /\ \A a \in Taken, b \in Apps \ Taken : a.size >= b.size
  /\ pc = "rows" => \A b \in ahead : app.size >= b.size

\* The advice for an app is the one that its newest row allows.
Evident ==
  \A r \in Given : r.action \in AppActions =>
    /\ r.action = "clean_app_sandbox" <=> NewestVended(r.bundle)
    /\ \E a \in Taken : a.bundle = r.bundle /\ a.size = r.bytes
    /\ r.rank = priorityForAppBytes(r.bytes)

\* sandboxCount and offloadCount count.
OfKind(x) == {r \in Given : r.action = x}

Counted == \A x \in AppActions :
  IsFiniteSet(OfKind(x)) /\ Cardinality(OfKind(x)) = count[x]

\* An app that went without advice came too late for the quota of its kind.
Passed ==
  pc \in Building => \A a \in Taken : Worthwhile(a) =>
    \/ \E r \in Given : r.action \in AppActions /\ r.bundle = a.bundle
    \/ /\ count[KindOf(a)] = topAppsByTotal
       /\ \A r \in OfKind(KindOf(a)) : r.bytes >= a.size

\* The rows of the app among the first n.
Its(n) == {i \in 1..n : in.rows[i].bundle = app.bundle}

\* isVendedInResults holds the newest of the rows that it has looked at.
Scanned ==
  pc = "rows" =>
    \/ Its(seen) = {} /\ best = NoRow
    \/ \E i \in Its(seen) :
         /\ best = [found |-> TRUE, vended |-> in.rows[i].outcome = "vended",
                    at |-> in.rows[i].at]
         /\ \A j \in Its(seen) : in.rows[j].at < in.rows[i].at
                                 \/ (in.rows[j].at = in.rows[i].at /\ i <= j)

\* The table so far holds all it should, largest first.
Meets(a) == ThirdParty(a) /\ a.size >= in.min

Tabled ==
  pc = "list" =>
    /\ \A i \in 1..Len(rows) : rows[i] \in Taken /\ Meets(rows[i])
    /\ \A i, j \in 1..Len(rows) : i < j =>
         rows[i] # rows[j] /\ rows[i].size >= rows[j].size
    /\ \A a \in Taken : Meets(a) => \E i \in 1..Len(rows) : rows[i] = a

AdviceIInv ==
  /\ AdviceTypeOK /\ Places /\ Downward /\ Evident /\ Counted /\ Passed
  /\ Scanned /\ Tabled /\ CandidatesComplete

\* What the snapshots are like.
LEMMA InputFacts ==
  ASSUME AdviceTypeOK
  PROVE  /\ Len(in.apps) \in Nat /\ Len(in.rows) \in Nat
         /\ \A a \in Apps : a.bundle \in Nat \ {0} /\ a.size \in Nat
         /\ \A a, b \in Apps : a.bundle = b.bundle => a = b
         /\ NoApp \notin Apps
         /\ \A i \in 1..Len(in.rows) : in.rows[i].at \in Int
         /\ in.crash \in Nat /\ in.limit \in Int /\ in.min \in Int
<1>1. in \in Inputs
  BY DEF AdviceTypeOK
<1>2. /\ in.apps \in Seq(App)
      /\ \A i, j \in 1..Len(in.apps) : in.apps[i].bundle = in.apps[j].bundle => i = j
      /\ in.rows \in Seq([bundle : Nat, outcome : STRING, at : Int])
      /\ in.crash \in Nat /\ in.limit \in Int /\ in.min \in Int
  BY <1>1, InputsAssumption
<1>3. Len(in.apps) \in Nat /\ Len(in.rows) \in Nat
  BY <1>2
<1>4. \A a \in Apps : a \in App
  BY <1>2 DEF Apps
<1>5. \A a \in App : a.bundle \in Nat \ {0} /\ a.size \in Nat
  BY DEF App
<1>6. \A a, b \in Apps : a.bundle = b.bundle => a = b
  BY <1>2 DEF Apps
<1>7. NoApp \notin Apps
  BY <1>4, <1>5 DEF NoApp
<1>8. \A i \in 1..Len(in.rows) : in.rows[i].at \in Int
  <2>1. \A r \in [bundle : Nat, outcome : STRING, at : Int] : r.at \in Int
    OBVIOUS
  <2>2. \A S : in.rows \in Seq(S) => \A i \in 1..Len(in.rows) : in.rows[i] \in S
    OBVIOUS
  <2>3. QED
    BY <1>2, <2>1, <2>2
<1>9. QED
  BY <1>2, <1>3, <1>4, <1>5, <1>6, <1>7, <1>8

LEMMA InitAdvice == AdviceInit => AdviceIInv
<1> SUFFICES ASSUME AdviceInit PROVE AdviceIInv
  OBVIOUS
<1>1. AdviceTypeOK
  <2>1. in \in Inputs
    BY DEF AdviceInit
  <2>2. in.rows \in Seq([bundle : Nat, outcome : STRING, at : Int])
    BY <2>1, InputsAssumption
  <2>3. Len(in.rows) \in Nat
    BY <2>2
  <2>4. NoRow \in [found : BOOLEAN, vended : BOOLEAN, at : Int]
    BY DEF NoRow
  <2>5. count \in [AppActions -> 0..topAppsByTotal]
    BY DEF AdviceInit, topAppsByTotal
  <2>6. QED
    BY <2>1, <2>3, <2>4, <2>5 DEF AdviceInit, AdviceTypeOK
<1>2. NoApp \notin Apps
  BY <1>1, InputFacts
<1>3. Taken = {} /\ Given = {} /\ Apps \ Taken = Apps
  BY <1>2 DEF AdviceInit, Taken, Given, Advised
<1>4. Places
  BY DEF AdviceInit, Places, Building
<1>5. Downward /\ Evident /\ Passed
  BY <1>3 DEF Downward, Evident, Passed, AdviceInit
<1>6. Counted
  <2> SUFFICES ASSUME NEW x \in AppActions
               PROVE  IsFiniteSet(OfKind(x)) /\ Cardinality(OfKind(x)) = count[x]
    BY DEF Counted
  <2>1. OfKind(x) = {} /\ count[x] = 0
    BY <1>3 DEF OfKind, AdviceInit
  <2>2. QED
    BY <2>1, FS_EmptySet
<1>7. Scanned /\ Tabled /\ CandidatesComplete
  BY DEF AdviceInit, Scanned, Tabled, CandidatesComplete
<1>8. QED
  BY <1>1, <1>4, <1>5, <1>6, <1>7 DEF AdviceIInv

\* A step that takes no app and gives no advice for one.
LEMMA AdviceKept ==
  ASSUME AdviceIInv, UNCHANGED <<in, count>>, Taken' = Taken,
         pc' \in Building => pc \in Building,
         \A r : r.action \in AppActions => (r \in Given' <=> r \in Given)
  PROVE  Evident' /\ Counted' /\ Passed'
<1>1. \A b : NewestVended(b)' <=> NewestVended(b)
  BY DEF NewestVended
<1>2. \A x \in AppActions : OfKind(x)' = OfKind(x)
  BY DEF OfKind
<1>3. Apps' = Apps /\ \A a : KindOf(a)' = KindOf(a) /\ (Worthwhile(a)' <=> Worthwhile(a))
  BY <1>1 DEF Apps, KindOf, Worthwhile, ThirdParty
<1>4. Evident'
  <2>1. \A r : r \in Given' /\ r.action \in AppActions => r \in Given
    OBVIOUS
  <2>2. QED
    BY <1>1, <2>1 DEF AdviceIInv, Evident
<1>5. Counted'
  BY <1>2 DEF AdviceIInv, Counted
<1>6. Passed'
  <2> SUFFICES ASSUME pc' \in Building, NEW a \in Taken, Worthwhile(a),
                      NEW x \in AppActions, x = KindOf(a)
               PROVE  \/ \E r \in Given' : r.action \in AppActions /\ r.bundle = a.bundle
                      \/ /\ count[x] = topAppsByTotal
                         /\ \A r \in OfKind(x)' : r.bytes >= a.size
    <3>1. \A a \in Taken : KindOf(a) \in AppActions
      BY DEF KindOf, AppActions
    <3>2. QED
      BY <1>3, <3>1 DEF Passed
  <2>1. \/ \E r \in Given : r.action \in AppActions /\ r.bundle = a.bundle
        \/ /\ count[x] = topAppsByTotal
           /\ \A r \in OfKind(x) : r.bytes >= a.size
    BY DEF AdviceIInv, Passed
  <2>3. CASE \E r \in Given : r.action \in AppActions /\ r.bundle = a.bundle
    BY <2>3
  <2>4. CASE count[x] = topAppsByTotal /\ \A r \in OfKind(x) : r.bytes >= a.size
    BY <1>2, <2>4
  <2>5. QED
    BY <2>1, <2>3, <2>4
<1>7. QED
  BY <1>4, <1>5, <1>6

\* The beginnings and ends of the two tools, up to the limit of the table.
LEMMA StepEnds ==
  ASSUME AdviceIInv, BuildBegins \/ AppsDone \/ BuildEnds \/ ListBegins
  PROVE  AdviceIInv'
<1>1. /\ UNCHANGED <<in, ahead, app, seen, best, count, recs, rows>>
      /\ pc \notin {"rows", "list", "listed"}
      /\ pc' \in {"apps", "sort", "advised", "list"}
      /\ pc' \in {"sort", "advised"} => ahead = {}
      /\ pc' = "apps" => pc = "in"
      /\ pc' = "list" => pc = "in" /\ plan' = plan
      /\ pc' = "advised" => plan' = {}
      /\ pc \in Building
  <2>1. CASE BuildBegins
    BY <2>1 DEF BuildBegins, scan, Building
  <2>2. CASE AppsDone
    BY <2>2 DEF AppsDone, scan, Building
  <2>3. CASE BuildEnds
    BY <2>3 DEF BuildEnds, scan, Building, AdviceIInv, Places
  <2>4. CASE ListBegins
    BY <2>4 DEF ListBegins, scan, Building
  <2>5. QED
    BY <2>1, <2>2, <2>3, <2>4
<1>2. plan' \subseteq Rec /\ \A r \in plan' : r \in plan \/ r.action \notin AppActions
  <2>1. CASE BuildBegins
    <3>1. in.crash \in Nat
      BY InputFacts DEF AdviceIInv
    <3>2. CrashPlan \subseteq Rec /\ \A r \in CrashPlan : r.action \notin AppActions
      BY <3>1 DEF CrashPlan, Rec, Actions, AppActions
    <3>3. QED
      BY <2>1, <3>2 DEF BuildBegins
  <2>2. CASE AppsDone
    <3> DEFINE g == [action |-> "review_unused_apps", bundle |-> 0, bytes |-> 0, rank |-> 2]
    <3>1. g \in Rec /\ g.action \notin AppActions
      BY DEF Rec, Actions, AppActions
    <3>2. plan' = plan \/ plan' = plan \union {g}
      BY <2>2 DEF AppsDone
    <3>3. plan \subseteq Rec
      BY DEF AdviceIInv, AdviceTypeOK
    <3>4. QED
      BY <3>1, <3>2, <3>3
  <2>3. CASE BuildEnds \/ ListBegins
    BY <2>3 DEF BuildEnds, ListBegins, AdviceIInv, AdviceTypeOK
  <2>4. QED
    BY <2>1, <2>2, <2>3
<1>3. plan \subseteq plan'
  BY DEF BuildBegins, AppsDone, BuildEnds, ListBegins, AdviceIInv, Places
<1>4. Apps' = Apps /\ Advised' = Advised /\ Taken' = Taken
  BY <1>1 DEF Apps, Advised, Taken
<1>5. AdviceTypeOK'
  <2>1. AdviceTypeOK
    BY DEF AdviceIInv
  <2>2. QED
    BY <1>1, <1>2, <1>4, <2>1 DEF AdviceTypeOK
<1>6. Places'
  BY <1>1, <1>4 DEF AdviceIInv, Places, Building
<1>7. Downward'
  BY <1>1, <1>4 DEF AdviceIInv, Downward
<1>8. Evident' /\ Counted' /\ Passed'
  <2>1. \A r : r.action \in AppActions => (r \in Given' <=> r \in Given)
    BY <1>2, <1>3, <1>4 DEF Given
  <2>2. QED
    BY <1>1, <1>4, <2>1, AdviceKept
<1>9. Scanned' /\ CandidatesComplete'
  BY <1>1 DEF Scanned, CandidatesComplete
<1>10. Tabled'
  <2> SUFFICES ASSUME pc' = "list" PROVE Tabled'
    BY DEF Tabled
  <2>1. rows' = <<>> /\ Taken' = {}
    BY <1>1, <1>4 DEF AdviceIInv, Places, Building, Taken
  <2>2. QED
    BY <2>1 DEF Tabled
<1>11. QED
  BY <1>5, <1>6, <1>7, <1>8, <1>9, <1>10 DEF AdviceIInv

\* The answer is put in order, one recommendation after the other.
LEMMA StepPlace ==
  ASSUME AdviceIInv, NEW r \in plan, Place(r)
  PROVE  AdviceIInv'
<1>1. /\ UNCHANGED <<in, pc, ahead, app, seen, best, count, rows>>
      /\ pc = "sort" /\ plan' = plan \ {r} /\ recs' = Append(recs, r)
  BY DEF Place, scan
<1>2. r \in Rec /\ recs \in Seq(Rec) /\ plan \subseteq Rec
  BY DEF AdviceIInv, AdviceTypeOK
<1>3. Apps' = Apps /\ Taken' = Taken
  BY <1>1 DEF Apps, Taken
<1>4. AdviceTypeOK'
  <2>1. AdviceTypeOK
    BY DEF AdviceIInv
  <2>2. QED
    BY <1>1, <1>2, <1>3, <2>1 DEF AdviceTypeOK
<1>5. Given' = Given
  <2>1. Advised' = Advised \union {r}
    <3>1. PICK n \in Nat : n = Len(recs)
      BY <1>2
    <3>2. /\ Len(recs') = n + 1 /\ recs'[n + 1] = r
          /\ \A i \in 1..n : recs'[i] = recs[i]
      BY <1>1, <1>2, <3>1
    <3>3. 1..(n + 1) = 1..n \union {n + 1}
      OBVIOUS
    <3>4. QED
      BY <3>1, <3>2, <3>3 DEF Advised
  <2>2. QED
    BY <1>1, <2>1 DEF Given
<1>6. Evident' /\ Counted' /\ Passed'
  BY <1>1, <1>3, <1>5, AdviceKept
<1>7. Places'
  BY <1>1, <1>3 DEF AdviceIInv, Places, Building
<1>8. Downward'
  BY <1>1, <1>3 DEF AdviceIInv, Downward
<1>9. Scanned' /\ Tabled' /\ CandidatesComplete'
  BY <1>1 DEF Scanned, Tabled, CandidatesComplete
<1>10. QED
  BY <1>4, <1>6, <1>7, <1>8, <1>9 DEF AdviceIInv

\* The loop comes to an app worth a look at its rows.
LEMMA StepTake ==
  ASSUME AdviceIInv, NEW a \in ahead, TakeApp(a)
  PROVE  AdviceIInv'
<1>1. /\ UNCHANGED <<in, count, plan, recs, rows>>
      /\ pc = "apps" /\ pc' = "rows" /\ ahead' = ahead \ {a}
      /\ app' = a /\ seen' = 0 /\ best' = NoRow
      /\ Turn(a) /\ Worthwhile(a)
  BY DEF TakeApp
<1>2. ahead \subseteq Apps /\ app = NoApp /\ NoApp \notin Apps
  BY <1>1, InputFacts DEF AdviceIInv, AdviceTypeOK, Places
<1>3. Apps' = Apps /\ Taken' = Taken /\ Given' = Given
  BY <1>1, <1>2 DEF Apps, Taken, Given, Advised
<1>4. AdviceTypeOK'
  <2>1. AdviceTypeOK /\ NoRow \in [found : BOOLEAN, vended : BOOLEAN, at : Int]
    BY DEF AdviceIInv, NoRow
  <2>2. 0 \in 0..Len(in.rows)
    BY <2>1, InputFacts
  <2>3. QED
    BY <1>1, <1>2, <1>3, <2>1, <2>2 DEF AdviceTypeOK
<1>5. Evident' /\ Counted' /\ Passed'
  BY <1>1, <1>3, AdviceKept DEF Building
<1>6. Places'
  BY <1>1, <1>2, <1>3 DEF AdviceIInv, Places, Building, Worthwhile, ThirdParty
<1>7. \A b \in ahead' : a.size >= b.size
  <2>1. \A b \in Apps : b.size \in Nat
    BY InputFacts DEF AdviceIInv
  <2>2. QED
    BY <1>1, <1>2, <2>1 DEF Turn, Before
<1>8. Downward'
  BY <1>1, <1>3, <1>7 DEF AdviceIInv, Downward
<1>9. Scanned'
  BY <1>1 DEF Scanned, Its
<1>10. Tabled' /\ CandidatesComplete'
  BY <1>1 DEF Tabled, CandidatesComplete
<1>11. QED
  BY <1>4, <1>5, <1>6, <1>8, <1>9, <1>10 DEF AdviceIInv

\* isVendedInResults looks at one row.
LEMMA StepReadRow ==
  ASSUME AdviceIInv, ReadRow
  PROVE  AdviceIInv'
<1> DEFINE n == seen + 1
           r == in.rows[n]
           new == [found |-> TRUE, vended |-> r.outcome = "vended", at |-> r.at]
<1>1. /\ UNCHANGED <<in, pc, ahead, app, count, plan, recs, rows>>
      /\ pc = "rows" /\ seen < Len(in.rows) /\ seen' = n
      /\ best' = IF r.bundle = app.bundle /\ Fresher(r) THEN new ELSE best
  BY DEF ReadRow
<1>2. /\ seen \in Nat /\ n \in 1..Len(in.rows) /\ r.at \in Int
      /\ \A i \in 1..Len(in.rows) : in.rows[i].at \in Int
  BY <1>1, InputFacts DEF AdviceIInv, AdviceTypeOK
<1>3. Apps' = Apps /\ Taken' = Taken /\ Given' = Given
  BY <1>1 DEF Apps, Taken, Given, Advised
<1>4. AdviceTypeOK'
  <2>1. AdviceTypeOK /\ new \in [found : BOOLEAN, vended : BOOLEAN, at : Int]
    BY <1>2 DEF AdviceIInv
  <2>2. n \in 0..Len(in.rows)
    BY <1>2
  <2>3. QED
    BY <1>1, <1>3, <2>1, <2>2 DEF AdviceTypeOK
<1>5. Evident' /\ Counted' /\ Passed'
  BY <1>1, <1>3, AdviceKept
<1>6. Places'
  BY <1>1, <1>3 DEF AdviceIInv, Places, Building, Worthwhile, ThirdParty
<1>7. Downward'
  BY <1>1, <1>3 DEF AdviceIInv, Downward
<1>8. /\ Its(seen)' = IF r.bundle = app.bundle THEN Its(seen) \union {n} ELSE Its(seen)
      /\ Its(seen) \subseteq 1..seen
  BY <1>1, <1>2 DEF Its
<1>9. \/ Its(seen) = {} /\ best = NoRow
      \/ \E i \in Its(seen) :
           /\ best = [found |-> TRUE, vended |-> in.rows[i].outcome = "vended",
                      at |-> in.rows[i].at]
           /\ \A j \in Its(seen) : in.rows[j].at < in.rows[i].at
                                   \/ (in.rows[j].at = in.rows[i].at /\ i <= j)
  BY <1>1 DEF AdviceIInv, Scanned
<1>10. ASSUME NEW i \in Its(seen)',
              best' = [found |-> TRUE, vended |-> in.rows[i].outcome = "vended",
                       at |-> in.rows[i].at],
              \A j \in Its(seen)' : in.rows[j].at < in.rows[i].at
                                    \/ (in.rows[j].at = in.rows[i].at /\ i <= j)
       PROVE  Scanned'
  BY <1>1, <1>10 DEF Scanned
<1>11. Scanned'
  <2>1. CASE r.bundle # app.bundle
    <3>1. Its(seen)' = Its(seen) /\ best' = best
      BY <1>1, <1>8, <2>1
    <3>2. QED
      BY <1>1, <1>9, <3>1 DEF Scanned
  <2>2. CASE r.bundle = app.bundle /\ Its(seen) = {}
    <3>1. best' = new /\ Its(seen)' = {n}
      BY <1>1, <1>8, <1>9, <2>2 DEF Fresher, NoRow
    <3>2. QED
      BY <1>2, <1>10, <3>1
  <2>3. CASE r.bundle = app.bundle /\ Its(seen) # {}
    <3>1. PICK i \in Its(seen) :
            /\ best = [found |-> TRUE, vended |-> in.rows[i].outcome = "vended",
                       at |-> in.rows[i].at]
            /\ \A j \in Its(seen) : in.rows[j].at < in.rows[i].at
                                    \/ (in.rows[j].at = in.rows[i].at /\ i <= j)
      BY <1>9, <2>3
    <3>2. Fresher(r) <=> r.at > in.rows[i].at
      BY <3>1 DEF Fresher
    <3>3. i \in 1..seen /\ i < n /\ in.rows[i].at \in Int
      BY <1>2, <1>8, <3>1
    <3>4. CASE Fresher(r)
      <4>1. best' = new /\ n \in Its(seen)'
        BY <1>1, <1>8, <2>3, <3>4
      <4>2. \A j \in Its(seen) : in.rows[j].at < r.at
        <5>1. \A j \in Its(seen) : j \in 1..Len(in.rows)
          BY <1>2, <1>8
        <5>2. ASSUME NEW j \in Its(seen), NEW x \in Int, NEW y \in Int, NEW z \in Int,
                     x = in.rows[j].at, y = in.rows[i].at, z = r.at
              PROVE  x < z
          <6>1. x < y \/ x = y
            BY <3>1, <5>2
          <6>2. z > y
            BY <3>2, <3>4, <5>2
          <6>3. QED
            BY <6>1, <6>2
        <5>3. QED
          BY <1>2, <3>3, <5>1, <5>2
      <4>3. QED
        BY <1>2, <1>8, <1>10, <4>1, <4>2
    <3>5. CASE ~Fresher(r)
      <4>1. best' = best /\ i \in Its(seen)'
        BY <1>1, <1>8, <3>1, <3>5
      <4>2. r.at < in.rows[i].at \/ (r.at = in.rows[i].at /\ i <= n)
        BY <1>2, <3>2, <3>3, <3>5
      <4>3. QED
        BY <1>8, <1>10, <3>1, <4>1, <4>2
    <3>6. QED
      BY <3>4, <3>5
  <2>4. QED
    BY <2>1, <2>2, <2>3
<1>12. Tabled' /\ CandidatesComplete'
  BY <1>1 DEF Tabled, CandidatesComplete
<1>13. QED
  BY <1>4, <1>5, <1>6, <1>7, <1>11, <1>12 DEF AdviceIInv

\* The loop is done with an app and says nothing of it.
LEMMA AppPassed ==
  ASSUME AdviceIInv, NEW a \in ahead, Turn(a), pc # "rows", ahead' = ahead \ {a},
         UNCHANGED <<in, pc, app, seen, best, count, plan, recs>>,
         ~(pc \in Building /\ Worthwhile(a))
  PROVE  /\ Taken' = Taken \union {a} /\ a \in Apps /\ a \notin Taken /\ Apps' = Apps
         /\ Downward' /\ Evident' /\ Counted' /\ Passed' /\ Scanned'
<1>1. a \in Apps /\ a # app /\ app = NoApp /\ NoApp \notin Apps /\ ahead \subseteq Apps
  BY InputFacts DEF AdviceIInv, AdviceTypeOK, Places
<1>2. Apps' = Apps /\ Given' = Given
  BY DEF Apps, Given, Advised
<1>3. Taken' = Taken \union {a} /\ a \notin Taken
  BY <1>1, <1>2 DEF Taken
<1>4. Downward'
  <2> SUFFICES ASSUME NEW t \in Taken \union {a}, NEW b \in Apps \ (Taken \union {a})
               PROVE  t.size >= b.size
    BY <1>2, <1>3 DEF Downward
  <2>1. CASE t \in Taken
    BY <2>1 DEF AdviceIInv, Downward
  <2>2. CASE t = a
    <3>1. b \in ahead \ {a}
      BY <1>1 DEF Taken
    <3>2. Before(a, b)
      BY <3>1 DEF Turn
    <3>3. a.size \in Nat /\ b.size \in Nat
      BY <1>1, InputFacts DEF AdviceIInv
    <3>4. QED
      BY <2>2, <3>2, <3>3 DEF Before
  <2>3. QED
    BY <2>1, <2>2
<1>5. /\ \A b : NewestVended(b)' <=> NewestVended(b)
      /\ \A x : OfKind(x)' = OfKind(x)
  BY <1>2 DEF NewestVended, OfKind
<1>6. Evident' /\ Counted'
  BY <1>2, <1>3, <1>5 DEF AdviceIInv, Evident, Counted
<1>7. Passed'
  <2> SUFFICES ASSUME pc \in Building, NEW b \in Taken, Worthwhile(b),
                      NEW x \in AppActions, x = KindOf(b)
               PROVE  \/ \E r \in Given' : r.action \in AppActions /\ r.bundle = b.bundle
                      \/ /\ count[x] = topAppsByTotal
                         /\ \A r \in OfKind(x)' : r.bytes >= b.size
    <3>1. \A b \in Taken' : /\ KindOf(b)' = KindOf(b) /\ KindOf(b) \in AppActions
                            /\ Worthwhile(b)' <=> Worthwhile(b)
      BY <1>5 DEF KindOf, AppActions, Worthwhile, ThirdParty
    <3>2. \A b \in Taken' : Worthwhile(b) /\ pc \in Building => b \in Taken
      BY <1>3
    <3>3. QED
      BY <3>1, <3>2 DEF Passed
  <2>1. QED
    BY <1>2, <1>5 DEF AdviceIInv, Passed
<1>8. QED
  BY <1>1, <1>2, <1>3, <1>4, <1>6, <1>7 DEF Scanned

\* The loop of the recommendations passes an app over.
LEMMA StepSkip ==
  ASSUME AdviceIInv, NEW a \in ahead, SkipApp(a)
  PROVE  AdviceIInv'
<1>1. /\ UNCHANGED <<in, pc, app, seen, best, count, plan, recs, rows>>
      /\ pc = "apps" /\ Turn(a) /\ ~Worthwhile(a) /\ ahead' = ahead \ {a}
  BY DEF SkipApp, scan
<1>2. /\ Apps' = Apps
      /\ Downward' /\ Evident' /\ Counted' /\ Passed' /\ Scanned'
  BY <1>1, AppPassed
<1>3. AdviceTypeOK'
  BY <1>1, <1>2 DEF AdviceIInv, AdviceTypeOK
<1>4. Places'
  BY <1>1, <1>2 DEF AdviceIInv, Places, Building
<1>5. Tabled' /\ CandidatesComplete'
  BY <1>1 DEF Tabled, CandidatesComplete
<1>6. QED
  BY <1>2, <1>3, <1>4, <1>5 DEF AdviceIInv

\* The loop of the table comes to an app.
LEMMA StepList ==
  ASSUME AdviceIInv, NEW a \in ahead, ListApp(a)
  PROVE  AdviceIInv'
<1>1. /\ UNCHANGED <<in, pc, app, seen, best, count, plan, recs>>
      /\ pc = "list" /\ Turn(a) /\ ahead' = ahead \ {a}
      /\ rows' = IF Meets(a) THEN Append(rows, a) ELSE rows
  BY DEF ListApp, scan, Meets
<1>2. /\ Taken' = Taken \union {a} /\ a \in Apps /\ a \notin Taken /\ Apps' = Apps
      /\ Downward' /\ Evident' /\ Counted' /\ Passed' /\ Scanned'
  BY <1>1, AppPassed DEF Building
<1>3. rows \in Seq(Apps)
  BY DEF AdviceIInv, AdviceTypeOK
<1>4. AdviceTypeOK'
  BY <1>1, <1>2, <1>3 DEF AdviceIInv, AdviceTypeOK
<1>5. Places'
  BY <1>1, <1>2 DEF AdviceIInv, Places, Building
<1>6. PICK n \in Nat : n = Len(rows)
  BY <1>3
<1>7. /\ \A i \in 1..n : rows[i] \in Taken /\ Meets(rows[i])
      /\ \A i, j \in 1..n : i < j => rows[i] # rows[j] /\ rows[i].size >= rows[j].size
      /\ \A b \in Taken : Meets(b) => \E i \in 1..n : rows[i] = b
  BY <1>1, <1>6 DEF AdviceIInv, Tabled
<1>8. \A b : Meets(b)' <=> Meets(b)
  BY <1>1 DEF Meets, ThirdParty
<1>9. Tabled'
  <2>1. CASE ~Meets(a)
    <3>1. rows' = rows /\ \A b \in Taken' : Meets(b) => b \in Taken
      BY <1>1, <1>2, <2>1
    <3>2. /\ \A i \in 1..n : rows[i] \in Taken'
          /\ \A b \in Taken' : Meets(b)' => \E i \in 1..n : rows[i] = b
      BY <1>2, <1>7, <1>8, <3>1
    <3>3. (\A i \in 1..Len(rows) : Meets(rows[i]))'
      BY <1>1, <1>6, <1>7, <3>1 DEF Meets, ThirdParty
    <3>4. QED
      BY <1>6, <1>7, <3>1, <3>2, <3>3 DEF Tabled
  <2>2. CASE Meets(a)
    <3>1. /\ Len(rows') = n + 1 /\ rows'[n + 1] = a
          /\ \A i \in 1..n : rows'[i] = rows[i]
      BY <1>1, <1>2, <1>3, <1>6, <2>2
    <3>2. \A i \in 1..n : rows[i].size >= a.size
      BY <1>2, <1>7 DEF AdviceIInv, Downward
    <3>3. \A i \in 1..Len(rows') : rows'[i] \in Taken' /\ Meets(rows'[i])
      BY <1>2, <1>7, <2>2, <3>1
    <3>4. \A i, j \in 1..Len(rows') : i < j =>
            rows'[i] # rows'[j] /\ rows'[i].size >= rows'[j].size
      <4> SUFFICES ASSUME NEW i \in 1..(n + 1), NEW j \in 1..(n + 1), i < j
                   PROVE  rows'[i] # rows'[j] /\ rows'[i].size >= rows'[j].size
        BY <3>1
      <4>1. CASE j = n + 1
        <5>1. i \in 1..n /\ rows'[i] = rows[i] /\ rows'[j] = a
          BY <3>1, <4>1
        <5>2. QED
          BY <1>2, <1>7, <3>2, <5>1
      <4>2. CASE j \in 1..n
        BY <1>7, <3>1, <4>2
      <4>3. QED
        BY <4>1, <4>2
    <3>5. \A b \in Taken' : Meets(b) => \E i \in 1..Len(rows') : rows'[i] = b
      <4> SUFFICES ASSUME NEW b \in Taken', Meets(b)
                   PROVE  \E i \in 1..(n + 1) : rows'[i] = b
        BY <3>1
      <4>1. CASE b = a
        BY <3>1, <4>1
      <4>2. CASE b \in Taken
        <5>1. PICK i \in 1..n : rows[i] = b
          BY <1>7, <4>2
        <5>2. i \in 1..(n + 1) /\ rows'[i] = b
          BY <3>1, <5>1
        <5>3. QED
          BY <5>2
      <4>3. QED
        BY <1>2, <4>1, <4>2
    <3>6. (\A i \in 1..Len(rows) : Meets(rows[i]))'
      BY <1>1, <3>3 DEF Meets, ThirdParty
    <3>7. QED
      BY <1>8, <3>3, <3>4, <3>5, <3>6 DEF Tabled
  <2>3. QED
    BY <2>1, <2>2
<1>10. CandidatesComplete'
  BY <1>1 DEF CandidatesComplete
<1>11. QED
  BY <1>2, <1>4, <1>5, <1>9, <1>10 DEF AdviceIInv

\* The limit cuts off the smallest rows.
LEMMA StepLimit ==
  ASSUME AdviceIInv, Limit
  PROVE  AdviceIInv'
<1>1. /\ UNCHANGED <<in, ahead, app, seen, best, count, plan, recs>>
      /\ pc = "list" /\ pc' = "listed" /\ ahead = {}
      /\ rows' = IF in.limit <= 0 \/ in.limit >= Len(rows) THEN rows
                 ELSE SubSeq(rows, 1, in.limit)
  BY DEF Limit, scan
<1>2. Apps' = Apps /\ Taken' = Taken /\ Given' = Given /\ Taken = Apps
  BY <1>1, InputFacts DEF Apps, Taken, Given, Advised, AdviceIInv, Places
<1>3. rows \in Seq(Apps) /\ in.limit \in Int
  BY InputFacts DEF AdviceIInv, AdviceTypeOK
<1>4. PICK n \in Nat : n = Len(rows)
  BY <1>3
<1>5. PICK m \in 0..n :
        /\ Len(rows') = m /\ rows' \in Seq(Apps)
        /\ \A i \in 1..m : rows'[i] = rows[i]
        /\ m < n => in.limit > 0 /\ m = in.limit
  <2>1. CASE in.limit <= 0 \/ in.limit >= n
    <3>1. n \in 0..n /\ rows' = rows
      BY <1>1, <1>4, <2>1
    <3>2. QED
      BY <1>3, <1>4, <3>1
  <2>2. CASE ~(in.limit <= 0 \/ in.limit >= n)
    <3>1. in.limit \in 0..n /\ in.limit \in 1..n /\ rows' = SubSeq(rows, 1, in.limit)
      BY <1>1, <1>3, <1>4, <2>2
    <3>2. /\ Len(rows') = in.limit /\ rows' \in Seq(Apps)
          /\ \A i \in 1..in.limit : rows'[i] = rows[i]
      BY <1>3, <1>4, <3>1
    <3>3. QED
      BY <3>1, <3>2
  <2>3. QED
    BY <2>1, <2>2
<1>6. AdviceTypeOK'
  BY <1>1, <1>2, <1>5 DEF AdviceIInv, AdviceTypeOK
<1>7. Evident' /\ Counted' /\ Passed'
  BY <1>1, <1>2, AdviceKept DEF Building
<1>8. Places' /\ Downward' /\ Scanned' /\ Tabled'
  BY <1>1, <1>2 DEF AdviceIInv, Places, Building, Downward, Scanned, Tabled
<1>9. /\ \A i \in 1..n : Meets(rows[i])
      /\ \A i, j \in 1..n : i < j => rows[i] # rows[j] /\ rows[i].size >= rows[j].size
      /\ \A b \in Apps : Meets(b) => \E i \in 1..n : rows[i] = b
  BY <1>1, <1>2, <1>4 DEF AdviceIInv, Tabled
<1>10. CandidatesComplete'
  <2> DEFINE stay == {rows'[i] : i \in 1..Len(rows')}
             left == {a \in Apps : ThirdParty(a) /\ a.size >= in.min} \ stay
  <2>1. ASSUME NEW a \in left PROVE \E i \in 1..n : i > m /\ rows[i] = a
    <3>1. PICK i \in 1..n : rows[i] = a
      BY <1>9, <2>1 DEF Meets
    <3>2. i \notin 1..m
      BY <1>5, <2>1, <3>1
    <3>3. QED
      BY <3>1, <3>2
  <2>2. left # {} => in.limit > 0 /\ Len(rows') = in.limit
    BY <1>5, <2>1
  <2>3. ASSUME NEW a \in left, NEW i \in 1..Len(rows') PROVE a.size <= rows'[i].size
    <3>1. PICK j \in 1..n : j > m /\ rows[j] = a
      BY <2>1, <2>3
    <3>2. i \in 1..n /\ i < j /\ rows'[i] = rows[i]
      BY <1>5, <2>3, <3>1
    <3>3. rows[i] \in Apps /\ rows[j] \in Apps
      BY <1>3, <1>4, <3>1, <3>2
    <3>4. rows[i].size >= rows[j].size
      BY <1>9, <3>1, <3>2
    <3>5. rows[i].size \in Nat /\ rows[j].size \in Nat
      BY <3>3, InputFacts DEF AdviceIInv
    <3>6. QED
      BY <3>1, <3>2, <3>4, <3>5
  <2>4. left = {a \in Apps' : ThirdParty(a)' /\ a.size >= in'.min} \ stay
    BY <1>1, <1>2 DEF ThirdParty
  <2>5. \A i \in 1..Len(rows') : rows'[i].bundle \notin Apple /\ rows'[i].size >= in.min
    BY <1>5, <1>9 DEF Meets, ThirdParty
  <2>6. \A i, j \in 1..Len(rows') : i < j =>
          rows'[i] # rows'[j] /\ rows'[i].size >= rows'[j].size
    BY <1>5, <1>9
  <2> HIDE DEF left, stay
  <2>7. (\A i \in 1..Len(rows) : ThirdParty(rows[i]) /\ rows[i].size >= in.min)'
    BY <1>1, <2>5 DEF ThirdParty
  <2>8. QED
    BY <1>1, <2>2, <2>3, <2>4, <2>6, <2>7 DEF CandidatesComplete, stay
<1>11. QED
  BY <1>6, <1>7, <1>8, <1>10 DEF AdviceIInv

\* isVendedInResults has looked at every row.
LEMMA ScanSays ==
  ASSUME AdviceIInv, pc = "rows", seen = Len(in.rows)
  PROVE  best.vended <=> NewestVended(app.bundle)
<1> DEFINE L == Len(in.rows)
           b == app.bundle
<1>1. L \in Nat /\ \A i \in 1..L : in.rows[i].at \in Int
  BY InputFacts DEF AdviceIInv
<1>2. NewestVended(b) <=>
        \E i \in Its(L) : /\ in.rows[i].outcome = "vended"
                          /\ \A j \in Its(L) : in.rows[j].at < in.rows[i].at
                                               \/ (in.rows[j].at = in.rows[i].at /\ i <= j)
  BY DEF NewestVended, Its
<1>3. CASE Its(L) = {} /\ best = NoRow
  BY <1>2, <1>3 DEF NoRow
<1>4. ASSUME NEW i \in Its(L),
             best = [found |-> TRUE, vended |-> in.rows[i].outcome = "vended",
                     at |-> in.rows[i].at],
             \A j \in Its(L) : in.rows[j].at < in.rows[i].at
                               \/ (in.rows[j].at = in.rows[i].at /\ i <= j)
      PROVE  best.vended <=> NewestVended(b)
  <2>1. best.vended <=> in.rows[i].outcome = "vended"
    BY <1>4
  <2>2. Its(L) \subseteq 1..L
    BY DEF Its
  <2>3. ASSUME NEW h \in Its(L),
               \A j \in Its(L) : in.rows[j].at < in.rows[h].at
                                 \/ (in.rows[j].at = in.rows[h].at /\ h <= j)
        PROVE  h = i
    <3>1. h \in 1..L /\ i \in 1..L /\ in.rows[h].at \in Int /\ in.rows[i].at \in Int
      BY <1>1, <1>4, <2>2, <2>3
    <3>2. in.rows[h].at < in.rows[i].at \/ (in.rows[h].at = in.rows[i].at /\ i <= h)
      BY <1>4, <2>3
    <3>3. in.rows[i].at < in.rows[h].at \/ (in.rows[i].at = in.rows[h].at /\ h <= i)
      BY <1>4, <2>3
    <3>4. QED
      BY <3>1, <3>2, <3>3
  <2>4. QED
    BY <1>2, <1>4, <2>1, <2>3
<1>5. QED
  BY <1>3, <1>4 DEF AdviceIInv, Scanned

\* The app of the round gets its advice, or its kind has no room left.
LEMMA StepAdvise ==
  ASSUME AdviceIInv, AdviseApp
  PROVE  AdviceIInv'
<1>1. /\ UNCHANGED <<in, ahead, recs, rows>>
      /\ pc = "rows" /\ pc' = "apps" /\ seen = Len(in.rows)
      /\ app' = NoApp /\ seen' = 0 /\ best' = NoRow
  BY DEF AdviseApp
<1>2. /\ app \in Apps \ ahead /\ Worthwhile(app) /\ recs = <<>> /\ rows = <<>>
      /\ NoApp \notin Apps /\ ahead \subseteq Apps
  BY <1>1, InputFacts DEF AdviceIInv, AdviceTypeOK, Places, Building
<1>3. app.bundle \in Nat \ {0} /\ app.size \in Nat
  BY <1>2, InputFacts DEF AdviceIInv
<1>4. PICK x \in AppActions : x = KindOf(app)
  BY DEF KindOf, AppActions
<1>5. PICK r \in Rec :
        r = [action |-> x, bundle |-> app.bundle, bytes |-> app.size,
             rank |-> priorityForAppBytes(app.size)]
  <2>1. priorityForAppBytes(app.size) \in 1..3 /\ x \in Actions
    BY <1>4 DEF priorityForAppBytes, Actions
  <2>2. [action |-> x, bundle |-> app.bundle, bytes |-> app.size,
         rank |-> priorityForAppBytes(app.size)] \in Rec
    BY <1>3, <2>1 DEF Rec
  <2>3. QED
    BY <2>2
<1>6. /\ r.action = x /\ r.bundle = app.bundle /\ r.bytes = app.size
      /\ r.rank = priorityForAppBytes(app.size)
  BY <1>5
<1>7. x = IF best.vended THEN "clean_app_sandbox" ELSE "offload_app"
  BY <1>1, <1>4, ScanSays DEF KindOf
<1>8. IF count[x] < topAppsByTotal
        THEN plan' = plan \union {r} /\ count' = [count EXCEPT ![x] = @ + 1]
        ELSE plan' = plan /\ count' = count
  BY <1>5, <1>7 DEF AdviseApp, HasRoom
<1>9. /\ count \in [AppActions -> 0..topAppsByTotal]
      /\ count[x] \in 0..topAppsByTotal
  BY <1>4 DEF AdviceIInv, AdviceTypeOK
<1>10. Apps' = Apps /\ Advised' = Advised
  BY <1>1 DEF Apps, Advised
<1>11. Taken' = Taken \union {app} /\ app \notin Taken
  BY <1>1, <1>2, <1>10 DEF Taken
<1>12. Given' = IF count[x] < topAppsByTotal THEN Given \union {r} ELSE Given
  BY <1>8, <1>10 DEF Given
<1>13. r \notin Given
  <2> SUFFICES ASSUME r \in Given PROVE FALSE
    OBVIOUS
  <2>1. PICK a \in Taken : a.bundle = app.bundle
    BY <1>4, <1>6 DEF AdviceIInv, Evident
  <2>2. a = app
    BY <1>2, <2>1, InputFacts DEF AdviceIInv, Taken
  <2>3. QED
    BY <1>11, <2>1, <2>2
<1>14. \A b : NewestVended(b)' <=> NewestVended(b)
  BY <1>1 DEF NewestVended
<1>15. AdviceTypeOK'
  <2>1. count' \in [AppActions -> 0..topAppsByTotal]
    <3>1. CASE count[x] < topAppsByTotal
      <4>1. count[x] + 1 \in 0..topAppsByTotal
        BY <1>9, <3>1 DEF topAppsByTotal
      <4>2. QED
        BY <1>4, <1>8, <1>9, <3>1, <4>1
    <3>2. CASE ~(count[x] < topAppsByTotal)
      BY <1>8, <1>9, <3>2
    <3>3. QED
      BY <3>1, <3>2
  <2>2. plan' \subseteq Rec
    BY <1>8 DEF AdviceIInv, AdviceTypeOK
  <2>3. NoRow \in [found : BOOLEAN, vended : BOOLEAN, at : Int] /\ 0 \in 0..Len(in.rows)
    BY InputFacts DEF AdviceIInv, NoRow
  <2>4. QED
    BY <1>1, <1>10, <2>1, <2>2, <2>3 DEF AdviceIInv, AdviceTypeOK
<1>16. Places'
  BY <1>1, <1>2 DEF Places, Building
<1>17. Downward'
  <2>1. \A t \in Taken', b \in Apps \ Taken' : t.size >= b.size
    <3> SUFFICES ASSUME NEW t \in Taken \union {app}, NEW b \in Apps \ (Taken \union {app})
                 PROVE  t.size >= b.size
      BY <1>11
    <3>1. b \in ahead
      BY <1>2 DEF Taken
    <3>2. QED
      BY <1>1, <3>1 DEF AdviceIInv, Downward
  <2>2. QED
    BY <1>1, <1>10, <2>1 DEF Downward
<1>18. Evident'
  <2> SUFFICES ASSUME NEW s \in Given', s.action \in AppActions
               PROVE  /\ s.action = "clean_app_sandbox" <=> NewestVended(s.bundle)
                      /\ \E a \in Taken' : a.bundle = s.bundle /\ a.size = s.bytes
                      /\ s.rank = priorityForAppBytes(s.bytes)
    BY <1>14 DEF Evident, priorityForAppBytes
  <2>1. CASE s \in Given
    BY <1>11, <2>1 DEF AdviceIInv, Evident
  <2>2. CASE s = r
    BY <1>4, <1>6, <1>11, <2>2 DEF KindOf
  <2>3. QED
    BY <1>12, <2>1, <2>2
<1>19. \A y \in AppActions :
         OfKind(y)' = IF y = x /\ count[x] < topAppsByTotal THEN OfKind(y) \union {r}
                      ELSE OfKind(y)
  BY <1>6, <1>12 DEF OfKind
<1>20. Counted'
  <2> SUFFICES ASSUME NEW y \in AppActions
               PROVE  IsFiniteSet(OfKind(y)') /\ Cardinality(OfKind(y)') = count'[y]
    BY DEF Counted
  <2>1. IsFiniteSet(OfKind(y)) /\ Cardinality(OfKind(y)) = count[y]
    BY DEF AdviceIInv, Counted
  <2>2. CASE y = x /\ count[x] < topAppsByTotal
    <3>1. OfKind(y)' = OfKind(y) \union {r} /\ r \notin OfKind(y) /\ count'[y] = count[y] + 1
      BY <1>4, <1>8, <1>9, <1>13, <1>19, <2>2 DEF OfKind
    <3>2. QED
      BY <2>1, <3>1, FS_AddElement
  <2>3. CASE ~(y = x /\ count[x] < topAppsByTotal)
    <3>1. OfKind(y)' = OfKind(y) /\ count'[y] = count[y]
      BY <1>4, <1>8, <1>9, <1>19, <2>3
    <3>2. QED
      BY <2>1, <3>1
  <2>4. QED
    BY <2>2, <2>3
<1>21. Passed'
  <2> SUFFICES ASSUME NEW a \in Taken', Worthwhile(a), NEW y \in AppActions, y = KindOf(a)
               PROVE  \/ \E s \in Given' : s.action \in AppActions /\ s.bundle = a.bundle
                      \/ /\ count'[y] = topAppsByTotal
                         /\ \A s \in OfKind(y)' : s.bytes >= a.size
    <3>1. \A a \in Taken' : /\ KindOf(a)' = KindOf(a) /\ KindOf(a) \in AppActions
                            /\ Worthwhile(a)' <=> Worthwhile(a)
      BY <1>14 DEF KindOf, AppActions, Worthwhile, ThirdParty
    <3>2. QED
      BY <3>1 DEF Passed
  <2>1. CASE a \in Taken /\ \E s \in Given : s.action \in AppActions /\ s.bundle = a.bundle
    BY <1>12, <2>1
  <2>2. CASE /\ a \in Taken /\ count[y] = topAppsByTotal
             /\ \A s \in OfKind(y) : s.bytes >= a.size
    <3>1. OfKind(y)' = OfKind(y) /\ count'[y] = count[y]
      BY <1>4, <1>8, <1>9, <1>19, <2>2 DEF topAppsByTotal
    <3>2. QED
      BY <2>2, <3>1
  <2>3. CASE a = app /\ count[x] < topAppsByTotal
    <3>1. r \in Given' /\ r.action \in AppActions
      BY <1>4, <1>6, <1>12, <2>3
    <3>2. QED
      BY <1>6, <2>3, <3>1
  <2>4. CASE a = app /\ ~(count[x] < topAppsByTotal)
    <3>1. y = x /\ count'[y] = topAppsByTotal /\ OfKind(y)' = OfKind(y)
      BY <1>4, <1>8, <1>9, <1>19, <2>4 DEF topAppsByTotal
    <3>2. ASSUME NEW s \in OfKind(y) PROVE s.bytes >= a.size
      <4>1. PICK t \in Taken : t.size = s.bytes
        BY <3>2 DEF AdviceIInv, Evident, OfKind
      <4>2. app \in Apps \ Taken
        BY <1>2, <1>11
      <4>3. QED
        BY <2>4, <4>1, <4>2 DEF AdviceIInv, Downward
    <3>3. QED
      BY <3>1, <3>2
  <2>5. a \in Taken => \/ \E s \in Given : s.action \in AppActions /\ s.bundle = a.bundle
                       \/ count[y] = topAppsByTotal /\ \A s \in OfKind(y) : s.bytes >= a.size
    BY <1>1 DEF AdviceIInv, Passed, Building
  <2>6. QED
    BY <1>11, <2>1, <2>2, <2>3, <2>4, <2>5
<1>22. Scanned' /\ Tabled' /\ CandidatesComplete'
  BY <1>1 DEF Scanned, Tabled, CandidatesComplete
<1>23. QED
  BY <1>15, <1>16, <1>17, <1>18, <1>20, <1>21, <1>22 DEF AdviceIInv

LEMMA AdviceInvariant == AdviceSpec => []AdviceIInv
<1>1. ASSUME AdviceIInv, UNCHANGED adviceVars PROVE AdviceIInv'
  <2>1. UNCHANGED <<in, pc, ahead, app, seen, best, count, plan, recs, rows>>
    BY <1>1 DEF adviceVars
  <2>2. Apps' = Apps /\ Taken' = Taken /\ Given' = Given
    BY <2>1 DEF Apps, Taken, Given, Advised
  <2>3. Evident' /\ Counted' /\ Passed'
    BY <1>1, <2>1, <2>2, AdviceKept
  <2>4. AdviceTypeOK' /\ Places' /\ Downward'
    BY <1>1, <2>1, <2>2 DEF AdviceIInv, AdviceTypeOK, Places, Downward, Worthwhile, ThirdParty
  <2>5. Scanned' /\ Tabled'
    BY <1>1, <2>1, <2>2 DEF AdviceIInv, Scanned, Its, Tabled, Meets, ThirdParty
  <2>6. CandidatesComplete'
    BY <1>1, <2>1, <2>2 DEF AdviceIInv, CandidatesComplete, ThirdParty
  <2>7. QED
    BY <2>3, <2>4, <2>5, <2>6 DEF AdviceIInv
<1>2. AdviceIInv /\ [AdviceNext]_adviceVars => AdviceIInv'
  BY <1>1, StepEnds, StepReadRow, StepAdvise, StepLimit, StepSkip, StepTake, StepList,
     StepPlace DEF AdviceNext, Answered
<1>3. QED
  BY <1>2, InitAdvice, PTL DEF AdviceSpec

\* The loops of Build and of apps_offload_candidates keep their types: the
\* counts stay within topAppsByTotal, and the table holds apps of the phone.
THEOREM AdviceTypeCorrect == AdviceSpec => []AdviceTypeOK
<1>1. AdviceIInv => AdviceTypeOK
  BY DEF AdviceIInv
<1>2. QED
  BY <1>1, AdviceInvariant, PTL

\* For every list of apps and of rows, in whatever order and with whatever
\* duplicates: Build advises apps_clean exactly where the newest row of the app
\* says vended (isVendedInResults, recommendations.go:219-241).
THEOREM AlwaysActionByEvidence == AdviceSpec => []ActionByEvidence
<1>1. AdviceIInv => ActionByEvidence
  <2> SUFFICES ASSUME AdviceIInv, NEW r \in Advised, r.action \in AppActions
               PROVE  (r.action = "clean_app_sandbox") = NewestVended(r.bundle)
    BY DEF ActionByEvidence
  <2>1. (r.action = "clean_app_sandbox") <=> NewestVended(r.bundle)
    BY DEF AdviceIInv, Evident, Given
  <2>2. NewestVended(r.bundle) \in BOOLEAN
    BY DEF NewestVended
  <2>3. QED
    BY <2>1, <2>2
<1>2. QED
  BY <1>1, AdviceInvariant, PTL

\* Once the loop is done, a device that is low on space has some advice: for a
\* large app, for another one, or the general one.
SomeAdvice ==
  pc \in {"sort", "advised"} /\ in.total > 0 /\ Label = "low" => Given # {}

\* A large app has its advice, or stands behind a quota full of others.
LEMMA LargeHasAdvice ==
  ASSUME AdviceIInv, pc = "apps", ahead = {}, hasLargeApp
  PROVE  Given # {}
<1>1. PICK a \in Apps : ThirdParty(a) /\ a.size >= largeAppThreshold
  BY DEF hasLargeApp
<1>2. a \in Taken /\ Worthwhile(a)
  <2>1. app = NoApp /\ NoApp \notin Apps /\ a.size \in Nat
    BY InputFacts DEF AdviceIInv, Places
  <2>2. QED
    BY <1>1, <2>1 DEF Taken, Worthwhile, largeAppThreshold, perAppRecThreshold
<1>3. PICK x \in AppActions : x = KindOf(a)
  BY DEF KindOf, AppActions
<1>4. Given # {} \/ count[x] = topAppsByTotal
  BY <1>2, <1>3 DEF AdviceIInv, Passed, Building
<1>5. ASSUME Given = {} PROVE count[x] = 0
  <2>1. OfKind(x) = {}
    BY <1>5 DEF OfKind
  <2>2. QED
    BY <2>1, FS_EmptySet DEF AdviceIInv, Counted
<1>6. QED
  BY <1>4, <1>5 DEF topAppsByTotal

LEMMA StepSomeAdvice ==
  ASSUME AdviceIInv, SomeAdvice, [AdviceNext]_adviceVars
  PROVE  SomeAdvice'
<1> SUFFICES ASSUME pc' \in {"sort", "advised"}, in'.total > 0, Label' = "low"
             PROVE  Given' # {}
  BY DEF SomeAdvice
<1>1. CASE AppsDone
  <2>1. plan \subseteq plan' /\ Advised' = Advised /\ Label = "low" /\ in.total > 0
        /\ pc = "apps" /\ ahead = {}
    BY <1>1 DEF AppsDone, Advised, Label
  <2>2. CASE hasLargeApp
    BY <2>1, <2>2, LargeHasAdvice DEF Given
  <2>3. CASE hasPerAppRec
    BY <2>1, <2>3 DEF Given, hasPerAppRec
  <2>4. CASE ~hasLargeApp /\ ~hasPerAppRec
    BY <1>1, <2>1, <2>4 DEF AppsDone, Given
  <2>5. QED
    BY <2>2, <2>3, <2>4
<1>2. CASE pc \in {"sort", "advised"}
  <2>1. CASE \E r \in plan : Place(r)
    <3>1. PICK r \in plan : Place(r)
      BY <2>1
    <3>2. recs \in Seq(Rec) /\ r \in Rec /\ recs' = Append(recs, r)
      BY <3>1 DEF Place, AdviceIInv, AdviceTypeOK
    <3>3. recs'[Len(recs')] = r /\ Len(recs') \in 1..Len(recs')
      BY <3>2
    <3>4. QED
      BY <3>3 DEF Given, Advised
  <2>2. CASE BuildEnds \/ Answered \/ UNCHANGED adviceVars
    <3>1. UNCHANGED <<plan, recs, in>>
      BY <2>2 DEF BuildEnds, Answered, adviceVars
    <3>2. Given' = Given /\ Label' = Label
      BY <3>1 DEF Given, Advised, Label
    <3>3. QED
      BY <1>2, <3>1, <3>2 DEF SomeAdvice
  <2>3. QED
    BY <1>2, <2>1, <2>2
    DEF AdviceNext, BuildBegins, ReadRow, AdviseApp, AppsDone, ListBegins, Limit,
        SkipApp, TakeApp, ListApp
<1>3. CASE pc \notin {"sort", "advised"} /\ ~AppsDone
  BY <1>3 DEF AdviceNext, adviceVars, BuildBegins, ReadRow, AdviseApp, BuildEnds, ListBegins,
              Limit, SkipApp, TakeApp, ListApp, Place, Answered
<1>4. QED
  BY <1>1, <1>2, <1>3

\* The quotas of Build hide an app only behind topAppsByTotal others of its own
\* kind that are no smaller (recommendations.go:307-356), and with the general
\* advice of lines 358-384 a full device never gets an empty plan.
THEOREM NothingBigEverHidden == AdviceSpec => []NothingBigHidden
<1>1. ASSUME AdviceIInv, pc = "advised", NEW a \in Targets, ForApp(a.bundle) = {}
      PROVE  LET kind == {r \in Advised : r.action \in AppActions
                                          /\ NewestVended(r.bundle) = NewestVended(a.bundle)}
             IN Cardinality(kind) = topAppsByTotal /\ \A r \in kind : r.bytes >= a.size
  <2> DEFINE kind == {r \in Advised : r.action \in AppActions
                                      /\ NewestVended(r.bundle) = NewestVended(a.bundle)}
  <2>1. Given = Advised /\ a \in Taken /\ Worthwhile(a)
    <3>1. plan = {} /\ ahead = {} /\ app = NoApp /\ NoApp \notin Apps
      BY <1>1, InputFacts DEF AdviceIInv, Places
    <3>2. QED
      BY <1>1, <3>1 DEF Given, Taken, Targets
  <2>2. PICK x \in AppActions : x = KindOf(a)
    BY DEF KindOf, AppActions
  <2>3. kind = OfKind(x)
    <3>1. ASSUME NEW r \in Given
          PROVE  (r.action \in AppActions /\ NewestVended(r.bundle) = NewestVended(a.bundle))
                   <=> r.action = x
      <4>1. r.action \in AppActions => (r.action = "clean_app_sandbox" <=> NewestVended(r.bundle))
        BY <1>1, <3>1 DEF AdviceIInv, Evident
      <4>2. NewestVended(r.bundle) \in BOOLEAN /\ NewestVended(a.bundle) \in BOOLEAN
        BY DEF NewestVended
      <4>3. x = "clean_app_sandbox" <=> NewestVended(a.bundle)
        BY <2>2 DEF KindOf
      <4>4. QED
        BY <2>2, <4>1, <4>2, <4>3 DEF AppActions
    <3>2. QED
      BY <2>1, <3>1 DEF OfKind
  <2>4. ~ \E r \in Given : r.action \in AppActions /\ r.bundle = a.bundle
    BY <1>1, <2>1 DEF ForApp
  <2>5. count[x] = topAppsByTotal /\ \A r \in OfKind(x) : r.bytes >= a.size
    BY <1>1, <2>1, <2>2, <2>4 DEF AdviceIInv, Passed, Building
  <2>6. Cardinality(OfKind(x)) = count[x]
    BY <1>1, <2>2 DEF AdviceIInv, Counted
  <2>7. QED
    BY <2>3, <2>5, <2>6
<1>2. AdviceIInv /\ SomeAdvice => NothingBigHidden
  <2>1. AdviceIInv /\ pc = "advised" => Given = Advised
    BY DEF AdviceIInv, Places, Given
  <2>2. QED
    BY <1>1, <2>1 DEF NothingBigHidden, SomeAdvice
<1>3. AdviceInit => SomeAdvice
  BY DEF AdviceInit, SomeAdvice
<1>4. QED
  BY <1>2, <1>3, AdviceInvariant, StepSomeAdvice, PTL DEF AdviceSpec

\* apps_offload_candidates leaves out of its table only what min_bytes and the
\* limit leave out, and the limit only what is smallest (tools.go:536-585).
THEOREM CandidatesAlwaysComplete == AdviceSpec => []CandidatesComplete
<1>1. AdviceIInv => CandidatesComplete
  BY DEF AdviceIInv
<1>2. QED
  BY <1>1, AdviceInvariant, PTL

-------------------------------------------------------------------------------
(* The answer is a function of the snapshot *)

\* What a strict order of a finite set has first.
LEMMA FirstOf ==
  ASSUME NEW S, IsFiniteSet(S), S # {}, NEW R,
         \A x, y \in S : x # y => <<x, y>> \in R \/ <<y, x>> \in R,
         \A x, y, z \in S : <<x, y>> \in R /\ <<y, z>> \in R => <<x, z>> \in R
  PROVE  \E x \in S : \A y \in S \ {x} : <<x, y>> \in R
<1> DEFINE Has(U) == \E x \in U : \A y \in U \ {x} : <<x, y>> \in R
           Bad == {U \in SUBSET S : U # {} /\ ~Has(U)}
<1>1. Bad \subseteq FiniteSubsetsOf(S)
  BY FS_Subset DEF FiniteSubsetsOf
<1>2. Bad = {}
  <2> SUFFICES ASSUME Bad # {} PROVE FALSE
    OBVIOUS
  <2>1. PICK U \in Bad : \A V \in Bad : ~(<<V, U>> \in StrictSubsetOrdering(S))
    <3> HIDE DEF Bad
    <3>1. IsWellFoundedOn(StrictSubsetOrdering(S), FiniteSubsetsOf(S))
      BY FS_StrictSubsetOrderingWellFounded
    <3>2. QED
      BY <1>1, <3>1, WFMin, Zenon
  <2>2. PICK x \in U : TRUE
    OBVIOUS
  <2>3. U \ {x} # {}
    <3> SUFFICES ASSUME U \ {x} = {} PROVE FALSE
      OBVIOUS
    <3>1. \A y \in U \ {x} : <<x, y>> \in R
      OBVIOUS
    <3>2. QED
      BY <2>2, <3>1
  <2>4. <<U \ {x}, U>> \in StrictSubsetOrdering(S)
    BY <2>2 DEF StrictSubsetOrdering
  <2>5. PICK t \in U \ {x} : \A y \in (U \ {x}) \ {t} : <<t, y>> \in R
    BY <2>1, <2>3, <2>4
  <2>6. CASE <<t, x>> \in R
    BY <2>5, <2>6
  <2>7. CASE <<x, t>> \in R
    <3>1. \A y \in U \ {x} : <<x, y>> \in R
      BY <2>2, <2>5, <2>7
    <3>2. QED
      BY <2>2, <3>1
  <2>8. QED
    BY <2>2, <2>5, <2>6, <2>7
<1>3. QED
  BY <1>2

\* The advice that is not for an app.
Plain ==
  /\ IsFiniteSet(plan)
  /\ \A r \in Given : r.action \notin AppActions =>
       /\ r.bundle = 0
       /\ r.action = "clean_crashlogs" => r.bytes = in.crash /\ r.rank = 3
       /\ r.action = "review_unused_apps" => r.bytes = 0 /\ r.rank = 2

\* It stays so at every step; a plan is finite because it grows by one.
LEMMA StepPlain ==
  ASSUME AdviceIInv, Plain, [AdviceNext]_adviceVars
  PROVE  Plain'
<1> USE DEF AppActions
<1>1. CASE BuildBegins
  <2>1. in' = in /\ recs' = <<>> /\ plan' = CrashPlan
    BY <1>1 DEF BuildBegins, AdviceIInv, Places
  <2>2. IsFiniteSet(CrashPlan)
    BY FS_EmptySet, FS_Singleton DEF CrashPlan
  <2>3. Given' = CrashPlan
    BY <2>1 DEF Given, Advised
  <2>4. QED
    BY <2>1, <2>2, <2>3 DEF Plain, CrashPlan
<1>2. CASE AppsDone
  <2> DEFINE g == [action |-> "review_unused_apps", bundle |-> 0, bytes |-> 0, rank |-> 2]
  <2>1. in' = in /\ recs' = recs /\ (plan' = plan \/ plan' = plan \union {g})
    BY <1>2 DEF AppsDone
  <2>2. IsFiniteSet(plan')
    BY <2>1, FS_AddElement DEF Plain
  <2>3. Given' = Given \/ Given' = Given \union {g}
    BY <2>1 DEF Given, Advised
  <2>4. QED
    BY <2>1, <2>2, <2>3 DEF Plain
<1>3. CASE AdviseApp
  <2> DEFINE x == IF best.vended THEN "clean_app_sandbox" ELSE "offload_app"
             g == [action |-> x, bundle |-> app.bundle, bytes |-> app.size,
                   rank |-> priorityForAppBytes(app.size)]
  <2>1. g.action \in AppActions
    OBVIOUS
  <2>2. in' = in /\ recs' = recs /\ (plan' = plan \/ plan' = plan \union {g})
    BY <1>3 DEF AdviseApp
  <2> HIDE DEF g
  <2>3. IsFiniteSet(plan')
    BY <2>2, FS_AddElement DEF Plain
  <2>4. Given' = Given \/ Given' = Given \union {g}
    BY <2>2 DEF Given, Advised
  <2>5. QED
    BY <2>1, <2>2, <2>3, <2>4 DEF Plain
<1>4. ASSUME NEW r \in plan, Place(r) PROVE Plain'
  <2>1. in' = in /\ plan' = plan \ {r} /\ recs' = Append(recs, r) /\ recs \in Seq(Rec)
    BY <1>4 DEF Place, AdviceIInv, AdviceTypeOK
  <2>2. IsFiniteSet(plan')
    BY <2>1, FS_Subset DEF Plain
  <2>3. r \in Rec
    BY <1>4 DEF AdviceIInv, AdviceTypeOK
  <2>4. \A i \in 1..Len(recs') : recs'[i] = r \/ (i \in 1..Len(recs) /\ recs'[i] = recs[i])
    BY <2>1, <2>3
  <2>5. \A s \in Given' : s \in Given
    BY <1>4, <2>1, <2>4 DEF Given, Advised
  <2>6. QED
    BY <2>1, <2>2, <2>5 DEF Plain
<1>5. CASE UNCHANGED <<in, plan, recs>>
  <2>1. Given' = Given
    BY <1>5 DEF Given, Advised
  <2>2. QED
    BY <1>5, <2>1 DEF Plain
<1>6. ASSUME NEW a \in ahead, SkipApp(a) \/ TakeApp(a) \/ ListApp(a) PROVE Plain'
  BY <1>5, <1>6 DEF SkipApp, TakeApp, ListApp
<1>7. ASSUME ReadRow \/ BuildEnds \/ ListBegins \/ Limit \/ Answered PROVE Plain'
  BY <1>5, <1>7 DEF ReadRow, BuildEnds, ListBegins, Limit, Answered, adviceVars
<1>8. CASE UNCHANGED adviceVars
  BY <1>5, <1>8 DEF adviceVars
<1>9. QED
  BY <1>1, <1>2, <1>3, <1>4, <1>6, <1>7, <1>8 DEF AdviceNext

\* Each loop has one element to go on with.
OneWayOn ==
  /\ ahead # {} => \E a \in ahead : \A b \in ahead : Turn(b) <=> b = a
  /\ plan # {} => \E r \in plan : \A s \in plan :
                    (\A t \in plan \ {s} : Sooner(s, t)) <=> s = r

\* Size and bundle ID put the apps in one order, for a phone has one app of a
\* bundle ID, so that one of those ahead comes before all others.
LEMMA OneApp ==
  ASSUME AdviceIInv, ahead # {}
  PROVE  \E a \in ahead : \A b \in ahead : Turn(b) <=> b = a
<1> DEFINE R == {w \in ahead \X ahead : Before(w[1], w[2])}
<1>1. ahead \subseteq Apps /\ \A a \in ahead : a.bundle \in Nat /\ a.size \in Nat
  BY InputFacts DEF AdviceIInv, AdviceTypeOK
<1>2. \A a, b \in ahead : a # b => a.bundle # b.bundle
  BY <1>1, InputFacts DEF AdviceIInv
<1>3. \A a, b \in ahead : <<a, b>> \in R <=> Before(a, b)
  OBVIOUS
<1>4. IsFiniteSet(ahead)
  <2>1. PICK n \in Nat : n = Len(in.apps)
    BY InputFacts DEF AdviceIInv
  <2>2. IsFiniteSet(1..n)
    BY <2>1, FS_Interval
  <2>3. Apps = {in.apps[i] : i \in 1..n}
    BY <2>1 DEF Apps
  <2>4. IsFiniteSet({in.apps[i] : i \in 1..n})
    <3> DEFINE f == [i \in 1..n |-> in.apps[i]]
    <3>1. f \in Surjection(1..n, {in.apps[i] : i \in 1..n})
      BY DEF Surjection
    <3>2. QED
      BY <2>2, <3>1, FS_Surjection
  <2>5. QED
    BY <1>1, <2>3, <2>4, FS_Subset
<1>5. \A a, b \in ahead : a # b => Before(a, b) \/ Before(b, a)
  BY <1>1, <1>2 DEF Before
<1>6. \A a, b, c \in ahead : Before(a, b) /\ Before(b, c) => Before(a, c)
  BY <1>1 DEF Before
<1>7. PICK a \in ahead : \A b \in ahead \ {a} : <<a, b>> \in R
  <2> HIDE DEF R
  <2>1. \A x, y \in ahead : x # y => <<x, y>> \in R \/ <<y, x>> \in R
    BY <1>3, <1>5
  <2>2. \A x, y, z \in ahead : <<x, y>> \in R /\ <<y, z>> \in R => <<x, z>> \in R
    BY <1>3, <1>6
  <2>3. QED
    BY <1>4, <2>1, <2>2, FirstOf
<1>8. \A b \in ahead \ {a} : ~Before(b, a)
  <2>1. \A b \in ahead \ {a} : Before(a, b)
    <3> HIDE DEF R
    <3>1. QED
      BY <1>3, <1>7
  <2>2. QED
    BY <1>1, <2>1 DEF Before
<1>9. QED
  BY <1>3, <1>7, <1>8 DEF Turn

\* Rank, bytes and bundle ID tell recommendations apart: one app has one
\* advice, and the two that are for no app differ in rank.
LEMMA OneRec ==
  ASSUME AdviceIInv, Plain, plan # {}
  PROVE  \E r \in plan : \A s \in plan : (\A t \in plan \ {s} : Sooner(s, t)) <=> s = r
<1> DEFINE R == {w \in plan \X plan : Sooner(w[1], w[2])}
<1>1. /\ plan \subseteq Given
      /\ \A r \in plan : /\ r \in Rec /\ r.action \in Actions /\ r.bundle \in Nat
                         /\ r.bytes \in Nat /\ r.rank \in 1..3
  BY DEF AdviceIInv, AdviceTypeOK, Given, Rec
<1>2. ASSUME NEW r \in plan, NEW s \in plan,
             r.rank = s.rank, r.bytes = s.bytes, r.bundle = s.bundle
      PROVE  r = s
  <2>1. \A x \in plan : x.action \in AppActions =>
          x.bundle # 0 /\ (x.action = "clean_app_sandbox" <=> NewestVended(x.bundle))
    <3> SUFFICES ASSUME NEW x \in plan, x.action \in AppActions
                 PROVE  x.bundle # 0
                        /\ (x.action = "clean_app_sandbox" <=> NewestVended(x.bundle))
      OBVIOUS
    <3>1. PICK a \in Taken : a.bundle = x.bundle
      BY <1>1 DEF AdviceIInv, Evident
    <3>2. a.bundle # 0
      BY InputFacts DEF AdviceIInv, Taken
    <3>3. x.action = "clean_app_sandbox" <=> NewestVended(x.bundle)
      BY <1>1 DEF AdviceIInv, Evident
    <3>4. QED
      BY <3>1, <3>2, <3>3
  <2>2. \A x \in plan : x.action \notin AppActions =>
          /\ x.bundle = 0
          /\ x.action = "clean_crashlogs" => x.rank = 3
          /\ x.action = "review_unused_apps" => x.rank = 2
    BY <1>1 DEF Plain
  <2>3. r.action = s.action
    BY <1>1, <1>2, <2>1, <2>2 DEF Actions, AppActions
  <2>4. QED
    BY <1>1, <1>2, <2>3 DEF Rec
<1>3. \A r, s \in plan : <<r, s>> \in R <=> Sooner(r, s)
  OBVIOUS
<1>4. \A r, s \in plan : r # s => Sooner(r, s) \/ Sooner(s, r)
  BY <1>1, <1>2 DEF Sooner
<1>5. \A r, s, t \in plan : Sooner(r, s) /\ Sooner(s, t) => Sooner(r, t)
  BY <1>1 DEF Sooner
<1>6. PICK r \in plan : \A s \in plan \ {r} : <<r, s>> \in R
  <2> HIDE DEF R
  <2>1. \A x, y \in plan : x # y => <<x, y>> \in R \/ <<y, x>> \in R
    BY <1>3, <1>4
  <2>2. \A x, y, z \in plan : <<x, y>> \in R /\ <<y, z>> \in R => <<x, z>> \in R
    BY <1>3, <1>5
  <2>3. QED
    BY <2>1, <2>2, FirstOf DEF Plain
<1>7. \A s \in plan \ {r} : ~Sooner(s, r)
  <2>1. \A s \in plan \ {r} : Sooner(r, s)
    <3> HIDE DEF R
    <3>1. QED
      BY <1>3, <1>6
  <2>2. QED
    BY <1>1, <2>1 DEF Sooner
<1>8. QED
  BY <1>3, <1>6, <1>7

\* "Deterministic: same inputs -> same output" (recommendations.go:251):
\* both sorts put any two elements in one order, so that each round of a loop
\* has one element to go on with and never none, and the answer is a function
\* of the snapshot.
THEOREM AdviceDetermined == AdviceSpec => []OneWayOn
<1>1. AdviceInit => Plain
  <2> SUFFICES ASSUME AdviceInit PROVE Plain
    OBVIOUS
  <2>1. plan = {} /\ Given = {}
    BY DEF AdviceInit, Given, Advised
  <2>2. QED
    BY <2>1, FS_EmptySet DEF Plain
<1>2. AdviceIInv /\ Plain /\ [AdviceNext]_adviceVars => Plain'
  BY StepPlain
<1>3. AdviceIInv /\ Plain => OneWayOn
  BY OneApp, OneRec DEF OneWayOn
<1>4. QED
  BY <1>1, <1>2, <1>3, AdviceInvariant, PTL DEF AdviceSpec
===============================================================================
