---------------------------- MODULE SandboxCleaner ----------------------------
(***************************************************************************)
(* The sandbox cleaner (internal/sandbox/cleaner.go) at work on one app    *)
(* container through the AFC adapter (internal/iosbackend/sandbox.go):     *)
(* a plan per target, the caller's decision, then Execute per target.      *)
(* The app may be running: it creates and deletes files between any two    *)
(* requests.  Requests fail, the caller's context may be cancelled.        *)
(***************************************************************************)
EXTENDS Integers, FiniteSets

CONSTANTS
  Files,      \* paths of the files the container may hold
  Kids,       \* paths of the immediate children of the target directories
  Area,       \* Area[f]: the directory that f is in, a target or "other"
  Kid,        \* Kid[f]: the immediate child of Area[f] that f is or is under
  MaxAppOps,  \* bound on what the running app does
  NoOp

Targets == {"tmp", "caches", "docs"}
Areas == Targets \union {"other"}

ASSUME TreeAssumption ==
  /\ Area \in [Files -> Areas] /\ Kid \in [Files -> Kids]
  /\ \A f, g \in Files : Kid[f] = Kid[g] => Area[f] = Area[g]
  /\ Files \intersect Kids = {}
  /\ Areas \intersect (Files \union Kids) = {}
  /\ NoOp \notin Files \union Kids \union Areas
ASSUME MaxAppOpsAssumption == MaxAppOps \in Nat

VARIABLES
  tree,       \* files and target directories that exist in the container
  selected,   \* targets of this run
  phase,      \* place in the caller's run
  pending,    \* targets not yet walked, then targets not yet executed
  unvisited,  \* paths of the current target that the walk has still to visit
  plan,       \* plan[t]: the files that BuildPlan found in target t
  listed,     \* listed[t]: what Execute goes through, anything until it has listed t
  todo,       \* members of listed still to be removed
  op,         \* the removal request in flight
  credited,   \* planned files that the result counts as removed
  failures,   \* paths that the result reports as failures
  cancelled,  \* the caller's context is done
  appOps      \* creations and deletions by the app so far

vars == <<tree, selected, phase, pending, unvisited, plan, listed, todo, op,
          credited, failures, cancelled, appOps>>
planVars == <<selected, unvisited, plan>>
resultVars == <<credited, failures>>
envVars == <<cancelled, appOps>>

TypeOK ==
  /\ tree \in SUBSET (Files \union Areas)
  /\ selected \in SUBSET Targets /\ pending \in SUBSET selected
  /\ phase \in {"idle", "walk", "planned", "exec", "remove", "done", "aborted"}
  /\ unvisited \in SUBSET Files
  /\ plan \in [Targets -> SUBSET Files]
  /\ listed \in [Targets -> SUBSET (Files \union Kids)]
  /\ todo \in SUBSET (Files \union Kids)
  /\ op \in Files \union Kids \union {NoOp}
  /\ credited \in SUBSET Files
  /\ failures \in SUBSET (Files \union Kids \union Targets)
  /\ cancelled \in BOOLEAN /\ appOps \in 0..MaxAppOps

Init ==
  /\ \E S \in SUBSET Files : tree = S \union Areas
  /\ selected = {} /\ pending = {} /\ unvisited = {}
  /\ phase = "idle"
  /\ plan = [t \in Targets |-> {}] /\ listed = [t \in Targets |-> Files \union Kids]
  /\ todo = {} /\ op = NoOp
  /\ credited = {} /\ failures = {}
  /\ cancelled = FALSE /\ appOps = 0

\* Both callers go through tmp, Library/Caches and Documents in this order.
Rank == [t \in Targets |-> CASE t = "tmp" -> 1 [] t = "caches" -> 2
                             [] t = "docs" -> 3]
First(S) == CHOOSE t \in S : \A u \in S : Rank[t] <= Rank[u]
Current == First(pending)

In(t) == {f \in Files : Area[f] = t}

Under(x) ==
  IF x \in Kids THEN {f \in Files : Kid[f] = x}
  ELSE IF x \in Areas THEN {x} \union In(x)
  ELSE {x}

-------------------------------------------------------------------------------
(* BuildPlan *)

\* The sandbox is open: walk the selected targets one after the other.
Start(S) ==
  /\ phase = "idle" /\ S # {}
  /\ phase' = "walk"
  /\ selected' = S /\ pending' = S /\ unvisited' = In(First(S))
  /\ UNCHANGED <<tree, plan, listed, todo, op, resultVars, envVars>>

\* The walk visits one path: a file that is there now joins the plan.
WalkVisit(f) ==
  /\ phase = "walk" /\ ~cancelled /\ f \in unvisited
  /\ plan' = [plan EXCEPT ![Current] = @ \union ({f} \intersect tree)]
  /\ unvisited' = unvisited \ {f}
  /\ UNCHANGED <<tree, selected, phase, pending, listed, todo, op, resultVars, envVars>>

WalkDone ==
  /\ phase = "walk" /\ unvisited = {}
  /\ LET rest == pending \ {Current} IN
       IF rest = {}
         THEN phase' = "planned" /\ pending' = selected /\ UNCHANGED unvisited
         ELSE pending' = rest /\ unvisited' = In(First(rest)) /\ UNCHANGED phase
  /\ UNCHANGED <<tree, selected, plan, listed, todo, op, resultVars, envVars>>

\* Any error while walking any target, a done context included, ends the run.
WalkFails ==
  /\ phase = "walk"
  /\ phase' = "aborted"
  /\ UNCHANGED <<tree, planVars, pending, listed, todo, op, resultVars, envVars>>

-------------------------------------------------------------------------------
(* The caller's decision *)

Proceed ==
  /\ phase = "planned"
  /\ phase' = "exec"
  /\ UNCHANGED <<tree, planVars, pending, listed, todo, op, resultVars, envVars>>

Decline ==
  /\ phase = "planned"
  /\ phase' = "aborted"
  /\ UNCHANGED <<tree, planVars, pending, listed, todo, op, resultVars, envVars>>

-------------------------------------------------------------------------------
(* Execute *)

\* Mutation: Documents is emptied child by child like the other targets.
DocsByChildMut(t) ==
  SUBSET {Kid[f] : f \in tree \intersect In(t)}

\* Documents goes file by file through the plan, the others through whatever
\* children List returns now; afcFS.List leaves out a child it cannot Stat.
Candidates(t) ==
  IF t = "docs" THEN {plan[t]}
  ELSE SUBSET {Kid[f] : f \in tree \intersect In(t)}

NextTarget ==
  IF pending = {Current}
    THEN phase' = "done" /\ pending' = {}
    ELSE phase' = "exec" /\ pending' = pending \ {Current}

BeginTarget ==
  /\ phase = "exec"
  /\ cancelled => Current = "docs"
  /\ \E S \in Candidates(Current) :
       listed' = [listed EXCEPT ![Current] = S] /\ todo' = S
  /\ phase' = "remove"
  /\ UNCHANGED <<tree, planVars, pending, op, resultVars, envVars>>

\* List failed: one failure against the target, nothing attempted in it.
ListFails ==
  /\ phase = "exec" /\ Current # "docs"
  /\ failures' = failures \union {Current}
  /\ NextTarget
  /\ UNCHANGED <<tree, planVars, listed, todo, op, credited, envVars>>

\* Remove or RemoveAll has looked at the context and sent its request.
BeginOp(x) ==
  /\ phase = "remove" /\ op = NoOp /\ x \in todo /\ ~cancelled
  /\ op' = x /\ todo' = todo \ {x}
  /\ UNCHANGED <<tree, planVars, phase, pending, listed, resultVars, envVars>>

\* A done context turns every remaining removal into a failure.
RefuseOp(x) ==
  /\ phase = "remove" /\ op = NoOp /\ x \in todo /\ cancelled
  /\ todo' = todo \ {x} /\ failures' = failures \union {x}
  /\ UNCHANGED <<tree, planVars, phase, pending, listed, op, credited, envVars>>

\* Mutation: a failed removal is counted like a successful one.
CreditAlwaysMut ==
  /\ op # NoOp
  /\ \E X \in SUBSET (Under(op) \intersect tree) : tree' = tree \ X
  /\ credited' = credited \union (plan[Current] \intersect Under(op))
  /\ op' = NoOp
  /\ UNCHANGED <<planVars, phase, pending, listed, todo, failures, envVars>>

\* The planned files below the path are credited, whoever deleted them.
OpSucceeds ==
  /\ op # NoOp /\ (op \in Files => op \in tree)
  /\ tree' = tree \ Under(op)
  /\ credited' = credited \union (plan[Current] \intersect Under(op))
  /\ op' = NoOp
  /\ UNCHANGED <<planVars, phase, pending, listed, todo, failures, envVars>>

\* Mutation: a removal that failed is tried again and again.
RetryMut ==
  /\ op # NoOp
  /\ todo' = todo \union {op} /\ op' = NoOp
  /\ UNCHANGED <<tree, planVars, phase, pending, listed, resultVars, envVars>>

\* Mutation: the first failure ends the target.
StopAtFailureMut ==
  /\ op # NoOp
  /\ failures' = failures \union {op}
  /\ todo' = {} /\ op' = NoOp
  /\ UNCHANGED <<tree, planVars, phase, pending, listed, credited, envVars>>

\* The request failed: some of what is below the path may be gone already.
OpFails ==
  /\ op # NoOp
  /\ \E X \in SUBSET (Under(op) \intersect tree) : tree' = tree \ X
  /\ failures' = failures \union {op}
  /\ op' = NoOp
  /\ UNCHANGED <<planVars, phase, pending, listed, todo, credited, envVars>>

EndTarget ==
  /\ phase = "remove" /\ op = NoOp /\ todo = {}
  /\ NextTarget
  /\ UNCHANGED <<tree, planVars, listed, todo, op, resultVars, envVars>>

-------------------------------------------------------------------------------
(* The app and the user *)

AppStep(f) ==
  /\ appOps < MaxAppOps
  /\ appOps' = appOps + 1
  /\ tree' \in {tree \union {f}, tree \ {f}} \ {tree}
  /\ UNCHANGED <<planVars, phase, pending, listed, todo, op, resultVars, cancelled>>

Cancel ==
  /\ ~cancelled
  /\ cancelled' = TRUE
  /\ UNCHANGED <<tree, planVars, phase, pending, listed, todo, op, resultVars, appOps>>

Walk == (\E f \in Files : WalkVisit(f)) \/ WalkDone \/ WalkFails

Execute ==
  \/ BeginTarget \/ ListFails
  \/ \E x \in Files \union Kids : BeginOp(x) \/ RefuseOp(x)
  \/ OpSucceeds \/ OpFails
  \/ EndTarget

Environment == (\E f \in Files : AppStep(f)) \/ Cancel

Next ==
  \/ \E S \in SUBSET Targets : Start(S)
  \/ Walk \/ Proceed \/ Decline \/ Execute \/ Environment

\* The caller's goroutine runs, and each AFC request is answered or fails.
Fairness == WF_vars(Walk) /\ WF_vars(Execute)

Spec == Init /\ [][Next]_vars /\ Fairness

-------------------------------------------------------------------------------
(* Properties *)

Planned == UNION {plan[t] : t \in Targets}

\* Files of a plan that a reported failure covers.
FailedFiles == Planned \intersect UNION {Under(x) : x \in failures}

\* Whatever disappears was deleted by the app, or by Execute inside a selected
\* target; a Documents file only if it was in the plan; and no target
\* directory ever disappears (cleaner.go:67-74).
DeletionsAuthorised ==
  [][\A f \in tree \ tree' :
       \/ appOps' # appOps
       \/ /\ phase = "remove" /\ f \in Files /\ Area[f] \in selected
          /\ Area[f] = "docs" => f \in plan["docs"]]_vars

\* A file is counted as removed only when it is gone, and only if planned.
CreditTruthful ==
  [][credited' \ credited \subseteq Planned \ tree']_vars

\* No planned file is both counted as removed and covered by a failure.
SettledOnce == credited \intersect FailedFiles = {}

\* When Execute returns, every planned file it had to remove has been counted
\* or reported, and none both, also after failures and cancellation: only a
\* file whose top-level child List no longer returned drops out of the account.
AllAccounted ==
  phase = "done" =>
    /\ SettledOnce
    /\ \A f \in Planned \ (credited \union FailedFiles) :
         Area[f] # "docs" /\ Kid[f] \notin listed[Area[f]]

\* Once the context is done no further removal request is sent; the one in
\* flight is the last that can still take effect.
CancelStopsRemovals == [][cancelled /\ op = NoOp => op' = NoOp]_vars

\* A failed walk of one target prevents deletion in all of them: Execute runs
\* on complete plans only, each planned file belonging to the plan's target.
PlansComplete ==
  phase \in {"planned", "exec", "remove", "done"} =>
    /\ unvisited = {}
    /\ \A t \in Targets, f \in Files : f \in plan[t] => Area[f] = t /\ t \in selected

\* Execute returns, whatever fails and whatever the app does meanwhile.
ExecuteEnds == phase = "exec" ~> phase = "done"

\* "skip entries that disappeared between List and Stat" (sandbox.go:124-126):
\* with no app running, a run without failures leaves no planned file behind.
QuietRunLeavesNothing ==
  phase = "done" /\ failures = {} /\ appOps = 0 => Planned \intersect tree = {}
===============================================================================
