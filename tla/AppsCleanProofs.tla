---------------------------- MODULE AppsCleanProofs ----------------------------
(***************************************************************************)
(* For every container, request and cached document: a call deletes only   *)
(* what its contract allows, whatever the app, the user and the signal do. *)
(* The cleaner's own invariant is taken from SandboxCleanerProofs; the one *)
(* added here ties the place of the call to the phase of the cleaner, to   *)
(* the session, and to what was checked on the way there.                  *)
(***************************************************************************)
EXTENDS AppsClean, TLAPS

CP == INSTANCE SandboxCleanerProofs

\* The instance of the cleaner's proofs is about the same container.
LEMMA Container ==
  /\ Area \in [Files -> CP!Areas] /\ Kid \in [Files -> Kids]
  /\ \A f, g \in Files : Kid[f] = Kid[g] => Area[f] = Area[g]
  /\ Files \intersect Kids = {}
  /\ CP!Areas \intersect (Files \union Kids) = {}
  /\ NoOp \notin Files \union Kids \union CP!Areas
  /\ MaxAppOps \in Nat
  BY ContainerAssumption DEF CP!Areas, C!Areas, CP!Targets, C!Targets

\* The same steps, by the names of the proofs' instance.
LEMMA SameSteps == [C!Next]_(C!vars) => [CP!Next]_(CP!vars)
  BY DEF C!Next, CP!Next, C!vars, CP!vars, C!Start, CP!Start, C!Walk, CP!Walk,
         C!WalkVisit, CP!WalkVisit, C!WalkDone, CP!WalkDone, C!WalkFails, CP!WalkFails,
         C!Proceed, CP!Proceed, C!Decline, CP!Decline, C!Execute, CP!Execute,
         C!BeginTarget, CP!BeginTarget, C!ListFails, CP!ListFails, C!BeginOp, CP!BeginOp,
         C!RefuseOp, CP!RefuseOp, C!OpSucceeds, CP!OpSucceeds, C!OpFails, CP!OpFails,
         C!EndTarget, CP!EndTarget, C!Environment, CP!Environment, C!AppStep, CP!AppStep,
         C!Cancel, CP!Cancel, C!Targets, CP!Targets, C!planVars, CP!planVars,
         C!resultVars, CP!resultVars, C!envVars, CP!envVars, C!First, CP!First,
         C!Rank, CP!Rank, C!Current, CP!Current, C!In, CP!In, C!Under, CP!Under,
         C!Areas, CP!Areas, C!Candidates, CP!Candidates, C!NextTarget, CP!NextTarget

\* A step of the call is one of its cleaner, or leaves the cleaner alone.
LEMMA StepIsCleaners ==
  ASSUME req \in Requests, [Next]_vars
  PROVE  [C!Next]_(C!vars)
<1>1. Environment \/ BuildPlans \/ Execute => C!Next
  BY DEF Environment, BuildPlans, Execute, C!Next
<1>2. Include \in SUBSET C!Targets
  BY InputAssumption DEF Include, C!Targets
<1>3. OpenSandbox => [C!Next]_(C!vars)
  BY <1>2 DEF OpenSandbox, C!Next, C!vars, cleanerVars
<1>4. Decide \/ Answer \/ PromptError \/ PromptCancelled => [C!Next]_(C!vars)
  BY DEF Decide, Answer, PromptError, PromptCancelled, C!Next, C!vars, cleanerVars
<1>5. CheckArgs \/ Resolve \/ LoadCache \/ ProbeGate \/ PlanFailed \/ Report
        => UNCHANGED C!vars
  BY DEF CheckArgs, Resolve, LoadCache, ProbeGate, PlanFailed, Report, C!vars, cleanerVars
<1>6. QED
  BY <1>1, <1>3, <1>4, <1>5 DEF Next, Program, vars, cleanerVars, C!vars

\* What the cleaner's operations do to the place of its run and to its failures.
LEMMA CleanerSteps ==
  ASSUME CP!IInv
  PROVE  /\ \A S : C!Start(S) => phase = "idle" /\ phase' = "walk" /\ failures' = failures
         /\ C!Walk => /\ phase = "walk" /\ phase' \in {"walk", "planned", "aborted"}
                      /\ failures' = failures
         /\ C!Proceed => phase = "planned" /\ phase' = "exec" /\ failures' = failures
         /\ C!Decline => phase = "planned" /\ phase' = "aborted" /\ failures' = failures
         /\ C!Execute => phase \in {"exec", "remove"} /\ phase' \in {"exec", "remove", "done"}
         /\ C!Environment => phase' = phase /\ failures' = failures
<1>1. op # NoOp => phase = "remove"
  BY DEF CP!IInv, CP!RequestsInPlace
<1>2. \A S : C!Start(S) => phase = "idle" /\ phase' = "walk" /\ failures' = failures
  BY DEF C!Start, C!resultVars
<1>3. C!Walk => /\ phase = "walk" /\ phase' \in {"walk", "planned", "aborted"}
                /\ failures' = failures
  BY DEF C!Walk, C!WalkVisit, C!WalkDone, C!WalkFails, C!resultVars
<1>4. C!Proceed => phase = "planned" /\ phase' = "exec" /\ failures' = failures
  BY DEF C!Proceed, C!resultVars
<1>5. C!Decline => phase = "planned" /\ phase' = "aborted" /\ failures' = failures
  BY DEF C!Decline, C!resultVars
<1>6. C!Execute => phase \in {"exec", "remove"} /\ phase' \in {"exec", "remove", "done"}
  BY <1>1 DEF C!Execute, C!BeginTarget, C!ListFails, C!NextTarget, C!BeginOp, C!RefuseOp,
              C!OpSucceeds, C!OpFails, C!EndTarget
<1>7. C!Environment => phase' = phase /\ failures' = failures
  BY DEF C!Environment, C!AppStep, C!Cancel, C!resultVars
<1>8. QED
  BY <1>2, <1>3, <1>4, <1>5, <1>6, <1>7

-------------------------------------------------------------------------------
(* The call *)

Shape ==
  /\ req \in Requests
  /\ pc \in {"args", "resolve", "load", "gate", "open", "work", "ask", "run", "exit"}
  /\ rows \in Caches \union {<<>>}
  /\ now \in 0..MaxNow
  /\ session \in {"none", "open", "closed"}
  /\ reply \in BOOLEAN
  /\ code \in 0..1

\* The place in the call goes with the phase of the cleaner and the session.
Places ==
  /\ pc \in {"args", "resolve", "load", "gate", "open"} => phase = "idle" /\ session = "none"
  /\ pc = "work" => phase \in {"walk", "planned", "aborted"} /\ session = "open"
  /\ pc = "ask" => phase = "planned" /\ session = "open" /\ ~req.dryRun /\ req.front = "cli"
  /\ pc = "run" => phase \in {"exec", "remove", "done"} /\ session = "open" /\ Consented
  /\ pc = "exit" => phase \in {"idle", "aborted", "done"} /\ session # "open"

\* Nobody gets past a check that did not hold.
Gated ==
  /\ pc \notin {"args", "exit"} \/ session # "none" => ~Rejected
  /\ pc \in {"open", "work", "ask", "run"} \/ session # "none" => Fresh(now)

\* Failures come from Execute alone, and the exit code goes by them.
Honest ==
  /\ phase \notin {"exec", "remove", "done"} => failures = {}
  /\ ExitHonest

CallInv == Shape /\ Places /\ Gated /\ Honest
IInv == CP!IInv /\ CallInv

LEMMA InitIInv == Init => IInv
<1> SUFFICES ASSUME Init PROVE IInv
  OBVIOUS
<1>1. CP!Init
  BY DEF Init, C!Init, CP!Init, C!Areas, CP!Areas, C!Targets, CP!Targets
<1>2. CP!IInv
  BY <1>1, CP!InitIInv, Container
<1>3. phase = "idle" /\ failures = {}
  BY DEF Init, C!Init
<1>4. Shape
  <2>1. reply \in BOOLEAN
    BY Zenon DEF Init
  <2>2. /\ req \in Requests /\ pc = "args" /\ rows = <<>> /\ now = 0
        /\ session = "none" /\ code = 0
    BY DEF Init
  <2>3. now \in 0..MaxNow
    BY <2>2, MaxNowAssumption
  <2>4. QED
    BY <2>1, <2>2, <2>3 DEF Shape
<1>5. QED
  BY <1>2, <1>3, <1>4 DEF Init, IInv, CallInv, Places, Gated, Honest, ExitHonest

\* Everything keeps its type.
LEMMA StepShape == Shape /\ [Next]_vars => Shape'
<1> SUFFICES ASSUME Shape, [Next]_vars PROVE Shape'
  OBVIOUS
<1>1. reply' = reply \/ reply' = TRUE
  BY DEF Next, Program, Environment, vars, callVars, Goto, Exit, CheckArgs, Resolve,
         LoadCache, ProbeGate, OpenSandbox, BuildPlans, PlanFailed, Decide, Answer,
         PromptError, PromptCancelled, Execute, Report
<1>2. reply' \in BOOLEAN
  BY <1>1 DEF Shape
<1>3. rows' = rows \/ rows' \in Caches
  BY DEF Next, Program, Environment, vars, callVars, CheckArgs, Resolve,
         LoadCache, ProbeGate, OpenSandbox, BuildPlans, PlanFailed, Decide, Answer,
         PromptError, PromptCancelled, Execute, Report
<1>4. now' = now \/ now' \in 0..MaxNow
  BY DEF Next, Program, Environment, vars, callVars, CheckArgs, Resolve,
         LoadCache, ProbeGate, OpenSandbox, BuildPlans, PlanFailed, Decide, Answer,
         PromptError, PromptCancelled, Execute, Report
<1>5. req' = req
  BY DEF Next, Program, Environment, vars, callVars, Goto, Exit, CheckArgs, Resolve,
         LoadCache, ProbeGate, OpenSandbox, BuildPlans, PlanFailed, Decide, Answer,
         PromptError, PromptCancelled, Execute, Report
<1>6. /\ pc' = pc \/ pc' \in {"resolve", "load", "gate", "open", "work", "ask", "run", "exit"}
      /\ session' = session \/ session' \in {"open", "closed"}
      /\ code' = code \/ code' \in 0..1
  BY DEF Next, Program, Environment, vars, callVars, Goto, Exit, CheckArgs, Resolve,
         LoadCache, ProbeGate, OpenSandbox, BuildPlans, PlanFailed, Decide, Answer,
         PromptError, PromptCancelled, Execute, Report
<1>7. QED
  BY <1>2, <1>3, <1>4, <1>5, <1>6 DEF Shape

\* The request stays, and with it what it asks for and what rejects it.
LEMMA SameRequest ==
  ASSUME req' = req
  PROVE  /\ Rejected' <=> Rejected
         /\ Docs' <=> Docs
         /\ reply' = reply => (Consented' <=> Consented)
         /\ rows' = rows => \A t : Fresh(t)' <=> Fresh(t)
<1>1. Docs' <=> Docs
  BY DEF Docs, Include
<1>2. Rejected' <=> Rejected
  BY <1>1 DEF Rejected
<1>3. reply' = reply => (Consented' <=> Consented)
  BY <1>1 DEF Consented
<1>4. ASSUME rows' = rows PROVE \A t : Fresh(t)' <=> Fresh(t)
  BY <1>4 DEF Fresh, Newest, Mine, InTime
<1>5. QED
  BY <1>1, <1>2, <1>3, <1>4

\* Each step leads to a place where cleaner and session are as they should be.
LEMMA StepPlaces ==
  ASSUME CP!IInv, Shape, Places, Gated, [Next]_vars
  PROVE  Places'
<1> USE CleanerSteps DEF Places
<1>1. req' = req
  BY DEF Next, Program, Environment, vars, callVars, Goto, Exit, CheckArgs, Resolve,
         LoadCache, ProbeGate, OpenSandbox, BuildPlans, PlanFailed, Decide, Answer,
         PromptError, PromptCancelled, Execute, Report
<1>2. reply' = reply => (Consented' <=> Consented)
  BY <1>1, SameRequest
<1>3. req.front \in {"cli", "mcp"}
  BY InputAssumption DEF Shape
<1>4. CASE CheckArgs \/ Resolve \/ LoadCache \/ ProbeGate
  BY <1>1, <1>4 DEF CheckArgs, Resolve, LoadCache, ProbeGate, Goto, Exit, cleanerVars
<1>5. CASE OpenSandbox
  BY <1>1, <1>5 DEF OpenSandbox, Exit, cleanerVars
<1>6. CASE BuildPlans
  BY <1>1, <1>2, <1>6 DEF BuildPlans, callVars
<1>7. CASE PlanFailed
  BY <1>1, <1>7 DEF PlanFailed, Exit, cleanerVars
<1>8. CASE Decide
  <2>1. CASE req.dryRun /\ C!Decline /\ Exit(0)
    BY <1>1, <1>8, <2>1 DEF Decide, Exit
  <2>2. CASE ~req.dryRun /\ NeedsAnswer /\ Goto("ask") /\ UNCHANGED cleanerVars
    BY <1>1, <1>8, <2>2 DEF Decide, Goto, cleanerVars, NeedsAnswer
  <2>3. CASE ~req.dryRun /\ ~NeedsAnswer /\ C!Proceed /\ Goto("run")
    <3>1. ~Rejected
      BY <1>8 DEF Decide, Gated
    <3>2. Consented
      BY <1>3, <2>3, <3>1 DEF NeedsAnswer, Consented, Rejected
    <3>3. pc' = "run" /\ session' = session /\ reply' = reply /\ pc = "work"
      BY <1>8, <2>3 DEF Decide, Goto
    <3>4. QED
      BY <1>2, <2>3, <3>2, <3>3
  <2>4. QED
    BY <1>8, <2>1, <2>2, <2>3 DEF Decide
<1>9. CASE Answer
  <2>1. CASE C!Proceed /\ reply' = TRUE /\ pc' = "run" /\ UNCHANGED <<req, session, code>>
    <3>1. Consented'
      BY <1>1, <1>9, <2>1 DEF Answer, Consented
    <3>2. QED
      BY <1>9, <2>1, <3>1 DEF Answer
  <2>2. CASE C!Decline /\ Exit(0)
    BY <1>9, <2>2 DEF Answer, Exit
  <2>3. QED
    BY <1>9, <2>1, <2>2 DEF Answer
<1>10. CASE PromptError \/ PromptCancelled
  BY <1>10 DEF PromptError, PromptCancelled, Exit
<1>11. CASE Execute
  BY <1>2, <1>11 DEF Execute, callVars
<1>12. CASE Report
  BY <1>12 DEF Report, Exit, cleanerVars
<1>13. CASE Environment
  BY <1>1, <1>2, <1>13 DEF Environment, callVars
<1>14. CASE UNCHANGED vars
  BY <1>1, <1>2, <1>14 DEF vars, callVars, cleanerVars
<1>15. QED
  BY <1>4, <1>5, <1>6, <1>7, <1>8, <1>9, <1>10, <1>11, <1>12, <1>13, <1>14
     DEF Next, Program

\* No step gets past a check that does not hold.
LEMMA StepGated ==
  ASSUME Shape, Places, Gated, [Next]_vars
  PROVE  Gated'
<1>1. req' = req
  BY DEF Next, Program, Environment, vars, callVars, Goto, Exit, CheckArgs, Resolve,
         LoadCache, ProbeGate, OpenSandbox, BuildPlans, PlanFailed, Decide, Answer,
         PromptError, PromptCancelled, Execute, Report
<1>2. /\ Rejected' <=> Rejected
      /\ rows' = rows => \A t : Fresh(t)' <=> Fresh(t)
  BY <1>1, SameRequest
<1>3. CASE CheckArgs
  BY <1>2, <1>3 DEF CheckArgs, Goto, Exit, Gated, Places
<1>4. CASE Resolve \/ LoadCache
  BY <1>2, <1>4 DEF Resolve, LoadCache, Goto, Exit, Gated, Places
<1>5. CASE ProbeGate
  <2>1. rows' = rows /\ pc = "gate" /\ session = "none"
    BY <1>5 DEF ProbeGate, Places
  <2>2. CASE Fresh(now') /\ Goto("open")
    <3>1. Fresh(now)'
      BY <1>1, <2>1, <2>2 DEF Fresh, Newest, Mine, InTime
    <3>2. QED
      BY <1>2, <2>1, <2>2, <3>1 DEF Goto, Gated
  <2>3. CASE Exit(1)
    BY <2>1, <2>3 DEF Exit, Gated
  <2>4. QED
    BY <1>5, <2>2, <2>3 DEF ProbeGate
<1>6. CASE ~(CheckArgs \/ Resolve \/ LoadCache \/ ProbeGate)
  <2>1. rows' = rows /\ now' = now
    BY <1>6 DEF Next, Program, Environment, vars, callVars, OpenSandbox, BuildPlans,
         PlanFailed, Decide, Answer, PromptError, PromptCancelled, Execute, Report
  <2>2. Fresh(now)' <=> Fresh(now)
    BY <1>1, <2>1 DEF Fresh, Newest, Mine, InTime
  <2>3. /\ pc \in {"open", "work", "ask", "run"} \/ pc' = pc \/ pc' = "exit"
        /\ pc \in {"open", "work", "ask", "run"} => pc' # "args"
        /\ pc \in {"open", "work", "ask", "run"} \/ session' = session
    BY <1>6 DEF Next, Program, Environment, vars, callVars, OpenSandbox, BuildPlans,
         PlanFailed, Decide, Answer, PromptError, PromptCancelled, Execute, Report,
         Goto, Exit
  <2>4. QED
    BY <1>2, <2>2, <2>3 DEF Gated
<1>7. QED
  BY <1>3, <1>4, <1>5, <1>6

\* Only Execute adds failures, and only Report exits after it.
LEMMA StepHonest ==
  ASSUME CP!IInv, Shape, Places, Honest, [Next]_vars
  PROVE  Honest'
<1> USE CleanerSteps DEF Honest
<1>1. req' = req
  BY DEF Next, Program, Environment, vars, callVars, Goto, Exit, CheckArgs, Resolve,
         LoadCache, ProbeGate, OpenSandbox, BuildPlans, PlanFailed, Decide, Answer,
         PromptError, PromptCancelled, Execute, Report
<1>2. CASE CheckArgs \/ Resolve \/ LoadCache \/ ProbeGate \/ PlanFailed
  BY <1>1, <1>2 DEF CheckArgs, Resolve, LoadCache, ProbeGate, PlanFailed, Goto, Exit,
     cleanerVars, Places, ExitHonest
<1>3. CASE OpenSandbox
  BY <1>1, <1>3 DEF OpenSandbox, Exit, cleanerVars, Places, ExitHonest
<1>4. CASE BuildPlans
  BY <1>4 DEF BuildPlans, callVars, ExitHonest
<1>5. CASE Decide
  BY <1>1, <1>5 DEF Decide, Goto, Exit, cleanerVars, Places, ExitHonest
<1>6. CASE Answer \/ PromptError \/ PromptCancelled
  BY <1>1, <1>6 DEF Answer, PromptError, PromptCancelled, Exit, ExitHonest
<1>7. CASE Execute
  BY <1>7 DEF Execute, callVars, ExitHonest
<1>8. CASE Report
  BY <1>1, <1>8 DEF Report, Exit, cleanerVars, ExitHonest
<1>9. CASE Environment
  BY <1>1, <1>9 DEF Environment, callVars, ExitHonest
<1>10. CASE UNCHANGED vars
  BY <1>1, <1>10 DEF vars, callVars, cleanerVars, ExitHonest
<1>11. QED
  BY <1>2, <1>3, <1>4, <1>5, <1>6, <1>7, <1>8, <1>9, <1>10 DEF Next, Program

LEMMA StepIInv == IInv /\ [Next]_vars => IInv'
<1> SUFFICES ASSUME IInv, [Next]_vars PROVE IInv'
  OBVIOUS
<1> USE DEF IInv, CallInv
<1>1. req \in Requests
  BY DEF Shape
<1>2. [CP!Next]_(CP!vars)
  BY <1>1, StepIsCleaners, SameSteps
<1>3. CP!IInv'
  BY <1>2, CP!StepIInv, Container
<1>4. Shape'
  BY StepShape
<1>5. Places'
  BY StepPlaces
<1>6. Gated'
  BY StepGated
<1>7. Honest'
  BY StepHonest
<1>8. QED
  BY <1>3, <1>4, <1>5, <1>6, <1>7

LEMMA InductiveInvariant == Spec => []IInv
  BY InitIInv, StepIInv, PTL DEF Spec

-------------------------------------------------------------------------------

\* Call and cleaner keep their types, whatever fails (runAppsClean,
\* newAppsCleanHandler and internal/sandbox).
THEOREM TypeCorrect == Spec => []TypeOK
<1>1. IInv => TypeOK
  BY DEF IInv, CallInv, Shape, TypeOK, CP!IInv, CP!TypeOK, C!TypeOK, CP!Targets, C!Targets,
         CP!Areas, C!Areas
<1>2. QED
  BY <1>1, InductiveInvariant, PTL

\* No session is opened but for an ordinary bundle whose newest row says
\* vended in time, in whatever order the store lists the rows.
THEOREM GateAlwaysSound == Spec => []GateSound
<1>1. ASSUME IInv, session # "none" PROVE GateSound
  <2>1. ~Rejected /\ Fresh(now)
    BY <1>1 DEF IInv, CallInv, Gated
  <2>2. PICK i \in Mine : /\ Newest(i) /\ rows[i].outcome = "vended"
                          /\ InTime(now - rows[i].at)
    BY <2>1 DEF Fresh
  <2>3. \A j \in Mine : rows[j].at \in Int
    BY <1>1, InputAssumption DEF IInv, CallInv, Shape, Mine
  <2>4. \A j \in Mine : rows[j].at <= rows[i].at
    BY <2>2, <2>3 DEF Newest
  <2>5. /\ now - rows[i].at <= CliTTL
        /\ req.front = "mcp" => now - rows[i].at < McpTTL
    <3>1. req.front \in {"cli", "mcp"} /\ now \in Int
      BY <1>1, InputAssumption, MaxNowAssumption DEF IInv, CallInv, Shape
    <3>2. QED
      BY <2>2, <2>3, <3>1, TTLAssumption DEF InTime
  <2>6. QED
    BY <2>1, <2>2, <2>4, <2>5 DEF GateSound, Rejected
<1>2. IInv => GateSound
  BY <1>1 DEF GateSound
<1>3. QED
  BY <1>2, InductiveInvariant, PTL

\* Every return closes the session, and no removal is sent without one.
THEOREM SessionAlwaysScoped == Spec => []SessionScoped
<1>1. ASSUME IInv PROVE SessionScoped
  <2>1. op # NoOp => phase = "remove"
    BY <1>1 DEF IInv, CP!IInv, CP!RequestsInPlace
  <2>2. phase = "remove" => pc = "run"
    BY <1>1 DEF IInv, CallInv, Shape, Places
  <2>3. QED
    BY <1>1, <2>1, <2>2 DEF IInv, CallInv, Places, SessionScoped
<1>2. QED
  BY <1>1, InductiveInvariant, PTL

\* The exit code of the CLI is 1 after a finished deletion exactly if a
\* failure is reported, and never 0 with one.
THEOREM ExitAlwaysHonest == Spec => []ExitHonest
<1>1. IInv => ExitHonest
  BY DEF IInv, CallInv, Honest
<1>2. QED
  BY <1>1, InductiveInvariant, PTL

-------------------------------------------------------------------------------
(* The call implements its contract *)

InScope == IF phase \in {"exec", "remove"}
             THEN {f \in Files : /\ Area[f] \in selected
                                 /\ Area[f] = "docs" => f \in plan["docs"]}
             ELSE {}

\* Only a yes to the prompt changes what the owner has consented to.
LEMMA ConsentKept ==
  ASSUME req' = req, reply' = reply
  PROVE  Consented' = Consented
  BY DEF Consented, Docs, Include

\* What Execute does within the contract.
LEMMA ExecuteInContract ==
  ASSUME IInv, IInv', Execute
  PROVE  [Contract!Next]_(Contract!vars)
<1> USE DEF C!resultVars, C!envVars, C!planVars
<1>1. Consented' = Consented
  BY ConsentKept DEF Execute, callVars
<1>2. phase \in {"exec", "remove"} /\ phase' \in {"exec", "remove", "done"}
  BY CleanerSteps DEF Execute, IInv
<1>3. selected' = selected /\ plan' = plan
  BY DEF Execute, C!Execute, C!BeginTarget, C!ListFails, C!BeginOp, C!RefuseOp,
         C!OpSucceeds, C!OpFails, C!EndTarget
<1>4. phase' # "done" => InScope' = InScope
  BY <1>2, <1>3 DEF InScope
<1>5. CASE UNCHANGED tree
  <2>1. CASE phase' = "done"
    <3>1. InScope' = {}
      BY <2>1 DEF InScope
    <3>2. Contract!Close
      BY <1>1, <1>5, <3>1 DEF Contract!Close, InScope
    <3>3. QED
      BY <3>2 DEF Contract!Next
  <2>2. CASE phase' # "done"
    BY <1>1, <1>4, <1>5, <2>2 DEF Contract!vars, InScope
  <2>3. QED
    BY <2>1, <2>2
<1>6. CASE C!OpSucceeds \/ C!OpFails
  <2>1. op # NoOp /\ phase' = phase
    BY <1>6 DEF C!OpSucceeds, C!OpFails
  <2>2. /\ phase = "remove"
        /\ \A f \in CP!Under(op) :
             f \in Files /\ Area[f] = CP!Current /\ (CP!Current = "docs" => f \in plan["docs"])
    BY <2>1, CP!UnderTyped, Container DEF IInv
  <2>3. CP!Current \in selected
    BY <2>2, CP!CurrentChosen, Container DEF IInv, CP!Running
  <2>4. C!Under(op) = CP!Under(op)
    BY DEF C!Under, CP!Under, C!In, CP!In, C!Areas, CP!Areas, C!Targets, CP!Targets
  <2>5. C!Under(op) \subseteq InScope
    BY <2>2, <2>3, <2>4 DEF InScope
  <2>6. PICK X \in SUBSET InScope : tree' = tree \ X
    BY <1>6, <2>5 DEF C!OpSucceeds, C!OpFails
  <2>7. Contract!Delete(X)
    BY <1>1, <1>2, <1>4, <2>1, <2>2, <2>6 DEF Contract!Delete, InScope
  <2>8. QED
    BY <2>6, <2>7 DEF Contract!Next, InScope
<1>7. UNCHANGED tree \/ C!OpSucceeds \/ C!OpFails
  BY DEF Execute, C!Execute, C!BeginTarget, C!ListFails, C!BeginOp, C!RefuseOp,
         C!EndTarget
<1>8. QED
  BY <1>5, <1>6, <1>7

\* The cleaner goes to work: by now the owner has consented.
LEMMA ProceedInContract ==
  ASSUME IInv, IInv', C!Proceed, pc' = "run"
  PROVE  Contract!Next
<1>1. phase = "planned" /\ phase' = "exec" /\ UNCHANGED tree
  BY DEF C!Proceed
<1>2. Consented'
  BY <1>1 DEF IInv, CallInv, Places
<1>3. InScope = {} /\ InScope' \in SUBSET Files
  BY <1>1 DEF InScope
<1>4. PICK S \in SUBSET Files : S = InScope'
  BY <1>3
<1>5. Contract!Grant(S)
  BY <1>1, <1>2, <1>3, <1>4 DEF Contract!Grant, InScope
<1>6. QED
  BY <1>5 DEF Contract!Next

\* Steps that neither delete nor start to.
LEMMA OtherwiseInContract ==
  ASSUME IInv, Next, ~Execute, ~Environment, ~C!Proceed
  PROVE  [Contract!Next]_(Contract!vars)
<1> USE CleanerSteps DEF IInv
<1>1. Consented' = Consented
  <2>1. req' = req /\ reply' = reply
    BY DEF Next, Program, callVars, Goto, Exit, CheckArgs, Resolve,
         LoadCache, ProbeGate, OpenSandbox, BuildPlans, PlanFailed, Decide, Answer,
         PromptError, PromptCancelled, Report
  <2>2. QED
    BY <2>1, ConsentKept
<1>2. UNCHANGED tree
  BY DEF Next, Program, CheckArgs, Resolve, LoadCache, ProbeGate, OpenSandbox, BuildPlans,
     PlanFailed, Decide, Answer, PromptError, PromptCancelled, Report, cleanerVars,
     C!Start, C!Walk, C!WalkVisit, C!WalkDone, C!WalkFails, C!Decline
<1>3. phase \notin {"exec", "remove"} /\ phase' \notin {"exec", "remove"}
  BY DEF Next, Program, CheckArgs, Resolve, LoadCache, ProbeGate, OpenSandbox, BuildPlans,
     PlanFailed, Decide, Answer, PromptError, PromptCancelled, Report, cleanerVars,
     CallInv, Places
<1>4. QED
  BY <1>1, <1>2, <1>3 DEF Contract!vars

\* Whatever the app, the user, the device and the signal do: nothing of the
\* container is deleted before consent, and then only what it was given for.
THEOREM CallImplementsContract == Spec => ImplementsContract
<1>1. Init => Contract!Init
  <2>1. Init => Consented \in BOOLEAN
    BY DEF Consented
  <2>2. Init => phase = "idle"
    BY DEF Init, C!Init
  <2>3. QED
    BY <2>1, <2>2 DEF Contract!Init
<1>2. ASSUME IInv, IInv', [Next]_vars PROVE [Contract!Next]_(Contract!vars)
  <2>1. CASE Execute
    BY <1>2, <2>1, ExecuteInContract
  <2>2. CASE Environment
    <3>1. Consented' = Consented
      BY <2>2, ConsentKept DEF Environment, callVars
    <3>2. InScope' = InScope
      BY <2>2 DEF Environment, C!Environment, C!AppStep, C!Cancel, C!planVars, InScope
    <3>3. CASE UNCHANGED tree
      BY <3>1, <3>2, <3>3 DEF Contract!vars, InScope
    <3>4. CASE \E f \in Files : C!AppStep(f)
      <4>1. PICK f \in Files : C!AppStep(f)
        BY <3>4
      <4>2. Contract!AppStep(f)
        BY <3>1, <3>2, <4>1 DEF C!AppStep, Contract!AppStep, InScope
      <4>3. QED
        BY <4>2 DEF Contract!Next
    <3>5. QED
      BY <2>2, <3>3, <3>4 DEF Environment, C!Environment, C!Cancel
  <2>3. CASE C!Proceed /\ Next
    <3>1. pc' = "run" \/ Execute \/ Environment
      BY <1>2, <2>3, CleanerSteps
      DEF Next, Program, CheckArgs, Resolve, LoadCache, ProbeGate, OpenSandbox, BuildPlans,
          PlanFailed, Decide, Answer, PromptError, PromptCancelled, Report, Goto,
          cleanerVars, IInv
    <3>2. QED
      BY <1>2, <2>1, <2>2, <2>3, <3>1, ProceedInContract
  <2>4. CASE Next /\ ~Execute /\ ~Environment /\ ~C!Proceed
    BY <1>2, <2>4, OtherwiseInContract
  <2>5. CASE UNCHANGED vars
    <3>1. Consented' = Consented
      BY <2>5, ConsentKept DEF vars, callVars
    <3>2. InScope' = InScope /\ UNCHANGED tree
      BY <2>5 DEF vars, cleanerVars, InScope
    <3>3. QED
      BY <3>1, <3>2 DEF Contract!vars, InScope
  <2>6. QED
    BY <1>2, <2>1, <2>2, <2>3, <2>4, <2>5
<1>3. QED
  BY <1>1, <1>2, InductiveInvariant, PTL DEF Spec, ImplementsContract, Contract!Spec
===============================================================================
