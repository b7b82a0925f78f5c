------------------------- MODULE SandboxCleanerProofs -------------------------
(***************************************************************************)
(* For every container, every running app and every run of the cleaner:    *)
(* what Execute deletes, what it claims to have deleted, and what becomes  *)
(* of the files that were planned.                                         *)
(***************************************************************************)
EXTENDS SandboxCleaner, TLAPS

\* The target to work on is one of those that are left.
LEMMA FirstChosen ==
  ASSUME NEW S \in SUBSET Targets, S # {}
  PROVE  First(S) \in S
<1>1. Rank["tmp"] = 1 /\ Rank["caches"] = 2 /\ Rank["docs"] = 3
  BY DEF Rank, Targets
<1>2. \E t \in S : \A u \in S : Rank[t] <= Rank[u]
  <2>1. CASE "tmp" \in S
    BY <1>1, <2>1 DEF Targets
  <2>2. CASE "tmp" \notin S /\ "caches" \in S
    BY <1>1, <2>2 DEF Targets
  <2>3. CASE "tmp" \notin S /\ "caches" \notin S
    <3>1. S = {"docs"}
      BY <2>3 DEF Targets
    <3>2. QED
      BY <1>1, <3>1
  <2>4. QED
    BY <2>1, <2>2, <2>3
<1>3. QED
  BY <1>2 DEF First

-------------------------------------------------------------------------------
(* What may be deleted *)

Running == {"walk", "planned", "exec", "remove"}

\* There is a current target, and the walk stays inside it.
TargetsLeft ==
  /\ phase \in Running => pending # {}
  /\ phase \in {"planned", "exec", "remove", "done"} => unvisited = {}
  /\ phase = "walk" => unvisited \subseteq In(Current)

\* A plan holds files of its own target, and only of a selected one.
PlansInPlace ==
  \A t \in Targets :
    /\ plan[t] \subseteq In(t)
    /\ plan[t] # {} => phase # "idle" /\ t \in selected

\* What Execute goes through in target t.
InTarget(t, x) ==
  IF t = "docs" THEN x \in plan["docs"] ELSE \E f \in In(t) : x = Kid[f]

RequestsInPlace ==
  /\ phase # "remove" => op = NoOp /\ todo = {}
  /\ phase = "remove" =>
       /\ todo \subseteq listed[Current]
       /\ op # NoOp => op \in listed[Current] \ todo
       /\ \A x \in listed[Current] : InTarget(Current, x)

IInv == TypeOK /\ TargetsLeft /\ PlansInPlace /\ RequestsInPlace

\* While the run goes on, the current target is a selected one that is left.
LEMMA CurrentChosen ==
  ASSUME IInv, phase \in Running
  PROVE  Current \in pending /\ Current \in selected /\ Current \in Targets
  BY FirstChosen DEF IInv, TypeOK, TargetsLeft, Current

\* The request in flight reaches files of the current target only.
LEMMA UnderTyped ==
  ASSUME IInv, op # NoOp
  PROVE  /\ phase = "remove"
         /\ op \in Files \union Kids
         /\ \A f \in Under(op) :
              f \in Files /\ Area[f] = Current /\ (Current = "docs" => f \in plan["docs"])
<1>1. /\ phase = "remove" /\ op \in listed[Current] /\ InTarget(Current, op)
      /\ op \in Files \union Kids
  BY DEF IInv, TypeOK, RequestsInPlace
<1>2. Current \in Targets
  BY <1>1, CurrentChosen DEF Running
<1>3. CASE Current = "docs"
  <2>1. op \in plan["docs"] /\ op \in Files /\ Area[op] = "docs"
    BY <1>1, <1>3 DEF InTarget, IInv, TypeOK, PlansInPlace, In, Targets
  <2>2. Under(op) = {op}
    BY <2>1, TreeAssumption DEF Under
  <2>3. QED
    BY <1>1, <1>3, <2>1, <2>2
<1>4. CASE Current # "docs"
  <2>1. PICK f \in In(Current) : op = Kid[f]
    BY <1>1, <1>4 DEF InTarget
  <2>2. f \in Files /\ Area[f] = Current /\ op \in Kids
    BY <2>1, TreeAssumption DEF In
  <2>3. Under(op) = {g \in Files : Kid[g] = op}
    BY <2>2 DEF Under
  <2>4. QED
    BY <1>1, <1>4, <2>1, <2>2, <2>3, TreeAssumption
<1>5. QED
  BY <1>3, <1>4

\* A run that has not started has planned and requested nothing.
LEMMA InitIInv == Init => IInv
<1> SUFFICES ASSUME Init PROVE IInv
  OBVIOUS
<1>1. TypeOK
  <2>1. PICK S \in SUBSET Files : tree = S \union Areas
    BY DEF Init
  <2>2. tree \in SUBSET (Files \union Areas)
    BY <2>1
  <2>3. appOps \in 0..MaxAppOps
    BY MaxAppOpsAssumption DEF Init
  <2>4. /\ plan \in [Targets -> SUBSET Files]
        /\ listed \in [Targets -> SUBSET (Files \union Kids)]
    BY DEF Init
  <2>5. QED
    BY <2>2, <2>3, <2>4 DEF Init, TypeOK
<1>2. TargetsLeft /\ PlansInPlace /\ RequestsInPlace
  BY DEF Init, TargetsLeft, PlansInPlace, RequestsInPlace, Running
<1>3. QED
  BY <1>1, <1>2 DEF IInv

\* One conjunct of the invariant after the other, for each action.
LEMMA StepIInv == IInv /\ [Next]_vars => IInv'
<1> SUFFICES ASSUME IInv, [Next]_vars PROVE IInv'
  OBVIOUS
<1> USE DEF IInv, planVars, resultVars, envVars
<1>1. ASSUME NEW S \in SUBSET Targets, Start(S) PROVE IInv'
  <2>1. TypeOK'
    BY <1>1 DEF Start, TypeOK, In
  <2>2. TargetsLeft'
    BY <1>1 DEF Start, TargetsLeft, Current, In
  <2>3. PlansInPlace' /\ RequestsInPlace'
    BY <1>1 DEF Start, PlansInPlace, RequestsInPlace, In
  <2>4. QED
    BY <2>1, <2>2, <2>3
<1>2. ASSUME NEW f \in Files, WalkVisit(f) PROVE IInv'
  <2>0. Current \in selected /\ Current \in Targets /\ Current' = Current
    BY <1>2, CurrentChosen DEF WalkVisit, Running, Current
  <2>1. TypeOK'
    BY <1>2, <2>0 DEF WalkVisit, TypeOK
  <2>2. TargetsLeft'
    BY <1>2, <2>0 DEF WalkVisit, TargetsLeft, In
  <2>3. PlansInPlace'
    BY <1>2, <2>0 DEF WalkVisit, PlansInPlace, TypeOK, TargetsLeft, In
  <2>4. RequestsInPlace'
    BY <1>2 DEF WalkVisit, RequestsInPlace
  <2>5. QED
    BY <2>1, <2>2, <2>3, <2>4
<1>3. CASE WalkDone
  <2>1. TypeOK'
    BY <1>3 DEF WalkDone, TypeOK, In
  <2>2. TargetsLeft'
    BY <1>3 DEF WalkDone, TargetsLeft, Current, Running, TypeOK
  <2>3. PlansInPlace' /\ RequestsInPlace'
    BY <1>3 DEF WalkDone, PlansInPlace, RequestsInPlace, In
  <2>4. QED
    BY <2>1, <2>2, <2>3
<1>4. CASE WalkFails \/ Proceed \/ Decline
  <2>1. TypeOK'
    BY <1>4 DEF WalkFails, Proceed, Decline, TypeOK
  <2>2. TargetsLeft'
    BY <1>4 DEF WalkFails, Proceed, Decline, TargetsLeft, Running
  <2>3. PlansInPlace' /\ RequestsInPlace'
    BY <1>4 DEF WalkFails, Proceed, Decline, PlansInPlace, RequestsInPlace, In
  <2>4. QED
    BY <2>1, <2>2, <2>3
<1>5. CASE BeginTarget
  <2>0. Current \in Targets /\ Current' = Current
    BY <1>5, CurrentChosen DEF BeginTarget, Running, Current
  <2>1. PICK S \in Candidates(Current) :
          listed' = [listed EXCEPT ![Current] = S] /\ todo' = S
    BY <1>5 DEF BeginTarget
  <2>2. S \subseteq Files \union Kids /\ \A x \in S : InTarget(Current, x)
    BY <2>0, TreeAssumption DEF Candidates, InTarget, In, TypeOK, Targets
  <2>3. listed'[Current] = S
    BY <2>0, <2>1 DEF TypeOK
  <2>4. TypeOK'
    BY <1>5, <2>0, <2>1, <2>2 DEF BeginTarget, TypeOK
  <2>5. TargetsLeft'
    BY <1>5 DEF BeginTarget, TargetsLeft, Running
  <2>6. PlansInPlace'
    BY <1>5 DEF BeginTarget, PlansInPlace, In
  <2>7. RequestsInPlace'
    BY <1>5, <2>0, <2>1, <2>2, <2>3 DEF BeginTarget, RequestsInPlace, InTarget, In
  <2>8. QED
    BY <2>4, <2>5, <2>6, <2>7
<1>6. CASE ListFails \/ EndTarget
  <2>0. Current \in pending /\ Current \in Targets
    BY <1>6, CurrentChosen DEF ListFails, EndTarget, Running
  <2>1. TypeOK'
    BY <1>6, <2>0 DEF ListFails, EndTarget, NextTarget, TypeOK
  <2>2. TargetsLeft'
    BY <1>6, <2>0 DEF ListFails, EndTarget, NextTarget, TargetsLeft, Running
  <2>3. PlansInPlace'
    BY <1>6 DEF ListFails, EndTarget, NextTarget, PlansInPlace, In
  <2>4. RequestsInPlace'
    BY <1>6 DEF ListFails, EndTarget, NextTarget, RequestsInPlace
  <2>5. QED
    BY <2>1, <2>2, <2>3, <2>4
<1>7. ASSUME NEW x \in Files \union Kids, BeginOp(x) \/ RefuseOp(x) PROVE IInv'
  <2>0. Current' = Current
    BY <1>7 DEF BeginOp, RefuseOp, Current
  <2>1. TypeOK'
    BY <1>7 DEF BeginOp, RefuseOp, TypeOK
  <2>2. TargetsLeft'
    BY <1>7, <2>0 DEF BeginOp, RefuseOp, TargetsLeft, Running
  <2>3. PlansInPlace'
    BY <1>7 DEF BeginOp, RefuseOp, PlansInPlace, In
  <2>4. RequestsInPlace'
    BY <1>7, <2>0 DEF BeginOp, RefuseOp, RequestsInPlace, InTarget, In
  <2>5. QED
    BY <2>1, <2>2, <2>3, <2>4
<1>8. CASE OpSucceeds \/ OpFails
  <2>0. Current' = Current /\ phase = "remove"
    BY <1>8, UnderTyped DEF OpSucceeds, OpFails, Current
  <2>1. TypeOK'
    <3>1. op \in Files \union Kids /\ Under(op) \subseteq Files
      BY <1>8, UnderTyped DEF OpSucceeds, OpFails
    <3>2. CASE OpSucceeds
      BY <3>1, <3>2 DEF OpSucceeds, TypeOK
    <3>3. CASE OpFails
      BY <3>1, <3>3 DEF OpFails, TypeOK
    <3>4. QED
      BY <1>8, <3>2, <3>3
  <2>2. TargetsLeft'
    BY <1>8, <2>0 DEF OpSucceeds, OpFails, TargetsLeft, Running
  <2>3. PlansInPlace'
    BY <1>8 DEF OpSucceeds, OpFails, PlansInPlace, In
  <2>4. RequestsInPlace'
    BY <1>8, <2>0 DEF OpSucceeds, OpFails, RequestsInPlace, InTarget, In
  <2>5. QED
    BY <2>1, <2>2, <2>3, <2>4
<1>9. ASSUME Environment \/ UNCHANGED vars PROVE IInv'
  <2>0. /\ UNCHANGED <<selected, phase, pending, unvisited, plan, listed, todo, op>>
        /\ Current' = Current
    BY <1>9 DEF Environment, AppStep, Cancel, vars, Current
  <2>1. TypeOK'
    <3>1. ASSUME NEW f \in Files, AppStep(f) PROVE TypeOK'
      <4>1. appOps' \in 0..MaxAppOps
        BY <3>1, MaxAppOpsAssumption DEF AppStep, TypeOK
      <4>2. tree' \in SUBSET (Files \union Areas)
        BY <3>1 DEF AppStep, TypeOK
      <4>3. QED
        BY <3>1, <4>1, <4>2 DEF AppStep, TypeOK
    <3>2. QED
      BY <1>9, <3>1 DEF Environment, Cancel, vars, TypeOK
  <2>2. TargetsLeft' /\ PlansInPlace'
    BY <2>0 DEF TargetsLeft, PlansInPlace, Running, In
  <2>3. RequestsInPlace'
    BY <2>0 DEF RequestsInPlace, InTarget, In
  <2>4. QED
    BY <2>1, <2>2, <2>3
<1>10. QED
  BY <1>1, <1>2, <1>3, <1>4, <1>5, <1>6, <1>7, <1>8, <1>9
  DEF Next, Walk, Execute

\* Hence the invariant holds in every reachable state.
LEMMA InductiveInvariant == Spec => []IInv
  BY InitIInv, StepIInv, PTL DEF Spec

\* Every variable keeps its type, whatever fails and whatever the app does.
THEOREM TypeCorrect == Spec => []TypeOK
<1>1. IInv => TypeOK
  BY DEF IInv
<1>2. QED
  BY <1>1, InductiveInvariant, PTL

\* Nothing is deleted before every selected target has been walked to its end.
THEOREM PlansAlwaysComplete == Spec => []PlansComplete
<1>1. IInv => PlansComplete
  BY DEF IInv, PlansComplete, TargetsLeft, PlansInPlace, In
<1>2. QED
  BY <1>1, InductiveInvariant, PTL

\* Nothing but the app's own doing and a removal in flight deletes a file, and
\* the removal only inside the current target and, in Documents, the plan.
THEOREM DeletionsAlwaysAuthorised == Spec => DeletionsAuthorised
<1>1. ASSUME IInv, Next, NEW f \in tree \ tree', appOps' = appOps
      PROVE  /\ phase = "remove" /\ f \in Files /\ Area[f] \in selected
             /\ Area[f] = "docs" => f \in plan["docs"]
  <2>1. OpSucceeds \/ OpFails
    BY <1>1, MaxAppOpsAssumption
    DEF Next, Start, Walk, WalkVisit, WalkDone, WalkFails, Proceed, Decline,
        Execute, BeginTarget, ListFails, BeginOp, RefuseOp, EndTarget,
        Environment, AppStep, Cancel, IInv, TypeOK
  <2>2. f \in Under(op) /\ op # NoOp
    BY <1>1, <2>1 DEF OpSucceeds, OpFails
  <2>3. QED
    BY <1>1, <2>2, UnderTyped, CurrentChosen DEF Running
<1>2. IInv /\ [Next]_vars =>
        [\A f \in tree \ tree' :
           \/ appOps' # appOps
           \/ /\ phase = "remove" /\ f \in Files /\ Area[f] \in selected
              /\ Area[f] = "docs" => f \in plan["docs"]]_vars
  BY <1>1
<1>3. QED
  BY <1>2, InductiveInvariant, PTL DEF Spec, DeletionsAuthorised

\* The count of removed files never runs ahead of the container.
THEOREM CreditAlwaysTruthful == Spec => CreditTruthful
<1>1. ASSUME IInv, Next
      PROVE  credited' \ credited \subseteq Planned \ tree'
  <2>1. CASE OpSucceeds
    <3>1. Current \in Targets
      BY <1>1, <2>1, UnderTyped, CurrentChosen DEF OpSucceeds, Running
    <3>2. plan[Current] \subseteq Planned
      BY <3>1 DEF Planned
    <3>3. QED
      BY <2>1, <3>2 DEF OpSucceeds
  <2>2. CASE ~OpSucceeds
    <3>1. UNCHANGED credited
      BY <1>1, <2>2
      DEF Next, Start, Walk, WalkVisit, WalkDone, WalkFails, Proceed, Decline,
          Execute, BeginTarget, ListFails, BeginOp, RefuseOp, OpFails,
          EndTarget, Environment, AppStep, Cancel, resultVars
    <3>2. QED
      BY <3>1
  <2>3. QED
    BY <2>1, <2>2
<1>2. IInv /\ [Next]_vars => [credited' \ credited \subseteq Planned \ tree']_vars
  BY <1>1
<1>3. QED
  BY <1>2, InductiveInvariant, PTL DEF Spec, CreditTruthful

\* No removal request is sent once the context is done.
THEOREM CancelAlwaysStopsRemovals == Spec => CancelStopsRemovals
<1>1. [Next]_vars => [cancelled /\ op = NoOp => op' = NoOp]_vars
  BY DEF Next, Start, Walk, WalkVisit, WalkDone, WalkFails, Proceed, Decline,
         Execute, BeginTarget, ListFails, BeginOp, RefuseOp, OpSucceeds,
         OpFails, EndTarget, Environment, AppStep, Cancel
<1>2. QED
  BY <1>1, PTL DEF Spec, CancelStopsRemovals

-------------------------------------------------------------------------------
(* What becomes of the planned files *)

FailedBy(f) == \E x \in failures : f \in Under(x)

\* The removal that covers a planned file.
Cand(f) == IF Area[f] = "docs" THEN f ELSE Kid[f]

Untouched(f) == f \notin credited /\ ~FailedBy(f)

Accounted(f) ==
  \/ f \in credited
  \/ FailedBy(f)
  \/ Area[f] # "docs" /\ Kid[f] \notin listed[Area[f]]

\* Removals still to come, the one in flight included.
Ahead == IF op = NoOp THEN todo ELSE todo \union {op}

\* Nothing is counted or reported before the removal that settles it.
NotYet ==
  /\ \A f \in Files :
       phase \notin {"exec", "remove", "done"} => Untouched(f)
  /\ \A t \in pending, f \in Files :
       Area[f] = t /\ (phase = "remove" => t # Current) => Untouched(f)
  /\ phase = "remove" =>
       \A f \in Files : Area[f] = Current /\ Cand(f) \in Ahead => Untouched(f)

SettledApart == \A f \in Files : f \in credited => ~FailedBy(f)

\* Every planned file is still ahead or accounted for.
Balance ==
  /\ phase = "planned" => pending = selected
  /\ phase = "done" => pending = {}
  /\ phase \in {"exec", "remove", "done"} =>
       \A t \in selected \ pending : \A f \in plan[t] : Accounted(f)
  /\ phase = "remove" =>
       \A f \in plan[Current] : Cand(f) \in Ahead \/ Accounted(f)

AInv == NotYet /\ SettledApart /\ Balance

\* A path that Execute goes through covers the files whose removal it is.
LEMMA UnderListed ==
  ASSUME IInv, phase = "remove", NEW x \in listed[Current], NEW f \in Files
  PROVE  f \in Under(x) <=> Area[f] = Current /\ Cand(f) = x
<1>1. InTarget(Current, x) /\ Current \in Targets
  BY CurrentChosen DEF IInv, RequestsInPlace, Running
<1>2. CASE Current = "docs"
  <2>1. x \in Files /\ Area[x] = "docs"
    BY <1>1, <1>2 DEF InTarget, IInv, TypeOK, PlansInPlace, In, Targets
  <2>2. Under(x) = {x}
    BY <2>1, TreeAssumption DEF Under
  <2>3. QED
    BY <1>2, <2>1, <2>2 DEF Cand
<1>3. CASE Current # "docs"
  <2>1. PICK g \in Files : Area[g] = Current /\ x = Kid[g]
    BY <1>1, <1>3 DEF InTarget, In
  <2>2. Under(x) = {h \in Files : Kid[h] = x}
    BY <2>1, TreeAssumption DEF Under
  <2>3. QED
    BY <1>3, <2>1, <2>2, TreeAssumption DEF Cand
<1>4. QED
  BY <1>2, <1>3

\* A failure against a whole target covers all of its files.
LEMMA UnderTarget ==
  ASSUME NEW t \in Targets, NEW f \in Files
  PROVE  f \in Under(t) <=> Area[f] = t
  BY TreeAssumption DEF Under, Targets, Areas, In

\* At first nothing is counted or reported.
LEMMA InitAInv == Init => AInv
  BY DEF Init, AInv, NotYet, SettledApart, Balance, Untouched, FailedBy

\* Steps that settle nothing.
LEMMA SameAccount ==
  ASSUME UNCHANGED <<credited, failures>>
  PROVE  /\ \A f \in Files : FailedBy(f)' <=> FailedBy(f)
         /\ \A f \in Files : Untouched(f)' <=> Untouched(f)
         /\ SettledApart => SettledApart'
  BY DEF FailedBy, Untouched, SettledApart, Under

\* Each removal settles its own files and no others; each step keeps the balance.
LEMMA StepAInv == IInv /\ AInv /\ [Next]_vars => AInv'
<1> SUFFICES ASSUME IInv, AInv, [Next]_vars PROVE AInv'
  OBVIOUS
<1> USE DEF planVars, resultVars, envVars
<1>1. ASSUME NEW S \in SUBSET Targets, Start(S) PROVE AInv'
  BY <1>1, SameAccount DEF Start, AInv, NotYet, Balance
<1>2. CASE Walk
  <2>1. UNCHANGED <<credited, failures>> /\ phase = "walk" /\ phase' \in {"walk", "planned", "aborted"}
    BY <1>2 DEF Walk, WalkVisit, WalkDone, WalkFails
  <2>2. NotYet'
    BY <2>1, SameAccount DEF AInv, NotYet
  <2>3. phase' = "planned" => pending' = selected'
    BY <1>2 DEF Walk, WalkVisit, WalkDone, WalkFails
  <2>4. QED
    BY <2>1, <2>2, <2>3, SameAccount DEF AInv, Balance
<1>3. CASE Proceed \/ Decline
  BY <1>3, SameAccount DEF Proceed, Decline, AInv, NotYet, Balance
<1>4. CASE BeginTarget
  <2>0. /\ UNCHANGED <<credited, failures, pending, selected, plan>>
        /\ phase = "exec" /\ phase' = "remove" /\ op = NoOp /\ op' = NoOp
        /\ Current \in pending /\ Current \in Targets /\ Current' = Current
    BY <1>4, CurrentChosen DEF BeginTarget, Running, Current, IInv, RequestsInPlace
  <2>1. PICK S \in Candidates(Current) :
          listed' = [listed EXCEPT ![Current] = S] /\ todo' = S
    BY <1>4 DEF BeginTarget
  <2>2. /\ listed'[Current] = S
        /\ \A t \in Targets \ {Current} : listed'[t] = listed[t]
        /\ Ahead' = S
    BY <2>0, <2>1 DEF IInv, TypeOK, Ahead
  <2>3. NotYet'
    BY <2>0, SameAccount DEF AInv, NotYet
  <2>4. \A t \in selected \ pending : \A f \in plan[t] : Accounted(f)'
    BY <2>0, <2>2, SameAccount
    DEF AInv, Balance, Accounted, IInv, TypeOK, PlansInPlace, In
  <2>5. \A f \in plan[Current] : (Cand(f) \in Ahead \/ Accounted(f))'
    BY <2>0, <2>1, <2>2
    DEF Accounted, Cand, Candidates, IInv, TypeOK, PlansInPlace, In
  <2>6. QED
    BY <2>0, <2>3, <2>4, <2>5, SameAccount DEF AInv, Balance
<1>5. CASE ListFails
  <2>0. /\ UNCHANGED <<credited, selected, plan, listed>> /\ phase = "exec"
        /\ phase' \in {"exec", "done"} /\ pending' = pending \ {Current}
        /\ failures' = failures \union {Current}
        /\ phase' = "done" => pending' = {}
        /\ Current \in pending /\ Current \in Targets
    BY <1>5, CurrentChosen DEF ListFails, NextTarget, Running
  <2>1. \A f \in Files : FailedBy(f)' <=> FailedBy(f) \/ Area[f] = Current
    BY <2>0, UnderTarget DEF FailedBy, Under
  <2>2. NotYet'
    BY <2>0, <2>1 DEF AInv, NotYet, Untouched
  <2>3. SettledApart'
    BY <2>0, <2>1 DEF AInv, NotYet, Untouched, SettledApart
  <2>4. \A t \in selected \ pending' : \A f \in plan[t] : Accounted(f)'
    BY <2>0, <2>1 DEF AInv, Balance, Accounted, IInv, TypeOK, PlansInPlace, In
  <2>5. QED
    BY <2>0, <2>2, <2>3, <2>4 DEF AInv, Balance
<1>6. ASSUME UNCHANGED <<credited, failures, pending, selected, plan, listed, phase>>,
             Current' = Current, Ahead' = Ahead
      PROVE  AInv'
  <2>1. \A f \in Files : Accounted(f)' <=> Accounted(f)
    BY <1>6, SameAccount DEF Accounted
  <2>2. NotYet'
    BY <1>6, SameAccount DEF AInv, NotYet, Cand
  <2>3. plan \in [Targets -> SUBSET Files] /\ selected \subseteq Targets
    BY DEF IInv, TypeOK
  <2>4. phase = "remove" => Current \in Targets
    BY CurrentChosen DEF Running
  <2>5. Balance'
    BY <1>6, <2>1, <2>3, <2>4 DEF AInv, Balance, Cand
  <2>6. QED
    BY <1>6, <2>2, <2>5, SameAccount DEF AInv
<1>7. ASSUME NEW x \in Files \union Kids, x \in Ahead, phase = "remove",
             UNCHANGED <<pending, selected, plan, listed, phase>>,
             Ahead' = Ahead \ {x},
             \/ UNCHANGED credited /\ failures' = failures \union {x}
             \/ UNCHANGED failures
                /\ credited' = credited \union (plan[Current] \intersect Under(x))
      PROVE  AInv'
  <2>0. /\ Current' = Current /\ Current \in pending /\ Current \in Targets
        /\ x \in listed[Current]
    BY <1>7, CurrentChosen DEF Current, Running, Ahead, IInv, RequestsInPlace
  <2>1. \A f \in Files : f \in Under(x) <=> Area[f] = Current /\ Cand(f) = x
    BY <1>7, <2>0, UnderListed
  <2>2. \A f \in Files : Untouched(f) /\ ~(Area[f] = Current /\ Cand(f) = x) => Untouched(f)'
    BY <1>7, <2>1 DEF Untouched, FailedBy, Under
  <2>3. NotYet'
    BY <1>7, <2>0, <2>2 DEF AInv, NotYet, Cand
  <2>4. SettledApart'
    BY <1>7, <2>0, <2>1 DEF AInv, NotYet, SettledApart, Untouched, FailedBy, Under
  <2>5. \A f \in Files : Accounted(f) => Accounted(f)'
    BY <1>7 DEF Accounted, FailedBy, Under
  <2>6. \A f \in plan[Current] : Cand(f) = x => Accounted(f)'
    BY <1>7, <2>0, <2>1
    DEF Accounted, FailedBy, Under, IInv, TypeOK, PlansInPlace, In
  <2>7. Balance'
    BY <1>7, <2>0, <2>5, <2>6 DEF AInv, Balance, Cand, IInv, TypeOK
  <2>8. QED
    BY <2>3, <2>4, <2>7 DEF AInv
<1>8. ASSUME NEW x \in Files \union Kids, RefuseOp(x) PROVE AInv'
  BY <1>7, <1>8 DEF RefuseOp, Ahead
<1>9. CASE OpSucceeds \/ OpFails
  <2>1. op \in Files \union Kids /\ op \notin todo /\ phase = "remove"
    BY <1>9, UnderTyped DEF OpSucceeds, OpFails, IInv, RequestsInPlace
  <2>2. op \in Ahead /\ Ahead' = Ahead \ {op}
    BY <1>9, <2>1 DEF OpSucceeds, OpFails, Ahead
  <2>3. QED
    BY <1>7, <1>9, <2>1, <2>2 DEF OpSucceeds, OpFails
<1>10. CASE EndTarget
  <2>0. /\ UNCHANGED <<credited, failures, selected, plan, listed>> /\ phase = "remove"
        /\ phase' \in {"exec", "done"} /\ pending' = pending \ {Current}
        /\ phase' = "done" => pending' = {}
        /\ Ahead = {} /\ Current \in Targets
    BY <1>10, CurrentChosen DEF EndTarget, NextTarget, Running, Ahead
  <2>1. \A f \in Files : Accounted(f)' <=> Accounted(f)
    BY <2>0, SameAccount DEF Accounted
  <2>2. NotYet'
    BY <2>0, SameAccount DEF AInv, NotYet
  <2>3. \A t \in selected \ pending' : \A f \in plan[t] : Accounted(f)'
    BY <2>0, <2>1 DEF AInv, Balance, IInv, TypeOK
  <2>4. QED
    BY <2>0, <2>2, <2>3, SameAccount DEF AInv, Balance
<1>11. ASSUME NEW x \in Files \union Kids, BeginOp(x) PROVE AInv'
  BY <1>6, <1>11, TreeAssumption DEF BeginOp, Current, Ahead
<1>12. CASE Environment \/ UNCHANGED vars
  BY <1>6, <1>12 DEF Environment, AppStep, Cancel, vars, Current, Ahead
<1>13. QED
  BY <1>1, <1>2, <1>3, <1>4, <1>5, <1>8, <1>9, <1>10, <1>11, <1>12
  DEF Next, Execute

\* Hence both invariants hold in every reachable state.
LEMMA AccountInvariant == Spec => [](IInv /\ AInv)
  BY InductiveInvariant, InitAInv, StepAInv, PTL DEF Spec

\* Counted files and files under a failure are two kinds of settled ones.
LEMMA Apart == IInv /\ AInv => SettledOnce
BY DEF IInv, AInv, TypeOK, SettledApart, SettledOnce, FailedFiles, FailedBy

\* A planned file is never both counted as removed and reported as failed.
THEOREM AlwaysSettledOnce == Spec => []SettledOnce
BY Apart, AccountInvariant, PTL

\* When Execute returns, no planned file is in the account twice, and none has
\* dropped out of it except with a top-level child that List did not return.
THEOREM AlwaysAllAccounted == Spec => []AllAccounted
<1>1. ASSUME IInv, AInv, phase = "done", NEW f \in Planned,
             f \notin credited, f \notin FailedFiles
      PROVE  Area[f] # "docs" /\ Kid[f] \notin listed[Area[f]]
  <2>1. PICK t \in Targets : f \in plan[t]
    BY DEF Planned
  <2>2. f \in Files /\ Area[f] = t /\ t \in selected \ pending
    BY <1>1, <2>1 DEF IInv, TypeOK, PlansInPlace, In, AInv, Balance
  <2>3. Accounted(f)
    BY <1>1, <2>1, <2>2 DEF AInv, Balance
  <2>4. ~FailedBy(f)
    BY <1>1 DEF FailedFiles, FailedBy
  <2>5. QED
    BY <1>1, <2>3, <2>4 DEF Accounted
<1>2. IInv /\ AInv => AllAccounted
  BY <1>1, Apart DEF AllAccounted
<1>3. QED
  BY <1>2, AccountInvariant, PTL
===============================================================================
