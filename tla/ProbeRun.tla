------------------------------- MODULE ProbeRun -------------------------------
(***************************************************************************)
(* One run of `apps probe` (or of the apps_probe tool): the loop over the  *)
(* targets, the prober, the adapter's Open with its dial goroutine, and    *)
(* the save at the end.  The dial cannot be interrupted: Open races it     *)
(* against the probe's context and leaves a goroutine behind to close a    *)
(* session that arrives too late.  The process outlives the run.           *)
(***************************************************************************)
EXTENDS Integers, Sequences, FiniteSets

CONSTANTS
  Bundles,    \* bundle IDs the user may name
  MaxTargets, \* bound on the number of targets of the run
  Failures    \* how a probe may fail

\* What the regular expressions of probe.go find in an error message; "afc" is
\* `connect afc service failed`, "refused" the rest of reRefused.
Features == {"notInstalled", "transport", "lookup", "afc", "refused"}

\* Who failed; the code only sees the text, and nothing ties one to the other.
Causes == {"missing", "transport", "policy"}

ASSUME MaxTargetsAssumption == MaxTargets \in Nat \ {0}
ASSUME FailuresAssumption == Failures \subseteq [cause : Causes, text : SUBSET Features]

Attempts == 1..MaxTargets
Vend == [cause |-> "vend", text |-> {}]
NoAnswer == [cause |-> "none", text |-> {}]
Answers == Failures \union {Vend}

VARIABLES
  targets,    \* the probe list, in order; the user may repeat a bundle
  installed,  \* bundle IDs that UserApps returned
  pc, k,      \* place in the loop, index of the current target
  cancelled,  \* the run's context is done (Ctrl-C, client gone)
  expired,    \* the current probe's deadline has passed
  dial,       \* dial[j]: the dial goroutine of attempt j and its channel
  answer,     \* answer[j]: what the device or findDevice answered
  conn,       \* conn[j]: the AFC session of attempt j
  drain,      \* attempts whose late result a goroutine waits for
  rows,       \* results so far
  saved,      \* what Save wrote
  lateDials   \* history: dials begun after the run was cancelled

vars == <<targets, installed, pc, k, cancelled, expired, dial, answer, conn,
          drain, rows, saved, lateDials>>
runVars == <<targets, installed>>
deviceVars == <<dial, answer, conn, drain, lateDials>>

Refusals == {"lookup", "afc", "refused"}
Outcomes == {"vended", "refused", "error", "unknown"}
Row == [bundle : Bundles, outcome : Outcomes]

TypeOK ==
  /\ targets \in Seq(Bundles)
  /\ installed \in SUBSET Bundles
  /\ pc \in {"loop", "open", "dial", "wait", "close", "done", "failed"}
  /\ k \in 1..(MaxTargets + 1)
  /\ cancelled \in BOOLEAN /\ expired \in BOOLEAN
  /\ dial \in [Attempts -> {"none", "flying", "posted", "received", "drained"}]
  /\ answer \in [Attempts -> Answers \union {NoAnswer}]
  /\ conn \in [Attempts -> {"none", "open", "closed"}]
  /\ drain \in SUBSET Attempts
  /\ rows \in Seq(Row) /\ Len(rows) = k - 1
  /\ saved \in Seq(Row)
  /\ lateDials \in Nat

Init ==
  /\ targets \in UNION {[1..n -> Bundles] : n \in Attempts}
  /\ installed \in SUBSET Bundles
  /\ pc = "loop" /\ k = 1
  /\ cancelled = FALSE /\ expired = FALSE
  /\ dial = [j \in Attempts |-> "none"]
  /\ answer = [j \in Attempts |-> NoAnswer]
  /\ conn = [j \in Attempts |-> "none"]
  /\ drain = {}
  /\ rows = <<>> /\ saved = <<>>
  /\ lateDials = 0

-------------------------------------------------------------------------------

\* Mutation: the refusal pattern is tried before the transport pattern.
RefusedFirstMut(m) ==
  IF "notInstalled" \in m THEN "unknown"
  ELSE IF m \intersect Refusals # {} THEN "refused"
  ELSE "error"

Classify(m) ==
  IF "notInstalled" \in m THEN "unknown"
  ELSE IF "transport" \in m THEN "error"
  ELSE IF m \intersect Refusals # {} THEN "refused"
  ELSE "error"

\* Both a deadline and a cancelled parent end the probe's context.
CtxDone == cancelled \/ expired

\* The probe of the current target returns; cancel() stops its timer.
Record(o) ==
  /\ rows' = Append(rows, [bundle |-> targets[k], outcome |-> o])
  /\ k' = k + 1
  /\ pc' = "loop"
  /\ expired' = FALSE
  /\ UNCHANGED <<runVars, cancelled, saved>>

Goto(l) == pc' = l /\ UNCHANGED <<runVars, k, cancelled, expired, rows, saved>>

\* Not installed: a row without a dial.
Skip ==
  /\ pc = "loop" /\ k <= Len(targets) /\ targets[k] \notin installed
  /\ Record("unknown")
  /\ UNCHANGED deviceVars

BeginProbe ==
  /\ pc = "loop" /\ k <= Len(targets) /\ targets[k] \in installed
  /\ Goto("open")
  /\ UNCHANGED deviceVars

\* Mutation: Open dials without looking at the context first.
NoCheckMut ==
  /\ pc = "open"
  /\ Goto("dial")
  /\ UNCHANGED deviceVars

\* Open's entry check, then findDevice, which takes its time and may fail.
Check ==
  /\ pc = "open"
  /\ \/ CtxDone /\ Record("error") /\ UNCHANGED deviceVars
     \/ ~CtxDone /\ Goto("dial") /\ UNCHANGED deviceVars
     \/ /\ ~CtxDone
        /\ \E f \in {g \in Failures : g.cause = "transport"} :
             /\ answer' = [answer EXCEPT ![k] = f]
             /\ Record(Classify(f.text))
        /\ UNCHANGED <<dial, conn, drain, lateDials>>

Spawn ==
  /\ pc = "dial"
  /\ dial' = [dial EXCEPT ![k] = "flying"]
  /\ lateDials' = lateDials + (IF cancelled THEN 1 ELSE 0)
  /\ Goto("wait")
  /\ UNCHANGED <<answer, conn, drain>>

\* house_arrest.New returns on its goroutine and posts to the buffered channel.
Answer(j) ==
  /\ dial[j] = "flying"
  /\ dial' = [dial EXCEPT ![j] = "posted"]
  /\ \E a \in Answers :
       /\ answer' = [answer EXCEPT ![j] = a]
       /\ conn' = [conn EXCEPT ![j] = IF a = Vend THEN "open" ELSE @]
  /\ UNCHANGED <<runVars, pc, k, cancelled, expired, drain, rows, saved, lateDials>>

\* Mutation: a cancelled Open returns without a goroutine to close the session.
NoDrainMut ==
  /\ pc = "wait" /\ CtxDone
  /\ Record("error")
  /\ UNCHANGED deviceVars

\* Mutation: Open waits for the dial whatever happens to the context.
BlockingOpenMut == FALSE /\ UNCHANGED vars

\* select on ctx.Done(): either case may win when both are ready.
GiveUp ==
  /\ pc = "wait" /\ CtxDone
  /\ drain' = drain \union {k}
  /\ Record("error")
  /\ UNCHANGED <<dial, answer, conn, lateDials>>

Receive ==
  /\ pc = "wait" /\ dial[k] = "posted"
  /\ dial' = [dial EXCEPT ![k] = "received"]
  /\ IF answer[k] = Vend THEN Goto("close") ELSE Record(Classify(answer[k].text))
  /\ UNCHANGED <<answer, conn, drain, lateDials>>

\* Probe only wanted to know whether the daemon vends.
CloseProbe ==
  /\ pc = "close"
  /\ conn' = [conn EXCEPT ![k] = "closed"]
  /\ Record("vended")
  /\ UNCHANGED <<dial, answer, drain, lateDials>>

\* Mutation: the goroutine receives the late session and forgets to close it.
DrainNoCloseMut(j) ==
  /\ j \in drain /\ dial[j] = "posted"
  /\ dial' = [dial EXCEPT ![j] = "drained"]
  /\ drain' = drain \ {j}
  /\ UNCHANGED <<runVars, pc, k, cancelled, expired, rows, saved, answer, conn, lateDials>>

Drain(j) ==
  /\ j \in drain /\ dial[j] = "posted"
  /\ dial' = [dial EXCEPT ![j] = "drained"]
  /\ drain' = drain \ {j}
  /\ conn' = [conn EXCEPT ![j] = IF @ = "open" THEN "closed" ELSE @]
  /\ UNCHANGED <<runVars, pc, k, cancelled, expired, rows, saved, answer, lateDials>>

\* Mutation: an interrupted run stops at once and saves what it has.
SaveEarlyMut ==
  /\ pc = "loop" /\ (k > Len(targets) \/ cancelled)
  /\ saved' = rows
  /\ pc' = "done"
  /\ UNCHANGED <<runVars, k, cancelled, expired, rows, deviceVars>>

\* The whole list replaces the device's cache, cancelled or not; Save may fail.
Save ==
  /\ pc = "loop" /\ k > Len(targets)
  /\ \/ saved' = rows /\ pc' = "done"
     \/ UNCHANGED saved /\ pc' = "failed"
  /\ UNCHANGED <<runVars, k, cancelled, expired, rows, deviceVars>>

Expire ==
  /\ pc \in {"open", "dial", "wait", "close"} /\ ~expired
  /\ expired' = TRUE
  /\ UNCHANGED <<runVars, pc, k, cancelled, rows, saved, deviceVars>>

Interrupt ==
  /\ ~cancelled
  /\ cancelled' = TRUE
  /\ UNCHANGED <<runVars, pc, k, expired, rows, saved, deviceVars>>

Caller ==
  \/ Skip \/ BeginProbe \/ Check \/ Spawn \/ GiveUp \/ Receive
  \/ CloseProbe \/ Save

Next ==
  \/ Caller
  \/ \E j \in Attempts : Answer(j) \/ Drain(j)
  \/ Expire
  \/ Interrupt

\* The goroutines run and the timer fires; the device need not ever answer.
Fairness ==
  /\ WF_vars(Caller)
  /\ WF_vars(Expire)
  /\ \A j \in Attempts : WF_vars(Drain(j))

Spec == Init /\ [][Next]_vars /\ Fairness

-------------------------------------------------------------------------------
(* Properties *)

\* An open AFC session always has somebody who will close it: the probe that
\* is waiting for it or holds it, or the goroutine left behind by a timeout
\* ("we drain the result and Close the client to avoid leaking", sandbox.go:12).
ConnOwned ==
  \A j \in Attempts : conn[j] = "open" =>
    j \in drain \/ (j = k /\ pc \in {"wait", "close"})

\* The error that Open returned is the answer of this attempt.
Heard(j) == answer[j] \in Failures /\ dial[j] \in {"none", "received"}

\* A row goes by what its own attempt brought back in time: it says "vended"
\* exactly for a session that Open received, a timeout or a late answer is never
\* a verdict ("NOT a daemon refusal", probe.go:116-119), and wording that names
\* the transport or a missing app wins over wording that also sounds like a
\* refusal (probe.go:36-41, 138-149).
RowsTruthful ==
  \A j \in 1..Len(rows) :
    /\ rows[j].outcome = "vended" <=> dial[j] = "received" /\ answer[j] = Vend
    /\ rows[j].outcome = "refused" =>
         /\ Heard(j)
         /\ answer[j].text \intersect Refusals # {}
         /\ answer[j].text \intersect {"notInstalled", "transport"} = {}
    /\ rows[j].outcome = "unknown" =>
         \/ rows[j].bundle \notin installed
         \/ Heard(j) /\ "notInstalled" \in answer[j].text

\* After an interrupt at most the dial whose check had already passed begins.
FewLateDials == lateDials <= 1

\* The saved document has one row per target, in order, even if the run was
\* cancelled half-way: the targets not reached get an "error" row.
SavedCoversTargets ==
  pc = "done" => [j \in 1..Len(saved) |-> saved[j].bundle] = targets

\* The run ends although a dial may hang for ever: every probe is bounded by
\* its timeout (apps.go:657-661).
RunEnds == <>(pc \in {"done", "failed"})

\* Every session the device vends is closed, also one that arrives late.
SessionsClosed == \A j \in Attempts : conn[j] = "open" ~> conn[j] = "closed"

\* "house_arrest is single-flight per device, so we MUST NOT run probes
\* concurrently" (apps.go:657-658): one dial or session at a time.
SingleFlight ==
  Cardinality({j \in Attempts : dial[j] = "flying" \/ conn[j] = "open"}) <= 1

\* "ProbeRefused means the daemon refused", ProbeError "a transport / connection
\* failure" (probe.go:61-64).  The text decides, not who failed.
RefusalIsPolicy ==
  \A j \in 1..Len(rows) : rows[j].outcome = "refused" => answer[j].cause = "policy"

\* "unknown": app not installed or InstallationLookupFailed (tools.go:301-302).
LookupIsUnknown ==
  \A j \in 1..Len(rows) : Heard(j) /\ answer[j].text = {"lookup"} =>
    rows[j].outcome = "unknown"

\* `connect afc service failed` is classified as a transport error, as opposed to
\* a policy refusal (README.md:192-194).
AfcIsTransport ==
  \A j \in 1..Len(rows) : Heard(j) /\ answer[j].text = {"afc"} =>
    rows[j].outcome = "error"
===============================================================================
