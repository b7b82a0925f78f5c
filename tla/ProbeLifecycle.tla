---------------------------- MODULE ProbeLifecycle ----------------------------
(***************************************************************************)
(* The probe cache over time.  Runs of `apps probe` and apps_probe replace *)
(* the document of one device; calls of `apps clean`, apps_clean and       *)
(* storage_recommendations read it later and believe it, while the daemon  *)
(* changes its mind and the clock runs or is set back.  The store is the   *)
(* register of ProbeCache, which ProbeStore implements; ProbeRun has the   *)
(* inside of a probe and AppsClean the choice among rows of one bundle,    *)
(* so here a run names each bundle once.                                   *)
(***************************************************************************)
EXTENDS Integers, FiniteSets

CONSTANTS
  Bundles,
  Runs,     \* processes and tool calls that probe
  Calls,    \* processes and tool calls that read the cache
  Device,   \* the device they all mean
  CliTTL, McpTTL,
  ProbeTime, \* bound on the time from the daemon's answer to the row's stamp
  MaxProbes, \* bound on the number of probes
  MaxNow,    \* bound on the time
  MaxBack    \* bound on how far the host's clock is set back

ASSUME TimeAssumption ==
  /\ CliTTL \in Nat /\ McpTTL \in Nat /\ McpTTL < CliTTL
  /\ ProbeTime \in Nat /\ MaxProbes \in Nat /\ MaxNow \in Nat /\ MaxBack \in Nat

\* An app that was not installed ("unknown") is to every reader an error.
Outcomes == {"vended", "refused", "error"}
Row == [bundle : Bundles, outcome : Outcomes, at : Int]

VARIABLES
  now,      \* time
  back,     \* how far the host's clock is behind it
  cache,    \* the device's document, see ProbeCache
  view,     \* what the latest Load of a call returned
  run,      \* run[r]: targets left, rows so far, the answer not yet stamped
  call,     \* call[c]: place, front end, bundle
  probes,   \* probes so far
  lastVend, \* history: when the daemon last vended the bundle to a probe
  lastSaid  \* history: the last row about the bundle that any run has saved

vars == <<now, back, cache, view, run, call, probes, lastVend, lastSaid>>
clock == <<now, back>>
store == <<cache, view>>
history == <<probes, lastVend, lastSaid>>

\* A missing document reads as an empty one; a Load that fails ends a clean,
\* and the recommendations swallow it and go on without rows.
Store == INSTANCE ProbeCache WITH
  Procs <- Calls, Udids <- {Device}, Docs <- SUBSET Row, NoDoc <- {}, LoadErr <- {}

Wall == now - back
Never == [outcome |-> "never", at |-> 0]

Idle == [pc |-> "idle", todo |-> {}, rows |-> {}]

\* A document has one row for a bundle (apps.go:429-433).
OneRowEach(rows) == \A x, y \in rows : x.bundle = y.bundle => x = y

TypeOK ==
  /\ now \in 0..MaxNow /\ back \in 0..MaxBack /\ probes \in 0..MaxProbes
  /\ Store!TypeOK
  /\ OneRowEach(cache[Device])
  /\ \A r \in Runs :
       /\ run[r].pc \in {"idle", "next", "stamp"}
       /\ run[r].todo \in SUBSET Bundles /\ run[r].rows \in SUBSET Row
       /\ OneRowEach(run[r].rows)
       /\ run[r].pc = "stamp" => /\ run[r].asked \in Bundles
                                 /\ run[r].said \in Outcomes
                                 /\ run[r].since \in 0..now
  /\ \A c \in Calls :
       /\ call[c].pc \in {"idle", "gate", "open", "advise"}
       /\ call[c].pc \in {"gate", "open"} =>
            /\ call[c].front \in {"cli", "mcp"}
            /\ call[c].bundle \in Bundles
            /\ call[c].told \in Row \union {Never}
  /\ lastVend \in [Bundles -> 0..now \union {-1}]
  /\ lastSaid \in [Bundles -> Row \union {Never}]

Init ==
  /\ now = 0 /\ back = 0 /\ probes = 0
  /\ Store!Init
  /\ run = [r \in Runs |-> Idle]
  /\ call = [c \in Calls |-> [pc |-> "idle"]]
  /\ lastVend = [b \in Bundles |-> -1]
  /\ lastSaid = [b \in Bundles |-> Never]

-------------------------------------------------------------------------------
(* apps probe, apps_probe *)

\* The bundles named, or all apps that the device has, which may be none.
Begin(r, targets) ==
  /\ run[r].pc = "idle"
  /\ run' = [run EXCEPT ![r] = [Idle EXCEPT !.pc = "next", !.todo = targets]]
  /\ UNCHANGED <<clock, store, call, history>>

\* The daemon vends or refuses as it likes that day, or the probe learns
\* neither: a timeout, a transport failure, an app that is not installed.
Probe(r, b) ==
  /\ run[r].pc = "next" /\ b \in run[r].todo
  /\ probes < MaxProbes /\ probes' = probes + 1
  /\ \E said \in Outcomes :
       /\ run' = [run EXCEPT ![r] =
                    [pc |-> "stamp", todo |-> @.todo \ {b}, rows |-> @.rows,
                     asked |-> b, said |-> said, since |-> now]]
       /\ lastVend' = IF said = "vended" THEN [lastVend EXCEPT ![b] = now] ELSE lastVend
  /\ UNCHANGED <<clock, store, call, lastSaid>>

\* The row carries the host's clock after Open has returned.
Stamp(r) ==
  /\ run[r].pc = "stamp"
  /\ run' = [run EXCEPT ![r] =
               [pc |-> "next", todo |-> @.todo,
                rows |-> @.rows \union
                         {[bundle |-> @.asked, outcome |-> @.said, at |-> Wall]}]]
  /\ UNCHANGED <<clock, store, call, history>>

\* Mutation: all rows carry the time of the save.
StampAtSaveMut(r) == {[row EXCEPT !.at = Wall] : row \in run[r].rows}

\* Only the rows of this run: Save replaces the document.
Document(r) == run[r].rows

Said(r, b) ==
  IF \E row \in run[r].rows : row.bundle = b
    THEN CHOOSE row \in run[r].rows : row.bundle = b ELSE lastSaid[b]

\* Mutation: a run without a vended row has nothing to save.
SkipEmptyMut(r) ==
  /\ run[r].pc = "next" /\ run[r].todo = {}
  /\ IF \E row \in run[r].rows : row.outcome = "vended"
       THEN Store!Save(Device, Document(r)) ELSE UNCHANGED store
  /\ lastSaid' = [b \in Bundles |-> Said(r, b)]
  /\ run' = [run EXCEPT ![r] = Idle]
  /\ UNCHANGED <<clock, call, probes, lastVend>>

Save(r) ==
  /\ run[r].pc = "next" /\ run[r].todo = {}
  /\ Store!Save(Device, Document(r))
  /\ lastSaid' = [b \in Bundles |-> Said(r, b)]
  /\ run' = [run EXCEPT ![r] = Idle]
  /\ UNCHANGED <<clock, call, probes, lastVend>>

\* Save returns an error and the run reports it, or the process dies.
RunDies(r) ==
  /\ run[r].pc # "idle"
  /\ run' = [run EXCEPT ![r] = Idle]
  /\ UNCHANGED <<clock, store, call, history>>

-------------------------------------------------------------------------------
(* apps clean, apps_clean and storage_recommendations *)

LoadToClean(c, front, b) ==
  /\ call[c].pc = "idle"
  /\ Store!Load(c, Device)
  /\ call' = [call EXCEPT ![c] =
                [pc |-> "gate", front |-> front, bundle |-> b, told |-> lastSaid[b]]]
  /\ UNCHANGED <<clock, run, history>>

LoadToAdvise(c) ==
  /\ call[c].pc = "idle"
  /\ Store!Load(c, Device) \/ Store!Fail(c)
  /\ call' = [call EXCEPT ![c] = [pc |-> "advise"]]
  /\ UNCHANGED <<clock, run, history>>

InTime(front, age) == IF front = "cli" THEN age <= CliTTL ELSE age < McpTTL

Fresh(c, front, b) ==
  \E row \in view[c] :
    row.bundle = b /\ row.outcome = "vended" /\ InTime(front, Wall - row.at)

\* The gate reads the clock after Load has returned.
Gate(c) ==
  /\ call[c].pc = "gate"
  /\ IF Fresh(c, call[c].front, call[c].bundle)
       THEN call' = [call EXCEPT ![c].pc = "open"] /\ UNCHANGED store
       ELSE call' = [call EXCEPT ![c] = [pc |-> "idle"]] /\ Store!Fail(c)
  /\ UNCHANGED <<clock, run, history>>

\* Bundles of which the payload says that apps_clean can clean them.
Advice(c) ==
  {b \in Bundles : \E row \in view[c] : row.bundle = b /\ row.outcome = "vended"}

\* The session or the payload ends the call, and what it had read is gone.
Return(c) ==
  /\ call[c].pc \in {"open", "advise"}
  /\ Store!Fail(c)
  /\ call' = [call EXCEPT ![c] = [pc |-> "idle"]]
  /\ UNCHANGED <<clock, run, history>>

-------------------------------------------------------------------------------
(* The device and the host *)

\* A probe that has its answer stamps it before its timeout is over.
Tick ==
  /\ now < MaxNow
  /\ \A r \in Runs : run[r].pc = "stamp" => now - run[r].since < ProbeTime
  /\ now' = now + 1
  /\ UNCHANGED <<back, store, run, call, history>>

SetBack ==
  /\ back < MaxBack
  /\ back' = back + 1
  /\ UNCHANGED <<now, store, run, call, history>>

RunStep(r) ==
  \/ \E targets \in SUBSET Bundles : Begin(r, targets)
  \/ \E b \in Bundles : Probe(r, b)
  \/ Stamp(r) \/ Save(r) \/ RunDies(r)

CallStep(c) ==
  \/ \E front \in {"cli", "mcp"}, b \in Bundles : LoadToClean(c, front, b)
  \/ LoadToAdvise(c) \/ Gate(c) \/ Return(c)

Next ==
  \/ \E r \in Runs : RunStep(r)
  \/ \E c \in Calls : CallStep(c)
  \/ Tick \/ SetBack

Spec == Init /\ [][Next]_vars

-------------------------------------------------------------------------------
(* Properties *)

Passes(c) == call[c].pc = "gate" /\ call'[c].pc = "open"
Refuses(c) == call[c].pc = "gate" /\ call'[c].pc = "idle"

\* The daemon has vended the call's bundle to a probe no longer ago than the
\* limit of the front end, the time to stamp a row, and a skew allow.
InLimit(c, skew) ==
  /\ lastVend[call[c].bundle] >= 0
  /\ InTime(call[c].front, now - lastVend[call[c].bundle] - ProbeTime - skew)

\* Whenever the gate lets a call through, the daemon has vended this very
\* bundle to some probe within the limit of the front end, "refused once it is
\* at least 5 minutes old" (docs/MCP.md:131-133) and 24 hours for the command,
\* but for what the host's clock was set back.
VendedLately == [][\A c \in Calls : Passes(c) => InLimit(c, MaxBack)]_vars

\* The same without an allowance for the clock, which docs/MCP.md does not make
\* either; refuted where the clock is set back.
VendedOnTime == [][\A c \in Calls : Passes(c) => InLimit(c, 0)]_vars

\* The gate never goes behind the last answer that was saved: a bundle that
\* the latest saved probe of it found refused, in error or not installed is
\* not opened on the strength of an older row, whichever other bundles were
\* probed since (docs/MCP.md:152-155).
LastAnswerCounts ==
  [][\A c \in Calls : Passes(c) => call[c].told.outcome = "vended"]_vars

\* Nor does the advice, which believes rows of any age
\* (recommendations.go:223): what is to be cleaned by apps_clean is a bundle of
\* which the last answer saved is that the daemon vended it.
AdviceOnLast ==
  [][\A c \in Calls : call[c].pc = "idle" /\ call'[c].pc = "advise" =>
       \A b \in Advice(c)' : lastSaid[b].outcome = "vended" /\ lastVend[b] >= 0]_vars

\* apps_clean refuses for the reasons that docs/MCP.md:150-155 gives: the last
\* recorded answer about the bundle is another one, there is none, or the
\* vended one has aged out.
RefusalExplained ==
  [][\A c \in Calls : Refuses(c) /\ call[c].front = "mcp" =>
       \/ call[c].told.outcome # "vended"
       \/ Wall - call[c].told.at >= McpTTL]_vars

\* "every Action MUST be reachable via either an existing ios-tidy MCP tool or
\* a user-on-device step" (recommendations.go:52-55): what the payload says
\* that "apps_clean can remove" passes the gate of apps_clean.
AdviceActionable ==
  [][\A c \in Calls : call[c].pc = "idle" /\ call'[c].pc = "advise" =>
       (\A b \in Advice(c) : Fresh(c, "mcp", b))']_vars
===============================================================================
