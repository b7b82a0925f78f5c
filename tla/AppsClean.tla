------------------------------- MODULE AppsClean -------------------------------
(***************************************************************************)
(* One call of `ios-tidy apps clean` (runAppsClean) or of the MCP tool     *)
(* apps_clean (newAppsCleanHandler): the argument checks, the device, the  *)
(* probe gate, the sandbox session, the plan, the confirmation and the     *)
(* report, around the cleaner of SandboxCleaner.                           *)
(***************************************************************************)
EXTENDS Integers, Sequences, FiniteSets

CONSTANTS Files, Kids, Area, Kid, MaxAppOps, NoOp,  \* see SandboxCleaner
  Requests,  \* calls: bundle, include, dryRun, yes (CLI), typed and ack (MCP)
  Caches,    \* row lists that the probe store may return for the device
  Apple,     \* bundles with the com.apple. prefix
  NonAscii,  \* bundles that are not printable ASCII
  MaxNow,    \* bound on the clock, in the unit of the TTLs
  CliTTL, McpTTL

ASSUME TTLAssumption == CliTTL \in Nat /\ McpTTL \in Nat /\ McpTTL < CliTTL

VARIABLES tree, selected, phase, pending, unvisited, plan, listed, todo, op,
          credited, failures, cancelled, appOps  \* see SandboxCleaner

VARIABLES
  req,      \* the call, with the front end it came through
  pc,       \* place in the call
  rows,     \* what Load returned
  now,      \* the clock as the probe gate read it
  session,  \* the AFC session on the app's container
  reply,    \* the prompt was answered with y, or with the bundle ID
  code      \* exit code; 1 stands for an error result of the tool too

cleanerVars == <<tree, selected, phase, pending, unvisited, plan, listed, todo,
                 op, credited, failures, cancelled, appOps>>
callVars == <<req, pc, rows, now, session, reply, code>>
vars == <<cleanerVars, callVars>>

C == INSTANCE SandboxCleaner

\* The container is a tree, see SandboxCleaner.
ASSUME ContainerAssumption ==
  /\ Area \in [Files -> C!Areas] /\ Kid \in [Files -> Kids]
  /\ \A f, g \in Files : Kid[f] = Kid[g] => Area[f] = Area[g]
  /\ Files \intersect Kids = {}
  /\ C!Areas \intersect (Files \union Kids) = {}
  /\ NoOp \notin Files \union Kids \union C!Areas
  /\ MaxAppOps \in Nat

\* Requests and documents have the fields that the code reads.
ASSUME InputAssumption ==
  /\ \A r \in Requests : /\ r.front \in {"cli", "mcp"} /\ r.include \in SUBSET C!Targets
                         /\ r.dryRun \in BOOLEAN /\ r.yes \in BOOLEAN /\ r.ack \in BOOLEAN
  /\ \A c \in Caches : Len(c) \in Nat /\ \A i \in 1..Len(c) : c[i].at \in Int
ASSUME MaxNowAssumption == MaxNow \in Nat

\* No include flag at all means tmp and Library/Caches.
Include == IF req.include = {} THEN {"tmp", "caches"} ELSE req.include
Docs == "docs" \in Include

TypeOK ==
  /\ C!TypeOK
  /\ req \in Requests
  /\ pc \in {"args", "resolve", "load", "gate", "open", "work", "ask", "run", "exit"}
  /\ rows \in Caches \union {<<>>}
  /\ now \in 0..MaxNow
  /\ session \in {"none", "open", "closed"}
  /\ reply \in BOOLEAN
  /\ code \in 0..1

Init ==
  /\ C!Init
  /\ req \in Requests
  /\ pc = "args" /\ rows = <<>> /\ now = 0
  /\ session = "none" /\ reply = FALSE /\ code = 0

-------------------------------------------------------------------------------

Goto(l) == pc' = l /\ UNCHANGED <<req, session, reply, code>>

\* Mutation: the early return forgets the deferred Close.
ExitLeakMut(c) ==
  /\ pc' = "exit" /\ code' = c
  /\ UNCHANGED <<req, session, reply>>

\* Every return closes the session that Open gave.
Exit(c) ==
  /\ pc' = "exit" /\ code' = c
  /\ session' = IF session = "open" THEN "closed" ELSE session
  /\ UNCHANGED <<req, reply>>

\* The MCP tool has its confirmations in the arguments.
Rejected ==
  \/ req.bundle \in Apple \union NonAscii
  \/ req.front = "mcp" /\ req.typed = "nonascii"
  \/ /\ req.front = "mcp" /\ ~req.dryRun
     /\ req.typed # "match" \/ (Docs /\ ~req.ack)

CheckArgs ==
  /\ pc = "args"
  /\ IF Rejected THEN Exit(1) ELSE Goto("resolve")
  /\ UNCHANGED <<cleanerVars, rows, now>>

\* No device attached is a clean exit, any other failure is not.
Resolve ==
  /\ pc = "resolve"
  /\ Goto("load") \/ Exit(0) \/ Exit(1)
  /\ UNCHANGED <<cleanerVars, rows, now>>

LoadCache ==
  /\ pc = "load"
  /\ \/ rows' \in Caches /\ Goto("gate")
     \/ UNCHANGED rows /\ Exit(1)
  /\ UNCHANGED <<cleanerVars, now>>

Mine == {i \in 1..Len(rows) : rows[i].bundle = req.bundle}

\* Mutation: the last row of the bundle is taken for the newest.
LastRowMut(i) == \A j \in Mine : j <= i

\* The newest row of the bundle; of several as new, the first.
Newest(i) ==
  \A j \in Mine : rows[j].at < rows[i].at \/ (rows[j].at = rows[i].at /\ i <= j)

\* The CLI accepts a row that is exactly as old as its TTL, the tool does not.
InTime(age) == IF req.front = "cli" THEN age <= CliTTL ELSE age < McpTTL

Fresh(t) ==
  \E i \in Mine : Newest(i) /\ rows[i].outcome = "vended" /\ InTime(t - rows[i].at)

ProbeGate ==
  /\ pc = "gate"
  /\ now' \in 0..MaxNow
  /\ IF Fresh(now') THEN Goto("open") ELSE Exit(1)
  /\ UNCHANGED <<cleanerVars, rows>>

\* The daemon may refuse what it vended to the probe.
OpenSandbox ==
  /\ pc = "open"
  /\ \/ /\ ~cancelled
        /\ C!Start(Include)
        /\ pc' = "work" /\ session' = "open"
        /\ UNCHANGED <<req, reply, code>>
     \/ Exit(1) /\ UNCHANGED cleanerVars
  /\ UNCHANGED <<rows, now>>

BuildPlans ==
  /\ pc = "work" /\ C!Walk
  /\ UNCHANGED callVars

PlanFailed ==
  /\ pc = "work" /\ phase = "aborted"
  /\ Exit(1)
  /\ UNCHANGED <<cleanerVars, rows, now>>

\* Mutation: --yes skips the Documents gate too.
YesSkipsDocsMut == req.front = "cli" /\ ~req.yes

\* The typed bundle ID for Documents, whatever --yes says; y/N otherwise.
NeedsAnswer == req.front = "cli" /\ (Docs \/ ~req.yes)

\* The dry run returns between the plan and the prompts.
Decide ==
  /\ pc = "work" /\ phase = "planned"
  /\ \/ req.dryRun /\ C!Decline /\ Exit(0)
     \/ ~req.dryRun /\ NeedsAnswer /\ Goto("ask") /\ UNCHANGED cleanerVars
     \/ ~req.dryRun /\ ~NeedsAnswer /\ C!Proceed /\ Goto("run")
  /\ UNCHANGED <<rows, now>>

Answer ==
  /\ pc = "ask"
  /\ \/ C!Proceed /\ reply' = TRUE /\ pc' = "run" /\ UNCHANGED <<req, session, code>>
     \/ C!Decline /\ Exit(0)
  /\ UNCHANGED <<rows, now>>

\* Reading the answer fails.
PromptError ==
  /\ pc = "ask"
  /\ C!Decline /\ Exit(1)
  /\ UNCHANGED <<rows, now>>

\* Mutation: the prompt waits for the line whatever happens to the context.
DeafPromptMut == FALSE /\ UNCHANGED vars

\* The prompt's select sees the cancelled context.
PromptCancelled ==
  /\ pc = "ask" /\ cancelled
  /\ C!Decline /\ Exit(1)
  /\ UNCHANGED <<rows, now>>

Execute ==
  /\ pc = "run" /\ C!Execute
  /\ UNCHANGED callVars

\* Mutation: the exit code ignores the failures.
ReportZeroMut ==
  /\ pc = "run" /\ phase = "done"
  /\ Exit(0)
  /\ UNCHANGED <<cleanerVars, rows, now>>

\* The tool returns its failures in the result, the CLI in its exit code too.
Report ==
  /\ pc = "run" /\ phase = "done"
  /\ Exit(IF req.front = "cli" /\ failures # {} THEN 1 ELSE 0)
  /\ UNCHANGED <<cleanerVars, rows, now>>

Environment == C!Environment /\ UNCHANGED callVars

Program ==
  \/ CheckArgs \/ Resolve \/ LoadCache \/ ProbeGate \/ OpenSandbox
  \/ BuildPlans \/ PlanFailed \/ Decide \/ PromptCancelled \/ Execute \/ Report

Next == Program \/ Answer \/ PromptError \/ Environment

\* The program runs and requests are answered; the user need not answer.
Spec == Init /\ [][Next]_vars /\ WF_vars(Program)

-------------------------------------------------------------------------------
(* Properties *)

\* The owner has confirmed what the front end asks for: the bundle ID typed or
\* passed twice and, for Documents through the tool, the acknowledgement; for
\* the CLI without Documents a y or --yes.  A dry run confirms nothing.
Consented ==
  /\ ~req.dryRun
  /\ req.front = "mcp" => req.typed = "match" /\ (Docs => req.ack)
  /\ req.front = "cli" => reply \/ (req.yes /\ ~Docs)

Contract == INSTANCE CleanContract WITH
  consent <- Consented,
  scope <- IF phase \in {"exec", "remove"}
             THEN {f \in Files : /\ Area[f] \in selected
                                 /\ Area[f] = "docs" => f \in plan["docs"]}
             ELSE {}

\* The call implements the contract: nothing is deleted before consent, and
\* then only in the targets asked for, Documents only by the plan shown.
ImplementsContract == Contract!Spec

\* A session is opened only for an ordinary third-party bundle whose newest
\* row says vended, in time; "the freshest matching entry wins" whatever the
\* order of the rows (apps.go:392-395, tools.go:101-104).
GateSound ==
  session # "none" =>
    /\ req.bundle \notin Apple \union NonAscii
    /\ \E r \in {rows[i] : i \in Mine} :
         /\ r.outcome = "vended"
         /\ \A i \in Mine : rows[i].at <= r.at
         /\ now - r.at <= CliTTL
         /\ req.front = "mcp" => now - r.at < McpTTL

\* The session is open exactly while the call needs it; no return leaks it.
SessionScoped ==
  /\ pc = "exit" => session # "open"
  /\ op # NoOp => session = "open"

\* "Exit code is non-zero iff any per-file failure occurred" (apps.go:357-360):
\* 0 never hides a failure, and a finished deletion is not reported as failed.
ExitHonest ==
  pc = "exit" /\ req.front = "cli" =>
    /\ code = 0 => failures = {}
    /\ phase = "done" /\ code = 1 => failures # {}

\* A cancelled call returns, also from a prompt that nobody answers.
CancelReturns == cancelled ~> pc = "exit"

\* "when true, returns plans only; no Sandbox.Open / no file deletion"
\* (tools.go:1103-1104).
DryRunNeverOpens == req.front = "mcp" /\ req.dryRun => session = "none"
===============================================================================
