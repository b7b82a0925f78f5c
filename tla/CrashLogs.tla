------------------------------- MODULE CrashLogs -------------------------------
(***************************************************************************)
(* Calls of crashlogs list, pull and clean, from the command line and      *)
(* through the MCP tools, against one device and one host directory.       *)
(* Every call works by pattern: it lists, asks about what it listed, and   *)
(* then hands the pattern, not the list, to one bulk operation that walks  *)
(* the device again.  Meanwhile iOS writes and rotates reports, and other  *)
(* calls pull and delete.                                                  *)
(***************************************************************************)
EXTENDS Integers, FiniteSets

CONSTANTS
  Calls,     \* concurrent calls
  Commands,  \* [front, kind, pattern, sure, dry, out], see Command
  Reports,   \* reports that ever exist; a name is never used twice
  Patterns, Match,  \* Match[g]: the reports whose base name matches g
  Star, Empty       \* the patterns "*" and ""

\* What validatePullOutPath looks at in a destination.
Out == [abs : BOOLEAN, inside : BOOLEAN, sensitive : BOOLEAN,
        entry : {"none", "file", "link", "dir"}]

\* sure is --force, --yes or the tool's confirm; "quoted" is a JSON string,
\* which no flag can be.
Command ==
  {c \in [front : {"cli", "mcp"}, kind : {"list", "pull", "clean"},
           pattern : Patterns, sure : {"no", "yes", "quoted"},
           dry : BOOLEAN, out : Out] :
     c.front = "cli" => c.sure # "quoted"}

ASSUME CommandsAssumption == Commands \subseteq Command
ASSUME PatternsAssumption ==
  /\ Star \in Patterns /\ Empty \in Patterns
  /\ Match \in [Patterns -> SUBSET Reports]
  /\ Match[Star] = Reports /\ Match[Empty] = {}

VARIABLES
  device,  \* reports on the device
  fresh,   \* reports not written yet
  host,    \* host[r]: the file at r's path below the destination
  run      \* run[p]: the state of call p, see Run

vars == <<device, fresh, host, run>>

PCs == {"args", "resolve", "list", "stat", "mkdir", "scan", "ask",
        "remove", "sum", "purge", "pull", "count", "download", "exit"}

\* From the listing inside Pull or Remove on.
Bulk == {"sum", "purge", "count", "download"}

Run == [cmd : Commands, pc : PCs,
        cancel : {"no", "early", "late"},  \* before or in its bulk operation
        listed : SUBSET Reports,    \* the entries that List returned
        left : SUBSET Reports,      \* entries that the pre-scan has not seen
        accepted : SUBSET Reports, declined : SUBSET Reports,
        counted : SUBSET Reports,   \* what the result will count
        agreed : BOOLEAN,           \* the deletion was answered with y
        walk : SUBSET Reports,      \* what the bulk operation has still to do
        removed : SUBSET Reports, written : SUBSET Reports,
        replaced : SUBSET Reports,  \* files from before all calls it overwrote
        code : 0..1]

TypeOK ==
  /\ device \in SUBSET Reports /\ fresh \in SUBSET Reports
  /\ device \intersect fresh = {}
  /\ host \in [Reports -> {"none", "old", "part", "new"}]
  /\ run \in [Calls -> Run]

Init ==
  /\ fresh \in SUBSET Reports /\ device = Reports \ fresh
  /\ host \in [Reports -> {"none", "old"}]
  /\ run \in [Calls ->
       {[cmd |-> c, pc |-> "args", cancel |-> "no", listed |-> {},
         left |-> {}, accepted |-> {}, declined |-> {}, counted |-> {},
         agreed |-> FALSE, walk |-> {}, removed |-> {}, written |-> {}, replaced |-> {},
         code |-> 0] : c \in Commands}]

-------------------------------------------------------------------------------

At(p, l) == run[p].pc = l
Cancelled(p) == run[p].cancel # "no"
Goto(p, l) == run' = [run EXCEPT ![p].pc = l]
Exit(p, c) == run' = [run EXCEPT ![p].pc = "exit", ![p].code = c]
world == <<device, fresh, host>>

\* The tool reads confirm with GetBool, which accepts a string too.
Confirmed(c) == c.sure \in {"yes", "quoted"}

\* Mutation: clean does not look at --dry-run.
NoDryRunMut(c) == c.kind = "list" \/ (c.front = "mcp" /\ ~Confirmed(c))

\* Calls that return after listing.
ReadOnly(c) ==
  \/ c.kind = "list"
  \/ c.kind = "clean" /\ IF c.front = "cli" THEN c.dry ELSE ~Confirmed(c)

PullAllowed(o) == o.abs /\ o.inside /\ ~o.sensitive /\ o.entry = "dir"

CheckArgs(p) ==
  LET c == run[p].cmd IN
  /\ At(p, "args")
  /\ IF c.kind = "pull" /\ c.front = "mcp" /\ ~PullAllowed(c.out)
       THEN Exit(p, 1) ELSE Goto(p, "resolve")
  /\ UNCHANGED world

\* The tools that act call the client at once: they have nobody to ask.
FirstCall(c) ==
  IF c.front = "cli" \/ ReadOnly(c) THEN "list"
  ELSE IF c.kind = "pull" THEN "pull" ELSE "remove"

Resolve(p) ==
  /\ At(p, "resolve")
  /\ Goto(p, FirstCall(run[p].cmd)) \/ Exit(p, 0) \/ Exit(p, 1)
  /\ UNCHANGED world

\* List and Pull take an empty pattern for "*", Remove does not.
Listing(g) == device \intersect Match[IF g = Empty THEN Star ELSE g]
Removing(g) == device \intersect Match[g]

\* The client's functions return at once when the context is cancelled.
Refused(p) ==
  /\ run[p].pc \in {"list", "pull", "remove"} /\ Cancelled(p)
  /\ Exit(p, 1)
  /\ UNCHANGED world

\* A request to the device, a system call or the reading of an answer fails.
Fails(p) ==
  /\ run[p].pc \in {"list", "stat", "mkdir", "scan", "ask",
                    "remove", "sum", "pull", "count", "download", "purge"}
  /\ Exit(p, 1)
  /\ UNCHANGED world

List(p) ==
  /\ At(p, "list") /\ ~Cancelled(p)
  /\ run' = [run EXCEPT ![p].pc = "stat",
                        ![p].listed = Listing(run[p].cmd.pattern)]
  /\ UNCHANGED world

\* Where runCrashLogsPull and runCrashlogsClean go with their entries.
AfterList(p) ==
  LET c == run[p].cmd IN
  CASE c.kind = "pull" -> Goto(p, "mkdir")
    [] ReadOnly(c) \/ (c.kind = "clean" /\ run[p].listed = {}) -> Exit(p, 0)
    [] OTHER -> Goto(p, IF c.sure = "no" THEN "ask" ELSE "remove")

\* The loop over the entries looks at the context before each Stat, and keeps
\* an entry whose Stat fails.
Stat(p) ==
  /\ At(p, "stat")
  /\ IF Cancelled(p) /\ run[p].listed # {} THEN Exit(p, 1) ELSE AfterList(p)
  /\ UNCHANGED world

-------------------------------------------------------------------------------
(* crashlogs pull *)

\* MkdirAll of --out, cancelled or not, and also when nothing is listed; host has
\* files only, so that an empty directory may stay behind.  With --force the
\* pre-scan has nothing to look at.
MakeOut(p) ==
  /\ At(p, "mkdir")
  /\ run' = [run EXCEPT ![p].pc = "scan",
               ![p].left = IF run[p].cmd.sure = "no" THEN run[p].listed ELSE {}]
  /\ UNCHANGED world

\* The pre-scan, in any order: an entry without a file needs no answer.
ScanSkips(p) ==
  /\ At(p, "scan")
  /\ \E r \in run[p].left :
       /\ host[r] = "none"
       /\ run' = [run EXCEPT ![p].left = @ \ {r}]
  /\ UNCHANGED world

Overwrite(p) ==
  /\ At(p, "scan")
  /\ \E r \in run[p].left :
       /\ host[r] # "none"
       /\ \/ run' = [run EXCEPT ![p].left = @ \ {r}, ![p].accepted = @ \union {r}]
          \/ run' = [run EXCEPT ![p].left = @ \ {r}, ![p].declined = @ \union {r}]
  /\ UNCHANGED world

\* Mutation: the files declined are forgotten when the pre-scan ends.
ScanForgetsMut(p) ==
  /\ At(p, "scan") /\ run[p].left = {}
  /\ Goto(p, "pull")
  /\ UNCHANGED world

\* One declined file abandons the pull: the bulk operation cannot skip it.
ScanEnds(p) ==
  /\ At(p, "scan") /\ run[p].left = {}
  /\ IF run[p].declined = {} THEN Goto(p, "pull") ELSE Exit(p, 1)
  /\ UNCHANGED world

\* Mutation: Pull and its List begin without a look at the context.
PullUncheckedMut(p) ==
  /\ At(p, "pull")
  /\ run' = [run EXCEPT ![p].pc = "count",
                        ![p].counted = Listing(run[p].cmd.pattern)]
  /\ UNCHANGED world

\* Pull lists once more: what it finds is what it will report as pulled.
Pull(p) ==
  /\ At(p, "pull") /\ ~Cancelled(p)
  /\ run' = [run EXCEPT ![p].pc = "count",
                        ![p].counted = Listing(run[p].cmd.pattern)]
  /\ UNCHANGED world

StartDownload(p) ==
  /\ At(p, "count")
  /\ IF Cancelled(p) /\ run[p].counted # {}
       THEN Exit(p, 1)
       ELSE run' = [run EXCEPT ![p].pc = "download",
                               ![p].walk = Listing(run[p].cmd.pattern)]
  /\ UNCHANGED world

Overwritten(p, r) ==
  IF host[r] = "old" THEN run[p].replaced \union {r} ELSE run[p].replaced

\* DownloadReports fetches the reports of its own walk one by one.
Download(p) ==
  /\ At(p, "download")
  /\ \E r \in run[p].walk \intersect device :
       /\ host' = [host EXCEPT ![r] = "new"]
       /\ run' = [run EXCEPT ![p].walk = @ \ {r}, ![p].written = @ \union {r},
                             ![p].replaced = Overwritten(p, r)]
  /\ UNCHANGED <<device, fresh>>

\* Mutation: a report that cannot be fetched does not stop the download.
DownloadSkipsMut(p) ==
  /\ At(p, "download")
  /\ \E r \in run[p].walk :
       /\ host' = [host EXCEPT ![r] = "part"]
       /\ run' = [run EXCEPT ![p].walk = @ \ {r}]
  /\ UNCHANGED <<device, fresh>>

\* The first one that cannot be fetched ends it and leaves a piece behind.
DownloadBreaks(p) ==
  /\ At(p, "download")
  /\ \E r \in run[p].walk :
       /\ host' = [host EXCEPT ![r] = "part"]
       /\ run' = [run EXCEPT ![p].pc = "exit", ![p].code = 1,
                             ![p].replaced = Overwritten(p, r)]
  /\ UNCHANGED <<device, fresh>>

-------------------------------------------------------------------------------
(* crashlogs clean *)

Confirm(p) ==
  /\ At(p, "ask")
  /\ \/ run' = [run EXCEPT ![p].pc = "remove", ![p].agreed = TRUE]
     \/ Exit(p, 0)
  /\ UNCHANGED world

\* Mutation: a prompt waits for its line whatever happens to the context.
DeafPromptMut(p) == FALSE /\ UNCHANGED vars

\* A prompt, of pull or of clean, sees the cancelled context.
PromptCancelled(p) ==
  /\ At(p, "ask") \/ (At(p, "scan") /\ \E r \in run[p].left : host[r] # "none")
  /\ Cancelled(p)
  /\ Exit(p, 1)
  /\ UNCHANGED world

\* Remove lists what the pattern names now: this is what it will report.
Remove(p) ==
  /\ At(p, "remove") /\ ~Cancelled(p)
  /\ run' = [run EXCEPT ![p].pc = "sum",
                        ![p].counted = Removing(run[p].cmd.pattern)]
  /\ UNCHANGED world

\* RemoveReports walks once more, and nothing looks at the context any more.
StartPurge(p) ==
  /\ At(p, "sum")
  /\ run' = [run EXCEPT ![p].pc = "purge",
                        ![p].walk = Removing(run[p].cmd.pattern)]
  /\ UNCHANGED world

Purge(p) ==
  /\ At(p, "purge")
  /\ \E r \in run[p].walk \intersect device :
       /\ device' = device \ {r}
       /\ run' = [run EXCEPT ![p].walk = @ \ {r}, ![p].removed = @ \union {r}]
  /\ UNCHANGED <<fresh, host>>

\* A report that is gone already cannot be removed, and the call gives up.
PurgeBreaks(p) ==
  /\ At(p, "purge") /\ run[p].walk \ device # {}
  /\ Exit(p, 1)
  /\ UNCHANGED world

\* Neither bulk operation names the reports it failed for: no error, no failure.
BulkEnds(p) ==
  /\ run[p].pc \in {"download", "purge"} /\ run[p].walk = {}
  /\ Exit(p, 0)
  /\ UNCHANGED world

-------------------------------------------------------------------------------
(* iOS and the signal *)

Appear ==
  /\ \E r \in fresh : fresh' = fresh \ {r} /\ device' = device \union {r}
  /\ UNCHANGED <<host, run>>

Rotate ==
  /\ \E r \in device : device' = device \ {r}
  /\ UNCHANGED <<fresh, host, run>>

Cancel(p) ==
  /\ ~At(p, "exit") /\ ~Cancelled(p)
  /\ run' = [run EXCEPT ![p].cancel = IF run[p].pc \in Bulk THEN "late" ELSE "early"]
  /\ UNCHANGED world

Answer(p) == Overwrite(p) \/ Confirm(p)

\* What the program does of its own accord.
Step(p) ==
  \/ CheckArgs(p) \/ Resolve(p) \/ List(p) \/ Stat(p) \/ Refused(p)
  \/ MakeOut(p) \/ ScanSkips(p) \/ ScanEnds(p) \/ PromptCancelled(p)
  \/ Pull(p) \/ StartDownload(p) \/ Download(p) \/ DownloadBreaks(p)
  \/ Remove(p) \/ StartPurge(p) \/ Purge(p) \/ PurgeBreaks(p) \/ BulkEnds(p)

Next ==
  \/ \E p \in Calls : Step(p) \/ Answer(p) \/ Fails(p) \/ Cancel(p)
  \/ Appear \/ Rotate

\* Calls run and requests return; the user need not answer, and nothing has to
\* fail.
Spec == Init /\ [][Next]_vars /\ \A p \in Calls : WF_vars(Step(p))

-------------------------------------------------------------------------------
(* Properties *)

Succeeded(p) == At(p, "exit") /\ run[p].code = 0

\* A call deletes only what its pattern names, and only after its consent: the
\* tool's confirm; for the command a plan that was not empty, no --dry-run, and
\* --yes or a y - however the reports and other calls come and go.
ConsentedDeletions ==
  \A p \in Calls : run[p].removed # {} =>
    LET c == run[p].cmd IN
    /\ c.kind = "clean" /\ run[p].removed \subseteq Match[c.pattern]
    /\ c.front = "mcp" => c.sure # "no"
    /\ c.front = "cli" => /\ ~c.dry /\ run[p].listed # {}
                          /\ c.sure = "yes" \/ run[p].agreed

\* Without --force, of the files that were there when the pull listed the
\* reports it overwrites only those the user was asked about and gave up; and
\* one "no" leaves every file alone: "abort before the bulk Pull starts"
\* (crashlogs.go:178-179).
ConsentedOverwrites ==
  \A p \in Calls : run[p].cmd.front = "cli" /\ run[p].cmd.sure = "no" =>
    /\ run[p].replaced \intersect run[p].listed \subseteq run[p].accepted
    /\ run[p].declined # {} => run[p].written = {} /\ run[p].replaced = {}

\* What a successful call counts has happened: every report counted as pulled
\* was written here or is gone from the device, every report counted as
\* removed is gone, though the count is of an earlier listing.
CountsHold ==
  \A p \in Calls : Succeeded(p) =>
    /\ run[p].cmd.kind = "pull" => run[p].counted \intersect device \subseteq run[p].written
    /\ run[p].cmd.kind = "clean" => run[p].counted \intersect device = {}

\* A call cancelled before its bulk operation has touched neither a report on the
\* device nor a file on the host, though only the functions of the client and the prompts look
\* at the context.
EarlyCancelHarmless ==
  \A p \in Calls :
    run[p].cancel = "early" =>
      run[p].removed = {} /\ run[p].written = {} /\ run[p].replaced = {}

\* A cancelled call returns, from a prompt nobody answers too.
CancelReturns == \A p \in Calls : Cancelled(p) ~> At(p, "exit")

\* "List returns all entries matching pattern ... Remove deletes matching
\* entries on the device" (internal/crashlogs/crashlogs.go:45-48): one pattern
\* names the same reports for both, so a clean that succeeds leaves nothing of
\* the plan it showed.
PlanCarriedOut ==
  \A p \in Calls :
    LET c == run[p].cmd IN
    Succeeded(p) /\ c.front = "cli" /\ c.kind = "clean" /\ c.sure = "yes" /\ ~c.dry
      => run[p].listed \intersect device = {}

\* "crashlogs_clean deletes only when confirm: true. Any other value - omitted,
\* false, or a truthy-looking string - is treated as a dry-run" (docs/MCP.md:113).
QuotedConfirmIsDryRun ==
  \A p \in Calls : run[p].cmd.front = "mcp" /\ run[p].cmd.sure = "quoted" =>
    run[p].removed = {}

\* "Default false; matching files that already exist will surface as Pull
\* failures" (tools.go:1018-1019): crashlogs_pull without force, when it
\* succeeds, has overwritten nothing, since it reports no failure.
ConflictsSurface ==
  \A p \in Calls :
    LET c == run[p].cmd IN
    Succeeded(p) /\ c.front = "mcp" /\ c.kind = "pull" /\ c.sure = "no"
      => run[p].replaced = {}
===============================================================================
