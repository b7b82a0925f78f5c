# A TLA+ model of ios-tidy

ios-tidy frees space on an iPhone over USB: it deletes crash reports and the
temporary, cached and (on request) document files of third-party apps. It is a
command line tool (`cmd/ios-tidy`) and an MCP server (`cmd/ios-tidy-mcp`) over
the same packages (`internal/...`). These modules model the parts in which it
can delete the wrong thing, say the wrong thing, leak something on the phone or
hang; TLC checks them on small instances, and TLAPS proves their safety
properties for all instances.

## The system

| component | state it keeps | operations | what is hard |
|---|---|---|---|
| Probe store (`internal/apps/probe_store.go`) | `<udid>.json` and temporary files in one directory shared by all processes | `Save`, `Load` | concurrent savers and readers, failing system calls, a crash between two of them |
| Probe run (`apps.go` `appsProbeCmd.run`, `tools.go` `newAppsProbeHandler`, `probe.go`, `iosbackend/sandbox.go` `Open`) | rows so far, the dial goroutine, the AFC session, the goroutine that drains a late dial | probe each target, classify, save | a dial that cannot be interrupted races a deadline; Ctrl-C; overlapping error patterns |
| Sandbox cleaner (`internal/sandbox/cleaner.go` over `iosbackend/sandbox.go`) | the plans, the results, the app's container | `BuildPlan`, `Execute` | the app runs meanwhile; requests fail half-way; cancellation; partial listings |
| apps clean / apps_clean (`apps.go` `runAppsClean`, `tools.go` `newAppsCleanHandler`) | the call's arguments, the loaded rows, the session, the answer | one call from the arguments to the exit code | the order of a dozen gates and early returns, stale and duplicate rows, two limits of age, prompts |
| Prompter (`internal/ui/prompt.go`) | one reader goroutine and one buffer for each prompt, over the same stdin | `Confirm`, `ReadLine` | cancellation while nobody answers, a reader left behind, read-ahead that is lost |
| Crash logs (`internal/crashlogs`, `iosbackend/crashlogs.go`, `cmd/ios-tidy/crashlogs.go`, two MCP handlers) | reports on the phone, files on the host | list, pull, clean | the list that is shown is not the list that is pulled or deleted |
| Device listing (`iosbackend/device.go`, `cmd/ios-tidy/devices.go`, `devices_list`) | the rows so far | `List`, `Trusted` for each device | phones come and go between the listing and their check; a trust failure and a transport failure told apart by text |
| Device resolution and reads (`internal/cmdutil`, `storage.go`, five MCP tools) | the udid, two goroutines and their context | resolve, look up the name, fetch in parallel | phones swapped between two listings; the first error cancels the sibling; looks at the context |
| Probe lifecycle (all of the above over time) | the cache of a device, the clock | probe, save, load, gate, advise | a row is believed hours later, by other processes, under a clock that may be set back |
| Recommendations and tables (`internal/recommendations`, `internal/apps/sort.go`, `apps_offload_candidates`) | none | `Build`, `Sort`, `Limit` | thresholds, quotas, ties, several rows of one bundle |
| Flag splitting (`cmd/ios-tidy/flags.go`) | none | split, then `flag.Parse` | a switch that is silently ignored turns a dry run into a deletion |
| Rendering | none | pure functions | - |

The parts meet as follows. A probe run opens each app's sandbox once through
the adapter, turns the outcome into a row and replaces the device's file in the
probe store. A clean loads that file, lets the newest row of the bundle decide
whether it may go on, opens the sandbox through the same adapter, plans every
target, asks, and executes. Nothing is shared in memory between two calls: the
store's directory and the phone are the shared state, and the contexts
(Ctrl-C, a client that goes away, a probe's deadline) are what interrupts.

## The modules

### ProbeStore, ProbeCache: the file-backed store

`ProbeStore` has one action per system call of `Save` (create the temporary
file, each `write(2)`, close, rename, and the error path that removes the
file) and of `Load` (open, read). Files are inodes: a reader keeps the inode
that it opened, a rename moves a name. Any number of callers run; each system
call may fail and a caller may die between two of them (`MaxFaults` bounds
crashes and failed removals together). A document is a model value in `Chunks`
pieces; sorting and JSON are data, a truncated document is one that does not
parse. `ProbeCache` is the promise: one register per device. The refinement
mapping takes the register to be what the published inode holds and a caller's
view to be what its open file holds; every save takes effect at its rename,
every load at its open. The model does not forget written data at a power loss
(the code never syncs).

### ProbeRun: one probe run

The loop over the targets, `Prober.Probe`, and `Open` with its goroutines.
`dial[j]`, `answer[j]` and `conn[j]` belong to attempt `j`: the goroutine that
runs `house_arrest.New`, what the device answered, and the session. A device
may answer at any time or never; `Expire` is the deadline of the current probe
and `Interrupt` the end of the run's context, each possible at every point
where the code can notice or miss it. `GiveUp` leaves the drain goroutine
behind, `Drain` is its one step. A failure is a cause (the transport, a missing
app, the daemon's policy) and the set of patterns of `probe.go` that match its
text. The code sees the text only, and nothing ties one to the other: `Failures`
is a constant, any set of such pairs, and the run takes one that has every cause
in plain words, in misleading ones and in the overlaps that the comments of
`probe.go` name. `RowsTruthful` therefore says what a row follows from (the text,
and when it arrived); what the texts of the repository say of causes is below,
under "Where the code and its words differ".

### SandboxCleaner: plans and removals

`tree` is the app's container. `WalkVisit` reads one path; the app may create
or delete a file between any two steps (`AppStep`, at most `MaxAppOps` times).
A directory is known by the immediate child of its target that a file is under
(`Kid`), because that is the unit of `RemoveAll` and of the accounting; `Area`
is the target. A removal is two steps, `BeginOp` (the context was looked at and
the request sent) and `OpSucceeds` or `OpFails` (a failed `RemoveAll` may have
deleted part of the child). `listed` is what `List` returned, possibly without
children whose `Stat` failed. Byte totals follow the same bookkeeping as the
counts and are left out.

### AppsClean, CleanContract: one call

`AppsClean` composes `SandboxCleaner` (through `INSTANCE`) with everything
around it: argument checks, device, store, probe gate, session, dry run,
prompts, report. Both front ends are in it: a request says which one it came
through, and the differences (confirmation in the arguments or at a prompt,
5 minutes or 24 hours, `<` or `<=`) are conditions on it. The Documents prompt
and the y/N prompt are one action `Answer`, whose meaning is fixed by
`NeedsAnswer`. Usage errors and unwired dependencies return before anything
happens and are left out. `CleanContract` is what the owner of the phone may
rely on: files change by the app's doing, or by the cleaner after consent
within a scope. `AppsClean` refines it with consent computed from the request
and the reply, and the scope from the plan.

### CrashLogs: calls by pattern

`run[p]` is the record of one call of list, pull or clean through either front
end; any number of calls run against one device and one host directory. The
code lists by pattern, shows or asks, and then gives the pattern (not the list)
to one bulk operation of go-ios, which walks the device again, and `Pull` and
`Remove` list once more before it for the numbers of their result; so a call
has `listed`, `counted` and `walk`, three listings taken at different times.
Between any two steps iOS may write a report (`Appear`) or rotate one away
(`Rotate`), and another call may delete or fetch one. The pre-scan of the pull
is entry by entry (`ScanSkips`, `Overwrite`); the bulk operations are report by
report and stop at the first failure, which may leave a part of a file on the
host (`DownloadBreaks`) or reports already deleted (`PurgeBreaks`). What go-ios
does there is external and modelled from how the adapter and its comments use
it: `DownloadReports` overwrites, `RemoveReports` matches base names with
`filepath.Match`. `cancel` says whether the call was cancelled before its bulk
operation began (`early`) or in it (`late`, when nothing looks any more).
`Confirmed` has `GetBool`'s coercion of strings, `Listing` and `Removing` the
two readings of an empty pattern. Sizes and wording are left out, as are usage
errors; a malformed pattern is one of the failures of a listing. `MakeOut` is the
`MkdirAll` of the output directory, which looks at no context and may fail; `host`
has files only, so an empty directory that a declined or cancelled pull leaves
behind does not show.

### Prompter: a row of prompts on one stdin

The longest row of prompts in the program is the pre-scan of `crashlogs pull`,
one `Confirm` for each file in the way. Stdin is an immutable row of symbols
(`y`, other text, the end of a line, Ctrl-D) and a position; `Chunk` is what
one `read(2)` may return, any part of a pipe or one line of a terminal, so the
input is cut in every way. `Read` is one read of the `bufio.Reader`: it keeps
what lies behind the newline, and that is lost with it. `GiveUp` is the branch
of the `select` that sees the context; it leaves the reader behind. `ReadLine`
has the same reader; its one use, the typed bundle ID, is in `AppsClean`.

### DeviceTable, DeviceReads, DeviceCalls: phones on the cable

`DeviceTable` is the listing with trust of both front ends: `List`, then for
each device `Check` (`Trusted` lists again) and the session (`Connects`,
`ConnectFails`). A failure is the step that failed, which is what the markers in
the text tell, and its cause, which they do not. `DeviceReads` is every other
call that only reads: resolve a device (with the fallback for a named one when
the listing fails), look up its name, fetch `DeviceInfo` and `UserApps` in
parallel or one of them alone, join, and go on to the crash reports and the
probe cache where the call does. `Check` is a look at the context, `Send` a
request that nothing interrupts, `Fail` a goroutine's `cancel()`; `late` counts
requests sent after the context was done. `DeviceCalls` composes the two: one
process, one call, and a cable (`attached`) that both share; phones are plugged
in, pulled out, and trusted at any time.

### ProbeLifecycle: the cache over time

Runs of `apps probe` and calls that believe the cache, as separate processes
over the register of `ProbeCache` (which `ProbeStore` implements): `Probe` is
the daemon's answer, `Stamp` the row with the host's clock, `Save` the
replacement of the document, `RunDies` a crash or an error; `LoadToClean` and
`Gate` are the two sides of the probe gate, `LoadToAdvise` is
`storage_recommendations`. Time passes at any point (`Tick`; a probe in flight
holds it for at most `ProbeTime`) and the host's clock may be set back
(`SetBack`, by at most `MaxBack`). Two histories, `lastVend` and `lastSaid`, say
what the daemon answered and what was saved last; the gate is measured against
them and never reads them. "Last" is by the order of the saves: of two
overlapping runs the one that saves later wins, also with the older answer, and
what `VendedLately` bounds is how old that may be.

### Recommendations, FlagSplit: pure parts

`Recommendations` has `Build` and `apps_offload_candidates` over one snapshot,
with one action for each way through each of their loops: an app is passed over
(`SkipApp`) or taken (`TakeApp`), its probe rows are read one by one (`ReadRow`),
and then it gets its advice if its kind has room (`AdviseApp`). A loop over a
sorted slice takes what comes first of the elements that are left (`Turn`,
`Place`), so the two sorts are their orders `Before` and `Sooner`. Thresholds and
quotas are the real ones, in MiB; bundle IDs are numbers in the order of their
strings. Wording is left out. `FlagSplit` has one action for each way through the
loop of `splitFlagsAndPositionals`, then what package flag does with the stream;
a token is its class and its place, so that dropping, doubling and reordering
show.

## The runs

| run | instance | what it shows |
|---|---|---|
| `probe_store` | 2 callers, 2 devices, 2 documents, 3 files, 2 chunks, 1 fault | published files are whole and of the right device; orphans need a crash; readers see snapshots; `ProbeCache` is implemented |
| `probe_run` | up to 2 targets over 2 bundles | no session without an owner; rows say what the device said in time, however it is worded; at most one dial after an interrupt; the saved list matches the targets; the run ends; late sessions are closed |
| `sandbox_cleaner` | 6 files: a directory in tmp, a file in Caches, a directory in Documents, one outside; 1 step of the app | deletions stay in their bounds; credit is true; every planned file is counted or reported, and not both; `Execute` ends |
| `apps_clean` | 3 files, every request of both front ends, 10 row lists, ages 0 to 3 with limits 1 and 2 | the gate, the session, the exit code, cancellation, and `CleanContract` |
| `crash_logs` | 1 call of any kind, 2 reports, 3 patterns | deletions and overwritings have been consented to; counts hold; an early cancellation touches nothing; cancelled calls return |
| `prompter` | up to 2 files in the way, every stdin of up to 4 symbols, terminal and pipe | a pull starts only on a yes of its own for each file; a terminal loses no line between two prompts; one reader at a time; Ctrl-C ends the row |
| `device_calls` | 2 phones, a table or a read of any kind | the device read is the one meant, and the name echoed is its own; no half answers; a cancelled request has a cause; a steady phone is shown; every call ends |
| `probe_lifecycle` | 2 runs, 1 call, 2 bundles, 2 probes, time 0 to 5, limits 2 and 1, the clock set back by 1 | a gate opens only on a recent answer of the daemon about this bundle, and never behind the last one saved |
| `recommendations` | 3 apps around every threshold with rows of one bundle in every order; 7 apps against quotas of 5; limits and minima around 4 | a removal is advised on the newest row only; no quota hides an app of the other kind; a device low on space gets some advice; the table holds the largest third-party apps and nothing else; every snapshot reaches its answer (no deadlock) |
| `flag_split` | every command line of up to 4 tokens of 8 classes | no switch is ignored; each token has one meaning, in order |
| `probe_single_flight`, `quoted_confirm` | as above | two sentences of the docs and comments that the code does not keep (below) |

The properties `PlansComplete`, `CancelStopsRemovals`, `SettledOnce`,
`TmpExclusive`, `FewLateRequests`, `AdviceOnLast` and the type invariants are in
no run because they are proved for all instances.

Why the bounds are enough. Two callers and three files cover every overlap of
two saves with a load of either result, and one fault puts a crash at each
point; the proofs lift all four bounds. Two attempts are enough for a late
answer to meet the next probe; a third only repeats the second (the proofs lift
their number and the wording of failures). The cleaner's
container has every kind of path once and a directory with two files wherever
half a removal matters. The row lists contain each pair of old and new, vended
and refused, in both orders, and the ages include both limits exactly. A
crash-log call treats reports one by one and independently: two are needed for a
bulk operation that breaks off half-way and for a "no" among other answers; that
calls at work at the same time do not spoil each other is proved for any number
of them. Four symbols are two answers with the ends of their lines, or one that
is torn twice. Two phones are enough for one to take the other's place between
two listings. In `probe_lifecycle` two probes are an answer and its replacement,
or the same bundle and another one; the time reaches past both limits, also with
a row that was stamped late and a clock that was set back. The
snapshots of `recommendations` are chosen around the constants of the code, one
below and one at each of them (`Around`); with the rows of one bundle in every
order and of two ages (`Probed`), more apps of one kind than its quota holds
(`Crowd`), and limits from none to all of the apps (`Cut`).

Fairness. The program's own goroutines run (weak fairness on the caller's
steps and on the drain goroutine), a started timer fires, and requests are
answered or fail, because the transport reports a lost phone as an error.
Crash-log calls get the same: their steps run and requests return, but nothing
has to fail (`Fails` and the answers are outside `Step`). In `DeviceCalls` the
handler and each of the two goroutines have it separately, as the Go scheduler
runs them. Nothing is assumed of a dial, which may hang for ever, of the user, who
need not answer a prompt (the reader goroutines of `Prompter` have no fairness),
of the app, or of the phones. `ProbeLifecycle`, `Recommendations` and
`FlagSplit` state safety only.

### Where the code and its words differ

Two of the runs expect a violation:

- `probe_single_flight`: `apps.go:657-658` rules out concurrent probes of a
  device; a dial given up at its deadline still runs when the next begins.
- `quoted_confirm`: `docs/MCP.md:113-115` promises that a truthy-looking string
  is a dry run of `crashlogs_clean`; `GetBool` coerces it and the tool deletes.

The others are configurations to run by hand (`tlc -config X.cfg M`); each
checks one sentence and ends in a counterexample:

| configuration | module | sentence | what the code does |
|---|---|---|---|
| `RefusalIsPolicy.cfg` | `MCProbeRun` | `probe.go:61-64`: refused means that the daemon refused, a connection failure is an error | the text decides: a transport failure that says "refused" or "denied" and none of the transport words is a refusal (`probe_test.go` has "Connection Refused by daemon") |
| `LookupIsUnknown.cfg` | `MCProbeRun` | `tools.go:301-302`: `InstallationLookupFailed` is "unknown" | it is "refused", as `probe.go:21-31` explains |
| `AfcIsTransport.cfg` | `MCProbeRun` | `README.md:192-194`: `connect afc service failed` is a transport error and no policy refusal | it is in `reRefused` (`probe.go:44-47`) |
| `QuietRun.cfg` | `MCSandboxCleaner` | `iosbackend/sandbox.go:124-126`: `List` skips entries that disappeared | it skips on any `Stat` error, and what it skips is neither removed nor reported |
| `DryRunOpens.cfg` | `MCAppsClean` | `tools.go:1103-1104`: no `Sandbox.Open` for a dry run | the plans are built from an open sandbox |
| `EmptyPattern.cfg` | `MCCrashLogs` | `internal/crashlogs/crashlogs.go`: the empty pattern is "treated as `*`" | not by the adapter's `Remove`: the plan shows every report, the clean deletes none and exits 0 |
| `PullConflicts.cfg` | `MCCrashLogs` | `tools.go:1018-1019`: existing files surface as failures of `crashlogs_pull` | they are overwritten and `Failures` is empty |
| `PipedAnswers.cfg` | `MCPrompter` | `prompt.go:50`: `Confirm` reads one line | from a pipe its buffer takes the later answers along and they are lost; safe, since the pull then does not start (`PullHasItsYeses`) |
| `MaskedTransport.cfg` | `DeviceTable` | `iosbackend/device.go:31-33`: transport failures, unreadable pair records among them, make the command exit non-zero | a failure at the markers `PairRecord` and `StartSession` is an untrusted row whatever its cause |
| `FailSoftListing.cfg` | `DeviceTable` | `tools.go:733-739`: one bad device does not end `devices_list`, its row is there | the first transport failure ends the call without rows |
| `FirstError.cfg` | `DeviceReads` | `storage.go:73`: the first error is returned | that of `DeviceInfo` goes before that of `UserApps`, also when it came later or is only the cancellation that the other caused |
| `MissingValue.cfg` | `FlagSplit` | `flags.go:87-89`: the sentinel `--` is cheap | a flag whose value is missing takes it for its value |
| `ClockSetBack.cfg` | `MCProbeLifecycle` | `docs/MCP.md:131-133`: a row of 5 minutes is refused | a row's age is the difference of two readings of the host's clock; set back, it counts as younger |
| `ForgottenAnswers.cfg` | `MCProbeLifecycle` | `docs/MCP.md:150-155`: why `apps_clean` refuses | also because another bundle was probed since, which replaced the document |
| `StaleAdvice.cfg` | `MCProbeLifecycle` | `recommendations.go:52-55`: every action is reachable | the advice does not look at the age of a row, the gate does |
| `NoneLarge.cfg` | `MCRecommendations` | `recommendations.go:96-98`: with no large app and little space, the generic suggestion | only if the plan has no other advice for an app |

## The proofs

`ProbeStoreProofs` proves every property of `probe_store` for all values of
the constants, from the assumptions in `ProbeStore` (the sentinels are not
documents or files, `Chunks` is positive). The inductive invariant `IInv` says
who may touch which file: a caller holds a temporary file exactly in the
places of `Save` between creation and rename, it is linked, nobody else holds
or publishes it, it is complete from `Close` on, and a file that is open for
reading is complete and nobody's temporary file. Without the last part
snapshots are not inductive, without the first the rename could publish
another caller's half-written file. `OrphansAreFaults` counts, so it needs its
own induction over the cardinality; the refinement is one case per action.

`SandboxCleanerProofs` proves every safety property of `sandbox_cleaner` for
every container and every selection. `IInv` keeps the walk, the plans and the
requests inside the current target. The accounting needs a second invariant,
`AInv`: nothing is settled before the removal that covers it (`NotYet`), and
every planned file is ahead, settled, or was not listed (`Balance`), and none is
settled twice (`Apart`); the key lemma `UnderListed` says which files a request covers.

`CrashLogsProofs` proves every safety property that `crash_logs` checks,
for any number of calls, reports and patterns, from
`CommandsAssumption` (no flag is a quoted string) and `PatternsAssumption`. It
is a rely-guarantee argument: `CallInv(p)` is the invariant of one call,
`WorldStep` what any step may do to the device and the host (a report comes
only from `fresh`, a file never becomes old again), `Stable` says that a call
which does not move keeps its part under `WorldStep`, and one lemma per action
that the call which moves re-establishes its part and stays within `WorldStep`.
`Counts` is why the counts hold: a counted report is never one that is still to
be written, so until the walk ends it is gone, done, or ahead in the walk.
`Asks` says at each place of a pull which files in the way have their answer.

`ProbeRunProofs` proves `ConnOwned`, `RowsTruthful`, `FewLateDials` and
`SavedCoversTargets` for any number of targets. The invariant goes over all
attempts at once: what is behind the current one is settled (its connection
drained, closed or still to come with a drain goroutine waiting), what is ahead
is untouched, and a row is tied to what its own attempt was answered (`RowTrue`).
The one lemma about wording, `Classified`, is about `classifyErr`;
`FailuresAssumption` only says what a failure is made of, so the theorems hold for
errors of any text and any cause.

`AppsCleanProofs` proves every safety property of `apps_clean`, the refinement
of `CleanContract` included, for every container, request, row list and limit.
It does not repeat the cleaner: it instantiates `SandboxCleanerProofs`, shows
that a step of the call is a step of its cleaner or leaves it alone
(`StepIsCleaners`), and takes the cleaner's invariant from there. Its own part,
`CallInv`, ties the place in the call to the cleaner's phase, the session and
the consent (`Places`), to the checks passed on the way (`Gated`) and the
failures to the exit code (`Honest`). A removal is within the scope because of
the cleaner's `UnderTyped`. The assumptions are that the container is a tree,
that requests and rows have the fields the code reads (`InputAssumption`), and
that the tool's limit is below the command's (`TTLAssumption`).

`DeviceCallsProofs` proves the safety properties of `device_calls` for any
number of phones. The two components are proved apart, each against its own
next-state relation with the cable as an environment: a step of the composition
is a step of the read or leaves it alone (`StepIsRead`), and the same for the
table. `Remembered` says that a phone alone on the cable before the resolution
is in `alone`; `Causes` follows each cancelled request back to a reason outside;
for the table, every steady phone is either still ahead in the listing or has
its row.

`EvidenceProofs` has what probe rows are believed for, in the gates and in the
advice. For any number of runs, calls and bundles and any times it proves
`LastAnswerCounts` and `VendedLately`, and that with a clock that is never set
back (`MaxBack = 0`) the limit holds without allowance. The invariant follows a
row from the daemon's answer over the stamp and the document to the view of a
call (`Witnessed`): a vended row is stamped at most `ProbeTime` after the daemon's
latest vending of its bundle, and every row of the document is the last one saved
of its bundle. The same invariant gives `AdviceOnLast`, the safe half of the
hazard that the advice does not look at the age of a row. `UsesRegister` says that
the runs and calls implement the register `ProbeCache`, and `ProbeStoreProofs`
that the files implement it too: what the gate relies on over hours and what the
system calls do in between meet at one specification.

For every snapshot it proves `ActionByEvidence`, `NothingBigHidden` and
`CandidatesComplete`. Instead of computing what a fold returns, `AdviceIInv` says
what the loops have done with the apps behind them (`Taken`): no app ahead is
larger (`Downward`); every advice so far goes by the newest row (`Evident`), which
`ScanSays` gets from what the row loop knows after each row (`Scanned`); the two
counts are the numbers of advices of their kinds (`Counted`, hence
`IsFiniteSet`), so that an app passed over for its quota has a full quota of no
smaller apps before it (`Passed`) and a device low on space does not end without
advice (`SomeAdvice`); and the table has exactly the eligible apps taken, each
once and in order (`Tabled`), from which `Limit` cuts a tail. `AdviceDetermined` is the
sentence "Deterministic: same inputs → same output" of `recommendations.go:251`:
both orders are total on what they sort, so each round has exactly one element to
go on with. That one exists is induction over a finite set, done with the
library's theorem on minima of well-founded relations (`FirstOf`); that no two
recommendations tie needs that one app has one advice and that the two general
ones differ in rank (`Plain`). From `InputsAssumption`: the device's inventory has
one app for a bundle ID, and sizes are not negative.

`UserInputProofs` proves, for every stdin of any length and any number of files,
`OneReader` and `PullHasItsYeses`: `Turns` says that a prompt is answered or given
up before the next and that only the last reader reads; `Ordered` that what the
readers took off stdin is in the order of the prompts. `TerminalLinePerPrompt`
needs a count: `Lines` says that the lines ended so far (`Ended`) are as many as
the prompts that have got theirs, that a terminal stands at the start of a line
between two reads (or behind a Ctrl-D), and that the symbols of each line are with
the reader of that number. For a command
line of any length the module proves `SwitchesHonoured` and `NoTokenLost`: while
the split runs, every token behind it is in one of the two streams, each stream in
the order of the line (`Routed`); the flag stream is a row of units, a flag with its
value or a token alone (`Units`); and `flag.Parse` stands at the head of a unit and
has set exactly what the units behind it say (`Parsed`).

Only model-checked: liveness (`RunEnds`, `SessionsClosed`, `ExecuteEnds`,
`CancelReturns`, `EveryCallEnds`) and the absence of deadlock, which need `ENABLED`
and fairness and are out of the prover's reach. Not proved either are the
sentences that the code keeps on some inputs only; they are in the table above.

## Not modelled, and what could come next

- Rendering (tables, byte formatting, plans as text, JSON shapes) has no state
  and takes no decision.
- `mapAppInfo` and the other conversions of device records into fields;
  `Uninstall`, which nothing calls; the dispatch of subcommands, a table.
- Usage errors and dependencies that are not wired return before anything
  happens.
- A disk that forgets: the store never syncs, and a power loss after `Save` may
  lose or truncate the document. The file model keeps what `write(2)` accepted.
- Two probe runs at the same time are in `ProbeLifecycle` as far as their
  documents go; that their dials meet at the daemon is not.
- Next: a power loss in `ProbeStore`, as a directory and contents that may fall
  back to an earlier state.
