---------------------------- MODULE Recommendations ----------------------------
(***************************************************************************)
(* What the server advises once its reads are in: the synthesis of         *)
(* storage_recommendations (recommendations.Build) and the app table of    *)
(* apps_offload_candidates, both of them functions of one snapshot, with   *)
(* one action for each way through each of their loops.  The reads         *)
(* themselves are in DeviceReads, what the probe rows are worth later in   *)
(* ProbeLifecycle.  Sizes are in MiB; bundle IDs are numbers, ordered as   *)
(* the strings are, and 0 stands for none.  A loop over a sorted slice     *)
(* takes what comes first of the elements that are left.                   *)
(***************************************************************************)
EXTENDS Integers, Sequences, FiniteSets

CONSTANTS
  Inputs, \* snapshots: apps, rows, crash (bytes), free and total; limit, min
  Apple   \* bundles with the com.apple. prefix

App == [bundle : Nat \ {0}, size : Nat]

\* A phone has one app of a bundle ID.
ASSUME InputsAssumption ==
  \A s \in Inputs :
    /\ s.apps \in Seq(App)
    /\ \A i, j \in 1..Len(s.apps) : s.apps[i].bundle = s.apps[j].bundle => i = j
    /\ s.rows \in Seq([bundle : Nat, outcome : STRING, at : Int])
    /\ s.crash \in Nat /\ s.free \in Nat /\ s.total \in Nat
    /\ s.limit \in Int /\ s.min \in Int

perAppRecThreshold == 50
largeAppThreshold == 1024
crashlogThreshold == 5
topAppsByTotal == 5

VARIABLES
  in,
  pc,
  ahead, \* the apps that the loop has not taken
  app,   \* the app of the round
  seen,  \* how many probe rows have been looked at for it
  best,  \* the freshest of them that is the app's
  count, \* sandboxCount and offloadCount
  plan,  \* recommendations not yet in their place
  recs,  \* the answer of storage_recommendations
  rows   \* the answer of apps_offload_candidates

adviceVars == <<in, pc, ahead, app, seen, best, count, plan, recs, rows>>
scan == <<app, seen, best>>

AppActions == {"clean_app_sandbox", "offload_app"}
Actions == AppActions \union {"clean_crashlogs", "review_unused_apps"}
Rec == [action : Actions, bundle : Nat, bytes : Nat, rank : 1..3]

NoApp == [bundle |-> 0, size |-> 0]
NoRow == [found |-> FALSE, vended |-> FALSE, at |-> -1]

Apps == {in.apps[i] : i \in 1..Len(in.apps)}
Advised == {recs[i] : i \in 1..Len(recs)}

AdviceTypeOK ==
  /\ in \in Inputs
  /\ pc \in {"in", "apps", "rows", "sort", "advised", "list", "listed"}
  /\ ahead \subseteq Apps
  /\ app \in Apps \union {NoApp}
  /\ seen \in 0..Len(in.rows)
  /\ best \in [found : BOOLEAN, vended : BOOLEAN, at : Int]
  /\ count \in [AppActions -> 0..topAppsByTotal]
  /\ plan \subseteq Rec
  /\ recs \in Seq(Rec)
  /\ rows \in Seq(Apps)

AdviceInit ==
  /\ in \in Inputs
  /\ pc = "in"
  /\ ahead = Apps
  /\ app = NoApp /\ seen = 0 /\ best = NoRow
  /\ count = [x \in AppActions |-> 0]
  /\ plan = {} /\ recs = <<>>
  /\ rows = <<>>

-------------------------------------------------------------------------------
(* storage_recommendations *)

\* Mutation: the smallest app first.
SmallFirstMut(a, b) == IF a.size # b.size THEN a.size < b.size ELSE a.bundle < b.bundle

\* Largest first, ties by bundle ID (apps.Sort and the copy that Build sorts).
Before(a, b) == IF a.size # b.size THEN a.size > b.size ELSE a.bundle < b.bundle

Turn(a) == a \in ahead /\ \A b \in ahead \ {a} : Before(a, b)

ThirdParty(a) == a.bundle \notin Apple

CrashPlan ==
  IF in.crash >= crashlogThreshold
    THEN {[action |-> "clean_crashlogs", bundle |-> 0, bytes |-> in.crash, rank |-> 3]}
    ELSE {}

BuildBegins ==
  /\ pc = "in"
  /\ plan' = CrashPlan
  /\ pc' = "apps"
  /\ UNCHANGED <<in, ahead, scan, count, recs, rows>>

Worthwhile(a) == ThirdParty(a) /\ a.size >= perAppRecThreshold

SkipApp(a) ==
  /\ pc = "apps" /\ Turn(a) /\ ~Worthwhile(a)
  /\ ahead' = ahead \ {a}
  /\ UNCHANGED <<in, pc, scan, count, plan, recs, rows>>

TakeApp(a) ==
  /\ pc = "apps" /\ Turn(a) /\ Worthwhile(a)
  /\ ahead' = ahead \ {a}
  /\ app' = a /\ seen' = 0 /\ best' = NoRow
  /\ pc' = "rows"
  /\ UNCHANGED <<in, count, plan, recs, rows>>

\* Mutation: the last row of the bundle counts.
LastRowMut(r) == TRUE

\* The test of isVendedInResults.
Fresher(r) == ~best.found \/ r.at > best.at

ReadRow ==
  /\ pc = "rows" /\ seen < Len(in.rows)
  /\ LET r == in.rows[seen + 1]
     IN best' = IF r.bundle = app.bundle /\ Fresher(r)
                  THEN [found |-> TRUE, vended |-> r.outcome = "vended", at |-> r.at]
                  ELSE best
  /\ seen' = seen + 1
  /\ UNCHANGED <<in, pc, ahead, app, count, plan, recs, rows>>

priorityForAppBytes(bytes) == IF bytes >= 2048 THEN 3 ELSE IF bytes >= 500 THEN 2 ELSE 1

\* Mutation: the two kinds of advice share one quota.
SharedQuotaMut(action) ==
  count["clean_app_sandbox"] + count["offload_app"] < topAppsByTotal

\* Each kind of advice has a quota of its own.
HasRoom(action) == count[action] < topAppsByTotal

AdviseApp ==
  /\ pc = "rows" /\ seen = Len(in.rows)
  /\ LET action == IF best.vended THEN "clean_app_sandbox" ELSE "offload_app"
     IN IF HasRoom(action)
          THEN /\ plan' = plan \union {[action |-> action, bundle |-> app.bundle,
                                        bytes |-> app.size,
                                        rank |-> priorityForAppBytes(app.size)]}
               /\ count' = [count EXCEPT ![action] = @ + 1]
          ELSE UNCHANGED <<plan, count>>
  /\ app' = NoApp /\ seen' = 0 /\ best' = NoRow
  /\ pc' = "apps"
  /\ UNCHANGED <<in, ahead, recs, rows>>

Label == IF in.total = 0 \/ 100 * in.free < 10 * in.total THEN "low"
         ELSE IF 100 * in.free < 25 * in.total THEN "normal" ELSE "high"

hasLargeApp == \E a \in Apps : ThirdParty(a) /\ a.size >= largeAppThreshold
hasPerAppRec == \E r \in plan : r.action \in AppActions

\* The loop is done, and the generic advice goes in if there is no other.
AppsDone ==
  /\ pc = "apps" /\ ahead = {}
  /\ plan' = IF in.total > 0 /\ Label = "low" /\ ~hasLargeApp /\ ~hasPerAppRec
               THEN plan \union {[action |-> "review_unused_apps", bundle |-> 0,
                                  bytes |-> 0, rank |-> 2]}
               ELSE plan
  /\ pc' = "sort"
  /\ UNCHANGED <<in, ahead, scan, count, recs, rows>>

Sooner(r, s) ==
  IF r.rank # s.rank THEN r.rank > s.rank
  ELSE IF r.bytes # s.bytes THEN r.bytes > s.bytes
  ELSE r.bundle < s.bundle

Place(r) ==
  /\ pc = "sort" /\ \A s \in plan \ {r} : Sooner(r, s)
  /\ plan' = plan \ {r}
  /\ recs' = Append(recs, r)
  /\ UNCHANGED <<in, pc, ahead, scan, count, rows>>

BuildEnds ==
  /\ pc = "sort" /\ plan = {}
  /\ pc' = "advised"
  /\ UNCHANGED <<in, ahead, scan, count, plan, recs, rows>>

-------------------------------------------------------------------------------
(* apps_offload_candidates *)

ListBegins ==
  /\ pc = "in"
  /\ pc' = "list"
  /\ UNCHANGED <<in, ahead, scan, count, plan, recs, rows>>

\* Apple's apps go out before the sort, those below min_bytes after it.
ListApp(a) ==
  /\ pc = "list" /\ Turn(a)
  /\ ahead' = ahead \ {a}
  /\ rows' = IF ThirdParty(a) /\ a.size >= in.min THEN Append(rows, a) ELSE rows
  /\ UNCHANGED <<in, pc, scan, count, plan, recs>>

\* The limit comes last, and there is none when it is not positive.
Limit ==
  /\ pc = "list" /\ ahead = {}
  /\ rows' = IF in.limit <= 0 \/ in.limit >= Len(rows) THEN rows
             ELSE SubSeq(rows, 1, in.limit)
  /\ pc' = "listed"
  /\ UNCHANGED <<in, ahead, scan, count, plan, recs>>

\* The handler has returned.
Answered == pc \in {"advised", "listed"} /\ UNCHANGED adviceVars

AdviceNext ==
  \/ BuildBegins \/ ReadRow \/ AdviseApp \/ AppsDone \/ BuildEnds
  \/ ListBegins \/ Limit
  \/ \E a \in ahead : SkipApp(a) \/ TakeApp(a) \/ ListApp(a)
  \/ \E r \in plan : Place(r)
  \/ Answered

AdviceSpec == AdviceInit /\ [][AdviceNext]_adviceVars

-------------------------------------------------------------------------------
(* Properties *)

ForApp(b) == {r \in Advised : r.bundle = b /\ r.action \in AppActions}
Targets == {a \in Apps : Worthwhile(a)}

\* The newest row of the bundle, of several as new the first, says vended.
NewestVended(b) ==
  \E i \in 1..Len(in.rows) :
    /\ in.rows[i].bundle = b /\ in.rows[i].outcome = "vended"
    /\ \A j \in 1..Len(in.rows) : in.rows[j].bundle = b =>
         in.rows[j].at < in.rows[i].at \/ (in.rows[j].at = in.rows[i].at /\ i <= j)

\* The advice to clean a sandbox rests on the freshest probe row of the app,
\* wherever it stands in the document: "Order-insensitive"
\* (recommendations.go:220), and with no such row the advice is to offload.
ActionByEvidence ==
  \A r \in Advised : r.action \in AppActions =>
    (r.action = "clean_app_sandbox") = NewestVended(r.bundle)

\* An app that is worth a recommendation and gets none has lost its place to
\* topAppsByTotal others of its own kind, none of them smaller: a crowd of
\* vended apps does not hide a big one that has to be offloaded.  And a device
\* that is low on space is never left without any advice.
NothingBigHidden ==
  pc = "advised" =>
    /\ \A a \in Targets : ForApp(a.bundle) = {} =>
         LET kind == {r \in Advised : r.action \in AppActions
                                      /\ NewestVended(r.bundle) = NewestVended(a.bundle)}
         IN Cardinality(kind) = topAppsByTotal /\ \A r \in kind : r.bytes >= a.size
    /\ in.total > 0 /\ Label = "low" => Advised # {}

\* The table has no app of Apple's, none below min_bytes and none twice, and of
\* the others it leaves out only what the limit cuts off, none of it larger than
\* a row that stays; the largest comes first.
CandidatesComplete ==
  pc = "listed" =>
    LET left == {a \in Apps : ThirdParty(a) /\ a.size >= in.min}
                \ {rows[i] : i \in 1..Len(rows)}
    IN /\ \A i \in 1..Len(rows) : ThirdParty(rows[i]) /\ rows[i].size >= in.min
       /\ \A i, j \in 1..Len(rows) : i < j =>
            rows[i] # rows[j] /\ rows[i].size >= rows[j].size
       /\ left # {} => in.limit > 0 /\ Len(rows) = in.limit
       /\ \A a \in left, i \in 1..Len(rows) : a.size <= rows[i].size

\* "If no installed app is at least this large and the device is still
\* low-free, we surface the generic [...] suggestion"
\* (recommendations.go:96-98).
GenericWhenNoneLarge ==
  pc = "advised" /\ in.total > 0 /\ Label = "low" /\ ~hasLargeApp =>
    \E r \in Advised : r.action = "review_unused_apps"
===============================================================================
