----------------------------- MODULE DeviceReads -----------------------------
(***************************************************************************)
(* One call that reads a device: storage and apps list of the command      *)
(* line; storage, apps_list, apps_offload_candidates,                      *)
(* storage_recommendations and open_app_storage_settings of the server.    *)
(* All of them resolve a device (device_resolution.go) and then address    *)
(* their requests to its udid, two of them in parallel (fetchInParallel,   *)
(* storage.go), while phones are plugged in and pulled out and the caller  *)
(* may cancel.                                                             *)
(***************************************************************************)
EXTENDS Integers, FiniteSets

CONSTANTS
  Udids,
  None   \* no device named, none resolved, no name found

ASSUME UdidsAssumption == IsFiniteSet(Udids) /\ None \notin Udids

\* What a call reads: free space and apps; only the apps; both, the crash
\* reports and the probe cache; or, as far as it gets, the name of one app.
Kinds == {"storage", "apps", "recommendations", "settings"}
Requests == {"info", "apps"}

VARIABLES
  attached, \* phones on the cable
  kind,
  override, \* the device that the caller named
  ctx,      \* the caller's context is done
  child,    \* cancel() has been called on the context of the parallel fetch
  pc,
  udid,     \* the device resolved
  name,     \* the device whose name goes into the answer
  g,        \* g[r]: the goroutine, or the plain call, of request r
  error,    \* why the call failed
  alone,    \* history: phones that were once the only one during this call
  first,    \* history: the first request that failed, and why
  late      \* history: late[r]: requests sent after the context was done

vars == <<attached, kind, override, ctx, child, pc, udid, name, g, error, alone, first, late>>
call == <<kind, override>>
fetch == <<child, g, first, late>>
history == <<alone, first, late>>

Finals == {"ok", "none", "error"}
Settled == {"ok", "ctx", "device"}

TypeOK ==
  /\ attached \subseteq Udids
  /\ kind \in Kinds /\ override \in Udids \union {None}
  /\ ctx \in BOOLEAN /\ child \in BOOLEAN
  /\ pc \in Finals \union {"resolve", "name", "fetch", "crashlogs", "load"}
  /\ udid \in Udids \union {None} /\ name \in Udids \union {None}
  /\ pc \notin {"resolve"} \union Finals => udid # None
  /\ g \in [Requests -> Settled \union
             {"idle", "check", "dial", "dialing", "recheck", "ask", "asking"}]
  /\ error \in {"none", "resolve", "info", "apps", "crashlogs"}
  /\ alone \subseteq Udids
  /\ first \in Requests \union {"none"}
  /\ late \in [Requests -> 0..2]

Init ==
  /\ attached \in SUBSET Udids
  /\ kind \in Kinds /\ override \in Udids \union {None}
  /\ ctx = FALSE /\ child = FALSE
  /\ pc = "resolve"
  /\ udid = None /\ name = None
  /\ g = [r \in Requests |-> "idle"]
  /\ error = "none"
  /\ alone = {u \in Udids : attached = {u}}
  /\ first = "none"
  /\ late = [r \in Requests |-> 0]

-------------------------------------------------------------------------------
(* Resolution *)

\* The tools that echo the device look its name up in a second listing.
AfterResolve == IF kind \in {"recommendations", "settings"} THEN "name" ELSE "fetch"

\* Mutation: the first of many devices will do.
FirstOfManyMut(u) == IF override = None THEN u \in attached ELSE u = override

\* The device that a listing of the phones on the cable settles on.
Picks(u) ==
  IF override = None THEN attached = {u} ELSE u = override /\ u \in attached

Resolve ==
  /\ pc = "resolve"
  /\ \E u \in Udids : Picks(u) /\ udid' = u
  /\ pc' = AfterResolve
  /\ UNCHANGED <<attached, call, ctx, fetch, name, error, alone>>

\* No device at all is not an error; many of them, or not the one named, is.
ResolveFails ==
  /\ pc = "resolve"
  /\ ~\E u \in Udids : Picks(u)
  /\ IF override = None /\ attached = {}
       THEN pc' = "none" /\ UNCHANGED error
       ELSE pc' = "error" /\ error' = "resolve"
  /\ UNCHANGED <<attached, call, ctx, fetch, udid, name, alone>>

\* The listing fails: a device that was named is taken on trust.
ListFails ==
  /\ pc = "resolve"
  /\ IF override = None
       THEN pc' = "error" /\ error' = "resolve" /\ UNCHANGED udid
       ELSE pc' = AfterResolve /\ udid' = override /\ UNCHANGED error
  /\ UNCHANGED <<attached, call, ctx, fetch, name, alone>>

\* resolveDeviceRef: best effort, an empty name when the phone has gone, when
\* it is not readable, or when the listing fails.
LookUpName ==
  /\ pc = "name"
  /\ name' \in {u \in attached : u = udid} \union {None}
  /\ pc' = "fetch"
  /\ UNCHANGED <<attached, call, ctx, fetch, udid, error, alone>>

-------------------------------------------------------------------------------
(* The requests *)

Parallel == kind \in {"storage", "recommendations"}
Wanted == IF Parallel THEN Requests ELSE {"apps"}

\* The context that the requests are given.
Done == ctx \/ child

\* Both goroutines are started, or UserApps is called in place.
Spawn ==
  /\ pc = "fetch"
  /\ \A r \in Requests : g[r] = "idle"
  /\ g' = [r \in Requests |-> IF r \in Wanted THEN "check" ELSE "idle"]
  /\ UNCHANGED <<attached, call, ctx, child, pc, udid, name, error, history>>

Goto(r, l) == g' = [g EXCEPT ![r] = l]

\* A goroutine that fails calls cancel().
Fail(r, why) ==
  /\ Goto(r, why)
  /\ child' = (child \/ Parallel)
  /\ first' = IF first = "none" THEN r ELSE first

\* A look at the context, before the device is dialled and, in DeviceInfo
\* only, between the dialling and the question.
Check(r) ==
  /\ g[r] \in {"check", "recheck"}
  /\ IF Done
       THEN Fail(r, "ctx")
       ELSE Goto(r, IF g[r] = "check" THEN "dial" ELSE "ask") /\ UNCHANGED <<child, first>>
  /\ UNCHANGED <<attached, call, ctx, pc, udid, name, error, alone, late>>

\* A request to the device is sent; nothing interrupts it.
Send(r) ==
  /\ g[r] \in {"dial", "ask"}
  /\ Goto(r, IF g[r] = "dial" THEN "dialing" ELSE "asking")
  /\ late' = IF Done THEN [late EXCEPT ![r] = @ + 1] ELSE late
  /\ UNCHANGED <<attached, call, ctx, child, pc, udid, name, error, alone, first>>

AfterReply(r) ==
  IF g[r] = "asking" THEN "ok" ELSE IF r = "info" THEN "recheck" ELSE "ask"

\* Mutation: a goroutine that is through cancels the context as well.
DeferCancelMut(r) ==
  /\ g[r] \in {"dialing", "asking"}
  /\ udid \in attached
  /\ Goto(r, AfterReply(r))
  /\ child' = (child \/ (Parallel /\ g[r] = "asking"))
  /\ UNCHANGED <<attached, call, ctx, pc, udid, name, error, history>>

\* The device answers.
Reply(r) ==
  /\ g[r] \in {"dialing", "asking"}
  /\ udid \in attached
  /\ Goto(r, AfterReply(r))
  /\ UNCHANGED <<attached, call, ctx, child, pc, udid, name, error, history>>

\* The device has gone, or the request fails for another reason.
RequestFails(r) ==
  /\ g[r] \in {"dialing", "asking"}
  /\ Fail(r, "device")
  /\ UNCHANGED <<attached, call, ctx, pc, udid, name, error, alone, late>>

-------------------------------------------------------------------------------
(* The answer *)

Failed(r) == r \in Wanted /\ g[r] \in {"ctx", "device"}

\* Mutation: a goroutine that fails does not get to its wg.Done.
NoDoneMut == \A r \in Wanted : g[r] = "ok"

\* wg.Wait.
Joined == \A r \in Wanted : g[r] \in Settled

\* Mutation: only the error of DeviceInfo is looked at.
InfoOnlyMut(r) == r = "info" /\ Failed(r)

\* The error of DeviceInfo goes before that of UserApps; settings does without
\* the list.
Reported(r) ==
  /\ Failed(r) /\ kind # "settings"
  /\ r = "apps" => ~Failed("info")

Join ==
  /\ pc = "fetch" /\ g["apps"] # "idle" /\ Joined
  /\ \/ \E r \in Requests : Reported(r) /\ error' = r /\ pc' = "error"
     \/ /\ ~\E r \in Requests : Reported(r)
        /\ pc' = IF kind = "recommendations" THEN "crashlogs" ELSE "ok"
        /\ UNCHANGED error
  /\ UNCHANGED <<attached, call, ctx, fetch, udid, name, alone>>

\* The recommendations need the crash reports.
CrashLogs ==
  /\ pc = "crashlogs"
  /\ \/ ~ctx /\ udid \in attached /\ pc' = "load" /\ UNCHANGED error
     \/ pc' = "error" /\ error' = "crashlogs"
  /\ UNCHANGED <<attached, call, ctx, fetch, udid, name, alone>>

\* The probe cache is loaded if it can be, and Build makes the answer.
Load ==
  /\ pc = "load"
  /\ pc' = "ok"
  /\ UNCHANGED <<attached, call, ctx, fetch, udid, name, error, alone>>

-------------------------------------------------------------------------------

Cancel ==
  /\ ~ctx /\ ctx' = TRUE
  /\ UNCHANGED <<attached, call, fetch, pc, udid, name, error, alone>>

\* A phone is plugged in or pulled out.
Cable(u) ==
  /\ attached' = IF u \in attached THEN attached \ {u} ELSE attached \union {u}
  /\ alone' = alone \union {v \in Udids : attached' = {v}}
  /\ UNCHANGED <<call, ctx, fetch, pc, udid, name, error>>

Handler ==
  \/ Resolve \/ ResolveFails \/ ListFails \/ LookUpName
  \/ Spawn \/ Join \/ CrashLogs \/ Load

Goroutine(r) == Check(r) \/ Send(r) \/ Reply(r) \/ RequestFails(r)

Next ==
  \/ Handler
  \/ \E r \in Requests : Goroutine(r)
  \/ Cancel
  \/ \E u \in Udids : Cable(u)

\* The call runs, and a request is answered or fails.
Fairness == WF_vars(Handler) /\ \A r \in Requests : WF_vars(Goroutine(r))

Spec == Init /\ [][Next]_vars /\ Fairness

-------------------------------------------------------------------------------
(* Properties *)

\* A call that names no device reads one that was at some moment of the call
\* the only one on the cable, whatever was plugged in since; a call that names
\* one never reads another.  And the name echoed with the answer is that of the
\* device read, also when phones are swapped between the two listings ("Echoing
\* the friendly name closes a confused-deputy gap", tools.go:1145-1148).
RightDevice ==
  /\ udid # None => IF override = None THEN udid \in alone ELSE udid = override
  /\ name \in {udid, None}

\* "Both goroutines always complete before Wait returns - no leaks"
\* (cmd/ios-tidy/storage.go:77): nothing talks to the device after the fetch.
NoneLeft ==
  pc \in {"crashlogs", "load"} \union Finals =>
    \A r \in Requests : g[r] \in Settled \union {"idle"}

\* "Returns (info, apps, nil) iff both calls succeed" (storage.go:72): an
\* answer never has a half that failed, is missing, or is still on its way.
AnswerComplete ==
  /\ NoneLeft
  /\ pc \in {"ok", "crashlogs", "load"} /\ kind # "settings" =>
       \A r \in Wanted : g[r] = "ok"

\* A request fails with "context canceled" only if the caller cancelled, or the
\* other one failed on the device itself: success never cancels a sibling.
CancelHasCause ==
  (\E r \in Requests : g[r] = "ctx") => ctx \/ \E r \in Requests : g[r] = "device"

\* What is still sent to the device after the end of the context: one request
\* of DeviceInfo, with its two looks at the context, and two of UserApps.
FewLateRequests == late["info"] <= 1 /\ late["apps"] <= 2

\* The call returns, whatever happens to the phones.
CallEnds == <>(pc \in Finals)

\* "Returns (zero, nil, err) on the first error from either goroutine"
\* (cmd/ios-tidy/storage.go:73): unless the caller cancelled, the error reported is the one
\* that came first.
FirstErrorReported == error \in Requests /\ ~ctx => error = first
===============================================================================
