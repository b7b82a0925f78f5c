----------------------------- MODULE DeviceTable -----------------------------
(***************************************************************************)
(* The listing of devices with their trust: ios-tidy devices and the tool  *)
(* devices_list, over deviceLister and trustChecker (device.go).  Phones   *)
(* come and go and their owners tap Trust or Don't Trust at any time.  The *)
(* error of ConnectLockdownWithSession is known by the step that failed,   *)
(* which is the marker in its text, and by its cause, which the text of    *)
(* the adapter tells only from the marker.                                 *)
(***************************************************************************)
EXTENDS Integers, Sequences, FiniteSets

CONSTANT Udids

VARIABLES
  attached, \* phones on the cable
  trusting, \* phones whose owner trusts this host
  front,    \* the command or the tool
  pc,       \* where the call is
  listing,  \* the devices of List, in order
  rows,     \* the rows so far, one for each device checked
  steady,   \* history: trusting phones on the cable all through the call
  causes    \* history: the causes of the failures of this call's requests

vars == <<attached, trusting, front, pc, listing, rows, steady, causes>>
world == <<attached, trusting>>

\* Each step of ConnectLockdownWithSession, and why it can fail.  Reading the
\* pair record fails for a phone that was never paired and on a host that
\* denies the file; a session is refused, or the connection breaks in it.
Failures ==
  [step : {"USBMuxConnection", "Lockdown", "unknown"}, cause : {"transport"}]
  \union [step : {"PairRecord", "StartSession"}, cause : {"trust", "transport"}]

Row == [udid : Udids, trusted : BOOLEAN]

TypeOK ==
  /\ attached \subseteq Udids /\ trusting \subseteq Udids
  /\ front \in {"cli", "mcp"}
  /\ pc \in {"list", "check", "connect", "table", "none", "error"}
  /\ listing \in Seq(Udids) /\ rows \in Seq(Row)
  /\ Len(rows) <= Len(listing)
  /\ steady \subseteq attached \intersect trusting
  /\ causes \subseteq {"trust", "transport"}

Init ==
  /\ attached \in SUBSET Udids
  /\ trusting \in SUBSET Udids
  /\ front \in {"cli", "mcp"}
  /\ pc = "list"
  /\ listing = <<>> /\ rows = <<>>
  /\ steady = attached \intersect trusting
  /\ causes = {}

-------------------------------------------------------------------------------
(* The call *)

Orders(S) == {s \in [1..Cardinality(S) -> S] : \A u \in S : \E i \in DOMAIN s : s[i] = u}

\* Metadata is read as far as it goes, a failure leaves blank fields.  The
\* command has nothing to show for an empty list, the tool shows it.
List ==
  /\ pc = "list"
  /\ listing' \in Orders(attached)
  /\ pc' = IF attached # {} THEN "check" ELSE IF front = "cli" THEN "none" ELSE "table"
  /\ UNCHANGED <<world, front, rows, steady, causes>>

\* usbmuxd cannot be reached, in List or in the listing of one check.
ListFails ==
  /\ pc \in {"list", "check"}
  /\ causes' = causes \union {"transport"}
  /\ pc' = "error"
  /\ UNCHANGED <<world, front, listing, rows, steady>>

Current == listing[Len(rows) + 1]

AddRow(t) ==
  /\ rows' = Append(rows, [udid |-> Current, trusted |-> t])
  /\ pc' = IF Len(rows) + 1 = Len(listing) THEN "table" ELSE "check"

\* Mutation: the loop breaks at a device that has gone.
BreakAtGoneMut ==
  /\ pc = "check"
  /\ pc' = IF Current \in attached THEN "connect" ELSE "table"
  /\ UNCHANGED <<world, front, listing, rows, steady, causes>>

\* Trusted lists the devices again; one that has gone is untrusted.
Check ==
  /\ pc = "check"
  /\ IF Current \in attached
       THEN pc' = "connect" /\ UNCHANGED rows
       ELSE AddRow(FALSE)
  /\ UNCHANGED <<world, front, listing, steady, causes>>

\* classifyTrustError, by the markers in the text; an unknown text counts as
\* a transport failure.
IsTransport(f) == f.step \notin {"PairRecord", "StartSession"}

\* What connecting to a device may fail with: trust is refused only by those
\* who do not trust, and a session only by a phone that is there.
MayFail(u, f) ==
  f.cause = "trust" => u \notin trusting /\ (f.step = "StartSession" => u \in attached)

Connects ==
  /\ pc = "connect"
  /\ Current \in attached \intersect trusting
  /\ AddRow(TRUE)
  /\ UNCHANGED <<world, front, listing, steady, causes>>

\* The first transport failure ends the call, in both front ends; any other
\* failure is an untrusted row.
ConnectFails ==
  /\ pc = "connect"
  /\ \E f \in Failures :
       /\ MayFail(Current, f)
       /\ causes' = causes \union {f.cause}
       /\ IF IsTransport(f) THEN pc' = "error" /\ UNCHANGED rows ELSE AddRow(FALSE)
  /\ UNCHANGED <<world, front, listing, steady>>

-------------------------------------------------------------------------------
(* The phones *)

Cable(u) ==
  /\ attached' = IF u \in attached THEN attached \ {u} ELSE attached \union {u}
  /\ steady' = steady \ {u}
  /\ UNCHANGED <<trusting, front, pc, listing, rows, causes>>

Tap(u) ==
  /\ trusting' = IF u \in trusting THEN trusting \ {u} ELSE trusting \union {u}
  /\ steady' = steady \ {u}
  /\ UNCHANGED <<attached, front, pc, listing, rows, causes>>

Call == List \/ ListFails \/ Check \/ Connects \/ ConnectFails

Next == Call \/ \E u \in Udids : Cable(u) \/ Tap(u)

\* Requests to usbmuxd and lockdownd return.
Spec == Init /\ [][Next]_vars /\ WF_vars(Call)

-------------------------------------------------------------------------------
(* Properties *)

\* A phone that refuses, is not trusted, or is pulled out between the listing
\* and its check is no failure ("only transport failures ... should produce a
\* non-nil error", internal/device/device.go:26-28; "it is recoverable for the
\* *other* devices in the table", iosbackend/device.go:119-120): unless a
\* transport failed, the call ends with a table in which a phone that stayed
\* and trusted all the time is listed, and as trusted.
SteadyShown ==
  pc \in {"table", "none", "error"} /\ "transport" \notin causes =>
    \A u \in steady : \E i \in DOMAIN rows : rows[i] = [udid |-> u, trusted |-> TRUE]

\* The call ends however often phones come and go.
CallEnds == <>(pc \in {"table", "none", "error"})

\* "Transport failures (usbmuxd dead, lockdown TCP reset, dial errors, macOS
\* Tahoe TCC blocking pair-record reads) return (false, err) so the CLI exits
\* non-zero" (iosbackend/device.go:31-33).
TransportSurfaces == "transport" \in causes => pc = "error"

\* "a single bad pair record shouldn't kill the whole listing. The LLM caller
\* sees the summary error string AND the row with trusted=false"
\* (cmd/ios-tidy-mcp/tools.go:733-739): once devices_list has its listing, it
\* has rows to return.
FailSoftListing == front = "mcp" /\ listing # <<>> => pc # "error"
===============================================================================
