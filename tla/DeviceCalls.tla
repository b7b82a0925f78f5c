------------------------------ MODULE DeviceCalls ------------------------------
(***************************************************************************)
(* One process, the phones on its cable, and one call: either a table of   *)
(* devices (DeviceTable) or a call that reads one of them (DeviceReads).   *)
(***************************************************************************)
EXTENDS DeviceReads, Sequences

\* The table's own state; the cable is shared.
VARIABLES trusting, front, step, listing, rows, steady, causes

tableVars == <<trusting, front, step, listing, rows, steady, causes>>
readVars == <<kind, override, ctx, child, pc, udid, name, g, error, alone, first, late>>
allVars == <<vars, tableVars>>

Table == INSTANCE DeviceTable WITH pc <- step

\* There is no table to make.
NoTable ==
  /\ trusting = {} /\ front = "cli" /\ step = "none"
  /\ listing = <<>> /\ rows = <<>>
  /\ steady = {} /\ causes = {}

\* There is nothing to read.
NoRead ==
  /\ kind = "apps" /\ override = None
  /\ ctx = FALSE /\ child = FALSE
  /\ pc = "none"
  /\ udid = None /\ name = None
  /\ g = [r \in Requests |-> "idle"]
  /\ error = "none" /\ first = "none"
  /\ alone = {}
  /\ late = [r \in Requests |-> 0]

CallsInit == (Init /\ NoTable) \/ (Table!Init /\ NoRead)

ReadStep ==
  /\ Handler \/ (\E r \in Requests : Goroutine(r)) \/ Cancel
  /\ UNCHANGED tableVars

\* Listing an order of the phones, a check, a session.
TableStep == Table!Call /\ UNCHANGED readVars

\* The cable belongs to both; only a table looks at who trusts.
PhoneStep ==
  \E u \in Udids :
    \/ Cable(u) /\ Table!Cable(u)
    \/ step # "none" /\ Table!Tap(u) /\ UNCHANGED readVars

CallsNext == ReadStep \/ TableStep \/ PhoneStep

CallsSpec ==
  /\ CallsInit /\ [][CallsNext]_allVars
  /\ WF_allVars(TableStep)
  /\ WF_allVars(Handler /\ UNCHANGED tableVars)
  /\ \A r \in Requests : WF_allVars(Goroutine(r) /\ UNCHANGED tableVars)

-------------------------------------------------------------------------------

\* A phone that stays and trusts is in the table, see DeviceTable.
SteadyShown == Table!SteadyShown

\* Every call returns, whatever happens to the phones meanwhile: a request to a
\* phone that has gone fails, the two goroutines are joined, and the checks of
\* the table come to an end.
EveryCallEnds == CallEnds /\ Table!CallEnds
===============================================================================
