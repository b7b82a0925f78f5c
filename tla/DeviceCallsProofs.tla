--------------------------- MODULE DeviceCallsProofs ---------------------------
(***************************************************************************)
(* For any finite set of phones: both kinds of call keep their promises    *)
(* while they share the cable.  Each has an inductive invariant of its own *)
(* that every step of the composition preserves, since such a step is one  *)
(* of the component or leaves its variables alone.                         *)
(***************************************************************************)
EXTENDS DeviceCalls, FiniteSetTheorems, TLAPS

(* Reads of one device *)

Shape ==
  /\ attached \in SUBSET Udids
  /\ kind \in Kinds /\ override \in Udids \union {None}
  /\ ctx \in BOOLEAN /\ child \in BOOLEAN
  /\ pc \in Finals \union {"resolve", "name", "fetch", "crashlogs", "load"}
  /\ udid \in Udids \union {None} /\ name \in Udids \union {None}
  /\ g \in [Requests -> Settled \union
             {"idle", "check", "dial", "dialing", "recheck", "ask", "asking"}]
  /\ error \in {"none", "resolve", "info", "apps", "crashlogs"}
  /\ alone \in SUBSET Udids
  /\ first \in Requests \union {"none"}
  /\ late \in [Requests -> Int]

\* Before the resolution a phone alone on the cable is remembered as such.
Remembered == pc = "resolve" => \A u \in Udids : attached = {u} => u \in alone

\* Nothing is resolved before the resolution, nothing sent before the fetch.
Places ==
  /\ pc = "resolve" => udid = None /\ name = None
  /\ pc \notin {"resolve"} \union Finals => udid # None
  /\ pc \in {"resolve", "name"} => \A r \in Requests : g[r] = "idle"
  /\ pc = "fetch" =>
       \/ \A r \in Requests : g[r] = "idle"
       \/ \A r \in Requests : g[r] = "idle" <=> r \notin Wanted

\* Only DeviceInfo looks twice.
Looks == g["apps"] # "recheck"

\* Every end of the fetch's context goes back to the caller or to a failure of
\* the device itself.
HasCause == ctx \/ \E r \in Requests : g[r] = "device"
Causes == child \/ (\E r \in Requests : g[r] = "ctx") => HasCause

\* A request sent too late is noticed by the next look at the context.
Lateness ==
  /\ late["info"] \in 0..1
  /\ g["info"] \in {"idle", "check", "dial", "ask"} => late["info"] = 0
  /\ g["info"] \in {"dialing", "recheck"} /\ late["info"] = 1 => Done
  /\ late["apps"] \in 0..2
  /\ g["apps"] \in {"idle", "check", "dial"} => late["apps"] = 0
  /\ g["apps"] \in {"dialing", "ask"} => late["apps"] <= 1

ReadInv ==
  /\ Shape
  /\ Remembered
  /\ RightDevice
  /\ Places
  /\ Looks
  /\ AnswerComplete
  /\ Causes
  /\ Lateness

\* A call starts with nothing resolved and nothing sent, or is none.
LEMMA InitReads == CallsInit => ReadInv
<1> USE UdidsAssumption
    DEF ReadInv, Shape, Remembered, RightDevice, Places, Looks, AnswerComplete, NoneLeft,
        Causes, HasCause, Lateness, Requests, Kinds, Finals, Settled, Done
<1>1. ASSUME Init PROVE ReadInv
  <2>1. Shape
    <3>1. alone \in SUBSET Udids
      BY <1>1 DEF Init
    <3>2. /\ g \in [Requests -> Settled \union
                      {"idle", "check", "dial", "dialing", "recheck", "ask", "asking"}]
          /\ late \in [Requests -> Int]
      BY <1>1 DEF Init
    <3>3. QED
      BY <1>1, <3>1, <3>2 DEF Init
  <2>2. \A r \in Requests : g[r] = "idle" /\ late[r] = 0
    BY <1>1 DEF Init
  <2>3. Remembered /\ RightDevice /\ Places /\ Looks /\ AnswerComplete
    BY <1>1, <2>2 DEF Init
  <2>4. Causes /\ Lateness
    BY <1>1, <2>2 DEF Init
  <2>5. QED
    BY <2>1, <2>3, <2>4
<1>2. ASSUME NoRead, attached \in SUBSET Udids PROVE ReadInv
  <2>1. Shape
    <3>1. alone \in SUBSET Udids
      BY <1>2 DEF NoRead
    <3>2. /\ g \in [Requests -> Settled \union
                      {"idle", "check", "dial", "dialing", "recheck", "ask", "asking"}]
          /\ late \in [Requests -> Int]
      BY <1>2 DEF NoRead
    <3>3. QED
      BY <1>2, <3>1, <3>2 DEF NoRead
  <2>2. \A r \in Requests : g[r] = "idle" /\ late[r] = 0
    BY <1>2 DEF NoRead
  <2>3. Remembered /\ RightDevice /\ Places /\ Looks /\ AnswerComplete
    BY <1>2, <2>2 DEF NoRead
  <2>4. Causes /\ Lateness
    BY <1>2, <2>2 DEF NoRead
  <2>5. QED
    BY <2>1, <2>3, <2>4
<1>3. QED
  BY <1>1, <1>2 DEF CallsInit, Table!Init

LEMMA StepReads == ReadInv /\ [Next]_vars => ReadInv'
<1> SUFFICES ASSUME ReadInv, [Next]_vars PROVE ReadInv'
  OBVIOUS
<1> USE UdidsAssumption
    DEF ReadInv, Shape, Remembered, RightDevice, Places, Looks, AnswerComplete, NoneLeft,
        Causes, HasCause, Lateness, Requests, Finals, Settled, Done,
        Wanted, Parallel, call, fetch, history
<1>1. CASE Resolve
  BY <1>1 DEF Resolve, Picks, AfterResolve
<1>2. CASE ResolveFails
  BY <1>2 DEF ResolveFails
<1>3. CASE ListFails
  BY <1>3 DEF ListFails, AfterResolve
<1>4. CASE LookUpName
  BY <1>4 DEF LookUpName
<1>5. CASE Spawn
  BY <1>5 DEF Spawn
<1>6. CASE Join
  BY <1>6 DEF Join, Joined, Reported, Failed
<1>7. CASE CrashLogs
  BY <1>7 DEF CrashLogs
<1>8. CASE Load
  BY <1>8 DEF Load
<1>9. ASSUME NEW r \in Requests, Check(r) PROVE ReadInv'
  BY <1>9 DEF Check, Fail, Goto
<1>10. ASSUME NEW r \in Requests, Send(r) PROVE ReadInv'
  BY <1>10 DEF Send, Goto
<1>11. ASSUME NEW r \in Requests, Reply(r) PROVE ReadInv'
  BY <1>11 DEF Reply, Goto, AfterReply
<1>12. ASSUME NEW r \in Requests, RequestFails(r) PROVE ReadInv'
  BY <1>12 DEF RequestFails, Fail, Goto
<1>13. CASE Cancel
  BY <1>13 DEF Cancel
<1>14. ASSUME NEW u \in Udids, Cable(u) PROVE ReadInv'
  BY <1>14 DEF Cable
<1>15. CASE UNCHANGED vars
  BY <1>15 DEF vars
<1>16. QED
  BY <1>1, <1>2, <1>3, <1>4, <1>5, <1>6, <1>7, <1>8, <1>9, <1>10, <1>11, <1>12,
     <1>13, <1>14, <1>15
  DEF Next, Handler, Goroutine

\* In the composition a step is one of the read or does not concern it.
LEMMA StepIsRead == [CallsNext]_allVars => [Next]_vars
<1>1. ReadStep => Next
  BY DEF ReadStep, Next
<1>2. TableStep => UNCHANGED vars
  BY DEF TableStep, readVars, vars, Table!Call, Table!List, Table!ListFails, Table!Check,
         Table!Connects, Table!ConnectFails, Table!world
<1>3. PhoneStep => [Next]_vars
  BY DEF PhoneStep, Next, readVars, vars, Table!Tap
<1>4. QED
  BY <1>1, <1>2, <1>3 DEF CallsNext, allVars

LEMMA ReadsAlways == CallsSpec => []ReadInv
  BY InitReads, StepReads, StepIsRead, PTL DEF CallsSpec

\* A read addresses the device that was named, or one that was alone on the
\* cable, and echoes no other's name.
THEOREM AlwaysRightDevice == CallsSpec => []RightDevice
<1>1. ReadInv => RightDevice
  BY DEF ReadInv
<1>2. QED
  BY <1>1, ReadsAlways, PTL

\* No answer lacks a half, and nothing talks to the device after the fetch.
THEOREM AnswersAlwaysComplete == CallsSpec => []AnswerComplete
<1>1. ReadInv => AnswerComplete
  BY DEF ReadInv
<1>2. QED
  BY <1>1, ReadsAlways, PTL

\* A request that ends as cancelled was cancelled by the caller or by a failure
\* of the device.
THEOREM CancelAlwaysHasCause == CallsSpec => []CancelHasCause
<1>1. ReadInv => CancelHasCause
  BY DEF ReadInv, Causes, HasCause, CancelHasCause
<1>2. QED
  BY <1>1, ReadsAlways, PTL

\* The end of the context is followed by one request of DeviceInfo at most and
\* two of UserApps.
THEOREM AlwaysFewLateRequests == CallsSpec => []FewLateRequests
<1>1. ReadInv => FewLateRequests
  BY DEF ReadInv, Lateness, FewLateRequests
<1>2. QED
  BY <1>1, ReadsAlways, PTL

-------------------------------------------------------------------------------
(* Tables of devices *)

TableShape ==
  /\ attached \in SUBSET Udids /\ trusting \in SUBSET Udids
  /\ front \in {"cli", "mcp"}
  /\ step \in {"list", "check", "connect", "table", "none", "error"}
  /\ listing \in Seq(Udids) /\ rows \in Seq(Table!Row)
  /\ steady \in SUBSET Udids
  /\ causes \in SUBSET {"trust", "transport"}

\* The loop has a row for each device before the current one.
Progress ==
  /\ step = "list" => rows = <<>>
  /\ step \in {"check", "connect"} => Len(rows) < Len(listing)
  /\ step = "table" => Len(rows) = Len(listing)

\* Who stays and trusts is listed, unless the listing found nobody.
Listed ==
  /\ steady \subseteq attached \intersect trusting
  /\ step = "none" => steady = {}
  /\ step \in {"check", "connect", "table"} =>
       \A u \in steady : \E i \in DOMAIN listing : listing[i] = u

\* The rows are of the listed devices, and only a transport hides trust.
Faithful ==
  \A i \in DOMAIN rows :
    /\ i \in DOMAIN listing /\ rows[i].udid = listing[i]
    /\ listing[i] \in steady /\ "transport" \notin causes => rows[i].trusted = TRUE

TableInv ==
  /\ TableShape
  /\ Progress
  /\ Listed
  /\ Faithful
  /\ step = "error" => "transport" \in causes

\* A table starts empty; a call that makes none leaves it so.
LEMMA InitTable == CallsInit => TableInv
<1>1. CallsInit => /\ attached \in SUBSET Udids /\ trusting \in SUBSET Udids
                   /\ front \in {"cli", "mcp"} /\ step \in {"list", "none"}
                   /\ listing = <<>> /\ rows = <<>> /\ causes = {}
                   /\ steady \subseteq attached \intersect trusting
                   /\ step = "none" => steady = {}
  BY DEF CallsInit, Init, NoTable, Table!Init
<1>2. QED
  BY <1>1 DEF TableInv, TableShape, Progress, Listed, Faithful

\* The device that the loop has come to is one of the listing.
LEMMA CurrentListed ==
  ASSUME TableInv, step \in {"check", "connect"}
  PROVE  /\ Len(rows) + 1 \in DOMAIN listing
         /\ Table!Current = listing[Len(rows) + 1] /\ Table!Current \in Udids
  BY DEF TableInv, TableShape, Progress, Table!Current

\* A row that is true to the device, whatever a transport hides.
LEMMA RowAdded ==
  ASSUME TableInv, step \in {"check", "connect"}, NEW t \in BOOLEAN, Table!AddRow(t),
         attached' \in SUBSET Udids, trusting' = trusting, front' = front,
         listing' = listing, steady' = steady, attached' = attached,
         causes' \in SUBSET {"trust", "transport"}, causes \subseteq causes',
         Table!Current \in steady /\ "transport" \notin causes' => t = TRUE
  PROVE  TableInv'
<1>1. /\ rows' = Append(rows, [udid |-> Table!Current, trusted |-> t])
      /\ step' = IF Len(rows) + 1 = Len(listing) THEN "table" ELSE "check"
  BY DEF Table!AddRow
<1>2. [udid |-> Table!Current, trusted |-> t] \in Table!Row
  BY CurrentListed DEF Table!Row
<1>3. /\ rows' \in Seq(Table!Row) /\ Len(rows') = Len(rows) + 1
      /\ \A i \in 1..Len(rows) : rows'[i] = rows[i]
      /\ rows'[Len(rows) + 1] = [udid |-> Table!Current, trusted |-> t]
  BY <1>1, <1>2 DEF TableInv, TableShape
<1>4. Len(rows) + 1 <= Len(listing) /\ Len(rows) \in Nat /\ Len(listing) \in Nat
  BY DEF TableInv, TableShape, Progress
<1>5. TableShape' /\ Progress'
  BY <1>1, <1>3, <1>4 DEF TableInv, TableShape, Progress, Table!Row
<1>6. Listed'
  BY <1>1 DEF TableInv, Listed
<1>7. Faithful'
  <2> SUFFICES ASSUME NEW i \in (DOMAIN rows)'
               PROVE  /\ i \in DOMAIN listing /\ rows'[i].udid = listing[i]
                      /\ listing[i] \in steady /\ "transport" \notin causes'
                           => rows'[i].trusted = TRUE
    BY DEF Faithful
  <2>1. i \in 1..Len(rows) \/ i = Len(rows) + 1
    BY <1>3, <1>4, <1>5 DEF TableShape
  <2>2. CASE i \in 1..Len(rows)
    BY <2>2, <1>3 DEF TableInv, TableShape, Faithful
  <2>3. CASE i = Len(rows) + 1
    BY <2>3, <1>3, CurrentListed
  <2>4. QED
    BY <2>1, <2>2, <2>3
<1>8. QED
  BY <1>1, <1>5, <1>6, <1>7 DEF TableInv

LEMMA StepTable == TableInv /\ [Table!Next]_(Table!vars) => TableInv'
<1> SUFFICES ASSUME TableInv, [Table!Next]_(Table!vars) PROVE TableInv'
  OBVIOUS
<1> USE UdidsAssumption
<1>1. CASE Table!List
  <2>1. attached \in SUBSET Udids /\ IsFiniteSet(attached)
    BY FS_Subset DEF TableInv, TableShape
  <2>2. /\ Cardinality(attached) \in Nat
        /\ attached = {} <=> Cardinality(attached) = 0
    BY <2>1, FS_CardinalityType, FS_EmptySet
  <2>3. /\ listing' \in [1..Cardinality(attached) -> attached]
        /\ \A u \in attached : \E i \in DOMAIN listing' : listing'[i] = u
    BY <1>1 DEF Table!List, Table!Orders, Table!Cardinality, Cardinality
  <2>4. listing' \in Seq(Udids) /\ Len(listing') = Cardinality(attached)
    BY <2>1, <2>2, <2>3
  <2>5. /\ rows = <<>> /\ rows' = rows /\ steady' = steady
        /\ attached' = attached /\ trusting' = trusting /\ front' = front
        /\ causes' = causes
        /\ step' = IF attached # {} THEN "check"
                   ELSE IF front = "cli" THEN "none" ELSE "table"
    BY <1>1 DEF Table!List, Table!world, TableInv, Progress
  <2>6. TableShape'
    BY <2>4, <2>5 DEF TableInv, TableShape
  <2>7. Progress'
    BY <2>2, <2>4, <2>5 DEF TableInv, TableShape, Progress
  <2>8. Listed' /\ Faithful' /\ step' # "error"
    BY <2>3, <2>5 DEF TableInv, Listed, Faithful
  <2>9. QED
    BY <2>6, <2>7, <2>8 DEF TableInv
<1>2. CASE Table!ListFails
  BY <1>2 DEF Table!ListFails, Table!world, TableInv, TableShape, Progress, Listed,
              Faithful
<1>3. CASE Table!Check
  <2>1. CASE Table!Current \in attached
    BY <1>3, <2>1 DEF Table!Check, Table!world, TableInv, TableShape, Progress, Listed,
                      Faithful
  <2>2. CASE Table!Current \notin attached
    BY <1>3, <2>2, RowAdded DEF Table!Check, Table!world, TableInv, TableShape, Listed
  <2>3. QED
    BY <2>1, <2>2
<1>4. CASE Table!Connects
  BY <1>4, RowAdded DEF Table!Connects, Table!world, TableInv, TableShape
<1>5. CASE Table!ConnectFails
  <2>1. PICK f \in Table!Failures :
          /\ Table!MayFail(Table!Current, f)
          /\ causes' = causes \union {f.cause}
          /\ IF Table!IsTransport(f) THEN step' = "error" /\ UNCHANGED rows
                                     ELSE Table!AddRow(FALSE)
    BY <1>5 DEF Table!ConnectFails
  <2>2. /\ f.cause \in {"trust", "transport"}
        /\ Table!IsTransport(f) => f.cause = "transport"
        /\ f.cause = "trust" => Table!Current \notin trusting
    BY <2>1 DEF Table!Failures, Table!IsTransport, Table!MayFail
  <2>3. CASE Table!IsTransport(f)
    BY <1>5, <2>1, <2>2, <2>3
    DEF Table!ConnectFails, Table!world, TableInv, TableShape, Progress, Listed, Faithful
  <2>4. CASE ~Table!IsTransport(f)
    BY <1>5, <2>1, <2>2, <2>4, RowAdded
    DEF Table!ConnectFails, Table!world, TableInv, TableShape, Listed
  <2>5. QED
    BY <2>3, <2>4
<1>6. ASSUME NEW u \in Udids, Table!Cable(u) PROVE TableInv'
  BY <1>6 DEF Table!Cable, TableInv, TableShape, Progress, Listed, Faithful
<1>7. ASSUME NEW u \in Udids, Table!Tap(u) PROVE TableInv'
  BY <1>7 DEF Table!Tap, TableInv, TableShape, Progress, Listed, Faithful
<1>8. CASE UNCHANGED Table!vars
  BY <1>8 DEF Table!vars, TableInv, TableShape, Progress, Listed, Faithful
<1>9. QED
  BY <1>1, <1>2, <1>3, <1>4, <1>5, <1>6, <1>7, <1>8 DEF Table!Next, Table!Call

\* In the composition a step is one of the table or does not concern it.
LEMMA StepIsTable == [CallsNext]_allVars => [Table!Next]_(Table!vars)
<1>1. ReadStep => UNCHANGED Table!vars
  BY DEF ReadStep, tableVars, Table!vars, Handler, Resolve, ResolveFails, ListFails,
         LookUpName, Spawn, Join, CrashLogs, Load, Goroutine, Check, Send, Reply,
         RequestFails, Cancel
<1>2. TableStep => Table!Next
  BY DEF TableStep, Table!Next
<1>3. PhoneStep => Table!Next
  BY DEF PhoneStep, Table!Next
<1>4. UNCHANGED allVars => UNCHANGED Table!vars
  BY DEF allVars, vars, tableVars, Table!vars
<1>5. QED
  BY <1>1, <1>2, <1>3, <1>4 DEF CallsNext

LEMMA TableAlways == CallsSpec => []TableInv
  BY InitTable, StepTable, StepIsTable, PTL DEF CallsSpec

\* Both parts keep their types, and no row is without a listed device.
THEOREM TypesCorrect == CallsSpec => [](TypeOK /\ Table!TypeOK)
<1>1. ReadInv => TypeOK
  BY DEF ReadInv, Shape, Places, Lateness, Requests, TypeOK
<1>2. TableInv => Table!TypeOK
  <2> SUFFICES ASSUME TableInv PROVE Table!TypeOK
    OBVIOUS
  <2>1. Len(rows) <= Len(listing)
    BY DEF TableInv, TableShape, Faithful
  <2>2. QED
    BY <2>1 DEF TableInv, TableShape, Listed, Table!TypeOK
<1>3. QED
  BY <1>1, <1>2, ReadsAlways, TableAlways, PTL

\* A phone that stays and trusts is in the table as trusted, unless the call
\* ends in an error that a transport has caused.
THEOREM SteadyAlwaysShown == CallsSpec => []SteadyShown
<1>1. TableInv => SteadyShown
  <2> SUFFICES ASSUME TableInv, step \in {"table", "none", "error"},
                      "transport" \notin causes, NEW u \in steady
               PROVE  \E i \in DOMAIN rows : rows[i] = [udid |-> u, trusted |-> TRUE]
    BY DEF SteadyShown, Table!SteadyShown
  <2>1. step = "table"
    BY DEF TableInv, Listed
  <2>2. PICK i \in DOMAIN listing : listing[i] = u
    BY <2>1 DEF TableInv, Listed
  <2>3. i \in DOMAIN rows
    BY <2>1, <2>2 DEF TableInv, TableShape, Progress
  <2>4. rows[i] \in Table!Row /\ rows[i].udid = u /\ rows[i].trusted = TRUE
    BY <2>2, <2>3 DEF TableInv, TableShape, Faithful
  <2>5. QED
    BY <2>3, <2>4 DEF Table!Row
<1>2. QED
  BY <1>1, TableAlways, PTL
===============================================================================
