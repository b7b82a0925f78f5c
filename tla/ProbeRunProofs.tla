---------------------------- MODULE ProbeRunProofs ----------------------------
(***************************************************************************)
(* For any bundles, any number of targets and any device: no session is    *)
(* without somebody who closes it, no row claims what the device has not   *)
(* said in that attempt, and the saved document has a row for each target. *)
(* Nothing is assumed of how a failure is worded.                          *)
(* The inductive invariant says for each attempt where its dial, its       *)
(* session and its row are.                                                *)
(***************************************************************************)
EXTENDS ProbeRun, TLAPS

Shape ==
  /\ targets \in Seq(Bundles) /\ Len(targets) \in Attempts
  /\ installed \in SUBSET Bundles
  /\ pc \in {"loop", "open", "dial", "wait", "close", "done", "failed"}
  /\ k \in Nat \ {0} /\ k <= Len(targets) + 1
  /\ cancelled \in BOOLEAN /\ expired \in BOOLEAN
  /\ dial \in [Attempts -> {"none", "flying", "posted", "received", "drained"}]
  /\ answer \in [Attempts -> Answers \union {NoAnswer}]
  /\ conn \in [Attempts -> {"none", "open", "closed"}]
  /\ drain \in SUBSET Attempts
  /\ rows \in Seq(Row) /\ Len(rows) = k - 1
  /\ saved \in Seq(Row)
  /\ lateDials \in 0..1

\* The rows are of the targets, in order, and the loop ends after the last.
InOrder ==
  /\ \A i \in 1..Len(rows) : rows[i].bundle = targets[i]
  /\ pc \in {"open", "dial", "wait", "close"} => k <= Len(targets)
  /\ pc = "done" => saved = rows /\ k = Len(targets) + 1

\* The attempt at work and its dial.
Current ==
  /\ pc \in {"loop", "open", "dial"} => \A j \in Attempts : j >= k => dial[j] = "none"
  /\ \A j \in Attempts : j > k => dial[j] = "none"
  /\ pc = "wait" => dial[k] \in {"flying", "posted"}
  /\ pc = "close" => dial[k] = "received" /\ answer[k] = Vend

\* A dial under way or not yet received is waited for, by Open or by the
\* goroutine that Open left behind; then the row says "error".
Waited(j) ==
  /\ dial[j] \in {"flying", "posted"} => j \in drain \/ (j = k /\ pc = "wait")
  /\ j \in drain => /\ j < k /\ rows[j].outcome = "error"
                    /\ dial[j] \in {"flying", "posted"}

\* A session is open from the answer to the end of the probe or the drain.
Sessions(j) ==
  /\ conn[j] = "open" => \/ dial[j] = "posted"
                         \/ j = k /\ pc = "close"
  /\ dial[j] \in {"none", "flying"} => conn[j] = "none"
  /\ dial[j] = "posted" => /\ answer[j] \in Answers
                           /\ conn[j] = "open" => answer[j] = Vend

\* A cancelled run dials once more at most, if it was just about to.
Dials ==
  /\ ~cancelled => lateDials = 0
  /\ pc = "dial" => lateDials = 0

IInv ==
  /\ Shape
  /\ InOrder
  /\ Current
  /\ \A j \in Attempts : Waited(j) /\ Sessions(j)
  /\ Dials
  /\ RowsTruthful

\* What each verdict says of the wording, whatever the wording.
LEMMA Classified ==
  ASSUME NEW m
  PROVE  /\ Classify(m) \in {"refused", "error", "unknown"}
         /\ Classify(m) = "refused" => /\ m \intersect Refusals # {}
                                       /\ m \intersect {"notInstalled", "transport"} = {}
         /\ Classify(m) = "unknown" => "notInstalled" \in m
<1>1. CASE "notInstalled" \in m \/ "transport" \in m
  BY <1>1 DEF Classify
<1>2. CASE "notInstalled" \notin m /\ "transport" \notin m
  BY <1>2 DEF Classify
<1>3. QED
  BY <1>1, <1>2

\* The first target waits for its probe.
LEMMA InitIInv == Init => IInv
<1> SUFFICES ASSUME Init PROVE IInv
  OBVIOUS
<1>1. PICK n \in Attempts : targets \in [1..n -> Bundles]
  BY DEF Init
<1>2. targets \in Seq(Bundles) /\ Len(targets) = n /\ n \in Nat \ {0}
  BY <1>1, MaxTargetsAssumption DEF Attempts
<1>3. Shape
  <2>1. /\ dial \in [Attempts -> {"none", "flying", "posted", "received", "drained"}]
        /\ answer \in [Attempts -> Answers \union {NoAnswer}]
        /\ conn \in [Attempts -> {"none", "open", "closed"}]
    BY DEF Init
  <2>2. /\ installed \in SUBSET Bundles /\ drain \in SUBSET Attempts
        /\ rows = <<>> /\ saved = <<>> /\ pc = "loop" /\ k = 1
        /\ cancelled \in BOOLEAN /\ expired \in BOOLEAN /\ lateDials = 0
    BY DEF Init
  <2>3. rows \in Seq(Row) /\ Len(rows) = k - 1 /\ saved \in Seq(Row)
    BY <2>2
  <2>4. k \in Nat \ {0} /\ k <= Len(targets) + 1 /\ Len(targets) \in Attempts
    BY <1>2, <2>2
  <2>5. QED
    BY <1>2, <2>1, <2>2, <2>3, <2>4 DEF Shape
<1>4. InOrder /\ RowsTruthful
  BY <1>2 DEF Init, InOrder, RowsTruthful
<1>5. Current /\ Dials
  BY DEF Init, Current, Dials
<1>6. \A j \in Attempts : Waited(j) /\ Sessions(j)
  BY DEF Init, Waited, Sessions
<1>7. QED
  BY <1>3, <1>4, <1>5, <1>6 DEF IInv

\* The current target has got its row.
RowAdded(o) ==
  /\ rows' \in Seq(Row) /\ Len(rows') = k /\ k' = k + 1 /\ k \in Attempts
  /\ \A i \in 1..(k - 1) : rows'[i] = rows[i]
  /\ rows'[k].bundle = targets[k] /\ rows'[k].outcome = o
  /\ pc' = "loop" /\ expired' = FALSE
  /\ targets' = targets /\ installed' = installed
  /\ cancelled' = cancelled /\ saved' = saved

\* What a probe records is one more row, of the current target.
LEMMA Recorded ==
  ASSUME IInv, NEW o \in Outcomes, Record(o), k <= Len(targets)
  PROVE  RowAdded(o)
<1>1. k \in Attempts /\ targets[k] \in Bundles
  BY MaxTargetsAssumption DEF IInv, Shape, Attempts
<1>2. [bundle |-> targets[k], outcome |-> o] \in Row
  BY <1>1 DEF Row
<1>3. QED
  BY <1>1, <1>2 DEF Record, RowAdded, runVars, IInv, Shape

\* The row of attempt j, with outcome o, goes by what the attempt brought back.
RowTrue(j, o, b) ==
  /\ o = "vended" <=> dial[j] = "received" /\ answer[j] = Vend
  /\ o = "refused" => /\ Heard(j)
                      /\ answer[j].text \intersect Refusals # {}
                      /\ answer[j].text \intersect {"notInstalled", "transport"} = {}
  /\ o = "unknown" => \/ b \notin installed
                      \/ Heard(j) /\ "notInstalled" \in answer[j].text

LEMMA RowsByRow ==
  RowsTruthful <=> \A j \in 1..Len(rows) : RowTrue(j, rows[j].outcome, rows[j].bundle)
  BY DEF RowsTruthful, RowTrue

\* The row of a dial that is waited for says "error", whatever comes of the dial;
\* other rows keep what they rest on.
LEMMA RowsKept ==
  ASSUME RowsTruthful, rows' = rows, installed' = installed,
         \A j \in 1..Len(rows) :
           \/ rows[j].outcome = "error" /\ dial'[j] # "received"
           \/ dial'[j] = dial[j] /\ answer'[j] = answer[j]
  PROVE  RowsTruthful'
<1> SUFFICES ASSUME NEW j \in 1..Len(rows)
             PROVE  RowTrue(j, rows[j].outcome, rows[j].bundle)'
  BY RowsByRow DEF RowsTruthful, RowTrue
<1>1. RowTrue(j, rows[j].outcome, rows[j].bundle)
  BY RowsByRow
<1>2. CASE rows[j].outcome = "error" /\ dial'[j] # "received"
  BY <1>2 DEF RowTrue
<1>3. CASE dial'[j] = dial[j] /\ answer'[j] = answer[j]
  BY <1>1, <1>3 DEF RowTrue, Heard
<1>4. QED
  BY <1>2, <1>3

\* The row agrees with the attempt that it is about, and nobody else is touched.
Settled(o) ==
  /\ lateDials' = lateDials /\ drain' \in SUBSET Attempts
  /\ dial' \in [Attempts -> {"none", "flying", "posted", "received", "drained"}]
  /\ answer' \in [Attempts -> Answers \union {NoAnswer}]
  /\ conn' \in [Attempts -> {"none", "open", "closed"}]
  /\ \A j \in Attempts \ {k} : /\ dial'[j] = dial[j] /\ answer'[j] = answer[j]
                               /\ conn'[j] = conn[j] /\ (j \in drain' <=> j \in drain)
  /\ dial'[k] \in {"flying", "posted"} <=> k \in drain'
  /\ k \in drain' => o = "error"
  /\ conn'[k] = "open" => dial'[k] = "posted"
  /\ dial'[k] \in {"none", "flying"} => conn'[k] = "none"
  /\ dial'[k] = "posted" => answer'[k] \in Answers /\ (conn'[k] = "open" => answer'[k] = Vend)
  /\ o = "vended" <=> dial'[k] = "received" /\ answer'[k] = Vend
  /\ o \in {"refused", "unknown"} =>
       \/ o = "unknown" /\ targets[k] \notin installed
       \/ /\ answer'[k] \in Failures /\ dial'[k] \in {"none", "received"}
          /\ o = Classify(answer'[k].text)

\* The end of a probe leaves its dial drained or done with, and its row true.
LEMMA ProbeEnds ==
  ASSUME IInv, NEW o \in Outcomes, Record(o), k <= Len(targets), Settled(o)
  PROVE  IInv'
<1>1. RowAdded(o)
  BY Recorded
<1>2. k \in Attempts /\ \A j \in Attempts : j \in Nat \ {0}
  BY <1>1, MaxTargetsAssumption DEF RowAdded, Attempts
<1>3. Shape'
  <2>1. /\ targets' \in Seq(Bundles) /\ Len(targets') \in Attempts
        /\ installed' \in SUBSET Bundles
    BY <1>1 DEF IInv, Shape, RowAdded
  <2>2. k' \in Nat \ {0} /\ k' <= Len(targets') + 1
    BY <1>1 DEF IInv, Shape, RowAdded
  <2>3. cancelled' \in BOOLEAN /\ expired' \in BOOLEAN /\ saved' \in Seq(Row) /\ pc' = "loop"
    BY <1>1 DEF IInv, Shape, RowAdded
  <2>4. rows' \in Seq(Row) /\ Len(rows') = k' - 1
    BY <1>1, <1>2, <2>2 DEF RowAdded
  <2>5. lateDials' \in 0..1
    BY DEF IInv, Shape, Settled
  <2>6. QED
    BY <2>1, <2>2, <2>3, <2>4, <2>5 DEF Settled, Shape
<1>4. InOrder'
  <2>1. ASSUME NEW i \in 1..k PROVE rows'[i].bundle = targets'[i]
    <3>1. CASE i = k
      BY <1>1, <3>1 DEF RowAdded
    <3>2. CASE i # k
      <4>1. i \in 1..(k - 1) /\ i \in 1..Len(rows)
        BY <3>2, <1>2 DEF IInv, Shape
      <4>2. QED
        BY <1>1, <4>1 DEF RowAdded, IInv, InOrder
    <3>3. QED
      BY <3>1, <3>2
  <2>2. QED
    BY <1>1, <2>1 DEF RowAdded, InOrder
<1>5. Current' /\ Dials'
  <2>1. ASSUME NEW j \in Attempts, j >= k + 1 PROVE dial'[j] = "none"
    <3>1. j > k /\ j \in Attempts \ {k}
      BY <1>2, <2>1
    <3>2. QED
      BY <3>1 DEF Settled, IInv, Current
  <2>2. k' = k + 1 /\ pc' = "loop" /\ cancelled' = cancelled /\ lateDials' = lateDials
    BY <1>1 DEF RowAdded, Settled
  <2>3. Dials'
    BY <2>2 DEF IInv, Dials
  <2>4. Current'
    BY <1>2, <2>1, <2>2 DEF Current
  <2>5. QED
    BY <2>3, <2>4
<1>6. (\A j \in Attempts : Waited(j) /\ Sessions(j))'
  <2> SUFFICES ASSUME NEW j \in Attempts PROVE Waited(j)' /\ Sessions(j)'
    OBVIOUS
  <2>1. CASE j = k
    BY <1>1, <1>2, <2>1 DEF IInv, Shape, RowAdded, Settled, Waited, Sessions
  <2>2. CASE j # k
    <3>1. /\ dial'[j] = dial[j] /\ answer'[j] = answer[j] /\ conn'[j] = conn[j]
          /\ j \in drain' <=> j \in drain
      BY <2>2 DEF Settled
    <3>2. Waited(j) /\ Sessions(j)
      BY DEF IInv
    <3>3. /\ k' = k + 1 /\ pc' = "loop" /\ k \in Nat /\ j \in Nat \ {0}
          /\ j < k => rows'[j] = rows[j]
      BY <1>1, <1>2 DEF RowAdded
    <3>4. Waited(j)'
      BY <2>2, <3>1, <3>2, <3>3 DEF Waited
    <3>5. Sessions(j)'
      BY <2>2, <3>1, <3>2, <3>3 DEF Sessions
    <3>6. QED
      BY <3>4, <3>5
  <2>3. QED
    BY <2>1, <2>2
<1>7. RowsTruthful'
  <2> SUFFICES ASSUME NEW j \in 1..k
               PROVE  RowTrue(j, rows[j].outcome, rows[j].bundle)'
    BY <1>1 DEF RowAdded, RowsTruthful, RowTrue
  <2>1. CASE j = k
    <3>1. rows'[j].outcome = o /\ rows'[j].bundle = targets[j] /\ installed' = installed
      BY <1>1, <2>1 DEF RowAdded
    <3>2. CASE o \in {"refused", "unknown"}
      BY <2>1, <3>1, <3>2, Classified DEF Settled, RowTrue, Heard
    <3>3. CASE o \in {"vended", "error"}
      BY <2>1, <3>1, <3>3 DEF Settled, RowTrue
    <3>4. QED
      BY <3>2, <3>3 DEF Outcomes
  <2>2. CASE j # k
    <3>1. j \in 1..Len(rows) /\ j \in Attempts \ {k} /\ j \in 1..(k - 1)
      BY <1>1, <1>2, <2>2, MaxTargetsAssumption DEF IInv, Shape, Attempts
    <3>2. /\ rows'[j] = rows[j] /\ installed' = installed
          /\ dial'[j] = dial[j] /\ answer'[j] = answer[j]
      BY <1>1, <3>1 DEF RowAdded, Settled
    <3>3. RowTrue(j, rows[j].outcome, rows[j].bundle)
      BY <3>1, RowsByRow DEF IInv
    <3>4. QED
      BY <3>2, <3>3 DEF RowTrue, Heard
  <2>3. QED
    BY <2>1, <2>2
<1>8. QED
  BY <1>3, <1>4, <1>5, <1>6, <1>7 DEF IInv

\* No step loses a dial or a session, or makes a row say what is not so.
LEMMA StepIInv == IInv /\ [Next]_vars => IInv'
<1> SUFFICES ASSUME IInv, [Next]_vars PROVE IInv'
  OBVIOUS
<1> USE DEF IInv, runVars, deviceVars
<1>0. /\ k <= Len(targets) => k \in Attempts
      /\ \A j \in Attempts : j \in Nat
  BY MaxTargetsAssumption DEF Shape, Attempts
<1>1. CASE Skip
  <2>1. k \in Attempts /\ k <= Len(targets) /\ targets[k] \notin installed /\ dial[k] = "none"
    BY <1>0, <1>1 DEF Skip, Current, Shape
  <2>2. k \notin drain /\ conn[k] = "none"
    BY <2>1 DEF Waited, Sessions
  <2>3. Settled("unknown")
    BY <1>1, <2>1, <2>2 DEF Skip, Settled, Shape
  <2>4. QED
    BY <1>1, <2>1, <2>3, ProbeEnds DEF Skip, Outcomes
<1>2. CASE BeginProbe
  BY <1>2, RowsKept DEF BeginProbe, Goto, Shape, InOrder, Current, Waited, Sessions, Dials
<1>3. CASE Check
  <2>1. CASE CtxDone /\ Record("error") /\ UNCHANGED deviceVars
    <3>1. k \in Attempts /\ k <= Len(targets) /\ dial[k] = "none"
      BY <1>0, <1>3 DEF Check, InOrder, Current, Shape
    <3>2. k \notin drain /\ conn[k] = "none"
      BY <3>1 DEF Waited, Sessions
    <3>3. Settled("error")
      BY <2>1, <3>1, <3>2 DEF Settled, Shape
    <3>4. QED
      BY <2>1, <3>1, <3>3, ProbeEnds DEF Outcomes
  <2>2. CASE ~CtxDone /\ Goto("dial") /\ UNCHANGED deviceVars
    BY <1>3, <2>2, RowsKept
    DEF Check, Goto, CtxDone, Shape, InOrder, Current, Waited, Sessions, Dials
  <2>3. ASSUME NEW f \in Failures, answer' = [answer EXCEPT ![k] = f],
               Record(Classify(f.text)), UNCHANGED <<dial, conn, drain, lateDials>>
        PROVE  IInv'
    <3> DEFINE o == Classify(f.text)
    <3>1. o \in {"refused", "error", "unknown"}
      BY Classified
    <3>2. Record(o) /\ o = Classify(f.text)
      BY <2>3
    <3> HIDE DEF o
    <3>3. k \in Attempts /\ k <= Len(targets) /\ dial[k] = "none"
      BY <1>0, <1>3 DEF Check, InOrder, Current, Shape
    <3>4. /\ answer' \in [Attempts -> Answers \union {NoAnswer}]
          /\ \A j \in Attempts \ {k} : answer'[j] = answer[j]
          /\ answer'[k] = f
      BY <2>3, <3>3 DEF Shape, Answers
    <3>5. k \notin drain /\ conn[k] = "none"
      BY <1>0, <3>3 DEF Shape, Waited, Sessions
    <3>6. Settled(o)
      BY <2>3, <3>1, <3>2, <3>3, <3>4, <3>5 DEF Settled, Shape
    <3>7. QED
      BY <3>1, <3>2, <3>3, <3>6, ProbeEnds DEF Outcomes
  <2>4. QED
    BY <1>3, <2>1, <2>2, <2>3 DEF Check
<1>4. CASE Spawn
  <2>1. k \in Attempts /\ dial[k] = "none" /\ k \notin drain /\ conn[k] = "none"
    BY <1>0, <1>4 DEF Spawn, Shape, InOrder, Current, Waited, Sessions
  <2>2. Shape' /\ InOrder' /\ Current' /\ Dials' /\ RowsTruthful'
    <3>1. Shape'
      <4>1. dial' \in [Attempts -> {"none", "flying", "posted", "received", "drained"}]
        BY <1>4 DEF Spawn, Shape
      <4>2. lateDials' \in 0..1
        BY <1>4 DEF Spawn, Dials
      <4>3. QED
        BY <1>4, <4>1, <4>2 DEF Spawn, Goto, Shape
    <3>2. InOrder' /\ Dials'
      BY <1>4, <2>1 DEF Spawn, Goto, InOrder, Dials
    <3>3. Current'
      BY <1>4, <2>1 DEF Spawn, Goto, Shape, Current
    <3>4. RowsTruthful'
      <4>1. \A j \in 1..Len(rows) : j \in Attempts /\ j # k
        BY <2>1, MaxTargetsAssumption DEF Shape, Attempts
      <4>2. QED
        BY <1>4, <4>1, RowsKept DEF Spawn, Goto, Shape
    <3>5. QED
      BY <3>1, <3>2, <3>3, <3>4
  <2>3. (\A j \in Attempts : Waited(j) /\ Sessions(j))'
    BY <1>4, <2>1 DEF Spawn, Goto, Shape, Waited, Sessions
  <2>4. QED
    BY <2>2, <2>3
<1>5. ASSUME NEW j \in Attempts, Answer(j) PROVE IInv'
  <2>1. PICK a \in Answers :
          /\ answer' = [answer EXCEPT ![j] = a]
          /\ conn' = [conn EXCEPT ![j] = IF a = Vend THEN "open" ELSE @]
    BY <1>5 DEF Answer
  <2>2. Shape' /\ InOrder' /\ Current' /\ Dials'
    BY <1>0, <1>5, <2>1 DEF Answer, Shape, InOrder, Current, Dials
  <2>3. (\A i \in Attempts : Waited(i) /\ Sessions(i))'
    BY <1>5, <2>1 DEF Answer, Shape, Waited, Sessions
  <2>4. RowsTruthful'
    <3>1. \A i \in 1..Len(rows) : i = j => rows[i].outcome = "error" /\ dial'[i] # "received"
      BY <1>0, <1>5 DEF Answer, Shape, Waited
    <3>2. /\ rows' = rows /\ installed' = installed
          /\ \A i \in Attempts : i # j => answer'[i] = answer[i] /\ dial'[i] = dial[i]
      BY <1>5, <2>1 DEF Answer, Shape
    <3>3. \A i \in 1..Len(rows) : i \in Attempts
      BY MaxTargetsAssumption DEF Shape, Attempts
    <3>4. QED
      BY <3>1, <3>2, <3>3, RowsKept
  <2>5. QED
    BY <2>2, <2>3, <2>4
<1>6. CASE GiveUp
  <2>1. k \in Attempts /\ k <= Len(targets) /\ dial[k] \in {"flying", "posted"}
    BY <1>0, <1>6 DEF GiveUp, InOrder, Current
  <2>2. Settled("error")
    BY <1>6, <2>1 DEF GiveUp, Settled, Shape, Waited, Sessions
  <2>3. QED
    BY <1>6, <2>1, <2>2, ProbeEnds DEF GiveUp, Outcomes
<1>7. CASE Receive
  <2>1. k \in Attempts /\ k <= Len(targets) /\ k \notin drain
    BY <1>0, <1>7 DEF Receive, InOrder, Waited
  <2>2. CASE answer[k] = Vend
    <3>1. Shape' /\ InOrder' /\ Current' /\ Dials'
      BY <1>0, <1>7, <2>1, <2>2 DEF Receive, Goto, Shape, InOrder, Current, Dials
    <3>2. RowsTruthful'
      <4>1. \A j \in 1..Len(rows) : j \in Attempts /\ j # k
        BY <2>1, MaxTargetsAssumption DEF Shape, Attempts
      <4>2. QED
        BY <1>7, <2>2, <4>1, RowsKept DEF Receive, Goto, Shape
    <3>3. (\A j \in Attempts : Waited(j) /\ Sessions(j))'
      BY <1>7, <2>1, <2>2 DEF Receive, Goto, Shape, Waited, Sessions
    <3>4. QED
      BY <3>1, <3>2, <3>3
  <2>3. CASE answer[k] # Vend
    <3>1. answer[k] \in Failures /\ conn[k] # "open"
      BY <1>7, <2>1, <2>3 DEF Receive, Sessions, Answers
    <3> DEFINE o == Classify(answer[k].text)
    <3>2. o \in {"refused", "error", "unknown"}
      BY Classified
    <3>3. Record(o) /\ o = Classify(answer[k].text)
      BY <1>7, <2>3 DEF Receive
    <3> HIDE DEF o
    <3>4. /\ answer' = answer /\ dial'[k] = "received" /\ drain' = drain /\ conn' = conn
          /\ lateDials' = lateDials
          /\ dial' \in [Attempts -> {"none", "flying", "posted", "received", "drained"}]
          /\ \A j \in Attempts \ {k} : dial'[j] = dial[j]
      BY <1>7, <2>1 DEF Receive, Shape
    <3>5. Settled(o)
      BY <2>1, <2>3, <3>1, <3>2, <3>3, <3>4 DEF Settled, Shape
    <3>6. QED
      BY <2>1, <3>2, <3>3, <3>5, ProbeEnds DEF Outcomes
  <2>4. QED
    BY <2>2, <2>3
<1>8. CASE CloseProbe
  <2>1. k \in Attempts /\ k <= Len(targets) /\ dial[k] = "received" /\ answer[k] = Vend
    BY <1>0, <1>8 DEF CloseProbe, InOrder, Current
  <2>2. Settled("vended")
    BY <1>8, <2>1 DEF CloseProbe, Settled, Shape, Waited
  <2>3. QED
    BY <1>8, <2>1, <2>2, ProbeEnds DEF CloseProbe, Outcomes
<1>9. ASSUME NEW j \in Attempts, Drain(j) PROVE IInv'
  <2>1. Shape' /\ InOrder' /\ Dials'
    BY <1>9 DEF Drain, Shape, InOrder, Dials
  <2>2. Current'
    BY <1>0, <1>9 DEF Drain, Shape, Current, Waited
  <2>3. (\A i \in Attempts : Waited(i) /\ Sessions(i))'
    BY <1>9 DEF Drain, Shape, Waited, Sessions
  <2>4. RowsTruthful'
    <3>1. /\ rows' = rows /\ installed' = installed /\ answer' = answer
          /\ \A i \in Attempts : i # j => dial'[i] = dial[i]
          /\ dial'[j] # "received" /\ rows[j].outcome = "error"
      BY <1>9 DEF Drain, Shape, Waited
    <3>2. \A i \in 1..Len(rows) : i \in Attempts
      BY MaxTargetsAssumption DEF Shape, Attempts
    <3>3. QED
      BY <3>1, <3>2, RowsKept
  <2>5. QED
    BY <2>1, <2>2, <2>3, <2>4
<1>10. CASE Save
  <2>1. RowsTruthful'
    BY <1>10, RowsKept DEF Save
  <2>2. Shape' /\ InOrder'
    BY <1>10 DEF Save, Shape, InOrder
  <2>3. Current' /\ Dials' /\ \A j \in Attempts : Waited(j)' /\ Sessions(j)'
    BY <1>10 DEF Save, Shape, Current, Waited, Sessions, Dials
  <2>4. QED
    BY <2>1, <2>2, <2>3
<1>11. CASE Expire
  BY <1>11, RowsKept DEF Expire, Shape, InOrder, Current, Waited, Sessions, Dials
<1>12. CASE Interrupt
  BY <1>12, RowsKept DEF Interrupt, Shape, InOrder, Current, Waited, Sessions, Dials
<1>13. CASE UNCHANGED vars
  <2>1. Shape' /\ InOrder' /\ Current' /\ Dials'
    BY <1>13 DEF vars, Shape, InOrder, Current, Dials
  <2>2. RowsTruthful' /\ \A j \in Attempts : Waited(j)' /\ Sessions(j)'
    BY <1>13, RowsKept DEF vars, Waited, Sessions
  <2>3. QED
    BY <2>1, <2>2
<1>14. QED
  BY <1>1, <1>2, <1>3, <1>4, <1>5, <1>6, <1>7, <1>8, <1>9, <1>10, <1>11, <1>12, <1>13
  DEF Next, Caller

LEMMA InductiveInvariant == Spec => []IInv
  BY InitIInv, StepIInv, PTL DEF Spec

\* Every variable keeps its type, and there is a row for each target left behind.
THEOREM TypeCorrect == Spec => []TypeOK
<1>1. IInv => TypeOK
  BY MaxTargetsAssumption DEF IInv, Shape, Attempts, TypeOK
<1>2. QED
  BY <1>1, InductiveInvariant, PTL

\* No session is ever without somebody who will close it.
THEOREM ConnAlwaysOwned == Spec => []ConnOwned
<1>1. IInv => ConnOwned
  BY DEF IInv, ConnOwned, Waited, Sessions
<1>2. QED
  BY <1>1, InductiveInvariant, PTL

\* For any failures of any wording, a row says "vended" exactly for a session that
\* was received, and a verdict never comes from a timeout or a late answer.
THEOREM RowsAlwaysTruthful == Spec => []RowsTruthful
<1>1. IInv => RowsTruthful
  BY DEF IInv
<1>2. QED
  BY <1>1, InductiveInvariant, PTL

\* After an interrupt one dial begins at most.
THEOREM AlwaysFewLateDials == Spec => []FewLateDials
<1>1. IInv => FewLateDials
  BY DEF IInv, Shape, FewLateDials
<1>2. QED
  BY <1>1, InductiveInvariant, PTL

\* What replaces the cache has a row for each target, in order.
THEOREM SavedAlwaysCoversTargets == Spec => []SavedCoversTargets
<1>1. IInv => SavedCoversTargets
  <2> SUFFICES ASSUME IInv, pc = "done"
               PROVE  [j \in 1..Len(saved) |-> saved[j].bundle] = targets
    BY DEF SavedCoversTargets
  <2>1. /\ Len(saved) = Len(targets) /\ targets \in Seq(Bundles)
        /\ \A i \in 1..Len(targets) : saved[i].bundle = targets[i]
    BY DEF IInv, Shape, InOrder
  <2>2. targets = [j \in 1..Len(targets) |-> targets[j]]
    BY <2>1
  <2>3. QED
    BY <2>1, <2>2
<1>2. QED
  BY <1>1, InductiveInvariant, PTL
===============================================================================
