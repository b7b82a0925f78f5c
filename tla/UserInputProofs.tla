---------------------------- MODULE UserInputProofs ----------------------------
(***************************************************************************)
(* What a user gives the program: answers to its prompts, and a command    *)
(* line.                                                                   *)
(*                                                                         *)
(* For every number of files in the way and every stdin of any length: one *)
(* reader at a time, no bulk pull without a yes of its own for each file,  *)
(* and on a terminal a line for each prompt.  The first invariant orders   *)
(* what the readers took off stdin; the second counts the lines of a       *)
(* terminal.                                                               *)
(*                                                                         *)
(* For every command line of any length: no switch is passed over and no   *)
(* token is lost.  The invariant cuts the flag stream into units of a flag *)
(* and its value, and says where flag.Parse stands in it.                  *)
(***************************************************************************)
EXTENDS Prompter, FlagSplit, FiniteSetTheorems, TLAPS

-------------------------------------------------------------------------------
(* The prompts *)

Shape ==
  /\ input \in Inputs
  /\ tty \in BOOLEAN
  /\ pos \in 0..Cardinality(DOMAIN input)
  /\ conflicts \in 0..MaxPrompts
  /\ k \in 0..conflicts
  /\ reader \in [Prompts -> {"none", "reading", "line", "error", "done"}]
  /\ ch \in [Prompts -> {"empty", "line", "error"}]
  /\ text \in [Prompts -> SUBSET (1..MaxInput)]
  /\ answer \in [Prompts -> {"none", "yes", "no", "error"}]
  /\ cancelled \in BOOLEAN
  /\ outcome \in {"scan", "declined", "pull", "error"}

\* A prompt is answered from its channel or given up, and then the next one.
Turns ==
  /\ \A j \in Prompts : j > k => reader[j] = "none" /\ answer[j] = "none"
  /\ \A j \in Prompts : j < k => answer[j] # "none"
  /\ \A j \in Prompts : ch[j] # "empty" => reader[j] = "done"
  /\ \A j \in Prompts : answer[j] \in {"yes", "no"} => reader[j] = "done"
  /\ \A j \in Prompts : answer[j] = "error" => outcome = "error" /\ j = k
  /\ outcome = "pull" => k = conflicts /\ \A j \in 1..conflicts : answer[j] = "yes"

\* The readers took what they have off stdin one after the other.
Ordered ==
  /\ \A j \in Prompts : j > k => text[j] = {}
  /\ \A j \in Prompts : \A i \in text[j] : i <= pos
  /\ \A h, j \in Prompts : h < j => \A a \in text[h], b \in text[j] : a < b

\* A yes is read off the text of its own prompt.
Meant == \A j \in Prompts : answer[j] = "yes" => SaysYes(j)

IInv == Shape /\ Turns /\ Ordered /\ Meant

\* Every stdin is a finite row of symbols.
LEMMA InputLength ==
  ASSUME NEW s \in Inputs
  PROVE  /\ Cardinality(DOMAIN s) \in 0..MaxInput
         /\ DOMAIN s = 1..Cardinality(DOMAIN s)
<1>1. PICK n \in 0..MaxInput : s \in [1..n -> Symbols]
  BY DEF Inputs
<1>2. DOMAIN s = 1..n /\ n \in Nat
  BY <1>1, BoundsAssumption
<1>3. Cardinality(1..n) = n
  BY <1>2, FS_Interval
<1>4. QED
  BY <1>1, <1>2, <1>3

LEMMA InitIInv == Init => IInv
<1> SUFFICES ASSUME Init PROVE IInv
  OBVIOUS
<1>1. Cardinality(DOMAIN input) \in 0..MaxInput
  BY InputLength DEF Init
<1>2. cancelled \in BOOLEAN
  BY Zenon DEF Init
<1>3. Shape
  BY <1>1, <1>2, BoundsAssumption DEF Init, Shape
<1>4. QED
  BY <1>3 DEF Init, IInv, Turns, Ordered, Meant, Prompts

\* A reader only ever goes on with what no reader before it has taken.
LEMMA StepReader ==
  ASSUME IInv, NEW j \in Prompts, Reader(j)
  PROVE  IInv'
<1> USE BoundsAssumption DEF IInv, Shape
<1> DEFINE len == Cardinality(DOMAIN input)
<1>1. len \in 0..MaxInput /\ input' = input /\ len' = len
  BY InputLength DEF Reader, Read, ReadEof, ReadFails, Post, script
<1>2. /\ UNCHANGED <<tty, conflicts, k, answer, cancelled, outcome>>
      /\ reader[j] # "none" /\ reader[j] # "done"
  BY DEF Reader, Read, ReadEof, ReadFails, Post, script
<1>3. /\ \E s \in {"reading", "line", "error", "done"} : reader' = [reader EXCEPT ![j] = s]
      /\ ch' = ch \/ (reader'[j] = "done" /\ ch' = [ch EXCEPT ![j] = reader[j]]
                      /\ reader[j] \in {"line", "error"})
  BY DEF Reader, Read, ReadEof, ReadFails, Post, Settle
<1>4. /\ pos' \in 0..len /\ pos <= pos'
      /\ \/ text' = text
         \/ /\ reader[j] = "reading"
            /\ \E X \in SUBSET ((pos + 1)..pos') : text' = [text EXCEPT ![j] = @ \union X]
  <2>1. CASE Read(j)
    <3>1. PICK n \in Left :
            /\ pos' = n /\ reader[j] = "reading"
            /\ text' = [text EXCEPT ![j] = @ \union
                 {i \in (pos + 1)..n :
                    \A h \in {g \in (pos + 1)..n : input[g] = "nl"} : i <= h}]
      BY <2>1 DEF Read
    <3>2. n \in (pos + 1)..len
      BY DEF Left
    <3>3. \E X \in SUBSET ((pos + 1)..pos') : text' = [text EXCEPT ![j] = @ \union X]
      BY <3>1
    <3>4. pos' \in 0..len /\ pos <= pos'
      BY <1>1, <3>1, <3>2
    <3>5. QED
      BY <3>1, <3>3, <3>4
  <2>2. CASE ReadEof(j)
    BY <1>1, <2>2 DEF ReadEof, AtEof, Left
  <2>3. CASE ReadFails(j) \/ Post(j)
    BY <1>1, <2>3 DEF ReadFails, Post
  <2>4. QED
    BY <2>1, <2>2, <2>3 DEF Reader
<1>5. text' \in [Prompts -> SUBSET (1..MaxInput)]
  <2>1. (pos + 1)..pos' \subseteq 1..MaxInput
    BY <1>1, <1>4
  <2>2. \A X \in SUBSET ((pos + 1)..pos') : text[j] \union X \in SUBSET (1..MaxInput)
    BY <2>1
  <2>3. QED
    BY <1>4, <2>2
<1>6. Shape'
  BY <1>1, <1>2, <1>3, <1>4, <1>5
<1>7. Turns'
  BY <1>2, <1>3 DEF Turns, Prompts
<1>8. reader[j] = "reading" => j = k
  BY DEF Turns, Prompts
<1>9. \A h \in Prompts : h # j => text'[h] = text[h]
  BY <1>4
<1>10. Ordered'
  <2>1. CASE text' = text
    BY <1>2, <1>4, <2>1 DEF Ordered, Prompts
  <2>2. CASE /\ reader[j] = "reading"
             /\ \E X \in SUBSET ((pos + 1)..pos') : text' = [text EXCEPT ![j] = @ \union X]
    <3>1. PICK X \in SUBSET ((pos + 1)..pos') : text'[j] = text[j] \union X
      BY <2>2
    <3>2. j = k
      BY <1>8, <2>2
    <3>3. \A h \in Prompts : h > k => text'[h] = {}
      BY <1>9, <3>2 DEF Ordered
    <3>4. \A h \in Prompts : \A i \in text'[h] : i <= pos'
      <4> SUFFICES ASSUME NEW h \in Prompts, NEW i \in text'[h] PROVE i <= pos'
        OBVIOUS
      <4>1. i \in Int
        BY <1>5
      <4>2. CASE i \in text[h]
        BY <1>1, <1>4, <4>1, <4>2 DEF Ordered
      <4>3. CASE i \notin text[h]
        <5>1. h = j /\ i \in (pos + 1)..pos'
          BY <1>9, <3>1, <4>3
        <5>2. QED
          BY <1>1, <1>4, <5>1
      <4>4. QED
        BY <4>2, <4>3
    <3>5. \A h, l \in Prompts : h < l => \A a \in text'[h], b \in text'[l] : a < b
      <4> SUFFICES ASSUME NEW h \in Prompts, NEW l \in Prompts, h < l,
                          NEW a \in text'[h], NEW b \in text'[l]
                   PROVE  a < b
        OBVIOUS
      <4>1. a \in Int /\ b \in Int
        BY <1>5
      <4>2. CASE l = j
        <5>1. a \in text[h] /\ a <= pos
          BY <1>9, <4>2 DEF Ordered, Prompts
        <5>2. b \in text[j] \/ b \in (pos + 1)..pos'
          BY <3>1, <4>2
        <5>3. QED
          BY <1>1, <1>4, <4>1, <4>2, <5>1, <5>2 DEF Ordered
      <4>3. CASE l # j /\ h = j
        BY <1>9, <3>2, <3>3, <4>3 DEF Prompts
      <4>4. CASE l # j /\ h # j
        BY <1>9, <4>4 DEF Ordered
      <4>5. QED
        BY <4>2, <4>3, <4>4
    <3>6. QED
      BY <1>2, <3>3, <3>4, <3>5 DEF Ordered
  <2>3. QED
    BY <1>4, <2>1, <2>2
<1>11. Meant'
  <2> SUFFICES ASSUME NEW h \in Prompts, answer[h] = "yes" PROVE SaysYes(h)'
    BY <1>2 DEF Meant
  <2>1. text'[h] = text[h]
    BY <1>2, <1>9 DEF Turns
  <2>2. SaysYes(h)
    BY DEF Meant
  <2>3. QED
    BY <1>1, <2>1, <2>2 DEF SaysYes, TextOf
<1>12. QED
  BY <1>6, <1>7, <1>10, <1>11

\* The command asks on only while no prompt waits and none was given up.
LEMMA StepCaller ==
  ASSUME IInv, Caller \/ Cancel \/ UNCHANGED vars
  PROVE  IInv'
<1> USE BoundsAssumption DEF IInv, Shape
<1>1. UNCHANGED <<script, pos, text>>
  BY DEF Caller, Cancel, vars, Ask, ScanEnds, Answer, GiveUp, script
<1>2. ASSUME UNCHANGED <<answer, k>> PROVE Ordered' /\ Meant'
  BY <1>1, <1>2 DEF Ordered, Meant, SaysYes, TextOf, script
<1>3. CASE Ask
  <2>1. /\ k' = k + 1 /\ reader' = [reader EXCEPT ![k + 1] = "reading"]
        /\ UNCHANGED <<tty, input, conflicts, pos, ch, text, answer, cancelled, outcome>>
        /\ outcome = "scan" /\ k < conflicts
        /\ k + 1 \in Prompts
    BY <1>3 DEF Ask, Settle, script, Prompts
  <2>2. Shape'
    BY <2>1
  <2>3. \A j \in Prompts : j <= k => answer[j] # "none"
    BY <1>3 DEF Ask, Waiting, Prompts
  <2>4. \A j \in Prompts : answer[j] # "error"
    BY <2>1 DEF Turns
  <2>5. Turns'
    BY <2>1, <2>3, <2>4 DEF Turns, Prompts
  <2>6. Ordered' /\ Meant'
    BY <2>1 DEF Ordered, Meant, SaysYes, TextOf, Prompts
  <2>7. QED
    BY <2>2, <2>5, <2>6
<1>4. ASSUME NEW j \in Prompts, Answer(j) PROVE IInv'
  <2>1. /\ UNCHANGED <<tty, input, conflicts, pos, k, reader, ch, text, cancelled>>
        /\ Waiting(j) /\ ch[j] # "empty" /\ reader[j] = "done"
    BY <1>4 DEF Answer, script, Turns
  <2>2. \/ answer' = [answer EXCEPT ![j] = "error"] /\ outcome' = "error"
        \/ answer' = [answer EXCEPT ![j] = "no"] /\ outcome' = outcome
        \/ answer' = [answer EXCEPT ![j] = "yes"] /\ outcome' = outcome /\ SaysYes(j)
    BY <1>4 DEF Answer, Return
  <2>3. Shape'
    BY <2>1, <2>2
  <2>4. j = k /\ outcome # "pull"
    BY <2>1 DEF Turns, Waiting, Prompts
  <2>5. Turns'
    BY <2>1, <2>2, <2>4 DEF Turns, Prompts
  <2>6. Ordered'
    BY <2>1 DEF Ordered
  <2>7. Meant'
    BY <2>1, <2>2 DEF Meant, SaysYes, TextOf
  <2>8. QED
    BY <2>3, <2>5, <2>6, <2>7
<1>5. ASSUME NEW j \in Prompts, GiveUp(j) PROVE IInv'
  <2>1. /\ UNCHANGED <<tty, input, conflicts, pos, k, reader, ch, text, cancelled>>
        /\ Waiting(j) /\ answer' = [answer EXCEPT ![j] = "error"] /\ outcome' = "error"
    BY <1>5 DEF GiveUp, script, Return
  <2>2. Shape'
    BY <2>1
  <2>3. j = k
    BY <2>1 DEF Turns, Waiting, Prompts
  <2>4. Turns'
    BY <2>1, <2>3 DEF Turns, Prompts
  <2>5. Ordered' /\ Meant'
    BY <2>1 DEF Ordered, Meant, SaysYes, TextOf
  <2>6. QED
    BY <2>2, <2>4, <2>5
<1>6. CASE ScanEnds
  <2>1. /\ UNCHANGED <<tty, input, conflicts, pos, k, reader, ch, text, answer, cancelled>>
        /\ outcome = "scan" /\ k = conflicts
        /\ outcome' \in {"declined", "pull"}
        /\ outcome' = "pull" => ~\E j \in Prompts : answer[j] = "no"
    BY <1>6 DEF ScanEnds, script
  <2>2. Shape'
    BY <2>1
  <2>3. \A j \in 1..k : j \in Prompts /\ answer[j] # "none"
    BY <1>6 DEF ScanEnds, Waiting, Prompts
  <2>4. \A j \in Prompts : answer[j] # "error"
    BY <2>1 DEF Turns
  <2>5. Turns'
    BY <2>1, <2>3, <2>4 DEF Turns, Prompts
  <2>6. QED
    BY <1>2, <2>1, <2>2, <2>5
<1>7. CASE Cancel \/ UNCHANGED vars
  <2>1. UNCHANGED <<tty, input, conflicts, pos, k, reader, ch, text, answer, outcome>>
    BY <1>7 DEF Cancel, vars, script
  <2>2. cancelled' \in BOOLEAN
    <3>1. cancelled' = cancelled \/ cancelled' = TRUE
      BY <1>7 DEF Cancel, vars
    <3>2. QED
      BY <3>1
  <2>3. Shape'
    BY <2>1, <2>2
  <2>4. Turns'
    BY <2>1 DEF Turns
  <2>5. QED
    BY <1>2, <2>1, <2>3, <2>4
<1>8. QED
  BY <1>3, <1>4, <1>5, <1>6, <1>7 DEF Caller

LEMMA InductiveInvariant == Spec => []IInv
<1>1. IInv /\ [Next]_vars => IInv'
  BY StepReader, StepCaller DEF Next
<1>2. QED
  BY <1>1, InitIInv, PTL DEF Spec

\* Prompts, readers and channels keep their types (stdinPrompter).
THEOREM TypeCorrect == Spec => []TypeOK
<1>1. IInv => TypeOK
  BY DEF IInv, Shape, TypeOK
<1>2. QED
  BY <1>1, InductiveInvariant, PTL

\* However many prompts are asked and given up, at most one reader waits on
\* stdin, and it is the last: a leaked reader never steals a later answer.
THEOREM AlwaysOneReader == Spec => []OneReader
<1>1. ASSUME IInv, NEW j \in Prompts, reader[j] = "reading"
      PROVE  j = k /\ (answer[j] = "none" \/ outcome = "error")
  BY <1>1 DEF IInv, Shape, Turns, Prompts
<1>2. IInv => OneReader
  BY <1>1 DEF OneReader
<1>3. QED
  BY <1>2, InductiveInvariant, PTL

\* No bulk pull starts without a yes of its own on stdin for every file in
\* the way, later than all that was read for the files before it.
THEOREM PullAlwaysHasItsYeses == Spec => []PullHasItsYeses
<1>1. ASSUME IInv, outcome = "pull", NEW j \in 1..conflicts
      PROVE  \E i \in text[j] :
               /\ input[i] = "y"
               /\ \A h \in 1..(j - 1) : \A a \in text[h] : a < i
  <2>1. j \in Prompts /\ \A h \in 1..(j - 1) : h \in Prompts /\ h < j
    BY <1>1, BoundsAssumption DEF IInv, Shape, Prompts
  <2>2. SaysYes(j)
    BY <1>1, <2>1 DEF IInv, Turns, Meant
  <2>3. PICK i \in text[j] : input[i] = "y"
    BY <2>2 DEF SaysYes, TextOf
  <2>4. \A h \in 1..(j - 1) : \A a \in text[h] : a < i
    BY <1>1, <2>1 DEF IInv, Ordered
  <2>5. QED
    BY <2>3, <2>4
<1>2. IInv => PullHasItsYeses
  BY <1>1 DEF PullHasItsYeses
<1>3. QED
  BY <1>2, InductiveInvariant, PTL

-------------------------------------------------------------------------------
(* Lines of a terminal *)

\* The ends of line among the first p symbols.
Ended(p) == {h \in 1..p : EndsLine(h)}

\* A line in hand, posted or not.
HasLine(j) == reader[j] = "line" \/ ch[j] = "line"

\* Between two reads a terminal stands at the start of a line, or behind a
\* Ctrl-D in the middle of one; the lines that have ended so far are those of
\* the readers that have got one; and the symbols of each line so far are with
\* the reader of that number.
Lines == tty =>
  /\ pos = 0 \/ input[pos] \in {"nl", "eof"}
  /\ Cardinality(Ended(pos)) = IF k = 0 THEN 0 ELSE IF HasLine(k) THEN k ELSE k - 1
  /\ \A m \in 1..Cardinality(Ended(pos)) : \E i \in Ended(pos) : LineOf(i) = m
  /\ \A j \in Prompts, i \in 1..pos : input[i] # "eof" => (i \in text[j] <=> LineOf(i) = j)
  /\ \A j \in Answered : ch[j] = "line"

LEMMA EndedFinite ==
  ASSUME NEW p \in Nat
  PROVE  IsFiniteSet(Ended(p)) /\ Cardinality(Ended(p)) \in Nat
<1>1. IsFiniteSet(1..p)
  BY FS_Interval
<1>2. Ended(p) \subseteq 1..p
  BY DEF Ended
<1>3. QED
  BY <1>1, <1>2, FS_Subset, FS_CardinalityType

\* A stretch without an end of line ends no line.
LEMMA EndedSame ==
  ASSUME NEW p \in Nat, NEW n \in Nat, p <= n, \A h \in (p + 1)..n : ~EndsLine(h)
  PROVE  Ended(n) = Ended(p)
BY DEF Ended

\* A stretch with one at its end ends one.
LEMMA EndedOneMore ==
  ASSUME NEW p \in Nat, NEW n \in Nat, p < n,
         \A h \in (p + 1)..(n - 1) : ~EndsLine(h), EndsLine(n)
  PROVE  /\ Ended(n) = Ended(p) \union {n}
         /\ Cardinality(Ended(n)) = Cardinality(Ended(p)) + 1
<1>1. Ended(n) = Ended(p) \union {n}
  BY DEF Ended
<1>2. n \notin Ended(p)
  BY DEF Ended
<1>3. QED
  BY <1>1, <1>2, EndedFinite, FS_AddElement

\* Later positions are never on earlier lines.
LEMMA EndedMonotone ==
  ASSUME NEW p \in Nat, NEW n \in Nat, p <= n
  PROVE  Cardinality(Ended(p)) <= Cardinality(Ended(n))
<1>1. Ended(p) \subseteq Ended(n)
  BY DEF Ended
<1>2. QED
  BY <1>1, EndedFinite, FS_Subset

LEMMA LineByEnded ==
  ASSUME NEW i \in Nat
  PROVE  LineOf(i) = 1 + Cardinality(Ended(i - 1))
BY DEF LineOf, Ended

LEMMA InitLines == Init => Lines
<1> SUFFICES ASSUME Init PROVE Lines
  OBVIOUS
<1>1. Ended(0) = {}
  BY DEF Ended
<1>2. Cardinality(Ended(0)) = 0
  BY <1>1, FS_EmptySet
<1>3. Answered = {}
  BY DEF Init, Answered
<1>4. QED
  BY <1>2, <1>3 DEF Init, Lines

\* One Read of a terminal takes one line to its end, or up to a Ctrl-D.
LEMMA StepRead ==
  ASSUME IInv, Lines, NEW j \in Prompts, Read(j), tty
  PROVE  Lines'
<1> USE BoundsAssumption DEF IInv, Shape
<1> DEFINE len == Cardinality(DOMAIN input)
<1>1. len \in 0..MaxInput /\ DOMAIN input = 1..len
  BY InputLength
<1>2. /\ UNCHANGED <<tty, input, conflicts, k, ch, answer>>
      /\ reader[j] = "reading"
  BY DEF Read, script
<1>3. j = k /\ k # 0
  BY <1>2 DEF Turns, Prompts
<1>4. PICK n \in Left :
        /\ Chunk(n) /\ pos' = n
        /\ LET ends == {i \in (pos + 1)..n : input[i] = "nl"} IN
             /\ text' = [text EXCEPT ![j] = @ \union
                          {i \in (pos + 1)..n : \A h \in ends : i <= h}]
             /\ IF ends = {} THEN UNCHANGED reader ELSE Settle(j, "line")
  BY DEF Read
<1>5. /\ n \in (pos + 1)..len /\ pos \in Nat /\ n \in Nat
      /\ input[n] \in {"nl", "eof"}
      /\ \A h \in (pos + 1)..(n - 1) : input[h] \notin {"nl", "eof"}
      /\ input[n] = "eof" => n # pos + 1
  BY <1>1, <1>4 DEF Chunk, IsFirst, Left
<1>6. \A h \in (pos + 1)..(n - 1) : ~EndsLine(h)
  BY <1>5 DEF EndsLine
<1>7. EndsLine(n) <=> input[n] = "nl"
  <2>1. input[n] = "eof" => n # 1 /\ n - 1 \in (pos + 1)..(n - 1)
    BY <1>5
  <2>2. QED
    BY <1>5, <2>1 DEF EndsLine
<1>8. {i \in (pos + 1)..n : input[i] = "nl"} = IF input[n] = "nl" THEN {n} ELSE {}
  BY <1>5
<1>9. /\ text' = [text EXCEPT ![j] = @ \union ((pos + 1)..n)]
      /\ IF input[n] = "nl" THEN reader' = [reader EXCEPT ![j] = "line"] ELSE reader' = reader
  <2> DEFINE ends == {i \in (pos + 1)..n : input[i] = "nl"}
  <2>1. {i \in (pos + 1)..n : \A h \in ends : i <= h} = (pos + 1)..n
    BY <1>5, <1>8
  <2>2. ends = {} <=> input[n] # "nl"
    BY <1>8
  <2>3. text' = [text EXCEPT ![j] = @ \union ((pos + 1)..n)]
    BY <1>4, <2>1
  <2>4. IF ends = {} THEN UNCHANGED reader ELSE Settle(j, "line")
    BY <1>4
  <2>5. QED
    BY <2>2, <2>3, <2>4 DEF Settle
<1>10. \A p \in Nat : Ended(p)' = Ended(p) /\ \A i \in Nat : LineOf(i)' = LineOf(i)
  BY <1>2 DEF Ended, EndsLine, LineOf
<1>11. Cardinality(Ended(pos)) = k - 1 /\ ch[k] # "line"
  BY <1>2, <1>3 DEF Lines, HasLine, Turns
<1>12. \A i \in (pos + 1)..n : LineOf(i) = k
  <2> SUFFICES ASSUME NEW i \in (pos + 1)..n PROVE LineOf(i) = k
    OBVIOUS
  <2>1. Ended(i - 1) = Ended(pos)
    BY <1>5, <1>6, EndedSame
  <2>2. QED
    BY <1>5, <1>11, <2>1, LineByEnded
<1>13. /\ Cardinality(Ended(n)) = IF input[n] = "nl" THEN k ELSE k - 1
       /\ Ended(n) = IF input[n] = "nl" THEN Ended(pos) \union {n} ELSE Ended(pos)
  <2>1. CASE input[n] = "nl"
    BY <1>5, <1>6, <1>7, <1>11, <2>1, EndedOneMore
  <2>2. CASE input[n] # "nl"
    <3>1. \A h \in (pos + 1)..n : ~EndsLine(h)
      BY <1>5, <1>6, <1>7, <2>2
    <3>2. QED
      BY <1>5, <1>11, <2>2, <3>1, EndedSame
  <2>3. QED
    BY <2>1, <2>2
<1>14. Ended(pos)' = Ended(n)
  BY <1>2, <1>4 DEF Ended, EndsLine
<1>15. \A m \in 1..Cardinality(Ended(n)) : \E i \in Ended(n) : LineOf(i) = m
  <2> SUFFICES ASSUME NEW m \in 1..Cardinality(Ended(n))
               PROVE  \E i \in Ended(n) : LineOf(i) = m
    OBVIOUS
  <2>1. CASE m \in 1..Cardinality(Ended(pos))
    BY <1>13, <2>1 DEF Lines
  <2>2. CASE m = k /\ input[n] = "nl"
    BY <1>5, <1>12, <1>13, <2>2
  <2>3. QED
    BY <1>3, <1>11, <1>13, <2>1, <2>2
<1>16. \A h \in Prompts, i \in 1..n : input[i] # "eof" => (i \in text'[h] <=> LineOf(i) = h)
  <2> SUFFICES ASSUME NEW h \in Prompts, NEW i \in 1..n, input[i] # "eof"
               PROVE  i \in text'[h] <=> LineOf(i) = h
    OBVIOUS
  <2>1. CASE i \in 1..pos
    <3>1. i \in text'[h] <=> i \in text[h]
      BY <1>5, <1>9, <2>1
    <3>2. QED
      BY <2>1, <3>1 DEF Lines
  <2>2. CASE i \in (pos + 1)..n
    <3>1. h # k => i \notin text[h] /\ text'[h] = text[h]
      BY <1>3, <1>5, <1>9, <2>2 DEF Ordered
    <3>2. i \in text'[k]
      BY <1>3, <1>9, <2>2
    <3>3. QED
      BY <1>12, <2>2, <3>1, <3>2
  <2>3. QED
    BY <1>5, <2>1, <2>2
<1>17. HasLine(k)' <=> input[n] = "nl"
  BY <1>2, <1>3, <1>9, <1>11 DEF HasLine
<1>18. \A i \in Answered' : ch'[i] = "line"
  BY <1>2 DEF Lines, Answered
<1>19. Cardinality(Ended(pos))' = IF input[n] = "nl" THEN k ELSE k - 1
  BY <1>13, <1>14
<1>20. \A m \in 1..Cardinality(Ended(pos))' : \E i \in Ended(pos)' : LineOf(i)' = m
  <2>1. \A i \in Ended(n) : LineOf(i)' = LineOf(i)
    BY <1>5, <1>10 DEF Ended
  <2>2. QED
    BY <1>14, <1>15, <2>1
<1>21. \A h \in Prompts, i \in 1..pos' : input'[i] # "eof" => (i \in text'[h] <=> LineOf(i)' = h)
  BY <1>2, <1>4, <1>5, <1>10, <1>16
<1>22. QED
  BY <1>2, <1>3, <1>4, <1>5, <1>17, <1>18, <1>19, <1>20, <1>21 DEF Lines

\* A Ctrl-D where a line begins ends an empty one.
LEMMA StepReadEof ==
  ASSUME IInv, Lines, NEW j \in Prompts, ReadEof(j), tty
  PROVE  Lines'
<1> USE BoundsAssumption DEF IInv, Shape
<1>1. /\ UNCHANGED <<tty, input, conflicts, k, ch, text, answer>>
      /\ reader[j] = "reading" /\ reader' = [reader EXCEPT ![j] = "line"]
      /\ pos \in Nat /\ pos' = pos + 1 /\ input[pos + 1] = "eof"
  BY InputLength DEF ReadEof, AtEof, Settle, script
<1>2. j = k /\ k # 0
  BY <1>1 DEF Turns, Prompts
<1>3. EndsLine(pos + 1)
  BY <1>1 DEF EndsLine, Lines
<1>4. Cardinality(Ended(pos)) = k - 1
  BY <1>1, <1>2 DEF Lines, HasLine, Turns
<1>5. /\ Ended(pos + 1) = Ended(pos) \union {pos + 1}
      /\ Cardinality(Ended(pos + 1)) = k
  <2>1. \A h \in (pos + 1)..((pos + 1) - 1) : ~EndsLine(h)
    BY <1>1
  <2>2. QED
    BY <1>1, <1>2, <1>3, <1>4, <2>1, EndedOneMore
<1>6. LineOf(pos + 1) = k
  BY <1>1, <1>2, <1>4, LineByEnded
<1>7. /\ Ended(pos)' = Ended(pos + 1)
      /\ \A i \in Nat : LineOf(i)' = LineOf(i)
  BY <1>1 DEF Ended, EndsLine, LineOf
<1>8. \A m \in 1..k : \E i \in Ended(pos)' : LineOf(i)' = m
  <2> SUFFICES ASSUME NEW m \in 1..k PROVE \E i \in Ended(pos)' : LineOf(i)' = m
    OBVIOUS
  <2>1. \A i \in Ended(pos)' : LineOf(i)' = LineOf(i)
    BY <1>1, <1>7 DEF Ended
  <2>2. \E i \in Ended(pos + 1) : LineOf(i) = m
    <3>1. CASE m = k
      BY <1>5, <1>6, <3>1
    <3>2. CASE m \in 1..(k - 1)
      BY <1>4, <1>5, <3>2 DEF Lines
    <3>3. QED
      BY <3>1, <3>2
  <2>3. QED
    BY <1>7, <2>1, <2>2
<1>9. \A h \in Prompts, i \in 1..pos' : input'[i] # "eof" => (i \in text'[h] <=> LineOf(i)' = h)
  BY <1>1, <1>7 DEF Lines
<1>10. Cardinality(Ended(pos))' = k
  BY <1>5, <1>7
<1>11. HasLine(k)'
  BY <1>1, <1>2 DEF HasLine
<1>12. \A i \in Answered' : ch'[i] = "line"
  BY <1>1 DEF Lines, Answered
<1>13. QED
  BY <1>1, <1>2, <1>8, <1>9, <1>10, <1>11, <1>12 DEF Lines

\* The other steps take nothing off stdin, and the next prompt is asked only
\* when the reader of the last one has had its line.
LEMMA StepElsewhere ==
  ASSUME IInv, Lines, tty, UNCHANGED <<tty, input, pos, text>>,
         \A j \in Answered' : ch'[j] = "line",
         \/ k' = k /\ (k # 0 => (HasLine(k)' <=> HasLine(k)))
         \/ k' = k + 1 /\ (k # 0 => HasLine(k)) /\ ~HasLine(k)'
  PROVE  Lines'
<1> USE BoundsAssumption DEF IInv, Shape
<1>1. pos \in Nat /\ k \in Nat
  BY InputLength
<1>2. Ended(pos)' = Ended(pos) /\ \A i \in Nat : LineOf(i)' = LineOf(i)
  BY DEF Ended, EndsLine, LineOf
<1>3. \A m \in 1..Cardinality(Ended(pos)') : \E i \in Ended(pos)' : LineOf(i)' = m
  <2>1. \A i \in Ended(pos) : LineOf(i)' = LineOf(i)
    BY <1>1, <1>2 DEF Ended
  <2>2. QED
    BY <1>2, <2>1 DEF Lines
<1>4. \A h \in Prompts, i \in 1..pos' : input'[i] # "eof" => (i \in text'[h] <=> LineOf(i)' = h)
  BY <1>1, <1>2 DEF Lines
<1>5. Cardinality(Ended(pos)') = IF k' = 0 THEN 0 ELSE IF HasLine(k)' THEN k' ELSE k' - 1
  <2>1. CASE k' = k
    BY <1>1, <1>2, <2>1 DEF Lines
  <2>2. CASE k' = k + 1
    BY <1>1, <1>2, <2>2 DEF Lines
  <2>3. QED
    BY <2>1, <2>2
<1>6. QED
  BY <1>2, <1>3, <1>4, <1>5 DEF Lines

LEMMA StepLines == IInv /\ Lines /\ [Next]_vars => Lines'
<1> SUFFICES ASSUME IInv, Lines, [Next]_vars PROVE Lines'
  OBVIOUS
<1> USE BoundsAssumption DEF IInv, Shape
<1>1. tty' = tty /\ input' = input
  BY DEF Next, Reader, Read, ReadEof, ReadFails, Post, Caller, Ask, ScanEnds,
         Answer, GiveUp, Cancel, vars, script
<1>2. CASE ~tty
  BY <1>1, <1>2 DEF Lines
<1>3. ASSUME tty, NEW j \in Prompts, ReadFails(j) \/ Post(j) PROVE Lines'
  <2>1. /\ UNCHANGED <<pos, text, k, answer>>
        /\ \/ reader[j] = "reading" /\ reader' = [reader EXCEPT ![j] = "error"] /\ ch' = ch
           \/ /\ reader[j] \in {"line", "error"} /\ reader' = [reader EXCEPT ![j] = "done"]
              /\ ch' = [ch EXCEPT ![j] = reader[j]]
    BY <1>3 DEF ReadFails, Post, Settle
  <2>2. \A h \in Prompts : HasLine(h)' <=> HasLine(h)
    BY <2>1 DEF HasLine, Turns
  <2>3. k # 0 => k \in Prompts
    BY DEF Prompts
  <2>4. \A h \in Answered' : ch'[h] = "line"
    BY <1>3, <2>1 DEF Lines, Answered, Turns
  <2>5. k # 0 => (HasLine(k)' <=> HasLine(k))
    BY <2>1, <2>2, <2>3 DEF HasLine
  <2>6. QED
    BY <1>1, <1>3, <2>1, <2>4, <2>5, StepElsewhere
<1>4. CASE tty /\ Ask
  <2>1. /\ UNCHANGED <<pos, text, ch, answer>> /\ k' = k + 1 /\ k + 1 \in Prompts
        /\ reader' = [reader EXCEPT ![k + 1] = "reading"] /\ outcome = "scan"
    BY <1>4 DEF Ask, Settle, Prompts
  <2>2. k # 0 => k \in Prompts /\ answer[k] \in {"yes", "no"}
    BY <1>4, <2>1 DEF Ask, Waiting, Prompts, Turns
  <2>3. k # 0 => HasLine(k)
    BY <1>4, <2>2 DEF Lines, Answered, HasLine
  <2>4. ~HasLine(k)'
    BY <2>1 DEF HasLine, Turns, Prompts
  <2>5. \A h \in Answered' : ch'[h] = "line"
    BY <1>4, <2>1 DEF Lines, Answered
  <2>6. QED
    BY <1>1, <1>4, <2>1, <2>3, <2>4, <2>5, StepElsewhere
<1>5. ASSUME tty, NEW j \in Prompts, Answer(j) \/ GiveUp(j) PROVE Lines'
  <2>1. /\ UNCHANGED <<pos, text, k, ch, reader>> /\ j \in 1..k /\ answer[j] = "none"
        /\ \/ answer' = [answer EXCEPT ![j] = "error"]
           \/ ch[j] = "line" /\ \E a \in {"yes", "no"} : answer' = [answer EXCEPT ![j] = a]
    BY <1>5 DEF Answer, GiveUp, Waiting, Return
  <2>2. \A h \in Answered' : ch'[h] = "line"
    BY <1>5, <2>1 DEF Lines, Answered
  <2>3. HasLine(k)' <=> HasLine(k)
    BY <2>1 DEF HasLine
  <2>4. QED
    BY <1>1, <1>5, <2>1, <2>2, <2>3, StepElsewhere
<1>6. CASE tty /\ (ScanEnds \/ Cancel \/ UNCHANGED vars)
  <2>1. UNCHANGED <<pos, text, k, ch, reader, answer>>
    BY <1>6 DEF ScanEnds, Cancel, vars
  <2>2. \A h \in Answered' : ch'[h] = "line"
    BY <1>6, <2>1 DEF Lines, Answered
  <2>3. HasLine(k)' <=> HasLine(k)
    BY <2>1 DEF HasLine
  <2>4. QED
    BY <1>1, <1>6, <2>1, <2>2, <2>3, StepElsewhere
<1>7. tty \in BOOLEAN
  BY Zenon
<1>8. QED
  BY <1>2, <1>3, <1>4, <1>5, <1>6, <1>7, StepRead, StepReadEof DEF Next, Reader, Caller

LEMMA LinesInvariant == Spec => []Lines
BY InductiveInvariant, InitLines, StepLines, PTL DEF Spec

\* On a terminal, prompt j is answered with line j of what was typed, all of
\* it and nothing else, after it has ended: the readers' separate buffers lose
\* and cut nothing.
THEOREM AlwaysTerminalLinePerPrompt == Spec => []TerminalLinePerPrompt
<1>1. ASSUME IInv, Lines, tty, NEW j \in Answered
      PROVE  GetsItsLine(j) /\ \E i \in DOMAIN input : EndsLine(i) /\ LineOf(i) = j
  <2> USE BoundsAssumption DEF IInv, Shape
  <2> DEFINE len == Cardinality(DOMAIN input)
             c == Cardinality(Ended(pos))
  <2>1. len \in Nat /\ DOMAIN input = 1..len /\ pos \in 0..len
    BY <1>1, InputLength
  <2>2. j \in Prompts /\ j <= k /\ k # 0
    BY <1>1 DEF Answered, Turns, Prompts
  <2>3. c \in Nat /\ j <= c
    <3>1. c \in Nat
      BY <2>1, EndedFinite
    <3>2. CASE j = k
      BY <1>1, <2>2, <3>2 DEF Lines, HasLine
    <3>3. CASE j # k
      BY <1>1, <2>2, <3>3 DEF Lines, Prompts
    <3>4. QED
      BY <3>1, <3>2, <3>3
  <2>4. \E i \in DOMAIN input : EndsLine(i) /\ LineOf(i) = j
    <3>1. j \in 1..c
      BY <2>2, <2>3 DEF Prompts
    <3>2. PICK i \in Ended(pos) : LineOf(i) = j
      BY <1>1, <3>1 DEF Lines
    <3>3. QED
      BY <2>1, <3>2 DEF Ended
  <2>5. ASSUME NEW i \in DOMAIN input, input[i] # "eof"
        PROVE  i \in text[j] <=> LineOf(i) = j
    <3>1. CASE i <= pos
      BY <1>1, <2>1, <2>2, <2>5, <3>1 DEF Lines
    <3>2. CASE i > pos
      <4>1. i \notin text[j]
        BY <1>1, <2>1, <2>2, <3>2 DEF Ordered
      <4>2. c <= Cardinality(Ended(i - 1))
        BY <2>1, <3>2, EndedMonotone
      <4>3. LineOf(i) > j
        <5>1. i - 1 \in Nat /\ i \in Nat /\ j \in Nat
          BY <2>1, <2>2, <3>2 DEF Prompts
        <5>2. Cardinality(Ended(i - 1)) \in Nat
          BY <5>1, EndedFinite
        <5>3. LineOf(i) = 1 + Cardinality(Ended(i - 1))
          BY <5>1, LineByEnded
        <5>4. QED
          BY <2>3, <4>2, <5>1, <5>2, <5>3
      <4>4. QED
        BY <2>2, <4>1, <4>3 DEF Prompts
    <3>3. QED
      BY <2>1, <3>1, <3>2
  <2>6. QED
    BY <2>4, <2>5 DEF GetsItsLine
<1>2. IInv /\ Lines => TerminalLinePerPrompt
  BY <1>1 DEF TerminalLinePerPrompt
<1>3. QED
  BY <1>2, InductiveInvariant, LinesInvariant, PTL

-------------------------------------------------------------------------------
(* The command line *)

\* The types of what the split keeps.
SplitShape ==
  /\ args \in Seq(Classes) /\ Len(args) <= MaxArgs
  /\ pc \in {"split", "parse", "run", "usage"}
  /\ at \in 1..(Len(args) + 1)
  /\ dashed \in BOOLEAN
  /\ flagArgs \in Seq(Places) /\ positionals \in Seq(Places \ {0})
  /\ rest \in Seq(Places)

\* The length of the flag stream without its sentinel.
Written == IF pc = "split" THEN Len(flagArgs) ELSE Len(flagArgs) - 1

\* Every token before the cursor has gone to one of the two streams, and both
\* are in the order of the command line.
Routed ==
  /\ \A x \in 1..Written : flagArgs[x] \in 1..(at - 1)
  /\ \A x, y \in 1..Written : x < y => flagArgs[x] < flagArgs[y]
  /\ \A x \in DOMAIN positionals : positionals[x] \in 1..(at - 1)
  /\ \A x, y \in DOMAIN positionals : x < y => positionals[x] < positionals[y]
  /\ \A x \in 1..Written, y \in DOMAIN positionals : flagArgs[x] # positionals[y]
  /\ \A p \in 1..(at - 1) : \/ \E x \in 1..Written : flagArgs[x] = p
                            \/ \E y \in DOMAIN positionals : positionals[y] = p
  /\ pc # "split" => /\ at = Len(args) + 1 /\ Len(flagArgs) >= 1
                     /\ flagArgs[Len(flagArgs)] = 0

\* A token that looks like a flag is a positional only behind a "--".
Dashes ==
  /\ dashed => \E q \in 1..(at - 1) : args[q] = "--"
  /\ \A y \in DOMAIN positionals :
       \/ args[positionals[y]] \in {"word", "-"}
       \/ \E q \in 1..(positionals[y] - 1) : args[q] = "--"

\* The class of a place of the flag stream.
Kind(x) == Class(flagArgs[x])

\* The flag stream is a row of units: H has their heads, and what is not a
\* head is the value of the flag right before it.  Only the last unit may be
\* a flag with no value, until the sentinel becomes its value.
Units(H) ==
  /\ \A x \in H : Kind(x) \notin {"word", "-"}
  /\ \A x \in H : Kind(x) = "flag" =>
       x + 1 \notin H /\ (x = Len(flagArgs) => pc = "split" /\ at = Len(args) + 1)
  /\ \A x \in H : Kind(x) # "flag" /\ x < Len(flagArgs) => x + 1 \in H
  /\ \A x \in H : Kind(x) = "--" /\ x <= Written => x = Written /\ dashed
  /\ \A x \in 1..Len(flagArgs) : x \notin H =>
       /\ x - 1 \in H /\ Kind(x - 1) = "flag"
       /\ x <= Written => flagArgs[x] = flagArgs[x - 1] + 1
       /\ x < Len(flagArgs) => x + 1 \in H

\* How much of the stream flag.Parse has consumed.
Done == Len(flagArgs) - Len(rest)

\* flag.Parse stands at a head, and what it has set is what the units behind
\* it say.
Parsed(H) ==
  IF pc = "split" THEN rest = <<>> /\ set = {} /\ values = {}
  ELSE
  /\ Done \in 0..Len(flagArgs)
  /\ \A j \in 1..Len(rest) : rest[j] = flagArgs[Done + j]
  /\ pc = "parse" /\ rest # <<>> => Done + 1 \in H
  /\ pc = "run" => Done >= Written
  /\ \A x \in H : x <= Done => Kind(x) # "unknown"
  /\ set = {flagArgs[x] : x \in {y \in H : y <= Done /\ Kind(y) \in {"switch", "switch=", "flag="}}}
  /\ values = {<<flagArgs[x], flagArgs[x + 1]>> : x \in {y \in H : y <= Done /\ Kind(y) = "flag"}}

SplitIInv ==
  /\ SplitShape /\ Routed /\ Dashes
  /\ \E H \in SUBSET (1..Len(flagArgs)) : Units(H) /\ Parsed(H)

LEMMA InitSplit == SplitInit => SplitIInv
<1> SUFFICES ASSUME SplitInit PROVE SplitIInv
  OBVIOUS
<1>1. PICK n \in 0..MaxArgs : args \in [1..n -> Classes]
  BY DEF SplitInit
<1>2. args \in Seq(Classes) /\ Len(args) <= MaxArgs
  BY <1>1, MaxArgsAssumption
<1>3. dashed \in BOOLEAN
  BY Zenon DEF SplitInit
<1>4. SplitShape
  BY <1>2, <1>3 DEF SplitInit, SplitShape
<1>5. Routed /\ Dashes
  BY <1>2 DEF SplitInit, Routed, Dashes, Written
<1>6. Units({}) /\ Parsed({})
  BY DEF SplitInit, Units, Parsed
<1>7. {} \in SUBSET (1..Len(flagArgs))
  OBVIOUS
<1>8. QED
  BY <1>4, <1>5, <1>6, <1>7 DEF SplitIInv

\* A token that leaves the flags alone.
LEMMA StepPositional ==
  ASSUME SplitIInv, Positional
  PROVE  SplitIInv'
<1> USE DEF SplitIInv, SplitShape
<1>1. /\ UNCHANGED <<args, pc, dashed, flagArgs, rest, set, values>>
      /\ pc = "split" /\ at <= Len(args) /\ at' = at + 1
      /\ positionals' = Append(positionals, at)
      /\ dashed \/ args[at] \in {"word", "-"}
      /\ Len(args) \in Nat /\ Len(positionals) \in Nat
  BY DEF Positional, Split, parsing
<1>2. at \in Places \ {0}
  BY <1>1 DEF Places
<1>3. SplitShape'
  BY <1>1, <1>2 DEF Places
<1>4. /\ Len(positionals') = Len(positionals) + 1
      /\ \A y \in 1..Len(positionals) : positionals'[y] = positionals[y]
      /\ positionals'[Len(positionals) + 1] = at
  BY <1>1, <1>2
<1>5. Routed'
  <2> DEFINE m == Len(positionals)
  <2>1. /\ \A x \in 1..Written' : x \in 1..Written /\ flagArgs'[x] = flagArgs[x]
        /\ \A y \in DOMAIN positionals' : y \in DOMAIN positionals \/ positionals'[y] = at
        /\ DOMAIN positionals = 1..m /\ DOMAIN positionals' = 1..(m + 1)
    BY <1>1, <1>4 DEF Written
  <2>2. \A y \in DOMAIN positionals' : positionals'[y] \in 1..(at' - 1)
    BY <1>1, <1>4, <2>1 DEF Routed
  <2>3. \A x, y \in DOMAIN positionals' : x < y => positionals'[x] < positionals'[y]
    BY <1>1, <1>4, <2>1 DEF Routed
  <2>4. \A x \in 1..Written', y \in DOMAIN positionals' : flagArgs'[x] # positionals'[y]
    BY <1>1, <1>4, <2>1 DEF Routed
  <2>5. \A p \in 1..(at' - 1) : \/ \E x \in 1..Written' : flagArgs'[x] = p
                                \/ \E y \in DOMAIN positionals' : positionals'[y] = p
    <3> SUFFICES ASSUME NEW p \in 1..(at' - 1), \A y \in DOMAIN positionals' : positionals'[y] # p
                 PROVE  \E x \in 1..Written' : flagArgs'[x] = p
      OBVIOUS
    <3>1. p # at
      <4>1. m + 1 \in DOMAIN positionals'
        BY <1>1, <2>1
      <4>2. QED
        BY <1>4, <4>1
    <3>2. p \in 1..(at - 1) /\ \A y \in DOMAIN positionals : positionals[y] # p
      BY <1>1, <1>4, <2>1, <3>1
    <3>3. Written' = Written
      BY <1>1 DEF Written
    <3>4. QED
      BY <1>1, <3>2, <3>3 DEF Routed
  <2>6. \A x \in 1..Written' : flagArgs'[x] \in 1..(at' - 1)
    BY <1>1, <2>1 DEF Routed
  <2>7. \A x, y \in 1..Written' : x < y => flagArgs'[x] < flagArgs'[y]
    BY <2>1 DEF Routed
  <2>8. QED
    BY <1>1, <2>2, <2>3, <2>4, <2>5, <2>6, <2>7 DEF Routed
<1>6. Dashes'
  BY <1>1, <1>3, <1>4 DEF Dashes
<1>7. PICK H \in SUBSET (1..Len(flagArgs)) : Units(H) /\ Parsed(H)
  OBVIOUS
<1>8. \A x : Kind(x)' = Kind(x)
  BY <1>1 DEF Kind, Class
<1>9. Units(H)' /\ Parsed(H)'
  BY <1>1, <1>7, <1>8 DEF Units, Parsed, Written
<1>10. QED
  BY <1>1, <1>3, <1>5, <1>6, <1>7, <1>9

\* A unit of one or two tokens that joins the flag stream.
LEMMA StepUnit ==
  ASSUME SplitIInv, SplitShape', pc = "split", ~dashed, at <= Len(args),
         UNCHANGED <<args, pc, positionals, rest, set, values>>,
         NEW n \in Nat, n = Len(flagArgs), NEW m \in 1..2,
         at' = at + m, dashed' <=> args[at] = "--",
         Len(flagArgs') = n + m, flagArgs'[n + 1] = at, m = 2 => flagArgs'[n + 2] = at + 1,
         \A x \in 1..n : flagArgs'[x] = flagArgs[x],
         args[at] \notin {"word", "-"},
         m = 2 => args[at] = "flag",
         m = 1 /\ args[at] = "flag" => at = Len(args)
  PROVE  SplitIInv'
<1> USE DEF SplitIInv, SplitShape
<1>1. Len(args) \in Nat /\ Written = n /\ Written' = n + m /\ DOMAIN positionals' = DOMAIN positionals
  BY DEF Written
<1>2. \A x \in 1..(n + m) : \/ x \in 1..n
                            \/ x = n + 1 /\ flagArgs'[x] = at
                            \/ x = n + 2 /\ m = 2 /\ flagArgs'[x] = at + 1
  <2> SUFFICES ASSUME NEW x \in 1..(n + m), x \notin 1..n
               PROVE  \/ x = n + 1 /\ flagArgs'[x] = at
                      \/ x = n + 2 /\ m = 2 /\ flagArgs'[x] = at + 1
    OBVIOUS
  <2>1. x = n + 1 \/ (x = n + 2 /\ m = 2)
    OBVIOUS
  <2>2. QED
    BY <2>1
<1>3. Routed'
  <2>1. \A x \in 1..Written' : flagArgs'[x] \in 1..(at' - 1)
    BY <1>1, <1>2 DEF Routed
  <2>2. \A x, y \in 1..Written' : x < y => flagArgs'[x] < flagArgs'[y]
    <3> SUFFICES ASSUME NEW x \in 1..(n + m), NEW y \in 1..(n + m), x < y
                 PROVE  flagArgs'[x] < flagArgs'[y]
      BY <1>1
    <3>1. CASE y \in 1..n
      <4>1. x \in 1..n /\ x < y
        BY <3>1
      <4>2. flagArgs[x] < flagArgs[y]
        BY <1>1, <3>1, <4>1 DEF Routed
      <4>3. QED
        BY <3>1, <4>1, <4>2
    <3>2. CASE x \in 1..n /\ y \notin 1..n
      <4>1. flagArgs'[x] \in 1..(at - 1)
        BY <1>1, <3>2 DEF Routed
      <4>2. flagArgs'[y] = at \/ flagArgs'[y] = at + 1
        BY <1>2, <3>2
      <4>3. QED
        BY <4>1, <4>2
    <3>3. CASE x \notin 1..n /\ y \notin 1..n
      <4>1. x = n + 1 /\ y = n + 2 /\ flagArgs'[x] = at /\ flagArgs'[y] = at + 1
        BY <1>2, <3>3
      <4>2. QED
        BY <4>1
    <3>4. QED
      BY <3>1, <3>2, <3>3
  <2>3. \A x \in 1..Written', y \in DOMAIN positionals' : flagArgs'[x] # positionals'[y]
    <3> SUFFICES ASSUME NEW x \in 1..(n + m), NEW y \in DOMAIN positionals
                 PROVE  flagArgs'[x] # positionals[y]
      BY <1>1
    <3>1. positionals[y] \in 1..(at - 1)
      BY DEF Routed
    <3>2. CASE x \in 1..n
      BY <1>1, <3>2 DEF Routed
    <3>3. CASE x \notin 1..n
      BY <1>2, <3>1, <3>3
    <3>4. QED
      BY <3>2, <3>3
  <2>4. \A p \in 1..(at' - 1) : \/ \E x \in 1..Written' : flagArgs'[x] = p
                                \/ \E y \in DOMAIN positionals' : positionals'[y] = p
    <3> SUFFICES ASSUME NEW p \in 1..(at' - 1), \A x \in 1..(n + m) : flagArgs'[x] # p
                 PROVE  \E y \in DOMAIN positionals' : positionals'[y] = p
      BY <1>1
    <3>1. n + 1 \in 1..(n + m) /\ (m = 2 => n + 2 \in 1..(n + m))
      OBVIOUS
    <3>2. p # at /\ (m = 2 => p # at + 1)
      BY <3>1
    <3>3. m = 1 \/ m = 2
      OBVIOUS
    <3>4. p \in 1..(at - 1)
      BY <3>2, <3>3
    <3>5. \A x \in 1..n : flagArgs[x] # p
      OBVIOUS
    <3>6. QED
      BY <1>1, <3>4, <3>5 DEF Routed
  <2>5. \A y \in DOMAIN positionals' : positionals'[y] \in 1..(at' - 1)
    BY DEF Routed
  <2>6. \A x, y \in DOMAIN positionals' : x < y => positionals'[x] < positionals'[y]
    BY DEF Routed
  <2>7. QED
    BY <2>1, <2>2, <2>3, <2>4, <2>5, <2>6 DEF Routed
<1>4. Dashes'
  BY <1>1 DEF Dashes
<1>5. PICK H \in SUBSET (1..n) : Units(H) /\ Parsed(H)
  OBVIOUS
<1> DEFINE G == H \union {n + 1}
<1>6. /\ \A x \in 1..n : Kind(x)' = Kind(x)
      /\ Kind(n + 1)' = args[at]
  BY DEF Kind, Class
<1>7. n \in H => Kind(n) # "flag"
  BY <1>5 DEF Units
<1>8. G \in SUBSET (1..Len(flagArgs'))
  <2>1. n + 1 \in 1..(n + m) /\ \A x \in 1..n : x \in 1..(n + m)
    OBVIOUS
  <2>2. 1..Len(flagArgs') = 1..(n + m)
    OBVIOUS
  <2>3. QED
    BY <2>1, <2>2
<1>9. Units(G)'
  <2>1. \A x \in G : Kind(x)' \notin {"word", "-"}
    BY <1>5, <1>6 DEF Units
  <2>2. \A x \in G : Kind(x)' = "flag" =>
          x + 1 \notin G /\ (x = n + m => pc' = "split" /\ at' = Len(args') + 1)
    BY <1>1, <1>5, <1>6, <1>7 DEF Units
  <2>3. \A x \in G : Kind(x)' # "flag" /\ x < n + m => x + 1 \in G
    BY <1>1, <1>5, <1>6 DEF Units
  <2>4. \A x \in G : Kind(x)' = "--" /\ x <= Written' => x = Written' /\ dashed'
    BY <1>1, <1>5, <1>6 DEF Units
  <2>5. ASSUME NEW x \in 1..(n + m), x \notin G
        PROVE  /\ x - 1 \in G /\ Kind(x - 1)' = "flag"
               /\ x <= Written' => flagArgs'[x] = flagArgs'[x - 1] + 1
               /\ x < n + m => x + 1 \in G
    <3>1. CASE x \in 1..n
      <4>1. x - 1 \in H /\ Kind(x - 1) = "flag" /\ flagArgs[x] = flagArgs[x - 1] + 1
        BY <1>1, <1>5, <2>5, <3>1 DEF Units
      <4>2. x < n => x + 1 \in H
        BY <1>5, <2>5, <3>1 DEF Units
      <4>3. QED
        BY <1>6, <3>1, <4>1, <4>2
    <3>2. CASE x = n + 2 /\ m = 2
      BY <1>6, <3>2
    <3>3. QED
      BY <1>2, <2>5, <3>1, <3>2
  <2>6. QED
    BY <2>1, <2>2, <2>3, <2>4, <2>5 DEF Units
<1>10. Parsed(G)'
  BY <1>5 DEF Parsed
<1>11. QED
  BY <1>3, <1>4, <1>8, <1>9, <1>10

LEMMA StepSplit ==
  ASSUME SplitIInv, Positional \/ DoubleDash \/ FlagToken
  PROVE  SplitIInv'
<1>1. PICK n \in Nat : n = Len(flagArgs)
  BY DEF SplitIInv, SplitShape
<1>2. Len(args) \in Nat /\ at \in 1..(Len(args) + 1) /\ flagArgs \in Seq(Places)
  BY DEF SplitIInv, SplitShape
<1>3. CASE DoubleDash
  <2>1. /\ UNCHANGED <<args, pc, positionals, rest, set, values>>
        /\ pc = "split" /\ at <= Len(args) /\ ~dashed /\ args[at] = "--"
        /\ at' = at + 1 /\ dashed' = TRUE /\ flagArgs' = Append(flagArgs, at)
    BY <1>3 DEF DoubleDash, Split, parsing
  <2>2. at \in Places
    BY <1>2, <2>1 DEF Places
  <2>3. SplitShape'
    BY <1>2, <2>1, <2>2 DEF Places, SplitIInv, SplitShape
  <2>4. /\ Len(flagArgs') = n + 1 /\ flagArgs'[n + 1] = at
        /\ \A x \in 1..n : flagArgs'[x] = flagArgs[x]
    BY <1>1, <1>2, <2>1, <2>2
  <2>5. dashed' <=> args[at] = "--"
    BY <2>1
  <2>6. args[at] \notin {"word", "-"} /\ args[at] # "flag"
    BY <2>1
  <2>7. QED
    BY <1>1, <2>1, <2>3, <2>4, <2>5, <2>6, StepUnit
<1>4. CASE FlagToken
  <2>1. /\ UNCHANGED <<args, pc, dashed, positionals, rest, set, values>>
        /\ pc = "split" /\ at <= Len(args) /\ ~dashed
        /\ args[at] \notin {"word", "-", "--"}
        /\ dashed' <=> args[at] = "--"
    BY <1>4 DEF FlagToken, Split, parsing
  <2>2. at \in Places
    BY <1>2, <2>1 DEF Places
  <2>3. CASE TakesNext(at)
    <3>1. flagArgs' = flagArgs \o <<at, at + 1>> /\ at' = at + 2
      BY <1>4, <2>3 DEF FlagToken
    <3>2. at' = at + 2 /\ args[at] = "flag" /\ at < Len(args)
      BY <2>3, <3>1 DEF TakesNext
    <3>3. at + 1 \in Places
      BY <1>2, <3>2 DEF Places
    <3>4. /\ Len(flagArgs') = n + 2 /\ flagArgs'[n + 1] = at /\ flagArgs'[n + 2] = at + 1
          /\ \A x \in 1..n : flagArgs'[x] = flagArgs[x]
          /\ flagArgs' \in Seq(Places)
      BY <1>1, <1>2, <2>2, <3>1, <3>3
    <3>5. SplitShape'
      BY <1>2, <2>1, <3>2, <3>4 DEF Places, SplitIInv, SplitShape
    <3>6. QED
      BY <1>1, <2>1, <3>2, <3>4, <3>5, StepUnit
  <2>4. CASE ~TakesNext(at)
    <3>1. /\ flagArgs' = Append(flagArgs, at) /\ at' = at + 1
          /\ args[at] = "flag" => at = Len(args)
      BY <1>2, <1>4, <2>1, <2>4 DEF FlagToken, TakesNext
    <3>2. /\ Len(flagArgs') = n + 1 /\ flagArgs'[n + 1] = at
          /\ \A x \in 1..n : flagArgs'[x] = flagArgs[x]
          /\ flagArgs' \in Seq(Places)
      BY <1>1, <1>2, <2>2, <3>1
    <3>3. SplitShape'
      BY <1>2, <2>1, <3>1, <3>2 DEF Places, SplitIInv, SplitShape
    <3>4. QED
      BY <1>1, <2>1, <3>1, <3>2, <3>3, StepUnit
  <2>5. QED
    BY <2>3, <2>4
<1>5. QED
  BY <1>3, <1>4, StepPositional

\* The split is done; what is left to parse is the whole stream.
LEMMA StepSentinel ==
  ASSUME SplitIInv, Sentinel
  PROVE  SplitIInv'
<1> USE DEF SplitIInv, SplitShape
<1>1. PICK n \in Nat : n = Len(flagArgs)
  OBVIOUS
<1>2. /\ UNCHANGED <<args, at, dashed, positionals, set, values>>
      /\ pc = "split" /\ pc' = "parse" /\ Len(args) \in Nat /\ at = Len(args) + 1
      /\ flagArgs' = Append(flagArgs, 0) /\ rest' = flagArgs'
  <2>1. Len(args) \in Nat /\ at \in 1..(Len(args) + 1)
    OBVIOUS
  <2>2. /\ UNCHANGED <<args, at, dashed, positionals, set, values>>
        /\ pc = "split" /\ pc' = "parse" /\ at > Len(args)
        /\ flagArgs' = Append(flagArgs, 0) /\ rest' = flagArgs'
    BY Zenon DEF Sentinel
  <2>3. at = Len(args) + 1
    BY <2>1, <2>2
  <2>4. QED
    BY <2>1, <2>2, <2>3
<1>3. /\ Len(flagArgs') = n + 1 /\ flagArgs'[n + 1] = 0 /\ flagArgs' \in Seq(Places)
      /\ \A x \in 1..n : flagArgs'[x] = flagArgs[x]
  <2>1. 0 \in Places
    BY <1>2 DEF Places
  <2>2. QED
    BY <1>1, <1>2, <2>1
<1>4. SplitShape'
  BY <1>2, <1>3 DEF Places
<1>5. Written = n /\ Written' = n
  BY <1>1, <1>2, <1>3 DEF Written
<1>6. Routed' /\ Dashes'
  BY <1>1, <1>2, <1>3, <1>5 DEF Routed, Dashes
<1>7. PICK H \in SUBSET (1..n) : Units(H) /\ Parsed(H)
  BY <1>1
<1>8. PICK G \in SUBSET (1..(n + 1)) :
        G = IF n \in H /\ Kind(n) = "flag" THEN H ELSE H \union {n + 1}
  <2>1. n + 1 \in 1..(n + 1) /\ \A x \in 1..n : x \in 1..(n + 1)
    BY <1>1
  <2>2. H \in SUBSET (1..(n + 1)) /\ H \union {n + 1} \in SUBSET (1..(n + 1))
    BY <2>1
  <2>3. QED
    BY <2>2
<1>9. /\ \A x \in 1..n : Kind(x)' = Kind(x)
      /\ Kind(n + 1)' = "--"
  BY <1>2, <1>3 DEF Kind, Class
<1>10. Units(G)'
  <2>1. \A x \in G : Kind(x)' \notin {"word", "-"}
    BY <1>7, <1>8, <1>9 DEF Units
  <2>2. \A x \in G : Kind(x)' = "flag" =>
          x + 1 \notin G /\ (x = Len(flagArgs') => pc' = "split" /\ at' = Len(args') + 1)
    <3> SUFFICES ASSUME NEW x \in G, Kind(x)' = "flag"
                 PROVE  x + 1 \notin G /\ x # n + 1
      BY <1>3
    <3>1. x \in H /\ x \in 1..n /\ Kind(x) = "flag"
      BY <1>8, <1>9
    <3>2. x + 1 \notin H
      BY <1>7, <3>1 DEF Units
    <3>3. CASE x = n
      <4>1. G = H
        BY <1>8, <3>1, <3>3
      <4>2. QED
        BY <1>1, <3>1, <3>2, <4>1
    <3>4. CASE x # n
      <4>1. x + 1 # n + 1 /\ x # n + 1
        BY <1>1, <3>1, <3>4
      <4>2. QED
        BY <1>8, <3>2, <4>1
    <3>5. QED
      BY <3>3, <3>4
  <2>3. \A x \in G : Kind(x)' # "flag" /\ x < n + 1 => x + 1 \in G
    BY <1>1, <1>7, <1>8, <1>9 DEF Units
  <2>4. \A x \in G : Kind(x)' = "--" /\ x <= Written' => x = Written' /\ dashed'
    BY <1>2, <1>5, <1>7, <1>8, <1>9 DEF Units
  <2>5. ASSUME NEW x \in 1..(n + 1), x \notin G
        PROVE  /\ x - 1 \in G /\ Kind(x - 1)' = "flag"
               /\ x <= Written' => flagArgs'[x] = flagArgs'[x - 1] + 1
               /\ x < n + 1 => x + 1 \in G
    <3>1. CASE x \in 1..n
      <4>1. x - 1 \in H /\ Kind(x - 1) = "flag" /\ flagArgs[x] = flagArgs[x - 1] + 1
        BY <1>1, <1>5, <1>7, <1>8, <2>5, <3>1 DEF Units
      <4>2. x < n => x + 1 \in H
        BY <1>1, <1>7, <1>8, <2>5, <3>1 DEF Units
      <4>3. x = n => n + 1 \in G
        BY <1>8, <2>5
      <4>4. QED
        BY <1>3, <1>8, <1>9, <3>1, <4>1, <4>2, <4>3
    <3>2. CASE x = n + 1
      BY <1>5, <1>8, <1>9, <2>5, <3>2
    <3>3. QED
      BY <3>1, <3>2
  <2>6. QED
    BY <1>3, <2>1, <2>2, <2>3, <2>4, <2>5 DEF Units
<1>11. n # 0 => 1 \in G
  BY <1>7, <1>8, <1>1 DEF Units
<1>12. 1 \in G
  BY <1>8, <1>11
<1>13. Done' = 0
  BY <1>2, <1>3 DEF Done
<1>14. Parsed(G)'
  <2>1. set' = {} /\ values' = {}
    BY <1>2, <1>7 DEF Parsed
  <2>2. \A x \in G : ~(x <= 0)
    BY <1>1
  <2>3. Done' + 1 \in G
    BY <1>12, <1>13
  <2>4. \A j \in 1..Len(rest') : rest'[j] = flagArgs'[Done' + j]
    BY <1>2, <1>3, <1>13
  <2>5. QED
    BY <1>2, <1>3, <1>13, <2>1, <2>2, <2>3, <2>4 DEF Parsed
<1>15. QED
  BY <1>3, <1>4, <1>6, <1>10, <1>14

LEMMA StepParse ==
  ASSUME SplitIInv, ParseOne \/ ParseValue \/ ParseFails \/ ParseEnds
  PROVE  SplitIInv'
<1> USE DEF SplitIInv, SplitShape
<1>1. PICK n \in Nat : n = Len(flagArgs)
  OBVIOUS
<1>2. PICK H \in SUBSET (1..n) : Units(H) /\ Parsed(H)
  BY <1>1
<1>3. /\ UNCHANGED <<args, at, dashed, flagArgs, positionals>>
      /\ pc = "parse" /\ pc' \in {"parse", "run", "usage"}
  BY DEF ParseOne, ParseValue, ParseFails, ParseEnds, splitting
<1>4. n >= 1 /\ flagArgs[n] = 0 /\ Written = n - 1 /\ Written' = n - 1
  BY <1>1, <1>3 DEF Routed, Written
<1>5. Routed' /\ Dashes'
  BY <1>1, <1>3, <1>4 DEF Routed, Dashes
<1>6. \A x : Kind(x)' = Kind(x)
  BY <1>3 DEF Kind, Class
<1>7. Units(H)'
  BY <1>1, <1>2, <1>3, <1>4, <1>6 DEF Units
<1>8. PICK d \in 0..n : d = Done
  BY <1>1, <1>2, <1>3 DEF Parsed
<1>9. /\ Len(rest) = n - d
      /\ \A j \in 1..Len(rest) : rest[j] = flagArgs[d + j]
      /\ rest # <<>> => d + 1 \in H /\ Token = Kind(d + 1)
      /\ Token = "end" <=> rest = <<>>
      /\ \A x \in H : x <= d => Kind(x) # "unknown"
  <2>1. Len(rest) = n - d
    BY <1>1, <1>8 DEF Done
  <2>2. /\ \A j \in 1..Len(rest) : rest[j] = flagArgs[d + j]
        /\ rest # <<>> => d + 1 \in H
        /\ \A x \in H : x <= d => Kind(x) # "unknown"
    BY <1>2, <1>3, <1>8 DEF Parsed
  <2>3. rest # <<>> => Token = Kind(d + 1)
    BY <2>1, <2>2 DEF Token, Kind
  <2>4. rest # <<>> => Kind(d + 1) # "end"
    <3> SUFFICES ASSUME rest # <<>> PROVE Kind(d + 1) # "end"
      OBVIOUS
    <3>1. d + 1 \in 1..n
      BY <2>1
    <3>2. flagArgs[d + 1] = 0 \/ args[flagArgs[d + 1]] \in Classes
      BY <1>1, <3>1 DEF Places
    <3>3. QED
      BY <3>2 DEF Kind, Class, Classes
  <2>5. rest = <<>> => Token = "end"
    BY DEF Token
  <2>6. QED
    BY <2>1, <2>2, <2>3, <2>4, <2>5
<1> DEFINE Sets(e) == {flagArgs[x] : x \in {y \in H : y <= e /\ Kind(y) \in {"switch", "switch=", "flag="}}}
           Pairs(e) == {<<flagArgs[x], flagArgs[x + 1]>> : x \in {y \in H : y <= e /\ Kind(y) = "flag"}}
<1>10. set = Sets(d) /\ values = Pairs(d)
  BY <1>2, <1>3, <1>8 DEF Parsed
<1>11. ASSUME NEW e \in 0..n, rest' \in Seq(Places), Len(rest') = n - e,
              \A j \in 1..Len(rest') : rest'[j] = flagArgs[e + j],
              pc' = "parse" /\ rest' # <<>> => e + 1 \in H,
              pc' = "run" => e >= n - 1,
              \A x \in H : x <= e => Kind(x) # "unknown",
              set' = Sets(e), values' = Pairs(e)
       PROVE  SplitIInv'
  <2>1. SplitShape'
    BY <1>3, <1>11 DEF Places
  <2>2. Done' = e
    BY <1>1, <1>3, <1>11 DEF Done
  <2>3. set' = {flagArgs'[x] : x \in {y \in H : y <= Done' /\ Kind(y)' \in {"switch", "switch=", "flag="}}}
    BY <1>3, <1>6, <1>11, <2>2
  <2>4. values' = {<<flagArgs'[x], flagArgs'[x + 1]>> : x \in {y \in H : y <= Done' /\ Kind(y)' = "flag"}}
    BY <1>3, <1>6, <1>11, <2>2
  <2>5. /\ Done' \in 0..Len(flagArgs')
        /\ \A j \in 1..Len(rest') : rest'[j] = flagArgs'[Done' + j]
        /\ pc' = "parse" /\ rest' # <<>> => Done' + 1 \in H
        /\ pc' = "run" => Done' >= Written'
        /\ \A x \in H : x <= Done' => Kind(x)' # "unknown"
    BY <1>1, <1>3, <1>4, <1>6, <1>11, <2>2
  <2>6. Parsed(H)'
    BY <1>3, <2>3, <2>4, <2>5 DEF Parsed
  <2>7. H \in SUBSET (1..Len(flagArgs'))
    BY <1>1, <1>3
  <2>8. QED
    BY <1>5, <1>7, <2>1, <2>6, <2>7
<1>12. \A x \in H : x \in 1..n
  OBVIOUS
<1>13. CASE ParseOne
  <2>1. /\ Token \in {"switch", "switch=", "flag="} /\ pc' = pc
        /\ set' = set \union {Head(rest)} /\ rest' = Tail(rest) /\ values' = values
    BY <1>13 DEF ParseOne
  <2>2. /\ rest # <<>> /\ d + 1 \in H /\ Kind(d + 1) \in {"switch", "switch=", "flag="}
        /\ Len(rest) >= 1 /\ d + 1 \in 1..n /\ Head(rest) = flagArgs[d + 1]
    BY <1>9, <1>12, <2>1
  <2>3. /\ rest' \in Seq(Places) /\ Len(rest') = n - (d + 1)
        /\ \A j \in 1..Len(rest') : rest'[j] = flagArgs[(d + 1) + j]
    BY <1>9, <2>1, <2>2
  <2>4. d + 1 < n => (d + 1) + 1 \in H
    BY <1>1, <1>2, <2>2 DEF Units
  <2>5. rest' # <<>> => (d + 1) + 1 \in H
    BY <2>2, <2>3, <2>4
  <2>6. \A y \in H : y <= d + 1 <=> (y <= d \/ y = d + 1)
    BY <1>12
  <2>7. set' = Sets(d + 1)
    <3>1. {y \in H : y <= d + 1 /\ Kind(y) \in {"switch", "switch=", "flag="}}
            = {y \in H : y <= d /\ Kind(y) \in {"switch", "switch=", "flag="}} \union {d + 1}
      BY <2>2, <2>6
    <3>2. QED
      BY <1>10, <2>1, <2>2, <3>1
  <2>8. values' = Pairs(d + 1)
    <3>1. {y \in H : y <= d + 1 /\ Kind(y) = "flag"} = {y \in H : y <= d /\ Kind(y) = "flag"}
      BY <2>2, <2>6
    <3>2. QED
      BY <1>10, <2>1, <3>1
  <2>9. \A x \in H : x <= d + 1 => Kind(x) # "unknown"
    BY <1>9, <1>12, <2>2
  <2>10. d + 1 \in 0..n /\ pc' # "run"
    BY <1>3, <2>1, <2>2
  <2>11. QED
    BY <1>11, <2>3, <2>5, <2>7, <2>8, <2>9, <2>10
<1>14. CASE ParseValue
  <2>1. /\ Token = "flag" /\ Len(rest) >= 2 /\ pc' = pc /\ set' = set
        /\ values' = values \union {<<rest[1], rest[2]>>} /\ rest' = Tail(Tail(rest))
    BY <1>14 DEF ParseValue
  <2>2. /\ d + 1 \in H /\ Kind(d + 1) = "flag" /\ d + 2 \in 1..n
        /\ rest[1] = flagArgs[d + 1] /\ rest[2] = flagArgs[d + 2]
    BY <1>9, <2>1
  <2>3. /\ rest' \in Seq(Places) /\ Len(rest') = n - (d + 2)
        /\ \A j \in 1..Len(rest') : rest'[j] = flagArgs[(d + 2) + j]
    <3>0. Tail(rest) \in Seq(Places)
      BY <1>9, <2>1
    <3>1. PICK t \in Seq(Places) : t = Tail(rest)
      BY <3>0, Zenon
    <3>2. Len(t) = n - (d + 1) /\ \A j \in 1..Len(t) : t[j] = flagArgs[(d + 1) + j]
      <4>1. Len(t) = Len(rest) - 1 /\ \A j \in 1..Len(t) : t[j] = rest[j + 1]
        BY <2>1, <3>1
      <4>2. \A j \in 1..Len(t) : j + 1 \in 1..Len(rest) /\ d + (j + 1) = (d + 1) + j
        BY <2>1, <4>1
      <4>3. QED
        BY <1>9, <4>1, <4>2
    <3>3. Len(t) >= 1 /\ t # <<>>
      BY <2>2, <3>2
    <3>4. /\ rest' \in Seq(Places) /\ Len(rest') = Len(t) - 1
          /\ \A j \in 1..Len(rest') : rest'[j] = t[j + 1]
      BY <2>1, <3>1, <3>3
    <3>5. Len(rest') = n - (d + 2)
      BY <3>2, <3>4
    <3>6. ASSUME NEW j \in 1..Len(rest') PROVE rest'[j] = flagArgs[(d + 2) + j]
      <4>1. j + 1 \in 1..Len(t) /\ (d + 1) + (j + 1) = (d + 2) + j
        BY <3>4
      <4>2. QED
        BY <3>2, <3>4, <4>1
    <3>7. QED
      BY <3>4, <3>5, <3>6
  <2>4. d + 2 \notin H /\ (d + 2 < n => (d + 2) + 1 \in H)
    BY <1>1, <1>2, <2>2 DEF Units
  <2>5. rest' # <<>> => (d + 2) + 1 \in H
    BY <2>2, <2>3, <2>4
  <2>6. \A y \in H : y <= d + 2 <=> (y <= d \/ y = d + 1)
    BY <1>12, <2>4
  <2>7. set' = Sets(d + 2)
    <3>1. {y \in H : y <= d + 2 /\ Kind(y) \in {"switch", "switch=", "flag="}}
            = {y \in H : y <= d /\ Kind(y) \in {"switch", "switch=", "flag="}}
      BY <2>2, <2>6
    <3>2. QED
      BY <1>10, <2>1, <3>1
  <2>8. values' = Pairs(d + 2)
    <3>1. {y \in H : y <= d + 2 /\ Kind(y) = "flag"}
            = {y \in H : y <= d /\ Kind(y) = "flag"} \union {d + 1}
      BY <2>2, <2>6
    <3>2. <<rest[1], rest[2]>> = <<flagArgs[d + 1], flagArgs[(d + 1) + 1]>>
      BY <2>2
    <3>3. QED
      BY <1>10, <2>1, <3>1, <3>2
  <2>9. \A x \in H : x <= d + 2 => Kind(x) # "unknown"
    BY <1>9, <2>2, <2>6
  <2>10. d + 2 \in 0..n /\ pc' # "run"
    BY <1>3, <2>1, <2>2
  <2>11. QED
    BY <1>11, <2>3, <2>5, <2>7, <2>8, <2>9, <2>10
<1>15. CASE ParseFails
  <2>1. pc' = "usage" /\ UNCHANGED <<rest, set, values>>
    BY <1>15 DEF ParseFails, parsing
  <2>2. d \in 0..n
    OBVIOUS
  <2>3. QED
    BY <1>9, <1>10, <1>11, <2>1, <2>2
<1>16. CASE ParseEnds
  <2>1. /\ Token \in {"end", "--", "word", "-"} /\ pc' = "run" /\ set' = set /\ values' = values
        /\ rest' = IF Token = "--" THEN Tail(rest) ELSE rest
    BY <1>16 DEF ParseEnds
  <2>2. CASE rest = <<>>
    <3>1. d = n /\ rest' = rest
      BY <1>9, <2>1, <2>2
    <3>2. QED
      BY <1>9, <1>10, <1>11, <2>1, <2>2, <3>1
  <2>3. CASE rest # <<>>
    <3>1. d + 1 \in H /\ d + 1 \in 1..n /\ Len(rest) >= 1
      BY <1>9, <1>12, <2>3
    <3>2. Kind(d + 1) = "--" /\ Token = "--"
      BY <1>2, <1>9, <2>1, <2>3, <3>1 DEF Units
    <3>3. d + 1 >= n - 1
      BY <1>2, <1>4, <3>1, <3>2 DEF Units
    <3>4. /\ rest' \in Seq(Places) /\ Len(rest') = n - (d + 1)
          /\ \A j \in 1..Len(rest') : rest'[j] = flagArgs[(d + 1) + j]
      BY <1>9, <2>1, <3>1, <3>2
    <3>5. \A y \in H : y <= d + 1 <=> (y <= d \/ y = d + 1)
      BY <1>12
    <3>6. set' = Sets(d + 1)
      <4>1. {y \in H : y <= d + 1 /\ Kind(y) \in {"switch", "switch=", "flag="}}
              = {y \in H : y <= d /\ Kind(y) \in {"switch", "switch=", "flag="}}
        BY <3>2, <3>5
      <4>2. QED
        BY <1>10, <2>1, <4>1
    <3>7. values' = Pairs(d + 1)
      <4>1. {y \in H : y <= d + 1 /\ Kind(y) = "flag"} = {y \in H : y <= d /\ Kind(y) = "flag"}
        BY <3>2, <3>5
      <4>2. QED
        BY <1>10, <2>1, <4>1
    <3>8. \A x \in H : x <= d + 1 => Kind(x) # "unknown"
      BY <1>9, <3>2, <3>5
    <3>9. d + 1 \in 0..n /\ pc' # "parse"
      BY <2>1, <3>1
    <3>10. QED
      BY <1>11, <3>3, <3>4, <3>6, <3>7, <3>8, <3>9
  <2>4. QED
    BY <2>2, <2>3
<1>17. QED
  BY <1>13, <1>14, <1>15, <1>16

LEMMA SplitInvariant == SplitSpec => []SplitIInv
<1>1. ASSUME SplitIInv, UNCHANGED splitVars PROVE SplitIInv'
  <2>1. UNCHANGED <<args, pc, at, dashed, flagArgs, positionals, rest, set, values>>
    BY <1>1 DEF splitVars
  <2>2. SplitShape' /\ Routed' /\ Dashes'
    BY <1>1, <2>1 DEF SplitIInv, SplitShape, Routed, Dashes, Written, Places
  <2>3. PICK H \in SUBSET (1..Len(flagArgs)) : Units(H) /\ Parsed(H)
    BY <1>1 DEF SplitIInv
  <2>4. \A x : Kind(x)' = Kind(x)
    BY <2>1 DEF Kind, Class
  <2>5. Units(H)'
    BY <2>1, <2>3, <2>4 DEF Units, Written
  <2>6. Parsed(H)'
    <3>1. Done' = Done /\ Written' = Written
      BY <2>1 DEF Done, Written
    <3>2. QED
      BY <2>1, <2>3, <2>4, <3>1 DEF Parsed
  <2>7. QED
    BY <2>1, <2>2, <2>3, <2>5, <2>6 DEF SplitIInv
<1>2. SplitIInv /\ [SplitNext]_splitVars => SplitIInv'
  BY <1>1, StepSplit, StepSentinel, StepParse DEF SplitNext
<1>3. QED
  BY <1>2, InitSplit, PTL DEF SplitSpec

\* What the tokens of a command line that runs have become: each is in the
\* flag stream or a positional, and the stream has been parsed unit by unit.
LEMMA Routes ==
  ASSUME SplitIInv, pc = "run"
  PROVE  \E n \in Nat, H \in SUBSET Nat :
           /\ \A p \in 1..Len(args) : \/ \E x \in 1..n : flagArgs[x] = p
                                      \/ \E y \in DOMAIN positionals : positionals[y] = p
           /\ \A x \in 1..n : flagArgs[x] \in 1..Len(args)
           /\ \A x, y \in 1..n : flagArgs[x] = flagArgs[y] => x = y
           /\ \A x \in 1..n, y \in DOMAIN positionals : flagArgs[x] # positionals[y]
           /\ flagArgs[n + 1] = 0
           /\ H \subseteq 1..(n + 1)
           /\ \A x \in H : Kind(x) = "flag" => x \in 1..n /\ x + 1 \notin H
           /\ \A x \in H : x <= n => Kind(x) \notin {"unknown", "word", "-"}
           /\ \A x \in 1..n : x \notin H =>
                x - 1 \in H /\ Kind(x - 1) = "flag" /\ flagArgs[x] = flagArgs[x - 1] + 1
           /\ \A p \in 1..Len(args) : p \in set <=>
                \E x \in H : flagArgs[x] = p /\ Kind(x) \in {"switch", "switch=", "flag="}
           /\ values = {<<flagArgs[x], flagArgs[x + 1]>> : x \in {y \in H : Kind(y) = "flag"}}
           /\ \A j \in DOMAIN rest : rest[j] = 0
<1> USE DEF SplitIInv, SplitShape
<1>1. PICK n \in Nat : Len(flagArgs) = n + 1
  <2>1. Len(flagArgs) \in Nat /\ Len(flagArgs) >= 1
    BY DEF Routed
  <2>2. Len(flagArgs) - 1 \in Nat /\ Len(flagArgs) = (Len(flagArgs) - 1) + 1
    BY <2>1
  <2>3. QED
    BY <2>2
<1>2. Len(args) \in Nat /\ Written = n /\ at = Len(args) + 1 /\ flagArgs[n + 1] = 0
  BY <1>1 DEF Routed, Written
<1>3. PICK H \in SUBSET (1..(n + 1)) : Units(H) /\ Parsed(H)
  BY <1>1
<1>4. \A p \in 1..Len(args) : \/ \E x \in 1..n : flagArgs[x] = p
                              \/ \E y \in DOMAIN positionals : positionals[y] = p
  BY <1>2 DEF Routed
<1>5. \A x \in 1..n : flagArgs[x] \in 1..Len(args)
  BY <1>2 DEF Routed
<1>6. \A x, y \in 1..n : flagArgs[x] = flagArgs[y] => x = y
  <2> SUFFICES ASSUME NEW x \in 1..n, NEW y \in 1..n, x < y PROVE flagArgs[x] # flagArgs[y]
    OBVIOUS
  <2>1. flagArgs[x] < flagArgs[y]
    BY <1>2 DEF Routed
  <2>2. QED
    BY <1>2, <1>5, <2>1
<1>7. \A x \in H : Kind(x) = "flag" => x \in 1..n /\ x + 1 \notin H
  BY <1>1, <1>3 DEF Units
<1>8. \A x \in 1..n : x \notin H =>
        x - 1 \in H /\ Kind(x - 1) = "flag" /\ flagArgs[x] = flagArgs[x - 1] + 1
  BY <1>1, <1>2, <1>3 DEF Units
<1>9. PICK d \in n..(n + 1) : d = Done
  BY <1>1, <1>2, <1>3 DEF Parsed
<1>10. /\ \A x \in H : x <= d => Kind(x) # "unknown"
       /\ set = {flagArgs[x] : x \in {y \in H : y <= d /\ Kind(y) \in {"switch", "switch=", "flag="}}}
       /\ values = {<<flagArgs[x], flagArgs[x + 1]>> : x \in {y \in H : y <= d /\ Kind(y) = "flag"}}
       /\ \A j \in 1..Len(rest) : rest[j] = flagArgs[d + j]
  BY <1>3, <1>9 DEF Parsed
<1>11. \A x \in H : x <= n => Kind(x) \notin {"unknown", "word", "-"}
  BY <1>3, <1>10 DEF Units
<1>12. \A p \in 1..Len(args) : p \in set <=>
         \E x \in H : flagArgs[x] = p /\ Kind(x) \in {"switch", "switch=", "flag="}
  <2> SUFFICES ASSUME NEW p \in 1..Len(args)
               PROVE  p \in set <=>
                 \E x \in H : flagArgs[x] = p /\ Kind(x) \in {"switch", "switch=", "flag="}
    OBVIOUS
  <2>1. p \in set <=>
          \E x \in H : x <= d /\ flagArgs[x] = p /\ Kind(x) \in {"switch", "switch=", "flag="}
    BY <1>10
  <2>2. \A x \in H : flagArgs[x] = p => x # n + 1
    BY <1>2
  <2>3. \A x \in H : x # n + 1 => x <= d
    OBVIOUS
  <2>4. QED
    BY <2>1, <2>2, <2>3
<1>13. values = {<<flagArgs[x], flagArgs[x + 1]>> : x \in {y \in H : Kind(y) = "flag"}}
  <2>1. {y \in H : y <= d /\ Kind(y) = "flag"} = {y \in H : Kind(y) = "flag"}
    <3>1. \A y \in H : Kind(y) = "flag" => y <= d
      BY <1>7
    <3>2. QED
      BY <3>1
  <2>2. QED
    BY <1>10, <2>1
<1>14. \A j \in DOMAIN rest : rest[j] = 0
  <2>1. Len(rest) = (n + 1) - d /\ DOMAIN rest = 1..Len(rest)
    BY <1>1, <1>9 DEF Done
  <2>2. \A j \in DOMAIN rest : d + j = n + 1
    BY <2>1
  <2>3. QED
    BY <1>2, <1>10, <2>1, <2>2
<1>15. H \in SUBSET Nat
  OBVIOUS
<1>16. \A x \in 1..n, y \in DOMAIN positionals : flagArgs[x] # positionals[y]
  BY <1>2 DEF Routed
<1>17. QED
  BY <1>2, <1>4, <1>5, <1>6, <1>7, <1>8, <1>11, <1>12, <1>13, <1>14, <1>15, <1>16

\* What the split and flag.Parse keep has its type throughout: both streams
\* hold places of the command line, and so do the switches and the values.
THEOREM SplitTypeCorrect == SplitSpec => []SplitTypeOK
<1>1. ASSUME SplitIInv PROVE set \subseteq Places /\ values \subseteq Places \X Places
  <2> USE DEF SplitIInv, SplitShape
  <2>1. PICK H \in SUBSET (1..Len(flagArgs)) : Units(H) /\ Parsed(H)
    BY <1>1
  <2>2. CASE pc = "split"
    BY <2>1, <2>2 DEF Parsed
  <2>3. CASE pc # "split"
    <3>1. \A x \in H : flagArgs[x] \in Places
      BY <1>1
    <3>2. \A x \in H : Kind(x) = "flag" => flagArgs[x + 1] \in Places
      <4>1. \A x \in H : Kind(x) = "flag" => x + 1 \in 1..Len(flagArgs)
        BY <1>1, <2>1, <2>3 DEF Units
      <4>2. QED
        BY <1>1, <4>1
    <3>3. set \subseteq Places
      BY <2>1, <2>3, <3>1 DEF Parsed
    <3>4. values \subseteq Places \X Places
      BY <2>1, <2>3, <3>1, <3>2 DEF Parsed
    <3>5. QED
      BY <3>3, <3>4
  <2>4. QED
    BY <2>2, <2>3
<1>2. SplitIInv => SplitTypeOK
  BY <1>1 DEF SplitIInv, SplitShape, SplitTypeOK
<1>3. QED
  BY <1>2, SplitInvariant, PTL

\* On a command line of any length, a switch is set wherever it stands, unless
\* a "--" comes before it or a flag takes it as its value: the reason for
\* splitFlagsAndPositionals (flags.go:11-32).
THEOREM SwitchesAlwaysHonoured == SplitSpec => []SwitchesHonoured
<1>1. ASSUME SplitIInv, pc = "run", NEW p \in DOMAIN args,
             args[p] \in {"switch", "switch="},
             \A q \in 1..(p - 1) : args[q] # "--",
             p > 1 => args[p - 1] # "flag"
      PROVE  p \in set
  <2>1. Len(args) \in Nat /\ p \in 1..Len(args)
    BY <1>1 DEF SplitIInv, SplitShape
  <2>2. \A y \in DOMAIN positionals : positionals[y] # p
    BY <1>1 DEF SplitIInv, Dashes
  <2>3. PICK n \in Nat, H \in SUBSET Nat :
          /\ \A r \in 1..Len(args) : \/ \E x \in 1..n : flagArgs[x] = r
                                     \/ \E y \in DOMAIN positionals : positionals[y] = r
          /\ \A x \in 1..n : flagArgs[x] \in 1..Len(args)
          /\ H \subseteq 1..(n + 1)
          /\ \A x \in H : Kind(x) = "flag" => x \in 1..n /\ x + 1 \notin H
          /\ \A x \in 1..n : x \notin H =>
               x - 1 \in H /\ Kind(x - 1) = "flag" /\ flagArgs[x] = flagArgs[x - 1] + 1
          /\ \A r \in 1..Len(args) : r \in set <=>
               \E x \in H : flagArgs[x] = r /\ Kind(x) \in {"switch", "switch=", "flag="}
    BY <1>1, Routes
  <2>4. PICK x \in 1..n : flagArgs[x] = p
    BY <2>1, <2>2, <2>3
  <2>5. x \in H
    <3> SUFFICES ASSUME x \notin H PROVE FALSE
      OBVIOUS
    <3>1. x - 1 \in H /\ Kind(x - 1) = "flag" /\ p = flagArgs[x - 1] + 1
      BY <2>3, <2>4
    <3>2. flagArgs[x - 1] \in 1..Len(args)
      BY <2>3, <3>1
    <3>3. p > 1 /\ p - 1 = flagArgs[x - 1]
      BY <2>1, <3>1, <3>2
    <3>4. QED
      BY <1>1, <3>1, <3>2, <3>3 DEF Kind, Class
  <2>6. Kind(x) = args[p]
    BY <2>1, <2>4 DEF Kind, Class
  <2>7. QED
    BY <1>1, <2>1, <2>3, <2>4, <2>5, <2>6
<1>2. SplitIInv => SwitchesHonoured
  BY <1>1 DEF SwitchesHonoured
<1>3. QED
  BY <1>2, SplitInvariant, PTL

\* splitFlagsAndPositionals and flag.Parse together give each token of a
\* command line of any length exactly one meaning, or none to the "--" that
\* ends the flags; and the positionals keep their order.
THEOREM NoTokenEverLost == SplitSpec => []NoTokenLost
<1>1. ASSUME SplitIInv, pc = "run", NEW p \in DOMAIN args
      PROVE  (\E u \in Uses(p) : Uses(p) = {u}) \/ (args[p] = "--" /\ Uses(p) = {})
  <2> DEFINE S == {x \in {p} : x \in set}
             V == {w \in values : p \in {w[1], w[2]}}
             P == {j \in DOMAIN positionals : positionals[j] = p}
  <2>1. Uses(p) = {<<"set", x>> : x \in S} \union {<<"value", v>> : v \in V}
                  \union {<<"positional", l>> : l \in P}
    BY DEF Uses
  <2>2. PICK n \in Nat, H \in SUBSET Nat :
          /\ \A q \in 1..Len(args) : \/ \E x \in 1..n : flagArgs[x] = q
                                     \/ \E y \in DOMAIN positionals : positionals[y] = q
          /\ \A x \in 1..n : flagArgs[x] \in 1..Len(args)
          /\ \A x, y \in 1..n : flagArgs[x] = flagArgs[y] => x = y
          /\ \A x \in 1..n, y \in DOMAIN positionals : flagArgs[x] # positionals[y]
          /\ flagArgs[n + 1] = 0
          /\ H \subseteq 1..(n + 1)
          /\ \A x \in H : Kind(x) = "flag" => x \in 1..n /\ x + 1 \notin H
          /\ \A x \in H : x <= n => Kind(x) \notin {"unknown", "word", "-"}
          /\ \A x \in 1..n : x \notin H =>
               x - 1 \in H /\ Kind(x - 1) = "flag" /\ flagArgs[x] = flagArgs[x - 1] + 1
          /\ \A q \in 1..Len(args) : q \in set <=>
               \E x \in H : flagArgs[x] = q /\ Kind(x) \in {"switch", "switch=", "flag="}
          /\ values = {<<flagArgs[x], flagArgs[x + 1]>> : x \in {y \in H : Kind(y) = "flag"}}
    BY <1>1, Routes
  <2>3. Len(args) \in Nat /\ p \in 1..Len(args) /\ p # 0
    BY <1>1 DEF SplitIInv, SplitShape
  <2>4. \A x \in 1..(n + 1) : flagArgs[x] = p => x \in 1..n
    <3>1. \A x \in 1..(n + 1) : x \in 1..n \/ x = n + 1
      OBVIOUS
    <3>2. QED
      BY <2>2, <2>3, <3>1
  <2>5. \A v \in V : \E x \in H : /\ Kind(x) = "flag" /\ x \in 1..n
                                  /\ v = <<flagArgs[x], flagArgs[x + 1]>>
                                  /\ flagArgs[x] = p \/ flagArgs[x + 1] = p
    BY <2>2
  <2>6. CASE \E x \in 1..n : flagArgs[x] = p
    <3>1. PICK x \in 1..n : flagArgs[x] = p
      BY <2>6
    <3>2. \A y \in 1..(n + 1) : flagArgs[y] = p => y = x
      BY <2>2, <2>4, <3>1
    <3>3. P = {}
      BY <2>2, <3>1
    <3>4. Kind(x) = args[p]
      BY <2>3, <3>1 DEF Kind, Class
    <3>5. p \in set <=> x \in H /\ Kind(x) \in {"switch", "switch=", "flag="}
      BY <2>2, <2>3, <3>1, <3>2
    <3>6. \A v \in V : \/ x \in H /\ Kind(x) = "flag" /\ v = <<flagArgs[x], flagArgs[x + 1]>>
                       \/ x \notin H /\ v = <<flagArgs[x - 1], flagArgs[x]>>
      <4> SUFFICES ASSUME NEW v \in V
                   PROVE  \/ x \in H /\ Kind(x) = "flag" /\ v = <<flagArgs[x], flagArgs[x + 1]>>
                          \/ x \notin H /\ v = <<flagArgs[x - 1], flagArgs[x]>>
        OBVIOUS
      <4>1. PICK z \in H : /\ Kind(z) = "flag" /\ z \in 1..n
                           /\ v = <<flagArgs[z], flagArgs[z + 1]>>
                           /\ flagArgs[z] = p \/ flagArgs[z + 1] = p
        BY <2>5
      <4>2. CASE flagArgs[z] = p
        <5>1. z = x
          BY <3>2, <4>1, <4>2
        <5>2. QED
          BY <4>1, <5>1
      <4>3. CASE flagArgs[z + 1] = p
        <5>1. z + 1 = x /\ z = x - 1
          BY <3>2, <4>1, <4>3
        <5>2. x \notin H
          BY <2>2, <4>1, <5>1
        <5>3. QED
          BY <4>1, <5>1, <5>2
      <4>4. QED
        BY <4>1, <4>2, <4>3
    <3>7. CASE x \in H /\ Kind(x) \in {"switch", "switch=", "flag="}
      <4>1. S = {p} /\ V = {}
        BY <3>5, <3>6, <3>7
      <4>2. Uses(p) = {<<"set", p>>}
        BY <2>1, <3>3, <4>1, Zenon
      <4>3. QED
        BY <4>2
    <3>8. CASE x \in H /\ Kind(x) = "flag"
      <4> DEFINE v == <<flagArgs[x], flagArgs[x + 1]>>
      <4>1. v \in values /\ v[1] = p
        BY <2>2, <3>1, <3>8
      <4>2. S = {} /\ V = {v}
        BY <3>5, <3>6, <3>8, <4>1
      <4>3. Uses(p) = {<<"value", v>>}
        BY <2>1, <3>3, <4>2, Zenon
      <4>4. QED
        BY <4>3
    <3>9. CASE x \in H /\ Kind(x) = "--"
      <4>1. S = {} /\ V = {}
        BY <3>5, <3>6, <3>9
      <4>2. QED
        BY <2>1, <3>3, <3>4, <3>9, <4>1
    <3>10. CASE x \notin H
      <4> DEFINE v == <<flagArgs[x - 1], flagArgs[x]>>
      <4>1. x - 1 \in H /\ Kind(x - 1) = "flag" /\ (x - 1) + 1 = x
        BY <2>2, <3>10
      <4>2. v \in values /\ v[2] = p
        BY <2>2, <3>1, <4>1
      <4>3. S = {} /\ V = {v}
        BY <3>5, <3>6, <3>10, <4>2
      <4>4. Uses(p) = {<<"value", v>>}
        BY <2>1, <3>3, <4>3, Zenon
      <4>5. QED
        BY <4>4
    <3>11. x \in H => Kind(x) \in {"switch", "switch=", "flag=", "flag", "--"}
      <4>1. args[p] \in Classes
        BY <1>1, <2>3 DEF SplitIInv, SplitShape
      <4>2. QED
        BY <2>2, <3>4, <4>1 DEF Classes
    <3>12. QED
      BY <3>7, <3>8, <3>9, <3>10, <3>11
  <2>7. CASE \A x \in 1..n : flagArgs[x] # p
    <3>1. \A x \in 1..(n + 1) : flagArgs[x] # p
      BY <2>4, <2>7
    <3>2. S = {}
      BY <2>2, <2>3, <3>1
    <3>3. V = {}
      <4>1. \A x \in 1..n : x \in 1..(n + 1) /\ x + 1 \in 1..(n + 1)
        OBVIOUS
      <4>2. QED
        BY <2>5, <3>1, <4>1
    <3>4. PICK y \in DOMAIN positionals : positionals[y] = p
      BY <2>2, <2>3, <2>7
    <3>5. P = {y}
      <4>1. ASSUME NEW j \in DOMAIN positionals, positionals[j] = p PROVE j = y
        <5>1. j \in Nat /\ y \in Nat
          BY <1>1 DEF SplitIInv, SplitShape
        <5>2. ~(j < y) /\ ~(y < j)
          BY <1>1, <2>3, <3>4, <4>1 DEF SplitIInv, Routed
        <5>3. QED
          BY <5>1, <5>2
      <4>2. QED
        BY <3>4, <4>1
    <3>6. Uses(p) = {<<"positional", y>>}
      BY <2>1, <3>2, <3>3, <3>5, Zenon
    <3>7. QED
      BY <3>6
  <2>8. QED
    BY <2>6, <2>7
<1>2. ASSUME SplitIInv, pc = "run" PROVE \A j \in DOMAIN rest : rest[j] = 0
  BY <1>2, Routes
<1>3. ASSUME SplitIInv, NEW j \in DOMAIN positionals, NEW l \in DOMAIN positionals, j < l
      PROVE  positionals[j] < positionals[l]
  BY <1>3 DEF SplitIInv, Routed
<1>4. SplitIInv => NoTokenLost
  BY <1>1, <1>2, <1>3 DEF NoTokenLost
<1>5. QED
  BY <1>4, SplitInvariant, PTL
================================================================================
