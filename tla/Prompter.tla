------------------------------ MODULE Prompter ------------------------------
(***************************************************************************)
(* The stdin prompter (stdinPrompter, prompt.go) under the longest row of  *)
(* prompts that the program asks: the pre-scan of crashlogs pull, one      *)
(* Confirm for each local file in the way.  Every prompt starts a reader   *)
(* goroutine with a bufio.Reader of its own over the one stdin: what it    *)
(* reads past its line is lost with it.  Stdin is an immutable sequence of *)
(* symbols and a position; a terminal hands over at most one line for each *)
(* read(2), a pipe whatever is in it.                                      *)
(***************************************************************************)
EXTENDS Integers, FiniteSets

CONSTANTS
  MaxPrompts, \* bound on the files in the way
  MaxInput    \* bound on the symbols that stdin ever holds

ASSUME BoundsAssumption == MaxPrompts \in Nat /\ MaxInput \in Nat

\* "y": an answer that reads as yes; "x": any other text; "nl": the end of a
\* line; "eof": a Ctrl-D on a terminal.  A pipe has its end of file last.
Symbols == {"y", "x", "nl", "eof"}

VARIABLES
  tty,       \* stdin is a terminal
  input,     \* what stdin will ever deliver
  pos,       \* how many symbols the readers have taken off stdin
  conflicts, \* files in the way: prompts to be asked
  k,         \* prompts asked so far
  reader,    \* reader[j]: the goroutine of prompt j
  ch,        \* ch[j]: what is in its channel, which holds one result
  text,      \* text[j]: the positions of the line that reader j has read
  answer,    \* answer[j]: what prompt j returned to its caller
  cancelled, \* the context is done
  outcome    \* where the command is

vars == <<tty, input, pos, conflicts, k, reader, ch, text,
          answer, cancelled, outcome>>
script == <<tty, input, conflicts>>

Prompts == 1..MaxPrompts

TypeOK ==
  /\ tty \in BOOLEAN
  /\ pos \in 0..Cardinality(DOMAIN input)
  /\ conflicts \in 0..MaxPrompts
  /\ k \in 0..conflicts
  /\ reader \in [Prompts -> {"none", "reading", "line", "error", "done"}]
  /\ ch \in [Prompts -> {"empty", "line", "error"}]
  /\ text \in [Prompts -> SUBSET (1..MaxInput)]
  /\ answer \in [Prompts -> {"none", "yes", "no", "error"}]
  /\ cancelled \in BOOLEAN
  /\ outcome \in {"scan", "declined", "pull", "error"}

Inputs == UNION {[1..n -> Symbols] : n \in 0..MaxInput}

Init ==
  /\ tty \in BOOLEAN
  /\ input \in Inputs
  /\ ~tty => \A i \in DOMAIN input : input[i] # "eof"
  /\ pos = 0
  /\ conflicts \in 0..MaxPrompts
  /\ k = 0
  /\ reader = [j \in Prompts |-> "none"]
  /\ ch = [j \in Prompts |-> "empty"]
  /\ text = [j \in Prompts |-> {}]
  /\ answer = [j \in Prompts |-> "none"]
  /\ cancelled = FALSE
  /\ outcome = "scan"

-------------------------------------------------------------------------------
(* The reader goroutine *)

\* What is left on stdin, and the first end of a line or of file in it.
Left == (pos + 1)..Cardinality(DOMAIN input)
IsFirst(i, s) == input[i] \in s /\ \A h \in Left : h < i => input[h] \notin s

\* What one read(2) may return, up to a position: from a pipe any part of
\* what is left, from a terminal one line, or the text before a Ctrl-D.
Chunk(n) ==
  /\ n \in Left
  /\ tty => IsFirst(n, {"nl", "eof"}) /\ n # pos + (IF input[n] = "eof" THEN 1 ELSE 0)

\* Nothing more comes: the pipe is closed, or a Ctrl-D on an empty line.
AtEof == IF tty THEN pos + 1 \in Left /\ input[pos + 1] = "eof" ELSE Left = {}

Settle(j, s) == reader' = [reader EXCEPT ![j] = s]

\* Mutation: one Read instead of ReadString, whatever it returned.
OneReadMut(j) ==
  /\ reader[j] = "reading"
  /\ \E n \in Left :
       /\ Chunk(n)
       /\ text' = [text EXCEPT ![j] = @ \union ((pos + 1)..n)]
       /\ Settle(j, "line")
       /\ pos' = n
  /\ UNCHANGED <<script, k, ch, answer, cancelled, outcome>>

\* One Read of the bufio.Reader: ReadString goes on until it has a newline;
\* what the chunk holds beyond it stays in this reader's buffer for ever.
Read(j) ==
  /\ reader[j] = "reading"
  /\ \E n \in Left :
       /\ Chunk(n)
       /\ LET ends == {i \in (pos + 1)..n : input[i] = "nl"} IN
          /\ text' = [text EXCEPT ![j] = @ \union
                       {i \in (pos + 1)..n : \A h \in ends : i <= h}]
          /\ IF ends = {} THEN UNCHANGED reader ELSE Settle(j, "line")
       /\ pos' = n
  /\ UNCHANGED <<script, k, ch, answer, cancelled, outcome>>

\* ReadString returns what it has with io.EOF.
ReadEof(j) ==
  /\ reader[j] = "reading"
  /\ AtEof
  /\ pos' = IF tty THEN pos + 1 ELSE pos
  /\ Settle(j, "line")
  /\ UNCHANGED <<script, k, ch, text, answer, cancelled, outcome>>

\* A read error that is not the end of file.
ReadFails(j) ==
  /\ reader[j] = "reading"
  /\ Settle(j, "error")
  /\ UNCHANGED <<script, pos, k, ch, text, answer, cancelled, outcome>>

\* The channel has room for the one result, wanted or not.
Post(j) ==
  /\ reader[j] \in {"line", "error"}
  /\ ch' = [ch EXCEPT ![j] = reader[j]]
  /\ Settle(j, "done")
  /\ UNCHANGED <<script, pos, k, text, answer, cancelled, outcome>>

-------------------------------------------------------------------------------
(* Confirm, and the command that asks *)

Waiting(j) == j \in 1..k /\ answer[j] = "none"
Return(j, a) == answer' = [answer EXCEPT ![j] = a]

\* Mutation: the pre-scan goes on to the next file after a prompt error.
AskOnMut ==
  /\ outcome \in {"scan", "error"} /\ k < conflicts
  /\ ~\E j \in Prompts : Waiting(j)
  /\ k' = k + 1
  /\ Settle(k + 1, "reading")
  /\ outcome' = "scan"
  /\ UNCHANGED <<script, pos, ch, text, answer, cancelled>>

\* The question is printed and the reader started.
Ask ==
  /\ outcome = "scan" /\ k < conflicts
  /\ ~\E j \in Prompts : Waiting(j)
  /\ k' = k + 1
  /\ Settle(k + 1, "reading")
  /\ UNCHANGED <<script, pos, ch, text, answer, cancelled, outcome>>

\* The line without its end.
TextOf(j) == {i \in text[j] : input[i] \in {"y", "x"}}

\* Mutation: default yes, only other text declines.
DefaultYesMut(j) == \A i \in TextOf(j) : TextOf(j) = {i} /\ input[i] = "y"

\* Trimmed and in lower case it is "y" or "yes".
SaysYes(j) == \E i \in TextOf(j) : TextOf(j) = {i} /\ input[i] = "y"

\* The select takes the result.  A "no" does not stop the scan.
Answer(j) ==
  /\ Waiting(j) /\ ch[j] # "empty"
  /\ IF ch[j] = "error"
       THEN Return(j, "error") /\ outcome' = "error"
       ELSE Return(j, IF SaysYes(j) THEN "yes" ELSE "no") /\ UNCHANGED outcome
  /\ UNCHANGED <<script, pos, k, reader, ch, text, cancelled>>

\* Mutation: a plain receive, the context is not in the select.
DeafMut(j) ==
  /\ Waiting(j) /\ cancelled /\ ch[j] # "empty"
  /\ Return(j, "error")
  /\ outcome' = "error"
  /\ UNCHANGED <<script, pos, k, reader, ch, text, cancelled>>

\* The select takes ctx.Done, possibly with a result waiting; the reader is
\* left to itself.  The command reports the error and returns.
GiveUp(j) ==
  /\ Waiting(j) /\ cancelled
  /\ Return(j, "error")
  /\ outcome' = "error"
  /\ UNCHANGED <<script, pos, k, reader, ch, text, cancelled>>

\* One "no" anywhere keeps the bulk pull from starting.
ScanEnds ==
  /\ outcome = "scan" /\ k = conflicts
  /\ ~\E j \in Prompts : Waiting(j)
  /\ outcome' = IF \E j \in Prompts : answer[j] = "no" THEN "declined" ELSE "pull"
  /\ UNCHANGED <<script, pos, k, reader, ch, text, answer, cancelled>>

\* Ctrl-C.
Cancel ==
  /\ ~cancelled
  /\ cancelled' = TRUE
  /\ UNCHANGED <<script, pos, k, reader, ch, text, answer, outcome>>

Reader(j) == Read(j) \/ ReadEof(j) \/ ReadFails(j) \/ Post(j)
Caller == Ask \/ ScanEnds \/ (\E j \in Prompts : Answer(j) \/ GiveUp(j))

Next == Caller \/ Cancel \/ \E j \in Prompts : Reader(j)

\* The command's own steps run; nobody has to type, and a reader that waits may
\* wait for ever.
Fairness == WF_vars(Caller)

Spec == Init /\ [][Next]_vars /\ Fairness

-------------------------------------------------------------------------------
(* Properties *)

\* The bulk pull starts only if stdin held a "yes" of its own for every file
\* in the way, one after the other, wherever the reads cut the input and
\* whatever was lost between two readers: silence, an end of file or one
\* answer for two files never overwrites ("Default-no - never default-yes",
\* prompt.go:18).
PullHasItsYeses ==
  outcome = "pull" =>
    \A j \in 1..conflicts :
      \E i \in text[j] :
        /\ input[i] = "y"
        /\ \A h \in 1..(j - 1) : \A a \in text[h] : a < i

\* The lines of stdin as the user sees them: a Ctrl-D ends one only if it is
\* empty (or just flushed by another Ctrl-D).
EndsLine(i) ==
  \/ input[i] = "nl"
  \/ input[i] = "eof" /\ (i = 1 \/ input[i - 1] \in {"nl", "eof"})
LineOf(i) == 1 + Cardinality({h \in 1..(i - 1) : EndsLine(h)})

\* Prompt j has been answered with line j, all of it and nothing else.
GetsItsLine(j) ==
  \A i \in DOMAIN input : input[i] # "eof" => (i \in text[j] <=> LineOf(i) = j)

Answered == {j \in Prompts : answer[j] \in {"yes", "no"}}

\* On a terminal no line is lost or cut between two prompts, in spite of the
\* separate buffers, and no prompt is answered before its line has ended.
TerminalLinePerPrompt ==
  tty => \A j \in Answered :
    /\ GetsItsLine(j)
    /\ \E i \in DOMAIN input : EndsLine(i) /\ LineOf(i) = j

\* At most one reader waits on stdin at any time, and it is the last one: a
\* prompt that was given up leaves its reader behind, but the command asks
\* nothing more ("we accept the leak", prompt.go:56-62).
OneReader ==
  \A j \in Prompts : reader[j] = "reading" =>
    j = k /\ (answer[j] = "none" \/ outcome = "error")

\* Ctrl-C ends the row of prompts although no line ever comes.
CancelReturns == cancelled ~> outcome # "scan"

\* Confirm "reads one line from r" (prompt.go:50), whatever r is: the next
\* prompt goes on with the next line.
LinePerPrompt == \A j \in Answered : GetsItsLine(j)
===============================================================================
