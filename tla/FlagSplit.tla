------------------------------ MODULE FlagSplit ------------------------------
(***************************************************************************)
(* How a command line becomes flags and positionals                        *)
(* (splitFlagsAndPositionals, flags.go) and what flag.Parse then makes of  *)
(* the flag stream.  A token is known by its class, and by its place on    *)
(* the command line; the sentinel that the split appends has place 0.      *)
(***************************************************************************)
EXTENDS Integers, Sequences

CONSTANT MaxArgs \* bound on the tokens of a command line

ASSUME MaxArgsAssumption == MaxArgs \in Nat

\* A declared switch (--dry-run), the same with a value (--dry-run=false), a
\* declared flag that takes one (--device), with it attached (--device=X), an
\* undeclared or malformed flag, a word, and the two special tokens.
Classes == {"switch", "switch=", "flag", "flag=", "unknown", "word", "-", "--"}

VARIABLES
  args,        \* the command line
  pc,          \* "split", "parse", then "run" or "usage"
  at,          \* the next token to look at
  dashed,      \* afterDoubleDash
  flagArgs,    \* the flag stream, as places
  positionals, \* as places
  rest,        \* what flag.Parse has not consumed
  set,         \* switches that flag.Parse has set
  values       \* pairs of a flag and its value

splitVars == <<args, pc, at, dashed, flagArgs, positionals, rest, set, values>>
splitting == <<at, dashed, flagArgs, positionals>>
parsing == <<rest, set, values>>

Places == 0..Len(args)
Class(p) == IF p = 0 THEN "--" ELSE args[p]

SplitTypeOK ==
  /\ args \in Seq(Classes) /\ Len(args) <= MaxArgs
  /\ pc \in {"split", "parse", "run", "usage"}
  /\ at \in 1..(Len(args) + 1)
  /\ dashed \in BOOLEAN
  /\ flagArgs \in Seq(Places) /\ positionals \in Seq(Places \ {0})
  /\ rest \in Seq(Places)
  /\ set \subseteq Places /\ values \subseteq Places \X Places

SplitInit ==
  /\ args \in UNION {[1..n -> Classes] : n \in 0..MaxArgs}
  /\ pc = "split"
  /\ at = 1 /\ dashed = FALSE
  /\ flagArgs = <<>> /\ positionals = <<>>
  /\ rest = <<>> /\ set = {} /\ values = {}

-------------------------------------------------------------------------------
(* splitFlagsAndPositionals: one action for each way through its loop *)

Split == pc = "split" /\ at <= Len(args)

\* Mutation: a switch takes the next token too.
GreedyMut(p) == args[p] \in {"switch", "flag"} /\ p < Len(args)

\* A declared flag in the form --name VALUE consumes the next token.
TakesNext(p) == args[p] = "flag" /\ p < Len(args)

Positional ==
  /\ Split
  /\ dashed \/ args[at] \in {"word", "-"}
  /\ positionals' = Append(positionals, at)
  /\ at' = at + 1
  /\ UNCHANGED <<args, pc, dashed, flagArgs, parsing>>

DoubleDash ==
  /\ Split /\ ~dashed /\ args[at] = "--"
  /\ flagArgs' = Append(flagArgs, at)
  /\ dashed' = TRUE
  /\ at' = at + 1
  /\ UNCHANGED <<args, pc, positionals, parsing>>

\* An unknown flag goes to flag.Parse, which rejects it.
FlagToken ==
  /\ Split /\ ~dashed
  /\ args[at] \notin {"word", "-", "--"}
  /\ IF TakesNext(at)
       THEN flagArgs' = flagArgs \o <<at, at + 1>> /\ at' = at + 2
       ELSE flagArgs' = Append(flagArgs, at) /\ at' = at + 1
  /\ UNCHANGED <<args, pc, dashed, positionals, parsing>>

\* Mutation: the command line goes to flag.Parse as it is.
PlainParseMut ==
  /\ pc = "split" /\ at = 1
  /\ flagArgs' = [p \in 1..Len(args) |-> p]
  /\ rest' = flagArgs'
  /\ pc' = "parse"
  /\ UNCHANGED <<args, at, dashed, positionals, set, values>>

Sentinel ==
  /\ pc = "split" /\ at > Len(args)
  /\ flagArgs' = Append(flagArgs, 0)
  /\ rest' = flagArgs'
  /\ pc' = "parse"
  /\ UNCHANGED <<args, at, dashed, positionals, set, values>>

-------------------------------------------------------------------------------
(* flag.Parse *)

\* The class of the next token of the stream.
Token == IF rest = <<>> THEN "end" ELSE Class(Head(rest))

\* A switch, with or without "=", and a flag with its value attached.
ParseOne ==
  /\ pc = "parse" /\ Token \in {"switch", "switch=", "flag="}
  /\ set' = set \union {Head(rest)}
  /\ rest' = Tail(rest)
  /\ UNCHANGED <<args, pc, splitting, values>>

\* A flag takes the next token of the stream as its value, whatever it is.
ParseValue ==
  /\ pc = "parse" /\ Len(rest) >= 2 /\ Token = "flag"
  /\ values' = values \union {<<rest[1], rest[2]>>}
  /\ rest' = Tail(Tail(rest))
  /\ UNCHANGED <<args, pc, splitting, set>>

\* "flag provided but not defined", "bad flag syntax", "invalid value", and
\* "flag needs an argument" for one that is the last of the stream.
ParseFails ==
  /\ pc = "parse"
  /\ Token \in {"unknown", "switch=", "flag=", "flag"}
  /\ pc' = "usage"
  /\ UNCHANGED <<args, splitting, parsing>>

\* "--" ends the flags and is consumed; a word or "-" ends them and is not.
ParseEnds ==
  /\ pc = "parse"
  /\ Token \in {"end", "--", "word", "-"}
  /\ rest' = IF Token = "--" THEN Tail(rest) ELSE rest
  /\ pc' = "run"
  /\ UNCHANGED <<args, splitting, set, values>>

SplitNext ==
  \/ Positional \/ DoubleDash \/ FlagToken \/ Sentinel
  \/ ParseOne \/ ParseValue \/ ParseFails \/ ParseEnds

SplitSpec == SplitInit /\ [][SplitNext]_splitVars

-------------------------------------------------------------------------------
(* Properties *)

\* A switch is never silently ignored, wherever it stands: "SILENTLY IGNORES
\* IT - proceeding to a real deletion" (flags.go:15-16) is what the split is
\* for.  Only "--" before it, or a flag that takes it as its value, is reason
\* not to set it.
SwitchesHonoured ==
  pc = "run" => \A p \in DOMAIN args :
    (/\ args[p] \in {"switch", "switch="}
     /\ \A q \in 1..(p - 1) : args[q] # "--"
     /\ p > 1 => args[p - 1] # "flag") => p \in set

\* The users of a token.
Uses(p) ==
  {<<"set", x>> : x \in {p} \intersect set}
  \union {<<"value", v>> : v \in {w \in values : p \in {w[1], w[2]}}}
  \union {<<"positional", k>> : k \in {j \in DOMAIN positionals : positionals[j] = p}}

\* When a command runs, each of its tokens has exactly one meaning: none is
\* dropped and none counts twice.  The one exception is the "--" that ends the
\* flags; only sentinels are left for fs.Args(), which nobody reads; and the
\* positionals are in the order of the command line.
NoTokenLost ==
  pc = "run" =>
    /\ \A p \in DOMAIN args :
         \/ \E u \in Uses(p) : Uses(p) = {u}
         \/ (args[p] = "--" /\ Uses(p) = {})
    /\ \A j \in DOMAIN rest : rest[j] = 0
    /\ \A j, k \in DOMAIN positionals : j < k => positionals[j] < positionals[k]

\* "The returned flagArgs ends with `--` so fs.Parse won't try to consume any
\* trailing token as a flag" (flags.go:31-32), and the sentinel "is cheap"
\* (flags.go:87-89): it never becomes anything else, so the value of a flag is
\* a token that the user wrote.
ValuesAreWritten == \A v \in values : v[2] # 0
===============================================================================
