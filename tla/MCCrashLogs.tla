------------------------------ MODULE MCCrashLogs ------------------------------
(* One call of any kind over two reports, or two calls at the same time over *)
(* one.  A report may be on the device or be written later, and on the host  *)
(* already or not; the patterns name all reports, one and none.  Calls are   *)
(* interchangeable.                                                          *)
EXTENDS CrashLogs, TLC

CONSTANTS r1, r2, star, one, none

MCReports == {r1, r2}
MCMatch == star :> MCReports @@ one :> {r1} @@ none :> {}

Good == [abs |-> TRUE, inside |-> TRUE, sensitive |-> FALSE, entry |-> "dir"]
Bad == {[Good EXCEPT !.abs = FALSE], [Good EXCEPT !.inside = FALSE],
        [Good EXCEPT !.sensitive = TRUE], [Good EXCEPT !.entry = "link"]}

Cmd(f, k, gs, ss, ds, os) ==
  [front : {f}, kind : {k}, pattern : gs, sure : ss, dry : ds, out : os]

\* The patterns and flags that change what a call does.
MCCommands ==
  UNION {Cmd("cli", "list", {star}, {"no"}, {FALSE}, {Good}),
         Cmd("cli", "pull", {star}, {"no", "yes"}, {FALSE}, {Good}),
         Cmd("cli", "pull", {one, none}, {"no"}, {FALSE}, {Good}),
         Cmd("cli", "clean", {star, none}, {"no", "yes"}, {FALSE}, {Good}),
         Cmd("cli", "clean", {one}, {"no"}, BOOLEAN, {Good}),
         Cmd("mcp", "pull", {star}, {"no"}, {FALSE}, {Good} \union Bad),
         Cmd("mcp", "clean", {star, one}, {"no", "yes", "quoted"}, {FALSE}, {Good})}
===============================================================================
