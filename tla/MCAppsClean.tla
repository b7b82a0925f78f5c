------------------------------ MODULE MCAppsClean ------------------------------
(* One ordinary bundle, an Apple one and one with a homoglyph; rows with     *)
(* equal and different stamps in both orders; one file in tmp and two in     *)
(* Documents, of which the app may create or delete one while a call runs.   *)
EXTENDS AppsClean, TLC

CONSTANTS t1, n1, n2, tdir, ndir, app, apple, cyr

MCFiles == {t1, n1, n2}
MCKids == {tdir, ndir}
MCArea == t1 :> "tmp" @@ n1 :> "docs" @@ n2 :> "docs"
MCKid == t1 :> tdir @@ n1 :> ndir @@ n2 :> ndir

MCRequests ==
  LET Inc == {{}, {"docs"}, {"tmp", "docs"}} IN
  [front : {"cli"}, bundle : {app}, include : Inc, dryRun : BOOLEAN,
   yes : BOOLEAN, typed : {"other"}, ack : {FALSE}]
  \union
  [front : {"mcp"}, bundle : {app}, include : Inc, dryRun : BOOLEAN,
   yes : {FALSE}, typed : {"match", "other", "nonascii"}, ack : BOOLEAN]
  \union
  [front : {"cli", "mcp"}, bundle : {apple, cyr}, include : {{}},
   dryRun : {FALSE}, yes : {TRUE}, typed : {"match"}, ack : {TRUE}]

Row(o, t) == [bundle |-> app, outcome |-> o, at |-> t]
MCCaches ==
  {<<>>, <<Row("vended", 0)>>, <<Row("refused", 1)>>,
   <<Row("vended", 0), Row("refused", 1)>>, <<Row("refused", 1), Row("vended", 0)>>,
   <<Row("refused", 0), Row("vended", 1)>>, <<Row("vended", 1), Row("refused", 0)>>,
   <<Row("vended", 1), Row("error", 1)>>}
  \union {<<[bundle |-> b, outcome |-> "vended", at |-> 0]>> : b \in {apple, cyr}}
===============================================================================
