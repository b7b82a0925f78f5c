----------------------------- MODULE MCPrompter -----------------------------
(* Up to two files in the way and every stdin of up to four symbols, typed   *)
(* or piped: two answers with their ends of line, all their torn forms, and  *)
(* a Ctrl-D in every place.                                                  *)
EXTENDS Prompter
===============================================================================
