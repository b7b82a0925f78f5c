--------------------------- MODULE MCProbeLifecycle ---------------------------
(* Two bundles; the run has TTLs of one and two units: a row is young, aged  *)
(* for the tool only, and aged for both within the time explored, also       *)
(* after a slow probe and with the clock set back.                           *)
EXTENDS ProbeLifecycle, TLC

MCSymmetry == Permutations(Bundles) \union Permutations(Runs)
===============================================================================
