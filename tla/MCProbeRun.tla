------------------------------ MODULE MCProbeRun ------------------------------
(* Up to two targets over two bundles: a bundle probed twice, one that is    *)
(* not installed, and a late answer of the first probe that arrives while    *)
(* the second is in flight or after the run has saved.  The failures have    *)
(* every case of classifyErr, every overlap that its comments name, and      *)
(* wordings that do not fit their cause.                                     *)
EXTENDS ProbeRun

MCFailures ==
  [cause : {"missing"}, text : {{"notInstalled"}, {"notInstalled", "refused"}, {"refused"}}]
  \union [cause : {"transport"}, text : {{}, {"transport"}, {"transport", "refused"}, {"refused"}}]
  \union [cause : {"policy"}, text : {{"lookup"}, {"afc"}, {"refused"}}]
===============================================================================
