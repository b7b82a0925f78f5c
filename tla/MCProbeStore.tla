----------------------------- MODULE MCProbeStore -----------------------------
(* Two callers, two devices and three saves: two may overlap on one device   *)
(* while the third has been published, and one fault may strike any of them. *)
(* Callers, devices, documents and files are interchangeable.                *)
EXTENDS ProbeStore, TLC

Symmetry ==
  UNION {Permutations(Procs), Permutations(Udids),
         Permutations(Docs), Permutations(Inodes)}
===============================================================================
