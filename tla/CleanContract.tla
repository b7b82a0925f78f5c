----------------------------- MODULE CleanContract -----------------------------
(***************************************************************************)
(* What `apps clean` promises the owner of the phone, whichever front end  *)
(* is used: the files of the app change by the app's own doing, or by the  *)
(* cleaner after consent and inside the scope that the consent was for.    *)
(***************************************************************************)
CONSTANT Files

VARIABLES tree,     \* files and directories of the container
          consent,  \* everything the owner has to confirm is confirmed
          scope     \* files the cleaner may delete now

vars == <<tree, consent, scope>>

Init == consent \in BOOLEAN /\ scope = {}

AppStep(f) ==
  /\ tree' \in {tree \union {f}, tree \ {f}}
  /\ UNCHANGED <<consent, scope>>

\* The cleaner starts to delete: never without consent.
Grant(S) ==
  /\ scope = {} /\ consent'
  /\ scope' = S
  /\ UNCHANGED tree

Delete(X) ==
  /\ X \subseteq scope
  /\ tree' = tree \ X
  /\ UNCHANGED <<consent, scope>>

Close ==
  /\ scope' = {}
  /\ UNCHANGED <<tree, consent>>

Next ==
  \/ \E f \in Files : AppStep(f)
  \/ \E S \in SUBSET Files : Grant(S)
  \/ \E X \in SUBSET scope : Delete(X)
  \/ Close

Spec == Init /\ [][Next]_vars
===============================================================================
