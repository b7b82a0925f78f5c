--------------------------- MODULE MCRecommendations ---------------------------
(* Few apps of every size around the thresholds, one of them Apple's, with   *)
(* rows of one bundle in every order; and more vended and refused apps than  *)
(* the two quotas hold.                                                      *)
EXTENDS Recommendations, SequencesExt

Row(b, o, t) == [bundle |-> b, outcome |-> o, at |-> t]

MCRows ==
  {<<>>, <<Row(1, "vended", 1)>>, <<Row(1, "refused", 1), Row(2, "vended", 1)>>}
  \union {<<Row(1, o, t), Row(2, "vended", 2), Row(1, p, u)>> :
            o, p \in {"vended", "refused"}, t, u \in {1, 2}}

Three(sizes) ==
  {[i \in 1..3 |-> [bundle |-> order[i], size |-> s[order[i]]]] :
     order \in {<<1, 2, 3>>, <<3, 2, 1>>}, s \in [1..3 -> sizes]}

Around ==
  [apps : Three({0, 49, 50, 499, 500, 2047, 2048}), rows : {<<>>, <<Row(1, "vended", 1)>>},
   crash : {4, 5}, free : {9, 10, 25}, total : {0, 100}, limit : {0}, min : {0}]

Probed ==
  [apps : Three({49, 50, 500}), rows : MCRows,
   crash : {5}, free : {9}, total : {100}, limit : {0}, min : {0}]

Crowd ==
  [apps : {[i \in 1..7 |-> [bundle |-> i + 3, size |-> s[i]]] : s \in [1..7 -> {60, 600}]},
   rows : {[i \in 1..Cardinality(v) |-> Row(SetToSeq(v)[i], "vended", 1)] :
             v \in SUBSET (4..10)},
   crash : {0}, free : {9}, total : {100}, limit : {0}, min : {0}]

Cut ==
  [apps : {[i \in 1..4 |-> [bundle |-> i, size |-> s[i]]] : s \in [1..4 -> 0..3]},
   rows : {<<>>}, crash : {0}, free : {9}, total : {100}, limit : -1..4, min : -1..3]

MCInputs == Around \union Probed \union Crowd \union Cut
===============================================================================
