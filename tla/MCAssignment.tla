---------------------------- MODULE MCAssignment ----------------------------
(***************************************************************************)
(* The cost matrices of Assignment for TLC.                                *)
(***************************************************************************)
EXTENDS Assignment

MCTriples == [1..3 -> {0, 1, 3}]

\* every matrix over three costs, up to the order of its columns
MCMatrices ==
    {<<r1, r2, r3>> : r1 \in {r \in MCTriples : r[1] <= r[2] /\ r[2] <= r[3]},
                      r2 \in MCTriples, r3 \in MCTriples}
=============================================================================
