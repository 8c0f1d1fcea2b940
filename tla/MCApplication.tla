---------------------------- MODULE MCApplication ----------------------------
(***************************************************************************)
(* File transfer, map-reduce jobs and the solvers of their plans, each in  *)
(* an instance of its own: a behaviour chooses one part and runs it, the   *)
(* others stay in their initial states.                                    *)
(***************************************************************************)
EXTENDS Cfdp, MCSpaceComp, MCAssignment

VARIABLE part

ApplicationInit ==
    /\ part \in {"cfdp", "job", "assignment"}
    /\ part # "cfdp" => peer = "none" /\ net = {}
    /\ part # "assignment" => solver = "Hungarian" /\ cost = [i \in 1..3 |-> <<0, 0, 0>>]
    /\ Init /\ JobInit /\ AssignmentInit

\* bound: reads of one chunk beside one another are left to the sender with a foreign receiver
NoCopies == (\A r \in Reading : reads[r] = 1) /\ (\A id \in Summing : calcs[id] = 1)

RunCfdp ==
    /\ part = "cfdp" /\ Next
    /\ peer = "none" => NoCopies'
    /\ UNCHANGED <<part, job_vars, assignment_vars>>

RunJob ==
    /\ part = "job" /\ JobNext
    /\ UNCHANGED <<part, vars, assignment_vars>>

RunAssignment ==
    /\ part = "assignment" /\ AssignmentNext
    /\ UNCHANGED <<part, vars, job_vars>>

ApplicationNext == RunCfdp \/ RunJob \/ RunAssignment

ApplicationSpec ==
    ApplicationInit /\ [][ApplicationNext]_<<part, vars, job_vars, assignment_vars>>
=============================================================================
