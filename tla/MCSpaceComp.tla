----------------------------- MODULE MCSpaceComp -----------------------------
(***************************************************************************)
(* The plans of SpaceComp for TLC.                                         *)
(***************************************************************************)
EXTENDS SpaceComp

\* two jobs that share a mapper and a reducer; satellites with several roles
MCPlan ==
    << [coordinator |-> "r", collectors |-> <<"c1">>, mappers |-> <<"m">>,
        assignment |-> <<1>>, reducer |-> "r"],
       [coordinator |-> "c1", collectors |-> <<"c2">>, mappers |-> <<"m">>,
        assignment |-> <<1>>, reducer |-> "r"] >>

\* the plan of an area of two orbits and two satellites each, for ascending satellites only:
\* one of the orbits collects, all four map, and the reducer is the center, a mapper too
MCCenterPlan ==
    << [coordinator |-> "r", collectors |-> <<"p1", "p3">>,
        mappers |-> <<"p1", "p2", "p3", "p4">>, assignment |-> <<1, 2>>, reducer |-> "p2"] >>
=============================================================================
