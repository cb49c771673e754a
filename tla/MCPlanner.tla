----------------------------- MODULE MCPlanner -----------------------------
(***************************************************************************)
(* Constants of the TLC runs of Planner.                                   *)
(***************************************************************************)
EXTENDS Planner, TLC

CONSTANTS r1, r2

Row1 == [cost |-> 1, soc |-> 60]
Row2 == [cost |-> 2, soc |-> 30]

\* The same hour charges in one plan and runs on the battery in the other.
MCPlans == {<<Row1, Row2>>, <<Row2, Row1>>}

MCBudget     == [run |-> 2, init |-> 0, fault |-> 1]
MCFairBudget == [run |-> 1, init |-> 1, fault |-> 1]

MCSymmetry == Permutations(Runners)
=============================================================================
