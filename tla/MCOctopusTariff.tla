-------------------------- MODULE MCOctopusTariff --------------------------
(***************************************************************************)
(* OctopusTariff with steps of two units, so that a period or a session    *)
(* may begin and end inside a step, and a clock an hour from its label.    *)
(***************************************************************************)
EXTENDS OctopusTariff, TLC

CONSTANTS c1, c2

Rate(from, to, rate) == [from |-> from, to |-> to, rate |-> rate]

\* one rate, a change inside a step, prices that end early, a period without an end
MCAnswers ==
  {{Rate(1, 14, 5)}, {Rate(1, 7, 5), Rate(7, 14, 9)}, {Rate(1, 8, 5)}, {Rate(1, 6, 5), Rate(6, 0, 9)}}

Session(type, start, end) == [type |-> type, start |-> start + 1, end |-> end + 1]
Happy(start, end)         == Session("WEEKEND_HAPPY_HOUR", start, end)
TurnUp(start, end)        == Session("TURN_UP", start, end)

\* running already or another type, across the change of rate, two that overlap
MCEvents ==
  {{Happy(3, 6), Session("SAVING_SESSION", 6, 8)}, {TurnUp(6, 9)}, {Happy(5, 8), TurnUp(7, 9)}}

MCSymmetry == Permutations(Callers)
=============================================================================
