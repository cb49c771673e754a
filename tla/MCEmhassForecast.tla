-------------------------- MODULE MCEmhassForecast --------------------------
(***************************************************************************)
(* Constants of the TLC runs of EmhassForecast.                            *)
(***************************************************************************)
EXTENDS EmhassForecast

CONSTANTS m1, f1, a1, g1

Row(time, mode) == [time |-> time, mode |-> mode]

NearRow == <<Row(3, "load"), Row(4, "battery"), Row(6, "load"), Row(7, "grid")>>
FarRow  == <<Row(8, "load"), Row(9, "battery")>>
LastRow == <<Row(9, "load")>>
NoRow   == <<Row(9, "battery")>>

\* the row that ends the search is near, far, the last one, or not there
MCPlans     == {NearRow}
MCEndsPlans == {NearRow, FarRow, LastRow, NoRow}

\* one hour, hours missing before a late one, no price at all
MCTariffs     == {<<3>>, <<1, 7>>}
MCEndsTariffs == {<<>>, <<3>>, <<1, 2, 7>>}

MCKind == [r \in Runs |-> CASE r = m1 -> "mpc" [] r = f1 -> "forecast" [] r = a1 -> "action" [] r = g1 -> "config"]
=============================================================================
