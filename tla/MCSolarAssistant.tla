-------------------------- MODULE MCSolarAssistant --------------------------
(***************************************************************************)
(* SolarAssistant on small instances.  Three levels are enough for a       *)
(* battery below, at and above a target; 5 exercises the clamp.            *)
(***************************************************************************)
EXTENDS SolarAssistant, FiniteSets, TLC

CONSTANTS w1, w2, cb

Charge(s)    == [charge |-> "Enabled",  mode |-> "Battery first", soc |-> s]
Discharge(s) == [charge |-> "Disabled", mode |-> "Load first",    soc |-> s]
Unknown      == [charge |-> "Enabled",  mode |-> "",              soc |-> 10]

MCSoc   == {5, 50, 90}
MCCalls == AllCalls

Resting(s)   == [soc |-> s, stop |-> 10, mode |-> "Load first", charge |-> "Disabled"]
ChargingTo(s, stop) ==
  [soc |-> s, stop |-> stop, mode |-> "Battery first", charge |-> "Enabled"]

OneWorker  == {w1}
TwoWorkers == {w1, w2}
Symmetry   == Permutations(TwoWorkers)

Spending(p, b, l, e, c) ==
  [process |-> p, battery |-> b, loss |-> l, error |-> e, crash |-> c]

\* retries: two attempts of one command, one call failing
RetryCommands == {Charge(50)}
RetryDevices  == {Resting(50)}
RetryBudget   == Spending(2, 0, 0, 1, 0)
RetryFields   == {"soc"}

\* faults: Postgres behind the cache, each kind of fault once
FaultCommands == {Charge(90), Unknown}
FaultDevices  == {ChargingTo(50, 10)}
FaultBudget   == Spending(1, 0, 1, 1, 1)
OnlySoc       == {"soc"}

\* spaced: commands half an hour apart, the battery moving meanwhile
SpacedCommands == {Charge(90), Discharge(5), Discharge(50)}
SpacedDevices  == {Resting(50)}
SpacedBudget   == Spending(3, 1, 0, 0, 0)

\* settling: liveness with one lost message
SettlingCommands == {Charge(50)}
SettlingDevices  == {ChargingTo(50, 10)}
SettlingBudget   == Spending(1, 0, 1, 0, 0)
AllFields        == Fields
RevertFields     == {"soc", "mode", "charge"}

\* one charge command while the battery is below its level
BelowCommands == {Charge(90)}
BelowDevices  == {Resting(50)}
BelowBudget   == Spending(1, 0, 0, 0, 0)
=============================================================================
