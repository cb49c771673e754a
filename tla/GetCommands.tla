----------------------------- MODULE GetCommands -----------------------------
(***************************************************************************)
(* From an optimisation to the inverter's commands                         *)
(* (internal/scheduler/schedules.go, GetCommands): charge from the grid in *)
(* the cheapest hours and in the free ones, run on the battery otherwise.  *)
(*                                                                         *)
(* The optimiser's rows arrive one by one, in order of time                *)
(* (SelectOptimization); GetCommands is a function of the list.  A state   *)
(* of charge is a whole percentage; a cost is an integer, negative when    *)
(* the supplier pays.                                                      *)
(***************************************************************************)
EXTENDS Integers, Sequences

CONSTANTS
  Costs,     \* unit_load_cost of an hour
  Levels,    \* SOC_opt, in percent
  MaxRows    \* bound on the length of an optimisation

ASSUME PlanAssumption == Costs \subseteq Int /\ Levels \subseteq 0..100 /\ MaxRows \in Nat

VARIABLE rows   \* the optimisation, in order of time

Hours == 1..Len(rows)

\* A work mode and its grid charge, as GetCommands pairs them.
BatteryFirst == [mode |-> "Battery first", charge |-> "Enabled"]
LoadFirst    == [mode |-> "Load first",    charge |-> "Disabled"]
Minimum      == 10

\* Mutant: the comparison the wrong way round.
ReplacesDearer(cost, least) == cost # 0 /\ cost > least

\* Mutant: a free hour compares like any other.
ReplacesFree(cost, least) == cost < least

(***************************************************************************)
(* slices.MinFunc keeps the first row until a later one compares less; a   *)
(* free row never compares less.                                           *)
(***************************************************************************)
Replaces(cost, least) == cost # 0 /\ cost < least

MinPrice ==
  LET least[i \in Hours] ==
        IF i > 1 /\ ~Replaces(rows[i].cost, least[i - 1]) THEN least[i - 1] ELSE rows[i].cost
  IN least[Len(rows)]

Cheap(i) == rows[i].cost \in {MinPrice, 0}

\* Mutant: no running maximum.
MonotonicNot == [i \in Hours |-> rows[i].soc]

\* The target rises or stays inside a block of cheap hours.
Monotonic ==
  LET soc[i \in Hours] ==
        IF i > 1 /\ Cheap(i) /\ Cheap(i - 1) /\ soc[i - 1] > rows[i].soc
        THEN soc[i - 1] ELSE rows[i].soc
  IN soc

\* Mutant: the last row but one does not look ahead.
TargetSocShort(i) ==
  IF i < Len(rows) - 1 /\ rows[i + 1].soc > Monotonic[i] THEN rows[i + 1].soc ELSE Monotonic[i]

\* What a cheap hour charges to: what the next row wants, if that is more.
TargetSoc(i) ==
  IF i # Len(rows) /\ rows[i + 1].soc > Monotonic[i] THEN rows[i + 1].soc ELSE Monotonic[i]

Command(i) ==
  IF ~Cheap(i) THEN [do |-> LoadFirst, soc |-> Minimum, target |-> rows[i].soc]
  ELSE IF TargetSoc(i) = Minimum
       THEN [do |-> LoadFirst, soc |-> TargetSoc(i), target |-> rows[i].soc]
       ELSE [do |-> BatteryFirst, soc |-> TargetSoc(i), target |-> TargetSoc(i)]

Commands == [i \in Hours |-> Command(i)]

-----------------------------------------------------------------------------
Init == rows = <<>>

SelectRow ==
  /\ Len(rows) < MaxRows
  /\ \E c \in Costs, s \in Levels : rows' = Append(rows, [cost |-> c, soc |-> s])

Next == SelectRow

Spec == Init /\ [][Next]_rows

-----------------------------------------------------------------------------
\* What the commands should be, without the loops.
Paid       == {i \in Hours : rows[i].cost # 0}
Cheapest   == {i \in Paid : \A j \in Paid : rows[i].cost <= rows[j].cost}
Charging   == {i \in Hours : Commands[i].do = BatteryFirst}

\* The hours from j to i are one block of cheap hours.
SameBlock(j, i) == \A k \in j..i : Cheap(k)

(***************************************************************************)
(* The grid charges the battery only in a free hour or in one no dearer    *)
(* than any hour that is paid for, wherever the free, the cheap and the    *)
(* negative hours lie in the optimisation.                                 *)
(***************************************************************************)
ChargesOnlyWhenCheap == \A i \in Charging : i \in Cheapest \/ i \notin Paid

(***************************************************************************)
(* An hour that charges goes exactly as high as the optimiser wants at     *)
(* some hour of the block so far or right after it, and no hour of these   *)
(* wants more: the one-pass maximum with its look-ahead is the maximum     *)
(* over the block.                                                         *)
(***************************************************************************)
Wanted(i) == {rows[j].soc : j \in {h \in 1..i : SameBlock(h, i)}}
               \cup {rows[j].soc : j \in {i + 1} \cap Hours}

MeetsOptimisation ==
  \A i \in Charging :
    /\ Commands[i].soc \in Wanted(i)
    /\ \A s \in Wanted(i) : s <= Commands[i].soc
    /\ Commands[i].target = Commands[i].soc

(***************************************************************************)
(* The stop-discharge level never falls from one hour of a block to the    *)
(* next, look-ahead and the exception for the minimum included: the        *)
(* battery is not run down between two hours of grid charging.             *)
(***************************************************************************)
NeverLowersInBlock ==
  \A i \in Hours : i > 1 /\ SameBlock(i - 1, i) => Commands[i - 1].soc <= Commands[i].soc

(***************************************************************************)
(* The cheapest hours that are paid for charge, wherever free hours lie    *)
(* among them, except when what is wanted is the minimum and when a free   *)
(* first hour hides hours that cost something: against the comment at      *)
(* schedules.go:41 it stays the least price, unless the supplier pays for  *)
(* a later one.                                                            *)
(***************************************************************************)
Hidden(i) == rows[1].cost = 0 /\ rows[i].cost > 0

CheapestHoursCharge ==
  \A i \in Cheapest : i \in Charging \/ TargetSoc(i) = Minimum \/ Hidden(i)
=============================================================================
