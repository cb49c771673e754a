---------------------------- MODULE StateHandler ----------------------------
(***************************************************************************)
(* The write-through cache of the inverter's settings                      *)
(* (internal/solarassistant/state.go) over the inverter_settings table     *)
(* (internal/store/db.go).                                                 *)
(*                                                                         *)
(* The cache and the table hold two copies of the settings: "current", the *)
(* local mirror of what the inverter last reported, and "target", what the *)
(* program last commanded.  Every method holds the handler's mutex for its *)
(* whole duration, the statements it sends to Postgres included, so a      *)
(* method is one step here.  What may go wrong inside the step is the      *)
(* statements: each of them may fail, and an error may be returned for a   *)
(* statement that was executed.                                            *)
(***************************************************************************)
EXTENDS Naturals

CONSTANTS
  Soc,        \* percentages: the battery's charge and the stop-discharge level
  HasParent,  \* TRUE with -dsn (Postgres behind the cache), FALSE without
  Calls       \* the setter calls made: <<copy, field, value>>

WorkModes   == {"Load first", "Battery first", "Grid first"}
GridCharges == {"Enabled", "Disabled"}

(***************************************************************************)
(* A row of settings.  A fresh table has "Load First", which is not the    *)
(* work mode "Load first"; a cache without a table starts at Go's zero     *)
(* values.                                                                 *)
(***************************************************************************)
Fields   == {"soc", "stop", "mode", "charge"}
Copies   == {"current", "target"}
ZeroRow  == [soc |-> 0, stop |-> 0, mode |-> "", charge |-> ""]
SeedRow  == [soc |-> 10, stop |-> 10, mode |-> "Load First", charge |-> "Disabled"]
Percents == Soc \cup {0, 10}
Row      == [soc : Percents, stop : Percents,
             mode : WorkModes \cup {"", "Load First"}, charge : GridCharges \cup {""}]

\* What the setter of a field is called with.
Values == [soc |-> Percents, stop |-> Percents, mode |-> WorkModes, charge |-> GridCharges]

\* Handler methods exist for these cells; the target row's stop-discharge
\* level exists only in the table, where SetSOCTarget writes it.
Cells    == (Copies \X Fields) \ {<<"target", "stop">>}
AllCalls == UNION {{<<cell[1], cell[2], v>> : v \in Values[cell[2]]} : cell \in Cells}

ASSUME HandlerAssumption == HasParent \in BOOLEAN /\ Calls \subseteq AllCalls

VARIABLES
  local,    \* h.state and h.target
  parent,   \* h.parent: the rows of inverter_settings
  unsure    \* history: cells whose last executed write returned an error

handlerVars == <<local, parent, unsure>>

(***************************************************************************)
(* A setter of PostgresStore is one UPDATE, SetSOCTarget two: the target's *)
(* SoC and then, with the same value, its stop-discharge level.            *)
(***************************************************************************)
Statements(c, f) == IF c = "target" /\ f = "soc" THEN 2 ELSE 1

\* The table after the first n statements of a setter.
Executed(c, f, v, n) ==
  IF n = 0 THEN parent
  ELSE IF n = 1 THEN [parent EXCEPT ![c][f] = v]
  ELSE [parent EXCEPT ![c] = [@ EXCEPT !.soc = v, !.stop = v]]

(***************************************************************************)
(* How a call of the parent may end: n statements executed, then success   *)
(* or an error.  A lost reply is an error after an executed statement.     *)
(***************************************************************************)
Success(c, f)  == [n |-> Statements(c, f), ok |-> TRUE]
Failures(c, f) == IF HasParent THEN [n : 0..Statements(c, f), ok : {FALSE}] ELSE {}

\* Mutant: the two grid-charge setters compare with the target row.
ComparedWithTarget(c, f) == IF f = "charge" THEN local["target"].charge ELSE local[c][f]

(***************************************************************************)
(* A setter writes only a value that differs from the cached one.          *)
(* SetBatteryFirstGridChargeTarget compares with the current row.          *)
(***************************************************************************)
Compared(c, f)  == IF f = "charge" THEN local["current"].charge ELSE local[c][f]
Skipped(c, f, v) == v = Compared(c, f)

\* The setter of cell <<c, f>> called with v, its parent's call ending with o.
Set(c, f, v, o) ==
  IF Skipped(c, f, v)
  THEN UNCHANGED handlerVars
  ELSE /\ parent' = IF HasParent THEN Executed(c, f, v, o.n) ELSE parent
       /\ local'  = IF o.ok THEN [local EXCEPT ![c][f] = v] ELSE local
       /\ unsure' = IF o.ok THEN unsure \ {<<c, f>>} ELSE unsure \cup {<<c, f>>}

(***************************************************************************)
(* Load: the program has just started and nothing else runs yet.           *)
(***************************************************************************)
Loaded == [current |-> parent["current"],
           target  |-> [parent["target"] EXCEPT !.stop = 0]]

\* Mutant: the handler is made without a Load.
RestartWithoutLoad ==
  /\ local'  = [c \in Copies |-> ZeroRow]
  /\ unsure' = {}
  /\ UNCHANGED parent

Restart ==
  /\ local'  = IF HasParent THEN Loaded ELSE [c \in Copies |-> ZeroRow]
  /\ unsure' = {}
  /\ UNCHANGED parent

HandlerInit ==
  /\ parent = [c \in Copies |-> SeedRow]
  /\ local  = IF HasParent THEN Loaded ELSE [c \in Copies |-> ZeroRow]
  /\ unsure = {}

SetSucceeds == \E call \in Calls :
  Set(call[1], call[2], call[3], Success(call[1], call[2]))

SetErrs     == \E call \in Calls : \E o \in Failures(call[1], call[2]) :
  Set(call[1], call[2], call[3], o)

HandlerNext == SetSucceeds \/ SetErrs \/ Restart

HandlerSpec == HandlerInit /\ [][HandlerNext]_handlerVars

-----------------------------------------------------------------------------
\* Type invariant.
HandlerTypeOK ==
  /\ local  \in [Copies -> Row]
  /\ parent \in [Copies -> Row]
  /\ unsure \in SUBSET Cells

(***************************************************************************)
(* Write-through coherence: a cell of the cache and of the table differ    *)
(* only while the last write of the cell returned an error; a crash and    *)
(* reload at any point restores agreement.  Without it a restart would     *)
(* bring back a target or a mirror value the program had moved on from.    *)
(***************************************************************************)
Coherent ==
  HasParent => \A cell \in Cells \ unsure :
                 local[cell[1]][cell[2]] = parent[cell[1]][cell[2]]
=============================================================================
