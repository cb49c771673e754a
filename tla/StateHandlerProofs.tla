------------------------- MODULE StateHandlerProofs -------------------------
(***************************************************************************)
(* Type correctness and write-through coherence of the settings cache, for *)
(* every set of percentages and every set of calls.                        *)
(***************************************************************************)
EXTENDS StateHandler, TLAPS

\* A call of the cache names a cell and a value of its field.
LEMMA CallShape ==
  ASSUME NEW call \in AllCalls
  PROVE  /\ <<call[1], call[2]>> \in Cells
         /\ call[1] \in Copies /\ call[2] \in Fields
         /\ call[3] \in Values[call[2]]
  BY DEF AllCalls, Cells

\* A value of a field fits the field's column.
LEMMA ValueFits ==
  ASSUME NEW row \in Row, NEW f \in Fields, NEW v \in Values[f]
  PROVE  [row EXCEPT ![f] = v] \in Row
<1>1. CASE f = "soc"    BY <1>1 DEF Row, Values
<1>2. CASE f = "stop"   BY <1>2 DEF Row, Values
<1>3. CASE f = "mode"   BY <1>3 DEF Row, Values
<1>4. CASE f = "charge" BY <1>4 DEF Row, Values
<1> QED BY <1>1, <1>2, <1>3, <1>4 DEF Fields

\* A row is a function on the fields, so EXCEPT changes one field of it.
LEMMA RowExcept ==
  ASSUME NEW row \in Row, NEW f \in Fields, NEW g \in Fields, NEW v
  PROVE  /\ [row EXCEPT ![f] = v][f] = v
         /\ [row EXCEPT ![f] = v][g] = IF g = f THEN v ELSE row[g]
<1>1. DOMAIN row = Fields
  BY DEF Row, Fields
<1> QED BY <1>1

\* The type invariant of the parts that Load and the setters change.
LEMMA ExecutedType ==
  ASSUME NEW c \in Copies, NEW f \in Fields, NEW v \in Values[f], NEW n \in 0..Statements(c, f),
         parent \in [Copies -> Row]
  PROVE  Executed(c, f, v, n) \in [Copies -> Row]
<1>1. CASE n = 0
  BY <1>1 DEF Executed
<1>2. CASE n = 1
  <2>1. [parent[c] EXCEPT ![f] = v] \in Row
    BY ValueFits
  <2> QED BY <1>2, <2>1 DEF Executed
<1>3. CASE n = 2
  <2>1. v \in Percents
    BY <1>3 DEF Statements, Values
  <2>2. [parent[c] EXCEPT !.soc = v, !.stop = v] \in Row
    BY <2>1 DEF Row
  <2> QED BY <1>3, <2>2 DEF Executed
<1> QED BY <1>1, <1>2, <1>3 DEF Statements

\* The seed and zero rows, and what Load reads.
LEMMA RestartType ==
  ASSUME parent \in [Copies -> Row]
  PROVE  /\ Loaded \in [Copies -> Row]
         /\ [c \in Copies |-> ZeroRow] \in [Copies -> Row]
         /\ [c \in Copies |-> SeedRow] \in [Copies -> Row]
<1>1. Loaded \in [Copies -> Row]
  <2>1. [parent["target"] EXCEPT !.stop = 0] \in Row
    BY DEF Row, Percents, Copies
  <2>2. parent["current"] \in Row
    BY DEF Copies
  <2>3. Loaded = [c \in Copies |-> IF c = "current" THEN parent["current"]
                                   ELSE [parent["target"] EXCEPT !.stop = 0]]
    BY DEF Loaded, Copies
  <2> QED BY <2>1, <2>2, <2>3 DEF Copies
<1>2. ZeroRow \in Row /\ SeedRow \in Row
  BY DEF ZeroRow, SeedRow, Row, Percents, GridCharges
<1> QED BY <1>1, <1>2

(***************************************************************************)
(* One setter, whatever becomes of its statements, preserves the types.    *)
(***************************************************************************)
LEMMA SetType ==
  ASSUME HandlerTypeOK,
         NEW c \in Copies, NEW f \in Fields, <<c, f>> \in Cells, NEW v \in Values[f],
         NEW o \in [n : 0..Statements(c, f), ok : BOOLEAN], Set(c, f, v, o)
  PROVE  HandlerTypeOK'
<1>1. CASE Skipped(c, f, v)
  BY <1>1 DEF Set, handlerVars, HandlerTypeOK
<1>2. CASE ~Skipped(c, f, v)
  <2>1. parent' \in [Copies -> Row]
    BY <1>2, ExecutedType DEF Set, HandlerTypeOK
  <2>2. local' \in [Copies -> Row]
    <3>1. [local[c] EXCEPT ![f] = v] \in Row
      BY ValueFits DEF HandlerTypeOK
    <3> QED BY <1>2, <3>1 DEF Set, HandlerTypeOK
  <2>3. unsure' \in SUBSET Cells
    BY <1>2 DEF Set, HandlerTypeOK
  <2> QED BY <2>1, <2>2, <2>3 DEF HandlerTypeOK
<1> QED BY <1>1, <1>2

\* The outcomes of a call.
LEMMA OutcomeShape ==
  ASSUME NEW c \in Copies, NEW f \in Fields
  PROVE  /\ Success(c, f) \in [n : 0..Statements(c, f), ok : BOOLEAN]
         /\ Success(c, f).ok /\ Success(c, f).n = Statements(c, f)
         /\ \A o \in Failures(c, f) : o \in [n : 0..Statements(c, f), ok : BOOLEAN] /\ ~o.ok
<1>1. Statements(c, f) \in Nat
  BY DEF Statements
<1>2. Success(c, f).ok = TRUE /\ Success(c, f).n = Statements(c, f)
  BY DEF Success
<1>3. Success(c, f) \in [n : 0..Statements(c, f), ok : BOOLEAN]
  BY <1>1 DEF Success
<1>4. ASSUME NEW o \in Failures(c, f)
      PROVE  o \in [n : 0..Statements(c, f), ok : BOOLEAN] /\ ~o.ok
  <2>1. o \in [n : 0..Statements(c, f), ok : {FALSE}]
    BY <1>4 DEF Failures
  <2> QED BY <2>1
<1> QED BY <1>2, <1>3, <1>4

(***************************************************************************)
(* A setter that reached the table and succeeded leaves the cell equal in  *)
(* both; one that failed makes the cell unsure; no other cell is touched   *)
(* (the target row's stop-discharge level is not a cell).                  *)
(***************************************************************************)
LEMMA SetCoherent ==
  ASSUME HandlerTypeOK, Coherent,
         NEW c \in Copies, NEW f \in Fields, <<c, f>> \in Cells, NEW v \in Values[f],
         NEW o \in [n : 0..Statements(c, f), ok : BOOLEAN],
         o.ok => o.n = Statements(c, f), Set(c, f, v, o)
  PROVE  Coherent'
<1>1. CASE Skipped(c, f, v)
  BY <1>1 DEF Set, handlerVars, Coherent
<1>2. CASE ~Skipped(c, f, v)
  <2> SUFFICES ASSUME HasParent, NEW cell \in Cells, cell \notin unsure'
               PROVE  local'[cell[1]][cell[2]] = parent'[cell[1]][cell[2]]
    BY DEF Coherent
  <2>1. parent' = Executed(c, f, v, o.n)
    BY <1>2 DEF Set
  <2>2. PICK d \in Copies, g \in Fields : cell = <<d, g>> /\ ~(d = "target" /\ g = "stop")
    BY DEF Cells
  <2>3. CASE d = c /\ g = f
    <3>1. o.ok
      BY <1>2, <2>2, <2>3 DEF Set
    <3>2. local'[c][f] = v
      <4>1. local' = [local EXCEPT ![c] = [local[c] EXCEPT ![f] = v]]
        BY <1>2, <3>1 DEF Set
      <4>2. local[c] \in Row
        BY DEF HandlerTypeOK
      <4>3. [local[c] EXCEPT ![f] = v][f] = v
        BY <4>2, RowExcept
      <4> QED BY <4>1, <4>3 DEF HandlerTypeOK
    <3>3. parent'[c][f] = v
      <4>1. CASE Statements(c, f) = 1
        <5>1. parent' = [parent EXCEPT ![c] = [parent[c] EXCEPT ![f] = v]]
          BY <2>1, <3>1, <4>1 DEF Executed
        <5>2. parent[c] \in Row
          BY DEF HandlerTypeOK
        <5>3. [parent[c] EXCEPT ![f] = v][f] = v
          BY <5>2, RowExcept
        <5> QED BY <5>1, <5>3 DEF HandlerTypeOK
      <4>2. CASE Statements(c, f) = 2
        <5>1. f = "soc" /\ parent' = [parent EXCEPT ![c] = [parent[c] EXCEPT !.soc = v, !.stop = v]]
          BY <2>1, <3>1, <4>2 DEF Executed, Statements
        <5>2. [parent[c] EXCEPT !.soc = v, !.stop = v].soc = v
          BY DEF HandlerTypeOK, Row
        <5> QED BY <5>1, <5>2 DEF HandlerTypeOK
      <4> QED BY <4>1, <4>2 DEF Statements
    <3> QED BY <2>2, <2>3, <3>2, <3>3
  <2>4. CASE ~(d = c /\ g = f)
    <3>1. cell \notin unsure
      BY <1>2, <2>2, <2>4 DEF Set
    <3>2. local'[d][g] = local[d][g]
      <4>1. \/ local' = local
            \/ local' = [local EXCEPT ![c] = [local[c] EXCEPT ![f] = v]]
        BY <1>2 DEF Set
      <4>2. [local[c] EXCEPT ![f] = v][g] = IF g = f THEN v ELSE local[c][g]
        BY RowExcept DEF HandlerTypeOK
      <4> QED BY <4>1, <4>2, <2>4 DEF HandlerTypeOK
    <3>3. parent'[d][g] = parent[d][g]
      <4>1. CASE o.n = 0
        BY <4>1, <2>1 DEF Executed
      <4>2. CASE o.n = 1
        <5>1. parent' = [parent EXCEPT ![c] = [parent[c] EXCEPT ![f] = v]]
          BY <2>1, <4>2 DEF Executed
        <5>2. [parent[c] EXCEPT ![f] = v][g] = IF g = f THEN v ELSE parent[c][g]
          BY RowExcept DEF HandlerTypeOK
        <5> QED BY <5>1, <5>2, <2>4 DEF HandlerTypeOK
      <4>3. CASE o.n = 2
        <5>1. /\ c = "target" /\ f = "soc"
              /\ parent' = [parent EXCEPT ![c] = [parent[c] EXCEPT !.soc = v, !.stop = v]]
          BY <2>1, <4>3 DEF Executed, Statements
        <5>2. d = c => g # "soc" /\ g # "stop"
          BY <5>1, <2>2, <2>4
        <5>3. DOMAIN parent[c] = Fields
          BY DEF HandlerTypeOK, Row, Fields
        <5>4. g \notin {"soc", "stop"} => [parent[c] EXCEPT !.soc = v, !.stop = v][g] = parent[c][g]
          BY <5>3
        <5> QED BY <5>1, <5>2, <5>4 DEF HandlerTypeOK
      <4> QED BY <4>1, <4>2, <4>3 DEF Statements
    <3> QED BY <2>2, <3>1, <3>2, <3>3 DEF Coherent
  <2> QED BY <2>3, <2>4
<1> QED BY <1>1, <1>2

\* Load brings the cache back in agreement with the table.
LEMMA LoadedCoherent ==
  ASSUME parent \in [Copies -> Row], NEW cell \in Cells
  PROVE  Loaded[cell[1]][cell[2]] = parent[cell[1]][cell[2]]
<1>1. PICK d \in Copies, g \in Fields : cell = <<d, g>> /\ ~(d = "target" /\ g = "stop")
  BY DEF Cells
<1>2. CASE d = "current"
  BY <1>1, <1>2 DEF Loaded
<1>3. CASE d = "target"
  <2>1. DOMAIN parent["target"] = Fields
    BY DEF Row, Fields, Copies
  <2>2. [parent["target"] EXCEPT !.stop = 0][g] = parent["target"][g]
    BY <2>1, <1>1, <1>3
  <2> QED BY <1>1, <1>3, <2>2 DEF Loaded
<1> QED BY <1>1, <1>2, <1>3 DEF Copies

HandlerInv == HandlerTypeOK /\ Coherent

LEMMA HandlerInvInit == HandlerInit => HandlerInv
<1> SUFFICES ASSUME HandlerInit PROVE HandlerInv
  OBVIOUS
<1>1. parent \in [Copies -> Row]
  BY DEF HandlerInit, SeedRow, Row, Percents, GridCharges
<1>2. HandlerTypeOK
  BY <1>1, RestartType DEF HandlerInit, HandlerTypeOK
<1>3. Coherent
  BY <1>1, LoadedCoherent DEF HandlerInit, Coherent
<1> QED BY <1>2, <1>3 DEF HandlerInv

LEMMA HandlerInvStep == HandlerInv /\ [HandlerNext]_handlerVars => HandlerInv'
<1> SUFFICES ASSUME HandlerInv, [HandlerNext]_handlerVars PROVE HandlerInv'
  OBVIOUS
<1> USE DEF HandlerInv
<1>1. CASE SetSucceeds
  <2>1. PICK call \in Calls : Set(call[1], call[2], call[3], Success(call[1], call[2]))
    BY <1>1 DEF SetSucceeds
  <2>2. call \in AllCalls
    BY HandlerAssumption
  <2> QED BY <2>1, <2>2, CallShape, OutcomeShape, SetType, SetCoherent
<1>2. CASE SetErrs
  <2>1. PICK call \in Calls : \E o \in Failures(call[1], call[2]) :
               Set(call[1], call[2], call[3], o)
    BY <1>2 DEF SetErrs
  <2>2. PICK o \in Failures(call[1], call[2]) : Set(call[1], call[2], call[3], o)
    BY <2>1
  <2>3. call \in AllCalls
    BY HandlerAssumption
  <2> QED BY <2>2, <2>3, CallShape, OutcomeShape, SetType, SetCoherent
<1>3. CASE Restart
  <2>1. HandlerTypeOK'
    BY <1>3, RestartType DEF Restart, HandlerTypeOK
  <2>2. Coherent'
    BY <1>3, LoadedCoherent DEF Restart, Coherent, HandlerTypeOK
  <2> QED BY <2>1, <2>2
<1>4. CASE UNCHANGED handlerVars
  BY <1>4 DEF handlerVars, HandlerTypeOK, Coherent
<1> QED BY <1>1, <1>2, <1>3, <1>4 DEF HandlerNext

(***************************************************************************)
(* The cache and the table keep their types, and they agree on every cell  *)
(* whose last write did not return an error, crashes and reloads included. *)
(***************************************************************************)
THEOREM HandlerCorrect == HandlerSpec => [](HandlerTypeOK /\ Coherent)
<1>1. HandlerInit => HandlerInv
  BY HandlerInvInit
<1>2. HandlerInv /\ [HandlerNext]_handlerVars => HandlerInv'
  BY HandlerInvStep
<1> QED BY <1>1, <1>2, PTL DEF HandlerSpec, HandlerInv
=============================================================================
