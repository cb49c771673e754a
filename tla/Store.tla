------------------------------- MODULE Store -------------------------------
(***************************************************************************)
(* What a store promises its callers (internal/store/store.go): schedule   *)
(* rows by time, optimisation rows by method and time, the inverter's      *)
(* settings.  Every call takes effect at once.  A write that answers "ok"  *)
(* has its effect and no other; one that answers "error", or never answers *)
(* because the program stopped, may have none, or lose any of the rows of  *)
(* its table, or leave the settings unreadable from then on.               *)
(***************************************************************************)
EXTENDS Naturals

CONSTANTS
  Times,    \* of the rows
  Methods,  \* of the optimisation rows
  Fields,   \* of the settings
  Values,   \* of a row or a setting
  Default,  \* the settings before the first write
  NoValue   \* of a row that is not there

Unreadable == [f \in Fields |-> NoValue]

VARIABLES schedule, optimization, settings,
          reply  \* to the last call that ended

vars == <<schedule, optimization, settings, reply>>

Answer(tag, rows) == reply' = [tag |-> tag, rows |-> rows]
Rows(name, table, K) == {<<name, k, table[k]>> : k \in {j \in K : table[j] # NoValue}}
Parts(table)      == {[k \in DOMAIN table |-> IF k \in K THEN table[k] ELSE NoValue] :
                        K \in SUBSET DOMAIN table}

-----------------------------------------------------------------------------
\* A write that would turn the table into new.
Ends(new, old, lost, result) ==
  \/ Answer("ok", {}) /\ result = new
  \/ Answer("error", {}) /\ result \in lost \cup {old}

WriteSchedule(new) ==
  /\ Ends(new, schedule, Parts(new), schedule')
  /\ UNCHANGED <<optimization, settings>>

WriteOptimization(new) ==
  /\ Ends(new, optimization, Parts(new), optimization')
  /\ UNCHANGED <<schedule, settings>>

WriteSettings(new) ==
  /\ settings # Unreadable
  /\ Ends(new, settings, {new, Unreadable}, settings')
  /\ UNCHANGED <<schedule, optimization>>

Upsert(t, v) == WriteSchedule([schedule EXCEPT ![t] = v])
Delete(t)    == WriteSchedule([schedule EXCEPT ![t] = NoValue])

InsertOptimization(m, t, v) == WriteOptimization([optimization EXCEPT ![<<m, t>>] = v])

DeleteAnyOptimization(t) ==
  WriteOptimization([k \in DOMAIN optimization |-> IF k[2] = t THEN NoValue ELSE optimization[k]])

SetField(f, v) == WriteSettings([settings EXCEPT ![f] = v])

Reads ==
  /\ \/ \E t \in Times : Answer("rows", Rows("schedule", schedule, {u \in Times : u > t}))
     \/ \E t \in Times : Answer("rows", Rows("schedule", schedule, {t}))
     \/ \E m \in Methods, t \in Times :
          Answer("rows", Rows("optimization", optimization, {k \in {m} \X Times : k[2] >= t}))
     \/ \E f \in Fields : settings # Unreadable /\ Answer("value", {<<"state", f, settings[f]>>})
     \/ Answer("error", {})
  /\ UNCHANGED <<schedule, optimization, settings>>

Init ==
  /\ schedule = [t \in Times |-> NoValue]
  /\ optimization = [k \in Methods \X Times |-> NoValue]
  /\ settings = Default
  /\ reply = [tag |-> "none", rows |-> {}]

Next ==
  \/ \E t \in Times : Delete(t) \/ DeleteAnyOptimization(t)
  \/ \E t \in Times, v \in Values :
       Upsert(t, v) \/ \E m \in Methods : InsertOptimization(m, t, v)
  \/ \E f \in Fields, v \in Values : SetField(f, v)
  \/ Reads

Spec == Init /\ [][Next]_vars
=============================================================================
