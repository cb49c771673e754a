---------------------------- MODULE PlannerProofs ----------------------------
(***************************************************************************)
(* RowsScheduled, PlanAgreed and TypeOK of Planner, for any slots, plans,  *)
(* runs and faults.                                                        *)
(*                                                                         *)
(* For the first two only the loops over a run's list matter: the items it *)
(* has written to the table and has still to schedule (Pending).  A slot   *)
(* outside every run's pending items has a schedule (Scheduled) that       *)
(* agrees with the table (Agreed); that a pending item is what the table   *)
(* shows (Own) carries agreement from the upsert to the creation of the    *)
(* schedule.  What GetCommands makes of the rows plays no part in them; it *)
(* is what the types rest on, in the second half.                          *)
(***************************************************************************)
EXTENDS Planner, ListProofs, FiniteSetTheorems

Pending(k) ==
  {j \in DOMAIN k.list : (k.pc = "upsert" /\ j < k.i) \/ (k.pc \in {"delete", "create"} /\ j >= k.i)}

SlotsOf(k) == {k.list[j].slot : j \in Pending(k)}

InLoop == {"upsert", "delete", "create"}

\* A run with its list, whose slots ascend and at one of which the run is.
Shape(k) ==
  /\ DOMAIN k = {"pc", "method", "list", "i", "workflow"}
  /\ k.pc \in RunPcs
  /\ Len(k.list) \in Nat /\ DOMAIN k.list = 1..Len(k.list)
  /\ k.pc \in InLoop =>
       /\ k.i \in DOMAIN k.list
       /\ \A j \in DOMAIN k.list : k.list[j].slot \in Slots
       /\ \A j, l \in DOMAIN k.list : j < l => k.list[j].slot < k.list[l].slot

Shapes ==
  /\ now \in 0..Until
  /\ DOMAIN run = Runners /\ DOMAIN table = Slots /\ DOMAIN scheds = Slots /\ DOMAIN work = Slots
  /\ \A r \in Runners : Shape(run[r])

\* A workflow runs only for a slot that has begun.
Begun == \A s \in Slots : work[s] # "none" => s <= now

Free(s) == s \notin failed /\ \A r \in Runners : s \notin SlotsOf(run[r])

Scheduled ==
  \A s \in Slots : s > now /\ table[s] # None /\ Free(s) => scheds[s] # None

Agreed ==
  \A s \in Slots : s > now /\ table[s] # None /\ Free(s) /\ s \notin mixed /\ scheds[s] # None =>
    scheds[s] = Args(table[s].cmd)

Own ==
  \A r \in Runners : \A j \in Pending(run[r]) :
    LET s == run[r].list[j].slot
    IN table[s] # None /\ s \notin failed /\ s \notin mixed => table[s].cmd = run[r].list[j].what

IInv == Shapes /\ Begun /\ Scheduled /\ Agreed /\ Own

-----------------------------------------------------------------------------
\* The slots of Planner's history variable are those of the pending items.
LEMMA UnscheduledSlots ==
  ASSUME NEW r \in Runners, Shape(run[r])
  PROVE  Unscheduled(r) = SlotsOf(run[r])
<1>1. CASE run[r].pc = "upsert"
  <2>1. Pending(run[r]) = 1..run[r].i - 1
    BY <1>1 DEF Pending, Shape, InLoop
  <2>2. Unscheduled(r) = {run[r].list[j].slot : j \in 1..run[r].i - 1}
    BY <1>1 DEF Unscheduled
  <2> QED BY <2>1, <2>2 DEF SlotsOf
<1>2. CASE run[r].pc \in {"delete", "create"}
  <2>1. Pending(run[r]) = run[r].i..Len(run[r].list)
    BY <1>2 DEF Pending, Shape, InLoop
  <2>2. Unscheduled(r) = {run[r].list[j].slot : j \in run[r].i..Len(run[r].list)}
    BY <1>2 DEF Unscheduled
  <2> QED BY <2>1, <2>2 DEF SlotsOf
<1>3. CASE run[r].pc \notin InLoop
  BY <1>3 DEF Unscheduled, SlotsOf, Pending, InLoop
<1> QED BY <1>1, <1>2, <1>3 DEF InLoop

\* A run outside the loops over its list has nothing pending.
LEMMA NothingPending ==
  ASSUME NEW k, k.pc \notin InLoop
  PROVE  Pending(k) = {} /\ SlotsOf(k) = {}
  BY DEF Pending, SlotsOf, InLoop

\* Neither has a run that is idle or begins an activity.
LEMMA BeginShape ==
  ASSUME NEW m, NEW pc \in {"forecast", "select"}, NEW workflow
  PROVE  Shape(At(pc, m, workflow)) /\ At(pc, m, workflow).pc \notin InLoop
<1> DEFINE k == At(pc, m, workflow)
<1>1. DOMAIN k = {"pc", "method", "list", "i", "workflow"} /\ k.list = <<>> /\ k.pc = pc
  BY DEF IdleRun, At
<1> HIDE DEF k
<1>2. Shape(k) /\ k.pc \notin InLoop
  BY <1>1 DEF Shape, RunPcs, InLoop
<1> QED BY <1>2 DEF k

\* So has the idle run.
LEMMA IdleShape == Shape(IdleRun) /\ IdleRun.pc \notin InLoop
<1>1. DOMAIN IdleRun = {"pc", "method", "list", "i", "workflow"} /\ IdleRun.list = <<>> /\ IdleRun.pc = "idle"
  BY DEF IdleRun
<1> QED BY <1>1 DEF Shape, RunPcs, InLoop

\* And whatever a failure leaves of a run.
LEMMA EndedShape ==
  ASSUME NEW r \in Runners, NEW e \in Ended(r)
  PROVE  Shape(e) /\ e.pc \notin InLoop
<1>1. CASE e = IdleRun
  BY <1>1, IdleShape
<1>2. CASE e = At(Stage(r), run[r].method, TRUE)
  <2>1. Stage(r) \in {"forecast", "select"}
    BY DEF Stage
  <2> QED BY <1>2, <2>1, BeginShape
<1> QED BY <1>1, <1>2 DEF Ended

-----------------------------------------------------------------------------
\* Steps that touch neither the runs nor the slots to come.
LEMMA Untouched ==
  ASSUME IInv, UNCHANGED <<now, table, scheds, run, work, failed, mixed>>
  PROVE  IInv'
  BY DEF IInv, Shapes, Begun, Scheduled, Agreed, Own, Free

\* A run that had nothing pending and has nothing pending.
LEMMA NoneWritten ==
  ASSUME IInv, NEW r \in Runners, NEW k, Shape(k), Pending(k) = {}, run[r].pc \notin InLoop,
         run' = [run EXCEPT ![r] = k],
         UNCHANGED <<now, table, scheds, work, failed, mixed>>
  PROVE  IInv'
<1>1. ASSUME NEW q \in Runners
      PROVE  /\ Shape(run'[q])
             /\ Pending(run'[q]) = Pending(run[q]) /\ SlotsOf(run'[q]) = SlotsOf(run[q])
             /\ \A j \in Pending(run'[q]) : run'[q].list[j] = run[q].list[j]
  <2>1. CASE q = r
    BY <2>1, NothingPending DEF IInv, Shapes, SlotsOf
  <2>2. CASE q # r
    BY <2>2 DEF IInv, Shapes
  <2> QED BY <2>1, <2>2
<1>2. Shapes'
  BY <1>1 DEF IInv, Shapes
<1>3. Own'
  BY <1>1 DEF IInv, Own
<1> QED BY <1>1, <1>2, <1>3 DEF IInv, Begun, Scheduled, Agreed, Free

\* The same for a run that stays outside the loops.
LEMMA QuietRun ==
  ASSUME IInv, NEW r \in Runners, NEW k, Shape(k), k.pc \notin InLoop, run[r].pc \notin InLoop,
         run' = [run EXCEPT ![r] = k],
         UNCHANGED <<now, table, scheds, work, failed, mixed>>
  PROVE  IInv'
  BY NothingPending, NoneWritten

\* A failure outside the loops.
LEMMA QuietFail ==
  ASSUME IInv, NEW r \in Runners, Fail(r), run[r].pc \notin InLoop,
         UNCHANGED <<now, table, scheds, work, failed, mixed>>
  PROVE  IInv'
<1>1. PICK e \in Ended(r) : run' = [run EXCEPT ![r] = e]
  BY DEF Fail
<1> QED BY <1>1, EndedShape, QuietRun

-----------------------------------------------------------------------------
\* The steps, action by action.  An idle run starts.
LEMMA StartInv ==
  ASSUME IInv, NEW r \in Runners, NEW m, run[r].pc = "idle", Started(r, m) \/ Processed(r, m),
         UNCHANGED <<now, table, scheds, work, failed, mixed>>
  PROVE  IInv'
<1>1. PICK pc \in {"forecast", "select"}, workflow \in BOOLEAN :
        run' = [run EXCEPT ![r] = At(pc, m, workflow)]
  BY DEF Started, Processed
<1>2. Shape(At(pc, m, workflow)) /\ At(pc, m, workflow).pc \notin InLoop
  BY BeginShape
<1> QED BY <1>1, <1>2, QuietRun DEF InLoop

\* A run that goes to a list it has written nothing of.
LEMMA BecomeInv ==
  ASSUME IInv, NEW r \in Runners, NEW pc \in {"insert", "select"}, NEW list, Become(r, pc, list),
         Len(list) \in Nat, DOMAIN list = 1..Len(list), run[r].pc \notin InLoop,
         UNCHANGED <<now, table, scheds, work, failed, mixed>>
  PROVE  IInv'
<1> DEFINE k == [run[r] EXCEPT !.pc = pc, !.list = list, !.i = 1]
<1>1. run' = [run EXCEPT ![r] = k]
  BY DEF Become, IInv, Shapes
<1>2. DOMAIN k = {"pc", "method", "list", "i", "workflow"} /\ k.pc = pc /\ k.list = list
  BY DEF IInv, Shapes, Shape
<1> HIDE DEF k
<1>3. Shape(k) /\ k.pc \notin InLoop
  BY <1>2 DEF Shape, RunPcs, InLoop
<1> QED BY <1>1, <1>3, QuietRun

\* An answer of EMHASS, cut at the last slot, is a list.
LEMMA ForecastInv ==
  ASSUME IInv, NEW r \in Runners, Forecast(r)
  PROVE  IInv'
<1>0. run[r].pc \notin InLoop /\ UNCHANGED <<now, table, scheds, work, failed, mixed>>
  BY DEF Forecast, InLoop, storeVars, histVars
<1>1. CASE Fail(r)
  BY <1>0, <1>1, QuietFail
<1>2. ASSUME NEW plan \in Plans,
             LET n == IF now + Len(plan) > LastSlot THEN LastSlot - now ELSE Len(plan)
             IN Become(r, IF n = 0 THEN "select" ELSE "insert",
                       [i \in 1..n |-> [slot |-> now + i, what |-> plan[i]]])
      PROVE  IInv'
  <2> DEFINE n == IF now + Len(plan) > LastSlot THEN LastSlot - now ELSE Len(plan)
             list == [i \in 1..n |-> [slot |-> now + i, what |-> plan[i]]]
             pc == IF n = 0 THEN "select" ELSE "insert"
  <2>1. n \in Nat
    <3>1. Len(plan) \in Nat
      BY PlansAssumption
    <3> QED BY <3>1, SlotAssumption DEF IInv, Shapes
  <2> HIDE DEF n
  <2>2. DOMAIN list = 1..Len(list) /\ Len(list) \in Nat
    BY <2>1
  <2>3. pc \in {"insert", "select"}
    OBVIOUS
  <2>4. Become(r, pc, list)
    BY <1>2 DEF n
  <2> QED BY <1>0, <2>2, <2>3, <2>4, BecomeInv
<1> QED BY <1>1, <1>2 DEF Forecast

\* The last row of an answer ends the loop, any other leaves the run in it.
LEMMA InsertInv ==
  ASSUME IInv, NEW r \in Runners, InsertOptimization(r)
  PROVE  IInv'
<1>0. /\ run[r].pc = "insert" /\ run[r].pc \notin InLoop
      /\ UNCHANGED <<now, table, scheds, work, failed, mixed>>
  BY DEF InsertOptimization, InLoop, histVars
<1>1. CASE Fail(r)
  BY <1>0, <1>1, QuietFail
<1>2. CASE Proceed(r, "insert", "insert")
  <2> DEFINE k == IF run[r].i < Len(run[r].list) THEN [run[r] EXCEPT !.pc = "insert", !.i = run[r].i + 1]
                  ELSE [run[r] EXCEPT !.pc = "insert", !.i = 1]
  <2>1. run' = [run EXCEPT ![r] = k]
    <3>1. CASE run[r].i < Len(run[r].list)
      BY <1>2, <3>1 DEF Proceed, IInv, Shapes
    <3>2. CASE ~(run[r].i < Len(run[r].list))
      BY <1>2, <3>2 DEF Proceed, IInv, Shapes
    <3> QED BY <3>1, <3>2
  <2>2. DOMAIN k = {"pc", "method", "list", "i", "workflow"} /\ k.pc = "insert" /\ k.list = run[r].list
    BY DEF IInv, Shapes, Shape
  <2> HIDE DEF k
  <2>3. Shape(k) /\ k.pc \notin InLoop
    BY <2>2 DEF Shape, RunPcs, InLoop, IInv, Shapes
  <2> QED BY <1>0, <2>1, <2>3, QuietRun
<1>3. CASE Become(r, "select", <<>>)
  <2>1. DOMAIN <<>> = 1..Len(<<>>) /\ Len(<<>>) \in Nat
    OBVIOUS
  <2> QED BY <1>0, <1>3, <2>1, BecomeInv
<1> QED BY <1>1, <1>2, <1>3 DEF InsertOptimization

\* The loop of upserts begins with nothing written.
LEMMA SelectInv ==
  ASSUME IInv, NEW r \in Runners, SelectOptimization(r)
  PROVE  IInv'
<1>0. /\ run[r].pc = "select" /\ run[r].pc \notin InLoop
      /\ UNCHANGED <<now, table, scheds, work, failed, mixed>>
  BY DEF SelectOptimization, InLoop, storeVars, histVars
<1>1. CASE Fail(r)
  BY <1>0, <1>1, QuietFail
<1>2. CASE run' = [run EXCEPT ![r] = IdleRun]
  BY <1>0, <1>2, IdleShape, QuietRun
<1>3. ASSUME NEW S \in SUBSET Slots, NEW slots \in InOrder(S), NEW commands, slots # <<>>,
             Become(r, "upsert", [j \in DOMAIN slots |-> [slot |-> slots[j], what |-> commands[j]]])
      PROVE  IInv'
  <2> DEFINE list == [j \in DOMAIN slots |-> [slot |-> slots[j], what |-> commands[j]]]
             k == [run[r] EXCEPT !.pc = "upsert", !.list = list, !.i = 1]
  <2>1. PICK n \in Nat : slots \in [1..n -> S]
    <3>1. IsFiniteSet(S)
      <4>1. IsFiniteSet(Slots)
        BY FS_Interval, SlotAssumption DEF Slots
      <4> QED BY <4>1, FS_Subset
    <3> QED BY <3>1, FS_CardinalityType DEF InOrder
  <2>2. n \in Nat \ {0}
    BY <1>3, <2>1
  <2>3. /\ DOMAIN list = 1..n /\ Len(list) = n
        /\ \A j \in 1..n : list[j].slot \in Slots
        /\ \A j, l \in 1..n : j < l => list[j].slot < list[l].slot
    <3>1. DOMAIN slots = 1..n /\ \A j \in 1..n : slots[j] \in S /\ slots[j] \in Slots
      BY <2>1
    <3>2. \A j, l \in 1..n : j < l => slots[j] < slots[l]
      BY <3>1 DEF InOrder
    <3>3. DOMAIN list = 1..n /\ \A j \in 1..n : list[j].slot = slots[j]
      BY <3>1
    <3>4. Len(list) = n
      BY <2>1, <3>1
    <3> HIDE DEF list
    <3> QED BY <3>1, <3>2, <3>3, <3>4
  <2>4. run' = [run EXCEPT ![r] = k]
    BY <1>3 DEF Become, IInv, Shapes
  <2> HIDE DEF list
  <2>5. DOMAIN k = {"pc", "method", "list", "i", "workflow"} /\ k.pc = "upsert" /\ k.list = list /\ k.i = 1
    BY DEF IInv, Shapes, Shape
  <2> HIDE DEF k
  <2>6. Shape(k) /\ Pending(k) = {}
    BY <2>2, <2>3, <2>5 DEF Shape, RunPcs, InLoop, Pending
  <2> QED BY <1>0, <2>4, <2>6, NoneWritten
<1> QED
  <2>1. ASSUME NEW slots \in InOrder({s \in Slots : s > now /\ optim[run[r].method][s] # None}),
               LET rows == [i \in DOMAIN slots |-> optim[run[r].method][slots[i]]]
                   list == [i \in DOMAIN slots |-> [slot |-> slots[i], what |-> Of(rows)!Commands[i]]]
               IN IF slots = <<>> THEN run' = [run EXCEPT ![r] = IdleRun]
                  ELSE Become(r, "upsert", list)
        PROVE  IInv'
    <3> DEFINE S == {s \in Slots : s > now /\ optim[run[r].method][s] # None}
               commands == Of([i \in DOMAIN slots |-> optim[run[r].method][slots[i]]])!Commands
    <3>1. CASE slots = <<>>
      BY <1>2, <2>1, <3>1
    <3>2. CASE slots # <<>>
      <4>1. Become(r, "upsert", [j \in DOMAIN slots |-> [slot |-> slots[j], what |-> commands[j]]])
        BY <2>1, <3>2
      <4>2. S \in SUBSET Slots /\ slots \in InOrder(S)
        OBVIOUS
      <4> HIDE DEF S, commands
      <4> QED BY <1>3, <3>2, <4>1, <4>2
    <3> QED BY <3>1, <3>2
  <2> QED BY <1>1, <2>1 DEF SelectOptimization

-----------------------------------------------------------------------------
(***************************************************************************)
(* Upsert.  The written slot becomes pending; when the run has written its *)
(* last item all of them are.  Another run that has the slot pending too   *)
(* makes it a mixed one.                                                   *)
(***************************************************************************)
LEMMA UpsertInv ==
  ASSUME IInv, NEW r \in Runners, Upsert(r)
  PROVE  IInv'
<1> DEFINE i == run[r].i
           list == run[r].list
           s == Item(r).slot
           new == [method |-> run[r].method, cmd |-> Item(r).what]
<1>0. /\ run[r].pc = "upsert" /\ UNCHANGED <<now, scheds, work>>
      /\ Shape(run[r]) /\ i \in DOMAIN list /\ s = list[i].slot /\ s \in Slots
      /\ DOMAIN list = 1..Len(list) /\ Len(list) \in Nat
      /\ \A j, l \in DOMAIN list : j < l => list[j].slot < list[l].slot
  BY DEF Upsert, Item, IInv, Shapes, Shape, InLoop
<1>1. Upserted(r) = [table EXCEPT ![s] = new]
  BY DEF Upserted
<1>2. /\ DOMAIN table = Slots /\ DOMAIN Upserted(r) = Slots /\ Upserted(r)[s] = new
      /\ \A u \in Slots \ {s} : Upserted(r)[u] = table[u]
  BY <1>0, <1>1 DEF IInv, Shapes
<1>3. Pending(run[r]) = {j \in DOMAIN list : j < i}
  BY <1>0 DEF Pending
<1>4. CASE /\ table' = Upserted(r) /\ Proceed(r, "upsert", "delete") /\ failed' = failed \ {s}
           /\ mixed' = IF \E q \in Runners \ {r} : s \in Unscheduled(q) THEN mixed \cup {s} ELSE mixed \ {s}
  <2> DEFINE k == IF i < Len(list) THEN [run[r] EXCEPT !.pc = "upsert", !.i = i + 1]
                  ELSE [run[r] EXCEPT !.pc = "delete", !.i = 1]
  <2>1. run' = [run EXCEPT ![r] = k]
    <3>1. CASE i < Len(list)
      BY <1>4, <3>1 DEF Proceed
    <3>2. CASE ~(i < Len(list))
      BY <1>4, <3>2 DEF Proceed
    <3> QED BY <3>1, <3>2
  <2>2. /\ DOMAIN k = {"pc", "method", "list", "i", "workflow"} /\ k.list = list
        /\ \/ i < Len(list) /\ k.pc = "upsert" /\ k.i = i + 1
           \/ i = Len(list) /\ k.pc = "delete" /\ k.i = 1
    <3>1. CASE i < Len(list)
      BY <1>0, <3>1 DEF Shape
    <3>2. CASE i = Len(list)
      BY <1>0, <3>2 DEF Shape
    <3> QED BY <1>0, <3>1, <3>2
  <2> HIDE DEF k
  <2>3. Shape(k) /\ Pending(k) = {j \in DOMAIN list : j <= i}
    <3>1. \A j \in DOMAIN list : list[j].slot \in Slots
      BY <1>0 DEF Shape, InLoop
    <3>2. k.i \in DOMAIN list /\ k.pc \in InLoop \cap RunPcs
      <4>1. i \in 1..Len(list) /\ Len(list) \in Nat /\ DOMAIN list = 1..Len(list)
        BY <1>0
      <4>2. k.pc \in {"upsert", "delete"}
        BY <2>2
      <4> HIDE DEF list, i
      <4>3. k.i \in 1..Len(list)
        <5>1. CASE i < Len(list) /\ k.i = i + 1
          BY <4>1, <5>1
        <5>2. CASE i = Len(list) /\ k.i = 1
          BY <4>1, <5>2
        <5> QED BY <2>2, <5>1, <5>2
      <4> QED BY <4>1, <4>2, <4>3 DEF InLoop, RunPcs
    <3>3. Shape(k)
      BY <1>0, <2>2, <3>1, <3>2 DEF Shape
    <3>4. Pending(k) = {j \in DOMAIN list : j <= i}
      <4>1. i \in 1..Len(list) /\ Len(list) \in Nat /\ DOMAIN list = 1..Len(list)
        BY <1>0
      <4> HIDE DEF list, i
      <4>2. CASE k.pc = "upsert"
        BY <2>2, <4>1, <4>2 DEF Pending
      <4>3. CASE k.pc = "delete"
        BY <2>2, <4>1, <4>3 DEF Pending
      <4> QED BY <2>2, <4>2, <4>3
    <3> QED BY <3>3, <3>4
  <2>4. /\ run'[r] = k
        /\ \A q \in Runners \ {r} : run'[q] = run[q]
        /\ DOMAIN run' = Runners
    BY <2>1 DEF IInv, Shapes
  <2>5. s \in SlotsOf(k) /\ SlotsOf(run[r]) \subseteq SlotsOf(k)
    <3>1. SlotsOf(k) = {list[j].slot : j \in {l \in DOMAIN list : l <= i}}
      BY <2>2, <2>3 DEF SlotsOf
    <3>2. SlotsOf(run[r]) = {list[j].slot : j \in {l \in DOMAIN list : l < i}}
      BY <1>3 DEF SlotsOf
    <3>3. i \in {l \in DOMAIN list : l <= i}
      BY <1>0
    <3>4. {l \in DOMAIN list : l < i} \subseteq {l \in DOMAIN list : l <= i}
      BY <1>0
    <3> QED BY <1>0, <3>1, <3>2, <3>3, <3>4
  <2>6. Shapes'
    BY <1>0, <1>2, <1>4, <2>3, <2>4 DEF IInv, Shapes
  <2>7. ASSUME NEW u \in Slots, Free(u)'
        PROVE  u # s /\ Free(u) /\ table'[u] = table[u]
    <3>1. u \notin SlotsOf(k) /\ u \notin failed' /\ \A q \in Runners \ {r} : u \notin SlotsOf(run[q])
      BY <2>4, <2>7 DEF Free
    <3>2. u # s /\ u \notin SlotsOf(run[r])
      BY <2>5, <3>1
    <3> QED BY <1>2, <1>4, <3>1, <3>2 DEF Free
  <2>8. \A u \in Slots \ {s} : (u \in mixed' <=> u \in mixed) /\ (u \in failed' <=> u \in failed)
    BY <1>4
  <2>9. Scheduled' /\ Agreed'
    BY <1>0, <2>7, <2>8 DEF IInv, Scheduled, Agreed
  <2>10. ASSUME NEW q \in Runners, NEW j \in Pending(run'[q]),
                table'[run'[q].list[j].slot] # None, run'[q].list[j].slot \notin failed',
                run'[q].list[j].slot \notin mixed'
         PROVE  table'[run'[q].list[j].slot].cmd = run'[q].list[j].what
    <3>1. CASE q = r
      <4>1. j \in DOMAIN list /\ j <= i /\ run'[q].list = list
        BY <2>2, <2>3, <2>4, <3>1
      <4>2. CASE j = i
        <5>1. table'[s] = new
          BY <1>2, <1>4
        <5>2. run'[q].list[j].slot = s /\ run'[q].list[j].what = Item(r).what
          BY <1>0, <4>1, <4>2 DEF Item
        <5> QED BY <5>1, <5>2
      <4>3. CASE j < i
        <5>1. j \in Pending(run[r]) /\ list[j].slot # s /\ list[j].slot \in Slots
          BY <1>0, <1>3, <4>1, <4>3 DEF Shape, InLoop, Slots
        <5> QED BY <1>2, <1>4, <2>8, <2>10, <4>1, <5>1 DEF IInv, Own
      <4> QED BY <1>0, <4>1, <4>2, <4>3
    <3>2. CASE q # r
      <4>1. run'[q] = run[q] /\ j \in Pending(run[q]) /\ Shape(run[q])
        BY <2>4, <2>10, <3>2 DEF IInv, Shapes
      <4>2. run[q].list[j].slot \in Slots /\ run[q].list[j].slot \in SlotsOf(run[q])
        BY <4>1 DEF Pending, Shape, InLoop, SlotsOf
      <4>3. run[q].list[j].slot # s
        BY <1>4, <2>10, <3>2, <4>1, <4>2, UnscheduledSlots
      <4> QED BY <1>2, <1>4, <2>8, <2>10, <4>1, <4>2, <4>3 DEF IInv, Own
    <3> QED BY <3>1, <3>2
  <2>11. Own'
    BY <2>10 DEF Own
  <2> QED BY <1>0, <2>6, <2>9, <2>11 DEF IInv, Begun
<1>5. CASE /\ table' \in {table, Upserted(r)} /\ Fail(r)
           /\ failed' = failed \cup Unscheduled(r) \cup {s} /\ UNCHANGED mixed
  <2>1. PICK e \in Ended(r) : run' = [run EXCEPT ![r] = e]
    BY <1>5 DEF Fail
  <2>2. Shape(e) /\ Pending(e) = {} /\ SlotsOf(e) = {}
    BY EndedShape, NothingPending
  <2>3. /\ run'[r] = e
        /\ \A q \in Runners \ {r} : run'[q] = run[q]
        /\ DOMAIN run' = Runners
    BY <2>1 DEF IInv, Shapes
  <2>4. Shapes'
    BY <1>0, <1>2, <1>5, <2>2, <2>3 DEF IInv, Shapes
  <2>5. s \in failed' /\ failed \subseteq failed' /\ SlotsOf(run[r]) \subseteq failed'
    BY <1>0, <1>5, UnscheduledSlots
  <2>6. ASSUME NEW u \in Slots, u \notin failed'
        PROVE  u # s /\ table'[u] = table[u] /\ u \notin failed /\ u \notin SlotsOf(run[r])
    BY <1>2, <1>5, <2>5, <2>6
  <2>7. ASSUME NEW u \in Slots, Free(u)'
        PROVE  Free(u) /\ table'[u] = table[u]
    BY <2>3, <2>6, <2>7 DEF Free
  <2>8. Scheduled' /\ Agreed'
    BY <1>0, <1>5, <2>7 DEF IInv, Scheduled, Agreed
  <2>9. ASSUME NEW q \in Runners, NEW j \in Pending(run'[q])
        PROVE  q # r /\ run'[q] = run[q] /\ run[q].list[j].slot \in Slots
    <3>1. q # r /\ run'[q] = run[q]
      BY <2>2, <2>3, <2>9
    <3> QED BY <2>9, <3>1 DEF Pending, IInv, Shapes, Shape, InLoop
  <2>10. Own'
    BY <1>5, <2>6, <2>9 DEF IInv, Own
  <2> QED BY <1>0, <2>4, <2>8, <2>10 DEF IInv, Begun
<1> QED BY <1>4, <1>5 DEF Upsert

-----------------------------------------------------------------------------
(***************************************************************************)
(* process: the slot stays pending while its schedule is deleted, and is   *)
(* pending no longer once it is created.                                   *)
(***************************************************************************)
LEMMA DeleteScheduleInv ==
  ASSUME IInv, NEW r \in Runners, DeleteSchedule(r)
  PROVE  IInv'
<1> DEFINE i == run[r].i
           list == run[r].list
           s == list[i].slot
           k == [run[r] EXCEPT !.pc = "create"]
<1>0. /\ run[r].pc = "delete" /\ UNCHANGED <<now, table, work, failed, mixed>>
      /\ Shape(run[r]) /\ i \in DOMAIN list /\ s \in Slots
      /\ DOMAIN run = Runners /\ DOMAIN scheds = Slots
  BY DEF DeleteSchedule, storeVars, histVars, IInv, Shapes, Shape, InLoop
<1>1. /\ run'[r] = k
      /\ \A q \in Runners \ {r} : run'[q] = run[q]
      /\ DOMAIN run' = Runners
  BY <1>0 DEF DeleteSchedule
<1>2. DOMAIN k = {"pc", "method", "list", "i", "workflow"} /\ k.pc = "create" /\ k.list = list /\ k.i = i
  BY <1>0 DEF Shape
<1> HIDE DEF k
<1>3. Shape(k) /\ Pending(k) = Pending(run[r]) /\ SlotsOf(k) = SlotsOf(run[r])
  BY <1>0, <1>2 DEF Shape, RunPcs, InLoop, Pending, SlotsOf
<1>4. s \in SlotsOf(run[r])
  <2>1. i \in Pending(run[r])
    BY <1>0 DEF Pending, Shape
  <2> QED BY <2>1 DEF SlotsOf
<1>5. DOMAIN scheds' = Slots /\ \A u \in Slots \ {s} : scheds'[u] = scheds[u]
  <2>1. scheds' \in {scheds, [scheds EXCEPT ![s] = None]}
    BY DEF DeleteSchedule, Item
  <2> QED BY <1>0, <2>1
<1>6. \A q \in Runners : /\ Shape(run'[q]) /\ Pending(run'[q]) = Pending(run[q])
                         /\ SlotsOf(run'[q]) = SlotsOf(run[q]) /\ run'[q].list = run[q].list
  BY <1>1, <1>2, <1>3 DEF IInv, Shapes
<1>7. Shapes'
  BY <1>0, <1>1, <1>5, <1>6 DEF IInv, Shapes
<1>8. ASSUME NEW u \in Slots, Free(u)'
      PROVE  Free(u) /\ scheds'[u] = scheds[u]
  BY <1>0, <1>4, <1>5, <1>6, <1>8 DEF Free
<1>9. Scheduled' /\ Agreed'
  BY <1>0, <1>8 DEF IInv, Scheduled, Agreed
<1>10. Own'
  BY <1>0, <1>6 DEF IInv, Own
<1> QED BY <1>0, <1>7, <1>9, <1>10 DEF IInv, Begun

\* By Own the new schedule does what the table shows.
LEMMA CreateScheduleInv ==
  ASSUME IInv, NEW r \in Runners, CreateSchedule(r)
  PROVE  IInv'
<1> DEFINE i == run[r].i
           list == run[r].list
           s == list[i].slot
           args == Args(list[i].what)
           k == IF i < Len(list) THEN [run[r] EXCEPT !.pc = "delete", !.i = i + 1]
                ELSE [run[r] EXCEPT !.pc = "once", !.i = 1]
<1>0. /\ run[r].pc = "create" /\ UNCHANGED <<now, table, work, mixed>>
      /\ Shape(run[r]) /\ i \in DOMAIN list /\ s \in Slots
      /\ DOMAIN list = 1..Len(list) /\ Len(list) \in Nat
      /\ \A j, l \in DOMAIN list : j < l => list[j].slot < list[l].slot
      /\ DOMAIN run = Runners /\ DOMAIN scheds = Slots
  BY DEF CreateSchedule, storeVars, IInv, Shapes, Shape, InLoop
<1>1. /\ run'[r] = k
      /\ \A q \in Runners \ {r} : run'[q] = run[q]
      /\ DOMAIN run' = Runners
  <2>1. run' = [run EXCEPT ![r] = k]
    <3>1. CASE i < Len(list)
      BY <3>1 DEF CreateSchedule, Proceed
    <3>2. CASE ~(i < Len(list))
      BY <3>2 DEF CreateSchedule, Proceed
    <3> QED BY <3>1, <3>2
  <2> QED BY <1>0, <2>1
<1>2. /\ DOMAIN k = {"pc", "method", "list", "i", "workflow"} /\ k.list = list
      /\ \/ i < Len(list) /\ k.pc = "delete" /\ k.i = i + 1
         \/ i = Len(list) /\ k.pc = "once" /\ k.i = 1
  <2>1. CASE i < Len(list)
    BY <1>0, <2>1 DEF Shape
  <2>2. CASE i = Len(list)
    BY <1>0, <2>2 DEF Shape
  <2> QED BY <1>0, <2>1, <2>2
<1> HIDE DEF k
<1>3. Shape(k)
  <2>1. \A j \in DOMAIN list : list[j].slot \in Slots
    BY <1>0 DEF Shape, InLoop
  <2>2. (k.pc \in InLoop => k.i \in DOMAIN list) /\ k.pc \in RunPcs
    <3>1. i \in 1..Len(list) /\ Len(list) \in Nat /\ DOMAIN list = 1..Len(list)
      BY <1>0
    <3>2. k.pc \in {"delete", "once"}
      BY <1>2
    <3> HIDE DEF list, i
    <3>3. k.pc = "delete" => k.i \in 1..Len(list)
      BY <1>2, <3>1
    <3> QED BY <3>1, <3>2, <3>3 DEF InLoop, RunPcs
  <2> QED BY <1>0, <1>2, <2>1, <2>2 DEF Shape
<1>4. Pending(run[r]) = {j \in DOMAIN list : j >= i} /\ Pending(k) = {j \in DOMAIN list : j > i}
  <2>1. i \in 1..Len(list) /\ Len(list) \in Nat /\ DOMAIN list = 1..Len(list)
    BY <1>0
  <2>2. Pending(run[r]) = {j \in DOMAIN list : j >= i}
    BY <1>0 DEF Pending
  <2>3. Pending(k) = {j \in DOMAIN list : j > i}
    <3> HIDE DEF list, i
    <3>1. CASE k.pc = "delete"
      BY <1>2, <2>1, <3>1 DEF Pending
    <3>2. CASE k.pc = "once"
      BY <1>2, <2>1, <3>2 DEF Pending
    <3> QED BY <1>2, <3>1, <3>2
  <2> QED BY <2>2, <2>3
<1>5. SlotsOf(run[r]) \subseteq SlotsOf(k) \cup {s}
  <2>1. \A j \in Pending(run[r]) : j = i \/ j \in Pending(k)
    BY <1>0, <1>4
  <2> QED BY <1>2, <2>1 DEF SlotsOf
<1>6. /\ DOMAIN scheds' = Slots /\ \A u \in Slots \ {s} : scheds'[u] = scheds[u]
      /\ failed' \in {failed, failed \cup {s}} /\ (s \notin failed' => scheds'[s] = args)
  <2>1. \/ scheds' = [scheds EXCEPT ![s] = args] /\ UNCHANGED failed
        \/ scheds' \in {scheds, [scheds EXCEPT ![s] = args]} /\ failed' = failed \cup {s}
    BY DEF CreateSchedule, Item
  <2> QED BY <1>0, <2>1
<1>7. Shapes'
  BY <1>0, <1>1, <1>3, <1>6 DEF IInv, Shapes
<1>8. args # None
  BY DEF Args, None
<1>9. ASSUME NEW u \in Slots \ {s}, Free(u)'
      PROVE  Free(u) /\ scheds'[u] = scheds[u]
  BY <1>1, <1>5, <1>6, <1>9 DEF Free
<1>10. table[s] # None /\ s \notin failed /\ s \notin mixed => table[s].cmd = list[i].what
  <2>1. i \in Pending(run[r])
    BY <1>0, <1>4
  <2> QED BY <2>1 DEF IInv, Own
<1>11. ASSUME NEW u \in Slots, u = s, Free(u)'
       PROVE  scheds'[u] = args /\ u \notin failed
  BY <1>6, <1>11 DEF Free
<1>12. Scheduled'
  <2> SUFFICES ASSUME NEW u \in Slots, u > now, table[u] # None, Free(u)'
               PROVE  scheds'[u] # None
    BY <1>0 DEF Scheduled
  <2>1. CASE u = s
    BY <1>8, <1>11, <2>1
  <2>2. CASE u # s
    BY <1>9, <2>2 DEF IInv, Scheduled
  <2> QED BY <2>1, <2>2
<1>13. ASSUME NEW u \in Slots, u > now, table[u] # None, Free(u)', u \notin mixed, scheds'[u] # None
       PROVE  scheds'[u] = Args(table[u].cmd)
  <2>1. CASE u = s
    BY <1>10, <1>11, <1>13, <2>1
  <2>2. CASE u # s
    BY <1>9, <1>13, <2>2 DEF IInv, Agreed
  <2> QED BY <2>1, <2>2
<1>14. Agreed'
  BY <1>0, <1>13 DEF Agreed
<1>15. ASSUME NEW q \in Runners
       PROVE  Pending(run'[q]) \subseteq Pending(run[q]) /\ run'[q].list = run[q].list
  <2>1. \A j \in Pending(k) : j \in Pending(run[r])
    BY <1>0, <1>4
  <2> QED BY <1>1, <1>2, <2>1
<1>16. Own'
  BY <1>0, <1>6, <1>15 DEF IInv, Own
<1> QED BY <1>0, <1>7, <1>12, <1>14, <1>16 DEF IInv, Begun

\* The one-off forecast ends the run.
LEMMA ScheduleForecastInv ==
  ASSUME IInv, NEW r \in Runners, ScheduleForecast(r)
  PROVE  IInv'
<1>0. run[r].pc \notin InLoop /\ UNCHANGED <<now, table, scheds, work, failed, mixed>>
  BY DEF ScheduleForecast, InLoop, storeVars, histVars
<1>1. CASE Fail(r)
  BY <1>0, <1>1, QuietFail
<1>2. CASE run' = [run EXCEPT ![r] = IdleRun]
  BY <1>0, <1>2, IdleShape, QuietRun
<1> QED BY <1>1, <1>2 DEF ScheduleForecast

-----------------------------------------------------------------------------
\* InitForecastSchedule takes rows away, and triggers a run that has nothing pending.
LEMMA InitStepInv ==
  ASSUME IInv, InitStart \/ InitStep
  PROVE  IInv'
<1>1. CASE InitStart \/ InitSetUp \/ InitSelect \/ DeleteAnyOptimization
  BY <1>1, Untouched DEF InitStart, InitSetUp, InitSelect, DeleteAnyOptimization, storeVars, histVars
<1>2. CASE DeleteRow
  <2>1. UNCHANGED <<now, scheds, run, work, failed, mixed>>
    BY <1>2 DEF DeleteRow, histVars
  <2>2. table' = table \/ table' = [table EXCEPT ![Head(init.list)] = None]
    BY <1>2 DEF DeleteRow
  <2>3. DOMAIN table' = Slots /\ \A u \in Slots : table'[u] \in {table[u], None}
    BY <2>2 DEF IInv, Shapes
  <2>4. Shapes'
    BY <2>1, <2>3 DEF IInv, Shapes
  <2>5. Scheduled' /\ Agreed'
    BY <2>1, <2>3 DEF IInv, Scheduled, Agreed, Free
  <2>6. ASSUME NEW q \in Runners, NEW j \in Pending(run[q])
        PROVE  run[q].list[j].slot \in Slots
    BY <2>6 DEF Pending, IInv, Shapes, Shape, InLoop
  <2>7. Own'
    BY <2>1, <2>3, <2>6 DEF IInv, Own
  <2> QED BY <2>1, <2>4, <2>5, <2>7 DEF IInv, Begun
<1>3. CASE InitTrigger
  <2>1. UNCHANGED <<now, table, scheds, work, failed, mixed>>
    BY <1>3 DEF InitTrigger, storeVars, histVars
  <2>2. CASE Triggered
    BY <2>1, <2>2, StartInv DEF Triggered
  <2>3. CASE UNCHANGED run
    BY <2>1, <2>3, Untouched
  <2> QED BY <1>3, <2>2, <2>3 DEF InitTrigger, Skipped
<1> QED BY <1>1, <1>2, <1>3 DEF InitStep

\* The workflow of a slot deletes the schedule of a slot that has begun.
LEMMA WorkflowInv ==
  ASSUME IInv, NEW s \in Slots, Workflow(s) \/ Activity(s)
  PROVE  IInv'
<1>1. /\ UNCHANGED <<now, table, run, failed, mixed>> /\ work[s] \in {"fired", "attempt"}
      /\ DOMAIN scheds' = Slots /\ \A u \in Slots \ {s} : scheds'[u] = scheds[u]
      /\ DOMAIN work' = Slots /\ \A u \in Slots \ {s} : work'[u] = work[u]
  BY DEF Workflow, Activity, storeVars, histVars, IInv, Shapes
<1>2. s <= now
  BY <1>1 DEF IInv, Begun
<1>3. Shapes'
  BY <1>1 DEF IInv, Shapes
<1>4. Begun'
  BY <1>1, <1>2 DEF IInv, Begun
<1>5. ASSUME NEW u \in Slots, u > now
      PROVE  scheds'[u] = scheds[u]
  BY <1>1, <1>2, <1>5, SlotAssumption DEF IInv, Shapes, Slots
<1>6. Scheduled' /\ Agreed'
  BY <1>1, <1>5 DEF IInv, Scheduled, Agreed, Free
<1>7. Own'
  BY <1>1 DEF IInv, Own
<1> QED BY <1>3, <1>4, <1>6, <1>7 DEF IInv

\* The slot that begins is no longer one to come.
LEMMA TickInv ==
  ASSUME IInv, Tick
  PROVE  IInv'
<1>1. /\ now' = now + 1 /\ now \in Nat /\ now' \in 0..Until
      /\ UNCHANGED <<table, scheds, run, failed, mixed>>
  BY SlotAssumption DEF Tick, storeVars, histVars, IInv, Shapes
<1>2. DOMAIN work' = Slots /\ \A u \in Slots : u # now + 1 => work'[u] = work[u]
  BY DEF Tick, IInv, Shapes
<1>3. Shapes'
  BY <1>1, <1>2 DEF IInv, Shapes
<1>4. Begun'
  BY <1>1, <1>2, SlotAssumption DEF IInv, Begun, Slots
<1>5. \A u \in Slots : u > now' => u > now
  BY <1>1, SlotAssumption DEF Slots
<1>6. Scheduled' /\ Agreed'
  BY <1>1, <1>5 DEF IInv, Scheduled, Agreed, Free
<1>7. Own'
  BY <1>1 DEF IInv, Own
<1> QED BY <1>3, <1>4, <1>6, <1>7 DEF IInv

\* A restart leaves nothing pending; what was has failed.
LEMMA CrashInv ==
  ASSUME IInv, Crash
  PROVE  IInv'
<1>1. /\ UNCHANGED <<now, table, scheds, work, mixed>>
      /\ failed' = failed \cup UNION {Unscheduled(r) : r \in Runners}
  BY DEF Crash, storeVars
<1>2. DOMAIN run' = Runners /\ \A r \in Runners : run'[r] = IdleRun \/ run'[r] \in Ended(r)
  BY DEF Crash
<1>3. \A r \in Runners : Shape(run'[r]) /\ Pending(run'[r]) = {}
  BY <1>2, IdleShape, EndedShape, NothingPending
<1>4. Shapes'
  BY <1>1, <1>2, <1>3 DEF IInv, Shapes
<1>5. ASSUME NEW u \in Slots, Free(u)'
      PROVE  Free(u)
  <2>1. u \notin failed' /\ failed \subseteq failed'
    BY <1>1, <1>5 DEF Free
  <2>2. \A r \in Runners : u \notin SlotsOf(run[r])
    BY <1>1, <2>1, UnscheduledSlots DEF IInv, Shapes
  <2> QED BY <2>1, <2>2 DEF Free
<1>6. Scheduled' /\ Agreed'
  BY <1>1, <1>5 DEF IInv, Scheduled, Agreed
<1>7. Own'
  BY <1>3 DEF Own
<1> QED BY <1>1, <1>4, <1>6, <1>7 DEF IInv, Begun

-----------------------------------------------------------------------------
\* Initially the table is empty and no run is under way.
LEMMA InitInv == Init => IInv
<1> SUFFICES ASSUME Init
             PROVE  IInv
  OBVIOUS
<1>1. Shapes
  BY IdleShape, SlotAssumption DEF Init, Shapes
<1>2. \A r \in Runners : Pending(run[r]) = {}
  BY IdleShape, NothingPending DEF Init
<1>3. Begun /\ Scheduled /\ Agreed
  BY DEF Init, Begun, Scheduled, Agreed
<1>4. Own
  BY <1>2 DEF Own
<1> QED BY <1>1, <1>3, <1>4 DEF IInv

\* Every step preserves the invariant.
LEMMA StepInv == IInv /\ [Next]_vars => IInv'
<1> SUFFICES ASSUME IInv, [Next]_vars
             PROVE  IInv'
  OBVIOUS
<1>1. ASSUME NEW r \in Runners, Start(r)
      PROVE  IInv'
  <2>1. run[r].pc = "idle" /\ UNCHANGED <<now, table, scheds, work, failed, mixed>>
    BY <1>1 DEF Start, storeVars, histVars
  <2>2. PICK m : Started(r, m) \/ Processed(r, m)
    BY <1>1 DEF Start
  <2> QED BY <2>1, <2>2, StartInv
<1>2. ASSUME NEW r \in Runners, RunStep(r)
      PROVE  IInv'
  BY <1>2, ForecastInv, InsertInv, SelectInv, UpsertInv, DeleteScheduleInv, CreateScheduleInv,
     ScheduleForecastInv DEF RunStep
<1>3. CASE InitStart \/ InitStep
  BY <1>3, InitStepInv
<1>4. ASSUME NEW s \in Slots, Workflow(s) \/ Activity(s)
      PROVE  IInv'
  BY <1>4, WorkflowInv
<1>5. CASE Tick
  BY <1>5, TickInv
<1>6. CASE Crash
  BY <1>6, CrashInv
<1>7. CASE UNCHANGED vars
  BY <1>7, Untouched DEF vars, storeVars, histVars
<1> QED BY <1>1, <1>2, <1>3, <1>4, <1>5, <1>6, <1>7 DEF Next

\* The slots that are settled are those no run has pending and no failure has touched.
LEMMA SettledFree ==
  ASSUME IInv, NEW s \in Settled
  PROVE  s \in Slots /\ s > now /\ table[s] # None /\ Free(s)
  BY UnscheduledSlots DEF Settled, Free, IInv, Shapes

(***************************************************************************)
(* However runs, /init and the inverter workflows overlap and whatever     *)
(* fails: a row of the time to come has a schedule as soon as its run has  *)
(* been past it (output, process, and the workflow's deletion).            *)
(***************************************************************************)
THEOREM EveryRowScheduled == Spec => []RowsScheduled
<1>1. IInv => RowsScheduled
  BY SettledFree DEF RowsScheduled, IInv, Scheduled
<1> QED BY <1>1, InitInv, StepInv, PTL DEF Spec

(***************************************************************************)
(* And that schedule does what the table shows, unless two runs were       *)
(* writing the row together: no schedule of an earlier plan survives       *)
(* process.                                                                *)
(***************************************************************************)
THEOREM PlanKept == Spec => []PlanAgreed
<1>1. IInv => PlanAgreed
  BY SettledFree DEF PlanAgreed, IInv, Agreed
<1> QED BY <1>1, InitInv, StepInv, PTL DEF Spec

-----------------------------------------------------------------------------
(***************************************************************************)
(* Type correctness.  The invariant says what a run's list holds: rows of  *)
(* an answer while they are inserted, commands from the upserts on, and at *)
(* least one, for the last is where the one-off forecast goes; and which   *)
(* slots InitForecastSchedule has still to delete.                         *)
(***************************************************************************)
Writing == {"upsert", "delete", "create", "once"}

RunTyped(k) ==
  /\ k.method \in Methods
  /\ k.pc = "insert" =>
       k.i \in DOMAIN k.list /\ \A j \in DOMAIN k.list : k.list[j].slot \in Slots /\ k.list[j].what \in Row
  /\ k.pc \in Writing =>
       Len(k.list) # 0 /\ \A j \in DOMAIN k.list : k.list[j].slot \in Slots /\ k.list[j].what \in Command

RunsTyped == \A r \in Runners : RunTyped(run[r])

InitTyped ==
  /\ init \in [pc : InitPcs, list : Seq(Slots)]
  /\ init.pc \in {"optim", "row"} => init.list # <<>>

Planned(t)   == \A s \in Slots : t[s] # None => t[s].method \in Methods /\ t[s].cmd \in Command
Creatable(t) == \A s \in Slots : t[s] # None => t[s].soc \in 0..100

StoreTyped ==
  /\ optim \in [Methods -> [Slots -> Row \cup {None}]]
  /\ Planned(table) /\ Creatable(scheds) /\ once \in 0..LastSlot

RestTyped ==
  /\ work \in [Slots -> {"none", "fired", "attempt", "done"}]
  /\ left \in [Events -> Nat]
  /\ failed \subseteq Slots /\ mixed \subseteq Slots

TInv == IInv /\ RunsTyped /\ InitTyped /\ StoreTyped /\ RestTyped

-----------------------------------------------------------------------------
(***************************************************************************)
(* What GetCommands makes of a list of rows: for each hour a command that  *)
(* Temporal and the inverter know, its levels between 0 and 100.           *)
(***************************************************************************)
Turn(l, f, i) ==
  IF i > 1 /\ Of(l)!Cheap(i) /\ Of(l)!Cheap(i - 1) /\ f[i - 1] > l[i].soc THEN f[i - 1] ELSE l[i].soc

LEMMA RowsOf ==
  ASSUME NEW l \in Seq(Row)
  PROVE  Len(l) \in Nat /\ \A i \in 1..Len(l) : l[i].cost \in Int /\ l[i].soc \in 0..100
<1>1. Len(l) \in Nat /\ \A i \in 1..Len(l) : l[i] \in Row
  BY ElementOf
<1> QED BY <1>1 DEF Row

\* The running maximum of a block is a level.
LEMMA MonotonicTypes ==
  ASSUME NEW l \in Seq(Row)
  PROVE  \A i \in 1..Len(l) : Of(l)!Monotonic[i] \in 0..100
<1> DEFINE n == Len(l)
           Body(i, x) == IF i > 1 /\ Of(l)!Cheap(i) /\ Of(l)!Cheap(i - 1) /\ x > l[i].soc
                         THEN x ELSE l[i].soc
           step == [i \in 1..n |-> [x \in 0..100 |-> Body(i, x)]]
<1>1. n \in Nat /\ \A i \in 1..n : l[i].soc \in 0..100
  BY RowsOf
<1>2. step \in [1..n -> [0..100 -> 0..100]]
  <2>1. \A i \in 1..n : \A x \in 0..100 : Body(i, x) \in 0..100
    BY <1>1
  <2> HIDE DEF Body
  <2>2. \A i \in 1..n : [x \in 0..100 |-> Body(i, x)] \in [0..100 -> 0..100]
    BY <2>1
  <2> QED BY <2>2
<1> HIDE DEF n, step
<1>3. PICK f : IsLoop(f, 0..100, n, 0, step)
  <2>1. 0 \in 0..100
    OBVIOUS
  <2> QED BY <1>1, <1>2, <2>1, Loop
<1> DEFINE g == [i \in 1..n |-> f[i]]
<1>4. ASSUME NEW i \in 1..n
      PROVE  f[i] = Body(i, f[i - 1]) /\ (i > 1 => g[i - 1] = f[i - 1])
  <2>1. i \in 1..n /\ i - 1 \in 0..n /\ (i > 1 => i - 1 \in 1..n)
    BY <1>1
  <2>2. f[i - 1] \in 0..100 /\ f[i] = step[i][f[i - 1]]
    BY <1>3, <2>1 DEF IsLoop
  <2> QED BY <2>1, <2>2 DEF step
<1>5. \A i \in 1..n : f[i] = Turn(l, g, i)
  <2> HIDE DEF g
  <2> QED BY <1>4 DEF Turn
<1>6. g = [i \in 1..n |-> Turn(l, g, i)]
  BY <1>5
<1> HIDE DEF g
<1> DEFINE soc == CHOOSE h : h = [i \in 1..n |-> Turn(l, h, i)]
<1>7. Of(l)!Monotonic = soc
  BY DEF Of!Monotonic, Of!Hours, Turn, n
<1>8. soc = [i \in 1..n |-> Turn(l, soc, i)]
  BY <1>6
<1> HIDE DEF soc
<1>9. \A i \in 1..n : soc[i] = Turn(l, soc, i)
  BY <1>8
<1> DEFINE T == {m \in 0..n : m = 0 \/ soc[m] \in 0..100}
<1>10. 0 \in T
  BY <1>1
<1>11. ASSUME NEW m \in 0..n, m # n, m \in T
       PROVE  m + 1 \in T
  <2>1. m + 1 \in 1..n /\ m + 1 \in 0..n /\ (m + 1) - 1 = m /\ (m + 1 > 1 => m # 0)
    BY <1>1, <1>11
  <2>2. (soc[m + 1] = soc[m] /\ m # 0) \/ soc[m + 1] = l[m + 1].soc
    BY <1>9, <2>1 DEF Turn
  <2>3. l[m + 1].soc \in 0..100
    BY <1>1, <2>1
  <2> QED BY <1>11, <2>1, <2>2, <2>3
<1>12. 0..n \subseteq T
  <2> HIDE DEF T
  <2> QED BY <1>1, <1>10, <1>11, UpTo
<1>13. \A i \in 1..n : i \in 0..n /\ i # 0
  BY <1>1
<1> QED BY <1>7, <1>12, <1>13 DEF n

LEMMA CommandTypes ==
  ASSUME NEW l \in Seq(Row)
  PROVE  \A i \in 1..Len(l) : Of(l)!Commands[i] \in Command
<1> SUFFICES ASSUME NEW i \in 1..Len(l)
             PROVE  Of(l)!Commands[i] \in Command
  OBVIOUS
<1>1. Of(l)!Commands[i] = Of(l)!Command(i)
  BY DEF Of!Commands, Of!Hours
<1>2. l[i].soc \in 0..100 /\ Of(l)!Monotonic[i] \in 0..100
  BY RowsOf, MonotonicTypes
<1>3. i # Len(l) => i + 1 \in 1..Len(l)
  BY RowsOf
<1>4. i # Len(l) => l[i + 1].soc \in 0..100
  BY <1>3, RowsOf
<1>5. Of(l)!TargetSoc(i) \in 0..100
  BY <1>2, <1>4 DEF Of!TargetSoc
<1>6. /\ Of(l)!BatteryFirst = Of(<<>>)!BatteryFirst /\ Of(l)!LoadFirst = Of(<<>>)!LoadFirst
      /\ Of(l)!Minimum \in 0..100
  BY DEF Of!BatteryFirst, Of!LoadFirst, Of!Minimum
<1>7. Of(l)!Command(i) \in [do : {Of(l)!BatteryFirst, Of(l)!LoadFirst}, soc : 0..100, target : 0..100]
  BY <1>2, <1>5, <1>6 DEF Of!Command
<1> QED BY <1>1, <1>6, <1>7 DEF Command

-----------------------------------------------------------------------------
\* An error or a restart is spent from the budget, whoever has it.
LEMMA SpendTyped ==
  ASSUME NEW e \in Events, left \in [Events -> Nat], Spend(e)
  PROVE  left' \in [Events -> Nat]
<1>1. left[e] \in Nat /\ left[e] > 0 /\ left' = [left EXCEPT ![e] = left[e] - 1]
  BY DEF Spend
<1>2. left[e] - 1 \in Nat
  BY <1>1
<1> QED BY <1>1, <1>2

\* One run takes a step.
LEMMA RunStepTyped ==
  ASSUME IInv, RunsTyped, NEW r \in Runners, NEW k, RunTyped(k), run' = [run EXCEPT ![r] = k]
  PROVE  RunsTyped'
<1>1. ASSUME NEW q \in Runners
      PROVE  RunTyped(run'[q])
  <2>1. run'[q] = IF q = r THEN k ELSE run[q]
    BY DEF IInv, Shapes
  <2> QED BY <2>1 DEF RunsTyped
<1> QED BY <1>1 DEF RunsTyped

\* A run that is idle or begins an activity has no list.
LEMMA BeginTyped ==
  ASSUME NEW m \in Methods, NEW pc \in {"forecast", "select"}, NEW workflow
  PROVE  RunTyped(At(pc, m, workflow))
<1> DEFINE k == At(pc, m, workflow)
<1>1. k.pc = pc /\ k.method = m
  BY DEF IdleRun, At
<1> HIDE DEF k
<1>2. RunTyped(k)
  BY <1>1 DEF RunTyped, Writing
<1> QED BY <1>2 DEF k

LEMMA IdleTyped == RunTyped(IdleRun)
<1>1. IdleRun.pc = "idle" /\ IdleRun.method = Dayahead
  BY DEF IdleRun
<1> QED BY <1>1, MethodAssumption DEF RunTyped, Writing

LEMMA EndedTyped ==
  ASSUME RunsTyped, NEW r \in Runners, NEW e \in Ended(r)
  PROVE  RunTyped(e)
<1>1. CASE e = IdleRun
  BY <1>1, IdleTyped
<1>2. CASE e = At(Stage(r), run[r].method, TRUE)
  <2>1. Stage(r) \in {"forecast", "select"} /\ run[r].method \in Methods
    BY DEF Stage, RunsTyped, RunTyped
  <2> QED BY <1>2, <2>1, BeginTyped
<1> QED BY <1>1, <1>2 DEF Ended

LEMMA StartedTyped ==
  ASSUME IInv, RunsTyped, NEW r \in Runners, NEW m \in Methods, Started(r, m) \/ Processed(r, m)
  PROVE  RunsTyped'
<1>1. RunTyped(At("forecast", m, TRUE)) /\ RunTyped(At("select", m, FALSE))
  BY BeginTyped
<1> QED BY <1>1, RunStepTyped DEF Started, Processed

LEMMA FailTyped ==
  ASSUME IInv, RunsTyped, left \in [Events -> Nat], NEW r \in Runners, Fail(r)
  PROVE  RunsTyped' /\ left' \in [Events -> Nat]
<1>1. PICK e \in Ended(r) : run' = [run EXCEPT ![r] = e]
  BY DEF Fail
<1>2. RunsTyped'
  BY <1>1, EndedTyped, RunStepTyped
<1>3. Spend("fault") /\ "fault" \in Events
  BY DEF Fail, Events
<1> QED BY <1>2, <1>3, SpendTyped

\* The loops over commands keep their list.
LEMMA ProceedTyped ==
  ASSUME IInv, RunsTyped, NEW r \in Runners, NEW again \in Writing, NEW done \in Writing,
         run[r].pc \in Writing, Proceed(r, again, done)
  PROVE  RunsTyped'
<1> DEFINE k == IF run[r].i < Len(run[r].list) THEN [run[r] EXCEPT !.pc = again, !.i = run[r].i + 1]
                ELSE [run[r] EXCEPT !.pc = done, !.i = 1]
<1>1. run' = [run EXCEPT ![r] = k]
  <2>1. CASE run[r].i < Len(run[r].list)
    BY <2>1 DEF Proceed, IInv, Shapes
  <2>2. CASE ~(run[r].i < Len(run[r].list))
    BY <2>2 DEF Proceed, IInv, Shapes
  <2> QED BY <2>1, <2>2
<1>2. k.pc \in {again, done} /\ k.list = run[r].list /\ k.method = run[r].method
  BY DEF IInv, Shapes, Shape
<1> HIDE DEF k
<1>3. RunTyped(k)
  BY <1>2 DEF RunTyped, RunsTyped, Writing
<1> QED BY <1>1, <1>3, RunStepTyped

\* The item a run is at.
LEMMA ItemTyped ==
  ASSUME IInv, RunsTyped, NEW r \in Runners
  PROVE  /\ run[r].method \in Methods
         /\ run[r].pc = "insert" => Item(r).slot \in Slots /\ Item(r).what \in Row
         /\ run[r].pc \in InLoop => Item(r).slot \in Slots /\ Item(r).what \in Command
<1>1. RunTyped(run[r]) /\ Shape(run[r])
  BY DEF IInv, Shapes, RunsTyped
<1> QED BY <1>1 DEF RunTyped, Shape, Item, InLoop, Writing

-----------------------------------------------------------------------------
\* A run starts.
LEMMA StartTyped ==
  ASSUME TInv, NEW r \in Runners, Start(r)
  PROVE  RunsTyped' /\ InitTyped' /\ StoreTyped' /\ RestTyped'
<1>1. UNCHANGED <<optim, table, scheds, init, work, failed, mixed>> /\ Spend("run")
  BY DEF Start, storeVars, histVars
<1>2. \E m \in Methods : Started(r, m) \/ Processed(r, m)
  BY MethodAssumption DEF Start
<1>3. once' \in 0..LastSlot
  BY SlotAssumption DEF Start, TInv, StoreTyped
<1>4. left' \in [Events -> Nat]
  BY <1>1, SpendTyped DEF Events, TInv, RestTyped
<1>5. RunsTyped'
  BY <1>2, StartedTyped DEF TInv
<1> QED BY <1>1, <1>3, <1>4, <1>5 DEF TInv, InitTyped, StoreTyped, RestTyped, Planned, Creatable

\* Rows of an answer go into the list for slots up to the last one.
LEMMA ForecastTyped ==
  ASSUME TInv, NEW r \in Runners, Forecast(r)
  PROVE  RunsTyped' /\ InitTyped' /\ StoreTyped' /\ RestTyped'
<1>1. UNCHANGED <<optim, table, scheds, once, init, work, failed, mixed>>
  BY DEF Forecast, storeVars, histVars
<1>2. RunsTyped' /\ left' \in [Events -> Nat]
  <2>1. CASE Fail(r)
    BY <2>1, FailTyped DEF TInv, RestTyped
  <2>2. CASE UNCHANGED left /\ \E plan \in Plans :
             LET n == IF now + Len(plan) > LastSlot THEN LastSlot - now ELSE Len(plan)
             IN Become(r, IF n = 0 THEN "select" ELSE "insert",
                       [i \in 1..n |-> [slot |-> now + i, what |-> plan[i]]])
    <3>1. PICK plan \in Plans :
             LET n == IF now + Len(plan) > LastSlot THEN LastSlot - now ELSE Len(plan)
             IN Become(r, IF n = 0 THEN "select" ELSE "insert",
                       [i \in 1..n |-> [slot |-> now + i, what |-> plan[i]]])
      BY <2>2
    <3> DEFINE n == IF now + Len(plan) > LastSlot THEN LastSlot - now ELSE Len(plan)
               list == [i \in 1..n |-> [slot |-> now + i, what |-> plan[i]]]
               pc == IF n = 0 THEN "select" ELSE "insert"
               k == [run[r] EXCEPT !.pc = pc, !.list = list, !.i = 1]
    <3>2. Len(plan) \in Nat /\ \A i \in 1..Len(plan) : plan[i] \in Row
      BY PlansAssumption, ElementOf DEF Row
    <3>3. /\ n \in Nat /\ LastSlot \in Nat /\ now \in Nat
          /\ \A i \in 1..n : i \in 1..Len(plan) /\ now + i \in 1..LastSlot
      BY <3>2, SlotAssumption DEF TInv, IInv, Shapes
    <3>4. run' = [run EXCEPT ![r] = k]
      BY <3>1 DEF Become, TInv, IInv, Shapes
    <3> HIDE DEF n
    <3>5. DOMAIN list = 1..n /\ \A j \in 1..n : list[j].slot \in Slots /\ list[j].what \in Row
      BY <3>2, <3>3 DEF Slots
    <3> HIDE DEF list
    <3>6. k.pc = pc /\ k.list = list /\ k.i = 1 /\ k.method = run[r].method
      BY DEF TInv, IInv, Shapes, Shape
    <3> HIDE DEF k
    <3>7. run[r].method \in Methods
      BY DEF TInv, RunsTyped, RunTyped
    <3>8. k.pc = "insert" => k.i \in 1..n
      BY <3>3, <3>6
    <3>9. k.pc \notin Writing
      BY <3>6 DEF Writing
    <3>10. RunTyped(k)
      BY <3>5, <3>6, <3>7, <3>8, <3>9 DEF RunTyped
    <3> QED BY <2>2, <3>4, <3>10, RunStepTyped DEF TInv, RestTyped
  <2> QED BY <2>1, <2>2 DEF Forecast
<1> QED BY <1>1, <1>2 DEF TInv, InitTyped, StoreTyped, RestTyped, Planned, Creatable

LEMMA InsertTyped ==
  ASSUME TInv, NEW r \in Runners, InsertOptimization(r)
  PROVE  RunsTyped' /\ InitTyped' /\ StoreTyped' /\ RestTyped'
<1> DEFINE m == run[r].method
           s == Item(r).slot
<1>0. run[r].pc = "insert" /\ UNCHANGED <<table, scheds, once, init, work, failed, mixed>>
  BY DEF InsertOptimization, histVars
<1>1. m \in Methods /\ s \in Slots /\ Item(r).what \in Row
  BY <1>0, ItemTyped DEF TInv
<1>2. optim' \in [Methods -> [Slots -> Row \cup {None}]]
  <2>1. optim' \in {optim, [optim EXCEPT ![m][s] = Item(r).what]}
    BY DEF InsertOptimization
  <2> HIDE DEF m, s
  <2> QED BY <1>1, <2>1 DEF TInv, StoreTyped
<1>3. RunsTyped' /\ left' \in [Events -> Nat]
  <2>1. CASE Fail(r)
    BY <2>1, FailTyped DEF TInv, RestTyped
  <2>2. CASE UNCHANGED left /\ run[r].i < Len(run[r].list) /\ Proceed(r, "insert", "insert")
    <3> DEFINE k == [run[r] EXCEPT !.pc = "insert", !.i = run[r].i + 1]
    <3>1. run' = [run EXCEPT ![r] = k]
      BY <2>2 DEF Proceed, TInv, IInv, Shapes
    <3>2. k.pc = "insert" /\ k.list = run[r].list /\ k.i = run[r].i + 1 /\ k.method = m
      BY DEF TInv, IInv, Shapes, Shape
    <3> HIDE DEF k
    <3>3. DOMAIN run[r].list = 1..Len(run[r].list) /\ Len(run[r].list) \in Nat /\ RunTyped(run[r])
      BY DEF TInv, IInv, Shapes, Shape, RunsTyped
    <3>4. run[r].i + 1 \in DOMAIN run[r].list
      BY <1>0, <2>2, <3>3 DEF RunTyped
    <3>5. RunTyped(k)
      BY <1>0, <3>2, <3>3, <3>4 DEF RunTyped, Writing
    <3> QED BY <2>2, <3>1, <3>5, RunStepTyped DEF TInv, RestTyped
  <2>3. CASE UNCHANGED left /\ Become(r, "select", <<>>)
    <3> DEFINE k == [run[r] EXCEPT !.pc = "select", !.list = <<>>, !.i = 1]
    <3>1. run' = [run EXCEPT ![r] = k]
      BY <2>3 DEF Become, TInv, IInv, Shapes
    <3>2. k.pc = "select" /\ k.method = m
      BY DEF TInv, IInv, Shapes, Shape
    <3> HIDE DEF k
    <3>3. RunTyped(k)
      BY <1>1, <3>2 DEF RunTyped, Writing
    <3> QED BY <2>3, <3>1, <3>3, RunStepTyped DEF TInv, RestTyped
  <2> QED BY <2>1, <2>2, <2>3 DEF InsertOptimization
<1> QED BY <1>0, <1>2, <1>3 DEF TInv, InitTyped, StoreTyped, RestTyped, Planned, Creatable

\* The rows selected are a list of rows, and what GetCommands makes of them commands.
LEMMA SelectTyped ==
  ASSUME TInv, NEW r \in Runners, SelectOptimization(r)
  PROVE  RunsTyped' /\ InitTyped' /\ StoreTyped' /\ RestTyped'
<1> DEFINE m == run[r].method
           S == {s \in Slots : s > now /\ optim[m][s] # None}
           rows(slots) == [i \in DOMAIN slots |-> optim[m][slots[i]]]
           items(slots) == [i \in DOMAIN slots |->
                              [slot |-> slots[i], what |-> Of(rows(slots))!Commands[i]]]
<1>1. UNCHANGED <<optim, table, scheds, once, init, work, failed, mixed>>
  BY DEF SelectOptimization, storeVars, histVars
<1>2. RunsTyped' /\ left' \in [Events -> Nat]
  <2>1. CASE Fail(r)
    BY <2>1, FailTyped DEF TInv, RestTyped
  <2>2. ASSUME NEW slots \in InOrder(S), UNCHANGED left,
               IF slots = <<>> THEN run' = [run EXCEPT ![r] = IdleRun]
               ELSE Become(r, "upsert", items(slots))
        PROVE  RunsTyped' /\ left' \in [Events -> Nat]
    <3>1. CASE slots = <<>>
      BY <2>2, <3>1, IdleTyped, RunStepTyped DEF TInv, RestTyped
    <3>2. CASE slots # <<>>
      <4> DEFINE list == items(slots)
                 k == [run[r] EXCEPT !.pc = "upsert", !.list = list, !.i = 1]
      <4>1. m \in Methods
        BY DEF TInv, RunsTyped, RunTyped
      <4>2. S \subseteq Slots /\ \A s \in S : optim[m][s] \in Row
        BY <4>1 DEF TInv, StoreTyped
      <4>3. PICK n \in Nat : slots \in [1..n -> S]
        <5>1. IsFiniteSet(Slots)
          BY FS_Interval, SlotAssumption DEF Slots
        <5> HIDE DEF S
        <5>2. IsFiniteSet(S)
          BY <4>2, <5>1, FS_Subset
        <5> QED BY <2>2, <5>2, FS_CardinalityType DEF InOrder
      <4>4. n # 0 /\ DOMAIN slots = 1..n /\ \A i \in 1..n : slots[i] \in S
        BY <3>2, <4>3
      <4>5. rows(slots) \in [1..n -> Row]
        <5> HIDE DEF S
        <5> QED BY <4>2, <4>4
      <4>6. rows(slots) \in Seq(Row) /\ Len(rows(slots)) = n
        <5> HIDE DEF rows
        <5> QED BY <4>3, <4>5, ListOf
      <4>7. \A i \in 1..n : Of(rows(slots))!Commands[i] \in Command
        <5> HIDE DEF rows
        <5> QED BY <4>6, CommandTypes
      <4>8. /\ DOMAIN list = 1..n /\ Len(list) = n
            /\ \A j \in 1..n : list[j].slot \in Slots /\ list[j].what \in Command
        <5> DEFINE commands == Of(rows(slots))!Commands
        <5>1. \A j \in 1..n : slots[j] \in Slots /\ commands[j] \in Command
          BY <4>2, <4>4, <4>7
        <5> HIDE DEF rows, S, commands
        <5>2. list = [i \in 1..n |-> [slot |-> slots[i], what |-> commands[i]]]
          BY <4>4 DEF commands
        <5> HIDE DEF items
        <5> QED BY <4>3, <5>1, <5>2
      <4>9. run' = [run EXCEPT ![r] = k]
        <5> HIDE DEF items
        <5> QED BY <2>2, <3>2 DEF Become, TInv, IInv, Shapes
      <4> HIDE DEF items
      <4>10. k.pc = "upsert" /\ k.list = list /\ k.method = m
        BY DEF TInv, IInv, Shapes, Shape
      <4> HIDE DEF k, list
      <4>11. RunTyped(k)
        BY <4>1, <4>4, <4>8, <4>10 DEF RunTyped
      <4> HIDE DEF m
      <4> QED BY <2>2, <4>9, <4>11, RunStepTyped DEF TInv, RestTyped
    <3> QED BY <3>1, <3>2
  <2>3. Fail(r) \/ \E slots \in InOrder(S) : /\ UNCHANGED left
               /\ IF slots = <<>> THEN run' = [run EXCEPT ![r] = IdleRun]
                  ELSE Become(r, "upsert", items(slots))
    BY DEF SelectOptimization
  <2> HIDE DEF S, items
  <2> QED BY <2>1, <2>2, <2>3
<1> QED BY <1>1, <1>2 DEF TInv, InitTyped, StoreTyped, RestTyped, Planned, Creatable

LEMMA UpsertTyped ==
  ASSUME TInv, NEW r \in Runners, Upsert(r)
  PROVE  RunsTyped' /\ InitTyped' /\ StoreTyped' /\ RestTyped'
<1> DEFINE s == Item(r).slot
           new == [method |-> run[r].method, cmd |-> Item(r).what]
<1>0. run[r].pc = "upsert" /\ UNCHANGED <<optim, scheds, once, init, work>>
  BY DEF Upsert
<1>1. s \in Slots /\ new.method \in Methods /\ new.cmd \in Command
  BY <1>0, ItemTyped DEF TInv, InLoop
<1>2. Planned(table')
  <2>1. table' \in {table, [table EXCEPT ![s] = new]}
    BY DEF Upsert, Upserted
  <2>2. DOMAIN table = Slots
    BY DEF TInv, IInv, Shapes
  <2> HIDE DEF new
  <2>3. \A u \in Slots : table'[u] = table[u] \/ table'[u] = new
    BY <2>1, <2>2
  <2> QED BY <1>1, <2>3 DEF TInv, StoreTyped, Planned
<1>3. Unscheduled(r) \subseteq Slots
  <2>1. Unscheduled(r) = SlotsOf(run[r]) /\ Shape(run[r])
    BY UnscheduledSlots DEF TInv, IInv, Shapes
  <2> QED BY <1>0, <2>1 DEF SlotsOf, Pending, Shape, InLoop
<1>4. failed' \subseteq Slots /\ mixed' \subseteq Slots
  <2>1. failed' \subseteq failed \cup Unscheduled(r) \cup {s} /\ mixed' \subseteq mixed \cup {s}
    BY DEF Upsert
  <2> QED BY <1>1, <1>3, <2>1 DEF TInv, RestTyped
<1>5. RunsTyped' /\ left' \in [Events -> Nat]
  <2>1. CASE Fail(r)
    BY <2>1, FailTyped DEF TInv, RestTyped
  <2>2. CASE Proceed(r, "upsert", "delete") /\ UNCHANGED left
    BY <1>0, <2>2, ProceedTyped DEF TInv, RestTyped, Writing
  <2> QED BY <2>1, <2>2 DEF Upsert
<1> QED BY <1>0, <1>2, <1>4, <1>5 DEF TInv, InitTyped, StoreTyped, RestTyped, Planned, Creatable

LEMMA DeleteScheduleTyped ==
  ASSUME TInv, NEW r \in Runners, DeleteSchedule(r)
  PROVE  RunsTyped' /\ InitTyped' /\ StoreTyped' /\ RestTyped'
<1>0. /\ run[r].pc = "delete" /\ run' = [run EXCEPT ![r].pc = "create"]
      /\ UNCHANGED <<optim, table, once, init, work, failed, mixed>>
  BY DEF DeleteSchedule, storeVars, histVars
<1>1. Creatable(scheds')
  <2>1. scheds' \in {scheds, [scheds EXCEPT ![Item(r).slot] = None]}
    BY DEF DeleteSchedule
  <2>2. DOMAIN scheds = Slots
    BY DEF TInv, IInv, Shapes
  <2>3. \A u \in Slots : scheds'[u] = scheds[u] \/ scheds'[u] = None
    BY <2>1, <2>2
  <2> QED BY <2>3 DEF TInv, StoreTyped, Creatable
<1>2. RunsTyped'
  <2> DEFINE k == [run[r] EXCEPT !.pc = "create"]
  <2>1. run' = [run EXCEPT ![r] = k]
    BY <1>0 DEF TInv, IInv, Shapes
  <2>2. k.pc = "create" /\ k.list = run[r].list /\ k.method = run[r].method
    BY DEF TInv, IInv, Shapes, Shape
  <2> HIDE DEF k
  <2>3. RunTyped(run[r])
    BY DEF TInv, RunsTyped
  <2>4. RunTyped(k)
    BY <1>0, <2>2, <2>3 DEF RunTyped, Writing
  <2> QED BY <2>1, <2>4, RunStepTyped DEF TInv
<1>3. left' \in [Events -> Nat]
  BY SpendTyped DEF DeleteSchedule, Events, TInv, RestTyped
<1> QED BY <1>0, <1>1, <1>2, <1>3 DEF TInv, InitTyped, StoreTyped, RestTyped, Planned

LEMMA CreateScheduleTyped ==
  ASSUME TInv, NEW r \in Runners, CreateSchedule(r)
  PROVE  RunsTyped' /\ InitTyped' /\ StoreTyped' /\ RestTyped'
<1> DEFINE s == Item(r).slot
           new == Args(Item(r).what)
<1>0. /\ run[r].pc = "create" /\ Proceed(r, "delete", "once")
      /\ UNCHANGED <<optim, table, once, init, work, mixed>>
  BY DEF CreateSchedule, storeVars
<1>1. s \in Slots /\ new.soc \in 0..100
  <2>1. s \in Slots /\ Item(r).what \in Command
    BY <1>0, ItemTyped DEF TInv, InLoop
  <2> QED BY <2>1 DEF Args, Command
<1>2. Creatable(scheds')
  <2>1. scheds' \in {scheds, [scheds EXCEPT ![s] = new]}
    BY DEF CreateSchedule
  <2>2. DOMAIN scheds = Slots
    BY DEF TInv, IInv, Shapes
  <2> HIDE DEF new
  <2>3. \A u \in Slots : scheds'[u] = scheds[u] \/ scheds'[u] = new
    BY <2>1, <2>2
  <2> QED BY <1>1, <2>3 DEF TInv, StoreTyped, Creatable
<1>3. failed' \subseteq Slots
  BY <1>1 DEF CreateSchedule, TInv, RestTyped
<1>4. RunsTyped'
  BY <1>0, ProceedTyped DEF TInv, Writing
<1>5. left' \in [Events -> Nat]
  BY SpendTyped DEF CreateSchedule, Events, TInv, RestTyped
<1> QED BY <1>0, <1>2, <1>3, <1>4, <1>5 DEF TInv, InitTyped, StoreTyped, RestTyped, Planned

\* The one-off forecast runs at the last slot of the list.
LEMMA ScheduleForecastTyped ==
  ASSUME TInv, NEW r \in Runners, ScheduleForecast(r)
  PROVE  RunsTyped' /\ InitTyped' /\ StoreTyped' /\ RestTyped'
<1>0. run[r].pc = "once" /\ UNCHANGED <<optim, table, scheds, init, work, failed, mixed>>
  BY DEF ScheduleForecast, storeVars, histVars
<1>1. run[r].list[Len(run[r].list)].slot \in Slots
  <2>1. RunTyped(run[r]) /\ Shape(run[r])
    BY DEF TInv, IInv, Shapes, RunsTyped
  <2>2. Len(run[r].list) \in DOMAIN run[r].list
    BY <1>0, <2>1 DEF RunTyped, Shape, Writing
  <2> QED BY <1>0, <2>1, <2>2 DEF RunTyped, Writing
<1>2. once' \in 0..LastSlot
  BY <1>1, SlotAssumption DEF ScheduleForecast, TInv, StoreTyped, Slots
<1>3. RunsTyped' /\ left' \in [Events -> Nat]
  <2>1. CASE Fail(r)
    BY <2>1, FailTyped DEF TInv, RestTyped
  <2>2. CASE run' = [run EXCEPT ![r] = IdleRun] /\ UNCHANGED left
    BY <2>2, IdleTyped, RunStepTyped DEF TInv, RestTyped
  <2> QED BY <2>1, <2>2 DEF ScheduleForecast
<1> QED BY <1>0, <1>2, <1>3 DEF TInv, InitTyped, StoreTyped, RestTyped, Planned, Creatable

-----------------------------------------------------------------------------
\* InitForecastSchedule deletes the slots it has selected one by one.
LEMMA InitStepTyped ==
  ASSUME TInv, InitStart \/ InitStep
  PROVE  RunsTyped' /\ InitTyped' /\ StoreTyped' /\ RestTyped'
<1>0. InitTyped /\ StoreTyped /\ RestTyped
  BY DEF TInv
<1>1. IdleInit \in [pc : InitPcs, list : Seq(Slots)] /\ IdleInit.pc = "idle"
  BY DEF IdleInit, InitPcs
<1>2. ASSUME InitFails
      PROVE  InitTyped' /\ left' \in [Events -> Nat]
  BY <1>0, <1>1, <1>2, SpendTyped DEF InitFails, InitTyped, RestTyped, Events
<1>3. ASSUME UNCHANGED run
      PROVE  RunsTyped'
  BY <1>3 DEF TInv, RunsTyped
<1>4. CASE InitStart
  <2>1. UNCHANGED <<optim, table, scheds, once, run, work, failed, mixed>>
    BY <1>4 DEF InitStart, storeVars, histVars
  <2>2. InitTyped'
    BY <1>1, <1>4 DEF InitStart, InitTyped, IdleInit, InitPcs
  <2>3. left' \in [Events -> Nat]
    BY <1>0, <1>4, SpendTyped DEF InitStart, RestTyped, Events
  <2> QED BY <1>0, <1>3, <2>1, <2>2, <2>3 DEF StoreTyped, RestTyped, Planned, Creatable
<1>5. CASE InitSelect
  <2>1. UNCHANGED <<optim, table, scheds, once, run, work, failed, mixed>>
    BY <1>5 DEF InitSelect, storeVars, histVars
  <2>2. InitTyped' /\ left' \in [Events -> Nat]
    <3>1. CASE InitFails
      BY <1>2, <3>1
    <3>2. ASSUME NEW S \in SUBSET Slots, NEW rows \in InOrder(S), UNCHANGED left,
                 init' = [pc |-> IF rows = <<>> THEN "trigger" ELSE "optim", list |-> rows]
          PROVE  InitTyped' /\ left' \in [Events -> Nat]
      <4>1. Cardinality(S) \in Nat
        <5>1. IsFiniteSet(Slots)
          BY FS_Interval, SlotAssumption DEF Slots
        <5> QED BY <5>1, FS_Subset, FS_CardinalityType
      <4>2. rows \in [1..Cardinality(S) -> Slots]
        BY <3>2 DEF InOrder
      <4>3. rows \in Seq(Slots)
        BY <4>1, <4>2, ListOf
      <4> QED BY <1>0, <3>2, <4>3 DEF InitTyped, InitPcs, RestTyped
    <3>3. PICK S \in SUBSET Slots :
             \/ /\ UNCHANGED left
                /\ \E rows \in InOrder(S) :
                     init' = [pc |-> IF rows = <<>> THEN "trigger" ELSE "optim", list |-> rows]
             \/ InitFails
      <4> DEFINE S == {s \in Slots : s > now /\ table[s] # None}
      <4>1. S \in SUBSET Slots
        OBVIOUS
      <4> QED BY <1>5, <4>1 DEF InitSelect
    <3> QED BY <3>1, <3>2, <3>3
  <2> QED BY <1>0, <1>3, <2>1, <2>2 DEF StoreTyped, RestTyped, Planned, Creatable
<1>6. CASE DeleteAnyOptimization
  <2>1. init.pc = "optim" /\ UNCHANGED <<table, scheds, once, run, work, failed, mixed>>
    BY <1>6 DEF DeleteAnyOptimization, histVars
  <2>2. optim' \in [Methods -> [Slots -> Row \cup {None}]]
    <3> DEFINE deleted == [m \in Methods |-> [optim[m] EXCEPT ![Head(init.list)] = None]]
    <3>1. \A m \in Methods : [optim[m] EXCEPT ![Head(init.list)] = None] \in [Slots -> Row \cup {None}]
      BY <1>0 DEF StoreTyped
    <3>2. deleted \in [Methods -> [Slots -> Row \cup {None}]]
      BY <3>1
    <3>3. optim' \in {optim, deleted}
      BY <1>6 DEF DeleteAnyOptimization
    <3> HIDE DEF deleted
    <3> QED BY <1>0, <3>2, <3>3 DEF StoreTyped
  <2>3. InitTyped' /\ left' \in [Events -> Nat]
    <3>1. CASE InitFails
      BY <1>2, <3>1
    <3>2. CASE init' = [init EXCEPT !.pc = "row"] /\ UNCHANGED left
      BY <1>0, <2>1, <3>2 DEF InitTyped, InitPcs, RestTyped
    <3> QED BY <1>6, <3>1, <3>2 DEF DeleteAnyOptimization
  <2> QED BY <1>0, <1>3, <2>1, <2>2, <2>3 DEF StoreTyped, RestTyped, Planned, Creatable
<1>7. CASE DeleteRow
  <2>1. init.pc = "row" /\ UNCHANGED <<optim, scheds, once, run, work, failed, mixed>>
    BY <1>7 DEF DeleteRow, histVars
  <2>2. Planned(table')
    <3>1. table' \in {table, [table EXCEPT ![Head(init.list)] = None]} /\ DOMAIN table = Slots
      BY <1>7 DEF DeleteRow, TInv, IInv, Shapes
    <3>2. \A u \in Slots : table'[u] = table[u] \/ table'[u] = None
      BY <3>1
    <3> QED BY <1>0, <3>2 DEF StoreTyped, Planned
  <2>3. InitTyped' /\ left' \in [Events -> Nat]
    <3>1. CASE InitFails
      BY <1>2, <3>1
    <3>2. CASE UNCHANGED left
               /\ init' = [pc |-> IF Len(init.list) = 1 THEN "trigger" ELSE "optim", list |-> Tail(init.list)]
      <4>1. init.list \in Seq(Slots) /\ init.list # <<>>
        BY <1>0, <2>1 DEF InitTyped
      <4>2. Tail(init.list) \in Seq(Slots) /\ (Len(init.list) # 1 => Tail(init.list) # <<>>)
        <5>1. Len(Tail(init.list)) = Len(init.list) - 1 /\ Len(init.list) \in Nat /\ Len(init.list) # 0
          BY <4>1
        <5>2. Tail(init.list) \in Seq(Slots)
          BY <4>1
        <5>3. Len(<<>>) = 0
          OBVIOUS
        <5>4. Len(init.list) # 1 => Len(Tail(init.list)) # 0
          BY <5>1
        <5>5. Len(init.list) # 1 => Tail(init.list) # <<>>
          BY <5>3, <5>4
        <5> QED BY <5>2, <5>5
      <4> QED BY <1>0, <3>2, <4>2 DEF InitTyped, InitPcs, RestTyped
    <3> QED BY <1>7, <3>1, <3>2 DEF DeleteRow
  <2> QED BY <1>0, <1>3, <2>1, <2>2, <2>3 DEF StoreTyped, RestTyped, Creatable
<1>8. CASE InitTrigger
  <2>1. UNCHANGED <<optim, table, scheds, once, work, failed, mixed>>
    BY <1>8 DEF InitTrigger, storeVars, histVars
  <2>2. RunsTyped'
    <3>1. CASE Triggered
      BY <3>1, MethodAssumption, StartedTyped DEF TInv, Triggered
    <3> QED BY <1>3, <1>8, <3>1 DEF InitTrigger, Skipped
  <2>3. InitTyped' /\ left' \in [Events -> Nat]
    <3>1. CASE InitFails
      BY <1>2, <3>1
    <3>2. CASE init' = IdleInit /\ UNCHANGED left
      BY <1>0, <1>1, <3>2 DEF InitTyped, RestTyped
    <3> QED BY <1>8, <3>1, <3>2 DEF InitTrigger
  <2> QED BY <1>0, <2>1, <2>2, <2>3 DEF StoreTyped, RestTyped, Planned, Creatable
<1>9. CASE InitSetUp
  <2>1. init.pc = "setup" /\ UNCHANGED <<optim, table, scheds, once, run, work, failed, mixed>>
    BY <1>9 DEF InitSetUp, storeVars, histVars
  <2>2. InitTyped' /\ left' \in [Events -> Nat]
    <3>1. CASE InitFails
      BY <1>2, <3>1
    <3>2. CASE init' = [init EXCEPT !.pc = "select"] /\ UNCHANGED left
      BY <1>0, <3>2 DEF InitTyped, InitPcs, RestTyped
    <3> QED BY <1>9, <3>1, <3>2 DEF InitSetUp
  <2> QED BY <1>0, <1>3, <2>1, <2>2 DEF StoreTyped, RestTyped, Planned, Creatable
<1> QED BY <1>4, <1>5, <1>6, <1>7, <1>8, <1>9 DEF InitStep

\* The inverter workflow of a slot, and the time.
LEMMA WorkflowTyped ==
  ASSUME TInv, (\E s \in Slots : Workflow(s) \/ Activity(s)) \/ Tick
  PROVE  RunsTyped' /\ InitTyped' /\ StoreTyped' /\ RestTyped'
<1>0. StoreTyped /\ RestTyped /\ DOMAIN scheds = Slots
  BY DEF TInv, IInv, Shapes
<1>1. UNCHANGED <<optim, table, once, run, init, failed, mixed>>
  BY DEF Workflow, Activity, Tick, storeVars, histVars
<1>2. Creatable(scheds') /\ left' \in [Events -> Nat]
  <2>1. CASE \E s \in Slots : Workflow(s)
    <3>1. PICK s \in Slots : Workflow(s)
      BY <2>1
    <3>2. \A u \in Slots : scheds'[u] = scheds[u] \/ scheds'[u] = None
      BY <1>0, <3>1 DEF Workflow
    <3>3. left' = left \/ Spend("fault")
      BY <3>1 DEF Workflow
    <3> QED BY <1>0, <3>2, <3>3, SpendTyped DEF StoreTyped, Creatable, RestTyped, Events
  <2>2. CASE \E s \in Slots : Activity(s)
    <3>1. UNCHANGED scheds /\ (left' = left \/ Spend("fault"))
      BY <2>2 DEF Activity
    <3> QED BY <1>0, <3>1, SpendTyped DEF StoreTyped, Creatable, RestTyped, Events
  <2>3. CASE Tick
    BY <1>0, <2>3 DEF Tick, StoreTyped, Creatable, RestTyped
  <2> QED BY <2>1, <2>2, <2>3
<1>3. work' \in [Slots -> {"none", "fired", "attempt", "done"}]
  BY <1>0 DEF Workflow, Activity, Tick, RestTyped
<1> QED BY <1>0, <1>1, <1>2, <1>3 DEF TInv, RunsTyped, InitTyped, StoreTyped, RestTyped, Planned

LEMMA CrashTyped ==
  ASSUME TInv, Crash
  PROVE  RunsTyped' /\ InitTyped' /\ StoreTyped' /\ RestTyped'
<1>0. /\ UNCHANGED <<optim, table, scheds, once, work, mixed>> /\ Spend("fault")
      /\ failed' = failed \cup UNION {Unscheduled(r) : r \in Runners}
  BY DEF Crash, storeVars
<1>1. RunsTyped'
  <2>1. \A r \in Runners : run'[r] = IdleRun \/ run'[r] \in Ended(r)
    BY DEF Crash
  <2> QED BY <2>1, IdleTyped, EndedTyped DEF TInv, RunsTyped
<1>2. InitTyped'
  <2>1. init' \in {[pc |-> "idle", list |-> <<>>], [pc |-> "setup", list |-> <<>>]}
    BY DEF Crash, IdleInit
  <2>2. CASE init' = [pc |-> "idle", list |-> <<>>]
    BY <2>2 DEF InitTyped, InitPcs
  <2>3. CASE init' = [pc |-> "setup", list |-> <<>>]
    BY <2>3 DEF InitTyped, InitPcs
  <2> QED BY <2>1, <2>2, <2>3
<1>3. \A r \in Runners : Unscheduled(r) \subseteq Slots
  <2> SUFFICES ASSUME NEW r \in Runners
               PROVE  Unscheduled(r) \subseteq Slots
    OBVIOUS
  <2>1. Unscheduled(r) = SlotsOf(run[r]) /\ Shape(run[r])
    BY UnscheduledSlots DEF TInv, IInv, Shapes
  <2> QED BY <2>1 DEF SlotsOf, Pending, Shape, InLoop
<1>4. left' \in [Events -> Nat]
  BY <1>0, SpendTyped DEF TInv, RestTyped, Events
<1> QED BY <1>0, <1>1, <1>2, <1>3, <1>4 DEF TInv, StoreTyped, RestTyped, Planned, Creatable

LEMMA InitTInv == Init => TInv
<1> SUFFICES ASSUME Init
             PROVE  TInv
  OBVIOUS
<1>1. RunsTyped
  BY IdleTyped DEF Init, RunsTyped
<1>2. InitTyped
  BY DEF Init, InitTyped, IdleInit, InitPcs
<1>3. StoreTyped
  BY SlotAssumption DEF Init, StoreTyped, Planned, Creatable
<1>4. RestTyped
  BY BudgetAssumption DEF Init, RestTyped
<1> QED BY <1>1, <1>2, <1>3, <1>4, InitInv DEF TInv

LEMMA StepTInv == TInv /\ [Next]_vars => TInv'
<1> SUFFICES ASSUME TInv, [Next]_vars
             PROVE  TInv'
  OBVIOUS
<1>1. IInv'
  BY StepInv DEF TInv
<1>2. RunsTyped' /\ InitTyped' /\ StoreTyped' /\ RestTyped'
  <2>1. CASE \E r \in Runners : Start(r)
    BY <2>1, StartTyped
  <2>2. ASSUME NEW r \in Runners, RunStep(r)
        PROVE  RunsTyped' /\ InitTyped' /\ StoreTyped' /\ RestTyped'
    BY <2>2, ForecastTyped, InsertTyped, SelectTyped, UpsertTyped, DeleteScheduleTyped,
       CreateScheduleTyped, ScheduleForecastTyped DEF RunStep
  <2>3. CASE InitStart \/ InitStep
    BY <2>3, InitStepTyped
  <2>4. CASE (\E s \in Slots : Workflow(s) \/ Activity(s)) \/ Tick
    BY <2>4, WorkflowTyped
  <2>5. CASE Crash
    BY <2>5, CrashTyped
  <2>6. CASE UNCHANGED vars
    BY <2>6 DEF vars, storeVars, histVars, TInv, RunsTyped, InitTyped, StoreTyped, RestTyped,
       Planned, Creatable
  <2> QED BY <2>1, <2>2, <2>3, <2>4, <2>5, <2>6 DEF Next
<1> QED BY <1>1, <1>2 DEF TInv

(***************************************************************************)
(* Every variable has its type, whatever EMHASS answers: what an answer's  *)
(* rows become in the table are commands with a level between 0 and 100,   *)
(* a run in a loop is at an item of its list, and the one-off forecast is  *)
(* at a slot that is planned.                                              *)
(***************************************************************************)
THEOREM TypeCorrect == Spec => []TypeOK
<1>1. TInv => TypeOK
  <2> SUFFICES ASSUME TInv
               PROVE  TypeOK
    OBVIOUS
  <2>1. \A r \in Runners : run[r].pc \in RunPcs /\
          (run[r].pc \in {"insert", "upsert", "delete", "create"} => run[r].i \in DOMAIN run[r].list)
    BY DEF TInv, IInv, Shapes, Shape, InLoop, RunsTyped, RunTyped
  <2>2. init.pc \in InitPcs
    BY DEF TInv, InitTyped
  <2> QED BY <2>1, <2>2 DEF TypeOK, TInv, IInv, Shapes, StoreTyped, RestTyped, Planned, Creatable
<1> QED BY <1>1, InitTInv, StepTInv, PTL DEF Spec
=============================================================================
