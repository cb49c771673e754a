------------------------ MODULE SolarAssistantProofs ------------------------
(***************************************************************************)
(* The controller uses the settings cache only through its operations; its *)
(* mirror agrees with the inverter up to the reports under way; the revert *)
(* acts on a mirror that still shows a charging inverter.  All of it for   *)
(* any number of workers, any commands, any faults within any budget.      *)
(***************************************************************************)
EXTENDS SolarAssistant, StateHandlerProofs

LEMMA JobShape == NoCommand \in Job /\ \A s \in Percents : Revert(s) \in Job
  BY DEF NoCommand, Revert, Job, Strings, Percents

LEMMA ClampType == \A s \in Percents : Clamp(s) \in Percents
  BY DEF Clamp, Percents

LEMMA MessageShape ==
  /\ \A f \in Fields : \A v \in Values[f] : [f |-> f, v |-> v] \in Message
  /\ \A m \in Message : m.f \in Fields /\ m.v \in Values[m.f]
  BY DEF Message

LEMMA DeviceShape ==
  ASSUME NEW d \in Device
  PROVE  /\ \A f \in Fields : d[f] \in Values[f]
         /\ \A f \in Fields : \A v \in Values[f] : [d EXCEPT ![f] = v] \in Device
         /\ \A f \in Fields, g \in Fields : \A v :
              [d EXCEPT ![f] = v][g] = IF g = f THEN v ELSE d[g]
<1>1. DOMAIN d = Fields
  BY DEF Device, Fields
<1>2. \A f \in Fields : d[f] \in Values[f]
  BY DEF Device, Fields, Values
<1>3. ASSUME NEW f \in Fields, NEW v \in Values[f]
      PROVE  [d EXCEPT ![f] = v] \in Device
  <2>1. CASE f = "soc"    BY <2>1, <1>3 DEF Device, Values
  <2>2. CASE f = "stop"   BY <2>2, <1>3 DEF Device, Values
  <2>3. CASE f = "mode"   BY <2>3, <1>3 DEF Device, Values
  <2>4. CASE f = "charge" BY <2>4, <1>3 DEF Device, Values
  <2> QED BY <2>1, <2>2, <2>3, <2>4 DEF Fields
<1> QED BY <1>1, <1>2, <1>3

LEMMA SpendType ==
  ASSUME left \in [Events -> Nat], NEW e \in Events, Spend(e)
  PROVE  left' \in [Events -> Nat]
  BY DEF Spend

(***************************************************************************)
(* The cache's setters, as the controller calls them: a call of the cache  *)
(* is a step of it, and keeps the cache's types.                           *)
(***************************************************************************)
LEMMA CacheStep ==
  ASSUME TypeOK, NEW p \in Procs, NEW next,
         NEW c \in Copies, NEW f \in Fields, <<c, f>> \in Cells, NEW v \in Values[f],
         CacheSet(p, c, f, v, next)
  PROVE  /\ HandlerTypeOK'
         /\ [HandlerNext]_handlerVars
         /\ c = "target" => local'["current"] = local["current"]
         /\ left' \in [Events -> Nat]
         /\ Goto(p, next) \/ Goto(p, "idle")
<1>1. PICK o \in [n : 0..Statements(c, f), ok : BOOLEAN] :
        /\ Set(c, f, v, o)
        /\ o = Success(c, f) \/ o \in Failures(c, f)
  BY OutcomeShape DEF CacheSet, CacheOk, CacheErr
<1>2. HandlerTypeOK'
  BY <1>1, SetType DEF TypeOK
<1>3. HandlerNext
  <2>1. <<c, f, v>> \in Calls
    BY CallsAssumption DEF AllCalls
  <2> QED BY <1>1, <2>1 DEF HandlerNext, SetSucceeds, SetErrs
<1>4. c = "target" => local'["current"] = local["current"]
  BY <1>1 DEF Set, handlerVars, TypeOK, HandlerTypeOK, Copies
<1>5. left' \in [Events -> Nat]
  BY SpendType DEF CacheSet, CacheOk, CacheErr, TypeOK, Events
<1>6. Goto(p, next) \/ Goto(p, "idle")
  BY DEF CacheSet, CacheOk, CacheErr
<1> QED BY <1>2, <1>3, <1>4, <1>5, <1>6

LEMMA PublishStep ==
  ASSUME TypeOK, NEW p \in Procs, NEW next, NEW f \in Fields, NEW v \in Values[f],
         Publish(p, f, v, next)
  PROVE  /\ cmds' \in Seq(Message)
         /\ left' \in [Events -> Nat]
         /\ Goto(p, next) \/ Goto(p, "idle")
<1>1. [f |-> f, v |-> v] \in Message
  BY MessageShape
<1>2. cmds' \in Seq(Message)
  <2>1. cmds \in Seq(Message)
    BY DEF TypeOK
  <2>2. Append(cmds, [f |-> f, v |-> v]) \in Seq(Message)
    BY <1>1, <2>1
  <2>3. cmds' = cmds \/ cmds' = Append(cmds, [f |-> f, v |-> v])
    BY DEF Publish
  <2> QED BY <2>1, <2>2, <2>3
<1>3. left' \in [Events -> Nat]
  BY SpendType DEF Publish, TypeOK, Events
<1>4. Goto(p, next) \/ Goto(p, "idle")
  BY DEF Publish
<1> QED BY <1>2, <1>3, <1>4

LEMMA GotoType ==
  ASSUME pc \in [Procs -> WorkerPcs \cup CallbackPcs], NEW p \in Procs,
         NEW l \in WorkerPcs \cup CallbackPcs, Goto(p, l)
  PROVE  /\ pc' \in [Procs -> WorkerPcs \cup CallbackPcs]
         /\ \A q \in Procs : pc'[q] = IF q = p THEN l ELSE pc[q]
  BY DEF Goto

\* A step that only moves p: reading the mirror or waiting.
LEMMA MoveType ==
  ASSUME TypeOK, NEW p \in Procs, NEW l \in WorkerPcs \cup CallbackPcs, Goto(p, l),
         UNCHANGED <<handlerVars, job, plantVars, left, histVars>>,
         l \in {"gcPub", "gcTgt"} => job[p].charge \in GridCharges,
         l \in {"wmPub", "wmTgt"} => job[p].mode \in WorkModes
  PROVE  TypeOK'
  BY GotoType DEF TypeOK, HandlerTypeOK, handlerVars, plantVars, histVars

\* The two setters shared by Process and SetCurrentSOC.
LEMMA SetterType ==
  ASSUME TypeOK, NEW p \in Procs, SetterStep(p)
  PROVE  TypeOK'
<1> USE DEF WorkerPcs, CallbackPcs
<1>0. /\ pc \in [Procs -> WorkerPcs \cup CallbackPcs] /\ job \in [Procs -> Job]
      /\ AfterCharge(p) \in {"idle", "wmRead"} /\ AfterMode(p) \in {"gcRead", "sdPub"}
      /\ <<"target", "charge">> \in Cells /\ <<"target", "mode">> \in Cells
      /\ "charge" \in Fields /\ "mode" \in Fields /\ "target" \in Copies
      /\ Values["charge"] = GridCharges /\ Values["mode"] = WorkModes
  BY DEF TypeOK, AfterCharge, AfterMode, Cells, Fields, Copies, Values
<1>1. CASE ChargeRead(p)
  BY <1>0, <1>1, MoveType DEF ChargeRead
<1>2. CASE ModeRead(p)
  BY <1>0, <1>2, MoveType DEF ModeRead
<1>3. CASE ChargePublish(p)
  <2>1. job[p].charge \in Values["charge"]
    BY <1>0, <1>3 DEF ChargePublish, TypeOK
  <2>2. /\ cmds' \in Seq(Message) /\ left' \in [Events -> Nat]
        /\ Goto(p, "gcTgt") \/ Goto(p, "idle")
    BY <1>0, <1>3, <2>1, PublishStep DEF ChargePublish
  <2> QED BY <1>0, <1>3, <2>1, <2>2, GotoType
          DEF ChargePublish, NoteRevert, TypeOK, HandlerTypeOK, handlerVars
<1>4. CASE ModePublish(p)
  <2>1. job[p].mode \in Values["mode"]
    BY <1>0, <1>4 DEF ModePublish, TypeOK
  <2>2. /\ cmds' \in Seq(Message) /\ left' \in [Events -> Nat]
        /\ Goto(p, "wmTgt") \/ Goto(p, "idle")
    BY <1>0, <1>4, <2>1, PublishStep DEF ModePublish
  <2> QED BY <1>0, <1>4, <2>1, <2>2, GotoType
          DEF ModePublish, NoteRevert, TypeOK, HandlerTypeOK, handlerVars
<1>5. CASE ChargeTarget(p)
  <2>1. job[p].charge \in Values["charge"]
    BY <1>0, <1>5 DEF ChargeTarget, TypeOK
  <2>2. /\ HandlerTypeOK' /\ left' \in [Events -> Nat]
        /\ Goto(p, AfterCharge(p)) \/ Goto(p, "idle")
    BY <1>0, <1>5, <2>1, CacheStep DEF ChargeTarget
  <2> QED BY <1>0, <1>5, <2>2, GotoType DEF ChargeTarget, TypeOK, plantVars, histVars
<1>6. CASE ModeTarget(p)
  <2>1. job[p].mode \in Values["mode"]
    BY <1>0, <1>6 DEF ModeTarget, TypeOK
  <2>2. /\ HandlerTypeOK' /\ left' \in [Events -> Nat]
        /\ Goto(p, AfterMode(p)) \/ Goto(p, "idle")
    BY <1>0, <1>6, <2>1, CacheStep DEF ModeTarget
  <2> QED BY <1>0, <1>6, <2>2, GotoType DEF ModeTarget, TypeOK, plantVars, histVars
<1> QED BY <1>1, <1>2, <1>3, <1>4, <1>5, <1>6 DEF SetterStep

LEMMA WorkerType ==
  ASSUME TypeOK, NEW w \in Workers, Process(w) \/ WorkerStep(w)
  PROVE  TypeOK'
<1> USE DEF WorkerPcs, CallbackPcs
<1>0. /\ pc \in [Procs -> WorkerPcs \cup CallbackPcs] /\ job \in [Procs -> Job]
      /\ w \in Procs /\ Clamp(job[w].soc) \in Percents
      /\ <<"target", "soc">> \in Cells /\ "soc" \in Fields /\ "stop" \in Fields
      /\ "target" \in Copies /\ Values["soc"] = Percents /\ Values["stop"] = Percents
  BY ClampType DEF TypeOK, Procs, Job, Cells, Fields, Copies, Values
<1>1. CASE SetterStep(w)
  BY <1>0, <1>1, SetterType
<1>2. CASE StopPublish(w)
  <2>1. /\ cmds' \in Seq(Message) /\ left' \in [Events -> Nat]
        /\ Goto(w, "sdPoll") \/ Goto(w, "idle")
    BY <1>0, <1>2, PublishStep DEF StopPublish
  <2> QED BY <1>0, <1>2, <2>1, GotoType
          DEF StopPublish, TypeOK, HandlerTypeOK, handlerVars, histVars
<1>3. CASE StopPoll(w)
  BY <1>0, <1>3, MoveType DEF StopPoll
<1>4. CASE StopTick(w)
  BY <1>0, <1>4, MoveType DEF StopTick
<1>5. CASE StopTimeout(w)
  BY <1>0, <1>5, MoveType DEF StopTimeout
<1>6. CASE StopTarget(w)
  <2>1. CacheSet(w, "target", "soc", Clamp(job[w].soc), "idle")
    BY <1>6 DEF StopTarget, CacheSet
  <2>2. /\ HandlerTypeOK' /\ left' \in [Events -> Nat] /\ Goto(w, "idle")
    BY <1>0, <2>1, CacheStep
  <2>3. done' \in Job
    BY <1>0, <1>6 DEF StopTarget, TypeOK
  <2> QED BY <1>0, <1>6, <2>2, <2>3, GotoType DEF StopTarget, TypeOK, plantVars
<1>7. CASE Process(w)
  <2>1. job' \in [Procs -> Job] /\ NoCommand \in Job
    BY <1>0, <1>7, CommandsAssumption, JobShape DEF Process
  <2>2. \A q \in Procs : q # w => job'[q] = job[q]
    BY <1>0, <1>7 DEF Process
  <2>3. left' \in [Events -> Nat]
    BY <1>7, SpendType DEF Process, TypeOK, Events
  <2>4. /\ pc' \in [Procs -> WorkerPcs \cup CallbackPcs] /\ pc'[w] = "gcRead"
        /\ \A q \in Procs : q # w => pc'[q] = pc[q]
    BY <1>0, <1>7, GotoType DEF Process
  <2>5. \A q \in Procs : /\ pc'[q] \in {"gcPub", "gcTgt"} => job'[q].charge \in GridCharges
                         /\ pc'[q] \in {"wmPub", "wmTgt"} => job'[q].mode \in WorkModes
    BY <2>2, <2>4 DEF TypeOK
  <2>6. HandlerTypeOK'
    BY <1>7 DEF Process, TypeOK, HandlerTypeOK, handlerVars
  <2> QED BY <1>7, <2>1, <2>3, <2>4, <2>5, <2>6 DEF Process, TypeOK, plantVars
<1> QED BY <1>1, <1>2, <1>3, <1>4, <1>5, <1>6, <1>7 DEF WorkerStep

LEMMA TailType ==
  ASSUME NEW S, NEW q \in Seq(S), q # <<>>
  PROVE  Head(q) \in S /\ Tail(q) \in Seq(S)
  OBVIOUS

\* A report of a setting names a cell of the current row.
LEMMA HeadShape ==
  ASSUME TypeOK, reps # <<>>
  PROVE  /\ Head(reps) \in Message /\ Tail(reps) \in Seq(Message)
         /\ Head(reps).f \in Fields /\ Head(reps).v \in Values[Head(reps).f]
         /\ <<"current", Head(reps).f>> \in Cells /\ "current" \in Copies
<1>1. Head(reps) \in Message /\ Tail(reps) \in Seq(Message)
  BY TailType DEF TypeOK
<1> QED BY <1>1, MessageShape DEF Cells, Copies

LEMMA CallbackType ==
  ASSUME TypeOK, CallbackStep
  PROVE  TypeOK'
<1> USE DEF WorkerPcs, CallbackPcs
<1>0. /\ pc \in [Procs -> WorkerPcs \cup CallbackPcs] /\ job \in [Procs -> Job]
      /\ Callback \in Procs
  BY DEF TypeOK, Procs
<1>1. CASE SettingReport
  <2>1. CacheSet(Callback, "current", Head(reps).f, Head(reps).v, "idle")
    BY <1>1 DEF SettingReport, CacheSet
  <2>2. /\ HandlerTypeOK' /\ left' \in [Events -> Nat] /\ Goto(Callback, "idle")
        /\ reps' \in Seq(Message)
    BY <1>0, <1>1, <2>1, HeadShape, CacheStep DEF SettingReport
  <2>3. synced' \in SUBSET Fields
    BY <1>1 DEF SettingReport, Unsync, TypeOK
  <2> QED BY <1>0, <1>1, <2>2, <2>3, GotoType DEF SettingReport, TypeOK
<1>2. CASE SocReport
  <2>1. CacheSet(Callback, "current", "soc", Head(reps).v, "csTarget")
    BY <1>2 DEF SocReport, CacheSet
  <2>2. /\ Head(reps).v \in Percents /\ <<"current", "soc">> \in Cells
        /\ Head(reps).v \in Values["soc"] /\ "current" \in Copies /\ "soc" \in Fields
        /\ reps' \in Seq(Message)
    <3>1. Values["soc"] = Percents /\ Head(reps).f = "soc" /\ reps # <<>>
      BY <1>2 DEF SocReport, Values
    <3> QED BY <1>2, <3>1, HeadShape DEF SocReport
  <2>3. /\ HandlerTypeOK' /\ left' \in [Events -> Nat]
        /\ Goto(Callback, "csTarget") \/ Goto(Callback, "idle")
    BY <1>0, <2>1, <2>2, CacheStep
  <2>4. synced' \in SUBSET Fields
    BY <1>2 DEF SocReport, Unsync, TypeOK
  <2>5. /\ job' \in [Procs -> Job]
        /\ \A q \in Procs : q # Callback => job'[q] = job[q]
    BY <1>0, <1>2, <2>2, JobShape DEF SocReport
  <2> QED BY <1>0, <1>2, <2>2, <2>3, <2>4, <2>5, GotoType DEF SocReport, TypeOK
<1>3. CASE ReadTargetSoc
  BY <1>0, <1>3, MoveType DEF ReadTargetSoc
<1>4. CASE ReadCharge
  BY <1>0, <1>4, MoveType DEF ReadCharge
<1>5. CASE ReadMode
  BY <1>0, <1>5, MoveType DEF ReadMode
<1>6. CASE SetterStep(Callback)
  BY <1>0, <1>6, SetterType
<1> QED BY <1>1, <1>2, <1>3, <1>4, <1>5, <1>6 DEF CallbackStep

LEMMA EnvironmentType ==
  ASSUME TypeOK, Environment
  PROVE  TypeOK'
<1>1. CASE DeviceApplies
  <2>1. /\ Head(cmds) \in Message /\ cmds' \in Seq(Message)
    BY <1>1, TailType DEF DeviceApplies, TypeOK
  <2>2. /\ Head(cmds).f \in Fields /\ Head(cmds).v \in Values[Head(cmds).f]
    BY <2>1, MessageShape
  <2>3. dev' \in Device
    BY <1>1, <2>2, DeviceShape DEF DeviceApplies, TypeOK
  <2>4. reps' \in Seq(Message) /\ synced' \in SUBSET Fields
    BY <1>1, <2>2, MessageShape DEF DeviceApplies, Report, TypeOK
  <2> QED BY <1>1, <2>1, <2>3, <2>4 DEF DeviceApplies, TypeOK, HandlerTypeOK, handlerVars
<1>2. ASSUME NEW f \in Unprompted, DeviceReports(f) PROVE TypeOK'
  <2>1. f \in Fields /\ dev[f] \in Values[f]
    BY ReportAssumption, DeviceShape DEF TypeOK
  <2>2. reps' \in Seq(Message) /\ synced' \in SUBSET Fields
    BY <1>2, <2>1, MessageShape DEF DeviceReports, Report, TypeOK
  <2> QED BY <1>2, <2>2 DEF DeviceReports, TypeOK, HandlerTypeOK, handlerVars
<1>3. CASE BatteryMoves
  <2>1. dev' \in Device
    BY <1>3, DeviceShape DEF BatteryMoves, TypeOK, Fields, Values, Percents
  <2>2. synced' \in SUBSET Fields /\ left' \in [Events -> Nat]
    BY <1>3, SpendType DEF BatteryMoves, TypeOK, Events
  <2> QED BY <1>3, <2>1, <2>2 DEF BatteryMoves, TypeOK, HandlerTypeOK, handlerVars
<1>4. CASE ReportLost
  <2>1. reps' \in Seq(Message)
    BY <1>4, HeadShape DEF ReportLost
  <2>2. synced' \in SUBSET Fields /\ left' \in [Events -> Nat]
    BY <1>4, SpendType DEF ReportLost, Unsync, TypeOK, Events
  <2> QED BY <1>4, <2>1, <2>2 DEF ReportLost, TypeOK, HandlerTypeOK, handlerVars
<1>5. CASE Crash
  <2>1. HandlerTypeOK'
    BY <1>5, RestartType DEF Crash, Restart, TypeOK, HandlerTypeOK
  <2>2. left' \in [Events -> Nat]
    BY <1>5, SpendType DEF Crash, Events, TypeOK
  <2>3. NoCommand \in Job
    BY JobShape
  <2>4. /\ pc' \in [Procs -> WorkerPcs \cup CallbackPcs] /\ job' \in [Procs -> Job]
        /\ \A p \in Procs : pc'[p] = "idle"
    BY <1>5, <2>3 DEF Crash, WorkerPcs
  <2>5. reps' \in Seq(Message) /\ synced' \in SUBSET Fields
    BY <1>5 DEF Crash
  <2> QED BY <1>5, <2>1, <2>2, <2>3, <2>4, <2>5 DEF Crash, TypeOK
<1> QED BY <1>1, <1>2, <1>3, <1>4, <1>5 DEF Environment

LEMMA InitType == Init => TypeOK
<1> SUFFICES ASSUME Init PROVE TypeOK
  OBVIOUS
<1>1. HandlerTypeOK
  BY HandlerInvInit DEF Init, HandlerInv
<1>2. NoCommand \in Job
  BY JobShape
<1>3. dev \in Device
  BY DevicesAssumption DEF Init, Device, Percents
<1>4. cmds \in Seq(Message) /\ reps \in Seq(Message)
  BY DEF Init
<1> QED BY <1>1, <1>2, <1>3, <1>4, BudgetAssumption DEF Init, TypeOK, WorkerPcs

LEMMA StepType == TypeOK /\ [Next]_vars => TypeOK'
<1> SUFFICES ASSUME TypeOK, [Next]_vars PROVE TypeOK'
  OBVIOUS
<1>1. CASE UNCHANGED vars
  BY <1>1 DEF vars, handlerVars, plantVars, histVars, TypeOK, HandlerTypeOK
<1> QED BY <1>1, WorkerType, CallbackType, EnvironmentType DEF Next

\* Type correctness of the controller.
THEOREM TypeCorrect == Spec => []TypeOK
  BY InitType, StepType, PTL DEF Spec

-----------------------------------------------------------------------------
(***************************************************************************)
(* The target row's cells, which the setters write.                        *)
(***************************************************************************)
LEMMA TargetCells ==
  /\ "target" \in Copies /\ "charge" \in Fields /\ "mode" \in Fields /\ "soc" \in Fields
  /\ <<"target", "charge">> \in Cells /\ <<"target", "mode">> \in Cells
  /\ <<"target", "soc">> \in Cells
  /\ Values["charge"] = GridCharges /\ Values["mode"] = WorkModes /\ Values["soc"] = Percents
  BY DEF Copies, Fields, Cells, Values

(***************************************************************************)
(* A step of a Process call or of the revert is a step of the cache that   *)
(* leaves the mirror alone.                                                *)
(***************************************************************************)
LEMMA SetterHandler ==
  ASSUME TypeOK, NEW p \in Procs, SetterStep(p)
  PROVE  [HandlerNext]_handlerVars /\ local'["current"] = local["current"]
<1>1. CASE ChargeTarget(p)
  <2>1. job[p].charge \in Values["charge"]
    BY <1>1, TargetCells DEF ChargeTarget, TypeOK
  <2> QED BY <1>1, <2>1, TargetCells, CacheStep DEF ChargeTarget
<1>2. CASE ModeTarget(p)
  <2>1. job[p].mode \in Values["mode"]
    BY <1>2, TargetCells DEF ModeTarget, TypeOK
  <2> QED BY <1>2, <2>1, TargetCells, CacheStep DEF ModeTarget
<1>3. CASE ChargeRead(p) \/ ChargePublish(p) \/ ModeRead(p) \/ ModePublish(p)
  BY <1>3 DEF ChargeRead, ChargePublish, ModeRead, ModePublish, handlerVars
<1> QED BY <1>1, <1>2, <1>3 DEF SetterStep

LEMMA WorkerHandler ==
  ASSUME TypeOK, NEW w \in Workers, Process(w) \/ WorkerStep(w)
  PROVE  [HandlerNext]_handlerVars /\ local'["current"] = local["current"]
<1>0. w \in Procs
  BY DEF Procs
<1>1. CASE SetterStep(w)
  BY <1>0, <1>1, SetterHandler
<1>2. CASE StopTarget(w)
  <2>1. Clamp(job[w].soc) \in Values["soc"]
    BY <1>0, ClampType, TargetCells DEF TypeOK, Job
  <2>2. CacheSet(w, "target", "soc", Clamp(job[w].soc), "idle")
    BY <1>2 DEF StopTarget, CacheSet
  <2> QED BY <1>0, <2>1, <2>2, TargetCells, CacheStep
<1>3. CASE Process(w) \/ StopPublish(w) \/ StopPoll(w) \/ StopTick(w) \/ StopTimeout(w)
  BY <1>3 DEF Process, StopPublish, StopPoll, StopTick, StopTimeout, handlerVars
<1> QED BY <1>1, <1>2, <1>3 DEF WorkerStep

(***************************************************************************)
(* A delivered report is a step of the cache.                              *)
(***************************************************************************)
LEMMA ReportHandler ==
  ASSUME TypeOK, SettingReport \/ SocReport
  PROVE  [HandlerNext]_handlerVars
<1>0. Callback \in Procs /\ reps # <<>>
  BY DEF Procs, SettingReport, SocReport
<1>1. CASE SettingReport
  <2>1. CacheSet(Callback, "current", Head(reps).f, Head(reps).v, "idle")
    BY <1>1 DEF SettingReport, CacheSet
  <2> QED BY <1>0, <2>1, HeadShape, CacheStep
<1>2. CASE SocReport
  <2>1. CacheSet(Callback, "current", Head(reps).f, Head(reps).v, "csTarget")
    BY <1>2 DEF SocReport, CacheSet
  <2> QED BY <1>0, <2>1, HeadShape, CacheStep
<1> QED BY <1>1, <1>2

LEMMA StepHandler == TypeOK /\ [Next]_vars => [HandlerNext]_handlerVars
<1> SUFFICES ASSUME TypeOK, [Next]_vars PROVE [HandlerNext]_handlerVars
  OBVIOUS
<1>1. CASE \E w \in Workers : Process(w) \/ WorkerStep(w)
  BY <1>1, WorkerHandler
<1>2. CASE CallbackStep
  <2>1. CASE SettingReport \/ SocReport
    BY <2>1, ReportHandler
  <2>2. CASE SetterStep(Callback)
    BY <2>2, SetterHandler DEF Procs
  <2>3. CASE ReadTargetSoc \/ ReadCharge \/ ReadMode
    BY <2>3 DEF ReadTargetSoc, ReadCharge, ReadMode
  <2> QED BY <1>2, <2>1, <2>2, <2>3 DEF CallbackStep
<1>3. CASE Environment
  <2>1. CASE Crash
    BY <2>1 DEF Crash, HandlerNext
  <2>2. CASE DeviceApplies \/ (\E f \in Unprompted : DeviceReports(f)) \/ BatteryMoves \/ ReportLost
    BY <2>2 DEF DeviceApplies, DeviceReports, BatteryMoves, ReportLost
  <2> QED BY <1>3, <2>1, <2>2 DEF Environment
<1>4. CASE UNCHANGED vars
  BY <1>4 DEF vars
<1> QED BY <1>1, <1>2, <1>3, <1>4 DEF Next

(***************************************************************************)
(* Refinement: the controller, with all its goroutines and crashes, uses   *)
(* the settings cache only through its operations.                         *)
(***************************************************************************)
THEOREM UsesHandler == Spec => HandlerSpec
<1>1. Init => HandlerInit
  BY DEF Init
<1> QED BY <1>1, StepHandler, TypeCorrect, PTL DEF Spec, HandlerSpec

(***************************************************************************)
(* So the cache is coherent with the table in the controller as well.      *)
(***************************************************************************)
THEOREM ControllerCoherent == Spec => []Coherent
  BY UsesHandler, HandlerCorrect, PTL

-----------------------------------------------------------------------------
(***************************************************************************)
(* The revert.  The second read of the mirror precedes the third, so what  *)
(* it saw must still hold when the third is made.                          *)
(***************************************************************************)
RevertInv ==
  /\ RevertSeesCharging
  /\ pc[Callback] = "csMode" => local["current"].charge = "Enabled"

\* A step that keeps the mirror and the callback's place keeps the invariant.
LEMMA RevertStutter ==
  ASSUME RevertInv, pc'[Callback] = pc[Callback], local'["current"] = local["current"]
  PROVE  RevertInv'
  BY DEF RevertInv, RevertSeesCharging, Reverting

\* A step that ends the callback establishes it.
LEMMA RevertEnds ==
  ASSUME pc'[Callback] = "idle"
  PROVE  RevertInv'
  BY DEF RevertInv, RevertSeesCharging, Reverting

LEMMA RevertSetter ==
  ASSUME TypeOK, RevertInv, SetterStep(Callback)
  PROVE  RevertInv'
<1>0. Callback \in Procs /\ pc \in [Procs -> WorkerPcs \cup CallbackPcs]
  BY DEF TypeOK, Procs
<1>1. local'["current"] = local["current"]
  BY <1>0, SetterHandler
<1>2. Reverting
  BY DEF SetterStep, ChargeRead, ChargePublish, ChargeTarget, ModeRead, ModePublish, ModeTarget,
         Reverting
<1>3. pc'[Callback] # "csMode"
  BY <1>0 DEF SetterStep, ChargeRead, ChargePublish, ChargeTarget, ModeRead, ModePublish,
         ModeTarget, CacheSet, CacheOk, CacheErr, Publish, Goto, AfterCharge, AfterMode
<1> QED BY <1>1, <1>2, <1>3 DEF RevertInv, RevertSeesCharging

LEMMA RevertStep == TypeOK /\ RevertInv /\ [Next]_vars => RevertInv'
<1> SUFFICES ASSUME TypeOK, RevertInv, [Next]_vars PROVE RevertInv'
  OBVIOUS
<1>0. Callback \in Procs /\ pc \in [Procs -> WorkerPcs \cup CallbackPcs]
  BY DEF TypeOK, Procs
<1>1. ASSUME NEW w \in Workers, Process(w) \/ WorkerStep(w) PROVE RevertInv'
  <2>1. w # Callback /\ w \in Procs
    BY CallbackAssumption DEF Procs
  <2>2. pc'[Callback] = pc[Callback]
    BY <1>0, <1>1, <2>1 DEF Process, WorkerStep, SetterStep, ChargeRead, ChargePublish,
       ChargeTarget, ModeRead, ModePublish, ModeTarget, StopPublish, StopPoll, StopTick,
       StopTimeout, StopTarget, CacheSet, CacheOk, CacheErr, Publish, Goto
  <2> QED BY <1>1, <2>2, WorkerHandler, RevertStutter
<1>2. CASE CallbackStep
  <2>1. CASE SettingReport
    BY <1>0, <2>1, RevertEnds DEF SettingReport, CacheOk, CacheErr, Goto
  <2>2. CASE SocReport
    <3>1. pc'[Callback] \in {"csTarget", "idle"}
      BY <1>0, <2>2 DEF SocReport, CacheOk, CacheErr, Goto
    <3> QED BY <3>1 DEF RevertInv, RevertSeesCharging, Reverting
  <2>3. CASE ReadTargetSoc
    <3>1. pc'[Callback] \in {"csCharge", "idle"}
      BY <1>0, <2>3 DEF ReadTargetSoc, Goto
    <3> QED BY <3>1 DEF RevertInv, RevertSeesCharging, Reverting
  <2>4. CASE ReadCharge
    <3>1. /\ pc'[Callback] = IF local["current"].charge = "Enabled" THEN "csMode" ELSE "idle"
          /\ local' = local
      BY <1>0, <2>4 DEF ReadCharge, Goto, handlerVars
    <3> QED BY <3>1 DEF RevertInv, RevertSeesCharging, Reverting
  <2>5. CASE ReadMode
    <3>1. /\ pc'[Callback] = IF local["current"].mode = "Battery first" THEN "wmRead" ELSE "idle"
          /\ local' = local /\ pc[Callback] = "csMode"
      BY <1>0, <2>5 DEF ReadMode, Goto, handlerVars
    <3> QED BY <3>1 DEF RevertInv, RevertSeesCharging, Reverting
  <2>6. CASE SetterStep(Callback)
    BY <2>6, RevertSetter
  <2> QED BY <1>2, <2>1, <2>2, <2>3, <2>4, <2>5, <2>6 DEF CallbackStep
<1>3. CASE Environment
  <2>1. CASE Crash
    BY <1>0, <2>1, RevertEnds DEF Crash
  <2>2. CASE DeviceApplies \/ (\E f \in Unprompted : DeviceReports(f)) \/ BatteryMoves \/ ReportLost
    BY <2>2, RevertStutter DEF DeviceApplies, DeviceReports, BatteryMoves, ReportLost, handlerVars
  <2> QED BY <1>3, <2>1, <2>2 DEF Environment
<1>4. CASE UNCHANGED vars
  BY <1>4, RevertStutter DEF vars, handlerVars
<1> QED BY <1>1, <1>2, <1>3, <1>4 DEF Next

(***************************************************************************)
(* The revert of SetCurrentSOC acts on a mirror that shows a charging      *)
(* inverter from the first setter to the last, although every read was     *)
(* made under a lock of its own and Process calls run meanwhile.           *)
(***************************************************************************)
THEOREM RevertSees == Spec => []RevertSeesCharging
<1>1. Init => RevertInv
  BY DEF Init, RevertInv, RevertSeesCharging, Reverting, Procs
<1>2. RevertInv => RevertSeesCharging
  BY DEF RevertInv
<1> QED BY <1>1, <1>2, RevertStep, TypeCorrect, PTL DEF Spec

-----------------------------------------------------------------------------
(***************************************************************************)
(* The mirror.  Agree says of one field what MirrorAgrees says, for a      *)
(* queue q of reports, a mirrored value mv and the inverter's value dv.    *)
(***************************************************************************)
Agree(f, q, mv, dv) ==
  /\ (\A i \in 1..Len(q) : q[i].f # f) => mv = dv
  /\ \A i \in 1..Len(q) :
       q[i].f = f /\ (\A j \in 1..Len(q) : q[j].f = f => j <= i) => q[i].v = dv

LEMMA AgreeIsMirror ==
  MirrorAgrees <=> \A f \in synced : Agree(f, reps, local["current"][f], dev[f])
<1>1. \A f : Pending(f) = {} <=> \A i \in 1..Len(reps) : reps[i].f # f
  BY DEF Pending
<1>2. ASSUME NEW f
      PROVE  (\A i \in Pending(f) : (\A j \in Pending(f) : j <= i) => reps[i].v = dev[f])
             <=> \A i \in 1..Len(reps) :
                   reps[i].f = f /\ (\A j \in 1..Len(reps) : reps[j].f = f => j <= i)
                     => reps[i].v = dev[f]
  BY DEF Pending
<1> QED BY <1>1, <1>2 DEF MirrorAgrees, Agree

\* The same of the next state.
LEMMA AgreeNext ==
  (\A f \in synced : Agree(f, reps, local["current"][f], dev[f]))' => MirrorAgrees'
  BY AgreeIsMirror, PTL

\* The last report of a field, once sent, is the one that counts.
LEMMA AppendSame ==
  ASSUME NEW q \in Seq(Message), NEW m \in Message, NEW mv
  PROVE  Agree(m.f, Append(q, m), mv, m.v)
  BY DEF Agree

LEMMA AppendOther ==
  ASSUME NEW q \in Seq(Message), NEW m \in Message, NEW f, m.f # f, NEW mv, NEW dv,
         Agree(f, q, mv, dv)
  PROVE  Agree(f, Append(q, m), mv, dv)
<1> DEFINE r == Append(q, m)
<1>1. /\ Len(r) = Len(q) + 1 /\ Len(q) \in Nat /\ r[Len(q) + 1] = m
      /\ \A i \in 1..Len(q) : r[i] = q[i]
  OBVIOUS
<1>2. \A i \in 1..Len(r) : r[i].f = f => i \in 1..Len(q)
  BY <1>1
<1>3. 1..Len(q) \subseteq 1..Len(r)
  BY <1>1
<1> HIDE DEF r
<1>4. Agree(f, r, mv, dv)
  BY <1>1, <1>2, <1>3 DEF Agree
<1> QED BY <1>4 DEF r

LEMMA TailShape ==
  ASSUME NEW q \in Seq(Message), q # <<>>
  PROVE  /\ Len(q) \in Nat \ {0} /\ Len(Tail(q)) = Len(q) - 1 /\ Head(q) = q[1]
         /\ \A i \in 1..Len(Tail(q)) : Tail(q)[i] = q[i + 1]
  OBVIOUS

LEMMA TailOther ==
  ASSUME NEW q \in Seq(Message), q # <<>>, NEW f, Head(q).f # f, NEW mv, NEW dv,
         Agree(f, q, mv, dv)
  PROVE  Agree(f, Tail(q), mv, dv)
<1> DEFINE t == Tail(q)
<1>1. /\ Len(q) \in Nat \ {0} /\ Len(t) = Len(q) - 1 /\ q[1].f # f
      /\ \A i \in 1..Len(t) : t[i] = q[i + 1]
  BY TailShape
<1> HIDE DEF t
<1>2. \A j \in 1..Len(q) : q[j].f = f => j - 1 \in 1..Len(t) /\ t[j - 1] = q[j]
  <2> SUFFICES ASSUME NEW j \in 1..Len(q), q[j].f = f
               PROVE  j - 1 \in 1..Len(t) /\ t[j - 1] = q[j]
    OBVIOUS
  <2>1. j # 1
    BY <1>1
  <2>2. j - 1 \in 1..Len(t) /\ (j - 1) + 1 = j
    BY <1>1, <2>1
  <2> QED BY <1>1, <2>2
<1>3. ASSUME \A i \in 1..Len(t) : t[i].f # f
      PROVE  mv = dv
  BY <1>2, <1>3 DEF Agree
<1>4. ASSUME NEW i \in 1..Len(t), t[i].f = f, \A j \in 1..Len(t) : t[j].f = f => j <= i
      PROVE  t[i].v = dv
  <2>1. i + 1 \in 1..Len(q) /\ t[i] = q[i + 1]
    BY <1>1
  <2>2. \A j \in 1..Len(q) : q[j].f = f => j <= i + 1
    BY <1>1, <1>2, <1>4
  <2> QED BY <1>4, <2>1, <2>2 DEF Agree
<1>5. Agree(f, t, mv, dv)
  BY <1>3, <1>4 DEF Agree
<1> QED BY <1>5 DEF t

(***************************************************************************)
(* A report that leaves the queue reaches the mirror, or another of its    *)
(* field is behind it.                                                     *)
(***************************************************************************)
LEMMA TailSame ==
  ASSUME NEW q \in Seq(Message), q # <<>>, NEW f, Head(q).f = f, NEW mv, NEW dv, NEW nv,
         Agree(f, q, mv, dv),
         nv = Head(q).v \/ \E i \in 2..Len(q) : q[i].f = f
  PROVE  Agree(f, Tail(q), nv, dv)
<1> DEFINE t == Tail(q)
<1>1. /\ Len(q) \in Nat \ {0} /\ Len(t) = Len(q) - 1 /\ q[1].f = f /\ Head(q) = q[1]
      /\ \A i \in 1..Len(t) : t[i] = q[i + 1]
  BY TailShape
<1> HIDE DEF t
<1>2. \A j \in 2..Len(q) : j - 1 \in 1..Len(t) /\ t[j - 1] = q[j]
  <2> SUFFICES ASSUME NEW j \in 2..Len(q) PROVE j - 1 \in 1..Len(t) /\ t[j - 1] = q[j]
    OBVIOUS
  <2>1. j - 1 \in 1..Len(t) /\ (j - 1) + 1 = j
    BY <1>1
  <2> QED BY <1>1, <2>1
<1>3. ASSUME \A i \in 1..Len(t) : t[i].f # f
      PROVE  nv = dv
  <2>1. \A j \in 2..Len(q) : q[j].f # f
    BY <1>2, <1>3
  <2>2. nv = q[1].v
    BY <1>1, <2>1
  <2>3. 1 \in 1..Len(q) /\ \A j \in 1..Len(q) : q[j].f = f => j <= 1
    BY <1>1, <2>1
  <2>4. q[1].v = dv
    BY <1>1, <2>3 DEF Agree
  <2> QED BY <2>2, <2>4
<1>4. ASSUME NEW i \in 1..Len(t), t[i].f = f, \A j \in 1..Len(t) : t[j].f = f => j <= i
      PROVE  t[i].v = dv
  <2>1. i + 1 \in 1..Len(q) /\ t[i] = q[i + 1]
    BY <1>1
  <2>2. \A j \in 1..Len(q) : q[j].f = f => j <= i + 1
    <3> SUFFICES ASSUME NEW j \in 1..Len(q), q[j].f = f PROVE j <= i + 1
      OBVIOUS
    <3>1. CASE j = 1
      BY <3>1
    <3>2. CASE j \in 2..Len(q)
      BY <1>1, <1>2, <1>4, <3>2
    <3> QED BY <1>1, <3>1, <3>2
  <2> QED BY <1>4, <2>1, <2>2 DEF Agree
<1>5. Agree(f, t, nv, dv)
  BY <1>3, <1>4 DEF Agree
<1> QED BY <1>5 DEF t

\* A successful write of the mirror sets the field and no other; a failed one sets nothing.
LEMMA MirrorWrite ==
  ASSUME TypeOK, NEW f \in Fields, NEW v \in Values[f], NEW next
  PROVE  /\ CacheOk(Callback, "current", f, v, next) =>
              \A g \in Fields : local'["current"][g] = IF g = f THEN v ELSE local["current"][g]
         /\ CacheErr(Callback, "current", f, v) => local' = local
<1>0. "current" \in Copies /\ local \in [Copies -> Row] /\ local["current"] \in Row
  BY DEF Copies, TypeOK, HandlerTypeOK
<1>1. ASSUME CacheOk(Callback, "current", f, v, next), NEW g \in Fields
      PROVE  local'["current"][g] = IF g = f THEN v ELSE local["current"][g]
  <2>1. CASE Skipped("current", f, v)
    <3>1. local' = local /\ local["current"][f] = v
      BY <1>1, <2>1 DEF CacheOk, Set, Skipped, Compared, handlerVars
    <3> QED BY <3>1
  <2>2. CASE ~Skipped("current", f, v)
    <3>1. local' = [local EXCEPT !["current"] = [local["current"] EXCEPT ![f] = v]]
      BY <1>0, <1>1, <2>2, OutcomeShape DEF CacheOk, Set
    <3>2. local'["current"] = [local["current"] EXCEPT ![f] = v]
      BY <1>0, <3>1
    <3> QED BY <1>0, <3>2, RowExcept
  <2> QED BY <2>1, <2>2
<1>2. ASSUME CacheErr(Callback, "current", f, v)
      PROVE  local' = local
  <2>1. PICK o \in Failures("current", f) : Set("current", f, v, o)
    BY <1>2 DEF CacheErr
  <2>2. ~o.ok
    BY <1>0, OutcomeShape
  <2> QED BY <2>1, <2>2 DEF Set, handlerVars
<1> QED BY <1>1, <1>2

\* A report handed to the cache, stored or not.
LEMMA MirrorReport ==
  ASSUME TypeOK, MirrorAgrees, reps # <<>>, reps' = Tail(reps), dev' = dev, NEW next,
         \/ CacheOk(Callback, "current", Head(reps).f, Head(reps).v, next) /\ UNCHANGED synced
         \/ CacheErr(Callback, "current", Head(reps).f, Head(reps).v) /\ Unsync(Head(reps).f)
  PROVE  MirrorAgrees'
<1> DEFINE h == Head(reps)
<1>0. reps \in Seq(Message) /\ h.f \in Fields /\ h.v \in Values[h.f] /\ synced \in SUBSET Fields
  BY HeadShape DEF TypeOK
<1> HIDE DEF h
<1>1. \A f \in synced : Agree(f, reps, local["current"][f], dev[f])
  BY AgreeIsMirror
<1>2. ASSUME NEW f \in synced'
      PROVE  Agree(f, reps', local'["current"][f], dev'[f])
  <2>1. f \in synced /\ f \in Fields
    BY <1>0, <1>2 DEF Unsync
  <2>2. Agree(f, reps, local["current"][f], dev[f])
    BY <1>1, <2>1
  <2>3. CASE h.f # f
    <3>1. local'["current"][f] = local["current"][f]
      BY <1>0, <2>1, <2>3, MirrorWrite DEF h
    <3> QED BY <1>0, <2>2, <2>3, <3>1, TailOther DEF h
  <2>4. CASE h.f = f
    <3>1. local'["current"][f] = h.v \/ \E i \in 2..Len(reps) : reps[i].f = f
      BY <1>0, <1>2, <2>1, <2>4, MirrorWrite DEF h, Unsync
    <3> QED BY <1>0, <2>2, <2>4, <3>1, TailSame DEF h
  <2> QED BY <2>3, <2>4
<1> QED BY <1>2, AgreeNext

\* The inverter sends a report of a field's new or old value.
LEMMA MirrorSent ==
  ASSUME TypeOK, MirrorAgrees, local' = local, NEW g \in Fields, NEW v \in Values[g],
         Report(g, v), \A f \in Fields : dev'[f] = IF f = g THEN v ELSE dev[f]
  PROVE  MirrorAgrees'
<1> DEFINE m == [f |-> g, v |-> v]
<1>0. /\ reps \in Seq(Message) /\ synced \in SUBSET Fields
      /\ m \in Message /\ m.f = g /\ m.v = v /\ reps' = Append(reps, m)
  BY MessageShape DEF TypeOK, Report
<1> HIDE DEF m
<1>1. \A f \in synced : Agree(f, reps, local["current"][f], dev[f])
  BY AgreeIsMirror
<1>2. ASSUME NEW f \in synced'
      PROVE  Agree(f, reps', local'["current"][f], dev'[f])
  <2>1. f \in Fields /\ (f = g \/ f \in synced)
    BY <1>0, <1>2 DEF Report
  <2>2. CASE f = g
    BY <1>0, <2>1, <2>2, AppendSame
  <2>3. CASE f # g
    BY <1>0, <1>1, <2>1, <2>3, AppendOther
  <2> QED BY <2>2, <2>3
<1> QED BY <1>2, AgreeNext

\* A step that changes neither queue nor inverter nor mirror.
LEMMA MirrorStutter ==
  ASSUME MirrorAgrees, UNCHANGED <<reps, dev, synced>>, local'["current"] = local["current"]
  PROVE  MirrorAgrees'
  BY DEF MirrorAgrees, Pending

LEMMA MirrorStep == TypeOK /\ MirrorAgrees /\ [Next]_vars => MirrorAgrees'
<1> SUFFICES ASSUME TypeOK, MirrorAgrees, [Next]_vars PROVE MirrorAgrees'
  OBVIOUS
<1>1. ASSUME NEW p \in Procs, SetterStep(p)
      PROVE  UNCHANGED <<reps, dev, synced>>
  BY <1>1 DEF SetterStep, ChargeRead, ChargePublish, ChargeTarget, ModeRead, ModePublish,
     ModeTarget, plantVars, histVars
<1>2. ASSUME NEW w \in Workers, Process(w) \/ WorkerStep(w)
      PROVE  MirrorAgrees'
  <2>1. UNCHANGED <<reps, dev, synced>>
    BY <1>1, <1>2 DEF Process, WorkerStep, StopPublish, StopPoll, StopTick, StopTimeout,
       StopTarget, plantVars, histVars, Procs
  <2> QED BY <1>2, <2>1, WorkerHandler, MirrorStutter
<1>3. CASE CallbackStep
  <2>1. CASE SettingReport
    BY <2>1, MirrorReport DEF SettingReport
  <2>2. CASE SocReport
    BY <2>2, MirrorReport DEF SocReport
  <2>3. CASE ReadTargetSoc \/ ReadCharge \/ ReadMode
    BY <2>3, MirrorStutter DEF ReadTargetSoc, ReadCharge, ReadMode, plantVars, histVars, handlerVars
  <2>4. CASE SetterStep(Callback)
    BY <1>1, <2>4, SetterHandler, MirrorStutter DEF Procs
  <2> QED BY <1>3, <2>1, <2>2, <2>3, <2>4 DEF CallbackStep
<1>4. CASE Environment
  <2>1. CASE DeviceApplies
    <3>1. Head(cmds).f \in Fields /\ Head(cmds).v \in Values[Head(cmds).f]
      BY <2>1, TailType, MessageShape DEF DeviceApplies, TypeOK
    <3>2. \A g \in Fields : dev'[g] = IF g = Head(cmds).f THEN Head(cmds).v ELSE dev[g]
      <4>1. /\ dev \in Device
            /\ dev' = [dev EXCEPT ![Head(cmds).f] = Head(cmds).v]
        BY <2>1 DEF DeviceApplies, TypeOK
      <4> QED BY <3>1, <4>1, DeviceShape
    <3> QED BY <2>1, <3>1, <3>2, MirrorSent DEF DeviceApplies, handlerVars
  <2>2. ASSUME NEW f \in Unprompted, DeviceReports(f) PROVE MirrorAgrees'
    <3>1. f \in Fields /\ dev[f] \in Values[f]
      BY ReportAssumption, DeviceShape DEF TypeOK
    <3> QED BY <2>2, <3>1, MirrorSent DEF DeviceReports, handlerVars
  <2>3. CASE BatteryMoves
    <3>1. dev \in Device /\ "soc" \in Fields /\ synced \in SUBSET Fields
      BY DEF TypeOK, Fields
    <3>2. \A g \in Fields : g # "soc" => dev'[g] = dev[g]
      BY <2>3, <3>1 DEF BatteryMoves, Device, Fields
    <3> QED BY <2>3, <3>1, <3>2 DEF BatteryMoves, MirrorAgrees, Pending, handlerVars
  <2>4. CASE ReportLost
    <3>1. \A f \in synced : Agree(f, reps, local["current"][f], dev[f])
      BY AgreeIsMirror
    <3>2. ASSUME NEW f \in synced'
          PROVE  Agree(f, reps', local'["current"][f], dev'[f])
      <4>1. /\ f \in synced
            /\ Head(reps).f = f => \E i \in 2..Len(reps) : reps[i].f = f
            /\ reps \in Seq(Message) /\ reps # <<>> /\ reps' = Tail(reps)
            /\ local' = local /\ dev' = dev
        BY <2>4, <3>2 DEF ReportLost, Unsync, TypeOK, handlerVars
      <4> QED BY <3>1, <4>1, TailOther, TailSame
    <3> QED BY <3>2, AgreeNext
  <2>5. CASE Crash
    BY <2>5 DEF Crash, MirrorAgrees
  <2> QED BY <1>4, <2>1, <2>2, <2>3, <2>4, <2>5 DEF Environment
<1>5. CASE UNCHANGED vars
  BY <1>5, MirrorStutter DEF vars, plantVars, histVars, handlerVars
<1> QED BY <1>2, <1>3, <1>4, <1>5 DEF Next

(***************************************************************************)
(* The mirror agrees with the inverter up to the reports under way, with   *)
(* any number of messages in flight, lost reports, failed writes and       *)
(* crashes.                                                                *)
(***************************************************************************)
THEOREM MirrorCorrect == Spec => []MirrorAgrees
<1>1. Init => MirrorAgrees
  BY DEF Init, MirrorAgrees
<1> QED BY <1>1, MirrorStep, TypeCorrect, PTL DEF Spec
-----------------------------------------------------------------------------
(***************************************************************************)
(* A command takes effect.  Nothing is lost on the way, and the calls of   *)
(* Process either are spaced or are attempts of one command.  Workers,     *)
(* levels and battery moves are any; without a database so are errors and  *)
(* crashes.  With one, the mirror is loaded from a table that agrees with  *)
(* the inverter, and it is not left behind: no call fails and the program  *)
(* does not restart.  No command asks for the mode of the fresh table.     *)
(***************************************************************************)
Undisturbed ==
  /\ Budget["loss"] = 0
  /\ HasParent => /\ Budget["error"] = 0 /\ Budget["crash"] = 0
                  /\ \A d \in Devices : d.stop = SeedRow.stop /\ d.charge = SeedRow.charge
  /\ Spaced \/ \E c : Commands = {c}

Controlled  == {"stop", "mode", "charge"}
Value(c, f) == IF f = "stop" THEN Clamp(c.soc) ELSE c[f]

Messages(q) == {q[i] : i \in 1..Len(q)}

\* The commands that a Process call carries out or has carried out last, and
\* those whose messages may still be on their way.
Ongoing     == {job[w] : w \in {v \in Workers : pc[v] # "idle"}} \cup ({done} \ {NoCommand})
Relevant(c) == c \in Commands /\ (Spaced => c \in Ongoing)

\* The field can only move to the command's value, and a report or the mirror
\* shows that value only once the inverter has it.
Toward(c, f) ==
  /\ \A m \in Messages(cmds) : m.f = f => m.v = Value(c, f)
  /\ \A m \in Messages(reps) : m.f = f /\ m.v = Value(c, f) => dev[f] = Value(c, f)
  /\ local["current"][f] = Value(c, f) => dev[f] = Value(c, f)

\* The inverter has the command's value or will have it.
Sent(f)       == \E m \in Messages(cmds) : m.f = f
Arrives(c, f) == Value(c, f) \in Values[f] /\ (dev[f] = Value(c, f) \/ Sent(f))

\* The setters that a worker has got past.
Passed(l) ==
  {f \in Controlled : \/ l \in {"sdPoll", "sdWait", "sdTgt"}
                      \/ l \in {"wmTgt", "sdPub"} /\ f \in {"charge", "mode"}
                      \/ l \in {"gcTgt", "wmRead", "wmPub"} /\ f = "charge"}

\* The callback has not overruled the command's field.
Kept(f) == f = "stop" \/ ~reverted

\* Nothing has been heard of the field since the program started: the mirror
\* shows nothing that a command asks for, or what the inverter has.
Unheard(f) ==
  /\ local["current"][f] \in {ZeroRow[f], dev[f]} \/ local["current"][f] \notin Values[f]
  /\ \A m \in Messages(reps) : m.f # f

\* Nothing is left of what Undisturbed leaves out.
Unspent == left["loss"] = 0 /\ (HasParent => left["error"] = 0 /\ left["crash"] = 0)

AppliedInv ==
  /\ Unspent
  /\ \A w \in Workers : pc[w] # "idle" => job[w] \in Commands
  /\ done # NoCommand => done \in Commands
  /\ \A c, d \in Ongoing : c = d
  /\ \A f \in Controlled \ synced : Unheard(f)
  /\ \A c \in Commands, f \in Controlled :
       Relevant(c) /\ Value(c, f) \in Values[f] /\ Kept(f) => Toward(c, f)
  /\ \A w \in Workers : \A f \in Passed(pc[w]) : Kept(f) => Arrives(job[w], f)
  /\ done # NoCommand => \A f \in Controlled : Kept(f) => Arrives(done, f)
  /\ done # NoCommand => local["target"].soc = Clamp(done.soc)

\* Nobody adds to the budget.
LEMMA UnspentKeeps ==
  ASSUME TypeOK, Unspent, left' = left \/ \E e \in Events : Spend(e)
  PROVE  Unspent'
<1>1. CASE left' = left
  BY <1>1 DEF Unspent
<1>2. ASSUME NEW e \in Events, Spend(e)
      PROVE  Unspent'
  <2>1. left[e] # 0 /\ left' = [left EXCEPT ![e] = left[e] - 1] /\ left \in [Events -> Nat]
    BY <1>2 DEF Spend, TypeOK
  <2>2. \A d \in Events : left[d] = 0 => left'[d] = 0
    BY <2>1
  <2> QED BY <2>2 DEF Unspent, Events
<1> QED BY <1>1, <1>2

LEMMA MessagesOf ==
  /\ Messages(<<>>) = {}
  /\ \A q \in Seq(Message), m \in Message : Messages(Append(q, m)) = Messages(q) \cup {m}
  /\ \A q \in Seq(Message) : q # <<>> => Messages(q) = {Head(q)} \cup Messages(Tail(q))
<1>1. Messages(<<>>) = {}
  BY DEF Messages
<1>2. ASSUME NEW q \in Seq(Message), NEW m \in Message
      PROVE  Messages(Append(q, m)) = Messages(q) \cup {m}
  <2> DEFINE r == Append(q, m)
  <2>1. /\ Len(q) \in Nat /\ Len(r) = Len(q) + 1 /\ r[Len(q) + 1] = m
        /\ \A i \in 1..Len(q) : r[i] = q[i]
    OBVIOUS
  <2> HIDE DEF r
  <2>2. 1..Len(r) = 1..Len(q) \cup {Len(q) + 1} /\ Len(q) + 1 \notin 1..Len(q)
    BY <2>1
  <2>3. Messages(r) = Messages(q) \cup {m}
    BY <2>1, <2>2 DEF Messages
  <2> QED BY <2>3 DEF r
<1>3. ASSUME NEW q \in Seq(Message), q # <<>>
      PROVE  Messages(q) = {Head(q)} \cup Messages(Tail(q))
  <2> DEFINE t == Tail(q)
  <2>1. /\ Len(q) \in Nat \ {0} /\ Len(t) = Len(q) - 1 /\ Head(q) = q[1]
        /\ \A i \in 1..Len(t) : t[i] = q[i + 1]
    BY <1>3, TailShape
  <2> HIDE DEF t
  <2>2. \A i \in 1..Len(q) : i = 1 \/ (i - 1 \in 1..Len(t) /\ (i - 1) + 1 = i)
    BY <2>1
  <2>3. \A i \in 1..Len(t) : i + 1 \in 1..Len(q)
    BY <2>1
  <2>4. \A i \in 1..Len(q) : q[i] = Head(q) \/ q[i] \in Messages(t)
    BY <2>1, <2>2 DEF Messages
  <2>5. \A i \in 1..Len(t) : t[i] \in Messages(q)
    BY <2>1, <2>3 DEF Messages
  <2>6. 1 \in 1..Len(q)
    BY <2>1
  <2>7. Head(q) \in Messages(q)
    BY <2>1, <2>6 DEF Messages
  <2>8. Messages(q) = {Head(q)} \cup Messages(t)
    BY <2>4, <2>5, <2>7 DEF Messages
  <2> QED BY <2>8 DEF t
<1> QED BY <1>1, <1>2, <1>3

\* A command's value is never what the mirror starts with.
LEMMA ValueNotZero ==
  ASSUME NEW c \in Job, NEW f \in Controlled, Value(c, f) \in Values[f]
  PROVE  Value(c, f) # ZeroRow[f] /\ f \in Fields
<1>1. c.soc \in Percents
  BY DEF Job
<1>2. Percents \subseteq Nat
  BY SocAssumption DEF Percents
<1>3. Clamp(c.soc) # 0
  BY <1>1, <1>2 DEF Clamp
<1>4. CASE f = "stop"
  BY <1>3, <1>4 DEF Value, ZeroRow, Fields
<1>5. CASE f = "mode"
  <2>1. Value(c, f) \in WorkModes /\ ZeroRow[f] = "" /\ f \in Fields
    BY <1>5 DEF Values, ZeroRow, Fields
  <2> QED BY <2>1 DEF WorkModes
<1>6. CASE f = "charge"
  <2>1. Value(c, f) \in GridCharges /\ ZeroRow[f] = "" /\ f \in Fields
    BY <1>6 DEF Values, ZeroRow, Fields
  <2> QED BY <2>1 DEF GridCharges
<1> QED BY <1>4, <1>5, <1>6 DEF Controlled

-----------------------------------------------------------------------------
(***************************************************************************)
(* What a step does to the fields: a message is sent, delivered, or left   *)
(* where it is.                                                            *)
(***************************************************************************)
Sends(f, v) ==
  /\ cmds' = Append(cmds, [f |-> f, v |-> v]) /\ local'["current"] = local["current"]
  /\ UNCHANGED <<reps, dev, synced>>

Still ==
  UNCHANGED <<cmds, reps, dev, synced>> /\ local'["current"] = local["current"]

Heard ==
  /\ reps # <<>> /\ reps' = Tail(reps) /\ UNCHANGED <<cmds, dev, synced>>
  /\ \A f \in Fields : local'["current"][f] =
                         IF f = Head(reps).f THEN Head(reps).v ELSE local["current"][f]

Forgotten ==
  /\ reps' = <<>> /\ synced' = {} /\ local'["current"] = ZeroRow
  /\ UNCHANGED <<cmds, dev>>

Delivery ==
  \/ Still \/ Heard \/ Forgotten
  \/ DeviceApplies \/ (\E f \in Unprompted : DeviceReports(f)) \/ BatteryMoves

\* A delivery keeps every field on its way to the command's value.
LEMMA DeliveryKeeps ==
  ASSUME TypeOK, Delivery, NEW c \in Job, NEW f \in Controlled,
         Value(c, f) \in Values[f], Toward(c, f)
  PROVE  Toward(c, f)' /\ (Arrives(c, f) => Arrives(c, f)')
<1> DEFINE v == Value(c, f)
<1>0. /\ v # ZeroRow[f] /\ f \in Fields /\ f # "soc" /\ cmds \in Seq(Message) /\ reps \in Seq(Message)
      /\ dev \in Device
  BY ValueNotZero DEF TypeOK, Controlled
<1> HIDE DEF v
<1>1. CASE Still
  BY <1>1 DEF Still, Toward, Arrives, Sent
<1>2. CASE Heard
  <2>1. Messages(reps) = {Head(reps)} \cup Messages(reps') /\ cmds' = cmds /\ dev' = dev
    BY <1>0, <1>2, MessagesOf DEF Heard
  <2>2. local'["current"][f] = v => dev'[f] = v
    BY <1>0, <1>2, <2>1 DEF Heard, Toward, v
  <2> QED BY <2>1, <2>2 DEF Toward, Arrives, Sent, v
<1>3. CASE Forgotten
  <2>1. Messages(reps') = {} /\ cmds' = cmds /\ dev' = dev /\ local'["current"][f] # v
    BY <1>0, <1>3, MessagesOf DEF Forgotten
  <2> QED BY <2>1 DEF Toward, Arrives, Sent, v
<1>4. CASE DeviceApplies
  <2> DEFINE m == Head(cmds)
  <2>1. /\ Messages(cmds) = {m} \cup Messages(cmds') /\ m.f \in Fields /\ m.v \in Values[m.f]
    BY <1>0, <1>4, MessagesOf, TailType, MessageShape DEF DeviceApplies
  <2>2. \A g \in Fields : dev'[g] = IF g = m.f THEN m.v ELSE dev[g]
    <3>1. PICK k \in Fields : k = m.f
      BY <2>1
    <3>2. PICK x : x = m.v
      OBVIOUS
    <3>3. dev' = [dev EXCEPT ![k] = x]
      BY <1>4, <3>1, <3>2 DEF DeviceApplies
    <3>4. \A g \in Fields : dev'[g] = IF g = k THEN x ELSE dev[g]
      <4>1. DOMAIN dev = Fields
        BY <1>0 DEF Device, Fields
      <4>2. ASSUME NEW g \in Fields PROVE dev'[g] = IF g = k THEN x ELSE dev[g]
        BY <3>3, <4>1
      <4> QED BY <4>2
    <3> QED BY <3>1, <3>2, <3>4
  <2>3. Messages(reps') = Messages(reps) \cup {[f |-> m.f, v |-> m.v]} /\ local' = local
    BY <1>0, <1>4, <2>1, MessagesOf, MessageShape DEF DeviceApplies, Report, handlerVars
  <2> HIDE DEF m
  <2>4. m.f = f => m.v = v
    BY <2>1 DEF Toward, v
  <2>5. dev'[f] = v \/ (dev'[f] = dev[f] /\ m.f # f)
    BY <1>0, <2>2, <2>4
  <2>6. Toward(c, f)'
    BY <2>1, <2>3, <2>5 DEF Toward, v
  <2>7. Arrives(c, f) => Arrives(c, f)'
    BY <2>1, <2>5 DEF Arrives, Sent, v
  <2> QED BY <2>6, <2>7
<1>5. ASSUME NEW g \in Unprompted, DeviceReports(g)
      PROVE  Toward(c, f)' /\ (Arrives(c, f) => Arrives(c, f)')
  <2>1. g \in Fields /\ dev[g] \in Values[g]
    BY <1>0, ReportAssumption, DeviceShape
  <2>2. /\ Messages(reps') = Messages(reps) \cup {[f |-> g, v |-> dev[g]]}
        /\ local' = local /\ dev' = dev /\ cmds' = cmds
    BY <1>0, <1>5, <2>1, MessagesOf, MessageShape DEF DeviceReports, Report, handlerVars
  <2> QED BY <2>2 DEF Toward, Arrives, Sent, v
<1>6. CASE BatteryMoves
  <2>1. PICK x \in Soc : dev' = [dev EXCEPT !.soc = x]
    BY <1>6 DEF BatteryMoves
  <2>2. dev'[f] = dev[f]
    BY <1>0, <2>1 DEF Device, Fields
  <2>3. cmds' = cmds /\ reps' = reps /\ local' = local
    BY <1>6 DEF BatteryMoves, handlerVars
  <2> QED BY <2>2, <2>3 DEF Toward, Arrives, Sent
<1> QED BY <1>1, <1>2, <1>3, <1>4, <1>5, <1>6 DEF Delivery

\* So does a message that carries it.
LEMMA SendingKeeps ==
  ASSUME TypeOK, NEW g \in Fields, NEW u \in Values[g], Sends(g, u),
         NEW c \in Job, NEW f \in Controlled, Value(c, f) \in Values[f], Toward(c, f),
         f = g => u = Value(c, f)
  PROVE  Toward(c, f)' /\ (Arrives(c, f) \/ f = g => Arrives(c, f)')
<1>1. Messages(cmds') = Messages(cmds) \cup {[f |-> g, v |-> u]}
  BY MessagesOf, MessageShape DEF TypeOK, Sends
<1>2. reps' = reps /\ dev' = dev /\ local'["current"] = local["current"]
  BY DEF Sends
<1>3. Toward(c, f)'
  <2>1. \A m \in Messages(cmds') : m.f = f => m.v = Value(c, f)
    BY <1>1 DEF Toward
  <2> QED BY <1>2, <2>1 DEF Toward
<1>4. Arrives(c, f) => Arrives(c, f)'
  BY <1>1, <1>2 DEF Arrives, Sent
<1>5. ASSUME f = g PROVE Arrives(c, f)'
  <2>1. PICK m : m = [f |-> g, v |-> u]
    OBVIOUS
  <2>2. m.f = f /\ m \in Messages(cmds')
    BY <1>1, <1>5, <2>1
  <2> QED BY <2>2 DEF Arrives, Sent
<1> QED BY <1>3, <1>4, <1>5

\* A field that has not been heard of stays so until it is reported.
LEMMA UnheardKeeps ==
  ASSUME TypeOK, \A f \in Controlled \ synced : Unheard(f),
         Delivery \/ \E g \in Fields : \E u : Sends(g, u)
  PROVE  \A f \in Controlled \ synced' : Unheard(f)'
<1>0. Controlled \subseteq Fields /\ "soc" \notin Controlled
      /\ cmds \in Seq(Message) /\ reps \in Seq(Message) /\ dev \in Device
  BY DEF Controlled, Fields, TypeOK
<1> SUFFICES ASSUME NEW f \in Controlled \ synced' PROVE Unheard(f)'
  OBVIOUS
<1>1. CASE Still \/ \E g \in Fields : \E u : Sends(g, u)
  BY <1>1 DEF Still, Sends, Unheard
<1>2. CASE Heard
  <2>1. Messages(reps) = {Head(reps)} \cup Messages(reps') /\ f \notin synced
    BY <1>0, <1>2, MessagesOf DEF Heard
  <2>2. Head(reps).f # f
    BY <2>1 DEF Unheard
  <2>3. local'["current"][f] = local["current"][f] /\ dev' = dev
    BY <1>0, <1>2, <2>2 DEF Heard
  <2>4. \A m \in Messages(reps') : m.f # f
    BY <2>1 DEF Unheard
  <2> QED BY <2>1, <2>3, <2>4 DEF Unheard
<1>3. CASE Forgotten
  BY <1>3, MessagesOf DEF Forgotten, Unheard
<1>4. ASSUME NEW g \in Fields, NEW u \in Values[g], Report(g, u), local' = local,
             f # g => dev'[f] = dev[f]
      PROVE  Unheard(f)'
  <2>1. f # g /\ f \notin synced
    BY <1>4 DEF Report
  <2>2. Messages(reps') = Messages(reps) \cup {[f |-> g, v |-> u]}
    BY <1>0, <1>4, MessagesOf, MessageShape DEF Report
  <2>3. \A m \in Messages(reps') : m.f # f
    BY <2>1, <2>2 DEF Unheard
  <2> QED BY <1>4, <2>1, <2>3 DEF Unheard
<1>5. CASE DeviceApplies
  <2>1. Head(cmds).f \in Fields /\ Head(cmds).v \in Values[Head(cmds).f]
    BY <1>0, <1>5, TailType, MessageShape DEF DeviceApplies
  <2>2. PICK k \in Fields : k = Head(cmds).f
    BY <2>1
  <2>3. PICK x \in Values[k] : x = Head(cmds).v
    BY <2>1, <2>2
  <2>4. dev' = [dev EXCEPT ![k] = x] /\ Report(k, x) /\ local' = local
    BY <1>5, <2>2, <2>3 DEF DeviceApplies, handlerVars
  <2>5. f # k => dev'[f] = dev[f]
    <3>1. DOMAIN dev = Fields
      BY <1>0 DEF Device, Fields
    <3> QED BY <1>0, <2>4, <3>1
  <2> QED BY <1>4, <2>4, <2>5
<1>6. ASSUME NEW g \in Unprompted, DeviceReports(g) PROVE Unheard(f)'
  <2>1. g \in Fields /\ dev[g] \in Values[g]
    BY <1>0, ReportAssumption, DeviceShape
  <2> QED BY <1>4, <1>6, <2>1 DEF DeviceReports, handlerVars
<1>7. CASE BatteryMoves
  <2>1. f \notin synced /\ reps' = reps /\ local' = local
    BY <1>0, <1>7 DEF BatteryMoves, handlerVars
  <2>2. PICK x \in Soc : dev' = [dev EXCEPT !.soc = x]
    BY <1>7 DEF BatteryMoves
  <2>3. dev'[f] = dev[f]
    BY <1>0, <2>2 DEF Device, Fields
  <2> QED BY <2>1, <2>3 DEF Unheard
<1> QED BY <1>1, <1>2, <1>3, <1>5, <1>6, <1>7 DEF Delivery

\* At rest every field is where the mirror says, or has not been heard of.
LEMMA AtRest ==
  ASSUME TypeOK, MirrorAgrees, Quiet, \A f \in Controlled \ synced : Unheard(f),
         NEW c \in Job, NEW f \in Controlled, Value(c, f) \in Values[f]
  PROVE  Toward(c, f)
<1>1. Messages(cmds) = {} /\ Messages(reps) = {} /\ Pending(f) = {}
  BY MessagesOf DEF Quiet, Pending
<1>2. f \in synced => local["current"][f] = dev[f]
  BY <1>1 DEF MirrorAgrees
<1>3. f \notin synced /\ local["current"][f] = Value(c, f) => dev[f] = Value(c, f)
  BY ValueNotZero DEF Unheard
<1> QED BY <1>1, <1>2, <1>3 DEF Toward

-----------------------------------------------------------------------------
(***************************************************************************)
(* What every step of a goroutine keeps of AppliedInv.                     *)
(***************************************************************************)
WorkersOn ==
  \A w \in Workers : /\ job'[w] = job[w] /\ (pc[w] = "idle" => pc'[w] = "idle")
                     /\ \A f \in Passed(pc'[w]) : Kept(f) => Arrives(job[w], f)

\* The command of a worker is the only relevant one.
LEMMA OneCommand ==
  ASSUME AppliedInv, Undisturbed, NEW c, Relevant(c)
  PROVE  /\ \A w \in Workers : pc[w] # "idle" => Relevant(job[w]) /\ job[w] = c
         /\ done # NoCommand => Relevant(done) /\ done = c
<1>1. ASSUME NEW d \in Commands, d \in Ongoing PROVE Relevant(d) /\ d = c
  <2>1. Relevant(d)
    BY <1>1 DEF Relevant
  <2>2. CASE Spaced
    BY <1>1, <2>1, <2>2 DEF Relevant, AppliedInv
  <2>3. CASE \E x : Commands = {x}
    BY <1>1, <2>1, <2>3 DEF Relevant
  <2> QED BY <2>1, <2>2, <2>3 DEF Undisturbed
<1>2. \A w \in Workers : pc[w] # "idle" => job[w] \in Commands /\ job[w] \in Ongoing
  BY DEF AppliedInv, Ongoing
<1>3. done # NoCommand => done \in Commands /\ done \in Ongoing
  BY DEF AppliedInv, Ongoing
<1> QED BY <1>1, <1>2, <1>3

\* A worker's command is relevant, and so is the last one.
LEMMA RelevantOnes ==
  ASSUME AppliedInv
  PROVE  /\ \A w \in Workers : pc[w] # "idle" => Relevant(job[w])
         /\ done # NoCommand => Relevant(done)
BY DEF AppliedInv, Relevant, Ongoing

\* Relevant commands and kept fields when the workers go on.
LEMMA WorkersOnKeep ==
  ASSUME AppliedInv, WorkersOn, done' = done, reverted => reverted'
  PROVE  /\ Ongoing' \subseteq Ongoing
         /\ \A c : Relevant(c)' => Relevant(c)
         /\ \A f : Kept(f)' => Kept(f)
<1>1. Ongoing' \subseteq Ongoing
  BY DEF Ongoing, WorkersOn
<1> QED BY <1>1 DEF Relevant, Kept

\* A step that sends nothing.
LEMMA QuietlyOn ==
  ASSUME TypeOK, AppliedInv, Undisturbed, Delivery, WorkersOn,
         left' = left \/ (\E e \in Events : Spend(e)), done' = done, reverted => reverted',
         local'["target"].soc = local["target"].soc
  PROVE  AppliedInv'
<1>0. Commands \subseteq Job /\ \A l : Passed(l) \subseteq Controlled
  BY CommandsAssumption DEF Passed
<1>1. /\ Ongoing' \subseteq Ongoing
      /\ \A c : Relevant(c)' => Relevant(c)
      /\ \A f : Kept(f)' => Kept(f)
  BY WorkersOnKeep
<1>2. ASSUME NEW c, Relevant(c), NEW f \in Controlled, Kept(f), Value(c, f) \in Values[f]
      PROVE  Toward(c, f)' /\ (Arrives(c, f) => Arrives(c, f)')
  <2>1. c \in Commands /\ Toward(c, f)
    BY <1>2 DEF AppliedInv, Relevant
  <2> QED BY <1>0, <1>2, <2>1, DeliveryKeeps
<1>3. ASSUME NEW w \in Workers, NEW f \in Passed(pc'[w]), Kept(f)'
      PROVE  Arrives(job[w], f)'
  <2>1. Kept(f) /\ f \in Controlled /\ Arrives(job[w], f) /\ job'[w] = job[w]
    BY <1>0, <1>1, <1>3 DEF WorkersOn
  <2>2. pc[w] # "idle"
    BY <1>3 DEF WorkersOn, Passed
  <2>3. PICK c : c = job[w]
    OBVIOUS
  <2>4. Relevant(c) /\ Value(c, f) \in Values[f] /\ Arrives(c, f)
    BY <2>1, <2>2, <2>3, RelevantOnes DEF Arrives
  <2>5. Arrives(c, f)'
    BY <1>2, <2>1, <2>4
  <2> QED BY <2>1, <2>3, <2>5 DEF Arrives, Sent
<1>4. ASSUME done # NoCommand, NEW f \in Controlled, Kept(f)'
      PROVE  Arrives(done, f)'
  <2>1. PICK c : c = done
    OBVIOUS
  <2>2. Kept(f) /\ Relevant(c) /\ Arrives(c, f) /\ Value(c, f) \in Values[f]
    BY <1>1, <1>4, <2>1, RelevantOnes DEF Arrives, AppliedInv
  <2>3. Arrives(c, f)'
    BY <1>2, <2>2
  <2> QED BY <2>1, <2>3 DEF Arrives, Sent
<1>5. \A f \in Controlled \ synced' : Unheard(f)'
  BY UnheardKeeps DEF AppliedInv
<1>6. \A c \in Commands, f \in Controlled :
        Relevant(c)' /\ Value(c, f) \in Values[f] /\ Kept(f)' => Toward(c, f)'
  BY <1>1, <1>2
<1>7. \A w \in Workers : pc'[w] # "idle" => job'[w] \in Commands
  BY DEF WorkersOn, AppliedInv
<1>8. \A c, d \in Ongoing' : c = d
  BY <1>1 DEF AppliedInv
<1>9. Unspent'
  BY UnspentKeeps DEF AppliedInv
<1> QED BY <1>3, <1>4, <1>5, <1>6, <1>7, <1>8, <1>9 DEF AppliedInv

\* A step that sends a command's value, or overrules it.
LEMMA SendingOn ==
  ASSUME TypeOK, AppliedInv, Undisturbed, NEW g \in Controlled, NEW u \in Values[g], Sends(g, u),
         left' = left \/ (\E e \in Events : Spend(e)), done' = done, reverted => reverted',
         local'["target"].soc = local["target"].soc,
         \A w \in Workers :
            /\ job'[w] = job[w] /\ (pc[w] = "idle" => pc'[w] = "idle")
            /\ \A f \in Passed(pc'[w]) : Kept(f) => \/ Arrives(job[w], f)
                                                    \/ f = g /\ u = Value(job[w], f),
         \/ \E w \in Workers : pc[w] # "idle" /\ u = Value(job[w], g)
         \/ reverted' /\ g # "stop"
  PROVE  AppliedInv'
<1>0. /\ Commands \subseteq Job /\ (\A l : Passed(l) \subseteq Controlled) /\ g \in Fields
  BY CommandsAssumption DEF Passed, Controlled, Fields
<1>1. /\ Ongoing' \subseteq Ongoing
      /\ \A c : Relevant(c)' => Relevant(c)
      /\ \A f : Kept(f)' => Kept(f)
  <2>1. Ongoing' \subseteq Ongoing
    BY DEF Ongoing
  <2> QED BY <2>1 DEF Relevant, Kept
<1>2. ASSUME NEW c, Relevant(c), NEW f \in Controlled, Kept(f)', Value(c, f) \in Values[f]
      PROVE  Toward(c, f)' /\ (Arrives(c, f) \/ f = g => Arrives(c, f)')
  <2>1. c \in Job /\ Toward(c, f)
    BY <1>0, <1>1, <1>2 DEF AppliedInv, Relevant
  <2>2. f = g => u = Value(c, f)
    BY <1>2, OneCommand DEF Kept
  <2> QED BY <1>0, <1>2, <2>1, <2>2, SendingKeeps
<1>3. ASSUME NEW w \in Workers, NEW f \in Passed(pc'[w]), Kept(f)'
      PROVE  Arrives(job[w], f)'
  <2>1. Kept(f) /\ f \in Controlled /\ job'[w] = job[w]
        /\ (Arrives(job[w], f) \/ (f = g /\ u = Value(job[w], f)))
    BY <1>0, <1>1, <1>3
  <2>2. pc[w] # "idle"
    BY <1>3 DEF Passed
  <2>3. PICK c : c = job[w]
    OBVIOUS
  <2>4. Relevant(c) /\ Value(c, f) \in Values[f] /\ (Arrives(c, f) \/ f = g)
    BY <2>1, <2>2, <2>3, RelevantOnes DEF Arrives
  <2>5. Arrives(c, f)'
    BY <1>2, <1>3, <2>1, <2>4
  <2> QED BY <2>1, <2>3, <2>5 DEF Arrives, Sent
<1>4. ASSUME done # NoCommand, NEW f \in Controlled, Kept(f)'
      PROVE  Arrives(done, f)'
  <2>1. PICK c : c = done
    OBVIOUS
  <2>2. Kept(f) /\ Relevant(c) /\ Arrives(c, f) /\ Value(c, f) \in Values[f]
    BY <1>1, <1>4, <2>1, RelevantOnes DEF Arrives, AppliedInv
  <2>3. Arrives(c, f)'
    BY <1>2, <1>4, <2>2
  <2> QED BY <2>1, <2>3 DEF Arrives, Sent
<1>5. \A f \in Controlled \ synced' : Unheard(f)'
  BY <1>0, UnheardKeeps DEF AppliedInv
<1>6. \A c \in Commands, f \in Controlled :
        Relevant(c)' /\ Value(c, f) \in Values[f] /\ Kept(f)' => Toward(c, f)'
  BY <1>1, <1>2
<1>7. \A w \in Workers : pc'[w] # "idle" => job'[w] \in Commands
  BY DEF AppliedInv
<1>8. \A c, d \in Ongoing' : c = d
  BY <1>1 DEF AppliedInv
<1>9. Unspent'
  BY UnspentKeeps DEF AppliedInv
<1> QED BY <1>3, <1>4, <1>5, <1>6, <1>7, <1>8, <1>9 DEF AppliedInv

-----------------------------------------------------------------------------
\* Without a table a setter cannot fail, and with one it does not.
LEMMA NoError ==
  ASSUME AppliedInv, NEW p, NEW c, NEW f, NEW v
  PROVE  ~CacheErr(p, c, f, v)
<1>1. CASE HasParent
  BY <1>1 DEF AppliedInv, Unspent, CacheErr, Spend
<1>2. CASE ~HasParent
  BY <1>2 DEF CacheErr, Failures
<1> QED BY <1>1, <1>2

\* The target row after a setter.
LEMMA TargetWrite ==
  ASSUME TypeOK, NEW p \in Procs, NEW f \in {"soc", "mode", "charge"}, NEW v \in Values[f],
         NEW next, CacheOk(p, "target", f, v, next)
  PROVE  /\ local'["current"] = local["current"] /\ left' = left
         /\ local'["target"].soc = IF f = "soc" THEN v ELSE local["target"].soc
<1>0. "target" \in Copies /\ "current" \in Copies /\ local \in [Copies -> Row]
      /\ local["target"] \in Row /\ f \in Fields /\ "soc" \in Fields
  BY DEF Copies, TypeOK, HandlerTypeOK, Fields
<1>1. CASE Skipped("target", f, v)
  <2>1. local' = local /\ left' = left
    BY <1>1 DEF CacheOk, Set, handlerVars
  <2>2. f = "soc" => local["target"].soc = v
    BY <1>1 DEF Skipped, Compared
  <2> QED BY <2>1, <2>2
<1>2. CASE ~Skipped("target", f, v)
  <2>1. local' = [local EXCEPT !["target"] = [local["target"] EXCEPT ![f] = v]] /\ left' = left
    BY <1>0, <1>2, OutcomeShape DEF CacheOk, Set
  <2>2. local'["target"] = [local["target"] EXCEPT ![f] = v]
        /\ local'["current"] = local["current"]
    BY <1>0, <2>1
  <2>3. DOMAIN local["target"] = Fields
    BY <1>0 DEF Row, Fields
  <2>4. local'["target"]["soc"] = IF f = "soc" THEN v ELSE local["target"]["soc"]
    BY <1>0, <2>2, <2>3
  <2> QED BY <2>1, <2>2, <2>4
<1> QED BY <1>1, <1>2

\* With nothing to lose, a publication is sent or fails.
LEMMA PublishSends ==
  ASSUME TypeOK, Unspent, NEW p \in Procs, NEW f, NEW v, NEW next, Publish(p, f, v, next)
  PROVE  /\ left' = left \/ \E e \in Events : Spend(e)
         /\ \/ cmds' = Append(cmds, [f |-> f, v |-> v]) /\ Goto(p, next)
            \/ UNCHANGED cmds /\ Goto(p, "idle")
<1>1. ~Spend("loss") /\ "error" \in Events
  BY DEF Spend, Unspent, Events
<1> QED BY <1>1 DEF Publish

\* A step of one goroutine, as the workers see it.
LEMMA GoesOn ==
  ASSUME TypeOK, AppliedInv, NEW p \in Procs, NEW l, Goto(p, l), UNCHANGED job,
         p \in Workers => /\ pc[p] # "idle"
                          /\ \A f \in Passed(l) : Kept(f) => Arrives(job[p], f)
  PROVE  WorkersOn
<1>1. \A w \in Workers : pc'[w] = IF w = p THEN l ELSE pc[w]
  BY DEF Goto, TypeOK, Procs
<1> QED BY <1>1 DEF WorkersOn, AppliedInv

\* A field that the mirror shows at a command's value is there.
LEMMA MirrorShows ==
  ASSUME AppliedInv, NEW w \in Workers, pc[w] # "idle", NEW f \in Controlled, Kept(f),
         Value(job[w], f) \in Values[f], local["current"][f] = Value(job[w], f)
  PROVE  Arrives(job[w], f)
<1>1. Toward(job[w], f)
  BY RelevantOnes DEF AppliedInv
<1> QED BY <1>1 DEF Toward, Arrives

\* The two setters shared by Process and the revert.
LEMMA SetterApplied ==
  ASSUME TypeOK, AppliedInv, Undisturbed, NEW p \in Procs, SetterStep(p)
  PROVE  AppliedInv'
<1>0. /\ p \in Workers <=> p # Callback
      /\ Values["charge"] = GridCharges /\ Values["mode"] = WorkModes
      /\ "charge" \in Controlled /\ "mode" \in Controlled
      /\ \A c : Value(c, "charge") = c.charge /\ Value(c, "mode") = c.mode
      /\ AfterCharge(p) = (IF p = Callback THEN "idle" ELSE "wmRead")
      /\ AfterMode(p) = (IF p = Callback THEN "gcRead" ELSE "sdPub")
  BY CallbackAssumption DEF Procs, Values, Controlled, Value, AfterCharge, AfterMode
<1>a. /\ Passed("idle") = {} /\ Passed("gcRead") = {} /\ Passed("gcPub") = {}
      /\ Passed("gcTgt") = {"charge"} /\ Passed("wmRead") = {"charge"} /\ Passed("wmPub") = {"charge"}
      /\ Passed("wmTgt") = {"charge", "mode"} /\ Passed("sdPub") = {"charge", "mode"}
  BY DEF Passed, Controlled
<1>b. p \in Workers => \A f \in Passed(pc[p]) : Kept(f) => Arrives(job[p], f)
  BY DEF AppliedInv
<1>1. CASE ChargeRead(p)
  <2>1. PICK l : Goto(p, l) /\ \/ l = "idle" \/ l = "gcPub"
                               \/ /\ l = AfterCharge(p) /\ job[p].charge \in GridCharges
                                  /\ job[p].charge = local["current"].charge
    BY <1>1 DEF ChargeRead
  <2>2. p \in Workers => \A f \in Passed(l) : Kept(f) => Arrives(job[p], f)
    BY <1>0, <1>1, <1>a, <2>1, MirrorShows DEF ChargeRead
  <2>3. WorkersOn
    BY <1>1, <2>1, <2>2, GoesOn DEF ChargeRead
  <2> QED BY <1>1, <2>3, QuietlyOn
          DEF ChargeRead, Delivery, Still, handlerVars, plantVars, histVars
<1>2. CASE ModeRead(p)
  <2>1. PICK l : Goto(p, l) /\ \/ l = "idle" \/ l = "wmPub"
                               \/ /\ l = AfterMode(p) /\ job[p].mode \in WorkModes
                                  /\ job[p].mode = local["current"].mode
    BY <1>2 DEF ModeRead
  <2>2. p \in Workers => \A f \in Passed(l) : Kept(f) => Arrives(job[p], f)
    BY <1>0, <1>2, <1>a, <1>b, <2>1, MirrorShows DEF ModeRead
  <2>3. WorkersOn
    BY <1>2, <2>1, <2>2, GoesOn DEF ModeRead
  <2> QED BY <1>2, <2>3, QuietlyOn
          DEF ModeRead, Delivery, Still, handlerVars, plantVars, histVars
<1>3. ASSUME NEW g \in {"charge", "mode"}, NEW u \in Values[g], NEW l, pc[p] # "idle",
             Publish(p, g, u, l), NoteRevert(p),
             UNCHANGED <<handlerVars, job, reps, dev, synced, done>>,
             p \in Workers => /\ u = Value(job[p], g)
                              /\ \A f \in Passed(l) : f \in Passed(pc[p]) \/ f = g
      PROVE  AppliedInv'
  <2>1. Unspent /\ g \in Controlled /\ g # "stop"
    BY DEF AppliedInv, Controlled
  <2>2. /\ left' = left \/ \E e \in Events : Spend(e)
        /\ \/ cmds' = Append(cmds, [f |-> g, v |-> u]) /\ Goto(p, l)
           \/ UNCHANGED cmds /\ Goto(p, "idle")
    BY <1>3, <2>1, PublishSends
  <2>3. reverted => reverted'
    BY <1>3 DEF NoteRevert
  <2>4. p = Callback => reverted'
    BY <1>3 DEF NoteRevert
  <2>5. CASE UNCHANGED cmds /\ Goto(p, "idle")
    <3>1. WorkersOn
      BY <1>3, <1>a, <2>5, GoesOn
    <3> QED BY <1>3, <2>2, <2>3, <2>5, <3>1, QuietlyOn DEF Delivery, Still, handlerVars
  <2>6. CASE cmds' = Append(cmds, [f |-> g, v |-> u]) /\ Goto(p, l)
    <3>1. Sends(g, u)
      BY <1>3, <2>6 DEF Sends, handlerVars
    <3>2. \A w \in Workers :
            /\ job'[w] = job[w] /\ (pc[w] = "idle" => pc'[w] = "idle")
            /\ \A f \in Passed(pc'[w]) : Kept(f) => \/ Arrives(job[w], f)
                                                    \/ f = g /\ u = Value(job[w], f)
      <4>1. \A w \in Workers : pc'[w] = IF w = p THEN l ELSE pc[w]
        BY <2>6 DEF Goto, TypeOK, Procs
      <4> QED BY <1>3, <4>1 DEF AppliedInv
    <3>3. \/ \E w \in Workers : pc[w] # "idle" /\ u = Value(job[w], g)
          \/ reverted' /\ g # "stop"
      BY <1>0, <1>3, <2>1, <2>4
    <3>4. done' = done /\ local'["target"].soc = local["target"].soc
      BY <1>3 DEF handlerVars
    <3> QED BY <1>3, <2>1, <2>2, <2>3, <3>1, <3>2, <3>3, <3>4, SendingOn
  <2> QED BY <2>2, <2>5, <2>6
<1>4. CASE ChargePublish(p)
  <2>1. job[p].charge \in GridCharges /\ pc[p] = "gcPub"
    BY <1>4 DEF ChargePublish, TypeOK
  <2>2. PICK u \in Values["charge"] : u = job[p].charge
    BY <1>0, <2>1
  <2> QED BY <1>0, <1>3, <1>4, <1>a, <2>1, <2>2 DEF ChargePublish
<1>5. CASE ModePublish(p)
  <2>1. job[p].mode \in WorkModes /\ pc[p] = "wmPub"
    BY <1>5 DEF ModePublish, TypeOK
  <2>2. PICK u \in Values["mode"] : u = job[p].mode
    BY <1>0, <2>1
  <2> QED BY <1>0, <1>3, <1>5, <1>a, <2>1, <2>2 DEF ModePublish
<1>6. CASE ChargeTarget(p)
  <2>1. job[p].charge \in Values["charge"] /\ pc[p] = "gcTgt"
    BY <1>0, <1>6 DEF ChargeTarget, TypeOK
  <2>2. CacheOk(p, "target", "charge", job[p].charge, AfterCharge(p))
    BY <1>6, NoError DEF ChargeTarget, CacheSet
  <2>3. /\ local'["current"] = local["current"] /\ left' = left
        /\ local'["target"].soc = local["target"].soc
    BY <2>1, <2>2, TargetWrite
  <2>4. WorkersOn
    BY <1>0, <1>6, <1>a, <1>b, <2>1, <2>2, GoesOn DEF ChargeTarget, CacheOk
  <2> QED BY <1>6, <2>3, <2>4, QuietlyOn DEF ChargeTarget, Delivery, Still, plantVars, histVars
<1>7. CASE ModeTarget(p)
  <2>1. job[p].mode \in Values["mode"] /\ pc[p] = "wmTgt"
    BY <1>0, <1>7 DEF ModeTarget, TypeOK
  <2>2. CacheOk(p, "target", "mode", job[p].mode, AfterMode(p))
    BY <1>7, NoError DEF ModeTarget, CacheSet
  <2>3. /\ local'["current"] = local["current"] /\ left' = left
        /\ local'["target"].soc = local["target"].soc
    BY <2>1, <2>2, TargetWrite
  <2>4. WorkersOn
    BY <1>0, <1>7, <1>a, <1>b, <2>1, <2>2, GoesOn DEF ModeTarget, CacheOk
  <2> QED BY <1>7, <2>3, <2>4, QuietlyOn DEF ModeTarget, Delivery, Still, plantVars, histVars
<1> QED BY <1>1, <1>2, <1>4, <1>5, <1>6, <1>7 DEF SetterStep

\* SetLoadFirstStopDischarge, as a worker calls it.
LEMMA StopApplied ==
  ASSUME TypeOK, AppliedInv, Undisturbed, NEW w \in Workers,
         StopPublish(w) \/ StopPoll(w) \/ StopTick(w) \/ StopTimeout(w) \/ StopTarget(w)
  PROVE  AppliedInv'
<1>0. /\ w \in Procs /\ job[w] \in Job /\ Clamp(job[w].soc) \in Percents
      /\ Values["stop"] = Percents /\ Values["soc"] = Percents /\ "stop" \in Controlled
      /\ \A c : Value(c, "stop") = Clamp(c.soc)
  <2>1. w \in Procs /\ job[w] \in Job
    BY DEF Procs, TypeOK
  <2>2. job[w].soc \in Percents
    BY <2>1 DEF Job
  <2> QED BY <2>1, <2>2, ClampType DEF Values, Controlled, Value
<1>a. /\ Passed("idle") = {} /\ Passed("sdPub") = {"charge", "mode"}
      /\ Passed("sdPoll") = Controlled /\ Passed("sdWait") = Controlled
      /\ Passed("sdTgt") = Controlled
  BY DEF Passed, Controlled
<1>b. \A f \in Passed(pc[w]) : Kept(f) => Arrives(job[w], f)
  BY DEF AppliedInv
<1>1. CASE StopPoll(w) \/ StopTick(w) \/ StopTimeout(w)
  <2>1. PICK l \in {"sdTgt", "sdWait", "sdPoll", "idle"} : Goto(w, l)
    BY <1>1 DEF StopPoll, StopTick, StopTimeout
  <2>2. pc[w] \in {"sdPoll", "sdWait"}
    BY <1>1 DEF StopPoll, StopTick, StopTimeout
  <2>3. UNCHANGED <<handlerVars, job, plantVars, left, histVars>>
    BY <1>1 DEF StopPoll, StopTick, StopTimeout
  <2>4. WorkersOn
    BY <1>0, <1>a, <1>b, <2>1, <2>2, <2>3, GoesOn
  <2> QED BY <2>3, <2>4, QuietlyOn DEF Delivery, Still, handlerVars, plantVars, histVars
<1>2. CASE StopPublish(w)
  <2> DEFINE u == Clamp(job[w].soc)
  <2>1. /\ pc[w] = "sdPub" /\ Publish(w, "stop", u, "sdPoll")
        /\ UNCHANGED <<handlerVars, job, reps, dev, histVars>>
    BY <1>2 DEF StopPublish
  <2>2. /\ left' = left \/ \E e \in Events : Spend(e)
        /\ \/ cmds' = Append(cmds, [f |-> "stop", v |-> u]) /\ Goto(w, "sdPoll")
           \/ UNCHANGED cmds /\ Goto(w, "idle")
    BY <1>0, <2>1, PublishSends DEF AppliedInv
  <2>3. CASE UNCHANGED cmds /\ Goto(w, "idle")
    <3>1. WorkersOn
      BY <1>0, <1>a, <2>1, <2>3, GoesOn
    <3> QED BY <2>1, <2>2, <2>3, <3>1, QuietlyOn DEF Delivery, Still, handlerVars, histVars
  <2>4. CASE cmds' = Append(cmds, [f |-> "stop", v |-> u]) /\ Goto(w, "sdPoll")
    <3>1. Sends("stop", u)
      BY <2>1, <2>4 DEF Sends, handlerVars, histVars
    <3>2. u \in Values["stop"] /\ u = Value(job[w], "stop") /\ pc[w] # "idle"
      BY <1>0, <2>1
    <3> HIDE DEF u
    <3>3. \A x \in Workers :
            /\ job'[x] = job[x] /\ (pc[x] = "idle" => pc'[x] = "idle")
            /\ \A f \in Passed(pc'[x]) : Kept(f) => \/ Arrives(job[x], f)
                                                    \/ f = "stop" /\ u = Value(job[x], f)
      <4>1. \A x \in Workers : pc'[x] = IF x = w THEN "sdPoll" ELSE pc[x]
        BY <2>4 DEF Goto, TypeOK, Procs
      <4>2. \A f \in Controlled : f = "stop" \/ f \in Passed(pc[w])
        BY <1>a, <2>1 DEF Controlled
      <4>3. \A x \in Workers : job'[x] = job[x] /\ (pc[x] = "idle" => pc'[x] = "idle")
        BY <2>1, <4>1
      <4>4. \A f \in Passed(pc'[w]) : Kept(f) => \/ Arrives(job[w], f)
                                                 \/ f = "stop" /\ u = Value(job[w], f)
        BY <1>a, <1>b, <3>2, <4>1, <4>2
      <4>5. \A x \in Workers : x # w =>
              \A f \in Passed(pc'[x]) : Kept(f) => Arrives(job[x], f)
        BY <4>1 DEF AppliedInv
      <4> QED BY <4>3, <4>4, <4>5
    <3>4. /\ done' = done /\ local'["target"].soc = local["target"].soc
          /\ (reverted => reverted')
      BY <2>1 DEF handlerVars, histVars
    <3> QED BY <1>0, <2>2, <3>1, <3>2, <3>3, <3>4, SendingOn
  <2> QED BY <2>2, <2>3, <2>4
<1>3. CASE StopTarget(w)
  <2> DEFINE u == Clamp(job[w].soc)
  <2>1. /\ pc[w] = "sdTgt" /\ CacheOk(w, "target", "soc", u, "idle") /\ done' = job[w]
        /\ UNCHANGED <<job, plantVars, synced, reverted>>
    BY <1>3, NoError DEF StopTarget
  <2>2. local'["current"] = local["current"] /\ left' = left /\ local'["target"].soc = u
    BY <1>0, <2>1, TargetWrite
  <2>3. pc' = [pc EXCEPT ![w] = "idle"]
    BY <2>1 DEF CacheOk, Goto
  <2>4. \A x \in Workers : pc'[x] = IF x = w THEN "idle" ELSE pc[x]
    BY <2>3 DEF TypeOK, Procs
  <2>5. PICK c : c = job[w]
    OBVIOUS
  <2>6. /\ Relevant(c) /\ c \in Ongoing /\ c \in Commands /\ (\A d \in Ongoing : d = c)
        /\ \A f \in Controlled : Kept(f) => Arrives(c, f)
    BY <1>a, <1>b, <2>1, <2>5, RelevantOnes DEF AppliedInv, Ongoing
  <2>7. Ongoing' \subseteq Ongoing
    BY <2>1, <2>4, <2>5, <2>6 DEF Ongoing
  <2>8. Delivery /\ cmds' = cmds /\ dev' = dev /\ reps' = reps /\ synced' = synced
    BY <2>1, <2>2 DEF Delivery, Still, plantVars
  <2>9. \A d, f : /\ Relevant(d)' => Relevant(d)
                  /\ Kept(f)' <=> Kept(f)
                  /\ Toward(d, f)' <=> Toward(d, f)
                  /\ Arrives(d, f)' <=> Arrives(d, f)
                  /\ Unheard(f)' <=> Unheard(f)
    BY <2>1, <2>2, <2>7, <2>8 DEF Relevant, Kept, Toward, Arrives, Sent, Unheard
  <2>10. ASSUME NEW x \in Workers, NEW f \in Passed(pc'[x]), Kept(f)' PROVE Arrives(job[x], f)'
    <3>1. pc'[x] = pc[x] /\ job'[x] = job[x]
      BY <1>a, <2>1, <2>4, <2>10
    <3>2. Arrives(job[x], f)
      BY <2>9, <2>10, <3>1 DEF AppliedInv
    <3> QED BY <2>8, <3>1, <3>2 DEF Arrives, Sent
  <2>11. ASSUME NEW f \in Controlled, Kept(f)' PROVE Arrives(done, f)'
    <3>1. Arrives(c, f)'
      BY <2>6, <2>9, <2>11
    <3> QED BY <2>1, <2>5, <3>1 DEF Arrives, Sent
  <2>12. \A d \in Commands, f \in Controlled :
           Relevant(d)' /\ Value(d, f) \in Values[f] /\ Kept(f)' => Toward(d, f)'
    BY <2>9 DEF AppliedInv
  <2>13. local'["target"].soc = Clamp(done'.soc) /\ done' \in Commands
    BY <2>1, <2>2, <2>5, <2>6
  <2>14. \A x \in Workers : pc'[x] # "idle" => job'[x] \in Commands
    BY <2>1, <2>4 DEF AppliedInv
  <2>15. /\ Unspent' /\ (\A d, e \in Ongoing' : d = e)
         /\ \A f \in Controlled \ synced' : Unheard(f)'
    BY <2>2, <2>6, <2>7, <2>8, <2>9, UnspentKeeps DEF AppliedInv
  <2> QED BY <2>10, <2>11, <2>12, <2>13, <2>14, <2>15 DEF AppliedInv
<1> QED BY <1>1, <1>2, <1>3

\* A Process call begins.
LEMMA ProcessApplied ==
  ASSUME TypeOK, MirrorAgrees, AppliedInv, Undisturbed, NEW w \in Workers, Process(w)
  PROVE  AppliedInv'
<1>1. PICK c \in Commands : job' = [job EXCEPT ![w] = c]
  BY DEF Process
<1>2. /\ w \in Procs /\ c \in Job /\ pc' = [pc EXCEPT ![w] = "gcRead"] /\ done' = NoCommand
      /\ reverted' = (reverted /\ ~Quiet) /\ (Spaced => Quiet) /\ Spend("process")
      /\ UNCHANGED <<cmds, reps, dev, synced, local>>
  BY CommandsAssumption DEF Process, Procs, Goto, handlerVars, plantVars
<1>3. \A x \in Workers : /\ pc'[x] = IF x = w THEN "gcRead" ELSE pc[x]
                         /\ job'[x] = IF x = w THEN c ELSE job[x]
  BY <1>1, <1>2 DEF TypeOK, Procs
<1>4. Unspent'
  BY <1>2, UnspentKeeps DEF Events, AppliedInv
<1>5. \A x \in Workers : pc'[x] # "idle" => job'[x] \in Commands
  BY <1>3 DEF AppliedInv
<1>6. \A d \in Ongoing' : d \in Commands /\ (Spaced => d = c)
  <2>1. \A d \in Ongoing' : \E x \in Workers : d = job'[x] /\ pc'[x] # "idle"
    BY <1>2 DEF Ongoing
  <2>2. Spaced => \A x \in Workers : x # w => pc'[x] = "idle"
    BY <1>2, <1>3 DEF Quiet, Procs
  <2> QED BY <1>3, <1>5, <2>1, <2>2
<1>7. \A d, e \in Ongoing' : d = e
  BY <1>6 DEF Undisturbed
<1>8. \A f \in Controlled \ synced' : Unheard(f)'
  BY <1>2 DEF AppliedInv, Unheard
<1>9. ASSUME NEW d \in Commands, NEW f \in Controlled, Relevant(d)', Value(d, f) \in Values[f],
             Kept(f)'
      PROVE  Toward(d, f)'
  <2>1. CASE Quiet
    <3>1. Toward(d, f)
      BY <1>9, <2>1, CommandsAssumption, AtRest DEF AppliedInv
    <3> QED BY <1>2, <3>1 DEF Toward
  <2>2. CASE ~Quiet
    <3>1. Relevant(d) /\ Kept(f)
      BY <1>2, <1>9, <2>2 DEF Relevant, Kept
    <3>2. Toward(d, f)
      BY <1>9, <3>1 DEF AppliedInv
    <3> QED BY <1>2, <3>2 DEF Toward
  <2> QED BY <2>1, <2>2
<1>10. ASSUME NEW x \in Workers, NEW f \in Passed(pc'[x]), Kept(f)'
       PROVE  Arrives(job[x], f)'
  <2>1. x # w /\ pc'[x] = pc[x] /\ job'[x] = job[x] /\ pc[x] # "idle"
    BY <1>3, <1>10 DEF Passed
  <2>2. ~Quiet
    BY <2>1 DEF Quiet, Procs
  <2>3. Kept(f)
    BY <1>2, <1>10, <2>2 DEF Kept
  <2>4. Arrives(job[x], f)
    BY <1>10, <2>1, <2>3 DEF AppliedInv
  <2> QED BY <1>2, <2>1, <2>4 DEF Arrives, Sent
<1> QED BY <1>2, <1>4, <1>5, <1>7, <1>8, <1>9, <1>10 DEF AppliedInv

\* A report is handled.
LEMMA ReportApplied ==
  ASSUME TypeOK, AppliedInv, Undisturbed, SettingReport \/ SocReport
  PROVE  AppliedInv'
<1>0. Callback \notin Workers /\ Callback \in Procs
  BY CallbackAssumption DEF Procs
<1>1. PICK l : /\ CacheOk(Callback, "current", Head(reps).f, Head(reps).v, l)
               /\ UNCHANGED synced
  BY NoError DEF SettingReport, SocReport
<1>2. /\ reps # <<>> /\ reps' = Tail(reps) /\ cmds' = cmds /\ dev' = dev /\ done' = done
      /\ reverted' = reverted
      /\ job' = job \/ \E s : job' = [job EXCEPT ![Callback] = Revert(s)]
  BY DEF SettingReport, SocReport
<1>3. Head(reps).f \in Fields /\ Head(reps).v \in Values[Head(reps).f]
  BY <1>2, HeadShape
<1>4. \A g \in Fields : local'["current"][g] =
                          IF g = Head(reps).f THEN Head(reps).v ELSE local["current"][g]
  BY <1>1, <1>3, MirrorWrite
<1>5. left' = left /\ local'["target"] = local["target"] /\ pc' = [pc EXCEPT ![Callback] = l]
  <2>1. left' = left /\ pc' = [pc EXCEPT ![Callback] = l]
    BY <1>1 DEF CacheOk, Goto
  <2>2. local' = local \/ \E r : local' = [local EXCEPT !["current"] = r]
    BY <1>1 DEF CacheOk, Set, handlerVars, Success
  <2>3. local'["target"] = local["target"]
    BY <2>2 DEF TypeOK, HandlerTypeOK, Copies
  <2> QED BY <2>1, <2>3
<1>6. WorkersOn
  <2>1. \A w \in Workers : pc'[w] = pc[w] /\ job'[w] = job[w]
    BY <1>0, <1>2, <1>5 DEF TypeOK, Procs
  <2> QED BY <2>1 DEF WorkersOn, AppliedInv
<1>7. Delivery
  BY <1>1, <1>2, <1>4 DEF Delivery, Heard
<1> QED BY <1>2, <1>5, <1>6, <1>7, QuietlyOn

\* SetCurrentSOC looks at the mirror.
LEMMA LookApplied ==
  ASSUME TypeOK, AppliedInv, Undisturbed, ReadTargetSoc \/ ReadCharge \/ ReadMode
  PROVE  AppliedInv'
<1>1. Callback \notin Workers /\ Callback \in Procs
  BY CallbackAssumption DEF Procs
<1>2. PICK l : Goto(Callback, l)
  BY DEF ReadTargetSoc, ReadCharge, ReadMode
<1>3. UNCHANGED <<handlerVars, job, plantVars, left, histVars>>
  BY DEF ReadTargetSoc, ReadCharge, ReadMode
<1>4. WorkersOn
  BY <1>1, <1>2, <1>3, GoesOn
<1> QED BY <1>3, <1>4, QuietlyOn DEF Delivery, Still, handlerVars, plantVars, histVars

\* The inverter and the broker; no report is lost.
LEMMA PlantApplied ==
  ASSUME TypeOK, AppliedInv, Undisturbed,
         \/ DeviceApplies \/ (\E f \in Unprompted : DeviceReports(f))
         \/ BatteryMoves \/ ReportLost
  PROVE  AppliedInv'
<1>1. ~ReportLost
  BY DEF AppliedInv, Unspent, ReportLost, Spend
<1>2. /\ Delivery
      /\ UNCHANGED <<handlerVars, pc, job, done, reverted>>
  BY <1>1 DEF Delivery, DeviceApplies, DeviceReports, BatteryMoves
<1>3. left' = left \/ \E e \in Events : Spend(e)
  BY <1>1 DEF DeviceApplies, DeviceReports, BatteryMoves, Events
<1>4. WorkersOn
  BY <1>2 DEF WorkersOn, AppliedInv
<1> QED BY <1>2, <1>3, <1>4, QuietlyOn DEF handlerVars

\* After a restart, there being no database, no call is under way or remembered,
\* and the mirror is empty.
LEMMA CrashApplied ==
  ASSUME TypeOK, AppliedInv, Undisturbed, Crash
  PROVE  AppliedInv'
<1>0. ~HasParent
  BY DEF Crash, Spend, AppliedInv, Unspent
<1>1. local'["current"] = ZeroRow
  BY <1>0 DEF Crash, Restart, Copies
<1>2. /\ \A w \in Workers : pc'[w] = "idle"
      /\ done' = NoCommand /\ reverted' = reverted
  BY DEF Crash, Procs
<1>3. Forgotten
  BY <1>1 DEF Crash, Forgotten
<1>4. Ongoing' = {} /\ Passed("idle") = {}
  BY <1>2 DEF Ongoing, Passed
<1>5. ASSUME NEW c \in Commands, NEW f \in Controlled, Relevant(c)', Value(c, f) \in Values[f],
             Kept(f)'
      PROVE  Toward(c, f)'
  <2>1. Relevant(c) /\ Kept(f)
    BY <1>2, <1>4, <1>5 DEF Relevant, Kept
  <2>2. Toward(c, f)
    BY <1>5, <2>1 DEF AppliedInv
  <2> QED BY <1>3, <1>5, <2>2, CommandsAssumption, DeliveryKeeps DEF Delivery
<1>6. \A f \in Controlled \ synced' : Unheard(f)'
  BY <1>3, UnheardKeeps DEF AppliedInv, Delivery
<1>7. Unspent'
  BY UnspentKeeps DEF Crash, Events, AppliedInv
<1> QED BY <1>2, <1>4, <1>5, <1>6, <1>7 DEF AppliedInv

LEMMA StutterApplied ==
  ASSUME TypeOK, AppliedInv, Undisturbed, UNCHANGED vars
  PROVE  AppliedInv'
<1>1. Delivery /\ WorkersOn
  BY DEF vars, Delivery, Still, WorkersOn, AppliedInv, handlerVars, plantVars, histVars
<1> QED BY <1>1, QuietlyOn DEF vars, handlerVars, histVars

\* What the mirror starts with: the empty row, or the fresh table's, which has
\* no work mode that is one and else agrees with the inverter.
LEMMA InitMirror ==
  ASSUME Undisturbed, Init, NEW f \in Controlled
  PROVE  local["current"][f] \in {ZeroRow[f], dev[f]} \/ local["current"][f] \notin Values[f]
<1>1. CASE ~HasParent
  BY <1>1 DEF Init, HandlerInit, Copies
<1>2. CASE HasParent
  <2>1. local["current"] = SeedRow /\ dev \in Devices
    BY <1>2 DEF Init, HandlerInit, Loaded, Copies
  <2>2. dev.stop = SeedRow.stop /\ dev.charge = SeedRow.charge
    BY <1>2, <2>1 DEF Undisturbed
  <2>3. SeedRow["mode"] \notin Values["mode"]
    BY DEF SeedRow, Values, WorkModes
  <2> QED BY <2>1, <2>2, <2>3 DEF Controlled
<1> QED BY <1>1, <1>2

LEMMA InitApplied == Undisturbed /\ Init => AppliedInv
<1> SUFFICES ASSUME Undisturbed, Init PROVE AppliedInv
  OBVIOUS
<1>1. /\ \A w \in Workers : pc[w] = "idle"
      /\ done = NoCommand /\ left = Budget /\ cmds = <<>> /\ reps = <<>>
  BY DEF Init, Procs
<1>2. Messages(cmds) = {} /\ Messages(reps) = {}
  BY <1>1, MessagesOf
<1>3. Ongoing = {} /\ Passed("idle") = {}
  BY <1>1 DEF Ongoing, Passed
<1>4. \A f \in Controlled : Unheard(f)
  BY <1>2, InitMirror DEF Unheard
<1>5. \A c \in Commands, f \in Controlled : Value(c, f) \in Values[f] => Toward(c, f)
  BY <1>2, <1>4, CommandsAssumption, ValueNotZero DEF Toward, Unheard
<1>6. Unspent
  BY <1>1 DEF Unspent, Undisturbed
<1> QED BY <1>1, <1>3, <1>4, <1>5, <1>6 DEF AppliedInv

LEMMA StepApplied ==
  ASSUME Undisturbed, TypeOK, MirrorAgrees, AppliedInv, [Next]_vars
  PROVE  AppliedInv'
<1>1. ASSUME NEW w \in Workers, Process(w) PROVE AppliedInv'
  BY <1>1, ProcessApplied
<1>2. ASSUME NEW w \in Workers, WorkerStep(w) PROVE AppliedInv'
  BY <1>2, SetterApplied, StopApplied DEF WorkerStep, Procs
<1>3. CASE CallbackStep
  BY <1>3, ReportApplied, LookApplied, SetterApplied DEF CallbackStep, Procs
<1>4. CASE Environment
  BY <1>4, PlantApplied, CrashApplied DEF Environment
<1>5. CASE UNCHANGED vars
  BY <1>5, StutterApplied
<1> QED BY <1>1, <1>2, <1>3, <1>4, <1>5 DEF Next

\* At rest nothing is under way, so what arrives is there.
LEMMA AppliedAtRest ==
  ASSUME AppliedInv, Quiet, done # NoCommand
  PROVE  /\ \A f \in Controlled : Kept(f) => dev[f] = Value(done, f)
         /\ local["target"].soc = Clamp(done.soc)
<1>1. \A f : ~Sent(f)
  BY MessagesOf DEF Quiet, Sent
<1> QED BY <1>1 DEF AppliedInv, Arrives

(***************************************************************************)
(* A command takes effect: when all is quiet after Process returned nil,   *)
(* the inverter has the command's level and, unless the callback reverted  *)
(* it, its mode and grid charge.  SetBatteryFirstGridCharge and            *)
(* SetWorkModePriority publish nothing when the mirror already shows the   *)
(* value; that this skips nothing the inverter lacks is the theorem.       *)
(***************************************************************************)
THEOREM CommandAppliedAlways == ASSUME Undisturbed PROVE Spec => []CommandApplied
<1>1. Init => AppliedInv
  BY InitApplied
<1>2. TypeOK /\ MirrorAgrees /\ AppliedInv /\ [Next]_vars => AppliedInv'
  BY StepApplied
<1>3. AppliedInv => CommandApplied
  BY AppliedAtRest DEF CommandApplied, Controlled, Kept, Value
<1> QED BY <1>1, <1>2, <1>3, TypeCorrect, MirrorCorrect, PTL DEF Spec

(***************************************************************************)
(* The target SoC that SetLoadFirstStopDischarge records is the level the  *)
(* inverter has when all is quiet, so SetCurrentSOC compares the battery   *)
(* with the level it was really given.                                     *)
(***************************************************************************)
THEOREM TargetIsDeviceLevelAlways == ASSUME Undisturbed PROVE Spec => []TargetIsDeviceLevel
<1>1. Init => AppliedInv
  BY InitApplied
<1>2. TypeOK /\ MirrorAgrees /\ AppliedInv /\ [Next]_vars => AppliedInv'
  BY StepApplied
<1>3. AppliedInv => TargetIsDeviceLevel
  BY AppliedAtRest DEF TargetIsDeviceLevel, Controlled, Kept, Value
<1> QED BY <1>1, <1>2, <1>3, TypeCorrect, MirrorCorrect, PTL DEF Spec
=============================================================================
