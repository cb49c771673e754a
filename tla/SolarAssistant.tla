--------------------------- MODULE SolarAssistant ---------------------------
(***************************************************************************)
(* The MQTT controller of the inverter (internal/solarassistant/           *)
(* inverter.go) on top of the settings cache (StateHandler).               *)
(*                                                                         *)
(* Process calls run on worker goroutines: activity attempts, which may    *)
(* overlap because the activity's timeout is shorter than the confirmation *)
(* wait, and the /admin/process handler.  Messages from the broker run one *)
(* after the other on the client's callback goroutine.  A step is one call *)
(* of the cache (its mutex is released in between) or one Publish.         *)
(*                                                                         *)
(* The broker and the inverter are external: set messages and state        *)
(* reports travel in order, at QoS 0, and may be lost.                     *)
(***************************************************************************)
EXTENDS StateHandler, Sequences

CONSTANTS
  Workers,      \* goroutines that call Process
  Callback,     \* the MQTT client's callback goroutine
  Commands,     \* arguments of Process: [charge, mode, soc]
  Devices,      \* the settings the inverter may start with
  Unprompted,   \* the fields the inverter reports without a command
  MaxInFlight,  \* bound on the messages under way when a new one is sent
  Budget,       \* bounds on Process calls, battery moves, losses, errors, crashes
  Spaced        \* TRUE: a Process call starts only when all is quiet

Procs == Workers \cup {Callback}
Events == {"process", "battery", "loss", "error", "crash"}

ASSUME CallsAssumption    == Calls = AllCalls
ASSUME CallbackAssumption == Callback \notin Workers
ASSUME BudgetAssumption   == Budget \in [Events -> Nat]
ASSUME BoundAssumption    == MaxInFlight \in Nat
ASSUME ReportAssumption   == Unprompted \subseteq Fields
ASSUME SocAssumption      == Soc \subseteq Nat
ASSUME SwitchAssumption   == HasParent \in BOOLEAN /\ Spaced \in BOOLEAN
ASSUME DevicesAssumption  == Devices \subseteq
  [soc : Soc, stop : Percents, mode : WorkModes, charge : GridCharges]

\* Process and the revert take any strings; these are the ones that occur.
Strings == {c.charge : c \in Commands} \cup {c.mode : c \in Commands}
             \cup {"", "Disabled", "Load first"}
Job     == [charge : Strings, mode : Strings, soc : Percents]

ASSUME CommandsAssumption == Commands \subseteq Job

\* The level the inverter accepts at least: soc < 10 is raised to 10.
Clamp(soc) == IF soc < 10 THEN 10 ELSE soc

VARIABLES
  pc,        \* where each goroutine is
  job,       \* its arguments; the callback's are those of the revert
  cmds,      \* set messages on their way to the inverter
  reps,      \* state reports on their way to the program
  dev,       \* the inverter's own settings and its battery
  left,      \* what remains of Budget
  synced,    \* history: fields whose reports reach the mirror
  done,      \* history: the command of the last Process call, once it returned nil
  reverted   \* history: the callback published since a Process call last began from rest

plantVars == <<cmds, reps, dev>>
histVars  == <<synced, done, reverted>>
vars      == <<handlerVars, pc, job, plantVars, left, histVars>>

NoCommand == [charge |-> "", mode |-> "", soc |-> 0]
Revert(soc) == [charge |-> "Disabled", mode |-> "Load first", soc |-> soc]

Goto(p, l)  == pc' = [pc EXCEPT ![p] = l]
Spend(e)    == left[e] > 0 /\ left' = [left EXCEPT ![e] = @ - 1]

\* What follows the two setters that Process and SetCurrentSOC share.
AfterCharge(p) == IF p = Callback THEN "idle" ELSE "wmRead"
AfterMode(p)   == IF p = Callback THEN "gcRead" ELSE "sdPub"

Quiet == cmds = <<>> /\ reps = <<>> /\ \A p \in Procs : pc[p] = "idle"

(***************************************************************************)
(* A call of the cache's setter by p: on success p goes to next, on error  *)
(* it returns.  SetDeviceMode swallows its error; its caller returns       *)
(* either way.                                                             *)
(***************************************************************************)
CacheOk(p, c, f, v, next) ==
  Set(c, f, v, Success(c, f)) /\ Goto(p, next) /\ UNCHANGED left

CacheErr(p, c, f, v) ==
  /\ ~Skipped(c, f, v)
  /\ Spend("error")
  /\ \E o \in Failures(c, f) : Set(c, f, v, o)
  /\ Goto(p, "idle")

CacheSet(p, c, f, v, next) == CacheOk(p, c, f, v, next) \/ CacheErr(p, c, f, v)

(***************************************************************************)
(* client.Publish at QoS 0: sent, sent and lost, or an error that the      *)
(* caller returns.                                                         *)
(***************************************************************************)
Publish(p, f, v, next) ==
  \/ /\ Len(cmds) < MaxInFlight
     /\ cmds' = Append(cmds, [f |-> f, v |-> v])
     /\ Goto(p, next)
     /\ UNCHANGED left
  \/ Spend("loss") /\ Goto(p, next) /\ UNCHANGED cmds
  \/ Spend("error") /\ Goto(p, "idle") /\ UNCHANGED cmds

NoteRevert(p) == reverted' = (reverted \/ p = Callback)

-----------------------------------------------------------------------------
\* Mutant: a grid charge already in effect ends both setters.
ChargeReadShort(p) ==
  /\ pc[p] = "gcRead"
  /\ Goto(p, IF job[p].charge \notin GridCharges THEN "idle"
             ELSE IF job[p].charge = local["current"].charge
             THEN (IF p = Callback THEN "idle" ELSE "sdPub")
             ELSE "gcPub")
  /\ UNCHANGED <<handlerVars, job, plantVars, left, histVars>>

(***************************************************************************)
(* SetBatteryFirstGridCharge: reject an unknown value, read the mirror,    *)
(* stop if it already shows the value, publish, record the target.         *)
(***************************************************************************)
ChargeRead(p) ==
  /\ pc[p] = "gcRead"
  /\ Goto(p, IF job[p].charge \notin GridCharges THEN "idle"
             ELSE IF job[p].charge = local["current"].charge THEN AfterCharge(p)
             ELSE "gcPub")
  /\ UNCHANGED <<handlerVars, job, plantVars, left, histVars>>

ChargePublish(p) ==
  /\ pc[p] = "gcPub"
  /\ Publish(p, "charge", job[p].charge, "gcTgt")
  /\ NoteRevert(p)
  /\ UNCHANGED <<handlerVars, job, reps, dev, synced, done>>

ChargeTarget(p) ==
  /\ pc[p] = "gcTgt"
  /\ CacheSet(p, "target", "charge", job[p].charge, AfterCharge(p))
  /\ UNCHANGED <<job, plantVars, histVars>>

\* Mutant: any work mode is accepted.
ModeReadUnchecked(p) ==
  /\ pc[p] = "wmRead"
  /\ Goto(p, IF job[p].mode = local["current"].mode THEN AfterMode(p) ELSE "wmPub")
  /\ UNCHANGED <<handlerVars, job, plantVars, left, histVars>>

(***************************************************************************)
(* SetWorkModePriority: likewise.                                          *)
(***************************************************************************)
ModeRead(p) ==
  /\ pc[p] = "wmRead"
  /\ Goto(p, IF job[p].mode \notin WorkModes THEN "idle"
             ELSE IF job[p].mode = local["current"].mode THEN AfterMode(p)
             ELSE "wmPub")
  /\ UNCHANGED <<handlerVars, job, plantVars, left, histVars>>

ModePublish(p) ==
  /\ pc[p] = "wmPub"
  /\ Publish(p, "mode", job[p].mode, "wmTgt")
  /\ NoteRevert(p)
  /\ UNCHANGED <<handlerVars, job, reps, dev, synced, done>>

\* Mutant: the target is recorded in the cache only.
ModeTargetCacheOnly(p) ==
  /\ pc[p] = "wmTgt"
  /\ local' = [local EXCEPT !["target"].mode = job[p].mode]
  /\ Goto(p, AfterMode(p))
  /\ UNCHANGED <<parent, unsure, left, job, plantVars, histVars>>

ModeTarget(p) ==
  /\ pc[p] = "wmTgt"
  /\ CacheSet(p, "target", "mode", job[p].mode, AfterMode(p))
  /\ UNCHANGED <<job, plantVars, histVars>>

\* Mutant: the level is published as given and awaited as clamped.
StopPublishUnclamped(w) ==
  /\ pc[w] = "sdPub"
  /\ Publish(w, "stop", job[w].soc, "sdPoll")
  /\ UNCHANGED <<handlerVars, job, reps, dev, histVars>>

(***************************************************************************)
(* SetLoadFirstStopDischarge: publish always, then look at the mirror      *)
(* every second until it shows the level or a minute has passed; only then *)
(* record the target SoC.  The timer may fire after any tick.              *)
(***************************************************************************)
StopPublish(w) ==
  /\ pc[w] = "sdPub"
  /\ Publish(w, "stop", Clamp(job[w].soc), "sdPoll")
  /\ UNCHANGED <<handlerVars, job, reps, dev, histVars>>

StopPoll(w) ==
  /\ pc[w] = "sdPoll"
  /\ Goto(w, IF local["current"].stop = Clamp(job[w].soc) THEN "sdTgt" ELSE "sdWait")
  /\ UNCHANGED <<handlerVars, job, plantVars, left, histVars>>

StopTick(w) ==
  /\ pc[w] = "sdWait"
  /\ Goto(w, "sdPoll")
  /\ UNCHANGED <<handlerVars, job, plantVars, left, histVars>>

\* Mutant: the timer is made anew in every round of the loop and never fires.
StopTimeoutRenewed(w) ==
  /\ pc[w] = "sdWait"
  /\ FALSE
  /\ UNCHANGED vars

StopTimeout(w) ==
  /\ pc[w] = "sdWait"
  /\ Goto(w, "idle")
  /\ UNCHANGED <<handlerVars, job, plantVars, left, histVars>>

\* Mutant: the level is recorded as given.
StopTargetUnclamped(w) ==
  /\ pc[w] = "sdTgt"
  /\ \/ CacheOk(w, "target", "soc", job[w].soc, "idle") /\ done' = job[w]
     \/ CacheErr(w, "target", "soc", job[w].soc) /\ UNCHANGED done
  /\ UNCHANGED <<job, plantVars, synced, reverted>>

StopTarget(w) ==
  /\ pc[w] = "sdTgt"
  /\ \/ CacheOk(w, "target", "soc", Clamp(job[w].soc), "idle") /\ done' = job[w]
     \/ CacheErr(w, "target", "soc", Clamp(job[w].soc)) /\ UNCHANGED done
  /\ UNCHANGED <<job, plantVars, synced, reverted>>

(***************************************************************************)
(* Process: the three setters one after the other.                         *)
(***************************************************************************)
Process(w) ==
  /\ pc[w] = "idle"
  /\ Spaced => Quiet
  /\ Spend("process")
  /\ \E c \in Commands : job' = [job EXCEPT ![w] = c]
  /\ Goto(w, "gcRead")
  /\ done' = NoCommand
  /\ reverted' = (reverted /\ ~Quiet)
  /\ UNCHANGED <<handlerVars, plantVars, synced>>

-----------------------------------------------------------------------------
\* A field's report leaves the queue without reaching the mirror.
Unsync(f) ==
  synced' = IF \E i \in 2..Len(reps) : reps[i].f = f THEN synced ELSE synced \ {f}

\* Mutant: reports are handled on goroutines of their own, order not mattering.
SettingReportUnordered ==
  /\ reps # <<>>
  /\ Head(reps).f # "soc"
  /\ reps' = Tail(reps)
  /\ Set("current", Head(reps).f, Head(reps).v, Success("current", Head(reps).f))
  /\ UNCHANGED <<pc, job, cmds, dev, left, histVars>>

(***************************************************************************)
(* The callbacks of the mode, grid-charge and stop-discharge topics.       *)
(***************************************************************************)
SettingReport ==
  /\ pc[Callback] = "idle"
  /\ reps # <<>>
  /\ Head(reps).f # "soc"
  /\ reps' = Tail(reps)
  /\ LET f == Head(reps).f
         v == Head(reps).v
     IN \/ CacheOk(Callback, "current", f, v, "idle") /\ UNCHANGED synced
        \/ CacheErr(Callback, "current", f, v) /\ Unsync(f)
  /\ UNCHANGED <<job, cmds, dev, done, reverted>>

(***************************************************************************)
(* The callback of the SoC topic, SetCurrentSOC: store the SoC, then read  *)
(* the target SoC, the mirrored grid charge and the mirrored mode, each    *)
(* under a lock of its own; revert a charging inverter to Load first.      *)
(***************************************************************************)
SocReport ==
  /\ pc[Callback] = "idle"
  /\ reps # <<>>
  /\ Head(reps).f = "soc"
  /\ reps' = Tail(reps)
  /\ LET s == Head(reps).v
     IN /\ job' = [job EXCEPT ![Callback] = Revert(s)]
        /\ \/ CacheOk(Callback, "current", "soc", s, "csTarget") /\ UNCHANGED synced
           \/ CacheErr(Callback, "current", "soc", s) /\ Unsync("soc")
  /\ UNCHANGED <<cmds, dev, done, reverted>>

\* Mutant: only a battery above the target ends the charging.
ReadTargetSocAbove ==
  /\ pc[Callback] = "csTarget"
  /\ Goto(Callback, IF job[Callback].soc > local["target"].soc THEN "csCharge" ELSE "idle")
  /\ UNCHANGED <<handlerVars, job, plantVars, left, histVars>>

ReadTargetSoc ==
  /\ pc[Callback] = "csTarget"
  /\ Goto(Callback, IF job[Callback].soc >= local["target"].soc THEN "csCharge" ELSE "idle")
  /\ UNCHANGED <<handlerVars, job, plantVars, left, histVars>>

ReadCharge ==
  /\ pc[Callback] = "csCharge"
  /\ Goto(Callback, IF local["current"].charge = "Enabled" THEN "csMode" ELSE "idle")
  /\ UNCHANGED <<handlerVars, job, plantVars, left, histVars>>

ReadMode ==
  /\ pc[Callback] = "csMode"
  /\ Goto(Callback, IF local["current"].mode = "Battery first" THEN "wmRead" ELSE "idle")
  /\ UNCHANGED <<handlerVars, job, plantVars, left, histVars>>

-----------------------------------------------------------------------------
(***************************************************************************)
(* The inverter and the broker (external): a set message is applied and    *)
(* its topic's state reported; any state may be reported again; the        *)
(* battery's charge moves.                                                 *)
(***************************************************************************)
Report(f, v) == /\ reps' = Append(reps, [f |-> f, v |-> v])
                /\ synced' = synced \cup {f}

DeviceApplies ==
  /\ cmds # <<>>
  /\ cmds' = Tail(cmds)
  /\ dev' = [dev EXCEPT ![Head(cmds).f] = Head(cmds).v]
  /\ Report(Head(cmds).f, Head(cmds).v)
  /\ UNCHANGED <<handlerVars, pc, job, left, done, reverted>>

DeviceReports(f) ==
  /\ Len(cmds) + Len(reps) < MaxInFlight
  /\ Report(f, dev[f])
  /\ UNCHANGED <<handlerVars, pc, job, cmds, dev, left, done, reverted>>

BatteryMoves ==
  /\ Spend("battery")
  /\ \E s \in Soc : s # dev.soc /\ dev' = [dev EXCEPT !.soc = s]
  /\ synced' = synced \ {"soc"}
  /\ UNCHANGED <<handlerVars, pc, job, cmds, reps, done, reverted>>

ReportLost ==
  /\ reps # <<>>
  /\ Spend("loss")
  /\ reps' = Tail(reps)
  /\ Unsync(Head(reps).f)
  /\ UNCHANGED <<handlerVars, pc, job, cmds, dev, done, reverted>>

(***************************************************************************)
(* The program stops at any point and starts again; reports sent meanwhile *)
(* are lost (clean session), set messages already with the broker are not. *)
(***************************************************************************)
Crash ==
  /\ Spend("crash")
  /\ Restart
  /\ pc' = [p \in Procs |-> "idle"]
  /\ job' = [p \in Procs |-> NoCommand]
  /\ reps' = <<>>
  /\ synced' = {}
  /\ done' = NoCommand
  /\ UNCHANGED <<cmds, dev, reverted>>

-----------------------------------------------------------------------------
Init ==
  /\ HandlerInit
  /\ pc = [p \in Procs |-> "idle"]
  /\ job = [p \in Procs |-> NoCommand]
  /\ cmds = <<>>
  /\ reps = <<>>
  /\ dev \in Devices
  /\ left = Budget
  /\ synced = {}
  /\ done = NoCommand
  /\ reverted = FALSE

SetterStep(p) ==
  \/ ChargeRead(p) \/ ChargePublish(p) \/ ChargeTarget(p)
  \/ ModeRead(p) \/ ModePublish(p) \/ ModeTarget(p)

WorkerStep(w) ==
  \/ SetterStep(w)
  \/ StopPublish(w) \/ StopPoll(w) \/ StopTick(w) \/ StopTimeout(w) \/ StopTarget(w)

CallbackStep ==
  \/ SettingReport \/ SocReport \/ ReadTargetSoc \/ ReadCharge \/ ReadMode
  \/ SetterStep(Callback)

Environment ==
  \/ DeviceApplies \/ (\E f \in Unprompted : DeviceReports(f))
  \/ BatteryMoves \/ ReportLost \/ Crash

Next ==
  \/ \E w \in Workers : Process(w) \/ WorkerStep(w)
  \/ CallbackStep
  \/ Environment

Spec == Init /\ [][Next]_vars

(***************************************************************************)
(* Goroutines run, the one-minute timer fires, the broker delivers and     *)
(* Solar Assistant publishes each state again and again.  Nothing forces a *)
(* Process call, a battery move, a loss or a crash.  The timer needs       *)
(* strong fairness because the wait passes through the poll every second,  *)
(* the reports because they share a bounded queue.                         *)
(***************************************************************************)
Fairness ==
  /\ \A w \in Workers : WF_vars(WorkerStep(w)) /\ SF_vars(StopTimeout(w))
  /\ WF_vars(CallbackStep)
  /\ WF_vars(DeviceApplies)
  /\ \A f \in Unprompted : SF_vars(DeviceReports(f))

FairSpec == Spec /\ Fairness

-----------------------------------------------------------------------------
WorkerPcs   == {"idle", "gcRead", "gcPub", "gcTgt", "wmRead", "wmPub", "wmTgt",
                "sdPub", "sdPoll", "sdWait", "sdTgt"}
CallbackPcs == {"idle", "csTarget", "csCharge", "csMode",
                "wmRead", "wmPub", "wmTgt", "gcRead", "gcPub", "gcTgt"}
Message == UNION {[f : {f}, v : Values[f]] : f \in Fields}
Device  == [soc : Percents, stop : Percents, mode : WorkModes, charge : GridCharges]

(***************************************************************************)
(* Type invariant.  A goroutine past a setter's validation holds one of    *)
(* the values the inverter knows.                                          *)
(***************************************************************************)
TypeOK ==
  /\ HandlerTypeOK
  /\ pc \in [Procs -> WorkerPcs \cup CallbackPcs]
  /\ job \in [Procs -> Job]
  /\ cmds \in Seq(Message) /\ reps \in Seq(Message)
  /\ dev \in Device
  /\ left \in [Events -> Nat]
  /\ synced \in SUBSET Fields
  /\ done \in Job /\ reverted \in BOOLEAN
  /\ \A p \in Procs :
       /\ pc[p] \in {"gcPub", "gcTgt"} => job[p].charge \in GridCharges
       /\ pc[p] \in {"wmPub", "wmTgt"} => job[p].mode \in WorkModes

(***************************************************************************)
(* The mirror agrees with the inverter up to the reports under way: if a   *)
(* report of a field was sent and none was lost after it, then the last    *)
(* report of the field still under way, or the mirror when there is none,  *)
(* is the inverter's value.  Every decision of the controller is taken on  *)
(* the mirror, so this is what makes the decisions meaningful.             *)
(***************************************************************************)
Pending(f) == {i \in 1..Len(reps) : reps[i].f = f}

MirrorAgrees ==
  \A f \in synced :
    /\ Pending(f) = {} => local["current"][f] = dev[f]
    /\ \A i \in Pending(f) : (\A j \in Pending(f) : j <= i) => reps[i].v = dev[f]

(***************************************************************************)
(* SetCurrentSOC reads the mirror under four separate locks and then acts  *)
(* on it twice.  Because reports are handled one at a time on one          *)
(* goroutine, what it acts on is still so: through the whole revert the    *)
(* mirror shows a charging inverter, and neither setter is skipped.        *)
(***************************************************************************)
Reverting == pc[Callback] \in {"wmRead", "wmPub", "wmTgt", "gcRead", "gcPub", "gcTgt"}

RevertSeesCharging ==
  Reverting => /\ local["current"].mode = "Battery first"
               /\ local["current"].charge = "Enabled"

(***************************************************************************)
(* A command takes effect: once everything has settled after a Process     *)
(* call that returned nil, the inverter has the command's stop-discharge   *)
(* level and, unless the callback reverted it, its mode and grid charge.   *)
(* This holds for calls one at a time and for a retry that runs beside the *)
(* attempt it replaces.  The level of a command in the default mode is     *)
(* sent like any other, though the comment at inverter.go:143 would always *)
(* allow discharging to 10 there.                                          *)
(***************************************************************************)
CommandApplied ==
  Quiet /\ done # NoCommand =>
    /\ dev.stop = Clamp(done.soc)
    /\ ~reverted => dev.mode = done.mode /\ dev.charge = done.charge

(***************************************************************************)
(* The recorded target SoC is the level the inverter was given: when all   *)
(* has settled after a successful call the two are equal, so the callback  *)
(* compares the battery with the level the inverter really has.            *)
(***************************************************************************)
TargetIsDeviceLevel ==
  Quiet /\ done # NoCommand => local["target"].soc = dev.stop

(***************************************************************************)
(* Every Process call returns: confirmed, with an error, or by the timer.  *)
(***************************************************************************)
ProcessReturns == \A w \in Workers : pc[w] # "idle" ~> pc[w] = "idle"

(***************************************************************************)
(* Grid charging ends: if from some time on no command is being processed  *)
(* and the battery is at or above the recorded target, the inverter stops  *)
(* charging from the grid for good.                                        *)
(***************************************************************************)
Charged  == /\ dev.soc >= local["target"].soc
            /\ \A w \in Workers : pc[w] = "idle"
Charging == dev.mode = "Battery first" /\ dev.charge = "Enabled"

ChargingEnds == <>[]Charged => <>[]~Charging

-----------------------------------------------------------------------------
(* What a test of the repository says and the code does not do.            *)

(***************************************************************************)
(* inverter_test.go:155 "Battery Charging, Current SOC Below target": a    *)
(* command to charge is not reverted while the battery is below the        *)
(* command's level.                                                        *)
(***************************************************************************)
NoPrematureRevert ==
  \A w \in Workers :
    pc[Callback] = "wmPub" /\ job[w].mode = "Battery first" =>
      job[Callback].soc >= Clamp(job[w].soc)
=============================================================================
