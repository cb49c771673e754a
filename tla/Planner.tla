------------------------------- MODULE Planner -------------------------------
(***************************************************************************)
(* From EMHASS' optimisation to Temporal's schedules and on to the         *)
(* inverter: the forecast and MPC workflows' copying of the result         *)
(* (internal/emhass), GenerateSchedules (internal/scheduler), output,      *)
(* process and InitForecastSchedule (internal/temporal) and the inverter   *)
(* workflow (internal/temporal/inverter).                                  *)
(*                                                                         *)
(* Time is a slot number.  A step is one call of the store or of Temporal. *)
(* Runs of the workflows, of /process and of /init may overlap.  Temporal  *)
(* and EMHASS are external: a schedule is a slot and a command, it fires   *)
(* when the slot begins and never afterwards, and a failed or lost         *)
(* activity is retried or given up.                                        *)
(***************************************************************************)
EXTENDS Integers, Sequences, FiniteSets

CONSTANTS
  Methods,    \* the optimisations: dayahead-optim, naive-mpc-optim
  Runners,    \* runs of a forecast or MPC workflow at the same time
  LastSlot,   \* bound on the slots that are planned
  Until,      \* bound on time
  Plans,      \* what EMHASS may answer: rows for the slots to come
  Postgres,   \* TRUE with -dsn, FALSE with the file store
  Budget      \* bounds on runs, initialisations, and faults (an error or a crash)

Dayahead == "dayahead-optim"
Slots   == 1..LastSlot
Events  == {"run", "init", "fault"}

ASSUME MethodAssumption == Dayahead \in Methods
ASSUME SlotAssumption   == LastSlot \in Nat /\ Until \in 0..LastSlot
ASSUME BudgetAssumption == Budget \in [Events -> Nat]
ASSUME SwitchAssumption == Postgres \in BOOLEAN
ASSUME PlansAssumption  == Plans \subseteq Seq([cost : Int, soc : 0..100])

\* The commands for a list of rows, as GetCommands computes them.
Of(list) == INSTANCE GetCommands
  WITH rows <- list, MaxRows <- LastSlot, Costs <- Int, Levels <- 0..100

None == [none |-> TRUE]   \* no row, no schedule, no command

\* What a schedule passes to the inverter workflow.
Args(command) == [do |-> command.do, soc |-> command.soc]

VARIABLES
  now,       \* the slot that has begun last
  optim,     \* optimization_results: method and slot to row
  table,     \* schedule: slot to method and command
  scheds,    \* Temporal's inverter-<time> schedules: slot to command
  once,      \* the slot of emhassforecast-once-off, 0 for none
  run,       \* the runs under way
  init,      \* InitForecastSchedule under way
  work,      \* the inverter workflows by slot
  left,      \* what remains of Budget
  failed,    \* history: slots whose last scheduling failed or was cut short
  mixed      \* history: slots two runs were writing at the same time

storeVars == <<optim, table>>
histVars  == <<failed, mixed>>
vars      == <<now, storeVars, scheds, once, run, init, work, left, histVars>>

\* A run of a workflow, or of /process, where Temporal retries nothing.
IdleRun  == [pc |-> "idle", method |-> Dayahead, list |-> <<>>, i |-> 0, workflow |-> TRUE]
IdleInit == [pc |-> "idle", list |-> <<>>]

At(pc, m, workflow) == [IdleRun EXCEPT !.pc = pc, !.method = m, !.i = 1, !.workflow = workflow]

Spend(e) == left[e] > 0 /\ left' = [left EXCEPT ![e] = @ - 1]
Item(r)  == run[r].list[run[r].i]
Become(r, pc, list) == run' = [run EXCEPT ![r] = [@ EXCEPT !.pc = pc, !.list = list, !.i = 1]]

\* The list of some slots in order of time, the only one there is.
InOrder(S) ==
  {list \in [1..Cardinality(S) -> S] : \A i, j \in DOMAIN list : i < j => list[i] < list[j]}

\* Mutant: one item too many.
ProceedPast(r, again, done) ==
  run' = [run EXCEPT ![r] = IF @.i <= Len(@.list) THEN [@ EXCEPT !.pc = again, !.i = run[r].i + 1]
                            ELSE [@ EXCEPT !.pc = done, !.i = 1]]

\* On to the next item of the list at pc again, or after the last one to done.
Proceed(r, again, done) ==
  run' = [run EXCEPT ![r] = IF @.i < Len(@.list) THEN [@ EXCEPT !.pc = again, !.i = run[r].i + 1]
                            ELSE [@ EXCEPT !.pc = done, !.i = 1]]

(***************************************************************************)
(* The slots a run has written to the table and has still to schedule.     *)
(***************************************************************************)
Unscheduled(r) ==
  LET slots(I) == {run[r].list[i].slot : i \in I}
  IN CASE run[r].pc = "upsert"               -> slots(1..run[r].i - 1)
       [] run[r].pc \in {"delete", "create"} -> slots(run[r].i..Len(run[r].list))
       [] OTHER                              -> {}

(***************************************************************************)
(* An activity that returns an error or is lost starts again from its      *)
(* first step, or Temporal has no attempts left and the workflow ends.     *)
(* /process answers with the error.                                        *)
(***************************************************************************)
Stage(r)  == IF run[r].pc \in {"forecast", "insert"} THEN "forecast" ELSE "select"
Ended(r)  == {IdleRun} \cup IF run[r].workflow THEN {At(Stage(r), run[r].method, TRUE)} ELSE {}

Fail(r) == Spend("fault") /\ \E e \in Ended(r) : run' = [run EXCEPT ![r] = e]

-----------------------------------------------------------------------------
(***************************************************************************)
(* A run starts: by a cron schedule; by the one-off forecast's; by         *)
(* /process, which makes a schedule of the rows that are there.            *)
(***************************************************************************)
Started(r, m)   == run' = [run EXCEPT ![r] = At("forecast", m, TRUE)]
Processed(r, m) == run' = [run EXCEPT ![r] = At("select", m, FALSE)]

Start(r) ==
  /\ run[r].pc = "idle"
  /\ Spend("run")
  /\ \/ (\E m \in Methods : Started(r, m) \/ Processed(r, m)) /\ UNCHANGED once
     \/ once \in 1..now /\ once' = 0 /\ Started(r, Dayahead)
  /\ UNCHANGED <<now, storeVars, scheds, init, work, histVars>>

(***************************************************************************)
(* Emhass.Forecast: the request, then copyFile, which inserts the rows of  *)
(* the answer one by one.                                                  *)
(***************************************************************************)
Forecast(r) ==
  /\ run[r].pc = "forecast"
  /\ \/ /\ \E plan \in Plans :
             LET n == IF now + Len(plan) > LastSlot THEN LastSlot - now ELSE Len(plan)
                 list == [i \in 1..n |-> [slot |-> now + i, what |-> plan[i]]]
             IN Become(r, IF n = 0 THEN "select" ELSE "insert", list)
        /\ UNCHANGED left
     \/ Fail(r)
  /\ UNCHANGED <<now, storeVars, scheds, once, init, work, histVars>>

InsertOptimization(r) ==
  /\ run[r].pc = "insert"
  /\ LET inserted == [optim EXCEPT ![run[r].method][Item(r).slot] = Item(r).what]
     IN \/ /\ optim' = inserted
           /\ IF run[r].i < Len(run[r].list) THEN Proceed(r, "insert", "insert")
              ELSE Become(r, "select", <<>>)
           /\ UNCHANGED left
        \/ optim' \in {optim, inserted} /\ Fail(r)
  /\ UNCHANGED <<now, table, scheds, once, init, work, histVars>>

(***************************************************************************)
(* GenerateSchedules: select the method's rows of the time to come, make   *)
(* commands of them, upsert them all.  An error ends the whole run.        *)
(***************************************************************************)
SelectOptimization(r) ==
  /\ run[r].pc = "select"
  /\ \/ /\ \E slots \in InOrder({s \in Slots : s > now /\ optim[run[r].method][s] # None}) :
             LET rows == [i \in DOMAIN slots |-> optim[run[r].method][slots[i]]]
                 list == [i \in DOMAIN slots |-> [slot |-> slots[i], what |-> Of(rows)!Commands[i]]]
             IN IF slots = <<>> THEN run' = [run EXCEPT ![r] = IdleRun]
                ELSE Become(r, "upsert", list)
        /\ UNCHANGED left
     \/ Fail(r)
  /\ UNCHANGED <<now, storeVars, scheds, once, init, work, histVars>>

Upserted(r) == [table EXCEPT ![Item(r).slot] = [method |-> run[r].method, cmd |-> Item(r).what]]

Upsert(r) ==
  /\ run[r].pc = "upsert"
  /\ LET s == Item(r).slot
     IN \/ /\ table' = Upserted(r)
           /\ Proceed(r, "upsert", "delete")
           /\ failed' = failed \ {s}
           /\ mixed' = IF \E q \in Runners \ {r} : s \in Unscheduled(q)
                       THEN mixed \cup {s} ELSE mixed \ {s}
           /\ UNCHANGED left
        \/ /\ table' \in {table, Upserted(r)}
           /\ Fail(r)
           /\ failed' = failed \cup Unscheduled(r) \cup {s}
           /\ UNCHANGED mixed
  /\ UNCHANGED <<now, optim, scheds, once, init, work>>

\* Mutant: a schedule that is not there ends process, like any error of Delete.
DeleteScheduleStrictly(r) ==
  /\ run[r].pc = "delete"
  /\ IF scheds[Item(r).slot] = None THEN Proceed(r, "delete", "once") /\ UNCHANGED <<scheds, left>>
     ELSE /\ scheds' = [scheds EXCEPT ![Item(r).slot] = None]
          /\ run' = [run EXCEPT ![r].pc = "create"]
          /\ UNCHANGED left
  /\ UNCHANGED <<now, storeVars, once, init, work, histVars>>

\* Mutant: a schedule that is still there is left as it is.
CreateScheduleOnce(r) ==
  /\ run[r].pc = "create"
  /\ scheds' = [scheds EXCEPT ![Item(r).slot] = IF @ = None THEN Args(Item(r).what) ELSE @]
  /\ Proceed(r, "delete", "once")
  /\ UNCHANGED <<now, storeVars, once, init, work, left, histVars>>

(***************************************************************************)
(* process: delete the slot's schedule, then create it, or update its      *)
(* action when it is still there.  An error of either is logged and the    *)
(* loop of output goes on.                                                 *)
(***************************************************************************)
DeleteSchedule(r) ==
  /\ run[r].pc = "delete"
  /\ LET deleted == [scheds EXCEPT ![Item(r).slot] = None]
     IN \/ scheds' = deleted /\ UNCHANGED left
        \/ scheds' \in {scheds, deleted} /\ Spend("fault")
  /\ run' = [run EXCEPT ![r].pc = "create"]
  /\ UNCHANGED <<now, storeVars, once, init, work, histVars>>

CreateSchedule(r) ==
  /\ run[r].pc = "create"
  /\ LET created == [scheds EXCEPT ![Item(r).slot] = Args(Item(r).what)]
     IN \/ scheds' = created /\ UNCHANGED <<left, failed>>
        \/ /\ scheds' \in {scheds, created}
           /\ Spend("fault")
           /\ failed' = failed \cup {Item(r).slot}
  /\ Proceed(r, "delete", "once")
  /\ UNCHANGED <<now, storeVars, once, init, work, mixed>>

(***************************************************************************)
(* scheduleForecastWorkflow: the next forecast runs when the plan ends.    *)
(***************************************************************************)
ScheduleForecast(r) ==
  /\ run[r].pc = "once"
  /\ \/ /\ once' = run[r].list[Len(run[r].list)].slot
        /\ run' = [run EXCEPT ![r] = IdleRun]
        /\ UNCHANGED left
     \/ Fail(r) /\ UNCHANGED once
  /\ UNCHANGED <<now, storeVars, scheds, init, work, histVars>>

-----------------------------------------------------------------------------
(***************************************************************************)
(* InitForecastSchedule, at a start or by /init.  It sets up the cron      *)
(* schedule of the MPC workflow or lists Temporal's schedules; its loop    *)
(* over these runs only when there are none, so it deletes none.  The rows *)
(* of the time to come are deleted one by one, in both tables.  An error   *)
(* ends it.                                                                *)
(***************************************************************************)
InitStart ==
  /\ init = IdleInit
  /\ Spend("init")
  /\ init' = [IdleInit EXCEPT !.pc = "setup"]
  /\ UNCHANGED <<now, storeVars, scheds, once, run, work, histVars>>

InitFails == Spend("fault") /\ init' = IdleInit

InitSetUp ==
  /\ init.pc = "setup"
  /\ \/ init' = [init EXCEPT !.pc = "select"] /\ UNCHANGED left
     \/ InitFails
  /\ UNCHANGED <<now, storeVars, scheds, once, run, work, histVars>>

InitSelect ==
  /\ init.pc = "select"
  /\ \/ /\ \E rows \in InOrder({s \in Slots : s > now /\ table[s] # None}) :
             init' = [pc |-> IF rows = <<>> THEN "trigger" ELSE "optim", list |-> rows]
        /\ UNCHANGED left
     \/ InitFails
  /\ UNCHANGED <<now, storeVars, scheds, once, run, work, histVars>>

DeleteAnyOptimization ==
  /\ init.pc = "optim"
  /\ LET deleted == [m \in Methods |-> [optim[m] EXCEPT ![Head(init.list)] = None]]
     IN \/ optim' = deleted /\ init' = [init EXCEPT !.pc = "row"] /\ UNCHANGED left
        \/ optim' \in {optim, deleted} /\ InitFails
  /\ UNCHANGED <<now, table, scheds, once, run, work, histVars>>

DeleteRow ==
  /\ init.pc = "row"
  /\ LET deleted == [table EXCEPT ![Head(init.list)] = None]
     IN \/ /\ table' = deleted
           /\ init' = [pc |-> IF Len(init.list) = 1 THEN "trigger" ELSE "optim",
                       list |-> Tail(init.list)]
           /\ UNCHANGED left
        \/ table' \in {table, deleted} /\ InitFails
  /\ UNCHANGED <<now, optim, scheds, once, run, work, histVars>>

(***************************************************************************)
(* setUpForecastWorkflows creates or updates the forecast's schedule and   *)
(* triggers it.  Temporal skips the triggered run when it is running one   *)
(* already.  An error comes before the trigger or instead of its answer.   *)
(***************************************************************************)
Triggered == \E r \in Runners : run[r].pc = "idle" /\ Started(r, Dayahead)
Skipped   == (\E r \in Runners : run[r].pc # "idle" /\ run[r].workflow) /\ UNCHANGED run

InitTrigger ==
  /\ init.pc = "trigger"
  /\ \/ (Triggered \/ Skipped) /\ init' = IdleInit /\ UNCHANGED left
     \/ (Triggered \/ UNCHANGED run) /\ InitFails
  /\ UNCHANGED <<now, storeVars, scheds, once, work, histVars>>

-----------------------------------------------------------------------------
(***************************************************************************)
(* The inverter workflow of a slot: delete the schedule, whatever comes of *)
(* it, then attempt the activity until it succeeds.  Postgres answers Find *)
(* for a missing row with sql.ErrNoRows, which is not store.ErrNotFound.   *)
(***************************************************************************)
Workflow(s) ==
  /\ work[s] = "fired"
  /\ \/ scheds' = [scheds EXCEPT ![s] = None] /\ UNCHANGED left
     \/ scheds' = scheds /\ Spend("fault")
  /\ work' = [work EXCEPT ![s] = "attempt"]
  /\ UNCHANGED <<now, storeVars, once, run, init, histVars>>

\* Mutant: every error of Find ends the attempt.
FoundStrictly(s) == table[s] # None

Found(s) == table[s] # None \/ ~Postgres

Activity(s) ==
  /\ work[s] = "attempt"
  /\ Found(s)
  /\ \/ work' = [work EXCEPT ![s] = "done"] /\ UNCHANGED left
     \/ work' = work /\ Spend("fault")
  /\ UNCHANGED <<now, storeVars, scheds, once, run, init, histVars>>

\* The next slot begins and its schedule fires.
Tick ==
  /\ now < Until
  /\ now' = now + 1
  /\ work' = IF scheds[now + 1] # None THEN [work EXCEPT ![now + 1] = "fired"] ELSE work
  /\ UNCHANGED <<storeVars, scheds, once, run, init, left, histVars>>

\* The program restarts: its activities are lost, and it may initialise (-init).
Crash ==
  /\ Spend("fault")
  /\ \E e \in [Runners -> UNION {Ended(r) : r \in Runners}] :
       /\ \A r \in Runners : e[r] \in IF run[r].pc = "idle" THEN {IdleRun} ELSE Ended(r)
       /\ run' = e
  /\ init' \in {IdleInit, [IdleInit EXCEPT !.pc = "setup"]}
  /\ failed' = failed \cup UNION {Unscheduled(r) : r \in Runners}
  /\ UNCHANGED <<now, storeVars, scheds, once, work, mixed>>

-----------------------------------------------------------------------------
Init ==
  /\ now = 0
  /\ optim = [m \in Methods |-> [s \in Slots |-> None]]
  /\ table = [s \in Slots |-> None]
  /\ scheds = [s \in Slots |-> None]
  /\ once = 0
  /\ run = [r \in Runners |-> IdleRun]
  /\ init = IdleInit
  /\ work = [s \in Slots |-> "none"]
  /\ left = Budget
  /\ failed = {}
  /\ mixed = {}

RunStep(r) ==
  \/ Forecast(r) \/ InsertOptimization(r) \/ SelectOptimization(r) \/ Upsert(r)
  \/ DeleteSchedule(r) \/ CreateSchedule(r) \/ ScheduleForecast(r)

InitStep == InitSetUp \/ InitSelect \/ DeleteAnyOptimization \/ DeleteRow \/ InitTrigger

Next ==
  \/ \E r \in Runners : Start(r) \/ RunStep(r)
  \/ InitStart \/ InitStep
  \/ \E s \in Slots : Workflow(s) \/ Activity(s)
  \/ Tick \/ Crash

Spec == Init /\ [][Next]_vars

\* Temporal goes on with an inverter workflow and attempts its activity again; nothing
\* is assumed of runs and of InitForecastSchedule, whose calls may never return.
Fairness == \A s \in Slots : WF_vars(Workflow(s)) /\ WF_vars(Activity(s))

FairSpec == Spec /\ Fairness

-----------------------------------------------------------------------------
Row     == [cost : Int, soc : 0..100]
Command == [do : {Of(<<>>)!BatteryFirst, Of(<<>>)!LoadFirst}, soc : 0..100, target : 0..100]
RunPcs  == {"idle", "forecast", "insert", "select", "upsert", "delete", "create", "once"}
InitPcs == {"idle", "setup", "select", "optim", "row", "trigger"}

\* Every variable has its type, and a run in a loop is at an item of its list.
TypeOK ==
  /\ now \in 0..Until
  /\ optim \in [Methods -> [Slots -> Row \cup {None}]]
  /\ \A s \in Slots : table[s] # None => table[s].method \in Methods /\ table[s].cmd \in Command
  /\ \A s \in Slots : scheds[s] # None => scheds[s].soc \in 0..100
  /\ once \in 0..LastSlot
  /\ \A r \in Runners : run[r].pc \in RunPcs /\
       (run[r].pc \in {"insert", "upsert", "delete", "create"} => run[r].i \in DOMAIN run[r].list)
  /\ init.pc \in InitPcs
  /\ work \in [Slots -> {"none", "fired", "attempt", "done"}]
  /\ left \in [Events -> Nat]
  /\ failed \subseteq Slots /\ mixed \subseteq Slots

\* The slots whose row should be in Temporal by now.
Settled == {s \in Slots : s > now /\ table[s] # None} \ (failed \cup UNION {Unscheduled(r) : r \in Runners})

(***************************************************************************)
(* Every row of the time to come has a schedule that will carry it out,    *)
(* except while its run has still to schedule it or when that was cut      *)
(* short; the loop of output goes on after the error of one hour, and a    *)
(* schedule that was not there to delete is created all the same.          *)
(***************************************************************************)
RowsScheduled == \A s \in Settled : scheds[s] # None

(***************************************************************************)
(* What the table shows is what the schedule will do, unless two runs were *)
(* writing the slot at the same time: process replaces the schedule of an  *)
(* earlier plan or changes its action.                                     *)
(***************************************************************************)
PlanAgreed == \A s \in Settled \ mixed : scheds[s] # None => scheds[s] = Args(table[s].cmd)

(***************************************************************************)
(* A schedule that has fired is carried out, even when its row is no       *)
(* longer in the table: the activity warns "Unable to find schedule in     *)
(* database" and goes on.                                                  *)
(***************************************************************************)
CarriedOut == \A s \in Slots : work[s] = "fired" ~> work[s] = "done"
=============================================================================
