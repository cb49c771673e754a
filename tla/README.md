# emprometheus: TLA+ models, checks and proofs

emprometheus plans and drives a home battery. It fetches a tariff, asks EMHASS
for an optimisation, turns the optimisation into commands for the inverter, one
per half hour or hour, has Temporal run each of them at its time, and carries
them out over MQTT through Solar Assistant. This directory models that program
(the Go sources under `src/`), checks the models with TLC and proves theorems
about the core with TLAPS.

## 1. The system

| component | state | operations | interacts with |
|---|---|---|---|
| inverter controller, `internal/solarassistant/inverter.go` | none of its own: the cache below | `Process` and its setters; the four state callbacks; `SetCurrentSOC`'s revert | MQTT broker (publish, callbacks), settings cache; called by the inverter workflow and `/admin/process` |
| settings cache, `internal/solarassistant/state.go` | `current` mirror and `target` copy of SoC, stop-discharge level, work mode, grid charge; one mutex | setters (write through), getters, `Load` | `inverter_settings` (write through), the controller |
| `inverter_settings`, `internal/store/db.go` | two rows, `current` and `target` | one `UPDATE` per setter, two for `SetSOCTarget`; seeding | the cache |
| command generation, `internal/scheduler/schedules.go` | none | `GetCommands`, `GenerateSchedules` | optimisation table, schedule table |
| planner, `internal/temporal/scheduler.go` | Temporal schedules, one per hour, one for the next forecast | `InitForecastSchedule`, `Run`/`output`/`process`, `scheduleForecastWorkflow` | Temporal, the store, command generation |
| inverter workflow, `internal/temporal/inverter/workflow.go` | Temporal's history | delete the schedule, record the SoC, run `Process` with retries | Temporal, the store, the controller |
| forecast and MPC workflows, `internal/temporal/emhass`, `internal/emhass` | `horizon`; CSV files shared with EMHASS | tariff, EMHASS request, copying of the result, `Run` | tariff provider, EMHASS, the store, the planner |
| stores, `internal/store/file.go`, `db.go` | the schedule file, or the tables `schedule` and `optimization_results` | `Upsert`, `Find`, `Select`, `Delete`, `InsertOptimization`, ... | planner, workflows, server |
| tariff provider, `internal/provider/octopus` | the tariff CSV | fetch, inject saving sessions, write hourly rows | Octopus' API, EMHASS (the file) |
| HTTP server, reporters, telemetry, wiring | none | requests passed on | everything above |

What makes it hard:

* **Interleaving.** `Process` runs on activity goroutines and on the handler of
  `/admin/process`, the MQTT callbacks on another goroutine. The cache's mutex
  covers one call of it, never a decision made of several. An activity attempt
  is abandoned after 10 seconds and retried while the first one still waits up
  to a minute, so attempts overlap.
* **Stale state.** Decisions are taken on a mirror that follows the inverter by
  a message each way.
* **Unreliable delivery.** Everything travels at QoS 0: a message may be lost
  and its publisher does not know.
* **Partial failure.** The write-through may fail before or after its statement
  is executed; `SetSOCTarget` is two statements; the revert is two messages;
  a plan is many upserts and many Temporal calls.
* **Crashes.** After a restart the mirror is what the table says.
* **Boundaries.** Free first hours, the end of a block, the last row, rounding.

`PROJECT.json` lists each hazard at its line, with the properties that cover it
or the reason why none does.

What makes each component correct:

* controller: a command that returned nil is in effect once everything settled;
  the recorded target is the inverter's level; a decision made of several reads
  is still justified when it is acted on; every call returns; charging ends;
* cache: it and the table agree except where a write reported an error;
* command generation: charge only in the cheapest or free hours, as high as the
  optimisation wants in the block or right after it, and never lower inside it;
* planner and workflow: every row of the plan has a schedule that carries out
  its command, and no stale schedule remains;
* forecast and MPC: what is inserted is the answer to the run's own request, cut
  at its own last price; the horizon belongs to the row that is asked for; every
  run of a workflow ends;
* stores: a write that reported success has its effect and no other, and a read
  sees the table between two writes;
* tariff: injection changes the rate inside the special period only; the file
  has the lines of one tariff.

## 2. Modules

| module | models |
|---|---|
| `StateHandler` | the cache over the settings table |
| `SolarAssistant` (extends `StateHandler`) | the controller, the broker and the inverter |
| `GetCommands` | optimisation to commands |
| `Planner` (instantiates `GetCommands`) | optimisation and schedule tables, Temporal's schedules, `Run` for the workflows and `/process`, `InitForecastSchedule`, the inverter workflow |
| `EmhassForecast` | the forecast and MPC workflows, `/action` and `/api/config` over the tariff file, the result file and the shared horizon |
| `OctopusTariff` | fetching a tariff, cutting the free sessions out, writing the tariff file |
| `Store` | what a store promises: the abstract specification |
| `FileStore` (instantiates `Store`) | the store of files, line by line, and its refinement to `Store` |
| `Lists` | the loop that copies what it wants of a list, used by `FileStore` and `OctopusTariff` |
| `MC...` | constants of the TLC runs |
| `StateHandlerProofs`, `SolarAssistantProofs`, `GetCommandsProofs`, `PlannerProofs`, `EmhassForecastProofs`, `OctopusTariffProofs`, `FileStoreProofs` | theorems about the module of that name |
| `ListProofs` | lemmas about lists and least elements that several of these use |

**StateHandler.** `local` is `h.state` and `h.target`, `parent` the two rows of
the table. A method of the handler holds its mutex throughout, the SQL included,
so `Set` is one step; its outcome is how many statements were executed and
whether the call returned an error (a lost reply is an error after an executed
statement). `Compared` keeps the code's comparison of the grid-charge target
with the *current* row. `Restart` is `Load`, or an empty cache when there is no
database (`HasParent`, the `-dsn` flag). The history variable `unsure` (cells
whose last executed write returned an error) occurs in properties only.
`HandlerSpec` is what the cache promises to anyone who calls it in any order.

**SolarAssistant.** Each goroutine has a `pc`; a step is one call of the cache
or one `Publish`, because between two such calls any other goroutine may run.
`gcRead/gcPub/gcTgt` is `SetBatteryFirstGridCharge`, `wmRead/wmPub/wmTgt`
`SetWorkModePriority`, `sdPub/sdPoll/sdWait/sdTgt` `SetLoadFirstStopDischarge`
with its ticker and timer, `csTarget/csCharge/csMode` the three reads of
`SetCurrentSOC`, whose revert runs the same setters in the opposite order on the
callback goroutine. Messages to and from the inverter are the sequences `cmds`
and `reps`; the inverter (external) applies a command and reports the field, may
repeat any report, and its battery moves. A `Publish` is delivered, lost, or
fails. `Crash` restarts the program at any point. `Spaced` restricts the start of
`Process` to quiet moments, which is how the half-hourly schedule behaves when
nothing is retried. `Budget` bounds the number of calls, battery moves, losses,
errors and crashes, `MaxInFlight` the queues.

**GetCommands.** A function of the list of rows, translated loop by loop into
recursive functions (`MinPrice`, `Monotonic`) and operators; the list grows by
`SelectRow`, so that every list is a state. A state of charge is a whole
percentage: the floating-point product `SOCOpt() * 100` is abstracted.

**Planner.** Time is a slot number; a slot is the hour a command is for. `optim`
and `table` are the two tables, `scheds` Temporal's `inverter-<time>` schedules,
`once` the one-off forecast's. A run has a `pc` and the list it is looping over:
`forecast` and `insert` are `Emhass.Forecast` and `copyFile`, `select` and
`upsert` are `GenerateSchedules` (through `GetCommands`), `delete` and `create`
are `process`, `once` is `scheduleForecastWorkflow`. A run of `/process` starts at
`select`, with the rows that are there, and is retried by nobody (`workflow`).
`InitSetUp`, `InitSelect`, `DeleteAnyOptimization`, `DeleteRow` and `InitTrigger`
are `InitForecastSchedule`, whose loop over Temporal's schedules deletes nothing;
each of them may fail, the last one before or after Temporal was told to trigger
the forecast.
`work` is the inverter workflow of a slot: `fired`, then `attempt` until the
activity succeeds. A call of the store or of Temporal may fail before or after
it took effect; a failed activity is retried from its first step or given up; a
crash does this to all of them at once. The history variables `failed` and
`mixed` say for which slots the code makes no promise: scheduling failed or was
cut short, or two runs were writing the slot together. An answer of EMHASS is
any of `Plans`; how it comes about is `EmhassForecast`. Rows are selected in
order of time, as the SQL does.

**EmhassForecast.** Four kinds of runs share the program's files and memory: the
two workflows, `/action`, `/api/config`. Time is an hour. The steps follow the
code: `search` and `find` are `GetHorizonSOCActivity` (the first "Load first" row
a "Battery first" one follows, then the row five hours ahead when that is too
near), `tariff` and `fill` the truncation and the filling of the tariff file,
`request`/`sent` the HTTP request, `copy`, `latest` and `insert` `copyFile` with
its cut at the last priced hour, `build` the rest of the plan (`Planner`).
The tariff file is the sequence of the hours its lines are for, gaps and the tail
of a longer file included (`Over`). EMHASS (external) has a set of requests under
way (`jobs`), each with the horizon it was sent with and a number of its own, so
that a request of an attempt that was given up stays there beside the next one;
it writes the one result file and answers, or answers with an error before or
after writing. `copyFile` may see that file cut off anywhere and accepts it, with
no row at all too, since nobody asks the scanner for its error (`Cuts`). A step
that fails starts its activity again (two attempts), then the workflow (ten in
the forecast, one in MPC), then ends (`Failed`). A panic, also that of a tariff
file that cannot be closed, ends the attempt, except in `MPCActivity`, which
recovers and returns no error (`Panicked`). A restart (`Crash`) fails what was
under way, keeps what was only scheduled, and resets the horizon to six. The
fields `fetched`, `mixed`, `crossed`, `restarted`, `inserted` and `recovered` of
a run are history and occur in properties only: what the run has fetched, whether
another run wrote the tariff file or replaced the result meanwhile, and so on.
An attempt of a workflow's activity that has timed out takes no further step of
its own: its context is past its deadline, and its requests and statements take
that context.

**OctopusTariff.** Time is an integer, `Res` of them a step, so that periods and
sessions may begin inside a step. A call is `fetch`, `sessions`, `inject` (one
`InjectTariffPeriod` per session), `create` (the truncation) and `write`. The
contents are computed from the time at which the call began. Periods are sets:
the code sorts them before it searches. A period without an end has the zero
time as its end, as in the code, and so covers nothing. A file that cannot be
closed is a panic after the write, which ends the call like a return; who calls
it and goes on is in `EmhassForecast`.

**Store, FileStore.** `Store` has the tables as functions and every call as one
step; a write that answers "error", or is cut off, may have none of its effect,
or lose rows of its own table, or leave the settings unreadable. `FileStore` has
the lines of three files and the mutex: a write holds it, reads the file,
truncates it and writes one line per step, any of which may fail or be the last
before a restart. The refinement `Promised` maps a file that is being written to
what its writer had read (`Committed`) until the writer unlocks it. Postgres
executes each statement at once; its settings are in `StateHandler`, its rows in
`Planner`.

**Composition.** `SolarAssistant` contains `StateHandler`, `Planner` uses
`GetCommands`, `FileStore` implements `Store`. `Planner` and `EmhassForecast`
meet in two steps: `Build` of `EmhassForecast` is `Planner` from
`SelectOptimization` on, and `Forecast` of `Planner` is everything before
`Insert` of `EmhassForecast`. `Activity` of `Planner` is `Process` of
`SolarAssistant`.

**Abstraction.** Payloads are the values themselves; logging, metrics and the
formatting of numbers are left out. The four topics are one ordered channel in
each direction: the client has one connection and handles messages in order.
`Load`'s failures end the program, so a start that fails is a crash that has not
restarted yet. `Status` and `observe` only read and are no actions.

## 3. Runs

| run | expects | shows |
|---|---|---|
| `faults` | pass | with Postgres, one lost message, one failing call, one crash: types; the mirror agrees with the inverter up to reports under way; the cache stays coherent; the controller implements the cache's specification (`HandlerSpec` as a PROPERTY) |
| `retries` | pass | two overlapping attempts of one command, one failing: the command takes effect; the revert acts on what is still so |
| `spaced` | pass | with the settings table, three commands, one at a time, one of them in the default mode with a level above 10: a command that returned nil is in effect and its level recorded |
| `settling` | pass | liveness: every call returns; charging ends |
| `get_commands` | pass | all optimisations of up to four hours against loop-free definitions; the cheapest paid hours charge, except paid hours hidden by a free first hour |
| `planner` | pass | two overlapping runs of the forecast workflow or of `/process`, an error or a crash anywhere: every row of the plan has a schedule (`RowsScheduled`) that does what the row says (`PlanAgreed`), up to `failed` and `mixed` |
| `carried_out` | pass | liveness, file store, with `InitForecastSchedule` deleting rows: a schedule that fires is carried out |
| `tariff` | pass | two overlapping calls: sessions that overlap, cover or touch periods and one another are free, and nothing else changes (`SessionsInjected`); the lines are those of the day at their prices (`TariffCorrect`); no line of an older tariff stays in the file unless two calls had it open (`WholeFile`) |
| `file_store` | pass | two clients, any write failing or cut off at any line: the file store implements `Store` (`Promised`) and no key ever has two lines |
| `emhass_forecast` | pass | a forecast, an MPC run and a request overlap, with retries, requests whose caller is gone, results that are cut off and a restart: horizon and row belong together; a run inserts the answer to its own attempt's request or one that replaced it (`OwnResult`); a workflow cuts its result at the last hour it has itself fetched a price for, unless another run wrote the file meanwhile (`OwnPrices`); a schedule is made of an inserted answer only, but for the recovered panic |
| `forecast_ends` | pass | with a near row, a last row and none: every run of the two workflows ends (liveness), although a request to EMHASS may never be answered, and horizon and row belong together; nothing is claimed of the end of `/action` and `/api/config` |
| `premature_revert` | violation | a SoC report during the confirmation wait is compared with the previous target |

The violated property quotes the comment it comes from; its entry under
`findings` in `PROJECT.json` names the line of the code that departs from it.

**Known departures.** Met while modelling; premises of the properties they would
break, or left as the code has them. Comments speak for the opposite of the first
four; of the others no document promises it.

* A free first hour stays the least price, and no hour that costs something
  charges (`schedules.go:42`), although the comment at `schedules.go:41` means to
  "avoid setting rows with 0 cost as minGridRow": the premise `Hidden` of
  `CheapestHoursCharge`.
* The level of a command in the default mode is sent as it is, where the comment at
  `inverter.go:143` would "always allow discharging to 10 (minimum) unless
  explicitly grid charging". The commands of `GetCommands` for that mode carry the
  minimum; one through `/admin/process` may not. `CommandApplied` states what the
  code does, and `spaced` has such a command.
* `Load` gives the mirror the stop-discharge level of the table, where the comment
  at `state.go:138` would set it to 10; so does `Loaded`.
* `SetSOCTarget` is two statements without a transaction, so the two columns that
  `db.go:177` means to be the same may differ after an error. `Set` has it so;
  nothing reads the second one.
* A revert that interleaves with `Process` can leave the mode of one command and
  the grid charge of another (`inverter.go:429`); `CommandApplied` leaves such
  calls out.
* A revert whose second message is lost is not repeated, since the condition for
  it no longer holds (`inverter.go:433`).
* A mirror that already shows a level confirms a command whose message was lost
  (`inverter.go:205`), and the target is recorded: a premise (`Undisturbed`).
* Schedules whose rows were deleted are never deleted, because the loop that would
  runs only over an empty list (`scheduler.go:143`); they fire, and `CarriedOut`
  says what then happens.
* With Postgres, `Find` answers `sql.ErrNoRows` for a missing row, which is not
  `store.ErrNotFound`: a schedule whose row was deleted is attempted for ever and
  never carried out (`workflow.go:84`). `carried_out` has the file store.
* The grid-charge target is compared with the current row (`state.go:229`), so it
  may not be recorded.
* MPC without a row to charge for sends the horizon of an earlier run with a full
  battery; after a restart between its two activities it sends six hours with the
  row of another horizon. Both are premises of `HorizonPaired`.
* `MPCActivity` recovers from the panic of a half-written result, or of a tariff
  file that cannot be closed (`fetcher.go:142-146`), and goes on to make a schedule
  of old rows: the premise of `BuildsFromAnswer`.
* A result replaced between answer and read is inserted as the run's own, under
  the wrong method when it is another run's (`crossed` in `OwnResult`).
* A result that is cut off, down to no row at all, is read as a success, because
  the scanner's error is not looked at (`types.go:146-173`).
* Hours without a price have no line in the tariff file (`fetcher.go:254-257`), but
  `copyFile` compares with the latest line only (`emhass.go:91-94`): rows of such
  hours before it are inserted. `Kept` has it so.
* A call of `/api/config` has no deadline: it goes on with the request's context
  (`hass.go:28`) and with clients without a timeout (`main.go:100-110` with an API
  key, `fetcher.go:375`), on a server without one (`server.go:197`). It may wait
  for ever, and `WorkflowsEnd` claims nothing of it.
* A tariff period without an end covers no hour; a running session is left at
  its price.
* The file store keeps rows in the order of their first insertion, not of time.

**Bounds.** Three SoC levels put a battery below, at and above a target, with 5
below the inverter's minimum of 10, so that the clamp matters. Two messages under
way suffice for one field's report to overtake another's; the queue argument
itself is proved for every length. One fault of each kind is enough for every
combination of a fault and a step; repeated faults of a write are the subject of
the proof. Three spaced commands, out of a charging one and two in the default
mode, with a level below the minimum and one above it, give a command, its
opposite and a return. Four hours hold two blocks with a gap, a block with three hours and its successor, and
all positions of the minimum; costs hold a negative, a free and two paid ones,
levels one below, at and above the minimum. In the runs of `Planner` two plans
of two slots disagree about both, so that a schedule left from the first is
wrong for the second; time advances by one slot, so that slots are past, begun
and to come; two runs make every pair of loops overlap, and one fault strikes
each step. `InitForecastSchedule` is in the runs with one forecast run, since it
deletes rows and neither adds one nor touches a schedule. In `emhass_forecast`
two starts make any two kinds of run overlap or follow one another, one restart
strikes each step, a near row makes the search look five hours ahead (a far one, the last
one and none are in `forecast_ends`), and tariffs of one line and of two with a
gap before a later hour make what a longer one leaves behind matter; one attempt
of the forecast
workflow, since its further attempts start from the same state (two in
`forecast_ends`). `forecast_ends` adds the row at the end of the list and the
schedule without one; runs do not wait for one another, so one start is enough
for their end. In `tariff` steps of two units put ends of periods and sessions
inside a step, the clock is an hour from its label, three calls give a third
tariff after two that overlapped, and the sessions are running, of another type,
across a change of rate, and overlapping. In `file_store` two clients and three
writes give a reader or writer in every position of another's write and a third
write after two that failed; two times, methods, settings and values make every
filter keep one row and drop one. The proofs remove all of these bounds from
the properties they state.

**Fairness** (`FairSpec`). Goroutines run (weak fairness of each worker and of
the callback goroutine). The one-minute timer fires: strong fairness, because the
wait leaves `sdWait` for a poll every second and so the timeout is not enabled
continuously. The broker delivers, and Solar Assistant publishes each state again
and again (strong fairness, because reports share a bounded queue). No command,
battery move, loss, error or crash is ever forced. In `Planner` the
inverter workflows and their activities go on (weak fairness: an activity without
a retry policy is attempted again without end); nothing is assumed of the runs and
of `InitForecastSchedule`; time, new runs, crashes and errors are not forced. In `EmhassForecast` the steps
of the runs of the two workflows are weakly fair, and nothing else is: Temporal
schedules every activity and ends each attempt at its `StartToCloseTimeout`, a
minute (`forecast.go:43`) or thirty seconds (`mpc.go:18`), whatever it waits for,
and a step includes that end (`Fail`). Calls of `/api/config` and `/action` may
hang, and EMHASS is never forced. `ChargingEnds` has the premise that from
some time on no command is being processed and the battery is at its target.

**Deadlock** is checked in `file_store`, where a client that held the mutex for
ever would stop everything: reads are always possible in between. Elsewhere it
is not: with its budget spent the system may rest, and a list of rows stops
growing at its bound.

## 4. Proofs

For every value of the constants (assumptions: those named `...Assumption` in the
modules, which say what kind of value a constant is; `ForecastAssumption` also
that there is one MPC schedule, which Temporal never runs twice at a time, and
that a plan is in order of time):

* `StateHandlerProofs!HandlerCorrect`: `HandlerSpec => [](HandlerTypeOK /\ Coherent)`.
  The conjunction is inductive: coherence of a cell follows from the outcome of
  the last `Set` of it, with one lemma per outcome, and `Restart` reloads.
* `SolarAssistantProofs!TypeCorrect`: `Spec => []TypeOK`. The last conjuncts of
  `TypeOK` say that a goroutine past a setter's validation holds a valid value;
  without them the messages could not be typed.
* `UsesHandler`: `Spec => HandlerSpec`. Every step of the controller is a step of
  `HandlerNext` or leaves the cache alone; `ControllerCoherent` follows.
* `RevertSees`: `Spec => []RevertSeesCharging`, through `RevertInv`, which adds
  what the callback knows between its reads (`csMode`: the mirror shows Enabled).
  It is inductive because only the callback goroutine writes the mirror.
* `MirrorCorrect`: `Spec => []MirrorAgrees`, through an equivalent statement by
  field (`Agree`), with lemmas for appending a report and removing the head, of
  the same and of another field.
* `CommandAppliedAlways` and `TargetIsDeviceLevelAlways`: a command whose
  `Process` returned nil is in effect once all is quiet, and its level is the
  recorded target, for any workers, levels and battery moves. The hypothesis,
  `Undisturbed`, says what they depend on. No message is lost (QoS 0 promises
  nothing else). Either there is no database, and publications fail and the
  program restarts at any time; or there is one whose fresh rows show the
  inverter's stop-discharge level and grid charge, no call fails and the program
  does not restart, since a mirror loaded from an older table may show a value the inverter does not have
  and the setter then sends nothing. And calls of `Process` are spaced or are
  attempts of one command, since two commands that interleave may each win one
  setting. The run `spaced` is an instance with the table, `retries` one without.
  The argument (`AppliedInv`) is by field: every message under way carries the
  command's value (`Toward`), a report or the mirror shows that value only when
  the inverter has it, and a setter a worker has passed has its value at the
  inverter or under way (`Arrives`). So a setter that skips its publication,
  because the mirror shows the value, skips nothing. A new command may only start
  from rest; there `MirrorAgrees` gives `Toward` for a field that has been
  reported, and a field that has not shows the inverter's value, or a value no
  command asks for (`Unheard`, `ValueNotZero`): the mode of a fresh table
  ("Load First", which is no work mode), or anything of the empty row. A revert releases the two fields it
  sends (`Kept`).
* `GetCommandsProofs`: the four properties of `get_commands`, for optimisations
  of any length. The loops are recursive functions over the rows; that such a
  function exists is `ListProofs!Loop`, which takes the step of a loop as data (a
  function of the turn and the value so far) and shows it with the least
  counterexample (a set of naturals that is not empty has a least element): that
  needs no induction rule with an operator as its parameter. The loops of
  `Filter`, `GetCommands` and their use in `Planner` rest on it. `MinPriceLeast`:
  the loop finds a price no paid row undercuts, the price of a paid row unless the
  first row is free (and free itself only if that is, the case `Hidden`). `TargetIsMost`:
  the running maximum with its look-ahead is the maximum over the block.
* `PlannerProofs!EveryRowScheduled` and `PlanKept`: `RowsScheduled` and
  `PlanAgreed`, for any slots, plans, runs and faults. The properties are not
  inductive: the invariant adds, for each run in a loop, which items of its list
  it has written and has still to schedule (`Pending`), that the slots of a list
  ascend, that what the table shows for a pending item is that item (`Own`,
  which carries agreement from the upsert to the creation of the schedule), and
  that an inverter workflow only deletes the schedule of a slot that has begun.
  What `GetCommands` makes of the rows plays no part in these two.
* `PlannerProofs!TypeCorrect`: `Spec => []TypeOK`, for any answers of EMHASS. Its
  invariant (`TInv`) adds what a run's list holds at each step: rows while they
  are inserted, commands from the upserts on, at least one of them in a loop.
  What `GetCommands` makes of a list is typed by expanding its definitions under
  the instance with that list (`Of(list)`): `Monotonic` exists, by `Loop`, and
  stays between 0 and 100 (`MonotonicTypes`, `CommandTypes`).
* `EmhassForecastProofs!TypeCorrect`, `HorizonAndRow`, `OwnAnswer`, `OwnPricesAlways`
  and `AnswerBeforeSchedule`: all five invariants of `emhass_forecast`, from one
  invariant with a conjunct for each run (`RunOK`). It says what a run knows at
  each step: from `search` to `insert` the row fits the shared horizon; while
  EMHASS writes or has answered, the result is the run's own or the run is marked
  (`HorizonOK`, `FilesOK`); and from `fill` on, unless another run has touched the
  tariff file, its latest hour is the latest the run has fetched, or it is still
  empty (`UpTo`), which the truncation establishes, a write from the start of an
  empty file keeps, and without which a tail of an older file could decide the cut.
  A step of one run is two questions, its own
  new state and the others' under the changed files; after a failure a run knows
  nothing but its row (`FailedOK`), which is what makes retries harmless.
* `OctopusTariffProofs!InjectExact`: cutting a special period out of any
  well-formed periods changes the rate exactly inside it. From it and the
  invariant of a call (`CallInv`) follow `SessionsInjectedAlways`, the same at
  every time (`InjectedEverywhere`), and, with what the filter keeps
  (`ListProofs!FilterPlaces`), that the lines of a call are the day's
  (`TariffAlwaysCorrect`). `WholeFileAlways` adds the file (`FileInv`): it is the
  beginning of the last body begun, or two calls had it open. `TypeCorrect`
  includes that cutting leaves no empty or reversed period. `TariffAssumption`
  says that an answer of the API is a finite set of well-formed periods.
* `FileStoreProofs!TypeCorrect` and `OneLinePerKeyAlways`: the invariant (`IInv`)
  says that one client at a time is in a write, that it has read what was in the
  file, that what it is going to write is a result of its call on that
  (`Outcome`), and that the file has a prefix of it. A prefix of lines with
  distinct keys has distinct keys, so a write that is cut short leaves a file the
  next one can start from.
* `FileStoreIsStore`: `Spec => Promised`, step by step. Every file stands for a
  table (`View`): what is in it, or what its writer has read while it is being
  written. Opening and writing a line are stuttering steps, the unlocking is the
  abstract write with the answer "ok", and a write that fails or is cut off is
  the abstract loss: the table of a prefix of the new lines has of each key the
  new value or none (`PrefixTable`). The readers wait for the mutex, so what they
  return is the abstract table.

Only model-checked: the liveness properties and the fairness they need, which
are out of the prover's reach, and the disagreement of `premature_revert`. Every
safety property of a passing run is stated by a theorem; those whose hypotheses
are not the whole of the run's say so above.

## 5. Plan

1. `Planner` composed with `SolarAssistant`, for the order of the hours' commands
   when an activity is attempted into the next hour.
2. The truncations of a state of charge (`SOC_opt * 100`, `int64(soc)`) as
   operators over scaled integers.

## 6. Not modelled

* Postgres' `Select` has `>=` where the file store has a strict `After`; `Planner`
  has the strict one, and time between slots makes no difference to it.
* The file store matches times as texts; all are formatted in one zone. A line is
  written whole or not at all, and the settings are one line: a JSON file cut in
  the middle is as unreadable as an empty one. Its state accessors are modelled
  although `main.go` uses a state handler only with `-dsn`.
* Rounding: `%.2f` in the files, and the products and conversions of the plan.
* The state of charge MPC sends; an error of reading it ends the run before it
  has done anything.
* `SetActualSoc`, which nothing reads back, and the replay of the workflow
  function that calls it.
* `ErrTariffNotAvailable`, which nothing returns; `ProduceOctopusCosyTariff`,
  which nothing calls.
* The HTTP server: its handlers keep no state. `/admin/process` is a worker of
  `SolarAssistant`, `/action` and `/api/config` are runs of `EmhassForecast`,
  `/process` is one of `Planner`,
  `/init` is `InitForecastSchedule` of `Planner`.
* History reporters, telemetry, parsing of numbers (`internal/types`), generated
  SQL, flags and wiring: no state of their own, or code that a generator vouches
  for. The order of rows in the generated SELECT is `InOrder` of `Planner`.
