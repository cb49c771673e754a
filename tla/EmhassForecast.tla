--------------------------- MODULE EmhassForecast ---------------------------
(***************************************************************************)
(* The forecast and MPC workflows up to the rows they insert               *)
(* (internal/temporal/emhass and internal/emhass): the tariff file, the    *)
(* request to EMHASS, the result file EMHASS writes, and the horizon that  *)
(* all runs of MPCWorkflow share in memory.                                *)
(*                                                                         *)
(* Four kinds of runs: the two workflows, a request through /action, and a *)
(* call of /api/config, which writes the tariff file too.  Time is an      *)
(* hour; a run is never exactly on it.  EMHASS is external: it goes on     *)
(* with a request whose caller is gone, and there is one result file.  A   *)
(* result counts as the last hour it has a row for; that its rows are      *)
(* inserted one by one is in Planner, and so is what scheduling them does. *)
(***************************************************************************)
EXTENDS Integers, Sequences

CONSTANTS
  Runs,     \* that may be under way at the same time
  Kind,     \* of each run: forecast, mpc, action, config
  Plans,    \* schedules: sequences of rows [time, mode], in order of time
  Day,      \* hours a tariff covers
  Tariffs,  \* the hours of the coming day that have a price: ascending, with gaps
  Retries,  \* bound on the attempts of a forecast workflow (10)
  Starts,   \* bound on the runs
  Crashes,  \* bound on the restarts
  Until     \* bound on time

Kinds == {"forecast", "mpc", "action", "config"}

ASSUME ForecastAssumption ==
  /\ Kind \in [Runs -> Kinds]
  /\ \A q, r \in Runs : Kind[q] = "mpc" /\ Kind[r] = "mpc" => q = r
  /\ Plans \subseteq Seq([time : Nat, mode : {"load", "battery", "grid"}])
  /\ \A plan \in Plans : \A i, j \in DOMAIN plan : i < j => plan[i].time < plan[j].time
  /\ Day \in Nat /\ Tariffs \subseteq Seq(1..Day)
  /\ \A prices \in Tariffs : \A i, j \in DOMAIN prices : i < j => prices[i] < prices[j]
  /\ Retries \in Nat \ {0} /\ Starts \in Nat /\ Crashes \in Nat /\ Until \in Nat

VARIABLES
  now,
  rows,     \* the schedule table
  horizon,  \* Forecaster.horizon
  tariff,   \* the tariff file: the hour of each of its lines
  result,   \* the result file: the request it answers and its last hour
  jobs,     \* the requests EMHASS works on, those nobody waits for any more too
  asked,    \* how many requests there have been
  run,      \* the runs
  left      \* what remains of Starts and Crashes

vars == <<now, rows, horizon, tariff, result, jobs, asked, run, left>>

MinHorizon   == 5
FirstHorizon == 6
Attempts     == 2   \* MaximumAttempts of an activity

NoResult == [id |-> 0, last |-> 0]

\* A run has fetched prices up to an hour, asked for a result, read one of a request
\* up to its last hour, and inserts the rows it has kept of it.
Idle == [pc |-> "idle", tries |-> 0, again |-> 0, hour |-> 0, row |-> 0, horizon |-> 0,
         fetched |-> 0, ask |-> 0, answer |-> "none", of |-> 0, last |-> 0, kept |-> 0,
         mixed |-> FALSE, crossed |-> FALSE, restarted |-> FALSE, inserted |-> FALSE, recovered |-> FALSE]

Workflows == {r \in Runs : Kind[r] \in {"forecast", "mpc"}}

At(r, pc)     == run[r].pc = pc
Is(r, kind)   == Kind[r] = kind
Become(r, to) == run' = [run EXCEPT ![r] = to]
Goto(r, pc)   == Become(r, [run[r] EXCEPT !.pc = pc])

\* The next activity, with attempts of its own.
Activity(r, pc) == Become(r, [run[r] EXCEPT !.pc = pc, !.tries = Attempts])

\* The step at which the activity of a step begins.
FirstStep(r) ==
  CASE run[r].pc \in {"search", "find"} -> "search"
    [] run[r].pc \in {"tariff", "fill"} -> "tariff"
    [] run[r].pc = "build"              -> "build"
    [] OTHER -> IF Is(r, "mpc") THEN "tariff" ELSE "request"

Repeated(r, tries) ==
  [run[r] EXCEPT !.pc = FirstStep(r), !.tries = tries, !.answer = "none", !.horizon = 0,
                 !.ask = 0, !.of = 0, !.last = 0, !.kept = 0, !.crossed = FALSE]

\* Mutant: the first attempt is not counted.
FailedUncounted(r) ==
  IF r \in Workflows THEN Repeated(r, Attempts) ELSE Idle

(***************************************************************************)
(* After an error: the activity again, or the workflow again when it has   *)
(* attempts left (MPCWorkflow has one), or its end.                        *)
(***************************************************************************)
Failed(r) ==
  CASE run[r].tries > 1 /\ r \in Workflows -> Repeated(r, run[r].tries - 1)
    [] run[r].tries = 1 /\ run[r].again > 1 ->
         [Idle EXCEPT !.pc = "tariff", !.tries = Attempts, !.again = run[r].again - 1]
    [] OTHER -> Idle

Fail(r) == Become(r, Failed(r))

-----------------------------------------------------------------------------
\* Temporal starts no run of a schedule while one of it is under way, and there is
\* one schedule of MPCWorkflow.
Start(r) ==
  /\ At(r, "idle")
  /\ left.starts > 0 /\ left' = [left EXCEPT !.starts = @ - 1]
  /\ Become(r, [Idle EXCEPT !.pc = CASE Is(r, "mpc")    -> "search"
                                     [] Is(r, "action") -> "request"
                                     [] OTHER           -> "tariff",
                            !.tries = Attempts,
                            !.again = IF Is(r, "forecast") THEN Retries ELSE 1])
  /\ UNCHANGED <<now, rows, horizon, tariff, result, jobs, asked>>

\* The rows Select answers with that end the search; nothing follows the last row.
Coming == {i \in DOMAIN rows : rows[i].time > now}

Candidates ==
  {i \in Coming : rows[i].mode = "load" /\ (i = Len(rows) \/ rows[i + 1].mode = "battery")}

\* Mutant: the horizon stays as short as it was found.
AsFound(hours) == hours

\* A horizon below five hours is raised to five.
Raised(hours) == IF hours < MinHorizon THEN MinHorizon ELSE hours

(***************************************************************************)
(* GetHorizonSOCActivity: of the rows to come the first "Load first" one   *)
(* that a "Battery first" one follows.  The row that follows the last one  *)
(* is a panic, which ends the attempt.                                     *)
(***************************************************************************)
Search(r) ==
  /\ At(r, "search")
  /\ \/ /\ Candidates = {}
        /\ Become(r, [run[r] EXCEPT !.row = 0, !.pc = "tariff", !.tries = Attempts])
        /\ UNCHANGED horizon
     \/ \E i \in Candidates :
          LET hours == rows[i].time - now - 1
              read  == [run[r] EXCEPT !.hour = now, !.row = rows[i].time, !.restarted = FALSE]
          IN /\ i < Len(rows) /\ \A j \in Candidates : i <= j
             /\ horizon' = Raised(hours)
             /\ Become(r, IF hours < MinHorizon THEN [read EXCEPT !.pc = "find"]
                          ELSE [read EXCEPT !.pc = "tariff", !.tries = Attempts])
     \/ Fail(r) /\ UNCHANGED horizon
  /\ UNCHANGED <<now, rows, tariff, result, jobs, asked, left>>

\* Mutant: the row that was found is kept when its hour is too near.
FindKeepsRow(r) ==
  /\ At(r, "find")
  /\ Activity(r, "tariff")
  /\ UNCHANGED <<now, rows, horizon, tariff, result, jobs, asked, left>>

\* The row five hours from now in place of the one that is nearer.
Find(r) ==
  /\ At(r, "find")
  /\ \/ /\ \E i \in DOMAIN rows : rows[i].time = run[r].hour + MinHorizon
        /\ Become(r, [run[r] EXCEPT !.row = run[r].hour + MinHorizon,
                                    !.pc = "tariff", !.tries = Attempts])
     \/ Fail(r)
  /\ UNCHANGED <<now, rows, horizon, tariff, result, jobs, asked, left>>

(***************************************************************************)
(* GenerateOctopusTariff: the file is truncated, then filled from its      *)
(* start.  A run that has fetched prices itself is mixed when another one  *)
(* truncates or fills the file before it has inserted its rows.            *)
(***************************************************************************)
Using == {"fill", "request", "sent", "copy", "latest", "insert"}

Touch(r, to) ==
  run' = [q \in Runs |-> IF q = r THEN to
                         ELSE [run[q] EXCEPT !.mixed = @ \/ (q \in Workflows /\ run[q].pc \in Using)]]

Opened(r) == [run[r] EXCEPT !.pc = "fill", !.fetched = 0, !.mixed = FALSE]

\* Mutant: the file is opened without truncating it.
TariffKept(r) ==
  /\ At(r, "tariff")
  /\ Touch(r, Opened(r)) \/ Fail(r)
  /\ UNCHANGED <<now, rows, horizon, tariff, result, jobs, asked, left>>

Tariff(r) ==
  /\ At(r, "tariff")
  /\ \/ tariff' = <<>> /\ Touch(r, Opened(r))
     \/ Fail(r) /\ UNCHANGED tariff
  /\ UNCHANGED <<now, rows, horizon, result, jobs, asked, left>>

\* The lines of the coming day; an hour without a price has none.
Bodies == {[i \in DOMAIN prices |-> now + prices[i]] : prices \in Tariffs}

\* The file after a write from its start: what is longer than the lines stays behind them.
Over(lines) ==
  [i \in 1..(IF Len(lines) < Len(tariff) THEN Len(tariff) ELSE Len(lines)) |->
     IF i <= Len(lines) THEN lines[i] ELSE tariff[i]]

Filled(r, body) ==
  [run[r] EXCEPT !.fetched = IF body = <<>> THEN 0 ELSE body[Len(body)],
                 !.pc = "request", !.tries = IF Is(r, "forecast") THEN Attempts ELSE @]

(***************************************************************************)
(* A panic ends the attempt; MPCActivity recovers from it and returns as   *)
(* if it had ended well.                                                   *)
(***************************************************************************)
Panicked(r) ==
  IF Is(r, "mpc")
  THEN [Idle EXCEPT !.pc = "build", !.tries = Attempts, !.again = run[r].again, !.recovered = TRUE]
  ELSE Failed(r)

\* The write, or a part of it and an error.  A failing Close of the file is a panic.
Fill(r) ==
  /\ At(r, "fill")
  /\ \E body \in Bodies :
       \/ /\ tariff' = Over(body)
          /\ Touch(r, IF Is(r, "config") THEN Idle ELSE Filled(r, body))
       \/ /\ \E n \in 0..Len(body) : tariff' = Over(SubSeq(body, 1, n))
          /\ Touch(r, Failed(r)) \/ Touch(r, Panicked(r))
  /\ UNCHANGED <<now, rows, horizon, result, jobs, asked, left>>

(***************************************************************************)
(* Forecast: send the request with the horizon as it is now.               *)
(***************************************************************************)
Request(r) ==
  /\ At(r, "request")
  /\ asked' = asked + 1
  /\ jobs' = jobs \cup {[id |-> asked', hours |-> IF Is(r, "mpc") THEN horizon ELSE Day]}
  /\ Become(r, [run[r] EXCEPT !.pc = "sent", !.horizon = horizon, !.ask = asked',
                              !.answer = "none", !.crossed = FALSE])
  /\ UNCHANGED <<now, rows, horizon, tariff, result, left>>

(***************************************************************************)
(* EMHASS writes the result and answers, or answers with an error, before  *)
(* or after it has written.  Who waits for the request has the answer; who *)
(* has yet to read the result of another one has lost that.                *)
(***************************************************************************)
Told(q, j, answer, res) ==
  [run[q] EXCEPT
     !.answer  = IF At(q, "sent") /\ run[q].ask = j.id THEN answer ELSE @,
     !.crossed = @ \/ (run[q].pc \in {"sent", "copy"} /\ run[q].ask = result.id /\ res # result)]

Written(j) == [id |-> j.id, last |-> now + j.hours]

AnswerCreated(j) ==
  /\ jobs' = jobs \ {j}
  /\ result' = Written(j)
  /\ run' = [q \in Runs |-> Told(q, j, "created", Written(j))]
  /\ UNCHANGED <<now, rows, horizon, tariff, asked, left>>

AnswerError(j) ==
  /\ jobs' = jobs \ {j}
  /\ \E res \in {result, Written(j)} :
       result' = res /\ run' = [q \in Runs |-> Told(q, j, "error", res)]
  /\ UNCHANGED <<now, rows, horizon, tariff, asked, left>>

\* Mutant: any answer will do.
Answered(r) == run[r].answer # "none"

\* The status is 200 or 201.
Accepted(r) == run[r].answer = "created"

Receive(r) ==
  /\ At(r, "sent")
  /\ \/ Accepted(r) /\ Goto(r, "copy")
     \/ Fail(r)   \* another status, or a timeout
  /\ UNCHANGED <<now, rows, horizon, tariff, result, jobs, asked, left>>

(***************************************************************************)
(* copyFile reads the result.  Nobody looks at the scanner's error: a      *)
(* result that is cut off, half written or not read to its end, is a       *)
(* result, even without any row.  A cut inside a line is an error or, when *)
(* columns are missing, a panic.                                           *)
(***************************************************************************)
Cuts == {0, result.last - 1, result.last}

CopyFile(r) ==
  /\ At(r, "copy")
  /\ \/ /\ result # NoResult
        /\ \E last \in Cuts :
             Become(r, [run[r] EXCEPT !.pc = "latest", !.of = result.id, !.last = last,
                                      !.horizon = 0, !.answer = "none"])
     \/ Become(r, Panicked(r))
     \/ Fail(r)
  /\ UNCHANGED <<now, rows, horizon, tariff, result, jobs, asked, left>>

\* Rows up to the latest price are kept, those of hours without one before it too.
Kept(last, latest) == IF last < latest THEN last ELSE latest

\* getLoadForecastHorizon: the latest hour in the tariff file, in whatever order.
Latest(r) ==
  /\ At(r, "latest")
  /\ \/ \E i \in DOMAIN tariff :
          /\ \A j \in DOMAIN tariff : tariff[j] <= tariff[i]
          /\ Become(r, [run[r] EXCEPT !.pc = "insert", !.kept = Kept(run[r].last, tariff[i])])
     \/ Fail(r)   \* no dates found
  /\ UNCHANGED <<now, rows, horizon, tariff, result, jobs, asked, left>>

Done(r, inserted) ==
  IF Is(r, "action") THEN Idle
  ELSE [Idle EXCEPT !.pc = "build", !.tries = Attempts, !.again = run[r].again, !.inserted = inserted]

\* Mutant: an error of copyFile is logged only.
InsertLoggingErrors(r) ==
  /\ At(r, "insert")
  /\ \E inserted \in BOOLEAN : Become(r, Done(r, inserted))
  /\ UNCHANGED <<now, rows, horizon, tariff, result, jobs, asked, left>>

Insert(r) ==
  /\ At(r, "insert")
  /\ Become(r, Done(r, TRUE)) \/ Fail(r)
  /\ UNCHANGED <<now, rows, horizon, tariff, result, jobs, asked, left>>

\* BuildScheduleActivity: Planner from SelectOptimization on.
Build(r) ==
  /\ At(r, "build")
  /\ \/ rows' \in Plans /\ Become(r, Idle)
     \/ rows' \in Plans \cup {rows} /\ Fail(r)
  /\ UNCHANGED <<now, horizon, tariff, result, jobs, asked, left>>

(***************************************************************************)
(* The program restarts: what was under way has failed, what was only      *)
(* scheduled has not, and the horizon is the first one again.              *)
(***************************************************************************)
Crash ==
  /\ left.crashes > 0 /\ left' = [left EXCEPT !.crashes = @ - 1]
  /\ \E lost \in SUBSET Runs :
       /\ \A r \in Runs : ~At(r, "idle") /\ run[r].pc # FirstStep(r) => r \in lost
       /\ run' = [r \in Runs |->
            LET k == IF r \in lost \/ r \notin Workflows THEN Failed(r) ELSE run[r]
            IN [k EXCEPT !.restarted = Is(r, "mpc") /\ k.pc = "tariff"]]
  /\ horizon' = FirstHorizon
  /\ UNCHANGED <<now, rows, tariff, result, jobs, asked>>

Tick == now < Until /\ now' = now + 1 /\ UNCHANGED <<rows, horizon, tariff, result, jobs, asked, run, left>>

Init ==
  /\ now = 1
  /\ rows \in Plans
  /\ horizon = FirstHorizon
  /\ tariff = <<>>
  /\ result = NoResult
  /\ jobs = {} /\ asked = 0
  /\ run = [r \in Runs |-> Idle]
  /\ left = [starts |-> Starts, crashes |-> Crashes]

Step(r) ==
  \/ Search(r) \/ Find(r) \/ Tariff(r) \/ Fill(r) \/ Request(r) \/ Receive(r)
  \/ CopyFile(r) \/ Latest(r) \/ Insert(r) \/ Build(r)

Emhass == \E j \in jobs : AnswerCreated(j) \/ AnswerError(j)

Next == (\E r \in Runs : Start(r) \/ Step(r)) \/ Emhass \/ Crash \/ Tick

Spec     == Init /\ [][Next]_vars

(***************************************************************************)
(* Temporal starts every activity of a workflow and ends each attempt of   *)
(* it after a minute or half a minute (StartToCloseTimeout), whatever it   *)
(* waits for.  Nothing ends the calls of /api/config, which may wait for   *)
(* Octopus for ever, nor is anything claimed of /action or of EMHASS.      *)
(***************************************************************************)
FairSpec == Spec /\ \A r \in Workflows : WF_vars(Step(r))

-----------------------------------------------------------------------------
Pcs == {"idle", "search", "find", "tariff", "fill", "request", "sent", "copy", "latest", "insert", "build"}

\* Every variable has its type; a horizon is never shorter than five hours.
TypeOK ==
  /\ now \in Nat /\ asked \in Nat
  /\ tariff \in Seq(Nat)
  /\ horizon \in Nat /\ horizon >= MinHorizon
  /\ rows \in Plans
  /\ result \in [id : 0..asked, last : Nat]
  /\ jobs \subseteq [id : 1..asked, hours : Nat]
  /\ left \in [starts : Nat, crashes : Nat]
  /\ \A r \in Runs :
       /\ run[r].pc \in Pcs /\ run[r].answer \in {"none", "created", "error"}
       /\ run[r].ask \in 0..asked /\ run[r].of \in 0..asked
       /\ \A n \in {run[r].hour, run[r].row, run[r].last, run[r].kept, run[r].fetched} : n \in Nat
       /\ At(r, "sent") => run[r].horizon >= MinHorizon

(***************************************************************************)
(* The horizon MPCActivity sends and the state of charge it asks for at    *)
(* the end belong together: the row of that state of charge begins in the  *)
(* hour in which the horizon ends.  Not so when no row was found (the      *)
(* battery is to be full after whatever horizon an earlier run had), nor   *)
(* when the program has restarted between the two activities (the horizon  *)
(* is the first one again).                                                *)
(***************************************************************************)
HorizonPaired ==
  \A r \in Runs : Is(r, "mpc") /\ At(r, "sent") /\ run[r].row # 0 /\ ~run[r].restarted =>
    run[r].row - run[r].hour \in {run[r].horizon, run[r].horizon + 1}

(***************************************************************************)
(* What a run inserts is the answer to the request of this very attempt:   *)
(* not what EMHASS has computed for another run, nor for an earlier        *)
(* attempt that was given up, unless such an answer has replaced its own   *)
(* in the result file between Forecast's answer and copyFile's read.       *)
(***************************************************************************)
OwnResult == \A r \in Runs : At(r, "insert") => run[r].of = run[r].ask \/ run[r].crossed

(***************************************************************************)
(* A workflow cuts its result (copyFile) at the last hour it has fetched a *)
(* price for itself: however often its activities and itself are tried     *)
(* again, what an earlier and longer tariff has left in the file does not  *)
(* bring rows in that it has no price for, nor does a shorter one keep     *)
(* rows out; unless another run has written the file in between.           *)
(***************************************************************************)
OwnPrices ==
  \A r \in Workflows : At(r, "insert") /\ ~run[r].mixed =>
    run[r].kept = Kept(run[r].last, run[r].fetched)

(***************************************************************************)
(* A workflow makes a schedule only of an answer it has inserted, after    *)
(* any number of attempts; except MPCWorkflow when its activity has        *)
(* recovered from a panic.                                                 *)
(***************************************************************************)
BuildsFromAnswer ==
  \A r \in Runs : At(r, "build") =>
    run[r].inserted \/ (Is(r, "mpc") /\ run[r].recovered)

\* Every run of a workflow ends: no attempt waits for ever and none is repeated for ever.
WorkflowsEnd == \A r \in Workflows : ~At(r, "idle") ~> At(r, "idle")
=============================================================================
