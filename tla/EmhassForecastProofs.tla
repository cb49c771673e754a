------------------------ MODULE EmhassForecastProofs ------------------------
(***************************************************************************)
(* The safety properties of EmhassForecast, for any runs, plans, tariffs   *)
(* and numbers of attempts, restarts and hours.                            *)
(*                                                                         *)
(* One invariant serves all: IInv has a conjunct for each run (RunOK),     *)
(* which says what its local state knows of the two files and of the       *)
(* horizon at each step.  RunOK takes the shared state it depends on as    *)
(* parameters, so that a step of one run is two questions: its own new     *)
(* state, and the others' states under the new shared one (RunStep when    *)
(* nothing shared changes, TouchStep when the tariff file does).           *)
(***************************************************************************)
EXTENDS EmhassForecast, TLAPS

RunType == [pc : Pcs, tries : 0..Attempts, again : Nat, hour : Nat, row : Nat, horizon : Nat,
            fetched : Nat, ask : Nat, answer : {"none", "created", "error"}, of : Nat,
            last : Nat, kept : Nat, mixed : BOOLEAN, crossed : BOOLEAN,
            restarted : BOOLEAN, inserted : BOOLEAN, recovered : BOOLEAN]

LeftType == [starts : Nat, crashes : Nat]

Types ==
  /\ now \in Nat /\ now >= 1
  /\ asked \in Nat
  /\ tariff \in Seq(Nat)
  /\ horizon \in Nat /\ horizon >= MinHorizon
  /\ rows \in Plans
  /\ result \in [id : 0..asked, last : Nat] /\ (result # NoResult => result.last >= 1)
  /\ jobs \subseteq [id : 1..asked, hours : Nat]
  /\ left \in LeftType
  /\ run \in [Runs -> RunType]

\* The result file holds the answer to what the run asks, unless another has replaced it.
Own(k, res) == res.id = k.ask \/ k.crossed

\* The latest hour of the tariff file, if it has any, is this one.
UpTo(file, hour) ==
  /\ \A i \in DOMAIN file : file[i] <= hour
  /\ file # <<>> => \E i \in DOMAIN file : file[i] = hour

AfterSearch == {"tariff", "fill", "request", "sent", "copy", "latest", "insert"}

AfterFill == {"request", "sent", "copy", "latest", "insert"}

\* What a run knows of the two files.
FilesOK(r, k, res, file) ==
  /\ k.pc = "copy" => Own(k, res)
  /\ k.pc = "sent" /\ k.answer = "created" => Own(k, res)
  /\ k.pc \in {"latest", "insert"} => k.of = k.ask \/ k.crossed
  /\ r \in Workflows /\ ~k.mixed =>
       /\ k.pc = "fill" => file = <<>>
       /\ k.pc \in AfterFill => UpTo(file, k.fetched)
       /\ k.pc = "insert" => k.kept = Kept(k.last, k.fetched)

\* What a run knows of the horizon.
HorizonOK(r, k, hor) ==
  /\ k.pc \in {"search", "find"} => Kind[r] = "mpc"
  /\ k.pc = "find" => hor = MinHorizon
  /\ k.pc = "sent" => k.horizon >= MinHorizon
  /\ Kind[r] = "mpc" /\ k.pc \in AfterSearch /\ k.row # 0 /\ ~k.restarted =>
       k.row - k.hour \in {hor, hor + 1}
  /\ Kind[r] = "mpc" /\ k.pc = "sent" /\ ~k.restarted => k.horizon = hor

RunOK(r, k, hor, res, file, asks) ==
  /\ k.pc = "idle" => k.tries = 0
  /\ k.pc = "build" => k.inserted \/ (Kind[r] = "mpc" /\ k.recovered)
  /\ k.ask <= asks /\ k.of <= asks
  /\ HorizonOK(r, k, hor)
  /\ FilesOK(r, k, res, file)

IInv ==
  /\ Types
  /\ \A r \in Runs : RunOK(r, run[r], horizon, result, tariff, asked)

-----------------------------------------------------------------------------
\* A run that does nothing has its type and knows nothing.
LEMMA IdleType == Idle \in RunType /\ Idle.pc = "idle" /\ Idle.tries = 0 /\ Idle.ask = 0 /\ Idle.of = 0
  BY DEF Idle, RunType, Pcs, Attempts

\* A run that goes to another step with other attempts keeps its type.
LEMMA Advanced ==
  ASSUME NEW k \in RunType, NEW pc \in Pcs, NEW tries \in 0..Attempts, NEW again \in Nat
  PROVE  [k EXCEPT !.pc = pc, !.tries = tries, !.again = again] \in RunType
  BY DEF RunType

\* Such a run satisfies the invariant whatever the files hold.
LEMMA IdleOK ==
  ASSUME NEW r \in Runs, NEW hor, NEW res, NEW file, NEW asks \in Nat
  PROVE  RunOK(r, Idle, hor, res, file, asks)
  BY IdleType DEF RunOK, HorizonOK, FilesOK, AfterSearch, AfterFill

(***************************************************************************)
(* After an error a run is at the first step of an activity.  It needs     *)
(* nothing of the result file there, and of the tariff file only when it   *)
(* has filled that in an earlier activity; what it remembers of its        *)
(* horizon is what it remembered before.                                   *)
(***************************************************************************)
LEMMA FailedOK ==
  ASSUME IInv, NEW r \in Runs, NEW res, NEW file, file = tariff \/ run[r].pc = "fill"
  PROVE  /\ Failed(r) \in RunType
         /\ RunOK(r, Failed(r), horizon, res, file, asked)
         /\ Failed(r).pc \in {"idle", "search", "tariff", "request", "build"}
<1>0. run[r] \in RunType /\ RunOK(r, run[r], horizon, result, tariff, asked) /\ asked \in Nat
  BY DEF IInv, Types
<1>1. /\ FirstStep(r) \in {"search", "tariff", "request", "build"}
      /\ run[r].pc \in {"search", "find"} => FirstStep(r) = "search"
      /\ run[r].pc = "build" => FirstStep(r) = "build"
      /\ run[r].pc \in {"tariff", "fill"} => FirstStep(r) = "tariff"
  <2>1. CASE run[r].pc \in {"search", "find"}
    BY <2>1 DEF FirstStep
  <2>2. CASE run[r].pc = "build"
    BY <2>2 DEF FirstStep
  <2>3. CASE run[r].pc \in {"tariff", "fill"}
    BY <2>3 DEF FirstStep
  <2>4. CASE run[r].pc \notin {"search", "find", "build", "tariff", "fill"}
    BY <2>4 DEF FirstStep
  <2> QED BY <2>1, <2>2, <2>3, <2>4
<1>2. CASE run[r].tries > 1 /\ r \in Workflows
  <2> DEFINE k == Repeated(r, run[r].tries - 1)
  <2>1. Failed(r) = k
    BY <1>2 DEF Failed
  <2>2. run[r].tries - 1 \in 0..Attempts
    BY <1>0, <1>2 DEF RunType, Attempts
  <2>3. k \in RunType
    BY <1>0, <1>1, <2>2 DEF Repeated, RunType, Pcs
  <2>4. /\ k.pc = FirstStep(r) /\ k.row = run[r].row /\ k.hour = run[r].hour
        /\ k.restarted = run[r].restarted /\ k.inserted = run[r].inserted
        /\ k.recovered = run[r].recovered /\ k.ask = 0 /\ k.of = 0
        /\ k.mixed = run[r].mixed /\ k.fetched = run[r].fetched
    BY <1>0 DEF Repeated, RunType
  <2> HIDE DEF k
  <2>5. k.pc = "search" => Kind[r] = "mpc"
    BY <1>0, <2>4 DEF FirstStep, RunOK, HorizonOK
  <2>6. k.pc = "build" => k.inserted \/ (Kind[r] = "mpc" /\ k.recovered)
    BY <1>0, <2>4 DEF FirstStep, RunOK
  <2>7. run[r].pc # "idle"
    BY <1>0, <1>2 DEF RunOK
  <2>8. Kind[r] = "mpc" /\ k.pc \in AfterSearch /\ k.row # 0 /\ ~k.restarted =>
          k.row - k.hour \in {horizon, horizon + 1}
    <3> SUFFICES ASSUME Kind[r] = "mpc", k.pc \in AfterSearch, k.row # 0, ~k.restarted
                 PROVE  k.row - k.hour \in {horizon, horizon + 1}
      OBVIOUS
    <3>1. CASE run[r].pc \in AfterSearch
      BY <1>0, <2>4, <3>1 DEF RunOK, HorizonOK
    <3>2. CASE run[r].pc \in {"search", "find", "build"}
      BY <1>1, <2>4, <3>2 DEF AfterSearch
    <3> QED BY <1>0, <2>7, <3>1, <3>2 DEF RunType, Pcs, AfterSearch
  <2>9. ~k.mixed /\ k.pc = "request" => UpTo(file, k.fetched)
    <3> SUFFICES ASSUME ~k.mixed, k.pc = "request"
                 PROVE  UpTo(file, k.fetched)
      OBVIOUS
    <3>1. run[r].pc \in AfterFill
      BY <1>0, <1>1, <2>4, <2>7 DEF RunType, Pcs, AfterFill
    <3>2. UpTo(tariff, run[r].fetched) /\ file = tariff
      BY <1>0, <1>2, <2>4, <3>1 DEF RunOK, FilesOK, AfterFill
    <3> QED BY <2>4, <3>2
  <2>10. HorizonOK(r, k, horizon)
    BY <1>1, <2>4, <2>5, <2>8 DEF HorizonOK
  <2>11. FilesOK(r, k, res, file)
    BY <1>1, <2>4, <2>9 DEF FilesOK, AfterFill
  <2>12. k.ask <= asked /\ k.of <= asked
    BY <1>0, <2>4
  <2> QED BY <1>1, <2>1, <2>3, <2>4, <2>6, <2>10, <2>11, <2>12 DEF RunOK
<1>3. CASE run[r].tries = 1 /\ run[r].again > 1
  <2> DEFINE k == [Idle EXCEPT !.pc = "tariff", !.tries = Attempts, !.again = run[r].again - 1]
  <2>1. Failed(r) = k
    BY <1>3 DEF Failed
  <2>2. run[r].again - 1 \in Nat
    BY <1>0, <1>3 DEF RunType
  <2>3. k \in RunType
    <3>1. "tariff" \in Pcs /\ Attempts \in 0..Attempts
      BY DEF Pcs, Attempts
    <3> QED BY <2>2, <3>1, IdleType, Advanced
  <2>4. k.pc = "tariff" /\ k.row = 0 /\ k.ask = 0 /\ k.of = 0
    BY DEF Idle
  <2> HIDE DEF k
  <2> QED BY <1>0, <2>1, <2>3, <2>4 DEF RunOK, HorizonOK, FilesOK, AfterSearch, AfterFill
<1>4. CASE ~(run[r].tries > 1 /\ r \in Workflows)
           /\ ~(run[r].tries = 1 /\ run[r].again > 1)
  BY <1>0, <1>4, IdleType, IdleOK DEF Failed
<1> QED BY <1>2, <1>3, <1>4

\* A run whose activity is over, by an insertion or a panic, goes on to its schedule.
LEMMA ToBuild ==
  ASSUME NEW r \in Runs, NEW again \in Nat, NEW hor, NEW res, NEW file, NEW asks \in Nat, NEW k,
         \/ k = [Idle EXCEPT !.pc = "build", !.tries = Attempts, !.again = again, !.inserted = TRUE]
         \/ /\ Kind[r] = "mpc"
            /\ k = [Idle EXCEPT !.pc = "build", !.tries = Attempts, !.again = again, !.recovered = TRUE]
  PROVE  k \in RunType /\ RunOK(r, k, hor, res, file, asks)
<1> DEFINE h == [Idle EXCEPT !.pc = "build", !.tries = Attempts, !.again = again]
<1>1. "build" \in Pcs /\ Attempts \in 0..Attempts
  BY DEF Pcs, Attempts
<1>2. h \in RunType
  BY <1>1, IdleType, Advanced
<1>3. k \in {[h EXCEPT !.inserted = TRUE], [h EXCEPT !.recovered = TRUE]}
  BY DEF Idle
<1>4. /\ k.pc = "build" /\ k.ask = 0 /\ k.of = 0
      /\ k.inserted \/ (Kind[r] = "mpc" /\ k.recovered)
  BY DEF Idle
<1> HIDE DEF h
<1>5. k \in RunType
  BY <1>2, <1>3 DEF RunType
<1>6. RunOK(r, k, hor, res, file, asks)
  BY <1>4 DEF RunOK, HorizonOK, FilesOK, AfterSearch, AfterFill
<1> QED BY <1>5, <1>6

\* A panic is an error, or the end of MPCActivity.
LEMMA PanickedOK ==
  ASSUME IInv, NEW r \in Runs, NEW res, NEW file, file = tariff \/ run[r].pc = "fill"
  PROVE  /\ Panicked(r) \in RunType
         /\ RunOK(r, Panicked(r), horizon, res, file, asked)
<1>1. CASE Is(r, "mpc")
  <2>1. Panicked(r) = [Idle EXCEPT !.pc = "build", !.tries = Attempts, !.again = run[r].again,
                                   !.recovered = TRUE]
    BY <1>1 DEF Panicked
  <2>2. run[r].again \in Nat /\ asked \in Nat
    BY DEF IInv, Types, RunType
  <2> HIDE DEF Panicked
  <2> QED BY <1>1, <2>1, <2>2, ToBuild DEF Is
<1>2. CASE ~Is(r, "mpc")
  BY <1>2, FailedOK DEF Panicked
<1> QED BY <1>1, <1>2

-----------------------------------------------------------------------------
\* A step of one run that leaves what the others know alone.
LEMMA RunStep ==
  ASSUME IInv, NEW r \in Runs, NEW k \in RunType,
         run' = [run EXCEPT ![r] = k],
         RunOK(r, k, horizon, result, tariff, asked),
         UNCHANGED <<now, horizon, tariff, result, jobs, asked>>,
         rows' \in Plans, left' \in LeftType
  PROVE  IInv'
<1>1. Types'
  BY DEF IInv, Types
<1>2. ASSUME NEW q \in Runs
      PROVE  RunOK(q, run'[q], horizon', result', tariff', asked')
  <2>1. run'[q] = IF q = r THEN k ELSE run[q]
    BY DEF IInv, Types
  <2> QED BY <2>1 DEF IInv
<1> QED BY <1>1, <1>2 DEF IInv

(***************************************************************************)
(* A step of one run that changes the tariff file, when the file is none   *)
(* of the run's business or is as it knows: the workflows that have their  *)
(* prices in it are mixed from then on.                                    *)
(***************************************************************************)
LEMMA TouchStep ==
  ASSUME IInv, NEW r \in Runs, NEW k \in RunType, Touch(r, k),
         tariff' \in Seq(Nat),
         RunOK(r, k, horizon, result, tariff', asked),
         UNCHANGED <<now, rows, horizon, result, jobs, asked, left>>
  PROVE  IInv'
<1> DEFINE other(q) == [run[q] EXCEPT !.mixed = @ \/ (q \in Workflows /\ run[q].pc \in Using)]
<1>1. ASSUME NEW q \in Runs
      PROVE  /\ run'[q] = IF q = r THEN k ELSE other(q)
             /\ other(q) \in RunType
             /\ RunOK(q, other(q), horizon, result, tariff', asked)
  <2>1. run'[q] = IF q = r THEN k ELSE other(q)
    BY DEF Touch
  <2>2. run[q] \in RunType /\ RunOK(q, run[q], horizon, result, tariff, asked)
    BY DEF IInv, Types
  <2> DEFINE h == other(q)
  <2>3. h \in RunType
    BY <2>2 DEF RunType
  <2>4. /\ h.pc = run[q].pc /\ h.tries = run[q].tries /\ h.hour = run[q].hour /\ h.row = run[q].row
        /\ h.horizon = run[q].horizon /\ h.answer = run[q].answer /\ h.of = run[q].of /\ h.ask = run[q].ask
        /\ h.crossed = run[q].crossed /\ h.restarted = run[q].restarted
        /\ h.inserted = run[q].inserted /\ h.recovered = run[q].recovered
        /\ (q \in Workflows /\ run[q].pc \in Using => h.mixed)
    BY <2>2 DEF RunType
  <2> HIDE DEF h
  <2>5. FilesOK(q, h, result, tariff')
    BY <2>2, <2>4 DEF RunOK, FilesOK, Own, AfterFill, Using
  <2>6. HorizonOK(q, h, horizon)
    BY <2>2, <2>4 DEF RunOK, HorizonOK
  <2>7. RunOK(q, h, horizon, result, tariff', asked)
    BY <2>2, <2>4, <2>5, <2>6 DEF RunOK
  <2> QED BY <2>1, <2>3, <2>7 DEF h
<1> HIDE DEF other
<1>2. run' \in [Runs -> RunType]
  <2>1. run' = [q \in Runs |-> run'[q]]
    BY DEF Touch
  <2> QED BY <1>1, <2>1
<1>3. Types'
  BY <1>2 DEF IInv, Types
<1> QED BY <1>1, <1>3 DEF IInv

\* A failure changes the state of the run only.
LEMMA FailStep ==
  ASSUME IInv, NEW r \in Runs, Fail(r),
         UNCHANGED <<now, horizon, tariff, result, jobs, asked>>,
         rows' \in Plans, left' \in LeftType
  PROVE  IInv'
<1>1. Failed(r) \in RunType /\ RunOK(r, Failed(r), horizon, result, tariff, asked)
  BY FailedOK
<1>2. run' = [run EXCEPT ![r] = Failed(r)]
  BY DEF Fail, Become
<1> QED BY <1>1, <1>2, RunStep

-----------------------------------------------------------------------------
\* The steps of a run, action by action.  A run that starts knows nothing.
LEMMA StartInv ==
  ASSUME IInv, NEW r \in Runs, Start(r)
  PROVE  IInv'
<1> DEFINE pc    == CASE Is(r, "mpc") -> "search" [] Is(r, "action") -> "request" [] OTHER -> "tariff"
           again == IF Is(r, "forecast") THEN Retries ELSE 1
           k     == [Idle EXCEPT !.pc = pc, !.tries = Attempts, !.again = again]
<1>1. run' = [run EXCEPT ![r] = k]
  BY DEF Start, Become
<1>2. /\ pc \in {"search", "request", "tariff"} /\ (pc = "search" => Kind[r] = "mpc")
      /\ pc = "request" => r \notin Workflows
  <2>1. CASE Is(r, "mpc")
    BY <2>1 DEF Is
  <2>2. CASE ~Is(r, "mpc")
    BY <2>2 DEF Is, Workflows
  <2> QED BY <2>1, <2>2
<1>3. k \in RunType
  <2>1. pc \in Pcs /\ Attempts \in 0..Attempts /\ again \in Nat
    BY <1>2, ForecastAssumption DEF Pcs, Attempts
  <2> QED BY <2>1, IdleType, Advanced
<1>4. k.pc = pc /\ k.row = 0 /\ k.ask = 0 /\ k.of = 0
  BY DEF Idle
<1>5. left' \in LeftType /\ rows' \in Plans /\ asked \in Nat
  BY DEF Start, IInv, Types, LeftType
<1> HIDE DEF k, pc
<1>6. RunOK(r, k, horizon, result, tariff, asked)
  BY <1>2, <1>4, <1>5 DEF RunOK, HorizonOK, FilesOK, AfterSearch, AfterFill
<1> QED BY <1>1, <1>3, <1>5, <1>6, RunStep DEF Start

\* A row to come that begins n hours and a part of one from now leaves n hours, or
\* five when they are fewer.
LEMMA SearchInv ==
  ASSUME IInv, NEW r \in Runs, Search(r)
  PROVE  IInv'
<1>0. /\ run[r] \in RunType /\ RunOK(r, run[r], horizon, result, tariff, asked)
      /\ run[r].pc = "search" /\ Kind[r] = "mpc"
  BY DEF IInv, Types, Search, At, RunOK, HorizonOK
<1>4. rows' \in Plans /\ left' \in LeftType
  BY DEF Search, IInv, Types
<1>1. CASE Fail(r) /\ UNCHANGED horizon
  BY <1>1, <1>4, FailStep DEF Search
<1>2. CASE Become(r, [run[r] EXCEPT !.row = 0, !.pc = "tariff", !.tries = Attempts]) /\ UNCHANGED horizon
  <2> DEFINE k == [run[r] EXCEPT !.row = 0, !.pc = "tariff", !.tries = Attempts]
  <2>1. k \in RunType
    <3>1. 0 \in Nat /\ "tariff" \in Pcs /\ Attempts \in 0..Attempts
      BY DEF Pcs, Attempts
    <3> QED BY <1>0, <3>1 DEF RunType
  <2>2. k.pc = "tariff" /\ k.row = 0 /\ k.ask = run[r].ask /\ k.of = run[r].of
    BY <1>0 DEF RunType
  <2>3. run' = [run EXCEPT ![r] = k] /\ left' \in LeftType /\ rows' \in Plans
    BY <1>2 DEF Become, Search, IInv, Types
  <2> HIDE DEF k
  <2>4. RunOK(r, k, horizon, result, tariff, asked)
    BY <1>0, <2>2 DEF RunOK, HorizonOK, FilesOK, AfterSearch, AfterFill
  <2> QED BY <1>2, <2>1, <2>3, <2>4, RunStep DEF Search
<1>3. ASSUME NEW i \in Candidates,
             horizon' = Raised(rows[i].time - now - 1),
             Become(r, IF rows[i].time - now - 1 < MinHorizon
                       THEN [run[r] EXCEPT !.hour = now, !.row = rows[i].time, !.restarted = FALSE, !.pc = "find"]
                       ELSE [run[r] EXCEPT !.hour = now, !.row = rows[i].time, !.restarted = FALSE,
                                           !.pc = "tariff", !.tries = Attempts])
      PROVE  IInv'
  <2> DEFINE time == rows[i].time
             hours == time - now - 1
             pc == IF hours < MinHorizon THEN "find" ELSE "tariff"
             tries == IF hours < MinHorizon THEN run[r].tries ELSE Attempts
             k == [run[r] EXCEPT !.hour = now, !.row = time, !.restarted = FALSE, !.pc = pc, !.tries = tries]
  <2>1. time \in Nat /\ now \in Nat /\ time > now
    <3> DEFINE Row == [time : Nat, mode : {"load", "battery", "grid"}]
    <3>1. rows \in Seq(Row) /\ now \in Nat
      BY ForecastAssumption DEF IInv, Types
    <3>2. i \in DOMAIN rows /\ rows[i].time > now
      BY DEF Candidates, Coming
    <3>3. rows[i] \in Row
      <4> HIDE DEF Row
      <4> QED BY <3>1, <3>2
    <3> QED BY <3>1, <3>2, <3>3
  <2> HIDE DEF time
  <2>2. run' = [run EXCEPT ![r] = k]
    <3>1. CASE hours < MinHorizon
      BY <1>0, <1>3, <3>1 DEF Become, time, RunType
    <3>2. CASE ~(hours < MinHorizon)
      BY <1>3, <3>2 DEF Become, time
    <3> QED BY <3>1, <3>2
  <2>3. k \in RunType
    <3>1. pc \in Pcs /\ tries \in 0..Attempts
      BY <1>0 DEF RunType, Pcs, Attempts
    <3> HIDE DEF pc, tries
    <3> QED BY <1>0, <2>1, <3>1 DEF RunType
  <2>4. k.pc = pc /\ k.hour = now /\ k.row = time /\ ~k.restarted /\ k.ask = run[r].ask /\ k.of = run[r].of
    BY <1>0 DEF RunType
  <2>5. horizon' \in Nat /\ horizon' >= MinHorizon
        /\ (pc = "find" => horizon' = MinHorizon)
        /\ (pc = "tariff" => time - now \in {horizon', horizon' + 1})
    BY <1>3, <2>1 DEF Raised, MinHorizon, time
  <2>6. pc \in {"find", "tariff"}
    OBVIOUS
  <2> HIDE DEF k, pc, hours, tries
  <2>7. RunOK(r, k, horizon', result', tariff', asked')
    BY <1>0, <2>4, <2>5, <2>6 DEF RunOK, HorizonOK, FilesOK, AfterSearch, AfterFill, Search
  <2>8. ASSUME NEW q \in Runs, q # r
        PROVE  RunOK(q, run'[q], horizon', result', tariff', asked')
    <3>1. Kind[q] # "mpc"
      BY <1>0, <2>8, ForecastAssumption
    <3>2. run'[q] = run[q] /\ RunOK(q, run[q], horizon, result, tariff, asked)
      BY <2>2, <2>8 DEF IInv, Types
    <3> QED BY <3>1, <3>2 DEF RunOK, HorizonOK, Search
  <2>9. Types'
    BY <2>2, <2>3, <2>5 DEF Types, IInv, Search
  <2>10. run'[r] = k
    BY <2>2 DEF IInv, Types
  <2> QED BY <2>7, <2>8, <2>9, <2>10 DEF IInv
<1> QED BY <1>1, <1>2, <1>3 DEF Search

\* The row five hours ahead replaces the nearer one, whose search has set the horizon to five.
LEMMA FindInv ==
  ASSUME IInv, NEW r \in Runs, Find(r)
  PROVE  IInv'
<1>0. rows' \in Plans /\ left' \in LeftType
  BY DEF Find, IInv, Types
<1>1. CASE Fail(r)
  BY <1>0, <1>1, FailStep DEF Find
<1>2. CASE ~Fail(r)
  <2> DEFINE k == [run[r] EXCEPT !.row = run[r].hour + MinHorizon, !.pc = "tariff", !.tries = Attempts]
  <2>1. run' = [run EXCEPT ![r] = k] /\ run[r].pc = "find"
    BY <1>2 DEF Find, Become, At
  <2>2. run[r] \in RunType /\ RunOK(r, run[r], horizon, result, tariff, asked)
    BY DEF IInv, Types
  <2>3. k \in RunType
    <3>1. run[r].hour + MinHorizon \in Nat /\ "tariff" \in Pcs /\ Attempts \in 0..Attempts
      BY <2>2 DEF RunType, Pcs, Attempts, MinHorizon
    <3> QED BY <2>2, <3>1 DEF RunType
  <2>4. /\ k.pc = "tariff" /\ k.row = k.hour + MinHorizon /\ k.hour \in Nat /\ horizon = MinHorizon
        /\ k.ask = run[r].ask /\ k.of = run[r].of
    BY <2>1, <2>2 DEF RunType, RunOK, HorizonOK
  <2> HIDE DEF k
  <2>5. k.row - k.hour = horizon
    BY <2>4 DEF MinHorizon
  <2>6. RunOK(r, k, horizon, result, tariff, asked)
    BY <2>2, <2>4, <2>5 DEF RunOK, HorizonOK, FilesOK, AfterFill
  <2> QED BY <1>0, <2>1, <2>3, <2>6, RunStep DEF Find
<1> QED BY <1>1, <1>2

\* The run that truncates the file knows that it is empty.
LEMMA TariffInv ==
  ASSUME IInv, NEW r \in Runs, Tariff(r)
  PROVE  IInv'
<1>1. CASE Fail(r) /\ UNCHANGED tariff
  BY <1>1, FailStep DEF Tariff, IInv, Types
<1>2. CASE tariff' = <<>> /\ Touch(r, Opened(r))
  <2> DEFINE k == Opened(r)
  <2>1. run[r] \in RunType /\ RunOK(r, run[r], horizon, result, tariff, asked) /\ run[r].pc = "tariff"
    BY DEF IInv, Types, Tariff, At
  <2>2. k \in RunType
    BY <2>1 DEF RunType, Pcs, Opened
  <2>3. /\ k.pc = "fill" /\ k.row = run[r].row /\ k.hour = run[r].hour /\ k.restarted = run[r].restarted
        /\ k.ask = run[r].ask /\ k.of = run[r].of
    BY <2>1 DEF RunType, Opened
  <2>4. tariff' \in Seq(Nat)
    BY <1>2
  <2> HIDE DEF k
  <2>5. RunOK(r, k, horizon, result, tariff', asked)
    BY <1>2, <2>1, <2>3 DEF RunOK, HorizonOK, FilesOK, AfterSearch, AfterFill
  <2>6. Touch(r, k)
    BY <1>2 DEF k
  <2> QED BY <2>2, <2>4, <2>5, <2>6, TouchStep DEF Tariff
<1> QED BY <1>1, <1>2 DEF Tariff

\* The lines of a body ascend, so that its last one is the latest.
LEMMA BodyAscends ==
  ASSUME now \in Nat, NEW body \in Bodies
  PROVE  /\ body \in Seq(Nat)
         /\ \A i \in 1..Len(body) : body[i] <= body[Len(body)]
<1>1. PICK prices \in Tariffs : body = [i \in DOMAIN prices |-> now + prices[i]]
  BY DEF Bodies
<1>2. prices \in Seq(Nat) /\ \A i, j \in DOMAIN prices : i < j => prices[i] < prices[j]
  BY ForecastAssumption
<1>3. DOMAIN prices = 1..Len(prices) /\ Len(prices) \in Nat /\ \A i \in 1..Len(prices) : prices[i] \in Nat
  BY <1>2
<1>4. body = [i \in 1..Len(prices) |-> now + prices[i]]
  BY <1>1, <1>3
<1>5. body \in Seq(Nat) /\ Len(body) = Len(prices)
  BY <1>3, <1>4
<1>6. ASSUME NEW i \in 1..Len(body)
      PROVE  body[i] <= body[Len(body)]
  <2> DEFINE m == Len(prices)
  <2>1. m \in Nat /\ Len(body) = m /\ i \in 1..m
    BY <1>3, <1>5, <1>6
  <2> HIDE DEF m
  <2>2. m \in 1..m /\ (i < m \/ i = m)
    BY <2>1
  <2>3. /\ body[i] = now + prices[i] /\ prices[i] \in Nat
        /\ body[m] = now + prices[m] /\ prices[m] \in Nat
    BY <1>3, <1>4, <2>1, <2>2 DEF m
  <2>4. i < m => prices[i] < prices[m]
    BY <1>2, <1>3, <2>1, <2>2 DEF m
  <2>5. now + prices[i] <= now + prices[m]
    BY <2>2, <2>3, <2>4
  <2> QED BY <2>1, <2>3, <2>5
<1> QED BY <1>5, <1>6

\* A write over a file gives a file; over an empty one, what is written.
LEMMA OverType ==
  ASSUME tariff \in Seq(Nat), NEW lines \in Seq(Nat)
  PROVE  Over(lines) \in Seq(Nat) /\ (tariff = <<>> => Over(lines) = lines)
<1> DEFINE n == IF Len(lines) < Len(tariff) THEN Len(tariff) ELSE Len(lines)
<1>1. n \in Nat /\ Len(lines) \in Nat /\ Len(tariff) \in Nat
  OBVIOUS
<1>2. Over(lines) = [i \in 1..n |-> IF i <= Len(lines) THEN lines[i] ELSE tariff[i]]
  BY DEF Over
<1>3. ASSUME NEW i \in 1..n
      PROVE  (IF i <= Len(lines) THEN lines[i] ELSE tariff[i]) \in Nat
  BY <1>1
<1>4. Over(lines) \in Seq(Nat)
  <2> HIDE DEF n
  <2> QED BY <1>1, <1>2, <1>3
<1>5. ASSUME tariff = <<>>
      PROVE  Over(lines) = lines
  <2>1. n = Len(lines)
    BY <1>1, <1>5
  <2>2. Over(lines) = [i \in 1..Len(lines) |-> lines[i]]
    BY <1>1, <1>2, <2>1
  <2> QED BY <2>2
<1> QED BY <1>4, <1>5

(***************************************************************************)
(* The run that has filled the file it has found empty knows its latest    *)
(* hour; one that fails at that step knows nothing of the file.            *)
(***************************************************************************)
LEMMA FillInv ==
  ASSUME IInv, NEW r \in Runs, Fill(r)
  PROVE  IInv'
<1>0. /\ run[r] \in RunType /\ RunOK(r, run[r], horizon, result, tariff, asked) /\ run[r].pc = "fill"
      /\ now \in Nat /\ tariff \in Seq(Nat) /\ asked \in Nat
  BY DEF IInv, Types, Fill, At
<1>1. PICK body \in Bodies :
        \/ /\ tariff' = Over(body)
           /\ Touch(r, IF Is(r, "config") THEN Idle ELSE Filled(r, body))
        \/ /\ \E n \in 0..Len(body) : tariff' = Over(SubSeq(body, 1, n))
           /\ Touch(r, Failed(r)) \/ Touch(r, Panicked(r))
  BY DEF Fill
<1>2. body \in Seq(Nat) /\ \A i \in 1..Len(body) : body[i] <= body[Len(body)]
  BY <1>0, BodyAscends
<1>3. ASSUME NEW k \in RunType, Touch(r, k), tariff' \in Seq(Nat), RunOK(r, k, horizon, result, tariff', asked)
      PROVE  IInv'
  BY <1>3, TouchStep DEF Fill
<1>4. CASE /\ tariff' = Over(body)
           /\ Touch(r, IF Is(r, "config") THEN Idle ELSE Filled(r, body))
  <2>1. tariff' \in Seq(Nat)
    BY <1>0, <1>2, <1>4, OverType
  <2>2. CASE Is(r, "config")
    BY <1>0, <1>3, <1>4, <2>1, <2>2, IdleType, IdleOK
  <2>3. CASE ~Is(r, "config")
    <3> DEFINE k == Filled(r, body)
               hour == IF body = <<>> THEN 0 ELSE body[Len(body)]
               tries == IF Is(r, "forecast") THEN Attempts ELSE run[r].tries
    <3>1. k = [run[r] EXCEPT !.fetched = hour, !.pc = "request", !.tries = tries]
      BY <1>0 DEF Filled, RunType
    <3>2. hour \in Nat /\ "request" \in Pcs /\ tries \in 0..Attempts
      <4>1. hour \in Nat
        BY <1>2
      <4> QED BY <1>0, <4>1 DEF RunType, Pcs, Attempts
    <3> HIDE DEF hour, tries, k
    <3>3. k \in RunType
      BY <1>0, <3>1, <3>2 DEF RunType
    <3>4. /\ k.pc = "request" /\ k.fetched = hour /\ k.row = run[r].row /\ k.hour = run[r].hour
          /\ k.restarted = run[r].restarted /\ k.mixed = run[r].mixed
          /\ k.ask = run[r].ask /\ k.of = run[r].of
      BY <1>0, <3>1 DEF RunType
    <3>5. r \in Workflows /\ ~k.mixed => UpTo(tariff', k.fetched)
      <4> SUFFICES ASSUME r \in Workflows, ~k.mixed
                   PROVE  UpTo(tariff', k.fetched)
        OBVIOUS
      <4>1. tariff = <<>>
        BY <1>0, <3>4 DEF RunOK, FilesOK
      <4>2. tariff' = body
        BY <1>0, <1>2, <1>4, <4>1, OverType
      <4>3. CASE body = <<>>
        BY <4>2, <4>3 DEF UpTo
      <4>4. CASE body # <<>>
        <5>1. hour = body[Len(body)] /\ Len(body) \in DOMAIN body /\ DOMAIN body = 1..Len(body)
          BY <1>2, <4>4 DEF hour
        <5> QED BY <1>2, <3>4, <4>2, <5>1 DEF UpTo
      <4> QED BY <4>3, <4>4
    <3>6. RunOK(r, k, horizon, result, tariff', asked)
      BY <1>0, <3>4, <3>5 DEF RunOK, HorizonOK, FilesOK, AfterSearch, AfterFill
    <3>7. Touch(r, k)
      BY <1>4, <2>3 DEF k
    <3> QED BY <1>3, <2>1, <3>3, <3>6, <3>7
  <2> QED BY <2>2, <2>3
<1>5. CASE /\ \E n \in 0..Len(body) : tariff' = Over(SubSeq(body, 1, n))
           /\ Touch(r, Failed(r)) \/ Touch(r, Panicked(r))
  <2>1. PICK n \in 0..Len(body) : tariff' = Over(SubSeq(body, 1, n))
    BY <1>5
  <2>2. SubSeq(body, 1, n) \in Seq(Nat)
    BY <1>2
  <2>3. tariff' \in Seq(Nat)
    BY <1>0, <2>1, <2>2, OverType
  <2>4. CASE Touch(r, Failed(r))
    BY <1>0, <1>3, <2>3, <2>4, FailedOK
  <2>5. CASE Touch(r, Panicked(r))
    BY <1>0, <1>3, <2>3, <2>5, PanickedOK
  <2> QED BY <1>5, <2>4, <2>5
<1> QED BY <1>1, <1>4, <1>5

(***************************************************************************)
(* The request is sent with the horizon as it is, under a new number, and  *)
(* nobody has answered it yet.                                             *)
(***************************************************************************)
LEMMA RequestInv ==
  ASSUME IInv, NEW r \in Runs, Request(r)
  PROVE  IInv'
<1>0. /\ run[r] \in RunType /\ RunOK(r, run[r], horizon, result, tariff, asked)
      /\ run[r].pc = "request" /\ asked \in Nat /\ horizon \in Nat /\ horizon >= MinHorizon
      /\ asked' = asked + 1
  BY DEF IInv, Types, Request, At
<1> DEFINE k == [run[r] EXCEPT !.pc = "sent", !.horizon = horizon, !.ask = asked',
                               !.answer = "none", !.crossed = FALSE]
<1>1. k \in RunType
  <2>1. asked' \in Nat
    BY <1>0
  <2> QED BY <1>0, <2>1 DEF RunType, Pcs
<1>2. /\ k.pc = "sent" /\ k.horizon = horizon /\ k.answer = "none" /\ k.ask = asked'
      /\ k.row = run[r].row /\ k.hour = run[r].hour /\ k.restarted = run[r].restarted
      /\ k.of = run[r].of /\ k.mixed = run[r].mixed /\ k.fetched = run[r].fetched
  BY <1>0 DEF RunType
<1>3. run' = [run EXCEPT ![r] = k]
  BY DEF Request, Become
<1> HIDE DEF k
<1>4. result' \in [id : 0..asked', last : Nat] /\ jobs' \subseteq [id : 1..asked', hours : Nat]
  <2> DEFINE hours == IF Is(r, "mpc") THEN horizon ELSE Day
  <2>1. hours \in Nat
    BY <1>0, ForecastAssumption
  <2>2. jobs' = jobs \cup {[id |-> asked', hours |-> hours]}
    BY DEF Request
  <2> HIDE DEF hours
  <2> QED BY <1>0, <2>1, <2>2 DEF Request, IInv, Types
<1>5. Types'
  BY <1>0, <1>1, <1>3, <1>4 DEF Request, IInv, Types
<1>6. ASSUME NEW q \in Runs
      PROVE  RunOK(q, run'[q], horizon', result', tariff', asked')
  <2>1. CASE q = r
    <3>1. run'[q] = k
      BY <1>3, <2>1 DEF IInv, Types
    <3>2. HorizonOK(r, k, horizon)
      BY <1>0, <1>2 DEF RunOK, HorizonOK, AfterSearch
    <3>3. FilesOK(r, k, result, tariff)
      BY <1>0, <1>2 DEF RunOK, FilesOK, AfterFill
    <3>4. k.ask <= asked' /\ k.of <= asked'
      BY <1>0, <1>1, <1>2 DEF RunOK, RunType
    <3> QED BY <1>2, <2>1, <3>1, <3>2, <3>3, <3>4 DEF RunOK, Request
  <2>2. CASE q # r
    <3>1. run'[q] = run[q] /\ RunOK(q, run[q], horizon, result, tariff, asked) /\ run[q] \in RunType
      BY <1>3, <2>2 DEF IInv, Types
    <3>2. run[q].ask <= asked' /\ run[q].of <= asked'
      BY <1>0, <3>1 DEF RunOK, RunType
    <3> QED BY <3>1, <3>2 DEF RunOK, Request
  <2> QED BY <2>1, <2>2
<1> QED BY <1>5, <1>6 DEF IInv

\* Only an answer to this attempt leads to the copy.
LEMMA ReceiveInv ==
  ASSUME IInv, NEW r \in Runs, Receive(r)
  PROVE  IInv'
<1>0. rows' \in Plans /\ left' \in LeftType
  BY DEF Receive, IInv, Types
<1>1. CASE Fail(r)
  BY <1>0, <1>1, FailStep DEF Receive
<1>2. CASE Accepted(r) /\ Goto(r, "copy")
  <2> DEFINE k == [run[r] EXCEPT !.pc = "copy"]
  <2>1. run' = [run EXCEPT ![r] = k] /\ run[r].pc = "sent" /\ run[r].answer = "created"
    BY <1>2 DEF Receive, Accepted, Goto, Become, At
  <2>2. run[r] \in RunType /\ RunOK(r, run[r], horizon, result, tariff, asked)
    BY DEF IInv, Types
  <2>3. k \in RunType
    BY <2>2 DEF RunType, Pcs
  <2>4. /\ k.pc = "copy" /\ k.row = run[r].row /\ k.hour = run[r].hour /\ k.ask = run[r].ask
        /\ k.restarted = run[r].restarted /\ k.crossed = run[r].crossed /\ k.of = run[r].of
        /\ k.mixed = run[r].mixed /\ k.fetched = run[r].fetched
    BY <2>2 DEF RunType
  <2> HIDE DEF k
  <2>5. RunOK(r, k, horizon, result, tariff, asked)
    BY <2>1, <2>2, <2>4 DEF RunOK, HorizonOK, FilesOK, AfterSearch, AfterFill, Own
  <2> QED BY <1>0, <2>1, <2>3, <2>5, RunStep DEF Receive
<1> QED BY <1>1, <1>2 DEF Receive

\* What is read answers the run's request, or another answer has come between; a
\* result that is cut off is of the same request.
LEMMA CopyFileInv ==
  ASSUME IInv, NEW r \in Runs, CopyFile(r)
  PROVE  IInv'
<1>0. /\ run[r] \in RunType /\ RunOK(r, run[r], horizon, result, tariff, asked)
      /\ run[r].pc = "copy" /\ rows' \in Plans /\ left' \in LeftType /\ asked \in Nat
  BY DEF IInv, Types, CopyFile, At
<1>1. CASE Fail(r)
  BY <1>0, <1>1, FailStep DEF CopyFile
<1>2. ASSUME result # NoResult, NEW last \in Cuts,
             Become(r, [run[r] EXCEPT !.pc = "latest", !.of = result.id, !.last = last,
                                      !.horizon = 0, !.answer = "none"])
      PROVE  IInv'
  <2> DEFINE k == [run[r] EXCEPT !.pc = "latest", !.of = result.id, !.last = last,
                                 !.horizon = 0, !.answer = "none"]
  <2>1. last \in Nat /\ result.id \in Nat /\ result.id <= asked
    BY <1>0, <1>2 DEF Cuts, IInv, Types
  <2>2. k \in RunType
    BY <1>0, <2>1 DEF RunType, Pcs
  <2>3. /\ k.pc = "latest" /\ k.of = result.id /\ k.crossed = run[r].crossed /\ k.ask = run[r].ask
        /\ k.row = run[r].row /\ k.hour = run[r].hour /\ k.restarted = run[r].restarted
        /\ k.mixed = run[r].mixed /\ k.fetched = run[r].fetched
    BY <1>0 DEF RunType
  <2>4. run' = [run EXCEPT ![r] = k]
    BY <1>2 DEF Become
  <2> HIDE DEF k
  <2>5. RunOK(r, k, horizon, result, tariff, asked)
    BY <1>0, <2>1, <2>3 DEF RunOK, HorizonOK, FilesOK, AfterSearch, AfterFill, Own
  <2> QED BY <1>0, <2>2, <2>4, <2>5, RunStep DEF CopyFile
<1>3. CASE Become(r, Panicked(r))
  <2>1. Panicked(r) \in RunType /\ RunOK(r, Panicked(r), horizon, result, tariff, asked)
    BY PanickedOK
  <2> QED BY <1>0, <1>3, <2>1, RunStep DEF CopyFile, Become
<1> QED BY <1>1, <1>2, <1>3 DEF CopyFile

\* The latest hour of a file that is the run's own is the last one it has fetched.
LEMMA LatestInv ==
  ASSUME IInv, NEW r \in Runs, Latest(r)
  PROVE  IInv'
<1>0. /\ run[r] \in RunType /\ RunOK(r, run[r], horizon, result, tariff, asked)
      /\ run[r].pc = "latest" /\ rows' \in Plans /\ left' \in LeftType /\ tariff \in Seq(Nat)
  BY DEF IInv, Types, Latest, At
<1>1. CASE Fail(r)
  BY <1>0, <1>1, FailStep DEF Latest
<1>2. ASSUME NEW i \in DOMAIN tariff, \A j \in DOMAIN tariff : tariff[j] <= tariff[i],
             Become(r, [run[r] EXCEPT !.pc = "insert", !.kept = Kept(run[r].last, tariff[i])])
      PROVE  IInv'
  <2> DEFINE kept == Kept(run[r].last, tariff[i])
             k == [run[r] EXCEPT !.pc = "insert", !.kept = kept]
  <2>1. tariff[i] \in Nat /\ kept \in Nat
    BY <1>0, <1>2 DEF Kept, RunType
  <2>2. run' = [run EXCEPT ![r] = k]
    BY <1>2 DEF Become
  <2>3. r \in Workflows /\ ~run[r].mixed => kept = Kept(run[r].last, run[r].fetched)
    <3> SUFFICES ASSUME r \in Workflows, ~run[r].mixed
                 PROVE  tariff[i] = run[r].fetched
      OBVIOUS
    <3>1. UpTo(tariff, run[r].fetched)
      BY <1>0 DEF RunOK, FilesOK, AfterFill
    <3>2. tariff # <<>>
      BY <1>2
    <3>3. PICK j \in DOMAIN tariff : tariff[j] = run[r].fetched
      BY <3>1, <3>2 DEF UpTo
    <3>4. tariff[i] <= run[r].fetched /\ run[r].fetched <= tariff[i]
      BY <1>2, <3>1, <3>3 DEF UpTo
    <3>5. run[r].fetched \in Nat
      BY <1>0 DEF RunType
    <3> QED BY <2>1, <3>4, <3>5
  <2> HIDE DEF kept
  <2>4. k \in RunType
    BY <1>0, <2>1 DEF RunType, Pcs
  <2>5. /\ k.pc = "insert" /\ k.kept = kept /\ k.last = run[r].last /\ k.fetched = run[r].fetched
        /\ k.mixed = run[r].mixed /\ k.of = run[r].of /\ k.crossed = run[r].crossed /\ k.ask = run[r].ask
        /\ k.row = run[r].row /\ k.hour = run[r].hour /\ k.restarted = run[r].restarted
    BY <1>0 DEF RunType
  <2> HIDE DEF k
  <2>6. RunOK(r, k, horizon, result, tariff, asked)
    BY <1>0, <2>3, <2>5 DEF RunOK, HorizonOK, FilesOK, AfterSearch, AfterFill
  <2> QED BY <1>0, <2>2, <2>4, <2>6, RunStep DEF Latest
<1> QED BY <1>1, <1>2 DEF Latest

\* Only after the insertion does a workflow go on.
LEMMA InsertInv ==
  ASSUME IInv, NEW r \in Runs, Insert(r)
  PROVE  IInv'
<1>0. /\ run[r] \in RunType /\ rows' \in Plans /\ left' \in LeftType /\ asked \in Nat
  BY DEF IInv, Types, Insert
<1>1. CASE Fail(r)
  BY <1>0, <1>1, FailStep DEF Insert
<1>2. CASE Become(r, Done(r, TRUE))
  <2> DEFINE k == Done(r, TRUE)
  <2>1. k \in RunType /\ RunOK(r, k, horizon, result, tariff, asked)
    <3>1. CASE Is(r, "action")
      BY <1>0, <3>1, IdleType, IdleOK DEF Done
    <3>2. CASE ~Is(r, "action")
      <4>1. k = [Idle EXCEPT !.pc = "build", !.tries = Attempts, !.again = run[r].again, !.inserted = TRUE]
        BY <3>2 DEF Done
      <4>2. run[r].again \in Nat
        BY <1>0 DEF RunType
      <4> HIDE DEF k
      <4> QED BY <1>0, <4>1, <4>2, ToBuild
    <3> QED BY <3>1, <3>2
  <2>2. run' = [run EXCEPT ![r] = k]
    BY <1>2 DEF Become
  <2> HIDE DEF k
  <2> QED BY <1>0, <2>1, <2>2, RunStep DEF Insert
<1> QED BY <1>1, <1>2 DEF Insert

\* The schedule is none of the business of the files.
LEMMA BuildInv ==
  ASSUME IInv, NEW r \in Runs, Build(r)
  PROVE  IInv'
<1>1. rows' \in Plans /\ left' \in LeftType /\ asked \in Nat
  BY DEF Build, IInv, Types
<1>2. CASE Fail(r)
  BY <1>1, <1>2, FailStep DEF Build
<1>3. CASE Become(r, Idle)
  BY <1>1, <1>3, IdleType, IdleOK, RunStep DEF Build, Become
<1> QED BY <1>2, <1>3 DEF Build

-----------------------------------------------------------------------------
(***************************************************************************)
(* EMHASS.  The answer that replaces another marks the run that has yet to *)
(* read it; the run that is told of its own finds it in the file.          *)
(***************************************************************************)
LEMMA AnswerInv ==
  ASSUME IInv, NEW j \in jobs, NEW answer \in {"created", "error"},
         NEW res, res \in {result, Written(j)}, answer = "created" => res = Written(j),
         jobs' = jobs \ {j}, result' = res,
         run' = [q \in Runs |-> Told(q, j, answer, res)],
         UNCHANGED <<now, rows, horizon, tariff, asked, left>>
  PROVE  IInv'
<1>1. /\ res \in [id : 0..asked, last : Nat] /\ (res # NoResult => res.last >= 1)
      /\ answer = "created" => res.id = j.id
  <2>1. j.id \in 1..asked /\ j.hours \in Nat /\ now \in Nat /\ now >= 1 /\ asked \in Nat
    BY DEF IInv, Types
  <2>2. Written(j) = [id |-> j.id, last |-> now + j.hours] /\ now + j.hours \in Nat /\ now + j.hours >= 1
    BY <2>1 DEF Written
  <2> QED BY <2>1, <2>2 DEF IInv, Types
<1>2. ASSUME NEW q \in Runs
      PROVE  run'[q] \in RunType /\ RunOK(q, run'[q], horizon', result', tariff', asked')
  <2> DEFINE k == Told(q, j, answer, res)
  <2>1. run[q] \in RunType /\ RunOK(q, run[q], horizon, result, tariff, asked)
    BY DEF IInv, Types
  <2>2. k \in RunType
    BY <2>1 DEF Told, RunType
  <2>3. /\ k.pc = run[q].pc /\ k.tries = run[q].tries /\ k.hour = run[q].hour /\ k.row = run[q].row
        /\ k.horizon = run[q].horizon /\ k.ask = run[q].ask /\ k.of = run[q].of
        /\ k.last = run[q].last /\ k.kept = run[q].kept /\ k.fetched = run[q].fetched /\ k.mixed = run[q].mixed
        /\ k.restarted = run[q].restarted /\ k.inserted = run[q].inserted /\ k.recovered = run[q].recovered
    BY <2>1 DEF Told, RunType
  <2>4. /\ run[q].crossed => k.crossed
        /\ run[q].pc \in {"sent", "copy"} /\ run[q].ask = result.id /\ res # result => k.crossed
        /\ k.answer = IF run[q].pc = "sent" /\ run[q].ask = j.id THEN answer ELSE run[q].answer
    BY <2>1 DEF Told, RunType, At
  <2>5. run'[q] = k
    OBVIOUS
  <2> HIDE DEF k
  <2>6. ASSUME k.pc \in {"sent", "copy"}, Own(run[q], result)
        PROVE  Own(k, res)
    BY <2>3, <2>4, <2>6 DEF Own
  <2>7. k.pc = "sent" /\ k.answer = "created" => Own(k, res)
    <3> SUFFICES ASSUME k.pc = "sent", k.answer = "created"
                 PROVE  Own(k, res)
      OBVIOUS
    <3>1. CASE run[q].ask = j.id
      BY <1>1, <2>3, <2>4, <3>1 DEF Own
    <3>2. CASE run[q].ask # j.id
      BY <2>1, <2>3, <2>4, <2>6, <3>2 DEF RunOK, FilesOK
    <3> QED BY <3>1, <3>2
  <2>8. k.pc = "copy" => Own(k, res)
    BY <2>1, <2>3, <2>6 DEF RunOK, FilesOK
  <2>9. FilesOK(q, k, res, tariff)
    BY <2>1, <2>3, <2>4, <2>7, <2>8 DEF RunOK, FilesOK
  <2>10. HorizonOK(q, k, horizon)
    BY <2>1, <2>3 DEF RunOK, HorizonOK
  <2> QED BY <2>1, <2>2, <2>3, <2>5, <2>9, <2>10 DEF RunOK
<1>3. run' \in [Runs -> RunType]
  <2>1. run' = [q \in Runs |-> run'[q]]
    OBVIOUS
  <2> QED BY <1>2, <2>1
<1>4. Types'
  BY <1>1, <1>3 DEF IInv, Types
<1> QED BY <1>2, <1>4 DEF IInv

\* Whatever EMHASS does next.
LEMMA EmhassInv ==
  ASSUME IInv, Emhass
  PROVE  IInv'
<1>1. PICK j \in jobs : AnswerCreated(j) \/ AnswerError(j)
  BY DEF Emhass
<1>2. CASE AnswerCreated(j)
  <2> DEFINE res == Written(j)
  <2>1. /\ res \in {result, Written(j)} /\ jobs' = jobs \ {j} /\ result' = res
        /\ run' = [q \in Runs |-> Told(q, j, "created", res)]
        /\ UNCHANGED <<now, rows, horizon, tariff, asked, left>>
    BY <1>2 DEF AnswerCreated
  <2> QED BY <2>1, AnswerInv
<1>3. CASE AnswerError(j)
  <2>1. PICK res \in {result, Written(j)} : result' = res /\ run' = [q \in Runs |-> Told(q, j, "error", res)]
    BY <1>3 DEF AnswerError
  <2>2. jobs' = jobs \ {j} /\ UNCHANGED <<now, rows, horizon, tariff, asked, left>>
    BY <1>3 DEF AnswerError
  <2> QED BY <2>1, <2>2, AnswerInv
<1> QED BY <1>1, <1>2, <1>3

-----------------------------------------------------------------------------
\* A run that is marked needs nothing of the horizon.
LEMMA MarkedOK ==
  ASSUME NEW r \in Runs, NEW h \in RunType, RunOK(r, h, horizon, result, tariff, asked),
         h.pc \in {"idle", "search", "tariff", "request", "build"},
         h.pc = "request" => Kind[r] # "mpc",
         NEW b \in BOOLEAN, Kind[r] = "mpc" /\ h.pc = "tariff" => b, NEW hor
  PROVE  /\ [h EXCEPT !.restarted = b] \in RunType
         /\ RunOK(r, [h EXCEPT !.restarted = b], hor, result, tariff, asked)
<1> DEFINE k == [h EXCEPT !.restarted = b]
<1>1. k \in RunType
  BY DEF RunType
<1>2. /\ k.pc = h.pc /\ k.tries = h.tries /\ k.inserted = h.inserted /\ k.recovered = h.recovered
      /\ k.mixed = h.mixed /\ k.fetched = h.fetched /\ k.ask = h.ask /\ k.of = h.of /\ k.restarted = b
  BY DEF RunType
<1> HIDE DEF k
<1>3. HorizonOK(r, k, hor)
  BY <1>2 DEF RunOK, HorizonOK, AfterSearch
<1>4. FilesOK(r, k, result, tariff)
  BY <1>2 DEF RunOK, FilesOK, AfterFill
<1>5. RunOK(r, k, hor, result, tariff, asked)
  BY <1>2, <1>3, <1>4 DEF RunOK
<1> QED BY <1>1, <1>5 DEF k

(***************************************************************************)
(* After a restart a run is at the first step of an activity, and an       *)
(* MPCWorkflow with a horizon to come is marked.                           *)
(***************************************************************************)
LEMMA CrashInv ==
  ASSUME IInv, Crash
  PROVE  IInv'
<1>1. PICK lost \in SUBSET Runs :
        /\ \A r \in Runs : ~At(r, "idle") /\ run[r].pc # FirstStep(r) => r \in lost
        /\ run' = [r \in Runs |->
             LET k == IF r \in lost \/ r \notin Workflows THEN Failed(r) ELSE run[r]
             IN [k EXCEPT !.restarted = Is(r, "mpc") /\ k.pc = "tariff"]]
  BY DEF Crash
<1>2. /\ horizon' = FirstHorizon /\ left' \in LeftType
      /\ UNCHANGED <<now, rows, tariff, result, jobs, asked>>
  BY DEF Crash, IInv, Types, LeftType
<1>3. ASSUME NEW r \in Runs
      PROVE  run'[r] \in RunType /\ RunOK(r, run'[r], horizon', result', tariff', asked')
  <2> DEFINE h == IF r \in lost \/ r \notin Workflows THEN Failed(r) ELSE run[r]
             b == Is(r, "mpc") /\ h.pc = "tariff"
             k == [h EXCEPT !.restarted = b]
  <2>1. /\ h \in RunType
        /\ RunOK(r, h, horizon, result, tariff, asked)
        /\ h.pc \in {"idle", "search", "tariff", "request", "build"}
        /\ h.pc = "request" => Kind[r] # "mpc"
    <3>1. CASE h = Failed(r)
      <4>1. h.pc = "request" => Kind[r] # "mpc"
        <5> SUFFICES ASSUME Kind[r] = "mpc", h.pc = "request"
                     PROVE  FALSE
          OBVIOUS
        <5>1. run[r] \in RunType
          BY DEF IInv, Types
        <5>2. Failed(r).pc \in {FirstStep(r), "tariff", "idle"}
          BY <5>1 DEF Failed, Repeated, Idle, RunType
        <5>3. FirstStep(r) # "request"
          BY DEF FirstStep, Is
        <5> QED BY <3>1, <5>2, <5>3
      <4> QED BY <3>1, <4>1, FailedOK
    <3>2. CASE h = run[r] /\ r \notin lost
      <4>1. run[r] \in RunType /\ RunOK(r, run[r], horizon, result, tariff, asked)
        BY DEF IInv, Types
      <4>2. run[r].pc = "idle" \/ run[r].pc = FirstStep(r)
        BY <1>1, <3>2 DEF At
      <4>3. /\ FirstStep(r) \in {"search", "tariff", "request", "build"}
            /\ FirstStep(r) = "request" => Kind[r] # "mpc"
        <5>1. CASE run[r].pc \in {"search", "find"}
          BY <5>1 DEF FirstStep
        <5>2. CASE run[r].pc \notin {"search", "find"}
          BY <5>2 DEF FirstStep, Is
        <5> QED BY <5>1, <5>2
      <4> QED BY <3>2, <4>1, <4>2, <4>3
    <3> QED BY <3>1, <3>2
  <2>2. run'[r] = k
    BY <1>1
  <2>3. b \in BOOLEAN /\ (Kind[r] = "mpc" /\ h.pc = "tariff" => b)
    BY DEF Is
  <2> HIDE DEF h, b
  <2>4. k \in RunType /\ RunOK(r, k, FirstHorizon, result, tariff, asked)
    BY <2>1, <2>3, MarkedOK
  <2> QED BY <1>2, <2>2, <2>4
<1>4. run' \in [Runs -> RunType]
  <2>1. run' = [r \in Runs |-> run'[r]]
    BY <1>1
  <2> QED BY <1>3, <2>1
<1>5. Types'
  BY <1>2, <1>4 DEF IInv, Types, FirstHorizon, MinHorizon
<1> QED BY <1>3, <1>5 DEF IInv

\* Time matters to no run.
LEMMA TickInv ==
  ASSUME IInv, Tick
  PROVE  IInv'
<1>1. Types'
  BY DEF Tick, IInv, Types
<1> QED BY <1>1 DEF Tick, IInv

\* Initially every run is idle.
LEMMA InitInv == Init => IInv
<1> SUFFICES ASSUME Init
             PROVE  IInv
  OBVIOUS
<1>1. Types
  <2>1. result \in [id : 0..asked, last : Nat] /\ result = NoResult /\ tariff \in Seq(Nat)
    BY DEF Init, NoResult
  <2>2. left \in LeftType
    BY ForecastAssumption DEF Init, LeftType
  <2>3. run \in [Runs -> RunType]
    BY IdleType DEF Init
  <2> QED BY <2>1, <2>2, <2>3 DEF Init, Types, FirstHorizon, MinHorizon
<1>2. ASSUME NEW r \in Runs
      PROVE  RunOK(r, run[r], horizon, result, tariff, asked)
  BY IdleOK DEF Init
<1> QED BY <1>1, <1>2 DEF IInv

\* Every step preserves the invariant.
LEMMA StepInv == IInv /\ [Next]_vars => IInv'
<1> SUFFICES ASSUME IInv, [Next]_vars
             PROVE  IInv'
  OBVIOUS
<1>1. ASSUME NEW r \in Runs, Start(r)
      PROVE  IInv'
  BY <1>1, StartInv
<1>2. ASSUME NEW r \in Runs, Step(r)
      PROVE  IInv'
  BY <1>2, SearchInv, FindInv, TariffInv, FillInv, RequestInv, ReceiveInv, CopyFileInv, LatestInv,
     InsertInv, BuildInv DEF Step
<1>3. CASE Emhass
  BY <1>3, EmhassInv
<1>4. CASE Crash
  BY <1>4, CrashInv
<1>5. CASE Tick
  BY <1>5, TickInv
<1>6. CASE UNCHANGED vars
  BY <1>6 DEF vars, IInv, Types
<1> QED BY <1>1, <1>2, <1>3, <1>4, <1>5, <1>6 DEF Next

\* IInv holds in every state.
THEOREM Invariance == Spec => []IInv
BY InitInv, StepInv, PTL DEF Spec

-----------------------------------------------------------------------------
(***************************************************************************)
(* Every variable keeps its type, and no request asks for fewer than five  *)
(* hours, whatever the schedule holds and however often the program        *)
(* restarts (Forecaster.horizon, mpc.go).                                  *)
(***************************************************************************)
THEOREM TypeCorrect == Spec => []TypeOK
<1>1. ASSUME IInv
      PROVE  TypeOK
  <2>1. ASSUME NEW r \in Runs
        PROVE  /\ run[r].pc \in Pcs /\ run[r].answer \in {"none", "created", "error"}
               /\ run[r].ask \in 0..asked /\ run[r].of \in 0..asked
               /\ run[r].hour \in Nat /\ run[r].row \in Nat /\ run[r].last \in Nat
               /\ run[r].kept \in Nat /\ run[r].fetched \in Nat
               /\ At(r, "sent") => run[r].horizon >= MinHorizon
    BY <1>1 DEF IInv, Types, RunType, RunOK, HorizonOK, At
  <2> QED BY <1>1, <2>1 DEF IInv, Types, LeftType, TypeOK
<1> QED BY <1>1, Invariance, PTL

(***************************************************************************)
(* The horizon in the request of MPCWorkflow ends in the hour of the row   *)
(* whose state of charge it asks for, however the runs that share the      *)
(* horizon interleave, unless there was no row or the program restarted    *)
(* between (GetHorizonSOCActivity and MPCActivity).                        *)
(***************************************************************************)
THEOREM HorizonAndRow == Spec => []HorizonPaired
<1>1. ASSUME IInv
      PROVE  HorizonPaired
  BY <1>1 DEF IInv, RunOK, HorizonOK, AfterSearch, HorizonPaired, Is, At
<1> QED BY <1>1, Invariance, PTL

(***************************************************************************)
(* A run inserts the answer EMHASS gave to the request of its own attempt, *)
(* or one that replaced that answer in the one result file before the run  *)
(* had read it, with any number of runs and of requests that were given up *)
(* (Forecast and copyFile).                                                *)
(***************************************************************************)
THEOREM OwnAnswer == Spec => []OwnResult
<1>1. ASSUME IInv
      PROVE  OwnResult
  BY <1>1 DEF IInv, RunOK, FilesOK, OwnResult, At
<1> QED BY <1>1, Invariance, PTL

(***************************************************************************)
(* A workflow that no other run has disturbed cuts its result at the last  *)
(* hour it has fetched a price for, for any tariffs, with any gaps, and    *)
(* whatever its own failed attempts have left in the file                  *)
(* (GenerateOctopusTariff, getLoadForecastHorizon and copyFile).           *)
(***************************************************************************)
THEOREM OwnPricesAlways == Spec => []OwnPrices
<1>1. ASSUME IInv
      PROVE  OwnPrices
  BY <1>1 DEF IInv, RunOK, FilesOK, OwnPrices, Workflows, At
<1> QED BY <1>1, Invariance, PTL

(***************************************************************************)
(* A workflow that goes on to its schedule has inserted an answer, after   *)
(* whatever failures and retries; MPCWorkflow may have recovered from a    *)
(* panic instead.                                                          *)
(***************************************************************************)
THEOREM AnswerBeforeSchedule == Spec => []BuildsFromAnswer
<1>1. ASSUME IInv
      PROVE  BuildsFromAnswer
  BY <1>1 DEF IInv, RunOK, BuildsFromAnswer, Is, At
<1> QED BY <1>1, Invariance, PTL
=============================================================================
