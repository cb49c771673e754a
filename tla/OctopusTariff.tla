--------------------------- MODULE OctopusTariff ---------------------------
(***************************************************************************)
(* The tariff file of the next day (internal/provider/octopus): fetch the  *)
(* rates, cut the free sessions the account has joined out of them, write  *)
(* one line per step.                                                      *)
(*                                                                         *)
(* Time is an integer, 0 the zero time.  GenerateOctopusTariff is called   *)
(* at a start, by the forecast and MPC activities and by EMHASS through    *)
(* /api/config; calls may overlap.  Periods and sessions are sets: the     *)
(* list is sorted before it is searched and a session's place in it does   *)
(* not matter.  Octopus' API is external: it answers with some of Answers  *)
(* and of Events, or not at all.                                           *)
(***************************************************************************)
EXTENDS Integers, SequencesExt, Lists

CONSTANTS
  Callers,   \* calls of GenerateOctopusTariff at the same time
  Answers,   \* sets of periods the API may answer with
  Events,    \* sets of joined events the API may answer with
  Account,   \* an API key and an account number are given
  Offset,    \* of local time from the time zone the events are labelled with
  Res,       \* the resolution: a day divided by -steps
  Steps,     \* -steps
  Start,     \* when the program starts
  Until,     \* bound on time
  Calls      \* bound on the number of calls

Kinds   == {"WEEKEND_HAPPY_HOUR", "TURN_UP"}
Period  == [from : Int, to : Int, rate : Int]
Event   == [type : STRING, start : Int, end : Int]

\* findTariff's condition.  A period without an end has to = 0: it covers nothing.
Covers(p, t)   == p.from <= t /\ p.to > t
RatesAt(P, t)  == {p.rate : p \in {q \in P : Covers(q, t)}}
WellFormed(P)  == P \subseteq Period /\ \A p \in P : p.from < p.to \/ p.to = 0

ASSUME TariffAssumption ==
  /\ \A P \in Answers : WellFormed(P) /\ IsFiniteSet(P)
  /\ \A events \in Events : events \subseteq Event /\ \A e \in events : e.start < e.end
  /\ Account \in BOOLEAN
  /\ Offset \in Int
  /\ Res \in Nat \ {0} /\ Steps \in Nat
  /\ Start \in Nat /\ Until \in Nat /\ Start <= Until /\ Calls \in Nat

VARIABLES
  now,
  file,     \* data_load_cost_forecast.csv: lines [time, rate]
  call,     \* the calls under way
  left,     \* what remains of Calls
  written,  \* history: the lines of the last call that came to write
  shared    \* history: two calls have had the file open together since

vars == <<now, file, call, left, written, shared>>

Idle == [pc |-> "idle", at |-> 0, fetched |-> {}, kept |-> {}, todo |-> {},
         periods |-> {}, body |-> <<>>]

Goto(c, pc) == call' = [call EXCEPT ![c].pc = pc]
Return(c)   == call' = [call EXCEPT ![c] = Idle]

-----------------------------------------------------------------------------
Overlapping(P, s) == {p \in P : p.from < s.to /\ p.to > s.from}

\* Mutant: the part after the special period is lost when there is one before it.
InjectOnePart(P, s) ==
  (P \ Overlapping(P, s))
  \cup {[p EXCEPT !.to = s.from] : p \in {q \in Overlapping(P, s) : q.from < s.from}}
  \cup {[p EXCEPT !.from = s.to] : p \in {q \in Overlapping(P, s) : q.to > s.to /\ q.from >= s.from}}
  \cup {s}

\* Mutant: a period that begins with the special one leaves an empty part before it.
InjectLeavingEmpty(P, s) ==
  (P \ Overlapping(P, s))
  \cup {[p EXCEPT !.to = s.from] : p \in {q \in Overlapping(P, s) : q.from <= s.from}}
  \cup {[p EXCEPT !.from = s.to] : p \in {q \in Overlapping(P, s) : q.to > s.to}}
  \cup {s}

(***************************************************************************)
(* InjectTariffPeriod: what of a period lies before the special one, what  *)
(* lies after it, and the special one.                                     *)
(***************************************************************************)
InjectTariffPeriod(P, s) ==
  (P \ Overlapping(P, s))
  \cup {[p EXCEPT !.to = s.from] : p \in {q \in Overlapping(P, s) : q.from < s.from}}
  \cup {[p EXCEPT !.from = s.to] : p \in {q \in Overlapping(P, s) : q.to > s.to}}
  \cup {s}

\* Mutant: the boundary itself when t is on one.
NextBoundaryOrNow(t) == IF t % Res = 0 THEN t ELSE (t - (t % Res)) + Res

\* nextTariffBoundary: Truncate, then a step further when that is not after t.
NextBoundary(t) == (t - (t % Res)) + Res

(***************************************************************************)
(* generateTariffContents: a line for each step that a period covers, with *)
(* the rate of the first such period in order of their starts.             *)
(***************************************************************************)
FirstOf(P) == CHOOSE p \in P : \A q \in P : p.from <= q.from

Contents(P, from) ==
  LET covering(t) == {p \in P : Covers(p, t)}
      times == [i \in 1..Steps |-> from + (i - 1) * Res]
      line(t) == [time |-> t, rate |-> FirstOf(covering(t)).rate]
      priced == Filter(times, {t \in Range(times) : covering(t) # {}})
  IN [i \in 1..Len(priced) |-> line(priced[i])]

\* adjustToLocalOffset keeps the clock's reading and changes the time zone.
Local(t) == t - Offset

FreePeriod(e) == [from |-> Local(e.start), to |-> Local(e.end), rate |-> 0]

\* fetchSavingSessions: free sessions that have not begun.
Kept(events) == {FreePeriod(e) : e \in {f \in events : f.type \in Kinds /\ Local(f.start) >= now}}

-----------------------------------------------------------------------------
Generate(c) ==
  /\ call[c].pc = "idle"
  /\ left > 0 /\ left' = left - 1
  /\ call' = [call EXCEPT ![c].pc = "fetch", ![c].at = now]
  /\ UNCHANGED <<now, file, written, shared>>

Fetch(c) ==
  /\ call[c].pc = "fetch"
  /\ \/ \E P \in Answers :
          call' = [call EXCEPT ![c].pc = IF Account THEN "sessions" ELSE "create",
                               ![c].fetched = P, ![c].periods = P]
     \/ Return(c)
  /\ UNCHANGED <<now, file, left, written, shared>>

FetchSavingSessions(c) ==
  /\ call[c].pc = "sessions"
  /\ \/ \E events \in Events :
          call' = [call EXCEPT ![c].pc = "inject",
                               ![c].kept = Kept(events), ![c].todo = Kept(events)]
     \/ Return(c)
  /\ UNCHANGED <<now, file, left, written, shared>>

Inject(c) ==
  /\ call[c].pc = "inject"
  /\ \/ \E s \in call[c].todo :
          call' = [call EXCEPT ![c].todo = @ \ {s},
                               ![c].periods = InjectTariffPeriod(@, s)]
     \/ call[c].todo = {} /\ Goto(c, "create")
  /\ UNCHANGED <<now, file, left, written, shared>>

\* Mutant: the file is opened without being truncated.
CreateKeeping(c) ==
  /\ call[c].pc = "create"
  /\ call' = [call EXCEPT ![c].pc = "write",
                          ![c].body = Contents(call[c].periods, NextBoundary(call[c].at))]
  /\ shared' = (\E d \in Callers \ {c} : call[d].pc = "write")
  /\ UNCHANGED <<now, file, left, written>>

\* os.Create truncates the file; it may fail.
Create(c) ==
  /\ call[c].pc = "create"
  /\ \/ /\ call' = [call EXCEPT ![c].pc = "write",
                                ![c].body = Contents(call[c].periods, NextBoundary(call[c].at))]
        /\ file' = <<>>
        /\ shared' = (\E d \in Callers \ {c} : call[d].pc = "write")
     \/ Return(c) /\ UNCHANGED <<file, shared>>
  /\ UNCHANGED <<now, left, written>>

(***************************************************************************)
(* The body is written at the start of the file; what another call has     *)
(* written beyond its end stays.                                           *)
(***************************************************************************)
Written(lines) == lines \o SubSeq(file, Len(lines) + 1, Len(file))

\* All lines, or, when the write fails, the first of them.  When the file cannot be
\* closed the call ends with a panic instead, and its caller goes on: at the start
\* of the program that is the end of it (Crash).
Write(c) ==
  /\ call[c].pc = "write"
  /\ \E n \in 0..Len(call[c].body) : file' = Written(SubSeq(call[c].body, 1, n))
  /\ written' = call[c].body
  /\ Return(c)
  /\ UNCHANGED <<now, left, shared>>

\* The program restarts: the file stays as it is.
Crash ==
  /\ \E c \in Callers : call[c].pc # "idle"
  /\ call' = [c \in Callers |-> Idle]
  /\ UNCHANGED <<now, file, left, written, shared>>

Tick == now < Until /\ now' = now + 1 /\ UNCHANGED <<file, call, left, written, shared>>

Init ==
  /\ now = Start
  /\ file = <<>>
  /\ call = [c \in Callers |-> Idle]
  /\ left = Calls
  /\ written = <<>>
  /\ shared = FALSE

Next ==
  \/ \E c \in Callers : Generate(c) \/ Fetch(c) \/ FetchSavingSessions(c) \/ Inject(c)
                        \/ Create(c) \/ Write(c)
  \/ Crash \/ Tick

Spec == Init /\ [][Next]_vars

-----------------------------------------------------------------------------
Pcs  == {"idle", "fetch", "sessions", "inject", "create", "write"}
Line == [time : Int, rate : Int]

(***************************************************************************)
(* Every variable has its type; a period that cutting leaves is neither    *)
(* empty nor reversed, and what is still to be cut out is of the account's *)
(* sessions.                                                               *)
(***************************************************************************)
TypeOK ==
  /\ now \in Nat /\ left \in Nat /\ shared \in BOOLEAN
  /\ file \in Seq(Line) /\ written \in Seq(Line)
  /\ call \in [Callers -> [pc : Pcs, at : Nat, fetched : SUBSET Period, kept : SUBSET Period,
                           todo : SUBSET Period, periods : SUBSET Period, body : Seq(Line)]]
  /\ \A c \in Callers : WellFormed(call[c].periods) /\ call[c].todo \subseteq call[c].kept

(***************************************************************************)
(* What the tariff is at t when the sessions in S are free: nothing in     *)
(* them, the fetched rate outside.                                         *)
(***************************************************************************)
Expected(P, S, t) == IF \E s \in S : Covers(s, t) THEN {0} ELSE RatesAt(P, t)

(***************************************************************************)
(* InjectTariffPeriod changes the rate exactly inside the sessions it has  *)
(* been called for, however these overlap one another and the periods.     *)
(***************************************************************************)
Horizon == 0..(Until + (Steps + 1) * Res)

InjectedExactly(t) ==
  \A c \in Callers : call[c].pc \in {"inject", "create"} =>
    RatesAt(call[c].periods, t) = Expected(call[c].fetched, call[c].kept \ call[c].todo, t)

SessionsInjected == \A t \in Horizon : InjectedExactly(t)

(***************************************************************************)
(* The lines a call writes: one for every step of the day from the next    *)
(* full one on that has a price, at that price, in order of time.          *)
(***************************************************************************)
IsNextStep(t, at) == t > at /\ t <= at + Res /\ t % Res = 0

TariffCorrect ==
  \A c \in Callers : call[c].pc = "write" =>
    LET body  == call[c].body
        price(t) == Expected(call[c].fetched, call[c].kept, t)
        first == CHOOSE t \in Horizon : IsNextStep(t, call[c].at)
    IN /\ {line.time : line \in {body[i] : i \in DOMAIN body}} =
            {t \in {first + k * Res : k \in 0..Steps - 1} : price(t) # {}}
       /\ \A i \in DOMAIN body : body[i].rate \in price(body[i].time)
       /\ \A i, j \in DOMAIN body : i < j => body[i].time < body[j].time

(***************************************************************************)
(* Unless two calls had it open together, the file is what the last call   *)
(* to write meant it to be, up to where its write ended: nothing of an     *)
(* older and longer tariff is left in it, whatever failed or was lost.     *)
(***************************************************************************)
WholeFile == ~shared => IsPrefix(file, written)
=============================================================================
