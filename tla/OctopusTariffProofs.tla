------------------------ MODULE OctopusTariffProofs ------------------------
(***************************************************************************)
(* Cutting the free sessions out of the tariff is exact: for every tariff, *)
(* every set of sessions and every order in which they are cut out; so is  *)
(* the file that is made of it, for any number of steps of any length.     *)
(***************************************************************************)
EXTENDS OctopusTariff, ListProofs, FiniteSetTheorems

\* The parts of a period that lies across a special one.
Before(p, s) == [p EXCEPT !.to = s.from]
After(p, s)  == [p EXCEPT !.from = s.to]

\* The parts end and begin where the special period does, at the old rate.
LEMMA PartsShape ==
  ASSUME NEW p \in Period, NEW s \in Period
  PROVE  /\ Before(p, s) \in Period /\ After(p, s) \in Period
         /\ Before(p, s).from = p.from /\ Before(p, s).to = s.from
         /\ After(p, s).from = s.to    /\ After(p, s).to = p.to
         /\ Before(p, s).rate = p.rate /\ After(p, s).rate = p.rate
  BY DEF Period, Before, After

\* A period has a start, an end and a rate.
LEMMA PeriodFields ==
  ASSUME NEW p \in Period
  PROVE  p.from \in Int /\ p.to \in Int /\ p.rate \in Int
  BY DEF Period

\* Whatever is in the tariff after an injection was there, is a part, or is the special period.
LEMMA InjectMember ==
  ASSUME NEW P \in SUBSET Period, NEW s \in Period, NEW q
  PROVE  q \in InjectTariffPeriod(P, s) <=>
           \/ q \in P /\ ~(q.from < s.to /\ q.to > s.from)
           \/ \E p \in P : p.from < s.to /\ p.to > s.from /\ p.from < s.from /\ q = Before(p, s)
           \/ \E p \in P : p.from < s.to /\ p.to > s.from /\ p.to > s.to /\ q = After(p, s)
           \/ q = s
  BY DEF InjectTariffPeriod, Overlapping, Before, After

\* Injection leaves a set of periods.
LEMMA InjectType ==
  ASSUME NEW P \in SUBSET Period, NEW s \in Period
  PROVE  InjectTariffPeriod(P, s) \in SUBSET Period
<1>1. ASSUME NEW p \in P
      PROVE  p \in Period /\ Before(p, s) \in Period /\ After(p, s) \in Period
  BY PartsShape
<1> QED BY <1>1, InjectMember

\* No part that is left is empty or reversed when no period and no session was.
LEMMA InjectWellFormed ==
  ASSUME NEW P, NEW s, WellFormed(P), WellFormed({s})
  PROVE  WellFormed(InjectTariffPeriod(P, s))
<1>1. P \in SUBSET Period /\ s \in Period
  BY DEF WellFormed
<1>2. ASSUME NEW q \in InjectTariffPeriod(P, s)
      PROVE  q.from < q.to \/ q.to = 0
  <2>1. CASE q \in P \/ q = s
    BY <2>1 DEF WellFormed
  <2>2. ASSUME NEW p \in P, p.from < s.from, q = Before(p, s)
        PROVE  q.from < q.to
    <3>1. p \in Period
      BY <1>1
    <3> QED BY <1>1, <2>2, <3>1, PartsShape
  <2>3. ASSUME NEW p \in P, p.to > s.to, q = After(p, s)
        PROVE  q.from < q.to
    <3>1. p \in Period
      BY <1>1
    <3> QED BY <1>1, <2>3, <3>1, PartsShape
  <2> QED BY <1>1, <2>1, <2>2, <2>3, InjectMember
<1> QED BY <1>1, <1>2, InjectType DEF WellFormed

(***************************************************************************)
(* InjectTariffPeriod changes the tariff inside the special period and     *)
(* nowhere else, whether or not the periods overlap one another.           *)
(***************************************************************************)
THEOREM InjectExact ==
  ASSUME NEW P \in SUBSET Period, NEW s \in Period, NEW t \in Int
  PROVE  RatesAt(InjectTariffPeriod(P, s), t) = IF Covers(s, t) THEN {s.rate} ELSE RatesAt(P, t)
<1> DEFINE Q == InjectTariffPeriod(P, s)
<1>0. Q \in SUBSET Period
  BY InjectType
<1>1. CASE Covers(s, t)
  <2>1. s \in Q
    BY InjectMember
  <2>2. ASSUME NEW q \in Q, Covers(q, t)
        PROVE  q = s
    <3>1. CASE q \in P /\ ~(q.from < s.to /\ q.to > s.from)
      BY <1>1, <2>2, <3>1 DEF Covers, Period
    <3>2. ASSUME NEW p \in P, q = Before(p, s)
          PROVE  FALSE
      BY <1>1, <2>2, <3>2, PartsShape, PeriodFields DEF Covers
    <3>3. ASSUME NEW p \in P, q = After(p, s)
          PROVE  FALSE
      BY <1>1, <2>2, <3>3, PartsShape, PeriodFields DEF Covers
    <3> QED BY <3>1, <3>2, <3>3, InjectMember
  <2> QED BY <1>1, <2>1, <2>2 DEF RatesAt
<1>2. CASE ~Covers(s, t)
  <2>1. ASSUME NEW q \in Q, Covers(q, t)
        PROVE  \E p \in P : Covers(p, t) /\ p.rate = q.rate
    <3>1. ASSUME NEW p \in P, p.from < s.to, p.to > s.from, p.from < s.from, q = Before(p, s)
          PROVE  Covers(p, t) /\ p.rate = q.rate
      <4>1. p \in Period
        OBVIOUS
      <4> QED BY <2>1, <3>1, <4>1, PartsShape, PeriodFields DEF Covers
    <3>2. ASSUME NEW p \in P, p.from < s.to, p.to > s.from, p.to > s.to, q = After(p, s)
          PROVE  Covers(p, t) /\ p.rate = q.rate
      <4>1. p \in Period
        OBVIOUS
      <4> QED BY <2>1, <3>2, <4>1, PartsShape, PeriodFields DEF Covers
    <3> QED BY <1>2, <2>1, <3>1, <3>2, InjectMember
  <2>2. ASSUME NEW p \in P, Covers(p, t)
        PROVE  \E q \in Q : Covers(q, t) /\ q.rate = p.rate
    <3>1. CASE ~(p.from < s.to /\ p.to > s.from)
      BY <2>2, <3>1, InjectMember
    <3>2. CASE p.from < s.to /\ p.to > s.from /\ t < s.from
      <4>1. p \in Period /\ p.from < s.from
        BY <2>2, <3>2, PeriodFields DEF Covers
      <4>2. Before(p, s) \in Q
        BY <3>2, <4>1, InjectMember
      <4> QED BY <2>2, <3>2, <4>1, <4>2, PartsShape DEF Covers
    <3>3. CASE p.from < s.to /\ p.to > s.from /\ t >= s.to
      <4>1. p \in Period /\ p.to > s.to
        BY <2>2, <3>3, PeriodFields DEF Covers
      <4>2. After(p, s) \in Q
        BY <3>3, <4>1, InjectMember
      <4> QED BY <2>2, <3>3, <4>1, <4>2, PartsShape DEF Covers
    <3> QED BY <1>2, <3>1, <3>2, <3>3 DEF Covers, Period
  <2>3. ASSUME NEW r
        PROVE  r \in RatesAt(Q, t) <=> r \in RatesAt(P, t)
    BY <2>1, <2>2 DEF RatesAt
  <2> QED BY <1>2, <2>3
<1> QED BY <1>1, <1>2

\* Cutting out one more free session is what the expected tariff says it is.
LEMMA ExpectedStep ==
  ASSUME NEW P, NEW S, NEW Q \in SUBSET Period, NEW s \in Period, NEW t \in Int,
         s.rate = 0, RatesAt(Q, t) = Expected(P, S, t)
  PROVE  RatesAt(InjectTariffPeriod(Q, s), t) = Expected(P, S \cup {s}, t)
<1>1. CASE Covers(s, t)
  BY <1>1, InjectExact DEF Expected
<1>2. CASE ~Covers(s, t)
  BY <1>2, InjectExact DEF Expected
<1> QED BY <1>1, <1>2

-----------------------------------------------------------------------------
(***************************************************************************)
(* The lines of the file.                                                  *)
(***************************************************************************)
Bounded(P) == \E b \in Int : \A p \in P : b <= p.from

\* A finite set of periods has a lower bound of its starts.
LEMMA FiniteBounded ==
  ASSUME NEW P \in SUBSET Period, IsFiniteSet(P)
  PROVE  Bounded(P)
<1>0. PICK n \in Nat : ExistsSurjection(1..n, P)
  BY FS_NatSurjection
<1>1. PICK f \in [1..n -> P] : \A p \in P : \E i \in 1..n : f[i] = p
  BY <1>0 DEF ExistsSurjection, Surjection
<1> DEFINE T == {m \in 0..n : \E b \in Int : \A i \in 1..m : b <= f[i].from}
<1>2. 0 \in T
  <2>1. 0 \in Int /\ 0 \in 0..n /\ \A i \in 1..0 : 0 <= f[i].from
    OBVIOUS
  <2>. QED BY <2>1
<1>3. ASSUME NEW m \in 0..n, m # n, m \in T
      PROVE  m + 1 \in T
  <2>1. PICK b \in Int : \A i \in 1..m : b <= f[i].from
    BY <1>3
  <2>2. m + 1 \in 1..n /\ m + 1 \in 0..n /\ \A i \in 1..m + 1 : i = m + 1 \/ i \in 1..m
    BY <1>3
  <2>3. \A i \in 1..n : f[i].from \in Int
    BY PeriodFields
  <2>4. \A i \in 1..m : i \in 1..n
    BY <1>3
  <2> DEFINE d == IF b <= f[m + 1].from THEN b ELSE f[m + 1].from
  <2>5. d \in Int /\ d <= b /\ d <= f[m + 1].from
    BY <2>2, <2>3
  <2>. HIDE DEF d
  <2>6. \A i \in 1..m + 1 : d <= f[i].from
    BY <2>1, <2>2, <2>3, <2>4, <2>5
  <2>. QED BY <2>2, <2>5, <2>6
<1>4. PICK b \in Int : \A i \in 1..n : b <= f[i].from
  <2>1. n \in T
    <3>. HIDE DEF T
    <3>1. 0..n \subseteq T
      BY <1>2, <1>3, UpTo
    <3>. QED BY <3>1
  <2>. QED BY <2>1
<1>. QED BY <1>1, <1>4 DEF Bounded

\* What injection leaves has one too.
LEMMA InjectBounded ==
  ASSUME NEW P \in SUBSET Period, NEW s \in Period, Bounded(P), s.from <= s.to
  PROVE  Bounded(InjectTariffPeriod(P, s))
<1>1. PICK b \in Int : \A p \in P : b <= p.from
  BY DEF Bounded
<1> DEFINE d == IF b <= s.from THEN b ELSE s.from
<1>2. d \in Int /\ d <= b /\ d <= s.from /\ s.from \in Int /\ s.to \in Int
  BY PeriodFields
<1>. HIDE DEF d
<1>3. ASSUME NEW q \in InjectTariffPeriod(P, s) PROVE d <= q.from
  <2>1. CASE q \in P
    BY <1>1, <1>2, <2>1, PeriodFields
  <2>2. ASSUME NEW p \in P, q = Before(p, s) PROVE d <= q.from
    <3>1. q.from = p.from /\ p.from \in Int /\ b <= p.from
      BY <1>1, <2>2, PartsShape, PeriodFields
    <3>. QED BY <1>2, <3>1
  <2>3. ASSUME NEW p \in P, q = After(p, s) PROVE d <= q.from
    <3>1. q.from = s.to
      BY <2>3, PartsShape
    <3>. QED BY <1>2, <3>1
  <2>4. CASE q = s
    BY <1>2, <2>4
  <2>. QED BY <2>1, <2>2, <2>3, <2>4, InjectMember
<1>. QED BY <1>2, <1>3 DEF Bounded

\* findTariff's first period in order of starts is one of them.
LEMMA FirstOfMember ==
  ASSUME NEW P \in SUBSET Period, P # {}, Bounded(P)
  PROVE  FirstOf(P) \in P
<1>1. PICK b \in Int : \A p \in P : b <= p.from
  BY DEF Bounded
<1> DEFINE T == {p.from - b : p \in P}
<1>2. \A p \in P : p.from \in Int /\ p.from - b \in Nat
  BY <1>1, PeriodFields
<1>3. T \subseteq Nat /\ T # {}
  BY <1>2
<1>4. PICK p \in P : \A q \in P : p.from - b <= q.from - b
  <2>1. PICK n \in T : \A m \in T : n <= m
    <3>. HIDE DEF T
    <3>. QED BY <1>3, LeastElement
  <2>. QED BY <2>1
<1>5. \A q \in P : p.from <= q.from
  BY <1>2, <1>4
<1>. QED BY <1>5 DEF FirstOf

\* The steps of a day come one after another.
LEMMA StepsAscend ==
  ASSUME NEW i \in Int, NEW j \in Int, i < j, NEW from \in Int
  PROVE  /\ from + (i - 1) * Res \in Int
         /\ from + (i - 1) * Res < from + (j - 1) * Res
<1>1. Res \in Nat /\ Res > 0
  BY TariffAssumption
<1>2. (i - 1) * Res \in Int /\ (j - 1) * Res \in Int /\ (j - i) * Res \in Int
  BY <1>1
<1>3. (j - i) * Res > 0
  BY <1>1
<1>4. (j - 1) * Res = (i - 1) * Res + (j - i) * Res
  BY <1>1
<1>. QED BY <1>2, <1>3, <1>4

\* The lines are those of the steps that have a price, at that price, in order.
IsBody(body, price, from) ==
  /\ body \in Seq(Line)
  /\ {body[i].time : i \in DOMAIN body} =
       {t \in {from + k * Res : k \in 0..Steps - 1} : price[t] # {}}
  /\ \A i \in DOMAIN body : body[i].rate \in price[body[i].time]
  /\ \A i, j \in DOMAIN body : i < j => body[i].time < body[j].time

LEMMA ContentsIsBody ==
  ASSUME NEW P \in SUBSET Period, Bounded(P), NEW from \in Int
  PROVE  IsBody(Contents(P, from), [t \in Int |-> RatesAt(P, t)], from)
<1> DEFINE covering(t) == {p \in P : Covers(p, t)}
           times == [i \in 1..Steps |-> from + (i - 1) * Res]
           covered == {t \in Range(times) : covering(t) # {}}
           priced == Filter(times, covered)
           body == [i \in 1..Len(priced) |->
                      [time |-> priced[i], rate |-> FirstOf(covering(priced[i])).rate]]
           price == [t \in Int |-> RatesAt(P, t)]
<1>0. Steps \in Nat /\ Res \in Nat /\ Contents(P, from) = body
  BY TariffAssumption DEF Contents
<1>1. times \in Seq(Int) /\ Len(times) = Steps
      /\ \A i \in 1..Steps : times[i] = from + (i - 1) * Res /\ times[i] \in Int
  <2>1. \A i \in 1..Steps : from + (i - 1) * Res \in Int
    BY <1>0
  <2>2. times \in [1..Steps -> Int]
    BY <2>1
  <2>. QED BY <1>0, <2>1, <2>2
<1>2. \A i \in 1..Steps : times[i] \in covered <=> covering(times[i]) # {}
  <2>1. \A i \in 1..Steps : times[i] \in Range(times)
    BY DEF Range
  <2>. QED BY <2>1
<1>. HIDE DEF times, covered
<1>3. priced \in Seq(Int) /\ PlacesOf(priced, times, Steps, covered) # {}
  BY <1>1, FilterPlaces
<1>. HIDE DEF priced
<1>4. PICK place \in [1..Len(priced) -> 1..Steps] :
        /\ \A i \in 1..Len(priced) : priced[i] = times[place[i]] /\ times[place[i]] \in covered
        /\ \A i, j \in 1..Len(priced) : i < j => place[i] < place[j]
        /\ \A k \in 1..Steps : times[k] \in covered => \E i \in 1..Len(priced) : place[i] = k
  BY <1>3 DEF PlacesOf
<1>5. ASSUME NEW i \in 1..Len(priced)
      PROVE  /\ priced[i] \in Int /\ covering(priced[i]) # {}
             /\ FirstOf(covering(priced[i])) \in covering(priced[i])
             /\ FirstOf(covering(priced[i])).rate \in Int
             /\ FirstOf(covering(priced[i])).rate \in RatesAt(P, priced[i])
  <2>1. place[i] \in 1..Steps /\ priced[i] = times[place[i]]
    BY <1>4
  <2>2. priced[i] \in Int /\ covering(priced[i]) # {}
    BY <2>1, <1>1, <1>2, <1>4
  <2>3. covering(priced[i]) \in SUBSET Period /\ Bounded(covering(priced[i]))
    BY DEF Bounded
  <2>4. FirstOf(covering(priced[i])) \in covering(priced[i])
    <3> DEFINE C == covering(priced[i])
    <3>1. C \in SUBSET Period /\ C # {} /\ Bounded(C)
      BY <2>2, <2>3
    <3>. HIDE DEF C
    <3>2. FirstOf(C) \in C
      BY <3>1, FirstOfMember
    <3>. QED BY <3>2 DEF C
  <2>5. FirstOf(covering(priced[i])).rate \in Int
        /\ FirstOf(covering(priced[i])).rate \in RatesAt(P, priced[i])
    BY <2>4, PeriodFields DEF RatesAt
  <2>. QED BY <2>2, <2>4, <2>5
<1>6. Len(priced) \in Nat
  BY <1>3
<1>7. body \in Seq(Line) /\ DOMAIN body = 1..Len(priced)
      /\ \A i \in 1..Len(priced) :
           /\ body[i].time = priced[i]
           /\ body[i].rate = FirstOf(covering(priced[i])).rate
  <2>1. \A i \in 1..Len(priced) :
          [time |-> priced[i], rate |-> FirstOf(covering(priced[i])).rate] \in Line
    BY <1>5 DEF Line
  <2>2. body \in [1..Len(priced) -> Line]
    BY <2>1
  <2>3. \A i \in 1..Len(priced) : body[i] = [time |-> priced[i],
                                            rate |-> FirstOf(covering(priced[i])).rate]
    OBVIOUS
  <2>. HIDE DEF body
  <2>4. body \in Seq(Line) /\ DOMAIN body = 1..Len(priced)
    BY <1>6, <2>2, ListOf
  <2>. QED BY <2>3, <2>4
<1>. HIDE DEF body
<1>8. {body[i].time : i \in DOMAIN body} =
        {t \in {from + k * Res : k \in 0..Steps - 1} : price[t] # {}}
  <2>1. ASSUME NEW i \in 1..Len(priced)
        PROVE  \E k \in 0..Steps - 1 : body[i].time = from + k * Res /\ price[body[i].time] # {}
    <3>1. place[i] \in 1..Steps /\ place[i] - 1 \in 0..Steps - 1
      BY <1>4, <1>0
    <3>2. body[i].time = from + (place[i] - 1) * Res /\ body[i].time \in Int
      <4>1. body[i].time = priced[i] /\ priced[i] = times[place[i]]
        BY <1>4, <1>7
      <4>2. times[place[i]] = from + (place[i] - 1) * Res /\ times[place[i]] \in Int
        BY <3>1, <1>1
      <4>. QED BY <4>1, <4>2
    <3>3. price[body[i].time] # {}
      BY <3>2, <1>5, <1>7
    <3>. QED BY <3>1, <3>2, <3>3
  <2>2. ASSUME NEW k \in 0..Steps - 1, price[from + k * Res] # {}
        PROVE  \E i \in 1..Len(priced) : body[i].time = from + k * Res
    <3>1. k + 1 \in 1..Steps /\ (k + 1) - 1 = k /\ from + k * Res \in Int
      BY <1>0
    <3>2. times[k + 1] = from + k * Res
      BY <3>1, <1>1
    <3>3. covering(times[k + 1]) # {}
      BY <3>1, <3>2, <2>2 DEF RatesAt
    <3>4. PICK i \in 1..Len(priced) : place[i] = k + 1
      BY <3>1, <3>3, <1>2, <1>4
    <3>5. body[i].time = priced[i] /\ priced[i] = times[k + 1]
      BY <3>4, <1>4, <1>7
    <3>. QED BY <3>2, <3>5
  <2>. HIDE DEF price
  <2> DEFINE T == {t \in {from + k * Res : k \in 0..Steps - 1} : price[t] # {}}
  <2>3. ASSUME NEW i \in DOMAIN body PROVE body[i].time \in T
    BY <2>1, <2>3, <1>7
  <2>4. ASSUME NEW t \in T PROVE \E i \in DOMAIN body : t = body[i].time
    <3>1. PICK k \in 0..Steps - 1 : t = from + k * Res
      BY <2>4
    <3>2. price[from + k * Res] # {}
      BY <3>1, <2>4
    <3>. QED BY <3>1, <3>2, <2>2, <1>7
  <2>. HIDE DEF T
  <2>5. {body[i].time : i \in DOMAIN body} = T
    BY <2>3, <2>4
  <2>. QED BY <2>5 DEF T
<1>9. \A i \in DOMAIN body : body[i].rate \in price[body[i].time]
  BY <1>5, <1>7
<1>10. ASSUME NEW i \in DOMAIN body, NEW j \in DOMAIN body, i < j
       PROVE  body[i].time < body[j].time
  <2>1. i \in 1..Len(priced) /\ j \in 1..Len(priced)
    BY <1>7
  <2>2. place[i] < place[j] /\ place[i] \in 1..Steps /\ place[j] \in 1..Steps
    BY <1>4, <1>10, <2>1
  <2>3. /\ body[i].time = from + (place[i] - 1) * Res
        /\ body[j].time = from + (place[j] - 1) * Res
    BY <2>1, <2>2, <1>1, <1>4, <1>7
  <2>4. place[i] \in Int /\ place[j] \in Int
    BY <2>2
  <2>. QED BY <2>2, <2>3, <2>4, StepsAscend
<1>. HIDE DEF price
<1>11. IsBody(body, price, from)
  BY <1>7, <1>8, <1>9, <1>10 DEF IsBody
<1>. QED BY <1>0, <1>11 DEF price

\* The next full step is the only time in the step after t that is a full one.
LEMMA NextBoundaryIs ==
  ASSUME NEW at \in Nat
  PROVE  /\ NextBoundary(at) \in Nat
         /\ \A t \in Int : IsNextStep(t, at) <=> t = NextBoundary(at)
         /\ NextBoundary(at) <= at + Res
<1>1. Res \in Nat /\ Res > 0
  BY TariffAssumption
<1> DEFINE q == at \div Res
           r == at % Res
<1>2. q \in Nat /\ r \in Nat /\ r < Res /\ at = Res * q + r
  BY <1>1
<1>3. NextBoundary(at) = Res * (q + 1)
  BY <1>1, <1>2 DEF NextBoundary
<1>. HIDE DEF q, r
<1>4. Res * (q + 1) \in Nat /\ Res * (q + 1) = Res * q + Res /\ Res * q \in Nat
  BY <1>1, <1>2
<1>5. (Res * (q + 1)) % Res = 0
  BY <1>1, <1>2
<1>6. ASSUME NEW t \in Int, t > at, t <= at + Res, t % Res = 0
      PROVE  t = Res * (q + 1)
  <2> DEFINE k == t \div Res
  <2>1. k \in Int /\ t = Res * k
    BY <1>1, <1>6
  <2>. HIDE DEF k
  <2>2. Res * k > Res * q
    BY <2>1, <1>1, <1>2, <1>4, <1>6
  <2>3. k > q
    BY <2>1, <2>2, <1>1, <1>2
  <2>4. Res * k < Res * (q + 2)
    BY <2>1, <1>1, <1>2, <1>4, <1>6
  <2>5. k < q + 2
    BY <2>1, <2>4, <1>1, <1>2
  <2>6. k = q + 1
    BY <2>1, <2>3, <2>5, <1>2
  <2>. QED BY <2>1, <2>6
<1>7. at < Res * (q + 1) /\ Res * (q + 1) <= at + Res
  BY <1>1, <1>2, <1>4
<1>. QED BY <1>3, <1>4, <1>5, <1>6, <1>7 DEF IsNextStep

-----------------------------------------------------------------------------
CallType == [pc : Pcs, at : 0..Until, fetched : SUBSET Period, kept : SUBSET Period,
             todo : SUBSET Period, periods : SUBSET Period, body : Seq(Line)]

(***************************************************************************)
(* The inductive invariant of one call: which fields are still empty at    *)
(* which line, that a session is free, and that the periods are the        *)
(* fetched ones with the sessions no longer to do cut out.                 *)
(***************************************************************************)
CallInv(k) ==
  /\ WellFormed(k.fetched) /\ WellFormed(k.periods) /\ WellFormed(k.kept)
  /\ Bounded(k.periods)
  /\ k.todo \subseteq k.kept
  /\ \A s \in k.kept : s.rate = 0 /\ s.from <= s.to
  /\ k.pc \in {"idle", "fetch"} => k.kept = {} /\ k.todo = {}
  /\ k.pc \in {"create", "write"} => k.todo = {}
  /\ k.pc = "sessions" => k.periods = k.fetched
  /\ k.pc \in {"inject", "create", "write"} =>
       \A t \in Int : RatesAt(k.periods, t) = Expected(k.fetched, k.kept \ k.todo, t)
  /\ k.pc = "write" =>
       IsBody(k.body, [t \in Int |-> RatesAt(k.periods, t)], NextBoundary(k.at))

IInv ==
  /\ now \in 0..Until
  /\ call \in [Callers -> CallType]
  /\ \A c \in Callers : CallInv(call[c])

\* A call that does nothing satisfies the invariant.
LEMMA IdleInv == Idle \in CallType /\ CallInv(Idle)
<1>1. WellFormed({})
  BY DEF WellFormed
<1>2. 0 \in 0..Until /\ <<>> \in Seq(Line)
  BY TariffAssumption
<1>3. Idle \in CallType
  BY <1>2 DEF Idle, CallType, Pcs
<1>4. Bounded({})
  <2>1. 0 \in Int
    OBVIOUS
  <2> QED BY <2>1 DEF Bounded
<1> QED BY <1>1, <1>3, <1>4 DEF CallInv, Idle

\* With no session cut out the tariff is the fetched one.
LEMMA NothingInjected ==
  ASSUME NEW P, NEW t
  PROVE  Expected(P, {}, t) = RatesAt(P, t)
  BY DEF Expected

\* The sessions that are kept become free periods with an end after their start.
LEMMA KeptFree ==
  ASSUME NEW events \in Events
  PROVE  WellFormed(Kept(events)) /\ \A s \in Kept(events) : s.rate = 0 /\ s.from <= s.to
<1>1. ASSUME NEW e \in events
      PROVE  /\ FreePeriod(e) \in Period
             /\ FreePeriod(e).from < FreePeriod(e).to
             /\ FreePeriod(e).from <= FreePeriod(e).to
             /\ FreePeriod(e).rate = 0
  BY TariffAssumption DEF FreePeriod, Local, Event, Period
<1> QED BY <1>1 DEF Kept, WellFormed

\* A step of one call leaves the others alone.
LEMMA OneCall ==
  ASSUME NEW c \in Callers, NEW k \in CallType, CallInv(k), IInv,
         call' = [call EXCEPT ![c] = k], now' = now
  PROVE  IInv'
  BY DEF IInv

\* Initially no call is under way.
LEMMA InitInv == Init => IInv
  BY TariffAssumption, IdleInv DEF Init, IInv

\* Every step of a call, and the passing of time, preserves the invariant.
LEMMA StepInv == IInv /\ [Next]_vars => IInv'
<1> SUFFICES ASSUME IInv, [Next]_vars PROVE IInv'
  OBVIOUS
<1>0. ASSUME NEW c \in Callers
      PROVE  call[c] \in CallType /\ CallInv(call[c])
  BY DEF IInv
<1>1. ASSUME NEW c \in Callers, Generate(c) PROVE IInv'
  <2> DEFINE k == [call[c] EXCEPT !.pc = "fetch", !.at = now]
  <2>0. now \in 0..Until
    BY DEF IInv
  <2>1. k \in CallType
    BY <1>0, <2>0 DEF CallType, Pcs
  <2>2. /\ k.pc = "fetch" /\ k.kept = {} /\ k.todo = {}
        /\ k.fetched = call[c].fetched /\ k.periods = call[c].periods
    BY <1>0, <1>1 DEF CallType, CallInv, Generate
  <2>3. CallInv(k)
    <3>1. k.pc \notin {"sessions", "inject", "create", "write"}
      BY <2>2
    <3>2. WellFormed(k.kept) /\ WellFormed(k.fetched) /\ WellFormed(k.periods)
          /\ Bounded(k.periods)
      BY <1>0, <2>2 DEF CallInv, WellFormed
    <3> QED BY <2>2, <3>1, <3>2 DEF CallInv
  <2> QED BY <1>1, <2>1, <2>3, OneCall DEF Generate
<1>2. ASSUME NEW c \in Callers, Fetch(c) PROVE IInv'
  <2>1. CASE call' = [call EXCEPT ![c] = Idle]
    BY <1>2, <2>1, IdleInv, OneCall DEF Fetch
  <2>2. ASSUME NEW P \in Answers,
               call' = [call EXCEPT ![c].pc = IF Account THEN "sessions" ELSE "create",
                                    ![c].fetched = P, ![c].periods = P]
        PROVE  IInv'
    <3> DEFINE k == [call[c] EXCEPT !.pc = IF Account THEN "sessions" ELSE "create",
                                    !.fetched = P, !.periods = P]
    <3>0. WellFormed(P) /\ P \in SUBSET Period /\ Bounded(P)
      BY TariffAssumption, FiniteBounded DEF WellFormed
    <3>1. k \in CallType
      BY <1>0, <3>0 DEF CallType, Pcs
    <3>2. k.fetched = P /\ k.periods = P /\ k.kept = {} /\ k.todo = {}
      BY <1>0, <1>2 DEF CallType, CallInv, Fetch
    <3>3. CallInv(k)
      <4>1. WellFormed(k.kept) /\ k.todo \subseteq k.kept /\ k.kept \ k.todo = {}
        BY <3>2 DEF WellFormed
      <4>2. \A t \in Int : RatesAt(k.periods, t) = Expected(k.fetched, k.kept \ k.todo, t)
        BY <3>2, <4>1, NothingInjected
      <4>3. k.pc \notin {"idle", "fetch", "write"}
        BY <1>0 DEF CallType
      <4> QED BY <3>0, <3>2, <4>1, <4>2, <4>3 DEF CallInv
    <3> QED BY <1>2, <2>2, <3>1, <3>3, OneCall DEF Fetch
  <2> QED BY <1>2, <2>1, <2>2 DEF Fetch, Return
<1>3. ASSUME NEW c \in Callers, FetchSavingSessions(c) PROVE IInv'
  <2>1. CASE call' = [call EXCEPT ![c] = Idle]
    BY <1>3, <2>1, IdleInv, OneCall DEF FetchSavingSessions
  <2>2. ASSUME NEW events \in Events,
               call' = [call EXCEPT ![c].pc = "inject",
                                    ![c].kept = Kept(events), ![c].todo = Kept(events)]
        PROVE  IInv'
    <3> DEFINE k == [call[c] EXCEPT !.pc = "inject", !.kept = Kept(events), !.todo = Kept(events)]
    <3>0. /\ WellFormed(Kept(events))
          /\ \A s \in Kept(events) : s.rate = 0 /\ s.from <= s.to
      BY KeptFree
    <3>1. k \in CallType
      BY <1>0, <3>0 DEF CallType, Pcs, WellFormed
    <3>2. /\ k.pc = "inject" /\ k.kept = Kept(events) /\ k.todo = Kept(events)
          /\ k.fetched = call[c].fetched /\ k.periods = call[c].periods
          /\ call[c].periods = call[c].fetched
          /\ WellFormed(call[c].fetched) /\ Bounded(call[c].periods)
      BY <1>0, <1>3 DEF CallType, CallInv, FetchSavingSessions
    <3>3. CallInv(k)
      <4>1. k.kept \ k.todo = {}
        BY <3>2
      <4> QED BY <3>0, <3>2, <4>1, NothingInjected DEF CallInv
    <3> QED BY <1>3, <2>2, <3>1, <3>3, OneCall DEF FetchSavingSessions
  <2> QED BY <1>3, <2>1, <2>2 DEF FetchSavingSessions, Return
<1>4. ASSUME NEW c \in Callers, Inject(c) PROVE IInv'
  <2>1. ASSUME NEW s \in call[c].todo,
               call' = [call EXCEPT ![c].todo = @ \ {s},
                                    ![c].periods = InjectTariffPeriod(@, s)]
        PROVE  IInv'
    <3> DEFINE Q == InjectTariffPeriod(call[c].periods, s)
               k == [call[c] EXCEPT !.todo = @ \ {s}, !.periods = InjectTariffPeriod(@, s)]
    <3>1. /\ s \in Period /\ s.rate = 0 /\ s \in call[c].kept /\ s.from <= s.to
          /\ call[c].periods \in SUBSET Period /\ Bounded(call[c].periods)
      BY <1>0, <2>1 DEF CallType, CallInv
    <3>2. Q \in SUBSET Period
      BY <3>1, InjectType
    <3>3. k \in CallType
      BY <1>0, <3>2 DEF CallType
    <3>4. /\ k.pc = "inject" /\ call[c].pc = "inject"
          /\ k.kept = call[c].kept /\ k.fetched = call[c].fetched
          /\ k.todo = call[c].todo \ {s} /\ k.periods = Q
      BY <1>0, <1>4 DEF CallType, Inject
    <3>5. WellFormed(Q)
      <4>1. WellFormed(call[c].periods) /\ WellFormed({s})
        BY <1>0, <3>1 DEF CallInv, WellFormed
      <4> QED BY <4>1, InjectWellFormed
    <3>6. ASSUME NEW t \in Int
          PROVE  RatesAt(k.periods, t) = Expected(k.fetched, k.kept \ k.todo, t)
      <4>1. RatesAt(call[c].periods, t) = Expected(call[c].fetched, call[c].kept \ call[c].todo, t)
        BY <1>0, <3>4 DEF CallInv
      <4>2. k.kept \ k.todo = (call[c].kept \ call[c].todo) \cup {s}
        BY <3>1, <3>4
      <4> QED BY <3>1, <3>4, <4>1, <4>2, ExpectedStep
    <3>9. Bounded(Q)
      BY <3>1, InjectBounded
    <3>7. CallInv(k)
      BY <1>0, <3>4, <3>5, <3>6, <3>9 DEF CallInv
    <3>8. now' = now /\ call' = [call EXCEPT ![c] = k]
      BY <1>0, <1>4, <2>1 DEF Inject, IInv
    <3> HIDE DEF k
    <3> QED BY <3>3, <3>7, <3>8, OneCall
  <2>2. CASE call[c].todo = {} /\ Goto(c, "create")
    <3>0. call' = [call EXCEPT ![c] = [call[c] EXCEPT !.pc = "create"]]
      BY <1>0, <2>2 DEF Goto, IInv
    <3> DEFINE k == [call[c] EXCEPT !.pc = "create"]
    <3>1. k \in CallType
      BY <1>0 DEF CallType, Pcs
    <3>2. CallInv(k)
      <4>1. /\ k.pc = "create" /\ call[c].pc = "inject" /\ k.todo = {} /\ call[c].todo = {}
            /\ k.kept = call[c].kept /\ k.fetched = call[c].fetched
            /\ k.periods = call[c].periods
        BY <1>0, <1>4, <2>2 DEF CallType, Inject
      <4> QED BY <1>0, <4>1 DEF CallInv
    <3> QED BY <1>4, <3>0, <3>1, <3>2, OneCall DEF Inject
  <2> QED BY <1>4, <2>1, <2>2 DEF Inject
<1>5. ASSUME NEW c \in Callers, Create(c) PROVE IInv'
  <2>1. CASE call' = [call EXCEPT ![c] = Idle]
    BY <1>5, <2>1, IdleInv, OneCall DEF Create
  <2>2. CASE call' = [call EXCEPT ![c].pc = "write",
                        ![c].body = Contents(call[c].periods, NextBoundary(call[c].at))]
    <3> DEFINE body == Contents(call[c].periods, NextBoundary(call[c].at))
               k == [call[c] EXCEPT !.pc = "write", !.body = body]
    <3>0. call[c].at \in Nat /\ call[c].periods \in SUBSET Period /\ Bounded(call[c].periods)
      <4>1. call[c].at \in 0..Until /\ call[c].periods \in SUBSET Period
        BY <1>0 DEF CallType
      <4>2. Until \in Nat
        BY TariffAssumption
      <4>3. call[c].at \in Nat
        BY <4>1, <4>2
      <4>4. Bounded(call[c].periods)
        BY <1>0 DEF CallInv
      <4> QED BY <4>1, <4>3, <4>4
    <3>1. IsBody(body, [t \in Int |-> RatesAt(call[c].periods, t)], NextBoundary(call[c].at))
      <4>1. NextBoundary(call[c].at) \in Int
        BY <3>0, NextBoundaryIs
      <4> QED BY <3>0, <4>1, ContentsIsBody
    <3>5. body \in Seq(Line)
      BY <3>1 DEF IsBody
    <3>. HIDE DEF body
    <3>2. k \in CallType
      BY <1>0, <3>5 DEF CallType, Pcs
    <3>3. /\ k.pc = "write" /\ k.body = body /\ k.at = call[c].at /\ k.kept = call[c].kept /\ k.fetched = call[c].fetched
          /\ k.todo = call[c].todo /\ k.periods = call[c].periods
      BY <1>0 DEF CallType
    <3>4. CallInv(k)
      BY <1>0, <1>5, <3>1, <3>3 DEF CallInv, Create
    <3>6. now' = now /\ call' = [call EXCEPT ![c] = k]
      BY <1>0, <1>5, <2>2 DEF Create, IInv, body
    <3>. HIDE DEF k
    <3> QED BY <3>2, <3>4, <3>6, OneCall
  <2> QED BY <1>5, <2>1, <2>2 DEF Create, Return
<1>6. ASSUME NEW c \in Callers, Write(c) PROVE IInv'
  BY <1>6, IdleInv, OneCall DEF Write, Return
<1>7. CASE Crash
  BY <1>7, IdleInv DEF Crash, IInv
<1>8. CASE Tick
  BY <1>8, TariffAssumption DEF Tick, IInv
<1>9. CASE UNCHANGED vars
  BY <1>9 DEF vars, IInv
<1> QED BY <1>1, <1>2, <1>3, <1>4, <1>5, <1>6, <1>7, <1>8, <1>9 DEF Next

(***************************************************************************)
(* For every tariff the API answers with and every set of sessions: at any *)
(* moment of the loop the tariff is free in the sessions already cut out   *)
(* and the fetched one elsewhere.                                          *)
(***************************************************************************)
THEOREM SessionsInjectedAlways == Spec => []SessionsInjected
<1>1. IInv => SessionsInjected
  <2> SUFFICES ASSUME IInv, NEW t \in Horizon
               PROVE  InjectedExactly(t)
    BY DEF SessionsInjected
  <2>1. t \in Int
    BY TariffAssumption DEF Horizon
  <2> QED BY <2>1 DEF IInv, CallInv, InjectedExactly
<1> QED BY <1>1, InitInv, StepInv, PTL DEF Spec

(***************************************************************************)
(* The same at every time, and not only up to the horizon that a run       *)
(* writes: InjectTariffPeriod disturbs no price far ahead either.          *)
(***************************************************************************)
THEOREM InjectedEverywhere == Spec => [](\A t \in Int : InjectedExactly(t))
<1>1. IInv => \A t \in Int : InjectedExactly(t)
  BY DEF IInv, CallInv, InjectedExactly
<1> QED BY <1>1, InitInv, StepInv, PTL DEF Spec

-----------------------------------------------------------------------------
(***************************************************************************)
(* The lines a call writes are the day's steps that have a price, from the *)
(* next full one on, each at the tariff's price with the sessions free.    *)
(***************************************************************************)
THEOREM TariffAlwaysCorrect == Spec => []TariffCorrect
<1>1. IInv => TariffCorrect
  <2> SUFFICES ASSUME IInv, NEW c \in Callers, call[c].pc = "write"
               PROVE  LET body  == call[c].body
                          price(t) == Expected(call[c].fetched, call[c].kept, t)
                          first == CHOOSE t \in Horizon : IsNextStep(t, call[c].at)
                      IN /\ {line.time : line \in {body[i] : i \in DOMAIN body}} =
                              {t \in {first + k * Res : k \in 0..Steps - 1} : price(t) # {}}
                         /\ \A i \in DOMAIN body : body[i].rate \in price(body[i].time)
                         /\ \A i, j \in DOMAIN body : i < j => body[i].time < body[j].time
    BY DEF TariffCorrect
  <2> DEFINE body == call[c].body
             from == NextBoundary(call[c].at)
             price == [t \in Int |-> RatesAt(call[c].periods, t)]
             first == CHOOSE t \in Horizon : IsNextStep(t, call[c].at)
             expected(t) == Expected(call[c].fetched, call[c].kept, t)
  <2>1. call[c].at \in 0..Until /\ body \in Seq(Line) /\ IsBody(body, price, from)
    BY DEF IInv, CallInv, CallType
  <2>2. \A t \in Int : price[t] = expected(t)
    <3>1. call[c].kept \ call[c].todo = call[c].kept
      BY DEF IInv, CallInv
    <3> QED BY <3>1 DEF IInv, CallInv
  <2>3. call[c].at \in Nat /\ call[c].at <= Until
    <3>1. Until \in Nat
      BY TariffAssumption
    <3> QED BY <2>1, <3>1
  <2>. HIDE DEF body, price
  <2>4. first = from /\ from \in Int
    <3>1. from \in Nat /\ from <= call[c].at + Res
      BY <2>3, NextBoundaryIs
    <3>2. from \in Horizon
      <4>1. /\ Until \in Nat /\ Steps \in Nat /\ Res \in Nat
            /\ (Steps + 1) * Res = Steps * Res + Res /\ Steps * Res \in Nat
        BY TariffAssumption
      <4>2. from <= Until + (Steps + 1) * Res
        BY <2>3, <3>1, <4>1
      <4>. HIDE DEF from
      <4> QED BY <3>1, <4>1, <4>2 DEF Horizon
    <3>3. Horizon \subseteq Int
      BY DEF Horizon
    <3>4. \A t \in Horizon : IsNextStep(t, call[c].at) <=> t = from
      BY <2>3, <3>3, NextBoundaryIs
    <3>. HIDE DEF from
    <3> QED BY <3>1, <3>2, <3>4
  <2>. HIDE DEF from, first
  <2>5. \A i \in DOMAIN body : body[i].time \in Int
    <3>1. \A i \in DOMAIN body : body[i] \in Line
      BY <2>1, ElementOf
    <3> QED BY <3>1 DEF Line
  <2>6. /\ {body[i].time : i \in DOMAIN body} =
             {t \in {from + k * Res : k \in 0..Steps - 1} : price[t] # {}}
        /\ \A i \in DOMAIN body : body[i].rate \in price[body[i].time]
        /\ \A i, j \in DOMAIN body : i < j => body[i].time < body[j].time
    BY <2>1 DEF IsBody
  <2>7. \A k \in 0..Steps - 1 : from + k * Res \in Int
    BY <2>4, TariffAssumption
  <2>8. {t \in {from + k * Res : k \in 0..Steps - 1} : price[t] # {}} =
          {t \in {from + k * Res : k \in 0..Steps - 1} : expected(t) # {}}
    BY <2>2, <2>7
  <2>9. {line.time : line \in {body[i] : i \in DOMAIN body}} = {body[i].time : i \in DOMAIN body}
    OBVIOUS
  <2>10. \A i \in DOMAIN body : body[i].rate \in expected(body[i].time)
    BY <2>2, <2>5, <2>6
  <2>. HIDE DEF expected
  <2>11. /\ {line.time : line \in {body[i] : i \in DOMAIN body}} =
              {t \in {first + k * Res : k \in 0..Steps - 1} : expected(t) # {}}
         /\ \A i \in DOMAIN body : body[i].rate \in expected(body[i].time)
         /\ \A i, j \in DOMAIN body : i < j => body[i].time < body[j].time
    BY <2>4, <2>6, <2>8, <2>9, <2>10
  <2> QED BY <2>11 DEF body, first, expected
<1> QED BY <1>1, InitInv, StepInv, PTL DEF Spec

-----------------------------------------------------------------------------
(***************************************************************************)
(* The inductive invariant of the file: unless two calls had it open       *)
(* together, one call at most has, and the file is empty until it writes.  *)
(***************************************************************************)
FileInv ==
  /\ left \in Nat /\ shared \in BOOLEAN
  /\ file \in Seq(Line) /\ written \in Seq(Line)
  /\ ~shared =>
       /\ IsPrefix(file, written)
       /\ \A c, d \in Callers : call[c].pc = "write" /\ call[d].pc = "write" => c = d
       /\ \A c \in Callers : call[c].pc = "write" => file = <<>>

\* The empty file is the beginning of any.
LEMMA EmptyPrefix ==
  ASSUME NEW E, NEW list \in Seq(E)
  PROVE  IsPrefix(<<>>, list)
<1>1. Len(<<>>) = 0 /\ Len(list) \in Nat /\ SubSeq(<<>>, 1, 0) = SubSeq(list, 1, 0)
  OBVIOUS
<1> QED BY <1>1 DEF IsPrefix

\* What a write puts in an empty file is the beginning of what it was to put there.
LEMMA WrittenPrefix ==
  ASSUME NEW E, NEW body \in Seq(E), NEW n \in 0..Len(body), file = <<>>
  PROVE  IsPrefix(Written(SubSeq(body, 1, n)), body)
<1> DEFINE lines == SubSeq(body, 1, n)
<1>1. lines \in Seq(E) /\ Len(lines) = n /\ n \in Nat /\ n <= Len(body)
      /\ \A i \in 1..n : lines[i] = body[i]
  OBVIOUS
<1>2. SubSeq(file, n + 1, 0) = <<>> /\ Len(file) = 0
  BY <1>1
<1>3. Written(lines) = lines
  <2>. HIDE DEF lines
  <2> QED BY <1>1, <1>2 DEF Written
<1>4. SubSeq(lines, 1, n) = SubSeq(body, 1, n)
  BY <1>1
<1>. HIDE DEF lines
<1> QED BY <1>1, <1>3, <1>4 DEF IsPrefix, lines

\* What a write leaves in the file is lines.
LEMMA WrittenType ==
  ASSUME NEW E, NEW lines \in Seq(E), file \in Seq(E)
  PROVE  Written(lines) \in Seq(E)
<1>1. SubSeq(file, Len(lines) + 1, Len(file)) \in Seq(E)
  OBVIOUS
<1> QED BY <1>1 DEF Written

LEMMA InitFile == Init => FileInv
<1>1. <<>> \in Seq(Line)
  OBVIOUS
<1>2. IsPrefix(<<>>, <<>>)
  BY <1>1, EmptyPrefix
<1>3. Init => \A c \in Callers : call[c].pc # "write"
  BY DEF Init, Idle
<1> QED BY <1>1, <1>2, <1>3, TariffAssumption DEF Init, FileInv

LEMMA StepFile == IInv /\ FileInv /\ [Next]_vars => FileInv'
<1> SUFFICES ASSUME IInv, FileInv, [Next]_vars PROVE FileInv'
  OBVIOUS
<1>0. /\ \A c \in Callers : call[c] \in CallType
      /\ call \in [Callers -> CallType]
  BY DEF IInv
\* a step that neither opens nor writes the file
<1>1. ASSUME UNCHANGED <<file, written, shared>>, left' \in Nat,
             \A c \in Callers : call'[c].pc = "write" => call[c].pc = "write"
      PROVE  FileInv'
  BY <1>1 DEF FileInv
<1>2. left \in Nat
  BY DEF FileInv
<1>3. ASSUME NEW c \in Callers, Generate(c) PROVE FileInv'
  <2>1. \A d \in Callers : call'[d].pc = "write" => call[d].pc = "write"
    BY <1>0, <1>3 DEF Generate, CallType
  <2>2. left' \in Nat
    BY <1>2, <1>3 DEF Generate
  <2> QED BY <1>1, <1>3, <2>1, <2>2 DEF Generate
<1>4. ASSUME NEW c \in Callers, Fetch(c) PROVE FileInv'
  <2>1. \A d \in Callers : call'[d].pc = "write" => call[d].pc = "write"
    <3>1. CASE Return(c)
      BY <1>0, <3>1 DEF CallType, Return, Idle
    <3>2. ASSUME NEW P \in Answers,
                 call' = [call EXCEPT ![c].pc = IF Account THEN "sessions" ELSE "create",
                                      ![c].fetched = P, ![c].periods = P]
          PROVE  \A d \in Callers : call'[d].pc = "write" => call[d].pc = "write"
      BY <1>0, <3>2 DEF CallType
    <3> QED BY <1>4, <3>1, <3>2 DEF Fetch
  <2> QED BY <1>1, <1>2, <1>4, <2>1 DEF Fetch
<1>5. ASSUME NEW c \in Callers, FetchSavingSessions(c) PROVE FileInv'
  <2>1. \A d \in Callers : call'[d].pc = "write" => call[d].pc = "write"
    <3>1. CASE Return(c)
      BY <1>0, <3>1 DEF CallType, Return, Idle
    <3>2. ASSUME NEW events \in Events,
                 call' = [call EXCEPT ![c].pc = "inject",
                                      ![c].kept = Kept(events), ![c].todo = Kept(events)]
          PROVE  \A d \in Callers : call'[d].pc = "write" => call[d].pc = "write"
      BY <1>0, <3>2 DEF CallType
    <3> QED BY <1>5, <3>1, <3>2 DEF FetchSavingSessions
  <2> QED BY <1>1, <1>2, <1>5, <2>1 DEF FetchSavingSessions
<1>6. ASSUME NEW c \in Callers, Inject(c) PROVE FileInv'
  <2>1. \A d \in Callers : call'[d].pc = "write" => call[d].pc = "write"
    BY <1>0, <1>6 DEF Inject, CallType, Goto
  <2> QED BY <1>1, <1>2, <1>6, <2>1 DEF Inject
<1>7. ASSUME NEW c \in Callers, Create(c) PROVE FileInv'
  <2>1. CASE Return(c) /\ UNCHANGED <<file, shared>>
    <3>1. \A d \in Callers : call'[d].pc = "write" => call[d].pc = "write"
      BY <1>0, <2>1 DEF CallType, Return, Idle
    <3> QED BY <1>1, <1>2, <1>7, <2>1, <3>1 DEF Create
  <2>2. CASE /\ call' = [call EXCEPT ![c].pc = "write",
                                     ![c].body = Contents(call[c].periods, NextBoundary(call[c].at))]
             /\ file' = <<>>
             /\ shared' = (\E d \in Callers \ {c} : call[d].pc = "write")
    <3>1. \A d \in Callers \ {c} : call'[d] = call[d]
      BY <1>0, <2>2
    <3>2. <<>> \in Seq(Line) /\ written \in Seq(Line) /\ written' = written /\ left' = left
      BY <1>7 DEF Create, FileInv
    <3>3. IsPrefix(file', written')
      BY <2>2, <3>2, EmptyPrefix
    <3>4. shared' \in BOOLEAN
      BY <2>2
    <3>5. ~shared' => \A a, b \in Callers : call'[a].pc = "write" /\ call'[b].pc = "write" => a = b
      BY <2>2, <3>1
    <3> QED BY <1>2, <2>2, <3>2, <3>3, <3>4, <3>5 DEF FileInv
  <2> QED BY <1>7, <2>1, <2>2 DEF Create
<1>8. ASSUME NEW c \in Callers, Write(c) PROVE FileInv'
  <2> DEFINE body == call[c].body
  <2>1. body \in Seq(Line)
    BY <1>0 DEF CallType
  <2>2. PICK n \in 0..Len(body) : file' = Written(SubSeq(body, 1, n))
    BY <1>8 DEF Write
  <2>3. written' = body /\ shared' = shared /\ left' = left /\ call[c].pc = "write"
    BY <1>8 DEF Write
  <2>4. /\ call'[c].pc = "idle" /\ \A d \in Callers \ {c} : call'[d] = call[d]
    BY <1>0, <1>8 DEF Write, Return, Idle
  <2>. HIDE DEF body
  <2>5. file' \in Seq(Line)
    <3>1. SubSeq(body, 1, n) \in Seq(Line)
      BY <2>1
    <3> QED BY <2>2, <3>1, WrittenType DEF FileInv
  <2>6. ASSUME ~shared PROVE IsPrefix(file', written') /\ \A d \in Callers : call'[d].pc # "write"
    <3>1. file = <<>>
      BY <2>3, <2>6 DEF FileInv
    <3>2. IsPrefix(file', written')
      BY <2>1, <2>2, <2>3, <3>1, WrittenPrefix
    <3>3. \A d \in Callers \ {c} : call[d].pc # "write"
      BY <2>3, <2>6 DEF FileInv
    <3> QED BY <3>2, <3>3, <2>4
  <2> QED BY <2>1, <2>3, <2>5, <2>6 DEF FileInv
<1>9. CASE Crash
  <2>1. \A d \in Callers : call'[d].pc = "write" => call[d].pc = "write"
    BY <1>9 DEF Crash, Idle
  <2> QED BY <1>1, <1>2, <1>9, <2>1 DEF Crash
<1>10. CASE Tick
  BY <1>1, <1>2, <1>10 DEF Tick
<1>11. CASE UNCHANGED vars
  BY <1>1, <1>2, <1>11 DEF vars
<1> QED BY <1>3, <1>4, <1>5, <1>6, <1>7, <1>8, <1>9, <1>10, <1>11 DEF Next

(***************************************************************************)
(* Whatever calls overlap, fail or are lost in a crash: unless two had the *)
(* file open together, it is the beginning of what the last one to write   *)
(* meant it to be.                                                         *)
(***************************************************************************)
THEOREM WholeFileAlways == Spec => []WholeFile
<1>1. FileInv => WholeFile
  BY DEF FileInv, WholeFile
<1> QED BY <1>1, InitInv, StepInv, InitFile, StepFile, PTL DEF Spec

(***************************************************************************)
(* The types of the model, the file's and the calls' included: no period   *)
(* that InjectTariffPeriod leaves is empty or reversed, and nothing is cut *)
(* out that is not one of the account's sessions.                          *)
(***************************************************************************)
THEOREM TypeCorrect == Spec => []TypeOK
<1>1. IInv /\ FileInv => TypeOK
  <2> SUFFICES ASSUME IInv, FileInv PROVE TypeOK
    OBVIOUS
  <2>1. \A n \in 0..Until : n \in Nat
    BY TariffAssumption
  <2>2. now \in Nat
    BY <2>1 DEF IInv
  <2>3. call \in [Callers -> [pc : Pcs, at : Nat, fetched : SUBSET Period, kept : SUBSET Period,
                              todo : SUBSET Period, periods : SUBSET Period, body : Seq(Line)]]
    <3>1. call \in [Callers -> CallType]
      BY DEF IInv
    <3>2. \A c \in Callers :
            call[c] \in [pc : Pcs, at : Nat, fetched : SUBSET Period, kept : SUBSET Period,
                         todo : SUBSET Period, periods : SUBSET Period, body : Seq(Line)]
      BY <2>1, <3>1 DEF CallType
    <3> QED BY <3>1, <3>2
  <2>4. \A c \in Callers : WellFormed(call[c].periods) /\ call[c].todo \subseteq call[c].kept
    BY DEF IInv, CallInv
  <2> QED BY <2>2, <2>3, <2>4 DEF FileInv, TypeOK
<1> QED BY <1>1, InitInv, StepInv, InitFile, StepFile, PTL DEF Spec
=============================================================================
