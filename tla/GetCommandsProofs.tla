-------------------------- MODULE GetCommandsProofs --------------------------
(***************************************************************************)
(* GetCommands is correct for every optimisation, of any length.  The two  *)
(* loops, the least price and the running maximum of a block, are          *)
(* recursive functions; what they compute is proved by induction on the    *)
(* row, with the least counterexample (LeastElement, UpTo).                *)
(***************************************************************************)
EXTENDS GetCommands, ListProofs

RowsOK == rows \in Seq([cost : Costs, soc : Levels])

-----------------------------------------------------------------------------
\* The optimisation is a list of rows.
THEOREM TypeCorrect == Spec => []RowsOK
<1>1. Init => RowsOK
  BY DEF Init, RowsOK
<1>2. RowsOK /\ [Next]_rows => RowsOK'
  <2> SUFFICES ASSUME RowsOK, [Next]_rows PROVE RowsOK'
    OBVIOUS
  <2>1. CASE Next
    <3>1. PICK c \in Costs, s \in Levels : rows' = Append(rows, [cost |-> c, soc |-> s])
      BY <2>1 DEF Next, SelectRow
    <3>2. [cost |-> c, soc |-> s] \in [cost : Costs, soc : Levels]
      OBVIOUS
    <3>. QED BY <3>1, <3>2 DEF RowsOK
  <2>2. CASE UNCHANGED rows
    BY <2>2 DEF RowsOK
  <2>. QED BY <2>1, <2>2
<1>. QED BY <1>1, <1>2, PTL DEF Spec

LEMMA RowTypes ==
  ASSUME RowsOK
  PROVE  /\ Len(rows) \in Nat
         /\ \A i \in Hours : /\ rows[i].cost \in Int /\ rows[i].soc \in Int
                             /\ rows[i].soc >= 0 /\ i \in Nat /\ i >= 1 /\ i <= Len(rows)
<1>1. Len(rows) \in Nat /\ \A i \in Hours : rows[i] \in [cost : Costs, soc : Levels]
  BY ElementOf DEF RowsOK, Hours
<1>2. \A i \in Hours : rows[i].cost \in Costs /\ rows[i].soc \in Levels
  BY <1>1
<1>3. \A i \in Hours : rows[i].cost \in Int /\ rows[i].soc \in Int /\ rows[i].soc >= 0
  <2>1. \A l \in Levels : l \in Int /\ l >= 0
    BY PlanAssumption
  <2>. QED BY <1>2, <2>1, PlanAssumption
<1>4. \A i \in Hours : i \in Nat /\ i >= 1 /\ i <= Len(rows)
  BY <1>1 DEF Hours
<1>. QED BY <1>1, <1>3, <1>4

-----------------------------------------------------------------------------
(***************************************************************************)
(* The least price.                                                        *)
(***************************************************************************)
LeastTurn(f, i) ==
  IF i > 1 /\ ~Replaces(rows[i].cost, f[i - 1]) THEN f[i - 1] ELSE rows[i].cost

LeastOf == CHOOSE least : least = [i \in Hours |-> LeastTurn(least, i)]

\* The loop defines a function.
LEMMA LeastExists ==
  ASSUME RowsOK
  PROVE  LeastOf = [i \in Hours |-> LeastTurn(LeastOf, i)]
<1> DEFINE n == Len(rows)
           Turn(i, x) == IF i > 1 /\ ~Replaces(rows[i].cost, x) THEN x ELSE rows[i].cost
           step == [i \in 1..n |-> [x \in Int |-> Turn(i, x)]]
<1>1. n \in Nat /\ \A i \in 1..n : rows[i].cost \in Int
  BY RowTypes DEF Hours
<1>2. step \in [1..n -> [Int -> Int]] /\ 0 \in Int
  BY <1>1
<1>. HIDE DEF n, step
<1>3. PICK f : IsLoop(f, Int, n, 0, step)
  BY <1>1, <1>2, Loop
<1> DEFINE g == [i \in Hours |-> f[i]]
<1>4. ASSUME NEW i \in Hours
      PROVE  f[i] = Turn(i, f[i - 1]) /\ (i > 1 => g[i - 1] = f[i - 1])
  <2>1. i \in 1..n /\ i - 1 \in 0..n /\ (i > 1 => i - 1 \in Hours)
    BY <1>1 DEF Hours, n
  <2>2. f[i - 1] \in Int /\ f[i] = step[i][f[i - 1]]
    BY <1>3, <2>1 DEF IsLoop
  <2>. QED BY <2>1, <2>2 DEF step
<1>5. \A i \in Hours : f[i] = LeastTurn(g, i)
  <2>. HIDE DEF g
  <2>. QED BY <1>4 DEF LeastTurn
<1>6. g = [i \in Hours |-> LeastTurn(g, i)]
  BY <1>5
<1>. HIDE DEF g
<1>. QED BY <1>6 DEF LeastOf

LEMMA MinPriceIsLeast == MinPrice = LeastOf[Len(rows)]
  BY DEF MinPrice, LeastOf, LeastTurn

\* After each row, the least price is the cost of some row so far, and no paid
\* row so far costs less; it is free only if the first row is.
LEMMA LeastSoFar ==
  ASSUME RowsOK, NEW i \in Hours
  PROVE  /\ \E j \in 1..i : LeastOf[i] = rows[j].cost /\ (rows[1].cost # 0 => j \in Paid)
         /\ \A j \in 1..i : j \in Paid => LeastOf[i] <= rows[j].cost
<1> DEFINE Good(m) ==
             /\ \E j \in 1..m : LeastOf[m] = rows[j].cost /\ (rows[1].cost # 0 => j \in Paid)
             /\ \A j \in 1..m : j \in Paid => LeastOf[m] <= rows[j].cost
           T == {m \in 0..Len(rows) : m = 0 \/ Good(m)}
<1>0. /\ Len(rows) \in Nat
      /\ \A k \in Hours : rows[k].cost \in Int /\ k \in Nat /\ k >= 1 /\ k <= Len(rows)
      /\ \A k : k \in Nat /\ k >= 1 /\ k <= Len(rows) => k \in Hours
  BY RowTypes DEF Hours
<1>1. 0 \in T
  BY <1>0
<1>2. ASSUME NEW m \in 0..Len(rows), m # Len(rows), m \in T
      PROVE  m + 1 \in T
  <2>1. m \in Nat /\ m + 1 \in Hours /\ m + 1 \in 0..Len(rows)
    BY <1>0, <1>2
  <2>2. LeastOf[m + 1] = LeastTurn(LeastOf, m + 1)
    BY <2>1, LeastExists
  <2>3. CASE m = 0
    <3>1. LeastOf[1] = rows[1].cost /\ 1 \in Hours
      BY <2>2, <2>3, <2>1 DEF LeastTurn
    <3>2. \A j \in 1..1 : j = 1
      OBVIOUS
    <3>3. Good(1)
      BY <3>1, <3>2, <1>0 DEF Paid
    <3>. QED BY <3>3, <2>3, <2>1
  <2>4. CASE m # 0
    <3>0. m \in Hours /\ m + 1 > 1 /\ (m + 1) - 1 = m
      BY <2>4, <2>1, <1>0
    <3>1. PICK j \in 1..m : LeastOf[m] = rows[j].cost /\ (rows[1].cost # 0 => j \in Paid)
      BY <1>2, <2>4
    <3>2. \A k \in 1..m : k \in Paid => LeastOf[m] <= rows[k].cost
      BY <1>2, <2>4
    <3>3. /\ j \in Hours /\ j \in 1..m + 1 /\ m + 1 \in 1..m + 1
          /\ LeastOf[m] \in Int /\ rows[m + 1].cost \in Int
      BY <3>0, <3>1, <2>1, <1>0
    <3>4. \A k \in 1..m + 1 : (k \in 1..m \/ k = m + 1) /\ (k \in Paid => k \in Hours)
      BY <2>1 DEF Paid
    <3>5. LeastOf[m + 1] = IF ~Replaces(rows[m + 1].cost, LeastOf[m])
                           THEN LeastOf[m] ELSE rows[m + 1].cost
      BY <2>2, <3>0 DEF LeastTurn
    <3>6. CASE Replaces(rows[m + 1].cost, LeastOf[m])
      <4>1. LeastOf[m + 1] = rows[m + 1].cost /\ rows[m + 1].cost # 0
            /\ rows[m + 1].cost < LeastOf[m]
        BY <3>5, <3>6 DEF Replaces
      <4>2. m + 1 \in Paid
        BY <4>1, <2>1 DEF Paid
      <4>3. ASSUME NEW k \in 1..m + 1, k \in Paid PROVE LeastOf[m + 1] <= rows[k].cost
        <5>1. CASE k = m + 1
          BY <5>1, <4>1, <3>3
        <5>2. CASE k \in 1..m
          <6>1. LeastOf[m] <= rows[k].cost /\ rows[k].cost \in Int
            BY <5>2, <3>2, <4>3, <3>4, <1>0
          <6>. QED BY <6>1, <4>1, <3>3
        <5>. QED BY <5>1, <5>2, <3>4
      <4>. QED BY <4>1, <4>2, <4>3, <3>3, <2>1
    <3>7. CASE ~Replaces(rows[m + 1].cost, LeastOf[m])
      <4>1. LeastOf[m + 1] = LeastOf[m]
        BY <3>5, <3>7
      <4>2. m + 1 \in Paid => LeastOf[m] <= rows[m + 1].cost
        BY <3>7, <3>3 DEF Replaces, Paid
      <4>3. \A k \in 1..m + 1 : k \in Paid => LeastOf[m + 1] <= rows[k].cost
        BY <4>1, <4>2, <3>2, <3>4
      <4>. QED BY <4>1, <4>3, <3>1, <3>3, <2>1
    <3>. QED BY <3>6, <3>7
  <2>. QED BY <2>3, <2>4
<1>3. i \in T /\ i # 0
  <2>. HIDE DEF T
  <2>1. 0..Len(rows) \subseteq T
    BY <1>0, <1>1, <1>2, UpTo
  <2>. QED BY <2>1, <1>0
<1>. QED BY <1>3

\* The least price is some row's cost, no paid row costs less, and it is free
\* only if the first row is.
LEMMA MinPriceLeast ==
  ASSUME RowsOK, rows # <<>>
  PROVE  /\ \E j \in Hours : MinPrice = rows[j].cost /\ (rows[1].cost # 0 => j \in Paid)
         /\ \A j \in Paid : MinPrice <= rows[j].cost
<1>1. Len(rows) \in Hours
  BY DEF Hours, RowsOK
<1>2. \A j \in Paid : j \in Hours
  BY DEF Paid
<1>. QED BY <1>1, <1>2, LeastSoFar, MinPriceIsLeast DEF Hours

-----------------------------------------------------------------------------
(***************************************************************************)
(* The running maximum of a block of cheap hours.                          *)
(***************************************************************************)
SocTurn(f, i) ==
  IF i > 1 /\ Cheap(i) /\ Cheap(i - 1) /\ f[i - 1] > rows[i].soc
  THEN f[i - 1] ELSE rows[i].soc

\* The loop defines a function.
LEMMA MonotonicExists ==
  ASSUME RowsOK
  PROVE  Monotonic = [i \in Hours |-> SocTurn(Monotonic, i)]
<1> DEFINE n == Len(rows)
           Turn(i, x) == IF i > 1 /\ Cheap(i) /\ Cheap(i - 1) /\ x > rows[i].soc THEN x ELSE rows[i].soc
           step == [i \in 1..n |-> [x \in Int |-> Turn(i, x)]]
<1>1. n \in Nat /\ \A i \in 1..n : rows[i].soc \in Int
  BY RowTypes DEF Hours
<1>2. step \in [1..n -> [Int -> Int]] /\ 0 \in Int
  BY <1>1
<1>. HIDE DEF n, step
<1>3. PICK f : IsLoop(f, Int, n, 0, step)
  BY <1>1, <1>2, Loop
<1> DEFINE g == [i \in Hours |-> f[i]]
<1>4. ASSUME NEW i \in Hours
      PROVE  f[i] = Turn(i, f[i - 1]) /\ (i > 1 => g[i - 1] = f[i - 1])
  <2>1. i \in 1..n /\ i - 1 \in 0..n /\ (i > 1 => i - 1 \in Hours)
    BY <1>1 DEF Hours, n
  <2>2. f[i - 1] \in Int /\ f[i] = step[i][f[i - 1]]
    BY <1>3, <2>1 DEF IsLoop
  <2>. QED BY <2>1, <2>2 DEF step
<1>5. \A i \in Hours : f[i] = SocTurn(g, i)
  <2>. HIDE DEF g
  <2>. QED BY <1>4 DEF SocTurn
<1>6. g = [i \in Hours |-> SocTurn(g, i)]
  BY <1>5
<1>. HIDE DEF g
<1> DEFINE soc == CHOOSE h : h = [i \in Hours |-> SocTurn(h, i)]
<1>7. Monotonic = soc
  BY DEF Monotonic, SocTurn
<1>8. soc = [i \in Hours |-> SocTurn(soc, i)]
  BY <1>6
<1>. HIDE DEF soc
<1>. QED BY <1>7, <1>8

\* The running maximum is some hour's level, of the block if the hour is cheap,
\* and no hour of the block so far wants more.
LEMMA MonotonicSoFar ==
  ASSUME RowsOK, NEW i \in Hours
  PROVE  /\ \E j \in 1..i : Monotonic[i] = rows[j].soc /\ (Cheap(i) => SameBlock(j, i))
         /\ \A j \in 1..i : SameBlock(j, i) => rows[j].soc <= Monotonic[i]
<1> DEFINE Good(m) ==
             /\ \E j \in 1..m : Monotonic[m] = rows[j].soc /\ (Cheap(m) => SameBlock(j, m))
             /\ \A j \in 1..m : SameBlock(j, m) => rows[j].soc <= Monotonic[m]
           T == {m \in 0..Len(rows) : m = 0 \/ Good(m)}
<1>0. /\ Len(rows) \in Nat
      /\ \A k \in Hours : rows[k].soc \in Int /\ k \in Nat /\ k >= 1 /\ k <= Len(rows)
      /\ \A k : k \in Nat /\ k >= 1 /\ k <= Len(rows) => k \in Hours
  BY RowTypes DEF Hours
<1>1. 0 \in T
  BY <1>0
<1>2. ASSUME NEW m \in 0..Len(rows), m # Len(rows), m \in T
      PROVE  m + 1 \in T
  <2>1. m \in Nat /\ m + 1 \in Hours /\ m + 1 \in 0..Len(rows)
    BY <1>0, <1>2
  <2>2. Monotonic[m + 1] = SocTurn(Monotonic, m + 1)
    BY <2>1, MonotonicExists
  <2>3. \A k \in 1..m + 1 : (k \in 1..m \/ k = m + 1) /\ k \in Hours /\ rows[k].soc \in Int
    BY <2>1, <1>0
  <2>4. \A k \in (m + 1)..(m + 1) : k = m + 1
    BY <2>1
  <2>5. Cheap(m + 1) => SameBlock(m + 1, m + 1)
    BY <2>4 DEF SameBlock
  <2>6. ASSUME NEW k \in 1..m
        PROVE  SameBlock(k, m + 1) <=> SameBlock(k, m) /\ Cheap(m + 1)
    <3>1. \A h : h \in k..m + 1 <=> h \in k..m \/ h = m + 1
      BY <2>1, <2>6
    <3>. QED BY <3>1 DEF SameBlock
  <2>7. CASE m = 0
    <3>1. Monotonic[1] = rows[1].soc /\ 1 \in Hours
      BY <2>2, <2>7, <2>1 DEF SocTurn
    <3>2. \A k \in 1..1 : k = 1
      OBVIOUS
    <3>3. Cheap(1) => SameBlock(1, 1)
      BY <2>5, <2>7
    <3>4. 1 \in 1..1 /\ rows[1].soc <= Monotonic[1]
      BY <3>1, <1>0
    <3>5. Good(1)
      BY <3>1, <3>2, <3>3, <3>4
    <3>. QED BY <3>5, <2>7, <2>1
  <2>8. CASE m # 0
    <3>0. m \in Hours /\ m + 1 > 1 /\ (m + 1) - 1 = m /\ m \in 1..m /\ m + 1 \in 1..m + 1
      BY <2>8, <2>1, <1>0
    <3>1. PICK j \in 1..m : Monotonic[m] = rows[j].soc /\ (Cheap(m) => SameBlock(j, m))
      BY <1>2, <2>8
    <3>2. \A k \in 1..m : SameBlock(k, m) => rows[k].soc <= Monotonic[m]
      BY <1>2, <2>8
    <3>3. j \in 1..m + 1 /\ Monotonic[m] \in Int /\ rows[m + 1].soc \in Int
      BY <3>0, <3>1, <2>1, <2>3
    <3>4. Monotonic[m + 1] =
            IF Cheap(m + 1) /\ Cheap(m) /\ Monotonic[m] > rows[m + 1].soc
            THEN Monotonic[m] ELSE rows[m + 1].soc
      BY <2>2, <3>0 DEF SocTurn
    <3>5. CASE Cheap(m + 1) /\ Cheap(m) /\ Monotonic[m] > rows[m + 1].soc
      <4>1. Monotonic[m + 1] = rows[j].soc /\ SameBlock(j, m + 1)
        BY <3>1, <3>4, <3>5, <2>6
      <4>2. ASSUME NEW k \in 1..m + 1, SameBlock(k, m + 1)
            PROVE  rows[k].soc <= Monotonic[m + 1]
        <5>1. CASE k = m + 1
          BY <5>1, <3>3, <3>4, <3>5
        <5>2. CASE k \in 1..m
          BY <5>2, <4>2, <2>6, <3>2, <3>4, <3>5
        <5>. QED BY <5>1, <5>2, <2>3
      <4>3. Good(m + 1)
        BY <4>1, <4>2, <3>3
      <4>. QED BY <4>3, <2>1
    <3>6. CASE ~(Cheap(m + 1) /\ Cheap(m) /\ Monotonic[m] > rows[m + 1].soc)
      <4>1. Monotonic[m + 1] = rows[m + 1].soc
        BY <3>4, <3>6
      <4>2. ASSUME NEW k \in 1..m + 1, SameBlock(k, m + 1)
            PROVE  rows[k].soc <= Monotonic[m + 1]
        <5>1. CASE k = m + 1
          BY <5>1, <4>1, <3>3
        <5>2. CASE k \in 1..m
          <6>1. SameBlock(k, m) /\ Cheap(m + 1)
            BY <5>2, <4>2, <2>6
          <6>2. m \in k..m
            BY <5>2
          <6>3. Cheap(m)
            BY <6>1, <6>2 DEF SameBlock
          <6>4. ~(Monotonic[m] > rows[m + 1].soc) /\ rows[k].soc <= Monotonic[m]
            BY <6>1, <6>3, <5>2, <3>2, <3>6
          <6>. QED BY <6>4, <4>1, <3>3, <2>3
        <5>. QED BY <5>1, <5>2, <2>3
      <4>3. Good(m + 1)
        BY <4>1, <4>2, <3>0, <2>5
      <4>. QED BY <4>3, <2>1
    <3>. QED BY <3>5, <3>6
  <2>. QED BY <2>7, <2>8
<1>3. i \in T /\ i # 0
  <2>. HIDE DEF T
  <2>1. 0..Len(rows) \subseteq T
    BY <1>0, <1>1, <1>2, UpTo
  <2>. QED BY <2>1, <1>0
<1>. QED BY <1>3

\* The one-pass maximum with its look-ahead is the maximum over the block so
\* far and the next hour.
LEMMA TargetIsMost ==
  ASSUME RowsOK, NEW i \in Hours, Cheap(i)
  PROVE  /\ TargetSoc(i) \in Wanted(i) /\ TargetSoc(i) \in Int
         /\ \A s \in Wanted(i) : s <= TargetSoc(i)
<1>1. PICK j \in 1..i : Monotonic[i] = rows[j].soc /\ SameBlock(j, i)
  BY MonotonicSoFar
<1>2. \A k \in 1..i : SameBlock(k, i) => rows[k].soc <= Monotonic[i]
  BY MonotonicSoFar
<1>3. /\ Len(rows) \in Nat /\ i \in Nat /\ i >= 1 /\ i <= Len(rows)
      /\ \A k \in Hours : rows[k].soc \in Int
  BY RowTypes
<1>4. \A k \in 1..i : k \in Hours
  BY <1>3 DEF Hours
<1>5. Monotonic[i] \in Int /\ Monotonic[i] \in Wanted(i)
  BY <1>1, <1>3, <1>4 DEF Wanted
<1>6. i + 1 \in Hours <=> i # Len(rows)
  BY <1>3 DEF Hours
<1>7. i # Len(rows) => rows[i + 1].soc \in Int /\ rows[i + 1].soc \in Wanted(i)
  BY <1>3, <1>6 DEF Wanted
<1>8. TargetSoc(i) \in Int /\ Monotonic[i] <= TargetSoc(i)
      /\ (i # Len(rows) => rows[i + 1].soc <= TargetSoc(i))
  BY <1>5, <1>7 DEF TargetSoc
<1>9. TargetSoc(i) \in Wanted(i)
  BY <1>5, <1>7 DEF TargetSoc
<1>10. ASSUME NEW s \in Wanted(i) PROVE s <= TargetSoc(i)
  <2>1. (\E k \in 1..i : SameBlock(k, i) /\ s = rows[k].soc)
        \/ (i + 1 \in Hours /\ s = rows[i + 1].soc)
    BY <1>10 DEF Wanted
  <2>2. CASE \E k \in 1..i : SameBlock(k, i) /\ s = rows[k].soc
    BY <2>2, <1>2, <1>3, <1>4, <1>5, <1>8
  <2>3. CASE i + 1 \in Hours /\ s = rows[i + 1].soc
    BY <2>3, <1>6, <1>8
  <2>. QED BY <2>1, <2>2, <2>3
<1>. QED BY <1>8, <1>9, <1>10

-----------------------------------------------------------------------------
\* An hour charges exactly when it is cheap and more than the minimum is wanted.
LEMMA WhoCharges ==
  ASSUME NEW i \in Hours
  PROVE  i \in Charging <=> Cheap(i) /\ TargetSoc(i) # Minimum
<1>1. BatteryFirst # LoadFirst
  <2>1. BatteryFirst.mode # LoadFirst.mode
    BY DEF BatteryFirst, LoadFirst
  <2>. QED BY <2>1
<1>2. Commands[i] = Command(i)
  BY DEF Commands
<1>3. i \in Charging <=> Command(i).do = BatteryFirst
  BY <1>2 DEF Charging
<1>4. CASE ~Cheap(i)
  BY <1>1, <1>3, <1>4 DEF Command
<1>5. CASE Cheap(i) /\ TargetSoc(i) = Minimum
  BY <1>1, <1>3, <1>5 DEF Command
<1>6. CASE Cheap(i) /\ TargetSoc(i) # Minimum
  BY <1>1, <1>3, <1>6 DEF Command
<1>. QED BY <1>4, <1>5, <1>6

\* The level of a cheap hour's command is the hour's target level.
LEMMA CheapCommand ==
  ASSUME NEW i \in Hours, Cheap(i)
  PROVE  /\ Commands[i].soc = TargetSoc(i)
         /\ TargetSoc(i) # Minimum => Commands[i].target = TargetSoc(i)
BY DEF Commands, Command

\* Charging only in a free hour or in one of the cheapest that are paid for.
THEOREM ChargesOnlyWhenCheapHolds == Spec => []ChargesOnlyWhenCheap
<1>1. RowsOK => ChargesOnlyWhenCheap
  <2> SUFFICES ASSUME RowsOK, NEW i \in Charging PROVE i \in Cheapest \/ i \notin Paid
    BY DEF ChargesOnlyWhenCheap
  <2>1. i \in Hours /\ Cheap(i)
    BY WhoCharges DEF Charging
  <2>2. rows # <<>>
    BY <2>1, RowTypes DEF Hours
  <2>3. rows[i].cost = 0 \/ rows[i].cost = MinPrice
    BY <2>1 DEF Cheap
  <2>4. CASE rows[i].cost = 0
    BY <2>4 DEF Paid
  <2>5. CASE rows[i].cost = MinPrice
    BY <2>1, <2>2, <2>5, MinPriceLeast DEF Cheapest
  <2>. QED BY <2>3, <2>4, <2>5
<1>. QED BY <1>1, TypeCorrect, PTL

\* An hour that charges goes as high as the block so far and the next hour want.
THEOREM MeetsOptimisationHolds == Spec => []MeetsOptimisation
<1>1. RowsOK => MeetsOptimisation
  <2> SUFFICES ASSUME RowsOK, NEW i \in Charging
               PROVE  /\ Commands[i].soc \in Wanted(i)
                      /\ \A s \in Wanted(i) : s <= Commands[i].soc
                      /\ Commands[i].target = Commands[i].soc
    BY DEF MeetsOptimisation
  <2>1. i \in Hours
    BY DEF Charging
  <2>2. Cheap(i) /\ TargetSoc(i) # Minimum
    BY <2>1, WhoCharges
  <2>. QED BY <2>1, <2>2, CheapCommand, TargetIsMost
<1>. QED BY <1>1, TypeCorrect, PTL

\* The stop-discharge level never falls from one hour of a block to the next.
THEOREM NeverLowersInBlockHolds == Spec => []NeverLowersInBlock
<1>1. RowsOK => NeverLowersInBlock
  <2> SUFFICES ASSUME RowsOK, NEW i \in Hours, i > 1, SameBlock(i - 1, i)
               PROVE  Commands[i - 1].soc <= Commands[i].soc
    BY DEF NeverLowersInBlock
  <2>1. /\ Len(rows) \in Nat /\ i \in Nat /\ i <= Len(rows)
        /\ \A k \in Hours : rows[k].soc \in Int
    BY RowTypes
  <2>2. i - 1 \in Hours /\ i \in Hours
    BY <2>1 DEF Hours
  <2>3. i - 1 \in (i - 1)..i /\ i \in (i - 1)..i /\ i - 1 # Len(rows) /\ (i - 1) + 1 = i
    BY <2>1
  <2>4. Cheap(i - 1) /\ Cheap(i)
    BY <2>3 DEF SameBlock
  <2>5. Commands[i - 1].soc = TargetSoc(i - 1) /\ Commands[i].soc = TargetSoc(i)
    BY <2>2, <2>4, CheapCommand
  <2>6. /\ TargetSoc(i - 1) \in Wanted(i - 1) /\ TargetSoc(i) \in Int
        /\ \A s \in Wanted(i) : s <= TargetSoc(i)
    BY <2>2, <2>4, TargetIsMost
  <2>7. Wanted(i - 1) \subseteq Wanted(i)
    <3> SUFFICES ASSUME NEW s \in Wanted(i - 1) PROVE s \in Wanted(i)
      OBVIOUS
    <3>1. (\E k \in 1..i - 1 : SameBlock(k, i - 1) /\ s = rows[k].soc) \/ s = rows[i].soc
      BY <2>3 DEF Wanted
    <3>2. \A k \in 1..i - 1 : k \in 1..i /\ (SameBlock(k, i - 1) => SameBlock(k, i))
      <4> SUFFICES ASSUME NEW k \in 1..i - 1, SameBlock(k, i - 1)
                   PROVE  SameBlock(k, i)
        BY <2>1
      <4>1. \A h \in k..i : h \in k..i - 1 \/ h = i
        BY <2>1
      <4>. QED BY <4>1, <2>4 DEF SameBlock
    <3>3. i \in 1..i /\ SameBlock(i, i)
      <4>1. \A h \in i..i : h = i
        BY <2>1
      <4>2. i \in 1..i
        BY <2>1
      <4>. QED BY <4>1, <4>2, <2>4 DEF SameBlock
    <3>. QED BY <3>1, <3>2, <3>3 DEF Wanted
  <2>. QED BY <2>5, <2>6, <2>7
<1>. QED BY <1>1, TypeCorrect, PTL

\* The cheapest paid hours charge or want no more than the minimum, or they cost
\* something and the optimisation begins with a free hour.
THEOREM CheapestHoursChargeHolds == Spec => []CheapestHoursCharge
<1>1. RowsOK => CheapestHoursCharge
  <2> SUFFICES ASSUME RowsOK, NEW i \in Cheapest, ~Hidden(i)
               PROVE  i \in Charging \/ TargetSoc(i) = Minimum
    BY DEF CheapestHoursCharge
  <2>1. i \in Paid /\ i \in Hours /\ \A j \in Paid : rows[i].cost <= rows[j].cost
    BY DEF Cheapest, Paid
  <2>2. rows # <<>>
    BY <2>1, RowTypes DEF Hours
  <2>3. PICK j \in Hours : MinPrice = rows[j].cost /\ j \in Paid
    <3>1. PICK j \in Hours : MinPrice = rows[j].cost /\ (rows[1].cost # 0 => j \in Paid)
      BY <2>2, MinPriceLeast
    <3>2. rows[j].cost \in Int /\ rows[i].cost \in Int /\ rows[j].cost <= rows[i].cost
      BY <2>1, <2>2, <3>1, RowTypes, MinPriceLeast
    <3>3. rows[1].cost = 0 => rows[j].cost # 0
      BY <2>1, <3>2 DEF Hidden, Paid
    <3> QED BY <3>1, <3>3 DEF Paid
  <2>4. MinPrice <= rows[i].cost /\ rows[i].cost <= MinPrice
    BY <2>1, <2>2, <2>3, MinPriceLeast
  <2>5. MinPrice \in Int /\ rows[i].cost \in Int
    BY <2>1, <2>3, RowTypes
  <2>6. Cheap(i)
    BY <2>4, <2>5 DEF Cheap
  <2>. QED BY <2>1, <2>6, WhoCharges
<1>. QED BY <1>1, TypeCorrect, PTL
=============================================================================
