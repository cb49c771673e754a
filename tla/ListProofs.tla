----------------------------- MODULE ListProofs -----------------------------
(***************************************************************************)
(* Lemmas about lists that several components' proofs need.  Induction     *)
(* over the length of a list is an argument by the least counterexample:   *)
(* a set of naturals that is not empty has a least element.                *)
(***************************************************************************)
EXTENDS Lists, Integers, WellFoundedInduction, TLAPS

\* A set of natural numbers that is not empty has a least element.
LEMMA LeastElement ==
  ASSUME NEW T, T \subseteq Nat, T # {}
  PROVE  \E n \in T : \A m \in T : n <= m
<1>1. IsWellFoundedOn(OpToRel(<, Nat), Nat)
  BY NatLessThanWellFounded
<1>2. PICK x \in T : \A y \in T : ~ (<<y, x>> \in OpToRel(<, Nat))
  BY <1>1, WFMin
<1>3. \A y \in T : <<y, x>> \in OpToRel(<, Nat) <=> y < x
  BY DEF OpToRel
<1>4. \A y \in T : x \in Nat /\ y \in Nat /\ ~(y < x)
  BY <1>2, <1>3
<1>. QED BY <1>4

\* What a set of numbers that has 0, and each number's successor up to n, has all of.
LEMMA UpTo ==
  ASSUME NEW n \in Nat, NEW T, 0 \in T,
         \A m \in 0..n : m # n /\ m \in T => m + 1 \in T
  PROVE  0..n \subseteq T
<1> DEFINE U == {m \in 0..n : m \notin T}
<1> SUFFICES ASSUME U # {} PROVE FALSE
  OBVIOUS
<1>1. PICK m \in U : \A k \in U : m <= k
  <2>1. U \subseteq Nat
    OBVIOUS
  <2>. HIDE DEF U
  <2>. QED BY <2>1, LeastElement
<1>2. m # 0 /\ m \in 0..n
  BY <1>1
<1>3. m - 1 \in 0..n /\ m - 1 # n /\ ~(m <= m - 1)
  BY <1>2
<1>4. m - 1 \in T
  BY <1>1, <1>3
<1>5. (m - 1) + 1 = m
  BY <1>2
<1>. QED BY <1>1, <1>3, <1>4, <1>5

(***************************************************************************)
(* A loop over a list is a recursive function: its value after each of the *)
(* n turns, where step[i] is what turn i makes of the value before it.     *)
(* Such a function exists, whatever the turns do.                          *)
(***************************************************************************)
IsLoop(f, E, n, first, step) ==
  f \in [0..n -> E] /\ f[0] = first /\ \A i \in 1..n : f[i] = step[i][f[i - 1]]

LEMMA Loop ==
  ASSUME NEW E, NEW n \in Nat, NEW first \in E, NEW step \in [1..n -> [E -> E]]
  PROVE  \E f : IsLoop(f, E, n, first, step)
<1> DEFINE Turns(f, m) == f[0] = first /\ \A i \in 1..m : f[i] = step[i][f[i - 1]]
           T == {m \in 0..n : \E f \in [0..m -> E] : Turns(f, m)}
<1>1. 0 \in T
  <2> DEFINE f == [i \in 0..0 |-> first]
  <2>1. f \in [0..0 -> E] /\ Turns(f, 0)
    OBVIOUS
  <2>. HIDE DEF f, Turns
  <2>. QED BY <2>1
<1>2. ASSUME NEW m \in 0..n, m # n, m \in T
      PROVE  m + 1 \in T
  <2>1. PICK f \in [0..m -> E] : Turns(f, m)
    BY <1>2
  <2>2. m \in 0..m /\ m + 1 \in 1..n /\ m + 1 \in 0..n /\ \A i \in 0..m + 1 : i = m + 1 \/ i \in 0..m
    BY <1>2
  <2> DEFINE g == [i \in 0..m + 1 |-> IF i = m + 1 THEN step[m + 1][f[m]] ELSE f[i]]
  <2>3. step[m + 1][f[m]] \in E
    BY <2>1, <2>2
  <2>4. g \in [0..m + 1 -> E]
    BY <2>1, <2>2, <2>3
  <2>5. \A i \in 0..m : i \in 0..m + 1 /\ i # m + 1 /\ g[i] = f[i]
    BY <2>2
  <2>6. g[m + 1] = step[m + 1][f[m]] /\ m = (m + 1) - 1
    BY <2>2
  <2>7. \A i \in 1..m : i \in 0..m /\ i - 1 \in 0..m
    BY <2>2
  <2>8. \A i \in 1..m + 1 : i = m + 1 \/ i \in 1..m
    BY <2>2
  <2>9. 0 \in 0..m
    BY <2>2
  <2>. HIDE DEF g
  <2>10. Turns(g, m + 1)
    BY <2>1, <2>2, <2>5, <2>6, <2>7, <2>8, <2>9
  <2>. HIDE DEF Turns
  <2>. QED BY <2>2, <2>4, <2>10
<1>3. 0..n \subseteq T
  <2>. HIDE DEF T
  <2>. QED BY <1>1, <1>2, UpTo
<1>4. n \in 0..n
  OBVIOUS
<1>5. PICK f \in [0..n -> E] : Turns(f, n)
  BY <1>3, <1>4
<1>. QED BY <1>5 DEF IsLoop

\* The elements of a list.
LEMMA ElementOf ==
  ASSUME NEW E, NEW list \in Seq(E)
  PROVE  Len(list) \in Nat /\ DOMAIN list = 1..Len(list) /\ \A i \in 1..Len(list) : list[i] \in E
OBVIOUS

\* A function on 1..n is a list of n elements.
LEMMA ListOf ==
  ASSUME NEW E, NEW n \in Nat, NEW f \in [1..n -> E]
  PROVE  f \in Seq(E) /\ Len(f) = n /\ DOMAIN f = 1..n
OBVIOUS

\* Two lists of the same elements are the same list.
LEMMA SameList ==
  ASSUME NEW E, NEW a \in Seq(E), NEW b \in Seq(E), Len(a) = Len(b),
         \A i \in 1..Len(a) : a[i] = b[i]
  PROVE  a = b
<1>1. a \in [1..Len(a) -> E] /\ b \in [1..Len(a) -> E]
  OBVIOUS
<1>. QED BY <1>1

\* The loop that Filter is: the list after each of its turns.
IsKept(f, list, S) ==
  f = [n \in 0..Len(list) |->
         IF n = 0 THEN <<>>
         ELSE IF list[n] \in S THEN Append(f[n - 1], list[n]) ELSE f[n - 1]]

LEMMA KeptExists ==
  ASSUME NEW E, NEW list \in Seq(E), NEW S
  PROVE  \E f : IsKept(f, list, S)
<1> DEFINE n == Len(list)
           Kept(i, kept) == IF list[i] \in S THEN Append(kept, list[i]) ELSE kept
           step == [i \in 1..n |-> [kept \in Seq(E) |-> Kept(i, kept)]]
<1>1. n \in Nat /\ \A i \in 1..n : list[i] \in E
  OBVIOUS
<1>2. \A i \in 1..n : \A kept \in Seq(E) : Kept(i, kept) \in Seq(E)
  BY <1>1
<1>3. step \in [1..n -> [Seq(E) -> Seq(E)]] /\ <<>> \in Seq(E)
  BY <1>2
<1>. HIDE DEF n, step
<1>4. PICK f : IsLoop(f, Seq(E), n, <<>>, step)
  BY <1>1, <1>3, Loop
<1>5. ASSUME NEW i \in 1..n
      PROVE  f[i] = Kept(i, f[i - 1])
  <2>1. i - 1 \in 0..n
    BY <1>1
  <2>. QED BY <1>4, <2>1 DEF step, IsLoop
<1>6. \A i \in 0..n : i = 0 \/ i \in 1..n
  BY <1>1
<1>7. \A i \in 0..n : f[i] = IF i = 0 THEN <<>> ELSE Kept(i, f[i - 1])
  BY <1>1, <1>4, <1>5, <1>6 DEF IsLoop
<1>8. f = [i \in 0..n |-> IF i = 0 THEN <<>> ELSE Kept(i, f[i - 1])]
  BY <1>4, <1>7 DEF IsLoop
<1>. QED BY <1>8 DEF IsKept, n

(***************************************************************************)
(* Filter keeps exactly the elements in S, each of its elements at a place *)
(* of the list, in the order of these places.                              *)
(***************************************************************************)
PlacesOf(kept, list, n, S) ==
  {place \in [1..Len(kept) -> 1..n] :
     /\ \A i \in 1..Len(kept) : kept[i] = list[place[i]] /\ list[place[i]] \in S
     /\ \A i, j \in 1..Len(kept) : i < j => place[i] < place[j]
     /\ \A k \in 1..n : list[k] \in S => \E i \in 1..Len(kept) : place[i] = k}

\* One more element that is in S.
LEMMA PlacesOfAppend ==
  ASSUME NEW E, NEW list \in Seq(E), NEW S, NEW n \in Nat, n + 1 <= Len(list),
         NEW kept \in Seq(E), NEW place \in PlacesOf(kept, list, n, S),
         list[n + 1] \in S
  PROVE  PlacesOf(Append(kept, list[n + 1]), list, n + 1, S) # {}
<1> DEFINE more == Append(kept, list[n + 1])
           further == [i \in 1..Len(kept) + 1 |-> IF i = Len(kept) + 1 THEN n + 1 ELSE place[i]]
<1>0. list[n + 1] \in E /\ Len(kept) \in Nat
  OBVIOUS
<1>1. /\ more \in Seq(E) /\ Len(more) = Len(kept) + 1
      /\ more[Len(kept) + 1] = list[n + 1]
      /\ \A i \in 1..Len(kept) : more[i] = kept[i]
  BY <1>0
<1>2. /\ place \in [1..Len(kept) -> 1..n]
      /\ \A i \in 1..Len(kept) : kept[i] = list[place[i]] /\ list[place[i]] \in S
      /\ \A i, j \in 1..Len(kept) : i < j => place[i] < place[j]
      /\ \A k \in 1..n : list[k] \in S => \E i \in 1..Len(kept) : place[i] = k
  BY DEF PlacesOf
<1>3. \A i \in 1..Len(kept) : further[i] = place[i] /\ place[i] \in 1..n /\ i # Len(kept) + 1
  <2> TAKE i \in 1..Len(kept)
  <2>1. i \in 1..Len(kept) + 1 /\ i # Len(kept) + 1
    BY <1>0
  <2>2. place[i] \in 1..n
    BY <1>2, Zenon
  <2>3. further[i] = place[i]
    BY <2>1
  <2>. QED BY <2>1, <2>2, <2>3
<1>4. further[Len(kept) + 1] = n + 1 /\ Len(kept) + 1 \in 1..Len(kept) + 1
  BY <1>0
<1>5. DOMAIN further = 1..Len(kept) + 1
  OBVIOUS
<1>6. \A i \in 1..Len(kept) + 1 : i = Len(kept) + 1 \/ i \in 1..Len(kept)
  BY <1>0
<1>7. further \in [1..Len(kept) + 1 -> 1..n + 1]
  <2>1. \A i \in 1..Len(kept) + 1 : (IF i = Len(kept) + 1 THEN n + 1 ELSE place[i]) \in 1..n + 1
    BY <1>2, <1>6
  <2>. QED BY <2>1
<1>. HIDE DEF more, further
<1>8. \A i \in 1..Len(more) : more[i] = list[further[i]] /\ list[further[i]] \in S
  BY <1>1, <1>2, <1>3, <1>4, <1>6
<1>9. \A i, j \in 1..Len(more) : i < j => further[i] < further[j]
  <2> SUFFICES ASSUME NEW i \in 1..Len(more), NEW j \in 1..Len(more), i < j
               PROVE  further[i] < further[j]
    OBVIOUS
  <2>1. i \in 1..Len(kept)
    BY <1>0, <1>1
  <2>2. CASE j = Len(kept) + 1
    BY <2>1, <2>2, <1>3, <1>4
  <2>3. CASE j \in 1..Len(kept)
    BY <2>1, <2>3, <1>2, <1>3
  <2>. QED BY <2>2, <2>3, <1>1, <1>6
<1>10. \A k \in 1..n + 1 : list[k] \in S => \E i \in 1..Len(more) : further[i] = k
  <2> SUFFICES ASSUME NEW k \in 1..n + 1, list[k] \in S
               PROVE  \E i \in 1..Len(more) : further[i] = k
    OBVIOUS
  <2>1. CASE k = n + 1
    BY <2>1, <1>1, <1>4
  <2>2. CASE k \in 1..n
    <3>1. PICK i \in 1..Len(kept) : place[i] = k
      BY <2>2, <1>2
    <3>. QED BY <3>1, <1>0, <1>1, <1>3
  <2>. QED BY <2>1, <2>2
<1>11. further \in PlacesOf(more, list, n + 1, S)
  BY <1>1, <1>7, <1>8, <1>9, <1>10 DEF PlacesOf
<1>. QED BY <1>11 DEF more

\* One more element that is not.
LEMMA PlacesOfSkip ==
  ASSUME NEW E, NEW list \in Seq(E), NEW S, NEW n \in Nat,
         NEW kept \in Seq(E), NEW place \in PlacesOf(kept, list, n, S),
         list[n + 1] \notin S
  PROVE  place \in PlacesOf(kept, list, n + 1, S)
<1>1. \A k \in 1..n + 1 : k = n + 1 \/ k \in 1..n
  OBVIOUS
<1>2. place \in [1..Len(kept) -> 1..n + 1]
  BY DEF PlacesOf
<1>. QED BY <1>1, <1>2 DEF PlacesOf

THEOREM FilterPlaces ==
  ASSUME NEW E, NEW list \in Seq(E), NEW S
  PROVE  /\ Filter(list, S) \in Seq(E)
         /\ PlacesOf(Filter(list, S), list, Len(list), S) # {}
<1> DEFINE kept == CHOOSE f : IsKept(f, list, S)
           T == {n \in 0..Len(list) : /\ kept[n] \in Seq(E)
                                      /\ PlacesOf(kept[n], list, n, S) # {}}
<1>1. IsKept(kept, list, S)
  BY KeptExists
<1>2. Filter(list, S) = kept[Len(list)]
  BY DEF Filter, IsKept
<1>3. Len(list) \in Nat
  OBVIOUS
<1>. HIDE DEF kept
<1>4. kept[0] = <<>>
  BY <1>1, <1>3 DEF IsKept
<1>5. \A n \in 0..Len(list) : n # Len(list) =>
        kept[n + 1] = IF list[n + 1] \in S THEN Append(kept[n], list[n + 1]) ELSE kept[n]
  <2> SUFFICES ASSUME NEW n \in 0..Len(list), n # Len(list)
               PROVE  kept[n + 1] = IF list[n + 1] \in S
                                    THEN Append(kept[n], list[n + 1]) ELSE kept[n]
    OBVIOUS
  <2>1. n + 1 \in 0..Len(list) /\ n + 1 # 0 /\ (n + 1) - 1 = n
    BY <1>3
  <2>2. \A m \in 0..Len(list) :
          kept[m] = IF m = 0 THEN <<>>
                    ELSE IF list[m] \in S THEN Append(kept[m - 1], list[m]) ELSE kept[m - 1]
    BY <1>1 DEF IsKept
  <2>. QED BY <2>1, <2>2
<1>6. 0 \in T
  <2> DEFINE none == [i \in 1..0 |-> 0]
  <2>1. /\ none \in [1..0 -> 1..0] /\ Len(<<>>) = 0
        /\ \A i \in 1..0 : FALSE
    OBVIOUS
  <2>. HIDE DEF none
  <2>2. none \in PlacesOf(<<>>, list, 0, S)
    BY <2>1 DEF PlacesOf
  <2>3. <<>> \in Seq(E)
    OBVIOUS
  <2>4. kept[0] \in Seq(E) /\ PlacesOf(kept[0], list, 0, S) # {} /\ 0 \in 0..Len(list)
    BY <2>2, <2>3, <1>3, <1>4
  <2>. QED BY <2>4
<1>7. ASSUME NEW n \in 0..Len(list), n # Len(list), n \in T
      PROVE  n + 1 \in T
  <2>1. kept[n] \in Seq(E) /\ n \in Nat /\ n + 1 \in 1..Len(list) /\ n + 1 <= Len(list)
    BY <1>7
  <2>2. PICK place : place \in PlacesOf(kept[n], list, n, S)
    BY <1>7
  <2>3. list[n + 1] \in E
    BY <2>1
  <2>4. CASE list[n + 1] \in S
    <3>1. kept[n + 1] = Append(kept[n], list[n + 1])
      BY <2>4, <1>5, <1>7
    <3>2. PlacesOf(kept[n + 1], list, n + 1, S) # {}
      BY <3>1, <2>1, <2>2, <2>4, PlacesOfAppend
    <3>3. kept[n + 1] \in Seq(E)
      BY <3>1, <2>1, <2>3
    <3>. QED BY <3>2, <3>3, <2>1
  <2>5. CASE list[n + 1] \notin S
    <3>1. kept[n + 1] = kept[n]
      BY <2>5, <1>5, <1>7
    <3>2. PlacesOf(kept[n], list, n + 1, S) # {}
      BY <2>1, <2>2, <2>5, PlacesOfSkip
    <3>. QED BY <3>1, <3>2, <2>1
  <2>. QED BY <2>4, <2>5
<1>8. Len(list) \in T
  <2>. HIDE DEF T
  <2>1. 0..Len(list) \subseteq T
    BY <1>3, <1>6, <1>7, UpTo
  <2>. QED BY <2>1, <1>3
<1>. QED BY <1>2, <1>8
=============================================================================
