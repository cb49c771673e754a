--------------------------- MODULE FileStoreProofs ---------------------------
(***************************************************************************)
(* The file store keeps what a store promises: for any files, clients and  *)
(* keys, whatever writes fail and wherever the program stops.              *)
(***************************************************************************)
EXTENDS FileStore, ListProofs

-----------------------------------------------------------------------------
(***************************************************************************)
(* The lines of a file as a table.                                         *)
(***************************************************************************)
LineOf(K) == [key : K, val : Values]

Distinct(lines) == \A i, j \in DOMAIN lines : lines[i].key = lines[j].key => i = j

\* A line is a key and a value.
LEMMA LineFields ==
  /\ \A k, v : Line(k, v).key = k /\ Line(k, v).val = v
  /\ \A K : \A k \in K, v \in Values : Line(k, v) \in LineOf(K)
  /\ \A K : \A l \in LineOf(K) : l.key \in K /\ l.val \in Values
BY DEF Line, LineOf

\* A key that the lines have has a first line.
LEMMA PositionOfKey ==
  ASSUME NEW E, NEW lines \in Seq(E), NEW k, Has(lines, k)
  PROVE  PositionOf(lines, k) \in DOMAIN lines /\ lines[PositionOf(lines, k)].key = k
<1> DEFINE T == {i \in 1..Len(lines) : lines[i].key = k}
<1>1. DOMAIN lines = 1..Len(lines) /\ Len(lines) \in Nat
  BY ElementOf
<1>2. T \subseteq Nat /\ T # {}
  BY <1>1 DEF Has
<1>3. PICK i \in T : \A j \in T : i <= j
  <2>. HIDE DEF T
  <2>. QED BY <1>2, LeastElement
<1>4. \A j \in 1..(i - 1) : lines[j].key # k
  <2> SUFFICES ASSUME NEW j \in 1..(i - 1), lines[j].key = k PROVE FALSE
    OBVIOUS
  <2>1. j \in T /\ ~(i <= j)
    BY <1>1, <1>3
  <2>. QED BY <1>3, <2>1
<1>5. i \in DOMAIN lines /\ lines[i].key = k /\ \A j \in 1..(i - 1) : lines[j].key # k
  BY <1>1, <1>3, <1>4
<1>. HIDE DEF T
<1>. QED BY <1>5 DEF PositionOf

\* When no two lines have one key, the value of a key is that of its line.
LEMMA ValueOfLine ==
  ASSUME NEW E, NEW lines \in Seq(E), Distinct(lines), NEW i \in DOMAIN lines
  PROVE  ValueOf(lines, lines[i].key) = lines[i].val
<1>1. Has(lines, lines[i].key)
  BY DEF Has
<1>2. PositionOf(lines, lines[i].key) = i
  BY <1>1, PositionOfKey DEF Distinct
<1>. QED BY <1>1, <1>2 DEF ValueOf

\* A key that no line has has no value.
LEMMA NoLine ==
  ASSUME NEW lines, NEW k, \A i \in DOMAIN lines : lines[i].key # k
  PROVE  ValueOf(lines, k) = NoValue /\ ~Has(lines, k)
BY DEF ValueOf, Has

\* The values of a file of lines.
LEMMA ValueType ==
  ASSUME NEW K, NEW lines \in Seq(LineOf(K)), NEW k, Has(lines, k)
  PROVE  k \in K /\ ValueOf(lines, k) \in Values
<1>1. PositionOf(lines, k) \in DOMAIN lines /\ lines[PositionOf(lines, k)].key = k
  BY PositionOfKey
<1>2. lines[PositionOf(lines, k)] \in LineOf(K)
  BY <1>1, ElementOf
<1>. QED BY <1>1, <1>2, LineFields DEF ValueOf

\* Put gives one key a value, in a line of its own, and leaves the other keys alone.
LEMMA PutIs ==
  ASSUME NEW K, NEW lines \in Seq(LineOf(K)), Distinct(lines), NEW k \in K, NEW v \in Values
  PROVE  /\ Put(lines, k, v) \in Seq(LineOf(K)) /\ Distinct(Put(lines, k, v))
         /\ \A j : ValueOf(Put(lines, k, v), j) = IF j = k THEN v ELSE ValueOf(lines, j)
<1> DEFINE new == Put(lines, k, v)
           p == PositionOf(lines, k)
<1>0. DOMAIN lines = 1..Len(lines) /\ Len(lines) \in Nat /\ Line(k, v) \in LineOf(K)
      /\ Line(k, v).key = k /\ Line(k, v).val = v
  BY ElementOf, LineFields
<1>1. CASE Has(lines, k)
  <2>1. p \in DOMAIN lines /\ lines[p].key = k
    BY <1>1, PositionOfKey
  <2>2. new = [lines EXCEPT ![p] = Line(k, v)]
    BY <1>1 DEF Put
  <2>3. new \in Seq(LineOf(K)) /\ DOMAIN new = DOMAIN lines
    BY <1>0, <2>1, <2>2
  <2>4. new[p] = Line(k, v) /\ \A i \in DOMAIN lines : i # p => new[i] = lines[i]
    BY <2>1, <2>2
  <2>. HIDE DEF new, p
  <2>5. \A i \in DOMAIN lines : new[i].key = lines[i].key
    BY <1>0, <2>1, <2>4
  <2>6. Distinct(new)
    BY <2>3, <2>5 DEF Distinct
  <2>7. ASSUME NEW j PROVE ValueOf(new, j) = IF j = k THEN v ELSE ValueOf(lines, j)
    <3>1. CASE j = k
      BY <3>1, <1>0, <2>1, <2>3, <2>4, <2>6, ValueOfLine
    <3>2. CASE j # k /\ Has(lines, j)
      <4>1. PICK i \in DOMAIN lines : lines[i].key = j
        BY <3>2 DEF Has
      <4>2. i # p /\ new[i] = lines[i]
        BY <3>2, <4>1, <2>1, <2>4
      <4>3. ValueOf(new, j) = new[i].val /\ ValueOf(lines, j) = lines[i].val
        BY <4>1, <4>2, <2>3, <2>6, ValueOfLine
      <4>. QED BY <3>2, <4>2, <4>3
    <3>3. CASE j # k /\ ~Has(lines, j)
      <4>1. ~Has(new, j)
        BY <3>3, <2>3, <2>5 DEF Has
      <4>. QED BY <3>3, <4>1 DEF ValueOf
    <3>. QED BY <3>1, <3>2, <3>3
  <2>. QED BY <2>3, <2>6, <2>7 DEF new
<1>2. CASE ~Has(lines, k)
  <2>1. new = Append(lines, Line(k, v))
    BY <1>2 DEF Put
  <2>2. /\ new \in Seq(LineOf(K)) /\ DOMAIN new = 1..Len(lines) + 1
        /\ new[Len(lines) + 1] = Line(k, v) /\ \A i \in 1..Len(lines) : new[i] = lines[i]
    BY <1>0, <2>1
  <2>. HIDE DEF new
  <2>3. \A i \in DOMAIN new : i = Len(lines) + 1 \/ i \in 1..Len(lines)
    BY <1>0, <2>2
  <2>4. \A i \in 1..Len(lines) : new[i].key # k /\ i \in DOMAIN new /\ i # Len(lines) + 1
    BY <1>0, <1>2, <2>2 DEF Has
  <2>5. Len(lines) + 1 \in DOMAIN new /\ new[Len(lines) + 1].key = k
        /\ new[Len(lines) + 1].val = v
    BY <1>0, <2>2
  <2>6. Distinct(new)
    BY <1>0, <2>2, <2>3, <2>4, <2>5 DEF Distinct
  <2>7. ASSUME NEW j PROVE ValueOf(new, j) = IF j = k THEN v ELSE ValueOf(lines, j)
    <3>1. CASE j = k
      BY <3>1, <2>2, <2>5, <2>6, ValueOfLine
    <3>2. CASE j # k /\ Has(lines, j)
      <4>1. PICK i \in 1..Len(lines) : lines[i].key = j
        BY <1>0, <3>2 DEF Has
      <4>2. ValueOf(new, j) = new[i].val
        BY <4>1, <2>2, <2>4, <2>6, ValueOfLine
      <4>3. ValueOf(lines, j) = lines[i].val
        BY <4>1, <1>0, ValueOfLine
      <4>. QED BY <3>2, <4>1, <4>2, <4>3, <2>2
    <3>3. CASE j # k /\ ~Has(lines, j)
      <4>1. ~Has(new, j)
        BY <3>3, <1>0, <2>2, <2>3, <2>5 DEF Has
      <4>. QED BY <3>3, <4>1 DEF ValueOf
    <3>. QED BY <3>1, <3>2, <3>3
  <2>. QED BY <2>2, <2>6, <2>7 DEF new
<1>. QED BY <1>1, <1>2

\* Without takes the keys away and leaves the others with their values.
LEMMA WithoutIs ==
  ASSUME NEW K, NEW lines \in Seq(LineOf(K)), Distinct(lines), NEW J
  PROVE  /\ Without(lines, J) \in Seq(LineOf(K)) /\ Distinct(Without(lines, J))
         /\ \A j : ValueOf(Without(lines, J), j) =
                     IF j \in J THEN NoValue ELSE ValueOf(lines, j)
<1> DEFINE S == {line \in Range(lines) : line.key \notin J}
           new == Filter(lines, S)
<1>0. DOMAIN lines = 1..Len(lines) /\ Len(lines) \in Nat
  BY ElementOf
<1>1. \A i \in 1..Len(lines) : lines[i] \in S <=> lines[i].key \notin J
  BY <1>0 DEF Range
<1>2. Without(lines, J) = new
  BY DEF Without
<1>. HIDE DEF S
<1>3. new \in Seq(LineOf(K)) /\ PlacesOf(new, lines, Len(lines), S) # {}
  BY FilterPlaces
<1>. HIDE DEF new
<1>4. PICK place \in [1..Len(new) -> 1..Len(lines)] :
        /\ \A i \in 1..Len(new) : new[i] = lines[place[i]] /\ lines[place[i]] \in S
        /\ \A i, j \in 1..Len(new) : i < j => place[i] < place[j]
        /\ \A i \in 1..Len(lines) : lines[i] \in S => \E n \in 1..Len(new) : place[n] = i
  BY <1>3 DEF PlacesOf
<1>5. DOMAIN new = 1..Len(new) /\ Len(new) \in Nat
  BY <1>3, ElementOf
<1>6. ASSUME NEW i \in DOMAIN new, NEW j \in DOMAIN new, new[i].key = new[j].key
      PROVE  i = j
  <2>1. i \in 1..Len(new) /\ j \in 1..Len(new) /\ i \in Int /\ j \in Int
    BY <1>5
  <2>2. place[i] \in 1..Len(lines) /\ place[j] \in 1..Len(lines)
    BY <1>4, <2>1
  <2>3. lines[place[i]].key = lines[place[j]].key
    BY <1>4, <1>6, <2>1
  <2>4. place[i] = place[j]
    BY <1>0, <2>2, <2>3 DEF Distinct
  <2>5. ~(place[i] < place[j]) /\ ~(place[j] < place[i])
    BY <2>2, <2>4
  <2>6. ~(i < j) /\ ~(j < i)
    BY <1>4, <2>1, <2>5
  <2>. QED BY <2>1, <2>6
<1>7. Distinct(new)
  BY <1>6 DEF Distinct
<1>8. ASSUME NEW j PROVE ValueOf(new, j) = IF j \in J THEN NoValue ELSE ValueOf(lines, j)
  <2>1. ASSUME NEW i \in DOMAIN new
        PROVE  new[i].key \notin J /\ new[i] = lines[place[i]] /\ place[i] \in 1..Len(lines)
    BY <1>1, <1>4, <1>5, <2>1
  <2>2. CASE j \in J
    BY <2>1, <2>2, NoLine
  <2>3. CASE j \notin J /\ Has(lines, j)
    <3>1. PICK i \in 1..Len(lines) : lines[i].key = j
      BY <1>0, <2>3 DEF Has
    <3>2. lines[i] \in S
      BY <1>1, <2>3, <3>1
    <3>3. PICK n \in 1..Len(new) : place[n] = i
      BY <1>4, <3>2
    <3>4. new[n] = lines[i] /\ n \in DOMAIN new
      BY <1>4, <1>5, <3>3
    <3>5. ValueOf(new, j) = new[n].val
      BY <1>3, <1>7, <3>1, <3>4, ValueOfLine
    <3>6. ValueOf(lines, j) = lines[i].val
      BY <1>0, <3>1, ValueOfLine
    <3>. QED BY <2>3, <3>4, <3>5, <3>6
  <2>4. CASE j \notin J /\ ~Has(lines, j)
    <3>1. \A i \in DOMAIN new : new[i].key # j
      BY <1>0, <2>1, <2>4 DEF Has
    <3>. QED BY <2>4, <3>1, NoLine DEF ValueOf
  <2>. QED BY <2>2, <2>3, <2>4
<1>. QED BY <1>2, <1>3, <1>7, <1>8

\* The beginning of a list, element by element.
LEMMA PrefixIs ==
  ASSUME NEW E, NEW p \in Seq(E), NEW list \in Seq(E)
  PROVE  IsPrefix(p, list) <=> Len(p) <= Len(list) /\ \A i \in 1..Len(p) : p[i] = list[i]
<1>1. Len(p) \in Nat /\ Len(list) \in Nat
  OBVIOUS
<1>2. CASE Len(p) <= Len(list)
  <2>1. /\ SubSeq(p, 1, Len(p)) \in Seq(E) /\ SubSeq(list, 1, Len(p)) \in Seq(E)
        /\ Len(SubSeq(p, 1, Len(p))) = Len(p) /\ Len(SubSeq(list, 1, Len(p))) = Len(p)
        /\ \A i \in 1..Len(p) : SubSeq(p, 1, Len(p))[i] = p[i]
                                /\ SubSeq(list, 1, Len(p))[i] = list[i]
    BY <1>1, <1>2
  <2>2. SubSeq(p, 1, Len(p)) = SubSeq(list, 1, Len(p)) <=> \A i \in 1..Len(p) : p[i] = list[i]
    <3> DEFINE a == SubSeq(p, 1, Len(p))
               b == SubSeq(list, 1, Len(p))
    <3>1. a \in Seq(E) /\ b \in Seq(E) /\ Len(a) = Len(b) /\ Len(a) = Len(p)
          /\ \A i \in 1..Len(p) : a[i] = p[i] /\ b[i] = list[i]
      BY <2>1
    <3>. HIDE DEF a, b
    <3>2. (\A i \in 1..Len(a) : a[i] = b[i]) <=> a = b
      BY <3>1, SameList
    <3>3. a = b <=> \A i \in 1..Len(p) : p[i] = list[i]
      BY <3>1, <3>2
    <3>. QED BY <3>3 DEF a, b
  <2>. QED BY <1>2, <2>2 DEF IsPrefix
<1>. QED BY <1>2 DEF IsPrefix

\* The beginning of a file has some of its keys, with their values.
LEMMA PrefixTable ==
  ASSUME NEW K, NEW p \in Seq(LineOf(K)), NEW lines \in Seq(LineOf(K)), Distinct(lines),
         IsPrefix(p, lines)
  PROVE  /\ Distinct(p)
         /\ \A k : ValueOf(p, k) = IF k \in {line.key : line \in Range(p)}
                                   THEN ValueOf(lines, k) ELSE NoValue
<1>1. /\ DOMAIN p = 1..Len(p) /\ DOMAIN lines = 1..Len(lines)
      /\ Len(p) \in Nat /\ Len(lines) \in Nat /\ Len(p) <= Len(lines)
      /\ \A i \in 1..Len(p) : p[i] = lines[i]
  BY PrefixIs, ElementOf
<1>2. \A i \in DOMAIN p : i \in DOMAIN lines /\ p[i] = lines[i]
  BY <1>1
<1>3. Distinct(p)
  BY <1>2 DEF Distinct
<1>4. ASSUME NEW k
      PROVE  ValueOf(p, k) = IF k \in {line.key : line \in Range(p)}
                             THEN ValueOf(lines, k) ELSE NoValue
  <2>1. k \in {line.key : line \in Range(p)} <=> \E i \in DOMAIN p : p[i].key = k
    BY DEF Range
  <2>2. CASE \E i \in DOMAIN p : p[i].key = k
    <3>1. PICK i \in DOMAIN p : p[i].key = k
      BY <2>2
    <3>2. ValueOf(p, k) = p[i].val /\ ValueOf(lines, k) = lines[i].val
      BY <1>2, <1>3, <3>1, ValueOfLine
    <3>. QED BY <1>2, <2>1, <2>2, <3>1, <3>2
  <2>3. CASE ~ \E i \in DOMAIN p : p[i].key = k
    BY <2>1, <2>3, NoLine
  <2>. QED BY <2>2, <2>3
<1>. QED BY <1>3, <1>4

-----------------------------------------------------------------------------
(***************************************************************************)
(* The inductive invariant: one writer at a time, which has read the file  *)
(* it will write, knows what the file becomes, and has written the first   *)
(* lines of it since it opened the file.                                   *)
(***************************************************************************)
LinesOf(path) == IF path = "state" THEN Seq([Fields -> Values]) ELSE Seq(LineOf(Keys(path)))

IsOp(o) ==
  /\ o = [pc |-> o.pc, path |-> o.path, read |-> o.read, lines |-> o.lines]
  /\ o.pc \in {"idle", "open", "write"} /\ o.path \in Paths

IsFile(path, lines) ==
  /\ lines \in LinesOf(path)
  /\ IF path = "state" THEN Len(lines) <= 1 ELSE Distinct(lines)

Current(path) == IF path = "state" THEN Settings ELSE Lines(path)

\* What a write makes of the lines that it has read.
Outcome(path, read, lines) ==
  \/ /\ path = "schedule"
     /\ \E t \in Times : lines = Without(read, {t}) \/ \E v \in Values : lines = Put(read, t, v)
  \/ /\ path = "optimization"
     /\ \E t \in Times : \/ lines = Without(read, Methods \X {t})
                         \/ \E m \in Methods, v \in Values : lines = Put(read, <<m, t>>, v)
  \/ /\ path = "state" /\ read # <<>>
     /\ \E f \in Fields, v \in Values : lines = <<[read[1] EXCEPT ![f] = v]>>

Writing(o) ==
  /\ IsFile(o.path, o.read) /\ IsFile(o.path, o.lines) /\ Outcome(o.path, o.read, o.lines)
  /\ o.pc = "open" => o.read = Current(o.path)
  /\ o.pc = "write" => o.path \in DOMAIN file /\ IsPrefix(file[o.path], o.lines)

FilesOK == DOMAIN file \subseteq Paths /\ \A path \in DOMAIN file : IsFile(path, file[path])

IInv ==
  /\ left \in 0..Calls
  /\ FilesOK
  /\ op = [c \in Clients |-> op[c]] /\ \A c \in Clients : IsOp(op[c])
  /\ \A c, d \in Clients : op[c].pc # "idle" /\ op[d].pc # "idle" => c = d
  /\ \A c \in Clients : op[c].pc # "idle" => Writing(op[c])

\* A write makes a file of the file it has read.
LEMMA OutcomeIsFile ==
  ASSUME NEW path \in Paths, NEW read, NEW lines, IsFile(path, read), Outcome(path, read, lines)
  PROVE  IsFile(path, lines)
<1>1. CASE path = "state"
  <2>1. read \in Seq([Fields -> Values]) /\ Len(read) <= 1 /\ read # <<>>
    BY <1>1 DEF IsFile, LinesOf, Outcome
  <2>2. read[1] \in [Fields -> Values]
    BY <2>1
  <2>3. PICK f \in Fields, v \in Values : lines = <<[read[1] EXCEPT ![f] = v]>>
    BY <1>1 DEF Outcome
  <2>4. [read[1] EXCEPT ![f] = v] \in [Fields -> Values]
    BY <2>2
  <2>5. lines \in Seq([Fields -> Values]) /\ Len(lines) = 1
    BY <2>3, <2>4
  <2>. QED BY <1>1, <2>5 DEF IsFile, LinesOf
<1>2. CASE path = "schedule"
  <2>1. read \in Seq(LineOf(Times)) /\ Distinct(read)
    BY <1>2 DEF IsFile, LinesOf, Keys
  <2>2. PICK t \in Times : lines = Without(read, {t}) \/ \E v \in Values : lines = Put(read, t, v)
    BY <1>2 DEF Outcome
  <2>3. lines \in Seq(LineOf(Times)) /\ Distinct(lines)
    BY <2>1, <2>2, PutIs, WithoutIs
  <2>. QED BY <1>2, <2>3 DEF IsFile, LinesOf, Keys
<1>3. CASE path = "optimization"
  <2>1. read \in Seq(LineOf(Methods \X Times)) /\ Distinct(read)
    BY <1>3 DEF IsFile, LinesOf, Keys
  <2>2. PICK t \in Times : \/ lines = Without(read, Methods \X {t})
                           \/ \E m \in Methods, v \in Values : lines = Put(read, <<m, t>>, v)
    BY <1>3 DEF Outcome
  <2>4. CASE lines = Without(read, Methods \X {t})
    <3>1. Without(read, Methods \X {t}) \in Seq(LineOf(Methods \X Times))
          /\ Distinct(Without(read, Methods \X {t}))
      BY <2>1, WithoutIs
    <3>. QED BY <1>3, <2>4, <3>1 DEF IsFile, LinesOf, Keys
  <2>5. ASSUME NEW m \in Methods, NEW v \in Values, lines = Put(read, <<m, t>>, v)
        PROVE  IsFile(path, lines)
    <3>1. PICK k \in Methods \X Times : k = <<m, t>>
      OBVIOUS
    <3>2. Put(read, k, v) \in Seq(LineOf(Methods \X Times)) /\ Distinct(Put(read, k, v))
      BY <2>1, PutIs
    <3>. QED BY <1>3, <2>5, <3>1, <3>2 DEF IsFile, LinesOf, Keys
  <2>. QED BY <2>2, <2>4, <2>5
<1>. QED BY <1>1, <1>2, <1>3 DEF Paths

\* What a client reads of a file, whether or not there is one.
LEMMA CurrentIsFile ==
  ASSUME FilesOK, NEW path \in Paths
  PROVE  IsFile(path, Current(path))
<1>1. CASE path \in DOMAIN file
  BY <1>1 DEF FilesOK, Current, Lines, Settings
<1>2. CASE path \notin DOMAIN file /\ path = "state"
  <2>1. <<Default>> \in Seq([Fields -> Values]) /\ Len(<<Default>>) = 1
    BY StoreAssumption
  <2>2. Current(path) = <<Default>>
    BY <1>2 DEF Current, Settings
  <2>3. IsFile(path, <<Default>>)
    BY <1>2, <2>1 DEF IsFile, LinesOf
  <2>. QED BY <2>2, <2>3
<1>3. CASE path \notin DOMAIN file /\ path # "state"
  <2>1. <<>> \in Seq(LineOf(Keys(path))) /\ \A i \in DOMAIN <<>> : FALSE
    OBVIOUS
  <2>2. Distinct(<<>>)
    BY <2>1 DEF Distinct
  <2>3. Current(path) = <<>>
    BY <1>3 DEF Current, Lines
  <2>. QED BY <1>3, <2>1, <2>2, <2>3 DEF IsFile, LinesOf
<1>. QED BY <1>1, <1>2, <1>3

\* The first lines of a file are a file.
LEMMA PrefixIsFile ==
  ASSUME NEW path \in Paths, NEW p, NEW lines, IsFile(path, lines), p \in LinesOf(path),
         IsPrefix(p, lines)
  PROVE  IsFile(path, p)
<1>1. CASE path = "state"
  <2>1. p \in Seq([Fields -> Values]) /\ lines \in Seq([Fields -> Values]) /\ Len(lines) <= 1
    BY <1>1 DEF IsFile, LinesOf
  <2>2. Len(p) <= Len(lines) /\ Len(p) \in Nat /\ Len(lines) \in Nat
    BY <2>1, PrefixIs
  <2>. QED BY <1>1, <2>1, <2>2 DEF IsFile
<1>2. CASE path # "state"
  BY <1>2, PrefixTable DEF IsFile, LinesOf
<1>. QED BY <1>1, <1>2

\* A step of the client that may be in a write, or of one when no client is.
LEMMA OneClient ==
  ASSUME IInv, NEW c \in Clients, NEW o, op' = [op EXCEPT ![c] = o], IsOp(o),
         \A d \in Clients : d # c => op[d].pc = "idle",
         o.pc # "idle" => Writing(o)',
         FilesOK', left' \in 0..Calls
  PROVE  IInv'
<1>1. op'[c] = o /\ \A d \in Clients : d # c => op'[d] = op[d]
  BY DEF IInv
<1>2. op' = [d \in Clients |-> op'[d]]
  BY DEF IInv
<1>3. \A d \in Clients : IsOp(op'[d])
  BY <1>1 DEF IInv
<1>4. \A d \in Clients : op'[d].pc # "idle" => d = c
  BY <1>1
<1>5. ASSUME NEW d \in Clients, op'[d].pc # "idle" PROVE Writing(op[d])'
  <2>1. op'[d] = o
    BY <1>1, <1>4, <1>5
  <2>2. Writing(o)'
    BY <1>5, <2>1
  <2>. QED BY <2>1, <2>2 DEF Writing, Current, Lines, Settings
<1>. QED BY <1>2, <1>3, <1>4, <1>5 DEF IInv

LEMMA IdleOp == IsOp(Idle) /\ Idle.pc = "idle"
  BY DEF IsOp, Idle, Paths

\* A client that stops leaves the store to the others.
LEMMA BackToIdle ==
  ASSUME IInv, NEW c \in Clients, op[c].pc # "idle", op' = [op EXCEPT ![c] = Idle],
         UNCHANGED <<file, left>>
  PROVE  IInv'
<1>1. FilesOK' /\ left' \in 0..Calls
  BY DEF IInv, FilesOK, IsFile, LinesOf
<1>2. \A d \in Clients : d # c => op[d].pc = "idle"
  BY DEF IInv
<1>. QED BY <1>1, <1>2, IdleOp, OneClient

\* A write begins.
LEMMA BeginStep ==
  ASSUME IInv, NEW c \in Clients, NEW path \in Paths, NEW lines,
         Begin(c, path, Current(path), lines), Outcome(path, Current(path), lines)
  PROVE  IInv'
<1> DEFINE o == [pc |-> "open", path |-> path, read |-> Current(path), lines |-> lines]
<1>1. IsFile(path, Current(path)) /\ IsFile(path, lines)
  BY CurrentIsFile, OutcomeIsFile DEF IInv
<1>2. op' = [op EXCEPT ![c] = o] /\ file' = file /\ \A d \in Clients : op[d].pc = "idle"
  BY DEF Begin, LockFree
<1>3. o.pc = "open" /\ o.path = path /\ o.read = Current(path) /\ o.lines = lines
      /\ o = [pc |-> o.pc, path |-> o.path, read |-> o.read, lines |-> o.lines]
  OBVIOUS
<1>4. left' \in 0..Calls
  BY StoreAssumption DEF Begin, IInv
<1>5. FilesOK'
  BY <1>2 DEF IInv, FilesOK
<1>6. Current(path)' = Current(path)
  BY <1>2 DEF Current, Settings, Lines
<1>. HIDE DEF o
<1>7. IsOp(o)
  BY <1>3 DEF IsOp
<1>8. PICK u : u = o
  OBVIOUS
<1>9. Writing(u)'
  BY <1>1, <1>3, <1>6, <1>8 DEF Writing
<1>. QED BY <1>2, <1>4, <1>5, <1>7, <1>8, <1>9, OneClient

\* A step that leaves the files and the clients alone.
LEMMA QuietStep ==
  ASSUME IInv, UNCHANGED <<file, op, left>>
  PROVE  IInv'
BY DEF IInv, FilesOK, IsOp, Writing, Current, Settings, Lines

\* What the client that holds the lock keeps.
LEMMA Writer ==
  ASSUME IInv, NEW c \in Clients, op[c].pc # "idle"
  PROVE  /\ IsOp(op[c]) /\ Writing(op[c]) /\ op[c].path \in Paths
         /\ \A d \in Clients : d # c => op[d].pc = "idle"
BY DEF IInv, IsOp

\* The file is emptied.
LEMMA OpenStep ==
  ASSUME IInv, NEW c \in Clients, Open(c)
  PROVE  IInv'
<1>0. op[c].pc = "open" /\ op[c].pc # "idle" /\ left' = left
  BY DEF Open
<1>1. IsOp(op[c]) /\ Writing(op[c]) /\ op[c].path \in Paths
      /\ \A d \in Clients : d # c => op[d].pc = "idle"
  BY <1>0, Writer
<1>2. CASE op' = [op EXCEPT ![c] = Idle] /\ UNCHANGED file
  BY <1>0, <1>2, BackToIdle
<1>3. CASE /\ op' = [op EXCEPT ![c].pc = "write"]
           /\ file' = [path \in DOMAIN file \cup {op[c].path} |->
                        IF path = op[c].path THEN <<>> ELSE file[path]]
  <2> DEFINE p == op[c].path
             o == [op[c] EXCEPT !.pc = "write"]
  <2>1. op' = [op EXCEPT ![c] = o]
    BY <1>3
  <2>2. o.pc = "write" /\ o.path = p /\ o.read = op[c].read /\ o.lines = op[c].lines
        /\ o = [pc |-> o.pc, path |-> o.path, read |-> o.read, lines |-> o.lines]
    BY <1>1 DEF IsOp
  <2>3. left' \in 0..Calls
    BY DEF Open, IInv
  <2>4. IsFile(p, o.read) /\ IsFile(p, o.lines) /\ Outcome(p, o.read, o.lines)
    BY <1>1, <2>2 DEF Writing
  <2>5. <<>> \in LinesOf(p) /\ IsPrefix(<<>>, o.lines)
    <3>1. <<>> \in LinesOf(p) /\ o.lines \in LinesOf(p)
      BY <2>4 DEF LinesOf, IsFile
    <3>2. PICK E : LinesOf(p) = Seq(E)
      BY DEF LinesOf
    <3>. HIDE DEF p, o
    <3>3. <<>> \in Seq(E) /\ o.lines \in Seq(E)
      BY <3>1, <3>2
    <3>4. PICK e : e = <<>>
      OBVIOUS
    <3>5. Len(e) <= Len(o.lines) /\ \A i \in 1..Len(e) : e[i] = o.lines[i]
      BY <3>3, <3>4
    <3>6. IsPrefix(e, o.lines)
      BY <3>3, <3>4, <3>5, PrefixIs
    <3>. QED BY <3>1, <3>4, <3>6
  <2>. HIDE DEF o
  <2>6. IsFile(p, <<>>)
    BY <1>1, <2>4, <2>5, PrefixIsFile
  <2>7. DOMAIN file' = DOMAIN file \cup {p} /\ file'[p] = <<>>
        /\ \A path \in DOMAIN file : path # p => file'[path] = file[path]
    BY <1>3
  <2>8. FilesOK'
    <3>1. DOMAIN file' \subseteq Paths
      BY <1>1, <2>7 DEF IInv, FilesOK
    <3>2. ASSUME NEW path \in DOMAIN file' PROVE IsFile(path, file'[path])
      <4>1. CASE path = p
        BY <4>1, <2>6, <2>7
      <4>2. CASE path # p
        BY <4>2, <2>7 DEF IInv, FilesOK
      <4>. QED BY <4>1, <4>2
    <3>. QED BY <3>1, <3>2 DEF FilesOK
  <2>9. IsOp(o)
    BY <1>1, <2>2 DEF IsOp
  <2>10. PICK u : u = o
    OBVIOUS
  <2>11. p \in DOMAIN file' /\ IsPrefix(file'[p], o.lines)
    BY <2>5, <2>7
  <2>12. Writing(u)'
    BY <2>2, <2>4, <2>10, <2>11 DEF Writing
  <2>. QED BY <1>1, <2>1, <2>3, <2>8, <2>9, <2>10, <2>12, OneClient
<1>. QED BY <1>2, <1>3 DEF Open

\* The next of the new lines is written.
LEMMA WriteStep ==
  ASSUME IInv, NEW c \in Clients, WriteLine(c)
  PROVE  IInv'
<1>0. op[c].pc = "write" /\ Written(c) < Len(op[c].lines)
  BY DEF WriteLine
<1>1. IsOp(op[c]) /\ Writing(op[c]) /\ op[c].path \in Paths
      /\ \A d \in Clients : d # c => op[d].pc = "idle"
  BY <1>0, Writer
<1>2. CASE op' = [op EXCEPT ![c] = Idle] /\ UNCHANGED file
  BY <1>0, <1>2, BackToIdle DEF WriteLine
<1>3. CASE /\ file' = [file EXCEPT ![op[c].path] = Append(@, op[c].lines[Written(c) + 1])]
           /\ UNCHANGED op
  <2> DEFINE p == op[c].path
             lines == op[c].lines
             old == file[p]
             new == Append(old, lines[Len(old) + 1])
  <2>1. p \in DOMAIN file /\ IsFile(p, lines) /\ IsFile(p, old) /\ IsPrefix(old, lines)
        /\ Len(old) < Len(lines)
    BY <1>0, <1>1 DEF Writing, IInv, FilesOK, Written
  <2>2. old \in LinesOf(p) /\ lines \in LinesOf(p)
    BY <2>1 DEF IsFile
  <2>3. PICK E : LinesOf(p) = Seq(E)
    BY DEF LinesOf
  <2>4. file' = [file EXCEPT ![p] = new]
    BY <1>3 DEF Written
  <2>. HIDE DEF p, lines, old
  <2>5. /\ Len(old) \in Nat /\ Len(lines) \in Nat /\ lines[Len(old) + 1] \in E
        /\ \A i \in 1..Len(old) : old[i] = lines[i]
    BY <2>1, <2>2, <2>3, PrefixIs
  <2>6. /\ new \in Seq(E) /\ Len(new) = Len(old) + 1 /\ new[Len(old) + 1] = lines[Len(old) + 1]
        /\ \A i \in 1..Len(old) : new[i] = old[i]
    BY <2>2, <2>3, <2>5
  <2>. HIDE DEF new
  <2>7. Len(new) <= Len(lines) /\ \A i \in 1..Len(new) : new[i] = lines[i]
    BY <2>1, <2>5, <2>6
  <2>8. IsPrefix(new, lines)
    BY <2>2, <2>3, <2>6, <2>7, PrefixIs
  <2>9. IsFile(p, new)
    BY <1>1, <2>1, <2>3, <2>6, <2>8, PrefixIsFile DEF p
  <2>10. DOMAIN file' = DOMAIN file /\ file'[p] = new
         /\ \A path \in DOMAIN file : path # p => file'[path] = file[path]
    BY <2>1, <2>4
  <2>11. FilesOK'
    <3>1. ASSUME NEW path \in DOMAIN file PROVE IsFile(path, file'[path])
      <4>1. CASE path = p
        BY <4>1, <2>9, <2>10
      <4>2. CASE path # p
        BY <4>2, <2>10 DEF IInv, FilesOK
      <4>. QED BY <4>1, <4>2
    <3>. QED BY <2>10, <3>1 DEF IInv, FilesOK
  <2>12. Writing(op[c])'
    <3>1. op'[c] = op[c]
      BY <1>3
    <3>2. IsPrefix(file'[p], lines) /\ p \in DOMAIN file'
      BY <2>1, <2>8, <2>10
    <3>. QED BY <1>0, <1>1, <3>1, <3>2 DEF Writing, p, lines
  <2>13. \A d \in Clients : op'[d].pc # "idle" => d = c
    BY <1>1, <1>3
  <2>14. ASSUME NEW d \in Clients, op'[d].pc # "idle" PROVE Writing(op[d])'
    BY <2>12, <2>13, <2>14
  <2>. QED BY <1>3, <2>11, <2>13, <2>14 DEF IInv, WriteLine
<1>. QED BY <1>2, <1>3 DEF WriteLine

\* The program stops and starts again.
LEMMA CrashStep ==
  ASSUME IInv, Crash
  PROVE  IInv'
<1>1. op' = [c \in Clients |-> Idle] /\ UNCHANGED <<file, left>>
  BY DEF Crash
<1>2. FilesOK' /\ left' \in 0..Calls
  BY <1>1 DEF IInv, FilesOK
<1>. QED BY <1>1, <1>2, IdleOp DEF IInv

LEMMA InitIInv == ASSUME Init PROVE IInv
<1>1. FilesOK
  <2>1. <<>> \in Seq(LineOf(Keys("schedule"))) /\ \A i \in DOMAIN <<>> : FALSE
    OBVIOUS
  <2>2. IsFile("schedule", <<>>)
    BY <2>1 DEF IsFile, LinesOf, Distinct
  <2>. QED BY <2>2 DEF Init, FilesOK, Paths
<1>. QED BY <1>1, StoreAssumption, IdleOp DEF Init, IInv

\* Each call of a writer begins a write whose outcome is one of the store's.
LEMMA CallsBegin ==
  ASSUME NEW c \in Clients
  PROVE  /\ \A t \in Times : Delete(c, t) =>
              \E lines : /\ Begin(c, "schedule", Current("schedule"), lines)
                         /\ Outcome("schedule", Current("schedule"), lines)
         /\ \A t \in Times : DeleteAnyOptimization(c, t) =>
              \E lines : /\ Begin(c, "optimization", Current("optimization"), lines)
                         /\ Outcome("optimization", Current("optimization"), lines)
         /\ \A t \in Times, v \in Values : Upsert(c, t, v) =>
              \E lines : /\ Begin(c, "schedule", Current("schedule"), lines)
                         /\ Outcome("schedule", Current("schedule"), lines)
         /\ \A m \in Methods, t \in Times, v \in Values : InsertOptimization(c, m, t, v) =>
              \E lines : /\ Begin(c, "optimization", Current("optimization"), lines)
                         /\ Outcome("optimization", Current("optimization"), lines)
         /\ \A f \in Fields, v \in Values : SetField(c, f, v) =>
              \E lines : /\ Begin(c, "state", Current("state"), lines)
                         /\ Outcome("state", Current("state"), lines)
<1>1. /\ Current("schedule") = Lines("schedule") /\ Current("optimization") = Lines("optimization")
      /\ Current("state") = Settings
  BY DEF Current
<1>2. ASSUME NEW t \in Times
      PROVE  /\ Outcome("schedule", Lines("schedule"), Without(Lines("schedule"), {t}))
             /\ Outcome("optimization", Lines("optimization"),
                        Without(Lines("optimization"), Methods \X {t}))
  BY DEF Outcome
<1>3. ASSUME NEW t \in Times, NEW v \in Values
      PROVE  /\ Outcome("schedule", Lines("schedule"), Put(Lines("schedule"), t, v))
             /\ \A m \in Methods : Outcome("optimization", Lines("optimization"),
                                           Put(Lines("optimization"), <<m, t>>, v))
  BY DEF Outcome
<1>4. ASSUME NEW f \in Fields, NEW v \in Values, Settings # <<>>
      PROVE  Outcome("state", Settings, <<[Settings[1] EXCEPT ![f] = v]>>)
  BY <1>4 DEF Outcome
<1>. QED BY <1>1, <1>2, <1>3, <1>4 DEF Delete, DeleteAnyOptimization, Upsert, InsertOptimization,
                                      SetField

LEMMA StepIInv == ASSUME IInv, [Next]_vars PROVE IInv'
<1>0. \A path \in Paths, c \in Clients : \A lines :
        Begin(c, path, Current(path), lines) /\ Outcome(path, Current(path), lines) => IInv'
  BY BeginStep
<1>1. \A path \in {"schedule", "optimization", "state"} : path \in Paths
  BY DEF Paths
<1>2. ASSUME NEW c \in Clients, NEW t \in Times, Delete(c, t) \/ DeleteAnyOptimization(c, t)
      PROVE  IInv'
  BY <1>0, <1>1, <1>2, CallsBegin
<1>3. ASSUME NEW c \in Clients, NEW t \in Times, NEW v \in Values,
             Upsert(c, t, v) \/ \E m \in Methods : InsertOptimization(c, m, t, v)
      PROVE  IInv'
  BY <1>0, <1>1, <1>3, CallsBegin
<1>4. ASSUME NEW c \in Clients, NEW f \in Fields, NEW v \in Values, SetField(c, f, v)
      PROVE  IInv'
  BY <1>0, <1>1, <1>4, CallsBegin
<1>5. ASSUME NEW c \in Clients, Open(c) PROVE IInv'
  BY <1>5, OpenStep
<1>6. ASSUME NEW c \in Clients, WriteLine(c) PROVE IInv'
  BY <1>6, WriteStep
<1>7. ASSUME NEW c \in Clients, Unlock(c) PROVE IInv'
  BY <1>7, BackToIdle DEF Unlock
<1>8. CASE \/ \E t \in Times : Select(t) \/ Find(t) \/ \E m \in Methods : SelectOptimization(m, t)
           \/ \E f \in Fields : GetField(f)
           \/ ReadError
           \/ UNCHANGED vars
  <2>1. UNCHANGED <<file, op, left>>
    BY <1>8 DEF Select, Find, SelectOptimization, GetField, Reply, ReadError, vars
  <2>. QED BY <2>1, QuietStep
<1>9. CASE Crash
  BY <1>9, CrashStep
<1>. QED BY <1>2, <1>3, <1>4, <1>5, <1>6, <1>7, <1>8, <1>9 DEF Next

LEMMA IInvAlways == Spec => []IInv
BY InitIInv, StepIInv, PTL DEF Spec

(***************************************************************************)
(* Whatever is written, however writes fail and wherever the program stops,*)
(* each file has lines of its kind and one client at a time is in a write. *)
(***************************************************************************)
THEOREM TypeCorrect == Spec => []TypeOK
<1>1. ASSUME IInv PROVE TypeOK
  <2>1. ASSUME NEW path \in Paths \ {"state"}
        PROVE  Lines(path) \in Seq([key : Keys(path), val : Values])
    BY <1>1, CurrentIsFile DEF IInv, Current, IsFile, LinesOf, LineOf
  <2>2. Settings \in Seq([Fields -> Values]) /\ Len(Settings) <= 1
    BY <1>1, CurrentIsFile DEF IInv, Current, IsFile, LinesOf, Paths
  <2>3. \A i \in DOMAIN Settings : Settings[i] \in [Fields -> Values]
    BY <2>2, ElementOf
  <2>. QED BY <1>1, <2>1, <2>2, <2>3 DEF TypeOK, IInv
<1>. QED BY <1>1, IInvAlways, PTL

(***************************************************************************)
(* No file ever has two lines of one key: neither after a write that ended *)
(* nor when it was cut short, in the file it leaves or in the next write.  *)
(***************************************************************************)
THEOREM OneLinePerKeyAlways == Spec => []OneLinePerKey
<1>1. ASSUME IInv PROVE OneLinePerKey
  <2>1. ASSUME NEW path \in Paths \ {"state"} PROVE Distinct(Lines(path))
    BY <1>1, CurrentIsFile DEF IInv, Current, IsFile
  <2>2. \A c \in Clients : op[c].pc = "write" => IsPrefix(file[op[c].path], op[c].lines)
    BY <1>1 DEF IInv, Writing
  <2>. QED BY <2>1, <2>2 DEF OneLinePerKey, Distinct
<1>. QED BY <1>1, IInvAlways, PTL

-----------------------------------------------------------------------------
(***************************************************************************)
(* The file store implements Store.  The table that a path stands for is   *)
(* what its file says when no client writes it and what the writer has     *)
(* read when one does.                                                     *)
(***************************************************************************)
View(path) == Committed(path, Current(path))

TableOf(K, lines) == [k \in K |-> ValueOf(lines, k)]
SettingsOf(lines) == IF lines = <<>> THEN Unreadable ELSE lines[1]

\* A file that nobody writes counts as it is.
LEMMA ViewOfFree ==
  ASSUME NEW path, \A c \in Clients : ~(op[c].pc = "write" /\ op[c].path = path)
  PROVE  View(path) = Current(path)
BY DEF View, Committed

\* A file that a client writes counts as what it has read.
LEMMA ViewOfWritten ==
  ASSUME NEW c \in Clients, op[c].pc = "write",
         \A d \in Clients : d # c => op[d].pc = "idle"
  PROVE  View(op[c].path) = op[c].read
<1> DEFINE IsWriter(d) == op[d].pc = "write" /\ op[d].path = op[c].path
<1>1. \A d \in Clients : IsWriter(d) <=> d = c
  OBVIOUS
<1>2. (CHOOSE d \in Clients : IsWriter(d)) = c
  <2>. HIDE DEF IsWriter
  <2>. QED BY <1>1
<1>. QED BY <1>2 DEF View, Committed

\* What the views are while a client has the lock, and when none has it.
LEMMA Views ==
  ASSUME IInv, NEW path \in Paths
  PROVE  /\ (\A c \in Clients : op[c].pc # "write" \/ op[c].path # path)
              => View(path) = Current(path)
         /\ \A c \in Clients : op[c].pc # "idle" =>
              View(path) = IF op[c].path = path THEN op[c].read ELSE Current(path)
<1>1. (\A c \in Clients : op[c].pc # "write" \/ op[c].path # path) => View(path) = Current(path)
  BY ViewOfFree
<1>2. ASSUME NEW c \in Clients, op[c].pc # "idle"
      PROVE  View(path) = IF op[c].path = path THEN op[c].read ELSE Current(path)
  <2>1. IsOp(op[c]) /\ Writing(op[c]) /\ \A d \in Clients : d # c => op[d].pc = "idle"
    BY <1>2, Writer
  <2>2. CASE op[c].path # path
    <3>1. \A d \in Clients : op[d].pc # "write" \/ op[d].path # path
      BY <2>1, <2>2
    <3>. QED BY <2>2, <3>1, <1>1
  <2>3. CASE op[c].path = path /\ op[c].pc = "write"
    BY <2>1, <2>3, ViewOfWritten
  <2>4. CASE op[c].path = path /\ op[c].pc # "write"
    <3>1. \A d \in Clients : op[d].pc # "write" \/ op[d].path # path
      BY <2>1, <2>4
    <3>2. op[c].read = Current(path)
      BY <1>2, <2>1, <2>4 DEF IsOp, Writing
    <3>. QED BY <2>4, <3>1, <3>2, <1>1
  <2>. QED BY <2>2, <2>3, <2>4
<1>. QED BY <1>1, <1>2

\* Every view is a file.
LEMMA ViewIsFile ==
  ASSUME IInv, NEW path \in Paths
  PROVE  IsFile(path, View(path))
<1>1. IsFile(path, Current(path))
  BY CurrentIsFile DEF IInv
<1>2. CASE \E c \in Clients : op[c].pc = "write" /\ op[c].path = path
  <2>1. PICK c \in Clients : op[c].pc = "write" /\ op[c].path = path
    BY <1>2
  <2>2. Writing(op[c])
    BY <2>1, Writer
  <2>. QED BY <2>1, <2>2, Views DEF Writing
<1>3. CASE ~ \E c \in Clients : op[c].pc = "write" /\ op[c].path = path
  BY <1>1, <1>3, Views
<1>. QED BY <1>2, <1>3

\* What the abstract store's variables stand for.
LEMMA Mapped ==
  /\ Table("schedule") = TableOf(Times, View("schedule"))
  /\ Table("optimization") = TableOf(Methods \X Times, View("optimization"))
  /\ Committed("state", Settings) = View("state")
BY DEF Table, TableOf, View, Keys, Current

LEMMA MappedNext ==
  /\ Table("schedule")' = TableOf(Times, View("schedule")')
  /\ Table("optimization")' = TableOf(Methods \X Times, View("optimization")')
  /\ Committed("state", Settings)' = View("state")'
<1>1. View("state")' = Committed("state", Settings)'
  BY DEF View, Current, Committed
<1>2. View("schedule")' = Committed("schedule", Lines("schedule"))'
  BY DEF View, Current, Committed
<1>3. View("optimization")' = Committed("optimization", Lines("optimization"))'
  BY DEF View, Current, Committed
<1>. QED BY <1>1, <1>2, <1>3 DEF Table, TableOf, Keys

\* A file cut short is part of the table that the whole file is.
LEMMA PartOfTable ==
  ASSUME NEW K, NEW p \in Seq(LineOf(K)), NEW lines \in Seq(LineOf(K)), Distinct(lines),
         IsPrefix(p, lines)
  PROVE  TableOf(K, p) \in Abstract!Parts(TableOf(K, lines))
<1> DEFINE J == {k \in K : Has(p, k)}
<1>1. ASSUME NEW k \in K
      PROVE  ValueOf(p, k) = IF k \in J THEN ValueOf(lines, k) ELSE NoValue
  <2>1. Has(p, k) <=> k \in {line.key : line \in Range(p)}
    BY DEF Has, Range
  <2>. QED BY <2>1, PrefixTable
<1>2. J \subseteq K
  OBVIOUS
<1>. HIDE DEF J
<1>3. DOMAIN TableOf(K, lines) = K /\ \A k \in K : TableOf(K, lines)[k] = ValueOf(lines, k)
  BY DEF TableOf
<1>4. TableOf(K, p) = [k \in K |-> IF k \in J THEN TableOf(K, lines)[k] ELSE NoValue]
  BY <1>1, <1>3 DEF TableOf
<1>. QED BY <1>2, <1>3, <1>4 DEF Abstract!Parts

\* The tables that a write turns the schedule into.
LEMMA ScheduleOutcome ==
  ASSUME NEW read, IsFile("schedule", read), NEW lines, Outcome("schedule", read, lines)
  PROVE  \E t \in Times :
           \/ TableOf(Times, lines) = [TableOf(Times, read) EXCEPT ![t] = NoValue]
           \/ \E v \in Values : TableOf(Times, lines) = [TableOf(Times, read) EXCEPT ![t] = v]
<1>1. read \in Seq(LineOf(Times)) /\ Distinct(read)
  BY DEF IsFile, LinesOf, Keys
<1>2. PICK t \in Times : lines = Without(read, {t}) \/ \E v \in Values : lines = Put(read, t, v)
  BY DEF Outcome
<1>3. CASE lines = Without(read, {t})
  <2>1. \A k : ValueOf(lines, k) = IF k \in {t} THEN NoValue ELSE ValueOf(read, k)
    BY <1>1, <1>3, WithoutIs
  <2>. QED BY <2>1 DEF TableOf
<1>4. ASSUME NEW v \in Values, lines = Put(read, t, v)
      PROVE  TableOf(Times, lines) = [TableOf(Times, read) EXCEPT ![t] = v]
  <2>1. \A k : ValueOf(lines, k) = IF k = t THEN v ELSE ValueOf(read, k)
    BY <1>1, <1>4, PutIs
  <2>. QED BY <2>1 DEF TableOf
<1>. QED BY <1>2, <1>3, <1>4

Deleted(table, t)        == [k \in DOMAIN table |-> IF k[2] = t THEN NoValue ELSE table[k]]
Inserted(table, m, t, v) == [table EXCEPT ![<<m, t>>] = v]

\* The tables that a write turns the optimisation rows into.
LEMMA OptimizationOutcome ==
  ASSUME NEW read, IsFile("optimization", read), NEW lines, Outcome("optimization", read, lines),
         NEW K, K = Methods \X Times,
         NEW old, old = TableOf(K, read), NEW new, new = TableOf(K, lines)
  PROVE  \E t \in Times :
           \/ new = Deleted(old, t)
           \/ \E m \in Methods, v \in Values : new = Inserted(old, m, t, v)
<1>1. read \in Seq(LineOf(K)) /\ Distinct(read)
  BY DEF IsFile, LinesOf, Keys
<1>2. PICK t \in Times : \/ lines = Without(read, Methods \X {t})
                         \/ \E m \in Methods, v \in Values : lines = Put(read, <<m, t>>, v)
  BY DEF Outcome
<1>3. DOMAIN old = K /\ (\A k \in K : old[k] = ValueOf(read, k))
      /\ new = [k \in K |-> ValueOf(lines, k)]
  BY DEF TableOf
<1>4. ASSUME lines = Without(read, Methods \X {t}) PROVE new = Deleted(old, t)
  <2>1. \A k : ValueOf(lines, k) = IF k \in Methods \X {t} THEN NoValue ELSE ValueOf(read, k)
    BY <1>1, <1>4, WithoutIs
  <2>2. \A k \in K : k \in Methods \X {t} <=> k[2] = t
    OBVIOUS
  <2>3. \A k \in K : ValueOf(lines, k) = IF k[2] = t THEN NoValue ELSE old[k]
    BY <1>3, <2>1, <2>2
  <2>. QED BY <1>3, <2>3 DEF Deleted
<1>5. ASSUME NEW m \in Methods, NEW v \in Values, lines = Put(read, <<m, t>>, v)
      PROVE  new = Inserted(old, m, t, v)
  <2>1. PICK j \in K : j = <<m, t>>
    OBVIOUS
  <2>2. \A k : ValueOf(Put(read, j, v), k) = IF k = j THEN v ELSE ValueOf(read, k)
    BY <1>1, PutIs
  <2>3. \A k \in K : ValueOf(lines, k) = IF k = j THEN v ELSE old[k]
    BY <1>3, <1>5, <2>1, <2>2
  <2>4. new = [old EXCEPT ![j] = v]
    BY <1>3, <2>3
  <2>. QED BY <2>1, <2>4 DEF Inserted
<1>. QED BY <1>2, <1>4, <1>5

\* The settings that a write turns the settings into.
LEMMA SettingsOutcome ==
  ASSUME NEW read, IsFile("state", read), NEW lines, Outcome("state", read, lines)
  PROVE  /\ SettingsOf(read) # Unreadable
         /\ \E f \in Fields, v \in Values : SettingsOf(lines) = [SettingsOf(read) EXCEPT ![f] = v]
<1>1. read \in Seq([Fields -> Values]) /\ Len(read) <= 1 /\ read # <<>>
  BY DEF IsFile, LinesOf, Outcome
<1>2. read[1] \in [Fields -> Values] /\ SettingsOf(read) = read[1]
  BY <1>1 DEF SettingsOf
<1>3. PICK f \in Fields, v \in Values : lines = <<[read[1] EXCEPT ![f] = v]>>
  BY DEF Outcome
<1>4. read[1][f] \in Values /\ Unreadable[f] = NoValue
  BY <1>2 DEF Unreadable
<1>5. SettingsOf(read) # Unreadable
  BY <1>2, <1>4, StoreAssumption
<1>6. SettingsOf(lines) = [read[1] EXCEPT ![f] = v]
  BY <1>3 DEF SettingsOf
<1>. QED BY <1>2, <1>5, <1>6

\* The views in the next state, when nobody writes in it.
LEMMA ViewsNext ==
  ASSUME NEW path, UNCHANGED file, \A c \in Clients : op'[c].pc # "write" \/ op'[c].path # path
  PROVE  View(path)' = Current(path)
BY DEF View, Committed, Current, Settings, Lines

\* Views and answer that stay leave the abstract store where it is.
LEMMA AbstractStutter ==
  ASSUME \A path \in Paths : View(path)' = View(path), UNCHANGED reply
  PROVE  UNCHANGED Abstract!vars
<1>1. /\ View("schedule")' = View("schedule") /\ View("optimization")' = View("optimization")
      /\ View("state")' = View("state")
  BY DEF Paths
<1>2. /\ Table("schedule")' = Table("schedule")
      /\ Table("optimization")' = Table("optimization")
      /\ Committed("state", Settings)' = Committed("state", Settings)
  BY <1>1, Mapped, MappedNext
<1>. QED BY <1>2 DEF Abstract!vars

\* An answer and views that say how one table has changed, in terms of Store.
LEMMA AbstractWrite ==
  ASSUME NEW path \in Paths, NEW read, NEW lines, NEW now,
         IsFile(path, read), Outcome(path, read, lines),
         View(path) = read, View(path)' = now, IsFile(path, now), IsPrefix(now, lines),
         \A q \in Paths : q # path => View(q)' = View(q),
         \/ reply' = [tag |-> "ok", rows |-> {}] /\ now = lines
         \/ reply' = [tag |-> "error", rows |-> {}]
  PROVE  Abstract!Next
<1>0. /\ "schedule" \in Paths /\ "optimization" \in Paths /\ "state" \in Paths
      /\ path \in {"schedule", "optimization", "state"}
  BY DEF Paths
<1>1. IsFile(path, lines)
  BY OutcomeIsFile
<1>2. /\ (path # "schedule" => Table("schedule")' = Table("schedule"))
      /\ (path # "optimization" => Table("optimization")' = Table("optimization"))
      /\ (path # "state" => Committed("state", Settings)' = Committed("state", Settings))
  BY <1>0, Mapped, MappedNext
<1>3. CASE path = "schedule"
  <2> DEFINE old == TableOf(Times, read)
             new == TableOf(Times, lines)
  <2>1. Table("schedule") = old /\ Table("schedule")' = TableOf(Times, now)
    BY <1>3, Mapped, MappedNext
  <2>2. now \in Seq(LineOf(Times)) /\ lines \in Seq(LineOf(Times)) /\ Distinct(lines)
    BY <1>1, <1>3 DEF IsFile, LinesOf, Keys
  <2>3. TableOf(Times, now) \in Abstract!Parts(new)
    BY <2>2, PartOfTable
  <2>. HIDE DEF new
  <2>4. Abstract!WriteSchedule(new)
    BY <1>2, <1>3, <2>1, <2>3 DEF Abstract!WriteSchedule, Abstract!Ends, Abstract!Answer, new
  <2>5. \E t \in Times : \/ new = [old EXCEPT ![t] = NoValue]
                         \/ \E v \in Values : new = [old EXCEPT ![t] = v]
    BY <1>3, ScheduleOutcome DEF new
  <2>. HIDE DEF old
  <2>. QED BY <2>1, <2>4, <2>5 DEF Abstract!Next, Abstract!Upsert, Abstract!Delete
<1>4. CASE path = "optimization"
  <2> DEFINE K == Methods \X Times
             old == TableOf(K, read)
             new == TableOf(K, lines)
  <2>0. K = Methods \X Times
    OBVIOUS
  <2>1. Table("optimization") = old /\ Table("optimization")' = TableOf(K, now)
    BY <1>4, Mapped, MappedNext
  <2>2. now \in Seq(LineOf(K)) /\ lines \in Seq(LineOf(K)) /\ Distinct(lines)
    BY <1>1, <1>4 DEF IsFile, LinesOf, Keys
  <2>3. TableOf(K, now) \in Abstract!Parts(new)
    BY <2>2, PartOfTable
  <2>. HIDE DEF new
  <2>4. Abstract!WriteOptimization(new)
    BY <1>2, <1>4, <2>1, <2>3 DEF Abstract!WriteOptimization, Abstract!Ends, Abstract!Answer, new
  <2>5. \E t \in Times : \/ new = Deleted(old, t)
                         \/ \E m \in Methods, v \in Values : new = Inserted(old, m, t, v)
    <3>. HIDE DEF K
    <3>. QED BY <1>4, <2>0, OptimizationOutcome DEF new
  <2>. HIDE DEF old
  <2>6. \E t \in Times : \/ Abstract!DeleteAnyOptimization(t)
                         \/ \E m \in Methods, v \in Values : Abstract!InsertOptimization(m, t, v)
    BY <2>1, <2>4, <2>5
       DEF Abstract!InsertOptimization, Abstract!DeleteAnyOptimization, Deleted, Inserted
  <2>. QED BY <2>6 DEF Abstract!Next
<1>5. CASE path = "state"
  <2> DEFINE old == SettingsOf(read)
             new == SettingsOf(lines)
  <2>1. /\ (IF Committed("state", Settings) = <<>> THEN Unreadable
            ELSE Committed("state", Settings)[1]) = old
        /\ (IF Committed("state", Settings) = <<>> THEN Unreadable
            ELSE Committed("state", Settings)[1])' = SettingsOf(now)
    <3>1. Committed("state", Settings) = read /\ Committed("state", Settings)' = now
      BY <1>5, Mapped, MappedNext
    <3>. QED BY <3>1 DEF SettingsOf, Unreadable
  <2>2. /\ now \in Seq([Fields -> Values]) /\ lines \in Seq([Fields -> Values])
    BY <1>1, <1>5 DEF IsFile, LinesOf
  <2>3. Len(now) <= 1 /\ Len(lines) <= 1
    BY <1>1, <1>5 DEF IsFile
  <2>4. SettingsOf(now) \in {new, Unreadable}
    <3>0. Len(now) <= Len(lines)
      BY <2>2, PrefixIs
    <3>1. \A i \in 1..Len(now) : now[i] = lines[i]
      BY <2>2, PrefixIs
    <3>2. CASE now = <<>>
      BY <3>2 DEF SettingsOf
    <3>3. CASE now # <<>>
      <4>1. Len(now) \in Nat /\ Len(lines) \in Nat
        BY <2>2
      <4>2. Len(now) # 0
        BY <2>2, <3>3
      <4>. \A a, b \in Nat : a <= 1 /\ b <= 1 /\ a <= b /\ a # 0 => a = 1 /\ b = 1
        OBVIOUS
      <4>3. Len(now) = 1 /\ Len(lines) = 1
        BY <2>3, <3>0, <4>1, <4>2, Zenon
      <4>4. now[1] = lines[1]
        BY <3>1, <4>3
      <4>5. lines # <<>>
        BY <4>3
      <4>. QED BY <3>3, <4>4, <4>5 DEF SettingsOf
    <3>. QED BY <3>2, <3>3
  <2>5. /\ old # Unreadable
        /\ \E f \in Fields, v \in Values : new = [old EXCEPT ![f] = v]
    BY <1>5, SettingsOutcome
  <2>6. Abstract!Unreadable = Unreadable
    BY DEF Abstract!Unreadable, Unreadable
  <2>. HIDE DEF new, old
  <2>7. Abstract!WriteSettings(new)
    BY <1>2, <1>5, <2>1, <2>4, <2>5, <2>6
       DEF Abstract!WriteSettings, Abstract!Ends, Abstract!Answer, new
  <2>8. \E f \in Fields, v \in Values : Abstract!SetField(f, v)
    BY <2>1, <2>5, <2>7 DEF Abstract!SetField
  <2>. QED BY <2>8 DEF Abstract!Next
<1>. QED BY <1>0, <1>3, <1>4, <1>5

\* The client that has the lock ends its call: it unlocks, fails or stops.
LEMMA AbstractEnd ==
  ASSUME IInv, NEW c \in Clients, op[c].pc # "idle", UNCHANGED file,
         \A d \in Clients : op'[d].pc = "idle",
         \/ /\ op[c].pc = "write" /\ Written(c) = Len(op[c].lines)
            /\ reply' = [tag |-> "ok", rows |-> {}]
         \/ reply' = [tag |-> "error", rows |-> {}]
  PROVE  Abstract!Next
<1>1. IsOp(op[c]) /\ Writing(op[c]) /\ op[c].path \in Paths
  BY Writer
<1>2. \A path \in Paths : View(path)' = Current(path)
  BY ViewsNext
<1>3. \A path \in Paths : View(path) = IF op[c].path = path THEN op[c].read ELSE Current(path)
  BY Views
<1>4. CASE op[c].pc # "write"
  <2>1. op[c].read = Current(op[c].path)
    BY <1>1, <1>4 DEF IsOp, Writing
  <2>2. \A path \in Paths : View(path)' = View(path)
    BY <1>2, <1>3, <2>1
  <2>3. /\ View("schedule")' = View("schedule") /\ View("optimization")' = View("optimization")
        /\ View("state")' = View("state")
    BY <2>2 DEF Paths
  <2>4. /\ Table("schedule")' = Table("schedule")
        /\ Table("optimization")' = Table("optimization")
        /\ Committed("state", Settings)' = Committed("state", Settings)
    BY <2>3, Mapped, MappedNext
  <2>5. Abstract!Reads
    BY <1>4, <2>4 DEF Abstract!Reads, Abstract!Answer
  <2>. QED BY <2>5 DEF Abstract!Next
<1>5. CASE op[c].pc = "write"
  <2>0. PICK p, read, lines, now :
          p = op[c].path /\ read = op[c].read /\ lines = op[c].lines /\ now = file[p]
    <3>1. PICK p : p = op[c].path
      OBVIOUS
    <3>2. \E read, lines, now : read = op[c].read /\ lines = op[c].lines /\ now = file[p]
      OBVIOUS
    <3>. QED BY <3>1, <3>2
  <2>1. /\ IsFile(p, read) /\ IsFile(p, lines) /\ Outcome(p, read, lines)
        /\ p \in DOMAIN file /\ IsPrefix(now, lines) /\ p \in Paths
    BY <1>1, <1>5, <2>0 DEF Writing
  <2>2. Current(p) = now
    BY <2>0, <2>1 DEF Current, Settings, Lines
  <2>3. IsFile(p, now)
    BY <2>0, <2>1 DEF IInv, FilesOK
  <2>4. Written(c) = Len(op[c].lines) => now = lines
    <3>1. now \in LinesOf(p) /\ lines \in LinesOf(p)
      BY <2>1, <2>3 DEF IsFile
    <3>2. PICK E : LinesOf(p) = Seq(E)
      BY DEF LinesOf
    <3>3. now \in Seq(E) /\ lines \in Seq(E) /\ \A i \in 1..Len(now) : now[i] = lines[i]
      BY <2>1, <3>1, <3>2, PrefixIs
    <3>4. Len(now) = Len(lines) => now = lines
      BY <3>3, SameList
    <3>. QED BY <2>0, <3>4 DEF Written
  <2>5. View(p) = read /\ View(p)' = now /\ \A q \in Paths : q # p => View(q)' = View(q)
    BY <1>2, <1>3, <2>0, <2>1, <2>2
  <2>. QED BY <2>0, <2>1, <2>3, <2>4, <2>5, AbstractWrite
<1>. QED BY <1>4, <1>5

\* A read answers what the tables say.
LEMMA AbstractRead ==
  ASSUME IInv,
         \/ \E t \in Times : Select(t) \/ Find(t) \/ \E m \in Methods : SelectOptimization(m, t)
         \/ \E f \in Fields : GetField(f)
         \/ ReadError
  PROVE  Abstract!Next
<1>1. UNCHANGED <<file, op>> /\ \A c \in Clients : op[c].pc = "idle"
  BY DEF Select, Find, SelectOptimization, GetField, Reply, ReadError, Unlocked
<1>2. \A path \in Paths : View(path)' = Current(path) /\ View(path) = Current(path)
  BY <1>1, ViewsNext, Views
<1>3. /\ View("schedule")' = View("schedule") /\ View("optimization")' = View("optimization")
      /\ View("state")' = View("state") /\ View("state") = Settings
      /\ View("schedule") = Lines("schedule") /\ View("optimization") = Lines("optimization")
  BY <1>2 DEF Paths, Current
<1>4. /\ Table("schedule")' = Table("schedule")
      /\ Table("optimization")' = Table("optimization")
      /\ Committed("state", Settings)' = Committed("state", Settings)
  BY <1>3, Mapped, MappedNext
<1>5. /\ Table("schedule") = TableOf(Times, Lines("schedule"))
      /\ Table("optimization") = TableOf(Methods \X Times, Lines("optimization"))
      /\ Committed("state", Settings) = Settings
  BY <1>3, Mapped
<1>6. /\ IsFile("schedule", Lines("schedule")) /\ IsFile("optimization", Lines("optimization"))
      /\ IsFile("state", Settings)
  BY <1>3, ViewIsFile DEF Paths
<1>7. ASSUME NEW K, NEW lines \in Seq(LineOf(K)), Distinct(lines), NEW J, J \subseteq K, NEW name
      PROVE  {<<name, line.key, line.val>> : line \in {l \in Range(lines) : l.key \in J}}
               = Abstract!Rows(name, TableOf(K, lines), J)
  <2> DEFINE A == {<<name, line.key, line.val>> : line \in {l \in Range(lines) : l.key \in J}}
             B == Abstract!Rows(name, TableOf(K, lines), J)
  <2>1. \A k \in K : TableOf(K, lines)[k] = ValueOf(lines, k)
    BY DEF TableOf
  <2>2. \A x : x \in B <=> \E k \in J : /\ ValueOf(lines, k) # NoValue
                                        /\ x = <<name, k, ValueOf(lines, k)>>
    BY <2>1, <1>7 DEF Abstract!Rows
  <2>3. \A x : x \in A <=> \E i \in DOMAIN lines : /\ lines[i].key \in J
                                                   /\ x = <<name, lines[i].key, lines[i].val>>
    BY DEF Range
  <2>4. ASSUME NEW i \in DOMAIN lines
        PROVE  ValueOf(lines, lines[i].key) = lines[i].val /\ lines[i].val # NoValue
    <3>1. lines[i] \in LineOf(K)
      BY ElementOf
    <3>. QED BY <1>7, <3>1, ValueOfLine, LineFields, StoreAssumption
  <2>. HIDE DEF A, B
  <2>5. A \subseteq B
    BY <2>2, <2>3, <2>4
  <2>6. ASSUME NEW k \in J, ValueOf(lines, k) # NoValue
        PROVE  \E i \in DOMAIN lines : lines[i].key = k
    BY <2>6 DEF ValueOf, Has
  <2>7. B \subseteq A
    <3> SUFFICES ASSUME NEW x \in B PROVE x \in A
      OBVIOUS
    <3>1. PICK k \in J : ValueOf(lines, k) # NoValue /\ x = <<name, k, ValueOf(lines, k)>>
      BY <2>2
    <3>2. PICK i \in DOMAIN lines : lines[i].key = k
      BY <2>6, <3>1
    <3>. QED BY <2>3, <2>4, <3>1, <3>2
  <2>8. A = B
    BY <2>5, <2>7
  <2>. QED BY <2>8 DEF A, B
<1>8. ASSUME NEW J, J \subseteq Times
      PROVE  RowsOf("schedule", J) = Abstract!Rows("schedule", Table("schedule"), J)
  <2>1. Lines("schedule") \in Seq(LineOf(Times)) /\ Distinct(Lines("schedule"))
    BY <1>6 DEF IsFile, LinesOf, Keys
  <2>2. {<<"schedule", line.key, line.val>> :
           line \in {l \in Range(Lines("schedule")) : l.key \in J}}
          = Abstract!Rows("schedule", TableOf(Times, Lines("schedule")), J)
    BY <1>7, <1>8, <2>1
  <2>. QED BY <1>5, <2>2 DEF RowsOf
<1>9. ASSUME NEW J, J \subseteq Methods \X Times
      PROVE  RowsOf("optimization", J) = Abstract!Rows("optimization", Table("optimization"), J)
  <2>0. PICK K : K = Methods \X Times
    OBVIOUS
  <2>1. Lines("optimization") \in Seq(LineOf(K)) /\ Distinct(Lines("optimization")) /\ J \subseteq K
    BY <1>6, <1>9, <2>0 DEF IsFile, LinesOf, Keys
  <2>2. {<<"optimization", line.key, line.val>> :
           line \in {l \in Range(Lines("optimization")) : l.key \in J}}
          = Abstract!Rows("optimization", TableOf(K, Lines("optimization")), J)
    BY <1>7, <2>1
  <2>3. Table("optimization") = TableOf(K, Lines("optimization"))
    BY <1>5, <2>0
  <2>. QED BY <2>2, <2>3 DEF RowsOf
<1>. SUFFICES Abstract!Reads
  BY DEF Abstract!Next
<1>10. ASSUME NEW t \in Times, Select(t) PROVE Abstract!Reads
  <2>1. RowsOf("schedule", {u \in Times : u > t})
          = Abstract!Rows("schedule", Table("schedule"), {u \in Times : u > t})
    BY <1>8
  <2>. QED BY <1>4, <1>10, <2>1 DEF Select, Reply, Answer, Abstract!Reads, Abstract!Answer
<1>11. ASSUME NEW t \in Times, Find(t) PROVE Abstract!Reads
  <2> DEFINE lines == Lines("schedule")
             found == IF Has(lines, t) THEN {<<"schedule", t, lines[PositionOf(lines, t)].val>>} ELSE {}
  <2>1. lines \in Seq(LineOf(Times)) /\ Distinct(lines)
    BY <1>6 DEF IsFile, LinesOf, Keys
  <2>2. Table("schedule")[t] = ValueOf(lines, t)
    BY <1>5 DEF TableOf
  <2>3. found = Abstract!Rows("schedule", Table("schedule"), {t})
    <3>1. CASE Has(lines, t)
      <4>1. ValueOf(lines, t) \in Values /\ ValueOf(lines, t) = lines[PositionOf(lines, t)].val
        BY <2>1, <3>1, ValueType DEF ValueOf
      <4>. QED BY <2>2, <3>1, <4>1, StoreAssumption DEF Abstract!Rows
    <3>2. CASE ~Has(lines, t)
      <4>1. ValueOf(lines, t) = NoValue
        BY <3>2 DEF ValueOf
      <4>. QED BY <2>2, <3>2, <4>1 DEF Abstract!Rows
    <3>. QED BY <3>1, <3>2
  <2>4. reply' = [tag |-> "rows", rows |-> found]
    BY <1>11 DEF Find, Reply, Answer
  <2>. HIDE DEF found
  <2>. QED BY <1>4, <2>3, <2>4 DEF Abstract!Reads, Abstract!Answer
<1>12. ASSUME NEW m \in Methods, NEW t \in Times, SelectOptimization(m, t) PROVE Abstract!Reads
  <2> DEFINE J == {k \in {m} \X Times : k[2] >= t}
  <2>1. RowsOf("optimization", J) = Abstract!Rows("optimization", Table("optimization"), J)
    <3>1. J \subseteq Methods \X Times
      OBVIOUS
    <3>. HIDE DEF J
    <3>. QED BY <1>9, <3>1
  <2>2. reply' = [tag |-> "rows", rows |-> RowsOf("optimization", J)]
    BY <1>12 DEF SelectOptimization, Reply, Answer
  <2>3. reply' = [tag |-> "rows",
                  rows |-> Abstract!Rows("optimization", Table("optimization"), J)]
    BY <2>1, <2>2
  <2>. QED BY <1>4, <2>3 DEF Abstract!Reads, Abstract!Answer
<1>13. ASSUME NEW f \in Fields, GetField(f) PROVE Abstract!Reads
  <2>1. Settings # <<>> /\ reply' = [tag |-> "value", rows |-> {<<"state", f, Settings[1][f]>>}]
    BY <1>13 DEF GetField, Reply, Answer
  <2>2. Settings[1] \in [Fields -> Values]
    BY <1>6, <2>1 DEF IsFile, LinesOf
  <2>3. Settings[1] # Unreadable /\ Abstract!Unreadable = Unreadable
    <3>1. Settings[1][f] # Unreadable[f]
      BY <2>2, StoreAssumption DEF Unreadable
    <3>. QED BY <3>1 DEF Unreadable, Abstract!Unreadable
  <2> DEFINE now == IF Committed("state", Settings) = <<>> THEN Unreadable
                    ELSE Committed("state", Settings)[1]
  <2>4. now = Settings[1] /\ now' = now
    BY <1>4, <1>5, <2>1 DEF Unreadable
  <2>5. \E g \in Fields : /\ now # Abstract!Unreadable
                          /\ reply' = [tag |-> "value", rows |-> {<<"state", g, now[g]>>}]
    <3>. HIDE DEF now
    <3>. QED BY <2>1, <2>3, <2>4
  <2>. QED BY <1>4, <2>4, <2>5 DEF Abstract!Reads, Abstract!Answer
<1>14. CASE ReadError
  BY <1>4, <1>14 DEF ReadError, Answer, Abstract!Reads, Abstract!Answer
<1>. QED BY <1>10, <1>11, <1>12, <1>13, <1>14

\* A write that begins changes no view.
LEMMA AbstractBegin ==
  ASSUME IInv, NEW c \in Clients, NEW path, NEW lines,
         Begin(c, path, Current(path), lines)
  PROVE  UNCHANGED Abstract!vars
<1>1. /\ UNCHANGED <<file, reply>> /\ \A d \in Clients : op[d].pc = "idle"
      /\ op' = [op EXCEPT ![c] = [pc |-> "open", path |-> path, read |-> Current(path),
                                  lines |-> lines]]
  BY DEF Begin, LockFree
<1>2. \A d \in Clients : op'[d].pc # "write"
  BY <1>1 DEF IInv
<1>3. \A q \in Paths : View(q)' = Current(q) /\ View(q) = Current(q)
  BY <1>1, <1>2, ViewsNext, Views
<1>. QED BY <1>1, <1>3, AbstractStutter

\* A write that goes on changes no view, whatever is in the file meanwhile.
LEMMA AbstractWriting ==
  ASSUME IInv, NEW c \in Clients, op[c].pc # "idle", UNCHANGED reply,
         op' = [op EXCEPT ![c].pc = "write"],
         \A q \in Paths : q # op[c].path => Current(q)' = Current(q)
  PROVE  UNCHANGED Abstract!vars
<1>1. \A d \in Clients : d # c => op[d].pc = "idle"
  BY Writer
<1>2. PICK p, read : p = op[c].path /\ read = op[c].read
  OBVIOUS
<1>3. /\ op'[c].pc = "write" /\ op'[c].path = p /\ op'[c].read = read
      /\ \A d \in Clients : d # c => op'[d].pc = "idle"
  BY <1>1, <1>2, Writer DEF IInv, IsOp
<1>4. ASSUME NEW q \in Paths, q # p PROVE View(q)' = View(q)
  <2>1. \A d \in Clients : ~(op'[d].pc = "write" /\ op'[d].path = q)
    BY <1>3, <1>4
  <2>2. View(q)' = Current(q)'
    BY <2>1 DEF View, Committed
  <2>. QED BY <1>2, <1>4, <2>2, Views
<1>5. View(p)' = View(p)
  <2> DEFINE IsWriter(d) == op'[d].pc = "write" /\ op'[d].path = p
  <2>1. \A d \in Clients : IsWriter(d) <=> d = c
    BY <1>3
  <2>2. (CHOOSE d \in Clients : IsWriter(d)) = c
    <3>. HIDE DEF IsWriter
    <3>. QED BY <2>1
  <2>3. View(p)' = read
    BY <1>3, <2>1, <2>2 DEF View, Committed
  <2>. QED BY <1>2, <2>3, Views, Writer
<1>. QED BY <1>4, <1>5, AbstractStutter

LEMMA AbstractStep == ASSUME IInv, [Next]_vars PROVE [Abstract!Next]_Abstract!vars
<1>1. ASSUME NEW c \in Clients,
             \/ \E t \in Times : Delete(c, t) \/ DeleteAnyOptimization(c, t)
             \/ \E t \in Times, v \in Values :
                  Upsert(c, t, v) \/ \E m \in Methods : InsertOptimization(c, m, t, v)
             \/ \E f \in Fields, v \in Values : SetField(c, f, v)
      PROVE  UNCHANGED Abstract!vars
  <2>1. \E path, lines : Begin(c, path, Current(path), lines)
    BY <1>1, CallsBegin
  <2>. QED BY <2>1, AbstractBegin
<1>2. ASSUME NEW c \in Clients, Open(c) PROVE [Abstract!Next]_Abstract!vars
  <2>1. op[c].pc = "open" /\ op[c].pc # "idle"
    BY <1>2 DEF Open
  <2>2. CASE op' = [op EXCEPT ![c] = Idle] /\ Answer("error", {}) /\ UNCHANGED file
    <3>1. \A d \in Clients : op'[d].pc = "idle"
      BY <2>1, <2>2, Writer, IdleOp DEF IInv
    <3>. QED BY <2>1, <2>2, <3>1, AbstractEnd DEF Answer
  <2>3. CASE /\ file' = [path \in DOMAIN file \cup {op[c].path} |->
                          IF path = op[c].path THEN <<>> ELSE file[path]]
             /\ op' = [op EXCEPT ![c].pc = "write"]
             /\ UNCHANGED reply
    <3>1. \A q \in Paths : q # op[c].path => Current(q)' = Current(q)
      BY <2>3 DEF Current, Settings, Lines
    <3>. QED BY <2>1, <2>3, <3>1, AbstractWriting
  <2>. QED BY <1>2, <2>2, <2>3 DEF Open
<1>3. ASSUME NEW c \in Clients, WriteLine(c) PROVE [Abstract!Next]_Abstract!vars
  <2>1. op[c].pc = "write" /\ op[c].pc # "idle"
    BY <1>3 DEF WriteLine
  <2>2. CASE op' = [op EXCEPT ![c] = Idle] /\ Answer("error", {}) /\ UNCHANGED file
    <3>1. \A d \in Clients : op'[d].pc = "idle"
      BY <2>1, <2>2, Writer, IdleOp DEF IInv
    <3>. QED BY <2>1, <2>2, <3>1, AbstractEnd DEF Answer
  <2>3. CASE /\ file' = [file EXCEPT ![op[c].path] = Append(@, op[c].lines[Written(c) + 1])]
             /\ UNCHANGED <<op, reply>>
    <3>1. \A q \in Paths : q # op[c].path => Current(q)' = Current(q)
      BY <2>3 DEF Current, Settings, Lines
    <3>2. op' = [op EXCEPT ![c].pc = "write"]
      <4>1. op[c] = [op[c] EXCEPT !.pc = "write"]
        BY <2>1, Writer DEF IsOp
      <4>. QED BY <2>3, <4>1 DEF IInv
    <3>. QED BY <2>1, <2>3, <3>1, <3>2, AbstractWriting
  <2>. QED BY <1>3, <2>2, <2>3 DEF WriteLine
<1>4. ASSUME NEW c \in Clients, Unlock(c) PROVE Abstract!Next
  <2>1. op[c].pc = "write" /\ op[c].pc # "idle" /\ Written(c) = Len(op[c].lines)
    BY <1>4 DEF Unlock
  <2>2. \A d \in Clients : op'[d].pc = "idle"
    BY <1>4, <2>1, Writer, IdleOp DEF IInv, Unlock
  <2>. QED BY <1>4, <2>1, <2>2, AbstractEnd DEF Unlock, Answer
<1>5. CASE Crash
  <2>1. PICK c \in Clients : op[c].pc # "idle"
    BY <1>5 DEF Crash
  <2>2. \A d \in Clients : op'[d].pc = "idle"
    BY <1>5, IdleOp DEF Crash
  <2>. QED BY <1>5, <2>1, <2>2, AbstractEnd DEF Crash, Answer
<1>6. CASE \/ \E t \in Times : Select(t) \/ Find(t) \/ \E m \in Methods : SelectOptimization(m, t)
           \/ \E f \in Fields : GetField(f)
           \/ ReadError
  BY <1>6, AbstractRead
<1>7. CASE UNCHANGED vars
  <2>1. \A q \in Paths : View(q)' = View(q)
    BY <1>7 DEF vars, View, Committed, Current, Settings, Lines
  <2>. QED BY <1>7, <2>1, AbstractStutter DEF vars
<1>. QED BY <1>1, <1>2, <1>3, <1>4, <1>5, <1>6, <1>7 DEF Next

LEMMA AbstractInit == ASSUME Init PROVE Abstract!Init
<1>1. IInv /\ \A c \in Clients : op[c].pc = "idle"
  BY InitIInv, IdleOp DEF Init
<1>2. \A path \in Paths : View(path) = Current(path)
  BY <1>1, Views
<1>3. View("schedule") = <<>> /\ View("optimization") = <<>> /\ View("state") = <<Default>>
  BY <1>2 DEF Init, Paths, Current, Settings, Lines
<1>4. \A k : ValueOf(<<>>, k) = NoValue
  BY NoLine
<1>5. Table("schedule") = [t \in Times |-> NoValue]
      /\ Table("optimization") = [k \in Methods \X Times |-> NoValue]
      /\ Committed("state", Settings) = <<Default>>
  BY <1>3, <1>4, Mapped DEF TableOf
<1>. QED BY <1>5 DEF Init, Abstract!Init

(***************************************************************************)
(* The three files are a store: to its callers every call takes effect at  *)
(* once, a write that answers "ok" has its effect and no other, and one    *)
(* that fails or is cut short loses rows of its own table and nothing else.*)
(***************************************************************************)
THEOREM FileStoreIsStore == Spec => Promised
BY AbstractInit, AbstractStep, IInvAlways, PTL DEF Spec, Promised, Abstract!Spec
=============================================================================
