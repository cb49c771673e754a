----------------------------- MODULE FileStore -----------------------------
(***************************************************************************)
(* The store without a database (internal/store/file.go): three files and  *)
(* one read-write mutex.  Every write reads the whole file, truncates it   *)
(* and writes it again line by line; a write may fail and the program may  *)
(* stop at any line.                                                       *)
(*                                                                         *)
(* A line is a key and a value: the time of a schedule row, the method and *)
(* time of an optimisation row.  The key is matched as text; all times are *)
(* formatted in one zone, so equal texts are equal times.  A line is       *)
(* written whole or not at all.  The settings are a file of one line.      *)
(***************************************************************************)
EXTENDS Naturals, SequencesExt, Lists

CONSTANTS
  Clients,  \* goroutines that call the store
  Times, Methods, Fields, Values, Default, NoValue,   \* as in Store
  Calls     \* bound on the number of writes

ASSUME StoreAssumption ==
  /\ Times \subseteq Nat
  /\ NoValue \notin Values
  /\ Default \in [Fields -> Values]
  /\ Calls \in Nat

VARIABLES
  file,   \* the lines of each file that exists
  op,     \* what each client does in the store
  reply,  \* to the last call that ended
  left    \* what remains of Calls

vars == <<file, op, reply, left>>

Paths  == {"schedule", "optimization", "state"}
Idle   == [pc |-> "idle", path |-> "state", read |-> <<>>, lines |-> <<>>]

Line(k, v) == [key |-> k, val |-> v]

Answer(tag, rows) == reply' = [tag |-> tag, rows |-> rows]

-----------------------------------------------------------------------------
\* readLines: a file that does not exist has no lines.
Lines(path) == IF path \in DOMAIN file THEN file[path] ELSE <<>>

\* readState: the defaults when there is no file; an empty file is no JSON.
Settings == IF "state" \in DOMAIN file THEN file["state"] ELSE <<Default>>

Has(lines, k)        == \E i \in DOMAIN lines : lines[i].key = k
PositionOf(lines, k) == CHOOSE i \in DOMAIN lines :
                          lines[i].key = k /\ \A j \in 1..(i - 1) : lines[j].key # k

\* Mutant: the row is appended whether or not the file has it.
Appended(lines, k, v) == Append(lines, Line(k, v))

\* The loop of Upsert and InsertOptimization: the first line of the key, or a new one.
Put(lines, k, v) ==
  IF Has(lines, k) THEN [lines EXCEPT ![PositionOf(lines, k)] = Line(k, v)]
  ELSE Append(lines, Line(k, v))

\* The loop of Delete and DeleteAnyOptimization: the lines of the other keys.
Without(lines, K) == Filter(lines, {line \in Range(lines) : line.key \notin K})

\* Mutant: readers wait only for a writer that has not begun to write.
UnlockedUntilWrite == \A c \in Clients : op[c].pc # "open"

\* RLock: no client is in a write.
Unlocked == \A c \in Clients : op[c].pc = "idle"

\* Mutant: a lock for each file, but the readers' one for all.
LockOfFile(path) == \A c \in Clients : op[c].pc = "idle" \/ op[c].path # path

\* Lock: one mutex for the three files.
LockFree(path) == \A c \in Clients : op[c].pc = "idle"

(***************************************************************************)
(* Lock, then read the lines of a file and make the new ones of them.      *)
(***************************************************************************)
Begin(c, path, read, lines) ==
  /\ op[c].pc = "idle" /\ LockFree(path)
  /\ left > 0 /\ left' = left - 1
  /\ op' = [op EXCEPT ![c] = [pc |-> "open", path |-> path, read |-> read, lines |-> lines]]
  /\ UNCHANGED <<file, reply>>

Upsert(c, t, v) ==
  Begin(c, "schedule", Lines("schedule"), Put(Lines("schedule"), t, v))

Delete(c, t) ==
  Begin(c, "schedule", Lines("schedule"), Without(Lines("schedule"), {t}))

InsertOptimization(c, m, t, v) ==
  Begin(c, "optimization", Lines("optimization"), Put(Lines("optimization"), <<m, t>>, v))

DeleteAnyOptimization(c, t) ==
  Begin(c, "optimization", Lines("optimization"), Without(Lines("optimization"), Methods \X {t}))

SetField(c, f, v) ==
  /\ Settings # <<>>
  /\ Begin(c, "state", Settings, <<[Settings[1] EXCEPT ![f] = v]>>)

\* A file that cannot be read or a state that cannot be parsed.
ReadError ==
  /\ Unlocked
  /\ Answer("error", {})
  /\ UNCHANGED <<file, op, left>>

\* O_TRUNC.
Open(c) ==
  /\ op[c].pc = "open"
  /\ \/ /\ file' = [path \in DOMAIN file \cup {op[c].path} |->
                     IF path = op[c].path THEN <<>> ELSE file[path]]
        /\ op' = [op EXCEPT ![c].pc = "write"]
        /\ UNCHANGED reply
     \/ op' = [op EXCEPT ![c] = Idle] /\ Answer("error", {}) /\ UNCHANGED file
  /\ UNCHANGED left

Written(c) == Len(file[op[c].path])

WriteLine(c) ==
  /\ op[c].pc = "write" /\ Written(c) < Len(op[c].lines)
  /\ \/ /\ file' = [file EXCEPT ![op[c].path] = Append(@, op[c].lines[Written(c) + 1])]
        /\ UNCHANGED <<op, reply>>
     \/ op' = [op EXCEPT ![c] = Idle] /\ Answer("error", {}) /\ UNCHANGED file
  /\ UNCHANGED left

Unlock(c) ==
  /\ op[c].pc = "write" /\ Written(c) = Len(op[c].lines)
  /\ op' = [op EXCEPT ![c] = Idle]
  /\ Answer("ok", {})
  /\ UNCHANGED <<file, left>>

-----------------------------------------------------------------------------
RowsOf(path, K) ==
  {<<path, line.key, line.val>> : line \in {l \in Range(Lines(path)) : l.key \in K}}

Reply(tag, rows) == Unlocked /\ Answer(tag, rows) /\ UNCHANGED <<file, op, left>>

Select(t) ==
  Reply("rows", RowsOf("schedule", {u \in Times : u > t}))

Find(t) ==
  LET lines == Lines("schedule") IN
  Reply("rows", IF Has(lines, t) THEN {<<"schedule", t, lines[PositionOf(lines, t)].val>>} ELSE {})

SelectOptimization(m, t) ==
  Reply("rows", RowsOf("optimization", {k \in {m} \X Times : k[2] >= t}))

GetField(f) ==
  /\ Settings # <<>>
  /\ Reply("value", {<<"state", f, Settings[1][f]>>})

\* The program restarts; newFileStore keeps the files it finds.
Crash ==
  /\ \E c \in Clients : op[c].pc # "idle"
  /\ op' = [c \in Clients |-> Idle]
  /\ Answer("error", {})
  /\ UNCHANGED <<file, left>>

Init ==
  /\ file = [path \in {"schedule"} |-> <<>>]
  /\ op = [c \in Clients |-> Idle]
  /\ reply = [tag |-> "none", rows |-> {}]
  /\ left = Calls

Next ==
  \/ \E c \in Clients :
       \/ \E t \in Times : Delete(c, t) \/ DeleteAnyOptimization(c, t)
       \/ \E t \in Times, v \in Values :
            Upsert(c, t, v) \/ \E m \in Methods : InsertOptimization(c, m, t, v)
       \/ \E f \in Fields, v \in Values : SetField(c, f, v)
       \/ Open(c) \/ WriteLine(c) \/ Unlock(c)
  \/ \E t \in Times : Select(t) \/ Find(t) \/ \E m \in Methods : SelectOptimization(m, t)
  \/ \E f \in Fields : GetField(f)
  \/ ReadError \/ Crash

Spec == Init /\ [][Next]_vars

-----------------------------------------------------------------------------
Keys(path) == IF path = "schedule" THEN Times ELSE Methods \X Times

(***************************************************************************)
(* Every file has lines of its kind and at most one client is in a write.  *)
(***************************************************************************)
TypeOK ==
  /\ \A path \in Paths \ {"state"} :
       Lines(path) \in Seq([key : Keys(path), val : Values])
  /\ Len(Settings) <= 1 /\ \A i \in DOMAIN Settings : Settings[i] \in [Fields -> Values]
  /\ left \in 0..Calls
  /\ \A c, d \in Clients : op[c].pc # "idle" /\ op[d].pc # "idle" => c = d

(***************************************************************************)
(* No file has two lines of one key, and a file being written has the      *)
(* first of its new lines, whatever writes failed or were cut short.       *)
(***************************************************************************)
OneLinePerKey ==
  /\ \A path \in Paths \ {"state"} : \A i, j \in DOMAIN Lines(path) :
       Lines(path)[i].key = Lines(path)[j].key => i = j
  /\ \A c \in Clients : op[c].pc = "write" => IsPrefix(file[op[c].path], op[c].lines)

(***************************************************************************)
(* What the store promises.  A file counts as what its writer has read     *)
(* until the writer unlocks it.                                            *)
(***************************************************************************)
Committed(path, now) ==
  IF \E c \in Clients : op[c].pc = "write" /\ op[c].path = path
  THEN op[CHOOSE c \in Clients : op[c].pc = "write" /\ op[c].path = path].read
  ELSE now

ValueOf(lines, k) == IF Has(lines, k) THEN lines[PositionOf(lines, k)].val ELSE NoValue

Table(path) == [k \in Keys(path) |-> ValueOf(Committed(path, Lines(path)), k)]

Unreadable == [f \in Fields |-> NoValue]

Abstract == INSTANCE Store WITH
  schedule <- Table("schedule"),
  optimization <- Table("optimization"),
  settings <- IF Committed("state", Settings) = <<>> THEN Unreadable ELSE Committed("state", Settings)[1]

Promised == Abstract!Spec
=============================================================================
