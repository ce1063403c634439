---------------------------- MODULE AttemptsProofs ----------------------------
(***************************************************************************)
(* Proofs about Attempts, for every value of its constants: that answers   *)
(* agree, that a refusal means a new record, and that a projection which   *)
(* its seal vouches for is the table.                                      *)
(*                                                                         *)
(* IInv is inductive.  Table says of the rows that nobody writes two of    *)
(* them and no two share a key or a stamp; Answered of every answer which  *)
(* row it names; Windows who holds a slot; Sealed what the sidecar and the *)
(* file say of each other; Work how far the holder of the file lock has    *)
(* come, and what its next call may rely on.                               *)
(***************************************************************************)
EXTENDS Attempts, FiniteSetTheorems, SequenceTheorems, TLAPS

Elements(s) == {s[i] : i \in 1 .. Len(s)}
Once(s)     == \A i, j \in 1 .. Len(s) : s[i] = s[j] => i = j

(* A sequence over whatever its elements are.                               *)
Listed(s) == s \in Seq(Elements(s))

-----------------------------------------------------------------------------
(* The order of the projection.                                             *)

Those(n) == {rows[i] : i \in 1 .. n}

Ranked(S, f, k) == CHOOSE r \in S : Cardinality({q \in S : f[q] < f[r]}) = k - 1
Sorted(S, f, n) == [k \in 1 .. n |-> Ranked(S, f, k)]

LEMMA OrderedSorted ==
    ASSUME NEW n \in Nat
    PROVE  Ordered(n) = Sorted(Those(n), stamp, n)
  BY DEF Ordered, Sorted, Ranked, Those

(* Only the stamps of the rows decide.                                      *)
LEMMA SortedSame ==
    ASSUME NEW S, NEW f, NEW g, NEW n \in Nat, \A r \in S : f[r] = g[r]
    PROVE  Sorted(S, f, n) = Sorted(S, g, n)
  <1> DEFINE F(r) == {q \in S : f[q] < f[r]}
             G(r) == {q \in S : g[q] < g[r]}
  <1>1. \A r \in S : F(r) = G(r)
    OBVIOUS
  <1>2. ASSUME NEW k \in 1 .. n
        PROVE  Ranked(S, f, k) = Ranked(S, g, k)
    <2>1. (CHOOSE r \in S : Cardinality(F(r)) = k - 1) =
          (CHOOSE r \in S : Cardinality(G(r)) = k - 1)
      <3> HIDE DEF F, G
      <3>1. \A r : r \in S /\ Cardinality(F(r)) = k - 1 <=> r \in S /\ Cardinality(G(r)) = k - 1
        BY <1>1
      <3> QED
        BY <3>1
    <2> QED
      BY <2>1 DEF Ranked
  <1> QED
    BY <1>2 DEF Sorted

(* T is S with m, which all n - 1 members of S precede.                     *)
Tops(S, T, f, m, n) ==
    /\ n \in Nat \ {0} /\ IsFiniteSet(S) /\ Cardinality(S) = n - 1
    /\ m \notin S /\ T = S \cup {m}
    /\ \A q \in T : f[q] \in Nat
    /\ \A q \in S : f[q] < f[m]

(* A row that all others precede comes last, and leaves the others where    *)
(* they are.                                                                *)
LEMMA SortedGrows ==
    ASSUME NEW S, NEW T, NEW f, NEW m, NEW n \in Nat, Tops(S, T, f, m, n)
    PROVE  /\ Sorted(T, f, n)[n] = m
           /\ \A k \in 1 .. n - 1 : Sorted(T, f, n)[k] = Sorted(S, f, n - 1)[k]
  <1> USE DEF Tops
  <1> DEFINE Before(r)  == {q \in S : f[q] < f[r]}
             Earlier(r) == {q \in T : f[q] < f[r]}
  <1>1. \A r \in S : Earlier(r) = Before(r)
    OBVIOUS
  <1>2. Earlier(m) = S
    OBVIOUS
  <1>3. ASSUME NEW r \in S
        PROVE  Cardinality(Before(r)) \in Nat /\ Cardinality(Before(r)) < n - 1
    <2>1. /\ IsFiniteSet(S \ {r})
          /\ Cardinality(S \ {r}) = n - 2
      BY FS_RemoveElement
    <2>2. Before(r) \in SUBSET (S \ {r})
      OBVIOUS
    <2> HIDE DEF Before
    <2>3. IsFiniteSet(Before(r)) /\ Cardinality(Before(r)) <= n - 2
      BY <2>1, <2>2, FS_Subset
    <2> QED
      BY <2>3, FS_CardinalityType
  <1>4. \A r \in T : Cardinality(Earlier(r)) = n - 1 <=> r = m
    <2> HIDE DEF Earlier, Before
    <2> QED
      BY <1>1, <1>2, <1>3
  <1>5. ASSUME NEW k \in 1 .. n - 1
        PROVE  Ranked(T, f, k) = Ranked(S, f, k)
    <2>1. \A r : r \in T /\ Cardinality(Earlier(r)) = k - 1 <=>
                 r \in S /\ Cardinality(Before(r)) = k - 1
      <3> HIDE DEF Earlier, Before
      <3> QED
        BY <1>1, <1>2, k - 1 # n - 1
    <2>2. (CHOOSE r \in T : Cardinality(Earlier(r)) = k - 1) =
          (CHOOSE r \in S : Cardinality(Before(r)) = k - 1)
      <3> HIDE DEF Earlier, Before
      <3> QED
        BY <2>1
    <2> QED
      BY <2>2 DEF Ranked
  <1>6. Ranked(T, f, n) = m
    <2>1. m \in T
      OBVIOUS
    <2>2. (CHOOSE r \in T : Cardinality(Earlier(r)) = n - 1) = m
      <3> HIDE DEF Earlier
      <3> QED
        BY <1>4, <2>1
    <2> QED
      BY <2>2 DEF Ranked
  <1> HIDE DEF Earlier, Before
  <1>7. Sorted(T, f, n)[n] = m
    BY <1>6 DEF Sorted
  <1>8. ASSUME NEW k \in 1 .. n - 1 PROVE Sorted(T, f, n)[k] = Sorted(S, f, n - 1)[k]
    <2>1. k \in 1 .. n
      OBVIOUS
    <2>2. Sorted(T, f, n)[k] = Ranked(T, f, k) /\ Sorted(S, f, n - 1)[k] = Ranked(S, f, k)
      BY <2>1 DEF Sorted
    <2> QED
      BY <1>5, <2>2
  <1> QED
    BY <1>7, <1>8

LEMMA ThoseCounted ==
    ASSUME rows \in Seq(Requests), Once(rows), NEW n \in 0 .. Len(rows)
    PROVE  IsFiniteSet(Those(n)) /\ Cardinality(Those(n)) = n
  <1> DEFINE f == [i \in 1 .. n |-> rows[i]]
  <1>1. f \in Bijection(1 .. n, Those(n))
    BY DEF Bijection, Injection, Surjection, IsInjective, Those, Once
  <1>2. IsFiniteSet(1 .. n) /\ Cardinality(1 .. n) = n
    BY FS_Interval
  <1> QED
    BY <1>1, <1>2, FS_Bijection DEF ExistsBijection

LEMMA OrderedListed ==
    ASSUME NEW n \in Nat
    PROVE  Listed(Ordered(n)) /\ Len(Ordered(n)) = n /\ DOMAIN Ordered(n) = 1 .. n
  <1>1. DOMAIN Ordered(n) = 1 .. n
    BY DEF Ordered
  <1>2. Ordered(n) = [k \in 1 .. n |-> Ordered(n)[k]]
    BY OrderedSorted DEF Sorted
  <1>3. Ordered(n) \in Seq({Ordered(n)[k] : k \in 1 .. n})
    <2> DEFINE T == {Ordered(n)[k] : k \in 1 .. n}
    <2>1. \A k \in 1 .. n : Ordered(n)[k] \in T
      OBVIOUS
    <2> HIDE DEF T
    <2>2. [k \in 1 .. n |-> Ordered(n)[k]] \in Seq(T)
      BY <2>1
    <2>3. Ordered(n) \in Seq(T)
      BY <1>2, <2>2
    <2> QED
      BY <2>3 DEF T
  <1>4. Len(Ordered(n)) = n
    BY <1>1, <1>3
  <1> QED
    BY <1>1, <1>3, <1>4 DEF Listed, Elements

(* The next row, where it sorts last.                                       *)
LEMMA OrderedGrows ==
    ASSUME rows \in Seq(Requests), Once(rows), stamp \in [Requests -> Nat],
           NEW n \in 1 .. Len(rows),
           \A i \in 1 .. n - 1 : stamp[rows[i]] < stamp[rows[n]]
    PROVE  /\ Ordered(n)[n] = rows[n]
           /\ \A k \in 1 .. n - 1 : Ordered(n)[k] = Ordered(n - 1)[k]
  <1> DEFINE S == Those(n - 1)
             m == rows[n]
  <1>1. S \cup {m} = Those(n)
    BY DEF Those
  <1>2. IsFiniteSet(S) /\ Cardinality(S) = n - 1
    <2>1. n - 1 \in 0 .. Len(rows)
      OBVIOUS
    <2> QED
      BY <2>1, ThoseCounted
  <1>3. m \notin S /\ \A q \in S : stamp[q] < stamp[m]
    BY DEF Those
  <1>4. \A q \in S \cup {m} : stamp[q] \in Nat
    BY DEF Those
  <1>5. n \in Nat \ {0} /\ n - 1 \in Nat
    OBVIOUS
  <1> HIDE DEF S, m
  <1>6. Tops(S, Those(n), stamp, m, n)
    BY <1>1, <1>2, <1>3, <1>4, <1>5 DEF Tops
  <1>7. /\ Sorted(Those(n), stamp, n)[n] = m
        /\ \A k \in 1 .. n - 1 : Sorted(Those(n), stamp, n)[k] = Sorted(S, stamp, n - 1)[k]
    BY <1>5, <1>6, SortedGrows
  <1>8. Ordered(n) = Sorted(Those(n), stamp, n) /\ Ordered(n - 1) = Sorted(S, stamp, n - 1)
    BY <1>5, OrderedSorted DEF S
  <1> QED
    BY <1>7, <1>8 DEF m

(* Where a row sorts after all the others it is the last line.              *)
LEMMA OrderedLast ==
    ASSUME rows \in Seq(Requests), Once(rows), stamp \in [Requests -> Nat],
           NEW n \in 1 .. Len(rows), NEW j \in 1 .. n,
           \A i \in 1 .. n : i # j => stamp[rows[i]] < stamp[rows[j]]
    PROVE  Ordered(n)[n] = rows[j]
  <1> DEFINE m == rows[j]
             S == Those(n) \ {m}
  <1>1. m \in Those(n) /\ S \cup {m} = Those(n) /\ m \notin S
    BY DEF Those
  <1>2. IsFiniteSet(S) /\ Cardinality(S) = n - 1
    <2>1. IsFiniteSet(Those(n)) /\ Cardinality(Those(n)) = n
      BY ThoseCounted
    <2> QED
      BY <1>1, <2>1, FS_RemoveElement
  <1>3. \A q \in S : stamp[q] < stamp[m]
    BY DEF Those
  <1>4. \A q \in Those(n) : stamp[q] \in Nat
    BY DEF Those
  <1>5. n \in Nat \ {0}
    OBVIOUS
  <1> HIDE DEF S, m
  <1>6. Tops(S, Those(n), stamp, m, n)
    BY <1>1, <1>2, <1>3, <1>4, <1>5 DEF Tops
  <1> QED
    BY <1>5, <1>6, SortedGrows, OrderedSorted DEF m

(* What is appended to the table or taken from its end leaves the order of  *)
(* the rows before it.                                                      *)
LEMMA OrderedStays ==
    ASSUME NEW n \in Nat,
           \A i \in 1 .. n : rows'[i] = rows[i] /\ stamp'[rows[i]] = stamp[rows[i]]
    PROVE  Ordered(n)' = Ordered(n)
  <1>1. Those(n)' = Those(n)
    BY DEF Those
  <1>2. \A r \in Those(n) : stamp[r] = stamp'[r]
    BY DEF Those
  <1>3. Sorted(Those(n), stamp, n) = Sorted(Those(n), stamp', n)
    BY <1>2, SortedSame
  <1>4. Ordered(n)' = Sorted(Those(n)', stamp', n)
    BY DEF Ordered, Sorted, Ranked, Those
  <1> QED
    BY <1>1, <1>3, <1>4, OrderedSorted

-----------------------------------------------------------------------------
(* The invariant.                                                           *)

Past == {"project", "projecting", "done"}
Calls == {"idle", "look", "open", "append", "grown", "confirm", "render", "swap",
          "verify", "seal"}

Ops == [by : Actors \cup {Nobody}, at : Calls, way : {"rebuild", "append"}, id : Nat,
        change : Nat, size : Nat, upto : Nat, since : Nat, edits : Nat]

Types ==
    /\ rows \in Seq(Requests) /\ stamp \in [Requests -> Nat]
    /\ file.id \in Nat /\ file.change \in Nat /\ file.there \in BOOLEAN /\ Listed(file.lines)
    /\ file = [id |-> file.id, change |-> file.change, there |-> file.there,
               lines |-> file.lines]
    /\ sidecar \in [id : Nat, change : Nat, cursor : Nat, last : Requests \cup {Nobody}, tail : Nat]
    /\ window \in [Procs -> Seq(Requests)]
    /\ at \in [Actors -> Stations]
    /\ told \in [Actors -> [result : Results, row : Requests \cup {Nobody}]]
    /\ lock \in [Procs -> Actors \cup {Nobody}]
    /\ op \in Ops
    /\ spent \in [edits : Nat, crashes : Nat, restores : Nat]

Table ==
    /\ \A i \in 1 .. Len(rows) : at[rows[i]] \in Past
    /\ \A i, j \in 1 .. Len(rows) : KeyOf[rows[i]] = KeyOf[rows[j]] => i = j
    /\ \A i, j \in 1 .. Len(rows) : stamp[rows[i]] = stamp[rows[j]] => i = j
    /\ \A n \in 1 .. Len(rows) : \E j \in 1 .. n :
          \A i \in 1 .. n : i # j => stamp[rows[i]] < stamp[rows[j]]
    /\ \A r \in Requests : at[r] \in {"project", "projecting"} => r \in Elements(rows)

(* What may be told of a row q to r.                                        *)
TrueAnswer(r, result, q) ==
    /\ result \in {"projected", "pending", "duplicate"} =>
          q \in Elements(rows) /\ KeyOf[q] = KeyOf[r] /\ TargetOf[q] = TargetOf[r]
    /\ result = "conflict" =>
          q \in Elements(rows) /\ KeyOf[q] = KeyOf[r] /\ TargetOf[q] # TargetOf[r]

Answered ==
    /\ \A a \in Actors : at[a] # "done" => told[a] = Unanswered
    /\ spent.restores = 0 =>
          \A r \in Requests : TrueAnswer(r, told[r].result, told[r].row)

Windows ==
    \A p \in Procs :
        /\ Once(window[p])
        /\ \A r \in Elements(window[p]) :
              /\ ProcOf[r] = p /\ at[r] \notin {"new", "validate"}
              /\ told[r].result \notin {"duplicate", "conflict"}

Owner == op = Idle \/ (op.by \in Actors /\ at[op.by] = "projecting")

(* Lines that were rewritten in place between the append and its check pass  *)
(* as the table: a reading of the new line says nothing of those before it.  *)
Trusted == "rewrite" \notin RacingEdits
USE DEF Trusted

Anchor == sidecar.cursor \in 1 .. Len(rows) /\ rows[sidecar.cursor] = sidecar.last

Sealed ==
    /\ file.there => file.id >= 1
    /\ sidecar.id <= file.id
    /\ sidecar.id = file.id => sidecar.change <= file.change
    /\ Trusted /\ SealMatches(sidecar) /\ (sidecar.cursor = 0 \/ Anchor) =>
          file.lines = Ordered(sidecar.cursor)
    /\ Anchor => \A i \in 1 .. sidecar.cursor : stamp[rows[i]] <= sidecar.tail
    /\ sidecar.last \in Requests => at[sidecar.last] \in Past

AsFound == OnName /\ file.change = op.change

(* The open file still begins with what it held.                            *)
Begins ==
    /\ Len(file.lines) >= op.size
    /\ \A i \in 1 .. op.size : file.lines[i] = Ordered(op.upto - 1)[i]

Appender == {"open", "append", "grown", "confirm"}

(* What the file holds when the calls of its holder succeed.                *)
Content ==
    /\ op.at \in {"append", "grown", "confirm"} => op.size = op.upto - 1
    /\ op.at = "open" /\ AsFound => file.lines = Ordered(op.upto - 1)
    /\ op.at = "append" /\ OnName => Begins
    /\ op.at = "grown" /\ OnName => Begins /\ Len(file.lines) >= op.size + 1
    /\ op.at = "confirm" /\ AsFound => Begins /\ Len(file.lines) = op.size + 1
    /\ op.at \in {"verify", "seal"} /\ AsFound => file.lines = Ordered(op.upto)

Work ==
    /\ op.since <= Len(rows) /\ op.edits <= spent.edits
    /\ op.at \in Appender \cup {"swap", "verify", "seal"} =>
          op.since <= op.upto /\ op.upto <= Len(rows)
    /\ op.at \in Appender =>
          /\ op.upto >= 1
          /\ \A i \in 1 .. op.upto - 1 : stamp[rows[i]] < stamp[rows[op.upto]]
    /\ op.at \in Appender \cup {"verify", "seal"} =>
          op.id <= file.id /\ (op.id = file.id => op.change <= file.change)
    /\ Trusted => Content
    /\ op.at = "seal" /\ op.edits = spent.edits => AsFound

IInv == Types /\ Table /\ Answered /\ Windows /\ Owner /\ Sealed /\ Work

-----------------------------------------------------------------------------
(* What a step leaves alone.                                                *)

(* Nobody is thrown back behind the write, and nobody gets past it.         *)
Settles == \A r \in Requests :
    /\ at[r] \in Past => at'[r] \in Past
    /\ at'[r] \in {"project", "projecting"} => at[r] \in {"project", "projecting"}

LEMMA TableFrame ==
    ASSUME Types, Table, Settles, UNCHANGED <<rows, stamp>>
    PROVE  Table'
  <1>1. \A i \in 1 .. Len(rows) : rows[i] \in Requests
    BY DEF Types
  <1> QED
    BY <1>1 DEF Table, Settles, Elements

LEMMA SealedFrame ==
    ASSUME Types, Sealed, Settles, UNCHANGED <<rows, stamp, file, sidecar>>
    PROVE  Sealed'
  <1>1. sidecar.cursor \in Nat
    BY DEF Types
  <1>2. Ordered(sidecar.cursor)' = Ordered(sidecar.cursor)
    BY DEF Ordered
  <1> QED
    BY <1>1, <1>2 DEF Sealed, Settles, SealMatches, Anchor

LEMMA WorkFrame ==
    ASSUME Work, UNCHANGED <<rows, stamp, file, op, spent>>
    PROVE  Work'
  <1>1. Ordered(op.upto)' = Ordered(op.upto) /\ Ordered(op.upto - 1)' = Ordered(op.upto - 1)
    BY DEF Ordered
  <1> QED
    BY <1>1 DEF Work, Content, AsFound, OnName, Begins

(* Whoever is out of the file lock may move without its holder.             *)
LEMMA OwnerFrame ==
    ASSUME Owner, UNCHANGED op, \A a \in Actors : at[a] = "projecting" => at'[a] = "projecting"
    PROVE  Owner'
  BY DEF Owner, Idle

LEMMA WindowsFrame ==
    ASSUME Types, Windows, UNCHANGED window,
           \A r \in Requests :
              /\ at[r] \notin {"new", "validate"} => at'[r] \notin {"new", "validate"}
              /\ told'[r].result \in {"duplicate", "conflict"} =>
                    told[r].result \in {"duplicate", "conflict"}
    PROVE  Windows'
  <1>1. \A p \in Procs : Elements(window[p]) \subseteq Requests
    BY DEF Types, Elements
  <1> QED
    BY <1>1 DEF Windows

LEMMA AnswerTold ==
    ASSUME Types, Answered, NEW a \in Actors, NEW result \in Results,
           NEW q \in Requests \cup {Nobody}, Answers(a, result, q),
           UNCHANGED <<rows, spent>>,
           a \in Requests /\ spent.restores = 0 => TrueAnswer(a, result, q)
    PROVE  /\ Answered'
           /\ at' \in [Actors -> Stations] /\ lock' \in [Procs -> Actors \cup {Nobody}]
           /\ told' \in [Actors -> [result : Results, row : Requests \cup {Nobody}]]
           /\ at'[a] = "done" /\ told'[a] = [result |-> result, row |-> q]
           /\ \A b \in Actors \ {a} : at'[b] = at[b] /\ told'[b] = told[b]
  <1>1. /\ at'[a] = "done" /\ told'[a] = [result |-> result, row |-> q]
        /\ \A b \in Actors \ {a} : at'[b] = at[b] /\ told'[b] = told[b]
    BY DEF Types, Answers, Goes
  <1>2. /\ at' \in [Actors -> Stations] /\ lock' \in [Procs -> Actors \cup {Nobody}]
        /\ told' \in [Actors -> [result : Results, row : Requests \cup {Nobody}]]
    BY DEF Types, Answers, Goes, Unlocks, Stations
  <1>3. ASSUME NEW r \in Requests, spent.restores = 0
        PROVE  TrueAnswer(r, told[r].result, told[r].row)'
    <2>1. r \in Actors
      BY DEF Actors
    <2>2. CASE r = a
      BY <1>1, <1>3, <2>2 DEF TrueAnswer
    <2>3. CASE r # a
      BY <1>1, <1>3, <2>1, <2>3 DEF Answered, TrueAnswer
    <2> QED
      BY <2>2, <2>3
  <1> QED
    BY <1>1, <1>2, <1>3 DEF Answered

-----------------------------------------------------------------------------
(* The rate window.                                                         *)

LEMMA OneOut ==
    ASSUME NEW T, NEW s \in Seq(T), NEW i \in 1 .. Len(s)
    PROVE  LET r == RemoveAt(s, i)
           IN  /\ r \in Seq(T) /\ Len(r) = Len(s) - 1
               /\ \A j \in 1 .. Len(r) : r[j] = IF j < i THEN s[j] ELSE s[j + 1]
  <1> DEFINE a == SubSeq(s, 1, i - 1)
             z == SubSeq(s, i + 1, Len(s))
  <1>1. a \in Seq(T) /\ Len(a) = i - 1 /\ \A j \in 1 .. i - 1 : a[j] = s[j]
    OBVIOUS
  <1>2. z \in Seq(T) /\ Len(z) = Len(s) - i /\ \A j \in 1 .. Len(s) - i : z[j] = s[i + j]
    OBVIOUS
  <1>3. RemoveAt(s, i) = a \o z
    BY DEF RemoveAt
  <1> HIDE DEF a, z
  <1>4. /\ a \o z \in Seq(T) /\ Len(a \o z) = Len(a) + Len(z)
        /\ \A j \in 1 .. Len(a) + Len(z) :
              (a \o z)[j] = IF j <= Len(a) THEN a[j] ELSE z[j - Len(a)]
    BY <1>1, <1>2, ConcatProperties
  <1>5. Len(a) = i - 1 /\ Len(z) = Len(s) - i /\ Len(s) \in Nat
    BY <1>1, <1>2
  <1>6. ASSUME NEW j \in 1 .. Len(s) - 1
        PROVE  (a \o z)[j] = IF j < i THEN s[j] ELSE s[j + 1]
    <2>1. CASE j < i
      BY <1>1, <1>4, <1>5, <2>1
    <2>2. CASE j >= i
      <3>1. j - (i - 1) \in 1 .. Len(s) - i /\ (a \o z)[j] = z[j - (i - 1)]
        BY <1>4, <1>5, <2>2
      <3> QED
        BY <1>2, <2>2, <3>1
    <2> QED
      BY <1>5, <2>1, <2>2
  <1>7. Len(a \o z) = Len(s) - 1
    BY <1>4, <1>5
  <1>8. \A j \in 1 .. Len(a \o z) : (a \o z)[j] = IF j < i THEN s[j] ELSE s[j + 1]
    BY <1>6, <1>7
  <1> HIDE <1>5, <1>6
  <1> QED
    BY <1>3, <1>4, <1>7, <1>8, Zenon

(* A request holds at most one slot, so that a refund leaves none.          *)
LEMMA Refunded ==
    ASSUME NEW T, NEW s \in Seq(T), NEW e, Once(s)
    PROVE  LET r == RemoveFirst(s, e)
           IN  r \in Seq(T) /\ Once(r) /\ Elements(r) \subseteq Elements(s) \ {e}
  <1> DEFINE r == RemoveFirst(s, e)
  <1>1. CASE e \notin Elements(s)
    BY <1>1 DEF Elements, RemoveFirst
  <1>2. CASE e \in Elements(s)
    <2>1. PICK i \in 1 .. Len(s) : s[i] = e
      BY <1>2 DEF Elements
    <2>2. {j \in 1 .. Len(s) : s[j] = e} = {i}
      BY <2>1 DEF Once
    <2>3. Min({i}) = i
      BY DEF Min
    <2>4. r = RemoveAt(s, i)
      BY <2>1, <2>2, <2>3 DEF RemoveFirst, SelectInSeq
    <2>5. /\ r \in Seq(T) /\ Len(r) = Len(s) - 1
          /\ \A j \in 1 .. Len(r) : r[j] = IF j < i THEN s[j] ELSE s[j + 1]
      BY <2>4, OneOut
    <2> HIDE DEF r
    <2>6. Once(r)
      BY <2>5 DEF Once
    <2>7. ASSUME NEW x \in Elements(r) PROVE x \in Elements(s) \ {e}
      <3>1. PICK j \in 1 .. Len(r) : x = r[j]
        BY <2>7 DEF Elements
      <3>2. PICK k \in 1 .. Len(s) : k # i /\ x = s[k]
        BY <2>5, <3>1
      <3> QED
        BY <2>1, <3>2 DEF Elements, Once
    <2> QED
      BY <2>5, <2>6, <2>7 DEF r
  <1> QED
    BY <1>1, <1>2

LEMMA AllRequests ==
    ASSUME Types
    PROVE  /\ Elements(rows) \subseteq Requests
           /\ \A p \in Procs : Elements(window[p]) \subseteq Requests
  <1>1. \A p \in Procs : window[p] \in Seq(Requests)
    BY DEF Types
  <1>2. rows \in Seq(Requests)
    BY DEF Types
  <1> QED
    BY <1>1, <1>2 DEF Elements

LEMMA PriorRow ==
    ASSUME Types, NEW r
    PROVE  Prior(r) = {q \in Elements(rows) : KeyOf[q] = KeyOf[r]}
  BY DEF Prior, Range, Elements, Types

(* A known key is answered with its row, and the slot is given back.        *)
LEMMA KnownStep ==
    ASSUME IInv, NEW r \in Requests, AnswersKnown(r),
           at[r] \in {"new", "again", "wait", "write"},
           UNCHANGED <<rows, stamp, file, sidecar, op, spent>>
    PROVE  IInv'
  <1>0. IInv /\ r \in Actors
    BY DEF Actors
  <1>1. PICK q \in Elements(rows), result \in {"duplicate", "conflict"} :
            Refund(r) /\ Answers(r, result, q) /\ TrueAnswer(r, result, q) /\ q \in Requests
    <2>1. PICK q \in Prior(r) :
              /\ Refund(r)
              /\ IF TargetOf[q] = TargetOf[r]
                 THEN Answers(r, "duplicate", q) ELSE Answers(r, "conflict", q)
      BY DEF AnswersKnown
    <2>2. q \in Elements(rows) /\ KeyOf[q] = KeyOf[r]
      BY <1>0, <2>1, PriorRow DEF IInv
    <2>3. q \in Requests
      BY <1>0, <2>2, AllRequests DEF IInv
    <2> QED
      BY <2>1, <2>2, <2>3 DEF TrueAnswer
  <1>2. result \in Results
    BY DEF Results
  <1>3. /\ Answered'
        /\ at' \in [Actors -> Stations] /\ lock' \in [Procs -> Actors \cup {Nobody}]
        /\ told' \in [Actors -> [result : Results, row : Requests \cup {Nobody}]]
        /\ at'[r] = "done" /\ told'[r] = [result |-> result, row |-> q]
        /\ \A b \in Actors \ {r} : at'[b] = at[b] /\ told'[b] = told[b]
    BY <1>0, <1>1, <1>2, AnswerTold DEF IInv
  <1>4. /\ ProcOf[r] \in Procs
        /\ window' = [window EXCEPT ![ProcOf[r]] = RemoveFirst(@, r)]
    BY <1>0, <1>1, AttemptsAssumption DEF Refund
  <1>5. /\ window'[ProcOf[r]] \in Seq(Requests) /\ Once(window'[ProcOf[r]])
        /\ Elements(window'[ProcOf[r]]) \subseteq Elements(window[ProcOf[r]]) \ {r}
        /\ window' \in [Procs -> Seq(Requests)]
        /\ \A p \in Procs \ {ProcOf[r]} : window'[p] = window[p]
    <2>1. PICK s : s = window[ProcOf[r]]
      OBVIOUS
    <2>2. s \in Seq(Requests) /\ Once(s)
      BY <1>0, <1>4, <2>1 DEF IInv, Types, Windows
    <2>3. /\ RemoveFirst(s, r) \in Seq(Requests) /\ Once(RemoveFirst(s, r))
          /\ Elements(RemoveFirst(s, r)) \subseteq Elements(s) \ {r}
      BY <2>2, Refunded
    <2>4. window'[ProcOf[r]] = RemoveFirst(s, r)
      BY <1>0, <1>4, <2>1 DEF IInv, Types
    <2> QED
      BY <1>0, <1>4, <2>1, <2>3, <2>4 DEF IInv, Types
  <1>6. Types'
    BY <1>0, <1>3, <1>5 DEF IInv, Types
  <1>7. Settles
    BY <1>0, <1>3 DEF Settles, Past, Actors
  <1>8. Windows'
    <2>1. ASSUME NEW p \in Procs, NEW x \in Elements(window'[p])
          PROVE  x \in Elements(window[p]) /\ x # r
      <3>1. CASE p = ProcOf[r]
        BY <1>5, <2>1, <3>1
      <3>2. CASE p # ProcOf[r]
        <4>1. x \in Elements(window[p])
          BY <1>5, <2>1, <3>2
        <4>2. ProcOf[x] = p
          BY <1>0, <4>1 DEF IInv, Windows
        <4> QED
          BY <3>2, <4>1, <4>2
      <3> QED
        BY <3>1, <3>2
    <2>2. \A p \in Procs : Once(window'[p])
      BY <1>0, <1>5 DEF IInv, Windows
    <2>3. ASSUME NEW p \in Procs, NEW x \in Elements(window'[p])
          PROVE  /\ ProcOf[x] = p /\ at'[x] \notin {"new", "validate"}
                 /\ told'[x].result \notin {"duplicate", "conflict"}
      <3>1. x \in Elements(window[p]) /\ x # r
        BY <2>1
      <3>2. x \in Actors
        BY <1>0, <3>1, AllRequests DEF IInv, Actors
      <3> QED
        BY <1>0, <1>3, <3>1, <3>2 DEF IInv, Windows
    <2> QED
      BY <2>2, <2>3 DEF Windows
  <1>9. Owner'
    BY <1>0, <1>3, OwnerFrame DEF IInv
  <1> QED
    BY <1>0, <1>3, <1>6, <1>7, <1>8, <1>9, TableFrame, SealedFrame, WorkFrame DEF IInv

-----------------------------------------------------------------------------
(* The steps of a request.                                                  *)

(* Any other answer leaves the window.                                      *)
LEMMA AnswerParts ==
    ASSUME Types, Table, Answered, Windows,
           NEW a \in Actors, NEW result \in Results \ {"duplicate", "conflict"},
           NEW q \in Requests \cup {Nobody}, Answers(a, result, q), at[a] # "new",
           at[a] # "validate",
           UNCHANGED <<rows, stamp, window, spent>>,
           a \in Requests /\ spent.restores = 0 => TrueAnswer(a, result, q)
    PROVE  /\ Table' /\ Answered' /\ Windows' /\ Settles
           /\ at' \in [Actors -> Stations] /\ lock' \in [Procs -> Actors \cup {Nobody}]
           /\ told' \in [Actors -> [result : Results, row : Requests \cup {Nobody}]]
           /\ \A b \in Actors \ {a} : at'[b] = at[b]
  <1>1. /\ Answered'
        /\ at' \in [Actors -> Stations] /\ lock' \in [Procs -> Actors \cup {Nobody}]
        /\ told' \in [Actors -> [result : Results, row : Requests \cup {Nobody}]]
        /\ at'[a] = "done" /\ told'[a] = [result |-> result, row |-> q]
        /\ \A b \in Actors \ {a} : at'[b] = at[b] /\ told'[b] = told[b]
    BY AnswerTold
  <1>2. \A r \in Requests : r \in Actors
    BY DEF Actors
  <1>3. Settles
    BY <1>1, <1>2 DEF Settles, Past
  <1>4. Table'
    BY <1>3, TableFrame
  <1>5. Windows'
    <2>1. ASSUME NEW r \in Requests
          PROVE  /\ at[r] \notin {"new", "validate"} => at'[r] \notin {"new", "validate"}
                 /\ told'[r].result \in {"duplicate", "conflict"} =>
                       told[r].result \in {"duplicate", "conflict"}
      BY <1>1, <1>2
    <2> QED
      BY <2>1, WindowsFrame
  <1> QED
    BY <1>1, <1>3, <1>4, <1>5

(* It is no concern of the holder of the file lock.                         *)
LEMMA AnswerStep ==
    ASSUME IInv, NEW r \in Actors, NEW result \in Results \ {"duplicate", "conflict"},
           NEW q \in Requests \cup {Nobody}, Answers(r, result, q),
           at[r] \in {"again", "write", "project"},
           UNCHANGED <<rows, stamp, file, sidecar, window, op, spent>>,
           r \in Requests /\ spent.restores = 0 => TrueAnswer(r, result, q)
    PROVE  IInv'
  <1>0. IInv
    OBVIOUS
  <1>1. /\ Table' /\ Answered' /\ Windows' /\ Settles
        /\ at' \in [Actors -> Stations] /\ lock' \in [Procs -> Actors \cup {Nobody}]
        /\ told' \in [Actors -> [result : Results, row : Requests \cup {Nobody}]]
        /\ \A b \in Actors \ {r} : at'[b] = at[b]
    BY <1>0, AnswerParts DEF IInv
  <1>2. Types'
    BY <1>0, <1>1 DEF IInv, Types
  <1>3. Owner'
    BY <1>0, <1>1, OwnerFrame DEF IInv
  <1> QED
    BY <1>0, <1>1, <1>2, <1>3, SealedFrame, WorkFrame DEF IInv

(* So is the way to the next station.                                       *)
LEMMA WalkStep ==
    ASSUME IInv, NEW a \in Actors, NEW station \in Stations \ {"done"}, Goes(a, station),
           at[a] \notin {"projecting", "done"},
           station \in {"new", "validate"} => at[a] \in {"new", "validate"},
           a \in Requests => at[a] # "project" /\ station \notin {"project", "projecting"},
           lock' \in [Procs -> Actors \cup {Nobody}],
           UNCHANGED <<rows, stamp, file, sidecar, window, told, op, spent>>
    PROVE  IInv'
  <1>0. IInv
    OBVIOUS
  <1>1. /\ at' \in [Actors -> Stations] /\ at'[a] = station
        /\ \A b \in Actors \ {a} : at'[b] = at[b]
    BY <1>0 DEF IInv, Types, Goes
  <1>2. Types'
    BY <1>0, <1>1 DEF IInv, Types
  <1>3. \A r \in Requests : r \in Actors
    BY DEF Actors
  <1>4. Settles
    BY <1>0, <1>1, <1>3 DEF Settles, Past
  <1>5. Windows'
    <2>1. \A r \in Requests :
              at[r] \notin {"new", "validate"} => at'[r] \notin {"new", "validate"}
      BY <1>0, <1>1, <1>3
    <2> QED
      BY <1>0, <2>1, WindowsFrame DEF IInv
  <1>6. Answered'
    <2>1. \A b \in Actors : at'[b] # "done" => at[b] # "done"
      BY <1>0, <1>1
    <2> QED
      BY <1>0, <2>1 DEF IInv, Answered, TrueAnswer
  <1>7. Owner'
    BY <1>0, <1>1, OwnerFrame DEF IInv
  <1> QED
    BY <1>0, <1>2, <1>4, <1>5, <1>6, <1>7, TableFrame, SealedFrame, WorkFrame DEF IInv

LEMMA ReplaysStep ==
    ASSUME IInv, NEW r \in Requests, Replays(r)
    PROVE  IInv'
  <1>0. IInv /\ r \in Actors /\ at[r] = "new"
    BY DEF Actors, Replays
  <1>1. CASE AnswersKnown(r)
    BY <1>0, <1>1, KnownStep DEF Replays
  <1>2. CASE Goes(r, "validate") /\ UNCHANGED <<window, told, lock>>
    <2>1. "validate" \in Stations \ {"done"}
      BY DEF Stations
    <2>2. lock' \in [Procs -> Actors \cup {Nobody}]
      BY <1>0, <1>2 DEF IInv, Types
    <2> QED
      BY <1>0, <1>2, <2>1, <2>2, WalkStep DEF Replays
  <1> QED
    BY <1>1, <1>2 DEF Replays

LEMMA RefusesStep ==
    ASSUME IInv, NEW r \in Requests, Refuses(r)
    PROVE  IInv'
  <1>0. IInv /\ r \in Actors /\ at[r] = "again"
    BY DEF Actors, Refuses
  <1>1. CASE AnswersKnown(r)
    BY <1>0, <1>1, KnownStep DEF Refuses
  <1>2. CASE Answers(r, "refused", Nobody) /\ UNCHANGED window
    <2>1. "refused" \in Results \ {"duplicate", "conflict"}
      BY DEF Results
    <2>2. TrueAnswer(r, "refused", Nobody)
      BY DEF TrueAnswer
    <2> QED
      BY <1>0, <1>2, <2>1, <2>2, AnswerStep DEF Refuses
  <1> QED
    BY <1>1, <1>2 DEF Refuses

LEMMA EntersStep ==
    ASSUME IInv, NEW r \in Requests, Enters(r)
    PROVE  IInv'
  <1>0. IInv /\ r \in Actors /\ at[r] = "wait"
    BY DEF Actors, Enters
  <1>1. CASE AnswersKnown(r)
    BY <1>0, <1>1, KnownStep DEF Enters
  <1>2. CASE /\ Goes(r, "write") /\ lock' = [lock EXCEPT ![ProcOf[r]] = r]
             /\ UNCHANGED <<window, told>>
    <2>1. "write" \in Stations \ {"done"}
      BY DEF Stations
    <2>2. lock' \in [Procs -> Actors \cup {Nobody}]
      BY <1>0, <1>2 DEF IInv, Types
    <2> QED
      BY <1>0, <1>2, <2>1, <2>2, WalkStep DEF Enters
  <1> QED
    BY <1>1, <1>2 DEF Enters

LEMMA ValidatesStep ==
    ASSUME IInv, NEW r \in Requests, Validates(r)
    PROVE  IInv'
  <1>0. IInv /\ r \in Actors /\ at[r] = "validate" /\ ProcOf[r] \in Procs
    BY AttemptsAssumption DEF Actors, Validates
  <1>1. PICK w : w = window[ProcOf[r]]
    OBVIOUS
  <1>2. /\ w \in Seq(Requests) /\ Once(w) /\ r \notin Elements(w)
        /\ \A x \in Elements(w) : x \in Requests
    <2>1. w \in Seq(Requests)
      BY <1>0, <1>1 DEF IInv, Types
    <2>2. Once(w) /\ r \notin Elements(w)
      BY <1>0, <1>1 DEF IInv, Windows
    <2> QED
      BY <2>1, <2>2 DEF Elements
  <1>3. PICK expired \in 0 .. Len(w) :
            LET live == SubSeq(w, expired + 1, Len(w))
            IN  \/ Goes(r, "again") /\ window' = [window EXCEPT ![ProcOf[r]] = live]
                \/ /\ window' = [window EXCEPT ![ProcOf[r]] = Append(live, r)]
                   /\ Goes(r, "wait") \/ Goes(r, "again")
    BY <1>1 DEF Validates
  <1>4. PICK live \in Seq(Requests) :
            /\ live = SubSeq(w, expired + 1, Len(w))
            /\ Once(live) /\ Elements(live) \subseteq Elements(w)
    <2> DEFINE live == SubSeq(w, expired + 1, Len(w))
    <2>1. /\ live \in Seq(Requests) /\ Len(live) = Len(w) - expired
          /\ \A i \in 1 .. Len(live) : live[i] = w[i + expired]
      BY <1>2
    <2> HIDE DEF live
    <2>2. \A i \in 1 .. Len(live) : i + expired \in 1 .. Len(w)
      BY <1>2, <2>1
    <2>3. Once(live)
      <3>1. ASSUME NEW i \in 1 .. Len(live), NEW j \in 1 .. Len(live), live[i] = live[j]
            PROVE  i = j
        <4>1. i + expired \in 1 .. Len(w) /\ j + expired \in 1 .. Len(w)
          BY <2>2
        <4>2. w[i + expired] = w[j + expired]
          BY <2>1, <3>1
        <4>3. i + expired = j + expired
          BY <1>2, <4>1, <4>2 DEF Once
        <4> QED
          BY <4>3
      <3> QED
        BY <3>1 DEF Once
    <2>4. Elements(live) \subseteq Elements(w)
      BY <2>1, <2>2 DEF Elements
    <2> QED
      BY <2>1, <2>3, <2>4 DEF live
  <1>5. PICK u \in Seq(Requests) :
            /\ window' = [window EXCEPT ![ProcOf[r]] = u]
            /\ Once(u) /\ Elements(u) \subseteq Elements(w) \cup {r}
    <2>1. CASE window' = [window EXCEPT ![ProcOf[r]] = live]
      BY <1>4, <2>1
    <2>2. CASE window' = [window EXCEPT ![ProcOf[r]] = Append(live, r)]
      <3>1. /\ Append(live, r) \in Seq(Requests) /\ Len(Append(live, r)) = Len(live) + 1
            /\ \A i \in 1 .. Len(live) : Append(live, r)[i] = live[i]
            /\ Append(live, r)[Len(live) + 1] = r
        BY AppendProperties
      <3>2. \A i \in 1 .. Len(live) : live[i] # r
        BY <1>2, <1>4 DEF Elements
      <3>3. PICK v : v = Append(live, r)
        OBVIOUS
      <3>4. /\ Len(v) = Len(live) + 1 /\ Len(live) \in Nat /\ v[Len(live) + 1] = r
            /\ \A i \in 1 .. Len(v) : i \in 1 .. Len(live) \/ i = Len(live) + 1
            /\ \A i \in 1 .. Len(live) : v[i] = live[i]
        BY <3>1, <3>3
      <3>5. Once(v)
        <4>1. \A i, j \in 1 .. Len(live) : live[i] = live[j] => i = j
          BY <1>4 DEF Once
        <4> QED
          BY <3>2, <3>4, <4>1 DEF Once
      <3>6. Elements(v) \subseteq Elements(live) \cup {r}
        BY <3>4 DEF Elements
      <3> QED
        BY <1>4, <2>2, <3>1, <3>3, <3>5, <3>6
    <2> QED
      BY <1>3, <1>4, <2>1, <2>2
  <1>6. /\ at' \in [Actors -> Stations] /\ at'[r] \in {"again", "wait"}
        /\ \A b \in Actors \ {r} : at'[b] = at[b]
    <2>1. Goes(r, "again") \/ Goes(r, "wait")
      BY <1>3
    <2> QED
      BY <1>0, <2>1 DEF IInv, Types, Goes, Stations
  <1>7. window' \in [Procs -> Seq(Requests)] /\ window'[ProcOf[r]] = u
        /\ \A p \in Procs \ {ProcOf[r]} : window'[p] = window[p]
    BY <1>0, <1>5 DEF IInv, Types
  <1>8. UNCHANGED <<rows, stamp, file, sidecar, told, lock, op, spent>>
    BY DEF Validates
  <1>9. Types'
    BY <1>0, <1>6, <1>7, <1>8 DEF IInv, Types
  <1>10. Settles
    BY <1>0, <1>6 DEF Settles, Past, Actors
  <1>11. Answered'
    <2>1. \A b \in Actors : at'[b] # "done" => at[b] # "done"
      BY <1>0, <1>6
    <2> QED
      BY <1>0, <1>8, <2>1 DEF IInv, Answered, TrueAnswer
  <1>12. told[r].result \notin {"duplicate", "conflict"}
    BY <1>0 DEF IInv, Answered, Unanswered
  <1>13. Windows'
    <2>1. ASSUME NEW p \in Procs
          PROVE  /\ Once(window'[p])
                 /\ \A x \in Elements(window'[p]) :
                       x \in Elements(window[p]) \/ (x = r /\ p = ProcOf[r])
      <3>1. CASE p = ProcOf[r]
        BY <1>1, <1>5, <1>7, <3>1
      <3>2. CASE p # ProcOf[r]
        BY <1>0, <1>7, <3>2 DEF IInv, Windows
      <3> QED
        BY <3>1, <3>2
    <2>2. ASSUME NEW p \in Procs, NEW x \in Elements(window'[p])
          PROVE  /\ ProcOf[x] = p /\ at'[x] \notin {"new", "validate"}
                 /\ told'[x].result \notin {"duplicate", "conflict"}
      <3>1. CASE x = r /\ p = ProcOf[r]
        BY <1>6, <1>8, <1>12, <3>1
      <3>2. CASE x \in Elements(window[p])
        <4>1. x \in Actors
          BY <1>0, <3>2, AllRequests DEF IInv, Actors
        <4>2. /\ ProcOf[x] = p /\ at[x] \notin {"new", "validate"}
              /\ told[x].result \notin {"duplicate", "conflict"}
          BY <1>0, <3>2 DEF IInv, Windows
        <4> QED
          BY <1>6, <1>8, <4>1, <4>2
      <3> QED
        BY <2>1, <3>1, <3>2
    <2> QED
      BY <2>1, <2>2 DEF Windows
  <1>14. Owner'
    BY <1>0, <1>6, <1>8, OwnerFrame DEF IInv
  <1> QED
    BY <1>0, <1>8, <1>9, <1>10, <1>11, <1>13, <1>14, TableFrame, SealedFrame, WorkFrame DEF IInv

(* A new row.                                                               *)
LEMMA RowStep ==
    ASSUME IInv, NEW r \in Requests, NEW s \in 1 .. Cardinality(Requests) \ Range(stamp),
           at[r] = "write", Prior(r) = {}, rows' = Append(rows, r),
           stamp' = [stamp EXCEPT ![r] = s], Goes(r, "project"),
           UNCHANGED <<file, sidecar, window, told, lock, op, spent>>
    PROVE  IInv'
  <1> DEFINE n == Len(rows) + 1
  <1>0. IInv /\ r \in Actors
    BY DEF Actors
  <1>1. /\ rows' \in Seq(Requests) /\ Len(rows') = n /\ rows'[n] = r
        /\ \A i \in 1 .. Len(rows) : rows'[i] = rows[i] /\ rows[i] \in Requests
        /\ Len(rows) \in Nat
    BY <1>0 DEF IInv, Types
  <1>2. \A i \in 1 .. Len(rows) : rows[i] # r
    BY <1>0 DEF IInv, Table, Past
  <1>3. s \in Nat /\ \A q \in Requests : stamp[q] # s /\ stamp[q] \in Nat
    <2>1. Cardinality(Requests) \in Nat
      BY AttemptsAssumption, FS_CardinalityType
    <2> QED
      BY <1>0, <2>1 DEF IInv, Types, Range
  <1>4. /\ stamp' \in [Requests -> Nat] /\ stamp'[r] = s
        /\ \A q \in Requests \ {r} : stamp'[q] = stamp[q]
    BY <1>0, <1>3 DEF IInv, Types
  <1>5. /\ at' \in [Actors -> Stations] /\ at'[r] = "project"
        /\ \A b \in Actors \ {r} : at'[b] = at[b]
    BY <1>0 DEF IInv, Types, Goes, Stations
  <1>6. Types'
    BY <1>0, <1>1, <1>4, <1>5 DEF IInv, Types
  <1>7. \A i \in 1 .. Len(rows) : rows'[i] = rows[i] /\ stamp'[rows[i]] = stamp[rows[i]]
    BY <1>1, <1>2, <1>4
  <1>8. \A q \in Elements(rows) : KeyOf[q] # KeyOf[r]
    BY <1>0, PriorRow DEF IInv
  <1>9. Elements(rows') = Elements(rows) \cup {r}
    BY <1>1 DEF Elements
  <1>10. Table'
    <2>1. \A i \in 1 .. n : at'[rows'[i]] \in Past
      BY <1>0, <1>1, <1>2, <1>5 DEF IInv, Table, Past, Actors
    <2>2. \A i, j \in 1 .. n : KeyOf[rows'[i]] = KeyOf[rows'[j]] => i = j
      <3>1. \A i \in 1 .. Len(rows) : KeyOf[rows[i]] # KeyOf[r]
        BY <1>8 DEF Elements
      <3> QED
        BY <1>0, <1>1, <3>1 DEF IInv, Table
    <2>3. \A i, j \in 1 .. n : stamp'[rows'[i]] = stamp'[rows'[j]] => i = j
      BY <1>0, <1>1, <1>3, <1>4, <1>7 DEF IInv, Table
    <2>4. \A k \in 1 .. Len(rows) : \E j \in 1 .. k :
              \A i \in 1 .. k : i # j => stamp[rows[i]] < stamp[rows[j]]
      BY <1>0 DEF IInv, Table
    <2>5. ASSUME NEW k \in 1 .. n
          PROVE  \E j \in 1 .. k : \A i \in 1 .. k : i # j => stamp'[rows'[i]] < stamp'[rows'[j]]
      <3>0. n = Len(rows) + 1 /\ \A i \in 1 .. n : i \in 1 .. Len(rows) \/ i = n
        BY <1>1
      <3> HIDE DEF n
      <3>1. CASE k \in 1 .. Len(rows)
        <4>1. PICK j \in 1 .. k : \A i \in 1 .. k : i # j => stamp[rows[i]] < stamp[rows[j]]
          BY <2>4, <3>1
        <4>2. \A i \in 1 .. k : i \in 1 .. Len(rows)
          BY <1>1, <3>1
        <4>3. \A i \in 1 .. k : stamp'[rows'[i]] = stamp[rows[i]]
          BY <1>7, <4>2
        <4> QED
          BY <4>1, <4>3
      <3>2. CASE k = n /\ Len(rows) = 0
        <4>1. k \in 1 .. k /\ \A i \in 1 .. k : i = k
          BY <3>0, <3>2
        <4> QED
          BY <4>1
      <3>3. CASE k = n /\ Len(rows) # 0
        <4>0. Len(rows) \in 1 .. Len(rows) /\ n \in 1 .. k
          BY <1>1, <3>0, <3>3
        <4>1. PICK j \in 1 .. Len(rows) :
                  \A i \in 1 .. Len(rows) : i # j => stamp[rows[i]] < stamp[rows[j]]
          BY <2>4, <4>0
        <4>2. stamp[rows[j]] \in Nat /\ stamp[rows[j]] # s
          BY <1>1, <1>3, <4>1
        <4>3. stamp'[rows'[n]] = s /\ \A i \in 1 .. Len(rows) : stamp'[rows'[i]] = stamp[rows[i]]
          BY <1>1, <1>4, <1>7
        <4>4. CASE s > stamp[rows[j]]
          <5>1. ASSUME NEW i \in 1 .. k, i # n PROVE stamp'[rows'[i]] < stamp'[rows'[n]]
            <6>1. i \in 1 .. Len(rows) /\ stamp[rows[i]] \in Nat
              BY <1>1, <1>3, <3>0, <3>3, <5>1
            <6>2. stamp[rows[i]] <= stamp[rows[j]]
              BY <4>1, <4>2, <6>1
            <6>3. s \in Nat
              BY <1>3
            <6>4. stamp'[rows'[i]] = stamp[rows[i]] /\ stamp'[rows'[n]] = s
              BY <4>3, <6>1
            <6>5. PICK x \in Nat, y \in Nat : x = stamp[rows[i]] /\ y = stamp[rows[j]]
              BY <4>2, <6>1
            <6>6. x <= y /\ y < s
              BY <4>4, <6>2, <6>5
            <6>7. x < s
              BY <6>3, <6>5, <6>6
            <6> QED
              BY <6>4, <6>5, <6>7
          <5> QED
            BY <4>0, <5>1
        <4>5. CASE s < stamp[rows[j]]
          <5>1. j \in 1 .. k
            BY <1>1, <3>0, <3>3, <4>1
          <5>2. ASSUME NEW i \in 1 .. k, i # j PROVE stamp'[rows'[i]] < stamp'[rows'[j]]
            <6>1. CASE i = n
              BY <4>1, <4>3, <4>5, <6>1
            <6>2. CASE i \in 1 .. Len(rows)
              BY <4>1, <4>3, <5>2, <6>2
            <6> QED
              BY <3>0, <3>3, <6>1, <6>2
          <5> QED
            BY <5>1, <5>2
        <4>6. s \in Nat
          BY <1>3
        <4>7. PICK y \in Nat : y = stamp[rows[j]] /\ y # s
          BY <4>2
        <4>8. y < s \/ s < y
          BY <4>6, <4>7
        <4> QED
          BY <4>4, <4>5, <4>7, <4>8
      <3> QED
        BY <3>0, <3>1, <3>2, <3>3
    <2>6. \A x \in Requests : at'[x] \in {"project", "projecting"} => x \in Elements(rows')
      BY <1>0, <1>5, <1>9 DEF IInv, Table, Actors
    <2> HIDE DEF n
    <2> QED
      BY <1>1, <2>1, <2>2, <2>3, <2>5, <2>6 DEF Table
  <1>11. Answered'
    <2>1. \A b \in Actors : at'[b] # "done" => at[b] # "done"
      BY <1>0, <1>5
    <2> QED
      BY <1>0, <1>9, <2>1 DEF IInv, Answered, TrueAnswer
  <1>12. Windows'
    <2>1. \A x \in Requests :
              at[x] \notin {"new", "validate"} => at'[x] \notin {"new", "validate"}
      BY <1>5 DEF Actors
    <2> QED
      BY <1>0, <2>1, WindowsFrame DEF IInv
  <1>13. Owner'
    BY <1>0, <1>5, OwnerFrame DEF IInv
  <1>14. Sealed'
    <2>0. sidecar.cursor \in Nat /\ sidecar' = sidecar /\ file' = file
      BY <1>0 DEF IInv, Types
    <2>1. sidecar.last \in Requests => at'[sidecar.last] \in Past
      BY <1>0, <1>5 DEF IInv, Sealed, Past, Actors
    <2>2. Anchor' => Anchor
      <3>1. ASSUME Anchor', ~Anchor PROVE FALSE
        <4>1. sidecar.cursor = n /\ sidecar.last = r
          BY <1>1, <2>0, <3>1 DEF Anchor
        <4> QED
          BY <1>0, <4>1 DEF IInv, Sealed, Past
      <3> QED
        BY <3>1
    <2>3. Anchor \/ sidecar.cursor = 0 => Ordered(sidecar.cursor)' = Ordered(sidecar.cursor)
      <3>1. ASSUME Anchor \/ sidecar.cursor = 0
            PROVE  \A i \in 1 .. sidecar.cursor :
                       rows'[i] = rows[i] /\ stamp'[rows[i]] = stamp[rows[i]]
        BY <1>7, <3>1 DEF Anchor
      <3>2. PICK c \in Nat : c = sidecar.cursor
        BY <2>0
      <3>3. (\A i \in 1 .. c : rows'[i] = rows[i] /\ stamp'[rows[i]] = stamp[rows[i]])
              => Ordered(c)' = Ordered(c)
        BY OrderedStays
      <3>4. Ordered(sidecar.cursor)' = Ordered(c)'
        BY <2>0, <3>2 DEF Ordered
      <3> QED
        BY <3>1, <3>2, <3>3, <3>4
    <2>4. Anchor => \A i \in 1 .. sidecar.cursor : stamp'[rows'[i]] = stamp[rows[i]]
      BY <1>7 DEF Anchor
    <2> QED
      BY <1>0, <2>0, <2>1, <2>2, <2>3, <2>4 DEF IInv, Sealed, SealMatches
  <1>15. Work'
    <2>0. op' = op /\ spent' = spent /\ file' = file /\ op.upto \in Nat /\ op.since \in Nat
      BY <1>0 DEF IInv, Types, Ops
    <2>1. op.at \in Appender \cup {"swap", "verify", "seal"} =>
              /\ Ordered(op.upto)' = Ordered(op.upto)
              /\ op.at \in Appender => Ordered(op.upto - 1)' = Ordered(op.upto - 1)
      <3>1. ASSUME NEW k \in Nat, k <= Len(rows)
            PROVE  Ordered(k)' = Ordered(k)
        BY <1>1, <1>7, <3>1, OrderedStays
      <3>2. PICK k \in Nat : k = op.upto
        BY <2>0
      <3>3. Ordered(op.upto)' = Ordered(k)'
        BY <2>0, <3>2 DEF Ordered
      <3>4. ASSUME k >= 1 PROVE Ordered(op.upto - 1)' = Ordered(k - 1)' /\ k - 1 \in Nat
        BY <2>0, <3>2, <3>4 DEF Ordered
      <3> QED
        BY <1>0, <1>1, <3>1, <3>2, <3>3, <3>4 DEF IInv, Work, Content
    <2>2. op.at \in Appender =>
              /\ \A i \in 1 .. op.upto : stamp'[rows'[i]] = stamp[rows[i]]
              /\ op.upto \in 1 .. op.upto
              /\ \A i \in 1 .. op.upto - 1 : i \in 1 .. op.upto
      BY <1>0, <1>1, <1>7, <2>0 DEF IInv, Work, Content
    <2>3. Len(rows) <= Len(rows') /\ op.since <= Len(rows') /\ (op.upto <= Len(rows) => op.upto <= Len(rows'))
      BY <1>0, <1>1, <2>0 DEF IInv, Work, Content
    <2>4. (Begins /\ op.at \in Appender => Begins') /\ (AsFound <=> AsFound') /\ (OnName <=> OnName')
      BY <2>0, <2>1 DEF Begins, AsFound, OnName
    <2>5. "append" \in Appender /\ "grown" \in Appender /\ "confirm" \in Appender /\ "open" \in Appender
      BY DEF Appender
    <2> QED
      BY <1>0, <2>0, <2>1, <2>2, <2>3, <2>4, <2>5 DEF IInv, Work, Content
  <1> QED
    BY <1>6, <1>10, <1>11, <1>12, <1>13, <1>14, <1>15 DEF IInv

LEMMA WritesStep ==
    ASSUME IInv, NEW r \in Requests, Writes(r)
    PROVE  IInv'
  <1>0. IInv /\ r \in Actors /\ at[r] = "write"
    BY DEF Actors, Writes
  <1>1. CASE AnswersKnown(r) /\ UNCHANGED <<rows, stamp>>
    BY <1>0, <1>1, KnownStep DEF Writes
  <1>2. CASE Answers(r, "failed", Nobody) /\ UNCHANGED <<rows, stamp, window>>
    <2>1. "failed" \in Results \ {"duplicate", "conflict"}
      BY DEF Results
    <2>2. TrueAnswer(r, "failed", Nobody)
      BY DEF TrueAnswer
    <2> QED
      BY <1>0, <1>2, <2>1, <2>2, AnswerStep DEF Writes
  <1>3. ASSUME NEW s \in 1 .. Cardinality(Requests) \ Range(stamp),
               Prior(r) = {}, rows' = Append(rows, r), stamp' = [stamp EXCEPT ![r] = s],
               Goes(r, "project"), UNCHANGED <<window, told, lock>>
        PROVE  IInv'
    BY <1>0, <1>3, RowStep DEF Writes
  <1> QED
    BY <1>1, <1>2, <1>3 DEF Writes

LEMMA ProjectsStep ==
    ASSUME IInv, NEW a \in Actors, Projects(a)
    PROVE  IInv'
  <1>0. IInv /\ at[a] = "project"
    BY DEF Projects
  <1>1. CASE Answers(a, "pending", IF a = Opener THEN Nobody ELSE a) /\ UNCHANGED op
    <2>1. "pending" \in Results \ {"duplicate", "conflict"}
      BY DEF Results
    <2>2. PICK q \in Requests \cup {Nobody} : q = IF a = Opener THEN Nobody ELSE a
      BY DEF Actors
    <2>3. a \in Requests => TrueAnswer(a, "pending", q)
      BY <1>0, <2>2, AttemptsAssumption DEF IInv, Table, TrueAnswer
    <2>4. Answers(a, "pending", q)
      BY <1>1, <2>2
    <2> QED
      BY <1>0, <1>1, <2>1, <2>3, <2>4, AnswerStep DEF Projects
  <1>2. CASE /\ op = Idle
             /\ op' = [Idle EXCEPT !.by = a, !.at = "look", !.since = Len(rows),
                                   !.edits = spent.edits]
             /\ Goes(a, "projecting") /\ UNCHANGED <<told, lock>>
    <2>0. UNCHANGED <<rows, stamp, file, sidecar, window, told, lock, spent>>
      BY <1>2 DEF Projects
    <2>1. /\ at' \in [Actors -> Stations] /\ at'[a] = "projecting"
          /\ \A b \in Actors \ {a} : at'[b] = at[b]
      BY <1>0, <1>2 DEF IInv, Types, Goes, Stations
    <2>2. /\ op' \in Ops /\ op'.by = a /\ op'.at = "look" /\ op'.since = Len(rows)
          /\ op'.edits = spent.edits
      <3>1. Len(rows) \in Nat /\ spent.edits \in Nat
        BY <1>0 DEF IInv, Types
      <3>2. op' = [by |-> a, at |-> "look", way |-> "rebuild", id |-> 0, change |-> 0,
                   size |-> 0, upto |-> 0, since |-> Len(rows), edits |-> spent.edits]
        BY <1>2 DEF Idle
      <3> QED
        BY <3>1, <3>2 DEF Ops, Calls
    <2>3. Types'
      BY <1>0, <2>0, <2>1, <2>2 DEF IInv, Types
    <2>4. Settles
      BY <1>0, <2>1 DEF Settles, Past, Actors
    <2>5. Answered'
      <3>1. \A b \in Actors : at'[b] # "done" => at[b] # "done"
        BY <1>0, <2>1
      <3> QED
        BY <1>0, <2>0, <3>1 DEF IInv, Answered, TrueAnswer
    <2>6. Windows'
      <3>1. \A x \in Requests :
                at[x] \notin {"new", "validate"} => at'[x] \notin {"new", "validate"}
        BY <2>1 DEF Actors
      <3> QED
        BY <1>0, <2>0, <3>1, WindowsFrame DEF IInv
    <2>7. Owner'
      BY <2>1, <2>2 DEF Owner
    <2>8. Work'
      BY <1>0, <2>0, <2>2 DEF IInv, Types, Work, Content, Appender
    <2> QED
      BY <1>0, <2>0, <2>3, <2>4, <2>5, <2>6, <2>7, <2>8, TableFrame, SealedFrame DEF IInv
  <1> QED
    BY <1>1, <1>2 DEF Projects

LEMMA TerminalOpensStep ==
    ASSUME IInv, TerminalOpens
    PROVE  IInv'
  <1>0. IInv /\ Opener \in Actors /\ at[Opener] = "new" /\ Opener \notin Requests
    BY AttemptsAssumption DEF Actors, TerminalOpens
  <1>1. "project" \in Stations \ {"done"}
    BY DEF Stations
  <1>2. lock' \in [Procs -> Actors \cup {Nobody}]
    BY <1>0 DEF IInv, Types, TerminalOpens
  <1> QED
    BY <1>0, <1>1, <1>2, WalkStep DEF TerminalOpens

-----------------------------------------------------------------------------
(* The calls of the holder of the file lock.                                *)

LEMMA HolderStep ==
    ASSUME IInv, UNCHANGED <<rows, stamp, window, at, told, lock, spent>>,
           op' \in Ops, op # Idle, op'.by = op.by,
           UNCHANGED sidecar, Types', Sealed', Work'
    PROVE  IInv'
  <1>1. Settles
    BY DEF Settles
  <1>2. Table'
    BY <1>1, TableFrame DEF IInv
  <1>3. Answered' /\ Windows'
    BY DEF IInv, Answered, Windows, TrueAnswer
  <1>4. Owner'
    BY DEF IInv, Owner
  <1> QED
    BY <1>2, <1>3, <1>4 DEF IInv

(* The projection ends, and its actor is answered.                          *)
LEMMA EndsParts ==
    ASSUME IInv, op # Idle, NEW result \in {"projected", "pending"}, Ends(result),
           UNCHANGED <<rows, stamp, file, window, spent>>
    PROVE  /\ Table' /\ Answered' /\ Windows' /\ Owner' /\ Work' /\ Settles
           /\ sidecar' \in [id : Nat, change : Nat, cursor : Nat, last : Requests \cup {Nobody},
                            tail : Nat] => Types'
  <1>0. IInv /\ op.by \in Actors /\ at[op.by] = "projecting"
    BY DEF IInv, Owner
  <1>1. PICK q \in Requests \cup {Nobody} : q = IF op.by = Opener THEN Nobody ELSE op.by
    BY <1>0 DEF Actors
  <1>2. PICK a \in Actors : a = op.by
    BY <1>0
  <1>3. Answers(a, result, q) /\ op' = Idle
    BY <1>1, <1>2 DEF Ends
  <1>4. a \in Requests => TrueAnswer(a, result, q)
    BY <1>0, <1>1, <1>2, AttemptsAssumption DEF IInv, Table, TrueAnswer
  <1>5. result \in Results \ {"duplicate", "conflict"}
    BY DEF Results
  <1>6. /\ Table' /\ Answered' /\ Windows' /\ Settles
        /\ at' \in [Actors -> Stations] /\ lock' \in [Procs -> Actors \cup {Nobody}]
        /\ told' \in [Actors -> [result : Results, row : Requests \cup {Nobody}]]
    BY <1>0, <1>2, <1>3, <1>4, <1>5, AnswerParts DEF IInv
  <1>7. Owner'
    BY <1>3 DEF Owner, Idle
  <1>8. Work'
    BY <1>0, <1>3 DEF IInv, Types, Work, Content, Idle, Appender
  <1>9. op' \in Ops
    BY <1>3 DEF Idle, Ops, Calls
  <1> QED
    BY <1>0, <1>6, <1>7, <1>8, <1>9 DEF IInv, Types

LEMMA EndsStep ==
    ASSUME IInv, op # Idle, NEW result \in {"projected", "pending"}, Ends(result),
           UNCHANGED <<rows, stamp, file, sidecar, window, spent>>
    PROVE  IInv'
  <1>0. IInv
    OBVIOUS
  <1>1. /\ Table' /\ Answered' /\ Windows' /\ Owner' /\ Work' /\ Settles
        /\ Types'
    BY EndsParts DEF IInv, Types
  <1> QED
    BY <1>0, <1>1, SealedFrame DEF IInv

LEMMA LooksStep ==
    ASSUME IInv, Looks
    PROVE  IInv'
  <1>0. IInv /\ op.at = "look" /\ op # Idle /\ op \in Ops
    BY DEF IInv, Types, Looks, Idle
  <1>1. UNCHANGED <<rows, stamp, file, sidecar, window, spent>>
    BY DEF Looks
  <1>2. CASE Ends("projected")
    BY <1>0, <1>1, <1>2, EndsStep
  <1>3. CASE op' = [op EXCEPT !.at = "render"] /\ UNCHANGED <<told, lock, at>>
    <2>1. op' \in Ops /\ op'.by = op.by /\ op'.at = "render" /\ op'.since = op.since
          /\ op'.edits = op.edits
      BY <1>0, <1>3 DEF Ops, Calls
    <2>2. Types'
      BY <1>0, <1>1, <1>3, <2>1 DEF IInv, Types
    <2>3. Work'
      BY <1>0, <1>1, <2>1 DEF IInv, Work, Content, Appender
    <2>4. Sealed'
      <3>1. Settles
        BY <1>3 DEF Settles
      <3> QED
        BY <1>0, <1>1, <3>1, SealedFrame DEF IInv
    <2> QED
      BY <1>0, <1>1, <1>3, <2>1, <2>2, <2>3, <2>4, HolderStep
  <1>4. CASE /\ SealMatches(sidecar) /\ Anchored(sidecar) /\ Unseen(sidecar) # 0
             /\ BelongsAtEnd(sidecar)
             /\ op' = [op EXCEPT !.at = "open", !.way = "append", !.id = sidecar.id,
                                 !.change = sidecar.change, !.upto = sidecar.cursor + 1]
             /\ UNCHANGED <<told, lock, at>>
    <2>1. /\ sidecar.cursor \in Nat /\ sidecar.id \in Nat /\ sidecar.change \in Nat
          /\ Len(rows) \in Nat /\ op.since \in Nat /\ sidecar.tail \in Nat
      BY <1>0 DEF IInv, Types, Ops
    <2>2. /\ op' \in Ops /\ op'.by = op.by /\ op'.at = "open" /\ op'.since = op.since
          /\ op'.edits = op.edits /\ op'.id = sidecar.id /\ op'.change = sidecar.change
          /\ op'.upto = sidecar.cursor + 1
      <3>1. PICK c \in Nat : c = sidecar.cursor + 1
        BY <2>1
      <3>2. op' = [by |-> op.by, at |-> "open", way |-> "append", id |-> sidecar.id,
                   change |-> sidecar.change, size |-> op.size, upto |-> c,
                   since |-> op.since, edits |-> op.edits]
        BY <1>0, <1>4, <3>1 DEF Ops
      <3>3. /\ op.by \in Actors \cup {Nobody} /\ op.size \in Nat /\ op.since \in Nat
            /\ op.edits \in Nat
        BY <1>0 DEF Ops
      <3> QED
        BY <2>1, <3>1, <3>2, <3>3 DEF Ops, Calls
    <2>3. Types'
      BY <1>0, <1>1, <1>4, <2>2 DEF IInv, Types
    <2>4. Sealed'
      <3>1. Settles
        BY <1>4 DEF Settles
      <3> QED
        BY <1>0, <1>1, <3>1, SealedFrame DEF IInv
    <2>5. Len(rows) = sidecar.cursor + 1
      BY <1>4, <2>1 DEF BelongsAtEnd, Unseen
    <2>6. sidecar.cursor >= 1 /\ Anchor
      <3>1. sidecar.cursor # 0
        BY <1>4, <2>5 DEF Anchored
      <3>2. sidecar.cursor \in DOMAIN rows /\ rows[sidecar.cursor] = sidecar.last
        BY <1>4, <3>1 DEF Anchored
      <3>3. DOMAIN rows = 1 .. Len(rows)
        BY <1>0 DEF IInv, Types
      <3> QED
        BY <2>1, <3>1, <3>2, <3>3 DEF Anchor
    <2>7. Trusted => file.lines = Ordered(sidecar.cursor)
      BY <1>0, <1>4, <2>6 DEF IInv, Sealed
    <2>8. /\ \A i \in 1 .. sidecar.cursor : stamp[rows[i]] <= sidecar.tail
          /\ stamp[rows[sidecar.cursor + 1]] > sidecar.tail
      BY <1>0, <1>4, <2>6 DEF IInv, Sealed, BelongsAtEnd
    <2>9. \A i \in 1 .. sidecar.cursor : stamp[rows[i]] < stamp[rows[sidecar.cursor + 1]]
      <3>1. \A i \in 1 .. Len(rows) : stamp[rows[i]] \in Nat
        BY <1>0 DEF IInv, Types
      <3>2. sidecar.cursor + 1 \in 1 .. Len(rows) /\ \A i \in 1 .. sidecar.cursor : i \in 1 .. Len(rows)
        BY <2>1, <2>5
      <3> QED
        BY <2>1, <2>8, <3>1, <3>2
    <2>10. op'.upto - 1 = sidecar.cursor
      BY <2>1, <2>2
    <2>11. Ordered(op.upto - 1)' = Ordered(sidecar.cursor)
      <3>1. PICK c \in Nat : c = sidecar.cursor
        BY <2>1
      <3>2. Ordered(op.upto - 1)' = Ordered(c)'
        <4>1. PICK d : d = op'.upto - 1
          OBVIOUS
        <4>2. Ordered(op.upto - 1)' = Ordered(d)'
          BY <4>1 DEF Ordered
        <4>3. d = c
          BY <2>10, <3>1, <4>1
        <4> QED
          BY <4>2, <4>3
      <3>3. Ordered(c)' = Ordered(c)
        BY <1>1 DEF Ordered
      <3> QED
        BY <3>1, <3>2, <3>3
    <2>12. op.since <= Len(rows) /\ op.edits <= spent.edits
      BY <1>0 DEF IInv, Work, Content
    <2>13. sidecar.id <= file.id /\ (sidecar.id = file.id => sidecar.change <= file.change)
      BY <1>0 DEF IInv, Sealed
    <2>14. Work'
      BY <1>1, <2>1, <2>2, <2>5, <2>6, <2>7, <2>9, <2>10, <2>11, <2>12, <2>13 DEF Work, Content, Appender
    <2> QED
      BY <1>0, <1>1, <1>4, <2>2, <2>3, <2>4, <2>14, HolderStep
  <1> QED
    <2>1. PICK state \in {sidecar, NoState} :
              IF state = NoState \/ ~SealMatches(state) \/ ~Anchored(state)
              THEN op' = [op EXCEPT !.at = "render"] /\ UNCHANGED <<told, lock, at>>
              ELSE IF Unseen(state) = 0
              THEN Ends("projected")
              ELSE /\ op' = IF op.by \in Requests /\ BelongsAtEnd(state)
                            THEN [op EXCEPT !.at = "open", !.way = "append", !.id = state.id,
                                            !.change = state.change, !.upto = state.cursor + 1]
                            ELSE [op EXCEPT !.at = "render"]
                   /\ UNCHANGED <<told, lock, at>>
      BY DEF Looks
    <2> QED
      BY <1>2, <1>3, <1>4, <2>1

LEMMA CallFailsStep ==
    ASSUME IInv, CallFails
    PROVE  IInv'
  <1>0. IInv /\ op # Idle /\ op \in Ops
    BY DEF IInv, Types, CallFails
  <1>1. UNCHANGED <<rows, stamp, file, sidecar, window, spent>>
    BY DEF CallFails
  <1>2. CASE Ends("pending")
    BY <1>0, <1>1, <1>2, EndsStep
  <1>3. CASE ToRebuild /\ UNCHANGED <<at, told, lock>>
    <2>1. op' \in Ops /\ op'.by = op.by /\ op'.at = "render" /\ op'.since = op.since
          /\ op'.edits = op.edits
      BY <1>0, <1>3 DEF Ops, Calls, ToRebuild
    <2>2. Types'
      BY <1>0, <1>1, <1>3, <2>1 DEF IInv, Types
    <2>3. Work'
      BY <1>0, <1>1, <2>1 DEF IInv, Work, Content, Appender
    <2>4. Sealed'
      <3>1. Settles
        BY <1>3 DEF Settles
      <3> QED
        BY <1>0, <1>1, <3>1, SealedFrame DEF IInv
    <2> QED
      BY <1>0, <1>1, <1>3, <2>1, <2>2, <2>3, <2>4, HolderStep
  <1> QED
    BY <1>2, <1>3 DEF CallFails

(* Another line at the end of whatever the file holds.                      *)
LEMMA ListedAppend ==
    ASSUME NEW s, Listed(s), NEW x
    PROVE  /\ Listed(Append(s, x)) /\ Len(Append(s, x)) = Len(s) + 1 /\ Len(s) \in Nat
           /\ \A i \in 1 .. Len(s) : Append(s, x)[i] = s[i]
           /\ Append(s, x)[Len(s) + 1] = x
  <1> DEFINE T == Elements(s) \cup {x}
             u == Append(s, x)
  <1>1. s \in Seq(T)
    <2>1. s \in Seq(Elements(s)) /\ Elements(s) \subseteq T
      BY DEF Listed
    <2> HIDE DEF T
    <2> QED
      BY <2>1
  <1>2. x \in T
    OBVIOUS
  <1> HIDE DEF T
  <1>3. /\ u \in Seq(T) /\ Len(u) = Len(s) + 1 /\ Len(s) \in Nat
        /\ \A i \in 1 .. Len(s) : u[i] = s[i]
        /\ u[Len(s) + 1] = x
    BY <1>1, <1>2, AppendProperties
  <1>4. u \in Seq(Elements(u))
    <2> HIDE DEF u
    <2>1. \A i \in 1 .. Len(u) : u[i] \in Elements(u)
      BY DEF Elements
    <2>2. DOMAIN u = 1 .. Len(u) /\ u = [i \in 1 .. Len(u) |-> u[i]] /\ Len(u) \in Nat
      BY <1>3
    <2>3. PICK E : E = Elements(u)
      OBVIOUS
    <2>4. [i \in 1 .. Len(u) |-> u[i]] \in Seq(E)
      BY <2>1, <2>2, <2>3
    <2> QED
      BY <2>2, <2>3, <2>4
  <1> QED
    BY <1>3, <1>4 DEF Listed

(* Whatever happens to the file, the seal does not describe it any more.    *)
Touches ==
    /\ file'.there => file'.id >= 1
    /\ \/ ~ file'.there /\ file'.id = file.id /\ file'.change = file.change
       \/ file'.id = file.id /\ file'.change = file.change + 1
       \/ file'.id = file.id + 1

LEMMA SealedTouched ==
    ASSUME Types, Sealed, Settles, Touches, UNCHANGED <<rows, stamp, sidecar>>
    PROVE  Sealed'
  <1>1. PICK i \in Nat, c \in Nat, k \in Nat, l \in Nat :
            i = file.id /\ c = file.change /\ k = sidecar.id /\ l = sidecar.change
    BY DEF Types
  <1>2. k <= i /\ (k = i => l <= c)
    BY <1>1 DEF Sealed
  <1>3. \/ ~ file'.there /\ file'.id = i /\ file'.change = c
        \/ file'.id = i /\ file'.change = c + 1
        \/ file'.id = i + 1
    BY <1>1 DEF Touches
  <1>4. k <= file'.id /\ (k = file'.id => l <= file'.change)
    BY <1>1, <1>2, <1>3
  <1>5. ~ (file'.there /\ file'.id = k /\ file'.change = l)
    BY <1>1, <1>2, <1>3
  <1>6. ~ SealMatches(sidecar)'
    BY <1>1, <1>5 DEF SealMatches
  <1>7. sidecar.last \in Requests => at'[sidecar.last] \in Past
    BY DEF Sealed, Settles
  <1> QED
    BY <1>1, <1>4, <1>6, <1>7 DEF Sealed, Anchor, Touches

(* Back to the rebuild: nothing is promised of the file.                    *)
LEMMA RebuildStep ==
    ASSUME IInv, op # Idle, ToRebuild, UNCHANGED <<rows, stamp, window, at, told, lock, spent>>,
           UNCHANGED sidecar, file' \in [id : Nat, change : Nat, there : BOOLEAN, lines : {file'.lines}],
           Listed(file'.lines), file' = file \/ Touches
    PROVE  IInv'
  <1>0. IInv /\ op \in Ops
    BY DEF IInv, Types
  <1>1. op' \in Ops /\ op'.by = op.by /\ op'.at = "render" /\ op'.since = op.since
        /\ op'.edits = op.edits
    BY <1>0 DEF Ops, Calls, ToRebuild
  <1>2. Types'
    BY <1>0, <1>1 DEF IInv, Types
  <1>3. Work'
    BY <1>0, <1>1 DEF IInv, Work, Content, Appender
  <1>4. Sealed'
    <2>1. Settles
      BY DEF Settles
    <2> QED
      BY <1>0, <2>1, SealedFrame, SealedTouched DEF IInv
  <1> QED
    BY <1>0, <1>1, <1>2, <1>3, <1>4, HolderStep

LEMMA OrderFrame ==
    ASSUME UNCHANGED <<rows, stamp>>, op'.upto = op.upto
    PROVE  /\ Ordered(op.upto)' = Ordered(op.upto)
           /\ Ordered(op.upto - 1)' = Ordered(op.upto - 1)
  BY DEF Ordered

LEMMA FileTyped ==
    ASSUME Types
    PROVE  /\ file \in [id : Nat, change : Nat, there : BOOLEAN, lines : {file.lines}]
           /\ Listed(file.lines)
  BY DEF Types

LEMMA OpensFileStep ==
    ASSUME IInv, OpensFile
    PROVE  IInv'
  <1>0. IInv /\ op.at = "open" /\ op # Idle /\ op \in Ops
    BY DEF IInv, Types, OpensFile, Idle
  <1>1. UNCHANGED <<rows, stamp, file, sidecar, window, at, told, lock, spent>>
    BY DEF OpensFile, Held
  <1>2. CASE ToRebuild
    BY <1>0, <1>1, <1>2, FileTyped, RebuildStep DEF IInv
  <1>3. CASE OnName /\ file.change = op.change
             /\ op' = [op EXCEPT !.at = "append", !.size = Len(file.lines)]
    <2>1. PICK n \in Nat : n = Len(file.lines)
      <3>1. file.lines \in Seq(Elements(file.lines))
        BY <1>0 DEF IInv, Types, Listed
      <3> QED
        BY <3>1
    <2>2. /\ op' \in Ops /\ op'.by = op.by /\ op'.at = "append" /\ op'.since = op.since
          /\ op'.edits = op.edits /\ op'.id = op.id /\ op'.change = op.change
          /\ op'.upto = op.upto /\ op'.size = n
      BY <1>0, <1>3, <2>1 DEF Ops, Calls
    <2>3. Types'
      BY <1>0, <1>1, <2>2 DEF IInv, Types
    <2>4. Sealed'
      <3>1. Settles
        BY <1>1 DEF Settles
      <3> QED
        BY <1>0, <1>1, <3>1, SealedFrame DEF IInv
    <2>5. ASSUME Trusted PROVE Content'
      <3>1. file.lines = Ordered(op.upto - 1)
        BY <1>0, <1>3, <2>5 DEF IInv, Work, Content, AsFound
      <3>2. PICK k \in Nat : k = op.upto - 1
        BY <1>0 DEF IInv, Work, Appender, Ops
      <3>3. file.lines = Ordered(k)
        BY <3>1, <3>2
      <3>4. n = op.upto - 1
        BY <2>1, <3>2, <3>3, OrderedListed
      <3>5. Ordered(op.upto - 1)' = file.lines
        BY <1>1, <2>2, <3>1, OrderFrame
      <3>6. Begins'
        BY <1>1, <2>1, <2>2, <3>5 DEF Begins
      <3> QED
        BY <2>2, <3>4, <3>6 DEF Content
    <2>6. Work'
      BY <1>0, <1>1, <2>2, <2>5 DEF IInv, Work, Appender
    <2> QED
      BY <1>0, <1>1, <2>2, <2>3, <2>4, <2>6, HolderStep
  <1> QED
    BY <1>2, <1>3 DEF OpensFile

(* The line lands at the end of the file, or in one that nobody sees.       *)
LEMMA AppendsStep ==
    ASSUME IInv, Appends
    PROVE  IInv'
  <1>0. IInv /\ op.at = "append" /\ op # Idle /\ op \in Ops
    BY DEF IInv, Types, Appends, Idle
  <1>1. UNCHANGED <<rows, stamp, sidecar, window, at, told, lock, spent>>
    BY DEF Appends, Held
  <1>2. PICK line : /\ file' = IF OnName
                               THEN [file EXCEPT !.lines = Append(@, line), !.change = @ + 1]
                               ELSE file
                    /\ IF line = Torn THEN ToRebuild ELSE Onward("grown")
    BY DEF Appends
  <1>3. PICK l : l = Append(file.lines, line)
    OBVIOUS
  <1>4. /\ Listed(file.lines) /\ Listed(l) /\ Len(l) = Len(file.lines) + 1
        /\ Len(file.lines) \in Nat /\ \A i \in 1 .. Len(file.lines) : l[i] = file.lines[i]
    BY <1>0, <1>3, ListedAppend DEF IInv, Types
  <1>5. \/ ~ OnName /\ file' = file
        \/ /\ OnName /\ file'.lines = l /\ file'.id = file.id /\ file'.change = file.change + 1
           /\ file'.there
           /\ file' = [id |-> file'.id, change |-> file'.change, there |-> file'.there,
                       lines |-> file'.lines]
    BY <1>0, <1>2, <1>3 DEF IInv, Types, OnName
  <1>6. /\ file' \in [id : Nat, change : Nat, there : BOOLEAN, lines : {file'.lines}]
        /\ Listed(file'.lines)
    <2>1. /\ file.id \in Nat /\ file.change \in Nat
          /\ file \in [id : Nat, change : Nat, there : BOOLEAN, lines : {file.lines}]
      BY <1>0, FileTyped DEF IInv, Types
    <2>2. CASE file' = file
      BY <1>4, <2>1, <2>2
    <2>3. CASE file' # file
      <3>0. PICK m \in Nat, d \in Nat : m = file.id /\ d = file.change + 1
        BY <2>1
      <3>1. file'.lines = l /\ file'.id = m /\ file'.change = d /\ file'.there \in BOOLEAN
        BY <1>5, <2>3, <3>0
      <3>2. file' = [id |-> file'.id, change |-> file'.change, there |-> file'.there,
                     lines |-> file'.lines]
        BY <1>5, <2>3
      <3>3. PICK i \in Nat, c \in Nat, b \in BOOLEAN : file' = [id |-> i, change |-> c, there |-> b,
                     lines |-> l]
        BY <3>0, <3>1, <3>2
      <3> QED
        BY <1>4, <3>3
    <2> QED
      BY <2>2, <2>3
  <1>7. file' = file \/ Touches
    BY <1>0, <1>5 DEF IInv, Sealed, Touches, OnName
  <1>8. CASE ToRebuild
    BY <1>0, <1>1, <1>6, <1>7, <1>8, RebuildStep
  <1>9. CASE Onward("grown")
    <2>1. /\ op' \in Ops /\ op'.by = op.by /\ op'.at = "grown" /\ op'.since = op.since
          /\ op'.edits = op.edits /\ op'.id = op.id /\ op'.change = op.change
          /\ op'.upto = op.upto /\ op'.size = op.size
      BY <1>0, <1>9 DEF Ops, Calls, Onward
    <2>2. Types'
      BY <1>0, <1>1, <1>6, <2>1 DEF IInv, Types
    <2>3. Sealed'
      <3>1. Settles
        BY <1>1 DEF Settles
      <3> QED
        BY <1>0, <1>1, <1>7, <3>1, SealedFrame, SealedTouched DEF IInv
    <2>4. ASSUME Trusted PROVE Content'
      <3>1. op.size = op.upto - 1 /\ (OnName => Begins)
        BY <1>0, <2>4 DEF IInv, Work, Content
      <3>2. OnName' => OnName /\ file'.lines = l
        BY <1>5, <2>1 DEF OnName
      <3>3. OnName' => Begins' /\ Len(file'.lines) >= op'.size + 1
        <4>1. op.size \in Nat
          BY <1>0 DEF Ops
        <4>2. Ordered(op.upto - 1)' = Ordered(op.upto - 1)
          BY <1>1, <2>1, OrderFrame
        <4>3. ASSUME OnName' PROVE Begins' /\ Len(file'.lines) >= op'.size + 1
          <5>1. Len(file.lines) >= op.size /\ file'.lines = l
                /\ \A i \in 1 .. op.size : file.lines[i] = Ordered(op.upto - 1)[i]
            BY <3>1, <3>2, <4>3 DEF Begins
          <5>2. \A i \in 1 .. op.size : i \in 1 .. Len(file.lines)
            BY <1>4, <4>1, <5>1
          <5>3. Len(l) >= op.size + 1
            BY <1>4, <4>1, <5>1
          <5>4. \A i \in 1 .. op.size : l[i] = Ordered(op.upto - 1)[i]
            BY <1>4, <5>1, <5>2
          <5>5. Len(l) >= op.size
            BY <1>4, <4>1, <5>1
          <5> QED
            BY <2>1, <4>2, <5>1, <5>3, <5>4, <5>5 DEF Begins
        <4> QED
          BY <4>3
      <3> QED
        BY <2>1, <3>1, <3>3 DEF Content
    <2>5. op.id <= file'.id /\ (op.id = file'.id => op.change <= file'.change)
      <3>1. PICK i \in Nat, c \in Nat, k \in Nat, m \in Nat :
                i = file.id /\ c = file.change /\ k = op.id /\ m = op.change
        BY <1>0 DEF IInv, Types, Ops
      <3>2. k <= i /\ (k = i => m <= c)
        BY <1>0, <3>1 DEF IInv, Work, Appender
      <3>3. file'.id = i /\ (file'.change = c \/ file'.change = c + 1)
        BY <1>5, <3>1
      <3> QED
        BY <3>1, <3>2, <3>3
    <2>6. Work'
      BY <1>0, <1>1, <2>1, <2>4, <2>5 DEF IInv, Work, Appender
    <2> QED
      BY <1>0, <1>1, <2>1, <2>2, <2>3, <2>6, HolderStep
  <1> QED
    BY <1>2, <1>8, <1>9

LEMMA MeasuresStep ==
    ASSUME IInv, Measures
    PROVE  IInv'
  <1>0. IInv /\ op.at = "grown" /\ op # Idle /\ op \in Ops
    BY DEF IInv, Types, Measures, Idle
  <1>1. UNCHANGED <<rows, stamp, file, sidecar, window, at, told, lock, spent>>
    BY DEF Measures, Held
  <1>2. CASE ToRebuild
    BY <1>0, <1>1, <1>2, FileTyped, RebuildStep DEF IInv
  <1>3. CASE OnName /\ Len(file.lines) = op.size + 1
             /\ op' = [op EXCEPT !.at = "confirm", !.change = file.change]
    <2>1. /\ op' \in Ops /\ op'.by = op.by /\ op'.at = "confirm" /\ op'.since = op.since
          /\ op'.edits = op.edits /\ op'.id = op.id /\ op'.change = file.change
          /\ op'.upto = op.upto /\ op'.size = op.size
      BY <1>0, <1>3 DEF IInv, Types, Ops, Calls
    <2>2. Types'
      BY <1>0, <1>1, <2>1 DEF IInv, Types
    <2>3. Sealed'
      <3>1. Settles
        BY <1>1 DEF Settles
      <3> QED
        BY <1>0, <1>1, <3>1, SealedFrame DEF IInv
    <2>4. ASSUME Trusted PROVE Content'
      <3>1. op.size = op.upto - 1 /\ Begins
        BY <1>0, <1>3, <2>4 DEF IInv, Work, Content
      <3>2. Begins'
        BY <1>1, <2>1, <3>1, OrderFrame DEF Begins
      <3> QED
        BY <1>1, <1>3, <2>1, <3>1, <3>2 DEF Content
    <2>5. file.id = op.id /\ file.change \in Nat /\ file.id \in Nat
      BY <1>0, <1>3 DEF OnName, IInv, Types
    <2>6. Work'
      BY <1>0, <1>1, <2>1, <2>4, <2>5 DEF IInv, Work, Appender
    <2> QED
      BY <1>0, <1>1, <2>1, <2>2, <2>3, <2>6, HolderStep
  <1> QED
    BY <1>2, <1>3 DEF Measures

(* The last line is read back, and those before it were there already.      *)
LEMMA ConfirmsStep ==
    ASSUME IInv, Confirms
    PROVE  IInv'
  <1>0. IInv /\ op.at = "confirm" /\ op # Idle /\ op \in Ops
    BY DEF IInv, Types, Confirms, Idle
  <1>1. UNCHANGED <<rows, stamp, file, sidecar, window, at, told, lock, spent>>
    BY DEF Confirms, Held
  <1>2. CASE ToRebuild
    BY <1>0, <1>1, <1>2, FileTyped, RebuildStep DEF IInv
  <1>3. CASE AsFound /\ file.lines[op.size + 1] = rows[op.upto] /\ Onward("seal")
    <2>1. /\ op' \in Ops /\ op'.by = op.by /\ op'.at = "seal" /\ op'.since = op.since
          /\ op'.edits = op.edits /\ op'.id = op.id /\ op'.change = op.change
          /\ op'.upto = op.upto /\ op'.size = op.size
      BY <1>0, <1>3 DEF Ops, Calls, Onward
    <2>2. Types'
      BY <1>0, <1>1, <2>1 DEF IInv, Types
    <2>3. Sealed'
      <3>1. Settles
        BY <1>1 DEF Settles
      <3> QED
        BY <1>0, <1>1, <3>1, SealedFrame DEF IInv
    <2>4. ASSUME Trusted PROVE file.lines = Ordered(op.upto)
      <3>1. PICK n \in Nat : n = op.upto
        BY <1>0 DEF Ops
      <3>2. n \in 1 .. Len(rows) /\ \A i \in 1 .. n - 1 : stamp[rows[i]] < stamp[rows[n]]
        BY <1>0, <3>1 DEF IInv, Work, Appender, Types
      <3>3. Once(rows)
        BY <1>0 DEF IInv, Table, Once
      <3>4. /\ Ordered(n)[n] = rows[n]
            /\ \A k \in 1 .. n - 1 : Ordered(n)[k] = Ordered(n - 1)[k]
        BY <1>0, <3>2, <3>3, OrderedGrows DEF IInv, Types
      <3>5. Begins /\ Len(file.lines) = op.size + 1 /\ op.size = op.upto - 1
        BY <1>0, <1>3, <2>4 DEF IInv, Work, Content
      <3>6. /\ Len(file.lines) = n /\ file.lines[n] = rows[n]
            /\ \A i \in 1 .. n - 1 : file.lines[i] = Ordered(n - 1)[i]
        <4>1. op.size = n - 1 /\ op.size + 1 = n
          BY <3>1, <3>5
        <4>2. Ordered(op.upto - 1) = Ordered(n - 1)
          BY <3>1
        <4>3. \A i \in 1 .. op.size : file.lines[i] = Ordered(op.upto - 1)[i]
          BY <3>5 DEF Begins
        <4> QED
          BY <1>3, <3>1, <3>5, <4>1, <4>2, <4>3
      <3>7. PICK s, t : s = file.lines /\ t = Ordered(n)
        OBVIOUS
      <3>8. s \in Seq(Elements(s)) /\ t \in Seq(Elements(t)) /\ Len(s) = n /\ Len(t) = n
        BY <1>0, <3>1, <3>6, <3>7, OrderedListed DEF IInv, Types, Listed
      <3>9. \A i \in 1 .. n : s[i] = t[i]
        <4>1. \A i \in 1 .. n : i = n \/ i \in 1 .. n - 1
          BY <3>1
        <4> QED
          BY <3>4, <3>6, <3>7, <4>1
      <3>10. s = t
        BY <3>8, <3>9
      <3> QED
        BY <3>1, <3>7, <3>10
    <2>5. ASSUME Trusted PROVE Content'
      BY <1>1, <2>1, <2>4, <2>5, OrderFrame DEF Content
    <2>6. Work'
      BY <1>0, <1>1, <1>3, <2>1, <2>5 DEF IInv, Work, Appender, AsFound, OnName
    <2> QED
      BY <1>0, <1>1, <2>1, <2>2, <2>3, <2>6, HolderStep
  <1> QED
    BY <1>2, <1>3 DEF Confirms, AsFound

LEMMA RendersStep ==
    ASSUME IInv, Renders
    PROVE  IInv'
  <1>0. IInv /\ op.at = "render" /\ op # Idle /\ op \in Ops
    BY DEF IInv, Types, Renders, Idle
  <1>1. UNCHANGED <<rows, stamp, file, sidecar, window, at, told, lock, spent>>
    BY DEF Renders, Held
  <1>2. PICK n \in Nat : n = Len(rows)
    <2>1. rows \in Seq(Requests)
      BY <1>0 DEF IInv, Types
    <2> QED
      BY <2>1
  <1>3. /\ op' \in Ops /\ op'.by = op.by /\ op'.at = "swap" /\ op'.since = op.since
        /\ op'.edits = op.edits /\ op'.upto = n
    <2>1. op' = [op EXCEPT !.at = "swap", !.way = "rebuild", !.upto = n]
      BY <1>2 DEF Renders
    <2> QED
      BY <1>0, <2>1 DEF Ops, Calls
  <1>4. Types'
    BY <1>0, <1>1, <1>3 DEF IInv, Types
  <1>5. Sealed'
    <2>1. Settles
      BY <1>1 DEF Settles
    <2> QED
      BY <1>0, <1>1, <2>1, SealedFrame DEF IInv
  <1>6. Work'
    BY <1>0, <1>1, <1>2, <1>3 DEF IInv, Work, Content, Appender
  <1> QED
    BY <1>0, <1>1, <1>3, <1>4, <1>5, <1>6, HolderStep

LEMMA SwapsStep ==
    ASSUME IInv, Swaps
    PROVE  IInv'
  <1>0. IInv /\ op.at = "swap" /\ op # Idle /\ op \in Ops
    BY DEF IInv, Types, Swaps, Idle
  <1>1. UNCHANGED <<rows, stamp, sidecar, window, at, told, lock, spent>>
    BY DEF Swaps, Held
  <1>2. PICK n \in Nat, i \in Nat : n = op.upto /\ i = file.id
    BY <1>0 DEF IInv, Types, Ops
  <1>3. /\ file'.id = i + 1 /\ file'.change = 1 /\ file'.there /\ file'.lines = Ordered(n)
        /\ file' = [id |-> file'.id, change |-> file'.change, there |-> file'.there,
                    lines |-> file'.lines]
    BY <1>2 DEF Swaps
  <1>4. /\ op' \in Ops /\ op'.by = op.by /\ op'.at = "verify" /\ op'.since = op.since
        /\ op'.edits = op.edits /\ op'.upto = n /\ op'.id = i + 1 /\ op'.change = 1
    <2>1. PICK k \in Nat : k = i + 1
      BY <1>2
    <2>2. op' = [op EXCEPT !.at = "verify", !.id = k, !.change = 1]
      BY <1>2, <2>1 DEF Swaps
    <2>3. op' \in Ops /\ op'.by = op.by /\ op'.at = "verify" /\ op'.since = op.since
          /\ op'.edits = op.edits /\ op'.upto = op.upto /\ op'.id = k /\ op'.change = 1
      BY <1>0, <2>2 DEF Ops, Calls
    <2> QED
      BY <1>2, <2>1, <2>3
  <1>5. Listed(Ordered(n))
    BY OrderedListed
  <1>6. Types'
    BY <1>0, <1>1, <1>3, <1>4, <1>5 DEF IInv, Types
  <1>7. Sealed'
    <2>1. Settles
      BY <1>1 DEF Settles
    <2>2. Touches
      BY <1>2, <1>3 DEF Touches
    <2> QED
      BY <1>0, <1>1, <2>1, <2>2, SealedTouched DEF IInv
  <1>8. Content'
    <2>1. Ordered(op.upto)' = Ordered(n)
      BY <1>1, <1>2, <1>4, OrderFrame
    <2> QED
      BY <1>3, <1>4, <2>1 DEF Content
  <1>9. Work'
    BY <1>0, <1>1, <1>2, <1>3, <1>4, <1>8 DEF IInv, Work, Appender
  <1> QED
    BY <1>0, <1>1, <1>4, <1>6, <1>7, <1>9, HolderStep

LEMMA VerifiesStep ==
    ASSUME IInv, Verifies
    PROVE  IInv'
  <1>0. IInv /\ op.at = "verify" /\ op # Idle /\ op \in Ops
    BY DEF IInv, Types, Verifies, Idle
  <1>1. UNCHANGED <<rows, stamp, file, sidecar, window, spent>>
    BY DEF Verifies
  <1>2. CASE Ends("pending")
    BY <1>0, <1>1, <1>2, EndsStep
  <1>3. CASE AsFound /\ Onward("seal") /\ UNCHANGED <<at, told, lock>>
    <2>1. /\ op' \in Ops /\ op'.by = op.by /\ op'.at = "seal" /\ op'.since = op.since
          /\ op'.edits = op.edits /\ op'.id = op.id /\ op'.change = op.change
          /\ op'.upto = op.upto
      BY <1>0, <1>3 DEF Ops, Calls, Onward
    <2>2. Types'
      BY <1>0, <1>1, <1>3, <2>1 DEF IInv, Types
    <2>3. Sealed'
      <3>1. Settles
        BY <1>3 DEF Settles
      <3> QED
        BY <1>0, <1>1, <3>1, SealedFrame DEF IInv
    <2>4. ASSUME Trusted PROVE Content'
      <3>1. file.lines = Ordered(op.upto)
        BY <1>0, <1>3, <2>4 DEF IInv, Work, Content
      <3> QED
        BY <1>1, <2>1, <3>1, OrderFrame DEF Content
    <2>5. Work'
      BY <1>0, <1>1, <1>3, <2>1, <2>4 DEF IInv, Work, Appender, AsFound, OnName
    <2> QED
      BY <1>0, <1>1, <1>3, <2>1, <2>2, <2>3, <2>5, HolderStep
  <1> QED
    BY <1>2, <1>3 DEF Verifies, AsFound

(* The last line is the row that sorts after all the others.                *)
LEMMA LastLine ==
    ASSUME Types, Table, NEW n \in 1 .. Len(rows)
    PROVE  \E j \in 1 .. n :
              /\ Last(Ordered(n)) = rows[j]
              /\ \A i \in 1 .. n : stamp[rows[i]] <= stamp[rows[j]]
  <1>1. PICK j \in 1 .. n : \A i \in 1 .. n : i # j => stamp[rows[i]] < stamp[rows[j]]
    BY DEF Table
  <1>2. Once(rows)
    BY DEF Table, Once
  <1>3. rows \in Seq(Requests) /\ stamp \in [Requests -> Nat]
    BY DEF Types
  <1>4. Ordered(n)[n] = rows[j]
    BY <1>1, <1>2, <1>3, OrderedLast
  <1>5. Last(Ordered(n)) = Ordered(n)[n]
    <2>1. Len(Ordered(n)) = n
      BY OrderedListed
    <2> QED
      BY <2>1 DEF Last
  <1>6. \A i \in 1 .. n : stamp[rows[i]] \in Nat
    BY <1>3
  <1> QED
    BY <1>1, <1>4, <1>5, <1>6

LEMMA SealsStep ==
    ASSUME IInv, Seals
    PROVE  IInv'
  <1>0. IInv /\ op.at = "seal" /\ op # Idle /\ op \in Ops
    BY DEF IInv, Types, Seals, Idle
  <1>1. UNCHANGED <<rows, stamp, file, window, spent>> /\ Ends("projected")
    BY DEF Seals
  <1>2. PICK n \in Nat : n = op.upto /\ n <= Len(rows)
    BY <1>0 DEF IInv, Work, Ops
  <1>3. PICK last, tail :
            /\ sidecar' = [id |-> op.id, change |-> op.change, cursor |-> n,
                           last |-> last, tail |-> tail]
            /\ last = IF n = 0 THEN Nobody ELSE rows[n]
            /\ tail = IF n = 0 THEN 0 ELSE stamp[Last(Ordered(n))]
    BY <1>2 DEF Seals
  <1>4. /\ last \in Requests \cup {Nobody} /\ tail \in Nat
        /\ \A i \in 1 .. n : stamp[rows[i]] <= tail
    <2>1. CASE n = 0
      BY <1>3, <2>1
    <2>2. CASE n # 0
      <3>1. n \in 1 .. Len(rows) /\ rows \in Seq(Requests) /\ stamp \in [Requests -> Nat]
        BY <1>0, <1>2, <2>2 DEF IInv, Types
      <3>2. PICK j \in 1 .. n :
                /\ Last(Ordered(n)) = rows[j]
                /\ \A i \in 1 .. n : stamp[rows[i]] <= stamp[rows[j]]
        BY <1>0, <3>1, LastLine DEF IInv
      <3>3. j \in 1 .. Len(rows)
        BY <3>1
      <3> QED
        BY <1>3, <2>2, <3>1, <3>2, <3>3
    <2> QED
      BY <2>1, <2>2
  <1>5. sidecar' \in [id : Nat, change : Nat, cursor : Nat, last : Requests \cup {Nobody}, tail : Nat]
    BY <1>0, <1>3, <1>4 DEF Ops
  <1>6. Table' /\ Answered' /\ Windows' /\ Owner' /\ Work' /\ Types'
    BY <1>0, <1>1, <1>5, EndsParts
  <1>7. Sealed'
    <2>1. op.id <= file.id /\ (op.id = file.id => op.change <= file.change)
      BY <1>0 DEF IInv, Work
    <2>2. file.there => file.id >= 1
      BY <1>0 DEF IInv, Sealed
    <2>3. Trusted /\ SealMatches(sidecar)' => file'.lines = Ordered(sidecar.cursor)'
      <3>1. ASSUME Trusted, SealMatches(sidecar)' PROVE file.lines = Ordered(n)
        <4>1. AsFound
          BY <1>1, <1>3, <3>1 DEF SealMatches, AsFound, OnName
        <4> QED
          BY <1>0, <1>2, <3>1, <4>1 DEF IInv, Work, Content
      <3>2. sidecar'.cursor = n
        BY <1>3
      <3>3. Ordered(sidecar.cursor)' = Ordered(n)
        BY <1>1, <3>2 DEF Ordered
      <3> QED
        BY <1>1, <3>1, <3>3
    <2>4. \A i \in 1 .. sidecar'.cursor : stamp'[rows'[i]] <= sidecar'.tail
      BY <1>1, <1>3, <1>4
    <2>5. sidecar'.last \in Requests => at'[sidecar'.last] \in Past
      <3>1. ASSUME last \in Requests PROVE at'[last] \in Past
        <4>1. n # 0 /\ last = rows[n]
          BY <1>3, <3>1, AttemptsAssumption DEF Actors
        <4>2. n \in 1 .. Len(rows')
          BY <1>0, <1>1, <1>2, <4>1 DEF IInv, Types
        <4> QED
          BY <1>1, <1>6, <4>1, <4>2 DEF Table
      <3> QED
        BY <1>3, <3>1
    <2> QED
      BY <1>1, <1>3, <2>1, <2>2, <2>3, <2>4, <2>5 DEF Sealed
  <1> QED
    BY <1>6, <1>7 DEF IInv

-----------------------------------------------------------------------------
(* What happens around it.                                                  *)

LEMMA CrashesStep ==
    ASSUME IInv, NEW p \in Procs, Crashes(p)
    PROVE  IInv'
  <1> DEFINE gone == {a \in Actors : ProcOf[a] = p /\ Running(a)}
  <1>0. IInv
    OBVIOUS
  <1>1. UNCHANGED <<rows, stamp, file, sidecar>>
    BY DEF Crashes
  <1>2. /\ at' = [a \in Actors |-> IF a \in gone THEN "done" ELSE at[a]]
        /\ told' = [a \in Actors |->
                      IF a \in gone THEN [Unanswered EXCEPT !.result = "lost"] ELSE told[a]]
        /\ op' = IF op.by \in gone THEN Idle ELSE op
    BY DEF Crashes
  <1>3. \A a \in Actors : a \in gone <=> ProcOf[a] = p /\ at[a] \notin {"new", "done"}
    BY DEF Running
  <1> HIDE DEF gone
  <1>4. \A a \in Actors :
            /\ a \in gone => at'[a] = "done" /\ told'[a] = [result |-> "lost", row |-> Nobody]
            /\ a \notin gone => at'[a] = at[a] /\ told'[a] = told[a]
    BY <1>2 DEF Unanswered
  <1>5. /\ at' \in [Actors -> Stations]
        /\ told' \in [Actors -> [result : Results, row : Requests \cup {Nobody}]]
    <2>1. "done" \in Stations /\ "lost" \in Results
      BY DEF Stations, Results
    <2>2. \A a \in Actors : at'[a] \in Stations
                            /\ told'[a] \in [result : Results, row : Requests \cup {Nobody}]
      BY <1>0, <1>4, <2>1 DEF IInv, Types
    <2> QED
      BY <1>2, <2>2
  <1>6. /\ lock' \in [Procs -> Actors \cup {Nobody}]
        /\ window' \in [Procs -> Seq(Requests)] /\ window'[p] = <<>>
        /\ \A q \in Procs \ {p} : window'[q] = window[q]
    <2>1. <<>> \in Seq(Requests)
      OBVIOUS
    <2> QED
      BY <1>0, <2>1 DEF IInv, Types, Crashes
  <1>7. op' \in Ops /\ (op' = Idle \/ (op' = op /\ op.by \notin gone))
    BY <1>0, <1>2 DEF IInv, Types, Idle, Ops, Calls
  <1>8. /\ spent' \in [edits : Nat, crashes : Nat, restores : Nat]
        /\ spent'.edits = spent.edits /\ spent'.restores = spent.restores
    <2>1. spent \in [edits : Nat, crashes : Nat, restores : Nat]
      BY <1>0 DEF IInv, Types
    <2>2. PICK c \in Nat : c = spent.crashes + 1
      BY <2>1
    <2>3. spent' = [spent EXCEPT !.crashes = c]
      BY <2>2 DEF Crashes
    <2> QED
      BY <2>1, <2>3
  <1>9. Types'
    BY <1>0, <1>1, <1>5, <1>6, <1>7, <1>8 DEF IInv, Types
  <1>10. Settles
    BY <1>4 DEF Settles, Past, Actors
  <1>11. Answered'
    <2>1. \A a \in Actors : at'[a] # "done" => told'[a] = Unanswered
      BY <1>0, <1>4 DEF IInv, Answered
    <2>2. ASSUME spent'.restores = 0, NEW r \in Requests
          PROVE  TrueAnswer(r, told[r].result, told[r].row)'
      <3>1. r \in Actors
        BY DEF Actors
      <3> QED
        BY <1>0, <1>1, <1>4, <1>8, <2>2, <3>1 DEF IInv, Answered, TrueAnswer
    <2> QED
      BY <2>1, <2>2 DEF Answered
  <1>12. Windows'
    <2>1. Once(<<>>) /\ Elements(<<>>) = {}
      BY DEF Once, Elements
    <2>2. ASSUME NEW q \in Procs, q # p, NEW r \in Elements(window[q])
          PROVE  /\ ProcOf[r] = q /\ at'[r] \notin {"new", "validate"}
                 /\ told'[r].result \notin {"duplicate", "conflict"}
      <3>1. r \in Actors
        BY <1>0, AllRequests DEF IInv, Actors
      <3>2. /\ ProcOf[r] = q /\ at[r] \notin {"new", "validate"}
            /\ told[r].result \notin {"duplicate", "conflict"}
        BY <1>0 DEF IInv, Windows
      <3> QED
        BY <1>3, <1>4, <2>2, <3>1, <3>2
    <2>3. \A q \in Procs : Once(window'[q])
      BY <1>0, <1>6, <2>1 DEF IInv, Windows
    <2>4. ASSUME NEW q \in Procs, NEW r \in Elements(window'[q])
          PROVE  q # p /\ r \in Elements(window[q])
      BY <1>6, <2>1, <2>4
    <2> QED
      BY <2>2, <2>3, <2>4 DEF Windows
  <1>13. Owner'
    BY <1>0, <1>4, <1>7 DEF IInv, Owner
  <1>14. Work'
    <2>1. CASE op' = Idle
      <3>1. Len(rows') >= 0 /\ spent'.edits >= 0
        BY <1>9 DEF Types
      <3> QED
        BY <2>1, <3>1 DEF Work, Content, Appender, Idle
    <2>2. CASE op' = op
      <3>1. Ordered(op.upto)' = Ordered(op.upto) /\ Ordered(op.upto - 1)' = Ordered(op.upto - 1)
        BY <1>1, <2>2, OrderFrame
      <3> QED
        BY <1>0, <1>1, <1>8, <2>2, <3>1 DEF IInv, Work, Content, AsFound, OnName, Begins
    <2> QED
      BY <1>7, <2>1, <2>2
  <1> QED
    BY <1>0, <1>1, <1>9, <1>10, <1>11, <1>12, <1>13, <1>14, TableFrame, SealedFrame DEF IInv

(* Nobody runs, so nobody holds the file lock either.                       *)
LEMMA RestoresStep ==
    ASSUME IInv, RestoresDatabase
    PROVE  IInv'
  <1>0. IInv /\ rows \in Seq(Requests)
    BY DEF IInv, Types
  <1>1. UNCHANGED <<stamp, file, sidecar, at, told, lock, op>>
    BY DEF RestoresDatabase
  <1>2. \A a \in Actors : at[a] \in {"new", "done"}
    BY DEF RestoresDatabase, Running
  <1>3. op = Idle
    BY <1>0, <1>2 DEF IInv, Owner
  <1>4. PICK n \in 0 .. Len(rows) - 1 : rows' = SubSeq(rows, 1, n)
    BY DEF RestoresDatabase
  <1>5. /\ rows' \in Seq(Requests) /\ Len(rows') = n /\ n \in Nat
        /\ \A i \in 1 .. n : rows'[i] = rows[i] /\ i \in 1 .. Len(rows)
    BY <1>0, <1>4
  <1>6. /\ window' = [p \in Procs |-> <<>>]
        /\ window' \in [Procs -> Seq(Requests)]
    BY DEF RestoresDatabase
  <1>7. /\ spent' \in [edits : Nat, crashes : Nat, restores : Nat]
        /\ spent'.restores # 0
    <2>1. spent \in [edits : Nat, crashes : Nat, restores : Nat]
      BY <1>0 DEF IInv, Types
    <2>2. PICK c \in Nat : c = spent.restores + 1 /\ c # 0
      BY <2>1
    <2>3. spent' = [spent EXCEPT !.restores = c]
      BY <2>2 DEF RestoresDatabase
    <2> QED
      BY <2>1, <2>2, <2>3
  <1>8. Types'
    BY <1>0, <1>1, <1>5, <1>6, <1>7 DEF IInv, Types
  <1>9. Table'
    <2>1. \A i \in 1 .. n : at'[rows'[i]] \in Past
      BY <1>0, <1>1, <1>5 DEF IInv, Table
    <2>2. /\ \A i, j \in 1 .. n : KeyOf[rows'[i]] = KeyOf[rows'[j]] => i = j
          /\ \A i, j \in 1 .. n : stamp'[rows'[i]] = stamp'[rows'[j]] => i = j
      <3>1. /\ \A i, j \in 1 .. Len(rows) : KeyOf[rows[i]] = KeyOf[rows[j]] => i = j
            /\ \A i, j \in 1 .. Len(rows) : stamp[rows[i]] = stamp[rows[j]] => i = j
        BY <1>0 DEF IInv, Table
      <3> QED
        BY <1>1, <1>5, <3>1
    <2>3. ASSUME NEW k \in 1 .. n
          PROVE  \E j \in 1 .. k : \A i \in 1 .. k : i # j => stamp'[rows'[i]] < stamp'[rows'[j]]
      <3>1. PICK j \in 1 .. k : \A i \in 1 .. k : i # j => stamp[rows[i]] < stamp[rows[j]]
        BY <1>0, <1>5 DEF IInv, Table
      <3>2. \A i \in 1 .. k : stamp'[rows'[i]] = stamp[rows[i]]
        BY <1>1, <1>5
      <3> QED
        BY <3>1, <3>2
    <2>4. \A r \in Requests : at'[r] \notin {"project", "projecting"}
      BY <1>1, <1>2 DEF Actors
    <2> QED
      BY <1>5, <2>1, <2>2, <2>3, <2>4 DEF Table
  <1>10. Answered'
    BY <1>0, <1>1, <1>7 DEF IInv, Answered
  <1>11. Windows'
    <2>1. Once(<<>>) /\ Elements(<<>>) = {}
      BY DEF Once, Elements
    <2>2. \A p \in Procs : window'[p] = <<>>
      BY <1>6
    <2> QED
      BY <2>1, <2>2 DEF Windows
  <1>12. Owner'
    BY <1>1, <1>3 DEF Owner
  <1>13. Sealed'
    <2>1. PICK c \in Nat : c = sidecar.cursor
      BY <1>0 DEF IInv, Types
    <2>2. Anchor' => Anchor /\ c <= n
      BY <1>0, <1>1, <1>5, <2>1 DEF Anchor
    <2>3. c <= n => Ordered(c)' = Ordered(c)
      <3>1. c <= n => \A i \in 1 .. c : rows'[i] = rows[i] /\ stamp'[rows[i]] = stamp[rows[i]]
        BY <1>1, <1>5
      <3> QED
        BY <3>1, OrderedStays
    <2>4. Ordered(sidecar.cursor)' = Ordered(c)'
      BY <1>1, <2>1 DEF Ordered
    <2>5. ASSUME Trusted, SealMatches(sidecar)', sidecar'.cursor = 0 \/ Anchor'
          PROVE  file'.lines = Ordered(sidecar.cursor)'
      <3>1. c <= n /\ (c = 0 \/ Anchor)
        BY <1>1, <1>5, <2>1, <2>2, <2>5
      <3>2. file.lines = Ordered(c)
        BY <1>0, <1>1, <2>1, <2>5, <3>1 DEF IInv, Sealed, SealMatches
      <3> QED
        BY <1>1, <2>3, <2>4, <3>1, <3>2
    <2>6. Anchor' => \A i \in 1 .. sidecar'.cursor : stamp'[rows'[i]] <= sidecar'.tail
      <3>1. ASSUME Anchor', NEW i \in 1 .. c PROVE stamp'[rows'[i]] <= sidecar.tail
        <4>1. rows'[i] = rows[i] /\ stamp[rows[i]] <= sidecar.tail
          BY <1>0, <1>5, <2>1, <2>2, <3>1 DEF IInv, Sealed
        <4> QED
          BY <1>1, <4>1
      <3> QED
        BY <1>1, <2>1, <3>1
    <2> QED
      BY <1>0, <1>1, <2>5, <2>6 DEF IInv, Sealed
  <1>14. Work'
    <2>1. Len(rows') >= 0 /\ spent'.edits >= 0
      BY <1>8 DEF Types
    <2> QED
      BY <1>1, <1>3, <2>1 DEF Work, Content, Appender, Idle
  <1> QED
    BY <1>8, <1>9, <1>10, <1>11, <1>12, <1>13, <1>14 DEF IInv

(* An edit breaks the seal, and spends the promise that there was none. It  *)
(* goes unnoticed by the holder of the file lock only as more lines.        *)
LEMMA EditsStep ==
    ASSUME IInv, NEW kind \in EditKinds, Edits(kind)
    PROVE  IInv'
  <1>0. IInv
    OBVIOUS
  <1>1. UNCHANGED <<rows, stamp, sidecar, window, at, told, lock, op>>
    BY DEF Edits
  <1>2. /\ spent' \in [edits : Nat, crashes : Nat, restores : Nat]
        /\ spent'.edits = spent.edits + 1 /\ spent'.restores = spent.restores
        /\ spent.edits \in Nat
    <2>1. spent \in [edits : Nat, crashes : Nat, restores : Nat]
      BY <1>0 DEF IInv, Types
    <2>2. PICK c \in Nat : c = spent.edits + 1
      BY <2>1
    <2>3. spent' = [spent EXCEPT !.edits = c]
      BY <2>2 DEF Edits
    <2> QED
      BY <2>1, <2>2, <2>3
  <1>3. PICK id \in Nat, change \in Nat, there \in BOOLEAN, lines \in {file.lines} :
            /\ file = [id |-> id, change |-> change, there |-> there, lines |-> lines]
            /\ Listed(lines)
    BY <1>0 DEF IInv, Types
  <1> DEFINE rewritten == [i \in DOMAIN lines |-> Foreign]
  <1>4. \/ /\ kind = "save"
           /\ file' = [id |-> id + 1, change |-> 1, there |-> TRUE, lines |-> <<Foreign>>]
        \/ /\ kind = "append" /\ there
           /\ file' = [id |-> id, change |-> change + 1, there |-> TRUE,
                       lines |-> Append(lines, Foreign)]
        \/ /\ kind = "rewrite" /\ there
           /\ file' = [id |-> id, change |-> change + 1, there |-> TRUE, lines |-> rewritten]
        \/ /\ kind = "remove"
           /\ file' = [id |-> id, change |-> change, there |-> FALSE, lines |-> <<>>]
    BY <1>3 DEF Edits, EditKinds
  <1>5. Listed(<<Foreign>>) /\ Listed(<<>>) /\ Listed(rewritten)
    <2>1. <<Foreign>> \in Seq(Elements(<<Foreign>>)) /\ <<>> \in Seq(Elements(<<>>))
      BY DEF Elements
    <2>2. PICK n \in Nat : DOMAIN lines = 1 .. n
      BY <1>3 DEF Listed
    <2>3. PICK s : s = [i \in 1 .. n |-> Foreign]
      OBVIOUS
    <2>4. Len(s) = n /\ Elements(s) = {Foreign : i \in 1 .. n}
      BY <2>3 DEF Elements
    <2>5. [i \in 1 .. n |-> Foreign] \in Seq({Foreign : i \in 1 .. n})
      OBVIOUS
    <2> QED
      BY <2>1, <2>2, <2>3, <2>4, <2>5 DEF Listed
  <1> HIDE DEF rewritten
  <1>6. /\ Listed(Append(lines, Foreign)) /\ Len(Append(lines, Foreign)) = Len(lines) + 1
        /\ Len(lines) \in Nat
        /\ \A i \in 1 .. Len(lines) : Append(lines, Foreign)[i] = lines[i]
    BY <1>3, ListedAppend
  <1>7. Types'
    <2>1. PICK i \in Nat, c \in Nat, b \in BOOLEAN, l \in {file'.lines} :
              /\ file' = [id |-> i, change |-> c, there |-> b, lines |-> l]
              /\ Listed(l)
      <3>1. id + 1 \in Nat /\ change + 1 \in Nat /\ change \in Nat /\ id \in Nat /\ 1 \in Nat
        OBVIOUS
      <3>2. PICK i, c, b, l : /\ i \in Nat /\ c \in Nat /\ b \in BOOLEAN /\ Listed(l)
                              /\ file' = [id |-> i, change |-> c, there |-> b, lines |-> l]
        BY <1>4, <1>5, <1>6, <3>1
      <3>3. file'.lines = l
        BY <3>2
      <3> QED
        BY <3>2, <3>3
    <2> QED
      BY <1>0, <1>1, <1>2, <2>1 DEF IInv, Types
  <1>8. Touches
    BY <1>0, <1>3, <1>4 DEF IInv, Sealed, Touches
  <1>9. Settles
    BY <1>1 DEF Settles
  <1>10. Sealed'
    BY <1>0, <1>1, <1>8, <1>9, SealedTouched DEF IInv
  <1>11. Answered' /\ Windows' /\ Owner'
    BY <1>0, <1>1, <1>2 DEF IInv, Answered, TrueAnswer, Windows, Owner
  <1>12. ASSUME Trusted PROVE Content'
    <2>1. CASE op = Idle
      BY <1>1, <2>1 DEF Content, Idle
    <2>2. CASE op # Idle
      <3>1. kind # "rewrite" /\ Content
        BY <1>0, <1>12, <2>2 DEF Edits, IInv, Work
      <3>2. Ordered(op.upto - 1)' = Ordered(op.upto - 1)
        BY <1>1, OrderFrame
      <3>3. PICK k \in Nat, c \in Nat, z \in Nat : k = op.id /\ c = op.change /\ z = op.size
        BY <1>0 DEF IInv, Types, Ops
      <3>4. op.at \in Appender \cup {"verify", "seal"} => k <= id /\ (k = id => c <= change)
        BY <1>0, <1>3, <3>3 DEF IInv, Work
      <3>5. op.at \in Appender \cup {"verify", "seal"} => ~ AsFound'
        BY <1>1, <1>3, <1>4, <3>1, <3>3, <3>4 DEF AsFound, OnName
      <3>6. op.at \in Appender /\ OnName' =>
                OnName /\ file.lines = lines /\ file'.lines = Append(lines, Foreign)
        BY <1>1, <1>3, <1>4, <3>1, <3>3, <3>4 DEF OnName
      <3>7. op.at \in Appender /\ OnName' /\ Begins => Begins' /\ Len(file'.lines) >= Len(file.lines)
        <4>1. ASSUME op.at \in Appender, OnName', Begins
              PROVE  Begins' /\ Len(file'.lines) >= Len(file.lines)
          <5>1. /\ Len(lines) >= z
                /\ \A i \in 1 .. z : lines[i] = Ordered(op.upto - 1)[i]
            BY <3>3, <3>6, <4>1 DEF Begins
          <5>2. \A i \in 1 .. z : Append(lines, Foreign)[i] = Ordered(op.upto - 1)[i]
            BY <1>6, <5>1
          <5>3. Len(Append(lines, Foreign)) >= z /\ Len(Append(lines, Foreign)) >= Len(lines)
            BY <1>6, <5>1
          <5> QED
            BY <1>1, <3>2, <3>3, <3>6, <4>1, <5>2, <5>3 DEF Begins
        <4> QED
          BY <4>1
      <3>8. {"open", "append", "grown", "confirm"} \subseteq Appender
        BY DEF Appender
      <3>9. op.at = "grown" /\ OnName' => Len(file'.lines) >= z + 1
        <4>1. op.at = "grown" /\ OnName' => Len(lines) >= z + 1
          BY <3>1, <3>3, <3>6, <3>8 DEF Content
        <4> QED
          BY <1>6, <3>3, <3>6, <3>8, <4>1
      <3> QED
        BY <1>1, <3>1, <3>3, <3>5, <3>6, <3>7, <3>8, <3>9 DEF Content
    <2> QED
      BY <2>1, <2>2
  <1>13. Work'
    <2>1. PICK k \in Nat, c \in Nat, x \in Nat, y \in Nat, e \in Nat :
              /\ k = op.id /\ c = op.change /\ x = file.id /\ y = file.change /\ e = op.edits
      BY <1>0, <1>3 DEF IInv, Types, Ops
    <2>2. op.at \in Appender \cup {"verify", "seal"} =>
              op.id <= file'.id /\ (op.id = file'.id => op.change <= file'.change)
      <3>1. op.at \in Appender \cup {"verify", "seal"} => k <= x /\ (k = x => c <= y)
        BY <1>0, <2>1 DEF IInv, Work
      <3>2. \/ file'.id = x /\ (file'.change = y \/ file'.change = y + 1)
            \/ file'.id = x + 1
        BY <1>8, <2>1 DEF Touches
      <3> QED
        BY <2>1, <3>1, <3>2
    <2>3. e <= spent.edits /\ op'.edits # spent'.edits /\ op'.edits <= spent'.edits
      BY <1>0, <1>1, <1>2, <2>1 DEF IInv, Work
    <2> QED
      BY <1>0, <1>1, <1>12, <2>2, <2>3 DEF IInv, Work, Appender
  <1>14. Table'
    BY <1>0, <1>1, <1>9, TableFrame DEF IInv
  <1> QED
    BY <1>7, <1>10, <1>11, <1>13, <1>14 DEF IInv

-----------------------------------------------------------------------------
(* The theorems.                                                            *)

LEMMA Start == Init => IInv
  <1> SUFFICES ASSUME Init PROVE IInv
    OBVIOUS
  <1> USE DEF Init
  <1>1. Types
    <2>1. <<>> \in Seq(Requests) /\ Listed(<<>>) /\ Len(<<>>) = 0
      <3>1. <<>> \in Seq(Elements(<<>>))
        OBVIOUS
      <3> QED
        BY <3>1 DEF Listed
    <2>2. op \in Ops
      BY DEF Idle, Ops, Calls
    <2>3. sidecar \in [id : Nat, change : Nat, cursor : Nat, last : Requests \cup {Nobody},
                       tail : Nat]
      BY DEF NoState
    <2>4. "new" \in Stations /\ "none" \in Results
      BY DEF Stations, Results
    <2>5. told \in [Actors -> [result : Results, row : Requests \cup {Nobody}]]
      BY <2>4 DEF Unanswered
    <2> QED
      BY <2>1, <2>2, <2>3, <2>4, <2>5 DEF Types
  <1>2. Table
    BY DEF Table, Actors
  <1>3. Answered
    BY DEF Answered, TrueAnswer, Unanswered, Actors
  <1>4. Windows
    BY DEF Windows, Once, Elements
  <1>5. Owner
    BY DEF Owner
  <1>6. Sealed
    BY AttemptsAssumption DEF Sealed, SealMatches, Anchor, NoState, Actors
  <1>7. Work
    BY DEF Work, Content, Idle, Appender
  <1> QED
    BY <1>1, <1>2, <1>3, <1>4, <1>5, <1>6, <1>7 DEF IInv

LEMMA Stutter ==
    ASSUME IInv, UNCHANGED vars
    PROVE  IInv'
  <1>1. Settles
    BY DEF Settles, vars
  <1>2. Types' /\ Answered' /\ Windows' /\ Owner'
    BY DEF IInv, Types, Answered, TrueAnswer, Windows, Owner, vars
  <1> QED
    BY <1>1, <1>2, TableFrame, SealedFrame, WorkFrame DEF IInv, vars

LEMMA Step ==
    ASSUME IInv, [Next]_vars
    PROVE  IInv'
  <1> USE DEF Next
  <1>1. ASSUME NEW r \in Requests, Request(r) PROVE IInv'
    <2>1. r \in Actors
      BY DEF Actors
    <2> QED
      BY <1>1, <2>1, ReplaysStep, ValidatesStep, RefusesStep, EntersStep, WritesStep,
         ProjectsStep DEF Request
  <1>2. CASE Terminal
    <2>1. Opener \in Actors
      BY DEF Actors
    <2> QED
      BY <1>2, <2>1, TerminalOpensStep, ProjectsStep DEF Terminal
  <1>3. CASE Projection
    BY <1>3, LooksStep, OpensFileStep, AppendsStep, MeasuresStep, ConfirmsStep, RendersStep,
       SwapsStep, VerifiesStep, SealsStep DEF Projection, Appending, Rebuilding
  <1>4. CASE CallFails
    BY <1>4, CallFailsStep
  <1>5. CASE Outside
    BY <1>5, CrashesStep, RestoresStep, EditsStep DEF Outside
  <1>6. CASE UNCHANGED vars
    BY <1>6, Stutter
  <1> QED
    BY <1>1, <1>2, <1>3, <1>4, <1>5, <1>6 DEF AllAnswered

THEOREM Invariant == Spec => []IInv
  BY Start, Step, PTL DEF Spec

(* Whoever was told of an attempt was told of the one with its key, and a   *)
(* retry holds no slot.                                                     *)
THEOREM AnswersAreOne == Spec => []AnswersHold
  <1>1. ASSUME IInv PROVE AnswersHold
    <2>0. IInv
      BY <1>1
    <2>1. Range(rows) = Elements(rows)
      <3>1. rows \in Seq(Requests)
        BY <2>0 DEF IInv, Types
      <3> QED
        BY <3>1 DEF Range, Elements
    <2>2. ASSUME spent.restores = 0, NEW r \in Requests
          PROVE  /\ Settled(r) => /\ told[r].row \in Range(rows)
                                  /\ TargetOf[told[r].row] = TargetOf[r]
                 /\ told[r].result = "conflict" => \E q \in Prior(r) : TargetOf[q] # TargetOf[r]
                 /\ Settled(r) \/ told[r].result = "conflict" => Prior(r) = {told[r].row}
      <3>1. TrueAnswer(r, told[r].result, told[r].row)
        BY <2>0, <2>2 DEF IInv, Answered
      <3>2. Prior(r) = {q \in Elements(rows) : KeyOf[q] = KeyOf[r]}
        BY <2>0, PriorRow DEF IInv
      <3>3. ASSUME NEW q \in Elements(rows), NEW s \in Elements(rows), KeyOf[q] = KeyOf[s]
            PROVE  q = s
        <4>1. PICK i, j \in 1 .. Len(rows) : q = rows[i] /\ s = rows[j]
          BY <3>3 DEF Elements
        <4> QED
          BY <2>0, <3>3, <4>1 DEF IInv, Table
      <3>4. ASSUME Settled(r) \/ told[r].result = "conflict" PROVE Prior(r) = {told[r].row}
        <4>1. told[r].row \in Elements(rows) /\ KeyOf[told[r].row] = KeyOf[r]
          BY <3>1, <3>4 DEF TrueAnswer, Settled
        <4> QED
          BY <3>2, <3>3, <4>1
      <3>5. Settled(r) => told[r].row \in Elements(rows) /\ TargetOf[told[r].row] = TargetOf[r]
        BY <3>1 DEF TrueAnswer, Settled
      <3>6. told[r].result = "conflict" => TargetOf[told[r].row] # TargetOf[r]
        BY <3>1 DEF TrueAnswer
      <3> QED
        BY <2>1, <3>4, <3>5, <3>6
    <2>3. RetriesRefunded
      <3>1. ASSUME NEW p \in Procs PROVE Range(window[p]) = Elements(window[p])
        <4>1. window[p] \in Seq(Requests)
          BY <2>0 DEF IInv, Types
        <4> QED
          BY <4>1 DEF Range, Elements
      <3> QED
        BY <2>0, <3>1 DEF IInv, Windows, RetriesRefunded
    <2> QED
      BY <2>2, <2>3 DEF AnswersHold, AnswersAgree
  <1> QED
    BY <1>1, Invariant, PTL

LEMMA VouchedNow ==
    ASSUME "rewrite" \notin RacingEdits
    PROVE  IInv => VouchedIsAuthority
  <1>1. IInv => DOMAIN rows = 1 .. Len(rows)
    BY DEF IInv, Types
  <1> QED
    BY <1>1 DEF IInv, Sealed, Anchor, VouchedIsAuthority

(* Where lines are not rewritten in place while the app appends, a file its *)
(* seal vouches for is the table up to the cursor.                          *)
THEOREM VouchedHolds ==
    ASSUME "rewrite" \notin RacingEdits
    PROVE  Spec => []VouchedIsAuthority
  BY VouchedNow, Invariant, PTL

(* Who is told what, in one step.                                           *)
LEMMA Telling ==
    ASSUME Types, NEW a \in Actors, NEW result, NEW q, Answers(a, result, q),
           NEW b \in Actors, told'[b] # told[b]
    PROVE  b = a /\ told'[b].result = result
  BY DEF Types, Answers

Others == {"duplicate", "conflict", "failed", "pending", "lost"}

LEMMA TellingStep ==
    ASSUME IInv, [Next]_vars, NEW b \in Actors, told'[b] # told[b]
    PROVE  \/ told'[b].result \in Others
           \/ told'[b].result = "refused" /\ Prior(b) = {}
           \/ told'[b].result = "projected" /\ (Looks \/ Seals) /\ Ends("projected")
  <1>0. Types /\ (op # Idle => op.by \in Actors)
    BY DEF IInv, Owner
  <1>1. ASSUME NEW r \in Actors, AnswersKnown(r) PROVE told'[b].result \in Others
    <2>1. PICK q : Answers(r, "duplicate", q) \/ Answers(r, "conflict", q)
      BY <1>1 DEF AnswersKnown
    <2> QED
      BY <1>0, <2>1, Telling DEF Others
  <1>2. ASSUME NEW result, Ends(result), op # Idle PROVE told'[b].result = result
    <2>1. PICK a, q : a \in Actors /\ a = op.by /\ Answers(a, result, q)
      BY <1>0, <1>2 DEF Ends
    <2> QED
      BY <1>0, <2>1, Telling
  <1>3. ASSUME NEW a \in Actors, Projects(a) PROVE told'[b].result \in Others
    <2>1. PICK q : Answers(a, "pending", q)
      BY <1>3 DEF Projects
    <2> QED
      BY <1>0, <2>1, Telling DEF Others
  <1>4. ASSUME NEW r \in Requests, Request(r)
        PROVE  told'[b].result \in Others \/ (told'[b].result = "refused" /\ Prior(b) = {})
    <2>0. r \in Actors
      BY DEF Actors
    <2>1. CASE Replays(r)
      BY <1>1, <2>0, <2>1 DEF Replays
    <2>2. CASE Validates(r)
      BY <2>2 DEF Validates
    <2>3. CASE Refuses(r)
      <3>1. CASE AnswersKnown(r)
        BY <1>1, <2>0, <3>1
      <3>2. CASE Prior(r) = {} /\ Answers(r, "refused", Nobody)
        BY <1>0, <2>0, <3>2, Telling
      <3> QED
        BY <2>3, <3>1, <3>2 DEF Refuses
    <2>4. CASE Enters(r)
      BY <1>1, <2>0, <2>4 DEF Enters
    <2>5. CASE Writes(r)
      <3>1. CASE AnswersKnown(r)
        BY <1>1, <2>0, <3>1
      <3>2. CASE Answers(r, "failed", Nobody)
        BY <1>0, <2>0, <3>2, Telling DEF Others
      <3> QED
        BY <2>5, <3>1, <3>2 DEF Writes
    <2>6. CASE Projects(r)
      BY <1>3, <2>0, <2>6
    <2> QED
      BY <1>4, <2>1, <2>2, <2>3, <2>4, <2>5, <2>6 DEF Request
  <1>5. CASE Terminal
    <2>1. Opener \in Actors
      BY DEF Actors
    <2> QED
      BY <1>3, <1>5, <2>1 DEF Terminal, TerminalOpens
  <1>6. CASE Projection
    <2>1. op.at = "look" \/ op.at = "verify" \/ op.at = "seal" => op # Idle
      BY DEF Idle
    <2>2. CASE Looks
      <3>1. Ends("projected")
        BY <2>2 DEF Looks
      <3> QED
        BY <1>2, <2>1, <2>2, <3>1 DEF Looks
    <2>3. CASE Appending
      BY <2>3 DEF Appending, OpensFile, Appends, Measures, Confirms, Held
    <2>4. CASE Rebuilding
      <3>1. CASE Verifies
        <4>1. Ends("pending")
          BY <3>1 DEF Verifies
        <4> QED
          BY <1>2, <2>1, <3>1, <4>1 DEF Verifies, Others
      <3> QED
        BY <2>4, <3>1 DEF Rebuilding, Renders, Swaps, Held
    <2>5. CASE Seals
      BY <1>2, <2>1, <2>5 DEF Seals
    <2> QED
      BY <1>6, <2>2, <2>3, <2>4, <2>5 DEF Projection
  <1>7. CASE CallFails
    <2>1. Ends("pending")
      BY <1>7 DEF CallFails
    <2> QED
      BY <1>2, <1>7, <2>1 DEF CallFails, Others
  <1>8. CASE Outside
    <2>1. ASSUME NEW p \in Procs, Crashes(p) PROVE told'[b].result = "lost"
      BY <2>1 DEF Crashes, Unanswered
    <2> QED
      BY <1>8, <2>1 DEF Outside, RestoresDatabase, Edits, Others
  <1> QED
    BY <1>4, <1>5, <1>6, <1>7, <1>8 DEF Next, AllAnswered, vars

(* A refusal is only told about a key that is still unknown.                *)
THEOREM RefusalsAreOfNew == Spec => RefusedMeansNew
  <1>1. ASSUME IInv, [Next]_vars PROVE StepRefused
    <2>1. ASSUME NEW r \in Requests, told[r].result = "none", told'[r].result = "refused"
          PROVE  Prior(r) = {}
      <3>1. r \in Actors /\ told'[r] # told[r]
        BY <2>1 DEF Actors
      <3> QED
        BY <1>1, <2>1, <3>1, TellingStep DEF Others
    <2> QED
      BY <2>1 DEF StepRefused
  <1>2. [][IInv /\ [Next]_vars]_vars => RefusedMeansNew
    <2>1. [IInv /\ [Next]_vars]_vars => [StepRefused]_vars
      BY <1>1
    <2> QED
      BY <2>1, PTL DEF RefusedMeansNew
  <1> QED
    BY <1>2, Invariant, PTL DEF Spec

(* Whoever is told that the projection reflects the table was told so of a  *)
(* file that does.                                                          *)
LEMMA CurrentStep ==
    ASSUME IInv, [Next]_vars, "rewrite" \notin RacingEdits
    PROVE  StepCurrent
  <1>0. IInv /\ rows \in Seq(Requests)
    BY DEF IInv, Types
  <1>1. SUFFICES ASSUME (Looks \/ Seals) /\ Ends("projected"), spent.edits = op.edits
                 PROVE  /\ SealMatches(sidecar)'
                        /\ \E n \in op.since .. Len(rows) : file'.lines = Ordered(n)
    <2>1. ASSUME NEW a \in Actors, told[a].result = "none", told'[a].result = "projected"
          PROVE  (Looks \/ Seals) /\ Ends("projected")
      <3>1. told'[a] # told[a]
        BY <2>1
      <3> QED
        BY <2>1, <3>1, TellingStep DEF Others
    <2> QED
      BY <2>1 DEF StepCurrent
  <1>2. CASE Looks
    <2>1. op.at = "look" /\ UNCHANGED <<rows, stamp, file, sidecar>> /\ op' = Idle
      BY <1>1, <1>2 DEF Looks, Ends
    <2>2. op' # [op EXCEPT !.at = "render"]
      <3>1. [op EXCEPT !.at = "render"].at = "render"
        BY <1>0 DEF IInv, Types, Ops
      <3> QED
        BY <2>1, <3>1 DEF Idle
    <2>3. PICK state \in {sidecar, NoState} :
              state # NoState /\ SealMatches(state) /\ Anchored(state) /\ Unseen(state) = 0
      <3>1. \A state : op' # [op EXCEPT !.at = "open", !.way = "append", !.id = state.id,
                                       !.change = state.change, !.upto = state.cursor + 1]
        <4>1. \A i, c, u : [op EXCEPT !.at = "open", !.way = "append", !.id = i,
                                      !.change = c, !.upto = u].at = "open"
          BY <1>0 DEF IInv, Types, Ops
        <4> QED
          BY <2>1, <4>1 DEF Idle
      <3> QED
        BY <1>2, <2>2, <3>1 DEF Looks
    <2>4. SealMatches(sidecar) /\ Anchored(sidecar) /\ Unseen(sidecar) = 0
      BY <2>3
    <2>5. PICK n \in Nat : n = Len(rows) /\ n = sidecar.cursor
      <3>0. sidecar.cursor \in Nat /\ Len(rows) \in Nat
        BY <1>0 DEF IInv, Types
      <3>1. PICK n \in Nat, c \in Nat : n = Len(rows) /\ c = sidecar.cursor
        BY <3>0
      <3>2. n - c = 0
        BY <2>4, <3>1 DEF Unseen
      <3> QED
        BY <3>1, <3>2
    <2>6. sidecar.cursor = 0 \/ Anchor
      <3>1. DOMAIN rows = 1 .. Len(rows)
        BY <1>0
      <3> QED
        BY <2>4, <3>1 DEF Anchored, Anchor
    <2>7. file.lines = Ordered(n)
      BY <1>0, <2>4, <2>5, <2>6 DEF IInv, Sealed
    <2>8. op.since <= n /\ op.since \in Nat
      BY <1>0, <2>5 DEF IInv, Work, Types, Ops
    <2>9. n \in op.since .. Len(rows)
      BY <2>5, <2>8
    <2>10. SealMatches(sidecar)'
      BY <2>1, <2>4 DEF SealMatches
    <2> QED
      BY <2>1, <2>7, <2>9, <2>10
  <1>3. CASE Seals
    <2>1. op.at = "seal" /\ UNCHANGED <<rows, stamp, file>>
      BY <1>3 DEF Seals
    <2>2. AsFound
      BY <1>0, <1>1, <2>1 DEF IInv, Work
    <2>3. PICK n \in Nat : n = op.upto
      BY <1>0 DEF IInv, Types, Ops
    <2>4. file.lines = Ordered(n)
      BY <1>0, <2>1, <2>2, <2>3 DEF IInv, Work, Content
    <2>5. n \in op.since .. Len(rows)
      BY <1>0, <2>1, <2>3 DEF IInv, Work, Types, Ops
    <2>6. sidecar'.id = op.id /\ sidecar'.change = op.change
      BY <1>3 DEF Seals
    <2>7. SealMatches(sidecar)'
      BY <2>1, <2>2, <2>6 DEF SealMatches, AsFound, OnName
    <2> QED
      BY <2>1, <2>4, <2>5, <2>7
  <1> QED
    BY <1>1, <1>2, <1>3

THEOREM SuccessTold ==
    ASSUME "rewrite" \notin RacingEdits
    PROVE  Spec => SuccessIsCurrent
  <1>1. [IInv /\ [Next]_vars]_vars => [StepCurrent]_vars
    BY CurrentStep
  <1> QED
    BY <1>1, Invariant, PTL DEF Spec, SuccessIsCurrent

=============================================================================
