---------------------------- MODULE RecordPanel ----------------------------
(***************************************************************************)
(* The Record panel's two readings of a lesson: the rendering, and the     *)
(* counts a client polls to learn that the record moved                    *)
(* (app/services/lessons.py record_panel_db_state, assessments.panel_state,*)
(* attempts.lesson_attempt_summary; app/routers/learn.py). Each is several *)
(* SELECTs while answers and verdicts are being recorded, and the client   *)
(* keeps only the cursor of what it was last shown.                        *)
(*                                                                         *)
(* Rows of both tables are only ever inserted, so a version of a table is  *)
(* its length and a row's seq is its index.                                *)
(***************************************************************************)
EXTENDS Integers, Sequences, FiniteSets, FiniteSetsExt

CONSTANTS Readers,      \* requests that render or count
          Questions,
          MaxAttempts,  \* bound: answers recorded
          MaxRows       \* bound: assessments recorded

PanelAssumption == MaxAttempts \in Nat /\ MaxRows \in Nat

VARIABLES attempts,   \* the question of each lesson_attempts row
          rows,       \* lesson_assessments: [kind, attempt, supersedes]
          at,         \* at[r]
          snap,       \* snap[r]: the versions r's read transaction shows it
          half,       \* half[r]: the attempts half r has read
          drawn,      \* drawn[r]: the panel r has put together
          answers     \* what has been answered: [panel, cursor]

vars == <<attempts, rows, at, snap, half, drawn, answers>>

Nothing == 0
-----------------------------------------------------------------------------
(* An answer, to a question that may have been answered before.            *)
Answer(q) ==
  /\ Len(attempts) < MaxAttempts
  /\ attempts' = Append(attempts, q)
  /\ UNCHANGED <<rows, at, snap, half, drawn, answers>>

Active(m) == {i \in 1 .. m : ~\E j \in 1 .. m : rows[j].supersedes = i}

(* A verdict on an attempt, which may correct one that stands; or the      *)
(* retraction of one.                                                      *)
Record(row) ==
  /\ Len(rows) < MaxRows
  /\ rows' = Append(rows, row)
  /\ UNCHANGED <<attempts, at, snap, half, drawn, answers>>

Verdicts == {i \in Active(Len(rows)) : rows[i].kind = "review"}

Review(a) ==
  \E s \in {Nothing} \cup {i \in Verdicts : rows[i].attempt = a} :
    Record([kind |-> "review", attempt |-> a, supersedes |-> s])

Retract ==
  \E s \in Verdicts :
    Record([kind |-> "retraction", attempt |-> rows[s].attempt, supersedes |-> s])

-----------------------------------------------------------------------------
(* The latest attempt of a question among the first n, or Nothing.         *)
Latest(n, q) == Max({Nothing} \cup {i \in 1 .. n : attempts[i] = q})

(* fold_rows: of the active reviews of an attempt the latest stands.       *)
ReviewOf(m, a) ==
  Max({Nothing} \cup {i \in Active(m) : rows[i].kind = "review" /\ rows[i].attempt = a})

(* The readings behind the one on display, unless a retraction struck them.*)
Earlier(m, a) ==
  {i \in 1 .. ReviewOf(m, a) - 1 :
     /\ rows[i].kind = "review" /\ rows[i].attempt = a
     /\ ~\E j \in 1 .. m : rows[j].kind = "retraction" /\ rows[j].supersedes = i}

(* What one question shows: its latest answer, the verdict on that answer  *)
(* and how many verdicts came before it.                                   *)
Panel(n, m) ==
  [q \in Questions |->
     LET a == Latest(n, q)
     IN [attempt |-> a, review |-> IF a = Nothing THEN Nothing ELSE ReviewOf(m, a),
         earlier |-> IF a = Nothing THEN 0 ELSE Cardinality(Earlier(m, a))]]

(* The cursor: how far each table had got.                                 *)
Cursor(n, m)       == <<m, n>>

Init ==
  /\ attempts = <<>> /\ rows = <<>>
  /\ at = [r \in Readers |-> "new"]
  /\ snap = [r \in Readers |-> <<0, 0>>] /\ half = [r \in Readers |-> 0]
  /\ drawn = [r \in Readers |-> Panel(0, 0)]
  /\ answers = {}

-----------------------------------------------------------------------------
(* BEGIN is deferred: the first SELECT fixes what the transaction sees.    *)
(* Mutant: every SELECT is a transaction of its own.                       *)
EachForItself(r) == <<Len(attempts), Len(rows)>>
Sees(r)          == snap[r]

ReadAttempts(r) ==
  /\ at[r] = "new"
  /\ snap' = [snap EXCEPT ![r] = <<Len(attempts), Len(rows)>>]
  /\ half' = [half EXCEPT ![r] = Len(attempts)]
  /\ at' = [at EXCEPT ![r] = "fold"]
  /\ UNCHANGED <<attempts, rows, drawn, answers>>

(* The fold, its hydration and the counts behind it; then the watermark,   *)
(* a SELECT later.                                                         *)
Fold(r) ==
  /\ at[r] = "fold" /\ at' = [at EXCEPT ![r] = "folded"]
  /\ drawn' = [drawn EXCEPT ![r] = Panel(half[r], Sees(r)[2])]
  /\ UNCHANGED <<attempts, rows, snap, half, answers>>

Watermark(r) ==
  /\ at[r] = "folded" /\ at' = [at EXCEPT ![r] = "done"]
  /\ answers' = answers \cup {[panel |-> drawn[r], cursor |-> Cursor(half[r], Sees(r)[2])]}
  /\ UNCHANGED <<attempts, rows, snap, half, drawn>>

Next ==
  \/ \E q \in Questions : Answer(q)
  \/ \E a \in 1 .. Len(attempts) : Review(a)
  \/ Retract
  \/ \E r \in Readers : ReadAttempts(r) \/ Fold(r) \/ Watermark(r)

Spec == Init /\ [][Next]_vars

-----------------------------------------------------------------------------
TypeOK ==
  /\ attempts \in Seq(Questions) /\ Len(attempts) <= MaxAttempts
  /\ Len(rows) <= MaxRows
  /\ \A i \in 1 .. Len(rows) :
       /\ rows[i].kind \in {"review", "retraction"}
       /\ rows[i].attempt \in 1 .. Len(attempts) /\ rows[i].supersedes \in 0 .. i - 1
  /\ \A r \in Readers : snap[r][1] <= Len(attempts) /\ snap[r][2] <= Len(rows)

(* A client that polls the cursor it was last given is looking at the      *)
(* record as it is: whatever the panel shows differently, an answer, a     *)
(* verdict, its retraction or an older one resurfacing, has moved the      *)
(* cursor (get_lesson_record_counts, _record_signal).                      *)
SameCursorSamePanel ==
  \A x, y \in answers : x.cursor = y.cursor => x.panel = y.panel

(* A verdict counted as unread was not on the panel whose cursor the       *)
(* client acknowledged, and one that is not counted was recorded by then.  *)
UnreadIsUnseen ==
  \A x, y \in answers : \A q \in Questions :
    LET seq == y.panel[q].review
    IN seq # Nothing =>
         IF seq > x.cursor[1] THEN \A p \in Questions : x.panel[p].review # seq
                              ELSE \A z \in answers :
                                     z.cursor[1] < seq => \A p \in Questions :
                                                            z.panel[p].review # seq
=============================================================================
