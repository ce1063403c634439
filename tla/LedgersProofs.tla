----------------------------- MODULE LedgersProofs -----------------------------
(***************************************************************************)
(* Proofs about the habits and about the assessments, each with its        *)
(* history, for every value of the constants.  MCLedgers lets a behaviour  *)
(* be of one of them; a theorem is about the behaviours of its scene.      *)
(***************************************************************************)
EXTENDS MCLedgers, Integers, Sequences, FiniteSets, FiniteSetTheorems, TLAPS

-----------------------------------------------------------------------------
(* The habits and their history.  What a replay has yielded so far has the  *)
(* shape of the tables, and each event changes it as the handler's          *)
(* transaction changed the tables, when the handler's reads were fresh.     *)

(* The variables of HabitLedger, as the scenes hold them.                   *)
item     == v1
checkin  == v2
daily    == v3
issued   == v4
request  == v5
restored == v6
USE DEF item, checkin, daily, issued, request, restored


Marks  == [status : Statuses \cup {None}, note : Notes \cup {None}]
Replays == [ok : BOOLEAN, item : [Habit!Ids -> Habit!ItemRows],
            daily : [Days -> Notes \cup {None}], mark : [Habit!Keys -> Marks]]

\* What a handler can have been asked and have read.
Asked(r) ==
    /\ r.pc # "idle" /\ r.op \in {"upsert", "clear"} =>
          /\ r.id \in Habit!Ids /\ r.day \in Days /\ r.status \in Statuses \cup {None}
          /\ r.op = "clear" => r.status = None
          /\ r.pc = "writing" /\ r.row = Habit!NoRow => r.status \in Statuses
    /\ r.pc # "idle" /\ r.op = "daily" => r.day \in Days /\ r.note \in Notes
    /\ r.pc # "idle" /\ r.op \in {"update", "deactivate", "reactivate", "delete"} =>
          /\ r.id \in Habit!Ids /\ r.seen # Habit!NoItem
          /\ r.op = "update" => r.card \in Cards
    /\ r.pc = "reading" => r.op \in {"upsert", "clear"}

Handlers ==
    [pc : {"idle", "reading", "writing"},
     op : {"none", "upsert", "clear", "daily", "update", "deactivate", "reactivate",
           "delete"},
     id : Habit!Ids \cup {0}, day : Days \cup {0},
     status : Statuses \cup Notes \cup {None}, note : Notes \cup {None},
     card : Cards \cup {None}, start : Days \cup {0, None},
     row : Habit!CheckinRows, seen : Habit!ItemRows]

HabitTypes ==
    /\ item \in [Habit!Ids -> Habit!ItemRows]
    /\ checkin \in [Habit!Keys -> Habit!CheckinRows]
    /\ daily \in [Days -> Notes \cup {None}]
    /\ issued \in [items : 0 .. MaxItems, rows : 0 .. MaxRows]
    /\ request \in [Clients -> Handlers]
    /\ restored \in Replays

RowsStand ==
    /\ \A k \in Habit!Keys : /\ checkin[k] # Habit!NoRow => item[k[1]] # Habit!NoItem
                             /\ checkin[k].id <= issued.rows
    /\ \A k, m \in Habit!Keys : checkin[k].id = checkin[m].id /\ checkin[k].id # 0 => k = m

HabitInv ==
    /\ HabitTypes /\ RowsStand /\ Habit!NotesReplayed
    /\ \A c \in Clients : Asked(request[c])

(* The rows that are none.                                                  *)
LEMMA NoRows ==
    ASSUME Habit!HabitAssumption
    PROVE  /\ Habit!NoItem \in Habit!ItemRows /\ Habit!NoRow \in Habit!CheckinRows
           /\ Habit!NoRow.id = 0 /\ Habit!Unmarked \in Marks
           /\ Habit!Unmarked = [status |-> None, note |-> None]
           /\ Habit!Idle \in Handlers /\ Habit!Idle.pc = "idle"
  <1>1. Habit!NoItem \in Habit!ItemRows /\ Habit!NoRow \in Habit!CheckinRows
    BY DEF Habit!ItemRows, Habit!CheckinRows
  <1>2. /\ Habit!NoRow.id = 0 /\ Habit!Unmarked \in Marks
        /\ Habit!Unmarked = [status |-> None, note |-> None]
    BY DEF Habit!NoRow, Habit!Unmarked, Habit!Mark, Marks
  <1>3. Habit!Idle \in Handlers /\ Habit!Idle.pc = "idle"
    BY <1>1 DEF Habit!Idle, Handlers
  <1> QED
    BY <1>1, <1>2, <1>3

(* A row that is one has the columns of one.                                *)
LEMMA SomeRows ==
    ASSUME Habit!HabitAssumption
    PROVE  /\ \A row_ \in Habit!ItemRows : row_ # Habit!NoItem <=>
                 row_ \in [card : Cards, start : Days \cup {0}, active : BOOLEAN]
           /\ \A row_ \in Habit!CheckinRows :
                 /\ row_ # Habit!NoRow <=>
                       row_ \in [id : 1 .. MaxRows, status : Statuses,
                                 note : Notes \cup {None}]
                 /\ row_ # Habit!NoRow <=> row_.id # 0
                 /\ row_.id \in 0 .. MaxRows
                 /\ Habit!Mark(row_) \in Marks
                 /\ row_ # Habit!NoRow <=> Habit!Mark(row_) # Habit!Unmarked
  <1>1. ASSUME NEW x \in Habit!ItemRows
        PROVE  x # Habit!NoItem <=>
                  x \in [card : Cards, start : Days \cup {0}, active : BOOLEAN]
    <2>1. Habit!NoItem \notin [card : Cards, start : Days \cup {0}, active : BOOLEAN]
      BY DEF Habit!NoItem, Habit!HabitAssumption
    <2> QED
      BY <2>1 DEF Habit!ItemRows
  <1>2. ASSUME NEW x \in [id : 1 .. MaxRows, status : Statuses, note : Notes \cup {None}]
        PROVE  /\ x # Habit!NoRow /\ x.id \in 1 .. MaxRows /\ Habit!Mark(x) \in Marks
               /\ Habit!Mark(x) # Habit!Unmarked
    BY DEF Habit!NoRow, Habit!Mark, Habit!Unmarked, Marks, Habit!HabitAssumption
  <1>3. Habit!NoRow.id = 0 /\ Habit!Mark(Habit!NoRow) = Habit!Unmarked /\ 0 \in 0 .. MaxRows
    BY DEF Habit!NoRow, Habit!Mark, Habit!Unmarked, Habit!HabitAssumption
  <1> QED
    BY <1>1, <1>2, <1>3, NoRows DEF Habit!CheckinRows, Habit!HabitAssumption

(* What a replay makes of one event: the change it tells of, as long as the *)
(* row it tells of is there.                                                *)
LEMMA ReplaysCreation ==
    ASSUME Habit!HabitAssumption, NEW t \in Replays, t.ok, NEW e,
           e.type = "item_created", e.id \in Habit!Ids, e.card \in Cards,
           e.start \in Days \cup {0}
    PROVE  LET u == Habit!Applied(t, e)
           IN  /\ u \in Replays
               /\ u.ok /\ u.mark = t.mark /\ u.daily = t.daily
               /\ u.item = [t.item EXCEPT ![e.id] =
                       [card |-> e.card, start |-> e.start, active |-> TRUE]]
  <1> DEFINE u == Habit!Applied(t, e)
             item_ == [t.item EXCEPT ![e.id] =
                        [card |-> e.card, start |-> e.start, active |-> TRUE]]
  <1>1. item_ \in [Habit!Ids -> Habit!ItemRows]
    BY DEF Replays, Habit!ItemRows
  <1>2. u = [t EXCEPT !.item = item_]
    BY DEF Habit!Applied, Replays
  <1> QED
    BY <1>1, <1>2 DEF Replays

(* A habit's columns are written over the row that is there.                *)
LEMMA ReplaysUpdate ==
    ASSUME Habit!HabitAssumption, NEW t \in Replays, t.ok, NEW e,
           e.type = "item_updated", e.id \in Habit!Ids, e.card \in Cards,
           e.start \in Days \cup {0}
    PROVE  LET u == Habit!Applied(t, e)
           IN  /\ u \in Replays
               /\ u.ok => u.daily = t.daily
               /\ t.item[e.id] # Habit!NoItem =>
                     /\ u.ok /\ u.mark = t.mark /\ u.daily = t.daily
                     /\ u.item = [t.item EXCEPT ![e.id] =
                                    [@ EXCEPT !.card = e.card, !.start = e.start]]
  <1> DEFINE u == Habit!Applied(t, e)
             item_ == [t.item EXCEPT ![e.id] = [@ EXCEPT !.card = e.card, !.start = e.start]]
  <1>1. t.item[e.id] # Habit!NoItem => item_ \in [Habit!Ids -> Habit!ItemRows]
    <2>1. SUFFICES ASSUME t.item[e.id] # Habit!NoItem
                   PROVE  [t.item[e.id] EXCEPT !.card = e.card, !.start = e.start]
                             \in Habit!ItemRows
      BY DEF Replays
    <2>2. t.item[e.id] \in [card : Cards, start : Days \cup {0}, active : BOOLEAN]
      BY <2>1, SomeRows DEF Replays
    <2> QED
      BY <2>2 DEF Habit!ItemRows
  <1>2. t.item[e.id] # Habit!NoItem => u = [t EXCEPT !.item = item_]
    BY DEF Habit!Applied, Replays
  <1>3. t.item[e.id] = Habit!NoItem => u = Habit!Failed(t)
    BY DEF Habit!Applied
  <1> QED
    BY <1>1, <1>2, <1>3 DEF Habit!Failed, Replays

(* Without a start, the row keeps the one it has and is active.             *)
LEMMA ReplaysSparse ==
    ASSUME Habit!HabitAssumption, NEW t \in Replays, t.ok, NEW e,
           e.type = "item_updated_sparse", e.id \in Habit!Ids, e.card \in Cards
    PROVE  LET u == Habit!Applied(t, e)
           IN  /\ u \in Replays
               /\ u.ok => u.daily = t.daily
               /\ t.item[e.id] # Habit!NoItem =>
                     /\ u.ok /\ u.mark = t.mark /\ u.daily = t.daily
                     /\ u.item = [t.item EXCEPT ![e.id] =
                                    [@ EXCEPT !.card = e.card, !.active = TRUE]]
  <1> DEFINE u == Habit!Applied(t, e)
             item_ == [t.item EXCEPT ![e.id] = [@ EXCEPT !.card = e.card, !.active = TRUE]]
  <1>1. t.item[e.id] # Habit!NoItem => item_ \in [Habit!Ids -> Habit!ItemRows]
    <2>1. SUFFICES ASSUME t.item[e.id] # Habit!NoItem
                   PROVE  [t.item[e.id] EXCEPT !.card = e.card, !.active = TRUE]
                             \in Habit!ItemRows
      BY DEF Replays
    <2>2. t.item[e.id] \in [card : Cards, start : Days \cup {0}, active : BOOLEAN]
      BY <2>1, SomeRows DEF Replays
    <2> QED
      BY <2>2 DEF Habit!ItemRows
  <1>2. t.item[e.id] # Habit!NoItem => u = [t EXCEPT !.item = item_]
    BY DEF Habit!Applied, Replays
  <1>3. t.item[e.id] = Habit!NoItem => u = Habit!Failed(t)
    BY DEF Habit!Applied
  <1> QED
    BY <1>1, <1>2, <1>3 DEF Habit!Failed, Replays

(* A habit that is there is put away.                                       *)
LEMMA ReplaysDeactivation ==
    ASSUME Habit!HabitAssumption, NEW t \in Replays, t.ok, NEW e,
           e.type = "item_deactivated", e.id \in Habit!Ids
    PROVE  LET u == Habit!Applied(t, e)
           IN  /\ u \in Replays
               /\ u.ok => u.daily = t.daily
               /\ t.item[e.id] # Habit!NoItem =>
                     /\ u.ok /\ u.mark = t.mark /\ u.daily = t.daily
                     /\ u.item = [t.item EXCEPT ![e.id] = [@ EXCEPT !.active = FALSE]]
  <1> DEFINE u == Habit!Applied(t, e)
             item_ == [t.item EXCEPT ![e.id] = [@ EXCEPT !.active = FALSE]]
  <1>1. t.item[e.id] # Habit!NoItem => item_ \in [Habit!Ids -> Habit!ItemRows]
    <2>1. SUFFICES ASSUME t.item[e.id] # Habit!NoItem
                   PROVE  [t.item[e.id] EXCEPT !.active = FALSE] \in Habit!ItemRows
      BY DEF Replays
    <2>2. t.item[e.id] \in [card : Cards, start : Days \cup {0}, active : BOOLEAN]
      BY <2>1, SomeRows DEF Replays
    <2> QED
      BY <2>2 DEF Habit!ItemRows
  <1>2. t.item[e.id] # Habit!NoItem => u = [t EXCEPT !.item = item_]
    BY DEF Habit!Applied, Replays
  <1>3. t.item[e.id] = Habit!NoItem => u = Habit!Failed(t)
    BY DEF Habit!Applied
  <1> QED
    BY <1>1, <1>2, <1>3 DEF Habit!Failed, Replays

(* A habit that is there goes, and its marks with it.                       *)
LEMMA ReplaysDeletion ==
    ASSUME Habit!HabitAssumption, NEW t \in Replays, t.ok, NEW e,
           e.type = "item_deleted", e.id \in Habit!Ids
    PROVE  LET u == Habit!Applied(t, e)
           IN  /\ u \in Replays
               /\ u.ok => u.daily = t.daily
               /\ t.item[e.id] # Habit!NoItem =>
                     /\ u.ok /\ u.daily = t.daily
                     /\ u.item = [t.item EXCEPT ![e.id] = Habit!NoItem]
                     /\ u.mark = [k \in Habit!Keys |->
                               IF k[1] = e.id THEN Habit!Unmarked ELSE t.mark[k]]
  <1> DEFINE u == Habit!Applied(t, e)
             item_ == [t.item EXCEPT ![e.id] = Habit!NoItem]
             mark_ == [k \in Habit!Keys |->
                        IF k[1] = e.id THEN Habit!Unmarked ELSE t.mark[k]]
  <1>1. t.item[e.id] # Habit!NoItem =>
           item_ \in [Habit!Ids -> Habit!ItemRows] /\ mark_ \in [Habit!Keys -> Marks]
    BY NoRows DEF Replays
  <1>2. t.item[e.id] # Habit!NoItem => u = [t EXCEPT !.item = item_, !.mark = mark_]
    BY DEF Habit!Applied, Replays
  <1>3. t.item[e.id] = Habit!NoItem => u = Habit!Failed(t)
    BY DEF Habit!Applied
  <1> QED
    BY <1>1, <1>2, <1>3 DEF Habit!Failed, Replays

(* A mark is set on a habit that is there.                                  *)
LEMMA ReplaysUpsert ==
    ASSUME Habit!HabitAssumption, NEW t \in Replays, t.ok, NEW e,
           e.type = "checkin_upserted", e.id \in Habit!Ids, e.day \in Days,
           e.status \in Statuses \cup {None}, e.note \in Notes \cup {None}
    PROVE  LET u == Habit!Applied(t, e)
           IN  /\ u \in Replays
               /\ u.ok => u.daily = t.daily
               /\ t.item[e.id] # Habit!NoItem =>
                     /\ u.ok /\ u.item = t.item /\ u.daily = t.daily
                     /\ u.mark = [t.mark EXCEPT ![<<e.id, e.day>>] =
                               [status |-> e.status, note |-> e.note]]
  <1> DEFINE u == Habit!Applied(t, e)
             mark_ == [t.mark EXCEPT ![<<e.id, e.day>>] =
                        [status |-> e.status, note |-> e.note]]
  <1>1. t.item[e.id] # Habit!NoItem => mark_ \in [Habit!Keys -> Marks]
    BY DEF Replays, Marks
  <1>2. t.item[e.id] # Habit!NoItem => u = [t EXCEPT !.mark = mark_]
    BY DEF Habit!Applied, Replays
  <1>3. t.item[e.id] = Habit!NoItem => u = Habit!Failed(t)
    BY DEF Habit!Applied
  <1> QED
    BY <1>1, <1>2, <1>3 DEF Habit!Failed, Replays

(* A mark that is there is taken off.                                       *)
LEMMA ReplaysClearing ==
    ASSUME Habit!HabitAssumption, NEW t \in Replays, t.ok, NEW e,
           e.type = "checkin_cleared", e.id \in Habit!Ids, e.day \in Days
    PROVE  LET u == Habit!Applied(t, e)
           IN  /\ u \in Replays
               /\ u.ok => u.daily = t.daily
               /\ t.mark[<<e.id, e.day>>] # Habit!Unmarked =>
                     /\ u.ok /\ u.item = t.item /\ u.daily = t.daily
                     /\ u.mark = [t.mark EXCEPT ![<<e.id, e.day>>] = Habit!Unmarked]
  <1> DEFINE u == Habit!Applied(t, e)
             mark_ == [t.mark EXCEPT ![<<e.id, e.day>>] = Habit!Unmarked]
  <1>1. t.mark[<<e.id, e.day>>] # Habit!Unmarked => mark_ \in [Habit!Keys -> Marks]
    BY NoRows DEF Replays
  <1>2. t.mark[<<e.id, e.day>>] # Habit!Unmarked => u = [t EXCEPT !.mark = mark_]
    BY DEF Habit!Applied, Replays
  <1>3. t.mark[<<e.id, e.day>>] = Habit!Unmarked => u = Habit!Failed(t)
    BY DEF Habit!Applied
  <1> QED
    BY <1>1, <1>2, <1>3 DEF Habit!Failed, Replays

(* A note is the day's last one.                                            *)
LEMMA ReplaysNote ==
    ASSUME Habit!HabitAssumption, NEW t \in Replays, t.ok, NEW e,
           e.type = "note_updated", e.day \in Days, e.text \in Notes
    PROVE  LET u == Habit!Applied(t, e)
           IN  /\ u \in Replays
               /\ u.ok /\ u.item = t.item /\ u.mark = t.mark
               /\ u.daily = [t.daily EXCEPT ![e.day] = e.text]
  <1> DEFINE u == Habit!Applied(t, e)
             daily_ == [t.daily EXCEPT ![e.day] = e.text]
  <1>1. daily_ \in [Days -> Notes \cup {None}]
    BY DEF Replays
  <1>2. u = [t EXCEPT !.daily = daily_]
    BY DEF Habit!Applied, Replays
  <1> QED
    BY <1>1, <1>2 DEF Replays

(* No habit, no mark and no note.                                           *)
LEMMA HabitsInitially ==
    ASSUME Habit!HabitAssumption, Habit!Init
    PROVE  HabitInv
  <1>1. [status |-> None, note |-> None] \in Marks
    BY DEF Marks
  <1>2. /\ item \in [Habit!Ids -> Habit!ItemRows]
        /\ checkin \in [Habit!Keys -> Habit!CheckinRows]
        /\ daily \in [Days -> Notes \cup {None}]
    BY NoRows DEF Habit!Init
  <1>3. restored \in Replays /\ restored.daily = daily
    BY <1>1, <1>2 DEF Habit!Init, Replays
  <1>4. HabitTypes
    BY <1>2, <1>3, NoRows DEF Habit!Init, HabitTypes, Habit!HabitAssumption
  <1>5. RowsStand
    BY NoRows DEF Habit!Init, RowsStand, Habit!HabitAssumption
  <1>6. \A c \in Clients : Asked(request[c])
    BY NoRows DEF Habit!Init, Asked
  <1> QED
    BY <1>3, <1>4, <1>5, <1>6 DEF HabitInv, Habit!NotesReplayed

(* A request arrives, or reads what it needs: no table changes.             *)
LEMMA TablesStay ==
    ASSUME Habit!HabitAssumption, HabitInv, NEW c \in Clients, NEW r \in Handlers,
           Asked(r), request' = [request EXCEPT ![c] = r],
           UNCHANGED <<item, checkin, daily, issued, restored>>
    PROVE  HabitInv' /\ Habit!StepDiverges
  <1>1. HabitTypes'
    BY DEF HabitInv, HabitTypes
  <1>2. RowsStand' /\ Habit!NotesReplayed'
    BY DEF HabitInv, RowsStand, Habit!NotesReplayed
  <1>3. \A b \in Clients : Asked(request'[b])
    BY DEF HabitInv, HabitTypes
  <1>4. Habit!StepDiverges
    BY DEF Habit!StepDiverges, Habit!Agrees
  <1> QED
    BY <1>1, <1>2, <1>3, <1>4 DEF HabitInv

(* A transaction that leaves the tables sound, tells the replay what it     *)
(* did to the notes, and does the same to both sides when its reads were    *)
(* fresh.                                                                   *)
LEMMA CommitHolds ==
    ASSUME Habit!HabitAssumption, HabitInv, NEW c \in Clients, Habit!Done(c),
           request[c].pc = "writing", HabitTypes', RowsStand',
           restored'.ok => restored'.daily = daily',
           Habit!Agrees /\ Habit!Fresh(c) => Habit!Agrees'
    PROVE  HabitInv' /\ Habit!StepDiverges
  <1>1. request'[c] = Habit!Idle /\ request'[c] # request[c]
    BY NoRows DEF Habit!Done, HabitInv, HabitTypes
  <1>2. ASSUME NEW b \in Clients PROVE Asked(request'[b])
    BY NoRows DEF HabitInv, HabitTypes, Habit!Done, Asked
  <1>3. Habit!StepDiverges
    BY <1>1 DEF Habit!StepDiverges
  <1> QED
    BY <1>2, <1>3 DEF HabitInv, Habit!NotesReplayed

(* What a request that writes has in hand.                                  *)
LEMMA InHand ==
    ASSUME Habit!HabitAssumption, HabitInv, NEW c \in Clients
    PROVE  /\ request[c] \in Handlers /\ Asked(request[c])
           /\ Habit!Done(c) => request' \in [Clients -> Handlers]
  BY NoRows DEF HabitInv, HabitTypes, Habit!Done

(* What the replay makes of the event a transaction appends.                *)
LEMMA ReplayGoes ==
    ASSUME HabitInv, NEW e, restored' = Habit!Replayed(restored, e)
    PROVE  /\ restored \in Replays
           /\ ~restored.ok => restored' = restored
           /\ restored.ok => /\ restored' = Habit!Applied(restored, e)
                            /\ restored.daily = daily
  BY DEF HabitInv, HabitTypes, Habit!NotesReplayed, Habit!Replayed

(* A change of habits or marks that the replay does not take for one of     *)
(* the notes.                                                               *)
LEMMA NotesStay ==
    ASSUME HabitInv, NEW e, restored' = Habit!Replayed(restored, e), UNCHANGED daily,
           restored.ok => LET u == Habit!Applied(restored, e)
                          IN  u \in Replays /\ (u.ok => u.daily = restored.daily)
    PROVE  restored' \in Replays /\ (restored'.ok => restored'.daily = daily')
  BY ReplayGoes

(* A first mark: a fresh id, on a habit that exists.                        *)
LEMMA InsertsHolds ==
    ASSUME Habit!HabitAssumption, HabitInv, NEW c \in Clients, Habit!Inserts(c)
    PROVE  HabitInv' /\ Habit!StepDiverges
  <1>1. PICK r \in Handlers : r = request[c] /\ Asked(r)
    BY InHand
  <1>2. /\ r.pc = "writing" /\ r.op = "upsert" /\ r.row = Habit!NoRow
        /\ r.id \in Habit!Ids /\ r.day \in Days /\ r.status \in Statuses
        /\ r.note \in Notes \cup {None}
    BY <1>1 DEF Habit!Inserts, Habit!Writing, Asked, Handlers
  <1>3. PICK k \in Habit!Keys : k = <<r.id, r.day>> /\ k[1] = r.id
    <2>1. <<r.id, r.day>> \in Habit!Keys /\ <<r.id, r.day>>[1] = r.id
      BY <1>2 DEF Habit!Keys
    <2> QED
      BY <2>1
  <1>4. PICK n \in 1 .. MaxRows : n = issued.rows + 1
    BY DEF Habit!Inserts, HabitInv, HabitTypes, Habit!HabitAssumption
  <1>5. issued' = [issued EXCEPT !.rows = n] /\ issued'.rows = n
    BY <1>4 DEF Habit!Inserts, HabitInv, HabitTypes
  <1>6. PICK new \in Habit!CheckinRows :
           /\ new = [id |-> n, status |-> r.status, note |-> r.note]
           /\ new.id = n
    <2>1. [id |-> n, status |-> r.status, note |-> r.note] \in Habit!CheckinRows
      BY <1>2 DEF Habit!CheckinRows
    <2> QED
      BY <2>1
  <1>7. /\ checkin[k] = Habit!NoRow /\ item[k[1]] # Habit!NoItem
        /\ checkin' = [checkin EXCEPT ![k] = new] /\ UNCHANGED <<item, daily>>
        /\ Habit!Done(c)
    BY <1>1, <1>3, <1>5, <1>6 DEF Habit!Inserts
  <1>8. PICK e : /\ e = [type |-> "checkin_upserted", id |-> r.id, day |-> r.day,
                         status |-> r.status, note |-> r.note]
                 /\ restored' = Habit!Replayed(restored, e)
    BY <1>1 DEF Habit!Inserts, Habit!Appends
  <1>9. /\ e.type = "checkin_upserted" /\ e.id = r.id /\ e.day = r.day
        /\ e.status = r.status /\ e.note = r.note
    BY <1>8
  <1>a. restored' \in Replays /\ (restored'.ok => restored'.daily = daily')
    <2>1. restored \in Replays
      BY <1>8, ReplayGoes
    <2>2. restored.ok => LET u == Habit!Applied(restored, e)
                         IN  u \in Replays /\ (u.ok => u.daily = restored.daily)
      BY <1>2, <1>9, <2>1, ReplaysUpsert
    <2> QED
      BY <1>7, <1>8, <2>2, NotesStay
  <1>10. HabitTypes'
    BY <1>4, <1>5, <1>7, <1>a, InHand DEF HabitInv, HabitTypes
  <1>11. RowsStand'
    BY <1>3, <1>4, <1>5, <1>6, <1>7, SomeRows DEF HabitInv, HabitTypes, RowsStand
  <1>12. ASSUME Habit!Agrees PROVE Habit!Agrees'
    <2>1. Habit!Mark(new) = [status |-> r.status, note |-> r.note]
      BY <1>6 DEF Habit!Mark
    <2>2. /\ restored \in Replays /\ restored.ok /\ restored.item[r.id] # Habit!NoItem
          /\ restored' = Habit!Applied(restored, e)
      BY <1>3, <1>7, <1>8, <1>12, ReplayGoes DEF Habit!Agrees
    <2>3. /\ restored'.ok /\ restored'.item = restored.item
          /\ restored'.daily = restored.daily
          /\ restored'.mark = [restored.mark EXCEPT ![<<r.id, r.day>>] =
                                  [status |-> r.status, note |-> r.note]]
      BY <1>2, <1>9, <2>2, ReplaysUpsert
    <2> QED
      BY <1>3, <1>7, <1>12, <2>1, <2>2, <2>3
         DEF Habit!Agrees, HabitInv, HabitTypes, Replays
  <1> QED
    BY <1>1, <1>2, <1>7, <1>a, <1>10, <1>11, <1>12, CommitHolds

(* A later mark: the row as it was read, with the fields that were sent.    *)
LEMMA UpdatesHolds ==
    ASSUME Habit!HabitAssumption, HabitInv, NEW c \in Clients, Habit!Updates(c)
    PROVE  HabitInv' /\ Habit!StepDiverges
  <1>1. PICK r \in Handlers : r = request[c] /\ Asked(r)
    BY InHand
  <1>2. /\ r.pc = "writing" /\ r.op = "upsert" /\ r.row # Habit!NoRow
        /\ r.id \in Habit!Ids /\ r.day \in Days /\ r.status \in Statuses \cup {None}
        /\ r.note \in Notes \cup {None}
        /\ r.row \in [id : 1 .. MaxRows, status : Statuses, note : Notes \cup {None}]
    BY <1>1, SomeRows DEF Habit!Updates, Habit!Writing, Asked, Handlers
  <1>3. PICK k \in Habit!Keys : k = <<r.id, r.day>> /\ k[1] = r.id
    <2>1. <<r.id, r.day>> \in Habit!Keys /\ <<r.id, r.day>>[1] = r.id
      BY <1>2 DEF Habit!Keys
    <2> QED
      BY <2>1
  <1>4. PICK s \in Statuses : s = Habit!Supplied(r.status, r.row.status)
    <2>1. Habit!Supplied(r.status, r.row.status) \in Statuses
      BY <1>2 DEF Habit!Supplied
    <2> QED
      BY <2>1
  <1>5. PICK n \in Notes \cup {None} : n = Habit!Supplied(r.note, r.row.note)
    <2>1. Habit!Supplied(r.note, r.row.note) \in Notes \cup {None}
      BY <1>2 DEF Habit!Supplied
    <2> QED
      BY <2>1
  <1>7. /\ checkin' = IF checkin[k].id = r.row.id
                      THEN [checkin EXCEPT ![k] = [@ EXCEPT !.status = s, !.note = n]]
                      ELSE checkin
        /\ UNCHANGED <<item, daily, issued>> /\ Habit!Done(c)
    <2>1. checkin \in [Habit!Keys -> Habit!CheckinRows]
      BY DEF HabitInv, HabitTypes
    <2> QED
      BY <1>1, <1>3, <1>4, <1>5, <2>1 DEF Habit!Updates
  <1>8. PICK e : /\ e = [type |-> "checkin_upserted", id |-> r.id, day |-> r.day,
                         status |-> s, note |-> n]
                 /\ restored' = Habit!Replayed(restored, e)
    BY <1>1, <1>4, <1>5 DEF Habit!Updates, Habit!Appends
  <1>9. /\ e.type = "checkin_upserted" /\ e.id = r.id /\ e.day = r.day
        /\ e.status = s /\ e.note = n
    BY <1>8
  <1>a. restored' \in Replays /\ (restored'.ok => restored'.daily = daily')
    <2>1. restored \in Replays
      BY <1>8, ReplayGoes
    <2>2. restored.ok => LET u == Habit!Applied(restored, e)
                         IN  u \in Replays /\ (u.ok => u.daily = restored.daily)
      BY <1>2, <1>9, <2>1, ReplaysUpsert
    <2> QED
      BY <1>7, <1>8, <2>2, NotesStay
  <1>b. PICK new : new = [checkin[k] EXCEPT !.status = s, !.note = n]
    OBVIOUS
  <1>c. checkin[k].id = r.row.id =>
           /\ checkin[k] # Habit!NoRow /\ new \in Habit!CheckinRows
           /\ new = [id |-> checkin[k].id, status |-> s, note |-> n]
           /\ new.id = checkin[k].id /\ Habit!Mark(new) = [status |-> s, note |-> n]
    <2>1. SUFFICES ASSUME checkin[k].id = r.row.id
                   PROVE  /\ checkin[k] # Habit!NoRow /\ new \in Habit!CheckinRows
                          /\ new = [id |-> checkin[k].id, status |-> s, note |-> n]
                          /\ new.id = checkin[k].id
                          /\ Habit!Mark(new) = [status |-> s, note |-> n]
      OBVIOUS
    <2>2. checkin[k] \in Habit!CheckinRows /\ checkin[k] # Habit!NoRow
      BY <1>2, <2>1, SomeRows, NoRows DEF HabitInv, HabitTypes
    <2>3. checkin[k] \in [id : 1 .. MaxRows, status : Statuses, note : Notes \cup {None}]
      BY <2>2, SomeRows
    <2>4. new = [id |-> checkin[k].id, status |-> s, note |-> n]
      BY <1>b, <2>3
    <2> QED
      BY <2>2, <2>3, <2>4 DEF Habit!CheckinRows, Habit!Mark
  <1>d. \/ checkin[k].id # r.row.id /\ checkin' = checkin
        \/ checkin[k].id = r.row.id /\ checkin' = [checkin EXCEPT ![k] = new]
    BY <1>7, <1>b
  <1>10. HabitTypes'
    BY <1>7, <1>a, <1>c, <1>d, InHand DEF HabitInv, HabitTypes
  <1>11. RowsStand'
    BY <1>7, <1>c, <1>d DEF HabitInv, HabitTypes, RowsStand
  <1>12. ASSUME Habit!Agrees, Habit!Fresh(c) PROVE Habit!Agrees'
    <2>1. r.row = checkin[k] /\ checkin' = [checkin EXCEPT ![k] = new]
      BY <1>1, <1>2, <1>3, <1>d, <1>12 DEF Habit!Fresh
    <2>2. /\ restored \in Replays /\ restored.ok /\ restored.item[r.id] # Habit!NoItem
          /\ restored' = Habit!Applied(restored, e)
      BY <1>2, <1>3, <1>8, <1>12, <2>1, ReplayGoes DEF Habit!Agrees, HabitInv, RowsStand
    <2>3. /\ restored'.ok /\ restored'.item = restored.item
          /\ restored'.daily = restored.daily
          /\ restored'.mark = [restored.mark EXCEPT ![<<r.id, r.day>>] =
                                  [status |-> s, note |-> n]]
      BY <1>2, <1>9, <2>2, ReplaysUpsert
    <2> QED
      BY <1>3, <1>7, <1>c, <1>12, <2>1, <2>2, <2>3
         DEF Habit!Agrees, HabitInv, HabitTypes, Replays
  <1> QED
    BY <1>1, <1>2, <1>7, <1>a, <1>10, <1>11, <1>12, CommitHolds

(* A mark taken off: the row that was read, or none any more.               *)
LEMMA ClearsHolds ==
    ASSUME Habit!HabitAssumption, HabitInv, NEW c \in Clients, Habit!Clears(c)
    PROVE  HabitInv' /\ Habit!StepDiverges
  <1>1. PICK r \in Handlers : r = request[c] /\ Asked(r)
    BY InHand
  <1>2. /\ r.pc = "writing" /\ r.op = "clear" /\ r.row # Habit!NoRow
        /\ r.id \in Habit!Ids /\ r.day \in Days /\ r.row \in Habit!CheckinRows
    BY <1>1 DEF Habit!Clears, Habit!Writing, Asked, Handlers, Habit!HabitAssumption
  <1>3. PICK k \in Habit!Keys : k = <<r.id, r.day>> /\ k[1] = r.id
    <2>1. <<r.id, r.day>> \in Habit!Keys /\ <<r.id, r.day>>[1] = r.id
      BY <1>2 DEF Habit!Keys
    <2> QED
      BY <2>1
  <1>7. /\ \/ checkin[k].id # r.row.id /\ checkin' = checkin
           \/ checkin' = [checkin EXCEPT ![k] = Habit!NoRow]
        /\ r.row = checkin[k] => checkin' = [checkin EXCEPT ![k] = Habit!NoRow]
        /\ UNCHANGED <<item, daily, issued>> /\ Habit!Done(c)
    BY <1>1, <1>3 DEF Habit!Clears
  <1>8. PICK e : /\ e = [type |-> "checkin_cleared", id |-> r.id, day |-> r.day]
                 /\ restored' = Habit!Replayed(restored, e)
    BY <1>1 DEF Habit!Clears, Habit!Appends
  <1>9. e.type = "checkin_cleared" /\ e.id = r.id /\ e.day = r.day
    BY <1>8
  <1>a. restored' \in Replays /\ (restored'.ok => restored'.daily = daily')
    <2>1. restored \in Replays
      BY <1>8, ReplayGoes
    <2>2. restored.ok => LET u == Habit!Applied(restored, e)
                         IN  u \in Replays /\ (u.ok => u.daily = restored.daily)
      BY <1>2, <1>9, <2>1, ReplaysClearing
    <2> QED
      BY <1>7, <1>8, <2>2, NotesStay
  <1>10. HabitTypes'
    BY <1>7, <1>a, InHand, NoRows DEF HabitInv, HabitTypes
  <1>11. RowsStand'
    BY <1>7, NoRows DEF HabitInv, HabitTypes, RowsStand, Habit!HabitAssumption
  <1>12. ASSUME Habit!Agrees, Habit!Fresh(c) PROVE Habit!Agrees'
    <2>1. r.row = checkin[k] /\ checkin' = [checkin EXCEPT ![k] = Habit!NoRow]
      BY <1>1, <1>2, <1>3, <1>7, <1>12 DEF Habit!Fresh
    <2>2. /\ restored \in Replays /\ restored.ok
          /\ restored.mark[<<r.id, r.day>>] # Habit!Unmarked
          /\ restored' = Habit!Applied(restored, e)
      BY <1>2, <1>3, <1>8, <1>12, <2>1, ReplayGoes, SomeRows DEF Habit!Agrees
    <2>3. /\ restored'.ok /\ restored'.item = restored.item
          /\ restored'.daily = restored.daily
          /\ restored'.mark = [restored.mark EXCEPT ![<<r.id, r.day>>] = Habit!Unmarked]
      BY <1>2, <1>9, <2>2, ReplaysClearing
    <2>4. Habit!Mark(Habit!NoRow) = Habit!Unmarked
      BY DEF Habit!Unmarked
    <2> QED
      BY <1>3, <1>7, <1>12, <2>1, <2>2, <2>3, <2>4
         DEF Habit!Agrees, HabitInv, HabitTypes, Replays
  <1> QED
    BY <1>1, <1>2, <1>7, <1>a, <1>10, <1>11, <1>12, CommitHolds

(* The note of a day, stored and told in one transaction.                   *)
LEMMA WritesDailyHolds ==
    ASSUME Habit!HabitAssumption, HabitInv, NEW c \in Clients, Habit!WritesDaily(c)
    PROVE  HabitInv' /\ Habit!StepDiverges
  <1>1. PICK r \in Handlers : r = request[c] /\ Asked(r)
    BY InHand
  <1>2. r.pc = "writing" /\ r.day \in Days /\ r.note \in Notes
    BY <1>1 DEF Habit!WritesDaily, Habit!Writing, Asked
  <1>3. UNCHANGED <<item, checkin, issued>> /\ Habit!Done(c)
    BY DEF Habit!WritesDaily
  <1>4. CASE UNCHANGED <<daily, restored>>
    <2>1. HabitTypes' /\ RowsStand' /\ (restored'.ok => restored'.daily = daily')
      BY <1>3, <1>4, InHand DEF HabitInv, HabitTypes, RowsStand, Habit!NotesReplayed
    <2>2. Habit!Agrees => Habit!Agrees'
      BY <1>3, <1>4 DEF Habit!Agrees
    <2> QED
      BY <1>1, <1>2, <1>3, <2>1, <2>2, CommitHolds
  <1>5. CASE /\ daily' = [daily EXCEPT ![r.day] = r.note]
             /\ restored' = Habit!Replayed(restored, [type |-> "note_updated",
                                                     day |-> r.day, text |-> r.note])
    <2>1. PICK e : /\ e.type = "note_updated" /\ e.day = r.day /\ e.text = r.note
                   /\ restored' = Habit!Replayed(restored, e)
      BY <1>5
    <2>2. /\ restored \in Replays
          /\ ~restored.ok => restored' = restored
          /\ restored.ok => /\ restored' = Habit!Applied(restored, e)
                           /\ restored.daily = daily
      BY <2>1, ReplayGoes
    <2>3. restored.ok =>
             /\ restored' \in Replays
             /\ restored'.ok /\ restored'.item = restored.item
             /\ restored'.mark = restored.mark
             /\ restored'.daily = [restored.daily EXCEPT ![r.day] = r.note]
      BY <1>2, <2>1, <2>2, ReplaysNote
    <2>4. HabitTypes'
      BY <1>2, <1>3, <1>5, <2>2, <2>3, InHand DEF HabitInv, HabitTypes
    <2>5. RowsStand' /\ (restored'.ok => restored'.daily = daily')
      BY <1>3, <1>5, <2>2, <2>3 DEF HabitInv, RowsStand
    <2>6. Habit!Agrees => Habit!Agrees'
      BY <1>3, <1>5, <2>3 DEF Habit!Agrees
    <2> QED
      BY <1>1, <1>2, <1>3, <2>4, <2>5, <2>6, CommitHolds
  <1> QED
    BY <1>1, <1>4, <1>5 DEF Habit!WritesDaily, Habit!Appends

(* Habits that stay, with the marks on them.                                *)
LEMMA ItemsKept ==
    ASSUME HabitInv, UNCHANGED <<checkin, issued>>,
           \A i \in Habit!Ids : item[i] # Habit!NoItem => item'[i] # Habit!NoItem
    PROVE  RowsStand'
  BY DEF HabitInv, RowsStand, Habit!Keys

(* An edited habit: the columns sent, and a start as it was read.           *)
LEMMA UpdatesItemHolds ==
    ASSUME Habit!HabitAssumption, HabitInv, NEW c \in Clients, Habit!UpdatesItem(c)
    PROVE  HabitInv' /\ Habit!StepDiverges
  <1>1. PICK r \in Handlers : r = request[c] /\ Asked(r)
    BY InHand
  <1>2. /\ r.pc = "writing" /\ r.op = "update" /\ r.id \in Habit!Ids
        /\ r.seen \in [card : Cards, start : Days \cup {0}, active : BOOLEAN]
        /\ r.op = "update" => r.card \in Cards /\ r.start \in Days \cup {0, None}
    BY <1>1, SomeRows DEF Habit!UpdatesItem, Habit!Writing, Asked, Handlers
  <1>3. PICK s \in Days \cup {0} : s = Habit!Supplied(r.start, r.seen.start)
    <2>1. Habit!Supplied(r.start, r.seen.start) \in Days \cup {0}
      BY <1>2 DEF Habit!Supplied
    <2> QED
      BY <2>1
  <1>4. PICK new : new = [item[r.id] EXCEPT !.card = r.card, !.start = s]
    OBVIOUS
  <1>5. item[r.id] # Habit!NoItem => new \in Habit!ItemRows /\ new # Habit!NoItem
    <2>1. SUFFICES ASSUME item[r.id] # Habit!NoItem
                   PROVE  new \in [card : Cards, start : Days \cup {0}, active : BOOLEAN]
      BY SomeRows DEF Habit!ItemRows
    <2>2. item[r.id] \in [card : Cards, start : Days \cup {0}, active : BOOLEAN]
      BY <1>2, <2>1, SomeRows DEF HabitInv, HabitTypes
    <2> QED
      BY <1>2, <1>4, <2>2
  <1>6. item \in [Habit!Ids -> Habit!ItemRows]
    BY DEF HabitInv, HabitTypes
  <1>7. /\ item' = [item EXCEPT ![r.id] = IF item[r.id] = Habit!NoItem THEN Habit!NoItem
                                          ELSE new]
        /\ UNCHANGED <<checkin, daily, issued>> /\ Habit!Done(c)
    BY <1>1, <1>2, <1>3, <1>4, <1>6 DEF Habit!UpdatesItem, Habit!Present
  <1>8. PICK e : /\ e = [type |-> "item_updated", id |-> r.id, card |-> r.card, start |-> s]
                 /\ restored' = Habit!Replayed(restored, e)
    BY <1>1, <1>3 DEF Habit!UpdatesItem, Habit!Appends
  <1>9. /\ e.type = "item_updated" /\ e.id = r.id /\ e.card = r.card
        /\ e.start = s
    BY <1>8
  <1>a. restored' \in Replays /\ (restored'.ok => restored'.daily = daily')
    <2>1. restored \in Replays
      BY <1>8, ReplayGoes
    <2>2. restored.ok => LET u == Habit!Applied(restored, e)
                         IN  u \in Replays /\ (u.ok => u.daily = restored.daily)
      BY <1>2, <1>9, <2>1, ReplaysUpdate
    <2> QED
      BY <1>7, <1>8, <2>2, NotesStay
  <1>10. HabitTypes'
    BY <1>2, <1>5, <1>6, <1>7, <1>a, InHand, NoRows DEF HabitInv, HabitTypes
  <1>11. RowsStand'
    BY <1>2, <1>5, <1>6, <1>7, ItemsKept
  <1>12. ASSUME Habit!Agrees, Habit!Fresh(c) PROVE Habit!Agrees'
    <2>1. item[r.id] = r.seen /\ item[r.id] # Habit!NoItem
      BY <1>1, <1>2, <1>12, SomeRows DEF Habit!Fresh, Handlers, Habit!ItemRows
    <2>2. /\ restored \in Replays /\ restored.ok /\ restored.item = item
          /\ restored' = Habit!Applied(restored, e)
      BY <1>8, <1>12, ReplayGoes DEF Habit!Agrees
    <2>3. /\ restored'.ok /\ restored'.mark = restored.mark
          /\ restored'.daily = restored.daily
          /\ restored'.item = [item EXCEPT ![r.id] = [@ EXCEPT !.card = r.card, !.start = s]]
      <3>1. /\ restored'.ok /\ restored'.mark = restored.mark
            /\ restored'.daily = restored.daily
            /\ restored'.item = [restored.item EXCEPT ![e.id] =
                                   [@ EXCEPT !.card = e.card, !.start = e.start]]
        <4>1. e.id \in Habit!Ids /\ e.card \in Cards /\ e.start \in Days \cup {0}
          BY <1>2, <1>9
        <4>2. restored.item[e.id] # Habit!NoItem
          BY <1>9, <2>1, <2>2
        <4> QED
          BY <1>9, <2>2, <4>1, <4>2, ReplaysUpdate
      <3> QED
        BY <1>9, <2>2, <3>1
    <2>4. restored'.item = item'
      BY <1>2, <1>4, <1>6, <1>7, <2>1, <2>3
    <2> QED
      BY <1>7, <1>12, <2>3, <2>4 DEF Habit!Agrees
  <1> QED
    BY <1>1, <1>2, <1>7, <1>a, <1>10, <1>11, <1>12, CommitHolds

(* A habit put away.                                                        *)
LEMMA DeactivatesItemHolds ==
    ASSUME Habit!HabitAssumption, HabitInv, NEW c \in Clients, Habit!DeactivatesItem(c)
    PROVE  HabitInv' /\ Habit!StepDiverges
  <1>1. PICK r \in Handlers : r = request[c] /\ Asked(r)
    BY InHand
  <1>2. /\ r.pc = "writing" /\ r.op = "deactivate" /\ r.id \in Habit!Ids
        /\ r.seen \in [card : Cards, start : Days \cup {0}, active : BOOLEAN]
        /\ r.op = "update" => r.card \in Cards /\ r.start \in Days \cup {0, None}
    BY <1>1, SomeRows DEF Habit!DeactivatesItem, Habit!Writing, Asked, Handlers
  <1>4. PICK new : new = [item[r.id] EXCEPT !.active = FALSE]
    OBVIOUS
  <1>5. item[r.id] # Habit!NoItem => new \in Habit!ItemRows /\ new # Habit!NoItem
    <2>1. SUFFICES ASSUME item[r.id] # Habit!NoItem
                   PROVE  new \in [card : Cards, start : Days \cup {0}, active : BOOLEAN]
      BY SomeRows DEF Habit!ItemRows
    <2>2. item[r.id] \in [card : Cards, start : Days \cup {0}, active : BOOLEAN]
      BY <1>2, <2>1, SomeRows DEF HabitInv, HabitTypes
    <2> QED
      BY <1>2, <1>4, <2>2
  <1>6. item \in [Habit!Ids -> Habit!ItemRows]
    BY DEF HabitInv, HabitTypes
  <1>7. /\ item' = [item EXCEPT ![r.id] = IF item[r.id] = Habit!NoItem THEN Habit!NoItem
                                          ELSE new]
        /\ UNCHANGED <<checkin, daily, issued>> /\ Habit!Done(c)
    BY <1>1, <1>2, <1>4, <1>6 DEF Habit!DeactivatesItem, Habit!Present
  <1>8. PICK e : /\ e = [type |-> "item_deactivated", id |-> r.id]
                 /\ restored' = Habit!Replayed(restored, e)
    BY <1>1 DEF Habit!DeactivatesItem, Habit!Appends
  <1>9. e.type = "item_deactivated" /\ e.id = r.id
    BY <1>8
  <1>a. restored' \in Replays /\ (restored'.ok => restored'.daily = daily')
    <2>1. restored \in Replays
      BY <1>8, ReplayGoes
    <2>2. restored.ok => LET u == Habit!Applied(restored, e)
                         IN  u \in Replays /\ (u.ok => u.daily = restored.daily)
      BY <1>2, <1>9, <2>1, ReplaysDeactivation
    <2> QED
      BY <1>7, <1>8, <2>2, NotesStay
  <1>10. HabitTypes'
    BY <1>2, <1>5, <1>6, <1>7, <1>a, InHand, NoRows DEF HabitInv, HabitTypes
  <1>11. RowsStand'
    BY <1>2, <1>5, <1>6, <1>7, ItemsKept
  <1>12. ASSUME Habit!Agrees, Habit!Fresh(c) PROVE Habit!Agrees'
    <2>1. item[r.id] = r.seen /\ item[r.id] # Habit!NoItem
      BY <1>1, <1>2, <1>12, SomeRows DEF Habit!Fresh, Handlers, Habit!ItemRows
    <2>2. /\ restored \in Replays /\ restored.ok /\ restored.item = item
          /\ restored' = Habit!Applied(restored, e)
      BY <1>8, <1>12, ReplayGoes DEF Habit!Agrees
    <2>3. /\ restored'.ok /\ restored'.mark = restored.mark
          /\ restored'.daily = restored.daily
          /\ restored'.item = [item EXCEPT ![r.id] = [@ EXCEPT !.active = FALSE]]
      BY <1>2, <1>9, <2>1, <2>2, ReplaysDeactivation
    <2>4. restored'.item = item'
      BY <1>2, <1>4, <1>6, <1>7, <2>1, <2>3
    <2> QED
      BY <1>7, <1>12, <2>3, <2>4 DEF Habit!Agrees
  <1> QED
    BY <1>1, <1>2, <1>7, <1>a, <1>10, <1>11, <1>12, CommitHolds

(* A habit taken up again: its event tells the card as it was read.         *)
LEMMA ReactivatesItemHolds ==
    ASSUME Habit!HabitAssumption, HabitInv, NEW c \in Clients, Habit!ReactivatesItem(c)
    PROVE  HabitInv' /\ Habit!StepDiverges
  <1>1. PICK r \in Handlers : r = request[c] /\ Asked(r)
    BY InHand
  <1>2. /\ r.pc = "writing" /\ r.op = "reactivate" /\ r.id \in Habit!Ids
        /\ r.seen \in [card : Cards, start : Days \cup {0}, active : BOOLEAN]
        /\ r.op = "update" => r.card \in Cards /\ r.start \in Days \cup {0, None}
    BY <1>1, SomeRows DEF Habit!ReactivatesItem, Habit!Writing, Asked, Handlers
  <1>4. PICK new : new = [item[r.id] EXCEPT !.active = TRUE]
    OBVIOUS
  <1>5. item[r.id] # Habit!NoItem => new \in Habit!ItemRows /\ new # Habit!NoItem
    <2>1. SUFFICES ASSUME item[r.id] # Habit!NoItem
                   PROVE  new \in [card : Cards, start : Days \cup {0}, active : BOOLEAN]
      BY SomeRows DEF Habit!ItemRows
    <2>2. item[r.id] \in [card : Cards, start : Days \cup {0}, active : BOOLEAN]
      BY <1>2, <2>1, SomeRows DEF HabitInv, HabitTypes
    <2> QED
      BY <1>2, <1>4, <2>2
  <1>6. item \in [Habit!Ids -> Habit!ItemRows]
    BY DEF HabitInv, HabitTypes
  <1>7. /\ item' = [item EXCEPT ![r.id] = IF item[r.id] = Habit!NoItem THEN Habit!NoItem
                                          ELSE new]
        /\ UNCHANGED <<checkin, daily, issued>> /\ Habit!Done(c)
    BY <1>1, <1>2, <1>4, <1>6 DEF Habit!ReactivatesItem, Habit!Present
  <1>8. PICK e : /\ e = [type |-> "item_updated_sparse", id |-> r.id, card |-> r.seen.card]
                 /\ restored' = Habit!Replayed(restored, e)
    BY <1>1 DEF Habit!ReactivatesItem, Habit!Appends
  <1>9. e.type = "item_updated_sparse" /\ e.id = r.id /\ e.card = r.seen.card
    BY <1>8
  <1>a. restored' \in Replays /\ (restored'.ok => restored'.daily = daily')
    <2>1. restored \in Replays
      BY <1>8, ReplayGoes
    <2>2. restored.ok => LET u == Habit!Applied(restored, e)
                         IN  u \in Replays /\ (u.ok => u.daily = restored.daily)
      BY <1>2, <1>9, <2>1, ReplaysSparse
    <2> QED
      BY <1>7, <1>8, <2>2, NotesStay
  <1>10. HabitTypes'
    BY <1>2, <1>5, <1>6, <1>7, <1>a, InHand, NoRows DEF HabitInv, HabitTypes
  <1>11. RowsStand'
    BY <1>2, <1>5, <1>6, <1>7, ItemsKept
  <1>12. ASSUME Habit!Agrees, Habit!Fresh(c) PROVE Habit!Agrees'
    <2>1. item[r.id] = r.seen /\ item[r.id] # Habit!NoItem
      BY <1>1, <1>2, <1>12, SomeRows DEF Habit!Fresh, Handlers, Habit!ItemRows
    <2>2. /\ restored \in Replays /\ restored.ok /\ restored.item = item
          /\ restored' = Habit!Applied(restored, e)
      BY <1>8, <1>12, ReplayGoes DEF Habit!Agrees
    <2>3. /\ restored'.ok /\ restored'.mark = restored.mark
          /\ restored'.daily = restored.daily
          /\ restored'.item = [item EXCEPT ![r.id] =
                                 [@ EXCEPT !.card = r.seen.card, !.active = TRUE]]
      <3>1. /\ restored'.ok /\ restored'.mark = restored.mark
            /\ restored'.daily = restored.daily
            /\ restored'.item = [restored.item EXCEPT ![e.id] =
                                   [@ EXCEPT !.card = e.card, !.active = TRUE]]
        <4>1. e.id \in Habit!Ids /\ e.card \in Cards
          BY <1>2, <1>9
        <4>2. restored.item[e.id] # Habit!NoItem
          BY <1>9, <2>1, <2>2
        <4> QED
          BY <1>9, <2>2, <4>1, <4>2, ReplaysSparse
      <3> QED
        BY <1>9, <2>2, <3>1
    <2>4. restored'.item = item'
      <3>1. new = [item[r.id] EXCEPT !.card = r.seen.card, !.active = TRUE]
        BY <1>2, <1>4, <2>1
      <3> QED
        BY <1>2, <1>6, <1>7, <2>1, <2>3, <3>1
    <2> QED
      BY <1>7, <1>12, <2>3, <2>4 DEF Habit!Agrees
  <1> QED
    BY <1>1, <1>2, <1>7, <1>a, <1>10, <1>11, <1>12, CommitHolds

(* A habit deleted, and its marks with it.                                  *)
LEMMA DeletesItemHolds ==
    ASSUME Habit!HabitAssumption, HabitInv, NEW c \in Clients, Habit!DeletesItem(c)
    PROVE  HabitInv' /\ Habit!StepDiverges
  <1>1. PICK r \in Handlers : r = request[c] /\ Asked(r)
    BY InHand
  <1>2. r.pc = "writing" /\ r.op = "delete" /\ r.id \in Habit!Ids /\ r.seen # Habit!NoItem
    BY <1>1 DEF Habit!DeletesItem, Habit!Writing, Asked
  <1>7. /\ item' = [item EXCEPT ![r.id] = Habit!NoItem]
        /\ checkin' = [k \in Habit!Keys |-> IF k[1] = r.id THEN Habit!NoRow ELSE checkin[k]]
        /\ UNCHANGED <<daily, issued>> /\ Habit!Done(c)
    BY <1>1 DEF Habit!DeletesItem
  <1>8. PICK e : /\ e = [type |-> "item_deleted", id |-> r.id]
                 /\ restored' = Habit!Replayed(restored, e)
    BY <1>1 DEF Habit!DeletesItem, Habit!Appends
  <1>9. e.type = "item_deleted" /\ e.id = r.id
    BY <1>8
  <1>a. restored' \in Replays /\ (restored'.ok => restored'.daily = daily')
    <2>1. restored \in Replays
      BY <1>8, ReplayGoes
    <2>2. restored.ok => LET u == Habit!Applied(restored, e)
                         IN  u \in Replays /\ (u.ok => u.daily = restored.daily)
      BY <1>2, <1>9, <2>1, ReplaysDeletion
    <2> QED
      BY <1>7, <1>8, <2>2, NotesStay
  <1>10. HabitTypes'
    BY <1>2, <1>7, <1>a, InHand, NoRows DEF HabitInv, HabitTypes
  <1>11. RowsStand'
    <2>1. \A k \in Habit!Keys : k[1] \in Habit!Ids
      BY DEF Habit!Keys
    <2> QED
      BY <1>2, <1>7, <2>1, NoRows DEF HabitInv, HabitTypes, RowsStand, Habit!HabitAssumption
  <1>12. ASSUME Habit!Agrees, Habit!Fresh(c) PROVE Habit!Agrees'
    <2>1. item[r.id] # Habit!NoItem
      BY <1>1, <1>2, <1>12 DEF Habit!Fresh
    <2>2. /\ restored \in Replays /\ restored.ok /\ restored.item = item
          /\ restored' = Habit!Applied(restored, e)
      BY <1>8, <1>12, ReplayGoes DEF Habit!Agrees
    <2>3. /\ restored'.ok /\ restored'.daily = restored.daily
          /\ restored'.item = [item EXCEPT ![r.id] = Habit!NoItem]
          /\ restored'.mark = [k \in Habit!Keys |-> IF k[1] = r.id THEN Habit!Unmarked
                                                   ELSE restored.mark[k]]
      BY <1>2, <1>9, <2>1, <2>2, ReplaysDeletion
    <2>4. Habit!Mark(Habit!NoRow) = Habit!Unmarked
      BY DEF Habit!Unmarked
    <2> QED
      BY <1>7, <1>12, <2>3, <2>4 DEF Habit!Agrees
  <1> QED
    BY <1>1, <1>2, <1>7, <1>a, <1>10, <1>11, <1>12, CommitHolds

(* A new habit, told as it is stored.                                       *)
LEMMA CreatesItemHolds ==
    ASSUME Habit!HabitAssumption, HabitInv, NEW x \in Cards, NEW s \in Days \cup {0},
           Habit!CreatesItem(x, s)
    PROVE  HabitInv' /\ Habit!StepDiverges
  <1>1. PICK i \in Habit!Ids : i = issued.items + 1
    BY DEF Habit!CreatesItem, HabitInv, HabitTypes, Habit!HabitAssumption, Habit!Ids
  <1>2. PICK new : new = [card |-> x, start |-> s, active |-> TRUE]
    OBVIOUS
  <1>3. new \in Habit!ItemRows /\ new # Habit!NoItem
    BY <1>2 DEF Habit!ItemRows, Habit!NoItem, Habit!HabitAssumption
  <1>7. /\ item' = [item EXCEPT ![i] = new] /\ issued' = [issued EXCEPT !.items = i]
        /\ UNCHANGED <<checkin, daily, request>>
    BY <1>1, <1>2 DEF Habit!CreatesItem
  <1>8. PICK e : /\ e = [type |-> "item_created", id |-> i, card |-> x, start |-> s]
                 /\ restored' = Habit!Replayed(restored, e)
    BY <1>1 DEF Habit!CreatesItem, Habit!Appends
  <1>9. e.type = "item_created" /\ e.id = i /\ e.card = x /\ e.start = s
    BY <1>8
  <1>10. restored.ok =>
            /\ restored' \in Replays
            /\ restored'.ok /\ restored'.mark = restored.mark
            /\ restored'.daily = restored.daily
            /\ restored'.item = [restored.item EXCEPT ![i] = new]
    <2>1. SUFFICES ASSUME restored.ok
                   PROVE  /\ restored' \in Replays
                          /\ restored'.ok /\ restored'.mark = restored.mark
                          /\ restored'.daily = restored.daily
                          /\ restored'.item = [restored.item EXCEPT ![i] = new]
      OBVIOUS
    <2>2. restored \in Replays /\ restored' = Habit!Applied(restored, e)
      BY <1>8, <2>1, ReplayGoes
    <2>3. /\ restored' \in Replays
          /\ restored'.ok /\ restored'.mark = restored.mark
          /\ restored'.daily = restored.daily
          /\ restored'.item = [restored.item EXCEPT ![e.id] =
                                 [card |-> e.card, start |-> e.start, active |-> TRUE]]
      BY <1>9, <2>1, <2>2, ReplaysCreation
    <2> QED
      BY <1>2, <1>9, <2>3
  <1>11. restored' \in Replays /\ (restored'.ok => restored'.daily = daily')
    BY <1>7, <1>8, <1>10, ReplayGoes
  <1>12. HabitTypes'
    BY <1>1, <1>3, <1>7, <1>11 DEF HabitInv, HabitTypes, Habit!Ids
  <1>13. RowsStand'
    <2>1. issued'.rows = issued.rows
      BY <1>7 DEF HabitInv, HabitTypes
    <2>2. \A j \in Habit!Ids : item[j] # Habit!NoItem => item'[j] # Habit!NoItem
      BY <1>3, <1>7 DEF HabitInv, HabitTypes
    <2>3. \A k \in Habit!Keys : k[1] \in Habit!Ids
      BY DEF Habit!Keys
    <2> QED
      BY <1>7, <2>1, <2>2, <2>3 DEF HabitInv, RowsStand
  <1>14. Habit!Agrees => Habit!Agrees'
    BY <1>7, <1>10 DEF Habit!Agrees
  <1> QED
    BY <1>7, <1>11, <1>12, <1>13, <1>14
       DEF HabitInv, Habit!NotesReplayed, Habit!StepDiverges

(* What a request may ask is well formed.                                   *)
LEMMA ReceivesHolds ==
    ASSUME Habit!HabitAssumption, HabitInv, NEW c \in Clients, Habit!Receives(c)
    PROVE  HabitInv' /\ Habit!StepDiverges
  <1>i. /\ item \in [Habit!Ids -> Habit!ItemRows] /\ daily \in [Days -> Notes \cup {None}]
        /\ \A i \in Habit!Ids : i # 0
    BY DEF HabitInv, HabitTypes, Habit!Ids, Habit!HabitAssumption
  <1>1. ASSUME NEW i \in Habit!Ids, NEW d \in Days, NEW s \in Statuses, Habit!Taps(c, i, d, s)
        PROVE  HabitInv' /\ Habit!StepDiverges
    <2>1. PICK r : /\ r \in Handlers /\ Asked(r)
                   /\ request' = [request EXCEPT ![c] = r]
      <3> DEFINE R(op, st) == [Habit!Idle EXCEPT !.pc = "reading", !.id = i, !.day = d,
                                                 !.op = op, !.status = st]
      <3>1. ASSUME NEW op \in {"clear", "upsert"}, NEW st \in Statuses \cup {None},
                   op = "clear" => st = None
            PROVE  R(op, st) \in Handlers /\ Asked(R(op, st))
        BY <3>1, NoRows DEF Habit!Idle, Handlers, Asked
      <3>2. \E op \in {"clear", "upsert"}, st \in Statuses \cup {None} :
               (op = "clear" => st = None) /\ request' = [request EXCEPT ![c] = R(op, st)]
        BY <1>1 DEF Habit!Taps, Habit!Arrives
      <3> QED
        BY <3>1, <3>2
    <2> QED
      BY <1>1, <2>1, TablesStay DEF Habit!Taps, Habit!Arrives
  <1>2. ASSUME NEW i \in Habit!Ids, NEW d \in Days, NEW n \in Notes,
               Habit!SavesNote(c, i, d, n)
        PROVE  HabitInv' /\ Habit!StepDiverges
    <2>1. PICK r : r = [Habit!Idle EXCEPT !.pc = "reading", !.op = "upsert", !.id = i,
                                          !.day = d, !.note = n]
      OBVIOUS
    <2>2. r \in Handlers /\ Asked(r)
      BY <2>1, NoRows DEF Habit!Idle, Handlers, Asked
    <2> QED
      BY <1>2, <2>1, <2>2, TablesStay DEF Habit!SavesNote, Habit!Arrives
  <1>3. ASSUME NEW d \in Days, NEW n \in Notes, Habit!SavesDaily(c, d, n)
        PROVE  HabitInv' /\ Habit!StepDiverges
    <2>1. PICK r : r = [Habit!Idle EXCEPT !.pc = "writing", !.op = "daily", !.day = d,
                                          !.note = n, !.status = daily[d]]
      OBVIOUS
    <2>2. r \in Handlers /\ Asked(r)
      BY <1>i, <2>1, NoRows DEF Habit!Idle, Handlers, Asked
    <2> QED
      BY <1>3, <2>1, <2>2, TablesStay DEF Habit!SavesDaily, Habit!Arrives
  <1>4. ASSUME NEW i \in Habit!Ids,
               NEW op \in {"update", "deactivate", "reactivate", "delete"},
               NEW x \in Cards \cup {None}, NEW s \in Days \cup {0, None},
               op = "update" => x \in Cards, Habit!Manages(c, op, i, x, s)
        PROVE  HabitInv' /\ Habit!StepDiverges
    <2>1. PICK r : r = [Habit!Idle EXCEPT !.pc = "writing", !.op = op, !.id = i,
                                          !.seen = item[i], !.card = x, !.start = s]
      OBVIOUS
    <2>2. r \in Handlers /\ Asked(r)
      BY <1>4, <1>i, <2>1, NoRows DEF Habit!Idle, Handlers, Asked, Habit!Manages
    <2> QED
      BY <1>4, <2>1, <2>2, TablesStay DEF Habit!Manages, Habit!Arrives
  <1> QED
    BY <1>1, <1>2, <1>3, <1>4 DEF Habit!Receives

(* A handler of a mark reads the habit and the row, or answers at once.     *)
LEMMA ReadsHolds ==
    ASSUME Habit!HabitAssumption, HabitInv, NEW c \in Clients, Habit!Reads(c)
    PROVE  HabitInv' /\ Habit!StepDiverges
  <1>1. PICK r \in Handlers : r = request[c] /\ Asked(r)
    BY InHand
  <1>2. /\ r.pc = "reading" /\ r.op \in {"upsert", "clear"}
        /\ r.id \in Habit!Ids /\ r.day \in Days
    BY <1>1 DEF Habit!Reads, Asked
  <1>3. PICK row_ \in Habit!CheckinRows : row_ = checkin[<<r.id, r.day>>]
    <2>1. <<r.id, r.day>> \in Habit!Keys
      BY <1>2 DEF Habit!Keys
    <2> QED
      BY <2>1 DEF HabitInv, HabitTypes
  <1>4. PICK seen \in Habit!ItemRows : seen = item[r.id]
    BY <1>2 DEF HabitInv, HabitTypes
  <1>5. PICK new : new = [r EXCEPT !.pc = "writing", !.row = row_, !.seen = seen]
    OBVIOUS
  <1>6. UNCHANGED <<item, checkin, daily, issued, restored>>
    BY DEF Habit!Reads
  <1>7. CASE Habit!Done(c)
    <2>1. Habit!Idle \in Handlers /\ Asked(Habit!Idle)
      BY NoRows DEF Asked
    <2> QED
      BY <1>6, <1>7, <2>1, TablesStay DEF Habit!Done
  <1>8. CASE /\ request' = [request EXCEPT ![c] = new]
             /\ row_ = Habit!NoRow => r.status # None
    <2>1. new \in Handlers
      BY <1>3, <1>4, <1>5 DEF Handlers
    <2>2. Asked(new)
      BY <1>1, <1>2, <1>5, <1>8 DEF Handlers, Asked
    <2> QED
      BY <1>6, <1>8, <2>1, <2>2, TablesStay
  <1>9. request \in [Clients -> Handlers]
    BY DEF HabitInv, HabitTypes
  <1> QED
    BY <1>1, <1>3, <1>4, <1>5, <1>7, <1>8, <1>9 DEF Habit!Reads

(* Every step keeps the invariant, and only a stale read parts the two.     *)
LEMMA HabitStep ==
    ASSUME Habit!HabitAssumption, HabitInv, [Habit!Next]_Habit!vars
    PROVE  HabitInv' /\ Habit!StepDiverges
  <1>1. ASSUME NEW c \in Clients, Habit!InsertFails(c)
        PROVE  HabitInv' /\ Habit!StepDiverges
    <2>1. Habit!Idle \in Handlers /\ Asked(Habit!Idle)
      BY NoRows DEF Asked
    <2> QED
      BY <1>1, <2>1, TablesStay DEF Habit!InsertFails, Habit!Done
  <1>2. ASSUME NEW c \in Clients, Habit!Commits(c) PROVE HabitInv' /\ Habit!StepDiverges
    BY <1>1, <1>2, InsertsHolds, UpdatesHolds, ClearsHolds, WritesDailyHolds,
       UpdatesItemHolds, DeactivatesItemHolds, ReactivatesItemHolds, DeletesItemHolds
       DEF Habit!Commits
  <1>3. CASE UNCHANGED Habit!vars
    <2>1. HabitTypes'
      BY <1>3 DEF Habit!vars, HabitInv, HabitTypes
    <2>2. RowsStand' /\ Habit!NotesReplayed' /\ \A c \in Clients : Asked(request'[c])
      BY <1>3 DEF Habit!vars, HabitInv, RowsStand, Habit!NotesReplayed
    <2>3. Habit!StepDiverges
      BY <1>3 DEF Habit!vars, Habit!StepDiverges, Habit!Agrees
    <2> QED
      BY <2>1, <2>2, <2>3 DEF HabitInv
  <1> QED
    BY <1>2, <1>3, ReceivesHolds, ReadsHolds, CreatesItemHolds DEF Habit!Next

LEMMA HabitScene ==
    ASSUME [Next]_all, scene' = "habits"
    PROVE  scene = "habits" /\ [Habit!Next]_Habit!vars
  BY DEF Next, all, state, Habit!vars

(* Only an outdated read parts the ledger from the habit tables, and no     *)
(* replay loses a daily note (services/checkins.py, services/items.py).     *)
THEOREM HabitsHold == Spec => HabitsReplay
  <1> DEFINE Inv == scene = "habits" => HabitInv
  <1>1. Init => Inv
    BY HabitsInitially, LedgersAssumption DEF Init
  <1>2. Inv /\ [Next]_all => Inv'
    BY HabitScene, HabitStep, LedgersAssumption
  <1>3. HabitInv => Habit!TypeOK /\ Habit!NotesReplayed
    <2>1. SUFFICES ASSUME HabitTypes, RowsStand PROVE Habit!TypeOK
      BY DEF HabitInv
    <2>2. ASSUME NEW k \in Habit!Keys, NEW m \in Habit!Keys,
                 checkin[k] = checkin[m], checkin[k] # Habit!NoRow
          PROVE  k = m
      BY <2>1, <2>2, SomeRows, LedgersAssumption DEF HabitTypes, RowsStand
    <2> QED
      BY <2>1, <2>2 DEF Habit!TypeOK, HabitTypes, RowsStand
  <1>4. Inv /\ [Next]_all => [scene = "habits" => Habit!StepReplays]_all
    <2>1. SUFFICES ASSUME Inv, [Next]_all, scene = "habits", scene' = "habits"
                   PROVE  Habit!StepReplays
      BY DEF Next, all
    <2>2. HabitInv' /\ Habit!StepDiverges
      BY <2>1, HabitScene, HabitStep, LedgersAssumption
    <2>3. (Habit!TypeOK /\ Habit!NotesReplayed)'
      BY <2>2, <1>3, PTL
    <2> QED
      BY <2>2, <2>3 DEF Habit!StepReplays
  <1> QED
    BY <1>1, <1>2, <1>4, PTL DEF Spec, HabitsReplay

-----------------------------------------------------------------------------
(* The assessments.  Whoever holds the cross-process lock is the only one   *)
(* with a fold in hand, a stamp that fits names the fold on the file, and   *)
(* what was answered is in whatever is published next.                      *)

(* The variables of Assessments, as the scenes hold them.                   *)
rows      == v1
archived  == v2
file      == v4
published == v7
sealed    == v8
flock     == v10
call      == v11
USE DEF rows, archived, file, published, sealed, flock, call

Kinds  == {"review", "evidence", "summary", "retraction"}
Labels == {"new", "token", "enter", "lookup", "validate", "recheck", "relookup", "insert",
           "project", "fold", "publish", "projected", "pending", "refused", "lost"}
History == [key : SubmitKeys \cup {"earlier"}, kind : Kinds, on : {0, 1},
            from : Assess!Sittings \cup {Assess!Owner}, supersedes : Nat]
Calls == [at : Labels, by : Processes \cup {Assess!NoOne},
          key : SubmitKeys \cup {Assess!NoOne},
          from : Assess!Sittings \cup {Assess!Owner}, kind : Kinds \cup {Assess!NoOne},
          on : {0, 1}, supersedes : Nat, stale : BOOLEAN, id : Nat,
          then : {Assess!NoOne, "lookup", "answered"}, already : Int, asOf : Nat,
          lines : SUBSET Nat, edited : BOOLEAN]

AssessTypes ==
    /\ rows \in Seq(History) /\ archived \in BOOLEAN
    /\ file \in [here : BOOLEAN, asOf : Nat, lines : SUBSET Nat]
    /\ published \in [Processes -> Int] /\ sealed \subseteq Processes
    /\ call \in [Writers -> Calls]

\* What the table promises: one row a key, and one summary of a sitting that stands.
TableStands ==
    /\ \A i, j \in Assess!Ids(rows) : rows[i].key = rows[j].key => i = j
    /\ \A s \in Assess!Sittings : \A i, j \in Assess!Standing(s) : i = j

\* What is on the name is a fold or an outsider's, and a stamp that still fits is of a fold.
FileStands ==
    /\ Assess!FileIsAFold /\ file.asOf <= Len(rows)
    /\ \A p \in sealed : file.here /\ 0 \notin file.lines /\ file.asOf = published[p]

\* A call that has a row has the row of its own submission.
Sound(c) ==
    /\ c.at \notin {"new", "lost"} =>
          c.by \in Processes /\ c.key \in SubmitKeys /\ c.kind \in Kinds
    /\ c.id # 0 => /\ c.id \in Assess!Ids(rows) /\ rows[c.id].key = c.key
                   /\ Assess!Same(rows[c.id], c)
    /\ c.at = "enter" => c.then = "lookup"
    /\ c.at \in {"project", "fold", "publish"} => c.then = "lookup" \/ c.id # 0

\* The holder of the lock knows the file it may skip, and holds a fold to publish.
Holding(w, c) ==
    /\ c.at \in {"fold", "publish"} => flock = w
    /\ c.at = "fold" /\ c.already # -1 /\ ~c.edited =>
          file.here /\ 0 \notin file.lines /\ file.asOf = c.already
    /\ c.at = "publish" => /\ c.lines = Assess!Fold(SubSeq(rows, 1, c.asOf))
                           /\ c.asOf <= Len(rows) /\ c.id <= c.asOf /\ 0 \notin c.lines

Told(c) ==
    c.at = "projected" /\ ~c.edited =>
        file.here /\ file.asOf >= c.id /\ 0 \notin file.lines

\* What was told projected is in whatever is published next.
Covered ==
    \A w, u \in Writers : call[w].at = "projected" /\ call[u].at = "publish" =>
        call[w].id <= call[u].asOf

AssessInv ==
    /\ AssessTypes /\ TableStands /\ FileStands /\ Covered
    /\ \A w \in Writers : Sound(call[w]) /\ Holding(w, call[w]) /\ Told(call[w])

(* A recorded history is a fold away from the lines of a file.              *)
LEMMA FoldOfIds ==
    ASSUME NEW rs \in Seq(History)
    PROVE  /\ Len(rs) \in Nat /\ Assess!Fold(rs) \subseteq Nat
           /\ 0 \notin Assess!Fold(rs) /\ SubSeq(rs, 1, Len(rs)) = rs
  BY DEF Assess!Fold, Assess!Active, Assess!Ids

(* A new row leaves every earlier version of the history as it was.         *)
LEMMA VersionsStay ==
    ASSUME NEW rs \in Seq(History), NEW e \in History, NEW n \in Nat, n <= Len(rs)
    PROVE  SubSeq(Append(rs, e), 1, n) = SubSeq(rs, 1, n)
  OBVIOUS

(* An invariant of all calls holds of each one.                             *)
LEMMA InCall ==
    ASSUME AssessInv, NEW w \in Writers
    PROVE  /\ call[w] \in Calls /\ Sound(call[w]) /\ Holding(w, call[w]) /\ Told(call[w])
           /\ rows \in Seq(History) /\ Len(rows) \in Nat
  <1>1. call[w] \in Calls /\ rows \in Seq(History)
    BY DEF AssessInv, AssessTypes
  <1>2. Sound(call[w]) /\ Holding(w, call[w]) /\ Told(call[w])
    BY DEF AssessInv
  <1> QED
    BY <1>1, <1>2

LEMMA AssessInitially ==
    ASSUME Assess!Init PROVE AssessInv
  <1>1. Assess!NewCall \in Calls
    BY DEF Assess!NewCall, Calls, Labels, Assess!Owner, Assess!Sittings, Kinds
  <1>a. Assess!Earlier \in History
    BY DEF Assess!Earlier, History, Kinds, Assess!Sittings
  <1>b. rows = <<>> \/ rows = <<Assess!Earlier>>
    BY DEF Assess!Init
  <1>c. <<Assess!Earlier>> \in Seq(History) /\ Len(<<Assess!Earlier>>) = 1
    BY <1>a
  <1>d. <<>> \in Seq(History) /\ Len(<<>>) = 0
    OBVIOUS
  <1>e. rows = <<>> => rows \in Seq(History) /\ Len(rows) <= 1
    BY <1>d
  <1>f. rows = <<Assess!Earlier>> => rows \in Seq(History) /\ Len(rows) <= 1
    BY <1>c
  <1>2. rows \in Seq(History) /\ Len(rows) <= 1
    BY <1>b, <1>e, <1>f
  <1>3. AssessTypes
    <2>1. file \in [here : BOOLEAN, asOf : Nat, lines : SUBSET Nat]
      BY DEF Assess!Init, Assess!Absent
    <2>4. [p \in Processes |-> -1] \in [Processes -> Int]
      OBVIOUS
    <2>2. published \in [Processes -> Int] /\ sealed \subseteq Processes /\ archived \in BOOLEAN
      BY <2>4 DEF Assess!Init
    <2>3. call \in [Writers -> Calls]
      BY <1>1 DEF Assess!Init
    <2> QED
      BY <1>2, <2>1, <2>2, <2>3 DEF AssessTypes
  <1>4. TableStands
    BY <1>2 DEF TableStands, Assess!Ids, Assess!Standing, Assess!Active
  <1>5. FileStands
    BY <1>2 DEF Assess!Init, FileStands, Assess!FileIsAFold, Assess!Absent
  <1>6. \A w \in Writers : Sound(call[w]) /\ Holding(w, call[w]) /\ Told(call[w])
    BY DEF Assess!Init, Assess!NewCall, Sound, Holding, Told
  <1>7. Covered
    BY DEF Assess!Init, Assess!NewCall, Covered
  <1> QED
    BY <1>3, <1>4, <1>5, <1>6, <1>7 DEF AssessInv

(* A step that moves one call and leaves the table and the file alone.      *)
LEMMA CallMoves ==
    ASSUME AssessInv, NEW w \in Writers, NEW c \in Calls,
           call' = [call EXCEPT ![w] = c], archived' \in BOOLEAN,
           UNCHANGED <<rows, file, published, sealed>>,
           Sound(c), Holding(w, c)', Told(c),
           \A u \in Writers \ {w} : flock = u => flock' = u,
           \A u \in Writers \ {w} : c.at = "projected" => call[u].at # "publish",
           c.at = "publish" => c.asOf = Len(rows)
    PROVE  AssessInv'
  <1>1. AssessTypes'
    BY DEF AssessInv, AssessTypes
  <1>2. TableStands'
    BY DEF AssessInv, TableStands, Assess!Standing, Assess!Active, Assess!Ids
  <1>3. FileStands'
    BY DEF AssessInv, FileStands, Assess!FileIsAFold
  <1>4. call'[w] = c /\ \A u \in Writers \ {w} : call'[u] = call[u]
    BY DEF AssessInv, AssessTypes
  <1>5. ASSUME NEW u \in Writers PROVE (Sound(call[u]) /\ Holding(u, call[u]) /\ Told(call[u]))'
    <2>1. CASE u = w
      <3>1. Sound(c)' /\ Told(c)'
        BY DEF Sound, Told, Assess!Ids, Assess!Same
      <3> QED
        BY <1>4, <2>1, <3>1 DEF Sound, Told, Holding, Assess!Ids, Assess!Same
    <2>2. CASE u # w
      <3>1. Sound(call[u]) /\ Holding(u, call[u]) /\ Told(call[u]) /\ call'[u] = call[u]
        BY <1>4, <2>2, InCall
      <3>2. flock = u => flock' = u
        BY <2>2
      <3> QED
        BY <3>1, <3>2 DEF Sound, Told, Holding, Assess!Ids, Assess!Same
    <2> QED
      BY <2>1, <2>2
  <1>6. Covered'
    <2> SUFFICES ASSUME NEW x \in Writers, NEW y \in Writers,
                        call'[x].at = "projected", call'[y].at = "publish"
                 PROVE  call'[x].id <= call'[y].asOf
      BY DEF Covered
    <2>1. CASE x = w
      BY <1>4, <2>1
    <2>2. CASE x # w /\ y = w
      <3>1. call'[x] = call[x] /\ Sound(call[x]) /\ call[x] \in Calls
        BY <1>4, <2>2, InCall
      <3>2. c.asOf = Len(rows) /\ Len(rows) \in Nat
        BY <1>4, <2>2 DEF AssessInv, AssessTypes
      <3>3. call[x].id <= Len(rows)
        BY <3>1, <3>2 DEF Sound, Assess!Ids, Calls
      <3> QED
        BY <1>4, <2>2, <3>1, <3>2, <3>3
    <2>3. CASE x # w /\ y # w
      BY <1>4, <2>3 DEF AssessInv, Covered
    <2> QED
      BY <2>1, <2>2, <2>3
  <1> QED
    BY <1>1, <1>2, <1>3, <1>5, <1>6 DEF AssessInv

(* The moves that neither take the file's lock nor hold it, nor answer.     *)
LEMMA Steps ==
    ASSUME AssessInv, NEW w \in Writers, NEW c \in Calls,
           call' = [call EXCEPT ![w] = c], archived' \in BOOLEAN,
           UNCHANGED <<rows, file, published, sealed>>, Sound(c),
           c.at \notin {"fold", "publish", "projected"},
           flock' = flock \/ flock = w
    PROVE  AssessInv'
  <1>1. Holding(w, c)' /\ Told(c)
    BY DEF Holding, Told
  <1>2. \A u \in Writers \ {w} : flock = u => flock' = u
    OBVIOUS
  <1> QED
    BY <1>1, <1>2, CallMoves

(* A call whose stage changes, and nothing else of it.                      *)
LEMMA Stages ==
    ASSUME AssessInv, NEW w \in Writers, NEW label \in Labels,
           Assess!Goto(w, label), archived' \in BOOLEAN,
           UNCHANGED <<rows, file, published, sealed>>,
           flock' = flock \/ flock = w,
           call[w].at \notin {"new", "lost"},
           label \notin {"enter", "fold", "publish", "projected"},
           label = "project" => call[w].at = "enter"
    PROVE  AssessInv'
  <1>1. PICK c \in Calls : c = call[w] /\ Sound(c)
    BY InCall
  <1>2. PICK new : new = [c EXCEPT !.at = label]
    OBVIOUS
  <1>3. new \in Calls /\ call' = [call EXCEPT ![w] = new]
    BY <1>1, <1>2 DEF Calls, Assess!Goto
  <1>4. Sound(new) /\ new.at = label
    BY <1>1, <1>2 DEF Calls, Sound, Assess!Same
  <1> QED
    BY <1>3, <1>4, Steps

(* A replay is answered with the row of the same submission.                *)
LEMMA ReplayHolds ==
    ASSUME AssessInv, NEW w \in Writers, Assess!Replay(w),
           UNCHANGED <<rows, archived, file, published, sealed, flock>>,
           call[w].at \notin {"new", "lost"}
    PROVE  AssessInv'
  <1>1. PICK c \in Calls : c = call[w] /\ Sound(c)
    BY InCall
  <1>2. archived' \in BOOLEAN
    BY DEF AssessInv, AssessTypes
  <1>3. PICK i \in Assess!Known(c.key) :
            \/ /\ Assess!Same(rows[i], c)
               /\ call' = [call EXCEPT ![w].at = "project", ![w].id = i,
                                       ![w].then = "answered"]
            \/ Assess!Refuse(w)
    BY <1>1 DEF Assess!Replay
  <1>4. CASE Assess!Refuse(w)
    BY <1>2, <1>4, Stages DEF Assess!Refuse, Labels
  <1>5. CASE /\ Assess!Same(rows[i], c)
             /\ call' = [call EXCEPT ![w].at = "project", ![w].id = i,
                                     ![w].then = "answered"]
    <2>1. PICK new : new = [c EXCEPT !.at = "project", !.id = i, !.then = "answered"]
      OBVIOUS
    <2>2. i \in Assess!Ids(rows) /\ rows[i].key = c.key /\ i \in Nat /\ i # 0
      BY DEF Assess!Known, Assess!Ids
    <2>3. new \in Calls /\ call' = [call EXCEPT ![w] = new]
      BY <1>1, <1>5, <2>1, <2>2 DEF Calls, Labels, AssessInv, AssessTypes
    <2>4. Sound(new) /\ new.at = "project"
      BY <1>1, <1>5, <2>1, <2>2 DEF Calls, Sound, Assess!Same
    <2> QED
      BY <1>2, <2>3, <2>4, Steps
  <1> QED
    BY <1>3, <1>4, <1>5

LEMMA SubmitHolds ==
    ASSUME AssessInv, NEW w \in Writers, Assess!Submit(w) PROVE AssessInv'
  <1>1. PICK p \in Processes, k \in SubmitKeys, s \in Summaries \cup Verdicts,
             from \in Assess!Sittings \cup {Assess!Owner},
             target \in {0} \cup Assess!Ids(rows) :
          /\ Assess!WellFormed(s, target)
          /\ call' = [call EXCEPT ![w] =
                        [Assess!NewCall EXCEPT !.at = "token", !.by = p, !.key = k,
                           !.kind = s.kind, !.on = s.on, !.from = from,
                           !.supersedes = target, !.stale = archived]]
    BY DEF Assess!Submit
  <1>2. PICK new : new = [Assess!NewCall EXCEPT !.at = "token", !.by = p, !.key = k,
                            !.kind = s.kind, !.on = s.on, !.from = from,
                            !.supersedes = target, !.stale = archived]
    OBVIOUS
  <1>3. archived \in BOOLEAN /\ UNCHANGED <<rows, archived, file, published, sealed, flock>>
    BY DEF AssessInv, AssessTypes, Assess!Submit, Assess!DB, Assess!Bundle, Assess!Locks
  <1>4. s.kind \in Kinds /\ s.on \in {0, 1} /\ target \in Nat
    BY DEF Summaries, Verdicts, Kinds, Assess!Ids
  <1>5. new \in Calls /\ Sound(new) /\ new.at = "token"
    <2>1. Assess!NewCall \in Calls /\ Assess!NewCall.id = 0
      BY DEF Assess!NewCall, Calls, Labels, Assess!Owner, Assess!Sittings, Kinds
    <2>2. new \in Calls /\ new.at = "token" /\ new.id = 0
      BY <1>2, <1>3, <1>4, <2>1 DEF Calls, Labels
    <2>3. new.by = p /\ new.key = k /\ new.kind = s.kind
      BY <1>2, <2>1 DEF Calls
    <2> QED
      BY <1>4, <2>2, <2>3 DEF Sound
  <1> QED
    BY <1>1, <1>2, <1>3, <1>5, Steps

LEMMA ResolveHolds ==
    ASSUME AssessInv, NEW w \in Writers, Assess!Resolve(w) PROVE AssessInv'
  <1>1. PICK c \in Calls : c = call[w] /\ Sound(c) /\ c.at = "token"
    BY InCall DEF Assess!Resolve
  <1>2. /\ archived' \in BOOLEAN
        /\ UNCHANGED <<rows, archived, file, published, sealed, flock>>
    BY DEF AssessInv, AssessTypes, Assess!Resolve, Assess!DB, Assess!Bundle, Assess!Locks
  <1>3. CASE Assess!Refuse(w) \/ Assess!Goto(w, "lookup")
    BY <1>1, <1>2, <1>3, Stages DEF Assess!Refuse, Labels
  <1>4. CASE call' = [call EXCEPT ![w].at = "enter", ![w].then = "lookup"]
    <2>1. PICK new : new = [c EXCEPT !.at = "enter", !.then = "lookup"]
      OBVIOUS
    <2>2. new \in Calls /\ call' = [call EXCEPT ![w] = new]
      BY <1>1, <1>4, <2>1 DEF Calls, Labels, AssessInv, AssessTypes
    <2>3. Sound(new) /\ new.at = "enter"
      BY <1>1, <2>1 DEF Calls, Sound, Assess!Same
    <2> QED
      BY <1>2, <2>2, <2>3, Steps
  <1> QED
    BY <1>3, <1>4 DEF Assess!Resolve

LEMMA LooksHold ==
    ASSUME AssessInv, NEW w \in Writers,
           \/ Assess!Enter(w) \/ Assess!Lookup(w) \/ Assess!Validate(w)
           \/ Assess!Recheck(w) \/ Assess!Relookup(w)
    PROVE  AssessInv'
  <1>1. /\ archived' \in BOOLEAN
        /\ UNCHANGED <<rows, archived, file, published, sealed, flock>>
    BY DEF AssessInv, AssessTypes, Assess!Enter, Assess!Lookup, Assess!Validate,
           Assess!Recheck, Assess!Relookup, Assess!DB, Assess!Bundle, Assess!Locks
  <1>2. call[w].at \in {"enter", "lookup", "validate", "recheck", "relookup"}
    BY DEF Assess!Enter, Assess!Lookup, Assess!Validate, Assess!Recheck, Assess!Relookup
  <1>3. \/ Assess!Replay(w)
        \/ Assess!Goto(w, "project") /\ call[w].at = "enter"
        \/ \E label \in {"validate", "recheck", "relookup", "insert", "refused"} :
              Assess!Goto(w, label)
    BY DEF Assess!Enter, Assess!Lookup, Assess!Validate, Assess!Recheck, Assess!Relookup,
           Assess!Refuse
  <1>4. CASE Assess!Goto(w, "project") /\ call[w].at = "enter"
    BY <1>1, <1>4, Stages DEF Labels
  <1>5. ASSUME NEW label \in {"validate", "recheck", "relookup", "insert", "refused"},
               Assess!Goto(w, label)
        PROVE  AssessInv'
    <2>1. label \in Labels
      BY DEF Labels
    <2> QED
      BY <1>1, <1>2, <1>5, <2>1, Stages
  <1> QED
    BY <1>1, <1>2, <1>3, <1>4, <1>5, ReplayHolds

(* What an insertion does to the summaries that stand: with the slot free,  *)
(* the new row is the only one.                                             *)
LEMMA SlotKept ==
    ASSUME AssessInv, NEW c \in Calls, c.kind \in Kinds, c.key \in SubmitKeys,
           Assess!SlotFree(c), ~Assess!Taken(c),
           rows' = Append(rows, Assess!RowOf(c))
    PROVE  TableStands'
  <1>1. PICK e : e = Assess!RowOf(c)
    OBVIOUS
  <1>2. /\ e \in History /\ e.key = c.key /\ e.kind = c.kind /\ e.from = c.from
        /\ e.supersedes = c.supersedes
    BY <1>1 DEF Assess!RowOf, History, Calls
  <1>3. PICK n \in Nat : n = Len(rows)
    BY DEF AssessInv, AssessTypes
  <1>4. PICK k \in Nat : k = n + 1
    OBVIOUS
  <1>5. /\ Assess!Ids(rows) = 1 .. n /\ Assess!Ids(rows)' = 1 .. k
        /\ \A i \in 1 .. n : rows'[i] = rows[i]
        /\ rows'[k] = e
    BY <1>1, <1>2, <1>3, <1>4 DEF AssessInv, AssessTypes, Assess!Ids
  <1>6. \A i, j \in 1 .. k : rows'[i].key = rows'[j].key => i = j
    BY <1>2, <1>3, <1>4, <1>5 DEF AssessInv, TableStands, Assess!Taken, Assess!Known
  <1>7. ASSUME NEW s \in Assess!Sittings,
               NEW i \in Assess!Standing(s)', NEW j \in Assess!Standing(s)'
        PROVE  i = j
    <2>1. \A x \in Assess!Standing(s)' \ {k} :
              x \in Assess!Standing(s) /\ x # c.supersedes
      <3>1. SUFFICES ASSUME NEW x \in Assess!Standing(s)', x # k
                     PROVE  x \in Assess!Standing(s) /\ x # c.supersedes
        OBVIOUS
      <3>2. /\ x \in Assess!Ids(rows)' /\ \A y \in Assess!Ids(rows)' : rows'[y].supersedes # x
            /\ rows'[x].kind = "summary" /\ rows'[x].from = s
        BY <3>1 DEF Assess!Standing, Assess!Active
      <3>a. x \in 1 .. k
        BY <1>5, <3>2
      <3>b. x \in 1 .. n
        BY <1>4, <3>1, <3>a
      <3>3. x \in 1 .. n /\ rows'[x] = rows[x]
        BY <1>5, <3>b
      <3>4. k \in 1 .. k /\ 1 .. n \subseteq 1 .. k
        BY <1>4
      <3>5. rows'[k].supersedes # x /\ \A y \in 1 .. n : rows[y].supersedes # x
        BY <1>5, <3>2, <3>4
      <3> QED
        BY <1>2, <1>5, <3>2, <3>3, <3>5 DEF Assess!Standing, Assess!Active
    <2>2. k \in Assess!Standing(s)' => c.kind = "summary" /\ c.from = s
      BY <1>2, <1>5 DEF Assess!Standing
    <2>3. \A x, y \in Assess!Standing(s) : x = y
      BY DEF AssessInv, TableStands
    <2>4. CASE k \notin Assess!Standing(s)'
      BY <2>1, <2>3, <2>4
    <2>5. CASE k \in Assess!Standing(s)'
      <3>1. c.from # Assess!Owner
        BY <2>2, <2>5 DEF Assess!Sittings, Assess!Owner
      <3>2. \A x \in Assess!Standing(s) : x = c.supersedes
        <4>1. SUFFICES ASSUME NEW x \in Assess!Standing(s) PROVE x = c.supersedes
          OBVIOUS
        <4>2. c.supersedes = Assess!Max(Assess!Standing(s))
          BY <2>2, <2>5, <3>1, <4>1 DEF Assess!SlotFree
        <4>3. x \in Nat
          BY <1>5 DEF Assess!Standing, Assess!Active
        <4>4. Assess!Max(Assess!Standing(s)) \in Assess!Standing(s)
          <5>1. \A y \in Assess!Standing(s) : x >= y
            BY <2>3, <4>3
          <5> QED
            BY <4>1, <5>1 DEF Assess!Max
        <4> QED
          BY <2>3, <4>2, <4>4
      <3> QED
        BY <2>1, <3>2
    <2> QED
      BY <2>4, <2>5
  <1> QED
    BY <1>5, <1>6, <1>7 DEF TableStands

LEMMA InsertHolds ==
    ASSUME AssessInv, NEW w \in Writers, Assess!Insert(w) PROVE AssessInv'
  <1>1. PICK c \in Calls : c = call[w] /\ Sound(c) /\ c.at = "insert"
    BY InCall DEF Assess!Insert
  <1>2. UNCHANGED <<archived, file, published, sealed, flock>> /\ archived \in BOOLEAN
    BY DEF AssessInv, AssessTypes, Assess!Insert, Assess!Bundle
  <1>3. CASE Assess!Refuse(w) /\ UNCHANGED rows
    BY <1>1, <1>2, <1>3, Stages DEF Assess!Refuse, Labels
  <1>4. CASE Assess!Replay(w) /\ UNCHANGED rows
    BY <1>1, <1>2, <1>4, ReplayHolds
  <1>5. CASE /\ Assess!SlotFree(c) /\ ~Assess!Taken(c)
             /\ rows' = Append(rows, Assess!RowOf(c))
             /\ call' = [call EXCEPT ![w].at = "project", ![w].id = Len(rows) + 1,
                                     ![w].then = "answered"]
    <2>1. PICK e : e = Assess!RowOf(c)
      OBVIOUS
    <2>2. c.kind \in Kinds /\ c.key \in SubmitKeys
      BY <1>1 DEF Sound
    <2>3. /\ e \in History /\ e.key = c.key /\ e.kind = c.kind /\ e.on = c.on
          /\ e.supersedes = c.supersedes
      BY <2>1, <2>2 DEF Assess!RowOf, History, Calls
    <2>4. PICK n \in Nat : n = Len(rows)
      BY DEF AssessInv, AssessTypes
    <2>5. PICK k \in Nat : k = n + 1
      OBVIOUS
    <2>6. rows \in Seq(History)
      BY DEF AssessInv, AssessTypes
    <2>7. /\ rows' \in Seq(History) /\ Len(rows') = k
          /\ Assess!Ids(rows) = 1 .. n /\ Assess!Ids(rows)' = 1 .. k
          /\ \A i \in 1 .. n : rows'[i] = rows[i]
          /\ rows'[k] = e
          /\ \A m \in Nat : m <= n => SubSeq(rows', 1, m) = SubSeq(rows, 1, m)
      BY <1>5, <2>1, <2>3, <2>4, <2>5, <2>6, VersionsStay DEF Assess!Ids
    <2>8. PICK new : new = [c EXCEPT !.at = "project", !.id = k, !.then = "answered"]
      OBVIOUS
    <2>9. new \in Calls /\ call' = [call EXCEPT ![w] = new]
      BY <1>1, <1>5, <2>4, <2>5, <2>8 DEF Calls, Labels, AssessInv, AssessTypes
    <2>10. call'[w] = new /\ \A u \in Writers \ {w} : call'[u] = call[u]
      BY <2>9 DEF AssessInv, AssessTypes
    <2>11. AssessTypes'
      BY <1>2, <2>7, <2>9 DEF AssessInv, AssessTypes
    <2>12. TableStands'
      BY <1>5, <2>2, SlotKept
    <2>13. FileStands'
      <3>1. PICK m \in Nat : m = file.asOf /\ m <= n
        BY <2>4 DEF AssessInv, AssessTypes, FileStands
      <3>2. SubSeq(rows', 1, m) = SubSeq(rows, 1, m) /\ m <= k
        BY <2>4, <2>5, <2>7, <3>1
      <3>3. Assess!FileIsAFold'
        BY <1>2, <3>1, <3>2 DEF AssessInv, FileStands, Assess!FileIsAFold
      <3> QED
        BY <1>2, <2>7, <3>1, <3>2, <3>3 DEF AssessInv, FileStands
    <2>14. ASSUME NEW u \in Writers
           PROVE  (Sound(call[u]) /\ Holding(u, call[u]) /\ Told(call[u]))'
      <3>1. CASE u = w
        <4>1. /\ new.at = "project" /\ new.id = k /\ new.key = c.key /\ new.kind = c.kind
              /\ new.on = c.on /\ new.supersedes = c.supersedes /\ new.by = c.by
          BY <2>8 DEF Calls
        <4>2. c.by \in Processes
          BY <1>1 DEF Sound
        <4> QED
          BY <2>2, <2>3, <2>5, <2>7, <2>10, <3>1, <4>1, <4>2
             DEF Sound, Holding, Told, Assess!Same
      <3>2. CASE u # w
        <4>1. PICK d \in Calls : /\ d = call[u] /\ d = call'[u]
                                 /\ Sound(d) /\ Holding(u, d) /\ Told(d)
          BY <2>10, <3>2, InCall
        <4>2. Sound(d)'
          BY <2>4, <2>5, <2>7, <4>1 DEF Sound, Assess!Same
        <4>3. Holding(u, d)'
          <5>1. PICK m \in Nat : m = d.asOf
            BY DEF Calls
          <5>2. d.at = "publish" => SubSeq(rows', 1, m) = SubSeq(rows, 1, m) /\ m <= k
            BY <2>4, <2>5, <2>7, <4>1, <5>1 DEF Holding
          <5> QED
            BY <1>2, <2>7, <4>1, <5>1, <5>2 DEF Holding
        <4>4. Told(d)'
          BY <1>2, <4>1 DEF Told
        <4> QED
          BY <4>1, <4>2, <4>3, <4>4 DEF Sound, Holding, Told
      <3> QED
        BY <3>1, <3>2
    <2>15. Covered'
      <3>1. new.at = "project"
        BY <2>8 DEF Calls
      <3>2. \A u \in Writers : call'[u].at \in {"projected", "publish"} => call'[u] = call[u]
        BY <2>10, <3>1
      <3> QED
        BY <3>2 DEF AssessInv, Covered
    <2> QED
      BY <2>11, <2>12, <2>13, <2>14, <2>15 DEF AssessInv
  <1> QED
    BY <1>1, <1>3, <1>4, <1>5 DEF Assess!Insert

LEMMA SealHolds ==
    ASSUME Assess!AssessmentsAssumption, AssessInv, NEW w \in Writers, Assess!Seal(w)
    PROVE  AssessInv'
  <1>1. PICK c \in Calls : c = call[w] /\ Sound(c) /\ c.at = "project"
    BY InCall DEF Assess!Seal
  <1>2. UNCHANGED <<rows, archived, file, published, sealed>> /\ archived' \in BOOLEAN
    BY DEF AssessInv, AssessTypes, Assess!Seal, Assess!Bundle, Assess!DB
  <1>3. CASE Assess!Leave(w, FALSE)
    <2>1. flock' = flock \/ flock = w
      BY <1>3 DEF Assess!Leave
    <2>2. PICK label \in {"lookup", "pending"} : Assess!Goto(w, label)
      BY <1>3 DEF Assess!Leave, Assess!After
    <2> QED
      BY <1>1, <1>2, <2>1, <2>2, Stages DEF Labels
  <1>4. CASE /\ flock = Assess!NoOne /\ flock' = w
             /\ call' = [call EXCEPT ![w].at = "fold", ![w].edited = FALSE,
                           ![w].already = IF Assess!Untouched(c.by)
                                          THEN published[c.by] ELSE -1]
    <2>1. c.by \in Processes
      BY <1>1 DEF Sound
    <2>2. PICK m \in Int : m = IF Assess!Untouched(c.by) THEN published[c.by] ELSE -1
      BY <2>1 DEF AssessInv, AssessTypes
    <2>3. PICK new : new = [c EXCEPT !.at = "fold", !.edited = FALSE, !.already = m]
      OBVIOUS
    <2>a. new \in Calls
      <3>1. PICK x : x = [c EXCEPT !.at = "fold", !.already = m]
        OBVIOUS
      <3>2. x \in Calls
        BY <2>2, <3>1 DEF Calls, Labels
      <3>3. new = [x EXCEPT !.edited = FALSE]
        BY <2>3, <3>1 DEF Calls
      <3> QED
        BY <3>2, <3>3 DEF Calls
    <2>b. call' = [call EXCEPT ![w].at = "fold", ![w].edited = FALSE, ![w].already = m]
      BY <1>4, <2>2
    <2>4. new \in Calls /\ call' = [call EXCEPT ![w] = new]
      BY <1>1, <2>3, <2>a, <2>b DEF AssessInv, AssessTypes
    <2>5. Sound(new) /\ new.at = "fold" /\ new.already = m
      BY <1>1, <2>3 DEF Calls, Sound, Assess!Same
    <2>6. m # -1 => file.here /\ 0 \notin file.lines /\ file.asOf = m
      BY <2>2 DEF Assess!Untouched, AssessInv, FileStands
    <2>7. Holding(w, new)' /\ Told(new)
      BY <1>2, <1>4, <2>5, <2>6 DEF Holding, Told
    <2>8. \A u \in Writers \ {w} : flock = u => flock' = u
      BY <1>4 DEF Assess!AssessmentsAssumption, Assess!NoOne
    <2> QED
      BY <1>2, <2>4, <2>5, <2>7, <2>8, CallMoves
  <1> QED
    BY <1>1, <1>3, <1>4 DEF Assess!Seal

(* A holder of the lock that lets it go is the only one that held it.       *)
LEMMA Leaves ==
    ASSUME AssessInv, NEW w \in Writers, NEW ok \in BOOLEAN, Assess!Leave(w, ok),
           UNCHANGED <<rows, archived, file, published, sealed>>,
           call[w].at \in {"fold", "publish"},
           ok => \/ call[w].then = "lookup"
                 \/ call[w].edited
                 \/ file.here /\ file.asOf >= call[w].id /\ 0 \notin file.lines
    PROVE  AssessInv'
  <1>1. PICK c \in Calls : c = call[w] /\ Sound(c) /\ c.at \in {"fold", "publish"} /\ flock = w
    BY InCall DEF Holding
  <1>2. archived' \in BOOLEAN
    BY DEF AssessInv, AssessTypes
  <1>3. PICK label \in {"lookup", "projected", "pending"} :
            /\ Assess!Goto(w, label)
            /\ label = "projected" => ok /\ c.then # "lookup"
    BY <1>1 DEF Assess!Leave, Assess!After
  <1>4. PICK new : new = [c EXCEPT !.at = label]
    OBVIOUS
  <1>5. new \in Calls /\ call' = [call EXCEPT ![w] = new]
    BY <1>1, <1>3, <1>4 DEF Calls, Labels, Assess!Goto
  <1>6. Sound(new) /\ new.at = label
    BY <1>1, <1>4 DEF Calls, Sound, Assess!Same
  <1>7. Holding(w, new)' /\ Told(new)
    BY <1>1, <1>3, <1>4, <1>6 DEF Holding, Told, Calls
  <1>8. \A u \in Writers \ {w} : call[u].at # "publish" /\ (flock = u => flock' = u)
    BY <1>1 DEF AssessInv, Holding
  <1> QED
    BY <1>1, <1>2, <1>3, <1>5, <1>6, <1>7, <1>8, CallMoves

LEMMA SnapshotHolds ==
    ASSUME AssessInv, NEW w \in Writers, Assess!Snapshot(w) PROVE AssessInv'
  <1>1. PICK c \in Calls : /\ c = call[w] /\ Sound(c) /\ Holding(w, c)
                           /\ c.at = "fold" /\ flock = w
    BY InCall DEF Assess!Snapshot, Holding
  <1>2. UNCHANGED <<rows, archived, file, published, sealed>> /\ archived' \in BOOLEAN
    BY DEF AssessInv, AssessTypes, Assess!Snapshot, Assess!Bundle, Assess!DB
  <1>3. PICK n \in Nat : n = Len(rows) /\ n = Assess!Watermark(rows) /\ rows \in Seq(History)
    BY InCall DEF Assess!Watermark
  <1>4. c.id <= n /\ (c.id # 0 => rows # <<>>) /\ (c.then = "lookup" \/ c.id # 0)
    <2>1. c.id \in Nat /\ (c.then = "lookup" \/ c.id # 0)
      BY <1>1 DEF Sound, Calls
    <2>2. c.id # 0 => c.id \in 1 .. n
      BY <1>1, <1>3 DEF Sound, Assess!Ids
    <2>3. rows = <<>> => n = 0
      BY <1>3
    <2> QED
      BY <2>1, <2>2, <2>3
  <1>5. CASE /\ Assess!Leave(w, TRUE)
             /\ n = c.already \/ (rows = <<>> /\ ~file.here)
    <2>1. CASE rows = <<>> /\ ~file.here
      <3>1. c.then = "lookup"
        BY <1>4, <2>1
      <3> QED
        BY <1>1, <1>2, <1>5, <3>1, Leaves
    <2>2. CASE n = c.already
      <3>1. c.already # -1
        BY <2>2
      <3>2. c.edited \/ (file.here /\ 0 \notin file.lines /\ file.asOf = n)
        BY <1>1, <2>2, <3>1 DEF Holding
      <3>3. c.edited \/ (file.here /\ 0 \notin file.lines /\ file.asOf >= c.id)
        BY <1>4, <3>2
      <3> QED
        BY <1>1, <1>2, <1>5, <3>3, Leaves
    <2> QED
      BY <1>5, <2>1, <2>2
  <1>6. CASE Assess!Leave(w, FALSE)
    BY <1>1, <1>2, <1>6, Leaves
  <1>7. CASE /\ call' = [call EXCEPT ![w].at = "publish", ![w].lines = Assess!Fold(rows),
                                     ![w].asOf = n]
             /\ flock' = flock
    <2>1. PICK fold \in SUBSET Nat :
             fold = Assess!Fold(rows) /\ 0 \notin fold /\ fold = Assess!Fold(SubSeq(rows, 1, n))
      BY <1>3, FoldOfIds
    <2>2. PICK new : new = [c EXCEPT !.at = "publish", !.lines = fold, !.asOf = n]
      OBVIOUS
    <2>3. new \in Calls
      BY <1>3, <2>1, <2>2 DEF Calls, Labels
    <2>4. call' = [call EXCEPT ![w] = new]
      BY <1>1, <1>7, <2>1, <2>2 DEF AssessInv, AssessTypes
    <2>5. /\ Sound(new) /\ new.at = "publish" /\ new.asOf = n /\ new.lines = fold
          /\ new.id = c.id
      BY <1>1, <2>2 DEF Calls, Sound, Assess!Same
    <2>6. Holding(w, new)' /\ Told(new)
      BY <1>1, <1>2, <1>3, <1>4, <1>7, <2>1, <2>5 DEF Holding, Told
    <2> QED
      BY <1>2, <1>3, <1>7, <2>3, <2>4, <2>5, <2>6, CallMoves
  <1> QED
    BY <1>1, <1>3, <1>5, <1>6, <1>7 DEF Assess!Snapshot, Assess!Locks

(* Publishing covers everybody who was told, and nobody else holds the lock.*)
LEMMA PublishHolds ==
    ASSUME AssessInv, NEW w \in Writers, Assess!Publish(w) PROVE AssessInv'
  <1>1. PICK c \in Calls : /\ c = call[w] /\ Sound(c) /\ Holding(w, c)
                           /\ c.at = "publish" /\ flock = w
    BY InCall DEF Assess!Publish, Holding
  <1>2. /\ UNCHANGED <<rows, archived>>
        /\ file' = [here |-> TRUE, asOf |-> c.asOf, lines |-> c.lines]
        /\ published' = [published EXCEPT ![c.by] = c.asOf] /\ sealed' = {c.by}
        /\ Assess!Leave(w, TRUE)
    BY <1>1 DEF Assess!Publish, Assess!Rendered, Assess!DB
  <1>3. PICK label \in {"lookup", "projected"} : Assess!Goto(w, label)
    BY <1>2 DEF Assess!Leave, Assess!After
  <1>4. PICK new : new = [c EXCEPT !.at = label]
    OBVIOUS
  <1>5. new \in Calls /\ call' = [call EXCEPT ![w] = new]
    BY <1>1, <1>3, <1>4 DEF Calls, Labels, Assess!Goto
  <1>6. Sound(new) /\ new.at = label /\ new.id = c.id
    BY <1>1, <1>4 DEF Calls, Sound, Assess!Same
  <1>7. /\ c.asOf \in Nat /\ c.lines \in SUBSET Nat /\ c.by \in Processes /\ c.id \in Nat
        /\ c.lines = Assess!Fold(SubSeq(rows, 1, c.asOf))
        /\ c.asOf <= Len(rows) /\ c.id <= c.asOf /\ 0 \notin c.lines
    BY <1>1 DEF Calls, Holding, Sound
  <1>8. /\ file'.here /\ file'.asOf = c.asOf /\ file'.lines = c.lines
        /\ published'[c.by] = c.asOf
    BY <1>2, <1>7 DEF AssessInv, AssessTypes
  <1>9. AssessTypes'
    BY <1>2, <1>5, <1>7 DEF AssessInv, AssessTypes
  <1>10. TableStands'
    BY <1>2 DEF AssessInv, TableStands, Assess!Standing, Assess!Active, Assess!Ids
  <1>11. FileStands'
    BY <1>2, <1>7, <1>8 DEF FileStands, Assess!FileIsAFold
  <1>12. call'[w] = new /\ \A u \in Writers \ {w} : call'[u] = call[u]
    BY <1>5 DEF AssessInv, AssessTypes
  <1>13. ASSUME NEW u \in Writers
         PROVE  (Sound(call[u]) /\ Holding(u, call[u]) /\ Told(call[u]))'
    <2>1. PICK d \in Calls : d = call'[u] /\ Sound(d) /\ d.at \notin {"fold", "publish"}
      BY <1>1, <1>5, <1>6, <1>12, InCall DEF Holding
    <2>2. d.at = "projected" => d.id <= c.asOf
      BY <1>1, <1>6, <1>7, <1>12, <2>1 DEF AssessInv, Covered
    <2>3. Sound(d)'
      BY <1>2, <2>1 DEF Sound, Assess!Ids, Assess!Same
    <2>4. Holding(u, d)' /\ Told(d)'
      BY <1>7, <1>8, <2>1, <2>2 DEF Holding, Told, Calls
    <2> QED
      BY <2>1, <2>3, <2>4 DEF Sound, Holding, Told
  <1>14. Covered'
    <2>1. \A u \in Writers : call'[u].at # "publish"
      BY <1>1, <1>6, <1>12, InCall DEF Holding
    <2> QED
      BY <2>1 DEF Covered
  <1> QED
    BY <1>9, <1>10, <1>11, <1>13, <1>14 DEF AssessInv

(* What an outsider does to the file is marked on every call.               *)
LEMMA EditHolds ==
    ASSUME AssessInv, Assess!EditFile PROVE AssessInv'
  <1>1. /\ UNCHANGED <<rows, archived, published, flock>> /\ sealed' = {}
        /\ call' = [w \in Writers |-> [call[w] EXCEPT !.edited = TRUE]]
        /\ file' \in {Assess!Absent, [here |-> TRUE, asOf |-> 0, lines |-> {0}]}
    BY DEF Assess!EditFile, Assess!DB, Assess!Locks
  <1>2. /\ file' \in [here : BOOLEAN, asOf : Nat, lines : SUBSET Nat]
        /\ file'.asOf = 0 /\ (file'.here => 0 \in file'.lines)
    <2>1. Assess!Absent \in [here : BOOLEAN, asOf : Nat, lines : SUBSET Nat]
      BY DEF Assess!Absent
    <2>2. [here |-> TRUE, asOf |-> 0, lines |-> {0}]
            \in [here : BOOLEAN, asOf : Nat, lines : SUBSET Nat]
      OBVIOUS
    <2>3. Assess!Absent.asOf = 0 /\ ~Assess!Absent.here
      BY DEF Assess!Absent
    <2>4. file' = Assess!Absent \/ file' = [here |-> TRUE, asOf |-> 0, lines |-> {0}]
      BY <1>1
    <2>5. file' = [here |-> TRUE, asOf |-> 0, lines |-> {0}] =>
              file'.asOf = 0 /\ 0 \in file'.lines
      OBVIOUS
    <2> QED
      BY <2>1, <2>2, <2>3, <2>4, <2>5
  <1>3. ASSUME NEW w \in Writers
        PROVE  \E d \in Calls : /\ d = call'[w] /\ d.at = call[w].at /\ d.id = call[w].id
                                /\ d.asOf = call[w].asOf
                                /\ Sound(d)' /\ Holding(w, d)' /\ Told(d)'
    <2>1. PICK c \in Calls : c = call[w] /\ Sound(c) /\ Holding(w, c)
      BY InCall
    <2>2. PICK d : d = [c EXCEPT !.edited = TRUE]
      OBVIOUS
    <2>3. d \in Calls /\ d = call'[w] /\ d.edited
      BY <1>1, <2>1, <2>2 DEF Calls
    <2>4. /\ d.at = c.at /\ d.id = c.id /\ d.asOf = c.asOf /\ d.key = c.key /\ d.kind = c.kind
          /\ d.on = c.on /\ d.supersedes = c.supersedes /\ d.by = c.by /\ d.then = c.then
          /\ d.lines = c.lines
      BY <2>2 DEF Calls
    <2>5. Sound(d)' /\ Holding(w, d)' /\ Told(d)'
      BY <1>1, <2>1, <2>3, <2>4 DEF Sound, Holding, Told, Assess!Ids, Assess!Same
    <2> QED
      BY <2>1, <2>3, <2>4, <2>5
  <1>4. AssessTypes'
    <2>1. \A w \in Writers : [call[w] EXCEPT !.edited = TRUE] \in Calls
      BY InCall DEF Calls
    <2>2. call' \in [Writers -> Calls]
      BY <1>1, <2>1
    <2> QED
      BY <1>1, <1>2, <2>2 DEF AssessInv, AssessTypes
  <1>5. TableStands'
    BY <1>1 DEF AssessInv, TableStands, Assess!Standing, Assess!Active, Assess!Ids
  <1>6. FileStands'
    <2>1. Len(rows) \in Nat
      BY DEF AssessInv, AssessTypes
    <2> QED
      BY <1>1, <1>2, <2>1 DEF FileStands, Assess!FileIsAFold
  <1>7. Covered'
    BY <1>3 DEF AssessInv, Covered
  <1>8. \A w \in Writers : (Sound(call[w]) /\ Holding(w, call[w]) /\ Told(call[w]))'
    BY <1>3 DEF Sound, Holding, Told
  <1> QED
    BY <1>4, <1>5, <1>6, <1>7, <1>8 DEF AssessInv

(* A process that is restarted takes its calls and its stamp with it.       *)
LEMMA RestartHolds ==
    ASSUME AssessInv, NEW p \in Processes, Assess!Restart(p) PROVE AssessInv'
  <1>1. PICK lost : lost = [Assess!NewCall EXCEPT !.at = "lost"]
    OBVIOUS
  <1>2. /\ UNCHANGED <<rows, archived, file>>
        /\ published' = [published EXCEPT ![p] = -1] /\ sealed' = sealed \ {p}
        /\ flock' = IF flock # Assess!NoOne /\ call[flock].by = p
                    THEN Assess!NoOne ELSE flock
        /\ call' = [w \in Writers |->
                      IF call[w].by = p
                         /\ call[w].at \notin {"projected", "pending", "refused"}
                      THEN lost ELSE call[w]]
    BY <1>1 DEF Assess!Restart, Assess!DB
  <1>3. lost \in Calls /\ lost.at = "lost" /\ lost.id = 0
    <2>1. Assess!NewCall \in Calls /\ Assess!NewCall.id = 0
      BY DEF Assess!NewCall, Calls, Labels, Assess!Owner, Assess!Sittings, Kinds
    <2> QED
      BY <1>1, <2>1 DEF Calls, Labels
  <1>4. ASSUME NEW w \in Writers
        PROVE  call'[w] = lost \/ (call'[w] = call[w] /\ (flock = w => flock' = w
                                     \/ call[w].at \in {"projected", "pending", "refused"}))
    BY <1>2
  <1>5. ASSUME NEW w \in Writers
        PROVE  \E d \in Calls : /\ d = call'[w] /\ (d = lost \/ d = call[w])
                                /\ Sound(d)' /\ Holding(w, d)' /\ Told(d)'
    <2>1. CASE call'[w] = lost
      <3>1. Sound(lost)' /\ Holding(w, lost)' /\ Told(lost)'
        BY <1>3 DEF Sound, Holding, Told
      <3> QED
        BY <1>3, <2>1, <3>1
    <2>2. CASE call'[w] # lost
      <3>1. PICK c \in Calls : c = call[w] /\ Sound(c) /\ Holding(w, c) /\ Told(c)
        BY InCall
      <3>2. /\ c = call'[w]
            /\ flock = w => flock' = w \/ c.at \in {"projected", "pending", "refused"}
        BY <1>4, <2>2, <3>1
      <3>3. Sound(c)' /\ Told(c)'
        BY <1>2, <3>1 DEF Sound, Told, Assess!Ids, Assess!Same
      <3>4. Holding(w, c)'
        BY <1>2, <3>1, <3>2 DEF Holding
      <3> QED
        BY <3>1, <3>2, <3>3, <3>4
    <2> QED
      BY <2>1, <2>2
  <1>6. AssessTypes'
    <2>1. call' \in [Writers -> Calls]
      BY <1>2, <1>3 DEF AssessInv, AssessTypes
    <2>2. published' \in [Processes -> Int] /\ sealed' \subseteq Processes
      BY <1>2 DEF AssessInv, AssessTypes
    <2> QED
      BY <1>2, <2>1, <2>2 DEF AssessInv, AssessTypes
  <1>7. TableStands'
    BY <1>2 DEF AssessInv, TableStands, Assess!Standing, Assess!Active, Assess!Ids
  <1>8. FileStands'
    <2>1. \A q \in sealed' : q \in sealed /\ published'[q] = published[q]
      BY <1>2 DEF AssessInv, AssessTypes
    <2> QED
      BY <1>2, <2>1 DEF AssessInv, FileStands, Assess!FileIsAFold
  <1>9. Covered'
    BY <1>3, <1>5 DEF AssessInv, Covered
  <1>10. \A w \in Writers : (Sound(call[w]) /\ Holding(w, call[w]) /\ Told(call[w]))'
    BY <1>5 DEF Sound, Holding, Told
  <1> QED
    BY <1>6, <1>7, <1>8, <1>9, <1>10 DEF AssessInv

(* Every step keeps the invariant, and none records in an archived lesson.  *)
LEMMA AssessStep ==
    ASSUME Assess!AssessmentsAssumption, AssessInv, [Assess!Next]_Assess!vars
    PROVE  AssessInv' /\ Assess!StepArchived
  <1>1. CASE UNCHANGED <<rows, file, published, sealed, flock, call>> /\ archived' \in BOOLEAN
    <2>1. AssessTypes' /\ TableStands'
      BY <1>1 DEF AssessInv, AssessTypes, TableStands, Assess!Standing, Assess!Active,
                  Assess!Ids
    <2>2. FileStands' /\ Covered'
      BY <1>1 DEF AssessInv, FileStands, Covered, Assess!FileIsAFold
    <2>3. \A w \in Writers : (Sound(call[w]) /\ Holding(w, call[w]) /\ Told(call[w]))'
      BY <1>1 DEF AssessInv, Sound, Holding, Told, Assess!Ids, Assess!Same
    <2> QED
      BY <1>1, <2>1, <2>2, <2>3 DEF AssessInv, Assess!StepArchived
  <1>2. archived \in BOOLEAN
    BY DEF AssessInv, AssessTypes
  <1>3. CASE \/ UNCHANGED Assess!vars
             \/ Assess!ToggleArchive \/ Assess!SessionEnds \/ Assess!EditManifest
    BY <1>1, <1>2, <1>3 DEF Assess!vars, Assess!ToggleArchive, Assess!SessionEnds,
       Assess!EditManifest, Assess!DB, Assess!Bundle, Assess!Locks
  <1>4. ASSUME NEW w \in Writers, Assess!Record(w) PROVE AssessInv' /\ Assess!StepArchived
    <2>1. Assess!Insert(w) => Assess!StepArchived
      BY DEF Assess!Insert, Assess!Closed, Assess!StepArchived
    <2>2. Assess!Record(w) /\ ~Assess!Insert(w) => UNCHANGED rows
      BY DEF Assess!Record, Assess!Submit, Assess!Resolve, Assess!Enter, Assess!Lookup,
             Assess!Validate, Assess!Recheck, Assess!Relookup, Assess!Seal,
             Assess!Snapshot, Assess!Publish, Assess!PublishFails, Assess!DB
    <2>3. Assess!PublishFails(w) => AssessInv'
      BY Leaves DEF Assess!PublishFails, Assess!DB, Assess!Bundle
    <2>4. AssessInv'
      BY <1>4, <2>3, SubmitHolds, ResolveHolds, LooksHold, InsertHolds, SealHolds,
         SnapshotHolds, PublishHolds DEF Assess!Record
    <2> QED
      BY <1>4, <2>1, <2>2, <2>4 DEF Assess!StepArchived
  <1>5. CASE Assess!EditFile
    BY <1>5, EditHolds DEF Assess!EditFile, Assess!DB, Assess!StepArchived
  <1>6. ASSUME NEW p \in Processes, Assess!Restart(p)
        PROVE  AssessInv' /\ Assess!StepArchived
    BY <1>6, RestartHolds DEF Assess!Restart, Assess!DB, Assess!StepArchived
  <1> QED
    BY <1>3, <1>4, <1>5, <1>6 DEF Assess!Next

LEMMA AssessScene ==
    ASSUME [Next]_all, scene' \in {"assessments", "quiet"}
    PROVE  scene \in {"assessments", "quiet"} /\ [Assess!Next]_Assess!vars
  BY DEF Next, all, state, Assess!vars

LEMMA AssessAlways ==
    Spec => [](scene \in {"assessments", "quiet"} => AssessInv)
  <1> DEFINE Inv == scene \in {"assessments", "quiet"} => AssessInv
  <1>1. Init => Inv
    BY AssessInitially DEF Init
  <1>2. Inv /\ [Next]_all => Inv'
    BY AssessScene, AssessStep, LedgersAssumption
  <1> QED
    BY <1>1, <1>2, PTL DEF Spec

(* The assessments file is the fold of one version of the history, and an   *)
(* answer "projected" is true, whoever edits, restarts or publishes in      *)
(* between (services/assessments.py, services/projection.py).               *)
THEOREM ProjectionHolds == Spec => []ProjectionIsAFold
  <1>1. (scene \in {"assessments", "quiet"} => AssessInv) => ProjectionIsAFold
    BY DEF ProjectionIsAFold, AssessInv, FileStands, Told, Assess!ProjectedIsTrue
  <1> QED
    BY <1>1, AssessAlways, PTL

(* A key names one row and answers with it, a sitting has one summary that  *)
(* stands, and nothing is recorded while the lesson is archived             *)
(* (services/assessments.py).                                               *)
THEOREM AssessmentsAreSound == Spec => AssessmentsHold
  <1>1. AssessInv => Assess!OneRowPerKey /\ Assess!OneSummaryStands
    <2>1. AssessInv => Assess!OneRowPerKey
      BY InCall DEF AssessInv, TableStands, Sound, Assess!OneRowPerKey, Assess!Answered
    <2>2. ASSUME AssessInv, NEW s \in Assess!Sittings
          PROVE  Assess!Cardinality(Assess!Standing(s)) <= 1
      <3>1. PICK S : S = Assess!Standing(s)
        OBVIOUS
      <3>2. \A i, j \in S : i = j
        BY <2>2, <3>1 DEF AssessInv, TableStands
      <3>3. S = {} \/ \E x : S = {x}
        BY <3>2
      <3>4. Cardinality(S) <= 1
        <4>1. S = {} => Cardinality(S) = 0
          BY FS_EmptySet
        <4>2. ASSUME NEW x, S = {x} PROVE Cardinality(S) = 1
          <5>1. Cardinality({x}) = 1
            BY FS_Singleton
          <5> QED
            BY <4>2, <5>1
        <4> QED
          BY <3>3, <4>1, <4>2
      <3> QED
        BY <3>1, <3>4 DEF Cardinality, Assess!Cardinality
    <2> QED
      BY <2>1, <2>2 DEF Assess!OneSummaryStands
  <1>2. (scene \in {"assessments", "quiet"} => AssessInv)
        /\ (scene \in {"assessments", "quiet"} => AssessInv)' /\ [Next]_all
        => [(scene \in {"assessments", "quiet"}) =>
              Assess!StepArchived /\ (Assess!OneRowPerKey /\ Assess!OneSummaryStands)']_all
    <2>1. SUFFICES ASSUME scene \in {"assessments", "quiet"} => AssessInv,
                          (scene \in {"assessments", "quiet"} => AssessInv)',
                          [Next]_all, scene \in {"assessments", "quiet"}
                   PROVE  \/ UNCHANGED all
                          \/ /\ Assess!StepArchived
                             /\ (Assess!OneRowPerKey /\ Assess!OneSummaryStands)'
      OBVIOUS
    <2>2. CASE scene' \in {"assessments", "quiet"}
      <3>1. AssessInv' /\ Assess!StepArchived
        BY <2>1, <2>2, AssessScene, AssessStep, LedgersAssumption
      <3>2. (AssessInv => Assess!OneRowPerKey /\ Assess!OneSummaryStands)'
        BY <1>1, PTL
      <3> QED
        BY <3>1, <3>2
    <2>3. CASE scene' \notin {"assessments", "quiet"}
      BY <2>1, <2>3 DEF Next, all
    <2> QED
      BY <2>2, <2>3
  <1> QED
    BY <1>2, AssessAlways, PTL DEF Spec, AssessmentsHold
===============================================================================
