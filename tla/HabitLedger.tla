------------------------------ MODULE HabitLedger ------------------------------
(***************************************************************************)
(* Habits, their check-ins and the daily notes, written by concurrent      *)
(* requests (services/items.py, services/checkins.py), together with what  *)
(* scripts/restore_from_export.py makes of the events they append.         *)
(*                                                                         *)
(* A handler reads outside the writer lock and then commits one            *)
(* transaction: the rows it decided on and their event.  Between the two   *)
(* steps other requests may commit.  The ledger itself is not kept: the    *)
(* replay is a fold over it, so `restored` holds the result so far.        *)
(***************************************************************************)
EXTENDS Integers, FiniteSets

CONSTANTS
    Clients,          \* requests that can be in progress together
    Days,             \* the dates, numbered
    Cards,            \* title, section and order of a habit
    Statuses,         \* the enum of a check-in
    Notes,            \* texts of a note
    None,             \* an absent form field, NULL
    MaxItems,         \* bound: habits ever created
    MaxRows           \* bound: check-ins ever inserted

HabitAssumption ==
    /\ Days \subseteq Nat \ {0} /\ MaxItems \in Nat /\ MaxRows \in Nat
    /\ None \notin Cards \cup Statuses \cup Notes \cup Days \cup {0}

VARIABLES
    item,             \* routine_items by id
    checkin,          \* checkins by their unique key
    daily,            \* daily_notes by date
    issued,           \* the id sequences of the two tables
    request,          \* what each handler was asked and what it has read
    restored          \* the tables a replay of the ledger yields

vars == <<item, checkin, daily, issued, request, restored>>

Ids  == 1..MaxItems
Keys == Ids \X Days

NoItem == [card |-> None, start |-> 0, active |-> FALSE]
NoRow  == [id |-> 0, status |-> None, note |-> None]
Idle   == [pc |-> "idle", op |-> "none", id |-> 0, day |-> 0, status |-> None,
           note |-> None, card |-> None, start |-> None, row |-> NoRow, seen |-> NoItem]

Init ==
    /\ item = [i \in Ids |-> NoItem]
    /\ checkin = [k \in Keys |-> NoRow]
    /\ daily = [d \in Days |-> None]
    /\ issued = [items |-> 0, rows |-> 0]
    /\ request = [c \in Clients |-> Idle]
    /\ restored = [ok |-> TRUE, item |-> item, daily |-> daily,
                   mark |-> [k \in Keys |-> [status |-> None, note |-> None]]]

Mark(row)  == [status |-> row.status, note |-> row.note]
Unmarked   == Mark(NoRow)

-----------------------------------------------------------------------------
(* restore_from_export: one event applied to the tables; a refused event    *)
(* rolls the whole restore back, and nothing after it is looked at.         *)

Failed(t) == [t EXCEPT !.ok = FALSE]

Applied(t, e) ==
    CASE e.type = "item_created" ->
            [t EXCEPT !.item[e.id] = [card |-> e.card, start |-> e.start, active |-> TRUE]]
      [] e.type = "item_updated" ->
            IF t.item[e.id] = NoItem THEN Failed(t)
            ELSE [t EXCEPT !.item[e.id].card = e.card, !.item[e.id].start = e.start]
      [] e.type = "item_updated_sparse" ->
            IF t.item[e.id] = NoItem THEN Failed(t)
            ELSE [t EXCEPT !.item[e.id].card = e.card, !.item[e.id].active = TRUE]
      [] e.type = "item_deactivated" ->
            IF t.item[e.id] = NoItem THEN Failed(t)
            ELSE [t EXCEPT !.item[e.id].active = FALSE]
      [] e.type = "item_deleted" ->
            IF t.item[e.id] = NoItem THEN Failed(t)
            ELSE [t EXCEPT !.item[e.id] = NoItem,
                           !.mark = [k \in Keys |-> IF k[1] = e.id THEN Unmarked ELSE @[k]]]
      [] e.type = "checkin_upserted" ->
            IF t.item[e.id] = NoItem THEN Failed(t)
            ELSE [t EXCEPT !.mark[<<e.id, e.day>>] = [status |-> e.status, note |-> e.note]]
      [] e.type = "checkin_cleared" ->
            IF t.mark[<<e.id, e.day>>] = Unmarked THEN Failed(t)
            ELSE [t EXCEPT !.mark[<<e.id, e.day>>] = Unmarked]
      [] e.type = "note_updated" -> [t EXCEPT !.daily[e.day] = e.text]

Replayed(t, e) == IF t.ok THEN Applied(t, e) ELSE t

(* append_event, as the replay will see it.                                 *)
Appends(e) == restored' = Replayed(restored, e)

-----------------------------------------------------------------------------
(* The requests arrive.                                                     *)

Arrives(c, r) ==
    /\ request[c] = Idle
    /\ request' = [request EXCEPT ![c] = r]
    /\ UNCHANGED <<item, checkin, daily, issued, restored>>

(* apply_status: the status already shown is cleared, another one is set.   *)
Taps(c, i, d, s) ==
    Arrives(c, [Idle EXCEPT !.pc = "reading", !.id = i, !.day = d,
                   !.op = IF checkin[<<i, d>>].status = s THEN "clear" ELSE "upsert",
                   !.status = IF checkin[<<i, d>>].status = s THEN None ELSE s])

SavesNote(c, i, d, n) ==
    Arrives(c, [Idle EXCEPT !.pc = "reading", !.op = "upsert", !.id = i, !.day = d,
                            !.note = n])

(* upsert_daily_note reads whether the day has a note.                      *)
SavesDaily(c, d, n) ==
    Arrives(c, [Idle EXCEPT !.pc = "writing", !.op = "daily", !.day = d, !.note = n,
                            !.status = daily[d]])

(* The management requests read the row they are about.                     *)
Manages(c, op, i, card, start) ==
    /\ item[i] # NoItem
    /\ Arrives(c, [Idle EXCEPT !.pc = "writing", !.op = op, !.id = i, !.seen = item[i],
                               !.card = card, !.start = start])

Done(c) == request' = [request EXCEPT ![c] = Idle]

(* clear_checkin and upsert_checkin read the habit and the row.             *)
Reads(c) ==
    LET r   == request[c]
        row == checkin[<<r.id, r.day>>]
    IN  /\ r.pc = "reading"
        /\ IF \/ item[r.id] = NoItem
              \/ r.op = "upsert" /\ r.day < item[r.id].start
              \/ row = NoRow /\ r.status = None      \* nothing to clear; status first
           THEN Done(c)
           ELSE request' = [request EXCEPT ![c].pc = "writing", ![c].row = row,
                                           ![c].seen = item[r.id]]
        /\ UNCHANGED <<item, checkin, daily, issued, restored>>

-----------------------------------------------------------------------------
(* The transactions.                                                        *)

Supplied(field, stored) == IF field # None THEN field ELSE stored

Writing(c, op) == request[c].pc = "writing" /\ request[c].op = op

(* The INSERT meets UNIQUE(date, item) or the foreign key: rolled back.     *)
InsertFails(c) ==
    LET r == request[c]
    IN  /\ Writing(c, "upsert") /\ r.row = NoRow
        /\ checkin[<<r.id, r.day>>] # NoRow \/ item[r.id] = NoItem
        /\ Done(c)
        /\ UNCHANGED <<item, checkin, daily, issued, restored>>

Inserts(c) ==
    LET r == request[c]
        k == <<r.id, r.day>>
    IN  /\ Writing(c, "upsert") /\ r.row = NoRow
        /\ checkin[k] = NoRow /\ item[r.id] # NoItem
        /\ issued.rows < MaxRows
        /\ issued' = [issued EXCEPT !.rows = @ + 1]
        /\ checkin' = [checkin EXCEPT ![k] =
                          [id |-> issued'.rows, status |-> r.status, note |-> r.note]]
        /\ Appends([type |-> "checkin_upserted", id |-> r.id, day |-> r.day,
                    status |-> r.status, note |-> r.note])
        /\ Done(c)
        /\ UNCHANGED <<item, daily>>

(* UPDATE ... WHERE id: an absent field is refilled from the row as read;   *)
(* the event is appended even when the row has gone.                        *)
Updates(c) ==
    LET r      == request[c]
        k      == <<r.id, r.day>>
        status == Supplied(r.status, r.row.status)
        note   == Supplied(r.note, r.row.note)
    IN  /\ Writing(c, "upsert") /\ r.row # NoRow
        /\ checkin' = IF checkin[k].id = r.row.id
                      THEN [checkin EXCEPT ![k].status = status, ![k].note = note]
                      ELSE checkin
        /\ Appends([type |-> "checkin_upserted", id |-> r.id, day |-> r.day,
                    status |-> status, note |-> note])
        /\ Done(c)
        /\ UNCHANGED <<item, daily, issued>>

Clears(c) ==
    LET r == request[c]
        k == <<r.id, r.day>>
    IN  /\ Writing(c, "clear")
        /\ checkin' = IF checkin[k].id = r.row.id
                      THEN [checkin EXCEPT ![k] = NoRow] ELSE checkin
        /\ Appends([type |-> "checkin_cleared", id |-> r.id, day |-> r.day])
        /\ Done(c)
        /\ UNCHANGED <<item, daily, issued>>

(* INSERT when the day had no note, which the primary key refuses if it has *)
(* one by now; UPDATE otherwise.                                            *)
WritesDaily(c) ==
    LET r == request[c]
    IN  /\ Writing(c, "daily")
        /\ IF r.status = None /\ daily[r.day] # None
           THEN UNCHANGED <<daily, restored>>
           ELSE /\ daily' = [daily EXCEPT ![r.day] = r.note]
                /\ Appends([type |-> "note_updated", day |-> r.day, text |-> r.note])
        /\ Done(c)
        /\ UNCHANGED <<item, checkin, issued>>

(* create_item: one INSERT ... SELECT, nothing is read before.              *)
CreatesItem(card, start) ==
    LET i == issued.items + 1
    IN  /\ issued.items < MaxItems
        /\ issued' = [issued EXCEPT !.items = i]
        /\ item' = [item EXCEPT ![i] = [card |-> card, start |-> start, active |-> TRUE]]
        /\ Appends([type |-> "item_created", id |-> i, card |-> card, start |-> start])
        /\ UNCHANGED <<checkin, daily, request>>

(* UPDATE of a row that was deleted meanwhile touches nothing.              *)
Present(i, row) == IF item[i] = NoItem THEN NoItem ELSE row

(* Mutant: the event lists the changed columns only.                        *)
UpdatesItemSparsely(c) ==
    LET r == request[c]
    IN  /\ Writing(c, "update")
        /\ item' = [item EXCEPT ![r.id] =
                       Present(r.id, [@ EXCEPT !.card = r.card,
                                               !.start = Supplied(r.start, r.seen.start)])]
        /\ IF r.start = None
           THEN Appends([type |-> "item_updated_sparse", id |-> r.id, card |-> r.card])
           ELSE Appends([type |-> "item_updated", id |-> r.id, card |-> r.card,
                         start |-> r.start])
        /\ Done(c)
        /\ UNCHANGED <<checkin, daily, issued>>

UpdatesItem(c) ==
    LET r     == request[c]
        start == Supplied(r.start, r.seen.start)
    IN  /\ Writing(c, "update")
        /\ item' = [item EXCEPT ![r.id] =
                       Present(r.id, [@ EXCEPT !.card = r.card, !.start = start])]
        /\ Appends([type |-> "item_updated", id |-> r.id, card |-> r.card, start |-> start])
        /\ Done(c)
        /\ UNCHANGED <<checkin, daily, issued>>

DeactivatesItem(c) ==
    LET r == request[c]
    IN  /\ Writing(c, "deactivate")
        /\ item' = [item EXCEPT ![r.id] = Present(r.id, [@ EXCEPT !.active = FALSE])]
        /\ Appends([type |-> "item_deactivated", id |-> r.id])
        /\ Done(c)
        /\ UNCHANGED <<checkin, daily, issued>>

ReactivatesItem(c) ==
    LET r == request[c]
    IN  /\ Writing(c, "reactivate")
        /\ item' = [item EXCEPT ![r.id] = Present(r.id, [@ EXCEPT !.active = TRUE])]
        /\ Appends([type |-> "item_updated_sparse", id |-> r.id, card |-> r.seen.card])
        /\ Done(c)
        /\ UNCHANGED <<checkin, daily, issued>>

DeletesItem(c) ==
    LET r == request[c]
    IN  /\ Writing(c, "delete")
        /\ item' = [item EXCEPT ![r.id] = NoItem]
        /\ checkin' = [k \in Keys |-> IF k[1] = r.id THEN NoRow ELSE checkin[k]]
        /\ Appends([type |-> "item_deleted", id |-> r.id])
        /\ Done(c)
        /\ UNCHANGED <<daily, issued>>

-----------------------------------------------------------------------------
Receives(c) ==
    \/ \E i \in Ids, d \in Days :
          \/ \E s \in Statuses : Taps(c, i, d, s)
          \/ \E n \in Notes : SavesNote(c, i, d, n)
    \/ \E d \in Days, n \in Notes : SavesDaily(c, d, n)
    \/ \E i \in Ids :
          \/ \E card \in Cards, start \in Days \cup {0, None} :
                Manages(c, "update", i, card, start)
          \/ \E op \in {"deactivate", "reactivate", "delete"} : Manages(c, op, i, None, None)

Commits(c) ==
    \/ InsertFails(c) \/ Inserts(c) \/ Updates(c) \/ Clears(c) \/ WritesDaily(c)
    \/ UpdatesItem(c) \/ DeactivatesItem(c) \/ ReactivatesItem(c) \/ DeletesItem(c)

Next ==
    \/ \E c \in Clients : Receives(c) \/ Reads(c) \/ Commits(c)
    \/ \E card \in Cards, start \in Days \cup {0} : CreatesItem(card, start)

Spec == Init /\ [][Next]_vars
-----------------------------------------------------------------------------
(* Properties.                                                              *)

ItemRows == [card : Cards, start : Days \cup {0}, active : BOOLEAN] \cup {NoItem}
CheckinRows ==
    [id : 1..MaxRows, status : Statuses, note : Notes \cup {None}] \cup {NoRow}

(* The tables hold well-typed rows, a check-in belongs to a habit that      *)
(* exists, and no two check-ins share an id.                                *)
TypeOK ==
    /\ item \in [Ids -> ItemRows] /\ checkin \in [Keys -> CheckinRows]
    /\ daily \in [Days -> Notes \cup {None}]
    /\ issued \in [items : 0..MaxItems, rows : 0..MaxRows]
    /\ \A k \in Keys : checkin[k] # NoRow => item[k[1]] # NoItem
    /\ \A k, m \in Keys : checkin[k] = checkin[m] /\ checkin[k] # NoRow => k = m

Agrees ==
    /\ restored.ok
    /\ restored.item = item
    /\ restored.daily = daily
    /\ \A k \in Keys : restored.mark[k] = Mark(checkin[k])

(* What a handler has read is what its transaction will find.               *)
Fresh(c) ==
    LET r == request[c]
    IN  r.pc = "writing" =>
           /\ r.op \in {"upsert", "clear"} => r.row = checkin[<<r.id, r.day>>]
           /\ r.op \notin {"daily"} => r.seen = item[r.id]

(* Only a transaction that acts on an outdated read can part the ledger     *)
(* from the tables; every other commit keeps them in agreement.             *)
StepDiverges ==
    Agrees /\ (\A c \in Clients : request'[c] # request[c] => Fresh(c)) => Agrees'
OnlyStaleReadsDiverge == [][StepDiverges]_vars

(* The replay never loses a daily note, whatever requests overlap: the      *)
(* ledger holds every text that was stored and no other.                    *)
NotesReplayed == restored.ok => restored.daily = daily

(* All three, of every step and the state it leads to.                     *)
StepReplays == StepDiverges /\ (TypeOK /\ NotesReplayed)'

(* The exported ledger can always be restored (export.py: "semantically     *)
(* replayable").                                                            *)
RestoreAccepts == restored.ok
===============================================================================
