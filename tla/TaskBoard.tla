------------------------------- MODULE TaskBoard -------------------------------
(***************************************************************************)
(* The kanban board of app/static/src/board.ts in several tabs over the    *)
(* completion of tasks: a card moves at once, its request follows, later   *)
(* gestures on it are queued, refusals roll back, and the capped column    *)
(* Done is trimmed or the page reloaded.                                   *)
(*                                                                         *)
(* `column` is the order of the cards in Done, `gone` the tasks without a  *)
(* card: the render left them out, or trim removed them.                   *)
(***************************************************************************)
EXTENDS Tasks

CONSTANTS
    Tabs,
    DoneLimit,        \* DONE_LIMIT
    Panes,            \* tasks a detail pane is opened for
    None,
    MaxActs,          \* bound: what users do
    MaxLost           \* bound: answers lost

BoardAssumption ==
    /\ DoneLimit \in Nat \ {0} /\ MaxActs \in Nat /\ MaxLost \in Nat
    /\ Panes \subseteq Tasks /\ None \notin Tasks \cup Statuses

VARIABLES
    tab,              \* the cards, the pane and the move loops of each page
    wire,             \* the requests each page waits for
    orphans,          \* requests of pages that are gone, and unanswered ones
    gesture,          \* the last gesture on a card that nothing else overrode
    acts, lost

boardVars == <<tab, wire, orphans, gesture, acts, lost>>
vars      == <<tasksVars, boardVars>>

NoLoop == [target |-> None, from |-> None, full |-> FALSE]

(* The page as the server renders it.                                       *)
Rendered(pane) ==
    [shown |-> status, acked |-> status,
     column |-> SubSeq(finished, 1, IF Len(finished) < DoneLimit
                                    THEN Len(finished) ELSE DoneLimit),
     gone |-> {finished[i] : i \in {k \in DOMAIN finished : k > DoneLimit}},
     pane |-> pane, paneDone |-> pane # None /\ Contains(finished, pane),
     loop |-> [t \in Tasks |-> NoLoop]]

Init ==
    /\ TasksInit
    /\ tab = [b \in Tabs |-> Rendered(None)]
    /\ wire = [b \in Tabs |-> <<>>]
    /\ orphans = {}
    /\ gesture = [b \in Tabs |-> [t \in Tasks |-> None]]
    /\ acts = 0 /\ lost = 0

-----------------------------------------------------------------------------
(* What the script does to the page.                                        *)

IsCappedFull(v, s) == s = "done" /\ Len(v.column) >= DoneLimit

Place(v, t, s) ==
    [v EXCEPT !.shown[t] = s, !.gone = @ \ {t},
              !.column = IF s = "done" THEN Cons(t, RemoveFirst(@, t))
                                       ELSE RemoveFirst(@, t)]

Trim(v, s) ==
    IF ~IsCappedFull(v, s) THEN v
    ELSE LET kept == SubSeq(v.column, 1, DoneLimit)
         IN  [v EXCEPT !.column = kept, !.gone = @ \cup (ToSet(v.column) \ ToSet(kept))]

(* settle: place, then trim the column; the loop of the card is over.       *)
Settle(v, t, s) ==
    [Trim(Place(v, t, s), s) EXCEPT !.loop[t] = NoLoop]

(* Mutant: the card is only marked, not put back.                           *)
RollbackInPlace(v, t) ==
    [v EXCEPT !.shown[t] = v.acked[t], !.loop[t] = NoLoop,
              !.column = IF v.acked[t] # "done" THEN RemoveFirst(@, t) ELSE @]

Rollback(v, t) == Settle(v, t, v.acked[t])

(* The pane advertises the completion that t no longer has.                 *)
PaneLies(v, t, s) == v.pane = t /\ (s = "done") # v.paneDone

Post(t, s) == [task |-> t, target |-> s, stage |-> "sent"]

Unsent(b) == {wire[b][i] : i \in {k \in DOMAIN wire[b] : wire[b][k].stage = "sent"}}

(* location.reload(): what was on its way may still arrive.                 *)
Reload(b, pane) ==
    /\ tab' = [tab EXCEPT ![b] = Rendered(pane)]
    /\ orphans' = orphans \cup Unsent(b)
    /\ wire' = [wire EXCEPT ![b] = <<>>]

(* A page that goes away takes its unfinished loops along: the gestures on  *)
(* their cards make no claim any more.                                      *)
Abandons(b, landed) ==
    gesture' = [gesture EXCEPT ![b] =
        [t \in Tasks |-> IF t \in landed \/ tab[b].loop[t] = NoLoop THEN @[t] ELSE None]]

-----------------------------------------------------------------------------
(* The user.                                                                *)

Acts == acts < MaxActs /\ acts' = acts + 1

(* A loop that somebody else wrote into makes no claim any more.            *)
Claim(b, t, s) ==
    IF tab[b].loop[t] # NoLoop /\ gesture[b][t] = None THEN None ELSE s

Moves(b, t, s) ==
    LET v     == tab[b]
        begun == [target |-> s, from |-> v.shown[t], full |-> IsCappedFull(v, v.shown[t])]
    IN  /\ Acts
        /\ s # v.shown[t] /\ t \notin v.gone
        /\ gesture' = [gesture EXCEPT ![b][t] = Claim(b, t, s)]
        /\ IF v.loop[t].target # None
           THEN /\ tab' = [tab EXCEPT ![b] = [Place(v, t, s) EXCEPT !.loop[t].target = s]]
                /\ UNCHANGED wire
           ELSE /\ tab' = [tab EXCEPT ![b] = [Place(v, t, s) EXCEPT !.loop[t] = begun]]
                /\ wire' = [wire EXCEPT ![b] = Append(@, Post(t, s))]
        /\ UNCHANGED <<tasksVars, orphans, lost>>

(* Opening a task's pane, or any link: the page is left with its loops.     *)
Navigates(b, pane) ==
    /\ Acts
    /\ Reload(b, pane)
    /\ Abandons(b, {})
    /\ UNCHANGED <<tasksVars, lost>>

Overridden(t) == [b \in Tabs |-> [gesture[b] EXCEPT ![t] = None]]

(* A checkbox on another page.                                              *)
Toggles(t) ==
    /\ Acts
    /\ ToggleComplete(t)
    /\ gesture' = Overridden(t)
    /\ UNCHANGED <<tab, wire, orphans, lost>>

-----------------------------------------------------------------------------
(* The server and the network.                                              *)

Staged(b, i, stage) == wire' = [wire EXCEPT ![b][i].stage = stage]

Stores(b, i) ==
    LET m == wire[b][i]
    IN  /\ m.stage = "sent"
        /\ SetStatus(m.task, m.target)
        /\ Staged(b, i, "stored")
        /\ gesture' = [Overridden(m.task) EXCEPT ![b] = gesture[b]]
        /\ UNCHANGED <<tab, orphans, acts, lost>>

Refuses(b, i) ==
    /\ wire[b][i].stage = "sent"
    /\ Staged(b, i, "failed")
    /\ UNCHANGED <<tasksVars, tab, orphans, gesture, acts, lost>>

(* No answer arrives: a "network error", although the move may be stored.   *)
Loses(b, i) ==
    /\ wire[b][i].stage # "failed"
    /\ lost < MaxLost /\ lost' = lost + 1
    /\ Staged(b, i, "failed")
    /\ orphans' = IF wire[b][i].stage = "sent" THEN orphans \cup {wire[b][i]} ELSE orphans
    /\ UNCHANGED <<tasksVars, tab, gesture, acts>>

ServesOrphan(m) ==
    /\ SetStatus(m.task, m.target)
    /\ orphans' = orphans \ {m}
    /\ gesture' = Overridden(m.task)
    /\ UNCHANGED <<tab, wire, acts, lost>>

-----------------------------------------------------------------------------
(* The answers.                                                             *)

(* Mutant: the loop ends with its first answer.                             *)
HearsOkAtOnce(b, i) ==
    LET m      == wire[b][i]
        v      == [tab[b] EXCEPT !.acked[m.task] = m.target]
        leaves == v.loop[m.task].full /\ m.target # v.loop[m.task].from
    IN  /\ m.stage = "stored"
        /\ IF leaves \/ PaneLies(v, m.task, m.target)
           THEN Reload(b, v.pane) /\ Abandons(b, {m.task})
           ELSE /\ tab' = [tab EXCEPT ![b] = Settle(v, m.task, m.target)]
                /\ wire' = [wire EXCEPT ![b] = RemoveAt(@, i)]
                /\ UNCHANGED <<orphans, gesture>>
        /\ UNCHANGED <<tasksVars, acts, lost>>

HearsOk(b, i) ==
    LET m      == wire[b][i]
        v      == [tab[b] EXCEPT !.acked[m.task] = m.target]
        loop   == v.loop[m.task]
        leaves == loop.full /\ m.target # loop.from
    IN  /\ m.stage = "stored"
        /\ IF loop.target \in {m.target, None}
           THEN IF leaves \/ PaneLies(v, m.task, m.target)
                THEN Reload(b, v.pane) /\ Abandons(b, {m.task})
                ELSE /\ tab' = [tab EXCEPT ![b] = Settle(v, m.task, m.target)]
                     /\ wire' = [wire EXCEPT ![b] = RemoveAt(@, i)]
                     /\ UNCHANGED <<orphans, gesture>>
           ELSE /\ tab' = [tab EXCEPT ![b] = v]
                /\ wire' = [wire EXCEPT ![b][i] = Post(m.task, loop.target)]
                /\ UNCHANGED <<orphans, gesture>>
        /\ UNCHANGED <<tasksVars, acts, lost>>

(* Refused or unanswered: back to the last acknowledged state; the queued   *)
(* gesture is dropped and the user told.                                    *)
HearsFailure(b, i) ==
    LET t      == wire[b][i].task
        v      == tab[b]
        leaves == v.loop[t].full /\ v.acked[t] # v.loop[t].from
    IN  /\ wire[b][i].stage = "failed"
        /\ IF leaves \/ PaneLies(v, t, v.acked[t])
           THEN Reload(b, v.pane) /\ Abandons(b, {})
           ELSE /\ tab' = [tab EXCEPT ![b] = Rollback(v, t)]
                /\ wire' = [wire EXCEPT ![b] = RemoveAt(@, i)]
                /\ gesture' = [gesture EXCEPT ![b][t] = None]
                /\ UNCHANGED orphans
        /\ UNCHANGED <<tasksVars, acts, lost>>

Answered(b, i) ==
    Stores(b, i) \/ Refuses(b, i) \/ HearsOk(b, i) \/ HearsFailure(b, i)

Next ==
    \/ \E b \in Tabs :
          \/ \E t \in Tasks, s \in Statuses : Moves(b, t, s)
          \/ \E pane \in Panes \cup {None} : Navigates(b, pane)
          \/ \E i \in DOMAIN wire[b] : Answered(b, i) \/ Loses(b, i)
    \/ \E t \in Tasks : Toggles(t)
    \/ \E m \in orphans : ServesOrphan(m)

Spec == Init /\ [][Next]_vars

-----------------------------------------------------------------------------
(* Properties.                                                              *)

(* The page's tables are well typed, and a loop runs for exactly the cards  *)
(* whose request is out: never two for one task, so a page's own writes     *)
(* cannot finish out of order.                                              *)
BoardTypeOK ==
    \A b \in Tabs :
        /\ tab[b].shown \in [Tasks -> Statuses] /\ tab[b].acked \in [Tasks -> Statuses]
        /\ tab[b].pane \in Panes \cup {None}
        /\ \A t \in Tasks :
              LET out == {i \in DOMAIN wire[b] : wire[b][i].task = t}
              IN  IF tab[b].loop[t] = NoLoop THEN out = {}
                  ELSE \E i \in DOMAIN wire[b] : out = {i}

Quiet(b, t) == tab[b].loop[t] = NoLoop

(* A card comes to rest as the server last acknowledged it, and whatever    *)
(* trims and rollbacks crossed, an open task never vanishes from the board. *)
CardsHonest ==
    \A b \in Tabs : \A t \in Tasks :
        Quiet(b, t) => tab[b].shown[t] = tab[b].acked[t] /\
                       (t \in tab[b].gone => tab[b].acked[t] = "done")

(* The open pane advertises the transition that its task's toggle performs, *)
(* as far as the page was told.                                             *)
PaneHonest ==
    \A b \in Tabs : \A t \in Panes :
        tab[b].pane = t /\ Quiet(b, t) => tab[b].paneDone = (tab[b].acked[t] = "done")

(* The last gesture on a card is the one that ends up stored, unless it was *)
(* refused, the page went away under the card's loop (the user left, or the *)
(* reload that another card's answer asks for), or another writer, or a     *)
(* request that nobody waits for any more, wrote the task.                  *)
LastGestureStored ==
    \A b \in Tabs : \A t \in Tasks :
        gesture[b][t] # None /\ Quiet(b, t) => status[t] = gesture[b][t]
===============================================================================
