------------------------------ MODULE FocusDrawer ------------------------------
(***************************************************************************)
(* The timer drawer of app/static/src/focus-timer.ts in several tabs at    *)
(* once, over the routes of app/routers/focus.py, over FocusTimer.         *)
(*                                                                         *)
(* A request is `sent`, then its transaction commits or is refused         *)
(* (`settled`), then _state reads its answer in a second transaction       *)
(* (`answered`), then the tab receives it; other requests interleave at    *)
(* each point.  The fetches a tab waits for are kept in ticket order.      *)
(* absorb drops an answer whose ticket is not above appliedSeq, and        *)
(* appliedSeq is the ticket absorbed last: so a tab that absorbs one       *)
(* answer forgets all fetches with earlier tickets, which is how the two   *)
(* counters are represented.                                               *)
(***************************************************************************)
EXTENDS FocusTimer

CONSTANTS
    Tabs,             \* open pages, in one browser or several
    Awake,            \* those whose scripts go on; a hidden page may be frozen
    MaxFlight,        \* bound: fetches each tab waits for, one at least
    MaxLost           \* bound: answers lost and pages left

ASSUME DrawerAssumption ==
    Awake \subseteq Tabs /\ MaxFlight \in [Tabs -> Nat \ {0}] /\ MaxLost \in Nat

VARIABLES
    tab,              \* what each page shows, whether it is busy, its fetches
    orphans,          \* writes nobody waits for that may still reach the server
    told,             \* the writes whose success a tab has been told of
    minted,           \* the tokens newToken has handed out
    lost              \* how often an answer was lost or a page left

drawerVars == <<tab, orphans, told, minted, lost>>
allVars    == <<vars, drawerVars>>

NoView == [token |-> None, length |-> 0, paused |-> FALSE, zero |-> 0]
Fresh  == [view |-> NoView, busy |-> FALSE, wire |-> <<>>]

DrawerInit ==
    /\ Init
    /\ tab = [b \in Tabs |-> Fresh]
    /\ orphans = {}
    /\ told = {}
    /\ minted = {}
    /\ lost = 0

(* _run_view as a tab stores it: `zero` is the moment at which the          *)
(* interpolated clock of an answer received now would have read 0.          *)
ViewAt(elapsed, r, paused) ==
    [token |-> r.token, length |-> r.length, paused |-> paused,
     zero |-> IF paused THEN 0 ELSE now - elapsed]

Fetch(op, token, n) ==
    [op |-> op, token |-> token, length |-> n, stage |-> "sent", ok |-> FALSE,
     run |-> NoRun, elapsed |-> 0]

Sync == Fetch("sync", None, 0)

-----------------------------------------------------------------------------
(* The page.                                                                *)

Send(b, m) ==
    /\ Len(tab[b].wire) < MaxFlight[b]
    /\ tab' = [tab EXCEPT ![b].wire = Append(@, m), ![b].busy = m.op # "sync"]
    /\ minted' = IF m.op = "start" THEN minted \cup {m.token} ELSE minted
    /\ UNCHANGED <<vars, orphans, told, lost>>

(* Mutant: only a shown timer is polled.                                    *)
AsksStateRunning(b) == ~tab[b].busy /\ tab[b].view # NoView /\ Send(b, Sync)

(* sync: by the poll, a nudge of the channel, a page that becomes visible   *)
(* again, a refusal, or the looks back after a lost answer.                 *)
AsksState(b) == ~tab[b].busy /\ Send(b, Sync)

PressesStart(b, t, n) ==
    /\ ~tab[b].busy /\ tab[b].view = NoView
    /\ t \notin minted                     \* newToken
    /\ Send(b, Fetch("start", t, n))

PressesPause(b) ==
    /\ ~tab[b].busy /\ tab[b].view # NoView
    /\ Send(b, Fetch(IF tab[b].view.paused THEN "resume" ELSE "pause",
                     tab[b].view.token, 0))

PressesStop(b) ==
    /\ ~tab[b].busy /\ tab[b].view # NoView
    /\ Send(b, Fetch("finish", tab[b].view.token, 0))

PressesDiscard(b) ==
    /\ ~tab[b].busy /\ tab[b].view # NoView
    /\ Send(b, Fetch("discard", tab[b].view.token, 0))

(* autoFinish, from render once a second while the countdown shows zero.    *)
AutoFinishes(b) ==
    LET v == tab[b].view
    IN  /\ ~tab[b].busy /\ v # NoView
        /\ v.length > 0 /\ ~v.paused /\ now - v.zero >= v.length
        /\ Send(b, Fetch("finish", v.token, 0))

-----------------------------------------------------------------------------
(* The server.                                                              *)

(* What one write request does, and whether it is answered with ok.         *)
Applies(m) ==
    \/ m.op = "start"   /\ Start(m.token, m.length, None)
    \/ m.op = "pause"   /\ Pause(m.token)
    \/ m.op = "resume"  /\ Resume(m.token)
    \/ m.op = "finish"  /\ Finish(m.token)
    \/ m.op = "discard" /\ Discard(m.token)

Running(m) == run # NoRun /\ run.token = m.token

(* The answers that are ok although nothing changes.                        *)
Accepts(m) ==
    \/ m.op = "start"  /\ Running(m)
    \/ m.op = "pause"  /\ Running(m) /\ Paused(run)
    \/ m.op = "resume" /\ Running(m) /\ ~Paused(run)
    \/ m.op = "finish" /\ ~Running(m) /\ m.token \in Spent
    \/ m.op = "discard" /\ ~Running(m) /\ m.token \notin Spent

Refuses(m) ==
    \/ m.op = "start" /\ ~Running(m)
       /\ (run # NoRun \/ m.token \in Spent \/ m.length \notin {0} \cup MinTarget..MaxTarget)
    \/ m.op = "pause"   /\ (~Running(m) \/ (~Paused(run) /\ Elapsed(run) >= Cap(run)))
    \/ m.op = "resume"  /\ ~Running(m)
    \/ m.op = "finish"  /\ IF Running(m) THEN Credited(run) <= 0 ELSE m.token \notin Spent
    \/ m.op = "discard" /\ ~Running(m) /\ m.token \in Spent

Serve(m, ok) ==
    IF ok THEN Applies(m) \/ (Accepts(m) /\ UNCHANGED vars)
    ELSE Refuses(m) /\ UNCHANGED vars

Settles(b, i, ok) ==
    LET m == tab[b].wire[i]
    IN  /\ m.op # "sync" /\ m.stage = "sent"
        /\ Serve(m, ok)
        /\ tab' = [tab EXCEPT ![b].wire[i].stage = IF ok THEN "settled" ELSE "answered",
                              ![b].wire[i].ok = ok]
        /\ UNCHANGED <<orphans, told, minted, lost>>

(* _state: one snapshot, after the write.                                   *)
Answers(b, i) ==
    LET m == tab[b].wire[i]
    IN  /\ m.stage = IF m.op = "sync" THEN "sent" ELSE "settled"
        /\ tab' = [tab EXCEPT ![b].wire[i] =
                      [m EXCEPT !.stage = "answered", !.ok = TRUE, !.run = run,
                                !.elapsed = IF run = NoRun THEN 0 ELSE Elapsed(run)]]
        /\ UNCHANGED <<vars, orphans, told, minted, lost>>

ServesOrphan(m) ==
    /\ m \in orphans
    /\ orphans' = orphans \ {m}
    /\ Applies(m) \/ UNCHANGED vars
    /\ UNCHANGED <<tab, told, minted, lost>>

-----------------------------------------------------------------------------
(* The answers.                                                             *)

Without(s, i) == SubSeq(s, 1, i - 1) \o SubSeq(s, i + 1, Len(s))

View(m) == IF m.run = NoRun THEN NoView ELSE ViewAt(m.elapsed, m.run, Paused(m.run))

(* Acknowledged pauses are no news to any property and are not kept.        *)
Heard(b, m) ==
    IF m.op \in {"start", "finish", "discard"} THEN told \cup {<<b, m.op, m.token>>}
    ELSE told

(* Mutant: every answer is applied, in the order of arrival.                *)
AbsorbsAny(b, i) ==
    LET m == tab[b].wire[i]
    IN  /\ m.stage = "answered" /\ m.ok
        /\ tab' = [tab EXCEPT ![b] =
                      [view |-> View(m), busy |-> IF m.op = "sync" THEN @.busy ELSE FALSE,
                       wire |-> Without(@.wire, i)]]
        /\ told' = Heard(b, m)
        /\ UNCHANGED <<vars, orphans, minted, lost>>

(* absorb: the fetches with earlier tickets can no longer be absorbed.      *)
Absorbs(b, i) ==
    LET m == tab[b].wire[i]
    IN  /\ m.stage = "answered" /\ m.ok
        /\ tab' = [tab EXCEPT ![b] =
                      [view |-> View(m), busy |-> IF m.op = "sync" THEN @.busy ELSE FALSE,
                       wire |-> SubSeq(@.wire, i + 1, Len(@.wire))]]
        /\ told' = Heard(b, m)
        /\ UNCHANGED <<vars, orphans, minted, lost>>

(* A refusal shows its message and asks at once what is running.            *)
ShowsRefusal(b, i) ==
    LET m == tab[b].wire[i]
    IN  /\ m.stage = "answered" /\ ~m.ok
        /\ tab' = [tab EXCEPT ![b].busy = FALSE,
                              ![b].wire = Append(Without(@, i), Sync)]
        /\ UNCHANGED <<vars, orphans, told, minted, lost>>

Unserved(m) == m.op # "sync" /\ m.stage = "sent"

(* An answer never arrives; the write may still be waiting for the lock.    *)
LosesAnswer(b, i) ==
    LET m == tab[b].wire[i]
    IN  /\ lost < MaxLost /\ lost' = lost + 1
        /\ orphans' = IF Unserved(m) THEN orphans \cup {m} ELSE orphans
        /\ tab' = [tab EXCEPT
              ![b].busy = IF m.op = "sync" THEN @ ELSE FALSE,
              ![b].wire = IF m.op = "sync" THEN Without(@, i)
                          ELSE Append(Without(@, i), Sync)]
        /\ UNCHANGED <<vars, told, minted>>

(* Ordinary navigation: a new page that asks what is running.               *)
Navigates(b) ==
    /\ lost < MaxLost /\ lost' = lost + 1
    /\ orphans' = orphans \cup {tab[b].wire[i] :
                                  i \in {k \in DOMAIN tab[b].wire : Unserved(tab[b].wire[k])}}
    /\ tab' = [tab EXCEPT ![b] = [Fresh EXCEPT !.wire = <<Sync>>]]
    /\ told' = {w \in told : w[1] # b}
    /\ UNCHANGED <<vars, minted>>

Passes == Tick /\ UNCHANGED drawerVars

Moves(b, i) ==
    (\E ok \in BOOLEAN : Settles(b, i, ok)) \/ Answers(b, i) \/ Absorbs(b, i)
    \/ ShowsRefusal(b, i)

Presses(b) ==
    \/ \E t \in Tokens, n \in Lengths : PressesStart(b, t, n)
    \/ PressesPause(b) \/ PressesStop(b) \/ PressesDiscard(b)

DrawerNext ==
    \/ \E b \in Tabs :
          \/ AsksState(b) \/ Presses(b) \/ AutoFinishes(b) \/ Navigates(b)
          \/ \E i \in DOMAIN tab[b].wire : Moves(b, i) \/ LosesAnswer(b, i)
    \/ \E m \in orphans : ServesOrphan(m)
    \/ Passes

Delivers(b, i) == i \in DOMAIN tab[b].wire /\ Moves(b, i)

DrawerSpec == DrawerInit /\ [][DrawerNext]_allVars

(* The server answers, the network delivers what is not lost, and the poll  *)
(* of a page that is not frozen keeps asking: nobody has to press anything. *)
DrawerFairness ==
    \A b \in Awake :
        /\ SF_allVars(AsksState(b))
        /\ \A i \in 1..MaxFlight[b] :
              WF_allVars(Delivers(b, i))

FairDrawerSpec == DrawerSpec /\ DrawerFairness
-----------------------------------------------------------------------------
(* Properties.                                                              *)

(* A tab is busy exactly while it waits for one write, its latest fetch.    *)
DrawerTypeOK ==
    /\ \A b \in Tabs :
          /\ tab[b].view.token \in Tokens \cup {None}
          /\ Len(tab[b].wire) <= MaxFlight[b]
          /\ tab[b].busy <=> \E i \in DOMAIN tab[b].wire : tab[b].wire[i].op # "sync"
          /\ \A i \in DOMAIN tab[b].wire :
                tab[b].wire[i].op # "sync" => i = Len(tab[b].wire)
    /\ told \subseteq Tabs \X {"start", "finish", "discard"} \X minted
    /\ lost \in 0..MaxLost

(* What a tab was told is true and stays true, whatever other tabs did at   *)
(* the same moment: a recorded span is in the table, and a timer thrown     *)
(* away is neither recorded nor running.                                    *)
AnswersHold ==
    \A w \in told :
        /\ w[2] = "finish"  => w[3] \in Spent
        /\ w[2] = "discard" => w[3] \notin Spent \cup {run.token}

(* A tab never loses sight of its own acknowledged writes: while the timer  *)
(* it started runs it shows it, and it shows no timer that it ended.        *)
OwnWritesStay ==
    \A w \in told :
        LET shown == tab[w[1]].view.token
        IN  /\ w[2] = "start" /\ w[3] = run.token => shown = w[3]
            /\ w[2] \in {"finish", "discard"} => shown # w[3]

(* What a tab was told is and stays true, and it never loses sight of its   *)
(* own acknowledged writes (focus-timer.ts, services/focus.py).             *)
TabsHonest == DrawerTypeOK /\ AnswersHold /\ OwnWritesStay

(* An awake tab comes to show the server's timer again and again, whatever  *)
(* was refused or lost and whatever frozen tabs left behind: with finitely  *)
(* many timers to start, it ends up showing it for good.                    *)
InStep(b) == tab[b].view.token = run.token
TabsConverge == \A b \in Awake : []<>InStep(b)
===============================================================================
