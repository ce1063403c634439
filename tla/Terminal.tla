------------------------------ MODULE Terminal ------------------------------
(***************************************************************************)
(* The terminal's session registry (app/terminal.py): shells on a PTY that *)
(* outlive the WebSocket they were opened on, so that a page can reattach  *)
(* after a navigation.                                                     *)
(*                                                                         *)
(* Everything runs on one event loop, so an action is the code between two *)
(* awaits of one coroutine: a connection's handler (_serve_ws), a          *)
(* session's pump (_run), a close task, the reaper. What other coroutines  *)
(* do falls between the actions. When the creation lock is free the code   *)
(* takes it without giving way; the model lets others run there as well.   *)
(***************************************************************************)
EXTENDS Naturals, FiniteSets, Sequences

CONSTANTS Conns,         \* WebSocket connections, each used once
          Roles,         \* the roles a creation can ask for
          MaxSessions,   \* _MAX_SESSIONS
          Grace,         \* _FORCE_GRACE, in ticks
          Ttl,           \* _SESSION_TTL, in ticks
          MaxChunks,     \* bound: chunks a shell prints
          Ring,          \* chunks the ring buffer keeps
          NoConn, Pump

TerminalAssumption ==
    /\ IsFiniteSet(Conns) /\ NoConn \notin Conns /\ Pump \notin Conns /\ Pump # NoConn
    /\ Roles \subseteq {"plain", "lesson-agent", "lesson-learner"} /\ Roles # {}
    /\ MaxSessions \in Nat \ {0} /\ Grace \in Nat /\ Ttl \in Nat /\ Grace < Ttl
    /\ MaxChunks \in Nat /\ Ring \in Nat \ {0}

VARIABLES
    sess,      \* the sessions, in the order their SIDs were minted
    creator,   \* who holds _CREATE_LOCK
    pc,        \* where each connection's handler is
    sid,       \* the session it works on, 0 before it has one
    role,      \* the role it asked for
    got,       \* the chunks of output handed to its socket
    shut,      \* the connections whose socket the server closed
    caps,      \* the sessions whose token is in _ASSESS_CAPABILITIES
    reaper     \* whether _reaper_loop is running

vars == <<sess, creator, pc, sid, role, got, shut, caps, reaper>>

\* A session is in _SESSIONS exactly while it is live; a reaped one waits for its
\* close task, and closing lasts until its shell is gone.
Phases == {"unminted", "spawning", "failed", "live", "doomed", "closing", "closed"}

Stages == {"new", "wantCreate", "preparing", "spawning", "wantAttach", "announcing",
           "wantSend", "replay", "reading", "parked", "killing", "ended"}

\* A connection creates at most one session.
Sids == 1..Cardinality(Conns)

Session(r, phase) ==
    [role |-> r, phase |-> phase,
     ws |-> NoConn,       \* the attached connection
     idle |-> 0,          \* ticks since it was detached
     attach |-> NoConn,   \* who holds _attach_lock
     send |-> NoConn,     \* who holds _send_lock
     pump |-> NoConn,     \* the socket the pump has a chunk for
     writer |-> NoConn,   \* who waits for the PTY to take more input
     out |-> 0]           \* chunks printed

Unminted == Session(CHOOSE r \in Roles : TRUE, "unminted")

Sessions ==
    [role: Roles, phase: Phases, ws: Conns \cup {NoConn}, idle: 0..(Ttl + 1),
     attach: Conns \cup {NoConn}, send: Conns \cup {NoConn, Pump},
     pump: Conns \cup {NoConn}, writer: Conns \cup {NoConn}, out: 0..MaxChunks]

Holding == {"announcing", "wantSend", "replay"}

TypeOK ==
    /\ sess \in [Sids -> Sessions]
    /\ creator \in Conns \cup {NoConn}
    /\ pc \in [Conns -> Stages]
    /\ sid \in [Conns -> Sids \cup {0}]
    /\ role \in [Conns -> Roles]
    /\ got \in [Conns -> Seq(1..MaxChunks)]
    /\ shut \subseteq Conns
    /\ caps \subseteq Sids
    /\ reaper \in {"parked", "armed"}
    \* The locks are held by who is inside them.
    /\ \A c \in Conns :
         /\ creator = c <=> pc[c] \in {"preparing", "spawning"}
         /\ pc[c] \in Holding => sess[sid[c]].attach = c
    /\ \A s \in Sids :
         sess[s].attach # NoConn => sid[sess[s].attach] = s /\ pc[sess[s].attach] \in Holding

Init ==
    /\ sess = [s \in Sids |-> Unminted]
    /\ creator = NoConn
    /\ pc = [c \in Conns |-> "new"]
    /\ sid = [c \in Conns |-> 0]
    /\ role \in [Conns -> Roles]
    /\ got = [c \in Conns |-> <<>>]
    /\ shut = {} /\ caps = {} /\ reaper = "parked"

-----------------------------------------------------------------------------
(* The table of sessions *)

Live(table) == {s \in Sids : table[s].phase = "live"}

\* Detached for longer than the limit, and nobody is attaching.
IdleFor(table, limit) ==
    {s \in Live(table) : /\ table[s].ws = NoConn /\ table[s].attach = NoConn
                         /\ table[s].idle > limit}

Doomed(table, these) ==
    [s \in Sids |-> IF s \in these THEN [table[s] EXCEPT !.phase = "doomed"] ELSE table[s]]

\* _reap_idle. A reaped session leaves the table at once; its close is a task.
Reaped(table) == Doomed(table, IdleFor(table, Ttl))

\* _reap_idle(force_oldest): with nothing stale, the one detached longest.
ForceReaped(table) ==
    LET evictable == IdleFor(table, Grace)
        oldest    == {s \in evictable : \A t \in evictable : table[t].idle <= table[s].idle}
    IN  IF IdleFor(table, Ttl) # {} \/ evictable = {}
        THEN {Reaped(table)}
        ELSE {Doomed(table, {s}) : s \in oldest}

With(table, s, entry) == [table EXCEPT ![s] = entry]

\* detach: only the socket that is attached, and a writer parked for it is woken.
Detached(table, s, c) ==
    IF table[s].ws = c
    THEN With(table, s, [table[s] EXCEPT !.ws = NoConn, !.idle = 0, !.writer = NoConn])
    ELSE table

\* The head of the attach section: the lock is taken and the stale socket detached.
\* Its handler finds the socket closed.
Boot(table, s, c) ==
    With(Detached(table, s, table[s].ws), s,
         [Detached(table, s, table[s].ws)[s] EXCEPT !.attach = c])
Booted(table, s) == {table[s].ws} \ {NoConn}

Goes(c, stage) == pc' = [pc EXCEPT ![c] = stage]

-----------------------------------------------------------------------------
(* A connection arrives: _serve_ws up to its first await *)

WaitsFor(s) == {c \in Conns : pc[c] = "wantAttach" /\ sid[c] = s}

\* A sid of a live session wins over every other parameter.
AsksToAttach(c, table, s) ==
    /\ sid' = [sid EXCEPT ![c] = s]
    /\ IF table[s].attach = NoConn /\ WaitsFor(s) = {}
       THEN /\ sess' = Boot(table, s, c)
            /\ shut' = shut \cup Booted(table, s)
            /\ Goes(c, "announcing")
       ELSE sess' = table /\ Goes(c, "wantAttach") /\ UNCHANGED shut

Accept(c) ==
    LET table == Reaped(sess) IN
    /\ pc[c] = "new"
    /\ reaper' = "armed"
    /\ \/ \E s \in Live(table) : AsksToAttach(c, table, s)
       \* No sid, or one that names no live session: a new one is asked for.
       \/ sess' = table /\ Goes(c, "wantCreate") /\ UNCHANGED <<sid, shut>>
       \* A malformed request, or the sid of a learner's session that is gone.
       \/ sess' = table /\ Goes(c, "ended") /\ UNCHANGED <<sid, shut>>
    /\ UNCHANGED <<creator, role, got, caps>>

-----------------------------------------------------------------------------
(* _create_session and _spawn_on_pty *)

NextSid == CHOOSE s \in Sids : /\ sess[s].phase = "unminted"
                               /\ \A t \in Sids : sess[t].phase = "unminted" => s <= t

\* The shell starts: the SID is minted and the token published before the spawn.
StartsShell(c, table) ==
    /\ sess' = With(table, NextSid, Session(role[c], "spawning"))
    /\ sid' = [sid EXCEPT ![c] = NextSid]
    /\ caps' = IF role[c] = "lesson-agent" THEN caps \cup {NextSid} ELSE caps
    /\ Goes(c, "spawning")

\* The lock, and the capacity check under it.
Enters(c) ==
    /\ pc[c] = "wantCreate" /\ creator = NoConn
    /\ \E table \in IF Cardinality(Live(sess)) >= MaxSessions
                    THEN ForceReaped(sess) ELSE {sess} :
         IF Cardinality(Live(table)) >= MaxSessions
         THEN /\ sess' = table /\ Goes(c, "ended") /\ UNCHANGED <<creator, sid, caps>>
         ELSE /\ creator' = c
              /\ IF role[c] = "plain"
                 THEN StartsShell(c, table)
                 ELSE sess' = table /\ Goes(c, "preparing") /\ UNCHANGED <<sid, caps>>
    /\ UNCHANGED <<role, got, shut, reaper>>

\* The worker thread has prepared the lesson's workspace, or refuses it.
Prepared(c) ==
    /\ pc[c] = "preparing"
    /\ \/ StartsShell(c, sess) /\ UNCHANGED creator
       \/ creator' = NoConn /\ Goes(c, "ended") /\ UNCHANGED <<sess, sid, caps>>
    /\ UNCHANGED <<role, got, shut, reaper>>

\* The subprocess exists: the session is registered, the creation lock released and
\* the attach section entered without an await.
Spawned(c) ==
    /\ pc[c] = "spawning"
    /\ sess' = With(sess, sid[c], [sess[sid[c]] EXCEPT !.phase = "live", !.attach = c])
    /\ creator' = NoConn
    /\ Goes(c, "announcing")
    /\ UNCHANGED <<sid, role, got, shut, caps, reaper>>

SpawnFails(c) ==
    /\ pc[c] = "spawning"
    /\ sess' = With(sess, sid[c], [sess[sid[c]] EXCEPT !.phase = "failed"])
    /\ caps' = caps \ {sid[c]}
    /\ creator' = NoConn
    /\ Goes(c, "ended")
    /\ UNCHANGED <<sid, role, got, shut, reaper>>

-----------------------------------------------------------------------------
(* The attach section *)

My(c) == sess[sid[c]]

GetsAttachLock(c) ==
    /\ pc[c] = "wantAttach" /\ My(c).attach = NoConn
    /\ sess' = Boot(sess, sid[c], c)
    /\ shut' = shut \cup Booted(sess, sid[c])
    /\ Goes(c, "announcing")
    /\ UNCHANGED <<creator, sid, role, got, caps, reaper>>

Snapshot(s) ==
    LET first == IF sess[s].out > Ring THEN sess[s].out - Ring ELSE 0
    IN  [i \in 1..(sess[s].out - first) |-> first + i]

\* Under the send lock the snapshot is taken and the socket attached with no await
\* between them, then the replay is sent.
Takes(c) ==
    LET entry == [My(c) EXCEPT !.ws = c, !.idle = 0] IN
    /\ got' = [got EXCEPT ![c] = Snapshot(sid[c])]
    /\ IF My(c).out > 0
       THEN sess' = With(sess, sid[c], [entry EXCEPT !.send = c]) /\ Goes(c, "replay")
       ELSE sess' = With(sess, sid[c], [entry EXCEPT !.attach = NoConn]) /\ Goes(c, "reading")

Announced(c) ==
    /\ pc[c] = "announcing"
    /\ IF My(c).send = NoConn THEN Takes(c) ELSE Goes(c, "wantSend") /\ UNCHANGED <<sess, got>>
    /\ UNCHANGED <<creator, sid, role, shut, caps, reaper>>

GetsSendLock(c) ==
    /\ pc[c] = "wantSend" /\ My(c).send = NoConn
    /\ Takes(c)
    /\ UNCHANGED <<creator, sid, role, shut, caps, reaper>>

Unlocked(c) ==
    [My(c) EXCEPT !.attach = NoConn, !.send = IF @ = c THEN NoConn ELSE @]

Replayed(c) ==
    /\ pc[c] = "replay"
    /\ sess' = With(sess, sid[c], Unlocked(c))
    /\ Goes(c, "reading")
    /\ UNCHANGED <<creator, sid, role, got, shut, caps, reaper>>

\* Mutant: a failed send leaves the attach lock held.
SendFailsHolding(c) ==
    /\ pc[c] \in {"announcing", "replay"}
    /\ sess' = Detached(With(sess, sid[c], [Unlocked(c) EXCEPT !.attach = c]), sid[c], c)
    /\ Goes(c, "ended")
    /\ UNCHANGED <<creator, sid, role, got, shut, caps, reaper>>

\* The client is gone: the greeting or the replay cannot be sent.
SendFails(c) ==
    /\ pc[c] \in {"announcing", "replay"}
    /\ sess' = Detached(With(sess, sid[c], Unlocked(c)), sid[c], c)
    /\ Goes(c, "ended")
    /\ UNCHANGED <<creator, sid, role, got, shut, caps, reaper>>

-----------------------------------------------------------------------------
(* The attached socket: _read_input and _write_all *)

\* The handler is over: the client left, the server closed the socket, or a write
\* found the session gone or taken by another socket.
Ends(c) == sess' = Detached(sess, sid[c], c) /\ Goes(c, "ended")

Leaves(c) ==
    /\ pc[c] = "reading"
    /\ Ends(c)
    /\ UNCHANGED <<creator, sid, role, got, shut, caps, reaper>>

\* Input the PTY does not take yet: the writer waits for it.
Parks(c) ==
    /\ pc[c] = "reading"
    /\ My(c).ws = c /\ My(c).phase \notin {"closing", "closed"}
    /\ sess' = With(sess, sid[c], [My(c) EXCEPT !.writer = c])
    /\ Goes(c, "parked")
    /\ UNCHANGED <<creator, sid, role, got, shut, caps, reaper>>

\* The program at the other end reads: the writer is woken.
Drains(s) ==
    /\ sess[s].writer # NoConn
    /\ sess' = With(sess, s, [sess[s] EXCEPT !.writer = NoConn])
    /\ UNCHANGED <<creator, pc, sid, role, got, shut, caps, reaper>>

\* A woken writer looks again at who owns the session.
Resumes(c) ==
    /\ pc[c] = "parked" /\ My(c).writer # c
    /\ IF My(c).ws = c /\ My(c).phase \notin {"closing", "closed"}
       THEN Goes(c, "reading") /\ UNCHANGED sess
       ELSE Ends(c)
    /\ UNCHANGED <<creator, sid, role, got, shut, caps, reaper>>

-----------------------------------------------------------------------------
(* The pump: _run *)

SendsTo(c, s) == got' = [got EXCEPT ![c] = Append(@, sess[s].out)]

\* A chunk is read and remembered, and the attached socket noted, in one go.
Produces(s) ==
    LET c     == sess[s].ws
        entry == [sess[s] EXCEPT !.out = @ + 1]
    IN  /\ sess[s].phase \in {"live", "doomed", "closing"}
        /\ sess[s].pump = NoConn /\ sess[s].out < MaxChunks
        /\ IF c # NoConn /\ sess[s].send = NoConn
           THEN /\ sess' = With(sess, s, [entry EXCEPT !.pump = c, !.send = Pump])
                /\ got' = [got EXCEPT ![c] = Append(@, entry.out)]
           ELSE sess' = With(sess, s, [entry EXCEPT !.pump = c]) /\ UNCHANGED got
        /\ UNCHANGED <<creator, pc, sid, role, shut, caps, reaper>>

Waiting(s) == sess[s].pump # NoConn /\ sess[s].send = NoConn

\* Mutant: the chunk goes to whichever socket is attached by now.
PumpSendsAnyway(s) ==
    /\ Waiting(s)
    /\ IF sess[s].ws # NoConn
       THEN /\ sess' = With(sess, s, [sess[s] EXCEPT !.send = Pump, !.pump = sess[s].ws])
            /\ SendsTo(sess[s].ws, s)
       ELSE sess' = With(sess, s, [sess[s] EXCEPT !.pump = NoConn]) /\ UNCHANGED got
    /\ UNCHANGED <<creator, pc, sid, role, shut, caps, reaper>>

\* The send lock is the pump's: the chunk goes out if the same socket is attached.
PumpSends(s) ==
    /\ Waiting(s)
    /\ IF sess[s].ws = sess[s].pump
       THEN /\ sess' = With(sess, s, [sess[s] EXCEPT !.send = Pump])
            /\ SendsTo(sess[s].ws, s)
       ELSE sess' = With(sess, s, [sess[s] EXCEPT !.pump = NoConn]) /\ UNCHANGED got
    /\ UNCHANGED <<creator, pc, sid, role, shut, caps, reaper>>

PumpDone(s) == With(sess, s, [sess[s] EXCEPT !.send = NoConn, !.pump = NoConn])

\* The send returns, or fails and the socket that failed is detached.
PumpSent(s) ==
    /\ sess[s].send = Pump
    /\ sess' \in {PumpDone(s), Detached(PumpDone(s), s, sess[s].pump)}
    /\ UNCHANGED <<creator, pc, sid, role, got, shut, caps, reaper>>

-----------------------------------------------------------------------------
(* Closing *)

\* close(), up to waiting for the shell: the session leaves the table, its token
\* dies, a parked writer is woken.
BeginsClose(s) ==
    /\ sess[s].phase \in {"live", "doomed"}
    /\ sess' = With(sess, s, [sess[s] EXCEPT !.phase = "closing", !.writer = NoConn])
    /\ caps' = caps \ {s}

\* The close task of a reaped session, or the pump at the end of the shell's output.
Closes(s) ==
    /\ sess[s].phase = "doomed" \/ (sess[s].phase = "live" /\ sess[s].pump = NoConn)
    /\ BeginsClose(s)
    /\ UNCHANGED <<creator, pc, sid, role, got, shut, reaper>>

\* The owner closes the tab.
Kills(c) ==
    /\ pc[c] = "reading" /\ My(c).ws = c
    /\ BeginsClose(sid[c])
    /\ Goes(c, "killing")
    /\ UNCHANGED <<creator, sid, role, got, shut, reaper>>

\* The shell is gone: the PTY and the pump end, and the attached socket is closed.
Closed(s) ==
    /\ sess[s].phase = "closing"
    /\ sess' = With(sess, s, [sess[s] EXCEPT !.phase = "closed", !.ws = NoConn, !.pump = NoConn,
                                             !.send = IF @ = Pump THEN NoConn ELSE @])
    /\ shut' = shut \cup Booted(sess, s)
    /\ UNCHANGED <<creator, pc, sid, role, got, caps, reaper>>

Killed(c) ==
    /\ pc[c] = "killing" /\ My(c).phase = "closed"
    /\ Ends(c)
    /\ UNCHANGED <<creator, sid, role, got, shut, caps, reaper>>

-----------------------------------------------------------------------------
(* Time and the reaper *)

Tick ==
    /\ sess' = [s \in Sids |->
           IF sess[s].phase = "live" /\ sess[s].ws = NoConn /\ sess[s].idle <= Ttl
           THEN [sess[s] EXCEPT !.idle = @ + 1] ELSE sess[s]]
    /\ UNCHANGED <<creator, pc, sid, role, got, shut, caps, reaper>>

\* A round of _reaper_loop, which parks itself when there is nothing to watch.
Sweeps ==
    /\ reaper = "armed"
    /\ sess' = Reaped(sess)
    /\ reaper' = IF Live(Reaped(sess)) = {} THEN "parked" ELSE "armed"
    /\ UNCHANGED <<creator, pc, sid, role, got, shut, caps>>

-----------------------------------------------------------------------------
Creates(c) == Enters(c) \/ Prepared(c) \/ Spawned(c) \/ SpawnFails(c)
Attaches(c) == GetsAttachLock(c) \/ Announced(c) \/ GetsSendLock(c) \/ Replayed(c) \/ SendFails(c)
Reads(c) == Leaves(c) \/ Parks(c) \/ Resumes(c) \/ Kills(c) \/ Killed(c)
Pumps(s) == Produces(s) \/ PumpSends(s) \/ PumpSent(s)

Next ==
    \/ \E c \in Conns : Accept(c) \/ Creates(c) \/ Attaches(c) \/ Reads(c)
    \/ \E s \in Sids : Pumps(s) \/ Drains(s) \/ Closes(s) \/ Closed(s)
    \/ Tick \/ Sweeps

EndsDoomed(s) == sess[s].phase = "doomed" /\ Closes(s)

\* Worker threads, subprocesses and sends return or fail, the loop runs whoever can
\* run, a close ends (the shell is killed when it ignores the hangup), and time
\* passes. Clients owe nothing: they may stay, type or never come.
Fairness ==
    /\ \A c \in Conns : WF_vars(Creates(c)) /\ WF_vars(Attaches(c)) /\ WF_vars(Resumes(c) \/ Killed(c))
    /\ \A s \in Sids :
         /\ WF_vars(PumpSends(s) \/ PumpSent(s))
         /\ WF_vars(Closed(s))
         /\ WF_vars(EndsDoomed(s))
    /\ WF_vars(Tick) /\ WF_vars(Sweeps)

Spec == Init /\ [][Next]_vars
FairSpec == Spec /\ Fairness

-----------------------------------------------------------------------------
(* Properties *)

\* Creation is serialized across the awaits between the capacity check and the
\* registration: the table never holds more than _MAX_SESSIONS sessions.
WithinCapacity == Cardinality(Live(sess)) <= MaxSessions

\* Every chunk of output is in the snapshot of an attached socket or sent right
\* after it: what the socket was handed is an unbroken run of chunks up to the last
\* one printed, but for one the pump still has in hand. No gap, no duplicate.
OutputUnbroken ==
    \A s \in Sids : sess[s].ws # NoConn =>
        LET c   == sess[s].ws
            due == IF sess[s].pump = c /\ sess[s].send # Pump THEN sess[s].out - 1 ELSE sess[s].out
        IN  sess[s].phase # "closed" =>
            /\ \A i \in DOMAIN got[c] : got[c][i] = due - Len(got[c]) + i
            /\ due > 0 => got[c] # <<>>

\* A token is published for every agent session that lives, and for no other than
\* one being spawned or waiting for its close task: it dies with its session,
\* however the session ends.
TokensFollowSessions ==
    /\ \A s \in caps : sess[s].phase \in {"spawning", "live", "doomed"}
    /\ \A s \in Live(sess) : sess[s].role = "lesson-agent" => s \in caps

\* No writer stays parked for a session its socket has lost: a take-over and a
\* close both wake it.
ParkedWriterOwns ==
    \A c \in Conns : pc[c] = "parked" /\ My(c).writer = c =>
        My(c).ws = c /\ My(c).phase \in {"live", "doomed"}

\* Sockets see an unbroken run of output, the table keeps its bound, tokens die with
\* their sessions, and no writer stays parked for another's.
SessionsHold == OutputUnbroken /\ WithinCapacity /\ TokensFollowSessions /\ ParkedWriterOwns

\* Every connection is answered: it ends up reading, or it is over.
Waits(c) == pc[c] \notin {"new", "reading", "parked", "killing", "ended"}
Over(c)  == pc[c] \in {"reading", "ended"}
Answered == \A c \in Conns : Waits(c) ~> Over(c)

=============================================================================
