---------------------------- MODULE ServerProofs -----------------------------
(***************************************************************************)
(* What holds of the start, whatever database it finds, and of the         *)
(* terminal's session registry for every number of connections, every      *)
(* limit and every length of output.  The terminal's invariants            *)
(* take the table of sessions as an argument: a step that reaps first goes *)
(* on from a table that no state holds.                                    *)
(***************************************************************************)
EXTENDS MCServer, Integers, FiniteSetTheorems, FunctionTheorems, SequenceTheorems,
        WellFoundedInduction, TLAPS

Typed(table) ==
    /\ table \in [Sids -> Sessions]
    /\ creator \in Conns \cup {NoConn}
    /\ pc \in [Conns -> Stages]
    /\ sid \in [Conns -> Sids \cup {0}]
    /\ role \in [Conns -> Roles]
    /\ got \in [Conns -> Seq(1..MaxChunks)]
    /\ shut \subseteq Conns
    /\ caps \subseteq Sids
    /\ reaper \in {"parked", "armed"}

\* The locks are held by who is inside them.
Locks(table) ==
    /\ \A c \in Conns :
         /\ creator = c <=> pc[c] \in {"preparing", "spawning"}
         /\ pc[c] \in Holding => table[sid[c]].attach = c
    /\ \A s \in Sids :
         table[s].attach # NoConn => sid[table[s].attach] = s /\ pc[table[s].attach] \in Holding

Registered == {"live", "doomed", "closing", "closed"}

\* Where a handler stands tells what its session is, and every session was minted
\* by a handler.
Places(table) ==
    /\ \A c \in Conns :
         /\ pc[c] \in {"new", "wantCreate", "preparing"} => sid[c] = 0
         /\ pc[c] = "spawning" =>
              /\ sid[c] \in Sids /\ table[sid[c]].phase = "spawning"
              /\ table[sid[c]].role = role[c]
         /\ pc[c] \in Holding \cup {"wantAttach", "reading", "parked", "killing"} =>
              sid[c] \in Sids /\ table[sid[c]].phase \in Registered
    /\ \A s \in Sids : table[s].phase # "unminted" => \E c \in Conns : sid[c] = s

\* A connection that the session's output has reached.
Reached(c, s) == sid[c] = s /\ pc[c] \in {"replay", "reading", "parked", "killing", "ended"}

Entry(s, e) ==
    /\ e.phase \notin Registered => e.ws = NoConn /\ e.attach = NoConn /\ e.pump = NoConn
    /\ e.ws # NoConn => Reached(e.ws, s) /\ pc[e.ws] # "ended"
    /\ e.attach # NoConn /\ pc[e.attach] \in {"announcing", "wantSend"} => e.ws = NoConn
    /\ e.writer # NoConn => e.writer = e.ws /\ e.phase \in {"live", "doomed"}
    /\ e.pump # NoConn => Reached(e.pump, s) /\ e.out > 0 /\ e.phase # "closed"
    /\ e.send = Pump => e.pump # NoConn

Entries(table) == \A s \in Sids : Entry(s, table[s])

\* Who is between the capacity check and the registration has a place.
Room(table) ==
    /\ Cardinality(Live(table)) <= MaxSessions
    /\ creator # NoConn => Cardinality(Live(table)) < MaxSessions

Tokens(table) ==
    /\ \A s \in caps : table[s].phase \in {"spawning", "live", "doomed"}
    /\ \A s \in Sids :
         table[s].phase \in {"spawning", "live"} /\ table[s].role = "lesson-agent" => s \in caps

\* The last chunk that the attached socket must have been handed.
Due(e) == IF e.pump = e.ws /\ e.send # Pump THEN e.out - 1 ELSE e.out

Run(chunks, due) ==
    /\ \A i \in DOMAIN chunks : chunks[i] = due - Len(chunks) + i
    /\ due > 0 => chunks # <<>>

Unbroken(table) ==
    \A s \in Sids : table[s].ws # NoConn /\ table[s].phase # "closed" =>
        Run(got[table[s].ws], Due(table[s]))

IInv(table) ==
    /\ Typed(table) /\ Locks(table) /\ Places(table) /\ Entries(table)
    /\ Room(table) /\ Tokens(table) /\ Unbroken(table)

-----------------------------------------------------------------------------
(* The parts of the invariant and the properties *)

LEMMA TypeOKParts == TypeOK <=> Typed(sess) /\ Locks(sess)
  BY DEF TypeOK, Typed, Locks

LEMMA OutputParts == ASSUME Typed(sess) PROVE Unbroken(sess) <=> OutputUnbroken
  BY DEF Unbroken, OutputUnbroken, Run, Due

LEMMA IInvImplies ==
    ASSUME TerminalAssumption, IInv(sess)
    PROVE  TypeOK /\ SessionsHold
  <1>1. TypeOK /\ OutputUnbroken
    BY TypeOKParts, OutputParts DEF IInv
  <1>2. WithinCapacity
    BY DEF IInv, Room, WithinCapacity
  <1>3. TokensFollowSessions
    BY DEF IInv, Tokens, TokensFollowSessions, Live
  <1>4. ParkedWriterOwns
    BY DEF IInv, Places, Entries, Entry, ParkedWriterOwns, My, TerminalAssumption
  <1> QED
    BY <1>1, <1>2, <1>3, <1>4 DEF SessionsHold

LEMMA InitIInv == ASSUME TerminalAssumption, Init PROVE IInv(sess)
  <1>1. /\ Cardinality(Conns) \in Nat
        /\ (CHOOSE r \in Roles : TRUE) \in Roles
    BY FS_CardinalityType DEF TerminalAssumption
  <1>2. Unminted \in Sessions /\ Unminted.phase = "unminted" /\ Unminted.ws = NoConn
        /\ Unminted.attach = NoConn /\ Unminted.pump = NoConn /\ Unminted.writer = NoConn
        /\ Unminted.send = NoConn
    <2> DEFINE r == CHOOSE r \in Roles : TRUE
    <2>1. r \in Roles
      BY <1>1
    <2>2. Unminted = Session(r, "unminted")
      BY DEF Unminted
    <2> HIDE DEF r
    <2>3. Session(r, "unminted") \in Sessions
      <3>1. 0 \in 0..(Ttl + 1) /\ 0 \in 0..MaxChunks /\ "unminted" \in Phases
        BY DEF TerminalAssumption, Phases
      <3> QED
        BY <2>1, <3>1 DEF Session, Sessions
    <2>4. /\ Session(r, "unminted").phase = "unminted" /\ Session(r, "unminted").ws = NoConn
          /\ Session(r, "unminted").attach = NoConn /\ Session(r, "unminted").pump = NoConn
          /\ Session(r, "unminted").writer = NoConn /\ Session(r, "unminted").send = NoConn
      BY DEF Session
    <2> QED
      BY <2>2, <2>3, <2>4
  <1>3. \A s \in Sids : sess[s] = Unminted
    BY DEF Init
  <1>4. Typed(sess)
    BY <1>2 DEF Init, Typed, Stages
  <1>5. Locks(sess) /\ Places(sess) /\ Entries(sess) /\ Tokens(sess) /\ Unbroken(sess)
    BY <1>2, <1>3 DEF Init, Locks, Places, Entries, Entry, Tokens, Unbroken, Holding, Registered, Live,
       TerminalAssumption
  <1>6. Room(sess)
    <2>1. Live(sess) = {}
      BY <1>2, <1>3 DEF Live
    <2>2. Cardinality(Live(sess)) = 0
      BY <2>1, FS_EmptySet
    <2> QED
      BY <2>2 DEF Init, Room, TerminalAssumption
  <1> QED
    BY <1>4, <1>5, <1>6 DEF IInv

-----------------------------------------------------------------------------
(* What most steps keep *)

LEMMA EntryTyped ==
    ASSUME NEW table \in [Sids -> Sessions], NEW x \in Sids, NEW e \in Sessions
    PROVE  [table EXCEPT ![x] = e] \in [Sids -> Sessions]
  OBVIOUS

LEMMA LiveFinite ==
    ASSUME TerminalAssumption, NEW table
    PROVE  /\ IsFiniteSet(Sids) /\ Sids = 1..Cardinality(Conns) /\ Cardinality(Conns) \in Nat
           /\ IsFiniteSet(Live(table)) /\ Cardinality(Live(table)) \in Nat
  <1>1. Cardinality(Conns) \in Nat /\ IsFiniteSet(Sids) /\ Live(table) \subseteq Sids
    BY FS_CardinalityType, FS_Interval DEF TerminalAssumption, Sids, Live
  <1>2. IsFiniteSet(Live(table))
    BY <1>1, FS_Subset
  <1> QED
    BY <1>1, <1>2, FS_CardinalityType DEF Sids

\* No step but a spawn's end adds a session to the table.
LEMMA RoomKept ==
    ASSUME TerminalAssumption, NEW old, NEW new,
           Cardinality(Live(old)) <= MaxSessions, Live(new) \subseteq Live(old)
    PROVE  /\ Cardinality(Live(new)) <= MaxSessions
           /\ Cardinality(Live(old)) < MaxSessions => Cardinality(Live(new)) < MaxSessions
  <1>1. /\ IsFiniteSet(Live(old)) /\ Cardinality(Live(old)) \in Nat /\ Cardinality(Live(new)) \in Nat
    BY LiveFinite
  <1>2. Cardinality(Live(new)) <= Cardinality(Live(old))
    BY <1>1, FS_Subset
  <1> QED
    BY <1>1, <1>2 DEF TerminalAssumption

\* A step that hands out nothing, and moves no session's last due chunk.
LEMMA OutputKept ==
    ASSUME NEW old, Unbroken(old), got' = got,
           \A s \in Sids : sess'[s].ws # NoConn /\ sess'[s].phase # "closed" =>
              /\ old[s].ws = sess'[s].ws /\ old[s].phase # "closed"
              /\ Due(sess'[s]) = Due(old[s])
    PROVE  Unbroken(sess)'
  BY DEF Unbroken

LEMMA AppendExtends ==
    ASSUME NEW chunks \in Seq(1..MaxChunks), NEW due \in Int, Run(chunks, due - 1),
           due \in 1..MaxChunks
    PROVE  Append(chunks, due) \in Seq(1..MaxChunks) /\ Run(Append(chunks, due), due)
  <1>1. /\ Append(chunks, due) \in Seq(1..MaxChunks)
        /\ Len(Append(chunks, due)) = Len(chunks) + 1
        /\ \A i \in 1..Len(chunks) : Append(chunks, due)[i] = chunks[i]
        /\ Append(chunks, due)[Len(chunks) + 1] = due
        /\ Len(chunks) \in Nat /\ Append(chunks, due) # <<>>
        /\ DOMAIN Append(chunks, due) = 1..(Len(chunks) + 1)
        /\ DOMAIN chunks = 1..Len(chunks)
    OBVIOUS
  <1>2. ASSUME NEW i \in 1..(Len(chunks) + 1)
        PROVE  Append(chunks, due)[i] = due - (Len(chunks) + 1) + i
    <2>1. CASE i = Len(chunks) + 1
      BY <1>1, <2>1
    <2>2. CASE i \in 1..Len(chunks)
      <3>1. chunks[i] = (due - 1) - Len(chunks) + i
        BY <1>1, <2>2 DEF Run
      <3> QED
        BY <1>1, <2>2, <3>1
    <2> QED
      BY <1>1, <2>1, <2>2
  <1> QED
    BY <1>1, <1>2 DEF Run

LEMMA SnapshotIsARun ==
    ASSUME TerminalAssumption, NEW s \in Sids, sess[s].out \in 0..MaxChunks
    PROVE  Snapshot(s) \in Seq(1..MaxChunks) /\ Run(Snapshot(s), sess[s].out)
  <1> DEFINE out == sess[s].out
             first == IF out > Ring THEN out - Ring ELSE 0
  <1>1. out \in Nat /\ first \in Nat /\ first <= out /\ (out > 0 => out - first > 0) /\ out <= MaxChunks
    BY DEF TerminalAssumption
  <1>2. Snapshot(s) = [i \in 1..(out - first) |-> first + i]
    BY DEF Snapshot
  <1> HIDE DEF out, first
  <1>3. out - first \in Nat /\ \A i \in 1..(out - first) : first + i \in 1..MaxChunks
    BY <1>1 DEF TerminalAssumption
  <1>4. Snapshot(s) \in Seq(1..MaxChunks) /\ Len(Snapshot(s)) = out - first
    <2> DEFINE n == out - first
    <2>1. n \in Nat /\ Snapshot(s) \in [1..n -> 1..MaxChunks]
      BY <1>2, <1>3
    <2>2. Snapshot(s) \in Seq(1..MaxChunks)
      BY <2>1, SeqDef
    <2>3. Len(Snapshot(s)) \in Nat /\ 1..Len(Snapshot(s)) = 1..n
      BY <2>1, <2>2, LenProperties
    <2>4. Len(Snapshot(s)) = n
      <3> HIDE DEF n
      <3> QED BY <2>1, <2>3
    <2> QED
      BY <2>2, <2>4
  <1>5. \A i \in DOMAIN Snapshot(s) : Snapshot(s)[i] = out - (out - first) + i
    BY <1>1, <1>2
  <1>6. out > 0 => Snapshot(s) # <<>>
    BY <1>1, <1>4
  <1> QED
    BY <1>4, <1>5, <1>6 DEF Run, out


\* The handler is over.
LEMMA EndsKeeps ==
    ASSUME TerminalAssumption, IInv(sess), NEW c \in Conns,
           pc[c] \in {"reading", "parked", "killing"},
           Ends(c),
           UNCHANGED <<creator, sid, role, got, shut, caps, reaper>>
    PROVE  IInv(sess)'
  <1> DEFINE x == sid[c]
             e == [sess[x] EXCEPT !.ws = IF @ = c THEN NoConn ELSE @, !.idle = IF sess[x].ws = c THEN 0 ELSE @, !.writer = IF sess[x].ws = c THEN NoConn ELSE @]
  <1>1. x \in Sids /\ sess[x] \in Sessions
    BY DEF IInv, Typed, Sessions, Places, Holding, TerminalAssumption, Goes, Ends, My
  <1>2. e \in Sessions /\ (sess' = [sess EXCEPT ![x] = e] \/ sess' = sess)
    <2>1. 0 \in 0..(Ttl + 1)
      BY DEF TerminalAssumption
    <2>2. e \in Sessions
      BY <1>1, <2>1 DEF Sessions, Phases, IInv, Typed, TerminalAssumption, Goes, Ends, My
    <2>3. sess' = [sess EXCEPT ![x] = e] \/ sess' = sess
      BY <1>1 DEF Sessions, IInv, Typed, Goes, Ends, My, Detached, With
    <2> QED
      BY <2>2, <2>3
  <1>5. Typed(sess)'
    <2>1. sess' \in [Sids -> Sessions]
      <3> HIDE DEF x, e
      <3> QED
        BY <1>1, <1>2, EntryTyped DEF IInv, Typed
    <2>4. shut' \subseteq Conns
      BY DEF IInv, Typed, Goes, Ends, My
    <2>5. got' \in [Conns -> Seq(1..MaxChunks)]
      BY DEF IInv, Typed, Goes, Ends, My
    <2> QED
      BY <2>1, <2>4, <2>5 DEF IInv, Typed, Stages, Goes, Ends, My
  <1>6. Locks(sess)'
    <2>1. \A t \in Sids : sess'[t].attach = sess[t].attach
      BY <1>1 DEF IInv, Typed, Sessions, Goes, Ends, My, Detached, With
    <2>2. pc' = [pc EXCEPT ![c] = "ended"] /\ sid' = sid /\ creator' = creator
      BY DEF Goes, Ends, My
    <2>3. \A t \in Sids : sess[t].attach \in Conns \cup {NoConn} /\ sess[t].attach # c
      <3>1. c # NoConn /\ pc[c] \notin Holding
        BY DEF Holding, TerminalAssumption
      <3> QED
        BY <3>1 DEF IInv, Typed, Sessions, Locks
    <2>4. \A d \in Conns : pc'[d] \in Holding => pc[d] \in Holding /\ sid[d] \in Sids
      BY <2>2 DEF IInv, Typed, Places, Holding
    <2>5. \A d \in Conns : creator' = d <=> pc'[d] \in {"preparing", "spawning"}
      BY <2>2 DEF IInv, Typed, Locks
    <2>6. \A d \in Conns : pc'[d] \in Holding => sess'[sid[d]].attach = d
      BY <2>1, <2>4 DEF IInv, Locks
    <2>7. \A t \in Sids : sess[t].attach # NoConn => pc'[sess[t].attach] = pc[sess[t].attach]
      BY <2>2, <2>3 DEF IInv, Typed
    <2> QED
      BY <2>1, <2>2, <2>5, <2>6, <2>7 DEF IInv, Locks
  <1>7. Places(sess)'
    BY <1>1, SMTT(60) DEF TerminalAssumption, IInv, Typed, Locks, Sessions, Holding, Registered, Places, Entries, Entry, Goes, Ends, My, Detached, With
  <1>8. Entries(sess)'
    BY <1>1, SMTT(60) DEF TerminalAssumption, IInv, Typed, Locks, Sessions, Holding, Registered, Places, Entries, Entry, Reached, Goes, Ends, My, Detached, With
  <1>9. Tokens(sess)'
    BY <1>1, SMTT(60) DEF TerminalAssumption, IInv, Typed, Locks, Sessions, Holding, Registered, Places, Entries, Entry, Tokens, Goes, Ends, My, Detached, With
  <1>10. Unbroken(sess)'
    <2>1. ASSUME NEW t \in Sids, sess'[t].ws # NoConn, sess'[t].phase # "closed"
          PROVE  sess[t].ws = sess'[t].ws /\ sess[t].phase # "closed" /\ Due(sess'[t]) = Due(sess[t])
      BY <1>1, <2>1, SMTT(60) DEF IInv, Typed, Entries, Entry, Sessions, Due, TerminalAssumption, Goes, Ends, My, Detached, With
    <2> QED
      BY <2>1, OutputKept DEF IInv, Goes, Ends, My
  <1>11. Room(sess)'
    <2>1. Live(sess') \subseteq Live(sess)
      BY <1>1, SMTT(60) DEF IInv, Typed, Sessions, Live, Registered, Goes, Ends, My, Detached, With
    <2> QED
      BY <2>1, RoomKept DEF IInv, Room, Goes, Ends, My
  <1> QED
    BY <1>5, <1>6, <1>7, <1>8, <1>9, <1>10, <1>11 DEF IInv

LEMMA ParksKeeps ==
    ASSUME TerminalAssumption, IInv(sess), NEW c \in Conns,
           Parks(c)
    PROVE  IInv(sess)'
  <1> DEFINE x == sid[c]
             e == [sess[x] EXCEPT !.writer = c]
  <1>1. x \in Sids /\ sess[x] \in Sessions
    BY DEF IInv, Typed, Sessions, Places, Holding, TerminalAssumption, Goes, Parks, My
  <1>2. e \in Sessions /\ (sess' = [sess EXCEPT ![x] = e] \/ sess' = sess)
    <2>1. 0 \in 0..(Ttl + 1)
      BY DEF TerminalAssumption
    <2>2. e \in Sessions
      BY <1>1, <2>1 DEF Sessions, Phases, IInv, Typed, TerminalAssumption, Goes, Parks, My
    <2>3. sess' = [sess EXCEPT ![x] = e] \/ sess' = sess
      BY <1>1 DEF Sessions, IInv, Typed, Goes, Parks, My, With
    <2> QED
      BY <2>2, <2>3
  <1>5. Typed(sess)'
    <2>1. sess' \in [Sids -> Sessions]
      <3> HIDE DEF x, e
      <3> QED
        BY <1>1, <1>2, EntryTyped DEF IInv, Typed
    <2>4. shut' \subseteq Conns
      BY DEF IInv, Typed, Goes, Parks, My
    <2>5. got' \in [Conns -> Seq(1..MaxChunks)]
      BY DEF IInv, Typed, Goes, Parks, My
    <2> QED
      BY <2>1, <2>4, <2>5 DEF IInv, Typed, Stages, Goes, Parks, My
  <1>6. Locks(sess)'
    BY <1>1, SMTT(60) DEF TerminalAssumption, IInv, Typed, Locks, Sessions, Holding, Registered, Places, Entries, Entry, Goes, Parks, My, With
  <1>7. Places(sess)'
    BY <1>1, SMTT(60) DEF TerminalAssumption, IInv, Typed, Locks, Sessions, Holding, Registered, Places, Entries, Entry, Goes, Parks, My, With
  <1>8. Entries(sess)'
    BY <1>1, SMTT(60) DEF TerminalAssumption, IInv, Typed, Locks, Sessions, Holding, Registered, Places, Entries, Entry, Reached, Goes, Parks, My, With
  <1>9. Tokens(sess)'
    BY <1>1, SMTT(60) DEF TerminalAssumption, IInv, Typed, Locks, Sessions, Holding, Registered, Places, Entries, Entry, Tokens, Goes, Parks, My, With
  <1>10. Unbroken(sess)'
    <2>1. ASSUME NEW t \in Sids, sess'[t].ws # NoConn, sess'[t].phase # "closed"
          PROVE  sess[t].ws = sess'[t].ws /\ sess[t].phase # "closed" /\ Due(sess'[t]) = Due(sess[t])
      BY <1>1, <2>1, SMTT(60) DEF IInv, Typed, Entries, Entry, Sessions, Due, TerminalAssumption, Goes, Parks, My, With
    <2> QED
      BY <2>1, OutputKept DEF IInv, Goes, Parks, My
  <1>11. Room(sess)'
    <2>1. Live(sess') \subseteq Live(sess)
      BY <1>1, SMTT(60) DEF IInv, Typed, Sessions, Live, Registered, Goes, Parks, My, With
    <2> QED
      BY <2>1, RoomKept DEF IInv, Room, Goes, Parks, My
  <1> QED
    BY <1>5, <1>6, <1>7, <1>8, <1>9, <1>10, <1>11 DEF IInv

LEMMA DrainsKeeps ==
    ASSUME TerminalAssumption, IInv(sess), NEW s \in Sids,
           Drains(s)
    PROVE  IInv(sess)'
  <1> DEFINE x == s
             e == [sess[x] EXCEPT !.writer = NoConn]
  <1>1. x \in Sids /\ sess[x] \in Sessions
    BY DEF IInv, Typed, Sessions, Places, Holding, TerminalAssumption, Goes, Drains
  <1>2. e \in Sessions /\ (sess' = [sess EXCEPT ![x] = e] \/ sess' = sess)
    <2>1. 0 \in 0..(Ttl + 1)
      BY DEF TerminalAssumption
    <2>2. e \in Sessions
      BY <1>1, <2>1 DEF Sessions, Phases, IInv, Typed, TerminalAssumption, Goes, Drains
    <2>3. sess' = [sess EXCEPT ![x] = e] \/ sess' = sess
      BY <1>1 DEF Sessions, IInv, Typed, Goes, Drains, With
    <2> QED
      BY <2>2, <2>3
  <1>5. Typed(sess)'
    <2>1. sess' \in [Sids -> Sessions]
      <3> HIDE DEF x, e
      <3> QED
        BY <1>1, <1>2, EntryTyped DEF IInv, Typed
    <2>4. shut' \subseteq Conns
      BY DEF IInv, Typed, Goes, Drains
    <2>5. got' \in [Conns -> Seq(1..MaxChunks)]
      BY DEF IInv, Typed, Goes, Drains
    <2> QED
      BY <2>1, <2>4, <2>5 DEF IInv, Typed, Stages, Goes, Drains
  <1>6. Locks(sess)'
    BY <1>1, SMTT(60) DEF TerminalAssumption, IInv, Typed, Locks, Sessions, Holding, Registered, Places, Entries, Entry, Goes, Drains, With
  <1>7. Places(sess)'
    BY <1>1, SMTT(60) DEF TerminalAssumption, IInv, Typed, Locks, Sessions, Holding, Registered, Places, Entries, Entry, Goes, Drains, With
  <1>8. Entries(sess)'
    BY <1>1, SMTT(60) DEF TerminalAssumption, IInv, Typed, Locks, Sessions, Holding, Registered, Places, Entries, Entry, Reached, Goes, Drains, With
  <1>9. Tokens(sess)'
    BY <1>1, SMTT(60) DEF TerminalAssumption, IInv, Typed, Locks, Sessions, Holding, Registered, Places, Entries, Entry, Tokens, Goes, Drains, With
  <1>10. Unbroken(sess)'
    <2>1. ASSUME NEW t \in Sids, sess'[t].ws # NoConn, sess'[t].phase # "closed"
          PROVE  sess[t].ws = sess'[t].ws /\ sess[t].phase # "closed" /\ Due(sess'[t]) = Due(sess[t])
      BY <1>1, <2>1, SMTT(60) DEF IInv, Typed, Entries, Entry, Sessions, Due, TerminalAssumption, Goes, Drains, With
    <2> QED
      BY <2>1, OutputKept DEF IInv, Goes, Drains
  <1>11. Room(sess)'
    <2>1. Live(sess') \subseteq Live(sess)
      BY <1>1, SMTT(60) DEF IInv, Typed, Sessions, Live, Registered, Goes, Drains, With
    <2> QED
      BY <2>1, RoomKept DEF IInv, Room, Goes, Drains
  <1> QED
    BY <1>5, <1>6, <1>7, <1>8, <1>9, <1>10, <1>11 DEF IInv

LEMMA KillsKeeps ==
    ASSUME TerminalAssumption, IInv(sess), NEW c \in Conns,
           Kills(c)
    PROVE  IInv(sess)'
  <1> DEFINE x == sid[c]
             e == [sess[x] EXCEPT !.phase = "closing", !.writer = NoConn]
  <1>1. x \in Sids /\ sess[x] \in Sessions
    BY DEF IInv, Typed, Sessions, Places, Holding, TerminalAssumption, Goes, Kills, BeginsClose, My
  <1>2. e \in Sessions /\ (sess' = [sess EXCEPT ![x] = e] \/ sess' = sess)
    <2>1. 0 \in 0..(Ttl + 1)
      BY DEF TerminalAssumption
    <2>2. e \in Sessions
      BY <1>1, <2>1 DEF Sessions, Phases, IInv, Typed, TerminalAssumption, Goes, Kills, BeginsClose, My
    <2>3. sess' = [sess EXCEPT ![x] = e] \/ sess' = sess
      BY <1>1 DEF Sessions, IInv, Typed, Goes, Kills, BeginsClose, My, With
    <2> QED
      BY <2>2, <2>3
  <1>5. Typed(sess)'
    <2>1. sess' \in [Sids -> Sessions]
      <3> HIDE DEF x, e
      <3> QED
        BY <1>1, <1>2, EntryTyped DEF IInv, Typed
    <2>4. shut' \subseteq Conns
      BY DEF IInv, Typed, Goes, Kills, BeginsClose, My
    <2>5. got' \in [Conns -> Seq(1..MaxChunks)]
      BY DEF IInv, Typed, Goes, Kills, BeginsClose, My
    <2> QED
      BY <2>1, <2>4, <2>5 DEF IInv, Typed, Stages, Goes, Kills, BeginsClose, My
  <1>6. Locks(sess)'
    BY <1>1, SMTT(60) DEF TerminalAssumption, IInv, Typed, Locks, Sessions, Holding, Registered, Places, Entries, Entry, Goes, Kills, BeginsClose, My, With
  <1>7. Places(sess)'
    BY <1>1, SMTT(60) DEF TerminalAssumption, IInv, Typed, Locks, Sessions, Holding, Registered, Places, Entries, Entry, Goes, Kills, BeginsClose, My, With
  <1>8. Entries(sess)'
    BY <1>1, SMTT(60) DEF TerminalAssumption, IInv, Typed, Locks, Sessions, Holding, Registered, Places, Entries, Entry, Reached, Goes, Kills, BeginsClose, My, With
  <1>9. Tokens(sess)'
    BY <1>1, SMTT(60) DEF TerminalAssumption, IInv, Typed, Locks, Sessions, Holding, Registered, Places, Entries, Entry, Tokens, Goes, Kills, BeginsClose, My, With
  <1>10. Unbroken(sess)'
    <2>1. ASSUME NEW t \in Sids, sess'[t].ws # NoConn, sess'[t].phase # "closed"
          PROVE  sess[t].ws = sess'[t].ws /\ sess[t].phase # "closed" /\ Due(sess'[t]) = Due(sess[t])
      BY <1>1, <2>1, SMTT(60) DEF IInv, Typed, Entries, Entry, Sessions, Due, TerminalAssumption, Goes, Kills, BeginsClose, My, With
    <2> QED
      BY <2>1, OutputKept DEF IInv, Goes, Kills, BeginsClose, My
  <1>11. Room(sess)'
    <2>1. Live(sess') \subseteq Live(sess)
      BY <1>1, SMTT(60) DEF IInv, Typed, Sessions, Live, Registered, Goes, Kills, BeginsClose, My, With
    <2> QED
      BY <2>1, RoomKept DEF IInv, Room, Goes, Kills, BeginsClose, My
  <1> QED
    BY <1>5, <1>6, <1>7, <1>8, <1>9, <1>10, <1>11 DEF IInv

LEMMA ClosesKeeps ==
    ASSUME TerminalAssumption, IInv(sess), NEW s \in Sids,
           Closes(s)
    PROVE  IInv(sess)'
  <1> DEFINE x == s
             e == [sess[x] EXCEPT !.phase = "closing", !.writer = NoConn]
  <1>1. x \in Sids /\ sess[x] \in Sessions
    BY DEF IInv, Typed, Sessions, Places, Holding, TerminalAssumption, Goes, Closes, BeginsClose
  <1>2. e \in Sessions /\ (sess' = [sess EXCEPT ![x] = e] \/ sess' = sess)
    <2>1. 0 \in 0..(Ttl + 1)
      BY DEF TerminalAssumption
    <2>2. e \in Sessions
      BY <1>1, <2>1 DEF Sessions, Phases, IInv, Typed, TerminalAssumption, Goes, Closes, BeginsClose
    <2>3. sess' = [sess EXCEPT ![x] = e] \/ sess' = sess
      BY <1>1 DEF Sessions, IInv, Typed, Goes, Closes, BeginsClose, With
    <2> QED
      BY <2>2, <2>3
  <1>5. Typed(sess)'
    <2>1. sess' \in [Sids -> Sessions]
      <3> HIDE DEF x, e
      <3> QED
        BY <1>1, <1>2, EntryTyped DEF IInv, Typed
    <2>4. shut' \subseteq Conns
      BY DEF IInv, Typed, Goes, Closes, BeginsClose
    <2>5. got' \in [Conns -> Seq(1..MaxChunks)]
      BY DEF IInv, Typed, Goes, Closes, BeginsClose
    <2> QED
      BY <2>1, <2>4, <2>5 DEF IInv, Typed, Stages, Goes, Closes, BeginsClose
  <1>6. Locks(sess)'
    BY <1>1, SMTT(60) DEF TerminalAssumption, IInv, Typed, Locks, Sessions, Holding, Registered, Places, Entries, Entry, Goes, Closes, BeginsClose, With
  <1>7. Places(sess)'
    BY <1>1, SMTT(60) DEF TerminalAssumption, IInv, Typed, Locks, Sessions, Holding, Registered, Places, Entries, Entry, Goes, Closes, BeginsClose, With
  <1>8. Entries(sess)'
    BY <1>1, SMTT(60) DEF TerminalAssumption, IInv, Typed, Locks, Sessions, Holding, Registered, Places, Entries, Entry, Reached, Goes, Closes, BeginsClose, With
  <1>9. Tokens(sess)'
    BY <1>1, SMTT(60) DEF TerminalAssumption, IInv, Typed, Locks, Sessions, Holding, Registered, Places, Entries, Entry, Tokens, Goes, Closes, BeginsClose, With
  <1>10. Unbroken(sess)'
    <2>1. ASSUME NEW t \in Sids, sess'[t].ws # NoConn, sess'[t].phase # "closed"
          PROVE  sess[t].ws = sess'[t].ws /\ sess[t].phase # "closed" /\ Due(sess'[t]) = Due(sess[t])
      BY <1>1, <2>1, SMTT(60) DEF IInv, Typed, Entries, Entry, Sessions, Due, TerminalAssumption, Goes, Closes, BeginsClose, With
    <2> QED
      BY <2>1, OutputKept DEF IInv, Goes, Closes, BeginsClose
  <1>11. Room(sess)'
    <2>1. Live(sess') \subseteq Live(sess)
      BY <1>1, SMTT(60) DEF IInv, Typed, Sessions, Live, Registered, Goes, Closes, BeginsClose, With
    <2> QED
      BY <2>1, RoomKept DEF IInv, Room, Goes, Closes, BeginsClose
  <1> QED
    BY <1>5, <1>6, <1>7, <1>8, <1>9, <1>10, <1>11 DEF IInv

LEMMA ClosedKeeps ==
    ASSUME TerminalAssumption, IInv(sess), NEW s \in Sids,
           Closed(s)
    PROVE  IInv(sess)'
  <1> DEFINE x == s
             e == [sess[x] EXCEPT !.phase = "closed", !.ws = NoConn, !.pump = NoConn, !.send = IF @ = Pump THEN NoConn ELSE @]
  <1>1. x \in Sids /\ sess[x] \in Sessions
    BY DEF IInv, Typed, Sessions, Places, Holding, TerminalAssumption, Goes, Closed, Booted
  <1>2. e \in Sessions /\ (sess' = [sess EXCEPT ![x] = e] \/ sess' = sess)
    <2>1. 0 \in 0..(Ttl + 1)
      BY DEF TerminalAssumption
    <2>2. e \in Sessions
      BY <1>1, <2>1 DEF Sessions, Phases, IInv, Typed, TerminalAssumption, Goes, Closed, Booted
    <2>3. sess' = [sess EXCEPT ![x] = e] \/ sess' = sess
      BY <1>1 DEF Sessions, IInv, Typed, Goes, Closed, Booted, With
    <2> QED
      BY <2>2, <2>3
  <1>5. Typed(sess)'
    <2>1. sess' \in [Sids -> Sessions]
      <3> HIDE DEF x, e
      <3> QED
        BY <1>1, <1>2, EntryTyped DEF IInv, Typed
    <2>3. sess[x].ws \in Conns \cup {NoConn} /\ shut \subseteq Conns
      BY <1>1 DEF IInv, Typed, Sessions
    <2>4. shut' \subseteq Conns
      BY <2>3 DEF Goes, Closed, Booted
    <2>5. got' \in [Conns -> Seq(1..MaxChunks)]
      BY DEF IInv, Typed, Goes, Closed, Booted
    <2> QED
      BY <2>1, <2>4, <2>5 DEF IInv, Typed, Stages, Goes, Closed, Booted
  <1>6. Locks(sess)'
    BY <1>1, SMTT(60) DEF TerminalAssumption, IInv, Typed, Locks, Sessions, Holding, Registered, Places, Entries, Entry, Goes, Closed, Booted, With
  <1>7. Places(sess)'
    BY <1>1, SMTT(60) DEF TerminalAssumption, IInv, Typed, Locks, Sessions, Holding, Registered, Places, Entries, Entry, Goes, Closed, Booted, With
  <1>8. Entries(sess)'
    BY <1>1, SMTT(60) DEF TerminalAssumption, IInv, Typed, Locks, Sessions, Holding, Registered, Places, Entries, Entry, Reached, Goes, Closed, Booted, With
  <1>9. Tokens(sess)'
    BY <1>1, SMTT(60) DEF TerminalAssumption, IInv, Typed, Locks, Sessions, Holding, Registered, Places, Entries, Entry, Tokens, Goes, Closed, Booted, With
  <1>10. Unbroken(sess)'
    <2>1. ASSUME NEW t \in Sids, sess'[t].ws # NoConn, sess'[t].phase # "closed"
          PROVE  sess[t].ws = sess'[t].ws /\ sess[t].phase # "closed" /\ Due(sess'[t]) = Due(sess[t])
      BY <1>1, <2>1, SMTT(60) DEF IInv, Typed, Entries, Entry, Sessions, Due, TerminalAssumption, Goes, Closed, Booted, With
    <2> QED
      BY <2>1, OutputKept DEF IInv, Goes, Closed, Booted
  <1>11. Room(sess)'
    <2>1. Live(sess') \subseteq Live(sess)
      BY <1>1, SMTT(60) DEF IInv, Typed, Sessions, Live, Registered, Goes, Closed, Booted, With
    <2> QED
      BY <2>1, RoomKept DEF IInv, Room, Goes, Closed, Booted
  <1> QED
    BY <1>5, <1>6, <1>7, <1>8, <1>9, <1>10, <1>11 DEF IInv

LEMMA ReplayedKeeps ==
    ASSUME TerminalAssumption, IInv(sess), NEW c \in Conns,
           Replayed(c)
    PROVE  IInv(sess)'
  <1> DEFINE x == sid[c]
             e == [sess[x] EXCEPT !.attach = NoConn, !.send = IF @ = c THEN NoConn ELSE @]
  <1>1. x \in Sids /\ sess[x] \in Sessions
    BY DEF IInv, Typed, Sessions, Places, Holding, TerminalAssumption, Goes, Replayed, My
  <1>2. e \in Sessions /\ (sess' = [sess EXCEPT ![x] = e] \/ sess' = sess)
    <2>1. 0 \in 0..(Ttl + 1)
      BY DEF TerminalAssumption
    <2>2. e \in Sessions
      BY <1>1, <2>1 DEF Sessions, Phases, IInv, Typed, TerminalAssumption, Goes, Replayed, My
    <2>3. sess' = [sess EXCEPT ![x] = e] \/ sess' = sess
      BY <1>1 DEF Sessions, IInv, Typed, Goes, Replayed, My, Unlocked, With
    <2> QED
      BY <2>2, <2>3
  <1>5. Typed(sess)'
    <2>1. sess' \in [Sids -> Sessions]
      <3> HIDE DEF x, e
      <3> QED
        BY <1>1, <1>2, EntryTyped DEF IInv, Typed
    <2>4. shut' \subseteq Conns
      BY DEF IInv, Typed, Goes, Replayed, My
    <2>5. got' \in [Conns -> Seq(1..MaxChunks)]
      BY DEF IInv, Typed, Goes, Replayed, My
    <2> QED
      BY <2>1, <2>4, <2>5 DEF IInv, Typed, Stages, Goes, Replayed, My
  <1>6. Locks(sess)'
    BY <1>1, SMTT(60) DEF TerminalAssumption, IInv, Typed, Locks, Sessions, Holding, Registered, Places, Entries, Entry, Goes, Replayed, My, Unlocked, With
  <1>7. Places(sess)'
    BY <1>1, SMTT(60) DEF TerminalAssumption, IInv, Typed, Locks, Sessions, Holding, Registered, Places, Entries, Entry, Goes, Replayed, My, Unlocked, With
  <1>8. Entries(sess)'
    BY <1>1, SMTT(60) DEF TerminalAssumption, IInv, Typed, Locks, Sessions, Holding, Registered, Places, Entries, Entry, Reached, Goes, Replayed, My, Unlocked, With
  <1>9. Tokens(sess)'
    BY <1>1, SMTT(60) DEF TerminalAssumption, IInv, Typed, Locks, Sessions, Holding, Registered, Places, Entries, Entry, Tokens, Goes, Replayed, My, Unlocked, With
  <1>10. Unbroken(sess)'
    <2>1. ASSUME NEW t \in Sids, sess'[t].ws # NoConn, sess'[t].phase # "closed"
          PROVE  sess[t].ws = sess'[t].ws /\ sess[t].phase # "closed" /\ Due(sess'[t]) = Due(sess[t])
      BY <1>1, <2>1, SMTT(60) DEF IInv, Typed, Entries, Entry, Sessions, Due, TerminalAssumption, Goes, Replayed, My, Unlocked, With
    <2> QED
      BY <2>1, OutputKept DEF IInv, Goes, Replayed, My
  <1>11. Room(sess)'
    <2>1. Live(sess') \subseteq Live(sess)
      BY <1>1, SMTT(60) DEF IInv, Typed, Sessions, Live, Registered, Goes, Replayed, My, Unlocked, With
    <2> QED
      BY <2>1, RoomKept DEF IInv, Room, Goes, Replayed, My
  <1> QED
    BY <1>5, <1>6, <1>7, <1>8, <1>9, <1>10, <1>11 DEF IInv

LEMMA SendFailsKeeps ==
    ASSUME TerminalAssumption, IInv(sess), NEW c \in Conns,
           SendFails(c)
    PROVE  IInv(sess)'
  <1> DEFINE x == sid[c]
             e == [sess[x] EXCEPT !.attach = NoConn, !.send = IF @ = c THEN NoConn ELSE @, !.ws = IF @ = c THEN NoConn ELSE @, !.idle = IF sess[x].ws = c THEN 0 ELSE @, !.writer = IF sess[x].ws = c THEN NoConn ELSE @]
  <1>1. x \in Sids /\ sess[x] \in Sessions
    BY DEF IInv, Typed, Sessions, Places, Holding, TerminalAssumption, Goes, SendFails, My
  <1>2. e \in Sessions /\ (sess' = [sess EXCEPT ![x] = e] \/ sess' = sess)
    <2>1. 0 \in 0..(Ttl + 1)
      BY DEF TerminalAssumption
    <2>2. e \in Sessions
      BY <1>1, <2>1 DEF Sessions, Phases, IInv, Typed, TerminalAssumption, Goes, SendFails, My
    <2>3. sess' = [sess EXCEPT ![x] = e] \/ sess' = sess
      BY <1>1 DEF Sessions, IInv, Typed, Goes, SendFails, My, Unlocked, Detached, With
    <2> QED
      BY <2>2, <2>3
  <1>5. Typed(sess)'
    <2>1. sess' \in [Sids -> Sessions]
      <3> HIDE DEF x, e
      <3> QED
        BY <1>1, <1>2, EntryTyped DEF IInv, Typed
    <2>4. shut' \subseteq Conns
      BY DEF IInv, Typed, Goes, SendFails, My
    <2>5. got' \in [Conns -> Seq(1..MaxChunks)]
      BY DEF IInv, Typed, Goes, SendFails, My
    <2> QED
      BY <2>1, <2>4, <2>5 DEF IInv, Typed, Stages, Goes, SendFails, My
  <1>6. Locks(sess)'
    BY <1>1, SMTT(60) DEF TerminalAssumption, IInv, Typed, Locks, Sessions, Holding, Registered, Places, Entries, Entry, Goes, SendFails, My, Unlocked, Detached, With
  <1>7. Places(sess)'
    BY <1>1, SMTT(60) DEF TerminalAssumption, IInv, Typed, Locks, Sessions, Holding, Registered, Places, Entries, Entry, Goes, SendFails, My, Unlocked, Detached, With
  <1>8. Entries(sess)'
    <2>1. \A t \in Sids \ {x} : sess'[t] = sess[t]
      BY <1>1 DEF IInv, Typed, Goes, SendFails, My, Unlocked, Detached, With
    <2>2. /\ sess'[x].phase = sess[x].phase /\ sess'[x].attach = NoConn
          /\ sess'[x].ws # NoConn => sess'[x].ws = sess[x].ws /\ sess'[x].ws # c
          /\ sess'[x].pump = sess[x].pump /\ sess'[x].out = sess[x].out
          /\ sess'[x].writer = sess[x].writer \/ sess'[x].writer = NoConn
          /\ sess[x].ws = c => sess'[x].writer = NoConn /\ sess'[x].ws = NoConn
          /\ sess[x].ws # c => sess'[x].ws = sess[x].ws
          /\ sess'[x].send = Pump => sess[x].send = Pump
      BY <1>1, SMTT(60) DEF IInv, Typed, Sessions, TerminalAssumption, Goes, SendFails, My, Unlocked, Detached, With
    <2>3. \A d, t : Reached(d, t) => Reached(d, t)'
      BY DEF IInv, Typed, Reached, Stages, Goes, SendFails, My
    <2>4. \A d \in Conns \ {c} : pc'[d] = pc[d]
      BY DEF IInv, Typed, Goes, SendFails, My
    <2>5. \A t \in Sids : Entry(t, sess[t]) /\ sess[t] \in Sessions
      BY DEF IInv, Typed, Entries
    <2>6. \A t \in Sids \ {x} : Entry(t, sess[t])'
      BY <1>1, <2>1, <2>3, <2>4, <2>5, SMTT(60)
      DEF Entry, IInv, Locks, Sessions, Holding, Registered, Reached, TerminalAssumption, Goes, SendFails, My
    <2>7. Entry(x, sess[x])'
      BY <1>1, <2>2, <2>3, <2>4, <2>5, SMTT(60)
      DEF Entry, Sessions, Registered, Reached, TerminalAssumption, Goes, SendFails, My
    <2> QED
      BY <1>1, <2>6, <2>7 DEF Entries, Goes, SendFails, My
  <1>9. Tokens(sess)'
    BY <1>1, SMTT(60) DEF TerminalAssumption, IInv, Typed, Locks, Sessions, Holding, Registered, Places, Entries, Entry, Tokens, Goes, SendFails, My, Unlocked, Detached, With
  <1>10. Unbroken(sess)'
    <2>1. ASSUME NEW t \in Sids, sess'[t].ws # NoConn, sess'[t].phase # "closed"
          PROVE  sess[t].ws = sess'[t].ws /\ sess[t].phase # "closed" /\ Due(sess'[t]) = Due(sess[t])
      BY <1>1, <2>1, SMTT(60) DEF IInv, Typed, Entries, Entry, Sessions, Due, TerminalAssumption, Goes, SendFails, My, Unlocked, Detached, With
    <2> QED
      BY <2>1, OutputKept DEF IInv, Goes, SendFails, My
  <1>11. Room(sess)'
    <2>1. Live(sess') \subseteq Live(sess)
      BY <1>1, SMTT(60) DEF IInv, Typed, Sessions, Live, Registered, Goes, SendFails, My, Unlocked, Detached, With
    <2> QED
      BY <2>1, RoomKept DEF IInv, Room, Goes, SendFails, My
  <1> QED
    BY <1>5, <1>6, <1>7, <1>8, <1>9, <1>10, <1>11 DEF IInv

\* The send returned.
LEMMA SentKeeps ==
    ASSUME TerminalAssumption, IInv(sess), NEW s \in Sids,
           sess[s].send = Pump,
           sess' = PumpDone(s),
           UNCHANGED <<creator, pc, sid, role, got, shut, caps, reaper>>
    PROVE  IInv(sess)'
  <1> DEFINE x == s
             e == [sess[x] EXCEPT !.send = NoConn, !.pump = NoConn]
  <1>1. x \in Sids /\ sess[x] \in Sessions
    BY DEF IInv, Typed, Sessions, Places, Holding, TerminalAssumption, Goes, PumpDone
  <1>2. e \in Sessions /\ (sess' = [sess EXCEPT ![x] = e] \/ sess' = sess)
    <2>1. 0 \in 0..(Ttl + 1)
      BY DEF TerminalAssumption
    <2>2. e \in Sessions
      BY <1>1, <2>1 DEF Sessions, Phases, IInv, Typed, TerminalAssumption, Goes, PumpDone
    <2>3. sess' = [sess EXCEPT ![x] = e] \/ sess' = sess
      BY <1>1 DEF Sessions, IInv, Typed, Goes, PumpDone, PumpDone, With
    <2> QED
      BY <2>2, <2>3
  <1>5. Typed(sess)'
    <2>1. sess' \in [Sids -> Sessions]
      <3> HIDE DEF x, e
      <3> QED
        BY <1>1, <1>2, EntryTyped DEF IInv, Typed
    <2>4. shut' \subseteq Conns
      BY DEF IInv, Typed, Goes, PumpDone
    <2>5. got' \in [Conns -> Seq(1..MaxChunks)]
      BY DEF IInv, Typed, Goes, PumpDone
    <2> QED
      BY <2>1, <2>4, <2>5 DEF IInv, Typed, Stages, Goes, PumpDone
  <1>6. Locks(sess)'
    BY <1>1, SMTT(60) DEF TerminalAssumption, IInv, Typed, Locks, Sessions, Holding, Registered, Places, Entries, Entry, Goes, PumpDone, PumpDone, With
  <1>7. Places(sess)'
    BY <1>1, SMTT(60) DEF TerminalAssumption, IInv, Typed, Locks, Sessions, Holding, Registered, Places, Entries, Entry, Goes, PumpDone, PumpDone, With
  <1>8. Entries(sess)'
    BY <1>1, SMTT(60) DEF TerminalAssumption, IInv, Typed, Locks, Sessions, Holding, Registered, Places, Entries, Entry, Reached, Goes, PumpDone, PumpDone, With
  <1>9. Tokens(sess)'
    BY <1>1, SMTT(60) DEF TerminalAssumption, IInv, Typed, Locks, Sessions, Holding, Registered, Places, Entries, Entry, Tokens, Goes, PumpDone, PumpDone, With
  <1>10. Unbroken(sess)'
    <2>1. ASSUME NEW t \in Sids, sess'[t].ws # NoConn, sess'[t].phase # "closed"
          PROVE  sess[t].ws = sess'[t].ws /\ sess[t].phase # "closed" /\ Due(sess'[t]) = Due(sess[t])
      BY <1>1, <2>1, SMTT(60) DEF IInv, Typed, Entries, Entry, Sessions, Due, TerminalAssumption, Goes, PumpDone, PumpDone, With
    <2> QED
      BY <2>1, OutputKept DEF IInv, Goes, PumpDone
  <1>11. Room(sess)'
    <2>1. Live(sess') \subseteq Live(sess)
      BY <1>1, SMTT(60) DEF IInv, Typed, Sessions, Live, Registered, Goes, PumpDone, PumpDone, With
    <2> QED
      BY <2>1, RoomKept DEF IInv, Room, Goes, PumpDone
  <1> QED
    BY <1>5, <1>6, <1>7, <1>8, <1>9, <1>10, <1>11 DEF IInv

\* The send failed.
LEMMA SentToNobodyKeeps ==
    ASSUME TerminalAssumption, IInv(sess), NEW s \in Sids,
           sess[s].send = Pump,
           sess' = Detached(PumpDone(s), s, sess[s].pump),
           UNCHANGED <<creator, pc, sid, role, got, shut, caps, reaper>>
    PROVE  IInv(sess)'
  <1> DEFINE x == s
             e == [sess[x] EXCEPT !.send = NoConn, !.pump = NoConn, !.ws = IF @ = sess[x].pump THEN NoConn ELSE @, !.idle = IF sess[x].ws = sess[x].pump THEN 0 ELSE @, !.writer = IF sess[x].ws = sess[x].pump THEN NoConn ELSE @]
  <1>1. x \in Sids /\ sess[x] \in Sessions
    BY DEF IInv, Typed, Sessions, Places, Holding, TerminalAssumption, Goes, PumpDone
  <1>2. e \in Sessions /\ (sess' = [sess EXCEPT ![x] = e] \/ sess' = sess)
    <2>1. 0 \in 0..(Ttl + 1)
      BY DEF TerminalAssumption
    <2>2. e \in Sessions
      BY <1>1, <2>1 DEF Sessions, Phases, IInv, Typed, TerminalAssumption, Goes, PumpDone
    <2>3. sess' = [sess EXCEPT ![x] = e] \/ sess' = sess
      BY <1>1 DEF Sessions, IInv, Typed, Goes, PumpDone, PumpDone, Detached, With
    <2> QED
      BY <2>2, <2>3
  <1>5. Typed(sess)'
    <2>1. sess' \in [Sids -> Sessions]
      <3> HIDE DEF x, e
      <3> QED
        BY <1>1, <1>2, EntryTyped DEF IInv, Typed
    <2>4. shut' \subseteq Conns
      BY DEF IInv, Typed, Goes, PumpDone
    <2>5. got' \in [Conns -> Seq(1..MaxChunks)]
      BY DEF IInv, Typed, Goes, PumpDone
    <2> QED
      BY <2>1, <2>4, <2>5 DEF IInv, Typed, Stages, Goes, PumpDone
  <1>6. Locks(sess)'
    BY <1>1, SMTT(60) DEF TerminalAssumption, IInv, Typed, Locks, Sessions, Holding, Registered, Places, Entries, Entry, Goes, PumpDone, PumpDone, Detached, With
  <1>7. Places(sess)'
    BY <1>1, SMTT(60) DEF TerminalAssumption, IInv, Typed, Locks, Sessions, Holding, Registered, Places, Entries, Entry, Goes, PumpDone, PumpDone, Detached, With
  <1>8. Entries(sess)'
    BY <1>1, SMTT(60) DEF TerminalAssumption, IInv, Typed, Locks, Sessions, Holding, Registered, Places, Entries, Entry, Reached, Goes, PumpDone, PumpDone, Detached, With
  <1>9. Tokens(sess)'
    BY <1>1, SMTT(60) DEF TerminalAssumption, IInv, Typed, Locks, Sessions, Holding, Registered, Places, Entries, Entry, Tokens, Goes, PumpDone, PumpDone, Detached, With
  <1>10. Unbroken(sess)'
    <2>1. ASSUME NEW t \in Sids, sess'[t].ws # NoConn, sess'[t].phase # "closed"
          PROVE  sess[t].ws = sess'[t].ws /\ sess[t].phase # "closed" /\ Due(sess'[t]) = Due(sess[t])
      BY <1>1, <2>1, SMTT(60) DEF IInv, Typed, Entries, Entry, Sessions, Due, TerminalAssumption, Goes, PumpDone, PumpDone, Detached, With
    <2> QED
      BY <2>1, OutputKept DEF IInv, Goes, PumpDone
  <1>11. Room(sess)'
    <2>1. Live(sess') \subseteq Live(sess)
      BY <1>1, SMTT(60) DEF IInv, Typed, Sessions, Live, Registered, Goes, PumpDone, PumpDone, Detached, With
    <2> QED
      BY <2>1, RoomKept DEF IInv, Room, Goes, PumpDone
  <1> QED
    BY <1>5, <1>6, <1>7, <1>8, <1>9, <1>10, <1>11 DEF IInv

\* The chunk was for a socket that is not attached any more.
LEMMA PumpSkipsKeeps ==
    ASSUME TerminalAssumption, IInv(sess), NEW s \in Sids,
           Waiting(s),
           sess[s].ws # sess[s].pump,
           sess' = With(sess, s, [sess[s] EXCEPT !.pump = NoConn]),
           UNCHANGED <<creator, pc, sid, role, got, shut, caps, reaper>>
    PROVE  IInv(sess)'
  <1> DEFINE x == s
             e == [sess[x] EXCEPT !.pump = NoConn]
  <1>1. x \in Sids /\ sess[x] \in Sessions
    BY DEF IInv, Typed, Sessions, Places, Holding, TerminalAssumption, Goes, Waiting
  <1>2. e \in Sessions /\ (sess' = [sess EXCEPT ![x] = e] \/ sess' = sess)
    <2>1. 0 \in 0..(Ttl + 1)
      BY DEF TerminalAssumption
    <2>2. e \in Sessions
      BY <1>1, <2>1 DEF Sessions, Phases, IInv, Typed, TerminalAssumption, Goes, Waiting
    <2>3. sess' = [sess EXCEPT ![x] = e] \/ sess' = sess
      BY <1>1 DEF Sessions, IInv, Typed, Goes, Waiting, With
    <2> QED
      BY <2>2, <2>3
  <1>5. Typed(sess)'
    <2>1. sess' \in [Sids -> Sessions]
      <3> HIDE DEF x, e
      <3> QED
        BY <1>1, <1>2, EntryTyped DEF IInv, Typed
    <2>4. shut' \subseteq Conns
      BY DEF IInv, Typed, Goes, Waiting
    <2>5. got' \in [Conns -> Seq(1..MaxChunks)]
      BY DEF IInv, Typed, Goes, Waiting
    <2> QED
      BY <2>1, <2>4, <2>5 DEF IInv, Typed, Stages, Goes, Waiting
  <1>6. Locks(sess)'
    BY <1>1, SMTT(60) DEF TerminalAssumption, IInv, Typed, Locks, Sessions, Holding, Registered, Places, Entries, Entry, Goes, Waiting, With
  <1>7. Places(sess)'
    BY <1>1, SMTT(60) DEF TerminalAssumption, IInv, Typed, Locks, Sessions, Holding, Registered, Places, Entries, Entry, Goes, Waiting, With
  <1>8. Entries(sess)'
    BY <1>1, SMTT(60) DEF TerminalAssumption, IInv, Typed, Locks, Sessions, Holding, Registered, Places, Entries, Entry, Reached, Goes, Waiting, With
  <1>9. Tokens(sess)'
    BY <1>1, SMTT(60) DEF TerminalAssumption, IInv, Typed, Locks, Sessions, Holding, Registered, Places, Entries, Entry, Tokens, Goes, Waiting, With
  <1>10. Unbroken(sess)'
    <2>1. ASSUME NEW t \in Sids, sess'[t].ws # NoConn, sess'[t].phase # "closed"
          PROVE  sess[t].ws = sess'[t].ws /\ sess[t].phase # "closed" /\ Due(sess'[t]) = Due(sess[t])
      BY <1>1, <2>1, SMTT(60) DEF IInv, Typed, Entries, Entry, Sessions, Due, TerminalAssumption, Goes, Waiting, With
    <2> QED
      BY <2>1, OutputKept DEF IInv, Goes, Waiting
  <1>11. Room(sess)'
    <2>1. Live(sess') \subseteq Live(sess)
      BY <1>1, SMTT(60) DEF IInv, Typed, Sessions, Live, Registered, Goes, Waiting, With
    <2> QED
      BY <2>1, RoomKept DEF IInv, Room, Goes, Waiting
  <1> QED
    BY <1>5, <1>6, <1>7, <1>8, <1>9, <1>10, <1>11 DEF IInv

\* The chunk is sent to the socket it was read for.
LEMMA PumpSendsNowKeeps ==
    ASSUME TerminalAssumption, IInv(sess), NEW s \in Sids,
           Waiting(s),
           sess[s].ws = sess[s].pump,
           sess' = With(sess, s, [sess[s] EXCEPT !.send = Pump]),
           SendsTo(sess[s].ws, s),
           UNCHANGED <<creator, pc, sid, role, shut, caps, reaper>>
    PROVE  IInv(sess)'
  <1> DEFINE x == s
             e == [sess[x] EXCEPT !.send = Pump]
  <1>1. x \in Sids /\ sess[x] \in Sessions
    BY DEF IInv, Typed, Sessions, Places, Holding, TerminalAssumption, Goes, Waiting, SendsTo
  <1>2. e \in Sessions /\ (sess' = [sess EXCEPT ![x] = e] \/ sess' = sess)
    <2>1. 0 \in 0..(Ttl + 1)
      BY DEF TerminalAssumption
    <2>2. e \in Sessions
      BY <1>1, <2>1 DEF Sessions, Phases, IInv, Typed, TerminalAssumption, Goes, Waiting, SendsTo
    <2>3. sess' = [sess EXCEPT ![x] = e] \/ sess' = sess
      BY <1>1 DEF Sessions, IInv, Typed, Goes, Waiting, SendsTo, With
    <2> QED
      BY <2>2, <2>3
  <1>3. Run(got[sess[x].ws], sess[x].out - 1) /\ sess[x].out \in 1..MaxChunks /\ got[sess[x].ws] \in Seq(1..MaxChunks)
    <2>1. sess[x].ws \in Conns /\ sess[x].ws # NoConn /\ sess[x].phase # "closed" /\ sess[x].out \in Nat
      <3>1. sess[x].ws # NoConn
        BY DEF Goes, Waiting, SendsTo
      <3>2. sess[x].pump # NoConn => sess[x].phase # "closed"
        BY <1>1 DEF IInv, Entries, Entry
      <3> QED
        BY <1>1, <3>1, <3>2 DEF Sessions, Goes, Waiting, SendsTo
    <2>2. Due(sess[x]) = sess[x].out - 1 /\ sess[x].out \in 1..MaxChunks
      BY <1>1, <2>1 DEF IInv, Sessions, Entries, Entry, Due, TerminalAssumption, Goes, Waiting, SendsTo
    <2> QED
      BY <1>1, <2>1, <2>2 DEF IInv, Typed, Unbroken
  <1>4. /\ Append(got[sess[x].ws], sess[x].out) \in Seq(1..MaxChunks)
        /\ Run(Append(got[sess[x].ws], sess[x].out), sess[x].out)
    BY <1>3, AppendExtends
  <1>5. Typed(sess)'
    <2>1. sess' \in [Sids -> Sessions]
      <3> HIDE DEF x, e
      <3> QED
        BY <1>1, <1>2, EntryTyped DEF IInv, Typed
    <2>4. shut' \subseteq Conns
      BY DEF IInv, Typed, Goes, Waiting, SendsTo
    <2>5. got' \in [Conns -> Seq(1..MaxChunks)]
      BY <1>4 DEF IInv, Typed, Goes, Waiting, SendsTo
    <2> QED
      BY <2>1, <2>4, <2>5 DEF IInv, Typed, Stages, Goes, Waiting, SendsTo
  <1>6. Locks(sess)'
    BY <1>1, SMTT(60) DEF TerminalAssumption, IInv, Typed, Locks, Sessions, Holding, Registered, Places, Entries, Entry, Goes, Waiting, SendsTo, With
  <1>7. Places(sess)'
    BY <1>1, SMTT(60) DEF TerminalAssumption, IInv, Typed, Locks, Sessions, Holding, Registered, Places, Entries, Entry, Goes, Waiting, SendsTo, With
  <1>8. Entries(sess)'
    BY <1>1, SMTT(60) DEF TerminalAssumption, IInv, Typed, Locks, Sessions, Holding, Registered, Places, Entries, Entry, Reached, Goes, Waiting, SendsTo, With
  <1>9. Tokens(sess)'
    BY <1>1, SMTT(60) DEF TerminalAssumption, IInv, Typed, Locks, Sessions, Holding, Registered, Places, Entries, Entry, Tokens, Goes, Waiting, SendsTo, With
  <1>10. Unbroken(sess)'
    <2>1. sess'[x].ws = sess[x].ws /\ Due(sess'[x]) = sess[x].out /\ \A t \in Sids \ {x} : sess'[t] = sess[t]
      BY <1>1 DEF IInv, Typed, Sessions, Due, Goes, Waiting, SendsTo, With
    <2>2. got'[sess[x].ws] = Append(got[sess[x].ws], sess[x].out) /\ sess[x].ws \in Conns
      BY <1>1, SMTT(60) DEF IInv, Typed, Sessions, Entries, Entry, Reached, TerminalAssumption, Goes, Waiting, SendsTo
    <2>3. \A t \in Sids \ {x} : sess[t].ws # NoConn => got'[sess[t].ws] = got[sess[t].ws]
      BY <1>1, <2>2, SMTT(60) DEF IInv, Typed, Sessions, Entries, Entry, Reached, TerminalAssumption, Goes, Waiting, SendsTo
    <2> QED
      BY <1>1, <1>4, <2>1, <2>2, <2>3 DEF IInv, Unbroken
  <1>11. Room(sess)'
    <2>1. Live(sess') \subseteq Live(sess)
      BY <1>1, SMTT(60) DEF IInv, Typed, Sessions, Live, Registered, Goes, Waiting, SendsTo, With
    <2> QED
      BY <2>1, RoomKept DEF IInv, Room, Goes, Waiting, SendsTo
  <1> QED
    BY <1>5, <1>6, <1>7, <1>8, <1>9, <1>10, <1>11 DEF IInv

\* A chunk is read and goes out at once.
LEMMA ProducesForSomeKeeps ==
    ASSUME TerminalAssumption, IInv(sess), NEW s \in Sids,
           sess[s].phase \in {"live", "doomed", "closing"},
           sess[s].pump = NoConn,
           sess[s].out < MaxChunks,
           sess[s].ws # NoConn,
           sess[s].send = NoConn,
           sess' = With(sess, s, [[sess[s] EXCEPT !.out = @ + 1] EXCEPT !.pump = sess[s].ws, !.send = Pump]),
           got' = [got EXCEPT ![sess[s].ws] = Append(@, sess[s].out + 1)],
           UNCHANGED <<creator, pc, sid, role, shut, caps, reaper>>
    PROVE  IInv(sess)'
  <1> DEFINE x == s
             e == [sess[x] EXCEPT !.out = @ + 1, !.pump = sess[x].ws, !.send = Pump]
  <1>1. x \in Sids /\ sess[x] \in Sessions /\ sess[x].out + 1 \in 0..MaxChunks
    BY DEF IInv, Typed, Sessions, Places, Holding, TerminalAssumption, Goes
  <1>2. e \in Sessions /\ (sess' = [sess EXCEPT ![x] = e] \/ sess' = sess)
    <2>1. 0 \in 0..(Ttl + 1)
      BY DEF TerminalAssumption
    <2>2. e \in Sessions
      BY <1>1, <2>1 DEF Sessions, Phases, IInv, Typed, TerminalAssumption, Goes
    <2>3. sess' = [sess EXCEPT ![x] = e] \/ sess' = sess
      BY <1>1 DEF Sessions, IInv, Typed, Goes, With
    <2> QED
      BY <2>2, <2>3
  <1>3. Run(got[sess[x].ws], (sess[x].out + 1) - 1) /\ (sess[x].out + 1) \in 1..MaxChunks /\ got[sess[x].ws] \in Seq(1..MaxChunks)
    <2>1. sess[x].ws \in Conns /\ sess[x].ws # NoConn /\ sess[x].phase # "closed" /\ sess[x].out \in Nat
      <3>1. sess[x].ws # NoConn
        BY DEF Goes
      <3>2. sess[x].pump # NoConn => sess[x].phase # "closed"
        BY <1>1 DEF IInv, Entries, Entry
      <3> QED
        BY <1>1, <3>1, <3>2 DEF Sessions, Goes
    <2>2. Due(sess[x]) = (sess[x].out + 1) - 1 /\ (sess[x].out + 1) \in 1..MaxChunks
      BY <1>1, <2>1 DEF IInv, Sessions, Entries, Entry, Due, TerminalAssumption, Goes
    <2> QED
      BY <1>1, <2>1, <2>2 DEF IInv, Typed, Unbroken
  <1>4. /\ Append(got[sess[x].ws], (sess[x].out + 1)) \in Seq(1..MaxChunks)
        /\ Run(Append(got[sess[x].ws], (sess[x].out + 1)), (sess[x].out + 1))
    BY <1>3, AppendExtends
  <1>5. Typed(sess)'
    <2>1. sess' \in [Sids -> Sessions]
      <3> HIDE DEF x, e
      <3> QED
        BY <1>1, <1>2, EntryTyped DEF IInv, Typed
    <2>4. shut' \subseteq Conns
      BY DEF IInv, Typed, Goes
    <2>5. got' \in [Conns -> Seq(1..MaxChunks)]
      BY <1>4 DEF IInv, Typed, Goes
    <2> QED
      BY <2>1, <2>4, <2>5 DEF IInv, Typed, Stages, Goes
  <1>6. Locks(sess)'
    BY <1>1, SMTT(60) DEF TerminalAssumption, IInv, Typed, Locks, Sessions, Holding, Registered, Places, Entries, Entry, Goes, With
  <1>7. Places(sess)'
    BY <1>1, SMTT(60) DEF TerminalAssumption, IInv, Typed, Locks, Sessions, Holding, Registered, Places, Entries, Entry, Goes, With
  <1>8. Entries(sess)'
    BY <1>1, SMTT(60) DEF TerminalAssumption, IInv, Typed, Locks, Sessions, Holding, Registered, Places, Entries, Entry, Reached, Goes, With
  <1>9. Tokens(sess)'
    BY <1>1, SMTT(60) DEF TerminalAssumption, IInv, Typed, Locks, Sessions, Holding, Registered, Places, Entries, Entry, Tokens, Goes, With
  <1>10. Unbroken(sess)'
    <2>1. sess'[x].ws = sess[x].ws /\ Due(sess'[x]) = (sess[x].out + 1) /\ \A t \in Sids \ {x} : sess'[t] = sess[t]
      BY <1>1 DEF IInv, Typed, Sessions, Due, Goes, With
    <2>2. got'[sess[x].ws] = Append(got[sess[x].ws], (sess[x].out + 1)) /\ sess[x].ws \in Conns
      BY <1>1, SMTT(60) DEF IInv, Typed, Sessions, Entries, Entry, Reached, TerminalAssumption, Goes
    <2>3. \A t \in Sids \ {x} : sess[t].ws # NoConn => got'[sess[t].ws] = got[sess[t].ws]
      BY <1>1, <2>2, SMTT(60) DEF IInv, Typed, Sessions, Entries, Entry, Reached, TerminalAssumption, Goes
    <2> QED
      BY <1>1, <1>4, <2>1, <2>2, <2>3 DEF IInv, Unbroken
  <1>11. Room(sess)'
    <2>1. Live(sess') \subseteq Live(sess)
      BY <1>1, SMTT(60) DEF IInv, Typed, Sessions, Live, Registered, Goes, With
    <2> QED
      BY <2>1, RoomKept DEF IInv, Room, Goes
  <1> QED
    BY <1>5, <1>6, <1>7, <1>8, <1>9, <1>10, <1>11 DEF IInv

\* A chunk is read, for nobody or for a socket that a replay is being sent to.
LEMMA ProducesHeldKeeps ==
    ASSUME TerminalAssumption, IInv(sess), NEW s \in Sids,
           sess[s].phase \in {"live", "doomed", "closing"},
           sess[s].pump = NoConn,
           sess[s].out < MaxChunks,
           sess' = With(sess, s, [[sess[s] EXCEPT !.out = @ + 1] EXCEPT !.pump = sess[s].ws]),
           sess[s].ws = NoConn \/ sess[s].send # NoConn,
           UNCHANGED <<creator, pc, sid, role, got, shut, caps, reaper>>
    PROVE  IInv(sess)'
  <1> DEFINE x == s
             e == [sess[x] EXCEPT !.out = @ + 1, !.pump = sess[x].ws]
  <1>1. x \in Sids /\ sess[x] \in Sessions /\ sess[x].out + 1 \in 0..MaxChunks
    BY DEF IInv, Typed, Sessions, Places, Holding, TerminalAssumption, Goes
  <1>2. e \in Sessions /\ (sess' = [sess EXCEPT ![x] = e] \/ sess' = sess)
    <2>1. 0 \in 0..(Ttl + 1)
      BY DEF TerminalAssumption
    <2>2. e \in Sessions
      BY <1>1, <2>1 DEF Sessions, Phases, IInv, Typed, TerminalAssumption, Goes
    <2>3. sess' = [sess EXCEPT ![x] = e] \/ sess' = sess
      BY <1>1 DEF Sessions, IInv, Typed, Goes, With
    <2> QED
      BY <2>2, <2>3
  <1>5. Typed(sess)'
    <2>1. sess' \in [Sids -> Sessions]
      <3> HIDE DEF x, e
      <3> QED
        BY <1>1, <1>2, EntryTyped DEF IInv, Typed
    <2>4. shut' \subseteq Conns
      BY DEF IInv, Typed, Goes
    <2>5. got' \in [Conns -> Seq(1..MaxChunks)]
      BY DEF IInv, Typed, Goes
    <2> QED
      BY <2>1, <2>4, <2>5 DEF IInv, Typed, Stages, Goes
  <1>6. Locks(sess)'
    BY <1>1, SMTT(60) DEF TerminalAssumption, IInv, Typed, Locks, Sessions, Holding, Registered, Places, Entries, Entry, Goes, With
  <1>7. Places(sess)'
    BY <1>1, SMTT(60) DEF TerminalAssumption, IInv, Typed, Locks, Sessions, Holding, Registered, Places, Entries, Entry, Goes, With
  <1>8. Entries(sess)'
    BY <1>1, SMTT(60) DEF TerminalAssumption, IInv, Typed, Locks, Sessions, Holding, Registered, Places, Entries, Entry, Reached, Goes, With
  <1>9. Tokens(sess)'
    BY <1>1, SMTT(60) DEF TerminalAssumption, IInv, Typed, Locks, Sessions, Holding, Registered, Places, Entries, Entry, Tokens, Goes, With
  <1>10. Unbroken(sess)'
    <2>1. ASSUME NEW t \in Sids, sess'[t].ws # NoConn, sess'[t].phase # "closed"
          PROVE  sess[t].ws = sess'[t].ws /\ sess[t].phase # "closed" /\ Due(sess'[t]) = Due(sess[t])
      BY <1>1, <2>1, SMTT(60) DEF IInv, Typed, Entries, Entry, Sessions, Due, TerminalAssumption, Goes, With
    <2> QED
      BY <2>1, OutputKept DEF IInv, Goes
  <1>11. Room(sess)'
    <2>1. Live(sess') \subseteq Live(sess)
      BY <1>1, SMTT(60) DEF IInv, Typed, Sessions, Live, Registered, Goes, With
    <2> QED
      BY <2>1, RoomKept DEF IInv, Room, Goes
  <1> QED
    BY <1>5, <1>6, <1>7, <1>8, <1>9, <1>10, <1>11 DEF IInv

\* The snapshot is taken, the socket attached, and the replay on its way.
LEMMA TakesReplayKeeps ==
    ASSUME TerminalAssumption, IInv(sess), NEW c \in Conns,
           pc[c] \in {"announcing", "wantSend"},
           My(c).send = NoConn,
           My(c).out > 0,
           sess' = With(sess, sid[c], [[My(c) EXCEPT !.ws = c, !.idle = 0] EXCEPT !.send = c]),
           got' = [got EXCEPT ![c] = Snapshot(sid[c])],
           Goes(c, "replay"),
           UNCHANGED <<creator, sid, role, shut, caps, reaper>>
    PROVE  IInv(sess)'
  <1> DEFINE x == sid[c]
             e == [sess[x] EXCEPT !.ws = c, !.idle = 0, !.send = c]
  <1>1. x \in Sids /\ sess[x] \in Sessions
    BY DEF IInv, Typed, Sessions, Places, Holding, TerminalAssumption, Goes, My
  <1>2. e \in Sessions /\ (sess' = [sess EXCEPT ![x] = e] \/ sess' = sess)
    <2>1. 0 \in 0..(Ttl + 1)
      BY DEF TerminalAssumption
    <2>2. e \in Sessions
      BY <1>1, <2>1 DEF Sessions, Phases, IInv, Typed, TerminalAssumption, Goes, My
    <2>3. sess' = [sess EXCEPT ![x] = e] \/ sess' = sess
      BY <1>1 DEF Sessions, IInv, Typed, Goes, My, With
    <2> QED
      BY <2>2, <2>3
  <1>3. Snapshot(x) \in Seq(1..MaxChunks) /\ Run(Snapshot(x), sess[x].out)
    BY <1>1, SnapshotIsARun DEF Sessions
  <1>5. Typed(sess)'
    <2>1. sess' \in [Sids -> Sessions]
      <3> HIDE DEF x, e
      <3> QED
        BY <1>1, <1>2, EntryTyped DEF IInv, Typed
    <2>4. shut' \subseteq Conns
      BY DEF IInv, Typed, Goes, My
    <2>5. got' \in [Conns -> Seq(1..MaxChunks)]
      BY <1>3 DEF IInv, Typed
    <2> QED
      BY <2>1, <2>4, <2>5 DEF IInv, Typed, Stages, Goes, My
  <1>6. Locks(sess)'
    BY <1>1, SMTT(60) DEF TerminalAssumption, IInv, Typed, Locks, Sessions, Holding, Registered, Places, Entries, Entry, Goes, My, With
  <1>7. Places(sess)'
    BY <1>1, SMTT(60) DEF TerminalAssumption, IInv, Typed, Locks, Sessions, Holding, Registered, Places, Entries, Entry, Goes, My, With
  <1>8. Entries(sess)'
    BY <1>1, SMTT(60) DEF TerminalAssumption, IInv, Typed, Locks, Sessions, Holding, Registered, Places, Entries, Entry, Reached, Goes, My, With
  <1>9. Tokens(sess)'
    BY <1>1, SMTT(60) DEF TerminalAssumption, IInv, Typed, Locks, Sessions, Holding, Registered, Places, Entries, Entry, Tokens, Goes, My, With
  <1>10. Unbroken(sess)'
    <2>1. sess'[x].ws = c /\ Due(sess'[x]) = sess[x].out /\ \A t \in Sids \ {x} : sess'[t] = sess[t]
      <3>1. sess[x].pump # c
        BY <1>1 DEF IInv, Entries, Entry, Reached, TerminalAssumption
      <3>2. sess'[x] = e /\ \A t \in Sids \ {x} : sess'[t] = sess[t]
        BY <1>1 DEF IInv, Typed, Goes, My, With
      <3> QED
        BY <1>1, <3>1, <3>2 DEF Sessions, Due
    <2>2. got'[c] = Snapshot(x)
      BY <1>1 DEF IInv, Typed
    <2>3. \A t \in Sids \ {x} : sess[t].ws # NoConn => got'[sess[t].ws] = got[sess[t].ws]
      BY <1>1, SMTT(60) DEF IInv, Typed, Sessions, Entries, Entry, Reached, TerminalAssumption, Goes, My
    <2> QED
      BY <1>1, <1>3, <2>1, <2>2, <2>3 DEF IInv, Unbroken
  <1>11. Room(sess)'
    <2>1. Live(sess') \subseteq Live(sess)
      BY <1>1, SMTT(60) DEF IInv, Typed, Sessions, Live, Registered, Goes, My, With
    <2> QED
      BY <2>1, RoomKept DEF IInv, Room, Goes, My
  <1> QED
    BY <1>5, <1>6, <1>7, <1>8, <1>9, <1>10, <1>11 DEF IInv

\* A session that has printed nothing is attached without a replay.
LEMMA TakesNothingKeeps ==
    ASSUME TerminalAssumption, IInv(sess), NEW c \in Conns,
           pc[c] \in {"announcing", "wantSend"},
           My(c).send = NoConn,
           ~(My(c).out > 0),
           sess' = With(sess, sid[c], [[My(c) EXCEPT !.ws = c, !.idle = 0] EXCEPT !.attach = NoConn]),
           got' = [got EXCEPT ![c] = Snapshot(sid[c])],
           Goes(c, "reading"),
           UNCHANGED <<creator, sid, role, shut, caps, reaper>>
    PROVE  IInv(sess)'
  <1> DEFINE x == sid[c]
             e == [sess[x] EXCEPT !.ws = c, !.idle = 0, !.attach = NoConn]
  <1>1. x \in Sids /\ sess[x] \in Sessions
    BY DEF IInv, Typed, Sessions, Places, Holding, TerminalAssumption, Goes, My
  <1>2. e \in Sessions /\ (sess' = [sess EXCEPT ![x] = e] \/ sess' = sess)
    <2>1. 0 \in 0..(Ttl + 1)
      BY DEF TerminalAssumption
    <2>2. e \in Sessions
      BY <1>1, <2>1 DEF Sessions, Phases, IInv, Typed, TerminalAssumption, Goes, My
    <2>3. sess' = [sess EXCEPT ![x] = e] \/ sess' = sess
      BY <1>1 DEF Sessions, IInv, Typed, Goes, My, With
    <2> QED
      BY <2>2, <2>3
  <1>3. Snapshot(x) \in Seq(1..MaxChunks) /\ Run(Snapshot(x), sess[x].out)
    BY <1>1, SnapshotIsARun DEF Sessions
  <1>5. Typed(sess)'
    <2>1. sess' \in [Sids -> Sessions]
      <3> HIDE DEF x, e
      <3> QED
        BY <1>1, <1>2, EntryTyped DEF IInv, Typed
    <2>4. shut' \subseteq Conns
      BY DEF IInv, Typed, Goes, My
    <2>5. got' \in [Conns -> Seq(1..MaxChunks)]
      BY <1>3 DEF IInv, Typed
    <2> QED
      BY <2>1, <2>4, <2>5 DEF IInv, Typed, Stages, Goes, My
  <1>6. Locks(sess)'
    BY <1>1, SMTT(60) DEF TerminalAssumption, IInv, Typed, Locks, Sessions, Holding, Registered, Places, Entries, Entry, Goes, My, With
  <1>7. Places(sess)'
    BY <1>1, SMTT(60) DEF TerminalAssumption, IInv, Typed, Locks, Sessions, Holding, Registered, Places, Entries, Entry, Goes, My, With
  <1>8. Entries(sess)'
    BY <1>1, SMTT(60) DEF TerminalAssumption, IInv, Typed, Locks, Sessions, Holding, Registered, Places, Entries, Entry, Reached, Goes, My, With
  <1>9. Tokens(sess)'
    BY <1>1, SMTT(60) DEF TerminalAssumption, IInv, Typed, Locks, Sessions, Holding, Registered, Places, Entries, Entry, Tokens, Goes, My, With
  <1>10. Unbroken(sess)'
    <2>1. sess'[x].ws = c /\ Due(sess'[x]) = sess[x].out /\ \A t \in Sids \ {x} : sess'[t] = sess[t]
      <3>1. sess[x].pump # c
        BY <1>1 DEF IInv, Entries, Entry, Reached, TerminalAssumption
      <3>2. sess'[x] = e /\ \A t \in Sids \ {x} : sess'[t] = sess[t]
        BY <1>1 DEF IInv, Typed, Goes, My, With
      <3> QED
        BY <1>1, <3>1, <3>2 DEF Sessions, Due
    <2>2. got'[c] = Snapshot(x)
      BY <1>1 DEF IInv, Typed
    <2>3. \A t \in Sids \ {x} : sess[t].ws # NoConn => got'[sess[t].ws] = got[sess[t].ws]
      BY <1>1, SMTT(60) DEF IInv, Typed, Sessions, Entries, Entry, Reached, TerminalAssumption, Goes, My
    <2> QED
      BY <1>1, <1>3, <2>1, <2>2, <2>3 DEF IInv, Unbroken
  <1>11. Room(sess)'
    <2>1. Live(sess') \subseteq Live(sess)
      BY <1>1, SMTT(60) DEF IInv, Typed, Sessions, Live, Registered, Goes, My, With
    <2> QED
      BY <2>1, RoomKept DEF IInv, Room, Goes, My
  <1> QED
    BY <1>5, <1>6, <1>7, <1>8, <1>9, <1>10, <1>11 DEF IInv

-----------------------------------------------------------------------------
(* Reaping *)

Idle(table) == {s \in Live(table) : table[s].ws = NoConn /\ table[s].attach = NoConn}

LEMMA DoomKeeps ==
    ASSUME TerminalAssumption, IInv(sess), NEW these \in SUBSET Idle(sess)
    PROVE  /\ IInv(Doomed(sess, these))
           /\ Live(Doomed(sess, these)) = Live(sess) \ these
           /\ \A s \in Sids : Doomed(sess, these)[s].phase = "unminted" <=> sess[s].phase = "unminted"
  <1> DEFINE table == Doomed(sess, these)
  <1>1. \A s \in Sids :
           /\ sess[s] \in Sessions /\ table[s] \in Sessions
           /\ table[s] = IF s \in these THEN [sess[s] EXCEPT !.phase = "doomed"] ELSE sess[s]
    <2>1. \A s \in Sids : sess[s] \in Sessions
      BY DEF IInv, Typed
    <2>2. ASSUME NEW d \in Sessions PROVE [d EXCEPT !.phase = "doomed"] \in Sessions
      BY DEF Sessions, Phases
    <2> QED
      BY <2>1, <2>2 DEF Doomed
  <1>2. \A s \in Sids :
           /\ table[s].phase = IF s \in these THEN "doomed" ELSE sess[s].phase
           /\ table[s].role = sess[s].role /\ table[s].ws = sess[s].ws
           /\ table[s].attach = sess[s].attach /\ table[s].pump = sess[s].pump
           /\ table[s].writer = sess[s].writer /\ table[s].send = sess[s].send
           /\ table[s].out = sess[s].out
    BY <1>1 DEF Sessions
  <1>3. \A s \in these : s \in Sids /\ sess[s].phase = "live"
    BY DEF Idle, Live
  <1>4. table \in [Sids -> Sessions]
    BY <1>1 DEF Doomed
  <1> HIDE DEF table
  <1>5. Typed(table) /\ Locks(table)
    <2>1. Typed(table)
      BY <1>4 DEF IInv, Typed
    <2>2. \A c \in Conns : pc[c] \in Holding => sid[c] \in Sids
      BY DEF IInv, Places
    <2> QED
      BY <1>2, <2>1, <2>2 DEF IInv, Locks
  <1>6. Places(table)
    BY <1>2, <1>3, SMTT(60) DEF IInv, Places, Registered
  <1>7. Entries(table) /\ Tokens(table) /\ Unbroken(table)
    <2>1. Entries(table)
      BY <1>2, <1>3, SMTT(60) DEF IInv, Entries, Entry, Registered
    <2>2. Tokens(table)
      BY <1>2, <1>3, SMTT(60) DEF IInv, Typed, Tokens
    <2>3. Unbroken(table)
      BY <1>2, <1>3, SMTT(60) DEF IInv, Unbroken, Due
    <2> QED
      BY <2>1, <2>2, <2>3
  <1>8. Live(table) = Live(sess) \ these
    BY <1>2, <1>3 DEF Live
  <1>9. Room(table)
    BY <1>8, RoomKept DEF IInv, Room
  <1>10. \A s \in Sids : table[s].phase = "unminted" <=> sess[s].phase = "unminted"
    BY <1>2, <1>3
  <1> QED
    BY <1>5, <1>6, <1>7, <1>8, <1>9, <1>10 DEF IInv, table

LEMMA ReapedKeeps ==
    ASSUME TerminalAssumption, IInv(sess)
    PROVE  IInv(Reaped(sess)) /\ Live(Reaped(sess)) \subseteq Live(sess)
  <1>1. IdleFor(sess, Ttl) \in SUBSET Idle(sess)
    BY DEF IdleFor, Idle
  <1> QED
    BY <1>1, DoomKeeps DEF Reaped

LEMMA ForceReapedKeeps ==
    ASSUME TerminalAssumption, IInv(sess), NEW table \in ForceReaped(sess)
    PROVE  /\ IInv(table)
           /\ \A s \in Sids : table[s].phase = "unminted" <=> sess[s].phase = "unminted"
  <1>1. IdleFor(sess, Ttl) \in SUBSET Idle(sess) /\ IdleFor(sess, Grace) \in SUBSET Idle(sess)
    BY DEF IdleFor, Idle
  <1>2. \E these \in SUBSET Idle(sess) : table = Doomed(sess, these)
    BY <1>1 DEF ForceReaped, Reaped
  <1> QED
    BY <1>2, DoomKeeps

-----------------------------------------------------------------------------
(* A handler goes on in a table that may just have been reaped *)

LEMMA MovesKeep ==
    ASSUME TerminalAssumption, NEW table, IInv(table), NEW c \in Conns, NEW to \in Stages,
           \/ /\ pc[c] = "new" /\ to = "wantAttach" /\ creator' = creator
              /\ \E s \in Sids : table[s].phase \in Registered /\ sid' = [sid EXCEPT ![c] = s]
           \/ /\ pc[c] = "new" /\ to \in {"wantCreate", "ended"} /\ UNCHANGED <<creator, sid>>
           \/ /\ pc[c] = "wantCreate" /\ to = "ended" /\ UNCHANGED <<creator, sid>>
           \/ /\ pc[c] = "wantCreate" /\ to = "preparing" /\ creator = NoConn /\ creator' = c
              /\ UNCHANGED sid /\ Cardinality(Live(table)) < MaxSessions
           \/ /\ pc[c] = "preparing" /\ to = "ended" /\ creator' = NoConn /\ UNCHANGED sid
           \/ /\ pc[c] = "announcing" /\ to = "wantSend" /\ UNCHANGED <<creator, sid>>
           \/ /\ pc[c] = "parked" /\ to = "reading" /\ UNCHANGED <<creator, sid>>,
           sess' = table, Goes(c, to), reaper' \in {"parked", "armed"},
           UNCHANGED <<role, got, shut, caps>>
    PROVE  IInv(sess)'
  <1>1. Typed(sess)'
    BY DEF IInv, Typed, Goes
  <1>2. \A d \in Conns : d # NoConn
    BY DEF TerminalAssumption
  <1>3. Locks(sess)'
    <2>1. pc' = [pc EXCEPT ![c] = to] /\ pc \in [Conns -> Stages] /\ sid \in [Conns -> Sids \cup {0}]
      BY DEF IInv, Typed, Goes
    <2>2. \A d \in Conns : creator' = d <=> pc'[d] \in {"preparing", "spawning"}
      BY <1>2, <2>1, SMTT(60) DEF IInv, Locks
    <2>3. \A d \in Conns : pc'[d] \in Holding => pc[d] \in Holding /\ sid'[d] = sid[d]
      BY <2>1, SMTT(60) DEF Holding
    <2>4. \A d \in Conns : pc[d] \in Holding => pc'[d] \in Holding /\ sid'[d] = sid[d]
      BY <2>1, SMTT(60) DEF Holding
    <2>5. \A s \in Sids : table[s].attach # NoConn => table[s].attach \in Conns
      BY DEF IInv, Typed, Sessions
    <2> QED
      BY <2>2, <2>3, <2>4, <2>5 DEF IInv, Locks
  <1>4. Places(sess)'
    <2>1. pc' = [pc EXCEPT ![c] = to] /\ pc \in [Conns -> Stages] /\ sid \in [Conns -> Sids \cup {0}]
      BY DEF IInv, Typed, Goes
    <2>2. \A d \in Conns : pc'[d] \in {"new", "wantCreate", "preparing"} => sid'[d] = 0
      BY <2>1, SMTT(60) DEF IInv, Places
    <2>3. \A d \in Conns : pc'[d] = "spawning" => pc[d] = "spawning" /\ sid'[d] = sid[d]
      BY <2>1, SMTT(60)
    <2>4. \A d \in Conns : pc'[d] \in Holding \cup {"wantAttach", "reading", "parked", "killing"} =>
             sid'[d] \in Sids /\ table[sid'[d]].phase \in Registered
      BY <2>1, SMTT(60) DEF IInv, Places, Holding
    <2>5. \A d \in Conns : sid[d] # 0 => sid'[d] = sid[d]
      BY <2>1, SMTT(60) DEF IInv, Places
    <2>6. \A s \in Sids : s # 0
      BY LiveFinite
    <2>7. \A s \in Sids : table[s].phase # "unminted" => \E d \in Conns : sid'[d] = s
      BY <2>5, <2>6 DEF IInv, Places
    <2> QED
      BY <2>2, <2>3, <2>4, <2>7 DEF IInv, Places
  <1>5. Entries(sess)'
    BY SMTT(60) DEF IInv, Typed, Sessions, Locks, Entries, Entry, Reached, Holding, Goes
  <1>6. Tokens(sess)' /\ Unbroken(sess)'
    BY DEF IInv, Tokens, Unbroken
  <1>7. Room(sess)'
    BY DEF IInv, Room
  <1> QED
    BY <1>1, <1>3, <1>4, <1>5, <1>6, <1>7 DEF IInv

\* The attach section is entered, by a connection that waited for it or by one that
\* just arrived.
LEMMA BootKeeps ==
    ASSUME TerminalAssumption, NEW table, IInv(table), NEW c \in Conns, NEW s \in Sids,
           table[s].phase \in Registered, table[s].attach = NoConn,
           pc[c] = "new" \/ (pc[c] = "wantAttach" /\ sid[c] = s),
           sess' = Boot(table, s, c), shut' = shut \cup Booted(table, s),
           sid' = [sid EXCEPT ![c] = s], Goes(c, "announcing"), reaper' \in {"parked", "armed"},
           UNCHANGED <<creator, role, got, caps>>
    PROVE  IInv(sess)'
  <1>1. /\ table \in [Sids -> Sessions] /\ table[s] \in Sessions /\ 0 \in 0..(Ttl + 1)
        /\ table[s].ws \in Conns \cup {NoConn} /\ c # NoConn
    BY DEF IInv, Typed, Sessions, TerminalAssumption
  <1>2. /\ sess' \in [Sids -> Sessions]
        /\ \A t \in Sids \ {s} : sess'[t] = table[t]
        /\ sess'[s].role = table[s].role /\ sess'[s].phase = table[s].phase
        /\ sess'[s].ws = NoConn /\ sess'[s].attach = c /\ sess'[s].send = table[s].send
        /\ sess'[s].pump = table[s].pump /\ sess'[s].out = table[s].out
        /\ sess'[s].writer = NoConn \/ (sess'[s].writer = table[s].writer /\ table[s].ws # table[s].ws)
    <2>1. CASE table[s].ws = NoConn
      BY <1>1, <2>1 DEF Boot, Detached, With, Sessions
    <2>2. CASE table[s].ws # NoConn
      BY <1>1, <2>2 DEF Boot, Detached, With, Sessions
    <2> QED
      BY <2>1, <2>2
  <1>3. Typed(sess)'
    <2>1. shut' \subseteq Conns
      BY <1>1 DEF IInv, Typed, Booted
    <2> QED
      BY <1>2, <2>1 DEF IInv, Typed, Goes, Stages
  <1>4. Locks(sess)'
    BY <1>1, SMTT(60) DEF TerminalAssumption, IInv, Typed, Locks, Sessions, Holding, Registered, Places, Entries, Entry, Reached, Tokens, Boot, Detached, With, Goes
  <1>5. Places(sess)'
    <2>1. pc' = [pc EXCEPT ![c] = "announcing"] /\ pc \in [Conns -> Stages] /\ sid \in [Conns -> Sids \cup {0}]
      BY DEF IInv, Typed, Goes
    <2>2. \A t \in Sids : sess'[t].phase = table[t].phase /\ sess'[t].role = table[t].role
      BY <1>2
    <2>3. \A d \in Conns \ {c} : pc'[d] = pc[d] /\ sid'[d] = sid[d]
      BY <2>1
    <2>4. \A t \in Sids : t # 0
      BY LiveFinite
    <2>5. \A t \in Sids : table[t].phase # "unminted" => \E d \in Conns : sid'[d] = t
      BY <2>1, <2>3, <2>4 DEF IInv, Places
    <2>6. pc'[c] = "announcing" /\ sid'[c] = s
      BY <2>1
    <2> QED
      BY <2>2, <2>3, <2>5, <2>6 DEF IInv, Places, Holding
  <1>6. Entries(sess)'
    BY <1>1, SMTT(60) DEF TerminalAssumption, IInv, Typed, Locks, Sessions, Holding, Registered, Places, Entries, Entry, Reached, Tokens, Boot, Detached, With, Goes
  <1>7. Tokens(sess)'
    BY <1>1, SMTT(60) DEF TerminalAssumption, IInv, Typed, Locks, Sessions, Holding, Registered, Places, Entries, Entry, Reached, Tokens, Boot, Detached, With, Goes
  <1>8. Unbroken(sess)'
    BY <1>2, SMTT(60) DEF IInv, Unbroken, Due
  <1>9. Room(sess)'
    <2>1. Live(sess') = Live(table)
      BY <1>2 DEF Live
    <2> QED
      BY <2>1 DEF IInv, Room
  <1> QED
    BY <1>3, <1>4, <1>5, <1>6, <1>7, <1>8, <1>9 DEF IInv

LEMMA AcceptKeeps ==
    ASSUME TerminalAssumption, IInv(sess), NEW c \in Conns, Accept(c)
    PROVE  IInv(sess)'
  <1> DEFINE table == Reaped(sess)
  <1>1. IInv(table)
    BY ReapedKeeps
  <1>2. /\ pc[c] = "new" /\ reaper' \in {"parked", "armed"} /\ UNCHANGED <<creator, role, got, caps>>
        /\ \/ \E s \in Live(table) : AsksToAttach(c, table, s)
           \/ sess' = table /\ Goes(c, "wantCreate") /\ UNCHANGED <<sid, shut>>
           \/ sess' = table /\ Goes(c, "ended") /\ UNCHANGED <<sid, shut>>
    BY DEF Accept
  <1> HIDE DEF table
  <1>3. CASE \E s \in Live(table) : AsksToAttach(c, table, s)
    <2>1. PICK s \in Live(table) : AsksToAttach(c, table, s)
      BY <1>3
    <2>2. s \in Sids /\ table[s].phase \in Registered
      BY DEF Live, Registered
    <2>3. CASE table[s].attach = NoConn /\ WaitsFor(s) = {}
      BY <1>1, <1>2, <2>1, <2>2, <2>3, BootKeeps DEF AsksToAttach
    <2>4. CASE ~(table[s].attach = NoConn /\ WaitsFor(s) = {})
      BY <1>1, <1>2, <2>1, <2>2, <2>4, MovesKeep DEF AsksToAttach, Stages
    <2> QED
      BY <2>3, <2>4
  <1>4. CASE sess' = table /\ Goes(c, "wantCreate") /\ UNCHANGED <<sid, shut>>
    BY <1>1, <1>2, <1>4, MovesKeep DEF Stages
  <1>5. CASE sess' = table /\ Goes(c, "ended") /\ UNCHANGED <<sid, shut>>
    BY <1>1, <1>2, <1>5, MovesKeep DEF Stages
  <1> QED
    BY <1>2, <1>3, <1>4, <1>5

LEMMA GetsAttachLockKeeps ==
    ASSUME TerminalAssumption, IInv(sess), NEW c \in Conns, GetsAttachLock(c)
    PROVE  IInv(sess)'
  <1>1. sid[c] \in Sids /\ sess[sid[c]].phase \in Registered /\ reaper' \in {"parked", "armed"}
    BY DEF GetsAttachLock, IInv, Typed, Places
  <1>2. sid' = [sid EXCEPT ![c] = sid[c]]
    BY DEF GetsAttachLock, IInv, Typed
  <1> QED
    BY <1>1, <1>2, BootKeeps DEF GetsAttachLock, My

-----------------------------------------------------------------------------
(* A session is created *)

LEMMA LeastOf ==
    ASSUME NEW N \in Nat, NEW S \in SUBSET (1..N), S # {}
    PROVE  \E n \in S : \A m \in S : n <= m
  <1> DEFINE Upto == {1..n : n \in S}
  <1>1. IsFiniteSet(1..N)
    BY FS_Interval
  <1>2. \A n \in S : n \in Nat /\ 1..n \subseteq 1..N
    OBVIOUS
  <1>3. Upto \subseteq SUBSET (1..N) /\ Upto # {}
    BY <1>2
  <1>4. \E X \in Upto : \A Y \in Upto : ~(Y \subseteq X /\ Y # X)
    <2> HIDE DEF Upto
    <2>1. IsWellFoundedOn(StrictSubsetOrdering(1..N), FiniteSubsetsOf(1..N))
      BY <1>1, FS_StrictSubsetOrderingWellFounded
    <2>2. Upto \subseteq FiniteSubsetsOf(1..N)
      BY <1>1, <1>3, FS_Subset DEF FiniteSubsetsOf
    <2>3. \E X \in Upto : \A Y \in Upto : <<Y, X>> \notin StrictSubsetOrdering(1..N)
      BY <2>1, <2>2, <1>3, WFMin
    <2> QED
      BY <2>3, <1>3 DEF StrictSubsetOrdering
  <1>5. PICK n \in S : \A Y \in Upto : ~(Y \subseteq 1..n /\ Y # 1..n)
    <2>1. PICK X \in Upto : \A Y \in Upto : ~(Y \subseteq X /\ Y # X)
      BY <1>4
    <2>2. PICK n \in S : X = 1..n
      OBVIOUS
    <2> QED
      BY <2>1, <2>2
  <1>6. ASSUME NEW m \in S, m < n
        PROVE  FALSE
    <2>1. n \in 1..n /\ n \notin 1..m /\ 1..m \subseteq 1..n /\ 1..m \in Upto
      BY <1>6, <1>2
    <2> HIDE DEF Upto
    <2> QED
      BY <2>1, <1>5
  <1> QED
    BY <1>2, <1>6

\* A connection that has no session yet finds one to mint: each of the others has
\* minted at most one.
LEMMA NextSidMinted ==
    ASSUME TerminalAssumption, IInv(sess), NEW c \in Conns, sid[c] = 0
    PROVE  NextSid \in Sids /\ sess[NextSid].phase = "unminted"
  <1> DEFINE Fresh == {s \in Sids : sess[s].phase = "unminted"}
             Others == Conns \ {c}
  <1>1. /\ IsFiniteSet(Others) /\ Cardinality(Others) = Cardinality(Conns) - 1
        /\ Cardinality(Conns) \in Nat /\ Sids = 1..Cardinality(Conns)
        /\ IsFiniteSet(Sids) /\ Cardinality(Sids) = Cardinality(Conns)
    <2>1. IsFiniteSet(Others) /\ Cardinality(Others) = Cardinality(Conns) - 1 /\ Cardinality(Conns) \in Nat
      BY FS_RemoveElement, FS_CardinalityType DEF TerminalAssumption
    <2>2. IsFiniteSet(1..Cardinality(Conns)) /\ Cardinality(1..Cardinality(Conns)) = Cardinality(Conns)
      <3> DEFINE n == Cardinality(Conns)
      <3>1. n \in Int /\ 1 \in Int /\ (1 > n => n = 0) /\ n - 1 + 1 = n
        BY <2>1
      <3> HIDE DEF n
      <3>2. IsFiniteSet(1..n) /\ Cardinality(1..n) = n
        BY <3>1, FS_Interval
      <3> QED
        BY <3>2 DEF n
    <2> QED
      BY <2>1, <2>2 DEF Sids
  <1>2. ASSUME Fresh = {}
        PROVE  FALSE
    <2>1. \A s \in Sids : \E d \in Others : sid[d] = s
      <3>1. \A s \in Sids : s # 0 /\ sess[s].phase # "unminted"
        BY <1>1, <1>2
      <3> QED
        BY <3>1 DEF IInv, Places
    <2>2. Cardinality(Conns) # 0
      BY <1>1, FS_EmptySet DEF TerminalAssumption
    <2>3. 1 \in Sids
      BY <1>1, <2>2
    <2> DEFINE mint == [d \in Others |-> IF sid[d] \in Sids THEN sid[d] ELSE 1]
    <2>4. mint \in [Others -> Sids]
      BY <2>3
    <2>5. \A s \in Sids : \E d \in Others : mint[d] = s
      BY <2>1
    <2>6. mint \in Surjection(Others, Sids)
      <3> HIDE DEF mint
      <3> QED
        BY <2>4, <2>5 DEF Surjection
    <2>7. Cardinality(Sids) <= Cardinality(Others)
      <3> HIDE DEF mint
      <3> QED
        BY <1>1, <2>6, FS_Surjection
    <2> QED
      BY <1>1, <2>7
  <1>3. Fresh \in SUBSET (1..Cardinality(Conns))
    BY <1>1
  <1>4. \E s \in Fresh : \A t \in Fresh : s <= t
    <2> HIDE DEF Fresh
    <2> QED
      BY <1>1, <1>2, <1>3, LeastOf
  <1>5. \E s \in Sids : /\ sess[s].phase = "unminted"
                        /\ \A t \in Sids : sess[t].phase = "unminted" => s <= t
    BY <1>4
  <1> QED
    BY <1>5 DEF NextSid

LEMMA StartsShellKeeps ==
    ASSUME TerminalAssumption, IInv(sess), NEW table, IInv(table),
           \A s \in Sids : table[s].phase = "unminted" <=> sess[s].phase = "unminted",
           NEW c \in Conns, StartsShell(c, table), Cardinality(Live(table)) < MaxSessions,
           \/ pc[c] = "wantCreate" /\ creator = NoConn
           \/ pc[c] = "preparing",
           creator' = c, UNCHANGED <<role, got, shut, reaper>>
    PROVE  IInv(sess)'
  <1> DEFINE n == NextSid
             e == Session(role[c], "spawning")
  <1>1. sid[c] = 0 /\ n \in Sids /\ sess[n].phase = "unminted" /\ table[n].phase = "unminted"
    <2>1. sid[c] = 0
      BY DEF IInv, Places
    <2> QED
      BY <2>1, NextSidMinted
  <1>2. /\ sess' = [table EXCEPT ![n] = e] /\ sid' = [sid EXCEPT ![c] = n]
        /\ caps' = IF role[c] = "lesson-agent" THEN caps \cup {n} ELSE caps
        /\ pc' = [pc EXCEPT ![c] = "spawning"]
    BY DEF StartsShell, With, Goes
  <1>3. e \in Sessions
    <2>1. 0 \in 0..(Ttl + 1) /\ 0 \in 0..MaxChunks /\ "spawning" \in Phases /\ role[c] \in Roles
      BY DEF TerminalAssumption, Phases, IInv, Typed
    <2> QED
      BY <2>1 DEF Session, Sessions
  <1>4. /\ e.phase = "spawning" /\ e.role = role[c] /\ e.ws = NoConn /\ e.attach = NoConn
        /\ e.send = NoConn /\ e.pump = NoConn /\ e.writer = NoConn
    BY DEF Session
  <1>5. /\ table \in [Sids -> Sessions] /\ c # NoConn /\ NoConn # Pump
        /\ \A s \in Sids : table[s] \in Sessions
        /\ creator = NoConn \/ creator = c
    BY DEF IInv, Typed, Locks, TerminalAssumption
  <1>6. n \notin caps /\ \A s \in caps : s \in Sids
    BY <1>1 DEF IInv, Typed, Tokens
  <1>7. table[n].attach = NoConn /\ \A d \in Conns : pc[d] \in Holding \cup {"spawning"} => sid[d] # n
    BY <1>1 DEF IInv, Entries, Entry, Places, Registered
  <1> HIDE DEF n, e
  <1>8. /\ sess' \in [Sids -> Sessions] /\ sess'[n] = e
        /\ \A s \in Sids \ {n} : sess'[s] = table[s]
    BY <1>1, <1>2, <1>3, <1>5
  <1>9. Typed(sess)'
    BY <1>1, <1>2, <1>6, <1>8 DEF IInv, Typed, Stages
  <1>10. Locks(sess)'
    <2>1. \A d \in Conns \ {c} : pc'[d] = pc[d] /\ sid'[d] = sid[d]
      BY <1>2 DEF IInv, Typed
    <2>2. pc'[c] = "spawning" /\ sid'[c] = n /\ pc[c] \notin Holding
      BY <1>2 DEF IInv, Typed, Holding
    <2>3. \A t \in Sids : sess'[t].attach = table[t].attach
      BY <1>4, <1>7, <1>8
    <2>4. \A t \in Sids : table[t].attach # NoConn => table[t].attach \in Conns \ {c}
      BY <1>5, <2>2 DEF IInv, Locks, Sessions
    <2>5. \A d \in Conns : creator' = d <=> pc'[d] \in {"preparing", "spawning"}
      <3>1. \A d \in Conns : d # NoConn
        BY DEF TerminalAssumption
      <3> QED
        BY <1>5, <2>1, <2>2, <3>1 DEF IInv, Locks
    <2>6. \A d \in Conns : pc'[d] \in Holding => d # c /\ sid[d] \in Sids
      BY <2>1, <2>2 DEF IInv, Places, Holding
    <2> QED
      BY <2>1, <2>3, <2>4, <2>5, <2>6 DEF IInv, Locks
  <1>11. Places(sess)'
    <2>1. \A d \in Conns \ {c} : pc'[d] = pc[d] /\ sid'[d] = sid[d]
      BY <1>2 DEF IInv, Typed
    <2>2. pc'[c] = "spawning" /\ sid'[c] = n
      BY <1>2 DEF IInv, Typed
    <2>3. \A t \in Sids : t # 0
      BY LiveFinite
    <2>4. \A t \in Sids : sess'[t].phase # "unminted" => \E d \in Conns : sid'[d] = t
      BY <1>1, <1>8, <2>1, <2>2, <2>3 DEF IInv, Places
    <2>5. \A d \in Conns \ {c} : pc[d] \in Holding \cup {"wantAttach", "reading", "parked", "killing", "spawning"} =>
             sid[d] \in Sids \ {n}
      BY <1>1 DEF IInv, Places, Registered
    <2>6. role' = role /\ sess'[n].phase = "spawning" /\ sess'[n].role = role[c]
      BY <1>4, <1>8
    <2> QED
      BY <1>1, <1>8, <2>1, <2>2, <2>4, <2>5, <2>6 DEF IInv, Places, Holding
  <1>12. Entries(sess)'
    BY <1>1, <1>2, <1>4, <1>5, <1>8, SMTT(60)
    DEF IInv, Typed, Sessions, Entries, Entry, Reached, Registered, Holding
  <1>13. Tokens(sess)'
    BY <1>1, <1>2, <1>4, <1>6, <1>8, SMTT(60) DEF IInv, Typed, Tokens
  <1>14. Unbroken(sess)'
    BY <1>4, <1>8 DEF IInv, Unbroken
  <1>15. Room(sess)'
    <2>1. Live(sess') \subseteq Live(table)
      BY <1>4, <1>8 DEF Live
    <2> QED
      BY <2>1, <1>5, RoomKept DEF IInv, Room
  <1> QED
    BY <1>9, <1>10, <1>11, <1>12, <1>13, <1>14, <1>15 DEF IInv

LEMMA EntersKeeps ==
    ASSUME TerminalAssumption, IInv(sess), NEW c \in Conns, Enters(c)
    PROVE  IInv(sess)'
  <1>1. PICK table \in IF Cardinality(Live(sess)) >= MaxSessions
                       THEN ForceReaped(sess) ELSE {sess} :
           IF Cardinality(Live(table)) >= MaxSessions
           THEN /\ sess' = table /\ Goes(c, "ended") /\ UNCHANGED <<creator, sid, caps>>
           ELSE /\ creator' = c
                /\ IF role[c] = "plain"
                   THEN StartsShell(c, table)
                   ELSE sess' = table /\ Goes(c, "preparing") /\ UNCHANGED <<sid, caps>>
    BY DEF Enters
  <1>2. /\ IInv(table)
        /\ \A s \in Sids : table[s].phase = "unminted" <=> sess[s].phase = "unminted"
    BY ForceReapedKeeps
  <1>3. /\ pc[c] = "wantCreate" /\ creator = NoConn /\ UNCHANGED <<role, got, shut, reaper>>
        /\ reaper' \in {"parked", "armed"}
    BY DEF Enters, IInv, Typed
  <1>4. CASE Cardinality(Live(table)) >= MaxSessions
    BY <1>1, <1>2, <1>3, <1>4, MovesKeep DEF Stages
  <1>5. CASE ~(Cardinality(Live(table)) >= MaxSessions)
    <2>1. Cardinality(Live(table)) < MaxSessions
      BY <1>5, LiveFinite DEF TerminalAssumption
    <2>2. CASE role[c] = "plain"
      BY <1>1, <1>2, <1>3, <1>5, <2>1, <2>2, StartsShellKeeps
    <2>3. CASE role[c] # "plain"
      BY <1>1, <1>2, <1>3, <1>5, <2>1, <2>3, MovesKeep DEF Stages
    <2> QED
      BY <2>2, <2>3
  <1> QED
    BY <1>4, <1>5

LEMMA PreparedKeeps ==
    ASSUME TerminalAssumption, IInv(sess), NEW c \in Conns, Prepared(c)
    PROVE  IInv(sess)'
  <1>1. /\ pc[c] = "preparing" /\ creator = c /\ UNCHANGED <<role, got, shut, reaper>>
        /\ reaper' \in {"parked", "armed"}
    BY DEF Prepared, IInv, Typed, Locks
  <1>2. CASE StartsShell(c, sess) /\ UNCHANGED creator
    <2>1. Cardinality(Live(sess)) < MaxSessions
      BY <1>1 DEF IInv, Room, TerminalAssumption
    <2> QED
      BY <1>1, <1>2, <2>1, StartsShellKeeps
  <1>3. CASE creator' = NoConn /\ Goes(c, "ended") /\ UNCHANGED <<sess, sid, caps>>
    BY <1>1, <1>3, MovesKeep DEF Stages
  <1> QED
    BY <1>2, <1>3 DEF Prepared

\* The only step that adds a session to the table uses the place its creator kept.
LEMMA SpawnedKeeps ==
    ASSUME TerminalAssumption, IInv(sess), NEW c \in Conns, Spawned(c)
    PROVE  IInv(sess)'
  <1> DEFINE x == sid[c]
             e == [sess[x] EXCEPT !.phase = "live", !.attach = c]
  <1>1. /\ x \in Sids /\ sess[x] \in Sessions /\ pc[c] = "spawning" /\ creator = c /\ c # NoConn
        /\ sess[x].phase = "spawning" /\ sess[x].ws = NoConn /\ sess[x].attach = NoConn
        /\ sess[x].pump = NoConn
    <2>1. x \in Sids /\ pc[c] = "spawning" /\ sess[x].phase = "spawning"
      BY DEF Spawned, IInv, Places
    <2>2. Entry(x, sess[x]) /\ sess[x] \in Sessions /\ creator = c /\ c # NoConn
      BY <2>1 DEF IInv, Typed, Locks, Entries, TerminalAssumption
    <2> QED
      BY <2>1, <2>2 DEF Entry, Registered
  <1>2. e \in Sessions /\ sess' = [sess EXCEPT ![x] = e]
    BY <1>1 DEF Spawned, With, Sessions, Phases
  <1>3. /\ pc' = [pc EXCEPT ![c] = "announcing"] /\ creator' = NoConn
        /\ UNCHANGED <<sid, role, got, shut, caps, reaper>>
    BY DEF Spawned, Goes
  <1>4. /\ e.phase = "live" /\ e.attach = c /\ e.role = sess[x].role /\ e.ws = NoConn
        /\ e.pump = NoConn /\ e.writer = sess[x].writer /\ e.send = sess[x].send
    BY <1>1 DEF Sessions
  <1>5. sess \in [Sids -> Sessions] /\ \A t \in Sids : sess[t] \in Sessions
    BY DEF IInv, Typed
  <1> HIDE DEF e
  <1>6. /\ sess' \in [Sids -> Sessions] /\ sess'[x] = e
        /\ \A t \in Sids \ {x} : sess'[t] = sess[t]
    BY <1>1, <1>2, <1>5
  <1>7. Typed(sess)'
    BY <1>3, <1>6 DEF IInv, Typed, Stages
  <1>8. Locks(sess)'
    BY <1>1, SMTT(60) DEF TerminalAssumption, IInv, Typed, Locks, Sessions, Holding, Registered, Places, Entries, Entry, Spawned, With, Goes
  <1>9. Places(sess)'
    BY <1>1, SMTT(60) DEF TerminalAssumption, IInv, Typed, Locks, Sessions, Holding, Registered, Places, Entries, Entry, Spawned, With, Goes
  <1>10. Entries(sess)'
    BY <1>1, SMTT(60) DEF TerminalAssumption, IInv, Typed, Locks, Sessions, Holding, Registered, Places, Entries, Entry, Reached, Spawned, With, Goes
  <1>11. Tokens(sess)'
    <2>1. \A s \in Sids : /\ sess'[s].role = sess[s].role
                         /\ \/ sess'[s].phase = sess[s].phase
                            \/ s = x /\ sess'[s].phase = "live"
      BY <1>4, <1>6
    <2>2. caps \subseteq Sids /\ Tokens(sess) /\ sess[x].phase = "spawning"
      BY <1>1 DEF IInv, Typed
    <2> HIDE DEF x
    <2> QED
      BY <1>3, <2>1, <2>2 DEF Tokens
  <1>12. Unbroken(sess)'
    BY <1>3, <1>4, <1>6 DEF IInv, Unbroken
  <1>13. Room(sess)'
    <2>1. Live(sess') = Live(sess) \cup {x} /\ x \notin Live(sess)
      BY <1>1, <1>4, <1>6 DEF Live
    <2>2. Cardinality(Live(sess')) = Cardinality(Live(sess)) + 1
      BY <2>1, LiveFinite, FS_AddElement
    <2>3. Cardinality(Live(sess)) < MaxSessions /\ Cardinality(Live(sess)) \in Nat
      BY <1>1, LiveFinite DEF IInv, Room
    <2> QED
      BY <1>3, <2>2, <2>3 DEF Room, TerminalAssumption
  <1> QED
    BY <1>7, <1>8, <1>9, <1>10, <1>11, <1>12, <1>13 DEF IInv

LEMMA SpawnFailsKeeps ==
    ASSUME TerminalAssumption, IInv(sess), NEW c \in Conns, SpawnFails(c)
    PROVE  IInv(sess)'
  <1> DEFINE x == sid[c]
             e == [sess[x] EXCEPT !.phase = "failed"]
  <1>1. /\ x \in Sids /\ sess[x] \in Sessions /\ pc[c] = "spawning" /\ creator = c /\ c # NoConn
        /\ sess[x].phase = "spawning" /\ sess[x].ws = NoConn /\ sess[x].attach = NoConn
        /\ sess[x].pump = NoConn /\ sess[x].writer = NoConn /\ sess[x].send # Pump
    BY DEF SpawnFails, IInv, Typed, Locks, Places, Entries, Entry, Registered, TerminalAssumption
  <1>2. e \in Sessions /\ sess' = [sess EXCEPT ![x] = e]
    BY <1>1 DEF SpawnFails, With, Sessions, Phases
  <1>3. /\ pc' = [pc EXCEPT ![c] = "ended"] /\ creator' = NoConn /\ caps' = caps \ {x}
        /\ UNCHANGED <<sid, role, got, shut, reaper>>
    BY DEF SpawnFails, Goes
  <1>4. /\ e.phase = "failed" /\ e.attach = NoConn /\ e.ws = NoConn
        /\ e.pump = NoConn /\ e.writer = NoConn /\ e.send # Pump
    BY <1>1 DEF Sessions
  <1>5. sess \in [Sids -> Sessions] /\ \A t \in Sids : sess[t] \in Sessions
    BY DEF IInv, Typed
  <1> HIDE DEF e
  <1>6. /\ sess' \in [Sids -> Sessions] /\ sess'[x] = e
        /\ \A t \in Sids \ {x} : sess'[t] = sess[t]
    BY <1>1, <1>2, <1>5
  <1>7. Typed(sess)'
    BY <1>3, <1>6 DEF IInv, Typed, Stages
  <1>8. Locks(sess)'
    BY <1>1, SMTT(60) DEF TerminalAssumption, IInv, Typed, Locks, Sessions, Holding, Registered, Places, Entries, Entry, SpawnFails, With, Goes
  <1>9. Places(sess)'
    BY <1>1, SMTT(60) DEF TerminalAssumption, IInv, Typed, Locks, Sessions, Holding, Registered, Places, Entries, Entry, SpawnFails, With, Goes
  <1>10. Entries(sess)'
    BY <1>1, SMTT(60) DEF TerminalAssumption, IInv, Typed, Locks, Sessions, Holding, Registered, Places, Entries, Entry, Reached, SpawnFails, With, Goes
  <1>11. Tokens(sess)'
    BY <1>1, <1>3, <1>4, <1>6, SMTT(60) DEF IInv, Typed, Tokens
  <1>12. Unbroken(sess)'
    BY <1>3, <1>4, <1>6 DEF IInv, Unbroken
  <1>13. Room(sess)'
    <2>1. Live(sess') \subseteq Live(sess)
      BY <1>4, <1>6 DEF Live
    <2> QED
      BY <1>3, <2>1, RoomKept DEF IInv, Room
  <1> QED
    BY <1>7, <1>8, <1>9, <1>10, <1>11, <1>12, <1>13 DEF IInv

-----------------------------------------------------------------------------
(* Time *)

LEMMA TickKeeps ==
    ASSUME TerminalAssumption, IInv(sess), Tick
    PROVE  IInv(sess)'
  <1>1. \A s \in Sids : sess[s] \in Sessions /\ sess[s].idle \in Nat
    BY DEF IInv, Typed, Sessions
  <1>2. \A s \in Sids : sess[s].idle <= Ttl => sess[s].idle + 1 \in 0..(Ttl + 1)
    BY <1>1 DEF TerminalAssumption
  <1>3. \A s \in Sids :
           /\ sess'[s] \in Sessions
           /\ sess'[s].phase = sess[s].phase
           /\ sess'[s].role = sess[s].role /\ sess'[s].ws = sess[s].ws
           /\ sess'[s].attach = sess[s].attach /\ sess'[s].pump = sess[s].pump
           /\ sess'[s].writer = sess[s].writer /\ sess'[s].send = sess[s].send
           /\ sess'[s].out = sess[s].out
    <2> SUFFICES ASSUME NEW s \in Sids
                 PROVE  /\ sess'[s] \in Sessions
                        /\ sess'[s].phase = sess[s].phase
                        /\ sess'[s].role = sess[s].role /\ sess'[s].ws = sess[s].ws
                        /\ sess'[s].attach = sess[s].attach /\ sess'[s].pump = sess[s].pump
                        /\ sess'[s].writer = sess[s].writer /\ sess'[s].send = sess[s].send
                        /\ sess'[s].out = sess[s].out
      OBVIOUS
    <2>1. sess'[s] = sess[s] \/ (sess'[s] = [sess[s] EXCEPT !.idle = @ + 1] /\ sess[s].idle <= Ttl)
      BY DEF Tick
    <2> QED
      BY <1>1, <1>2, <2>1 DEF Sessions
  <1>4. sess' \in [Sids -> Sessions] /\ UNCHANGED <<creator, pc, sid, role, got, shut, caps, reaper>>
    BY <1>3 DEF Tick
  <1>5. Typed(sess)' /\ Locks(sess)'
    <2>1. Typed(sess)'
      BY <1>4 DEF IInv, Typed
    <2>2. \A c \in Conns : pc[c] \in Holding => sid[c] \in Sids
      BY DEF IInv, Places
    <2> QED
      BY <1>3, <1>4, <2>1, <2>2 DEF IInv, Locks
  <1>6. Places(sess)'
    BY <1>3, <1>4, SMTT(60) DEF IInv, Places
  <1>7. Entries(sess)'
    BY <1>3, <1>4, SMTT(60) DEF IInv, Entries, Entry, Reached
  <1>8. Tokens(sess)' /\ Unbroken(sess)'
    <2>1. Tokens(sess)'
      BY <1>3, <1>4 DEF IInv, Typed, Tokens
    <2>2. \A s \in Sids : Due(sess'[s]) = Due(sess[s])
      BY <1>3 DEF Due
    <2> QED
      BY <1>3, <1>4, <2>1, <2>2 DEF IInv, Unbroken
  <1>9. Room(sess)'
    <2>1. Live(sess') = Live(sess)
      BY <1>3 DEF Live
    <2> QED
      BY <1>4, <2>1 DEF IInv, Room
  <1> QED
    BY <1>5, <1>6, <1>7, <1>8, <1>9 DEF IInv

LEMMA SweepsKeeps ==
    ASSUME TerminalAssumption, IInv(sess), Sweeps
    PROVE  IInv(sess)'
  <1>1. IInv(Reaped(sess)) /\ sess' = Reaped(sess) /\ reaper' \in {"parked", "armed"}
    BY ReapedKeeps DEF Sweeps
  <1>2. UNCHANGED <<creator, pc, sid, role, got, shut, caps>>
    BY DEF Sweeps
  <1> QED
    BY <1>1, <1>2
    DEF IInv, Typed, Locks, Places, Entries, Entry, Reached, Room, Tokens, Unbroken

-----------------------------------------------------------------------------
(* The invariant and the promise *)

LEMMA TakesKeeps ==
    ASSUME TerminalAssumption, IInv(sess), NEW c \in Conns,
           pc[c] \in {"announcing", "wantSend"}, My(c).send = NoConn, Takes(c),
           UNCHANGED <<creator, sid, role, shut, caps, reaper>>
    PROVE  IInv(sess)'
  <1>1. CASE My(c).out > 0
    BY <1>1, TakesReplayKeeps DEF Takes
  <1>2. CASE ~(My(c).out > 0)
    BY <1>2, TakesNothingKeeps DEF Takes
  <1> QED
    BY <1>1, <1>2

LEMMA AttachesKeeps ==
    ASSUME TerminalAssumption, IInv(sess), NEW c \in Conns, Attaches(c)
    PROVE  IInv(sess)'
  <1>1. CASE Announced(c)
    <2>1. CASE My(c).send = NoConn
      BY <1>1, <2>1, TakesKeeps DEF Announced
    <2>2. CASE My(c).send # NoConn
      BY <1>1, <2>2, MovesKeep DEF Announced, Stages, IInv, Typed
    <2> QED
      BY <2>1, <2>2
  <1>2. CASE GetsSendLock(c)
    BY <1>2, TakesKeeps DEF GetsSendLock
  <1> QED
    BY <1>1, <1>2, GetsAttachLockKeeps, ReplayedKeeps, SendFailsKeeps DEF Attaches

LEMMA ReadsKeeps ==
    ASSUME TerminalAssumption, IInv(sess), NEW c \in Conns, Reads(c)
    PROVE  IInv(sess)'
  <1>1. CASE Resumes(c)
    <2>1. CASE My(c).ws = c /\ My(c).phase \notin {"closing", "closed"}
      BY <1>1, <2>1, MovesKeep DEF Resumes, Stages, IInv, Typed
    <2>2. CASE ~(My(c).ws = c /\ My(c).phase \notin {"closing", "closed"})
      BY <1>1, <2>2, EndsKeeps DEF Resumes
    <2> QED
      BY <2>1, <2>2
  <1>2. CASE Leaves(c) \/ Killed(c)
    BY <1>2, EndsKeeps DEF Leaves, Killed
  <1> QED
    BY <1>1, <1>2, ParksKeeps, KillsKeeps DEF Reads

LEMMA PumpsKeeps ==
    ASSUME TerminalAssumption, IInv(sess), NEW s \in Sids, Pumps(s)
    PROVE  IInv(sess)'
  <1>1. CASE Produces(s)
    <2>1. [sess[s] EXCEPT !.out = @ + 1].out = sess[s].out + 1
      BY DEF IInv, Typed, Sessions
    <2>2. CASE sess[s].ws # NoConn /\ sess[s].send = NoConn
      BY <1>1, <2>1, <2>2, ProducesForSomeKeeps DEF Produces
    <2>3. CASE ~(sess[s].ws # NoConn /\ sess[s].send = NoConn)
      BY <1>1, <2>3, ProducesHeldKeeps DEF Produces
    <2> QED
      BY <2>2, <2>3
  <1>2. CASE PumpSends(s)
    <2>1. CASE sess[s].ws = sess[s].pump
      BY <1>2, <2>1, PumpSendsNowKeeps DEF PumpSends
    <2>2. CASE sess[s].ws # sess[s].pump
      BY <1>2, <2>2, PumpSkipsKeeps DEF PumpSends
    <2> QED
      BY <2>1, <2>2
  <1>3. CASE PumpSent(s)
    <2>1. CASE sess' = PumpDone(s)
      BY <1>3, <2>1, SentKeeps DEF PumpSent
    <2>2. CASE sess' = Detached(PumpDone(s), s, sess[s].pump)
      BY <1>3, <2>2, SentToNobodyKeeps DEF PumpSent
    <2> QED
      BY <1>3, <2>1, <2>2 DEF PumpSent
  <1> QED
    BY <1>1, <1>2, <1>3 DEF Pumps

\* The inductive invariant: one step, whichever coroutine takes it.
LEMMA NextKeeps ==
    ASSUME TerminalAssumption, IInv(sess), [Next]_vars
    PROVE  IInv(sess)'
  <1>1. ASSUME NEW c \in Conns, Accept(c) \/ Creates(c) \/ Attaches(c) \/ Reads(c)
        PROVE  IInv(sess)'
    BY <1>1, AcceptKeeps, EntersKeeps, PreparedKeeps, SpawnedKeeps, SpawnFailsKeeps,
       AttachesKeeps, ReadsKeeps DEF Creates
  <1>2. ASSUME NEW s \in Sids, Pumps(s) \/ Drains(s) \/ Closes(s) \/ Closed(s)
        PROVE  IInv(sess)'
    BY <1>2, PumpsKeeps, DrainsKeeps, ClosesKeeps, ClosedKeeps
  <1>3. CASE UNCHANGED vars
    BY <1>3
    DEF vars, IInv, Typed, Locks, Places, Entries, Entry, Reached, Room, Tokens, Unbroken
  <1> QED
    BY <1>1, <1>2, <1>3, TickKeeps, SweepsKeeps DEF Next

\* The registry's state is well typed, and its locks are held by who is inside them.
THEOREM TerminalTypes == ASSUME TerminalAssumption PROVE Spec => []TypeOK
  <1>1. Init => IInv(sess)
    BY InitIInv
  <1>2. IInv(sess) /\ [Next]_vars => IInv(sess)'
    BY NextKeeps
  <1>3. IInv(sess) => TypeOK
    BY IInvImplies
  <1> QED
    BY <1>1, <1>2, <1>3, PTL DEF Spec

\* Whatever connections come and go, whichever socket takes a session over and
\* however a session ends: an attached socket has seen an unbroken run of output, the
\* table keeps its bound, tokens die with their sessions and live as long as them,
\* and no writer stays parked for a session that another socket has.
THEOREM TerminalHolds == ASSUME TerminalAssumption PROVE Spec => []SessionsHold
  <1>1. Init => IInv(sess)
    BY InitIInv
  <1>2. IInv(sess) /\ [Next]_vars => IInv(sess)'
    BY NextKeeps
  <1>3. IInv(sess) => SessionsHold
    BY IInvImplies
  <1> QED
    BY <1>1, <1>2, <1>3, PTL DEF Spec

-----------------------------------------------------------------------------
(* The start.  A database is built in the order of the migrations, and what *)
(* a step must not do is decided by how far the database has come.          *)

(* The variables of Startup, as the scene holds them.                       *)
version     == v1
shape       == v2
ids         == v3
minted      == v4
counter     == v5
task        == v6
own         == v7
demo        == v8
inboxes     == v9
seededAt    == v10
at          == v11
line        == v12
kills       == v13
oldAlive    == v14
initialised == v15
USE DEF version, shape, ids, minted, counter, task, own, demo, inboxes, seededAt,
        at, line, kills, oldAlive, initialised

Makers  == {"table", "column", "rebuild"}
Kinds   == Makers \cup {"stamp", "mark", "repair"}
Scripts == Start!Migrations
Seeding == {"habits", "lists", "samples", "tasks", "marking"}

StartTypes ==
    /\ version \in 0 .. 20 /\ line \in Nat \ {0}
    /\ ids \in Seq(Nat) /\ minted \in Nat /\ counter \in Int
    /\ task \in [done : BOOLEAN, status : {"backlog", "done"}]
    /\ inboxes \in 0 .. 1 /\ seededAt \in BOOLEAN /\ initialised \in BOOLEAN
    /\ at \in {"down", "migrating", "inbox", "up"} \cup Seeding

\* Identities are minted once.
Named(f, n) ==
    \A k \in 1 .. Len(f) :
        /\ f[k] <= n
        /\ \A j \in 1 .. Len(f) : f[j] = f[k] /\ f[j] # 0 => j = k

\* The statements of the next script that have run.
Begun(k, l) ==
    \A i \in 1 .. Len(Scripts[k]) :
        i < l /\ Scripts[k][i][1] \in Makers => Scripts[k][i][2] \in shape

\* What a version promises is there; the uid step that was numbered 10 made no
\* retro_entries, and step 11 makes them.
Built ==
    /\ \A x \in Start!ShapeOf(version) : x \in shape \/ (version = 10 /\ x = "retro_entries")
    /\ shape \subseteq Start!ShapeOf(20)
    /\ at = "migrating" /\ version < 20 => Begun(version + 1, line)

\* The second statement of step v has run, on this start or an earlier one.
Past(v) == version >= v \/ (version = v - 1 /\ at = "migrating" /\ line > 2)

Marked ==
    /\ Past(18) => Start!Agrees(task)
    /\ Past(16) => own = {} \/ seededAt
    /\ initialised => seededAt \/ own # {}

Phase ==
    /\ at \in Seeding \cup {"inbox", "up"} => version = 20
    /\ at \in Seeding => ~seededAt
    /\ at \in {"inbox", "up"} => seededAt
    /\ at = "up" => inboxes = 1

StartInv == StartTypes /\ Named(ids, minted) /\ Built /\ Marked /\ Phase

(* The scripts, as far as the proof looks into them.                        *)
Script(s, n) == Len(s) = n /\ DOMAIN s = 1 .. n /\ \A i \in 1 .. n : s[i][1] \in Kinds

LEMMA ScriptsAre ==
    /\ Start!Latest = 20
    /\ \A k \in 1 .. 20 : \E n \in Nat : Script(Scripts[k], n)
    /\ Len(Scripts[16]) = 2 /\ Scripts[16][2][1] = "mark"
    /\ Len(Scripts[18]) = 2 /\ Scripts[18][2][1] = "repair"
    /\ {"lessons.uid", "retro_entries"} \subseteq Start!Objects(Scripts[11])
  <1>1. /\ Start!Latest = 20
        /\ Scripts[1] = Start!Script1 /\ Scripts[2] = Start!Script2
        /\ Scripts[3] = Start!Script3 /\ Scripts[4] = Start!Script4
        /\ Scripts[5] = Start!Script5 /\ Scripts[6] = Start!Script6
        /\ Scripts[7] = Start!Script7 /\ Scripts[8] = Start!Script8
        /\ Scripts[9] = Start!Script9 /\ Scripts[10] = Start!Script10
        /\ Scripts[11] = Start!Script11 /\ Scripts[12] = Start!Script12
        /\ Scripts[13] = Start!Script13 /\ Scripts[14] = Start!Script14
        /\ Scripts[15] = Start!Script15 /\ Scripts[16] = Start!Script16
        /\ Scripts[17] = Start!Script17 /\ Scripts[18] = Start!Script18
        /\ Scripts[19] = Start!Script19 /\ Scripts[20] = Start!Script20
    BY DEF Start!Latest, Start!Migrations, Scripts
  <1>2. Script(Start!Script1, 4)
    BY DEF Start!Script1, Start!Tables, Start!Columns, Script, Kinds, Makers
  <1>3. Script(Start!Script2, 4)
    BY DEF Start!Script2, Start!Tables, Start!Columns, Script, Kinds, Makers
  <1>4. Script(Start!Script3, 3)
    BY DEF Start!Script3, Start!Tables, Start!Columns, Script, Kinds, Makers
  <1>5. Script(Start!Script4, 1)
    BY DEF Start!Script4, Start!Tables, Start!Columns, Script, Kinds, Makers
  <1>6. Script(Start!Script5, 1)
    BY DEF Start!Script5, Start!Tables, Start!Columns, Script, Kinds, Makers
  <1>7. Script(Start!Script6, 1)
    BY DEF Start!Script6, Start!Tables, Start!Columns, Script, Kinds, Makers
  <1>8. Script(Start!Script7, 2)
    BY DEF Start!Script7, Start!Tables, Start!Columns, Script, Kinds, Makers
  <1>9. Script(Start!Script8, 1)
    BY DEF Start!Script8, Start!Tables, Start!Columns, Script, Kinds, Makers
  <1>10. Script(Start!Script10, 1)
    BY DEF Start!Script10, Start!Tables, Start!Columns, Script, Kinds, Makers
  <1>11. Script(Start!Script12, 1)
    BY DEF Start!Script12, Start!Tables, Start!Columns, Script, Kinds, Makers
  <1>12. Script(Start!Script13, 1)
    BY DEF Start!Script13, Start!Tables, Start!Columns, Script, Kinds, Makers
  <1>13. Script(Start!Script14, 1)
    BY DEF Start!Script14, Start!Tables, Start!Columns, Script, Kinds, Makers
  <1>14. Script(Start!Script15, 1)
    BY DEF Start!Script15, Start!Tables, Start!Columns, Script, Kinds, Makers
  <1>15. Script(Start!Script17, 1)
    BY DEF Start!Script17, Start!Tables, Start!Columns, Script, Kinds, Makers
  <1>16. Script(Start!Script20, 1)
    BY DEF Start!Script20, Start!Tables, Start!Columns, Script, Kinds, Makers
  <1>17. /\ Script(Start!Script9, 2) /\ Script(Start!Script11, 2) /\ Script(Start!Script16, 2)
        /\ Script(Start!Script18, 2) /\ Script(Start!Script19, 2)
    BY DEF Script, Kinds, Makers, Start!Script9, Start!Script10, Start!Script11,
       Start!Script16, Start!Script18, Start!Script19, Start!Tables, Start!Columns
  <1>18. \A k \in 1 .. 20 : \E n \in Nat : Script(Scripts[k], n)
    BY <1>1, <1>2, <1>3, <1>4, <1>5, <1>6, <1>7, <1>8, <1>9, <1>10, <1>11, <1>12, <1>13, <1>14, <1>15, <1>16, <1>17
  <1>19. /\ Start!Script16[2][1] = "mark" /\ Start!Script18[2][1] = "repair"
        /\ Start!Script11[1] = <<"table", "retro_entries">>
        /\ Start!Script11[2] = <<"column", "lessons.uid">>
    BY DEF Start!Script10, Start!Script11, Start!Script16, Start!Script18, Start!Tables,
       Start!Columns
  <1>20. {"lessons.uid", "retro_entries"} \subseteq Start!Objects(Start!Script11)
    <2>1. {Start!Script11[1], Start!Script11[2]} \subseteq Start!Range(Start!Script11)
      BY <1>17 DEF Start!Range, Script
    <2>2. /\ Start!Script11[1][1] = "table" /\ Start!Script11[1][2] = "retro_entries"
          /\ Start!Script11[2][1] = "column" /\ Start!Script11[2][2] = "lessons.uid"
      BY <1>19
    <2> QED
      BY <2>1, <2>2 DEF Start!Objects
  <1> QED
    BY <1>1, <1>17, <1>18, <1>19, <1>20 DEF Script

(* Events that get an identity get one that was never given.                *)
Unnamed(f)    == {k \in DOMAIN f : f[k] = 0}
Stamped(f, n) == [k \in DOMAIN f |->
                    IF f[k] # 0 THEN f[k]
                    ELSE n + Cardinality({j \in Unnamed(f) : j <= k})]

LEMMA StampsAreNew ==
    ASSUME NEW f \in Seq(Nat), NEW n \in Nat, Named(f, n)
    PROVE  LET g == Stamped(f, n)
               m == n + Cardinality(Unnamed(f))
           IN  /\ g \in Seq(Nat) /\ m \in Nat /\ Named(g, m)
               /\ Len(g) = Len(f) /\ \A k \in 1 .. Len(f) : f[k] # 0 => g[k] = f[k]
  <1> DEFINE U    == Unnamed(f)
             F(k) == {j \in U : j <= k}
             g    == Stamped(f, n)
             m    == n + Cardinality(U)
  <1>1. U \subseteq 1 .. Len(f) /\ IsFiniteSet(U) /\ Cardinality(U) \in Nat
    <2>1. IsFiniteSet(1 .. Len(f))
      BY FS_Interval
    <2>2. U \in SUBSET (1 .. Len(f))
      BY DEF Unnamed
    <2> QED
      BY <2>1, <2>2, FS_Subset, FS_CardinalityType
  <1>2. ASSUME NEW k \in 1 .. Len(f)
        PROVE  /\ IsFiniteSet(F(k)) /\ Cardinality(F(k)) \in Nat
               /\ Cardinality(F(k)) <= Cardinality(U)
               /\ k \in U => Cardinality(F(k)) > 0
    <2>1. F(k) \in SUBSET U
      OBVIOUS
    <2>2. /\ IsFiniteSet(F(k)) /\ Cardinality(F(k)) \in Nat
          /\ Cardinality(F(k)) <= Cardinality(U)
      BY <1>1, <2>1, FS_Subset, FS_CardinalityType
    <2>3. Cardinality(F(k)) = 0 => F(k) = {}
      BY <2>2, FS_EmptySet
    <2>4. k \in U => k \in F(k)
      OBVIOUS
    <2> QED
      BY <2>2, <2>3, <2>4
  <1>3. ASSUME NEW k \in U, NEW j \in U, j < k
        PROVE  Cardinality(F(j)) < Cardinality(F(k))
    <2>1. F(j) \in SUBSET F(k) /\ k \in F(k) /\ k \notin F(j)
      BY <1>1, <1>3
    <2>2. /\ IsFiniteSet(F(k)) /\ Cardinality(F(k)) \in Nat /\ Cardinality(F(j)) \in Nat
      BY <1>1, <1>2
    <2>3. /\ Cardinality(F(j)) <= Cardinality(F(k))
          /\ Cardinality(F(k)) = Cardinality(F(j)) => F(k) = F(j)
      BY <2>1, <2>2, FS_Subset
    <2> QED
      BY <2>1, <2>2, <2>3
  <1>4. \A k \in 1 .. Len(f) :
           g[k] = IF f[k] # 0 THEN f[k] ELSE n + Cardinality(F(k))
    BY DEF Stamped
  <1>5. \A k \in 1 .. Len(f) : k \in U <=> f[k] = 0
    BY DEF Unnamed
  <1>6. g \in Seq(Nat) /\ Len(g) = Len(f)
    <2>1. DOMAIN g = 1 .. Len(f)
      BY DEF Stamped
    <2>2. ASSUME NEW k \in 1 .. Len(f) PROVE g[k] \in Nat
      <3>1. f[k] \in Nat
        OBVIOUS
      <3>2. Cardinality(F(k)) \in Nat
        BY <1>2
      <3> HIDE DEF F, g
      <3> QED
        BY <1>4, <3>1, <3>2
    <2>3. g = [k \in 1 .. Len(f) |-> g[k]]
      BY <2>1 DEF Stamped
    <2> HIDE DEF g
    <2>4. g \in [1 .. Len(f) -> Nat]
      BY <2>2, <2>3
    <2> QED
      BY <2>4
  <1> HIDE DEF F, g, U
  <1>7. Named(g, m)
    <2>1. ASSUME NEW k \in 1 .. Len(f) PROVE g[k] <= m
      BY <1>1, <1>2, <1>4, <2>1 DEF Named, m
    <2>2. ASSUME NEW k \in 1 .. Len(f), NEW j \in 1 .. Len(f), g[j] = g[k], j # k
          PROVE  g[j] = 0
      <3>1. CASE f[j] # 0 /\ f[k] # 0
        BY <1>4, <2>2, <3>1 DEF Named
      <3>2. CASE f[j] = 0 /\ f[k] # 0
        BY <1>2, <1>4, <1>5, <2>2, <3>2 DEF Named
      <3>3. CASE f[j] # 0 /\ f[k] = 0
        BY <1>2, <1>4, <1>5, <2>2, <3>3 DEF Named
      <3>4. CASE f[j] = 0 /\ f[k] = 0
        <4>1. j \in U /\ k \in U /\ (j < k \/ k < j)
          BY <1>5, <2>2, <3>4
        <4> QED
          BY <1>2, <1>3, <1>4, <2>2, <3>4, <4>1
      <3> QED
        BY <3>1, <3>2, <3>3, <3>4
    <2> QED
      BY <1>6, <2>1, <2>2 DEF Named
  <1> QED
    BY <1>1, <1>4, <1>6, <1>7 DEF g, m, U

(* What a step may do to the identities and the counter, see StepIdentities.*)
Lasting ==
    /\ ids' \in Seq(Nat) /\ minted' \in Nat /\ Named(ids', minted')
    /\ Len(ids) <= Len(ids') /\ \A k \in 1 .. Len(ids) : ids[k] # 0 => ids'[k] = ids[k]
    /\ counter' \in Int /\ counter' >= counter

LEMMA LastingLasts ==
    ASSUME StartInv, Lasting PROVE Start!StepIdentities
  <1>1. ids \in Seq(Nat) /\ ids' \in Seq(Nat)
    BY DEF StartInv, StartTypes, Lasting
  <1>2. DOMAIN ids = 1 .. Len(ids) /\ DOMAIN ids' = 1 .. Len(ids')
    BY <1>1
  <1>3. \A k \in DOMAIN ids : ids[k] # 0 => ids'[k] = ids[k]
    BY <1>2 DEF Lasting
  <1>4. \A j, k \in DOMAIN ids' : ids'[j] = ids'[k] /\ ids'[j] # 0 => j = k
    BY <1>2 DEF Lasting, Named
  <1> QED
    BY <1>3, <1>4 DEF Lasting, Start!StepIdentities

LEMMA Appends ==
    ASSUME StartInv, counter' = counter,
           \/ ids' = ids /\ minted' = minted
           \/ Start!AppendIds(1)
           \/ ids' = Append(ids, 0) /\ minted' = minted
    PROVE  Lasting
  <1>1. CASE ids' = ids /\ minted' = minted
    BY <1>1 DEF StartInv, StartTypes, Lasting
  <1>2. CASE Start!AppendIds(1)
    <2> DEFINE e == [k \in 1 .. 1 |-> minted + k]
    <2>1. e \in Seq(Nat) /\ Len(e) = 1 /\ e[1] = minted + 1
      BY DEF StartInv, StartTypes
    <2>2. ids' = ids \o e /\ minted' = minted + 1
      BY <1>2 DEF Start!AppendIds
    <2> HIDE DEF e
    <2>3. /\ ids' \in Seq(Nat) /\ Len(ids') = Len(ids) + 1
          /\ \A i \in 1 .. Len(ids) + 1 : ids'[i] = IF i <= Len(ids) THEN ids[i] ELSE minted + 1
      <3>1. ids \in Seq(Nat) /\ Len(ids) \in Nat
        BY DEF StartInv, StartTypes
      <3>2. /\ ids \o e \in Seq(Nat) /\ Len(ids \o e) = Len(ids) + Len(e)
            /\ \A i \in 1 .. Len(ids) + Len(e) :
                  (ids \o e)[i] = IF i <= Len(ids) THEN ids[i] ELSE e[i - Len(ids)]
        BY <2>1, <3>1, ConcatProperties
      <3>3. \A i \in 1 .. Len(ids) + 1 : ~(i <= Len(ids)) => i - Len(ids) = 1
        BY <3>1
      <3> QED
        BY <2>1, <2>2, <3>2, <3>3
    <2> QED
      BY <2>2, <2>3 DEF StartInv, StartTypes, Lasting, Named
  <1>3. CASE ids' = Append(ids, 0) /\ minted' = minted
    BY <1>3 DEF StartInv, StartTypes, Lasting, Named
  <1> QED
    BY <1>1, <1>2, <1>3

LEMMA Greater ==
    ASSUME NEW a \in Int
    PROVE  LET m == Start!Max({a, Start!NewestRow}) IN m \in Int /\ m >= a
  <1>1. \E x \in {a, 2} : \A y \in {a, 2} : x >= y
    <2>1. CASE a >= 2
      BY <2>1
    <2>2. CASE 2 >= a
      BY <2>2
    <2> QED
      BY <2>1, <2>2
  <1> QED
    BY <1>1 DEF Start!Max, Start!NewestRow

(* The library's Cardinality, as Startup takes it in.                       *)
LEMMA SameCardinality == ASSUME NEW S PROVE Start!Cardinality(S) = Cardinality(S)
  BY DEF Start!Cardinality, Cardinality

(* What one statement of a migration does.                                  *)
LEMMA Applies ==
    ASSUME StartInv, NEW k \in 1 .. 20, NEW i \in 1 .. Len(Scripts[k]),
           Start!Apply(Scripts[k][i])
    PROVE  LET stmt == Scripts[k][i]
           IN  /\ shape \subseteq shape' /\ shape' \subseteq Start!ShapeOf(20)
               /\ stmt[1] \in Makers => stmt[2] \in shape'
               /\ Lasting
               /\ task' \in [done : BOOLEAN, status : {"backlog", "done"}]
               /\ task' = task \/ Start!Agrees(task')
               /\ stmt[1] = "repair" => Start!Agrees(task')
               /\ seededAt' \in BOOLEAN /\ (seededAt => seededAt')
               /\ stmt[1] = "mark" => own = {} \/ seededAt'
  <1> DEFINE stmt == Scripts[k][i]
             kind == stmt[1]
             name == stmt[2]
  <1>1. DOMAIN Scripts[k] = 1 .. Len(Scripts[k]) /\ kind \in Kinds
    BY ScriptsAre DEF Script
  <1>2. Start!Apply(stmt)
    OBVIOUS
  <1>3. kind \in Makers => name \in Start!ShapeOf(20)
    <2>1. stmt \in Start!Range(Scripts[k])
      BY <1>1 DEF Start!Range
    <2>2. kind \in Makers => name \in Start!Objects(Scripts[k])
      BY <2>1 DEF Start!Objects, Makers
    <2> QED
      BY <2>2 DEF Start!ShapeOf, Scripts
  <1> HIDE DEF stmt, kind, name
  <1> USE DEF StartInv, StartTypes
  <1>4. shape \subseteq Start!ShapeOf(20)
    BY DEF Built
  <1>5. CASE kind \in {"table", "column"}
    <2>1. /\ shape' = shape \cup {name}
          /\ UNCHANGED <<ids, minted, counter, task, seededAt>>
      BY <1>2, <1>5 DEF Start!Apply, kind, name
    <2>2. Lasting
      BY <2>1, Appends
    <2> QED
      BY <1>3, <1>4, <1>5, <2>1, <2>2 DEF Makers, stmt, kind, name
  <1>6. CASE kind = "rebuild"
    <2>1. /\ shape' = shape \cup {name}
          /\ counter' = IF name \in shape THEN counter ELSE Start!Max({counter, Start!NewestRow})
          /\ UNCHANGED <<ids, minted, task, seededAt>>
      BY <1>2, <1>6 DEF Start!Apply, kind, name
    <2>2. Lasting
      <3> DEFINE m == Start!Max({counter, Start!NewestRow})
      <3>1. m \in Int /\ m >= counter
        <4>1. counter \in Int
          OBVIOUS
        <4> HIDE DEF counter
        <4> QED
          BY <4>1, Greater, Zenon
      <3>2. counter' = counter \/ counter' = m
        BY <2>1
      <3> HIDE DEF version, shape, ids, minted, counter, m
      <3> QED
        BY <2>1, <3>1, <3>2 DEF Lasting
    <2> QED
      BY <1>3, <1>4, <1>6, <2>1, <2>2 DEF Makers, stmt, kind, name
  <1>7. CASE kind = "stamp"
    <2>1. /\ ids' = Start!Stamped /\ minted' = minted + Start!Cardinality(Start!Unnamed)
          /\ UNCHANGED <<shape, counter, task, seededAt>>
      BY <1>2, <1>7 DEF Start!Apply, kind, name
    <2>2. ids' = Stamped(ids, minted) /\ minted' = minted + Cardinality(Unnamed(ids))
      BY <2>1, SameCardinality DEF Stamped, Unnamed, Start!Stamped, Start!Unnamed
    <2>3. Lasting
      <3>1. LET g == Stamped(ids, minted)
                m == minted + Cardinality(Unnamed(ids))
            IN  /\ g \in Seq(Nat) /\ m \in Nat /\ Named(g, m)
                /\ Len(g) = Len(ids) /\ \A j \in 1 .. Len(ids) : ids[j] # 0 => g[j] = ids[j]
        BY StampsAreNew
      <3> QED
        BY <2>1, <2>2, <3>1 DEF Lasting
    <2> QED
      BY <1>4, <1>7, <2>1, <2>3 DEF Makers, stmt, kind, name
  <1>8. CASE kind = "mark"
    <2>1. /\ seededAt' = (seededAt \/ own # {} \/ demo # {} \/ inboxes > 0)
          /\ UNCHANGED <<shape, ids, minted, counter, task>>
      BY <1>2, <1>8 DEF Start!Apply, kind, name
    <2>2. Lasting
      BY <2>1, Appends
    <2>3. seededAt' \in BOOLEAN /\ (seededAt => seededAt') /\ (own # {} => seededAt')
      BY <2>1
    <2> QED
      BY <1>4, <1>8, <2>1, <2>2, <2>3 DEF Makers, stmt, kind, name
  <1>9. CASE kind = "repair"
    <2>1. /\ task' = IF Start!Agrees(task) THEN task
                     ELSE [task EXCEPT !.status = IF task.done THEN "done" ELSE "backlog"]
          /\ UNCHANGED <<shape, ids, minted, counter, seededAt>>
      BY <1>2, <1>9 DEF Start!Apply, kind, name
    <2>2. Lasting
      BY <2>1, Appends
    <2>3. Start!Agrees(task') /\ task' \in [done : BOOLEAN, status : {"backlog", "done"}]
      BY <2>1 DEF Start!Agrees
    <2> QED
      BY <1>4, <1>9, <2>1, <2>2, <2>3 DEF Makers, stmt, kind, name
  <1> QED
    BY <1>1, <1>5, <1>6, <1>7, <1>8, <1>9 DEF Kinds, Makers

(* The shape that a version promises.                                       *)
LEMMA NextShape ==
    ASSUME NEW v \in 0 .. 19
    PROVE  Start!ShapeOf(v + 1) = Start!ShapeOf(v) \cup Start!Objects(Scripts[v + 1])
  <1>1. 1 .. v + 1 = (1 .. v) \cup {v + 1}
    OBVIOUS
  <1> QED
    BY <1>1 DEF Start!ShapeOf, Scripts

LEMMA MadeIsThere ==
    ASSUME NEW k \in 1 .. 20, NEW l \in Nat, l > Len(Scripts[k]), Begun(k, l)
    PROVE  Start!Objects(Scripts[k]) \subseteq shape
  <1>1. DOMAIN Scripts[k] = 1 .. Len(Scripts[k]) /\ Len(Scripts[k]) \in Nat
    BY ScriptsAre DEF Script
  <1>2. ASSUME NEW x \in Start!Objects(Scripts[k]) PROVE x \in shape
    <2>1. PICK i \in 1 .. Len(Scripts[k]) :
             Scripts[k][i][1] \in Makers /\ x = Scripts[k][i][2]
      BY <1>1 DEF Start!Objects, Start!Range, Makers
    <2> QED
      BY <1>1, <2>1 DEF Begun
  <1> QED
    BY <1>2

(* A step that keeps the invariant and does what StartIsSound allows.       *)
Sound == StartInv' /\ Start!StepDemo /\ Lasting

(* The schema. *)
LEMMA StatementStep == ASSUME StartInv, Start!Statement PROVE Sound
  <1> DEFINE k    == version + 1
             stmt == Scripts[k][line]
  <1>1. /\ at = "migrating" /\ version \in 0 .. 19 /\ k \in 1 .. 20
        /\ line \in 1 .. Len(Scripts[k]) /\ Start!Apply(stmt) /\ line' = line + 1
        /\ UNCHANGED <<version, own, demo, inboxes, at, kills, oldAlive, initialised>>
    <2>1. Start!Latest = 20
      BY ScriptsAre
    <2>2. /\ at = "migrating" /\ version < 20 /\ line <= Len(Start!Migrations[version + 1])
          /\ Start!Apply(Start!Migrations[version + 1][line]) /\ line' = line + 1
          /\ UNCHANGED <<version, own, demo, inboxes, at, kills, oldAlive, initialised>>
      BY <2>1 DEF Start!Statement
    <2>3. version \in 0 .. 19 /\ k \in 1 .. 20 /\ line \in Nat \ {0}
      BY <2>2 DEF StartInv, StartTypes
    <2>4. Len(Scripts[k]) \in Nat
      BY <2>3, ScriptsAre DEF Script
    <2> QED
      BY <2>2, <2>3, <2>4 DEF Scripts
  <1>2. /\ shape \subseteq shape' /\ shape' \subseteq Start!ShapeOf(20)
        /\ stmt[1] \in Makers => stmt[2] \in shape'
        /\ Lasting
        /\ task' \in [done : BOOLEAN, status : {"backlog", "done"}]
        /\ task' = task \/ Start!Agrees(task')
        /\ stmt[1] = "repair" => Start!Agrees(task')
        /\ seededAt' \in BOOLEAN /\ (seededAt => seededAt')
        /\ stmt[1] = "mark" => own = {} \/ seededAt'
    BY <1>1, Applies
  <1>3. StartTypes' /\ Named(ids', minted')
    BY <1>1, <1>2 DEF StartInv, StartTypes, Lasting
  <1>4. Built'
    <2>1. Begun(k, line)
      BY <1>1 DEF StartInv, Built
    <2>2. Begun(version + 1, line)'
      <3>1. ASSUME NEW i \in 1 .. Len(Scripts[k]), i < line + 1, Scripts[k][i][1] \in Makers
            PROVE  Scripts[k][i][2] \in shape'
        <4>1. i < line \/ i = line
          BY <1>1, <3>1
        <4> QED
          BY <1>2, <2>1, <3>1, <4>1 DEF Begun
      <3> QED
        BY <1>1, <3>1 DEF Begun
    <2> QED
      BY <1>1, <1>2, <2>2 DEF StartInv, Built
  <1>5. Marked'
    <2>1. (version = 15 /\ line = 2 => stmt[1] = "mark")
          /\ (version = 17 /\ line = 2 => stmt[1] = "repair")
      BY ScriptsAre
    <2>2. version' = version /\ line' = line + 1 /\ line \in Nat /\ version \in Nat /\ at' = at
      BY <1>1 DEF StartInv, StartTypes
    <2>3. (Past(18)' => Past(18) \/ stmt[1] = "repair")
          /\ (Past(16)' => Past(16) \/ stmt[1] = "mark")
      BY <1>1, <2>1, <2>2 DEF Past
    <2>4. (Past(18) => Start!Agrees(task)) /\ (Past(16) => own = {} \/ seededAt)
          /\ (initialised => seededAt \/ own # {})
      BY DEF StartInv, Marked
    <2>5. Past(18)' => Start!Agrees(task')
      BY <1>2, <2>3, <2>4
    <2>6. Past(16)' => own' = {} \/ seededAt'
      BY <1>1, <1>2, <2>3, <2>4
    <2> QED
      BY <1>1, <1>2, <2>4, <2>5, <2>6 DEF Marked, Start!Agrees
  <1>6. Phase'
    BY <1>1 DEF StartInv, Phase, Seeding
  <1> QED
    BY <1>1, <1>2, <1>3, <1>4, <1>5, <1>6 DEF StartInv, Sound, Start!StepDemo

LEMMA BumpStep == ASSUME StartInv, Start!Bump PROVE Sound
  <1>1. Start!Latest = 20
    BY ScriptsAre
  <1>2. /\ at = "migrating" /\ version \in 0 .. 19 /\ line \in Nat
        /\ line > Len(Scripts[version + 1])
        /\ version' = version + 1 /\ line' = 1
        /\ UNCHANGED <<shape, ids, minted, counter, task, own, demo, inboxes, seededAt,
                       at, kills, oldAlive, initialised>>
    BY <1>1 DEF Start!Bump, StartInv, StartTypes, Scripts
  <1>3. Lasting
    BY <1>2, Appends
  <1>4. Built'
    <2>1. Start!Objects(Scripts[version + 1]) \subseteq shape
      BY <1>2, MadeIsThere DEF StartInv, Built
    <2>2. Start!ShapeOf(version') = Start!ShapeOf(version) \cup Start!Objects(Scripts[version + 1])
      BY <1>2, NextShape
    <2>3. ASSUME NEW x \in Start!ShapeOf(version')
          PROVE  x \in shape \/ (version' = 10 /\ x = "retro_entries")
      <3>1. x \in shape \/ (version = 10 /\ x = "retro_entries")
        BY <2>1, <2>2 DEF StartInv, Built
      <3>2. version = 10 => "retro_entries" \in shape
        BY <2>1, ScriptsAre
      <3> QED
        BY <3>1, <3>2
    <2>4. Begun(version + 1, line)'
      BY <1>2 DEF Begun
    <2> QED
      BY <1>2, <2>3, <2>4 DEF StartInv, Built
  <1>5. Marked'
    <2>1. (Past(18)' => Past(18)) /\ (Past(16)' => Past(16))
      <3>1. version = 15 \/ version = 17 => line > 2
        <4>1. CASE version = 15
          <5>1. version + 1 = 16
            BY <4>1
          <5> QED
            BY <1>2, <5>1, ScriptsAre
        <4>2. CASE version = 17
          <5>1. version + 1 = 18
            BY <4>2
          <5> QED
            BY <1>2, <5>1, ScriptsAre
        <4> QED
          BY <4>1, <4>2
      <3> QED
        BY <1>2, <3>1 DEF Past
    <2> QED
      BY <1>2, <2>1 DEF StartInv, Marked, Start!Agrees
  <1>6. Phase'
    BY <1>2 DEF StartInv, Phase, Seeding
  <1>7. StartTypes'
    BY <1>2 DEF StartInv, StartTypes
  <1> QED
    BY <1>2, <1>3, <1>4, <1>5, <1>6, <1>7 DEF StartInv, Sound, Start!StepDemo, Lasting

(* The rest of a start, and what may happen meanwhile, leave the schema.    *)
LEMMA LeavesSchema ==
    ASSUME StartInv, UNCHANGED <<version, shape, task>>, StartTypes', Lasting, Phase',
           at' # "migrating" \/ (at' = at /\ line' = line) \/ line' = 1,
           (seededAt => seededAt'), own' \subseteq own,
           own # {} /\ own' = {} => seededAt',
           initialised' => initialised \/ seededAt',
           Start!StepDemo
    PROVE  Sound
  <1>1. Built'
    <2>1. ASSUME version < 20, at' = "migrating" PROVE Begun(version + 1, line)'
      <3>1. CASE line' = 1
        BY <3>1 DEF Begun
      <3>2. CASE at' = at /\ line' = line
        BY <2>1, <3>2 DEF StartInv, Built, Begun
      <3> QED
        BY <2>1, <3>1, <3>2
    <2> QED
      BY <2>1 DEF StartInv, Built
  <1>2. Marked'
    <2>1. (Past(18)' => Past(18)) /\ (Past(16)' => Past(16))
      BY DEF Past
    <2>2. (Past(18) => Start!Agrees(task)) /\ (Past(16) => own = {} \/ seededAt)
          /\ (initialised => seededAt \/ own # {})
      BY DEF StartInv, Marked
    <2>3. Past(18)' => Start!Agrees(task')
      BY <2>1, <2>2
    <2>4. Past(16)' => own' = {} \/ seededAt'
      BY <2>1, <2>2
    <2>5. initialised' => seededAt' \/ own' # {}
      BY <2>2
    <2> QED
      BY <2>3, <2>4, <2>5 DEF Marked, Start!Agrees
  <1> QED
    BY <1>1, <1>2 DEF StartInv, Sound, Lasting

LEMMA StartSteps ==
    ASSUME StartInv,
           \/ Start!Boot \/ Start!Migrated \/ Start!SeedHabits \/ Start!SeedInbox
           \/ Start!SeedLists \/ Start!SeedTasks \/ Start!Mark \/ Start!EnsureInbox
           \/ Start!Kill \/ Start!ClearHabits \/ Start!OldAppend \/ Start!OldExit
    PROVE  Sound
  <1> USE DEF Seeding
  <1>1. UNCHANGED <<version, shape, task>> /\ counter' = counter
    BY DEF Start!Boot, Start!Migrated, Start!SeedHabits, Start!SeedInbox, Start!SeedLists,
       Start!SeedTasks, Start!Mark, Start!EnsureInbox, Start!Kill, Start!ClearHabits,
       Start!OldAppend, Start!OldExit, Start!store
  <1>2. Lasting
    <2>1. \/ ids' = ids /\ minted' = minted
          \/ Start!AppendIds(1)
          \/ ids' = Append(ids, 0) /\ minted' = minted
      BY DEF Start!Boot, Start!Migrated, Start!SeedHabits, Start!SeedInbox, Start!SeedLists,
         Start!SeedTasks, Start!Mark, Start!EnsureInbox, Start!Kill, Start!ClearHabits,
         Start!OldAppend, Start!OldExit, Start!store
    <2> QED
      BY <1>1, <2>1, Appends
  <1>3. Start!Latest = 20
    BY ScriptsAre
  <1>4. at' # "migrating" \/ (at' = at /\ line' = line) \/ line' = 1
    BY DEF Start!Boot, Start!Migrated, Start!SeedHabits, Start!SeedInbox, Start!SeedLists,
       Start!SeedTasks, Start!Mark, Start!EnsureInbox, Start!Kill, Start!ClearHabits,
       Start!OldAppend, Start!OldExit, Start!store
  <1>5. /\ seededAt => seededAt'
        /\ own' \subseteq own /\ (own # {} /\ own' = {} => seededAt')
        /\ initialised' => initialised \/ seededAt'
    BY DEF Start!Boot, Start!Migrated, Start!SeedHabits, Start!SeedInbox, Start!SeedLists,
       Start!SeedTasks, Start!Mark, Start!EnsureInbox, Start!Kill, Start!ClearHabits,
       Start!OldAppend, Start!OldExit, Start!store, StartInv, StartTypes, Phase
  <1>6. StartTypes'
    <2>1. /\ line' \in Nat \ {0} /\ inboxes' \in 0 .. 1
          /\ at' \in {"down", "migrating", "inbox", "up"} \cup Seeding
      BY DEF Start!Boot, Start!Migrated, Start!SeedHabits, Start!SeedInbox, Start!SeedLists,
         Start!SeedTasks, Start!Mark, Start!EnsureInbox, Start!Kill, Start!ClearHabits,
         Start!OldAppend, Start!OldExit, Start!store, StartInv, StartTypes
    <2>2. seededAt' \in BOOLEAN /\ initialised' \in BOOLEAN
      BY DEF Start!Boot, Start!Migrated, Start!SeedHabits, Start!SeedInbox, Start!SeedLists,
         Start!SeedTasks, Start!Mark, Start!EnsureInbox, Start!Kill, Start!ClearHabits,
         Start!OldAppend, Start!OldExit, Start!store, StartInv, StartTypes
    <2> QED
      BY <1>1, <1>2, <2>1, <2>2 DEF StartInv, StartTypes, Lasting
  <1>7. Phase'
    BY <1>1, <1>3 DEF Start!Boot, Start!Migrated, Start!SeedHabits, Start!SeedInbox,
       Start!SeedLists, Start!SeedTasks, Start!Mark, Start!EnsureInbox, Start!Kill,
       Start!ClearHabits, Start!OldAppend, Start!OldExit, Start!store, StartInv, StartTypes,
       Phase
  <1>8. Start!StepDemo
    <2>1. demo' \subseteq demo \/ at \in Seeding
      BY DEF Start!Boot, Start!Migrated, Start!SeedHabits, Start!SeedInbox, Start!SeedLists,
         Start!SeedTasks, Start!Mark, Start!EnsureInbox, Start!Kill, Start!ClearHabits,
         Start!OldAppend, Start!OldExit, Start!store
    <2>2. at \in Seeding => ~initialised /\ own = {}
      BY DEF StartInv, Phase, Marked, Past
    <2> QED
      BY <2>1, <2>2 DEF Start!StepDemo
  <1> QED
    BY <1>1, <1>2, <1>4, <1>5, <1>6, <1>7, <1>8, LeavesSchema

LEMMA StartNext == ASSUME StartInv, [Start!Next]_(Start!vars) PROVE Sound
  <1>1. CASE UNCHANGED Start!vars
    <2>1. /\ UNCHANGED <<version, shape, ids, minted, counter, task, own, demo, inboxes>>
          /\ UNCHANGED <<seededAt, at, line, kills, oldAlive, initialised>>
      BY <1>1 DEF Start!vars
    <2>2. Lasting
      BY <2>1, Appends
    <2> QED
      BY <2>1, <2>2 DEF Sound, StartInv, StartTypes, Built, Begun, Marked, Past, Phase,
         Start!Agrees, Start!StepDemo
  <1>2. CASE Start!Next
    BY <1>2, StatementStep, BumpStep, StartSteps DEF Start!Next, Start!Start
  <1> QED
    BY <1>1, <1>2

LEMMA StartsWell == ASSUME Start!Init PROVE StartInv
  <1>1. Start!Latest = 20
    BY ScriptsAre
  <1>2. \A v \in 0 .. 20 : Start!ShapeOf(v) \subseteq Start!ShapeOf(20)
    BY DEF Start!ShapeOf
  <1>3. counter \in Nat /\ at = "down" /\ line = 1
    BY DEF Start!Init, Start!NewestRow
  <1>4. ASSUME NEW v \in 0 .. 20, NEW rows, Start!HistoryAt(v, rows) PROVE StartInv
    <2> DEFINE n == IF "events" \in rows THEN 2 ELSE 0
    <2>1. /\ version = v /\ shape = Start!ShapeOf(v) /\ own = rows
          /\ ids = [k \in 1 .. n |-> IF v >= 9 THEN k ELSE 0]
          /\ minted = IF v >= 9 THEN n ELSE 0
          /\ task = IF v >= 18 THEN [Start!OldTask EXCEPT !.status = "done"] ELSE Start!OldTask
          /\ demo = {} /\ inboxes = (IF "lists" \in rows THEN 1 ELSE 0)
          /\ seededAt = (v >= 16 /\ rows # {})
          /\ initialised = (rows # {})
      BY <1>4 DEF Start!HistoryAt
    <2>2. n \in Nat
      OBVIOUS
    <2>3. ids \in Seq(Nat) /\ minted \in Nat /\ Named(ids, minted)
      BY <2>1, <2>2 DEF Named
    <2>4. /\ task \in [done : BOOLEAN, status : {"backlog", "done"}]
          /\ v >= 18 => Start!Agrees(task)
      BY <2>1 DEF Start!OldTask, Start!Agrees
    <2>5. /\ seededAt \in BOOLEAN /\ initialised \in BOOLEAN
          /\ v >= 16 => own = {} \/ seededAt
          /\ initialised => own # {}
      BY <2>1
    <2>6. StartTypes
      BY <1>3, <2>1, <2>3, <2>4, <2>5 DEF StartTypes
    <2>7. Built
      BY <1>2, <1>3, <2>1 DEF Built
    <2>8. Marked /\ Phase
      BY <1>3, <2>1, <2>4, <2>5 DEF Marked, Phase, Past, Seeding
    <2> QED
      BY <2>3, <2>6, <2>7, <2>8 DEF StartInv
  <1>5. ASSUME version = 10, shape = Start!ShapeOf(9) \cup {"lessons.uid"},
               own = Start!Evidence, ids = <<1, 2>>, minted = 2, task = Start!OldTask,
               inboxes = 1, seededAt = FALSE, initialised = TRUE
        PROVE  StartInv
    <2>1. Start!ShapeOf(10) = Start!ShapeOf(9) \cup Start!Objects(Scripts[10])
      BY NextShape
    <2>2. Start!Objects(Scripts[10]) \subseteq {"retro_entries"}
      BY DEF Scripts, Start!Migrations, Start!Script10, Start!Tables, Start!Objects, Start!Range
    <2>3. "lessons.uid" \in Start!ShapeOf(20)
      BY ScriptsAre DEF Start!ShapeOf, Scripts
    <2>4. Built
      BY <1>2, <1>3, <1>5, <2>1, <2>2, <2>3 DEF Built
    <2>5. own # {}
      BY <1>5 DEF Start!Evidence
    <2>6. Marked /\ Phase
      BY <1>3, <1>5, <2>5 DEF Marked, Phase, Past, Seeding
    <2>7. ids \in Seq(Nat) /\ Named(ids, minted)
      BY <1>5 DEF Named
    <2>8. task \in [done : BOOLEAN, status : {"backlog", "done"}]
      BY <1>5 DEF Start!OldTask
    <2>9. StartTypes
      <3>1. seededAt \in BOOLEAN /\ initialised \in BOOLEAN
        BY <1>5
      <3>2. version \in 0 .. 20 /\ line \in Nat \ {0} /\ minted \in Nat /\ inboxes \in 0 .. 1
        BY <1>3, <1>5
      <3> QED
        BY <1>3, <2>7, <2>8, <3>1, <3>2 DEF StartTypes
    <2> QED
      BY <2>4, <2>6, <2>7, <2>9 DEF StartInv
  <1> QED
    <2>1. CASE Start!HistoryAt(0, {}) \/ Start!HistoryAt(8, Start!Evidence)
      BY <1>4, <2>1
    <2>2. CASE \E v \in 1 .. Start!Latest, rows \in SUBSET Start!Evidence :
                  Start!HistoryAt(v, rows)
      BY <1>1, <1>4, <2>2
    <2>3. {"routine_items", "events"} \subseteq Start!Evidence /\ {"events"} \subseteq Start!Evidence
      BY DEF Start!Evidence, Start!Seedable
    <2> QED
      BY <1>1, <1>5, <2>1, <2>2, <2>3 DEF Start!Init

(* Wherever starts are killed and whatever database they find: what answers *)
(* has the whole schema, one Inbox and a repaired board, demo rows enter    *)
(* only an installation that was never used, and identities and the session *)
(* counter last (app/db.py, app/main.py).                                   *)
THEOREM StartsSoundly == SceneSpec => StartIsSound
  <1> DEFINE I == scene = "startup" => StartInv
             P == scene = "startup" =>
                    Start!StepDemo /\ Start!StepIdentities /\ Start!ServesWhole'
  <1>1. SceneInit => I
    BY StartsWell DEF SceneInit
  <1>2. I /\ [SceneNext]_all => I' /\ (P \/ UNCHANGED all)
    <2>1. SUFFICES ASSUME I, [SceneNext]_all, scene = "startup" \/ scene' = "startup"
                   PROVE  I' /\ P
      BY DEF all
    <2>2. scene = "startup" /\ scene' = "startup" /\ [Start!Next]_(Start!vars)
      BY <2>1 DEF SceneNext, all, state, Start!vars
    <2>3. Sound
      BY <2>1, <2>2, StartNext
    <2>4. Start!StepDemo /\ Start!StepIdentities
      BY <2>1, <2>2, <2>3, LastingLasts DEF Sound
    <2>5. Start!ServesWhole'
      <3>1. Start!Latest = 20
        BY ScriptsAre
      <3>2. ASSUME at' = "up"
            PROVE  version' = 20 /\ inboxes' = 1 /\ seededAt'
        BY <2>3, <3>2 DEF Sound, StartInv, Phase
      <3>3. ASSUME version' = 20
            PROVE  shape' = Start!ShapeOf(20) /\ Start!Agrees(task')
        <4>1. shape' = Start!ShapeOf(20)
          BY <2>3, <3>3 DEF Sound, StartInv, Built
        <4>2. Past(18)'
          BY <3>3 DEF Past
        <4> QED
          BY <2>3, <4>1, <4>2 DEF Sound, StartInv, Marked, Start!Agrees
      <3> QED
        BY <3>1, <3>2, <3>3 DEF Start!ServesWhole, Start!Agrees
    <2> QED
      BY <2>3, <2>4, <2>5 DEF Sound
  <1>3. I /\ [SceneNext]_all => [P]_all
    BY <1>2
  <1> QED
    BY <1>1, <1>2, <1>3, PTL DEF SceneSpec, StartIsSound
=============================================================================
