------------------------------ MODULE Preview ------------------------------
(***************************************************************************)
(* A lesson page on display and the identity it is recorded under.        *)
(* The server hashes the page on one descriptor, behind a cache keyed by  *)
(* the whole inode identity (app/services/lessons.py); the learn page     *)
(* polls metadata, loads the frame under a version token and binds the    *)
(* identity the metadata carries (app/static/src/learn-bridge.ts); an     *)
(* answer is recorded as fresh or stale against the page as it is then    *)
(* (app/services/attempts.py). The agent rewrites or removes the page at  *)
(* any moment and may preserve its mtime.                                 *)
(*                                                                        *)
(* A digest is the bytes. Every write moves the identity (ctime or inode),*)
(* as the cache assumes. A read across a write sees the bytes of either   *)
(* side. The profile, the third part of the token, is constant.           *)
(***************************************************************************)
EXTENDS Integers, FiniteSets

CONSTANTS Bytes,      \* contents the page may have
          MaxWrites,  \* bound: writes of the agent
          MaxLoads    \* bound: navigations of the frame

(* A digest is neither of the two words that stand for having none.       *)
PreviewAssumption ==
  {"none", "absent"} \cap Bytes = {} /\ MaxWrites \in Nat /\ MaxLoads \in Nat \ {0}

VARIABLES page,      \* [bytes, mtime, id] of the declared page's file
          writes,    \* writes of the agent so far, and the source of identities
          cache,     \* [key, digest]: the cached digest of the path
          slot,      \* slot[q]: the request of kind q, see Slot
          expected,  \* expectedVersion
          pending,   \* navPending
          armed,     \* the page_rev bound to the frame, or None
          frame,     \* the document the frame shows
          loads,     \* navigations so far
          held       \* what the page has held since the answer was sent

vars == <<page, writes, cache, slot, expected, pending, armed, frame, loads, held>>

None    == "none"
Absent  == "absent"
NoFile  == [bytes |-> Absent, mtime |-> 0, id |-> -1]
NoEntry == [key |-> NoFile, digest |-> None]
Slots   == {"poll", "bind", "load", "post"}
Token   == [digest : Bytes \cup {Absent, None}, mtime : 0 .. 1]
NoToken == [digest |-> None, mtime |-> 0]
Idle    == [at |-> "idle", opened |-> NoFile, data |-> None, token |-> NoToken]
Frames  == [kind : {"page", "notice", "missing", "foreign"}, bytes : Bytes \cup {Absent, None}]
Notice  == [kind |-> "notice", bytes |-> None]
Missing == [kind |-> "missing", bytes |-> None]
Foreign == [kind |-> "foreign", bytes |-> None]

Init ==
  /\ page \in [bytes : Bytes, mtime : {0}, id : {0}]
  /\ writes = 0 /\ cache = NoEntry /\ held = {}
  /\ slot = [q \in Slots |-> IF q = "load" THEN [Idle EXCEPT !.at = "asked"] ELSE Idle]
  /\ expected = [digest |-> page.bytes, mtime |-> 0]
  /\ pending = TRUE /\ armed = None /\ frame = Foreign /\ loads = 1

Client == <<expected, pending, armed, frame, loads>>
Disk   == <<page, writes, held>>
Put(q, value) == slot' = [slot EXCEPT ![q] = value]

-----------------------------------------------------------------------------
(* The page snapshot, on one descriptor: fstat, the bytes, fstat again.   *)
Opens(q) ==
  /\ slot[q].at = "asked"
  /\ Put(q, [slot[q] EXCEPT !.at = "open", !.opened = page])
  /\ UNCHANGED <<cache, Client, Disk>>

(* _digest_key. Mutant: mtime and size stand for the bytes.               *)
KeyByTimes(file) == [bytes |-> Absent, mtime |-> file.mtime, id |-> 0]
DigestKey(file)  == [bytes |-> Absent, mtime |-> file.mtime, id |-> file.id]

(* _RegularRead.stable.                                                    *)
Stable(q)  == slot[q].opened = page

(* _cached_page_digest: the cache answers a stable read of a known key.   *)
DigestOf(q, bytes) ==
  IF Stable(q) /\ cache.digest # None /\ cache.key = DigestKey(page)
  THEN cache.digest ELSE bytes

(* The body of a declared page.                                            *)
Body(q)     == slot[q].data

(* What the descriptor yields: nothing when there was no file to open, and*)
(* either side of a write that came in between.                           *)
Yields(q) ==
  IF slot[q].opened = NoFile THEN {NoFile} ELSE {slot[q].opened, page} \ {NoFile}

Remembers(q, digest) ==
  cache' = IF Stable(q) /\ slot[q].opened # NoFile
           THEN [key |-> DigestKey(page), digest |-> digest] ELSE cache

(* The token: the closing stat's mtime and the digest.                    *)
Reads(q) ==
  /\ slot[q].at = "open"
  /\ \E seen \in Yields(q) :
       LET digest == DigestOf(q, seen.bytes)
       IN /\ Put(q, [at |-> "read", opened |-> NoFile, data |-> seen.bytes,
                     token |-> [digest |-> digest, mtime |-> seen.mtime]])
          /\ Remembers(q, digest)
  /\ UNCHANGED <<Client, Disk>>

-----------------------------------------------------------------------------
(* navigate: the binding is torn down before the frame is sent anywhere.  *)
Navigate(token) ==
  /\ loads < MaxLoads /\ loads' = loads + 1
  /\ armed' = None /\ expected' = token /\ pending' = TRUE
  /\ UNCHANGED frame

(* The load of the frame supersedes the one under way, and a bind that    *)
(* belongs to an earlier document is dropped by its generation.           *)
Reload(q) ==
  slot' = [slot EXCEPT ![q] = Idle, !["load"] = [Idle EXCEPT !.at = "asked"]]

(* Binds only while the frame is settled and nothing is bound yet.        *)
Settled        == ~pending /\ armed = None
Arms(token) ==
  armed' = IF Settled /\ token.digest # Absent THEN token.digest ELSE armed

(* The metadata of a poll, or of the bind that follows a load: a token    *)
(* that moved reloads the frame, the same token may bind.                 *)
Learns(q) ==
  /\ q \in {"poll", "bind"} /\ slot[q].at = "read"
  /\ IF slot[q].token # expected
     THEN Navigate(slot[q].token) /\ Reload(q)
     ELSE /\ Arms(slot[q].token) /\ Put(q, Idle)
          /\ UNCHANGED <<expected, pending, frame, loads>>
  /\ UNCHANGED <<cache, Disk>>

(* A fetch that fails is retried by the next poll.                        *)
Loses(q) ==
  /\ q \in {"poll", "bind"} /\ slot[q].at = "read"
  /\ Put(q, Idle)
  /\ UNCHANGED <<cache, Client, Disk>>

Polls ==
  /\ slot["poll"].at = "idle" /\ Put("poll", [Idle EXCEPT !.at = "asked"])
  /\ UNCHANGED <<cache, Client, Disk>>

(* get_lesson_bundle_file: a page whose token is not the one in ?v is     *)
(* refused with a notice, otherwise the body is what the token names. Then*)
(* the frame's load event, which starts a bind of its own.                *)
Loads ==
  /\ slot["load"].at = "read" /\ pending
  /\ frame' = IF slot["load"].data = Absent THEN Missing
              ELSE IF slot["load"].token # expected THEN Notice
              ELSE [kind |-> "page", bytes |-> Body("load")]
  /\ armed' = None /\ pending' = FALSE
  /\ slot' = [slot EXCEPT !["load"] = Idle, !["bind"] = [Idle EXCEPT !.at = "asked"]]
  /\ UNCHANGED <<expected, loads, cache, Disk>>

(* The document goes somewhere on its own; its load event puts the        *)
(* expected page back, in a navigation of the parent's.                   *)
Wanders ==
  /\ ~pending /\ frame # Foreign /\ frame' = Foreign
  /\ UNCHANGED <<slot, cache, expected, pending, armed, loads, Disk>>

Reasserts ==
  /\ ~pending /\ frame = Foreign /\ loads < MaxLoads
  /\ loads' = loads + 1 /\ armed' = None /\ pending' = TRUE
  /\ Reload("bind")
  /\ UNCHANGED <<expected, frame, cache, Disk>>

-----------------------------------------------------------------------------
(* The answer carries the bound revision; the server compares it with the *)
(* page at record time (_derive_stale). The port is closed and the answer *)
(* forgotten by the client when the frame moves on; the record stands.    *)
Posts ==
  /\ slot["post"].at = "idle" /\ armed # None
  /\ Put("post", [Idle EXCEPT !.at = "asked", !.token.digest = armed])
  /\ held' = {page.bytes}
  /\ UNCHANGED <<page, writes, cache, Client>>

Hashes ==
  /\ slot["post"].at = "open"
  /\ \E seen \in Yields("post") :
       LET digest == DigestOf("post", seen.bytes)
       IN /\ Put("post", [slot["post"] EXCEPT !.data = digest,
            !.at = IF digest = slot["post"].token.digest THEN "fresh" ELSE "stale"])
          /\ Remembers("post", digest)
  /\ UNCHANGED <<Client, Disk>>

Recorded ==
  /\ slot["post"].at \in {"fresh", "stale"}
  /\ Put("post", Idle) /\ held' = {}
  /\ UNCHANGED <<page, writes, cache, Client>>

(* The agent's shell, or a build that touches the page to be noticed.     *)
AgentWrites ==
  /\ writes < MaxWrites /\ writes' = writes + 1
  /\ page' \in {NoFile} \cup [bytes : Bytes, mtime : 0 .. 1, id : {writes + 1}]
  /\ held' = IF held = {} THEN held ELSE held \cup {page'.bytes}
  /\ UNCHANGED <<cache, slot, Client>>

Next ==
  \/ \E q \in Slots : Opens(q)
  \/ \E q \in Slots \ {"post"} : Reads(q)
  \/ \E q \in {"poll", "bind"} : Learns(q) \/ Loses(q)
  \/ Polls \/ Loads \/ Wanders \/ Reasserts
  \/ Posts \/ Hashes \/ Recorded
  \/ AgentWrites

Spec == Init /\ [][Next]_vars

-----------------------------------------------------------------------------
TypeOK ==
  /\ page.bytes \in Bytes \cup {Absent} /\ page.mtime \in 0 .. 1 /\ page.id \in -1 .. writes
  /\ expected \in Token /\ frame \in Frames /\ pending \in BOOLEAN
  /\ armed \in Bytes \cup {None} /\ loads \in 0 .. MaxLoads
  /\ held \subseteq Bytes \cup {Absent}
  /\ cache.digest \in Bytes \cup {None}
  /\ \A q \in Slots : slot[q].token \in Token

(* The revision answers are filed under is that of the bytes on display,  *)
(* however the page is rewritten between the metadata, the load and the   *)
(* bind (bundle_resource_info, armFromMeta).                              *)
BoundIsDisplayed == armed # None /\ frame.kind = "page" => frame.bytes = armed

(* An answer recorded as fresh answers a page that stood, with exactly    *)
(* those bytes, while the request was served (_derive_stale).             *)
FreshMeansCurrent == slot["post"].at = "fresh" => slot["post"].token.digest \in held
=============================================================================
