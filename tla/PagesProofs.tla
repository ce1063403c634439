------------------------------ MODULE PagesProofs ------------------------------
(***************************************************************************)
(* Proofs about what the pages show, for every value of the constants.     *)
(* MCPages lets a behaviour be of the board, of the preview or of the      *)
(* record panel; each theorem is about the behaviours of its scene.        *)
(***************************************************************************)
EXTENDS MCPages, Integers, Sequences, FiniteSetTheorems, SequenceTheorems,
        WellFoundedInduction, TLAPS

-----------------------------------------------------------------------------
(* The preview.  A token names the bytes that were read with it, whichever  *)
(* of descriptor and cache told the digest; a settled frame shows the page  *)
(* that expectedVersion names, and what is bound is that version.           *)

(* The variables of Preview, as the scenes hold them.                       *)
page     == v1
writes   == v2
cache    == v3
slot     == v4
expected == v5
pending  == v6
armed    == v7
frame    == v8
loads    == v9
held     == v10
USE DEF page, writes, cache, slot, expected, pending, armed, frame, loads, held

Digests == Bytes \cup {Frame!Absent}
Files   == {Frame!NoFile} \cup [bytes : Bytes, mtime : 0 .. 1, id : Nat]
Keys    == [bytes : {Frame!Absent}, mtime : 0 .. 1, id : Int]
Reading == {"poll", "bind", "load"}
Requests ==
    [at : {"idle", "asked", "open", "read", "fresh", "stale"}, opened : Files,
     data : Digests \cup {Frame!None}, token : Frame!Token]

PreviewTypes ==
    /\ page \in Files /\ page.id <= writes
    /\ writes \in Nat /\ loads \in 0 .. MaxLoads
    /\ cache \in [key : Keys, digest : Bytes \cup {Frame!None}]
    /\ slot \in [Frame!Slots -> Requests]
    /\ expected \in Frame!Token /\ pending \in BOOLEAN
    /\ armed \in Bytes \cup {Frame!None} /\ frame \in Frame!Frames
    /\ held \subseteq Digests

\* The digest in the cache is that of the page, as long as its key is.
CacheTrue ==
    cache.digest # Frame!None =>
        /\ 0 <= cache.key.id /\ cache.key.id <= writes
        /\ cache.key = Frame!DigestKey(page) => cache.digest = page.bytes

\* What was read under a token is what the token names.
TokensTrue ==
    \A q \in Reading : slot[q].at = "read" =>
        slot[q].data \in Digests /\ slot[q].token.digest = slot[q].data

FrameTrue ==
    /\ ~pending /\ frame.kind = "page" => frame.bytes = expected.digest
    /\ armed # Frame!None => ~pending /\ armed = expected.digest

\* Since the answer was sent, the page has held what it holds and what is open.
HeldTrue ==
    LET post == slot["post"]
    IN  /\ post.at \in {"asked", "open", "fresh", "stale"} => page.bytes \in held
        /\ post.at = "open" => post.opened.bytes \in held
        /\ post.at = "fresh" => post.token.digest \in held

PreviewInv == PreviewTypes /\ CacheTrue /\ TokensTrue /\ FrameTrue /\ HeldTrue

(* The file that is none.                                                   *)
LEMMA NoFiles ==
    ASSUME Frame!PreviewAssumption
    PROVE  /\ \A f \in Files : f.bytes \in Digests /\ f.mtime \in 0 .. 1 /\ f.id \in Int
           /\ \A f \in Files : f = Frame!NoFile <=> f.bytes \notin Bytes
           /\ \A f \in Files : f = Frame!NoFile <=> f.id = -1
           /\ \A f \in Files : Frame!DigestKey(f) \in Keys /\ Frame!DigestKey(f).id = f.id
           /\ Frame!NoFile \in Files /\ Frame!NoFile.bytes = Frame!Absent
           /\ Frame!None \notin Digests /\ Frame!Absent \notin Bytes
  BY DEF Frame!PreviewAssumption, Files, Keys, Digests, Frame!NoFile, Frame!DigestKey,
         Frame!Absent, Frame!None

(* A request that stands still.                                             *)
LEMMA IdleRequests ==
    ASSUME Frame!PreviewAssumption
    PROVE  /\ Frame!Idle \in Requests /\ Frame!Idle.at = "idle"
           /\ Frame!NoToken \in Frame!Token
  <1>1. Frame!NoToken \in Frame!Token
    BY DEF Frame!NoToken, Frame!Token
  <1> QED
    BY <1>1, NoFiles DEF Frame!Idle, Requests

(* What the descriptor yields is the file that was opened or the page as it *)
(* is, and the digest is that of what was read.                             *)
LEMMA Yielded ==
    ASSUME Frame!PreviewAssumption, PreviewTypes, CacheTrue, NEW q \in Frame!Slots,
           NEW seen \in Frame!Yields(q)
    PROVE  /\ seen \in Files /\ (seen = slot[q].opened \/ seen = page)
           /\ Frame!DigestOf(q, seen.bytes) = seen.bytes
           /\ slot[q].opened # Frame!NoFile => seen.bytes \in Bytes
  <1>1. slot[q].opened \in Files /\ page \in Files
    BY DEF PreviewTypes, Requests
  <1>2. /\ seen \in Files /\ (seen = slot[q].opened \/ seen = page)
        /\ slot[q].opened # Frame!NoFile => seen # Frame!NoFile
        /\ slot[q].opened = page => seen = page
    BY <1>1, NoFiles DEF Frame!Yields
  <1>3. Frame!DigestOf(q, seen.bytes) = seen.bytes
    BY <1>2, NoFiles DEF Frame!DigestOf, Frame!Stable, CacheTrue
  <1> QED
    BY <1>2, <1>3, NoFiles

(* Remembering a digest that was read keeps the cache true.                 *)
LEMMA Remembering ==
    ASSUME Frame!PreviewAssumption, PreviewTypes, CacheTrue, NEW q \in Frame!Slots,
           NEW seen \in Frame!Yields(q), Frame!Remembers(q, seen.bytes)
    PROVE  /\ cache' \in [key : Keys, digest : Bytes \cup {Frame!None}]
           /\ UNCHANGED <<page, writes>> => CacheTrue'
  <1>1. CASE slot[q].opened = page /\ page # Frame!NoFile
    <2>1. seen = page /\ page.bytes \in Bytes /\ page.id \in Nat
      BY <1>1, Yielded, NoFiles DEF PreviewTypes, Files
    <2>2. cache' = [key |-> Frame!DigestKey(page), digest |-> page.bytes]
      BY <1>1, <2>1 DEF Frame!Remembers, Frame!Stable
    <2> QED
      BY <2>1, <2>2, NoFiles DEF PreviewTypes, CacheTrue, Frame!DigestKey
  <1>2. CASE ~(slot[q].opened = page /\ page # Frame!NoFile)
    <2>1. cache' = cache
      BY <1>2 DEF Frame!Remembers, Frame!Stable
    <2> QED
      BY <2>1 DEF PreviewTypes, CacheTrue, Frame!DigestKey
  <1> QED
    BY <1>1, <1>2

LEMMA PreviewInitially ==
    ASSUME Frame!PreviewAssumption, Frame!Init
    PROVE  PreviewInv
  <1>1. page \in Files /\ page.bytes \in Bytes /\ page.id = 0
    BY DEF Frame!Init, Files
  <1>2. [Frame!Idle EXCEPT !.at = "asked"] \in Requests
    BY IdleRequests DEF Requests
  <1>3. Frame!NoEntry \in [key : Keys, digest : Bytes \cup {Frame!None}]
        /\ Frame!NoEntry.digest = Frame!None
    BY DEF Frame!NoEntry, Keys, Frame!NoFile, Frame!Absent
  <1>4. \A q \in Frame!Slots : slot[q] \in Requests /\ slot[q].at \in {"idle", "asked"}
    BY <1>2, IdleRequests DEF Frame!Init, Requests
  <1>5. slot["post"].at = "idle"
    BY IdleRequests DEF Frame!Init, Frame!Slots
  <1>6. PreviewTypes
    BY <1>1, <1>3, <1>4, IdleRequests
    DEF Frame!Init, PreviewTypes, Frame!PreviewAssumption, Frame!Token, Frame!Frames,
        Frame!Foreign, Digests
  <1> QED
    BY <1>3, <1>4, <1>5, <1>6
    DEF Frame!Init, PreviewInv, CacheTrue, TokensTrue, FrameTrue, HeldTrue, Frame!Foreign,
        Reading, Frame!Slots

(* One request moves on: what the tables of requests then hold.             *)
LEMMA OneRequest ==
    ASSUME PreviewTypes, NEW q \in Frame!Slots, NEW value \in Requests,
           Frame!Put(q, value)
    PROVE  /\ slot' \in [Frame!Slots -> Requests] /\ slot'[q] = value
           /\ \A p \in Frame!Slots \ {q} : slot'[p] = slot[p]
  BY DEF PreviewTypes, Frame!Put

(* A request of the page's: only its own slot changes, and the cache.       *)
LEMMA OpensStep ==
    ASSUME Frame!PreviewAssumption, PreviewInv, NEW q \in Frame!Slots, Frame!Opens(q)
    PROVE  PreviewInv'
  <1> DEFINE value == [slot[q] EXCEPT !.at = "open", !.opened = page]
  <1>1. value \in Requests /\ value.at = "open" /\ value.opened = page
    BY DEF PreviewInv, PreviewTypes, Requests
  <1>2. /\ slot' \in [Frame!Slots -> Requests] /\ slot'[q] = value
        /\ \A p \in Frame!Slots \ {q} : slot'[p] = slot[p]
    BY <1>1, OneRequest DEF Frame!Opens, PreviewInv
  <1>3. UNCHANGED <<page, writes, cache, expected, pending, armed, frame, loads, held>>
    BY DEF Frame!Opens, Frame!Client, Frame!Disk
  <1>4. PreviewTypes' /\ CacheTrue' /\ FrameTrue'
    BY <1>2, <1>3 DEF PreviewInv, PreviewTypes, CacheTrue, FrameTrue, Frame!DigestKey
  <1>5. TokensTrue'
    BY <1>1, <1>2 DEF PreviewInv, TokensTrue, Reading, Frame!Slots
  <1>6. HeldTrue'
    BY <1>1, <1>2, <1>3 DEF PreviewInv, HeldTrue, Frame!Opens, Frame!Slots
  <1> QED
    BY <1>4, <1>5, <1>6 DEF PreviewInv

LEMMA ReadsStep ==
    ASSUME Frame!PreviewAssumption, PreviewInv, NEW q \in Reading, Frame!Reads(q)
    PROVE  PreviewInv'
  <1>0. q \in Frame!Slots /\ q # "post"
    BY DEF Reading, Frame!Slots
  <1>1. PICK seen \in Frame!Yields(q) :
           LET digest == Frame!DigestOf(q, seen.bytes)
           IN  /\ Frame!Put(q, [at |-> "read", opened |-> Frame!NoFile, data |-> seen.bytes,
                                token |-> [digest |-> digest, mtime |-> seen.mtime]])
               /\ Frame!Remembers(q, digest)
    BY DEF Frame!Reads
  <1> DEFINE value == [at |-> "read", opened |-> Frame!NoFile, data |-> seen.bytes,
                       token |-> [digest |-> seen.bytes, mtime |-> seen.mtime]]
  <1>2. seen \in Files /\ Frame!DigestOf(q, seen.bytes) = seen.bytes
    BY <1>0, Yielded DEF PreviewInv
  <1>3. value \in Requests /\ seen.bytes \in Digests
    BY <1>2, NoFiles DEF Requests, Frame!Token, Digests
  <1>4. /\ slot' \in [Frame!Slots -> Requests] /\ slot'[q] = value
        /\ \A p \in Frame!Slots \ {q} : slot'[p] = slot[p]
    BY <1>0, <1>1, <1>2, <1>3, OneRequest DEF PreviewInv
  <1>5. UNCHANGED <<page, writes, expected, pending, armed, frame, loads, held>>
    BY DEF Frame!Reads, Frame!Client, Frame!Disk
  <1>6. cache' \in [key : Keys, digest : Bytes \cup {Frame!None}] /\ CacheTrue'
    BY <1>0, <1>1, <1>2, <1>5, Remembering DEF PreviewInv
  <1>7. PreviewTypes' /\ FrameTrue'
    BY <1>4, <1>5, <1>6 DEF PreviewInv, PreviewTypes, FrameTrue
  <1>8. TokensTrue'
    BY <1>3, <1>4 DEF PreviewInv, TokensTrue, Reading, Frame!Slots
  <1>9. HeldTrue'
    BY <1>0, <1>4, <1>5 DEF PreviewInv, HeldTrue, Frame!Slots
  <1> QED
    BY <1>6, <1>7, <1>8, <1>9 DEF PreviewInv

(* The parent's script: a token that moved reloads, the same one may bind.  *)
LEMMA LearnsStep ==
    ASSUME Frame!PreviewAssumption, PreviewInv, NEW q \in {"poll", "bind"}, Frame!Learns(q)
    PROVE  PreviewInv'
  <1>0. q \in Frame!Slots /\ q # "post" /\ q \in Reading
    BY DEF Reading, Frame!Slots
  <1>1. UNCHANGED <<page, writes, held, cache>>
    BY DEF Frame!Learns, Frame!Disk
  <1>2. slot[q].token \in Frame!Token /\ slot[q].token.digest \in Digests
    BY <1>0 DEF Frame!Learns, PreviewInv, TokensTrue, PreviewTypes, Requests
  <1>3. CASE slot[q].token # expected
    <2>1. /\ loads' \in 0 .. MaxLoads /\ armed' = Frame!None /\ pending'
          /\ pending' \in BOOLEAN /\ expected' \in Frame!Token /\ frame' = frame
      BY <1>2, <1>3
      DEF Frame!Learns, Frame!Navigate, PreviewInv, PreviewTypes, Frame!PreviewAssumption
    <2>2. [Frame!Idle EXCEPT !.at = "asked"] \in Requests
      BY IdleRequests DEF Requests
    <2>3. /\ slot' \in [Frame!Slots -> Requests] /\ slot'["post"] = slot["post"]
          /\ \A p \in Reading : slot'[p].at = "read" => slot'[p] = slot[p]
      BY <1>0, <1>3, <2>2, IdleRequests
      DEF Frame!Learns, Frame!Reload, PreviewInv, PreviewTypes, Frame!Slots, Reading, Requests
    <2>4. PreviewTypes'
      BY <1>1, <2>1, <2>3 DEF PreviewInv, PreviewTypes
    <2> QED
      BY <1>1, <2>1, <2>3, <2>4
      DEF PreviewInv, CacheTrue, TokensTrue, FrameTrue, HeldTrue, Frame!DigestKey
  <1>4. CASE slot[q].token = expected
    <2>1. /\ Frame!Arms(expected) /\ Frame!Put(q, Frame!Idle)
          /\ UNCHANGED <<expected, pending, frame, loads>>
      BY <1>4 DEF Frame!Learns
    <2>2. /\ slot' \in [Frame!Slots -> Requests] /\ slot'[q] = Frame!Idle
          /\ \A p \in Frame!Slots \ {q} : slot'[p] = slot[p]
      BY <1>0, <2>1, OneRequest, IdleRequests DEF PreviewInv
    <2>3. armed' = armed \/ (~pending /\ armed' = expected.digest /\ armed' \in Bytes)
      BY <1>2, <1>4, <2>1, NoFiles DEF Frame!Arms, Frame!Settled, Digests
    <2>4. PreviewTypes'
      BY <1>1, <2>1, <2>2, <2>3 DEF PreviewInv, PreviewTypes
    <2>5. FrameTrue'
      BY <2>1, <2>3 DEF PreviewInv, FrameTrue
    <2>6. TokensTrue'
      BY <2>2, IdleRequests DEF PreviewInv, TokensTrue, Reading, Frame!Slots
    <2> QED
      BY <1>0, <1>1, <2>2, <2>4, <2>5, <2>6
      DEF PreviewInv, CacheTrue, HeldTrue, Frame!DigestKey, Frame!Slots
  <1> QED
    BY <1>3, <1>4

(* A poll begins, or a fetch fails.                                         *)
LEMMA PollsStep ==
    ASSUME Frame!PreviewAssumption, PreviewInv,
           Frame!Polls \/ \E q \in {"poll", "bind"} : Frame!Loses(q)
    PROVE  PreviewInv'
  <1>1. PICK q \in {"poll", "bind"}, value \in Requests :
           value.at \in {"idle", "asked"} /\ Frame!Put(q, value)
    <2>1. [Frame!Idle EXCEPT !.at = "asked"] \in Requests
      BY IdleRequests DEF Requests
    <2> QED
      BY <2>1, IdleRequests DEF Frame!Polls, Frame!Loses, Requests
  <1>2. UNCHANGED <<page, writes, cache, expected, pending, armed, frame, loads, held>>
    BY DEF Frame!Polls, Frame!Loses, Frame!Client, Frame!Disk
  <1>3. /\ q \in Frame!Slots /\ q # "post"
        /\ slot' \in [Frame!Slots -> Requests] /\ slot'[q] = value
        /\ \A p \in Frame!Slots \ {q} : slot'[p] = slot[p]
    BY <1>1, OneRequest DEF PreviewInv, Frame!Slots
  <1>4. PreviewTypes' /\ CacheTrue' /\ FrameTrue'
    BY <1>2, <1>3 DEF PreviewInv, PreviewTypes, CacheTrue, FrameTrue, Frame!DigestKey
  <1>5. TokensTrue' /\ HeldTrue'
    BY <1>1, <1>2, <1>3 DEF PreviewInv, TokensTrue, HeldTrue, Reading, Frame!Slots
  <1> QED
    BY <1>4, <1>5 DEF PreviewInv

(* The frame's load event: what it shows is what it was sent to.            *)
LEMMA LoadsStep ==
    ASSUME Frame!PreviewAssumption, PreviewInv, Frame!Loads
    PROVE  PreviewInv'
  <1>1. UNCHANGED <<page, writes, cache, expected, loads, held>>
    BY DEF Frame!Loads, Frame!Disk
  <1>2. slot["load"].data \in Digests /\ slot["load"].token.digest = slot["load"].data
    BY DEF Frame!Loads, PreviewInv, TokensTrue, Reading
  <1>3. frame' \in Frame!Frames /\ (frame'.kind = "page" => frame'.bytes = expected.digest)
    <2>1. CASE frame' = Frame!Missing
      BY <2>1 DEF Frame!Missing, Frame!Frames
    <2>2. CASE frame' = Frame!Notice
      BY <2>2 DEF Frame!Notice, Frame!Frames
    <2>3. CASE frame' = [kind |-> "page", bytes |-> Frame!Body("load")]
               /\ slot["load"].token = expected
      BY <1>2, <2>3 DEF Frame!Body, Frame!Frames, Digests
    <2> QED
      BY <2>1, <2>2, <2>3 DEF Frame!Loads
  <1>4. [Frame!Idle EXCEPT !.at = "asked"] \in Requests
    BY IdleRequests DEF Requests
  <1>5. /\ slot' \in [Frame!Slots -> Requests] /\ slot'["post"] = slot["post"]
        /\ \A p \in Reading : slot'[p].at = "read" => slot'[p] = slot[p]
    BY <1>4, IdleRequests
    DEF Frame!Loads, PreviewInv, PreviewTypes, Frame!Slots, Reading, Requests
  <1>6. armed' = Frame!None /\ pending' = FALSE
    BY DEF Frame!Loads
  <1>7. PreviewTypes'
    BY <1>1, <1>3, <1>5, <1>6 DEF PreviewInv, PreviewTypes
  <1> QED
    BY <1>1, <1>3, <1>5, <1>6, <1>7
    DEF PreviewInv, CacheTrue, TokensTrue, FrameTrue, HeldTrue, Frame!DigestKey

(* The document wanders off, and is put back.                               *)
LEMMA WandersStep ==
    ASSUME Frame!PreviewAssumption, PreviewInv, Frame!Wanders \/ Frame!Reasserts
    PROVE  PreviewInv'
  <1>1. UNCHANGED <<page, writes, cache, expected, held>>
    BY DEF Frame!Wanders, Frame!Reasserts, Frame!Disk
  <1>2. [Frame!Idle EXCEPT !.at = "asked"] \in Requests
    BY IdleRequests DEF Requests
  <1>3. /\ slot' \in [Frame!Slots -> Requests] /\ slot'["post"] = slot["post"]
        /\ \A p \in Reading : slot'[p].at = "read" => slot'[p] = slot[p]
    BY <1>2, IdleRequests
    DEF Frame!Wanders, Frame!Reasserts, Frame!Reload, PreviewInv, PreviewTypes, Frame!Slots,
        Reading, Requests
  <1>4. frame' \in Frame!Frames /\ pending' \in BOOLEAN /\ loads' \in 0 .. MaxLoads
    <2>1. loads' \in 0 .. MaxLoads
      BY DEF Frame!Wanders, Frame!Reasserts, PreviewInv, PreviewTypes, Frame!PreviewAssumption
    <2>2. Frame!Foreign \in Frame!Frames
      BY DEF Frame!Foreign, Frame!Frames
    <2> QED
      BY <2>1, <2>2 DEF Frame!Wanders, Frame!Reasserts, PreviewInv, PreviewTypes
  <1>5. ((armed' = armed /\ pending' = pending) \/ armed' = Frame!None)
        /\ (pending' \/ frame'.kind = "foreign")
    BY DEF Frame!Wanders, Frame!Reasserts, Frame!Foreign
  <1>6. PreviewTypes'
    BY <1>1, <1>3, <1>4, <1>5 DEF PreviewInv, PreviewTypes
  <1>7. FrameTrue'
    BY <1>1, <1>5 DEF PreviewInv, FrameTrue
  <1> QED
    BY <1>1, <1>3, <1>6, <1>7
    DEF PreviewInv, CacheTrue, TokensTrue, HeldTrue, Frame!DigestKey

(* An answer, from the click to the record.                                 *)
LEMMA AnswersStep ==
    ASSUME Frame!PreviewAssumption, PreviewInv,
           Frame!Posts \/ Frame!Hashes \/ Frame!Recorded
    PROVE  PreviewInv'
  <1>0. "post" \in Frame!Slots /\ "post" \notin Reading /\ Reading \subseteq Frame!Slots
    BY DEF Frame!Slots, Reading
  <1>1. UNCHANGED <<page, writes, expected, pending, armed, frame, loads>>
    BY DEF Frame!Posts, Frame!Hashes, Frame!Recorded, Frame!Client, Frame!Disk
  <1>2. page.bytes \in Digests
    BY NoFiles DEF PreviewInv, PreviewTypes
  <1>3. CASE Frame!Posts
    <2> DEFINE value == [Frame!Idle EXCEPT !.at = "asked", !.token.digest = armed]
    <2>1. value \in Requests /\ value.at = "asked"
      BY IdleRequests DEF PreviewInv, PreviewTypes, Requests, Frame!Token
    <2>2. /\ slot' \in [Frame!Slots -> Requests] /\ slot'["post"] = value
          /\ \A p \in Reading : slot'[p] = slot[p]
      BY <1>0, <1>3, <2>1, OneRequest DEF Frame!Posts, PreviewInv
    <2>3. held' = {page.bytes} /\ UNCHANGED cache
      BY <1>3 DEF Frame!Posts
    <2>4. PreviewTypes'
      BY <1>1, <1>2, <2>2, <2>3 DEF PreviewInv, PreviewTypes
    <2> QED
      BY <1>1, <2>1, <2>2, <2>3, <2>4
      DEF PreviewInv, CacheTrue, TokensTrue, FrameTrue, HeldTrue, Frame!DigestKey
  <1>4. CASE Frame!Recorded
    <2>1. /\ slot' \in [Frame!Slots -> Requests] /\ slot'["post"] = Frame!Idle
          /\ \A p \in Reading : slot'[p] = slot[p]
      BY <1>0, <1>4, IdleRequests, OneRequest DEF Frame!Recorded, PreviewInv
    <2>2. held' = {} /\ UNCHANGED cache
      BY <1>4 DEF Frame!Recorded
    <2>3. PreviewTypes'
      BY <1>1, <2>1, <2>2 DEF PreviewInv, PreviewTypes
    <2> QED
      BY <1>1, <2>1, <2>2, <2>3, IdleRequests
      DEF PreviewInv, CacheTrue, TokensTrue, FrameTrue, HeldTrue, Frame!DigestKey
  <1>5. CASE Frame!Hashes
    <2>1. slot["post"].at = "open" /\ UNCHANGED held
      BY <1>5 DEF Frame!Hashes, Frame!Disk
    <2>2. PICK seen \in Frame!Yields("post") :
             LET digest == Frame!DigestOf("post", seen.bytes)
             IN  /\ Frame!Put("post", [slot["post"] EXCEPT !.data = digest,
                       !.at = IF digest = slot["post"].token.digest THEN "fresh" ELSE "stale"])
                 /\ Frame!Remembers("post", digest)
      BY <1>5 DEF Frame!Hashes
    <2> DEFINE value == [slot["post"] EXCEPT !.data = seen.bytes,
                   !.at = IF seen.bytes = slot["post"].token.digest THEN "fresh" ELSE "stale"]
    <2>3. /\ seen \in Files /\ (seen = slot["post"].opened \/ seen = page)
          /\ Frame!DigestOf("post", seen.bytes) = seen.bytes
      BY <1>0, Yielded DEF PreviewInv
    <2>4. seen.bytes \in held /\ seen.bytes \in Digests
      BY <2>1, <2>3, NoFiles DEF PreviewInv, HeldTrue
    <2>5. /\ value \in Requests /\ value.at \in {"fresh", "stale"}
          /\ value.token = slot["post"].token
          /\ value.at = "fresh" => value.token.digest = seen.bytes
      BY <1>0, <2>4 DEF PreviewInv, PreviewTypes, Requests
    <2>6. /\ slot' \in [Frame!Slots -> Requests] /\ slot'["post"] = value
          /\ \A p \in Reading : slot'[p] = slot[p]
      BY <1>0, <2>2, <2>3, <2>5, OneRequest DEF PreviewInv
    <2>7. cache' \in [key : Keys, digest : Bytes \cup {Frame!None}] /\ CacheTrue'
      BY <1>0, <1>1, <2>2, <2>3, Remembering DEF PreviewInv
    <2>8. PreviewTypes'
      BY <1>1, <2>1, <2>6, <2>7 DEF PreviewInv, PreviewTypes
    <2> HIDE DEF value
    <2>9. HeldTrue'
      BY <1>1, <2>1, <2>4, <2>5, <2>6 DEF PreviewInv, HeldTrue
    <2> QED
      BY <1>1, <2>6, <2>7, <2>8, <2>9 DEF PreviewInv, TokensTrue, FrameTrue
  <1> QED
    BY <1>3, <1>4, <1>5

(* The agent writes: no identity comes back, and an answer under way is on  *)
(* record with what it may still meet.                                      *)
LEMMA WritesStep ==
    ASSUME Frame!PreviewAssumption, PreviewInv, Frame!AgentWrites
    PROVE  PreviewInv'
  <1>1. UNCHANGED <<cache, slot, expected, pending, armed, frame, loads>>
    BY DEF Frame!AgentWrites, Frame!Client
  <1>2. /\ writes' \in Nat /\ writes' = writes + 1
        /\ page' \in Files /\ page'.id \in {-1, writes'}
    BY DEF Frame!AgentWrites, PreviewInv, PreviewTypes, Files, Frame!NoFile
  <1>3. /\ held \subseteq held' /\ held' \subseteq Digests
        /\ held # {} => page'.bytes \in held'
    BY <1>2, NoFiles DEF Frame!AgentWrites, PreviewInv, PreviewTypes
  <1>4. CacheTrue'
    BY <1>1, <1>2, NoFiles DEF PreviewInv, PreviewTypes, CacheTrue, Keys
  <1>5. PreviewTypes'
    BY <1>1, <1>2, <1>3 DEF PreviewInv, PreviewTypes
  <1>6. HeldTrue'
    BY <1>1, <1>3 DEF PreviewInv, HeldTrue
  <1> QED
    BY <1>1, <1>4, <1>5, <1>6 DEF PreviewInv, TokensTrue, FrameTrue

LEMMA PreviewStep ==
    ASSUME Frame!PreviewAssumption, PreviewInv, [Frame!Next]_(Frame!vars)
    PROVE  PreviewInv'
  <1>1. Frame!Slots \ {"post"} = Reading
    BY DEF Frame!Slots, Reading
  <1>2. CASE UNCHANGED Frame!vars
    BY <1>2
    DEF Frame!vars, PreviewInv, PreviewTypes, CacheTrue, TokensTrue, FrameTrue, HeldTrue,
        Frame!DigestKey
  <1>3. CASE Frame!Next
    BY <1>1, <1>3, OpensStep, ReadsStep, LearnsStep, PollsStep, LoadsStep, WandersStep,
       AnswersStep, WritesStep DEF Frame!Next
  <1> QED
    BY <1>2, <1>3

(* Answers are filed under the revision on display, and those called fresh  *)
(* answer what the page held while they were served, however often the      *)
(* agent writes and whichever fetch is late (lessons.py, learn-bridge.ts).  *)
THEOREM PreviewHonest == Spec => []AnswersMatchThePage
  <1> DEFINE Inv == scene = "preview" => PreviewInv
  <1>1. Init => Inv
    BY PreviewInitially, PagesAssumption DEF Init
  <1>2. Inv /\ [Next]_all => Inv'
    <2>1. SUFFICES ASSUME Inv, [Next]_all, scene' = "preview" PROVE PreviewInv'
      OBVIOUS
    <2>2. scene = "preview" /\ [Frame!Next]_(Frame!vars)
      BY <2>1 DEF Next, all, state, Frame!vars
    <2> QED
      BY <2>1, <2>2, PreviewStep, PagesAssumption
  <1>3. Inv => AnswersMatchThePage
    <2>1. SUFFICES ASSUME PreviewInv
                   PROVE  Frame!TypeOK /\ Frame!BoundIsDisplayed /\ Frame!FreshMeansCurrent
      BY DEF AnswersMatchThePage
    <2>2. page.bytes \in Digests /\ page.mtime \in 0 .. 1 /\ page.id \in -1 .. writes
      BY <2>1, NoFiles, PagesAssumption DEF PreviewInv, PreviewTypes, Files
    <2>3. Frame!TypeOK
      BY <2>1, <2>2 DEF PreviewInv, PreviewTypes, Frame!TypeOK, Digests, Requests
    <2> QED
      BY <2>1, <2>3
      DEF PreviewInv, FrameTrue, HeldTrue, Frame!BoundIsDisplayed, Frame!FreshMeansCurrent
  <1> QED
    BY <1>1, <1>2, <1>3, PTL DEF Spec

-----------------------------------------------------------------------------
(* The record panel.  Rows are only appended, so the panel of n answers and *)
(* m assessments is the same whenever it is put together; a reader draws    *)
(* that of its snapshot, and hands out the snapshot's cursor with it.       *)

attempts == v1
rows     == v2
at       == v3
snap     == v4
half     == v5
drawn    == v6
answers  == v7
USE DEF attempts, rows, at, snap, half, drawn, answers

Rows == [kind : {"review", "retraction"}, attempt : Nat, supersedes : Nat]

PanelTypes ==
    /\ attempts \in Seq(Questions) /\ Len(attempts) <= MaxAttempts
    /\ rows \in Seq(Rows) /\ Len(rows) <= MaxRows
    /\ \A i \in 1 .. Len(rows) : /\ rows[i].attempt \in 1 .. Len(attempts)
                                 /\ rows[i].supersedes \in 0 .. i - 1
    /\ at \in [Readers -> {"new", "fold", "folded", "done"}]
    /\ snap \in [Readers -> Nat \X Nat] /\ half \in [Readers -> Nat]
    /\ DOMAIN drawn = Readers

Reader(r) ==
    /\ snap[r][1] <= Len(attempts) /\ snap[r][2] <= Len(rows)
    /\ half[r] = snap[r][1]
    /\ at[r] = "folded" => drawn[r] = Panel!Panel(half[r], snap[r][2])

\* An answer is the panel of the versions that its cursor names.
Answered(x) ==
    \E n \in 0 .. Len(attempts), m \in 0 .. Len(rows) :
        x = [panel |-> Panel!Panel(n, m), cursor |-> <<m, n>>]

PanelInv ==
    /\ PanelTypes
    /\ \A r \in Readers : Reader(r)
    /\ \A x \in answers : Answered(x)

(* A set of numbers below a bound has a largest one.                        *)
LEMMA Largest ==
    ASSUME NEW n \in Nat, NEW S \in SUBSET (0 .. n), S # {}
    PROVE  \E i \in S : \A k \in S : i >= k
  <1> DEFINE Above(i) == {k \in S : k > i}
             All      == {Above(i) : i \in S}
  <1>0. \A i \in S : i \in Int
    OBVIOUS
  <1>1. IsFiniteSet(S)
    <2>1. IsFiniteSet(0 .. n)
      BY FS_Interval
    <2> QED
      BY <2>1, FS_Subset
  <1>2. All \subseteq SUBSET S /\ All # {}
    OBVIOUS
  <1>3. \E X \in All : \A Y \in All : ~(Y \subseteq X /\ Y # X)
    <2> HIDE DEF All
    <2>1. IsWellFoundedOn(StrictSubsetOrdering(S), FiniteSubsetsOf(S))
      BY <1>1, FS_StrictSubsetOrderingWellFounded
    <2>2. All \subseteq FiniteSubsetsOf(S)
      BY <1>1, <1>2, FS_Subset DEF FiniteSubsetsOf
    <2>3. \E X \in All : \A Y \in All : <<Y, X>> \notin StrictSubsetOrdering(S)
      BY <2>1, <2>2, <1>2, WFMin
    <2> QED
      BY <2>3, <1>2 DEF StrictSubsetOrdering
  <1>4. PICK i \in S : \A k \in S : ~(Above(k) \subseteq Above(i) /\ Above(k) # Above(i))
    <2>1. PICK X \in All : \A Y \in All : ~(Y \subseteq X /\ Y # X)
      BY <1>3
    <2>2. PICK i \in S : X = Above(i)
      OBVIOUS
    <2>3. \A k \in S : Above(k) \in All
      OBVIOUS
    <2> HIDE DEF Above, All
    <2> QED
      BY <2>1, <2>2, <2>3
  <1>5. ASSUME NEW k \in S, k > i PROVE FALSE
    <2>0. k \in Int /\ i \in Int /\ \A j \in S : j \in Int /\ (j > k => j > i)
      BY <1>0, <1>5
    <2>1. k \in Above(i)
      BY <1>5
    <2>2. k \notin Above(k)
      BY <2>0
    <2>3. Above(k) \subseteq Above(i)
      BY <2>0
    <2> HIDE DEF Above
    <2> QED
      BY <1>4, <2>1, <2>2, <2>3
  <1> QED
    BY <1>0, <1>5

LEMMA PanelMax ==
    ASSUME NEW n \in Nat, NEW S \in SUBSET (0 .. n), S # {}
    PROVE  Panel!Max(S) \in S /\ \A k \in S : Panel!Max(S) >= k
  BY Largest DEF Panel!Max

(* A verdict on display is one of the rows that were read.                  *)
LEMMA ReviewRead ==
    ASSUME NEW m \in Nat, NEW a
    PROVE  Panel!ReviewOf(m, a) \in 0 .. m
  <1> DEFINE S == {Panel!Nothing} \cup
                    {i \in Panel!Active(m) : rows[i].kind = "review" /\ rows[i].attempt = a}
  <1>1. S \in SUBSET (0 .. m) /\ S # {}
    BY DEF Panel!Nothing, Panel!Active
  <1>2. Panel!ReviewOf(m, a) = Panel!Max(S)
    BY DEF Panel!ReviewOf
  <1> QED
    BY <1>1, <1>2, PanelMax

LEMMA PanelReviews ==
    ASSUME NEW n \in Nat, NEW m \in Nat, NEW q \in Questions
    PROVE  Panel!Panel(n, m)[q].review \in 0 .. m
  BY ReviewRead DEF Panel!Panel, Panel!Nothing

(* What is appended leaves the rest in its place.                           *)
LEMMA Appended ==
    ASSUME NEW T, NEW s \in Seq(T), NEW e \in T
    PROVE  /\ Append(s, e) \in Seq(T) /\ Len(Append(s, e)) = Len(s) + 1
           /\ \A i \in 1 .. Len(s) : Append(s, e)[i] = s[i]
           /\ Append(s, e)[Len(s) + 1] = e
  OBVIOUS

(* What is appended changes no panel of what was there.                     *)
Grown == /\ attempts' = attempts \/ \E q \in Questions : attempts' = Append(attempts, q)
         /\ rows' = rows \/ \E x \in Rows : rows' = Append(rows, x)

LEMMA PanelStands ==
    ASSUME PanelTypes, Grown,
           NEW n \in 0 .. Len(attempts), NEW m \in 0 .. Len(rows)
    PROVE  /\ Panel!Panel(n, m)' = Panel!Panel(n, m)
           /\ n \in 0 .. Len(attempts') /\ m \in 0 .. Len(rows')
  <1>1. /\ \A i \in 1 .. n : attempts'[i] = attempts[i]
        /\ n \in 0 .. Len(attempts')
    BY Appended DEF PanelTypes, Grown
  <1>2. /\ \A i \in 1 .. m : rows'[i] = rows[i]
        /\ m \in 0 .. Len(rows')
    <2>1. rows \in Seq(Rows)
      BY DEF PanelTypes
    <2>2. CASE rows' = rows
      BY <2>1, <2>2
    <2>3. CASE \E x \in Rows : rows' = Append(rows, x)
      BY <2>1, <2>3, Appended
    <2> QED
      BY <2>2, <2>3 DEF Grown
  <1>3. \A q : Panel!Latest(n, q)' = Panel!Latest(n, q)
    <2>1. \A q : {i \in 1 .. n : attempts'[i] = q} = {i \in 1 .. n : attempts[i] = q}
      BY <1>1
    <2> QED
      BY <2>1 DEF Panel!Latest
  <1>4. \A a : Panel!ReviewOf(m, a)' = Panel!ReviewOf(m, a)
    <2>1. Panel!Active(m)' = Panel!Active(m) /\ Panel!Active(m) \subseteq 1 .. m
      BY <1>2 DEF Panel!Active
    <2>2. \A a : {i \in Panel!Active(m)' : rows'[i].kind = "review" /\ rows'[i].attempt = a} =
                 {i \in Panel!Active(m) : rows[i].kind = "review" /\ rows[i].attempt = a}
      BY <1>2, <2>1
    <2> QED
      BY <2>2 DEF Panel!ReviewOf
  <1>5. \A a : Panel!Earlier(m, a)' = Panel!Earlier(m, a)
    <2>1. SUFFICES ASSUME NEW a PROVE Panel!Earlier(m, a)' = Panel!Earlier(m, a)
      OBVIOUS
    <2>2. Panel!ReviewOf(m, a) \in 0 .. m
      BY ReviewRead
    <2> DEFINE top == Panel!ReviewOf(m, a)
    <2>3. \A i \in 1 .. top - 1 : rows'[i] = rows[i]
      BY <1>2, <2>2
    <2>4. \A i : (\E j \in 1 .. m : rows'[j].kind = "retraction" /\ rows'[j].supersedes = i)
             <=> (\E j \in 1 .. m : rows[j].kind = "retraction" /\ rows[j].supersedes = i)
      BY <1>2
    <2>5. {i \in 1 .. top - 1 :
             /\ rows'[i].kind = "review" /\ rows'[i].attempt = a
             /\ ~\E j \in 1 .. m : rows'[j].kind = "retraction" /\ rows'[j].supersedes = i}
          = {i \in 1 .. top - 1 :
             /\ rows[i].kind = "review" /\ rows[i].attempt = a
             /\ ~\E j \in 1 .. m : rows[j].kind = "retraction" /\ rows[j].supersedes = i}
      BY <2>3, <2>4
    <2> QED
      BY <1>4, <2>5 DEF Panel!Earlier
  <1> QED
    BY <1>1, <1>2, <1>3, <1>4, <1>5 DEF Panel!Panel

LEMMA PanelInitially ==
    ASSUME Panel!PanelAssumption, Panel!Init
    PROVE  PanelInv
  BY DEF Panel!PanelAssumption, Panel!Init, PanelInv, PanelTypes, Reader

(* An answer or an assessment is recorded: nothing else changes.            *)
LEMMA RecordGrows ==
    ASSUME Panel!PanelAssumption, PanelInv, Grown,
           UNCHANGED <<at, snap, half, drawn, answers>>,
           Len(attempts') <= MaxAttempts, Len(rows') <= MaxRows,
           \A i \in 1 .. Len(rows') : /\ rows'[i].attempt \in 1 .. Len(attempts')
                                      /\ rows'[i].supersedes \in 0 .. i - 1
    PROVE  PanelInv'
  <1>1. attempts' \in Seq(Questions) /\ rows' \in Seq(Rows)
    <2>1. attempts \in Seq(Questions) /\ rows \in Seq(Rows)
      BY DEF PanelInv, PanelTypes
    <2>2. attempts' \in Seq(Questions)
      BY <2>1, Appended DEF Grown
    <2>3. rows' \in Seq(Rows)
      BY <2>1, Appended DEF Grown
    <2> QED
      BY <2>2, <2>3
  <1>2. PanelTypes'
    BY <1>1 DEF PanelInv, PanelTypes
  <1>3. ASSUME NEW r \in Readers PROVE Reader(r)'
    <2>1. PICK n \in 0 .. Len(attempts), m \in 0 .. Len(rows) : snap[r][1] = n /\ snap[r][2] = m
      BY DEF PanelInv, PanelTypes, Reader
    <2>2. /\ Panel!Panel(n, m)' = Panel!Panel(n, m)
          /\ n \in 0 .. Len(attempts') /\ m \in 0 .. Len(rows')
      BY PanelStands DEF PanelInv
    <2>3. half[r] = n /\ (at[r] = "folded" => drawn[r] = Panel!Panel(n, m))
      BY <2>1 DEF PanelInv, Reader
    <2> QED
      BY <2>1, <2>2, <2>3 DEF Reader
  <1>4. ASSUME NEW x \in answers PROVE Answered(x)'
    <2>1. PICK n \in 0 .. Len(attempts), m \in 0 .. Len(rows) :
             x = [panel |-> Panel!Panel(n, m), cursor |-> <<m, n>>]
      BY DEF PanelInv, Answered
    <2>2. /\ Panel!Panel(n, m)' = Panel!Panel(n, m)
          /\ n \in 0 .. Len(attempts') /\ m \in 0 .. Len(rows')
      BY PanelStands DEF PanelInv
    <2> QED
      BY <2>1, <2>2 DEF Answered
  <1> QED
    BY <1>2, <1>3, <1>4 DEF PanelInv

LEMMA RecordStep ==
    ASSUME Panel!PanelAssumption, PanelInv,
           \/ \E q \in Questions : Panel!Answer(q)
           \/ \E a \in 1 .. Len(attempts) : Panel!Review(a)
           \/ Panel!Retract
    PROVE  PanelInv'
  <1>1. CASE \E q \in Questions : Panel!Answer(q)
    <2>1. PICK q \in Questions : Panel!Answer(q)
      BY <1>1
    <2>2. /\ attempts' = Append(attempts, q) /\ Len(attempts) < MaxAttempts
          /\ UNCHANGED <<rows, at, snap, half, drawn, answers>>
      BY <2>1 DEF Panel!Answer
    <2>3. Len(attempts') = Len(attempts) + 1
      BY <2>2, Appended DEF PanelInv, PanelTypes
    <2>4. Grown
      BY <2>2 DEF Grown
    <2> QED
      BY <2>2, <2>3, <2>4, RecordGrows DEF PanelInv, PanelTypes, Panel!PanelAssumption
  <1>2. CASE (\E a \in 1 .. Len(attempts) : Panel!Review(a)) \/ Panel!Retract
    <2>1. PICK x \in Rows : /\ Panel!Record(x) /\ x.attempt \in 1 .. Len(attempts)
                           /\ x.supersedes \in 0 .. Len(rows)
      <3>1. Panel!Verdicts \subseteq 1 .. Len(rows)
        BY DEF Panel!Verdicts, Panel!Active
      <3>2. ASSUME NEW a \in 1 .. Len(attempts), Panel!Review(a)
            PROVE  \E x \in Rows : /\ Panel!Record(x) /\ x.attempt \in 1 .. Len(attempts)
                                  /\ x.supersedes \in 0 .. Len(rows)
        <4>1. PICK s \in {Panel!Nothing} \cup {i \in Panel!Verdicts : rows[i].attempt = a} :
                 Panel!Record([kind |-> "review", attempt |-> a, supersedes |-> s])
          BY <3>2 DEF Panel!Review
        <4>2. s \in 0 .. Len(rows)
          BY <3>1 DEF Panel!Nothing, PanelInv, PanelTypes
        <4> QED
          BY <4>1, <4>2 DEF Rows
      <3>3. ASSUME Panel!Retract
            PROVE  \E x \in Rows : /\ Panel!Record(x) /\ x.attempt \in 1 .. Len(attempts)
                                  /\ x.supersedes \in 0 .. Len(rows)
        <4>1. PICK s \in Panel!Verdicts : Panel!Record(
                 [kind |-> "retraction", attempt |-> rows[s].attempt, supersedes |-> s])
          BY <3>3 DEF Panel!Retract
        <4>2. s \in 1 .. Len(rows) /\ rows[s].attempt \in 1 .. Len(attempts)
          BY <3>1 DEF PanelInv, PanelTypes
        <4>3. s \in Nat /\ rows[s].attempt \in Nat /\ s \in 0 .. Len(rows)
          BY <4>2 DEF PanelInv, PanelTypes
        <4> QED
          BY <4>1, <4>2, <4>3 DEF Rows
      <3> QED
        BY <1>2, <3>2, <3>3
    <2>2. /\ rows' = Append(rows, x) /\ Len(rows) < MaxRows
          /\ UNCHANGED <<attempts, at, snap, half, drawn, answers>>
      BY <2>1 DEF Panel!Record
    <2>3. /\ Len(rows') = Len(rows) + 1 /\ rows'[Len(rows) + 1] = x
          /\ \A i \in 1 .. Len(rows) : rows'[i] = rows[i]
      BY <2>2, Appended DEF PanelInv, PanelTypes
    <2>4. Grown
      BY <2>2 DEF Grown
    <2>5. Len(rows) \in Nat
      BY DEF PanelInv, PanelTypes
    <2>6. \A i \in 1 .. Len(rows') : /\ rows'[i].attempt \in 1 .. Len(attempts')
                                     /\ rows'[i].supersedes \in 0 .. i - 1
      <3>1. SUFFICES ASSUME NEW i \in 1 .. Len(rows')
                     PROVE  /\ rows'[i].attempt \in 1 .. Len(attempts)
                            /\ rows'[i].supersedes \in 0 .. i - 1
        BY <2>2
      <3>2. CASE i = Len(rows) + 1
        BY <2>1, <2>3, <2>5, <3>2
      <3>3. CASE i # Len(rows) + 1
        <4>1. i \in 1 .. Len(rows) /\ rows'[i] = rows[i]
          BY <2>3, <2>5, <3>3
        <4> QED
          BY <4>1 DEF PanelInv, PanelTypes
      <3> QED
        BY <3>2, <3>3
    <2> QED
      BY <2>2, <2>3, <2>4, <2>5, <2>6, RecordGrows DEF PanelInv, PanelTypes, Panel!PanelAssumption
  <1> QED
    BY <1>1, <1>2

(* A reader takes its snapshot, draws it and answers.                       *)
LEMMA ReaderStep ==
    ASSUME Panel!PanelAssumption, PanelInv, NEW r \in Readers,
           Panel!ReadAttempts(r) \/ Panel!Fold(r) \/ Panel!Watermark(r)
    PROVE  PanelInv'
  <1>1. UNCHANGED <<attempts, rows>>
    BY DEF Panel!ReadAttempts, Panel!Fold, Panel!Watermark
  <1>2. Len(attempts) \in Nat /\ Len(rows) \in Nat
    BY DEF PanelInv, PanelTypes
  <1>3. \A n, m : Panel!Panel(n, m)' = Panel!Panel(n, m)
    BY <1>1 DEF Panel!Panel, Panel!Latest, Panel!ReviewOf, Panel!Earlier, Panel!Active
  <1>4. PanelTypes'
    <2>1. at' \in [Readers -> {"new", "fold", "folded", "done"}]
      BY DEF PanelInv, PanelTypes, Panel!ReadAttempts, Panel!Fold, Panel!Watermark
    <2>2. snap' \in [Readers -> Nat \X Nat] /\ half' \in [Readers -> Nat]
      <3>1. <<Len(attempts), Len(rows)>> \in Nat \X Nat
        BY <1>2
      <3>2. snap \in [Readers -> Nat \X Nat] /\ half \in [Readers -> Nat]
        BY DEF PanelInv, PanelTypes
      <3>3. CASE Panel!ReadAttempts(r)
        BY <1>2, <3>1, <3>2, <3>3 DEF Panel!ReadAttempts
      <3>4. CASE Panel!Fold(r) \/ Panel!Watermark(r)
        BY <3>2, <3>4 DEF Panel!Fold, Panel!Watermark
      <3> QED
        BY <3>3, <3>4
    <2>3. DOMAIN drawn' = Readers
      BY DEF PanelInv, PanelTypes, Panel!ReadAttempts, Panel!Fold, Panel!Watermark
    <2> QED
      BY <1>1, <2>1, <2>2, <2>3 DEF PanelInv, PanelTypes
  <1>5. ASSUME NEW p \in Readers PROVE Reader(p)'
    <2>1. PICK n, m : n = half'[p] /\ m = snap'[p][2]
      OBVIOUS
    <2>2. CASE Panel!ReadAttempts(r)
      BY <1>1, <1>2, <1>3, <2>1, <2>2 DEF PanelInv, PanelTypes, Reader, Panel!ReadAttempts
    <2>3. CASE Panel!Fold(r)
      <3>1. /\ UNCHANGED <<snap, half>> /\ (p # r => at'[p] = at[p] /\ drawn'[p] = drawn[p])
            /\ drawn'[r] = Panel!Panel(half[r], snap[r][2])
        BY <2>3 DEF PanelInv, PanelTypes, Panel!Fold, Panel!Sees
      <3> QED
        BY <1>1, <1>3, <2>1, <3>1 DEF PanelInv, Reader
    <2>4. CASE Panel!Watermark(r)
      <3>1. /\ UNCHANGED <<snap, half, drawn>>
            /\ at'[p] = "folded" => at[p] = "folded"
        BY <2>4 DEF PanelInv, PanelTypes, Panel!Watermark
      <3> QED
        BY <1>1, <1>3, <2>1, <3>1 DEF PanelInv, Reader
    <2> QED
      BY <2>2, <2>3, <2>4
  <1>6. ASSUME NEW x \in answers' PROVE Answered(x)'
    <2>1. CASE x \in answers
      BY <1>1, <1>3, <2>1 DEF PanelInv, Answered
    <2>2. CASE x \notin answers
      <3>1. /\ at[r] = "folded"
            /\ x = [panel |-> drawn[r], cursor |-> Panel!Cursor(half[r], Panel!Sees(r)[2])]
        BY <2>2 DEF Panel!ReadAttempts, Panel!Fold, Panel!Watermark
      <3>2. PICK n \in 0 .. Len(attempts), m \in 0 .. Len(rows) : half[r] = n /\ snap[r][2] = m
        BY DEF PanelInv, PanelTypes, Reader
      <3>3. x = [panel |-> Panel!Panel(n, m), cursor |-> <<m, n>>]
        BY <3>1, <3>2 DEF PanelInv, Reader, Panel!Cursor, Panel!Sees
      <3> QED
        BY <1>1, <1>3, <3>3 DEF Answered
    <2> QED
      BY <2>1, <2>2
  <1> QED
    BY <1>4, <1>5, <1>6 DEF PanelInv

LEMMA PanelStep ==
    ASSUME Panel!PanelAssumption, PanelInv, [Panel!Next]_(Panel!vars)
    PROVE  PanelInv'
  <1>1. CASE UNCHANGED Panel!vars
    <2>1. UNCHANGED <<attempts, rows, at, snap, half, drawn, answers>>
      BY <1>1 DEF Panel!vars
    <2>2. \A n, m : Panel!Panel(n, m)' = Panel!Panel(n, m)
      BY <2>1 DEF Panel!Panel, Panel!Latest, Panel!ReviewOf, Panel!Earlier, Panel!Active
    <2>3. ASSUME NEW r \in Readers PROVE Reader(r)'
      <3>1. PICK n, m : n = half[r] /\ m = snap[r][2]
        OBVIOUS
      <3> QED
        BY <2>1, <2>2, <3>1 DEF PanelInv, Reader
    <2>4. PanelTypes'
      BY <2>1 DEF PanelInv, PanelTypes
    <2>5. \A x \in answers' : Answered(x)'
      BY <2>1, <2>2 DEF PanelInv, Answered
    <2> QED
      BY <2>3, <2>4, <2>5 DEF PanelInv
  <1>2. CASE Panel!Next
    BY <1>2, RecordStep, ReaderStep DEF Panel!Next
  <1> QED
    BY <1>1, <1>2

(* Answers with one cursor show one panel, and the verdicts that a cursor   *)
(* calls unread are those its panel does not show.                          *)
LEMMA CursorTells ==
    ASSUME PanelInv
    PROVE  Panel!SameCursorSamePanel /\ Panel!UnreadIsUnseen
  <1>1. \A x \in answers :
           /\ x.cursor[1] \in Nat
           /\ \A q \in Questions : x.panel[q].review \in 0 .. x.cursor[1]
    <2>1. SUFFICES ASSUME NEW x \in answers
                   PROVE  /\ x.cursor[1] \in Nat
                          /\ \A q \in Questions : x.panel[q].review \in 0 .. x.cursor[1]
      OBVIOUS
    <2>2. PICK n \in 0 .. Len(attempts), m \in 0 .. Len(rows) :
             x = [panel |-> Panel!Panel(n, m), cursor |-> <<m, n>>]
      BY DEF PanelInv, Answered
    <2>3. n \in Nat /\ m \in Nat
      BY DEF PanelInv, PanelTypes
    <2>4. x.panel = Panel!Panel(n, m) /\ x.cursor[1] = m
      BY <2>2
    <2> QED
      BY <2>3, <2>4, PanelReviews
  <1>2. Panel!SameCursorSamePanel
    <2>1. SUFFICES ASSUME NEW x \in answers, NEW y \in answers, x.cursor = y.cursor
                   PROVE  x.panel = y.panel
      BY DEF Panel!SameCursorSamePanel
    <2>2. PICK n \in 0 .. Len(attempts), m \in 0 .. Len(rows) :
             x = [panel |-> Panel!Panel(n, m), cursor |-> <<m, n>>]
      BY DEF PanelInv, Answered
    <2>3. PICK k \in 0 .. Len(attempts), l \in 0 .. Len(rows) :
             y = [panel |-> Panel!Panel(k, l), cursor |-> <<l, k>>]
      BY DEF PanelInv, Answered
    <2>4. n = k /\ m = l
      BY <2>1, <2>2, <2>3
    <2> QED
      BY <2>2, <2>3, <2>4
  <1>3. Panel!UnreadIsUnseen
    BY <1>1 DEF Panel!UnreadIsUnseen, Panel!Nothing
  <1> QED
    BY <1>2, <1>3

(* One cursor, one panel, and what counts as unread was not on the panel    *)
(* that was acknowledged, whatever is recorded between the readings         *)
(* (routers/learn.py, services/assessments.py).                             *)
THEOREM PanelHonest == Spec => []CursorTellsThePanel
  <1> DEFINE Inv == scene = "panel" => PanelInv
  <1>1. Init => Inv
    BY PanelInitially, PagesAssumption DEF Init
  <1>2. Inv /\ [Next]_all => Inv'
    <2>1. SUFFICES ASSUME Inv, [Next]_all, scene' = "panel" PROVE PanelInv'
      OBVIOUS
    <2>2. scene = "panel" /\ [Panel!Next]_(Panel!vars)
      BY <2>1 DEF Next, all, state, Panel!vars
    <2> QED
      BY <2>1, <2>2, PanelStep, PagesAssumption
  <1>3. Inv => CursorTellsThePanel
    <2>1. PanelInv => Panel!TypeOK
      <3>1. SUFFICES ASSUME PanelInv PROVE Panel!TypeOK
        OBVIOUS
      <3>2. \A i \in 1 .. Len(rows) : rows[i].kind \in {"review", "retraction"}
        <4>1. \A i \in 1 .. Len(rows) : rows[i] \in Rows
          BY <3>1 DEF PanelInv, PanelTypes
        <4> QED
          BY <4>1 DEF Rows
      <3> QED
        BY <3>1, <3>2 DEF PanelInv, PanelTypes, Reader, Panel!TypeOK
    <2> QED
      BY <2>1, CursorTells DEF CursorTellsThePanel
  <1> QED
    BY <1>1, <1>2, <1>3, PTL DEF Spec

-----------------------------------------------------------------------------
(* The board.  What the page holds of one card is apart from the rest: it   *)
(* is at rest and shows what was acknowledged, or it has a loop and one     *)
(* request.  Settling a card keeps the others as they were, whatever it     *)
(* trims, because the cards of a column are shown done.                     *)

status   == v1
finished == v2
told     == v3
tab      == v4
wire     == v5
orphans  == v6
gesture  == v7
USE DEF status, finished, told, tab, wire, orphans, gesture

Statuses == Board!Statuses
Loops    == [target : Statuses \cup {NoTask}, from : Statuses \cup {NoTask}, full : BOOLEAN]
Requested == [task : Tasks, target : Statuses, stage : {"sent", "stored", "failed"}]
Boards ==
    [shown : [Tasks -> Statuses], acked : [Tasks -> Statuses], column : Seq(Tasks),
     gone : SUBSET Tasks, pane : Panes \cup {NoTask}, paneDone : BOOLEAN,
     loop : [Tasks -> Loops]]

Once(s) == \A i, j \in 1 .. Len(s) : s[i] = s[j] => i = j
Held(s) == {s[i] : i \in 1 .. Len(s)}

\* The table and its history.
Ledger ==
    /\ status \in [Tasks -> Statuses] /\ finished \in Seq(Tasks) /\ Once(finished)
    /\ DOMAIN told = Tasks
    /\ Board!LedgerTells

Column(v) == Once(v.column) /\ \A t \in Held(v.column) : v.shown[t] = "done"

Card(v, t) ==
    /\ v.loop[t] = Board!NoLoop <=> v.loop[t].target = NoTask
    /\ v.loop[t] = Board!NoLoop =>
          /\ v.shown[t] = v.acked[t]
          /\ t \in v.gone => v.acked[t] = "done"
          /\ v.pane = t => v.paneDone = (v.acked[t] = "done")

PageTrue(v) == Column(v) /\ \A t \in Tasks : Card(v, t)

\* A request is out for exactly the cards that have a loop.
Wires(v, w) ==
    /\ \A i, j \in 1 .. Len(w) : w[i].task = w[j].task => i = j
    /\ \A t \in Tasks : v.loop[t] # Board!NoLoop <=> \E i \in 1 .. Len(w) : w[i].task = t

\* A gesture that still makes a claim is stored, or the loop carries it on.
Gestures(st, v, w, g) ==
    \A t \in Tasks : g[t] # NoTask =>
        /\ v.loop[t] = Board!NoLoop => st[t] = g[t]
        /\ v.loop[t] # Board!NoLoop => g[t] = v.loop[t].target
        /\ \A i \in 1 .. Len(w) : w[i].task = t /\ w[i].stage = "stored" => st[t] = w[i].target

BoardTypes ==
    /\ tab \in [Tabs -> Boards] /\ wire \in [Tabs -> Seq(Requested)]
    /\ orphans \subseteq Requested
    /\ gesture \in [Tabs -> [Tasks -> Statuses \cup {NoTask}]]

BoardInv ==
    /\ Ledger /\ BoardTypes
    /\ \A b \in Tabs : /\ PageTrue(tab[b]) /\ Wires(tab[b], wire[b])
                       /\ Gestures(status, tab[b], wire[b], gesture[b])

(* A sequence without one of its elements.                                  *)
LEMMA OneOut ==
    ASSUME NEW T, NEW s \in Seq(T), NEW i \in 1 .. Len(s)
    PROVE  LET r == Board!RemoveAt(s, i)
           IN  /\ r \in Seq(T) /\ Len(r) = Len(s) - 1
               /\ \A j \in 1 .. Len(r) : r[j] = IF j < i THEN s[j] ELSE s[j + 1]
  <1> DEFINE a == SubSeq(s, 1, i - 1)
             z == SubSeq(s, i + 1, Len(s))
  <1>1. a \in Seq(T) /\ Len(a) = i - 1 /\ \A j \in 1 .. i - 1 : a[j] = s[j]
    OBVIOUS
  <1>2. z \in Seq(T) /\ Len(z) = Len(s) - i /\ \A j \in 1 .. Len(s) - i : z[j] = s[i + j]
    OBVIOUS
  <1>3. Board!RemoveAt(s, i) = a \o z
    BY DEF Board!RemoveAt
  <1> HIDE DEF a, z
  <1>4. /\ a \o z \in Seq(T) /\ Len(a \o z) = Len(s) - 1
        /\ \A j \in 1 .. Len(s) - 1 : (a \o z)[j] = IF j < i THEN s[j] ELSE s[j + 1]
    <2>1. /\ a \o z \in Seq(T) /\ Len(a \o z) = Len(a) + Len(z)
          /\ \A j \in 1 .. Len(a) + Len(z) :
                (a \o z)[j] = IF j <= Len(a) THEN a[j] ELSE z[j - Len(a)]
      BY <1>1, <1>2, ConcatProperties
    <2>2. Len(a) = i - 1 /\ Len(z) = Len(s) - i /\ Len(s) \in Nat
      BY <1>1, <1>2
    <2>3. ASSUME NEW j \in 1 .. Len(s) - 1
          PROVE  (a \o z)[j] = IF j < i THEN s[j] ELSE s[j + 1]
      <3>1. CASE j < i
        BY <1>1, <2>1, <2>2, <3>1
      <3>2. CASE j >= i
        <4>1. j - (i - 1) \in 1 .. Len(s) - i /\ (a \o z)[j] = z[j - (i - 1)]
          BY <2>1, <2>2, <3>2
        <4> QED
          BY <1>2, <3>2, <4>1
      <3> QED
        BY <2>2, <3>1, <3>2
    <2> QED
      BY <2>1, <2>2, <2>3
  <1> QED
    BY <1>3, <1>4

LEMMA TakenOut ==
    ASSUME NEW T, NEW s \in Seq(T), NEW e, Once(s)
    PROVE  LET r == Board!RemoveFirst(s, e)
           IN  r \in Seq(T) /\ Once(r) /\ Held(r) = Held(s) \ {e}
  <1> DEFINE r == Board!RemoveFirst(s, e)
  <1>1. CASE e \notin Held(s)
    BY <1>1 DEF Held, Board!RemoveFirst
  <1>2. CASE e \in Held(s)
    <2>1. PICK i \in 1 .. Len(s) : s[i] = e
      BY <1>2 DEF Held
    <2>2. {j \in 1 .. Len(s) : s[j] = e} = {i}
      BY <2>1 DEF Once
    <2>3. Board!Min({i}) = i
      BY DEF Board!Min
    <2>4. r = Board!RemoveAt(s, i)
      BY <2>1, <2>2, <2>3 DEF Board!RemoveFirst, Board!SelectInSeq
    <2>5. /\ r \in Seq(T) /\ Len(r) = Len(s) - 1
          /\ \A j \in 1 .. Len(r) : r[j] = IF j < i THEN s[j] ELSE s[j + 1]
      BY <2>4, OneOut
    <2> HIDE DEF r
    <2>6. Once(r)
      BY <2>5 DEF Once
    <2>7. ASSUME NEW x \in Held(r) PROVE x \in Held(s) \ {e}
      <3>1. PICK j \in 1 .. Len(r) : x = r[j]
        BY <2>7 DEF Held
      <3>2. PICK k \in 1 .. Len(s) : k # i /\ x = s[k]
        BY <2>5, <3>1
      <3> QED
        BY <2>1, <3>2 DEF Held, Once
    <2>8. ASSUME NEW x \in Held(s) \ {e} PROVE x \in Held(r)
      <3>1. PICK k \in 1 .. Len(s) : x = s[k] /\ k # i
        BY <2>1, <2>8 DEF Held
      <3>2. CASE k < i
        <4>1. k \in 1 .. Len(r) /\ r[k] = x
          BY <2>5, <3>1, <3>2
        <4> QED
          BY <4>1 DEF Held
      <3>3. CASE k > i
        <4>1. k - 1 \in 1 .. Len(r) /\ r[k - 1] = x
          BY <2>5, <3>1, <3>3
        <4> QED
          BY <4>1 DEF Held
      <3> QED
        BY <3>1, <3>2, <3>3
    <2> QED
      BY <2>5, <2>6, <2>7, <2>8 DEF r
  <1> QED
    BY <1>1, <1>2

LEMMA PutFirst ==
    ASSUME NEW T, NEW s \in Seq(T), NEW e \in T, Once(s), e \notin Held(s)
    PROVE  LET r == Board!Cons(e, s)
           IN  /\ r \in Seq(T) /\ Once(r) /\ Held(r) = Held(s) \cup {e}
               /\ Len(r) >= 1 /\ r[1] = e
  <1> DEFINE r == Board!Cons(e, s)
  <1>1. /\ r \in Seq(T) /\ Len(r) = Len(s) + 1 /\ r[1] = e
        /\ \A j \in 1 .. Len(s) : r[j + 1] = s[j]
    BY DEF Board!Cons
  <1> HIDE DEF r
  <1>2. \A i \in 1 .. Len(r) :
           i = 1 \/ (i - 1 \in 1 .. Len(s) /\ r[i] = s[i - 1] /\ r[i] \in Held(s))
    <2>1. \A i \in 1 .. Len(r) : i = 1 \/ (i - 1 \in 1 .. Len(s) /\ r[i] = s[i - 1])
      BY <1>1
    <2> QED
      BY <2>1 DEF Held
  <1>3. Once(r)
    <2>1. SUFFICES ASSUME NEW i \in 1 .. Len(r), NEW j \in 1 .. Len(r), r[i] = r[j] PROVE i = j
      BY DEF Once
    <2>2. CASE i = 1 \/ j = 1
      BY <1>1, <1>2, <2>1, <2>2
    <2>3. CASE i # 1 /\ j # 1
      <3>1. /\ i - 1 \in 1 .. Len(s) /\ j - 1 \in 1 .. Len(s) /\ s[i - 1] = s[j - 1]
        BY <1>2, <2>1, <2>3
      <3> QED
        BY <3>1 DEF Once
    <2> QED
      BY <2>2, <2>3
  <1>4. Held(r) \subseteq Held(s) \cup {e}
    <2>1. \A i \in 1 .. Len(r) : r[i] \in Held(s) \cup {e}
      BY <1>1, <1>2
    <2> QED
      BY <2>1 DEF Held
  <1>5. Held(s) \cup {e} \subseteq Held(r)
    <2>1. ASSUME NEW j \in 1 .. Len(s) PROVE s[j] \in Held(r)
      <3>1. j + 1 \in 1 .. Len(r) /\ r[j + 1] = s[j]
        BY <1>1
      <3> QED
        BY <3>1 DEF Held
    <2>2. e \in Held(r)
      <3>1. 1 \in 1 .. Len(r) /\ r[1] = e
        BY <1>1
      <3> QED
        BY <3>1 DEF Held
    <2> QED
      BY <2>1, <2>2 DEF Held
  <1> QED
    BY <1>1, <1>3, <1>4, <1>5 DEF r

LEMMA CutShort ==
    ASSUME NEW T, NEW s \in Seq(T), NEW n \in 0 .. Len(s), Once(s)
    PROVE  LET r == SubSeq(s, 1, n)
           IN  /\ r \in Seq(T) /\ Once(r) /\ Len(r) = n /\ Held(r) \subseteq Held(s)
               /\ n >= 1 => s[1] \in Held(r)
  <1> DEFINE r == SubSeq(s, 1, n)
  <1>1. r \in Seq(T) /\ Len(r) = n /\ \A i \in 1 .. n : r[i] = s[i]
    OBVIOUS
  <1> HIDE DEF r
  <1>2. Once(r) /\ Held(r) \subseteq Held(s) /\ (n >= 1 => s[1] \in Held(r))
    BY <1>1 DEF Once, Held
  <1> QED
    BY <1>1, <1>2 DEF r

(* What an event adds to a sound history.                                   *)
LEMMA Events ==
    ASSUME NEW st, NEW c \in BOOLEAN, NEW h,
           h = [status |-> st, completed |-> c, sound |-> TRUE]
    PROVE  /\ c => Board!TaskReopened(h) =
                     [status |-> IF st = "done" THEN "backlog" ELSE st,
                      completed |-> FALSE, sound |-> TRUE]
           /\ ~c => Board!TaskCompleted(h) = [status |-> "done", completed |-> TRUE, sound |-> TRUE]
  <1>1. h.status = st /\ h.completed = c /\ h.sound = TRUE
    OBVIOUS
  <1>2. ASSUME c PROVE (h.sound /\ h.completed) = TRUE
    BY <1>1, <1>2
  <1>3. ASSUME ~c PROVE (h.sound /\ ~h.completed) = TRUE
    BY <1>1, <1>3
  <1>4. c => Board!TaskReopened(h) =
                [status |-> IF st = "done" THEN "backlog" ELSE st,
                 completed |-> FALSE, sound |-> TRUE]
    BY <1>1, <1>2, Zenon DEF Board!TaskReopened
  <1>5. ~c => Board!TaskCompleted(h) = [status |-> "done", completed |-> TRUE, sound |-> TRUE]
    BY <1>3, Zenon DEF Board!TaskCompleted
  <1> QED
    BY <1>4, <1>5

(* What a handler's transaction leaves: the table and its history agree.    *)
LEMMA LedgerStep ==
    ASSUME Board!BoardAssumption, Ledger, NEW t \in Tasks,
           Board!ToggleComplete(t) \/ \E s \in Statuses : Board!SetStatus(t, s)
    PROVE  /\ Ledger'
           /\ \A u \in Tasks \ {t} : status'[u] = status[u]
           /\ \A s \in Statuses : Board!SetStatus(t, s) => status'[t] = s
  <1>1. /\ \A u : Board!Completed(u) <=> u \in Held(finished)
        /\ \A u : (Board!Completed(u))' <=> u \in Held(finished)'
    BY DEF Board!Completed, Board!Contains, Held
  <1>a. PICK c \in [Tasks -> BOOLEAN] : \A u \in Tasks : c[u] = Board!Completed(u)
    <2>1. \A u \in Tasks : Board!Completed(u) \in BOOLEAN
      BY DEF Board!Completed, Board!Contains
    <2>2. [u \in Tasks |-> Board!Completed(u)] \in [Tasks -> BOOLEAN]
      BY <2>1
    <2> QED
      BY <2>2
  <1>2. \A u \in Tasks :
           /\ c[u] <=> u \in Held(finished)
           /\ status[u] = "done" <=> c[u]
           /\ told[u] = [status |-> status[u], completed |-> c[u], sound |-> TRUE]
    <2>1. SUFFICES ASSUME NEW u \in Tasks
                   PROVE  /\ c[u] <=> u \in Held(finished)
                          /\ status[u] = "done" <=> c[u]
                          /\ told[u] = [status |-> status[u], completed |-> c[u], sound |-> TRUE]
      OBVIOUS
    <2>2. c[u] = Board!Completed(u)
      BY <1>a
    <2>3. /\ status[u] = "done" <=> Board!Completed(u)
          /\ told[u] = [status |-> status[u], completed |-> Board!Completed(u), sound |-> TRUE]
      BY DEF Ledger, Board!LedgerTells
    <2>4. told[u] = [status |-> status[u], completed |-> c[u], sound |-> TRUE]
      BY <2>2, <2>3, Zenon
    <2> QED
      BY <1>1, <2>2, <2>3, <2>4
  <1>3. LET out == Board!RemoveFirst(finished, t)
        IN  out \in Seq(Tasks) /\ Once(out) /\ Held(out) = Held(finished) \ {t}
    BY TakenOut DEF Ledger
  <1>4. t \notin Held(finished) =>
           LET in == Board!Cons(t, finished)
           IN  in \in Seq(Tasks) /\ Once(in) /\ Held(in) = Held(finished) \cup {t}
    BY PutFirst DEF Ledger
  <1>5. PICK s \in Statuses, done \in BOOLEAN :
           /\ s = "done" <=> done
           /\ status' = [status EXCEPT ![t] = s]
           /\ finished' = CASE done /\ t \notin Held(finished) -> Board!Cons(t, finished)
                            [] ~done /\ t \in Held(finished) -> Board!RemoveFirst(finished, t)
                            [] OTHER -> finished
           /\ told' = [told EXCEPT ![t] = [status |-> s, completed |-> done, sound |-> TRUE]]
    <2>1. CASE Board!ToggleComplete(t)
      <3>1. CASE t \in Held(finished)
        <4>1. /\ finished' = Board!RemoveFirst(finished, t)
              /\ status' = [status EXCEPT ![t] = "backlog"]
              /\ told' = [told EXCEPT ![t] = Board!TaskReopened(@)]
          BY <1>1, <2>1, <3>1 DEF Board!ToggleComplete
        <4>2. Board!TaskReopened(told[t])
                = [status |-> "backlog", completed |-> FALSE, sound |-> TRUE]
          <5>1. told[t] = [status |-> "done", completed |-> TRUE, sound |-> TRUE]
            BY <1>2, <3>1
          <5> QED
            BY <5>1, Events
        <4> QED
          BY <3>1, <4>1, <4>2 DEF Statuses, Board!Statuses
      <3>2. CASE t \notin Held(finished)
        <4>1. /\ finished' = Board!Cons(t, finished)
              /\ status' = [status EXCEPT ![t] = "done"]
              /\ told' = [told EXCEPT ![t] = Board!TaskCompleted(@)]
          BY <1>1, <2>1, <3>2 DEF Board!ToggleComplete
        <4>2. Board!TaskCompleted(told[t])
                = [status |-> "done", completed |-> TRUE, sound |-> TRUE]
          <5>1. told[t] = [status |-> status[t], completed |-> FALSE, sound |-> TRUE]
            BY <1>2, <3>2
          <5> QED
            BY <5>1, Events
        <4> QED
          BY <3>2, <4>1, <4>2 DEF Statuses, Board!Statuses
      <3> QED
        BY <3>1, <3>2
    <2>2. ASSUME NEW s \in Statuses, Board!SetStatus(t, s)
          PROVE  \E done \in BOOLEAN :
                    /\ s = "done" <=> done
                    /\ status' = [status EXCEPT ![t] = s]
                    /\ finished' = CASE done /\ t \notin Held(finished) -> Board!Cons(t, finished)
                                     [] ~done /\ t \in Held(finished) ->
                                           Board!RemoveFirst(finished, t)
                                     [] OTHER -> finished
                    /\ told' = [told EXCEPT ![t] =
                                  [status |-> s, completed |-> done, sound |-> TRUE]]
      <3> DEFINE h == Board!Moved(told[t], t, s)
      <3>1. h = [status |-> s, completed |-> c[t], sound |-> TRUE]
        <4>1. told[t] = [status |-> status[t], completed |-> c[t], sound |-> TRUE]
          BY <1>2
        <4>2. CASE status[t] = s
          BY <4>1, <4>2 DEF Board!Moved
        <4>3. CASE status[t] # s
          <5>1. h = Board!StatusChanged(told[t], status[t], s)
            BY <4>3 DEF Board!Moved
          <5>2. PICK d \in BOOLEAN : d = c[t]
            OBVIOUS
          <5>3. PICK st, k : st = status[t] /\ k = told[t]
            OBVIOUS
          <5>4. k = [status |-> st, completed |-> d, sound |-> TRUE]
            BY <4>1, <5>2, <5>3, Zenon
          <5>5. \A r : Board!StatusChanged(k, st, r) =
                         [status |-> r, completed |-> d, sound |-> TRUE]
            <6>1. k.status = st /\ k.completed = d /\ k.sound = TRUE
              BY <5>4
            <6>2. (k.sound /\ k.status = st) = TRUE
              BY <6>1
            <6> QED
              BY <6>1, <6>2, Zenon DEF Board!StatusChanged
          <5> HIDE DEF h
          <5> QED
            BY <5>1, <5>2, <5>3, <5>5, Zenon
        <4> QED
          BY <4>2, <4>3
      <3>2. /\ status' = [status EXCEPT ![t] = s]
            /\ finished' = CASE s = "done" /\ t \notin Held(finished) -> Board!Cons(t, finished)
                             [] s # "done" /\ t \in Held(finished) ->
                                   Board!RemoveFirst(finished, t)
                             [] OTHER -> finished
            /\ told' = [told EXCEPT ![t] =
                  CASE s = "done" /\ t \notin Held(finished) -> Board!TaskCompleted(h)
                    [] s # "done" /\ t \in Held(finished) -> Board!TaskReopened(h)
                    [] OTHER -> h]
        BY <1>1, <2>2 DEF Board!SetStatus
      <3> HIDE DEF h
      <3>3. CASE s = "done" /\ t \notin Held(finished)
        <4>1. Board!TaskCompleted(h) = [status |-> s, completed |-> TRUE, sound |-> TRUE]
          BY <1>2, <3>1, <3>3, c[t] = FALSE DEF Board!TaskCompleted
        <4> QED
          BY <3>2, <3>3, <4>1
      <3>4. CASE s # "done" /\ t \in Held(finished)
        <4>1. Board!TaskReopened(h) = [status |-> s, completed |-> FALSE, sound |-> TRUE]
          BY <1>2, <3>1, <3>4, c[t] = TRUE DEF Board!TaskReopened
        <4> QED
          BY <3>2, <3>4, <4>1
      <3>5. CASE s = "done" <=> t \in Held(finished)
        <4>1. told' = [told EXCEPT ![t] = h] /\ finished' = finished
          BY <3>2, <3>5
        <4>2. s = "done" <=> c[t]
          BY <1>2, <3>5
        <4> QED
          BY <1>2, <3>1, <3>2, <4>1, <4>2
      <3> QED
        BY <3>3, <3>4, <3>5
    <2> QED
      BY <2>1, <2>2
  <1>6. /\ finished' \in Seq(Tasks) /\ Once(finished')
        /\ Held(finished') = IF done THEN Held(finished) \cup {t} ELSE Held(finished) \ {t}
    <2>1. CASE done /\ t \notin Held(finished)
      BY <1>4, <1>5, <2>1
    <2>2. CASE ~done /\ t \in Held(finished)
      BY <1>3, <1>5, <2>2
    <2>3. CASE done <=> t \in Held(finished)
      BY <1>5, <2>3 DEF Ledger
    <2> QED
      BY <2>1, <2>2, <2>3
  <1>7. /\ status' \in [Tasks -> Statuses] /\ status'[t] = s
        /\ \A u \in Tasks \ {t} : status'[u] = status[u]
    BY <1>5 DEF Ledger
  <1>8. /\ DOMAIN told' = Tasks
        /\ told'[t] = [status |-> s, completed |-> done, sound |-> TRUE]
        /\ \A u \in Tasks \ {t} : told'[u] = told[u]
    BY <1>5 DEF Ledger
  <1>9. Board!LedgerTells'
    <2>1. SUFFICES ASSUME NEW u \in Tasks
                   PROVE  /\ status'[u] = "done" <=> Board!Completed(u)'
                          /\ told'[u] = [status |-> status'[u], completed |-> Board!Completed(u)',
                                         sound |-> TRUE]
      BY DEF Board!LedgerTells
    <2>2. PICK d \in BOOLEAN : d = Board!Completed(u)'
      BY DEF Board!Completed, Board!Contains
    <2>3. d <=> u \in Held(finished')
      BY <1>1, <2>2
    <2>4. d = IF u = t THEN done ELSE c[u]
      BY <1>2, <1>6, <2>3
    <2>5. /\ status'[u] = "done" <=> d
          /\ told'[u] = [status |-> status'[u], completed |-> d, sound |-> TRUE]
      BY <1>2, <1>5, <1>7, <1>8, <2>4
    <2> QED
      BY <2>2, <2>5, Zenon
  <1>10. \A r \in Statuses : Board!SetStatus(t, r) => status'[t] = r
    BY DEF Board!SetStatus, Ledger
  <1> QED
    BY <1>6, <1>7, <1>8, <1>9, <1>10 DEF Ledger

-----------------------------------------------------------------------------
(* The page.                                                                *)

(* A card is put into a column.                                             *)
LEMMA Placing ==
    ASSUME NEW v \in Boards, Column(v), NEW t \in Tasks, NEW s \in Statuses
    PROVE  LET w == Board!Place(v, t, s)
           IN  /\ w \in Boards /\ Column(w)
               /\ w.shown = [v.shown EXCEPT ![t] = s] /\ w.gone = v.gone \ {t}
               /\ w.acked = v.acked /\ w.loop = v.loop
               /\ w.pane = v.pane /\ w.paneDone = v.paneDone
               /\ s = "done" => w.column # <<>> /\ w.column[1] = t
  <1> DEFINE out == Board!RemoveFirst(v.column, t)
             w   == Board!Place(v, t, s)
             column_ == IF s = "done" THEN Board!Cons(t, out) ELSE out
  <1>1. out \in Seq(Tasks) /\ Once(out) /\ Held(out) = Held(v.column) \ {t}
    BY TakenOut DEF Boards, Column
  <1> HIDE DEF out
  <1>2. /\ column_ \in Seq(Tasks) /\ Once(column_)
        /\ Held(column_) = IF s = "done" THEN Held(out) \cup {t} ELSE Held(out)
        /\ s = "done" => column_ # <<>> /\ column_[1] = t
    <2>1. CASE s = "done"
      BY <1>1, <2>1, PutFirst
    <2>2. CASE s # "done"
      BY <1>1, <2>2
    <2> QED
      BY <2>1, <2>2
  <1>3. w = [v EXCEPT !.shown = [v.shown EXCEPT ![t] = s], !.gone = v.gone \ {t},
                      !.column = column_]
    BY DEF Board!Place, Boards, out
  <1> HIDE DEF column_, w
  <1>4. /\ w \in Boards /\ w.column = column_
        /\ w.shown = [v.shown EXCEPT ![t] = s] /\ w.gone = v.gone \ {t}
        /\ w.acked = v.acked /\ w.loop = v.loop
        /\ w.pane = v.pane /\ w.paneDone = v.paneDone
    BY <1>2, <1>3 DEF Boards
  <1>5. Column(w)
    BY <1>1, <1>2, <1>4 DEF Column, Boards
  <1> QED
    BY <1>2, <1>4, <1>5 DEF w

(* The cards that a trim takes away are shown done, and the first stays.    *)
LEMMA Trimming ==
    ASSUME Board!BoardAssumption, NEW v \in Boards, Column(v), NEW s \in Statuses
    PROVE  LET w == Board!Trim(v, s)
           IN  /\ w \in Boards /\ Column(w)
               /\ w.shown = v.shown /\ w.acked = v.acked /\ w.loop = v.loop
               /\ w.pane = v.pane /\ w.paneDone = v.paneDone
               /\ \A t \in w.gone : t \in v.gone \/ (t \in Held(v.column) /\ t # v.column[1])
  <1> DEFINE kept == SubSeq(v.column, 1, DoneLimit)
             w    == Board!Trim(v, s)
             gone_ == v.gone \cup (Board!ToSet(v.column) \ Board!ToSet(kept))
  <1>1. CASE ~Board!IsCappedFull(v, s)
    BY <1>1 DEF Board!Trim
  <1>2. CASE Board!IsCappedFull(v, s)
    <2>1. DoneLimit \in 1 .. Len(v.column) /\ v.column \in Seq(Tasks) /\ Once(v.column)
      BY <1>2 DEF Board!IsCappedFull, Board!BoardAssumption, Boards, Column
    <2>2. /\ kept \in Seq(Tasks) /\ Once(kept) /\ Held(kept) \subseteq Held(v.column)
          /\ v.column[1] \in Held(kept)
      BY <2>1, CutShort
    <2> HIDE DEF kept
    <2>3. /\ Board!ToSet(v.column) = Held(v.column) /\ Board!ToSet(kept) = Held(kept)
          /\ Held(v.column) \subseteq Tasks
      BY <2>1, <2>2 DEF Board!ToSet, Held
    <2>4. w = [v EXCEPT !.column = kept, !.gone = gone_]
      BY <1>2 DEF Board!Trim, kept, Boards
    <2>5. gone_ \subseteq Tasks
      BY <2>3 DEF Boards
    <2>6. /\ w \in Boards /\ w.column = kept /\ w.gone = gone_
          /\ w.shown = v.shown /\ w.acked = v.acked /\ w.loop = v.loop
          /\ w.pane = v.pane /\ w.paneDone = v.paneDone
      BY <2>2, <2>4, <2>5 DEF Boards
    <2> HIDE DEF w
    <2>7. Column(w)
      BY <2>2, <2>6 DEF Column
    <2>8. \A t \in gone_ : t \in v.gone \/ (t \in Held(v.column) /\ t # v.column[1])
      BY <2>2, <2>3
    <2> QED
      BY <2>6, <2>7, <2>8 DEF w
  <1> QED
    BY <1>1, <1>2

(* A card settles as the server last acknowledged it: it is at rest, and    *)
(* the other cards are as true as they were.                                *)
LEMMA Settling ==
    ASSUME Board!BoardAssumption, NEW v \in Boards, Column(v), NEW t \in Tasks,
           \A u \in Tasks \ {t} : Card(v, u),
           NEW s \in Statuses, v.acked[t] = s, ~Board!PaneLies(v, t, s)
    PROVE  LET w == Board!Settle(v, t, s)
           IN  /\ w \in Boards /\ PageTrue(w)
               /\ w.loop = [v.loop EXCEPT ![t] = Board!NoLoop]
  <1> DEFINE p == Board!Place(v, t, s)
             q == Board!Trim(p, s)
             w == Board!Settle(v, t, s)
  <1>1. /\ p \in Boards /\ Column(p)
        /\ p.shown = [v.shown EXCEPT ![t] = s] /\ p.gone = v.gone \ {t}
        /\ p.acked = v.acked /\ p.loop = v.loop
        /\ p.pane = v.pane /\ p.paneDone = v.paneDone
        /\ s = "done" => p.column # <<>> /\ p.column[1] = t
    BY Placing
  <1> HIDE DEF p
  <1>2. /\ q \in Boards /\ Column(q)
        /\ q.shown = p.shown /\ q.acked = p.acked /\ q.loop = p.loop
        /\ q.pane = p.pane /\ q.paneDone = p.paneDone
        /\ \A u \in q.gone : u \in p.gone \/ (u \in Held(p.column) /\ u # p.column[1])
    BY <1>1, Trimming
  <1> HIDE DEF q
  <1>3. w = [q EXCEPT !.loop = [q.loop EXCEPT ![t] = Board!NoLoop]]
    BY <1>2 DEF Board!Settle, p, q, Boards
  <1>4. Board!NoLoop \in Loops
    BY DEF Board!NoLoop, Loops
  <1> HIDE DEF w
  <1>5. /\ w \in Boards /\ w.loop = [q.loop EXCEPT ![t] = Board!NoLoop]
        /\ w.shown = q.shown /\ w.acked = q.acked /\ w.gone = q.gone /\ w.column = q.column
        /\ w.pane = q.pane /\ w.paneDone = q.paneDone
    BY <1>2, <1>3, <1>4 DEF Boards
  <1>6. Column(w)
    BY <1>2, <1>5 DEF Column
  <1>7. ASSUME NEW u \in Tasks \ {t} PROVE Card(w, u)
    <2>1. w.loop[u] = v.loop[u] /\ w.shown[u] = v.shown[u] /\ w.acked[u] = v.acked[u]
      BY <1>1, <1>2, <1>5 DEF Boards
    <2>2. u \in w.gone => u \in v.gone \/ w.shown[u] = "done"
      BY <1>1, <1>2, <1>5 DEF Column
    <2>3. Card(v, u)
      OBVIOUS
    <2> QED
      BY <1>1, <1>2, <1>5, <2>1, <2>2, <2>3 DEF Card
  <1>8. Card(w, t)
    <2>1. w.loop[t] = Board!NoLoop /\ w.shown[t] = s /\ w.acked[t] = s
      BY <1>1, <1>2, <1>5 DEF Boards
    <2>2. t \notin w.gone
      BY <1>1, <1>2, <1>5 DEF Column, Boards
    <2> QED
      BY <1>1, <1>2, <1>5, <2>1, <2>2 DEF Card, Board!NoLoop, Board!PaneLies
  <1> QED
    BY <1>1, <1>2, <1>5, <1>6, <1>7, <1>8 DEF PageTrue, w

(* The page as the server renders it is true, and nothing is under way.     *)
LEMMA Rendering ==
    ASSUME Board!BoardAssumption, Ledger, NEW pane \in Panes \cup {NoTask}
    PROVE  LET v == Board!Rendered(pane)
           IN  v \in Boards /\ PageTrue(v) /\ \A t \in Tasks : v.loop[t] = Board!NoLoop
  <1> DEFINE v == Board!Rendered(pane)
             n == IF Len(finished) < DoneLimit THEN Len(finished) ELSE DoneLimit
             column_ == SubSeq(finished, 1, n)
             gone_ == {finished[i] : i \in {k \in DOMAIN finished : k > DoneLimit}}
             loop_ == [t \in Tasks |-> Board!NoLoop]
             done_ == pane # NoTask /\ Board!Contains(finished, pane)
  <1>1. \A t \in Tasks : status[t] = "done" <=> t \in Held(finished)
    BY DEF Ledger, Board!LedgerTells, Board!Completed, Board!Contains, Held
  <1>2. n \in 0 .. Len(finished)
    BY DEF Ledger, Board!BoardAssumption
  <1>3. column_ \in Seq(Tasks) /\ Once(column_) /\ Held(column_) \subseteq Held(finished)
    BY <1>2, CutShort DEF Ledger
  <1>4. gone_ \subseteq Held(finished) /\ Held(finished) \subseteq Tasks
    BY DEF Ledger, Held
  <1>5. loop_ \in [Tasks -> Loops]
    BY DEF Board!NoLoop, Loops
  <1>6. done_ \in BOOLEAN /\ \A t \in Tasks : pane = t => done_ = (status[t] = "done")
    BY <1>1 DEF Board!Contains, Held, Board!BoardAssumption
  <1>7. v = [shown |-> status, acked |-> status, column |-> column_, gone |-> gone_,
             pane |-> pane, paneDone |-> done_, loop |-> loop_]
    BY DEF Board!Rendered
  <1> HIDE DEF column_, gone_, done_
  <1>8. v \in Boards
    BY <1>3, <1>4, <1>5, <1>6, <1>7 DEF Ledger, Boards
  <1>9. Column(v)
    BY <1>1, <1>3, <1>4, <1>7 DEF Column
  <1>10. ASSUME NEW t \in Tasks PROVE Card(v, t)
    <2>1. /\ v.loop[t] = Board!NoLoop /\ v.shown[t] = v.acked[t] /\ v.acked[t] = status[t]
          /\ t \in v.gone => v.acked[t] = "done"
      BY <1>1, <1>4, <1>7
    <2>2. v.pane = t => v.paneDone = (v.acked[t] = "done")
      <3>1. v.pane = pane /\ v.paneDone = done_ /\ v.acked = status
        BY <1>7
      <3> QED
        BY <1>6, <3>1, Zenon
    <2> QED
      BY <2>1, <2>2 DEF Card, Board!NoLoop
  <1> QED
    BY <1>7, <1>8, <1>9, <1>10 DEF PageTrue

-----------------------------------------------------------------------------
(* The steps.                                                               *)

(* One page changes, what is on its wire and what its gestures claim.       *)
LEMMA PageStep ==
    ASSUME BoardInv, NEW b \in Tabs, NEW v \in Boards, NEW w \in Seq(Requested),
           NEW g \in [Tasks -> Statuses \cup {NoTask}],
           UNCHANGED <<status, finished, told>>, orphans' \subseteq Requested,
           tab' = [tab EXCEPT ![b] = v], wire' = [wire EXCEPT ![b] = w],
           gesture' = [gesture EXCEPT ![b] = g],
           PageTrue(v), Wires(v, w), Gestures(status, v, w, g)
    PROVE  BoardInv'
  <1>1. Ledger'
    BY DEF BoardInv, Ledger, Board!LedgerTells, Board!Completed
  <1>2. BoardTypes'
    BY DEF BoardInv, BoardTypes
  <1>3. /\ tab'[b] = v /\ wire'[b] = w /\ gesture'[b] = g
        /\ \A c \in Tabs \ {b} : tab'[c] = tab[c] /\ wire'[c] = wire[c] /\ gesture'[c] = gesture[c]
    BY DEF BoardInv, BoardTypes
  <1>4. \A c \in Tabs : PageTrue(tab'[c]) /\ Wires(tab'[c], wire'[c])
                        /\ Gestures(status', tab'[c], wire'[c], gesture'[c])
    BY <1>3 DEF BoardInv
  <1> QED
    BY <1>1, <1>2, <1>4 DEF BoardInv

(* Another request is put in the place of one.                              *)
LEMMA Replacing ==
    ASSUME NEW w \in Seq(Requested), NEW i \in 1 .. Len(w), NEW m \in Requested
    PROVE  LET u == [w EXCEPT ![i] = m]
           IN  /\ u \in Seq(Requested) /\ Len(u) = Len(w) /\ u[i] = m
               /\ \A j \in 1 .. Len(w) : j # i => u[j] = w[j]
  OBVIOUS

(* The page is left or reloaded: the cards are as the server has them, and  *)
(* the gestures that claim something are those that were stored.            *)
LEMMA Reloading ==
    ASSUME Board!BoardAssumption, BoardInv, NEW b \in Tabs, NEW pane \in Panes \cup {NoTask},
           NEW landed \in SUBSET Tasks, Board!Reload(b, pane), Board!Abandons(b, landed),
           UNCHANGED Board!tasksVars,
           \A t \in landed : gesture[b][t] # NoTask => status[t] = gesture[b][t]
    PROVE  BoardInv'
  <1> DEFINE v == Board!Rendered(pane)
             g == [t \in Tasks |-> IF t \in landed \/ tab[b].loop[t] = Board!NoLoop
                                   THEN gesture[b][t] ELSE NoTask]
  <1>1. v \in Boards /\ PageTrue(v) /\ \A t \in Tasks : v.loop[t] = Board!NoLoop
    BY Rendering DEF BoardInv
  <1>2. /\ tab' = [tab EXCEPT ![b] = v] /\ wire' = [wire EXCEPT ![b] = <<>>]
        /\ UNCHANGED <<status, finished, told>>
    BY DEF Board!Reload, Board!tasksVars
  <1>3. orphans' \subseteq Requested
    <2>1. Board!Unsent(b) \subseteq Requested
      BY DEF Board!Unsent, BoardInv, BoardTypes
    <2> QED
      BY <2>1 DEF Board!Reload, BoardInv, BoardTypes
  <1>4. gesture' = [gesture EXCEPT ![b] = g] /\ g \in [Tasks -> Statuses \cup {NoTask}]
    BY DEF Board!Abandons, BoardInv, BoardTypes
  <1> HIDE DEF v
  <1>5. Wires(v, <<>>)
    BY <1>1 DEF Wires
  <1>6. Gestures(status, v, <<>>, g)
    BY <1>1 DEF Gestures, BoardInv
  <1>7. <<>> \in Seq(Requested)
    OBVIOUS
  <1> QED
    BY <1>1, <1>2, <1>3, <1>4, <1>5, <1>6, <1>7, PageStep

(* A drag moves the card at once, and its loop takes it up.                 *)
LEMMA MovesStep ==
    ASSUME Board!BoardAssumption, BoardInv, NEW b \in Tabs, NEW t \in Tasks,
           NEW s \in Statuses, Board!Moves(b, t, s)
    PROVE  BoardInv'
  <1> DEFINE v == tab[b]
             p == Board!Place(v, t, s)
             begun == [target |-> s, from |-> v.shown[t],
                       full |-> Board!IsCappedFull(v, v.shown[t])]
             g == [gesture[b] EXCEPT ![t] = Board!Claim(b, t, s)]
  <1>1. v \in Boards /\ PageTrue(v) /\ Wires(v, wire[b]) /\ wire[b] \in Seq(Requested)
        /\ Gestures(status, v, wire[b], gesture[b]) /\ gesture[b] \in [Tasks -> Statuses \cup {NoTask}]
    BY DEF BoardInv, BoardTypes
  <1>2. /\ p \in Boards /\ Column(p)
        /\ p.shown = [v.shown EXCEPT ![t] = s] /\ p.gone = v.gone \ {t}
        /\ p.acked = v.acked /\ p.loop = v.loop /\ p.pane = v.pane /\ p.paneDone = v.paneDone
    BY <1>1, Placing DEF PageTrue
  <1> HIDE DEF p
  <1>3. begun \in Loops /\ begun.target = s /\ s # NoTask
    BY <1>1 DEF Loops, Boards, Board!IsCappedFull, Board!BoardAssumption, Statuses
  <1>4. v.loop[t] \in Loops /\ (v.loop[t] = Board!NoLoop <=> v.loop[t].target = NoTask)
    BY <1>1 DEF PageTrue, Card, Boards
  <1>5. g \in [Tasks -> Statuses \cup {NoTask}] /\ gesture' = [gesture EXCEPT ![b] = g]
        /\ g[t] \in {s, NoTask} /\ \A u \in Tasks \ {t} : g[u] = gesture[b][u]
    BY <1>1 DEF Board!Moves, Board!Claim, BoardInv, BoardTypes
  <1>6. PICK l \in Loops, w \in Seq(Requested) :
           /\ l.target = s /\ tab' = [tab EXCEPT ![b] = [p EXCEPT !.loop = [p.loop EXCEPT ![t] = l]]]
           /\ wire' = [wire EXCEPT ![b] = w]
           /\ \/ v.loop[t].target # NoTask /\ w = wire[b]
              \/ v.loop[t].target = NoTask /\ w = Append(wire[b], Board!Post(t, s))
    <2>1. CASE v.loop[t].target # NoTask
      <3> DEFINE l == [v.loop[t] EXCEPT !.target = s]
      <3>1. l \in Loops /\ l.target = s
        BY <1>4 DEF Loops
      <3>2. tab' = [tab EXCEPT ![b] = [p EXCEPT !.loop = [p.loop EXCEPT ![t] = l]]]
        BY <1>2, <2>1 DEF Board!Moves, p, BoardInv, BoardTypes, Boards
      <3>3. wire' = [wire EXCEPT ![b] = wire[b]]
        BY <2>1 DEF Board!Moves, BoardInv, BoardTypes
      <3> QED
        BY <1>1, <2>1, <3>1, <3>2, <3>3
    <2>2. CASE v.loop[t].target = NoTask
      <3>1. tab' = [tab EXCEPT ![b] = [p EXCEPT !.loop = [p.loop EXCEPT ![t] = begun]]]
        BY <1>2, <2>2 DEF Board!Moves, p, BoardInv, BoardTypes, Boards
      <3>2. wire' = [wire EXCEPT ![b] = Append(wire[b], Board!Post(t, s))]
        BY <2>2 DEF Board!Moves, BoardInv, BoardTypes
      <3>3. Append(wire[b], Board!Post(t, s)) \in Seq(Requested)
        BY <1>1, Appended DEF Board!Post, Requested
      <3> QED
        BY <1>3, <2>2, <3>1, <3>2, <3>3
    <2> QED
      BY <2>1, <2>2
  <1> DEFINE q == [p EXCEPT !.loop = [p.loop EXCEPT ![t] = l]]
  <1>7. /\ q \in Boards /\ q.loop = [v.loop EXCEPT ![t] = l] /\ q.column = p.column
        /\ q.shown = p.shown /\ q.acked = p.acked /\ q.gone = p.gone
        /\ q.pane = p.pane /\ q.paneDone = p.paneDone
    BY <1>2 DEF Boards
  <1>8. tab' = [tab EXCEPT ![b] = q]
    BY <1>6
  <1> HIDE DEF q
  <1>9. /\ q.loop[t] = l /\ l # Board!NoLoop
        /\ \A u \in Tasks \ {t} : q.loop[u] = v.loop[u]
    BY <1>1, <1>3, <1>6, <1>7 DEF Boards, Board!NoLoop
  <1>10. PageTrue(q)
    <2>1. Column(q)
      BY <1>2, <1>7 DEF Column
    <2>2. Card(q, t)
      BY <1>3, <1>6, <1>9 DEF Card
    <2>3. ASSUME NEW u \in Tasks \ {t} PROVE Card(q, u)
      BY <1>1, <1>2, <1>7, <1>9 DEF PageTrue, Card, Boards
    <2> QED
      BY <2>1, <2>2, <2>3 DEF PageTrue
  <1>11. Wires(q, w) /\ Gestures(status, q, w, g)
    <2>1. CASE v.loop[t].target # NoTask
      <3>1. w = wire[b] /\ v.loop[t] # Board!NoLoop
        BY <1>4, <1>6, <2>1
      <3>2. \A u \in Tasks : q.loop[u] = Board!NoLoop <=> v.loop[u] = Board!NoLoop
        BY <1>9, <3>1
      <3>3. Wires(q, w)
        BY <1>1, <3>1, <3>2 DEF Wires
      <3>4. ASSUME NEW u \in Tasks, g[u] # NoTask
            PROVE  /\ q.loop[u] = Board!NoLoop => status[u] = g[u]
                   /\ q.loop[u] # Board!NoLoop => g[u] = q.loop[u].target
                   /\ \A i \in 1 .. Len(w) :
                         w[i].task = u /\ w[i].stage = "stored" => status[u] = w[i].target
        <4>1. CASE u = t
          <5>1. gesture[b][t] # NoTask
            BY <1>5, <3>1, <3>4, <4>1 DEF Board!Moves, Board!Claim
          <5> QED
            BY <1>1, <1>5, <1>6, <1>9, <3>1, <3>4, <4>1, <5>1 DEF Gestures
        <4>2. CASE u # t
          BY <1>1, <1>5, <1>9, <3>1, <3>4, <4>2 DEF Gestures
        <4> QED
          BY <4>1, <4>2
      <3> QED
        BY <3>3, <3>4 DEF Gestures
    <2>2. CASE v.loop[t].target = NoTask
      <3>1. /\ w = Append(wire[b], Board!Post(t, s)) /\ Len(w) = Len(wire[b]) + 1
            /\ \A i \in 1 .. Len(wire[b]) : w[i] = wire[b][i] /\ w[i].task # t
            /\ w[Len(w)].task = t /\ w[Len(w)].stage = "sent" /\ Len(wire[b]) \in Nat
        <4> DEFINE m == Board!Post(t, s)
        <4>1. m \in Requested /\ m.task = t /\ m.stage = "sent"
          BY DEF Board!Post, Requested
        <4>2. w = Append(wire[b], m)
          BY <1>6, <2>2
        <4> HIDE DEF m
        <4>3. /\ Len(w) = Len(wire[b]) + 1 /\ Len(wire[b]) \in Nat /\ w[Len(wire[b]) + 1] = m
              /\ \A i \in 1 .. Len(wire[b]) : w[i] = wire[b][i]
          BY <1>1, <4>1, <4>2, Appended
        <4>4. \A i \in 1 .. Len(wire[b]) : wire[b][i].task # t
          BY <1>1, <1>4, <2>2 DEF Wires
        <4> QED
          BY <4>1, <4>2, <4>3, <4>4 DEF m
      <3>2. \A i \in 1 .. Len(w) : i = Len(w) \/ i \in 1 .. Len(wire[b])
        BY <3>1
      <3>3. Wires(q, w)
        <4>1. ASSUME NEW i \in 1 .. Len(w), NEW j \in 1 .. Len(w), w[i].task = w[j].task
              PROVE  i = j
          BY <1>1, <3>1, <3>2, <4>1 DEF Wires
        <4>2. ASSUME NEW u \in Tasks
              PROVE  q.loop[u] # Board!NoLoop <=> \E i \in 1 .. Len(w) : w[i].task = u
          <5>1. Len(w) \in 1 .. Len(w) /\ 1 .. Len(wire[b]) \subseteq 1 .. Len(w)
            BY <3>1
          <5>2. CASE u = t
            BY <1>9, <3>1, <5>1, <5>2
          <5>3. CASE u # t
            BY <1>1, <1>9, <3>1, <3>2, <5>1, <5>3 DEF Wires
          <5> QED
            BY <5>2, <5>3
        <4> QED
          BY <4>1, <4>2 DEF Wires
      <3>4. Gestures(status, q, w, g)
        <4>1. SUFFICES ASSUME NEW u \in Tasks, g[u] # NoTask
                       PROVE  /\ q.loop[u] = Board!NoLoop => status[u] = g[u]
                              /\ q.loop[u] # Board!NoLoop => g[u] = q.loop[u].target
                              /\ \A i \in 1 .. Len(w) :
                                    w[i].task = u /\ w[i].stage = "stored" => status[u] = w[i].target
          BY DEF Gestures
        <4>2. CASE u = t
          BY <1>5, <1>6, <1>9, <3>1, <3>2, <4>1, <4>2
        <4>3. CASE u # t
          BY <1>1, <1>5, <1>9, <3>1, <3>2, <4>1, <4>3 DEF Gestures
        <4> QED
          BY <4>2, <4>3
      <3> QED
        BY <3>3, <3>4
    <2> QED
      BY <2>1, <2>2
  <1>12. UNCHANGED <<status, finished, told, orphans>>
    BY DEF Board!Moves, Board!tasksVars
  <1> QED
    BY <1>5, <1>6, <1>7, <1>8, <1>10, <1>11, <1>12, PageStep DEF BoardInv, BoardTypes

(* Somebody else writes the task: a page's own gesture on it makes no claim. *)
LEMMA Overriding ==
    ASSUME NEW st \in [Tasks -> Statuses], NEW st_ \in [Tasks -> Statuses],
           NEW t \in Tasks, \A u \in Tasks \ {t} : st_[u] = st[u],
           NEW v \in Boards, NEW w \in Seq(Requested),
           NEW g \in [Tasks -> Statuses \cup {NoTask}], Gestures(st, v, w, g)
    PROVE  /\ [g EXCEPT ![t] = NoTask] \in [Tasks -> Statuses \cup {NoTask}]
           /\ Gestures(st_, v, w, [g EXCEPT ![t] = NoTask])
  BY DEF Gestures

(* A write of the server's that no page waits for.                          *)
LEMMA ServesStep ==
    ASSUME Board!BoardAssumption, BoardInv,
           (\E t \in Tasks : Board!Toggles(t)) \/ (\E m \in orphans : Board!ServesOrphan(m))
    PROVE  BoardInv'
  <1>1. PICK t \in Tasks :
           /\ Board!ToggleComplete(t) \/ \E s \in Statuses : Board!SetStatus(t, s)
           /\ gesture' = Board!Overridden(t)
    BY DEF Board!Toggles, Board!ServesOrphan, BoardInv, BoardTypes, Requested
  <1>2. UNCHANGED <<tab, wire>> /\ orphans' \subseteq Requested
    BY DEF Board!Toggles, Board!ServesOrphan, BoardInv, BoardTypes
  <1>3. Ledger' /\ \A u \in Tasks \ {t} : status'[u] = status[u]
    BY <1>1, LedgerStep DEF BoardInv
  <1>4. \A b \in Tabs : gesture'[b] = [gesture[b] EXCEPT ![t] = NoTask]
    BY <1>1 DEF Board!Overridden
  <1>5. DOMAIN gesture' = Tabs
    BY <1>1 DEF Board!Overridden
  <1>6. ASSUME NEW b \in Tabs
        PROVE  /\ gesture'[b] \in [Tasks -> Statuses \cup {NoTask}]
               /\ Gestures(status', tab[b], wire[b], gesture'[b])
    <2>1. /\ tab[b] \in Boards /\ wire[b] \in Seq(Requested)
          /\ gesture[b] \in [Tasks -> Statuses \cup {NoTask}]
          /\ Gestures(status, tab[b], wire[b], gesture[b])
      BY DEF BoardInv, BoardTypes
    <2>2. status \in [Tasks -> Statuses] /\ status' \in [Tasks -> Statuses]
      BY <1>3 DEF BoardInv, Ledger
    <2>3. PICK st \in [Tasks -> Statuses], st_ \in [Tasks -> Statuses], v \in Boards,
               w \in Seq(Requested), g \in [Tasks -> Statuses \cup {NoTask}] :
             st = status /\ st_ = status' /\ v = tab[b] /\ w = wire[b] /\ g = gesture[b]
      BY <2>1, <2>2
    <2>4. Gestures(st, v, w, g) /\ \A u \in Tasks \ {t} : st_[u] = st[u]
      BY <1>3, <1>4, <2>1, <2>3
    <2>5. /\ [g EXCEPT ![t] = NoTask] \in [Tasks -> Statuses \cup {NoTask}]
          /\ Gestures(st_, v, w, [g EXCEPT ![t] = NoTask])
      BY <2>4, Overriding
    <2> QED
      BY <1>3, <1>4, <2>3, <2>5
  <1>7. gesture' \in [Tabs -> [Tasks -> Statuses \cup {NoTask}]]
    BY <1>1, <1>4, <1>6 DEF Board!Overridden
  <1>8. BoardTypes'
    BY <1>2, <1>7 DEF BoardInv, BoardTypes
  <1> QED
    BY <1>2, <1>3, <1>6, <1>8 DEF BoardInv

(* A page's request is stored: what its gestures claim, those of others on  *)
(* the card no longer do.                                                   *)
LEMMA StoresStep ==
    ASSUME Board!BoardAssumption, BoardInv, NEW b \in Tabs, NEW i \in 1 .. Len(wire[b]),
           Board!Stores(b, i)
    PROVE  BoardInv'
  <1> DEFINE m == wire[b][i]
             t == m.task
             n == [m EXCEPT !.stage = "stored"]
             w == [wire[b] EXCEPT ![i] = n]
  <1>0. wire[b] \in Seq(Requested) /\ m \in Requested /\ t \in Tasks /\ m.target \in Statuses
    <2>1. wire[b] \in Seq(Requested) /\ m \in Requested
      BY DEF BoardInv, BoardTypes
    <2> QED
      BY <2>1 DEF Requested
  <1>1. /\ Board!SetStatus(t, m.target)
        /\ gesture' = [Board!Overridden(t) EXCEPT ![b] = gesture[b]]
        /\ UNCHANGED <<tab, orphans>>
    BY DEF Board!Stores
  <1>2. wire' = [wire EXCEPT ![b] = w]
    BY <1>0 DEF Board!Stores, Board!Staged, BoardInv, BoardTypes
  <1>3. n \in Requested /\ n.task = t /\ n.target = m.target
    BY <1>0 DEF Requested
  <1>4. /\ w \in Seq(Requested) /\ Len(w) = Len(wire[b]) /\ w[i] = n
        /\ \A j \in 1 .. Len(wire[b]) : j # i => w[j] = wire[b][j]
    BY <1>0, <1>3, Replacing
  <1>5. Ledger' /\ status'[t] = m.target /\ \A u \in Tasks \ {t} : status'[u] = status[u]
    BY <1>0, <1>1, LedgerStep DEF BoardInv
  <1>6. /\ gesture'[b] = gesture[b]
        /\ \A c \in Tabs \ {b} : gesture'[c] = [gesture[c] EXCEPT ![t] = NoTask]
        /\ DOMAIN gesture' = Tabs
    BY <1>1 DEF Board!Overridden
  <1> HIDE DEF n, w
  <1>7. /\ wire'[b] = w /\ \A c \in Tabs \ {b} : wire'[c] = wire[c]
        /\ wire' \in [Tabs -> Seq(Requested)]
    BY <1>2, <1>4 DEF BoardInv, BoardTypes
  <1>8. ASSUME NEW c \in Tabs \ {b}
        PROVE  /\ gesture'[c] \in [Tasks -> Statuses \cup {NoTask}]
               /\ Gestures(status', tab[c], wire[c], gesture'[c])
    <2>1. /\ tab[c] \in Boards /\ wire[c] \in Seq(Requested)
          /\ gesture[c] \in [Tasks -> Statuses \cup {NoTask}]
          /\ Gestures(status, tab[c], wire[c], gesture[c])
      BY DEF BoardInv, BoardTypes
    <2>2. status \in [Tasks -> Statuses] /\ status' \in [Tasks -> Statuses]
      BY <1>5 DEF BoardInv, Ledger
    <2>3. PICK st \in [Tasks -> Statuses], st_ \in [Tasks -> Statuses], v \in Boards,
               wc \in Seq(Requested), g \in [Tasks -> Statuses \cup {NoTask}] :
             st = status /\ st_ = status' /\ v = tab[c] /\ wc = wire[c] /\ g = gesture[c]
      BY <2>1, <2>2
    <2>4. Gestures(st, v, wc, g) /\ \A u \in Tasks \ {t} : st_[u] = st[u]
      BY <1>0, <1>5, <1>6, <2>1, <2>3
    <2>5. /\ [g EXCEPT ![t] = NoTask] \in [Tasks -> Statuses \cup {NoTask}]
          /\ Gestures(st_, v, wc, [g EXCEPT ![t] = NoTask])
      BY <1>0, <2>4, Overriding
    <2> QED
      BY <1>0, <1>5, <1>6, <2>3, <2>5
  <1>9. Wires(tab[b], w)
    <2>1. \A j \in 1 .. Len(w) : w[j].task = wire[b][j].task
      BY <1>3, <1>4
    <2>2. Wires(tab[b], wire[b])
      BY DEF BoardInv
    <2> QED
      BY <1>4, <2>1, <2>2 DEF Wires
  <1>10. Gestures(status', tab[b], w, gesture[b])
    <2>1. SUFFICES ASSUME NEW u \in Tasks, gesture[b][u] # NoTask
                   PROVE  /\ tab[b].loop[u] = Board!NoLoop => status'[u] = gesture[b][u]
                          /\ tab[b].loop[u] # Board!NoLoop => gesture[b][u] = tab[b].loop[u].target
                          /\ \A j \in 1 .. Len(w) :
                                w[j].task = u /\ w[j].stage = "stored" => status'[u] = w[j].target
      BY DEF Gestures
    <2>2. CASE u = t
      <3>1. tab[b].loop[t] # Board!NoLoop
        BY <1>0 DEF BoardInv, Wires
      <3>2. \A j \in 1 .. Len(w) : w[j].task = t => j = i
        BY <1>3, <1>4, <1>9 DEF Wires
      <3> QED
        BY <1>3, <1>4, <1>5, <2>1, <2>2, <3>1, <3>2 DEF BoardInv, Gestures
    <2>3. CASE u # t
      <3>1. status'[u] = status[u]
        BY <1>5, <2>3
      <3>2. \A j \in 1 .. Len(w) : w[j].task = u => w[j] = wire[b][j] /\ j \in 1 .. Len(wire[b])
        BY <1>3, <1>4, <2>3
      <3> QED
        BY <2>1, <3>1, <3>2 DEF BoardInv, Gestures
    <2> QED
      BY <2>2, <2>3
  <1>11. gesture' \in [Tabs -> [Tasks -> Statuses \cup {NoTask}]]
    <2>1. gesture[b] \in [Tasks -> Statuses \cup {NoTask}]
      BY DEF BoardInv, BoardTypes
    <2>2. gesture' = [c \in Tabs |-> gesture'[c]]
      BY <1>1 DEF Board!Overridden
    <2> QED
      BY <1>6, <1>8, <2>1, <2>2
  <1>12. BoardTypes'
    BY <1>1, <1>7, <1>11 DEF BoardInv, BoardTypes
  <1>13. ASSUME NEW c \in Tabs
         PROVE  /\ PageTrue(tab'[c]) /\ Wires(tab'[c], wire'[c])
                /\ Gestures(status', tab'[c], wire'[c], gesture'[c])
    <2>1. CASE c = b
      BY <1>1, <1>6, <1>7, <1>9, <1>10, <2>1 DEF BoardInv
    <2>2. CASE c # b
      BY <1>1, <1>7, <1>8, <2>2 DEF BoardInv
    <2> QED
      BY <2>1, <2>2
  <1> QED
    BY <1>5, <1>12, <1>13 DEF BoardInv

(* A request is refused, or nobody hears of it.                             *)
LEMMA FailsStep ==
    ASSUME Board!BoardAssumption, BoardInv, NEW b \in Tabs, NEW i \in 1 .. Len(wire[b]),
           Board!Refuses(b, i) \/ Board!Loses(b, i)
    PROVE  BoardInv'
  <1> DEFINE m == wire[b][i]
             n == [m EXCEPT !.stage = "failed"]
             w == [wire[b] EXCEPT ![i] = n]
  <1>0. wire[b] \in Seq(Requested) /\ m \in Requested
    BY DEF BoardInv, BoardTypes
  <1>1. /\ UNCHANGED <<status, finished, told>> /\ orphans' \subseteq Requested
        /\ tab' = [tab EXCEPT ![b] = tab[b]] /\ gesture' = [gesture EXCEPT ![b] = gesture[b]]
    BY <1>0 DEF Board!Refuses, Board!Loses, Board!tasksVars, BoardInv, BoardTypes
  <1>2. wire' = [wire EXCEPT ![b] = w]
    BY <1>0 DEF Board!Refuses, Board!Loses, Board!Staged, BoardInv, BoardTypes
  <1>3. n \in Requested /\ n.task = m.task /\ n.stage = "failed"
    BY <1>0 DEF Requested
  <1>4. /\ w \in Seq(Requested) /\ Len(w) = Len(wire[b]) /\ w[i] = n
        /\ \A j \in 1 .. Len(wire[b]) : j # i => w[j] = wire[b][j]
    BY <1>0, <1>3, Replacing
  <1> HIDE DEF n, w
  <1>5. Wires(tab[b], w)
    <2>1. \A j \in 1 .. Len(w) : w[j].task = wire[b][j].task
      BY <1>3, <1>4
    <2>2. Wires(tab[b], wire[b])
      BY DEF BoardInv
    <2> QED
      BY <1>4, <2>1, <2>2 DEF Wires
  <1>6. Gestures(status, tab[b], w, gesture[b])
    BY <1>3, <1>4 DEF BoardInv, Gestures
  <1> QED
    BY <1>1, <1>2, <1>4, <1>5, <1>6, PageStep DEF BoardInv, BoardTypes

(* An answer is taken off the wire, and its card is at rest.                *)
LEMMA TakingOff ==
    ASSUME NEW v \in Boards, NEW w \in Seq(Requested), NEW i \in 1 .. Len(w), Wires(v, w),
           NEW q \in Boards, q.loop = [v.loop EXCEPT ![w[i].task] = Board!NoLoop],
           NEW st, NEW g, NEW g_, Gestures(st, v, w, g),
           \A u \in Tasks \ {w[i].task} : g_[u] = g[u],
           g_[w[i].task] # NoTask => st[w[i].task] = g_[w[i].task]
    PROVE  LET r == Board!RemoveAt(w, i)
           IN  r \in Seq(Requested) /\ Wires(q, r) /\ Gestures(st, q, r, g_)
  <1> DEFINE r == Board!RemoveAt(w, i)
             t == w[i].task
  <1>1. /\ r \in Seq(Requested) /\ Len(r) = Len(w) - 1
        /\ \A j \in 1 .. Len(r) : r[j] = IF j < i THEN w[j] ELSE w[j + 1]
    BY OneOut
  <1> HIDE DEF r
  <1>2. t \in Tasks /\ Len(w) \in Nat
    <2>1. w[i] \in Requested /\ Len(w) \in Nat
      OBVIOUS
    <2> QED
      BY <2>1 DEF Requested
  <1>3. /\ q.loop[t] = Board!NoLoop
        /\ \A u \in Tasks \ {t} : q.loop[u] = v.loop[u]
    BY <1>2 DEF Boards
  <1>4. ASSUME NEW j \in 1 .. Len(r)
        PROVE  \E k \in 1 .. Len(w) : k # i /\ r[j] = w[k] /\ (k = IF j < i THEN j ELSE j + 1)
    BY <1>1, <1>2
  <1>5. ASSUME NEW k \in 1 .. Len(w), k # i
        PROVE  \E j \in 1 .. Len(r) : r[j] = w[k]
    <2>1. CASE k < i
      <3>1. k \in 1 .. Len(r) /\ r[k] = w[k]
        BY <1>1, <1>2, <2>1
      <3> QED
        BY <3>1
    <2>2. CASE k > i
      <3>1. k - 1 \in 1 .. Len(r) /\ r[k - 1] = w[k]
        BY <1>1, <1>2, <2>2
      <3> QED
        BY <3>1
    <2> QED
      BY <1>5, <2>1, <2>2
  <1>6. \A j \in 1 .. Len(r) : r[j].task # t
    BY <1>4 DEF Wires
  <1>7. Wires(q, r)
    <2>1. ASSUME NEW j \in 1 .. Len(r), NEW k \in 1 .. Len(r), r[j].task = r[k].task
          PROVE  j = k
      <3>1. PICK x \in 1 .. Len(w) : r[j] = w[x] /\ (x = IF j < i THEN j ELSE j + 1) /\ x # i
        BY <1>4
      <3>2. PICK y \in 1 .. Len(w) : r[k] = w[y] /\ (y = IF k < i THEN k ELSE k + 1) /\ y # i
        BY <1>4
      <3>3. x = y
        BY <2>1, <3>1, <3>2 DEF Wires
      <3> QED
        BY <3>1, <3>2, <3>3
    <2>2. ASSUME NEW u \in Tasks
          PROVE  q.loop[u] # Board!NoLoop <=> \E j \in 1 .. Len(r) : r[j].task = u
      <3>1. CASE u = t
        BY <1>3, <1>6, <3>1
      <3>2. CASE u # t
        <4>1. v.loop[u] # Board!NoLoop <=> \E k \in 1 .. Len(w) : w[k].task = u
          BY DEF Wires
        <4>2. (\E k \in 1 .. Len(w) : w[k].task = u) => \E j \in 1 .. Len(r) : r[j].task = u
          <5>1. SUFFICES ASSUME NEW k \in 1 .. Len(w), w[k].task = u
                         PROVE  \E j \in 1 .. Len(r) : r[j].task = u
            OBVIOUS
          <5>2. PICK j \in 1 .. Len(r) : r[j] = w[k]
            BY <1>5, <3>2, <5>1
          <5> QED
            BY <5>1, <5>2
        <4>3. (\E j \in 1 .. Len(r) : r[j].task = u) => \E k \in 1 .. Len(w) : w[k].task = u
          BY <1>4
        <4> QED
          BY <1>3, <3>2, <4>1, <4>2, <4>3
      <3> QED
        BY <3>1, <3>2
    <2> QED
      BY <2>1, <2>2 DEF Wires
  <1>8. Gestures(st, q, r, g_)
    <2>1. SUFFICES ASSUME NEW u \in Tasks, g_[u] # NoTask
                   PROVE  /\ q.loop[u] = Board!NoLoop => st[u] = g_[u]
                          /\ q.loop[u] # Board!NoLoop => g_[u] = q.loop[u].target
                          /\ \A j \in 1 .. Len(r) :
                                r[j].task = u /\ r[j].stage = "stored" => st[u] = r[j].target
      BY DEF Gestures
    <2>2. CASE u = t
      BY <1>3, <1>6, <2>1, <2>2
    <2>3. CASE u # t
      <3>1. g_[u] = g[u] /\ q.loop[u] = v.loop[u]
        BY <1>3, <2>3
      <3>2. \A k \in 1 .. Len(w) : w[k].task = u /\ w[k].stage = "stored" => st[u] = w[k].target
        BY <2>1, <3>1 DEF Gestures
      <3>3. \A j \in 1 .. Len(r) : r[j].task = u /\ r[j].stage = "stored" => st[u] = r[j].target
        BY <1>4, <3>2
      <3> QED
        BY <2>1, <3>1, <3>3 DEF Gestures
    <2> QED
      BY <2>2, <2>3
  <1> QED
    BY <1>1, <1>7, <1>8 DEF r

(* The answer to a request: the card's loop ends, or sends what was queued. *)
LEMMA HearsOkStep ==
    ASSUME Board!BoardAssumption, BoardInv, NEW b \in Tabs, NEW i \in 1 .. Len(wire[b]),
           Board!HearsOk(b, i)
    PROVE  BoardInv'
  <1> DEFINE w == wire[b]
             m == w[i]
             t == m.task
             l == tab[b].loop[t]
  <1>0. /\ w \in Seq(Requested) /\ tab[b] \in Boards /\ PageTrue(tab[b]) /\ Wires(tab[b], w)
        /\ gesture[b] \in [Tasks -> Statuses \cup {NoTask}]
        /\ Gestures(status, tab[b], w, gesture[b])
    BY DEF BoardInv, BoardTypes
  <1>1. m \in Requested /\ t \in Tasks /\ m.target \in Statuses /\ m.stage = "stored"
    <2>1. m \in Requested
      BY <1>0
    <2> QED
      BY <2>1 DEF Board!HearsOk, Requested
  <1>2. l # Board!NoLoop /\ l.target # NoTask /\ l \in Loops
    BY <1>0, <1>1 DEF Wires, PageTrue, Card, Boards
  <1>3. UNCHANGED <<status, finished, told>> /\ UNCHANGED Board!tasksVars
    BY DEF Board!HearsOk, Board!tasksVars
  <1>4. PICK v : v = [tab[b] EXCEPT !.acked = [tab[b].acked EXCEPT ![t] = m.target]]
    OBVIOUS
  <1>5. /\ v \in Boards /\ v.acked = [tab[b].acked EXCEPT ![t] = m.target]
        /\ v.shown = tab[b].shown /\ v.column = tab[b].column /\ v.gone = tab[b].gone
        /\ v.loop = tab[b].loop /\ v.pane = tab[b].pane /\ v.paneDone = tab[b].paneDone
    BY <1>0, <1>1, <1>4 DEF Boards
  <1>6. Column(v) /\ v.acked[t] = m.target /\ \A u \in Tasks \ {t} : Card(v, u)
    BY <1>0, <1>1, <1>5 DEF PageTrue, Column, Card, Boards
  <1>7. v = [tab[b] EXCEPT !.acked[t] = m.target]
    BY <1>4
  <1>8. CASE l.target = m.target /\ Board!Reload(b, v.pane) /\ Board!Abandons(b, {t})
    <2>1. gesture[b][t] # NoTask => status[t] = gesture[b][t]
      BY <1>0, <1>1, <1>2, <1>8 DEF Gestures
    <2>2. v.pane \in Panes \cup {NoTask} /\ {t} \in SUBSET Tasks
      BY <1>1, <1>5 DEF Boards
    <2> QED
      BY <1>3, <1>8, <2>1, <2>2, Reloading
  <1>9. CASE /\ l.target = m.target /\ ~Board!PaneLies(v, t, m.target)
             /\ tab' = [tab EXCEPT ![b] = Board!Settle(v, t, m.target)]
             /\ wire' = [wire EXCEPT ![b] = Board!RemoveAt(@, i)]
             /\ UNCHANGED <<orphans, gesture>>
    <2> DEFINE q == Board!Settle(v, t, m.target)
               r == Board!RemoveAt(w, i)
    <2>1. /\ q \in Boards /\ PageTrue(q)
          /\ q.loop = [tab[b].loop EXCEPT ![t] = Board!NoLoop]
      <3>1. PICK s \in Statuses, u \in Tasks : s = m.target /\ u = t
        BY <1>1
      <3>2. /\ v.acked[u] = s /\ ~Board!PaneLies(v, u, s) /\ q = Board!Settle(v, u, s)
            /\ Column(v) /\ \A x \in Tasks \ {u} : Card(v, x)
        BY <1>6, <1>9, <3>1
      <3> HIDE DEF q
      <3>3. q \in Boards /\ PageTrue(q) /\ q.loop = [v.loop EXCEPT ![u] = Board!NoLoop]
        BY <1>5, <3>2, Settling
      <3> QED
        BY <1>5, <3>1, <3>3
    <2>2. tab' = [tab EXCEPT ![b] = q] /\ wire' = [wire EXCEPT ![b] = r]
      BY <1>9 DEF BoardInv, BoardTypes
    <2> HIDE DEF q
    <2>3. gesture[b][t] # NoTask => status[t] = gesture[b][t]
      BY <1>0, <1>1, <1>2, <1>9 DEF Gestures
    <2>4. r \in Seq(Requested) /\ Wires(q, r) /\ Gestures(status, q, r, gesture[b])
      BY <1>0, <1>1, <2>1, <2>3, TakingOff
    <2> HIDE DEF r
    <2>5. gesture' = [gesture EXCEPT ![b] = gesture[b]] /\ orphans' \subseteq Requested
      BY <1>9 DEF BoardInv, BoardTypes
    <2> QED
      BY <1>0, <1>3, <2>1, <2>2, <2>4, <2>5, PageStep
  <1>10. CASE /\ l.target # m.target
              /\ tab' = [tab EXCEPT ![b] = v]
              /\ wire' = [wire EXCEPT ![b][i] = Board!Post(t, l.target)]
              /\ UNCHANGED <<orphans, gesture>>
    <2> DEFINE n == Board!Post(t, l.target)
               r == [w EXCEPT ![i] = n]
    <2>1. n \in Requested /\ n.task = t /\ n.stage = "sent"
      BY <1>1, <1>2 DEF Board!Post, Requested, Loops
    <2>2. /\ r \in Seq(Requested) /\ Len(r) = Len(w) /\ r[i] = n
          /\ \A j \in 1 .. Len(w) : j # i => r[j] = w[j]
      BY <1>0, <2>1, Replacing
    <2>3. wire' = [wire EXCEPT ![b] = r]
      BY <1>10 DEF BoardInv, BoardTypes
    <2> HIDE DEF n, r
    <2>4. PageTrue(v)
      <3>1. Card(v, t)
        BY <1>2, <1>5 DEF Card
      <3> QED
        BY <1>6, <3>1 DEF PageTrue
    <2>5. Wires(v, r)
      <3>1. \A j \in 1 .. Len(r) : r[j].task = w[j].task
        BY <2>1, <2>2
      <3> QED
        BY <1>0, <1>5, <2>2, <3>1 DEF Wires
    <2>6. Gestures(status, v, r, gesture[b])
      BY <1>0, <1>5, <2>1, <2>2 DEF Gestures
    <2>7. gesture' = [gesture EXCEPT ![b] = gesture[b]] /\ orphans' \subseteq Requested
      BY <1>10 DEF BoardInv, BoardTypes
    <2> QED
      BY <1>0, <1>3, <1>5, <1>10, <2>2, <2>3, <2>4, <2>5, <2>6, <2>7, PageStep
  <1> QED
    <2>1. v.loop[t] = l
      BY <1>5
    <2> QED
      BY <1>2, <1>7, <1>8, <1>9, <1>10, <2>1 DEF Board!HearsOk

(* A refusal: the card goes back to what was last acknowledged.             *)
LEMMA HearsFailureStep ==
    ASSUME Board!BoardAssumption, BoardInv, NEW b \in Tabs, NEW i \in 1 .. Len(wire[b]),
           Board!HearsFailure(b, i)
    PROVE  BoardInv'
  <1> DEFINE w == wire[b]
             t == w[i].task
             v == tab[b]
  <1>0. /\ w \in Seq(Requested) /\ v \in Boards /\ PageTrue(v) /\ Wires(v, w)
        /\ gesture[b] \in [Tasks -> Statuses \cup {NoTask}]
        /\ Gestures(status, v, w, gesture[b])
    BY DEF BoardInv, BoardTypes
  <1>1. t \in Tasks /\ v.acked[t] \in Statuses
    <2>1. w[i] \in Requested
      BY <1>0
    <2> QED
      BY <1>0, <2>1 DEF Requested, Boards
  <1>3. UNCHANGED <<status, finished, told>> /\ UNCHANGED Board!tasksVars
    BY DEF Board!HearsFailure, Board!tasksVars
  <1>4. CASE Board!Reload(b, v.pane) /\ Board!Abandons(b, {})
    <2>1. v.pane \in Panes \cup {NoTask} /\ {} \in SUBSET Tasks
      BY <1>0 DEF Boards
    <2> QED
      BY <1>3, <1>4, <2>1, Reloading
  <1>5. CASE /\ ~Board!PaneLies(v, t, v.acked[t])
             /\ tab' = [tab EXCEPT ![b] = Board!Rollback(v, t)]
             /\ wire' = [wire EXCEPT ![b] = Board!RemoveAt(@, i)]
             /\ gesture' = [gesture EXCEPT ![b][t] = NoTask]
             /\ UNCHANGED orphans
    <2> DEFINE q == Board!Settle(v, t, v.acked[t])
               r == Board!RemoveAt(w, i)
               g == [gesture[b] EXCEPT ![t] = NoTask]
    <2>1. /\ q \in Boards /\ PageTrue(q)
          /\ q.loop = [v.loop EXCEPT ![t] = Board!NoLoop]
      BY <1>0, <1>1, <1>5, Settling DEF PageTrue
    <2>2. /\ tab' = [tab EXCEPT ![b] = q] /\ wire' = [wire EXCEPT ![b] = r]
          /\ gesture' = [gesture EXCEPT ![b] = g]
      BY <1>5 DEF BoardInv, BoardTypes, Board!Rollback
    <2> HIDE DEF q
    <2>3. /\ g \in [Tasks -> Statuses \cup {NoTask}] /\ g[t] = NoTask
          /\ \A u \in Tasks \ {t} : g[u] = gesture[b][u]
      BY <1>0, <1>1
    <2> HIDE DEF g
    <2>4. r \in Seq(Requested) /\ Wires(q, r) /\ Gestures(status, q, r, g)
      BY <1>0, <1>1, <2>1, <2>3, TakingOff
    <2> HIDE DEF r
    <2>5. orphans' \subseteq Requested
      BY <1>5 DEF BoardInv, BoardTypes
    <2> QED
      BY <1>3, <2>1, <2>2, <2>3, <2>4, <2>5, PageStep
  <1> QED
    BY <1>4, <1>5 DEF Board!HearsFailure

LEMMA BoardInitially ==
    ASSUME Board!BoardAssumption, Board!Init
    PROVE  BoardInv
  <1>1. /\ status \in [Tasks -> Statuses] /\ \A t \in Tasks : status[t] = "backlog"
        /\ finished = <<>>
        /\ told = [t \in Tasks |-> [status |-> "backlog", completed |-> FALSE, sound |-> TRUE]]
    BY DEF Board!Init, Board!TasksInit, Statuses, Board!Statuses
  <1>2. Ledger
    <2>1. \A t \in Tasks : Board!Completed(t) = FALSE
      <3>1. 1 .. Len(finished) = {}
        BY <1>1
      <3> QED
        BY <3>1, Zenon DEF Board!Completed, Board!Contains
    <2>2. ASSUME NEW t \in Tasks
          PROVE  /\ status[t] = "done" <=> Board!Completed(t)
                 /\ told[t] = [status |-> status[t], completed |-> Board!Completed(t),
                               sound |-> TRUE]
      <3>1. told[t] = [status |-> "backlog", completed |-> FALSE, sound |-> TRUE]
        BY <1>1
      <3>2. status[t] = "backlog" /\ "backlog" # "done"
        BY <1>1
      <3> QED
        BY <2>1, <3>1, <3>2, Zenon
    <2>3. finished \in Seq(Tasks) /\ Once(finished) /\ DOMAIN told = Tasks
      BY <1>1 DEF Once
    <2> QED
      BY <1>1, <2>2, <2>3 DEF Ledger, Board!LedgerTells
  <1> DEFINE v == Board!Rendered(NoTask)
  <1>3. v \in Boards /\ PageTrue(v) /\ \A t \in Tasks : v.loop[t] = Board!NoLoop
    BY <1>2, Rendering
  <1>4. /\ tab = [b \in Tabs |-> v] /\ wire = [b \in Tabs |-> <<>>] /\ orphans = {}
        /\ gesture = [b \in Tabs |-> [t \in Tasks |-> NoTask]]
    BY DEF Board!Init
  <1> HIDE DEF v
  <1>5. Wires(v, <<>>) /\ Gestures(status, v, <<>>, [t \in Tasks |-> NoTask])
    BY <1>3 DEF Wires, Gestures
  <1>6. BoardTypes
    BY <1>3, <1>4 DEF BoardTypes
  <1> QED
    BY <1>2, <1>3, <1>4, <1>5, <1>6 DEF BoardInv

LEMMA BoardStep ==
    ASSUME Board!BoardAssumption, BoardInv, [Board!Next]_(Board!vars)
    PROVE  BoardInv'
  <1>1. CASE UNCHANGED Board!vars
    <2>1. UNCHANGED <<status, finished, told, tab, wire, orphans, gesture>>
      BY <1>1 DEF Board!vars, Board!tasksVars, Board!boardVars
    <2> QED
      BY <2>1 DEF BoardInv, BoardTypes, Ledger, Board!LedgerTells, Board!Completed
  <1>2. ASSUME NEW b \in Tabs, NEW t \in Tasks, NEW s \in Statuses, Board!Moves(b, t, s)
        PROVE  BoardInv'
    BY <1>2, MovesStep
  <1>3. ASSUME NEW b \in Tabs, NEW pane \in Panes \cup {NoTask}, Board!Navigates(b, pane)
        PROVE  BoardInv'
    BY <1>3, Reloading DEF Board!Navigates
  <1>4. ASSUME NEW b \in Tabs, NEW i \in DOMAIN wire[b], Board!Answered(b, i) \/ Board!Loses(b, i)
        PROVE  BoardInv'
    <2>1. i \in 1 .. Len(wire[b])
      BY DEF BoardInv, BoardTypes
    <2> QED
      BY <1>4, <2>1, StoresStep, FailsStep, HearsOkStep, HearsFailureStep DEF Board!Answered
  <1> QED
    BY <1>1, <1>2, <1>3, <1>4, ServesStep DEF Board!Next, Statuses

(* The inductive invariant gives what the runs check of the board.          *)
LEMMA BoardPromises ==
    ASSUME Board!BoardAssumption, BoardInv
    PROVE  /\ Board!BoardTypeOK /\ Board!LedgerTells
           /\ Board!CardsHonest /\ Board!PaneHonest /\ Board!LastGestureStored
  <1>1. \A b \in Tabs : /\ tab[b] \in Boards /\ wire[b] \in Seq(Requested)
                        /\ PageTrue(tab[b]) /\ Wires(tab[b], wire[b])
                        /\ Gestures(status, tab[b], wire[b], gesture[b])
    BY DEF BoardInv, BoardTypes
  <1>2. Board!BoardTypeOK
    <2>1. SUFFICES ASSUME NEW b \in Tabs, NEW t \in Tasks
                   PROVE  LET out == {i \in DOMAIN wire[b] : wire[b][i].task = t}
                          IN  IF tab[b].loop[t] = Board!NoLoop THEN out = {}
                              ELSE \E i \in DOMAIN wire[b] : out = {i}
      BY <1>1 DEF Board!BoardTypeOK, Boards, Statuses
    <2>2. DOMAIN wire[b] = 1 .. Len(wire[b])
      BY <1>1
    <2> QED
      BY <1>1, <2>2 DEF Wires
  <1>3. Board!CardsHonest
    BY <1>1 DEF Board!CardsHonest, Board!Quiet, PageTrue, Card
  <1>4. Board!PaneHonest
    BY <1>1 DEF Board!PaneHonest, Board!Quiet, PageTrue, Card, Board!BoardAssumption
  <1>5. Board!LastGestureStored
    BY <1>1 DEF Board!LastGestureStored, Board!Quiet, Gestures
  <1> QED
    BY <1>2, <1>3, <1>4, <1>5 DEF BoardInv, Ledger

LEMMA BoardInvariance == Spec => [](scene = "board" => BoardInv)
  <1> DEFINE Inv == scene = "board" => BoardInv
  <1>1. Init => Inv
    BY BoardInitially, PagesAssumption DEF Init
  <1>2. Inv /\ [Next]_all => Inv'
    <2>1. SUFFICES ASSUME Inv, [Next]_all, scene' = "board" PROVE BoardInv'
      OBVIOUS
    <2>2. scene = "board" /\ [Board!Next]_(Board!vars)
      BY <2>1 DEF Next, all, state, Board!vars, Board!tasksVars, Board!boardVars
    <2> QED
      BY <2>1, <2>2, BoardStep, PagesAssumption
  <1> QED
    BY <1>1, <1>2, PTL DEF Spec

(* A card at rest shows what was acknowledged, an open task never vanishes, *)
(* and the events tell what the tasks table holds, whatever answers, trims, *)
(* rollbacks and other writers cross (services/tasks.py, board.ts).         *)
THEOREM BoardIsHonest == Spec => []BoardHonest
  <1>1. (scene = "board" => BoardInv) => BoardHonest
    BY BoardPromises, PagesAssumption DEF BoardHonest
  <1> QED
    BY <1>1, BoardInvariance, PTL

(* The last gesture on a card is the one that ends up stored, also while an *)
(* unanswered request of the card is still under way (board.ts).            *)
THEOREM GesturesAreStored == Spec => []LastGestureStored
  <1>1. (scene = "board" => BoardInv) => LastGestureStored
    BY BoardPromises, PagesAssumption DEF LastGestureStored
  <1> QED
    BY <1>1, BoardInvariance, PTL

=============================================================================
