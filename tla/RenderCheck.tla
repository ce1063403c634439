----------------------------- MODULE RenderCheck -----------------------------
(***************************************************************************)
(* The render gate (app/services/render_check.py): a throwaway browser     *)
(* loads the built page and its notifications arrive, in order, on one     *)
(* socket, between the answers to the check's own calls. The page may be   *)
(* slow, noisy, broken or never finish; the check has one deadline.        *)
(***************************************************************************)
EXTENDS Integers, Sequences, FiniteSets

CONSTANTS MaxEvents,   \* MAX_EVENTS: diagnostics kept
          MaxUrls,     \* MAX_URLS: URLs of executed scripts kept
          Others,      \* the URLs of the other scripts a page may run
          Noise,       \* bound: diagnostics, and other messages, a page sends
          Waiting      \* bound: notifications on the socket

CheckAssumption ==
  /\ MaxEvents \in Nat /\ MaxUrls \in Nat /\ IsFiniteSet(Others)
  /\ Others \cap {"run", "load", "error", "log", "commit", "committed", "origin"} = {}

VARIABLES phase,     \* where console_errors is
          socket,    \* what the browser sent and the check has not read
          loaded, events, dropped, executed,   \* the _Browser's fields
          page,      \* what the page has done: "load", and the scripts that ran
          errors, chatter,   \* what the page has complained of, or just logged
          opaque,    \* the response carried the sandbox policy
          judged,    \* what the page had done when window.origin was answered
          verdict

vars == <<phase, socket, loaded, events, dropped, executed, page,
          errors, chatter, opaque, judged, verdict>>

\* Every script with a URL; "run" stands for the artifact's.
Scripts == {"run"} \cup Others

Browser == <<loaded, events, dropped, executed>>
Page    == <<page, errors, chatter, opaque>>
Unjudged == [page |-> {}, errors |-> 0]

(* __init__: about:blank was showing, and may have been seen to finish.    *)
Init ==
  /\ phase = "start" /\ verdict = "none"
  /\ socket \in {<<>>, <<"load">>}
  /\ loaded = FALSE /\ events = 0 /\ dropped = 0
  /\ executed = {}
  /\ page = {} /\ errors = 0 /\ chatter = 0
  /\ opaque \in BOOLEAN /\ judged = Unjudged

Says(m) == Len(socket) < Waiting /\ socket' = Append(socket, m)

-----------------------------------------------------------------------------
(* The page, once the navigation is committed. A script runs before or     *)
(* after the document has loaded, and before or after the others.          *)
Does(what) ==
  /\ "commit" \in page /\ what \notin page
  /\ page' = page \cup {what} /\ Says(what)
  /\ UNCHANGED <<phase, Browser, errors, chatter, opaque, judged, verdict>>

Complains ==
  /\ "commit" \in page /\ errors < Noise
  /\ errors' = errors + 1 /\ Says("error")
  /\ UNCHANGED <<phase, Browser, page, chatter, opaque, judged, verdict>>

Chats ==
  /\ "commit" \in page /\ chatter < Noise
  /\ chatter' = chatter + 1 /\ Says("log")
  /\ UNCHANGED <<phase, Browser, page, errors, opaque, judged, verdict>>

-----------------------------------------------------------------------------
(* _record: one notification to the channel that is asked for it. Only     *)
(* what _errors_from can turn into an error counts against the cap of the  *)
(* diagnostics; every script counts against that of the URLs. `fetched`    *)
(* only chooses the words of a refusal and is left out.                    *)
(* Mutant: every notification counts.                                      *)
CountsAll(m)    == m \in {"error", "log"}
IsDiagnostic(m) == m = "error"

Record(m) ==
  /\ loaded' = (loaded \/ m = "load")
  /\ executed' = IF m \in Scripts /\ Cardinality(executed) < MaxUrls
                 THEN executed \cup {m} ELSE executed
  /\ IF ~IsDiagnostic(m) THEN UNCHANGED <<events, dropped>>
     ELSE IF events < MaxEvents THEN events' = events + 1 /\ UNCHANGED dropped
     ELSE dropped' = dropped + 1 /\ UNCHANGED events

Answers == {"committed", "origin"}

(* call and pump: notifications before the awaited answer are recorded.    *)
Reads ==
  /\ phase \in {"navigate", "load", "settle", "origin"}
  /\ socket # <<>> /\ Head(socket) \notin Answers
  /\ Record(Head(socket)) /\ socket' = Tail(socket)
  /\ UNCHANGED <<phase, Page, judged, verdict>>

Navigates ==
  /\ phase = "start" /\ phase' = "navigate"
  /\ UNCHANGED <<socket, Browser, Page, judged, verdict>>

Commits ==
  /\ phase = "navigate" /\ "commit" \notin page
  /\ page' = {"commit"} /\ Says("committed")
  /\ UNCHANGED <<phase, Browser, errors, chatter, opaque, judged, verdict>>

(* begin_navigation forgets the document shown before this one.            *)
Forgets     == loaded' = FALSE

Begins ==
  /\ phase = "navigate" /\ socket # <<>> /\ Head(socket) = "committed"
  /\ socket' = Tail(socket) /\ phase' = "load"
  /\ Forgets
  /\ UNCHANGED <<events, dropped, executed, Page, judged, verdict>>

(* wait_for_load, then the settle interval from there. *)
Settles ==
  /\ phase = "load" /\ loaded
  /\ phase' = "settle"
  /\ UNCHANGED <<socket, Browser, Page, judged, verdict>>

AsksOrigin ==
  /\ phase = "settle" /\ phase' = "origin"
  /\ UNCHANGED <<socket, Browser, Page, judged, verdict>>

OriginAnswered ==
  /\ phase = "origin" /\ judged = Unjudged
  /\ Says("origin")
  /\ judged' = [page |-> page, errors |-> errors]
  /\ UNCHANGED <<phase, Browser, Page, verdict>>

HasRun     == "run" \in executed

Judges ==
  /\ phase = "origin" /\ socket # <<>> /\ Head(socket) = "origin"
  /\ verdict' = IF ~opaque THEN "unavailable"
                ELSE IF events = 0 /\ dropped = 0 /\ HasRun THEN "clean" ELSE "errors"
  /\ phase' = "closed" /\ socket' = <<>>
  /\ UNCHANGED <<Browser, Page, judged>>

(* The deadline, or a browser that stops answering. *)
GivesUp ==
  /\ phase # "closed"
  /\ phase' = "closed" /\ verdict' = "unavailable" /\ socket' = <<>>
  /\ UNCHANGED <<Browser, Page, judged>>

Next ==
  \/ phase # "closed" /\ ((\E what \in Scripts \cup {"load"} : Does(what))
                          \/ Complains \/ Chats)
  \/ Reads \/ Navigates \/ Commits \/ Begins \/ Settles \/ AsksOrigin
  \/ OriginAnswered \/ Judges \/ GivesUp

Spec == Init /\ [][Next]_vars

-----------------------------------------------------------------------------
(* A page is called clean only if its own document had loaded, its         *)
(* artifact had run on an opaque origin and nothing had complained by the  *)
(* time it was judged; "could not check" never reads as "clean".           *)
CleanIsEarned ==
  verdict = "clean" => /\ opaque /\ {"load", "run"} \subseteq judged.page
                       /\ judged.errors = 0

(* A page is refused for what it did: it was judged after it had loaded,   *)
(* and it complained, did not run the artifact, or ran as many other        *)
(* scripts as the check remembers. However much it logs besides, a correct  *)
(* page with fewer scripts is not refused.                                  *)
RefusalIsEarned ==
  verdict = "errors" => /\ "load" \in judged.page
                        /\ \/ judged.errors > 0 \/ "run" \notin judged.page
                           \/ Cardinality(judged.page \cap Others) >= MaxUrls

(* Nothing the gate depends on can be displaced by a flood of a channel     *)
(* with a cap (_Browser.__init__). The code does not keep this: the URLs    *)
(* of executed scripts have a cap, and the gate depends on one of them.     *)
NothingDisplaced ==
  verdict = "errors" => judged.errors > 0 \/ "run" \notin judged.page
=============================================================================
