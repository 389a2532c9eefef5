------------------------------ MODULE Sessions ------------------------------
(***************************************************************************)
(* What the protocol servers (internal/servers/...) have in common: a      *)
(* server whose loop keeps a table of sessions, the goroutine of each      *)
(* session, and the path that sessions join as readers or as publisher.    *)
(*                                                                         *)
(* The path's own behaviour is module Path; here it is what a session sees *)
(* of it: AddReader and AddPublisher are answered some time after they are *)
(* called, and the path closes sessions on its own account, by cancelling  *)
(* their context, when its stream goes away or its publisher is replaced.  *)
(***************************************************************************)
EXTENDS Naturals, FiniteSets

CONSTANTS
    Conns,      \* connections or sessions
    Protocols,  \* the protocols a behaviour chooses from
    Other,      \* a publisher that comes through another server
    None

ASSUME SessionsAssumption ==
    /\ IsFiniteSet(Conns)
    /\ {None, Other} \cap Conns = {} /\ None # Other
    /\ Protocols \subseteq {"rtmp", "srt", "rtsp", "moq", "webrtc", "degrade"}

VARIABLES
    proto,      \* the protocol of the server, chosen once
    server,     \* "running", "closing" (context cancelled), "closed" (Close returned)
    table,      \* the sessions in the server's map
    phase,      \* where the goroutine of a session is
    ctxDone,    \* its context is cancelled
    role,       \* state of the API item: "idle", "read", "publish"
    publisher,  \* path: its publisher
    readers     \* path: its readers

serverVars == <<proto, server, table>>
pathVars == <<publisher, readers>>
sessionsVars == <<serverVars, pathVars, phase, ctxDone, role>>

Phases == {"none", "accepted", "request", "handshake", "connect", "addReader", "addPublisher",
           "joined", "added", "reading", "publishing", "idle", "leaving", "closing",
           "gone", "toPrePlay", "toPlay", "toPreRecord", "toRecord"}

SessionsTypeOK ==
    /\ proto \in Protocols
    /\ server \in {"running", "closing", "closed"}
    /\ table \subseteq Conns
    /\ phase \in [Conns -> Phases]
    /\ ctxDone \in [Conns -> BOOLEAN]
    /\ role \in [Conns -> {"idle", "read", "publish"}]
    /\ publisher \in Conns \cup {None, Other}
    /\ readers \subseteq Conns

SessionsInit ==
    /\ proto \in Protocols
    /\ server = "running"
    /\ table = {}
    /\ phase = [c \in Conns |-> "none"]
    /\ ctxDone = [c \in Conns |-> FALSE]
    /\ role = [c \in Conns |-> "idle"]
    /\ publisher = None
    /\ readers = {}

-----------------------------------------------------------------------------
(* Seeded fault: the context does not end with the server's.               *)
Cancelled_OwnContext(c) == ctxDone[c]

(* A session's context is a child of the server's.                         *)
Cancelled(c) == ctxDone[c] \/ server # "running"
Alive(c) == phase[c] \notin {"none", "gone"}
InPath(c) == c \in readers \/ c = publisher

Cancel(S) == ctxDone' = [c \in Conns |-> ctxDone[c] \/ c \in S]
Goto(c, p) == phase' = [phase EXCEPT ![c] = p]
SetRole(c, r) == role' = [role EXCEPT ![c] = r]
At(c, p) == phase[c] = p

(* Seeded fault: the readers are forgotten without being closed.           *)
SetNotAvailable_KeepsOpen(closed) == readers' = {} /\ Cancel(closed)

(* path.executeSetNotAvailable: every reader leaves the path and is closed.*)
SetNotAvailable(closed) ==
    /\ readers' = {}
    /\ Cancel(readers \cup closed)

(* path.doAddReader: the path has a stream, or the call is refused, for    *)
(* lack of a stream, of permission or of room.                             *)
PathTakesReader(c) ==
    /\ publisher # None
    /\ readers' = readers \cup {c}
    /\ UNCHANGED <<publisher, ctxDone>>
PathRefuses == UNCHANGED <<publisher, readers, ctxDone>>

(* path.doAddPublisher: a publisher that is there is closed first          *)
(* (overridePublisher), and so are the readers of its stream.              *)
PathTakesPublisher(c) ==
    /\ publisher' = c
    /\ SetNotAvailable({publisher} \cap Conns)

(* path.doRemoveReader, doRemovePublisher: nothing when the author is not  *)
(* there any more.  The caller closes the sessions S besides.              *)
PathForgetsAndCloses(c, S) ==
    IF publisher = c
      THEN publisher' = None /\ SetNotAvailable(S)
      ELSE readers' = readers \ {c} /\ Cancel(S) /\ UNCHANGED publisher
PathForgets(c) == PathForgetsAndCloses(c, {})

(* A publisher of another server comes and goes.                           *)
OtherPublishes ==
    /\ publisher' = Other
    /\ publisher # Other
    /\ SetNotAvailable({publisher} \cap Conns)
    /\ UNCHANGED <<serverVars, phase, role>>

OtherLeaves ==
    /\ publisher = Other
    /\ publisher' = None
    /\ SetNotAvailable({})
    /\ UNCHANGED <<serverVars, phase, role>>

-----------------------------------------------------------------------------
(* The server's loop.  A call of the loop is a rendezvous that gives up    *)
(* when the server's context is cancelled.                                 *)

(* A client connects: its listener or handler calls the loop.              *)
Arrives(c) ==
    /\ server = "running" /\ At(c, "none")
    /\ Goto(c, "accepted")
    /\ UNCHANGED <<serverVars, pathVars, ctxDone, role>>

LoopTakes(c, next) ==
    /\ At(c, "accepted")
    /\ IF server = "running"
         THEN table' = table \cup {c} /\ Goto(c, next)
         ELSE Goto(c, "gone") /\ UNCHANGED table
    /\ UNCHANGED <<proto, server, pathVars, ctxDone, role>>

(* The session's goroutine has ended: closeConn, closeSession.             *)
LoopForgets(c) ==
    /\ At(c, "closing")
    /\ table' = IF server = "running" THEN table \ {c} ELSE table
    /\ Goto(c, "gone")
    /\ UNCHANGED <<proto, server, pathVars, ctxDone, role>>

(* A kick removes the session from the table and cancels it.               *)
LoopKicks(c) ==
    /\ server = "running" /\ c \in table
    /\ table' = table \ {c}
    /\ Cancel({c})
    /\ UNCHANGED <<proto, server, pathVars, phase, role>>

(* Server.Close, or an error of the listener: the server's context.        *)
StopServer ==
    /\ server = "running"
    /\ server' = "closing"
    /\ UNCHANGED <<proto, table, pathVars, phase, ctxDone, role>>

(* Close returns when every goroutine of the server has.                   *)
ServerEnds ==
    /\ server = "closing"
    /\ \A c \in Conns : ~Alive(c)
    /\ server' = "closed"
    /\ UNCHANGED <<proto, table, pathVars, phase, ctxDone, role>>

-----------------------------------------------------------------------------
(* The goroutine of a session, in the order its function returns.          *)

(* A call of the path manager is answered; the session goes on to ok or,   *)
(* refused, to no.                                                         *)
AnswerReader(c, ok, no) ==
    /\ At(c, "addReader")
    /\ \/ PathTakesReader(c) /\ Goto(c, ok)
       \/ PathRefuses /\ Goto(c, no)
    /\ UNCHANGED <<serverVars, role>>

AnswerPublisher(c, ok, no) ==
    /\ At(c, "addPublisher")
    /\ \/ PathTakesPublisher(c) /\ Goto(c, ok)
       \/ PathRefuses /\ Goto(c, no)
    /\ UNCHANGED <<serverVars, role>>

(* The deferred RemoveReader or RemovePublisher.                           *)
LeavesPath(c) ==
    /\ At(c, "leaving")
    /\ PathForgets(c)
    /\ Goto(c, "closing")
    /\ UNCHANGED <<serverVars, role>>

Moves(c, from, next) ==
    /\ At(c, from)
    /\ Goto(c, next)
    /\ UNCHANGED <<serverVars, pathVars, ctxDone>>
=============================================================================
