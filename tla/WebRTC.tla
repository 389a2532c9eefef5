------------------------------- MODULE WebRTC -------------------------------
(***************************************************************************)
(* The WebRTC server (internal/servers/webrtc).  A session is created by   *)
(* the handler of an HTTP POST, which then waits for the session's answer; *)
(* the session goes on to connect its peer connection, to join the path    *)
(* and to serve it.  Beside it run the handlers of PATCH requests, which   *)
(* wait for the goroutine that takes remote candidates, and the handlers   *)
(* of the WebSockets through which a reader controls its layers.  Those    *)
(* last as long as the socket: session.Close closes the socket bound to    *)
(* the session, the end of a context does not.                             *)
(***************************************************************************)
EXTENDS Sessions

CONSTANT Sockets    \* WebSocket connections of readers

VARIABLES
    post,       \* the POST handler: "none", "calling", "waiting", "answered"
    patch,      \* a PATCH handler is waiting in addCandidates
    abrReady,   \* session.abrReady
    subscribed, \* obsTimestampSubs of the path
    sock,       \* handler of a socket: "none", "polling", "open", "closed", "done"
    sockOf,     \* the session it found
    wsConn      \* session.wsConn

webrtcVars == <<post, patch, abrReady, subscribed, sock, sockOf, wsConn>>
socketVars == <<sock, sockOf, wsConn>>

WebRTCTypeOK ==
    /\ post \in [Conns -> {"none", "calling", "waiting", "answered"}]
    /\ patch \in [Conns -> BOOLEAN]
    /\ abrReady \subseteq Conns
    /\ subscribed \subseteq Conns
    /\ sock \in [Sockets -> {"none", "polling", "open", "closed", "done"}]
    /\ sockOf \in [Sockets -> Conns \cup {None}]
    /\ wsConn \in [Conns -> Sockets \cup {None}]

(* Server.Initialize.                                                      *)
WebRTCInit ==
    /\ post = [c \in Conns |-> "none"]
    /\ patch = [c \in Conns |-> FALSE]
    /\ abrReady = {}
    /\ subscribed = {}
    /\ sock = [w \in Sockets |-> "none"]
    /\ sockOf = [w \in Sockets |-> None]
    /\ wsConn = [c \in Conns |-> None]

Post(c, v) == post' = [post EXCEPT ![c] = v]
(* Seeded fault: an error after AddReader is not answered.                 *)
AnswerIfWaiting_Silent(c) == Post(c, post[c])

(* runInner: an error that carries a status answers the handler.           *)
AnswerIfWaiting(c) == Post(c, IF post[c] = "waiting" THEN "answered" ELSE post[c])
Sock(w, v) == sock' = [sock EXCEPT ![w] = v]

(* session.Close: the context, and the socket bound now.                   *)
CloseSession(c) ==
    /\ Cancel({c})
    /\ sock' = [w \in Sockets |-> IF w = wsConn[c] /\ sock[w] = "open" THEN "closed" ELSE sock[w]]

-----------------------------------------------------------------------------
(* onWHIPPost: newSession; the URL says whether the client publishes.      *)
OnWHIPPost(c) == Arrives(c) /\ Post(c, "calling")
                 /\ UNCHANGED <<patch, abrReady, subscribed, socketVars>>

WebRTCNewSession(c) ==
    /\ At(c, "accepted")
    /\ IF server = "running"
         THEN /\ table' = table \cup {c} /\ Goto(c, "request")
              /\ \E r \in {"read", "publish"} : SetRole(c, r)
              /\ UNCHANGED post
         ELSE Goto(c, "gone") /\ Post(c, "answered") /\ UNCHANGED <<table, role>>
    /\ UNCHANGED <<proto, server, pathVars, ctxDone, patch, abrReady, subscribed, socketVars>>

(* session.initialRequest meets session.runInner.                          *)
InitialRequest(c) ==
    /\ At(c, "request") /\ post[c] = "calling"
    /\ Goto(c, IF role[c] = "publish" THEN "handshake" ELSE "addReader")
    /\ Post(c, "waiting")
    /\ UNCHANGED <<serverVars, pathVars, ctxDone, role, patch, abrReady, subscribed, socketVars>>

(* Either side gives up when the context is cancelled.                     *)
RequestTerminated(c) ==
    /\ Cancelled(c)
    /\ \/ Moves(c, "request", "closing") /\ UNCHANGED post
       \/ /\ phase[c] \in {"request", "closing", "gone"} /\ post[c] = "calling"
          /\ Post(c, "answered")
          /\ UNCHANGED <<serverVars, pathVars, phase, ctxDone>>
    /\ UNCHANGED <<role, patch, abrReady, subscribed, socketVars>>

(* runPublish up to the answer: path configuration and permission, the     *)
(* publish whitelist, the peer connection, the tracks, the codec and the   *)
(* layers of the offer.                                                    *)
PublishAnswer(c) ==
    /\ \/ Moves(c, "handshake", "connect")
       \/ Moves(c, "handshake", "closing")
    /\ Post(c, "answered")
    /\ UNCHANGED <<role, patch, abrReady, subscribed, socketVars>>

(* runRead: AddReader is answered.                                         *)
WebRTCAddReader(c) ==
    /\ AnswerReader(c, "joined", "closing")
    /\ post' = [post EXCEPT ![c] = IF phase'[c] = "closing" THEN "answered" ELSE @]
    /\ UNCHANGED <<patch, abrReady, subscribed, socketVars>>

(* runRead up to the answer: the tracks of the stream, by the offer and by *)
(* ABREnable, and the peer connection; an error is answered after the      *)
(* session has left the path.                                              *)
ReadAnswer(c) ==
    /\ \/ Moves(c, "joined", "connect") /\ Post(c, "answered")
       \/ Moves(c, "joined", "leaving") /\ UNCHANGED post
    /\ UNCHANGED <<role, patch, abrReady, subscribed, socketVars>>

(* WaitUntilConnected; a publisher's tracks are gathered before it is      *)
(* announced, a reader is attached to the stream.                          *)
Connected(c) ==
    /\ \/ /\ role[c] = "publish" /\ Moves(c, "connect", "addPublisher")
          /\ UNCHANGED <<abrReady, subscribed>>
       \/ /\ role[c] = "read" /\ Moves(c, "connect", "reading")
          /\ abrReady' = abrReady \cup {c}
          /\ subscribed' = subscribed \cup {c}
    /\ UNCHANGED <<role, post, patch, socketVars>>

(* The handshake's timeout, the tracks' timeout, or the context.           *)
ConnectFails(c) ==
    /\ Moves(c, "connect", IF role[c] = "read" THEN "leaving" ELSE "closing")
    /\ UNCHANGED <<role, webrtcVars>>

WebRTCAddPublisher(c) == AnswerPublisher(c, "added", "closing") /\ UNCHANGED webrtcVars
WebRTCPublish(c) == Moves(c, "added", "publishing") /\ UNCHANGED <<role, webrtcVars>>

(* The peer connection fails, the reader fails, or the context.            *)
Stops(c) ==
    /\ Moves(c, phase[c], "leaving") /\ phase[c] \in {"reading", "publishing"}
    /\ subscribed' = subscribed \ {c}
    /\ UNCHANGED <<role, post, patch, abrReady, socketVars>>

WebRTCLeave(c) ==
    /\ LeavesPath(c)
    /\ AnswerIfWaiting(c)
    /\ UNCHANGED <<patch, abrReady, subscribed, socketVars>>

(* run(): the context is cancelled before the loop is told.                *)
WebRTCCloseSession(c) ==
    /\ At(c, "closing") /\ Goto(c, "gone")
    /\ table' = IF server = "running" THEN table \ {c} ELSE table
    /\ Cancel({c})
    /\ UNCHANGED <<proto, server, pathVars, role, webrtcVars>>

(* chAPIConnsKick, chDeleteSession, chCloseSessionsForApp.                 *)
WebRTCKick(S) ==
    /\ server = "running" /\ S # {} /\ S \subseteq table
    /\ table' = table \ S
    /\ Cancel(S)
    /\ sock' = [w \in Sockets |->
           IF sock[w] = "open" /\ \E c \in S : wsConn[c] = w THEN "closed" ELSE sock[w]]
    /\ UNCHANGED <<proto, server, pathVars, phase, role>>
    /\ UNCHANGED <<post, patch, abrReady, subscribed, sockOf, wsConn>>

(* runReceiveStatsSummary: a publisher with sustained losses is recycled.  *)
LossRecycle(c) ==
    /\ At(c, "publishing") /\ ~Cancelled(c)
    /\ CloseSession(c)
    /\ UNCHANGED <<serverVars, pathVars, phase, role>>
    /\ UNCHANGED <<post, patch, abrReady, subscribed, sockOf, wsConn>>

-----------------------------------------------------------------------------
(* onWHIPPatch: the loop finds the session, addCandidates waits for        *)
(* readRemoteCandidates, which runs from the answer on, or for the context.*)
OnWHIPPatch(c) ==
    /\ server = "running" /\ c \in table /\ ~patch[c]
    /\ patch' = [patch EXCEPT ![c] = TRUE]
    /\ UNCHANGED <<sessionsVars, post, abrReady, subscribed, socketVars>>

PatchAnswered(c) ==
    /\ patch[c]
    /\ \/ phase[c] \in {"connect", "addPublisher", "added", "publishing", "reading"}
       \/ Cancelled(c)
    /\ patch' = [patch EXCEPT ![c] = FALSE]
    /\ UNCHANGED <<sessionsVars, post, abrReady, subscribed, socketVars>>

-----------------------------------------------------------------------------
(* handleABRWebSocket: the session is found by its ID; waitForABRReady     *)
(* polls until the session reads, its context ends or the time is over.    *)
ABRConnect(w, c) ==
    /\ server = "running" /\ sock[w] = "none"
    /\ c \in table /\ role[c] = "read"
    /\ Sock(w, "polling") /\ sockOf' = [sockOf EXCEPT ![w] = c]
    /\ UNCHANGED <<sessionsVars, post, patch, abrReady, subscribed, wsConn>>

(* The socket is bound to the session, and the previous one is closed.     *)
ABRBind(w) ==
    /\ sock[w] = "polling" /\ sockOf[w] \in abrReady
    /\ LET c == sockOf[w] IN
         /\ sock' = [v \in Sockets |-> IF v = w THEN "open"
                                       ELSE IF v = wsConn[c] /\ sock[v] = "open" THEN "closed"
                                       ELSE sock[v]]
         /\ wsConn' = [wsConn EXCEPT ![c] = w]
    /\ UNCHANGED <<sessionsVars, post, patch, abrReady, subscribed, sockOf>>

ABRGivesUp(w) ==
    /\ sock[w] = "polling"
    /\ sockOf[w] \notin abrReady
    /\ Sock(w, "done")
    /\ UNCHANGED <<sessionsVars, post, patch, abrReady, subscribed, sockOf, wsConn>>

(* The client closes the socket, or stops answering pings.                 *)
ABRClientLeaves(w) ==
    /\ sock[w] = "open"
    /\ Sock(w, "closed")
    /\ UNCHANGED <<sessionsVars, post, patch, abrReady, subscribed, sockOf, wsConn>>

(* The read loop fails; the deferred function unbinds the socket if it is  *)
(* still the session's.                                                    *)
ABRHandlerEnds(w) ==
    /\ sock[w] = "closed"
    /\ Sock(w, "done")
    /\ wsConn' = [c \in Conns |-> IF c = sockOf[w] /\ wsConn[c] = w THEN None ELSE wsConn[c]]
    /\ UNCHANGED <<sessionsVars, post, patch, abrReady, subscribed, sockOf>>

(* httpServer.close waits for every handler.                               *)
HandlersReturned ==
    /\ \A c \in Conns : post[c] \in {"none", "answered"} /\ ~patch[c]
    /\ \A w \in Sockets : sock[w] \in {"none", "done"}

WebRTCNext ==
    \/ \E c \in Conns :
        \/ OnWHIPPost(c) \/ WebRTCNewSession(c) \/ InitialRequest(c) \/ RequestTerminated(c)
        \/ PublishAnswer(c) \/ WebRTCAddReader(c) \/ ReadAnswer(c) \/ Connected(c)
        \/ ConnectFails(c) \/ WebRTCAddPublisher(c) \/ WebRTCPublish(c) \/ Stops(c)
        \/ WebRTCLeave(c) \/ WebRTCCloseSession(c) \/ LossRecycle(c)
        \/ OnWHIPPatch(c) \/ PatchAnswered(c)
    \/ \E S \in SUBSET Conns : WebRTCKick(S)
    \/ \E w \in Sockets :
        \/ \E c \in Conns : ABRConnect(w, c)
        \/ ABRBind(w) \/ ABRGivesUp(w) \/ ABRClientLeaves(w) \/ ABRHandlerEnds(w)

WebRTCProgress(c) ==
    \/ WebRTCNewSession(c) \/ InitialRequest(c) \/ RequestTerminated(c) \/ PublishAnswer(c)
    \/ WebRTCAddReader(c) \/ ReadAnswer(c) \/ ConnectFails(c) \/ WebRTCAddPublisher(c)
    \/ WebRTCPublish(c) \/ WebRTCLeave(c) \/ WebRTCCloseSession(c)
    \/ Cancelled(c) /\ Stops(c)
SocketProgress(w) == ABRBind(w) \/ ABRGivesUp(w) \/ ABRHandlerEnds(w)
=============================================================================
