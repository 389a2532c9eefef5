-------------------------------- MODULE RTMP --------------------------------
(***************************************************************************)
(* The RTMP and RTMPS servers (internal/servers/rtmp): the loop of the     *)
(* server, and a connection's two goroutines (run, which waits for the     *)
(* context, and runReader, which serves the connection) reduced to where   *)
(* runReader is.  Cancelling the context closes the socket, so that every  *)
(* blocking read of the socket returns.                                    *)
(***************************************************************************)
EXTENDS Sessions

(* listener.run, Server.newConn, Server.run.                               *)
RTMPNewConn(c) == LoopTakes(c, "handshake")

(* conn.runReader up to the call of the path manager: the handshake says   *)
(* whether the client reads or publishes; a publisher's tracks are read    *)
(* before it is announced to the path.  An error, of the peer or of the    *)
(* socket closed by runInner, ends the connection.                         *)
RTMPHandshake(c) ==
    /\ \E p \in {"addReader", "addPublisher"} : Moves(c, "handshake", p)
    /\ UNCHANGED role

RTMPAbort(c) == Moves(c, "handshake", "closing") /\ UNCHANGED role

(* conn.runRead: AddReader is answered.                                    *)
RTMPAddReader(c) == AnswerReader(c, "joined", "closing")

(* conn.runRead: the state is set, FromStream may find no track it can     *)
(* carry; then the reader is attached to the stream.                       *)
RTMPRead(c) ==
    /\ \E p \in {"reading", "leaving"} : Moves(c, "joined", p)
    /\ SetRole(c, "read")

(* conn.runRead returns: the context, or an error of the reader.           *)
RTMPStopReading(c) == Moves(c, "reading", "leaving") /\ UNCHANGED role

(* conn.runPublish.                                                        *)
RTMPAddPublisher(c) == AnswerPublisher(c, "added", "closing")
RTMPPublish(c) == Moves(c, "added", "publishing") /\ SetRole(c, "publish")
RTMPStopPublishing(c) == Moves(c, "publishing", "leaving") /\ UNCHANGED role

(* The deferred RemoveReader or RemovePublisher, then closeConn.           *)
RTMPLeave(c) == LeavesPath(c)
RTMPCloseConn(c) == LoopForgets(c)

(* chAPIConnsKick.                                                         *)
RTMPKick(c) == LoopKicks(c)

RTMPNext ==
    \E c \in Conns :
        \/ Arrives(c) \/ RTMPNewConn(c) \/ RTMPHandshake(c) \/ RTMPAbort(c)
        \/ RTMPAddReader(c) \/ RTMPRead(c) \/ RTMPStopReading(c)
        \/ RTMPAddPublisher(c) \/ RTMPPublish(c) \/ RTMPStopPublishing(c)
        \/ RTMPLeave(c) \/ RTMPCloseConn(c) \/ RTMPKick(c)

(* What goes on by itself: the loop, the path and, once the context is     *)
(* cancelled, the connection.                                              *)
RTMPProgress(c) ==
    \/ RTMPNewConn(c) \/ RTMPAddReader(c) \/ RTMPRead(c) \/ RTMPAddPublisher(c)
    \/ RTMPPublish(c) \/ RTMPLeave(c) \/ RTMPCloseConn(c)
    \/ Cancelled(c) /\ (RTMPAbort(c) \/ RTMPStopReading(c) \/ RTMPStopPublishing(c))
=============================================================================
