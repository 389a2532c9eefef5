------------------------------ MODULE Servers -------------------------------
(***************************************************************************)
(* The protocol servers over one path.  A behaviour is that of one server, *)
(* of the protocol that Init chooses, with the publishers of all the       *)
(* others reduced to Other.                                                *)
(***************************************************************************)
EXTENDS RTMP, SRT, RTSP, MoQ, WebRTC, Degrade

vars == <<sessionsVars, srtVars, rtspVars, moqVars, webrtcVars, degradeVars>>

TypeOK ==
    /\ SessionsTypeOK /\ SRTTypeOK /\ RTSPTypeOK /\ MoQTypeOK /\ WebRTCTypeOK
    /\ DegradeTypeOK

Init ==
    /\ SessionsInit /\ SRTInit /\ RTSPInit /\ MoQInit /\ WebRTCInit /\ DegradeInit

-----------------------------------------------------------------------------
ProtocolNext ==
    \/ /\ proto = "rtmp" /\ RTMPNext
       /\ UNCHANGED <<srtVars, rtspVars, moqVars, webrtcVars, degradeVars>>
    \/ /\ proto = "srt" /\ SRTNext
       /\ UNCHANGED <<rtspVars, moqVars, webrtcVars, degradeVars>>
    \/ /\ proto = "rtsp" /\ ~panicked /\ RTSPNext
       /\ UNCHANGED <<srtVars, moqVars, webrtcVars, degradeVars>>
    \/ /\ proto = "moq" /\ MoQNext
       /\ UNCHANGED <<srtVars, rtspVars, webrtcVars, degradeVars>>
    \/ /\ proto = "webrtc" /\ WebRTCNext
       /\ UNCHANGED <<srtVars, rtspVars, moqVars, degradeVars>>
    \/ /\ proto = "degrade" /\ DegradeNext
       /\ UNCHANGED <<srtVars, rtspVars, moqVars, webrtcVars>>

(* Close waits for the sessions, and in the WebRTC server for the handlers *)
(* of HTTP requests, too.                                                  *)
Returned == ServerEnds /\ HandlersReturned /\ ExecutorsReturned

Environment == proto # "degrade" /\ (OtherPublishes \/ OtherLeaves)

Next ==
    \/ ProtocolNext
    \/ /\ ~panicked
       /\ (Environment \/ StopServer \/ Returned)
       /\ UNCHANGED <<srtVars, rtspVars, moqVars, webrtcVars, degradeVars>>

(* The threads of the server of the behaviour go on by themselves: the     *)
(* goroutine of a session with the loop and the path that answer it, and   *)
(* the handlers and the demuxer beside it.                                 *)
SessionGoesOn(c) ==
    \/ proto = "rtmp" /\ RTMPProgress(c)
    \/ proto = "srt" /\ SRTProgress(c)
    \/ proto = "rtsp" /\ RTSPProgress(c)
    \/ proto = "moq" /\ MoQProgress(c)
    \/ proto = "webrtc" /\ WebRTCProgress(c)
    \/ proto = "degrade" /\ DegradeProgress(c)

Spec == Init /\ [][Next]_vars

(* The library's goroutine of an RTSP session waits for requests and for   *)
(* its context in one select, which chooses at random: requests that keep  *)
(* coming do not hold the end of the context back for ever.                *)
Fairness ==
    /\ \A c \in Conns :
         /\ WF_vars(Next /\ SessionGoesOn(c))
         /\ WF_vars(Next /\ proto = "srt" /\ SamplerGoesOn(c))
         /\ WF_vars(Next /\ proto = "rtsp" /\ DemuxerGoesOn(c))
         /\ SF_vars(Next /\ proto = "rtsp" /\ ClosedSessionEnds(c))
         /\ WF_vars(Next /\ proto = "webrtc" /\ PatchAnswered(c))
    /\ \A w \in Sockets : WF_vars(Next /\ proto = "webrtc" /\ SocketProgress(w))
    /\ WF_vars(Next /\ Returned)

FairSpec == Spec /\ Fairness

-----------------------------------------------------------------------------
(* A session that has ended has left nothing behind it: it is not in the   *)
(* path, its readers and subscriptions are gone, its hook has stopped.     *)
(* The RTSP server breaks this in three ways, two of them by an API kick,  *)
(* which runs onClose beside a handler (server.go:577) and by the state    *)
(* before it: a session that is joining stays in the path, and one that is *)
(* starting to play leaves the hook running (session.go:152, 359).  Third, *)
(* the goroutine of an MPEG-TS demuxer is not waited for.                  *)
NothingLeftBehind ==
    \A c \in Conns : At(c, "gone") =>
        /\ c \notin subscribed /\ subs[c] = {}
        /\ InPath(c) \/ hookOn[c] => kickedLate[c] \/ demuxer[c] = "publishing"

(* A session is in the state in which it reads, or publishes.              *)
Serves(c, r) ==
    CASE proto = "rtsp" -> /\ attached[c]
                           /\ rstate[c] \in (IF r = "read" THEN {"prePlay", "play"} ELSE {"record"})
                           /\ r = "publish" => ~At(c, "toPreRecord")
      [] proto = "moq" -> role[c] = r /\ moqPath[c] /\ Alive(c)
      [] OTHER -> At(c, IF r = "read" THEN "reading" ELSE "publishing")

(* A session that serves, and whose context is not cancelled, is a member  *)
(* of the path in the role it shows: the path never drops a member without *)
(* closing it, and no session takes the place of another in its own name.  *)
ServingIsMember ==
    \A c \in Conns : ~Cancelled(c) /\ ~failed[c] =>
        /\ Serves(c, "read") => c \in readers
        /\ Serves(c, "publish") => publisher = c

(* The latency that losses have raised is applied: the publisher that has  *)
(* a lower one from its handshake is being closed to reconnect, unless the *)
(* raise came from another connection, which closes only itself            *)
(* (conn.go:557).                                                          *)
LatencyIsApplied ==
    \A c \in Conns :
        proto = "srt" /\ At(c, "publishing") /\ ~Cancelled(c) =>
            \/ given[c] >= latency \/ overtaken[c]
            \/ sampler[c] \in {"raised", "marked"}

(* The ladder is walked in order: layers are cut only at the lowest        *)
(* bitrate, and come back before the bitrate does (degrade.go:268).        *)
LadderHolds ==
    /\ layers <= maxLayers /\ (maxLayers > 0 => layers > 0)
    /\ layers < maxLayers => bitratePercent = 60

(* An executor that is connected has been sent the target that holds,      *)
(* unless a transition overtook BindConn between its reading the target    *)
(* and its writing it (degrade.go:347), which leaves it an older one.      *)
TargetIsTold ==
    \A c \in Conns :
        wsBound = c /\ exec[c] = "open" /\ maxLayers > 0 =>
            told[c] = <<layers, bitratePercent>> \/ passed[c]

(* The ladder of degradation is walked in order, and the executor knows    *)
(* where on it the path stands.                                            *)
LadderIsFollowed == LadderHolds /\ TargetIsTold

(* A session that was kicked, replaced or lost its stream ends.            *)
CancelledEnds ==
    \A c \in Conns : (Cancelled(c) /\ Alive(c)) ~> (~Alive(c) \/ panicked)

(* The handlers of POST and PATCH requests are always answered: by the     *)
(* session, or because its context has ended.                              *)
RequestsAnswered ==
    \A c \in Conns : /\ (post[c] \in {"calling", "waiting"}) ~> (post[c] = "answered")
                     /\ patch[c] ~> ~patch[c]

(* Close returns, unless a reader keeps its WebSocket open: nobody closes  *)
(* it when the context, and not session.Close, ends the session.           *)
ServerCloses ==
    (server = "closing") ~>
        (server = "closed" \/ panicked \/ \E w \in Sockets : sock[w] = "open")
=============================================================================
