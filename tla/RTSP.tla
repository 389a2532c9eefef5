-------------------------------- MODULE RTSP --------------------------------
(***************************************************************************)
(* The RTSP and RTSPS servers (internal/servers/rtsp).  The library        *)
(* (gortsplib, external) runs a goroutine per session, which calls the     *)
(* handlers one after another, changes the session's state after a handler *)
(* has returned without error (phases "toPrePlay" to "toRecord"), and      *)
(* calls OnSessionClose last.  A kick of the API is the one call that      *)
(* works on a session from another goroutine: it runs onClose itself,      *)
(* beside whatever handler is running, by the state the library shows.     *)
(***************************************************************************)
EXTENDS Sessions

VARIABLES
    rstate,     \* rsession.State()
    attached,   \* s.path # nil
    demuxer,    \* s.mpegtsDemuxer: "none", "armed", "init", "call", "publishing", "over"
    pipeOpen,   \* its pipe has not been closed
    hookOn,     \* the command of runOnRead is running
    kickedLate, \* history: kicked before the library had the state a handler leads to
    panicked    \* a handler used the nil path

rtspVars == <<rstate, attached, demuxer, pipeOpen, hookOn, kickedLate, panicked>>

RTSPTypeOK ==
    /\ rstate \in [Conns -> {"initial", "prePlay", "play", "preRecord", "record"}]
    /\ demuxer \in [Conns -> {"none", "armed", "init", "call", "publishing", "over"}]
    /\ attached \in [Conns -> BOOLEAN] /\ pipeOpen \in [Conns -> BOOLEAN]
    /\ hookOn \in [Conns -> BOOLEAN] /\ kickedLate \in [Conns -> BOOLEAN]
    /\ panicked \in BOOLEAN

(* Server.Initialize.                                                      *)
RTSPInit ==
    /\ rstate = [c \in Conns |-> "initial"]
    /\ demuxer = [c \in Conns |-> "none"]
    /\ attached = [c \in Conns |-> FALSE]
    /\ pipeOpen = [c \in Conns |-> FALSE]
    /\ hookOn = [c \in Conns |-> FALSE]
    /\ kickedLate = [c \in Conns |-> FALSE]
    /\ panicked = FALSE

Attach(c, v) == attached' = [attached EXCEPT ![c] = v]
Hook(c, v) == hookOn' = [hookOn EXCEPT ![c] = v]
Demuxer(c, v) == demuxer' = [demuxer EXCEPT ![c] = v]

(* A handler of session c may start: the library is not in another one.    *)
Handler(c, state) == At(c, "idle") /\ rstate[c] = state

(* A handler has returned without error, and the library sets the state.   *)
Ahead == [toPrePlay |-> "prePlay", toPlay |-> "play", toPreRecord |-> "preRecord", toRecord |-> "record"]
SetState(c) ==
    /\ phase[c] \in DOMAIN Ahead
    /\ rstate' = [rstate EXCEPT ![c] = Ahead[phase[c]]]
    /\ Goto(c, "idle")
    /\ UNCHANGED <<serverVars, pathVars, ctxDone, role>>
    /\ UNCHANGED <<attached, demuxer, pipeOpen, hookOn, kickedLate, panicked>>

(* A request that was waiting when the session was kicked is still served. *)
Late(c) == kickedLate' = [kickedLate EXCEPT ![c] = @ \/ c \notin table]

(* OnSessionOpen; requests that follow are refused once the server closes. *)
OnSessionOpen(c) ==
    /\ server = "running" /\ At(c, "none")
    /\ table' = table \cup {c}
    /\ Goto(c, "idle")
    /\ UNCHANGED <<proto, server, pathVars, ctxDone, role, rtspVars>>

(* onAnnounce: FindPathConf; a refused request changes nothing.  The       *)
(* announced medias and the path's configuration say whether an MPEG-TS    *)
(* stream is to be demuxed.                                                *)
OnAnnounce(c) ==
    /\ Handler(c, "initial")
    /\ Goto(c, "toPreRecord")
    /\ \E d \in {"none", "armed"} : Demuxer(c, d)
    /\ UNCHANGED <<serverVars, pathVars, ctxDone, role>>
    /\ UNCHANGED <<rstate, attached, pipeOpen, hookOn, kickedLate, panicked>>

(* onSetup of a session that has no state yet: AddReader.                  *)
OnSetup(c) ==
    /\ Handler(c, "initial")
    /\ Goto(c, "addReader")
    /\ Late(c)
    /\ UNCHANGED <<serverVars, pathVars, ctxDone, role>>
    /\ UNCHANGED <<rstate, attached, demuxer, pipeOpen, hookOn, panicked>>

RTSPAddReader(c) == AnswerReader(c, "joined", "idle") /\ UNCHANGED rtspVars

(* onSetup, AddReader answered: the RTSP stream is created, or the reader  *)
(* is removed again.                                                       *)
OnSetupEnds(c) ==
    /\ At(c, "joined")
    /\ \/ /\ Attach(c, TRUE) /\ Goto(c, "toPrePlay")
          /\ UNCHANGED <<pathVars, ctxDone>>
       \/ /\ PathForgets(c) /\ Goto(c, "idle")
          /\ UNCHANGED attached
    /\ UNCHANGED <<serverVars, role, rstate, demuxer, pipeOpen, hookOn, kickedLate, panicked>>

(* onPlay: the path's name is logged and the hook of the reader starts,    *)
(* while the session is still in PrePlay.                                  *)
OnPlay(c) ==
    /\ Handler(c, "prePlay")
    /\ IF attached[c]
         THEN Hook(c, TRUE) /\ Goto(c, "toPlay") /\ UNCHANGED panicked
         ELSE panicked' = TRUE /\ UNCHANGED <<hookOn, phase>>
    /\ UNCHANGED <<serverVars, pathVars, ctxDone, role, rstate, attached, demuxer, pipeOpen, kickedLate>>

(* onRecord: an MPEG-TS stream to demux is published by the demuxer's      *)
(* goroutine, any other by the session.                                    *)
OnRecord(c) ==
    /\ Handler(c, "preRecord")
    /\ \/ /\ demuxer[c] = "none"
          /\ Goto(c, "addPublisher")
          /\ UNCHANGED <<demuxer, pipeOpen>>
       \/ /\ demuxer[c] = "armed"
          /\ Demuxer(c, "init") /\ pipeOpen' = [pipeOpen EXCEPT ![c] = TRUE]
          /\ Goto(c, "toRecord")
    /\ Late(c)
    /\ UNCHANGED <<serverVars, pathVars, ctxDone, role, rstate, attached, hookOn, panicked>>

RTSPAddPublisher(c) == AnswerPublisher(c, "added", "idle") /\ UNCHANGED rtspVars

OnRecordEnds(c) ==
    /\ At(c, "added")
    /\ Goto(c, "toRecord")
    /\ Attach(c, TRUE)
    /\ UNCHANGED <<serverVars, pathVars, ctxDone, role>>
    /\ UNCHANGED <<rstate, demuxer, pipeOpen, hookOn, kickedLate, panicked>>

(* onPause: refused in demux mode; a reader stays in the path, a publisher *)
(* leaves it.                                                              *)
OnPause(c) ==
    /\ demuxer[c] = "none"
    /\ \/ /\ Handler(c, "play")
          /\ Hook(c, FALSE) /\ Goto(c, "toPrePlay")
          /\ UNCHANGED <<pathVars, ctxDone, panicked>>
       \/ /\ Handler(c, "record") /\ attached[c]
          /\ PathForgets(c) /\ Goto(c, "toPreRecord")
          /\ UNCHANGED <<hookOn, panicked>>
       \/ /\ Handler(c, "record") /\ ~attached[c]
          /\ panicked' = TRUE
          /\ UNCHANGED <<pathVars, ctxDone, hookOn, phase>>
    /\ UNCHANGED <<serverVars, role, rstate, attached, demuxer, pipeOpen, kickedLate>>

(* session.onClose: the hook ends, the demuxer's pipe is closed and, by    *)
(* the state the session is in now, it leaves the path.                    *)
OnClose(c, closed) ==
    /\ hookOn' = [hookOn EXCEPT ![c] = @ /\ rstate[c] # "play"]
    /\ pipeOpen' = [pipeOpen EXCEPT ![c] = FALSE]
    /\ Attach(c, FALSE)
    /\ IF rstate[c] \in {"prePlay", "play"} \/ (rstate[c] = "record" /\ attached[c])
         THEN PathForgetsAndCloses(c, closed)
         ELSE Cancel(closed) /\ UNCHANGED pathVars

(* The library ends the session: its client has left, it was closed, or    *)
(* the server closes.  A session that is not in the map is left alone.     *)
OnSessionClose(c) ==
    /\ At(c, "idle")
    /\ Goto(c, "gone")
    /\ table' = table \ {c}
    /\ IF c \in table THEN OnClose(c, {})
       ELSE UNCHANGED <<hookOn, pipeOpen, attached, pathVars, ctxDone>>
    /\ UNCHANGED <<proto, server, role, rstate, demuxer, kickedLate, panicked>>

(* APISessionsKick, in the goroutine of the API: the library's session is  *)
(* closed, which its goroutine sees later, and onClose runs here.  What a  *)
(* handler at work has joined or started, onClose does not know of by the  *)
(* state that is still the one before it.                                  *)
RTSPKick(c) ==
    /\ server = "running" /\ c \in table
    /\ table' = table \ {c}
    /\ OnClose(c, {c})
    /\ kickedLate' = [kickedLate EXCEPT ![c] = ~At(c, "idle") /\ rstate[c] \notin {"play", "record"}]
    /\ UNCHANGED <<proto, server, phase, role, rstate, demuxer, panicked>>

-----------------------------------------------------------------------------
(* The demuxer's goroutine; nobody waits for it.                           *)

(* doRun: the MPEG-TS reader is initialized, or fails, as it does when the *)
(* pipe has been closed; a failure closes the session.                     *)
DemuxerInit(c) ==
    /\ demuxer[c] = "init"
    /\ \/ pipeOpen[c] /\ Demuxer(c, "call") /\ UNCHANGED ctxDone
       \/ Demuxer(c, "over") /\ Cancel({c})
    /\ UNCHANGED <<serverVars, pathVars, phase, role, rstate, attached, pipeOpen, hookOn, kickedLate, panicked>>

DemuxerAddPublisher(c) ==
    /\ demuxer[c] = "call"
    /\ \/ PathTakesPublisher(c) /\ Demuxer(c, "publishing")
       \/ Demuxer(c, "over") /\ Cancel({c}) /\ UNCHANGED pathVars
    /\ UNCHANGED <<serverVars, phase, role, rstate, attached, pipeOpen, hookOn, kickedLate, panicked>>

(* doRun returns: nil when the pipe was closed, or else an error of the    *)
(* stream, after which the session is closed.                              *)
DemuxerEnds(c) ==
    /\ demuxer[c] = "publishing"
    /\ PathForgetsAndCloses(c, IF pipeOpen[c] THEN {c} ELSE {})
    /\ Demuxer(c, "over")
    /\ UNCHANGED <<serverVars, phase, role, rstate, attached, pipeOpen, hookOn, kickedLate, panicked>>

RTSPNext ==
    \E c \in Conns :
        \/ OnSessionOpen(c) \/ SetState(c) \/ OnAnnounce(c) \/ OnSetup(c) \/ RTSPAddReader(c)
        \/ OnSetupEnds(c) \/ OnPlay(c) \/ OnRecord(c) \/ RTSPAddPublisher(c)
        \/ OnRecordEnds(c) \/ OnPause(c) \/ OnSessionClose(c) \/ RTSPKick(c)
        \/ DemuxerInit(c) \/ DemuxerAddPublisher(c) \/ DemuxerEnds(c)

RTSPProgress(c) ==
    \/ SetState(c)
    \/ RTSPAddReader(c) \/ OnSetupEnds(c) \/ RTSPAddPublisher(c) \/ OnRecordEnds(c)
ClosedSessionEnds(c) == Cancelled(c) /\ OnSessionClose(c)
DemuxerGoesOn(c) ==
    \/ DemuxerInit(c) \/ DemuxerAddPublisher(c)
    \/ ~pipeOpen[c] /\ DemuxerEnds(c)
=============================================================================
