-------------------------------- MODULE SRT ---------------------------------
(***************************************************************************)
(* The SRT server (internal/servers/srt): the loop, the connections, and   *)
(* the receive latency that the server tunes per path.  SRT fixes the      *)
(* latency in the handshake, so the loop gives every connection request    *)
(* the tuned value, and a connection whose losses raise it marks the path, *)
(* closes itself and lets the publisher reconnect.                         *)
(*                                                                         *)
(* The goroutines that sample a publisher's losses (runReceiveStatsSummary *)
(* without degradation, runDegradeSampling with it) run beside the         *)
(* connection and may end after it.                                        *)
(***************************************************************************)
EXTENDS Sessions

CONSTANTS
    LatencyInitial, LatencyMin, LatencyMax,   \* srtLatencyConfig
    RaiseStep, LowerStep

ASSUME LatencyAssumption ==
    /\ {LatencyInitial, LatencyMin, LatencyMax, RaiseStep, LowerStep} \subseteq Nat
    /\ LatencyMin <= LatencyMax /\ RaiseStep > 0 /\ LowerStep > 0

VARIABLES
    degrading,  \* DegradeEnable, chosen once
    latency,    \* latencyManager: the path's tuned value
    raiseMark,  \* latencyManager: raiseClosedAt is set
    given,      \* the latency a connection got in its handshake
    sampler,    \* its sampling goroutine: "off", "on", "raised", "marked"
    overtaken   \* history: another connection raised the latency meanwhile

srtVars == <<degrading, latency, raiseMark, given, sampler, overtaken>>

SRTTypeOK ==
    /\ degrading \in BOOLEAN /\ raiseMark \in BOOLEAN
    /\ latency \in Nat
    /\ given \in [Conns -> Nat]
    /\ sampler \in [Conns -> {"off", "on", "raised", "marked"}]
    /\ overtaken \in [Conns -> BOOLEAN]

(* Server.Initialize: the manager's bounds are those of degradation when   *)
(* it is enabled, those of the automatic tuning otherwise.                 *)
SRTInit ==
    /\ degrading \in (IF proto = "srt" THEN BOOLEAN ELSE {FALSE})
    /\ latency = LatencyInitial
    /\ raiseMark = FALSE
    /\ given = [c \in Conns |-> 0]
    /\ sampler = [c \in Conns |-> "off"]
    /\ overtaken = [c \in Conns |-> FALSE]

AtMost(a, b) == IF a < b THEN a ELSE b
AtLeast(a, b) == IF a > b THEN a ELSE b
Minus(a, b) == IF a > b THEN a - b ELSE 0

(* srtLatencyNextValue: by the sign of the loss, within both bounds.       *)
NextValue(loss) ==
    AtMost(LatencyMax, AtLeast(LatencyMin,
        CASE loss = "above" -> latency + RaiseStep
          [] loss = "below" -> Minus(latency, LowerStep)
          [] OTHER -> latency))

(* AdjustLatency: a raise only looks at the upper bound, a decrease at the *)
(* lower one.                                                              *)
AdjustLatency(raise) ==
    IF raise THEN AtMost(LatencyMax, latency + RaiseStep)
             ELSE AtLeast(LatencyMin, Minus(latency, LowerStep))

-----------------------------------------------------------------------------
(* newConnRequest: the loop sets the latency of the request; a request     *)
(* that arrives when the server closes is rejected.                        *)
SRTNewConn(c) ==
    /\ LoopTakes(c, "handshake")
    /\ given' = [given EXCEPT ![c] = latency]
    /\ UNCHANGED <<degrading, latency, raiseMark, sampler, overtaken>>

(* runInner and runPublish: stream ID, token, path configuration,          *)
(* passphrase, Accept, and the tracks of the stream come before            *)
(* AddPublisher; a reader calls AddReader first.                           *)
SRTStart(c) ==
    /\ \E p \in {"addReader", "addPublisher"} : Moves(c, "handshake", p)
    /\ UNCHANGED <<role, srtVars>>

SRTReject(c) == Moves(c, "handshake", "closing") /\ UNCHANGED <<role, srtVars>>

(* runRead: AddReader, then the passphrase, Accept and FromStream, each of *)
(* which may fail, and only then is the state set.                         *)
SRTAddReader(c) == AnswerReader(c, "joined", "closing") /\ UNCHANGED srtVars

SRTRead(c) ==
    /\ \/ Moves(c, "joined", "reading") /\ SetRole(c, "read")
       \/ Moves(c, "joined", "leaving") /\ UNCHANGED role
    /\ UNCHANGED srtVars

SRTStopReading(c) == Moves(c, "reading", "leaving") /\ UNCHANGED <<role, srtVars>>

(* runPublishReader: AddPublisher; then the mark of a raise is consumed    *)
(* and the sampling goroutines start.                                      *)
SRTAddPublisher(c) == AnswerPublisher(c, "added", "closing") /\ UNCHANGED srtVars

SRTPublish(c) ==
    /\ Moves(c, "added", "publishing")
    /\ SetRole(c, "publish")
    /\ raiseMark' = FALSE
    /\ sampler' = [sampler EXCEPT ![c] = "on"]
    /\ UNCHANGED <<degrading, latency, given, overtaken>>

SRTStopPublishing(c) == Moves(c, "publishing", "leaving") /\ UNCHANGED <<role, srtVars>>
SRTLeave(c) == LeavesPath(c) /\ UNCHANGED srtVars
SRTCloseConn(c) == LoopForgets(c) /\ UNCHANGED srtVars
SRTKick(c) == LoopKicks(c) /\ UNCHANGED srtVars

-----------------------------------------------------------------------------
(* The sampling goroutine.  It sees the end of its connection only when it *)
(* waits for the next tick.                                                *)
Sampling(c) == sampler[c] = "on" /\ UNCHANGED sessionsVars

(* Seeded fault: a raise waits for the publisher's next reconnection.      *)
Tune_NoClose(c, v) ==
    /\ latency' = v
    /\ UNCHANGED <<sampler, overtaken, degrading, raiseMark, given>>

(* The tuned value becomes v; a raise is followed by a mark and a close.   *)
Tune(c, v) ==
    /\ latency' = v
    /\ sampler' = [sampler EXCEPT ![c] = IF v > latency THEN "raised" ELSE "on"]
    /\ overtaken' = [d \in Conns |->
           overtaken[d] \/ (v > latency /\ d # c /\ Alive(d))]
    /\ UNCHANGED <<degrading, raiseMark, given>>

(* runReceiveStatsSummary: latencyManager.Record, without degradation.     *)
SRTRecord(c) ==
    /\ Sampling(c) /\ ~degrading
    /\ \E loss \in {"above", "below"} : Tune(c, NextValue(loss))

(* runDegradeSampling: ActionRestart raises, ActionRecover lowers.         *)
SRTDegradeSample(c) ==
    /\ Sampling(c) /\ degrading
    /\ \E raise \in BOOLEAN : Tune(c, AdjustLatency(raise))

(* MarkRaiseClose, then Close; the summary returns, the degradation        *)
(* sampler goes on until it sees the context.                              *)
SRTMarkRaiseClose(c) ==
    /\ sampler[c] = "raised"
    /\ raiseMark' = TRUE
    /\ sampler' = [sampler EXCEPT ![c] = "marked"]
    /\ UNCHANGED <<sessionsVars, degrading, latency, given, overtaken>>

SRTRaiseClose(c) ==
    /\ sampler[c] = "marked"
    /\ Cancel({c})
    /\ sampler' = [sampler EXCEPT ![c] = IF degrading THEN "on" ELSE "off"]
    /\ UNCHANGED <<serverVars, pathVars, phase, role>>
    /\ UNCHANGED <<degrading, latency, raiseMark, given, overtaken>>

(* runReceiveStatsSummary: sustained losses disconnect the publisher, and  *)
(* the summary returns.                                                    *)
SRTLossDisconnect(c) ==
    /\ sampler[c] = "on"
    /\ Cancel({c})
    /\ sampler' = [sampler EXCEPT ![c] = IF degrading THEN "on" ELSE "off"]
    /\ UNCHANGED <<serverVars, pathVars, phase, role>>
    /\ UNCHANGED <<degrading, latency, raiseMark, given, overtaken>>

SRTSamplerEnds(c) ==
    /\ sampler[c] = "on"
    /\ Cancelled(c) \/ ~At(c, "publishing")
    /\ sampler' = [sampler EXCEPT ![c] = "off"]
    /\ UNCHANGED <<sessionsVars, degrading, latency, raiseMark, given, overtaken>>

SRTNext ==
    \E c \in Conns :
        \/ Arrives(c) /\ UNCHANGED srtVars
        \/ SRTNewConn(c) \/ SRTStart(c) \/ SRTReject(c) \/ SRTAddReader(c)
        \/ SRTRead(c) \/ SRTStopReading(c) \/ SRTAddPublisher(c) \/ SRTPublish(c)
        \/ SRTStopPublishing(c) \/ SRTLeave(c) \/ SRTCloseConn(c) \/ SRTKick(c)
        \/ SRTRecord(c) \/ SRTDegradeSample(c) \/ SRTMarkRaiseClose(c)
        \/ SRTRaiseClose(c) \/ SRTLossDisconnect(c) \/ SRTSamplerEnds(c)

SRTProgress(c) ==
    \/ SRTNewConn(c) \/ SRTAddReader(c) \/ SRTRead(c) \/ SRTAddPublisher(c)
    \/ SRTPublish(c) \/ SRTLeave(c) \/ SRTCloseConn(c)
    \/ Cancelled(c) /\ (SRTReject(c) \/ SRTStopReading(c) \/ SRTStopPublishing(c))
SamplerGoesOn(c) == SRTMarkRaiseClose(c) \/ SRTRaiseClose(c) \/ SRTSamplerEnds(c)
=============================================================================
