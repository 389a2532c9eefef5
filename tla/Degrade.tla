------------------------------ MODULE Degrade -------------------------------
(***************************************************************************)
(* The degradation of one published path (internal/degrade) and the        *)
(* WebSocket through which an executor beside the publisher is told the    *)
(* target (degrade_ws_handler.go).  Losses are sampled by the session that *)
(* publishes; bad samples walk down a ladder of bitrates and then of       *)
(* layers, good ones walk back up.  Times are abstracted to whether they   *)
(* are set and whether the observation period has passed.                  *)
(***************************************************************************)
EXTENDS Sessions

CONSTANT MaxLayers  \* layers a publisher may negotiate

ASSUME MaxLayersAssumption == MaxLayers \in Nat \ {0}

VARIABLES
    maxLayers, layers, bitratePercent,
    goodSince,      \* "unset", "set", "long" (set ObservationSec ago)
    cooling,        \* now is before degradeCooldownUntil
    observing,      \* history: less than ObservationSec since the last transition
    wsBound,        \* State.wsConn
    exec,           \* handler of an executor: "none", "binding", "read", "open", "lost", "done"
    target,         \* the target BindConn has read and not yet written
    told,           \* the last target the executor was sent
    passed          \* history: a transition was pushed while BindConn held an older target

fsmVars == <<maxLayers, layers, bitratePercent, goodSince, cooling, observing>>
execVars == <<wsBound, exec, target, told, passed>>
degradeVars == <<fsmVars, execVars>>

Targets == (0..MaxLayers) \X {60, 80, 100}
NoTarget == <<0, 0>>

DegradeTypeOK ==
    /\ maxLayers \in 0..MaxLayers /\ layers \in 0..MaxLayers
    /\ bitratePercent \in {60, 80, 100}
    /\ goodSince \in {"unset", "set", "long"}
    /\ cooling \in BOOLEAN /\ observing \in BOOLEAN
    /\ wsBound \in Conns \cup {None}
    /\ exec \in [Conns -> {"none", "binding", "read", "open", "lost", "done"}]
    /\ target \in [Conns -> Targets \cup {NoTarget}] /\ told \in [Conns -> Targets \cup {NoTarget}]
    /\ passed \in [Conns -> BOOLEAN]

(* newState.                                                               *)
DegradeInit ==
    /\ maxLayers = 0 /\ layers = 0 /\ bitratePercent = 100
    /\ goodSince = "unset" /\ cooling = FALSE /\ observing = FALSE
    /\ wsBound = None
    /\ exec = [c \in Conns |-> "none"]
    /\ target = [c \in Conns |-> NoTarget]
    /\ told = [c \in Conns |-> NoTarget]
    /\ passed = [c \in Conns |-> FALSE]

-----------------------------------------------------------------------------
Reachable(c) == exec[c] \in {"binding", "read", "open"}

(* pushTargetStateLocked: written, under the state's mutex, to the         *)
(* connection bound now; a write to one that is closed is lost.            *)
Push ==
    /\ told' = IF wsBound # None /\ Reachable(wsBound)
                 THEN [told EXCEPT ![wsBound] = <<layers', bitratePercent'>>] ELSE told
    /\ passed' = [c \in Conns |-> passed[c] \/ exec[c] = "read"]
    /\ UNCHANGED <<wsBound, exec, target>>
Forget(S) ==
    /\ target' = [c \in Conns |-> IF c \in S THEN NoTarget ELSE target[c]]
    /\ told' = [c \in Conns |-> IF c \in S THEN NoTarget ELSE told[c]]
    /\ passed' = [c \in Conns |-> passed[c] /\ c \notin S]
Silent == UNCHANGED <<observing, execVars>>

(* ObserveSessionLayerCount: more layers than ever reset the ladder.       *)
ObserveSessionLayerCount ==
    /\ \E n \in (maxLayers + 1)..MaxLayers : maxLayers' = n /\ layers' = n
    /\ bitratePercent' = 100
    /\ Push
    /\ UNCHANGED <<goodSince, cooling, observing>>

(* degrade: the bitrate first, then, when the losses allow a restart, a    *)
(* layer; at the bottom only an alert.                                     *)
StepDown(allowLayer) ==
    \/ /\ maxLayers # 0 /\ bitratePercent > 60
       /\ bitratePercent' = bitratePercent - 20
       /\ UNCHANGED layers
       /\ Push /\ observing' = TRUE
    \/ /\ maxLayers # 0 /\ bitratePercent = 60 /\ layers > 1 /\ allowLayer
       /\ layers' = layers - 1
       /\ UNCHANGED bitratePercent
       /\ Push /\ observing' = TRUE
    \/ /\ maxLayers = 0 \/ (bitratePercent = 60 /\ (layers <= 1 \/ ~allowLayer))
       /\ Silent
       /\ UNCHANGED <<layers, bitratePercent>>

(* recover: in the other order.                                            *)
StepUp ==
    \/ /\ layers < maxLayers
       /\ layers' = layers + 1
       /\ UNCHANGED bitratePercent
       /\ Push /\ observing' = TRUE
    \/ /\ layers = maxLayers /\ bitratePercent < 100
       /\ bitratePercent' = bitratePercent + 20
       /\ UNCHANGED layers
       /\ Push /\ observing' = TRUE
    \/ /\ layers = maxLayers /\ bitratePercent = 100
       /\ Silent
       /\ UNCHANGED <<layers, bitratePercent>>

(* recordSample, above RaisePct: one step down, unless one was taken less  *)
(* than ObservationSec ago; stale is a gap that forgets both times.        *)
SampleBad ==
    /\ \E stale, allowLayer \in BOOLEAN :
         IF ~cooling \/ stale
           THEN StepDown(allowLayer) /\ cooling' = TRUE
           ELSE Silent /\ UNCHANGED <<layers, bitratePercent, cooling>>
    /\ goodSince' = "unset"
    /\ UNCHANGED maxLayers

(* recordSample, at LowerPct or below: one step up once the samples have   *)
(* been good for ObservationSec without a gap.                             *)
SampleGood ==
    /\ \/ goodSince = "long" /\ StepUp
       \/ Silent /\ UNCHANGED <<layers, bitratePercent>>
    /\ goodSince' = "set"
    /\ cooling' = FALSE
    /\ UNCHANGED maxLayers

(* ObservationSec passes since the last transition, and perhaps since the  *)
(* last bad sample and the first good one.                                 *)
ObservationPasses ==
    /\ observing \/ cooling \/ goodSince = "set"
    /\ observing' = FALSE
    /\ cooling' \in {FALSE, cooling}
    /\ goodSince' \in {goodSince, IF goodSince = "set" THEN "long" ELSE goodSince}
    /\ UNCHANGED <<maxLayers, layers, bitratePercent, execVars>>

-----------------------------------------------------------------------------
(* handleWHIPDegradeWebSocket: BindConn replaces and closes the previous   *)
(* connection, reads the target under the mutex, and writes it after.      *)
BindConn(c) ==
    /\ server = "running" /\ exec[c] = "none"
    /\ wsBound' = c
    /\ LET closed == {d \in {wsBound} \cap Conns : Reachable(d)} IN
         /\ exec' = [d \in Conns |-> IF d = c THEN "binding" ELSE IF d \in closed THEN "lost" ELSE exec[d]]
         /\ Forget(closed)
    /\ UNCHANGED fsmVars

BindReads(c) ==
    /\ exec[c] = "binding"
    /\ exec' = [exec EXCEPT ![c] = "read"]
    /\ target' = [target EXCEPT ![c] = <<layers, bitratePercent>>]
    /\ UNCHANGED <<fsmVars, wsBound, told, passed>>

(* Seeded fault: a new executor waits for the next transition.             *)
BindWrites_NoSync(c) ==
    /\ exec[c] = "read"
    /\ exec' = [exec EXCEPT ![c] = "open"]
    /\ target' = [target EXCEPT ![c] = NoTarget]
    /\ UNCHANGED <<fsmVars, wsBound, told, passed>>

BindWrites(c) ==
    /\ exec[c] = "read"
    /\ exec' = [exec EXCEPT ![c] = "open"]
    /\ told' = IF target[c][1] = 0 THEN told ELSE [told EXCEPT ![c] = target[c]]
    /\ target' = [target EXCEPT ![c] = NoTarget]
    /\ UNCHANGED <<fsmVars, wsBound, passed>>

(* The read loop ends: the executor is gone, or another took its place.    *)
ExecutorLeaves(c) ==
    /\ exec[c] = "open"
    /\ exec' = [exec EXCEPT ![c] = "lost"]
    /\ Forget({c})
    /\ UNCHANGED <<fsmVars, wsBound>>

(* The handler's last deferred call comes first: it waits for the server's *)
(* context, and only then does UnbindConn run.                             *)
HandlerReturns(c) ==
    /\ server # "running" /\ exec[c] \in {"open", "lost"}
    /\ exec' = [exec EXCEPT ![c] = "done"]
    /\ wsBound' = IF wsBound = c THEN None ELSE wsBound
    /\ UNCHANGED <<fsmVars, target, told, passed>>

ExecutorsReturned == \A c \in Conns : exec[c] \in {"none", "done"}

DegradeNext ==
    /\ \/ ObserveSessionLayerCount \/ SampleBad \/ SampleGood \/ ObservationPasses
       \/ \E c \in Conns : BindConn(c) \/ BindReads(c) \/ BindWrites(c) \/ ExecutorLeaves(c)
                           \/ HandlerReturns(c)
    /\ UNCHANGED sessionsVars

DegradeProgress(c) == BindReads(c) \/ BindWrites(c) \/ HandlerReturns(c)
=============================================================================
