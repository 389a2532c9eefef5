------------------------------ MODULE Control -------------------------------
(***************************************************************************)
(* What a node has to do with the control center: the client that keeps a  *)
(* connection to it and executes its commands (mmxcontrol/client.go), and  *)
(* the publish whitelist that is polled from it (publish_whitelist.go),    *)
(* for one application and one WebRTC session of that application.  Both   *)
(* are closed and created by the core in every reload.                     *)
(***************************************************************************)
EXTENDS Core

CONSTANTS
    FallbackCycles,     \* fallbackCyclesBeforeRetry
    MaxVerdicts         \* bound on the center's changes of mind

ASSUME ControlAssumption == FallbackCycles \in Nat \ {0} /\ MaxVerdicts \in Nat

VARIABLES
    client,     \* the client's goroutine
    hinted,     \* connect() returned errReconnectHint
    cycles,     \* cycles of runFallback
    reader,     \* read goroutine of the connection: "none", "reading", "executing"
    late,       \* that of a connection that is lost still executes a command
    eligible,   \* the center lists the application
    verdicts,   \* the times that this will still change
    known,      \* whitelist.apps has it: "unset" before the first answer, "in", "out"
    oldKnown,   \* the same of the stopped whitelist that the path manager holds
    fetched,    \* the answer that refresh has got: "none", "in", "out"
    session,    \* a session of the application: "none", "checking", "live"
    unguarded   \* history: it lived without a whitelist that knew of the application

clientVars == <<client, hinted, cycles, reader, late>>
listVars == <<eligible, verdicts, known, oldKnown, fetched>>
controlVars == <<clientVars, listVars, session, unguarded>>

ControlTypeOK ==
    /\ client \in {"off", "dialing", "registering", "registered", "lost", "fallback", "polled", "backoff"}
    /\ hinted \in BOOLEAN /\ late \in BOOLEAN /\ eligible \in BOOLEAN /\ unguarded \in BOOLEAN
    /\ cycles \in 0..(FallbackCycles - 1) /\ verdicts \in 0..MaxVerdicts
    /\ reader \in {"none", "reading", "executing"}
    /\ known \in {"unset", "in", "out"} /\ oldKnown \in {"unset", "in", "out"}
    /\ fetched \in {"none", "in", "out"}
    /\ session \in {"none", "checking", "live"}

ListOf(e) == IF e THEN "in" ELSE "out"

ControlInit ==
    /\ client = IF "mmxControl" \in live THEN "dialing" ELSE "off"
    /\ hinted = FALSE /\ cycles = 0 /\ reader = "none" /\ late = FALSE
    /\ eligible = TRUE /\ verdicts = IF "control" \in conf THEN MaxVerdicts ELSE 0
    /\ known = "unset" /\ oldKnown = "unset" /\ fetched = "none"
    /\ session = "none" /\ unguarded = FALSE

-----------------------------------------------------------------------------
(* handleControlCommand, handleAppRevoked: CloseSessionsForApp, if there   *)
(* is a WebRTC server.                                                     *)
Cut == session' = IF "webrtc" \in live THEN "none" ELSE session

(* The client's context: its own, cancelled by Close, or the core's.       *)
ClientCancelled == pc = "clients" \/ Shutdown

Client(from, to) ==
    /\ client = from /\ client' = to
    /\ UNCHANGED <<coreVars, listVars, session, unguarded>>

(* run() and runFallback look at the context before each of their steps,   *)
(* and the dials, the calls and the pauses end with it.                    *)
GoesOn(from, to) == ~ClientCancelled /\ Client(from, to)

Dial ==
    \/ /\ GoesOn("dialing", "registering")
       /\ reader' = "reading"
       /\ hinted' = FALSE
       /\ UNCHANGED <<cycles, late>>
    \/ /\ GoesOn("dialing", "lost")
       /\ hinted' = FALSE
       /\ UNCHANGED <<cycles, reader, late>>

(* The registration is acknowledged; there is no deadline for it.          *)
Registered ==
    /\ reader = "reading"
    /\ Client("registering", "registered")
    /\ UNCHANGED <<hinted, cycles, reader, late>>

(* connect returns: the registration is rejected, a message cannot be      *)
(* written or read, or the center asks for a reconnection.  The read       *)
(* goroutine is not waited for.                                            *)
ConnectionLost ==
    /\ \E from \in {"registering", "registered"} : Client(from, "lost")
    /\ hinted' \in IF reader = "reading" THEN BOOLEAN ELSE {FALSE}
    /\ late' = (late \/ reader = "executing")
    /\ reader' = "none"
    /\ UNCHANGED cycles

(* A command is pushed; the read goroutine executes it.                    *)
CommandPushed ==
    /\ client \in {"registering", "registered"} /\ reader = "reading"
    /\ reader' = "executing"
    /\ UNCHANGED <<coreVars, listVars, session, unguarded, client, hinted, cycles, late>>

CommandExecuted ==
    /\ \/ reader = "executing" /\ reader' = "reading" /\ UNCHANGED late
       \/ late /\ late' = FALSE /\ UNCHANGED reader
    /\ Cut
    /\ UNCHANGED <<coreVars, listVars, unguarded, client, hinted, cycles>>

StartFallback ==
    /\ GoesOn("lost", "fallback")
    /\ cycles' = 0
    /\ UNCHANGED <<hinted, reader, late>>

(* Seeded fault: a fallback that works is never left.                      *)
FallbackCycle_Parks ==
    /\ GoesOn("fallback", "fallback")
    /\ cycles' = 0
    /\ UNCHANGED <<hinted, reader, late>>

(* A cycle of runFallback: heartbeat, poll, no command.  After the last    *)
(* one the connection is tried again at once.                              *)
FallbackCycle ==
    /\ IF cycles + 1 = FallbackCycles
         THEN GoesOn("fallback", "dialing") /\ UNCHANGED cycles
         ELSE GoesOn("fallback", "fallback") /\ cycles' = cycles + 1
    /\ UNCHANGED <<hinted, reader, late>>

CommandPolled ==
    /\ GoesOn("fallback", "polled")
    /\ UNCHANGED <<hinted, cycles, reader, late>>

PolledExecuted ==
    /\ client = "polled"
    /\ Cut
    /\ client' = IF cycles + 1 = FallbackCycles THEN "dialing" ELSE "fallback"
    /\ cycles' = IF cycles + 1 = FallbackCycles THEN cycles ELSE cycles + 1
    /\ UNCHANGED <<coreVars, listVars, unguarded, hinted, reader, late>>

(* The fallback fails: a pause before the next connection, unless the last *)
(* one ended by a hint.                                                    *)
FallbackFails ==
    /\ GoesOn("fallback", IF hinted THEN "dialing" ELSE "backoff")
    /\ UNCHANGED <<hinted, cycles, reader, late>>

BackoffEnds ==
    /\ GoesOn("backoff", "dialing")
    /\ UNCHANGED <<hinted, cycles, reader, late>>

(* Seeded fault: the wait for the registration does not look at the        *)
(* context.                                                                *)
ClientEnds_WaitsForAck ==
    /\ ClientCancelled
    /\ \E from \in {"dialing", "registered", "lost", "fallback", "backoff"} : Client(from, "off")
    /\ late' = (late \/ reader = "executing")
    /\ reader' = "none"
    /\ UNCHANGED <<hinted, cycles>>

(* run() returns; a command it is executing is finished first.             *)
ClientEnds ==
    /\ ClientCancelled
    /\ \E from \in {"dialing", "registering", "registered", "lost", "fallback", "backoff"} :
         Client(from, "off")
    /\ late' = (late \/ reader = "executing")
    /\ reader' = "none"
    /\ UNCHANGED <<hinted, cycles>>

-----------------------------------------------------------------------------
EligibilityChanges ==
    /\ verdicts > 0 /\ verdicts' = verdicts - 1
    /\ eligible' = ~eligible
    /\ UNCHANGED <<coreVars, clientVars, known, oldKnown, fetched, session, unguarded>>

(* refresh: the answer is fetched, then applied.                           *)
RefreshFetches ==
    /\ "whitelist" \in live /\ fetched = "none" /\ pc # "clients"
    /\ fetched' = ListOf(eligible)
    /\ UNCHANGED <<coreVars, clientVars, eligible, verdicts, known, oldKnown, session, unguarded>>

(* Seeded fault: the applications that are gone are not looked for.        *)
RefreshApplied_NoDiff ==
    /\ fetched # "none"
    /\ known' = fetched /\ fetched' = "none"
    /\ UNCHANGED <<session, unguarded>>
    /\ UNCHANGED <<coreVars, clientVars, eligible, verdicts, oldKnown>>

(* An application that was in the previous list and is not in this one has *)
(* its sessions closed; there is no previous list the first time.          *)
RefreshApplied ==
    /\ fetched # "none"
    /\ known' = fetched /\ fetched' = "none"
    /\ IF known = "in" /\ fetched = "out" THEN Cut ELSE UNCHANGED session
    /\ unguarded' = (unguarded \/ (known = "unset" /\ session # "none"))
    /\ UNCHANGED <<coreVars, clientVars, eligible, verdicts, oldKnown>>

-----------------------------------------------------------------------------
(* A WHIP session: in the server's table first, then checked by the path   *)
(* manager against the whitelist it holds, which may be none, or one that  *)
(* was stopped.                                                            *)
SessionArrives ==
    /\ session = "none" /\ "webrtc" \in live /\ ~Shutdown
    /\ session' = "checking"
    /\ UNCHANGED <<coreVars, clientVars, listVars, unguarded>>

Allowed ==
    IF Holds("pathManager", "whitelist") THEN known = "in"
    ELSE <<"pathManager", "whitelist">> \in dangling => oldKnown = "in"

SessionChecked ==
    /\ session = "checking"
    /\ session' = IF Allowed THEN "live" ELSE "none"
    /\ unguarded' = ~Holds("pathManager", "whitelist")
    /\ UNCHANGED <<coreVars, clientVars, listVars>>

SessionLeaves ==
    /\ session = "live"
    /\ session' = "none"
    /\ UNCHANGED <<coreVars, clientVars, listVars, unguarded>>
=============================================================================
