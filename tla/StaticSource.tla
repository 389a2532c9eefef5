---------------------------- MODULE StaticSource ----------------------------
(***************************************************************************)
(* A static source (internal/staticsources/handler.go) between a path and  *)
(* the instance that pulls the stream.                                     *)
(*                                                                         *)
(* Three goroutines meet on unbuffered channels: the path's loop, which    *)
(* starts and stops the source and waits for its end; the handler's loop,  *)
(* which restarts the instance when it fails and passes its calls on to    *)
(* the path; and the instance.  Reloads travel in goroutines of their own, *)
(* from the path to the handler and from the handler to the instance.      *)
(***************************************************************************)
EXTENDS Naturals

CONSTANTS
    OnDemand,       \* conf.HasOnDemandStaticSource()
    MaxReloads      \* bound: hot reloads of the path

ASSUME SourceAssumption == OnDemand \in BOOLEAN /\ MaxReloads \in Nat

VARIABLES
    ppc,            \* the path: "select", "stopping" (in Stop), "ending" (in
                    \* Stop, for the last time), "done"
    pctx,           \* the path's context is done
    online,         \* the source feeds the path's stream
    pconf,          \* pa.conf, by its version
    running,        \* s.running
    ctx,            \* s.ctx is done
    hpc,            \* the handler: "off", "select", "ready", "notReady" (in a
                    \* call of the path), "draining" (<-runErr)
    recreating,     \* the instance has failed, the timer is armed
    hconf,          \* s.Conf
    ipc,            \* the instance: "off", "run", "askReady", "waitReady",
                    \* "up", "askNot", "waitNot", "ended" (runErr <-)
    runCtx,         \* the instance's context is done
    iconf,          \* the configuration the instance works with
    toHandler,      \* goroutines of ReloadConf: <<version, its context is done>>
    toInstance      \* goroutines of the handler's reload, likewise

pathVars == <<ppc, pctx, online, pconf>>
handVars == <<running, ctx, hpc, recreating, hconf>>
instVars == <<ipc, runCtx, iconf>>
confVars == <<toHandler, toInstance>>
sourceVars == <<pathVars, handVars, instVars, confVars>>

Versions == 0..MaxReloads
Reloads == Versions \X BOOLEAN

(* What a cancelled context makes of the reloads that watch it: they may   *)
(* give up, but still be received.                                         *)
Cancelled(reloads) == {<<r[1], TRUE>> : r \in reloads}

SourceInit ==
    /\ ppc = "select" /\ pctx = FALSE /\ online = FALSE /\ pconf = 0
    /\ running = ~OnDemand /\ ctx = FALSE /\ recreating = FALSE /\ hconf = 0
    /\ hpc = (IF OnDemand THEN "off" ELSE "select")
    /\ ipc = (IF OnDemand THEN "off" ELSE "run")
    /\ runCtx = FALSE /\ iconf = 0
    /\ toHandler = {} /\ toInstance = {}

(***************************************************************************)
(* The path's loop.                                                        *)
(***************************************************************************)
(* Handler.Start, on the first request of an on-demand source.             *)
Start ==
    /\ ppc = "select" /\ ~pctx
    /\ OnDemand /\ ~running
    /\ running' = TRUE
    /\ ctx' = FALSE
    /\ hpc' = "select" /\ recreating' = FALSE
    /\ ipc' = "run" /\ runCtx' = FALSE /\ iconf' = hconf
    /\ UNCHANGED <<pathVars, hconf, confVars>>

(* Handler.Stop, up to its wait: the path has put the stream away first.   *)
StopHandler ==
    /\ online' = FALSE
    /\ running' = FALSE
    /\ ctx' = TRUE
    /\ toHandler' = Cancelled(toHandler)

(* The close timer or the ready timer of an on-demand source.              *)
Stop ==
    /\ ppc = "select" /\ ~pctx
    /\ OnDemand /\ running
    /\ StopHandler
    /\ ppc' = "stopping"
    /\ UNCHANGED <<pctx, pconf, hpc, recreating, hconf, instVars, toInstance>>

(* Seeded fault: Stop does not wait.                                       *)
StopReturns_NoWait ==
    /\ ppc \in {"stopping", "ending"}
    /\ ppc' = IF ppc = "ending" THEN "done" ELSE "select"
    /\ UNCHANGED <<pctx, online, pconf, handVars, instVars, confVars>>

(* <-s.done                                                                *)
StopReturns ==
    /\ ppc \in {"stopping", "ending"}
    /\ hpc = "off"
    /\ ppc' = IF ppc = "ending" THEN "done" ELSE "select"
    /\ UNCHANGED <<pctx, online, pconf, handVars, instVars, confVars>>

(* doSourceStaticSetReady: the reply goes to the instance.                 *)
doSourceStaticSetReady ==
    /\ ppc = "select" /\ hpc = "ready"
    /\ hpc' = "select"
    /\ \/ online' = TRUE /\ ipc' = "up"
       \/ UNCHANGED online /\ ipc' = "ended"
    /\ UNCHANGED <<ppc, pctx, pconf, running, ctx, recreating, hconf, runCtx, iconf, confVars>>

(* doSourceStaticSetNotReady: the stream is put away, the instance gets    *)
(* its reply, and an on-demand source is stopped.                          *)
doSourceStaticSetNotReady ==
    /\ ppc = "select" /\ hpc = "notReady"
    /\ hpc' = "select"
    /\ ipc' = "ended"
    /\ IF OnDemand
       THEN StopHandler /\ ppc' = "stopping"
       ELSE online' = FALSE /\ UNCHANGED <<ppc, running, ctx, toHandler>>
    /\ UNCHANGED <<pctx, pconf, recreating, hconf, runCtx, iconf, toInstance>>

(* doReloadConf, and Handler.ReloadConf: dropped if the source is stopped. *)
ReloadConf ==
    /\ ppc = "select" /\ ~pctx
    /\ pconf < MaxReloads
    /\ pconf' = pconf + 1
    /\ toHandler' = IF running THEN toHandler \cup {<<pconf + 1, FALSE>>} ELSE toHandler
    /\ UNCHANGED <<ppc, pctx, online, handVars, instVars, toInstance>>

(* The manager closes the path.                                            *)
ClosePath ==
    /\ ~pctx
    /\ pctx' = TRUE
    /\ UNCHANGED <<ppc, online, pconf, handVars, instVars, confVars>>

(* The end of path.run.                                                    *)
EndPath ==
    /\ ppc = "select" /\ pctx
    /\ IF running THEN StopHandler /\ ppc' = "ending"
       ELSE ppc' = "done" /\ UNCHANGED <<online, running, ctx, toHandler>>
    /\ UNCHANGED <<pctx, pconf, hpc, recreating, hconf, instVars, toInstance>>

(***************************************************************************)
(* The handler's loop.                                                     *)
(***************************************************************************)
(* err := <-runErr                                                         *)
InstanceFailed ==
    /\ hpc = "select" /\ ipc = "ended"
    /\ ipc' = "off" /\ runCtx' = TRUE
    /\ toInstance' = Cancelled(toInstance)
    /\ recreating' = TRUE
    /\ UNCHANGED <<pathVars, running, ctx, hpc, hconf, iconf, toHandler>>

(* <-recreateTimer.C                                                       *)
Recreate ==
    /\ hpc = "select" /\ recreating
    /\ ipc' = "run" /\ runCtx' = FALSE /\ iconf' = hconf
    /\ recreating' = FALSE
    /\ UNCHANGED <<pathVars, running, ctx, hpc, hconf, confVars>>

(* chInstanceSetReady, chInstanceSetNotReady: on to the path.              *)
PassSetReady ==
    /\ hpc = "select" /\ ipc = "askReady"
    /\ hpc' = "ready" /\ ipc' = "waitReady"
    /\ UNCHANGED <<pathVars, running, ctx, recreating, hconf, runCtx, iconf, confVars>>

PassSetNotReady ==
    /\ hpc = "select" /\ ipc = "askNot"
    /\ hpc' = "notReady" /\ ipc' = "waitNot"
    /\ UNCHANGED <<pathVars, running, ctx, recreating, hconf, runCtx, iconf, confVars>>

(* Seeded fault: the call of the path does not watch the handler's context.*)
CallAborted_PathOnly ==
    /\ hpc \in {"ready", "notReady"}
    /\ pctx
    /\ hpc' = "select" /\ ipc' = "ended"
    /\ UNCHANGED <<pathVars, running, ctx, recreating, hconf, runCtx, iconf, confVars>>

(* StaticSourceHandlerSetReady, SetNotReady: the path or the handler ends. *)
CallAborted ==
    /\ hpc \in {"ready", "notReady"}
    /\ ctx \/ pctx
    /\ hpc' = "select" /\ ipc' = "ended"
    /\ UNCHANGED <<pathVars, running, ctx, recreating, hconf, runCtx, iconf, confVars>>

(* chReloadConf                                                            *)
TakeReload(r) ==
    /\ hpc = "select" /\ r \in toHandler
    /\ hconf' = r[1]
    /\ toHandler' = toHandler \ {r}
    /\ toInstance' = IF recreating THEN toInstance ELSE toInstance \cup {<<r[1], FALSE>>}
    /\ UNCHANGED <<pathVars, running, ctx, hpc, recreating, instVars>>

(* A goroutine of ReloadConf gives up.                                     *)
DropReload(r) ==
    /\ r \in toHandler /\ r[2]
    /\ toHandler' = toHandler \ {r}
    /\ UNCHANGED <<pathVars, handVars, instVars, toInstance>>

(* <-s.ctx.Done()                                                          *)
HandlerDone ==
    /\ hpc = "select" /\ ctx
    /\ hpc' = IF recreating THEN "off" ELSE "draining"
    /\ runCtx' = TRUE
    /\ toInstance' = Cancelled(toInstance)
    /\ UNCHANGED <<pathVars, running, ctx, recreating, hconf, ipc, iconf, toHandler>>

(* <-runErr, and the end of run.                                           *)
Drained ==
    /\ hpc = "draining" /\ ipc = "ended"
    /\ hpc' = "off" /\ ipc' = "off"
    /\ UNCHANGED <<pathVars, running, ctx, recreating, hconf, runCtx, iconf, confVars>>

(***************************************************************************)
(* The instance (any of the sources under internal/staticsources).         *)
(***************************************************************************)
(* Handler.SetReady; Run fails, or notices that its context is done.       *)
Connected ==
    /\ ipc = "run"
    /\ ipc' = "askReady"
    /\ UNCHANGED <<pathVars, handVars, runCtx, iconf, confVars>>

ConnectFailed ==
    /\ ipc = "run"
    /\ ipc' = "ended"
    /\ UNCHANGED <<pathVars, handVars, runCtx, iconf, confVars>>

(* defer SetNotReady                                                       *)
StreamLost ==
    /\ ipc = "up"
    /\ ipc' = "askNot"
    /\ UNCHANGED <<pathVars, handVars, runCtx, iconf, confVars>>

(* SetReady and SetNotReady of the handler watch its context.              *)
AskAborted ==
    /\ ipc \in {"askReady", "askNot"} /\ ctx
    /\ ipc' = "ended"
    /\ UNCHANGED <<pathVars, handVars, runCtx, iconf, confVars>>

(* <-params.ReloadConf, while Run is in its loop.                          *)
ApplyReload(r) ==
    /\ ipc \notin {"off", "ended"} /\ r \in toInstance
    /\ iconf' = r[1]
    /\ toInstance' = toInstance \ {r}
    /\ UNCHANGED <<pathVars, handVars, ipc, runCtx, toHandler>>

DropInstanceReload(r) ==
    /\ r \in toInstance /\ r[2]
    /\ toInstance' = toInstance \ {r}
    /\ UNCHANGED <<pathVars, handVars, instVars, toHandler>>

(* The path has ended: nothing is left to do.                              *)
Terminated == ppc = "done" /\ UNCHANGED sourceVars

SourceNext ==
    \/ Start \/ Stop \/ StopReturns \/ doSourceStaticSetReady \/ doSourceStaticSetNotReady
    \/ ReloadConf \/ ClosePath \/ EndPath
    \/ InstanceFailed \/ Recreate \/ PassSetReady \/ PassSetNotReady \/ CallAborted
    \/ HandlerDone \/ Drained
    \/ Connected \/ ConnectFailed \/ StreamLost \/ AskAborted
    \/ \E r \in Reloads : TakeReload(r) \/ DropReload(r) \/ ApplyReload(r) \/ DropInstanceReload(r)
    \/ Terminated

SourceSpec == SourceInit /\ [][SourceNext]_sourceVars

(***************************************************************************)
(* Fairness: the three goroutines go on when they can; the handler's       *)
(* select notices that its context is done although calls of the instance  *)
(* keep arriving, and Run returns when its context is done.                *)
(***************************************************************************)
SourceFairness ==
    /\ WF_sourceVars(StopReturns) /\ WF_sourceVars(CallAborted)
    /\ SF_sourceVars(HandlerDone) /\ WF_sourceVars(Drained)
    /\ WF_sourceVars(runCtx /\ (ConnectFailed \/ StreamLost)) /\ WF_sourceVars(AskAborted)
    /\ WF_sourceVars(ipc \in {"waitReady", "waitNot"} /\ (doSourceStaticSetReady \/ doSourceStaticSetNotReady))

SourceFairSpec == SourceSpec /\ SourceFairness

(***************************************************************************)
(* Properties.                                                             *)
(***************************************************************************)
(* Type invariant of the path, the handler and the instance.               *)
SourceTypeOK ==
    /\ ppc \in {"select", "stopping", "ending", "done"}
    /\ pctx \in BOOLEAN /\ online \in BOOLEAN /\ pconf \in Versions
    /\ running \in BOOLEAN /\ ctx \in BOOLEAN /\ recreating \in BOOLEAN /\ hconf \in Versions
    /\ hpc \in {"off", "select", "ready", "notReady", "draining"}
    /\ ipc \in {"off", "run", "askReady", "waitReady", "up", "askNot", "waitNot", "ended"}
    /\ runCtx \in BOOLEAN /\ iconf \in Versions
    /\ toHandler \subseteq Reloads /\ toInstance \subseteq Reloads

(* The source's stream is available only while an instance feeds it: one   *)
(* that said it was ready and has not been told that the end of the stream *)
(* was noted.  (A path whose context is done no longer takes the note.)    *)
OnlineIsFed == online /\ ~pctx => ipc \in {"up", "askNot", "waitNot"}

(* Once Stop has returned, no handler and no instance of the source is     *)
(* left ("we must wait since s.ctx is not thread safe").                   *)
StoppedIsQuiet == ~running /\ ppc \in {"select", "done"} => hpc = "off" /\ ipc = "off"

(* The state of the source as a path that is not told to close sees it.    *)
View == IF pctx THEN "stopped" ELSE IF online THEN "ready"
        ELSE IF running THEN "running" ELSE "stopped"

Contract == INSTANCE SourceContract WITH st <- View

(* The source keeps the contract that the path is written against: no call *)
(* of an instance reaches the path out of turn or after Stop.              *)
KeepsContract == Contract!Spec

(* Stop returns ("this avoids deadlocks caused by <-done inside stop()").  *)
StopEnds == ppc \in {"stopping", "ending"} ~> ppc \in {"select", "done"}
=============================================================================
