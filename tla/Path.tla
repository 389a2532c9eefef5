-------------------------------- MODULE Path --------------------------------
(***************************************************************************)
(* The event loop of one path (internal/core/path.go).                     *)
(*                                                                         *)
(* A path owns one source (a publisher, a static source pulled by a        *)
(* staticsources.Handler, or a redirect), the stream it feeds, the readers *)
(* of the stream, and the describe / read requests put on hold while an    *)
(* on-demand source starts.  One goroutine runs the loop, so each handler  *)
(* is one action.  Requests are first routed to the path by the path       *)
(* manager, which counts them in pendingRequests, and handled later.       *)
(*                                                                         *)
(* The operations of the recording API (StartOnDemandRecording and its     *)
(* siblings), which run on HTTP goroutines, are not part of this module.   *)
(***************************************************************************)
EXTENDS Naturals, Sequences, FiniteSets

CONSTANTS
    Describers,     \* clients issuing describe requests
    Readers,        \* sessions issuing addReader / RemoveReader
    Publishers,     \* sessions issuing addPublisher / RemovePublisher
    Confs,          \* the path configurations that reloads choose from
    Settings,       \* parameters of a recorder or forwarder
    Off,            \* recorder / forwarder switched off, or not running
    EgressEnabled,  \* the egresses the node-level switches allow
    None            \* no source

(* What the path opens on a stream: the recorder and the two kinds of      *)
(* forwarders.  The recorder has no node-level switch.                     *)
Egress == {"recorder", "tencent", "mmx"}

Clients  == Describers \cup Readers \cup Publishers
Sessions == Readers \cup Publishers

(***************************************************************************)
(* Path configurations: the fields the loop looks at.                      *)
(***************************************************************************)
ConfType ==
    [source : {"publisher", "redirect", "static"},
     regexp : BOOLEAN,              \* Regexp # nil
     alwaysAvailable : BOOLEAN,
     sourceOnDemand : BOOLEAN,
     runOnDemand : BOOLEAN,         \* RunOnDemand # ""
     overridePublisher : BOOLEAN,
     maxReaders : Nat,              \* 0: no limit
     egress : [Egress -> Settings \cup {Off}]]

(* The combinations that Path.validate lets through.                       *)
ValidConf(c) ==
    /\ c.sourceOnDemand => c.source # "publisher"
    /\ c.source = "static" /\ c.regexp => c.sourceOnDemand
    /\ c.alwaysAvailable => ~c.regexp /\ ~c.sourceOnDemand /\ ~c.runOnDemand
    /\ c.runOnDemand => c.source = "publisher"

ASSUME PathAssumption ==
    /\ Confs \subseteq {c \in ConfType : ValidConf(c)}
    /\ IsFiniteSet(Clients)
    /\ Describers \cap Sessions = {}
    /\ Readers \cap Publishers = {}
    /\ None \notin Publishers /\ Off \notin Settings
    /\ {"redirect", "static"} \cap Publishers = {}
    /\ None \notin {"redirect", "static"}
    /\ EgressEnabled \subseteq Egress /\ "recorder" \in EgressEnabled

HasOnDemandStaticSource(c) == c.source = "static" /\ c.sourceOnDemand
HasOnDemandPublisher(c) == c.runOnDemand

(* A hot reload may not change these fields (pathConfCanBeUpdated).        *)
CanBeUpdated(old, new) ==
    \A f \in {"source", "alwaysAvailable", "sourceOnDemand", "runOnDemand",
              "overridePublisher", "maxReaders"} : new[f] = old[f]

VARIABLES
    conf,           \* pa.conf
    phase,          \* "running", "asking" (blocked in closePathIfIdle),
                    \* "closing" (context cancelled), "done"
    source,         \* pa.source
    handler,        \* static source: "stopped", "running", "ready"
    stream,         \* "nil"; "bare": no sub-stream; "offline"; "live"
    readers,        \* pa.readers
    heldDescribes,  \* pa.describeRequestsOnHold
    heldReaders,    \* pa.readerAddRequestsOnHold, in order of arrival
    ssState,        \* pa.onDemandStaticSourceState
    pubState,       \* pa.onDemandPublisherState
    timers,         \* the armed timers of the path
    demandHook,     \* pa.onUnDemandHook # nil: runOnDemand is running
    readyHook,      \* runOnReady is running and onNotReadyHook will stop it
    egress,         \* the running recorder and forwarders, by parameters
    leaked,         \* resources whose only reference was overwritten
    pendingRequests,\* pa.pendingRequests
    call,           \* each client's request: "none", "routed" or "held"
    session         \* "in": was accepted; "kicked": Close() was called

pathVars   == <<stream, readers, readyHook, egress, leaked>>
demandVars == <<ssState, pubState, timers, demandHook>>
holdVars   == <<heldDescribes, heldReaders>>
vars == <<conf, phase, source, handler, pathVars, holdVars, demandVars,
          pendingRequests, call, session>>

(***************************************************************************)
(* Helpers of the handlers.                                                *)
(***************************************************************************)
OnDemandState == {"initial", "waitingReady", "ready", "closing"}
Timer == {"ssReady", "ssClose", "pubReady", "pubClose"}

(* setAvailable starts what the configuration and the node switches ask for.*)
Started(c) == {e \in EgressEnabled : c.egress[e] # Off}

AllOff == [e \in Egress |-> Off]

OpenEgress(old) ==
    [e \in Egress |-> IF e \in Started(conf) THEN conf.egress[e] ELSE old[e]]

(* What setAvailable overwrites without closing it, when the hook of the   *)
(* previous stream is still installed or an egress still runs.             *)
Overwritten(hook, old) ==
    (IF hook THEN {"runOnReady"} ELSE {}) \cup {e \in Started(conf) : old[e] # Off}

Routed == {c \in Clients : call[c] = "routed"}
Held == heldDescribes \cup {heldReaders[i] : i \in DOMAIN heldReaders}

(* addReaderPost, applied in order to the reader requests on hold: those   *)
(* that find room are admitted.                                            *)
Admitted(rds) ==
    {heldReaders[i] : i \in {j \in DOMAIN heldReaders :
        conf.maxReaders = 0 \/ Cardinality(rds) + j <= conf.maxReaders}}

HasRoom == conf.maxReaders = 0 \/ Cardinality(readers) < conf.maxReaders

ShouldClose ==
    /\ conf.regexp
    /\ source = None
    /\ readers = {}
    /\ heldDescribes = {}
    /\ heldReaders = <<>>

(* A handler runs when the loop is at its select; once the context is      *)
(* cancelled the select may still prefer another ready channel.            *)
AtSelect == phase \in {"running", "closing"}

(* if pa.shouldClose() { pa.parent.closePathIfIdle(pa) }: the call returns *)
(* at once when the context is already cancelled.                          *)
CloseIfIdle ==
    phase' = IF phase = "running" /\ ShouldClose' THEN "asking" ELSE phase

(* A counted request leaves the queue of the path.                         *)
Take(c) ==
    /\ AtSelect
    /\ call[c] = "routed"
    /\ pendingRequests' = pendingRequests - 1

Answer(cs) == call' = [c \in Clients |-> IF c \in cs THEN "none" ELSE call[c]]

(* Seeded fault: the reader requests on hold get no answer.                *)
FailHeldRequests_DescribesOnly ==
    /\ heldDescribes' = {}
    /\ heldReaders' = <<>>
    /\ Answer(heldDescribes)

(* The requests on hold are answered with an error.                        *)
FailHeldRequests ==
    /\ heldDescribes' = {}
    /\ heldReaders' = <<>>
    /\ Answer(Held)

(* Sessions that get a positive answer are in, unless already told to      *)
(* close; sessions whose Close() is called are kicked.                     *)
Admit(cs, kicked) ==
    session' = [s \in Sessions |->
        IF s \in kicked /\ session[s] # "out" THEN "kicked"
        ELSE IF s \in cs /\ session[s] = "out" THEN "in" ELSE session[s]]

(***************************************************************************)
(* On-demand sources.                                                      *)
(***************************************************************************)
onDemandStaticSourceStart ==
    /\ handler' = "running"
    /\ ssState' = "waitingReady"
    /\ timers' = timers \cup {"ssReady"}
    /\ UNCHANGED <<pubState, demandHook>>

onDemandPublisherStart ==
    /\ demandHook' = TRUE
    /\ pubState' = "waitingReady"
    /\ timers' = timers \cup {"pubReady"}
    /\ UNCHANGED <<ssState, handler>>

(* A request that finds no stream starts the on-demand source, unless it   *)
(* was started before.                                                     *)
StartOnDemand ==
    IF HasOnDemandStaticSource(conf)
    THEN IF ssState = "initial" THEN onDemandStaticSourceStart
         ELSE UNCHANGED <<handler, demandVars>>
    ELSE IF pubState = "initial" THEN onDemandPublisherStart
         ELSE UNCHANGED <<handler, demandVars>>

HasOnDemand == HasOnDemandStaticSource(conf) \/ HasOnDemandPublisher(conf)

(* Seeded fault: an armed close timer is not stopped.                      *)
onDemandStaticSourceStop_TimerKept(fired) ==
    /\ handler' = "stopped"
    /\ ssState' = "initial"
    /\ timers' = timers \ fired
    /\ UNCHANGED <<pubState, demandHook>>

(* fired: the timer whose expiry is being handled, if any.                 *)
onDemandStaticSourceStop(fired) ==
    /\ handler' = "stopped"
    /\ ssState' = "initial"
    /\ timers' = timers \ (fired \cup IF ssState = "closing" THEN {"ssClose"} ELSE {})
    /\ UNCHANGED <<pubState, demandHook>>

onDemandPublisherStop(fired) ==
    /\ demandHook' = FALSE
    /\ pubState' = "initial"
    /\ timers' = timers \ (fired \cup IF pubState = "closing" THEN {"pubClose"} ELSE {})
    /\ UNCHANGED <<ssState, handler>>

(* The source became ready: the ready timer is stopped and the close timer *)
(* is armed; admitting a reader from hold disarms it again.                *)
StaticSourceReady(admitted) ==
    /\ IF admitted = {}
       THEN /\ ssState' = "closing"
            /\ timers' = (timers \ {"ssReady"}) \cup {"ssClose"}
       ELSE /\ ssState' = "ready"
            /\ timers' = timers \ {"ssReady", "ssClose"}
    /\ UNCHANGED <<pubState, demandHook>>

PublisherReady(admitted) ==
    /\ IF admitted = {}
       THEN /\ pubState' = "closing"
            /\ timers' = (timers \ {"pubReady"}) \cup {"pubClose"}
       ELSE /\ pubState' = "ready"
            /\ timers' = timers \ {"pubReady", "pubClose"}
    /\ UNCHANGED <<ssState, demandHook>>

(* Seeded fault: a new reader does not stop the close timer.               *)
ReaderAdded_TimerKept == UNCHANGED demandVars

(* addReaderPost of one new reader: the source is needed again.            *)
ReaderAdded ==
    IF HasOnDemandStaticSource(conf) /\ ssState = "closing"
    THEN /\ ssState' = "ready"
         /\ timers' = timers \ {"ssClose"}
         /\ UNCHANGED <<pubState, demandHook>>
    ELSE IF HasOnDemandPublisher(conf) /\ pubState = "closing"
    THEN /\ pubState' = "ready"
         /\ timers' = timers \ {"pubClose"}
         /\ UNCHANGED <<ssState, demandHook>>
    ELSE UNCHANGED demandVars

(* doRemoveReader: the last reader schedules the closing of the source.    *)
LastReaderGone ==
    IF HasOnDemandStaticSource(conf) /\ ssState = "ready"
    THEN /\ ssState' = "closing"
         /\ timers' = timers \cup {"ssClose"}
         /\ UNCHANGED <<pubState, demandHook>>
    ELSE IF HasOnDemandPublisher(conf) /\ pubState = "ready"
    THEN /\ pubState' = "closing"
         /\ timers' = timers \cup {"pubClose"}
         /\ UNCHANGED <<ssState, demandHook>>
    ELSE UNCHANGED demandVars

(***************************************************************************)
(* Stream.                                                                 *)
(***************************************************************************)
(* setNotAvailable, session update excluded: every reader is removed and   *)
(* closed, the hook runs, recorder, forwarders and stream are closed.      *)
setNotAvailable ==
    /\ stream' = "nil"
    /\ readers' = {}
    /\ readyHook' = FALSE
    /\ egress' = AllOff
    /\ UNCHANGED leaked

(***************************************************************************)
(* The initial state is the one at the first select of run(): an           *)
(* always-available path has its offline stream, a static source that is   *)
(* not on demand is started.  The path manager creates a path with a       *)
(* regular expression only to serve a request, which it has counted.       *)
(***************************************************************************)
Init ==
    /\ conf \in Confs
    /\ phase = "running"
    /\ source = IF conf.source = "publisher" THEN None ELSE conf.source
    /\ handler = IF conf.source = "static" /\ ~conf.sourceOnDemand
                 THEN "running" ELSE "stopped"
    /\ stream = IF conf.alwaysAvailable THEN "offline" ELSE "nil"
    /\ readyHook = conf.alwaysAvailable
    /\ egress = IF conf.alwaysAvailable THEN OpenEgress(AllOff) ELSE AllOff
    /\ readers = {}
    /\ heldDescribes = {}
    /\ heldReaders = <<>>
    /\ ssState = "initial"
    /\ pubState = "initial"
    /\ timers = {}
    /\ demandHook = FALSE
    /\ leaked = {}
    /\ \/ conf.regexp /\ \E c \in Clients : call = [d \in Clients |->
              IF d = c THEN "routed" ELSE "none"]
       \/ ~conf.regexp /\ call = [d \in Clients |-> "none"]
    /\ pendingRequests = IF conf.regexp THEN 1 ELSE 0
    /\ session = [s \in Sessions |-> "out"]

(***************************************************************************)
(* The path manager's side of a request: it finds the path, counts the     *)
(* request and replies with the path (doDescribe, doAddReader and          *)
(* doAddPublisher of path_manager.go).  A path being closed has already    *)
(* left the manager's map.  An accepted publisher does not publish twice;  *)
(* an RTSP reader does add itself again, once per track.                   *)
(***************************************************************************)
Route(c) ==
    /\ phase \in {"running", "asking"}
    /\ call[c] = "none"
    /\ c \in Publishers => session[c] = "out"
    /\ call' = [call EXCEPT ![c] = "routed"]
    /\ pendingRequests' = pendingRequests + 1
    /\ UNCHANGED <<conf, phase, source, handler, pathVars, holdVars, demandVars, session>>

(* Seeded fault: the manager does not look at pendingRequests.             *)
ClosePathIfIdle_Unconditional ==
    /\ phase = "asking"
    /\ phase' = "closing"
    /\ UNCHANGED <<conf, source, handler, pathVars, holdVars, demandVars,
                   pendingRequests, call, session>>

(* chClosePathIfIdle: the manager closes the path if nothing is pending.   *)
ClosePathIfIdle ==
    /\ phase = "asking"
    /\ phase' = IF pendingRequests = 0 THEN "closing" ELSE "running"
    /\ UNCHANGED <<conf, source, handler, pathVars, holdVars, demandVars,
                   pendingRequests, call, session>>

(* close() by a reload or by the shutdown of the manager.                  *)
Close ==
    /\ phase \in {"running", "asking"}
    /\ phase' = "closing"
    /\ UNCHANGED <<conf, source, handler, pathVars, holdVars, demandVars,
                   pendingRequests, call, session>>

(***************************************************************************)
(* Handlers of runInner.                                                   *)
(***************************************************************************)
doOnDemandStaticSourceReadyTimer ==
    /\ AtSelect
    /\ "ssReady" \in timers
    /\ FailHeldRequests
    /\ onDemandStaticSourceStop({"ssReady"})
    /\ UNCHANGED <<conf, source, pathVars, pendingRequests, session>>
    /\ CloseIfIdle

doOnDemandStaticSourceCloseTimer ==
    /\ AtSelect
    /\ "ssClose" \in timers
    /\ setNotAvailable
    /\ Admit({}, readers)
    /\ onDemandStaticSourceStop({"ssClose"})
    /\ UNCHANGED <<conf, source, holdVars, pendingRequests, call>>
    /\ CloseIfIdle

doOnDemandPublisherReadyTimer ==
    /\ AtSelect
    /\ "pubReady" \in timers
    /\ FailHeldRequests
    /\ onDemandPublisherStop({"pubReady"})
    /\ UNCHANGED <<conf, source, pathVars, pendingRequests, session>>
    /\ CloseIfIdle

doOnDemandPublisherCloseTimer ==
    /\ AtSelect
    /\ "pubClose" \in timers
    /\ onDemandPublisherStop({"pubClose"})
    /\ UNCHANGED <<conf, phase, source, pathVars, holdVars, pendingRequests,
                   call, session>>

(* Seeded fault: parameters that changed do not restart what is running.  *)
ReloadEgress_NotRestarted(new) ==
    [e \in Egress |-> IF e \in Started(new) /\ stream # "nil" /\ egress[e] = Off
                      THEN new.egress[e] ELSE egress[e]]

(* A changed egress is closed, then started again if it is still wanted.   *)
ReloadEgress(new) ==
    [e \in Egress |->
        LET kept == IF new.egress[e] # conf.egress[e] THEN Off ELSE egress[e]
        IN  IF e \in Started(new) /\ stream # "nil" /\ kept = Off
            THEN new.egress[e] ELSE kept]

doReloadConf(new) ==
    /\ AtSelect
    /\ CanBeUpdated(conf, new)
    /\ conf' = new
    /\ egress' = ReloadEgress(new)
    /\ UNCHANGED <<phase, source, handler, stream, readers, readyHook, leaked,
                   holdVars, demandVars, pendingRequests, call, session>>

(* consumeOnHoldRequests, on the readers left by the rest of the handler.  *)
consumeOnHoldRequests(rds) ==
    /\ heldDescribes' = {}
    /\ heldReaders' = <<>>
    /\ readers' = rds \cup Admitted(rds)

(* setAvailable of a path that is not always available, over what is left  *)
(* of the previous stream.                                                 *)
setAvailable(hook, old) ==
    /\ readyHook' = TRUE
    /\ egress' = OpenEgress(old)
    /\ leaked' = leaked \cup Overwritten(hook, old)

(* The handler of the static source forwards its instance's SetReady only  *)
(* while it runs.  SubStream.Initialize can fail (RTP decoders, medias     *)
(* that do not match an always-available stream): the instance then ends   *)
(* and is recreated later, and the stream stays as setAvailable left it.   *)
doSourceStaticSetReady ==
    /\ AtSelect
    /\ handler = "running"
    /\ IF conf.alwaysAvailable THEN UNCHANGED <<readyHook, egress, leaked>>
                               ELSE setAvailable(readyHook, egress)
    /\ \/ /\ stream' = IF conf.alwaysAvailable THEN stream ELSE "bare"
          /\ UNCHANGED <<handler, demandVars, holdVars, readers, call, session>>
       \/ /\ stream' = "live"
          /\ handler' = "ready"
          /\ IF HasOnDemandStaticSource(conf) THEN StaticSourceReady(Admitted(readers))
                                              ELSE UNCHANGED demandVars
          /\ consumeOnHoldRequests(readers)
          /\ Answer(Held)
          /\ Admit(Admitted(readers), {})
    /\ UNCHANGED <<conf, phase, source, pendingRequests>>

doSourceStaticSetNotReady ==
    /\ AtSelect
    /\ handler = "ready"
    /\ IF conf.alwaysAvailable
       THEN stream' = "offline" /\ UNCHANGED <<readers, readyHook, egress, leaked, session>>
       ELSE setNotAvailable /\ Admit({}, readers)
    /\ IF HasOnDemandStaticSource(conf) /\ ssState # "initial"
       THEN onDemandStaticSourceStop({})
       ELSE handler' = "running" /\ UNCHANGED demandVars
    /\ UNCHANGED <<conf, source, holdVars, pendingRequests, call>>
    /\ CloseIfIdle

(* Answered at once: redirect, stream, fallback or "no stream available".  *)
(* Otherwise the request waits for the on-demand source.                   *)
doDescribe(d) ==
    /\ Take(d)
    /\ IF conf.source = "redirect" \/ stream # "nil" \/ ~HasOnDemand
       THEN Answer({d}) /\ UNCHANGED <<heldDescribes, handler, demandVars>>
       ELSE /\ StartOnDemand
            /\ heldDescribes' = heldDescribes \cup {d}
            /\ call' = [call EXCEPT ![d] = "held"]
    /\ UNCHANGED <<conf, source, pathVars, heldReaders, session>>
    /\ CloseIfIdle

doAddReader(r) ==
    /\ Take(r)
    /\ \/ /\ stream # "nil"
          /\ Answer({r})
          /\ IF r \notin readers /\ HasRoom
             THEN readers' = readers \cup {r} /\ ReaderAdded /\ Admit({r}, {})
             ELSE UNCHANGED <<readers, demandVars, session>>
          /\ UNCHANGED <<heldReaders, handler>>
       \/ /\ stream = "nil" /\ HasOnDemand
          /\ StartOnDemand
          /\ heldReaders' = Append(heldReaders, r)
          /\ call' = [call EXCEPT ![r] = "held"]
          /\ UNCHANGED <<readers, session>>
       \/ /\ stream = "nil" /\ ~HasOnDemand
          /\ Answer({r})
          /\ UNCHANGED <<readers, heldReaders, handler, demandVars, session>>
    /\ UNCHANGED <<conf, source, stream, readyHook, egress, leaked, heldDescribes>>
    /\ CloseIfIdle

doRemoveReader(r) ==
    /\ AtSelect
    /\ session[r] # "out" /\ call[r] = "none"
    /\ session' = [session EXCEPT ![r] = "out"]
    /\ readers' = readers \ {r}
    /\ IF readers' = {} THEN LastReaderGone ELSE UNCHANGED demandVars
    /\ UNCHANGED <<conf, phase, source, handler, stream, readyHook, egress, leaked,
                   holdVars, pendingRequests, call>>

(* Not a publisher path, or the path is taken and may not be overridden.   *)
AddPublisherRefused(p) ==
    /\ Take(p)
    /\ conf.source # "publisher" \/ (source # None /\ ~conf.overridePublisher)
    /\ Answer({p})
    /\ UNCHANGED <<conf, source, handler, pathVars, holdVars, demandVars, session>>
    /\ CloseIfIdle

(* The previous publisher, if any, is closed and removed first: unless the *)
(* path is always available, its readers go with it.  Then the new stream  *)
(* is set up; if its sub-stream cannot be initialized the path is left     *)
(* without a source.                                                       *)
doAddPublisher(p) ==
    LET replaced == source # None
        aa   == conf.alwaysAvailable
        rds  == IF replaced /\ ~aa THEN {} ELSE readers
        hook == IF replaced THEN FALSE ELSE readyHook
        old  == IF replaced THEN AllOff ELSE egress
        kicked == (IF replaced THEN {source} ELSE {}) \cup (readers \ rds)
    IN
    /\ Take(p)
    /\ conf.source = "publisher"
    /\ replaced => conf.overridePublisher
    /\ IF aa THEN UNCHANGED <<readyHook, egress, leaked>> ELSE setAvailable(hook, old)
    /\ \/ /\ stream' = IF aa THEN "offline" ELSE "bare"
          /\ source' = None
          /\ readers' = rds
          /\ Answer({p})
          /\ Admit({}, kicked)
          /\ UNCHANGED <<demandVars, holdVars>>
       \/ /\ stream' = "live"
          /\ source' = p
          /\ IF HasOnDemandPublisher(conf) /\ pubState # "initial"
             THEN PublisherReady(Admitted(rds)) ELSE UNCHANGED demandVars
          /\ consumeOnHoldRequests(rds)
          /\ Answer({p} \cup Held)
          /\ Admit({p} \cup Admitted(rds), kicked)
    /\ UNCHANGED <<conf, handler>>
    /\ CloseIfIdle

(* Seeded fault: pa.source keeps pointing to the removed publisher.        *)
executeRemovePublisher_SourceKept(p) ==
    /\ stream' = "nil" /\ readers' = {} /\ readyHook' = FALSE /\ egress' = AllOff
    /\ session' = [s \in Sessions |-> IF s = p THEN "out"
                     ELSE IF s \in readers THEN "kicked" ELSE session[s]]
    /\ UNCHANGED <<source, leaked>>

(* The readers of a path that is not always available go with the stream.  *)
executeRemovePublisher(p) ==
    /\ source' = None
    /\ IF conf.alwaysAvailable
       THEN /\ stream' = "offline"
            /\ session' = [session EXCEPT ![p] = "out"]
            /\ UNCHANGED <<readers, readyHook, egress, leaked>>
       ELSE /\ setNotAvailable
            /\ session' = [s \in Sessions |-> IF s = p THEN "out"
                  ELSE IF s \in readers THEN "kicked" ELSE session[s]]

doRemovePublisher(p) ==
    /\ AtSelect
    /\ session[p] # "out" /\ call[p] = "none"
    /\ \/ source = p /\ executeRemovePublisher(p)
       \/ /\ source # p
          /\ session' = [session EXCEPT ![p] = "out"]
          /\ UNCHANGED <<source, pathVars>>
    /\ UNCHANGED <<conf, handler, holdVars, demandVars, pendingRequests, call>>
    /\ CloseIfIdle

(***************************************************************************)
(* The end of run(): held requests are answered, the stream and the source *)
(* are closed and the on-demand command is stopped.                        *)
(***************************************************************************)
Terminate ==
    /\ phase = "closing"
    /\ phase' = "done"
    /\ timers' = {}
    /\ FailHeldRequests
    /\ IF stream # "nil" THEN setNotAvailable ELSE UNCHANGED pathVars
    /\ Admit({}, (IF stream # "nil" THEN readers ELSE {}) \cup ({source} \cap Publishers))
    /\ handler' = IF conf.source = "static" /\ (~conf.sourceOnDemand \/ ssState # "initial")
                  THEN "stopped" ELSE handler
    /\ demandHook' = FALSE
    /\ UNCHANGED <<conf, source, ssState, pubState, pendingRequests>>

(* The requesters' selects on pa.ctx.Done(): a request that has not been   *)
(* taken fails, a session leaves without the path.                         *)
Abandon(c) ==
    /\ phase \in {"closing", "done"}
    /\ \/ /\ call[c] = "routed"
          /\ Answer({c})
          /\ UNCHANGED session
       \/ /\ c \in Sessions /\ session[c] # "out" /\ call[c] = "none"
          /\ session' = [session EXCEPT ![c] = "out"]
          /\ UNCHANGED call
    /\ UNCHANGED <<conf, phase, source, handler, pathVars, holdVars, demandVars,
                   pendingRequests>>

Next ==
    \/ \E c \in Clients : Route(c) \/ Abandon(c)
    \/ ClosePathIfIdle \/ Close \/ Terminate
    \/ doOnDemandStaticSourceReadyTimer \/ doOnDemandStaticSourceCloseTimer
    \/ doOnDemandPublisherReadyTimer \/ doOnDemandPublisherCloseTimer
    \/ \E new \in Confs : doReloadConf(new)
    \/ doSourceStaticSetReady \/ doSourceStaticSetNotReady
    \/ \E d \in Describers : doDescribe(d)
    \/ \E r \in Readers : doAddReader(r) \/ doRemoveReader(r)
    \/ \E p \in Publishers :
           AddPublisherRefused(p) \/ doAddPublisher(p) \/ doRemovePublisher(p)

Spec == Init /\ [][Next]_vars

(***************************************************************************)
(* Fairness.  An armed timer fires, and the loop returns to its select.    *)
(* Go's select picks among the ready channels at random and the senders    *)
(* blocked on a channel are served in order, so a request that stays       *)
(* queued is taken even if the loop keeps leaving its select: strong       *)
(* fairness.  Clients and sources owe nothing.                             *)
(***************************************************************************)
Handle(c) ==
    \/ c \in Describers /\ doDescribe(c)
    \/ c \in Readers /\ doAddReader(c)
    \/ c \in Publishers /\ (AddPublisherRefused(c) \/ doAddPublisher(c))

Fairness ==
    /\ WF_vars(ClosePathIfIdle)
    /\ WF_vars(Terminate)
    /\ SF_vars(doOnDemandStaticSourceReadyTimer)
    /\ SF_vars(doOnDemandStaticSourceCloseTimer)
    /\ SF_vars(doOnDemandPublisherReadyTimer)
    /\ SF_vars(doOnDemandPublisherCloseTimer)
    /\ \A c \in Clients : SF_vars(Handle(c)) /\ WF_vars(call[c] = "routed" /\ Abandon(c))

FairSpec == Spec /\ Fairness

(***************************************************************************)
(* Properties.                                                             *)
(***************************************************************************)
(* Type invariant of the path's fields (type path, path.go).               *)
TypeOK ==
    /\ conf \in Confs
    /\ phase \in {"running", "asking", "closing", "done"}
    /\ source \in {None, "redirect", "static"} \cup Publishers
    /\ handler \in {"stopped", "running", "ready"}
    /\ stream \in {"nil", "bare", "offline", "live"}
    /\ readers \subseteq Readers
    /\ heldDescribes \subseteq Describers
    /\ heldReaders \in Seq(Readers)
    /\ ssState \in OnDemandState
    /\ pubState \in OnDemandState
    /\ timers \subseteq Timer
    /\ demandHook \in BOOLEAN
    /\ readyHook \in BOOLEAN
    /\ egress \in [Egress -> Settings \cup {Off}]
    /\ leaked \subseteq Egress \cup {"runOnReady"}
    /\ pendingRequests \in Nat
    /\ call \in [Clients -> {"none", "routed", "held"}]
    /\ session \in [Sessions -> {"out", "in", "kicked"}]

(* Each timer is armed exactly in the on-demand state it belongs to, so an *)
(* expiry never finds the state machine elsewhere: a ready timer would     *)
(* fail requests of a source that answered, a close timer would stop one   *)
(* in use (doOnDemand*Timer, onDemand*ScheduleClose, onDemand*Stop).       *)
TimersMatchState ==
    phase # "done" =>
        /\ "ssReady"  \in timers <=> ssState = "waitingReady"
        /\ "ssClose"  \in timers <=> ssState = "closing"
        /\ "pubReady" \in timers <=> pubState = "waitingReady"
        /\ "pubClose" \in timers <=> pubState = "closing"

(* The runOnDemand command runs exactly while the publisher state machine  *)
(* is off its initial state: onDemandPublisherStop calls onUnDemandHook    *)
(* without a nil check, and onDemandPublisherStart overwrites it.          *)
DemandHookMatchesState ==
    /\ pubState # "initial" => HasOnDemandPublisher(conf)
    /\ phase # "done" => (demandHook <=> pubState # "initial")

(* The handler of a static source runs exactly when the path thinks so:    *)
(* Handler.Start and Handler.Stop panic ("should not happen") when called  *)
(* twice.  On demand, it is stopped in the initial state and delivers in   *)
(* the states ready and closing; otherwise it runs until the path ends.    *)
HandlerMatchesState ==
    /\ handler # "stopped" => conf.source = "static"
    /\ ssState # "initial" => HasOnDemandStaticSource(conf)
    /\ phase # "done" =>
          IF HasOnDemandStaticSource(conf)
          THEN /\ handler = "stopped" <=> ssState = "initial"
               /\ handler = "ready" <=> ssState \in {"ready", "closing"}
          ELSE conf.source = "static" => handler # "stopped"

(* The stream is online exactly while something feeds it: a publisher that *)
(* is pa.source, or a static source that has set itself ready.  The panics *)
(* in SubStream.Initialize and StartOfflineSubStream and the unchecked     *)
(* type assertions on pa.source rely on it.                                *)
StreamMatchesSource ==
    /\ conf.source = "publisher" => source \in {None} \cup Publishers
    /\ conf.source # "publisher" => source = conf.source
    /\ phase # "done" =>
          /\ stream = "live" <=> (source \in Publishers \/ handler = "ready")
          /\ conf.alwaysAvailable => stream \in {"offline", "live"}
          /\ stream = "offline" => conf.alwaysAvailable

(* No request waits without a deadline: a request on hold for a static     *)
(* source is covered by the armed ready timer.                             *)
HeldRequestsHaveDeadline ==
    phase # "done" /\ HasOnDemandStaticSource(conf) /\ Held # {} => "ssReady" \in timers

(* pendingRequests, which path manager and path update from two            *)
(* goroutines, counts exactly the requests on their way to an open path,   *)
(* and the clients that wait are those in the two on-hold lists.           *)
RequestsCounted ==
    /\ Held = {c \in Clients : call[c] = "held"}
    /\ pendingRequests >= Cardinality(Routed)
    /\ phase \in {"running", "asking"} => pendingRequests = Cardinality(Routed)

(* Who is reading or publishing agrees with what the sessions were told: a *)
(* session that was accepted and not told to close is a reader or the      *)
(* publisher of the path, a member the path counts has not left, and a     *)
(* reader on hold is on hold once and not reading.                         *)
MembershipAgrees ==
    LET members == readers \cup ({source} \cap Publishers)
    IN  /\ phase # "done" => \A s \in Sessions : session[s] = "in" => s \in members
        /\ phase \in {"running", "asking"} => \A s \in members : session[s] # "out"
        /\ \A i, j \in DOMAIN heldReaders : heldReaders[i] = heldReaders[j] => i = j
        /\ Held \cap readers = {}

(* Recorder and forwarders follow the configuration, across hot reloads:   *)
(* while a stream exists each enabled egress runs with the parameters of   *)
(* the current configuration; without a stream none runs.                  *)
EgressFollowsConf ==
    phase # "done" =>
        IF stream = "nil" THEN egress = AllOff
        ELSE \A e \in EgressEnabled : egress[e] = conf.egress[e]

(* Readers are always on a stream, never more than maxReaders, and the     *)
(* close timer of an on-demand source is armed only without them: when it  *)
(* fires, nobody is cut off, unless a stream whose sub-stream could not be *)
(* initialized was replaced under its readers.                             *)
ReadersKeepSource ==
    /\ stream = "nil" => readers = {}
    /\ conf.maxReaders # 0 => Cardinality(readers) <= conf.maxReaders
    /\ leaked = {} /\ timers \cap {"ssClose", "pubClose"} # {} => readers = {}

(* When the path manager closes an idle path, no client is waiting for an  *)
(* answer, on its way to the path, or attached to it.                      *)
IdleCloseIsSafe ==
    [][ClosePathIfIdle /\ phase' = "closing" =>
          /\ Routed = {} /\ Held = {}
          /\ \A s \in Sessions : session[s] # "in"]_vars

(* The on-demand state machines agree with their timers, the command, the  *)
(* handler of the static source and the requests on hold.                  *)
OnDemandIsConsistent ==
    /\ TimersMatchState /\ DemandHookMatchesState /\ HandlerMatchesState
    /\ HeldRequestsHaveDeadline

(* The path, its source and the sessions agree on who publishes, who reads *)
(* and who waits.                                                          *)
ClientsAreKnown == StreamMatchesSource /\ RequestsCounted /\ MembershipAgrees

(* run() leaves nothing behind: no timer, held request, egress, command,   *)
(* static source, or session that was not told to close.                   *)
CleanShutdown ==
    phase = "done" =>
        /\ timers = {} /\ Held = {} /\ ~demandHook
        /\ stream = "nil" /\ readers = {} /\ egress = AllOff /\ ~readyHook
        /\ handler = "stopped"
        /\ \A s \in Sessions : session[s] # "in"

(* No reader is without a stream, and nobody is left over by the end.      *)
NobodyIsStranded == ReadersKeepSource /\ CleanShutdown

(* A request put on hold for a static source is answered.                  *)
HeldRequestsAreAnswered ==
    \A c \in Clients : conf.source = "static" /\ call[c] = "held" ~> call[c] # "held"

(* An on-demand source nobody reads is stopped (or read again).            *)
UnusedSourceStops ==
    (phase = "running" /\ ssState = "closing") ~> (ssState # "closing" \/ phase = "done")

(* An on-demand source starts for those who wait, and stops for nobody.    *)
OnDemandGoesOn == HeldRequestsAreAnswered /\ UnusedSourceStops
=============================================================================
