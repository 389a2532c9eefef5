-------------------------------- MODULE HLS --------------------------------
(***************************************************************************)
(* The HLS server (internal/servers/hls) between the path manager and the  *)
(* paths.                                                                  *)
(*                                                                         *)
(* Goroutines: the server's loop, which owns the map of muxers; one per    *)
(* muxer; one per HTTP request that opens a session; the path manager,     *)
(* which calls the server when a path becomes ready or not ready; and the  *)
(* paths, which call the manager.  Every one of them can be blocked in a   *)
(* call of another.  A muxer's mutex is taken by its creator and released  *)
(* by the muxer once its first instance exists or cannot be had.           *)
(*                                                                         *)
(* Muxers and sessions are both readers of a path and join it in the same  *)
(* way: through the manager, then through the path.                        *)
(***************************************************************************)
EXTENDS Naturals, FiniteSets

CONSTANTS
    Names,          \* path names
    Muxers,         \* identities of muxers; bounds those that exist at once
    Sessions,       \* identities of sessions
    Modes,          \* see Mode
    None

Readers == Muxers \cup Sessions

(* How the server is configured and used, in a behaviour.                  *)
Mode ==
    [sessions    : SUBSET Sessions,     \* those that clients open
     muxers      : SUBSET Muxers,
     cdn         : SUBSET Sessions,     \* sessions opened with the CDN secret
     onDemand    : SUBSET Names,        \* names with sourceOnDemand
     alwaysRemux : BOOLEAN,             \* hlsAlwaysRemux
     apiCalls    : BOOLEAN,             \* the API or the metrics query the server
     recreation  : BOOLEAN,             \* a reload may replace a path by a new one
     fair        : BOOLEAN]             \* liveness is claimed

ASSUME HLSAssumption ==
    /\ Modes \subseteq Mode
    /\ Muxers \cap Sessions = {} /\ None \notin Names \cup Readers
    /\ None \notin Names \X {"ready", "notReady"}

VARIABLES
    mode,           \* of Modes; it does not change
    srv,            \* the server's loop: "starting", "select", "api"
    visit,          \* an API call: the muxers still to be locked
    kick,           \* an API call: the session to be kicked, or None
    muxers,         \* s.muxers
    registered,     \* pm.hlsServer # nil
    mgr,            \* the manager's call of the server: <<name, tell>>, or None
    ready,          \* pa.ready of the path of each name
    on,             \* the path's stream # nil
    tell,           \* the path: "no" (in its select), "ready", "notReady" (in a
                    \* call of the manager), "closing" (its readers)
    readers,        \* pa.readers
    gone,           \* readers that belong to a path that has ended
    phase,          \* of each muxer and session: where its goroutine is
    name,           \* of each muxer and session: its path
    auto,           \* of each muxer: remoteAddr = ""
    cancelled,      \* of each muxer: its context is done
    inst,           \* of each muxer: m.instance # nil
    holder,         \* of each muxer: who holds m.mutex
    registry,       \* of each muxer: sessionsBySecret and cdnSession
    victims,        \* of each muxer: sessions that the holder is closing
    smux,           \* of each session: its muxer
    broken          \* close2 panicked: "early", the session was not set up yet;
                    \* "twice", it was closed; else "no"

srvVars  == <<srv, visit, kick, muxers>>
pathVars == <<registered, mgr, ready, on, tell>>
readVars == <<readers, gone, phase, name>>
muxVars  == <<auto, cancelled, inst, holder, registry, victims>>
vars == <<mode, srvVars, pathVars, readVars, muxVars, smux, broken>>

OnDemand == mode.onDemand
CDN == mode.cdn
AlwaysRemux == mode.alwaysRemux

(* The goroutine of a muxer, and that of a request that opens a session.   *)
MuxerPhases == {"none", "adding", "routed", "held", "joined", "up", "leaving", "ending",
                "destroying", "closing"}
SessionPhases == {"none", "adding", "routed", "held", "joined", "got", "replacing", "added",
                  "open", "quitting", "closed"}

Idle == {"none", "closed"}
Joined == {"joined", "up", "leaving", "got", "replacing", "added", "open", "quitting"}

(* A call of the path returns: the path is in its select, or it has ended. *)
Reachable(a) == a \in gone \/ tell[name[a]] = "no"

Free == {i \in mode.muxers : phase[i] = "none" /\ \A s \in Sessions : smux[s] # i}

Init ==
    /\ mode \in Modes
    /\ srv = "starting" /\ visit = {} /\ kick = None
    /\ muxers = [n \in Names |-> None]
    /\ registered = FALSE /\ mgr = None
    /\ on \in [Names -> BOOLEAN]
    /\ ready = on
    /\ tell = [n \in Names |-> "no"]
    /\ readers = [n \in Names |-> {}] /\ gone = {}
    /\ phase = [a \in Readers |-> "none"]
    /\ name = [a \in Readers |-> None]
    /\ auto = [i \in Muxers |-> FALSE]
    /\ cancelled = [i \in Muxers |-> FALSE]
    /\ inst = [i \in Muxers |-> FALSE]
    /\ holder = [i \in Muxers |-> "none"]
    /\ registry = [i \in Muxers |-> {}]
    /\ victims = [i \in Muxers |-> {}]
    /\ smux = [s \in Sessions |-> None]
    /\ broken = "no"

(***************************************************************************)
(* The server's loop.                                                      *)
(***************************************************************************)
(* createMuxer, for the names in ids; the muxer's goroutine starts in      *)
(* pathManager.AddReader with its mutex locked by initialize().            *)
createMuxers(ns, ids, isAuto) ==
    LET new(i) == \E n \in ns : ids[n] = i
        of(i)  == CHOOSE n \in ns : ids[n] = i
    IN  /\ muxers' = [n \in Names |-> IF n \in ns THEN ids[n] ELSE muxers[n]]
        /\ name' = [a \in Readers |-> IF new(a) THEN of(a) ELSE name[a]]
        /\ auto' = [i \in Muxers |-> IF new(i) THEN isAuto ELSE auto[i]]
        /\ cancelled' = [i \in Muxers |-> ~new(i) /\ cancelled[i]]
        /\ holder' = [i \in Muxers |-> IF new(i) THEN "init" ELSE holder[i]]

(* createMuxer with "always remux" for those of the names that have none.  *)
RemuxMissing(ns) ==
    LET missing == {n \in ns \ OnDemand : AlwaysRemux /\ muxers[n] = None}
    IN  \E ids \in [missing -> Free] :
           /\ \A m, n \in missing : ids[m] = ids[n] => m = n
           /\ createMuxers(missing, ids, TRUE)
           /\ phase' = [a \in Readers |-> IF \E n \in missing : ids[n] = a THEN "adding"
                                          ELSE phase[a]]
           /\ gone' = gone \ {ids[n] : n \in missing}

(* The start of run(): SetHLSServer, and the paths that are ready.         *)
SetHLSServer ==
    /\ srv = "starting" /\ mgr = None
    /\ srv' = "select"
    /\ registered' = TRUE
    /\ RemuxMissing({n \in Names : ready[n]})
    /\ UNCHANGED <<visit, kick, mgr, ready, on, tell, readers, inst, registry, victims, smux,
                   broken>>

(* Seeded fault: the loop locks the muxers before it answers the manager.  *)
PathReady_Locks(n) ==
    /\ srv = "select" /\ mgr = <<n, "ready">>
    /\ \A m \in Names : muxers[m] # None => holder[muxers[m]] = "none"
    /\ mgr' = None
    /\ RemuxMissing({n})
    /\ UNCHANGED <<srv, visit, kick, registered, ready, on, tell, readers, inst, registry,
                   victims, smux, broken>>

(* chPathReady                                                             *)
PathReady(n) ==
    /\ srv = "select" /\ mgr = <<n, "ready">>
    /\ mgr' = None
    /\ RemuxMissing({n})
    /\ UNCHANGED <<srv, visit, kick, registered, ready, on, tell, readers, inst, registry,
                   victims, smux, broken>>

(* Seeded fault: the closed muxer stays in the map until it has ended.     *)
PathNotReady_Kept(n) ==
    /\ srv = "select" /\ mgr = <<n, "notReady">>
    /\ mgr' = None
    /\ cancelled' = IF muxers[n] # None THEN [cancelled EXCEPT ![muxers[n]] = TRUE] ELSE cancelled
    /\ UNCHANGED <<srvVars, registered, ready, on, tell, readVars, auto, inst, holder,
                   registry, victims, smux, broken>>

(* chPathNotReady                                                          *)
PathNotReady(n) ==
    LET i == muxers[n] IN
    /\ srv = "select" /\ mgr = <<n, "notReady">>
    /\ mgr' = None
    /\ IF i # None /\ auto[i]
       THEN /\ cancelled' = [cancelled EXCEPT ![i] = TRUE]
            /\ muxers' = [muxers EXCEPT ![n] = None]
       ELSE UNCHANGED <<cancelled, muxers>>
    /\ UNCHANGED <<srv, visit, kick, registered, ready, on, tell, readVars, auto, inst,
                   holder, registry, victims, smux, broken>>

(* chGetMuxer, from session.initialize: an existing muxer, an error if one *)
(* is only created with "always remux", or a new one.                      *)
getMuxer(s) ==
    LET n == name[s] IN
    /\ srv = "select" /\ phase[s] = "joined"
    /\ \/ /\ muxers[n] # None
          /\ smux' = [smux EXCEPT ![s] = muxers[n]]
          /\ phase' = [phase EXCEPT ![s] = "got"]
          /\ UNCHANGED <<muxers, name, auto, cancelled, holder, gone>>
       \/ /\ muxers[n] = None
          /\ AlwaysRemux /\ n \notin OnDemand
          /\ phase' = [phase EXCEPT ![s] = "quitting"]
          /\ UNCHANGED <<smux, muxers, name, auto, cancelled, holder, gone>>
       \/ /\ muxers[n] = None
          /\ ~(AlwaysRemux /\ n \notin OnDemand)
          /\ \E i \in Free :
                /\ createMuxers({n}, [m \in {n} |-> i], FALSE)
                /\ smux' = [smux EXCEPT ![s] = i]
                /\ phase' = [phase EXCEPT ![s] = "got", ![i] = "adding"]
                /\ gone' = gone \ {i}
    /\ UNCHANGED <<srv, visit, kick, pathVars, readers, inst, registry, victims, broken>>

(* A muxer that has ended: nobody refers to its fields any more.           *)
Forget(i) ==
    /\ phase' = [phase EXCEPT ![i] = "none"]
    /\ name' = [name EXCEPT ![i] = None]
    /\ auto' = [auto EXCEPT ![i] = FALSE]
    /\ cancelled' = [cancelled EXCEPT ![i] = FALSE]
    /\ registry' = [registry EXCEPT ![i] = {}]
    /\ gone' = gone \ {i}

(* chCloseMuxer, the last call of a muxer's goroutine.                     *)
CloseMuxer(i) ==
    /\ srv = "select" /\ phase[i] = "closing"
    /\ muxers' = IF muxers[name[i]] = i THEN [muxers EXCEPT ![name[i]] = None] ELSE muxers
    /\ Forget(i)
    /\ UNCHANGED <<srv, visit, kick, pathVars, readers, inst, holder, victims, smux, broken>>

(* chAPIMuxerList, chAPISessionsList, chAPISessionsGet (no target) and     *)
(* chAPISessionsKick (of a session that was listed): the loop goes from    *)
(* muxer to muxer.                                                         *)
APICall(target) ==
    /\ mode.apiCalls
    /\ target = None \/ \E i \in Muxers : target \in registry[i]
    /\ srv = "select"
    /\ srv' = "api"
    /\ kick' = target
    /\ visit' = {muxers[n] : n \in Names} \ {None}
    /\ UNCHANGED <<muxers, pathVars, readVars, muxVars, smux, broken>>

(* apiItem, apiSessionsList, apiSessionsKick: each locks the muxer's mutex.*)
APIVisit(i) ==
    /\ srv = "api" /\ i \in visit
    /\ holder[i] = "none"
    /\ IF kick \in registry[i]
       THEN /\ visit' = {}
            /\ holder' = [holder EXCEPT ![i] = "server"]
            /\ victims' = [victims EXCEPT ![i] = {kick}]
            /\ registry' = [registry EXCEPT ![i] = @ \ {kick}]
       ELSE /\ visit' = visit \ {i}
            /\ UNCHANGED <<holder, victims, registry>>
    /\ UNCHANGED <<srv, kick, muxers, pathVars, readVars, auto, cancelled, inst, smux, broken>>

APIDone ==
    /\ srv = "api" /\ visit = {}
    /\ \A i \in Muxers : holder[i] # "server"
    /\ srv' = "select" /\ kick' = None
    /\ UNCHANGED <<visit, muxers, pathVars, readVars, muxVars, smux, broken>>

(***************************************************************************)
(* Joining a path.                                                         *)
(***************************************************************************)
(* What a failed AddReader means: a muxer unlocks its mutex and ends, a    *)
(* session is not created.                                                 *)
AfterFailure(a) == IF a \in Muxers THEN "ending" ELSE "none"
Unlocked(S) == [i \in Muxers |-> IF i \in S THEN "none" ELSE holder[i]]

(* pathManager.AddReader, up to its reply with the path.                   *)
AddReader(a) ==
    /\ mgr = None
    /\ phase[a] = "adding"
    /\ phase' = [phase EXCEPT ![a] = "routed"]
    /\ UNCHANGED <<srvVars, pathVars, readers, gone, name, muxVars, smux, broken>>

(* path.addReader: a reader, a request on hold, or an error.               *)
PathAddReader(a) ==
    LET n == name[a] IN
    /\ phase[a] = "routed" /\ tell[n] = "no"
    /\ gone' = gone \ {a}
    /\ \/ /\ on[n]
          /\ phase' = [phase EXCEPT ![a] = "joined"]
          /\ readers' = [readers EXCEPT ![n] = @ \cup {a}]
          /\ UNCHANGED holder
       \/ /\ ~on[n] /\ n \in OnDemand
          /\ phase' = [phase EXCEPT ![a] = "held"]
          /\ UNCHANGED <<readers, holder>>
       \/ /\ ~on[n] /\ n \notin OnDemand
          /\ phase' = [phase EXCEPT ![a] = AfterFailure(a)]
          /\ holder' = Unlocked({a})
          /\ UNCHANGED readers
    /\ UNCHANGED <<srvVars, pathVars, name, auto, cancelled, inst, registry, victims, smux,
                   broken>>

(* A request on hold is consumed, or the source did not start in time.     *)
HeldAnswered(a) ==
    LET n == name[a] IN
    /\ phase[a] = "held" /\ tell[n] = "no"
    /\ \/ /\ on[n]
          /\ phase' = [phase EXCEPT ![a] = "joined"]
          /\ readers' = [readers EXCEPT ![n] = @ \cup {a}]
          /\ UNCHANGED holder
       \/ /\ ~on[n]
          /\ phase' = [phase EXCEPT ![a] = AfterFailure(a)]
          /\ holder' = Unlocked({a})
          /\ UNCHANGED readers
    /\ UNCHANGED <<srvVars, pathVars, gone, name, auto, cancelled, inst, registry, victims,
                   smux, broken>>

(***************************************************************************)
(* A muxer.                                                                *)
(***************************************************************************)
(* The first createInstance.  A failure ends a requested muxer, and any    *)
(* muxer if no codec is supported; otherwise it is tried again later.      *)
FirstInstance(i) ==
    /\ phase[i] = "joined"
    /\ holder' = Unlocked({i})
    /\ \/ phase' = [phase EXCEPT ![i] = "up"] /\ inst' = [inst EXCEPT ![i] = TRUE]
       \/ auto[i] /\ phase' = [phase EXCEPT ![i] = "up"] /\ UNCHANGED inst
       \/ phase' = [phase EXCEPT ![i] = "leaving"] /\ UNCHANGED inst
    /\ UNCHANGED <<srvVars, pathVars, readers, gone, name, auto, cancelled, registry, victims,
                   smux, broken>>

(* chCloseInstance: a requested muxer ends, an automatic one closes its    *)
(* sessions and goes on without instance.                                  *)
InstanceCrashed(i) ==
    /\ phase[i] = "up" /\ inst[i] /\ holder[i] = "none"
    /\ inst' = [inst EXCEPT ![i] = FALSE]
    /\ IF auto[i]
       THEN /\ holder' = [holder EXCEPT ![i] = "muxer"]
            /\ victims' = [victims EXCEPT ![i] = registry[i]]
            /\ registry' = [registry EXCEPT ![i] = {}]
            /\ UNCHANGED phase
       ELSE /\ phase' = [phase EXCEPT ![i] = "leaving"]
            /\ UNCHANGED <<holder, victims, registry>>
    /\ UNCHANGED <<srvVars, pathVars, readers, gone, name, auto, cancelled, smux, broken>>

(* recreateInstanceTimer, when it succeeds.                                *)
RecreateInstance(i) ==
    /\ phase[i] = "up" /\ auto[i] /\ ~inst[i] /\ holder[i] = "none"
    /\ inst' = [inst EXCEPT ![i] = TRUE]
    /\ UNCHANGED <<srvVars, pathVars, readVars, auto, cancelled, holder, registry, victims,
                   smux, broken>>

(* sessionCleanupTicker: the sessions of S have been inactive.             *)
CleanupSessions(i, S) ==
    /\ phase[i] = "up" /\ holder[i] = "none"
    /\ S # {} /\ S \subseteq registry[i]
    /\ holder' = [holder EXCEPT ![i] = "muxer"]
    /\ victims' = [victims EXCEPT ![i] = S]
    /\ registry' = [registry EXCEPT ![i] = @ \ S]
    /\ UNCHANGED <<srvVars, pathVars, readVars, auto, cancelled, inst, smux, broken>>

(* activityCheckTimer (requested muxers), or the context is done.          *)
StopMuxer(i) ==
    /\ phase[i] = "up" /\ holder[i] # "muxer"
    /\ ~auto[i] \/ cancelled[i]
    /\ phase' = [phase EXCEPT ![i] = "leaving"]
    /\ UNCHANGED <<srvVars, pathVars, readers, gone, name, muxVars, smux, broken>>

(* The deferred RemoveReader of runInner, and ctxCancel.                   *)
LeavePath(i) ==
    /\ phase[i] = "leaving" /\ Reachable(i)
    /\ readers' = [readers EXCEPT ![name[i]] = @ \ {i}]
    /\ phase' = [phase EXCEPT ![i] = "ending"]
    /\ UNCHANGED <<srvVars, pathVars, gone, name, muxVars, smux, broken>>

(* The end of run(): the instance goes, then every session.  The map of    *)
(* sessions is not emptied.                                                *)
DestroyMuxer(i) ==
    /\ phase[i] = "ending" /\ holder[i] = "none"
    /\ phase' = [phase EXCEPT ![i] = "destroying"]
    /\ cancelled' = [cancelled EXCEPT ![i] = TRUE]
    /\ inst' = [inst EXCEPT ![i] = FALSE]
    /\ holder' = [holder EXCEPT ![i] = "muxer"]
    /\ victims' = [victims EXCEPT ![i] = registry[i]]
    /\ registry' = [registry EXCEPT ![i] = @ \ CDN]
    /\ UNCHANGED <<srvVars, pathVars, readers, gone, name, auto, smux, broken>>

(* session.close2, under the muxer's mutex.  On a session that is not yet, *)
(* or no longer, open it panics: onUnreadHook is nil, the reader has been  *)
(* stopped.                                                                *)
close2(i, s) ==
    /\ s \in victims[i] /\ Reachable(s)
    /\ victims' = [victims EXCEPT ![i] = @ \ {s}]
    /\ broken' = CASE phase[s] = "open" -> "no" [] phase[s] = "closed" -> "twice"
                  [] OTHER -> "early"
    /\ phase' = [phase EXCEPT ![s] = "closed"]
    /\ smux' = [smux EXCEPT ![s] = None]
    /\ readers' = [readers EXCEPT ![name[s]] = @ \ {s}]
    /\ UNCHANGED <<srvVars, pathVars, gone, name, auto, cancelled, inst, holder, registry>>

(* m.mutex.Unlock() after the last close2.                                 *)
Unlock(i) ==
    /\ victims[i] = {}
    /\ holder' = Unlocked({i})
    /\ \/ /\ holder[i] = "muxer"
          /\ phase' = IF phase[i] = "destroying" THEN [phase EXCEPT ![i] = "closing"] ELSE phase
          /\ UNCHANGED registry
       \/ holder[i] = "server" /\ UNCHANGED <<phase, registry>>
       \/ /\ holder[i] = "session"
          /\ \E s \in Sessions :
                /\ phase[s] = "replacing" /\ smux[s] = i
                /\ phase' = [phase EXCEPT ![s] = "added"]
                /\ registry' = [registry EXCEPT ![i] = @ \cup {s}]
    /\ UNCHANGED <<srvVars, pathVars, readers, gone, name, auto, cancelled, inst, victims,
                   smux, broken>>

(***************************************************************************)
(* A session: session.initialize, in the goroutine of the HTTP request.    *)
(***************************************************************************)
OpenSession(s, n) ==
    /\ s \in mode.sessions
    /\ phase[s] \in Idle /\ \A i \in Muxers : s \notin registry[i] \cup victims[i]
    /\ kick # s
    /\ phase' = [phase EXCEPT ![s] = "adding"]
    /\ name' = [name EXCEPT ![s] = n]
    /\ gone' = gone \ {s}
    /\ UNCHANGED <<srvVars, pathVars, readers, muxVars, smux, broken>>

(* Seeded fault: the session is added although there is no instance.       *)
addSession_NoCheck(s) ==
    LET i == smux[s] IN
    /\ phase[s] = "got" /\ holder[i] = "none"
    /\ phase' = [phase EXCEPT ![s] = "added"]
    /\ registry' = [registry EXCEPT ![i] = @ \cup {s}]
    /\ UNCHANGED <<srvVars, pathVars, readers, gone, name, auto, cancelled, inst, holder,
                   victims, smux, broken>>

(* muxer.addSession; a CDN session replaces the previous one.              *)
addSession(s) ==
    LET i == smux[s]
        previous == IF s \in CDN THEN registry[i] \cap CDN ELSE {}
    IN
    /\ phase[s] = "got" /\ holder[i] = "none"
    /\ \/ /\ ~inst[i]
          /\ phase' = [phase EXCEPT ![s] = "quitting"]
          /\ UNCHANGED <<registry, holder, victims>>
       \/ /\ inst[i] /\ previous = {}
          /\ phase' = [phase EXCEPT ![s] = "added"]
          /\ registry' = [registry EXCEPT ![i] = @ \cup {s}]
          /\ UNCHANGED <<holder, victims>>
       \/ /\ inst[i] /\ previous # {}
          /\ phase' = [phase EXCEPT ![s] = "replacing"]
          /\ holder' = [holder EXCEPT ![i] = "session"]
          /\ victims' = [victims EXCEPT ![i] = previous]
          /\ registry' = [registry EXCEPT ![i] = @ \ previous]
    /\ UNCHANGED <<srvVars, pathVars, readers, gone, name, auto, cancelled, inst, smux, broken>>

(* stream.AddReader and hooks.OnRead: the session can be closed from here. *)
OnRead(s) ==
    /\ phase[s] = "added"
    /\ phase' = [phase EXCEPT ![s] = "open"]
    /\ UNCHANGED <<srvVars, pathVars, readers, gone, name, muxVars, smux, broken>>

(* getMuxer or addSession failed: RemoveReader.                            *)
RefusedSession(s) ==
    /\ phase[s] = "quitting" /\ Reachable(s)
    /\ phase' = [phase EXCEPT ![s] = "none"]
    /\ smux' = [smux EXCEPT ![s] = None]
    /\ readers' = [readers EXCEPT ![name[s]] = @ \ {s}]
    /\ gone' = gone \ {s}
    /\ UNCHANGED <<srvVars, pathVars, name, muxVars, broken>>

(***************************************************************************)
(* The path manager and the paths.                                         *)
(***************************************************************************)
(* setAvailable and setNotAvailable, up to their call of the manager.      *)
(* Bound: a stream starts only while there is an identity for its muxer.   *)
SwitchStream(n) ==
    /\ tell[n] = "no"
    /\ on[n] \/ Free # {} \/ ~AlwaysRemux
    /\ on' = [on EXCEPT ![n] = TRUE]
    /\ tell' = [tell EXCEPT ![n] = IF on[n] THEN "notReady" ELSE "ready"]
    /\ UNCHANGED <<srvVars, registered, mgr, ready, readVars, muxVars, smux, broken>>

(* doSetPathReady, doSetPathNotReady: the manager calls the HLS server.    *)
doSetPathReady(n) ==
    /\ mgr = None
    /\ tell[n] \in {"ready", "notReady"}
    /\ ready' = [ready EXCEPT ![n] = (tell[n] = "ready")]
    /\ mgr' = IF registered THEN <<n, tell[n]>> ELSE None
    /\ tell' = [tell EXCEPT ![n] = IF @ = "ready" THEN "no" ELSE "closing"]
    /\ UNCHANGED <<srvVars, registered, on, readVars, muxVars, smux, broken>>

(* The rest of setNotAvailable: every reader is removed and closed.  Close *)
(* cancels a muxer and does nothing to a session.                          *)
CloseReaders(n) ==
    /\ tell[n] = "closing"
    /\ tell' = [tell EXCEPT ![n] = "no"]
    /\ on' = [on EXCEPT ![n] = FALSE]
    /\ readers' = [readers EXCEPT ![n] = {}]
    /\ cancelled' = [i \in Muxers |-> cancelled[i] \/ i \in readers[n]]
    /\ UNCHANGED <<srvVars, registered, mgr, ready, gone, phase, name, auto, inst, holder,
                   registry, victims, smux, broken>>

(* doReloadConf closes the path (doClosePath) and creates its successor.   *)
(* The path's last call of the manager is given up, since the manager is   *)
(* waiting for the path.                                                   *)
RecreatePath(n) ==
    LET waiting == {a \in Readers : name[a] = n /\ phase[a] \in {"routed", "held"}}
    IN
    /\ mode.recreation
    /\ mgr = None
    /\ on' = [on EXCEPT ![n] = FALSE]
    /\ ready' = [ready EXCEPT ![n] = FALSE]
    /\ tell' = [tell EXCEPT ![n] = "no"]
    /\ readers' = [readers EXCEPT ![n] = {}]
    /\ cancelled' = [i \in Muxers |-> cancelled[i] \/ i \in readers[n]]
    /\ gone' = gone \cup {a \in Readers : name[a] = n /\ phase[a] \in Joined}
    /\ phase' = [a \in Readers |-> IF a \in waiting THEN AfterFailure(a) ELSE phase[a]]
    /\ holder' = Unlocked(waiting)
    /\ UNCHANGED <<srvVars, registered, mgr, name, auto, inst, registry, victims, smux, broken>>

Alive == broken = "no"

Next ==
    /\ Alive /\ UNCHANGED mode
    /\ \/ SetHLSServer \/ APIDone
       \/ \E n \in Names : \/ PathReady(n) \/ PathNotReady(n) \/ SwitchStream(n)
                           \/ doSetPathReady(n) \/ CloseReaders(n) \/ RecreatePath(n)
       \/ \E t \in Sessions \cup {None} : APICall(t)
       \/ \E a \in Readers : AddReader(a) \/ PathAddReader(a) \/ HeldAnswered(a)
       \/ \E i \in Muxers :
             \/ CloseMuxer(i) \/ APIVisit(i) \/ FirstInstance(i) \/ InstanceCrashed(i)
             \/ RecreateInstance(i) \/ StopMuxer(i) \/ LeavePath(i) \/ DestroyMuxer(i)
             \/ Unlock(i)
             \/ \E S \in SUBSET Sessions : CleanupSessions(i, S)
             \/ \E s \in Sessions : close2(i, s)
       \/ \E s \in Sessions : \/ \E n \in Names : OpenSession(s, n)
                              \/ getMuxer(s) \/ addSession(s) \/ OnRead(s)
                              \/ RefusedSession(s)

Spec == Init /\ [][Next]_vars

(***************************************************************************)
(* Fairness: a goroutine that can go on does.  A caller waiting on a       *)
(* channel or a mutex that is free again and again gets it (the runtime    *)
(* queues them in order): strong fairness.  A muxer's select notices that  *)
(* its context is done although its timers keep firing.  Nothing is        *)
(* assumed of clients, sources, instances, timers or the API.              *)
(***************************************************************************)
ServerStep == SetHLSServer \/ APIDone \/ \E i \in Muxers : APIVisit(i)
ManagerStep == \E n \in Names : PathReady(n) \/ PathNotReady(n)
PathStep(n) == doSetPathReady(n) \/ CloseReaders(n)
JoinStep(a) == AddReader(a) \/ PathAddReader(a) \/ HeldAnswered(a)
MuxerStep(i) ==
    JoinStep(i) \/ FirstInstance(i) \/ LeavePath(i) \/ DestroyMuxer(i) \/ CloseMuxer(i)
LockStep(i) == Unlock(i) \/ \E s \in Sessions : close2(i, s)
SessionStep(s) == JoinStep(s) \/ getMuxer(s) \/ addSession(s) \/ OnRead(s) \/ RefusedSession(s)

Runs == mode.fair /\ Alive /\ UNCHANGED mode

Fairness ==
    /\ SF_vars(Runs /\ ServerStep)
    /\ WF_vars(Runs /\ ManagerStep)
    /\ \A n \in Names : SF_vars(Runs /\ PathStep(n))
    /\ \A i \in Muxers : /\ SF_vars(Runs /\ i \in mode.muxers /\ MuxerStep(i))
                         /\ SF_vars(Runs /\ i \in mode.muxers /\ LockStep(i))
                         /\ SF_vars(Runs /\ cancelled[i] /\ StopMuxer(i))
    /\ \A s \in Sessions : SF_vars(Runs /\ s \in mode.sessions /\ SessionStep(s))

FairSpec == Spec /\ Fairness

(***************************************************************************)
(* Properties.                                                             *)
(***************************************************************************)
(* Type invariant of the server, the muxers, the sessions and the paths.   *)
TypeOK ==
    /\ mode \in Modes
    /\ srv \in {"starting", "select", "api"}
    /\ visit \subseteq Muxers /\ kick \in Sessions \cup {None}
    /\ muxers \in [Names -> Muxers \cup {None}]
    /\ registered \in BOOLEAN /\ broken \in {"no", "early", "twice"}
    /\ mgr \in (Names \X {"ready", "notReady"}) \cup {None}
    /\ ready \in [Names -> BOOLEAN] /\ on \in [Names -> BOOLEAN]
    /\ tell \in [Names -> {"no", "ready", "notReady", "closing"}]
    /\ readers \in [Names -> SUBSET Readers] /\ gone \subseteq Readers
    /\ phase \in [Readers -> MuxerPhases \cup SessionPhases]
    /\ \A i \in Muxers : phase[i] \in MuxerPhases
    /\ \A s \in Sessions : phase[s] \in SessionPhases
    /\ name \in [Readers -> Names \cup {None}]
    /\ auto \in [Muxers -> BOOLEAN] /\ cancelled \in [Muxers -> BOOLEAN]
    /\ inst \in [Muxers -> BOOLEAN]
    /\ holder \in [Muxers -> {"none", "init", "muxer", "server", "session"}]
    /\ registry \in [Muxers -> SUBSET Sessions] /\ victims \in [Muxers -> SUBSET Sessions]
    /\ smux \in [Sessions -> Muxers \cup {None}]

(* A muxer that runs is the one in the server's map, or it has been told   *)
(* to stop: two muxers never convert the same stream for long, and none is *)
(* out of reach of PathNotReady.                                           *)
NoOrphanMuxer ==
    \A i \in Muxers :
        phase[i] \in {"adding", "routed", "held", "joined", "up"} /\ ~cancelled[i]
            => muxers[name[i]] = i

(* A session that a client holds is known to a muxer that has not ended:   *)
(* somebody will close it and take it out of the path.                     *)
OpenSessionsHaveMuxer ==
    \A s \in Sessions : phase[s] = "open" =>
        \E i \in Muxers : /\ phase[i] \in {"up", "leaving", "ending", "destroying"}
                          /\ s \in registry[i] \cup victims[i]

(* Whoever is a reader of a path is still there to leave it.               *)
ReadersAreAlive ==
    \A n \in Names : \A a \in readers[n] : name[a] = n /\ phase[a] \in Joined

(* When the server learns that a path is ready, the path has afterwards a  *)
(* muxer that has not been told to stop ("created with always remux").     *)
(* Claimed where paths are not recreated.                                  *)
ReadyPathIsRemuxed ==
    [][\A n \in Names \ OnDemand :
          AlwaysRemux /\ PathReady(n) => /\ muxers'[n] # None
                                         /\ ~cancelled'[muxers'[n]]]_vars

(* Sessions, muxers and paths agree on who is there: see the conjuncts.    *)
ReadersAreKnown == NoOrphanMuxer /\ OpenSessionsHaveMuxer /\ ReadersAreAlive

(* Nobody waits for ever, as long as nobody asks for the list of muxers:   *)
(* the manager's call of the HLS server returns, a request for a playlist  *)
(* is answered, the session being open or refused, and a muxer whose       *)
(* context is done ends and gives its name back.                           *)
HLSReturns ==
    mode.fair =>
      /\ mgr # None ~> (mgr = None \/ ~Alive)
      /\ \A s \in Sessions : phase[s] = "adding" ~> (phase[s] \in Idle \cup {"open"} \/ ~Alive)
      /\ \A i \in Muxers : cancelled[i] /\ phase[i] # "none" ~> (phase[i] = "none" \/ ~Alive)
=============================================================================
