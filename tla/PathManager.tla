---------------------------- MODULE PathManager ----------------------------
(***************************************************************************)
(* The path manager (internal/core/path_manager.go) and the life of the    *)
(* paths it creates.                                                       *)
(*                                                                         *)
(* The manager is one goroutine; so is every path, and so is every         *)
(* `go pa.reloadConf(conf)`.  They meet on unbuffered channels.  A path    *)
(* that calls the manager (closePathIfIdle, setPathReady, setPathNotReady) *)
(* is blocked until the manager takes the call or the path's context is    *)
(* cancelled; the manager, closing a path, is blocked until the path has   *)
(* ended.  What a path does in between is in module Path: here it is       *)
(* reduced to being available or not, idle or not.                         *)
(***************************************************************************)
EXTENDS Naturals, FiniteSets

CONSTANTS
    Names,          \* path names
    Wildcard,       \* the name of the regular expression configuration
    Majors,         \* settings that need the path to be recreated
    Minors,         \* settings that can be hot reloaded
    Configurations, \* the configuration files that reloads choose from
    Cameras,        \* names whose source is a secondary camera (rpicamera)
    PrimaryName,    \* of each of them: RPICameraPrimaryName
    MaxPaths,       \* bound: paths created
    MaxReloads,     \* bound: configuration reloads
    None

ConfNames == Names \cup {Wildcard}
PathIds == 1..MaxPaths

(* conf.Path, by its name and its two kinds of settings.                   *)
Conf == [name : ConfNames, major : Majors, minor : Minors]

(* The paths section of a configuration file: a conf for some names.       *)
PathConfs ==
    UNION {{f \in [S -> Conf] : \A n \in S : f[n].name = n} : S \in SUBSET ConfNames}

ASSUME ManagerAssumption ==
    /\ Wildcard \notin Names /\ None \notin Nat
    /\ MaxPaths \in Nat /\ MaxReloads \in Nat
    /\ IsFiniteSet(Names) /\ Cardinality(Names) <= MaxPaths
    /\ Cameras \subseteq Names
    /\ PrimaryName \in [Cameras -> Names] /\ \A n \in Cameras : PrimaryName[n] # n
    /\ Configurations \subseteq PathConfs

(* FindPathConf: the conf of that name, or else the regular expression.    *)
Matches(confs, n) == IF n \in DOMAIN confs THEN {n} ELSE {Wildcard} \cap DOMAIN confs
FindPathConf(confs, n) == confs[CHOOSE m \in Matches(confs, n) : TRUE]
IsConfigured(confs, n) == Matches(confs, n) # {}

(* pathConfCanBeUpdated ignores the name, the expression and what is hot   *)
(* reloadable.                                                             *)
CanBeUpdated(old, new) == old.major = new.major

(* What the source of a secondary camera is doing: nothing for the others; *)
(* in AddReader, waiting for the manager, for the primary path, or held by *)
(* it; reading; in RemoveReader.                                           *)
CameraStates == {"none", "manager", "adding", "held", "reading", "removing"}

VARIABLES
    pathConfs,      \* pm.pathConfs
    paths,          \* pm.paths
    pc,             \* "select", "reloading", "waiting" (in doClosePath)
    newConfs,       \* doReloadConf: its argument
    todo,           \* doReloadConf: the paths not yet looked at
    waitingFor,     \* doClosePath: the path it waits for
    created,        \* paths created so far
    name, confName, conf, \* of each path: pa.name, pa.confName, pa.conf
    phase,          \* of each path: "unborn", "select", "asking" (in
                    \* closePathIfIdle), "telling" (in setPath[Not]Ready), "done"
    cancelled,      \* of each path: pa.ctx is done
    available,      \* of each path: pa.stream # nil
    ready,          \* of each path: the flag of the manager
    pending,        \* of each path: a request was routed and not taken
    inUse,          \* of each path: it has a source, a reader or a waiter
    camera,         \* of each path: what its source, a secondary camera, is doing
    primary,        \* of each path: the path that the manager gave the camera
    inflight,       \* goroutines running pa.reloadConf
    overlapped,     \* the paths with two of them at once, so far
    reloads         \* configuration reloads so far

mgrVars  == <<pathConfs, paths, pc, newConfs, todo, waitingFor>>
bornVars == <<created, name>>
pathVars == <<phase, cancelled, available, ready, pending, inUse, camera, primary>>
vars == <<mgrVars, bornVars, confName, conf, pathVars, inflight, overlapped, reloads>>

Born == 1..created
Live == {i \in Born : phase[i] # "done"}
Mapped == {i \in Born : paths[name[i]] = i}

(* A static path lives in the map as long as its configuration.            *)
IsRegexp(c) == c.name = Wildcard

Init ==
    /\ pathConfs \in Configurations
    /\ LET static == DOMAIN pathConfs \cap Names
       IN  /\ created = Cardinality(static)
           /\ \E ids \in [static -> 1..Cardinality(static)] :
                 /\ \A m, n \in static : ids[m] = ids[n] => m = n
                 /\ paths = [n \in Names |-> IF n \in static THEN ids[n] ELSE None]
                 /\ name = [i \in PathIds |-> IF i <= Cardinality(static)
                              THEN CHOOSE n \in static : ids[n] = i ELSE None]
    /\ confName = name
    /\ conf = [i \in PathIds |-> IF i <= created THEN pathConfs[name[i]] ELSE None]
    /\ pc = "select" /\ newConfs = pathConfs /\ todo = {} /\ waitingFor = None
    /\ phase = [i \in PathIds |-> IF i <= created THEN "select" ELSE "unborn"]
    /\ cancelled = [i \in PathIds |-> FALSE]
    /\ available = [i \in PathIds |-> FALSE]
    /\ ready = [i \in PathIds |-> FALSE]
    /\ pending = [i \in PathIds |-> FALSE]
    /\ inUse = [i \in PathIds |-> FALSE]
    /\ camera = [i \in PathIds |-> "none"] /\ primary = [i \in PathIds |-> None]
    /\ inflight = {} /\ overlapped = {}
    /\ reloads = 0

(***************************************************************************)
(* The path manager.                                                       *)
(***************************************************************************)
(* createPath, for a set of names numbered in the order they are created.  *)
CreatePaths(confs, ns, ids) ==
    LET idOf(i) == CHOOSE n \in ns : ids[n] = i
        new(i) == i \in created + 1 .. created + Cardinality(ns)
    IN  /\ created' = created + Cardinality(ns)
        /\ paths' = [n \in Names |-> IF n \in ns THEN ids[n] ELSE paths[n]]
        /\ name' = [i \in PathIds |-> IF new(i) THEN idOf(i) ELSE name[i]]
        /\ confName' = [i \in PathIds |-> IF new(i) THEN FindPathConf(confs, idOf(i)).name
                                          ELSE confName[i]]
        /\ conf' = [i \in PathIds |-> IF new(i) THEN FindPathConf(confs, idOf(i))
                                      ELSE conf[i]]

Numberings(ns) ==
    {ids \in [ns -> created + 1 .. created + Cardinality(ns)] :
        \A m, n \in ns : ids[m] = ids[n] => m = n}

(* The path of a request: created if it does not exist.                    *)
RoutedTo(n, p) ==
    /\ IsConfigured(pathConfs, n)
    /\ IF paths[n] # None
       THEN /\ p = paths[n]
            /\ UNCHANGED <<paths, bornVars, confName, conf, phase>>
       ELSE /\ p = created + 1 /\ created < MaxPaths
            /\ CreatePaths(pathConfs, {n}, [m \in {n} |-> created + 1])
            /\ phase' = [phase EXCEPT ![created + 1] = "select"]

(* doDescribe, doAddReader, doAddPublisher: find the configuration, create *)
(* the path if it does not exist, count the request, reply with the path.  *)
Request(n) ==
    /\ pc = "select"
    /\ \E p \in PathIds : /\ RoutedTo(n, p)
                          /\ ~pending[p]
                          /\ pending' = [pending EXCEPT ![p] = TRUE]
    /\ UNCHANGED <<pathConfs, pc, newConfs, todo, waitingFor, cancelled, available, ready,
                   inUse, camera, primary, inflight, overlapped, reloads>>

(* doAddReader for the source of a secondary camera: it is refused when    *)
(* its primary is not configured.                                          *)
CameraRouted(i) ==
    /\ pc = "select"
    /\ camera[i] = "manager" /\ name[i] \in Cameras
    /\ \/ /\ ~IsConfigured(pathConfs, PrimaryName[name[i]])
          /\ camera' = [camera EXCEPT ![i] = "none"]
          /\ UNCHANGED <<paths, bornVars, confName, conf, phase, primary>>
       \/ \E p \in PathIds : /\ RoutedTo(PrimaryName[name[i]], p)
                             /\ camera' = [camera EXCEPT ![i] = "adding"]
                             /\ primary' = [primary EXCEPT ![i] = p]
    /\ UNCHANGED <<pathConfs, pc, newConfs, todo, waitingFor, cancelled, available, ready,
                   pending, inUse, inflight, overlapped, reloads>>

(* pa.pendingRequests > 0                                                  *)
HasPending(p) ==
    pending[p] \/ \E i \in PathIds : camera[i] = "adding" /\ primary[i] = p

(* Seeded fault: the manager does not wait for the end of the path.        *)
doClosePath_NoWait(i) ==
    /\ paths' = [paths EXCEPT ![name[i]] = None]
    /\ cancelled' = [cancelled EXCEPT ![i] = TRUE]
    /\ UNCHANGED <<pc, waitingFor>>

(* delete(pm.paths, pa.name), pa.close(), pa.wait()                        *)
doClosePath(i) ==
    /\ paths' = [paths EXCEPT ![name[i]] = None]
    /\ cancelled' = [cancelled EXCEPT ![i] = TRUE]
    /\ pc' = "waiting"
    /\ waitingFor' = i

(* pa.wait() returns; a reload goes on with the next path.                 *)
PathWaited ==
    /\ pc = "waiting"
    /\ phase[waitingFor] = "done"
    /\ pc' = IF newConfs = pathConfs THEN "select" ELSE "reloading"
    /\ waitingFor' = None
    /\ UNCHANGED <<pathConfs, paths, newConfs, todo, bornVars, confName, conf, pathVars,
                   inflight, overlapped, reloads>>

(* chReloadConf: doReloadConf begins.                                      *)
ReloadPathConfs(new) ==
    /\ pc = "select"
    /\ reloads < MaxReloads /\ created + Cardinality(Names) <= MaxPaths
    /\ new # pathConfs
    /\ reloads' = reloads + 1
    /\ pc' = "reloading"
    /\ newConfs' = new
    /\ todo' = {n \in Names : paths[n] # None}
    /\ UNCHANGED <<pathConfs, paths, waitingFor, bornVars, confName, conf, pathVars, inflight, overlapped>>

(* Seeded fault: the path keeps the name of its previous configuration.    *)
HotReload_NameKept(i, c) ==
    /\ inflight' = inflight \cup {[path |-> i, conf |-> c, seq |-> reloads]}
    /\ UNCHANGED <<confName, overlapped>>

(* go pa.reloadConf(newPathConf)                                           *)
HotReload(i, c) ==
    /\ confName' = [confName EXCEPT ![i] = c.name]
    /\ inflight' = inflight \cup {[path |-> i, conf |-> c, seq |-> reloads]}
    /\ overlapped' = overlapped \cup {g.path : g \in {h \in inflight : h.path = i}}

(* One round of doReloadConf's loop over the paths, in any order.          *)
ReloadPath(n) ==
    LET i   == paths[n]
        old == pathConfs[confName[i]]
        new == FindPathConf(newConfs, n)
        same == IsConfigured(newConfs, n) /\ new = old
        hot == IsConfigured(newConfs, n) /\ CanBeUpdated(old, new)
    IN
    /\ pc = "reloading"
    /\ n \in todo
    /\ todo' = todo \ {n}
    /\ \/ same /\ UNCHANGED <<paths, cancelled, pc, waitingFor, confName, inflight, overlapped>>
       \/ /\ hot /\ ~same
          /\ HotReload(i, new)
          /\ UNCHANGED <<paths, cancelled, pc, waitingFor>>
       \/ /\ ~hot
          /\ doClosePath(i)
          /\ UNCHANGED <<confName, inflight, overlapped>>
    /\ UNCHANGED <<pathConfs, newConfs, bornVars, conf, phase, available, ready, pending,
                   inUse, camera, primary, reloads>>

(* The end of doReloadConf: the missing static paths are created.          *)
ReloadDone ==
    LET missing == {n \in Names \cap DOMAIN newConfs : paths[n] = None}
    IN
    /\ pc = "reloading"
    /\ todo = {}
    /\ pathConfs' = newConfs
    /\ \E ids \in Numberings(missing) : CreatePaths(newConfs, missing, ids)
    /\ phase' = [i \in PathIds |-> IF i > created /\ i <= created' THEN "select" ELSE phase[i]]
    /\ pc' = "select"
    /\ UNCHANGED <<newConfs, todo, waitingFor, cancelled, available, ready, pending, inUse,
                   camera, primary, inflight, overlapped, reloads>>

(* chClosePathIfIdle.                                                      *)
ClosePathIfIdle(i) ==
    /\ pc = "select"
    /\ phase[i] = "asking"
    /\ phase' = [phase EXCEPT ![i] = "select"]
    /\ IF HasPending(i) THEN UNCHANGED <<paths, cancelled, pc, waitingFor>> ELSE doClosePath(i)
    /\ UNCHANGED <<pathConfs, newConfs, todo, bornVars, confName, conf, available, ready,
                   pending, inUse, camera, primary, inflight, overlapped, reloads>>

(* consumeOnHoldRequests, or the refusal of the cameras that are held.     *)
AnswerHeld(p, answer) ==
    camera' = [i \in PathIds |->
                 IF camera[i] = "held" /\ primary[i] = p THEN answer ELSE camera[i]]

(* The end of setAvailable or setNotAvailable, when the call of the        *)
(* manager has returned.                                                   *)
SwitchEnds(i) ==
    AnswerHeld(i, IF available[i] THEN "reading" ELSE "none") /\ UNCHANGED primary

(* doSetPathReady, doSetPathNotReady: the call of a path that is not (or   *)
(* no longer) in the map is ignored.                                       *)
doSetPathReady(i) ==
    /\ pc = "select"
    /\ phase[i] = "telling"
    /\ phase' = [phase EXCEPT ![i] = "select"]
    /\ ready' = IF paths[name[i]] = i THEN [ready EXCEPT ![i] = available[i]] ELSE ready
    /\ SwitchEnds(i)
    /\ UNCHANGED <<mgrVars, bornVars, confName, conf, cancelled, available, pending, inUse,
                   inflight, overlapped, reloads>>

(***************************************************************************)
(* The paths.                                                              *)
(***************************************************************************)
(* if pa.shouldClose() { pa.parent.closePathIfIdle(pa) }                   *)
AfterHandler(i, busy) ==
    IF IsRegexp(conf[i]) /\ ~busy THEN "asking" ELSE "select"

Held(p) == {i \in PathIds : camera[i] = "held" /\ primary[i] = p}

(* The handler of a request ends, the path in use or idle.                 *)
Handled(p, busy) ==
    /\ available[p] \/ Held(p) # {} => busy
    /\ inUse' = [inUse EXCEPT ![p] = busy]
    /\ phase' = [phase EXCEPT ![p] = AfterHandler(p, busy)]

(* A request is taken from the queue.                                      *)
HandleRequest(i) ==
    /\ phase[i] = "select"
    /\ pending[i]
    /\ pending' = [pending EXCEPT ![i] = FALSE]
    /\ \E busy \in BOOLEAN : Handled(i, busy)
    /\ UNCHANGED <<mgrVars, bornVars, confName, conf, cancelled, available, ready, camera,
                   primary, inflight, overlapped, reloads>>

(* doAddReader of the primary path p: the camera is made a reader of its   *)
(* stream; without a stream it is refused, or held if the source of p is   *)
(* on demand.                                                              *)
CameraServed(i, p) ==
    /\ camera[i] = "adding" /\ primary[i] = p
    /\ phase[p] = "select"
    /\ \E answer \in IF available[p] THEN {"reading"} ELSE {"held", "none"},
          busy \in BOOLEAN :
          /\ answer = "held" => busy
          /\ Handled(p, busy)
          /\ camera' = [camera EXCEPT ![i] = answer]
    /\ UNCHANGED <<mgrVars, bornVars, confName, conf, cancelled, available, ready, pending,
                   primary, inflight, overlapped, reloads>>

(* setAvailable or setNotAvailable, and its call of the manager.           *)
SwitchStream(i) ==
    /\ phase[i] = "select"
    /\ inUse[i]
    /\ available' = [available EXCEPT ![i] = ~available[i]]
    /\ phase' = [phase EXCEPT ![i] = "telling"]
    /\ UNCHANGED <<mgrVars, bornVars, confName, conf, cancelled, ready, pending, inUse,
                   camera, primary, inflight, overlapped, reloads>>

(* A timer or the last publisher leaves the path idle: the requests that   *)
(* are held are refused.                                                   *)
BecomeIdle(i) ==
    /\ phase[i] = "select"
    /\ inUse[i] /\ ~available[i]
    /\ inUse' = [inUse EXCEPT ![i] = FALSE]
    /\ phase' = [phase EXCEPT ![i] = AfterHandler(i, FALSE)]
    /\ AnswerHeld(i, "none")
    /\ UNCHANGED <<mgrVars, bornVars, confName, conf, cancelled, available, ready, pending,
                   primary, inflight, overlapped, reloads>>

(* The loop takes a new configuration, in the order the goroutines arrive. *)
doReloadConf(g) ==
    /\ g \in inflight
    /\ phase[g.path] = "select"
    /\ inflight' = inflight \ {g}
    /\ conf' = [conf EXCEPT ![g.path] = g.conf]
    /\ UNCHANGED <<mgrVars, bornVars, confName, pathVars, overlapped, reloads>>

(* reloadConf gives up on a path that is closing.                          *)
ReloadDropped(g) ==
    /\ g \in inflight
    /\ cancelled[g.path]
    /\ inflight' = inflight \ {g}
    /\ UNCHANGED <<mgrVars, bornVars, confName, conf, pathVars, overlapped, reloads>>

(* The source of a secondary camera, from waitForPrimary on.               *)
OnlyCamera ==
    UNCHANGED <<mgrVars, bornVars, confName, conf, phase, cancelled, available, ready, pending,
                inUse, primary, inflight, overlapped, reloads>>

(* It looks for its primary: pathManager.AddReader.                        *)
CameraAsks(i) ==
    /\ name[i] \in Cameras
    /\ phase[i] \in {"select", "asking", "telling"} /\ camera[i] = "none"
    /\ camera' = [camera EXCEPT ![i] = "manager"]
    /\ OnlyCamera

(* The stream of the primary ends, or the source is stopped: the deferred  *)
(* RemoveReader.                                                           *)
CameraLeaves(i) ==
    /\ camera[i] = "reading"
    /\ camera' = [camera EXCEPT ![i] = "removing"]
    /\ OnlyCamera

(* doRemoveReader.                                                         *)
CameraRemoved(i, p) ==
    /\ camera[i] = "removing" /\ primary[i] = p
    /\ phase[p] = "select"
    /\ camera' = [camera EXCEPT ![i] = "none"]
    /\ OnlyCamera

(* case <-pa.ctx.Done() of addReader and RemoveReader.                     *)
CameraAborted(i, p) ==
    /\ camera[i] \in {"adding", "removing"} /\ primary[i] = p
    /\ cancelled[p]
    /\ camera' = [camera EXCEPT ![i] = "none"]
    /\ OnlyCamera

(* Seeded fault: setPathReady does not watch the path's context.           *)
CallAborted_AskingOnly(i) ==
    /\ phase[i] = "asking" /\ cancelled[i]
    /\ phase' = [phase EXCEPT ![i] = "select"]
    /\ SwitchEnds(i)
    /\ UNCHANGED <<mgrVars, bornVars, confName, conf, cancelled, available, ready, pending,
                   inUse, inflight, overlapped, reloads>>

(* case <-pa.ctx.Done() of a call blocked on the manager.                  *)
CallAborted(i) ==
    /\ phase[i] \in {"asking", "telling"} /\ cancelled[i]
    /\ phase' = [phase EXCEPT ![i] = "select"]
    /\ IF phase[i] = "telling" THEN SwitchEnds(i) ELSE UNCHANGED <<camera, primary>>
    /\ UNCHANGED <<mgrVars, bornVars, confName, conf, cancelled, available, ready, pending,
                   inUse, inflight, overlapped, reloads>>

(* The end of run(): the requests that are held are refused and the source *)
(* is stopped; Handler.Stop waits for the source's goroutine.              *)
Terminate(i) ==
    /\ phase[i] = "select" /\ cancelled[i]
    /\ camera[i] = "none"
    /\ phase' = [phase EXCEPT ![i] = "done"]
    /\ available' = [available EXCEPT ![i] = FALSE]
    /\ AnswerHeld(i, "none")
    /\ UNCHANGED <<mgrVars, bornVars, confName, conf, cancelled, ready, pending, inUse,
                   primary, inflight, overlapped, reloads>>

Next ==
    \/ \E n \in Names : Request(n) \/ ReloadPath(n)
    \/ \E new \in Configurations : ReloadPathConfs(new)
    \/ PathWaited \/ ReloadDone
    \/ \E i \in Born : \/ ClosePathIfIdle(i) \/ doSetPathReady(i) \/ CameraRouted(i)
                       \/ HandleRequest(i) \/ SwitchStream(i) \/ BecomeIdle(i)
                       \/ CameraAsks(i) \/ CameraLeaves(i) \/ CallAborted(i) \/ Terminate(i)
    \/ \E i, p \in Born : CameraServed(i, p) \/ CameraRemoved(i, p) \/ CameraAborted(i, p)
    \/ \E g \in inflight : doReloadConf(g) \/ ReloadDropped(g)

Spec == Init /\ [][Next]_vars

(***************************************************************************)
(* Fairness: the manager and the paths keep running.  A path whose context *)
(* is cancelled leaves its select although other channels may be ready     *)
(* again and again: strong fairness, from Go's random select.  A camera    *)
(* whose primary is in its select is served, one that is held is answered  *)
(* when the on-demand timer fires, and one that is told to stop leaves its *)
(* primary.                                                                *)
(***************************************************************************)
Fairness ==
    /\ WF_vars(PathWaited) /\ WF_vars(ReloadDone)
    /\ \A n \in Names : WF_vars(ReloadPath(n))
    /\ \A i \in PathIds : /\ WF_vars(CallAborted(i)) /\ SF_vars(Terminate(i))
                          /\ WF_vars(Held(i) # {} /\ BecomeIdle(i))
                          /\ WF_vars(cancelled[i] /\ CameraLeaves(i))
    /\ \A i, p \in PathIds : /\ WF_vars(CameraServed(i, p)) /\ WF_vars(CameraRemoved(i, p))
                             /\ WF_vars(CameraAborted(i, p))

FairSpec == Spec /\ Fairness

(***************************************************************************)
(* Properties.                                                             *)
(***************************************************************************)
(* Type invariant of the manager's and the paths' fields.                  *)
TypeOK ==
    /\ pathConfs \in Configurations /\ newConfs \in Configurations
    /\ paths \in [Names -> PathIds \cup {None}]
    /\ pc \in {"select", "reloading", "waiting"}
    /\ todo \subseteq Names
    /\ waitingFor \in PathIds \cup {None}
    /\ created \in 0..MaxPaths
    /\ name \in [PathIds -> Names \cup {None}]
    /\ confName \in [PathIds -> ConfNames \cup {None}]
    /\ conf \in [PathIds -> Conf \cup {None}]
    /\ phase \in [PathIds -> {"unborn", "select", "asking", "telling", "done"}]
    /\ cancelled \in [PathIds -> BOOLEAN] /\ available \in [PathIds -> BOOLEAN]
    /\ ready \in [PathIds -> BOOLEAN] /\ pending \in [PathIds -> BOOLEAN]
    /\ inUse \in [PathIds -> BOOLEAN]
    /\ camera \in [PathIds -> CameraStates]
    /\ primary \in [PathIds -> PathIds \cup {None}]
    /\ inflight \subseteq [path : PathIds, conf : Conf, seq : 1..MaxReloads]
    /\ overlapped \subseteq PathIds
    /\ reloads \in 0..MaxReloads

(* Two paths of the same name never run at the same time ("avoid conflicts *)
(* between sources", doClosePath), and a path that runs is in the map      *)
(* unless it was told to close.                                            *)
OnePathPerName ==
    /\ \A i, j \in Live : name[i] = name[j] => i = j
    /\ \A i \in Live : i \in Mapped \/ cancelled[i]

(* Every path in the map belongs to the configuration that its name        *)
(* selects now: doReloadConf dereferences pm.pathConfs[pa.confName].       *)
PathsAreConfigured ==
    pc = "select" => \A i \in Mapped :
        /\ IsConfigured(pathConfs, name[i])
        /\ confName[i] = FindPathConf(pathConfs, name[i]).name

(* The manager's ready flag, which decides what a new HLS server is told,  *)
(* is the path's availability whenever the path is not in a call.          *)
ReadyFlagAgrees ==
    \A i \in Mapped : phase[i] \in {"select", "asking"} => ready[i] = available[i]

(* A path runs with the configuration the manager has for it, or a reload  *)
(* is on its way, unless two reloads of the path have overtaken each other.*)
StaleOnlyIfOvertaken ==
    pc = "select" => \A i \in Mapped \ overlapped :
        \/ conf[i] = FindPathConf(pathConfs, name[i])
        \/ \E g \in inflight : g.path = i /\ g.conf = FindPathConf(pathConfs, name[i])

(* The manager knows its paths: see the three conjuncts.                   *)
ManagerIsCurrent == PathsAreConfigured /\ ReadyFlagAgrees /\ StaleOnlyIfOvertaken

(* What the manager, waiting for path i, may be waiting for in vain: the   *)
(* source of i is a secondary camera that waits for the manager itself, or *)
(* for a primary path that is in a call of the manager.                    *)
WaitsInCircle(i) ==
    \/ camera[i] = "manager"
    \/ /\ camera[i] \in {"adding", "held", "removing"}
       /\ \E p \in PathIds : /\ primary[i] = p
                             /\ phase[p] \in {"asking", "telling"} /\ ~cancelled[p]

(* The manager always returns to its select: closing a path and reloading  *)
(* end although the path may be calling the manager, or its source the     *)
(* manager and another path.  The exception are the circles of             *)
(* WaitsInCircle: AddReader and RemoveReader, in the source, watch no      *)
(* context of their own.                                                   *)
ManagerReturns ==
    pc # "select" ~> (pc = "select" \/ (pc = "waiting" /\ WaitsInCircle(waitingFor)))
=============================================================================
