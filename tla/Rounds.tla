------------------------------- MODULE Rounds -------------------------------
(***************************************************************************)
(* Recording on request (internal/recording): rounds of a game table, and  *)
(* recordings of single paths.                                             *)
(*                                                                         *)
(* Every HTTP request runs in a goroutine of its own.  A round start locks *)
(* the table, then starts a recorder on every view, pulling a view from    *)
(* its ingest source if nobody publishes it; a round end releases the      *)
(* table, then splits and stops the recorders of the round.  The recorder  *)
(* of a path (pa.recorder) is read and written by these goroutines and by  *)
(* the path's loop without a lock.  Paths come from a regular expression:  *)
(* a path exists as long as it is published.                               *)
(***************************************************************************)
EXTENDS Naturals, FiniteSets

CONSTANTS
    Owners,         \* ownerKey of the callers of /api/record/split
    TablePaths,     \* the views of the table
    DefaultView,    \* "fwh", the view of a table nobody publishes
    ApiPaths,       \* paths recorded through /api/v1/recordings
    Ingest,         \* paths with an ingest source
    Uses,           \* the sets of paths that are used together
    Slots,          \* HTTP requests in progress
    Patient,        \* an owner waits for an answer before its next request
    None, Api

Paths == TablePaths \cup ApiPaths

ASSUME RoundsAssumption ==
    /\ DefaultView \in TablePaths /\ Ingest \subseteq Paths /\ Patient \in BOOLEAN
    /\ Uses \subseteq SUBSET Paths
    /\ Api \notin Owners /\ None \notin Owners \cup Paths \cup Slots \cup {Api}
    /\ None \notin [owner : Owners, paths : SUBSET TablePaths]

VARIABLES
    used,           \* of Uses: the paths that are published or recorded
    active,         \* h.activeGames of the table: None or [owner, paths]
    held,           \* the owners whose start was answered and not yet ended
    job,            \* m.running: "no", "current", "stale" (its path has gone)
    mu,             \* m.mu: the request that holds it
    req,            \* the requests
    stream,         \* the path is published
    loop,           \* the path's loop: "select" or "closing" (setNotAvailable)
    rec,            \* pa.recorder, by who started it
    live,           \* recorders that have not been closed
    workers,        \* ingest workers
    disturbed,      \* a stream went away while somebody recorded it
    crashed         \* the process has ended in a panic

lockVars == <<active, held>>
mgrVars == <<job, mu>>
pathVars == <<stream, loop, rec, live>>
envVars == <<disturbed, crashed>>
vars == <<used, lockVars, mgrVars, req, pathVars, workers, envVars>>

Idle == [pc |-> "idle", kind |-> None, owner |-> None, todo |-> {}, got |-> {}, cur |-> None,
         stale |-> FALSE]

Init ==
    /\ used \in Uses
    /\ active = None /\ held = {}
    /\ job = [p \in Paths |-> "no"] /\ mu = None
    /\ req = [r \in Slots |-> Idle]
    /\ stream = [p \in Paths |-> FALSE] /\ loop = [p \in Paths |-> "select"]
    /\ rec = [p \in Paths |-> None] /\ live = {}
    /\ workers = {} /\ disturbed = FALSE /\ crashed = FALSE

(***************************************************************************)
(* Requests.                                                               *)
(***************************************************************************)
At(r, pc) == ~crashed /\ req[r].pc = pc

Go(r, pc) == req' = [req EXCEPT ![r].pc = pc]

Reply(r) == req' = [req EXCEPT ![r] = Idle]

(* ServeHTTP, up to execute.                                               *)
SendRound(r, kind, o) ==
    /\ At(r, "idle")
    /\ Patient => \A q \in Slots : req[q].owner # o
    /\ req' = [req EXCEPT ![r] = [Idle EXCEPT !.pc = "lock", !.kind = kind, !.owner = o]]
    /\ UNCHANGED <<lockVars, mgrVars, pathVars, workers, envVars>>

(* onRecordingStart, onRecordingStop.                                      *)
SendApi(r, kind, p) ==
    /\ At(r, "idle") /\ p \in used
    /\ req' = [req EXCEPT ![r] = [Idle EXCEPT !.pc = "mutex", !.kind = kind, !.owner = Api,
                                              !.cur = p]]
    /\ UNCHANGED <<lockVars, mgrVars, pathVars, workers, envVars>>

(***************************************************************************)
(* Round start.                                                            *)
(***************************************************************************)
tableToPaths ==
    LET published == {p \in TablePaths : stream[p]}
    IN IF published = {} THEN {DefaultView} ELSE published

(* Seeded fault: the table is not locked before the views are started.     *)
LockTable_Late(r) ==
    /\ At(r, "lock") /\ req[r].kind = "start"
    /\ IF active # None THEN Reply(r)
       ELSE req' = [req EXCEPT ![r].pc = "views", ![r].todo = tableToPaths]
    /\ UNCHANGED <<lockVars, mgrVars, pathVars, workers, envVars>>

(* The first critical section of startRound, and tableToPaths.             *)
LockTable(r) ==
    /\ At(r, "lock") /\ req[r].kind = "start"
    /\ IF active # None
       THEN Reply(r) /\ UNCHANGED active
       ELSE /\ active' = [owner |-> req[r].owner, paths |-> {}]
            /\ req' = [req EXCEPT ![r].pc = "views", ![r].todo = tableToPaths]
    /\ UNCHANGED <<held, mgrVars, pathVars, workers, envVars>>

(* The path is found: it is skipped if somebody records it already         *)
(* (IsOnline, and the guard of StartOnDemandRecording).                    *)
Found(r, p) ==
    IF rec[p] = None
    THEN req' = [req EXCEPT ![r].pc = "set", ![r].cur = p]
    ELSE req' = [req EXCEPT ![r].pc = "views", ![r].cur = None, ![r].todo = @ \ {p}]

Skip(r, p) == req' = [req EXCEPT ![r].pc = "views", ![r].cur = None, ![r].todo = @ \ {p}]

(* resolveRecordingController; findController takes the manager's mutex.   *)
StartView(r, p) ==
    /\ At(r, "views") /\ p \in req[r].todo
    /\ mu = None
    /\ \/ stream[p] /\ Found(r, p) /\ UNCHANGED workers
       \/ /\ ~stream[p] /\ p \in Ingest
          /\ workers' = workers \cup {p}
          /\ req' = [req EXCEPT ![r].pc = "poll", ![r].cur = p]
       \/ ~stream[p] /\ p \notin Ingest /\ Skip(r, p) /\ UNCHANGED workers
    /\ UNCHANGED <<lockVars, mgrVars, pathVars, envVars>>

(* The ingested stream has come online.                                    *)
Polled(r) ==
    /\ At(r, "poll") /\ mu = None
    /\ stream[req[r].cur]
    /\ Found(r, req[r].cur)
    /\ UNCHANGED <<lockVars, mgrVars, pathVars, workers, envVars>>

(* waitForIngestPath has passed, or the client has gone.                   *)
TimedOut(r) ==
    /\ At(r, "poll")
    /\ Skip(r, req[r].cur)
    /\ UNCHANGED <<lockVars, mgrVars, pathVars, workers, envVars>>

(* pa.startRecording: on a path that has gone meanwhile, pa.stream is nil, *)
(* and a panic in an HTTP handler ends the process (handlerExitOnPanic).   *)
StartRecording(r) ==
    LET p == req[r].cur
        o == req[r].owner
    IN /\ At(r, "set")
       /\ crashed' = req[r].stale
       /\ IF req[r].stale
          THEN UNCHANGED <<req, rec, live>>
          ELSE /\ rec' = [rec EXCEPT ![p] = o]
               /\ live' = live \cup {<<p, o>>}
               /\ IF o = Api THEN Go(r, "insert")
                  ELSE req' = [req EXCEPT ![r].pc = "views", ![r].cur = None,
                                          ![r].todo = @ \ {p}, ![r].got = @ \cup {p}]
       /\ UNCHANGED <<lockVars, mgrVars, stream, loop, workers, disturbed>>

(* The last critical section of startRound.                                *)
FinishStart(r) ==
    /\ At(r, "views") /\ req[r].kind = "start" /\ req[r].todo = {}
    /\ IF req[r].got = {}
       THEN active' = None /\ UNCHANGED held
       ELSE /\ active' = [owner |-> req[r].owner, paths |-> req[r].got]
            /\ held' = held \cup {req[r].owner}
    /\ Reply(r)
    /\ UNCHANGED <<mgrVars, pathVars, workers, envVars>>

(***************************************************************************)
(* Round end.                                                              *)
(***************************************************************************)
(* Seeded fault: anybody may end a round.                                  *)
UnlockTable_Anybody(r) ==
    /\ At(r, "lock") /\ req[r].kind = "end"
    /\ IF active = None THEN Reply(r) /\ UNCHANGED lockVars
       ELSE /\ active' = None /\ held' = held \ {req[r].owner}
            /\ req' = [req EXCEPT ![r].pc = "ending", ![r].todo = active.paths]
    /\ UNCHANGED <<mgrVars, pathVars, workers, envVars>>

(* The critical section of stopRound: a table nobody holds is no error.    *)
UnlockTable(r) ==
    /\ At(r, "lock") /\ req[r].kind = "end"
    /\ IF active = None \/ active.owner # req[r].owner
       THEN Reply(r) /\ UNCHANGED lockVars
       ELSE /\ active' = None
            /\ held' = held \ {req[r].owner}
            /\ req' = [req EXCEPT ![r].pc = "ending", ![r].todo = active.paths]
    /\ UNCHANGED <<mgrVars, pathVars, workers, envVars>>

(* lookupController, SplitRecording (which may fail), and on to            *)
(* StopOnDemandRecording; a path that has gone is skipped.                 *)
EndView(r, p) ==
    /\ At(r, "ending") /\ p \in req[r].todo
    /\ mu = None
    /\ IF stream[p] THEN req' = [req EXCEPT ![r].pc = "close", ![r].cur = p]
                    ELSE req' = [req EXCEPT ![r].todo = @ \ {p}]
    /\ UNCHANGED <<lockVars, mgrVars, pathVars, workers, envVars>>

FinishEnd(r) ==
    /\ At(r, "ending") /\ req[r].todo = {}
    /\ Reply(r)
    /\ UNCHANGED <<lockVars, mgrVars, pathVars, workers, envVars>>

(***************************************************************************)
(* Recordings of single paths (recording.Manager), under its mutex.        *)
(***************************************************************************)
(* Manager.Start, up to StartOnDemandRecording.                            *)
MgrStart(r) ==
    LET p == req[r].cur
    IN /\ At(r, "mutex") /\ req[r].kind = "apiStart"
       /\ mu = None
       /\ IF stream[p] /\ job[p] = "no" /\ rec[p] = None
          THEN mu' = r /\ Go(r, "set")
          ELSE Reply(r) /\ UNCHANGED mu
       /\ UNCHANGED <<lockVars, job, pathVars, workers, envVars>>

(* store.Insert, and the rollback if it fails.                             *)
MgrInsert(r) ==
    /\ At(r, "insert")
    /\ \/ /\ job' = [job EXCEPT ![req[r].cur] = IF req[r].stale THEN "stale" ELSE "current"]
          /\ mu' = None
          /\ Reply(r)
       \/ UNCHANGED mgrVars /\ Go(r, "close")
    /\ UNCHANGED <<lockVars, pathVars, workers, envVars>>

(* Manager.stop, up to StopOnDemandRecording on the path of the job.       *)
MgrStop(r) ==
    LET p == req[r].cur
    IN /\ At(r, "mutex") /\ req[r].kind = "apiStop"
       /\ mu = None
       /\ IF job[p] = "no" THEN Reply(r) /\ UNCHANGED mu
          ELSE mu' = r /\ req' = [req EXCEPT ![r].pc = "close", ![r].stale = job[p] = "stale"]
       /\ UNCHANGED <<lockVars, job, pathVars, workers, envVars>>

(***************************************************************************)
(* path.StopOnDemandRecording, in two steps.                               *)
(***************************************************************************)
(* What follows in the caller: the next view of a round, with the ingest   *)
(* of this one stopped, or the end of an API request, which forgets its    *)
(* job only if the recorder could be stopped.                              *)
Stopped(r, ok) ==
    LET p == req[r].cur
    IN IF req[r].owner = Api
       THEN /\ Reply(r)
            /\ mu' = None
            /\ job' = IF ok /\ req[r].kind = "apiStop" THEN [job EXCEPT ![p] = "no"] ELSE job
            /\ UNCHANGED workers
       ELSE /\ req' = [req EXCEPT ![r].pc = "ending", ![r].cur = None, ![r].stale = FALSE,
                                  ![r].todo = @ \ {p}]
            /\ workers' = workers \ {p}
            /\ UNCHANGED mgrVars

(* pa.recorder.Close(): closing it a second time is a panic.               *)
CloseRecorder(r) ==
    LET p == req[r].cur
    IN /\ At(r, "close")
       /\ \/ /\ req[r].stale \/ rec[p] = None
             /\ Stopped(r, FALSE)
             /\ UNCHANGED <<live, crashed>>
          \/ /\ ~req[r].stale /\ <<p, rec[p]>> \in live
             /\ live' = live \ {<<p, rec[p]>>}
             /\ Go(r, "clear")
             /\ UNCHANGED <<mgrVars, workers, crashed>>
          \/ /\ ~req[r].stale /\ rec[p] # None /\ <<p, rec[p]>> \notin live
             /\ crashed' = TRUE
             /\ UNCHANGED <<req, live, mgrVars, workers>>
       /\ UNCHANGED <<lockVars, stream, loop, rec, disturbed>>

(* Seeded fault: the mutex of the manager stays locked.                    *)
ClearRecorder_StaysLocked(r) ==
    LET p == req[r].cur
    IN /\ At(r, "clear")
       /\ rec' = IF req[r].stale THEN rec ELSE [rec EXCEPT ![p] = None]
       /\ IF req[r].owner = Api
          THEN Reply(r) /\ job' = [job EXCEPT ![p] = "no"] /\ UNCHANGED <<mu, workers>>
          ELSE Stopped(r, TRUE)
       /\ UNCHANGED <<lockVars, stream, loop, live, envVars>>

(* pa.recorder = nil                                                       *)
ClearRecorder(r) ==
    LET p == req[r].cur
    IN /\ At(r, "clear")
       /\ rec' = IF req[r].stale THEN rec ELSE [rec EXCEPT ![p] = None]
       /\ Stopped(r, TRUE)
       /\ UNCHANGED <<lockVars, stream, loop, live, envVars>>

(***************************************************************************)
(* Paths.                                                                  *)
(***************************************************************************)
(* A publisher arrives; the one of an ingested path is its worker.         *)
Publish(p) ==
    /\ ~crashed /\ ~stream[p] /\ p \in used
    /\ p \in Ingest => p \in workers
    /\ stream' = [stream EXCEPT ![p] = TRUE]
    /\ UNCHANGED <<lockVars, mgrVars, req, loop, rec, live, workers, envVars>>

Concerned(p) == rec[p] # None \/ \E r \in Slots : p \in req[r].todo \cup {req[r].cur}

(* The publisher leaves: setNotAvailable closes the recorder, in the loop  *)
(* of the path, where a second Close ends the process.                     *)
Unpublish(p) ==
    /\ ~crashed /\ stream[p] /\ loop[p] = "select"
    /\ loop' = [loop EXCEPT ![p] = "closing"]
    /\ live' = live \ {<<p, rec[p]>>}
    /\ crashed' = (rec[p] # None /\ <<p, rec[p]>> \notin live)
    /\ disturbed' = (disturbed \/ Concerned(p))
    /\ UNCHANGED <<lockVars, mgrVars, req, stream, rec, workers>>

(* pa.recorder = nil, pa.stream = nil, and the path ends: who still has a  *)
(* hold on it has a path that nobody feeds.                                *)
EndPath(p) ==
    /\ ~crashed /\ loop[p] = "closing"
    /\ loop' = [loop EXCEPT ![p] = "select"]
    /\ stream' = [stream EXCEPT ![p] = FALSE]
    /\ rec' = [rec EXCEPT ![p] = None]
    /\ job' = [job EXCEPT ![p] = IF @ = "current" THEN "stale" ELSE @]
    /\ req' = [r \in Slots |-> IF req[r].cur = p /\ req[r].pc \in {"set", "insert", "close", "clear"}
                               THEN [req[r] EXCEPT !.stale = TRUE] ELSE req[r]]
    /\ disturbed' = (disturbed \/ Concerned(p))
    /\ UNCHANGED <<lockVars, mu, live, workers, crashed>>

RequestStep(r) ==
    \/ LockTable(r) \/ Polled(r) \/ TimedOut(r) \/ StartRecording(r) \/ FinishStart(r)
    \/ UnlockTable(r) \/ FinishEnd(r)
    \/ MgrStart(r) \/ MgrInsert(r) \/ MgrStop(r)
    \/ CloseRecorder(r) \/ ClearRecorder(r)
    \/ \E p \in TablePaths : StartView(r, p) \/ EndView(r, p)

Next ==
    /\ UNCHANGED used
    /\ \/ \E r \in Slots : RequestStep(r)
       \/ \E r \in Slots, o \in Owners, kind \in {"start", "end"} : SendRound(r, kind, o)
       \/ \E r \in Slots, p \in ApiPaths, kind \in {"apiStart", "apiStop"} : SendApi(r, kind, p)
       \/ \E p \in Paths : Publish(p) \/ Unpublish(p) \/ EndPath(p)

Spec == Init /\ [][Next]_vars

(***************************************************************************)
(* Properties.                                                             *)
(***************************************************************************)
RequestType ==
    [pc : {"idle", "lock", "views", "poll", "set", "ending", "mutex", "insert", "close", "clear"},
     kind : {"start", "end", "apiStart", "apiStop", None},
     owner : Owners \cup {Api, None},
     todo : SUBSET TablePaths, got : SUBSET TablePaths,
     cur : Paths \cup {None}, stale : BOOLEAN]

(* Type invariant of the table, the manager, the requests and the paths.   *)
TypeOK ==
    /\ active \in {None} \cup [owner : Owners, paths : SUBSET TablePaths]
    /\ held \subseteq Owners
    /\ job \in [Paths -> {"no", "current", "stale"}] /\ mu \in Slots \cup {None}
    /\ req \in [Slots -> RequestType]
    /\ stream \in [Paths -> BOOLEAN] /\ loop \in [Paths -> {"select", "closing"}]
    /\ rec \in [Paths -> Owners \cup {Api, None}] /\ live \subseteq Paths \X (Owners \cup {Api})
    /\ workers \subseteq Ingest /\ disturbed \in BOOLEAN /\ crashed \in BOOLEAN

(* An owner that was told it has the table has it, with a view at least,   *)
(* until its own round end: "only the same owner that opened the round may *)
(* close it".                                                              *)
HeldIsActive ==
    \A o \in held : active # None /\ active.owner = o /\ active.paths # {}

(* A table is locked without a recording only while its start is busy.     *)
TableIsFreed ==
    active # None /\ active.paths = {}
        => \E r \in Slots : req[r].kind = "start" /\ req[r].owner = active.owner
                            /\ req[r].pc # "lock"

(* As long as no publisher leaves, every view of an open round is being    *)
(* recorded, by the round itself.                                          *)
RoundRecords ==
    active # None /\ ~disturbed
        => \A p \in active.paths : rec[p] = active.owner /\ <<p, rec[p]>> \in live

(* As long as no publisher leaves, every recorder that runs belongs to an  *)
(* open round, to a recording of the manager, or to a request that is busy *)
(* with it: nothing is "left to ever stop it" otherwise.                   *)
NoOrphanRecorder ==
    ~disturbed => \A e \in live :
        \/ active # None /\ active.owner = e[2] /\ e[1] \in active.paths
        \/ e[2] = Api /\ job[e[1]] = "current"
        \/ \E r \in Slots : /\ req[r].owner = e[2]
                            /\ e[1] \in req[r].todo \cup req[r].got \cup {req[r].cur}

(* Who records what is known, as long as no publisher leaves.              *)
RecordersAreOwned == RoundRecords /\ NoOrphanRecorder

(* The manager's mutex is held only by a request that is between its start *)
(* and its end: whoever waits for it gets it.                              *)
MutexIsFreed ==
    mu # None => req[mu].owner = Api /\ req[mu].pc \in {"set", "insert", "close", "clear"}

(* Neither the table nor the manager's mutex is kept by a request that has *)
(* been answered.                                                          *)
NothingIsKept == TableIsFreed /\ MutexIsFreed

(***************************************************************************)
(* "A (appId, tableId) pair can only have one owner holding it open at a   *)
(* time" (split.go).  Not kept when an owner ends a round whose start has  *)
(* not been answered yet.                                                  *)
(***************************************************************************)
(* At most one owner has been told that it holds the table.                *)
OneOwner == Cardinality(held) <= 1
=============================================================================
