# Formal models of ppmmx

ppmmx is a media server, a fork of MediaMTX: publishers and pulled ("static")
sources feed *paths*; readers of many protocols consume them; recorders and
forwarders are attached to the streams; a controller registers the node and sends
it commands; tables of a game are recorded round by round on request. It is
written in Go: every path, server, session, source and HTTP request is a
goroutine or several, and they meet on unbuffered channels, mutexes and, in
places, on plain fields.

This directory holds TLA+ models of that concurrency, TLC runs that check the
models on small instances, and TLAPS proofs for all instances. Every definition
is a translation of source code; `PROJECT.json` says of which lines ("map"), and
lists the runs, mutants, hazards, findings and theorems.

    cd tla
    tlc -workers 2 -config MCPath.cfg MCPath     # a run
    tlapm PathProofs.tla                         # the proofs

## 1. Inventory

| Component | State | Operations | Talks to |
|---|---|---|---|
| Path loop, `internal/core/path.go` | configuration, source, stream, readers, requests on hold, two on-demand state machines with four timers, recorder, forwarders, hook commands, `pendingRequests` | describe; add and remove publisher and reader; static source ready / not ready; four timers; hot reload; close | manager (blocking calls), source handler (waits for its end), sessions, recorder, forwarders |
| Path manager, `core/path_manager.go` | paths by name, ready flags, configurations, the HLS server | find/create path, route a request, reload configurations, close an idle path, set ready / not ready | paths, HLS server (both may be calling it) |
| Static sources, `internal/staticsources` | handler: running, context, configuration; one instance | start, stop, reload, restart of a failed instance, ready / not ready | path, instance |
| HLS server, `internal/servers/hls` | muxers by path; per muxer a mutex, an instance, sessions; sessions | path ready / not ready, request of a playlist, session timeouts, restart of an instance, API queries and kicks | manager, paths, API |
| Recording on request, `internal/recording`, `path.go` | active rounds by table, running recordings by path, ingest workers, the path's recorder | round start and end, recording start and stop, ingest on demand | paths (unsynchronised), store |
| Stream, `internal/stream` | sub-stream, readers and their ring buffers | add / remove reader, switch to and from the offline sub-stream, write | recorder, sessions, path |
| Recorder and store, `internal/recorder`, `recordstore`, `recordcleaner` | instances, current segment, files | restart after an error, split, rename, clean, delete on request | stream, uploads, controller |
| Playback, `internal/playback` | none of its own | list the segments of a path, answer a range request | files |
| Uploads and deletion, `recording/upload.go`, `core/record_deletion_runner.go` | a goroutine per upload, claimed deletions | upload with retries, report, claim, delete, complete | object storage, ppcenter |
| Protocol conversions, `internal/protocols` | the tracks of a reader or publisher; the selected layer of a WHEP reader | `FromStream`, `ToStream`, the callback of each media, layer selection | stream, servers |
| Forwarders, `internal/forward` | a connection and its retry | run, reconnect, close (from the path's loop) | remote servers, path |
| Session servers, `internal/servers/{webrtc,rtsp,rtmp,srt,moq}` | sessions and connections | open, publish or read, kick, reload, close | manager, paths |
| Degradation, `internal/degrade` | per path a state, baselines, cooldowns, connections | sample, degrade, recover, bind and unbind | sessions |
| Control connection, `internal/mmxcontrol` | connection, registration, backoff | connect, register, heartbeat, command, fallback | core, controller |
| Core, `internal/core/core.go` | all resources | create, reload, close in order | everything |
| API, `internal/api` | the configuration it last recorded, a mutex | edit the global configuration or a path's, reload | core |
| Publish whitelist, `core/publish_whitelist.go` | the applications it knew last | poll, revoke | controller, WebRTC sessions |

Configuration, authentication, metrics, hooks, statistics, logging, certificates,
the upgrade and the vendored SRT library are the rest; `PROJECT.json` has an entry for each.

What is hard here:

* **Calls in both directions over unbuffered channels.** The manager waits for a
  path to end while the path calls the manager; a path waits in `Handler.Stop`
  while the handler calls the path; the HLS server, its muxers and the manager
  form a triangle. Each call has an escape (a context), and each escape has to be
  on the right side.
* **Counting across goroutines.** A path with a regular expression is closed when it
  is idle, but the manager may have routed a request that has not arrived:
  `pendingRequests` and a second check in the manager decide.
* **State machines with timers.** A timer that fires in the wrong state stops a source
  in use or fails a request that was served; a call out of turn panics.
* **Reload while everything runs**, through goroutines that can overtake each other.
* **Shared fields without locks**: a path's recorder is used by its loop and by
  HTTP goroutines.
* **Work done between two critical sections**: a round start resolves its views
  without the lock that made the table its own.

* **References that outlive what they refer to.** A reload of the node closes and creates
  some of its resources and keeps the others, which hold references to the first.
* **A stream whose source changes under its readers**: a publisher that has been replaced
  still writes, the offline clip is still running, and time, parameters and key
  frames have to be what the readers and recorders need.
* **Files that three components share**: the recorder writes them, the cleaner removes
  them, playback reads them, and a crash or a full disk may come in between.

What makes the parts correct is stated by the properties of section 4; the
hazards of `PROJECT.json` name the lines where they could fail.

## 2. Modules and the code

| Module | Models | State and actions |
|---|---|---|
| `Path` | `core/path.go`, the loop of one path | variables carry the names of the fields of `path`; one action per case of `runInner` (`doDescribe`, `doAddReader`, ...), with everything the handler calls, timers and hooks included; `Route` and `Abandon` are the callers, `ClosePathIfIdle` the manager's answer, `Terminate` the end of `run` |
| `PathManager` | `core/path_manager.go` and the life cycle of the paths | the manager's loop with the points where it blocks, every path reduced to idle/available/in a call, one in-flight goroutine per hot reload; secondary cameras (`rpicamera`), which ask the manager for another path, wait in that path for its answer, and leave it again (both halves of `pathManager.AddReader`, and `path.RemoveReader`) |
| `StaticSource` | `staticsources/handler.go`, the path's half of the protocol, any instance | three goroutines and their rendezvous; reloads as messages |
| `SourceContract` | what a path relies on | abstract: stopped, running, ready |
| `HLS` | `servers/hls/{server,muxer,session,http_server}.go` | server loop, muxers with their mutex, sessions from `AddReader` to `close2`, the manager's and the paths' calls, API visits; a behaviour has one of the uses in `Modes` |
| `Rounds` | `recording/{split,manager,ingest}.go`, the recorder calls of `path.go` | HTTP requests step by step between two critical sections, blocking calls and shared fields |
| `Sessions` | what the protocol servers share | table of sessions, place of each session's goroutine, context, role; the path as a session sees it: who is a member, and that it closes sessions on its own account |
| `RTMP`, `SRT`, `RTSP`, `MoQ`, `WebRTC` | `internal/servers/...` | each extends `Sessions` with what its server adds: the tuned latency and the loss samplers of SRT; the handlers of an RTSP session, the library's change of state after each of them (`SetState`, a step of its own), the MPEG-TS demuxer and kicks beside them; the goroutines of a MoQ session; the POST and PATCH handlers and layer sockets of WebRTC |
| `Degrade` | `internal/degrade`, `degrade_ws_handler.go` | ladder, samples, observation, executors and the targets on their way to them |
| `Servers` | the servers over one path | a behaviour is that of one protocol, chosen by `Init`; publishers of the others are `Other` |
| `Core` | `core/core.go`, `api/api_config_*.go` | a configuration is a set of settings; resources with the generation of what they refer to; the reload as the main goroutine's steps; API requests with the API's mutex |
| `Control` | `mmxcontrol/client.go`, `core/publish_whitelist.go` | dialing, registration, read goroutine, backoff, HTTP fallback; the polling of the whitelist, one application and one session of it |
| `Node` | their composition | a reload closes and creates client and whitelist while they run |
| `Stream` | `internal/stream` | substreams, the switch as the path's goroutine makes it, the time and parameters of the formats, readers with bounded queues and goroutines, the mutex |
| `Codecs` | `internal/protocols/*/{from,to}_stream.go`, `stream/rtp_{encoder,decoder}.go` | pure operators: which medias `FromStream` registers and as what, which `ToStream` gives back, which tracks a peer connection agrees on and waits for, and what the callback of a media does with a unit |
| `Layers` | `protocols/webrtc/{track_selector,from_stream}.go`, `servers/webrtc/abr_*.go` | selector, the filters of media and layer, ring, pipeline callback, the client's pause and resume (`MediaState`, step by step), the automatic controller |
| `Media` | composition of the three, and the gathering of tracks of `peer_connection.go` | a behaviour is of one scene: a stream with readers, a WHEP reader with layers, a relay between two nodes, over WebRTC with tracks that arrive in any order or too late |
| `Recorder` | `internal/recorder`, the names of `recordstore` | supervisor, instance, tracks, segments and parts, files, splits and renames, time zones, a publisher's clock that is off or is set, failures of each call to the disk (create, header, part, duration, close) and of the size check, parts that are torn, crash |
| `Playback` | `recordcleaner`, `playback`, the search of `recordstore` | cleaner as two steps (choose, remove); list and range request as operators over the files |
| `Archive` | `recording/upload.go`, `core/record_deletion_runner.go` | uploads, objects, what ppcenter holds, deletion runner; answers may be lost after the other side has acted |
| `Forwarder` | `internal/forward` | supervisor, attempt with its resources in order, `Close` at every point, split in layers |
| `Storage` | composition of the four | a behaviour is of one scene: record, archive or forward |
| `MC...` | | instances for TLC |
| `...Proofs` | | theorems about `Path`, `PathManager`, `HLS`, `Rounds`, `Servers`, `Node`, `Media` with `StaticSource`, and `Storage` |

How they fit together: `Path` treats its static source as the state `handler` with
the calls that `SourceContract` allows, and `StaticSource` is shown to implement
`SourceContract`. `Path` answers the manager's question whether it is idle;
`PathManager` has paths that answer it and is about who waits for whom. `HLS`
contains the path and the manager only as far as they block. `Sessions` has the
path's answers and cancellations that `Path` produces, and the servers are written
against it. `Node` composes `Core` and `Control`: the steps of a reload that
close or create the client are steps of both. The callbacks of the readers of `Stream`
are those of `Codecs`; `Layers` is such a callback in detail. `Playback` reads the files that
`Recorder` writes and its cleaner removes. Where components do not share state
(the scenes of `Media` and `Storage`, the protocols of `Servers`) a behaviour
chooses one of them, so that one instance answers for all without multiplying
their states.

Data is abstracted: a configuration of a path is a record of the settings that
change control (`ConfType`, restricted to `ValidConf`, the combinations that
`conf.Path.validate` accepts); a path name, a session, an owner or a view is a
model value; what the recorder and the forwarders are given is one value per set
of parameters; a media is its codec and the parameters the code looks at; a
unit is its kind, its parameter sets and whether it needs several RTP packets; time is in ticks. Where one call has
outcomes the model cannot know (a connection, a sub-stream that cannot be
initialised, the insertion of a row, an ingest that comes up, a write to the
disk), both are taken.

The definitions whose comment begins with "Seeded fault" are the mutants: each
changes one mapped definition as a plausible bug would, and the property it
belongs to then fails.

## 3. Bounds and fairness

* `Path` has no bound of its own: clients are finite sets and come back for ever.
  Two readers and two publishers are needed for replacement of a publisher, a full path
  (`maxReaders = 1`) and a close timer that races a second reader. The
  configurations cover every kind of path that control distinguishes: publisher, on-demand
  publisher, static, on-demand static, always available, redirect, with and without
  a regular expression, and hot reloads among three settings of recorder and
  forwarder. Liveness runs with one client of each kind and the on-demand
  configurations, where requests wait.
* `PathManager`: `MaxPaths = 3` for two names, one of them that of a secondary camera, so that a path is recreated
  while the other runs, and `MaxReloads = 2`, so that two hot reloads of a path are in flight and can
  overtake each other. The four configuration files add, remove, recreate and hot reload a path and move it from a static configuration to the regular expression. The primary of the
  camera is the other path, which calls the manager on its own account.
* `HLS`: one name, since muxers of different paths share only the server's loop. `Modes` has four uses: two
  CDN sessions of one muxer beside API calls; a session whose muxer and path are
  replaced (two muxers, the old one ending and the new one), beside API calls; an always-remux muxer of a path that comes and goes;
  and a muxer and a session without API calls, for liveness (`fair`).
* `StaticSource`: `MaxReloads = 2`. Nothing else is bounded.
* `Rounds`: two owners, two requests at once, and either two views, one of them ingested, or one view and a path that is recorded
  through the API (`Uses`); a third request of the same owners would repeat the position of one of the two.
* `Servers`: two sessions (a publisher and the one that replaces it, or a publisher and a reader), one layer socket and one MoQ track;
  latencies 1 and 2, two layers. Nothing else is bounded: sessions come back. Liveness has one session and the publisher `Other`.
* `Node`: two nodes. One has no controller and changes five settings up to three times, by file and by two API requests:
  enough for a configuration that overtakes another while a reload runs. The other has everything on and is reloaded
  once, while client and whitelist are anywhere; the center changes its mind once (`MaxVerdicts`).
* `Media`: one publisher besides the offline substream, one reader, a queue of two, two units per substream, one unit of time:
  a switch there and back, a queue that overflows, and units of the replaced publisher. Relays
  take every stream of one or two medias out of 25, and of two layers with audio; the layers have one of the
  uses in `MCLayerBounds`: three frames each; four evaluations; three frames and one beside a handler of SET_MEDIA_STATE; a single layer of three frames
  with up to two handlers at once, so that a resume and a later pause overlap.
* `Storage`: `SegmentDuration = 2` and `PartDuration = 1` with four units and four ticks give two or three
  segments of several parts; two instances, one disturbance per behaviour (a failure of one call to the disk, a part that is torn in its `moof` or in its samples, a split, a crash, a clock that is
  off or is set), and a disk of three samples. `MCSkews = {0, 2, -5}`: the publisher's clock is right, ahead by more than the tolerance of drift, or so far behind that
  a segment is older than `DeleteAfter` when it starts; it may be so from the beginning or be set from one to another. A tear keeps the whole `moof` or none of it: where
  in the samples a write stops makes no difference to a reader that fails at the first missing byte, beyond which sample of the part it is. Two
  files to upload, two attempts, two lost answers or crashes. `DeleteAfter = 4` is longer than
  a segment (see section 6 for what happens when it is not).

Symmetry is declared only in runs without liveness, and only over sets whose
elements the model does not tell apart.

Fairness follows from Go's runtime, and is stated as weakly as the properties
allow. A goroutine that can continue does (weak fairness). A `select` picks at
random among its ready cases, and callers blocked on a channel or a mutex are queued in
order, so one that is served again and again is served eventually (strong
fairness: the loops of `Path` and `HLS`, `Terminate` of a path the manager waits for, the handler's end, the
RTSP library's select, the switch of a substream behind the mutex). Armed timers fire: on-demand timers, the client's backoff and fallback, the
cleaner's and the deletion runner's tickers, the retries of uploads and forwarders. Nothing is assumed of clients, publishers, remote
servers, instances of sources or of the API, controllers or WebSocket peers: they may stop at any time, and what
waits for them counts as waiting only where the code has a timeout or a context. An
on-demand publisher therefore need never come, and `OnDemandGoesOn` claims an
answer only where a timer or the path owes one; the answer to a registration need never come, and
`DialsAgain` is about connections that were lost.

Deadlock is not checked where the system may stop legitimately (all
paths ended, all bounds used); waiting for ever is covered by the liveness
properties. `source_on_demand` does check deadlock.

## 4. Runs

| Run | Asks | Shows |
|---|---|---|
| `path_safety` | Do timers, hook command, source handler and held requests agree with the on-demand states (`OnDemandIsConsistent`)? Do path, source and sessions agree on who is there and who is counted (`ClientsAreKnown`)? Do recorder and forwarders follow the configuration (`EgressFollowsConf`)? Is a reader ever without a stream, or left over by the end (`NobodyIsStranded`)? May an idle path be closed (`IdleCloseIsSafe`)? | holds in all configurations; what a stream without source leaks is in section 6 |
| `path_liveness` | Is every held request answered, and every unused source stopped (`OnDemandGoesOn`)? | holds |
| `manager` | One path per name at a time; every path in the map is configured, its ready flag agrees, it runs with the current configuration or a reload is on its way (`ManagerIsCurrent`); does the manager come back from closing a path that is calling it (`ManagerReturns`)? | holds, staleness only when two reloads overtake each other, and except for a secondary camera that waits for the manager or, in its primary's path, for one that does |
| `hls` | Does every open session have a muxer to close it, and every reader of a path somebody to remove it (`ReadersAreKnown`)? Is a ready path remuxed, by one muxer (`ReadyPathIsRemuxed`)? Do the calls between manager, server and muxers return (`HLSReturns`)? | holds; remuxing where paths are not recreated, the return where nobody asks for the list |
| `source_on_demand` | Are the calls of an instance ever taken out of turn or after `Stop`? Does `Stop` return? | holds, and `KeepsContract` is the refinement of `SourceContract` |
| `rounds` | Does an owner keep the table it was given (`HeldIsActive`); is anything kept by a request that was answered (`NothingIsKept`); does every recorder have somebody to stop it (`RecordersAreOwned`)? | holds if owners wait for their answers |
| `rounds_owner` | Without that assumption on owners, may two be told that they hold the table? | **violated**, see section 6 |
| `servers` | Does a session that ends leave a reader, a publisher, a subscription or a hook behind (`NothingLeftBehind`)? Is one that serves a member of the path (`ServingIsMember`)? Does a raised latency reach the publisher (`LatencyIsApplied`)? Is the degradation ladder walked in order, and the executor told of it (`LadderIsFollowed`)? | holds for all protocols, with the exceptions named in the properties and in section 6 |
| `servers_liveness` | Does a cancelled session end, is each HTTP request answered, does `Close` return? | holds; `Close` unless a layer socket stays open |
| `node` | After a reload, does every resource refer to the ones that run (`Wired`)? Do API and core agree (`ConfAgrees`)? Is a revoked application cut off (`RevokedIsCut`)? Do reloads end, and does the client dial again? | holds, with the exceptions of section 6 |
| `media` | Does time go on and do parameters fit across switches (`TimeGoesOn`, `UnitsAreUsable`, `ReadersGoOn`)? Does what is forwarded decode across layer changes and pauses (`ForwardedDecodes`)? Does every track come back over each protocol, and do layers keep their order (`RelayComesBack`)? Do switches and removals end (`NothingHangs`)? | holds, with the exceptions of section 6 |
| `storage` | Is the open segment kept from the cleaner (`OpenIsKept`), is each segment reported once (`SegmentsAreReported`), does playback give back what was recorded (`PlaybackIsFaithful`), are storage and targets left clean (`OutsideIsClean`), and does everything settle (`StorageSettles`)? | holds, with the exceptions of section 6 |

Properties that are conjunctions name their parts; each part is a definition of its
own with its own comment. The type invariants of the other modules hold on the same instances (`INVARIANT TypeOK` in place
of the properties); they are proved. `Storage` has none of
its own: `Recorded` and `Aged` in `StorageProofs` say what its variables are.

## 5. Proofs

Each proof module EXTENDS the module it is about, states an inductive invariant `Inv`, proves `Init => Inv` and
`Inv /\ [Next]_vars => Inv'` with one step per action (`Invariance`), and draws the properties from it; `MediaProofs` and
`StorageProofs` have one invariant for each of the parts that do not share state. The
theorems hold for every value of the constants that satisfies the named assumptions; the runs of section 4
have the same assumptions evaluated by TLC. The bounds that keep the runs finite (`MaxPaths`, `MaxReloads`,
`edits`, the requests of `Rounds`) are parameters here: any number.

| Module | Assumes | Proves |
|---|---|---|
| `PathProofs` | `PathAssumption`: clients and constants are distinct, configurations are valid, the recorder cannot be switched off for the node | `OnDemandIsConsistent`, `ClientsAreKnown`, `EgressFollowsConf`, `NobodyIsStranded`, `IdleCloseIsSafe` |
| `PathManagerProofs` | `ManagerAssumption`: finitely many names, configuration files are well formed | `OnePathPerName`, `ManagerIsCurrent` |
| `RoundsProofs` | `RoundsAssumption`; where said, `Patient` (owners wait for their answers) and views that are not recorded through the API as well | `NothingIsKept` without condition, `HeldIsActive` and `RecordersAreOwned` with them |
| `ServersProofs` | `SessionsAssumption`, `LatencyAssumption`, `MaxLayersAssumption` | `NothingLeftBehind`, `ServingIsMember`, `LatencyIsApplied`, `LadderIsFollowed` |
| `NodeProofs` | `CoreAssumption`, `ControlAssumption` | `Wired`, `ConfAgrees`, `RevokedIsCut` |
| `HLSProofs` | `HLSAssumption`; for the last, `PathsAreKept` (no use of the server has both recreated paths and `hlsAlwaysRemux`) | `ReadersAreKnown`, and the action property `ReadyPathIsRemuxed` |
| `MediaProofs` | `SourceAssumption`, `StreamAssumption`, `LayersAssumption`, `MediaAssumption`: sizes are numbers, identities are distinct, parameter sets come in units of their own or with a key frame | of a static source `OnlineIsFed`, `StoppedIsQuiet` and the refinement `KeepsContract`; `TimeGoesOn`, `UnitsAreUsable`, `ReadersGoOn`, `ForwardedDecodes`; of the conversions `WrittenIsRead`, `OfferedIsTaken` |
| `StorageProofs` | `RecorderAssumption`, `DeleteAfterIsValid` (what validation accepts); for the last two, `RetentionIsLong` | `OutsideIsClean`, `SegmentsAreReported`, `SamplesAreInPlace`; `SegmentsAreCutInTime`, `OpenIsKept`, whose own condition is that units carry the node's time (`ClocksAgree`) |

Every module but `StorageProofs` also proves its type invariant (`TypeCorrect`). None of the properties is inductive as it stands. What
each invariant adds:

**Path.** `Counted` says in which phases `pendingRequests` is the number of routed
clients; `RequestsCounted` alone does not survive closing. The step from the count to
"nobody is on the way" uses the cardinality theorems of the library. `Control` joins timers, hook command, handler,
stream and source: none of the four is inductive without the others, since the handlers read one and write another.
`Membership` and `RoutedPublishersAreNew` relate what sessions were told to the path's
lists; a publisher that is already a member never has a request under way.
`Attended` says in which phases the path still looks after readers, timers and commands, so that the
end of `run` finds nothing it does not stop: `NobodyIsStranded`. `AskingIsIdle` says that a path which asks to be closed was
idle when it asked; only routed requests can have arrived since, and those are counted: `IdleCloseIsSafe`.

**StaticSource.** `CallsMatch`: a caller waits for exactly the callee that has its
call. The specification implements `SourceContract` (`SourceImplementsContract`): initial
states map to initial states and every step to a step or a stutter.

**PathManager.** `OthersAreAwaited`: whoever runs outside the map is the one path the manager is waiting for; with `MapIsSound` this gives
one path per name. `ReloadIsOn` and `ConfsOf` say by which configuration a path is measured in the middle of a
reload (the paths still to be looked at, by the old one); `ReloadsAreCurrent` that a path which was never overtaken has at most one
hot reload on its way, which carries its configuration. `BornInOrder` keeps the identities of new paths apart from the old.

**Rounds.** `RequestsAreShaped` says what a request knows at each of its steps, `MutexIsExclusive` and
`TableIsBusy` that a lock always has a request that will release it: enough for `NothingIsKept`. `TableIsOwned` (with `Patient`) says
that a table belongs to the start that is busy with it and not to an owner whose round is ending; the run
`rounds_owner` is the counterexample without the condition. `Undisturbed` accounts for every recorder: its round, its job, or the
request that is about to start or close it.

**Servers.** One part per kind of server, each for any one of its sessions. `PlaceIsRight`: where the goroutine of an RTMP, SRT or WebRTC session is decides whether
it is a member; a member that is missing has been cancelled. `WebRTCIsRight`: who reads was told so when it was created. `MoQIsRight`: membership is what the
catalog's goroutine has recorded. `RTSPIsRight` and `RTSPLeaves`: membership and hook follow the library's state, or the one it is about to
set (phases `toPrePlay` to `toRecord`), as long as nobody
has kicked the session, and nothing is left of one that was kicked between two handlers. `LatencyIsRight`: a latency that is too low is somebody's
business; `ExecutorIsRight`: what an executor has been told or is about to be; `OthersRest`: the other protocols' variables do not move.

**Node.** `Wiring` is a statement for any pair of configurations: what `closeResources` flags is closed under references
(shown flag by flag, in the order in which they are computed), what is kept is wanted by the new configuration
as well, what was closed is made anew, and a reference is to a resource that is there or is one of the exceptions, at each
stage of a reload. `Applied` and `EndsOnly` follow the stages; `Recording` says which
configuration the API should have at each stage; `Guarding` relates the session to the whitelist that admitted it.

**HLS.** `LockIsRight` says who may hold a muxer's mutex in each phase of its goroutine, and that sessions are
closed only under it; `SessionsAreKnown` that from `addSession` on a session is in its muxer's map or about to be closed by who took it out;
`MapIsRight` that the server's map has only muxers that have not ended. `ReadyIsTold`, for `ReadyPathIsRemuxed`, says that of a path that is
always remuxed the server hears in order, and has a muxer only while it is ready or being told that it is not.

**Media.** `SwitchIsRight` says which substreams may be written to at each step of a switch: one that is being installed is known to nobody. `Behind` names the times
of a format that no later unit will be in front of, from the offset of the format, the clock of the current substream and the last time
written; `ParamsAgree` says that the parameters of the output are those of the current substream, `WritersFit` that who writes was found compatible.
On the readers' side `Sound` and `InPlace` put what the callback took, the unit it has and the queue in one order of time, and the times behind (`Past`) close
that order against what is written next. Of the layers, `Chained` says that the frames of a layer in the ring follow each other but for recorded
holes, `UpToDate` that the newest of them is the last one written, and `Follows` that the first one of the active layer comes right after the frame that was
forwarded last. Both of the latter except the layers in `Gaps`: those with a frame left out since (`holes`), those whose generation is behind (`waits`), and all of them from
the moment the client pauses until the generation has been counted up (`paused`, `resuming`); a frame that such a layer pushes is a key frame or recorded as behind a hole.
`WrittenIsRead` and `OfferedIsTaken` have no behaviour in them: they are the part of `RelayComesBack` that is about one media, for any stream
and not for those of the instance.

**Storage.** `KnownIsUploaded`: ppcenter hears of a file only when no attempt to upload it is left, so that a deletion meets no late upload;
`RunnerHasClaims`: the runner deletes what it has claimed. `ForwardInv` says which resources an attempt holds at each of its points.
`Recorded` is about the files: the numbers of the next segment are unused, the open segment is created and not complete, and every
other file is complete, unclosed (its close failed), cut short by a crash or without a header, each of which decides what was reported (`Accounted`). The steps of the recorder are functions of a
state, as in the code; they are proved one by one, in the order in which they call each other, to keep the part of `Recorded` they are given
(`...IsGood` for those that reach the files, `...IsLike` for those that do not).

`Aged`, for `OpenIsKept`, is about time: `Timing`, `Waiting` and `Punctual` hold whatever the clocks do, `Named` where they agree. The cleaner goes by the start of a file, so that the question is how old the open segment can get.
A key frame does not always cut: the first one of a track has no sample before it, and the segment is then cut by another track or by the next key frame.
`Ready` are the tracks that no longer can fail, `InTime` bounds the age of the segment by `SegmentDuration` and a `KeyInterval` for each track that is not
ready yet, and `Punctual` says that this holds whenever the stream is not starved: `SegmentsAreCutInTime`, the bound
`SegmentDuration + KeyInterval * Cardinality(Tracks)`. `Waiting` relates the samples the tracks hold to the units that were sent.
`Named` has three parts. `InOrder` says that the open file starts no earlier than the others, so that removal for space, which spares the latest, spares
the open one; `Kept` that the file of the open segment is there; `ChosenIsOld` that what the cleaner has chosen and not removed yet was old when it was chosen, and is so when it is removed.
`RetentionIsLong` is the hypothesis: `recordDeleteAfter` exceeds that bound, by the clock the cleaner decodes from names. `ClocksAgree`, in the property itself, is the other: every unit so far carries the node's time, and segments then start
in order; without it nothing can be said, as a publisher names its segments as it likes. The step that adds a unit is proved along the calls
of the code (`...Within`: what a function does to the names on the disk and to the open segment). What needs induction over numbers
(the least element of a set, `Smallest`) comes from `WFMin` and `NatLessThanWellFounded`, which take no operator.

`SamplesAreInPlace` is about what the files hold: every sample is of a unit that was sent, at the time of that unit, and in a file and from
a file to a later one the samples of a track are in the order in which they were sent. It is what `PlaybackIsFaithful` builds on, and needs neither
of the two hypotheses. `Tidy` adds what is not in a file yet: the part at hand comes after the files (`Pending`) as long as its segment can still be written, and no
file has a later number than the segment at hand (`Numbers`). While a part goes to its file it is in both places, and stays there when the write has failed and left a piece of it, until the segment is closed, so that the functions
in between keep only `NearlyTidy`; an MPEG-TS buffer is dropped after an error. `WaitsLast` says that a sample that waits for its duration was sent after all that is known of its track. Each
function of the recorder is proved to keep `Tidy` and to add no sample (`Keeps`), or at most the one it is given (`Adds`).

What the proofs changed in the models: `ConfAgrees` was not inductive for a reason. A file's configuration that is given to the API
(`core.go:1697`) while a configuration recorded by a request is still waiting overtakes it: the request is then applied by the core, and
the API keeps the file's. The flag `overtaken` now covers this case, and a scenario of `MCNode` reaches it.

Only model-checked:

* liveness and everything under fairness, which is out of the prover's reach: `OnDemandGoesOn`, `ManagerReturns`, `HLSReturns`, `CancelledEnds`,
  `RequestsAnswered`, `ServerCloses`, `ReloadEnds`, `DialsAgain`, `NothingHangs`, `StorageSettles`, `StopEnds`;
* `RelayComesBack` as a whole: it is about sequences that are selected from and sorted, and what those operators return needs induction over data;
* `PlaybackIsFaithful`, for the same reason: list and range request fold and sort the files. `SamplesAreInPlace` proves of those files that
  their samples are of the units they say, at their times and in their order.

## 6. Disagreements between the code and what it says

One is a run that ends in a violation.

* **`rounds_owner`** (`recording/split.go:638`). The last critical section of a round
  start does not look whether the table is still its own. If its owner ended the round
  meanwhile, another owner may have been given the table, and both are told they hold it,
  against `split.go:450`.

The others are behaviours of the models that the properties are worded around.

Paths and the path manager

* A `runOnDemand` command is stopped by the close timer although a request has been put on hold
  again (`path.go:394`; `docs/2-features/21-hooks.md:56`). The held request then waits for a publisher without a
  timer: `HeldRequestsHaveDeadline` is about static sources.
* When the sub-stream of a new publisher cannot be initialised, the stream stays, and the next publisher
  overwrites recorder, forwarders and the `runOnReady` command, which go on running
  (`path.go:853`; `21-hooks.md:89`). The variable `leaked` notes it: `NobodyIsStranded` does not cover what was overwritten.
* Two hot reloads of a path are two goroutines and may arrive in the wrong order
  (`path_manager.go:275`): `StaleOnlyIfOvertaken`.
* A secondary `rpicamera` source asks the manager for the path of the primary while the manager may be
  waiting for that source's path to end (`rpicamera/source.go:337`, `path_manager.go:311`). When the manager has answered, the source waits in the path of the primary
  (`path_manager.go:693`, `path.go:1260`), with nothing that ends its wait but that path's loop (`handler.go:336`); if the primary is in a call of the manager, which waits for the path of the secondary, the three
  wait for each other. `RemoveReader` waits in the same way. These are the exceptions of `ManagerReturns` (`WaitsInCircle`).
* `Handler.ReloadConf` returns at once for a source that is stopped (`handler.go:296`): the next start of an on-demand source
  runs with the configuration it had before the reload (`pconf` and `hconf` of `StaticSource` differ).

HLS

* The server's loop answers an API or metrics query by locking every muxer's mutex (`servers/hls/server.go:276`). A muxer is created locked and releases
  the mutex after `AddReader`, a call of the path manager. The manager may be in
  `PathReady`, waiting for the server's loop. Nobody goes on: HLS and the path
  manager stop. `HLSReturns` is claimed where nobody asks for the list.
* A session can be closed before it has been set up (`session.go:153`) or twice (`muxer.go:121`), both of which
  panic (variable `broken`); a path that is recreated gets no muxer until it is asked for
  (`server.go:240`).

Recording on request

* A recording of a path that has gone keeps its job and refuses the next one until it is stopped
  (`recording/manager.go:139`); an ingest worker goes on pulling after its view was given up (`split.go:501`).
* The recorder of a path is closed by its loop and by HTTP goroutines without a lock; closing it twice panics and ends the process
  (`path.go:1028`; variable `crashed`). `StopOnDemandRecording` closes the recorder of a path that is configured to record,
  which its comment excludes (`path.go:1023`).

Servers

* A kick of an RTSP session runs `onClose` beside a handler that waits for the path (`servers/rtsp/server.go:577`):
  the reader or publisher the handler then adds is never removed (`kickedLate`). The same holds of the `runOnRead` command: `onPlay` starts it while the
  session is still in PrePlay (`session.go:359`), `onClose` stops it only in Play (`session.go:152`), and `OnSessionClose` leaves alone a session that was kicked.
* A WebRTC session that ends by its context, not by `Close`, leaves its layer socket open, and `Server.Close` waits for its handler.
* A raised SRT latency closes only the connection that raised it (`servers/srt/conn.go:557`).
* `BindConn` sends a target that it read before a transition pushed a newer one (`degrade.go:347`, variable `passed`);
  `docs/obs-mmx-degrade-protocol.md:33` gives another rule for the observation period than the code.

Core, API and controller

* The handlers that edit paths call `APIConfigSet` with the API's mutex held (`api_config_paths.go:90`). A reload
  of the file then waits for that mutex in `api.ReloadConf` (`core.go:1697`), or for the handler in `api.Close`, and the
  handler for the main goroutine: the exception of `ReloadEnds`.
* `onConfigGlobalPatch` sends from a goroutine (`api_config_global.go:44`): configurations may be applied in another order than the API
  recorded them (`overtaken`): `ConfAgrees` is not claimed then.
* The admin server keeps the router of an API that was closed (`core.go:1312`), and the path manager
  a whitelist that was stopped when the controller is switched off (`core.go:984`); traffic reports go on.
* Each reload makes a whitelist that knows nothing (`publish_whitelist.go:152`): an application that was revoked meanwhile is not
  cut, and until the first answer every application may publish.
* "never both at once" (`mmxcontrol/client.go:79`): the read goroutine of a lost connection may still execute a
  command (variable `late`). The wait for the answer to a registration has no deadline (`client.go:310`); the backoff reaches 32 s, its
  comment says 30.

Streams and protocols

* `subStream.initialize2` writes without the stream's mutex (`sub_stream.go:158`).
* A layer that is selected again may be switched to by a key frame that was queued before, against
  `protocols/webrtc/from_stream.go:831`.
* After a pause of the video the next unit of each layer is meant to be a key frame (`protocols/webrtc/media_state.go`). Only the payload of H264 is looked at: a unit of H265
  ends the wait whatever it is (`media_state.go:82`), as does a unit of either codec that completes no frame; and a unit between `Swap` and `Add` of `SetVideoPaused` is let through.
  A delta frame is then forwarded although the frames before it were not. `ForwardedDecodes` counts these as behind a hole.
* `FromStream` of MoQ offers FLAC, G711 and LPCM tracks; `ToStream` refuses the whole stream for one of them (`moq/to_stream.go:193`).
* `FromStream` of WebRTC offers LPCM that is mono or of 32 kHz, which no peer connection of a node takes
  (`webrtc/inbound_track.go:223`): the track is missing at the other node.
* A stream without audio is offered with a silent audio track (`peer_connection.go:352`), for which the other node waits until
  its gathering of tracks times out.

Recordings

* Retention goes by the start of a segment (`recordcleaner/cleaner.go:154`): the open segment is removed when no key
  frame lets it be cut, and when `recordDeleteAfter` equals `recordSegmentDuration`, which validation
  accepts (`conf/path.go:917`). `OpenIsKept` assumes a key frame every `KeyInterval`; `DeleteAfterIsValid` is what validation
  accepts. What is needed is `RetentionIsLong`: a segment and a key interval for each track, since the first key frame of a track does not cut. In
  zones with minutes the decoded start is hours off, and retention has to be longer by as much.
* With `useAbsoluteTimestamp` the start of a segment is the publisher's time (`rtsp/to_stream.go:46`). A clock that is behind by `recordDeleteAfter`
  has the open segment removed while it is written, although key frames come (`cleaner.go:146`); one that is set back has it start before the one it follows, so that it is not the latest by name and cleaning for space
  may take it. A drift in either direction ends the instance (`format_fmp4_track.go:94`, `format_mpegts_track.go:45`), but only within one instance and beyond a tolerance. `OpenIsKept` is claimed while units carry
  the node's time (`ClocksAgree`).
* When the close of a file fails, `onSegmentComplete` is not called (`format_fmp4_segment.go:155`, `format_mpegts_segment.go:37`): a file that is complete on disk is reported to nobody, and is neither
  uploaded nor recorded. It is the event `unclosed` of `SegmentsAreReported`.
* A write of a part that fails in the middle, or a crash, leaves a piece of a `moof` or `mdat` (`format_fmp4_part.go:36`). A request that comes to it is cut (`segment_fmp4.go:493`), and the last sample
  of each track that was read before may not be sent: `PlaybackIsFaithful` claims completeness of answers that are not cut, and order, time and key frames of those that are.
* A first sample that is too large leaves a part without samples, which is written, and creates a file with a duration (`format_fmp4_segment.go:209`): `/list` offers it and `/get` refuses it.
* A segment duration of a second or less lets the next segment start at the same name, and overwrite it.
* Renamed segments of rounds are found neither by the cleaner nor by playback.
* The decoding of a file's time multiplies the minutes of a zone by 3600 and ignores its sign for them (`recordstore`); whole hours are exact.
* A truncated segment makes `/list` fail; an entry of `/list` whose parts could not be written is answered with 404 by `/get`.
* An upload is lost with the process; a report that fails is not repeated, and leaves an object that ppcenter does not know.
* `WaitUntilConnected` of a forwarder ignores the context (`forwarder.go:272`): `Close`, called by the path's loop, lasts as long as the handshake timeout. `SplitLayers` splits H264 only.

## 7. Not modelled, and the plan

Not modelled for good: payloads of media, framing of protocols, SQL, boxes of files, authentication
decisions, web pages, statistics and logs; processes of the operating system; the peer connection's
ICE, DTLS and SRTP; data races on Go maps, whose outcome is a crash of the runtime. `PROJECT.json` has the reason for each component.

Left out although it could be modelled: the shutdown of the HLS server; the DESCRIBE handlers of RTSP; the nonces and rate limits of the
recording requests; how loss and round-trip time become advice of the layer controller; composition of `Path` with
`Servers` (each has the other as an environment).

Worth proving next: the type invariant of `Storage`, and of the samples in the files that none between two of them is missing.
