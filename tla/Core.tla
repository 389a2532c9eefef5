-------------------------------- MODULE Core --------------------------------
(***************************************************************************)
(* The core of a node (internal/core/core.go): the resources it owns, the  *)
(* main goroutine that reloads the configuration, and the API requests     *)
(* that ask it to.                                                         *)
(*                                                                         *)
(* A configuration is the set of settings that are on, or have their       *)
(* second value.  A reload compares it with the one in force, closes the   *)
(* resources that depend on what differs, and creates those that are       *)
(* missing.  A resource that is kept keeps the references it was given, to *)
(* resources that may have been closed and created anew.                   *)
(***************************************************************************)
EXTENDS Naturals, FiniteSets, Sequences

CONSTANTS
    Requests,   \* configuration requests of the API
    Scenarios   \* the nodes that are looked at: the configuration it starts with, the
                \* settings that the file and the API change, and how many times

Settings == {"logLevel", "auth", "timeouts", "metrics", "playback", "deleteAfter", "rtsp", "hls",
             "srt", "webrtc", "recorder", "control", "api", "admin"}

ASSUME CoreAssumption ==
    \A s \in Scenarios :
        /\ s.conf \subseteq Settings /\ s.editable \subseteq Settings
        /\ s.conf \ s.editable # {}   \* no configuration is empty
        /\ s.edits \in Nat

VARIABLES
    conf,       \* p.conf
    live,       \* the resources that are not nil
    wired,      \* <<r, d>>: r holds the present instance of d
    dangling,   \* <<r, d>>: r holds an instance of d that was closed
    apiListens, \* the API has a listener of its own
    pc,         \* the main goroutine
    next,       \* the configuration it is applying
    byApi,      \* calledByAPI
    toClose,    \* the flags that closeResources computes first
    request,    \* a request: "none", "holding" the API's mutex, "sending" without it, "done"
    asked,      \* the configuration it sends
    onOld,      \* it was served by an API that has been closed
    apiConf,    \* a.Conf, of the API and of the closed one that the admin server serves
    editable,   \* the settings that change, as the scenario has it
    edits,      \* the changes that are left
    overtaken   \* history: a configuration was taken, or given to the API, while another
                \* was waiting

reloadVars == <<pc, next, byApi, toClose>>
requestVars == <<request, asked, onOld, apiConf, editable, edits, overtaken>>
resourceVars == <<conf, live, wired, dangling, apiListens>>
coreVars == <<resourceVars, reloadVars, requestVars>>

-----------------------------------------------------------------------------
(* The resources.  rtsp stands for the servers that depend on the same     *)
(* settings and resources as it does (rtsps, rtmp, rtmps, moq).            *)
ProtocolServers == {"rtsp", "hls", "srt", "webrtc"}
ControlClients == {"mmxControl", "healthLog", "whitelist", "recordDeletion"}
Resources == {"logger", "auth", "metrics", "degrade", "cleaner", "playback", "pathManager", "recMgr",
              "traffic", "api", "admin"} \cup ProtocolServers \cup ControlClients

(* closeResources: the settings that each flag compares.                   *)
Own(r) ==
    CASE r = "logger" -> {"logLevel"}
      [] r = "auth" -> {"auth", "timeouts"}
      [] r \in {"metrics", "playback", "api", "rtsp", "hls", "srt"} -> {r, "timeouts"}
      [] r = "degrade" -> {"webrtc"}
      [] r = "cleaner" -> {"deleteAfter"}
      [] r = "pathManager" -> {"logLevel", "timeouts"}
      [] r = "webrtc" -> {"webrtc", "recorder", "timeouts"}
      [] r = "admin" -> {"admin"}
      [] OTHER -> {}

(* Seeded fault: the API outlives the servers it was given.                *)
After_ApiKept(r) ==
    CASE r \in {"metrics", "playback"} -> {"auth", "logger"}
      [] r \in {"degrade", "cleaner"} -> {"logger"}
      [] r = "pathManager" -> {"metrics", "auth", "logger"}
      [] r \in {"rtsp", "hls"} -> {"metrics", "pathManager", "logger"}
      [] r \in {"srt", "webrtc"} -> {"metrics", "degrade", "pathManager", "logger"}
      [] r = "api" -> {"auth", "pathManager", "logger"}
      [] OTHER -> {}

(* closeResources: the flags that each flag includes.                      *)
After(r) ==
    CASE r \in {"metrics", "playback"} -> {"auth", "logger"}
      [] r \in {"degrade", "cleaner"} -> {"logger"}
      [] r = "pathManager" -> {"metrics", "auth", "logger"}
      [] r \in {"rtsp", "hls"} -> {"metrics", "pathManager", "logger"}
      [] r \in {"srt", "webrtc"} -> {"metrics", "degrade", "pathManager", "logger"}
      [] r = "api" -> {"auth", "pathManager", "logger"} \cup ProtocolServers
      [] OTHER -> {}

Differing(a, b) == (a \ b) \cup (b \ a)

(* A flag is added to those before it, if a setting it compares differs or *)
(* one that it includes is there.                                          *)
Flag(r, diff, before) ==
    IF Own(r) \cap diff # {} \/ After(r) \cap before # {} THEN before \cup {r} ELSE before

(* The flags, in the order in which they are computed.                     *)
FirstFlags(diff) ==
    LET logger == Flag("logger", diff, {})
        auth == Flag("auth", diff, logger)
        metrics == Flag("metrics", diff, auth)
        degrade == Flag("degrade", diff, metrics)
        cleaner == Flag("cleaner", diff, degrade)
    IN  Flag("playback", diff, cleaner)

PathFlags(diff) ==
    LET pathManager == Flag("pathManager", diff, FirstFlags(diff))
        rtsp == Flag("rtsp", diff, pathManager)
        hls == Flag("hls", diff, rtsp)
        webrtc == Flag("webrtc", diff, hls)
    IN  Flag("srt", diff, webrtc)

Flagged(diff) == Flag("admin", diff, Flag("api", diff, PathFlags(diff)))

Closing(old, new) ==
    LET diff == Differing(old, new)
        flags == Flagged(diff)
    IN flags \cup ControlClients
             \cup (IF "webrtc" \in flags THEN {"traffic"} ELSE {})
             \cup (IF "webrtc" \notin new \/ "pathManager" \in flags \/ "recorder" \in diff
                     THEN {"recMgr"} ELSE {})

(* createResources: what is created when it is nil, given what was created *)
(* before it.                                                              *)
Wanted(r, c, there) ==
    CASE r \in {"metrics", "playback", "rtsp", "hls", "srt", "webrtc", "api", "admin"} -> r \in c
      [] r = "cleaner" -> "deleteAfter" \in c
      [] r = "degrade" -> "webrtc" \in c
      [] r = "recMgr" -> {"webrtc", "recorder"} \subseteq c /\ "webrtc" \notin there
      [] r \in {"mmxControl", "traffic"} -> {"webrtc", "control"} \subseteq c
      [] r \in {"healthLog", "whitelist"} -> "control" \in c
      [] r = "recordDeletion" -> "control" \in c /\ "recMgr" \in there
      [] OTHER -> TRUE

(* The references a resource is given when it is created.                  *)
Refs(r) ==
    CASE r \in {"metrics", "playback"} -> {"auth"}
      [] r = "pathManager" -> {"auth", "metrics"}
      [] r \in {"rtsp", "hls"} -> {"pathManager", "metrics"}
      [] r = "srt" -> {"pathManager", "metrics", "degrade"}
      [] r = "webrtc" -> {"pathManager", "metrics", "degrade", "recMgr"}
      [] r = "recMgr" -> {"pathManager"}
      [] r = "traffic" -> {"webrtc"}
      [] r = "api" -> {"auth", "pathManager"} \cup ProtocolServers
      [] r = "admin" -> {"api"}
      [] OTHER -> {}

(* The references that are given afterwards: SetAdminStore,                *)
(* SetAppSecretLookup.                                                     *)
Setters(d) == IF d = "whitelist" THEN {"pathManager", "recMgr"} ELSE {}

-----------------------------------------------------------------------------
Holds(r, d) == <<r, d>> \in wired

(* The resources of S are set to nil; those that keep a reference to one   *)
(* of them hold a closed instance.                                         *)
CloseAll(S) ==
    LET kept == live \ S IN
    /\ live' = kept
    /\ wired' = {e \in wired : e[1] \in kept /\ e[2] \in kept}
    /\ dangling' = {e \in dangling : e[1] \in kept}
                   \cup {e \in wired : e[1] \in kept /\ e[2] \in S}

(* The resources of S, in an order in which each comes after those it      *)
(* refers to, are created where they are nil and wanted.                   *)
CreateAll(S, c) ==
    LET new == {r \in S : r \notin live /\ Wanted(r, c, live)}
        there == live \cup new
        given == {e \in new \X there : e[2] \in Refs(e[1])}
        set == {e \in there \X new : e[1] \in Setters(e[2])}
    IN /\ live' = there
       /\ wired' = wired \cup given \cup set
       /\ dangling' = {e \in dangling : e \notin set}

-----------------------------------------------------------------------------
Base == {"logger", "auth", "metrics", "degrade", "cleaner", "playback", "pathManager",
         "rtsp", "hls", "recMgr", "webrtc"}
Clients == ControlClients \cup {"traffic"}
Front == {"srt", "api", "admin"}

(* New: everything is created before the main goroutine starts.            *)
CoreInit == \E s \in Scenarios :
    LET recording == {"webrtc", "recorder"} \subseteq s.conf
        there == {r \in Resources :
                    IF r = "recMgr" THEN recording
                    ELSE Wanted(r, s.conf, IF recording THEN {"recMgr"} ELSE {})}
    IN /\ conf = s.conf
       /\ live = there
       /\ wired = {e \in there \X there : e[2] \in Refs(e[1]) \/ e[1] \in Setters(e[2])}
       /\ dangling = {}
       /\ apiListens = ({"api", "admin"} \cap s.conf = {"api"})
       /\ pc = "select" /\ next = s.conf /\ byApi = FALSE /\ toClose = {}
       /\ request = [q \in Requests |-> "none"]
       /\ asked = [q \in Requests |-> {}]
       /\ onOld = [q \in Requests |-> FALSE]
       /\ apiConf = [current |-> s.conf, old |-> {}]
       /\ editable = s.editable /\ edits = s.edits
       /\ overtaken = FALSE

CoreTypeOK ==
    /\ conf \subseteq Settings /\ next \subseteq Settings
    /\ live \subseteq Resources /\ toClose \subseteq Resources
    /\ wired \subseteq Resources \X Resources /\ dangling \subseteq Resources \X Resources
    /\ pc \in {"select", "api", "servers", "clients", "rest", "create", "createClients",
               "createFront", "ended"}
    /\ apiListens \in BOOLEAN /\ byApi \in BOOLEAN /\ overtaken \in BOOLEAN
    /\ request \in [Requests -> {"none", "holding", "sending", "done"}]
    /\ onOld \in [Requests -> BOOLEAN]
    /\ asked \in [Requests -> SUBSET Settings]
    /\ apiConf \in [current : SUBSET Settings, old : SUBSET Settings]
    /\ edits \in Nat /\ editable \subseteq Settings

(* newConf is nil.                                                         *)
Shutdown == next = {}
Pending == {q \in Requests : request[q] \in {"holding", "sending"}}
Edit(c, e) == Differing(c, {e})

(* The main goroutine leaves its select to apply configuration c.          *)
Reload(c, api) ==
    /\ pc = "select"
    /\ pc' = "api" /\ next' = c /\ byApi' = api
    /\ toClose' = IF c = {} THEN Resources ELSE Closing(conf, c)

(* The file has changed: a valid configuration is applied, an invalid one  *)
(* ends the process.                                                       *)
FileChanged ==
    /\ edits > 0 /\ edits' = edits - 1
    /\ \E e \in editable : Reload(Edit(conf, e), FALSE)
    /\ overtaken' = (overtaken \/ Pending # {})
    /\ UNCHANGED <<resourceVars, request, asked, onOld, apiConf, editable>>

(* An interrupt, a broken file, Close.                                     *)
Interrupted ==
    /\ Reload({}, FALSE)
    /\ UNCHANGED <<resourceVars, requestVars>>

(* chAPIConfigSet.                                                         *)
ApiConfigSet(q) ==
    /\ q \in Pending
    /\ Reload(asked[q], TRUE)
    /\ request' = [request EXCEPT ![q] = "done"]
    /\ overtaken' = (overtaken \/ Pending # {q} \/ onOld[q])
    /\ UNCHANGED <<resourceVars, asked, onOld, apiConf, editable, edits>>

(* Core.run cancels the context before everything is closed: the requests  *)
(* that are waiting give up.                                               *)
RequestGivesUp(q) ==
    /\ q \in Pending /\ Shutdown
    /\ request' = [request EXCEPT ![q] = "done"]
    /\ UNCHANGED <<resourceVars, reloadVars, asked, onOld, apiConf, editable, edits, overtaken>>

-----------------------------------------------------------------------------
(* closeResources, in the order of its statements.                         *)

Held(old) == \E q \in Requests : request[q] = "holding" /\ onOld[q] = old

Stage(from, to) == pc = from /\ pc' = to /\ UNCHANGED <<next, byApi, toClose>>

(* Seeded fault: a file that has changed is not given to the API.          *)
CloseApi_NoReload ==
    /\ Stage("api", "servers")
    /\ CloseAll(toClose \cap {"admin", "api"})
    /\ "api" \in toClose \cap live => ~(apiListens /\ Held(FALSE))
    /\ apiListens' = (apiListens /\ "api" \notin toClose)
    /\ apiConf' = IF "api" \in toClose THEN [apiConf EXCEPT !.old = apiConf.current] ELSE apiConf
    /\ onOld' = [q \in Requests |-> onOld[q] \/ (q \in Pending /\ "api" \in toClose)]
    /\ UNCHANGED <<conf, request, asked, editable, edits, overtaken>>

(* The admin server is closed without waiting for its handlers, the API's  *)
(* own listener with.  An API that is kept is given the configuration,     *)
(* under its mutex, unless it asked for it.                                *)
CloseApi ==
    LET closed == "api" \in toClose
        told == ~closed /\ "api" \in live /\ ~byApi
    IN /\ Stage("api", "servers")
       /\ CloseAll(toClose \cap {"admin", "api"})
       /\ closed /\ apiListens => ~Held(FALSE)
       /\ told => ~Held(FALSE)
       /\ apiListens' = (apiListens /\ ~closed)
       /\ apiConf' = CASE closed /\ Holds("admin", "api") -> [apiConf EXCEPT !.old = apiConf.current]
                       [] told -> [apiConf EXCEPT !.current = next]
                       [] OTHER -> apiConf
       /\ onOld' = [q \in Requests |-> onOld[q] \/ (q \in Pending /\ closed)]
       /\ overtaken' = (overtaken \/ (told /\ \E q \in Pending : ~onOld[q]))
       /\ UNCHANGED <<conf, request, asked, editable, edits>>

CloseServers ==
    /\ Stage("servers", "clients")
    /\ CloseAll(toClose \cap {"srt", "webrtc", "traffic", "recMgr", "recordDeletion"})
    /\ UNCHANGED <<conf, apiListens, requestVars>>

CloseClients ==
    /\ Stage("clients", "rest")
    /\ CloseAll(ControlClients)
    /\ UNCHANGED <<conf, apiListens, requestVars>>

CloseRest ==
    /\ Stage("rest", IF Shutdown THEN "ended" ELSE "create")
    /\ CloseAll(toClose \ {"api", "admin", "srt", "webrtc", "traffic", "recMgr"})
    /\ conf' = next
    /\ UNCHANGED <<apiListens, requestVars>>

(* createResources; a server that cannot be started ends the process.      *)
CreateBase ==
    /\ Stage("create", "createClients")
    /\ CreateAll(Base, conf)
    /\ UNCHANGED <<conf, apiListens, requestVars>>

CreateClients ==
    /\ Stage("createClients", "createFront")
    /\ CreateAll(Clients, conf)
    /\ UNCHANGED <<conf, apiListens, requestVars>>

(* The API is given a listener only if there is no admin server to serve   *)
(* it; the admin server, when it is created, serves the API of now.        *)
CreateFront ==
    /\ Stage("createFront", "select")
    /\ CreateAll(Front, conf)
    /\ LET created == "api" \in live' \ live IN
         /\ apiListens' = (apiListens \/ (created /\ "admin" \notin conf))
         /\ apiConf' = IF created THEN [apiConf EXCEPT !.current = conf] ELSE apiConf
    /\ UNCHANGED <<conf, request, asked, onOld, editable, edits, overtaken>>

CreateFails ==
    /\ pc \in {"create", "createClients", "createFront"}
    /\ pc' = "api" /\ next' = {} /\ byApi' = FALSE /\ toClose' = Resources
    /\ UNCHANGED <<resourceVars, requestVars>>

-----------------------------------------------------------------------------
(* The API that answers requests: its own listener, or the router that the *)
(* admin server was given.                                                 *)
ServedByOld == <<"admin", "api">> \in dangling
ServedByCurrent == "api" \in live /\ (apiListens \/ Holds("admin", "api"))

(* onConfigPathsAdd, -Patch, -Replace, -Delete and                         *)
(* onConfigPathDefaultsPatch wait for the main goroutine with the API's    *)
(* mutex held; onConfigGlobalPatch answers and leaves a goroutine waiting. *)
ConfigRequest(q, old) ==
    /\ request[q] = "none" /\ ~Shutdown
    /\ IF old THEN ServedByOld ELSE ServedByCurrent
    /\ ~Held(old)
    /\ edits > 0 /\ edits' = edits - 1
    /\ \E e \in editable :
         LET c == Edit(IF old THEN apiConf.old ELSE apiConf.current, e) IN
         /\ apiConf' = IF old THEN [apiConf EXCEPT !.old = c] ELSE [apiConf EXCEPT !.current = c]
         /\ asked' = [asked EXCEPT ![q] = c]
    /\ onOld' = [onOld EXCEPT ![q] = old]
    /\ \E kind \in {"holding", "sending"} : request' = [request EXCEPT ![q] = kind]
    /\ UNCHANGED <<resourceVars, reloadVars, editable, overtaken>>
=============================================================================
