----------------------------- MODULE NodeProofs -----------------------------
(***************************************************************************)
(* Proofs about Node, for any number of requests, any configurations and   *)
(* any number of changes.                                                  *)
(***************************************************************************)
EXTENDS Node, TLAPS

-----------------------------------------------------------------------------
(***************************************************************************)
(* The inductive invariant.                                                *)
(***************************************************************************)
(* A node that has been told to end does not come back to its select.      *)
EndsOnly == Shutdown => pc \in {"api", "servers", "clients", "rest", "ended"}

(* From closeResources on, the configuration being applied is p.conf.      *)
Applied == pc \in {"select", "create", "createClients", "createFront"} => next = conf

(* The requests whose configuration the API of now has recorded.           *)
Recorded == {q \in Pending : ~onOld[q]}

(* The configuration that the API should have: it is told of one that came *)
(* from the file only when closeResources comes to it.                     *)
Awaited == pc = "api" /\ ~byApi

Recording ==
    /\ "api" \notin live => Recorded = {}
    /\ ~overtaken /\ ~Shutdown /\ "api" \in live =>
         /\ \A q \in Requests : Recorded = {q} => asked[q] = apiConf.current
         /\ Recorded = {} => Awaited \/ apiConf.current = next

(* A session is a session of the WebRTC server.                            *)
SessionHasServer == session # "none" => "webrtc" \in live

Guarding == SessionHasServer /\ RevokedIsCut

(* What closeResources closes: who refers to something that it closes goes *)
(* too, and the clients of the control center always do.                   *)
Excepted == {<<"admin", "api">>, <<"webrtc", "recMgr">>}

CloseSound(T, c) ==
    /\ \A d \in T : \A r \in Resources : d \in Refs(r) /\ <<r, d>> \notin Excepted => r \in T
    /\ "recMgr" \in T /\ "webrtc" \in c => "webrtc" \in T
    /\ ControlClients \subseteq T

(* The resources that are there exactly when the configuration wants them, *)
(* and those that the reload has closed and created so far.                *)
Steady == Resources \ {"traffic", "recMgr", "recordDeletion"}

Gone ==
    CASE pc = "servers" -> toClose \cap {"admin", "api"}
      [] pc = "clients" -> toClose \cap {"admin", "api", "srt", "webrtc", "traffic", "recMgr", "recordDeletion"}
      [] pc = "rest" -> ControlClients
                        \cup (toClose \cap {"admin", "api", "srt", "webrtc", "traffic", "recMgr", "recordDeletion"})
      [] OTHER -> {}

Made ==
    CASE pc = "createClients" -> Base
      [] pc = "createFront" -> Base \cup Clients
      [] OTHER -> {}

(* Until p.conf is replaced, what is there is what the previous one wanted *)
(* and has not been closed yet.                                            *)
WhileClosing ==
    pc \in {"select", "api", "servers", "clients", "rest"} =>
        /\ \A r \in Steady \cup {"recMgr"} : r \in live <=> Wanted(r, conf, {}) /\ r \notin Gone
        /\ live \cap Gone = {}
        /\ pc # "select" => toClose = Closing(conf, next)

(* Then, what was not closed is wanted by the new one as well, and what    *)
(* was closed is made anew.                                                *)
WhileCreating ==
    pc \in {"create", "createClients", "createFront"} =>
        /\ CloseSound(toClose, conf)
        /\ \A r \in Steady : r \in live <=> Wanted(r, conf, {}) /\ (r \in toClose => r \in Made)
        /\ \A r \in live \cap toClose : r \in Made
        /\ pc = "create" => /\ "recMgr" \in live => Wanted("recMgr", conf, {})
                            /\ "recMgr" \notin live /\ Wanted("recMgr", conf, {}) => "webrtc" \notin live
        /\ pc # "create" => ("recMgr" \in live <=> Wanted("recMgr", conf, {}))

(* A reference is held by a resource that is there, to one that is there,  *)
(* or that was closed and is one of the exceptions.                        *)
Stale == {<<"admin", "api">>} \cup ({"pathManager", "recMgr"} \X {"whitelist"})

References ==
    /\ \A e \in wired : e[1] \in live /\ e[2] \in live /\ (e[2] \in Refs(e[1]) \/ e[1] \in Setters(e[2]))
    /\ \A e \in dangling : e[1] \in live /\ e \in Stale
    /\ \A r \in live : \A d \in Refs(r) \cap live : <<r, d>> \in wired \/ <<r, d>> = <<"admin", "api">>

(* With a control center, path manager and recording manager are given the *)
(* new whitelist.                                                          *)
WhitelistIsNew ==
    pc \in {"createFront", "select"} /\ "control" \in conf => \A e \in dangling : e[2] # "whitelist"

Wiring == ~Shutdown => WhileClosing /\ WhileCreating /\ References /\ WhitelistIsNew

-----------------------------------------------------------------------------
(***************************************************************************)
(* Types.                                                                  *)
(***************************************************************************)
(* The flags F among those of S are as closeResources computes them.       *)
Settled(F, S, diff) ==
    /\ F \subseteq S
    /\ \A r \in S : /\ After(r) \subseteq S
                    /\ r \in F <=> Own(r) \cap diff # {} \/ After(r) \cap F # {}

(* A flag that comes after those that it includes leaves them settled.     *)
LEMMA FlagSettles ==
    ASSUME NEW F, NEW S, NEW D, NEW f, Settled(F, S, D), f \notin S, After(f) \subseteq S
    PROVE  Settled(Flag(f, D, F), S \cup {f}, D)
<1>1. \A x : x \in Flag(f, D, F) <=> x \in F \/ (x = f /\ (Own(f) \cap D # {} \/ After(f) \cap F # {}))
  BY DEF Flag
<1>2. \A x \in S \cup {f} : After(x) \subseteq S
  BY DEF Settled
<1>3. \A x \in S \cup {f} : After(x) \cap Flag(f, D, F) = After(x) \cap F
  BY <1>1, <1>2
<1>. QED
  BY <1>1, <1>2, <1>3 DEF Settled

FlagSet == {"logger", "auth", "metrics", "degrade", "cleaner", "playback", "pathManager", "admin", "api"}
           \cup ProtocolServers

(* All the flags are.                                                      *)
LEMMA FlaggedSettled ==
    ASSUME NEW diff
    PROVE  Settled(Flagged(diff), FlagSet, diff)
<1>. DEFINE
        f1 == Flag("logger", diff, {})
        s1 == {} \cup {"logger"}
        f2 == Flag("auth", diff, f1)
        s2 == s1 \cup {"auth"}
        f3 == Flag("metrics", diff, f2)
        s3 == s2 \cup {"metrics"}
        f4 == Flag("degrade", diff, f3)
        s4 == s3 \cup {"degrade"}
        f5 == Flag("cleaner", diff, f4)
        s5 == s4 \cup {"cleaner"}
        f6 == Flag("playback", diff, f5)
        s6 == s5 \cup {"playback"}
        f7 == Flag("pathManager", diff, f6)
        s7 == s6 \cup {"pathManager"}
        f8 == Flag("rtsp", diff, f7)
        s8 == s7 \cup {"rtsp"}
        f9 == Flag("hls", diff, f8)
        s9 == s8 \cup {"hls"}
        f10 == Flag("webrtc", diff, f9)
        s10 == s9 \cup {"webrtc"}
        f11 == Flag("srt", diff, f10)
        s11 == s10 \cup {"srt"}
        f12 == Flag("api", diff, f11)
        s12 == s11 \cup {"api"}
        f13 == Flag("admin", diff, f12)
        s13 == s12 \cup {"admin"}
<1>0. Settled({}, {}, diff)
  BY DEF Settled
<1>1. Settled(f1, s1, diff)
  <2>1. "logger" \notin {} /\ After("logger") \subseteq {}
    BY DEF After, ProtocolServers
  <2>. HIDE DEF s1
  <2>. QED
    BY <1>0, <2>1, FlagSettles DEF f1, s1
<1>2. Settled(f2, s2, diff)
  <2>1. "auth" \notin s1 /\ After("auth") \subseteq s1
    BY DEF After, ProtocolServers
  <2>. HIDE DEF f1, s1
  <2>. QED
    BY <1>1, <2>1, FlagSettles DEF f2, s2
<1>3. Settled(f3, s3, diff)
  <2>1. "metrics" \notin s2 /\ After("metrics") \subseteq s2
    BY DEF After, ProtocolServers
  <2>. HIDE DEF f2, s2
  <2>. QED
    BY <1>2, <2>1, FlagSettles DEF f3, s3
<1>4. Settled(f4, s4, diff)
  <2>1. "degrade" \notin s3 /\ After("degrade") \subseteq s3
    BY DEF After, ProtocolServers
  <2>. HIDE DEF f3, s3
  <2>. QED
    BY <1>3, <2>1, FlagSettles DEF f4, s4
<1>5. Settled(f5, s5, diff)
  <2>1. "cleaner" \notin s4 /\ After("cleaner") \subseteq s4
    BY DEF After, ProtocolServers
  <2>. HIDE DEF f4, s4
  <2>. QED
    BY <1>4, <2>1, FlagSettles DEF f5, s5
<1>6. Settled(f6, s6, diff)
  <2>1. "playback" \notin s5 /\ After("playback") \subseteq s5
    BY DEF After, ProtocolServers
  <2>. HIDE DEF f5, s5
  <2>. QED
    BY <1>5, <2>1, FlagSettles DEF f6, s6
<1>7. Settled(f7, s7, diff)
  <2>1. "pathManager" \notin s6 /\ After("pathManager") \subseteq s6
    BY DEF After, ProtocolServers
  <2>. HIDE DEF f6, s6
  <2>. QED
    BY <1>6, <2>1, FlagSettles DEF f7, s7
<1>8. Settled(f8, s8, diff)
  <2>1. "rtsp" \notin s7 /\ After("rtsp") \subseteq s7
    BY DEF After, ProtocolServers
  <2>. HIDE DEF f7, s7
  <2>. QED
    BY <1>7, <2>1, FlagSettles DEF f8, s8
<1>9. Settled(f9, s9, diff)
  <2>1. "hls" \notin s8 /\ After("hls") \subseteq s8
    BY DEF After, ProtocolServers
  <2>. HIDE DEF f8, s8
  <2>. QED
    BY <1>8, <2>1, FlagSettles DEF f9, s9
<1>10. Settled(f10, s10, diff)
  <2>1. "webrtc" \notin s9 /\ After("webrtc") \subseteq s9
    BY DEF After, ProtocolServers
  <2>. HIDE DEF f9, s9
  <2>. QED
    BY <1>9, <2>1, FlagSettles DEF f10, s10
<1>11. Settled(f11, s11, diff)
  <2>1. "srt" \notin s10 /\ After("srt") \subseteq s10
    BY DEF After, ProtocolServers
  <2>. HIDE DEF f10, s10
  <2>. QED
    BY <1>10, <2>1, FlagSettles DEF f11, s11
<1>12. Settled(f12, s12, diff)
  <2>1. "api" \notin s11 /\ After("api") \subseteq s11
    BY DEF After, ProtocolServers
  <2>. HIDE DEF f11, s11
  <2>. QED
    BY <1>11, <2>1, FlagSettles DEF f12, s12
<1>13. Settled(f13, s13, diff)
  <2>1. "admin" \notin s12 /\ After("admin") \subseteq s12
    BY DEF After, ProtocolServers
  <2>. HIDE DEF f12, s12
  <2>. QED
    BY <1>12, <2>1, FlagSettles DEF f13, s13
<1>14. s13 = FlagSet
  BY DEF FlagSet, ProtocolServers
<1>15. f13 = Flagged(diff)
  BY DEF FirstFlags, PathFlags, Flagged
<1>. QED
  BY <1>13, <1>14, <1>15

(* closeResources flags only resources.                                    *)
LEMMA ClosingType == ASSUME NEW old, NEW new PROVE Closing(old, new) \subseteq Resources
<1>1. \A diff : Flagged(diff) \subseteq FlagSet
  BY FlaggedSettled DEF Settled
<1>. QED
  BY <1>1 DEF Closing, Resources, ControlClients, FlagSet

(* A setting is turned: the result is a configuration.                     *)
LEMMA EditType == ASSUME NEW c \in SUBSET Settings, NEW e \in Settings PROVE Edit(c, e) \subseteq Settings
BY DEF Edit, Differing

(* What the helpers of a reload keep.                                      *)
LEMMA CloseType ==
    ASSUME TypeOK, NEW S, CloseAll(S)
    PROVE  /\ live' \subseteq Resources
           /\ wired' \subseteq Resources \X Resources /\ dangling' \subseteq Resources \X Resources
BY DEF TypeOK, CoreTypeOK, CloseAll

(* The same for what is created.                                           *)
LEMMA CreateType ==
    ASSUME TypeOK, NEW S, NEW c, S \subseteq Resources, CreateAll(S, c)
    PROVE  /\ live' \subseteq Resources
           /\ wired' \subseteq Resources \X Resources /\ dangling' \subseteq Resources \X Resources
<1>. DEFINE new == {r \in S : r \notin live /\ Wanted(r, c, live)}
            there == live \cup new
            given == {e \in new \X there : e[2] \in Refs(e[1])}
            set == {e \in there \X new : e[1] \in Setters(e[2])}
<1>1. live' = there /\ wired' = wired \cup given \cup set /\ dangling' = {e \in dangling : e \notin set}
  BY DEF CreateAll
<1>2. new \subseteq Resources /\ live \subseteq Resources /\ wired \subseteq Resources \X Resources
      /\ dangling \subseteq Resources \X Resources
  BY DEF TypeOK, CoreTypeOK
<1>3. there \subseteq Resources
  BY <1>2
<1>4. given \subseteq Resources \X Resources /\ set \subseteq Resources \X Resources
  BY <1>2, <1>3
<1>. QED
  BY <1>1, <1>2, <1>3, <1>4

(* A reload starts with a configuration and flags of resources.            *)
LEMMA ReloadType ==
    ASSUME TypeOK, NEW c \in SUBSET Settings, NEW api \in BOOLEAN, Reload(c, api)
    PROVE  pc' = "api" /\ next' \subseteq Settings /\ byApi' \in BOOLEAN /\ toClose' \subseteq Resources
BY ClosingType DEF Reload

(* What createResources creates, stage by stage.                           *)
LEMMA BatchTypes == Base \subseteq Resources /\ Clients \subseteq Resources /\ Front \subseteq Resources
BY DEF Base, Clients, Front, Resources, ControlClients, ProtocolServers

(* Every step of the main goroutine and of a request keeps the core's      *)
(* types.                                                                  *)
LEMMA CoreTypeStep ==
    ASSUME TypeOK, ReloadSteps \/ ConfigSteps
    PROVE  CoreTypeOK'
<1>. USE DEF TypeOK, CoreTypeOK
<1>1. CASE CloseApi
  <2>1. /\ live' \subseteq Resources
        /\ wired' \subseteq Resources \X Resources /\ dangling' \subseteq Resources \X Resources
    BY <1>1, CloseType DEF CloseApi
  <2>2. apiConf' \in [current : SUBSET Settings, old : SUBSET Settings]
    BY <1>1 DEF CloseApi
  <2>3. onOld' \in [Requests -> BOOLEAN]
    BY <1>1 DEF CloseApi
  <2>. QED
    BY <1>1, <2>1, <2>2, <2>3 DEF CloseApi, Stage
<1>2. CASE CloseServers
  <2>1. /\ live' \subseteq Resources
        /\ wired' \subseteq Resources \X Resources /\ dangling' \subseteq Resources \X Resources
    BY <1>2, CloseType DEF CloseServers
  <2>. QED
    BY <1>2, <2>1 DEF CloseServers, Stage, requestVars
<1>3. CASE CloseClients
  <2>1. /\ live' \subseteq Resources
        /\ wired' \subseteq Resources \X Resources /\ dangling' \subseteq Resources \X Resources
    BY <1>3, CloseType DEF CloseClients
  <2>. QED
    BY <1>3, <2>1 DEF CloseClients, Stage, requestVars
<1>4. CASE CloseRest
  <2>1. /\ live' \subseteq Resources
        /\ wired' \subseteq Resources \X Resources /\ dangling' \subseteq Resources \X Resources
    BY <1>4, CloseType DEF CloseRest
  <2>. QED
    BY <1>4, <2>1 DEF CloseRest, Stage, requestVars
<1>5. CASE CreateBase
  <2>1. /\ live' \subseteq Resources
        /\ wired' \subseteq Resources \X Resources /\ dangling' \subseteq Resources \X Resources
    BY <1>5, CreateType, BatchTypes DEF CreateBase
  <2>. QED
    BY <1>5, <2>1 DEF CreateBase, Stage, requestVars
<1>6. CASE CreateClients
  <2>1. /\ live' \subseteq Resources
        /\ wired' \subseteq Resources \X Resources /\ dangling' \subseteq Resources \X Resources
    BY <1>6, CreateType, BatchTypes DEF CreateClients
  <2>. QED
    BY <1>6, <2>1 DEF CreateClients, Stage, requestVars
<1>7. CASE CreateFront
  <2>1. /\ live' \subseteq Resources
        /\ wired' \subseteq Resources \X Resources /\ dangling' \subseteq Resources \X Resources
    BY <1>7, CreateType, BatchTypes DEF CreateFront
  <2>2. apiConf' \in [current : SUBSET Settings, old : SUBSET Settings]
    BY <1>7 DEF CreateFront
  <2>3. apiListens' \in BOOLEAN
    BY <1>7 DEF CreateFront
  <2>. QED
    BY <1>7, <2>1, <2>2, <2>3 DEF CreateFront, Stage
<1>8. CASE CreateFails
  BY <1>8 DEF CreateFails, resourceVars, requestVars
<1>9. CASE FileChanged
  <2>1. PICK e \in editable : Reload(Edit(conf, e), FALSE)
    BY <1>9 DEF FileChanged
  <2>2. Edit(conf, e) \in SUBSET Settings
    BY EditType
  <2>3. pc' = "api" /\ next' \subseteq Settings /\ byApi' \in BOOLEAN /\ toClose' \subseteq Resources
    BY <2>1, <2>2, ReloadType
  <2>4. edits' \in Nat /\ overtaken' \in BOOLEAN
    BY <1>9 DEF FileChanged
  <2>. QED
    BY <1>9, <2>3, <2>4 DEF FileChanged, resourceVars
<1>10. CASE Interrupted
  <2>1. pc' = "api" /\ next' \subseteq Settings /\ byApi' \in BOOLEAN /\ toClose' \subseteq Resources
    BY <1>10, ReloadType DEF Interrupted
  <2>. QED
    BY <1>10, <2>1 DEF Interrupted, resourceVars, requestVars
<1>11. ASSUME NEW q \in Requests, ApiConfigSet(q) PROVE CoreTypeOK'
  <2>1. asked[q] \in SUBSET Settings
    OBVIOUS
  <2>2. pc' = "api" /\ next' \subseteq Settings /\ byApi' \in BOOLEAN /\ toClose' \subseteq Resources
    BY <1>11, <2>1, ReloadType DEF ApiConfigSet
  <2>3. request' \in [Requests -> {"none", "holding", "sending", "done"}] /\ overtaken' \in BOOLEAN
    BY <1>11 DEF ApiConfigSet
  <2>. QED
    BY <1>11, <2>2, <2>3 DEF ApiConfigSet, resourceVars
<1>12. ASSUME NEW q \in Requests, RequestGivesUp(q) PROVE CoreTypeOK'
  BY <1>12 DEF RequestGivesUp, resourceVars, reloadVars
<1>13. ASSUME NEW q \in Requests, NEW old \in BOOLEAN, ConfigRequest(q, old) PROVE CoreTypeOK'
  <2>1. PICK e \in editable :
          LET c == Edit(IF old THEN apiConf.old ELSE apiConf.current, e) IN
          /\ apiConf' = IF old THEN [apiConf EXCEPT !.old = c] ELSE [apiConf EXCEPT !.current = c]
          /\ asked' = [asked EXCEPT ![q] = c]
    BY <1>13 DEF ConfigRequest
  <2>2. Edit(IF old THEN apiConf.old ELSE apiConf.current, e) \in SUBSET Settings
    BY EditType
  <2>3. apiConf' \in [current : SUBSET Settings, old : SUBSET Settings] /\ asked' \in [Requests -> SUBSET Settings]
    BY <2>1, <2>2
  <2>4. request' \in [Requests -> {"none", "holding", "sending", "done"}] /\ onOld' \in [Requests -> BOOLEAN]
        /\ edits' \in Nat
    BY <1>13 DEF ConfigRequest
  <2>. QED
    BY <1>13, <2>3, <2>4 DEF ConfigRequest, resourceVars, reloadVars
<1>. QED
  BY <1>1, <1>2, <1>3, <1>4, <1>5, <1>6, <1>7, <1>8, <1>9, <1>10, <1>11, <1>12, <1>13
     DEF ReloadSteps, ConfigSteps, NodeCloseServers, NodeCloseClients, NodeCreateClients

(* The client, the whitelist and the session change none of the core's     *)
(* state.                                                                  *)
LEMMA CoreStays ==
    ASSUME ClientSteps \/ SessionSteps \/ UNCHANGED nodeVars
    PROVE  UNCHANGED coreVars
BY DEF ClientSteps, SessionSteps, nodeVars, Dial, Registered, ConnectionLost, CommandPushed, CommandExecuted,
   StartFallback, FallbackCycle, CommandPolled, PolledExecuted, FallbackFails, BackoffEnds, ClientEnds, GoesOn, Client,
   EligibilityChanges, RefreshFetches, RefreshApplied, SessionArrives, SessionChecked, SessionLeaves

(* Every step keeps the types of client, whitelist and session.            *)
LEMMA ControlTypeStep ==
    ASSUME TypeOK, [Next]_nodeVars
    PROVE  ControlTypeOK'
<1>. USE ControlAssumption DEF TypeOK, ControlTypeOK
<1>1. CASE UNCHANGED controlVars
  BY <1>1 DEF controlVars, clientVars, listVars
<1>2. CASE NodeCloseServers
  BY <1>2 DEF NodeCloseServers, clientVars, listVars
<1>3. CASE NodeCloseClients
  BY <1>3 DEF NodeCloseClients, clientVars
<1>4. CASE NodeCreateClients
  BY <1>4 DEF NodeCreateClients, ListOf
<1>5. CASE ClientSteps
  <2>1. CASE Dial \/ Registered \/ StartFallback \/ CommandPolled \/ FallbackFails \/ BackoffEnds
    <3>1. UNCHANGED <<listVars, session, unguarded>>
      BY <2>1 DEF Dial, Registered, StartFallback, CommandPolled, FallbackFails, BackoffEnds, GoesOn, Client
    <3>2. client' \in {"registering", "lost", "registered", "fallback", "polled", "dialing", "backoff"}
      BY <2>1 DEF Dial, Registered, StartFallback, CommandPolled, FallbackFails, BackoffEnds, GoesOn, Client
    <3>3. hinted' = hinted \/ hinted' = FALSE
      BY <2>1 DEF Dial, Registered, StartFallback, CommandPolled, FallbackFails, BackoffEnds
    <3>4. late' = late
      BY <2>1 DEF Dial, Registered, StartFallback, CommandPolled, FallbackFails, BackoffEnds
    <3>5. (cycles' = cycles \/ cycles' = 0) /\ (reader' = reader \/ reader' = "reading")
      BY <2>1 DEF Dial, Registered, StartFallback, CommandPolled, FallbackFails, BackoffEnds
    <3>6. hinted' \in BOOLEAN
      BY <3>3
    <3>. QED
      BY <3>1, <3>2, <3>4, <3>5, <3>6 DEF listVars
  <2>3. CASE ConnectionLost
    <3>1. client' = "lost" /\ UNCHANGED <<listVars, session, unguarded, cycles>> /\ reader' = "none"
      BY <2>3 DEF ConnectionLost, Client
    <3>2. hinted' \in BOOLEAN /\ late' \in BOOLEAN
      BY <2>3 DEF ConnectionLost
    <3>. QED
      BY <3>1, <3>2 DEF listVars
  <2>4. CASE ClientEnds
    <3>1. client' = "off" /\ UNCHANGED <<listVars, session, unguarded, cycles, hinted>> /\ reader' = "none"
      BY <2>4 DEF ClientEnds, Client
    <3>2. late' \in BOOLEAN
      BY <2>4 DEF ClientEnds
    <3>. QED
      BY <3>1, <3>2 DEF listVars
  <2>5. CASE FallbackCycle
    <3>1. client' \in {"dialing", "fallback"} /\ UNCHANGED <<listVars, session, unguarded, hinted, reader, late>>
      BY <2>5 DEF FallbackCycle, GoesOn, Client
    <3>2. cycles' \in 0..(FallbackCycles - 1)
      BY <2>5 DEF FallbackCycle
    <3>. QED
      BY <3>1, <3>2 DEF listVars
  <2>2. CASE CommandPushed \/ CommandExecuted
    <3>1. UNCHANGED <<listVars, unguarded, client, hinted, cycles>>
      BY <2>2 DEF CommandPushed, CommandExecuted
    <3>2. reader' \in {"none", "reading", "executing"} /\ session' \in {"none", "checking", "live"}
      BY <2>2 DEF CommandPushed, CommandExecuted, Cut
    <3>3. late' = late \/ late' = FALSE
      BY <2>2 DEF CommandPushed, CommandExecuted
    <3>4. late' \in BOOLEAN
      BY <3>3
    <3>. QED
      BY <3>1, <3>2, <3>4 DEF listVars
  <2>6. CASE PolledExecuted
    <3>1. cycles' \in 0..(FallbackCycles - 1)
      BY <2>6 DEF PolledExecuted
    <3>. QED
      BY <2>6, <3>1 DEF PolledExecuted, Cut, listVars
  <2>. QED
    BY <1>5, <2>1, <2>2, <2>3, <2>4, <2>5, <2>6 DEF ClientSteps
<1>6. CASE SessionSteps
  <2>1. CASE EligibilityChanges
    BY <2>1 DEF EligibilityChanges, clientVars
  <2>2. CASE RefreshFetches
    BY <2>2 DEF RefreshFetches, ListOf, clientVars
  <2>3. CASE RefreshApplied
    BY <2>3 DEF RefreshApplied, Cut, clientVars
  <2>4. CASE SessionArrives \/ SessionChecked \/ SessionLeaves
    <3>1. UNCHANGED <<clientVars, listVars>> /\ session' \in {"none", "checking", "live"}
      BY <2>4 DEF SessionArrives, SessionChecked, SessionLeaves
    <3>2. unguarded' = unguarded \/ unguarded' = ~Holds("pathManager", "whitelist")
      BY <2>4 DEF SessionArrives, SessionChecked, SessionLeaves
    <3>3. unguarded' \in BOOLEAN
      BY <3>2
    <3>. QED
      BY <3>1, <3>3 DEF clientVars, listVars
  <2>. QED
    BY <1>6, <2>1, <2>2, <2>3, <2>4 DEF SessionSteps
<1>. QED
  BY <1>1, <1>2, <1>3, <1>4, <1>5, <1>6 DEF Next, ReloadSteps, ConfigSteps, nodeVars, controlVars

(* Every step keeps the types.                                             *)
LEMMA TypeStep ==
    ASSUME TypeOK, [Next]_nodeVars
    PROVE  TypeOK'
<1>1. CASE ClientSteps \/ SessionSteps \/ UNCHANGED nodeVars
  <2>1. UNCHANGED coreVars
    BY <1>1, CoreStays
  <2>2. CoreTypeOK'
    BY <2>1 DEF coreVars, resourceVars, reloadVars, requestVars, TypeOK, CoreTypeOK
  <2>. QED
    BY <2>2, ControlTypeStep DEF TypeOK
<1>2. CASE ReloadSteps \/ ConfigSteps
  BY <1>2, CoreTypeStep, ControlTypeStep DEF TypeOK
<1>. QED
  BY <1>1, <1>2 DEF Next

-----------------------------------------------------------------------------
(***************************************************************************)
(* The stages of a reload.                                                 *)
(***************************************************************************)
(* No stage is skipped, and a shutdown is not left.                        *)
LEMMA StagesStep ==
    ASSUME TypeOK, EndsOnly, Applied, [Next]_nodeVars
    PROVE  EndsOnly' /\ Applied'
<1>. USE DEF EndsOnly, Applied, Shutdown
<1>1. CASE UNCHANGED <<pc, next, conf>>
  BY <1>1
<1>2. CASE CloseApi \/ CloseServers \/ CloseClients \/ CloseRest
  BY <1>2 DEF CloseApi, CloseServers, CloseClients, CloseRest, Stage
<1>3. CASE CreateBase \/ CreateClients \/ CreateFront \/ CreateFails
  BY <1>3 DEF CreateBase, CreateClients, CreateFront, CreateFails, Stage
<1>4. CASE pc' = "api"
  BY <1>4
<1>5. CASE ReloadSteps
  BY <1>2, <1>3, <1>5 DEF ReloadSteps, NodeCloseServers, NodeCloseClients, NodeCreateClients
<1>6. CASE ConfigSteps
  BY <1>1, <1>4, <1>6 DEF ConfigSteps, FileChanged, Interrupted, ApiConfigSet, RequestGivesUp, ConfigRequest, Reload,
     resourceVars, reloadVars
<1>7. CASE ClientSteps \/ SessionSteps \/ UNCHANGED nodeVars
  BY <1>1, <1>7, CoreStays DEF coreVars, resourceVars, reloadVars
<1>. QED
  BY <1>5, <1>6, <1>7 DEF Next

-----------------------------------------------------------------------------
(***************************************************************************)
(* The API and the core agree on the configuration.                        *)
(***************************************************************************)
(* The API leaves and comes back only where closeResources and             *)
(* createResources come to it.                                             *)
LEMMA ApiStays ==
    ASSUME CloseServers \/ CloseClients \/ CloseRest \/ CreateBase \/ CreateClients
    PROVE  "api" \in live' <=> "api" \in live
<1>1. CASE CloseServers \/ CloseClients \/ CloseRest
  BY <1>1 DEF CloseServers, CloseClients, CloseRest, CloseAll, ControlClients
<1>2. CASE CreateBase \/ CreateClients
  BY <1>2 DEF CreateBase, CreateClients, CreateAll, Base, Clients, ControlClients
<1>. QED
  BY <1>1, <1>2

(* Every step keeps what the API has recorded in agreement with what the   *)
(* main goroutine applies.                                                 *)
LEMMA RecordingStep ==
    ASSUME TypeOK, EndsOnly, Applied, Recording, [Next]_nodeVars
    PROVE  Recording'
<1>. USE DEF Recording
(* Nothing that it is about has changed.                                   *)
<1>1. ASSUME UNCHANGED requestVars, "api" \in live' <=> "api" \in live, next' = next, Awaited => Awaited'
      PROVE  Recording'
  <2>1. Recorded' = Recorded
    BY <1>1 DEF Recorded, Pending, requestVars
  <2>. QED
    BY <1>1, <2>1 DEF requestVars, Shutdown
<1>2. CASE CloseServers \/ CloseClients \/ CloseRest \/ CreateBase \/ CreateClients
  <2>1. UNCHANGED requestVars /\ next' = next /\ pc # "api"
    BY <1>2 DEF CloseServers, CloseClients, CloseRest, CreateBase, CreateClients, Stage
  <2>. QED
    BY <1>1, <1>2, <2>1, ApiStays DEF Awaited
<1>3. CASE CreateFails \/ Interrupted
  <2>1. Recorded' = Recorded /\ live' = live /\ Shutdown'
    BY <1>3 DEF CreateFails, Interrupted, Reload, Recorded, Pending, requestVars, resourceVars, Shutdown
  <2>. QED
    BY <2>1
<1>4. CASE UNCHANGED coreVars
  <2>1. UNCHANGED requestVars /\ live' = live /\ next' = next /\ pc' = pc /\ byApi' = byApi
    BY <1>4 DEF coreVars, resourceVars, reloadVars
  <2>. QED
    BY <1>1, <2>1 DEF Awaited
<1>5. CASE CloseApi
  <2>. DEFINE closed == "api" \in toClose
              told == ~closed /\ "api" \in live /\ ~byApi
  <2>1. /\ pc' = "servers" /\ next' = next /\ pc = "api" /\ UNCHANGED <<request, asked>>
        /\ onOld' = [q \in Requests |-> onOld[q] \/ (q \in Pending /\ closed)]
        /\ overtaken' = (overtaken \/ (told /\ \E q \in Pending : ~onOld[q]))
    BY <1>5 DEF CloseApi, Stage
  <2>2. "api" \in live' <=> "api" \in live /\ ~closed
    BY <1>5 DEF CloseApi, CloseAll
  <2>3. Pending' = Pending /\ ~Awaited'
    BY <2>1 DEF Pending, Awaited
  <2>4. CASE closed
    <3>1. Recorded' = {}
      BY <2>1, <2>3, <2>4 DEF Recorded, Pending
    <3>. QED
      BY <2>2, <2>4, <3>1
  <2>5. CASE ~closed
    <3>1. \A q \in Requests : onOld'[q] = onOld[q]
      BY <2>1, <2>5 DEF TypeOK, CoreTypeOK
    <3>2. Recorded' = Recorded
      BY <2>3, <3>1 DEF Recorded, Pending
    <3>3. apiConf' = IF told THEN [apiConf EXCEPT !.current = next] ELSE apiConf
      BY <1>5, <2>5 DEF CloseApi
    <3>4. CASE told
      <4>1. apiConf'.current = next /\ (~overtaken' => Recorded = {})
        BY <2>1, <3>3, <3>4 DEF TypeOK, CoreTypeOK, Recorded
      <4>. QED
        BY <2>1, <2>2, <3>2, <3>4, <4>1
    <3>5. CASE ~told
      <4>1. apiConf' = apiConf /\ ("api" \in live' => ~Awaited)
        BY <2>2, <3>3, <3>5 DEF Awaited
      <4>3. ~overtaken' => ~overtaken
        BY <2>1
      <4>. QED
        BY <2>1, <2>2, <2>5, <3>2, <4>1, <4>3 DEF Shutdown
    <3>. QED
      BY <3>4, <3>5
  <2>. QED
    BY <2>4, <2>5
<1>6. CASE CreateFront
  <2>1. /\ pc = "createFront" /\ pc' = "select" /\ next' = next /\ UNCHANGED <<request, asked, onOld, overtaken>>
        /\ apiConf' = IF "api" \in live' \ live THEN [apiConf EXCEPT !.current = conf] ELSE apiConf
    BY <1>6 DEF CreateFront, Stage
  <2>2. Recorded' = Recorded /\ ~Awaited /\ ~Awaited'
    BY <2>1 DEF Recorded, Pending, Awaited
  <2>3. live \subseteq live'
    BY <1>6 DEF CreateFront, CreateAll
  <2>4. CASE "api" \in live' \ live
    <3>1. apiConf'.current = next /\ Recorded = {}
      BY <2>1, <2>4 DEF TypeOK, CoreTypeOK, Applied
    <3>. QED
      BY <2>1, <2>2, <2>4, <3>1
  <2>5. CASE "api" \notin live' \ live
    BY <2>1, <2>2, <2>3, <2>5 DEF Shutdown
  <2>. QED
    BY <2>4, <2>5
<1>7. CASE FileChanged
  <2>1. live' = live /\ UNCHANGED <<request, asked, onOld, apiConf>> /\ Awaited' /\ pc = "select"
        /\ (~overtaken' => ~overtaken /\ Pending = {})
    BY <1>7 DEF FileChanged, Reload, resourceVars, Awaited
  <2>2. Recorded' = Recorded
    BY <2>1 DEF Recorded, Pending
  <2>. QED
    BY <2>1, <2>2 DEF Recorded
<1>8. ASSUME NEW q \in Requests, ApiConfigSet(q) PROVE Recording'
  <2>1. /\ live' = live /\ UNCHANGED <<asked, onOld, apiConf>> /\ q \in Pending /\ pc = "select" /\ next' = asked[q]
        /\ request' = [request EXCEPT ![q] = "done"]
        /\ (~overtaken' => ~overtaken /\ Pending = {q} /\ ~onOld[q])
    BY <1>8 DEF ApiConfigSet, Reload, resourceVars
  <2>2. Recorded' = Recorded \ {q}
    BY <2>1 DEF Recorded, Pending, TypeOK, CoreTypeOK
  <2>3. ~Shutdown
    BY <2>1 DEF EndsOnly
  <2>4. ~overtaken' => Recorded = {q} /\ Recorded' = {}
    BY <2>1, <2>2 DEF Recorded
  <2>. QED
    BY <2>1, <2>2, <2>3, <2>4
<1>9. ASSUME NEW q \in Requests, RequestGivesUp(q) PROVE Recording'
  <2>1. live' = live /\ Shutdown' /\ UNCHANGED onOld /\ Pending' \subseteq Pending
    BY <1>9 DEF RequestGivesUp, resourceVars, reloadVars, Shutdown, Pending, TypeOK, CoreTypeOK
  <2>2. Recorded' \subseteq Recorded
    BY <2>1 DEF Recorded
  <2>. QED
    BY <2>1, <2>2
<1>10. ASSUME NEW q \in Requests, NEW old \in BOOLEAN, ConfigRequest(q, old) PROVE Recording'
  <2>1. PICK e \in editable :
          LET c == Edit(IF old THEN apiConf.old ELSE apiConf.current, e) IN
          /\ apiConf' = IF old THEN [apiConf EXCEPT !.old = c] ELSE [apiConf EXCEPT !.current = c]
          /\ asked' = [asked EXCEPT ![q] = c]
    BY <1>10 DEF ConfigRequest
  <2>2. /\ UNCHANGED <<live, pc, next, byApi, overtaken>> /\ request[q] = "none"
        /\ onOld' = [onOld EXCEPT ![q] = old]
        /\ \E kind \in {"holding", "sending"} : request' = [request EXCEPT ![q] = kind]
        /\ (~old => ServedByCurrent)
    BY <1>10 DEF ConfigRequest, resourceVars, reloadVars
  <2>3. Pending' = Pending \cup {q} /\ q \notin Pending
    BY <2>2 DEF Pending, TypeOK, CoreTypeOK
  <2>4. CASE old
    <3>1. Recorded' = Recorded /\ q \notin Recorded
      BY <2>2, <2>3, <2>4 DEF Recorded, Pending, TypeOK, CoreTypeOK
    <3>2. apiConf'.current = apiConf.current /\ \A p \in Requests \ {q} : asked'[p] = asked[p]
      BY <2>1, <2>4 DEF TypeOK, CoreTypeOK
    <3>. QED
      BY <2>2, <3>1, <3>2 DEF Awaited, Shutdown
  <2>5. CASE ~old
    <3>1. Recorded' = Recorded \cup {q}
      BY <2>2, <2>3, <2>5 DEF Recorded, Pending, TypeOK, CoreTypeOK
    <3>2. apiConf'.current = asked'[q]
      BY <2>1, <2>5 DEF TypeOK, CoreTypeOK
    <3>3. "api" \in live
      BY <2>2, <2>5 DEF ServedByCurrent
    <3>. QED
      BY <2>2, <3>1, <3>2, <3>3
  <2>. QED
    BY <2>4, <2>5
<1>11. CASE ReloadSteps
  BY <1>2, <1>3, <1>5, <1>6, <1>11 DEF ReloadSteps, NodeCloseServers, NodeCloseClients, NodeCreateClients
<1>12. CASE ConfigSteps
  BY <1>3, <1>7, <1>8, <1>9, <1>10, <1>12 DEF ConfigSteps
<1>. QED
  BY <1>4, <1>11, <1>12, CoreStays DEF Next

(* What is recorded and taken says what ConfAgrees says.                   *)
LEMMA RecordingIsConfAgrees ==
    ASSUME TypeOK, EndsOnly, Applied, Recording
    PROVE  ConfAgrees
BY DEF EndsOnly, Applied, Recording, ConfAgrees, Recorded, Awaited, ServedByCurrent

-----------------------------------------------------------------------------
(***************************************************************************)
(* Sessions and the whitelist.                                             *)
(***************************************************************************)
(* Every step keeps the sessions of a revoked application cut.             *)
LEMMA GuardingStep ==
    ASSUME TypeOK, Guarding, [Next]_nodeVars
    PROVE  Guarding'
<1>. USE DEF Guarding, SessionHasServer, RevokedIsCut
<1>1. CASE UNCHANGED <<session, known, unguarded>> /\ ("webrtc" \in live => "webrtc" \in live')
           /\ ("whitelist" \in live' => "whitelist" \in live)
  BY <1>1
<1>2. CASE UNCHANGED controlVars /\ (CloseApi \/ CloseRest \/ CreateBase \/ CreateFront \/ CreateFails)
  <2>1. "webrtc" \in live => "webrtc" \in live'
    BY <1>2 DEF CloseApi, CloseRest, CreateBase, CreateFront, CreateFails, CloseAll, CreateAll, resourceVars
  <2>2. "whitelist" \in live' => "whitelist" \in live
    <3>1. live' \subseteq live \/ live' \subseteq live \cup Base \/ live' \subseteq live \cup Front
      BY <1>2 DEF CloseApi, CloseRest, CreateBase, CreateFront, CreateFails, CloseAll, CreateAll, resourceVars
    <3>. QED
      BY <3>1 DEF Base, Front
  <2>. QED
    BY <1>1, <1>2, <2>1, <2>2 DEF controlVars, listVars
<1>3. CASE NodeCloseServers
  BY <1>3 DEF NodeCloseServers, CloseServers, CloseAll, listVars
<1>4. CASE NodeCloseClients
  BY <1>4 DEF NodeCloseClients, CloseClients, CloseAll, ControlClients
<1>5. CASE NodeCreateClients
  <2>1. live \subseteq live' /\ session' = session /\ unguarded' = (unguarded \/ session # "none")
    BY <1>5 DEF NodeCreateClients, CreateClients, CreateAll
  <2>. QED
    BY <2>1
<1>6. CASE ConfigSteps
  <2>1. live' = live /\ UNCHANGED controlVars
    BY <1>6 DEF ConfigSteps, FileChanged, Interrupted, ApiConfigSet, RequestGivesUp, ConfigRequest, resourceVars
  <2>. QED
    BY <1>1, <2>1 DEF controlVars, listVars
<1>7. CASE ClientSteps \/ SessionSteps \/ UNCHANGED nodeVars
  <2>1. live' = live /\ wired' = wired
    BY <1>7, CoreStays DEF coreVars, resourceVars
  <2>2. CASE CommandExecuted \/ PolledExecuted
    BY <2>1, <2>2 DEF CommandExecuted, PolledExecuted, Cut, listVars
  <2>3. CASE ClientSteps /\ ~(CommandExecuted \/ PolledExecuted)
    <3>1. UNCHANGED <<listVars, session, unguarded>>
      BY <2>3 DEF ClientSteps, Dial, Registered, ConnectionLost, CommandPushed, StartFallback, FallbackCycle,
         CommandPolled, FallbackFails, BackoffEnds, ClientEnds, GoesOn, Client
    <3>. QED
      BY <1>1, <2>1, <3>1 DEF listVars
  <2>4. CASE EligibilityChanges \/ RefreshFetches \/ UNCHANGED nodeVars
    BY <1>1, <2>1, <2>4 DEF EligibilityChanges, RefreshFetches, nodeVars, controlVars, listVars
  <2>5. CASE RefreshApplied
    BY <2>1, <2>5 DEF RefreshApplied, Cut, TypeOK, ControlTypeOK
  <2>6. CASE SessionArrives \/ SessionLeaves
    BY <2>1, <2>6 DEF SessionArrives, SessionLeaves, listVars
  <2>7. CASE SessionChecked
    <3>1. /\ session = "checking" /\ session' = (IF Allowed THEN "live" ELSE "none") /\ known' = known
          /\ unguarded' = ~Holds("pathManager", "whitelist")
      BY <2>7 DEF SessionChecked, listVars
    <3>2. CASE Holds("pathManager", "whitelist")
      <4>1. Allowed => known = "in"
        BY <3>2 DEF Allowed
      <4>. QED
        BY <2>1, <3>1, <4>1
    <3>3. CASE ~Holds("pathManager", "whitelist")
      BY <2>1, <3>1, <3>3
    <3>. QED
      BY <3>2, <3>3
  <2>. QED
    BY <1>7, <2>2, <2>3, <2>4, <2>5, <2>6, <2>7 DEF SessionSteps
<1>. QED
  BY <1>2, <1>3, <1>4, <1>5, <1>6, <1>7 DEF Next, ReloadSteps

-----------------------------------------------------------------------------
(***************************************************************************)
(* The resources fit together.                                             *)
(***************************************************************************)
(* The settings that decide whether a resource is wanted.                  *)
LEMMA WantedFacts ==
    ASSUME NEW c, NEW there
    PROVE  /\ \A r \in {"metrics", "playback", "rtsp", "hls", "srt", "webrtc", "api", "admin"} :
                 Wanted(r, c, there) <=> r \in c
           /\ Wanted("cleaner", c, there) <=> "deleteAfter" \in c
           /\ Wanted("degrade", c, there) <=> "webrtc" \in c
           /\ Wanted("recMgr", c, there) <=> {"webrtc", "recorder"} \subseteq c /\ "webrtc" \notin there
           /\ Wanted("mmxControl", c, there) <=> {"webrtc", "control"} \subseteq c
           /\ \A r \in {"healthLog", "whitelist"} : Wanted(r, c, there) <=> "control" \in c
           /\ \A r \in {"logger", "auth", "pathManager"} : Wanted(r, c, there)
BY DEF Wanted

(* Who refers to what.                                                     *)
LEMMA RefsFacts ==
    /\ \A r \in FlagSet \ {"admin"} : \A d : d \in Refs(r) /\ d # "recMgr" => d \in After(r)
    /\ \A r \in Resources \ FlagSet : \A d : d \in Refs(r) =>
          <<r, d>> \in {<<"recMgr", "pathManager">>, <<"traffic", "webrtc">>}
    /\ \A d : d \in Refs("admin") => d = "api"
    /\ \A r \in Resources : "recMgr" \in Refs(r) => r = "webrtc"
    /\ \A r \in Resources : Refs(r) \subseteq FlagSet \cup {"recMgr"}
BY DEF Refs, After, FlagSet, Resources, ProtocolServers, ControlClients

(* The flags are closed under references.                                  *)
LEMMA ClosingSound ==
    ASSUME NEW old, NEW new
    PROVE  CloseSound(Closing(old, new), new)
<1>. DEFINE diff == Differing(old, new)
            F == Flagged(diff)
            T == Closing(old, new)
<1>1. Settled(F, FlagSet, diff)
  BY FlaggedSettled
<1>. HIDE DEF F
<1>2. /\ F \subseteq T /\ ControlClients \subseteq T
      /\ "webrtc" \in F => "traffic" \in T
      /\ "recMgr" \in T <=> "webrtc" \notin new \/ "pathManager" \in F \/ "recorder" \in diff
      /\ T \subseteq F \cup ControlClients \cup {"traffic", "recMgr"}
  <2>1. F \subseteq FlagSet
    BY <1>1 DEF Settled
  <2>2. T = F \cup ControlClients \cup (IF "webrtc" \in F THEN {"traffic"} ELSE {})
              \cup (IF "webrtc" \notin new \/ "pathManager" \in F \/ "recorder" \in diff THEN {"recMgr"} ELSE {})
    BY DEF Closing, F
  <2>. QED
    BY <2>1, <2>2 DEF FlagSet, ControlClients, ProtocolServers
<1>. HIDE DEF T, diff
<1>3. ASSUME NEW d \in T, NEW r \in Resources, d \in Refs(r), <<r, d>> \notin Excepted PROVE r \in T
  <2>1. d # "recMgr"
    BY <1>3, RefsFacts DEF Excepted
  <2>2. d \in F
    BY <1>1, <1>2, <1>3, <2>1, RefsFacts DEF FlagSet, ControlClients, ProtocolServers
  <2>3. CASE r \in FlagSet
    <3>1. d \in After(r)
      BY <1>3, <2>1, <2>3, RefsFacts DEF Excepted
    <3>. QED
      BY <1>1, <1>2, <2>2, <2>3, <3>1 DEF Settled
  <2>4. CASE r \notin FlagSet
    BY <1>2, <1>3, <2>2, <2>4, RefsFacts
  <2>. QED
    BY <2>3, <2>4
<1>4. "recMgr" \in T /\ "webrtc" \in new => "webrtc" \in T
  <2>1. "pathManager" \in After("webrtc") /\ "recorder" \in Own("webrtc") /\ "webrtc" \in FlagSet
    BY DEF After, Own, FlagSet, ProtocolServers
  <2>. QED
    BY <1>1, <1>2, <2>1 DEF Settled
<1>. QED
  BY <1>2, <1>3, <1>4 DEF CloseSound, T

(* What is not closed is wanted as before.                                 *)
LEMMA ClosingKeeps ==
    ASSUME NEW old \in SUBSET Settings, NEW new \in SUBSET Settings
    PROVE  /\ \A r \in Steady \ Closing(old, new) : Wanted(r, old, {}) <=> Wanted(r, new, {})
           /\ "recMgr" \notin Closing(old, new) /\ Wanted("recMgr", old, {}) => Wanted("recMgr", new, {})
           /\ ~Wanted("recMgr", old, {}) /\ Wanted("recMgr", new, {}) => "webrtc" \in Closing(old, new)
           /\ "webrtc" \in old /\ "webrtc" \notin new => "webrtc" \in Closing(old, new)
<1>. DEFINE diff == Differing(old, new)
            F == Flagged(diff)
            T == Closing(old, new)
<1>1. Settled(F, FlagSet, diff)
  BY FlaggedSettled
<1>. HIDE DEF F
<1>2. /\ F \subseteq T /\ ControlClients \subseteq T
      /\ "recMgr" \in T <=> "webrtc" \notin new \/ "pathManager" \in F \/ "recorder" \in diff
  <2>1. F \subseteq FlagSet
    BY <1>1 DEF Settled
  <2>2. T = F \cup ControlClients \cup (IF "webrtc" \in F THEN {"traffic"} ELSE {})
              \cup (IF "webrtc" \notin new \/ "pathManager" \in F \/ "recorder" \in diff THEN {"recMgr"} ELSE {})
    BY DEF Closing, F
  <2>. QED
    BY <2>1, <2>2 DEF FlagSet, ControlClients, ProtocolServers
<1>. HIDE DEF T
<1>3. \A r \in FlagSet : r \notin T => Own(r) \cap diff = {}
  BY <1>1, <1>2 DEF Settled
<1>4. \A s : s \notin diff => (s \in old <=> s \in new)
  BY DEF Differing
<1>. HIDE DEF diff
<1>5. ASSUME NEW r \in Steady, r \notin T PROVE Wanted(r, old, {}) <=> Wanted(r, new, {})
  <2>1. r \in FlagSet
    BY <1>2, <1>5 DEF Steady, FlagSet, Resources, ControlClients
  <2>2. Own(r) \cap diff = {}
    BY <1>3, <1>5, <2>1
  <2>3. CASE r \in {"metrics", "playback", "rtsp", "hls", "srt", "webrtc", "api", "admin"}
    <3>1. r \in Own(r)
      BY <2>3 DEF Own
    <3>. QED
      BY <1>4, <2>2, <2>3, <3>1, WantedFacts
  <2>4. CASE r = "cleaner"
    <3>1. "deleteAfter" \in Own(r)
      BY <2>4 DEF Own
    <3>. QED
      BY <1>4, <2>2, <2>4, <3>1, WantedFacts
  <2>5. CASE r = "degrade"
    <3>1. "webrtc" \in Own(r)
      BY <2>5 DEF Own
    <3>. QED
      BY <1>4, <2>2, <2>5, <3>1, WantedFacts
  <2>6. CASE r \in {"logger", "auth", "pathManager"}
    BY <2>6, WantedFacts
  <2>. QED
    BY <2>1, <2>3, <2>4, <2>5, <2>6 DEF FlagSet, ProtocolServers
<1>6. "webrtc" \in FlagSet /\ {"webrtc", "recorder"} \subseteq Own("webrtc")
  BY DEF Own, FlagSet, ProtocolServers
<1>7. "webrtc" \in diff \/ "recorder" \in diff => "webrtc" \in T
  BY <1>3, <1>6
<1>8. \A c : Wanted("recMgr", c, {}) <=> {"webrtc", "recorder"} \subseteq c
  BY WantedFacts
<1>9. "recMgr" \notin T /\ Wanted("recMgr", old, {}) => Wanted("recMgr", new, {})
  BY <1>2, <1>4, <1>8
<1>10. ~Wanted("recMgr", old, {}) /\ Wanted("recMgr", new, {}) => "webrtc" \in T
  BY <1>4, <1>7, <1>8
<1>11. "webrtc" \in old /\ "webrtc" \notin new => "webrtc" \in T
  BY <1>4, <1>7
<1>. QED
  BY <1>5, <1>9, <1>10, <1>11 DEF T

(* Closing S leaves no reference to it but the exceptions, if those that   *)
(* refer to S are in it.                                                   *)
LEMMA CloseReferences ==
    ASSUME TypeOK, References, NEW S, CloseAll(S),
           \A r \in live \ S : \A d \in S : d \in Refs(r) => <<r, d>> = <<"admin", "api">>
    PROVE  References'
<1>1. /\ live' = live \ S
      /\ wired' = {e \in wired : e[1] \in live' /\ e[2] \in live'}
      /\ dangling' = {e \in dangling : e[1] \in live'} \cup {e \in wired : e[1] \in live' /\ e[2] \in S}
  BY DEF CloseAll
<1>2. \A e \in wired : e \in Resources \X Resources
  BY DEF TypeOK, CoreTypeOK
<1>3. ASSUME NEW e \in wired, e[1] \in live', e[2] \in S PROVE e \in Stale
  <2>1. e = <<e[1], e[2]>>
    BY <1>2
  <2>2. CASE e[2] \in Refs(e[1])
    BY <1>1, <1>3, <2>1, <2>2 DEF Stale
  <2>3. CASE e[1] \in Setters(e[2])
    BY <2>1, <2>3 DEF Setters, Stale
  <2>. QED
    BY <2>2, <2>3 DEF References
<1>4. \A e \in wired' : e[1] \in live' /\ e[2] \in live' /\ (e[2] \in Refs(e[1]) \/ e[1] \in Setters(e[2]))
  BY <1>1 DEF References
<1>5. \A e \in dangling' : e[1] \in live' /\ e \in Stale
  BY <1>1, <1>3 DEF References
<1>6. ASSUME NEW r \in live', NEW d \in Refs(r) \cap live'
      PROVE  <<r, d>> \in wired' \/ <<r, d>> = <<"admin", "api">>
  BY <1>1 DEF References
<1>. QED
  BY <1>4, <1>5, <1>6 DEF References

(* What is created is given its references, and those that were there      *)
(* before it do not refer to it.                                           *)
LEMMA CreateReferences ==
    ASSUME TypeOK, References, NEW S, NEW c, S \subseteq Resources, CreateAll(S, c),
           \A r \in live : \A d \in live' \ live : d \in Refs(r) => <<r, d>> = <<"admin", "api">>
    PROVE  References'
<1>. DEFINE new == {r \in S : r \notin live /\ Wanted(r, c, live)}
            there == live \cup new
            given == {e \in new \X there : e[2] \in Refs(e[1])}
            set == {e \in there \X new : e[1] \in Setters(e[2])}
<1>1. live' = there /\ wired' = wired \cup given \cup set /\ dangling' = {e \in dangling : e \notin set}
  BY DEF CreateAll
<1>2. new = live' \ live
  BY <1>1
<1>3. \A e \in given : e[1] \in there /\ e[2] \in there /\ e[2] \in Refs(e[1])
  OBVIOUS
<1>4. \A e \in set : e[1] \in there /\ e[2] \in there /\ e[1] \in Setters(e[2])
  OBVIOUS
<1>5. \A r \in new, d \in there : d \in Refs(r) => <<r, d>> \in given
  OBVIOUS
<1>. HIDE DEF given, set, new
<1>6. \A e \in wired' : e[1] \in live' /\ e[2] \in live' /\ (e[2] \in Refs(e[1]) \/ e[1] \in Setters(e[2]))
  BY <1>1, <1>3, <1>4 DEF References
<1>7. \A e \in dangling' : e[1] \in live' /\ e \in Stale
  BY <1>1 DEF References
<1>8. ASSUME NEW r \in live', NEW d \in Refs(r) \cap live'
      PROVE  <<r, d>> \in wired' \/ <<r, d>> = <<"admin", "api">>
  <2>1. CASE r \in new
    BY <1>1, <1>5, <2>1
  <2>2. CASE r \in live /\ d \in live
    BY <1>1, <2>2 DEF References
  <2>3. CASE r \in live /\ d \in new
    BY <1>2, <2>3
  <2>. QED
    BY <1>1, <2>1, <2>2, <2>3
<1>. QED
  BY <1>6, <1>7, <1>8 DEF References

(* A stage that closes leaves what was wanted and is not closed yet.       *)
LEMMA ClosingStage ==
    ASSUME TypeOK, Wiring, ~Shutdown, NEW S, CloseAll(S), S \subseteq toClose,
           pc \in {"api", "servers", "clients"}, pc' \in {"servers", "clients", "rest"},
           UNCHANGED <<conf, next, toClose>>, Gone' = Gone \cup S,
           "recMgr" \in S => "webrtc" \notin live \ S,
           \A d \in S : \A r \in toClose : d \in Refs(r) => r \in S \cup Gone \cup {"admin"}
    PROVE  Wiring'
<1>1. live' = live \ S
  BY DEF CloseAll
<1>2. CloseSound(toClose, next)
  BY ClosingSound DEF Wiring, WhileClosing
<1>3. WhileClosing'
  BY <1>1 DEF Wiring, WhileClosing
<1>4. ASSUME NEW r \in live \ S, NEW d \in S, d \in Refs(r) PROVE <<r, d>> = <<"admin", "api">>
  <2>1. r \in Resources /\ live \cap Gone = {}
    BY DEF TypeOK, CoreTypeOK, Wiring, WhileClosing
  <2>2. CASE r = "admin"
    BY <1>4, <2>2, RefsFacts
  <2>3. CASE <<r, d>> = <<"webrtc", "recMgr">>
    BY <1>4, <2>3
  <2>4. CASE r # "admin" /\ <<r, d>> \notin Excepted
    BY <1>2, <1>4, <2>1, <2>4 DEF CloseSound
  <2>. QED
    BY <2>2, <2>3, <2>4 DEF Excepted
<1>5. References'
  BY <1>4, CloseReferences DEF Wiring
<1>. QED
  BY <1>3, <1>5 DEF Wiring, WhileCreating, WhitelistIsNew

(* What is wanted of the resources that come and go with the configuration *)
(* does not depend on what is there.                                       *)
LEMMA WantedSteady ==
    ASSUME NEW r \in Steady, NEW c, NEW there
    PROVE  Wanted(r, c, there) <=> Wanted(r, c, {})
<1>1. r \in {"metrics", "playback", "rtsp", "hls", "srt", "webrtc", "api", "admin", "cleaner", "degrade", "mmxControl",
             "healthLog", "whitelist", "logger", "auth", "pathManager"}
  BY DEF Steady, Resources, ProtocolServers, ControlClients
<1>. QED
  BY <1>1, WantedFacts

(* Nobody is given one of the control clients or the traffic reports at    *)
(* its creation; only the API refers to srt and only the admin server to   *)
(* the API.                                                                *)
LEMMA FrontRefs ==
    /\ \A r \in Resources : Refs(r) \cap (Clients \cup {"admin"}) = {}
    /\ \A r \in Resources : "srt" \in Refs(r) => r = "api"
    /\ \A r \in Resources : "api" \in Refs(r) => r = "admin"
    /\ \A r \in Resources : "webrtc" \in Refs(r) => r \in {"api", "traffic"}
BY DEF Refs, Resources, Clients, ControlClients, ProtocolServers

(* The stages of closeResources keep the resources wired.                  *)
LEMMA CloseWiring ==
    ASSUME TypeOK, Wiring, ~Shutdown, CloseApi \/ CloseServers \/ CloseClients \/ CloseRest
    PROVE  Wiring'
<1>1. UNCHANGED <<next, toClose>> /\ pc \in {"api", "servers", "clients", "rest"}
  BY DEF CloseApi, CloseServers, CloseClients, CloseRest, Stage
<1>2. toClose = Closing(conf, next) /\ live \cap Gone = {} /\ toClose \subseteq Resources
  BY <1>1 DEF Wiring, WhileClosing, TypeOK, CoreTypeOK
<1>3. CloseSound(toClose, next)
  BY <1>2, ClosingSound
<1>4. conf \in SUBSET Settings /\ next \in SUBSET Settings
  BY DEF TypeOK, CoreTypeOK
<1>5. CASE CloseApi
  <2>. DEFINE S == toClose \cap {"admin", "api"}
  <2>1. CloseAll(S) /\ pc = "api" /\ pc' = "servers" /\ conf' = conf
    BY <1>5 DEF CloseApi, Stage
  <2>2. Gone' = Gone \cup S
    BY <1>1, <2>1 DEF Gone
  <2>3. \A d \in S : \A r \in toClose : d \in Refs(r) => r \in S \cup Gone \cup {"admin"}
    BY <1>2, FrontRefs
  <2>. HIDE DEF S
  <2>4. S \subseteq toClose /\ "recMgr" \notin S
    BY DEF S
  <2>. QED
    BY <1>1, <2>1, <2>2, <2>3, <2>4, ClosingStage
<1>6. CASE CloseServers
  <2>. DEFINE S == toClose \cap {"srt", "webrtc", "traffic", "recMgr", "recordDeletion"}
  <2>1. CloseAll(S) /\ pc = "servers" /\ pc' = "clients" /\ conf' = conf
    BY <1>6 DEF CloseServers, Stage
  <2>2. Gone = toClose \cap {"admin", "api"} /\ Gone' = Gone \cup S
    BY <1>1, <2>1 DEF Gone
  <2>3. ASSUME NEW d \in S, NEW r \in toClose, d \in Refs(r) PROVE r \in S \cup Gone
    <3>1. r \in {"api", "traffic", "webrtc"}
      BY <1>2, <2>3, FrontRefs, RefsFacts DEF Clients, ControlClients
    <3>. QED
      BY <2>2, <2>3, <3>1
  <2>4. "recMgr" \in S => "webrtc" \notin live \ S
    <3>1. "webrtc" \in live => "webrtc" \in conf
      BY <2>1, WantedFacts DEF Wiring, WhileClosing, Steady, Resources, ProtocolServers
    <3>2. "webrtc" \in conf /\ "webrtc" \notin next => "webrtc" \in toClose
      BY <1>2, <1>4, ClosingKeeps
    <3>. QED
      BY <1>3, <3>1, <3>2 DEF CloseSound
  <2>. HIDE DEF S
  <2>5. S \subseteq toClose
    BY DEF S
  <2>. QED
    BY <1>1, <2>1, <2>2, <2>3, <2>4, <2>5, ClosingStage
<1>7. CASE CloseClients
  <2>1. CloseAll(ControlClients) /\ pc = "clients" /\ pc' = "rest" /\ conf' = conf
    BY <1>7 DEF CloseClients, Stage
  <2>2. Gone' = Gone \cup ControlClients
    BY <1>1, <2>1 DEF Gone
  <2>3. ControlClients \subseteq toClose /\ "recMgr" \notin ControlClients
    BY <1>3 DEF CloseSound, ControlClients
  <2>4. \A d \in ControlClients : \A r \in toClose : d \notin Refs(r)
    BY <1>2, FrontRefs DEF Clients
  <2>. QED
    BY <1>1, <2>1, <2>2, <2>3, <2>4, ClosingStage
<1>8. CASE CloseRest
  <2>. DEFINE S == toClose \ {"api", "admin", "srt", "webrtc", "traffic", "recMgr"}
  <2>1. CloseAll(S) /\ pc = "rest" /\ pc' = "create" /\ conf' = next
    BY <1>8 DEF CloseRest, Stage
  <2>2. Gone = ControlClients
               \cup (toClose \cap {"admin", "api", "srt", "webrtc", "traffic", "recMgr", "recordDeletion"})
    BY <2>1 DEF Gone
  <2>3. live' = live \ S /\ live' \cap toClose = {}
    BY <1>2, <2>1, <2>2 DEF CloseAll
  <2>4. ASSUME NEW r \in live \ S, NEW d \in S, d \in Refs(r) PROVE FALSE
    <3>1. r \in Resources /\ <<r, d>> \notin Excepted
      BY DEF TypeOK, CoreTypeOK, Excepted
    <3>2. r \in toClose
      BY <1>3, <2>4, <3>1 DEF CloseSound
    <3>. QED
      BY <2>3, <3>2
  <2>5. References'
    BY <2>1, <2>4, CloseReferences DEF Wiring
  <2>6. Made' = {}
    BY <2>1 DEF Made
  <2>7. ASSUME NEW r \in Steady PROVE r \in live' <=> Wanted(r, next, {}) /\ r \notin toClose
    <3>1. r \in live <=> Wanted(r, conf, {}) /\ r \notin Gone
      BY <2>1 DEF Wiring, WhileClosing
    <3>2. Gone \subseteq toClose
      BY <1>3, <2>2 DEF CloseSound
    <3>3. CASE r \in toClose
      BY <2>3, <3>3
    <3>4. CASE r \notin toClose
      <4>1. Wanted(r, conf, {}) <=> Wanted(r, next, {})
        BY <1>2, <1>4, <3>4, ClosingKeeps
      <4>. QED
        BY <2>3, <3>1, <3>2, <3>4, <4>1
    <3>. QED
      BY <3>3, <3>4
  <2>8. /\ "recMgr" \in live' => Wanted("recMgr", next, {})
        /\ "recMgr" \notin live' /\ Wanted("recMgr", next, {}) => "webrtc" \notin live'
    <3>1. "recMgr" \in live <=> Wanted("recMgr", conf, {}) /\ "recMgr" \notin Gone
      BY <2>1 DEF Wiring, WhileClosing
    <3>2. "recMgr" \in live' <=> "recMgr" \in live
      BY <2>3
    <3>3. "recMgr" \in Gone => "recMgr" \in toClose
      BY <2>2 DEF ControlClients
    <3>4. "recMgr" \in live' => "recMgr" \notin toClose
      BY <2>3
    <3>5. Wanted("recMgr", next, {}) => "webrtc" \in next
      BY WantedFacts
    <3>6. "recMgr" \in toClose /\ "webrtc" \in next => "webrtc" \in toClose
      BY <1>3 DEF CloseSound
    <3>7. "webrtc" \in toClose => "webrtc" \notin live'
      BY <2>3
    <3>. QED
      BY <1>2, <1>4, <3>1, <3>2, <3>3, <3>4, <3>5, <3>6, <3>7, ClosingKeeps
  <2>9. WhileCreating'
    BY <1>1, <1>3, <2>1, <2>3, <2>6, <2>7, <2>8 DEF WhileCreating
  <2>. QED
    BY <2>1, <2>5, <2>9 DEF Wiring, WhileClosing, WhitelistIsNew
<1>. QED
  BY <1>5, <1>6, <1>7, <1>8

(* The stages of createResources do.                                       *)
LEMMA CreateWiring ==
    ASSUME TypeOK, Wiring, ~Shutdown, CreateBase \/ CreateClients \/ CreateFront
    PROVE  Wiring'
<1>1. UNCHANGED <<next, toClose, conf>> /\ pc \in {"create", "createClients", "createFront"}
  BY DEF CreateBase, CreateClients, CreateFront, Stage
<1>2. WhileCreating /\ References /\ CloseSound(toClose, conf) /\ live \subseteq Resources
  BY <1>1 DEF Wiring, WhileCreating, TypeOK, CoreTypeOK
<1>3. \A r \in Steady : r \in live <=> Wanted(r, conf, {}) /\ (r \in toClose => r \in Made)
  BY <1>1, <1>2 DEF WhileCreating
<1>4. \A r \in live \cap toClose : r \in Made
  BY <1>1, <1>2 DEF WhileCreating
(* What a stage creates of the steady resources.                           *)
<1>5. ASSUME NEW S, live' = live \cup {r \in S : r \notin live /\ Wanted(r, conf, live)}
      PROVE  /\ \A r \in Steady : r \in live' <=> Wanted(r, conf, {}) /\ (r \in toClose => r \in Made \cup S)
             /\ \A r \in live' \cap toClose : r \in Made \cup S
             /\ \A r \in Steady : r \in live' \ live => r \in toClose \ Made
  <2>1. \A r \in Steady : Wanted(r, conf, live) <=> Wanted(r, conf, {})
    BY WantedSteady
  <2>. QED
    BY <1>3, <1>4, <1>5, <2>1
<1>6. CASE CreateBase
  <2>1. CreateAll(Base, conf) /\ pc = "create" /\ pc' = "createClients"
    BY <1>6 DEF CreateBase, Stage
  <2>2. live' = live \cup {r \in Base : r \notin live /\ Wanted(r, conf, live)}
    BY <2>1 DEF CreateAll
  <2>3. Made = {} /\ Made' = Base
    BY <2>1 DEF Made
  <2>4. ASSUME NEW r \in live, NEW d \in live' \ live, d \in Refs(r) PROVE <<r, d>> = <<"admin", "api">>
    <3>1. d \in Base /\ Wanted(d, conf, live)
      BY <2>2, <2>4
    <3>2. CASE d = "recMgr"
      <4>1. r = "webrtc" /\ "webrtc" \notin live
        BY <1>2, <2>4, <3>1, <3>2, RefsFacts, WantedFacts
      <4>. QED
        BY <4>1
    <3>3. CASE d # "recMgr"
      <4>1. d \in Steady
        BY <3>1, <3>3 DEF Base, Steady, Resources, ProtocolServers
      <4>2. d \in toClose
        BY <1>5, <2>2, <2>4, <4>1
      <4>3. r \notin toClose
        BY <1>4, <2>3
      <4>. QED
        BY <1>2, <2>4, <3>3, <4>2, <4>3 DEF CloseSound, Excepted
    <3>. QED
      BY <3>2, <3>3
  <2>5. References'
    BY <1>2, <2>1, <2>4, BatchTypes, CreateReferences
  <2>6. "recMgr" \in live' <=> Wanted("recMgr", conf, {})
    <3>1. "recMgr" \in Base
      BY DEF Base
    <3>2. /\ "recMgr" \in live => Wanted("recMgr", conf, {})
          /\ "recMgr" \notin live /\ Wanted("recMgr", conf, {}) => "webrtc" \notin live
      BY <1>2, <2>1 DEF WhileCreating
    <3>3. Wanted("recMgr", conf, live) <=> Wanted("recMgr", conf, {}) /\ "webrtc" \notin live
      BY WantedFacts
    <3>. QED
      BY <2>2, <3>1, <3>2, <3>3
  <2>7. /\ \A r \in Steady : r \in live' <=> Wanted(r, conf, {}) /\ (r \in toClose => r \in Made')
        /\ \A r \in live' \cap toClose : r \in Made'
    BY <1>5, <2>2, <2>3
  <2>8. WhileCreating'
    BY <1>1, <1>2, <2>1, <2>6, <2>7 DEF WhileCreating
  <2>. QED
    BY <2>1, <2>5, <2>8 DEF Wiring, WhileClosing, WhitelistIsNew
<1>7. CASE CreateClients
  <2>1. CreateAll(Clients, conf) /\ pc = "createClients" /\ pc' = "createFront"
    BY <1>7 DEF CreateClients, Stage
  <2>2. live' = live \cup {r \in Clients : r \notin live /\ Wanted(r, conf, live)}
    BY <2>1 DEF CreateAll
  <2>3. Made = Base /\ Made' = Made \cup Clients
    BY <2>1 DEF Made
  <2>4. \A r \in live : \A d \in live' \ live : d \notin Refs(r)
    BY <1>2, <2>2, FrontRefs
  <2>5. References'
    BY <1>2, <2>1, <2>4, BatchTypes, CreateReferences
  <2>6. "recMgr" \in live' <=> Wanted("recMgr", conf, {})
    BY <1>2, <2>1, <2>2 DEF WhileCreating, Clients, ControlClients
  <2>7. /\ \A r \in Steady : r \in live' <=> Wanted(r, conf, {}) /\ (r \in toClose => r \in Made')
        /\ \A r \in live' \cap toClose : r \in Made'
    BY <1>5, <2>2, <2>3
  <2>8. WhileCreating'
    BY <1>1, <1>2, <2>1, <2>6, <2>7 DEF WhileCreating
  <2>9. ASSUME "control" \in conf, NEW e \in dangling', e[2] = "whitelist" PROVE FALSE
    <3>1. "whitelist" \in Steady /\ "whitelist" \in toClose /\ "whitelist" \notin Made /\ "whitelist" \in Clients
      BY <1>2, <2>3 DEF Steady, Resources, ControlClients, CloseSound, Base, Clients
    <3>2. "whitelist" \notin live /\ Wanted("whitelist", conf, live)
      BY <1>3, <2>9, <3>1, WantedFacts
    <3>3. "whitelist" \in live' \ live
      BY <2>2, <3>1, <3>2
    <3>4. e \in dangling /\ e[1] \in live /\ e \in Stale
      BY <1>2, <2>1, <2>9 DEF CreateAll, References
    <3>5. e \in {"pathManager", "recMgr"} \X {"whitelist"}
      BY <2>9, <3>4 DEF Stale
    <3>6. e[1] \in Setters(e[2])
      BY <3>5 DEF Setters
    <3>7. e \in {x \in live' \X (live' \ live) : x[1] \in Setters(x[2])}
      BY <2>2, <2>9, <3>3, <3>4, <3>5, <3>6
    <3>8. dangling' = {x \in dangling : x \notin {y \in live' \X (live' \ live) : y[1] \in Setters(y[2])}}
      <4>1. {r \in Clients : r \notin live /\ Wanted(r, conf, live)} = live' \ live
        BY <2>2
      <4>. QED
        BY <2>1, <2>2, <4>1 DEF CreateAll
    <3>. QED
      BY <2>9, <3>7, <3>8
  <2>10. WhitelistIsNew'
    BY <1>1, <2>9 DEF WhitelistIsNew
  <2>. QED
    BY <2>1, <2>5, <2>8, <2>10 DEF Wiring, WhileClosing
<1>8. CASE CreateFront
  <2>1. CreateAll(Front, conf) /\ pc = "createFront" /\ pc' = "select"
    BY <1>8 DEF CreateFront, Stage
  <2>2. live' = live \cup {r \in Front : r \notin live /\ Wanted(r, conf, live)} /\ dangling' \subseteq dangling
    BY <2>1 DEF CreateAll
  <2>3. Made = Base \cup Clients /\ Gone' = {}
    BY <2>1 DEF Made, Gone
  <2>4. ASSUME NEW r \in live, NEW d \in live' \ live, d \in Refs(r) PROVE <<r, d>> = <<"admin", "api">>
    <3>1. d \in Front /\ d \in Steady
      BY <2>2, <2>4 DEF Front, Steady, Resources, ProtocolServers
    <3>2. d \in toClose
      BY <1>5, <2>2, <2>4, <3>1
    <3>3. CASE d = "srt"
      <4>1. r = "api"
        BY <1>2, <2>4, <3>3, FrontRefs
      <4>2. r \in toClose
        BY <1>2, <2>4, <3>2, <3>3, <4>1 DEF CloseSound, Excepted
      <4>. QED
        BY <1>4, <2>3, <4>1, <4>2 DEF Base, Clients, ControlClients
    <3>4. CASE d \in {"api", "admin"}
      BY <1>2, <2>4, <3>4, FrontRefs
    <3>. QED
      BY <3>1, <3>3, <3>4 DEF Front
  <2>5. References'
    BY <1>2, <2>1, <2>4, BatchTypes, CreateReferences
  <2>6. "recMgr" \in live' <=> Wanted("recMgr", conf, {})
    BY <1>2, <2>1, <2>2 DEF WhileCreating, Front
  <2>7. Steady \subseteq Base \cup Clients \cup Front
    BY DEF Steady, Resources, Base, Clients, Front, ProtocolServers, ControlClients
  <2>8. \A r \in Steady : r \in live' <=> Wanted(r, conf, {})
    BY <1>5, <2>2, <2>3, <2>7
  <2>9. WhileClosing'
    BY <1>1, <2>1, <2>3, <2>6, <2>8 DEF WhileClosing
  <2>10. WhitelistIsNew'
    BY <1>1, <2>1, <2>2 DEF Wiring, WhitelistIsNew
  <2>. QED
    BY <2>1, <2>5, <2>9, <2>10 DEF Wiring, WhileCreating
<1>. QED
  BY <1>6, <1>7, <1>8

(* Every step keeps the resources wired.                                   *)
LEMMA WiringStep ==
    ASSUME TypeOK, EndsOnly, Wiring, [Next]_nodeVars
    PROVE  Wiring'
<1>1. CASE UNCHANGED <<resourceVars, reloadVars>>
  <2>1. Shutdown' = Shutdown /\ Gone' = Gone /\ Made' = Made
    BY <1>1 DEF reloadVars, Shutdown, Gone, Made
  <2>2. WhileClosing => WhileClosing'
    BY <1>1, <2>1 DEF resourceVars, reloadVars, WhileClosing
  <2>3. WhileCreating => WhileCreating'
    BY <1>1, <2>1 DEF resourceVars, reloadVars, WhileCreating
  <2>4. References => References'
    BY <1>1 DEF resourceVars, References
  <2>5. WhitelistIsNew => WhitelistIsNew'
    BY <1>1 DEF resourceVars, reloadVars, WhitelistIsNew
  <2>. QED
    BY <2>1, <2>2, <2>3, <2>4, <2>5 DEF Wiring
<1>2. CASE Shutdown'
  BY <1>2 DEF Wiring
<1>3. ASSUME NEW c, NEW api, Reload(c, api), UNCHANGED resourceVars PROVE Wiring'
  <2>1. CASE c = {}
    BY <1>2, <1>3, <2>1 DEF Reload, Shutdown
  <2>2. CASE c # {}
    <3>1. /\ pc = "select" /\ pc' = "api" /\ next' = c /\ toClose' = Closing(conf, c)
          /\ UNCHANGED <<conf, live, wired, dangling>>
      BY <1>3, <2>2 DEF Reload, resourceVars
    <3>2. Gone = {} /\ Gone' = {}
      BY <3>1 DEF Gone
    <3>3. WhileClosing /\ References
      BY <3>1 DEF EndsOnly, Wiring
    <3>4. WhileClosing'
      BY <3>1, <3>2, <3>3 DEF WhileClosing
    <3>5. References'
      BY <3>1, <3>3 DEF References
    <3>. QED
      BY <3>1, <3>4, <3>5 DEF Wiring, WhileCreating, WhitelistIsNew
  <2>. QED
    BY <2>1, <2>2
<1>4. CASE CloseApi \/ CloseServers \/ CloseClients \/ CloseRest
  <2>1. Shutdown' = Shutdown
    BY <1>4 DEF CloseApi, CloseServers, CloseClients, CloseRest, Stage, Shutdown
  <2>. QED
    BY <1>2, <1>4, <2>1, CloseWiring
<1>5. CASE CreateBase \/ CreateClients \/ CreateFront
  <2>1. Shutdown' = Shutdown
    BY <1>5 DEF CreateBase, CreateClients, CreateFront, Stage, Shutdown
  <2>. QED
    BY <1>2, <1>5, <2>1, CreateWiring
<1>6. CASE CreateFails
  BY <1>2, <1>6 DEF CreateFails, Shutdown
<1>7. CASE ReloadSteps
  BY <1>4, <1>5, <1>6, <1>7 DEF ReloadSteps, NodeCloseServers, NodeCloseClients, NodeCreateClients
<1>8. CASE ConfigSteps
  <2>1. CASE FileChanged
    BY <1>3, <2>1 DEF FileChanged
  <2>2. CASE Interrupted
    BY <1>3, <2>2 DEF Interrupted
  <2>3. ASSUME NEW q \in Requests, ApiConfigSet(q) PROVE Wiring'
    BY <1>3, <2>3 DEF ApiConfigSet
  <2>4. ASSUME NEW q \in Requests, RequestGivesUp(q) \/ \E old \in BOOLEAN : ConfigRequest(q, old) PROVE Wiring'
    BY <1>1, <2>4 DEF RequestGivesUp, ConfigRequest
  <2>. QED
    BY <1>8, <2>1, <2>2, <2>3, <2>4 DEF ConfigSteps
<1>9. CASE ClientSteps \/ SessionSteps \/ UNCHANGED nodeVars
  BY <1>1, <1>9, CoreStays DEF coreVars
<1>. QED
  BY <1>7, <1>8, <1>9 DEF Next

(* Between reloads this is what Wired says.                                *)
LEMMA WiringIsWired ==
    ASSUME TypeOK, EndsOnly, Wiring
    PROVE  Wired
<1>. SUFFICES ASSUME pc = "select"
     PROVE /\ \A r \in live : \A d \in Refs(r) \cap live : Holds(r, d) \/ <<r, d>> \in Outdated
           /\ dangling \subseteq Outdated
           /\ \A r \in Resources \ {"traffic", "recMgr", "recordDeletion"} : r \in live <=> Wanted(r, conf, live)
           /\ "recMgr" \in live <=> {"webrtc", "recorder"} \subseteq conf
  BY DEF Wired
<1>1. WhileClosing /\ References /\ WhitelistIsNew /\ Gone = {}
  BY DEF EndsOnly, Wiring, Gone
<1>2. \A r \in live : \A d \in Refs(r) \cap live : Holds(r, d) \/ <<r, d>> \in Outdated
  BY <1>1 DEF References, Holds, Outdated
<1>3. dangling \subseteq Outdated
  <2>1. ASSUME NEW e \in dangling PROVE e \in Outdated
    <3>1. e \in Stale /\ ("control" \in conf => e[2] # "whitelist")
      BY <1>1 DEF References, WhitelistIsNew
    <3>. QED
      BY <3>1 DEF Stale, Outdated
  <2>. QED
    BY <2>1
<1>4. \A r \in Steady : r \in live <=> Wanted(r, conf, live)
  BY <1>1, WantedSteady DEF WhileClosing
<1>5. "recMgr" \in live <=> {"webrtc", "recorder"} \subseteq conf
  BY <1>1, WantedFacts DEF WhileClosing
<1>. QED
  BY <1>2, <1>3, <1>4, <1>5 DEF Steady

-----------------------------------------------------------------------------
(***************************************************************************)
(* The invariant, and what it says of the node.                            *)
(***************************************************************************)
Inv == TypeOK /\ EndsOnly /\ Applied /\ Recording /\ Guarding /\ Wiring

(* The node starts with everything that its configuration asks for.        *)
LEMMA InitInv == ASSUME Init PROVE Inv
<1>1. PICK s \in Scenarios :
        LET recording == {"webrtc", "recorder"} \subseteq s.conf
            there == {r \in Resources :
                        IF r = "recMgr" THEN recording
                        ELSE Wanted(r, s.conf, IF recording THEN {"recMgr"} ELSE {})}
        IN /\ conf = s.conf
           /\ live = there
           /\ wired = {e \in there \X there : e[2] \in Refs(e[1]) \/ e[1] \in Setters(e[2])}
           /\ dangling = {}
           /\ apiListens = ({"api", "admin"} \cap s.conf = {"api"})
           /\ pc = "select" /\ next = s.conf /\ byApi = FALSE /\ toClose = {}
           /\ request = [q \in Requests |-> "none"]
           /\ asked = [q \in Requests |-> {}]
           /\ onOld = [q \in Requests |-> FALSE]
           /\ apiConf = [current |-> s.conf, old |-> {}]
           /\ editable = s.editable /\ edits = s.edits
           /\ overtaken = FALSE
  BY DEF Init, CoreInit
<1>. DEFINE given == IF {"webrtc", "recorder"} \subseteq s.conf THEN {"recMgr"} ELSE {}
<1>2. /\ conf \subseteq Settings /\ conf # {} /\ editable \subseteq Settings /\ edits \in Nat
      /\ next = conf /\ pc = "select" /\ Pending = {} /\ Gone = {}
  BY <1>1, CoreAssumption DEF Pending, Gone
<1>3. live \subseteq Resources /\ ("recMgr" \in live <=> {"webrtc", "recorder"} \subseteq conf)
  BY <1>1 DEF Resources
<1>4. \A r \in Steady : r \in live <=> Wanted(r, conf, {})
  <2>1. ASSUME NEW r \in Steady PROVE r \in live <=> Wanted(r, conf, given)
    BY <1>1, <2>1 DEF Steady
  <2>. QED
    BY <2>1, WantedSteady
<1>5. wired = {e \in live \X live : e[2] \in Refs(e[1]) \/ e[1] \in Setters(e[2])} /\ dangling = {}
  BY <1>1
<1>6. CoreTypeOK
  BY <1>1, <1>2, <1>3, <1>5 DEF CoreTypeOK
<1>7. ControlTypeOK
  <2>1. 0 \in 0..(FallbackCycles - 1) /\ 0 \in 0..MaxVerdicts /\ MaxVerdicts \in 0..MaxVerdicts
    BY ControlAssumption
  <2>2. /\ client = (IF "mmxControl" \in live THEN "dialing" ELSE "off")
        /\ hinted = FALSE /\ cycles = 0 /\ reader = "none" /\ late = FALSE
        /\ eligible = TRUE /\ verdicts = (IF "control" \in conf THEN MaxVerdicts ELSE 0)
        /\ known = "unset" /\ oldKnown = "unset" /\ fetched = "none"
        /\ session = "none" /\ unguarded = FALSE
    BY DEF Init, ControlInit
  <2>. QED
    BY <2>1, <2>2 DEF ControlTypeOK
<1>8. EndsOnly /\ Applied /\ Guarding
  BY <1>2 DEF EndsOnly, Applied, Shutdown, Guarding, SessionHasServer, RevokedIsCut, Init, ControlInit
<1>9. Recording
  BY <1>1, <1>2 DEF Recording, Recorded
<1>10. WhileClosing
  BY <1>2, <1>3, <1>4, WantedFacts DEF WhileClosing
<1>11. References
  BY <1>5 DEF References
<1>12. Wiring
  BY <1>2, <1>5, <1>10, <1>11 DEF Wiring, WhileCreating, WhitelistIsNew
<1>. QED
  BY <1>6, <1>7, <1>8, <1>9, <1>12 DEF Inv, TypeOK

(* Every step keeps it.                                                    *)
LEMMA NextInv == ASSUME Inv, [Next]_nodeVars PROVE Inv'
BY TypeStep, StagesStep, RecordingStep, GuardingStep, WiringStep DEF Inv

(* The invariant holds in every state of the node: whatever configurations *)
(* the file and the API send, in whatever stage of a reload a request, the *)
(* control center or a session comes.                                      *)
THEOREM Invariance == Spec => []Inv
BY InitInv, NextInv, PTL DEF Spec

(* Core.run, the requests, the control client and the whitelist keep their *)
(* variables in their types.                                               *)
THEOREM TypeCorrect == Spec => []TypeOK
<1>1. Inv => TypeOK
  BY DEF Inv
<1>. QED
  BY <1>1, Invariance, PTL

(* closeResources and createResources leave the resources fit together,    *)
(* for every configuration and every one that comes after it: the flags    *)
(* are closed under the references, and what they leave is still wanted.   *)
THEOREM WiredHolds == Spec => []Wired
<1>1. Inv => Wired
  BY WiringIsWired DEF Inv
<1>. QED
  BY <1>1, Invariance, PTL

(* Between reloads the API answers with the configuration in force,        *)
(* however many requests there are, with and without its mutex, unless one *)
(* overtook another.                                                       *)
THEOREM ConfAgreesHolds == Spec => []ConfAgrees
<1>1. Inv => ConfAgrees
  BY RecordingIsConfAgrees DEF Inv
<1>. QED
  BY <1>1, Invariance, PTL

(* No session that a whitelist has checked goes on when the whitelist does *)
(* not list its application any more, also across reloads.                 *)
THEOREM RevokedIsCutHolds == Spec => []RevokedIsCut
<1>1. Inv => RevokedIsCut
  BY DEF Inv, Guarding
<1>. QED
  BY <1>1, Invariance, PTL
=============================================================================
