-------------------------------- MODULE Node --------------------------------
(***************************************************************************)
(* A node: the core and its reloads (Core) composed with the control       *)
(* client, the publish whitelist and a session (Control), which the core   *)
(* closes and creates while they run.                                      *)
(***************************************************************************)
EXTENDS Control

nodeVars == <<coreVars, controlVars>>

Init == CoreInit /\ ControlInit

TypeOK == CoreTypeOK /\ ControlTypeOK

-----------------------------------------------------------------------------
(* Closing the WebRTC server ends its sessions.                            *)
NodeCloseServers ==
    /\ CloseServers
    /\ session' = IF "webrtc" \in toClose THEN "none" ELSE session
    /\ UNCHANGED <<clientVars, listVars, unguarded>>

(* mmxControl.Close waits for run() to return, whitelist.stop for the      *)
(* refresh it is in.  The path manager keeps the whitelist it was given.   *)
NodeCloseClients ==
    /\ client = "off" /\ fetched = "none"
    /\ CloseClients
    /\ oldKnown' = IF Holds("pathManager", "whitelist") THEN known ELSE oldKnown
    /\ known' = "unset"
    /\ UNCHANGED <<clientVars, eligible, verdicts, fetched, session, unguarded>>

(* The client's goroutine is started; the whitelist's first refresh is     *)
(* made on the spot, before the path manager is given it.                  *)
NodeCreateClients ==
    /\ CreateClients
    /\ client' = IF "mmxControl" \in live' THEN "dialing" ELSE "off"
    /\ known' \in IF "whitelist" \in live' THEN {"unset", ListOf(eligible)} ELSE {"unset"}
    /\ unguarded' = (unguarded \/ session # "none")
    /\ UNCHANGED <<hinted, cycles, reader, late, eligible, verdicts, oldKnown, fetched, session>>

ReloadSteps ==
    \/ /\ CloseApi \/ CloseRest \/ CreateBase \/ CreateFront \/ CreateFails
       /\ UNCHANGED controlVars
    \/ NodeCloseServers
    \/ NodeCloseClients
    \/ NodeCreateClients

ConfigSteps ==
    /\ \/ FileChanged \/ Interrupted
       \/ \E q \in Requests : ApiConfigSet(q) \/ RequestGivesUp(q)
       \/ \E q \in Requests, old \in BOOLEAN : ConfigRequest(q, old)
    /\ UNCHANGED controlVars

ClientSteps ==
    \/ Dial \/ Registered \/ ConnectionLost \/ CommandPushed \/ CommandExecuted
    \/ StartFallback \/ FallbackCycle \/ CommandPolled \/ PolledExecuted \/ FallbackFails
    \/ BackoffEnds \/ ClientEnds

SessionSteps ==
    \/ EligibilityChanges \/ RefreshFetches \/ RefreshApplied
    \/ SessionArrives \/ SessionChecked \/ SessionLeaves

Next == ReloadSteps \/ ConfigSteps \/ ClientSteps \/ SessionSteps

(* The main goroutine and the goroutines of the client and of the          *)
(* whitelist run; a request that the core has told to give up does.        *)
Fairness ==
    /\ WF_nodeVars(ReloadSteps)
    /\ WF_nodeVars(ClientEnds) /\ WF_nodeVars(StartFallback) /\ WF_nodeVars(PolledExecuted)
    /\ WF_nodeVars(BackoffEnds) /\ WF_nodeVars(FallbackCycle \/ FallbackFails)
    /\ WF_nodeVars(RefreshApplied)
    /\ \A q \in Requests : WF_nodeVars(RequestGivesUp(q) /\ UNCHANGED controlVars)

Spec == Init /\ [][Next]_nodeVars /\ Fairness

-----------------------------------------------------------------------------
(* The admin server is given the API's router only when it is created, and *)
(* the path manager and the recording manager keep a whitelist that was    *)
(* stopped when the control center is switched off.                        *)
Outdated ==
    {<<"admin", "api">>} \cup
    (IF "control" \in conf THEN {} ELSE {"pathManager", "recMgr"} \X {"whitelist"})

(* After a reload each resource that runs works with the resources that    *)
(* run: closeResources closes whatever holds a reference to one that it    *)
(* closes, and createResources makes what the configuration asks for.      *)
(* Known exceptions: Outdated; the traffic reports, which go on when the   *)
(* control center is switched off.                                         *)
Wired ==
    pc = "select" =>
        /\ \A r \in live : \A d \in Refs(r) \cap live : Holds(r, d) \/ <<r, d>> \in Outdated
        /\ dangling \subseteq Outdated
        /\ \A r \in Resources \ {"traffic", "recMgr", "recordDeletion"} :
             r \in live <=> Wanted(r, conf, live)
        /\ "recMgr" \in live <=> {"webrtc", "recorder"} \subseteq conf

(* Between reloads the API answers with the configuration in force, so     *)
(* that a change is made to it and not to another one, unless a            *)
(* configuration was taken, or given to the API, while one that the API    *)
(* had recorded was waiting, or came from an API that had been closed.     *)
ConfAgrees ==
    pc = "select" /\ Pending = {} /\ ServedByCurrent => apiConf.current = conf \/ overtaken

(* A session of an application that the whitelist no longer lists is cut:  *)
(* the refresh that learns of it closes the sessions.  Not so for one that *)
(* was there before the whitelist was (it is made anew in every reload).   *)
RevokedIsCut ==
    "whitelist" \in live /\ known = "out" /\ session = "live" => unguarded

(* A reload comes to its end, whatever the client, the whitelist and the   *)
(* requests are doing, unless a request waits for the main goroutine with  *)
(* the API's mutex held.                                                   *)
ReloadEnds ==
    pc \notin {"select", "ended"} ~> (pc \in {"select", "ended"} \/ Held(FALSE))

(* A client that has lost its connection tries again, however well the     *)
(* fallback does, unless it is closed first.                               *)
DialsAgain == client = "lost" ~> client \in {"dialing", "off"}
=============================================================================
