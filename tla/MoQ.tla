-------------------------------- MODULE MoQ ---------------------------------
(***************************************************************************)
(* The MoQ server (internal/servers/moq).  A session is a group of         *)
(* goroutines, one per stream of its WebTransport connection; the first    *)
(* error, or the context, closes the connection, and when every goroutine  *)
(* has returned run() takes the session out of the path, by the state and  *)
(* the path that the catalog's goroutine has recorded.                     *)
(***************************************************************************)
EXTENDS Sessions

CONSTANT MoQTracks  \* the tracks of a stream

VARIABLES
    setup,      \* setupReceived is closed
    catalog,    \* the publisher's catalog: "none", "sent" (in the channel), "taken"
    moqPath,    \* s.path # nil
    subs,       \* trackSubscriptions whose goroutine runs
    failed      \* a goroutine of the session has returned an error

moqVars == <<setup, catalog, moqPath, subs, failed>>

MoQTypeOK ==
    /\ setup \in [Conns -> BOOLEAN] /\ moqPath \in [Conns -> BOOLEAN]
    /\ failed \in [Conns -> BOOLEAN]
    /\ catalog \in [Conns -> {"none", "sent", "taken"}]
    /\ subs \in [Conns -> SUBSET MoQTracks]

(* Server.Initialize.                                                      *)
MoQInit ==
    /\ setup = [c \in Conns |-> FALSE]
    /\ catalog = [c \in Conns |-> "none"]
    /\ moqPath = [c \in Conns |-> FALSE]
    /\ subs = [c \in Conns |-> {}]
    /\ failed = [c \in Conns |-> FALSE]

(* onRequestHTTPS3, newSession: the session's context does not depend on   *)
(* the server's; the loop cancels it when it ends.                         *)
MoQNewSession(c) == LoopTakes(c, "idle") /\ UNCHANGED moqVars

(* The connection is being closed: every stream of it fails.               *)
Broken(c) == Cancelled(c) \/ failed[c]
Fails(c) == failed' = [failed EXCEPT ![c] = TRUE]

(* onUniMessage: SETUP is accepted once; the stream stays open.            *)
OnSetupMessage(c) ==
    /\ Alive(c) /\ ~At(c, "accepted") /\ ~Broken(c)
    /\ IF setup[c] THEN Fails(c) /\ UNCHANGED setup
       ELSE setup' = [setup EXCEPT ![c] = TRUE] /\ UNCHANGED failed
    /\ UNCHANGED <<sessionsVars, catalog, moqPath, subs>>

(* Any stream of the session fails: a message that is not expected in its  *)
(* state, a stream that ends, a connection that is lost.                   *)
StreamFails(c) ==
    /\ Alive(c) /\ phase[c] \notin {"accepted", "leaving", "closing"} /\ ~failed[c]
    /\ Fails(c)
    /\ UNCHANGED <<sessionsVars, setup, catalog, moqPath, subs>>

(* onSubscribeCatalog and onPublishCatalog: the state is set under the     *)
(* mutex, so that one of them runs, once.                                  *)
OnSubscribeCatalog(c) ==
    /\ At(c, "idle") /\ role[c] = "idle" /\ setup[c] /\ ~Broken(c)
    /\ SetRole(c, "read")
    /\ Goto(c, "addReader")
    /\ UNCHANGED <<serverVars, pathVars, ctxDone, moqVars>>

OnPublishCatalog(c) ==
    /\ At(c, "idle") /\ role[c] = "idle" /\ setup[c] /\ ~Broken(c)
    /\ SetRole(c, "publish")
    /\ Goto(c, "handshake")
    /\ UNCHANGED <<serverVars, pathVars, ctxDone, moqVars>>

(* onDataCatalog: the channel has room for one catalog, whatever the       *)
(* state; a second one is an error while the first waits.                  *)
OnDataCatalog(c) ==
    /\ Alive(c) /\ ~At(c, "accepted") /\ ~Broken(c)
    /\ CASE catalog[c] = "sent" -> Fails(c) /\ UNCHANGED catalog
         [] catalog[c] = "none" -> catalog' = [catalog EXCEPT ![c] = "sent"] /\ UNCHANGED failed
         [] OTHER -> FALSE
    /\ UNCHANGED <<sessionsVars, setup, moqPath, subs>>

(* onPublishCatalog: the catalog is there, and its tracks are understood;  *)
(* or the context ends the wait.                                           *)
CatalogTaken(c) ==
    /\ At(c, "handshake") /\ catalog[c] = "sent"
    /\ catalog' = [catalog EXCEPT ![c] = "taken"]
    /\ \/ Goto(c, "addPublisher") /\ UNCHANGED failed
       \/ Goto(c, "idle") /\ Fails(c)
    /\ UNCHANGED <<serverVars, pathVars, ctxDone, role, setup, moqPath, subs>>

CatalogGivenUp(c) ==
    /\ Cancelled(c) \/ failed[c]
    /\ Moves(c, "handshake", "idle")
    /\ Fails(c)
    /\ UNCHANGED <<role, setup, catalog, moqPath, subs>>

(* AddPublisher is answered: the path is recorded and publishReady closed. *)
MoQAddPublisher(c) ==
    /\ At(c, "addPublisher") /\ Goto(c, "idle")
    /\ \/ /\ PathTakesPublisher(c)
          /\ moqPath' = [moqPath EXCEPT ![c] = TRUE] /\ UNCHANGED failed
       \/ PathRefuses /\ Fails(c) /\ UNCHANGED moqPath
    /\ UNCHANGED <<serverVars, role, setup, catalog, subs>>

(* AddReader is answered; a stream without a usable track is left at once, *)
(* before the path is recorded.                                            *)
MoQAddReader(c) ==
    /\ AnswerReader(c, "joined", "idle")
    /\ failed' = [failed EXCEPT ![c] = @ \/ phase'[c] = "idle"]
    /\ UNCHANGED <<setup, catalog, moqPath, subs>>

(* Seeded fault: a stream that cannot be sent is not left.                 *)
MoQFromStream_KeepsReader(c) ==
    /\ At(c, "joined") /\ Goto(c, "idle")
    /\ \/ moqPath' = [moqPath EXCEPT ![c] = TRUE] /\ UNCHANGED failed
       \/ Fails(c) /\ UNCHANGED moqPath
    /\ UNCHANGED <<serverVars, pathVars, ctxDone, role, setup, catalog, subs>>

MoQFromStream(c) ==
    /\ At(c, "joined") /\ Goto(c, "idle")
    /\ \/ /\ moqPath' = [moqPath EXCEPT ![c] = TRUE]
          /\ UNCHANGED <<pathVars, ctxDone, failed>>
       \/ /\ PathForgets(c) /\ Fails(c)
          /\ UNCHANGED moqPath
    /\ UNCHANGED <<serverVars, role, setup, catalog, subs>>

(* onSubscribeTrack: once per track, after the stream is known; its reader *)
(* is removed from the stream when the goroutine returns.                  *)
OnSubscribeTrack(c) ==
    /\ At(c, "idle") /\ role[c] = "read" /\ moqPath[c] /\ ~Broken(c)
    /\ \E t \in MoQTracks \ subs[c] : subs' = [subs EXCEPT ![c] = @ \cup {t}]
    /\ UNCHANGED <<sessionsVars, setup, catalog, moqPath, failed>>

(* Seeded fault: the goroutine of a subscription does not watch the        *)
(* context.                                                                *)
TrackEnds_IgnoresContext(c) ==
    /\ failed[c]
    /\ \E t \in subs[c] : subs' = [subs EXCEPT ![c] = @ \ {t}]
    /\ UNCHANGED <<sessionsVars, setup, catalog, moqPath, failed>>

TrackEnds(c) ==
    /\ Broken(c)
    /\ \E t \in subs[c] : subs' = [subs EXCEPT ![c] = @ \ {t}]
    /\ UNCHANGED <<sessionsVars, setup, catalog, moqPath, failed>>

(* runInner: the context or the first error closes the connection, and     *)
(* every goroutine is waited for.                                          *)
GroupEnds(c) ==
    /\ Broken(c) /\ subs[c] = {}
    /\ Moves(c, "idle", "leaving")
    /\ UNCHANGED <<role, moqVars>>

(* run(): out of the path, if it was recorded.                             *)
MoQLeave(c) ==
    /\ At(c, "leaving") /\ Goto(c, "closing")
    /\ IF moqPath[c] /\ role[c] # "idle" THEN PathForgets(c) ELSE UNCHANGED <<pathVars, ctxDone>>
    /\ UNCHANGED <<serverVars, role, moqVars>>

MoQCloseSession(c) == LoopForgets(c) /\ UNCHANGED moqVars

(* A kick closes the session, which stays in the table until it has ended. *)
MoQKick(c) ==
    /\ server = "running" /\ c \in table
    /\ Cancel({c})
    /\ UNCHANGED <<serverVars, pathVars, phase, role, moqVars>>

MoQNext ==
    \E c \in Conns :
        \/ Arrives(c) /\ UNCHANGED moqVars
        \/ MoQNewSession(c) \/ OnSetupMessage(c) \/ StreamFails(c) \/ OnSubscribeCatalog(c)
        \/ OnPublishCatalog(c) \/ OnDataCatalog(c) \/ CatalogTaken(c) \/ CatalogGivenUp(c)
        \/ MoQAddPublisher(c) \/ MoQAddReader(c) \/ MoQFromStream(c) \/ OnSubscribeTrack(c)
        \/ TrackEnds(c) \/ GroupEnds(c) \/ MoQLeave(c) \/ MoQCloseSession(c) \/ MoQKick(c)

MoQProgress(c) ==
    \/ MoQNewSession(c) \/ CatalogGivenUp(c) \/ MoQAddPublisher(c) \/ MoQAddReader(c)
    \/ MoQFromStream(c) \/ TrackEnds(c) \/ GroupEnds(c) \/ MoQLeave(c) \/ MoQCloseSession(c)
=============================================================================
