--------------------------- MODULE ServersProofs ----------------------------
(***************************************************************************)
(* Proofs about Servers, for any number of connections and sockets, any    *)
(* latencies and any number of layers.                                     *)
(***************************************************************************)
EXTENDS Servers, TLAPS

(***************************************************************************)
(* The inductive invariant: one part per kind of server.                   *)
(***************************************************************************)
(* RTMP, SRT and WebRTC: the goroutine of a session joins the path and     *)
(* leaves it, so that its place says whether it is a member.  A member     *)
(* that is missing has been cancelled.                                     *)
PhaseDriven == proto \in {"rtmp", "srt", "webrtc"}

PlaceIsRight(c) ==
    /\ c \in readers => phase[c] \in {"joined", "connect", "reading", "leaving"}
    /\ c = publisher => phase[c] \in {"added", "publishing", "leaving"}
    /\ ~ctxDone[c] /\ phase[c] \in {"joined", "reading"} => c \in readers
    /\ ~ctxDone[c] /\ phase[c] = "connect" /\ role[c] = "read" => c \in readers
    /\ ~ctxDone[c] /\ phase[c] \in {"added", "publishing"} => c = publisher

(* WebRTC: who reads was told so when it was created.                      *)
WebRTCIsRight(c) ==
    /\ phase[c] = "request" => role[c] \in {"read", "publish"}
    /\ phase[c] = "handshake" => role[c] = "publish"
    /\ phase[c] \in {"addReader", "joined"} \/ c \in readers => role[c] = "read"
    /\ c \in subscribed => phase[c] = "reading"

(* MoQ: the membership is what the catalog's goroutine has recorded, until *)
(* the group of goroutines has ended for an error or for the context.      *)
MoQIsRight(c) ==
    /\ c \in readers => \/ phase[c] = "joined"
                        \/ phase[c] \in {"idle", "leaving"} /\ moqPath[c] /\ role[c] = "read"
    /\ c = publisher => phase[c] \in {"idle", "leaving"} /\ moqPath[c] /\ role[c] = "publish"
    /\ phase[c] \in {"addReader", "joined"} => role[c] = "read"
    /\ phase[c] \in {"handshake", "addPublisher"} => role[c] = "publish"
    /\ moqPath[c] => phase[c] \in {"idle", "leaving", "closing", "gone"} /\ role[c] # "idle"
    /\ phase[c] \in {"leaving", "closing"} => Broken(c)
    /\ subs[c] # {} => phase[c] = "idle" /\ moqPath[c]
    /\ ~ctxDone[c] /\ phase[c] = "joined" => c \in readers
    /\ ~Broken(c) /\ Alive(c) /\ moqPath[c] /\ role[c] = "read" => c \in readers
    /\ ~Broken(c) /\ Alive(c) /\ moqPath[c] /\ role[c] = "publish" => c = publisher

(* RTSP: the membership follows the state of the library's session and the *)
(* one it is about to get, for as long as nobody has kicked it ...         *)
RTSPIsRight(c) ==
    /\ phase[c] \in {"none", "idle", "addReader", "joined", "addPublisher", "added", "gone",
                     "toPrePlay", "toPlay", "toPreRecord", "toRecord"}
    /\ phase[c] = "none" => c \notin table /\ ~kickedLate[c] /\ rstate[c] = "initial"
    /\ phase[c] \in {"addReader", "joined"} => rstate[c] = "initial"
    /\ phase[c] \in {"addPublisher", "added"} => rstate[c] = "preRecord" /\ demuxer[c] = "none"
    /\ phase[c] = "toPrePlay" => rstate[c] \in {"initial", "play"}
    /\ phase[c] = "toPlay" => rstate[c] = "prePlay"
    /\ phase[c] = "toPreRecord" => rstate[c] \in {"initial", "record"}
    /\ phase[c] = "toRecord" => rstate[c] = "preRecord"
    /\ rstate[c] = "initial" /\ attached[c] => phase[c] = "toPrePlay"
    /\ rstate[c] = "initial" /\ demuxer[c] # "none" => phase[c] = "toPreRecord"
    /\ demuxer[c] # "none" => ~attached[c]
    /\ c \in table /\ phase[c] = "gone" => FALSE
    /\ ~ctxDone[c] /\ phase[c] = "joined" => c \in readers
    /\ ~ctxDone[c] /\ phase[c] = "added" => c = publisher
    /\ ~ctxDone[c] /\ attached[c] /\ (rstate[c] \in {"prePlay", "play"} \/ phase[c] = "toPrePlay") =>
         c \in readers
    /\ ~ctxDone[c] /\ attached[c] /\ (rstate[c] = "record" \/ phase[c] = "toRecord") =>
         c = publisher \/ phase[c] = "toPreRecord"

(* ... and nothing is left of a session that was kicked between two of its *)
(* handlers, or while one paused it, except what its demuxer publishes.    *)
RTSPLeaves(c) ==
    /\ c \in table =>
         /\ c \in readers => phase[c] \in {"joined", "toPrePlay"} \/ rstate[c] \in {"prePlay", "play"}
         /\ c = publisher => \/ phase[c] = "added"
                             \/ rstate[c] = "record" /\ phase[c] # "toPreRecord" /\ attached[c]
                             \/ phase[c] = "toRecord" /\ attached[c]
                             \/ demuxer[c] = "publishing"
         /\ hookOn[c] => phase[c] = "toPlay" \/ (rstate[c] = "play" /\ phase[c] = "idle")
    /\ c \notin table /\ ~kickedLate[c] =>
         /\ phase[c] \in {"none", "idle", "gone", "toPrePlay", "toPreRecord"}
         /\ ~attached[c] /\ ~hookOn[c] /\ c \notin readers
         /\ c = publisher => demuxer[c] = "publishing"

(* SRT: a latency that is too low is somebody's business.                  *)
LatencyIsRight(c) ==
    /\ sampler[c] # "off" => phase[c] \in {"publishing", "leaving", "closing", "gone"}
    /\ phase[c] \notin {"none", "accepted", "gone"} /\ ~ctxDone[c] =>
         given[c] >= latency \/ overtaken[c] \/ sampler[c] \in {"raised", "marked"}

(* Degradation: what an executor has been told, or is about to be.         *)
ExecutorIsRight(c) ==
    /\ exec[c] = "read" => target[c] = <<layers, bitratePercent>> \/ passed[c]
    /\ wsBound = c /\ exec[c] = "open" /\ maxLayers > 0 =>
          told[c] = <<layers, bitratePercent>> \/ passed[c]

(* The variables of the other servers keep their first values.             *)
OthersRest ==
    /\ proto # "webrtc" => subscribed = {}
    /\ proto # "moq" => \A c \in Conns : subs[c] = {}
    /\ proto # "rtsp" => \A c \in Conns : ~hookOn[c]
    /\ proto = "degrade" => readers = {} /\ publisher = None /\ \A c \in Conns : phase[c] = "none"

Inv ==
    /\ TypeOK /\ OthersRest
    /\ PhaseDriven => \A c \in Conns : PlaceIsRight(c)
    /\ proto = "webrtc" => \A c \in Conns : WebRTCIsRight(c)
    /\ proto = "moq" => \A c \in Conns : MoQIsRight(c)
    /\ proto = "rtsp" => \A c \in Conns : RTSPIsRight(c) /\ RTSPLeaves(c)
    /\ proto = "srt" => \A c \in Conns : LatencyIsRight(c)
    /\ LadderHolds /\ \A c \in Conns : ExecutorIsRight(c)

(***************************************************************************)
(* What a step of a session does to the others.  The path never drops a    *)
(* member without cancelling its context.                                  *)
(***************************************************************************)
PathKeeps(d) ==
    /\ d \in readers' => d \in readers
    /\ d = publisher' => d = publisher
    /\ ctxDone[d] => ctxDone'[d]
    /\ ~ctxDone'[d] => (d \in readers => d \in readers') /\ (d = publisher => d = publisher')

Untouched(d) == phase'[d] = phase[d] /\ role'[d] = role[d] /\ PathKeeps(d)

(* A step of session c, as the other sessions and the types see it.        *)
SessionMoves(c) ==
    /\ SessionsTypeOK' /\ proto' = proto /\ (server # "running" => server' # "running")
    /\ ctxDone[c] => ctxDone'[c]
    /\ \A d \in Conns : d # c => Untouched(d)

PathTypes ==
    /\ publisher' \in Conns \cup {None, Other} /\ readers' \subseteq Conns
    /\ ctxDone' \in [Conns -> BOOLEAN]

(* Cancelling sessions.                                                    *)
LEMMA CancelKeeps ==
    ASSUME SessionsTypeOK, NEW S, Cancel(S)
    PROVE  /\ ctxDone' \in [Conns -> BOOLEAN]
           /\ \A d \in Conns : ctxDone'[d] <=> ctxDone[d] \/ d \in S
<1>1. ASSUME NEW d \in Conns PROVE (ctxDone[d] \/ d \in S) \in BOOLEAN
  OBVIOUS
<1>. QED
  BY <1>1 DEF SessionsTypeOK, Cancel

(* The calls that the path answers.                                        *)
LEMMA TakesReader ==
    ASSUME SessionsTypeOK, NEW c \in Conns, PathTakesReader(c)
    PROVE  PathTypes /\ c \in readers' /\ publisher' = publisher /\ ctxDone' = ctxDone
           /\ \A d \in Conns : d # c => PathKeeps(d)
BY DEF SessionsTypeOK, PathTakesReader, PathTypes, PathKeeps

LEMMA TakesPublisher ==
    ASSUME SessionsTypeOK, NEW c \in Conns \cup {Other}, publisher' = c,
           SetNotAvailable({publisher} \cap Conns)
    PROVE  /\ PathTypes /\ readers' = {}
           /\ \A d \in Conns : ctxDone[d] => ctxDone'[d]
           /\ \A d \in Conns : d # c => PathKeeps(d)
<1>1. Cancel(readers \cup ({publisher} \cap Conns)) /\ readers' = {}
  BY DEF SetNotAvailable
<1>2. /\ ctxDone' \in [Conns -> BOOLEAN]
      /\ \A d \in Conns : ctxDone'[d] <=> ctxDone[d] \/ d \in readers \cup ({publisher} \cap Conns)
  BY <1>1, CancelKeeps
<1>. QED
  BY <1>1, <1>2 DEF SessionsTypeOK, PathTypes, PathKeeps

LEMMA Forgets ==
    ASSUME SessionsTypeOK, NEW c \in Conns, NEW S, PathForgetsAndCloses(c, S)
    PROVE  /\ PathTypes /\ c \notin readers' /\ c # publisher'
           /\ \A d \in Conns : ctxDone[d] \/ d \in S => ctxDone'[d]
           /\ \A d \in Conns : d # c => PathKeeps(d)
<1>1. CASE publisher = c
  <2>1. publisher' = None /\ Cancel(readers \cup S) /\ readers' = {}
    BY <1>1 DEF PathForgetsAndCloses, SetNotAvailable
  <2>2. /\ ctxDone' \in [Conns -> BOOLEAN]
        /\ \A d \in Conns : ctxDone'[d] <=> ctxDone[d] \/ d \in readers \cup S
    BY <2>1, CancelKeeps
  <2>. QED
    BY <1>1, <2>1, <2>2, SessionsAssumption DEF SessionsTypeOK, PathTypes, PathKeeps
<1>2. CASE publisher # c
  <2>1. readers' = readers \ {c} /\ Cancel(S) /\ publisher' = publisher
    BY <1>2 DEF PathForgetsAndCloses
  <2>2. /\ ctxDone' \in [Conns -> BOOLEAN]
        /\ \A d \in Conns : ctxDone'[d] <=> ctxDone[d] \/ d \in S
    BY <2>1, CancelKeeps
  <2>. QED
    BY <1>2, <2>1, <2>2 DEF SessionsTypeOK, PathTypes, PathKeeps
<1>. QED
  BY <1>1, <1>2

LEMMA PathSame ==
    ASSUME SessionsTypeOK, UNCHANGED <<publisher, readers, ctxDone>>
    PROVE  PathTypes /\ \A d \in Conns : PathKeeps(d)
BY DEF SessionsTypeOK, PathTypes, PathKeeps

LEMMA OnlyCancels ==
    ASSUME SessionsTypeOK, UNCHANGED <<publisher, readers>>, NEW S, Cancel(S)
    PROVE  PathTypes /\ \A d \in Conns : PathKeeps(d) /\ (d \in S => ctxDone'[d])
BY CancelKeeps DEF SessionsTypeOK, PathTypes, PathKeeps

(***************************************************************************)
(* The steps that the servers have in common.                              *)
(***************************************************************************)
RoleSet(c) == role' = role \/ \E r \in {"idle", "read", "publish"} : SetRole(c, r)

LEMMA GotoMoves ==
    ASSUME SessionsTypeOK, NEW c \in Conns, NEW to \in Phases, Goto(c, to)
    PROVE  /\ phase' \in [Conns -> Phases] /\ phase'[c] = to
           /\ \A d \in Conns : d # c => phase'[d] = phase[d]
BY DEF SessionsTypeOK, Goto

LEMMA RoleMoves ==
    ASSUME SessionsTypeOK, NEW c \in Conns, RoleSet(c)
    PROVE  /\ role' \in [Conns -> {"idle", "read", "publish"}]
           /\ \A d \in Conns : d # c => role'[d] = role[d]
BY DEF SessionsTypeOK, RoleSet, SetRole

(* All of it together.                                                     *)
LEMMA Together ==
    ASSUME SessionsTypeOK, NEW c \in Conns, RoleSet(c), PathTypes,
           proto' = proto, server' = server, table' \subseteq Conns,
           phase' \in [Conns -> Phases], \A d \in Conns : d # c => phase'[d] = phase[d],
           \A d \in Conns : d # c => PathKeeps(d), ctxDone[c] => ctxDone'[c]
    PROVE  SessionMoves(c)
BY RoleMoves DEF SessionsTypeOK, SessionMoves, Untouched, PathTypes

LEMMA MovesMoves ==
    ASSUME SessionsTypeOK, NEW c \in Conns, NEW from, NEW to \in Phases, Moves(c, from, to), RoleSet(c)
    PROVE  /\ SessionMoves(c) /\ phase[c] = from /\ phase'[c] = to
           /\ UNCHANGED <<readers, publisher, ctxDone, server, table>>
<1>1. UNCHANGED <<readers, publisher, ctxDone, proto, server, table>> /\ Goto(c, to) /\ phase[c] = from
  BY DEF Moves, serverVars, pathVars, At
<1>2. SessionMoves(c)
  BY <1>1, GotoMoves, PathSame, Together DEF SessionsTypeOK
<1>. QED
  BY <1>1, <1>2, GotoMoves

LEMMA ArrivesMoves ==
    ASSUME SessionsTypeOK, NEW c \in Conns, Arrives(c)
    PROVE  /\ SessionMoves(c) /\ phase[c] = "none" /\ phase'[c] = "accepted"
           /\ UNCHANGED <<readers, publisher, ctxDone, server, table, role>>
<1>1. /\ UNCHANGED <<readers, publisher, ctxDone, proto, server, table, role>>
      /\ Goto(c, "accepted") /\ phase[c] = "none" /\ "accepted" \in Phases
  BY DEF Arrives, serverVars, pathVars, At, Phases
<1>2. SessionMoves(c)
  BY <1>1, GotoMoves, PathSame, Together DEF SessionsTypeOK, RoleSet
<1>. QED
  BY <1>1, <1>2, GotoMoves

LEMMA LoopTakesMoves ==
    ASSUME SessionsTypeOK, NEW c \in Conns, NEW next \in Phases, LoopTakes(c, next)
    PROVE  /\ SessionMoves(c) /\ phase[c] = "accepted" /\ phase'[c] \in {next, "gone"}
           /\ UNCHANGED <<readers, publisher, ctxDone, server, role>>
<1>1. /\ UNCHANGED <<readers, publisher, ctxDone, proto, server, role>> /\ phase[c] = "accepted"
      /\ table' \subseteq Conns /\ "gone" \in Phases
      /\ Goto(c, next) \/ Goto(c, "gone")
  BY DEF LoopTakes, pathVars, At, Phases, SessionsTypeOK
<1>2. /\ phase' \in [Conns -> Phases] /\ phase'[c] \in {next, "gone"}
      /\ \A d \in Conns : d # c => phase'[d] = phase[d]
  BY <1>1, GotoMoves
<1>3. SessionMoves(c)
  BY <1>1, <1>2, PathSame, Together DEF SessionsTypeOK, RoleSet
<1>. QED
  BY <1>1, <1>2, <1>3

LEMMA LoopForgetsMoves ==
    ASSUME SessionsTypeOK, NEW c \in Conns, LoopForgets(c)
    PROVE  /\ SessionMoves(c) /\ phase[c] = "closing" /\ phase'[c] = "gone"
           /\ UNCHANGED <<readers, publisher, ctxDone, server, role>>
<1>1. /\ UNCHANGED <<readers, publisher, ctxDone, proto, server, role>> /\ phase[c] = "closing"
      /\ table' \subseteq Conns /\ "gone" \in Phases /\ Goto(c, "gone")
  BY DEF LoopForgets, pathVars, At, Phases, SessionsTypeOK
<1>2. SessionMoves(c)
  BY <1>1, GotoMoves, PathSame, Together DEF SessionsTypeOK, RoleSet
<1>. QED
  BY <1>1, <1>2, GotoMoves

LEMMA LoopKicksMoves ==
    ASSUME SessionsTypeOK, NEW c \in Conns, LoopKicks(c)
    PROVE  /\ SessionMoves(c) /\ PathKeeps(c) /\ ctxDone'[c]
           /\ UNCHANGED <<readers, publisher, phase, server, role>>
<1>1. /\ UNCHANGED <<readers, publisher, phase, proto, server, role>> /\ Cancel({c})
      /\ table' \subseteq Conns
  BY DEF LoopKicks, pathVars, SessionsTypeOK
<1>2. PathTypes /\ \A d \in Conns : PathKeeps(d) /\ (d \in {c} => ctxDone'[d])
  BY <1>1, OnlyCancels
<1>3. SessionMoves(c)
  BY <1>1, <1>2, Together DEF SessionsTypeOK, RoleSet
<1>. QED
  BY <1>1, <1>2, <1>3

LEMMA AnswerReaderMoves ==
    ASSUME SessionsTypeOK, NEW c \in Conns, NEW ok \in Phases, NEW no \in Phases,
           AnswerReader(c, ok, no)
    PROVE  /\ SessionMoves(c) /\ phase[c] = "addReader" /\ UNCHANGED <<publisher, ctxDone, server, table, role>>
           /\ \/ phase'[c] = ok /\ c \in readers'
              \/ phase'[c] = no /\ readers' = readers
<1>1. UNCHANGED <<proto, server, table, role>> /\ phase[c] = "addReader"
  BY DEF AnswerReader, serverVars, At
<1>2. CASE PathTakesReader(c) /\ Goto(c, ok)
  <2>1. PathTypes /\ c \in readers' /\ publisher' = publisher /\ ctxDone' = ctxDone
        /\ \A d \in Conns : d # c => PathKeeps(d)
    BY <1>2, TakesReader
  <2>2. SessionMoves(c)
    BY <1>1, <1>2, <2>1, GotoMoves, Together DEF SessionsTypeOK, RoleSet
  <2>. QED
    BY <1>1, <1>2, <2>1, <2>2, GotoMoves
<1>3. CASE PathRefuses /\ Goto(c, no)
  <2>1. UNCHANGED <<publisher, readers, ctxDone>>
    BY <1>3 DEF PathRefuses
  <2>2. SessionMoves(c)
    BY <1>1, <1>3, <2>1, GotoMoves, PathSame, Together DEF SessionsTypeOK, RoleSet
  <2>. QED
    BY <1>1, <1>3, <2>1, <2>2, GotoMoves
<1>. QED
  BY <1>2, <1>3 DEF AnswerReader

LEMMA AnswerPublisherMoves ==
    ASSUME SessionsTypeOK, NEW c \in Conns, NEW ok \in Phases, NEW no \in Phases,
           AnswerPublisher(c, ok, no)
    PROVE  /\ SessionMoves(c) /\ phase[c] = "addPublisher" /\ UNCHANGED <<server, table, role>>
           /\ \/ phase'[c] = ok /\ publisher' = c /\ readers' = {}
              \/ phase'[c] = no /\ UNCHANGED <<publisher, readers, ctxDone>>
<1>1. UNCHANGED <<proto, server, table, role>> /\ phase[c] = "addPublisher"
  BY DEF AnswerPublisher, serverVars, At
<1>2. CASE PathTakesPublisher(c) /\ Goto(c, ok)
  <2>0. publisher' = c /\ SetNotAvailable({publisher} \cap Conns)
    BY <1>2 DEF PathTakesPublisher
  <2>1. /\ PathTypes /\ readers' = {}
        /\ \A d \in Conns : ctxDone[d] => ctxDone'[d]
        /\ \A d \in Conns : d # c => PathKeeps(d)
    BY <2>0, TakesPublisher
  <2>2. SessionMoves(c)
    BY <1>1, <1>2, <2>1, GotoMoves, Together DEF SessionsTypeOK, RoleSet
  <2>. QED
    BY <1>1, <1>2, <2>0, <2>1, <2>2, GotoMoves
<1>3. CASE PathRefuses /\ Goto(c, no)
  <2>1. UNCHANGED <<publisher, readers, ctxDone>>
    BY <1>3 DEF PathRefuses
  <2>2. SessionMoves(c)
    BY <1>1, <1>3, <2>1, GotoMoves, PathSame, Together DEF SessionsTypeOK, RoleSet
  <2>. QED
    BY <1>1, <1>3, <2>1, <2>2, GotoMoves
<1>. QED
  BY <1>2, <1>3 DEF AnswerPublisher

LEMMA LeavesPathMoves ==
    ASSUME SessionsTypeOK, NEW c \in Conns, LeavesPath(c)
    PROVE  /\ SessionMoves(c) /\ phase[c] = "leaving" /\ phase'[c] = "closing"
           /\ c \notin readers' /\ c # publisher' /\ UNCHANGED <<server, table, role>>
<1>1. /\ UNCHANGED <<proto, server, table, role>> /\ phase[c] = "leaving" /\ Goto(c, "closing")
      /\ PathForgetsAndCloses(c, {}) /\ "closing" \in Phases
  BY DEF LeavesPath, serverVars, At, PathForgets, Phases
<1>2. /\ PathTypes /\ c \notin readers' /\ c # publisher'
      /\ \A d \in Conns : ctxDone[d] \/ d \in {} => ctxDone'[d]
      /\ \A d \in Conns : d # c => PathKeeps(d)
  BY <1>1, Forgets
<1>3. SessionMoves(c)
  BY <1>1, <1>2, GotoMoves, Together DEF SessionsTypeOK, RoleSet
<1>. QED
  BY <1>1, <1>2, <1>3, GotoMoves

(***************************************************************************)
(* RTMP.                                                                   *)
(***************************************************************************)
LEMMA PlacesStay ==
    ASSUME NEW c \in Conns, SessionMoves(c), PlaceIsRight(c)', \A d \in Conns : PlaceIsRight(d)
    PROVE  \A d \in Conns : PlaceIsRight(d)'
<1>1. ASSUME NEW d \in Conns, d # c PROVE PlaceIsRight(d)'
  BY <1>1 DEF SessionMoves, Untouched, PathKeeps, PlaceIsRight
<1>. QED
  BY <1>1

(* The other servers of a behaviour, and degradation, are not concerned.   *)
LEMMA DegradeSame ==
    ASSUME Inv, UNCHANGED degradeVars
    PROVE  DegradeTypeOK' /\ LadderHolds' /\ \A c \in Conns : ExecutorIsRight(c)'
<1>. USE DEF degradeVars, fsmVars, execVars
<1>1. DegradeTypeOK'
  BY DEF Inv, TypeOK, DegradeTypeOK
<1>2. LadderHolds'
  BY DEF Inv, LadderHolds
<1>3. \A c \in Conns : ExecutorIsRight(c)'
  BY DEF Inv, ExecutorIsRight
<1>. QED
  BY <1>1, <1>2, <1>3

(* The steps that RTMP and SRT share, each with its own names: where a     *)
(* session goes, the path has it or has it no longer.                      *)
LEMMA PlaceMoves ==
    ASSUME SessionsTypeOK, NEW c \in Conns, PlaceIsRight(c),
           \/ Arrives(c)
           \/ LoopTakes(c, "handshake")
           \/ /\ RoleSet(c)
              /\ \/ Moves(c, "handshake", "addReader") \/ Moves(c, "handshake", "addPublisher")
                 \/ Moves(c, "handshake", "closing")
                 \/ Moves(c, "joined", "reading") \/ Moves(c, "joined", "leaving")
                 \/ Moves(c, "reading", "leaving")
                 \/ Moves(c, "added", "publishing") \/ Moves(c, "publishing", "leaving")
           \/ AnswerReader(c, "joined", "closing")
           \/ AnswerPublisher(c, "added", "closing")
           \/ LeavesPath(c) \/ LoopForgets(c) \/ LoopKicks(c)
    PROVE  SessionMoves(c) /\ PlaceIsRight(c)'
<1>. USE DEF Phases
<1>1. CASE Arrives(c)
  BY <1>1, ArrivesMoves DEF PlaceIsRight
<1>2. CASE LoopTakes(c, "handshake")
  BY <1>2, LoopTakesMoves DEF PlaceIsRight
<1>3. ASSUME RoleSet(c), NEW from, NEW to \in {"addReader", "addPublisher", "closing"}, from = "handshake",
             Moves(c, from, to)
      PROVE  SessionMoves(c) /\ PlaceIsRight(c)'
  BY <1>3, MovesMoves DEF PlaceIsRight
<1>4. ASSUME RoleSet(c), NEW from \in {"joined", "reading"}, NEW to \in {"reading", "leaving"},
             Moves(c, from, to)
      PROVE  SessionMoves(c) /\ PlaceIsRight(c)'
  BY <1>4, MovesMoves DEF PlaceIsRight
<1>5. ASSUME RoleSet(c), NEW from \in {"added", "publishing"}, NEW to \in {"publishing", "leaving"},
             Moves(c, from, to)
      PROVE  SessionMoves(c) /\ PlaceIsRight(c)'
  BY <1>5, MovesMoves DEF PlaceIsRight
<1>6. CASE AnswerReader(c, "joined", "closing")
  BY <1>6, AnswerReaderMoves DEF PlaceIsRight
<1>7. CASE AnswerPublisher(c, "added", "closing")
  BY <1>7, AnswerPublisherMoves DEF PlaceIsRight
<1>8. CASE LeavesPath(c)
  BY <1>8, LeavesPathMoves DEF PlaceIsRight
<1>9. CASE LoopForgets(c)
  BY <1>9, LoopForgetsMoves DEF PlaceIsRight
<1>10. CASE LoopKicks(c)
  BY <1>10, LoopKicksMoves DEF PlaceIsRight
<1>. QED
  BY <1>1, <1>2, <1>3, <1>4, <1>5, <1>6, <1>7, <1>8, <1>9, <1>10

LEMMA RTMPStep ==
    ASSUME Inv, proto = "rtmp", RTMPNext,
           UNCHANGED <<srtVars, rtspVars, moqVars, webrtcVars, degradeVars>>
    PROVE  Inv'
<1>0. SessionsTypeOK /\ \A d \in Conns : PlaceIsRight(d)
  BY DEF Inv, TypeOK, PhaseDriven
<1>1. PICK c \in Conns :
        \/ Arrives(c) \/ RTMPNewConn(c) \/ RTMPHandshake(c) \/ RTMPAbort(c)
        \/ RTMPAddReader(c) \/ RTMPRead(c) \/ RTMPStopReading(c)
        \/ RTMPAddPublisher(c) \/ RTMPPublish(c) \/ RTMPStopPublishing(c)
        \/ RTMPLeave(c) \/ RTMPCloseConn(c) \/ RTMPKick(c)
  BY DEF RTMPNext
<1>2. SessionMoves(c) /\ PlaceIsRight(c)'
  BY <1>0, <1>1, PlaceMoves
     DEF RTMPNewConn, RTMPHandshake, RTMPAbort, RTMPAddReader, RTMPRead, RTMPStopReading,
         RTMPAddPublisher, RTMPPublish, RTMPStopPublishing, RTMPLeave, RTMPCloseConn, RTMPKick, RoleSet
<1>3. /\ SRTTypeOK' /\ RTSPTypeOK' /\ MoQTypeOK' /\ WebRTCTypeOK' /\ DegradeTypeOK'
      /\ LadderHolds' /\ \A d \in Conns : ExecutorIsRight(d)'
  BY DegradeSame DEF Inv, TypeOK, SRTTypeOK, RTSPTypeOK, MoQTypeOK, WebRTCTypeOK,
     srtVars, rtspVars, moqVars, webrtcVars
<1>4. proto' = "rtmp" /\ SessionsTypeOK'
  BY <1>2 DEF SessionMoves
<1>5. OthersRest'
  BY <1>4 DEF Inv, OthersRest, moqVars, rtspVars, webrtcVars
<1>. QED
  BY <1>0, <1>2, <1>3, <1>4, <1>5, PlacesStay DEF Inv, TypeOK, PhaseDriven

(***************************************************************************)
(* SRT.                                                                    *)
(***************************************************************************)
(* Seen from the connections that do not take the step.                    *)
LEMMA LatenciesStay ==
    ASSUME NEW c \in Conns, SessionMoves(c), UNCHANGED <<given, latency, overtaken>>,
           \A d \in Conns : d # c => sampler'[d] = sampler[d],
           \A d \in Conns : LatencyIsRight(d), LatencyIsRight(c)'
    PROVE  \A d \in Conns : LatencyIsRight(d)'
<1>1. ASSUME NEW d \in Conns, d # c PROVE LatencyIsRight(d)'
  BY <1>1 DEF SessionMoves, Untouched, PathKeeps, LatencyIsRight
<1>. QED
  BY <1>1

(* The value the manager tunes to is a latency.                            *)
LEMMA LatenciesAreNat ==
    ASSUME SRTTypeOK
    PROVE  /\ \A loss \in {"above", "below"} : NextValue(loss) \in Nat
           /\ \A raise \in BOOLEAN : AdjustLatency(raise) \in Nat
<1>. USE LatencyAssumption DEF SRTTypeOK, AtMost, AtLeast, Minus
<1>1. NextValue("above") \in Nat
  BY DEF NextValue
<1>2. NextValue("below") \in Nat
  BY DEF NextValue
<1>3. \A raise \in BOOLEAN : AdjustLatency(raise) \in Nat
  BY DEF AdjustLatency
<1>. QED
  BY <1>1, <1>2, <1>3

(* A step of the goroutine of a connection.                                *)
SRTSessionStep(c) ==
    \/ Arrives(c) /\ UNCHANGED srtVars
    \/ SRTNewConn(c) \/ SRTStart(c) \/ SRTReject(c) \/ SRTAddReader(c)
    \/ SRTRead(c) \/ SRTStopReading(c) \/ SRTAddPublisher(c) \/ SRTPublish(c)
    \/ SRTStopPublishing(c) \/ SRTLeave(c) \/ SRTCloseConn(c) \/ SRTKick(c)

LEMMA SRTSessionMoves ==
    ASSUME Inv, proto = "srt", NEW c \in Conns, SRTSessionStep(c)
    PROVE  SessionMoves(c) /\ PlaceIsRight(c)' /\ SRTTypeOK' /\ \A d \in Conns : LatencyIsRight(d)'
<1>0. /\ SessionsTypeOK /\ SRTTypeOK /\ PlaceIsRight(c) /\ \A d \in Conns : LatencyIsRight(d)
  BY DEF Inv, TypeOK, PhaseDriven
<1>1. SessionMoves(c) /\ PlaceIsRight(c)'
  BY <1>0, PlaceMoves
     DEF SRTSessionStep, SRTNewConn, SRTStart, SRTReject, SRTAddReader, SRTRead, SRTStopReading,
         SRTAddPublisher, SRTPublish, SRTStopPublishing, SRTLeave, SRTCloseConn, SRTKick, RoleSet
<1>2. CASE SRTNewConn(c)
  <2>1. phase'[c] \in {"handshake", "gone"} /\ phase[c] = "accepted"
    BY <1>0, <1>2, LoopTakesMoves DEF SRTNewConn, Phases
  <2>2. /\ UNCHANGED <<degrading, latency, raiseMark, sampler, overtaken>>
        /\ given' = [given EXCEPT ![c] = latency]
    BY <1>2 DEF SRTNewConn
  <2>3. SRTTypeOK' /\ given'[c] = latency /\ \A d \in Conns : d # c => given'[d] = given[d]
    BY <1>0, <2>2 DEF SRTTypeOK
  <2>4. LatencyIsRight(c)'
    <3>1. latency' >= latency
      BY <1>0, <2>2 DEF SRTTypeOK
    <3>. QED
      BY <1>0, <2>1, <2>2, <2>3, <3>1 DEF LatencyIsRight
  <2>5. ASSUME NEW d \in Conns, d # c PROVE LatencyIsRight(d)'
    BY <1>0, <1>1, <2>2, <2>3, <2>5 DEF SessionMoves, Untouched, PathKeeps, LatencyIsRight
  <2>. QED
    BY <1>1, <2>3, <2>4, <2>5
<1>3. CASE SRTPublish(c)
  <2>1. phase'[c] = "publishing" /\ phase[c] = "added" /\ UNCHANGED ctxDone
    BY <1>0, <1>3, MovesMoves DEF SRTPublish, RoleSet, Phases
  <2>2. /\ UNCHANGED <<degrading, latency, given, overtaken>>
        /\ sampler' = [sampler EXCEPT ![c] = "on"] /\ raiseMark' = FALSE
    BY <1>3 DEF SRTPublish
  <2>3. SRTTypeOK' /\ sampler'[c] = "on" /\ \A d \in Conns : d # c => sampler'[d] = sampler[d]
    BY <1>0, <2>2 DEF SRTTypeOK
  <2>4. LatencyIsRight(c)'
    BY <1>0, <2>1, <2>2, <2>3 DEF LatencyIsRight
  <2>. QED
    BY <1>0, <1>1, <2>2, <2>3, <2>4, LatenciesStay
<1>4. CASE ~SRTNewConn(c) /\ ~SRTPublish(c)
  <2>1. UNCHANGED srtVars
    BY <1>4 DEF SRTSessionStep, SRTStart, SRTReject, SRTAddReader, SRTRead, SRTStopReading,
         SRTAddPublisher, SRTStopPublishing, SRTLeave, SRTCloseConn, SRTKick
  <2>2. SRTTypeOK' /\ UNCHANGED <<given, latency, overtaken, sampler>>
    BY <1>0, <2>1 DEF SRTTypeOK, srtVars
  <2>3. /\ phase'[c] \in {"publishing", "leaving", "closing", "gone"} \/ phase[c] \notin {"publishing", "leaving", "closing", "gone"}
        /\ phase'[c] \in {"none", "accepted", "gone"} \/ phase[c] \notin {"none", "accepted", "gone"}
    <3>. USE <1>0 DEF Phases, RoleSet
    <3>1. CASE Arrives(c)
      BY <3>1, ArrivesMoves
    <3>2. CASE SRTStart(c) \/ SRTReject(c)
      BY <3>2, MovesMoves DEF SRTStart, SRTReject
    <3>3. CASE SRTAddReader(c)
      BY <3>3, AnswerReaderMoves DEF SRTAddReader
    <3>4. CASE SRTRead(c) \/ SRTStopReading(c) \/ SRTStopPublishing(c)
      BY <3>4, MovesMoves DEF SRTRead, SRTStopReading, SRTStopPublishing
    <3>5. CASE SRTAddPublisher(c)
      BY <3>5, AnswerPublisherMoves DEF SRTAddPublisher
    <3>6. CASE SRTLeave(c)
      BY <3>6, LeavesPathMoves DEF SRTLeave
    <3>7. CASE SRTCloseConn(c)
      BY <3>7, LoopForgetsMoves DEF SRTCloseConn
    <3>8. CASE SRTKick(c)
      BY <3>8, LoopKicksMoves DEF SRTKick, SessionsTypeOK
    <3>. QED
      BY <1>4, <3>1, <3>2, <3>3, <3>4, <3>5, <3>6, <3>7, <3>8 DEF SRTSessionStep
  <2>4. LatencyIsRight(c)'
    BY <1>0, <1>1, <2>2, <2>3 DEF LatencyIsRight, SessionMoves
  <2>. QED
    BY <1>0, <1>1, <2>2, <2>4, LatenciesStay
<1>. QED
  BY <1>2, <1>3, <1>4

(* The sampling goroutine tunes the latency.                               *)
LEMMA TuneMoves ==
    ASSUME SRTTypeOK, SessionsTypeOK, \A d \in Conns : LatencyIsRight(d),
           NEW c \in Conns, NEW v \in Nat, sampler[c] = "on", Tune(c, v), UNCHANGED sessionsVars
    PROVE  SRTTypeOK' /\ \A d \in Conns : LatencyIsRight(d)'
<1>0. UNCHANGED <<phase, ctxDone>> /\ UNCHANGED <<degrading, raiseMark, given>> /\ latency' = v
  BY DEF sessionsVars, Tune
<1>1. /\ sampler' = [sampler EXCEPT ![c] = IF v > latency THEN "raised" ELSE "on"]
      /\ overtaken' = [d \in Conns |-> overtaken[d] \/ (v > latency /\ d # c /\ Alive(d))]
  BY DEF Tune
<1>2. /\ sampler' \in [Conns -> {"off", "on", "raised", "marked"}]
      /\ sampler'[c] = IF v > latency THEN "raised" ELSE "on"
      /\ \A d \in Conns : d # c => sampler'[d] = sampler[d]
  BY <1>1 DEF SRTTypeOK
<1>3. /\ overtaken' \in [Conns -> BOOLEAN]
      /\ \A d \in Conns : (overtaken[d] => overtaken'[d])
      /\ \A d \in Conns : v > latency /\ d # c /\ Alive(d) => overtaken'[d]
  <2>. HIDE DEF Alive
  <2>. QED
    BY <1>1 DEF SRTTypeOK
<1>4. SRTTypeOK'
  BY <1>0, <1>2, <1>3 DEF SRTTypeOK
<1>5. ASSUME NEW d \in Conns PROVE LatencyIsRight(d)'
  <2>1. given[d] \in Nat /\ latency \in Nat
    BY DEF SRTTypeOK
  <2>2. CASE v > latency
    <3>1. CASE d = c
      BY <1>0, <1>2, <2>2, <3>1 DEF LatencyIsRight
    <3>2. CASE d # c
      BY <1>0, <1>2, <1>3, <2>2, <3>2 DEF LatencyIsRight, Alive
    <3>. QED
      BY <3>1, <3>2
  <2>3. CASE ~(v > latency)
    <3>1. sampler'[d] = sampler[d]
      BY <1>2, <2>3
    <3>2. given[d] >= latency => given[d] >= v
      BY <2>1, <2>3
    <3>. QED
      BY <1>0, <1>3, <3>1, <3>2 DEF LatencyIsRight
  <2>. QED
    BY <2>2, <2>3
<1>. QED
  BY <1>4, <1>5

(* The step of a sampler, as the sessions see it.                          *)
LEMMA SamplerMoves ==
    ASSUME Inv, proto = "srt", NEW c \in Conns,
           \/ SRTRecord(c) \/ SRTDegradeSample(c) \/ SRTMarkRaiseClose(c)
           \/ SRTRaiseClose(c) \/ SRTLossDisconnect(c) \/ SRTSamplerEnds(c)
    PROVE  SessionMoves(c) /\ PlaceIsRight(c)' /\ SRTTypeOK' /\ \A d \in Conns : LatencyIsRight(d)'
<1>0. /\ SessionsTypeOK /\ SRTTypeOK /\ PlaceIsRight(c) /\ \A d \in Conns : LatencyIsRight(d)
  BY DEF Inv, TypeOK, PhaseDriven
<1>1. /\ UNCHANGED <<proto, server, table, readers, publisher, phase, role>>
      /\ ctxDone' = ctxDone \/ Cancel({c})
  BY DEF SRTRecord, SRTDegradeSample, SRTMarkRaiseClose, SRTRaiseClose, SRTLossDisconnect, SRTSamplerEnds,
         Sampling, sessionsVars, serverVars, pathVars
<1>2. SessionMoves(c) /\ PathKeeps(c)
  <2>1. PathTypes /\ \A d \in Conns : PathKeeps(d)
    BY <1>0, <1>1, PathSame, OnlyCancels
  <2>. QED
    BY <1>0, <1>1, <2>1, Together DEF SessionsTypeOK, RoleSet, PathKeeps
<1>3. PlaceIsRight(c)'
  BY <1>0, <1>1, <1>2 DEF PlaceIsRight, PathKeeps
<1>4. CASE SRTRecord(c) \/ SRTDegradeSample(c)
  <2>1. PICK v \in Nat : Tune(c, v) /\ sampler[c] = "on" /\ UNCHANGED sessionsVars
    BY <1>0, <1>4, LatenciesAreNat DEF SRTRecord, SRTDegradeSample, Sampling
  <2>. QED
    BY <1>0, <1>2, <1>3, <2>1, TuneMoves
<1>5. CASE SRTMarkRaiseClose(c) \/ SRTRaiseClose(c) \/ SRTLossDisconnect(c) \/ SRTSamplerEnds(c)
  <2>1. /\ UNCHANGED <<degrading, latency, given, overtaken>> /\ raiseMark' \in BOOLEAN
        /\ \E v \in {"on", "off", "marked"} : sampler' = [sampler EXCEPT ![c] = v]
    BY <1>0, <1>5 DEF SRTMarkRaiseClose, SRTRaiseClose, SRTLossDisconnect, SRTSamplerEnds, SRTTypeOK
  <2>2. SRTTypeOK' /\ \A d \in Conns : d # c => sampler'[d] = sampler[d]
    BY <1>0, <2>1 DEF SRTTypeOK
  <2>3. LatencyIsRight(c)'
    <3>1. CASE SRTMarkRaiseClose(c)
      <4>1. sampler[c] = "raised" /\ sampler'[c] = "marked" /\ ctxDone' = ctxDone
        BY <1>0, <3>1 DEF SRTMarkRaiseClose, SRTTypeOK, sessionsVars
      <4>. QED
        BY <1>0, <1>1, <2>1, <4>1 DEF LatencyIsRight
    <3>2. CASE SRTRaiseClose(c) \/ SRTLossDisconnect(c)
      <4>1. sampler[c] # "off" /\ ctxDone'[c]
        BY <1>0, <3>2, OnlyCancels, <1>1 DEF SRTRaiseClose, SRTLossDisconnect
      <4>. QED
        BY <1>0, <1>1, <2>1, <4>1 DEF LatencyIsRight
    <3>3. CASE SRTSamplerEnds(c)
      <4>1. sampler[c] = "on" /\ sampler'[c] = "off" /\ ctxDone' = ctxDone
        BY <1>0, <3>3 DEF SRTSamplerEnds, SRTTypeOK, sessionsVars
      <4>. QED
        BY <1>0, <1>1, <2>1, <4>1 DEF LatencyIsRight
    <3>. QED
      BY <1>5, <3>1, <3>2, <3>3
  <2>. QED
    BY <1>0, <1>2, <1>3, <2>1, <2>2, <2>3, LatenciesStay
<1>. QED
  BY <1>4, <1>5

LEMMA SRTStep ==
    ASSUME Inv, proto = "srt", SRTNext, UNCHANGED <<rtspVars, moqVars, webrtcVars, degradeVars>>
    PROVE  Inv'
<1>0. SessionsTypeOK /\ \A d \in Conns : PlaceIsRight(d)
  BY DEF Inv, TypeOK, PhaseDriven
<1>1. PICK c \in Conns :
        \/ SRTSessionStep(c)
        \/ SRTRecord(c) \/ SRTDegradeSample(c) \/ SRTMarkRaiseClose(c)
        \/ SRTRaiseClose(c) \/ SRTLossDisconnect(c) \/ SRTSamplerEnds(c)
  BY DEF SRTNext, SRTSessionStep
<1>2. SessionMoves(c) /\ PlaceIsRight(c)' /\ SRTTypeOK' /\ \A d \in Conns : LatencyIsRight(d)'
  BY <1>1, SRTSessionMoves, SamplerMoves
<1>3. /\ RTSPTypeOK' /\ MoQTypeOK' /\ WebRTCTypeOK' /\ DegradeTypeOK'
      /\ LadderHolds' /\ \A d \in Conns : ExecutorIsRight(d)'
  BY DegradeSame DEF Inv, TypeOK, RTSPTypeOK, MoQTypeOK, WebRTCTypeOK,
     rtspVars, moqVars, webrtcVars
<1>4. proto' = "srt" /\ SessionsTypeOK'
  BY <1>2 DEF SessionMoves
<1>5. OthersRest'
  BY <1>4 DEF Inv, OthersRest, moqVars, rtspVars, webrtcVars
<1>. QED
  BY <1>0, <1>2, <1>3, <1>4, <1>5, PlacesStay DEF Inv, TypeOK, PhaseDriven

(***************************************************************************)
(* WebRTC.                                                                 *)
(***************************************************************************)
LEMMA WebRTCStays ==
    ASSUME NEW c \in Conns, SessionMoves(c), WebRTCIsRight(c)', \A d \in Conns : WebRTCIsRight(d),
           \A d \in Conns : d # c => (d \in subscribed' => d \in subscribed)
    PROVE  \A d \in Conns : WebRTCIsRight(d)'
<1>1. ASSUME NEW d \in Conns, d # c PROVE WebRTCIsRight(d)'
  BY <1>1 DEF SessionMoves, Untouched, PathKeeps, WebRTCIsRight
<1>. QED
  BY <1>1

(* Contexts end, and nothing else: a kick, of any number of sessions.      *)
LEMMA CancelsPlaces ==
    ASSUME SessionsTypeOK, NEW S, Cancel(S) \/ ctxDone' = ctxDone,
           UNCHANGED <<proto, server, publisher, readers, phase, role>>, table' \subseteq Conns,
           \A d \in Conns : PlaceIsRight(d)
    PROVE  SessionsTypeOK' /\ \A d \in Conns : PlaceIsRight(d)'
<1>1. PathTypes /\ \A d \in Conns : PathKeeps(d)
  BY PathSame, OnlyCancels
<1>2. SessionsTypeOK'
  BY <1>1 DEF SessionsTypeOK, PathTypes
<1>3. ASSUME NEW d \in Conns PROVE PlaceIsRight(d)'
  BY <1>1 DEF PathKeeps, PlaceIsRight
<1>. QED
  BY <1>2, <1>3

(* The goroutine of a session and its POST handler.                        *)
WebRTCSessionStep(c) ==
    \/ OnWHIPPost(c) \/ WebRTCNewSession(c) \/ InitialRequest(c) \/ RequestTerminated(c)
    \/ PublishAnswer(c) \/ WebRTCAddReader(c) \/ ReadAnswer(c) \/ Connected(c)
    \/ ConnectFails(c) \/ WebRTCAddPublisher(c) \/ WebRTCPublish(c) \/ Stops(c)
    \/ WebRTCLeave(c) \/ WebRTCCloseSession(c)

LEMMA WebRTCSessionMoves ==
    ASSUME SessionsTypeOK, NEW c \in Conns, PlaceIsRight(c), WebRTCIsRight(c), WebRTCSessionStep(c)
    PROVE  /\ SessionMoves(c) /\ PlaceIsRight(c)' /\ WebRTCIsRight(c)'
           /\ \A d \in Conns : d # c => (d \in subscribed' => d \in subscribed)
<1>. USE DEF Phases, RoleSet
<1>1. CASE OnWHIPPost(c)
  <2>1. UNCHANGED subscribed /\ Arrives(c)
    BY <1>1 DEF OnWHIPPost
  <2>. QED
    BY <2>1, ArrivesMoves DEF PlaceIsRight, WebRTCIsRight
<1>2. CASE WebRTCNewSession(c)
  <2>1. /\ UNCHANGED <<proto, server, publisher, readers, ctxDone, subscribed>> /\ phase[c] = "accepted"
        /\ table' \subseteq Conns
        /\ \/ /\ Goto(c, "request") /\ \E r \in {"read", "publish"} : SetRole(c, r)
           \/ Goto(c, "gone") /\ role' = role
    BY <1>2 DEF WebRTCNewSession, pathVars, SessionsTypeOK, At
  <2>2. /\ phase' \in [Conns -> Phases] /\ \A d \in Conns : d # c => phase'[d] = phase[d]
        /\ (phase'[c] = "request" /\ role'[c] \in {"read", "publish"}) \/ phase'[c] = "gone"
    BY <2>1, GotoMoves DEF SetRole, SessionsTypeOK
  <2>3. SessionMoves(c)
    BY <2>1, <2>2, PathSame, Together DEF SessionsTypeOK
  <2>. QED
    BY <2>1, <2>2, <2>3 DEF PlaceIsRight, WebRTCIsRight
<1>3. CASE InitialRequest(c)
  <2>1. /\ Moves(c, "request", IF role[c] = "publish" THEN "handshake" ELSE "addReader")
        /\ UNCHANGED <<role, subscribed>>
    BY <1>3 DEF InitialRequest, Moves
  <2>. QED
    BY <2>1, MovesMoves DEF PlaceIsRight, WebRTCIsRight
<1>4. CASE RequestTerminated(c)
  <2>1. UNCHANGED <<role, subscribed>>
    BY <1>4 DEF RequestTerminated
  <2>2. CASE Moves(c, "request", "closing")
    BY <2>1, <2>2, MovesMoves DEF PlaceIsRight, WebRTCIsRight
  <2>3. CASE UNCHANGED <<serverVars, pathVars, phase, ctxDone>>
    <3>1. UNCHANGED <<proto, server, table, publisher, readers, phase, ctxDone>>
      BY <2>3 DEF serverVars, pathVars
    <3>2. SessionMoves(c)
      BY <2>1, <3>1, PathSame, Together DEF SessionsTypeOK
    <3>. QED
      BY <2>1, <3>1, <3>2 DEF PlaceIsRight, WebRTCIsRight
  <2>. QED
    BY <1>4, <2>2, <2>3 DEF RequestTerminated
<1>5. CASE PublishAnswer(c)
  <2>1. /\ Moves(c, "handshake", "connect") \/ Moves(c, "handshake", "closing")
        /\ UNCHANGED <<role, subscribed>>
    BY <1>5 DEF PublishAnswer
  <2>. QED
    BY <2>1, MovesMoves DEF PlaceIsRight, WebRTCIsRight
<1>6. CASE WebRTCAddReader(c)
  <2>1. AnswerReader(c, "joined", "closing") /\ UNCHANGED subscribed
    BY <1>6 DEF WebRTCAddReader
  <2>. QED
    BY <2>1, AnswerReaderMoves DEF PlaceIsRight, WebRTCIsRight
<1>7. CASE ReadAnswer(c)
  <2>1. /\ Moves(c, "joined", "connect") \/ Moves(c, "joined", "leaving")
        /\ UNCHANGED <<role, subscribed>>
    BY <1>7 DEF ReadAnswer
  <2>. QED
    BY <2>1, MovesMoves DEF PlaceIsRight, WebRTCIsRight
<1>8. CASE Connected(c)
  <2>1. CASE role[c] = "publish" /\ Moves(c, "connect", "addPublisher") /\ UNCHANGED <<role, subscribed>>
    BY <2>1, MovesMoves DEF PlaceIsRight, WebRTCIsRight
  <2>2. CASE /\ role[c] = "read" /\ Moves(c, "connect", "reading")
             /\ subscribed' = subscribed \cup {c} /\ UNCHANGED role
    BY <2>2, MovesMoves DEF PlaceIsRight, WebRTCIsRight
  <2>. QED
    BY <1>8, <2>1, <2>2 DEF Connected
<1>9. CASE ConnectFails(c)
  <2>1. /\ Moves(c, "connect", IF role[c] = "read" THEN "leaving" ELSE "closing")
        /\ UNCHANGED <<role, subscribed>>
    BY <1>9 DEF ConnectFails, webrtcVars
  <2>. QED
    BY <2>1, MovesMoves DEF PlaceIsRight, WebRTCIsRight
<1>10. CASE WebRTCAddPublisher(c)
  <2>1. AnswerPublisher(c, "added", "closing") /\ UNCHANGED subscribed
    BY <1>10 DEF WebRTCAddPublisher, webrtcVars
  <2>. QED
    BY <2>1, AnswerPublisherMoves DEF PlaceIsRight, WebRTCIsRight
<1>11. CASE WebRTCPublish(c)
  <2>1. Moves(c, "added", "publishing") /\ UNCHANGED <<role, subscribed>>
    BY <1>11 DEF WebRTCPublish, webrtcVars
  <2>. QED
    BY <2>1, MovesMoves DEF PlaceIsRight, WebRTCIsRight
<1>12. CASE Stops(c)
  <2>1. /\ Moves(c, phase[c], "leaving") /\ phase[c] \in {"reading", "publishing"}
        /\ subscribed' = subscribed \ {c} /\ UNCHANGED role
    BY <1>12 DEF Stops
  <2>. QED
    BY <2>1, MovesMoves DEF PlaceIsRight, WebRTCIsRight
<1>13. CASE WebRTCLeave(c)
  <2>1. LeavesPath(c) /\ UNCHANGED subscribed
    BY <1>13 DEF WebRTCLeave
  <2>. QED
    BY <2>1, LeavesPathMoves DEF PlaceIsRight, WebRTCIsRight
<1>14. CASE WebRTCCloseSession(c)
  <2>1. /\ UNCHANGED <<proto, server, publisher, readers, role, subscribed>> /\ phase[c] = "closing"
        /\ table' \subseteq Conns /\ Goto(c, "gone") /\ Cancel({c})
    BY <1>14 DEF WebRTCCloseSession, pathVars, webrtcVars, SessionsTypeOK, At
  <2>2. PathTypes /\ \A d \in Conns : PathKeeps(d)
    BY <2>1, OnlyCancels
  <2>3. SessionMoves(c)
    BY <2>1, <2>2, GotoMoves, Together DEF SessionsTypeOK, PathKeeps
  <2>. QED
    BY <2>1, <2>3, GotoMoves DEF PlaceIsRight, WebRTCIsRight
<1>. QED
  BY <1>1, <1>2, <1>3, <1>4, <1>5, <1>6, <1>7, <1>8, <1>9, <1>10, <1>11, <1>12, <1>13, <1>14
     DEF WebRTCSessionStep

(* What runs beside it: the sockets, the PATCH handlers, and the kicks.    *)
WebRTCSideStep ==
    \/ \E c \in Conns : LossRecycle(c) \/ OnWHIPPatch(c) \/ PatchAnswered(c)
    \/ \E S \in SUBSET Conns : WebRTCKick(S)
    \/ \E w \in Sockets :
        \/ \E c \in Conns : ABRConnect(w, c)
        \/ ABRBind(w) \/ ABRGivesUp(w) \/ ABRClientLeaves(w) \/ ABRHandlerEnds(w)

LEMMA WebRTCSideMoves ==
    ASSUME SessionsTypeOK, WebRTCSideStep
    PROVE  /\ UNCHANGED <<proto, server, publisher, readers, phase, role, subscribed>>
           /\ table' \subseteq Conns
           /\ ctxDone' = ctxDone \/ \E S \in SUBSET Conns : Cancel(S)
<1>. USE DEF sessionsVars, serverVars, pathVars, SessionsTypeOK
<1>1. CASE \E c \in Conns : LossRecycle(c)
  BY <1>1 DEF LossRecycle, CloseSession
<1>2. CASE \E c \in Conns : OnWHIPPatch(c) \/ PatchAnswered(c)
  BY <1>2 DEF OnWHIPPatch, PatchAnswered
<1>3. CASE \E S \in SUBSET Conns : WebRTCKick(S)
  BY <1>3 DEF WebRTCKick
<1>4. CASE \E w \in Sockets :
        \/ \E c \in Conns : ABRConnect(w, c)
        \/ ABRBind(w) \/ ABRGivesUp(w) \/ ABRClientLeaves(w) \/ ABRHandlerEnds(w)
  BY <1>4 DEF ABRConnect, ABRBind, ABRGivesUp, ABRClientLeaves, ABRHandlerEnds
<1>. QED
  BY <1>1, <1>2, <1>3, <1>4 DEF WebRTCSideStep

LEMMA WebRTCTypes ==
    ASSUME WebRTCTypeOK, WebRTCNext
    PROVE  WebRTCTypeOK'
<1>. USE DEF WebRTCTypeOK, socketVars, webrtcVars
<1>1. ASSUME NEW c \in Conns, WebRTCSessionStep(c) PROVE WebRTCTypeOK'
  <2>1. UNCHANGED socketVars /\ UNCHANGED patch
    BY <1>1 DEF WebRTCSessionStep, OnWHIPPost, WebRTCNewSession, InitialRequest, RequestTerminated,
       PublishAnswer, WebRTCAddReader, ReadAnswer, Connected, ConnectFails, WebRTCAddPublisher,
       WebRTCPublish, Stops, WebRTCLeave, WebRTCCloseSession
  <2>2. abrReady' \subseteq Conns /\ subscribed' \subseteq Conns
    BY <1>1 DEF WebRTCSessionStep, OnWHIPPost, WebRTCNewSession, InitialRequest, RequestTerminated,
       PublishAnswer, WebRTCAddReader, ReadAnswer, Connected, ConnectFails, WebRTCAddPublisher,
       WebRTCPublish, Stops, WebRTCLeave, WebRTCCloseSession
  <2>3. post' = post \/ \E v \in {"calling", "waiting", "answered", post[c]} : Post(c, v)
    BY <1>1 DEF WebRTCSessionStep, OnWHIPPost, WebRTCNewSession, InitialRequest, RequestTerminated,
       PublishAnswer, WebRTCAddReader, ReadAnswer, Connected, ConnectFails, WebRTCAddPublisher,
       WebRTCPublish, Stops, WebRTCLeave, WebRTCCloseSession, AnswerIfWaiting, Post
  <2>4. post' \in [Conns -> {"none", "calling", "waiting", "answered"}]
    BY <2>3 DEF Post
  <2>. QED
    BY <2>1, <2>2, <2>4
<1>2. CASE \E c \in Conns : LossRecycle(c)
  BY <1>2 DEF LossRecycle, CloseSession
<1>3. CASE \E c \in Conns : OnWHIPPatch(c) \/ PatchAnswered(c)
  BY <1>3 DEF OnWHIPPatch, PatchAnswered
<1>4. CASE \E S \in SUBSET Conns : WebRTCKick(S)
  BY <1>4 DEF WebRTCKick
<1>5. ASSUME NEW w \in Sockets, \E c \in Conns : ABRConnect(w, c) PROVE WebRTCTypeOK'
  BY <1>5 DEF ABRConnect, Sock
<1>6. ASSUME NEW w \in Sockets, ABRBind(w) PROVE WebRTCTypeOK'
  BY <1>6 DEF ABRBind
<1>7. ASSUME NEW w \in Sockets, ABRGivesUp(w) \/ ABRClientLeaves(w) PROVE WebRTCTypeOK'
  BY <1>7 DEF ABRGivesUp, ABRClientLeaves, Sock
<1>8. ASSUME NEW w \in Sockets, ABRHandlerEnds(w) PROVE WebRTCTypeOK'
  BY <1>8 DEF ABRHandlerEnds, Sock
<1>. QED
  BY <1>1, <1>2, <1>3, <1>4, <1>5, <1>6, <1>7, <1>8 DEF WebRTCNext, WebRTCSessionStep

LEMMA WebRTCStep ==
    ASSUME Inv, proto = "webrtc", WebRTCNext, UNCHANGED <<srtVars, rtspVars, moqVars, degradeVars>>
    PROVE  Inv'
<1>0. /\ SessionsTypeOK /\ WebRTCTypeOK
      /\ \A d \in Conns : PlaceIsRight(d) /\ WebRTCIsRight(d)
  BY DEF Inv, TypeOK, PhaseDriven
<1>1. \/ \E c \in Conns : WebRTCSessionStep(c)
      \/ WebRTCSideStep
  BY DEF WebRTCNext, WebRTCSessionStep, WebRTCSideStep
<1>2. /\ SessionsTypeOK' /\ proto' = proto
      /\ \A d \in Conns : PlaceIsRight(d)' /\ WebRTCIsRight(d)'
  <2>1. ASSUME NEW c \in Conns, WebRTCSessionStep(c)
        PROVE  /\ SessionsTypeOK' /\ proto' = proto
               /\ \A d \in Conns : PlaceIsRight(d)' /\ WebRTCIsRight(d)'
    <3>1. /\ SessionMoves(c) /\ PlaceIsRight(c)' /\ WebRTCIsRight(c)'
          /\ \A d \in Conns : d # c => (d \in subscribed' => d \in subscribed)
      BY <1>0, <2>1, WebRTCSessionMoves
    <3>2. \A d \in Conns : PlaceIsRight(d)'
      BY <1>0, <3>1, PlacesStay
    <3>3. \A d \in Conns : WebRTCIsRight(d)'
      BY <1>0, <3>1, WebRTCStays
    <3>. QED
      BY <3>1, <3>2, <3>3 DEF SessionMoves
  <2>2. CASE WebRTCSideStep
    <3>1. /\ UNCHANGED <<proto, server, publisher, readers, phase, role, subscribed>>
          /\ table' \subseteq Conns
          /\ ctxDone' = ctxDone \/ \E S \in SUBSET Conns : Cancel(S)
      BY <1>0, <2>2, WebRTCSideMoves
    <3>2. SessionsTypeOK' /\ \A d \in Conns : PlaceIsRight(d)'
      BY <1>0, <3>1, CancelsPlaces
    <3>3. \A d \in Conns : WebRTCIsRight(d)'
      BY <1>0, <3>1 DEF WebRTCIsRight
    <3>. QED
      BY <3>1, <3>2, <3>3
  <2>. QED
    BY <1>1, <2>1, <2>2
<1>3. /\ SRTTypeOK' /\ RTSPTypeOK' /\ MoQTypeOK' /\ DegradeTypeOK'
      /\ LadderHolds' /\ \A d \in Conns : ExecutorIsRight(d)'
  BY DegradeSame DEF Inv, TypeOK, RTSPTypeOK, MoQTypeOK, SRTTypeOK, rtspVars, moqVars, srtVars
<1>4. WebRTCTypeOK'
  BY <1>0, WebRTCTypes
<1>5. OthersRest'
  BY <1>2 DEF Inv, OthersRest, moqVars, rtspVars
<1>. QED
  BY <1>2, <1>3, <1>4, <1>5 DEF Inv, TypeOK, PhaseDriven

(***************************************************************************)
(* MoQ.                                                                    *)
(***************************************************************************)
(* The goroutines of session c change the record of c, and failures last.  *)
MoQMoves(c) ==
    /\ failed[c] => failed'[c]
    /\ \A d \in Conns : d # c => moqPath'[d] = moqPath[d] /\ subs'[d] = subs[d] /\ failed'[d] = failed[d]

LEMMA MoQStays ==
    ASSUME NEW c \in Conns, SessionMoves(c), MoQMoves(c), MoQIsRight(c)', \A d \in Conns : MoQIsRight(d)
    PROVE  \A d \in Conns : MoQIsRight(d)'
<1>1. ASSUME NEW d \in Conns, d # c PROVE MoQIsRight(d)'
  <2>1. /\ phase'[d] = phase[d] /\ role'[d] = role[d] /\ PathKeeps(d)
        /\ moqPath'[d] = moqPath[d] /\ subs'[d] = subs[d] /\ failed'[d] = failed[d]
        /\ server # "running" => server' # "running"
    BY <1>1 DEF SessionMoves, Untouched, MoQMoves
  <2>2. Broken(d) => Broken(d)'
    BY <2>1 DEF Broken, Cancelled, PathKeeps
  <2>3. ~ctxDone[d]' => ~ctxDone[d]
    BY <2>1 DEF PathKeeps
  <2>4. Broken(d)' \/ ~ctxDone[d]'
    BY DEF Broken, Cancelled
  <2>. QED
    BY <2>1, <2>2, <2>3, <2>4 DEF MoQIsRight, PathKeeps, Alive
<1>. QED
  BY <1>1

LEMMA FailsMoves ==
    ASSUME MoQTypeOK, NEW c \in Conns, Fails(c)
    PROVE  /\ failed' \in [Conns -> BOOLEAN] /\ failed'[c]
           /\ \A d \in Conns : d # c => failed'[d] = failed[d]
BY DEF MoQTypeOK, Fails

(* The streams of a session that leave the session where it is.            *)
MoQStreamStep(c) ==
    OnSetupMessage(c) \/ StreamFails(c) \/ OnDataCatalog(c) \/ OnSubscribeTrack(c) \/ TrackEnds(c)

LEMMA MoQStreamMoves ==
    ASSUME SessionsTypeOK, MoQTypeOK, NEW c \in Conns, MoQIsRight(c), MoQStreamStep(c)
    PROVE  SessionMoves(c) /\ MoQMoves(c) /\ MoQIsRight(c)' /\ MoQTypeOK'
<1>1. UNCHANGED <<proto, server, table, publisher, readers, phase, ctxDone, role, moqPath>>
  BY DEF MoQStreamStep, OnSetupMessage, StreamFails, OnDataCatalog, OnSubscribeTrack, TrackEnds,
         sessionsVars, serverVars, pathVars
<1>2. SessionMoves(c)
  BY <1>1, PathSame, Together DEF SessionsTypeOK, RoleSet
<1>3. /\ setup' \in [Conns -> BOOLEAN] /\ catalog' \in [Conns -> {"none", "sent", "taken"}]
      /\ failed' = failed \/ Fails(c)
  <2>1. CASE OnSetupMessage(c)
    BY <2>1 DEF OnSetupMessage, MoQTypeOK
  <2>2. CASE StreamFails(c) \/ OnSubscribeTrack(c) \/ TrackEnds(c)
    BY <2>2 DEF StreamFails, OnSubscribeTrack, TrackEnds, MoQTypeOK
  <2>3. CASE OnDataCatalog(c)
    BY <2>3 DEF OnDataCatalog, MoQTypeOK
  <2>. QED
    BY <2>1, <2>2, <2>3 DEF MoQStreamStep
<1>4. /\ failed' \in [Conns -> BOOLEAN] /\ (failed[c] => failed'[c])
      /\ \A d \in Conns : d # c => failed'[d] = failed[d]
  BY <1>3, FailsMoves DEF MoQTypeOK
<1>5. /\ subs' \in [Conns -> SUBSET MoQTracks] /\ \A d \in Conns : d # c => subs'[d] = subs[d]
      /\ subs'[c] # {} => subs[c] # {} \/ (phase[c] = "idle" /\ moqPath[c])
  <2>1. CASE OnSetupMessage(c) \/ StreamFails(c) \/ OnDataCatalog(c)
    BY <2>1 DEF OnSetupMessage, StreamFails, OnDataCatalog, MoQTypeOK
  <2>2. CASE OnSubscribeTrack(c)
    BY <2>2 DEF OnSubscribeTrack, MoQTypeOK, At
  <2>3. CASE TrackEnds(c)
    <3>1. PICK t \in subs[c] : subs' = [subs EXCEPT ![c] = @ \ {t}]
      BY <2>3 DEF TrackEnds
    <3>. QED
      BY <3>1 DEF MoQTypeOK
  <2>. QED
    BY <2>1, <2>2, <2>3 DEF MoQStreamStep
<1>6. MoQTypeOK' /\ MoQMoves(c)
  BY <1>1, <1>3, <1>4, <1>5 DEF MoQTypeOK, MoQMoves
<1>7. MoQIsRight(c)'
  BY <1>1, <1>4, <1>5 DEF MoQIsRight, Broken, Cancelled, Alive
<1>. QED
  BY <1>2, <1>6, <1>7

(* The steps that leave the record of the session as it is.                *)
MoQSessionStep(c) ==
    \/ Arrives(c) /\ UNCHANGED moqVars
    \/ MoQNewSession(c) \/ OnSubscribeCatalog(c) \/ OnPublishCatalog(c)
    \/ GroupEnds(c) \/ MoQLeave(c) \/ MoQCloseSession(c) \/ MoQKick(c)

LEMMA MoQSessionMoves ==
    ASSUME SessionsTypeOK, MoQTypeOK, NEW c \in Conns, MoQIsRight(c), MoQSessionStep(c)
    PROVE  SessionMoves(c) /\ MoQMoves(c) /\ MoQIsRight(c)' /\ MoQTypeOK'
<1>. USE DEF Phases, RoleSet
<1>0. UNCHANGED <<setup, catalog, moqPath, subs, failed>>
  BY DEF MoQSessionStep, MoQNewSession, OnSubscribeCatalog, OnPublishCatalog,
         GroupEnds, MoQLeave, MoQCloseSession, MoQKick, moqVars
<1>1. MoQTypeOK' /\ MoQMoves(c)
  BY <1>0 DEF MoQTypeOK, MoQMoves
<1>2. CASE Arrives(c)
  BY <1>0, <1>1, <1>2, ArrivesMoves DEF MoQIsRight, Broken, Cancelled, Alive
<1>3. CASE MoQNewSession(c)
  <2>1. LoopTakes(c, "idle")
    BY <1>3 DEF MoQNewSession
  <2>. QED
    BY <1>0, <1>1, <2>1, LoopTakesMoves DEF MoQIsRight, Broken, Cancelled, Alive
<1>4. CASE OnSubscribeCatalog(c) \/ OnPublishCatalog(c)
  <2>1. PICK r \in {"read", "publish"} :
          /\ Moves(c, "idle", IF r = "read" THEN "addReader" ELSE "handshake") /\ SetRole(c, r)
          /\ role[c] = "idle"
    BY <1>4 DEF OnSubscribeCatalog, OnPublishCatalog, Moves
  <2>2. /\ SessionMoves(c) /\ phase[c] = "idle" /\ phase'[c] = (IF r = "read" THEN "addReader" ELSE "handshake")
        /\ UNCHANGED <<readers, publisher, ctxDone, server, table>>
    BY <2>1, MovesMoves
  <2>3. role'[c] = r
    BY <2>1 DEF SetRole, SessionsTypeOK
  <2>. QED
    BY <1>0, <1>1, <2>1, <2>2, <2>3 DEF MoQIsRight, Broken, Cancelled, Alive
<1>5. CASE GroupEnds(c)
  <2>1. Moves(c, "idle", "leaving") /\ role' = role /\ Broken(c) /\ subs[c] = {}
    BY <1>5 DEF GroupEnds
  <2>. QED
    BY <1>0, <1>1, <2>1, MovesMoves DEF MoQIsRight, Broken, Cancelled, Alive
<1>6. CASE MoQLeave(c)
  <2>1. CASE moqPath[c] /\ role[c] # "idle"
    <3>1. LeavesPath(c)
      BY <1>6, <2>1 DEF MoQLeave, LeavesPath
    <3>. QED
      BY <1>0, <1>1, <3>1, LeavesPathMoves DEF MoQIsRight, Broken, Cancelled, Alive, SessionMoves
  <2>2. CASE ~(moqPath[c] /\ role[c] # "idle")
    <3>1. Moves(c, "leaving", "closing") /\ role' = role
      BY <1>6, <2>2 DEF MoQLeave, Moves
    <3>. QED
      BY <1>0, <1>1, <2>2, <3>1, MovesMoves DEF MoQIsRight, Broken, Cancelled, Alive
  <2>. QED
    BY <2>1, <2>2
<1>7. CASE MoQCloseSession(c)
  <2>1. LoopForgets(c)
    BY <1>7 DEF MoQCloseSession
  <2>. QED
    BY <1>0, <1>1, <2>1, LoopForgetsMoves DEF MoQIsRight, Broken, Cancelled, Alive
<1>8. CASE MoQKick(c)
  <2>1. UNCHANGED <<proto, server, table, publisher, readers, phase, role>> /\ Cancel({c})
    BY <1>8 DEF MoQKick, serverVars, pathVars
  <2>2. PathTypes /\ \A d \in Conns : PathKeeps(d) /\ (d \in {c} => ctxDone'[d])
    BY <2>1, OnlyCancels
  <2>3. SessionMoves(c)
    BY <2>1, <2>2, Together DEF SessionsTypeOK
  <2>. QED
    BY <1>0, <1>1, <2>1, <2>2, <2>3 DEF MoQIsRight, Broken, Cancelled, Alive
<1>. QED
  BY <1>2, <1>3, <1>4, <1>5, <1>6, <1>7, <1>8 DEF MoQSessionStep

(* The catalog's goroutine: the path answers, and the record is made.      *)
MoQCatalogStep(c) ==
    CatalogTaken(c) \/ CatalogGivenUp(c) \/ MoQAddPublisher(c) \/ MoQAddReader(c) \/ MoQFromStream(c)

LEMMA MoQCatalogMoves ==
    ASSUME SessionsTypeOK, MoQTypeOK, NEW c \in Conns, MoQIsRight(c), MoQCatalogStep(c)
    PROVE  SessionMoves(c) /\ MoQMoves(c) /\ MoQIsRight(c)' /\ MoQTypeOK'
<1>. USE DEF Phases, RoleSet
<1>0. UNCHANGED <<setup, subs, role>> /\ catalog' \in [Conns -> {"none", "sent", "taken"}]
  BY DEF MoQCatalogStep, CatalogTaken, CatalogGivenUp, MoQAddPublisher, MoQAddReader, MoQFromStream,
         AnswerReader, MoQTypeOK
<1>1. CASE CatalogTaken(c)
  <2>1. /\ UNCHANGED moqPath
        /\ \/ Moves(c, "handshake", "addPublisher") /\ UNCHANGED failed
           \/ Moves(c, "handshake", "idle") /\ Fails(c)
    BY <1>1 DEF CatalogTaken, Moves
  <2>2. CASE Moves(c, "handshake", "addPublisher") /\ UNCHANGED failed
    <3>1. MoQTypeOK' /\ MoQMoves(c)
      BY <1>0, <2>1, <2>2 DEF MoQTypeOK, MoQMoves
    <3>. QED
      BY <1>0, <2>1, <2>2, <3>1, MovesMoves DEF MoQIsRight, Broken, Cancelled, Alive
  <2>3. CASE Moves(c, "handshake", "idle") /\ Fails(c)
    <3>1. MoQTypeOK' /\ MoQMoves(c) /\ failed'[c]
      BY <1>0, <2>1, <2>3, FailsMoves DEF MoQTypeOK, MoQMoves
    <3>. QED
      BY <1>0, <2>1, <2>3, <3>1, MovesMoves DEF MoQIsRight, Broken, Cancelled, Alive
  <2>. QED
    BY <2>1, <2>2, <2>3
<1>2. CASE CatalogGivenUp(c)
  <2>1. UNCHANGED moqPath /\ Moves(c, "handshake", "idle") /\ Fails(c)
    BY <1>2 DEF CatalogGivenUp
  <2>2. MoQTypeOK' /\ MoQMoves(c) /\ failed'[c]
    BY <1>0, <2>1, FailsMoves DEF MoQTypeOK, MoQMoves
  <2>. QED
    BY <1>0, <2>1, <2>2, MovesMoves DEF MoQIsRight, Broken, Cancelled, Alive
<1>3. CASE MoQAddPublisher(c)
  <2>0. UNCHANGED <<proto, server, table, role>> /\ phase[c] = "addPublisher" /\ Goto(c, "idle")
    BY <1>3 DEF MoQAddPublisher, serverVars, At
  <2>1. CASE /\ PathTakesPublisher(c) /\ moqPath' = [moqPath EXCEPT ![c] = TRUE] /\ UNCHANGED failed
    <3>1. MoQTypeOK' /\ MoQMoves(c) /\ moqPath'[c]
      BY <1>0, <2>1 DEF MoQTypeOK, MoQMoves
    <3>2. publisher' = c /\ SetNotAvailable({publisher} \cap Conns)
      BY <2>1 DEF PathTakesPublisher
    <3>3. /\ PathTypes /\ readers' = {}
          /\ \A d \in Conns : ctxDone[d] => ctxDone'[d]
          /\ \A d \in Conns : d # c => PathKeeps(d)
      BY <3>2, TakesPublisher
    <3>4. SessionMoves(c)
      BY <2>0, <3>3, GotoMoves, Together DEF SessionsTypeOK
    <3>5. phase'[c] = "idle"
      BY <2>0, GotoMoves
    <3>. QED
      BY <1>0, <2>0, <2>1, <3>1, <3>2, <3>3, <3>4, <3>5 DEF MoQIsRight, Broken, Cancelled, Alive
  <2>2. CASE PathRefuses /\ Fails(c) /\ UNCHANGED moqPath
    <3>1. MoQTypeOK' /\ MoQMoves(c) /\ failed'[c]
      BY <1>0, <2>2, FailsMoves DEF MoQTypeOK, MoQMoves
    <3>2. Moves(c, "addPublisher", "idle")
      BY <2>0, <2>2 DEF Moves, PathRefuses, At, serverVars, pathVars
    <3>. QED
      BY <1>0, <2>2, <3>1, <3>2, MovesMoves DEF MoQIsRight, Broken, Cancelled, Alive
  <2>. QED
    BY <1>3, <2>1, <2>2 DEF MoQAddPublisher
<1>4. CASE MoQAddReader(c)
  <2>1. /\ AnswerReader(c, "joined", "idle") /\ UNCHANGED moqPath
        /\ failed' = [failed EXCEPT ![c] = @ \/ phase'[c] = "idle"]
    BY <1>4 DEF MoQAddReader
  <2>2. /\ failed' \in [Conns -> BOOLEAN] /\ (failed'[c] <=> (failed[c] \/ phase'[c] = "idle"))
        /\ \A d \in Conns : d # c => failed'[d] = failed[d]
    BY <2>1 DEF MoQTypeOK
  <2>3. MoQTypeOK' /\ MoQMoves(c)
    BY <1>0, <2>1, <2>2 DEF MoQTypeOK, MoQMoves
  <2>4. /\ SessionMoves(c) /\ phase[c] = "addReader" /\ UNCHANGED <<publisher, ctxDone, server, table>>
        /\ \/ phase'[c] = "joined" /\ c \in readers'
           \/ phase'[c] = "idle" /\ readers' = readers
    BY <2>1, AnswerReaderMoves
  <2>5. MoQIsRight(c)'
    BY <1>0, <2>1, <2>2, <2>4 DEF MoQIsRight, Broken, Cancelled, Alive
  <2>. QED
    BY <2>3, <2>4, <2>5
<1>5. CASE MoQFromStream(c)
  <2>0. UNCHANGED <<proto, server, table, role>> /\ phase[c] = "joined" /\ Goto(c, "idle")
    BY <1>5 DEF MoQFromStream, serverVars, At
  <2>1. CASE moqPath' = [moqPath EXCEPT ![c] = TRUE] /\ UNCHANGED <<pathVars, ctxDone, failed>>
    <3>1. MoQTypeOK' /\ MoQMoves(c) /\ moqPath'[c]
      BY <1>0, <2>1 DEF MoQTypeOK, MoQMoves
    <3>2. Moves(c, "joined", "idle") /\ UNCHANGED failed
      BY <2>0, <2>1 DEF Moves, At, serverVars
    <3>. QED
      BY <1>0, <3>1, <3>2, MovesMoves DEF MoQIsRight, Broken, Cancelled, Alive
  <2>2. CASE PathForgets(c) /\ Fails(c) /\ UNCHANGED moqPath
    <3>1. MoQTypeOK' /\ MoQMoves(c) /\ failed'[c]
      BY <1>0, <2>2, FailsMoves DEF MoQTypeOK, MoQMoves
    <3>2. PathForgetsAndCloses(c, {})
      BY <2>2 DEF PathForgets
    <3>3. /\ PathTypes /\ c \notin readers' /\ c # publisher'
          /\ \A d \in Conns : ctxDone[d] \/ d \in {} => ctxDone'[d]
          /\ \A d \in Conns : d # c => PathKeeps(d)
      BY <3>2, Forgets
    <3>4. SessionMoves(c)
      BY <2>0, <3>3, GotoMoves, Together DEF SessionsTypeOK
    <3>5. phase'[c] = "idle"
      BY <2>0, GotoMoves
    <3>. QED
      BY <1>0, <2>0, <2>2, <3>1, <3>3, <3>4, <3>5 DEF MoQIsRight, Broken, Cancelled, Alive
  <2>. QED
    BY <1>5, <2>1, <2>2 DEF MoQFromStream
<1>. QED
  BY <1>1, <1>2, <1>3, <1>4, <1>5 DEF MoQCatalogStep

LEMMA MoQStep ==
    ASSUME Inv, proto = "moq", MoQNext, UNCHANGED <<srtVars, rtspVars, webrtcVars, degradeVars>>
    PROVE  Inv'
<1>0. SessionsTypeOK /\ MoQTypeOK /\ \A d \in Conns : MoQIsRight(d)
  BY DEF Inv, TypeOK
<1>1. PICK c \in Conns : MoQSessionStep(c) \/ MoQStreamStep(c) \/ MoQCatalogStep(c)
  BY DEF MoQNext, MoQSessionStep, MoQStreamStep, MoQCatalogStep
<1>2. SessionMoves(c) /\ MoQMoves(c) /\ MoQIsRight(c)' /\ MoQTypeOK'
  BY <1>0, <1>1, MoQSessionMoves, MoQStreamMoves, MoQCatalogMoves
<1>3. /\ SRTTypeOK' /\ RTSPTypeOK' /\ WebRTCTypeOK' /\ DegradeTypeOK'
      /\ LadderHolds' /\ \A d \in Conns : ExecutorIsRight(d)'
  BY DegradeSame DEF Inv, TypeOK, RTSPTypeOK, WebRTCTypeOK, SRTTypeOK, rtspVars, webrtcVars, srtVars
<1>4. proto' = "moq" /\ SessionsTypeOK'
  BY <1>2 DEF SessionMoves
<1>5. OthersRest'
  BY <1>4 DEF Inv, OthersRest, rtspVars, webrtcVars
<1>6. \A d \in Conns : MoQIsRight(d)'
  BY <1>0, <1>2, MoQStays
<1>. QED
  BY <1>2, <1>3, <1>4, <1>5, <1>6 DEF Inv, TypeOK, PhaseDriven

(***************************************************************************)
(* RTSP.                                                                   *)
(***************************************************************************)
(* A step of session c leaves the state of the others alone.               *)
RTSPMoves(c) ==
    \A d \in Conns : d # c =>
        /\ rstate'[d] = rstate[d] /\ attached'[d] = attached[d] /\ demuxer'[d] = demuxer[d]
        /\ hookOn'[d] = hookOn[d] /\ kickedLate'[d] = kickedLate[d]
        /\ (d \in table' <=> d \in table)

LEMMA RTSPStays ==
    ASSUME NEW c \in Conns, SessionMoves(c), RTSPMoves(c), RTSPIsRight(c)', RTSPLeaves(c)',
           \A d \in Conns : RTSPIsRight(d) /\ RTSPLeaves(d)
    PROVE  \A d \in Conns : RTSPIsRight(d)' /\ RTSPLeaves(d)'
<1>1. ASSUME NEW d \in Conns, d # c PROVE RTSPIsRight(d)' /\ RTSPLeaves(d)'
  <2>1. /\ phase'[d] = phase[d] /\ PathKeeps(d)
        /\ rstate'[d] = rstate[d] /\ attached'[d] = attached[d] /\ demuxer'[d] = demuxer[d]
        /\ hookOn'[d] = hookOn[d] /\ kickedLate'[d] = kickedLate[d]
        /\ (d \in table' <=> d \in table)
    BY <1>1 DEF SessionMoves, Untouched, RTSPMoves
  <2>2. RTSPIsRight(d)'
    BY <2>1 DEF RTSPIsRight, PathKeeps
  <2>3. RTSPLeaves(d)'
    BY <2>1 DEF RTSPLeaves, PathKeeps
  <2>. QED
    BY <2>2, <2>3
<1>. QED
  BY <1>1

(* Each assignment of a handler is to the state of its own session.        *)
LEMMA AttachMoves ==
    ASSUME RTSPTypeOK, NEW c \in Conns, NEW v \in BOOLEAN, Attach(c, v)
    PROVE  /\ attached' \in [Conns -> BOOLEAN] /\ attached'[c] = v
           /\ \A d \in Conns : d # c => attached'[d] = attached[d]
BY DEF RTSPTypeOK, Attach

LEMMA DemuxerMoves ==
    ASSUME RTSPTypeOK, NEW c \in Conns, NEW v \in {"none", "armed", "init", "call", "publishing", "over"},
           Demuxer(c, v)
    PROVE  /\ demuxer' \in [Conns -> {"none", "armed", "init", "call", "publishing", "over"}] /\ demuxer'[c] = v
           /\ \A d \in Conns : d # c => demuxer'[d] = demuxer[d]
BY DEF RTSPTypeOK, Demuxer

LEMMA HookMoves ==
    ASSUME RTSPTypeOK, NEW c \in Conns, NEW v \in BOOLEAN, Hook(c, v)
    PROVE  /\ hookOn' \in [Conns -> BOOLEAN] /\ hookOn'[c] = v
           /\ \A d \in Conns : d # c => hookOn'[d] = hookOn[d]
BY DEF RTSPTypeOK, Hook

LEMMA LateMoves ==
    ASSUME RTSPTypeOK, NEW c \in Conns, Late(c)
    PROVE  /\ kickedLate' \in [Conns -> BOOLEAN] /\ (kickedLate'[c] <=> (kickedLate[c] \/ c \notin table))
           /\ \A d \in Conns : d # c => kickedLate'[d] = kickedLate[d]
BY DEF RTSPTypeOK, Late

LEMMA OnCloseMoves ==
    ASSUME SessionsTypeOK, RTSPTypeOK, NEW c \in Conns, NEW S, OnClose(c, S)
    PROVE  /\ PathTypes /\ \A d \in Conns : d # c => PathKeeps(d)
           /\ \A d \in Conns : ctxDone[d] \/ d \in S => ctxDone'[d]
           /\ c \in readers' => c \in readers
           /\ c = publisher' => c = publisher
           /\ rstate[c] \in {"prePlay", "play"} \/ (rstate[c] = "record" /\ attached[c]) =>
                c \notin readers' /\ c # publisher'
           /\ attached' \in [Conns -> BOOLEAN] /\ hookOn' \in [Conns -> BOOLEAN] /\ pipeOpen' \in [Conns -> BOOLEAN]
           /\ ~attached'[c] /\ (hookOn'[c] <=> (hookOn[c] /\ rstate[c] # "play"))
           /\ \A d \in Conns : d # c => attached'[d] = attached[d] /\ hookOn'[d] = hookOn[d]
<1>1. /\ hookOn' = [hookOn EXCEPT ![c] = @ /\ rstate[c] # "play"]
      /\ pipeOpen' = [pipeOpen EXCEPT ![c] = FALSE] /\ Attach(c, FALSE)
  BY DEF OnClose
<1>2. /\ hookOn' \in [Conns -> BOOLEAN] /\ (hookOn'[c] <=> (hookOn[c] /\ rstate[c] # "play"))
      /\ \A d \in Conns : d # c => hookOn'[d] = hookOn[d]
  BY <1>1 DEF RTSPTypeOK
<1>3. pipeOpen' \in [Conns -> BOOLEAN]
  BY <1>1 DEF RTSPTypeOK
<1>4. /\ attached' \in [Conns -> BOOLEAN] /\ ~attached'[c]
      /\ \A d \in Conns : d # c => attached'[d] = attached[d]
  BY <1>1, AttachMoves
<1>5. CASE rstate[c] \in {"prePlay", "play"} \/ (rstate[c] = "record" /\ attached[c])
  <2>1. PathForgetsAndCloses(c, S)
    BY <1>5 DEF OnClose
  <2>2. /\ PathTypes /\ c \notin readers' /\ c # publisher'
        /\ \A d \in Conns : ctxDone[d] \/ d \in S => ctxDone'[d]
        /\ \A d \in Conns : d # c => PathKeeps(d)
    BY <2>1, Forgets
  <2>. QED
    BY <1>2, <1>3, <1>4, <2>2
<1>6. CASE ~(rstate[c] \in {"prePlay", "play"} \/ (rstate[c] = "record" /\ attached[c]))
  <2>1. Cancel(S) /\ UNCHANGED <<publisher, readers>>
    BY <1>6 DEF OnClose, pathVars
  <2>2. PathTypes /\ \A d \in Conns : PathKeeps(d) /\ (d \in S => ctxDone'[d])
    BY <2>1, OnlyCancels
  <2>. QED
    BY <1>2, <1>3, <1>4, <1>6, <2>1, <2>2 DEF PathKeeps
<1>. QED
  BY <1>5, <1>6

(* Opening, and the requests up to the answer of the path.                 *)
RTSPRequest(c) == OnSessionOpen(c) \/ OnAnnounce(c) \/ OnSetup(c) \/ OnPlay(c) \/ OnRecord(c)

LEMMA RTSPRequestMoves ==
    ASSUME SessionsTypeOK, RTSPTypeOK, NEW c \in Conns, RTSPIsRight(c), RTSPLeaves(c), RTSPRequest(c)
    PROVE  SessionMoves(c) /\ RTSPMoves(c) /\ RTSPTypeOK' /\ RTSPIsRight(c)' /\ RTSPLeaves(c)'
<1>. USE DEF Phases, RoleSet, Handler, At
<1>0. /\ UNCHANGED <<proto, server, publisher, readers, ctxDone, role>> /\ table' \subseteq Conns
  BY DEF RTSPRequest, OnSessionOpen, OnAnnounce, OnSetup, OnPlay, OnRecord, sessionsVars, serverVars,
         pathVars, SessionsTypeOK
<1>1. PathTypes /\ \A d \in Conns : PathKeeps(d)
  BY <1>0, PathSame
<1>2. CASE OnSessionOpen(c)
  <2>1. /\ UNCHANGED <<rstate, attached, demuxer, pipeOpen, hookOn, kickedLate, panicked>>
        /\ table' = table \cup {c} /\ phase[c] = "none" /\ Goto(c, "idle")
    BY <1>2 DEF OnSessionOpen, rtspVars
  <2>2. RTSPMoves(c) /\ RTSPTypeOK'
    BY <2>1 DEF RTSPMoves, RTSPTypeOK
  <2>3. SessionMoves(c) /\ phase'[c] = "idle"
    BY <1>0, <1>1, <2>1, GotoMoves, Together DEF SessionsTypeOK
  <2>4. RTSPIsRight(c)'
    BY <1>0, <2>1, <2>3 DEF RTSPIsRight
  <2>5. RTSPLeaves(c)'
    BY <1>0, <2>1, <2>3 DEF RTSPIsRight, RTSPLeaves
  <2>. QED
    BY <2>2, <2>3, <2>4, <2>5
<1>3. CASE OnAnnounce(c)
  <2>1. /\ UNCHANGED <<rstate, attached, pipeOpen, hookOn, kickedLate, panicked, table>>
        /\ phase[c] = "idle" /\ rstate[c] = "initial" /\ Goto(c, "toPreRecord")
    BY <1>3 DEF OnAnnounce, serverVars
  <2>2. PICK v \in {"none", "armed"} : Demuxer(c, v)
    BY <1>3 DEF OnAnnounce
  <2>4. /\ demuxer' \in [Conns -> {"none", "armed", "init", "call", "publishing", "over"}] /\ demuxer'[c] = v
        /\ \A d \in Conns : d # c => demuxer'[d] = demuxer[d]
    BY <2>2, DemuxerMoves
  <2>5. RTSPMoves(c) /\ RTSPTypeOK'
    BY <2>1, <2>4 DEF RTSPMoves, RTSPTypeOK
  <2>6. SessionMoves(c) /\ phase'[c] = "toPreRecord"
    BY <1>0, <1>1, <2>1, GotoMoves, Together DEF SessionsTypeOK
  <2>7. RTSPIsRight(c)'
    BY <1>0, <2>1, <2>4, <2>6 DEF RTSPIsRight
  <2>8. RTSPLeaves(c)'
    BY <1>0, <2>1, <2>4, <2>6 DEF RTSPIsRight, RTSPLeaves
  <2>. QED
    BY <2>5, <2>6, <2>7, <2>8
<1>4. CASE OnSetup(c)
  <2>1. /\ UNCHANGED <<rstate, attached, demuxer, pipeOpen, hookOn, panicked, table>>
        /\ phase[c] = "idle" /\ rstate[c] = "initial" /\ Goto(c, "addReader") /\ Late(c)
    BY <1>4 DEF OnSetup, serverVars
  <2>2. /\ kickedLate' \in [Conns -> BOOLEAN] /\ (kickedLate'[c] <=> (kickedLate[c] \/ c \notin table))
        /\ \A d \in Conns : d # c => kickedLate'[d] = kickedLate[d]
    BY <2>1, LateMoves
  <2>3. RTSPMoves(c) /\ RTSPTypeOK'
    BY <2>1, <2>2 DEF RTSPMoves, RTSPTypeOK
  <2>4. SessionMoves(c) /\ phase'[c] = "addReader"
    BY <1>0, <1>1, <2>1, GotoMoves, Together DEF SessionsTypeOK
  <2>5. RTSPIsRight(c)'
    BY <1>0, <2>1, <2>2, <2>4 DEF RTSPIsRight
  <2>6. RTSPLeaves(c)'
    BY <1>0, <2>1, <2>2, <2>4 DEF RTSPIsRight, RTSPLeaves
  <2>. QED
    BY <2>3, <2>4, <2>5, <2>6
<1>5. CASE OnPlay(c)
  <2>1. /\ UNCHANGED <<rstate, attached, demuxer, pipeOpen, kickedLate, table>>
        /\ phase[c] = "idle" /\ rstate[c] = "prePlay"
    BY <1>5 DEF OnPlay, serverVars
  <2>3. CASE attached[c]
    <3>1. Hook(c, TRUE) /\ Goto(c, "toPlay") /\ UNCHANGED panicked
      BY <1>5, <2>3 DEF OnPlay
    <3>2. SessionMoves(c) /\ phase'[c] = "toPlay"
      BY <1>0, <1>1, <2>1, <3>1, GotoMoves, Together DEF SessionsTypeOK
    <3>3. /\ hookOn' \in [Conns -> BOOLEAN] /\ hookOn'[c]
          /\ \A d \in Conns : d # c => hookOn'[d] = hookOn[d]
      BY <3>1, HookMoves
    <3>4. RTSPMoves(c) /\ RTSPTypeOK'
      BY <2>1, <3>1, <3>3 DEF RTSPMoves, RTSPTypeOK
    <3>5. RTSPIsRight(c)'
      BY <1>0, <2>1, <3>2 DEF RTSPIsRight
    <3>6. RTSPLeaves(c)'
      BY <1>0, <2>1, <2>3, <3>2, <3>3 DEF RTSPLeaves
    <3>. QED
      BY <3>2, <3>4, <3>5, <3>6
  <2>4. CASE ~attached[c]
    <3>1. panicked' = TRUE /\ UNCHANGED <<hookOn, phase>>
      BY <1>5, <2>4 DEF OnPlay
    <3>2. RTSPMoves(c) /\ RTSPTypeOK'
      BY <2>1, <3>1 DEF RTSPMoves, RTSPTypeOK
    <3>3. SessionMoves(c)
      BY <1>0, <1>1, <3>1, Together DEF SessionsTypeOK
    <3>. QED
      BY <1>0, <2>1, <3>1, <3>2, <3>3 DEF RTSPIsRight, RTSPLeaves
  <2>. QED
    BY <2>3, <2>4
<1>6. CASE OnRecord(c)
  <2>1. /\ UNCHANGED <<rstate, attached, hookOn, panicked, table>>
        /\ phase[c] = "idle" /\ rstate[c] = "preRecord" /\ Late(c)
    BY <1>6 DEF OnRecord, serverVars
  <2>2. /\ kickedLate' \in [Conns -> BOOLEAN] /\ (kickedLate'[c] <=> (kickedLate[c] \/ c \notin table))
        /\ \A d \in Conns : d # c => kickedLate'[d] = kickedLate[d]
    BY <2>1, LateMoves
  <2>3. CASE demuxer[c] = "none" /\ Goto(c, "addPublisher") /\ UNCHANGED <<demuxer, pipeOpen>>
    <3>1. RTSPMoves(c) /\ RTSPTypeOK'
      BY <2>1, <2>2, <2>3 DEF RTSPMoves, RTSPTypeOK
    <3>2. SessionMoves(c) /\ phase'[c] = "addPublisher"
      BY <1>0, <1>1, <2>1, <2>3, GotoMoves, Together DEF SessionsTypeOK
    <3>3. RTSPIsRight(c)'
      BY <1>0, <2>1, <2>2, <2>3, <3>2 DEF RTSPIsRight
    <3>4. RTSPLeaves(c)'
      BY <1>0, <2>1, <2>2, <2>3, <3>2 DEF RTSPIsRight, RTSPLeaves
    <3>. QED
      BY <3>1, <3>2, <3>3, <3>4
  <2>4. CASE /\ demuxer[c] = "armed" /\ Demuxer(c, "init") /\ pipeOpen' = [pipeOpen EXCEPT ![c] = TRUE]
             /\ Goto(c, "toRecord")
    <3>2. /\ demuxer' \in [Conns -> {"none", "armed", "init", "call", "publishing", "over"}] /\ demuxer'[c] = "init"
          /\ \A d \in Conns : d # c => demuxer'[d] = demuxer[d]
      BY <2>4, DemuxerMoves
    <3>3. pipeOpen' \in [Conns -> BOOLEAN]
      BY <2>4 DEF RTSPTypeOK
    <3>4. RTSPMoves(c) /\ RTSPTypeOK'
      BY <2>1, <2>2, <3>2, <3>3 DEF RTSPMoves, RTSPTypeOK
    <3>5. SessionMoves(c) /\ phase'[c] = "toRecord"
      BY <1>0, <1>1, <2>1, <2>4, GotoMoves, Together DEF SessionsTypeOK
    <3>6. RTSPIsRight(c)'
      BY <1>0, <2>1, <2>2, <2>4, <3>2, <3>5 DEF RTSPIsRight
    <3>7. RTSPLeaves(c)'
      BY <1>0, <2>1, <2>2, <2>4, <3>2, <3>5 DEF RTSPIsRight, RTSPLeaves
    <3>. QED
      BY <3>4, <3>5, <3>6, <3>7
  <2>. QED
    BY <1>6, <2>3, <2>4 DEF OnRecord
<1>. QED
  BY <1>2, <1>3, <1>4, <1>5, <1>6 DEF RTSPRequest

(* The path answers, and the handler that called it goes on.               *)
RTSPAnswer(c) == RTSPAddReader(c) \/ OnSetupEnds(c) \/ RTSPAddPublisher(c) \/ OnRecordEnds(c)

LEMMA RTSPAnswerMoves ==
    ASSUME SessionsTypeOK, RTSPTypeOK, NEW c \in Conns, RTSPIsRight(c), RTSPLeaves(c), RTSPAnswer(c)
    PROVE  SessionMoves(c) /\ RTSPMoves(c) /\ RTSPTypeOK' /\ RTSPIsRight(c)' /\ RTSPLeaves(c)'
<1>. USE DEF Phases, RoleSet
<1>1. CASE RTSPAddReader(c) \/ RTSPAddPublisher(c)
  <2>1. UNCHANGED <<rstate, attached, demuxer, pipeOpen, hookOn, kickedLate, panicked>>
    BY <1>1 DEF RTSPAddReader, RTSPAddPublisher, rtspVars
  <2>2. CASE RTSPAddReader(c)
    <3>1. /\ SessionMoves(c) /\ phase[c] = "addReader" /\ UNCHANGED <<publisher, ctxDone, table>>
          /\ \/ phase'[c] = "joined" /\ c \in readers'
             \/ phase'[c] = "idle" /\ readers' = readers
      BY <2>2, AnswerReaderMoves DEF RTSPAddReader
    <3>2. RTSPMoves(c) /\ RTSPTypeOK'
      BY <2>1, <3>1 DEF RTSPMoves, RTSPTypeOK
    <3>3. RTSPIsRight(c)'
      BY <2>1, <3>1 DEF RTSPIsRight
    <3>4. RTSPLeaves(c)'
      BY <2>1, <3>1 DEF RTSPIsRight, RTSPLeaves
    <3>. QED
      BY <3>1, <3>2, <3>3, <3>4
  <2>3. CASE RTSPAddPublisher(c)
    <3>1. /\ SessionMoves(c) /\ phase[c] = "addPublisher" /\ UNCHANGED <<table>>
          /\ \/ phase'[c] = "added" /\ publisher' = c /\ readers' = {}
             \/ phase'[c] = "idle" /\ UNCHANGED <<publisher, readers, ctxDone>>
      BY <2>3, AnswerPublisherMoves DEF RTSPAddPublisher
    <3>2. RTSPMoves(c) /\ RTSPTypeOK'
      BY <2>1, <3>1 DEF RTSPMoves, RTSPTypeOK
    <3>3. RTSPIsRight(c)'
      BY <2>1, <3>1 DEF RTSPIsRight
    <3>4. RTSPLeaves(c)'
      BY <2>1, <3>1 DEF RTSPIsRight, RTSPLeaves
    <3>. QED
      BY <3>1, <3>2, <3>3, <3>4
  <2>. QED
    BY <1>1, <2>2, <2>3
<1>2. CASE OnSetupEnds(c)
  <2>1. /\ UNCHANGED <<rstate, demuxer, pipeOpen, hookOn, kickedLate, panicked, proto, server, table, role>>
        /\ phase[c] = "joined"
    BY <1>2 DEF OnSetupEnds, serverVars, At
  <2>3. CASE Attach(c, TRUE) /\ Goto(c, "toPrePlay") /\ UNCHANGED <<pathVars, ctxDone>>
    <3>0. UNCHANGED <<publisher, readers, ctxDone>>
      BY <2>3 DEF pathVars
    <3>2. /\ attached' \in [Conns -> BOOLEAN] /\ attached'[c]
          /\ \A d \in Conns : d # c => attached'[d] = attached[d]
      BY <2>3, AttachMoves
    <3>3. RTSPMoves(c) /\ RTSPTypeOK'
      BY <2>1, <3>2 DEF RTSPMoves, RTSPTypeOK
    <3>4. SessionMoves(c) /\ phase'[c] = "toPrePlay"
      BY <2>1, <2>3, <3>0, GotoMoves, PathSame, Together DEF SessionsTypeOK
    <3>5. RTSPIsRight(c)'
      BY <2>1, <3>0, <3>2, <3>4 DEF RTSPIsRight
    <3>6. RTSPLeaves(c)'
      BY <2>1, <3>0, <3>2, <3>4 DEF RTSPIsRight, RTSPLeaves
    <3>. QED
      BY <3>3, <3>4, <3>5, <3>6
  <2>4. CASE PathForgets(c) /\ Goto(c, "idle") /\ UNCHANGED attached
    <3>1. /\ PathTypes /\ c \notin readers' /\ c # publisher'
          /\ \A d \in Conns : ctxDone[d] \/ d \in {} => ctxDone'[d]
          /\ \A d \in Conns : d # c => PathKeeps(d)
      BY <2>4, Forgets DEF PathForgets
    <3>2. RTSPMoves(c) /\ RTSPTypeOK'
      BY <2>1, <2>4 DEF RTSPMoves, RTSPTypeOK
    <3>3. SessionMoves(c) /\ phase'[c] = "idle"
      BY <2>1, <2>4, <3>1, GotoMoves, Together DEF SessionsTypeOK
    <3>4. RTSPIsRight(c)'
      BY <2>1, <2>4, <3>1, <3>3 DEF RTSPIsRight
    <3>5. RTSPLeaves(c)'
      BY <2>1, <2>4, <3>1, <3>3 DEF RTSPIsRight, RTSPLeaves
    <3>. QED
      BY <3>2, <3>3, <3>4, <3>5
  <2>. QED
    BY <1>2, <2>3, <2>4 DEF OnSetupEnds
<1>3. CASE OnRecordEnds(c)
  <2>1. /\ UNCHANGED <<rstate, demuxer, pipeOpen, hookOn, kickedLate, panicked>> /\ role' = role
        /\ Moves(c, "added", "toRecord") /\ Attach(c, TRUE)
    BY <1>3 DEF OnRecordEnds, Moves
  <2>2. /\ SessionMoves(c) /\ phase[c] = "added" /\ phase'[c] = "toRecord"
        /\ UNCHANGED <<readers, publisher, ctxDone, table>>
    BY <2>1, MovesMoves
  <2>4. /\ attached' \in [Conns -> BOOLEAN] /\ attached'[c]
        /\ \A d \in Conns : d # c => attached'[d] = attached[d]
    BY <2>1, AttachMoves
  <2>5. RTSPMoves(c) /\ RTSPTypeOK'
    BY <2>1, <2>2, <2>4 DEF RTSPMoves, RTSPTypeOK
  <2>6. RTSPIsRight(c)'
    BY <2>1, <2>2, <2>4 DEF RTSPIsRight
  <2>7. RTSPLeaves(c)'
    BY <2>1, <2>2, <2>4 DEF RTSPIsRight, RTSPLeaves
  <2>. QED
    BY <2>2, <2>5, <2>6, <2>7
<1>. QED
  BY <1>1, <1>2, <1>3 DEF RTSPAnswer

(* A pause, the end of the session, and the kick beside it.                *)
LEMMA RTSPPauseMoves ==
    ASSUME SessionsTypeOK, RTSPTypeOK, NEW c \in Conns, RTSPIsRight(c), RTSPLeaves(c), OnPause(c)
    PROVE  SessionMoves(c) /\ RTSPMoves(c) /\ RTSPTypeOK' /\ RTSPIsRight(c)' /\ RTSPLeaves(c)'
<1>. USE DEF Phases, RoleSet
<1>1. /\ UNCHANGED <<proto, server, table, role, rstate, attached, demuxer, pipeOpen, kickedLate>>
      /\ phase[c] = "idle" /\ demuxer[c] = "none"
  BY DEF OnPause, serverVars, Handler, At
<1>2. CASE /\ rstate[c] = "play" /\ Hook(c, FALSE) /\ Goto(c, "toPrePlay")
           /\ UNCHANGED <<publisher, readers, ctxDone, panicked>>
  <2>2. /\ hookOn' \in [Conns -> BOOLEAN] /\ ~hookOn'[c]
        /\ \A d \in Conns : d # c => hookOn'[d] = hookOn[d]
    BY <1>2, HookMoves
  <2>3. RTSPMoves(c) /\ RTSPTypeOK'
    BY <1>1, <1>2, <2>2 DEF RTSPMoves, RTSPTypeOK
  <2>4. SessionMoves(c) /\ phase'[c] = "toPrePlay"
    BY <1>1, <1>2, GotoMoves, PathSame, Together DEF SessionsTypeOK
  <2>5. RTSPIsRight(c)'
    BY <1>1, <1>2, <2>4 DEF RTSPIsRight
  <2>6. RTSPLeaves(c)'
    BY <1>1, <1>2, <2>2, <2>4 DEF RTSPLeaves
  <2>. QED
    BY <2>3, <2>4, <2>5, <2>6
<1>3. CASE /\ rstate[c] = "record" /\ PathForgets(c) /\ Goto(c, "toPreRecord")
           /\ UNCHANGED <<hookOn, panicked>>
  <2>2. /\ PathTypes /\ c \notin readers' /\ c # publisher'
        /\ \A d \in Conns : ctxDone[d] \/ d \in {} => ctxDone'[d]
        /\ \A d \in Conns : d # c => PathKeeps(d)
    BY <1>3, Forgets DEF PathForgets
  <2>3. RTSPMoves(c) /\ RTSPTypeOK'
    BY <1>1, <1>3 DEF RTSPMoves, RTSPTypeOK
  <2>4. SessionMoves(c) /\ phase'[c] = "toPreRecord"
    BY <1>1, <1>3, <2>2, GotoMoves, Together DEF SessionsTypeOK
  <2>5. RTSPIsRight(c)'
    BY <1>1, <1>3, <2>2, <2>4 DEF RTSPIsRight
  <2>6. RTSPLeaves(c)'
    BY <1>1, <1>3, <2>2, <2>4 DEF RTSPLeaves
  <2>. QED
    BY <2>3, <2>4, <2>5, <2>6
<1>4. CASE panicked' = TRUE /\ UNCHANGED <<publisher, readers, ctxDone, hookOn, phase>>
  <2>1. RTSPMoves(c) /\ RTSPTypeOK'
    BY <1>1, <1>4 DEF RTSPMoves, RTSPTypeOK
  <2>2. SessionMoves(c)
    BY <1>1, <1>4, PathSame, Together DEF SessionsTypeOK
  <2>. QED
    BY <1>1, <1>4, <2>1, <2>2 DEF RTSPIsRight, RTSPLeaves
<1>. QED
  BY <1>2, <1>3, <1>4 DEF OnPause, Handler, pathVars

(* The library sets the state that the handler led to.                     *)
LEMMA SetStateMoves ==
    ASSUME SessionsTypeOK, RTSPTypeOK, NEW c \in Conns, RTSPIsRight(c), RTSPLeaves(c), SetState(c)
    PROVE  SessionMoves(c) /\ RTSPMoves(c) /\ RTSPTypeOK' /\ RTSPIsRight(c)' /\ RTSPLeaves(c)'
<1>. USE DEF Phases, RoleSet
<1>1. /\ UNCHANGED <<attached, demuxer, pipeOpen, hookOn, kickedLate, panicked>>
      /\ UNCHANGED <<proto, server, table, role, publisher, readers, ctxDone>>
      /\ Goto(c, "idle") /\ rstate' = [rstate EXCEPT ![c] = Ahead[phase[c]]]
      /\ phase[c] \in {"toPrePlay", "toPlay", "toPreRecord", "toRecord"}
  BY DEF SetState, Ahead, serverVars, pathVars
<1>2. /\ phase[c] = "toPrePlay" => Ahead[phase[c]] = "prePlay"
      /\ phase[c] = "toPlay" => Ahead[phase[c]] = "play"
      /\ phase[c] = "toPreRecord" => Ahead[phase[c]] = "preRecord"
      /\ phase[c] = "toRecord" => Ahead[phase[c]] = "record"
  BY DEF Ahead
<1>3. /\ rstate' \in [Conns -> {"initial", "prePlay", "play", "preRecord", "record"}]
      /\ rstate'[c] = Ahead[phase[c]] /\ \A d \in Conns : d # c => rstate'[d] = rstate[d]
  BY <1>1, <1>2 DEF RTSPTypeOK
<1>4. RTSPMoves(c) /\ RTSPTypeOK'
  BY <1>1, <1>3 DEF RTSPMoves, RTSPTypeOK
<1>5. SessionMoves(c) /\ phase'[c] = "idle"
  BY <1>1, GotoMoves, PathSame, Together DEF SessionsTypeOK
<1>6. RTSPIsRight(c)'
  BY <1>1, <1>2, <1>3, <1>5 DEF RTSPIsRight
<1>7. RTSPLeaves(c)'
  BY <1>1, <1>2, <1>3, <1>5 DEF RTSPIsRight, RTSPLeaves
<1>. QED
  BY <1>4, <1>5, <1>6, <1>7

LEMMA RTSPCloseMoves ==
    ASSUME SessionsTypeOK, RTSPTypeOK, NEW c \in Conns, RTSPIsRight(c), RTSPLeaves(c),
           OnSessionClose(c) \/ RTSPKick(c)
    PROVE  SessionMoves(c) /\ RTSPMoves(c) /\ RTSPTypeOK' /\ RTSPIsRight(c)' /\ RTSPLeaves(c)'
<1>. USE DEF Phases, RoleSet
<1>1. /\ UNCHANGED <<proto, server, role, rstate, demuxer, panicked>>
      /\ table' = table \ {c}
  BY DEF OnSessionClose, RTSPKick
<1>2. CASE OnSessionClose(c) /\ c \in table
  <2>1. Goto(c, "gone") /\ phase[c] = "idle" /\ UNCHANGED kickedLate /\ OnClose(c, {})
    BY <1>2 DEF OnSessionClose, At
  <2>2. /\ PathTypes /\ \A d \in Conns : d # c => PathKeeps(d)
        /\ \A d \in Conns : ctxDone[d] \/ d \in {} => ctxDone'[d]
        /\ c \in readers' => c \in readers
        /\ c = publisher' => c = publisher
        /\ rstate[c] \in {"prePlay", "play"} \/ (rstate[c] = "record" /\ attached[c]) =>
             c \notin readers' /\ c # publisher'
        /\ attached' \in [Conns -> BOOLEAN] /\ hookOn' \in [Conns -> BOOLEAN] /\ pipeOpen' \in [Conns -> BOOLEAN]
        /\ ~attached'[c] /\ (hookOn'[c] <=> (hookOn[c] /\ rstate[c] # "play"))
        /\ \A d \in Conns : d # c => attached'[d] = attached[d] /\ hookOn'[d] = hookOn[d]
    BY <2>1, OnCloseMoves
  <2>3. RTSPMoves(c) /\ RTSPTypeOK'
    BY <1>1, <2>1, <2>2 DEF RTSPMoves, RTSPTypeOK
  <2>4. SessionMoves(c) /\ phase'[c] = "gone"
    BY <1>1, <2>1, <2>2, GotoMoves, Together DEF SessionsTypeOK
  <2>5. RTSPIsRight(c)'
    BY <1>1, <2>1, <2>2, <2>4 DEF RTSPIsRight
  <2>6. RTSPLeaves(c)'
    BY <1>1, <1>2, <2>1, <2>2, <2>4 DEF RTSPIsRight, RTSPLeaves
  <2>. QED
    BY <2>3, <2>4, <2>5, <2>6
<1>3. CASE OnSessionClose(c) /\ c \notin table
  <2>1. /\ Goto(c, "gone") /\ phase[c] = "idle"
        /\ UNCHANGED <<kickedLate, hookOn, pipeOpen, attached, publisher, readers, ctxDone>>
    BY <1>3 DEF OnSessionClose, At, pathVars
  <2>2. RTSPMoves(c) /\ RTSPTypeOK'
    BY <1>1, <2>1 DEF RTSPMoves, RTSPTypeOK
  <2>3. SessionMoves(c) /\ phase'[c] = "gone"
    BY <1>1, <2>1, GotoMoves, PathSame, Together DEF SessionsTypeOK
  <2>4. RTSPIsRight(c)'
    BY <1>1, <2>1, <2>3 DEF RTSPIsRight
  <2>5. RTSPLeaves(c)'
    BY <1>1, <1>3, <2>1, <2>3 DEF RTSPLeaves
  <2>. QED
    BY <2>2, <2>3, <2>4, <2>5
<1>4. CASE RTSPKick(c)
  <2>1. /\ phase' = phase /\ c \in table /\ OnClose(c, {c})
        /\ kickedLate' = [kickedLate EXCEPT ![c] = phase[c] # "idle" /\ rstate[c] \notin {"play", "record"}]
    BY <1>4 DEF RTSPKick, At
  <2>2. /\ PathTypes /\ \A d \in Conns : d # c => PathKeeps(d)
        /\ \A d \in Conns : ctxDone[d] \/ d \in {c} => ctxDone'[d]
        /\ c \in readers' => c \in readers
        /\ c = publisher' => c = publisher
        /\ rstate[c] \in {"prePlay", "play"} \/ (rstate[c] = "record" /\ attached[c]) =>
             c \notin readers' /\ c # publisher'
        /\ attached' \in [Conns -> BOOLEAN] /\ hookOn' \in [Conns -> BOOLEAN] /\ pipeOpen' \in [Conns -> BOOLEAN]
        /\ ~attached'[c] /\ (hookOn'[c] <=> (hookOn[c] /\ rstate[c] # "play"))
        /\ \A d \in Conns : d # c => attached'[d] = attached[d] /\ hookOn'[d] = hookOn[d]
    BY <2>1, OnCloseMoves
  <2>3. /\ kickedLate' \in [Conns -> BOOLEAN] /\ (kickedLate'[c] <=> (phase[c] # "idle" /\ rstate[c] \notin {"play", "record"}))
        /\ \A d \in Conns : d # c => kickedLate'[d] = kickedLate[d]
    BY <2>1 DEF RTSPTypeOK
  <2>4. RTSPMoves(c) /\ RTSPTypeOK'
    BY <1>1, <2>2, <2>3 DEF RTSPMoves, RTSPTypeOK
  <2>5. SessionMoves(c)
    BY <1>1, <2>1, <2>2, Together DEF SessionsTypeOK
  <2>6. RTSPIsRight(c)'
    BY <1>1, <2>1, <2>2, <2>3 DEF RTSPIsRight
  <2>7. RTSPLeaves(c)'
    BY <1>1, <2>1, <2>2, <2>3 DEF RTSPIsRight, RTSPLeaves
  <2>. QED
    BY <2>4, <2>5, <2>6, <2>7
<1>. QED
  BY <1>2, <1>3, <1>4

(* The demuxer's goroutine.                                                *)
LEMMA RTSPDemuxerMoves ==
    ASSUME SessionsTypeOK, RTSPTypeOK, NEW c \in Conns, RTSPIsRight(c), RTSPLeaves(c),
           DemuxerInit(c) \/ DemuxerAddPublisher(c) \/ DemuxerEnds(c)
    PROVE  SessionMoves(c) /\ RTSPMoves(c) /\ RTSPTypeOK' /\ RTSPIsRight(c)' /\ RTSPLeaves(c)'
<1>. USE DEF RoleSet
<1>1. UNCHANGED <<proto, server, table, phase, role, rstate, attached, pipeOpen, hookOn, kickedLate, panicked>>
  BY DEF DemuxerInit, DemuxerAddPublisher, DemuxerEnds, serverVars
<1>2. /\ demuxer[c] \in {"init", "call", "publishing"}
      /\ \E v \in {"call", "publishing", "over"} : Demuxer(c, v)
  BY DEF DemuxerInit, DemuxerAddPublisher, DemuxerEnds
<1>3. /\ demuxer' \in [Conns -> {"none", "armed", "init", "call", "publishing", "over"}]
      /\ demuxer'[c] \in {"call", "publishing", "over"}
      /\ \A d \in Conns : d # c => demuxer'[d] = demuxer[d]
  BY <1>2, DemuxerMoves
<1>4. RTSPMoves(c) /\ RTSPTypeOK'
  BY <1>1, <1>3 DEF RTSPMoves, RTSPTypeOK
<1>5. /\ PathTypes /\ \A d \in Conns : d # c => PathKeeps(d)
      /\ \A d \in Conns : ctxDone[d] => ctxDone'[d]
      /\ c \in readers' => c \in readers
      /\ c = publisher' => demuxer'[c] = "publishing" \/ (c = publisher /\ demuxer[c] # "publishing")
  <2>1. CASE DemuxerInit(c)
    <3>1. UNCHANGED <<publisher, readers>> /\ (Cancel({c}) \/ ctxDone' = ctxDone) /\ demuxer[c] = "init"
      BY <2>1 DEF DemuxerInit, pathVars
    <3>. QED
      BY <3>1, PathSame, OnlyCancels DEF PathKeeps
  <2>2. CASE demuxer[c] = "call" /\ PathTakesPublisher(c) /\ Demuxer(c, "publishing")
    <3>1. publisher' = c /\ SetNotAvailable({publisher} \cap Conns)
      BY <2>2 DEF PathTakesPublisher
    <3>2. /\ PathTypes /\ readers' = {}
          /\ \A d \in Conns : ctxDone[d] => ctxDone'[d]
          /\ \A d \in Conns : d # c => PathKeeps(d)
      BY <3>1, TakesPublisher
    <3>3. demuxer'[c] = "publishing"
      BY <2>2, DemuxerMoves
    <3>. QED
      BY <3>2, <3>3
  <2>3. CASE demuxer[c] = "call" /\ Cancel({c}) /\ UNCHANGED <<publisher, readers>>
    BY <2>3, OnlyCancels DEF PathKeeps
  <2>4. CASE DemuxerEnds(c)
    <3>1. PICK S : PathForgetsAndCloses(c, S)
      BY <2>4 DEF DemuxerEnds
    <3>. QED
      BY <3>1, Forgets
  <2>. QED
    BY <2>1, <2>2, <2>3, <2>4 DEF DemuxerAddPublisher, pathVars
<1>6. SessionMoves(c)
  BY <1>1, <1>5, Together DEF SessionsTypeOK
<1>7. RTSPIsRight(c)'
  BY <1>1, <1>2, <1>3, <1>5 DEF RTSPIsRight
<1>8. RTSPLeaves(c)'
  BY <1>1, <1>2, <1>3, <1>5 DEF RTSPIsRight, RTSPLeaves
<1>. QED
  BY <1>4, <1>6, <1>7, <1>8

LEMMA RTSPStep ==
    ASSUME Inv, proto = "rtsp", RTSPNext, UNCHANGED <<srtVars, moqVars, webrtcVars, degradeVars>>
    PROVE  Inv'
<1>0. SessionsTypeOK /\ RTSPTypeOK /\ \A d \in Conns : RTSPIsRight(d) /\ RTSPLeaves(d)
  BY DEF Inv, TypeOK
<1>1. PICK c \in Conns :
        \/ RTSPRequest(c) \/ RTSPAnswer(c) \/ SetState(c) \/ OnPause(c) \/ OnSessionClose(c) \/ RTSPKick(c)
        \/ DemuxerInit(c) \/ DemuxerAddPublisher(c) \/ DemuxerEnds(c)
  BY DEF RTSPNext, RTSPRequest, RTSPAnswer
<1>2. SessionMoves(c) /\ RTSPMoves(c) /\ RTSPTypeOK' /\ RTSPIsRight(c)' /\ RTSPLeaves(c)'
  BY <1>0, <1>1, RTSPRequestMoves, RTSPAnswerMoves, SetStateMoves, RTSPPauseMoves, RTSPCloseMoves, RTSPDemuxerMoves
<1>3. /\ SRTTypeOK' /\ MoQTypeOK' /\ WebRTCTypeOK' /\ DegradeTypeOK'
      /\ LadderHolds' /\ \A d \in Conns : ExecutorIsRight(d)'
  BY DegradeSame DEF Inv, TypeOK, MoQTypeOK, WebRTCTypeOK, SRTTypeOK, moqVars, webrtcVars, srtVars
<1>4. proto' = "rtsp" /\ SessionsTypeOK'
  BY <1>2 DEF SessionMoves
<1>5. OthersRest'
  BY <1>4 DEF Inv, OthersRest, moqVars, webrtcVars
<1>6. \A d \in Conns : RTSPIsRight(d)' /\ RTSPLeaves(d)'
  BY <1>0, <1>2, RTSPStays
<1>. QED
  BY <1>2, <1>3, <1>4, <1>5, <1>6 DEF Inv, TypeOK, PhaseDriven

(***************************************************************************)
(* Degradation.                                                            *)
(***************************************************************************)
(* One value of a function is replaced.                                    *)
LEMMA ExceptMoves ==
    ASSUME NEW S, NEW T, NEW f \in [S -> T], NEW c \in S, NEW x \in T, NEW g, g = [f EXCEPT ![c] = x]
    PROVE  g \in [S -> T] /\ g[c] = x /\ \A d \in S : d # c => g[d] = f[d]
OBVIOUS

(* A transition is pushed to the executor that is bound.                   *)
LEMMA PushMoves ==
    ASSUME DegradeTypeOK, \A c \in Conns : ExecutorIsRight(c), Push,
           layers' \in 0..MaxLayers, bitratePercent' \in {60, 80, 100}
    PROVE  /\ UNCHANGED <<wsBound, exec, target>>
           /\ told' \in [Conns -> Targets \cup {NoTarget}] /\ passed' \in [Conns -> BOOLEAN]
           /\ \A c \in Conns : ExecutorIsRight(c)'
<1>1. UNCHANGED <<wsBound, exec, target>>
  BY DEF Push
<1>2. /\ passed' \in [Conns -> BOOLEAN]
      /\ \A c \in Conns : (exec[c] = "read" => passed'[c])
  BY DEF Push, DegradeTypeOK
<1>3. <<layers', bitratePercent'>> \in Targets
  BY DEF Targets
<1>4. /\ told' \in [Conns -> Targets \cup {NoTarget}]
      /\ wsBound # None /\ Reachable(wsBound) => told'[wsBound] = <<layers', bitratePercent'>>
  <2>1. CASE wsBound # None /\ Reachable(wsBound)
    <3>1. told' = [told EXCEPT ![wsBound] = <<layers', bitratePercent'>>] /\ wsBound \in Conns
      BY <2>1 DEF Push, DegradeTypeOK
    <3>2. told \in [Conns -> Targets \cup {NoTarget}]
      BY DEF DegradeTypeOK
    <3>3. <<layers', bitratePercent'>> \in Targets \cup {NoTarget}
      BY <1>3
    <3>. QED
      BY <3>1, <3>2, <3>3, ExceptMoves
  <2>2. CASE ~(wsBound # None /\ Reachable(wsBound))
    BY <2>2 DEF Push, DegradeTypeOK
  <2>. QED
    BY <2>1, <2>2
<1>5. ASSUME NEW c \in Conns PROVE ExecutorIsRight(c)'
  <2>1. exec'[c] = "read" => passed'[c]
    BY <1>1, <1>2
  <2>2. wsBound' = c /\ exec'[c] = "open" => told'[c] = <<layers', bitratePercent'>>
    BY <1>1, <1>4, SessionsAssumption DEF Reachable
  <2>. QED
    BY <2>1, <2>2 DEF ExecutorIsRight
<1>. QED
  BY <1>1, <1>2, <1>4, <1>5

(* The ladder: a sample takes one step, or none.                           *)
LEMMA StepMoves ==
    ASSUME DegradeTypeOK, LadderHolds, \A c \in Conns : ExecutorIsRight(c), maxLayers' = maxLayers,
           NEW allowLayer, \/ StepDown(allowLayer) \/ StepUp
                           \/ Silent /\ UNCHANGED <<layers, bitratePercent>>
    PROVE  /\ layers' \in 0..MaxLayers /\ bitratePercent' \in {60, 80, 100} /\ observing' \in BOOLEAN
           /\ LadderHolds' /\ UNCHANGED <<wsBound, exec, target>>
           /\ told' \in [Conns -> Targets \cup {NoTarget}] /\ passed' \in [Conns -> BOOLEAN]
           /\ \A c \in Conns : ExecutorIsRight(c)'
<1>1. CASE Silent /\ UNCHANGED <<layers, bitratePercent>>
  <2>1. UNCHANGED <<observing, wsBound, exec, target, told, passed>>
    BY <1>1 DEF Silent, execVars
  <2>2. LadderHolds'
    BY <1>1 DEF LadderHolds
  <2>3. \A c \in Conns : ExecutorIsRight(c)'
    BY <1>1, <2>1 DEF ExecutorIsRight
  <2>. QED
    BY <1>1, <2>1, <2>2, <2>3 DEF DegradeTypeOK
<1>2. ASSUME Push, observing' = TRUE, layers' \in 0..MaxLayers, bitratePercent' \in {60, 80, 100}, LadderHolds'
      PROVE  /\ layers' \in 0..MaxLayers /\ bitratePercent' \in {60, 80, 100} /\ observing' \in BOOLEAN
             /\ LadderHolds' /\ UNCHANGED <<wsBound, exec, target>>
             /\ told' \in [Conns -> Targets \cup {NoTarget}] /\ passed' \in [Conns -> BOOLEAN]
             /\ \A c \in Conns : ExecutorIsRight(c)'
  BY <1>2, PushMoves
<1>3. /\ maxLayers \in 0..MaxLayers /\ layers \in 0..MaxLayers /\ bitratePercent \in {60, 80, 100}
      /\ MaxLayers \in Nat
  BY MaxLayersAssumption DEF DegradeTypeOK
<1>4. CASE /\ maxLayers # 0 /\ bitratePercent > 60 /\ bitratePercent' = bitratePercent - 20 /\ layers' = layers
           /\ Push /\ observing' = TRUE
  BY <1>2, <1>3, <1>4 DEF LadderHolds
<1>5. CASE /\ maxLayers # 0 /\ bitratePercent = 60 /\ layers > 1 /\ layers' = layers - 1
           /\ bitratePercent' = bitratePercent /\ Push /\ observing' = TRUE
  BY <1>2, <1>3, <1>5 DEF LadderHolds
<1>6. CASE /\ layers < maxLayers /\ layers' = layers + 1 /\ bitratePercent' = bitratePercent
           /\ Push /\ observing' = TRUE
  BY <1>2, <1>3, <1>6 DEF LadderHolds
<1>7. CASE /\ layers = maxLayers /\ bitratePercent < 100 /\ bitratePercent' = bitratePercent + 20
           /\ layers' = layers /\ Push /\ observing' = TRUE
  BY <1>2, <1>3, <1>7 DEF LadderHolds
<1>. QED
  BY <1>1, <1>4, <1>5, <1>6, <1>7 DEF StepDown, StepUp

LEMMA SampleMoves ==
    ASSUME DegradeTypeOK, LadderHolds, \A c \in Conns : ExecutorIsRight(c),
           ObserveSessionLayerCount \/ SampleBad \/ SampleGood \/ ObservationPasses
    PROVE  DegradeTypeOK' /\ LadderHolds' /\ \A c \in Conns : ExecutorIsRight(c)'
<1>1. CASE ObserveSessionLayerCount
  <2>1. PICK n \in (maxLayers + 1)..MaxLayers : maxLayers' = n /\ layers' = n
    BY <1>1 DEF ObserveSessionLayerCount
  <2>2. bitratePercent' = 100 /\ Push /\ UNCHANGED <<goodSince, cooling, observing>>
    BY <1>1 DEF ObserveSessionLayerCount
  <2>3. n \in 0..MaxLayers /\ n > 0
    BY MaxLayersAssumption DEF DegradeTypeOK
  <2>4. LadderHolds'
    BY <2>1, <2>2, <2>3 DEF LadderHolds
  <2>5. /\ UNCHANGED <<wsBound, exec, target>>
        /\ told' \in [Conns -> Targets \cup {NoTarget}] /\ passed' \in [Conns -> BOOLEAN]
        /\ \A c \in Conns : ExecutorIsRight(c)'
    BY <2>1, <2>2, <2>3, PushMoves
  <2>. QED
    BY <2>1, <2>2, <2>3, <2>4, <2>5 DEF DegradeTypeOK
<1>2. CASE SampleBad \/ SampleGood
  <2>1. /\ maxLayers' = maxLayers /\ goodSince' \in {"unset", "set"} /\ cooling' \in BOOLEAN
    BY <1>2 DEF SampleBad, SampleGood, DegradeTypeOK
  <2>2. PICK allowLayer \in BOOLEAN :
          \/ StepDown(allowLayer) \/ StepUp
          \/ Silent /\ UNCHANGED <<layers, bitratePercent>>
    BY <1>2 DEF SampleBad, SampleGood
  <2>3. /\ layers' \in 0..MaxLayers /\ bitratePercent' \in {60, 80, 100} /\ observing' \in BOOLEAN
        /\ LadderHolds' /\ UNCHANGED <<wsBound, exec, target>>
        /\ told' \in [Conns -> Targets \cup {NoTarget}] /\ passed' \in [Conns -> BOOLEAN]
        /\ \A c \in Conns : ExecutorIsRight(c)'
    BY <2>1, <2>2, StepMoves
  <2>. QED
    BY <2>1, <2>3 DEF DegradeTypeOK
<1>3. CASE ObservationPasses
  <2>1. /\ UNCHANGED <<maxLayers, layers, bitratePercent, wsBound, exec, target, told, passed>>
        /\ observing' \in BOOLEAN /\ cooling' \in BOOLEAN /\ goodSince' \in {"unset", "set", "long"}
    BY <1>3 DEF ObservationPasses, execVars, DegradeTypeOK
  <2>2. LadderHolds'
    BY <2>1 DEF LadderHolds
  <2>3. \A c \in Conns : ExecutorIsRight(c)'
    BY <2>1 DEF ExecutorIsRight
  <2>. QED
    BY <2>1, <2>2, <2>3 DEF DegradeTypeOK
<1>. QED
  BY <1>1, <1>2, <1>3

(* The handler of an executor.                                             *)
ExecStates == {"none", "binding", "read", "open", "lost", "done"}

LEMMA ForgetMoves ==
    ASSUME DegradeTypeOK, NEW S, Forget(S)
    PROVE  /\ target' \in [Conns -> Targets \cup {NoTarget}] /\ told' \in [Conns -> Targets \cup {NoTarget}]
           /\ passed' \in [Conns -> BOOLEAN]
           /\ \A d \in Conns : d \notin S => /\ target'[d] = target[d] /\ told'[d] = told[d]
                                             /\ (passed'[d] <=> passed[d])
BY DEF Forget, DegradeTypeOK

LEMMA HandlerMoves ==
    ASSUME DegradeTypeOK, LadderHolds, \A d \in Conns : ExecutorIsRight(d), NEW c \in Conns,
           \/ BindConn(c) \/ BindReads(c) \/ BindWrites(c) \/ ExecutorLeaves(c) \/ HandlerReturns(c)
    PROVE  DegradeTypeOK' /\ LadderHolds' /\ \A d \in Conns : ExecutorIsRight(d)'
<1>0. UNCHANGED <<maxLayers, layers, bitratePercent, goodSince, cooling, observing>>
  BY DEF BindConn, BindReads, BindWrites, ExecutorLeaves, HandlerReturns, fsmVars
<1>1. LadderHolds'
  BY <1>0 DEF LadderHolds
<1>2. ASSUME wsBound' \in Conns \cup {None}, exec' \in [Conns -> ExecStates],
             target' \in [Conns -> Targets \cup {NoTarget}], told' \in [Conns -> Targets \cup {NoTarget}],
             passed' \in [Conns -> BOOLEAN]
      PROVE  DegradeTypeOK'
  BY <1>0, <1>2 DEF DegradeTypeOK, ExecStates
<1>3. CASE BindConn(c)
  <2>. DEFINE closed == {d \in {wsBound} \cap Conns : Reachable(d)}
  <2>1. /\ wsBound' = c /\ exec[c] = "none" /\ Forget(closed)
        /\ exec' = [d \in Conns |-> IF d = c THEN "binding" ELSE IF d \in closed THEN "lost" ELSE exec[d]]
    BY <1>3 DEF BindConn
  <2>2. /\ target' \in [Conns -> Targets \cup {NoTarget}] /\ told' \in [Conns -> Targets \cup {NoTarget}]
        /\ passed' \in [Conns -> BOOLEAN]
        /\ \A d \in Conns : d \notin closed => /\ target'[d] = target[d] /\ told'[d] = told[d]
                                               /\ (passed'[d] <=> passed[d])
    BY <2>1, ForgetMoves
  <2>. HIDE DEF closed
  <2>3. /\ exec' \in [Conns -> ExecStates] /\ exec'[c] = "binding"
        /\ \A d \in Conns : d # c /\ d \in closed => exec'[d] = "lost"
        /\ \A d \in Conns : d # c /\ d \notin closed => exec'[d] = exec[d]
    BY <2>1 DEF DegradeTypeOK, ExecStates
  <2>4. ASSUME NEW d \in Conns PROVE ExecutorIsRight(d)'
    <3>1. CASE d = c \/ d \in closed
      BY <2>3, <3>1 DEF ExecutorIsRight
    <3>2. CASE d # c /\ d \notin closed
      BY <1>0, <2>1, <2>2, <2>3, <3>2 DEF ExecutorIsRight
    <3>. QED
      BY <3>1, <3>2
  <2>. QED
    BY <1>1, <1>2, <2>1, <2>2, <2>3, <2>4
<1>4. CASE BindReads(c)
  <2>1. /\ UNCHANGED <<wsBound, told, passed>>
        /\ exec' = [exec EXCEPT ![c] = "read"] /\ target' = [target EXCEPT ![c] = <<layers, bitratePercent>>]
    BY <1>4 DEF BindReads
  <2>2. /\ exec' \in [Conns -> ExecStates] /\ exec'[c] = "read"
        /\ \A d \in Conns : d # c => exec'[d] = exec[d]
    BY <2>1 DEF DegradeTypeOK, ExecStates
  <2>3. <<layers, bitratePercent>> \in Targets /\ target \in [Conns -> Targets \cup {NoTarget}]
    BY DEF Targets, DegradeTypeOK
  <2>4. ASSUME NEW x, x \in Targets, target' = [target EXCEPT ![c] = x]
        PROVE  /\ target' \in [Conns -> Targets \cup {NoTarget}] /\ target'[c] = x
               /\ \A d \in Conns : d # c => target'[d] = target[d]
    BY <2>3, <2>4, Zenon
  <2>5. /\ target' \in [Conns -> Targets \cup {NoTarget}] /\ target'[c] = <<layers, bitratePercent>>
        /\ \A d \in Conns : d # c => target'[d] = target[d]
    BY <2>1, <2>3, <2>4
  <2>6. ASSUME NEW d \in Conns PROVE ExecutorIsRight(d)'
    BY <1>0, <2>1, <2>2, <2>5 DEF ExecutorIsRight
  <2>. QED
    BY <1>1, <1>2, <2>1, <2>2, <2>5, <2>6 DEF DegradeTypeOK
<1>5. CASE BindWrites(c)
  <2>1. /\ UNCHANGED <<wsBound, passed>> /\ exec[c] = "read"
        /\ exec' = [exec EXCEPT ![c] = "open"] /\ target' = [target EXCEPT ![c] = NoTarget]
        /\ told' = IF target[c][1] = 0 THEN told ELSE [told EXCEPT ![c] = target[c]]
    BY <1>5 DEF BindWrites
  <2>2. /\ exec' \in [Conns -> ExecStates] /\ exec'[c] = "open"
        /\ \A d \in Conns : d # c => exec'[d] = exec[d]
    BY <2>1 DEF DegradeTypeOK, ExecStates
  <2>0. target \in [Conns -> Targets \cup {NoTarget}] /\ told \in [Conns -> Targets \cup {NoTarget}]
    BY DEF DegradeTypeOK
  <2>3. /\ target' \in [Conns -> Targets \cup {NoTarget}]
        /\ \A d \in Conns : d # c => target'[d] = target[d]
    BY <2>0, <2>1, ExceptMoves
  <2>4. /\ told' \in [Conns -> Targets \cup {NoTarget}]
        /\ \A d \in Conns : d # c => told'[d] = told[d]
    BY <2>0, <2>1, ExceptMoves
  <2>5. maxLayers > 0 => told'[c] = <<layers, bitratePercent>> \/ passed[c]
    <3>1. target[c] = <<layers, bitratePercent>> \/ passed[c]
      BY <2>1 DEF ExecutorIsRight
    <3>2. CASE maxLayers > 0 /\ target[c] = <<layers, bitratePercent>>
      <4>1. target[c][1] # 0
        BY <3>2 DEF LadderHolds
      <4>2. told' = [told EXCEPT ![c] = target[c]] /\ told \in [Conns -> Targets \cup {NoTarget}]
        BY <2>1, <4>1 DEF DegradeTypeOK
      <4>3. told'[c] = target[c]
        BY <4>2, Zenon
      <4>. QED
        BY <3>2, <4>3
    <3>. QED
      BY <3>1, <3>2
  <2>6. ASSUME NEW d \in Conns PROVE ExecutorIsRight(d)'
    <3>1. CASE d = c
      BY <1>0, <2>1, <2>2, <2>5, <3>1 DEF ExecutorIsRight
    <3>2. CASE d # c
      BY <1>0, <2>1, <2>2, <2>3, <2>4, <3>2 DEF ExecutorIsRight
    <3>. QED
      BY <3>1, <3>2
  <2>. QED
    BY <1>1, <1>2, <2>1, <2>2, <2>3, <2>4, <2>6 DEF DegradeTypeOK
<1>6. CASE ExecutorLeaves(c)
  <2>1. wsBound' = wsBound /\ Forget({c}) /\ exec' = [exec EXCEPT ![c] = "lost"]
    BY <1>6 DEF ExecutorLeaves
  <2>2. /\ exec' \in [Conns -> ExecStates] /\ exec'[c] = "lost"
        /\ \A d \in Conns : d # c => exec'[d] = exec[d]
    BY <2>1 DEF DegradeTypeOK, ExecStates
  <2>3. /\ target' \in [Conns -> Targets \cup {NoTarget}] /\ told' \in [Conns -> Targets \cup {NoTarget}]
        /\ passed' \in [Conns -> BOOLEAN]
        /\ \A d \in Conns : d \notin {c} => /\ target'[d] = target[d] /\ told'[d] = told[d]
                                            /\ (passed'[d] <=> passed[d])
    BY <2>1, ForgetMoves
  <2>4. ASSUME NEW d \in Conns PROVE ExecutorIsRight(d)'
    <3>1. CASE d = c
      BY <2>2, <3>1 DEF ExecutorIsRight
    <3>2. CASE d # c
      BY <1>0, <2>1, <2>2, <2>3, <3>2 DEF ExecutorIsRight
    <3>. QED
      BY <3>1, <3>2
  <2>. QED
    BY <1>1, <1>2, <2>1, <2>2, <2>3, <2>4 DEF DegradeTypeOK
<1>7. CASE HandlerReturns(c)
  <2>1. /\ UNCHANGED <<target, told, passed>> /\ exec' = [exec EXCEPT ![c] = "done"]
        /\ wsBound' \in {wsBound, None}
    BY <1>7 DEF HandlerReturns
  <2>2. /\ exec' \in [Conns -> ExecStates] /\ exec'[c] = "done"
        /\ \A d \in Conns : d # c => exec'[d] = exec[d]
    BY <2>1 DEF DegradeTypeOK, ExecStates
  <2>3. ASSUME NEW d \in Conns PROVE ExecutorIsRight(d)'
    BY <1>0, <2>1, <2>2, SessionsAssumption DEF ExecutorIsRight
  <2>. QED
    BY <1>1, <1>2, <2>1, <2>2, <2>3 DEF DegradeTypeOK
<1>. QED
  BY <1>3, <1>4, <1>5, <1>6, <1>7

LEMMA DegradeStep ==
    ASSUME Inv, proto = "degrade", DegradeNext, UNCHANGED <<srtVars, rtspVars, moqVars, webrtcVars>>
    PROVE  Inv'
<1>0. /\ SessionsTypeOK /\ DegradeTypeOK /\ LadderHolds /\ \A d \in Conns : ExecutorIsRight(d)
  BY DEF Inv, TypeOK
<1>1. DegradeTypeOK' /\ LadderHolds' /\ \A d \in Conns : ExecutorIsRight(d)'
  BY <1>0, SampleMoves, HandlerMoves DEF DegradeNext
<1>2. UNCHANGED <<proto, server, table, phase, ctxDone, role, publisher, readers>>
  BY DEF DegradeNext, sessionsVars, serverVars, pathVars
<1>3. SessionsTypeOK' /\ proto' = "degrade"
  BY <1>0, <1>2 DEF SessionsTypeOK
<1>4. SRTTypeOK' /\ MoQTypeOK' /\ WebRTCTypeOK' /\ RTSPTypeOK'
  BY DEF Inv, TypeOK, MoQTypeOK, WebRTCTypeOK, SRTTypeOK, RTSPTypeOK, moqVars, webrtcVars, srtVars, rtspVars
<1>5. OthersRest'
  BY <1>2 DEF Inv, OthersRest, moqVars, webrtcVars, rtspVars
<1>. QED
  BY <1>1, <1>3, <1>4, <1>5 DEF Inv, TypeOK, PhaseDriven

(***************************************************************************)
(* The path, seen by everybody: other publishers, and the server's end.    *)
(***************************************************************************)
LEMMA EveryoneStays ==
    ASSUME Inv, SessionsTypeOK', UNCHANGED <<proto, table, phase, role>>,
           server # "running" => server' # "running",
           \A d \in Conns : PathKeeps(d),
           proto = "degrade" => readers' = {} /\ publisher' = None,
           UNCHANGED <<srtVars, rtspVars, moqVars, webrtcVars, degradeVars>>
    PROVE  Inv'
<1>1. /\ SRTTypeOK' /\ RTSPTypeOK' /\ MoQTypeOK' /\ WebRTCTypeOK' /\ DegradeTypeOK'
      /\ LadderHolds' /\ \A d \in Conns : ExecutorIsRight(d)'
  BY DegradeSame DEF Inv, TypeOK, SRTTypeOK, RTSPTypeOK, MoQTypeOK, WebRTCTypeOK,
     srtVars, rtspVars, moqVars, webrtcVars
<1>2. OthersRest'
  BY DEF Inv, OthersRest, moqVars, rtspVars, webrtcVars
<1>3. ASSUME PhaseDriven, NEW d \in Conns PROVE PlaceIsRight(d)'
  <2>1. PlaceIsRight(d) /\ PathKeeps(d)
    BY <1>3 DEF Inv
  <2>. QED
    BY <2>1 DEF PlaceIsRight, PathKeeps
<1>4. ASSUME proto = "webrtc", NEW d \in Conns PROVE WebRTCIsRight(d)'
  <2>1. WebRTCIsRight(d) /\ PathKeeps(d) /\ UNCHANGED subscribed
    BY <1>4 DEF Inv, webrtcVars
  <2>. QED
    BY <2>1 DEF WebRTCIsRight, PathKeeps
<1>5. ASSUME proto = "moq", NEW d \in Conns PROVE MoQIsRight(d)'
  <2>1. MoQIsRight(d) /\ PathKeeps(d) /\ UNCHANGED <<moqPath, subs, failed>>
    BY <1>5 DEF Inv, moqVars
  <2>2. Broken(d) => Broken(d)'
    BY <2>1 DEF Broken, Cancelled, PathKeeps
  <2>3. Broken(d)' \/ ~ctxDone[d]'
    BY DEF Broken, Cancelled
  <2>. QED
    BY <2>1, <2>2, <2>3 DEF MoQIsRight, PathKeeps, Alive
<1>6. ASSUME proto = "rtsp", NEW d \in Conns PROVE RTSPIsRight(d)' /\ RTSPLeaves(d)'
  <2>1. /\ RTSPIsRight(d) /\ RTSPLeaves(d) /\ PathKeeps(d)
        /\ UNCHANGED <<rstate, attached, demuxer, hookOn, kickedLate>>
    BY <1>6 DEF Inv, rtspVars
  <2>2. RTSPIsRight(d)'
    BY <2>1 DEF RTSPIsRight, PathKeeps
  <2>3. RTSPLeaves(d)'
    BY <2>1 DEF RTSPLeaves, PathKeeps
  <2>. QED
    BY <2>2, <2>3
<1>7. ASSUME proto = "srt", NEW d \in Conns PROVE LatencyIsRight(d)'
  <2>1. LatencyIsRight(d) /\ PathKeeps(d) /\ UNCHANGED <<given, latency, overtaken, sampler>>
    BY <1>7 DEF Inv, srtVars
  <2>. QED
    BY <2>1 DEF LatencyIsRight, PathKeeps
<1>. QED
  BY <1>1, <1>2, <1>3, <1>4, <1>5, <1>6, <1>7 DEF Inv, TypeOK, PhaseDriven

LEMMA EnvironmentStep ==
    ASSUME Inv, Environment \/ StopServer \/ Returned,
           UNCHANGED <<srtVars, rtspVars, moqVars, webrtcVars, degradeVars>>
    PROVE  Inv'
<1>0. SessionsTypeOK
  BY DEF Inv, TypeOK
<1>1. CASE Environment
  <2>1. /\ UNCHANGED <<proto, server, table, phase, role>> /\ proto # "degrade" /\ publisher' \in {None, Other}
        /\ SetNotAvailable({publisher} \cap Conns)
    <3>1. CASE OtherPublishes
      BY <1>1, <3>1 DEF Environment, OtherPublishes, serverVars
    <3>2. CASE OtherLeaves
      <4>1. {publisher} \cap Conns = {}
        BY <3>2, SessionsAssumption DEF OtherLeaves
      <4>. QED
        BY <1>1, <3>2, <4>1 DEF Environment, OtherLeaves, serverVars
    <3>. QED
      BY <1>1, <3>1, <3>2 DEF Environment
  <2>2. /\ readers' = {} /\ Cancel(readers \cup ({publisher} \cap Conns))
    BY <2>1 DEF SetNotAvailable
  <2>3. /\ ctxDone' \in [Conns -> BOOLEAN]
        /\ \A d \in Conns : ctxDone'[d] <=> ctxDone[d] \/ d \in readers \cup ({publisher} \cap Conns)
    BY <1>0, <2>2, CancelKeeps
  <2>4. \A d \in Conns : PathKeeps(d)
    BY <2>1, <2>2, <2>3, SessionsAssumption DEF PathKeeps
  <2>5. SessionsTypeOK'
    BY <1>0, <2>1, <2>2, <2>3 DEF SessionsTypeOK
  <2>. QED
    BY <2>1, <2>4, <2>5, EveryoneStays
<1>2. CASE StopServer \/ Returned
  <2>1. /\ UNCHANGED <<proto, table, phase, role, publisher, readers, ctxDone>>
        /\ server' \in {"closing", "closed"}
    BY <1>2 DEF StopServer, Returned, ServerEnds, pathVars
  <2>2. \A d \in Conns : PathKeeps(d)
    BY <1>0, <2>1, PathSame
  <2>3. SessionsTypeOK'
    BY <1>0, <2>1 DEF SessionsTypeOK
  <2>4. proto = "degrade" => readers' = {} /\ publisher' = None
    BY <2>1 DEF Inv, OthersRest
  <2>. QED
    BY <2>1, <2>2, <2>3, <2>4, EveryoneStays
<1>. QED
  BY <1>1, <1>2

(***************************************************************************)
(* The invariant holds at first, and every step keeps it.                  *)
(***************************************************************************)
LEMMA InitInv == Init => Inv
<1>. SUFFICES ASSUME Init PROVE Inv
  OBVIOUS
<1>1. SessionsTypeOK
  BY DEF Init, SessionsInit, SessionsTypeOK, Phases
<1>2. SRTTypeOK
  BY LatencyAssumption DEF Init, SRTInit, SRTTypeOK
<1>3. RTSPTypeOK
  BY DEF Init, RTSPInit, RTSPTypeOK
<1>4. MoQTypeOK
  BY DEF Init, MoQInit, MoQTypeOK
<1>5. WebRTCTypeOK
  BY DEF Init, WebRTCInit, WebRTCTypeOK
<1>6. DegradeTypeOK
  <2>1. 0 \in 0..MaxLayers
    BY MaxLayersAssumption
  <2>2. NoTarget \in Targets \cup {NoTarget}
    OBVIOUS
  <2>. QED
    BY <2>1, <2>2 DEF Init, DegradeInit, DegradeTypeOK
<1>7. OthersRest
  BY DEF Init, OthersRest, SessionsInit, MoQInit, RTSPInit, WebRTCInit
<1>8. ASSUME NEW c \in Conns
      PROVE  /\ PlaceIsRight(c) /\ WebRTCIsRight(c) /\ MoQIsRight(c) /\ RTSPIsRight(c)
             /\ RTSPLeaves(c) /\ LatencyIsRight(c) /\ ExecutorIsRight(c)
  <2>1. /\ phase[c] = "none" /\ c \notin readers /\ c # publisher /\ c \notin table /\ role[c] = "idle"
        /\ c \notin subscribed /\ subs[c] = {} /\ ~moqPath[c]
    BY SessionsAssumption DEF Init, SessionsInit, WebRTCInit, MoQInit
  <2>2. rstate[c] = "initial" /\ demuxer[c] = "none" /\ ~attached[c] /\ ~hookOn[c] /\ ~kickedLate[c]
    BY DEF Init, RTSPInit
  <2>3. sampler[c] = "off" /\ exec[c] = "none"
    BY DEF Init, SRTInit, DegradeInit
  <2>. QED
    BY <2>1, <2>2, <2>3 DEF PlaceIsRight, WebRTCIsRight, MoQIsRight, RTSPIsRight, RTSPLeaves,
       LatencyIsRight, ExecutorIsRight
<1>9. LadderHolds
  BY DEF Init, DegradeInit, LadderHolds
<1>. QED
  BY <1>1, <1>2, <1>3, <1>4, <1>5, <1>6, <1>7, <1>8, <1>9 DEF Inv, TypeOK

LEMMA NextInv == Inv /\ [Next]_vars => Inv'
<1>. SUFFICES ASSUME Inv, [Next]_vars PROVE Inv'
  OBVIOUS
<1>1. CASE ProtocolNext
  BY <1>1, RTMPStep, SRTStep, RTSPStep, MoQStep, WebRTCStep, DegradeStep DEF ProtocolNext
<1>2. CASE /\ Environment \/ StopServer \/ Returned
           /\ UNCHANGED <<srtVars, rtspVars, moqVars, webrtcVars, degradeVars>>
  BY <1>2, EnvironmentStep
<1>3. CASE UNCHANGED vars
  <2>1. /\ UNCHANGED <<proto, server, table, phase, role, publisher, readers, ctxDone>>
        /\ UNCHANGED <<srtVars, rtspVars, moqVars, webrtcVars, degradeVars>>
    BY <1>3 DEF vars, sessionsVars, serverVars, pathVars
  <2>2. SessionsTypeOK /\ SessionsTypeOK'
    BY <2>1 DEF Inv, TypeOK, SessionsTypeOK
  <2>3. \A d \in Conns : PathKeeps(d)
    BY <2>1, <2>2, PathSame
  <2>4. proto = "degrade" => readers' = {} /\ publisher' = None
    BY <2>1 DEF Inv, OthersRest
  <2>. QED
    BY <2>1, <2>2, <2>3, <2>4, EveryoneStays
<1>. QED
  BY <1>1, <1>2, <1>3 DEF Next

(* The invariant of the servers holds in every state of every behaviour.   *)
THEOREM Invariance == Spec => []Inv
BY InitInv, NextInv, PTL DEF Spec

(* Every variable of every server keeps its type.                          *)
THEOREM TypeCorrect == Spec => []TypeOK
<1>1. Inv => TypeOK
  BY DEF Inv
<1>. QED
  BY <1>1, Invariance, PTL

(* A session that has ended has left the path, its subscriptions and its   *)
(* hook, whatever the server (run() and closeSession of every server,      *)
(* onClose of RTSP), but for the three races of RTSP.                      *)
THEOREM NothingLeftBehindHolds == Spec => []NothingLeftBehind
<1>1. Inv => NothingLeftBehind
  <2>. SUFFICES ASSUME Inv, NEW c \in Conns, phase[c] = "gone"
                PROVE  /\ c \notin subscribed /\ subs[c] = {}
                       /\ InPath(c) \/ hookOn[c] => kickedLate[c] \/ demuxer[c] = "publishing"
    BY DEF NothingLeftBehind, At
  <2>0. proto \in {"rtmp", "srt", "rtsp", "moq", "webrtc", "degrade"}
    BY SessionsAssumption DEF Inv, TypeOK, SessionsTypeOK
  <2>1. CASE proto = "rtsp"
    <3>1. RTSPIsRight(c) /\ RTSPLeaves(c) /\ c \notin subscribed /\ subs[c] = {}
      BY <2>1 DEF Inv, OthersRest
    <3>. QED
      BY <3>1 DEF RTSPIsRight, RTSPLeaves, InPath
  <2>2. CASE proto = "moq"
    <3>1. MoQIsRight(c) /\ c \notin subscribed /\ ~hookOn[c]
      BY <2>2 DEF Inv, OthersRest
    <3>. QED
      BY <3>1 DEF MoQIsRight, InPath
  <2>3. CASE proto \in {"rtmp", "srt"}
    <3>1. PlaceIsRight(c) /\ c \notin subscribed /\ ~hookOn[c] /\ subs[c] = {}
      BY <2>3 DEF Inv, OthersRest, PhaseDriven
    <3>. QED
      BY <3>1 DEF PlaceIsRight, InPath
  <2>4. CASE proto = "webrtc"
    <3>1. PlaceIsRight(c) /\ WebRTCIsRight(c) /\ ~hookOn[c] /\ subs[c] = {}
      BY <2>4 DEF Inv, OthersRest, PhaseDriven
    <3>. QED
      BY <3>1 DEF PlaceIsRight, WebRTCIsRight, InPath
  <2>5. CASE proto = "degrade"
    BY <2>5 DEF Inv, OthersRest
  <2>. QED
    BY <2>0, <2>1, <2>2, <2>3, <2>4, <2>5
<1>. QED
  BY <1>1, Invariance, PTL

(* A session that serves and is not being closed is in the path in the     *)
(* role it shows: addReader, addPublisher and the path's closing of its    *)
(* members keep the two in step.                                           *)
THEOREM ServingIsMemberHolds == Spec => []ServingIsMember
<1>1. Inv => ServingIsMember
  <2>. SUFFICES ASSUME Inv, NEW c \in Conns, ~Cancelled(c), ~failed[c]
                PROVE  /\ Serves(c, "read") => c \in readers
                       /\ Serves(c, "publish") => publisher = c
    BY DEF ServingIsMember
  <2>0. /\ proto \in {"rtmp", "srt", "rtsp", "moq", "webrtc", "degrade"}
        /\ ~ctxDone[c] /\ ~Broken(c)
    BY SessionsAssumption DEF Inv, TypeOK, SessionsTypeOK, Broken, Cancelled
  <2>1. CASE proto = "rtsp"
    <3>1. RTSPIsRight(c)
      BY <2>1 DEF Inv
    <3>. QED
      BY <2>0, <2>1, <3>1 DEF RTSPIsRight, Serves, At
  <2>2. CASE proto = "moq"
    <3>1. MoQIsRight(c)
      BY <2>2 DEF Inv
    <3>. QED
      BY <2>0, <2>2, <3>1 DEF MoQIsRight, Serves
  <2>3. CASE proto \in {"rtmp", "srt", "webrtc"}
    <3>1. PlaceIsRight(c)
      BY <2>3 DEF Inv, PhaseDriven
    <3>. QED
      BY <2>0, <2>3, <3>1 DEF PlaceIsRight, Serves, At
  <2>4. CASE proto = "degrade"
    <3>1. phase[c] = "none"
      BY <2>4 DEF Inv, OthersRest
    <3>. QED
      BY <2>4, <3>1 DEF Serves, At
  <2>. QED
    BY <2>0, <2>1, <2>2, <2>3, <2>4
<1>. QED
  BY <1>1, Invariance, PTL

(* An SRT publisher has the tuned latency or more, is being closed for it, *)
(* or was overtaken by the raise of another connection (latencyManager,    *)
(* runReceiveStatsSummary, runDegradeSampling).                            *)
THEOREM LatencyIsAppliedHolds == Spec => []LatencyIsApplied
<1>1. Inv => LatencyIsApplied
  BY DEF Inv, LatencyIsRight, LatencyIsApplied, At, Cancelled
<1>. QED
  BY <1>1, Invariance, PTL

(* degrade and recover walk the ladder in order, for any number of layers, *)
(* and pushTargetStateLocked and BindConn keep the executor told.          *)
THEOREM LadderIsFollowedHolds == Spec => []LadderIsFollowed
<1>1. Inv => LadderIsFollowed
  BY DEF Inv, ExecutorIsRight, LadderIsFollowed, TargetIsTold
<1>. QED
  BY <1>1, Invariance, PTL
=============================================================================
