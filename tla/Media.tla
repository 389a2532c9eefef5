------------------------------- MODULE Media --------------------------------
(***************************************************************************)
(* The media of a path.  A behaviour is of the scene that Init chooses:    *)
(*   "stream"  the stream of Stream, with readers of the protocols of      *)
(*             Codecs, whose callbacks take its units;                     *)
(*   "layers"  a WHEP reader of a stream with several layers (Layers);     *)
(*   "relay"   a stream that a node reads from another one over a          *)
(*             protocol: FromStream there, ToStream here (Codecs).         *)
(***************************************************************************)
EXTENDS Stream, Layers
LOCAL INSTANCE Functions

CONSTANTS
    Protocols,
    ReaderProtocols,
    FourCCs,     \* lists of FourCC codes that an RTMP client may have
    Offers       \* the streams that are relayed

ASSUME MediaAssumption == ReaderProtocols \subseteq Protocols /\ "hls" \in Protocols

VARIABLES
    scene,
    proto,       \* [Readers -> Protocols]
    track,       \* [Readers -> [Fmts -> state of the callback of the media]]
    relay        \* protocol, peer and stream that are relayed, and the result

mediaVars == <<scene, proto, track, relay>>
vars == <<streamVars, layersVars, mediaVars>>

NotStarted == [started |-> FALSE, pts |-> 0, first |-> "none"]

TypeOK ==
    /\ StreamTypeOK /\ LayersTypeOK
    /\ scene \in {"stream", "layers", "relay"}
    /\ proto \in [Readers -> Protocols]
    /\ \A r \in Readers, f \in Fmts : track[r][f].first \in {"none", "key", "delta"}

Quiet == [p |-> "none"]
DefaultDesc == CHOOSE d \in Descs : TRUE

Init ==
    /\ scene \in {"stream", "layers", "relay"}
    /\ StreamInit /\ LayersInit
    /\ scene # "layers" => layers = 1 /\ ladder = "H264" /\ bound = CHOOSE b \in LayerBounds : TRUE
    /\ scene # "stream" => always = FALSE /\ desc = DefaultDesc
    /\ proto \in [Readers -> IF scene = "stream" THEN ReaderProtocols ELSE {"hls"}]
    /\ track = [r \in Readers |-> [f \in Fmts |-> NotStarted]]
    /\ relay = Quiet

-----------------------------------------------------------------------------
(* The callback of a reader ends as its protocol says.                     *)
UnitTaken(r) ==
    /\ thread[r] = "busy"
    /\ LET u   == current[r]
           st  == track[r][u.fmt]
           did == Handled(proto[r], OrigDesc[u.fmt].codec, st, u)
       IN  /\ CallbackReturns(r, did # "fail")
           /\ track' = IF did # "write" THEN track
                       ELSE [track EXCEPT ![r][u.fmt] =
                               [started |-> TRUE, pts |-> u.pts,
                                first |-> IF st.started THEN st.first ELSE u.kind]]
    /\ UNCHANGED <<proto, relay>>

(* The connection of the reader fails.                                     *)
WriteFails(r) ==
    /\ CallbackReturns(r, FALSE)
    /\ UNCHANGED <<proto, track, relay>>

StreamScene ==
    /\ scene = "stream"
    /\ \/ StreamNext /\ UNCHANGED <<proto, track, relay>>
       \/ \E r \in Readers : UnitTaken(r) \/ WriteFails(r)
    /\ UNCHANGED <<scene, layersVars>>

(* The goroutines that wait for nobody go on: the path's in a switch, once *)
(* the mutex is free, a reader's, and the one that removes a reader.       *)
SwitchGoesOn == scene = "stream" /\ SwitchSteps /\ UNCHANGED <<mediaVars, layersVars>>

ReaderGoesOn(r) ==
    /\ scene = "stream"
    /\ \/ (Pull(r) \/ PullClosed(r) \/ ReaderRemoved(r)) /\ UNCHANGED <<proto, track, relay>>
       \/ UnitTaken(r)
    /\ UNCHANGED <<scene, layersVars>>

LayersScene ==
    /\ scene = "layers" /\ LayersNext
    /\ UNCHANGED <<streamVars, mediaVars>>

(* One node writes the medias it takes, in order, and another reads them:  *)
(* at once, or over a peer connection, where they arrive as tracks.        *)
RelayStarts ==
    /\ relay = Quiet
    /\ \E p \in Protocols, ms \in Offers, cc \in FourCCs, v \in {"mpegts", "fmp4"} :
         LET out   == FromStream(p, ms, cc, v)
             idx   == SelectSeq([i \in DOMAIN ms |-> i], LAMBDA i : i \in out.tracks)
             plain == [k \in DOMAIN idx |-> [codec |-> Wire(p, ms[idx[k]]), layer |-> k]]
             wire  == IF p \in WebRTCs THEN SentTracks(ms, idx) ELSE plain
             gathers == p \in WebRTCs /\ ~out.failed
         IN  relay' = [p |-> p, ms |-> ms, wire |-> wire, refused |-> out.failed,
                       pc |-> IF gathers THEN "gather" ELSE "done",
                       got |-> IF gathers THEN <<>> ELSE wire,
                       back |-> IF gathers THEN [failed |-> FALSE, medias |-> <<>>] ELSE ToStream(p, wire)]

(* A track arrives with its first packet.                                  *)
TrackArrives ==
    /\ relay # Quiet /\ relay.pc = "gather"
    /\ \E k \in DOMAIN relay.wire :
         LET got == Append(relay.got, relay.wire[k])
             all == Len(got) = Expected(relay.p, relay.wire)
         IN  /\ CanTake(relay.wire[k]) /\ \A j \in DOMAIN relay.got : relay.got[j] # relay.wire[k]
             /\ relay' = [relay EXCEPT !.got = got,
                             !.pc = IF all THEN "done" ELSE "gather",
                             !.back = IF all THEN ToStream(relay.p, got) ELSE @]

(* The time for tracks is over: the ones that came make the stream.        *)
GatherTimeout ==
    /\ relay # Quiet /\ relay.pc = "gather"
    /\ relay' = [relay EXCEPT !.pc = "done",
                    !.back = IF relay.got = <<>> THEN [failed |-> TRUE, medias |-> <<>>]
                             ELSE ToStream(relay.p, relay.got)]

RelayStep == RelayStarts \/ TrackArrives \/ GatherTimeout

RelayScene ==
    /\ scene = "relay" /\ RelayStep
    /\ UNCHANGED <<streamVars, layersVars, scene, proto, track>>

Next == StreamScene \/ LayersScene \/ RelayScene

Fairness == SF_vars(SwitchGoesOn) /\ \A r \in Readers : WF_vars(ReaderGoesOn(r))

Spec == Init /\ [][Next]_vars /\ Fairness

-----------------------------------------------------------------------------
(* A change of the source does not cost a reader: the callback of a        *)
(* protocol that needs time to grow never sees it go back, and one that    *)
(* waits for a key frame wrote none before it.                             *)
ReadersGoOn ==
    \A r \in Readers :
        /\ \A f \in Fmts : track[r][f].first = "delta" =>
               OrigDesc[f].codec \notin WaitsForKey(proto[r])
        /\ current[r] # None =>
               LET u == current[r]
               IN  Handled(proto[r], OrigDesc[u.fmt].codec, track[r][u.fmt], u) # "fail"

(* The layers of a video are in their order.                               *)
InLayerOrder(ts) ==
    \A i, j \in DOMAIN ts : i < j /\ IsVideo(ts[i].codec) /\ IsVideo(ts[j].codec) =>
        ts[i].layer < ts[j].layer

(* What arrives is the stream, with the codecs and in the order of the     *)
(* wire; over WebRTC, where tracks come in any order and may be late, in   *)
(* that of the layers.  MoQ offers FLAC, G711 and LPCM, which make         *)
(* ToStream refuse the whole stream.                                       *)
Arrived ==
    \/ relay.p \in WebRTCs /\ InLayerOrder(relay.back.medias)
         /\ Range(relay.back.medias) = Range(relay.got)
    \/ relay.p \notin WebRTCs /\ relay.back.medias = relay.got
    \/ relay.p = "moq" /\ \E k \in DOMAIN relay.wire : relay.wire[k].codec \in {"FLAC", "LPCM"}

(* Over WebRTC the other node is able to take every track that is offered, *)
(* except LPCM that is mono or has 32 kHz, which incomingAudioCodecs lacks.*)
Takeable ==
    relay.p \in WebRTCs => \A k \in DOMAIN relay.wire :
        LET t == relay.wire[k]
        IN  CanTake(t) \/ (t.codec = "LPCM" /\ (t.ch = 1 \/ t.rate = 32000))

(* What a node writes with a protocol (FromStream), another node reads     *)
(* with it (ToStream): see the two parts.                                  *)
RelayComesBack ==
    relay # Quiet /\ ~relay.refused =>
        Takeable /\ (relay.pc = "done" /\ relay.got # <<>> => Arrived)
=============================================================================
