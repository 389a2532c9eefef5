------------------------------- MODULE Codecs -------------------------------
(***************************************************************************)
(* What the protocols do with a stream: the medias of it that FromStream   *)
(* registers and ToStream gives back, and what the callback of a media     *)
(* does with a unit (internal/protocols/*/from_stream.go, to_stream.go).   *)
(*                                                                         *)
(* A media is a record of its codec and of the parameters the code looks   *)
(* at: rate, ch (channels), depth (bits), cpresent (LATM with in-band      *)
(* configuration), config.                                                 *)
(***************************************************************************)
EXTENDS Naturals, Sequences, FiniteSets
LOCAL INSTANCE TLC

WebRTCs == {"webrtc", "multi", "simulcast"}

HasParams == {"H264", "H265"}

(* newRTPEncoder and newRTPDecoder.                                        *)
Encodable ==
    {"AV1", "VP9", "VP8", "H265", "H264", "MPEG4Video", "MPEG1Video", "MJPEG", "Opus", "MPEG4Audio",
     "LATM", "MPEG1Audio", "AC3", "G711", "LPCM", "KLV", "FLAC"}

Decodable == Encodable \ {"FLAC"}

(* mediasAreCompatible: the same codecs in the same order, and of those    *)
(* that a decoder cannot reconfigure the same parameters.                  *)
Compatible(ms1, ms2) ==
    /\ Len(ms1) = Len(ms2)
    /\ \A i \in DOMAIN ms1 :
         /\ ms1[i].codec = ms2[i].codec
         /\ ms1[i].codec = "MPEG4Audio" => ms1[i].config = ms2[i].config
         /\ ms1[i].codec \in {"G711", "LPCM"} =>
              /\ ms1[i].rate = ms2[i].rate /\ ms1[i].ch = ms2[i].ch
              /\ ms1[i].depth = ms2[i].depth

-----------------------------------------------------------------------------
(* FromStream: the medias that a protocol takes.  A result is an error or  *)
(* the set of the indexes of the medias.                                   *)

Having(ms, c) == {i \in DOMAIN ms : ms[i].codec = c}

Lowest(is) == {i \in is : \A j \in is : i <= j}

(* The first media of the first of the codecs that the stream has.         *)
FirstOf(ms, order) ==
    LET present == {k \in DOMAIN order : Having(ms, order[k]) # {}}
    IN  UNION {Lowest(Having(ms, order[k])) : k \in Lowest(present)}

Taken(is, failed) == [failed |-> failed, tracks |-> IF failed THEN {} ELSE is]

WebRTCVideo(ms) == FirstOf(ms, <<"AV1", "VP9", "VP8", "H265", "H264">>)

WebRTCAudio(ms) == FirstOf(ms, <<"Opus", "G722", "G711", "LPCM">>)

WebRTCRates == {8000, 16000, 32000, 48000}

(* A media that is chosen and cannot be carried is an error, even if       *)
(* another one could be.                                                   *)
OpusRefused(m) == m.codec = "Opus" /\ m.ch \notin 1..8
G711Refused(m) == m.codec = "G711" /\ (m.rate \notin WebRTCRates \/ m.ch \notin {1, 2})
LPCMRefused(m) ==
    m.codec = "LPCM" /\ (m.depth # 16 \/ m.rate \notin WebRTCRates \/ m.ch \notin {1, 2})

WebRTCTaken(ms, videos) ==
    LET is == videos \cup WebRTCAudio(ms) \cup Lowest(Having(ms, "KLV"))
    IN  Taken(is, is = {} \/ \E i \in is : OpusRefused(ms[i]) \/ G711Refused(ms[i]) \/ LPCMRefused(ms[i]))

WebRTCFromStream(ms) == WebRTCTaken(ms, WebRTCVideo(ms))

(* Several layers, as tracks of their own or as the encodings of one: all  *)
(* of the H264 ones, or of the H265 ones when there is none.               *)
OneCodec(ms, is) ==
    IF is \cap Having(ms, "H264") # {} THEN is \cap Having(ms, "H264") ELSE is \cap Having(ms, "H265")

LayersUpTo(ms, n) ==
    {i \in Having(ms, "H264") \cup Having(ms, "H265") :
        Cardinality({j \in Having(ms, "H264") \cup Having(ms, "H265") : j < i}) < n}

MultiFromStream(ms, n) ==
    LET videos == OneCodec(ms, LayersUpTo(ms, n))
    IN  IF videos = {} THEN Taken({}, TRUE) ELSE WebRTCTaken(ms, videos)

SimulcastFromStream(ms) ==
    LET videos == OneCodec(ms, DOMAIN ms)
    IN  IF videos = {} THEN Taken({}, TRUE) ELSE WebRTCTaken(ms, videos)

(* The codecs of a client are in its list of FourCC codes, an empty one    *)
(* being that of a client without enhanced RTMP, which takes the first     *)
(* media of each type.                                                     *)
RTMPVideo(m, fourCC) == m.codec \in {"AV1", "VP9", "H265"} /\ m.codec \in fourCC

RTMPAudio(m, fourCC) == m.codec \in {"Opus", "AC3", "FLAC"} /\ m.codec \in fourCC

LegacyVideo(m) == m.codec = "H264"

LegacyMPEG(m) == m.codec \in {"MPEG4Audio", "MPEG1Audio"} \/ (m.codec = "LATM" /\ ~m.cpresent)
LegacyPCM(m) ==
    \/ m.codec = "G711" /\ m.rate = 8000
    \/ m.codec = "LPCM" /\ m.ch \in {1, 2} /\ m.rate \in {5512, 11025, 22050, 44100}
LegacyAudio(m) == LegacyMPEG(m) \/ LegacyPCM(m)

Legacy(ms, fourCC, P(_)) ==
    LET is == {i \in DOMAIN ms : P(ms[i])} IN IF fourCC = {} THEN Lowest(is) ELSE is

RTMPFromStream(ms, fourCC) ==
    LET is == {i \in DOMAIN ms : RTMPVideo(ms[i], fourCC) \/ RTMPAudio(ms[i], fourCC)}
                \cup Legacy(ms, fourCC, LegacyVideo) \cup Legacy(ms, fourCC, LegacyAudio)
    IN  Taken(is, is = {})

MPEGTSVideo == {"H265", "H264", "MPEG4Video", "MPEG1Video"}
MPEGTSOther == {"Opus", "KLV", "MPEG4Audio", "LATM", "MPEG1Audio", "AC3"}

MPEGTSFromStream(ms) ==
    LET is == {i \in DOMAIN ms : ms[i].codec \in MPEGTSVideo \cup MPEGTSOther} IN Taken(is, is = {})

HLSVideo(ms) == FirstOf(ms, <<"AV1", "VP9", "H265", "H264">>)

HLSAudio(m) == m.codec \in {"Opus", "FLAC", "MPEG4Audio"} \/ (m.codec = "LATM" /\ ~m.cpresent)

HLSFromStream(ms, variant) ==
    LET is == HLSVideo(ms) \cup {i \in DOMAIN ms : HLSAudio(ms[i])}
                \cup {i \in DOMAIN ms : ms[i].codec = "KLV" /\ variant = "mpegts"}
    IN  Taken(is, is = {})

MoQVideo == {"AV1", "VP9", "VP8", "H265", "H264"}
MoQAudio(m) == m.codec \in {"Opus", "FLAC", "G711", "LPCM"} \/ (m.codec = "MPEG4Audio" /\ m.config # 0)

(* A session without tracks is not an error.                               *)
MoQFromStream(ms) == Taken({i \in DOMAIN ms : ms[i].codec \in MoQVideo \/ MoQAudio(ms[i])}, FALSE)

FromStream(p, ms, fourCC, variant) ==
    CASE p = "webrtc" -> WebRTCFromStream(ms)
      [] p = "multi"  -> MultiFromStream(ms, 2)
      [] p = "simulcast" -> SimulcastFromStream(ms)
      [] p = "rtmp"   -> RTMPFromStream(ms, fourCC)
      [] p = "srt"    -> MPEGTSFromStream(ms)
      [] p = "hls"    -> HLSFromStream(ms, variant)
      [] p = "moq"    -> MoQFromStream(ms)

-----------------------------------------------------------------------------
(* The codec with which a media goes over the wire.                        *)

WebRTCWire(m) == IF m.codec = "G711" /\ m.rate # 8000 THEN "LPCM" ELSE m.codec

Wire(p, m) ==
    CASE p \in WebRTCs -> WebRTCWire(m)
      [] p \in {"rtmp", "hls"} /\ m.codec = "LATM" -> "MPEG4Audio"
      [] p = "moq" /\ m.codec = "G711" -> "LPCM"
      [] OTHER -> m.codec

(* ToStream: the codecs that are read.  Of one that is not, MPEG-TS and    *)
(* HLS skip the track, and WebRTC and MoQ refuse the whole publication.    *)

WebRTCToStream == {"AV1", "VP9", "VP8", "H265", "H264", "Opus", "G722", "G711", "LPCM"}

RTMPToStreamVideo == {"AV1", "VP9", "H265", "H264"}
RTMPToStreamAudio == {"Opus", "FLAC", "MPEG4Audio", "MPEG1Audio", "AC3", "G711", "LPCM"}

MPEGTSToStreamVideo == {"H265", "H264", "MPEG4Video", "MPEG1Video"}
MPEGTSToStreamOther == {"Opus", "KLV", "MPEG4Audio", "LATM", "MPEG1Audio", "AC3"}

HLSToStream == {"AV1", "VP9", "H265", "H264", "Opus", "FLAC", "MPEG4Audio", "KLV"}

MoQToStream == {"AV1", "VP9", "VP8", "H264", "H265", "Opus", "MPEG4Audio"}

ReadBy(p) ==
    CASE p \in WebRTCs -> WebRTCToStream
      [] p = "rtmp"   -> RTMPToStreamVideo \cup RTMPToStreamAudio
      [] p = "srt"    -> MPEGTSToStreamVideo \cup MPEGTSToStreamOther
      [] p = "hls"    -> HLSToStream
      [] p = "moq"    -> MoQToStream

Refusing == WebRTCs \cup {"moq"}

(* WebRTC agrees on a codec with its rate and channels, 0 being the        *)
(* default: what FromStream offers.                                        *)
Capability(m) ==
    LET c == WebRTCWire(m)
    IN  [codec |-> c,
         rate  |-> CASE c \in {"G711", "LPCM"} -> m.rate [] c = "Opus" -> 48000
                     [] c = "G722" -> 8000 [] OTHER -> 90000,
         ch    |-> CASE c = "Opus" -> IF m.ch > 2 THEN m.ch ELSE 2
                     [] c = "LPCM" \/ (c = "G711" /\ m.ch # 1) -> m.ch [] OTHER -> 0]

(* What a peer connection that receives is able to take.                   *)
Incoming(cs, rates, chs) == [codec : cs, rate : rates, ch : chs]

IncomingVideoCodecs == Incoming({"AV1", "VP9", "VP8", "H265", "H264"}, {90000}, {0})

IncomingAudioCodecs ==
    UNION {Incoming({"Opus"}, {48000}, 2..8), Incoming({"G722"}, {8000}, {0}),
           Incoming({"G711"}, {8000}, {0, 2}), Incoming({"LPCM"}, {8000, 16000, 48000}, {2})}

IsVideo(c) == c \in {"AV1", "VP9", "VP8", "H265", "H264"}

CanTake(t) == [codec |-> t.codec, rate |-> t.rate, ch |-> t.ch] \in IncomingVideoCodecs \cup IncomingAudioCodecs

(* The tracks of a peer connection, with the layer they carry.  KLV goes   *)
(* in a data channel, which is not read.                                   *)
SentTracks(ms, idx) ==
    LET medias == SelectSeq(idx, LAMBDA i : ms[i].codec # "KLV")
    IN  [k \in DOMAIN medias |->
           LET cap == Capability(ms[medias[k]])
           IN  [codec |-> cap.codec, rate |-> cap.rate, ch |-> cap.ch, layer |-> k]]

(* A track for audio is offered although there is none, and stays silent.  *)
SilentTracks(ts) == IF \E k \in DOMAIN ts : ~IsVideo(ts[k].codec) THEN 0 ELSE 1

(* A WHIP server waits for the tracks of the offer (GatherInboundTracks),  *)
(* a WHEP client for those of the answer (GatherInboundTracksExact).       *)
OfferedTracks(ts) == Len(ts) + SilentTracks(ts)
AnsweredTracks(ts) == Len(SelectSeq(ts, CanTake)) + SilentTracks(ts)

Expected(p, ts) == IF p = "simulcast" THEN OfferedTracks(ts) ELSE AnsweredTracks(ts)

(* Seeded fault: the layers stay in the order in which they arrived.       *)
SortMediaEntries_AsArrived(p, ts) == ts

(* Tracks come in the order of their first packets.  Those of several      *)
(* layers are numbered by their id or rid.                                 *)
SortMediaEntries(p, ts) ==
    LET videos == SelectSeq(ts, LAMBDA t : IsVideo(t.codec))
    IN  IF p = "webrtc" \/ Len(videos) < 2 THEN ts
        ELSE SortSeq(videos, LAMBDA s, t : s.layer < t.layer)
               \o SelectSeq(ts, LAMBDA t : ~IsVideo(t.codec))

ToStream(p, ts) ==
    IF p \in Refusing /\ \E i \in DOMAIN ts : ts[i].codec \notin ReadBy(p)
    THEN [failed |-> TRUE, medias |-> <<>>]
    ELSE LET got == SelectSeq(ts, LAMBDA t : t.codec \in ReadBy(p))
         IN  [failed |-> got = <<>>,
              medias |-> IF p \in WebRTCs THEN SortMediaEntries(p, got) ELSE got]

-----------------------------------------------------------------------------
(* The callback of a media: what it does with a unit, given whether it has *)
(* started and the time of the last frame it took.                         *)

WaitsForKey(p) ==
    CASE p \in {"rtmp", "srt"} -> {"H265", "H264"}
      [] p = "moq" -> {"AV1", "VP9", "VP8", "H265", "H264"}
      [] OTHER -> {}

(* B-frames are not supported, or the decoding time cannot be extracted.   *)
TimeMustGrow(p) ==
    CASE p \in WebRTCs -> {"H265", "H264"}
      [] p = "srt" -> {"H265", "H264", "MPEG4Video", "MPEG1Video"}
      [] p = "rtmp" -> {"H265", "H264"}
      [] OTHER -> {}

(* Seeded fault: a decoder is fed from any frame on.                       *)
Handled_FromAny(p, c, st, u) ==
    IF u.kind = "nil" THEN "skip"
    ELSE IF c \in TimeMustGrow(p) /\ st.started /\ u.pts < st.pts THEN "fail" ELSE "write"

Handled(p, c, st, u) ==
    IF u.kind = "nil" \/ (c \in WaitsForKey(p) /\ ~st.started /\ u.kind # "key") THEN "skip"
    ELSE IF c \in TimeMustGrow(p) /\ st.started /\ u.pts < st.pts THEN "fail" ELSE "write"
=============================================================================
