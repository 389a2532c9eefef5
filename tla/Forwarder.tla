------------------------------ MODULE Forwarder -----------------------------
(***************************************************************************)
(* A forwarder of a path (internal/forward): a supervisor that restarts an *)
(* attempt to publish the stream, or one layer of it, to another server    *)
(* over WHIP.  An attempt registers its reader last and undoes everything  *)
(* in reverse order, whatever failed.                                      *)
(***************************************************************************)
EXTENDS Naturals, Sequences, FiniteSets

CONSTANTS ForwardedMedias      \* descriptions of a path, sequences of medias

VARIABLES
    fw,      \* the forwarder: where it is, term, its reader
    far      \* the sessions at the target: of this attempt, and left over

forwardVars == <<fw, far>>

C == INSTANCE Codecs

(* SplitLayers: one description for each H264 media, with the first audio. *)
Audio == {"Opus", "MPEG4Audio", "LATM", "MPEG1Audio", "AC3", "G711", "LPCM", "FLAC", "G722"}

SplitLayers(ms) ==
    LET videos == SelectSeq(ms, LAMBDA m : m.codec = "H264")
        audios == SelectSeq(ms, LAMBDA m : m.codec \in Audio)
    IN  [k \in DOMAIN videos |-> <<videos[k]>> \o SubSeq(audios, 1, 1)]

SimulcastLayerCount(ms) == Cardinality({i \in DOMAIN ms : ms[i].codec \in {"H264", "H265"}})

SetupOutboundTracks(ms) ==
    IF SimulcastLayerCount(ms) > 1 THEN C!SimulcastFromStream(ms) ELSE C!WebRTCFromStream(ms)

(* A layer of a path goes to Tencent, the whole of it to another node.     *)
Targets(ms) == {ms} \cup {SplitLayers(ms)[k] : k \in DOMAIN SplitLayers(ms)}

ForwardInit ==
    /\ far = [own |-> FALSE, left |-> FALSE]
    /\ \E ms \in ForwardedMedias : \E desc \in Targets(ms) :
         fw = [pc |-> "setup", term |-> FALSE, reader |-> FALSE, desc |-> desc]

At(pc) == fw.pc = pc
Goes(pc) == fw' = [fw EXCEPT !.pc = pc]

(* The peer connection and the offer: setup fails in every attempt if      *)
(* there is nothing to send.                                               *)
Setup ==
    /\ At("setup")
    /\ \/ ~SetupOutboundTracks(fw.desc).failed /\ Goes("posting")
       \/ Goes("ended")
    /\ UNCHANGED far

(* postWebrtc: the target may have made a session whose answer is lost.    *)
(* The context ends it, at once.                                           *)
Post ==
    /\ At("posting")
    /\ \/ ~fw.term /\ Goes("connecting") /\ far' = [far EXCEPT !.own = TRUE]
       \/ Goes("ended") /\ \E accepted \in BOOLEAN : far' = [far EXCEPT !.left = @ \/ accepted]

(* WaitUntilConnected does not look at the context: a forwarder that is    *)
(* closed may still connect, and then stops.                               *)
WaitUntilConnected ==
    /\ At("connecting")
    /\ \/ fw' = [fw EXCEPT !.pc = "forwarding", !.reader = TRUE]
       \/ Goes("unwinding")
    /\ UNCHANGED far

ForwardingFails ==
    /\ At("forwarding") /\ ~fw.term
    /\ Goes("unwinding")
    /\ UNCHANGED far

ForwardingStops ==
    /\ At("forwarding") /\ fw.term
    /\ Goes("unwinding")
    /\ UNCHANGED far

(* RemoveReader, the DELETE, whose failure is ignored, and pc.Close.       *)
Unwind ==
    /\ At("unwinding")
    /\ fw' = [fw EXCEPT !.pc = "ended", !.reader = FALSE]
    /\ \E lost \in BOOLEAN : far' = [own |-> FALSE, left |-> far.left \/ lost]

(* run: the attempt is over.                                               *)
AttemptEnded ==
    /\ At("ended")
    /\ Goes(IF fw.term THEN "stopped" ELSE "paused")
    /\ UNCHANGED far

PauseEnds ==
    /\ At("paused")
    /\ Goes(IF fw.term THEN "stopped" ELSE "setup")
    /\ UNCHANGED far

ForwardClose ==
    /\ ~fw.term
    /\ fw' = [fw EXCEPT !.term = TRUE]
    /\ UNCHANGED far

(* The target drops a session that nobody sends to.                        *)
TargetExpires ==
    /\ far.left
    /\ far' = [far EXCEPT !.left = FALSE]
    /\ UNCHANGED fw

ForwardSteps ==
    \/ Setup \/ Post \/ WaitUntilConnected \/ ForwardingStops
    \/ Unwind \/ AttemptEnded \/ PauseEnds

ForwardNext == ForwardSteps \/ ForwardingFails \/ ForwardClose \/ TargetExpires

(* The reader of a forwarder is registered only while it has a session at  *)
(* the target, and nothing is left of one that stopped, so that the stream *)
(* of the path can be closed.                                              *)
ForwardingIsClean ==
    /\ fw.reader => far.own /\ fw.pc \in {"forwarding", "unwinding"}
    /\ fw.pc \in {"ended", "paused", "stopped"} => ~fw.reader /\ ~far.own
=============================================================================
