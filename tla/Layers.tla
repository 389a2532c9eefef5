------------------------------- MODULE Layers -------------------------------
(***************************************************************************)
(* A WHEP reader of a stream with several video layers: the selection of   *)
(* the layer (TrackSelector), the filter and the callback that route the   *)
(* layers to one output track (SetupFromStreamABR), the pausing of the     *)
(* video (MediaState), and the controller that recommends a layer from     *)
(* loss and round-trip time (abrController, runABRControl).  Layers are    *)
(* numbered from 0, the best one.                                          *)
(*                                                                         *)
(* A frame is numbered within its layer; a delta frame needs the one       *)
(* before it.                                                              *)
(***************************************************************************)
EXTENDS Integers, Sequences

CONSTANTS
    MaxVideoLayers,
    RingSize,        \* the write queue of the reader
    PendingTimeout,  \* in accesses, instead of 5 seconds
    DowngradeConfirmations,
    UpgradeConfirmations,
    LayerBounds      \* bounds: frames of each layer, evaluations, handlers of SET_MEDIA_STATE

ASSUME LayersAssumption ==
    /\ MaxVideoLayers \in Nat \ {0} /\ RingSize \in Nat /\ PendingTimeout \in Nat
    /\ DowngradeConfirmations \in Nat /\ UpgradeConfirmations \in Nat

VARIABLES
    layers,          \* number of video layers
    active, pending, \* TrackSelector.activeID, pendingID; -1 is none
    age,             \* time since pendingAt
    frames,          \* [layer -> frames written by the publisher]
    ring,            \* frames in the queue of the reader
    sent,            \* last frame that was forwarded, and whether it could be decoded
    holes,           \* layers of which frames were left out behind those that are queued
    ladder,          \* the codec of all layers
    paused,          \* MediaState.videoPaused
    resuming,        \* handlers between Swap and Add of SetVideoPaused
    waits,           \* layers whose generation is behind videoGeneration
    auto,            \* abrAutoMode
    cooling,         \* the cooldown of the last switch is running
    upgradeCount, downgradeCount,
    advice,          \* ABR_RECOMMEND under way to the client, or -1
    ticks,
    bound            \* the bounds of the behaviour

selectorVars == <<layers, active, pending, age>>
frameVars == <<frames, ring, sent, holes>>
mediaStateVars == <<ladder, paused, resuming, waits>>
controlVars == <<auto, cooling, upgradeCount, downgradeCount, advice, ticks, bound>>
layersVars == <<selectorVars, frameVars, mediaStateVars, controlVars>>

LayerIds == 0..(layers - 1)

LayersTypeOK ==
    /\ layers \in 1..MaxVideoLayers
    /\ active \in LayerIds /\ pending \in LayerIds \cup {-1}
    /\ age \in 0..(PendingTimeout + 1)
    /\ frames \in [0..(MaxVideoLayers - 1) -> Nat]
    /\ Len(ring) <= RingSize
    /\ sent \in [layer : LayerIds \cup {-1}, n : Nat, ok : BOOLEAN]
    /\ holes \subseteq LayerIds
    /\ ladder \in {"H264", "H265"} /\ paused \in BOOLEAN
    /\ resuming \in Nat /\ waits \subseteq LayerIds
    /\ auto \in BOOLEAN /\ cooling \in BOOLEAN
    /\ upgradeCount \in 0..UpgradeConfirmations /\ downgradeCount \in 0..DowngradeConfirmations
    /\ advice \in LayerIds \cup {-1} /\ ticks \in Nat /\ bound \in LayerBounds

(* LoadFromDescription: the first layer is active.                         *)
LayersInit ==
    /\ bound \in LayerBounds
    /\ layers \in 1..MaxVideoLayers /\ layers <= Len(bound.frames)
    /\ active = 0 /\ pending = -1 /\ age = 0
    /\ frames = [l \in 0..(MaxVideoLayers - 1) |-> 0]
    /\ ring = <<>> /\ sent = [layer |-> -1, n |-> 0, ok |-> TRUE] /\ holes = {}
    /\ ladder \in {"H264", "H265"} /\ paused = FALSE /\ resuming = 0 /\ waits = {}
    /\ auto = TRUE /\ cooling = FALSE
    /\ upgradeCount = 0 /\ downgradeCount = 0
    /\ advice = -1 /\ ticks = 0

(* A single video media is passed through: a switch is made at once.       *)
Passthrough == layers = 1

-----------------------------------------------------------------------------
ShouldQueue(l) == l \in {active, pending}

(* MediaState.Allow: after a pause, a layer waits for its next key frame;  *)
(* only the payload of H264 is looked at, any other unit ends the wait.    *)
Allow(l, key) == ~paused /\ (l \in waits => key \/ ladder # "H264")

(* What Allow notes: the first unit of a layer that comes in a pause takes *)
(* the generation that there is.                                           *)
Noted(l) ==
    \/ (~paused \/ frames[l] = 0) /\ waits' = waits \ {l}
    \/ paused /\ waits' = waits

(* A frame of the layer that is left out is missed by those behind it.     *)
LeftOut(l) ==
    IF l = active \/ \E i \in DOMAIN ring : ring[i].layer = l THEN holes \cup {l} ELSE holes

(* The writer of the stream runs the filters of each layer, that of the    *)
(* media first, and pushes what they let through.                          *)
FrameArrives(l, key) ==
    /\ frames[l] < bound.frames[l + 1]
    /\ frames' = [frames EXCEPT ![l] = @ + 1]
    /\ LET queued == ShouldQueue(l) /\ Len(ring) < RingSize
           frame == [layer |-> l, n |-> frames[l] + 1, key |-> key,
                     hole |-> \/ l \in holes \/ resuming > 0
                              \/ l \in waits /\ ladder # "H264"]
       IN  IF Allow(l, key)
           THEN /\ ring' = IF queued THEN Append(ring, frame) ELSE ring
                /\ holes' = IF queued THEN holes \ {l} ELSE LeftOut(l)
                /\ Noted(l)
           ELSE /\ UNCHANGED <<ring, holes>>
                /\ IF paused THEN Noted(l) ELSE UNCHANGED waits
    /\ UNCHANGED <<selectorVars, sent, ladder, paused, resuming, controlVars>>

(* A unit without payload, of an RTP packet that completes no frame: it is *)
(* not queued, but Allow takes it for one that needs no key frame.         *)
FragmentArrives(l) ==
    /\ Noted(l)
    /\ holes' = IF ~paused /\ l \in waits THEN LeftOut(l) ELSE holes
    /\ UNCHANGED <<selectorVars, frames, ring, sent, ladder, paused, resuming, controlVars>>

(* SET_MEDIA_STATE of the client: SetVideoPaused sets the flag, and after  *)
(* a pause it adds to the generation.                                      *)
PauseVideo ==
    /\ resuming < bound.handlers
    /\ paused' = TRUE
    /\ UNCHANGED <<selectorVars, frameVars, ladder, resuming, waits, controlVars>>

ResumeSwap ==
    /\ paused /\ resuming < bound.handlers
    /\ paused' = FALSE /\ resuming' = resuming + 1
    /\ UNCHANGED <<selectorVars, frameVars, ladder, waits, controlVars>>

ResumeAdd ==
    /\ resuming > 0 /\ resuming' = resuming - 1
    /\ waits' = LayerIds
    /\ UNCHANGED <<selectorVars, frameVars, ladder, paused, controlVars>>

(* TrackSelector.Select, by SELECT_LAYER of the client.                    *)
Select(l) ==
    /\ pending' = IF l = active \/ Passthrough THEN -1 ELSE l
    /\ active' = IF Passthrough THEN l ELSE active
    /\ age' = 0
    /\ UNCHANGED layers

(* Seeded fault: the switch does not wait for a key frame.                 *)
OnAccessUnit_AnyFrame(f) ==
    [active |-> IF ~Passthrough /\ f.layer = pending THEN f.layer ELSE active,
     pending |-> IF ~Passthrough /\ (f.layer = pending \/ age > PendingTimeout) THEN -1 ELSE pending,
     forward |-> IF ~Passthrough /\ f.layer = pending THEN TRUE ELSE f.layer = active]

(* OnAccessUnit: whether the frame is forwarded, and what becomes of the   *)
(* selection.                                                              *)
OnAccessUnit(f) ==
    LET switches == ~Passthrough /\ f.layer = pending /\ f.key
    IN  [active |-> IF switches THEN f.layer ELSE active,
         pending |-> IF switches \/ (~Passthrough /\ age > PendingTimeout) THEN -1 ELSE pending,
         forward |-> switches \/ f.layer = active]

(* The callback of the reader; frames that are forwarded share one encoder *)
(* and one output clock.                                                   *)
FrameTaken ==
    /\ ring # <<>> /\ ring' = Tail(ring)
    /\ LET f == Head(ring)
           r == OnAccessUnit(f)
       IN  /\ active' = r.active /\ pending' = r.pending
           /\ sent' = IF ~r.forward THEN sent
                      ELSE [layer |-> f.layer, n |-> f.n,
                            ok |-> \/ f.key \/ f.hole \/ sent.layer = -1
                                   \/ sent.layer = f.layer /\ sent.n = f.n - 1]
    /\ UNCHANGED <<layers, age, frames, holes, mediaStateVars, controlVars>>

TimePasses ==
    /\ pending # -1 /\ age <= PendingTimeout
    /\ age' = age + 1
    /\ UNCHANGED <<layers, active, pending, frameVars, mediaStateVars, controlVars>>

-----------------------------------------------------------------------------
(* The client chooses by hand, which ends the automatic mode, or follows a *)
(* recommendation, late or never.                                          *)
ClientSelects(l, byHand) ==
    /\ ~cooling /\ l \in LayerIds
    /\ byHand \/ advice = l
    /\ Select(l)
    /\ cooling' = TRUE
    /\ advice' = IF byHand THEN advice ELSE -1
    /\ auto' = (auto /\ ~byHand)
    /\ UNCHANGED <<frameVars, mediaStateVars, upgradeCount, downgradeCount, ticks, bound>>

SetMode ==
    /\ ticks < bound.ticks
    /\ auto' = ~auto
    /\ UNCHANGED <<selectorVars, frameVars, mediaStateVars, cooling, upgradeCount, downgradeCount, advice,
                   ticks, bound>>

CooldownEnds ==
    /\ cooling /\ cooling' = FALSE
    /\ UNCHANGED <<selectorVars, frameVars, mediaStateVars, auto, upgradeCount, downgradeCount, advice,
                   ticks, bound>>

(* step: one layer down is the next number, the ends are kept.             *)
Step(l, delta) == IF l - delta \in LayerIds THEN l - delta ELSE -1

(* evaluate: a verdict counts only after the same one; what it recommends  *)
(* is a layer beside the active one.                                       *)
Evaluate(verdict) ==
    LET down == IF verdict = "down" THEN downgradeCount + 1 ELSE 0
        up   == IF verdict = "up" THEN upgradeCount + 1 ELSE 0
    IN  [down |-> IF down >= DowngradeConfirmations THEN 0 ELSE down,
         up |-> IF up >= UpgradeConfirmations THEN 0 ELSE up,
         target |-> IF down >= DowngradeConfirmations THEN Step(active, -1)
                    ELSE IF up >= UpgradeConfirmations THEN Step(active, 1) ELSE -1]

(* A tick of runABRControl: manual mode forgets what was counted, and      *)
(* nothing is evaluated in a cooldown.                                     *)
ABRTick(verdict) ==
    /\ layers >= 2 /\ ticks < bound.ticks /\ ticks' = ticks + 1
    /\ IF ~auto THEN /\ upgradeCount' = 0 /\ downgradeCount' = 0
                     /\ UNCHANGED advice
       ELSE IF cooling THEN UNCHANGED <<upgradeCount, downgradeCount, advice>>
       ELSE LET e == Evaluate(verdict)
            IN  /\ upgradeCount' = e.up /\ downgradeCount' = e.down
                /\ advice' = IF e.target # -1 THEN e.target ELSE advice
    /\ UNCHANGED <<selectorVars, frameVars, mediaStateVars, auto, cooling, bound>>

LayersNext ==
    \/ \E l \in LayerIds, key \in BOOLEAN : FrameArrives(l, key)
    \/ \E l \in LayerIds : FragmentArrives(l)
    \/ PauseVideo \/ ResumeSwap \/ ResumeAdd
    \/ FrameTaken \/ TimePasses \/ SetMode \/ CooldownEnds
    \/ \E l \in LayerIds, byHand \in BOOLEAN : ClientSelects(l, byHand)
    \/ \E v \in {"up", "down", "hold"} : ABRTick(v)

-----------------------------------------------------------------------------
(* What is forwarded can be decoded: a switch begins with a key frame of   *)
(* the new layer, so does what follows a pause, and a delta frame follows  *)
(* the frame it needs.  The first frame of a session may be any, and one   *)
(* behind a hole lacks a frame: one that a full ring discarded, or that    *)
(* came while its layer was not selected and an older frame of it was      *)
(* still queued (when the layer is selected again, that older key frame    *)
(* completes the switch, against what the comment of SetupFromStreamABR    *)
(* says), or one of a pause after which Allow did not wait for a key       *)
(* frame: the codec is H265, a fragment of a frame came first, or the      *)
(* frame came between Swap and Add of SetVideoPaused.                      *)
ForwardedDecodes == sent.ok
=============================================================================
