------------------------------- MODULE Stream -------------------------------
(***************************************************************************)
(* A stream, its substreams and its readers (internal/stream).             *)
(*                                                                         *)
(* A publisher writes through its SubStream; a path that is always         *)
(* available goes back to an offline substream when the publisher leaves.  *)
(* The path's goroutine makes the switches (sw), a publisher that has been *)
(* replaced may go on writing, and each reader has a queue and a goroutine *)
(* that runs its callback.  One mutex is shared by them: a write holds it  *)
(* for reading and is one step; RemoveReader holds it for writing while it *)
(* waits for the goroutine of the reader (locked).  Initialize of a        *)
(* substream writes the parameters without it.                             *)
(***************************************************************************)
EXTENDS Naturals, Sequences, FiniteSets, Codecs

CONSTANTS
    Pubs,        \* substreams of publishers, each used once
    Offline,     \* the substream that fills the gaps
    Readers,
    None,
    Params,      \* parameter sets of video codecs (SPS, PPS, VPS)
    Descs,       \* what the publishers may bring: medias, parameters, RTP or not
    OfflineParams,
    OrigDesc,    \* the description of the stream
    WriteQueueSize,
    Units,       \* what a source may write: kind, parameters it carries, too large or not
    MaxTime,     \* bound on the clock
    MaxUnits     \* bound on the units that are written

Subs == Pubs \cup {Offline}
Fmts == DOMAIN OrigDesc
Videos == {f \in Fmts : OrigDesc[f].codec \in HasParams}

VARIABLES
    always,      \* the path is always available
    desc,        \* [Pubs -> what the publisher brings]
    now,
    sub,         \* Stream.subStream
    sw,          \* what the path's goroutine is doing to the substreams
    offline,     \* the goroutines of the offline substream
    writer,      \* [Pubs -> {"new", "writing", "done"}]
    written,     \* how many units were written, for the bound
    units,       \* [Subs -> [Fmts -> Nat]]: the next local PTS
    own,         \* [Subs -> Params or None]: parameters of the substream's format
    offset,      \* streamFormat.ptsOffset
    last,        \* firstTimeReceived, lastPTS, lastSystemTime
    params,      \* parameters in the output format
    encoder,     \* [Fmts -> BOOLEAN]: streamFormat.rtpEncoder is set
    onDatas,     \* readers that are registered in the formats
    queue,       \* [Readers -> Seq(unit)]: Reader.buffer
    thread,      \* [Readers -> state of the goroutine of the reader]
    current,     \* [Readers -> unit in the callback, or None]
    locked       \* the reader whose removal holds the mutex, or None

subVars == <<always, desc, now, sub, sw, offline, writer, written, units, own, offset, last, params, encoder>>
readerVars == <<onDatas, queue, thread, current, locked>>
streamVars == <<subVars, readerVars>>

Idle == [step |-> "idle", ss |-> None, todo |-> {}]

Unit == [from : Subs, fmt : Fmts, pts : Nat, kind : {"nil", "key", "delta"},
         params : Params \cup {None}, want : Params \cup {None}, big : BOOLEAN]

(* Parameter sets are carried by units of their own or with a key frame.   *)
ASSUME StreamAssumption ==
    /\ Offline \notin Pubs /\ None \notin Subs \cup Params \cup Unit
    /\ WriteQueueSize \in Nat /\ MaxTime \in Nat /\ MaxUnits \in Nat
    /\ OfflineParams \in Params \cup {None}
    /\ \A d \in Descs, p \in Pubs : d[p].params \in Params \cup {None}
    /\ \A in \in Units : /\ in.kind \in {"nil", "bad", "params", "key", "delta"} /\ in.big \in BOOLEAN
                         /\ in.carries \in Params \cup {None}
                         /\ in.carries # None => in.kind \in {"params", "key"}

StreamTypeOK ==
    /\ always \in BOOLEAN /\ desc \in Descs /\ now \in 0..MaxTime
    /\ sub \in Subs \cup {None}
    /\ sw \in [step : {"idle", "close", "install", "params"}, ss : Subs \cup {None}, todo : SUBSET Fmts]
    /\ offline \in {"none", "running", "stopping"}
    /\ writer \in [Pubs -> {"new", "writing", "done"}]
    /\ written \in 0..MaxUnits /\ units \in [Subs -> [Fmts -> 0..(MaxUnits + 1)]]
    /\ own \in [Subs -> Params \cup {None}]
    /\ offset \in [Fmts -> Nat] /\ last \in [any : BOOLEAN, pts : Nat, sys : 0..MaxTime]
    /\ params \in Params \cup {None} /\ encoder \in [Fmts -> BOOLEAN]
    /\ onDatas \subseteq Readers
    /\ \A r \in Readers : queue[r] \in Seq(Unit) /\ Len(queue[r]) <= WriteQueueSize
    /\ thread \in [Readers -> {"none", "pulling", "busy", "offering", "gone"}]
    /\ current \in [Readers -> Unit \cup {None}]
    /\ locked \in Readers \cup {None}

(* The clip begins at zero, a publisher anywhere else.                     *)
FirstPTS(s) == IF s = Offline THEN 0 ELSE 1

(* A stream that is always available starts on its offline substream, with *)
(* the parameters of its clip.  Another one has no substream yet, and its  *)
(* output format is a copy of its publisher's.                             *)
StreamInit ==
    /\ always \in BOOLEAN
    /\ desc \in Descs
    /\ own = [s \in Subs |-> IF s = Offline THEN OfflineParams ELSE desc[s].params]
    /\ now = 0 /\ sw = Idle
    /\ sub = IF always THEN Offline ELSE None
    /\ offline = IF always THEN "running" ELSE "none"
    /\ writer = [p \in Pubs |-> "new"]
    /\ written = 0 /\ units = [s \in Subs |-> [f \in Fmts |-> FirstPTS(s)]]
    /\ offset = [f \in Fmts |-> 0]
    /\ last = [any |-> always /\ Videos # {}, pts |-> 0, sys |-> 0]
    /\ params = IF always THEN OfflineParams ELSE None
    /\ encoder = [f \in Fmts |-> always]
    /\ onDatas = {} /\ locked = None
    /\ queue = [r \in Readers |-> <<>>]
    /\ thread = [r \in Readers |-> "none"]
    /\ current = [r \in Readers |-> None]

Tick ==
    /\ now < MaxTime /\ now' = now + 1
    /\ UNCHANGED <<always, desc, sub, sw, offline, writer, written, units, own, offset, last, params, encoder,
                   readerVars>>

-----------------------------------------------------------------------------
(* A write (writeUnitInner).  A unit comes as a payload or as RTP packets: *)
(* some of these hold no whole unit (nil), some cannot be decoded (bad),   *)
(* and some are larger than the maximum.                                   *)

UseRTPPackets(s) == s # Offline /\ desc[s].rtp

Inputs(s, f) ==
    {in \in Units :
        /\ in.kind \in {"nil", "bad"} \/ in.big => UseRTPPackets(s)
        /\ in.kind \in {"params", "key"} => f \in Videos}

(* A full ring discards the unit.                                          *)
Push(q, u) == IF Len(q) < WriteQueueSize THEN Append(q, u) ELSE q

PushAll(u) == queue' = [r \in Readers |-> IF r \in onDatas THEN Push(queue[r], u) ELSE queue[r]]

UpdateLastTime(pts) ==
    [any |-> TRUE, pts |-> IF pts > last.pts THEN pts ELSE last.pts, sys |-> now]

(* Packets that are too large turn the encoder on for good.                *)
Encodes(f, in) == encoder[f] \/ in.big

Undecodable(f, in) ==
    in.kind = "bad" \/ (in.big /\ ~encoder[f] /\ OrigDesc[f].codec \notin Encodable)

(* formatUpdater: parameters in the unit become those of the output.       *)
Updated(in) == IF in.carries = None THEN params ELSE in.carries

(* unitRemuxer: parameters are taken out of the unit, and those of the     *)
(* output are put in front of a key frame; nothing may be left.            *)
Remuxed(s, f, pts, in) ==
    [from |-> s, fmt |-> f, pts |-> pts, big |-> in.big /\ ~Encodes(f, in),
     kind |-> IF in.kind = "params" THEN "nil" ELSE in.kind,
     params |-> IF in.kind = "key" THEN Updated(in) ELSE None,
     want |-> IF in.carries = None THEN own[s] ELSE in.carries]

WriteUnitInner(s, f, pts, in) ==
    /\ last' = IF always THEN UpdateLastTime(pts) ELSE last
    /\ IF Undecodable(f, in) THEN UNCHANGED <<params, encoder, queue>>
       ELSE /\ encoder' = [encoder EXCEPT ![f] = Encodes(f, in)]
            /\ params' = Updated(in)
            /\ PushAll(Remuxed(s, f, pts, in))

(* SubStream.WriteUnit: the units of a substream that is not the current   *)
(* one are dropped.                                                        *)
WriteUnit(s, f, in) ==
    IF sub # s THEN UNCHANGED <<last, params, encoder, queue>>
    ELSE WriteUnitInner(s, f, units[s][f] + offset[f], in)

Writing(s) == IF s = Offline THEN offline # "none" ELSE writer[s] = "writing"

SourceWrites(s, f) ==
    /\ Writing(s) /\ locked = None
    /\ written < MaxUnits /\ written' = written + 1
    /\ \E in \in Inputs(s, f) :
         /\ WriteUnit(s, f, in)
         /\ own' = IF in.carries # None THEN [own EXCEPT ![s] = in.carries] ELSE own
    /\ units' = [units EXCEPT ![s][f] = @ + 1]
    /\ UNCHANGED <<always, desc, now, sub, sw, offline, writer, offset, onDatas, thread, current, locked>>

-----------------------------------------------------------------------------
(* Switches, by the path's goroutine.                                      *)

(* subStreamFormat.initialize: units that are not RTP packets, and those   *)
(* of a stream that is always available, are encoded.                      *)
EncoderOf(p, f) == encoder[f] \/ ~desc[p].rtp \/ always

(* SubStream.Initialize of a publisher.  A stream that is always available *)
(* accepts a publisher with compatible medias only, and stops the offline  *)
(* substream; another one has a single substream.                          *)
GoOnline(p) ==
    /\ sw = Idle /\ writer[p] = "new"
    /\ IF always THEN sub = Offline /\ Compatible(OrigDesc, desc[p].medias)
                 ELSE sub = None /\ desc[p].medias = OrigDesc
    /\ \A f \in Fmts : ~always /\ ~desc[p].rtp => OrigDesc[f].codec \in Encodable
    /\ sw' = [step |-> IF always THEN "close" ELSE "install", ss |-> p, todo |-> {}]
    /\ offline' = IF always THEN "stopping" ELSE offline
    /\ encoder' = [f \in Fmts |-> EncoderOf(p, f)]
    /\ params' = IF always THEN params ELSE own[p]
    /\ UNCHANGED <<always, desc, now, sub, writer, written, units, own, offset, last, readerVars>>

Refused(p) ==
    /\ sw = Idle /\ always /\ writer[p] = "new"
    /\ ~Compatible(OrigDesc, desc[p].medias)
    /\ writer' = [writer EXCEPT ![p] = "done"]
    /\ UNCHANGED <<always, desc, now, sub, sw, offline, written, units, own, offset, last, params, encoder, readerVars>>

(* offlineSubStream.close waits for the tracks, which wait for the end of  *)
(* their last sample, and may have written another one before.             *)
OfflineClosed ==
    /\ sw.step = "close"
    /\ offline' = "none" /\ sw' = [sw EXCEPT !.step = "install"]
    /\ UNCHANGED <<always, desc, now, sub, writer, written, units, own, offset, last, params, encoder, readerVars>>

(* StartOfflineSubStream, when the publisher has left the path.            *)
GoOffline ==
    /\ sw = Idle /\ always /\ sub \in Pubs
    /\ sw' = [step |-> "install", ss |-> Offline, todo |-> {}]
    /\ units' = [units EXCEPT ![Offline] = [f \in Fmts |-> 0]]
    /\ UNCHANGED <<always, desc, now, sub, offline, writer, written, own, offset, last, params, encoder, readerVars>>

Install ==
    /\ sw.step = "install" /\ locked = None
    /\ sub' = sw.ss
    /\ sw' = [sw EXCEPT !.step = "params", !.todo = Fmts]
    /\ UNCHANGED <<always, desc, now, offline, writer, written, units, own, offset, last, params, encoder, readerVars>>

(* Seeded fault: time starts again with each substream.                    *)
Initialize2_FromZero(f) ==
    /\ always
    /\ offset' = [offset EXCEPT ![f] = 0]
    /\ UNCHANGED <<last, params, encoder, queue>>

(* Seeded fault: the parameters of the previous substream stay.            *)
Initialize2_KeepsParams(f) ==
    /\ always
    /\ offset' = [offset EXCEPT ![f] = IF last.any THEN last.pts + (now - last.sys) ELSE @]
    /\ UNCHANGED <<last, params, encoder, queue>>

(* initialize2 of a format: time goes on from the last unit, and the       *)
(* parameters of the publisher's description are written, without the      *)
(* mutex.                                                                  *)
Initialize2(f) ==
    /\ always
    /\ offset' = [offset EXCEPT ![f] = IF last.any THEN last.pts + (now - last.sys) ELSE @]
    /\ IF f \in Videos /\ own[sw.ss] # None
         THEN WriteUnitInner(sw.ss, f, offset'[f], [kind |-> "params", carries |-> own[sw.ss], big |-> FALSE])
         ELSE UNCHANGED <<last, params, encoder, queue>>

InitializeFormat(f) ==
    /\ sw.step = "params" /\ f \in sw.todo
    /\ IF always THEN Initialize2(f) ELSE UNCHANGED <<offset, last, params, encoder, queue>>
    /\ sw' = [sw EXCEPT !.todo = @ \ {f}]
    /\ UNCHANGED <<always, desc, now, sub, offline, writer, written, units, own, onDatas, thread, current, locked>>

(* Initialize returns: the publisher is told, or the offline tracks start. *)
Switched ==
    /\ sw.step = "params" /\ sw.todo = {}
    /\ sw' = Idle
    /\ IF sw.ss = Offline THEN offline' = "running" /\ UNCHANGED writer
       ELSE writer' = [writer EXCEPT ![sw.ss] = "writing"] /\ UNCHANGED offline
    /\ UNCHANGED <<always, desc, now, sub, written, units, own, offset, last, params, encoder, readerVars>>

-----------------------------------------------------------------------------
(* Readers.                                                                *)

AddReader(r) ==
    /\ thread[r] = "none" /\ locked = None
    /\ onDatas' = onDatas \cup {r}
    /\ thread' = [thread EXCEPT ![r] = "pulling"]
    /\ UNCHANGED <<subVars, queue, current, locked>>

(* runInner: the next unit is given to the callback, ...                   *)
Pull(r) ==
    /\ thread[r] = "pulling" /\ queue[r] # <<>>
    /\ thread' = [thread EXCEPT ![r] = "busy"]
    /\ current' = [current EXCEPT ![r] = Head(queue[r])]
    /\ queue' = [queue EXCEPT ![r] = Tail(@)]
    /\ UNCHANGED <<subVars, onDatas, locked>>

(* ... an error of which ends the goroutine, that offers it to its owner.  *)
CallbackReturns(r, ok) ==
    /\ thread[r] = "busy"
    /\ thread' = [thread EXCEPT ![r] = IF ok THEN "pulling" ELSE "offering"]
    /\ current' = [current EXCEPT ![r] = None]
    /\ UNCHANGED <<subVars, onDatas, queue, locked>>

OwnerTakesError(r) ==
    /\ thread[r] = "offering" /\ locked # r
    /\ thread' = [thread EXCEPT ![r] = "gone"]
    /\ UNCHANGED <<subVars, onDatas, queue, current, locked>>

(* Seeded fault: closing the ring does not wake its reader.                *)
PullClosed_Forgotten(r) == FALSE /\ UNCHANGED streamVars

(* A ring that is closed discards what it holds, and its Pull returns.     *)
PullClosed(r) ==
    /\ thread[r] = "pulling" /\ locked = r
    /\ thread' = [thread EXCEPT ![r] = "offering"]
    /\ UNCHANGED <<subVars, onDatas, queue, current, locked>>

(* RemoveReader takes the mutex, closes the ring and waits for the error   *)
(* of the goroutine, which a goroutine that has failed may have given.     *)
RemoveReader(r) ==
    /\ locked = None /\ r \in onDatas
    /\ locked' = r
    /\ queue' = [queue EXCEPT ![r] = <<>>]
    /\ UNCHANGED <<subVars, onDatas, thread, current>>

ReaderRemoved(r) ==
    /\ locked = r /\ thread[r] \in {"offering", "gone"}
    /\ onDatas' = onDatas \ {r} /\ locked' = None
    /\ thread' = [thread EXCEPT ![r] = "gone"]
    /\ queue' = [queue EXCEPT ![r] = <<>>]
    /\ UNCHANGED <<subVars, current>>

-----------------------------------------------------------------------------
SwitchSteps == OfflineClosed \/ Install \/ (\E f \in Fmts : InitializeFormat(f)) \/ Switched

StreamNext ==
    \/ Tick
    \/ \E s \in Subs, f \in Fmts : SourceWrites(s, f)
    \/ \E p \in Pubs : GoOnline(p) \/ Refused(p)
    \/ GoOffline \/ SwitchSteps
    \/ \E r \in Readers : AddReader(r) \/ Pull(r) \/ OwnerTakesError(r) \/ PullClosed(r)
                          \/ RemoveReader(r) \/ ReaderRemoved(r)

-----------------------------------------------------------------------------
(* The time of a format never goes back in front of a reader, whatever     *)
(* substreams took turns: the units of a new one follow those of the old   *)
(* one, and those that a replaced publisher still writes are dropped.      *)
TimeGoesOn ==
    \A r \in Readers :
        LET seen == IF current[r] = None THEN queue[r] ELSE <<current[r]>> \o queue[r]
        IN  \A i, j \in DOMAIN seen :
                i < j /\ seen[i].fmt = seen[j].fmt => seen[i].pts <= seen[j].pts

(* A unit in the queue of a reader is what the reader registered for: it   *)
(* has the codec and the parameters of the stream's media, a key frame     *)
(* carries the parameter sets of the substream that wrote it, when it has  *)
(* any (want), and its RTP packets fit the maximum.                        *)
UnitsAreUsable ==
    \A r \in Readers : \A i \in DOMAIN queue[r] :
        LET u == queue[r][i]
        IN  /\ ~u.big
            /\ u.kind = "key" => u.want \in {None, u.params}
            /\ u.from \in Pubs => Compatible(<<OrigDesc[u.fmt]>>, <<desc[u.from].medias[u.fmt]>>)

(* Switches and removals end: the offline substream stops, and callbacks   *)
(* return, while the mutex is held for them.                               *)
NothingHangs ==
    /\ []<>(sw = Idle)
    /\ \A r \in Readers : []<>(locked # r)
=============================================================================
