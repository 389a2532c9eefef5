------------------------------ MODULE Recorder ------------------------------
(***************************************************************************)
(* The recorder of a path (internal/recorder): a supervisor that restarts  *)
(* an instance two seconds after it fails or is split, the instance that   *)
(* reads the stream, and the segments it writes.                           *)
(*                                                                         *)
(* Times are ticks.  A sample is known by the number n of its unit; its    *)
(* file holds the time base from the start of the segment, not the DTS.    *)
(* A file is on disk as long as its name is; a recorder goes on writing to *)
(* one that was removed.                                                   *)
(***************************************************************************)
EXTENDS Integers, Sequences, FiniteSets, SequencesExt

CONSTANTS
    Setups,           \* fmt, medias (a sequence of records with codec and cpresent)
                      \* and zone of the node: [sign, h, m], h and m in ticks of 30 minutes
    SegmentDuration, PartDuration, DriftTolerance, MaxBasetime,
    KeyInterval,      \* of the encoder of the publisher
    Skews,            \* from the clock of the node to the one NTP comes from
    MaxTime, MaxUnits, MaxDisturbed,    \* bounds, by the number of medias
    MaxInstances,                       \* bound
    None

(* A sample of a unit.                                                     *)
Sample == [n : Nat, t : Nat, dts : Nat, ntp : Int, key : BOOLEAN]

ASSUME RecorderAssumption ==
    /\ SegmentDuration \in Nat /\ DriftTolerance \in Nat
    /\ MaxBasetime \in Nat \ {0} /\ KeyInterval \in Nat \ {0}
    /\ Skews \subseteq Int /\ 0 \in Skews
    /\ None \notin Sample
    /\ \A s \in Setups : /\ s.fmt \in {"fmp4", "mpegts"} /\ s.medias \in Seq(Range(s.medias))
                         /\ s.zone \in [sign : {-1, 1}, h : Nat, m : Nat]

VARIABLES
    clock,
    setup,      \* of Setups; it does not change
    units,      \* units that were sent: media, DTS, NTP, key
    skew,       \* of the NTP of the publisher, which may send its own
    rec,        \* the supervisor
    inst,       \* its instance
    request,    \* the SplitSegment that waits
    disk,       \* files
    events,     \* OnSegmentCreate and OnSegmentComplete, in order
    disturbed,  \* splits, errors of the disk, crashes and clocks that are off so far
    starved     \* the segment went without a key frame for longer than KeyInterval

recVars == <<clock, setup, units, skew, rec, inst, request, disk, events, disturbed, starved>>

-----------------------------------------------------------------------------
(* What is recorded of a stream.                                           *)

Videos == {"AV1", "VP9", "VP8", "H265", "H264", "MPEG4Video", "MPEG1Video", "MJPEG"}

IsVideo(m) == m.codec \in Videos

FMP4Video == {"AV1", "VP9"}
FMP4NALU == {"H265", "H264"}
FMP4OldVideo == {"MPEG4Video", "MPEG1Video", "MJPEG"}
FMP4Audio(m) == m.codec \in {"Opus", "MPEG4Audio"} \/ (m.codec = "LATM" /\ ~m.cpresent)
FMP4OldAudio == {"MPEG1Audio", "AC3"}
FMP4PCM == {"G711", "LPCM"}

TSVideo == {"H265", "H264", "MPEG4Video", "MPEG1Video"}
TSAudio(m) ==
    \/ m.codec \in {"Opus", "KLV", "MPEG4Audio", "MPEG1Audio", "AC3"}
    \/ m.codec = "LATM" /\ ~m.cpresent

(* The one video of a recording: the first of H264, or else the first.     *)
PickRecordedVideo(ms) ==
    LET all  == {i \in DOMAIN ms : IsVideo(ms[i])}
        h264 == {i \in all : ms[i].codec = "H264"}
        best == IF h264 # {} THEN h264 ELSE all
    IN  {i \in best : \A j \in best : i <= j}

Supported(fmt, m) ==
    IF fmt = "mpegts" THEN m.codec \in TSVideo \/ TSAudio(m)
    ELSE m.codec \in FMP4Video \cup FMP4NALU \cup FMP4OldVideo \cup FMP4OldAudio \cup FMP4PCM \/ FMP4Audio(m)

Tracks(fmt, ms) ==
    {i \in DOMAIN ms : (IsVideo(ms[i]) => i \in PickRecordedVideo(ms)) /\ Supported(fmt, ms[i])}

(* The callback of a video waits for its first key frame, but for the old  *)
(* codecs in MPEG-TS.                                                      *)
WaitsForKey(m) ==
    IsVideo(m) /\ m.codec # "MJPEG" /\ (setup.fmt = "mpegts" => m.codec \notin {"MPEG4Video", "MPEG1Video"})

-----------------------------------------------------------------------------
(* The name of a segment is its start, in the zone of the node; the start  *)
(* that is read from a name again is not the same one in a zone whose      *)
(* offset has minutes.                                                     *)

Offset(z) == z.sign * (2 * z.h + z.m)
DecodedOffset(z) == z.sign * 2 * z.h + 60 * z.m

Encode(ntp) == [local |-> ntp + Offset(setup.zone), zone |-> setup.zone]
Decode(name) == name.local - DecodedOffset(name.zone)

(* A file that SplitSegment renamed is not a segment for anybody else.     *)
IsSegment(f) == ~f.renamed

-----------------------------------------------------------------------------
(* Segments.  A step of the instance is a function of its state, the files *)
(* and the events, and of what the disk does.  cur says that there is a    *)
(* part, which has no sample when its first one was too large.             *)

NoSegment == [num |-> -1]

NewSegment(num, dts, ntp) ==
    [num |-> num, dts |-> dts, ntp |-> ntp, end |-> dts, fi |-> "none",
     cur |-> FALSE, part |-> <<>>, partStart |-> dts, partEnd |-> dts, last |-> dts, flushed |-> dts]

NewInstance(id) ==
    [id |-> id, done |-> FALSE, failed |-> FALSE, skip |-> Tracks(setup.fmt, setup.medias) = {},
     hasVideo |-> FALSE, number |-> 0, seg |-> NoSegment,
     next |-> [i \in DOMAIN setup.medias |-> None],
     started |-> [i \in DOMAIN setup.medias |-> None],
     keyed |-> [i \in DOMAIN setup.medias |-> FALSE]]

(* Nothing went wrong so far.                                              *)
Now(i) == [inst |-> i, disk |-> disk, events |-> events, err |-> FALSE]
Failed(st) == [st EXCEPT !.err = TRUE]

FileOf(i) == [stream |-> i.id, num |-> i.seg.num]

OnFile(st, F(_)) ==
    [st EXCEPT !.disk = {IF [stream |-> f.stream, num |-> f.num] = FileOf(st.inst) THEN F(f) ELSE f : f \in @}]

Tell(st, kind) == [st EXCEPT !.events = Append(@, [kind |-> kind, file |-> FileOf(st.inst)])]

NewFile(i, header) ==
    [name |-> Encode(i.seg.ntp), stream |-> i.id, num |-> i.seg.num, dts |-> i.seg.dts,
     header |-> header, parts |-> <<>>, torn |-> "no", duration |-> 0, renamed |-> FALSE]

(* A file of the same name is overwritten.                                 *)
Overwritten(d, f) == {g \in d : g.name # f.name \/ g.renamed} \cup {f}

(* os.Create, OnSegmentCreate, and the header (fMP4 only).                 *)
Created(st, io) ==
    LET header == setup.fmt = "fmp4" /\ io # "init"
        fails  == io = "init" /\ setup.fmt = "fmp4"
    IN  IF io = "create" THEN Failed(st)
        ELSE Tell([st EXCEPT !.disk = Overwritten(@, NewFile(st.inst, header)),
                             !.inst.seg.fi = IF fails THEN @ ELSE "open",
                             !.err = fails], "create")

(* One write, which may leave a piece of the part in the file: of its moof *)
(* only, or the moof and a piece of the samples.                           *)
Torn == {"moof", "mdat"}

PartToFile(st, io) ==
    IF st.err \/ st.inst.seg.fi = "closed" \/ io = "part" THEN Failed(st)
    ELSE OnFile([st EXCEPT !.err = io \in Torn],
                LAMBDA f : [f EXCEPT !.parts = IF io = "moof" THEN @ ELSE Append(@, st.inst.seg.part),
                                     !.torn = IF io \in Torn THEN io ELSE @])

(* The buffer of MPEG-TS writes nothing any more after an error.           *)
BufferLost(st) ==
    IF setup.fmt = "mpegts" /\ st.err THEN [st EXCEPT !.inst.seg.cur = FALSE, !.inst.seg.part = <<>>] ELSE st

(* closeCurPart: the part goes to the file, which is created for it.       *)
CloseCurPart(st, io) ==
    BufferLost(PartToFile(IF st.inst.seg.fi = "none" THEN Created(st, io) ELSE st, io))

DurationWritten(seg) == (IF setup.fmt = "fmp4" THEN seg.end ELSE seg.last) - seg.dts

(* Seeded fault: a file that is closed is reported again.                  *)
FileClosed_Again(st, io) ==
    IF st.inst.seg.fi = "none" THEN st
    ELSE OnFile(Tell([st EXCEPT !.inst.seg.fi = "closed"], "complete"),
                LAMBDA f : [f EXCEPT !.duration = DurationWritten(st.inst.seg)])

(* A file whose close fails is not reported ("unclosed" is for the         *)
(* properties), one without its duration is.                               *)
FileClosed(st, io) ==
    LET failed == io = "close" \/ (io = "duration" /\ setup.fmt = "fmp4")
    IN  IF st.inst.seg.fi # "open" THEN [st EXCEPT !.err = @ \/ st.inst.seg.fi = "closed"]
        ELSE OnFile(Tell([st EXCEPT !.inst.seg.fi = "closed", !.err = @ \/ failed],
                         IF io = "close" THEN "unclosed" ELSE "complete"),
                    LAMBDA f : [f EXCEPT !.duration = IF io = "duration" THEN @ ELSE DurationWritten(st.inst.seg)])

(* close of a segment: an error in the last part does not keep it from     *)
(* being closed and reported.                                              *)
CloseSegment(st, io) == FileClosed(IF st.inst.seg.cur THEN CloseCurPart(st, io) ELSE st, io)

(* The next segment starts from the oldest of the samples that wait, but   *)
(* for one that is too far behind the newest.                              *)
NextSegmentStartingPos(next) ==
    LET waiting == {t \in DOMAIN next : next[t] # None}
        near    == {t \in waiting : \A u \in waiting : next[u].dts - next[t].dts <= MaxBasetime}
        oldest  == {t \in near : \A u \in near : next[t].dts <= next[u].dts}
    IN  next[CHOOSE t \in oldest : \A u \in oldest : u <= t]

SegmentFrom(st, s) ==
    [st EXCEPT !.inst.seg = NewSegment(st.inst.number, s.dts, s.ntp), !.inst.number = @ + 1]

Drifts(i, t, s) ==
    /\ i.started[t] # None
    /\ LET drift == (s.ntp - i.started[t].ntp) - (s.dts - i.started[t].dts)
       IN  drift > DriftTolerance \/ drift < -DriftTolerance

Started(st, t, s) ==
    IF st.inst.started[t] # None THEN st ELSE [st EXCEPT !.inst.started[t] = [dts |-> s.dts, ntp |-> s.ntp]]

StoredSample(s, dur, segDts) == [n |-> s.n, t |-> s.t, base |-> s.dts - segDts, dur |-> dur, key |-> s.key]

Later(x, y) == IF x > y THEN x ELSE y

(* A part that is long enough is closed before a sample.                   *)
PartFor(st, s, io) ==
    LET fresh(x) == [x EXCEPT !.inst.seg.cur = ~x.err, !.inst.seg.part = <<>>,
                              !.inst.seg.partStart = s.dts, !.inst.seg.partEnd = 0]
    IN  IF ~st.inst.seg.cur THEN fresh(st)
        ELSE IF st.inst.seg.partEnd - st.inst.seg.partStart >= PartDuration THEN fresh(CloseCurPart(st, io))
        ELSE st

SampleToPart(st, s, dur, io) ==
    IF st.err \/ io = "size" THEN Failed(st)
    ELSE [st EXCEPT !.inst.seg.part = Append(@, StoredSample(s, dur, st.inst.seg.dts)),
                    !.inst.seg.partEnd = Later(@, s.dts + dur)]

(* write of formatFMP4Segment.                                             *)
WriteSample(st, s, dur, io) ==
    SampleToPart(PartFor([st EXCEPT !.inst.seg.end = Later(@, s.dts + dur)], s, io), s, dur, io)

(* A segment is cut at a key frame of the video, if there is one.          *)
CanCut(i, s) ==
    /\ i.hasVideo => IsVideo(setup.medias[s.t])
    /\ s.key
    /\ s.dts - i.seg.dts >= SegmentDuration

FollowedBy(st) == IF st.err THEN st ELSE SegmentFrom(st, NextSegmentStartingPos(st.inst.next))

CutFMP4(st, s, io) ==
    IF st.err \/ ~CanCut(st.inst, s) THEN st ELSE FollowedBy(CloseSegment(st, io))

(* A sample that is received too late is discarded.                        *)
WritePrevious(st, prev, s, io) ==
    IF st.inst.seg # NoSegment /\ prev.dts < st.inst.seg.dts THEN st
    ELSE CutFMP4(WriteSample(IF st.inst.seg = NoSegment THEN SegmentFrom(st, prev) ELSE st,
                             prev, s.dts - prev.dts, io), s, io)

NeverBack(s, prev) == IF prev # None THEN [s EXCEPT !.dts = Later(@, prev.dts)] ELSE s

(* write of formatFMP4Track: a sample is written when the next one gives   *)
(* its duration.                                                           *)
WriteFMP4(st, prev, s, io) ==
    IF prev = None THEN st
    ELSE IF Drifts(st.inst, s.t, prev) THEN Failed(st)
    ELSE WritePrevious(Started(st, s.t, prev), prev, s, io)

Flush(st, s, io) ==
    LET flushed(x) == IF x.err THEN x
                      ELSE [x EXCEPT !.inst.seg.cur = FALSE, !.inst.seg.part = <<>>, !.inst.seg.flushed = s.dts]
    IN  IF s.dts - st.inst.seg.flushed >= PartDuration THEN flushed(CloseCurPart(st, io)) ELSE st

CutMPEGTS(st, s, io) ==
    LET followed(x) == IF x.err THEN x ELSE SegmentFrom(x, s)
    IN  CASE st.inst.seg = NoSegment -> SegmentFrom(st, s)
          [] st.inst.seg # NoSegment /\ CanCut(st.inst, s)
               -> followed(CloseSegment([st EXCEPT !.inst.seg.last = s.dts], io))
          [] OTHER -> Flush(st, s, io)

SampleToBuffer(st, s) ==
    IF st.err THEN st
    ELSE [st EXCEPT !.inst.seg.cur = TRUE,
                    !.inst.seg.part = Append(@, StoredSample(s, 0, st.inst.seg.dts)), !.inst.seg.last = s.dts]

(* write of formatMPEGTSTrack: what is written stays in a buffer until it  *)
(* is flushed.                                                             *)
WriteMPEGTS(st, s, io) ==
    IF Drifts(st.inst, s.t, s) THEN Failed(st)
    ELSE SampleToBuffer(CutMPEGTS(Started(st, s.t, s), s, io), s)

HasVideo(i, t) == [i EXCEPT !.hasVideo = @ \/ IsVideo(setup.medias[t])]

Write(i, s, io) ==
    IF setup.fmt = "mpegts" THEN WriteMPEGTS(Now(HasVideo(i, s.t)), s, io)
    ELSE WriteFMP4(Now([HasVideo(i, s.t) EXCEPT !.next[s.t] = NeverBack(s, i.next[s.t])]),
                   i.next[s.t], NeverBack(s, i.next[s.t]), io)

(* close of the format.                                                    *)
CloseFormat(i, io) ==
    IF i.seg = NoSegment \/ i.done THEN Now(i) ELSE CloseSegment(Now(i), io)

-----------------------------------------------------------------------------
(* What may fail: os.Create, the header, a part as a whole or with a piece *)
(* of it written, the size of a part, the duration and the close.          *)
Faults == {"create", "init", "part", "size", "duration", "close"} \cup Torn

(* How often something out of the ordinary happens is bounded.             *)
Disturb ==
    /\ disturbed < MaxDisturbed[Len(setup.medias)]
    /\ disturbed' = disturbed + 1

Disk(io, err) == IF io = "ok" THEN UNCHANGED disturbed ELSE err /\ Disturb

(* The bounds of this setup.                                               *)
EndOfTime == MaxTime[Len(setup.medias)]

RecorderInit ==
    /\ clock = 0 /\ units = <<>> /\ starved = FALSE
    /\ skew \in Skews /\ disturbed = IF skew = 0 THEN 0 ELSE 1
    /\ disk = {} /\ events = <<>>
    /\ request = None
    /\ rec = [phase |-> "up", term |-> FALSE, since |-> 0]
    /\ inst = NewInstance(1)

(* A unit that may start a segment.                                        *)
Cuts(u) == u.key /\ (inst.hasVideo => IsVideo(setup.medias[u.t]))

Tick ==
    /\ clock < EndOfTime
    /\ clock' = clock + 1
    /\ starved' = (starved \/ \A u \in Range(units) : Cuts(u) => u.dts + KeyInterval <= clock)
    /\ UNCHANGED <<setup, units, skew, rec, inst, request, disk, events, disturbed>>

(* The clock of the publisher, which NTP comes from, is set.               *)
SourceClockJumps ==
    /\ units # <<>> /\ skew' \in Skews \ {skew}
    /\ Disturb
    /\ UNCHANGED <<clock, setup, units, rec, inst, request, disk, events, starved>>

Reads(t) ==
    /\ rec.phase = "up" /\ ~inst.done /\ ~inst.failed
    /\ t \in Tracks(setup.fmt, setup.medias)

(* A unit of the stream for the reader of the instance, at most one a tick *)
(* of each media; that of an audio may be a tick late.                     *)
OnUnit(t, key, late, io) ==
    /\ Reads(t)
    /\ Len(units) < MaxUnits[Len(setup.medias)] /\ clock < EndOfTime
    /\ late <= clock /\ \A u \in Range(units) : u.t = t => u.dts < clock - late
    /\ IF IsVideo(setup.medias[t]) THEN late = 0 ELSE key
    /\ LET u  == [n |-> Len(units) + 1, t |-> t, dts |-> clock - late, ntp |-> clock - late + skew, key |-> key]
           st == Write([inst EXCEPT !.keyed[t] = TRUE], u, io)
       IN  /\ units' = Append(units, u)
           /\ IF WaitsForKey(setup.medias[t]) => inst.keyed[t] \/ key
              THEN /\ Disk(io, st.err) /\ disk' = st.disk /\ events' = st.events
                   /\ inst' = [st.inst EXCEPT !.failed = st.err]
                   /\ starved' = (starved /\ ~(st.inst.seg.num # inst.seg.num /\ st.inst.seg.dts + KeyInterval >= clock))
              ELSE /\ io = "ok"
                   /\ UNCHANGED <<inst, disk, events, disturbed, starved>>
    /\ UNCHANGED <<clock, setup, skew, rec, request>>

(* run of the instance: the callback returned an error.                    *)
InstanceFails(io) ==
    /\ rec.phase = "up" /\ inst.failed /\ ~inst.done
    /\ LET st == CloseFormat(inst, io)
       IN  /\ Disk(io, st.err)
           /\ inst' = [st.inst EXCEPT !.done = TRUE] /\ disk' = st.disk /\ events' = st.events
    /\ UNCHANGED <<clock, setup, units, skew, rec, request, starved>>

(* run of the recorder: the instance is over.                              *)
InstanceEnded ==
    /\ rec.phase = "up" /\ inst.done
    /\ rec' = [rec EXCEPT !.phase = "paused", !.since = clock]
    /\ UNCHANGED <<clock, setup, units, skew, inst, request, disk, events, disturbed, starved>>

(* lastSegmentPath: the segment that this process completed last.          *)
LastSegment(ev) ==
    LET k == SelectLastInSubSeq(ev, 1, Len(ev), LAMBDA x : x.kind \in {"complete", "crash"})
    IN  IF k = 0 \/ ev[k].kind = "crash" THEN None ELSE ev[k].file

SplitSegment(name) ==
    /\ request = None
    /\ rec.phase # "done" /\ ~rec.term /\ inst.id < MaxInstances
    /\ request' = [name |-> name]
    /\ Disturb
    /\ UNCHANGED <<clock, setup, units, skew, rec, inst, disk, events, starved>>

(* renameLastSegment, if the close gave a segment and it is still there.   *)
Renamed(d, before, after) ==
    IF after = None \/ after = before THEN d
    ELSE {IF [stream |-> f.stream, num |-> f.num] = after THEN [f EXCEPT !.renamed = TRUE] ELSE f : f \in d}

(* The answer is sent before the pause.                                    *)
Split(io) ==
    /\ rec.phase = "up" /\ request # None
    /\ LET st == CloseFormat(inst, io)
       IN  /\ Disk(io, st.err)
           /\ inst' = [st.inst EXCEPT !.done = TRUE] /\ events' = st.events
           /\ disk' = IF request.name THEN Renamed(st.disk, LastSegment(events), LastSegment(st.events)) ELSE st.disk
    /\ request' = None
    /\ rec' = [rec EXCEPT !.phase = "paused", !.since = clock]
    /\ UNCHANGED <<clock, setup, units, skew, starved>>

(* "recorder is closed".                                                   *)
SplitRefused ==
    /\ rec.phase = "done" /\ request # None
    /\ request' = None
    /\ UNCHANGED <<clock, setup, units, skew, rec, inst, disk, events, disturbed, starved>>

Close ==
    /\ ~rec.term /\ rec' = [rec EXCEPT !.term = TRUE]
    /\ UNCHANGED <<clock, setup, units, skew, inst, request, disk, events, disturbed, starved>>

Terminated(io) ==
    /\ rec.term /\ rec.phase \in {"up", "paused"}
    /\ LET st == CloseFormat(inst, io)
       IN  /\ Disk(io, st.err)
           /\ inst' = [st.inst EXCEPT !.done = TRUE] /\ disk' = st.disk /\ events' = st.events
    /\ rec' = [rec EXCEPT !.phase = "done"]
    /\ UNCHANGED <<clock, setup, units, skew, request, starved>>

(* The pause is over.                                                      *)
Restart ==
    /\ rec.phase = "paused" /\ (clock > rec.since \/ clock = EndOfTime)
    /\ inst.id < MaxInstances
    /\ inst' = NewInstance(inst.id + 1)
    /\ rec' = [rec EXCEPT !.phase = "up"]
    /\ starved' = FALSE
    /\ UNCHANGED <<clock, setup, units, skew, request, disk, events, disturbed>>

(* The process dies, idle or while it writes a part, and is started again: *)
(* what was not in a file is lost, and nothing is reported complete.       *)
Crash(io) ==
    /\ rec.phase = "up" /\ inst.seg # NoSegment
    /\ inst.id < MaxInstances
    /\ Disturb
    /\ inst' = [inst EXCEPT !.done = TRUE, !.seg = NoSegment]
    /\ rec' = [rec EXCEPT !.phase = "paused", !.since = clock, !.term = FALSE]
    /\ request' = None
    /\ IF io = "idle" THEN disk' = disk /\ events' = Append(events, [kind |-> "crash"])
       ELSE /\ inst.seg.cur /\ ~inst.done
            /\ disk' = CloseCurPart(Now(inst), io).disk
            /\ events' = Append(CloseCurPart(Now(inst), io).events, [kind |-> "crash"])
    /\ UNCHANGED <<clock, setup, units, skew, starved>>

RecorderSteps ==
    \/ \E io \in Faults \cup {"ok"} : InstanceFails(io) \/ Split(io) \/ Terminated(io)
    \/ InstanceEnded \/ SplitRefused \/ Restart

RecorderNext ==
    \/ Tick \/ SourceClockJumps \/ RecorderSteps
    \/ \E t \in DOMAIN setup.medias, key \in BOOLEAN, late \in 0..1, io \in Faults \cup {"ok"} :
         OnUnit(t, key, late, io)
    \/ \E name \in BOOLEAN : SplitSegment(name)
    \/ Close
    \/ \E io \in Torn \cup {"idle", "init", "ok"} : Crash(io)
=============================================================================
