------------------------------- MODULE Storage ------------------------------
(***************************************************************************)
(* Where the stream of a path goes besides its readers.  A behaviour is of *)
(* the scene that Init chooses:                                            *)
(*   "record"   the recorder of a path, the cleaner and playback, which    *)
(*              share the files;                                           *)
(*   "archive"  the uploads of files of rounds, and their deletion;        *)
(*   "forward"  a forwarder.                                               *)
(***************************************************************************)
EXTENDS Playback, Archive, Forwarder

CONSTANTS Starts, Durations      \* of the requests to the playback server

VARIABLE scene

vars == <<scene, recVars, cleanerVars, archiveVars, forwardVars>>

Init ==
    /\ scene \in {"record", "archive", "forward"}
    /\ setup \in Setups
    /\ scene # "record" => setup = CHOOSE s \in Setups : TRUE
    /\ RecorderInit /\ CleanerInit
    /\ scene # "record" => deleteAfter = 0
    /\ ArchiveInit
    /\ IF scene = "forward" THEN ForwardInit
       ELSE /\ fw = [pc |-> "stopped", term |-> TRUE, reader |-> FALSE, desc |-> <<>>]
            /\ far = [own |-> FALSE, left |-> FALSE]

RecordScene ==
    /\ scene = "record"
    /\ \/ RecorderNext /\ UNCHANGED cleanerVars
       \/ CleanerNext
    /\ UNCHANGED <<scene, archiveVars, forwardVars>>

ArchiveScene ==
    /\ scene = "archive" /\ ArchiveNext
    /\ UNCHANGED <<scene, recVars, cleanerVars, forwardVars>>

ForwardScene ==
    /\ scene = "forward" /\ ForwardNext
    /\ UNCHANGED <<scene, recVars, cleanerVars, archiveVars>>

Next == RecordScene \/ ArchiveScene \/ ForwardScene

(* Goroutines that wait for nobody go on, the ticker of the cleaner fires, *)
(* calls end by their timeouts and ppcenter offers again what was not      *)
(* completed.                                                              *)
CleanerGoesOn ==
    /\ scene = "record" /\ (CleanerStarts \/ CleanerRemoves \/ CleanerReclaims)
    /\ UNCHANGED <<scene, archiveVars, forwardVars>>
UploadGoesOn(f) == scene = "archive" /\ UploadSteps(f) /\ UNCHANGED <<scene, recVars, cleanerVars, forwardVars>>
RunnerGoesOn == scene = "archive" /\ RunnerSteps /\ UNCHANGED <<scene, recVars, cleanerVars, forwardVars>>
CenterGoesOn(f) == scene = "archive" /\ CenterOffersAgain(f) /\ UNCHANGED <<scene, recVars, cleanerVars, forwardVars>>
ForwarderGoesOn == scene = "forward" /\ ForwardSteps /\ UNCHANGED <<scene, recVars, cleanerVars, archiveVars>>

Fairness ==
    /\ WF_vars(CleanerGoesOn)
    /\ \A f \in RoundFiles : WF_vars(UploadGoesOn(f)) /\ WF_vars(CenterGoesOn(f))
    /\ WF_vars(RunnerGoesOn) /\ WF_vars(ForwarderGoesOn)

Spec == Init /\ [][Next]_vars /\ Fairness

-----------------------------------------------------------------------------
(* The file of the segment that the recorder writes.                       *)
Open(f) == f.stream = inst.id /\ f.num = inst.seg.num

(* Retention is longer than a segment and a key frame of each of its       *)
(* tracks, which only the first key frame of a track may fail to cut, in   *)
(* the zone of the node.                                                   *)
RetentionIsLong ==
    /\ MaxBasetime < SegmentDuration
    /\ \A s \in Setups :
         SegmentDuration + KeyInterval * Cardinality(Tracks(s.fmt, s.medias))
             <= DeleteAfter + Offset(s.zone) - DecodedOffset(s.zone)

(* The units carry the time of the node, as they do unless the publisher   *)
(* sends its own and its clock is off.                                     *)
ClocksAgree == \A u \in Range(units) : u.ntp = u.dts

(* The segment that is being written is not removed under the recorder, as *)
(* long as the publisher sends a key frame every KeyInterval and the time  *)
(* of the node: retention goes by the start of a segment, which is one of  *)
(* the publisher's clock, and a segment that cannot be cut grows older     *)
(* than recordDeleteAfter while it is open.                                *)
OpenIsKept ==
    inst.seg.num >= 0 /\ inst.seg.fi = "open" /\ ~inst.failed /\ ~starved /\ ClocksAgree
    => \E f \in disk : Open(f)

EventsOf(kind, file) == {k \in DOMAIN events : events[k].kind = kind /\ events[k].file = file}
Crashes == {k \in DOMAIN events : events[k].kind = "crash"}

(* Whoever is told of a segment is told once that it is complete, after    *)
(* it was created and when nothing is written to it any more.  Only a      *)
(* crash, a header that could not be written or a close that failed leaves *)
(* one that nobody is told of.                                             *)
SegmentsAreReported ==
    /\ \A k \in DOMAIN events : events[k].kind = "complete" =>
         /\ EventsOf("complete", events[k].file) = {k}
         /\ \E j \in EventsOf("create", events[k].file) : j < k
    /\ \A f \in disk :
         LET file == [stream |-> f.stream, num |-> f.num]
         IN  \/ EventsOf("complete", file) # {}
             \/ Open(f) /\ inst.seg.fi = "open" /\ rec.phase = "up"
             \/ setup.fmt = "fmp4" /\ ~f.header
             \/ EventsOf("unclosed", file) # {}
             \/ \E c \in Crashes, j \in EventsOf("create", file) : j < c
    /\ rec.phase # "up" => inst.done /\ (inst.seg # NoSegment => inst.seg.fi # "open")

-----------------------------------------------------------------------------
(* The time at which a unit was captured, as NTP says.                     *)
Captured(n) == units[n].ntp

SkewOf(n) == units[n].ntp - units[n].dts

Segments == {f \in disk : IsSegment(f)}

(* The segment that holds a time, or else the first one.                   *)
Holder(time) ==
    CHOOSE f \in Segments : \A g \in Segments : /\ Start(g) <= time => Start(g) <= Start(f)
                                                /\ Start(f) > time => Start(f) <= Start(g)

(* The segments that follow a first one without a gap.                     *)
RunOf(first) ==
    {f \in Segments : /\ f.stream = first.stream /\ f.num >= first.num
                      /\ \A k \in first.num..f.num : \E g \in Segments : g.stream = f.stream /\ g.num = k}

Stored(f) == {s.n : s \in Range(Samples(f))}

(* A sample in a part that comes after one in which another track is       *)
(* already beyond the end is not sent.                                     *)
Overtaken(f, n, end) ==
    \E p \in DOMAIN f.parts, q \in DOMAIN f.parts :
        /\ p < q /\ \E s \in Range(f.parts[q]) : s.n = n
        /\ \E s \in Range(f.parts[p]) : Captured(s.n) >= end

Steady(f, n) == SkewOf(n) = Start(f) - f.dts

GetIsFaithful(start, duration) ==
    LET got   == OnGet(start, duration)
        first == Holder(start)
        shown == UNION {{x.n : x \in Range(got.tracks[t])} : t \in DOMAIN got.tracks}
    IN  /\ got.cut => \E f \in Segments : ~f.header \/ (f \in RunOf(first) /\ f.torn # "no")
        /\ \A t \in DOMAIN got.tracks :
             LET tr == got.tracks[t]
             IN  /\ \A k \in DOMAIN tr : Steady(first, tr[k].n) => tr[k].at = Captured(tr[k].n) - start
                 /\ \A k \in 1..(Len(tr) - 1) : tr[k].n < tr[k + 1].n
                 /\ tr # <<>> /\ WaitsForKey(setup.medias[t]) => tr[1].key
        /\ ~got.cut =>
             \A f \in RunOf(first) : \A n \in Stored(f) :
                 /\ Steady(first, n) /\ Steady(f, n)
                 /\ Captured(n) \in start..(start + duration - 1)
                 => n \in shown \/ Overtaken(f, n, start + duration)

(* Playback gives back what was recorded: the samples of a request are at  *)
(* the time at which they were captured, in order, from a key frame on,    *)
(* and none of those that follow one another on disk is left out, over     *)
(* rollovers, restarts, removals and crashes, unless the answer is cut: at *)
(* a header or a part that is damaged.  What the list offers can be        *)
(* requested, unless there is no sample in it or a part is damaged.        *)
PlaybackIsFaithful ==
    setup.fmt = "fmp4" /\ Segments # {} /\ cleaner = Idle /\ request = None =>
        /\ \A start \in Starts, duration \in Durations : GetIsFaithful(start, duration)
        /\ \A e \in OnList, f \in disk :
             IsSegment(f) /\ Start(f) = e.start /\ Samples(f) # <<>> /\ e.duration > 0 =>
                 OnGet(e.start, e.duration).ok \/ \E g \in RunOf(f) : g.torn # "no"

Settled ==
    /\ deleteAfter # 0 => Expired = {}
    /\ \A f \in RoundFiles : upload[f].pc \in {"none", "over", "lost"} /\ center[f] \notin {"wanted", "claimed"}
    /\ fw.term => fw.pc = "stopped"

(* Nothing waits for ever: what is older than recordDeleteAfter is removed *)
(* unless it was renamed, an upload ends, an object that ppcenter wants to *)
(* be deleted is, also when it was claimed by a node that died, and a      *)
(* forwarder stops.                                                        *)
StorageSettles == <>[]Settled

(* The storage and the targets outside of the node are left as they should *)
(* be: see Archive and Forwarder.                                          *)
OutsideIsClean == DeletedIsGone /\ NothingElseGoes /\ ForwardingIsClean
=============================================================================
