------------------------------ MODULE Playback ------------------------------
(***************************************************************************)
(* The cleaner (internal/recordcleaner) and the playback server            *)
(* (internal/playback), which meet the recorder in the files of a path,    *)
(* found by internal/recordstore.                                          *)
(***************************************************************************)
EXTENDS Recorder, FiniteSetsExt

CONSTANTS
    DeleteAfter,      \* recordDeleteAfter, when it is on
    ProtectedAge,     \* minFreeSpaceProtectedAge
    Capacity,         \* of the disk, in samples
    MinFreeSpace      \* recordMinFreeSpace; 0 when it is off

VARIABLES
    deleteAfter,      \* recordDeleteAfter of the configuration of the cleaner; 0 when off
    cleaner           \* where the cleaner is: "idle", or the names it is going to remove

cleanerVars == <<deleteAfter, cleaner>>

Start(f) == Decode(f.name)

Sorted(fs) == SetToSortSeq(fs, LAMBDA f, g : Start(f) < Start(g))

Before(fs, time) == {f \in fs : Start(f) <= time}

(* Seeded fault: the segment that holds the start is missed.               *)
FindSegments_After(start, end) ==
    {f \in disk : /\ IsSegment(f) /\ (end = None \/ Start(f) <= end)
                  /\ start = None \/ Start(f) >= start}

(* FindSegments: the segments that start before the end, from the one that *)
(* may hold the start.                                                     *)
FindSegments(start, end) ==
    LET fs == {f \in disk : IsSegment(f) /\ (end = None \/ Start(f) <= end)}
    IN  IF start = None \/ Before(fs, start) = {} THEN fs
        ELSE {f \in fs : \A g \in Before(fs, start) : Start(g) <= Start(f)}

-----------------------------------------------------------------------------
(* The cleaner.                                                            *)

ASSUME DeleteAfterIsValid == DeleteAfter \in Nat /\ DeleteAfter >= SegmentDuration

Idle == [pc |-> "idle", names |-> {}]

CleanerInit == deleteAfter = 0 /\ cleaner = Idle

Expired == {f \in disk : deleteAfter # 0 /\ IsSegment(f) /\ Start(f) <= clock - deleteAfter}

Samples(f) == FlattenSeq(f.parts)

Free(fs) == Capacity - FoldSet(LAMBDA f, n : n + Len(Samples(f)), 0, fs)

(* Seeded fault: the latest segment may go too.                            *)
Reclaimable_Latest == {f \in disk : IsSegment(f) /\ Start(f) < clock - ProtectedAge}

(* The files that may be reclaimed: not the latest of the path, and none   *)
(* that is young.                                                          *)
Reclaimable ==
    {f \in disk : /\ IsSegment(f) /\ Start(f) < clock - ProtectedAge
                  /\ \E g \in disk : IsSegment(g) /\ Start(f) < Start(g)}

(* The oldest ones go, until there is space.                               *)
Reclaimed ==
    {f \in Reclaimable : Free(disk \ {g \in Reclaimable : Start(g) < Start(f)}) < MinFreeSpace}

(* doRun, when it finds something to do.                                   *)
CleanerStarts ==
    /\ cleaner = Idle /\ Expired \cup Reclaimed # {}
    /\ cleaner' = [pc |-> "aged", names |-> {f.name : f \in Expired}]
    /\ UNCHANGED <<recVars, deleteAfter>>

(* A file that was renamed since is not there any more.                    *)
CleanerRemoves ==
    /\ cleaner.pc = "aged"
    /\ disk' = {f \in disk : f.name \notin cleaner.names \/ f.renamed}
    /\ cleaner' = [pc |-> "space", names |-> {}]
    /\ UNCHANGED <<clock, setup, units, skew, rec, inst, request, events, disturbed, starved, deleteAfter>>

CleanerReclaims ==
    /\ cleaner.pc = "space"
    /\ disk' = disk \ Reclaimed
    /\ cleaner' = Idle
    /\ UNCHANGED <<clock, setup, units, skew, rec, inst, request, events, disturbed, starved, deleteAfter>>

ReloadPathConfs ==
    /\ cleaner = Idle /\ deleteAfter = 0
    /\ deleteAfter' = DeleteAfter
    /\ UNCHANGED <<recVars, cleaner>>

CleanerNext == CleanerStarts \/ CleanerRemoves \/ CleanerReclaims \/ ReloadPathConfs

-----------------------------------------------------------------------------
(* GET /get: the samples of the segments that follow one another from the  *)
(* one that holds the start.                                               *)

CanBeConcatenated(f, g) == f.stream = g.stream /\ f.num + 1 = g.num

(* How many of the segments are muxed: those that follow one another.      *)
Muxed(segs) ==
    LET ok == {k \in DOMAIN segs : \A j \in 1..k : /\ segs[j].header
                                                   /\ j > 1 => CanBeConcatenated(segs[j - 1], segs[j])}
    IN  Cardinality(ok)

(* A header that cannot be read ends the answer with an error.             *)
HeaderFails(segs) ==
    \E k \in DOMAIN segs : ~segs[k].header /\ Muxed(segs) >= k - 1

Offsets(segs, start) ==
    [k \in DOMAIN segs |-> (segs[k].dts - segs[1].dts) + (Start(segs[1]) - start)]

(* The parts that have their samples, up to the first with one behind the  *)
(* end.                                                                    *)
Readable(f) == IF f.torn = "mdat" THEN Front(f.parts) ELSE f.parts

Beyond(f, offset, duration) ==
    {p \in DOMAIN Readable(f) : \E j \in DOMAIN f.parts[p] : f.parts[p][j].base + offset >= duration}

(* Neither a piece of a moof can be read, nor a sample that is not there.  *)
TornIsRead(f, offset, duration) ==
    /\ f.torn # "no" /\ Beyond(f, offset, duration) = {}
    /\ f.torn = "mdat" => \E s \in Range(Last(f.parts)) : s.base + offset < duration

(* segmentFMP4MuxParts: of each track of a part the samples before the end.*)
MuxParts(f, offset, duration) ==
    LET beyond == Beyond(f, offset, duration)
        read   == IF beyond = {} THEN Readable(f) ELSE SubSeq(f.parts, 1, Min(beyond))
        all    == FlattenSeq(read)
        out    == [j \in DOMAIN all |-> [n |-> all[j].n, t |-> all[j].t, key |-> all[j].key, at |-> all[j].base + offset]]
    IN  SelectSeq(out, LAMBDA x : x.at < duration)

(* writeSample of the muxer: what is before the start is kept from the     *)
(* last key frame on, unless the first sample that is shown is one.        *)
Shown(out, t) ==
    LET mine == SelectSeq(out, LAMBDA x : x.t = t)
        vis  == {k \in DOMAIN mine : mine[k].at >= 0}
        keys == {k \in DOMAIN mine : mine[k].key /\ k <= Min(vis)}
    IN  IF vis = {} THEN <<>>
        ELSE SubSeq(mine, IF keys = {} THEN 1 ELSE Max(keys), Len(mine))

(* The samples of each track; of an answer that is cut by an error, those  *)
(* that reached the muxer, of which the last may not have been sent.       *)
OnGet(start, duration) ==
    LET segs == Sorted(FindSegments(start, start + duration))
        off  == Offsets(segs, start)
        torn == {k \in 1..Muxed(segs) : TornIsRead(segs[k], off[k], duration)}
        last == IF torn = {} THEN Muxed(segs) ELSE Min(torn)
        out  == FlattenSeq([k \in 1..last |-> MuxParts(segs[k], off[k], duration)])
        res  == [t \in DOMAIN setup.medias |-> Shown(out, t)]
        cut  == HeaderFails(segs) \/ torn # {}
    IN  [ok |-> segs # <<>> /\ ~cut /\ \E t \in DOMAIN res : res[t] # <<>>, cut |-> cut, tracks |-> res]

-----------------------------------------------------------------------------
(* GET /list.                                                              *)

(* The duration of a file without one is that of its last part.            *)
DurationOf(f) ==
    IF f.duration # 0 THEN f.duration
    ELSE Max({0} \cup {Last(f.parts)[j].base + Last(f.parts)[j].dur : j \in DOMAIN Last(f.parts)})

Parsed(f) == f.header /\ (f.duration # 0 \/ f.parts # <<>>)

(* concatenateSegments: a maximal run of segments is one entry.            *)
Runs(segs) ==
    {r \in {<<i, j>> : i \in DOMAIN segs, j \in DOMAIN segs} :
        /\ r[1] <= r[2]
        /\ \A k \in r[1]..(r[2] - 1) : CanBeConcatenated(segs[k], segs[k + 1])
        /\ r[1] > 1 => ~CanBeConcatenated(segs[r[1] - 1], segs[r[1]])
        /\ r[2] < Len(segs) => ~CanBeConcatenated(segs[r[2]], segs[r[2] + 1])}

OnList ==
    LET segs == Sorted(FindSegments(None, None))
    IN  IF \E k \in DOMAIN segs : ~Parsed(segs[k]) THEN {}
        ELSE {[start |-> Start(segs[r[1]]),
               duration |-> Start(segs[r[2]]) + DurationOf(segs[r[2]]) - Start(segs[r[1]])] : r \in Runs(segs)}
=============================================================================
