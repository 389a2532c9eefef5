--------------------------- MODULE StorageProofs ----------------------------
(***************************************************************************)
(* Proofs about Storage, for any files of rounds, any number of attempts,  *)
(* lost answers and crashes, any descriptions that are forwarded, and any  *)
(* tracks, durations, units and zones of a recording.                      *)
(***************************************************************************)
EXTENDS Storage, FiniteSetTheorems, NaturalsInduction, WellFoundedInduction, TLAPS

(***************************************************************************)
(* Uploads and deletions.                                                  *)
(***************************************************************************)
UploadStates == {"none", "trying", "backoff", "reporting", "over", "lost"}
UploadRecord == [pc : UploadStates, attempt : Nat, copy : BOOLEAN]

ArchiveTypes ==
    /\ upload \in [RoundFiles -> UploadRecord]
    /\ remote \subseteq RoundFiles /\ lostCalls \in Nat
    /\ center \in [RoundFiles -> {"unknown", "kept", "wanted", "claimed", "deleted"}]
    /\ runner \in [pc : {"idle", "deleting", "completing"}, todo : SUBSET RoundFiles,
                   current : RoundFiles \cup {"none"}, success : BOOLEAN]

(* ppcenter hears of a file when no attempt to upload it is left.          *)
KnownIsUploaded ==
    \A f \in RoundFiles :
        /\ upload[f].pc \notin {"over", "lost"} => center[f] = "unknown"
        /\ upload[f].pc = "reporting" => f \in remote

(* The runner deletes what it has claimed, and reports as deleted what is  *)
(* not in the storage.                                                     *)
RunnerHasClaims ==
    /\ \A f \in runner.todo : center[f] = "claimed"
    /\ runner.pc = "completing" => /\ runner.current \in RoundFiles \ runner.todo
                                   /\ center[runner.current] = "claimed"
                                   /\ runner.success => runner.current \notin remote

CopiesAreRemoved == \A f \in RoundFiles : upload[f].pc = "over" => ~upload[f].copy

ArchiveInv ==
    ArchiveTypes /\ KnownIsUploaded /\ RunnerHasClaims /\ CopiesAreRemoved /\ DeletedIsGone

(* Nothing is uploaded or asked for at first.                              *)
LEMMA ArchiveStarts == ASSUME ArchiveInit PROVE ArchiveInv
<1>1. ArchiveTypes
  BY DEF ArchiveInit, ArchiveTypes, NotUploaded, IdleRunner, UploadStates, UploadRecord
<1>2. KnownIsUploaded /\ CopiesAreRemoved /\ DeletedIsGone
  BY DEF ArchiveInit, KnownIsUploaded, CopiesAreRemoved, DeletedIsGone, NotUploaded
<1>3. RunnerHasClaims
  BY DEF ArchiveInit, RunnerHasClaims, IdleRunner
<1>. QED
  BY <1>1, <1>2, <1>3 DEF ArchiveInv

(* The upload of f goes on, and leaves the others alone.                   *)
UploadMoves(f) ==
    /\ upload' \in [RoundFiles -> UploadRecord]
    /\ \A g \in RoundFiles \ {f} : upload'[g] = upload[g]
    /\ upload'[f].pc = "over" => ~upload'[f].copy
    /\ upload'[f].pc \in {"trying", "backoff", "reporting"} => center' = center
    /\ upload'[f].pc \notin {"none", "lost"}
    /\ upload'[f].pc = "reporting" => f \in remote'

(* The goroutine of an upload stores its file only before ppcenter is told *)
(* of it, and no deletion is under way.                                    *)
LEMMA UploadKeeps ==
    ASSUME ArchiveInv, NEW f \in RoundFiles,
           UploadSteps(f) \/ \E remuxed \in BOOLEAN : UploadAsync(f, remuxed)
    PROVE  ArchiveInv'
<1>. USE DEF ArchiveInv
<1>1. /\ upload[f].pc \notin {"over", "lost"} /\ center[f] = "unknown" /\ runner' = runner
      /\ f \notin runner.todo /\ (runner.pc = "completing" => runner.current # f)
  <2>1. upload[f].pc \notin {"over", "lost"} /\ runner' = runner
    BY DEF UploadSteps, UploadAsync, UploadFails, Backoff, UploadSucceeds, Report
  <2>. QED
    BY <2>1 DEF KnownIsUploaded, RunnerHasClaims
<1>2. lostCalls' \in Nat
  BY DEF UploadSteps, UploadAsync, UploadFails, Backoff, UploadSucceeds, Report, Loses, ArchiveTypes
(* The record of the upload, and what is in the storage for it.            *)
<1>3. UploadMoves(f)
  <2>. USE DEF UploadMoves, UploadRecord, UploadStates
  <2>1. ASSUME NEW remuxed \in BOOLEAN, UploadAsync(f, remuxed) PROVE UploadMoves(f)
    BY <2>1 DEF UploadAsync, ArchiveTypes
  <2>2. CASE UploadFails(f)
    <3>1. Attempted(f) \in {"backoff", "over"}
      BY DEF Attempted
    <3>. QED
      BY <2>2, <3>1, ZenonT(60) DEF UploadFails, ArchiveTypes
  <2>3. CASE Backoff(f)
    BY <2>3 DEF Backoff, ArchiveTypes
  <2>4. CASE UploadSucceeds(f)
    BY <2>4 DEF UploadSucceeds, ArchiveTypes
  <2>5. CASE Report(f)
    BY <2>5 DEF Report, ArchiveTypes
  <2>. QED
    BY <2>1, <2>2, <2>3, <2>4, <2>5 DEF UploadSteps
<1>4. remote' \in {remote, remote \cup {f}}
  BY DEF UploadSteps, UploadAsync, UploadFails, Backoff, UploadSucceeds, Report
<1>5. center' \in {center, [center EXCEPT ![f] = "kept"]}
  BY DEF UploadSteps, UploadAsync, UploadFails, Backoff, UploadSucceeds, Report
<1>6. ArchiveTypes'
  BY <1>1, <1>2, <1>3, <1>4, <1>5 DEF ArchiveTypes, UploadMoves
<1>7. KnownIsUploaded'
  BY <1>1, <1>3, <1>4, <1>5 DEF ArchiveTypes, KnownIsUploaded, UploadMoves, UploadRecord, UploadStates
<1>8. RunnerHasClaims'
  BY <1>1, <1>4, <1>5 DEF ArchiveTypes, RunnerHasClaims
<1>9. CopiesAreRemoved'
  BY <1>3 DEF ArchiveTypes, CopiesAreRemoved, UploadMoves
<1>10. DeletedIsGone'
  BY <1>1, <1>4, <1>5 DEF ArchiveTypes, DeletedIsGone
<1>. QED
  BY <1>6, <1>7, <1>8, <1>9, <1>10

(* ppcenter asks for a file that it knows, and again for one that nobody   *)
(* works on.                                                               *)
LEMMA CenterKeeps ==
    ASSUME ArchiveInv, NEW f \in RoundFiles, CenterWants(f) \/ CenterOffersAgain(f)
    PROVE  ArchiveInv'
<1>. USE DEF ArchiveInv
<1>1. /\ center' = [center EXCEPT ![f] = "wanted"] /\ UNCHANGED <<upload, remote, runner, lostCalls>>
      /\ center[f] \in {"kept", "claimed"}
  BY DEF CenterWants, CenterOffersAgain
<1>2. f \notin runner.todo /\ (runner.pc = "completing" => runner.current # f)
  BY DEF CenterWants, CenterOffersAgain, RunnerHasClaims
<1>3. ArchiveTypes' /\ CopiesAreRemoved'
  BY <1>1 DEF ArchiveTypes, CopiesAreRemoved
<1>4. KnownIsUploaded'
  BY <1>1 DEF ArchiveTypes, KnownIsUploaded
<1>5. RunnerHasClaims'
  BY <1>1, <1>2 DEF ArchiveTypes, RunnerHasClaims
<1>6. DeletedIsGone'
  BY <1>1 DEF ArchiveTypes, DeletedIsGone
<1>. QED
  BY <1>3, <1>4, <1>5, <1>6

(* The runner: what it claims is known to ppcenter, and what it reports as *)
(* deleted was removed and is uploaded by nobody.                          *)
LEMMA RunnerKeeps ==
    ASSUME ArchiveInv, RunnerSteps
    PROVE  ArchiveInv'
<1>. USE DEF ArchiveInv
<1>0. lostCalls' \in Nat /\ upload' = upload
  <2>1. lostCalls \in Nat
    BY DEF ArchiveTypes
  <2>2. CASE Claim
    BY <2>1, <2>2 DEF Claim, Loses
  <2>3. CASE DeleteOne
    BY <2>1, <2>3 DEF DeleteOne, Loses
  <2>4. CASE Complete
    BY <2>1, <2>4 DEF Complete, Loses
  <2>. QED
    BY <2>2, <2>3, <2>4 DEF RunnerSteps
<1>1. CASE Claim
  <2>1. PICK claims \in SUBSET {f \in RoundFiles : center[f] = "wanted"} :
          /\ center' = [f \in RoundFiles |-> IF f \in claims THEN "claimed" ELSE center[f]]
          /\ runner' \in {runner, [runner EXCEPT !.pc = "deleting", !.todo = claims]}
    BY <1>1 DEF Claim
  <2>2. runner.pc = "idle" /\ remote' = remote
    BY <1>1 DEF Claim
  <2>3. ArchiveTypes'
    BY <1>0, <2>1, <2>2 DEF ArchiveTypes
  <2>4. KnownIsUploaded' /\ DeletedIsGone' /\ CopiesAreRemoved'
    BY <1>0, <2>1, <2>2 DEF ArchiveTypes, KnownIsUploaded, DeletedIsGone, CopiesAreRemoved
  <2>5. RunnerHasClaims'
    BY <2>1, <2>2 DEF ArchiveTypes, RunnerHasClaims
  <2>. QED
    BY <2>3, <2>4, <2>5
<1>2. CASE DeleteOne
  <2>1. PICK f \in runner.todo, done \in BOOLEAN :
          /\ remote' \in {remote, remote \ {f}} /\ (done => remote' = remote \ {f})
          /\ runner' = [runner EXCEPT !.pc = "completing", !.todo = @ \ {f}, !.current = f, !.success = done]
    BY <1>2 DEF DeleteOne
  <2>2. center' = center /\ f \in RoundFiles /\ center[f] = "claimed" /\ upload[f].pc \in {"over", "lost"}
    BY <1>2 DEF DeleteOne, ArchiveTypes, RunnerHasClaims, KnownIsUploaded
  <2>3. ArchiveTypes'
    BY <1>0, <2>1, <2>2 DEF ArchiveTypes
  <2>4. KnownIsUploaded' /\ DeletedIsGone' /\ CopiesAreRemoved'
    BY <1>0, <2>1, <2>2 DEF ArchiveTypes, KnownIsUploaded, DeletedIsGone, CopiesAreRemoved
  <2>5. RunnerHasClaims'
    BY <2>1, <2>2 DEF ArchiveTypes, RunnerHasClaims
  <2>. QED
    BY <2>3, <2>4, <2>5
<1>3. CASE Complete
  <2>. DEFINE f == runner.current
  <2>1. /\ f \in RoundFiles \ runner.todo /\ center[f] = "claimed" /\ (runner.success => f \notin remote)
        /\ upload[f].pc \in {"over", "lost"} /\ remote' = remote
    BY <1>3 DEF Complete, ArchiveTypes, RunnerHasClaims, KnownIsUploaded
  <2>2. \/ center' = center
        \/ center' = [center EXCEPT ![f] = "wanted"]
        \/ center' = [center EXCEPT ![f] = "deleted"] /\ runner.success
    BY <1>3 DEF Complete
  <2>3. PICK p \in {"deleting", "idle"} : runner' = [runner EXCEPT !.pc = p, !.current = "none"]
    BY <1>3 DEF Complete
  <2>. HIDE DEF f
  <2>4. ArchiveTypes'
    BY <1>0, <2>1, <2>2, <2>3 DEF ArchiveTypes
  <2>5. KnownIsUploaded' /\ DeletedIsGone' /\ CopiesAreRemoved'
    BY <1>0, <2>1, <2>2 DEF ArchiveTypes, KnownIsUploaded, DeletedIsGone, CopiesAreRemoved
  <2>6. RunnerHasClaims'
    BY <2>1, <2>2, <2>3 DEF ArchiveTypes, RunnerHasClaims
  <2>. QED
    BY <2>4, <2>5, <2>6
<1>. QED
  BY <1>1, <1>2, <1>3 DEF RunnerSteps

(* The process dies: nobody takes up what was not over.                    *)
LEMMA ProcessDiesKeeps ==
    ASSUME ArchiveInv, ProcessDies
    PROVE  ArchiveInv'
<1>. USE DEF ArchiveInv
<1>1. /\ upload' \in [RoundFiles -> UploadRecord]
      /\ \A f \in RoundFiles : \/ upload'[f] = upload[f] /\ upload[f].pc \in {"none", "over"}
                               \/ upload'[f].pc = "lost"
  BY DEF ProcessDies, ArchiveTypes, UploadRecord, UploadStates
<1>2. UNCHANGED <<remote, center>> /\ runner' = IdleRunner /\ lostCalls' \in Nat
  BY DEF ProcessDies, Loses, ArchiveTypes
<1>3. ArchiveTypes'
  BY <1>1, <1>2 DEF ArchiveTypes, IdleRunner
<1>4. KnownIsUploaded' /\ CopiesAreRemoved' /\ DeletedIsGone'
  BY <1>1, <1>2 DEF ArchiveTypes, KnownIsUploaded, CopiesAreRemoved, DeletedIsGone
<1>5. RunnerHasClaims'
  BY <1>2 DEF RunnerHasClaims, IdleRunner
<1>. QED
  BY <1>3, <1>4, <1>5

(* Every step of uploads, runner and ppcenter, lost answers included.      *)
LEMMA ArchiveKeeps ==
    ASSUME ArchiveInv, ArchiveNext \/ UNCHANGED archiveVars
    PROVE  ArchiveInv'
<1>1. CASE UNCHANGED archiveVars
  BY <1>1 DEF archiveVars, ArchiveInv, ArchiveTypes, KnownIsUploaded, RunnerHasClaims, CopiesAreRemoved,
     DeletedIsGone
<1>. QED
  BY <1>1, UploadKeeps, CenterKeeps, RunnerKeeps, ProcessDiesKeeps DEF ArchiveNext

-----------------------------------------------------------------------------
(***************************************************************************)
(* Forwarders.                                                             *)
(***************************************************************************)
(* At each point of an attempt, what it has to undo.                       *)
ForwardInv ==
    /\ fw = [pc |-> fw.pc, term |-> fw.term, reader |-> fw.reader, desc |-> fw.desc]
    /\ far = [own |-> far.own, left |-> far.left] /\ fw.reader \in BOOLEAN /\ far.own \in BOOLEAN
    /\ fw.pc \in {"setup", "posting", "connecting", "forwarding", "unwinding", "ended", "paused", "stopped"}
    /\ fw.reader => fw.pc \in {"forwarding", "unwinding"}
    /\ fw.pc \in {"setup", "posting", "ended", "paused", "stopped"} => ~far.own
    /\ fw.pc \in {"connecting", "forwarding", "unwinding"} => far.own

(* An attempt undoes everything in reverse order, wherever it fails and    *)
(* wherever Close finds it.                                                *)
LEMMA ForwardKeeps ==
    ASSUME ForwardInv, ForwardNext \/ UNCHANGED forwardVars
    PROVE  ForwardInv'
<1>. USE DEF ForwardInv, At, Goes
<1>1. CASE Setup
  BY <1>1 DEF Setup
<1>2. CASE Post
  BY <1>2 DEF Post
<1>3. CASE WaitUntilConnected
  BY <1>3 DEF WaitUntilConnected
<1>4. CASE ForwardingFails \/ ForwardingStops
  BY <1>4 DEF ForwardingFails, ForwardingStops
<1>5. CASE Unwind
  <2>1. /\ fw' = [pc |-> "ended", term |-> fw.term, reader |-> FALSE, desc |-> fw.desc]
        /\ \E l : far' = [own |-> FALSE, left |-> l]
    BY <1>5 DEF Unwind
  <2>. QED
    BY <2>1
<1>6. CASE AttemptEnded \/ PauseEnds
  BY <1>6 DEF AttemptEnded, PauseEnds
<1>7. CASE ForwardClose \/ TargetExpires
  BY <1>7 DEF ForwardClose, TargetExpires
<1>8. CASE UNCHANGED forwardVars
  BY <1>8 DEF forwardVars
<1>. QED
  BY <1>1, <1>2, <1>3, <1>4, <1>5, <1>6, <1>7, <1>8 DEF ForwardNext, ForwardSteps

-----------------------------------------------------------------------------
(* Uploads, deletions and forwarders leave the outside as it should be,    *)
(* whatever answers are lost and whenever the process dies: an object that *)
(* ppcenter counts as deleted is gone, one that is about to be reported is *)
(* there, no copy is left of an upload that is over, and a forwarder that  *)
(* stopped has neither a reader nor a session of its own.                  *)
THEOREM OutsideIsCleanHolds == Spec => []OutsideIsClean
<1>. DEFINE Both == ArchiveInv /\ ForwardInv
<1>1. Init => Both
  <2>1. Init => ForwardInv
    <3>1. ASSUME NEW p \in {"setup", "stopped"}, NEW t, NEW d,
                 fw = [pc |-> p, term |-> t, reader |-> FALSE, desc |-> d],
                 far = [own |-> FALSE, left |-> FALSE]
          PROVE  ForwardInv
      BY <3>1 DEF ForwardInv
    <3>. QED
      BY <3>1 DEF Init, ForwardInit
  <2>. QED
    BY <2>1, ArchiveStarts DEF Init
<1>2. Both /\ [Next]_vars => Both'
  <2>1. [Next]_vars => (ArchiveNext \/ UNCHANGED archiveVars) /\ (ForwardNext \/ UNCHANGED forwardVars)
    BY DEF Next, RecordScene, ArchiveScene, ForwardScene, vars
  <2>. QED
    BY <2>1, ArchiveKeeps, ForwardKeeps
<1>3. Both => OutsideIsClean
  BY DEF ArchiveInv, KnownIsUploaded, CopiesAreRemoved, ForwardInv, OutsideIsClean, NothingElseGoes,
     ForwardingIsClean
<1>. QED
  BY <1>1, <1>2, <1>3, PTL DEF Spec

-----------------------------------------------------------------------------
(***************************************************************************)
(* Segments.  The recorder's functions take and give a state: an instance, *)
(* the files and the events.                                               *)
(***************************************************************************)
Event == [kind : {"create", "complete", "unclosed"}, file : [stream : Nat, num : Nat]] \cup [kind : {"crash"}]

IsFile(f) ==
    f = [name |-> f.name, stream |-> f.stream, num |-> f.num, dts |-> f.dts, header |-> f.header,
         parts |-> f.parts, torn |-> f.torn, duration |-> f.duration, renamed |-> f.renamed]

IsSegmentRecord(s) ==
    /\ s = [num |-> s.num, dts |-> s.dts, ntp |-> s.ntp, end |-> s.end, fi |-> s.fi, cur |-> s.cur, part |-> s.part,
            partStart |-> s.partStart, partEnd |-> s.partEnd, last |-> s.last, flushed |-> s.flushed]
    /\ s.num \in Nat

InstanceShape(i) ==
    /\ i = [id |-> i.id, done |-> i.done, failed |-> i.failed, skip |-> i.skip, hasVideo |-> i.hasVideo,
            number |-> i.number, seg |-> i.seg, next |-> i.next, started |-> i.started, keyed |-> i.keyed]
    /\ i.id \in Nat /\ i.number \in Nat
    /\ i.seg = NoSegment \/ (IsSegmentRecord(i.seg) /\ i.seg.num < i.number)

(* An instance at work: done is set last.                                  *)
IsInstance(i) == InstanceShape(i) /\ ~i.done

IsState(st) ==
    /\ st = [inst |-> st.inst, disk |-> st.disk, events |-> st.events, err |-> st.err]
    /\ IsInstance(st.inst) /\ st.events \in Seq(Event)
    /\ \A f \in st.disk : IsFile(f)

Told(ev, kind, file) == \E k \in DOMAIN ev : ev[k].kind = kind /\ ev[k].file = file

(* A segment is complete once, and was created before.                     *)
CompleteOnce(ev) ==
    \A k \in DOMAIN ev : ev[k].kind = "complete" =>
        /\ \A j \in DOMAIN ev : ev[j].kind = "complete" /\ ev[j].file = ev[k].file => j = k
        /\ \E j \in DOMAIN ev : j < k /\ ev[j].kind = "create" /\ ev[j].file = ev[k].file

(* The process died after the segment was created.                         *)
CutShort(ev, file) ==
    \E c \in DOMAIN ev, j \in DOMAIN ev :
        /\ ev[c].kind = "crash" /\ j < c
        /\ ev[j].kind = "create" /\ ev[j].file = file

IsOpen(i) == i.seg # NoSegment /\ i.seg.fi = "open"

Accounted(fmt, ev, i, f) ==
    LET file == [stream |-> f.stream, num |-> f.num]
    IN  \/ Told(ev, "complete", file) \/ Told(ev, "unclosed", file) \/ CutShort(ev, file)
        \/ IsOpen(i) /\ file = FileOf(i)
        \/ fmt = "fmp4" /\ ~f.header

(* The number of the next segment has not been used.                       *)
Unused(ev, i) ==
    \A k \in DOMAIN ev : ev[k].kind # "crash" =>
        \/ ev[k].file.stream < i.id
        \/ ev[k].file.stream = i.id /\ ev[k].file.num < i.number

(* The segment at hand has been reported as far as it has come.            *)
ReportedSoFar(ev, i) ==
    i.seg # NoSegment => /\ i.seg.fi # "closed" => ~Told(ev, "complete", FileOf(i))
                         /\ i.seg.fi = "open" => Told(ev, "create", FileOf(i))

Good(fmt, st) ==
    /\ IsState(st) /\ CompleteOnce(st.events)
    /\ Unused(st.events, st.inst) /\ ReportedSoFar(st.events, st.inst)
    /\ \A f \in st.disk : Accounted(fmt, st.events, st.inst, f)

GoodSegment(fmt, st) == Good(fmt, st) /\ st.inst.seg # NoSegment

(* The two states differ in nothing that is reported.                      *)
Like(st, after) ==
    /\ IsState(after) /\ after.events = st.events
    /\ \A g \in after.disk : \E f \in st.disk : f.stream = g.stream /\ f.num = g.num /\ f.header = g.header
    /\ after.inst.id = st.inst.id /\ after.inst.number = st.inst.number
    /\ IF st.inst.seg = NoSegment THEN after.inst.seg = NoSegment
       ELSE /\ after.inst.seg # NoSegment
            /\ after.inst.seg.num = st.inst.seg.num /\ after.inst.seg.fi = st.inst.seg.fi

(* Such a step keeps everything accounted for.                             *)
LEMMA LikeIsGood ==
    ASSUME NEW fmt, NEW st, NEW after, Good(fmt, st), Like(st, after)
    PROVE  Good(fmt, after) /\ (st.inst.seg # NoSegment => after.inst.seg # NoSegment)
<1>1. IsState(after) /\ CompleteOnce(after.events)
  BY DEF Like, Good
<1>2. Unused(after.events, after.inst)
  BY DEF Like, Good, Unused
<1>3. ReportedSoFar(after.events, after.inst)
  BY DEF Like, Good, ReportedSoFar, FileOf
<1>4. ASSUME NEW g \in after.disk PROVE Accounted(fmt, after.events, after.inst, g)
  <2>1. PICK f \in st.disk : f.stream = g.stream /\ f.num = g.num /\ f.header = g.header
    BY DEF Like
  <2>2. Accounted(fmt, st.events, st.inst, f)
    BY DEF Good
  <2>3. IsOpen(st.inst) => IsOpen(after.inst) /\ FileOf(st.inst) = FileOf(after.inst)
    BY DEF Like, IsOpen, FileOf
  <2>. QED
    BY <2>1, <2>2, <2>3 DEF Accounted, Like
<1>. QED
  BY <1>1, <1>2, <1>3, <1>4 DEF Good, Like

(* One more event.                                                         *)
LEMMA OneMoreEvent ==
    ASSUME NEW ev \in Seq(Event), NEW e \in Event
    PROVE  LET more == Append(ev, e) IN
           /\ more \in Seq(Event) /\ DOMAIN more = 1..(Len(ev) + 1) /\ DOMAIN ev = 1..Len(ev)
           /\ Len(ev) \in Nat /\ more[Len(ev) + 1] = e
           /\ \A k \in DOMAIN ev : k \in DOMAIN more /\ more[k] = ev[k]
OBVIOUS

(* What was told stays told.                                               *)
LEMMA ToldStays ==
    ASSUME NEW ev \in Seq(Event), NEW e \in Event, NEW file
    PROVE  /\ \A kind : Told(ev, kind, file) => Told(Append(ev, e), kind, file)
           /\ CutShort(ev, file) => CutShort(Append(ev, e), file)
           /\ \A kind : Told(Append(ev, e), kind, file) =>
                          Told(ev, kind, file) \/ (e.kind = kind /\ e.file = file)
           /\ Told(Append(ev, e), e.kind, e.file)
<1>. DEFINE more == Append(ev, e)
<1>1. /\ DOMAIN more = 1..(Len(ev) + 1) /\ DOMAIN ev = 1..Len(ev)
      /\ Len(ev) \in Nat /\ more[Len(ev) + 1] = e
      /\ \A k \in DOMAIN ev : k \in DOMAIN more /\ more[k] = ev[k]
  BY OneMoreEvent
<1>. HIDE DEF more
<1>2. \A k \in DOMAIN more : k \in DOMAIN ev \/ k = Len(ev) + 1
  BY <1>1
<1>3. Len(ev) + 1 \in DOMAIN more
  BY <1>1
<1>4. \A kind : Told(ev, kind, file) => Told(more, kind, file)
  BY <1>1 DEF Told
<1>5. CutShort(ev, file) => CutShort(more, file)
  BY <1>1 DEF CutShort
<1>6. \A kind : Told(more, kind, file) => Told(ev, kind, file) \/ (e.kind = kind /\ e.file = file)
  BY <1>1, <1>2 DEF Told
<1>7. Told(more, e.kind, e.file)
  BY <1>1, <1>3 DEF Told
<1>. QED
  BY <1>4, <1>5, <1>6, <1>7 DEF more

(* Nothing is told but by the event.                                       *)
LEMMA ToldByEvent ==
    ASSUME NEW ev \in Seq(Event), NEW e \in Event, NEW file, NEW kind, Told(Append(ev, e), kind, file)
    PROVE  Told(ev, kind, file) \/ (e.kind = kind /\ e.file = file)
BY ToldStays

(* An event that completes nothing.                                        *)
LEMMA NotComplete ==
    ASSUME NEW ev \in Seq(Event), NEW e \in Event, e.kind # "complete", CompleteOnce(ev)
    PROVE  CompleteOnce(Append(ev, e))
<1>. DEFINE more == Append(ev, e)
<1>1. /\ DOMAIN more = 1..(Len(ev) + 1) /\ DOMAIN ev = 1..Len(ev)
      /\ Len(ev) \in Nat /\ more[Len(ev) + 1] = e
      /\ \A k \in DOMAIN ev : k \in DOMAIN more /\ more[k] = ev[k]
  BY OneMoreEvent
<1>. HIDE DEF more
<1>2. \A k \in DOMAIN more : more[k].kind = "complete" => k \in DOMAIN ev /\ more[k] = ev[k]
  BY <1>1
<1>3. CompleteOnce(more)
  BY <1>1, <1>2 DEF CompleteOnce
<1>. QED
  BY <1>3 DEF more

(* The first event that completes a segment, after it was created.         *)
LEMMA FirstComplete ==
    ASSUME NEW ev \in Seq(Event), NEW e \in Event, CompleteOnce(ev),
           ~Told(ev, "complete", e.file), Told(ev, "create", e.file)
    PROVE  CompleteOnce(Append(ev, e))
<1>. DEFINE more == Append(ev, e)
<1>1. /\ DOMAIN more = 1..(Len(ev) + 1) /\ DOMAIN ev = 1..Len(ev)
      /\ Len(ev) \in Nat /\ more[Len(ev) + 1] = e
      /\ \A k \in DOMAIN ev : k \in DOMAIN more /\ more[k] = ev[k]
  BY OneMoreEvent
<1>. HIDE DEF more
<1>2. \A k \in DOMAIN more : k = Len(ev) + 1 \/ (k \in DOMAIN ev /\ more[k] = ev[k])
  BY <1>1
<1>3. ASSUME NEW k \in DOMAIN more, more[k].kind = "complete",
             NEW j \in DOMAIN more, more[j].kind = "complete", more[j].file = more[k].file
      PROVE  j = k
  BY <1>1, <1>2, <1>3 DEF Told, CompleteOnce
<1>4. ASSUME NEW k \in DOMAIN more, more[k].kind = "complete"
      PROVE  \E j \in DOMAIN more : j < k /\ more[j].kind = "create" /\ more[j].file = more[k].file
  <2>1. CASE k = Len(ev) + 1
    <3>1. PICK j \in DOMAIN ev : ev[j].kind = "create" /\ ev[j].file = e.file
      BY DEF Told
    <3>. QED
      BY <1>1, <2>1, <3>1
  <2>2. CASE k \in DOMAIN ev /\ more[k] = ev[k]
    BY <1>1, <1>4, <2>2 DEF CompleteOnce
  <2>. QED
    BY <1>2, <2>1, <2>2
<1>5. CompleteOnce(more)
  BY <1>3, <1>4 DEF CompleteOnce
<1>. QED
  BY <1>5 DEF more

(* The event is of a segment whose number has been used.                   *)
LEMMA StillUnused ==
    ASSUME NEW ev \in Seq(Event), NEW e \in Event, NEW i, NEW after, Unused(ev, i),
           after.id = i.id /\ after.number = i.number,
           e.kind # "crash" => e.file.stream = i.id /\ e.file.num < i.number
    PROVE  Unused(Append(ev, e), after)
<1>. DEFINE more == Append(ev, e)
<1>1. /\ DOMAIN more = 1..(Len(ev) + 1) /\ DOMAIN ev = 1..Len(ev)
      /\ Len(ev) \in Nat /\ more[Len(ev) + 1] = e
      /\ \A k \in DOMAIN ev : k \in DOMAIN more /\ more[k] = ev[k]
  BY OneMoreEvent
<1>. HIDE DEF more
<1>2. \A k \in DOMAIN more : k = Len(ev) + 1 \/ (k \in DOMAIN ev /\ more[k] = ev[k])
  BY <1>1
<1>3. Unused(more, after)
  BY <1>1, <1>2 DEF Unused
<1>. QED
  BY <1>3 DEF more

(* A state in which nothing but an error is new.                           *)
LEMMA FailedIsLike ==
    ASSUME NEW st, IsState(st)
    PROVE  Like(st, Failed(st)) /\ Like(st, st) /\ \A e : Like(st, [st EXCEPT !.err = e])
<1>1. ASSUME NEW e PROVE Like(st, [st EXCEPT !.err = e])
  BY DEF Like, IsState, IsInstance, InstanceShape
<1>2. Like(st, st)
  BY DEF Like
<1>. QED
  BY <1>1, <1>2 DEF Failed

(* The segment at hand is replaced by one of the same name.                *)
LEMMA SegmentIsLike ==
    ASSUME NEW st, IsState(st), NEW s, IsSegmentRecord(s), st.inst.seg # NoSegment,
           s.num = st.inst.seg.num, s.fi = st.inst.seg.fi
    PROVE  Like(st, [st EXCEPT !.inst.seg = s])
<1>. DEFINE after == [st EXCEPT !.inst.seg = s]
<1>1. after = [inst |-> [st.inst EXCEPT !.seg = s], disk |-> st.disk, events |-> st.events, err |-> st.err]
  BY DEF IsState
<1>2. IsInstance(after.inst) /\ after.inst.seg = s /\ after.inst.id = st.inst.id /\ after.inst.number = st.inst.number
  BY <1>1 DEF IsState, IsInstance, InstanceShape, IsSegmentRecord
<1>3. s # NoSegment
  BY DEF IsSegmentRecord, NoSegment
<1>. HIDE DEF after
<1>4. IsState(after)
  BY <1>1, <1>2 DEF IsState
<1>. QED
  BY <1>1, <1>2, <1>3, <1>4 DEF Like, after

(* Any other field of the instance changes.                                *)
LEMMA InstanceIsLike ==
    ASSUME NEW st, IsState(st), NEW i, IsInstance(i),
           i.id = st.inst.id, i.number = st.inst.number, i.seg = st.inst.seg
    PROVE  Like(st, [st EXCEPT !.inst = i])
<1>. DEFINE after == [st EXCEPT !.inst = i]
<1>1. after = [inst |-> i, disk |-> st.disk, events |-> st.events, err |-> st.err]
  BY DEF IsState
<1>. HIDE DEF after
<1>2. IsState(after)
  BY <1>1 DEF IsState
<1>. QED
  BY <1>1, <1>2 DEF Like, after

(* The file of the segment changes in something that is not reported.      *)
LEMMA FileIsLike ==
    ASSUME NEW st, IsState(st), NEW after,
           after = [inst |-> st.inst, disk |-> after.disk, events |-> st.events, err |-> st.err],
           \A g \in after.disk : \E f \in st.disk :
               IsFile(g) /\ f.stream = g.stream /\ f.num = g.num /\ f.header = g.header
    PROVE  Like(st, after)
BY DEF Like, IsState

(* os.Create and OnSegmentCreate.                                          *)
LEMMA CreatedIsGood ==
    ASSUME NEW st, NEW io, GoodSegment(setup.fmt, st), st.inst.seg.fi = "none"
    PROVE  /\ GoodSegment(setup.fmt, Created(st, io))
           /\ Created(st, io).inst.id = st.inst.id /\ Created(st, io).inst.number = st.inst.number
<1>. DEFINE i == st.inst
            header == setup.fmt = "fmp4" /\ io # "init"
            fails == io = "init" /\ setup.fmt = "fmp4"
            file == FileOf(i)
            e == [kind |-> "create", file |-> file]
            new == NewFile(i, header)
            s == [i.seg EXCEPT !.fi = IF fails THEN @ ELSE "open"]
            after == Created(st, io)
<1>0. IsState(st) /\ IsInstance(i) /\ IsSegmentRecord(i.seg)
  BY DEF GoodSegment, Good, IsState, IsInstance, InstanceShape
<1>1. CASE io = "create"
  BY <1>0, <1>1, FailedIsLike, LikeIsGood DEF Created, GoodSegment, Like
<1>2. CASE io # "create"
  <2>1. after = [inst |-> [i EXCEPT !.seg = s], disk |-> Overwritten(st.disk, new),
                 events |-> Append(st.events, [kind |-> "create", file |-> FileOf([i EXCEPT !.seg = s])]),
                 err |-> fails]
    BY <1>0, <1>2 DEF Created, Tell, IsState, IsInstance, InstanceShape
  <2>2. IsSegmentRecord(s) /\ s.num = i.seg.num /\ s.fi = (IF fails THEN "none" ELSE "open") /\ s # NoSegment
    BY <1>0 DEF IsSegmentRecord, GoodSegment, NoSegment
  <2>. HIDE DEF after, s, header, fails
  <2>3. after.inst = [i EXCEPT !.seg = s] /\ after.disk = Overwritten(st.disk, new)
        /\ after = [inst |-> after.inst, disk |-> after.disk, events |-> after.events, err |-> after.err]
    BY <2>1
  <2>4. after.inst.seg = s /\ after.inst.id = i.id /\ after.inst.number = i.number /\ IsInstance(after.inst)
    BY <1>0, <2>2, <2>3 DEF IsInstance, InstanceShape, GoodSegment
  <2>5. FileOf(after.inst) = file /\ FileOf([i EXCEPT !.seg = s]) = file /\ after.events = Append(st.events, e)
    BY <2>1, <2>2, <2>3, <2>4 DEF FileOf
  <2>6. e \in Event /\ file = [stream |-> i.id, num |-> i.seg.num] /\ i.id \in Nat /\ i.seg.num \in Nat
    BY <1>0 DEF IsInstance, InstanceShape, IsSegmentRecord, Event, FileOf
  <2>7. st.events \in Seq(Event)
    BY <1>0 DEF IsState
  <2>8. IsFile(new) /\ [stream |-> new.stream, num |-> new.num] = file /\ new.header = header
    BY DEF IsFile, NewFile, FileOf
  <2>9. \A f \in after.disk : f \in st.disk \/ f = new
    BY <2>3 DEF Overwritten
  <2>10. IsState(after)
    BY <1>0, <2>3, <2>4, <2>5, <2>6, <2>7, <2>8, <2>9, OneMoreEvent DEF IsState
  <2>11. CompleteOnce(after.events)
    BY <2>5, <2>6, <2>7, NotComplete DEF GoodSegment, Good
  <2>12. Unused(after.events, after.inst)
    <3>1. i.seg.num < i.number
      BY <1>0 DEF IsInstance, InstanceShape, GoodSegment
    <3>. QED
      BY <2>4, <2>5, <2>6, <2>7, <3>1, StillUnused DEF GoodSegment, Good
  <2>13. ReportedSoFar(after.events, after.inst)
    <3>1. ~Told(st.events, "complete", file)
      BY DEF GoodSegment, Good, ReportedSoFar
    <3>2. e.kind = "create" /\ e.file = file
      OBVIOUS
    <3>. HIDE DEF e, file
    <3>a. Told(Append(st.events, e), e.kind, e.file)
      BY <2>6, <2>7, ToldStays
    <3>b. Told(Append(st.events, e), "complete", file) => Told(st.events, "complete", file) \/ e.kind = "complete"
      BY <2>6, <2>7, ToldByEvent
    <3>3. ~Told(after.events, "complete", file) /\ Told(after.events, "create", file)
      BY <2>5, <3>1, <3>2, <3>a, <3>b
    <3>4. ~Told(after.events, "complete", FileOf(after.inst)) /\ Told(after.events, "create", FileOf(after.inst))
      BY <2>5, <3>3
    <3>. QED
      BY <3>4 DEF ReportedSoFar
  <2>14. ASSUME NEW f \in after.disk PROVE Accounted(setup.fmt, after.events, after.inst, f)
    <3>1. CASE f = new
      BY <2>2, <2>4, <2>5, <2>8, <3>1 DEF Accounted, IsOpen, header, fails
    <3>2. CASE f \in st.disk
      <4>1. Accounted(setup.fmt, st.events, i, f) /\ ~IsOpen(i)
        BY <3>2 DEF GoodSegment, Good, IsOpen
      <4>. QED
        BY <2>5, <2>6, <2>7, <4>1, ToldStays DEF Accounted
    <3>. QED
      BY <2>9, <3>1, <3>2
  <2>. QED
    <3>1. Good(setup.fmt, after)
      BY <2>10, <2>11, <2>12, <2>13, <2>14 DEF Good
    <3>2. GoodSegment(setup.fmt, after)
      BY <2>2, <2>4, <3>1 DEF GoodSegment
    <3>. QED
      BY <2>4, <3>2 DEF after
<1>. QED
  BY <1>1, <1>2

(* The files are replaced.                                                 *)
LEMMA DiskReplaced ==
    ASSUME NEW st, IsState(st), NEW D
    PROVE  [st EXCEPT !.disk = D] = [inst |-> st.inst, disk |-> D, events |-> st.events, err |-> st.err]
<1>1. st = [inst |-> st.inst, disk |-> st.disk, events |-> st.events, err |-> st.err]
  BY DEF IsState
<1>. QED
  BY <1>1

(* The instance is replaced.                                               *)
LEMMA InstanceReplaced ==
    ASSUME NEW st, IsState(st), NEW i
    PROVE  [st EXCEPT !.inst = i] = [inst |-> i, disk |-> st.disk, events |-> st.events, err |-> st.err]
<1>1. st = [inst |-> st.inst, disk |-> st.disk, events |-> st.events, err |-> st.err]
  BY DEF IsState
<1>. QED
  BY <1>1

(* The file of the segment with one more part, or a piece of it, and with  *)
(* its duration.                                                           *)
WithPart(st, p, io) ==
    OnFile(st, LAMBDA f : [f EXCEPT !.parts = IF io = "moof" THEN @ ELSE Append(@, p),
                                    !.torn = IF io \in Torn THEN io ELSE @])

WithDuration(st, d, io) == OnFile(st, LAMBDA f : [f EXCEPT !.duration = IF io = "duration" THEN @ ELSE d])

(* A part goes to the file, or a piece of it.                              *)
LEMMA PartIsLike ==
    ASSUME NEW st, IsState(st), NEW p, NEW io
    PROVE  Like(st, WithPart(st, p, io))
<1>. DEFINE D == {IF [stream |-> f.stream, num |-> f.num] = FileOf(st.inst)
                  THEN [f EXCEPT !.parts = IF io = "moof" THEN @ ELSE Append(@, p),
                                 !.torn = IF io \in Torn THEN io ELSE @] ELSE f : f \in st.disk}
            after == WithPart(st, p, io)
<1>0. after = [st EXCEPT !.disk = D]
  BY DEF OnFile, WithPart
<1>. HIDE DEF after, D
<1>1. after = [inst |-> st.inst, disk |-> D, events |-> st.events, err |-> st.err] /\ after.disk = D
  BY <1>0, DiskReplaced
<1>3. \A g \in after.disk : \E f \in st.disk :
        IsFile(g) /\ f.stream = g.stream /\ f.num = g.num /\ f.header = g.header
  <2>1. ASSUME NEW g \in D
        PROVE  \E f \in st.disk : IsFile(g) /\ f.stream = g.stream /\ f.num = g.num /\ f.header = g.header
    <3>1. PICK f \in st.disk :
            g = IF [stream |-> f.stream, num |-> f.num] = FileOf(st.inst)
                THEN [f EXCEPT !.parts = IF io = "moof" THEN @ ELSE Append(@, p),
                               !.torn = IF io \in Torn THEN io ELSE @] ELSE f
      BY DEF D
    <3>. DEFINE ps == IF io = "moof" THEN f.parts ELSE Append(f.parts, p)
                piece == IF io \in Torn THEN io ELSE f.torn
    <3>2. g = f \/ g = [f EXCEPT !.parts = ps, !.torn = piece]
      <4>1. [f EXCEPT !.parts = IF io = "moof" THEN @ ELSE Append(@, p), !.torn = IF io \in Torn THEN io ELSE @]
            = [f EXCEPT !.parts = ps, !.torn = piece]
        <5>1. IsFile(f)
          BY DEF IsState
        <5>. QED
          BY <5>1 DEF IsFile
      <4>. QED
        BY <3>1, <4>1
    <3>. HIDE DEF ps, piece
    <3>3. CASE g = f
      BY <3>3 DEF IsState
    <3>4. CASE g # f
      <4>1. IsFile(g) /\ f.stream = g.stream /\ f.num = g.num /\ f.header = g.header
        <5>1. IsFile(f)
          BY DEF IsState
        <5>2. g = [f EXCEPT !.parts = ps, !.torn = piece]
          BY <3>2, <3>4
        <5>. QED
          BY <5>1, <5>2 DEF IsFile
      <4>. QED
        BY <4>1
    <3>. QED
      BY <3>3, <3>4
  <2>. QED
    BY <1>1, <2>1
<1>4. Like(st, after)
  BY <1>1, <1>3, FileIsLike
<1>. QED
  BY <1>4 DEF after

(* The duration of the segment is written into the header.                 *)
LEMMA DurationIsLike ==
    ASSUME NEW st, IsState(st), NEW d, NEW io
    PROVE  Like(st, WithDuration(st, d, io))
<1>. DEFINE D == {IF [stream |-> f.stream, num |-> f.num] = FileOf(st.inst)
                  THEN [f EXCEPT !.duration = IF io = "duration" THEN @ ELSE d] ELSE f : f \in st.disk}
            after == WithDuration(st, d, io)
<1>0. after = [st EXCEPT !.disk = D]
  BY DEF OnFile, WithDuration
<1>. HIDE DEF after, D
<1>1. after = [inst |-> st.inst, disk |-> D, events |-> st.events, err |-> st.err] /\ after.disk = D
  BY <1>0, DiskReplaced
<1>2. ASSUME NEW f \in st.disk, NEW t, NEW g, g = [f EXCEPT !.duration = t]
      PROVE  IsFile(g) /\ f.stream = g.stream /\ f.num = g.num /\ f.header = g.header
  <2>1. IsFile(f)
    BY DEF IsState
  <2>. QED
    BY <1>2, <2>1 DEF IsFile
<1>3. \A g \in after.disk : \E f \in st.disk :
        IsFile(g) /\ f.stream = g.stream /\ f.num = g.num /\ f.header = g.header
  <2>1. ASSUME NEW g \in D
        PROVE  \E f \in st.disk : IsFile(g) /\ f.stream = g.stream /\ f.num = g.num /\ f.header = g.header
    <3>1. PICK f \in st.disk :
            g = IF [stream |-> f.stream, num |-> f.num] = FileOf(st.inst)
                THEN [f EXCEPT !.duration = IF io = "duration" THEN @ ELSE d] ELSE f
      BY DEF D
    <3>. DEFINE length == IF io = "duration" THEN f.duration ELSE d
    <3>2. g = f \/ g = [f EXCEPT !.duration = length]
      BY <3>1
    <3>. HIDE DEF length
    <3>3. CASE g = f
      BY <3>3 DEF IsState
    <3>4. CASE g # f
      <4>1. IsFile(g) /\ f.stream = g.stream /\ f.num = g.num /\ f.header = g.header
        BY <1>2, <3>2, <3>4
      <4>. QED
        BY <4>1
    <3>. QED
      BY <3>3, <3>4
  <2>. QED
    BY <1>1, <2>1
<1>4. Like(st, after)
  BY <1>1, <1>3, FileIsLike
<1>. QED
  BY <1>4 DEF after

(* Some field of the segment is written that is not reported.              *)
LEMMA FieldsAreLike ==
    ASSUME NEW st, GoodSegment(setup.fmt, st), NEW v
    PROVE  /\ GoodSegment(setup.fmt, [st EXCEPT !.inst.seg.cur = v])
           /\ GoodSegment(setup.fmt, [st EXCEPT !.inst.seg.part = v])
           /\ GoodSegment(setup.fmt, [st EXCEPT !.inst.seg.partStart = v])
           /\ GoodSegment(setup.fmt, [st EXCEPT !.inst.seg.partEnd = v])
           /\ GoodSegment(setup.fmt, [st EXCEPT !.inst.seg.end = v])
           /\ GoodSegment(setup.fmt, [st EXCEPT !.inst.seg.last = v])
           /\ GoodSegment(setup.fmt, [st EXCEPT !.inst.seg.flushed = v])
<1>. DEFINE r == st.inst.seg
<1>1. IsState(st) /\ r # NoSegment /\ IsSegmentRecord(r)
  BY DEF GoodSegment, Good, IsState, IsInstance, InstanceShape
<1>2. ASSUME NEW s, IsSegmentRecord(s), s.num = r.num, s.fi = r.fi
      PROVE  GoodSegment(setup.fmt, [st EXCEPT !.inst.seg = s])
  <2>. DEFINE after == [st EXCEPT !.inst.seg = s]
  <2>1. Like(st, after)
    BY <1>1, <1>2, SegmentIsLike
  <2>. HIDE DEF after
  <2>2. GoodSegment(setup.fmt, after)
    BY <2>1, LikeIsGood DEF GoodSegment
  <2>. QED
    BY <2>2 DEF after
<1>3. IsSegmentRecord([r EXCEPT !.part = v]) /\ [r EXCEPT !.part = v].num = r.num /\ [r EXCEPT !.part = v].fi = r.fi
  BY <1>1 DEF IsSegmentRecord
<1>4. IsSegmentRecord([r EXCEPT !.partStart = v]) /\ [r EXCEPT !.partStart = v].num = r.num /\ [r EXCEPT !.partStart = v].fi = r.fi
  BY <1>1 DEF IsSegmentRecord
<1>5. IsSegmentRecord([r EXCEPT !.partEnd = v]) /\ [r EXCEPT !.partEnd = v].num = r.num /\ [r EXCEPT !.partEnd = v].fi = r.fi
  BY <1>1 DEF IsSegmentRecord
<1>6. IsSegmentRecord([r EXCEPT !.end = v]) /\ [r EXCEPT !.end = v].num = r.num /\ [r EXCEPT !.end = v].fi = r.fi
  BY <1>1 DEF IsSegmentRecord
<1>7. IsSegmentRecord([r EXCEPT !.last = v]) /\ [r EXCEPT !.last = v].num = r.num /\ [r EXCEPT !.last = v].fi = r.fi
  BY <1>1 DEF IsSegmentRecord
<1>8. IsSegmentRecord([r EXCEPT !.flushed = v]) /\ [r EXCEPT !.flushed = v].num = r.num /\ [r EXCEPT !.flushed = v].fi = r.fi
  BY <1>1 DEF IsSegmentRecord
<1>10. IsSegmentRecord([r EXCEPT !.cur = v]) /\ [r EXCEPT !.cur = v].num = r.num /\ [r EXCEPT !.cur = v].fi = r.fi
  BY <1>1 DEF IsSegmentRecord
<1>9. /\ [st EXCEPT !.inst.seg.cur = v] = [st EXCEPT !.inst.seg = [r EXCEPT !.cur = v]]
      /\ [st EXCEPT !.inst.seg.part = v] = [st EXCEPT !.inst.seg = [r EXCEPT !.part = v]]
      /\ [st EXCEPT !.inst.seg.partStart = v] = [st EXCEPT !.inst.seg = [r EXCEPT !.partStart = v]]
      /\ [st EXCEPT !.inst.seg.partEnd = v] = [st EXCEPT !.inst.seg = [r EXCEPT !.partEnd = v]]
      /\ [st EXCEPT !.inst.seg.end = v] = [st EXCEPT !.inst.seg = [r EXCEPT !.end = v]]
      /\ [st EXCEPT !.inst.seg.last = v] = [st EXCEPT !.inst.seg = [r EXCEPT !.last = v]]
      /\ [st EXCEPT !.inst.seg.flushed = v] = [st EXCEPT !.inst.seg = [r EXCEPT !.flushed = v]]
  OBVIOUS
<1>. QED
  BY <1>2, <1>3, <1>4, <1>5, <1>6, <1>7, <1>8, <1>9, <1>10

(* It is the same instance.                                                *)
LEMMA FieldElsewhere ==
    ASSUME NEW st, GoodSegment(setup.fmt, st), NEW v
    PROVE  /\ [st EXCEPT !.inst.seg.cur = v].inst.id = st.inst.id
           /\ [st EXCEPT !.inst.seg.cur = v].inst.number = st.inst.number
           /\ [st EXCEPT !.inst.seg.part = v].inst.id = st.inst.id
           /\ [st EXCEPT !.inst.seg.part = v].inst.number = st.inst.number
<1>1. IsState(st) /\ InstanceShape(st.inst)
  BY DEF GoodSegment, Good, IsState, IsInstance
<1>2. ASSUME NEW s PROVE LET other == [st EXCEPT !.inst.seg = s]
                         IN  other.inst.id = st.inst.id /\ other.inst.number = st.inst.number
  <2>1. [st EXCEPT !.inst.seg = s] = [st EXCEPT !.inst = [st.inst EXCEPT !.seg = s]]
    OBVIOUS
  <2>2. [st.inst EXCEPT !.seg = s].id = st.inst.id /\ [st.inst EXCEPT !.seg = s].number = st.inst.number
    BY <1>1 DEF InstanceShape
  <2>. QED
    BY <1>1, <2>1, <2>2, InstanceReplaced
<1>3. /\ [st EXCEPT !.inst.seg.cur = v] = [st EXCEPT !.inst.seg = [st.inst.seg EXCEPT !.cur = v]]
      /\ [st EXCEPT !.inst.seg.part = v] = [st EXCEPT !.inst.seg = [st.inst.seg EXCEPT !.part = v]]
  OBVIOUS
<1>. QED
  BY <1>2, <1>3

(* closeCurPart.                                                           *)
LEMMA CloseCurPartIsGood ==
    ASSUME NEW st, NEW io, GoodSegment(setup.fmt, st)
    PROVE  /\ GoodSegment(setup.fmt, CloseCurPart(st, io))
           /\ CloseCurPart(st, io).inst.id = st.inst.id /\ CloseCurPart(st, io).inst.number = st.inst.number
<1>. DEFINE mid == IF st.inst.seg.fi = "none" THEN Created(st, io) ELSE st
            written == PartToFile(mid, io)
            Same(x) == x.inst.id = st.inst.id /\ x.inst.number = st.inst.number
<1>1. GoodSegment(setup.fmt, mid) /\ Same(mid)
  BY CreatedIsGood
<1>. HIDE DEF mid
<1>2. IsState(mid)
  BY <1>1 DEF GoodSegment, Good
<1>3. GoodSegment(setup.fmt, written) /\ Same(written)
  <2>1. CASE written = Failed(mid)
    BY <1>1, <1>2, <2>1, FailedIsLike, LikeIsGood DEF GoodSegment, Like
  <2>2. CASE written # Failed(mid)
    <3>. DEFINE x == [mid EXCEPT !.err = io \in Torn]
                p == mid.inst.seg.part
    <3>1. written = WithPart(x, p, io)
      BY <2>2 DEF PartToFile, WithPart
    <3>2. Like(mid, x)
      BY <1>2, FailedIsLike
    <3>. HIDE DEF x, p
    <3>3. GoodSegment(setup.fmt, x) /\ Same(x)
      BY <1>1, <3>2, LikeIsGood DEF GoodSegment, Like
    <3>. HIDE DEF written
    <3>4. Like(x, written)
      <4>1. IsState(x)
        BY <3>3 DEF GoodSegment, Good
      <4>. QED
        BY <3>1, <4>1, PartIsLike
    <3>5. GoodSegment(setup.fmt, written)
      BY <3>3, <3>4, LikeIsGood DEF GoodSegment
    <3>6. Same(written)
      BY <3>3, <3>4 DEF Like
    <3>. QED
      BY <3>5, <3>6
  <2>. QED
    BY <2>1, <2>2
<1>. HIDE DEF written
<1>4. GoodSegment(setup.fmt, BufferLost(written)) /\ Same(BufferLost(written))
  <2>. DEFINE a == [written EXCEPT !.inst.seg.cur = FALSE]
              b == [a EXCEPT !.inst.seg.part = <<>>]
  <2>1. BufferLost(written) = written \/ BufferLost(written) = b
    BY DEF BufferLost
  <2>2. GoodSegment(setup.fmt, a) /\ Same(a)
    <3>1. GoodSegment(setup.fmt, a)
      BY <1>3, FieldsAreLike
    <3>. QED
      BY <1>3, <3>1, FieldElsewhere
  <2>. HIDE DEF a
  <2>3. GoodSegment(setup.fmt, b) /\ Same(b)
    <3>1. GoodSegment(setup.fmt, b)
      BY <2>2, FieldsAreLike
    <3>. QED
      BY <2>2, <3>1, FieldElsewhere
  <2>. QED
    BY <1>3, <2>1, <2>3
<1>. QED
  BY <1>4 DEF CloseCurPart, mid, written

(* The file is closed and OnSegmentComplete called, once, unless the close *)
(* fails.                                                                  *)
LEMMA FileClosedIsGood ==
    ASSUME NEW st, NEW io, GoodSegment(setup.fmt, st)
    PROVE  GoodSegment(setup.fmt, FileClosed(st, io)) /\ ~IsOpen(FileClosed(st, io).inst)
<1>. DEFINE i == st.inst
            file == FileOf(i)
            failed == io = "close" \/ (io = "duration" /\ setup.fmt = "fmp4")
            err == st.err \/ failed
            kind == IF io = "close" THEN "unclosed" ELSE "complete"
            e == [kind |-> kind, file |-> file]
            s == [i.seg EXCEPT !.fi = "closed"]
            base == [st EXCEPT !.inst.seg.fi = "closed", !.err = @ \/ failed]
            mid == Tell(base, kind)
<1>0. IsState(st) /\ IsInstance(i) /\ IsSegmentRecord(i.seg)
  BY DEF GoodSegment, Good, IsState, IsInstance, InstanceShape
<1>1. CASE i.seg.fi # "open"
  <2>1. PICK x : FileClosed(st, io) = [st EXCEPT !.err = x]
    BY <1>1 DEF FileClosed
  <2>2. FileClosed(st, io).inst = i
    BY <1>0, <2>1 DEF IsState
  <2>. QED
    BY <1>0, <1>1, <2>1, <2>2, FailedIsLike, LikeIsGood DEF GoodSegment, IsOpen
<1>2. CASE i.seg.fi = "open"
  <2>1. mid = [inst |-> [i EXCEPT !.seg = s], disk |-> st.disk,
               events |-> Append(st.events, [kind |-> kind, file |-> FileOf([i EXCEPT !.seg = s])]),
               err |-> err]
    <3>1. base = [inst |-> [i EXCEPT !.seg = s], disk |-> st.disk, events |-> st.events, err |-> err]
      <4>1. st = [inst |-> st.inst, disk |-> st.disk, events |-> st.events, err |-> st.err]
        BY <1>0 DEF IsState
      <4>. HIDE DEF failed
      <4>2. base = [[st EXCEPT !.inst = [i EXCEPT !.seg = s]] EXCEPT !.err = st.err \/ failed]
        OBVIOUS
      <4>. HIDE DEF base, s
      <4>. QED
        BY <4>1, <4>2
    <3>. HIDE DEF s, base, kind, err
    <3>2. base.inst = [i EXCEPT !.seg = s] /\ base.events = st.events
      BY <3>1
    <3>3. mid = [base EXCEPT !.events = Append(base.events, [kind |-> kind, file |-> FileOf(base.inst)])]
      BY DEF Tell
    <3>. HIDE DEF mid
    <3>. QED
      BY <3>1, <3>2, <3>3
  <2>2. IsSegmentRecord(s) /\ s.num = i.seg.num /\ s.fi = "closed" /\ s # NoSegment
    BY <1>0 DEF IsSegmentRecord, NoSegment
  <2>. HIDE DEF mid, s, err
  <2>3. mid.inst = [i EXCEPT !.seg = s] /\ mid.disk = st.disk
        /\ mid = [inst |-> mid.inst, disk |-> mid.disk, events |-> mid.events, err |-> mid.err]
    BY <2>1
  <2>4. mid.inst.seg = s /\ mid.inst.id = i.id /\ mid.inst.number = i.number /\ IsInstance(mid.inst)
    BY <1>0, <2>2, <2>3 DEF IsInstance, InstanceShape, GoodSegment
  <2>5. FileOf(mid.inst) = file /\ FileOf([i EXCEPT !.seg = s]) = file /\ mid.events = Append(st.events, e)
    BY <2>1, <2>2, <2>3, <2>4 DEF FileOf
  <2>6. e \in Event /\ file = [stream |-> i.id, num |-> i.seg.num] /\ i.id \in Nat /\ i.seg.num \in Nat
        /\ e.kind = kind /\ kind \in {"complete", "unclosed"} /\ e.file = file /\ st.events \in Seq(Event)
    BY <1>0 DEF IsInstance, InstanceShape, IsSegmentRecord, Event, FileOf, IsState
  <2>7. ~Told(st.events, "complete", file) /\ Told(st.events, "create", file)
    BY <1>2 DEF GoodSegment, Good, ReportedSoFar
  <2>. HIDE DEF e, kind
  <2>8. IsState(mid)
    BY <1>0, <2>3, <2>4, <2>5, <2>6, OneMoreEvent DEF IsState
  <2>9. CompleteOnce(mid.events)
    BY <2>5, <2>6, <2>7, FirstComplete, NotComplete DEF GoodSegment, Good
  <2>10. Unused(mid.events, mid.inst)
    <3>1. i.seg.num < i.number
      BY <1>0 DEF IsInstance, InstanceShape, GoodSegment
    <3>. QED
      BY <2>4, <2>5, <2>6, <3>1, StillUnused DEF GoodSegment, Good
  <2>11. ReportedSoFar(mid.events, mid.inst)
    BY <2>2, <2>4 DEF ReportedSoFar
  <2>12. Told(mid.events, "complete", file) \/ Told(mid.events, "unclosed", file)
    <3>1. Told(Append(st.events, e), e.kind, e.file)
      BY <2>6, ToldStays
    <3>. QED
      BY <2>5, <2>6, <3>1
  <2>13. ASSUME NEW f \in mid.disk PROVE Accounted(setup.fmt, mid.events, mid.inst, f)
    <3>1. Accounted(setup.fmt, st.events, i, f)
      BY <2>3 DEF GoodSegment, Good
    <3>. QED
      BY <2>5, <2>6, <2>12, <3>1, ToldStays DEF Accounted
  <2>14. Good(setup.fmt, mid)
    BY <2>8, <2>9, <2>10, <2>11, <2>13 DEF Good
  <2>15. Like(mid, FileClosed(st, io))
    <3>1. FileClosed(st, io) = WithDuration(mid, DurationWritten(st.inst.seg), io)
      BY <1>2 DEF FileClosed, mid, kind, WithDuration
    <3>. QED
      BY <2>8, <3>1, DurationIsLike
  <2>. QED
    BY <2>2, <2>4, <2>14, <2>15, LikeIsGood DEF GoodSegment, Like, IsOpen
<1>. QED
  BY <1>1, <1>2

(* close of a segment leaves none that is open.                            *)
LEMMA CloseSegmentIsGood ==
    ASSUME NEW st, NEW io, GoodSegment(setup.fmt, st)
    PROVE  GoodSegment(setup.fmt, CloseSegment(st, io)) /\ ~IsOpen(CloseSegment(st, io).inst)
BY CloseCurPartIsGood, FileClosedIsGood DEF CloseSegment

(* The next segment: the one before is not open any more.                  *)
LEMMA SegmentFromIsGood ==
    ASSUME NEW st, NEW x, Good(setup.fmt, st), ~IsOpen(st.inst)
    PROVE  GoodSegment(setup.fmt, SegmentFrom(st, x))
<1>. DEFINE i == st.inst
            s == NewSegment(i.number, x.dts, x.ntp)
            next == [i EXCEPT !.seg = s, !.number = @ + 1]
            after == SegmentFrom(st, x)
<1>0. IsState(st) /\ IsInstance(i)
  BY DEF Good, IsState
<1>1. after = [st EXCEPT !.inst = next]
  BY <1>0 DEF SegmentFrom, IsState
<1>. HIDE DEF after, next, s
<1>2. after = [inst |-> next, disk |-> st.disk, events |-> st.events, err |-> st.err]
  BY <1>0, <1>1, InstanceReplaced
<1>3. IsSegmentRecord(s) /\ s.num = i.number /\ s.fi = "none" /\ s # NoSegment /\ i.number \in Nat
  BY <1>0 DEF IsInstance, InstanceShape, IsSegmentRecord, s, NewSegment, NoSegment
<1>4. IsInstance(next) /\ next.seg = s /\ next.id = i.id /\ next.number = i.number + 1
  <2>0. i = [id |-> i.id, done |-> i.done, failed |-> i.failed, skip |-> i.skip, hasVideo |-> i.hasVideo,
             number |-> i.number, seg |-> i.seg, next |-> i.next, started |-> i.started, keyed |-> i.keyed]
    BY <1>0 DEF IsInstance, InstanceShape
  <2>1. next = [id |-> i.id, done |-> i.done, failed |-> i.failed, skip |-> i.skip, hasVideo |-> i.hasVideo,
                number |-> i.number + 1, seg |-> s, next |-> i.next, started |-> i.started, keyed |-> i.keyed]
    <3>. DEFINE other == [i EXCEPT !.seg = s]
    <3>1. next = [other EXCEPT !.number = @ + 1]
      BY DEF next
    <3>2. other = [id |-> i.id, done |-> i.done, failed |-> i.failed, skip |-> i.skip, hasVideo |-> i.hasVideo,
                   number |-> i.number, seg |-> s, next |-> i.next, started |-> i.started, keyed |-> i.keyed]
      BY <2>0
    <3>. HIDE DEF other, i
    <3>. QED
      BY <3>1, <3>2
  <2>2. next.seg = s /\ next.id = i.id /\ next.number = i.number + 1 /\ next.done = i.done
    BY <2>1
  <2>3. s.num < next.number /\ next.number \in Nat /\ i.id \in Nat /\ ~i.done
    BY <1>0, <1>3, <2>2 DEF IsInstance, InstanceShape
  <2>. QED
    BY <1>3, <2>1, <2>2, <2>3 DEF IsInstance, InstanceShape
<1>5. IsState(after) /\ after.inst = next /\ after.events = st.events /\ after.disk = st.disk
  BY <1>0, <1>2, <1>4 DEF IsState
<1>6. Unused(after.events, after.inst)
  <2>1. \A k \in DOMAIN st.events : st.events[k].kind # "crash" => st.events[k].file.num \in Nat
    BY <1>0 DEF IsState, Event
  <2>. QED
    BY <1>3, <1>4, <1>5, <2>1 DEF Good, Unused
<1>7. ReportedSoFar(after.events, after.inst)
  <2>1. ASSUME Told(st.events, "complete", FileOf(next)) PROVE FALSE
    <3>1. FileOf(next) = [stream |-> i.id, num |-> i.number] /\ i.id \in Nat /\ i.number \in Nat
      BY <1>0, <1>3, <1>4 DEF FileOf, IsInstance, InstanceShape
    <3>2. PICK k \in DOMAIN st.events : st.events[k].kind = "complete" /\ st.events[k].file = FileOf(next)
      BY <2>1 DEF Told
    <3>. QED
      BY <3>1, <3>2 DEF Good, Unused
  <2>. QED
    BY <1>3, <1>4, <1>5, <2>1 DEF ReportedSoFar
<1>8. \A f \in after.disk : Accounted(setup.fmt, after.events, after.inst, f)
  BY <1>5 DEF Good, Accounted
<1>9. Good(setup.fmt, after)
  BY <1>5, <1>6, <1>7, <1>8 DEF Good
<1>. QED
  BY <1>3, <1>4, <1>5, <1>9 DEF GoodSegment, after

(* A part that is long enough goes to the file, and another one begins.    *)
LEMMA PartForIsGood ==
    ASSUME NEW st, NEW x, NEW io, GoodSegment(setup.fmt, st)
    PROVE  GoodSegment(setup.fmt, PartFor(st, x, io))
<1>1. ASSUME NEW y, GoodSegment(setup.fmt, y)
      PROVE  GoodSegment(setup.fmt, [y EXCEPT !.inst.seg.cur = ~y.err, !.inst.seg.part = <<>>,
                                              !.inst.seg.partStart = x.dts, !.inst.seg.partEnd = 0])
  <2>. DEFINE d == [y EXCEPT !.inst.seg.cur = ~y.err]
              a == [d EXCEPT !.inst.seg.part = <<>>]
              b == [a EXCEPT !.inst.seg.partStart = x.dts]
              c == [b EXCEPT !.inst.seg.partEnd = 0]
  <2>1. [y EXCEPT !.inst.seg.cur = ~y.err, !.inst.seg.part = <<>>,
                  !.inst.seg.partStart = x.dts, !.inst.seg.partEnd = 0] = c
    OBVIOUS
  <2>0. GoodSegment(setup.fmt, d)
    BY <1>1, FieldsAreLike
  <2>. HIDE DEF d
  <2>2. GoodSegment(setup.fmt, a)
    BY <2>0, FieldsAreLike
  <2>. HIDE DEF a
  <2>3. GoodSegment(setup.fmt, b)
    BY <2>2, FieldsAreLike
  <2>. HIDE DEF b
  <2>4. GoodSegment(setup.fmt, c)
    BY <2>3, FieldsAreLike
  <2>. QED
    BY <2>1, <2>4
<1>. QED
  BY <1>1, CloseCurPartIsGood DEF PartFor

(* The first sample of a track is remembered.                              *)
LEMMA StartedIsGood ==
    ASSUME NEW st, NEW t, NEW x, Good(setup.fmt, st)
    PROVE  Good(setup.fmt, Started(st, t, x))
<1>. DEFINE i == st.inst
            v == [i.started EXCEPT ![t] = [dts |-> x.dts, ntp |-> x.ntp]]
            next == [i EXCEPT !.started = v]
<1>0. IsState(st) /\ IsInstance(i)
  BY DEF Good, IsState
<1>1. [st EXCEPT !.inst.started[t] = [dts |-> x.dts, ntp |-> x.ntp]] = [st EXCEPT !.inst = next]
  OBVIOUS
<1>. HIDE DEF v
<1>2. next = [id |-> i.id, done |-> i.done, failed |-> i.failed, skip |-> i.skip, hasVideo |-> i.hasVideo,
              number |-> i.number, seg |-> i.seg, next |-> i.next, started |-> v, keyed |-> i.keyed]
  <2>1. i = [id |-> i.id, done |-> i.done, failed |-> i.failed, skip |-> i.skip, hasVideo |-> i.hasVideo,
             number |-> i.number, seg |-> i.seg, next |-> i.next, started |-> i.started, keyed |-> i.keyed]
    BY <1>0 DEF IsInstance, InstanceShape
  <2>. HIDE DEF i
  <2>. QED
    BY <2>1
<1>. HIDE DEF next
<1>3. IsInstance(next) /\ next.id = i.id /\ next.number = i.number /\ next.seg = i.seg
  BY <1>0, <1>2 DEF IsInstance, InstanceShape
<1>4. Good(setup.fmt, [st EXCEPT !.inst = next])
  BY <1>0, <1>3, InstanceIsLike, LikeIsGood
<1>. QED
  BY <1>1, <1>4 DEF Started

(* A sample is added to the part, and the part grows.                      *)
LEMMA SampleToPartIsGood ==
    ASSUME NEW st, NEW x, NEW dur, NEW io, GoodSegment(setup.fmt, st)
    PROVE  GoodSegment(setup.fmt, SampleToPart(st, x, dur, io))
<1>1. CASE st.err \/ io = "size"
  <2>1. SampleToPart(st, x, dur, io) = Failed(st)
    BY <1>1 DEF SampleToPart
  <2>. QED
    BY <2>1, FailedIsLike, LikeIsGood DEF GoodSegment, Good
<1>2. CASE ~(st.err \/ io = "size")
  <2>. DEFINE p == Append(st.inst.seg.part, StoredSample(x, dur, st.inst.seg.dts))
              a == [st EXCEPT !.inst.seg.part = p]
  <2>0. \/ SampleToPart(st, x, dur, io) = [st EXCEPT !.inst.seg.part = p, !.inst.seg.partEnd = Later(st.inst.seg.partEnd, x.dts + dur)]
        \/ SampleToPart(st, x, dur, io) = [st EXCEPT !.inst.seg.part = p, !.inst.seg.partEnd = Later(a.inst.seg.partEnd, x.dts + dur)]
    BY <1>2 DEF SampleToPart
  <2>1. PICK e : SampleToPart(st, x, dur, io) = [st EXCEPT !.inst.seg.part = p, !.inst.seg.partEnd = e]
    BY <2>0
  <2>. HIDE DEF p
  <2>2. SampleToPart(st, x, dur, io) = [a EXCEPT !.inst.seg.partEnd = e]
    BY <2>1
  <2>3. GoodSegment(setup.fmt, a)
    BY FieldsAreLike
  <2>. HIDE DEF a
  <2>4. GoodSegment(setup.fmt, [a EXCEPT !.inst.seg.partEnd = e])
    BY <2>3, FieldsAreLike
  <2>. QED
    BY <2>2, <2>4
<1>. QED
  BY <1>1, <1>2

(* write of formatFMP4Segment.                                             *)
LEMMA WriteSampleIsGood ==
    ASSUME NEW st, NEW x, NEW dur, NEW io, GoodSegment(setup.fmt, st)
    PROVE  GoodSegment(setup.fmt, WriteSample(st, x, dur, io))
<1>. DEFINE e == Later(st.inst.seg.end, x.dts + dur)
            a == [st EXCEPT !.inst.seg.end = e]
<1>1. WriteSample(st, x, dur, io) = SampleToPart(PartFor(a, x, io), x, dur, io)
  BY DEF WriteSample
<1>. HIDE DEF e
<1>2. GoodSegment(setup.fmt, a)
  BY FieldsAreLike
<1>. HIDE DEF a
<1>. QED
  BY <1>1, <1>2, PartForIsGood, SampleToPartIsGood

(* The rollover of fMP4.                                                   *)
LEMMA CutFMP4IsGood ==
    ASSUME NEW st, NEW x, NEW io, GoodSegment(setup.fmt, st)
    PROVE  GoodSegment(setup.fmt, CutFMP4(st, x, io))
<1>. DEFINE closed == CloseSegment(st, io)
<1>1. GoodSegment(setup.fmt, closed) /\ ~IsOpen(closed.inst)
  BY CloseSegmentIsGood
<1>. HIDE DEF closed
<1>2. GoodSegment(setup.fmt, FollowedBy(closed))
  BY <1>1, SegmentFromIsGood DEF FollowedBy, GoodSegment
<1>. QED
  BY <1>2 DEF CutFMP4, closed

(* A sample of fMP4 is written when its duration is known.                 *)
LEMMA WritePreviousIsGood ==
    ASSUME NEW st, NEW prev, NEW x, NEW io, Good(setup.fmt, st)
    PROVE  Good(setup.fmt, WritePrevious(st, prev, x, io))
<1>. DEFINE mid == IF st.inst.seg = NoSegment THEN SegmentFrom(st, prev) ELSE st
<1>1. GoodSegment(setup.fmt, mid)
  BY SegmentFromIsGood DEF GoodSegment, IsOpen
<1>. HIDE DEF mid
<1>2. GoodSegment(setup.fmt, CutFMP4(WriteSample(mid, prev, x.dts - prev.dts, io), x, io))
  BY <1>1, WriteSampleIsGood, CutFMP4IsGood
<1>3. WritePrevious(st, prev, x, io) = st
      \/ WritePrevious(st, prev, x, io) = CutFMP4(WriteSample(mid, prev, x.dts - prev.dts, io), x, io)
  BY DEF WritePrevious, mid
<1>. QED
  BY <1>2, <1>3 DEF GoodSegment

(* write of formatFMP4Track.                                               *)
LEMMA WriteFMP4IsGood ==
    ASSUME NEW st, NEW prev, NEW x, NEW io, Good(setup.fmt, st)
    PROVE  Good(setup.fmt, WriteFMP4(st, prev, x, io))
<1>1. Good(setup.fmt, Failed(st))
  BY FailedIsLike, LikeIsGood DEF Good
<1>2. Good(setup.fmt, WritePrevious(Started(st, x.t, prev), prev, x, io))
  BY StartedIsGood, WritePreviousIsGood
<1>. QED
  BY <1>1, <1>2 DEF WriteFMP4

(* The buffer of MPEG-TS is flushed.                                       *)
LEMMA FlushIsGood ==
    ASSUME NEW st, NEW x, NEW io, GoodSegment(setup.fmt, st)
    PROVE  GoodSegment(setup.fmt, Flush(st, x, io))
<1>. DEFINE y == CloseCurPart(st, io)
            d == [y EXCEPT !.inst.seg.cur = FALSE]
            a == [d EXCEPT !.inst.seg.part = <<>>]
            b == [a EXCEPT !.inst.seg.flushed = x.dts]
<1>1. GoodSegment(setup.fmt, y)
  BY CloseCurPartIsGood
<1>. HIDE DEF y
<1>2. [y EXCEPT !.inst.seg.cur = FALSE, !.inst.seg.part = <<>>, !.inst.seg.flushed = x.dts] = b
  OBVIOUS
<1>5. GoodSegment(setup.fmt, d)
  BY <1>1, FieldsAreLike
<1>. HIDE DEF d
<1>3. GoodSegment(setup.fmt, a)
  BY <1>5, FieldsAreLike
<1>. HIDE DEF a
<1>4. GoodSegment(setup.fmt, b)
  BY <1>3, FieldsAreLike
<1>. HIDE DEF b
<1>. QED
  BY <1>1, <1>2, <1>4 DEF Flush, y

(* The rollover of MPEG-TS, or the first segment.                          *)
LEMMA CutMPEGTSIsGood ==
    ASSUME NEW st, NEW x, NEW io, Good(setup.fmt, st)
    PROVE  GoodSegment(setup.fmt, CutMPEGTS(st, x, io))
<1>1. CASE st.inst.seg = NoSegment
  <2>1. CutMPEGTS(st, x, io) = SegmentFrom(st, x)
    BY <1>1 DEF CutMPEGTS
  <2>. QED
    BY <1>1, <2>1, SegmentFromIsGood DEF IsOpen
<1>2. CASE st.inst.seg # NoSegment /\ CanCut(st.inst, x)
  <2>. DEFINE a == [st EXCEPT !.inst.seg.last = x.dts]
              y == CloseSegment(a, io)
  <2>1. CutMPEGTS(st, x, io) = IF y.err THEN y ELSE SegmentFrom(y, x)
    BY <1>2 DEF CutMPEGTS
  <2>2. GoodSegment(setup.fmt, a)
    BY <1>2, FieldsAreLike DEF GoodSegment
  <2>. HIDE DEF a
  <2>3. GoodSegment(setup.fmt, y) /\ ~IsOpen(y.inst)
    BY <2>2, CloseSegmentIsGood
  <2>. HIDE DEF y
  <2>. QED
    BY <2>1, <2>3, SegmentFromIsGood DEF GoodSegment
<1>3. CASE st.inst.seg # NoSegment /\ ~CanCut(st.inst, x)
  <2>1. CutMPEGTS(st, x, io) = Flush(st, x, io)
    BY <1>3 DEF CutMPEGTS
  <2>. QED
    BY <1>3, <2>1, FlushIsGood DEF GoodSegment
<1>. QED
  BY <1>1, <1>2, <1>3

(* write of formatMPEGTSTrack.                                             *)
LEMMA WriteMPEGTSIsGood ==
    ASSUME NEW st, NEW x, NEW io, Good(setup.fmt, st)
    PROVE  Good(setup.fmt, WriteMPEGTS(st, x, io))
<1>. DEFINE y == CutMPEGTS(Started(st, x.t, x), x, io)
            p == Append(y.inst.seg.part, StoredSample(x, 0, y.inst.seg.dts))
            d == [y EXCEPT !.inst.seg.cur = TRUE]
            a == [d EXCEPT !.inst.seg.part = p]
            b == [a EXCEPT !.inst.seg.last = x.dts]
<1>1. Good(setup.fmt, Failed(st))
  BY FailedIsLike, LikeIsGood DEF Good
<1>2. GoodSegment(setup.fmt, y)
  BY StartedIsGood, CutMPEGTSIsGood
<1>3. WriteMPEGTS(st, x, io) = Failed(st) \/ WriteMPEGTS(st, x, io) = SampleToBuffer(y, x)
  BY DEF WriteMPEGTS
<1>. HIDE DEF y
<1>4. SampleToBuffer(y, x) = y \/ SampleToBuffer(y, x) = b
  BY DEF SampleToBuffer
<1>. HIDE DEF p
<1>7. GoodSegment(setup.fmt, d)
  BY <1>2, FieldsAreLike
<1>. HIDE DEF d
<1>5. GoodSegment(setup.fmt, a)
  BY <1>7, FieldsAreLike
<1>. HIDE DEF a
<1>6. GoodSegment(setup.fmt, b)
  BY <1>5, FieldsAreLike
<1>. HIDE DEF b
<1>. QED
  BY <1>1, <1>2, <1>3, <1>4, <1>6 DEF GoodSegment

-----------------------------------------------------------------------------
(* What holds of the instance, the files and the events between steps.     *)
Fine(i, d, ev) ==
    /\ InstanceShape(i) /\ ev \in Seq(Event) /\ \A f \in d : IsFile(f)
    /\ CompleteOnce(ev) /\ Unused(ev, i) /\ ReportedSoFar(ev, i)
    /\ \A f \in d : Accounted(setup.fmt, ev, i, f)

Recorded ==
    /\ Fine(inst, disk, events)
    /\ inst.done => ~IsOpen(inst)
    /\ rec = [phase |-> rec.phase, term |-> rec.term, since |-> rec.since]
    /\ rec.phase # "up" => inst.done

(* The state of a step comes from them.                                    *)
LEMMA FineIsGood ==
    ASSUME NEW i, NEW d, NEW ev, NEW e, NEW st, Fine(i, d, ev), ~i.done,
           st = [inst |-> i, disk |-> d, events |-> ev, err |-> e]
    PROVE  Good(setup.fmt, st)
<1>1. st.inst = i /\ st.disk = d /\ st.events = ev /\ st.err = e
  OBVIOUS
<1>2. IsState(st)
  BY <1>1 DEF IsState, IsInstance, Fine
<1>. QED
  BY <1>1, <1>2 DEF Good, Fine

(* What a step leaves goes back to them.                                   *)
LEMMA GoodIsFine ==
    ASSUME NEW st, Good(setup.fmt, st)
    PROVE  Fine(st.inst, st.disk, st.events) /\ ~st.inst.done
BY DEF Good, IsState, IsInstance, Fine

(* Now of an instance that is at work.                                     *)
LEMMA NowIsGood ==
    ASSUME NEW i, Fine(i, disk, events), ~i.done
    PROVE  Good(setup.fmt, Now(i))
<1>1. \E e : Now(i) = [inst |-> i, disk |-> disk, events |-> events, err |-> e]
  BY DEF Now
<1>. QED
  BY <1>1, FineIsGood

(* Some other field of the instance changes.                               *)
LEMMA SameSegment ==
    ASSUME NEW i, NEW d, NEW ev, Fine(i, d, ev), NEW j, InstanceShape(j),
           j.id = i.id, j.number = i.number, j.seg = i.seg
    PROVE  Fine(j, d, ev) /\ (IsOpen(j) <=> IsOpen(i))
<1>1. FileOf(j) = FileOf(i) /\ (IsOpen(j) <=> IsOpen(i))
  BY DEF FileOf, IsOpen
<1>2. Unused(ev, j) /\ ReportedSoFar(ev, j)
  BY <1>1 DEF Fine, Unused, ReportedSoFar
<1>3. \A f \in d : Accounted(setup.fmt, ev, j, f)
  BY <1>1 DEF Fine, Accounted
<1>. QED
  BY <1>1, <1>2, <1>3 DEF Fine

(* Such a field.                                                           *)
LEMMA OtherFields ==
    ASSUME NEW i, InstanceShape(i), NEW v, NEW j,
           \/ j = [i EXCEPT !.failed = v] \/ j = [i EXCEPT !.hasVideo = v]
           \/ j = [i EXCEPT !.next = v] \/ j = [i EXCEPT !.keyed = v]
    PROVE  InstanceShape(j) /\ j.id = i.id /\ j.number = i.number /\ j.seg = i.seg /\ j.done = i.done
<1>1. i = [id |-> i.id, done |-> i.done, failed |-> i.failed, skip |-> i.skip, hasVideo |-> i.hasVideo,
           number |-> i.number, seg |-> i.seg, next |-> i.next, started |-> i.started, keyed |-> i.keyed]
  BY DEF InstanceShape
<1>2. /\ j = [id |-> j.id, done |-> j.done, failed |-> j.failed, skip |-> j.skip, hasVideo |-> j.hasVideo,
              number |-> j.number, seg |-> j.seg, next |-> j.next, started |-> j.started, keyed |-> j.keyed]
      /\ j.id = i.id /\ j.number = i.number /\ j.seg = i.seg /\ j.done = i.done
  <2>1. CASE j = [i EXCEPT !.failed = v]
    BY <1>1, <2>1
  <2>2. CASE j = [i EXCEPT !.hasVideo = v]
    BY <1>1, <2>2
  <2>3. CASE j = [i EXCEPT !.next = v]
    BY <1>1, <2>3
  <2>4. CASE j = [i EXCEPT !.keyed = v]
    BY <1>1, <2>4
  <2>. QED
    BY <2>1, <2>2, <2>3, <2>4
<1>. QED
  BY <1>2 DEF InstanceShape

(* It does not matter.                                                     *)
LEMMA OtherFieldsAreFine ==
    ASSUME NEW i, NEW d, NEW ev, Fine(i, d, ev), NEW v, NEW j,
           \/ j = [i EXCEPT !.failed = v] \/ j = [i EXCEPT !.hasVideo = v]
           \/ j = [i EXCEPT !.next = v] \/ j = [i EXCEPT !.keyed = v]
    PROVE  Fine(j, d, ev) /\ j.done = i.done
<1>1. InstanceShape(i)
  BY DEF Fine
<1>2. InstanceShape(j) /\ j.id = i.id /\ j.number = i.number /\ j.seg = i.seg /\ j.done = i.done
  BY <1>1, OtherFields
<1>. QED
  BY <1>2, SameSegment

(* The instance is over.                                                   *)
LEMMA DoneIsFine ==
    ASSUME NEW i, NEW d, NEW ev, Fine(i, d, ev), ~IsOpen(i)
    PROVE  LET j == [i EXCEPT !.done = TRUE] IN Fine(j, d, ev) /\ ~IsOpen(j) /\ j.done
<1>1. ASSUME NEW v PROVE LET j == [i EXCEPT !.done = v] IN
         InstanceShape(j) /\ j.id = i.id /\ j.number = i.number /\ j.seg = i.seg /\ j.done = v
  <2>1. i = [id |-> i.id, done |-> i.done, failed |-> i.failed, skip |-> i.skip, hasVideo |-> i.hasVideo,
             number |-> i.number, seg |-> i.seg, next |-> i.next, started |-> i.started, keyed |-> i.keyed]
    BY DEF Fine, InstanceShape
  <2>. DEFINE j == [i EXCEPT !.done = v]
  <2>2. j = [id |-> i.id, done |-> v, failed |-> i.failed, skip |-> i.skip, hasVideo |-> i.hasVideo,
             number |-> i.number, seg |-> i.seg, next |-> i.next, started |-> i.started, keyed |-> i.keyed]
    BY <2>1
  <2>. HIDE DEF j
  <2>3. /\ j = [id |-> j.id, done |-> j.done, failed |-> j.failed, skip |-> j.skip, hasVideo |-> j.hasVideo,
                number |-> j.number, seg |-> j.seg, next |-> j.next, started |-> j.started, keyed |-> j.keyed]
        /\ j.id = i.id /\ j.number = i.number /\ j.seg = i.seg /\ j.done = v
    BY <2>2
  <2>4. InstanceShape(j)
    BY <2>3 DEF Fine, InstanceShape
  <2>. QED
    BY <2>3, <2>4 DEF j
<1>. QED
  BY <1>1, SameSegment

(* Files are removed, or change in something that is not reported.         *)
LEMMA FilesAreFine ==
    ASSUME NEW i, NEW d, NEW ev, Fine(i, d, ev), NEW D,
           \A g \in D : \E f \in d :
               IsFile(g) /\ f.stream = g.stream /\ f.num = g.num /\ f.header = g.header
    PROVE  Fine(i, D, ev)
<1>1. \A g \in D : Accounted(setup.fmt, ev, i, g)
  BY DEF Fine, Accounted
<1>. QED
  BY <1>1 DEF Fine

(* A unit is written.                                                      *)
LEMMA WriteIsGood ==
    ASSUME NEW i, NEW x, NEW io, Fine(i, disk, events), ~i.done
    PROVE  Good(setup.fmt, Write(i, x, io))
<1>. DEFINE j == HasVideo(i, x.t)
            k == [j EXCEPT !.next[x.t] = NeverBack(x, i.next[x.t])]
<1>1. PICK v : j = [i EXCEPT !.hasVideo = v]
  BY DEF HasVideo
<1>. HIDE DEF j
<1>2. Fine(j, disk, events) /\ j.done = i.done
  BY <1>1, OtherFieldsAreFine
<1>3. PICK w : k = [j EXCEPT !.next = w]
  OBVIOUS
<1>. HIDE DEF k
<1>4. Fine(k, disk, events) /\ k.done = j.done
  BY <1>2, <1>3, OtherFieldsAreFine
<1>5. Good(setup.fmt, Now(j)) /\ Good(setup.fmt, Now(k))
  BY <1>2, <1>4, NowIsGood
<1>6. \/ Write(i, x, io) = WriteMPEGTS(Now(j), x, io)
      \/ Write(i, x, io) = WriteFMP4(Now(k), i.next[x.t], NeverBack(x, i.next[x.t]), io)
  BY DEF Write, j, k
<1>. QED
  BY <1>5, <1>6, WriteMPEGTSIsGood, WriteFMP4IsGood

(* The close of the format.                                                *)
LEMMA CloseFormatIsFine ==
    ASSUME NEW i, NEW io, Fine(i, disk, events), i.done => ~IsOpen(i)
    PROVE  LET st == CloseFormat(i, io) IN Fine(st.inst, st.disk, st.events) /\ ~IsOpen(st.inst)
<1>1. Now(i).inst = i /\ Now(i).disk = disk /\ Now(i).events = events
  BY DEF Now
<1>2. CASE i.seg = NoSegment \/ i.done
  <2>1. CloseFormat(i, io) = Now(i)
    BY <1>2 DEF CloseFormat
  <2>. QED
    BY <1>1, <1>2, <2>1 DEF IsOpen
<1>3. CASE ~(i.seg = NoSegment \/ i.done)
  <2>1. CloseFormat(i, io) = CloseSegment(Now(i), io)
    BY <1>3 DEF CloseFormat
  <2>2. GoodSegment(setup.fmt, Now(i))
    BY <1>1, <1>3, NowIsGood DEF GoodSegment
  <2>. QED
    BY <2>1, <2>2, CloseSegmentIsGood, GoodIsFine DEF GoodSegment
<1>. QED
  BY <1>2, <1>3

(* Nothing is recorded at first.                                           *)
LEMMA RecordedAtFirst == ASSUME RecorderInit PROVE Recorded
<1>1. InstanceShape(inst) /\ inst.seg = NoSegment
  BY DEF RecorderInit, NewInstance, InstanceShape
<1>2. events = <<>> /\ disk = {} /\ rec.phase = "up" /\ events \in Seq(Event)
      /\ rec = [phase |-> rec.phase, term |-> rec.term, since |-> rec.since]
  BY DEF RecorderInit
<1>3. Fine(inst, disk, events)
  BY <1>1, <1>2 DEF Fine, CompleteOnce, Unused, ReportedSoFar
<1>. QED
  BY <1>1, <1>2, <1>3 DEF Recorded, IsOpen

(* A unit, which may cut a segment.                                        *)
LEMMA UnitIsRecorded ==
    ASSUME Recorded, NEW t, NEW key, NEW late, NEW io, OnUnit(t, key, late, io)
    PROVE  Recorded'
<1>. DEFINE u  == [n |-> Len(units) + 1, t |-> t, dts |-> clock - late, ntp |-> clock - late + skew, key |-> key]
            i  == [inst EXCEPT !.keyed[t] = TRUE]
            st == Write(i, u, io)
<1>1. rec.phase = "up" /\ ~inst.done /\ rec' = rec /\ setup' = setup
  BY DEF OnUnit, Reads
<1>2. \/ disk' = st.disk /\ events' = st.events /\ inst' = [st.inst EXCEPT !.failed = st.err]
      \/ inst' = inst /\ disk' = disk /\ events' = events
  BY DEF OnUnit
<1>. HIDE DEF u
<1>3. PICK k : i = [inst EXCEPT !.keyed = k]
  OBVIOUS
<1>. HIDE DEF i
<1>4. Fine(i, disk, events) /\ ~i.done
  BY <1>1, <1>3, OtherFieldsAreFine DEF Recorded
<1>5. Good(setup.fmt, st)
  BY <1>4, WriteIsGood
<1>. HIDE DEF st
<1>6. Fine(st.inst, st.disk, st.events) /\ ~st.inst.done
  BY <1>5, GoodIsFine
<1>. DEFINE j == [st.inst EXCEPT !.failed = st.err]
<1>7. Fine(j, st.disk, st.events) /\ j.done = st.inst.done
  BY <1>6, OtherFieldsAreFine
<1>. HIDE DEF j
<1>8. Fine(inst', disk', events') /\ ~inst'.done
  BY <1>1, <1>2, <1>6, <1>7 DEF Recorded, j
<1>. QED
  BY <1>1, <1>8 DEF Recorded, Fine

(* The format is closed, and the instance is over.                         *)
LEMMA ClosedIsRecorded ==
    ASSUME Recorded, NEW io, NEW d,
           Fine(CloseFormat(inst, io).inst, d, CloseFormat(inst, io).events),
           inst' = [CloseFormat(inst, io).inst EXCEPT !.done = TRUE],
           disk' = d, events' = CloseFormat(inst, io).events, setup' = setup,
           rec' = [phase |-> rec'.phase, term |-> rec'.term, since |-> rec'.since]
    PROVE  Recorded'
<1>. DEFINE st == CloseFormat(inst, io)
<1>1. ~IsOpen(st.inst)
  BY CloseFormatIsFine DEF Recorded
<1>2. Fine(inst', d, st.events) /\ ~IsOpen(inst') /\ inst'.done
  BY <1>1, DoneIsFine
<1>. HIDE DEF st
<1>3. Fine(inst', disk', events')
  BY <1>2 DEF st
<1>. QED
  BY <1>2, <1>3 DEF Recorded, Fine

(* InstanceFails, Split and Terminated.                                    *)
LEMMA InstanceIsClosed ==
    ASSUME Recorded, NEW io, InstanceFails(io) \/ Split(io) \/ Terminated(io)
    PROVE  Recorded'
<1>. DEFINE st == CloseFormat(inst, io)
<1>0. rec = [phase |-> rec.phase, term |-> rec.term, since |-> rec.since]
  BY DEF Recorded
<1>1. Fine(st.inst, st.disk, st.events)
  BY CloseFormatIsFine DEF Recorded
<1>2. inst' = [st.inst EXCEPT !.done = TRUE] /\ events' = st.events /\ setup' = setup
  BY DEF InstanceFails, Split, Terminated
<1>3. rec' = [phase |-> rec'.phase, term |-> rec'.term, since |-> rec'.since]
  <2>1. \/ rec' = rec \/ rec' = [rec EXCEPT !.phase = "paused", !.since = clock]
        \/ rec' = [rec EXCEPT !.phase = "done"]
    BY DEF InstanceFails, Split, Terminated
  <2>. QED
    BY <1>0, <2>1
<1>4. \A g \in disk' : \E f \in st.disk : g = f \/ g = [f EXCEPT !.renamed = TRUE]
  <2>1. disk' = st.disk \/ \E before, after : disk' = Renamed(st.disk, before, after)
    BY DEF InstanceFails, Split, Terminated
  <2>. HIDE DEF st
  <2>2. ASSUME NEW before, NEW after, NEW g \in Renamed(st.disk, before, after)
        PROVE  \E f \in st.disk : g = f \/ g = [f EXCEPT !.renamed = TRUE]
    BY DEF Renamed
  <2>. QED
    BY <2>1, <2>2
<1>. HIDE DEF st
<1>5. Fine(st.inst, disk', st.events)
  <2>1. ASSUME NEW v, NEW f \in st.disk, NEW g, g = f \/ g = [f EXCEPT !.renamed = v]
        PROVE  IsFile(g) /\ f.stream = g.stream /\ f.num = g.num /\ f.header = g.header
    <3>1. IsFile(f)
      BY <1>1 DEF Fine
    <3>. QED
      BY <2>1, <3>1 DEF IsFile
  <2>2. ASSUME NEW g \in disk'
        PROVE  \E f \in st.disk : IsFile(g) /\ f.stream = g.stream /\ f.num = g.num /\ f.header = g.header
    <3>1. PICK f \in st.disk : g = f \/ g = [f EXCEPT !.renamed = TRUE]
      BY <1>4
    <3>. QED
      BY <2>1, <3>1
  <2>. QED
    BY <1>1, <2>2, FilesAreFine
<1>. QED
  BY <1>2, <1>3, <1>5, ClosedIsRecorded DEF st

(* The pause is over: no event has the identifier of the next instance.    *)
LEMMA RestartIsRecorded == ASSUME Recorded, Restart PROVE Recorded'
<1>1. inst.done /\ ~IsOpen(inst) /\ inst.id \in Nat /\ Fine(inst, disk, events)
  BY DEF Recorded, Restart, Fine, InstanceShape
<1>2. inst' = NewInstance(inst.id + 1) /\ disk' = disk /\ events' = events /\ setup' = setup
      /\ rec' = [rec EXCEPT !.phase = "up"]
  BY DEF Restart
<1>3. InstanceShape(inst') /\ inst'.seg = NoSegment /\ inst'.id = inst.id + 1 /\ inst'.number = 0
  BY <1>1, <1>2 DEF NewInstance, InstanceShape
<1>4. rec'.phase = "up" /\ rec' = [phase |-> rec'.phase, term |-> rec'.term, since |-> rec'.since]
  BY <1>2 DEF Recorded
<1>5. Unused(events, inst')
  <2>1. \A k \in DOMAIN events : events[k].kind # "crash" => events[k].file.stream \in Nat
    BY <1>1 DEF Fine, Event
  <2>. QED
    BY <1>1, <1>3, <2>1 DEF Fine, Unused
<1>6. \A f \in disk : Accounted(setup.fmt, events, inst', f)
  BY <1>1 DEF Fine, Accounted
<1>7. ReportedSoFar(events, inst') /\ ~IsOpen(inst')
  BY <1>3 DEF ReportedSoFar, IsOpen
<1>8. Fine(inst', disk', events')
  BY <1>1, <1>2, <1>3, <1>5, <1>6, <1>7 DEF Fine
<1>. QED
  BY <1>2, <1>4, <1>7, <1>8 DEF Recorded, Fine

(* A crash: the segment that was open is cut short.                        *)
LEMMA CrashIsRecorded == ASSUME Recorded, NEW io, Crash(io) PROVE Recorded'
<1>. DEFINE e == [kind |-> "crash"]
            i == [inst EXCEPT !.done = TRUE]
            j == [i EXCEPT !.seg = NoSegment]
<1>1. /\ inst' = j /\ setup' = setup
      /\ \E w, c, n : rec' = [rec EXCEPT !.phase = w, !.since = c, !.term = n]
  BY DEF Crash
<1>0. PICK k, ev : /\ Fine(k, disk', ev) /\ k.id = inst.id /\ k.number = inst.number
                   /\ events' = Append(ev, e)
  <2>1. CASE disk' = disk /\ events' = Append(events, e)
    BY <2>1 DEF Recorded
  <2>2. CASE ~(disk' = disk /\ events' = Append(events, e))
    <3>. DEFINE st == CloseCurPart(Now(inst), io)
    <3>1. disk' = st.disk /\ events' = Append(st.events, e) /\ inst.seg # NoSegment /\ ~inst.done
      BY <2>2 DEF Crash
    <3>2. Now(inst).inst = inst
      BY DEF Now
    <3>3. GoodSegment(setup.fmt, Now(inst))
      BY <3>1, <3>2, NowIsGood DEF Recorded, GoodSegment
    <3>4. GoodSegment(setup.fmt, st) /\ st.inst.id = inst.id /\ st.inst.number = inst.number
      BY <3>2, <3>3, CloseCurPartIsGood
    <3>. HIDE DEF st
    <3>5. Fine(st.inst, st.disk, st.events)
      BY <3>4, GoodIsFine DEF GoodSegment
    <3>. QED
      BY <3>1, <3>4, <3>5
  <2>. QED
    BY <2>1, <2>2
<1>2. ev \in Seq(Event) /\ e \in Event /\ e.kind = "crash" /\ InstanceShape(inst)
  BY <1>0 DEF Recorded, Fine, Event
<1>. HIDE DEF e
<1>3. rec' = [phase |-> rec'.phase, term |-> rec'.term, since |-> rec'.since]
  BY <1>1 DEF Recorded
<1>4. ASSUME NEW v, NEW a, a = [[inst EXCEPT !.done = v] EXCEPT !.seg = NoSegment]
      PROVE  InstanceShape(a) /\ a.seg = NoSegment /\ a.id = inst.id /\ a.number = inst.number /\ a.done = v
  <2>1. inst = [id |-> inst.id, done |-> inst.done, failed |-> inst.failed, skip |-> inst.skip, hasVideo |-> inst.hasVideo,
                number |-> inst.number, seg |-> inst.seg, next |-> inst.next, started |-> inst.started, keyed |-> inst.keyed]
    BY <1>2 DEF InstanceShape
  <2>2. a = [id |-> inst.id, done |-> v, failed |-> inst.failed, skip |-> inst.skip, hasVideo |-> inst.hasVideo,
             number |-> inst.number, seg |-> NoSegment, next |-> inst.next, started |-> inst.started, keyed |-> inst.keyed]
    BY <1>4, <2>1
  <2>3. /\ a = [id |-> a.id, done |-> a.done, failed |-> a.failed, skip |-> a.skip, hasVideo |-> a.hasVideo,
                number |-> a.number, seg |-> a.seg, next |-> a.next, started |-> a.started, keyed |-> a.keyed]
        /\ a.seg = NoSegment /\ a.id = inst.id /\ a.number = inst.number /\ a.done = v
    BY <2>2
  <2>. QED
    BY <1>2, <2>3 DEF InstanceShape
<1>5. InstanceShape(inst') /\ inst'.seg = NoSegment /\ inst'.id = inst.id /\ inst'.number = inst.number /\ inst'.done
  BY <1>1, <1>4
<1>. HIDE DEF i, j
<1>6. events' \in Seq(Event) /\ CompleteOnce(events')
  BY <1>0, <1>2, OneMoreEvent, NotComplete DEF Fine
<1>7. Unused(events', inst')
  BY <1>0, <1>2, <1>5, StillUnused DEF Fine
<1>8. ReportedSoFar(events', inst') /\ ~IsOpen(inst')
  BY <1>5 DEF ReportedSoFar, IsOpen
<1>9. ASSUME NEW file, Told(ev, "create", file) PROVE CutShort(events', file)
  <2>1. /\ DOMAIN events' = 1..(Len(ev) + 1) /\ DOMAIN ev = 1..Len(ev)
        /\ Len(ev) \in Nat /\ events'[Len(ev) + 1] = e
        /\ \A n \in DOMAIN ev : n \in DOMAIN events' /\ events'[n] = ev[n]
    BY <1>0, <1>2, OneMoreEvent
  <2>2. PICK n \in DOMAIN ev : ev[n].kind = "create" /\ ev[n].file = file
    BY <1>9 DEF Told
  <2>3. /\ Len(ev) + 1 \in DOMAIN events' /\ n \in DOMAIN events' /\ n < Len(ev) + 1
        /\ events'[n].kind = "create" /\ events'[n].file = file /\ events'[Len(ev) + 1].kind = "crash"
    BY <1>2, <2>1, <2>2
  <2>. QED
    BY <2>3 DEF CutShort
<1>10. ASSUME NEW f \in disk' PROVE Accounted(setup.fmt, events', inst', f)
  <2>. DEFINE file == [stream |-> f.stream, num |-> f.num]
  <2>1. Accounted(setup.fmt, ev, k, f)
    BY <1>0 DEF Fine
  <2>2. \A kind : Told(ev, kind, file) => Told(events', kind, file)
    BY <1>0, <1>2, ToldStays
  <2>3. CutShort(ev, file) => CutShort(events', file)
    BY <1>0, <1>2, ToldStays
  <2>4. IsOpen(k) /\ file = FileOf(k) => CutShort(events', file)
    BY <1>0, <1>9 DEF Fine, ReportedSoFar, IsOpen
  <2>. QED
    BY <2>1, <2>2, <2>3, <2>4 DEF Accounted
<1>11. \A f \in disk' : IsFile(f)
  BY <1>0 DEF Fine
<1>12. Fine(inst', disk', events')
  BY <1>1, <1>5, <1>6, <1>7, <1>8, <1>10, <1>11 DEF Fine
<1>. QED
  BY <1>1, <1>3, <1>5, <1>8, <1>12 DEF Recorded, Fine

(* The cleaner removes files.                                              *)
LEMMA CleanerIsRecorded == ASSUME Recorded, CleanerNext PROVE Recorded'
<1>1. disk' \subseteq disk /\ inst' = inst /\ events' = events /\ rec' = rec /\ setup' = setup
  BY DEF CleanerNext, CleanerStarts, CleanerRemoves, CleanerReclaims, ReloadPathConfs, recVars
<1>2. Fine(inst, disk', events)
  BY <1>1 DEF Recorded, Fine
<1>. QED
  BY <1>1, <1>2 DEF Recorded, Fine

(* Every step keeps it.                                                    *)
LEMMA StepIsRecorded == ASSUME Recorded, [Next]_vars PROVE Recorded'
<1>1. CASE inst' = inst /\ disk' = disk /\ events' = events /\ setup' = setup /\ rec' = rec
  BY <1>1 DEF Recorded, Fine
<1>2. CASE RecorderNext
  <2>1. CASE Tick \/ SourceClockJumps \/ SplitRefused \/ \E name \in BOOLEAN : SplitSegment(name)
    BY <1>1, <2>1 DEF Tick, SourceClockJumps, SplitRefused, SplitSegment
  <2>2. CASE InstanceEnded \/ Close
    <3>1. /\ inst' = inst /\ disk' = disk /\ events' = events /\ setup' = setup
          /\ \/ inst.done /\ \E w, c : rec' = [rec EXCEPT !.phase = w, !.since = c]
             \/ \E n : rec' = [rec EXCEPT !.term = n]
      BY <2>2 DEF InstanceEnded, Close
    <3>2. rec' = [phase |-> rec'.phase, term |-> rec'.term, since |-> rec'.since]
          /\ (rec'.phase = rec.phase \/ inst.done)
      BY <3>1 DEF Recorded
    <3>. QED
      BY <3>1, <3>2 DEF Recorded, Fine
  <2>. QED
    BY <1>2, <2>1, <2>2, UnitIsRecorded, InstanceIsClosed, RestartIsRecorded, CrashIsRecorded
    DEF RecorderNext, RecorderSteps
<1>3. \/ RecorderNext \/ CleanerNext
      \/ inst' = inst /\ disk' = disk /\ events' = events /\ setup' = setup /\ rec' = rec
  BY DEF Next, RecordScene, ArchiveScene, ForwardScene, vars, recVars
<1>. QED
  BY <1>1, <1>2, <1>3, CleanerIsRecorded

(* It says what is reported.                                               *)
LEMMA RecordedIsReported == ASSUME Recorded PROVE SegmentsAreReported
<1>1. ASSUME NEW k \in DOMAIN events, events[k].kind = "complete"
      PROVE  /\ EventsOf("complete", events[k].file) = {k}
             /\ \E j \in EventsOf("create", events[k].file) : j < k
  BY <1>1 DEF Recorded, Fine, CompleteOnce, EventsOf
<1>2. ASSUME NEW f \in disk
      PROVE  LET file == [stream |-> f.stream, num |-> f.num]
             IN  \/ EventsOf("complete", file) # {}
                 \/ Open(f) /\ inst.seg.fi = "open" /\ rec.phase = "up"
                 \/ setup.fmt = "fmp4" /\ ~f.header
                 \/ EventsOf("unclosed", file) # {}
                 \/ \E c \in Crashes, j \in EventsOf("create", file) : j < c
  <2>. DEFINE file == [stream |-> f.stream, num |-> f.num]
  <2>1. Accounted(setup.fmt, events, inst, f)
    BY DEF Recorded, Fine
  <2>2. \A kind : Told(events, kind, file) => EventsOf(kind, file) # {}
    BY DEF Told, EventsOf
  <2>3. CutShort(events, file) => \E c \in Crashes, j \in EventsOf("create", file) : j < c
    BY DEF CutShort, EventsOf, Crashes
  <2>4. IsOpen(inst) /\ file = FileOf(inst) => Open(f) /\ inst.seg.fi = "open" /\ rec.phase = "up"
    BY DEF Recorded, IsOpen, FileOf, Open
  <2>. QED
    BY <2>1, <2>2, <2>3, <2>4 DEF Accounted
<1>3. rec.phase # "up" => inst.done /\ (inst.seg # NoSegment => inst.seg.fi # "open")
  BY DEF Recorded, IsOpen
<1>. QED
  BY <1>1, <1>2, <1>3 DEF SegmentsAreReported

(* Whoever is told of a segment is told once that it is complete, after it *)
(* was created; only a crash, a header that could not be written or a      *)
(* close that failed leaves one that nobody is told of: for any tracks,    *)
(* durations, units, errors of the disk, splits, crashes and removals, in  *)
(* both formats (recorder.go, recorder_instance.go,                        *)
(* format_fmp4_segment.go, format_mpegts_segment.go).                      *)
THEOREM SegmentsAreReportedHolds == Spec => []SegmentsAreReported
<1>1. Init => Recorded
  BY RecordedAtFirst DEF Init
<1>2. Recorded /\ [Next]_vars => Recorded'
  BY StepIsRecorded
<1>3. Recorded => SegmentsAreReported
  BY RecordedIsReported
<1>. QED
  BY <1>1, <1>2, <1>3, PTL DEF Spec

-----------------------------------------------------------------------------
(***************************************************************************)
(* The open segment.  What a step of the recorder does to the times of its *)
(* segment and to the names of the files.                                  *)
(***************************************************************************)
(* A file that is open has the name of its segment.                        *)
OnDisk(st) ==
    st.inst.seg.fi = "open" =>
        \E f \in st.disk : [stream |-> f.stream, num |-> f.num] = FileOf(st.inst) /\ f.name = Encode(st.inst.seg.ntp)

(* Every file has its name from one that was there, or from the time ntp.  *)
Names(st, after, ntp) ==
    \A g \in after.disk : g.name = Encode(ntp) \/ \E f \in st.disk : f.name = g.name

(* A step that stays within the segment.                                   *)
Within(st, after) ==
    /\ after.inst.next = st.inst.next /\ after.inst.hasVideo = st.inst.hasVideo /\ after.inst.id = st.inst.id
    /\ after.inst.seg.num = st.inst.seg.num /\ after.inst.seg.dts = st.inst.seg.dts
    /\ after.inst.seg.ntp = st.inst.seg.ntp
    /\ Names(st, after, st.inst.seg.ntp)
    /\ OnDisk(st) => OnDisk(after)

(* Such steps one after the other.                                         *)
LEMMA WithinWithin ==
    ASSUME NEW a, NEW b, NEW c, Within(a, b), Within(b, c)
    PROVE  Within(a, c)
<1>1. Names(a, c, a.inst.seg.ntp)
  BY DEF Within, Names
<1>. QED
  BY <1>1 DEF Within

(* Only an error is new.                                                   *)
LEMMA FailedWithin ==
    ASSUME NEW st, IsState(st)
    PROVE  Within(st, Failed(st)) /\ Within(st, st) /\ \A e : Within(st, [st EXCEPT !.err = e])
<1>1. ASSUME NEW e PROVE Within(st, [st EXCEPT !.err = e])
  <2>1. [st EXCEPT !.err = e] = [inst |-> st.inst, disk |-> st.disk, events |-> st.events, err |-> e]
    BY DEF IsState
  <2>. DEFINE after == [st EXCEPT !.err = e]
  <2>2. after.inst = st.inst /\ after.disk = st.disk
    BY <2>1
  <2>. HIDE DEF after
  <2>3. Within(st, after)
    BY <2>2 DEF Within, Names, OnDisk
  <2>. QED
    BY <2>3 DEF after
<1>2. Within(st, st)
  BY DEF Within, Names
<1>. QED
  BY <1>1, <1>2 DEF Failed

(* The segment is replaced by one of the same number and times.            *)
LEMMA SegmentWithin ==
    ASSUME NEW st, IsState(st), st.inst.seg # NoSegment, NEW s,
           s.num = st.inst.seg.num, s.dts = st.inst.seg.dts, s.ntp = st.inst.seg.ntp,
           s.fi = "open" => st.inst.seg.fi = "open"
    PROVE  Within(st, [st EXCEPT !.inst.seg = s])
<1>. DEFINE after == [st EXCEPT !.inst.seg = s]
<1>1. after = [inst |-> [st.inst EXCEPT !.seg = s], disk |-> st.disk, events |-> st.events, err |-> st.err]
  BY DEF IsState
<1>2. /\ after.inst.seg = s /\ after.inst.id = st.inst.id /\ after.disk = st.disk
      /\ after.inst.next = st.inst.next /\ after.inst.hasVideo = st.inst.hasVideo
  BY <1>1 DEF IsState, IsInstance, InstanceShape
<1>. HIDE DEF after
<1>3. OnDisk(st) => OnDisk(after)
  BY <1>2 DEF OnDisk, FileOf
<1>4. Within(st, after)
  BY <1>2, <1>3 DEF Within, Names
<1>. QED
  BY <1>4 DEF after

(* Some other field of the segment is written.                             *)
LEMMA FieldsWithin ==
    ASSUME NEW st, GoodSegment(setup.fmt, st), NEW v
    PROVE  /\ Within(st, [st EXCEPT !.inst.seg.cur = v])
           /\ Within(st, [st EXCEPT !.inst.seg.part = v])
           /\ Within(st, [st EXCEPT !.inst.seg.partStart = v])
           /\ Within(st, [st EXCEPT !.inst.seg.partEnd = v])
           /\ Within(st, [st EXCEPT !.inst.seg.end = v])
           /\ Within(st, [st EXCEPT !.inst.seg.last = v])
           /\ Within(st, [st EXCEPT !.inst.seg.flushed = v])
<1>. DEFINE r == st.inst.seg
            Same(s) == s.num = r.num /\ s.dts = r.dts /\ s.ntp = r.ntp /\ s.fi = r.fi
<1>1. IsState(st) /\ r # NoSegment /\ IsSegmentRecord(r)
  BY DEF GoodSegment, Good, IsState, IsInstance, InstanceShape
<1>2. ASSUME NEW s, Same(s) PROVE Within(st, [st EXCEPT !.inst.seg = s])
  BY <1>1, <1>2, SegmentWithin
<1>3. Same([r EXCEPT !.part = v]) /\ Same([r EXCEPT !.partStart = v])
  BY <1>1 DEF IsSegmentRecord
<1>4. Same([r EXCEPT !.partEnd = v]) /\ Same([r EXCEPT !.end = v])
  BY <1>1 DEF IsSegmentRecord
<1>5. Same([r EXCEPT !.last = v]) /\ Same([r EXCEPT !.flushed = v]) /\ Same([r EXCEPT !.cur = v])
  BY <1>1 DEF IsSegmentRecord
<1>6. /\ [st EXCEPT !.inst.seg.cur = v] = [st EXCEPT !.inst.seg = [r EXCEPT !.cur = v]]
      /\ [st EXCEPT !.inst.seg.part = v] = [st EXCEPT !.inst.seg = [r EXCEPT !.part = v]]
      /\ [st EXCEPT !.inst.seg.partStart = v] = [st EXCEPT !.inst.seg = [r EXCEPT !.partStart = v]]
      /\ [st EXCEPT !.inst.seg.partEnd = v] = [st EXCEPT !.inst.seg = [r EXCEPT !.partEnd = v]]
      /\ [st EXCEPT !.inst.seg.end = v] = [st EXCEPT !.inst.seg = [r EXCEPT !.end = v]]
      /\ [st EXCEPT !.inst.seg.last = v] = [st EXCEPT !.inst.seg = [r EXCEPT !.last = v]]
      /\ [st EXCEPT !.inst.seg.flushed = v] = [st EXCEPT !.inst.seg = [r EXCEPT !.flushed = v]]
  OBVIOUS
<1>. HIDE DEF Same
<1>7. /\ Within(st, [st EXCEPT !.inst.seg = [r EXCEPT !.cur = v]])
      /\ Within(st, [st EXCEPT !.inst.seg = [r EXCEPT !.part = v]])
      /\ Within(st, [st EXCEPT !.inst.seg = [r EXCEPT !.partStart = v]])
      /\ Within(st, [st EXCEPT !.inst.seg = [r EXCEPT !.partEnd = v]])
      /\ Within(st, [st EXCEPT !.inst.seg = [r EXCEPT !.end = v]])
      /\ Within(st, [st EXCEPT !.inst.seg = [r EXCEPT !.last = v]])
      /\ Within(st, [st EXCEPT !.inst.seg = [r EXCEPT !.flushed = v]])
  BY <1>2, <1>3, <1>4, <1>5
<1>. QED
  BY <1>6, <1>7

(* os.Create: a file that is open is there.                                *)
LEMMA CreatedWithin ==
    ASSUME NEW st, NEW io, GoodSegment(setup.fmt, st), st.inst.seg.fi = "none"
    PROVE  Within(st, Created(st, io))
<1>. DEFINE i == st.inst
            header == setup.fmt = "fmp4" /\ io # "init"
            fails == io = "init" /\ setup.fmt = "fmp4"
            new == NewFile(i, header)
            s == [i.seg EXCEPT !.fi = IF fails THEN @ ELSE "open"]
            after == Created(st, io)
<1>0. IsState(st) /\ IsInstance(i) /\ IsSegmentRecord(i.seg)
  BY DEF GoodSegment, Good, IsState, IsInstance, InstanceShape
<1>1. CASE io = "create"
  BY <1>0, <1>1, FailedWithin DEF Created
<1>2. CASE io # "create"
  <2>1. after = [inst |-> [i EXCEPT !.seg = s], disk |-> Overwritten(st.disk, new),
                 events |-> Append(st.events, [kind |-> "create", file |-> FileOf([i EXCEPT !.seg = s])]),
                 err |-> fails]
    BY <1>0, <1>2 DEF Created, Tell, IsState, IsInstance, InstanceShape
  <2>2. s.num = i.seg.num /\ s.dts = i.seg.dts /\ s.ntp = i.seg.ntp
    BY <1>0 DEF IsSegmentRecord
  <2>. HIDE DEF after, s, header, fails
  <2>3. after.inst = [i EXCEPT !.seg = s] /\ after.disk = Overwritten(st.disk, new)
    BY <2>1
  <2>4. /\ after.inst.seg = s /\ after.inst.id = i.id
        /\ after.inst.next = i.next /\ after.inst.hasVideo = i.hasVideo
    BY <1>0, <2>3 DEF IsInstance, InstanceShape
  <2>5. FileOf(after.inst) = FileOf(i)
    BY <2>2, <2>4 DEF FileOf
  <2>6. new \in after.disk /\ [stream |-> new.stream, num |-> new.num] = FileOf(i) /\ new.name = Encode(i.seg.ntp)
    BY <2>3 DEF Overwritten, NewFile, FileOf
  <2>7. \A g \in after.disk : g \in st.disk \/ g = new
    BY <2>3 DEF Overwritten
  <2>8. Names(st, after, i.seg.ntp)
    BY <2>6, <2>7 DEF Names
  <2>9. OnDisk(after)
    BY <2>2, <2>4, <2>5, <2>6 DEF OnDisk
  <2>10. Within(st, after)
    BY <2>2, <2>4, <2>8, <2>9 DEF Within
  <2>. QED
    BY <2>10 DEF after
<1>. QED
  BY <1>1, <1>2

(* A file changes, but not its name.                                       *)
LEMMA FileWithin ==
    ASSUME NEW st, IsState(st), NEW D,
           \A g \in D : \E f \in st.disk : f.name = g.name,
           \A f \in st.disk : \E g \in D : f.name = g.name /\ f.stream = g.stream /\ f.num = g.num
    PROVE  Within(st, [st EXCEPT !.disk = D])
<1>. DEFINE after == [st EXCEPT !.disk = D]
<1>1. after = [inst |-> st.inst, disk |-> D, events |-> st.events, err |-> st.err]
  BY DiskReplaced
<1>2. after.inst = st.inst /\ after.disk = D
  BY <1>1
<1>. HIDE DEF after
<1>3. ASSUME OnDisk(st), after.inst.seg.fi = "open"
      PROVE  \E g \in D : [stream |-> g.stream, num |-> g.num] = FileOf(st.inst) /\ g.name = Encode(st.inst.seg.ntp)
  <2>1. PICK f \in st.disk : [stream |-> f.stream, num |-> f.num] = FileOf(st.inst) /\ f.name = Encode(st.inst.seg.ntp)
    BY <1>2, <1>3 DEF OnDisk
  <2>2. PICK g \in D : f.name = g.name /\ f.stream = g.stream /\ f.num = g.num
    OBVIOUS
  <2>. QED
    BY <2>1, <2>2
<1>4. OnDisk(st) => OnDisk(after)
  BY <1>2, <1>3 DEF OnDisk
<1>5. Within(st, after)
  BY <1>2, <1>4 DEF Within, Names
<1>. QED
  BY <1>5 DEF after

(* A part is written to the file.                                          *)
LEMMA PartWithin ==
    ASSUME NEW st, IsState(st), NEW p, NEW io
    PROVE  Within(st, WithPart(st, p, io))
<1>. DEFINE Own(f) == [stream |-> f.stream, num |-> f.num] = FileOf(st.inst)
            Put(f) == [f EXCEPT !.parts = IF io = "moof" THEN @ ELSE Append(@, p),
                                !.torn = IF io \in Torn THEN io ELSE @]
            A(f) == IF Own(f) THEN Put(f) ELSE f
            D == {A(f) : f \in st.disk}
            Alike(g, f) == g.name = f.name /\ g.stream = f.stream /\ g.num = f.num
<1>1. ASSUME NEW f \in st.disk PROVE Alike(A(f), f)
  <2>1. IsFile(f)
    BY DEF IsState
  <2>2. Alike(Put(f), f) /\ Alike(f, f)
    BY <2>1 DEF IsFile
  <2>. HIDE DEF Alike, Own, Put
  <2>. QED
    BY <2>2
<1>2. WithPart(st, p, io) = [st EXCEPT !.disk = D]
  BY DEF OnFile, WithPart
<1>. HIDE DEF A, Alike, Put
<1>3. /\ \A g \in D : \E f \in st.disk : Alike(g, f)
      /\ \A f \in st.disk : \E g \in D : Alike(g, f)
  BY <1>1
<1>. HIDE DEF D
<1>4. Within(st, [st EXCEPT !.disk = D])
  BY <1>3, FileWithin DEF Alike
<1>. QED
  BY <1>2, <1>4

(* So is the duration.                                                     *)
LEMMA DurationWithin ==
    ASSUME NEW st, IsState(st), NEW p, NEW io
    PROVE  Within(st, WithDuration(st, p, io))
<1>. DEFINE Own(f) == [stream |-> f.stream, num |-> f.num] = FileOf(st.inst)
            Put(f) == [f EXCEPT !.duration = IF io = "duration" THEN @ ELSE p]
            A(f) == IF Own(f) THEN Put(f) ELSE f
            D == {A(f) : f \in st.disk}
            Alike(g, f) == g.name = f.name /\ g.stream = f.stream /\ g.num = f.num
<1>1. ASSUME NEW f \in st.disk PROVE Alike(A(f), f)
  <2>1. IsFile(f)
    BY DEF IsState
  <2>2. Alike(Put(f), f) /\ Alike(f, f)
    BY <2>1 DEF IsFile
  <2>. HIDE DEF Alike, Own, Put
  <2>. QED
    BY <2>2
<1>2. WithDuration(st, p, io) = [st EXCEPT !.disk = D]
  BY DEF OnFile, WithDuration
<1>. HIDE DEF A, Alike, Put
<1>3. /\ \A g \in D : \E f \in st.disk : Alike(g, f)
      /\ \A f \in st.disk : \E g \in D : Alike(g, f)
  BY <1>1
<1>. HIDE DEF D
<1>4. Within(st, [st EXCEPT !.disk = D])
  BY <1>3, FileWithin DEF Alike
<1>. QED
  BY <1>2, <1>4

(* closeCurPart.                                                           *)
LEMMA CloseCurPartWithin ==
    ASSUME NEW st, NEW io, GoodSegment(setup.fmt, st)
    PROVE  Within(st, CloseCurPart(st, io))
<1>. DEFINE mid == IF st.inst.seg.fi = "none" THEN Created(st, io) ELSE st
            written == PartToFile(mid, io)
<1>1. GoodSegment(setup.fmt, mid)
  BY CreatedIsGood
<1>2. Within(st, mid)
  BY CreatedWithin, FailedWithin DEF GoodSegment, Good
<1>. HIDE DEF mid
<1>3. IsState(mid)
  BY <1>1 DEF GoodSegment, Good
<1>4. Within(mid, written) /\ GoodSegment(setup.fmt, written)
  <2>1. CASE written = Failed(mid)
    BY <1>1, <1>3, <2>1, FailedWithin, FailedIsLike, LikeIsGood DEF GoodSegment
  <2>2. CASE written # Failed(mid)
    <3>. DEFINE x == [mid EXCEPT !.err = io \in Torn]
                p == mid.inst.seg.part
    <3>1. written = WithPart(x, p, io)
      BY <2>2 DEF PartToFile, WithPart
    <3>2. Within(mid, x) /\ Like(mid, x)
      BY <1>3, FailedWithin, FailedIsLike
    <3>. HIDE DEF x, p, written
    <3>3. GoodSegment(setup.fmt, x)
      BY <1>1, <3>2, LikeIsGood DEF GoodSegment
    <3>4. IsState(x)
      BY <3>3 DEF GoodSegment, Good
    <3>5. Within(x, written) /\ Like(x, written)
      BY <3>1, <3>4, PartWithin, PartIsLike
    <3>6. GoodSegment(setup.fmt, written)
      BY <3>3, <3>5, LikeIsGood DEF GoodSegment
    <3>. QED
      BY <3>2, <3>5, <3>6, WithinWithin
  <2>. QED
    BY <2>1, <2>2
<1>. HIDE DEF written
<1>5. Within(written, BufferLost(written))
  <2>. DEFINE a == [written EXCEPT !.inst.seg.cur = FALSE]
              b == [a EXCEPT !.inst.seg.part = <<>>]
  <2>1. BufferLost(written) = written \/ BufferLost(written) = b
    BY DEF BufferLost
  <2>2. GoodSegment(setup.fmt, a) /\ Within(written, a) /\ Within(written, written)
    BY <1>4, FieldsAreLike, FieldsWithin, FailedWithin DEF GoodSegment, Good
  <2>. HIDE DEF a
  <2>3. Within(a, b)
    BY <2>2, FieldsWithin
  <2>. QED
    BY <2>1, <2>2, <2>3, WithinWithin
<1>6. Within(st, BufferLost(written))
  BY <1>2, <1>4, <1>5, WithinWithin
<1>. QED
  BY <1>6 DEF CloseCurPart, mid, written

(* The file is closed.                                                     *)
LEMMA FileClosedWithin ==
    ASSUME NEW st, NEW io, GoodSegment(setup.fmt, st)
    PROVE  Within(st, FileClosed(st, io))
<1>. DEFINE i == st.inst
            failed == io = "close" \/ (io = "duration" /\ setup.fmt = "fmp4")
            kind == IF io = "close" THEN "unclosed" ELSE "complete"
            s == [i.seg EXCEPT !.fi = "closed"]
            first == [st EXCEPT !.inst.seg = s]
            base == [first EXCEPT !.err = st.err \/ failed]
            e == [kind |-> kind, file |-> FileOf(base.inst)]
            mid == Tell(base, kind)
<1>0. IsState(st) /\ IsInstance(i) /\ IsSegmentRecord(i.seg)
  BY DEF GoodSegment, Good, IsState, IsInstance, InstanceShape
<1>1. CASE i.seg.fi # "open"
  <2>1. PICK x : FileClosed(st, io) = [st EXCEPT !.err = x]
    BY <1>1 DEF FileClosed
  <2>. QED
    BY <1>0, <2>1, FailedWithin
<1>2. CASE i.seg.fi = "open"
  <2>1. s.num = i.seg.num /\ s.dts = i.seg.dts /\ s.ntp = i.seg.ntp /\ s.fi = "closed" /\ IsSegmentRecord(s)
    BY <1>0 DEF IsSegmentRecord
  <2>2. Within(st, first)
    BY <1>0, <2>1, SegmentWithin DEF GoodSegment
  <2>3. first = [inst |-> [i EXCEPT !.seg = s], disk |-> st.disk, events |-> st.events, err |-> st.err]
    BY <1>0 DEF IsState
  <2>4. FileClosed(st, io) = WithDuration(mid, DurationWritten(st.inst.seg), io)
    <3>1. [st EXCEPT !.inst.seg.fi = "closed", !.err = st.err \/ failed] = base
      OBVIOUS
    <3>. QED
      BY <1>2, <3>1 DEF FileClosed, WithDuration
  <2>. HIDE DEF first, s, failed
  <2>5. base = [inst |-> [i EXCEPT !.seg = s], disk |-> st.disk, events |-> st.events, err |-> st.err \/ failed]
    BY <2>3
  <2>. HIDE DEF base, kind
  <2>6. /\ base.inst = [i EXCEPT !.seg = s] /\ base.disk = st.disk /\ base.events = st.events
        /\ first.inst = base.inst /\ first.disk = base.disk
    BY <2>3, <2>5
  <2>7. base.inst.id = i.id /\ base.inst.seg = s
    BY <1>0, <2>6 DEF IsInstance, InstanceShape
  <2>8. IsInstance(base.inst)
    BY <1>0, <2>1, <2>6, <2>7 DEF IsInstance, InstanceShape, GoodSegment
  <2>9. e \in Event
    BY <1>0, <2>1, <2>7 DEF Event, FileOf, IsInstance, InstanceShape, IsSegmentRecord, kind
  <2>10. mid = [inst |-> base.inst, disk |-> base.disk, events |-> Append(base.events, e), err |-> base.err]
    <3>1. mid = [base EXCEPT !.events = Append(base.events, e)]
      BY DEF Tell
    <3>. HIDE DEF e, mid
    <3>. QED
      BY <2>5, <3>1
  <2>. HIDE DEF e, mid
  <2>11. mid.inst = base.inst /\ mid.disk = base.disk
    BY <2>10
  <2>12. IsState(mid)
    BY <1>0, <2>6, <2>8, <2>9, <2>10, <2>11, OneMoreEvent DEF IsState
  <2>13. Within(first, mid)
    BY <2>6, <2>11 DEF Within, Names, OnDisk
  <2>14. Within(mid, FileClosed(st, io))
    BY <2>4, <2>12, DurationWithin
  <2>. QED
    BY <2>2, <2>13, <2>14, WithinWithin
<1>. QED
  BY <1>1, <1>2

(* close of a segment.                                                     *)
LEMMA CloseSegmentWithin ==
    ASSUME NEW st, NEW io, GoodSegment(setup.fmt, st)
    PROVE  Within(st, CloseSegment(st, io))
<1>. DEFINE mid == IF st.inst.seg.cur THEN CloseCurPart(st, io) ELSE st
<1>1. GoodSegment(setup.fmt, mid)
  BY CloseCurPartIsGood
<1>2. Within(st, mid)
  BY CloseCurPartWithin, FailedWithin DEF GoodSegment, Good
<1>. HIDE DEF mid
<1>3. Within(st, FileClosed(mid, io))
  BY <1>1, <1>2, FileClosedWithin, WithinWithin
<1>. QED
  BY <1>3 DEF CloseSegment, mid

(* A part that is long enough is closed.                                   *)
LEMMA PartForWithin ==
    ASSUME NEW st, NEW x, NEW io, GoodSegment(setup.fmt, st)
    PROVE  Within(st, PartFor(st, x, io))
<1>. DEFINE fresh(y) == [y EXCEPT !.inst.seg.cur = ~y.err, !.inst.seg.part = <<>>,
                                  !.inst.seg.partStart = x.dts, !.inst.seg.partEnd = 0]
<1>1. ASSUME NEW y, GoodSegment(setup.fmt, y) PROVE Within(y, fresh(y))
  <2>. DEFINE v == ~y.err
              o == [y EXCEPT !.inst.seg.cur = v]
              a == [o EXCEPT !.inst.seg.part = <<>>]
              b == [a EXCEPT !.inst.seg.partStart = x.dts]
              c == [b EXCEPT !.inst.seg.partEnd = 0]
  <2>1. fresh(y) = c
    OBVIOUS
  <2>. HIDE DEF v
  <2>6. Within(y, o) /\ GoodSegment(setup.fmt, o)
    BY <1>1, FieldsWithin, FieldsAreLike
  <2>. HIDE DEF o
  <2>7. Within(o, a) /\ GoodSegment(setup.fmt, a)
    BY <2>6, FieldsWithin, FieldsAreLike
  <2>. HIDE DEF a
  <2>2. Within(y, a) /\ GoodSegment(setup.fmt, a)
    BY <2>6, <2>7, WithinWithin
  <2>3. Within(a, b) /\ GoodSegment(setup.fmt, b)
    BY <2>2, FieldsWithin, FieldsAreLike
  <2>. HIDE DEF b
  <2>4. Within(b, c)
    BY <2>3, FieldsWithin
  <2>. HIDE DEF c, fresh
  <2>5. Within(y, c)
    BY <2>2, <2>3, <2>4, WithinWithin
  <2>. QED
    BY <2>1, <2>5
<1>2. Within(st, CloseCurPart(st, io)) /\ GoodSegment(setup.fmt, CloseCurPart(st, io)) /\ Within(st, st)
  BY CloseCurPartWithin, CloseCurPartIsGood, FailedWithin DEF GoodSegment, Good
<1>3. PartFor(st, x, io) \in {fresh(st), fresh(CloseCurPart(st, io)), st}
  BY DEF PartFor
<1>. HIDE DEF fresh
<1>. QED
  BY <1>1, <1>2, <1>3, WithinWithin

(* A sample is added to the part.                                          *)
LEMMA SampleToPartWithin ==
    ASSUME NEW st, NEW x, NEW dur, NEW io, GoodSegment(setup.fmt, st)
    PROVE  Within(st, SampleToPart(st, x, dur, io))
<1>1. CASE st.err \/ io = "size"
  <2>1. SampleToPart(st, x, dur, io) = Failed(st)
    BY <1>1 DEF SampleToPart
  <2>. QED
    BY <2>1, FailedWithin DEF GoodSegment, Good
<1>2. CASE ~(st.err \/ io = "size")
  <2>. DEFINE p == Append(st.inst.seg.part, StoredSample(x, dur, st.inst.seg.dts))
              a == [st EXCEPT !.inst.seg.part = p]
  <2>0. \/ SampleToPart(st, x, dur, io) = [st EXCEPT !.inst.seg.part = p, !.inst.seg.partEnd = Later(st.inst.seg.partEnd, x.dts + dur)]
        \/ SampleToPart(st, x, dur, io) = [st EXCEPT !.inst.seg.part = p, !.inst.seg.partEnd = Later(a.inst.seg.partEnd, x.dts + dur)]
    BY <1>2 DEF SampleToPart
  <2>1. PICK e : SampleToPart(st, x, dur, io) = [st EXCEPT !.inst.seg.part = p, !.inst.seg.partEnd = e]
    BY <2>0
  <2>. HIDE DEF p
  <2>2. SampleToPart(st, x, dur, io) = [a EXCEPT !.inst.seg.partEnd = e]
    BY <2>1
  <2>3. Within(st, a) /\ GoodSegment(setup.fmt, a)
    BY FieldsWithin, FieldsAreLike
  <2>. HIDE DEF a
  <2>4. Within(a, [a EXCEPT !.inst.seg.partEnd = e])
    BY <2>3, FieldsWithin
  <2>. QED
    BY <2>2, <2>3, <2>4, WithinWithin
<1>. QED
  BY <1>1, <1>2

(* write of formatFMP4Segment.                                             *)
LEMMA WriteSampleWithin ==
    ASSUME NEW st, NEW x, NEW dur, NEW io, GoodSegment(setup.fmt, st)
    PROVE  Within(st, WriteSample(st, x, dur, io))
<1>. DEFINE e == Later(st.inst.seg.end, x.dts + dur)
            a == [st EXCEPT !.inst.seg.end = e]
            b == PartFor(a, x, io)
<1>1. WriteSample(st, x, dur, io) = SampleToPart(b, x, dur, io)
  BY DEF WriteSample
<1>. HIDE DEF e
<1>2. GoodSegment(setup.fmt, a) /\ Within(st, a)
  BY FieldsAreLike, FieldsWithin
<1>. HIDE DEF a
<1>3. GoodSegment(setup.fmt, b) /\ Within(a, b)
  BY <1>2, PartForIsGood, PartForWithin
<1>. HIDE DEF b
<1>4. Within(b, SampleToPart(b, x, dur, io))
  BY <1>3, SampleToPartWithin
<1>. QED
  BY <1>1, <1>2, <1>3, <1>4, WithinWithin

(* The buffer of MPEG-TS is flushed.                                       *)
LEMMA FlushWithin ==
    ASSUME NEW st, NEW x, NEW io, GoodSegment(setup.fmt, st)
    PROVE  Within(st, Flush(st, x, io))
<1>. DEFINE y == CloseCurPart(st, io)
            o == [y EXCEPT !.inst.seg.cur = FALSE]
            a == [o EXCEPT !.inst.seg.part = <<>>]
            b == [a EXCEPT !.inst.seg.flushed = x.dts]
<1>1. GoodSegment(setup.fmt, y) /\ Within(st, y) /\ Within(st, st)
  BY CloseCurPartIsGood, CloseCurPartWithin, FailedWithin DEF GoodSegment, Good
<1>. HIDE DEF y
<1>2. [y EXCEPT !.inst.seg.cur = FALSE, !.inst.seg.part = <<>>, !.inst.seg.flushed = x.dts] = b
  OBVIOUS
<1>6. GoodSegment(setup.fmt, o) /\ Within(y, o)
  BY <1>1, FieldsAreLike, FieldsWithin
<1>. HIDE DEF o
<1>7. GoodSegment(setup.fmt, a) /\ Within(o, a)
  BY <1>6, FieldsAreLike, FieldsWithin
<1>. HIDE DEF a
<1>3. GoodSegment(setup.fmt, a) /\ Within(y, a)
  BY <1>6, <1>7, WithinWithin
<1>4. Within(a, b)
  BY <1>3, FieldsWithin
<1>. HIDE DEF b
<1>5. Flush(st, x, io) \in {y, b, st}
  BY <1>2 DEF Flush, y
<1>. QED
  BY <1>1, <1>3, <1>4, <1>5, WithinWithin

(* A step after which the segment starts at the sample s: files have their *)
(* names from those that were there, or from the times.                    *)
StartsAt(st, after, s, times) ==
    /\ after.inst.next = st.inst.next /\ after.inst.hasVideo = st.inst.hasVideo /\ after.inst.id = st.inst.id
    /\ after.inst.seg.num \in Nat /\ after.inst.seg.dts = s.dts /\ after.inst.seg.ntp = s.ntp
    /\ OnDisk(after)
    /\ \A g \in after.disk : (\E f \in st.disk : f.name = g.name) \/ \E ntp \in times : g.name = Encode(ntp)

(* The segment is new.                                                     *)
LEMMA SegmentFromStarts ==
    ASSUME NEW st, NEW s, IsState(st)
    PROVE  StartsAt(st, SegmentFrom(st, s), s, {})
<1>. DEFINE i == st.inst
            r == NewSegment(i.number, s.dts, s.ntp)
            j == [i EXCEPT !.seg = r, !.number = @ + 1]
            after == SegmentFrom(st, s)
<1>1. after = [inst |-> j, disk |-> st.disk, events |-> st.events, err |-> st.err]
  <2>1. \/ after = [st EXCEPT !.inst = j]
        \/ after = [st EXCEPT !.inst = [i EXCEPT !.seg = r, !.number = i.number + 1]]
    BY DEF SegmentFrom
  <2>. QED
    BY <2>1, InstanceReplaced
<1>2. r.num = i.number /\ r.dts = s.dts /\ r.ntp = s.ntp /\ r.fi = "none"
  BY DEF NewSegment
<1>3. i.number \in Nat
  BY DEF IsState, IsInstance, InstanceShape
<1>. HIDE DEF r, after
<1>4. j.seg = r /\ j.next = i.next /\ j.hasVideo = i.hasVideo /\ j.id = i.id
  BY DEF IsState, IsInstance, InstanceShape
<1>. HIDE DEF j
<1>5. after.inst = j /\ after.disk = st.disk
  BY <1>1
<1>6. OnDisk(after)
  BY <1>2, <1>4, <1>5 DEF OnDisk
<1>7. StartsAt(st, after, s, {})
  BY <1>2, <1>3, <1>4, <1>5, <1>6 DEF StartsAt
<1>. QED
  BY <1>7 DEF after

(* What comes after stays within it.                                       *)
LEMMA StartsThenWithin ==
    ASSUME NEW a, NEW b, NEW c, NEW s, NEW times, StartsAt(a, b, s, times), Within(b, c)
    PROVE  StartsAt(a, c, s, times \cup {s.ntp})
<1>1. ASSUME NEW g \in c.disk
      PROVE  (\E f \in a.disk : f.name = g.name) \/ \E ntp \in times \cup {s.ntp} : g.name = Encode(ntp)
  <2>1. g.name = Encode(s.ntp) \/ \E f \in b.disk : f.name = g.name
    BY DEF Within, Names, StartsAt
  <2>. QED
    BY <2>1 DEF StartsAt
<1>. QED
  BY <1>1 DEF Within, StartsAt

(* What comes before was within the segment at hand.                       *)
LEMMA WithinThenStarts ==
    ASSUME NEW a, NEW b, NEW c, NEW s, NEW times, Within(a, b), StartsAt(b, c, s, times)
    PROVE  StartsAt(a, c, s, times \cup {a.inst.seg.ntp})
<1>1. ASSUME NEW g \in c.disk
      PROVE  (\E f \in a.disk : f.name = g.name) \/ \E ntp \in times \cup {a.inst.seg.ntp} : g.name = Encode(ntp)
  <2>1. (\E f \in b.disk : f.name = g.name) \/ \E ntp \in times : g.name = Encode(ntp)
    BY DEF StartsAt
  <2>2. \A f \in b.disk : f.name = Encode(a.inst.seg.ntp) \/ \E h \in a.disk : h.name = f.name
    BY DEF Within, Names
  <2>. QED
    BY <2>1, <2>2
<1>. QED
  BY <1>1 DEF Within, StartsAt

(* One segment after the other.                                            *)
LEMMA StartsThenStarts ==
    ASSUME NEW a, NEW b, NEW c, NEW r, NEW s, NEW before, NEW times,
           StartsAt(a, b, r, before), StartsAt(b, c, s, times)
    PROVE  StartsAt(a, c, s, before \cup times)
<1>1. ASSUME NEW g \in c.disk
      PROVE  (\E f \in a.disk : f.name = g.name) \/ \E ntp \in before \cup times : g.name = Encode(ntp)
  <2>1. (\E f \in b.disk : f.name = g.name) \/ \E ntp \in times : g.name = Encode(ntp)
    BY DEF StartsAt
  <2>2. \A f \in b.disk : (\E h \in a.disk : h.name = f.name) \/ \E ntp \in before : f.name = Encode(ntp)
    BY DEF StartsAt
  <2>. QED
    BY <2>1, <2>2
<1>. QED
  BY <1>1 DEF StartsAt

(* A sample cuts a segment that starts at start.                           *)
CutsAfter(i, start, s) ==
    /\ i.hasVideo => IsVideo(setup.medias[s.t])
    /\ s.key
    /\ s.dts - start >= SegmentDuration

(* CutFMP4, and its outcome.                                               *)
LEMMA CutFMP4Outcome ==
    ASSUME NEW st, NEW x, NEW io, GoodSegment(setup.fmt, st)
    PROVE  LET after == CutFMP4(st, x, io)
               w == NextSegmentStartingPos(st.inst.next)
           IN  \/ Within(st, after) /\ (after.err \/ ~CutsAfter(st.inst, st.inst.seg.dts, x))
               \/ /\ CutsAfter(st.inst, st.inst.seg.dts, x)
                  /\ StartsAt(st, after, w, {st.inst.seg.ntp})
<1>. DEFINE closed == CloseSegment(st, io)
            after == CutFMP4(st, x, io)
<1>1. CASE st.err \/ ~CanCut(st.inst, x)
  <2>1. after = st
    BY <1>1 DEF CutFMP4
  <2>2. Within(st, st)
    BY FailedWithin DEF GoodSegment, Good
  <2>3. after.err \/ ~CutsAfter(st.inst, st.inst.seg.dts, x)
    BY <1>1, <2>1 DEF CanCut, CutsAfter
  <2>. QED
    BY <2>1, <2>2, <2>3
<1>2. CASE ~(st.err \/ ~CanCut(st.inst, x))
  <2>1. after = FollowedBy(closed) /\ CutsAfter(st.inst, st.inst.seg.dts, x)
    BY <1>2 DEF CutFMP4, CanCut, CutsAfter
  <2>2. GoodSegment(setup.fmt, closed) /\ Within(st, closed)
    BY CloseSegmentIsGood, CloseSegmentWithin
  <2>. HIDE DEF closed, after
  <2>3. CASE closed.err
    <3>1. after = closed
      BY <2>1, <2>3 DEF FollowedBy
    <3>. QED
      BY <2>2, <2>3, <3>1 DEF after
  <2>4. CASE ~closed.err
    <3>. DEFINE w == NextSegmentStartingPos(st.inst.next)
    <3>1. closed.inst.next = st.inst.next /\ IsState(closed)
      BY <2>2 DEF Within, GoodSegment, Good
    <3>2. after = SegmentFrom(closed, w)
      BY <2>1, <2>4, <3>1 DEF FollowedBy
    <3>. HIDE DEF w
    <3>3. StartsAt(closed, after, w, {})
      BY <3>1, <3>2, SegmentFromStarts
    <3>4. StartsAt(st, after, w, {} \cup {st.inst.seg.ntp})
      BY <2>2, <3>3, WithinThenStarts
    <3>5. {} \cup {st.inst.seg.ntp} = {st.inst.seg.ntp}
      OBVIOUS
    <3>. QED
      BY <2>1, <3>4, <3>5 DEF w, after
  <2>. QED
    BY <2>3, <2>4
<1>. QED
  BY <1>1, <1>2

(* The start of a track is written down, and nothing else.                 *)
LEMMA StartedWithin ==
    ASSUME NEW st, NEW t, NEW x, IsState(st)
    PROVE  Within(st, Started(st, t, x)) /\ Started(st, t, x).inst.seg = st.inst.seg
<1>. DEFINE i == st.inst
            v == [i.started EXCEPT ![t] = [dts |-> x.dts, ntp |-> x.ntp]]
            j == [i EXCEPT !.started = v]
            after == [st EXCEPT !.inst = j]
<1>1. Started(st, t, x) = st \/ Started(st, t, x) = after
  BY DEF Started
<1>2. after.inst = j /\ after.disk = st.disk
  BY InstanceReplaced
<1>. HIDE DEF v, after
<1>3. j.seg = i.seg /\ j.next = i.next /\ j.hasVideo = i.hasVideo /\ j.id = i.id
  BY DEF IsState, IsInstance, InstanceShape
<1>. HIDE DEF j
<1>4. Within(st, after) /\ after.inst.seg = i.seg
  BY <1>2, <1>3 DEF Within, Names, OnDisk, FileOf
<1>. QED
  BY <1>1, <1>4, FailedWithin

(* What a write of fMP4 does: an error or a reason not to cut, the first   *)
(* segment, or the next one.                                               *)
StaysFMP4(a, prev, x, after) ==
    /\ Within(a, after) /\ (a.inst.seg = NoSegment => after.disk = a.disk)
    /\ \/ after.err \/ prev = None
       \/ a.inst.seg # NoSegment /\ (prev.dts < a.inst.seg.dts \/ ~CutsAfter(a.inst, a.inst.seg.dts, x))

BeginsFMP4(a, prev, x, after) ==
    /\ prev # None /\ a.inst.seg = NoSegment
    /\ StartsAt(a, after, prev, {prev.ntp})
    /\ after.err \/ ~CutsAfter(a.inst, prev.dts, x)

CutsFMP4(a, prev, x, after) ==
    LET first == IF a.inst.seg = NoSegment THEN prev ELSE a.inst.seg
    IN  /\ prev # None
        /\ CutsAfter(a.inst, first.dts, x)
        /\ StartsAt(a, after, NextSegmentStartingPos(a.inst.next), {first.ntp})

(* A sample that is written after the first one of a segment.              *)
LEMMA WritePreviousOutcome ==
    ASSUME NEW st, NEW prev, NEW x, NEW io, Good(setup.fmt, st), prev # None
    PROVE  LET after == WritePrevious(st, prev, x, io)
           IN  StaysFMP4(st, prev, x, after) \/ BeginsFMP4(st, prev, x, after) \/ CutsFMP4(st, prev, x, after)
<1>. DEFINE mid == IF st.inst.seg = NoSegment THEN SegmentFrom(st, prev) ELSE st
            b == WriteSample(mid, prev, x.dts - prev.dts, io)
            after == CutFMP4(b, x, io)
            w == NextSegmentStartingPos(b.inst.next)
<1>0. IsState(st) /\ Within(st, st)
  BY FailedWithin DEF Good
<1>1. CASE st.inst.seg # NoSegment /\ prev.dts < st.inst.seg.dts
  <2>1. WritePrevious(st, prev, x, io) = st
    BY <1>1 DEF WritePrevious
  <2>. QED
    BY <1>0, <1>1, <2>1 DEF StaysFMP4
<1>2. CASE ~(st.inst.seg # NoSegment /\ prev.dts < st.inst.seg.dts)
  <2>1. WritePrevious(st, prev, x, io) = after
    BY <1>2 DEF WritePrevious
  <2>2. GoodSegment(setup.fmt, mid)
    BY SegmentFromIsGood DEF GoodSegment, IsOpen
  <2>3. IF st.inst.seg = NoSegment THEN StartsAt(st, mid, prev, {}) ELSE mid = st
    BY <1>0, SegmentFromStarts
  <2>. HIDE DEF mid
  <2>4. GoodSegment(setup.fmt, b) /\ Within(mid, b)
    BY <2>2, WriteSampleIsGood, WriteSampleWithin
  <2>. HIDE DEF b
  <2>5. \/ Within(b, after) /\ (after.err \/ ~CutsAfter(b.inst, b.inst.seg.dts, x))
        \/ CutsAfter(b.inst, b.inst.seg.dts, x) /\ StartsAt(b, after, w, {b.inst.seg.ntp})
    BY <2>4, CutFMP4Outcome
  <2>. HIDE DEF after
  <2>6. CASE st.inst.seg # NoSegment
    <3>1. /\ Within(st, b) /\ b.inst.next = st.inst.next /\ b.inst.hasVideo = st.inst.hasVideo
          /\ b.inst.seg.dts = st.inst.seg.dts /\ b.inst.seg.ntp = st.inst.seg.ntp
      BY <2>3, <2>4, <2>6 DEF Within
    <3>2. CutsAfter(b.inst, b.inst.seg.dts, x) <=> CutsAfter(st.inst, st.inst.seg.dts, x)
      BY <3>1 DEF CutsAfter
    <3>3. CASE Within(b, after) /\ (after.err \/ ~CutsAfter(b.inst, b.inst.seg.dts, x))
      <4>1. Within(st, after)
        BY <3>1, <3>3, WithinWithin
      <4>. QED
        BY <2>1, <2>6, <3>2, <3>3, <4>1 DEF StaysFMP4
    <3>4. CASE CutsAfter(b.inst, b.inst.seg.dts, x) /\ StartsAt(b, after, w, {b.inst.seg.ntp})
      <4>1. StartsAt(st, after, w, {b.inst.seg.ntp} \cup {st.inst.seg.ntp})
        BY <3>1, <3>4, WithinThenStarts
      <4>2. {b.inst.seg.ntp} \cup {st.inst.seg.ntp} = {st.inst.seg.ntp} /\ w = NextSegmentStartingPos(st.inst.next)
        BY <3>1
      <4>. QED
        BY <2>1, <2>6, <3>2, <3>4, <4>1, <4>2 DEF CutsFMP4
    <3>. QED
      BY <2>5, <3>3, <3>4
  <2>7. CASE st.inst.seg = NoSegment
    <3>1. StartsAt(st, b, prev, {} \cup {prev.ntp})
      BY <2>3, <2>4, <2>7, StartsThenWithin
    <3>2. StartsAt(st, b, prev, {prev.ntp})
      <4>1. {} \cup {prev.ntp} = {prev.ntp}
        OBVIOUS
      <4>. QED
        BY <3>1, <4>1
    <3>3. /\ b.inst.next = st.inst.next /\ b.inst.hasVideo = st.inst.hasVideo
          /\ b.inst.seg.dts = prev.dts /\ b.inst.seg.ntp = prev.ntp
      BY <3>2 DEF StartsAt
    <3>4. CutsAfter(b.inst, b.inst.seg.dts, x) <=> CutsAfter(st.inst, prev.dts, x)
      BY <3>3 DEF CutsAfter
    <3>5. CASE Within(b, after) /\ (after.err \/ ~CutsAfter(b.inst, b.inst.seg.dts, x))
      <4>1. StartsAt(st, after, prev, {prev.ntp} \cup {prev.ntp})
        BY <3>2, <3>5, StartsThenWithin
      <4>2. {prev.ntp} \cup {prev.ntp} = {prev.ntp}
        OBVIOUS
      <4>. QED
        BY <2>1, <2>7, <3>4, <3>5, <4>1, <4>2 DEF BeginsFMP4
    <3>6. CASE CutsAfter(b.inst, b.inst.seg.dts, x) /\ StartsAt(b, after, w, {b.inst.seg.ntp})
      <4>1. StartsAt(st, after, w, {prev.ntp} \cup {b.inst.seg.ntp})
        BY <3>2, <3>6, StartsThenStarts
      <4>2. {prev.ntp} \cup {b.inst.seg.ntp} = {prev.ntp} /\ w = NextSegmentStartingPos(st.inst.next)
        BY <3>3
      <4>. QED
        BY <2>1, <2>7, <3>4, <3>6, <4>1, <4>2 DEF CutsFMP4
    <3>. QED
      BY <2>5, <3>5, <3>6
  <2>. QED
    BY <2>6, <2>7
<1>. QED
  BY <1>1, <1>2

(* write of formatFMP4Track.                                               *)
LEMMA WriteFMP4Outcome ==
    ASSUME NEW st, NEW prev, NEW x, NEW io, Good(setup.fmt, st)
    PROVE  LET after == WriteFMP4(st, prev, x, io)
           IN  StaysFMP4(st, prev, x, after) \/ BeginsFMP4(st, prev, x, after) \/ CutsFMP4(st, prev, x, after)
<1>. DEFINE mid == Started(st, x.t, prev)
            after == WritePrevious(mid, prev, x, io)
<1>0. IsState(st) /\ Within(st, st) /\ Within(st, Failed(st)) /\ Failed(st).err /\ Failed(st).disk = st.disk
  <2>1. Failed(st).err /\ Failed(st).disk = st.disk
    BY DEF Failed, Good, IsState
  <2>. QED
    BY <2>1, FailedWithin DEF Good
<1>1. CASE prev = None
  BY <1>0, <1>1 DEF WriteFMP4, StaysFMP4
<1>2. CASE prev # None /\ Drifts(st.inst, x.t, prev)
  BY <1>0, <1>2 DEF WriteFMP4, StaysFMP4
<1>3. CASE prev # None /\ ~Drifts(st.inst, x.t, prev)
  <2>1. WriteFMP4(st, prev, x, io) = after
    BY <1>3 DEF WriteFMP4
  <2>2. Good(setup.fmt, mid) /\ Within(st, mid) /\ mid.inst.seg = st.inst.seg /\ mid.disk = st.disk
    BY <1>0, StartedIsGood, StartedWithin, InstanceReplaced DEF Started
  <2>. HIDE DEF mid
  <2>3. StaysFMP4(mid, prev, x, after) \/ BeginsFMP4(mid, prev, x, after) \/ CutsFMP4(mid, prev, x, after)
    BY <1>3, <2>2, WritePreviousOutcome
  <2>. HIDE DEF after
  <2>4. /\ mid.inst.next = st.inst.next /\ mid.inst.hasVideo = st.inst.hasVideo
        /\ \A start : CutsAfter(mid.inst, start, x) <=> CutsAfter(st.inst, start, x)
    BY <2>2 DEF Within, CutsAfter
  <2>5. CASE StaysFMP4(mid, prev, x, after)
    <3>1. Within(st, after)
      BY <2>2, <2>5, WithinWithin DEF StaysFMP4
    <3>. QED
      BY <2>1, <2>2, <2>4, <2>5, <3>1 DEF StaysFMP4
  <2>6. ASSUME NEW s, NEW times, StartsAt(mid, after, s, times) PROVE StartsAt(st, after, s, times)
    BY <2>2, <2>6 DEF Within, StartsAt
  <2>7. CASE BeginsFMP4(mid, prev, x, after)
    BY <2>1, <2>2, <2>4, <2>6, <2>7 DEF BeginsFMP4
  <2>8. CASE CutsFMP4(mid, prev, x, after)
    BY <2>1, <2>2, <2>4, <2>6, <2>8 DEF CutsFMP4
  <2>. QED
    BY <2>3, <2>5, <2>7, <2>8
<1>. QED
  BY <1>1, <1>2, <1>3

(* What a write of MPEG-TS does.                                           *)
StaysMPEGTS(a, x, after) ==
    /\ Within(a, after) /\ (a.inst.seg = NoSegment => after.disk = a.disk)
    /\ after.err \/ (a.inst.seg # NoSegment /\ ~CutsAfter(a.inst, a.inst.seg.dts, x))

BeginsMPEGTS(a, x, after) == a.inst.seg = NoSegment /\ StartsAt(a, after, x, {x.ntp})

CutsMPEGTS(a, x, after) ==
    /\ a.inst.seg # NoSegment /\ CutsAfter(a.inst, a.inst.seg.dts, x)
    /\ StartsAt(a, after, x, {a.inst.seg.ntp, x.ntp})

(* A sample goes to the buffer.                                            *)
LEMMA SampleToBufferWithin ==
    ASSUME NEW st, NEW x, GoodSegment(setup.fmt, st)
    PROVE  Within(st, SampleToBuffer(st, x)) /\ (st.err => SampleToBuffer(st, x) = st)
<1>. DEFINE p == Append(st.inst.seg.part, StoredSample(x, 0, st.inst.seg.dts))
            o == [st EXCEPT !.inst.seg.cur = TRUE]
            a == [o EXCEPT !.inst.seg.part = p]
            b == [a EXCEPT !.inst.seg.last = x.dts]
<1>1. SampleToBuffer(st, x) = st \/ SampleToBuffer(st, x) = b
  BY DEF SampleToBuffer
<1>. HIDE DEF p
<1>6. GoodSegment(setup.fmt, o) /\ Within(st, o) /\ Within(st, st)
  BY FieldsAreLike, FieldsWithin, FailedWithin DEF GoodSegment, Good
<1>. HIDE DEF o
<1>7. GoodSegment(setup.fmt, a) /\ Within(o, a)
  BY <1>6, FieldsAreLike, FieldsWithin
<1>. HIDE DEF a
<1>2. GoodSegment(setup.fmt, a) /\ Within(st, a) /\ Within(st, st)
  BY <1>6, <1>7, WithinWithin
<1>3. Within(a, b)
  BY <1>2, FieldsWithin
<1>. HIDE DEF b
<1>4. Within(st, SampleToBuffer(st, x))
  BY <1>1, <1>2, <1>3, WithinWithin
<1>5. st.err => SampleToBuffer(st, x) = st
  BY DEF SampleToBuffer
<1>. QED
  BY <1>4, <1>5

(* CutMPEGTS, and its outcome.                                             *)
LEMMA CutMPEGTSOutcome ==
    ASSUME NEW st, NEW x, NEW io, Good(setup.fmt, st)
    PROVE  LET after == CutMPEGTS(st, x, io)
           IN  \/ st.inst.seg = NoSegment /\ StartsAt(st, after, x, {})
               \/ /\ st.inst.seg # NoSegment /\ Within(st, after)
                  /\ after.err \/ ~CutsAfter(st.inst, st.inst.seg.dts, x)
               \/ /\ st.inst.seg # NoSegment /\ CutsAfter(st.inst, st.inst.seg.dts, x)
                  /\ StartsAt(st, after, x, {st.inst.seg.ntp})
<1>0. IsState(st)
  BY DEF Good
<1>1. CASE st.inst.seg = NoSegment
  <2>1. CutMPEGTS(st, x, io) = SegmentFrom(st, x)
    BY <1>1 DEF CutMPEGTS
  <2>. QED
    BY <1>0, <1>1, <2>1, SegmentFromStarts
<1>2. CASE st.inst.seg # NoSegment /\ CanCut(st.inst, x)
  <2>. DEFINE a == [st EXCEPT !.inst.seg.last = x.dts]
              y == CloseSegment(a, io)
              after == CutMPEGTS(st, x, io)
  <2>1. after = (IF y.err THEN y ELSE SegmentFrom(y, x)) /\ CutsAfter(st.inst, st.inst.seg.dts, x)
    BY <1>2 DEF CutMPEGTS, CanCut, CutsAfter
  <2>2. GoodSegment(setup.fmt, a) /\ Within(st, a)
    BY <1>2, FieldsAreLike, FieldsWithin DEF GoodSegment
  <2>. HIDE DEF a
  <2>3. GoodSegment(setup.fmt, y) /\ Within(a, y)
    BY <2>2, CloseSegmentIsGood, CloseSegmentWithin
  <2>. HIDE DEF y, after
  <2>4. Within(st, y) /\ IsState(y)
    BY <2>2, <2>3, WithinWithin DEF GoodSegment, Good
  <2>5. CASE y.err
    BY <1>2, <2>1, <2>4, <2>5 DEF after
  <2>6. CASE ~y.err
    <3>1. StartsAt(y, after, x, {})
      BY <2>1, <2>4, <2>6, SegmentFromStarts
    <3>2. StartsAt(st, after, x, {} \cup {st.inst.seg.ntp})
      BY <2>4, <3>1, WithinThenStarts
    <3>3. {} \cup {st.inst.seg.ntp} = {st.inst.seg.ntp}
      OBVIOUS
    <3>. QED
      BY <1>2, <2>1, <3>2, <3>3 DEF after
  <2>. QED
    BY <2>5, <2>6
<1>3. CASE st.inst.seg # NoSegment /\ ~CanCut(st.inst, x)
  <2>1. CutMPEGTS(st, x, io) = Flush(st, x, io) /\ ~CutsAfter(st.inst, st.inst.seg.dts, x)
    BY <1>3 DEF CutMPEGTS, CanCut, CutsAfter
  <2>2. Within(st, Flush(st, x, io))
    BY <1>3, FlushWithin DEF GoodSegment
  <2>. QED
    BY <1>3, <2>1, <2>2
<1>. QED
  BY <1>1, <1>2, <1>3

(* write of formatMPEGTSTrack.                                             *)
LEMMA WriteMPEGTSOutcome ==
    ASSUME NEW st, NEW x, NEW io, Good(setup.fmt, st)
    PROVE  LET after == WriteMPEGTS(st, x, io)
           IN  StaysMPEGTS(st, x, after) \/ BeginsMPEGTS(st, x, after) \/ CutsMPEGTS(st, x, after)
<1>. DEFINE mid == Started(st, x.t, x)
            y == CutMPEGTS(mid, x, io)
            after == SampleToBuffer(y, x)
<1>0. IsState(st) /\ Within(st, Failed(st)) /\ Failed(st).err /\ Failed(st).disk = st.disk
  <2>1. Failed(st).err /\ Failed(st).disk = st.disk
    BY DEF Failed, Good, IsState
  <2>. QED
    BY <2>1, FailedWithin DEF Good
<1>1. CASE Drifts(st.inst, x.t, x)
  BY <1>0, <1>1 DEF WriteMPEGTS, StaysMPEGTS
<1>2. CASE ~Drifts(st.inst, x.t, x)
  <2>1. WriteMPEGTS(st, x, io) = after
    BY <1>2 DEF WriteMPEGTS
  <2>2. Good(setup.fmt, mid) /\ Within(st, mid) /\ mid.inst.seg = st.inst.seg /\ mid.disk = st.disk
    BY <1>0, StartedIsGood, StartedWithin, InstanceReplaced DEF Started
  <2>. HIDE DEF mid
  <2>3. GoodSegment(setup.fmt, y)
    BY <2>2, CutMPEGTSIsGood
  <2>4. \/ mid.inst.seg = NoSegment /\ StartsAt(mid, y, x, {})
        \/ /\ mid.inst.seg # NoSegment /\ Within(mid, y)
           /\ y.err \/ ~CutsAfter(mid.inst, mid.inst.seg.dts, x)
        \/ /\ mid.inst.seg # NoSegment /\ CutsAfter(mid.inst, mid.inst.seg.dts, x)
           /\ StartsAt(mid, y, x, {mid.inst.seg.ntp})
    BY <2>2, CutMPEGTSOutcome
  <2>. HIDE DEF y
  <2>5. Within(y, after) /\ (y.err => after = y)
    BY <2>3, SampleToBufferWithin
  <2>. HIDE DEF after
  <2>6. CutsAfter(mid.inst, mid.inst.seg.dts, x) <=> CutsAfter(st.inst, st.inst.seg.dts, x)
    BY <2>2 DEF Within, CutsAfter
  <2>7. ASSUME NEW s, NEW times, StartsAt(mid, y, s, times) PROVE StartsAt(st, after, s, times \cup {s.ntp})
    <3>1. StartsAt(mid, after, s, times \cup {s.ntp})
      BY <2>5, <2>7, StartsThenWithin
    <3>. QED
      BY <2>2, <3>1 DEF Within, StartsAt
  <2>8. CASE mid.inst.seg = NoSegment /\ StartsAt(mid, y, x, {})
    <3>1. StartsAt(st, after, x, {} \cup {x.ntp})
      BY <2>7, <2>8
    <3>2. {} \cup {x.ntp} = {x.ntp}
      OBVIOUS
    <3>. QED
      BY <2>1, <2>2, <2>8, <3>1, <3>2 DEF BeginsMPEGTS
  <2>9. CASE /\ mid.inst.seg # NoSegment /\ Within(mid, y)
             /\ y.err \/ ~CutsAfter(mid.inst, mid.inst.seg.dts, x)
    <3>1. Within(st, after)
      BY <2>2, <2>5, <2>9, WithinWithin
    <3>. QED
      BY <2>1, <2>2, <2>5, <2>6, <2>9, <3>1 DEF StaysMPEGTS
  <2>10. CASE /\ mid.inst.seg # NoSegment /\ CutsAfter(mid.inst, mid.inst.seg.dts, x)
              /\ StartsAt(mid, y, x, {mid.inst.seg.ntp})
    <3>1. StartsAt(st, after, x, {mid.inst.seg.ntp} \cup {x.ntp})
      BY <2>7, <2>10
    <3>2. {mid.inst.seg.ntp} \cup {x.ntp} = {st.inst.seg.ntp, x.ntp}
      BY <2>2
    <3>. QED
      BY <2>1, <2>2, <2>6, <2>10, <3>1, <3>2 DEF CutsMPEGTS
  <2>. QED
    BY <2>4, <2>8, <2>9, <2>10
<1>. QED
  BY <1>1, <1>2

-----------------------------------------------------------------------------
(***************************************************************************)
(* The age of the open segment.                                            *)
(***************************************************************************)
(* The tracks of the recording.                                            *)
Mine == Tracks(setup.fmt, setup.medias)

AtWork == rec.phase = "up" /\ ~inst.done /\ ~inst.failed

Waits(t) == inst.next[t] # None

(* Units, the samples that wait, and where the segment at hand starts.     *)
Timing ==
    /\ clock \in Nat /\ skew \in Int /\ setup \in Setups /\ deleteAfter \in {0, DeleteAfter}
    /\ rec.since \in Nat /\ rec.since <= clock
    /\ rec.phase = "up" => rec.since < clock \/ clock = EndOfTime \/ rec.since = 0
    /\ rec.phase = "paused" => \A u \in Range(units) : u.dts <= rec.since
    /\ units \in Seq(Sample)
    /\ \A u \in Range(units) : u.dts <= clock /\ u.t \in Mine

Waiting ==
    /\ inst.hasVideo \in BOOLEAN
    /\ inst.next \in [DOMAIN setup.medias -> Sample \cup {None}]
    /\ setup.fmt = "mpegts" => \A t \in Mine : ~Waits(t)
    /\ rec.phase = "up" /\ ~inst.done /\ inst.seg # NoSegment =>
         \E u \in Range(units) : u.dts = inst.seg.dts /\ u.ntp = inst.seg.ntp /\ rec.since <= u.dts
    /\ AtWork =>
         /\ \A t \in DOMAIN setup.medias : Waits(t) =>
              /\ t \in Mine /\ inst.next[t] \in Range(units) /\ inst.next[t].t = t
              /\ rec.since <= inst.next[t].dts
         /\ setup.fmt = "fmp4" =>
              \A u \in Range(units) : u.key /\ rec.since < u.dts => Waits(u.t) /\ u.dts <= inst.next[u.t].dts

(* The tracks, but for h, that have been seen since a segment that starts  *)
(* at start could be cut: their next key frame cuts it.                    *)
Ready(start, h) == {t \in Mine \ {h} : Waits(t) /\ start + SegmentDuration <= inst.next[t].dts}

(* Only the first key frame of a track may fail to cut the segment, and    *)
(* key frames come in time.                                                *)
InTime(start, h) ==
    /\ h \in Mine
    /\ \A u \in Range(units) : Cuts(u) /\ start + SegmentDuration <= u.dts =>
         /\ u.t \in Ready(start, h)
         /\ u.dts < start + SegmentDuration + KeyInterval * Cardinality(Ready(start, h))
    /\ clock < start + SegmentDuration + KeyInterval * (Cardinality(Ready(start, h)) + 1)

Punctual ==
    AtWork /\ ~starved =>
        IF inst.seg = NoSegment THEN \A t \in Mine : Waits(t) => InTime(inst.next[t].dts, t)
        ELSE \E h \in Mine : /\ InTime(inst.seg.dts, h)
                             /\ setup.fmt = "fmp4" => Waits(h) /\ inst.seg.dts <= inst.next[h].dts

(* Files have their names from times in the past, and from none that is    *)
(* after the start of the segment at hand.                                 *)
NamedAt(time) ==
    /\ time <= clock
    /\ rec.phase = "paused" \/ inst.seg = NoSegment => time <= rec.since
    /\ AtWork => IF inst.seg = NoSegment THEN \A t \in Mine : Waits(t) => time <= inst.next[t].ntp
                 ELSE time <= inst.seg.ntp

InOrder == \A f \in disk : \E time \in Nat : f.name = Encode(time) /\ NamedAt(time)

(* The file of the open segment is there under its name.                   *)
HasFile == IsOpen(inst) => \E f \in disk : Open(f) /\ f.name = Encode(inst.seg.ntp)

Kept == AtWork /\ ~starved => HasFile

(* What the cleaner has chosen was old enough.                             *)
ChosenIsOld ==
    \A name \in cleaner.names : Decode(name) \in Int /\ Decode(name) <= clock - DeleteAfter

(* The names say when the segments started, by the time of the node.       *)
Named == InOrder /\ Kept /\ ChosenIsOld

Aged == Timing /\ Waiting /\ Punctual /\ (ClocksAgree => Named)

-----------------------------------------------------------------------------
(* Every set of natural numbers that is not empty has a smallest element.  *)
LEMMA Smallest ==
    ASSUME NEW T \in SUBSET Nat, T # {}
    PROVE  \E x \in T : \A y \in T : x <= y
<1>. DEFINE R == OpToRel(<, Nat)
<1>1. IsWellFoundedOn(R, Nat)
  BY NatLessThanWellFounded
<1>2. ASSUME NEW x \in Nat, NEW y \in Nat, x < y PROVE <<x, y>> \in R
  BY <1>2 DEF OpToRel
<1>. HIDE DEF R
<1>3. PICK x \in T : \A y \in T : ~(<<y, x>> \in R)
  BY <1>1, WFMin
<1>4. ASSUME NEW y \in T PROVE x <= y
  <2>1. ~(y < x)
    BY <1>2, <1>3
  <2>. QED
    BY <2>1
<1>. QED
  BY <1>4

(* So some element of a set has the smallest value.                        *)
LEMMA SmallestOf ==
    ASSUME NEW S, S # {}, NEW f \in [S -> Nat]
    PROVE  \E x \in S : \A y \in S : f[x] <= f[y]
<1>. DEFINE T == {f[x] : x \in S}
<1>1. T \in SUBSET Nat /\ T # {}
  OBVIOUS
<1>. HIDE DEF T
<1>2. PICK m \in T : \A y \in T : m <= y
  BY <1>1, Smallest
<1>3. PICK x \in S : m = f[x]
  BY DEF T
<1>. QED
  BY <1>2, <1>3 DEF T

(* The next segment starts at a sample that waits, and none that waits is  *)
(* later by more than maxBasetime.                                         *)
LEMMA NextSegmentStarts ==
    ASSUME NEW len \in Nat, NEW next \in [1..len -> Sample \cup {None}],
           NEW newest \in Nat, \A t \in 1..len : next[t] # None => next[t].dts <= newest,
           \E t \in 1..len : next[t] # None
    PROVE  \E t \in 1..len :
               /\ next[t] # None /\ NextSegmentStartingPos(next) = next[t]
               /\ \A v \in 1..len : next[v] # None => next[v].dts - next[t].dts <= MaxBasetime
<1>. DEFINE waiting == {t \in 1..len : next[t] # None}
            near == {t \in waiting : \A v \in waiting : next[v].dts - next[t].dts <= MaxBasetime}
            oldest == {t \in near : \A v \in near : next[t].dts <= next[v].dts}
            last(t) == \A v \in oldest : v <= t
<1>1. /\ waiting # {} /\ MaxBasetime \in Nat
      /\ \A t \in waiting : next[t].dts \in Nat /\ next[t].dts <= newest /\ t \in 1..len
  BY RecorderAssumption DEF Sample
<1>2. near # {}
  <2>. DEFINE f == [t \in waiting |-> newest - next[t].dts]
  <2>1. f \in [waiting -> Nat]
    BY <1>1
  <2>2. PICK t \in waiting : \A v \in waiting : f[t] <= f[v]
    <3>. HIDE DEF f, waiting
    <3>. QED
      BY <1>1, <2>1, SmallestOf
  <2>3. \A v \in waiting : next[v].dts - next[t].dts <= MaxBasetime
    BY <1>1, <2>2
  <2>. QED
    BY <2>3
<1>3. oldest # {}
  <2>. DEFINE f == [t \in near |-> next[t].dts]
  <2>1. f \in [near -> Nat]
    BY <1>1
  <2>2. PICK t \in near : \A v \in near : f[t] <= f[v]
    <3>. HIDE DEF f, near
    <3>. QED
      BY <1>2, <2>1, SmallestOf
  <2>. QED
    BY <2>2
<1>4. \E t \in oldest : last(t)
  <2>. DEFINE f == [t \in oldest |-> len - t]
  <2>1. f \in [oldest -> Nat]
    BY <1>1
  <2>2. PICK t \in oldest : \A v \in oldest : f[t] <= f[v]
    <3>. HIDE DEF f, oldest
    <3>. QED
      BY <1>3, <2>1, SmallestOf
  <2>3. ASSUME NEW v \in oldest PROVE v <= t
    <3>1. f[t] = len - t /\ f[v] = len - v /\ f[t] <= f[v]
      BY <2>2
    <3>2. t \in 1..len /\ v \in 1..len
      OBVIOUS
    <3>. QED
      BY <3>1, <3>2
  <2>. QED
    BY <2>3
<1>. DEFINE w == CHOOSE t \in oldest : last(t)
<1>5. w \in oldest
  <2>. HIDE DEF oldest, last
  <2>. QED
    BY <1>4
<1>6. NextSegmentStartingPos(next) = next[w]
  BY DEF NextSegmentStartingPos
<1>. HIDE DEF w
<1>. QED
  BY <1>5, <1>6

(* A longer row of units.                                                  *)
LEMMA OneMoreUnit ==
    ASSUME NEW S, NEW row \in Seq(S), NEW u \in S
    PROVE  Append(row, u) \in Seq(S) /\ Range(Append(row, u)) = Range(row) \cup {u}
<1>1. /\ Append(row, u) \in Seq(S) /\ DOMAIN Append(row, u) = 1..(Len(row) + 1) /\ DOMAIN row = 1..Len(row)
      /\ Len(row) \in Nat /\ Append(row, u)[Len(row) + 1] = u
      /\ \A k \in 1..Len(row) : Append(row, u)[k] = row[k]
  OBVIOUS
<1>2. 1..(Len(row) + 1) = 1..Len(row) \cup {Len(row) + 1}
  BY <1>1
<1>. QED
  BY <1>1, <1>2 DEF Range

(* Numbers of tracks.                                                      *)
LEMMA TracksAreFew ==
    ASSUME setup \in Setups
    PROVE  /\ IsFiniteSet(Mine) /\ Cardinality(Mine) \in Nat /\ Mine \subseteq DOMAIN setup.medias
           /\ Len(setup.medias) \in Nat /\ DOMAIN setup.medias = 1..Len(setup.medias)
<1>1. setup.medias \in Seq(Range(setup.medias))
  BY RecorderAssumption
<1>2. Len(setup.medias) \in Nat /\ DOMAIN setup.medias = 1..Len(setup.medias)
  BY <1>1
<1>3. IsFiniteSet(1..Len(setup.medias))
  BY <1>2, FS_Interval
<1>4. Mine \subseteq DOMAIN setup.medias
  BY DEF Mine, Tracks
<1>5. IsFiniteSet(Mine)
  BY <1>2, <1>3, <1>4, FS_Subset
<1>6. Cardinality(Mine) \in Nat
  BY <1>5, FS_CardinalityType
<1>. QED
  BY <1>2, <1>4, <1>5, <1>6

(* More tracks, more time.                                                 *)
LEMMA MoreTracks ==
    ASSUME NEW k \in Nat, NEW a \in Nat, NEW b \in Nat, a <= b
    PROVE  k * a <= k * b /\ k * (a + 1) = k * a + k /\ k * a \in Nat
<1>1. PICK d \in Nat : b = a + d
  <2>1. b - a \in Nat /\ b = a + (b - a)
    OBVIOUS
  <2>. QED
    BY <2>1
<1>2. k * b = k * a + k * d /\ k * d >= 0
  BY <1>1
<1>. QED
  BY <1>2

(* A segment that is punctual is not old.                                  *)
LEMMA ReadyAreFew ==
    ASSUME setup \in Setups, NEW start, NEW h
    PROVE  /\ IsFiniteSet(Ready(start, h)) /\ Cardinality(Ready(start, h)) \in Nat
           /\ Ready(start, h) = {} \/ Cardinality(Ready(start, h)) >= 1
           /\ h \in Mine => Cardinality(Ready(start, h)) + 1 <= Cardinality(Mine)
<1>. DEFINE r == Ready(start, h)
            others == Mine \ {h}
<1>1. IsFiniteSet(Mine) /\ Cardinality(Mine) \in Nat
  BY TracksAreFew
<1>2. r \subseteq others /\ others \subseteq Mine
  BY DEF Ready
<1>3. IsFiniteSet(others) /\ IsFiniteSet(r)
  BY <1>1, <1>2, FS_Subset
<1>. HIDE DEF r
<1>4. Cardinality(r) \in Nat /\ Cardinality(others) \in Nat
  BY <1>3, FS_CardinalityType
<1>5. Cardinality(r) <= Cardinality(others)
  BY <1>2, <1>3, FS_Subset
<1>6. h \in Mine => Cardinality(others) = Cardinality(Mine) - 1
  BY <1>1, FS_RemoveElement
<1>7. r = {} \/ Cardinality(r) # 0
  BY <1>3, FS_EmptySet
<1>8. (h \in Mine => Cardinality(r) + 1 <= Cardinality(Mine)) /\ (r = {} \/ Cardinality(r) >= 1)
  BY <1>1, <1>4, <1>5, <1>6, <1>7
<1>. QED
  BY <1>3, <1>4, <1>8 DEF r

(* Units are samples.                                                      *)
LEMMA UnitsAreSamples ==
    ASSUME Timing
    PROVE  \A u \in Range(units) : u \in Sample /\ u.dts \in Nat /\ u.ntp \in Int /\ u.dts <= clock /\ u.t \in Mine
<1>1. \A k \in DOMAIN units : units[k] \in Sample
  BY DEF Timing
<1>2. \A u \in Range(units) : u \in Sample
  BY <1>1 DEF Range
<1>. QED
  BY <1>2 DEF Sample, Timing

(* The age of a segment has a bound.                                       *)
LEMMA InTimeIsYoung ==
    ASSUME setup \in Setups, clock \in Nat, NEW start \in Nat, NEW h, InTime(start, h)
    PROVE  clock < start + SegmentDuration + KeyInterval * Cardinality(Mine)
<1>. DEFINE n == Cardinality(Ready(start, h))
            m == Cardinality(Mine)
<1>1. n \in Nat /\ m \in Nat /\ n + 1 <= m
  BY ReadyAreFew, TracksAreFew DEF InTime
<1>2. clock < start + SegmentDuration + KeyInterval * (n + 1)
  BY DEF InTime
<1>. HIDE DEF n, m
<1>3. KeyInterval * (n + 1) <= KeyInterval * m /\ KeyInterval * (n + 1) \in Nat /\ KeyInterval * m \in Nat
  BY <1>1, RecorderAssumption, MoreTracks
<1>4. clock < start + SegmentDuration + KeyInterval * m
  BY <1>2, <1>3, RecorderAssumption
<1>. QED
  BY <1>4 DEF m

(* A segment that is shorter than a key interval after it could be cut.    *)
Fresh(start, h) ==
    /\ h \in Mine
    /\ clock < start + SegmentDuration + KeyInterval
    /\ \A u \in Range(units) : Cuts(u) /\ start + SegmentDuration <= u.dts => u.t \in Ready(start, h)

(* It is in time.                                                          *)
LEMMA FreshInTime ==
    ASSUME Timing, NEW start \in Nat, NEW h, Fresh(start, h)
    PROVE  InTime(start, h)
<1>. DEFINE n == Cardinality(Ready(start, h))
<1>1. /\ n \in Nat /\ (Ready(start, h) = {} \/ n >= 1)
      /\ clock \in Nat /\ SegmentDuration \in Nat /\ KeyInterval \in Nat
  BY ReadyAreFew, RecorderAssumption DEF Timing
<1>2. KeyInterval * (n + 1) = KeyInterval * n + KeyInterval /\ KeyInterval * n \in Nat
  BY <1>1, MoreTracks
<1>3. n >= 1 => KeyInterval <= KeyInterval * n
  <2>1. n >= 1 => KeyInterval * 1 <= KeyInterval * n
    BY <1>1, MoreTracks
  <2>. QED
    BY <1>1, <2>1
<1>. HIDE DEF n
<1>4. clock < start + SegmentDuration + KeyInterval * (n + 1)
  BY <1>1, <1>2 DEF Fresh
<1>5. ASSUME NEW u \in Range(units), Cuts(u), start + SegmentDuration <= u.dts
      PROVE  u.t \in Ready(start, h) /\ u.dts < start + SegmentDuration + KeyInterval * n
  <2>1. u.t \in Ready(start, h)
    BY <1>5 DEF Fresh
  <2>2. u.dts \in Nat /\ u.dts <= clock
    BY UnitsAreSamples
  <2>. QED
    BY <1>1, <1>2, <1>3, <2>1, <2>2 DEF Fresh
<1>. QED
  BY <1>4, <1>5 DEF InTime, Fresh, n

(* Time goes by, but not without a key frame.                              *)
LEMMA TickInTime ==
    ASSUME Timing, NEW start \in Nat, NEW h, InTime(start, h), Tick, ~starved'
    PROVE  InTime(start, h)'
<1>. DEFINE n == Cardinality(Ready(start, h))
<1>1. /\ n \in Nat /\ clock \in Nat /\ SegmentDuration \in Nat /\ KeyInterval \in Nat \ {0}
  BY ReadyAreFew, RecorderAssumption DEF Timing
<1>2. KeyInterval * (n + 1) = KeyInterval * n + KeyInterval /\ KeyInterval * n \in Nat
  BY <1>1, MoreTracks
<1>3. clock' = clock + 1 /\ UNCHANGED <<units, inst, setup>>
  BY DEF Tick
<1>4. Ready(start, h)' = Ready(start, h) /\ Mine' = Mine /\ \A u : Cuts(u)' = Cuts(u)
  BY <1>3 DEF Ready, Mine, Waits, Cuts
<1>5. PICK u \in Range(units) : Cuts(u) /\ ~(u.dts + KeyInterval <= clock)
  BY DEF Tick
<1>6. u.dts \in Nat
  BY UnitsAreSamples
<1>. HIDE DEF n
<1>7. CASE start + SegmentDuration <= u.dts
  <2>1. u.dts < start + SegmentDuration + KeyInterval * n
    BY <1>5, <1>7 DEF InTime, n
  <2>2. clock + 1 < start + SegmentDuration + KeyInterval * (n + 1)
    BY <1>1, <1>2, <1>5, <1>6, <2>1
  <2>. QED
    BY <1>3, <1>4, <2>2 DEF InTime, n
<1>8. CASE ~(start + SegmentDuration <= u.dts)
  <2>1. clock + 1 < start + SegmentDuration + KeyInterval * (n + 1)
    BY <1>1, <1>2, <1>5, <1>6, <1>8
  <2>. QED
    BY <1>3, <1>4, <2>1 DEF InTime, n
<1>. QED
  BY <1>7, <1>8

(* A unit that does not cut the segment is the first key frame of a track  *)
(* since the segment could be cut.                                         *)
LEMMA UnitInTime ==
    ASSUME Timing, NEW start \in Nat, NEW h, InTime(start, h),
           NEW u \in Sample, u.t \in Mine, u.dts <= clock,
           units' = Append(units, u), clock' = clock, setup' = setup,
           inst.hasVideo => inst'.hasVideo,
           \A t \in Mine : Waits(t) => Waits(t)' /\ inst.next[t].dts <= inst'.next[t].dts,
           \A t \in Mine : inst'.next[t] \in Sample \cup {None} /\ inst.next[t] \in Sample \cup {None},
           Cuts(u)' /\ start + SegmentDuration <= u.dts =>
               u.t # h /\ u.t \notin Ready(start, h) /\ inst'.next[u.t] = u
    PROVE  InTime(start, h)'
<1>. DEFINE r == Ready(start, h)
            q == Ready(start, h)'
            n == Cardinality(r)
            m == Cardinality(q)
            x == KeyInterval * n
            y == KeyInterval * m
            more == KeyInterval * (n + 1)
<1>1. /\ IsFiniteSet(r) /\ n \in Nat /\ clock \in Nat /\ SegmentDuration \in Nat /\ KeyInterval \in Nat
      /\ setup \in Setups
  BY ReadyAreFew, RecorderAssumption DEF Timing
<1>2. IsFiniteSet(q) /\ m \in Nat /\ (q = {} \/ m >= 1)
  <2>1. IsFiniteSet(Mine) /\ Mine' = Mine
    BY <1>1, TracksAreFew DEF Mine
  <2>2. q \subseteq Mine
    BY <2>1 DEF Ready
  <2>3. IsFiniteSet(q)
    BY <2>1, <2>2, FS_Subset
  <2>. HIDE DEF q
  <2>. QED
    BY <2>3, FS_CardinalityType, FS_EmptySet
<1>3. Mine' = Mine
  BY DEF Mine
<1>4. r \subseteq q
  <2>1. ASSUME NEW t \in r PROVE t \in q
    <3>1. t \in Mine \ {h} /\ Waits(t) /\ start + SegmentDuration <= inst.next[t].dts
      BY DEF Ready
    <3>2. Waits(t)' /\ inst.next[t].dts <= inst'.next[t].dts
      BY <3>1
    <3>3. inst.next[t].dts \in Nat /\ inst'.next[t].dts \in Nat
      BY <3>1, <3>2 DEF Waits, Sample
    <3>. QED
      BY <1>1, <1>3, <3>1, <3>2, <3>3 DEF Ready
  <2>. QED
    BY <2>1
<1>5. n <= m
  BY <1>2, <1>4, FS_Subset
<1>6. x <= y /\ x \in Nat /\ y \in Nat /\ more = x + KeyInterval /\ KeyInterval * (m + 1) = y + KeyInterval
  BY <1>1, <1>2, <1>5, MoreTracks, SMTT(30)
<1>7. Range(units') = Range(units) \cup {u}
  BY OneMoreUnit DEF Timing
<1>8. \A v : Cuts(v)' => Cuts(v)
  BY DEF Cuts
<1>9. clock' < start + SegmentDuration + KeyInterval * (m + 1)
  <2>1. clock < start + SegmentDuration + more
    BY DEF InTime
  <2>. HIDE DEF n, m, x, y, more
  <2>2. clock < start + SegmentDuration + (y + KeyInterval)
    BY <1>1, <1>6, <2>1
  <2>. QED
    BY <1>6, <2>2
<1>10. ASSUME NEW v \in Range(units), Cuts(v)', start + SegmentDuration <= v.dts
       PROVE  v.t \in q /\ v.dts < start + SegmentDuration + y
  <2>1. v.t \in r /\ v.dts < start + SegmentDuration + x
    BY <1>8, <1>10 DEF InTime
  <2>2. v.dts \in Nat
    BY UnitsAreSamples
  <2>. HIDE DEF n, m, x, y
  <2>. QED
    BY <1>1, <1>4, <1>6, <2>1, <2>2
<1>11. ASSUME Cuts(u)', start + SegmentDuration <= u.dts
       PROVE  u.t \in q /\ u.dts < start + SegmentDuration + y
  <2>1. u.t # h /\ u.t \notin r /\ inst'.next[u.t] = u
    BY <1>11
  <2>2. u # None
    BY RecorderAssumption
  <2>3. u.t \in q
    BY <1>3, <1>11, <2>1, <2>2 DEF Ready, Waits
  <2>4. n + 1 <= m
    <3>1. Cardinality(r \cup {u.t}) = n + 1
      BY <1>1, <2>1, FS_AddElement
    <3>2. r \cup {u.t} \subseteq q
      BY <1>4, <2>3
    <3>. HIDE DEF r, q
    <3>3. Cardinality(r \cup {u.t}) <= Cardinality(q)
      BY <1>2, <3>2, FS_Subset
    <3>. QED
      BY <3>1, <3>3
  <2>5. more <= y /\ more \in Nat
    <3>. HIDE DEF n, m
    <3>. QED
      BY <1>1, <1>2, <2>4, MoreTracks
  <2>6. clock < start + SegmentDuration + more
    BY DEF InTime
  <2>7. u.dts \in Nat
    BY DEF Sample
  <2>. HIDE DEF n, m, x, y, more
  <2>. QED
    BY <1>1, <1>6, <2>3, <2>5, <2>6, <2>7
<1>12. ASSUME NEW v \in Range(units'), Cuts(v)', start + SegmentDuration <= v.dts
       PROVE  v.t \in q /\ v.dts < start + SegmentDuration + y
  BY <1>7, <1>10, <1>11, <1>12
<1>. QED
  BY <1>3, <1>9, <1>12 DEF InTime

-----------------------------------------------------------------------------
(* The unit that OnUnit takes.                                             *)
UnitOf(t, key, late) ==
    [n |-> Len(units) + 1, t |-> t, dts |-> clock - late, ntp |-> clock - late + skew, key |-> key]

(* What becomes of the segment at hand: it stays.                          *)
SegmentStays ==
    /\ inst'.seg.num = inst.seg.num /\ inst'.seg.dts = inst.seg.dts /\ inst'.seg.ntp = inst.seg.ntp
    /\ inst'.seg = NoSegment <=> inst.seg = NoSegment
    /\ ~starved' => ~starved
    /\ HasFile => HasFile'
    /\ \A g \in disk' : (\E f \in disk : f.name = g.name) \/ (inst.seg # NoSegment /\ g.name = Encode(inst.seg.ntp))

(* Another one starts at the sample s.                                     *)
SegmentStarts(s, times) ==
    /\ inst'.seg # NoSegment /\ inst'.seg.dts = s.dts /\ inst'.seg.ntp = s.ntp
    /\ ~starved' => ~starved \/ clock <= s.dts + KeyInterval
    /\ HasFile'
    /\ \A g \in disk' : (\E f \in disk : f.name = g.name) \/ \E ntp \in times : g.name = Encode(ntp)

(* What OnUnit does.                                                       *)
UnitIsFMP4(u) ==
    LET prev  == inst.next[u.t]
        first == IF inst.seg = NoSegment THEN prev ELSE inst.seg
    IN  \/ /\ SegmentStays
           /\ \/ inst'.failed \/ prev = None
              \/ inst.seg # NoSegment /\ (prev.dts < inst.seg.dts \/ ~CutsAfter(inst', inst.seg.dts, u))
        \/ /\ prev # None /\ inst.seg = NoSegment
           /\ SegmentStarts(prev, {prev.ntp}) /\ (inst'.failed \/ ~CutsAfter(inst', prev.dts, u))
        \/ /\ prev # None /\ CutsAfter(inst', first.dts, u)
           /\ SegmentStarts(NextSegmentStartingPos(inst'.next), {first.ntp})

UnitIsMPEGTS(u) ==
    \/ SegmentStays /\ (inst'.failed \/ (inst.seg # NoSegment /\ ~CutsAfter(inst', inst.seg.dts, u)))
    \/ inst.seg = NoSegment /\ SegmentStarts(u, {u.ntp})
    \/ /\ inst.seg # NoSegment /\ CutsAfter(inst', inst.seg.dts, u)
       /\ SegmentStarts(u, {inst.seg.ntp, u.ntp})

UnitIsWritten(u) ==
    /\ inst'.next = (IF setup.fmt = "mpegts" THEN inst.next ELSE [inst.next EXCEPT ![u.t] = u])
    /\ inst'.hasVideo = (inst.hasVideo \/ IsVideo(setup.medias[u.t]))
    /\ IF setup.fmt = "mpegts" THEN UnitIsMPEGTS(u) ELSE UnitIsFMP4(u)

UnitIsDropped(u) == ~u.key /\ inst' = inst /\ disk' = disk /\ (~starved' => ~starved)

(* The state that a write leaves becomes that of the recorder.             *)
Becomes(k, st) ==
    /\ InstanceShape(k) /\ k.id = inst.id /\ k.seg = inst.seg
    /\ InstanceShape(inst)
    /\ Good(setup.fmt, st)
    /\ setup' = setup /\ disk' = st.disk /\ inst' = [st.inst EXCEPT !.failed = st.err]
    /\ starved' = (starved /\ ~(st.inst.seg.num # inst.seg.num /\ st.inst.seg.dts + KeyInterval >= clock))

(* Its fields.                                                             *)
LEMMA BecomesFields ==
    ASSUME NEW k, NEW st, Becomes(k, st)
    PROVE  /\ Now(k).inst = k /\ Now(k).disk = disk
           /\ inst'.seg = st.inst.seg /\ inst'.id = st.inst.id /\ inst'.next = st.inst.next
           /\ inst'.hasVideo = st.inst.hasVideo /\ inst'.failed = st.err
           /\ OnDisk(st) => HasFile'
           /\ inst.seg # NoSegment /\ HasFile => OnDisk(Now(k))
           /\ inst.seg = NoSegment \/ inst.seg.num \in Nat
           /\ st.inst.seg = NoSegment \/ st.inst.seg.num \in Nat
           /\ NoSegment.num = -1 /\ NoSegment.num \notin Nat
<1>1. Now(k).inst = k /\ Now(k).disk = disk
  BY DEF Now
<1>2. /\ inst'.seg = st.inst.seg /\ inst'.id = st.inst.id /\ inst'.next = st.inst.next
      /\ inst'.hasVideo = st.inst.hasVideo /\ inst'.failed = st.err
  BY DEF Becomes, Good, IsState, IsInstance, InstanceShape
<1>3. /\ inst.seg = NoSegment \/ inst.seg.num \in Nat
      /\ st.inst.seg = NoSegment \/ st.inst.seg.num \in Nat
  BY DEF Becomes, Good, IsState, IsInstance, InstanceShape, IsSegmentRecord
<1>4. NoSegment.num = -1
  BY DEF NoSegment
<1>5. OnDisk(st) => HasFile'
  <2>1. disk' = st.disk /\ \A ntp : Encode(ntp)' = Encode(ntp)
    BY DEF Becomes, Encode
  <2>2. \A f : Open(f)' <=> [stream |-> f.stream, num |-> f.num] = FileOf(st.inst)
    BY <1>2 DEF Open, FileOf
  <2>. QED
    BY <1>2, <2>1, <2>2 DEF OnDisk, HasFile, IsOpen
<1>6. ASSUME inst.seg # NoSegment, HasFile PROVE OnDisk(Now(k))
  <2>1. \A f : Open(f) <=> [stream |-> f.stream, num |-> f.num] = FileOf(k)
    BY DEF Open, FileOf, Becomes
  <2>. QED
    BY <1>1, <1>6, <2>1 DEF OnDisk, HasFile, IsOpen, Becomes
<1>. QED
  BY <1>1, <1>2, <1>3, <1>4, <1>5, <1>6

(* A step that stays within the segment.                                   *)
LEMMA StaysHere ==
    ASSUME NEW k, NEW st, Becomes(k, st), Within(Now(k), st), inst.seg = NoSegment => st.disk = disk
    PROVE  SegmentStays
<1>1. /\ st.inst.seg.num = inst.seg.num /\ st.inst.seg.dts = inst.seg.dts /\ st.inst.seg.ntp = inst.seg.ntp
      /\ Names(Now(k), st, inst.seg.ntp) /\ (OnDisk(Now(k)) => OnDisk(st))
  BY BecomesFields DEF Within, Becomes
<1>2. inst'.seg = NoSegment <=> inst.seg = NoSegment
  BY <1>1, BecomesFields
<1>3. ~starved' => ~starved
  BY <1>1 DEF Becomes
<1>4. HasFile => HasFile'
  <2>1. CASE inst.seg = NoSegment
    BY <1>2, <2>1 DEF HasFile, IsOpen
  <2>2. CASE inst.seg # NoSegment
    BY <1>1, <2>2, BecomesFields
  <2>. QED
    BY <2>1, <2>2
<1>5. ASSUME NEW g \in disk'
      PROVE  (\E f \in disk : f.name = g.name) \/ (inst.seg # NoSegment /\ g.name = Encode(inst.seg.ntp))
  <2>1. CASE inst.seg = NoSegment
    BY <2>1 DEF Becomes
  <2>2. CASE inst.seg # NoSegment
    BY <1>1, <2>2, BecomesFields DEF Names, Becomes
  <2>. QED
    BY <2>1, <2>2
<1>. QED
  BY <1>1, <1>2, <1>3, <1>4, <1>5, BecomesFields DEF SegmentStays

(* A step that starts a segment.                                           *)
LEMMA StartsHere ==
    ASSUME NEW k, NEW st, NEW s, NEW times, Becomes(k, st), StartsAt(Now(k), st, s, times),
           clock \in Nat, s.dts \in Nat
    PROVE  SegmentStarts(s, times)
<1>1. st.inst.seg.num \in Nat /\ st.inst.seg.dts = s.dts /\ st.inst.seg.ntp = s.ntp /\ OnDisk(st)
  BY DEF StartsAt
<1>2. inst'.seg # NoSegment
  BY <1>1, BecomesFields
<1>3. ASSUME ~starved', starved PROVE clock <= s.dts + KeyInterval
  <2>1. st.inst.seg.dts + KeyInterval >= clock
    BY <1>3 DEF Becomes
  <2>. QED
    BY <1>1, <2>1
<1>4. \A g \in disk' : (\E f \in disk : f.name = g.name) \/ \E ntp \in times : g.name = Encode(ntp)
  BY BecomesFields DEF StartsAt, Becomes
<1>. QED
  BY <1>1, <1>2, <1>3, <1>4, BecomesFields DEF SegmentStarts

(* A write of fMP4.                                                        *)
LEMMA FMP4IsWritten ==
    ASSUME NEW k, NEW x, NEW io, Good(setup.fmt, Now(k)), setup.fmt # "mpegts",
           Becomes(k, WriteFMP4(Now(k), inst.next[x.t], x, io)),
           clock \in Nat, inst.next[x.t] # None => inst.next[x.t].dts \in Nat,
           k.next[x.t] # None, NextSegmentStartingPos(k.next).dts \in Nat
    PROVE  UnitIsFMP4(x) /\ inst'.next = k.next /\ inst'.hasVideo = k.hasVideo
<1>. DEFINE a == Now(k)
            prev == inst.next[x.t]
            st == WriteFMP4(a, prev, x, io)
<1>1. StaysFMP4(a, prev, x, st) \/ BeginsFMP4(a, prev, x, st) \/ CutsFMP4(a, prev, x, st)
  BY WriteFMP4Outcome
<1>2. Becomes(k, st)
  OBVIOUS
<1>. HIDE DEF st
<1>3. a.inst = k /\ a.disk = disk /\ k.seg = inst.seg
  <2>1. k.seg = inst.seg
    BY <1>2 DEF Becomes
  <2>. QED
    BY <2>1 DEF Now
<1>4. st.inst.next = k.next /\ st.inst.hasVideo = k.hasVideo
  BY <1>1, <1>3 DEF StaysFMP4, BeginsFMP4, CutsFMP4, Within, StartsAt
<1>5. inst'.next = k.next /\ inst'.hasVideo = k.hasVideo /\ inst'.failed = st.err
  BY <1>2, <1>4, BecomesFields
<1>6. \A start : CutsAfter(inst', start, x) <=> CutsAfter(k, start, x)
  BY <1>5 DEF CutsAfter
<1>. HIDE DEF a, prev
<1>7. CASE StaysFMP4(a, prev, x, st)
  <2>1. SegmentStays
    BY <1>2, <1>3, <1>7, StaysHere DEF StaysFMP4, a
  <2>2. \/ inst'.failed \/ prev = None
        \/ inst.seg # NoSegment /\ (prev.dts < inst.seg.dts \/ ~CutsAfter(inst', inst.seg.dts, x))
    BY <1>3, <1>5, <1>6, <1>7 DEF StaysFMP4
  <2>. QED
    BY <1>5, <2>1, <2>2 DEF UnitIsFMP4, prev
<1>8. CASE BeginsFMP4(a, prev, x, st)
  <2>1. SegmentStarts(prev, {prev.ntp})
    <3>1. StartsAt(Now(k), st, prev, {prev.ntp}) /\ prev.dts \in Nat
      BY <1>8 DEF BeginsFMP4, a, prev
    <3>. QED
      BY <1>2, <3>1, StartsHere
  <2>2. prev # None /\ inst.seg = NoSegment /\ (inst'.failed \/ ~CutsAfter(inst', prev.dts, x))
    BY <1>3, <1>5, <1>6, <1>8 DEF BeginsFMP4
  <2>. QED
    BY <1>5, <2>1, <2>2 DEF UnitIsFMP4, prev
<1>9. CASE CutsFMP4(a, prev, x, st)
  <2>. DEFINE first == IF inst.seg = NoSegment THEN prev ELSE inst.seg
              w == NextSegmentStartingPos(k.next)
  <2>1. prev # None /\ CutsAfter(inst', first.dts, x) /\ StartsAt(Now(k), st, w, {first.ntp})
    BY <1>3, <1>6, <1>9 DEF CutsFMP4, a
  <2>2. SegmentStarts(w, {first.ntp})
    BY <1>2, <2>1, StartsHere
  <2>. QED
    BY <1>5, <2>1, <2>2 DEF UnitIsFMP4, prev
<1>. QED
  BY <1>1, <1>7, <1>8, <1>9

(* A write of MPEG-TS.                                                     *)
LEMMA MPEGTSIsWritten ==
    ASSUME NEW k, NEW x, NEW io, Good(setup.fmt, Now(k)), setup.fmt = "mpegts",
           Becomes(k, WriteMPEGTS(Now(k), x, io)), clock \in Nat, x.dts \in Nat
    PROVE  UnitIsMPEGTS(x) /\ inst'.next = k.next /\ inst'.hasVideo = k.hasVideo
<1>. DEFINE a == Now(k)
            st == WriteMPEGTS(a, x, io)
<1>1. StaysMPEGTS(a, x, st) \/ BeginsMPEGTS(a, x, st) \/ CutsMPEGTS(a, x, st)
  BY WriteMPEGTSOutcome
<1>2. Becomes(k, st)
  OBVIOUS
<1>. HIDE DEF st
<1>3. a.inst = k /\ a.disk = disk /\ k.seg = inst.seg
  BY <1>2, BecomesFields DEF Becomes
<1>4. st.inst.next = k.next /\ st.inst.hasVideo = k.hasVideo
  BY <1>1, <1>3 DEF StaysMPEGTS, BeginsMPEGTS, CutsMPEGTS, Within, StartsAt
<1>5. inst'.next = k.next /\ inst'.hasVideo = k.hasVideo /\ inst'.failed = st.err
  BY <1>2, <1>4, BecomesFields
<1>6. \A start : CutsAfter(inst', start, x) <=> CutsAfter(k, start, x)
  BY <1>5 DEF CutsAfter
<1>. HIDE DEF a
<1>7. CASE StaysMPEGTS(a, x, st)
  <2>1. SegmentStays
    BY <1>2, <1>3, <1>7, StaysHere DEF StaysMPEGTS, a
  <2>2. inst'.failed \/ (inst.seg # NoSegment /\ ~CutsAfter(inst', inst.seg.dts, x))
    BY <1>3, <1>5, <1>6, <1>7 DEF StaysMPEGTS
  <2>. QED
    BY <1>5, <2>1, <2>2 DEF UnitIsMPEGTS
<1>8. CASE BeginsMPEGTS(a, x, st)
  <2>1. SegmentStarts(x, {x.ntp}) /\ inst.seg = NoSegment
    BY <1>2, <1>3, <1>8, StartsHere DEF BeginsMPEGTS, a
  <2>. QED
    BY <1>5, <2>1 DEF UnitIsMPEGTS
<1>9. CASE CutsMPEGTS(a, x, st)
  <2>1. SegmentStarts(x, {inst.seg.ntp, x.ntp}) /\ inst.seg # NoSegment /\ CutsAfter(inst', inst.seg.dts, x)
    BY <1>2, <1>3, <1>6, <1>9, StartsHere DEF CutsMPEGTS, a
  <2>. QED
    BY <1>5, <2>1 DEF UnitIsMPEGTS
<1>. QED
  BY <1>1, <1>7, <1>8, <1>9

(* The write of a unit: to the instance k.                                 *)
UnitIsWrittenTo(k, u, st, io) ==
    /\ Becomes(k, st) /\ Good(setup.fmt, Now(k)) /\ k.number = inst.number
    /\ k.hasVideo = (inst.hasVideo \/ IsVideo(setup.medias[u.t]))
    /\ k.next = (IF setup.fmt = "mpegts" THEN inst.next ELSE [inst.next EXCEPT ![u.t] = u])
    /\ st = IF setup.fmt = "mpegts" THEN WriteMPEGTS(Now(k), u, io) ELSE WriteFMP4(Now(k), inst.next[u.t], u, io)

(* OnUnit: the unit, and where it is written.                              *)
LEMMA UnitGoesTo ==
    ASSUME Recorded, Timing, Waiting, NEW t, NEW key \in BOOLEAN, NEW late \in 0..1, NEW io,
           OnUnit(t, key, late, io)
    PROVE  LET u == UnitOf(t, key, late)
           IN  /\ u \in Sample /\ u.t = t /\ t \in Mine /\ AtWork /\ u.n = Len(units) + 1
               /\ clock - 1 <= u.dts /\ u.dts <= clock /\ u.ntp = u.dts + skew
               /\ \A v \in Range(units) : v.t = u.t => v.dts < u.dts
               /\ units' = Append(units, u) /\ setup' = setup
               /\ UnitIsDropped(u) \/ \E k, st : UnitIsWrittenTo(k, u, st, io)
<1>. DEFINE u == UnitOf(t, key, late)
            prev == inst.next[t]
            i == [inst EXCEPT !.keyed[t] = TRUE]
            j == HasVideo(i, t)
            k == [j EXCEPT !.next[t] = NeverBack(u, i.next[t])]
            st == Write(i, u, io)
<1>1. /\ AtWork /\ t \in Mine /\ late <= clock /\ setup' = setup
      /\ \A v \in Range(units) : v.t = t => v.dts < clock - late
      /\ units' = Append(units, u)
  BY DEF OnUnit, Reads, AtWork, Mine, UnitOf
<1>2. clock \in Nat /\ skew \in Int /\ Len(units) \in Nat /\ setup \in Setups /\ units \in Seq(Sample)
  BY DEF Timing
<1>3. /\ t \in 1..Len(setup.medias) /\ Len(setup.medias) \in Nat /\ DOMAIN setup.medias = 1..Len(setup.medias)
      /\ t \in Nat
  BY <1>1, <1>2, TracksAreFew
<1>4. u.t = t /\ u.key = key /\ u.dts = clock - late /\ u.ntp = u.dts + skew /\ u.dts \in Nat /\ u \in Sample
      /\ u.n = Len(units) + 1
  BY <1>1, <1>2, <1>3 DEF UnitOf, Sample
<1>5. clock - 1 <= u.dts /\ u.dts <= clock
  BY <1>2, <1>4
<1>6. \/ /\ disk' = st.disk /\ inst' = [st.inst EXCEPT !.failed = st.err]
         /\ starved' = (starved /\ ~(st.inst.seg.num # inst.seg.num /\ st.inst.seg.dts + KeyInterval >= clock))
      \/ UnitIsDropped(u)
  <2>1. CASE WaitsForKey(setup.medias[t]) => inst.keyed[t] \/ key
    BY <2>1 DEF OnUnit, UnitOf
  <2>2. CASE ~(WaitsForKey(setup.medias[t]) => inst.keyed[t] \/ key)
    BY <1>4, <2>2 DEF OnUnit, UnitIsDropped
  <2>. QED
    BY <2>1, <2>2
<1>7. CASE UnitIsDropped(u)
  BY <1>1, <1>4, <1>5, <1>7
<1>8. CASE /\ disk' = st.disk /\ inst' = [st.inst EXCEPT !.failed = st.err]
           /\ starved' = (starved /\ ~(st.inst.seg.num # inst.seg.num /\ st.inst.seg.dts + KeyInterval >= clock))
  <2>. HIDE DEF u
  <2>1. InstanceShape(inst) /\ Fine(inst, disk, events) /\ ~inst.done
    BY <1>1 DEF Recorded, Fine, AtWork
  <2>2. PICK kd : i = [inst EXCEPT !.keyed = kd]
    OBVIOUS
  <2>. HIDE DEF i
  <2>3. i.next = inst.next /\ i.seg = inst.seg /\ i.id = inst.id /\ i.hasVideo = inst.hasVideo
        /\ i.number = inst.number
    BY <2>1, <2>2 DEF InstanceShape
  <2>4. Fine(i, disk, events) /\ ~i.done /\ InstanceShape(i)
    BY <2>1, <2>2, OtherFieldsAreFine DEF Fine
  <2>5. j = [i EXCEPT !.hasVideo = i.hasVideo \/ IsVideo(setup.medias[t])]
    BY DEF HasVideo
  <2>. HIDE DEF j
  <2>6. Fine(j, disk, events) /\ ~j.done /\ InstanceShape(j)
    BY <2>4, <2>5, OtherFieldsAreFine DEF Fine
  <2>7. /\ j.next = inst.next /\ j.seg = inst.seg /\ j.id = inst.id /\ j.number = inst.number
        /\ j.hasVideo = (inst.hasVideo \/ IsVideo(setup.medias[t]))
    BY <2>3, <2>4, <2>5 DEF InstanceShape
  <2>8. NeverBack(u, i.next[t]) = u
    <3>1. CASE prev = None
      BY <2>3, <3>1 DEF NeverBack
    <3>2. CASE prev # None
      <4>1. prev \in Range(units) /\ prev.t = t
        BY <1>1, <1>3, <3>2 DEF Waiting, Waits
      <4>2. prev.dts < u.dts /\ prev.dts \in Nat
        BY <1>1, <1>4, <4>1, UnitsAreSamples
      <4>3. Later(u.dts, prev.dts) = u.dts
        BY <1>4, <4>2 DEF Later
      <4>4. [u EXCEPT !.dts = u.dts] = u
        BY <1>4 DEF Sample
      <4>. QED
        BY <2>3, <3>2, <4>3, <4>4 DEF NeverBack
    <3>. QED
      BY <3>1, <3>2
  <2>9. k = [j EXCEPT !.next = [inst.next EXCEPT ![t] = u]]
    BY <2>7, <2>8
  <2>. HIDE DEF k
  <2>10. Fine(k, disk, events) /\ ~k.done /\ InstanceShape(k)
    <3>1. PICK w : k = [j EXCEPT !.next = w]
      BY <2>9
    <3>. QED
      BY <2>6, <3>1, OtherFieldsAreFine DEF Fine
  <2>11. /\ k.next = [inst.next EXCEPT ![t] = u] /\ k.seg = inst.seg /\ k.id = inst.id /\ k.number = inst.number
         /\ k.hasVideo = (inst.hasVideo \/ IsVideo(setup.medias[t]))
    BY <2>6, <2>7, <2>9 DEF InstanceShape
  <2>12. Good(setup.fmt, Now(j)) /\ Good(setup.fmt, Now(k)) /\ Good(setup.fmt, st)
    BY <2>4, <2>6, <2>10, NowIsGood, WriteIsGood
  <2>13. st = IF setup.fmt = "mpegts" THEN WriteMPEGTS(Now(j), u, io) ELSE WriteFMP4(Now(k), inst.next[u.t], u, io)
    BY <1>4, <2>3, <2>8 DEF Write, j, k
  <2>. HIDE DEF st
  <2>14. CASE setup.fmt = "mpegts"
    <3>1. Becomes(j, st) /\ st = WriteMPEGTS(Now(j), u, io)
      BY <1>1, <1>8, <2>1, <2>6, <2>7, <2>12, <2>13, <2>14 DEF Becomes
    <3>2. UnitIsWrittenTo(j, u, st, io)
      BY <1>4, <2>7, <2>12, <2>14, <3>1 DEF UnitIsWrittenTo
    <3>. QED
      BY <1>1, <1>4, <1>5, <3>2 DEF u
  <2>15. CASE setup.fmt # "mpegts"
    <3>1. Becomes(k, st) /\ st = WriteFMP4(Now(k), inst.next[u.t], u, io)
      BY <1>1, <1>8, <2>1, <2>10, <2>11, <2>12, <2>13, <2>15 DEF Becomes
    <3>2. UnitIsWrittenTo(k, u, st, io)
      BY <1>4, <2>11, <2>12, <2>15, <3>1 DEF UnitIsWrittenTo
    <3>. QED
      BY <1>1, <1>4, <1>5, <3>2 DEF u
  <2>. QED
    BY <2>14, <2>15
<1>. QED
  BY <1>6, <1>7, <1>8

(* OnUnit: the unit, and what becomes of the segment.                      *)
LEMMA UnitHasOutcome ==
    ASSUME Recorded, Timing, Waiting, NEW t, NEW key \in BOOLEAN, NEW late \in 0..1, NEW io,
           OnUnit(t, key, late, io)
    PROVE  LET u == UnitOf(t, key, late)
           IN  /\ u \in Sample /\ u.t \in Mine /\ clock - 1 <= u.dts /\ u.dts <= clock /\ u.ntp = u.dts + skew
               /\ \A v \in Range(units) : v.t = u.t => v.dts < u.dts
               /\ units' = Append(units, u)
               /\ UnitIsDropped(u) \/ UnitIsWritten(u)
<1>. DEFINE u == UnitOf(t, key, late)
            len == Len(setup.medias)
<1>1. /\ u \in Sample /\ u.t = t /\ t \in Mine /\ AtWork
      /\ clock - 1 <= u.dts /\ u.dts <= clock /\ u.ntp = u.dts + skew
      /\ \A v \in Range(units) : v.t = u.t => v.dts < u.dts
      /\ units' = Append(units, u)
      /\ UnitIsDropped(u) \/ \E k, st : UnitIsWrittenTo(k, u, st, io)
  BY UnitGoesTo
<1>. HIDE DEF u
<1>2. clock \in Nat /\ setup \in Setups
  BY DEF Timing
<1>3. t \in 1..len /\ len \in Nat /\ DOMAIN setup.medias = 1..len
  BY <1>1, <1>2, TracksAreFew
<1>4. u.dts \in Nat /\ u # None
  BY <1>1, RecorderAssumption DEF Sample
<1>5. ASSUME NEW k, NEW st, UnitIsWrittenTo(k, u, st, io) PROVE UnitIsWritten(u)
  <2>1. CASE setup.fmt = "mpegts"
    <3>1. Becomes(k, WriteMPEGTS(Now(k), u, io)) /\ Good(setup.fmt, Now(k))
      BY <1>5, <2>1 DEF UnitIsWrittenTo
    <3>2. UnitIsMPEGTS(u) /\ inst'.next = k.next /\ inst'.hasVideo = k.hasVideo
      BY <1>2, <1>4, <2>1, <3>1, MPEGTSIsWritten
    <3>. QED
      BY <1>5, <2>1, <3>2 DEF UnitIsWritten, UnitIsWrittenTo
  <2>2. CASE setup.fmt # "mpegts"
    <3>1. /\ Becomes(k, WriteFMP4(Now(k), inst.next[u.t], u, io)) /\ Good(setup.fmt, Now(k))
          /\ k.next = [inst.next EXCEPT ![t] = u]
      BY <1>1, <1>5, <2>2 DEF UnitIsWrittenTo
    <3>2. inst.next \in [1..len -> Sample \cup {None}]
      BY <1>3 DEF Waiting
    <3>3. k.next \in [1..len -> Sample \cup {None}] /\ k.next[t] = u
      BY <1>1, <1>3, <3>1, <3>2
    <3>4. \A v \in 1..len : inst.next[v] # None => inst.next[v].dts \in Nat /\ inst.next[v].dts <= clock
      <4>1. \A v \in 1..len : inst.next[v] # None => inst.next[v] \in Range(units)
        BY <1>1, <1>3 DEF Waiting, Waits
      <4>. QED
        BY <4>1, UnitsAreSamples
    <3>5. \A v \in 1..len : k.next[v] # None => k.next[v].dts \in Nat /\ k.next[v].dts <= clock
      BY <1>1, <1>3, <1>4, <3>1, <3>2, <3>4
    <3>6. NextSegmentStartingPos(k.next).dts \in Nat
      <4>. DEFINE next == k.next
      <4>. HIDE DEF len, next
      <4>1. /\ len \in Nat /\ next \in [1..len -> Sample \cup {None}] /\ \E v \in 1..len : next[v] # None
            /\ \A v \in 1..len : next[v] # None => next[v].dts \in Nat /\ next[v].dts <= clock
        BY <1>3, <1>4, <3>3, <3>5 DEF next
      <4>2. PICK v \in 1..len : next[v] # None /\ NextSegmentStartingPos(next) = next[v]
        BY <1>2, <4>1, NextSegmentStarts
      <4>. QED
        BY <4>1, <4>2 DEF next
    <3>7. UnitIsFMP4(u) /\ inst'.next = k.next /\ inst'.hasVideo = k.hasVideo
      BY <1>1, <1>2, <1>3, <1>4, <2>2, <3>1, <3>3, <3>4, <3>6, FMP4IsWritten
    <3>. QED
      BY <1>5, <2>2, <3>7 DEF UnitIsWritten, UnitIsWrittenTo
  <2>. QED
    BY <2>1, <2>2
<1>. QED
  BY <1>1, <1>5 DEF u

-----------------------------------------------------------------------------
(* A segment that starts at a sample that waits is in time if it is young. *)
LEMMA FreshFMP4 ==
    Timing /\ Waiting /\ AtWork /\ setup.fmt = "fmp4" /\ RetentionIsLong =>
        \A x \in Mine : /\ Waits(x) => inst.next[x].dts \in Nat
                        /\ Waits(x) /\ clock < inst.next[x].dts + SegmentDuration + KeyInterval
                             => InTime(inst.next[x].dts, x)
<1>. SUFFICES ASSUME Timing, Waiting, AtWork, setup.fmt = "fmp4", RetentionIsLong,
                     NEW x \in Mine, Waits(x)
              PROVE  /\ inst.next[x].dts \in Nat
                     /\ clock < inst.next[x].dts + SegmentDuration + KeyInterval => InTime(inst.next[x].dts, x)
  OBVIOUS
<1>. DEFINE start == inst.next[x].dts
<1>1. x \in DOMAIN setup.medias
  BY TracksAreFew DEF Timing
<1>2. inst.next[x] \in Range(units) /\ rec.since <= start
  BY <1>1 DEF Waiting
<1>3. start \in Nat /\ SegmentDuration \in Nat /\ SegmentDuration > 0 /\ rec.since \in Nat
  BY <1>2, UnitsAreSamples, RecorderAssumption DEF RetentionIsLong, Timing
<1>. HIDE DEF start
<1>4. ASSUME NEW v \in Range(units), Cuts(v), start + SegmentDuration <= v.dts
      PROVE  v.t \in Ready(start, x)
  <2>1. v.dts \in Nat /\ v.t \in Mine
    BY UnitsAreSamples
  <2>2. rec.since < v.dts /\ v.key
    BY <1>2, <1>3, <1>4, <2>1 DEF Cuts
  <2>3. Waits(v.t) /\ v.dts <= inst.next[v.t].dts
    BY <2>2 DEF Waiting
  <2>4. v.t \in DOMAIN setup.medias
    BY <2>1, TracksAreFew DEF Timing
  <2>5. inst.next[v.t].dts \in Nat
    <3>1. inst.next[v.t] \in Range(units)
      BY <2>3, <2>4 DEF Waiting
    <3>. QED
      BY <3>1, UnitsAreSamples
  <2>6. v.t # x
    BY <1>3, <1>4, <2>1, <2>3 DEF start
  <2>. QED
    BY <1>3, <1>4, <2>1, <2>3, <2>5, <2>6 DEF Ready
<1>5. ASSUME clock < start + SegmentDuration + KeyInterval PROVE InTime(start, x)
  <2>1. Fresh(start, x)
    BY <1>4, <1>5 DEF Fresh
  <2>. QED
    BY <1>3, <2>1, FreshInTime
<1>. QED
  BY <1>3, <1>5 DEF start

(* Of MPEG-TS, any segment that has just started is.                       *)
LEMMA FreshMPEGTS ==
    Timing /\ RetentionIsLong => \A x \in Mine, start \in Nat : clock <= start + 1 => InTime(start, x)
<1>. SUFFICES ASSUME Timing, RetentionIsLong, NEW x \in Mine, NEW start \in Nat, clock <= start + 1
              PROVE  InTime(start, x)
  OBVIOUS
<1>1. clock \in Nat /\ SegmentDuration \in Nat /\ SegmentDuration > 1 /\ KeyInterval \in Nat /\ KeyInterval > 0
  BY RecorderAssumption DEF Timing, RetentionIsLong
<1>2. \A v \in Range(units) : v.dts \in Nat /\ v.dts <= clock
  BY UnitsAreSamples
<1>3. Fresh(start, x)
  BY <1>1, <1>2 DEF Fresh
<1>. QED
  BY <1>3, FreshInTime

-----------------------------------------------------------------------------
(* OnUnit, without the instance that it writes to.                         *)
UnitIsTaken(u) ==
    /\ AtWork /\ UNCHANGED <<clock, setup, skew, rec, deleteAfter, cleaner>>
    /\ u \in Sample /\ u.t \in Mine /\ clock - 1 <= u.dts /\ u.dts <= clock /\ u.ntp = u.dts + skew
    /\ rec.since <= u.dts
    /\ \A v \in Range(units) : v.t = u.t => v.dts < u.dts
    /\ units' = Append(units, u) /\ Range(units') = Range(units) \cup {u}
    /\ UnitIsDropped(u) \/ UnitIsWritten(u)

(* That is what it does.                                                   *)
LEMMA OnUnitTakes ==
    ASSUME Recorded, Timing, Waiting, NEW t, NEW key \in BOOLEAN, NEW late \in 0..1, NEW io,
           OnUnit(t, key, late, io), UNCHANGED cleanerVars
    PROVE  UnitIsTaken(UnitOf(t, key, late))
<1>. DEFINE u == UnitOf(t, key, late)
<1>1. /\ u \in Sample /\ u.t \in Mine /\ clock - 1 <= u.dts /\ u.dts <= clock /\ u.ntp = u.dts + skew
      /\ \A v \in Range(units) : v.t = u.t => v.dts < u.dts
      /\ units' = Append(units, u)
      /\ UnitIsDropped(u) \/ UnitIsWritten(u)
  BY UnitHasOutcome
<1>. HIDE DEF u
<1>2. AtWork /\ clock < EndOfTime /\ UNCHANGED <<clock, setup, skew, rec, deleteAfter, cleaner>>
  BY DEF OnUnit, Reads, AtWork, cleanerVars
<1>3. rec.since <= u.dts
  <2>1. u.dts \in Nat /\ clock \in Nat /\ rec.since \in Nat
    BY <1>1 DEF Sample, Timing
  <2>2. rec.since < clock \/ rec.since = 0
    BY <1>2, <2>1 DEF Timing, AtWork
  <2>. QED
    BY <1>1, <2>1, <2>2
<1>4. Range(units') = Range(units) \cup {u}
  BY <1>1, OneMoreUnit DEF Timing
<1>5. UnitIsTaken(u)
  BY <1>1, <1>2, <1>3, <1>4 DEF UnitIsTaken
<1>. QED
  BY <1>5 DEF u

(* A unit, and the times.                                                  *)
LEMMA UnitTiming ==
    ASSUME Timing, NEW u, UnitIsTaken(u)
    PROVE  Timing'
<1>1. /\ UNCHANGED <<clock, setup, skew, rec, deleteAfter>> /\ Mine' = Mine
      /\ Range(units') = Range(units) \cup {u} /\ units' = Append(units, u)
      /\ u \in Sample /\ u.dts \in Nat /\ u.t \in Mine /\ clock - 1 <= u.dts /\ u.dts <= clock
      /\ u.ntp = u.dts + skew /\ clock \in Nat /\ skew \in Int
  BY DEF UnitIsTaken, Timing, Mine, Sample
<1>2. units' \in Seq(Sample)
  BY <1>1, OneMoreUnit DEF Timing
<1>3. \A v \in Range(units') : v.dts \in Nat /\ v.dts <= clock /\ v.t \in Mine
  BY <1>1, UnitsAreSamples DEF Timing
<1>5. rec.phase # "paused"
  BY DEF UnitIsTaken, AtWork
<1>. QED
  BY <1>1, <1>2, <1>3, <1>5 DEF Timing, EndOfTime

(* A unit, and the samples that wait.                                      *)
LEMMA UnitWaits ==
    ASSUME Timing, Waiting, NEW u, UnitIsTaken(u)
    PROVE  /\ inst'.next \in [DOMAIN setup.medias -> Sample \cup {None}]
           /\ \A t \in DOMAIN setup.medias : inst'.next[t] # None =>
                /\ t \in Mine /\ inst'.next[t] \in Range(units') /\ inst'.next[t].t = t
                /\ rec.since <= inst'.next[t].dts /\ inst'.next[t].dts \in Nat /\ inst'.next[t].dts <= clock
           /\ \A t \in DOMAIN setup.medias : Waits(t) => Waits(t)' /\ inst.next[t].dts <= inst'.next[t].dts
           /\ setup.fmt = "mpegts" => inst'.next = inst.next
           /\ UnitIsWritten(u) /\ setup.fmt # "mpegts" => inst'.next[u.t] = u
<1>0. Mine \subseteq DOMAIN setup.medias
  BY TracksAreFew DEF Timing
<1>1. /\ AtWork /\ u \in Sample /\ u.dts \in Nat /\ u.t \in Mine /\ u.t \in DOMAIN setup.medias /\ u.dts <= clock
      /\ rec.since <= u.dts /\ Range(units') = Range(units) \cup {u} /\ u # None
  BY <1>0, RecorderAssumption DEF UnitIsTaken, Sample
<1>2. /\ inst.next \in [DOMAIN setup.medias -> Sample \cup {None}]
      /\ \A t \in DOMAIN setup.medias : Waits(t) =>
           /\ t \in Mine /\ inst.next[t] \in Range(units) /\ inst.next[t].t = t /\ rec.since <= inst.next[t].dts
           /\ inst.next[t].dts \in Nat /\ inst.next[t].dts <= clock
  BY <1>1, UnitsAreSamples DEF Waiting
<1>3. CASE inst'.next = inst.next /\ (UnitIsWritten(u) => setup.fmt = "mpegts")
  BY <1>1, <1>2, <1>3 DEF Waits
<1>4. CASE inst'.next = [inst.next EXCEPT ![u.t] = u] /\ setup.fmt # "mpegts"
  <2>1. inst'.next \in [DOMAIN setup.medias -> Sample \cup {None}] /\ inst'.next[u.t] = u
        /\ \A t \in DOMAIN setup.medias : t # u.t => inst'.next[t] = inst.next[t]
    BY <1>1, <1>2, <1>4
  <2>2. Waits(u.t) => inst.next[u.t].dts <= u.dts
    <3>1. Waits(u.t) => inst.next[u.t].dts < u.dts
      BY <1>1, <1>2 DEF UnitIsTaken
    <3>. QED
      BY <1>1, <1>2, <3>1
  <2>3. ASSUME NEW t \in DOMAIN setup.medias, inst'.next[t] # None
        PROVE  /\ t \in Mine /\ inst'.next[t] \in Range(units') /\ inst'.next[t].t = t
               /\ rec.since <= inst'.next[t].dts /\ inst'.next[t].dts \in Nat /\ inst'.next[t].dts <= clock
    <3>1. CASE t = u.t
      BY <1>1, <2>1, <3>1
    <3>2. CASE t # u.t
      BY <1>1, <1>2, <2>1, <2>3, <3>2 DEF Waits
    <3>. QED
      BY <3>1, <3>2
  <2>4. ASSUME NEW t \in DOMAIN setup.medias, Waits(t)
        PROVE  Waits(t)' /\ inst.next[t].dts <= inst'.next[t].dts
    <3>1. CASE t = u.t
      BY <1>1, <2>1, <2>2, <2>4, <3>1 DEF Waits
    <3>2. CASE t # u.t
      BY <1>2, <2>1, <2>4, <3>2 DEF Waits
    <3>. QED
      BY <3>1, <3>2
  <2>. QED
    BY <1>4, <2>1, <2>3, <2>4
<1>5. \/ inst'.next = inst.next /\ (UnitIsWritten(u) => setup.fmt = "mpegts")
      \/ inst'.next = [inst.next EXCEPT ![u.t] = u] /\ setup.fmt # "mpegts"
  BY DEF UnitIsTaken, UnitIsDropped, UnitIsWritten
<1>. QED
  BY <1>3, <1>4, <1>5

(* Where the next segment starts, after a unit.                            *)
LEMMA NextIsThere ==
    ASSUME Timing, Waiting, NEW u, UnitIsTaken(u), UnitIsWritten(u), setup.fmt # "mpegts"
    PROVE  \E t \in Mine :
             /\ inst'.next[t] # None /\ NextSegmentStartingPos(inst'.next) = inst'.next[t]
             /\ u.dts - inst'.next[t].dts <= MaxBasetime
<1>1. Mine \subseteq DOMAIN setup.medias /\ Len(setup.medias) \in Nat /\ DOMAIN setup.medias = 1..Len(setup.medias)
  BY TracksAreFew DEF Timing
<1>2. u.t \in 1..Len(setup.medias) /\ u # None /\ clock \in Nat
  BY <1>1, RecorderAssumption DEF UnitIsTaken, Timing
<1>3. /\ inst'.next \in [1..Len(setup.medias) -> Sample \cup {None}] /\ inst'.next[u.t] = u
      /\ \A t \in 1..Len(setup.medias) : inst'.next[t] # None => t \in Mine /\ inst'.next[t].dts <= clock
  BY <1>1, UnitWaits
<1>. DEFINE len == Len(setup.medias)
            next == inst'.next
<1>. HIDE DEF len, next
<1>4. /\ len \in Nat /\ next \in [1..len -> Sample \cup {None}] /\ \E t \in 1..len : next[t] # None
      /\ \A t \in 1..len : next[t] # None => next[t].dts <= clock
  BY <1>1, <1>2, <1>3 DEF len, next
<1>5. PICK t \in 1..len : /\ next[t] # None /\ NextSegmentStartingPos(next) = next[t]
                          /\ \A v \in 1..len : next[v] # None => next[v].dts - next[t].dts <= MaxBasetime
  BY <1>2, <1>4, NextSegmentStarts
<1>. QED
  BY <1>2, <1>3, <1>5 DEF len, next

(* What becomes of the segment: it stays, or starts at a unit.             *)
LEMMA SegmentIsOfUnit ==
    ASSUME Timing, Waiting, NEW u, UnitIsTaken(u), inst'.seg # NoSegment
    PROVE  \E v \in Range(units') : v.dts = inst'.seg.dts /\ v.ntp = inst'.seg.ntp /\ rec.since <= v.dts
<1>0. Mine \subseteq DOMAIN setup.medias
  BY TracksAreFew DEF Timing
<1>1. /\ AtWork /\ u.t \in DOMAIN setup.medias /\ Range(units') = Range(units) \cup {u} /\ rec.since <= u.dts
  BY <1>0 DEF UnitIsTaken
<1>2. CASE SegmentStays \/ UnitIsDropped(u)
  <2>1. inst.seg # NoSegment /\ inst'.seg.dts = inst.seg.dts /\ inst'.seg.ntp = inst.seg.ntp
    BY <1>2 DEF SegmentStays, UnitIsDropped
  <2>. QED
    BY <1>1, <2>1 DEF Waiting, AtWork
<1>3. ASSUME NEW times, inst.next[u.t] # None, SegmentStarts(inst.next[u.t], times)
      PROVE  \E v \in Range(units') : v.dts = inst'.seg.dts /\ v.ntp = inst'.seg.ntp /\ rec.since <= v.dts
  <2>1. inst.next[u.t] \in Range(units) /\ rec.since <= inst.next[u.t].dts
    BY <1>1, <1>3 DEF Waiting, Waits
  <2>. QED
    BY <1>1, <1>3, <2>1 DEF SegmentStarts
<1>4. ASSUME NEW times, SegmentStarts(u, times)
      PROVE  \E v \in Range(units') : v.dts = inst'.seg.dts /\ v.ntp = inst'.seg.ntp /\ rec.since <= v.dts
  BY <1>1, <1>4 DEF SegmentStarts
<1>5. ASSUME NEW times, UnitIsWritten(u), setup.fmt # "mpegts",
             SegmentStarts(NextSegmentStartingPos(inst'.next), times)
      PROVE  \E v \in Range(units') : v.dts = inst'.seg.dts /\ v.ntp = inst'.seg.ntp /\ rec.since <= v.dts
  <2>1. PICK t \in Mine : inst'.next[t] # None /\ NextSegmentStartingPos(inst'.next) = inst'.next[t]
    BY <1>5, NextIsThere
  <2>2. inst'.next[t] \in Range(units') /\ rec.since <= inst'.next[t].dts
    BY <1>0, <2>1, UnitWaits
  <2>. QED
    BY <1>5, <2>1, <2>2 DEF SegmentStarts
<1>. QED
  BY <1>2, <1>3, <1>4, <1>5 DEF UnitIsTaken, UnitIsWritten, UnitIsFMP4, UnitIsMPEGTS

(* A unit keeps what waits as it should be.                                *)
LEMMA UnitWaiting ==
    ASSUME Timing, Waiting, NEW u, UnitIsTaken(u)
    PROVE  Waiting'
<1>0. Mine \subseteq DOMAIN setup.medias
  BY TracksAreFew DEF Timing
<1>1. /\ AtWork /\ u.t \in DOMAIN setup.medias /\ Range(units') = Range(units) \cup {u}
      /\ UNCHANGED <<clock, setup, rec>> /\ Mine' = Mine /\ u.dts \in Nat
      /\ \A v \in Range(units) : v.dts \in Nat
  BY <1>0, UnitsAreSamples DEF UnitIsTaken, Mine, Sample
<1>2. inst'.hasVideo \in BOOLEAN
  BY DEF Waiting, UnitIsTaken, UnitIsDropped, UnitIsWritten, IsVideo
<1>3. setup.fmt = "mpegts" => \A t \in Mine : ~Waits(t)'
  BY UnitWaits DEF Waiting, Waits
<1>4. ASSUME setup.fmt = "fmp4", NEW v \in Range(units'), v.key, rec.since < v.dts
      PROVE  Waits(v.t)' /\ v.dts <= inst'.next[v.t].dts
  <2>1. CASE v \in Range(units)
    <3>1. Waits(v.t) /\ v.dts <= inst.next[v.t].dts /\ v.t \in DOMAIN setup.medias
      BY <1>0, <1>1, <1>4, <2>1, UnitsAreSamples DEF Waiting
    <3>2. inst.next[v.t] \in Range(units)
      BY <1>1, <3>1 DEF Waiting
    <3>3. Waits(v.t)' /\ inst.next[v.t].dts <= inst'.next[v.t].dts /\ inst'.next[v.t].dts \in Nat
      BY <3>1, UnitWaits DEF Waits
    <3>. QED
      BY <1>1, <2>1, <3>1, <3>2, <3>3
  <2>2. CASE v = u
    <3>1. UnitIsWritten(u)
      BY <1>4, <2>2 DEF UnitIsTaken, UnitIsDropped
    <3>2. inst'.next[u.t] = u /\ u # None
      BY <1>4, <3>1, UnitWaits, RecorderAssumption DEF UnitIsTaken
    <3>. QED
      BY <1>1, <2>2, <3>2 DEF Waits
  <2>. QED
    BY <1>1, <2>1, <2>2
<1>5. \A t \in DOMAIN setup.medias : Waits(t)' =>
         /\ t \in Mine /\ inst'.next[t] \in Range(units') /\ inst'.next[t].t = t /\ rec.since <= inst'.next[t].dts
  BY UnitWaits DEF Waits
<1>6. inst'.next \in [DOMAIN setup.medias -> Sample \cup {None}]
  BY UnitWaits
<1>7. inst'.seg # NoSegment =>
         \E v \in Range(units') : v.dts = inst'.seg.dts /\ v.ntp = inst'.seg.ntp /\ rec.since <= v.dts
  BY SegmentIsOfUnit
<1>. QED
  BY <1>1, <1>2, <1>3, <1>4, <1>5, <1>6, <1>7 DEF Waiting

(* A unit that does not cut a segment leaves it in time.                   *)
LEMMA UnitKeepsInTime ==
    ASSUME Timing, Waiting, NEW u, UnitIsTaken(u), NEW start \in Nat, NEW h, InTime(start, h),
           \/ ~CutsAfter(inst', start, u)
           \/ u.t # h /\ u.t \notin Ready(start, h) /\ inst'.next[u.t] = u
    PROVE  InTime(start, h)'
<1>0. Mine \subseteq DOMAIN setup.medias
  BY TracksAreFew DEF Timing
<1>1. /\ u \in Sample /\ u.t \in Mine /\ u.dts <= clock
      /\ units' = Append(units, u) /\ clock' = clock /\ setup' = setup
  BY DEF UnitIsTaken
<1>2. inst.hasVideo => inst'.hasVideo
  BY DEF UnitIsTaken, UnitIsDropped, UnitIsWritten
<1>3. \A t \in Mine : Waits(t) => Waits(t)' /\ inst.next[t].dts <= inst'.next[t].dts
  BY <1>0, UnitWaits
<1>4. \A t \in Mine : inst'.next[t] \in Sample \cup {None} /\ inst.next[t] \in Sample \cup {None}
  BY <1>0, UnitWaits DEF Waiting
<1>5. Cuts(u)' /\ start + SegmentDuration <= u.dts => u.t # h /\ u.t \notin Ready(start, h) /\ inst'.next[u.t] = u
  <2>1. u.dts \in Nat /\ SegmentDuration \in Nat
    BY <1>1, RecorderAssumption DEF Sample
  <2>2. Cuts(u)' /\ start + SegmentDuration <= u.dts => CutsAfter(inst', start, u)
    BY <1>1, <2>1 DEF Cuts, CutsAfter
  <2>. QED
    BY <2>2
<1>. QED
  BY <1>1, <1>2, <1>3, <1>4, <1>5, UnitInTime

(* Where a segment may start after a unit.                                 *)
LEMMA UnitIsFresh ==
    ASSUME Timing, Waiting, NEW u, UnitIsTaken(u), RetentionIsLong, AtWork'
    PROVE  /\ setup.fmt = "fmp4" =>
                \A t \in Mine : inst'.next[t] # None /\ u.dts - inst'.next[t].dts <= MaxBasetime
                                  => \E start \in Nat : start = inst'.next[t].dts /\ InTime(start, t)'
           /\ \E start \in Nat : start = u.dts /\ InTime(start, u.t)'
<1>0. Mine \subseteq DOMAIN setup.medias
  BY TracksAreFew DEF Timing
<1>1. /\ u \in Sample /\ u.dts \in Nat /\ u.t \in Mine /\ clock - 1 <= u.dts /\ clock \in Nat
      /\ clock' = clock /\ setup' = setup /\ Mine' = Mine
      /\ SegmentDuration \in Nat /\ MaxBasetime \in Nat /\ MaxBasetime < SegmentDuration /\ KeyInterval \in Nat \ {0}
  BY RecorderAssumption DEF UnitIsTaken, Sample, Mine, RetentionIsLong, Timing
<1>2. Timing' /\ Waiting' /\ RetentionIsLong
  BY UnitTiming, UnitWaiting
<1>3. (Timing /\ Waiting /\ AtWork /\ setup.fmt = "fmp4" /\ RetentionIsLong =>
        \A x \in Mine : /\ Waits(x) => inst.next[x].dts \in Nat
                        /\ Waits(x) /\ clock < inst.next[x].dts + SegmentDuration + KeyInterval
                             => InTime(inst.next[x].dts, x))'
  BY FreshFMP4, PTL
<1>4. (Timing /\ RetentionIsLong => \A x \in Mine, start \in Nat : clock <= start + 1 => InTime(start, x))'
  BY FreshMPEGTS, PTL
<1>5. ASSUME setup.fmt = "fmp4", NEW t \in Mine, inst'.next[t] # None, u.dts - inst'.next[t].dts <= MaxBasetime
      PROVE  \E start \in Nat : start = inst'.next[t].dts /\ InTime(start, t)'
  <2>1. inst'.next[t].dts \in Nat
    BY <1>0, <1>5, UnitWaits
  <2>2. clock < inst'.next[t].dts + SegmentDuration + KeyInterval
    BY <1>1, <1>5, <2>1
  <2>3. InTime(inst.next[t].dts, t)'
    BY <1>1, <1>2, <1>3, <1>5, <2>2 DEF Waits
  <2>4. PICK start \in Nat : start = inst'.next[t].dts
    BY <2>1
  <2>5. InTime(start, t)'
    BY <2>3, <2>4 DEF InTime, Ready
  <2>. QED
    BY <2>4, <2>5
<1>6. clock' <= u.dts + 1
  BY <1>1
<1>7. \E start \in Nat : start = u.dts /\ InTime(start, u.t)'
  BY <1>1, <1>2, <1>4, <1>6
<1>. QED
  BY <1>5, <1>7

(* A segment at hand that is in time.                                      *)
SegmentInTime(h) ==
    /\ h \in Mine /\ InTime(inst.seg.dts, h)
    /\ setup.fmt = "fmp4" => Waits(h) /\ inst.seg.dts <= inst.next[h].dts

(* It stays, and nothing cuts it.                                          *)
LEMMA StaysInTime ==
    ASSUME Timing, Waiting, NEW u, UnitIsTaken(u), NEW h, SegmentInTime(h), inst.seg # NoSegment,
           inst'.seg.dts = inst.seg.dts,
           \/ ~CutsAfter(inst', inst.seg.dts, u)
           \/ /\ setup.fmt = "fmp4" /\ UnitIsWritten(u)
              /\ inst.next[u.t] = None \/ inst.next[u.t].dts < inst.seg.dts
    PROVE  SegmentInTime(h)'
<1>0. Mine \subseteq DOMAIN setup.medias
  BY TracksAreFew DEF Timing
<1>1. /\ h \in Mine /\ h \in DOMAIN setup.medias /\ u.t \in Mine /\ u.t \in DOMAIN setup.medias
      /\ setup' = setup /\ Mine' = Mine /\ AtWork /\ SegmentDuration \in Nat
  BY <1>0, RecorderAssumption DEF SegmentInTime, UnitIsTaken, Mine
<1>2. PICK start \in Nat : start = inst.seg.dts
  <2>1. PICK v \in Range(units) : v.dts = inst.seg.dts
    BY <1>1 DEF Waiting, AtWork
  <2>. QED
    BY <2>1, UnitsAreSamples
<1>3. InTime(start, h)
  BY <1>2 DEF SegmentInTime
<1>4. ASSUME setup.fmt = "fmp4"
      PROVE  Waits(h)' /\ start <= inst'.next[h].dts
  <2>1. Waits(h) /\ start <= inst.next[h].dts
    BY <1>2, <1>4 DEF SegmentInTime
  <2>2. inst.next[h].dts \in Nat
    BY <1>1, <2>1, UnitsAreSamples DEF Waiting
  <2>3. Waits(h)' /\ inst.next[h].dts <= inst'.next[h].dts
    BY <1>1, <2>1, UnitWaits
  <2>4. inst'.next[h].dts \in Nat
    BY <1>1, <2>3, UnitWaits DEF Waits
  <2>. QED
    BY <2>1, <2>2, <2>3, <2>4
<1>5. ASSUME ~CutsAfter(inst', inst.seg.dts, u) PROVE InTime(start, h)'
  BY <1>2, <1>3, <1>5, UnitKeepsInTime
<1>6. ASSUME setup.fmt = "fmp4", UnitIsWritten(u), inst.next[u.t] = None \/ inst.next[u.t].dts < inst.seg.dts
      PROVE  InTime(start, h)'
  <2>1. inst'.next[u.t] = u
    BY <1>6, UnitWaits
  <2>2. Waits(u.t) => inst.next[u.t].dts \in Nat /\ inst.next[u.t].dts < start
    BY <1>1, <1>2, <1>6, UnitsAreSamples DEF Waiting, Waits
  <2>3. u.t \notin Ready(start, h)
    BY <1>1, <2>2 DEF Ready
  <2>4. u.t # h
    BY <1>2, <1>6, <2>2 DEF SegmentInTime
  <2>. QED
    BY <1>3, <2>1, <2>3, <2>4, UnitKeepsInTime
<1>7. InTime(start, h)'
  BY <1>5, <1>6
<1>8. start = inst'.seg.dts
  BY <1>2
<1>9. InTime(inst.seg.dts, h)'
  BY <1>7, <1>8 DEF InTime, Ready
<1>. QED
  BY <1>1, <1>4, <1>8, <1>9 DEF SegmentInTime

(* It starts.                                                              *)
LEMMA StartsInTime ==
    ASSUME NEW h, NEW start, InTime(start, h)', inst'.seg.dts = start, h \in Mine, Mine' = Mine, setup' = setup,
           setup.fmt = "fmp4" => inst'.next[h] # None /\ start <= inst'.next[h].dts
    PROVE  SegmentInTime(h)'
<1>1. InTime(inst.seg.dts, h)'
  BY DEF InTime, Ready
<1>. QED
  BY <1>1 DEF SegmentInTime, Waits

(* Nothing is recorded yet: the sample of each track that waits may start  *)
(* the first segment.                                                      *)
LEMMA NothingYetInTime ==
    ASSUME Timing, Waiting, NEW u, UnitIsTaken(u), RetentionIsLong, AtWork',
           \A t \in Mine : Waits(t) => InTime(inst.next[t].dts, t),
           \/ UnitIsDropped(u)
           \/ UnitIsWritten(u) /\ setup.fmt = "fmp4" /\ inst.next[u.t] = None
    PROVE  \A t \in Mine : Waits(t)' => InTime(inst.next[t].dts, t)'
<1>0. Mine \subseteq DOMAIN setup.medias
  BY TracksAreFew DEF Timing
<1>1. /\ u.t \in Mine /\ u.t \in DOMAIN setup.medias /\ AtWork /\ u \in Sample
      /\ inst.next \in [DOMAIN setup.medias -> Sample \cup {None}]
  BY <1>0 DEF UnitIsTaken, Waiting
<1>2. SUFFICES ASSUME NEW t \in Mine, Waits(t)'
               PROVE  InTime(inst.next[t].dts, t)'
  OBVIOUS
<1>3. PICK start \in Nat : start = inst'.next[t].dts
  BY <1>0, <1>2, UnitWaits DEF Waits
<1>4. CASE UnitIsWritten(u) /\ setup.fmt = "fmp4" /\ t = u.t
  <2>1. inst'.next[u.t] = u
    BY <1>4, UnitWaits
  <2>2. InTime(start, t)'
    BY <1>3, <1>4, <2>1, UnitIsFresh
  <2>. QED
    BY <1>3, <2>2 DEF InTime, Ready
<1>5. CASE ~(UnitIsWritten(u) /\ setup.fmt = "fmp4" /\ t = u.t)
  <2>1. Waits(t) /\ inst'.next[t] = inst.next[t]
    BY <1>0, <1>1, <1>2, <1>5 DEF UnitIsDropped, UnitIsWritten, Waits
  <2>2. InTime(start, t)
    BY <1>3, <2>1
  <2>3. \/ ~CutsAfter(inst', start, u)
        \/ u.t # t /\ u.t \notin Ready(start, t) /\ inst'.next[u.t] = u
    <3>1. CASE UnitIsDropped(u)
      BY <3>1 DEF UnitIsDropped, CutsAfter
    <3>2. CASE UnitIsWritten(u) /\ setup.fmt = "fmp4" /\ inst.next[u.t] = None
      BY <1>5, <3>2, UnitWaits DEF Ready, Waits
    <3>. QED
      BY <3>1, <3>2
  <2>4. InTime(start, t)'
    BY <2>2, <2>3, UnitKeepsInTime
  <2>. QED
    BY <1>3, <2>4 DEF InTime, Ready
<1>. QED
  BY <1>4, <1>5

(* A unit keeps the segment in time.                                       *)
LEMMA UnitPunctual ==
    ASSUME Timing, Waiting, Punctual, RetentionIsLong, NEW u, UnitIsTaken(u)
    PROVE  Punctual'
<1>. SUFFICES ASSUME AtWork', ~starved'
              PROVE  IF inst'.seg = NoSegment THEN \A t \in Mine : Waits(t)' => InTime(inst.next[t].dts, t)'
                     ELSE \E h \in Mine : SegmentInTime(h)'
  <2>1. Mine' = Mine
    BY DEF Mine, UnitIsTaken
  <2>. QED
    BY <2>1 DEF Punctual, SegmentInTime
<1>0. Mine \subseteq DOMAIN setup.medias
  BY TracksAreFew DEF Timing
<1>1. /\ AtWork /\ u.t \in Mine /\ u.t \in DOMAIN setup.medias /\ setup' = setup /\ Mine' = Mine
      /\ ~inst'.failed /\ clock' = clock /\ clock \in Nat /\ clock <= u.dts + 1 /\ u.dts \in Nat /\ u # None
  BY <1>0, RecorderAssumption DEF UnitIsTaken, AtWork, Mine, Sample, Timing
<1>2. setup.fmt = "fmp4" \/ setup.fmt = "mpegts"
  BY RecorderAssumption DEF Timing
<1>3. /\ ~starved /\ inst.seg # NoSegment => \E h \in Mine : SegmentInTime(h)
      /\ ~starved /\ inst.seg = NoSegment => \A t \in Mine : Waits(t) => InTime(inst.next[t].dts, t)
  BY <1>1 DEF Punctual, SegmentInTime
<1>4. CASE UnitIsDropped(u)
  <2>1. ~starved /\ inst' = inst
    BY <1>4 DEF UnitIsDropped
  <2>2. CASE inst.seg = NoSegment
    BY <1>3, <1>4, <2>1, <2>2, NothingYetInTime
  <2>3. CASE inst.seg # NoSegment
    <3>1. PICK h \in Mine : SegmentInTime(h)
      BY <1>3, <2>1, <2>3
    <3>2. ~CutsAfter(inst', inst.seg.dts, u)
      BY <1>4 DEF UnitIsDropped, CutsAfter
    <3>3. SegmentInTime(h)'
      BY <2>1, <2>3, <3>1, <3>2, StaysInTime
    <3>. QED
      BY <2>1, <2>3, <3>3
  <2>. QED
    BY <2>2, <2>3
<1>5. CASE UnitIsWritten(u) /\ setup.fmt = "mpegts"
  <2>1. CASE SegmentStays /\ inst.seg # NoSegment /\ ~CutsAfter(inst', inst.seg.dts, u)
    <3>1. ~starved /\ inst'.seg # NoSegment /\ inst'.seg.dts = inst.seg.dts
      BY <2>1 DEF SegmentStays
    <3>2. PICK h \in Mine : SegmentInTime(h)
      BY <1>3, <2>1, <3>1
    <3>3. SegmentInTime(h)'
      BY <2>1, <3>1, <3>2, StaysInTime
    <3>. QED
      BY <3>1, <3>3
  <2>2. CASE \E times : SegmentStarts(u, times)
    <3>1. inst'.seg # NoSegment /\ inst'.seg.dts = u.dts
      BY <2>2 DEF SegmentStarts
    <3>2. PICK start \in Nat : start = u.dts /\ InTime(start, u.t)'
      BY UnitIsFresh
    <3>3. SegmentInTime(u.t)'
      BY <1>1, <1>5, <3>1, <3>2, StartsInTime
    <3>. QED
      BY <1>1, <3>1, <3>3
  <2>3. UnitIsMPEGTS(u)
    BY <1>5 DEF UnitIsWritten
  <2>. QED
    BY <1>1, <2>1, <2>2, <2>3 DEF UnitIsMPEGTS
<1>6. CASE UnitIsWritten(u) /\ setup.fmt = "fmp4"
  <2>. DEFINE prev == inst.next[u.t]
  <2>1. CASE /\ SegmentStays
             /\ prev = None \/ (inst.seg # NoSegment /\ (prev.dts < inst.seg.dts \/ ~CutsAfter(inst', inst.seg.dts, u)))
    <3>1. ~starved /\ inst'.seg.dts = inst.seg.dts /\ (inst'.seg = NoSegment <=> inst.seg = NoSegment)
      BY <2>1 DEF SegmentStays
    <3>2. CASE inst.seg = NoSegment
      <4>1. \A t \in Mine : Waits(t)' => InTime(inst.next[t].dts, t)'
        BY <1>3, <1>6, <2>1, <3>1, <3>2, NothingYetInTime
      <4>. QED
        BY <3>1, <3>2, <4>1
    <3>3. CASE inst.seg # NoSegment
      <4>1. PICK h \in Mine : SegmentInTime(h)
        BY <1>3, <3>1, <3>3
      <4>2. SegmentInTime(h)'
        BY <1>6, <2>1, <3>1, <3>3, <4>1, StaysInTime
      <4>. QED
        BY <3>1, <3>3, <4>2
    <3>. QED
      BY <3>2, <3>3
  <2>2. CASE prev # None /\ inst.seg = NoSegment /\ SegmentStarts(prev, {prev.ntp}) /\ ~CutsAfter(inst', prev.dts, u)
    <3>1. /\ inst'.seg # NoSegment /\ inst'.seg.dts = prev.dts /\ (~starved \/ clock <= prev.dts + KeyInterval)
          /\ ~CutsAfter(inst', prev.dts, u)
      BY <2>2 DEF SegmentStarts
    <3>2. PICK start \in Nat : start = prev.dts
      BY <1>1, <2>2, UnitsAreSamples DEF Waiting, Waits
    <3>3. InTime(start, u.t)
      <4>1. CASE ~starved
        <5>1. InTime(inst.next[u.t].dts, u.t)
          BY <1>1, <1>3, <2>2, <4>1 DEF Waits
        <5>. QED
          BY <3>2, <5>1
      <4>2. CASE clock <= prev.dts + KeyInterval
        <5>1. SegmentDuration \in Nat /\ SegmentDuration > 0 /\ KeyInterval \in Nat
          BY RecorderAssumption DEF RetentionIsLong
        <5>2. clock < start + SegmentDuration + KeyInterval
          BY <1>1, <3>2, <4>2, <5>1
        <5>3. InTime(inst.next[u.t].dts, u.t)
          BY <1>1, <1>6, <2>2, <3>2, <5>2, FreshFMP4 DEF Waits
        <5>. QED
          BY <3>2, <5>3
      <4>. QED
        BY <3>1, <4>1, <4>2
    <3>4. InTime(start, u.t)'
      BY <3>1, <3>2, <3>3, UnitKeepsInTime
    <3>5. inst'.next[u.t] = u /\ start <= u.dts
      <4>1. prev.dts <= inst'.next[u.t].dts /\ inst'.next[u.t] = u
        BY <1>1, <1>6, <2>2, UnitWaits DEF Waits
      <4>. QED
        BY <3>2, <4>1
    <3>6. SegmentInTime(u.t)'
      BY <1>1, <3>1, <3>2, <3>4, <3>5, StartsInTime
    <3>. QED
      BY <1>1, <3>1, <3>6
  <2>3. CASE \E times : SegmentStarts(NextSegmentStartingPos(inst'.next), times)
    <3>1. PICK t \in Mine : /\ inst'.next[t] # None /\ NextSegmentStartingPos(inst'.next) = inst'.next[t]
                            /\ u.dts - inst'.next[t].dts <= MaxBasetime
      BY <1>6, NextIsThere
    <3>2. inst'.seg # NoSegment /\ inst'.seg.dts = inst'.next[t].dts
      BY <2>3, <3>1 DEF SegmentStarts
    <3>3. PICK start \in Nat : start = inst'.next[t].dts /\ InTime(start, t)'
      BY <1>6, <3>1, UnitIsFresh
    <3>4. SegmentInTime(t)'
      BY <1>1, <3>1, <3>2, <3>3, StartsInTime
    <3>. QED
      BY <3>2, <3>4
  <2>4. UnitIsFMP4(u)
    BY <1>6 DEF UnitIsWritten
  <2>. QED
    BY <1>1, <2>1, <2>2, <2>3, <2>4 DEF UnitIsFMP4
<1>. QED
  BY <1>2, <1>4, <1>5, <1>6 DEF UnitIsTaken

-----------------------------------------------------------------------------
(* A segment that starts after another could be cut has a later name.      *)
LEMMA UnitsInOrder ==
    Timing /\ RetentionIsLong /\ ClocksAgree =>
        \A v \in Range(units), w \in Range(units) :
            /\ v.dts \in Nat /\ v.ntp \in Nat /\ v.ntp <= clock
            /\ v.dts + SegmentDuration <= w.dts + MaxBasetime => v.ntp <= w.ntp
<1>. SUFFICES ASSUME Timing, RetentionIsLong, ClocksAgree, NEW v \in Range(units), NEW w \in Range(units)
              PROVE  /\ v.dts \in Nat /\ v.ntp \in Nat /\ v.ntp <= clock
                     /\ v.dts + SegmentDuration <= w.dts + MaxBasetime => v.ntp <= w.ntp
  OBVIOUS
<1>1. /\ v.dts \in Nat /\ w.dts \in Nat /\ v.dts <= clock /\ v.ntp = v.dts /\ w.ntp = w.dts
      /\ clock \in Nat /\ SegmentDuration \in Nat /\ MaxBasetime \in Nat /\ MaxBasetime < SegmentDuration
  BY UnitsAreSamples, RecorderAssumption DEF Timing, RetentionIsLong, ClocksAgree
<1>. QED
  BY <1>1

(* What a unit does to the segment at hand and to the names of the files.  *)
UnitMoves(u) ==
    \/ /\ inst'.seg = NoSegment <=> inst.seg = NoSegment
       /\ inst.seg # NoSegment => inst'.seg.ntp = inst.seg.ntp
       /\ \A g \in disk' : (\E f \in disk : f.name = g.name) \/ (inst.seg # NoSegment /\ g.name = Encode(inst.seg.ntp))
    \/ \E w \in Range(units') :
         /\ inst'.seg # NoSegment /\ inst'.seg.ntp = w.ntp
         /\ inst.seg # NoSegment => inst.seg.ntp <= w.ntp
         /\ inst.seg = NoSegment => w = u \/ \E t \in Mine : Waits(t) /\ w = inst.next[t]
         /\ \A g \in disk' : \/ \E f \in disk : f.name = g.name
                             \/ \E v \in Range(units') : g.name = Encode(v.ntp) /\ v.ntp <= w.ntp

(* The order of the units after it.                                        *)
LEMMA UnitIsInOrder ==
    ASSUME Timing, NEW u, UnitIsTaken(u), RetentionIsLong, ClocksAgree'
    PROVE  \A v \in Range(units'), w \in Range(units') :
             /\ v.ntp \in Nat /\ v.ntp <= clock
             /\ CutsAfter(inst', v.dts, u) /\ u.dts - w.dts <= MaxBasetime => v.ntp <= w.ntp
<1>1. UNCHANGED <<clock, setup>>
  BY DEF UnitIsTaken
<1>2. Timing' /\ RetentionIsLong
  BY UnitTiming
<1>3. (Timing /\ RetentionIsLong /\ ClocksAgree =>
        \A v \in Range(units), w \in Range(units) :
            /\ v.dts \in Nat /\ v.ntp \in Nat /\ v.ntp <= clock
            /\ v.dts + SegmentDuration <= w.dts + MaxBasetime => v.ntp <= w.ntp)'
  BY UnitsInOrder, PTL
<1>. SUFFICES ASSUME NEW v \in Range(units'), NEW w \in Range(units')
              PROVE  /\ v.ntp \in Nat /\ v.ntp <= clock
                     /\ CutsAfter(inst', v.dts, u) /\ u.dts - w.dts <= MaxBasetime => v.ntp <= w.ntp
  OBVIOUS
<1>5. /\ v.dts \in Nat /\ w.dts \in Nat /\ v.ntp \in Nat /\ v.ntp <= clock
      /\ v.dts + SegmentDuration <= w.dts + MaxBasetime => v.ntp <= w.ntp
  BY <1>1, <1>2, <1>3
<1>6. v.dts \in Nat /\ w.dts \in Nat /\ u.dts \in Nat /\ SegmentDuration \in Nat /\ MaxBasetime \in Nat
  BY <1>5, RecorderAssumption DEF UnitIsTaken, Sample
<1>7. CutsAfter(inst', v.dts, u) => v.dts + SegmentDuration <= u.dts
  BY <1>6 DEF CutsAfter
<1>8. CutsAfter(inst', v.dts, u) /\ u.dts - w.dts <= MaxBasetime => v.dts + SegmentDuration <= w.dts + MaxBasetime
  BY <1>6, <1>7
<1>. QED
  BY <1>5, <1>8

(* That is what it does.                                                   *)
LEMMA UnitMovesSegment ==
    ASSUME Timing, Waiting, NEW u, UnitIsTaken(u), RetentionIsLong, ClocksAgree'
    PROVE  UnitMoves(u)
<1>0. Mine \subseteq DOMAIN setup.medias
  BY TracksAreFew DEF Timing
<1>1. /\ u.t \in Mine /\ u.t \in DOMAIN setup.medias /\ AtWork /\ Range(units') = Range(units) \cup {u}
      /\ u.dts \in Nat /\ MaxBasetime \in Nat /\ u \in Range(units')
  BY <1>0, RecorderAssumption DEF UnitIsTaken, Sample
<1>2. inst.seg # NoSegment => \E v \in Range(units') : v.dts = inst.seg.dts /\ v.ntp = inst.seg.ntp
  BY <1>1 DEF Waiting, AtWork
<1>3. inst.next[u.t] # None => inst.next[u.t] \in Range(units')
  BY <1>1 DEF Waiting, Waits
<1>4. CASE SegmentStays \/ UnitIsDropped(u)
  BY <1>4 DEF UnitMoves, SegmentStays, UnitIsDropped
<1>5. ASSUME NEW w \in Range(units'), NEW times, SegmentStarts(w, times), w = u \/ (u.dts - w.dts <= MaxBasetime),
             inst.seg = NoSegment => w = u \/ \E t \in Mine : Waits(t) /\ w = inst.next[t],
             inst.seg # NoSegment => CutsAfter(inst', inst.seg.dts, u),
             \A ntp \in times : \E v \in Range(units') : ntp = v.ntp /\ (v = w \/ CutsAfter(inst', v.dts, u))
      PROVE  UnitMoves(u)
  <2>1. u.dts - w.dts <= MaxBasetime
    BY <1>1, <1>5
  <2>2. inst.seg # NoSegment => inst.seg.ntp <= w.ntp
    BY <1>2, <1>5, <2>1, UnitIsInOrder
  <2>3. \A v \in Range(units') : (v = w \/ CutsAfter(inst', v.dts, u)) => v.ntp <= w.ntp
    <3>1. w.ntp \in Nat
      BY UnitIsInOrder
    <3>2. w.ntp <= w.ntp
      BY <3>1
    <3>. QED
      BY <2>1, <3>2, UnitIsInOrder
  <2>4. ASSUME NEW g \in disk'
        PROVE  \/ \E f \in disk : f.name = g.name
               \/ \E v \in Range(units') : g.name = Encode(v.ntp) /\ v.ntp <= w.ntp
    BY <1>5, <2>3 DEF SegmentStarts
  <2>. QED
    BY <1>5, <2>2, <2>4 DEF UnitMoves, SegmentStarts
<1>6. CASE UnitIsWritten(u) /\ setup.fmt = "mpegts"
  <2>1. CASE inst.seg = NoSegment /\ SegmentStarts(u, {u.ntp})
    BY <1>1, <1>5, <2>1
  <2>2. CASE inst.seg # NoSegment /\ CutsAfter(inst', inst.seg.dts, u) /\ SegmentStarts(u, {inst.seg.ntp, u.ntp})
    <3>1. \A ntp \in {inst.seg.ntp, u.ntp} :
             \E v \in Range(units') : ntp = v.ntp /\ (v = u \/ CutsAfter(inst', v.dts, u))
      BY <1>1, <1>2, <2>2
    <3>. QED
      BY <1>1, <1>5, <2>2, <3>1
  <2>. QED
    BY <1>4, <1>6, <2>1, <2>2 DEF UnitIsWritten, UnitIsMPEGTS
<1>7. CASE UnitIsWritten(u) /\ setup.fmt # "mpegts"
  <2>. DEFINE prev == inst.next[u.t]
              first == IF inst.seg = NoSegment THEN prev ELSE inst.seg
  <2>1. CASE prev # None /\ inst.seg = NoSegment /\ SegmentStarts(prev, {prev.ntp})
    <3>1. prev \in Range(units') /\ Waits(u.t)
      BY <1>3, <2>1 DEF Waits
    <3>2. \A g \in disk' : (\E f \in disk : f.name = g.name) \/ g.name = Encode(prev.ntp)
      BY <2>1 DEF SegmentStarts
    <3>3. prev.ntp <= prev.ntp
      BY <3>1, UnitIsInOrder
    <3>4. inst'.seg # NoSegment /\ inst'.seg.ntp = prev.ntp
      BY <2>1 DEF SegmentStarts
    <3>. QED
      BY <1>1, <2>1, <3>1, <3>2, <3>3, <3>4 DEF UnitMoves
  <2>2. CASE /\ prev # None /\ CutsAfter(inst', first.dts, u)
             /\ SegmentStarts(NextSegmentStartingPos(inst'.next), {first.ntp})
    <3>1. PICK t \in Mine : /\ inst'.next[t] # None /\ NextSegmentStartingPos(inst'.next) = inst'.next[t]
                            /\ u.dts - inst'.next[t].dts <= MaxBasetime
      BY <1>7, NextIsThere
    <3>2. PICK w \in Range(units') : w = inst'.next[t]
      BY <1>0, <3>1, UnitWaits
    <3>3. w = u \/ (Waits(t) /\ w = inst.next[t])
      <4>1. inst'.next = [inst.next EXCEPT ![u.t] = u] /\ t \in DOMAIN setup.medias
        BY <1>0, <1>7 DEF UnitIsWritten
      <4>2. inst.next \in [DOMAIN setup.medias -> Sample \cup {None}]
        BY DEF Waiting
      <4>. QED
        BY <1>1, <3>1, <3>2, <4>1, <4>2 DEF Waits
    <3>4. \A ntp \in {first.ntp} : \E v \in Range(units') : ntp = v.ntp /\ CutsAfter(inst', v.dts, u)
      BY <1>2, <1>3, <2>2
    <3>5. inst.seg # NoSegment => CutsAfter(inst', inst.seg.dts, u)
      BY <2>2
    <3>. QED
      BY <1>5, <2>2, <3>1, <3>2, <3>3, <3>4, <3>5
  <2>3. UnitIsFMP4(u)
    BY <1>7 DEF UnitIsWritten
  <2>. QED
    BY <1>4, <2>1, <2>2, <2>3 DEF UnitIsFMP4
<1>. QED
  BY <1>4, <1>6, <1>7 DEF UnitIsTaken

(* A unit, and the names of the files.                                     *)
LEMMA UnitInOrder ==
    ASSUME Timing, Waiting, InOrder, NEW u, UnitIsTaken(u), RetentionIsLong, ClocksAgree'
    PROVE  InOrder'
<1>0. Mine \subseteq DOMAIN setup.medias
  BY TracksAreFew DEF Timing
<1>1. /\ AtWork /\ u.t \in Mine /\ u.t \in DOMAIN setup.medias /\ Range(units') = Range(units) \cup {u}
      /\ UNCHANGED <<clock, setup, rec>> /\ Mine' = Mine
      /\ u.dts \in Nat /\ u.ntp = u.dts /\ rec.since <= u.dts /\ rec.since \in Nat /\ clock \in Nat
      /\ rec.phase # "paused"
  BY <1>0 DEF UnitIsTaken, Sample, Mine, Timing, AtWork, ClocksAgree
<1>2. \A time : Encode(time)' = Encode(time)
  BY <1>1 DEF Encode
<1>3. ASSUME NEW t \in Mine, Waits(t)' PROVE inst'.next[t] = u \/ (Waits(t) /\ inst'.next[t] = inst.next[t])
  <2>1. inst'.next = inst.next \/ inst'.next = [inst.next EXCEPT ![u.t] = u]
    BY DEF UnitIsTaken, UnitIsDropped, UnitIsWritten
  <2>2. t \in DOMAIN setup.medias /\ inst.next \in [DOMAIN setup.medias -> Sample \cup {None}]
    BY <1>0 DEF Waiting
  <2>. QED
    BY <1>1, <1>3, <2>1, <2>2 DEF Waits
<1>4. UnitMoves(u)
  BY UnitMovesSegment
<1>5. \A v \in Range(units') : v.ntp \in Nat /\ v.ntp <= clock
  BY UnitIsInOrder
<1>6. ASSUME NEW time \in Nat, NamedAt(time) PROVE NamedAt(time)'
  <2>1. time <= clock'
    BY <1>1, <1>6 DEF NamedAt
  <2>2. inst.seg = NoSegment => time <= u.ntp /\ time <= rec.since
    BY <1>1, <1>6 DEF NamedAt
  <2>3. inst.seg = NoSegment => \A t \in Mine : Waits(t) => time <= inst.next[t].ntp
    BY <1>1, <1>6 DEF NamedAt
  <2>4. CASE /\ inst'.seg = NoSegment <=> inst.seg = NoSegment
             /\ inst.seg # NoSegment => inst'.seg.ntp = inst.seg.ntp
    <3>1. inst'.seg = NoSegment => \A t \in Mine : Waits(t)' => time <= inst'.next[t].ntp
      BY <1>3, <2>2, <2>3, <2>4
    <3>2. inst'.seg # NoSegment => time <= inst'.seg.ntp
      BY <1>1, <1>6, <2>4 DEF NamedAt
    <3>. QED
      BY <1>1, <1>2, <2>1, <2>2, <2>4, <3>1, <3>2 DEF NamedAt
  <2>5. ASSUME NEW w \in Range(units'), inst'.seg # NoSegment, inst'.seg.ntp = w.ntp,
               inst.seg # NoSegment => inst.seg.ntp <= w.ntp,
               inst.seg = NoSegment => w = u \/ \E t \in Mine : Waits(t) /\ w = inst.next[t]
        PROVE  NamedAt(time)'
    <3>1. time <= inst'.seg.ntp
      <4>1. CASE inst.seg = NoSegment
        BY <2>2, <2>3, <2>5, <4>1
      <4>2. CASE inst.seg # NoSegment
        <5>1. PICK v \in Range(units') : v.ntp = inst.seg.ntp
          BY <1>1, <4>2 DEF Waiting, AtWork
        <5>2. time <= inst.seg.ntp
          BY <1>1, <1>6, <4>2 DEF NamedAt
        <5>. QED
          BY <1>5, <2>5, <4>2, <5>1, <5>2
      <4>. QED
        BY <4>1, <4>2
    <3>. QED
      BY <1>1, <1>2, <2>1, <2>5, <3>1 DEF NamedAt
  <2>. QED
    BY <1>4, <2>4, <2>5 DEF UnitMoves
<1>7. ASSUME NEW v \in Range(units'), inst'.seg # NoSegment, v.ntp <= inst'.seg.ntp
      PROVE  v.ntp \in Nat /\ NamedAt(v.ntp)'
  BY <1>1, <1>2, <1>5, <1>7 DEF NamedAt
<1>8. ASSUME NEW g \in disk', NEW f \in disk, f.name = g.name
      PROVE  \E time \in Nat : g.name = Encode(time)' /\ NamedAt(time)'
  <2>1. PICK time \in Nat : f.name = Encode(time) /\ NamedAt(time)
    BY DEF InOrder
  <2>. QED
    BY <1>2, <1>6, <1>8, <2>1
<1>9. ASSUME NEW g \in disk', NEW v \in Range(units'), inst'.seg # NoSegment, v.ntp <= inst'.seg.ntp,
             g.name = Encode(v.ntp)
      PROVE  \E time \in Nat : g.name = Encode(time)' /\ NamedAt(time)'
  BY <1>2, <1>7, <1>9
<1>10. ASSUME NEW g \in disk' PROVE \E time \in Nat : g.name = Encode(time)' /\ NamedAt(time)'
  <2>1. CASE \E f \in disk : f.name = g.name
    BY <1>8, <2>1
  <2>2. CASE \E v \in Range(units') : /\ inst'.seg # NoSegment /\ g.name = Encode(v.ntp)
                                      /\ v.ntp <= inst'.seg.ntp
    BY <1>9, <2>2
  <2>3. ASSUME inst'.seg # NoSegment, inst'.seg.ntp = inst.seg.ntp, inst.seg # NoSegment, g.name = Encode(inst.seg.ntp)
        PROVE  \E time \in Nat : g.name = Encode(time)' /\ NamedAt(time)'
    <3>1. PICK v \in Range(units') : v.ntp = inst.seg.ntp
      BY <1>1, <2>3 DEF Waiting, AtWork
    <3>2. v.ntp <= inst'.seg.ntp
      BY <1>5, <2>3, <3>1
    <3>. QED
      BY <1>9, <2>3, <3>1, <3>2
  <2>. QED
    BY <1>4, <2>1, <2>2, <2>3 DEF UnitMoves
<1>. QED
  BY <1>10 DEF InOrder

(* A unit, and the file of the open segment.                               *)
LEMMA UnitKeepsFile ==
    ASSUME Kept, NEW u, UnitIsTaken(u)
    PROVE  Kept'
<1>. SUFFICES ASSUME AtWork', ~starved' PROVE HasFile'
  BY DEF Kept
<1>1. AtWork /\ ~inst'.failed /\ UNCHANGED setup
  BY DEF UnitIsTaken, AtWork
<1>3. CASE SegmentStays
  BY <1>1, <1>3 DEF Kept, SegmentStays
<1>4. CASE UnitIsDropped(u)
  <2>1. HasFile /\ inst' = inst /\ disk' = disk
    BY <1>1, <1>4 DEF Kept, UnitIsDropped
  <2>. QED
    BY <1>1, <2>1 DEF HasFile, Open, Encode
<1>5. CASE \E w, times : SegmentStarts(w, times)
  BY <1>5 DEF SegmentStarts
<1>. QED
  BY <1>3, <1>4, <1>5 DEF UnitIsTaken, UnitIsWritten, UnitIsFMP4, UnitIsMPEGTS

(* A unit keeps all of it.                                                 *)
LEMMA UnitAged ==
    ASSUME Recorded, Aged, RetentionIsLong, NEW t, NEW key \in BOOLEAN, NEW late \in 0..1, NEW io,
           OnUnit(t, key, late, io), UNCHANGED cleanerVars
    PROVE  Aged'
<1>. DEFINE u == UnitOf(t, key, late)
<1>1. UnitIsTaken(u)
  BY OnUnitTakes DEF Aged
<1>. HIDE DEF u
<1>2. Timing' /\ Waiting' /\ Punctual'
  BY <1>1, UnitTiming, UnitWaiting, UnitPunctual DEF Aged
<1>3. ASSUME ClocksAgree' PROVE Named'
  <2>1. Named
    BY <1>1, <1>3 DEF UnitIsTaken, ClocksAgree, Aged
  <2>2. ChosenIsOld'
    BY <1>1, <2>1 DEF UnitIsTaken, Named, ChosenIsOld, Decode
  <2>3. InOrder'
    BY <1>1, <1>3, <2>1, UnitInOrder DEF Aged, Named
  <2>4. Kept'
    BY <1>1, <2>1, UnitKeepsFile DEF Named
  <2>. QED
    BY <2>2, <2>3, <2>4 DEF Named
<1>. QED
  BY <1>2, <1>3 DEF Aged

-----------------------------------------------------------------------------
(* The times and what waits, through the steps that take no unit.          *)
LEMMA SameTimed ==
    ASSUME Timing, Waiting, UNCHANGED <<clock, setup, units, skew, inst>>,
           rec'.phase = rec.phase, rec'.since = rec.since, deleteAfter' \in {0, DeleteAfter}
    PROVE  Timing' /\ Waiting'
<1>1. (AtWork' <=> AtWork) /\ Mine' = Mine /\ EndOfTime' = EndOfTime
  BY DEF AtWork, Mine, EndOfTime
<1>. QED
  BY <1>1 DEF Timing, Waiting, Waits

(* Time goes by.                                                           *)
LEMMA TickTimed == ASSUME Timing, Waiting, Tick, UNCHANGED cleanerVars PROVE Timing' /\ Waiting'
<1>1. UNCHANGED <<setup, units, skew, rec, inst, deleteAfter>> /\ clock' = clock + 1
  BY DEF Tick, cleanerVars
<1>2. (AtWork' <=> AtWork) /\ Mine' = Mine /\ (\A t : Waits(t)' <=> Waits(t))
  BY <1>1 DEF AtWork, Mine, Waits
<1>3. clock \in Nat /\ rec.since \in Nat /\ rec.since <= clock
      /\ \A u \in Range(units) : u.dts \in Nat /\ u.dts <= clock
  BY UnitsAreSamples DEF Timing
<1>. QED
  BY <1>1, <1>2, <1>3 DEF Timing, Waiting

(* The clock of the publisher is set.                                      *)
LEMMA JumpTimed == ASSUME Timing, Waiting, SourceClockJumps, UNCHANGED cleanerVars PROVE Timing' /\ Waiting'
<1>1. /\ UNCHANGED <<clock, setup, units, rec, inst, deleteAfter>>
      /\ skew' \in Int
  BY RecorderAssumption DEF SourceClockJumps, cleanerVars
<1>2. (AtWork' <=> AtWork) /\ Mine' = Mine /\ EndOfTime' = EndOfTime
  BY <1>1 DEF AtWork, Mine, EndOfTime
<1>4. Timing'
  BY <1>1, <1>2 DEF Timing
<1>5. Waiting'
  BY <1>1, <1>2 DEF Waiting, Waits
<1>. QED
  BY <1>4, <1>5

(* The instance is over.                                                   *)
IsOver ==
    /\ inst'.next = inst.next /\ inst'.hasVideo = inst.hasVideo /\ inst'.done
    /\ UNCHANGED <<clock, setup, units, skew, deleteAfter, cleaner>>
    /\ \/ rec'.since = clock /\ rec'.phase = "paused"
       \/ rec'.since = rec.since /\ (rec'.phase = rec.phase \/ rec'.phase = "done")

(* It leaves them as they are.                                             *)
LEMMA OverTimed == ASSUME Timing, Waiting, IsOver PROVE Timing' /\ Waiting'
<1>1. ~AtWork' /\ Mine' = Mine /\ EndOfTime' = EndOfTime
  BY DEF IsOver, AtWork, Mine, EndOfTime
<1>2. UNCHANGED <<clock, setup, units, skew, deleteAfter>>
  BY DEF IsOver
<1>3. rec'.since \in Nat /\ rec'.since <= clock
  BY DEF IsOver, Timing
<1>4. rec'.phase = "up" => rec.phase = "up" /\ rec'.since = rec.since
  BY DEF IsOver
<1>5. rec'.phase = "paused" => \A u \in Range(units) : u.dts <= rec'.since
  BY DEF IsOver, Timing
<1>6. Timing'
  BY <1>1, <1>2, <1>3, <1>4, <1>5 DEF Timing
<1>7. Waiting'
  BY <1>1, <1>2 DEF IsOver, Waiting, Waits
<1>. QED
  BY <1>6, <1>7

(* InstanceEnded, and the process dies.                                    *)
LEMMA EndIsOver ==
    ASSUME Recorded, NEW io, InstanceEnded \/ Crash(io), UNCHANGED cleanerVars
    PROVE  IsOver /\ rec'.phase = "paused" /\ rec'.since = clock
<1>1. /\ UNCHANGED <<clock, setup, units, skew, deleteAfter, cleaner>>
      /\ \E n : rec' = [rec EXCEPT !.phase = "paused", !.since = clock, !.term = n]
  <2>1. CASE InstanceEnded
    <3>1. rec' = [rec EXCEPT !.phase = "paused", !.since = clock, !.term = rec.term]
      BY <2>1 DEF InstanceEnded, Recorded
    <3>. QED
      BY <2>1, <3>1 DEF InstanceEnded, cleanerVars
  <2>2. CASE Crash(io)
    BY <2>2 DEF Crash, cleanerVars
  <2>. QED
    BY <2>1, <2>2
<1>2. rec'.phase = "paused" /\ rec'.since = clock
  BY <1>1 DEF Recorded
<1>3. inst'.next = inst.next /\ inst'.hasVideo = inst.hasVideo /\ inst'.done
  <2>1. CASE InstanceEnded
    BY <2>1 DEF InstanceEnded
  <2>2. CASE Crash(io)
    <3>1. InstanceShape(inst) /\ inst' = [inst EXCEPT !.done = TRUE, !.seg = NoSegment]
      BY <2>2 DEF Recorded, Fine, Crash
    <3>. QED
      BY <3>1 DEF InstanceShape
  <2>. QED
    BY <2>1, <2>2
<1>. QED
  BY <1>1, <1>2, <1>3 DEF IsOver

(* The close of the format keeps the segment, and names no other one.      *)
LEMMA CloseFormatWithin ==
    ASSUME Recorded, NEW io
    PROVE  LET st == CloseFormat(inst, io)
           IN  /\ st.inst.next = inst.next /\ st.inst.hasVideo = inst.hasVideo
               /\ InstanceShape(st.inst)
               /\ st.inst.seg = NoSegment <=> inst.seg = NoSegment
               /\ \A g \in st.disk : \/ \E f \in disk : f.name = g.name
                                     \/ ~inst.done /\ inst.seg # NoSegment /\ g.name = Encode(inst.seg.ntp)
<1>. DEFINE st == CloseFormat(inst, io)
<1>1. Now(inst).inst = inst /\ Now(inst).disk = disk /\ Fine(inst, disk, events)
  BY DEF Now, Recorded
<1>2. Fine(st.inst, st.disk, st.events)
  BY CloseFormatIsFine DEF Recorded
<1>3. CASE inst.seg = NoSegment \/ inst.done
  BY <1>1, <1>3 DEF CloseFormat, Fine
<1>4. CASE ~(inst.seg = NoSegment \/ inst.done)
  <2>1. GoodSegment(setup.fmt, Now(inst))
    BY <1>1, <1>4, NowIsGood DEF GoodSegment
  <2>2. st = CloseSegment(Now(inst), io)
    BY <1>4 DEF CloseFormat
  <2>. HIDE DEF st
  <2>3. Within(Now(inst), st)
    BY <2>1, <2>2, CloseSegmentWithin
  <2>4. inst.seg.num \in Nat /\ NoSegment.num \notin Nat
    BY <1>1, <1>4 DEF Fine, InstanceShape, IsSegmentRecord, NoSegment
  <2>5. st.inst.seg # NoSegment
    BY <1>1, <2>3, <2>4 DEF Within
  <2>6. /\ st.inst.next = inst.next /\ st.inst.hasVideo = inst.hasVideo
        /\ \A g \in st.disk : g.name = Encode(inst.seg.ntp) \/ \E f \in disk : f.name = g.name
    BY <1>1, <2>3 DEF Within, Names
  <2>. QED
    BY <1>2, <1>4, <2>5, <2>6 DEF st, Fine
<1>. QED
  BY <1>3, <1>4

(* InstanceFails, Split and Terminated.                                    *)
LEMMA CloseIsOver ==
    ASSUME Recorded, NEW io, InstanceFails(io) \/ Split(io) \/ Terminated(io), UNCHANGED cleanerVars
    PROVE  IsOver /\ (inst'.seg = NoSegment <=> inst.seg = NoSegment)
<1>. DEFINE st == CloseFormat(inst, io)
<1>1. /\ inst' = [st.inst EXCEPT !.done = TRUE]
      /\ UNCHANGED <<clock, setup, units, skew, deleteAfter, cleaner>>
  BY DEF InstanceFails, Split, Terminated, cleanerVars
<1>2. \/ rec' = rec
      \/ rec' = [rec EXCEPT !.phase = "paused", !.since = clock]
      \/ rec' = [rec EXCEPT !.phase = "done"]
  BY DEF InstanceFails, Split, Terminated
<1>3. /\ st.inst.next = inst.next /\ st.inst.hasVideo = inst.hasVideo
      /\ InstanceShape(st.inst)
      /\ st.inst.seg = NoSegment <=> inst.seg = NoSegment
  BY CloseFormatWithin
<1>. HIDE DEF st
<1>4. /\ inst'.next = inst.next /\ inst'.hasVideo = inst.hasVideo /\ inst'.done
      /\ inst'.seg = NoSegment <=> inst.seg = NoSegment
  BY <1>1, <1>3 DEF InstanceShape
<1>5. \/ rec'.since = clock /\ rec'.phase = "paused"
      \/ rec'.since = rec.since /\ (rec'.phase = rec.phase \/ rec'.phase = "done")
  BY <1>2 DEF Recorded
<1>. QED
  BY <1>1, <1>4, <1>5 DEF IsOver

(* The pause is over.                                                      *)
LEMMA RestartTimed ==
    ASSUME Recorded, Timing, Waiting, Restart, UNCHANGED cleanerVars
    PROVE  /\ Timing' /\ Waiting'
           /\ inst'.seg = NoSegment /\ \A t \in DOMAIN setup.medias : ~Waits(t)'
<1>1. /\ UNCHANGED <<clock, setup, units, skew, deleteAfter>>
      /\ rec.phase = "paused" /\ (clock > rec.since \/ clock = EndOfTime)
      /\ rec' = [rec EXCEPT !.phase = "up"] /\ inst' = NewInstance(inst.id + 1)
  BY DEF Restart, cleanerVars
<1>2. rec'.phase = "up" /\ rec'.since = rec.since
  BY <1>1 DEF Recorded
<1>3. /\ inst'.seg = NoSegment /\ inst'.hasVideo = FALSE
      /\ inst'.next = [t \in DOMAIN setup.medias |-> None]
  BY <1>1 DEF NewInstance
<1>4. Mine' = Mine /\ EndOfTime' = EndOfTime /\ Mine \subseteq DOMAIN setup.medias
  BY <1>1, TracksAreFew DEF Mine, EndOfTime, Timing
<1>5. \A t \in DOMAIN setup.medias : ~Waits(t)'
  BY <1>3 DEF Waits
<1>6. clock \in Nat /\ rec.since \in Nat /\ \A u \in Range(units) : u.dts \in Nat /\ u.dts <= rec.since
  BY <1>1, UnitsAreSamples DEF Timing
<1>7. Timing'
  BY <1>1, <1>2, <1>4, <1>6 DEF Timing
<1>8. Waiting'
  <2>1. \A u \in Range(units) : ~(rec.since < u.dts)
    BY <1>6
  <2>2. inst'.next \in [DOMAIN setup.medias -> Sample \cup {None}]
    BY <1>3
  <2>. QED
    BY <1>1, <1>2, <1>3, <1>4, <1>5, <2>1, <2>2 DEF Waiting
<1>. QED
  BY <1>3, <1>5, <1>7, <1>8

(* Every step keeps them.                                                  *)
LEMMA StepTimed == ASSUME Recorded, Timing, Waiting, [Next]_vars PROVE Timing' /\ Waiting'
<1>1. CASE /\ UNCHANGED <<clock, setup, units, skew, inst, deleteAfter>>
           /\ rec'.phase = rec.phase /\ rec'.since = rec.since
  <2>1. deleteAfter' \in {0, DeleteAfter}
    BY <1>1 DEF Timing
  <2>. QED
    BY <1>1, <2>1, SameTimed
<1>2. CASE RecorderNext /\ UNCHANGED cleanerVars
  <2>1. CASE Close \/ SplitRefused \/ \E name \in BOOLEAN : SplitSegment(name)
    <3>1. UNCHANGED <<clock, setup, units, skew, inst, deleteAfter>>
      BY <1>2, <2>1 DEF Close, SplitRefused, SplitSegment, cleanerVars
    <3>2. rec'.phase = rec.phase /\ rec'.since = rec.since
      BY <2>1 DEF Close, SplitRefused, SplitSegment, Recorded
    <3>. QED
      BY <1>1, <3>1, <3>2
  <2>2. ASSUME NEW t, NEW key \in BOOLEAN, NEW late \in 0..1, NEW io, OnUnit(t, key, late, io)
        PROVE  Timing' /\ Waiting'
    BY <1>2, <2>2, OnUnitTakes, UnitTiming, UnitWaiting
  <2>3. ASSUME NEW io, InstanceFails(io) \/ Split(io) \/ Terminated(io) PROVE Timing' /\ Waiting'
    BY <1>2, <2>3, CloseIsOver, OverTimed
  <2>. QED
    BY <1>2, <2>1, <2>2, <2>3, TickTimed, JumpTimed, EndIsOver, OverTimed, RestartTimed
    DEF RecorderNext, RecorderSteps
<1>3. CASE CleanerNext
  <2>1. UNCHANGED <<clock, setup, units, skew, inst, rec>> /\ (deleteAfter' = deleteAfter \/ deleteAfter' = DeleteAfter)
    BY <1>3 DEF CleanerNext, CleanerStarts, CleanerRemoves, CleanerReclaims, ReloadPathConfs, recVars
  <2>2. deleteAfter' \in {0, DeleteAfter}
    BY <2>1 DEF Timing
  <2>. QED
    BY <2>1, <2>2, SameTimed
<1>4. \/ RecorderNext /\ UNCHANGED cleanerVars
      \/ CleanerNext
      \/ UNCHANGED <<recVars, cleanerVars>>
  BY DEF Next, RecordScene, ArchiveScene, ForwardScene, vars
<1>5. CASE UNCHANGED <<recVars, cleanerVars>>
  BY <1>1, <1>5 DEF recVars, cleanerVars
<1>. QED
  BY <1>2, <1>3, <1>4, <1>5

-----------------------------------------------------------------------------
(* What depends only on what waits, where, and when.                       *)
LEMMA SamePunctual ==
    ASSUME UNCHANGED <<clock, setup, units, inst>>, Punctual, AtWork' => AtWork, ~starved' => ~starved
    PROVE  Punctual'
<1>0. inst' = inst
  OBVIOUS
<1>1. Mine' = Mine /\ (\A t : Waits(t)' <=> Waits(t)) /\ \A u : Cuts(u)' <=> Cuts(u)
  BY DEF Mine, Waits, Cuts
<1>2. \A start, h : Ready(start, h)' = Ready(start, h)
  BY <1>1 DEF Ready
<1>3. \A start, h : InTime(start, h)' <=> InTime(start, h)
  BY <1>1, <1>2 DEF InTime
<1>4. CASE AtWork /\ ~starved /\ inst.seg = NoSegment
  <2>1. \A t \in Mine : Waits(t) => InTime(inst.next[t].dts, t)
    BY <1>4 DEF Punctual
  <2>2. ASSUME NEW t \in Mine, Waits(t) PROVE InTime(inst.next[t].dts, t)'
    <3>1. InTime(inst.next[t].dts, t)
      BY <2>1, <2>2
    <3>. QED
      BY <1>1, <1>2, <3>1 DEF InTime
  <2>. QED
    BY <1>0, <1>1, <1>4, <2>2 DEF Punctual
<1>5. CASE AtWork /\ ~starved /\ inst.seg # NoSegment
  <2>1. PICK h \in Mine : SegmentInTime(h)
    BY <1>5 DEF Punctual, SegmentInTime
  <2>2. SegmentInTime(h)'
    BY <1>1, <1>3, <2>1 DEF SegmentInTime
  <2>. QED
    BY <1>1, <1>5, <2>1, <2>2 DEF Punctual, SegmentInTime
<1>. QED
  BY <1>4, <1>5 DEF Punctual

(* The files are the same, and the clocks go on.                           *)
LEMMA SameInOrder ==
    ASSUME Timing, InOrder, UNCHANGED <<setup, inst, disk>>, AtWork' => AtWork,
           clock' >= clock, clock' \in Nat,
           \/ rec'.since = clock'
           \/ (rec'.phase = "paused" => rec.phase = "paused") /\ rec'.since = rec.since
    PROVE  InOrder'
<1>1. clock \in Nat /\ rec.since \in Nat
  BY DEF Timing
<1>2. Mine' = Mine /\ (\A t : Waits(t)' <=> Waits(t)) /\ \A time : Encode(time)' = Encode(time)
  BY DEF Mine, Waits, Encode
<1>3. ASSUME NEW time \in Nat, NamedAt(time) PROVE NamedAt(time)'
  <2>1. time <= clock'
    BY <1>1, <1>3 DEF NamedAt
  <2>2. ASSUME rec'.phase = "paused" \/ inst'.seg = NoSegment PROVE time <= rec'.since
    <3>1. CASE rec'.since = clock'
      BY <2>1, <3>1
    <3>2. CASE (rec'.phase = "paused" => rec.phase = "paused") /\ rec'.since = rec.since
      <4>1. rec.phase = "paused" \/ inst.seg = NoSegment
        BY <2>2, <3>2
      <4>2. time <= rec.since
        BY <1>3, <4>1 DEF NamedAt
      <4>. QED
        BY <3>2, <4>2
    <3>. QED
      BY <3>1, <3>2
  <2>3. AtWork' => IF inst'.seg = NoSegment THEN \A t \in Mine' : Waits(t)' => time <= inst'.next[t].ntp
                   ELSE time <= inst'.seg.ntp
    BY <1>2, <1>3 DEF NamedAt
  <2>. QED
    BY <2>1, <2>2, <2>3 DEF NamedAt
<1>. QED
  BY <1>2, <1>3 DEF InOrder

(* What is recorded is the same.                                           *)
LEMMA SameKept ==
    ASSUME Kept, UNCHANGED <<setup, inst, disk>>, AtWork' => AtWork, ~starved' => ~starved
    PROVE  Kept'
BY DEF Kept, HasFile, Open, Encode

(* Nothing of it changes.                                                  *)
LEMMA StillAged ==
    ASSUME Aged, UNCHANGED <<clock, setup, units, skew, inst, disk, starved>>,
           rec'.phase = rec.phase, rec'.since = rec.since,
           deleteAfter' \in {0, DeleteAfter}, Named => ChosenIsOld'
    PROVE  Aged'
<1>1. (AtWork' <=> AtWork) /\ (ClocksAgree' <=> ClocksAgree)
  BY DEF AtWork, ClocksAgree
<1>2. clock \in Nat /\ clock >= clock
  BY DEF Aged, Timing
<1>3. Timing' /\ Waiting'
  BY SameTimed DEF Aged
<1>4. Punctual'
  BY <1>1, SamePunctual DEF Aged
<1>5. ASSUME Named PROVE Named'
  <2>1. InOrder'
    BY <1>1, <1>2, <1>5, SameInOrder DEF Aged, Named
  <2>2. Kept'
    BY <1>1, <1>5, SameKept DEF Named
  <2>. QED
    BY <1>5, <2>1, <2>2 DEF Named
<1>. QED
  BY <1>1, <1>3, <1>4, <1>5 DEF Aged

(* Time goes by.                                                           *)
LEMMA TickAged == ASSUME Aged, Tick, UNCHANGED cleanerVars PROVE Aged'
<1>1. /\ UNCHANGED <<setup, units, skew, rec, inst, disk, deleteAfter, cleaner>> /\ clock' = clock + 1
      /\ ~starved' => ~starved
  BY DEF Tick, cleanerVars
<1>2. (AtWork' <=> AtWork) /\ (ClocksAgree' <=> ClocksAgree) /\ Mine' = Mine /\ (\A t : Waits(t)' <=> Waits(t))
  BY <1>1 DEF AtWork, ClocksAgree, Mine, Waits
<1>3. clock \in Nat /\ clock' >= clock /\ clock' \in Nat /\ rec.since \in Nat /\ rec.since <= clock
      /\ \A u \in Range(units) : u.dts \in Nat /\ u.dts <= clock
  BY <1>1, UnitsAreSamples DEF Aged, Timing
<1>4. Timing' /\ Waiting'
  BY TickTimed DEF Aged
<1>5. Punctual'
  <2>. SUFFICES ASSUME AtWork, ~starved' PROVE Punctual'
    BY <1>2 DEF Punctual
  <2>1. CASE inst.seg = NoSegment
    <3>1. ASSUME NEW t \in Mine, Waits(t) PROVE InTime(inst.next[t].dts, t)'
      <4>1. PICK start \in Nat : start = inst.next[t].dts
        <5>1. t \in DOMAIN setup.medias
          BY TracksAreFew DEF Aged, Timing
        <5>. QED
          BY <1>3, <3>1, <5>1 DEF Aged, Waiting
      <4>2. InTime(start, t)
        BY <1>1, <2>1, <3>1, <4>1 DEF Aged, Punctual
      <4>3. InTime(start, t)'
        BY <4>2, TickInTime DEF Aged
      <4>. QED
        BY <1>1, <4>1, <4>3 DEF InTime, Ready
    <3>. QED
      BY <1>1, <1>2, <2>1, <3>1 DEF Punctual
  <2>2. CASE inst.seg # NoSegment
    <3>1. PICK h \in Mine : SegmentInTime(h)
      BY <1>1, <2>2 DEF Aged, Punctual, SegmentInTime
    <3>2. PICK start \in Nat : start = inst.seg.dts
      <4>1. PICK v \in Range(units) : v.dts = inst.seg.dts
        BY <2>2 DEF Aged, Waiting, AtWork
      <4>. QED
        BY <1>3, <4>1
    <3>3. InTime(start, h)
      BY <3>1, <3>2 DEF SegmentInTime
    <3>4. InTime(start, h)'
      BY <3>3, TickInTime DEF Aged
    <3>5. InTime(inst.seg.dts, h)'
      BY <1>1, <3>2, <3>4 DEF InTime, Ready
    <3>. QED
      BY <1>1, <1>2, <2>2, <3>1, <3>5 DEF Punctual, SegmentInTime
  <2>. QED
    BY <2>1, <2>2
<1>6. ASSUME Named PROVE Named'
  <2>1. InOrder'
    BY <1>1, <1>2, <1>3, <1>6, SameInOrder DEF Aged, Named
  <2>2. Kept'
    BY <1>1, <1>2, <1>6, SameKept DEF Named
  <2>3. ChosenIsOld'
    <3>1. DeleteAfter \in Nat
      BY DeleteAfterIsValid
    <3>2. \A name : Decode(name)' = Decode(name)
      BY DEF Decode
    <3>. QED
      BY <1>1, <1>3, <1>6, <3>1, <3>2 DEF Named, ChosenIsOld
  <2>. QED
    BY <2>1, <2>2, <2>3 DEF Named
<1>. QED
  BY <1>2, <1>4, <1>5, <1>6 DEF Aged

(* The clock of the publisher is set.                                      *)
LEMMA JumpAged == ASSUME Aged, SourceClockJumps, UNCHANGED cleanerVars PROVE Aged'
<1>1. UNCHANGED <<clock, setup, units, rec, inst, disk, starved, deleteAfter, cleaner>>
  BY DEF SourceClockJumps, cleanerVars
<1>2. (AtWork' <=> AtWork) /\ (ClocksAgree' <=> ClocksAgree)
  BY <1>1 DEF AtWork, ClocksAgree
<1>3. clock \in Nat /\ clock >= clock
  BY DEF Aged, Timing
<1>4. Timing' /\ Waiting'
  BY JumpTimed DEF Aged
<1>5. Punctual'
  BY <1>1, <1>2, SamePunctual DEF Aged
<1>6. ASSUME Named PROVE Named'
  <2>1. InOrder'
    BY <1>1, <1>2, <1>3, <1>6, SameInOrder DEF Aged, Named
  <2>2. Kept'
    BY <1>1, <1>2, <1>6, SameKept DEF Named
  <2>3. ChosenIsOld'
    BY <1>1, <1>6 DEF Named, ChosenIsOld, Decode
  <2>. QED
    BY <2>1, <2>2, <2>3 DEF Named
<1>. QED
  BY <1>2, <1>4, <1>5, <1>6 DEF Aged

(* The instance is over: what is left are the names of the files.          *)
LEMMA OverAged ==
    ASSUME Recorded, Aged, IsOver,
           \/ rec'.since = clock /\ rec'.phase = "paused"
           \/ inst'.seg = NoSegment => inst.seg = NoSegment,
           \A g \in disk' : \/ \E f \in disk : f.name = g.name
                            \/ rec.phase = "up" /\ ~inst.done /\ inst.seg # NoSegment /\ g.name = Encode(inst.seg.ntp)
    PROVE  Aged'
<1>1. /\ UNCHANGED <<clock, setup, units, skew, deleteAfter, cleaner>> /\ inst'.done
      /\ \/ rec'.since = clock /\ rec'.phase = "paused"
         \/ rec'.since = rec.since /\ (rec'.phase = rec.phase \/ rec'.phase = "done")
  BY DEF IsOver
<1>2. ~AtWork' /\ (ClocksAgree' <=> ClocksAgree) /\ \A time : Encode(time)' = Encode(time)
  BY <1>1 DEF AtWork, Encode, ClocksAgree
<1>3. clock \in Nat /\ rec.since \in Nat
  BY DEF Aged, Timing
<1>4. Timing' /\ Waiting'
  BY OverTimed DEF Aged
<1>5. Punctual' /\ Kept'
  BY <1>2 DEF Punctual, Kept
<1>. SUFFICES ASSUME ClocksAgree PROVE Named'
  BY <1>2, <1>4, <1>5 DEF Aged
<1>10. Named
  BY DEF Aged
<1>6. ChosenIsOld'
  BY <1>1, <1>10 DEF Named, ChosenIsOld, Decode
<1>7. ASSUME NEW time \in Nat, time <= clock, inst.seg = NoSegment \/ rec.phase = "paused" => time <= rec.since
      PROVE  NamedAt(time)'
  BY <1>1, <1>2, <1>3, <1>7 DEF NamedAt
<1>8. ASSUME NEW g \in disk' PROVE \E time \in Nat : g.name = Encode(time)' /\ NamedAt(time)'
  <2>1. ASSUME NEW f \in disk, f.name = g.name
        PROVE  \E time \in Nat : g.name = Encode(time)' /\ NamedAt(time)'
    <3>1. PICK time \in Nat : f.name = Encode(time) /\ NamedAt(time)
      BY <1>10 DEF Named, InOrder
    <3>2. NamedAt(time)'
      BY <1>7, <3>1 DEF NamedAt
    <3>. QED
      BY <1>2, <2>1, <3>1, <3>2
  <2>2. ASSUME rec.phase = "up", ~inst.done, inst.seg # NoSegment, g.name = Encode(inst.seg.ntp)
        PROVE  \E time \in Nat : g.name = Encode(time)' /\ NamedAt(time)'
    <3>1. PICK v \in Range(units) : v.ntp = inst.seg.ntp
      BY <2>2 DEF Aged, Waiting
    <3>2. v.ntp \in Nat /\ v.ntp <= clock
      BY <1>3, UnitsAreSamples DEF Aged, Timing, ClocksAgree
    <3>3. NamedAt(v.ntp)'
      BY <1>7, <2>2, <3>2
    <3>. QED
      BY <1>2, <2>2, <3>1, <3>2, <3>3
  <2>. QED
    BY <2>1, <2>2
<1>9. InOrder'
  BY <1>8 DEF InOrder
<1>. QED
  BY <1>5, <1>6, <1>9 DEF Named

(* InstanceFails, Split and Terminated.                                    *)
LEMMA CloseAged ==
    ASSUME Recorded, Aged, NEW io, InstanceFails(io) \/ Split(io) \/ Terminated(io), UNCHANGED cleanerVars
    PROVE  Aged'
<1>. DEFINE st == CloseFormat(inst, io)
<1>1. rec.phase = "up" \/ inst.done
  BY DEF Recorded
<1>2. \A g \in disk' : \E f \in st.disk : f.name = g.name
  <2>1. disk' = st.disk \/ \E before, after : disk' = Renamed(st.disk, before, after)
    BY DEF InstanceFails, Split, Terminated
  <2>2. \A f \in st.disk : IsFile(f)
    BY CloseFormatIsFine DEF Recorded, Fine
  <2>. HIDE DEF st
  <2>3. ASSUME NEW before, NEW after, NEW g \in Renamed(st.disk, before, after)
        PROVE  \E f \in st.disk : f.name = g.name
    <3>1. PICK f \in st.disk : g = f \/ g = [f EXCEPT !.renamed = TRUE]
      BY <2>3 DEF Renamed
    <3>2. f.name = g.name
      BY <2>2, <3>1 DEF IsFile
    <3>. QED
      BY <3>2
  <2>. QED
    BY <2>1, <2>3
<1>3. \A g \in st.disk : \/ \E f \in disk : f.name = g.name
                         \/ ~inst.done /\ inst.seg # NoSegment /\ g.name = Encode(inst.seg.ntp)
  BY CloseFormatWithin
<1>. HIDE DEF st
<1>4. \A g \in disk' : \/ \E f \in disk : f.name = g.name
                       \/ rec.phase = "up" /\ ~inst.done /\ inst.seg # NoSegment /\ g.name = Encode(inst.seg.ntp)
  BY <1>1, <1>2, <1>3
<1>5. IsOver /\ (inst'.seg = NoSegment <=> inst.seg = NoSegment)
  BY CloseIsOver
<1>. QED
  BY <1>4, <1>5, OverAged

(* The instance is over, or the process dies.                              *)
LEMMA EndAged ==
    ASSUME Recorded, Aged, NEW io, InstanceEnded \/ Crash(io), UNCHANGED cleanerVars
    PROVE  Aged'
<1>1. IsOver /\ rec'.phase = "paused" /\ rec'.since = clock
  BY EndIsOver
<1>2. \A g \in disk' : \/ \E f \in disk : f.name = g.name
                       \/ rec.phase = "up" /\ ~inst.done /\ inst.seg # NoSegment /\ g.name = Encode(inst.seg.ntp)
  <2>1. CASE disk' = disk
    BY <2>1
  <2>2. CASE /\ rec.phase = "up" /\ ~inst.done /\ inst.seg # NoSegment
             /\ disk' = CloseCurPart(Now(inst), io).disk
    <3>1. Now(inst).inst = inst /\ Now(inst).disk = disk /\ Fine(inst, disk, events)
      BY DEF Now, Recorded
    <3>2. GoodSegment(setup.fmt, Now(inst))
      BY <2>2, <3>1, NowIsGood DEF GoodSegment
    <3>3. Within(Now(inst), CloseCurPart(Now(inst), io))
      BY <3>2, CloseCurPartWithin
    <3>. QED
      BY <2>2, <3>1, <3>3 DEF Within, Names
  <2>. QED
    BY <2>1, <2>2 DEF InstanceEnded, Crash
<1>. QED
  BY <1>1, <1>2, OverAged

(* The pause is over.                                                      *)
LEMMA RestartAged == ASSUME Recorded, Aged, Restart, UNCHANGED cleanerVars PROVE Aged'
<1>1. /\ UNCHANGED <<clock, setup, units, skew, disk, deleteAfter, cleaner>>
      /\ rec.phase = "paused" /\ rec' = [rec EXCEPT !.phase = "up"]
  BY DEF Restart, cleanerVars
<1>2. rec'.phase = "up" /\ rec'.since = rec.since
  BY <1>1 DEF Recorded
<1>3. /\ Timing' /\ Waiting'
      /\ inst'.seg = NoSegment /\ \A t \in DOMAIN setup.medias : ~Waits(t)'
  BY RestartTimed DEF Aged
<1>4. /\ Mine' = Mine /\ Mine \subseteq DOMAIN setup.medias
      /\ \A time : Encode(time)' = Encode(time)
  BY <1>1, TracksAreFew DEF Mine, Encode, Aged, Timing
<1>5. Punctual'
  BY <1>1, <1>3, <1>4 DEF Punctual
<1>6. ASSUME Named PROVE InOrder'
  <2>1. ASSUME NEW time \in Nat, NamedAt(time) PROVE NamedAt(time)'
    BY <1>1, <1>2, <1>3, <1>4, <2>1 DEF NamedAt
  <2>. QED
    BY <1>1, <1>4, <1>6, <2>1 DEF Named, InOrder
<1>7. Kept'
  BY <1>3 DEF Kept, HasFile, IsOpen
<1>8. ASSUME Named PROVE ChosenIsOld'
  BY <1>1, <1>8 DEF Named, ChosenIsOld, Decode
<1>9. ClocksAgree' <=> ClocksAgree
  BY <1>1 DEF ClocksAgree
<1>. QED
  BY <1>3, <1>5, <1>6, <1>7, <1>8, <1>9 DEF Aged, Named

(* The start of a segment comes back from its name, in its zone.           *)
LEMMA NamesAreTimes ==
    ASSUME setup \in Setups, NEW time \in Nat
    PROVE  /\ Offset(setup.zone) \in Int /\ DecodedOffset(setup.zone) \in Int
           /\ Decode(Encode(time)) = time + Offset(setup.zone) - DecodedOffset(setup.zone)
<1>1. setup.zone \in [sign : {-1, 1}, h : Nat, m : Nat]
  BY RecorderAssumption
<1>2. PICK z \in [sign : {-1, 1}, h : Nat, m : Nat] : setup.zone = z
  BY <1>1
<1>3. /\ z.sign = 1 \/ z.sign = -1
      /\ z.h \in Nat /\ z.m \in Nat
  OBVIOUS
<1>4. Offset(z) \in Int
  <2>1. CASE z.sign = 1
    BY <1>3, <2>1 DEF Offset
  <2>2. CASE z.sign = -1
    BY <1>3, <2>2 DEF Offset
  <2>. QED
    BY <1>3, <2>1, <2>2
<1>5. DecodedOffset(z) \in Int
  <2>1. CASE z.sign = 1
    BY <1>3, <2>1 DEF DecodedOffset
  <2>2. CASE z.sign = -1
    BY <1>3, <2>2 DEF DecodedOffset
  <2>. QED
    BY <1>3, <2>1, <2>2
<1>6. Decode(Encode(time)) = time + Offset(z) - DecodedOffset(z)
  <2>1. Encode(time).local = time + Offset(z) /\ Encode(time).zone = z
    BY <1>2 DEF Encode
  <2>2. Decode(Encode(time)) = Encode(time).local - DecodedOffset(Encode(time).zone)
    BY DEF Decode
  <2>3. DecodedOffset(Encode(time).zone) = DecodedOffset(z)
    BY <2>1
  <2>. QED
    BY <1>4, <1>5, <2>1, <2>2, <2>3
<1>. QED
  BY <1>2, <1>4, <1>5, <1>6

(* The open segment is young enough to be kept.                            *)
LEMMA OpenIsYoung ==
    ASSUME Timing, Waiting, Punctual, RetentionIsLong, ClocksAgree, AtWork, ~starved, inst.seg # NoSegment
    PROVE  inst.seg.ntp \in Nat /\ ~(Decode(Encode(inst.seg.ntp)) <= clock - DeleteAfter)
<1>. DEFINE tracks == Cardinality(Mine)
            age == KeyInterval * tracks
            z == setup.zone
<1>1. PICK v \in Range(units) : v.dts = inst.seg.dts /\ v.ntp = inst.seg.ntp
  BY DEF Waiting, AtWork
<1>2. v.dts \in Nat /\ v.ntp = v.dts /\ v.ntp \in Nat /\ clock \in Nat
  BY UnitsAreSamples DEF Timing, ClocksAgree
<1>3. setup \in Setups
  BY DEF Timing
<1>4. PICK h \in Mine : InTime(v.dts, h)
  BY <1>1 DEF Punctual
<1>5. clock < v.dts + SegmentDuration + age
  BY <1>2, <1>3, <1>4, InTimeIsYoung
<1>6. SegmentDuration + age <= DeleteAfter + Offset(z) - DecodedOffset(z)
  BY <1>3 DEF RetentionIsLong, Mine
<1>7. /\ tracks \in Nat /\ KeyInterval \in Nat /\ SegmentDuration \in Nat /\ DeleteAfter \in Nat
      /\ Offset(z) \in Int /\ DecodedOffset(z) \in Int
      /\ Decode(Encode(v.ntp)) = v.ntp + Offset(z) - DecodedOffset(z)
  BY <1>2, <1>3, TracksAreFew, NamesAreTimes, RecorderAssumption, DeleteAfterIsValid
<1>8. age \in Nat
  BY <1>7
<1>. HIDE DEF tracks, age, z
<1>9. ~(Decode(Encode(v.ntp)) <= clock - DeleteAfter)
  BY <1>2, <1>5, <1>6, <1>7, <1>8
<1>. QED
  BY <1>1, <1>2, <1>9

(* The cleaner removes what was old enough when it looked, or not the      *)
(* latest.                                                                 *)
LEMMA CleanerAged ==
    ASSUME Recorded, Aged, RetentionIsLong, CleanerNext
    PROVE  Aged'
<1>1. UNCHANGED <<clock, setup, units, skew, inst, starved, rec>> /\ disk' \subseteq disk
  BY DEF CleanerNext, CleanerStarts, CleanerRemoves, CleanerReclaims, ReloadPathConfs, recVars
<1>2. /\ clock \in Nat /\ setup \in Setups /\ DeleteAfter \in Nat
      /\ deleteAfter \in {0, DeleteAfter}
  BY DeleteAfterIsValid DEF Aged, Timing
<1>3. \A name : Decode(name)' = Decode(name)
  BY DEF Decode
<1>4. CASE CleanerStarts
  <2>1. disk' = disk /\ deleteAfter' = deleteAfter /\ cleaner'.names = {f.name : f \in Expired}
    BY <1>4 DEF CleanerStarts, recVars
  <2>2. ASSUME Named, NEW f \in Expired PROVE Decode(f.name) \in Int /\ Decode(f.name) <= clock - DeleteAfter
    <3>1. f \in disk /\ deleteAfter = DeleteAfter /\ Decode(f.name) <= clock - deleteAfter
      BY <1>2 DEF Expired, Start
    <3>2. PICK time \in Nat : f.name = Encode(time)
      BY <2>2, <3>1 DEF Named, InOrder
    <3>3. Decode(f.name) \in Int
      BY <1>2, <3>2, NamesAreTimes
    <3>. QED
      BY <3>1, <3>3
  <2>3. Named => ChosenIsOld'
    BY <1>1, <1>3, <2>1, <2>2 DEF ChosenIsOld
  <2>. QED
    BY <1>1, <1>2, <2>1, <2>3, StillAged
<1>5. CASE ReloadPathConfs
  <2>1. disk' = disk /\ deleteAfter' = DeleteAfter /\ cleaner' = cleaner
    BY <1>5 DEF ReloadPathConfs, recVars
  <2>2. Named => ChosenIsOld'
    BY <1>1, <1>3, <2>1 DEF Named, ChosenIsOld
  <2>. QED
    BY <1>1, <2>1, <2>2, StillAged
<1>6. CASE CleanerRemoves \/ CleanerReclaims
  <2>1. deleteAfter' = deleteAfter /\ cleaner'.names = {}
    BY <1>6 DEF CleanerRemoves, CleanerReclaims, Idle
  <2>2. /\ (AtWork' <=> AtWork) /\ (ClocksAgree' <=> ClocksAgree) /\ Mine' = Mine /\ EndOfTime' = EndOfTime
        /\ (\A t : Waits(t)' <=> Waits(t)) /\ \A time : Encode(time)' = Encode(time)
    BY <1>1 DEF AtWork, ClocksAgree, Mine, EndOfTime, Waits, Encode
  <2>3. Timing'
    BY <1>1, <2>1, <2>2 DEF Aged, Timing
  <2>4. Waiting'
    BY <1>1, <2>2 DEF Aged, Waiting
  <2>5. Punctual'
    BY <1>1, <2>2, SamePunctual DEF Aged
  <2>. SUFFICES ASSUME ClocksAgree PROVE Named'
    BY <2>2, <2>3, <2>4, <2>5 DEF Aged
  <2>9. Named
    BY DEF Aged
  <2>6. InOrder'
    <3>1. ASSUME NEW time, NamedAt(time) PROVE NamedAt(time)'
      BY <1>1, <2>2, <3>1 DEF NamedAt
    <3>. QED
      BY <1>1, <2>2, <2>9, <3>1 DEF Named, InOrder
  <2>7. Kept'
    <3>. SUFFICES ASSUME AtWork, ~starved, IsOpen(inst)
                  PROVE  \E f \in disk' : Open(f) /\ f.name = Encode(inst.seg.ntp)
      BY <1>1, <2>2 DEF Kept, HasFile, Open
    <3>1. PICK f \in disk : Open(f) /\ f.name = Encode(inst.seg.ntp)
      BY <2>9 DEF Named, Kept, HasFile
    <3>2. inst.seg.ntp \in Nat /\ ~(Decode(Encode(inst.seg.ntp)) <= clock - DeleteAfter)
      BY OpenIsYoung DEF Aged, IsOpen
    <3>3. f.name \notin cleaner.names
      BY <2>9, <3>1, <3>2 DEF Named, ChosenIsOld
    <3>4. f \notin Reclaimed
      <4>. SUFFICES ASSUME NEW g \in disk, Start(f) < Start(g)
                    PROVE  FALSE
        BY DEF Reclaimed, Reclaimable
      <4>1. PICK time \in Nat : g.name = Encode(time) /\ time <= inst.seg.ntp
        BY <2>9 DEF Named, InOrder, NamedAt, IsOpen
      <4>2. /\ Offset(setup.zone) \in Int /\ DecodedOffset(setup.zone) \in Int
            /\ Start(g) = time + Offset(setup.zone) - DecodedOffset(setup.zone)
            /\ Start(f) = inst.seg.ntp + Offset(setup.zone) - DecodedOffset(setup.zone)
        BY <1>2, <3>1, <3>2, <4>1, NamesAreTimes DEF Start
      <4>. QED
        BY <3>2, <4>1, <4>2
    <3>5. f \in disk'
      BY <1>6, <3>3, <3>4 DEF CleanerRemoves, CleanerReclaims
    <3>. QED
      BY <3>1, <3>5
  <2>8. ChosenIsOld'
    BY <2>1 DEF ChosenIsOld
  <2>. QED
    BY <2>6, <2>7, <2>8 DEF Named
<1>. QED
  BY <1>4, <1>5, <1>6 DEF CleanerNext

(* At first nothing is there.                                              *)
LEMMA AgedAtFirst == ASSUME Init PROVE Aged
<1>1. /\ clock = 0 /\ units = <<>> /\ skew \in Int /\ disk = {} /\ setup \in Setups
      /\ rec = [phase |-> "up", term |-> FALSE, since |-> 0]
      /\ inst = NewInstance(1) /\ deleteAfter = 0 /\ cleaner.names = {}
  BY RecorderAssumption DEF Init, RecorderInit, CleanerInit, Idle
<1>2. /\ inst.seg = NoSegment /\ inst.hasVideo = FALSE /\ inst.next = [t \in DOMAIN setup.medias |-> None]
  BY <1>1 DEF NewInstance
<1>3. Range(units) = {}
  BY <1>1 DEF Range
<1>4. Mine \subseteq DOMAIN setup.medias
  BY <1>1, TracksAreFew
<1>5. Timing
  BY <1>1, <1>3 DEF Timing
<1>6. Waiting
  BY <1>2, <1>3, <1>4 DEF Waiting, Waits
<1>7. Punctual
  BY <1>2, <1>4 DEF Punctual, Waits
<1>. QED
  BY <1>1, <1>2, <1>5, <1>6, <1>7 DEF Aged, Named, InOrder, Kept, HasFile, IsOpen, ChosenIsOld

(* Every step keeps it.                                                    *)
LEMMA StepAged ==
    ASSUME Recorded, Aged, RetentionIsLong, [Next]_vars
    PROVE  Aged'
<1>1. CASE /\ UNCHANGED <<clock, setup, units, skew, inst, disk, starved, deleteAfter, cleaner>>
           /\ rec'.phase = rec.phase /\ rec'.since = rec.since
  <2>1. (Named => ChosenIsOld') /\ deleteAfter' \in {0, DeleteAfter}
    BY <1>1 DEF Aged, Named, ChosenIsOld, Decode, Timing
  <2>. QED
    BY <1>1, <2>1, StillAged
<1>2. CASE RecorderNext /\ UNCHANGED cleanerVars
  <2>1. CASE Close
    <3>1. rec'.phase = rec.phase /\ rec'.since = rec.since
      BY <2>1 DEF Close, Recorded
    <3>. QED
      BY <1>1, <1>2, <2>1, <3>1 DEF Close, cleanerVars
  <2>2. CASE SplitRefused \/ \E name \in BOOLEAN : SplitSegment(name)
    BY <1>1, <1>2, <2>2 DEF SplitRefused, SplitSegment, cleanerVars
  <2>3. CASE \E t \in DOMAIN setup.medias, key \in BOOLEAN, late \in 0..1, io \in Faults \cup {"ok"} :
               OnUnit(t, key, late, io)
    BY <1>2, <2>3, UnitAged
  <2>4. CASE \E io \in Faults \cup {"ok"} : InstanceFails(io) \/ Split(io) \/ Terminated(io)
    BY <1>2, <2>4, CloseAged
  <2>. QED
    BY <1>2, <2>1, <2>2, <2>3, <2>4, TickAged, JumpAged, EndAged, RestartAged DEF RecorderNext, RecorderSteps
<1>3. CASE CleanerNext
  BY <1>3, CleanerAged
<1>4. \/ RecorderNext /\ UNCHANGED cleanerVars
      \/ CleanerNext
      \/ UNCHANGED <<recVars, cleanerVars>>
  BY DEF Next, RecordScene, ArchiveScene, ForwardScene, vars
<1>5. CASE UNCHANGED <<recVars, cleanerVars>>
  BY <1>1, <1>5 DEF recVars, cleanerVars
<1>. QED
  BY <1>2, <1>3, <1>4, <1>5

(* A segment that is open belongs to an instance at work.                  *)
LEMMA OpenIsAtWork ==
    ASSUME Recorded, inst.seg.num >= 0, inst.seg.fi = "open", ~inst.failed
    PROVE  IsOpen(inst) /\ AtWork
<1>1. inst.seg # NoSegment
  BY DEF NoSegment
<1>2. IsOpen(inst) /\ ~inst.done
  BY <1>1 DEF IsOpen, Recorded
<1>. QED
  BY <1>2 DEF AtWork, Recorded

(* The age of the segment at hand, as long as key frames come in time.     *)
AgeIsBounded ==
    AtWork /\ ~starved /\ inst.seg # NoSegment =>
        clock - inst.seg.dts < SegmentDuration + KeyInterval * Cardinality(Tracks(setup.fmt, setup.medias))

(* The segment at hand, as long as key frames come in time, is not older   *)
(* than segmentDuration and a key interval for each track of the recording *)
(* - only the first key frame of a track may fail to cut it -, for any     *)
(* tracks, units, errors of the disk, splits, crashes and removals         *)
(* (format_fmp4_track.go, format_mpegts_track.go).                         *)
THEOREM SegmentsAreCutInTime == ASSUME RetentionIsLong PROVE Spec => []AgeIsBounded
<1>1. Init => Recorded /\ Aged
  BY RecordedAtFirst, AgedAtFirst DEF Init
<1>2. Recorded /\ Aged /\ [Next]_vars => (Recorded /\ Aged)'
  BY StepIsRecorded, StepAged
<1>3. Aged => AgeIsBounded
  <2>. SUFFICES ASSUME Aged, AtWork, ~starved, inst.seg # NoSegment
                PROVE  clock - inst.seg.dts < SegmentDuration + KeyInterval * Cardinality(Mine)
    BY DEF AgeIsBounded, Mine
  <2>. DEFINE tracks == Cardinality(Mine)
              age == KeyInterval * tracks
  <2>1. PICK v \in Range(units) : v.dts = inst.seg.dts
    BY DEF Aged, Waiting, AtWork
  <2>2. v.dts \in Nat /\ clock \in Nat /\ setup \in Setups
    BY UnitsAreSamples DEF Aged, Timing
  <2>3. \E h \in Mine : InTime(v.dts, h)
    BY <2>1 DEF Aged, Punctual
  <2>4. clock < v.dts + SegmentDuration + age
    BY <2>2, <2>3, InTimeIsYoung
  <2>5. age \in Nat /\ SegmentDuration \in Nat
    BY <2>2, TracksAreFew, RecorderAssumption
  <2>. HIDE DEF tracks, age
  <2>6. clock - inst.seg.dts < SegmentDuration + age
    BY <2>1, <2>2, <2>4, <2>5
  <2>. QED
    BY <2>6 DEF tracks, age
<1>. QED
  BY <1>1, <1>2, <1>3, PTL DEF Spec

(* The segment that is being written is not removed under the recorder, if *)
(* retention is longer than a segment and a key interval for each of its   *)
(* tracks, as long as the units carry the time of the node: for any        *)
(* tracks, zones, units, errors of the disk, splits, crashes, removals by  *)
(* age and for space (cleaner.go, format_fmp4.go, format_mpegts.go,        *)
(* recorder.go).  A clock of the publisher that is behind, or that is set, *)
(* is outside of it: the name of a segment is the publisher's time.        *)
THEOREM OpenIsKeptHolds == ASSUME RetentionIsLong PROVE Spec => []OpenIsKept
<1>1. Init => Recorded /\ Aged
  BY RecordedAtFirst, AgedAtFirst DEF Init
<1>2. Recorded /\ Aged /\ [Next]_vars => (Recorded /\ Aged)'
  BY StepIsRecorded, StepAged
<1>3. Recorded /\ Aged => OpenIsKept
  BY OpenIsAtWork DEF Aged, Named, Kept, HasFile, OpenIsKept
<1>. QED
  BY <1>1, <1>2, <1>3, PTL DEF Spec

-----------------------------------------------------------------------------
(***************************************************************************)
(* What the files hold.                                                    *)
(***************************************************************************)
(* A sample in a part.                                                     *)
Piece == [n : Nat, t : Nat, base : Int, dur : Int, key : BOOLEAN]

(* Of each track, what is in P was sent before what is in Q.               *)
Ascending(P, Q) == \A x \in P, y \in Q : x.t = y.t => x.n < y.n

(* It is of the unit it says, and at the time of that unit.                *)
Placed(us, x, start) ==
    /\ x.n \in DOMAIN us /\ us[x.n].t = x.t /\ us[x.n].key = x.key
    /\ us[x.n].dts = start + x.base

(* A part of a segment that starts at start.                               *)
IsPart(us, part, start) ==
    /\ part \in Seq(Piece)
    /\ \A x \in Range(part) : Placed(us, x, start)
    /\ \A i \in DOMAIN part, j \in DOMAIN part : i < j => Ascending({part[i]}, {part[j]})

PiecesIn(parts) == UNION {Range(parts[p]) : p \in DOMAIN parts}

(* The parts of a file.                                                    *)
AreParts(us, parts, start) ==
    /\ parts \in Seq(Seq(Piece))
    /\ \A p \in DOMAIN parts : IsPart(us, parts[p], start)
    /\ \A p \in DOMAIN parts, q \in DOMAIN parts : p < q => Ascending(Range(parts[p]), Range(parts[q]))

(* A file is of an earlier instance, or an earlier segment of it.          *)
Earlier(f, g) == f.stream < g.stream \/ (f.stream = g.stream /\ f.num < g.num)

FilesAscend(us, d) ==
    /\ \A f \in d : AreParts(us, f.parts, f.dts)
    /\ \A f \in d, g \in d : Earlier(f, g) => Ascending(PiecesIn(f.parts), PiecesIn(g.parts))

(* No file is later than that of the segment at hand.                      *)
Numbers(i, d) ==
    /\ \A f \in d : /\ f.stream \in Nat /\ f.num \in Nat
                    /\ f.stream < i.id \/ (f.stream = i.id /\ f.num < i.number)
    /\ i.seg # NoSegment => i.seg.num = i.number - 1

(* The part that is not in the file yet.                                   *)
PartAtHand(us, i, d) ==
    i.seg # NoSegment =>
        /\ i.seg.fi \in {"none", "open", "closed"}
        /\ IsPart(us, i.seg.part, i.seg.dts)
        /\ \A f \in d : [stream |-> f.stream, num |-> f.num] = FileOf(i) => f.dts = i.seg.dts

(* It comes after the files.                                               *)
Pending(i, d) ==
    i.seg # NoSegment /\ i.seg.fi # "closed" => \A f \in d : Ascending(PiecesIn(f.parts), Range(i.seg.part))

NearlyTidy(us, i, d) == FilesAscend(us, d) /\ Numbers(i, d) /\ PartAtHand(us, i, d)

Tidy(us, i, d) == NearlyTidy(us, i, d) /\ Pending(i, d)

(* What is in the files, and in the part at hand.                          *)
InFiles(d) == UNION {PiecesIn(f.parts) : f \in d}
InPart(i) == IF i.seg = NoSegment THEN {} ELSE Range(i.seg.part)
Known(i, d) == InFiles(d) \cup InPart(i)

(* A step that adds nothing.                                               *)
Keeps(us, st, after) ==
    /\ Tidy(us, after.inst, after.disk)
    /\ Known(after.inst, after.disk) \subseteq Known(st.inst, st.disk)
    /\ after.inst.next = st.inst.next

(* A step that adds at most the sample s.                                  *)
Adds(us, st, after, s) ==
    /\ Tidy(us, after.inst, after.disk)
    /\ \A x \in Known(after.inst, after.disk) : x \in Known(st.inst, st.disk) \/ (x.n = s.n /\ x.t = s.t)
    /\ after.inst.next = st.inst.next

(* A sample that may be added: it is newer than all of its track.          *)
Fits(us, st, s) ==
    /\ s \in Sample /\ s.n \in DOMAIN us /\ us[s.n] = s
    /\ \A x \in Known(st.inst, st.disk) : x.t = s.t => x.n < s.n

-----------------------------------------------------------------------------
(* Such steps one after the other.                                         *)
LEMMA KeepsAndAdds ==
    ASSUME NEW us, NEW a, NEW b, NEW c, NEW s
    PROVE  /\ Keeps(us, a, b) /\ Keeps(us, b, c) => Keeps(us, a, c)
           /\ Keeps(us, a, b) /\ Adds(us, b, c, s) => Adds(us, a, c, s)
           /\ Adds(us, a, b, s) /\ Keeps(us, b, c) => Adds(us, a, c, s)
           /\ Keeps(us, a, b) => Adds(us, a, b, s)
           /\ Keeps(us, a, b) /\ Fits(us, a, s) => Fits(us, b, s)
BY DEF Keeps, Adds, Fits

(* A sample is appended to a part.                                         *)
LEMMA PieceAppended ==
    ASSUME NEW us, NEW start, NEW part, IsPart(us, part, start), NEW x \in Piece, Placed(us, x, start),
           Ascending(Range(part), {x})
    PROVE  IsPart(us, Append(part, x), start) /\ Range(Append(part, x)) = Range(part) \cup {x}
<1>. DEFINE more == Append(part, x)
            n == Len(part)
<1>1. part \in Seq(Piece) /\ n \in Nat /\ DOMAIN part = 1..n
  BY DEF IsPart
<1>2. more \in Seq(Piece) /\ DOMAIN more = 1..(n + 1) /\ more[n + 1] = x /\ \A i \in 1..n : more[i] = part[i]
  BY <1>1
<1>. HIDE DEF more, n
<1>3. Range(more) = Range(part) \cup {x}
  <2>1. ASSUME NEW y \in Range(more) PROVE y \in Range(part) \cup {x}
    <3>1. PICK i \in 1..(n + 1) : y = more[i]
      BY <1>2 DEF Range
    <3>2. CASE i = n + 1
      BY <1>2, <3>1, <3>2
    <3>3. CASE i # n + 1
      <4>1. i \in 1..n
        BY <1>1, <3>1, <3>3
      <4>. QED
        BY <1>1, <1>2, <3>1, <4>1 DEF Range
    <3>. QED
      BY <3>2, <3>3
  <2>2. ASSUME NEW y \in Range(part) PROVE y \in Range(more)
    <3>1. PICK i \in 1..n : y = part[i]
      BY <1>1 DEF Range
    <3>2. i \in 1..(n + 1) /\ y = more[i]
      BY <1>1, <1>2, <3>1
    <3>. QED
      BY <1>2, <3>2 DEF Range
  <2>3. n + 1 \in 1..(n + 1)
    BY <1>1
  <2>4. x \in Range(more)
    BY <1>2, <2>3 DEF Range
  <2>. QED
    BY <2>1, <2>2, <2>4
<1>4. \A y \in Range(more) : Placed(us, y, start)
  BY <1>3 DEF IsPart
<1>5. ASSUME NEW i \in DOMAIN more, NEW j \in DOMAIN more, i < j PROVE Ascending({more[i]}, {more[j]})
  <2>1. i \in 1..n /\ more[i] = part[i] /\ part[i] \in Range(part)
    <3>1. i \in 1..n
      BY <1>1, <1>2, <1>5
    <3>. QED
      BY <1>1, <1>2, <3>1 DEF Range
  <2>2. CASE j = n + 1
    BY <1>2, <2>1, <2>2 DEF Ascending
  <2>3. CASE j # n + 1
    <3>1. j \in 1..n /\ more[j] = part[j]
      BY <1>1, <1>2, <2>3
    <3>. QED
      BY <1>1, <1>5, <2>1, <3>1 DEF IsPart
  <2>. QED
    BY <2>2, <2>3
<1>6. IsPart(us, more, start)
  BY <1>2, <1>4, <1>5 DEF IsPart
<1>. QED
  BY <1>3, <1>6 DEF more

(* A part is appended to a file.                                           *)
LEMMA PartAppended ==
    ASSUME NEW us, NEW start, NEW parts, AreParts(us, parts, start), NEW part, IsPart(us, part, start),
           Ascending(PiecesIn(parts), Range(part))
    PROVE  /\ AreParts(us, Append(parts, part), start)
           /\ PiecesIn(Append(parts, part)) = PiecesIn(parts) \cup Range(part)
<1>. DEFINE more == Append(parts, part)
            n == Len(parts)
            S == Seq(Piece)
<1>1. parts \in Seq(S) /\ part \in S /\ n \in Nat /\ DOMAIN parts = 1..n
  BY DEF AreParts, IsPart
<1>. HIDE DEF S
<1>2. more \in Seq(S) /\ DOMAIN more = 1..(n + 1) /\ more[n + 1] = part /\ \A i \in 1..n : more[i] = parts[i]
  BY <1>1
<1>. HIDE DEF more, n
<1>3. PiecesIn(more) = PiecesIn(parts) \cup Range(part)
  <2>1. ASSUME NEW i \in 1..(n + 1), NEW y \in Range(more[i]) PROVE y \in PiecesIn(parts) \cup Range(part)
    <3>1. CASE i = n + 1
      BY <1>2, <2>1, <3>1
    <3>2. CASE i # n + 1
      <4>1. i \in 1..n
        BY <1>1, <2>1, <3>2
      <4>2. y \in Range(parts[i]) /\ i \in DOMAIN parts
        BY <1>1, <1>2, <2>1, <4>1
      <4>. QED
        BY <4>2 DEF PiecesIn
    <3>. QED
      BY <3>1, <3>2
  <2>2. ASSUME NEW i \in 1..n, NEW y \in Range(parts[i]) PROVE y \in PiecesIn(more)
    <3>1. i \in 1..(n + 1) /\ y \in Range(more[i])
      BY <1>1, <1>2, <2>2
    <3>. QED
      BY <1>2, <3>1 DEF PiecesIn
  <2>3. n + 1 \in 1..(n + 1)
    BY <1>1
  <2>4. ASSUME NEW y \in Range(part) PROVE y \in PiecesIn(more)
    <3>1. y \in Range(more[n + 1]) /\ n + 1 \in DOMAIN more
      BY <1>2, <2>3, <2>4
    <3>. QED
      BY <3>1 DEF PiecesIn
  <2>5. ASSUME NEW y \in PiecesIn(more) PROVE y \in PiecesIn(parts) \cup Range(part)
    <3>1. PICK i \in 1..(n + 1) : y \in Range(more[i])
      BY <1>2, <2>5 DEF PiecesIn
    <3>. QED
      BY <2>1, <3>1
  <2>6. ASSUME NEW y \in PiecesIn(parts) PROVE y \in PiecesIn(more)
    <3>1. PICK i \in 1..n : y \in Range(parts[i])
      BY <1>1, <2>6 DEF PiecesIn
    <3>. QED
      BY <2>2, <3>1
  <2>. QED
    BY <2>4, <2>5, <2>6
<1>4. \A p \in DOMAIN more : IsPart(us, more[p], start)
  <2>1. ASSUME NEW p \in DOMAIN more PROVE IsPart(us, more[p], start)
    <3>1. CASE p = n + 1
      BY <1>2, <3>1
    <3>2. CASE p # n + 1
      <4>1. p \in 1..n
        BY <1>1, <1>2, <3>2
      <4>. QED
        BY <1>1, <1>2, <4>1 DEF AreParts
    <3>. QED
      BY <3>1, <3>2
  <2>. QED
    BY <2>1
<1>5. ASSUME NEW p \in DOMAIN more, NEW q \in DOMAIN more, p < q PROVE Ascending(Range(more[p]), Range(more[q]))
  <2>1. p \in 1..n
    BY <1>1, <1>2, <1>5
  <2>2. more[p] = parts[p] /\ Range(parts[p]) \subseteq PiecesIn(parts)
    BY <1>1, <1>2, <2>1 DEF PiecesIn
  <2>3. CASE q = n + 1
    BY <1>2, <2>2, <2>3 DEF Ascending
  <2>4. CASE q # n + 1
    <3>1. q \in 1..n /\ more[q] = parts[q]
      BY <1>1, <1>2, <2>4
    <3>. QED
      BY <1>1, <1>5, <2>1, <2>2, <3>1 DEF AreParts
  <2>. QED
    BY <2>3, <2>4
<1>6. AreParts(us, more, start)
  BY <1>2, <1>4, <1>5 DEF AreParts, S
<1>. QED
  BY <1>3, <1>6 DEF more

(* What is known, said otherwise.                                          *)
LEMMA KnownIn ==
    ASSUME NEW i, NEW d, NEW x
    PROVE  x \in Known(i, d) <=>
             (\E f \in d : x \in PiecesIn(f.parts)) \/ (i.seg # NoSegment /\ x \in Range(i.seg.part))
<1>1. x \in InPart(i) <=> i.seg # NoSegment /\ x \in Range(i.seg.part)
  BY DEF InPart
<1>2. x \in InFiles(d) <=> \E f \in d : x \in PiecesIn(f.parts)
  BY DEF InFiles
<1>. QED
  BY <1>1, <1>2 DEF Known

(* A change of something else.                                             *)
LEMMA SameParts ==
    ASSUME NEW us, NEW i, NEW j, NEW d, j.id = i.id, j.number = i.number,
           j.seg = NoSegment <=> i.seg = NoSegment,
           i.seg # NoSegment => /\ j.seg.num = i.seg.num /\ j.seg.dts = i.seg.dts /\ j.seg.part = i.seg.part
                                /\ j.seg.fi = i.seg.fi
    PROVE  /\ NearlyTidy(us, i, d) => NearlyTidy(us, j, d)
           /\ Tidy(us, i, d) => Tidy(us, j, d)
           /\ Known(j, d) = Known(i, d)
<1>1. Numbers(i, d) => Numbers(j, d)
  BY DEF Numbers
<1>2. PartAtHand(us, i, d) => PartAtHand(us, j, d)
  BY DEF PartAtHand, FileOf
<1>3. Pending(i, d) => Pending(j, d)
  BY DEF Pending
<1>4. Known(j, d) = Known(i, d)
  BY DEF Known, InPart
<1>. QED
  BY <1>1, <1>2, <1>3, <1>4 DEF NearlyTidy, Tidy

(* The segment of a state is replaced.                                     *)
LEMMA SegmentSet ==
    ASSUME NEW st, IsState(st), NEW s
    PROVE  LET after == [st EXCEPT !.inst.seg = s] IN
             /\ after.inst.seg = s /\ after.inst.id = st.inst.id /\ after.inst.number = st.inst.number
             /\ after.inst.next = st.inst.next /\ after.disk = st.disk /\ after.err = st.err
             /\ after.events = st.events
<1>. DEFINE after == [st EXCEPT !.inst.seg = s]
<1>1. after = [inst |-> [st.inst EXCEPT !.seg = s], disk |-> st.disk, events |-> st.events, err |-> st.err]
  BY DEF IsState
<1>. QED
  BY <1>1 DEF IsState, IsInstance, InstanceShape

(* An error.                                                               *)
LEMMA FailedKeeps ==
    ASSUME NEW us, NEW st, IsState(st), Tidy(us, st.inst, st.disk)
    PROVE  Keeps(us, st, Failed(st)) /\ Keeps(us, st, st) /\ \A e : Keeps(us, st, [st EXCEPT !.err = e])
<1>1. ASSUME NEW e PROVE Keeps(us, st, [st EXCEPT !.err = e])
  <2>. DEFINE after == [st EXCEPT !.err = e]
  <2>1. after = [inst |-> st.inst, disk |-> st.disk, events |-> st.events, err |-> e]
    BY DEF IsState
  <2>2. after.inst = st.inst /\ after.disk = st.disk
    BY <2>1
  <2>. HIDE DEF after
  <2>3. Keeps(us, st, after)
    BY <2>2 DEF Keeps
  <2>. QED
    BY <2>3 DEF after
<1>2. Keeps(us, st, st)
  BY DEF Keeps
<1>. QED
  BY <1>1, <1>2 DEF Failed

(* Some other field of the segment is written, or what is in the part is   *)
(* dropped.                                                                *)
LEMMA FieldsKeep ==
    ASSUME NEW us, NEW st, GoodSegment(setup.fmt, st), NearlyTidy(us, st.inst, st.disk), NEW v
    PROVE  /\ Keeps(us, st, [st EXCEPT !.inst.seg.cur = v, !.inst.seg.part = <<>>])
           /\ Tidy(us, st.inst, st.disk) =>
                /\ Keeps(us, st, [st EXCEPT !.inst.seg.partStart = v])
                /\ Keeps(us, st, [st EXCEPT !.inst.seg.partEnd = v])
                /\ Keeps(us, st, [st EXCEPT !.inst.seg.end = v])
                /\ Keeps(us, st, [st EXCEPT !.inst.seg.last = v])
                /\ Keeps(us, st, [st EXCEPT !.inst.seg.flushed = v])
                /\ Keeps(us, st, [st EXCEPT !.inst.seg.cur = v])
<1>. DEFINE r == st.inst.seg
            Same(s) == s.num = r.num /\ s.dts = r.dts /\ s.fi = r.fi /\ s # NoSegment
<1>1. IsState(st) /\ r # NoSegment /\ IsSegmentRecord(r)
  BY DEF GoodSegment, Good, IsState, IsInstance, InstanceShape
<1>2. ASSUME Tidy(us, st.inst, st.disk), NEW s, Same(s), s.part = r.part
      PROVE  Keeps(us, st, [st EXCEPT !.inst.seg = s])
  <2>. DEFINE after == [st EXCEPT !.inst.seg = s]
  <2>1. /\ after.inst.seg = s /\ after.inst.id = st.inst.id /\ after.inst.number = st.inst.number
        /\ after.inst.next = st.inst.next /\ after.disk = st.disk
    BY <1>1, SegmentSet
  <2>. HIDE DEF after
  <2>2. Tidy(us, after.inst, st.disk) /\ Known(after.inst, st.disk) = Known(st.inst, st.disk)
    BY <1>1, <1>2, <2>1, SameParts
  <2>3. Keeps(us, st, after)
    BY <2>1, <2>2 DEF Keeps
  <2>. QED
    BY <2>3 DEF after
<1>3. ASSUME NEW s, Same(s), s.part = <<>>
      PROVE  Keeps(us, st, [st EXCEPT !.inst.seg = s])
  <2>. DEFINE after == [st EXCEPT !.inst.seg = s]
  <2>1. /\ after.inst.seg = s /\ after.inst.id = st.inst.id /\ after.inst.number = st.inst.number
        /\ after.inst.next = st.inst.next /\ after.disk = st.disk
    BY <1>1, SegmentSet
  <2>. HIDE DEF after
  <2>2. Range(s.part) = {} /\ IsPart(us, s.part, s.dts)
    BY <1>3 DEF Range, IsPart
  <2>3. Numbers(after.inst, st.disk) /\ PartAtHand(us, after.inst, st.disk)
    BY <1>1, <1>3, <2>1, <2>2 DEF NearlyTidy, Numbers, PartAtHand, FileOf
  <2>4. Pending(after.inst, st.disk)
    BY <1>1, <1>3, <2>1, <2>2 DEF Pending, Ascending
  <2>5. Known(after.inst, st.disk) \subseteq Known(st.inst, st.disk)
    BY <1>1, <1>3, <2>1, <2>2 DEF Known, InPart
  <2>6. Keeps(us, st, after)
    BY <2>1, <2>3, <2>4, <2>5 DEF Keeps, Tidy, NearlyTidy
  <2>. QED
    BY <2>6 DEF after
<1>4. /\ Same([r EXCEPT !.cur = v, !.part = <<>>]) /\ [r EXCEPT !.cur = v, !.part = <<>>].part = <<>>
      /\ Same([r EXCEPT !.partStart = v]) /\ [r EXCEPT !.partStart = v].part = r.part
      /\ Same([r EXCEPT !.partEnd = v]) /\ [r EXCEPT !.partEnd = v].part = r.part
  <2>0. \A s : s.num \in Nat => s # NoSegment
    BY DEF NoSegment
  <2>1. /\ [r EXCEPT !.cur = v, !.part = <<>>].num = r.num /\ [r EXCEPT !.cur = v, !.part = <<>>].dts = r.dts
        /\ [r EXCEPT !.cur = v, !.part = <<>>].fi = r.fi /\ [r EXCEPT !.cur = v, !.part = <<>>].part = <<>>
    BY <1>1 DEF IsSegmentRecord
  <2>2. /\ [r EXCEPT !.partStart = v].num = r.num /\ [r EXCEPT !.partStart = v].dts = r.dts
        /\ [r EXCEPT !.partStart = v].fi = r.fi /\ [r EXCEPT !.partStart = v].part = r.part
    BY <1>1 DEF IsSegmentRecord
  <2>3. /\ [r EXCEPT !.partEnd = v].num = r.num /\ [r EXCEPT !.partEnd = v].dts = r.dts
        /\ [r EXCEPT !.partEnd = v].fi = r.fi /\ [r EXCEPT !.partEnd = v].part = r.part
    BY <1>1 DEF IsSegmentRecord
  <2>. QED
    BY <1>1, <2>0, <2>1, <2>2, <2>3 DEF IsSegmentRecord
<1>5. /\ Same([r EXCEPT !.end = v]) /\ [r EXCEPT !.end = v].part = r.part
      /\ Same([r EXCEPT !.last = v]) /\ [r EXCEPT !.last = v].part = r.part
      /\ Same([r EXCEPT !.flushed = v]) /\ [r EXCEPT !.flushed = v].part = r.part
      /\ Same([r EXCEPT !.cur = v]) /\ [r EXCEPT !.cur = v].part = r.part
  <2>0. \A s : s.num \in Nat => s # NoSegment
    BY DEF NoSegment
  <2>1. /\ [r EXCEPT !.end = v].num = r.num /\ [r EXCEPT !.end = v].dts = r.dts
        /\ [r EXCEPT !.end = v].fi = r.fi /\ [r EXCEPT !.end = v].part = r.part
    BY <1>1 DEF IsSegmentRecord
  <2>2. /\ [r EXCEPT !.last = v].num = r.num /\ [r EXCEPT !.last = v].dts = r.dts
        /\ [r EXCEPT !.last = v].fi = r.fi /\ [r EXCEPT !.last = v].part = r.part
    BY <1>1 DEF IsSegmentRecord
  <2>3. /\ [r EXCEPT !.flushed = v].num = r.num /\ [r EXCEPT !.flushed = v].dts = r.dts
        /\ [r EXCEPT !.flushed = v].fi = r.fi /\ [r EXCEPT !.flushed = v].part = r.part
    BY <1>1 DEF IsSegmentRecord
  <2>4. /\ [r EXCEPT !.cur = v].num = r.num /\ [r EXCEPT !.cur = v].dts = r.dts
        /\ [r EXCEPT !.cur = v].fi = r.fi /\ [r EXCEPT !.cur = v].part = r.part
    BY <1>1 DEF IsSegmentRecord
  <2>. QED
    BY <1>1, <2>0, <2>1, <2>2, <2>3, <2>4 DEF IsSegmentRecord
<1>6. /\ [st EXCEPT !.inst.seg.cur = v, !.inst.seg.part = <<>>] = [st EXCEPT !.inst.seg = [r EXCEPT !.cur = v, !.part = <<>>]]
      /\ [st EXCEPT !.inst.seg.partStart = v] = [st EXCEPT !.inst.seg = [r EXCEPT !.partStart = v]]
      /\ [st EXCEPT !.inst.seg.partEnd = v] = [st EXCEPT !.inst.seg = [r EXCEPT !.partEnd = v]]
      /\ [st EXCEPT !.inst.seg.end = v] = [st EXCEPT !.inst.seg = [r EXCEPT !.end = v]]
      /\ [st EXCEPT !.inst.seg.last = v] = [st EXCEPT !.inst.seg = [r EXCEPT !.last = v]]
      /\ [st EXCEPT !.inst.seg.flushed = v] = [st EXCEPT !.inst.seg = [r EXCEPT !.flushed = v]]
      /\ [st EXCEPT !.inst.seg.cur = v] = [st EXCEPT !.inst.seg = [r EXCEPT !.cur = v]]
  OBVIOUS
<1>. HIDE DEF Same
<1>7. Keeps(us, st, [st EXCEPT !.inst.seg = [r EXCEPT !.cur = v, !.part = <<>>]])
  BY <1>3, <1>4
<1>8. Tidy(us, st.inst, st.disk) =>
        /\ Keeps(us, st, [st EXCEPT !.inst.seg = [r EXCEPT !.partStart = v]])
        /\ Keeps(us, st, [st EXCEPT !.inst.seg = [r EXCEPT !.partEnd = v]])
        /\ Keeps(us, st, [st EXCEPT !.inst.seg = [r EXCEPT !.end = v]])
        /\ Keeps(us, st, [st EXCEPT !.inst.seg = [r EXCEPT !.last = v]])
        /\ Keeps(us, st, [st EXCEPT !.inst.seg = [r EXCEPT !.flushed = v]])
        /\ Keeps(us, st, [st EXCEPT !.inst.seg = [r EXCEPT !.cur = v]])
  BY <1>2, <1>4, <1>5
<1>. QED
  BY <1>6, <1>7, <1>8

(* The file of a segment is created, with nothing in it.                   *)
LEMMA CreatedKeeps ==
    ASSUME NEW us, NEW st, NEW io, GoodSegment(setup.fmt, st), Tidy(us, st.inst, st.disk),
           st.inst.seg.fi = "none"
    PROVE  /\ Keeps(us, st, Created(st, io))
           /\ ~Created(st, io).err => Created(st, io).inst.seg.fi = "open"
<1>. DEFINE i == st.inst
            header == setup.fmt = "fmp4" /\ io # "init"
            fails == io = "init" /\ setup.fmt = "fmp4"
            new == NewFile(i, header)
            s == [i.seg EXCEPT !.fi = IF fails THEN @ ELSE "open"]
            after == Created(st, io)
<1>0. IsState(st) /\ IsInstance(i) /\ IsSegmentRecord(i.seg) /\ i.seg # NoSegment
  BY DEF GoodSegment, Good, IsState, IsInstance, InstanceShape
<1>1. CASE io = "create"
  <2>1. after = Failed(st)
    BY <1>1 DEF Created
  <2>2. Failed(st).err
    BY <1>0 DEF Failed, IsState
  <2>. QED
    BY <1>0, <2>1, <2>2, FailedKeeps
<1>2. CASE io # "create"
  <2>1. after = [inst |-> [i EXCEPT !.seg = s], disk |-> Overwritten(st.disk, new),
                 events |-> Append(st.events, [kind |-> "create", file |-> FileOf([i EXCEPT !.seg = s])]),
                 err |-> fails]
    BY <1>0, <1>2 DEF Created, Tell, IsState, IsInstance, InstanceShape
  <2>2. s.num = i.seg.num /\ s.dts = i.seg.dts /\ s.part = i.seg.part /\ s.fi = (IF fails THEN "none" ELSE "open")
        /\ i.seg.num \in Nat
    BY <1>0 DEF IsSegmentRecord
  <2>3. s # NoSegment
    BY <2>2 DEF NoSegment
  <2>. HIDE DEF after, s, header, fails
  <2>4. after.inst = [i EXCEPT !.seg = s] /\ after.disk = Overwritten(st.disk, new) /\ after.err = fails
    BY <2>1
  <2>5. after.inst.seg = s /\ after.inst.id = i.id /\ after.inst.number = i.number /\ after.inst.next = i.next
    BY <1>0, <2>4 DEF IsInstance, InstanceShape
  <2>6. new.parts = <<>> /\ new.dts = i.seg.dts /\ new.stream = i.id /\ new.num = i.seg.num
    BY DEF NewFile
  <2>. HIDE DEF new
  <2>7. \A f \in after.disk : f \in st.disk \/ f = new
    BY <2>4 DEF Overwritten
  <2>8. PiecesIn(new.parts) = {} /\ AreParts(us, new.parts, new.dts)
    BY <2>6 DEF PiecesIn, AreParts
  <2>9. FilesAscend(us, after.disk)
    BY <2>7, <2>8 DEF Tidy, NearlyTidy, FilesAscend, Ascending
  <2>10. Numbers(after.inst, after.disk)
    <3>1. i.number \in Nat /\ i.id \in Nat /\ i.seg.num = i.number - 1
      BY <1>0 DEF Tidy, NearlyTidy, Numbers, IsInstance, InstanceShape
    <3>. QED
      BY <1>0, <2>2, <2>5, <2>6, <2>7, <3>1 DEF Tidy, NearlyTidy, Numbers
  <2>11. PartAtHand(us, after.inst, after.disk)
    <3>1. FileOf(after.inst) = FileOf(i)
      BY <2>2, <2>5 DEF FileOf
    <3>. QED
      BY <1>0, <2>2, <2>5, <2>6, <2>7, <3>1 DEF Tidy, NearlyTidy, PartAtHand
  <2>12. Pending(after.inst, after.disk)
    BY <1>0, <2>2, <2>5, <2>7, <2>8 DEF Tidy, Pending, Ascending
  <2>13. Known(after.inst, after.disk) \subseteq Known(i, st.disk)
    <3>1. ASSUME NEW x \in Known(after.inst, after.disk) PROVE x \in Known(i, st.disk)
      <4>1. (\E f \in after.disk : x \in PiecesIn(f.parts)) \/ x \in Range(s.part)
        BY <2>5, <3>1, KnownIn
      <4>2. (\E f \in st.disk : x \in PiecesIn(f.parts)) \/ x \in Range(i.seg.part)
        BY <2>2, <2>7, <2>8, <4>1
      <4>. QED
        BY <1>0, <4>2, KnownIn
    <3>. QED
      BY <3>1
  <2>14. Keeps(us, st, after)
    BY <2>5, <2>9, <2>10, <2>11, <2>12, <2>13 DEF Keeps, Tidy, NearlyTidy
  <2>15. ~after.err => after.inst.seg.fi = "open"
    BY <2>2, <2>4, <2>5
  <2>. QED
    BY <2>14, <2>15 DEF after
<1>. QED
  BY <1>1, <1>2

(* A step that leaves what is in the part in its file as well.             *)
NearlyKeeps(us, st, after) ==
    /\ NearlyTidy(us, after.inst, after.disk)
    /\ Known(after.inst, after.disk) \subseteq Known(st.inst, st.disk)
    /\ after.inst = st.inst /\ after.err = st.err

(* The part at hand goes to its file, or nothing of it but its moof.       *)
LEMMA PartMoves ==
    ASSUME NEW us, NEW st, GoodSegment(setup.fmt, st), Tidy(us, st.inst, st.disk), st.inst.seg.fi # "closed",
           NEW part, part = st.inst.seg.part, NEW io
    PROVE  NearlyKeeps(us, st, WithPart(st, part, io))
<1>. DEFINE i == st.inst
            Own(f) == [stream |-> f.stream, num |-> f.num] = FileOf(i)
            B(f) == [f EXCEPT !.parts = IF io = "moof" THEN @ ELSE Append(@, part),
                              !.torn = IF io \in Torn THEN io ELSE @]
            A(f) == IF Own(f) THEN B(f) ELSE f
            D == {A(f) : f \in st.disk}
            after == WithPart(st, part, io)
            Changed(g, f) ==
                /\ g.stream = f.stream /\ g.num = f.num /\ g.dts = f.dts
                /\ g.parts = f.parts \/ (Own(f) /\ g.parts = Append(f.parts, part))
<1>0. IsState(st) /\ IsInstance(i) /\ IsSegmentRecord(i.seg) /\ i.seg # NoSegment
  BY DEF GoodSegment, Good, IsState, IsInstance, InstanceShape
<1>1. after = [st EXCEPT !.disk = D]
  BY DEF WithPart, OnFile
<1>2. ASSUME NEW f \in st.disk PROVE Changed(A(f), f)
  <2>1. IsFile(f)
    BY <1>0 DEF IsState
  <2>2. Changed(B(f), f) \/ ~Own(f)
    BY <2>1 DEF IsFile
  <2>3. Changed(f, f)
    OBVIOUS
  <2>. HIDE DEF Changed, Own, B
  <2>. QED
    BY <2>2, <2>3
<1>. HIDE DEF A, B, after, Changed
<1>3. \A g \in D : \E f \in st.disk : Changed(g, f)
  BY <1>2
<1>. HIDE DEF D
<1>4. after.inst = i /\ after.disk = D /\ after.err = st.err
  BY <1>0, <1>1, DiskReplaced
<1>5. /\ i.id \in Nat /\ i.number \in Nat /\ i.seg.num = i.number - 1 /\ IsPart(us, part, i.seg.dts)
      /\ \A f \in st.disk : Own(f) => f.dts = i.seg.dts /\ f.stream = i.id /\ f.num = i.seg.num
      /\ \A f \in st.disk : AreParts(us, f.parts, f.dts) /\ Ascending(PiecesIn(f.parts), Range(part))
  <2>1. \A f : Own(f) => f.stream = i.id /\ f.num = i.seg.num
    BY DEF FileOf
  <2>. QED
    BY <1>0, <2>1 DEF Tidy, NearlyTidy, Numbers, PartAtHand, Pending, FilesAscend, IsInstance, InstanceShape
<1>6. ASSUME NEW g \in D, NEW f \in st.disk, Changed(g, f)
      PROVE  /\ AreParts(us, g.parts, g.dts)
             /\ PiecesIn(g.parts) = PiecesIn(f.parts) \/ (Own(f) /\ PiecesIn(g.parts) = PiecesIn(f.parts) \cup Range(part))
  <2>. HIDE DEF Own
  <2>1. CASE g.parts = f.parts
    BY <1>5, <1>6, <2>1 DEF Changed
  <2>2. CASE Own(f) /\ g.parts = Append(f.parts, part)
    <3>1. /\ AreParts(us, Append(f.parts, part), f.dts)
          /\ PiecesIn(Append(f.parts, part)) = PiecesIn(f.parts) \cup Range(part)
      <4>1. IsPart(us, part, f.dts) /\ AreParts(us, f.parts, f.dts) /\ Ascending(PiecesIn(f.parts), Range(part))
        BY <1>5, <2>2
      <4>. QED
        BY <4>1, PartAppended
    <3>. QED
      BY <1>6, <2>2, <3>1 DEF Changed
  <2>. QED
    BY <1>6, <2>1, <2>2 DEF Changed
<1>7. ASSUME NEW g \in D, NEW h \in D, Earlier(g, h) PROVE Ascending(PiecesIn(g.parts), PiecesIn(h.parts))
  <2>1. PICK f \in st.disk : Changed(g, f)
    BY <1>3
  <2>2. PICK e \in st.disk : Changed(h, e)
    BY <1>3
  <2>3. Earlier(f, e)
    BY <1>7, <2>1, <2>2 DEF Earlier, Changed
  <2>4. Ascending(PiecesIn(f.parts), PiecesIn(e.parts)) /\ Ascending(PiecesIn(f.parts), Range(part))
    BY <1>5, <2>3 DEF Tidy, NearlyTidy, FilesAscend
  <2>5. ~Own(f)
    <3>1. SUFFICES ASSUME Own(f) PROVE FALSE
      OBVIOUS
    <3>2. f.stream = i.id /\ f.num = i.seg.num
      BY <1>5, <3>1
    <3>3. e.stream \in Nat /\ e.num \in Nat /\ (e.stream < i.id \/ (e.stream = i.id /\ e.num < i.number))
      BY DEF Tidy, NearlyTidy, Numbers
    <3>. QED
      BY <1>5, <2>3, <3>2, <3>3 DEF Earlier
  <2>6. PiecesIn(g.parts) = PiecesIn(f.parts)
    BY <1>6, <2>1, <2>5
  <2>7. PiecesIn(h.parts) = PiecesIn(e.parts) \/ PiecesIn(h.parts) = PiecesIn(e.parts) \cup Range(part)
    BY <1>6, <2>2
  <2>. QED
    BY <2>4, <2>6, <2>7 DEF Ascending
<1>8. FilesAscend(us, D)
  BY <1>3, <1>6, <1>7 DEF FilesAscend
<1>9. Numbers(i, D)
  BY <1>0, <1>3 DEF Tidy, NearlyTidy, Numbers, Changed
<1>10. PartAtHand(us, i, D)
  BY <1>0, <1>3 DEF Tidy, NearlyTidy, PartAtHand, Changed
<1>11. Known(i, D) \subseteq Known(i, st.disk)
  <2>1. ASSUME NEW x \in Known(i, D) PROVE x \in Known(i, st.disk)
    <3>1. (\E g \in D : x \in PiecesIn(g.parts)) \/ x \in Range(part)
      BY <2>1, KnownIn
    <3>2. ASSUME NEW g \in D, x \in PiecesIn(g.parts)
          PROVE  (\E f \in st.disk : x \in PiecesIn(f.parts)) \/ x \in Range(part)
      <4>1. PICK f \in st.disk : Changed(g, f)
        BY <1>3
      <4>2. PiecesIn(g.parts) = PiecesIn(f.parts) \/ PiecesIn(g.parts) = PiecesIn(f.parts) \cup Range(part)
        BY <1>6, <4>1
      <4>. QED
        BY <3>2, <4>2
    <3>. QED
      BY <1>0, <3>1, <3>2, KnownIn
  <2>. QED
    BY <2>1
<1>12. NearlyKeeps(us, st, after)
  BY <1>4, <1>8, <1>9, <1>10, <1>11 DEF NearlyKeeps, NearlyTidy
<1>. QED
  BY <1>12 DEF after

(* closeCurPart: the part is in the file, or it is not written; after an   *)
(* error the buffer of MPEG-TS is empty.                                   *)
LEMMA CloseCurPartKeeps ==
    ASSUME NEW us, NEW st, NEW io, GoodSegment(setup.fmt, st), Tidy(us, st.inst, st.disk)
    PROVE  LET after == CloseCurPart(st, io)
           IN  /\ NearlyTidy(us, after.inst, after.disk)
               /\ Known(after.inst, after.disk) \subseteq Known(st.inst, st.disk)
               /\ after.inst.next = st.inst.next
               /\ Tidy(us, after.inst, after.disk) \/ after.inst.seg.fi = "open"
               /\ setup.fmt = "mpegts" /\ after.err => Tidy(us, after.inst, after.disk)
<1>. DEFINE mid == IF st.inst.seg.fi = "none" THEN Created(st, io) ELSE st
            w == PartToFile(mid, io)
            Holds(y) ==
                /\ NearlyTidy(us, y.inst, y.disk)
                /\ Known(y.inst, y.disk) \subseteq Known(st.inst, st.disk)
                /\ y.inst.next = st.inst.next
                /\ Tidy(us, y.inst, y.disk) \/ y.inst.seg.fi = "open"
<1>0. IsState(st) /\ st.inst.seg # NoSegment
  BY DEF GoodSegment, Good
<1>1. GoodSegment(setup.fmt, mid) /\ Keeps(us, st, mid)
  BY <1>0, CreatedIsGood, CreatedKeeps, FailedKeeps
<1>2. st.inst.seg.fi = "none" => mid.err \/ mid.inst.seg.fi = "open"
  BY CreatedKeeps
<1>3. st.inst.seg.fi # "none" => mid = st
  OBVIOUS
<1>. HIDE DEF mid
<1>4. IsState(mid) /\ Tidy(us, mid.inst, mid.disk)
  BY <1>1 DEF GoodSegment, Good, Keeps
<1>7. GoodSegment(setup.fmt, w) /\ Holds(w)
  <2>1. CASE w = Failed(mid)
    <3>1. Keeps(us, st, w) /\ Like(mid, w)
      BY <1>1, <1>4, <2>1, FailedKeeps, KeepsAndAdds, FailedIsLike
    <3>. HIDE DEF w
    <3>2. GoodSegment(setup.fmt, w)
      BY <1>1, <3>1, LikeIsGood DEF GoodSegment
    <3>. QED
      BY <3>1, <3>2 DEF Keeps, Tidy
  <2>2. CASE w # Failed(mid)
    <3>. DEFINE p == mid.inst.seg.part
                x == [mid EXCEPT !.err = io \in Torn]
    <3>1. w = WithPart(x, p, io) /\ mid.inst.seg.fi # "closed" /\ ~mid.err
      BY <2>2 DEF PartToFile, WithPart
    <3>2. Like(mid, x) /\ Keeps(us, mid, x) /\ x.inst = mid.inst
      BY <1>4, FailedIsLike, FailedKeeps DEF IsState
    <3>a. p = x.inst.seg.part
      BY <3>2
    <3>. HIDE DEF p, x, w
    <3>3. GoodSegment(setup.fmt, x) /\ IsState(x) /\ Tidy(us, x.inst, x.disk) /\ x.inst.seg.fi # "closed"
      <4>1. GoodSegment(setup.fmt, x)
        BY <1>1, <3>2, LikeIsGood DEF GoodSegment
      <4>. QED
        BY <3>1, <3>2, <4>1 DEF GoodSegment, Good, Keeps
    <3>4. NearlyKeeps(us, x, w) /\ Like(x, w)
      BY <3>1, <3>a, <3>3, PartMoves, PartIsLike
    <3>5. GoodSegment(setup.fmt, w)
      BY <3>3, <3>4, LikeIsGood DEF GoodSegment
    <3>6. mid.inst.seg.fi = "open"
      <4>1. mid = st => st.inst.seg.fi \in {"none", "open", "closed"}
        BY <1>0 DEF Tidy, NearlyTidy, PartAtHand
      <4>. QED
        BY <1>2, <1>3, <3>1, <4>1
    <3>7. Known(w.inst, w.disk) \subseteq Known(st.inst, st.disk) /\ w.inst.next = st.inst.next /\ w.inst.seg.fi = "open"
      BY <1>1, <3>2, <3>4, <3>6 DEF Keeps, NearlyKeeps
    <3>. QED
      BY <3>4, <3>5, <3>7 DEF NearlyKeeps
  <2>. QED
    BY <2>1, <2>2
<1>8. \/ BufferLost(w) = w /\ ~(setup.fmt = "mpegts" /\ w.err)
      \/ BufferLost(w) = [w EXCEPT !.inst.seg.cur = FALSE, !.inst.seg.part = <<>>]
  BY DEF BufferLost
<1>. HIDE DEF w
<1>9. Keeps(us, w, [w EXCEPT !.inst.seg.cur = FALSE, !.inst.seg.part = <<>>])
  BY <1>7, FieldsKeep
<1>10. Holds(BufferLost(w)) /\ (setup.fmt = "mpegts" /\ BufferLost(w).err => Tidy(us, BufferLost(w).inst, BufferLost(w).disk))
  <2>1. CASE BufferLost(w) = w /\ ~(setup.fmt = "mpegts" /\ w.err)
    BY <1>7, <2>1
  <2>2. CASE BufferLost(w) = [w EXCEPT !.inst.seg.cur = FALSE, !.inst.seg.part = <<>>]
    <3>1. Keeps(us, w, BufferLost(w))
      BY <1>9, <2>2
    <3>. QED
      BY <1>7, <3>1 DEF Keeps, Tidy
  <2>. QED
    BY <1>8, <2>1, <2>2
<1>. QED
  BY <1>10 DEF CloseCurPart, mid, w

(* Nothing of a file that is told apart here is changed.                   *)
SameContent(g, f) == g.stream = f.stream /\ g.num = f.num /\ g.dts = f.dts /\ g.parts = f.parts

(* Files like those there were, or fewer of them.                          *)
LEMMA FilesAlike ==
    ASSUME NEW us, NEW i, NEW d, NEW D, Tidy(us, i, d), \A g \in D : \E f \in d : SameContent(g, f)
    PROVE  Tidy(us, i, D) /\ Known(i, D) \subseteq Known(i, d)
<1>1. FilesAscend(us, D)
  <2>1. ASSUME NEW g \in D PROVE AreParts(us, g.parts, g.dts)
    BY DEF Tidy, NearlyTidy, FilesAscend, SameContent
  <2>2. ASSUME NEW g \in D, NEW h \in D, Earlier(g, h) PROVE Ascending(PiecesIn(g.parts), PiecesIn(h.parts))
    <3>1. PICK f \in d : SameContent(g, f)
      OBVIOUS
    <3>2. PICK e \in d : SameContent(h, e)
      OBVIOUS
    <3>3. Earlier(f, e) /\ g.parts = f.parts /\ h.parts = e.parts
      BY <2>2, <3>1, <3>2 DEF Earlier, SameContent
    <3>4. Ascending(PiecesIn(f.parts), PiecesIn(e.parts))
      BY <3>3 DEF Tidy, NearlyTidy, FilesAscend
    <3>. QED
      BY <3>3, <3>4
  <2>. QED
    BY <2>1, <2>2 DEF FilesAscend
<1>2. Numbers(i, D)
  BY DEF Tidy, NearlyTidy, Numbers, SameContent
<1>3. PartAtHand(us, i, D)
  BY DEF Tidy, NearlyTidy, PartAtHand, SameContent
<1>4. Pending(i, D)
  <2>1. ASSUME i.seg # NoSegment, i.seg.fi # "closed", NEW g \in D
        PROVE  Ascending(PiecesIn(g.parts), Range(i.seg.part))
    <3>1. PICK f \in d : g.parts = f.parts
      BY DEF SameContent
    <3>. QED
      BY <2>1, <3>1 DEF Tidy, Pending
  <2>. QED
    BY <2>1 DEF Pending
<1>5. Known(i, D) \subseteq Known(i, d)
  <2>1. ASSUME NEW x, NEW g \in D, x \in PiecesIn(g.parts) PROVE \E f \in d : x \in PiecesIn(f.parts)
    <3>1. PICK f \in d : g.parts = f.parts
      BY DEF SameContent
    <3>. QED
      BY <2>1, <3>1
  <2>. QED
    BY <2>1, KnownIn
<1>. QED
  BY <1>1, <1>2, <1>3, <1>4, <1>5 DEF Tidy, NearlyTidy

(* The duration is written into the file: that changes nothing of it.      *)
LEMMA DurationKeeps ==
    ASSUME NEW us, NEW st, IsState(st), Tidy(us, st.inst, st.disk), NEW d, NEW io
    PROVE  Keeps(us, st, WithDuration(st, d, io))
<1>. DEFINE Own(f) == [stream |-> f.stream, num |-> f.num] = FileOf(st.inst)
            B(f) == [f EXCEPT !.duration = IF io = "duration" THEN @ ELSE d]
            A(f) == IF Own(f) THEN B(f) ELSE f
            D == {A(f) : f \in st.disk}
            after == WithDuration(st, d, io)
<1>1. after = [st EXCEPT !.disk = D]
  BY DEF WithDuration, OnFile
<1>2. ASSUME NEW f \in st.disk PROVE SameContent(A(f), f)
  <2>1. IsFile(f)
    BY DEF IsState
  <2>2. SameContent(B(f), f)
    BY <2>1 DEF IsFile, SameContent
  <2>3. SameContent(f, f)
    BY DEF SameContent
  <2>. HIDE DEF Own, B
  <2>. QED
    BY <2>2, <2>3
<1>. HIDE DEF A, B, after
<1>3. \A g \in D : \E f \in st.disk : SameContent(g, f)
  BY <1>2
<1>. HIDE DEF D
<1>4. after.inst = st.inst /\ after.disk = D
  BY <1>1, DiskReplaced
<1>5. Tidy(us, st.inst, D) /\ Known(st.inst, D) \subseteq Known(st.inst, st.disk)
  BY <1>3, FilesAlike
<1>6. Keeps(us, st, after)
  BY <1>4, <1>5 DEF Keeps
<1>. QED
  BY <1>6 DEF after

(* The file is closed: what is in the part is in the file, or stays out of *)
(* the order until there is another segment.                               *)
LEMMA FileClosedKeeps ==
    ASSUME NEW us, NEW st, GoodSegment(setup.fmt, st), NearlyTidy(us, st.inst, st.disk),
           Tidy(us, st.inst, st.disk) \/ st.inst.seg.fi = "open", NEW io
    PROVE  Keeps(us, st, FileClosed(st, io))
<1>. DEFINE i == st.inst
            failed == io = "close" \/ (io = "duration" /\ setup.fmt = "fmp4")
            err == st.err \/ failed
            kind == IF io = "close" THEN "unclosed" ELSE "complete"
            s == [i.seg EXCEPT !.fi = "closed"]
            base == [st EXCEPT !.inst.seg.fi = "closed", !.err = @ \/ failed]
            mid == Tell(base, kind)
            after == FileClosed(st, io)
<1>0. IsState(st) /\ IsInstance(i) /\ IsSegmentRecord(i.seg) /\ i.seg # NoSegment
  BY DEF GoodSegment, Good, IsState, IsInstance, InstanceShape
<1>1. CASE i.seg.fi # "open"
  <2>1. PICK x : FileClosed(st, io) = [st EXCEPT !.err = x]
    BY <1>1 DEF FileClosed
  <2>2. Tidy(us, st.inst, st.disk)
    BY <1>1
  <2>3. Keeps(us, st, [st EXCEPT !.err = x])
    BY <1>0, <2>2, FailedKeeps
  <2>. QED
    BY <2>1, <2>3
<1>2. CASE i.seg.fi = "open"
  <2>1. s.num = i.seg.num /\ s.dts = i.seg.dts /\ s.part = i.seg.part /\ s.fi = "closed" /\ i.seg.num \in Nat
        /\ IsSegmentRecord(s)
    BY <1>0 DEF IsSegmentRecord
  <2>2. s # NoSegment
    BY <2>1 DEF NoSegment
  <2>3. after = WithDuration(mid, DurationWritten(i.seg), io)
    BY <1>2 DEF FileClosed, WithDuration
  <2>. HIDE DEF after
  <2>4. /\ base.inst.seg = s /\ base.inst.id = i.id /\ base.inst.number = i.number
        /\ base.inst.next = i.next /\ base.disk = st.disk /\ base.events = st.events
        /\ base.inst = [i EXCEPT !.seg = s]
        /\ base = [inst |-> base.inst, disk |-> base.disk, events |-> base.events, err |-> base.err]
    <3>1. st = [inst |-> st.inst, disk |-> st.disk, events |-> st.events, err |-> st.err]
      BY <1>0 DEF IsState
    <3>2. base = [inst |-> [i EXCEPT !.seg = s], disk |-> st.disk, events |-> st.events, err |-> err]
      <4>. HIDE DEF failed
      <4>1. base = [[st EXCEPT !.inst = [i EXCEPT !.seg = s]] EXCEPT !.err = st.err \/ failed]
        OBVIOUS
      <4>. HIDE DEF base, s
      <4>. QED
        BY <3>1, <4>1
    <3>. HIDE DEF base, s, err
    <3>3. base.inst = [i EXCEPT !.seg = s] /\ base.disk = st.disk /\ base.events = st.events
          /\ base = [inst |-> base.inst, disk |-> base.disk, events |-> base.events, err |-> base.err]
      BY <3>2
    <3>4. base.inst.seg = s /\ base.inst.id = i.id /\ base.inst.number = i.number /\ base.inst.next = i.next
      BY <1>0, <3>3 DEF IsInstance, InstanceShape
    <3>. QED
      BY <3>3, <3>4
  <2>. HIDE DEF base, s, err, failed, kind
  <2>b. kind \in {"complete", "unclosed"}
    BY DEF kind
  <2>5. /\ mid.inst = base.inst /\ mid.disk = st.disk
        /\ mid.events = Append(st.events, [kind |-> kind, file |-> FileOf(base.inst)])
        /\ mid = [inst |-> mid.inst, disk |-> mid.disk, events |-> mid.events, err |-> mid.err]
    <3>1. mid = [base EXCEPT !.events = Append(base.events, [kind |-> kind, file |-> FileOf(base.inst)])]
      BY DEF Tell
    <3>. HIDE DEF mid
    <3>. QED
      BY <2>4, <3>1
  <2>. HIDE DEF mid
  <2>6. IsState(mid)
    <3>1. IsInstance(mid.inst)
      BY <1>0, <2>1, <2>2, <2>4, <2>5 DEF IsInstance, InstanceShape
    <3>2. [kind |-> kind, file |-> FileOf(base.inst)] \in Event
      BY <1>0, <2>1, <2>4, <2>b DEF Event, FileOf, IsInstance, InstanceShape
    <3>3. mid.events \in Seq(Event)
      BY <1>0, <2>5, <3>2, OneMoreEvent DEF IsState
    <3>. QED
      BY <1>0, <2>5, <3>1, <3>3 DEF IsState
  <2>7. Tidy(us, mid.inst, mid.disk)
    <3>1. Numbers(mid.inst, st.disk) /\ PartAtHand(us, mid.inst, st.disk)
      BY <1>0, <2>1, <2>2, <2>4, <2>5 DEF NearlyTidy, Numbers, PartAtHand, FileOf
    <3>2. Pending(mid.inst, st.disk)
      BY <2>1, <2>4, <2>5 DEF Pending
    <3>. QED
      BY <2>5, <3>1, <3>2 DEF Tidy, NearlyTidy
  <2>8. Known(mid.inst, mid.disk) = Known(i, st.disk)
    BY <1>0, <2>1, <2>2, <2>4, <2>5 DEF Known, InPart
  <2>9. Keeps(us, st, mid)
    BY <2>4, <2>5, <2>7, <2>8 DEF Keeps
  <2>10. Keeps(us, mid, after)
    BY <2>3, <2>6, <2>7, DurationKeeps
  <2>. QED
    BY <2>9, <2>10, KeepsAndAdds DEF after
<1>. QED
  BY <1>1, <1>2

(* close of a segment.                                                     *)
LEMMA CloseSegmentKeeps ==
    ASSUME NEW us, NEW st, NEW io, GoodSegment(setup.fmt, st), Tidy(us, st.inst, st.disk)
    PROVE  Keeps(us, st, CloseSegment(st, io))
<1>. DEFINE mid == IF st.inst.seg.cur THEN CloseCurPart(st, io) ELSE st
<1>0. IsState(st)
  BY DEF GoodSegment, Good
<1>1. /\ GoodSegment(setup.fmt, mid) /\ NearlyTidy(us, mid.inst, mid.disk)
      /\ Known(mid.inst, mid.disk) \subseteq Known(st.inst, st.disk) /\ mid.inst.next = st.inst.next
      /\ Tidy(us, mid.inst, mid.disk) \/ mid.inst.seg.fi = "open"
  <2>1. CASE ~st.inst.seg.cur
    BY <2>1 DEF Tidy
  <2>2. CASE st.inst.seg.cur
    BY <2>2, CloseCurPartKeeps, CloseCurPartIsGood
  <2>. QED
    BY <2>1, <2>2
<1>. HIDE DEF mid
<1>2. Keeps(us, mid, FileClosed(mid, io))
  BY <1>1, FileClosedKeeps
<1>3. Keeps(us, st, FileClosed(mid, io))
  BY <1>1, <1>2 DEF Keeps
<1>. QED
  BY <1>3 DEF CloseSegment, mid

(* The next segment has nothing yet.                                       *)
LEMMA SegmentFromKeeps ==
    ASSUME NEW us, NEW st, NEW x, Good(setup.fmt, st), Tidy(us, st.inst, st.disk)
    PROVE  Keeps(us, st, SegmentFrom(st, x))
<1>. DEFINE i == st.inst
            s == NewSegment(i.number, x.dts, x.ntp)
            j == [i EXCEPT !.seg = s, !.number = @ + 1]
            after == SegmentFrom(st, x)
<1>0. IsState(st) /\ IsInstance(i) /\ InstanceShape(i) /\ i.number \in Nat /\ i.id \in Nat
  BY DEF Good, IsState, IsInstance, InstanceShape
<1>1. after = [st EXCEPT !.inst = j]
  BY <1>0 DEF SegmentFrom, IsState
<1>2. j.seg = s /\ j.id = i.id /\ j.number = i.number + 1 /\ j.next = i.next
  BY <1>0 DEF InstanceShape
<1>3. s.num = i.number /\ s.dts = x.dts /\ s.fi = "none" /\ s.part = <<>>
  BY DEF NewSegment
<1>4. s # NoSegment
  BY <1>0, <1>3 DEF NoSegment
<1>. HIDE DEF s, j, after
<1>5. after.inst = j /\ after.disk = st.disk
  BY <1>0, <1>1, InstanceReplaced
<1>6. Range(s.part) = {} /\ IsPart(us, s.part, s.dts)
  BY <1>3 DEF Range, IsPart
<1>7. Numbers(j, st.disk)
  BY <1>0, <1>2, <1>3 DEF Tidy, NearlyTidy, Numbers
<1>8. PartAtHand(us, j, st.disk)
  <2>1. \A f \in st.disk : [stream |-> f.stream, num |-> f.num] # FileOf(j)
    <3>1. ASSUME NEW f \in st.disk, f.stream = i.id, f.num = i.number PROVE FALSE
      BY <1>0, <3>1 DEF Tidy, NearlyTidy, Numbers
    <3>. QED
      BY <1>2, <1>3, <3>1 DEF FileOf
  <2>. QED
    BY <1>2, <1>3, <1>6, <2>1 DEF PartAtHand
<1>9. Pending(j, st.disk)
  BY <1>2, <1>6 DEF Pending, Ascending
<1>10. Known(j, st.disk) \subseteq Known(i, st.disk)
  BY <1>2, <1>6 DEF Known, InPart
<1>11. Keeps(us, st, after)
  BY <1>2, <1>5, <1>7, <1>8, <1>9, <1>10 DEF Keeps, Tidy, NearlyTidy
<1>. QED
  BY <1>11 DEF after

(* A part that is long enough goes to the file, and another one begins.    *)
LEMMA PartForKeeps ==
    ASSUME NEW us, NEW st, NEW x, NEW io, GoodSegment(setup.fmt, st), Tidy(us, st.inst, st.disk)
    PROVE  Keeps(us, st, PartFor(st, x, io))
<1>. DEFINE fresh(y) == [y EXCEPT !.inst.seg.cur = ~y.err, !.inst.seg.part = <<>>,
                                  !.inst.seg.partStart = x.dts, !.inst.seg.partEnd = 0]
<1>1. ASSUME NEW y, GoodSegment(setup.fmt, y), NearlyTidy(us, y.inst, y.disk) PROVE Keeps(us, y, fresh(y))
  <2>. DEFINE d == [y EXCEPT !.inst.seg.cur = ~y.err]
              a == [y EXCEPT !.inst.seg.cur = ~y.err, !.inst.seg.part = <<>>]
              b == [a EXCEPT !.inst.seg.partStart = x.dts]
              c == [b EXCEPT !.inst.seg.partEnd = 0]
  <2>1. fresh(y) = c
    OBVIOUS
  <2>2. a = [d EXCEPT !.inst.seg.part = <<>>] /\ Keeps(us, y, a)
    BY <1>1, FieldsKeep
  <2>3. GoodSegment(setup.fmt, d)
    BY <1>1, FieldsAreLike
  <2>. HIDE DEF a, d
  <2>4. GoodSegment(setup.fmt, a)
    BY <2>2, <2>3, FieldsAreLike
  <2>5. NearlyTidy(us, a.inst, a.disk) /\ Tidy(us, a.inst, a.disk)
    BY <2>2 DEF Keeps, Tidy
  <2>6. Keeps(us, a, b) /\ GoodSegment(setup.fmt, b)
    BY <2>4, <2>5, FieldsKeep, FieldsAreLike
  <2>. HIDE DEF b
  <2>7. NearlyTidy(us, b.inst, b.disk) /\ Tidy(us, b.inst, b.disk)
    BY <2>6 DEF Keeps, Tidy
  <2>8. Keeps(us, b, c)
    BY <2>6, <2>7, FieldsKeep
  <2>. HIDE DEF c, fresh
  <2>9. Keeps(us, y, c)
    BY <2>2, <2>6, <2>8, KeepsAndAdds
  <2>. QED
    BY <2>1, <2>9
<1>. DEFINE y == CloseCurPart(st, io)
<1>2. /\ GoodSegment(setup.fmt, y) /\ NearlyTidy(us, y.inst, y.disk)
      /\ Known(y.inst, y.disk) \subseteq Known(st.inst, st.disk) /\ y.inst.next = st.inst.next
  BY CloseCurPartIsGood, CloseCurPartKeeps
<1>3. PartFor(st, x, io) \in {fresh(st), fresh(y), st}
  BY DEF PartFor
<1>4. NearlyTidy(us, st.inst, st.disk) /\ IsState(st)
  BY DEF Tidy, GoodSegment, Good
<1>. HIDE DEF fresh, y
<1>5. Keeps(us, st, fresh(st)) /\ Keeps(us, st, st)
  BY <1>1, <1>4, FailedKeeps
<1>6. Keeps(us, st, fresh(y))
  <2>1. Keeps(us, y, fresh(y))
    BY <1>1, <1>2
  <2>. QED
    BY <1>2, <2>1 DEF Keeps
<1>. QED
  BY <1>3, <1>5, <1>6

(* A sample is appended to the part at hand.                               *)
LEMMA PieceKept ==
    ASSUME NEW us, NEW st, GoodSegment(setup.fmt, st), Tidy(us, st.inst, st.disk),
           NEW s, Fits(us, st, s), NEW dur \in Int, st.inst.seg.dts \in Int,
           NEW part, part = Append(st.inst.seg.part, StoredSample(s, dur, st.inst.seg.dts))
    PROVE  Adds(us, st, [st EXCEPT !.inst.seg.part = part], s)
<1>. DEFINE i == st.inst
            x == StoredSample(s, dur, i.seg.dts)
            r == [i.seg EXCEPT !.part = part]
            after == [st EXCEPT !.inst.seg = r]
<1>0. IsState(st) /\ IsSegmentRecord(i.seg) /\ i.seg # NoSegment
  BY DEF GoodSegment, Good, IsState, IsInstance, InstanceShape
<1>1. x = [n |-> s.n, t |-> s.t, base |-> s.dts - i.seg.dts, dur |-> dur, key |-> s.key]
  BY DEF StoredSample
<1>2. x \in Piece /\ x.n = s.n /\ x.t = s.t /\ Placed(us, x, i.seg.dts)
  <2>1. s.n \in Nat /\ s.t \in Nat /\ s.dts \in Nat /\ s.key \in BOOLEAN /\ s.n \in DOMAIN us /\ us[s.n] = s
    BY DEF Fits, Sample
  <2>2. s.dts - i.seg.dts \in Int /\ s.dts = i.seg.dts + (s.dts - i.seg.dts)
    BY <2>1
  <2>. HIDE DEF x
  <2>3. x.n = s.n /\ x.t = s.t /\ x.base = s.dts - i.seg.dts /\ x.dur = dur /\ x.key = s.key
    BY <1>1
  <2>4. x \in Piece
    BY <1>1, <2>1, <2>2 DEF Piece
  <2>. QED
    BY <2>1, <2>2, <2>3, <2>4 DEF Placed
<1>. HIDE DEF x
<1>3. r.num = i.seg.num /\ r.dts = i.seg.dts /\ r.fi = i.seg.fi /\ r.part = part /\ r.num \in Nat
  BY <1>0 DEF IsSegmentRecord
<1>4. r # NoSegment
  BY <1>3 DEF NoSegment
<1>5. [st EXCEPT !.inst.seg.part = part] = after
  OBVIOUS
<1>. HIDE DEF r
<1>6. /\ after.inst.seg = r /\ after.inst.id = i.id /\ after.inst.number = i.number
      /\ after.inst.next = i.next /\ after.disk = st.disk
  BY <1>0, SegmentSet
<1>. HIDE DEF after
<1>7. IsPart(us, i.seg.part, i.seg.dts)
  BY <1>0 DEF Tidy, NearlyTidy, PartAtHand
<1>8. \A y \in Known(i, st.disk) : y.t = x.t => y.n < x.n
  BY <1>2 DEF Fits
<1>9. Range(i.seg.part) \subseteq Known(i, st.disk)
  BY <1>0 DEF Known, InPart
<1>10. Ascending(Range(i.seg.part), {x})
  BY <1>8, <1>9 DEF Ascending
<1>11. IsPart(us, part, i.seg.dts) /\ Range(part) = Range(i.seg.part) \cup {x}
  <2>1. part = Append(i.seg.part, x)
    BY DEF x
  <2>. QED
    BY <1>2, <1>7, <1>10, <2>1, PieceAppended
<1>12. Numbers(after.inst, st.disk) /\ PartAtHand(us, after.inst, st.disk)
  BY <1>0, <1>3, <1>6, <1>11 DEF Tidy, NearlyTidy, Numbers, PartAtHand, FileOf
<1>13. Pending(after.inst, st.disk)
  <2>1. ASSUME i.seg.fi # "closed", NEW f \in st.disk PROVE Ascending(PiecesIn(f.parts), Range(part))
    <3>1. Ascending(PiecesIn(f.parts), Range(i.seg.part))
      BY <1>0, <2>1 DEF Tidy, Pending
    <3>2. PiecesIn(f.parts) \subseteq Known(i, st.disk)
      BY KnownIn
    <3>. QED
      BY <1>8, <1>11, <3>1, <3>2 DEF Ascending
  <2>. QED
    BY <1>3, <1>6, <2>1 DEF Pending
<1>14. ASSUME NEW y \in Known(after.inst, st.disk) PROVE y \in Known(i, st.disk) \/ y = x
  <2>1. (\E f \in st.disk : y \in PiecesIn(f.parts)) \/ y \in Range(part)
    BY <1>3, <1>6, <1>14, KnownIn
  <2>. QED
    BY <1>0, <1>11, <2>1, KnownIn
<1>15. Adds(us, st, after, s)
  BY <1>2, <1>6, <1>12, <1>13, <1>14 DEF Adds, Tidy, NearlyTidy
<1>. QED
  BY <1>5, <1>15

(* So a sample is added to the part, which grows.                          *)
LEMMA SampleToPartAdds ==
    ASSUME NEW us, NEW st, NEW s, NEW dur \in Int, NEW io, GoodSegment(setup.fmt, st),
           Tidy(us, st.inst, st.disk), Fits(us, st, s), st.inst.seg.dts \in Int
    PROVE  Adds(us, st, SampleToPart(st, s, dur, io), s)
<1>1. CASE st.err \/ io = "size"
  <2>1. SampleToPart(st, s, dur, io) = Failed(st)
    BY <1>1 DEF SampleToPart
  <2>. QED
    BY <2>1, FailedKeeps, KeepsAndAdds DEF GoodSegment, Good
<1>2. CASE ~(st.err \/ io = "size")
  <2>. DEFINE p == Append(st.inst.seg.part, StoredSample(s, dur, st.inst.seg.dts))
              a == [st EXCEPT !.inst.seg.part = p]
  <2>0. \/ SampleToPart(st, s, dur, io) = [st EXCEPT !.inst.seg.part = p, !.inst.seg.partEnd = Later(st.inst.seg.partEnd, s.dts + dur)]
        \/ SampleToPart(st, s, dur, io) = [st EXCEPT !.inst.seg.part = p, !.inst.seg.partEnd = Later(a.inst.seg.partEnd, s.dts + dur)]
    BY <1>2 DEF SampleToPart
  <2>1. PICK e : SampleToPart(st, s, dur, io) = [st EXCEPT !.inst.seg.part = p, !.inst.seg.partEnd = e]
    BY <2>0
  <2>a. p = Append(st.inst.seg.part, StoredSample(s, dur, st.inst.seg.dts))
    OBVIOUS
  <2>. HIDE DEF p
  <2>2. SampleToPart(st, s, dur, io) = [a EXCEPT !.inst.seg.partEnd = e]
    BY <2>1
  <2>3. GoodSegment(setup.fmt, a) /\ Adds(us, st, a, s)
    BY <2>a, FieldsAreLike, PieceKept
  <2>. HIDE DEF a
  <2>4. Tidy(us, a.inst, a.disk) /\ NearlyTidy(us, a.inst, a.disk)
    BY <2>3 DEF Adds, Tidy
  <2>5. Keeps(us, a, [a EXCEPT !.inst.seg.partEnd = e])
    BY <2>3, <2>4, FieldsKeep
  <2>. QED
    BY <2>2, <2>3, <2>5, KeepsAndAdds
<1>. QED
  BY <1>1, <1>2

(* write of formatFMP4Segment.                                             *)
LEMMA WriteSampleAdds ==
    ASSUME NEW us, NEW st, NEW s, NEW dur \in Int, NEW io, GoodSegment(setup.fmt, st),
           Tidy(us, st.inst, st.disk), Fits(us, st, s), st.inst.seg.dts \in Int
    PROVE  Adds(us, st, WriteSample(st, s, dur, io), s)
<1>. DEFINE e == Later(st.inst.seg.end, s.dts + dur)
            a == [st EXCEPT !.inst.seg.end = e]
            b == PartFor(a, s, io)
<1>1. WriteSample(st, s, dur, io) = SampleToPart(b, s, dur, io)
  BY DEF WriteSample
<1>. HIDE DEF e
<1>2. GoodSegment(setup.fmt, a) /\ Keeps(us, st, a) /\ Within(st, a)
  BY FieldsAreLike, FieldsKeep, FieldsWithin DEF Tidy
<1>. HIDE DEF a
<1>3. GoodSegment(setup.fmt, b) /\ Keeps(us, a, b) /\ Within(a, b)
  <2>1. Tidy(us, a.inst, a.disk)
    BY <1>2 DEF Keeps
  <2>. QED
    BY <1>2, <2>1, PartForIsGood, PartForKeeps, PartForWithin
<1>. HIDE DEF b
<1>4. Keeps(us, st, b) /\ b.inst.seg.dts \in Int
  BY <1>2, <1>3, KeepsAndAdds DEF Within
<1>5. Fits(us, b, s) /\ Tidy(us, b.inst, b.disk)
  BY <1>4, KeepsAndAdds DEF Keeps
<1>6. Adds(us, b, SampleToPart(b, s, dur, io), s)
  BY <1>3, <1>4, <1>5, SampleToPartAdds
<1>. QED
  BY <1>1, <1>4, <1>6, KeepsAndAdds

(* The rollover of fMP4.                                                   *)
LEMMA CutFMP4Keeps ==
    ASSUME NEW us, NEW st, NEW x, NEW io, GoodSegment(setup.fmt, st), Tidy(us, st.inst, st.disk)
    PROVE  Keeps(us, st, CutFMP4(st, x, io))
<1>. DEFINE closed == CloseSegment(st, io)
<1>1. GoodSegment(setup.fmt, closed) /\ Keeps(us, st, closed)
  BY CloseSegmentIsGood, CloseSegmentKeeps
<1>2. CutFMP4(st, x, io) = st \/ CutFMP4(st, x, io) = FollowedBy(closed)
  BY DEF CutFMP4
<1>. HIDE DEF closed
<1>3. Tidy(us, closed.inst, closed.disk) /\ Good(setup.fmt, closed) /\ IsState(closed)
  BY <1>1 DEF Keeps, GoodSegment, Good
<1>4. Keeps(us, closed, FollowedBy(closed))
  <2>. DEFINE first == NextSegmentStartingPos(closed.inst.next)
  <2>1. FollowedBy(closed) = closed \/ FollowedBy(closed) = SegmentFrom(closed, first)
    BY DEF FollowedBy
  <2>. HIDE DEF first
  <2>2. Keeps(us, closed, SegmentFrom(closed, first))
    BY <1>3, SegmentFromKeeps
  <2>3. Keeps(us, closed, closed)
    BY <1>3, FailedKeeps
  <2>. QED
    BY <2>1, <2>2, <2>3
<1>5. Keeps(us, st, st)
  BY FailedKeeps DEF GoodSegment, Good
<1>. QED
  BY <1>1, <1>2, <1>4, <1>5, KeepsAndAdds

(* The first sample of a track is remembered.                              *)
LEMMA StartedKeeps ==
    ASSUME NEW us, NEW st, NEW t, NEW x, Good(setup.fmt, st), Tidy(us, st.inst, st.disk)
    PROVE  Keeps(us, st, Started(st, t, x)) /\ Started(st, t, x).inst.seg = st.inst.seg
<1>. DEFINE i == st.inst
            v == [i.started EXCEPT ![t] = [dts |-> x.dts, ntp |-> x.ntp]]
            j == [i EXCEPT !.started = v]
            after == [st EXCEPT !.inst = j]
<1>0. IsState(st) /\ IsInstance(i)
  BY DEF Good, IsState
<1>1. [st EXCEPT !.inst.started[t] = [dts |-> x.dts, ntp |-> x.ntp]] = after
  OBVIOUS
<1>2. Keeps(us, st, st)
  BY <1>0, FailedKeeps
<1>3. Started(st, t, x) = st \/ Started(st, t, x) = after
  BY <1>1 DEF Started
<1>. HIDE DEF v
<1>4. j.id = i.id /\ j.number = i.number /\ j.seg = i.seg /\ j.next = i.next
  BY <1>0 DEF IsInstance, InstanceShape
<1>. HIDE DEF j
<1>5. after.inst = j /\ after.disk = st.disk
  BY <1>0, InstanceReplaced
<1>. HIDE DEF after
<1>6. Tidy(us, j, st.disk) /\ Known(j, st.disk) = Known(i, st.disk)
  BY <1>4, SameParts
<1>7. Keeps(us, st, after)
  BY <1>4, <1>5, <1>6 DEF Keeps
<1>. QED
  BY <1>2, <1>3, <1>4, <1>5, <1>7

(* A sample of fMP4 is written when its duration is known.                 *)
LEMMA WritePreviousAdds ==
    ASSUME NEW us, NEW st, NEW prev, NEW x, NEW io, Good(setup.fmt, st), Tidy(us, st.inst, st.disk),
           Fits(us, st, prev), x.dts \in Int, st.inst.seg # NoSegment => st.inst.seg.dts \in Int
    PROVE  Adds(us, st, WritePrevious(st, prev, x, io), prev)
<1>. DEFINE mid == IF st.inst.seg = NoSegment THEN SegmentFrom(st, prev) ELSE st
            dur == x.dts - prev.dts
            y == WriteSample(mid, prev, dur, io)
<1>0. IsState(st) /\ prev.dts \in Int /\ dur \in Int
  BY DEF Good, Fits, Sample
<1>1. GoodSegment(setup.fmt, mid)
  BY SegmentFromIsGood DEF GoodSegment, IsOpen
<1>2. Keeps(us, st, mid)
  BY <1>0, SegmentFromKeeps, FailedKeeps
<1>3. mid.inst.seg.dts \in Int
  <2>1. CASE st.inst.seg = NoSegment
    <3>1. StartsAt(st, mid, prev, {})
      BY <1>0, <2>1, SegmentFromStarts
    <3>. QED
      BY <1>0, <3>1 DEF StartsAt
  <2>2. CASE st.inst.seg # NoSegment
    BY <2>2
  <2>. QED
    BY <2>1, <2>2
<1>4. WritePrevious(st, prev, x, io) = st \/ WritePrevious(st, prev, x, io) = CutFMP4(y, x, io)
  BY DEF WritePrevious
<1>. HIDE DEF mid, dur, y
<1>5. Tidy(us, mid.inst, mid.disk) /\ Fits(us, mid, prev)
  BY <1>2, KeepsAndAdds DEF Keeps
<1>6. GoodSegment(setup.fmt, y) /\ Adds(us, mid, y, prev)
  BY <1>0, <1>1, <1>3, <1>5, WriteSampleIsGood, WriteSampleAdds DEF y
<1>7. Tidy(us, y.inst, y.disk)
  BY <1>6 DEF Adds
<1>8. Keeps(us, y, CutFMP4(y, x, io))
  BY <1>6, <1>7, CutFMP4Keeps
<1>9. Adds(us, st, CutFMP4(y, x, io), prev)
  <2>1. Adds(us, st, y, prev)
    BY <1>2, <1>6, KeepsAndAdds
  <2>. QED
    BY <1>8, <2>1, KeepsAndAdds
<1>10. Adds(us, st, st, prev)
  BY <1>0, FailedKeeps, KeepsAndAdds
<1>. QED
  BY <1>4, <1>9, <1>10

(* write of formatFMP4Track: at most the sample that waited is added.      *)
LEMMA WriteFMP4Adds ==
    ASSUME NEW us, NEW st, NEW prev, NEW x, NEW io, Good(setup.fmt, st), Tidy(us, st.inst, st.disk),
           prev # None => Fits(us, st, prev), x.dts \in Int,
           st.inst.seg # NoSegment => st.inst.seg.dts \in Int
    PROVE  IF prev = None THEN Keeps(us, st, WriteFMP4(st, prev, x, io))
           ELSE Adds(us, st, WriteFMP4(st, prev, x, io), prev)
<1>. DEFINE a == Started(st, x.t, prev)
            y == WritePrevious(a, prev, x, io)
<1>0. IsState(st)
  BY DEF Good
<1>1. Keeps(us, st, st) /\ Keeps(us, st, Failed(st))
  BY <1>0, FailedKeeps
<1>2. CASE prev = None
  BY <1>1, <1>2 DEF WriteFMP4
<1>3. CASE prev # None
  <2>1. WriteFMP4(st, prev, x, io) = Failed(st) \/ WriteFMP4(st, prev, x, io) = y
    BY <1>3 DEF WriteFMP4
  <2>2. Good(setup.fmt, a) /\ Keeps(us, st, a) /\ a.inst.seg = st.inst.seg
    BY StartedIsGood, StartedKeeps
  <2>. HIDE DEF a
  <2>3. Tidy(us, a.inst, a.disk) /\ Fits(us, a, prev)
    BY <1>3, <2>2, KeepsAndAdds DEF Keeps
  <2>4. Adds(us, a, y, prev)
    BY <2>2, <2>3, WritePreviousAdds
  <2>. HIDE DEF y
  <2>5. Adds(us, st, y, prev) /\ Adds(us, st, Failed(st), prev)
    BY <1>1, <2>2, <2>4, KeepsAndAdds
  <2>. QED
    BY <1>3, <2>1, <2>5
<1>. QED
  BY <1>2, <1>3

(* The buffer of MPEG-TS goes to the file.                                 *)
LEMMA FlushKeeps ==
    ASSUME NEW us, NEW st, NEW x, NEW io, GoodSegment(setup.fmt, st), Tidy(us, st.inst, st.disk),
           setup.fmt = "mpegts"
    PROVE  Keeps(us, st, Flush(st, x, io))
<1>. DEFINE y == CloseCurPart(st, io)
            d == [y EXCEPT !.inst.seg.cur = FALSE]
            a == [y EXCEPT !.inst.seg.cur = FALSE, !.inst.seg.part = <<>>]
            b == [a EXCEPT !.inst.seg.flushed = x.dts]
<1>1. /\ GoodSegment(setup.fmt, y) /\ NearlyTidy(us, y.inst, y.disk)
      /\ Known(y.inst, y.disk) \subseteq Known(st.inst, st.disk) /\ y.inst.next = st.inst.next
      /\ y.err => Tidy(us, y.inst, y.disk)
  BY CloseCurPartIsGood, CloseCurPartKeeps
<1>2. \/ Flush(st, x, io) = st
      \/ Flush(st, x, io) = y /\ y.err
      \/ Flush(st, x, io) = [y EXCEPT !.inst.seg.cur = FALSE, !.inst.seg.part = <<>>, !.inst.seg.flushed = x.dts]
  BY DEF Flush
<1>. HIDE DEF y
<1>3. [y EXCEPT !.inst.seg.cur = FALSE, !.inst.seg.part = <<>>, !.inst.seg.flushed = x.dts] = b
  OBVIOUS
<1>4. Keeps(us, y, a) /\ a = [d EXCEPT !.inst.seg.part = <<>>] /\ GoodSegment(setup.fmt, d)
  BY <1>1, FieldsAreLike, FieldsKeep
<1>. HIDE DEF a, d
<1>5. GoodSegment(setup.fmt, a) /\ Tidy(us, a.inst, a.disk) /\ NearlyTidy(us, a.inst, a.disk)
  BY <1>4, FieldsAreLike DEF Keeps, Tidy
<1>6. Keeps(us, a, b)
  BY <1>5, FieldsKeep
<1>. HIDE DEF b
<1>7. Keeps(us, y, b)
  BY <1>4, <1>6, KeepsAndAdds
<1>8. Keeps(us, st, b)
  BY <1>1, <1>7 DEF Keeps
<1>9. Keeps(us, st, st)
  BY FailedKeeps DEF GoodSegment, Good
<1>10. y.err => Keeps(us, st, y)
  BY <1>1 DEF Keeps
<1>. QED
  BY <1>2, <1>3, <1>8, <1>9, <1>10

(* The rollover of MPEG-TS, or the first segment.                          *)
LEMMA CutMPEGTSKeeps ==
    ASSUME NEW us, NEW st, NEW x, NEW io, Good(setup.fmt, st), Tidy(us, st.inst, st.disk),
           x.dts \in Int, st.inst.seg # NoSegment => st.inst.seg.dts \in Int, setup.fmt = "mpegts"
    PROVE  Keeps(us, st, CutMPEGTS(st, x, io)) /\ CutMPEGTS(st, x, io).inst.seg.dts \in Int
<1>0. IsState(st)
  BY DEF Good
<1>1. CASE st.inst.seg = NoSegment
  <2>1. CutMPEGTS(st, x, io) = SegmentFrom(st, x)
    BY <1>1 DEF CutMPEGTS
  <2>2. SegmentFrom(st, x).inst.seg.dts = x.dts
    BY <1>0, SegmentFromStarts DEF StartsAt
  <2>. QED
    BY <2>1, <2>2, SegmentFromKeeps
<1>2. CASE st.inst.seg # NoSegment /\ CanCut(st.inst, x)
  <2>. DEFINE a == [st EXCEPT !.inst.seg.last = x.dts]
              y == CloseSegment(a, io)
  <2>1. CutMPEGTS(st, x, io) = IF y.err THEN y ELSE SegmentFrom(y, x)
    BY <1>2 DEF CutMPEGTS
  <2>2. GoodSegment(setup.fmt, a) /\ Keeps(us, st, a) /\ Within(st, a)
    <3>1. GoodSegment(setup.fmt, st) /\ NearlyTidy(us, st.inst, st.disk)
      BY <1>2 DEF GoodSegment, Tidy
    <3>. QED
      BY <3>1, FieldsAreLike, FieldsKeep, FieldsWithin
  <2>. HIDE DEF a
  <2>3. Tidy(us, a.inst, a.disk)
    BY <2>2 DEF Keeps
  <2>4. GoodSegment(setup.fmt, y) /\ Keeps(us, a, y) /\ Within(a, y)
    BY <2>2, <2>3, CloseSegmentIsGood, CloseSegmentKeeps, CloseSegmentWithin
  <2>. HIDE DEF y
  <2>5. Keeps(us, st, y) /\ y.inst.seg.dts \in Int
    BY <1>2, <2>2, <2>4, KeepsAndAdds DEF Within
  <2>6. Tidy(us, y.inst, y.disk) /\ Good(setup.fmt, y) /\ IsState(y)
    BY <2>4, <2>5 DEF Keeps, GoodSegment, Good
  <2>7. Keeps(us, y, SegmentFrom(y, x)) /\ SegmentFrom(y, x).inst.seg.dts = x.dts
    BY <2>6, SegmentFromKeeps, SegmentFromStarts DEF StartsAt
  <2>8. Keeps(us, st, SegmentFrom(y, x))
    BY <2>5, <2>7, KeepsAndAdds
  <2>. QED
    BY <2>1, <2>5, <2>7, <2>8
<1>3. CASE st.inst.seg # NoSegment /\ ~CanCut(st.inst, x)
  <2>1. CutMPEGTS(st, x, io) = Flush(st, x, io)
    BY <1>3 DEF CutMPEGTS
  <2>2. GoodSegment(setup.fmt, st)
    BY <1>3 DEF GoodSegment
  <2>3. Keeps(us, st, Flush(st, x, io)) /\ Within(st, Flush(st, x, io))
    BY <2>2, FlushKeeps, FlushWithin
  <2>4. Flush(st, x, io).inst.seg.dts \in Int
    BY <1>3, <2>3 DEF Within
  <2>. QED
    BY <2>1, <2>3, <2>4
<1>. QED
  BY <1>1, <1>2, <1>3

(* write of formatMPEGTSTrack: at most the sample is added.                *)
LEMMA WriteMPEGTSAdds ==
    ASSUME NEW us, NEW st, NEW x, NEW io, Good(setup.fmt, st), Tidy(us, st.inst, st.disk),
           Fits(us, st, x), st.inst.seg # NoSegment => st.inst.seg.dts \in Int, setup.fmt = "mpegts"
    PROVE  Adds(us, st, WriteMPEGTS(st, x, io), x)
<1>. DEFINE w == Started(st, x.t, x)
            y == CutMPEGTS(w, x, io)
            p == Append(y.inst.seg.part, StoredSample(x, 0, y.inst.seg.dts))
            d == [y EXCEPT !.inst.seg.cur = TRUE]
            a == [d EXCEPT !.inst.seg.part = p]
            b == [a EXCEPT !.inst.seg.last = x.dts]
<1>0. IsState(st) /\ x.dts \in Int
  BY DEF Good, Fits, Sample
<1>1. WriteMPEGTS(st, x, io) = Failed(st) \/ WriteMPEGTS(st, x, io) = SampleToBuffer(y, x)
  BY DEF WriteMPEGTS
<1>2. Good(setup.fmt, w) /\ Keeps(us, st, w) /\ w.inst.seg = st.inst.seg
  BY StartedIsGood, StartedKeeps
<1>. HIDE DEF w
<1>3. Tidy(us, w.inst, w.disk)
  BY <1>2 DEF Keeps
<1>4. GoodSegment(setup.fmt, y) /\ Keeps(us, w, y) /\ y.inst.seg.dts \in Int
  BY <1>0, <1>2, <1>3, CutMPEGTSIsGood, CutMPEGTSKeeps
<1>5. SampleToBuffer(y, x) = y \/ SampleToBuffer(y, x) = b
  BY DEF SampleToBuffer
<1>6. p = Append(y.inst.seg.part, StoredSample(x, 0, y.inst.seg.dts))
  OBVIOUS
<1>. HIDE DEF y
<1>7. Keeps(us, st, y)
  BY <1>2, <1>4, KeepsAndAdds
<1>8. Tidy(us, y.inst, y.disk) /\ Fits(us, y, x)
  BY <1>7, KeepsAndAdds DEF Keeps
<1>14. /\ GoodSegment(setup.fmt, d) /\ Keeps(us, y, d)
       /\ d.inst.seg.part = y.inst.seg.part /\ d.inst.seg.dts = y.inst.seg.dts
  <2>. DEFINE r == [y.inst.seg EXCEPT !.cur = TRUE]
              e == [y EXCEPT !.inst.seg = r]
  <2>1. IsState(y) /\ IsSegmentRecord(y.inst.seg) /\ d = e
    BY <1>4 DEF GoodSegment, Good, IsState, IsInstance, InstanceShape
  <2>2. r.part = y.inst.seg.part /\ r.dts = y.inst.seg.dts
    BY <2>1 DEF IsSegmentRecord
  <2>. HIDE DEF r, d
  <2>3. d.inst.seg.part = y.inst.seg.part /\ d.inst.seg.dts = y.inst.seg.dts
    <3>1. e.inst.seg = r
      BY <2>1, SegmentSet
    <3>. QED
      BY <2>1, <2>2, <3>1
  <2>4. NearlyTidy(us, y.inst, y.disk)
    BY <1>8 DEF Tidy
  <2>. QED
    BY <1>4, <1>8, <2>3, <2>4, FieldsAreLike, FieldsKeep DEF d
<1>. HIDE DEF d, p
<1>9. GoodSegment(setup.fmt, a) /\ Adds(us, y, a, x)
  <2>0. 0 \in Int /\ Tidy(us, d.inst, d.disk)
    BY <1>14 DEF Keeps
  <2>1. Fits(us, d, x)
    BY <1>8, <1>14, KeepsAndAdds
  <2>2. p = Append(d.inst.seg.part, StoredSample(x, 0, d.inst.seg.dts)) /\ d.inst.seg.dts \in Int
    BY <1>4, <1>6, <1>14
  <2>3. GoodSegment(setup.fmt, a) /\ Adds(us, d, a, x)
    BY <1>14, <2>0, <2>1, <2>2, FieldsAreLike, PieceKept
  <2>. QED
    BY <1>14, <2>3, KeepsAndAdds
<1>. HIDE DEF a
<1>10. Tidy(us, a.inst, a.disk) /\ NearlyTidy(us, a.inst, a.disk)
  BY <1>9 DEF Adds, Tidy
<1>11. Keeps(us, a, b)
  BY <1>9, <1>10, FieldsKeep
<1>. HIDE DEF b
<1>12. Adds(us, st, b, x)
  <2>1. Adds(us, y, b, x)
    BY <1>9, <1>11, KeepsAndAdds
  <2>. QED
    BY <1>7, <2>1, KeepsAndAdds
<1>13. Adds(us, st, y, x) /\ Adds(us, st, Failed(st), x)
  BY <1>0, <1>7, FailedKeeps, KeepsAndAdds
<1>. QED
  BY <1>1, <1>5, <1>12, <1>13

-----------------------------------------------------------------------------
(* Units are added: what was placed still is.                              *)
LEMMA UnitsAppended ==
    ASSUME NEW us \in Seq(Sample), NEW u \in Sample, NEW i, NEW d, Tidy(us, i, d)
    PROVE  Tidy(Append(us, u), i, d)
<1>. DEFINE more == Append(us, u)
            n == Len(us)
<1>1. n \in Nat /\ DOMAIN us = 1..n /\ DOMAIN more = 1..(n + 1) /\ \A k \in 1..n : more[k] = us[k]
  OBVIOUS
<1>. HIDE DEF more, n
<1>2. ASSUME NEW x, NEW start, Placed(us, x, start) PROVE Placed(more, x, start)
  <2>1. x.n \in 1..n /\ x.n \in 1..(n + 1)
    BY <1>1, <1>2 DEF Placed
  <2>. QED
    BY <1>1, <1>2, <2>1 DEF Placed
<1>3. ASSUME NEW part, NEW start, IsPart(us, part, start) PROVE IsPart(more, part, start)
  BY <1>2, <1>3 DEF IsPart
<1>4. ASSUME NEW parts, NEW start, AreParts(us, parts, start) PROVE AreParts(more, parts, start)
  BY <1>3, <1>4 DEF AreParts
<1>5. FilesAscend(more, d)
  BY <1>4 DEF Tidy, NearlyTidy, FilesAscend
<1>6. PartAtHand(more, i, d)
  BY <1>3 DEF Tidy, NearlyTidy, PartAtHand
<1>. QED
  BY <1>5, <1>6 DEF Tidy, NearlyTidy, more

(* What is known was sent.                                                 *)
LEMMA KnownWasSent ==
    ASSUME NEW us, NEW i, NEW d, Tidy(us, i, d)
    PROVE  \A x \in Known(i, d) : x.n \in DOMAIN us /\ us[x.n].t = x.t
<1>1. ASSUME NEW f \in d, NEW x \in PiecesIn(f.parts) PROVE x.n \in DOMAIN us /\ us[x.n].t = x.t
  <2>1. PICK p \in DOMAIN f.parts : x \in Range(f.parts[p])
    BY DEF PiecesIn
  <2>2. IsPart(us, f.parts[p], f.dts)
    BY DEF Tidy, NearlyTidy, FilesAscend, AreParts
  <2>. QED
    BY <2>1, <2>2 DEF IsPart, Placed
<1>2. ASSUME i.seg # NoSegment, NEW x \in Range(i.seg.part) PROVE x.n \in DOMAIN us /\ us[x.n].t = x.t
  BY <1>2 DEF Tidy, NearlyTidy, PartAtHand, IsPart, Placed
<1>. QED
  BY <1>1, <1>2, KnownIn

(***************************************************************************)
(* The recorder: every unit has its own number, the files are tidy, and    *)
(* what waits was sent after what is known of its track.                   *)
(***************************************************************************)
Numbered == \A k \in DOMAIN units : units[k].n = k

WaitsLast ==
    AtWork => \A t \in DOMAIN setup.medias : Waits(t) =>
                  \A x \in Known(inst, disk) : x.t = t => x.n < inst.next[t].n

InPlace == Numbered /\ Tidy(units, inst, disk) /\ WaitsLast

(* The same units, and no more in the files.                               *)
LEMMA StillInPlace ==
    ASSUME InPlace, UNCHANGED <<setup, units, inst>>, AtWork' => AtWork,
           \A g \in disk' : \E f \in disk : SameContent(g, f)
    PROVE  InPlace'
<1>1. Tidy(units, inst, disk') /\ Known(inst, disk') \subseteq Known(inst, disk)
  BY FilesAlike DEF InPlace
<1>2. Tidy(units', inst', disk') /\ Known(inst', disk') = Known(inst, disk')
  BY <1>1
<1>3. WaitsLast'
  BY <1>1, <1>2 DEF InPlace, WaitsLast, Waits
<1>4. Numbered'
  BY DEF InPlace, Numbered
<1>5. Tidy(units, inst, disk)'
  BY <1>2
<1>. QED
  BY <1>3, <1>4, <1>5 DEF InPlace

(* The instance is over.                                                   *)
LEMMA OverInPlace ==
    ASSUME InPlace, IsOver, Tidy(units, inst', disk')
    PROVE  InPlace'
<1>1. ~AtWork' /\ units' = units
  BY DEF IsOver, AtWork
<1>. QED
  BY <1>1 DEF InPlace, Numbered, WaitsLast

(* A unit is written.                                                      *)
LEMMA WrittenInPlace ==
    ASSUME Recorded, Timing, Waiting, InPlace, NEW u \in Sample, u.n = Len(units) + 1, u.t \in Mine, AtWork,
           units' = Append(units, u), NEW k, NEW st, NEW io, UnitIsWrittenTo(k, u, st, io)
    PROVE  InPlace'
<1>. DEFINE us == Append(units, u)
            n == Len(units)
            now == Now(k)
            prev == inst.next[u.t]
            Follows == \A t \in DOMAIN setup.medias : st.inst.next[t] # None =>
                           \A x \in Known(st.inst, st.disk) : x.t = t => x.n < st.inst.next[t].n
<1>1. /\ units \in Seq(Sample) /\ setup \in Setups /\ u.dts \in Nat
      /\ \A v \in Range(units) : v \in Sample /\ v.dts \in Nat
  BY UnitsAreSamples DEF Timing, Sample
<1>2. /\ n \in Nat /\ DOMAIN units = 1..n /\ us \in Seq(Sample) /\ DOMAIN us = 1..(n + 1) /\ us[n + 1] = u
      /\ \A m \in 1..n : us[m] = units[m]
  BY <1>1
<1>3. Mine \subseteq DOMAIN setup.medias
  BY <1>1, TracksAreFew
<1>4. Becomes(k, st) /\ Good(setup.fmt, now) /\ k.number = inst.number /\ k.id = inst.id /\ k.seg = inst.seg
  BY DEF UnitIsWrittenTo, Becomes
<1>5. /\ now.inst = k /\ now.disk = disk /\ disk' = st.disk /\ setup' = setup
      /\ inst' = [st.inst EXCEPT !.failed = st.err]
  BY <1>4 DEF Now, Becomes
<1>6. Tidy(us, inst, disk)
  BY <1>1, UnitsAppended DEF InPlace
<1>. HIDE DEF us, n, now, prev, Follows
<1>7. Tidy(us, now.inst, now.disk) /\ Known(now.inst, now.disk) = Known(inst, disk)
  <2>1. ASSUME NEW i, i.id = inst.id, i.number = inst.number, i.seg = inst.seg
        PROVE  Tidy(us, i, disk) /\ Known(i, disk) = Known(inst, disk)
    BY <1>6, <2>1, SameParts
  <2>. QED
    BY <1>4, <1>5, <2>1
<1>8. \A x \in Known(inst, disk) : x.n \in 1..n
  BY <1>2, KnownWasSent DEF InPlace
<1>9. now.inst.seg # NoSegment => now.inst.seg.dts \in Int
  BY <1>1, <1>4, <1>5 DEF Waiting, AtWork
<1>10. \A t \in DOMAIN setup.medias : Waits(t) => t \in Mine /\ inst.next[t] \in Range(units) /\ inst.next[t].t = t
  BY DEF Waiting
<1>11. ASSUME setup.fmt = "mpegts" PROVE Tidy(us, st.inst, st.disk) /\ Follows
  <2>1. st = WriteMPEGTS(now, u, io) /\ k.next = inst.next
    BY <1>11 DEF UnitIsWrittenTo, now
  <2>2. Fits(us, now, u)
    <3>1. u.n = n + 1 /\ u.n \in DOMAIN us /\ us[u.n] = u
      BY <1>2 DEF n
    <3>2. \A x \in Known(inst, disk) : x.n < u.n
      BY <1>2, <1>8, <3>1
    <3>. QED
      BY <1>7, <3>1, <3>2 DEF Fits
  <2>3. Adds(us, now, st, u)
    BY <1>4, <1>7, <1>9, <1>11, <2>1, <2>2, WriteMPEGTSAdds
  <2>4. \A t \in DOMAIN setup.medias : st.inst.next[t] = None
    BY <1>5, <1>10, <1>11, <2>1, <2>3 DEF Waiting, Waits, Adds
  <2>. QED
    BY <2>3, <2>4 DEF Adds, Follows
<1>12. ASSUME setup.fmt # "mpegts" PROVE Tidy(us, st.inst, st.disk) /\ Follows
  <2>1. st = WriteFMP4(now, prev, u, io) /\ k.next = [inst.next EXCEPT ![u.t] = u]
    BY <1>12 DEF UnitIsWrittenTo, now, prev
  <2>2. /\ k.next[u.t] = u
        /\ \A t \in DOMAIN setup.medias : t # u.t => k.next[t] = inst.next[t]
    BY <1>3, <2>1 DEF Waiting
  <2>3. CASE prev = None
    <3>1. Keeps(us, now, st)
      BY <1>1, <1>4, <1>7, <1>9, <2>1, <2>3, WriteFMP4Adds
    <3>2. st.inst.next = k.next /\ Known(st.inst, st.disk) \subseteq Known(inst, disk)
      BY <1>5, <1>7, <3>1 DEF Keeps
    <3>3. ASSUME NEW t \in DOMAIN setup.medias, st.inst.next[t] # None, NEW x \in Known(st.inst, st.disk), x.t = t
          PROVE  x.n < st.inst.next[t].n
      <4>1. CASE t = u.t
        BY <1>2, <1>8, <2>2, <3>2, <4>1 DEF n
      <4>2. CASE t # u.t
        BY <2>2, <3>2, <3>3, <4>2 DEF InPlace, WaitsLast, Waits
      <4>. QED
        BY <4>1, <4>2
    <3>. QED
      BY <3>1, <3>3 DEF Keeps, Follows
  <2>4. CASE prev # None
    <3>1. PICK m \in 1..n : prev = units[m] /\ prev.n = m /\ prev.t = u.t
      BY <1>2, <1>3, <1>10, <2>4 DEF Waits, Range, InPlace, Numbered, prev
    <3>2. Fits(us, now, prev)
      <4>1. prev \in Sample /\ prev.n \in DOMAIN us /\ us[prev.n] = prev
        BY <1>1, <1>2, <3>1
      <4>2. \A x \in Known(inst, disk) : x.t = prev.t => x.n < prev.n
        BY <1>3, <2>4, <3>1 DEF InPlace, WaitsLast, Waits, prev
      <4>. QED
        BY <1>7, <4>1, <4>2 DEF Fits
    <3>3. Adds(us, now, st, prev)
      BY <1>1, <1>4, <1>7, <1>9, <2>1, <2>4, <3>2, WriteFMP4Adds
    <3>4. /\ st.inst.next = k.next
          /\ \A x \in Known(st.inst, st.disk) : x \in Known(inst, disk) \/ (x.n = m /\ x.t = u.t)
      BY <1>5, <1>7, <3>1, <3>3 DEF Adds
    <3>5. ASSUME NEW t \in DOMAIN setup.medias, st.inst.next[t] # None, NEW x \in Known(st.inst, st.disk), x.t = t
          PROVE  x.n < st.inst.next[t].n
      <4>1. CASE t = u.t
        BY <1>2, <1>8, <2>2, <3>1, <3>4, <4>1 DEF n
      <4>2. CASE t # u.t
        BY <2>2, <3>4, <3>5, <4>2 DEF InPlace, WaitsLast, Waits
      <4>. QED
        BY <4>1, <4>2
    <3>. QED
      BY <3>3, <3>5 DEF Adds, Follows
  <2>. QED
    BY <2>3, <2>4
<1>13. Tidy(us, st.inst, st.disk) /\ Follows
  BY <1>11, <1>12
<1>14. InstanceShape(st.inst)
  BY <1>4 DEF Becomes, Good, IsState, IsInstance
<1>15. /\ inst'.id = st.inst.id /\ inst'.number = st.inst.number /\ inst'.seg = st.inst.seg
       /\ inst'.next = st.inst.next
  BY <1>5, <1>14 DEF InstanceShape
<1>16. Tidy(us, inst', disk') /\ Known(inst', disk') = Known(st.inst, st.disk)
  <2>1. ASSUME NEW j, j.id = st.inst.id, j.number = st.inst.number, j.seg = st.inst.seg
        PROVE  Tidy(us, j, st.disk) /\ Known(j, st.disk) = Known(st.inst, st.disk)
    BY <1>13, <2>1, SameParts
  <2>. QED
    BY <1>5, <1>15, <2>1
<1>17. Tidy(units, inst, disk)'
  BY <1>16 DEF us
<1>18. WaitsLast'
  BY <1>5, <1>13, <1>15, <1>16 DEF WaitsLast, Waits, Follows
<1>19. Numbered'
  BY <1>2 DEF InPlace, Numbered, us, n
<1>. QED
  BY <1>17, <1>18, <1>19 DEF InPlace

(* A unit, that waits, is written or is dropped.                           *)
LEMMA UnitInPlace ==
    ASSUME Recorded, Timing, Waiting, InPlace, NEW t, NEW key \in BOOLEAN, NEW late \in 0..1, NEW io,
           OnUnit(t, key, late, io)
    PROVE  InPlace'
<1>. DEFINE u == UnitOf(t, key, late)
<1>1. /\ u \in Sample /\ u.t = t /\ t \in Mine /\ AtWork /\ u.n = Len(units) + 1
      /\ clock - 1 <= u.dts /\ u.dts <= clock /\ u.ntp = u.dts + skew
      /\ \A v \in Range(units) : v.t = u.t => v.dts < u.dts
      /\ units' = Append(units, u) /\ setup' = setup
      /\ UnitIsDropped(u) \/ \E k, st : UnitIsWrittenTo(k, u, st, io)
  BY UnitGoesTo
<1>2. rec' = rec
  BY DEF OnUnit
<1>. HIDE DEF u
<1>3. CASE UnitIsDropped(u)
  <2>1. UNCHANGED <<setup, rec, inst, disk>>
    BY <1>1, <1>2, <1>3 DEF UnitIsDropped
  <2>2. Tidy(Append(units, u), inst, disk)
    BY <1>1, UnitsAppended DEF Timing, InPlace
  <2>3. Tidy(units, inst, disk)'
    BY <1>1, <2>1, <2>2
  <2>4. WaitsLast'
    BY <2>1 DEF InPlace, WaitsLast, Waits, AtWork
  <2>5. Numbered'
    BY <1>1 DEF Timing, InPlace, Numbered
  <2>. QED
    BY <2>3, <2>4, <2>5 DEF InPlace
<1>4. CASE \E k, st : UnitIsWrittenTo(k, u, st, io)
  BY <1>1, <1>4, WrittenInPlace
<1>. QED
  BY <1>1, <1>3, <1>4

(* InstanceFails, Split and Terminated.                                    *)
LEMMA CloseInPlace ==
    ASSUME Recorded, InPlace, NEW io, InstanceFails(io) \/ Split(io) \/ Terminated(io), UNCHANGED cleanerVars
    PROVE  InPlace'
<1>. DEFINE st == CloseFormat(inst, io)
<1>1. /\ inst' = [st.inst EXCEPT !.done = TRUE]
      /\ disk' = st.disk \/ \E before, after : disk' = Renamed(st.disk, before, after)
  BY DEF InstanceFails, Split, Terminated
<1>2. IsOver
  BY CloseIsOver
<1>3. InstanceShape(st.inst) /\ \A f \in st.disk : IsFile(f)
  BY CloseFormatIsFine DEF Recorded, Fine
<1>4. Tidy(units, st.inst, st.disk)
  <2>1. Now(inst).inst = inst /\ Now(inst).disk = disk /\ Fine(inst, disk, events)
    BY DEF Now, Recorded
  <2>2. CASE inst.seg = NoSegment \/ inst.done
    BY <2>1, <2>2 DEF CloseFormat, InPlace
  <2>3. CASE ~(inst.seg = NoSegment \/ inst.done)
    <3>1. GoodSegment(setup.fmt, Now(inst))
      BY <2>1, <2>3, NowIsGood DEF GoodSegment
    <3>2. st = CloseSegment(Now(inst), io)
      BY <2>3 DEF CloseFormat
    <3>. HIDE DEF st
    <3>3. Keeps(units, Now(inst), st)
      BY <2>1, <3>1, <3>2, CloseSegmentKeeps DEF InPlace
    <3>. QED
      BY <3>3 DEF Keeps
  <2>. QED
    BY <2>2, <2>3
<1>. HIDE DEF st
<1>5. \A g \in disk' : \E f \in st.disk : SameContent(g, f)
  <2>1. ASSUME NEW before, NEW after, NEW g \in Renamed(st.disk, before, after)
        PROVE  \E f \in st.disk : SameContent(g, f)
    <3>1. PICK f \in st.disk : g = f \/ g = [f EXCEPT !.renamed = TRUE]
      BY <2>1 DEF Renamed
    <3>2. SameContent(g, f)
      BY <1>3, <3>1 DEF IsFile, SameContent
    <3>. QED
      BY <3>2
  <2>. QED
    BY <1>1, <2>1 DEF SameContent
<1>6. Tidy(units, st.inst, disk')
  BY <1>4, <1>5, FilesAlike
<1>7. inst'.id = st.inst.id /\ inst'.number = st.inst.number /\ inst'.seg = st.inst.seg
  BY <1>1, <1>3 DEF InstanceShape
<1>8. Tidy(units, inst', disk')
  <2>1. ASSUME NEW j, j.id = st.inst.id, j.number = st.inst.number, j.seg = st.inst.seg
        PROVE  Tidy(units, j, disk')
    BY <1>6, <2>1, SameParts
  <2>. QED
    BY <1>7, <2>1
<1>. QED
  BY <1>2, <1>8, OverInPlace

(* Without a segment there are only the files.                             *)
LEMMA FilesAlone ==
    ASSUME NEW us, NEW i, NEW d, Tidy(us, i, d), NEW j, j.seg = NoSegment,
           (j.id = i.id /\ j.number = i.number) \/ j.id = i.id + 1, i.id \in Nat
    PROVE  Tidy(us, j, d) /\ Known(j, d) \subseteq Known(i, d)
<1>1. FilesAscend(us, d) /\ PartAtHand(us, j, d) /\ Pending(j, d)
  BY DEF Tidy, NearlyTidy, PartAtHand, Pending
<1>2. Numbers(j, d)
  <2>1. ASSUME NEW f \in d
        PROVE  f.stream \in Nat /\ f.num \in Nat /\ (f.stream < j.id \/ (f.stream = j.id /\ f.num < j.number))
    BY DEF Tidy, NearlyTidy, Numbers
  <2>. QED
    BY <2>1 DEF Numbers
<1>3. Known(j, d) \subseteq Known(i, d)
  BY DEF Known, InPart
<1>. QED
  BY <1>1, <1>2, <1>3 DEF Tidy, NearlyTidy

(* Neither is there what was in the file already.                          *)
LEMMA NearlyAlone ==
    ASSUME NEW us, NEW i, NEW d, NearlyTidy(us, i, d), NEW j, j.seg = NoSegment,
           j.id = i.id, j.number = i.number
    PROVE  Tidy(us, j, d)
<1>1. FilesAscend(us, d) /\ PartAtHand(us, j, d) /\ Pending(j, d)
  BY DEF NearlyTidy, PartAtHand, Pending
<1>2. Numbers(j, d)
  BY DEF NearlyTidy, Numbers
<1>. QED
  BY <1>1, <1>2 DEF Tidy, NearlyTidy

(* InstanceEnded, and the process dies.                                    *)
LEMMA EndInPlace ==
    ASSUME Recorded, InPlace, NEW io, InstanceEnded \/ Crash(io), UNCHANGED cleanerVars
    PROVE  InPlace'
<1>1. IsOver
  BY EndIsOver
<1>2. Tidy(units, inst, disk)
  BY DEF InPlace
<1>3. CASE InstanceEnded
  BY <1>1, <1>2, <1>3, OverInPlace DEF InstanceEnded
<1>4. CASE Crash(io)
  <2>1. InstanceShape(inst) /\ inst' = [inst EXCEPT !.done = TRUE, !.seg = NoSegment] /\ inst.seg # NoSegment
    BY <1>4 DEF Recorded, Fine, Crash
  <2>2. inst'.id = inst.id /\ inst'.number = inst.number /\ inst'.seg = NoSegment /\ inst.id \in Nat
    BY <2>1 DEF InstanceShape
  <2>3. CASE disk' = disk
    BY <1>1, <1>2, <2>2, <2>3, FilesAlone, OverInPlace
  <2>4. CASE disk' # disk
    <3>. DEFINE st == CloseCurPart(Now(inst), io)
    <3>1. disk' = st.disk /\ ~inst.done
      BY <1>4, <2>4 DEF Crash
    <3>2. GoodSegment(setup.fmt, Now(inst)) /\ Now(inst).inst = inst /\ Now(inst).disk = disk
      <4>1. Now(inst).inst = inst /\ Now(inst).disk = disk /\ Fine(inst, disk, events)
        BY DEF Now, Recorded
      <4>. QED
        BY <2>1, <3>1, <4>1, NowIsGood DEF GoodSegment
    <3>3. NearlyTidy(units, st.inst, st.disk) /\ st.inst.id = inst.id /\ st.inst.number = inst.number
      BY <1>2, <3>2, CloseCurPartKeeps, CloseCurPartIsGood
    <3>. HIDE DEF st
    <3>4. Tidy(units, inst', disk')
      BY <2>2, <3>1, <3>3, NearlyAlone
    <3>. QED
      BY <1>1, <3>4, OverInPlace
  <2>. QED
    BY <2>3, <2>4
<1>. QED
  BY <1>3, <1>4

(* The pause is over.                                                      *)
LEMMA RestartInPlace ==
    ASSUME Recorded, Timing, Waiting, InPlace, Restart, UNCHANGED cleanerVars
    PROVE  InPlace'
<1>1. UNCHANGED <<setup, units, disk>> /\ inst' = NewInstance(inst.id + 1)
  BY DEF Restart
<1>2. inst'.id = inst.id + 1 /\ inst'.seg = NoSegment /\ inst.id \in Nat
  BY <1>1 DEF NewInstance, Recorded, Fine, InstanceShape
<1>3. \A t \in DOMAIN setup.medias : ~Waits(t)'
  BY RestartTimed
<1>4. Tidy(units, inst', disk)
  BY <1>2, FilesAlone DEF InPlace
<1>5. Tidy(units, inst, disk)'
  BY <1>1, <1>4
<1>. QED
  BY <1>1, <1>3, <1>5 DEF InPlace, WaitsLast, Numbered

(* At first nothing was sent.                                              *)
LEMMA InPlaceAtFirst == ASSUME Init PROVE Timing /\ Waiting /\ InPlace
<1>1. Timing /\ Waiting
  BY AgedAtFirst DEF Aged
<1>2. units = <<>> /\ disk = {} /\ inst.seg = NoSegment /\ \A t \in DOMAIN setup.medias : ~Waits(t)
  BY DEF Init, RecorderInit, NewInstance, Waits
<1>3. Tidy(units, inst, disk)
  BY <1>2 DEF Tidy, NearlyTidy, FilesAscend, Numbers, PartAtHand, Pending
<1>. QED
  BY <1>1, <1>2, <1>3 DEF InPlace, Numbered, WaitsLast

(* Every step keeps it.                                                    *)
LEMMA StepInPlace == ASSUME Recorded, Timing, Waiting, InPlace, [Next]_vars PROVE InPlace'
<1>1. CASE /\ UNCHANGED <<setup, units, inst>> /\ disk' \subseteq disk
           /\ rec'.phase = rec.phase
  <2>1. AtWork' => AtWork
    BY <1>1 DEF AtWork
  <2>2. \A g \in disk' : \E f \in disk : SameContent(g, f)
    BY <1>1 DEF SameContent
  <2>. QED
    BY <1>1, <2>1, <2>2, StillInPlace
<1>2. CASE RecorderNext /\ UNCHANGED cleanerVars
  <2>1. CASE \/ Close \/ SplitRefused \/ (\E name \in BOOLEAN : SplitSegment(name))
             \/ Tick \/ SourceClockJumps
    <3>1. UNCHANGED <<setup, units, inst, disk>>
      BY <2>1 DEF Close, SplitRefused, SplitSegment, Tick, SourceClockJumps
    <3>2. rec'.phase = rec.phase
      BY <2>1 DEF Close, SplitRefused, SplitSegment, Tick, SourceClockJumps, Recorded
    <3>. QED
      BY <1>1, <3>1, <3>2
  <2>2. CASE \E t \in DOMAIN setup.medias, key \in BOOLEAN, late \in 0..1, io \in Faults \cup {"ok"} :
               OnUnit(t, key, late, io)
    BY <2>2, UnitInPlace
  <2>3. CASE \E io \in Faults \cup {"ok"} : InstanceFails(io) \/ Split(io) \/ Terminated(io)
    BY <1>2, <2>3, CloseInPlace
  <2>. QED
    BY <1>2, <2>1, <2>2, <2>3, EndInPlace, RestartInPlace DEF RecorderNext, RecorderSteps
<1>3. CASE CleanerNext
  <2>1. UNCHANGED <<setup, units, inst, rec>> /\ disk' \subseteq disk
    BY <1>3 DEF CleanerNext, CleanerStarts, CleanerRemoves, CleanerReclaims, ReloadPathConfs, recVars
  <2>. QED
    BY <1>1, <2>1
<1>4. \/ RecorderNext /\ UNCHANGED cleanerVars
      \/ CleanerNext
      \/ UNCHANGED <<recVars, cleanerVars>>
  BY DEF Next, RecordScene, ArchiveScene, ForwardScene, vars
<1>5. CASE UNCHANGED <<recVars, cleanerVars>>
  BY <1>1, <1>5 DEF recVars
<1>. QED
  BY <1>2, <1>3, <1>4, <1>5

-----------------------------------------------------------------------------
(* Recorder and record store: every sample in a file is of a unit of its   *)
(* track that was sent, with the same key flag, and the time it has in the *)
(* file is the time of that unit; in a file, and from a file to a later    *)
(* one of the recordings, the samples of a track are in the order in which *)
(* they were sent, none of them twice, whatever failed in between          *)
(* (format_fmp4_part.go write and close, format_fmp4_segment.go closeCurPart,*)
(* format_fmp4_track.go write, format_mpegts_segment.go).                  *)
SamplesAreInPlace == FilesAscend(units, disk)

(* That they are.                                                          *)
THEOREM SamplesAreInPlaceHolds == Spec => []SamplesAreInPlace
<1>1. Init => Recorded /\ Timing /\ Waiting /\ InPlace
  BY RecordedAtFirst, InPlaceAtFirst DEF Init
<1>2. Recorded /\ Timing /\ Waiting /\ InPlace /\ [Next]_vars => (Recorded /\ Timing /\ Waiting /\ InPlace)'
  BY StepIsRecorded, StepTimed, StepInPlace
<1>3. InPlace => SamplesAreInPlace
  BY DEF InPlace, Tidy, NearlyTidy, SamplesAreInPlace
<1>. QED
  BY <1>1, <1>2, <1>3, PTL DEF Spec
=============================================================================
