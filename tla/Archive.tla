------------------------------- MODULE Archive ------------------------------
(***************************************************************************)
(* The files of rounds outside of the node: the upload of a renamed        *)
(* segment (internal/recording/upload.go), what ppcenter is told of it,    *)
(* and the deletions it queues for the node                                *)
(* (internal/core/record_deletion_runner.go).  An upload or a deletion     *)
(* whose answer is lost may have been done.                                *)
(***************************************************************************)
EXTENDS Naturals, Sequences, FiniteSets

CONSTANTS RoundFiles, MaxAttempts, ClaimLimit, MaxArchiveFaults

VARIABLES
    upload,     \* [RoundFiles -> state of the goroutine of the upload]
    remote,     \* objects in the storage
    center,     \* [RoundFiles -> what ppcenter holds of the file]
    runner,     \* the deletion runner
    lostCalls   \* answers that were lost so far

archiveVars == <<upload, remote, center, runner, lostCalls>>

NotUploaded == [pc |-> "none", attempt |-> 0, copy |-> FALSE]
IdleRunner == [pc |-> "idle", todo |-> {}, current |-> "none", success |-> FALSE]

ArchiveInit ==
    /\ upload = [f \in RoundFiles |-> NotUploaded]
    /\ remote = {} /\ lostCalls = 0
    /\ center = [f \in RoundFiles |-> "unknown"]
    /\ runner = IdleRunner

Loses == lostCalls < MaxArchiveFaults /\ lostCalls' = lostCalls + 1

(* The goroutine starts with the copy that has a single moov; the original *)
(* is uploaded when it cannot be made.                                     *)
UploadAsync(f, remuxed) ==
    /\ upload[f].pc = "none"
    /\ upload' = [upload EXCEPT ![f] = [pc |-> "trying", attempt |-> 1, copy |-> remuxed]]
    /\ UNCHANGED <<remote, center, runner, lostCalls>>

Attempted(f) == IF upload[f].attempt < MaxAttempts THEN "backoff" ELSE "over"

(* Seeded fault: the last failed attempt is reported like an upload.       *)
UploadFails_Reports(f) ==
    /\ upload[f].pc = "trying"
    /\ Loses
    /\ \E stored \in BOOLEAN : remote' = IF stored THEN remote \cup {f} ELSE remote
    /\ upload' = [upload EXCEPT ![f].pc = IF Attempted(f) = "over" THEN "reporting" ELSE "backoff"]
    /\ UNCHANGED <<center, runner>>

(* A failed attempt is tried again, unless it was the last.                *)
UploadFails(f) ==
    /\ upload[f].pc = "trying"
    /\ Loses
    /\ \E stored \in BOOLEAN : remote' = IF stored THEN remote \cup {f} ELSE remote
    /\ upload' = [upload EXCEPT ![f].pc = Attempted(f), ![f].copy = @ /\ Attempted(f) # "over"]
    /\ UNCHANGED <<center, runner>>

Backoff(f) ==
    /\ upload[f].pc = "backoff"
    /\ upload' = [upload EXCEPT ![f].pc = "trying", ![f].attempt = @ + 1]
    /\ UNCHANGED <<remote, center, runner, lostCalls>>

UploadSucceeds(f) ==
    /\ upload[f].pc = "trying"
    /\ remote' = remote \cup {f}
    /\ upload' = [upload EXCEPT ![f].pc = "reporting"]
    /\ UNCHANGED <<center, runner, lostCalls>>

(* reportSplitRecFile, which is not tried again.                           *)
Report(f) ==
    /\ upload[f].pc = "reporting"
    /\ upload' = [upload EXCEPT ![f].pc = "over", ![f].copy = FALSE]
    /\ \/ center' = [center EXCEPT ![f] = "kept"] /\ UNCHANGED lostCalls
       \/ Loses /\ UNCHANGED center
    /\ UNCHANGED <<remote, runner>>

(* The process dies with the goroutines of its uploads; nothing takes them *)
(* up again.                                                               *)
ProcessDies ==
    /\ Loses
    /\ upload' = [f \in RoundFiles |-> IF upload[f].pc \in {"none", "over"} THEN upload[f]
                                       ELSE [upload[f] EXCEPT !.pc = "lost"]]
    /\ runner' = IdleRunner
    /\ UNCHANGED <<remote, center>>

-----------------------------------------------------------------------------
(* ppcenter, from how the runner uses it.                                  *)
CenterWants(f) ==
    /\ center[f] = "kept"
    /\ center' = [center EXCEPT ![f] = "wanted"]
    /\ UNCHANGED <<upload, remote, runner, lostCalls>>

(* What was claimed and not completed is offered again.                    *)
CenterOffersAgain(f) ==
    /\ center[f] = "claimed" /\ f \notin runner.todo /\ runner.current # f
    /\ center' = [center EXCEPT ![f] = "wanted"]
    /\ UNCHANGED <<upload, remote, runner, lostCalls>>

(* executeOnce: the claims, or nothing if the answer does not come.        *)
Claim ==
    /\ runner.pc = "idle"
    /\ \E claims \in SUBSET {f \in RoundFiles : center[f] = "wanted"} :
         /\ claims # {} /\ Cardinality(claims) <= ClaimLimit
         /\ center' = [f \in RoundFiles |-> IF f \in claims THEN "claimed" ELSE center[f]]
         /\ \/ runner' = [runner EXCEPT !.pc = "deleting", !.todo = claims] /\ UNCHANGED lostCalls
            \/ Loses /\ UNCHANGED runner
    /\ UNCHANGED <<upload, remote>>

(* Seeded fault: an object that is not there is an error.                  *)
DeleteOne_MustExist ==
    /\ runner.pc = "deleting"
    /\ \E f \in runner.todo :
         \/ /\ remote' = remote \ {f}
            /\ runner' = [runner EXCEPT !.pc = "completing", !.todo = @ \ {f}, !.current = f, !.success = f \in remote]
            /\ UNCHANGED lostCalls
         \/ /\ Loses
            /\ \E done \in BOOLEAN : remote' = IF done THEN remote \ {f} ELSE remote
            /\ runner' = [runner EXCEPT !.pc = "completing", !.todo = @ \ {f}, !.current = f, !.success = FALSE]
    /\ UNCHANGED <<upload, center>>

(* deleteOne: an object that is not there is deleted.                      *)
DeleteOne ==
    /\ runner.pc = "deleting"
    /\ \E f \in runner.todo :
         \/ /\ remote' = remote \ {f}
            /\ runner' = [runner EXCEPT !.pc = "completing", !.todo = @ \ {f}, !.current = f, !.success = TRUE]
            /\ UNCHANGED lostCalls
         \/ /\ Loses
            /\ \E done \in BOOLEAN : remote' = IF done THEN remote \ {f} ELSE remote
            /\ runner' = [runner EXCEPT !.pc = "completing", !.todo = @ \ {f}, !.current = f, !.success = FALSE]
    /\ UNCHANGED <<upload, center>>

(* Complete: ppcenter queues a failed deletion again.  The runner goes on  *)
(* whether or not the call gets through.                                   *)
Complete ==
    /\ runner.pc = "completing"
    /\ \/ /\ center' = [center EXCEPT ![runner.current] = IF runner.success THEN "deleted" ELSE "wanted"]
          /\ UNCHANGED lostCalls
       \/ Loses /\ UNCHANGED center
    /\ runner' = [runner EXCEPT !.pc = IF @ = "completing" /\ runner.todo # {} THEN "deleting" ELSE "idle",
                                !.current = "none"]
    /\ UNCHANGED <<upload, remote>>

UploadSteps(f) == UploadFails(f) \/ Backoff(f) \/ UploadSucceeds(f) \/ Report(f)

RunnerSteps == Claim \/ DeleteOne \/ Complete

ArchiveNext ==
    \/ \E f \in RoundFiles : UploadSteps(f) \/ CenterWants(f) \/ CenterOffersAgain(f)
    \/ \E f \in RoundFiles, remuxed \in BOOLEAN : UploadAsync(f, remuxed)
    \/ RunnerSteps \/ ProcessDies

-----------------------------------------------------------------------------
(* A file that ppcenter counts as deleted is not in the storage: no        *)
(* attempt of an upload is left when it is told of the file, and a         *)
(* deletion that did not happen is never completed as done.                *)
DeletedIsGone == \A f \in RoundFiles : center[f] = "deleted" => f \notin remote

(* Nothing that ppcenter does not know of is deleted, and an upload that   *)
(* is over leaves no copy of the file behind, if the process lived.        *)
NothingElseGoes ==
    \A f \in RoundFiles :
        /\ center[f] \in {"unknown", "kept"} /\ upload[f].pc = "reporting" => f \in remote
        /\ upload[f].pc = "over" => ~upload[f].copy
=============================================================================
