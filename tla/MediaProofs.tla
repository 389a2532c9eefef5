---------------------------- MODULE MediaProofs -----------------------------
(***************************************************************************)
(* A source and the media it feeds, for every set of publishers, readers,  *)
(* formats and layers and for every number of reloads:                     *)
(*   - a static source feeds the stream it has announced, leaves nothing   *)
(*     running once Stop has returned, and implements SourceContract;      *)
(*   - whatever substreams take turns, a reader of a stream sees the time  *)
(*     of each format go on, gets what it registered for, and its protocol *)
(*     does not fail;                                                      *)
(*   - what a WHEP reader of several layers is sent can be decoded.        *)
(***************************************************************************)
EXTENDS Media, StaticSource, TLAPS

(***************************************************************************)
(* The static source.                                                      *)
(***************************************************************************)
(* A call of the instance is in the handler's hands exactly while the      *)
(* handler is in the matching call of the path.                            *)
CallsMatch ==
    /\ hpc = "ready" <=> ipc = "waitReady"
    /\ hpc = "notReady" <=> ipc = "waitNot"

(* The handler has an instance unless it is off or about to recreate it.   *)
InstancePresent ==
    /\ hpc = "off" => ipc = "off"
    /\ hpc # "off" => (ipc = "off" <=> recreating)
    /\ hpc = "draining" => ctx

(* The handler runs, its context alive, from Start to Stop; the path waits *)
(* for its end before it goes on.                                          *)
HandlerRuns ==
    /\ running => hpc # "off" /\ ~ctx /\ ppc = "select"
    /\ ~running /\ ppc \in {"select", "done"} => hpc = "off"
    /\ ~running => ~online
    /\ ~running /\ hpc # "off" => ctx

SourceInv == SourceTypeOK /\ CallsMatch /\ InstancePresent /\ HandlerRuns /\ OnlineIsFed

(* The initial states satisfy the inductive invariant (Initialize).        *)
LEMMA SourceStarts == SourceInit => SourceInv
<1> SUFFICES ASSUME SourceInit PROVE SourceInv
  OBVIOUS
<1> USE SourceAssumption DEF SourceInit, SourceInv, SourceTypeOK, CallsMatch, InstancePresent, HandlerRuns, OnlineIsFed
<1>1. 0 \in Versions
  BY DEF Versions
<1>2. CASE OnDemand
  BY <1>1, <1>2
<1>3. CASE ~OnDemand
  BY <1>1, <1>3
<1> QED
  BY <1>2, <1>3

(* Cancelling a context leaves a set of reloads a set of reloads.          *)
LEMMA CancelledType == ASSUME NEW S, S \subseteq Reloads PROVE Cancelled(S) \subseteq Reloads
<1> SUFFICES ASSUME NEW r \in S PROVE <<r[1], TRUE>> \in Reloads
  BY DEF Cancelled
<1>1. r \in Versions \X BOOLEAN
  BY DEF Reloads
<1>2. r[1] \in Versions
  BY <1>1
<1> QED
  BY <1>2 DEF Reloads

(* Every step of path, handler and instance keeps the types.               *)
LEMMA SourceTypeStep == SourceTypeOK /\ [SourceNext]_sourceVars => SourceTypeOK'
<1> SUFFICES ASSUME SourceTypeOK, [SourceNext]_sourceVars PROVE SourceTypeOK'
  OBVIOUS
<1> USE SourceAssumption, CancelledType DEF SourceTypeOK, pathVars, handVars, instVars, confVars
<1>0. CASE UNCHANGED sourceVars
  BY <1>0 DEF sourceVars
<1>1. CASE Start
  BY <1>1 DEF Start
<1>2. CASE Stop
  BY <1>2 DEF Stop, StopHandler
<1>3. CASE StopReturns
  BY <1>3 DEF StopReturns
<1>4. CASE doSourceStaticSetReady
  BY <1>4 DEF doSourceStaticSetReady
<1>5. CASE doSourceStaticSetNotReady
  BY <1>5 DEF doSourceStaticSetNotReady, StopHandler
<1>6. CASE ReloadConf
  <2>1. pconf + 1 \in Versions
    BY <1>6 DEF ReloadConf, Versions
  <2>2. <<pconf + 1, FALSE>> \in Reloads
    BY <2>1 DEF Reloads
  <2> QED
    BY <1>6, <2>1, <2>2 DEF ReloadConf
<1>7. CASE ClosePath
  BY <1>7 DEF ClosePath
<1>8. CASE EndPath
  BY <1>8 DEF EndPath, StopHandler
<1>9. CASE InstanceFailed
  BY <1>9 DEF InstanceFailed
<1>10. CASE Recreate
  BY <1>10 DEF Recreate
<1>11. CASE PassSetReady \/ PassSetNotReady \/ CallAborted
  BY <1>11 DEF PassSetReady, PassSetNotReady, CallAborted
<1>12. CASE HandlerDone \/ Drained
  BY <1>12 DEF HandlerDone, Drained
<1>13. CASE Connected \/ ConnectFailed \/ StreamLost \/ AskAborted
  BY <1>13 DEF Connected, ConnectFailed, StreamLost, AskAborted
<1>14. ASSUME NEW r \in Reloads, TakeReload(r) \/ DropReload(r) PROVE SourceTypeOK'
  <2>1. r \in Versions \X BOOLEAN
    BY DEF Reloads
  <2>2. r[1] \in Versions
    BY <2>1
  <2>3. <<r[1], FALSE>> \in Reloads
    BY <2>2 DEF Reloads
  <2>4. CASE TakeReload(r)
    <3>1. toInstance \cup {<<r[1], FALSE>>} \subseteq Reloads
      BY <2>3
    <3>2. toInstance' \subseteq Reloads
      BY <2>4, <3>1 DEF TakeReload
    <3> QED
      BY <2>2, <2>4, <3>2 DEF TakeReload
  <2>5. CASE DropReload(r)
    BY <2>5 DEF DropReload
  <2> QED
    BY <1>14, <2>4, <2>5
<1>15. ASSUME NEW r \in Reloads, ApplyReload(r) \/ DropInstanceReload(r) PROVE SourceTypeOK'
  <2>1. r \in Versions \X BOOLEAN
    BY DEF Reloads
  <2>2. r[1] \in Versions
    BY <2>1
  <2> QED
    BY <1>15, <2>2 DEF ApplyReload, DropInstanceReload
<1>16. CASE Terminated
  BY <1>16 DEF Terminated, sourceVars
<1> QED
  BY <1>0, <1>1, <1>2, <1>3, <1>4, <1>5, <1>6, <1>7, <1>8, <1>9, <1>10, <1>11, <1>12, <1>13,
     <1>14, <1>15, <1>16 DEF SourceNext

(* Every step keeps the inductive invariant.  The steps of the reloads     *)
(* leave path, handler and instance where they are.                        *)
LEMMA SourceStep == SourceInv /\ [SourceNext]_sourceVars => SourceInv'
<1> SUFFICES ASSUME SourceInv, [SourceNext]_sourceVars PROVE (CallsMatch /\ InstancePresent /\ HandlerRuns /\ OnlineIsFed)'
  BY SourceTypeStep DEF SourceInv
<1> USE DEF SourceInv, SourceTypeOK, CallsMatch, InstancePresent, HandlerRuns, OnlineIsFed, pathVars, handVars,
            instVars, confVars
<1> DEFINE Goal == (CallsMatch /\ InstancePresent /\ HandlerRuns /\ OnlineIsFed)'
<1>0. CASE UNCHANGED sourceVars
  BY <1>0 DEF sourceVars
<1>1. CASE Start
  BY <1>1 DEF Start
<1>2. CASE Stop
  BY <1>2 DEF Stop, StopHandler
<1>3. CASE StopReturns
  BY <1>3 DEF StopReturns
<1>4. CASE doSourceStaticSetReady
  BY <1>4 DEF doSourceStaticSetReady
<1>5. CASE doSourceStaticSetNotReady
  BY <1>5 DEF doSourceStaticSetNotReady, StopHandler
<1>6. ASSUME UNCHANGED <<ppc, pctx, online, running, ctx, hpc, recreating, ipc>> PROVE Goal
  BY <1>6
<1>7. CASE ClosePath
  BY <1>7 DEF ClosePath
<1>8. CASE ReloadConf
  <2>1. UNCHANGED <<ppc, pctx, online, running, ctx, hpc, recreating, ipc>>
    BY <1>8, Zenon DEF ReloadConf
  <2> QED
    BY <1>6, <2>1
<1>9. CASE EndPath
  BY <1>9 DEF EndPath, StopHandler
<1>10. CASE InstanceFailed \/ Recreate
  BY <1>10 DEF InstanceFailed, Recreate
<1>11. CASE PassSetReady \/ PassSetNotReady
  BY <1>11 DEF PassSetReady, PassSetNotReady
<1>12. CASE CallAborted
  BY <1>12 DEF CallAborted
<1>13. CASE HandlerDone \/ Drained
  BY <1>13 DEF HandlerDone, Drained
<1>14. CASE Connected \/ ConnectFailed \/ StreamLost \/ AskAborted
  BY <1>14 DEF Connected, ConnectFailed, StreamLost, AskAborted
<1>15. ASSUME NEW r \in Reloads, TakeReload(r) \/ DropReload(r) PROVE Goal
  <2>1. UNCHANGED <<ppc, pctx, online, running, ctx, hpc, recreating, ipc>>
    BY <1>15, Zenon DEF TakeReload, DropReload
  <2> QED
    BY <1>6, <2>1
<1>16. ASSUME NEW r \in Reloads, ApplyReload(r) \/ DropInstanceReload(r) PROVE Goal
  BY <1>16 DEF ApplyReload, DropInstanceReload
<1>17. CASE Terminated
  BY <1>17 DEF Terminated, sourceVars
<1> QED
  BY <1>0, <1>1, <1>2, <1>3, <1>4, <1>5, <1>6, <1>7, <1>8, <1>9, <1>10,
     <1>11, <1>12, <1>13, <1>14, <1>15, <1>16, <1>17 DEF SourceNext

(* The inductive invariant holds in every reachable state.                 *)
THEOREM SourceInvariance == SourceSpec => []SourceInv
  BY SourceStarts, SourceStep, PTL DEF SourceSpec

(* A static source has exactly the states that its type lists.             *)
THEOREM SourceTypeCorrect == SourceSpec => []SourceTypeOK
  BY SourceInvariance, PTL DEF SourceInv

(* The stream is online only while an instance feeds it                    *)
(* (doSourceStaticSetReady, doSourceStaticSetNotReady).                    *)
THEOREM OnlineStreamIsFed == SourceSpec => []OnlineIsFed
  BY SourceInvariance, PTL DEF SourceInv

(* When Stop has returned, no handler and no instance is left (Handler.Stop*)
(* and its wait for s.done).                                               *)
THEOREM StopLeavesNothing == SourceSpec => []StoppedIsQuiet
<1>1. SourceInv => StoppedIsQuiet
  BY DEF SourceInv, SourceTypeOK, HandlerRuns, InstancePresent, StoppedIsQuiet
<1> QED
  BY <1>1, SourceInvariance, PTL

(* Every step of the source is a step of the contract or leaves it alone.  *)
LEMMA ContractStep == SourceInv /\ [SourceNext]_sourceVars => [Contract!Next]_View
<1> SUFFICES ASSUME SourceInv, [SourceNext]_sourceVars PROVE [Contract!Next]_View
  OBVIOUS
<1> USE DEF SourceInv, SourceTypeOK, HandlerRuns, CallsMatch, OnlineIsFed, View, Contract!Next, Contract!Start,
            Contract!Stop, Contract!SetReady, Contract!SetNotReady, pathVars, handVars
<1>1. CASE UNCHANGED <<pctx, online, running>>
  BY <1>1
<1>2. CASE Start
  BY <1>2 DEF Start
<1>3. CASE Stop
  BY <1>3 DEF Stop, StopHandler
<1>4. CASE doSourceStaticSetReady
  BY <1>4 DEF doSourceStaticSetReady
<1>5. CASE doSourceStaticSetNotReady
  BY <1>5 DEF doSourceStaticSetNotReady, StopHandler
<1>6. CASE ClosePath
  BY <1>6 DEF ClosePath
<1>7. CASE EndPath
  BY <1>7 DEF EndPath, StopHandler
<1> QED
  BY <1>1, <1>2, <1>3, <1>4, <1>5, <1>6, <1>7
  DEF SourceNext, sourceVars, StopReturns, ReloadConf, InstanceFailed, Recreate, PassSetReady, PassSetNotReady,
      CallAborted, HandlerDone, Drained, Connected, ConnectFailed, StreamLost, AskAborted, TakeReload,
      DropReload, ApplyReload, DropInstanceReload, Terminated

(* The source implements the contract that module Path relies on: Handler  *)
(* never lets a call of an instance reach a path that has stopped it.      *)
THEOREM SourceImplementsContract == SourceSpec => KeepsContract
<1>1. SourceInit => Contract!Init
  BY SourceAssumption DEF SourceInit, Contract!Init, View
<1> QED
  BY <1>1, ContractStep, SourceInvariance, PTL DEF SourceSpec, KeepsContract, Contract!Spec

(***************************************************************************)
(* The stream and its substreams.                                          *)
(***************************************************************************)
SubTypes ==
    /\ always \in BOOLEAN /\ desc \in Descs /\ now \in 0..MaxTime
    /\ sub \in Subs \cup {None}
    /\ sw \in [step : {"idle", "close", "install", "params"}, ss : Subs \cup {None}, todo : SUBSET Fmts]
    /\ offline \in {"none", "running", "stopping"}
    /\ writer \in [Pubs -> {"new", "writing", "done"}]
    /\ written \in 0..MaxUnits /\ units \in [Subs -> [Fmts -> 0..(MaxUnits + 1)]]
    /\ own \in [Subs -> Params \cup {None}]
    /\ offset \in [Fmts -> Nat] /\ last \in [any : BOOLEAN, pts : Nat, sys : 0..MaxTime]
    /\ params \in Params \cup {None} /\ encoder \in [Fmts -> BOOLEAN]

(* The clock of a substream counts units.                                  *)
UnitsAreCounted == \A s \in Subs, f \in Fmts : units[s][f] <= written + 1

(* Where the path's goroutine is in a switch decides which substreams may  *)
(* be written to: the one that is installed is not yet known to anybody.   *)
SwitchIsRight ==
    /\ sw.step = "idle" => sw = Idle
    /\ sw.step # "idle" => /\ sw.ss \in Subs
                           /\ sw.ss \in Pubs => writer[sw.ss] = "new"
                           /\ sw.ss = Offline => offline = "none" /\ always
    /\ sw.step = "close" => always /\ sub = Offline /\ sw.ss \in Pubs
    /\ sw.step = "install" => offline = "none" /\ (always \/ sub = None)
    /\ sw.step = "params" => sub = sw.ss /\ offline = "none"
    /\ sub \in Pubs => offline = "none"
    /\ ~always => offline = "none" /\ sub # Offline

(* last is not ahead of the clock.                                         *)
LastIsPast == last.sys <= now

(* The parameters of the output are those of the current substream, from   *)
(* the first video on that the switch has initialised.                     *)
ParamsAgree ==
    /\ /\ Videos # {} /\ sub # None
       /\ sw.step = "params" /\ always => \E f \in Videos : f \notin sw.todo
       => own[sub] \in {None, params}
    /\ ~always /\ sw.step # "idle" => params = own[sw.ss]

(* Who writes, or is being installed, has been found compatible.           *)
Fits(p, f) == Compatible(<<OrigDesc[f]>>, <<desc[p].medias[f]>>)

WritersFit ==
    \A p \in Pubs : writer[p] = "writing" \/ (sw.step # "idle" /\ sw.ss = p) => \A f \in Fmts : Fits(p, f)

SubInv == SubTypes /\ UnitsAreCounted /\ SwitchIsRight /\ LastIsPast /\ ParamsAgree /\ WritersFit

(* A time of a format that no later unit will be in front of.              *)
Behind(f, t) ==
    /\ t \in Nat
    /\ always => last.any /\ t <= last.pts
    /\ ~always => sub # None /\ sw.step = "idle"
    /\ sub # None /\ ~(sw.step = "params" /\ f \in sw.todo) => t <= units[sub][f] + offset[f]

(* Nobody writes to a substream that is being installed.                   *)
LEMMA WriterIsKnown ==
    ASSUME SubInv, NEW s \in Subs, Writing(s), sub = s
    PROVE  sw.step # "params" /\ (~always => sw.step = "idle")
BY StreamAssumption DEF SubInv, SubTypes, SwitchIsRight, Writing, Subs, Idle

(* The first substream of a stream.                                        *)
LEMMA SubStarts == ASSUME StreamInit PROVE SubInv
<1>1. SubTypes
  <2>1. own \in [Subs -> Params \cup {None}]
    BY StreamAssumption DEF StreamInit, Subs
  <2>2. units \in [Subs -> [Fmts -> 0..(MaxUnits + 1)]]
    BY StreamAssumption DEF StreamInit, Subs, FirstPTS
  <2>3. last \in [any : BOOLEAN, pts : Nat, sys : 0..MaxTime]
    BY StreamAssumption DEF StreamInit
  <2>4. sw \in [step : {"idle", "close", "install", "params"}, ss : Subs \cup {None}, todo : SUBSET Fmts]
    BY DEF StreamInit, Idle
  <2>. QED
    BY <2>1, <2>2, <2>3, <2>4, StreamAssumption DEF StreamInit, SubTypes, Subs
<1>2. UnitsAreCounted
  BY DEF StreamInit, UnitsAreCounted, FirstPTS
<1>3. SwitchIsRight
  BY StreamAssumption DEF StreamInit, SwitchIsRight, Idle, Subs
<1>4. LastIsPast
  BY DEF StreamInit, LastIsPast
<1>5. ParamsAgree
  BY DEF StreamInit, ParamsAgree, Idle, Subs
<1>6. WritersFit
  BY DEF StreamInit, WritersFit, Idle
<1>. QED
  BY <1>1, <1>2, <1>3, <1>4, <1>5, <1>6 DEF SubInv

(* Every stream input.                                                     *)
LEMMA InputIsTyped ==
    ASSUME NEW s \in Subs, NEW f \in Fmts, NEW in \in Inputs(s, f)
    PROVE  /\ in.kind \in {"nil", "bad", "params", "key", "delta"} /\ in.big \in BOOLEAN
           /\ in.carries \in Params \cup {None}
           /\ in.carries # None => in.kind \in {"params", "key"}
           /\ in.kind \in {"params", "key"} => f \in Videos
BY StreamAssumption DEF Inputs

(* A unit with parameters can always be decoded.                           *)
LEMMA ParamsAreDecoded ==
    ASSUME NEW f \in Videos, NEW in, in.kind # "bad"
    PROVE  ~Undecodable(f, in)
<1>1. OrigDesc[f].codec \in Encodable
  BY DEF Videos, HasParams, Encodable
<1>. QED
  BY <1>1 DEF Undecodable

(* What a write does to the stream.                                        *)
LEMMA InnerWrite ==
    ASSUME SubInv, NEW s \in Subs, NEW f \in Fmts, NEW t \in Nat, NEW in,
           in.big \in BOOLEAN, in.carries \in Params \cup {None},
           WriteUnitInner(s, f, t, in)
    PROVE  /\ last' \in [any : BOOLEAN, pts : Nat, sys : 0..MaxTime]
           /\ last'.sys <= now /\ last'.pts >= last.pts /\ (last.any => last'.any)
           /\ always => last'.any /\ last'.pts >= t
           /\ params' \in Params \cup {None} /\ encoder' \in [Fmts -> BOOLEAN]
           /\ in.carries = None => params' = params
           /\ in.carries # None /\ ~Undecodable(f, in) => params' = in.carries
<1>1. last \in [any : BOOLEAN, pts : Nat, sys : 0..MaxTime] /\ last.sys <= now /\ now \in 0..MaxTime
      /\ encoder \in [Fmts -> BOOLEAN] /\ params \in Params \cup {None} /\ always \in BOOLEAN
  BY DEF SubInv, SubTypes, LastIsPast
<1>2. \/ last' = last /\ ~always
      \/ always /\ last' = [any |-> TRUE, pts |-> IF t > last.pts THEN t ELSE last.pts, sys |-> now]
  BY DEF WriteUnitInner, UpdateLastTime
<1>3. /\ last' \in [any : BOOLEAN, pts : Nat, sys : 0..MaxTime]
      /\ last'.sys <= now /\ last'.pts >= last.pts /\ (last.any => last'.any)
      /\ always => last'.any /\ last'.pts >= t
  <2>1. CASE last' = last /\ ~always
    BY <1>1, <2>1
  <2>2. CASE always /\ last' = [any |-> TRUE, pts |-> IF t > last.pts THEN t ELSE last.pts, sys |-> now]
    BY <1>1, <2>2, StreamAssumption
  <2>. QED
    BY <1>2, <2>1, <2>2
<1>4. \/ params' = params /\ encoder' = encoder /\ Undecodable(f, in)
      \/ params' = Updated(in) /\ encoder' = [encoder EXCEPT ![f] = encoder[f] \/ in.big]
  BY DEF WriteUnitInner, Encodes
<1>5. params' \in Params \cup {None} /\ (in.carries = None => params' = params)
      /\ (in.carries # None /\ ~Undecodable(f, in) => params' = in.carries)
  BY <1>1, <1>4 DEF Updated
<1>6. encoder' \in [Fmts -> BOOLEAN]
  BY <1>1, <1>4
<1>. QED
  BY <1>3, <1>5, <1>6

(* A source writes.                                                        *)
LEMMA WriteKeepsSub ==
    ASSUME SubInv, NEW s \in Subs, NEW f \in Fmts, SourceWrites(s, f)
    PROVE  SubInv' /\ \A g \in Fmts : \A t : Behind(g, t) => Behind(g, t)'
<1>1. PICK in \in Inputs(s, f) : /\ WriteUnit(s, f, in)
                                 /\ own' = IF in.carries # None THEN [own EXCEPT ![s] = in.carries] ELSE own
  BY DEF SourceWrites
<1>2. /\ Writing(s) /\ written < MaxUnits /\ written' = written + 1
      /\ units' = [units EXCEPT ![s][f] = @ + 1]
      /\ UNCHANGED <<always, desc, now, sub, sw, offline, writer, offset>>
  BY DEF SourceWrites
<1>3. SubTypes /\ UnitsAreCounted /\ SwitchIsRight /\ LastIsPast /\ ParamsAgree /\ WritersFit
  BY DEF SubInv
<1>4. /\ in.kind \in {"nil", "bad", "params", "key", "delta"} /\ in.big \in BOOLEAN
      /\ in.carries \in Params \cup {None}
      /\ in.carries # None => in.kind \in {"params", "key"}
      /\ in.kind \in {"params", "key"} => f \in Videos
  BY <1>1, InputIsTyped
<1>5. units[s][f] \in Nat /\ units[s][f] <= written + 1 /\ offset[f] \in Nat /\ units[s][f] + offset[f] \in Nat
      /\ written \in Nat
  BY <1>3, StreamAssumption DEF SubTypes, UnitsAreCounted
<1>6. /\ last' \in [any : BOOLEAN, pts : Nat, sys : 0..MaxTime]
      /\ last'.sys <= now /\ last'.pts >= last.pts /\ (last.any => last'.any)
      /\ params' \in Params \cup {None} /\ encoder' \in [Fmts -> BOOLEAN]
      /\ sub # s => params' = params
      /\ sub = s /\ in.carries = None => params' = params
      /\ sub = s /\ in.carries # None => params' = in.carries
  <2>1. CASE sub # s
    BY <1>1, <1>3, <2>1 DEF WriteUnit, SubTypes, LastIsPast
  <2>2. CASE sub = s
    <3>1. WriteUnitInner(s, f, units[s][f] + offset[f], in)
      BY <1>1, <2>2 DEF WriteUnit
    <3>2. in.carries # None => ~Undecodable(f, in)
      BY <1>4, ParamsAreDecoded
    <3>. QED
      BY <1>4, <1>5, <2>2, <3>1, <3>2, InnerWrite
  <2>. QED
    BY <2>1, <2>2
<1>7. \A q \in Subs, g \in Fmts : units'[q][g] = IF q = s /\ g = f THEN units[q][g] + 1 ELSE units[q][g]
  BY <1>2, <1>3 DEF SubTypes
<1>8. SubTypes'
  <2>1. own' \in [Subs -> Params \cup {None}]
    BY <1>1, <1>3, <1>4 DEF SubTypes
  <2>2. units' \in [Subs -> [Fmts -> 0..(MaxUnits + 1)]]
    <3>1. units[s][f] + 1 \in 0..(MaxUnits + 1)
      BY <1>2, <1>5, StreamAssumption
    <3>. QED
      BY <1>2, <1>3, <3>1 DEF SubTypes
  <2>3. written' \in 0..MaxUnits
    BY <1>2, <1>5, StreamAssumption
  <2>. QED
    BY <1>2, <1>3, <1>6, <2>1, <2>2, <2>3 DEF SubTypes
<1>9. UnitsAreCounted'
  <2>1. \A q \in Subs, g \in Fmts : units[q][g] \in Nat
    BY <1>3, StreamAssumption DEF SubTypes
  <2>. QED
    BY <1>2, <1>3, <1>5, <1>7, <2>1 DEF UnitsAreCounted
<1>10. SwitchIsRight' /\ LastIsPast' /\ WritersFit'
  BY <1>2, <1>3, <1>6 DEF SwitchIsRight, LastIsPast, WritersFit, Fits
<1>11. ParamsAgree'
  <2>1. sw.step # "idle" => sw.ss # s
    BY <1>2, <1>3, StreamAssumption DEF SwitchIsRight, Writing, Subs
  <2>2. own'[s] = (IF in.carries # None THEN in.carries ELSE own[s]) /\ \A q \in Subs \ {s} : own'[q] = own[q]
    BY <1>1, <1>3 DEF SubTypes
  <2>3. ~always /\ sw.step # "idle" => params = own[sw.ss] /\ own'[sw.ss] = own[sw.ss] /\ params' = params
    <3>1. sw.step # "idle" => sw.ss \in Subs
      BY <1>3 DEF SwitchIsRight
    <3>2. ~always /\ sw.step # "idle" => sub # s
      BY <1>2, WriterIsKnown
    <3>. QED
      BY <1>3, <1>6, <2>1, <2>2, <3>1, <3>2 DEF ParamsAgree
  <2>4. sub # None /\ own[sub] \in {None, params} => own'[sub] \in {None, params'}
    BY <1>3, <1>6, <2>2 DEF SubTypes
  <2>. QED
    BY <1>2, <1>3, <2>3, <2>4 DEF ParamsAgree
<1>12. ASSUME NEW g \in Fmts, NEW t, Behind(g, t) PROVE Behind(g, t)'
  <2>1. sub # None => units'[sub][g] >= units[sub][g] /\ units[sub][g] \in Nat /\ units'[sub][g] \in Nat
    BY <1>3, <1>7, StreamAssumption DEF SubTypes
  <2>2. offset[g] \in Nat /\ t \in Nat /\ last.pts \in Nat /\ last'.pts \in Nat
    BY <1>3, <1>6, <1>12 DEF SubTypes, Behind
  <2>. QED
    BY <1>2, <1>6, <1>12, <2>1, <2>2 DEF Behind
<1>. QED
  BY <1>8, <1>9, <1>10, <1>11, <1>12 DEF SubInv

(* The medias of a publisher that is compatible are, one by one.           *)
LEMMA CompatibleFits ==
    ASSUME NEW p \in Pubs, Compatible(OrigDesc, desc[p].medias) \/ desc[p].medias = OrigDesc, NEW f \in Fmts
    PROVE  Fits(p, f)
<1>1. /\ OrigDesc[f].codec = desc[p].medias[f].codec
      /\ OrigDesc[f].codec = "MPEG4Audio" => OrigDesc[f].config = desc[p].medias[f].config
      /\ OrigDesc[f].codec \in {"G711", "LPCM"} =>
           /\ OrigDesc[f].rate = desc[p].medias[f].rate /\ OrigDesc[f].ch = desc[p].medias[f].ch
           /\ OrigDesc[f].depth = desc[p].medias[f].depth
  BY DEF Compatible, Fmts
<1>. QED
  BY <1>1 DEF Fits, Compatible

(* A publisher comes.                                                      *)
LEMMA OnlineKeepsSub ==
    ASSUME SubInv, NEW p \in Pubs, GoOnline(p)
    PROVE  SubInv' /\ \A g \in Fmts : \A t : Behind(g, t) => Behind(g, t)'
<1>1. /\ sw = Idle /\ writer[p] = "new"
      /\ always => sub = Offline
      /\ ~always => sub = None
      /\ Compatible(OrigDesc, desc[p].medias) \/ desc[p].medias = OrigDesc
      /\ sw' = [step |-> IF always THEN "close" ELSE "install", ss |-> p, todo |-> {}]
      /\ offline' = IF always THEN "stopping" ELSE offline
      /\ encoder' = [f \in Fmts |-> EncoderOf(p, f)]
      /\ params' = IF always THEN params ELSE own[p]
      /\ UNCHANGED <<always, desc, now, sub, writer, written, units, own, offset, last>>
  BY DEF GoOnline
<1>2. SubTypes /\ UnitsAreCounted /\ SwitchIsRight /\ LastIsPast /\ ParamsAgree /\ WritersFit
  BY DEF SubInv
<1>3. sw'.step = (IF always THEN "close" ELSE "install") /\ sw'.ss = p /\ sw'.todo = {} /\ p \in Subs /\ p # Offline
      /\ None \notin Subs
  BY <1>1, StreamAssumption DEF Subs
<1>4. SubTypes'
  <2>1. encoder' \in [Fmts -> BOOLEAN]
    BY <1>1, <1>2 DEF SubTypes, EncoderOf
  <2>2. sw' \in [step : {"idle", "close", "install", "params"}, ss : Subs \cup {None}, todo : SUBSET Fmts]
    BY <1>1, <1>3
  <2>3. params' \in Params \cup {None}
    BY <1>1, <1>2, <1>3 DEF SubTypes
  <2>. QED
    BY <1>1, <1>2, <2>1, <2>2, <2>3 DEF SubTypes
<1>5. UnitsAreCounted' /\ LastIsPast'
  BY <1>1, <1>2 DEF UnitsAreCounted, LastIsPast
<1>6. SwitchIsRight'
  <2>1. always \in BOOLEAN
    BY <1>2 DEF SubTypes
  <2>. QED
    BY <1>1, <1>2, <1>3, <2>1, StreamAssumption DEF SwitchIsRight
<1>7. ParamsAgree'
  BY <1>1, <1>2, <1>3 DEF ParamsAgree, Idle
<1>8. WritersFit'
  <2>1. \A f \in Fmts : Fits(p, f)
    BY <1>1, CompatibleFits
  <2>. QED
    BY <1>1, <1>2, <1>3, <2>1 DEF WritersFit, Fits
<1>9. ASSUME NEW g \in Fmts, NEW t, Behind(g, t) PROVE Behind(g, t)'
  BY <1>1, <1>3, <1>9 DEF Behind, Idle
<1>. QED
  BY <1>4, <1>5, <1>6, <1>7, <1>8, <1>9 DEF SubInv

(* The current substream is replaced: the times of all formats are open.   *)
LEMMA InstallKeepsSub ==
    ASSUME SubInv, Install
    PROVE  SubInv' /\ \A g \in Fmts : \A t : Behind(g, t) => Behind(g, t)'
<1>1. /\ sw.step = "install" /\ sub' = sw.ss
      /\ sw' = [sw EXCEPT !.step = "params", !.todo = Fmts]
      /\ UNCHANGED <<always, desc, now, offline, writer, written, units, own, offset, last, params, encoder>>
  BY DEF Install
<1>2. SubTypes /\ UnitsAreCounted /\ SwitchIsRight /\ LastIsPast /\ ParamsAgree /\ WritersFit
  BY DEF SubInv
<1>3. sw' = [step |-> "params", ss |-> sw.ss, todo |-> Fmts]
  BY <1>1, <1>2 DEF SubTypes
<1>4. sw'.step = "params" /\ sw'.ss = sw.ss /\ sw'.todo = Fmts /\ sw.ss \in Subs
  BY <1>1, <1>2, <1>3 DEF SwitchIsRight
<1>5. SubTypes'
  BY <1>1, <1>2, <1>3, <1>4 DEF SubTypes
<1>6. UnitsAreCounted' /\ LastIsPast'
  BY <1>1, <1>2 DEF UnitsAreCounted, LastIsPast
<1>7. SwitchIsRight'
  BY <1>1, <1>2, <1>4 DEF SwitchIsRight
<1>8. ParamsAgree'
  BY <1>1, <1>2, <1>4 DEF ParamsAgree, Videos
<1>9. WritersFit'
  BY <1>1, <1>2, <1>4 DEF WritersFit, Fits
<1>10. ASSUME NEW g \in Fmts, NEW t, Behind(g, t) PROVE Behind(g, t)'
  BY <1>1, <1>4, <1>10 DEF Behind
<1>. QED
  BY <1>5, <1>6, <1>7, <1>8, <1>9, <1>10 DEF SubInv

(* The other steps of a switch, refusals, and the clock.                   *)
LEMMA OtherStepsKeepSub ==
    ASSUME SubInv, Tick \/ OfflineClosed \/ GoOffline \/ Switched \/ \E p \in Pubs : Refused(p)
    PROVE  SubInv' /\ \A g \in Fmts : \A t : Behind(g, t) => Behind(g, t)'
<1>0. SubTypes /\ UnitsAreCounted /\ SwitchIsRight /\ LastIsPast /\ ParamsAgree /\ WritersFit
  BY DEF SubInv
<1>1. CASE Tick
  <2>1. SubTypes' /\ LastIsPast'
    BY <1>0, <1>1, StreamAssumption DEF Tick, SubTypes, LastIsPast
  <2>2. UnitsAreCounted' /\ SwitchIsRight' /\ ParamsAgree' /\ WritersFit'
    BY <1>0, <1>1 DEF Tick, UnitsAreCounted, SwitchIsRight, ParamsAgree, WritersFit, Fits
  <2>. QED
    BY <1>1, <2>1, <2>2 DEF SubInv, Tick, Behind
<1>2. CASE OfflineClosed
  <2>1. /\ sw.step = "close" /\ offline' = "none" /\ sw' = [sw EXCEPT !.step = "install"]
        /\ UNCHANGED <<always, desc, now, sub, writer, written, units, own, offset, last, params, encoder>>
    BY <1>2 DEF OfflineClosed
  <2>2. sw' = [step |-> "install", ss |-> sw.ss, todo |-> sw.todo]
    BY <1>0, <2>1 DEF SubTypes
  <2>3. sw'.step = "install" /\ sw'.ss = sw.ss /\ sw'.todo = sw.todo
    BY <2>2
  <2>4. SubTypes' /\ LastIsPast' /\ UnitsAreCounted'
    BY <1>0, <2>1, <2>2, <2>3 DEF SubTypes, LastIsPast, UnitsAreCounted
  <2>5. SwitchIsRight' /\ ParamsAgree' /\ WritersFit'
    BY <1>0, <2>1, <2>3 DEF SwitchIsRight, ParamsAgree, WritersFit, Fits
  <2>. QED
    BY <2>1, <2>3, <2>4, <2>5 DEF SubInv, Behind
<1>3. CASE GoOffline
  <2>1. /\ sw = Idle /\ always /\ sub \in Pubs
        /\ sw' = [step |-> "install", ss |-> Offline, todo |-> {}]
        /\ units' = [units EXCEPT ![Offline] = [f \in Fmts |-> 0]]
        /\ UNCHANGED <<always, desc, now, sub, offline, writer, written, own, offset, last, params, encoder>>
    BY <1>3 DEF GoOffline
  <2>2. sw'.step = "install" /\ sw'.ss = Offline /\ sw'.todo = {} /\ Offline \in Subs /\ Offline \notin Pubs
        /\ sub \in Subs /\ None \notin Subs
    BY <2>1, StreamAssumption DEF Subs
  <2>3. units' \in [Subs -> [Fmts -> 0..(MaxUnits + 1)]]
        /\ \A q \in Subs, f \in Fmts : units'[q][f] = units[q][f] \/ units'[q][f] = 0
    BY <1>0, <2>1, <2>2, StreamAssumption DEF SubTypes
  <2>4. \A f \in Fmts : units'[sub][f] = units[sub][f]
    BY <1>0, <2>1, <2>2 DEF SubTypes
  <2>5. SubTypes'
    BY <1>0, <2>1, <2>2, <2>3 DEF SubTypes
  <2>6. LastIsPast' /\ UnitsAreCounted'
    <3>1. written \in Nat
      BY <1>0, StreamAssumption DEF SubTypes
    <3>. QED
      BY <1>0, <2>1, <2>3, <3>1 DEF LastIsPast, UnitsAreCounted
  <2>7. SwitchIsRight' /\ ParamsAgree' /\ WritersFit'
    BY <1>0, <2>1, <2>2 DEF SwitchIsRight, ParamsAgree, WritersFit, Fits, Idle
  <2>. QED
    BY <2>1, <2>2, <2>4, <2>5, <2>6, <2>7 DEF SubInv, Behind, Idle
<1>4. CASE Switched
  <2>1. /\ sw.step = "params" /\ sw.todo = {} /\ sw' = Idle
        /\ \/ sw.ss = Offline /\ offline' = "running" /\ writer' = writer
           \/ sw.ss # Offline /\ offline' = offline /\ writer' = [writer EXCEPT ![sw.ss] = "writing"]
        /\ UNCHANGED <<always, desc, now, sub, written, units, own, offset, last, params, encoder>>
    BY <1>4 DEF Switched
  <2>2. sw'.step = "idle" /\ sw'.ss = None /\ sw'.todo = {} /\ None \notin Subs /\ Offline \notin Pubs /\ Offline \in Subs
    BY <2>1, StreamAssumption DEF Idle, Subs
  <2>3. sw.ss \in Subs /\ (sw.ss # Offline => sw.ss \in Pubs)
    BY <1>0, <2>1 DEF SwitchIsRight, Subs
  <2>4. /\ writer' \in [Pubs -> {"new", "writing", "done"}]
        /\ \A p \in Pubs : writer'[p] = writer[p] \/ p = sw.ss
    BY <1>0, <2>1, <2>3 DEF SubTypes
  <2>5. SubTypes'
    BY <1>0, <2>1, <2>4 DEF SubTypes, Idle
  <2>6. LastIsPast' /\ UnitsAreCounted'
    BY <1>0, <2>1 DEF LastIsPast, UnitsAreCounted
  <2>7. SwitchIsRight'
    BY <1>0, <2>1, <2>2, <2>3 DEF SwitchIsRight
  <2>8. ParamsAgree'
    BY <1>0, <2>1, <2>2 DEF ParamsAgree
  <2>9. WritersFit'
    BY <1>0, <2>1, <2>2, <2>4 DEF WritersFit, Fits
  <2>. QED
    BY <2>1, <2>2, <2>5, <2>6, <2>7, <2>8, <2>9 DEF SubInv, Behind
<1>5. ASSUME NEW p \in Pubs, Refused(p) PROVE SubInv' /\ \A g \in Fmts : \A t : Behind(g, t) => Behind(g, t)'
  <2>1. /\ sw = Idle /\ writer' = [writer EXCEPT ![p] = "done"]
        /\ UNCHANGED <<always, desc, now, sub, sw, offline, written, units, own, offset, last, params, encoder>>
    BY <1>5 DEF Refused
  <2>2. writer' \in [Pubs -> {"new", "writing", "done"}] /\ \A q \in Pubs : writer'[q] = writer[q] \/ writer'[q] = "done"
    BY <1>0, <2>1 DEF SubTypes
  <2>3. SubTypes' /\ LastIsPast' /\ UnitsAreCounted'
    BY <1>0, <2>1, <2>2 DEF SubTypes, LastIsPast, UnitsAreCounted
  <2>4. SwitchIsRight' /\ ParamsAgree' /\ WritersFit'
    BY <1>0, <2>1, <2>2 DEF SwitchIsRight, ParamsAgree, WritersFit, Fits, Idle
  <2>. QED
    BY <2>1, <2>3, <2>4 DEF SubInv, Behind
<1>. QED
  BY <1>1, <1>2, <1>3, <1>4, <1>5

(* A format of the new substream begins after all that was written.        *)
LEMMA InitializeKeepsSub ==
    ASSUME SubInv, NEW f \in Fmts, InitializeFormat(f)
    PROVE  SubInv' /\ \A g \in Fmts : \A t : Behind(g, t) => Behind(g, t)'
<1>0. SubTypes /\ UnitsAreCounted /\ SwitchIsRight /\ LastIsPast /\ ParamsAgree /\ WritersFit
  BY DEF SubInv
<1>1. /\ sw.step = "params" /\ f \in sw.todo /\ sw' = [sw EXCEPT !.todo = @ \ {f}]
      /\ UNCHANGED <<always, desc, now, sub, offline, writer, written, units, own>>
      /\ IF always THEN Initialize2(f) ELSE UNCHANGED <<offset, last, params, encoder, queue>>
  BY DEF InitializeFormat
<1>2. sw' = [step |-> "params", ss |-> sw.ss, todo |-> sw.todo \ {f}]
  BY <1>0, <1>1 DEF SubTypes
<1>3. sw'.step = "params" /\ sw'.ss = sw.ss /\ sw'.todo = sw.todo \ {f} /\ sw.ss \in Subs /\ sub = sw.ss
  BY <1>0, <1>1, <1>2 DEF SwitchIsRight
<1>. DEFINE x == IF last.any THEN last.pts + (now - last.sys) ELSE offset[f]
            in == [kind |-> "params", carries |-> own[sw.ss], big |-> FALSE]
<1>4. x \in Nat /\ (last.any => x >= last.pts)
  BY <1>0, StreamAssumption DEF SubTypes, LastIsPast
<1>5. always => /\ offset' = [offset EXCEPT ![f] = x]
                /\ \/ f \in Videos /\ own[sw.ss] # None /\ WriteUnitInner(sw.ss, f, x, in)
                   \/ ~(f \in Videos /\ own[sw.ss] # None) /\ UNCHANGED <<last, params, encoder, queue>>
  BY <1>0, <1>1 DEF Initialize2, SubTypes
<1>6. in.big \in BOOLEAN /\ in.carries = own[sw.ss] /\ in.kind = "params" /\ own[sw.ss] \in Params \cup {None}
  BY <1>0, <1>3 DEF SubTypes
<1>. HIDE DEF x, in
<1>7. /\ last' \in [any : BOOLEAN, pts : Nat, sys : 0..MaxTime]
      /\ last'.sys <= now /\ last'.pts >= last.pts /\ (last.any => last'.any)
      /\ params' \in Params \cup {None} /\ encoder' \in [Fmts -> BOOLEAN]
      /\ f \in Videos /\ own[sw.ss] # None /\ always => params' = own[sw.ss]
      /\ ~(f \in Videos /\ own[sw.ss] # None /\ always) => params' = params
  <2>1. CASE always /\ f \in Videos /\ own[sw.ss] # None
    <3>1. WriteUnitInner(sw.ss, f, x, in) /\ ~Undecodable(f, in)
      BY <1>5, <1>6, <2>1, ParamsAreDecoded
    <3>. QED
      BY <1>3, <1>4, <1>6, <2>1, <3>1, InnerWrite
  <2>2. CASE ~(always /\ f \in Videos /\ own[sw.ss] # None)
    <3>1. UNCHANGED <<last, params, encoder>>
      BY <1>1, <1>5, <2>2
    <3>. QED
      BY <1>0, <2>2, <3>1 DEF SubTypes, LastIsPast
  <2>. QED
    BY <2>1, <2>2
<1>8. offset' \in [Fmts -> Nat] /\ (always => offset'[f] = x) /\ \A g \in Fmts \ {f} : offset'[g] = offset[g]
  <2>1. offset \in [Fmts -> Nat]
    BY <1>0 DEF SubTypes
  <2>2. CASE always
    BY <1>4, <1>5, <2>1, <2>2
  <2>3. CASE ~always
    BY <1>1, <2>1, <2>3
  <2>. QED
    BY <2>2, <2>3
<1>9. SubTypes'
  BY <1>0, <1>1, <1>2, <1>7, <1>8 DEF SubTypes
<1>10. UnitsAreCounted' /\ LastIsPast' /\ SwitchIsRight' /\ WritersFit'
  BY <1>0, <1>1, <1>3, <1>7 DEF UnitsAreCounted, LastIsPast, SwitchIsRight, WritersFit, Fits
<1>11. ParamsAgree'
  <2>1. own' = own /\ sub' = sub /\ always' = always
    BY <1>1
  <2>2. CASE always
    <3>1. CASE f \in Videos
      BY <1>3, <1>7, <2>1, <2>2, <3>1 DEF ParamsAgree
    <3>2. CASE f \notin Videos
      BY <1>0, <1>3, <1>7, <2>1, <2>2, <3>2 DEF ParamsAgree
    <3>. QED
      BY <3>1, <3>2
  <2>3. CASE ~always
    BY <1>0, <1>1, <1>3, <1>7, <2>1, <2>3 DEF ParamsAgree
  <2>. QED
    BY <2>2, <2>3
<1>12. ASSUME NEW g \in Fmts, NEW t, Behind(g, t) PROVE Behind(g, t)'
  <2>1. always /\ last.any /\ t <= last.pts /\ t \in Nat
    BY <1>1, <1>12 DEF Behind
  <2>2. last.pts \in Nat /\ last'.pts \in Nat /\ units[sub][g] \in Nat /\ offset[g] \in Nat
    BY <1>0, <1>3, <1>7, StreamAssumption DEF SubTypes
  <2>3. CASE g = f
    BY <1>1, <1>3, <1>4, <1>7, <1>8, <2>1, <2>2, <2>3 DEF Behind
  <2>4. CASE g # f
    BY <1>1, <1>3, <1>7, <1>8, <1>12, <2>1, <2>2, <2>4 DEF Behind
  <2>. QED
    BY <2>3, <2>4
<1>. QED
  BY <1>9, <1>10, <1>11, <1>12 DEF SubInv

-----------------------------------------------------------------------------
(* Units, and those that are written.                                      *)
Usable(u) ==
    /\ ~u.big
    /\ u.kind = "key" => u.want \in {None, u.params}
    /\ u.from \in Pubs => Fits(u.from, u.fmt)

(* The times that are behind, and the units that are usable.               *)
Past == [f \in Fmts |-> {t \in Nat : Behind(f, t)}]
UsableUnits == {u \in Unit : Usable(u)}

IsNext(u) ==
    /\ u \in UsableUnits
    /\ \A t \in Past[u.fmt] : t <= u.pts
    /\ u.pts \in Past'[u.fmt]

(* Nothing that is behind comes in front again.                            *)
LEMMA PastGrows ==
    ASSUME \A g \in Fmts : \A t : Behind(g, t) => Behind(g, t)'
    PROVE  \A g \in Fmts : Past[g] \subseteq Past'[g]
BY DEF Past

(* A unit that is pushed.                                                  *)
LEMMA RemuxedIsTyped ==
    ASSUME SubInv, NEW s \in Subs, NEW f \in Fmts, NEW t \in Nat, NEW in,
           in.kind \in {"nil", "params", "key", "delta"}, in.big \in BOOLEAN,
           in.carries \in Params \cup {None},
           s \in Pubs => Fits(s, f),
           in.kind = "key" /\ in.carries = None => own[s] \in {None, params}
    PROVE  LET u == Remuxed(s, f, t, in) IN u \in Unit /\ Usable(u) /\ u.fmt = f /\ u.pts = t
<1>. DEFINE u == Remuxed(s, f, t, in)
<1>0. encoder \in [Fmts -> BOOLEAN] /\ own[s] \in Params \cup {None} /\ params \in Params \cup {None}
  BY DEF SubInv, SubTypes
<1>1. /\ u = [from |-> s, fmt |-> f, pts |-> t, big |-> u.big, kind |-> u.kind, params |-> u.params, want |-> u.want]
      /\ u.big = (in.big /\ ~(encoder[f] \/ in.big))
      /\ u.kind = (IF in.kind = "params" THEN "nil" ELSE in.kind)
      /\ u.params = (IF in.kind = "key" THEN Updated(in) ELSE None)
      /\ u.want = (IF in.carries = None THEN own[s] ELSE in.carries)
  BY DEF Remuxed, Encodes
<1>. HIDE DEF u
<1>2. u.from = s /\ u.fmt = f /\ u.pts = t
  BY <1>1
<1>3. ~u.big /\ u.big \in BOOLEAN
  BY <1>0, <1>1
<1>4. u.kind \in {"nil", "key", "delta"} /\ u.params \in Params \cup {None} /\ u.want \in Params \cup {None}
  BY <1>0, <1>1 DEF Updated
<1>5. u.kind = "key" => u.want \in {None, u.params}
  BY <1>1 DEF Updated
<1>6. u \in Unit
  <2>1. u = [from |-> s, fmt |-> f, pts |-> t, big |-> u.big, kind |-> u.kind, params |-> u.params, want |-> u.want]
    BY <1>1
  <2>2. ASSUME NEW b \in BOOLEAN, NEW k \in {"nil", "key", "delta"}, NEW ps \in Params \cup {None}, NEW w \in Params \cup {None}
        PROVE  [from |-> s, fmt |-> f, pts |-> t, big |-> b, kind |-> k, params |-> ps, want |-> w] \in Unit
    BY DEF Unit
  <2>. HIDE DEF Unit
  <2>. QED
    BY <1>3, <1>4, <2>1, <2>2
<1>7. Usable(u)
  BY <1>2, <1>3, <1>5 DEF Usable
<1>. QED
  BY <1>2, <1>6, <1>7 DEF u

(* What a source writes is not behind, and what follows is not behind it.  *)
LEMMA SourceWritesNext ==
    ASSUME SubInv, NEW s \in Subs, NEW f \in Fmts, SourceWrites(s, f)
    PROVE  queue' = queue \/ \E u : PushAll(u) /\ IsNext(u)
<1>0. SubTypes /\ UnitsAreCounted /\ SwitchIsRight /\ LastIsPast /\ ParamsAgree /\ WritersFit
  BY DEF SubInv
<1>1. PICK in \in Inputs(s, f) : WriteUnit(s, f, in)
  BY DEF SourceWrites
<1>2. /\ Writing(s) /\ units' = [units EXCEPT ![s][f] = @ + 1]
      /\ UNCHANGED <<always, sub, sw, offset>>
  BY DEF SourceWrites
<1>3. /\ in.kind \in {"nil", "bad", "params", "key", "delta"} /\ in.big \in BOOLEAN
      /\ in.carries \in Params \cup {None}
      /\ in.kind \in {"params", "key"} => f \in Videos
  BY <1>1, InputIsTyped
<1>a. PICK t : t = units[s][f] + offset[f]
  OBVIOUS
<1>4. t \in Nat /\ units[s][f] \in Nat /\ offset[f] \in Nat
  BY <1>0, <1>a, StreamAssumption DEF SubTypes
<1>b. PICK u : u = Remuxed(s, f, t, in)
  OBVIOUS
<1>5. SUFFICES ASSUME sub = s, ~Undecodable(f, in) PROVE PushAll(u) /\ IsNext(u)
  BY <1>1 DEF WriteUnit, WriteUnitInner
<1>6. WriteUnitInner(s, f, t, in) /\ PushAll(u)
  BY <1>1, <1>5, <1>a, <1>b DEF WriteUnit, WriteUnitInner
<1>7. sw.step # "params" /\ (~always => sw.step = "idle") /\ sub # None
  BY <1>2, <1>5, WriterIsKnown, StreamAssumption
<1>8. in.kind # "bad" /\ in.kind \in {"nil", "params", "key", "delta"}
  BY <1>3, <1>5 DEF Undecodable
<1>9. s \in Pubs => Fits(s, f)
  BY <1>0, <1>2, StreamAssumption DEF WritersFit, Writing
<1>10. in.kind = "key" => own[s] \in {None, params}
  BY <1>0, <1>3, <1>5, <1>7 DEF ParamsAgree
<1>11. u \in Unit /\ Usable(u) /\ u.fmt = f /\ u.pts = t
  BY <1>3, <1>4, <1>8, <1>9, <1>10, <1>b, RemuxedIsTyped
<1>12. \A q : Behind(f, q) => q <= t
  BY <1>5, <1>7, <1>a DEF Behind
<1>13. Behind(f, t)'
  <2>1. (always => last'.any /\ last'.pts >= t) /\ last'.pts \in Nat
    BY <1>3, <1>4, <1>6, InnerWrite
  <2>2. units'[sub'][f] = units[s][f] + 1 /\ offset'[f] = offset[f]
    BY <1>0, <1>2, <1>5 DEF SubTypes
  <2>. QED
    BY <1>2, <1>4, <1>5, <1>7, <1>a, <2>1, <2>2 DEF Behind
<1>14. u \in UsableUnits /\ (\A q \in Past[f] : q <= t) /\ t \in Past'[f]
  BY <1>4, <1>11, <1>12, <1>13 DEF UsableUnits, Past
<1>. QED
  BY <1>6, <1>11, <1>14 DEF IsNext

(* So are the parameters of a new substream, which are written without the *)
(* mutex.                                                                  *)
LEMMA InitializeWritesNext ==
    ASSUME SubInv, NEW f \in Fmts, InitializeFormat(f)
    PROVE  queue' = queue \/ \E u : PushAll(u) /\ IsNext(u)
<1>0. SubTypes /\ UnitsAreCounted /\ SwitchIsRight /\ LastIsPast /\ ParamsAgree /\ WritersFit
  BY DEF SubInv
<1>1. /\ sw.step = "params" /\ f \in sw.todo /\ sw' = [sw EXCEPT !.todo = @ \ {f}]
      /\ UNCHANGED <<always, sub, units>>
      /\ IF always THEN Initialize2(f) ELSE queue' = queue
  BY DEF InitializeFormat
<1>2. sub = sw.ss /\ sw.ss \in Subs /\ own[sw.ss] \in Params \cup {None} /\ sw'.step = "params"
  BY <1>0, <1>1 DEF SwitchIsRight, SubTypes
<1>a. PICK x : x = IF last.any THEN last.pts + (now - last.sys) ELSE offset[f]
  OBVIOUS
<1>b. PICK in : in = [kind |-> "params", carries |-> own[sw.ss], big |-> FALSE]
  OBVIOUS
<1>c. PICK u : u = Remuxed(sw.ss, f, x, in)
  OBVIOUS
<1>3. x \in Nat /\ (last.any => x >= last.pts) /\ last.pts \in Nat
  BY <1>0, <1>a, StreamAssumption DEF SubTypes, LastIsPast
<1>4. SUFFICES ASSUME always, f \in Videos, own[sw.ss] # None PROVE PushAll(u) /\ IsNext(u)
  BY <1>1 DEF Initialize2
<1>5. offset' = [offset EXCEPT ![f] = x] /\ WriteUnitInner(sw.ss, f, x, in)
  BY <1>0, <1>1, <1>4, <1>a, <1>b DEF Initialize2, SubTypes
<1>6. in.kind = "params" /\ in.big \in BOOLEAN /\ in.carries = own[sw.ss] /\ ~Undecodable(f, in)
  BY <1>4, <1>b, ParamsAreDecoded
<1>7. PushAll(u)
  BY <1>5, <1>6, <1>c DEF WriteUnitInner
<1>8. sw.ss \in Pubs => Fits(sw.ss, f)
  BY <1>0, <1>1 DEF WritersFit
<1>9. u \in Unit /\ Usable(u) /\ u.fmt = f /\ u.pts = x
  BY <1>2, <1>3, <1>6, <1>8, <1>c, RemuxedIsTyped
<1>10. \A q : Behind(f, q) => q <= x
  BY <1>3, <1>4 DEF Behind
<1>11. Behind(f, x)'
  <2>1. last'.any /\ last'.pts >= x /\ last'.pts \in Nat
    BY <1>2, <1>3, <1>4, <1>5, <1>6, InnerWrite
  <2>2. offset'[f] = x /\ units'[sub'][f] \in Nat
    BY <1>0, <1>1, <1>2, <1>3, <1>5, StreamAssumption DEF SubTypes
  <2>. QED
    BY <1>1, <1>3, <1>4, <2>1, <2>2 DEF Behind
<1>12. u \in UsableUnits /\ (\A q \in Past[f] : q <= x) /\ x \in Past'[f]
  BY <1>3, <1>9, <1>10, <1>11 DEF UsableUnits, Past
<1>. QED
  BY <1>7, <1>9, <1>12 DEF IsNext

-----------------------------------------------------------------------------
(* Readers: what is in the queue and in the callback of a reader, and what *)
(* the callback has taken, in the order of time.                           *)
TrackState == [started : BOOLEAN, pts : Nat, first : {"none", "key", "delta"}]

InPlace(q, c, tr, past) ==
    /\ \A i \in DOMAIN q : q[i].pts \in past[q[i].fmt]
    /\ \A i, j \in DOMAIN q : i < j /\ q[i].fmt = q[j].fmt => q[i].pts <= q[j].pts
    /\ c # None => /\ c.pts \in past[c.fmt]
                   /\ \A i \in DOMAIN q : q[i].fmt = c.fmt => c.pts <= q[i].pts
    /\ \A f \in Fmts : tr[f].started =>
         /\ tr[f].pts \in past[f]
         /\ \A i \in DOMAIN q : q[i].fmt = f => tr[f].pts <= q[i].pts
         /\ c # None /\ c.fmt = f => tr[f].pts <= c.pts

(* The units of a queue.                                                   *)
LEMMA QueuedUnits ==
    ASSUME NEW q \in Seq(Unit)
    PROVE  \A i \in DOMAIN q : q[i] \in Unit /\ q[i].fmt \in Fmts /\ q[i].pts \in Nat
<1>1. ASSUME NEW u \in Unit PROVE u.fmt \in Fmts /\ u.pts \in Nat
  BY DEF Unit
<1>2. \A i \in DOMAIN q : q[i] \in Unit
  OBVIOUS
<1>. QED
  BY <1>1, <1>2

(* Time passes.                                                            *)
LEMMA InPlaceLater ==
    ASSUME NEW q \in Seq(Unit), NEW c \in Unit \cup {None}, NEW tr, NEW past, NEW past2,
           InPlace(q, c, tr, past), \A g \in Fmts : past[g] \subseteq past2[g]
    PROVE  InPlace(q, c, tr, past2)
<1>1. \A i \in DOMAIN q : q[i].fmt \in Fmts
  BY QueuedUnits
<1>2. c # None => c.fmt \in Fmts
  BY DEF Unit
<1>. QED
  BY <1>1, <1>2 DEF InPlace

(* A unit is pushed.                                                       *)
LEMMA InPlacePushed ==
    ASSUME NEW q \in Seq(Unit), NEW c \in Unit \cup {None}, NEW tr, NEW past, NEW past2, NEW u \in Unit,
           InPlace(q, c, tr, past), \A g \in Fmts : past[g] \subseteq past2[g],
           \A t \in past[u.fmt] : t <= u.pts, u.pts \in past2[u.fmt]
    PROVE  InPlace(Append(q, u), c, tr, past2)
<1>. DEFINE m == Append(q, u)
<1>1. /\ DOMAIN m = 1..(Len(q) + 1) /\ DOMAIN q = 1..Len(q) /\ Len(q) \in Nat
      /\ m[Len(q) + 1] = u /\ \A i \in DOMAIN q : m[i] = q[i]
  OBVIOUS
<1>. HIDE DEF m
<1>2. \A i \in DOMAIN m : (i \in DOMAIN q /\ m[i] = q[i]) \/ (i = Len(q) + 1 /\ m[i] = u)
  BY <1>1
<1>3. \A i \in DOMAIN q : q[i].fmt \in Fmts
  BY QueuedUnits
<1>4. c # None => c.fmt \in Fmts
  BY DEF Unit
<1>5. \A i \in DOMAIN m : m[i].pts \in past2[m[i].fmt]
  BY <1>2, <1>3 DEF InPlace
<1>6. \A i, j \in DOMAIN m : i < j /\ m[i].fmt = m[j].fmt => m[i].pts <= m[j].pts
  BY <1>1, <1>2 DEF InPlace
<1>7. c # None => c.pts \in past2[c.fmt] /\ \A i \in DOMAIN m : m[i].fmt = c.fmt => c.pts <= m[i].pts
  BY <1>2, <1>4 DEF InPlace
<1>8. \A f \in Fmts : tr[f].started =>
         /\ tr[f].pts \in past2[f]
         /\ \A i \in DOMAIN m : m[i].fmt = f => tr[f].pts <= m[i].pts
         /\ c # None /\ c.fmt = f => tr[f].pts <= c.pts
  BY <1>2 DEF InPlace
<1>9. InPlace(m, c, tr, past2)
  BY <1>5, <1>6, <1>7, <1>8 DEF InPlace
<1>. QED
  BY <1>9 DEF m

(* The queue is emptied.                                                   *)
LEMMA InPlaceEmptied ==
    ASSUME NEW q, NEW c, NEW tr, NEW past, InPlace(q, c, tr, past)
    PROVE  InPlace(<<>>, c, tr, past)
<1>1. DOMAIN <<>> = {}
  OBVIOUS
<1>. QED
  BY <1>1 DEF InPlace

(* A unit is given to the callback.                                        *)
LEMMA InPlacePulled ==
    ASSUME NEW q \in Seq(Unit), q # <<>>, NEW tr, NEW past, InPlace(q, None, tr, past)
    PROVE  InPlace(Tail(q), Head(q), tr, past) /\ Head(q) \in Unit /\ Tail(q) \in Seq(Unit)
<1>. DEFINE m == Tail(q)
<1>1. /\ DOMAIN m = 1..(Len(q) - 1) /\ DOMAIN q = 1..Len(q) /\ Len(q) \in Nat \ {0}
      /\ Head(q) = q[1] /\ 1 \in DOMAIN q /\ Head(q) \in Unit /\ m \in Seq(Unit)
      /\ \A i \in DOMAIN m : m[i] = q[i + 1]
  OBVIOUS
<1>. HIDE DEF m
<1>2. \A i \in DOMAIN m : i + 1 \in DOMAIN q /\ m[i] = q[i + 1] /\ 1 < i + 1 /\ i \in Nat
  BY <1>1
<1>3. \A i, j \in DOMAIN m : i < j /\ m[i].fmt = m[j].fmt => m[i].pts <= m[j].pts
  BY <1>2 DEF InPlace
<1>4. \A i \in DOMAIN m : m[i].pts \in past[m[i].fmt] /\ (m[i].fmt = q[1].fmt => q[1].pts <= m[i].pts)
  BY <1>1, <1>2 DEF InPlace
<1>5. \A f \in Fmts : tr[f].started =>
         /\ tr[f].pts \in past[f]
         /\ \A i \in DOMAIN m : m[i].fmt = f => tr[f].pts <= m[i].pts
         /\ q[1].fmt = f => tr[f].pts <= q[1].pts
  BY <1>1, <1>2 DEF InPlace
<1>6. InPlace(m, q[1], tr, past)
  BY <1>1, <1>3, <1>4, <1>5 DEF InPlace
<1>. QED
  BY <1>1, <1>6 DEF m

(* The callback is done with it.                                           *)
LEMMA InPlaceReturned ==
    ASSUME NEW q, NEW c, NEW tr, NEW past, InPlace(q, c, tr, past), c # None, NEW tr2,
           \A f \in Fmts : tr2[f] = tr[f] \/ (f = c.fmt /\ tr2[f].pts = c.pts)
    PROVE  InPlace(q, None, tr2, past)
BY DEF InPlace

(* What a reader holds, and what its callbacks have taken.                 *)
Sound(q, c, th, tr, p, past, ok) ==
    /\ Len(q) <= WriteQueueSize
    /\ th = "busy" <=> c # None
    /\ \A i \in DOMAIN q : q[i] \in ok
    /\ InPlace(q, c, tr, past)
    /\ \A f \in Fmts : tr[f].first = "delta" => OrigDesc[f].codec \notin WaitsForKey(p)

ReaderTypes ==
    /\ onDatas \subseteq Readers /\ locked \in Readers \cup {None}
    /\ queue \in [Readers -> Seq(Unit)]
    /\ thread \in [Readers -> {"none", "pulling", "busy", "offering", "gone"}]
    /\ current \in [Readers -> Unit \cup {None}]
    /\ track \in [Readers -> [Fmts -> TrackState]] /\ proto \in [Readers -> Protocols]

ReadersAreSound ==
    \A r \in Readers : Sound(queue[r], current[r], thread[r], track[r], proto[r], Past, UsableUnits)

ReaderInv == ReaderTypes /\ ReadersAreSound

(* Usable is usable: descriptions do not change.                           *)
LEMMA UsableStays == ASSUME desc' = desc PROVE UsableUnits' = UsableUnits
BY DEF UsableUnits, Usable, Fits

(* The first state.                                                        *)
LEMMA ReadersStart == ASSUME Init PROVE ReaderInv
<1>1. /\ onDatas = {} /\ locked = None
      /\ queue = [r \in Readers |-> <<>>]
      /\ thread = [r \in Readers |-> "none"]
      /\ current = [r \in Readers |-> None]
      /\ track = [r \in Readers |-> [f \in Fmts |-> NotStarted]]
      /\ proto \in [Readers -> Protocols]
  BY MediaAssumption DEF Init, StreamInit
<1>2. NotStarted \in TrackState /\ ~NotStarted.started /\ NotStarted.first = "none"
  BY DEF NotStarted, TrackState
<1>3. ReaderTypes
  BY <1>1, <1>2 DEF ReaderTypes
<1>4. ASSUME NEW r \in Readers
      PROVE  Sound(queue[r], current[r], thread[r], track[r], proto[r], Past, UsableUnits)
  <2>1. queue[r] = <<>> /\ current[r] = None /\ thread[r] = "none" /\ \A f \in Fmts : track[r][f] = NotStarted
    BY <1>1
  <2>2. DOMAIN <<>> = {} /\ Len(<<>>) = 0
    OBVIOUS
  <2>3. InPlace(queue[r], current[r], track[r], Past)
    BY <1>2, <2>1, <2>2 DEF InPlace
  <2>. QED
    BY <1>2, <2>1, <2>2, <2>3, StreamAssumption DEF Sound
<1>. QED
  BY <1>3, <1>4 DEF ReaderInv, ReadersAreSound

(* The path's goroutine, the sources and the clock: nothing is pushed, or  *)
(* the next unit is.                                                       *)
LEMMA PushKeepsReaders ==
    ASSUME ReaderInv, UNCHANGED <<desc, onDatas, thread, current, locked, proto, track>>,
           \A g \in Fmts : Past[g] \subseteq Past'[g],
           queue' = queue \/ \E u : PushAll(u) /\ IsNext(u)
    PROVE  ReaderInv'
<1>1. ReaderTypes /\ ReadersAreSound /\ UsableUnits' = UsableUnits
  BY UsableStays DEF ReaderInv
<1>2. ASSUME NEW r \in Readers, NEW u, IsNext(u), queue'[r] = queue[r] \/ queue'[r] = Append(queue[r], u),
             queue'[r] # queue[r] => Len(queue[r]) < WriteQueueSize
      PROVE  /\ queue'[r] \in Seq(Unit)
             /\ Sound(queue'[r], current[r], thread[r], track[r], proto[r], Past', UsableUnits)
  <2>1. queue[r] \in Seq(Unit) /\ current[r] \in Unit \cup {None}
    BY <1>1 DEF ReaderTypes
  <2>2. Sound(queue[r], current[r], thread[r], track[r], proto[r], Past, UsableUnits)
    BY <1>1 DEF ReadersAreSound
  <2>3. CASE queue'[r] = queue[r]
    <3>1. InPlace(queue[r], current[r], track[r], Past')
      BY <2>1, <2>2, InPlaceLater DEF Sound
    <3>. QED
      BY <2>1, <2>2, <2>3, <3>1 DEF Sound
  <2>4. CASE queue'[r] # queue[r]
    <3>1. queue'[r] = Append(queue[r], u) /\ Len(queue[r]) < WriteQueueSize
      BY <1>2, <2>4
    <3>2. u \in UsableUnits /\ u \in Unit /\ (\A t \in Past[u.fmt] : t <= u.pts) /\ u.pts \in Past'[u.fmt]
      BY <1>2 DEF IsNext, UsableUnits
    <3>3. InPlace(Append(queue[r], u), current[r], track[r], Past')
      BY <2>1, <2>2, <3>2, InPlacePushed DEF Sound
    <3>4. Len(Append(queue[r], u)) <= WriteQueueSize /\ Append(queue[r], u) \in Seq(Unit)
      BY <2>1, <3>1, <3>2, StreamAssumption
    <3>5. \A i \in DOMAIN Append(queue[r], u) : Append(queue[r], u)[i] \in UsableUnits
      BY <2>1, <2>2, <3>2 DEF Sound
    <3>. QED
      BY <2>2, <3>1, <3>3, <3>4, <3>5 DEF Sound
  <2>. QED
    BY <2>3, <2>4
<1>3. CASE queue' = queue
  <2>1. ASSUME NEW r \in Readers
        PROVE  Sound(queue'[r], current'[r], thread'[r], track'[r], proto'[r], Past', UsableUnits')
    <3>1. queue[r] \in Seq(Unit) /\ current[r] \in Unit \cup {None}
      BY <1>1 DEF ReaderTypes
    <3>2. Sound(queue[r], current[r], thread[r], track[r], proto[r], Past, UsableUnits)
      BY <1>1 DEF ReadersAreSound
    <3>3. InPlace(queue[r], current[r], track[r], Past')
      BY <3>1, <3>2, InPlaceLater DEF Sound
    <3>. QED
      BY <1>1, <1>3, <3>2, <3>3 DEF Sound
  <2>. QED
    BY <1>1, <1>3, <2>1 DEF ReaderInv, ReaderTypes, ReadersAreSound
<1>4. ASSUME NEW u, PushAll(u), IsNext(u) PROVE ReaderInv'
  <2>1. queue' = [r \in Readers |-> IF r \in onDatas THEN Push(queue[r], u) ELSE queue[r]]
    BY <1>4 DEF PushAll
  <2>2. ASSUME NEW r \in Readers
        PROVE  /\ queue'[r] \in Seq(Unit)
               /\ Sound(queue'[r], current[r], thread[r], track[r], proto[r], Past', UsableUnits)
    <3>1. /\ queue'[r] = queue[r] \/ queue'[r] = Append(queue[r], u)
          /\ queue'[r] # queue[r] => Len(queue[r]) < WriteQueueSize
      BY <2>1 DEF Push
    <3>. QED
      BY <1>2, <1>4, <3>1
  <2>3. queue' \in [Readers -> Seq(Unit)]
    BY <2>1, <2>2
  <2>. QED
    BY <1>1, <2>2, <2>3 DEF ReaderInv, ReaderTypes, ReadersAreSound
<1>. QED
  BY <1>3, <1>4

(* A step of one reader.                                                   *)
LEMMA OneReader ==
    ASSUME ReaderInv, UNCHANGED <<subVars, proto>>, ReaderTypes', NEW r \in Readers,
           \A x \in Readers \ {r} : /\ queue'[x] = queue[x] /\ current'[x] = current[x]
                                    /\ thread'[x] = thread[x] /\ track'[x] = track[x],
           Sound(queue'[r], current'[r], thread'[r], track'[r], proto[r], Past, UsableUnits)
    PROVE  ReaderInv'
<1>1. Past' = Past /\ UsableUnits' = UsableUnits
  BY UsableStays DEF subVars, Past, Behind
<1>2. \A x \in Readers \ {r} : Sound(queue[x], current[x], thread[x], track[x], proto[x], Past, UsableUnits)
  BY DEF ReaderInv, ReadersAreSound
<1>3. ASSUME NEW x \in Readers
      PROVE  Sound(queue'[x], current'[x], thread'[x], track'[x], proto'[x], Past', UsableUnits')
  BY <1>1, <1>2
<1>. QED
  BY <1>3 DEF ReaderInv, ReadersAreSound

(* The goroutine of a reader, and its owner.                               *)
LEMMA GoroutineKeepsReaders ==
    ASSUME ReaderInv, UNCHANGED <<proto, track>>, NEW r \in Readers,
           AddReader(r) \/ Pull(r) \/ OwnerTakesError(r) \/ PullClosed(r) \/ RemoveReader(r) \/ ReaderRemoved(r)
    PROVE  ReaderInv'
<1>0. /\ ReaderTypes /\ UNCHANGED <<subVars, proto>>
      /\ Sound(queue[r], current[r], thread[r], track[r], proto[r], Past, UsableUnits)
      /\ queue[r] \in Seq(Unit)
  BY DEF ReaderInv, ReadersAreSound, ReaderTypes, AddReader, Pull, OwnerTakesError, PullClosed, RemoveReader, ReaderRemoved
<1>1. CASE AddReader(r)
  <2>1. ReaderTypes'
    BY <1>0, <1>1 DEF AddReader, ReaderTypes
  <2>2. thread'[r] = "pulling" /\ thread[r] = "none" /\ \A x \in Readers \ {r} : thread'[x] = thread[x]
    BY <1>0, <1>1 DEF AddReader, ReaderTypes
  <2>3. Sound(queue'[r], current'[r], thread'[r], track'[r], proto[r], Past, UsableUnits)
    BY <1>0, <1>1, <2>2 DEF AddReader, Sound
  <2>. QED
    BY <1>0, <1>1, <2>1, <2>2, <2>3, OneReader DEF AddReader
<1>2. CASE Pull(r)
  <2>1. /\ thread[r] = "pulling" /\ queue[r] # <<>> /\ current[r] = None
        /\ thread'[r] = "busy" /\ current'[r] = Head(queue[r]) /\ queue'[r] = Tail(queue[r])
        /\ \A x \in Readers \ {r} : /\ queue'[x] = queue[x] /\ current'[x] = current[x] /\ thread'[x] = thread[x]
    BY <1>0, <1>2 DEF Pull, ReaderTypes, Sound
  <2>2. InPlace(Tail(queue[r]), Head(queue[r]), track[r], Past) /\ Head(queue[r]) \in Unit /\ Tail(queue[r]) \in Seq(Unit)
    BY <1>0, <2>1, InPlacePulled DEF Sound
  <2>3. ReaderTypes'
    BY <1>0, <1>2, <2>2 DEF Pull, ReaderTypes
  <2>4. Len(Tail(queue[r])) <= WriteQueueSize /\ \A i \in DOMAIN Tail(queue[r]) : Tail(queue[r])[i] \in UsableUnits
    BY <1>0, <2>1, StreamAssumption DEF Sound
  <2>5. Head(queue[r]) # None
    BY <2>2, StreamAssumption
  <2>6. Sound(queue'[r], current'[r], thread'[r], track'[r], proto[r], Past, UsableUnits)
    BY <1>0, <2>1, <2>2, <2>4, <2>5 DEF Sound
  <2>. QED
    BY <1>0, <2>1, <2>3, <2>6, OneReader
<1>3. CASE OwnerTakesError(r)
  <2>1. ReaderTypes'
    BY <1>0, <1>3 DEF OwnerTakesError, ReaderTypes
  <2>2. thread'[r] = "gone" /\ thread[r] = "offering" /\ \A x \in Readers \ {r} : thread'[x] = thread[x]
    BY <1>0, <1>3 DEF OwnerTakesError, ReaderTypes
  <2>3. Sound(queue'[r], current'[r], thread'[r], track'[r], proto[r], Past, UsableUnits)
    BY <1>0, <1>3, <2>2 DEF OwnerTakesError, Sound
  <2>. QED
    BY <1>0, <1>3, <2>1, <2>2, <2>3, OneReader DEF OwnerTakesError
<1>4. CASE PullClosed(r)
  <2>1. ReaderTypes'
    BY <1>0, <1>4 DEF PullClosed, ReaderTypes
  <2>2. thread'[r] = "offering" /\ thread[r] = "pulling" /\ \A x \in Readers \ {r} : thread'[x] = thread[x]
    BY <1>0, <1>4 DEF PullClosed, ReaderTypes
  <2>3. Sound(queue'[r], current'[r], thread'[r], track'[r], proto[r], Past, UsableUnits)
    BY <1>0, <1>4, <2>2 DEF PullClosed, Sound
  <2>. QED
    BY <1>0, <1>4, <2>1, <2>2, <2>3, OneReader DEF PullClosed
<1>5. /\ InPlace(<<>>, current[r], track[r], Past) /\ Len(<<>>) <= WriteQueueSize
      /\ \A i \in DOMAIN <<>> : <<>>[i] \in UsableUnits
  BY <1>0, InPlaceEmptied, StreamAssumption DEF Sound
<1>6. CASE RemoveReader(r)
  <2>1. ReaderTypes'
    BY <1>0, <1>6 DEF RemoveReader, ReaderTypes
  <2>2. queue'[r] = <<>> /\ \A x \in Readers \ {r} : queue'[x] = queue[x]
    BY <1>0, <1>6 DEF RemoveReader, ReaderTypes
  <2>3. Sound(queue'[r], current'[r], thread'[r], track'[r], proto[r], Past, UsableUnits)
    BY <1>0, <1>5, <1>6, <2>2 DEF RemoveReader, Sound
  <2>. QED
    BY <1>0, <1>6, <2>1, <2>2, <2>3, OneReader DEF RemoveReader
<1>7. CASE ReaderRemoved(r)
  <2>1. ReaderTypes'
    BY <1>0, <1>7 DEF ReaderRemoved, ReaderTypes
  <2>2. /\ queue'[r] = <<>> /\ thread'[r] = "gone" /\ thread[r] \in {"offering", "gone"}
        /\ \A x \in Readers \ {r} : queue'[x] = queue[x] /\ thread'[x] = thread[x]
    BY <1>0, <1>7 DEF ReaderRemoved, ReaderTypes
  <2>3. Sound(queue'[r], current'[r], thread'[r], track'[r], proto[r], Past, UsableUnits)
    BY <1>0, <1>5, <1>7, <2>2 DEF ReaderRemoved, Sound
  <2>. QED
    BY <1>0, <1>7, <2>1, <2>2, <2>3, OneReader DEF ReaderRemoved
<1>. QED
  BY <1>1, <1>2, <1>3, <1>4, <1>6, <1>7

(* The callback returns.                                                   *)
LEMMA CallbackKeepsReaders ==
    ASSUME ReaderInv, NEW r \in Readers, UnitTaken(r) \/ WriteFails(r)
    PROVE  ReaderInv'
<1>0. /\ ReaderTypes /\ UNCHANGED <<subVars, proto, queue, onDatas, locked>> /\ thread[r] = "busy"
      /\ Sound(queue[r], current[r], thread[r], track[r], proto[r], Past, UsableUnits)
      /\ queue[r] \in Seq(Unit)
  BY DEF ReaderInv, ReadersAreSound, ReaderTypes, UnitTaken, WriteFails, CallbackReturns
<1>a. PICK u : u = current[r]
  OBVIOUS
<1>1. u \in Unit /\ u # None /\ u.fmt \in Fmts /\ u.pts \in Nat /\ u.kind \in {"nil", "key", "delta"}
  <2>1. u \in Unit /\ u # None
    BY <1>0, <1>a DEF Sound, ReaderTypes
  <2>. QED
    BY <2>1 DEF Unit
<1>2. \E th \in {"pulling", "offering"} : thread' = [thread EXCEPT ![r] = th]
  <2>1. ASSUME NEW ok, CallbackReturns(r, ok) PROVE \E th \in {"pulling", "offering"} : thread' = [thread EXCEPT ![r] = th]
    BY <2>1 DEF CallbackReturns
  <2>. QED
    BY <2>1 DEF UnitTaken, WriteFails
<1>3. PICK th \in {"pulling", "offering"} : thread' = [thread EXCEPT ![r] = th]
  BY <1>2
<1>4. current' = [current EXCEPT ![r] = None]
  BY DEF UnitTaken, WriteFails, CallbackReturns
<1>5. \/ track' = track
      \/ \E st : /\ st \in TrackState /\ st.pts = u.pts
                 /\ st.first = "delta" => OrigDesc[u.fmt].codec \notin WaitsForKey(proto[r])
                 /\ track' = [track EXCEPT ![r][u.fmt] = st]
  <2>1. CASE WriteFails(r)
    BY <2>1 DEF WriteFails
  <2>2. CASE UnitTaken(r)
    <3>1. PICK old : old = track[r][u.fmt]
      OBVIOUS
    <3>2. old \in TrackState /\ old.first \in {"none", "key", "delta"} /\ old.started \in BOOLEAN
          /\ (old.first = "delta" => OrigDesc[u.fmt].codec \notin WaitsForKey(proto[r]))
      BY <1>0, <1>1, <3>1 DEF ReaderTypes, TrackState, Sound
    <3>3. PICK did : did = Handled(proto[r], OrigDesc[u.fmt].codec, old, u)
      OBVIOUS
    <3>4. PICK st : st = [started |-> TRUE, pts |-> u.pts, first |-> IF old.started THEN old.first ELSE u.kind]
      OBVIOUS
    <3>5. \/ track' = track
          \/ did = "write" /\ track' = [track EXCEPT ![r][u.fmt] = st]
      BY <1>a, <2>2, <3>1, <3>3, <3>4 DEF UnitTaken
    <3>6. did = "write" => /\ u.kind # "nil"
                           /\ OrigDesc[u.fmt].codec \in WaitsForKey(proto[r]) /\ ~old.started => u.kind = "key"
      BY <3>3 DEF Handled
    <3>7. did = "write" => st.first \in {"none", "key", "delta"} /\ st.started = TRUE /\ st.pts = u.pts
                           /\ (st.first = "delta" => OrigDesc[u.fmt].codec \notin WaitsForKey(proto[r]))
      BY <1>1, <3>2, <3>4, <3>6
    <3>8. did = "write" => st \in TrackState
      BY <1>1, <3>2, <3>4, <3>6 DEF TrackState
    <3>. QED
      BY <3>5, <3>7, <3>8
  <2>. QED
    BY <2>1, <2>2
<1>6. ReaderTypes' /\ \A x \in Readers \ {r} : track'[x] = track[x]
  <2>1. track' \in [Readers -> [Fmts -> TrackState]] /\ \A x \in Readers \ {r} : track'[x] = track[x]
    <3>1. track \in [Readers -> [Fmts -> TrackState]]
      BY <1>0 DEF ReaderTypes
    <3>2. ASSUME NEW st \in TrackState, track' = [track EXCEPT ![r][u.fmt] = st] PROVE <2>1
      BY <1>1, <3>1, <3>2
    <3>. QED
      BY <1>5, <3>1, <3>2
  <2>2. thread' \in [Readers -> {"none", "pulling", "busy", "offering", "gone"}]
    BY <1>0, <1>3 DEF ReaderTypes
  <2>3. current' \in [Readers -> Unit \cup {None}]
    BY <1>0, <1>4 DEF ReaderTypes
  <2>. QED
    BY <1>0, <2>1, <2>2, <2>3 DEF ReaderTypes
<1>7. thread'[r] # "busy" /\ current'[r] = None
      /\ \A x \in Readers \ {r} : thread'[x] = thread[x] /\ current'[x] = current[x]
  BY <1>0, <1>3, <1>4 DEF ReaderTypes
<1>8. /\ \A f \in Fmts : track'[r][f] = track[r][f] \/ (f = u.fmt /\ track'[r][f].pts = u.pts)
      /\ \A f \in Fmts : track'[r][f].first = "delta" => OrigDesc[f].codec \notin WaitsForKey(proto[r])
  <2>1. \A f \in Fmts : track[r][f].first = "delta" => OrigDesc[f].codec \notin WaitsForKey(proto[r])
    BY <1>0 DEF Sound
  <2>2. CASE track' = track
    BY <2>1, <2>2
  <2>3. ASSUME NEW st, st.pts = u.pts, st.first = "delta" => OrigDesc[u.fmt].codec \notin WaitsForKey(proto[r]),
               track' = [track EXCEPT ![r][u.fmt] = st]
        PROVE  <1>8!1 /\ <1>8!2
    <3>1. \A f \in Fmts : track'[r][f] = IF f = u.fmt THEN st ELSE track[r][f]
      BY <1>0, <1>1, <2>3 DEF ReaderTypes
    <3>. QED
      BY <2>1, <2>3, <3>1
  <2>. QED
    BY <1>5, <2>2, <2>3
<1>9. InPlace(queue[r], None, track'[r], Past)
  <2>1. InPlace(queue[r], u, track[r], Past)
    BY <1>0, <1>a DEF Sound
  <2>. QED
    BY <1>1, <1>8, <2>1, InPlaceReturned
<1>10. Sound(queue'[r], current'[r], thread'[r], track'[r], proto[r], Past, UsableUnits)
  BY <1>0, <1>7, <1>8, <1>9 DEF Sound
<1>. QED
  BY <1>0, <1>6, <1>7, <1>10, OneReader

-----------------------------------------------------------------------------
StreamInv == SubInv /\ ReaderInv

(* A step of the stream keeps both.                                        *)
LEMMA StreamSceneKeeps == ASSUME StreamInv, StreamScene PROVE StreamInv'
<1>0. SubInv /\ ReaderInv
  BY DEF StreamInv
<1>1. ASSUME UNCHANGED subVars PROVE SubInv'
  BY <1>0, <1>1 DEF subVars, SubInv, SubTypes, UnitsAreCounted, SwitchIsRight, LastIsPast, ParamsAgree, WritersFit, Fits, Idle
<1>2. ASSUME NEW r \in Readers, UnitTaken(r) \/ WriteFails(r) PROVE StreamInv'
  <2>1. UNCHANGED subVars
    BY <1>2 DEF UnitTaken, WriteFails, CallbackReturns
  <2>. QED
    BY <1>0, <1>1, <1>2, <2>1, CallbackKeepsReaders DEF StreamInv
<1>3. ASSUME NEW r \in Readers, UNCHANGED <<proto, track>>,
             AddReader(r) \/ Pull(r) \/ OwnerTakesError(r) \/ PullClosed(r) \/ RemoveReader(r) \/ ReaderRemoved(r)
      PROVE  StreamInv'
  <2>1. UNCHANGED subVars
    BY <1>3 DEF AddReader, Pull, OwnerTakesError, PullClosed, RemoveReader, ReaderRemoved
  <2>. QED
    BY <1>0, <1>1, <1>3, <2>1, GoroutineKeepsReaders DEF StreamInv
<1>4. ASSUME SubInv', \A g \in Fmts : \A t : Behind(g, t) => Behind(g, t)',
             UNCHANGED <<desc, onDatas, thread, current, locked, proto, track>>,
             queue' = queue \/ \E u : PushAll(u) /\ IsNext(u)
      PROVE  StreamInv'
  <2>1. \A g \in Fmts : Past[g] \subseteq Past'[g]
    BY <1>4, PastGrows
  <2>. QED
    BY <1>0, <1>4, <2>1, PushKeepsReaders DEF StreamInv
<1>5. ASSUME NEW s \in Subs, NEW f \in Fmts, SourceWrites(s, f), UNCHANGED <<proto, track>> PROVE StreamInv'
  <2>1. UNCHANGED <<desc, onDatas, thread, current, locked>>
    BY <1>5 DEF SourceWrites
  <2>. QED
    BY <1>0, <1>4, <1>5, <2>1, WriteKeepsSub, SourceWritesNext
<1>6. ASSUME NEW f \in Fmts, InitializeFormat(f), UNCHANGED <<proto, track>> PROVE StreamInv'
  <2>1. UNCHANGED <<desc, onDatas, thread, current, locked>>
    BY <1>6 DEF InitializeFormat
  <2>. QED
    BY <1>0, <1>4, <1>6, <2>1, InitializeKeepsSub, InitializeWritesNext
<1>7. ASSUME NEW p \in Pubs, GoOnline(p), UNCHANGED <<proto, track>> PROVE StreamInv'
  <2>1. UNCHANGED <<desc, onDatas, thread, current, locked, queue>>
    BY <1>7 DEF GoOnline, readerVars
  <2>. QED
    BY <1>0, <1>4, <1>7, <2>1, OnlineKeepsSub
<1>8. ASSUME Install, UNCHANGED <<proto, track>> PROVE StreamInv'
  <2>1. UNCHANGED <<desc, onDatas, thread, current, locked, queue>>
    BY <1>8 DEF Install, readerVars
  <2>. QED
    BY <1>0, <1>4, <1>8, <2>1, InstallKeepsSub
<1>9. ASSUME Tick \/ OfflineClosed \/ GoOffline \/ Switched \/ (\E p \in Pubs : Refused(p)), UNCHANGED <<proto, track>>
      PROVE  StreamInv'
  <2>1. UNCHANGED <<desc, onDatas, thread, current, locked, queue>>
    BY <1>9 DEF Tick, OfflineClosed, GoOffline, Switched, Refused, readerVars
  <2>. QED
    BY <1>0, <1>4, <1>9, <2>1, OtherStepsKeepSub
<1>10. CASE StreamNext /\ UNCHANGED <<proto, track, relay>>
  BY <1>3, <1>5, <1>6, <1>7, <1>8, <1>9, <1>10 DEF StreamNext, SwitchSteps
<1>. QED
  BY <1>2, <1>10 DEF StreamScene

(* The other scenes leave the stream alone.                                *)
LEMMA StreamStays ==
    ASSUME StreamInv, UNCHANGED <<streamVars, proto, track>>
    PROVE  StreamInv'
<1>1. SubInv'
  BY DEF StreamInv, streamVars, subVars, SubInv, SubTypes, UnitsAreCounted, SwitchIsRight, LastIsPast, ParamsAgree,
         WritersFit, Fits, Idle
<1>2. Past' = Past /\ UsableUnits' = UsableUnits
  BY UsableStays DEF streamVars, subVars, Past, Behind
<1>3. ReaderInv'
  BY <1>2 DEF StreamInv, streamVars, readerVars, ReaderInv, ReaderTypes, ReadersAreSound
<1>. QED
  BY <1>1, <1>3 DEF StreamInv

(* The first state of a path's media.                                      *)
LEMMA StreamStarts == Init => StreamInv
BY SubStarts, ReadersStart DEF Init, StreamInv

(* Every step of every scene keeps the invariant.                          *)
LEMMA StreamStep == StreamInv /\ [Next]_vars => StreamInv'
<1>1. ASSUME StreamInv, LayersScene \/ RelayScene \/ UNCHANGED vars PROVE StreamInv'
  BY <1>1, StreamStays DEF LayersScene, RelayScene, vars, mediaVars
<1>. QED
  BY <1>1, StreamSceneKeeps DEF Next

(* The inductive invariant of streams and readers holds in every reachable *)
(* state.                                                                  *)
THEOREM StreamInvariance == Spec => []StreamInv
BY StreamStarts, StreamStep, PTL DEF Spec

(* The time of a format does not go back in front of a reader.             *)
THEOREM TimeGoesOnHolds == Spec => []TimeGoesOn
<1>1. StreamInv => TimeGoesOn
  <2>1. SUFFICES ASSUME StreamInv, NEW r \in Readers,
                        NEW seen, seen = IF current[r] = None THEN queue[r] ELSE <<current[r]>> \o queue[r],
                        NEW i \in DOMAIN seen, NEW j \in DOMAIN seen, i < j, seen[i].fmt = seen[j].fmt
                 PROVE  seen[i].pts <= seen[j].pts
    BY DEF TimeGoesOn
  <2>2. queue[r] \in Seq(Unit) /\ current[r] \in Unit \cup {None} /\ InPlace(queue[r], current[r], track[r], Past)
    BY <2>1 DEF StreamInv, ReaderInv, ReaderTypes, ReadersAreSound, Sound
  <2>3. CASE current[r] = None
    BY <2>1, <2>2, <2>3 DEF InPlace
  <2>4. CASE current[r] # None
    <3>1. /\ DOMAIN seen = 1..(Len(queue[r]) + 1) /\ DOMAIN queue[r] = 1..Len(queue[r]) /\ Len(queue[r]) \in Nat
          /\ seen[1] = current[r] /\ \A k \in DOMAIN seen : k # 1 => seen[k] = queue[r][k - 1]
      BY <2>1, <2>2, <2>4
    <3>2. j # 1 /\ j - 1 \in DOMAIN queue[r] /\ seen[j] = queue[r][j - 1]
      BY <2>1, <3>1
    <3>3. CASE i = 1
      BY <2>1, <2>2, <2>4, <3>1, <3>2, <3>3 DEF InPlace
    <3>4. CASE i # 1
      <4>1. i - 1 \in DOMAIN queue[r] /\ i - 1 < j - 1 /\ seen[i] = queue[r][i - 1]
        BY <2>1, <3>1, <3>4
      <4>. QED
        BY <2>1, <2>2, <3>2, <4>1 DEF InPlace
    <3>. QED
      BY <3>3, <3>4
  <2>. QED
    BY <2>3, <2>4
<1>. QED
  BY <1>1, StreamInvariance, PTL

(* What is in the queue of a reader is what it registered for.             *)
THEOREM UnitsAreUsableHolds == Spec => []UnitsAreUsable
<1>1. StreamInv => UnitsAreUsable
  BY DEF StreamInv, ReaderInv, ReadersAreSound, Sound, UsableUnits, Usable, Fits, UnitsAreUsable
<1>. QED
  BY <1>1, StreamInvariance, PTL

(* A change of the source does not cost a reader.                          *)
THEOREM ReadersGoOnHolds == Spec => []ReadersGoOn
<1>1. StreamInv => ReadersGoOn
  <2>1. SUFFICES ASSUME StreamInv, NEW r \in Readers
                 PROVE  /\ \A f \in Fmts : track[r][f].first = "delta" => OrigDesc[f].codec \notin WaitsForKey(proto[r])
                        /\ current[r] # None =>
                             Handled(proto[r], OrigDesc[current[r].fmt].codec, track[r][current[r].fmt], current[r]) # "fail"
    BY DEF ReadersGoOn
  <2>2. Sound(queue[r], current[r], thread[r], track[r], proto[r], Past, UsableUnits)
        /\ current[r] \in Unit \cup {None} /\ track[r] \in [Fmts -> TrackState]
    BY <2>1 DEF StreamInv, ReaderInv, ReaderTypes, ReadersAreSound
  <2>3. ASSUME NEW u \in Unit, u # None, u = current[r]
        PROVE  Handled(proto[r], OrigDesc[u.fmt].codec, track[r][u.fmt], u) # "fail"
    <3>1. u.fmt \in Fmts /\ u.pts \in Nat
      BY <2>3 DEF Unit
    <3>2. track[r][u.fmt].started => track[r][u.fmt].pts <= u.pts
      BY <2>2, <2>3, <3>1 DEF Sound, InPlace
    <3>3. track[r][u.fmt].pts \in Nat
      BY <2>2, <3>1 DEF TrackState
    <3>4. ~(track[r][u.fmt].started /\ u.pts < track[r][u.fmt].pts)
      BY <3>1, <3>2, <3>3
    <3>. QED
      BY <3>4 DEF Handled
  <2>. QED
    BY <2>2, <2>3 DEF Sound
<1>. QED
  BY <1>1, StreamInvariance, PTL

(***************************************************************************)
(* The layers of a WHEP reader.                                            *)
(***************************************************************************)
Frame == [layer : Nat, n : Nat, key : BOOLEAN, hole : BOOLEAN]

(* The frames of a layer in the ring.                                      *)
Chained(q) ==
    \A i, j \in DOMAIN q :
        /\ i < j /\ q[i].layer = q[j].layer
        /\ \A k \in DOMAIN q : i < k /\ k < j => q[k].layer # q[i].layer
        => q[j].hole \/ q[j].key \/ q[j].n = q[i].n + 1

(* The layers of which a frame may be missing behind those of the ring:    *)
(* until the generation is counted up, every one that was paused.          *)
Gaps == IF paused \/ resuming > 0 THEN LayerIds ELSE holes \cup waits

(* The last one of them.                                                   *)
UpToDate(q, fs, hs) ==
    \A i \in DOMAIN q :
        (\A k \in DOMAIN q : i < k => q[k].layer # q[i].layer) => q[i].layer \in hs \/ q[i].n = fs[q[i].layer]

(* The first frame of the active layer follows the one that was sent.      *)
Follows(q, fs, hs, s, act) ==
    s.layer # -1 =>
        /\ s.layer = act
        /\ \A i \in DOMAIN q :
             q[i].layer = act /\ (\A k \in DOMAIN q : k < i => q[k].layer # act) => q[i].hole \/ q[i].key \/ q[i].n = s.n + 1
        /\ (\A i \in DOMAIN q : q[i].layer # act) => act \in hs \/ s.n = fs[act]

LayersTypes ==
    /\ LayersTypeOK /\ ring \in Seq(Frame)
    /\ \A i \in DOMAIN ring : ring[i].layer \in LayerIds

LayersInv ==
    /\ LayersTypes
    /\ Chained(ring) /\ UpToDate(ring, frames, Gaps) /\ Follows(ring, frames, Gaps, sent, active)
    /\ sent.ok

(* A layer of the stream is one of those that are counted.                 *)
LEMMA LayerIsCounted ==
    ASSUME LayersTypes, NEW l \in LayerIds
    PROVE  l \in 0..(MaxVideoLayers - 1) /\ frames[l] \in Nat /\ l # -1 /\ l \in Nat
BY LayersAssumption DEF LayersTypes, LayersTypeOK, LayerIds

(* The first state.                                                        *)
LEMMA LayersStart == ASSUME LayersInit PROVE LayersInv
<1>1. ring = <<>> /\ DOMAIN <<>> = {} /\ Len(<<>>) = 0 /\ <<>> \in Seq(Frame) /\ ring \in Seq(Frame)
  BY DEF LayersInit
<1>2. sent = [layer |-> -1, n |-> 0, ok |-> TRUE] /\ sent.layer = -1 /\ sent.ok
  BY DEF LayersInit
<1>3. LayersTypeOK
  <2>1. layers \in 1..MaxVideoLayers /\ 0 \in LayerIds /\ Len(ring) <= RingSize
    BY <1>1, LayersAssumption DEF LayersInit, LayerIds
  <2>2. sent \in [layer : LayerIds \cup {-1}, n : Nat, ok : BOOLEAN]
    BY <1>2
  <2>3. frames \in [0..(MaxVideoLayers - 1) -> Nat]
    BY DEF LayersInit
  <2>4. age \in 0..(PendingTimeout + 1) /\ upgradeCount \in 0..UpgradeConfirmations
        /\ downgradeCount \in 0..DowngradeConfirmations /\ ticks \in Nat
    BY LayersAssumption DEF LayersInit
  <2>5. active \in LayerIds /\ pending \in LayerIds \cup {-1} /\ advice \in LayerIds \cup {-1}
        /\ holes \subseteq LayerIds /\ auto \in BOOLEAN /\ cooling \in BOOLEAN /\ bound \in LayerBounds
        /\ ladder \in {"H264", "H265"} /\ paused \in BOOLEAN /\ resuming \in Nat /\ waits \subseteq LayerIds
    BY <2>1 DEF LayersInit
  <2>. QED
    BY <2>1, <2>2, <2>3, <2>4, <2>5 DEF LayersTypeOK
<1>. QED
  BY <1>1, <1>2, <1>3 DEF LayersInv, LayersTypes, Chained, UpToDate, Follows

(* A frame is pushed behind those of the ring.                             *)
LEMMA FrameIsQueued ==
    ASSUME ring \in Seq(Frame), NEW l, NEW fs2, NEW hs, NEW hs2, hs \ {l} \subseteq hs2,
           Chained(ring), UpToDate(ring, frames, hs), Follows(ring, frames, hs, sent, active),
           NEW frame, frame.layer = l, frames[l] \in Nat, frame.n = frames[l] + 1,
           l \in hs => frame.hole \/ frame.key,
           active \in LayerIds, \A i \in DOMAIN ring : ring[i].layer \in LayerIds,
           fs2[l] = frames[l] + 1, \A x \in LayerIds : x # l => fs2[x] = frames[x]
    PROVE  LET m == Append(ring, frame)
           IN  Chained(m) /\ UpToDate(m, fs2, hs2) /\ Follows(m, fs2, hs2, sent, active)
<1>. DEFINE m == Append(ring, frame)
<1>1. /\ DOMAIN m = 1..(Len(ring) + 1) /\ DOMAIN ring = 1..Len(ring) /\ Len(ring) \in Nat
      /\ m[Len(ring) + 1] = frame /\ \A i \in DOMAIN ring : m[i] = ring[i]
  OBVIOUS
<1>. HIDE DEF m
<1>2. /\ \A i \in DOMAIN m : (i \in DOMAIN ring /\ m[i] = ring[i]) \/ (i = Len(ring) + 1 /\ m[i] = frame)
      /\ \A i \in DOMAIN ring : i \in DOMAIN m /\ i < Len(ring) + 1 /\ i \in Nat
      /\ Len(ring) + 1 \in DOMAIN m
  BY <1>1
<1>3. Chained(m)
  <2>1. SUFFICES ASSUME NEW i \in DOMAIN m, NEW j \in DOMAIN m, i < j, m[i].layer = m[j].layer,
                        \A k \in DOMAIN m : i < k /\ k < j => m[k].layer # m[i].layer
                 PROVE  m[j].hole \/ m[j].key \/ m[j].n = m[i].n + 1
    BY DEF Chained
  <2>2. i \in DOMAIN ring /\ m[i] = ring[i]
    BY <1>1, <1>2, <2>1
  <2>3. CASE j \in DOMAIN ring
    <3>1. \A k \in DOMAIN ring : i < k /\ k < j => ring[k].layer # ring[i].layer
      BY <1>1, <1>2, <2>1, <2>2
    <3>. QED
      BY <1>1, <2>1, <2>2, <2>3, <3>1 DEF Chained
  <2>4. CASE j \notin DOMAIN ring
    <3>1. j = Len(ring) + 1 /\ m[j] = frame /\ ring[i].layer = l
      BY <1>2, <2>1, <2>2, <2>4
    <3>2. \A k \in DOMAIN ring : i < k => ring[k].layer # ring[i].layer
      BY <1>1, <1>2, <2>1, <2>2, <3>1
    <3>3. l \in hs \/ ring[i].n = frames[l]
      BY <2>2, <3>1, <3>2 DEF UpToDate
    <3>. QED
      BY <2>2, <3>1, <3>3
  <2>. QED
    BY <2>3, <2>4
<1>4. UpToDate(m, fs2, hs2)
  <2>1. SUFFICES ASSUME NEW i \in DOMAIN m, \A k \in DOMAIN m : i < k => m[k].layer # m[i].layer
                 PROVE  m[i].layer \in hs2 \/ m[i].n = fs2[m[i].layer]
    BY DEF UpToDate
  <2>2. CASE i \in DOMAIN ring
    <3>1. m[i] = ring[i] /\ ring[i].layer # l
      BY <1>1, <1>2, <2>1, <2>2
    <3>2. \A k \in DOMAIN ring : i < k => ring[k].layer # ring[i].layer
      BY <1>1, <1>2, <2>1, <3>1
    <3>3. ring[i].layer \in hs \/ ring[i].n = frames[ring[i].layer]
      BY <2>2, <3>2 DEF UpToDate
    <3>. QED
      BY <2>2, <3>1, <3>3
  <2>3. CASE i \notin DOMAIN ring
    BY <1>2, <2>3
  <2>. QED
    BY <2>2, <2>3
<1>5. Follows(m, fs2, hs2, sent, active)
  <2>1. SUFFICES ASSUME sent.layer # -1
                 PROVE  /\ sent.layer = active
                        /\ \A i \in DOMAIN m :
                             m[i].layer = active /\ (\A k \in DOMAIN m : k < i => m[k].layer # active)
                               => m[i].hole \/ m[i].key \/ m[i].n = sent.n + 1
                        /\ (\A i \in DOMAIN m : m[i].layer # active) => active \in hs2 \/ sent.n = fs2[active]
    BY DEF Follows
  <2>2. /\ sent.layer = active
        /\ \A i \in DOMAIN ring :
             ring[i].layer = active /\ (\A k \in DOMAIN ring : k < i => ring[k].layer # active) => ring[i].hole \/ ring[i].key \/ ring[i].n = sent.n + 1
        /\ (\A i \in DOMAIN ring : ring[i].layer # active) => active \in hs \/ sent.n = frames[active]
    BY <2>1 DEF Follows
  <2>3. ASSUME NEW i \in DOMAIN m, m[i].layer = active, \A k \in DOMAIN m : k < i => m[k].layer # active
        PROVE  m[i].hole \/ m[i].key \/ m[i].n = sent.n + 1
    <3>1. CASE i \in DOMAIN ring
      <4>1. m[i] = ring[i] /\ \A k \in DOMAIN ring : k < i => ring[k].layer # active
        BY <1>1, <1>2, <2>3, <3>1
      <4>. QED
        BY <2>2, <2>3, <3>1, <4>1
    <3>2. CASE i \notin DOMAIN ring
      <4>1. m[i] = frame /\ active = l /\ i = Len(ring) + 1
        BY <1>2, <2>3, <3>2
      <4>2. \A k \in DOMAIN ring : ring[k].layer # active
        BY <1>1, <1>2, <2>3, <4>1
      <4>. QED
        BY <2>2, <4>1, <4>2
    <3>. QED
      BY <3>1, <3>2
  <2>4. ASSUME \A i \in DOMAIN m : m[i].layer # active PROVE active \in hs2 \/ sent.n = fs2[active]
    <3>1. active # l /\ \A i \in DOMAIN ring : ring[i].layer # active
      BY <1>1, <1>2, <2>4
    <3>. QED
      BY <2>2, <3>1
  <2>. QED
    BY <2>2, <2>3, <2>4
<1>. QED
  BY <1>3, <1>4, <1>5 DEF m

(* A frame is left out.                                                    *)
LEMMA FrameIsLeftOut ==
    ASSUME NEW l, NEW fs2, NEW hs, NEW hs2,
           UpToDate(ring, frames, hs), Follows(ring, frames, hs, sent, active),
           active \in LayerIds, \A i \in DOMAIN ring : ring[i].layer \in LayerIds,
           \A x \in LayerIds : x # l => fs2[x] = frames[x],
           hs \ {l} \subseteq hs2,
           l = active \/ (\E i \in DOMAIN ring : ring[i].layer = l) => l \in hs2
    PROVE  UpToDate(ring, fs2, hs2) /\ Follows(ring, fs2, hs2, sent, active)
<1>1. UpToDate(ring, fs2, hs2)
  <2>1. SUFFICES ASSUME NEW i \in DOMAIN ring, \A k \in DOMAIN ring : i < k => ring[k].layer # ring[i].layer
                 PROVE  ring[i].layer \in hs2 \/ ring[i].n = fs2[ring[i].layer]
    BY DEF UpToDate
  <2>2. ring[i].layer \in hs \/ ring[i].n = frames[ring[i].layer]
    BY <2>1 DEF UpToDate
  <2>. QED
    BY <2>2
<1>2. Follows(ring, fs2, hs2, sent, active)
  BY DEF Follows
<1>. QED
  BY <1>1, <1>2

(* The first frame is taken: it is not of the active layer, ...            *)
LEMMA FrameIsSkipped ==
    ASSUME NEW q \in Seq(Frame), q # <<>>, NEW fs, NEW hs, NEW s, NEW act,
           Chained(q), UpToDate(q, fs, hs), Follows(q, fs, hs, s, act), Head(q).layer # act
    PROVE  Chained(Tail(q)) /\ UpToDate(Tail(q), fs, hs) /\ Follows(Tail(q), fs, hs, s, act)
<1>. DEFINE m == Tail(q)
<1>1. /\ DOMAIN m = 1..(Len(q) - 1) /\ DOMAIN q = 1..Len(q) /\ Len(q) \in Nat \ {0}
      /\ Head(q) = q[1] /\ \A i \in DOMAIN m : m[i] = q[i + 1]
  OBVIOUS
<1>. HIDE DEF m
<1>2. /\ \A i \in DOMAIN m : i + 1 \in DOMAIN q /\ m[i] = q[i + 1] /\ i \in Nat
      /\ \A i \in DOMAIN q : i = 1 \/ (i - 1 \in DOMAIN m /\ m[i - 1] = q[i] /\ i \in Nat)
  BY <1>1
<1>3. Chained(m)
  <2>1. SUFFICES ASSUME NEW i \in DOMAIN m, NEW j \in DOMAIN m, i < j, m[i].layer = m[j].layer,
                        \A k \in DOMAIN m : i < k /\ k < j => m[k].layer # m[i].layer
                 PROVE  m[j].hole \/ m[j].key \/ m[j].n = m[i].n + 1
    BY DEF Chained
  <2>2. i + 1 \in DOMAIN q /\ j + 1 \in DOMAIN q /\ i + 1 < j + 1 /\ m[i] = q[i + 1] /\ m[j] = q[j + 1] /\ i \in Nat /\ j \in Nat
    BY <1>2, <2>1
  <2>3. ASSUME NEW k \in DOMAIN q, i + 1 < k, k < j + 1 PROVE q[k].layer # q[i + 1].layer
    <3>1. k - 1 \in DOMAIN m /\ m[k - 1] = q[k] /\ i < k - 1 /\ k - 1 < j
      BY <1>2, <2>2, <2>3
    <3>. QED
      BY <2>1, <2>2, <3>1
  <2>. QED
    BY <2>1, <2>2, <2>3 DEF Chained
<1>4. UpToDate(m, fs, hs)
  <2>1. SUFFICES ASSUME NEW i \in DOMAIN m, \A k \in DOMAIN m : i < k => m[k].layer # m[i].layer
                 PROVE  m[i].layer \in hs \/ m[i].n = fs[m[i].layer]
    BY DEF UpToDate
  <2>2. i + 1 \in DOMAIN q /\ m[i] = q[i + 1] /\ i \in Nat
    BY <1>2
  <2>3. ASSUME NEW k \in DOMAIN q, i + 1 < k PROVE q[k].layer # q[i + 1].layer
    <3>1. k - 1 \in DOMAIN m /\ m[k - 1] = q[k] /\ i < k - 1
      BY <1>2, <2>2, <2>3
    <3>. QED
      BY <2>1, <2>2, <3>1
  <2>. QED
    BY <2>2, <2>3 DEF UpToDate
<1>5. Follows(m, fs, hs, s, act)
  <2>1. SUFFICES ASSUME s.layer # -1
                 PROVE  /\ s.layer = act
                        /\ \A i \in DOMAIN m :
                             m[i].layer = act /\ (\A k \in DOMAIN m : k < i => m[k].layer # act)
                               => m[i].hole \/ m[i].key \/ m[i].n = s.n + 1
                        /\ (\A i \in DOMAIN m : m[i].layer # act) => act \in hs \/ s.n = fs[act]
    BY DEF Follows
  <2>2. /\ s.layer = act
        /\ \A i \in DOMAIN q :
             q[i].layer = act /\ (\A k \in DOMAIN q : k < i => q[k].layer # act) => q[i].hole \/ q[i].key \/ q[i].n = s.n + 1
        /\ (\A i \in DOMAIN q : q[i].layer # act) => act \in hs \/ s.n = fs[act]
    BY <2>1 DEF Follows
  <2>3. ASSUME NEW i \in DOMAIN m, m[i].layer = act, \A k \in DOMAIN m : k < i => m[k].layer # act
        PROVE  m[i].hole \/ m[i].key \/ m[i].n = s.n + 1
    <3>1. i + 1 \in DOMAIN q /\ m[i] = q[i + 1] /\ i \in Nat
      BY <1>2
    <3>2. ASSUME NEW k \in DOMAIN q, k < i + 1 PROVE q[k].layer # act
      <4>1. CASE k = 1
        BY <1>1, <4>1
      <4>2. CASE k # 1
        <5>1. k - 1 \in DOMAIN m /\ m[k - 1] = q[k] /\ k - 1 < i
          BY <1>2, <3>1, <3>2, <4>2
        <5>. QED
          BY <2>3, <5>1
      <4>. QED
        BY <4>1, <4>2
    <3>. QED
      BY <2>2, <2>3, <3>1, <3>2
  <2>4. ASSUME \A i \in DOMAIN m : m[i].layer # act PROVE act \in hs \/ s.n = fs[act]
    BY <1>1, <1>2, <2>2, <2>4
  <2>. QED
    BY <2>2, <2>3, <2>4
<1>. QED
  BY <1>3, <1>4, <1>5 DEF m

(* ... or it is sent, and decides what is active.                          *)
LEMMA FrameIsSent ==
    ASSUME NEW q \in Seq(Frame), q # <<>>, NEW fs, NEW hs, NEW s2, NEW act2,
           Chained(q), UpToDate(q, fs, hs),
           s2.layer = Head(q).layer, s2.n = Head(q).n, act2 = Head(q).layer
    PROVE  Follows(Tail(q), fs, hs, s2, act2)
<1>. DEFINE m == Tail(q)
<1>1. /\ DOMAIN m = 1..(Len(q) - 1) /\ DOMAIN q = 1..Len(q) /\ Len(q) \in Nat \ {0} /\ 1 \in DOMAIN q
      /\ Head(q) = q[1] /\ \A i \in DOMAIN m : m[i] = q[i + 1]
  OBVIOUS
<1>. HIDE DEF m
<1>2. /\ \A i \in DOMAIN m : i + 1 \in DOMAIN q /\ m[i] = q[i + 1] /\ i \in Nat /\ 1 < i + 1
      /\ \A i \in DOMAIN q : i = 1 \/ (i - 1 \in DOMAIN m /\ m[i - 1] = q[i] /\ i \in Nat)
  BY <1>1
<1>3. ASSUME NEW i \in DOMAIN m, m[i].layer = act2, \A k \in DOMAIN m : k < i => m[k].layer # act2
      PROVE  m[i].hole \/ m[i].key \/ m[i].n = s2.n + 1
  <2>1. i + 1 \in DOMAIN q /\ m[i] = q[i + 1] /\ i \in Nat /\ 1 < i + 1 /\ q[1].layer = q[i + 1].layer
    BY <1>1, <1>2, <1>3
  <2>2. ASSUME NEW k \in DOMAIN q, 1 < k, k < i + 1 PROVE q[k].layer # q[1].layer
    <3>1. k - 1 \in DOMAIN m /\ m[k - 1] = q[k] /\ k - 1 < i
      BY <1>2, <2>1, <2>2
    <3>. QED
      BY <1>1, <1>3, <3>1
  <2>3. q[i + 1].hole \/ q[i + 1].key \/ q[i + 1].n = q[1].n + 1
    BY <1>1, <2>1, <2>2 DEF Chained
  <2>. QED
    BY <1>1, <2>1, <2>3
<1>4. ASSUME \A i \in DOMAIN m : m[i].layer # act2 PROVE act2 \in hs \/ s2.n = fs[act2]
  <2>1. \A k \in DOMAIN q : 1 < k => q[k].layer # q[1].layer
    BY <1>1, <1>2, <1>4
  <2>2. q[1].layer \in hs \/ q[1].n = fs[q[1].layer]
    BY <1>1, <2>1 DEF UpToDate
  <2>. QED
    BY <1>1, <2>2
<1>5. Follows(m, fs, hs, s2, act2)
  BY <1>1, <1>3, <1>4 DEF Follows
<1>. QED
  BY <1>5 DEF m

(* What is left of the ring.                                               *)
LEMMA RestOfRing ==
    ASSUME NEW q \in Seq(Frame), q # <<>>, NEW fs, NEW hs, Chained(q), UpToDate(q, fs, hs)
    PROVE  Chained(Tail(q)) /\ UpToDate(Tail(q), fs, hs)
<1>. DEFINE s == [layer |-> -1]
            act == Head(q).layer + 1
<1>1. Head(q) \in Frame
  OBVIOUS
<1>2. act # Head(q).layer
  BY <1>1 DEF Frame
<1>3. Follows(q, fs, hs, s, act)
  BY DEF Follows
<1>. HIDE DEF s, act
<1>. QED
  BY <1>2, <1>3, FrameIsSkipped

(* A layer that is missed stays missed.                                    *)
LEMMA MissedStays ==
    ASSUME LayersInv, NEW hs, Gaps \subseteq hs
    PROVE  UpToDate(ring, frames, hs) /\ Follows(ring, frames, hs, sent, active)
BY DEF LayersInv, UpToDate, Follows

(* The writer of the stream.                                               *)
LEMMA FrameArrivesKeeps ==
    ASSUME LayersInv, NEW l \in LayerIds, NEW key \in BOOLEAN, FrameArrives(l, key)
    PROVE  LayersInv'
<1>0. LayersTypes /\ LayersTypeOK /\ ring \in Seq(Frame) /\ \A i \in DOMAIN ring : ring[i].layer \in LayerIds
  BY DEF LayersInv, LayersTypes
<1>1. l \in 0..(MaxVideoLayers - 1) /\ frames[l] \in Nat /\ l \in Nat
  BY <1>0, LayerIsCounted
<1>a. PICK frame : frame = [layer |-> l, n |-> frames[l] + 1, key |-> key,
                            hole |-> l \in holes \/ resuming > 0 \/ (l \in waits /\ ladder # "H264")]
  OBVIOUS
<1>2. /\ frames' = [frames EXCEPT ![l] = @ + 1] /\ UNCHANGED <<selectorVars, sent, ladder, paused, resuming, controlVars>>
      /\ \/ /\ ring' = Append(ring, frame) /\ holes' = holes \ {l} /\ Len(ring) < RingSize
            /\ Allow(l, key) /\ Noted(l)
         \/ ring' = ring /\ holes' = LeftOut(l) /\ Allow(l, key) /\ Noted(l)
         \/ ring' = ring /\ holes' = holes /\ ~Allow(l, key) /\ (IF paused THEN Noted(l) ELSE UNCHANGED waits)
  BY <1>a DEF FrameArrives
<1>3. LayerIds' = LayerIds /\ UNCHANGED <<layers, active, pending, age>>
  BY <1>2 DEF selectorVars, LayerIds
<1>4. /\ frames' \in [0..(MaxVideoLayers - 1) -> Nat] /\ frames'[l] = frames[l] + 1
      /\ \A x \in LayerIds : x # l => frames'[x] = frames[x]
  <2>1. frames \in [0..(MaxVideoLayers - 1) -> Nat]
    BY <1>0 DEF LayersTypeOK
  <2>2. \A x \in LayerIds : x \in 0..(MaxVideoLayers - 1)
    BY <1>0, LayerIsCounted
  <2>. QED
    BY <1>1, <1>2, <2>1, <2>2
<1>5. active \in LayerIds /\ Len(ring) \in Nat /\ RingSize \in Nat
      /\ holes \subseteq LayerIds /\ waits \subseteq LayerIds /\ resuming \in Nat
  BY <1>0, LayersAssumption DEF LayersTypeOK
<1>6. frame \in Frame /\ frame.layer = l /\ frame.n = frames[l] + 1
  BY <1>1, <1>a DEF Frame
<1>b. holes' \subseteq LayerIds /\ waits' \subseteq LayerIds
  BY <1>2, <1>5 DEF LeftOut, Noted
<1>c. Gaps \ {l} \subseteq Gaps'
  <2>1. CASE paused \/ resuming > 0
    BY <1>2, <1>3, <2>1 DEF Gaps
  <2>2. CASE ~(paused \/ resuming > 0)
    BY <1>2, <2>2 DEF Gaps, LeftOut, Noted
  <2>. QED
    BY <2>1, <2>2
<1>7. CASE ring' = Append(ring, frame) /\ holes' = holes \ {l} /\ Len(ring) < RingSize /\ Allow(l, key) /\ Noted(l)
  <2>1. Len(ring') <= RingSize /\ ring' \in Seq(Frame) /\ \A i \in DOMAIN ring' : ring'[i].layer \in LayerIds
    <3>1. DOMAIN Append(ring, frame) = 1..(Len(ring) + 1) /\ DOMAIN ring = 1..Len(ring)
          /\ Append(ring, frame)[Len(ring) + 1] = frame /\ \A i \in DOMAIN ring : Append(ring, frame)[i] = ring[i]
      BY <1>0
    <3>2. Len(Append(ring, frame)) = Len(ring) + 1 /\ Append(ring, frame) \in Seq(Frame)
      BY <1>0, <1>6
    <3>. QED
      BY <1>0, <1>5, <1>6, <1>7, <3>1, <3>2
  <2>2. LayersTypes'
    BY <1>0, <1>2, <1>3, <1>4, <1>7, <1>b, <2>1 DEF LayersTypes, LayersTypeOK, controlVars
  <2>3. Chained(ring') /\ UpToDate(ring', frames', Gaps') /\ Follows(ring', frames', Gaps', sent, active)
    <3>1. Chained(ring) /\ UpToDate(ring, frames, Gaps) /\ Follows(ring, frames, Gaps, sent, active)
      BY DEF LayersInv
    <3>2. PICK fs2, hs2 : fs2 = frames' /\ hs2 = Gaps'
      OBVIOUS
    <3>3. fs2[l] = frames[l] + 1 /\ \A x \in LayerIds : x # l => fs2[x] = frames[x]
      BY <1>4, <3>2
    <3>4. l \in Gaps => frame.hole \/ frame.key
      <4>1. frame.hole = (l \in holes \/ resuming > 0 \/ (l \in waits /\ ladder # "H264")) /\ frame.key = key
        BY <1>a
      <4>2. ~paused /\ (l \in waits => key \/ ladder # "H264")
        BY <1>7 DEF Allow
      <4>. QED
        BY <4>1, <4>2 DEF Gaps
    <3>5. Gaps \ {l} \subseteq hs2
      BY <1>c, <3>2
    <3>6. LET m == Append(ring, frame)
          IN  Chained(m) /\ UpToDate(m, fs2, hs2) /\ Follows(m, fs2, hs2, sent, active)
      BY <1>0, <1>1, <1>5, <1>6, <3>1, <3>3, <3>4, <3>5, FrameIsQueued
    <3>. QED
      BY <1>7, <3>2, <3>6
  <2>. QED
    BY <1>2, <1>3, <2>2, <2>3 DEF LayersInv
<1>8. CASE /\ ring' = ring
           /\ \/ holes' = LeftOut(l) /\ Allow(l, key) /\ Noted(l)
              \/ holes' = holes /\ ~Allow(l, key) /\ (IF paused THEN Noted(l) ELSE UNCHANGED waits)
  <2>1. l = active \/ (\E i \in DOMAIN ring : ring[i].layer = l) => l \in Gaps'
    <3>1. CASE holes' = LeftOut(l)
      BY <1>2, <1>3, <3>1 DEF Gaps, LeftOut
    <3>2. CASE ~Allow(l, key) /\ (IF paused THEN Noted(l) ELSE UNCHANGED waits)
      BY <1>2, <1>3, <3>2 DEF Gaps, Allow
    <3>. QED
      BY <1>8, <3>1, <3>2
  <2>2. LayersTypes'
    BY <1>0, <1>2, <1>3, <1>4, <1>8, <1>b DEF LayersTypes, LayersTypeOK, controlVars
  <2>3. UpToDate(ring, frames', Gaps') /\ Follows(ring, frames', Gaps', sent, active)
    <3>1. UpToDate(ring, frames, Gaps) /\ Follows(ring, frames, Gaps, sent, active)
      BY DEF LayersInv
    <3>2. PICK fs2, hs2 : fs2 = frames' /\ hs2 = Gaps'
      OBVIOUS
    <3>3. /\ \A x \in LayerIds : x # l => fs2[x] = frames[x]
          /\ Gaps \ {l} \subseteq hs2 /\ (l = active \/ (\E i \in DOMAIN ring : ring[i].layer = l) => l \in hs2)
      BY <1>4, <1>c, <2>1, <3>2
    <3>4. UpToDate(ring, fs2, hs2) /\ Follows(ring, fs2, hs2, sent, active)
      BY <1>0, <1>5, <3>1, <3>3, FrameIsLeftOut
    <3>. QED
      BY <3>2, <3>4
  <2>. QED
    BY <1>2, <1>3, <1>8, <2>2, <2>3 DEF LayersInv
<1>. QED
  BY <1>2, <1>7, <1>8

(* A unit without payload.                                                 *)
LEMMA FragmentArrivesKeeps ==
    ASSUME LayersInv, NEW l \in LayerIds, FragmentArrives(l)
    PROVE  LayersInv'
<1>0. LayersTypes /\ LayersTypeOK /\ \A i \in DOMAIN ring : ring[i].layer \in LayerIds
  BY DEF LayersInv, LayersTypes
<1>1. UNCHANGED <<selectorVars, frames, ring, sent, ladder, paused, resuming, controlVars>>
      /\ Noted(l) /\ holes' = IF ~paused /\ l \in waits THEN LeftOut(l) ELSE holes
  BY DEF FragmentArrives
<1>2. LayerIds' = LayerIds /\ UNCHANGED <<layers, active>>
  BY <1>1 DEF selectorVars, LayerIds
<1>3. holes \subseteq LayerIds /\ waits \subseteq LayerIds /\ active \in LayerIds
  BY <1>0 DEF LayersTypeOK
<1>4. holes' \subseteq LayerIds /\ waits' \subseteq LayerIds
  BY <1>1, <1>3 DEF LeftOut, Noted
<1>5. LayersTypes'
  BY <1>0, <1>1, <1>2, <1>4 DEF LayersTypes, LayersTypeOK, selectorVars, controlVars
<1>6. UpToDate(ring, frames, Gaps') /\ Follows(ring, frames, Gaps', sent, active)
  <2>1. CASE paused \/ resuming > 0 \/ l \notin waits
    <3>1. Gaps \subseteq Gaps'
      BY <1>1, <1>2, <2>1 DEF Gaps, Noted
    <3>2. PICK hs2 : hs2 = Gaps'
      OBVIOUS
    <3>. QED
      BY <3>1, <3>2, MissedStays
  <2>2. CASE ~paused /\ ~(resuming > 0) /\ l \in waits
    <3>1. PICK hs2 : hs2 = Gaps'
      OBVIOUS
    <3>2. Gaps' = LeftOut(l) \cup (waits \ {l})
      BY <1>1, <2>2 DEF Gaps, Noted
    <3>3. Gaps \ {l} \subseteq hs2 /\ (l = active \/ (\E i \in DOMAIN ring : ring[i].layer = l) => l \in hs2)
      BY <2>2, <3>1, <3>2 DEF Gaps, LeftOut
    <3>4. UpToDate(ring, frames, Gaps) /\ Follows(ring, frames, Gaps, sent, active)
      BY DEF LayersInv
    <3>5. UpToDate(ring, frames, hs2) /\ Follows(ring, frames, hs2, sent, active)
      BY <1>0, <1>3, <3>3, <3>4, FrameIsLeftOut
    <3>. QED
      BY <3>1, <3>5
  <2>. QED
    BY <2>1, <2>2
<1>. QED
  BY <1>1, <1>2, <1>5, <1>6 DEF LayersInv

(* The handlers of SET_MEDIA_STATE.                                        *)
LEMMA MediaStateKeeps ==
    ASSUME LayersInv, PauseVideo \/ ResumeSwap \/ ResumeAdd
    PROVE  LayersInv'
<1>0. LayersTypes /\ LayersTypeOK
  BY DEF LayersInv, LayersTypes
<1>1. UNCHANGED <<selectorVars, frameVars, ladder, controlVars>>
  BY DEF PauseVideo, ResumeSwap, ResumeAdd
<1>2. LayerIds' = LayerIds /\ UNCHANGED <<layers, active, frames, ring, sent, holes>>
  BY <1>1 DEF selectorVars, frameVars, LayerIds
<1>3. holes \subseteq LayerIds /\ waits \subseteq LayerIds /\ resuming \in Nat /\ paused \in BOOLEAN
  BY <1>0 DEF LayersTypeOK
<1>4. waits' \subseteq LayerIds /\ resuming' \in Nat /\ paused' \in BOOLEAN
  <2>1. resuming' \in {resuming, resuming + 1} \/ (resuming > 0 /\ resuming' = resuming - 1)
    BY DEF PauseVideo, ResumeSwap, ResumeAdd
  <2>2. waits' \in {waits, LayerIds} /\ (paused' = TRUE \/ paused' = FALSE \/ paused' = paused)
    BY DEF PauseVideo, ResumeSwap, ResumeAdd
  <2>3. resuming' \in Nat
    BY <1>3, <2>1
  <2>4. waits' \subseteq LayerIds
    BY <1>3, <2>2
  <2>. QED
    BY <1>3, <2>2, <2>3, <2>4
<1>5. LayersTypes'
  BY <1>0, <1>1, <1>2, <1>4 DEF LayersTypes, LayersTypeOK, selectorVars, controlVars
<1>6. Gaps \subseteq Gaps'
  <2>1. Gaps \subseteq LayerIds
    BY <1>3 DEF Gaps
  <2>2. Gaps' = LayerIds
    <3>1. CASE PauseVideo
      BY <1>2, <3>1 DEF PauseVideo, Gaps
    <3>2. CASE ResumeSwap
      BY <1>2, <1>3, <3>2 DEF ResumeSwap, Gaps
    <3>3. CASE ResumeAdd
      BY <1>2, <1>3, <3>3 DEF ResumeAdd, Gaps
    <3>. QED
      BY <3>1, <3>2, <3>3
  <2>. QED
    BY <2>1, <2>2
<1>7. PICK hs2 : hs2 = Gaps'
  OBVIOUS
<1>8. UpToDate(ring, frames, hs2) /\ Follows(ring, frames, hs2, sent, active)
  BY <1>6, <1>7, MissedStays
<1>. QED
  BY <1>2, <1>5, <1>7, <1>8 DEF LayersInv

(* The callback of the reader.                                             *)
LEMMA FrameTakenKeeps == ASSUME LayersInv, FrameTaken PROVE LayersInv'
<1>0. LayersTypes /\ LayersTypeOK /\ ring \in Seq(Frame) /\ \A i \in DOMAIN ring : ring[i].layer \in LayerIds
  BY DEF LayersInv, LayersTypes
<1>a. PICK f : f = Head(ring)
  OBVIOUS
<1>b. PICK r : r = OnAccessUnit(f)
  OBVIOUS
<1>1. /\ ring # <<>> /\ ring' = Tail(ring) /\ active' = r.active /\ pending' = r.pending
      /\ sent' = IF ~r.forward THEN sent
                 ELSE [layer |-> f.layer, n |-> f.n,
                       ok |-> f.key \/ f.hole \/ sent.layer = -1 \/ (sent.layer = f.layer /\ sent.n = f.n - 1)]
      /\ UNCHANGED <<layers, age, frames, holes, mediaStateVars, controlVars>>
  BY <1>a, <1>b DEF FrameTaken
<1>2. f \in Frame /\ f = ring[1] /\ 1 \in DOMAIN ring /\ f.layer \in LayerIds
  BY <1>0, <1>1, <1>a
<1>3. f.layer \in Nat /\ f.n \in Nat /\ f.key \in BOOLEAN /\ f.hole \in BOOLEAN
  BY <1>2 DEF Frame
<1>4. /\ r.forward => r.active = f.layer /\ (f.layer = active \/ f.key)
      /\ ~r.forward => r.active = active /\ f.layer # active
      /\ r.pending \in {-1, pending}
  BY <1>b DEF OnAccessUnit
<1>5. LayerIds' = LayerIds /\ Gaps' = Gaps
  BY <1>1 DEF LayerIds, Gaps, mediaStateVars
<1>6. /\ ring' \in Seq(Frame) /\ Len(ring') <= RingSize /\ \A i \in DOMAIN ring' : ring'[i].layer \in LayerIds
  <2>1. Len(ring) <= RingSize /\ RingSize \in Nat
    BY <1>0, LayersAssumption DEF LayersTypeOK
  <2>. QED
    BY <1>0, <1>1, <2>1
<1>7. Chained(ring') /\ UpToDate(ring', frames, Gaps)
  BY <1>0, <1>1, RestOfRing DEF LayersInv
<1>8. CASE ~r.forward
  <2>1. sent' = sent /\ active' = active
    BY <1>1, <1>4, <1>8
  <2>2. Follows(ring', frames, Gaps, sent, active)
    BY <1>0, <1>1, <1>4, <1>8, <1>a, FrameIsSkipped DEF LayersInv
  <2>3. LayersTypes'
    BY <1>0, <1>1, <1>4, <1>5, <1>6, <2>1 DEF LayersTypes, LayersTypeOK, mediaStateVars, controlVars
  <2>. QED
    BY <1>1, <1>5, <1>7, <2>1, <2>2, <2>3 DEF LayersInv
<1>9. CASE r.forward
  <2>1. active' = f.layer /\ sent' = [layer |-> f.layer, n |-> f.n, ok |-> sent'.ok]
        /\ sent'.ok = (f.key \/ f.hole \/ sent.layer = -1 \/ (sent.layer = f.layer /\ sent.n = f.n - 1))
    BY <1>1, <1>4, <1>9
  <2>2. sent'.layer = f.layer /\ sent'.n = f.n /\ sent'.ok \in BOOLEAN
    <3>1. ASSUME NEW b, sent' = [layer |-> f.layer, n |-> f.n, ok |-> b] PROVE sent'.layer = f.layer /\ sent'.n = f.n
      BY <3>1
    <3>. QED
      BY <2>1, <3>1
  <2>3. Follows(ring', frames, Gaps, sent', active')
    BY <1>0, <1>1, <1>a, <2>1, <2>2, FrameIsSent DEF LayersInv
  <2>4. sent' \in [layer : LayerIds \cup {-1}, n : Nat, ok : BOOLEAN]
    BY <1>2, <1>3, <2>1, <2>2
  <2>5. LayersTypes'
    BY <1>0, <1>1, <1>2, <1>4, <1>5, <1>6, <2>1, <2>4 DEF LayersTypes, LayersTypeOK, mediaStateVars, controlVars
  <2>6. sent'.ok
    <3>1. CASE f.layer = active /\ sent.layer # -1
      <4>1. sent.layer = active /\ (f.hole \/ f.key \/ f.n = sent.n + 1)
        <5>1. \A k \in DOMAIN ring : ~(k < 1)
          BY <1>0
        <5>. QED
          BY <1>2, <3>1, <5>1 DEF LayersInv, Follows
      <4>2. sent.n \in Nat
        BY <1>0 DEF LayersTypeOK
      <4>3. f.hole \/ f.key \/ (sent.layer = f.layer /\ sent.n = f.n - 1)
        BY <1>3, <3>1, <4>1, <4>2
      <4>. QED
        BY <2>1, <4>3
    <3>2. CASE ~(f.layer = active /\ sent.layer # -1)
      BY <1>4, <1>9, <2>1, <3>2
    <3>. QED
      BY <3>1, <3>2
  <2>. QED
    BY <1>1, <1>5, <1>7, <2>3, <2>5, <2>6 DEF LayersInv
<1>. QED
  BY <1>8, <1>9

(* The client and the controller do not touch what is queued.              *)
LEMMA ControlKeeps ==
    ASSUME LayersInv, UNCHANGED <<layers, active, frameVars, mediaStateVars>>, LayersTypeOK'
    PROVE  LayersInv'
BY DEF LayersInv, LayersTypes, frameVars, mediaStateVars, LayerIds, Gaps

(* Steps of the reader of layers.                                          *)
LEMMA LayersNextKeeps == ASSUME LayersInv, LayersNext PROVE LayersInv'
<1>0. LayersTypes /\ LayersTypeOK
  BY DEF LayersInv, LayersTypes
<1>1. CASE TimePasses
  <2>1. LayersTypeOK'
    BY <1>0, <1>1, LayersAssumption DEF TimePasses, LayersTypeOK, LayerIds, frameVars, mediaStateVars, controlVars
  <2>. QED
    BY <1>1, <2>1, ControlKeeps DEF TimePasses
<1>2. CASE SetMode
  <2>1. LayersTypeOK'
    BY <1>0, <1>2 DEF SetMode, LayersTypeOK, LayerIds, frameVars, mediaStateVars, selectorVars
  <2>. QED
    BY <1>2, <2>1, ControlKeeps DEF SetMode, selectorVars
<1>3. CASE CooldownEnds
  <2>1. LayersTypeOK'
    BY <1>0, <1>3 DEF CooldownEnds, LayersTypeOK, LayerIds, frameVars, mediaStateVars, selectorVars
  <2>. QED
    BY <1>3, <2>1, ControlKeeps DEF CooldownEnds, selectorVars
<1>4. ASSUME NEW l \in LayerIds, NEW byHand \in BOOLEAN, ClientSelects(l, byHand) PROVE LayersInv'
  <2>1. active' = active
    <3>1. layers = 1 => l = 0 /\ active = 0
      BY <1>0 DEF LayersTypeOK, LayerIds
    <3>. QED
      BY <1>4, <3>1 DEF ClientSelects, Select, Passthrough
  <2>2. UNCHANGED <<layers, frameVars, mediaStateVars, upgradeCount, downgradeCount, ticks, bound>>
        /\ pending' \in {-1, l} /\ age' = 0 /\ cooling' = TRUE /\ advice' \in {advice, -1} /\ auto' \in BOOLEAN
    BY <1>0, <1>4 DEF ClientSelects, Select, LayersTypeOK
  <2>3. LayersTypeOK'
    BY <1>0, <2>1, <2>2, LayersAssumption DEF LayersTypeOK, LayerIds, frameVars, mediaStateVars
  <2>. QED
    BY <2>1, <2>2, <2>3, ControlKeeps
<1>5. ASSUME NEW v \in {"up", "down", "hold"}, ABRTick(v) PROVE LayersInv'
  <2>1. UNCHANGED <<selectorVars, frameVars, mediaStateVars, auto, cooling, bound>> /\ ticks' = ticks + 1
    BY <1>5 DEF ABRTick
  <2>2. /\ upgradeCount' \in 0..UpgradeConfirmations /\ downgradeCount' \in 0..DowngradeConfirmations
        /\ advice' \in LayerIds \cup {-1}
    <3>1. /\ upgradeCount \in 0..UpgradeConfirmations /\ downgradeCount \in 0..DowngradeConfirmations
          /\ advice \in LayerIds \cup {-1}
      BY <1>0 DEF LayersTypeOK
    <3>2. PICK e : e = Evaluate(v)
      OBVIOUS
    <3>3. /\ e.down \in 0..DowngradeConfirmations /\ e.up \in 0..UpgradeConfirmations
          /\ e.target \in LayerIds \cup {-1}
      <4>1. PICK down : down = IF v = "down" THEN downgradeCount + 1 ELSE 0
        OBVIOUS
      <4>2. PICK up : up = IF v = "up" THEN upgradeCount + 1 ELSE 0
        OBVIOUS
      <4>3. \A d : Step(active, d) \in LayerIds \cup {-1}
        BY DEF Step
      <4>4. e = [down |-> IF down >= DowngradeConfirmations THEN 0 ELSE down,
                 up |-> IF up >= UpgradeConfirmations THEN 0 ELSE up,
                 target |-> IF down >= DowngradeConfirmations THEN Step(active, -1)
                            ELSE IF up >= UpgradeConfirmations THEN Step(active, 1) ELSE -1]
        BY <3>2, <4>1, <4>2 DEF Evaluate
      <4>5. down \in Nat /\ up \in Nat
        BY <3>1, <4>1, <4>2, LayersAssumption
      <4>. QED
        BY <4>3, <4>4, <4>5, LayersAssumption
    <3>4. \/ upgradeCount' = 0 /\ downgradeCount' = 0 /\ advice' = advice
          \/ UNCHANGED <<upgradeCount, downgradeCount, advice>>
          \/ upgradeCount' = e.up /\ downgradeCount' = e.down /\ advice' \in {e.target, advice}
      BY <1>5, <3>2 DEF ABRTick
    <3>. QED
      BY <3>1, <3>3, <3>4, LayersAssumption
  <2>3. LayersTypeOK'
    BY <1>0, <2>1, <2>2 DEF LayersTypeOK, LayerIds, frameVars, mediaStateVars, selectorVars
  <2>. QED
    BY <2>1, <2>3, ControlKeeps DEF selectorVars
<1>. QED
  BY <1>1, <1>2, <1>3, <1>4, <1>5, FrameArrivesKeeps, FragmentArrivesKeeps, MediaStateKeeps, FrameTakenKeeps DEF LayersNext

(* Every step of every scene keeps the invariant of the layers.            *)
LEMMA LayersStep == LayersInv /\ [Next]_vars => LayersInv'
<1>1. ASSUME LayersInv, UNCHANGED layersVars PROVE LayersInv'
  BY <1>1, ControlKeeps DEF layersVars, selectorVars, frameVars, mediaStateVars, controlVars, LayersInv, LayersTypes, LayersTypeOK, LayerIds
<1>2. ASSUME LayersInv, [Next]_vars PROVE LayersNext \/ UNCHANGED layersVars
  BY <1>2 DEF Next, vars, StreamScene, LayersScene, RelayScene
<1>. QED
  BY <1>1, <1>2, LayersNextKeeps

(* What is forwarded to a WHEP reader can be decoded: the callback of      *)
(* SetupFromStreamABR switches at key frames, and the frames of a layer    *)
(* that it sends follow each other, but for those ForwardedDecodes names.  *)
THEOREM ForwardedDecodesHolds == Spec => []ForwardedDecodes
<1>1. Init => LayersInv
  BY LayersStart DEF Init
<1>2. LayersInv => ForwardedDecodes
  BY DEF LayersInv, ForwardedDecodes
<1>. QED
  BY <1>1, <1>2, LayersStep, PTL DEF Spec

(* Type correctness of streams, readers and layers.                        *)
THEOREM TypeCorrect == Spec => []TypeOK
<1>. DEFINE TypeInv == StreamInv /\ LayersInv /\ scene \in {"stream", "layers", "relay"}
<1>1. Init => TypeInv
  BY StreamStarts, LayersStart DEF Init
<1>2. TypeInv /\ [Next]_vars => TypeInv'
  <2>1. ASSUME scene \in {"stream", "layers", "relay"}, [Next]_vars PROVE scene' = scene
    BY <2>1 DEF Next, vars, mediaVars, StreamScene, LayersScene, RelayScene
  <2>. QED
    BY <2>1, StreamStep, LayersStep
<1>3. TypeInv => TypeOK
  <2>1. SUFFICES ASSUME TypeInv PROVE TypeOK
    OBVIOUS
  <2>2. SubTypes /\ ReaderTypes /\ LayersTypeOK
    BY <2>1 DEF StreamInv, SubInv, ReaderInv, LayersInv, LayersTypes
  <2>3. \A r \in Readers : queue[r] \in Seq(Unit) /\ Len(queue[r]) <= WriteQueueSize
    BY <2>1, <2>2 DEF StreamInv, ReaderInv, ReaderTypes, ReadersAreSound, Sound
  <2>4. StreamTypeOK
    BY <2>2, <2>3 DEF SubTypes, ReaderTypes, StreamTypeOK
  <2>5. \A r \in Readers, f \in Fmts : track[r][f].first \in {"none", "key", "delta"}
    BY <2>2 DEF ReaderTypes, TrackState
  <2>. QED
    BY <2>1, <2>2, <2>4, <2>5 DEF ReaderTypes, TypeOK
<1>. HIDE DEF TypeInv
<1>. QED
  BY <1>1, <1>2, <1>3, PTL DEF Spec

-----------------------------------------------------------------------------
(***************************************************************************)
(* What a node writes, another one reads: the part of RelayComesBack that  *)
(* is about single medias, for every stream.                               *)
(***************************************************************************)
Conversions == WebRTCs \cup {"rtmp", "srt", "hls", "moq"}

(* The first media of the first codec of a list has a codec of the list.   *)
LEMMA FirstIsOf ==
    ASSUME NEW ms, NEW order, NEW i \in FirstOf(ms, order)
    PROVE  ms[i].codec \in {order[k] : k \in DOMAIN order}
BY DEF FirstOf, Lowest, Having

(* What a connection of WebRTC is given: video, audio that it is able to   *)
(* carry, or KLV, which goes in a data channel.                            *)
LEMMA WebRTCTakes ==
    ASSUME NEW p \in WebRTCs, NEW ms, NEW fourCC, NEW variant,
           NEW i \in FromStream(p, ms, fourCC, variant).tracks
    PROVE  /\ ~OpusRefused(ms[i]) /\ ~G711Refused(ms[i]) /\ ~LPCMRefused(ms[i])
           /\ ms[i].codec \in {"AV1", "VP9", "VP8", "H265", "H264", "Opus", "G722", "G711", "LPCM", "KLV"}
<1>. DEFINE Video == {"AV1", "VP9", "VP8", "H265", "H264"}
            Audio == {"Opus", "G722", "G711", "LPCM"}
<1>1. PICK videos : /\ \A j \in videos : ms[j].codec \in Video
                    /\ i \in WebRTCTaken(ms, videos).tracks
  <2>1. CASE p = "webrtc"
    <3>1. \A j \in WebRTCVideo(ms) : ms[j].codec \in Video
      BY FirstIsOf DEF WebRTCVideo
    <3>. QED
      BY <2>1, <3>1 DEF FromStream, WebRTCFromStream
  <2>2. ASSUME NEW is PROVE \A j \in OneCodec(ms, is) : ms[j].codec \in Video
    BY DEF OneCodec, Having
  <2>3. CASE p = "multi"
    <3>1. FromStream(p, ms, fourCC, variant) = MultiFromStream(ms, 2)
      BY <2>3 DEF FromStream
    <3>2. OneCodec(ms, LayersUpTo(ms, 2)) # {}
      BY <3>1 DEF MultiFromStream, Taken
    <3>. QED
      BY <2>2, <3>1, <3>2 DEF MultiFromStream
  <2>4. CASE p = "simulcast"
    <3>1. FromStream(p, ms, fourCC, variant) = SimulcastFromStream(ms)
      BY <2>4 DEF FromStream
    <3>2. OneCodec(ms, DOMAIN ms) # {}
      BY <3>1 DEF SimulcastFromStream, Taken
    <3>. QED
      BY <2>2, <3>1, <3>2 DEF SimulcastFromStream
  <2>. QED
    BY <2>1, <2>3, <2>4 DEF WebRTCs
<1>. DEFINE all == videos \cup WebRTCAudio(ms) \cup Lowest(Having(ms, "KLV"))
<1>2. i \in all /\ ~OpusRefused(ms[i]) /\ ~G711Refused(ms[i]) /\ ~LPCMRefused(ms[i])
  BY <1>1 DEF WebRTCTaken, Taken
<1>3. \A j \in WebRTCAudio(ms) : ms[j].codec \in Audio
  BY FirstIsOf DEF WebRTCAudio
<1>4. \A j \in Lowest(Having(ms, "KLV")) : ms[j].codec = "KLV"
  BY DEF Lowest, Having
<1>. QED
  BY <1>1, <1>2, <1>3, <1>4

(* A media that FromStream of a protocol registers has on the wire a codec *)
(* that ToStream of the protocol reads, except KLV over WebRTC, which is   *)
(* not read, and FLAC, G711 and LPCM over MoQ, which its ToStream refuses. *)
THEOREM WrittenIsRead ==
    ASSUME NEW p \in Conversions, NEW ms, NEW fourCC, NEW variant,
           NEW i \in FromStream(p, ms, fourCC, variant).tracks
    PROVE  \/ Wire(p, ms[i]) \in ReadBy(p)
           \/ p \in WebRTCs /\ ms[i].codec = "KLV"
           \/ p = "moq" /\ Wire(p, ms[i]) \in {"FLAC", "LPCM"}
<1>1. CASE p \in WebRTCs
  <2>1. ms[i].codec \in WebRTCToStream \cup {"KLV"}
    BY <1>1, WebRTCTakes DEF WebRTCToStream
  <2>2. Wire(p, ms[i]) = WebRTCWire(ms[i]) /\ ReadBy(p) = WebRTCToStream
    BY <1>1 DEF Wire, ReadBy, WebRTCs
  <2>. QED
    BY <1>1, <2>1, <2>2 DEF WebRTCWire, WebRTCToStream
<1>2. CASE p = "rtmp"
  <2>1. i \in RTMPFromStream(ms, fourCC).tracks
    BY <1>2 DEF FromStream
  <2>2. \/ RTMPVideo(ms[i], fourCC) \/ RTMPAudio(ms[i], fourCC)
        \/ LegacyVideo(ms[i]) \/ LegacyAudio(ms[i])
    BY <2>1 DEF RTMPFromStream, Taken, Legacy, Lowest
  <2>3. ms[i].codec \in RTMPToStreamVideo \cup RTMPToStreamAudio \cup {"LATM"}
    BY <2>2 DEF RTMPVideo, RTMPAudio, LegacyVideo, LegacyAudio, LegacyMPEG, LegacyPCM,
                RTMPToStreamVideo, RTMPToStreamAudio
  <2>4. Wire(p, ms[i]) = IF ms[i].codec = "LATM" THEN "MPEG4Audio" ELSE ms[i].codec
    BY <1>2 DEF Wire, WebRTCs
  <2>5. ReadBy(p) = RTMPToStreamVideo \cup RTMPToStreamAudio
    BY <1>2 DEF ReadBy, WebRTCs
  <2>. QED
    BY <2>3, <2>4, <2>5 DEF RTMPToStreamAudio
<1>3. CASE p = "srt"
  <2>1. i \in MPEGTSFromStream(ms).tracks
    BY <1>3 DEF FromStream
  <2>2. ms[i].codec \in MPEGTSVideo \cup MPEGTSOther
    BY <2>1 DEF MPEGTSFromStream, Taken
  <2>3. Wire(p, ms[i]) = ms[i].codec /\ ReadBy(p) = MPEGTSToStreamVideo \cup MPEGTSToStreamOther
    BY <1>3 DEF Wire, ReadBy, WebRTCs
  <2>. QED
    BY <2>2, <2>3 DEF MPEGTSVideo, MPEGTSOther, MPEGTSToStreamVideo, MPEGTSToStreamOther
<1>4. CASE p = "hls"
  <2>1. i \in HLSFromStream(ms, variant).tracks
    BY <1>4 DEF FromStream
  <2>2. i \in HLSVideo(ms) \/ HLSAudio(ms[i]) \/ ms[i].codec = "KLV"
    BY <2>1 DEF HLSFromStream, Taken
  <2>3. i \in HLSVideo(ms) => ms[i].codec \in {"AV1", "VP9", "H265", "H264"}
    BY FirstIsOf DEF HLSVideo
  <2>4. ms[i].codec \in HLSToStream \cup {"LATM"}
    BY <2>2, <2>3 DEF HLSAudio, HLSToStream
  <2>5. Wire(p, ms[i]) = IF ms[i].codec = "LATM" THEN "MPEG4Audio" ELSE ms[i].codec
    BY <1>4 DEF Wire, WebRTCs
  <2>6. ReadBy(p) = HLSToStream
    BY <1>4 DEF ReadBy, WebRTCs
  <2>. QED
    BY <2>4, <2>5, <2>6 DEF HLSToStream
<1>5. CASE p = "moq"
  <2>1. ms[i].codec \in MoQVideo \/ MoQAudio(ms[i])
    BY <1>5 DEF FromStream, MoQFromStream, Taken
  <2>2. Wire(p, ms[i]) = IF ms[i].codec = "G711" THEN "LPCM" ELSE ms[i].codec
    BY <1>5 DEF Wire, WebRTCs
  <2>3. ReadBy(p) = MoQToStream
    BY <1>5 DEF ReadBy, WebRTCs
  <2>. QED
    BY <1>5, <2>1, <2>2, <2>3 DEF MoQVideo, MoQAudio, MoQToStream
<1>. QED
  BY <1>1, <1>2, <1>3, <1>4, <1>5 DEF Conversions

(* What FromStream of WebRTC offers, with its rate and channels, a peer    *)
(* connection of another node is able to take, whatever the stream; LPCM   *)
(* that is mono or has 32 kHz is the exception.                            *)
THEOREM OfferedIsTaken ==
    ASSUME NEW p \in WebRTCs, NEW ms, NEW fourCC, NEW variant,
           NEW i \in FromStream(p, ms, fourCC, variant).tracks, ms[i].codec # "KLV"
    PROVE  LET t == Capability(ms[i])
           IN  CanTake(t) \/ (t.codec = "LPCM" /\ (t.ch = 1 \/ t.rate = 32000))
<1>. DEFINE m == ms[i]
            t == Capability(m)
<1>1. /\ ~OpusRefused(m) /\ ~G711Refused(m) /\ ~LPCMRefused(m)
      /\ m.codec \in {"AV1", "VP9", "VP8", "H265", "H264", "Opus", "G722", "G711", "LPCM"}
  BY WebRTCTakes
<1>. HIDE DEF m
<1>2. CASE IsVideo(m.codec)
  <2>1. t = [codec |-> m.codec, rate |-> 90000, ch |-> 0]
    BY <1>2 DEF Capability, WebRTCWire, IsVideo
  <2>. QED
    BY <1>2, <2>1 DEF CanTake, IsVideo, Incoming, IncomingVideoCodecs, m
<1>3. CASE m.codec = "Opus"
  <2>1. t = [codec |-> "Opus", rate |-> 48000, ch |-> IF m.ch > 2 THEN m.ch ELSE 2]
    BY <1>3 DEF Capability, WebRTCWire
  <2>2. m.ch \in 1..8
    BY <1>1, <1>3 DEF OpusRefused
  <2>3. t \in Incoming({"Opus"}, {48000}, 2..8)
    BY <2>1, <2>2 DEF Incoming
  <2>. QED
    BY <2>1, <2>3 DEF CanTake, IncomingAudioCodecs, m
<1>4. CASE m.codec = "G722"
  <2>1. t = [codec |-> "G722", rate |-> 8000, ch |-> 0]
    BY <1>4 DEF Capability, WebRTCWire
  <2>2. t \in Incoming({"G722"}, {8000}, {0})
    BY <2>1 DEF Incoming
  <2>. QED
    BY <2>1, <2>2 DEF CanTake, IncomingAudioCodecs, m
<1>5. CASE m.codec = "G711" /\ m.rate = 8000
  <2>1. t = [codec |-> "G711", rate |-> 8000, ch |-> IF m.ch # 1 THEN m.ch ELSE 0]
    BY <1>5 DEF Capability, WebRTCWire
  <2>2. m.ch \in {1, 2}
    BY <1>1, <1>5 DEF G711Refused
  <2>3. t \in Incoming({"G711"}, {8000}, {0, 2})
    BY <2>1, <2>2 DEF Incoming
  <2>. QED
    BY <2>1, <2>3 DEF CanTake, IncomingAudioCodecs, m
<1>6. CASE m.codec = "LPCM" \/ (m.codec = "G711" /\ m.rate # 8000)
  <2>1. t = [codec |-> "LPCM", rate |-> m.rate, ch |-> m.ch]
    BY <1>6 DEF Capability, WebRTCWire
  <2>2. m.ch \in {1, 2} /\ m.rate \in WebRTCRates
    BY <1>1, <1>6 DEF G711Refused, LPCMRefused
  <2>3. m.ch = 2 /\ m.rate # 32000 => t \in Incoming({"LPCM"}, {8000, 16000, 48000}, {2})
    BY <2>1, <2>2 DEF Incoming, WebRTCRates
  <2>. QED
    BY <2>1, <2>2, <2>3 DEF CanTake, IncomingAudioCodecs, m
<1>. QED
  BY <1>1, <1>2, <1>3, <1>4, <1>5, <1>6 DEF IsVideo, m
=============================================================================
