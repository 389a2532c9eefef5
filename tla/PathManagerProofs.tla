------------------------- MODULE PathManagerProofs -------------------------
(***************************************************************************)
(* Proofs about PathManager, for any sets of names, settings and           *)
(* configuration files, and any bounds on paths and reloads.               *)
(***************************************************************************)
EXTENDS PathManager, FiniteSetTheorems, TLAPS

(***************************************************************************)
(* The inductive invariant.                                                *)
(***************************************************************************)
(* Paths are numbered in the order they are created, and what is not       *)
(* created yet has done nothing.                                           *)
BornInOrder ==
    /\ \A i \in PathIds : phase[i] = "unborn" <=> i > created
    /\ \A i \in Born : name[i] \in Names /\ conf[i] \in Conf
    /\ \A i \in PathIds : i > created => /\ ~available[i] /\ ~ready[i] /\ ~cancelled[i]
    /\ \A g \in inflight : g.path \in Born
    /\ overlapped \subseteq Born

(* The map holds paths that run and were not told to close, under their    *)
(* own names.                                                              *)
MapIsSound ==
    /\ \A n \in Names : paths[n] # None => paths[n] \in Born /\ name[paths[n]] = n
    /\ \A i \in Mapped : ~cancelled[i] /\ phase[i] # "done"

(* Whoever runs outside the map is the path the manager is waiting for,    *)
(* whose name is free until it has ended.                                  *)
OthersAreAwaited ==
    /\ \A i \in Live : i \in Mapped \/ (cancelled[i] /\ pc = "waiting" /\ waitingFor = i)
    /\ pc = "waiting" => waitingFor \in Born /\ paths[name[waitingFor]] = None

(* doReloadConf is in progress exactly while there is a new configuration. *)
ReloadIsOn ==
    /\ pc = "select" => newConfs = pathConfs
    /\ pc = "reloading" => newConfs # pathConfs
    /\ newConfs = pathConfs => todo = {}
    /\ newConfs # pathConfs => /\ created + Cardinality(Names) <= MaxPaths
                               /\ reloads > 0
    /\ \A n \in todo : paths[n] # None

(* The configuration a path is measured by: doReloadConf has not looked at *)
(* the paths in todo yet.                                                  *)
ConfsOf(i) == IF name[i] \in todo THEN pathConfs ELSE newConfs

(* Every path in the map belongs to its configuration, also during a       *)
(* reload.                                                                 *)
MappedAreConfigured ==
    \A i \in Mapped : /\ IsConfigured(ConfsOf(i), name[i])
                      /\ confName[i] = FindPathConf(ConfsOf(i), name[i]).name

(* A path that was never overtaken has one reload on its way at most.  It  *)
(* carries the path's configuration; without one, the path has it.         *)
ReloadsAreCurrent ==
    /\ \A g, h \in inflight : g.path = h.path /\ g.path \notin overlapped => g = h
    /\ \A g \in inflight : g.path \in Mapped \ overlapped =>
          g.conf = FindPathConf(ConfsOf(g.path), name[g.path])
    /\ \A i \in Mapped \ overlapped :
          (\A g \in inflight : g.path # i) => conf[i] = FindPathConf(ConfsOf(i), name[i])

Inv ==
    /\ TypeOK /\ BornInOrder /\ MapIsSound /\ OthersAreAwaited /\ ReloadIsOn
    /\ MappedAreConfigured /\ ReadyFlagAgrees /\ ReloadsAreCurrent

(***************************************************************************)
(* Configurations and numbers.                                             *)
(***************************************************************************)
(* The configuration that FindPathConf returns is filed under its own      *)
(* name: pm.pathConfs[pa.confName] finds it again.                         *)
LEMMA FindFacts ==
    ASSUME NEW confs \in Configurations, NEW n \in Names, IsConfigured(confs, n)
    PROVE  /\ FindPathConf(confs, n) \in Conf
           /\ FindPathConf(confs, n).name \in ConfNames
           /\ confs[FindPathConf(confs, n).name] = FindPathConf(confs, n)
<1>1. PICK S \in SUBSET ConfNames : confs \in [S -> Conf] /\ \A m \in S : confs[m].name = m
  BY ManagerAssumption DEF PathConfs
<1> DEFINE m == CHOOSE m \in Matches(confs, n) : TRUE
<1>2. m \in Matches(confs, n)
  BY DEF IsConfigured
<1>3. m \in S
  BY <1>1, <1>2 DEF Matches
<1>4. confs[m] \in Conf /\ confs[m].name = m
  BY <1>1, <1>3
<1>. QED
  BY <1>1, <1>3, <1>4 DEF FindPathConf

(* A name with a configuration of its own is configured.                   *)
LEMMA StaticIsConfigured ==
    ASSUME NEW confs, NEW n \in DOMAIN confs
    PROVE  IsConfigured(confs, n) /\ FindPathConf(confs, n) = confs[n]
BY DEF IsConfigured, Matches, FindPathConf

(* Numbering the names of a set from k + 1 on leaves no number out.        *)
LEMMA NumbersAreTaken ==
    ASSUME NEW ns, IsFiniteSet(ns), NEW k \in Nat,
           NEW ids \in [ns -> k + 1 .. k + Cardinality(ns)],
           \A m, n \in ns : ids[m] = ids[n] => m = n
    PROVE  \A i \in k + 1 .. k + Cardinality(ns) : \E n \in ns : ids[n] = i
<1> DEFINE T == k + 1 .. k + Cardinality(ns)
<1>1. Cardinality(ns) \in Nat
  BY FS_CardinalityType
<1>2. IsFiniteSet(T) /\ Cardinality(T) = Cardinality(ns)
  <2>. k + 1 \in Int /\ k + Cardinality(ns) \in Int
    BY <1>1
  <2>1. /\ IsFiniteSet(T)
        /\ Cardinality(T) = IF k + 1 > k + Cardinality(ns) THEN 0
                            ELSE (k + Cardinality(ns)) - (k + 1) + 1
    BY FS_Interval, Zenon
  <2>. QED
    BY <1>1, <2>1
<1>3. ids \in Injection(ns, T)
  BY DEF Injection, IsInjective
<1>4. ids \in Surjection(ns, T)
  BY <1>2, <1>3, FS_Injection
<1>. QED
  BY <1>4 DEF Surjection

(* createPath: the new paths are in the map under their names, with the    *)
(* configuration found for them, and the others are left alone.            *)
LEMMA CreateFacts ==
    ASSUME TypeOK, NEW confs \in Configurations, NEW ns \in SUBSET Names,
           NEW ids \in Numberings(ns), CreatePaths(confs, ns, ids),
           created + Cardinality(ns) <= MaxPaths,
           \A n \in ns : IsConfigured(confs, n)
    PROVE  /\ created' \in 0..MaxPaths /\ created' >= created
           /\ paths' \in [Names -> PathIds \cup {None}]
           /\ name' \in [PathIds -> Names \cup {None}]
           /\ confName' \in [PathIds -> ConfNames \cup {None}]
           /\ conf' \in [PathIds -> Conf \cup {None}]
           /\ \A i \in PathIds : i \notin created + 1 .. created' =>
                 name'[i] = name[i] /\ confName'[i] = confName[i] /\ conf'[i] = conf[i]
           /\ \A i \in created + 1 .. created' :
                 /\ i \in PathIds /\ name'[i] \in ns /\ paths'[name'[i]] = i
                 /\ conf'[i] = FindPathConf(confs, name'[i]) /\ confName'[i] = conf'[i].name
           /\ \A n \in Names \ ns : paths'[n] = paths[n]
           /\ \A n \in ns : paths'[n] \in created + 1 .. created' /\ name'[paths'[n]] = n
<1> DEFINE idOf(i) == CHOOSE n \in ns : ids[n] = i
           T == created + 1 .. created + Cardinality(ns)
<1>1. IsFiniteSet(ns) /\ Cardinality(ns) \in Nat /\ created \in Nat
  BY ManagerAssumption, FS_Subset, FS_CardinalityType DEF TypeOK
<1>2. ids \in [ns -> T] /\ \A m, n \in ns : ids[m] = ids[n] => m = n
  BY DEF Numberings
<1>3. \A i \in T : \E n \in ns : ids[n] = i
  BY <1>1, <1>2, NumbersAreTaken
<1>4. \A i \in T : idOf(i) \in ns /\ ids[idOf(i)] = i
  BY <1>3
<1>5. \A n \in ns : idOf(ids[n]) = n
  BY <1>2, <1>4
<1>6. T \subseteq PathIds /\ created' = created + Cardinality(ns) /\ T = created + 1 .. created'
  BY <1>1, ManagerAssumption DEF CreatePaths, PathIds
<1>7. \A n \in ns : FindPathConf(confs, n) \in Conf /\ FindPathConf(confs, n).name \in ConfNames
  BY FindFacts
<1>8. paths' = [n \in Names |-> IF n \in ns THEN ids[n] ELSE paths[n]]
  BY DEF CreatePaths
<1>9. /\ name' = [i \in PathIds |-> IF i \in T THEN idOf(i) ELSE name[i]]
      /\ confName' = [i \in PathIds |-> IF i \in T THEN FindPathConf(confs, idOf(i)).name
                                        ELSE confName[i]]
      /\ conf' = [i \in PathIds |-> IF i \in T THEN FindPathConf(confs, idOf(i)) ELSE conf[i]]
  BY DEF CreatePaths
<1> HIDE DEF idOf, T
<1>10. created' \in 0..MaxPaths /\ created' >= created
  BY <1>1, <1>6, ManagerAssumption DEF TypeOK
<1>11. /\ paths' \in [Names -> PathIds \cup {None}]
       /\ name' \in [PathIds -> Names \cup {None}]
       /\ confName' \in [PathIds -> ConfNames \cup {None}]
       /\ conf' \in [PathIds -> Conf \cup {None}]
  BY <1>2, <1>4, <1>6, <1>7, <1>8, <1>9 DEF TypeOK
<1>12. \A i \in PathIds : i \notin T =>
          name'[i] = name[i] /\ confName'[i] = confName[i] /\ conf'[i] = conf[i]
  BY <1>9
<1>13. \A i \in T : /\ i \in PathIds /\ name'[i] \in ns /\ paths'[name'[i]] = i
                    /\ conf'[i] = FindPathConf(confs, name'[i]) /\ confName'[i] = conf'[i].name
  BY <1>4, <1>6, <1>8, <1>9
<1>14. \A n \in ns : paths'[n] \in T /\ name'[paths'[n]] = n
  BY <1>2, <1>5, <1>6, <1>8, <1>9
<1>15. \A n \in Names \ ns : paths'[n] = paths[n]
  BY <1>8
<1>. QED
  BY <1>6, <1>10, <1>11, <1>12, <1>13, <1>14, <1>15

(***************************************************************************)
(* The steps of a path that do not concern its configuration.              *)
(***************************************************************************)
(* The paths that exist are within the bound.                              *)
LEMMA BornAreIds ==
    ASSUME TypeOK
    PROVE  /\ Born \subseteq PathIds
           /\ \A i \in PathIds : i \in Born <=> ~(i > created)
BY ManagerAssumption DEF TypeOK, Born, PathIds

(* The map is the same as long as nothing is created or closed.            *)
LEMMA MapSame ==
    ASSUME TypeOK, UNCHANGED <<paths, created, name>>
    PROVE  Born' = Born /\ Mapped' = Mapped /\ Mapped \subseteq PathIds
BY BornAreIds DEF Born, Mapped

(* What such a step leaves alone.                                          *)
PathOnly == UNCHANGED <<mgrVars, bornVars, confName, conf, inflight, overlapped, reloads>>

(* A step that moves no path in or out of the map, and cancels or ends     *)
(* nothing but what the manager waits for, keeps everything but the types  *)
(* and the ready flag.                                                     *)
LEMMA PathOnlyStep ==
    ASSUME Inv, PathOnly, TypeOK', UNCHANGED cancelled,
           \A i \in PathIds : phase'[i] = "unborn" <=> phase[i] = "unborn",
           \A i \in PathIds : phase'[i] = "done" => phase[i] = "done" \/ cancelled[i],
           \A i \in PathIds : phase[i] = "done" => phase'[i] = "done",
           \A i \in PathIds : i > created => ~available'[i] /\ ~ready'[i],
           ReadyFlagAgrees'
    PROVE  Inv'
<1>. USE DEF PathOnly, mgrVars, bornVars
<1>1. Born' = Born /\ Mapped' = Mapped /\ Live' \subseteq Live
  <2>1. Born' = Born /\ Born \subseteq PathIds
    BY BornAreIds DEF Born, Inv
  <2>. QED
    BY <2>1 DEF Mapped, Live
<1>2. BornInOrder'
  BY <1>1 DEF BornInOrder, Inv
<1>3. MapIsSound'
  <2>. Mapped \subseteq PathIds
    BY BornAreIds DEF Mapped, Inv
  <2>. QED
    BY <1>1 DEF MapIsSound, Inv
<1>4. OthersAreAwaited'
  BY <1>1 DEF OthersAreAwaited, Inv
<1>5. ReloadIsOn'
  BY DEF ReloadIsOn, Inv
<1>6. MappedAreConfigured'
  BY <1>1 DEF MappedAreConfigured, Inv, ConfsOf
<1>7. ReloadsAreCurrent'
  BY <1>1 DEF ReloadsAreCurrent, Inv, ConfsOf
<1>. QED
  BY <1>2, <1>3, <1>4, <1>5, <1>6, <1>7 DEF Inv

(* The answers to the cameras that are held.                               *)
LEMMA AnswerType ==
    ASSUME TypeOK, NEW p, NEW answer \in CameraStates, AnswerHeld(p, answer)
    PROVE  camera' \in [PathIds -> CameraStates]
BY DEF TypeOK, AnswerHeld

(* doSetPathReady: the flag takes over the availability.                   *)
LEMMA SetPathReadyStep ==
    ASSUME Inv, NEW i \in Born, doSetPathReady(i)
    PROVE  Inv'
<1>. Born \subseteq PathIds /\ \A j \in PathIds : j \in Born <=> ~(j > created)
  BY BornAreIds DEF Inv
<1>0. camera' \in [PathIds -> CameraStates] /\ UNCHANGED primary
  BY AnswerType DEF Inv, doSetPathReady, SwitchEnds, CameraStates
<1>1. TypeOK'
  BY <1>0 DEF Inv, TypeOK, doSetPathReady, mgrVars, bornVars
<1>. i \in Mapped <=> paths[name[i]] = i
  BY DEF Mapped
<1>2. ReadyFlagAgrees'
  BY MapSame DEF Inv, TypeOK, ReadyFlagAgrees, doSetPathReady, mgrVars, bornVars
<1>. QED
  BY <1>1, <1>2, PathOnlyStep DEF Inv, TypeOK, BornInOrder, PathOnly, doSetPathReady,
     mgrVars, bornVars

(* The steps of a secondary camera that change nothing else.               *)
LEMMA CameraStep ==
    ASSUME Inv, OnlyCamera, camera' \in [PathIds -> CameraStates]
    PROVE  Inv'
<1>. USE DEF OnlyCamera
<1>1. TypeOK'
  BY DEF Inv, TypeOK, mgrVars, bornVars
<1>2. ReadyFlagAgrees'
  BY MapSame DEF Inv, ReadyFlagAgrees, mgrVars, bornVars
<1>. QED
  BY <1>1, <1>2, PathOnlyStep DEF Inv, BornInOrder, PathOnly

(* The calls of a secondary camera keep its states.                        *)
LEMMA CameraCalls ==
    ASSUME Inv, NEW i \in Born, NEW p \in Born,
           CameraAsks(i) \/ CameraLeaves(i) \/ CameraRemoved(i, p) \/ CameraAborted(i, p)
    PROVE  Inv'
<1>1. camera' \in [PathIds -> CameraStates]
  BY DEF Inv, TypeOK, CameraStates, CameraAsks, CameraLeaves, CameraRemoved, CameraAborted
<1>. QED
  BY <1>1, CameraStep DEF CameraAsks, CameraLeaves, CameraRemoved, CameraAborted

(* doAddReader of the primary: the primary may turn to the manager.        *)
LEMMA CameraServedStep ==
    ASSUME Inv, NEW i \in Born, NEW p \in Born, CameraServed(i, p)
    PROVE  Inv'
<1>. USE DEF CameraServed, Handled, AfterHandler, mgrVars, bornVars
<1>. Born \subseteq PathIds /\ \A j \in PathIds : j \in Born <=> ~(j > created)
  BY BornAreIds DEF Inv
<1>1. camera' \in [PathIds -> CameraStates]
  BY DEF Inv, TypeOK, CameraStates
<1>2. inUse' \in [PathIds -> BOOLEAN]
      /\ phase' \in [PathIds -> {"unborn", "select", "asking", "telling", "done"}]
  BY DEF Inv, TypeOK
<1>3. TypeOK'
  BY <1>1, <1>2 DEF Inv, TypeOK
<1>4. ReadyFlagAgrees'
  BY MapSame DEF Inv, TypeOK, ReadyFlagAgrees
<1>. QED
  BY <1>3, <1>4, PathOnlyStep DEF Inv, TypeOK, BornInOrder, PathOnly

(* HandleRequest, BecomeIdle: the path may turn to the manager.            *)
LEMMA HandlerStep ==
    ASSUME Inv, NEW i \in Born, HandleRequest(i) \/ BecomeIdle(i)
    PROVE  Inv'
<1>. USE DEF AfterHandler, Handled
<1>. Born \subseteq PathIds /\ \A j \in PathIds : j \in Born <=> ~(j > created)
  BY BornAreIds DEF Inv
<1>0. camera' \in [PathIds -> CameraStates] /\ UNCHANGED primary
  BY AnswerType DEF Inv, TypeOK, HandleRequest, BecomeIdle, CameraStates
<1>1. TypeOK'
  <2>1. CASE HandleRequest(i)
    BY <1>0, <2>1 DEF Inv, TypeOK, HandleRequest, mgrVars, bornVars
  <2>2. CASE BecomeIdle(i)
    BY <1>0, <2>2 DEF Inv, TypeOK, BecomeIdle, mgrVars, bornVars
  <2>. QED
    BY <2>1, <2>2
<1>2. ReadyFlagAgrees'
  BY MapSame DEF Inv, TypeOK, ReadyFlagAgrees, HandleRequest, BecomeIdle, mgrVars, bornVars
<1>. QED
  BY <1>1, <1>2, PathOnlyStep DEF Inv, TypeOK, BornInOrder, PathOnly, HandleRequest, BecomeIdle

(* SwitchStream: the path turns to the manager with its news.              *)
LEMMA SwitchStreamStep ==
    ASSUME Inv, NEW i \in Born, SwitchStream(i)
    PROVE  Inv'
<1>. Born \subseteq PathIds /\ \A j \in PathIds : j \in Born <=> ~(j > created)
  BY BornAreIds DEF Inv
<1>1. TypeOK'
  BY DEF Inv, TypeOK, SwitchStream, mgrVars, bornVars
<1>2. ReadyFlagAgrees'
  BY MapSame DEF Inv, TypeOK, ReadyFlagAgrees, SwitchStream, mgrVars, bornVars
<1>. QED
  BY <1>1, <1>2, PathOnlyStep DEF Inv, TypeOK, BornInOrder, PathOnly, SwitchStream

(* CallAborted, Terminate: only of a path that is cancelled, hence not in  *)
(* the map.                                                                *)
LEMMA CancelledStep ==
    ASSUME Inv, NEW i \in Born, CallAborted(i) \/ Terminate(i)
    PROVE  Inv'
<1>. Born \subseteq PathIds /\ \A j \in PathIds : j \in Born <=> ~(j > created)
  BY BornAreIds DEF Inv
<1>0. camera' \in [PathIds -> CameraStates] /\ UNCHANGED primary
  BY AnswerType DEF Inv, TypeOK, CallAborted, Terminate, SwitchEnds, CameraStates
<1>1. TypeOK'
  <2>1. CASE CallAborted(i)
    BY <1>0, <2>1 DEF Inv, TypeOK, CallAborted, mgrVars, bornVars
  <2>2. CASE Terminate(i)
    BY <1>0, <2>2 DEF Inv, TypeOK, Terminate, mgrVars, bornVars
  <2>. QED
    BY <2>1, <2>2
<1>2. i \notin Mapped
  BY DEF Inv, MapIsSound, CallAborted, Terminate
<1>3. ReadyFlagAgrees'
  BY MapSame, <1>2 DEF Inv, TypeOK, ReadyFlagAgrees, CallAborted, Terminate, mgrVars, bornVars
<1>. QED
  BY <1>1, <1>3, PathOnlyStep DEF Inv, TypeOK, BornInOrder, PathOnly, CallAborted, Terminate

(***************************************************************************)
(* The goroutines of reloadConf.                                           *)
(***************************************************************************)
(* The path takes the configuration, or it is closing and in no map.       *)
LEMMA ReloadGoroutineStep ==
    ASSUME Inv, NEW g \in inflight, doReloadConf(g) \/ ReloadDropped(g)
    PROVE  Inv'
<1>. USE DEF doReloadConf, ReloadDropped, mgrVars, bornVars, pathVars
<1>1. g.path \in PathIds /\ g.conf \in Conf
  BY DEF Inv, TypeOK
<1>2. TypeOK'
  BY <1>1 DEF Inv, TypeOK
<1>3. Born' = Born /\ Mapped' = Mapped /\ Mapped \subseteq PathIds /\ Live' = Live
      /\ Born \subseteq PathIds
  BY MapSame, BornAreIds DEF Inv, Live
<1>4. BornInOrder'
  <2>. \A i \in Born : conf'[i] \in Conf
    BY <1>1, <1>3 DEF Inv, BornInOrder, TypeOK
  <2>. QED
    BY <1>3 DEF Inv, BornInOrder
<1>5. MapIsSound' /\ OthersAreAwaited' /\ ReloadIsOn'
  BY <1>3 DEF Inv, MapIsSound, OthersAreAwaited, ReloadIsOn
<1>6. MappedAreConfigured' /\ ReadyFlagAgrees'
  BY <1>3 DEF Inv, MappedAreConfigured, ConfsOf, ReadyFlagAgrees
<1>7. ReloadsAreCurrent'
  <2>. \A i \in Mapped : ConfsOf(i)' = ConfsOf(i) /\ name'[i] = name[i]
    BY DEF ConfsOf
  <2>1. CASE doReloadConf(g)
    <3>1. ASSUME NEW i \in Mapped \ overlapped, \A h \in inflight' : h.path # i
          PROVE  conf'[i] = FindPathConf(ConfsOf(i), name[i])
      <4>1. CASE g.path = i
        BY <1>1, <2>1, <4>1 DEF Inv, TypeOK, ReloadsAreCurrent
      <4>2. CASE g.path # i
        BY <1>1, <1>3, <2>1, <3>1, <4>2 DEF Inv, TypeOK, ReloadsAreCurrent
      <4>. QED
        BY <4>1, <4>2
    <3>. QED
      BY <1>3, <2>1, <3>1 DEF Inv, ReloadsAreCurrent
  <2>2. CASE ReloadDropped(g)
    <3>1. g.path \notin Mapped
      BY <2>2 DEF Inv, MapIsSound
    <3>. QED
      BY <1>3, <2>2, <3>1 DEF Inv, ReloadsAreCurrent
  <2>. QED
    BY <2>1, <2>2
<1>. QED
  BY <1>2, <1>4, <1>5, <1>6, <1>7 DEF Inv

(***************************************************************************)
(* The path manager.                                                       *)
(***************************************************************************)
(* PathWaited: the path that ended was the last one out of the map.        *)
LEMMA PathWaitedStep ==
    ASSUME Inv, PathWaited
    PROVE  Inv'
<1>. USE DEF PathWaited, bornVars, pathVars
<1>1. TypeOK'
  BY DEF Inv, TypeOK
<1>2. Born' = Born /\ Mapped' = Mapped /\ Live' = Live
  BY MapSame DEF Inv, Live
<1>3. BornInOrder' /\ MapIsSound' /\ ReadyFlagAgrees'
  BY <1>2 DEF Inv, BornInOrder, MapIsSound, ReadyFlagAgrees
<1>4. OthersAreAwaited'
  BY <1>2 DEF Inv, OthersAreAwaited, Live
<1>5. ReloadIsOn'
  BY DEF Inv, ReloadIsOn
<1>6. MappedAreConfigured' /\ ReloadsAreCurrent'
  BY <1>2 DEF Inv, MappedAreConfigured, ReloadsAreCurrent, ConfsOf
<1>. QED
  BY <1>1, <1>3, <1>4, <1>5, <1>6 DEF Inv

(* doReloadConf begins: every path is still to be looked at.               *)
LEMMA ReloadPathConfsStep ==
    ASSUME Inv, NEW new \in Configurations, ReloadPathConfs(new)
    PROVE  Inv'
<1>. USE DEF ReloadPathConfs, bornVars, pathVars
<1>1. TypeOK'
  BY ManagerAssumption DEF Inv, TypeOK
<1>2. Born' = Born /\ Mapped' = Mapped /\ Live' = Live
  BY MapSame DEF Inv, Live
<1>3. BornInOrder' /\ MapIsSound' /\ ReadyFlagAgrees'
  BY <1>2 DEF Inv, BornInOrder, MapIsSound, ReadyFlagAgrees
<1>4. OthersAreAwaited'
  BY <1>2 DEF Inv, OthersAreAwaited
<1>5. ReloadIsOn'
  BY ManagerAssumption DEF Inv, ReloadIsOn, TypeOK
<1>6. \A i \in Mapped : ConfsOf(i)' = ConfsOf(i)
  <2>1. \A i \in Mapped : name[i] \in Names /\ paths[name[i]] # None
    BY ManagerAssumption DEF Inv, BornInOrder, Mapped, Born
  <2>. QED
    BY <2>1 DEF Inv, ReloadIsOn, ConfsOf
<1>7. MappedAreConfigured' /\ ReloadsAreCurrent'
  BY <1>2, <1>6 DEF Inv, MappedAreConfigured, ReloadsAreCurrent
<1>. QED
  BY <1>1, <1>3, <1>4, <1>5, <1>7 DEF Inv

(* A path that is in the map is told to close; the manager is not waiting  *)
(* for another one.                                                        *)
LEMMA ClosingStep ==
    ASSUME Inv, TypeOK', NEW i \in Mapped, pc # "waiting", doClosePath(i),
           UNCHANGED <<pathConfs, newConfs, bornVars, confName, conf, available, ready,
                       inflight, overlapped, reloads>>,
           todo' = todo \ {name[i]},
           phase' \in {phase, [phase EXCEPT ![i] = "select"]}
    PROVE  Inv'
<1>. USE DEF doClosePath, bornVars
<1>1. i \in Born /\ Born \subseteq PathIds /\ Mapped \subseteq Born /\ name[i] \in Names
      /\ paths[name[i]] = i /\ phase[i] \notin {"unborn", "done"}
  BY BornAreIds DEF Inv, BornInOrder, MapIsSound, Mapped
<1>2. Born' = Born /\ Live' = Live
  BY <1>1 DEF Inv, TypeOK, Born, Live
<1>3. \A j \in Born : name[j] \in Names
  BY DEF Inv, BornInOrder
<1>4. Mapped' = Mapped \ {i} /\ \A j \in Mapped \ {i} : name[j] # name[i]
  <2>1. \A n \in Names : paths'[n] = IF n = name[i] THEN None ELSE paths[n]
    BY <1>1 DEF Inv, TypeOK
  <2>2. None \notin Born
    BY ManagerAssumption DEF Born
  <2>. QED
    BY <1>1, <1>2, <1>3, <2>1, <2>2 DEF Mapped
<1>5. BornInOrder'
  <2>1. \A j \in PathIds : phase'[j] = "unborn" <=> phase[j] = "unborn"
    BY <1>1 DEF Inv, TypeOK
  <2>2. \A j \in PathIds : j > created => ~cancelled'[j]
    BY <1>1, BornAreIds DEF Inv, TypeOK, BornInOrder
  <2>. QED
    BY <1>2, <2>1, <2>2 DEF Inv, BornInOrder
<1>6. MapIsSound'
  <2>1. \A j \in Mapped' : ~cancelled'[j] /\ phase'[j] # "done"
    BY <1>1, <1>4 DEF Inv, TypeOK, MapIsSound
  <2>2. \A n \in Names : paths'[n] # None => paths'[n] \in Born' /\ name'[paths'[n]] = n
    BY <1>1, <1>2 DEF Inv, TypeOK, MapIsSound
  <2>. QED
    BY <2>1, <2>2 DEF MapIsSound
<1>7. OthersAreAwaited'
  <2>1. \A j \in Live : j \in Mapped
    BY DEF Inv, OthersAreAwaited
  <2>2. cancelled'[i] /\ paths'[name[i]] = None
    BY <1>1 DEF Inv, TypeOK
  <2>. QED
    BY <1>1, <1>2, <1>4, <2>1, <2>2 DEF OthersAreAwaited
<1>8. ReloadIsOn'
  BY <1>1 DEF Inv, ReloadIsOn, TypeOK
<1>9. \A j \in Mapped' : j \in Mapped /\ ConfsOf(j)' = ConfsOf(j)
  BY <1>4 DEF ConfsOf
<1>10. MappedAreConfigured' /\ ReloadsAreCurrent'
  BY <1>9 DEF Inv, MappedAreConfigured, ReloadsAreCurrent
<1>11. ReadyFlagAgrees'
  BY <1>1, <1>4 DEF Inv, TypeOK, ReadyFlagAgrees
<1>. QED
  BY <1>5, <1>6, <1>7, <1>8, <1>10, <1>11 DEF Inv

(* closePathIfIdle: the path is taken out of the map unless a request is   *)
(* on its way to it.                                                       *)
LEMMA ClosePathIfIdleStep ==
    ASSUME Inv, NEW i \in Born, ClosePathIfIdle(i)
    PROVE  Inv'
<1>. USE DEF ClosePathIfIdle, bornVars
<1>1. Born \subseteq PathIds /\ i \in Mapped
  BY BornAreIds DEF Inv, OthersAreAwaited, Live
<1>2. TypeOK'
  BY <1>1 DEF Inv, TypeOK, doClosePath, Born
<1>3. CASE HasPending(i)
  <2>1. PathOnly /\ UNCHANGED cancelled
    BY <1>3 DEF PathOnly, mgrVars
  <2>2. ReadyFlagAgrees'
    BY <1>1, <1>3, MapSame DEF Inv, TypeOK, ReadyFlagAgrees
  <2>. QED
    BY <1>1, <1>2, <2>1, <2>2, PathOnlyStep DEF Inv, TypeOK, BornInOrder
<1>4. CASE ~HasPending(i)
  <2>1. todo' = todo \ {name[i]}
    BY DEF Inv, ReloadIsOn
  <2>. QED
    BY <1>1, <1>2, <1>4, <2>1, ClosingStep
<1>. QED
  BY <1>3, <1>4

(* One path of doReloadConf: kept, given its new configuration, or closed. *)
LEMMA ReloadPathStep ==
    ASSUME Inv, NEW n \in Names, ReloadPath(n)
    PROVE  Inv'
<1>0. PICK i : i = paths[n]
  OBVIOUS
<1> DEFINE old == pathConfs[confName[i]]
           new == FindPathConf(newConfs, n)
           same == IsConfigured(newConfs, n) /\ new = old
           hot == IsConfigured(newConfs, n) /\ CanBeUpdated(old, new)
<1>1. /\ pc = "reloading" /\ n \in todo /\ todo' = todo \ {n}
      /\ \/ same /\ UNCHANGED <<paths, cancelled, pc, waitingFor, confName, inflight, overlapped>>
         \/ hot /\ ~same /\ HotReload(i, new) /\ UNCHANGED <<paths, cancelled, pc, waitingFor>>
         \/ ~hot /\ doClosePath(i) /\ UNCHANGED <<confName, inflight, overlapped>>
      /\ UNCHANGED <<pathConfs, newConfs, bornVars, conf, phase, available, ready, pending,
                     inUse, camera, primary, reloads>>
  BY <1>0 DEF ReloadPath
<1>2. i \in Born /\ name[i] = n /\ i \in Mapped /\ Born \subseteq PathIds
  BY <1>0, <1>1, BornAreIds DEF Inv, ReloadIsOn, MapIsSound, Mapped
<1>3. old = FindPathConf(pathConfs, n) /\ IsConfigured(pathConfs, n) /\ confName[i] = old.name
  BY <1>1, <1>2, FindFacts DEF Inv, TypeOK, MappedAreConfigured, ConfsOf
<1>4. ConfsOf(i) = pathConfs
  BY <1>1, <1>2 DEF ConfsOf
<1>. HIDE DEF old, new
<1>5. IsConfigured(newConfs, n) => new \in Conf /\ new.name \in ConfNames
  BY FindFacts DEF Inv, TypeOK, new
<1>6. CASE same /\ UNCHANGED <<paths, cancelled, pc, waitingFor, confName, inflight, overlapped>>
  <2>1. TypeOK'
    BY <1>1, <1>6 DEF Inv, TypeOK, bornVars
  <2>2. Born' = Born /\ Mapped' = Mapped /\ Live' = Live
    BY <1>1, <1>6, MapSame DEF Inv, Live, bornVars
  <2>3. BornInOrder' /\ MapIsSound' /\ OthersAreAwaited' /\ ReadyFlagAgrees'
    BY <1>1, <1>6, <2>2 DEF Inv, BornInOrder, MapIsSound, OthersAreAwaited, ReadyFlagAgrees,
       bornVars
  <2>4. ReloadIsOn'
    BY <1>1, <1>6 DEF Inv, ReloadIsOn, bornVars
  <2>5. \A j \in Mapped : j # i => ConfsOf(j)' = ConfsOf(j)
    BY <1>1, <1>2 DEF ConfsOf, bornVars, Mapped
  <2>6. ConfsOf(i)' = newConfs
    BY <1>1, <1>2 DEF ConfsOf, bornVars
  <2>7. new = FindPathConf(pathConfs, n)
    BY <1>3, <1>6
  <2>8. MappedAreConfigured'
    BY <1>1, <1>2, <1>3, <1>4, <1>6, <2>2, <2>5, <2>6 DEF Inv, MappedAreConfigured, new, bornVars
  <2>9. ReloadsAreCurrent'
    BY <1>1, <1>2, <1>4, <1>6, <2>2, <2>5, <2>6, <2>7 DEF Inv, ReloadsAreCurrent, new, bornVars
  <2>. QED
    BY <2>1, <2>3, <2>4, <2>8, <2>9 DEF Inv
<1>7. CASE hot /\ ~same /\ HotReload(i, new) /\ UNCHANGED <<paths, cancelled, pc, waitingFor>>
  <2>1. new \in Conf /\ new.name \in ConfNames
    BY <1>5, <1>7
  <2> DEFINE g == [path |-> i, conf |-> new, seq |-> reloads]
  <2>2. inflight' = inflight \cup {g} /\ confName' = [confName EXCEPT ![i] = new.name]
        /\ overlapped' = overlapped \cup {f.path : f \in {h \in inflight : h.path = i}}
    BY <1>7 DEF HotReload
  <2>3. g \in [path : PathIds, conf : Conf, seq : 1..MaxReloads]
    BY <1>1, <1>2, <2>1 DEF Inv, TypeOK, ReloadIsOn
  <2>4. overlapped' = IF \E h \in inflight : h.path = i THEN overlapped \cup {i} ELSE overlapped
    BY <2>2
  <2>5. TypeOK'
    <3>1. overlapped' \subseteq PathIds /\ inflight' \subseteq [path : PathIds, conf : Conf, seq : 1..MaxReloads]
      BY <1>2, <2>2, <2>3, <2>4 DEF Inv, TypeOK
    <3>2. confName' \in [PathIds -> ConfNames \cup {None}] /\ todo' \subseteq Names
      BY <1>1, <1>2, <2>1, <2>2 DEF Inv, TypeOK
    <3>. QED
      BY <1>1, <1>7, <3>1, <3>2 DEF Inv, TypeOK, bornVars
  <2>6. Born' = Born /\ Mapped' = Mapped /\ Live' = Live
    BY <1>1, <1>7, MapSame DEF Inv, Live, bornVars
  <2>7. BornInOrder'
    <3>. \A h \in inflight' : h.path \in Born
      BY <1>2, <2>2 DEF Inv, BornInOrder
    <3>. overlapped' \subseteq Born
      BY <1>2, <2>4 DEF Inv, BornInOrder
    <3>. QED
      BY <1>1, <1>7, <2>6 DEF Inv, BornInOrder, bornVars
  <2>8. MapIsSound' /\ OthersAreAwaited' /\ ReadyFlagAgrees'
    BY <1>1, <1>7, <2>6 DEF Inv, MapIsSound, OthersAreAwaited, ReadyFlagAgrees, bornVars
  <2>9. ReloadIsOn'
    BY <1>1, <1>7 DEF Inv, ReloadIsOn, bornVars
  <2>10. \A j \in Mapped : j # i => ConfsOf(j)' = ConfsOf(j) /\ confName'[j] = confName[j]
    BY <1>1, <1>2, <2>2 DEF ConfsOf, bornVars, Mapped, Inv, TypeOK
  <2>11. ConfsOf(i)' = newConfs /\ confName'[i] = new.name /\ name' = name /\ conf' = conf
    BY <1>1, <1>2, <2>2 DEF ConfsOf, bornVars, Inv, TypeOK
  <2>12. MappedAreConfigured'
    BY <1>1, <1>2, <1>7, <2>6, <2>10, <2>11 DEF Inv, MappedAreConfigured, new
  <2>13. g.path = i /\ g.conf = new
    OBVIOUS
  <2>14. ReloadsAreCurrent'
    <3>. HIDE DEF g
    <3>1. \A f, h \in inflight' : f.path = h.path /\ f.path \notin overlapped' => f = h
      BY <2>2, <2>4, <2>13 DEF Inv, ReloadsAreCurrent
    <3>2. ASSUME NEW h \in inflight', h.path \in Mapped \ overlapped'
          PROVE  h.conf = FindPathConf(ConfsOf(h.path)', name[h.path])
      <4>1. CASE h.path = i
        BY <1>2, <2>2, <2>4, <2>11, <2>13, <3>2, <4>1 DEF new
      <4>2. CASE h.path # i
        BY <2>2, <2>4, <2>10, <2>13, <3>2, <4>2 DEF Inv, ReloadsAreCurrent
      <4>. QED
        BY <4>1, <4>2
    <3>3. ASSUME NEW j \in Mapped \ overlapped', \A h \in inflight' : h.path # j
          PROVE  conf[j] = FindPathConf(ConfsOf(j)', name[j])
      BY <2>2, <2>4, <2>10, <2>13, <3>3 DEF Inv, ReloadsAreCurrent
    <3>. QED
      BY <2>6, <2>11, <3>1, <3>2, <3>3 DEF ReloadsAreCurrent
  <2>. QED
    BY <2>5, <2>7, <2>8, <2>9, <2>12, <2>14 DEF Inv
<1>8. CASE ~hot /\ doClosePath(i) /\ UNCHANGED <<confName, inflight, overlapped>>
  <2>1. TypeOK'
    BY <1>1, <1>2, <1>8 DEF Inv, TypeOK, doClosePath, bornVars
  <2>. QED
    BY <1>1, <1>2, <1>8, <2>1, ClosingStep
<1>. QED
  BY <1>1, <1>6, <1>7, <1>8

(* Paths are created under free names, for the configuration the manager   *)
(* has from then on, while it waits for nobody.                            *)
LEMMA CreatingStep ==
    ASSUME Inv, TypeOK', pc # "waiting", pc' = "select", todo = {},
           NEW ns \in SUBSET Names, NEW ids \in Numberings(ns),
           created + Cardinality(ns) <= MaxPaths, CreatePaths(newConfs, ns, ids),
           \A n \in ns : IsConfigured(newConfs, n) /\ paths[n] = None,
           \A i \in PathIds : phase'[i] = IF i > created /\ i <= created' THEN "select" ELSE phase[i],
           pathConfs' = newConfs,
           UNCHANGED <<newConfs, todo, cancelled, available, ready, inflight, overlapped, reloads>>
    PROVE  Inv'
<1> DEFINE New == created + 1 .. created'
<1>1. /\ created' \in 0..MaxPaths /\ created' >= created
      /\ \A i \in PathIds : i \notin New =>
            name'[i] = name[i] /\ confName'[i] = confName[i] /\ conf'[i] = conf[i]
      /\ \A i \in New : /\ i \in PathIds /\ name'[i] \in ns /\ paths'[name'[i]] = i
                        /\ conf'[i] = FindPathConf(newConfs, name'[i])
                        /\ confName'[i] = conf'[i].name
      /\ \A n \in Names \ ns : paths'[n] = paths[n]
      /\ \A n \in ns : paths'[n] \in New /\ name'[paths'[n]] = n
  BY CreateFacts DEF Inv, TypeOK
<1>2. /\ Born' = Born \cup New /\ Born \cap New = {} /\ Born \subseteq PathIds
      /\ \A i \in PathIds : i \in New <=> i > created /\ i <= created'
  <2>1. created \in Nat /\ created' \in Nat /\ created <= created' /\ created' <= MaxPaths
    BY <1>1, ManagerAssumption DEF Inv, TypeOK
  <2>. QED
    BY <2>1, ManagerAssumption DEF Born, PathIds
<1>3. \A i \in PathIds : i \in Born' <=> ~(i > created')
  BY <1>1, ManagerAssumption DEF Born, PathIds
<1>. HIDE DEF New
<1>4. \A i \in New : conf'[i] \in Conf
  BY <1>1, FindFacts DEF Inv, TypeOK
<1>5. \A i \in Born : name'[i] = name[i] /\ name[i] \in Names /\ phase'[i] = phase[i]
                      /\ conf'[i] = conf[i] /\ confName'[i] = confName[i]
  BY <1>1, <1>2, BornAreIds DEF Inv, BornInOrder
<1>6. \A i \in New : phase'[i] = "select" /\ ~available[i] /\ ~ready[i] /\ ~cancelled[i]
                     /\ i \notin Born
  BY <1>1, <1>2 DEF Inv, BornInOrder
<1>7. Mapped' = Mapped \cup New
  <2>1. \A i \in Born : i \in Mapped' <=> i \in Mapped
    BY <1>1, <1>2, <1>5, ManagerAssumption DEF Mapped, Born
  <2>. QED
    BY <1>1, <1>2, <2>1 DEF Mapped
<1>8. Live' = Live \cup New
  BY <1>2, <1>5, <1>6 DEF Live
<1>9. BornInOrder'
  <2>1. \A i \in PathIds : phase'[i] = "unborn" <=> i > created'
    BY <1>2, <1>3, <1>5, <1>6, BornAreIds DEF Inv, BornInOrder
  <2>2. \A i \in PathIds : i > created' => i > created
    BY <1>2, <1>3, BornAreIds DEF Inv
  <2>3. \A i \in Born' : name'[i] \in Names /\ conf'[i] \in Conf
    BY <1>1, <1>2, <1>4, <1>5 DEF Inv, BornInOrder
  <2>. QED
    BY <1>2, <2>1, <2>2, <2>3 DEF Inv, BornInOrder
<1>10. MapIsSound'
  <2>1. \A n \in Names : paths'[n] # None => paths'[n] \in Born' /\ name'[paths'[n]] = n
    BY <1>1, <1>2, <1>5 DEF Inv, MapIsSound
  <2>2. \A i \in Mapped : i \in Born /\ phase[i] # "done" /\ ~cancelled[i]
    BY DEF Inv, MapIsSound, Mapped
  <2>. QED
    BY <1>5, <1>6, <1>7, <2>1, <2>2 DEF MapIsSound
<1>11. OthersAreAwaited'
  BY <1>7, <1>8 DEF Inv, OthersAreAwaited
<1>12. ReloadIsOn'
  BY DEF Inv, ReloadIsOn
<1>13. \A i \in Mapped' : /\ ConfsOf(i)' = newConfs
                          /\ i \in Mapped => ConfsOf(i) = newConfs /\ i \in Born
  BY DEF ConfsOf, Mapped
<1>14. MappedAreConfigured'
  BY <1>1, <1>5, <1>7, <1>13 DEF Inv, MappedAreConfigured
<1>15. ReadyFlagAgrees'
  <2>1. \A i \in New : ready[i] = available[i]
    BY <1>1, <1>6 DEF Inv, TypeOK
  <2>. QED
    BY <1>5, <1>7, <1>13, <2>1 DEF Inv, ReadyFlagAgrees
<1>16. ReloadsAreCurrent'
  <2>1. \A g \in inflight : g.path \in Born /\ g.path \notin New
    BY <1>2 DEF Inv, BornInOrder
  <2>2. \A g \in inflight : g.path \in Mapped' \ overlapped =>
           g.conf = FindPathConf(newConfs, name'[g.path])
    BY <1>5, <1>7, <1>13, <2>1 DEF Inv, ReloadsAreCurrent
  <2>3. ASSUME NEW i \in Mapped' \ overlapped, \A g \in inflight : g.path # i
        PROVE  conf'[i] = FindPathConf(newConfs, name'[i])
    BY <1>1, <1>5, <1>7, <1>13, <2>3 DEF Inv, ReloadsAreCurrent
  <2>. QED
    BY <1>13, <2>2, <2>3 DEF Inv, ReloadsAreCurrent
<1>. QED
  BY <1>9, <1>10, <1>11, <1>12, <1>14, <1>15, <1>16 DEF Inv

(* A request or a camera is given the path of its name, which is created   *)
(* if it does not exist.                                                   *)
LEMMA RoutedStep ==
    ASSUME Inv, NEW n \in Names, NEW p \in PathIds, pc = "select", RoutedTo(n, p),
           pending' \in [PathIds -> BOOLEAN],
           camera' \in [PathIds -> CameraStates], primary' \in [PathIds -> PathIds \cup {None}],
           UNCHANGED <<pathConfs, pc, newConfs, todo, waitingFor, cancelled, available, ready,
                       inUse, inflight, overlapped, reloads>>
    PROVE  Inv'
<1>1. CASE paths[n] # None
  <2>. USE <1>1 DEF RoutedTo, bornVars
  <2>1. TypeOK'
    BY DEF Inv, TypeOK
  <2>2. PathOnly
    BY DEF PathOnly, mgrVars
  <2>3. ReadyFlagAgrees'
    BY MapSame DEF Inv, ReadyFlagAgrees
  <2>. QED
    BY <2>1, <2>2, <2>3, PathOnlyStep DEF Inv, BornInOrder
<1>2. CASE paths[n] = None
  <2> DEFINE ids == [m \in {n} |-> created + 1]
  <2>1. /\ IsConfigured(pathConfs, n) /\ created < MaxPaths
        /\ CreatePaths(pathConfs, {n}, ids)
        /\ phase' = [phase EXCEPT ![created + 1] = "select"]
    BY <1>2 DEF RoutedTo
  <2>2. Cardinality({n}) = 1 /\ created \in Nat
    <3>1. Cardinality({n}) = 1
      BY FS_Singleton, Zenon
    <3>. QED
      BY <3>1, ManagerAssumption DEF Inv, TypeOK
  <2>3. ids \in Numberings({n})
    BY <2>2 DEF Numberings
  <2>4. newConfs = pathConfs /\ todo = {}
    BY DEF Inv, ReloadIsOn
  <2>5. created + Cardinality({n}) <= MaxPaths
    BY <2>1, <2>2, ManagerAssumption
  <2>6. created' = created + 1
    BY <2>1, <2>2 DEF CreatePaths
  <2>. HIDE DEF ids
  <2>7. TypeOK'
    <3>1. /\ created' \in 0..MaxPaths
          /\ paths' \in [Names -> PathIds \cup {None}]
          /\ name' \in [PathIds -> Names \cup {None}]
          /\ confName' \in [PathIds -> ConfNames \cup {None}]
          /\ conf' \in [PathIds -> Conf \cup {None}]
      BY <2>1, <2>3, <2>5, CreateFacts DEF Inv, TypeOK
    <3>. QED
      BY <2>1, <3>1 DEF Inv, TypeOK
  <2>8. \A i \in PathIds : phase'[i] = IF i > created /\ i <= created' THEN "select" ELSE phase[i]
    BY <2>1, <2>2, <2>6 DEF Inv, TypeOK, PathIds
  <2>. QED
    BY <1>2, <2>1, <2>3, <2>4, <2>5, <2>7, <2>8, CreatingStep
<1>. QED
  BY <1>1, <1>2

(* A request is counted on the path that it is given.                      *)
LEMMA RequestStep ==
    ASSUME Inv, NEW n \in Names, Request(n)
    PROVE  Inv'
<1>1. PICK p \in PathIds : RoutedTo(n, p) /\ pending' = [pending EXCEPT ![p] = TRUE]
  BY DEF Request
<1>. QED
  BY <1>1, RoutedStep DEF Request, Inv, TypeOK

(* A camera is refused, or given the path of its primary.                  *)
LEMMA CameraRoutedStep ==
    ASSUME Inv, NEW i \in Born, CameraRouted(i)
    PROVE  Inv'
<1>. i \in PathIds
  BY BornAreIds DEF Inv
<1>1. CASE /\ camera' = [camera EXCEPT ![i] = "none"]
           /\ UNCHANGED <<paths, bornVars, confName, conf, phase, primary>>
  <2>1. camera' \in [PathIds -> CameraStates]
    BY <1>1 DEF Inv, TypeOK, CameraStates
  <2>2. OnlyCamera
    BY <1>1 DEF CameraRouted, OnlyCamera, mgrVars
  <2>. QED
    BY <2>1, <2>2, CameraStep
<1>2. ASSUME NEW p \in PathIds, RoutedTo(PrimaryName[name[i]], p),
             camera' = [camera EXCEPT ![i] = "adding"], primary' = [primary EXCEPT ![i] = p]
      PROVE  Inv'
  <2>1. camera' \in [PathIds -> CameraStates] /\ primary' \in [PathIds -> PathIds \cup {None}]
    BY <1>2 DEF Inv, TypeOK, CameraStates
  <2>2. PrimaryName[name[i]] \in Names
    BY ManagerAssumption DEF CameraRouted
  <2>. QED
    BY <1>2, <2>1, <2>2, RoutedStep DEF CameraRouted, Inv, TypeOK
<1>. QED
  BY <1>1, <1>2 DEF CameraRouted

(* The end of doReloadConf: the static paths that are missing are created. *)
LEMMA ReloadDoneStep ==
    ASSUME Inv, ReloadDone
    PROVE  Inv'
<1> DEFINE missing == {n \in Names \cap DOMAIN newConfs : paths[n] = None}
<1>1. /\ pc = "reloading" /\ todo = {} /\ pathConfs' = newConfs
      /\ \E ids \in Numberings(missing) : CreatePaths(newConfs, missing, ids)
      /\ phase' = [i \in PathIds |-> IF i > created /\ i <= created' THEN "select" ELSE phase[i]]
      /\ pc' = "select"
      /\ UNCHANGED <<newConfs, todo, waitingFor, cancelled, available, ready, pending, inUse,
                     camera, primary, inflight, overlapped, reloads>>
  BY DEF ReloadDone
<1>2. PICK ids \in Numberings(missing) : CreatePaths(newConfs, missing, ids)
  BY <1>1
<1>3. missing \in SUBSET Names /\ \A n \in missing : IsConfigured(newConfs, n) /\ paths[n] = None
  BY StaticIsConfigured
<1>4. created + Cardinality(missing) <= MaxPaths
  <2>1. Cardinality(missing) <= Cardinality(Names) /\ Cardinality(missing) \in Nat
        /\ Cardinality(Names) \in Nat
    BY <1>3, ManagerAssumption, FS_Subset, FS_CardinalityType
  <2>2. created + Cardinality(Names) <= MaxPaths /\ created \in Nat
    BY <1>1 DEF Inv, ReloadIsOn, TypeOK
  <2>. QED
    BY <2>1, <2>2, ManagerAssumption
<1>. HIDE DEF missing
<1>5. TypeOK'
  <2>1. /\ created' \in 0..MaxPaths
        /\ paths' \in [Names -> PathIds \cup {None}]
        /\ name' \in [PathIds -> Names \cup {None}]
        /\ confName' \in [PathIds -> ConfNames \cup {None}]
        /\ conf' \in [PathIds -> Conf \cup {None}]
    BY <1>2, <1>3, <1>4, CreateFacts DEF Inv, TypeOK
  <2>. QED
    BY <1>1, <2>1 DEF Inv, TypeOK
<1>6. \A i \in PathIds : phase'[i] = IF i > created /\ i <= created' THEN "select" ELSE phase[i]
  BY <1>1
<1>. QED
  BY <1>1, <1>2, <1>3, <1>4, <1>5, <1>6, CreatingStep

(***************************************************************************)
(* The invariant holds.                                                    *)
(***************************************************************************)
(* initialize: the static paths, numbered in the order of the map.         *)
LEMMA InitInv == Init => Inv
<1> SUFFICES ASSUME Init PROVE Inv
  OBVIOUS
<1> DEFINE static == DOMAIN pathConfs \cap Names
           c == Cardinality(static)
<1>1. PICK ids \in [static -> 1..c] :
        /\ \A m, n \in static : ids[m] = ids[n] => m = n
        /\ paths = [n \in Names |-> IF n \in static THEN ids[n] ELSE None]
        /\ name = [i \in PathIds |-> IF i <= c THEN CHOOSE n \in static : ids[n] = i ELSE None]
  BY DEF Init
<1>2. IsFiniteSet(static) /\ c \in Nat /\ c <= MaxPaths /\ created = c
  <2>1. static \in SUBSET Names
    OBVIOUS
  <2>2. IsFiniteSet(static) /\ c <= Cardinality(Names)
    BY <2>1, ManagerAssumption, FS_Subset
  <2>3. c \in Nat /\ Cardinality(Names) \in Nat
    BY <2>2, ManagerAssumption, FS_CardinalityType
  <2>. QED
    BY <2>2, <2>3, ManagerAssumption DEF Init
<1>3. \A i \in 1..c : \E n \in static : ids[n] = i
  <2>1. ids \in [static -> 0 + 1 .. 0 + c]
    BY <1>1, <1>2
  <2>. HIDE DEF static
  <2>2. \A i \in 0 + 1 .. 0 + c : \E n \in static : ids[n] = i
    BY <1>1, <1>2, <2>1, NumbersAreTaken
  <2>. QED
    BY <1>2, <2>2
<1>4. /\ \A n \in static : n \in Names /\ n \in DOMAIN pathConfs
      /\ \A n \in Names : n \notin static => paths[n] = None
      /\ \A n \in static : paths[n] = ids[n] /\ ids[n] \in 1..c
  BY <1>1
<1>. HIDE DEF static
<1>5. Born = 1..c /\ Born \subseteq PathIds /\ \A i \in PathIds : i \in Born <=> i <= created
  BY <1>2, ManagerAssumption DEF Born, PathIds
<1>6. \A i \in Born : name[i] \in static /\ ids[name[i]] = i
  BY <1>1, <1>2, <1>3, <1>5
<1>7. \A n \in static : name[paths[n]] = n
  BY <1>1, <1>4, <1>5, <1>6
<1>8. Mapped = Born
  BY <1>4, <1>6 DEF Mapped
<1>9. \A n \in static : /\ IsConfigured(pathConfs, n) /\ FindPathConf(pathConfs, n) = pathConfs[n]
                        /\ pathConfs[n] \in Conf /\ pathConfs[n].name = n
  <2>1. PICK S \in SUBSET ConfNames : pathConfs \in [S -> Conf] /\ \A m \in S : pathConfs[m].name = m
    BY ManagerAssumption DEF PathConfs, Init
  <2>. QED
    BY <1>4, <2>1, StaticIsConfigured
<1>10. /\ conf = [i \in PathIds |-> IF i <= created THEN pathConfs[name[i]] ELSE None]
       /\ confName = name
       /\ phase = [i \in PathIds |-> IF i <= created THEN "select" ELSE "unborn"]
       /\ pc = "select" /\ newConfs = pathConfs /\ todo = {} /\ waitingFor = None
       /\ inflight = {} /\ overlapped = {} /\ reloads = 0
       /\ pathConfs \in Configurations
       /\ cancelled = [i \in PathIds |-> FALSE] /\ available = [i \in PathIds |-> FALSE]
       /\ ready = [i \in PathIds |-> FALSE] /\ pending = [i \in PathIds |-> FALSE]
       /\ inUse = [i \in PathIds |-> FALSE] /\ camera = [i \in PathIds |-> "none"]
       /\ primary = [i \in PathIds |-> None]
  BY DEF Init
<1>11. TypeOK
  <2>1. paths \in [Names -> PathIds \cup {None}]
    BY <1>1, <1>4, <1>5
  <2>2. name \in [PathIds -> Names \cup {None}]
    BY <1>1, <1>2, <1>4, <1>5, <1>6
  <2>3. conf \in [PathIds -> Conf \cup {None}] /\ confName \in [PathIds -> ConfNames \cup {None}]
    BY <1>5, <1>6, <1>9, <1>10, <2>2 DEF ConfNames
  <2>. QED
    BY <1>2, <1>10, <2>1, <2>2, <2>3, ManagerAssumption DEF TypeOK, CameraStates
<1>12. BornInOrder
  BY <1>2, <1>4, <1>5, <1>6, <1>9, <1>10 DEF BornInOrder, PathIds
<1>13. MapIsSound
  BY <1>4, <1>5, <1>7, <1>8, <1>10 DEF MapIsSound
<1>14. OthersAreAwaited /\ ReloadIsOn
  BY <1>8, <1>10 DEF OthersAreAwaited, ReloadIsOn, Live
<1>15. MappedAreConfigured /\ ReloadsAreCurrent /\ ReadyFlagAgrees
  BY <1>5, <1>6, <1>8, <1>9, <1>10 DEF MappedAreConfigured, ReloadsAreCurrent, ReadyFlagAgrees,
     ConfsOf
<1>. QED
  BY <1>11, <1>12, <1>13, <1>14, <1>15 DEF Inv

(* Every step of the manager, of a path and of a reload keeps it.          *)
LEMMA NextInv == Inv /\ [Next]_vars => Inv'
<1> SUFFICES ASSUME Inv, [Next]_vars PROVE Inv'
  OBVIOUS
<1>1. CASE UNCHANGED vars
  <2>. USE <1>1 DEF vars, mgrVars, bornVars, pathVars
  <2>1. TypeOK'
    BY DEF Inv, TypeOK
  <2>2. PathOnly
    BY DEF PathOnly
  <2>3. ReadyFlagAgrees'
    BY MapSame DEF Inv, ReadyFlagAgrees
  <2>. QED
    BY <2>1, <2>2, <2>3, PathOnlyStep DEF Inv, BornInOrder
<1>2. ASSUME NEW n \in Names, Request(n) \/ ReloadPath(n) PROVE Inv'
  BY <1>2, RequestStep, ReloadPathStep
<1>3. ASSUME NEW new \in Configurations, ReloadPathConfs(new) PROVE Inv'
  BY <1>3, ReloadPathConfsStep
<1>4. ASSUME PathWaited \/ ReloadDone PROVE Inv'
  BY <1>4, PathWaitedStep, ReloadDoneStep
<1>5. ASSUME NEW i \in Born, ClosePathIfIdle(i) \/ doSetPathReady(i) \/ CameraRouted(i)
                             \/ CameraAsks(i) \/ CameraLeaves(i)
      PROVE  Inv'
  BY <1>5, ClosePathIfIdleStep, SetPathReadyStep, CameraRoutedStep, CameraCalls
<1>6. ASSUME NEW i \in Born, HandleRequest(i) \/ SwitchStream(i) \/ BecomeIdle(i)
                             \/ CallAborted(i) \/ Terminate(i)
      PROVE  Inv'
  BY <1>6, HandlerStep, SwitchStreamStep, CancelledStep
<1>7. ASSUME NEW g \in inflight, doReloadConf(g) \/ ReloadDropped(g) PROVE Inv'
  BY <1>7, ReloadGoroutineStep
<1>8. ASSUME NEW i \in Born, NEW p \in Born,
             CameraServed(i, p) \/ CameraRemoved(i, p) \/ CameraAborted(i, p)
      PROVE  Inv'
  BY <1>8, CameraServedStep, CameraCalls
<1>. QED
  BY <1>1, <1>2, <1>3, <1>4, <1>5, <1>6, <1>7, <1>8 DEF Next

(* The manager's map, its waits and its reloads stay consistent, whatever  *)
(* requests, reloads and paths do.                                         *)
THEOREM Invariance == Spec => []Inv
BY InitInv, NextInv, PTL DEF Spec

(* The fields of the manager and of the paths have their types.            *)
THEOREM TypeCorrect == Spec => []TypeOK
<1>1. Inv => TypeOK
  BY DEF Inv
<1>. QED
  BY <1>1, Invariance, PTL

(* doClosePath waits for the path before anything else can take its name:  *)
(* two paths of the same name never run together.                          *)
THEOREM OnePathPerNameHolds == Spec => []OnePathPerName
<1>1. Inv => OnePathPerName
  <2> SUFFICES ASSUME Inv PROVE OnePathPerName
    OBVIOUS
  <2>1. \A i \in Live : i \in Mapped \/ (cancelled[i] /\ pc = "waiting" /\ waitingFor = i)
    BY DEF Inv, OthersAreAwaited
  <2>2. pc = "waiting" => paths[name[waitingFor]] = None
    BY DEF Inv, OthersAreAwaited
  <2>3. ASSUME NEW i \in Live, NEW j \in Live, name[i] = name[j] PROVE i = j
    <3>1. i \in Nat /\ j \in Nat
      BY DEF Live, Born, Inv, TypeOK
    <3>. QED
      BY <2>1, <2>2, <2>3, <3>1, ManagerAssumption DEF Mapped
  <2>. QED
    BY <2>1, <2>3 DEF OnePathPerName
<1>. QED
  BY <1>1, Invariance, PTL

(* doReloadConf and doSetPathReady: every path in the map belongs to the   *)
(* configuration of its name, its ready flag is its availability, and it   *)
(* has its settings or will get them, unless two reloads have overtaken    *)
(* each other.                                                             *)
THEOREM ManagerIsCurrentHolds == Spec => []ManagerIsCurrent
<1>1. Inv => ManagerIsCurrent
  <2> SUFFICES ASSUME Inv PROVE ManagerIsCurrent
    OBVIOUS
  <2>1. pc = "select" => \A i \in Mapped : ConfsOf(i) = pathConfs
    BY DEF Inv, ReloadIsOn, ConfsOf
  <2>2. PathsAreConfigured
    BY <2>1 DEF Inv, PathsAreConfigured, MappedAreConfigured
  <2>3. StaleOnlyIfOvertaken
    BY <2>1 DEF Inv, StaleOnlyIfOvertaken, ReloadsAreCurrent
  <2>. QED
    BY <2>2, <2>3 DEF Inv, ManagerIsCurrent
<1>. QED
  BY <1>1, Invariance, PTL
=============================================================================
