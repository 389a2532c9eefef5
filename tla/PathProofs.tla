----------------------------- MODULE PathProofs -----------------------------
(***************************************************************************)
(* Proofs about Path, for any sets of clients, configurations and egress   *)
(* parameters.                                                             *)
(***************************************************************************)
EXTENDS Path, FiniteSetTheorems, TLAPS

(* The fields of a configuration, and what Path.validate excludes.         *)
LEMMA ConfFacts ==
    ASSUME NEW c \in Confs
    PROVE  /\ c \in ConfType
           /\ c.sourceOnDemand => c.source # "publisher"
           /\ c.alwaysAvailable => ~c.regexp /\ ~c.sourceOnDemand /\ ~c.runOnDemand
           /\ c.runOnDemand => c.source = "publisher"
BY PathAssumption DEF ValidConf

(* A hot reload keeps every field but the regular expression and the       *)
(* parameters of recorder and forwarders (pathConfCanBeUpdated).           *)
LEMMA ReloadFacts ==
    ASSUME NEW old \in Confs, NEW new \in Confs, CanBeUpdated(old, new)
    PROVE  /\ new.source = old.source
           /\ new.alwaysAvailable = old.alwaysAvailable
           /\ new.sourceOnDemand = old.sourceOnDemand
           /\ new.runOnDemand = old.runOnDemand
           /\ new.maxReaders = old.maxReaders
BY ConfFacts DEF CanBeUpdated, ConfType

(* addReaderPost admits only sessions that were waiting.                   *)
LEMMA AdmittedFacts ==
    ASSUME TypeOK, NEW rds
    PROVE  Admitted(rds) \subseteq Held \cap Readers
BY DEF Admitted, Held, TypeOK

(* setAvailable and a reload give every recorder and forwarder a setting   *)
(* or leave it off.                                                        *)
LEMMA EgressType ==
    ASSUME TypeOK
    PROVE  /\ AllOff \in [Egress -> Settings \cup {Off}]
           /\ \A old \in [Egress -> Settings \cup {Off}] :
                 OpenEgress(old) \in [Egress -> Settings \cup {Off}]
           /\ \A hook, old : Overwritten(hook, old) \subseteq Egress \cup {"runOnReady"}
           /\ \A new \in Confs : ReloadEgress(new) \in [Egress -> Settings \cup {Off}]
<1>. Started(conf) \subseteq Egress /\ \A new \in Confs : Started(new) \subseteq Egress
  BY PathAssumption DEF Started
<1>. \A c \in Confs : c.egress \in [Egress -> Settings \cup {Off}]
  BY ConfFacts DEF ConfType
<1>. QED
  BY DEF AllOff, OpenEgress, Overwritten, ReloadEgress, TypeOK

(* What the helpers on calls and sessions leave in place.                  *)
LEMMA HelperTypes ==
    ASSUME TypeOK
    PROVE  /\ \A cs : Answer(cs) => call' \in [Clients -> {"none", "routed", "held"}]
           /\ \A cs, kicked : Admit(cs, kicked) =>
                 session' \in [Sessions -> {"out", "in", "kicked"}]
BY DEF TypeOK, Answer, Admit

(* A request that can be taken has been counted.                           *)
LEMMA TakeCounted ==
    ASSUME TypeOK, RequestsCounted, NEW c \in Clients, Take(c)
    PROVE  pendingRequests' \in Nat
<1>1. IsFiniteSet(Routed)
  BY PathAssumption, FS_Subset DEF Routed
<1>2. c \in Routed
  BY DEF Take, Routed
<1>3. Cardinality(Routed) \in Nat /\ Cardinality(Routed) # 0
  BY <1>1, <1>2, FS_CardinalityType, FS_EmptySet
<1>. QED
  BY <1>3 DEF Take, RequestsCounted, TypeOK

(* Every handler of the loop keeps the types; pendingRequests stays a      *)
(* natural number because the request being taken is counted.              *)
LEMMA TypeOKStep ==
    ASSUME TypeOK, RequestsCounted, [Next]_vars
    PROVE  TypeOK'
<1>. USE DEF Clients, Sessions
<1>1. CASE UNCHANGED vars
  BY <1>1 DEF vars, pathVars, demandVars, holdVars, TypeOK
<1>2. ASSUME NEW c \in Clients, Route(c) PROVE TypeOK'
  BY <1>2 DEF Route, pathVars, demandVars, holdVars, TypeOK
<1>3. ASSUME NEW c \in Clients, Abandon(c) PROVE TypeOK'
  BY <1>3, HelperTypes DEF Abandon, pathVars, demandVars, holdVars, TypeOK
<1>4. CASE ClosePathIfIdle
  BY <1>4 DEF ClosePathIfIdle, pathVars, demandVars, holdVars, TypeOK
<1>5. CASE Close
  BY <1>5 DEF Close, pathVars, demandVars, holdVars, TypeOK
<1>6. CASE Terminate
  <2>1. call' \in [Clients -> {"none", "routed", "held"}]
    BY <1>6, HelperTypes DEF Terminate, FailHeldRequests
  <2>2. session' \in [Sessions -> {"out", "in", "kicked"}]
    BY <1>6, HelperTypes DEF Terminate
  <2>3. heldReaders' \in Seq(Readers) /\ heldDescribes' \subseteq Describers
    BY <1>6 DEF Terminate, FailHeldRequests
  <2>4. /\ stream' \in {"nil", "bare", "offline", "live"} /\ readers' \subseteq Readers
        /\ readyHook' \in BOOLEAN /\ egress' \in [Egress -> Settings \cup {Off}]
        /\ leaked' \subseteq Egress \cup {"runOnReady"}
    BY <1>6, EgressType DEF Terminate, setNotAvailable, pathVars, TypeOK
  <2>. QED
    BY <1>6, <2>1, <2>2, <2>3, <2>4 DEF Terminate, TypeOK
<1>7. CASE doOnDemandStaticSourceReadyTimer
  BY <1>7, HelperTypes
  DEF doOnDemandStaticSourceReadyTimer, FailHeldRequests, onDemandStaticSourceStop,
      CloseIfIdle, OnDemandState, pathVars, TypeOK
<1>8. CASE doOnDemandStaticSourceCloseTimer
  BY <1>8, HelperTypes, EgressType
  DEF doOnDemandStaticSourceCloseTimer, setNotAvailable, onDemandStaticSourceStop,
      CloseIfIdle, OnDemandState, holdVars, TypeOK
<1>9. CASE doOnDemandPublisherReadyTimer
  <2>1. call' \in [Clients -> {"none", "routed", "held"}]
    BY <1>9, HelperTypes DEF doOnDemandPublisherReadyTimer, FailHeldRequests
  <2>2. heldReaders' \in Seq(Readers) /\ heldDescribes' \subseteq Describers
    BY <1>9 DEF doOnDemandPublisherReadyTimer, FailHeldRequests
  <2>3. /\ demandHook' \in BOOLEAN /\ pubState' \in OnDemandState /\ timers' \subseteq Timer
        /\ ssState' = ssState /\ handler' = handler
    BY <1>9 DEF doOnDemandPublisherReadyTimer, onDemandPublisherStop, OnDemandState, TypeOK
  <2>. QED
    BY <1>9, <2>1, <2>2, <2>3 DEF doOnDemandPublisherReadyTimer, CloseIfIdle, pathVars, TypeOK
<1>10. CASE doOnDemandPublisherCloseTimer
  <2>1. /\ demandHook' \in BOOLEAN /\ pubState' \in OnDemandState /\ timers' \subseteq Timer
        /\ ssState' = ssState /\ handler' = handler
    BY <1>10 DEF doOnDemandPublisherCloseTimer, onDemandPublisherStop, OnDemandState, TypeOK
  <2>. QED
    BY <1>10, <2>1 DEF doOnDemandPublisherCloseTimer, pathVars, holdVars, TypeOK
<1>11. ASSUME NEW new \in Confs, doReloadConf(new) PROVE TypeOK'
  BY <1>11, EgressType DEF doReloadConf, holdVars, demandVars, TypeOK
<1>12. CASE doSourceStaticSetReady
  <2>1. readyHook' \in BOOLEAN /\ egress' \in [Egress -> Settings \cup {Off}]
        /\ leaked' \subseteq Egress \cup {"runOnReady"}
    BY <1>12, EgressType DEF doSourceStaticSetReady, setAvailable, TypeOK
  <2>2. ssState' \in OnDemandState /\ pubState' \in OnDemandState
        /\ timers' \subseteq Timer /\ demandHook' \in BOOLEAN
    BY <1>12 DEF doSourceStaticSetReady, StaticSourceReady, demandVars, OnDemandState, Timer, TypeOK
  <2>3. readers' \subseteq Readers /\ heldDescribes' \subseteq Describers
        /\ heldReaders' \in Seq(Readers)
    <3>1. Admitted(readers) \subseteq Readers
      BY AdmittedFacts
    <3>2. readers' = readers \/ readers' = readers \cup Admitted(readers)
      BY <1>12 DEF doSourceStaticSetReady, consumeOnHoldRequests
    <3>3. /\ heldReaders' = heldReaders \/ heldReaders' = <<>>
          /\ heldDescribes' = heldDescribes \/ heldDescribes' = {}
      BY <1>12 DEF doSourceStaticSetReady, consumeOnHoldRequests, holdVars
    <3>4. heldReaders' \in Seq(Readers)
      <4>1. heldReaders \in Seq(Readers)
        BY DEF TypeOK
      <4>2. <<>> \in Seq(Readers)
        OBVIOUS
      <4>. QED
        BY <3>3, <4>1, <4>2, Zenon
    <3>. QED
      BY <3>1, <3>2, <3>3, <3>4 DEF TypeOK
  <2>4. call' \in [Clients -> {"none", "routed", "held"}]
        /\ session' \in [Sessions -> {"out", "in", "kicked"}]
    BY <1>12, HelperTypes DEF doSourceStaticSetReady, TypeOK
  <2>. QED
    BY <1>12, <2>1, <2>2, <2>3, <2>4 DEF doSourceStaticSetReady, TypeOK
<1>13. CASE doSourceStaticSetNotReady
  <2>1. /\ stream' \in {"nil", "offline"} /\ readers' \subseteq Readers
        /\ readyHook' \in BOOLEAN /\ egress' \in [Egress -> Settings \cup {Off}]
        /\ leaked' = leaked
    BY <1>13, EgressType DEF doSourceStaticSetNotReady, setNotAvailable, TypeOK
  <2>2. session' \in [Sessions -> {"out", "in", "kicked"}]
    BY <1>13, HelperTypes DEF doSourceStaticSetNotReady, TypeOK
  <2>3. /\ ssState' \in OnDemandState /\ timers' \subseteq Timer
        /\ handler' \in {"stopped", "running"} /\ UNCHANGED <<pubState, demandHook>>
    BY <1>13 DEF doSourceStaticSetNotReady, onDemandStaticSourceStop, OnDemandState,
      demandVars, TypeOK
  <2>. QED
    BY <1>13, <2>1, <2>2, <2>3 DEF doSourceStaticSetNotReady, CloseIfIdle, holdVars, TypeOK
<1>14. ASSUME NEW d \in Describers, doDescribe(d) PROVE TypeOK'
  <2>1. pendingRequests' \in Nat
    BY <1>14, TakeCounted DEF doDescribe
  <2>2. call' \in [Clients -> {"none", "routed", "held"}]
    BY <1>14, HelperTypes DEF doDescribe, TypeOK
  <2>3. heldDescribes' \subseteq Describers
    BY <1>14 DEF doDescribe, TypeOK
  <2>4. /\ handler' \in {"stopped", "running", "ready"}
        /\ ssState' \in OnDemandState /\ pubState' \in OnDemandState
        /\ timers' \subseteq Timer /\ demandHook' \in BOOLEAN
    BY <1>14 DEF doDescribe, StartOnDemand, onDemandStaticSourceStart,
      onDemandPublisherStart, demandVars, OnDemandState, Timer, TypeOK
  <2>. QED
    BY <1>14, <2>1, <2>2, <2>3, <2>4 DEF doDescribe, CloseIfIdle, pathVars, TypeOK
<1>15. ASSUME NEW r \in Readers, doAddReader(r) PROVE TypeOK'
  <2>1. pendingRequests' \in Nat
    BY <1>15, TakeCounted DEF doAddReader
  <2>2. call' \in [Clients -> {"none", "routed", "held"}]
    BY <1>15, HelperTypes DEF doAddReader, TypeOK
  <2>3. session' \in [Sessions -> {"out", "in", "kicked"}]
    BY <1>15, HelperTypes DEF doAddReader, TypeOK
  <2>4. heldReaders' \in Seq(Readers) /\ readers' \subseteq Readers
    <3>1. heldReaders' = heldReaders \/ heldReaders' = Append(heldReaders, r)
      BY <1>15 DEF doAddReader
    <3>2. readers' = readers \/ readers' = readers \cup {r}
      BY <1>15 DEF doAddReader
    <3>3. heldReaders \in Seq(Readers) /\ readers \subseteq Readers
      BY DEF TypeOK
    <3>. QED
      BY <3>1, <3>2, <3>3
  <2>5. /\ handler' \in {"stopped", "running", "ready"}
        /\ ssState' \in OnDemandState /\ pubState' \in OnDemandState
        /\ timers' \subseteq Timer /\ demandHook' \in BOOLEAN
    BY <1>15 DEF doAddReader, StartOnDemand, onDemandStaticSourceStart, ReaderAdded,
      onDemandPublisherStart, demandVars, OnDemandState, Timer, TypeOK
  <2>. QED
    BY <1>15, <2>1, <2>2, <2>3, <2>4, <2>5 DEF doAddReader, CloseIfIdle, TypeOK
<1>16. ASSUME NEW r \in Readers, doRemoveReader(r) PROVE TypeOK'
  <2>1. /\ session' \in [Sessions -> {"out", "in", "kicked"}]
        /\ readers' \subseteq Readers
    BY <1>16 DEF doRemoveReader, TypeOK
  <2>2. /\ ssState' \in OnDemandState /\ pubState' \in OnDemandState
        /\ timers' \subseteq Timer /\ demandHook' \in BOOLEAN
    BY <1>16 DEF doRemoveReader, LastReaderGone, demandVars, OnDemandState, Timer, TypeOK
  <2>. QED
    BY <1>16, <2>1, <2>2 DEF doRemoveReader, holdVars, TypeOK
<1>17. ASSUME NEW p \in Publishers, AddPublisherRefused(p) PROVE TypeOK'
  <2>1. pendingRequests' \in Nat
    BY <1>17, TakeCounted DEF AddPublisherRefused
  <2>2. call' \in [Clients -> {"none", "routed", "held"}]
    BY <1>17, HelperTypes DEF AddPublisherRefused
  <2>. QED
    BY <1>17, <2>1, <2>2 DEF AddPublisherRefused, CloseIfIdle, pathVars, holdVars,
      demandVars, TypeOK
<1>18. ASSUME NEW p \in Publishers, doAddPublisher(p) PROVE TypeOK'
  <2>1. pendingRequests' \in Nat
    BY <1>18, TakeCounted DEF doAddPublisher
  <2>2. /\ call' \in [Clients -> {"none", "routed", "held"}]
        /\ session' \in [Sessions -> {"out", "in", "kicked"}]
    BY <1>18, HelperTypes DEF doAddPublisher
  <2>3. /\ readyHook' \in BOOLEAN /\ egress' \in [Egress -> Settings \cup {Off}]
        /\ leaked' \subseteq Egress \cup {"runOnReady"}
    BY <1>18, EgressType DEF doAddPublisher, setAvailable, TypeOK
  <2>4. /\ ssState' \in OnDemandState /\ pubState' \in OnDemandState
        /\ timers' \subseteq Timer /\ demandHook' \in BOOLEAN
    BY <1>18 DEF doAddPublisher, PublisherReady, demandVars, OnDemandState, Timer, TypeOK
  <2>5. /\ readers' \subseteq Readers /\ heldDescribes' \subseteq Describers
        /\ heldReaders' \in Seq(Readers)
    <3>1. \A rds : Admitted(rds) \subseteq Readers
      BY AdmittedFacts
    <3>2. PICK rds \in SUBSET readers : readers' = rds \/ readers' = rds \cup Admitted(rds)
      BY <1>18 DEF doAddPublisher, consumeOnHoldRequests
    <3>3. /\ heldReaders' = heldReaders \/ heldReaders' = <<>>
          /\ heldDescribes' = heldDescribes \/ heldDescribes' = {}
      BY <1>18 DEF doAddPublisher, consumeOnHoldRequests, holdVars
    <3>4. heldReaders' \in Seq(Readers)
      <4>1. heldReaders \in Seq(Readers)
        BY DEF TypeOK
      <4>2. <<>> \in Seq(Readers)
        OBVIOUS
      <4>. QED
        BY <3>3, <4>1, <4>2, Zenon
    <3>. QED
      BY <3>1, <3>2, <3>3, <3>4 DEF TypeOK
  <2>. QED
    BY <1>18, <2>1, <2>2, <2>3, <2>4, <2>5 DEF doAddPublisher, CloseIfIdle, TypeOK
<1>19. ASSUME NEW p \in Publishers, doRemovePublisher(p) PROVE TypeOK'
  BY <1>19, EgressType
  DEF doRemovePublisher, executeRemovePublisher, setNotAvailable, CloseIfIdle, pathVars,
      holdVars, demandVars, TypeOK
<1>. QED
  BY <1>1, <1>2, <1>3, <1>4, <1>5, <1>6, <1>7, <1>8, <1>9, <1>10, <1>11, <1>12, <1>13,
     <1>14, <1>15, <1>16, <1>17, <1>18, <1>19 DEF Next

-----------------------------------------------------------------------------
(***************************************************************************)
(* pendingRequests and the on-hold lists agree with the clients' calls.    *)
(***************************************************************************)
Open == phase \in {"running", "asking"}

Counted ==
    /\ pendingRequests >= Cardinality(Routed)
    /\ Open => pendingRequests = Cardinality(Routed)

HeldCalls == Held = {c \in Clients : call[c] = "held"}

(* The requests on their way to the path can be counted.                   *)
LEMMA RoutedFinite ==
    IsFiniteSet(Routed) /\ Cardinality(Routed) \in Nat
BY PathAssumption, FS_Subset, FS_CardinalityType DEF Routed

(* Nothing was routed or taken.                                            *)
LEMMA CountSame ==
    ASSUME Counted, Routed' = Routed, pendingRequests' = pendingRequests, Open' => Open
    PROVE  Counted'
BY DEF Counted

(* A request was taken from the queue.                                     *)
LEMMA CountTake ==
    ASSUME TypeOK, Counted, NEW c \in Clients, Take(c), Routed' = Routed \ {c}, Open' => Open
    PROVE  Counted'
<1>1. c \in Routed
  BY DEF Take, Routed
<1>2. Cardinality(Routed \ {c}) = Cardinality(Routed) - 1
  BY <1>1, RoutedFinite, FS_RemoveElement
<1>. QED
  BY <1>2, RoutedFinite DEF Counted, Take, TypeOK

(* Answering the clients of a set removes exactly them from each state.    *)
LEMMA AnswerFacts ==
    ASSUME TypeOK, NEW cs, Answer(cs)
    PROVE  /\ Routed' = Routed \ cs
           /\ {c \in Clients : call[c] = "held"}' = {c \in Clients : call[c] = "held"} \ cs
BY DEF Answer, Routed, TypeOK

(* A request on hold is no longer routed.                                  *)
LEMMA HoldFacts ==
    ASSUME TypeOK, NEW c \in Clients, call' = [call EXCEPT ![c] = "held"]
    PROVE  /\ Routed' = Routed \ {c}
           /\ {d \in Clients : call[d] = "held"}' = {d \in Clients : call[d] = "held"} \cup {c}
BY DEF Routed, TypeOK

(* A request on hold has been taken from the queue.                        *)
LEMMA HeldNotRouted ==
    ASSUME HeldCalls PROVE Held \cap Routed = {}
BY DEF HeldCalls, Routed

(* doAddReader puts the reader, and nobody else, on hold.                  *)
LEMMA AppendHeld ==
    ASSUME TypeOK, NEW r \in Readers, heldReaders' = Append(heldReaders, r),
           heldDescribes' = heldDescribes
    PROVE  Held' = Held \cup {r}
<1>1. /\ DOMAIN heldReaders' = DOMAIN heldReaders \cup {Len(heldReaders) + 1}
      /\ heldReaders'[Len(heldReaders) + 1] = r
      /\ \A i \in DOMAIN heldReaders : heldReaders'[i] = heldReaders[i]
  BY DEF TypeOK
<1>. QED
  BY <1>1 DEF Held

(* Emptying both lists leaves nobody on hold.                              *)
LEMMA NoneHeld ==
    ASSUME heldDescribes' = {}, heldReaders' = <<>>
    PROVE  Held' = {}
BY DEF Held

(* An action that touches neither the queue nor the on-hold lists.         *)
LEMMA RequestsSame ==
    ASSUME Counted, HeldCalls, UNCHANGED <<call, pendingRequests, heldDescribes, heldReaders>>,
           Open' => Open
    PROVE  Counted' /\ HeldCalls'
<1>1. Routed' = Routed /\ Held' = Held
  BY DEF Routed, Held
<1>. QED
  BY <1>1, CountSame DEF HeldCalls

(* An action that answers everybody on hold and nobody else.               *)
LEMMA RequestsReleased ==
    ASSUME TypeOK, Counted, HeldCalls, Answer(Held), pendingRequests' = pendingRequests,
           heldDescribes' = {}, heldReaders' = <<>>, Open' => Open
    PROVE  Counted' /\ HeldCalls'
<1>1. Routed' = Routed
  BY AnswerFacts, HeldNotRouted
<1>. QED
  BY <1>1, CountSame, NoneHeld, AnswerFacts DEF HeldCalls

(* Every step keeps pendingRequests equal to the requests on their way,    *)
(* and the on-hold lists equal to the clients that wait.                   *)
LEMMA RequestsStep ==
    ASSUME TypeOK, Counted, HeldCalls, [Next]_vars
    PROVE  Counted' /\ HeldCalls'
<1>. USE DEF Clients
<1>1. CASE UNCHANGED vars
  BY <1>1, RequestsSame DEF vars, holdVars, Open
<1>2. ASSUME NEW c \in Clients, Route(c) PROVE Counted' /\ HeldCalls'
  <2>1. c \notin Routed /\ Routed' = Routed \cup {c}
    BY <1>2 DEF Route, Routed, TypeOK
  <2>2. Cardinality(Routed \cup {c}) = Cardinality(Routed) + 1
    BY <2>1, RoutedFinite, FS_AddElement
  <2>3. Counted'
    BY <1>2, <2>1, <2>2, RoutedFinite DEF Route, Counted, Open, TypeOK
  <2>4. HeldCalls'
    BY <1>2 DEF Route, HeldCalls, Held, holdVars, TypeOK
  <2>. QED
    BY <2>3, <2>4
<1>3. ASSUME NEW c \in Clients, Abandon(c) PROVE Counted' /\ HeldCalls'
  <2>1. CASE call[c] = "routed" /\ Answer({c})
    <3>1. c \in Routed /\ Routed' = Routed \ {c}
      BY <2>1, AnswerFacts DEF Routed
    <3>2. Cardinality(Routed \ {c}) = Cardinality(Routed) - 1
      BY <3>1, RoutedFinite, FS_RemoveElement
    <3>3. ~Open'
      BY <1>3 DEF Abandon, Open
    <3>4. Counted'
      BY <1>3, <3>1, <3>2, <3>3, RoutedFinite DEF Abandon, Counted, TypeOK
    <3>5. Held' = Held /\ c \notin Held
      BY <1>3, <2>1 DEF Abandon, Held, holdVars, HeldCalls
    <3>. QED
      BY <2>1, <3>4, <3>5, AnswerFacts DEF HeldCalls
  <2>2. CASE UNCHANGED call
    BY <1>3, <2>2, RequestsSame DEF Abandon, holdVars, Open
  <2>. QED
    BY <1>3, <2>1, <2>2 DEF Abandon
<1>4. CASE ClosePathIfIdle
  BY <1>4, RequestsSame DEF ClosePathIfIdle, holdVars, Open
<1>5. CASE Close
  BY <1>5, RequestsSame DEF Close, holdVars, Open
<1>6. CASE Terminate
  BY <1>6, RequestsReleased DEF Terminate, FailHeldRequests, Open
<1>7. CASE doOnDemandStaticSourceReadyTimer
  BY <1>7, RequestsReleased
  DEF doOnDemandStaticSourceReadyTimer, FailHeldRequests, CloseIfIdle, Open
<1>8. CASE doOnDemandStaticSourceCloseTimer
  BY <1>8, RequestsSame DEF doOnDemandStaticSourceCloseTimer, holdVars, CloseIfIdle, Open
<1>9. CASE doOnDemandPublisherReadyTimer
  BY <1>9, RequestsReleased
  DEF doOnDemandPublisherReadyTimer, FailHeldRequests, CloseIfIdle, Open
<1>10. CASE doOnDemandPublisherCloseTimer
  BY <1>10, RequestsSame DEF doOnDemandPublisherCloseTimer, holdVars, Open
<1>11. ASSUME NEW new \in Confs, doReloadConf(new) PROVE Counted' /\ HeldCalls'
  BY <1>11, RequestsSame DEF doReloadConf, holdVars, Open
<1>12. CASE doSourceStaticSetReady
  <2>1. CASE UNCHANGED <<holdVars, call>>
    BY <1>12, <2>1, RequestsSame DEF doSourceStaticSetReady, holdVars, Open
  <2>2. CASE Answer(Held) /\ heldDescribes' = {} /\ heldReaders' = <<>>
    BY <1>12, <2>2, RequestsReleased DEF doSourceStaticSetReady, Open
  <2>. QED
    BY <1>12, <2>1, <2>2 DEF doSourceStaticSetReady, consumeOnHoldRequests
<1>13. CASE doSourceStaticSetNotReady
  BY <1>13, RequestsSame DEF doSourceStaticSetNotReady, holdVars, CloseIfIdle, Open
<1>14. ASSUME NEW d \in Describers, doDescribe(d) PROVE Counted' /\ HeldCalls'
  <2>1. Take(d) /\ (Open' => Open)
    BY <1>14 DEF doDescribe, CloseIfIdle, Open
  <2>2. CASE Answer({d}) /\ UNCHANGED heldDescribes
    <3>1. d \notin Held /\ Held' = Held
      BY <1>14, <2>1, <2>2 DEF doDescribe, Take, HeldCalls, Held
    <3>. QED
      BY <2>1, <2>2, <3>1, AnswerFacts, CountTake DEF HeldCalls
  <2>3. CASE heldDescribes' = heldDescribes \cup {d} /\ call' = [call EXCEPT ![d] = "held"]
    <3>1. Held' = Held \cup {d}
      BY <1>14, <2>3 DEF doDescribe, Held
    <3>. QED
      BY <2>1, <2>3, <3>1, HoldFacts, CountTake DEF HeldCalls
  <2>. QED
    BY <1>14, <2>2, <2>3 DEF doDescribe
<1>15. ASSUME NEW r \in Readers, doAddReader(r) PROVE Counted' /\ HeldCalls'
  <2>1. Take(r) /\ (Open' => Open) /\ heldDescribes' = heldDescribes
    BY <1>15 DEF doAddReader, CloseIfIdle, Open
  <2>2. CASE Answer({r}) /\ UNCHANGED heldReaders
    <3>1. r \notin Held /\ Held' = Held
      BY <2>1, <2>2 DEF Take, HeldCalls, Held
    <3>. QED
      BY <2>1, <2>2, <3>1, AnswerFacts, CountTake DEF HeldCalls
  <2>3. CASE heldReaders' = Append(heldReaders, r) /\ call' = [call EXCEPT ![r] = "held"]
    BY <2>1, <2>3, AppendHeld, HoldFacts, CountTake DEF HeldCalls
  <2>. QED
    BY <1>15, <2>2, <2>3 DEF doAddReader
<1>16. ASSUME NEW r \in Readers, doRemoveReader(r) PROVE Counted' /\ HeldCalls'
  BY <1>16, RequestsSame DEF doRemoveReader, holdVars, Open
<1>17. ASSUME NEW p \in Publishers, AddPublisherRefused(p) PROVE Counted' /\ HeldCalls'
  <2>1. Take(p) /\ (Open' => Open) /\ Answer({p})
    BY <1>17 DEF AddPublisherRefused, CloseIfIdle, Open
  <2>2. p \notin Held /\ Held' = Held
    BY <1>17, <2>1 DEF AddPublisherRefused, Take, HeldCalls, Held, holdVars
  <2>. QED
    BY <2>1, <2>2, AnswerFacts, CountTake DEF HeldCalls
<1>18. ASSUME NEW p \in Publishers, doAddPublisher(p) PROVE Counted' /\ HeldCalls'
  <2>1. Take(p) /\ (Open' => Open)
    BY <1>18 DEF doAddPublisher, CloseIfIdle, Open
  <2>2. p \notin Held
    BY <2>1 DEF Take, HeldCalls
  <2>3. CASE Answer({p}) /\ UNCHANGED holdVars
    <3>1. Held' = Held
      BY <2>3 DEF Held, holdVars
    <3>. QED
      BY <2>1, <2>2, <2>3, <3>1, AnswerFacts, CountTake DEF HeldCalls
  <2>4. CASE Answer({p} \cup Held) /\ heldDescribes' = {} /\ heldReaders' = <<>>
    <3>1. Routed' = Routed \ {p}
      BY <2>4, AnswerFacts, HeldNotRouted
    <3>. QED
      BY <2>1, <2>2, <2>4, <3>1, AnswerFacts, CountTake, NoneHeld DEF HeldCalls
  <2>. QED
    BY <1>18, <2>3, <2>4 DEF doAddPublisher, consumeOnHoldRequests
<1>19. ASSUME NEW p \in Publishers, doRemovePublisher(p) PROVE Counted' /\ HeldCalls'
  BY <1>19, RequestsSame DEF doRemovePublisher, holdVars, CloseIfIdle, Open
<1>. QED
  BY <1>1, <1>2, <1>3, <1>4, <1>5, <1>6, <1>7, <1>8, <1>9, <1>10, <1>11, <1>12, <1>13,
     <1>14, <1>15, <1>16, <1>17, <1>18, <1>19 DEF Next

-----------------------------------------------------------------------------
(***************************************************************************)
(* The on-demand state machines: states, timers, command, static source,   *)
(* stream and pa.source move together.                                     *)
(***************************************************************************)
Control ==
    /\ TimersMatchState
    /\ DemandHookMatchesState
    /\ HandlerMatchesState
    /\ StreamMatchesSource

(* Every step keeps timers, on-demand states, command, source handler and  *)
(* stream in agreement.                                                    *)
LEMMA ControlStep ==
    ASSUME TypeOK, TypeOK', Control, [Next]_vars
    PROVE  Control'
<1>. USE PathAssumption DEF Control, TimersMatchState, DemandHookMatchesState,
      HandlerMatchesState, StreamMatchesSource, HasOnDemandStaticSource, HasOnDemandPublisher
<1>1. CASE UNCHANGED vars
  BY <1>1 DEF vars, pathVars, demandVars
<1>2. ASSUME NEW c \in Clients, Route(c) PROVE Control'
  BY <1>2, ConfFacts
  DEF Route, pathVars, demandVars, holdVars, TypeOK
<1>3. ASSUME NEW c \in Clients, Abandon(c) PROVE Control'
  BY <1>3, ConfFacts
  DEF Abandon, pathVars, demandVars, holdVars, TypeOK
<1>4. CASE ClosePathIfIdle
  BY <1>4, ConfFacts
  DEF ClosePathIfIdle, pathVars, demandVars, holdVars, TypeOK
<1>5. CASE Close
  BY <1>5, ConfFacts
  DEF Close, pathVars, demandVars, holdVars, TypeOK
<1>6. CASE Terminate
  BY <1>6, ConfFacts
  DEF Terminate, TypeOK
<1>7. CASE doOnDemandStaticSourceReadyTimer
  BY <1>7, ConfFacts
  DEF doOnDemandStaticSourceReadyTimer, onDemandStaticSourceStop, CloseIfIdle, AtSelect,
      pathVars, TypeOK
<1>8. CASE doOnDemandStaticSourceCloseTimer
  BY <1>8, ConfFacts
  DEF doOnDemandStaticSourceCloseTimer, onDemandStaticSourceStop, setNotAvailable,
      CloseIfIdle, AtSelect, TypeOK
<1>9. CASE doOnDemandPublisherReadyTimer
  BY <1>9, ConfFacts
  DEF doOnDemandPublisherReadyTimer, onDemandPublisherStop, CloseIfIdle, AtSelect, pathVars,
      TypeOK
<1>10. CASE doOnDemandPublisherCloseTimer
  BY <1>10, ConfFacts
  DEF doOnDemandPublisherCloseTimer, onDemandPublisherStop, AtSelect, pathVars, TypeOK
<1>11. ASSUME NEW new \in Confs, doReloadConf(new) PROVE Control'
  BY <1>11, ReloadFacts, ConfFacts
  DEF doReloadConf, demandVars, AtSelect, TypeOK
<1>12. CASE doSourceStaticSetReady
  BY <1>12, ConfFacts
  DEF doSourceStaticSetReady, StaticSourceReady, demandVars, AtSelect, TypeOK
<1>13. CASE doSourceStaticSetNotReady
  BY <1>13, ConfFacts
  DEF doSourceStaticSetNotReady, onDemandStaticSourceStop, setNotAvailable, CloseIfIdle,
      AtSelect, demandVars, TypeOK
<1>14. ASSUME NEW d \in Describers, doDescribe(d) PROVE Control'
  BY <1>14, ConfFacts
  DEF doDescribe, StartOnDemand, HasOnDemand, onDemandStaticSourceStart,
      onDemandPublisherStart, Take, AtSelect, CloseIfIdle, pathVars, demandVars, TypeOK
<1>15. ASSUME NEW r \in Readers, doAddReader(r) PROVE Control'
  <2>1. /\ phase # "done" /\ phase' # "done"
        /\ UNCHANGED <<conf, source, stream>>
    BY <1>15 DEF doAddReader, Take, AtSelect, CloseIfIdle
  <2>2. CASE UNCHANGED <<handler, demandVars>>
    BY <2>1, <2>2 DEF demandVars
  <2>3. CASE ReaderAdded /\ UNCHANGED handler
    BY <2>1, <2>3, ConfFacts DEF ReaderAdded, demandVars, TypeOK
  <2>4. CASE stream = "nil" /\ HasOnDemand /\ StartOnDemand
    BY <2>1, <2>4, ConfFacts DEF HasOnDemand, StartOnDemand, onDemandStaticSourceStart,
      onDemandPublisherStart, demandVars, TypeOK
  <2>. QED
    BY <1>15, <2>2, <2>3, <2>4 DEF doAddReader
<1>16. ASSUME NEW r \in Readers, doRemoveReader(r) PROVE Control'
  BY <1>16, ConfFacts
  DEF doRemoveReader, LastReaderGone, AtSelect, demandVars, TypeOK
<1>17. ASSUME NEW p \in Publishers, AddPublisherRefused(p) PROVE Control'
  BY <1>17, ConfFacts
  DEF AddPublisherRefused, Take, AtSelect, CloseIfIdle, pathVars, demandVars, TypeOK
<1>18. ASSUME NEW p \in Publishers, doAddPublisher(p) PROVE Control'
  BY <1>18, ConfFacts
  DEF doAddPublisher, PublisherReady, Take, AtSelect, CloseIfIdle, demandVars, TypeOK
<1>19. ASSUME NEW p \in Publishers, doRemovePublisher(p) PROVE Control'
  <2>1. /\ phase # "done" /\ phase' # "done"
        /\ UNCHANGED <<conf, handler, demandVars>>
    BY <1>19 DEF doRemovePublisher, AtSelect, CloseIfIdle
  <2>2. CASE UNCHANGED <<source, pathVars>>
    BY <2>1, <2>2 DEF demandVars, pathVars
  <2>3. CASE source = p /\ executeRemovePublisher(p)
    <3>1. conf.source = "publisher" /\ handler # "ready" /\ source' = None
      BY <2>3, ConfFacts DEF executeRemovePublisher, ConfType, TypeOK
    <3>2. stream' = IF conf.alwaysAvailable THEN "offline" ELSE "nil"
      BY <2>3 DEF executeRemovePublisher, setNotAvailable
    <3>. QED
      BY <2>1, <3>1, <3>2, ConfFacts DEF demandVars
  <2>. QED
    BY <1>19, <2>2, <2>3 DEF doRemovePublisher
<1>. QED
  BY <1>1, <1>2, <1>3, <1>4, <1>5, <1>6, <1>7, <1>8, <1>9, <1>10, <1>11, <1>12, <1>13,
     <1>14, <1>15, <1>16, <1>17, <1>18, <1>19 DEF Next

-----------------------------------------------------------------------------
(***************************************************************************)
(* Requests on hold have a deadline; recorder and forwarders follow the    *)
(* configuration.                                                          *)
(***************************************************************************)
LEMMA DeadlineStep ==
    ASSUME TypeOK, TypeOK', Control, Control', HeldRequestsHaveDeadline, [Next]_vars
    PROVE  HeldRequestsHaveDeadline'
<1>. USE PathAssumption DEF HeldRequestsHaveDeadline, HasOnDemandStaticSource
<1>1. ASSUME conf'.source = conf.source, conf'.sourceOnDemand = conf.sourceOnDemand,
             phase' # "done" => phase # "done", Held' \subseteq Held, ssState' = ssState
      PROVE  HeldRequestsHaveDeadline'
  BY <1>1 DEF Control, TimersMatchState
<1>2. ASSUME Held' = {} PROVE HeldRequestsHaveDeadline'
  BY <1>2
<1>3. ASSUME UNCHANGED <<conf, holdVars, ssState>>, phase' # "done" => phase # "done"
      PROVE  HeldRequestsHaveDeadline'
  BY <1>1, <1>3 DEF Held, holdVars
<1>4. CASE UNCHANGED vars
  BY <1>3, <1>4 DEF vars, demandVars
<1>5. ASSUME NEW c \in Clients, Route(c) \/ Abandon(c) PROVE HeldRequestsHaveDeadline'
  BY <1>3, <1>5 DEF Route, Abandon, demandVars
<1>6. CASE ClosePathIfIdle \/ Close
  BY <1>3, <1>6 DEF ClosePathIfIdle, Close, demandVars
<1>7. CASE Terminate \/ doOnDemandStaticSourceReadyTimer \/ doOnDemandPublisherReadyTimer
  BY <1>2, <1>7, NoneHeld DEF Terminate, doOnDemandStaticSourceReadyTimer,
    doOnDemandPublisherReadyTimer, FailHeldRequests
<1>8. CASE doOnDemandStaticSourceCloseTimer
  <2>1. Held = {} /\ Held' = Held
    BY <1>8 DEF doOnDemandStaticSourceCloseTimer, AtSelect, Control, TimersMatchState,
      HandlerMatchesState, Held, holdVars
  <2>. QED
    BY <1>2, <2>1
<1>9. CASE doOnDemandPublisherCloseTimer
  BY <1>3, <1>9 DEF doOnDemandPublisherCloseTimer, onDemandPublisherStop
<1>10. ASSUME NEW new \in Confs, doReloadConf(new) PROVE HeldRequestsHaveDeadline'
  BY <1>1, <1>10, ReloadFacts DEF doReloadConf, Held, holdVars, demandVars, TypeOK
<1>11. CASE doSourceStaticSetReady
  <2>1. CASE UNCHANGED <<demandVars, holdVars>>
    BY <1>3, <1>11, <2>1 DEF doSourceStaticSetReady, demandVars
  <2>2. CASE heldDescribes' = {} /\ heldReaders' = <<>>
    BY <1>2, <2>2, NoneHeld
  <2>. QED
    BY <1>11, <2>1, <2>2 DEF doSourceStaticSetReady, consumeOnHoldRequests
<1>12. CASE doSourceStaticSetNotReady
  <2>1. CASE HasOnDemandStaticSource(conf)
    <3>1. Held = {} /\ Held' = Held
      BY <1>12, <2>1 DEF doSourceStaticSetNotReady, AtSelect, Control, TimersMatchState,
        HandlerMatchesState, Held, holdVars
    <3>. QED
      BY <1>2, <3>1
  <2>2. CASE ~HasOnDemandStaticSource(conf)
    BY <1>12, <2>2 DEF doSourceStaticSetNotReady
  <2>. QED
    BY <2>1, <2>2
<1>13. ASSUME NEW c, doDescribe(c) \/ doAddReader(c) PROVE HeldRequestsHaveDeadline'
  <2>1. CASE UNCHANGED <<conf, holdVars, ssState>>
    BY <1>3, <1>13, <2>1 DEF doDescribe, doAddReader, Take, AtSelect
  <2>2. CASE stream = "nil" /\ HasOnDemand /\ StartOnDemand
    <3>1. CASE HasOnDemandStaticSource(conf)
      BY <1>13, <2>2, <3>1 DEF StartOnDemand, onDemandStaticSourceStart, demandVars, Control,
        HandlerMatchesState, StreamMatchesSource, TimersMatchState, doDescribe, doAddReader,
        Take, AtSelect, TypeOK, OnDemandState
    <3>2. CASE ~HasOnDemandStaticSource(conf)
      BY <1>13, <3>2 DEF doDescribe, doAddReader
    <3>. QED
      BY <3>1, <3>2
  <2>3. CASE stream # "nil" /\ UNCHANGED <<heldReaders, heldDescribes, conf>>
    <3>1. Held' = Held
      BY <2>3 DEF Held
    <3>. QED
      BY <1>13, <2>3, <3>1, ConfFacts DEF doAddReader, doDescribe, ReaderAdded, Take, AtSelect,
        Control, TimersMatchState, HandlerMatchesState, StreamMatchesSource, demandVars,
        HasOnDemandPublisher, TypeOK
  <2>. QED
    BY <1>13, <2>1, <2>2, <2>3 DEF doDescribe, doAddReader, holdVars, demandVars
<1>14. ASSUME NEW r \in Readers, doRemoveReader(r) PROVE HeldRequestsHaveDeadline'
  <2>1. Held' = Held /\ conf' = conf /\ phase' = phase
    BY <1>14 DEF doRemoveReader, Held, holdVars
  <2>. QED
    BY <1>14, <2>1 DEF doRemoveReader, LastReaderGone, demandVars
<1>15. ASSUME NEW p \in Publishers, AddPublisherRefused(p) \/ doRemovePublisher(p)
       PROVE  HeldRequestsHaveDeadline'
  BY <1>3, <1>15 DEF AddPublisherRefused, doRemovePublisher, Take, AtSelect, demandVars
<1>16. ASSUME NEW p \in Publishers, doAddPublisher(p) PROVE HeldRequestsHaveDeadline'
  BY <1>16, ConfFacts DEF doAddPublisher, TypeOK
<1>. QED
  BY <1>4, <1>5, <1>6, <1>7, <1>8, <1>9, <1>10, <1>11, <1>12, <1>13, <1>14, <1>15, <1>16
  DEF Next

(* Every step, hot reloads included, leaves recorder and forwarders as the *)
(* configuration says.                                                     *)
LEMMA EgressStep ==
    ASSUME TypeOK, TypeOK', Control, EgressFollowsConf, [Next]_vars
    PROVE  EgressFollowsConf'
<1>. USE PathAssumption DEF EgressFollowsConf
<1>0. /\ conf.egress \in [Egress -> Settings \cup {Off}]
      /\ egress \in [Egress -> Settings \cup {Off}]
      /\ EgressEnabled \subseteq Egress
  BY ConfFacts DEF ConfType, TypeOK
<1>1. ASSUME UNCHANGED <<conf, egress>>, phase' # "done" => phase # "done",
             (stream = "nil") <=> (stream' = "nil")
      PROVE  EgressFollowsConf'
  BY <1>1 DEF AllOff
<1>2. ASSUME setNotAvailable PROVE EgressFollowsConf'
  BY <1>2 DEF setNotAvailable, AllOff
<1>3. ASSUME NEW old \in [Egress -> Settings \cup {Off}], NEW hook, setAvailable(hook, old),
             conf' = conf, stream' # "nil",
             \A e \in EgressEnabled : conf.egress[e] = Off => old[e] = Off
      PROVE  EgressFollowsConf'
  BY <1>0, <1>3 DEF setAvailable, OpenEgress, Started
<1>4. CASE UNCHANGED vars
  BY <1>1, <1>4 DEF vars, pathVars
<1>5. ASSUME NEW c \in Clients, Route(c) \/ Abandon(c) PROVE EgressFollowsConf'
  BY <1>1, <1>5 DEF Route, Abandon, pathVars
<1>6. CASE ClosePathIfIdle \/ Close
  BY <1>1, <1>6 DEF ClosePathIfIdle, Close, pathVars
<1>7. CASE Terminate
  BY <1>7 DEF Terminate
<1>8. CASE doOnDemandStaticSourceReadyTimer \/ doOnDemandPublisherReadyTimer
           \/ doOnDemandPublisherCloseTimer
  BY <1>1, <1>8 DEF doOnDemandStaticSourceReadyTimer, doOnDemandPublisherReadyTimer,
    doOnDemandPublisherCloseTimer, AtSelect, pathVars
<1>9. CASE doOnDemandStaticSourceCloseTimer
  BY <1>2, <1>9 DEF doOnDemandStaticSourceCloseTimer
<1>10. ASSUME NEW new \in Confs, doReloadConf(new) PROVE EgressFollowsConf'
  <2>1. new.egress \in [Egress -> Settings \cup {Off}]
    BY ConfFacts DEF ConfType
  <2>2. phase # "done" /\ phase' = phase /\ conf' = new /\ stream' = stream
        /\ egress' = ReloadEgress(new)
    BY <1>10 DEF doReloadConf, AtSelect
  <2>3. CASE stream = "nil"
    BY <2>1, <2>2, <2>3 DEF ReloadEgress, AllOff
  <2>4. CASE stream # "nil"
    <3>1. ASSUME NEW e \in EgressEnabled PROVE egress'[e] = new.egress[e]
      BY <1>0, <2>1, <2>2, <2>4, <3>1 DEF ReloadEgress, Started
    <3>. QED
      BY <2>2, <2>4, <3>1
  <2>. QED
    BY <2>3, <2>4
<1>11. CASE doSourceStaticSetReady
  <2>1. phase # "done" /\ conf' = conf /\ stream' # "nil"
    BY <1>11 DEF doSourceStaticSetReady, AtSelect, Control, StreamMatchesSource
  <2>2. CASE conf.alwaysAvailable
    BY <1>1, <1>11, <2>1, <2>2 DEF doSourceStaticSetReady, Control, StreamMatchesSource
  <2>3. CASE ~conf.alwaysAvailable
    <3>1. \A e \in EgressEnabled : conf.egress[e] = Off => egress[e] = Off
      BY <1>0, <2>1 DEF AllOff
    <3>. QED
      BY <1>0, <1>3, <1>11, <2>1, <2>3, <3>1 DEF doSourceStaticSetReady
  <2>. QED
    BY <2>2, <2>3
<1>12. CASE doSourceStaticSetNotReady
  BY <1>1, <1>2, <1>12 DEF doSourceStaticSetNotReady, AtSelect, Control, StreamMatchesSource
<1>13. ASSUME NEW c, doDescribe(c) \/ doAddReader(c) \/ doRemoveReader(c)
              \/ AddPublisherRefused(c)
       PROVE  EgressFollowsConf'
  BY <1>1, <1>13 DEF doDescribe, doAddReader, doRemoveReader, AddPublisherRefused, Take,
    AtSelect, pathVars
<1>14. ASSUME NEW p \in Publishers, doAddPublisher(p) PROVE EgressFollowsConf'
  <2>1. phase # "done" /\ conf' = conf /\ stream' # "nil"
    BY <1>14 DEF doAddPublisher, Take, AtSelect
  <2>2. CASE conf.alwaysAvailable
    BY <1>1, <1>14, <2>1, <2>2 DEF doAddPublisher, Control, StreamMatchesSource
  <2>3. CASE ~conf.alwaysAvailable
    <3>. DEFINE old == IF source # None THEN AllOff ELSE egress
    <3>1. old \in [Egress -> Settings \cup {Off}]
          /\ \A e \in EgressEnabled : conf.egress[e] = Off => old[e] = Off
      BY <1>0, <2>1 DEF AllOff
    <3>2. PICK hook : setAvailable(hook, old)
      BY <1>14, <2>3 DEF doAddPublisher
    <3>. QED
      BY <1>3, <2>1, <3>1, <3>2
  <2>. QED
    BY <2>2, <2>3
<1>15. ASSUME NEW p \in Publishers, doRemovePublisher(p) PROVE EgressFollowsConf'
  BY <1>1, <1>2, <1>15 DEF doRemovePublisher, executeRemovePublisher, AtSelect, Control,
    StreamMatchesSource, pathVars
<1>. QED
  BY <1>4, <1>5, <1>6, <1>7, <1>8, <1>9, <1>10, <1>11, <1>12, <1>13, <1>14, <1>15 DEF Next

-----------------------------------------------------------------------------
(***************************************************************************)
(* The members of the path agree with what the sessions were told.         *)
(***************************************************************************)
Members == readers \cup ({source} \cap Publishers)

InAreMembers == phase # "done" => \A s \in Sessions : session[s] = "in" => s \in Members
MembersHaveNotLeft == Open => \A s \in Members : session[s] # "out"
HeldOnce == \A i, j \in DOMAIN heldReaders : heldReaders[i] = heldReaders[j] => i = j
HeldDoNotRead == Held \cap readers = {} /\ (stream = "nil" => readers = {})

Membership == InAreMembers /\ MembersHaveNotLeft /\ HeldOnce /\ HeldDoNotRead

(* An action on no session and on no member.                               *)
LEMMA MembershipSame ==
    ASSUME Membership, UNCHANGED <<source, readers, session>>, Held' \subseteq Held,
           heldReaders' = heldReaders \/ heldReaders' = <<>>, phase' # "done" => phase # "done", Open' => Open,
           stream' = "nil" => stream = "nil"
    PROVE  Membership'
BY DEF Membership, InAreMembers, MembersHaveNotLeft, HeldOnce, HeldDoNotRead, Members

(* An action that removes members, closing or releasing each of them.      *)
LEMMA MembershipLess ==
    ASSUME TypeOK, Membership, NEW gone \in SUBSET Sessions, Members' = Members \ gone,
           readers' \subseteq readers, Held' \subseteq Held, heldReaders' = heldReaders,
           \A s \in Sessions : IF s \in gone THEN session'[s] # "in" ELSE session'[s] = session[s],
           phase # "done", Open' => Open,
           stream' = "nil" => stream = "nil" \/ readers' = {}
    PROVE  Membership'
<1>1. Members \subseteq Sessions
  BY DEF Members, Sessions, TypeOK
<1>. QED
  BY <1>1 DEF Membership, InAreMembers, MembersHaveNotLeft, HeldOnce, HeldDoNotRead, Sessions

(* An action that empties the on-hold lists and admits from them.          *)
LEMMA MembershipAdmits ==
    ASSUME TypeOK, Membership, NEW gone \in SUBSET Sessions, NEW new \in SUBSET Sessions,
           Members' = (Members \ gone) \cup new, gone \cap new = {},
           Admit(new, gone), heldDescribes' = {}, heldReaders' = <<>>,
           stream' # "nil", phase # "done", Open' => Open
    PROVE  Membership'
<1>1. Members \subseteq Sessions
  BY DEF Members, Sessions, TypeOK
<1>2. Held' = {}
  BY NoneHeld
<1>3. \A s \in Sessions : session'[s] =
          IF s \in gone /\ session[s] # "out" THEN "kicked"
          ELSE IF s \in new /\ session[s] = "out" THEN "in" ELSE session[s]
  BY DEF Admit
<1>4. InAreMembers'
  BY <1>3 DEF InAreMembers, Membership
<1>5. MembersHaveNotLeft'
  BY <1>1, <1>3 DEF MembersHaveNotLeft, Membership
<1>. QED
  BY <1>2, <1>4, <1>5 DEF Membership, HeldOnce, HeldDoNotRead

(* A publisher on its way to the path is not its source: the path manager  *)
(* counts a publisher once per session.                                    *)
RoutedPublishersAreNew ==
    \A p \in Publishers : call[p] = "routed" => session[p] = "out" /\ source # p

(* A publisher on its way to the path is not its source yet.               *)
LEMMA RoutedPublishersStep ==
    ASSUME TypeOK, Membership, RoutedPublishersAreNew, [Next]_vars
    PROVE  RoutedPublishersAreNew'
<1>. USE PathAssumption DEF RoutedPublishersAreNew, Clients, Sessions
<1>1. ASSUME UNCHANGED <<source, session>>,
             \A p \in Publishers : call'[p] = "routed" => call[p] = "routed"
      PROVE  RoutedPublishersAreNew'
  BY <1>1
<1>2. ASSUME NEW cs, NEW gone, Admit(cs, gone), cs \cap Publishers \subseteq {source'},
             source' \in {source, None} \/ call'[source'] = "none",
             \A p \in Publishers : call'[p] = "routed" => call[p] = "routed"
      PROVE  RoutedPublishersAreNew'
  BY <1>2 DEF Admit
<1>3. ASSUME NEW cs, Answer(cs) PROVE \A c \in Clients : call'[c] = "routed" => call[c] = "routed"
  BY <1>3 DEF Answer
<1>4. CASE UNCHANGED vars
  BY <1>4 DEF vars
<1>5. ASSUME NEW c \in Clients, Route(c) PROVE RoutedPublishersAreNew'
  BY <1>5 DEF Route, Membership, MembersHaveNotLeft, Members, Open, TypeOK
<1>6. ASSUME NEW c \in Clients, Abandon(c) PROVE RoutedPublishersAreNew'
  BY <1>3, <1>6 DEF Abandon, TypeOK
<1>7. CASE ClosePathIfIdle \/ Close
  BY <1>1, <1>7 DEF ClosePathIfIdle, Close
<1>8. CASE Terminate
  BY <1>2, <1>3, <1>8 DEF Terminate, FailHeldRequests
<1>9. CASE doOnDemandStaticSourceReadyTimer \/ doOnDemandPublisherReadyTimer
  BY <1>1, <1>3, <1>9 DEF doOnDemandStaticSourceReadyTimer, doOnDemandPublisherReadyTimer,
    FailHeldRequests
<1>10. CASE doOnDemandPublisherCloseTimer
  BY <1>1, <1>10 DEF doOnDemandPublisherCloseTimer
<1>11. CASE doOnDemandStaticSourceCloseTimer
  BY <1>2, <1>11 DEF doOnDemandStaticSourceCloseTimer
<1>12. ASSUME NEW new \in Confs, doReloadConf(new) PROVE RoutedPublishersAreNew'
  BY <1>1, <1>12 DEF doReloadConf
<1>13. CASE doSourceStaticSetReady
  <2>1. Admitted(readers) \cap Publishers = {}
    BY AdmittedFacts
  <2>. QED
    BY <1>1, <1>2, <1>3, <1>13, <2>1 DEF doSourceStaticSetReady
<1>14. CASE doSourceStaticSetNotReady
  BY <1>1, <1>2, <1>14 DEF doSourceStaticSetNotReady
<1>15. ASSUME NEW d \in Describers, doDescribe(d) PROVE RoutedPublishersAreNew'
  BY <1>1, <1>3, <1>15 DEF doDescribe, TypeOK
<1>16. ASSUME NEW r \in Readers, doAddReader(r) PROVE RoutedPublishersAreNew'
  <2>1. source' = source /\ \A p \in Publishers : call'[p] = "routed" => call[p] = "routed"
    BY <1>3, <1>16 DEF doAddReader, TypeOK
  <2>2. r \notin Publishers
    BY <1>16
  <2>. QED
    BY <1>1, <1>2, <1>16, <2>1, <2>2 DEF doAddReader
<1>17. ASSUME NEW r \in Readers, doRemoveReader(r) PROVE RoutedPublishersAreNew'
  BY <1>17 DEF doRemoveReader, TypeOK
<1>18. ASSUME NEW p \in Publishers, AddPublisherRefused(p) PROVE RoutedPublishersAreNew'
  BY <1>1, <1>3, <1>18 DEF AddPublisherRefused
<1>19. ASSUME NEW p \in Publishers, doAddPublisher(p) PROVE RoutedPublishersAreNew'
  <2>1. \A rds : Admitted(rds) \cap Publishers = {}
    BY AdmittedFacts
  <2>2. call'[p] = "none" /\ \A q \in Publishers : call'[q] = "routed" => call[q] = "routed"
    BY <1>3, <1>19 DEF doAddPublisher, Answer
  <2>3. PICK cs, gone : Admit(cs, gone) /\ cs \cap Publishers \subseteq {source'}
                        /\ source' \in {p, None}
    BY <1>19, <2>1 DEF doAddPublisher
  <2>. QED
    BY <1>2, <2>2, <2>3
<1>20. ASSUME NEW p \in Publishers, doRemovePublisher(p) PROVE RoutedPublishersAreNew'
  <2>1. call' = call /\ source' \in {source, None}
    BY <1>20 DEF doRemovePublisher, executeRemovePublisher
  <2>2. \A q \in Publishers : session'[q] \in {session[q], "out"}
    BY <1>20 DEF doRemovePublisher, executeRemovePublisher, TypeOK
  <2>. QED
    BY <2>1, <2>2
<1>. QED
  BY <1>4, <1>5, <1>6, <1>7, <1>8, <1>9, <1>10, <1>11, <1>12, <1>13, <1>14, <1>15, <1>16,
     <1>17, <1>18, <1>19, <1>20 DEF Next

(* Every step keeps the path's readers and source in agreement with what   *)
(* the sessions were told.                                                 *)
LEMMA MembershipStep ==
    ASSUME TypeOK, TypeOK', Control, HeldCalls, Membership, RoutedPublishersAreNew, [Next]_vars
    PROVE  Membership'
<1>. USE PathAssumption
<1>. USE DEF Clients, Sessions
<1>1. CASE UNCHANGED vars
  <2>1. Held' = Held
    BY <1>1 DEF vars, holdVars, Held
  <2>. QED
    BY <1>1, <2>1, MembershipSame DEF vars, pathVars, holdVars, Open
<1>2. ASSUME NEW c \in Clients, Route(c) PROVE Membership'
  <2>1. Held' = Held
    BY <1>2 DEF Route, holdVars, Held
  <2>. QED
    BY <1>2, <2>1, MembershipSame DEF Route, pathVars, holdVars, Open
<1>3. ASSUME NEW c \in Clients, Abandon(c) PROVE Membership'
  <2>1. /\ Held' = Held /\ heldReaders' = heldReaders /\ ~Open' /\ phase' = phase
        /\ Members' = Members /\ readers' = readers /\ stream' = stream
    BY <1>3 DEF Abandon, holdVars, pathVars, Held, Open, Members
  <2>2. \A s \in Sessions : session'[s] \in {session[s], "out"}
    BY <1>3 DEF Abandon, TypeOK
  <2>. QED
    BY <2>1, <2>2 DEF Membership, InAreMembers, MembersHaveNotLeft, HeldOnce, HeldDoNotRead
<1>4. CASE ClosePathIfIdle \/ Close
  <2>1. Held' = Held
    BY <1>4 DEF ClosePathIfIdle, Close, holdVars, Held
  <2>. QED
    BY <1>4, <2>1, MembershipSame DEF ClosePathIfIdle, Close, pathVars, holdVars, Open
<1>5. CASE Terminate
  <2>1. Held' = {} /\ heldReaders' = <<>> /\ phase' = "done"
    BY <1>5, NoneHeld DEF Terminate, FailHeldRequests
  <2>2. stream' = "nil" => readers' = {}
    BY <1>5 DEF Terminate, setNotAvailable, pathVars, Membership, HeldDoNotRead
  <2>. QED
    BY <2>1, <2>2 DEF Membership, InAreMembers, MembersHaveNotLeft, HeldOnce, HeldDoNotRead, Open
<1>6. CASE doOnDemandStaticSourceReadyTimer \/ doOnDemandPublisherReadyTimer
  <2>1. Held' = {} /\ heldReaders' = <<>>
    BY <1>6, NoneHeld DEF doOnDemandStaticSourceReadyTimer, doOnDemandPublisherReadyTimer,
      FailHeldRequests
  <2>. QED
    BY <1>6, <2>1, MembershipSame DEF doOnDemandStaticSourceReadyTimer,
      doOnDemandPublisherReadyTimer, AtSelect, CloseIfIdle, pathVars, Open
<1>7. CASE doOnDemandPublisherCloseTimer
  <2>1. Held' = Held
    BY <1>7 DEF doOnDemandPublisherCloseTimer, holdVars, Held
  <2>. QED
    BY <1>7, <2>1, MembershipSame DEF doOnDemandPublisherCloseTimer, AtSelect, holdVars,
      pathVars, Open
<1>8. ASSUME setNotAvailable, Admit({}, readers), UNCHANGED <<source, holdVars>>,
             phase # "done", Open' => Open
      PROVE  Membership'
  <2>1. Held' = Held /\ heldReaders' = heldReaders
    BY <1>8 DEF holdVars, Held
  <2>2. Members' = Members \ readers /\ readers \in SUBSET Sessions
    BY <1>8 DEF setNotAvailable, Members, TypeOK
  <2>3. \A s \in Sessions : IF s \in readers THEN session'[s] # "in" ELSE session'[s] = session[s]
    BY <1>8 DEF Admit, TypeOK
  <2>. QED
    BY <1>8, <2>1, <2>2, <2>3, MembershipLess DEF setNotAvailable
<1>9. CASE doOnDemandStaticSourceCloseTimer
  BY <1>8, <1>9 DEF doOnDemandStaticSourceCloseTimer, AtSelect, CloseIfIdle, Open
<1>10. ASSUME NEW new \in Confs, doReloadConf(new) PROVE Membership'
  <2>1. Held' = Held
    BY <1>10 DEF doReloadConf, holdVars, Held
  <2>. QED
    BY <1>10, <2>1, MembershipSame DEF doReloadConf, AtSelect, holdVars, Open
<1>11. CASE doSourceStaticSetReady
  <2>1. phase # "done" /\ phase' = phase /\ source' = source
    BY <1>11 DEF doSourceStaticSetReady, AtSelect
  <2>2. CASE UNCHANGED <<holdVars, readers, session>> /\ (stream' = "nil" => stream = "nil")
    <3>1. Held' = Held
      BY <2>2 DEF holdVars, Held
    <3>. QED
      BY <2>1, <2>2, <3>1, MembershipSame DEF holdVars, Open
  <2>3. CASE stream' = "live" /\ consumeOnHoldRequests(readers) /\ Admit(Admitted(readers), {})
    <3>1. Admitted(readers) \in SUBSET Sessions
      BY AdmittedFacts
    <3>2. Members' = (Members \ {}) \cup Admitted(readers)
      BY <2>1, <2>3 DEF Members, consumeOnHoldRequests
    <3>. QED
      BY <2>1, <2>3, <3>1, <3>2, MembershipAdmits DEF consumeOnHoldRequests, Open
  <2>. QED
    BY <1>11, <2>2, <2>3 DEF doSourceStaticSetReady
<1>12. CASE doSourceStaticSetNotReady
  <2>1. phase # "done" /\ (Open' => Open) /\ UNCHANGED <<source, holdVars>>
    BY <1>12 DEF doSourceStaticSetNotReady, AtSelect, CloseIfIdle, Open
  <2>2. CASE setNotAvailable /\ Admit({}, readers)
    BY <1>8, <2>1, <2>2
  <2>3. CASE stream' = "offline" /\ UNCHANGED <<readers, session>>
    <3>1. Held' = Held
      BY <2>1 DEF holdVars, Held
    <3>. QED
      BY <2>1, <2>3, <3>1, MembershipSame DEF holdVars
  <2>. QED
    BY <1>12, <2>2, <2>3 DEF doSourceStaticSetNotReady
<1>13. ASSUME NEW d \in Describers, doDescribe(d) PROVE Membership'
  <2>1. /\ phase # "done" /\ (Open' => Open) /\ UNCHANGED <<source, pathVars, heldReaders, session>>
        /\ heldDescribes' = heldDescribes \/ heldDescribes' = heldDescribes \cup {d}
    BY <1>13 DEF doDescribe, Take, AtSelect, CloseIfIdle, Open
  <2>2. Held' \subseteq Held \cup {d} /\ d \notin readers
    BY <1>13, <2>1 DEF Held, TypeOK
  <2>. QED
    BY <2>1, <2>2 DEF Membership, InAreMembers, MembersHaveNotLeft, HeldOnce, HeldDoNotRead,
      Members, pathVars
<1>14. ASSUME NEW r \in Readers, doAddReader(r) PROVE Membership'
  <2>1. /\ phase # "done" /\ (Open' => Open) /\ UNCHANGED <<source, stream, heldDescribes>>
        /\ call[r] = "routed"
    BY <1>14 DEF doAddReader, Take, AtSelect, CloseIfIdle, Open
  <2>2. r \notin Held
    BY <2>1 DEF HeldCalls
  <2>3. CASE UNCHANGED <<readers, heldReaders, session>>
    <3>1. Held' = Held
      BY <2>1, <2>3 DEF Held
    <3>. QED
      BY <2>1, <2>3, <3>1, MembershipSame
  <2>4. CASE readers' = readers \cup {r} /\ Admit({r}, {}) /\ stream # "nil"
             /\ UNCHANGED heldReaders
    <3>1. Held' = Held /\ Members' = Members \cup {r}
      BY <2>1, <2>4 DEF Held, Members
    <3>2. \A s \in Sessions : session'[s] = IF s = r /\ session[s] = "out" THEN "in" ELSE session[s]
      BY <2>4 DEF Admit
    <3>3. Members \subseteq Sessions
      BY DEF Members, TypeOK
    <3>. QED
      BY <2>1, <2>2, <2>4, <3>1, <3>2, <3>3 DEF Membership, InAreMembers, MembersHaveNotLeft,
        HeldOnce, HeldDoNotRead
  <2>5. CASE stream = "nil" /\ heldReaders' = Append(heldReaders, r)
             /\ UNCHANGED <<readers, session>>
    <3>1. Held' = Held \cup {r}
      BY <2>1, <2>5, AppendHeld
    <3>2. r \notin {heldReaders[i] : i \in DOMAIN heldReaders}
      BY <2>2 DEF Held
    <3>3. HeldOnce'
      BY <2>5, <3>2 DEF Membership, HeldOnce, TypeOK
    <3>. QED
      BY <2>1, <2>5, <3>1, <3>3 DEF Membership, InAreMembers, MembersHaveNotLeft,
        HeldDoNotRead, Members
  <2>. QED
    BY <1>14, <2>3, <2>4, <2>5 DEF doAddReader
<1>15. ASSUME NEW r \in Readers, doRemoveReader(r) PROVE Membership'
  <2>1. /\ phase # "done" /\ phase' = phase /\ Members' = Members \ {r}
        /\ readers' \subseteq readers /\ Held' = Held /\ heldReaders' = heldReaders
        /\ stream' = stream /\ r \in Sessions
    BY <1>15 DEF doRemoveReader, AtSelect, Members, Held, holdVars
  <2>2. \A s \in Sessions : IF s \in {r} THEN session'[s] # "in" ELSE session'[s] = session[s]
    BY <1>15 DEF doRemoveReader, TypeOK
  <2>. QED
    BY <2>1, <2>2, MembershipLess DEF Open
<1>16. ASSUME NEW p \in Publishers, AddPublisherRefused(p) PROVE Membership'
  <2>1. Held' = Held
    BY <1>16 DEF AddPublisherRefused, holdVars, Held
  <2>. QED
    BY <1>16, <2>1, MembershipSame DEF AddPublisherRefused, Take, AtSelect, CloseIfIdle,
      holdVars, pathVars, Open
<1>17. ASSUME NEW p \in Publishers, doAddPublisher(p) PROVE Membership'
  <2>. DEFINE rds == IF source # None /\ ~conf.alwaysAvailable THEN {} ELSE readers
              kicked == (IF source # None THEN {source} ELSE {}) \cup (readers \ rds)
  <2>1. /\ phase # "done" /\ (Open' => Open)
        /\ conf.source = "publisher" /\ call[p] = "routed"
    BY <1>17 DEF doAddPublisher, Take, AtSelect, CloseIfIdle, Open
  <2>2. source \in {None} \cup Publishers /\ source # p
    BY <1>17, <2>1 DEF RoutedPublishersAreNew, TypeOK, Control, StreamMatchesSource
  <2>3. kicked \in SUBSET Sessions /\ rds \subseteq readers /\ Members \ kicked = rds
    BY <2>2 DEF Members, TypeOK
  <2>4. CASE readers' = rds /\ source' = None /\ Admit({}, kicked) /\ UNCHANGED holdVars
             /\ stream' # "nil"
    <3>1. Held' = Held /\ heldReaders' = heldReaders
      BY <2>4 DEF Held, holdVars
    <3>2. Members' = Members \ kicked
      BY <2>3, <2>4 DEF Members
    <3>3. \A s \in Sessions : IF s \in kicked THEN session'[s] # "in" ELSE session'[s] = session[s]
      BY <2>4 DEF Admit, TypeOK
    <3>. QED
      BY <2>1, <2>3, <2>4, <3>1, <3>2, <3>3, MembershipLess
  <2>5. CASE stream' = "live" /\ source' = p /\ consumeOnHoldRequests(rds)
             /\ Admit({p} \cup Admitted(rds), kicked)
    <3>1. Admitted(rds) \subseteq Held \cap Readers
      BY AdmittedFacts
    <3>2. Members' = (Members \ kicked) \cup ({p} \cup Admitted(rds))
      BY <2>3, <2>5 DEF Members, consumeOnHoldRequests
    <3>3. kicked \cap ({p} \cup Admitted(rds)) = {}
      BY <2>2, <2>3, <3>1 DEF Membership, HeldDoNotRead, TypeOK
    <3>. QED
      BY <2>1, <2>3, <2>5, <3>1, <3>2, <3>3, MembershipAdmits DEF consumeOnHoldRequests
  <2>. QED
    BY <1>17, <2>4, <2>5 DEF doAddPublisher
<1>18. ASSUME NEW p \in Publishers, doRemovePublisher(p) PROVE Membership'
  <2>1. phase # "done" /\ (Open' => Open) /\ UNCHANGED holdVars
    BY <1>18 DEF doRemovePublisher, AtSelect, CloseIfIdle, Open
  <2>2. Held' = Held /\ heldReaders' = heldReaders
    BY <2>1 DEF Held, holdVars
  <2>3. PICK gone \in SUBSET Sessions :
          /\ Members' = Members \ gone
          /\ \A s \in Sessions : IF s \in gone THEN session'[s] # "in"
                                               ELSE session'[s] = session[s]
    <3>1. CASE source # p
      <4>1. \A s \in Sessions : IF s \in {p} THEN session'[s] # "in" ELSE session'[s] = session[s]
        BY <1>18, <3>1 DEF doRemovePublisher, TypeOK
      <4>2. Members' = Members \ {p}
        BY <1>18, <3>1 DEF doRemovePublisher, Members, pathVars, TypeOK
      <4>. {p} \in SUBSET Sessions
        OBVIOUS
      <4>. QED
        BY <4>1, <4>2
    <3>2. CASE source = p /\ conf.alwaysAvailable
      <4>1. \A s \in Sessions : IF s \in {p} THEN session'[s] # "in" ELSE session'[s] = session[s]
        BY <1>18, <3>2 DEF doRemovePublisher, executeRemovePublisher, TypeOK
      <4>2. source' = None /\ readers' = readers
        BY <1>18, <3>2 DEF doRemovePublisher, executeRemovePublisher
      <4>3. Members' = Members \ {p}
        BY <1>18, <3>2, <4>2, PathAssumption DEF Members, TypeOK
      <4>. {p} \in SUBSET Sessions
        OBVIOUS
      <4>. QED
        BY <4>1, <4>3
    <3>3. CASE source = p /\ ~conf.alwaysAvailable
      <4>1. \A s \in Sessions : IF s \in {p} \cup readers THEN session'[s] # "in"
                                ELSE session'[s] = session[s]
        BY <1>18, <3>3 DEF doRemovePublisher, executeRemovePublisher, TypeOK
      <4>2. source' = None /\ readers' = {}
        BY <1>18, <3>3 DEF doRemovePublisher, executeRemovePublisher, setNotAvailable
      <4>3. {p} \cup readers \in SUBSET Sessions
        BY DEF TypeOK, Sessions
      <4>4. Members' = Members \ ({p} \cup readers)
        BY <1>18, <3>3, <4>2, PathAssumption DEF Members
      <4>. QED
        BY <4>1, <4>3, <4>4
    <3>. QED
      BY <3>1, <3>2, <3>3
  <2>4. readers' \subseteq readers /\ (stream' = "nil" => stream = "nil" \/ readers' = {})
    BY <1>18 DEF doRemovePublisher, executeRemovePublisher, setNotAvailable, pathVars
  <2>. QED
    BY <2>1, <2>2, <2>3, <2>4, MembershipLess
<1>. QED
  BY <1>1, <1>2, <1>3, <1>4, <1>5, <1>6, <1>7, <1>9, <1>10, <1>11, <1>12, <1>13, <1>14,
     <1>15, <1>16, <1>17, <1>18 DEF Next

-----------------------------------------------------------------------------
(***************************************************************************)
(* Nobody is stranded: readers are on a stream and within the limit, a     *)
(* close timer runs only without them, and the end leaves nothing behind.  *)
(***************************************************************************)
(* onNotReadyHook is installed exactly while there is a stream, so that a  *)
(* stream that replaces another one leaks it.                              *)
HookOnStream == phase # "done" => (readyHook <=> stream # "nil")

Attended == ReadersKeepSource /\ HookOnStream /\ CleanShutdown

(* addReaderPost, applied to the requests on hold, stays within the limit. *)
LEMMA AdmittedFit ==
    ASSUME TypeOK, NEW rds \in SUBSET Readers, IsFiniteSet(Readers), conf.maxReaders \in Nat \ {0},
           Cardinality(rds) <= conf.maxReaders
    PROVE  Cardinality(rds \cup Admitted(rds)) <= conf.maxReaders
<1>. DEFINE J == {j \in DOMAIN heldReaders : Cardinality(rds) + j <= conf.maxReaders}
            k == conf.maxReaders - Cardinality(rds)
            T == {heldReaders[i] : i \in J}
<1>1. IsFiniteSet(rds) /\ Cardinality(rds) \in Nat
  BY FS_Subset, FS_CardinalityType
<1>2. k \in Nat
  BY <1>1
<1>3. IsFiniteSet(1..k) /\ Cardinality(1..k) = k
  <2>1. \A n \in Nat : IsFiniteSet(1..n) /\ Cardinality(1..n) = IF 1 > n THEN 0 ELSE n - 1 + 1
    BY FS_Interval
  <2>. HIDE DEF k
  <2>. QED
    BY <1>2, <2>1
<1>4. J \in SUBSET (1..k)
  BY <1>1, <1>2 DEF TypeOK
<1>5. IsFiniteSet(J) /\ Cardinality(J) <= k
  BY <1>3, <1>4, FS_Subset
<1>6. Admitted(rds) = T
  BY DEF Admitted
<1>7. IsFiniteSet(T) /\ Cardinality(T) <= Cardinality(J)
  <2>1. [j \in J |-> heldReaders[j]] \in Surjection(J, T)
    BY DEF Surjection
  <2>. QED
    BY <1>5, <2>1, FS_Surjection
<1>8. Cardinality(T) \in Nat /\ Cardinality(J) \in Nat /\ Cardinality(rds \cap T) \in Nat
  <2>1. IsFiniteSet(rds \cap T)
    BY <1>1, FS_Subset
  <2>. QED
    BY <1>5, <1>7, <2>1, FS_CardinalityType
<1>9. Cardinality(rds \cup T) = Cardinality(rds) + Cardinality(T) - Cardinality(rds \cap T)
  BY <1>1, <1>7, FS_Union
<1>. HIDE DEF T, J
<1>. QED
  BY <1>1, <1>5, <1>6, <1>7, <1>8, <1>9

(* The limit, for the two ways in which readers come.                      *)
Within(rds) == conf.maxReaders # 0 => Cardinality(rds) <= conf.maxReaders

LEMMA LimitFacts ==
    ASSUME TypeOK, Within(readers)
    PROVE  /\ \A rds : rds \subseteq readers => Within(rds) /\ Within(rds \cup Admitted(rds))
           /\ \A r \in Readers : HasRoom => Within(readers \cup {r})
<1>1. IsFiniteSet(Readers) /\ IsFiniteSet(readers)
  BY PathAssumption, FS_Subset DEF Clients, TypeOK
<1>2. conf.maxReaders \in Nat /\ Cardinality(readers) \in Nat
  BY <1>1, ConfFacts, FS_CardinalityType DEF ConfType, TypeOK
<1>3. ASSUME NEW rds, rds \subseteq readers PROVE Within(rds) /\ Within(rds \cup Admitted(rds))
  <2>1. Cardinality(rds) <= Cardinality(readers) /\ Cardinality(rds) \in Nat
    BY <1>1, <1>3, FS_Subset, FS_CardinalityType
  <2>2. Within(rds)
    BY <1>2, <2>1 DEF Within
  <2>3. rds \in SUBSET Readers
    BY <1>3 DEF TypeOK
  <2>. QED
    BY <1>1, <1>2, <2>2, <2>3, AdmittedFit DEF Within
<1>4. ASSUME NEW r \in Readers, HasRoom PROVE Within(readers \cup {r})
  <2>1. Cardinality(readers \cup {r}) \in {Cardinality(readers), Cardinality(readers) + 1}
    BY <1>1, FS_AddElement
  <2>. QED
    BY <1>2, <1>4, <2>1 DEF HasRoom, Within
<1>. QED
  BY <1>3, <1>4

(* A close timer is armed only when the last reader has gone, or when a    *)
(* source comes up for nobody; a reader that comes disarms it.             *)
LEMMA AttendedStep ==
    ASSUME TypeOK, TypeOK', Control, Attended, EgressFollowsConf, InAreMembers, [Next]_vars
    PROVE  Attended'
<1>. DEFINE closers == timers \cap {"ssClose", "pubClose"}
<1>0. /\ Within(readers) /\ (stream = "nil" => readers = {}) /\ (leaked = {} /\ closers # {} => readers = {})
      /\ HookOnStream /\ CleanShutdown
  BY DEF Attended, ReadersKeepSource, Within
(* The three ways in which a step keeps it.                                *)
<1>1. ASSUME phase # "done", phase' # "done", conf'.maxReaders = conf.maxReaders,
             readers' \subseteq readers, stream' = stream \/ readers' = {} \/ stream' # "nil",
             (readyHook' <=> stream' # "nil"), leaked \subseteq leaked',
             closers' \subseteq closers \/ readers' = {}
      PROVE  Attended'
  <2>1. Within(readers')
    BY <1>0, <1>1, LimitFacts
  <2>2. Within(readers)'
    BY <1>1, <2>1 DEF Within
  <2>. QED
    BY <1>0, <1>1, <2>2 DEF Attended, ReadersKeepSource, Within, HookOnStream, CleanShutdown
<1>2. CASE phase = "done"
  <2>1. UNCHANGED <<phase, conf, stream, readers, readyHook, leaked, timers, heldDescribes, heldReaders,
                    demandHook, egress, handler>>
        /\ \A s \in Sessions : session'[s] = "in" => session[s] = "in"
    <3>1. CASE UNCHANGED vars
      BY <3>1 DEF vars, pathVars, holdVars, demandVars
    <3>2. ASSUME NEW c \in Clients, Abandon(c)
          PROVE  UNCHANGED <<phase, conf, stream, readers, readyHook, leaked, timers, heldDescribes, heldReaders,
                             demandHook, egress, handler>>
                 /\ \A s \in Sessions : session'[s] = "in" => session[s] = "in"
      BY <3>2 DEF Abandon, pathVars, holdVars, demandVars, TypeOK
    <3>. QED
      BY <1>2, <3>1, <3>2 DEF Next, Route, ClosePathIfIdle, Close, Terminate, Take, AtSelect,
         doOnDemandStaticSourceReadyTimer, doOnDemandStaticSourceCloseTimer, doOnDemandPublisherReadyTimer,
         doOnDemandPublisherCloseTimer, doReloadConf, doSourceStaticSetReady, doSourceStaticSetNotReady,
         doDescribe, doAddReader, doRemoveReader, AddPublisherRefused, doAddPublisher, doRemovePublisher
  <2>2. Held' = Held /\ AllOff' = AllOff
    BY <2>1 DEF Held, AllOff
  <2>. QED
    BY <1>0, <1>2, <2>1, <2>2 DEF Attended, ReadersKeepSource, Within, HookOnStream, CleanShutdown
<1>3. CASE UNCHANGED vars
  BY <1>0, <1>1, <1>2, <1>3 DEF vars, pathVars, demandVars, HookOnStream
<1>4. ASSUME phase # "done", NEW c \in Clients, Route(c) \/ Abandon(c) PROVE Attended'
  BY <1>0, <1>1, <1>4 DEF Route, Abandon, pathVars, demandVars, HookOnStream
<1>5. CASE phase # "done" /\ (ClosePathIfIdle \/ Close)
  BY <1>0, <1>1, <1>5 DEF ClosePathIfIdle, Close, pathVars, demandVars, HookOnStream
<1>6. CASE Terminate
  <2>1. /\ phase = "closing" /\ phase' = "done" /\ timers' = {} /\ demandHook' = FALSE /\ conf' = conf
        /\ heldDescribes' = {} /\ heldReaders' = <<>>
    BY <1>6 DEF Terminate, FailHeldRequests
  <2>2. Held' = {}
    BY <2>1 DEF Held
  <2>3. stream' = "nil" /\ readers' = {} /\ egress' = AllOff /\ ~readyHook'
    BY <1>0, <1>6, <2>1 DEF Terminate, setNotAvailable, pathVars, EgressFollowsConf, HookOnStream
  <2>4. handler' = "stopped"
    BY <1>6, <2>1, ConfFacts DEF Terminate, Control, HandlerMatchesState, HasOnDemandStaticSource, TypeOK, ConfType
  <2>5. ASSUME NEW s \in Sessions PROVE session'[s] # "in"
    <3>1. session' = [x \in Sessions |->
            IF x \in (IF stream # "nil" THEN readers ELSE {}) \cup ({source} \cap Publishers) /\ session[x] # "out"
            THEN "kicked" ELSE IF x \in {} /\ session[x] = "out" THEN "in" ELSE session[x]]
      BY <1>6 DEF Terminate, Admit
    <3>2. session[s] = "in" => s \in readers \cup ({source} \cap Publishers)
      BY <2>1 DEF InAreMembers, Members
    <3>. QED
      BY <1>0, <3>1, <3>2
  <2>6. AllOff' = AllOff
    BY DEF AllOff
  <2>7. Cardinality(readers') = 0 /\ conf.maxReaders \in Nat
    BY <2>3, FS_EmptySet, ConfFacts DEF TypeOK, ConfType
  <2>. QED
    BY <2>1, <2>2, <2>3, <2>4, <2>5, <2>6, <2>7
       DEF Attended, ReadersKeepSource, HookOnStream, CleanShutdown
<1>7. CASE doOnDemandStaticSourceReadyTimer \/ doOnDemandPublisherReadyTimer \/ doOnDemandPublisherCloseTimer
  BY <1>0, <1>1, <1>7 DEF doOnDemandStaticSourceReadyTimer, doOnDemandPublisherReadyTimer,
     doOnDemandPublisherCloseTimer, onDemandStaticSourceStop, onDemandPublisherStop, AtSelect, CloseIfIdle,
     pathVars, HookOnStream
<1>8. CASE doOnDemandStaticSourceCloseTimer
  BY <1>0, <1>1, <1>8 DEF doOnDemandStaticSourceCloseTimer, setNotAvailable, AtSelect, CloseIfIdle
<1>9. ASSUME NEW new \in Confs, doReloadConf(new) PROVE Attended'
  BY <1>0, <1>1, <1>9, ReloadFacts DEF doReloadConf, AtSelect, demandVars, HookOnStream, TypeOK
<1>10. ASSUME phase # "done", phase' # "done", conf' = conf, stream' # "nil", readyHook' = TRUE,
              NEW rds, rds \subseteq readers, readers' = rds \/ readers' = rds \cup Admitted(rds),
              leaked' = {} /\ closers' # {} => readers' = {}
       PROVE  Attended'
  <2>1. Within(rds) /\ Within(rds \cup Admitted(rds))
    BY <1>0, <1>10, LimitFacts
  <2>2. Within(readers)'
    BY <1>10, <2>1 DEF Within
  <2>. QED
    BY <1>10, <2>2 DEF Attended, ReadersKeepSource, Within, HookOnStream, CleanShutdown
<1>11. CASE doSourceStaticSetReady
  <2>1. phase # "done" /\ phase' = phase /\ conf' = conf /\ handler = "running"
    BY <1>11 DEF doSourceStaticSetReady, AtSelect
  <2>2. stream' # "nil" /\ readyHook' = TRUE /\ leaked \subseteq leaked'
    BY <1>0, <1>11, <2>1 DEF doSourceStaticSetReady, setAvailable, HookOnStream, Control, StreamMatchesSource, TypeOK
  <2>3. CASE readers' = readers /\ timers' = timers
    BY <1>0, <1>10, <2>1, <2>2, <2>3
  <2>4. CASE ~(readers' = readers /\ timers' = timers)
    <3>1. readers' = readers \cup Admitted(readers)
      BY <1>11, <2>4 DEF doSourceStaticSetReady, consumeOnHoldRequests, demandVars
    <3>2. conf.source = "static" /\ "pubClose" \notin timers /\ (~HasOnDemandStaticSource(conf) => "ssClose" \notin timers)
      BY <2>1, ConfFacts DEF Control, HandlerMatchesState, TimersMatchState, DemandHookMatchesState,
         HasOnDemandPublisher, TypeOK
    <3>3. CASE ~HasOnDemandStaticSource(conf)
      <4>1. timers' = timers
        BY <1>11, <3>3 DEF doSourceStaticSetReady, demandVars
      <4>. QED
        BY <1>10, <2>1, <2>2, <3>1, <3>2, <3>3, <4>1
    <3>4. CASE HasOnDemandStaticSource(conf) /\ Admitted(readers) # {}
      <4>1. timers' = timers \ {"ssReady", "ssClose"} \/ timers' = timers
        BY <1>11, <3>4 DEF doSourceStaticSetReady, StaticSourceReady, demandVars
      <4>2. "ssClose" \notin timers
        BY <2>1, <3>4 DEF Control, HandlerMatchesState, TimersMatchState
      <4>. QED
        BY <1>10, <2>1, <2>2, <3>1, <3>2, <4>1, <4>2
    <3>5. CASE HasOnDemandStaticSource(conf) /\ Admitted(readers) = {}
      <4>1. ~conf.alwaysAvailable
        BY <3>5, ConfFacts DEF HasOnDemandStaticSource, TypeOK
      <4>2. readers # {} => "runOnReady" \in leaked'
        BY <1>0, <1>11, <2>1, <4>1 DEF doSourceStaticSetReady, setAvailable, Overwritten, HookOnStream
      <4>. QED
        BY <1>10, <2>1, <2>2, <3>1, <3>5, <4>2
    <3>. QED
      BY <3>3, <3>4, <3>5
  <2>. QED
    BY <2>3, <2>4
<1>12. CASE doSourceStaticSetNotReady
  <2>1. phase # "done" /\ phase' # "done" /\ conf' = conf /\ leaked' = leaked
    BY <1>12 DEF doSourceStaticSetNotReady, AtSelect, CloseIfIdle, setNotAvailable
  <2>2. closers' \subseteq closers
    BY <1>12 DEF doSourceStaticSetNotReady, onDemandStaticSourceStop, demandVars
  <2>3. readers' \subseteq readers /\ (readers' = {} \/ stream' # "nil") /\ (readyHook' <=> stream' # "nil")
    BY <1>0, <1>12, <2>1 DEF doSourceStaticSetNotReady, setNotAvailable, HookOnStream, Control, StreamMatchesSource
  <2>. QED
    BY <1>1, <2>1, <2>2, <2>3
<1>13. ASSUME NEW d \in Describers, doDescribe(d) PROVE Attended'
  <2>1. phase # "done" /\ phase' # "done" /\ UNCHANGED <<conf, readers, stream, readyHook, leaked>>
    BY <1>13 DEF doDescribe, Take, AtSelect, CloseIfIdle, pathVars
  <2>2. closers' \subseteq closers
    BY <1>13 DEF doDescribe, StartOnDemand, onDemandStaticSourceStart, onDemandPublisherStart, demandVars
  <2>. QED
    BY <1>0, <1>1, <2>1, <2>2 DEF HookOnStream
<1>14. ASSUME NEW r \in Readers, doAddReader(r) PROVE Attended'
  <2>1. phase # "done" /\ phase' # "done" /\ UNCHANGED <<conf, stream, readyHook, leaked>>
    BY <1>14 DEF doAddReader, Take, AtSelect, CloseIfIdle
  <2>2. CASE readers' = readers
    <3>1. closers' \subseteq closers
      BY <1>14, <2>2 DEF doAddReader, StartOnDemand, onDemandStaticSourceStart, onDemandPublisherStart, ReaderAdded,
         demandVars
    <3>. QED
      BY <1>0, <1>1, <2>1, <2>2, <3>1 DEF HookOnStream
  <2>3. CASE readers' # readers
    <3>1. HasRoom /\ readers' = readers \cup {r} /\ stream # "nil" /\ ReaderAdded
      BY <1>14, <2>3 DEF doAddReader
    <3>2. closers' = {}
      BY <2>1, <3>1, ConfFacts DEF ReaderAdded, Control, TimersMatchState, HandlerMatchesState, DemandHookMatchesState,
         HasOnDemandStaticSource, HasOnDemandPublisher, demandVars, TypeOK
    <3>3. Within(readers \cup {r})
      BY <1>0, <3>1, LimitFacts
    <3>4. Within(readers)'
      BY <2>1, <3>1, <3>3 DEF Within
    <3>. QED
      BY <1>0, <2>1, <3>1, <3>2, <3>4 DEF Attended, ReadersKeepSource, Within, HookOnStream, CleanShutdown
  <2>. QED
    BY <2>2, <2>3
<1>15. ASSUME NEW r \in Readers, doRemoveReader(r) PROVE Attended'
  <2>1. phase # "done" /\ phase' = phase /\ UNCHANGED <<conf, stream, readyHook, leaked>> /\ readers' \subseteq readers
    BY <1>15 DEF doRemoveReader, AtSelect
  <2>2. closers' \subseteq closers \/ readers' = {}
    BY <1>15 DEF doRemoveReader, demandVars
  <2>. QED
    BY <1>0, <1>1, <2>1, <2>2 DEF HookOnStream
<1>16. ASSUME NEW p \in Publishers, AddPublisherRefused(p) PROVE Attended'
  <2>1. phase # "done" /\ phase' # "done" /\ UNCHANGED <<conf, readers, stream, readyHook, leaked, timers>>
    BY <1>16 DEF AddPublisherRefused, Take, AtSelect, CloseIfIdle, pathVars, demandVars
  <2>. QED
    BY <1>0, <1>1, <2>1 DEF HookOnStream
<1>17. ASSUME NEW p \in Publishers, doAddPublisher(p) PROVE Attended'
  <2>. DEFINE rds == IF source # None /\ ~conf.alwaysAvailable THEN {} ELSE readers
  <2>1. phase # "done" /\ phase' # "done" /\ conf' = conf /\ conf.source = "publisher" /\ rds \subseteq readers
    BY <1>17 DEF doAddPublisher, Take, AtSelect, CloseIfIdle
  <2>2. stream' # "nil" /\ readyHook' = TRUE /\ leaked \subseteq leaked'
    BY <1>0, <1>17, <2>1 DEF doAddPublisher, setAvailable, HookOnStream, Control, StreamMatchesSource, TypeOK
  <2>3. "ssClose" \notin timers /\ (pubState = "initial" => "pubClose" \notin timers)
        /\ (~HasOnDemandPublisher(conf) => pubState = "initial")
    BY <2>1 DEF Control, TimersMatchState, HandlerMatchesState, DemandHookMatchesState, HasOnDemandStaticSource
  <2>4. CASE readers' = rds /\ timers' = timers
    BY <1>0, <1>10, <2>1, <2>2, <2>3, <2>4
  <2>5. CASE /\ readers' = rds \cup Admitted(rds)
             /\ IF HasOnDemandPublisher(conf) /\ pubState # "initial"
                THEN PublisherReady(Admitted(rds)) ELSE UNCHANGED demandVars
    <3>1. CASE ~HasOnDemandPublisher(conf) \/ pubState = "initial"
      <4>1. timers' = timers
        BY <2>5, <3>1 DEF demandVars
      <4>. QED
        BY <1>10, <2>1, <2>2, <2>3, <2>5, <3>1, <4>1
    <3>2. CASE HasOnDemandPublisher(conf) /\ pubState # "initial" /\ Admitted(rds) # {}
      <4>1. timers' = timers \ {"pubReady", "pubClose"}
        BY <2>5, <3>2 DEF PublisherReady
      <4>. QED
        BY <1>10, <2>1, <2>2, <2>3, <2>5, <4>1
    <3>3. CASE HasOnDemandPublisher(conf) /\ pubState # "initial" /\ Admitted(rds) = {}
      <4>1. ~conf.alwaysAvailable
        BY <3>3, ConfFacts DEF HasOnDemandPublisher, TypeOK
      <4>2. rds # {} => "runOnReady" \in leaked'
        BY <1>0, <1>17, <2>1, <4>1 DEF doAddPublisher, setAvailable, Overwritten, HookOnStream
      <4>. QED
        BY <1>10, <2>1, <2>2, <2>5, <3>3, <4>2
    <3>. QED
      BY <3>1, <3>2, <3>3
  <2>. QED
    BY <1>17, <2>4, <2>5 DEF doAddPublisher, consumeOnHoldRequests, demandVars
<1>18. ASSUME NEW p \in Publishers, doRemovePublisher(p) PROVE Attended'
  <2>1. phase # "done" /\ phase' # "done" /\ conf' = conf /\ timers' = timers /\ leaked' = leaked
    BY <1>18 DEF doRemovePublisher, executeRemovePublisher, setNotAvailable, AtSelect, CloseIfIdle, demandVars, pathVars
  <2>2. readers' \subseteq readers /\ (stream' = stream \/ readers' = {} \/ stream' # "nil") /\ (readyHook' <=> stream' # "nil")
    BY <1>0, <1>18, <2>1 DEF doRemovePublisher, executeRemovePublisher, setNotAvailable, pathVars, HookOnStream,
       Control, StreamMatchesSource
  <2>. QED
    BY <1>1, <2>1, <2>2
<1>. QED
  BY <1>2, <1>3, <1>4, <1>5, <1>6, <1>7, <1>8, <1>9, <1>11, <1>12, <1>13, <1>14, <1>15, <1>16, <1>17, <1>18 DEF Next

(***************************************************************************)
(* The inductive invariant and the theorems.                               *)
(***************************************************************************)
(* A path blocked in closePathIfIdle is idle: the loop runs nothing else.  *)
AskingIsIdle == phase = "asking" => ShouldClose

(* A path that is in closePathIfIdle has nothing that would keep it open.  *)
LEMMA AskingStep ==
    ASSUME AskingIsIdle, [Next]_vars
    PROVE  AskingIsIdle'
<1>1. CASE phase' = phase /\ phase = "asking" /\ UNCHANGED <<conf, source, readers, holdVars>>
  BY <1>1 DEF AskingIsIdle, ShouldClose, holdVars
<1>2. CASE phase' # "asking"
  BY <1>2 DEF AskingIsIdle
<1>3. CASE phase # "asking" /\ CloseIfIdle
  BY <1>3 DEF AskingIsIdle, CloseIfIdle
<1>4. CASE UNCHANGED vars
  BY <1>1, <1>2, <1>4 DEF vars, pathVars
<1>5. ASSUME NEW c \in Clients, Route(c) \/ Abandon(c) PROVE AskingIsIdle'
  BY <1>1, <1>2, <1>5 DEF Route, Abandon, pathVars
<1>6. CASE ClosePathIfIdle \/ Close \/ Terminate
  BY <1>2, <1>6 DEF ClosePathIfIdle, Close, Terminate
<1>7. CASE doOnDemandStaticSourceReadyTimer \/ doOnDemandStaticSourceCloseTimer
           \/ doOnDemandPublisherReadyTimer \/ doSourceStaticSetNotReady
  BY <1>3, <1>7 DEF doOnDemandStaticSourceReadyTimer, doOnDemandStaticSourceCloseTimer,
    doOnDemandPublisherReadyTimer, doSourceStaticSetNotReady, AtSelect
<1>8. CASE doOnDemandPublisherCloseTimer \/ doSourceStaticSetReady
  BY <1>2, <1>8 DEF doOnDemandPublisherCloseTimer, doSourceStaticSetReady, AtSelect
<1>9. ASSUME NEW new \in Confs, doReloadConf(new) PROVE AskingIsIdle'
  BY <1>2, <1>9 DEF doReloadConf, AtSelect
<1>10. ASSUME NEW d \in Describers, doDescribe(d) PROVE AskingIsIdle'
  BY <1>3, <1>10 DEF doDescribe, Take, AtSelect
<1>11. ASSUME NEW r \in Readers, doAddReader(r) PROVE AskingIsIdle'
  BY <1>3, <1>11 DEF doAddReader, Take, AtSelect
<1>12. ASSUME NEW r \in Readers, doRemoveReader(r) PROVE AskingIsIdle'
  BY <1>2, <1>12 DEF doRemoveReader, AtSelect
<1>13. ASSUME NEW p \in Publishers, AddPublisherRefused(p) PROVE AskingIsIdle'
  BY <1>3, <1>13 DEF AddPublisherRefused, Take, AtSelect
<1>14. ASSUME NEW p \in Publishers, doAddPublisher(p) PROVE AskingIsIdle'
  BY <1>3, <1>14 DEF doAddPublisher, Take, AtSelect
<1>15. ASSUME NEW p \in Publishers, doRemovePublisher(p) PROVE AskingIsIdle'
  BY <1>3, <1>15 DEF doRemovePublisher, AtSelect
<1>. QED
  BY <1>4, <1>5, <1>6, <1>7, <1>8, <1>9, <1>10, <1>11, <1>12, <1>13, <1>14, <1>15 DEF Next

Inv ==
    /\ TypeOK
    /\ Counted /\ HeldCalls
    /\ Control
    /\ HeldRequestsHaveDeadline
    /\ EgressFollowsConf
    /\ Membership
    /\ RoutedPublishersAreNew
    /\ Attended
    /\ AskingIsIdle

(* RequestsCounted is the conjunction of the two parts that are proved.    *)
LEMMA CountedIsRequestsCounted ==
    RequestsCounted <=> Counted /\ HeldCalls
BY DEF RequestsCounted, Counted, HeldCalls, Open

(* The state in which run() begins has the right types.                    *)
LEMMA InitTypeOK == Init => TypeOK
<1>. SUFFICES ASSUME Init PROVE TypeOK
  OBVIOUS
<1>. USE PathAssumption DEF Init, Clients, Sessions
<1>1. conf \in Confs /\ conf \in ConfType
  BY ConfFacts
<1>2. egress \in [Egress -> Settings \cup {Off}]
  <2>1. Started(conf) \subseteq Egress /\ conf.egress \in [Egress -> Settings \cup {Off}]
    BY <1>1 DEF Started, ConfType
  <2>. QED
    BY <2>1 DEF AllOff, OpenEgress
<1>3. call \in [Clients -> {"none", "routed", "held"}]
  OBVIOUS
<1>4. /\ source \in {None, "redirect", "static"} \cup Publishers
      /\ handler \in {"stopped", "running", "ready"}
      /\ stream \in {"nil", "bare", "offline", "live"}
      /\ readyHook \in BOOLEAN
  BY <1>1 DEF ConfType
<1>5. pendingRequests \in Nat
  BY DEF Init
<1>6. /\ phase \in {"running", "asking", "closing", "done"} /\ demandHook \in BOOLEAN
      /\ readers \subseteq Readers /\ heldDescribes \subseteq Describers
  OBVIOUS
<1>7. heldReaders \in Seq(Readers)
  OBVIOUS
<1>8. session \in [Sessions -> {"out", "in", "kicked"}]
  OBVIOUS
<1>9. ssState \in OnDemandState /\ pubState \in OnDemandState /\ timers \subseteq Timer
      /\ leaked \subseteq Egress \cup {"runOnReady"}
  BY DEF OnDemandState
<1>. QED
  BY <1>1, <1>2, <1>3, <1>4, <1>5, <1>6, <1>7, <1>8, <1>9 DEF TypeOK

(* The state in which run() begins satisfies the inductive invariant.      *)
LEMMA InitInv == Init => Inv
<1>. SUFFICES ASSUME Init PROVE Inv
  OBVIOUS
<1>. USE PathAssumption
<1>1. TypeOK
  BY InitTypeOK
<1>2. Held = {}
  BY DEF Init, Held
<1>3. HeldCalls
  BY <1>2 DEF Init, HeldCalls
<1>4. Counted
  <2>1. CASE conf.regexp
    <3>1. PICK c \in Clients : call = [d \in Clients |-> IF d = c THEN "routed" ELSE "none"]
      BY <2>1 DEF Init
    <3>2. Routed = {c}
      BY <3>1 DEF Routed
    <3>3. pendingRequests = 1
      BY <2>1 DEF Init
    <3>4. Cardinality({c}) = 1
      BY FS_Singleton
    <3>. QED
      BY <3>2, <3>3, <3>4 DEF Counted
  <2>2. CASE ~conf.regexp
    <3>1. Routed = {}
      BY <2>2 DEF Init, Routed
    <3>2. pendingRequests = 0
      BY <2>2 DEF Init
    <3>. QED
      BY <3>1, <3>2, FS_EmptySet DEF Counted
  <2>. QED
    BY <2>1, <2>2
<1>5. Control
  <2>1. conf \in ConfType /\ (conf.sourceOnDemand => conf.source # "publisher")
    BY ConfFacts DEF Init
  <2>2. TimersMatchState /\ DemandHookMatchesState
    BY DEF Init, TimersMatchState, DemandHookMatchesState
  <2>3. HandlerMatchesState
    BY <2>1 DEF Init, HandlerMatchesState, HasOnDemandStaticSource, ConfType
  <2>4. StreamMatchesSource
    BY <2>1 DEF Init, StreamMatchesSource, ConfType
  <2>. QED
    BY <2>2, <2>3, <2>4 DEF Control
<1>6. HeldRequestsHaveDeadline
  BY <1>2 DEF HeldRequestsHaveDeadline
<1>7. EgressFollowsConf
  <2>1. conf.egress \in [Egress -> Settings \cup {Off}] /\ conf.alwaysAvailable \in BOOLEAN
    BY ConfFacts DEF Init, ConfType
  <2>2. CASE conf.alwaysAvailable
    <3>1. egress = OpenEgress(AllOff) /\ stream = "offline"
      BY <2>2 DEF Init
    <3>. QED
      BY <2>1, <3>1 DEF EgressFollowsConf, OpenEgress, AllOff, Started
  <2>3. CASE ~conf.alwaysAvailable
    BY <2>3 DEF Init, EgressFollowsConf
  <2>. QED
    BY <2>1, <2>2, <2>3
<1>8. Membership /\ RoutedPublishersAreNew
  <2>1. source \notin Publishers
    BY ConfFacts DEF Init, ConfType
  <2>2. \A s \in Sessions : session[s] = "out"
    BY DEF Init
  <2>3. readers = {} /\ heldReaders = <<>>
    BY DEF Init
  <2>. QED
    BY <1>2, <2>1, <2>2, <2>3 DEF Membership, InAreMembers, MembersHaveNotLeft, HeldOnce,
      HeldDoNotRead, Members, RoutedPublishersAreNew, Sessions
<1>9. AskingIsIdle
  BY DEF Init, AskingIsIdle
<1>10. Attended
  <2>1. Cardinality(readers) = 0 /\ conf.maxReaders \in Nat
    BY <1>1, ConfFacts, FS_EmptySet DEF Init, ConfType, TypeOK
  <2>. QED
    BY <1>1, <2>1 DEF Init, Attended, ReadersKeepSource, HookOnStream, CleanShutdown, TypeOK
<1>. QED
  BY <1>1, <1>3, <1>4, <1>5, <1>6, <1>7, <1>8, <1>9, <1>10 DEF Inv

(* Every step of the path keeps the inductive invariant.                   *)
LEMMA NextInv == Inv /\ [Next]_vars => Inv'
<1>. SUFFICES ASSUME Inv, [Next]_vars PROVE Inv'
  OBVIOUS
<1>. USE DEF Inv
<1>1. TypeOK'
  BY TypeOKStep, CountedIsRequestsCounted
<1>2. Counted' /\ HeldCalls'
  BY RequestsStep
<1>3. Control'
  BY <1>1, ControlStep
<1>4. HeldRequestsHaveDeadline'
  BY <1>1, <1>3, DeadlineStep
<1>5. EgressFollowsConf'
  BY <1>1, EgressStep
<1>6. Membership'
  BY <1>1, MembershipStep
<1>7. RoutedPublishersAreNew'
  BY RoutedPublishersStep
<1>8. AskingIsIdle'
  BY AskingStep
<1>9. Attended'
  BY <1>1, AttendedStep DEF Membership
<1>. QED
  BY <1>1, <1>2, <1>3, <1>4, <1>5, <1>6, <1>7, <1>8, <1>9

(* Inv holds in every reachable state of the path, whatever the clients,   *)
(* the configurations and the order of requests, timers and reloads.       *)
THEOREM Invariance == Spec => []Inv
BY InitInv, NextInv, PTL DEF Spec

(* Type correctness: in particular pendingRequests never becomes negative, *)
(* and the lists on hold only ever hold clients of their kind.             *)
THEOREM TypeCorrect == Spec => []TypeOK
<1>1. Inv => TypeOK
  BY DEF Inv
<1>. QED
  BY <1>1, Invariance, PTL

(* An expiring timer always finds its state machine in the state it was    *)
(* armed in.                                                               *)
THEOREM TimersAreConsistent == Spec => []TimersMatchState
<1>1. Inv => TimersMatchState
  BY DEF Inv, Control
<1>. QED
  BY <1>1, Invariance, PTL

(* Handler.Start and Handler.Stop of a static source alternate: their      *)
(* panics are unreachable from the path.                                   *)
THEOREM HandlerIsConsistent == Spec => []HandlerMatchesState
<1>1. Inv => HandlerMatchesState
  BY DEF Inv, Control
<1>. QED
  BY <1>1, Invariance, PTL

(* onUnDemandHook is set whenever onDemandPublisherStop calls it.          *)
THEOREM DemandHookIsConsistent == Spec => []DemandHookMatchesState
<1>1. Inv => DemandHookMatchesState
  BY DEF Inv, Control
<1>. QED
  BY <1>1, Invariance, PTL

(* The stream is online exactly while pa.source feeds it.                  *)
THEOREM StreamIsConsistent == Spec => []StreamMatchesSource
<1>1. Inv => StreamMatchesSource
  BY DEF Inv, Control
<1>. QED
  BY <1>1, Invariance, PTL

(* No request is ever on hold for a static source without an armed ready   *)
(* timer.                                                                  *)
THEOREM HoldHasDeadline == Spec => []HeldRequestsHaveDeadline
<1>1. Inv => HeldRequestsHaveDeadline
  BY DEF Inv
<1>. QED
  BY <1>1, Invariance, PTL

(* The counter shared by path manager and path is exact while the path is  *)
(* open, and the lists on hold are exactly the waiting clients.            *)
THEOREM PendingRequestsExact == Spec => []RequestsCounted
<1>1. Inv => RequestsCounted
  BY CountedIsRequestsCounted DEF Inv
<1>. QED
  BY <1>1, Invariance, PTL

(* Recorder and forwarders run with the current configuration across any   *)
(* number of reloads and stream changes.                                   *)
THEOREM EgressIsConsistent == Spec => []EgressFollowsConf
<1>1. Inv => EgressFollowsConf
  BY DEF Inv
<1>. QED
  BY <1>1, Invariance, PTL

(* The path and its sessions agree on who is reading and publishing.       *)
THEOREM MembershipIsConsistent == Spec => []MembershipAgrees
<1>1. Inv => MembershipAgrees
  BY DEF Inv, Membership, InAreMembers, MembersHaveNotLeft, HeldOnce, HeldDoNotRead,
    Members, MembershipAgrees, Open
<1>. QED
  BY <1>1, Invariance, PTL

(* Readers are on a stream and within maxReaders, a close timer runs only  *)
(* without them unless setAvailable replaced their stream, and the end of  *)
(* run() leaves no timer, request, egress, command or session behind.      *)
THEOREM NobodyStranded == Spec => []NobodyIsStranded
<1>1. Inv => NobodyIsStranded
  BY DEF Inv, Attended, NobodyIsStranded
<1>. QED
  BY <1>1, Invariance, PTL

(* The on-demand state machines are in step with their timers, the command *)
(* and the static source, and every request on hold has its deadline.      *)
THEOREM OnDemandConsistency == Spec => []OnDemandIsConsistent
<1>1. TimersMatchState /\ DemandHookMatchesState /\ HandlerMatchesState
        /\ HeldRequestsHaveDeadline => OnDemandIsConsistent
  BY DEF OnDemandIsConsistent
<1>. QED
  BY <1>1, TimersAreConsistent, DemandHookIsConsistent, HandlerIsConsistent,
     HoldHasDeadline, PTL

(* Path, source and sessions agree on who publishes, reads and waits.      *)
THEOREM ClientsConsistency == Spec => []ClientsAreKnown
<1>1. StreamMatchesSource /\ RequestsCounted /\ MembershipAgrees => ClientsAreKnown
  BY DEF ClientsAreKnown
<1>. QED
  BY <1>1, StreamIsConsistent, PendingRequestsExact, MembershipIsConsistent, PTL

(* Closing an idle path cuts nobody off: no request is on its way, on hold *)
(* or attached when the path manager closes a path that asked for it.      *)
THEOREM IdleCloseSafety == Spec => IdleCloseIsSafe
<1>1. ASSUME Inv, ClosePathIfIdle, phase' = "closing"
      PROVE  /\ Routed = {} /\ Held = {}
             /\ \A s \in Sessions : session[s] # "in"
  <2>1. phase = "asking" /\ pendingRequests = 0
    BY <1>1 DEF ClosePathIfIdle
  <2>2. ShouldClose
    BY <1>1, <2>1 DEF Inv, AskingIsIdle
  <2>3. Cardinality(Routed) = 0
    BY <1>1, <2>1 DEF Inv, Counted, Open
  <2>4. Routed = {}
    BY <2>3, RoutedFinite, FS_EmptySet
  <2>5. Held = {}
    BY <2>2 DEF ShouldClose, Held
  <2>6. Members = {}
    BY <2>2, PathAssumption DEF ShouldClose, Members
  <2>7. \A s \in Sessions : session[s] # "in"
    BY <1>1, <2>1, <2>6 DEF Inv, Membership, InAreMembers
  <2>. QED
    BY <2>4, <2>5, <2>7
<1>2. Inv /\ [Next]_vars =>
        [ClosePathIfIdle /\ phase' = "closing" =>
           /\ Routed = {} /\ Held = {}
           /\ \A s \in Sessions : session[s] # "in"]_vars
  BY <1>1
<1>. QED
  BY <1>2, Invariance, PTL DEF Spec, IdleCloseIsSafe
=============================================================================
