---------------------------- MODULE RoundsProofs ----------------------------
(***************************************************************************)
(* Proofs about Rounds, for any owners, views, recorded paths and number   *)
(* of requests in progress.                                                *)
(***************************************************************************)
EXTENDS Rounds, TLAPS

(***************************************************************************)
(* The inductive invariant.                                                *)
(***************************************************************************)
(* A round start between its critical sections, a round end after its own, *)
(* and a request of the manager while it holds the mutex.                  *)
Starting(r) == req[r].kind = "start" /\ req[r].pc \in {"views", "poll", "set"}
Ending(r) == req[r].kind = "end" /\ req[r].pc \in {"ending", "close", "clear"}
Managing(r) == req[r].owner = Api /\ req[r].pc \in {"set", "insert", "close", "clear"}

OfRound(r, kind) == req[r].kind = kind /\ req[r].owner \in Owners
OfApi(r) == /\ req[r].kind \in {"apiStart", "apiStop"} /\ req[r].owner = Api
            /\ req[r].cur \in ApiPaths /\ req[r].todo = {} /\ req[r].got = {}

(* What a request knows at each of its steps.                              *)
Shape(r) ==
    /\ req[r].pc = "idle" => req[r] = Idle
    /\ req[r].pc = "lock" => /\ OfRound(r, "start") \/ OfRound(r, "end")
                             /\ req[r].got = {} /\ req[r].todo = {}
    /\ req[r].pc = "views" => OfRound(r, "start")
    /\ req[r].pc = "poll" => OfRound(r, "start") /\ req[r].cur \in req[r].todo
    /\ req[r].pc = "set" => \/ OfRound(r, "start") /\ req[r].cur \in req[r].todo
                            \/ OfApi(r) /\ req[r].kind = "apiStart"
    /\ req[r].pc = "ending" => OfRound(r, "end")
    /\ req[r].pc \in {"close", "clear"} => \/ OfRound(r, "end") /\ req[r].cur \in req[r].todo
                                           \/ OfApi(r)
    /\ req[r].pc = "insert" => OfApi(r) /\ req[r].kind = "apiStart"
    /\ req[r].pc = "mutex" => OfApi(r)

RequestsAreShaped == \A r \in Slots : Shape(r)

(* The manager's mutex is held by the one request that is in its section.  *)
MutexIsExclusive == \A r \in Slots : Managing(r) <=> mu = r

(* With callers that wait for their answers: the table belongs to the      *)
(* round start that is busy, and not to an owner whose round is ending.    *)
TableIsOwned ==
    /\ \A r, q \in Slots : req[r].owner \in Owners /\ req[r].owner = req[q].owner => r = q
    /\ \A r \in Slots : Starting(r) =>
          active # None /\ active.owner = req[r].owner /\ active.paths = {}
    /\ \A r \in Slots : Ending(r) => active = None \/ active.owner # req[r].owner
    /\ HeldIsActive

(* A table locked without a recording belongs to a start that is busy.     *)
TableIsBusy ==
    active # None /\ active.paths = {}
        => \E r \in Slots : Starting(r) /\ req[r].owner = active.owner

(* As long as no publisher leaves: the hold a request has on its paths ... *)
RequestRecords(r) ==
    /\ ~req[r].stale
    /\ Starting(r) => \A p \in req[r].got : rec[p] = req[r].owner /\ <<p, req[r].owner>> \in live
    /\ req[r].pc = "set" => rec[req[r].cur] = None /\ stream[req[r].cur]
    /\ Ending(r) => \A p \in req[r].todo :
          /\ rec[p] = req[r].owner
          /\ <<p, req[r].owner>> \in live \/ (req[r].pc = "clear" /\ p = req[r].cur)
    /\ Managing(r) /\ req[r].pc # "set" => rec[req[r].cur] = Api
    /\ Managing(r) /\ req[r].kind = "apiStart" => job[req[r].cur] = "no"
    /\ req[r].pc \in {"insert", "close"} => <<req[r].cur, rec[req[r].cur]>> \in live
    /\ req[r].pc = "clear" => <<req[r].cur, rec[req[r].cur]>> \notin live

(* ... and the recordings of the manager, and where a recorder belongs.    *)
Clearing(p) == \E r \in Slots : Managing(r) /\ req[r].cur = p /\ req[r].pc = "clear"

JobsRecord ==
    \A p \in Paths : /\ job[p] # "stale"
                     /\ rec[p] # None => stream[p]
                     /\ job[p] = "current" => rec[p] = Api /\ (<<p, Api>> \in live \/ Clearing(p))

Owns(r, p, o) ==
    /\ req[r].owner = o
    /\ \/ Starting(r) /\ p \in req[r].got
       \/ Ending(r) /\ p \in req[r].todo
       \/ Managing(r) /\ p = req[r].cur

Owned(p, o) ==
    \/ active # None /\ active.owner = o /\ p \in active.paths
    \/ o = Api /\ job[p] = "current"
    \/ \E r \in Slots : Owns(r, p, o)

RecordersBelong == \A e \in live : rec[e[1]] = e[2] /\ Owned(e[1], e[2])

Undisturbed ==
    RoundRecords /\ (\A r \in Slots : RequestRecords(r)) /\ JobsRecord /\ RecordersBelong

(* The conditions under which recorders are accounted for: callers that    *)
(* wait for their answers, no view recorded through the API as well, and   *)
(* no publisher that has left.                                             *)
Calm == Patient /\ TablePaths \cap ApiPaths = {} /\ ~disturbed

Inv == /\ TypeOK /\ RequestsAreShaped /\ MutexIsExclusive /\ TableIsBusy
       /\ Patient => TableIsOwned
       /\ Calm => Undisturbed

(***************************************************************************)
(* Frames: what a step leaves alone.                                       *)
(***************************************************************************)
(* The fields of a request.                                                *)
LEMMA RequestFields ==
    ASSUME TypeOK, NEW r \in Slots
    PROVE  /\ req[r].pc \in {"idle", "lock", "views", "poll", "set", "ending", "mutex", "insert",
                             "close", "clear"}
           /\ req[r].kind \in {"start", "end", "apiStart", "apiStop", None}
           /\ req[r].owner \in Owners \cup {Api, None}
           /\ req[r].todo \subseteq TablePaths /\ req[r].got \subseteq TablePaths
           /\ req[r].cur \in Paths \cup {None} /\ req[r].stale \in BOOLEAN
BY DEF TypeOK, RequestType

(* The updates that requests make to themselves.                           *)
Steps == {"idle", "lock", "views", "poll", "set", "ending", "mutex", "insert", "close", "clear"}

LEMMA RequestUpdates ==
    ASSUME NEW x \in RequestType
    PROVE  /\ \A pc \in Steps : [x EXCEPT !.pc = pc] \in RequestType
           /\ \A c \in Paths \cup {None} : [x EXCEPT !.cur = c] \in RequestType
           /\ \A S \in SUBSET TablePaths : [x EXCEPT !.todo = S] \in RequestType
           /\ \A S \in SUBSET TablePaths : [x EXCEPT !.got = S] \in RequestType
           /\ \A b \in BOOLEAN : [x EXCEPT !.stale = b] \in RequestType
<1>1. ASSUME NEW pc \in Steps PROVE [x EXCEPT !.pc = pc] \in RequestType
  BY DEF RequestType, Steps
<1>2. ASSUME NEW c \in Paths \cup {None} PROVE [x EXCEPT !.cur = c] \in RequestType
  BY DEF RequestType
<1>3. ASSUME NEW S \in SUBSET TablePaths PROVE [x EXCEPT !.todo = S] \in RequestType
  BY DEF RequestType
<1>4. ASSUME NEW S \in SUBSET TablePaths PROVE [x EXCEPT !.got = S] \in RequestType
  BY DEF RequestType
<1>5. ASSUME NEW b \in BOOLEAN PROVE [x EXCEPT !.stale = b] \in RequestType
  BY DEF RequestType
<1>. QED
  BY <1>1, <1>2, <1>3, <1>4, <1>5

(* A request is replaced by another record.                                *)
LEMMA Replaced ==
    ASSUME TypeOK, NEW r \in Slots, NEW x \in RequestType, req' = [req EXCEPT ![r] = x]
    PROVE  /\ req' \in [Slots -> RequestType] /\ req'[r] = x
           /\ \A q \in Slots : q # r => req'[q] = req[q]
BY DEF TypeOK

(* A request moves on, with another path in hand.                          *)
LEMMA MovedOn ==
    ASSUME NEW x \in RequestType, NEW pc \in Steps
    PROVE  LET y == [x EXCEPT !.pc = pc]
           IN  /\ y \in RequestType /\ y.pc = pc /\ y.kind = x.kind /\ y.owner = x.owner
               /\ y.todo = x.todo /\ y.got = x.got /\ y.cur = x.cur /\ y.stale = x.stale
BY DEF RequestType, Steps

LEMMA MovedTo ==
    ASSUME NEW x \in RequestType, NEW c \in Paths \cup {None}
    PROVE  LET y == [x EXCEPT !.cur = c]
           IN  /\ y \in RequestType /\ y.pc = x.pc /\ y.kind = x.kind /\ y.owner = x.owner
               /\ y.todo = x.todo /\ y.got = x.got /\ y.cur = c /\ y.stale = x.stale
BY DEF RequestType

LEMMA TodoSet ==
    ASSUME NEW x \in RequestType, NEW S \in SUBSET TablePaths
    PROVE  LET y == [x EXCEPT !.todo = S]
           IN  /\ y \in RequestType /\ y.pc = x.pc /\ y.kind = x.kind /\ y.owner = x.owner
               /\ y.todo = S /\ y.got = x.got /\ y.cur = x.cur /\ y.stale = x.stale
BY DEF RequestType

LEMMA GotSet ==
    ASSUME NEW x \in RequestType, NEW S \in SUBSET TablePaths
    PROVE  LET y == [x EXCEPT !.got = S]
           IN  /\ y \in RequestType /\ y.pc = x.pc /\ y.kind = x.kind /\ y.owner = x.owner
               /\ y.todo = x.todo /\ y.got = S /\ y.cur = x.cur /\ y.stale = x.stale
BY DEF RequestType

LEMMA StaleSet ==
    ASSUME NEW x \in RequestType, NEW b \in BOOLEAN
    PROVE  LET y == [x EXCEPT !.stale = b]
           IN  /\ y \in RequestType /\ y.pc = x.pc /\ y.kind = x.kind /\ y.owner = x.owner
               /\ y.todo = x.todo /\ y.got = x.got /\ y.cur = x.cur /\ y.stale = b
BY DEF RequestType

(* A request that only goes on.                                            *)
LEMMA GoesOn ==
    ASSUME TypeOK, NEW r \in Slots, NEW pc \in Steps, Go(r, pc)
    PROVE  /\ req' \in [Slots -> RequestType] /\ \A q \in Slots : q # r => req'[q] = req[q]
           /\ req'[r].pc = pc /\ req'[r].kind = req[r].kind /\ req'[r].owner = req[r].owner
           /\ req'[r].todo = req[r].todo /\ req'[r].got = req[r].got /\ req'[r].cur = req[r].cur
           /\ req'[r].stale = req[r].stale
<1>1. req[r] \in RequestType
  BY DEF TypeOK
<1>2. PICK y : y = [req[r] EXCEPT !.pc = pc]
  OBVIOUS
<1>3. /\ y \in RequestType /\ y.pc = pc /\ y.kind = req[r].kind /\ y.owner = req[r].owner
      /\ y.todo = req[r].todo /\ y.got = req[r].got /\ y.cur = req[r].cur /\ y.stale = req[r].stale
  BY <1>1, <1>2, MovedOn, Zenon
<1>4. req' = [req EXCEPT ![r] = y]
  BY <1>2 DEF Go
<1>. QED
  BY <1>3, <1>4, Replaced, Zenon

(* Between the critical sections of rounds the table keeps its owner.      *)
LEMMA TableSame ==
    ASSUME Inv, UNCHANGED lockVars,
           \A q \in Slots : /\ req'[q].owner \in Owners => req'[q].owner = req[q].owner
                            /\ Starting(q)' => Starting(q)
                            /\ Starting(q) => Starting(q)' /\ req'[q].owner = req[q].owner
                            /\ Ending(q)' => Ending(q) /\ req'[q].owner = req[q].owner
    PROVE  TableIsBusy' /\ (Patient => TableIsOwned')
<1>. USE DEF lockVars
<1>1. TableIsBusy'
  BY DEF Inv, TableIsBusy
<1>2. ASSUME Patient PROVE TableIsOwned'
  <2>0. TableIsOwned
    BY <1>2 DEF Inv
  <2>1. HeldIsActive'
    BY <2>0 DEF TableIsOwned, HeldIsActive
  <2>2. \A r \in Slots : Starting(r)' => active' # None /\ active'.owner = req'[r].owner /\ active'.paths = {}
    BY <2>0 DEF TableIsOwned
  <2>3. \A r \in Slots : Ending(r)' => active' = None \/ active'.owner # req'[r].owner
    BY <2>0 DEF TableIsOwned
  <2>4. \A r, q \in Slots : req'[r].owner \in Owners /\ req'[r].owner = req'[q].owner => r = q
    BY <2>0 DEF TableIsOwned
  <2>. QED
    BY <2>1, <2>2, <2>3, <2>4 DEF TableIsOwned
<1>. QED
  BY <1>1, <1>2

(* One request goes on and no recorder is touched: everything is accounted *)
(* for as long as the request accounts for what it had.                    *)
LEMMA RequestOnly ==
    ASSUME TypeOK, Undisturbed, UNCHANGED <<rec, live, job, stream>>, NEW r \in Slots,
           \A q \in Slots : q # r => req'[q] = req[q],
           RoundRecords', RequestRecords(r)',
           ~(Managing(r) /\ req[r].pc = "clear"),
           \A p, o : <<p, o>> \in live /\ Owned(p, o) => Owned(p, o)'
    PROVE  Undisturbed'
<1>1. ASSUME NEW q \in Slots PROVE RequestRecords(q)'
  <2>1. CASE q = r
    BY <2>1
  <2>2. CASE q # r
    BY <2>2 DEF Undisturbed, RequestRecords, Starting, Ending, Managing
  <2>. QED
    BY <2>1, <2>2
<1>2. JobsRecord'
  <2>1. \A p : Clearing(p) => Clearing(p)'
    BY DEF Clearing, Managing
  <2>. QED
    BY <2>1 DEF Undisturbed, JobsRecord
<1>3. RecordersBelong'
  <2>1. ASSUME NEW e \in live PROVE rec[e[1]] = e[2] /\ Owned(e[1], e[2])'
    <3>1. e = <<e[1], e[2]>>
      BY DEF TypeOK
    <3>2. rec[e[1]] = e[2] /\ Owned(e[1], e[2])
      BY DEF Undisturbed, RecordersBelong
    <3>. QED
      BY <3>1, <3>2
  <2>. QED
    BY <2>1 DEF RecordersBelong
<1>. QED
  BY <1>1, <1>2, <1>3 DEF Undisturbed

(* As long as the table and the jobs stay, and the request does.           *)
LEMMA OwnedStays ==
    ASSUME UNCHANGED <<active, job>>, NEW r \in Slots,
           \A q \in Slots : q # r => req'[q] = req[q],
           \A p, o : <<p, o>> \in live /\ Owns(r, p, o) => Owns(r, p, o)'
    PROVE  \A p, o : <<p, o>> \in live /\ Owned(p, o) => Owned(p, o)'
<1>1. \A q \in Slots : q # r => \A p, o : Owns(q, p, o) => Owns(q, p, o)'
  BY DEF Owns, Starting, Ending, Managing
<1>. QED
  BY <1>1 DEF Owned

(* What the other requests have to do with the mutex and their own shape.  *)
LEMMA OthersSame ==
    ASSUME Inv, NEW r \in Slots, \A q \in Slots : q # r => req'[q] = req[q],
           UNCHANGED mu, Managing(r)' <=> Managing(r)
    PROVE  MutexIsExclusive'
BY DEF Inv, MutexIsExclusive, Managing


LEMMA ShapeSame ==
    ASSUME RequestsAreShaped, NEW r \in Slots, \A q \in Slots : q # r => req'[q] = req[q],
           Shape(r)'
    PROVE  RequestsAreShaped'
<1>1. ASSUME NEW q \in Slots, q # r PROVE Shape(q)'
  BY <1>1 DEF RequestsAreShaped, Shape, OfRound, OfApi
<1>. QED
  BY <1>1 DEF RequestsAreShaped

(***************************************************************************)
(* Requests arrive.                                                        *)
(***************************************************************************)
LEMMA SendRoundStep ==
    ASSUME Inv, NEW r \in Slots, NEW o \in Owners, NEW kind \in {"start", "end"},
           SendRound(r, kind, o), UNCHANGED used
    PROVE  Inv'
<1>. USE RoundsAssumption DEF lockVars, mgrVars, pathVars, envVars
<1>1. /\ req[r] = Idle /\ ~crashed
      /\ Patient => \A q \in Slots : req[q].owner # o
      /\ req'[r] = [Idle EXCEPT !.pc = "lock", !.kind = kind, !.owner = o]
      /\ \A q \in Slots : q # r => req'[q] = req[q]
      /\ UNCHANGED <<lockVars, mgrVars, pathVars, workers, envVars>>
  BY DEF SendRound, At, Inv, TypeOK, RequestsAreShaped, Shape
<1>2. /\ req'[r].pc = "lock" /\ req'[r].kind = kind /\ req'[r].owner = o /\ req'[r].todo = {}
      /\ req'[r].got = {} /\ req'[r].cur = None /\ ~req'[r].stale
      /\ req[r].pc = "idle" /\ req[r].owner = None
  BY <1>1 DEF Idle
<1>3. TypeOK'
  <2>1. [Idle EXCEPT !.pc = "lock", !.kind = kind, !.owner = o] \in RequestType
    BY DEF Idle, RequestType
  <2>. QED
    BY <2>1 DEF Inv, TypeOK, SendRound
<1>4. ~Managing(r) /\ ~Managing(r)' /\ ~Starting(r) /\ ~Starting(r)' /\ ~Ending(r) /\ ~Ending(r)'
  BY <1>2 DEF Managing, Starting, Ending
<1>5. RequestsAreShaped' /\ MutexIsExclusive'
  BY <1>1, <1>2, <1>4, ShapeSame, OthersSame DEF Inv, Shape, OfRound
<1>6. TableIsBusy'
  BY <1>1, <1>4 DEF Inv, TableIsBusy, Starting
<1>7. ASSUME Patient PROVE TableIsOwned'
  <2>0. TableIsOwned
    BY <1>7 DEF Inv
  <2>1. \A q1, q2 \in Slots : req'[q1].owner \in Owners /\ req'[q1].owner = req'[q2].owner => q1 = q2
    <3>1. \A q \in Slots : q # r => req'[q].owner = req[q].owner /\ req[q].owner # o
      BY <1>1, <1>7
    <3>2. \A q1, q2 \in Slots : req[q1].owner \in Owners /\ req[q1].owner = req[q2].owner => q1 = q2
      BY <2>0 DEF TableIsOwned
    <3>3. req'[r].owner = o
      BY <1>2
    <3>. QED
      BY <3>1, <3>2, <3>3
  <2>2. \A q \in Slots : q # r => (Starting(q)' <=> Starting(q)) /\ (Ending(q)' <=> Ending(q))
    BY <1>1 DEF Starting, Ending
  <2>. QED
    BY <1>1, <1>4, <2>0, <2>1, <2>2 DEF TableIsOwned, HeldIsActive
<1>8. ASSUME Calm' PROVE Undisturbed'
  <2>1. Undisturbed
    BY <1>1, <1>8 DEF Inv, Calm
  <2>2. RequestRecords(r)' /\ RoundRecords'
    BY <1>1, <1>2, <1>4, <2>1 DEF RequestRecords, Undisturbed, RoundRecords
  <2>3. \A p, oo : <<p, oo>> \in live /\ Owned(p, oo) => Owned(p, oo)'
    BY <1>1, <1>4, OwnedStays DEF Owns
  <2>. QED
    BY <1>1, <1>4, <2>1, <2>2, <2>3, RequestOnly DEF Inv
<1>. QED
  BY <1>3, <1>5, <1>6, <1>7, <1>8 DEF Inv

LEMMA SendApiStep ==
    ASSUME Inv, NEW r \in Slots, NEW p \in ApiPaths, NEW kind \in {"apiStart", "apiStop"},
           SendApi(r, kind, p), UNCHANGED used
    PROVE  Inv'
<1>. USE RoundsAssumption DEF lockVars, mgrVars, pathVars, envVars
<1>1. /\ req[r] = Idle /\ ~crashed
      /\ req'[r] = [Idle EXCEPT !.pc = "mutex", !.kind = kind, !.owner = Api, !.cur = p]
      /\ \A q \in Slots : q # r => req'[q] = req[q]
      /\ UNCHANGED <<lockVars, mgrVars, pathVars, workers, envVars>>
  BY DEF SendApi, At, Inv, TypeOK, RequestsAreShaped, Shape
<1>2. /\ req'[r].pc = "mutex" /\ req'[r].kind = kind /\ req'[r].owner = Api /\ req'[r].todo = {}
      /\ req'[r].got = {} /\ req'[r].cur = p /\ ~req'[r].stale
      /\ req[r].pc = "idle" /\ req[r].owner = None
  BY <1>1 DEF Idle
<1>3. TypeOK'
  <2>1. [Idle EXCEPT !.pc = "mutex", !.kind = kind, !.owner = Api, !.cur = p] \in RequestType
    BY DEF Idle, RequestType, Paths
  <2>. QED
    BY <2>1 DEF Inv, TypeOK, SendApi
<1>4. ~Managing(r) /\ ~Managing(r)' /\ ~Starting(r) /\ ~Starting(r)' /\ ~Ending(r) /\ ~Ending(r)'
  BY <1>2 DEF Managing, Starting, Ending
<1>5. RequestsAreShaped' /\ MutexIsExclusive'
  BY <1>1, <1>2, <1>4, ShapeSame, OthersSame DEF Inv, Shape, OfApi
<1>6. TableIsBusy' /\ (Patient => TableIsOwned')
  BY <1>1, <1>2, <1>4, TableSame DEF Starting, Ending
<1>7. ASSUME Calm' PROVE Undisturbed'
  <2>1. Undisturbed
    BY <1>1, <1>7 DEF Inv, Calm
  <2>2. RequestRecords(r)' /\ RoundRecords'
    BY <1>1, <1>2, <1>4, <2>1 DEF RequestRecords, Undisturbed, RoundRecords
  <2>3. \A pp, o : <<pp, o>> \in live /\ Owned(pp, o) => Owned(pp, o)'
    BY <1>1, <1>4, OwnedStays DEF Owns
  <2>. QED
    BY <1>1, <1>4, <2>1, <2>2, <2>3, RequestOnly DEF Inv
<1>. QED
  BY <1>3, <1>5, <1>6, <1>7 DEF Inv

(***************************************************************************)
(* Round start.                                                            *)
(***************************************************************************)
(* A request of an owner has nothing to do with the manager's mutex.       *)
LEMMA OwnersAreNotApi ==
    ASSUME NEW r \in Slots, req[r].owner \in Owners
    PROVE  ~Managing(r)
BY RoundsAssumption DEF Managing

(* A start on its way through its views, before it records one.            *)
LEMMA StartingMoves ==
    ASSUME Inv, TypeOK', NEW r \in Slots, \A q \in Slots : q # r => req'[q] = req[q],
           Starting(r), Starting(r)', Shape(r)',
           req'[r].owner = req[r].owner, req'[r].got = req[r].got, req'[r].stale = req[r].stale,
           req'[r].pc = "set" => rec[req'[r].cur] = None /\ stream[req'[r].cur],
           UNCHANGED <<lockVars, mgrVars, pathVars, envVars>>
    PROVE  Inv'
<1>. USE DEF lockVars, mgrVars, pathVars, envVars
<1>1. req[r].owner \in Owners /\ ~Managing(r) /\ ~Managing(r)' /\ ~Ending(r) /\ ~Ending(r)'
  <2>1. req[r].owner \in Owners
    BY RoundsAssumption DEF Inv, RequestsAreShaped, Shape, Starting, OfRound, OfApi
  <2>. QED
    BY <2>1, RoundsAssumption DEF Managing, Starting, Ending
<1>2. RequestsAreShaped' /\ MutexIsExclusive'
  BY <1>1, ShapeSame, OthersSame DEF Inv
<1>3. TableIsBusy' /\ (Patient => TableIsOwned')
  BY <1>1, TableSame DEF Starting, Ending
<1>4. ASSUME Calm' PROVE Undisturbed'
  <2>1. Undisturbed
    BY <1>4 DEF Inv, Calm
  <2>2. RoundRecords'
    BY <2>1 DEF Undisturbed, RoundRecords
  <2>3. RequestRecords(r)'
    <3>1. RequestRecords(r)
      BY <2>1 DEF Undisturbed
    <3>2. req'[r].pc \in {"views", "poll", "set"}
      BY DEF Starting
    <3>. QED
      BY <1>1, <3>1, <3>2 DEF RequestRecords
  <2>4. \A p, o : <<p, o>> \in live /\ Owned(p, o) => Owned(p, o)'
    BY <1>1, OwnedStays DEF Owns
  <2>. QED
    BY <1>1, <2>1, <2>2, <2>3, <2>4, RequestOnly DEF Inv
<1>. QED
  BY <1>2, <1>3, <1>4 DEF Inv

(* A request that holds nothing is answered.                               *)
LEMMA ReplyStep ==
    ASSUME Inv, NEW r \in Slots, req' = [req EXCEPT ![r] = Idle],
           ~Managing(r), ~Starting(r), Ending(r) => req[r].todo = {},
           UNCHANGED <<lockVars, mgrVars, pathVars, workers, envVars>>
    PROVE  Inv'
<1>. USE DEF lockVars, mgrVars, pathVars, envVars
<1>1. Idle \in RequestType
  BY DEF Idle, RequestType
<1>2. TypeOK'
  BY <1>1 DEF Inv, TypeOK
<1>3. req'[r] = Idle /\ \A q \in Slots : q # r => req'[q] = req[q]
  BY DEF Inv, TypeOK
<1>4. /\ req'[r].pc = "idle" /\ req'[r].owner = None /\ req'[r].stale = FALSE
      /\ ~Managing(r)' /\ ~Starting(r)' /\ ~Ending(r)'
  BY <1>3 DEF Idle, Managing, Starting, Ending
<1>5. RequestsAreShaped' /\ MutexIsExclusive'
  BY <1>3, <1>4, ShapeSame, OthersSame DEF Inv, Shape
<1>6. TableIsBusy' /\ (Patient => TableIsOwned')
  BY <1>3, <1>4, TableSame, RoundsAssumption DEF Starting, Ending
<1>7. ASSUME Calm' PROVE Undisturbed'
  <2>1. Undisturbed
    BY <1>7 DEF Inv, Calm
  <2>2. RequestRecords(r)' /\ RoundRecords'
    BY <1>4, <2>1 DEF RequestRecords, Undisturbed, RoundRecords
  <2>3. \A p, o : <<p, o>> \in live /\ Owned(p, o) => Owned(p, o)'
    BY <1>3, OwnedStays DEF Owns
  <2>. QED
    BY <1>3, <2>1, <2>2, <2>3, RequestOnly DEF Inv
<1>. QED
  BY <1>2, <1>5, <1>6, <1>7 DEF Inv

(* The first critical section of startRound: a table that is held refuses  *)
(* the request, a free one is locked for it.                               *)
LEMMA LockTableStep ==
    ASSUME Inv, NEW r \in Slots, LockTable(r), UNCHANGED used
    PROVE  Inv'
<1>. USE DEF lockVars, mgrVars, pathVars, envVars
<1>1. /\ req[r].pc = "lock" /\ req[r].kind = "start" /\ req[r].owner \in Owners
      /\ req[r].got = {} /\ req \in [Slots -> RequestType]
  BY DEF LockTable, At, Inv, TypeOK, RequestsAreShaped, Shape, OfRound
<1>2. ~Managing(r) /\ ~Starting(r) /\ ~Ending(r)
  BY <1>1 DEF Managing, Starting, Ending
<1>3. CASE active # None
  BY <1>2, <1>3, ReplyStep DEF LockTable, Reply
<1>4. CASE active = None
  <2>1. /\ active' = [owner |-> req[r].owner, paths |-> {}]
        /\ req' = [req EXCEPT ![r].pc = "views", ![r].todo = tableToPaths]
        /\ UNCHANGED <<held, mgrVars, pathVars, workers, envVars>>
    BY <1>4 DEF LockTable
  <2>2. tableToPaths \subseteq TablePaths
    BY RoundsAssumption DEF tableToPaths
  <2>3. /\ req'[r] = [req[r] EXCEPT !.pc = "views", !.todo = tableToPaths]
        /\ \A q \in Slots : q # r => req'[q] = req[q]
    BY <1>1, <2>1
  <2>4. req'[r] \in RequestType
    BY <1>1, <2>2, <2>3 DEF RequestType
  <2>5. /\ req'[r].pc = "views" /\ req'[r].kind = "start" /\ req'[r].owner = req[r].owner
        /\ req'[r].got = {} /\ req'[r].stale = req[r].stale
    BY <1>1, <2>3 DEF RequestType
  <2>6. TypeOK'
    <3>1. req' \in [Slots -> RequestType]
      BY <1>1, <2>1, <2>3, <2>4
    <3>2. active' \in [owner : Owners, paths : SUBSET TablePaths]
      BY <1>1, <2>1
    <3>. QED
      BY <2>1, <3>1, <3>2 DEF Inv, TypeOK
  <2>7. ~Managing(r)' /\ Starting(r)' /\ ~Ending(r)'
    BY <2>5 DEF Managing, Starting, Ending
  <2>8. RequestsAreShaped' /\ MutexIsExclusive'
    BY <1>1, <1>2, <2>1, <2>3, <2>5, <2>7, ShapeSame, OthersSame DEF Inv, Shape, OfRound
  <2>9. active' # None /\ active'.owner = req[r].owner /\ active'.paths = {}
    <3>1. active' \in [owner : Owners, paths : SUBSET TablePaths]
      BY <1>1, <2>1
    <3>. QED
      BY <2>1, <3>1, RoundsAssumption
  <2>10. TableIsBusy'
    BY <2>5, <2>7, <2>9 DEF TableIsBusy
  <2>11. ASSUME Patient PROVE TableIsOwned'
    <3>0. TableIsOwned
      BY <2>11 DEF Inv
    <3>1. \A q \in Slots : /\ req'[q].owner = req[q].owner
                           /\ q # r => (Starting(q)' <=> Starting(q)) /\ (Ending(q)' <=> Ending(q))
      BY <2>3, <2>5 DEF Starting, Ending
    <3>2. held' = {}
      BY <1>4, <2>1, <3>0 DEF TableIsOwned, HeldIsActive
    <3>3. \A q \in Slots : q # r => ~Starting(q)
      BY <1>4, <3>0 DEF TableIsOwned
    <3>4. \A q \in Slots : Ending(q)' => active'.owner # req'[q].owner
      BY <1>1, <2>7, <2>9, <3>0, <3>1 DEF TableIsOwned
    <3>. QED
      BY <2>5, <2>7, <2>9, <3>0, <3>1, <3>2, <3>3, <3>4 DEF TableIsOwned, HeldIsActive
  <2>12. ASSUME Calm' PROVE Undisturbed'
    <3>1. Undisturbed
      BY <2>1, <2>12 DEF Inv, Calm
    <3>2. RequestRecords(r)' /\ RoundRecords'
      BY <2>1, <2>5, <2>7, <2>9, <3>1 DEF RequestRecords, Undisturbed, RoundRecords
    <3>3. \A p, o : Owned(p, o) => Owned(p, o)'
      <4>1. \A q \in Slots : q # r => \A p, o : Owns(q, p, o) => Owns(q, p, o)'
        BY <2>3 DEF Owns, Starting, Ending, Managing
      <4>2. \A p, o : ~Owns(r, p, o)
        BY <1>2 DEF Owns
      <4>. QED
        BY <1>4, <2>1, <4>1, <4>2 DEF Owned
    <3>. QED
      BY <1>2, <2>1, <2>3, <3>1, <3>2, <3>3, RequestOnly DEF Inv
  <2>. QED
    BY <2>6, <2>8, <2>10, <2>11, <2>12 DEF Inv
<1>. QED
  BY <1>3, <1>4

(* The ingest of the view has been started.                                *)
Await(r, p) == req' = [req EXCEPT ![r].pc = "poll", ![r].cur = p]

(* A view is found, waited for, or skipped.                                *)
LEMMA ViewMoves ==
    ASSUME Inv, NEW r \in Slots, NEW p \in TablePaths,
           Starting(r), req[r].owner \in Owners, p \in req[r].todo,
           (stream[p] /\ Found(r, p)) \/ Skip(r, p) \/ Await(r, p),
           UNCHANGED <<lockVars, mgrVars, pathVars, envVars>>, workers' \subseteq Ingest
    PROVE  Inv'
<1>1. req \in [Slots -> RequestType] /\ p \in Paths /\ req[r].kind = "start"
  BY DEF Inv, TypeOK, Paths, Starting
<1>2. /\ \A q \in Slots : q # r => req'[q] = req[q]
      /\ req' \in [Slots -> RequestType]
      /\ req'[r].pc \in {"views", "poll", "set"}
      /\ req'[r].kind = "start" /\ req'[r].owner = req[r].owner /\ req'[r].got = req[r].got
      /\ req'[r].stale = req[r].stale
      /\ req'[r].pc # "views" => req'[r].cur = p /\ p \in req'[r].todo
      /\ req'[r].pc = "set" => rec[p] = None /\ stream[p]
  <2>1. CASE Skip(r, p)
    BY <1>1, <2>1 DEF Skip, RequestType
  <2>2. CASE Await(r, p)
    <3>1. /\ req'[r] = [req[r] EXCEPT !.pc = "poll", !.cur = p]
          /\ \A q \in Slots : q # r => req'[q] = req[q]
      BY <1>1, <2>2 DEF Await
    <3>2. req'[r] \in RequestType
      <4>1. [req[r] EXCEPT !.pc = "poll"] \in RequestType
        BY <1>1, RequestUpdates DEF Steps
      <4>2. [[req[r] EXCEPT !.pc = "poll"] EXCEPT !.cur = p] \in RequestType
        BY <1>1, <4>1, RequestUpdates, Zenon
      <4>. QED
        BY <3>1, <4>2, Zenon
    <3>3. req' \in [Slots -> RequestType]
      BY <1>1, <2>2, <3>1, <3>2 DEF Await
    <3>4. req'[r].pc = "poll" /\ req'[r].cur = p /\ req'[r].todo = req[r].todo
      BY <1>1, <3>1 DEF RequestType
    <3>5. /\ req'[r].kind = "start" /\ req'[r].owner = req[r].owner /\ req'[r].got = req[r].got
          /\ req'[r].stale = req[r].stale
      BY <1>1, <3>1 DEF RequestType
    <3>. QED
      BY <3>1, <3>3, <3>4, <3>5
  <2>3. CASE stream[p] /\ Found(r, p)
    <3>1. CASE rec[p] = None
      BY <1>1, <2>3, <3>1 DEF Found, RequestType
    <3>2. CASE rec[p] # None
      BY <1>1, <2>3, <3>2 DEF Found, RequestType
    <3>. QED
      BY <3>1, <3>2
  <2>. QED
    BY <2>1, <2>2, <2>3
<1>3. TypeOK'
  BY <1>2 DEF Inv, TypeOK, lockVars, mgrVars, pathVars, envVars
<1>4. Starting(r)' /\ Shape(r)'
  BY <1>2 DEF Starting, Shape, OfRound
<1>. QED
  BY <1>2, <1>3, <1>4, StartingMoves

(* resolveRecordingController, waitForIngestPath and its timeout.          *)
LEMMA StartViewStep ==
    ASSUME Inv, NEW r \in Slots, UNCHANGED used,
           Polled(r) \/ TimedOut(r) \/ \E p \in TablePaths : StartView(r, p)
    PROVE  Inv'
<1>1. Shape(r) /\ req[r].todo \subseteq TablePaths /\ workers \subseteq Ingest
  BY RequestFields DEF Inv, RequestsAreShaped, TypeOK
<1>2. CASE Polled(r)
  BY <1>1, <1>2, ViewMoves DEF Polled, At, Starting, Shape, OfRound
<1>3. CASE TimedOut(r)
  BY <1>1, <1>3, ViewMoves DEF TimedOut, At, Starting, Shape, OfRound
<1>4. ASSUME NEW p \in TablePaths, StartView(r, p) PROVE Inv'
  <2>1. Starting(r) /\ req[r].owner \in Owners /\ p \in req[r].todo
    BY <1>1, <1>4 DEF StartView, At, Starting, Shape, OfRound
  <2>2. /\ \/ stream[p] /\ Found(r, p)
           \/ Skip(r, p)
           \/ Await(r, p)
        /\ UNCHANGED <<lockVars, mgrVars, pathVars, envVars>>
        /\ workers' \subseteq Ingest
    BY <1>1, <1>4 DEF StartView, Await
  <2>. QED
    BY <2>1, <2>2, ViewMoves
<1>. QED
  BY <1>2, <1>3, <1>4

(* A request that panics, or nothing, happens.                             *)
LEMMA CrashStep ==
    ASSUME Inv, UNCHANGED <<lockVars, mgrVars, req, pathVars, workers, disturbed>>,
           crashed' \in BOOLEAN
    PROVE  Inv'
<1>. USE DEF lockVars, mgrVars, pathVars
<1>1. TypeOK'
  BY DEF Inv, TypeOK
<1>2. RequestsAreShaped' /\ MutexIsExclusive' /\ TableIsBusy' /\ (Patient => TableIsOwned')
  BY DEF Inv, RequestsAreShaped, Shape, OfRound, OfApi, MutexIsExclusive, Managing, TableIsBusy,
     Starting, TableIsOwned, Ending, HeldIsActive
<1>3. ASSUME Calm' PROVE Undisturbed'
  <2>1. Undisturbed
    BY <1>3 DEF Inv, Calm
  <2>2. RoundRecords' /\ JobsRecord' /\ \A r \in Slots : RequestRecords(r)'
    BY <2>1 DEF Undisturbed, RoundRecords, JobsRecord, Clearing, RequestRecords, Starting, Ending,
       Managing
  <2>3. RecordersBelong'
    BY <2>1 DEF Undisturbed, RecordersBelong, Owned, Owns, Starting, Ending, Managing
  <2>. QED
    BY <2>2, <2>3 DEF Undisturbed
<1>. QED
  BY <1>1, <1>2, <1>3 DEF Inv

(* A recorder is started by r on a path nobody records or is about to.     *)
LEMMA RecorderAdded ==
    ASSUME Inv, Undisturbed, NEW r \in Slots, NEW p \in Paths, NEW o \in Owners \cup {Api},
           rec[p] = None, stream[p], active # None => p \notin active.paths,
           \A q \in Slots : q # r => req'[q] = req[q] /\ ~(req[q].pc = "set" /\ req[q].cur = p),
           rec' = [rec EXCEPT ![p] = o], live' = live \cup {<<p, o>>},
           UNCHANGED <<active, job, stream, disturbed>>,
           RequestRecords(r)', Owns(r, p, o)', ~(Managing(r) /\ req[r].pc = "clear"),
           \A x, u : Owns(r, x, u) => Owns(r, x, u)'
    PROVE  Undisturbed'
<1>1. /\ \A x \in Paths : rec'[x] = IF x = p THEN o ELSE rec[x]
      /\ \A e \in live : e = <<e[1], e[2]>> /\ e[1] \in Paths /\ e[2] # None
      /\ o # None
  BY RoundsAssumption DEF Inv, TypeOK
<1>2. \A e \in live : rec[e[1]] = e[2] /\ Owned(e[1], e[2]) /\ e[1] # p
  BY <1>1 DEF Undisturbed, RecordersBelong
<1>3. ASSUME NEW q \in Slots, q # r PROVE RequestRecords(q)'
  <2>1. req'[q] = req[q] /\ RequestRecords(q) /\ Shape(q)
    BY <1>3 DEF Undisturbed, Inv, RequestsAreShaped
  <2>2. (Starting(q)' <=> Starting(q)) /\ (Ending(q)' <=> Ending(q)) /\ (Managing(q)' <=> Managing(q))
    BY <2>1 DEF Starting, Ending, Managing
  <2>3. req[q].got \subseteq Paths /\ req[q].todo \subseteq Paths /\ req[q].cur \in Paths \cup {None}
    BY RequestFields DEF Inv, Paths
  <2>4. Starting(q)' => \A x \in req'[q].got : rec'[x] = req'[q].owner /\ <<x, req'[q].owner>> \in live'
    BY <1>1, <1>2, <2>1, <2>2, <2>3 DEF RequestRecords
  <2>5. Ending(q) => req[q].owner \in Owners
    BY <2>1, RoundsAssumption DEF Ending, Shape, OfRound, OfApi
  <2>6. Ending(q) => \A x \in req[q].todo : x \in Paths /\ x # p /\ rec'[x] = rec[x]
    <3>1. Ending(q) => \A x \in req[q].todo : rec[x] = req[q].owner
      BY <2>1 DEF RequestRecords
    <3>. QED
      BY <1>1, <2>3, <2>5, <3>1, RoundsAssumption
  <2>7. Managing(q) => req[q].cur \in Paths
    BY <2>1, RoundsAssumption DEF Managing, Shape, OfRound, OfApi, Paths
  <2>8. Managing(q) /\ req[q].pc # "set" => rec[req[q].cur] = Api /\ req[q].cur # p
    BY <2>1, RoundsAssumption DEF RequestRecords
  <2>9. /\ req[q].pc \in {"insert", "close", "clear"} => Managing(q) \/ (Ending(q) /\ req[q].cur \in req[q].todo)
        /\ req[q].pc = "set" => req[q].cur \in Paths
    BY <2>1, <2>3 DEF Shape, OfRound, OfApi, Managing, Ending, Paths
  <2>10. req[q].pc \in {"insert", "close", "clear"} => req[q].cur \in Paths /\ req[q].cur # p
    BY <2>6, <2>7, <2>8, <2>9
  <2>11. req[q].pc \in {"insert", "close", "clear"} =>
            /\ rec'[req[q].cur] = rec[req[q].cur]
            /\ <<req[q].cur, rec[req[q].cur]>> \in live' <=> <<req[q].cur, rec[req[q].cur]>> \in live
    BY <1>1, <2>10
  <2>12. req[q].pc = "set" => rec'[req[q].cur] = rec[req[q].cur]
    BY <1>1, <1>3, <2>9
  <2>. QED
    BY <1>1, <2>1, <2>2, <2>4, <2>6, <2>8, <2>7, <2>11, <2>12 DEF RequestRecords
<1>4. \A q \in Slots : RequestRecords(q)'
  BY <1>3
<1>5. RoundRecords'
  <2>1. active # None => active.paths \subseteq Paths
    BY DEF Inv, TypeOK, Paths
  <2>. QED
    BY <1>1, <2>1 DEF Undisturbed, RoundRecords
<1>6. JobsRecord'
  <2>1. \A x : Clearing(x) => Clearing(x)'
    BY DEF Clearing, Managing
  <2>. QED
    BY <1>1, <2>1, RoundsAssumption DEF Undisturbed, JobsRecord
<1>7. RecordersBelong'
  <2>1. \A x, u : Owned(x, u) => Owned(x, u)'
    <3>1. \A q \in Slots : q # r => \A x, u : Owns(q, x, u) => Owns(q, x, u)'
      BY DEF Owns, Starting, Ending, Managing
    <3>. QED
      BY <3>1 DEF Owned
  <2>2. Owned(p, o)'
    BY DEF Owned
  <2>. QED
    BY <1>1, <1>2, <2>1, <2>2 DEF RecordersBelong
<1>. QED
  BY <1>4, <1>5, <1>6, <1>7 DEF Undisturbed

(* pa.startRecording, for a round and for the manager.                     *)
LEMMA StartRecordingStep ==
    ASSUME Inv, NEW r \in Slots, StartRecording(r), UNCHANGED used
    PROVE  Inv'
<1>0. CASE req[r].stale
  BY <1>0, CrashStep, RequestFields DEF StartRecording, pathVars, Inv
<1>1. CASE ~req[r].stale
  <2>1. PICK p, o : p = req[r].cur /\ o = req[r].owner
    OBVIOUS
  <2>2. /\ req[r].pc = "set" /\ rec' = [rec EXCEPT ![p] = o] /\ live' = live \cup {<<p, o>>}
        /\ IF o = Api THEN Go(r, "insert")
           ELSE req' = [req EXCEPT ![r].pc = "views", ![r].cur = None, ![r].todo = @ \ {p},
                                   ![r].got = @ \cup {p}]
        /\ UNCHANGED <<lockVars, mgrVars, stream, loop, workers, disturbed>>
        /\ crashed' \in BOOLEAN
    BY <1>1, <2>1, RequestFields DEF StartRecording, At, Inv
  <2>3. Shape(r) /\ req \in [Slots -> RequestType] /\ req[r] \in RequestType
    BY DEF Inv, RequestsAreShaped, TypeOK
  <2>4. CASE o = Api
    <3>1. OfApi(r) /\ req[r].kind = "apiStart" /\ p \in ApiPaths /\ p \in Paths
      BY <2>1, <2>2, <2>3, <2>4, RoundsAssumption DEF Shape, OfRound, OfApi, Paths
    <3>4. /\ req' \in [Slots -> RequestType] /\ \A q \in Slots : q # r => req'[q] = req[q]
          /\ req'[r].pc = "insert" /\ req'[r].kind = req[r].kind /\ req'[r].owner = req[r].owner
          /\ req'[r].todo = req[r].todo /\ req'[r].got = req[r].got /\ req'[r].cur = req[r].cur
          /\ req'[r].stale = req[r].stale
      BY <2>2, <2>4, GoesOn DEF Steps, Inv
    <3>5. /\ req'[r].pc = "insert" /\ req'[r].kind = "apiStart" /\ req'[r].owner = Api
          /\ req'[r].todo = {} /\ req'[r].got = {} /\ req'[r].cur = p /\ req'[r].stale = req[r].stale
      BY <2>1, <3>1, <3>4 DEF OfApi
    <3>6. TypeOK'
      <4>1. rec' \in [Paths -> Owners \cup {Api, None}] /\ live' \subseteq Paths \X (Owners \cup {Api})
        BY <2>2, <2>4, <3>1 DEF Inv, TypeOK
      <4>. QED
        BY <2>2, <3>4, <4>1 DEF Inv, TypeOK, lockVars, mgrVars
    <3>7. Managing(r) /\ Managing(r)' /\ ~Starting(r) /\ ~Starting(r)' /\ ~Ending(r) /\ ~Ending(r)'
      BY <2>1, <2>2, <2>4, <3>1, <3>5 DEF Managing, Starting, Ending
    <3>8. RequestsAreShaped' /\ MutexIsExclusive'
      BY <2>2, <3>1, <3>4, <3>5, <3>7, ShapeSame, OthersSame DEF Inv, Shape, OfApi, mgrVars
    <3>9. TableIsBusy' /\ (Patient => TableIsOwned')
      BY <2>1, <2>2, <2>4, <3>4, <3>5, <3>7, TableSame DEF Starting, Ending
    <3>10. ASSUME Calm' PROVE Undisturbed'
      <4>1. Undisturbed /\ TablePaths \cap ApiPaths = {}
        BY <2>2, <3>10 DEF Inv, Calm
      <4>2. rec[p] = None /\ stream[p] /\ job[p] = "no"
        BY <2>1, <2>2, <3>1, <3>7, <4>1 DEF Undisturbed, RequestRecords
      <4>3. active # None => p \notin active.paths
        BY <3>1, <4>1 DEF Inv, TypeOK
      <4>4. ASSUME NEW q \in Slots, q # r PROVE ~(req[q].pc = "set" /\ req[q].cur = p)
        <5>1. Shape(q) /\ req[q].todo \subseteq TablePaths
          BY RequestFields DEF Inv, RequestsAreShaped
        <5>2. ~Managing(q)
          BY <3>7, <4>4 DEF Inv, MutexIsExclusive
        <5>. QED
          BY <3>1, <4>1, <5>1, <5>2 DEF Shape, OfApi, Managing
      <4>5. RequestRecords(r)'
        BY <1>1, <2>2, <2>4, <3>1, <3>5, <3>7, <4>2 DEF RequestRecords, mgrVars, Inv, TypeOK
      <4>6. Owns(r, p, o)' /\ \A x, u : Owns(r, x, u) => Owns(r, x, u)'
        BY <2>1, <2>4, <3>5, <3>7 DEF Owns
      <4>. QED
        BY <2>2, <2>4, <3>1, <3>4, <4>1, <4>2, <4>3, <4>4, <4>5, <4>6, RecorderAdded
           DEF lockVars, mgrVars
    <3>. QED
      BY <3>6, <3>8, <3>9, <3>10 DEF Inv
  <2>5. CASE o # Api
    <3>1. OfRound(r, "start") /\ p \in req[r].todo /\ p \in TablePaths /\ o \in Owners
      BY <2>1, <2>2, <2>3, <2>5, RequestFields DEF Shape, OfRound, OfApi, Inv
    <3> DEFINE y == [req[r] EXCEPT !.pc = "views", !.cur = None, !.todo = req[r].todo \ {p},
                                   !.got = req[r].got \cup {p}]
    <3>2. req' = [req EXCEPT ![r] = y]
      BY <2>2, <2>3, <2>5
    <3>3. /\ y \in RequestType /\ y.pc = "views" /\ y.kind = "start" /\ y.owner = o /\ y.cur = None
          /\ y.got = req[r].got \cup {p} /\ y.stale = req[r].stale
      BY <2>1, <2>3, <3>1 DEF RequestType, OfRound
    <3>. HIDE DEF y
    <3>4. req' \in [Slots -> RequestType] /\ req'[r] = y /\ \A q \in Slots : q # r => req'[q] = req[q]
      BY <3>2, <3>3, Replaced, Zenon DEF Inv
    <3>6. TypeOK'
      <4>1. rec' \in [Paths -> Owners \cup {Api, None}] /\ live' \subseteq Paths \X (Owners \cup {Api})
        BY <2>2, <3>1 DEF Inv, TypeOK, Paths
      <4>. QED
        BY <2>2, <3>4, <4>1 DEF Inv, TypeOK, lockVars, mgrVars
    <3>7. ~Managing(r) /\ ~Managing(r)' /\ Starting(r) /\ Starting(r)' /\ ~Ending(r) /\ ~Ending(r)'
      BY <2>1, <2>2, <2>5, <3>1, <3>3, <3>4 DEF Managing, Starting, Ending, OfRound
    <3>8. RequestsAreShaped' /\ MutexIsExclusive'
      BY <2>2, <3>1, <3>3, <3>4, <3>7, ShapeSame, OthersSame DEF Inv, Shape, OfRound, mgrVars
    <3>9. TableIsBusy' /\ (Patient => TableIsOwned')
      BY <2>1, <2>2, <3>3, <3>4, <3>7, TableSame DEF Starting, Ending
    <3>10. ASSUME Calm' PROVE Undisturbed'
      <4>1. Undisturbed /\ TablePaths \cap ApiPaths = {} /\ TableIsOwned
        BY <2>2, <3>10 DEF Inv, Calm
      <4>2. rec[p] = None /\ stream[p]
        BY <2>1, <2>2, <4>1 DEF Undisturbed, RequestRecords
      <4>3. active # None => p \notin active.paths
        BY <3>7, <4>1 DEF TableIsOwned
      <4>4. ASSUME NEW q \in Slots, q # r PROVE ~(req[q].pc = "set" /\ req[q].cur = p)
        <5>1. Shape(q)
          BY DEF Inv, RequestsAreShaped
        <5>2. ~Starting(q)
          <6>1. Starting(q) => req[q].owner = o
            BY <2>1, <3>7, <4>1 DEF TableIsOwned
          <6>2. \A q1, q2 \in Slots : req[q1].owner \in Owners /\ req[q1].owner = req[q2].owner => q1 = q2
            BY <4>1 DEF TableIsOwned
          <6>. QED
            BY <2>1, <3>1, <4>4, <6>1, <6>2
        <5>. QED
          BY <3>1, <4>1, <5>1, <5>2 DEF Shape, OfApi, OfRound, Starting
      <4>5. RequestRecords(r)'
        <5>1. RequestRecords(r)
          BY <4>1 DEF Undisturbed
        <5>2. \A x \in req[r].got : rec[x] = o /\ <<x, o>> \in live
          BY <2>1, <3>7, <5>1 DEF RequestRecords
        <5>3. \A x \in req'[r].got : rec'[x] = o /\ <<x, o>> \in live'
          <6>1. req[r].got \subseteq Paths /\ p \in Paths
            BY <3>1, RequestFields DEF Inv, Paths
          <6>. QED
            BY <2>2, <3>3, <3>4, <5>2, <6>1 DEF Inv, TypeOK
        <5>. QED
          BY <1>1, <3>3, <3>4, <3>7, <5>3 DEF RequestRecords
      <4>6. Owns(r, p, o)' /\ \A x, u : Owns(r, x, u) => Owns(r, x, u)'
        BY <2>1, <3>3, <3>4, <3>7 DEF Owns
      <4>7. p \in Paths /\ o \in Owners \cup {Api}
        BY <3>1 DEF Paths
      <4>. QED
        BY <2>2, <3>4, <3>7, <4>1, <4>2, <4>3, <4>4, <4>5, <4>6, <4>7, RecorderAdded
           DEF lockVars, mgrVars
    <3>. QED
      BY <3>6, <3>8, <3>9, <3>10 DEF Inv
  <2>. QED
    BY <2>4, <2>5
<1>. QED
  BY <1>0, <1>1, RequestFields DEF Inv

(* A request that has been answered.                                       *)
LEMMA Answered ==
    ASSUME TypeOK, NEW r \in Slots, Reply(r)
    PROVE  /\ req' \in [Slots -> RequestType] /\ \A q \in Slots : q # r => req'[q] = req[q]
           /\ req'[r] = Idle /\ req'[r].pc = "idle" /\ req'[r].owner = None /\ ~req'[r].stale
           /\ ~Managing(r)' /\ ~Starting(r)' /\ ~Ending(r)' /\ Shape(r)' /\ RequestRecords(r)'
<1>1. Idle \in RequestType
  BY DEF Idle, RequestType
<1>2. /\ req' \in [Slots -> RequestType] /\ \A q \in Slots : q # r => req'[q] = req[q]
      /\ req'[r] = Idle
  BY <1>1 DEF TypeOK, Reply
<1>3. /\ req'[r].pc = "idle" /\ req'[r].owner = None /\ ~req'[r].stale
      /\ ~Managing(r)' /\ ~Starting(r)' /\ ~Ending(r)'
  BY <1>2 DEF Idle, Managing, Starting, Ending
<1>4. Shape(r)' /\ RequestRecords(r)'
  BY <1>2, <1>3 DEF Shape, RequestRecords
<1>. QED
  BY <1>2, <1>3, <1>4

(* The last critical section of startRound.                                *)
LEMMA FinishStartStep ==
    ASSUME Inv, NEW r \in Slots, FinishStart(r), UNCHANGED used
    PROVE  Inv'
<1>. USE DEF lockVars, mgrVars, pathVars, envVars
<1>1. PICK o, got : o = req[r].owner /\ got = req[r].got
  OBVIOUS
<1>2. /\ req[r].pc = "views" /\ Starting(r) /\ ~Ending(r) /\ o \in Owners /\ got \subseteq TablePaths
      /\ ~Managing(r)
  BY <1>1, RequestFields, OwnersAreNotApi
     DEF FinishStart, At, Inv, RequestsAreShaped, Shape, OfRound, Starting, Ending
<1>3. /\ req' \in [Slots -> RequestType] /\ \A q \in Slots : q # r => req'[q] = req[q]
      /\ req'[r].owner = None /\ ~Managing(r)' /\ ~Starting(r)' /\ ~Ending(r)'
      /\ Shape(r)' /\ RequestRecords(r)'
  BY Answered DEF FinishStart, Inv
<1>4. /\ active' = IF got = {} THEN None ELSE [owner |-> o, paths |-> got]
      /\ held' = IF got = {} THEN held ELSE held \cup {o}
      /\ UNCHANGED <<mgrVars, pathVars, workers, envVars>>
  BY <1>1 DEF FinishStart
<1>5. got # {} => /\ active' \in [owner : Owners, paths : SUBSET TablePaths]
                  /\ active'.owner = o /\ active'.paths = got /\ active' # None
  <2>1. [owner |-> o, paths |-> got] \in [owner : Owners, paths : SUBSET TablePaths]
    BY <1>2
  <2>. QED
    BY <1>4, <2>1, RoundsAssumption
<1>6. TypeOK'
  BY <1>2, <1>3, <1>4, <1>5 DEF Inv, TypeOK
<1>7. RequestsAreShaped' /\ MutexIsExclusive'
  BY <1>2, <1>3, <1>4, ShapeSame, OthersSame DEF Inv
<1>8. TableIsBusy'
  BY <1>4, <1>5 DEF TableIsBusy
<1>9. \A q \in Slots : q # r => (Starting(q)' <=> Starting(q)) /\ (Ending(q)' <=> Ending(q))
  BY <1>3 DEF Starting, Ending
<1>10. ASSUME Patient PROVE TableIsOwned'
  <2>0. TableIsOwned
    BY <1>10 DEF Inv
  <2>1. active # None /\ active.owner = o /\ active.paths = {} /\ held = {}
    BY <1>1, <1>2, <2>0 DEF TableIsOwned, HeldIsActive
  <2>2. \A q1, q2 \in Slots : req[q1].owner \in Owners /\ req[q1].owner = req[q2].owner => q1 = q2
    BY <2>0 DEF TableIsOwned
  <2>3. \A q \in Slots : q # r => req'[q] = req[q] /\ req[q].owner # o
    BY <1>1, <1>2, <1>3, <2>2
  <2>4. \A q \in Slots : ~Starting(q)'
    BY <1>3, <1>9, <2>0, <2>1, <2>3 DEF TableIsOwned
  <2>5. \A q \in Slots : Ending(q)' => active' = None \/ active'.owner # req'[q].owner
    BY <1>3, <1>4, <1>5, <2>3
  <2>6. \A q1, q2 \in Slots : req'[q1].owner \in Owners /\ req'[q1].owner = req'[q2].owner => q1 = q2
    BY <1>3, <2>2, RoundsAssumption
  <2>7. HeldIsActive'
    BY <1>4, <1>5, <2>1 DEF HeldIsActive
  <2>. QED
    BY <2>4, <2>5, <2>6, <2>7 DEF TableIsOwned
<1>11. ASSUME Calm' PROVE Undisturbed'
  <2>1. Undisturbed /\ TableIsOwned
    BY <1>4, <1>11 DEF Inv, Calm
  <2>2. active # None /\ active.paths = {}
    BY <1>2, <2>1 DEF TableIsOwned
  <2>3. \A p \in got : rec[p] = o /\ <<p, o>> \in live
    BY <1>1, <1>2, <2>1 DEF Undisturbed, RequestRecords
  <2>4. RoundRecords'
    BY <1>4, <1>5, <2>3 DEF RoundRecords
  <2>5. \A p, u : Owned(p, u) => Owned(p, u)'
    <3>1. \A q \in Slots : q # r => \A p, u : Owns(q, p, u) => Owns(q, p, u)'
      BY <1>3 DEF Owns, Starting, Ending, Managing
    <3>2. \A p, u : Owns(r, p, u) => u = o /\ p \in got
      BY <1>1, <1>2 DEF Owns
    <3>3. \A p \in got : Owned(p, o)'
      BY <1>5 DEF Owned
    <3>4. \A p, u : Owned(p, u) => (u = Api /\ job[p] = "current") \/ \E q \in Slots : Owns(q, p, u)
      BY <2>2 DEF Owned
    <3>5. \A p, u : (\E q \in Slots : q # r /\ Owns(q, p, u)) => Owned(p, u)'
      BY <3>1 DEF Owned
    <3>6. \A p, u : (u = Api /\ job[p] = "current") => Owned(p, u)'
      BY <1>4 DEF Owned
    <3>. QED
      BY <3>2, <3>3, <3>4, <3>5, <3>6
  <2>. QED
    BY <1>2, <1>3, <1>4, <2>1, <2>4, <2>5, RequestOnly DEF Inv
<1>. QED
  BY <1>6, <1>7, <1>8, <1>10, <1>11 DEF Inv

(***************************************************************************)
(* Round end.                                                              *)
(***************************************************************************)
(* The critical section of stopRound: only the owner of the round passes.  *)
LEMMA UnlockTableStep ==
    ASSUME Inv, NEW r \in Slots, UnlockTable(r), UNCHANGED used
    PROVE  Inv'
<1>. USE DEF lockVars, mgrVars, pathVars, envVars
<1>1. PICK o : o = req[r].owner
  OBVIOUS
<1>2. /\ req[r].pc = "lock" /\ req[r].kind = "end" /\ o \in Owners /\ req[r] \in RequestType
      /\ req \in [Slots -> RequestType]
  BY <1>1, RoundsAssumption DEF UnlockTable, At, Inv, TypeOK, RequestsAreShaped, Shape, OfRound
<1>3. ~Managing(r) /\ ~Starting(r) /\ ~Ending(r)
  BY <1>2 DEF Managing, Starting, Ending
<1>4. CASE active = None \/ active.owner # o
  BY <1>1, <1>3, <1>4, ReplyStep DEF UnlockTable, Reply
<1>5. CASE active # None /\ active.owner = o
  <2>1. PICK S : S = active.paths /\ S \in SUBSET TablePaths
    BY <1>5 DEF Inv, TypeOK
  <2>2. /\ active' = None /\ held' = held \ {o}
        /\ req' = [req EXCEPT ![r].pc = "ending", ![r].todo = S]
        /\ UNCHANGED <<mgrVars, pathVars, workers, envVars>>
    BY <1>1, <1>5, <2>1 DEF UnlockTable
  <2>3. PICK y, z : y = [req[r] EXCEPT !.pc = "ending"] /\ z = [y EXCEPT !.todo = S]
    OBVIOUS
  <2>4. /\ y \in RequestType /\ y.pc = "ending" /\ y.kind = req[r].kind /\ y.owner = req[r].owner
        /\ y.stale = req[r].stale
    BY <1>2, <2>3, MovedOn, Zenon DEF Steps
  <2>5. /\ z \in RequestType /\ z.pc = y.pc /\ z.kind = y.kind /\ z.owner = y.owner /\ z.todo = S
        /\ z.stale = y.stale
    BY <2>1, <2>3, <2>4, TodoSet, Zenon
  <2>6. req' = [req EXCEPT ![r] = z]
    BY <1>2, <2>2, <2>3
  <2>7. req' \in [Slots -> RequestType] /\ req'[r] = z /\ \A q \in Slots : q # r => req'[q] = req[q]
    BY <2>5, <2>6, Replaced, Zenon DEF Inv
  <2>8. /\ req'[r].pc = "ending" /\ req'[r].kind = "end" /\ req'[r].owner = o /\ req'[r].todo = S
        /\ req'[r].stale = req[r].stale
    BY <1>1, <1>2, <2>4, <2>5, <2>7
  <2>9. ~Managing(r)' /\ ~Starting(r)' /\ Ending(r)' /\ Shape(r)'
    BY <1>2, <2>8, RoundsAssumption DEF Managing, Starting, Ending, Shape, OfRound
  <2>10. TypeOK'
    BY <2>2, <2>7 DEF Inv, TypeOK
  <2>11. RequestsAreShaped' /\ MutexIsExclusive' /\ TableIsBusy'
    BY <1>3, <2>2, <2>7, <2>9, ShapeSame, OthersSame DEF Inv, TableIsBusy
  <2>12. ASSUME Patient PROVE TableIsOwned'
    <3>0. TableIsOwned
      BY <2>12 DEF Inv
    <3>1. \A q1, q2 \in Slots : req[q1].owner \in Owners /\ req[q1].owner = req[q2].owner => q1 = q2
      BY <3>0 DEF TableIsOwned
    <3>2. \A q \in Slots : ~Starting(q)'
      <4>1. \A q \in Slots : q # r => (Starting(q)' <=> Starting(q))
        BY <2>7 DEF Starting
      <4>2. \A q \in Slots : Starting(q) => req[q].owner = o
        BY <1>5, <3>0 DEF TableIsOwned
      <4>. QED
        BY <1>1, <1>2, <2>9, <3>1, <4>1, <4>2
    <3>3. HeldIsActive'
      BY <1>5, <2>2, <3>0 DEF TableIsOwned, HeldIsActive
    <3>4. \A q \in Slots : req'[q].owner = req[q].owner
      BY <1>1, <2>7, <2>8
    <3>5. active' = None
      BY <2>2
    <3>6. \A q1, q2 \in Slots : req'[q1].owner \in Owners /\ req'[q1].owner = req'[q2].owner => q1 = q2
      BY <3>1, <3>4
    <3>. QED
      BY <3>2, <3>3, <3>5, <3>6 DEF TableIsOwned
  <2>13. ASSUME Calm' PROVE Undisturbed'
    <3>1. Undisturbed
      BY <2>2, <2>13 DEF Inv, Calm
    <3>2. RoundRecords'
      BY <2>2 DEF RoundRecords
    <3>3. \A p \in S : rec[p] = o /\ <<p, o>> \in live
      BY <1>5, <2>1, <2>2, <2>13, <3>1 DEF Undisturbed, RoundRecords, Calm
    <3>4. RequestRecords(r)'
      <4>1. ~req'[r].stale
        BY <2>8, <3>1 DEF RequestRecords, Undisturbed
      <4>2. UNCHANGED <<rec, live>>
        BY <2>2
      <4>. QED
        BY <2>8, <2>9, <3>3, <4>1, <4>2 DEF RequestRecords
    <3>5. \A p, u : Owned(p, u) => Owned(p, u)'
      <4>1. \A q \in Slots : \A p, u : Owns(q, p, u) => Owns(q, p, u)'
        BY <1>3, <2>7 DEF Owns, Starting, Ending, Managing
      <4>2. \A p \in S : Owns(r, p, o)'
        BY <2>8, <2>9 DEF Owns
      <4>. QED
        BY <1>5, <2>1, <2>2, <4>1, <4>2 DEF Owned
    <3>. QED
      BY <1>3, <2>2, <2>7, <3>1, <3>2, <3>4, <3>5, RequestOnly DEF Inv
  <2>. QED
    BY <2>10, <2>11, <2>12, <2>13 DEF Inv
<1>. QED
  BY <1>4, <1>5

(* A round end on its way through its views: the table is not concerned.   *)
LEMMA EndingMoves ==
    ASSUME Inv, NEW r \in Slots, \A q \in Slots : q # r => req'[q] = req[q],
           Ending(r), Ending(r)', Shape(r)', req[r].owner \in Owners,
           req'[r].owner = req[r].owner, UNCHANGED <<lockVars, mu>>
    PROVE  RequestsAreShaped' /\ MutexIsExclusive' /\ TableIsBusy' /\ (Patient => TableIsOwned')
<1>1. ~Managing(r) /\ ~Managing(r)' /\ ~Starting(r) /\ ~Starting(r)'
  BY RoundsAssumption DEF Managing, Starting, Ending
<1>2. RequestsAreShaped' /\ MutexIsExclusive'
  BY <1>1, ShapeSame, OthersSame DEF Inv
<1>3. TableIsBusy' /\ (Patient => TableIsOwned')
  BY <1>1, TableSame DEF Starting, Ending
<1>. QED
  BY <1>2, <1>3

(* Who ends a round that recorded a view finds the view published.         *)
LEMMA EndViewStep ==
    ASSUME Inv, NEW r \in Slots, NEW p \in TablePaths, EndView(r, p), UNCHANGED used
    PROVE  Inv'
<1>. USE DEF lockVars, mgrVars, pathVars, envVars
<1>1. /\ req[r].pc = "ending" /\ p \in req[r].todo /\ Shape(r) /\ req[r] \in RequestType
      /\ req \in [Slots -> RequestType]
      /\ UNCHANGED <<lockVars, mgrVars, pathVars, workers, envVars>>
  BY DEF EndView, At, Inv, TypeOK, RequestsAreShaped
<1>2. PICK y, z : y = [req[r] EXCEPT !.pc = "close"] /\ z = [y EXCEPT !.cur = p]
  OBVIOUS
<1>3. PICK w : w = [req[r] EXCEPT !.todo = req[r].todo \ {p}]
  OBVIOUS
<1>4. /\ y \in RequestType /\ y.pc = "close" /\ y.kind = req[r].kind /\ y.owner = req[r].owner
      /\ y.todo = req[r].todo /\ y.stale = req[r].stale
  BY <1>1, <1>2, MovedOn, Zenon DEF Steps
<1>5. p \in Paths \cup {None} /\ req[r].todo \ {p} \in SUBSET TablePaths
  BY <1>1, RequestFields DEF Paths, Inv
<1>6. /\ z \in RequestType /\ z.pc = y.pc /\ z.kind = y.kind /\ z.owner = y.owner /\ z.todo = y.todo
      /\ z.cur = p /\ z.stale = y.stale
  BY <1>2, <1>4, <1>5, MovedTo, Zenon
<1>7. /\ w \in RequestType /\ w.pc = "ending" /\ w.kind = req[r].kind /\ w.owner = req[r].owner
      /\ w.stale = req[r].stale
  BY <1>1, <1>3, <1>5, TodoSet, Zenon
<1>8. \/ stream[p] /\ req' = [req EXCEPT ![r] = z]
      \/ ~stream[p] /\ req' = [req EXCEPT ![r] = w]
  BY <1>1, <1>2, <1>3 DEF EndView
<1>9. PICK x : x \in {z, w} /\ req' = [req EXCEPT ![r] = x] /\ (x = z \/ ~stream[p])
  BY <1>8
<1>10. /\ req' \in [Slots -> RequestType] /\ req'[r] = x /\ \A q \in Slots : q # r => req'[q] = req[q]
  BY <1>6, <1>7, <1>9, Replaced, Zenon DEF Inv
<1>11. Ending(r) /\ Ending(r)' /\ req[r].owner \in Owners /\ req'[r].owner = req[r].owner /\ Shape(r)'
  BY <1>1, <1>4, <1>6, <1>7, <1>9, <1>10 DEF Ending, Shape, OfRound
<1>12. TypeOK'
  BY <1>1, <1>10 DEF Inv, TypeOK
<1>13. RequestsAreShaped' /\ MutexIsExclusive' /\ TableIsBusy' /\ (Patient => TableIsOwned')
  BY <1>1, <1>10, <1>11, EndingMoves
<1>14. ASSUME Calm' PROVE Undisturbed'
  <2>1. Undisturbed
    BY <1>1, <1>14 DEF Inv, Calm
  <2>2. \A v \in req[r].todo : rec[v] = req[r].owner /\ <<v, req[r].owner>> \in live
    BY <1>1, <1>11, <2>1 DEF Undisturbed, RequestRecords
  <2>3. x = z
    <3>1. p \in Paths /\ rec[p] # None
      BY <1>1, <1>11, <2>2, RoundsAssumption DEF Paths
    <3>. QED
      BY <1>9, <2>1, <3>1 DEF Undisturbed, JobsRecord
  <2>4. /\ req'[r].pc = "close" /\ req'[r].cur = p /\ req'[r].todo = req[r].todo
        /\ req'[r].stale = req[r].stale
    BY <1>4, <1>6, <1>10, <2>3
  <2>5. ~Managing(r) /\ ~Managing(r)' /\ ~Starting(r) /\ ~Starting(r)'
    BY <1>11, RoundsAssumption DEF Managing, Starting, Ending
  <2>6. RequestRecords(r)'
    <3>1. ~req'[r].stale
      BY <2>1, <2>4 DEF Undisturbed, RequestRecords
    <3>. QED
      BY <1>1, <1>11, <2>2, <2>4, <2>5, <3>1 DEF RequestRecords
  <2>7. RoundRecords'
    BY <1>1, <2>1 DEF Undisturbed, RoundRecords
  <2>8. \A v, u : <<v, u>> \in live /\ Owned(v, u) => Owned(v, u)'
    <3>1. \A v, u : <<v, u>> \in live /\ Owns(r, v, u) => Owns(r, v, u)'
      BY <1>11, <2>4, <2>5 DEF Owns
    <3>. QED
      BY <1>1, <1>10, <3>1, OwnedStays
  <2>. QED
    BY <1>1, <1>10, <2>1, <2>5, <2>6, <2>7, <2>8, RequestOnly DEF Inv
<1>. QED
  BY <1>12, <1>13, <1>14 DEF Inv

LEMMA FinishEndStep ==
    ASSUME Inv, NEW r \in Slots, FinishEnd(r), UNCHANGED used
    PROVE  Inv'
<1>1. req[r].pc = "ending" /\ req[r].todo = {} /\ Shape(r)
  BY DEF FinishEnd, At, Inv, RequestsAreShaped
<1>2. ~Managing(r) /\ ~Starting(r)
  BY <1>1 DEF Managing, Starting
<1>. QED
  BY <1>1, <1>2, ReplyStep DEF FinishEnd, Reply

(***************************************************************************)
(* Recordings of single paths.                                             *)
(***************************************************************************)
(* A request of the manager has nothing to do with the table.              *)
LEMMA ManagerMoves ==
    ASSUME Inv, NEW r \in Slots, OfApi(r), \A q \in Slots : q # r => req'[q] = req[q],
           req'[r].owner \notin Owners, ~Starting(r)', ~Ending(r)', UNCHANGED lockVars
    PROVE  TableIsBusy' /\ (Patient => TableIsOwned')
<1>1. ~Starting(r) /\ ~Ending(r)
  BY DEF OfApi, Starting, Ending
<1>. QED
  BY <1>1, TableSame DEF Starting, Ending

LEMMA MgrStartStep ==
    ASSUME Inv, NEW r \in Slots, MgrStart(r), UNCHANGED used
    PROVE  Inv'
<1>. USE DEF lockVars, mgrVars, pathVars, envVars
<1>1. PICK p : p = req[r].cur
  OBVIOUS
<1>2. /\ req[r].pc = "mutex" /\ req[r].kind = "apiStart" /\ mu = None /\ OfApi(r) /\ p \in ApiPaths
  BY <1>1 DEF MgrStart, At, Inv, RequestsAreShaped, Shape, OfApi
<1>3. ~Managing(r) /\ ~Starting(r) /\ ~Ending(r) /\ \A q \in Slots : ~Managing(q)
  BY <1>2, RoundsAssumption DEF Managing, Starting, Ending, Inv, MutexIsExclusive
<1>4. CASE ~(stream[p] /\ job[p] = "no" /\ rec[p] = None)
  BY <1>1, <1>3, <1>4, ReplyStep DEF MgrStart, Reply
<1>5. CASE stream[p] /\ job[p] = "no" /\ rec[p] = None
  <2>1. mu' = r /\ Go(r, "set") /\ UNCHANGED <<lockVars, job, pathVars, workers, envVars>>
    BY <1>1, <1>5 DEF MgrStart
  <2>2. /\ req' \in [Slots -> RequestType] /\ \A q \in Slots : q # r => req'[q] = req[q]
        /\ req'[r].pc = "set" /\ req'[r].kind = req[r].kind /\ req'[r].owner = req[r].owner
        /\ req'[r].todo = req[r].todo /\ req'[r].got = req[r].got /\ req'[r].cur = req[r].cur
        /\ req'[r].stale = req[r].stale
    BY <2>1, GoesOn DEF Steps, Inv
  <2>3. TypeOK'
    BY <2>1, <2>2 DEF Inv, TypeOK
  <2>4. Managing(r)' /\ ~Starting(r)' /\ ~Ending(r)' /\ Shape(r)' /\ req'[r].owner = Api
    BY <1>2, <2>2 DEF Managing, Starting, Ending, Shape, OfApi
  <2>5. RequestsAreShaped' /\ TableIsBusy' /\ (Patient => TableIsOwned')
    BY <1>2, <2>1, <2>2, <2>4, ShapeSame, ManagerMoves, RoundsAssumption DEF Inv
  <2>6. MutexIsExclusive'
    <3>1. \A q \in Slots : q # r => ~Managing(q)'
      BY <1>3, <2>2 DEF Managing
    <3>. QED
      BY <2>1, <2>4, <3>1 DEF MutexIsExclusive
  <2>7. ASSUME Calm' PROVE Undisturbed'
    <3>1. Undisturbed
      BY <2>1, <2>7 DEF Inv, Calm
    <3>2. RoundRecords'
      BY <2>1, <3>1 DEF Undisturbed, RoundRecords
    <3>3. RequestRecords(r)'
      <4>1. ~req'[r].stale
        BY <2>2, <3>1 DEF Undisturbed, RequestRecords
      <4>. QED
        BY <1>1, <1>5, <2>1, <2>2, <2>4, <4>1 DEF RequestRecords
    <3>4. \A v, u : <<v, u>> \in live /\ Owned(v, u) => Owned(v, u)'
      <4>1. \A v, u : <<v, u>> \in live /\ Owns(r, v, u) => Owns(r, v, u)'
        BY <1>3 DEF Owns
      <4>. QED
        BY <2>1, <2>2, <4>1, OwnedStays
    <3>. QED
      BY <1>3, <2>1, <2>2, <3>1, <3>2, <3>3, <3>4, RequestOnly DEF Inv
  <2>. QED
    BY <2>3, <2>5, <2>6, <2>7 DEF Inv
<1>. QED
  BY <1>4, <1>5

LEMMA MgrStopStep ==
    ASSUME Inv, NEW r \in Slots, MgrStop(r), UNCHANGED used
    PROVE  Inv'
<1>. USE DEF lockVars, mgrVars, pathVars, envVars
<1>1. PICK p : p = req[r].cur
  OBVIOUS
<1>2. /\ req[r].pc = "mutex" /\ req[r].kind = "apiStop" /\ mu = None /\ OfApi(r) /\ p \in ApiPaths
      /\ p \in Paths /\ req[r] \in RequestType /\ req \in [Slots -> RequestType]
  BY <1>1 DEF MgrStop, At, Inv, RequestsAreShaped, Shape, OfApi, Paths, TypeOK
<1>3. ~Managing(r) /\ ~Starting(r) /\ ~Ending(r) /\ \A q \in Slots : ~Managing(q)
  BY <1>2, RoundsAssumption DEF Managing, Starting, Ending, Inv, MutexIsExclusive
<1>4. CASE job[p] = "no"
  BY <1>1, <1>3, <1>4, ReplyStep DEF MgrStop, Reply
<1>5. CASE job[p] # "no"
  <2>0. PICK b : b \in BOOLEAN /\ (b <=> job[p] = "stale") /\ b = (job[p] = "stale")
    OBVIOUS
  <2>1. /\ mu' = r /\ req' = [req EXCEPT ![r].pc = "close", ![r].stale = b]
        /\ UNCHANGED <<lockVars, job, pathVars, workers, envVars>>
    BY <1>1, <1>5, <2>0 DEF MgrStop
  <2>2. PICK y, z : y = [req[r] EXCEPT !.pc = "close"] /\ z = [y EXCEPT !.stale = b]
    OBVIOUS
  <2>3. /\ y \in RequestType /\ y.pc = "close" /\ y.kind = req[r].kind /\ y.owner = req[r].owner
        /\ y.todo = req[r].todo /\ y.got = req[r].got /\ y.cur = req[r].cur
    BY <1>2, <2>2, MovedOn, Zenon DEF Steps
  <2>4. /\ z \in RequestType /\ z.pc = y.pc /\ z.kind = y.kind /\ z.owner = y.owner
        /\ z.todo = y.todo /\ z.got = y.got /\ z.cur = y.cur /\ z.stale = b
    <3>1. b \in BOOLEAN
      BY <2>0
    <3>2. y \in RequestType /\ z = [y EXCEPT !.stale = b]
      BY <2>2, <2>3
    <3>. QED
      BY <3>1, <3>2, StaleSet
  <2>5. req' = [req EXCEPT ![r] = z]
    BY <1>2, <2>1, <2>2
  <2>6. req' \in [Slots -> RequestType] /\ req'[r] = z /\ \A q \in Slots : q # r => req'[q] = req[q]
    BY <2>4, <2>5, Replaced, Zenon DEF Inv
  <2>7. /\ req'[r].pc = "close" /\ req'[r].kind = "apiStop" /\ req'[r].owner = Api
        /\ req'[r].todo = {} /\ req'[r].got = {} /\ req'[r].cur = p /\ req'[r].stale = b
    BY <1>1, <1>2, <2>3, <2>4, <2>6 DEF OfApi
  <2>8. TypeOK'
    BY <2>1, <2>6 DEF Inv, TypeOK
  <2>9. Managing(r)' /\ ~Starting(r)' /\ ~Ending(r)' /\ Shape(r)'
    BY <1>2, <2>7 DEF Managing, Starting, Ending, Shape, OfApi
  <2>10. RequestsAreShaped' /\ TableIsBusy' /\ (Patient => TableIsOwned')
    BY <1>2, <2>1, <2>6, <2>7, <2>9, ShapeSame, ManagerMoves, RoundsAssumption DEF Inv
  <2>11. MutexIsExclusive'
    <3>1. \A q \in Slots : q # r => ~Managing(q)'
      BY <1>3, <2>6 DEF Managing
    <3>. QED
      BY <2>1, <2>9, <3>1 DEF MutexIsExclusive
  <2>12. ASSUME Calm' PROVE Undisturbed'
    <3>1. Undisturbed
      BY <2>1, <2>12 DEF Inv, Calm
    <3>2. RoundRecords'
      BY <2>1, <3>1 DEF Undisturbed, RoundRecords
    <3>3. job[p] = "current" /\ rec[p] = Api /\ <<p, Api>> \in live
      <4>1. job[p] = "current"
        BY <1>2, <1>5, <3>1 DEF Undisturbed, JobsRecord, Inv, TypeOK
      <4>. QED
        BY <1>2, <1>3, <3>1, <4>1 DEF Undisturbed, JobsRecord, Clearing
    <3>4. ~req'[r].stale
      BY <2>0, <2>7, <3>3
    <3>5. RequestRecords(r)'
      <4>1. UNCHANGED <<rec, live>>
        BY <2>1
      <4>. QED
        BY <2>7, <2>9, <3>3, <3>4, <4>1 DEF RequestRecords
    <3>6. \A v, u : <<v, u>> \in live /\ Owned(v, u) => Owned(v, u)'
      <4>1. \A v, u : <<v, u>> \in live /\ Owns(r, v, u) => Owns(r, v, u)'
        BY <1>3 DEF Owns
      <4>. QED
        BY <2>1, <2>6, <4>1, OwnedStays
    <3>. QED
      BY <1>3, <2>1, <2>6, <3>1, <3>2, <3>5, <3>6, RequestOnly DEF Inv
  <2>. QED
    BY <2>8, <2>10, <2>11, <2>12 DEF Inv
<1>. QED
  BY <1>4, <1>5

(* A request that gives the manager's mutex back.                          *)
LEMMA ManagerReplies ==
    ASSUME Inv, NEW r \in Slots, Managing(r), Reply(r), mu' = None, UNCHANGED lockVars
    PROVE  /\ RequestsAreShaped' /\ MutexIsExclusive' /\ TableIsBusy' /\ (Patient => TableIsOwned')
           /\ \A q \in Slots : ~Managing(q)'
<1>1. /\ \A q \in Slots : q # r => req'[q] = req[q]
      /\ req'[r].owner = None /\ ~Managing(r)' /\ ~Starting(r)' /\ ~Ending(r)' /\ Shape(r)'
  BY Answered DEF Inv
<1>2. OfApi(r)
  BY RoundsAssumption DEF Inv, RequestsAreShaped, Shape, Managing, OfRound
<1>3. RequestsAreShaped' /\ TableIsBusy' /\ (Patient => TableIsOwned')
  BY <1>1, <1>2, ShapeSame, ManagerMoves, RoundsAssumption DEF Inv
<1>4. \A q \in Slots : q # r => ~Managing(q)
  BY DEF Inv, MutexIsExclusive
<1>5. \A q \in Slots : ~Managing(q)'
  BY <1>1, <1>4 DEF Managing
<1>6. \A q \in Slots : mu' # q
  BY RoundsAssumption
<1>. QED
  BY <1>3, <1>5, <1>6 DEF MutexIsExclusive

(* store.Insert, or its failure.                                           *)
LEMMA MgrInsertStep ==
    ASSUME Inv, NEW r \in Slots, MgrInsert(r), UNCHANGED used
    PROVE  Inv'
<1>. USE DEF lockVars, pathVars, envVars
<1>1. PICK p : p = req[r].cur
  OBVIOUS
<1>2. /\ req[r].pc = "insert" /\ OfApi(r) /\ req[r].kind = "apiStart" /\ p \in Paths
      /\ UNCHANGED <<lockVars, pathVars, workers, envVars>>
  BY <1>1 DEF MgrInsert, At, Inv, RequestsAreShaped, Shape, OfApi, Paths
<1>3. Managing(r) /\ ~Starting(r) /\ ~Ending(r) /\ \A q \in Slots : q # r => ~Managing(q)
  BY <1>2 DEF Managing, Starting, Ending, Inv, MutexIsExclusive, OfApi
<1>4. CASE UNCHANGED mgrVars /\ Go(r, "close")
  <2>1. UNCHANGED mgrVars /\ Go(r, "close")
    BY <1>4
  <2>2. /\ req' \in [Slots -> RequestType] /\ \A q \in Slots : q # r => req'[q] = req[q]
        /\ req'[r].pc = "close" /\ req'[r].kind = req[r].kind /\ req'[r].owner = req[r].owner
        /\ req'[r].todo = req[r].todo /\ req'[r].got = req[r].got /\ req'[r].cur = req[r].cur
        /\ req'[r].stale = req[r].stale
    BY <2>1, GoesOn DEF Steps, Inv
  <2>3. TypeOK'
    BY <1>2, <2>1, <2>2 DEF Inv, TypeOK, mgrVars
  <2>4. Managing(r)' /\ ~Starting(r)' /\ ~Ending(r)' /\ Shape(r)' /\ req'[r].owner = Api
    BY <1>2, <2>2 DEF Managing, Starting, Ending, Shape, OfApi
  <2>5. RequestsAreShaped' /\ MutexIsExclusive' /\ TableIsBusy' /\ (Patient => TableIsOwned')
    BY <1>2, <1>3, <2>1, <2>2, <2>4, ShapeSame, OthersSame, ManagerMoves, RoundsAssumption
       DEF Inv, mgrVars
  <2>6. ASSUME Calm' PROVE Undisturbed'
    <3>1. Undisturbed
      BY <1>2, <2>6 DEF Inv, Calm
    <3>2. RoundRecords'
      BY <1>2, <3>1 DEF Undisturbed, RoundRecords
    <3>3. RequestRecords(r)'
      <4>1. RequestRecords(r)
        BY <3>1 DEF Undisturbed
      <4>2. UNCHANGED <<rec, live, job>>
        BY <1>2, <2>1 DEF mgrVars
      <4>. QED
        BY <1>2, <1>3, <2>2, <2>4, <4>1, <4>2 DEF RequestRecords
    <3>4. \A v, u : <<v, u>> \in live /\ Owned(v, u) => Owned(v, u)'
      <4>1. \A v, u : <<v, u>> \in live /\ Owns(r, v, u) => Owns(r, v, u)'
        BY <1>3, <2>2, <2>4 DEF Owns
      <4>. QED
        BY <1>2, <2>1, <2>2, <4>1, OwnedStays DEF mgrVars
    <3>. QED
      BY <1>2, <2>1, <2>2, <3>1, <3>2, <3>3, <3>4, RequestOnly DEF Inv, mgrVars
  <2>. QED
    BY <2>3, <2>5, <2>6 DEF Inv
<1>5. CASE /\ job' = [job EXCEPT ![req[r].cur] = IF req[r].stale THEN "stale" ELSE "current"]
           /\ mu' = None /\ Reply(r)
  <2>1. /\ req' \in [Slots -> RequestType] /\ \A q \in Slots : q # r => req'[q] = req[q]
        /\ ~Managing(r)' /\ ~Starting(r)' /\ ~Ending(r)' /\ RequestRecords(r)'
    BY <1>5, Answered DEF Inv
  <2>2. TypeOK'
    <3>1. job' \in [Paths -> {"no", "current", "stale"}]
      BY <1>5 DEF Inv, TypeOK
    <3>. QED
      BY <1>2, <1>5, <2>1, <3>1 DEF Inv, TypeOK
  <2>3. /\ RequestsAreShaped' /\ MutexIsExclusive' /\ TableIsBusy' /\ (Patient => TableIsOwned')
        /\ \A q \in Slots : ~Managing(q)'
    BY <1>2, <1>3, <1>5, ManagerReplies
  <2>4. ASSUME Calm' PROVE Undisturbed'
    <3>1. Undisturbed
      BY <1>2, <2>4 DEF Inv, Calm
    <3>2. ~req[r].stale /\ rec[p] = Api /\ <<p, Api>> \in live
      BY <1>1, <1>2, <1>3, <3>1 DEF Undisturbed, RequestRecords
    <3>3. \A v \in Paths : job'[v] = IF v = p THEN "current" ELSE job[v]
      BY <1>1, <1>2, <1>5, <3>2 DEF Inv, TypeOK
    <3>4. RoundRecords'
      BY <1>2, <3>1 DEF Undisturbed, RoundRecords
    <3>5. ASSUME NEW q \in Slots, q # r PROVE RequestRecords(q)'
      <4>1. RequestRecords(q) /\ req'[q] = req[q] /\ ~Managing(q) /\ ~Managing(q)'
        BY <1>3, <2>1, <2>3, <3>1, <3>5 DEF Undisturbed
      <4>. QED
        BY <1>2, <4>1 DEF RequestRecords, Starting, Ending
    <3>6. JobsRecord'
      <4>1. \A v : ~Clearing(v)
        BY <1>2, <1>3 DEF Clearing
      <4>2. UNCHANGED <<rec, live, stream>>
        BY <1>2
      <4>3. \A v \in Paths : /\ job[v] # "stale" /\ (rec[v] # None => stream[v])
                             /\ (job[v] = "current" => rec[v] = Api /\ <<v, Api>> \in live)
        BY <3>1, <4>1 DEF Undisturbed, JobsRecord
      <4>. QED
        BY <3>2, <3>3, <4>2, <4>3 DEF JobsRecord
    <3>7. RecordersBelong'
      <4>1. ASSUME NEW v \in Paths, NEW u, Owned(v, u) PROVE Owned(v, u)'
        <5>1. Owns(r, v, u) => u = Api /\ job'[v] = "current"
          BY <1>1, <1>2, <1>3, <3>3 DEF Owns, OfApi
        <5>2. \A q \in Slots : q # r => (Owns(q, v, u) => Owns(q, v, u)')
          BY <2>1 DEF Owns, Starting, Ending, Managing
        <5>3. job[v] = "current" => job'[v] = "current"
          BY <3>3
        <5>4. active' = active
          BY <1>2
        <5>. QED
          BY <4>1, <5>1, <5>2, <5>3, <5>4 DEF Owned
      <4>2. \A e \in live : e[1] \in Paths /\ rec[e[1]] = e[2] /\ Owned(e[1], e[2])
        BY <3>1 DEF Undisturbed, RecordersBelong, Inv, TypeOK
      <4>. QED
        BY <1>2, <4>1, <4>2 DEF RecordersBelong
    <3>. QED
      BY <2>1, <3>4, <3>5, <3>6, <3>7 DEF Undisturbed
  <2>. QED
    BY <2>2, <2>3, <2>4 DEF Inv
<1>. QED
  BY <1>4, <1>5 DEF MgrInsert

(***************************************************************************)
(* The recorder of a path is closed.                                       *)
(***************************************************************************)
(* As long as no publisher leaves, who closes a recorder is the only one   *)
(* that has a hold on it.                                                  *)
LEMMA ClosesAlone ==
    ASSUME Inv, Calm, NEW r \in Slots, req[r].pc \in {"close", "clear"}, NEW p, p = req[r].cur
    PROVE  /\ p \in Paths /\ rec[p] = req[r].owner /\ req[r].owner \in Owners \cup {Api}
           /\ active # None => p \notin active.paths
           /\ job[p] = "current" => Managing(r)
           /\ \A q \in Slots : q # r => /\ Starting(q) => p \notin req[q].got
                                        /\ Ending(q) => p \notin req[q].todo
                                        /\ Managing(q) => req[q].cur # p
<1>1. Undisturbed /\ TableIsOwned /\ TypeOK /\ \A q \in Slots : Shape(q)
  BY DEF Inv, Calm, RequestsAreShaped
<1>2. \A q \in Slots : RequestRecords(q)
  BY <1>1 DEF Undisturbed
<1>3. \/ Ending(r) /\ req[r].owner \in Owners /\ p \in req[r].todo
      \/ Managing(r) /\ p \in ApiPaths
  BY <1>1 DEF Shape, OfRound, OfApi, Ending, Managing
<1>4. p \in Paths
  BY <1>3, RequestFields, <1>1 DEF Paths
<1>5. rec[p] = req[r].owner /\ req[r].owner \in Owners \cup {Api}
  BY <1>2, <1>3 DEF RequestRecords, Managing
<1>6. active # None => p \notin active.paths
  <2>1. active # None /\ p \in active.paths => active.owner \in Owners /\ active.owner = req[r].owner
    BY <1>1, <1>5 DEF Undisturbed, RoundRecords, Calm, TypeOK
  <2>2. Ending(r) => active = None \/ active.owner # req[r].owner
    BY <1>1 DEF TableIsOwned
  <2>. QED
    BY <1>3, <2>1, <2>2, RoundsAssumption DEF Managing
<1>7. job[p] = "current" => Managing(r)
  BY <1>1, <1>3, <1>4, <1>5, RoundsAssumption DEF Undisturbed, JobsRecord
<1>8. ASSUME NEW q \in Slots, q # r
      PROVE  /\ Starting(q) => p \notin req[q].got
             /\ Ending(q) => p \notin req[q].todo
             /\ Managing(q) => req[q].cur # p
  <2>1. req[q].owner \in Owners => req[q].owner # req[r].owner
    BY <1>1, <1>8 DEF TableIsOwned
  <2>2. Starting(q) \/ Ending(q) => req[q].owner \in Owners
    BY <1>1, RoundsAssumption DEF Starting, Ending, Shape, OfRound, OfApi
  <2>3. Starting(q) => p \notin req[q].got
    BY <1>2, <1>5, <2>1, <2>2 DEF RequestRecords
  <2>4. Ending(q) => p \notin req[q].todo
    BY <1>2, <1>5, <2>1, <2>2 DEF RequestRecords
  <2>5. Managing(q) => req[q].cur # p
    <3>1. Managing(q) => ~Managing(r)
      BY <1>8 DEF Inv, MutexIsExclusive
    <3>2. Managing(q) => rec[req[q].cur] \in {Api, None}
      BY <1>2 DEF RequestRecords, Managing
    <3>. QED
      BY <1>3, <1>5, <3>1, <3>2, RoundsAssumption
  <2>. QED
    BY <2>3, <2>4, <2>5
<1>. QED
  BY <1>4, <1>5, <1>6, <1>7, <1>8

(* What follows a stop in the caller.                                      *)
StoppedApi(r, p, ok) ==
    /\ req[r].owner = Api /\ Managing(r) /\ OfApi(r) /\ \A q \in Slots : ~Managing(q)'
    /\ ~Starting(r)' /\ ~Ending(r)' /\ RequestRecords(r)'
    /\ job' = IF ok /\ req[r].kind = "apiStop" THEN [job EXCEPT ![p] = "no"] ELSE job

StoppedRound(r, p) ==
    /\ req[r].owner \in Owners /\ Ending(r) /\ Ending(r)' /\ ~Managing(r) /\ ~Managing(r)'
    /\ ~Starting(r) /\ ~Starting(r)' /\ req'[r].owner = req[r].owner
    /\ req'[r].pc = "ending" /\ ~req'[r].stale /\ req'[r].todo = req[r].todo \ {p} /\ job' = job

LEMMA StoppedMoves ==
    ASSUME Inv, NEW r \in Slots, NEW ok \in BOOLEAN, req[r].pc \in {"close", "clear"},
           Stopped(r, ok), UNCHANGED lockVars, NEW p, p = req[r].cur
    PROVE  /\ req' \in [Slots -> RequestType] /\ \A q \in Slots : q # r => req'[q] = req[q]
           /\ job' \in [Paths -> {"no", "current", "stale"}] /\ mu' \in Slots \cup {None}
           /\ workers' \subseteq Ingest
           /\ RequestsAreShaped' /\ MutexIsExclusive' /\ TableIsBusy' /\ (Patient => TableIsOwned')
           /\ StoppedApi(r, p, ok) \/ StoppedRound(r, p)
<1>1. Shape(r) /\ req[r] \in RequestType /\ req \in [Slots -> RequestType]
  BY DEF Inv, RequestsAreShaped, TypeOK
<1>2. CASE req[r].owner = Api
  <2>1. OfApi(r) /\ Managing(r) /\ p \in Paths
    BY <1>1, <1>2, RoundsAssumption DEF Shape, OfRound, OfApi, Managing, Paths
  <2>2. /\ Reply(r) /\ mu' = None /\ UNCHANGED workers
        /\ job' = IF ok /\ req[r].kind = "apiStop" THEN [job EXCEPT ![p] = "no"] ELSE job
    BY <1>2 DEF Stopped
  <2>3. /\ req' \in [Slots -> RequestType] /\ \A q \in Slots : q # r => req'[q] = req[q]
        /\ ~Starting(r)' /\ ~Ending(r)' /\ RequestRecords(r)'
    BY <2>2, Answered DEF Inv
  <2>4. /\ RequestsAreShaped' /\ MutexIsExclusive' /\ TableIsBusy' /\ (Patient => TableIsOwned')
        /\ \A q \in Slots : ~Managing(q)'
    BY <2>1, <2>2, ManagerReplies
  <2>5. /\ job' \in [Paths -> {"no", "current", "stale"}] /\ mu' \in Slots \cup {None}
        /\ workers' \subseteq Ingest
    BY <2>1, <2>2 DEF Inv, TypeOK
  <2>6. StoppedApi(r, p, ok)
    BY <1>2, <2>1, <2>2, <2>3, <2>4 DEF StoppedApi
  <2>. QED
    BY <2>3, <2>4, <2>5, <2>6
<1>3. CASE req[r].owner # Api
  <2>1. OfRound(r, "end") /\ p \in req[r].todo /\ req[r].owner \in Owners /\ req[r].kind = "end"
    BY <1>1, <1>3 DEF Shape, OfRound, OfApi
  <2>2. Ending(r) /\ ~Managing(r) /\ ~Starting(r)
    BY <1>3, <2>1 DEF Ending, Managing, Starting
  <2>3. PICK S : S = req[r].todo \ {p} /\ S \in SUBSET TablePaths
    BY RequestFields DEF Inv
  <2>4. /\ req' = [req EXCEPT ![r].pc = "ending", ![r].cur = None, ![r].stale = FALSE,
                              ![r].todo = @ \ {p}]
        /\ workers' = workers \ {p} /\ UNCHANGED mgrVars
    BY <1>3 DEF Stopped
  <2>5. PICK a, b, c, d : /\ a = [req[r] EXCEPT !.pc = "ending"] /\ b = [a EXCEPT !.cur = None]
                          /\ c = [b EXCEPT !.stale = FALSE] /\ d = [c EXCEPT !.todo = S]
    OBVIOUS
  <2>6. /\ a \in RequestType /\ a.pc = "ending" /\ a.kind = req[r].kind /\ a.owner = req[r].owner
        /\ a.todo = req[r].todo
    <3>1. "ending" \in Steps
      BY DEF Steps
    <3>2. req[r] \in RequestType /\ a = [req[r] EXCEPT !.pc = "ending"]
      BY <1>1, <2>5
    <3>. QED
      BY <3>1, <3>2, MovedOn, Zenon
  <2>7. /\ b \in RequestType /\ b.pc = a.pc /\ b.kind = a.kind /\ b.owner = a.owner /\ b.todo = a.todo
    <3>1. a \in RequestType /\ b = [a EXCEPT !.cur = None] /\ None \in Paths \cup {None}
      BY <2>5, <2>6
    <3>. QED
      BY <3>1, MovedTo, Zenon
  <2>8. /\ c \in RequestType /\ c.pc = b.pc /\ c.kind = b.kind /\ c.owner = b.owner /\ c.todo = b.todo
        /\ ~c.stale
    <3>1. b \in RequestType /\ c = [b EXCEPT !.stale = FALSE]
      BY <2>5, <2>7
    <3>. QED
      BY <3>1, StaleSet
  <2>9. /\ d \in RequestType /\ d.pc = c.pc /\ d.kind = c.kind /\ d.owner = c.owner /\ d.todo = S
        /\ d.stale = c.stale
    <3>1. c \in RequestType /\ d = [c EXCEPT !.todo = S] /\ S \in SUBSET TablePaths
      BY <2>3, <2>5, <2>8
    <3>. QED
      BY <3>1, TodoSet, Zenon
  <2>10. req' = [req EXCEPT ![r] = d]
    <3>1. [req EXCEPT ![r].pc = "ending", ![r].cur = None, ![r].stale = FALSE, ![r].todo = @ \ {p}]
             = [req EXCEPT ![r] = [[[[req[r] EXCEPT !.pc = "ending"] EXCEPT !.cur = None]
                                    EXCEPT !.stale = FALSE] EXCEPT !.todo = c.todo \ {p}]]
      BY <1>1, <2>5
    <3>. QED
      BY <2>3, <2>4, <2>5, <2>6, <2>7, <2>8, <3>1, Zenon
  <2>11. req' \in [Slots -> RequestType] /\ req'[r] = d /\ \A q \in Slots : q # r => req'[q] = req[q]
    BY <2>9, <2>10, Replaced, Zenon DEF Inv
  <2>12. /\ req'[r].pc = "ending" /\ req'[r].kind = "end" /\ req'[r].owner = req[r].owner
         /\ req'[r].todo = req[r].todo \ {p} /\ ~req'[r].stale
    BY <2>1, <2>3, <2>6, <2>7, <2>8, <2>9, <2>11
  <2>13. Ending(r)' /\ ~Managing(r)' /\ ~Starting(r)' /\ Shape(r)'
    BY <1>3, <2>1, <2>12 DEF Ending, Managing, Starting, Shape, OfRound
  <2>14. RequestsAreShaped' /\ MutexIsExclusive' /\ TableIsBusy' /\ (Patient => TableIsOwned')
    <3>1. UNCHANGED mu
      BY <2>4 DEF mgrVars
    <3>. QED
      BY <2>1, <2>2, <2>11, <2>12, <2>13, <3>1, EndingMoves
  <2>15. /\ job' = job /\ mu' = mu /\ workers' \subseteq Ingest
         /\ job' \in [Paths -> {"no", "current", "stale"}] /\ mu' \in Slots \cup {None}
    BY <2>4 DEF Inv, TypeOK, mgrVars
  <2>16. StoppedRound(r, p)
    BY <2>1, <2>2, <2>12, <2>13, <2>15 DEF StoppedRound
  <2>. QED
    BY <2>11, <2>14, <2>15, <2>16
<1>. QED
  BY <1>2, <1>3

(* pa.recorder.Close()                                                     *)
LEMMA CloseRecorderStep ==
    ASSUME Inv, NEW r \in Slots, CloseRecorder(r), UNCHANGED used
    PROVE  Inv'
<1>. USE DEF lockVars
<1>1. PICK p : p = req[r].cur
  OBVIOUS
<1>2. /\ req[r].pc = "close" /\ UNCHANGED <<lockVars, stream, loop, rec, disturbed>>
      /\ TypeOK /\ Shape(r)
  BY DEF CloseRecorder, At, Inv, RequestsAreShaped
<1>3. CASE /\ req[r].stale \/ rec[p] = None
           /\ Stopped(r, FALSE)
           /\ UNCHANGED <<live, crashed>>
  <2>1. /\ req' \in [Slots -> RequestType]
        /\ job' \in [Paths -> {"no", "current", "stale"}] /\ mu' \in Slots \cup {None}
        /\ workers' \subseteq Ingest
        /\ RequestsAreShaped' /\ MutexIsExclusive' /\ TableIsBusy' /\ (Patient => TableIsOwned')
    BY <1>1, <1>2, <1>3, StoppedMoves
  <2>2. TypeOK'
    BY <1>2, <1>3, <2>1 DEF TypeOK
  <2>3. ~Calm'
    <3>1. SUFFICES ASSUME Calm PROVE FALSE
      BY <1>2 DEF Calm
    <3>2. RequestRecords(r)
      BY <3>1 DEF Inv, Undisturbed
    <3>3. ~req[r].stale /\ <<p, rec[p]>> \in live
      BY <1>1, <1>2, <3>2 DEF RequestRecords
    <3>. QED
      BY <1>2, <1>3, <3>3, RoundsAssumption DEF TypeOK
  <2>. QED
    BY <2>1, <2>2, <2>3 DEF Inv
<1>4. CASE /\ ~req[r].stale /\ <<p, rec[p]>> \in live
           /\ live' = live \ {<<p, rec[p]>>}
           /\ Go(r, "clear")
           /\ UNCHANGED <<mgrVars, workers, crashed>>
  <2>1. /\ req' \in [Slots -> RequestType] /\ \A q \in Slots : q # r => req'[q] = req[q]
        /\ req'[r].pc = "clear" /\ req'[r].kind = req[r].kind /\ req'[r].owner = req[r].owner
        /\ req'[r].todo = req[r].todo /\ req'[r].got = req[r].got /\ req'[r].cur = req[r].cur
        /\ req'[r].stale = req[r].stale
    BY <1>2, <1>4, GoesOn DEF Steps
  <2>2. UNCHANGED <<active, held, job, mu, stream, rec, workers, crashed, disturbed>>
    BY <1>2, <1>4 DEF mgrVars
  <2>3. TypeOK'
    BY <1>2, <1>4, <2>1, <2>2 DEF TypeOK
  <2>4. /\ Shape(r)' /\ (Managing(r)' <=> Managing(r)) /\ (Ending(r)' <=> Ending(r))
        /\ ~Starting(r) /\ ~Starting(r)'
    BY <1>2, <2>1 DEF Shape, OfRound, OfApi, Managing, Starting, Ending
  <2>5. RequestsAreShaped' /\ MutexIsExclusive'
    BY <2>1, <2>2, <2>4, ShapeSame, OthersSame DEF Inv
  <2>6. TableIsBusy' /\ (Patient => TableIsOwned')
    BY <2>1, <2>2, <2>4, TableSame DEF Starting, Ending
  <2>7. ASSUME Calm' PROVE Undisturbed'
    <3>0. Calm /\ Undisturbed
      BY <2>2, <2>7 DEF Inv, Calm
    <3>1. /\ p \in Paths /\ rec[p] = req[r].owner /\ req[r].owner \in Owners \cup {Api}
          /\ active # None => p \notin active.paths
          /\ job[p] = "current" => Managing(r)
          /\ \A q \in Slots : q # r => /\ Starting(q) => p \notin req[q].got
                                       /\ Ending(q) => p \notin req[q].todo
                                       /\ Managing(q) => req[q].cur # p
      BY <1>1, <1>2, <3>0, ClosesAlone
    <3>2. \A v, u : v # p => (<<v, u>> \in live' <=> <<v, u>> \in live)
      BY <1>4
    <3>3. <<p, rec[p]>> \notin live'
      BY <1>4
    <3>4. RoundRecords'
      BY <2>2, <3>0, <3>1, <3>2 DEF Undisturbed, RoundRecords
    <3>5. RequestRecords(r)'
      <4>1. RequestRecords(r)
        BY <3>0 DEF Undisturbed
      <4>2. Ending(r) => \A v \in req[r].todo : /\ rec[v] = req[r].owner
                                                /\ <<v, req[r].owner>> \in live
        BY <1>2, <4>1 DEF RequestRecords
      <4>3. Ending(r)' => \A v \in req'[r].todo :
               /\ rec'[v] = req'[r].owner
               /\ <<v, req'[r].owner>> \in live' \/ (req'[r].pc = "clear" /\ v = req'[r].cur)
        BY <1>1, <2>1, <2>2, <2>4, <3>2, <4>2
      <4>4. <<req'[r].cur, rec'[req'[r].cur]>> \notin live'
        BY <1>1, <2>1, <2>2, <3>3
      <4>5. Managing(r)' /\ req'[r].kind = "apiStart" => job'[req'[r].cur] = "no"
        BY <2>1, <2>2, <2>4, <4>1 DEF RequestRecords
      <4>6. Managing(r)' => rec'[req'[r].cur] = Api
        BY <1>2, <2>1, <2>2, <2>4, <4>1 DEF RequestRecords
      <4>. QED
        BY <1>4, <2>1, <2>4, <4>3, <4>4, <4>5, <4>6 DEF RequestRecords
    <3>6. ASSUME NEW q \in Slots, q # r PROVE RequestRecords(q)'
      <4>1. RequestRecords(q) /\ req'[q] = req[q] /\ Shape(q)
        BY <2>1, <3>0, <3>6 DEF Undisturbed, Inv, RequestsAreShaped
      <4>2. /\ (Starting(q)' <=> Starting(q)) /\ (Ending(q)' <=> Ending(q))
            /\ (Managing(q)' <=> Managing(q))
        BY <4>1 DEF Starting, Ending, Managing
      <4>3. req[q].pc \in {"insert", "close", "clear"} => req[q].cur # p
        BY <3>1, <3>6, <4>1 DEF Shape, OfRound, OfApi, Ending, Managing
      <4>4. Starting(q)' => \A v \in req'[q].got : rec'[v] = req'[q].owner /\ <<v, req'[q].owner>> \in live'
        <5>1. Starting(q) => \A v \in req[q].got : v # p /\ rec[v] = req[q].owner /\ <<v, req[q].owner>> \in live
          BY <3>1, <3>6, <4>1 DEF RequestRecords
        <5>. QED
          BY <2>2, <3>2, <4>1, <4>2, <5>1
      <4>5. Ending(q)' => \A v \in req'[q].todo :
               /\ rec'[v] = req'[q].owner
               /\ <<v, req'[q].owner>> \in live' \/ (req'[q].pc = "clear" /\ v = req'[q].cur)
        <5>1. Ending(q) => \A v \in req[q].todo :
                 /\ v # p /\ rec[v] = req[q].owner
                 /\ <<v, req[q].owner>> \in live \/ (req[q].pc = "clear" /\ v = req[q].cur)
          BY <3>1, <3>6, <4>1 DEF RequestRecords
        <5>. QED
          BY <2>2, <3>2, <4>1, <4>2, <5>1
      <4>6. /\ (req[q].pc \in {"insert", "close"} => <<req[q].cur, rec[req[q].cur]>> \in live')
            /\ (req[q].pc = "clear" => <<req[q].cur, rec[req[q].cur]>> \notin live')
        BY <3>2, <4>1, <4>3 DEF RequestRecords
      <4>. QED
        BY <2>2, <4>1, <4>2, <4>4, <4>5, <4>6 DEF RequestRecords
    <3>7. JobsRecord'
      <4>1. \A v : Clearing(v) => Clearing(v)'
        BY <1>2, <2>1 DEF Clearing, Managing
      <4>2. Managing(r) => Clearing(p)'
        BY <1>1, <2>1, <2>4 DEF Clearing
      <4>3. ASSUME NEW v \in Paths, job[v] = "current"
            PROVE  rec[v] = Api /\ (<<v, Api>> \in live' \/ Clearing(v)')
        <5>1. rec[v] = Api /\ (<<v, Api>> \in live \/ Clearing(v))
          BY <3>0, <4>3 DEF Undisturbed, JobsRecord
        <5>. QED
          BY <3>1, <3>2, <4>1, <4>2, <4>3, <5>1
      <4>4. \A v \in Paths : job[v] # "stale" /\ (rec[v] # None => stream[v])
        BY <3>0 DEF Undisturbed, JobsRecord
      <4>. QED
        BY <2>2, <4>3, <4>4 DEF JobsRecord
    <3>8. RecordersBelong'
      <4>1. \A q \in Slots : \A v, u : Owns(q, v, u) => Owns(q, v, u)'
        <5>1. \A v, u : Owns(r, v, u) => Owns(r, v, u)'
          BY <2>1, <2>4 DEF Owns
        <5>2. \A q \in Slots : q # r => \A v, u : Owns(q, v, u) => Owns(q, v, u)'
          BY <2>1 DEF Owns, Starting, Ending, Managing
        <5>. QED
          BY <5>1, <5>2
      <4>2. \A v, u : Owned(v, u) => Owned(v, u)'
        BY <2>2, <4>1 DEF Owned
      <4>3. \A e \in live' : e \in live
        BY <1>4
      <4>. QED
        BY <2>2, <3>0, <4>2, <4>3 DEF Undisturbed, RecordersBelong
    <3>. QED
      BY <3>4, <3>5, <3>6, <3>7, <3>8 DEF Undisturbed
  <2>. QED
    BY <2>3, <2>5, <2>6, <2>7 DEF Inv
<1>5. CASE crashed' = TRUE /\ UNCHANGED <<req, live, mgrVars, workers>>
  BY <1>2, <1>5, CrashStep DEF pathVars
<1>. QED
  BY <1>1, <1>3, <1>4, <1>5 DEF CloseRecorder

(* pa.recorder = nil                                                       *)
LEMMA ClearRecorderStep ==
    ASSUME Inv, NEW r \in Slots, ClearRecorder(r), UNCHANGED used
    PROVE  Inv'
<1>. USE DEF lockVars
<1>1. PICK p : p = req[r].cur
  OBVIOUS
<1>2. /\ req[r].pc = "clear" /\ Stopped(r, TRUE) /\ TypeOK /\ Shape(r)
      /\ UNCHANGED <<lockVars, stream, loop, live, envVars>>
      /\ rec' = IF req[r].stale THEN rec ELSE [rec EXCEPT ![p] = None]
  BY <1>1 DEF ClearRecorder, At, Inv, RequestsAreShaped
<1>3. /\ req' \in [Slots -> RequestType] /\ \A q \in Slots : q # r => req'[q] = req[q]
      /\ job' \in [Paths -> {"no", "current", "stale"}] /\ mu' \in Slots \cup {None}
      /\ workers' \subseteq Ingest
      /\ RequestsAreShaped' /\ MutexIsExclusive' /\ TableIsBusy' /\ (Patient => TableIsOwned')
      /\ StoppedApi(r, p, TRUE) \/ StoppedRound(r, p)
  BY <1>1, <1>2, StoppedMoves
<1>4. UNCHANGED <<active, held, stream, loop, live, disturbed, crashed>>
  BY <1>2 DEF envVars
<1>5. TypeOK'
  <2>1. rec' \in [Paths -> Owners \cup {Api, None}]
    BY <1>2 DEF TypeOK
  <2>. QED
    BY <1>2, <1>3, <1>4, <2>1 DEF TypeOK
<1>6. ASSUME Calm' PROVE Undisturbed'
  <2>0. Calm /\ Undisturbed /\ RequestRecords(r)
    BY <1>4, <1>6 DEF Inv, Calm, Undisturbed
  <2>1. /\ p \in Paths /\ rec[p] = req[r].owner /\ req[r].owner \in Owners \cup {Api}
        /\ active # None => p \notin active.paths
        /\ job[p] = "current" => Managing(r)
        /\ \A q \in Slots : q # r => /\ Starting(q) => p \notin req[q].got
                                     /\ Ending(q) => p \notin req[q].todo
                                     /\ Managing(q) => req[q].cur # p
    BY <1>1, <1>2, <2>0, ClosesAlone
  <2>2. /\ rec'[p] = None /\ \A v \in Paths : v # p => rec'[v] = rec[v]
    BY <1>2, <2>0, <2>1 DEF RequestRecords, TypeOK
  <2>3. /\ job'[p] # "current" /\ \A v \in Paths : v # p => job'[v] = job[v]
        /\ \A v \in Paths : job'[v] # "stale"
    <3>1. \A v \in Paths : job[v] # "stale"
      BY <2>0 DEF Undisturbed, JobsRecord
    <3>2. CASE StoppedRound(r, p)
      BY <2>1, <3>1, <3>2 DEF StoppedRound
    <3>3. CASE StoppedApi(r, p, TRUE)
      <4>1. req[r].kind # "apiStop" => job[p] = "no"
        BY <1>1, <2>0, <3>3 DEF StoppedApi, OfApi, RequestRecords
      <4>. QED
        BY <1>2, <2>1, <3>1, <3>3, <4>1 DEF StoppedApi, TypeOK
    <3>. QED
      BY <1>3, <3>2, <3>3
  <2>4. \A e \in live : /\ e[1] \in Paths /\ e[1] # p /\ rec[e[1]] = e[2] /\ Owned(e[1], e[2])
    <3>1. <<p, rec[p]>> \notin live
      BY <1>1, <1>2, <2>0 DEF RequestRecords
    <3>2. \A e \in live : e = <<e[1], e[2]>> /\ e[1] \in Paths
      BY <1>2 DEF TypeOK
    <3>3. \A e \in live : rec[e[1]] = e[2] /\ Owned(e[1], e[2])
      BY <2>0 DEF Undisturbed, RecordersBelong
    <3>. QED
      BY <3>1, <3>2, <3>3
  <2>5. RoundRecords'
    <3>1. active # None => active.paths \subseteq Paths
      BY <1>2 DEF TypeOK, Paths
    <3>. QED
      BY <1>4, <2>0, <2>1, <2>2, <3>1 DEF Undisturbed, RoundRecords
  <2>6. RequestRecords(r)'
    <3>1. CASE StoppedApi(r, p, TRUE)
      BY <3>1 DEF StoppedApi
    <3>2. CASE StoppedRound(r, p)
      <4>1. /\ Ending(r) /\ Ending(r)' /\ ~Managing(r)' /\ ~Starting(r)' /\ req'[r].owner = req[r].owner
            /\ req'[r].pc = "ending" /\ ~req'[r].stale /\ req'[r].todo = req[r].todo \ {p}
        BY <3>2 DEF StoppedRound
      <4>2. \A v \in req[r].todo \ {p} : rec[v] = req[r].owner /\ <<v, req[r].owner>> \in live
        BY <1>1, <2>0, <4>1 DEF RequestRecords
      <4>3. req[r].todo \subseteq Paths
        BY <1>2, RequestFields DEF Paths
      <4>. QED
        BY <1>4, <2>2, <4>1, <4>2, <4>3 DEF RequestRecords
    <3>. QED
      BY <1>3, <3>1, <3>2
  <2>7. ASSUME NEW q \in Slots, q # r PROVE RequestRecords(q)'
    <3>1. RequestRecords(q) /\ req'[q] = req[q] /\ Shape(q)
      BY <1>3, <2>0, <2>7 DEF Undisturbed, Inv, RequestsAreShaped
    <3>2. /\ (Starting(q)' <=> Starting(q)) /\ (Ending(q)' <=> Ending(q))
          /\ (Managing(q)' <=> Managing(q))
      BY <3>1 DEF Starting, Ending, Managing
    <3>3. req[q].got \subseteq Paths /\ req[q].todo \subseteq Paths /\ req[q].cur \in Paths \cup {None}
      BY <1>2, RequestFields DEF Paths
    <3>4. /\ (req[q].pc \in {"insert", "close", "clear"} => req[q].cur # p)
          /\ (req[q].pc \in {"set", "insert", "close", "clear"} => req[q].cur \in Paths)
      BY <2>1, <2>7, <3>1, <3>3 DEF Shape, OfRound, OfApi, Ending, Managing, Paths
    <3>5. Starting(q)' => \A v \in req'[q].got : rec'[v] = req'[q].owner /\ <<v, req'[q].owner>> \in live'
      <4>1. Starting(q) => \A v \in req[q].got : v # p /\ rec[v] = req[q].owner /\ <<v, req[q].owner>> \in live
        BY <2>1, <2>7, <3>1 DEF RequestRecords
      <4>. QED
        BY <1>4, <2>2, <3>1, <3>2, <3>3, <4>1
    <3>6. Ending(q)' => \A v \in req'[q].todo :
             /\ rec'[v] = req'[q].owner
             /\ <<v, req'[q].owner>> \in live' \/ (req'[q].pc = "clear" /\ v = req'[q].cur)
      <4>1. Ending(q) => \A v \in req[q].todo :
               /\ v # p /\ rec[v] = req[q].owner
               /\ <<v, req[q].owner>> \in live \/ (req[q].pc = "clear" /\ v = req[q].cur)
        BY <2>1, <2>7, <3>1 DEF RequestRecords
      <4>. QED
        BY <1>4, <2>2, <3>1, <3>2, <3>3, <4>1
    <3>7. /\ (req[q].pc \in {"insert", "close", "clear"} => rec'[req[q].cur] = rec[req[q].cur])
          /\ (req[q].pc = "set" => rec'[req[q].cur] = None)
      BY <2>2, <3>1, <3>4 DEF RequestRecords
    <3>8. Managing(q) => req[q].cur # p /\ req[q].cur \in Paths
      BY <2>1, <2>7, <3>4 DEF Managing
    <3>9. Managing(q) => rec'[req[q].cur] = rec[req[q].cur] /\ job'[req[q].cur] = job[req[q].cur]
      BY <2>2, <2>3, <3>8
    <3>. QED
      BY <1>4, <3>1, <3>2, <3>5, <3>6, <3>7, <3>9 DEF RequestRecords
  <2>8. JobsRecord'
    <3>1. ASSUME NEW v \in Paths, v # p, job[v] = "current"
          PROVE  rec[v] = Api /\ (<<v, Api>> \in live \/ Clearing(v)')
      <4>1. rec[v] = Api /\ (<<v, Api>> \in live \/ Clearing(v))
        BY <2>0, <3>1 DEF Undisturbed, JobsRecord
      <4>2. Clearing(v) => Clearing(v)'
        BY <1>1, <1>3, <3>1 DEF Clearing, Managing
      <4>. QED
        BY <4>1, <4>2
    <3>2. \A v \in Paths : rec'[v] # None => stream'[v]
      BY <1>4, <2>0, <2>2 DEF Undisturbed, JobsRecord
    <3>. QED
      BY <1>4, <2>2, <2>3, <3>1, <3>2 DEF JobsRecord
  <2>9. RecordersBelong'
    <3>1. \A q \in Slots : q # r => \A v, u : Owns(q, v, u) => Owns(q, v, u)'
      BY <1>3 DEF Owns, Starting, Ending, Managing
    <3>2. \A v, u : v # p /\ Owns(r, v, u) => Owns(r, v, u)'
      <4>1. CASE StoppedApi(r, p, TRUE)
        BY <1>1, <4>1 DEF StoppedApi, Owns, OfApi
      <4>2. CASE StoppedRound(r, p)
        BY <4>2 DEF StoppedRound, Owns
      <4>. QED
        BY <1>3, <4>1, <4>2
    <3>3. \A v \in Paths : \A u : v # p /\ Owned(v, u) => Owned(v, u)'
      BY <1>4, <2>3, <3>1, <3>2 DEF Owned
    <3>. QED
      BY <1>4, <2>2, <2>4, <3>3 DEF RecordersBelong
  <2>. QED
    BY <2>5, <2>6, <2>7, <2>8, <2>9 DEF Undisturbed
<1>. QED
  BY <1>3, <1>5, <1>6 DEF Inv

(***************************************************************************)
(* Paths.                                                                  *)
(***************************************************************************)
(* The stream of a path comes or goes, and nobody records the path or is   *)
(* about to.                                                               *)
LEMMA StreamOnly ==
    ASSUME Undisturbed, UNCHANGED <<active, job, req, rec, live, disturbed>>,
           NEW p, p \in Paths => rec[p] = None,
           \A q \in Slots : req[q].pc = "set" => stream'[req[q].cur],
           \A v \in Paths : v # p => stream'[v] = stream[v]
    PROVE  Undisturbed'
<1>1. RoundRecords'
  BY DEF Undisturbed, RoundRecords
<1>2. ASSUME NEW q \in Slots PROVE RequestRecords(q)'
  BY DEF Undisturbed, RequestRecords, Starting, Ending, Managing
<1>3. JobsRecord'
  <2>1. \A v : Clearing(v) => Clearing(v)'
    BY DEF Clearing, Managing
  <2>. QED
    BY <2>1 DEF Undisturbed, JobsRecord
<1>4. RecordersBelong'
  BY DEF Undisturbed, RecordersBelong, Owned, Owns, Starting, Ending, Managing
<1>. QED
  BY <1>1, <1>2, <1>3, <1>4 DEF Undisturbed

(* The requests and the table are left alone.                              *)
LEMMA RequestsSame ==
    ASSUME Inv, UNCHANGED <<lockVars, mu, req>>
    PROVE  RequestsAreShaped' /\ MutexIsExclusive' /\ TableIsBusy' /\ (Patient => TableIsOwned')
BY DEF Inv, RequestsAreShaped, Shape, OfRound, OfApi, MutexIsExclusive, Managing, TableIsBusy,
   Starting, TableIsOwned, Ending, HeldIsActive, lockVars

LEMMA PublishStep ==
    ASSUME Inv, NEW p \in Paths, Publish(p), UNCHANGED used
    PROVE  Inv'
<1>. USE DEF lockVars, mgrVars, envVars
<1>1. /\ UNCHANGED <<active, held, job, mu, req, loop, rec, live, workers, disturbed, crashed>>
      /\ ~stream[p] /\ stream' \in [Paths -> BOOLEAN]
      /\ \A v \in Paths : stream'[v] = IF v = p THEN TRUE ELSE stream[v]
  BY DEF Publish, Inv, TypeOK
<1>2. TypeOK' /\ RequestsAreShaped' /\ MutexIsExclusive' /\ TableIsBusy' /\ (Patient => TableIsOwned')
  BY <1>1, RequestsSame DEF Inv, TypeOK
<1>3. ASSUME Calm' PROVE Undisturbed'
  <2>1. Undisturbed
    BY <1>1, <1>3 DEF Inv, Calm
  <2>2. rec[p] = None
    BY <1>1, <2>1 DEF Undisturbed, JobsRecord
  <2>3. ASSUME NEW q \in Slots, req[q].pc = "set" PROVE stream'[req[q].cur]
    <3>1. stream[req[q].cur] /\ Shape(q) /\ req[q].todo \subseteq TablePaths
      BY <2>1, <2>3, RequestFields DEF Undisturbed, RequestRecords, Inv, RequestsAreShaped
    <3>2. req[q].cur \in Paths
      BY <2>3, <3>1 DEF Shape, OfApi, Paths
    <3>. QED
      BY <1>1, <3>1, <3>2
  <2>. QED
    BY <1>1, <2>1, <2>2, <2>3, StreamOnly
<1>. QED
  BY <1>2, <1>3 DEF Inv

(* A publisher that leaves a path nobody is concerned with.                *)
LEMMA UnpublishStep ==
    ASSUME Inv, NEW p \in Paths, Unpublish(p), UNCHANGED used
    PROVE  Inv'
<1>. USE DEF lockVars, mgrVars
<1>1. /\ UNCHANGED <<active, held, job, mu, req, stream, rec, workers>>
      /\ live' = live \ {<<p, rec[p]>>} /\ disturbed' = (disturbed \/ Concerned(p))
      /\ loop' \in [Paths -> {"select", "closing"}] /\ crashed' \in BOOLEAN /\ disturbed' \in BOOLEAN
  BY DEF Unpublish, Inv, TypeOK
<1>2. TypeOK' /\ RequestsAreShaped' /\ MutexIsExclusive' /\ TableIsBusy' /\ (Patient => TableIsOwned')
  BY <1>1, RequestsSame DEF Inv, TypeOK
<1>3. ASSUME Calm' PROVE Undisturbed'
  <2>1. Undisturbed /\ rec[p] = None
    BY <1>1, <1>3 DEF Inv, Calm, Concerned
  <2>2. live' = live
    BY <1>1, <2>1, RoundsAssumption DEF Inv, TypeOK
  <2>3. \A q \in Slots : req[q].pc = "set" => stream'[req[q].cur]
    BY <1>1, <2>1 DEF Undisturbed, RequestRecords
  <2>4. disturbed' = disturbed
    BY <1>1, <1>3 DEF Calm, Inv, TypeOK
  <2>. QED
    BY <1>1, <2>1, <2>2, <2>3, <2>4, StreamOnly
<1>. QED
  BY <1>2, <1>3 DEF Inv

(* The path ends, and whoever still has it has nothing.                    *)
LEMMA EndPathStep ==
    ASSUME Inv, NEW p \in Paths, EndPath(p), UNCHANGED used
    PROVE  Inv'
<1>. USE DEF lockVars
<1>1. /\ UNCHANGED <<active, held, mu, live, workers, crashed>>
      /\ stream' = [stream EXCEPT ![p] = FALSE] /\ rec' = [rec EXCEPT ![p] = None]
      /\ job' = [job EXCEPT ![p] = IF @ = "current" THEN "stale" ELSE @]
      /\ disturbed' = (disturbed \/ Concerned(p)) /\ disturbed' \in BOOLEAN
      /\ loop' \in [Paths -> {"select", "closing"}]
  BY DEF EndPath, Inv, TypeOK
<1>2. /\ stream' \in [Paths -> BOOLEAN] /\ rec' \in [Paths -> Owners \cup {Api, None}]
      /\ job' \in [Paths -> {"no", "current", "stale"}]
  BY <1>1 DEF Inv, TypeOK
<1>3. ASSUME NEW q \in Slots
      PROVE  \/ req'[q] = req[q]
             \/ /\ req[q].cur = p /\ req[q].pc \in {"set", "insert", "close", "clear"}
                /\ req'[q] = [req[q] EXCEPT !.stale = TRUE]
  BY DEF EndPath
<1>4. ASSUME NEW q \in Slots
      PROVE  /\ req'[q] \in RequestType /\ req'[q].pc = req[q].pc /\ req'[q].kind = req[q].kind
             /\ req'[q].owner = req[q].owner /\ req'[q].todo = req[q].todo
             /\ req'[q].got = req[q].got /\ req'[q].cur = req[q].cur
             /\ req[q].pc = "idle" => req'[q] = req[q]
  <2>0. req[q] \in RequestType
    BY DEF Inv, TypeOK
  <2>1. PICK y : y = [req[q] EXCEPT !.stale = TRUE]
    OBVIOUS
  <2>2. /\ y \in RequestType /\ y.pc = req[q].pc /\ y.kind = req[q].kind /\ y.owner = req[q].owner
        /\ y.todo = req[q].todo /\ y.got = req[q].got /\ y.cur = req[q].cur
    BY <2>0, <2>1, StaleSet
  <2>. QED
    BY <1>3, <2>0, <2>1, <2>2
<1>5. TypeOK'
  <2>1. req' \in [Slots -> RequestType]
    <3>1. req' = [q \in Slots |-> req'[q]]
      BY DEF EndPath
    <3>. QED
      BY <1>4, <3>1
  <2>. QED
    BY <1>1, <1>2, <2>1 DEF Inv, TypeOK
<1>6. \A q \in Slots : /\ (Starting(q)' <=> Starting(q)) /\ (Ending(q)' <=> Ending(q))
                       /\ (Managing(q)' <=> Managing(q))
  BY <1>4 DEF Starting, Ending, Managing
<1>7. RequestsAreShaped'
  <2>1. ASSUME NEW q \in Slots PROVE Shape(q)'
    <3>1. Shape(q)
      BY DEF Inv, RequestsAreShaped
    <3>. QED
      BY <1>4, <3>1 DEF Shape, OfRound, OfApi
  <2>. QED
    BY <2>1 DEF RequestsAreShaped
<1>8. MutexIsExclusive' /\ TableIsBusy' /\ (Patient => TableIsOwned')
  BY <1>1, <1>4, <1>6, TableSame DEF Inv, MutexIsExclusive
<1>9. ASSUME Calm' PROVE Undisturbed'
  <2>1. Undisturbed /\ rec[p] = None /\ \A q \in Slots : req[q].cur # p
    BY <1>1, <1>9 DEF Inv, Calm, Concerned
  <2>2. rec' = rec
    BY <1>1, <2>1 DEF Inv, TypeOK
  <2>3. job' = job
    <3>1. job[p] # "current"
      BY <2>1, RoundsAssumption DEF Undisturbed, JobsRecord
    <3>. QED
      BY <1>1, <3>1 DEF Inv, TypeOK
  <2>4. req' = req
    <3>1. \A q \in Slots : req'[q] = req[q]
      BY <1>3, <2>1
    <3>2. req' = [q \in Slots |-> req'[q]]
      BY DEF EndPath
    <3>. QED
      BY <3>1, <3>2 DEF Inv, TypeOK
  <2>5. disturbed' = disturbed
    BY <1>1, <1>9 DEF Calm, Inv, TypeOK
  <2>6. \A v \in Paths : v # p => stream'[v] = stream[v]
    BY <1>1 DEF Inv, TypeOK
  <2>7. ASSUME NEW q \in Slots, req[q].pc = "set" PROVE stream'[req[q].cur]
    <3>1. stream[req[q].cur] /\ Shape(q) /\ req[q].todo \subseteq TablePaths
      BY <2>1, <2>7, RequestFields DEF Undisturbed, RequestRecords, Inv, RequestsAreShaped
    <3>2. req[q].cur \in Paths
      BY <2>7, <3>1 DEF Shape, OfApi, Paths
    <3>. QED
      BY <2>1, <2>6, <3>1, <3>2
  <2>. QED
    BY <1>1, <2>1, <2>2, <2>3, <2>4, <2>5, <2>6, <2>7, StreamOnly
<1>. QED
  BY <1>5, <1>7, <1>8, <1>9 DEF Inv

(***************************************************************************)
(* Theorems.                                                               *)
(***************************************************************************)
LEMMA InitInv ==
    ASSUME Init
    PROVE  Inv
<1>. USE RoundsAssumption
<1>1. Idle \in RequestType
  BY DEF Idle, RequestType
<1>2. TypeOK
  BY <1>1 DEF Init, TypeOK
<1>3. \A r \in Slots : /\ req[r] = Idle /\ req[r].pc = "idle" /\ req[r].owner = None
                       /\ req[r].stale = FALSE
                       /\ ~Managing(r) /\ ~Starting(r) /\ ~Ending(r)
  BY DEF Init, Idle, Managing, Starting, Ending
<1>4. RequestsAreShaped
  BY <1>3 DEF RequestsAreShaped, Shape
<1>5. MutexIsExclusive
  BY <1>3 DEF Init, MutexIsExclusive
<1>6. TableIsBusy /\ TableIsOwned
  BY <1>3 DEF Init, TableIsBusy, TableIsOwned, HeldIsActive
<1>7. Undisturbed
  <2>1. RoundRecords /\ JobsRecord /\ RecordersBelong
    BY DEF Init, RoundRecords, JobsRecord, RecordersBelong
  <2>2. \A r \in Slots : RequestRecords(r)
    BY <1>3 DEF RequestRecords
  <2>. QED
    BY <2>1, <2>2 DEF Undisturbed
<1>. QED
  BY <1>2, <1>4, <1>5, <1>6, <1>7 DEF Inv

LEMMA NextInv ==
    ASSUME Inv, [Next]_vars
    PROVE  Inv'
<1>1. CASE UNCHANGED vars
  BY <1>1, CrashStep DEF vars, envVars, Inv, TypeOK
<1>2. ASSUME NEW r \in Slots, RequestStep(r), UNCHANGED used PROVE Inv'
  <2>1. CASE LockTable(r)
    BY <1>2, <2>1, LockTableStep
  <2>2. CASE Polled(r) \/ TimedOut(r) \/ \E p \in TablePaths : StartView(r, p)
    BY <1>2, <2>2, StartViewStep
  <2>3. CASE StartRecording(r)
    BY <1>2, <2>3, StartRecordingStep
  <2>4. CASE FinishStart(r)
    BY <1>2, <2>4, FinishStartStep
  <2>5. CASE UnlockTable(r)
    BY <1>2, <2>5, UnlockTableStep
  <2>6. CASE FinishEnd(r)
    BY <1>2, <2>6, FinishEndStep
  <2>7. CASE MgrStart(r)
    BY <1>2, <2>7, MgrStartStep
  <2>8. CASE MgrInsert(r)
    BY <1>2, <2>8, MgrInsertStep
  <2>9. CASE MgrStop(r)
    BY <1>2, <2>9, MgrStopStep
  <2>10. CASE CloseRecorder(r)
    BY <1>2, <2>10, CloseRecorderStep
  <2>11. CASE ClearRecorder(r)
    BY <1>2, <2>11, ClearRecorderStep
  <2>12. CASE \E p \in TablePaths : EndView(r, p)
    BY <1>2, <2>12, EndViewStep
  <2>. QED
    BY <1>2, <2>1, <2>2, <2>3, <2>4, <2>5, <2>6, <2>7, <2>8, <2>9, <2>10, <2>11, <2>12
       DEF RequestStep
<1>3. ASSUME NEW r \in Slots, NEW o \in Owners, NEW kind \in {"start", "end"}, SendRound(r, kind, o),
             UNCHANGED used
      PROVE  Inv'
  BY <1>3, SendRoundStep
<1>4. ASSUME NEW r \in Slots, NEW p \in ApiPaths, NEW kind \in {"apiStart", "apiStop"},
             SendApi(r, kind, p), UNCHANGED used
      PROVE  Inv'
  BY <1>4, SendApiStep
<1>5. ASSUME NEW p \in Paths, Publish(p) \/ Unpublish(p) \/ EndPath(p), UNCHANGED used PROVE Inv'
  BY <1>5, PublishStep, UnpublishStep, EndPathStep
<1>. QED
  BY <1>1, <1>2, <1>3, <1>4, <1>5 DEF Next

(* The inductive invariant holds of every reachable state.                 *)
THEOREM Invariance == Spec => []Inv
<1>1. Init => Inv
  BY InitInv
<1>2. Inv /\ [Next]_vars => Inv'
  BY NextInv
<1>. QED
  BY <1>1, <1>2, PTL DEF Spec

(* The types of the table, the manager, the requests and the paths.        *)
THEOREM TypeCorrect == Spec => []TypeOK
<1>1. Inv => TypeOK
  BY DEF Inv
<1>. QED
  BY <1>1, Invariance, PTL

(* Neither the table nor the mutex of the manager is kept by a request     *)
(* that has been answered (startRound and stopRound of split.go, the       *)
(* critical sections of manager.go): whoever the callers are, and whatever *)
(* publishers do.                                                          *)
THEOREM NothingIsKeptHolds == Spec => []NothingIsKept
<1>1. ASSUME Inv PROVE TableIsFreed
  BY <1>1 DEF Inv, TableIsBusy, TableIsFreed, Starting
<1>2. ASSUME Inv PROVE MutexIsFreed
  <2>1. TypeOK /\ MutexIsExclusive
    BY <1>2 DEF Inv
  <2>2. mu # None => mu \in Slots
    BY <2>1 DEF TypeOK
  <2>. QED
    BY <2>1, <2>2 DEF MutexIsExclusive, MutexIsFreed, Managing
<1>3. Inv => NothingIsKept
  BY <1>1, <1>2 DEF NothingIsKept
<1>. QED
  BY <1>3, Invariance, PTL

(* "only the same owner that opened the round may close it" (split.go): an *)
(* owner that was told it has the table has it until its own round end,    *)
(* when owners wait for their answers.  Without that, MCRoundsOwner shows  *)
(* how the table is lost.                                                  *)
THEOREM HeldIsActiveHolds ==
    ASSUME Patient
    PROVE  Spec => []HeldIsActive
<1>1. Inv => HeldIsActive
  BY DEF Inv, TableIsOwned
<1>. QED
  BY <1>1, Invariance, PTL

(* As long as no publisher leaves, every view of an open round is recorded *)
(* by the round, and every recorder belongs to an open round, to a         *)
(* recording of the manager or to a request: for owners that wait for      *)
(* their answers, and views that are not recorded through the API as well. *)
THEOREM RecordersAreOwnedHolds ==
    ASSUME Patient, TablePaths \cap ApiPaths = {}
    PROVE  Spec => []RecordersAreOwned
<1>1. ASSUME Inv PROVE RecordersAreOwned
  <2>1. CASE disturbed
    BY <2>1 DEF RecordersAreOwned, RoundRecords, NoOrphanRecorder
  <2>2. CASE ~disturbed
    <3>1. Undisturbed
      BY <1>1, <2>2 DEF Inv, Calm
    <3>2. ASSUME NEW e \in live
          PROVE  \/ active # None /\ active.owner = e[2] /\ e[1] \in active.paths
                 \/ e[2] = Api /\ job[e[1]] = "current"
                 \/ \E r \in Slots : /\ req[r].owner = e[2]
                                     /\ e[1] \in req[r].todo \cup req[r].got \cup {req[r].cur}
      <4>1. Owned(e[1], e[2])
        BY <3>1 DEF Undisturbed, RecordersBelong
      <4>. QED
        BY <4>1 DEF Owned, Owns
    <3>. QED
      BY <3>1, <3>2 DEF Undisturbed, RecordersAreOwned, NoOrphanRecorder
  <2>. QED
    BY <2>1, <2>2
<1>2. Inv => RecordersAreOwned
  BY <1>1
<1>. QED
  BY <1>2, Invariance, PTL
=============================================================================
