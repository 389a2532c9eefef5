----------------------------- MODULE HLSProofs ------------------------------
(***************************************************************************)
(* Proofs about HLS, for any number of paths, muxers and sessions and      *)
(* every way in which the server can be configured and used.               *)
(***************************************************************************)
EXTENDS HLS, TLAPS

-----------------------------------------------------------------------------
(***************************************************************************)
(* The inductive invariant.                                                *)
(***************************************************************************)
(* Who has a goroutine has a path.                                         *)
Named == \A a \in Readers : phase[a] \notin {"none", "closed"} => name[a] \in Names

(* A muxer in the server's map has not ended and is that of its name; nor  *)
(* has one that an API call is still to look at.                           *)
MapIsRight ==
    /\ \A n \in Names : muxers[n] # None => phase[muxers[n]] # "none" /\ name[muxers[n]] = n
    /\ \A i \in visit : srv = "api" /\ phase[i] # "none"

(* Who may hold a muxer's mutex in each phase of its goroutine, and that   *)
(* sessions are closed only under it.                                      *)
Starting == {"adding", "routed", "held", "joined"}

LockOf(i) ==
    /\ phase[i] \in Starting <=> holder[i] = "init"
    /\ phase[i] = "none" => holder[i] = "none"
    /\ holder[i] = "muxer" => phase[i] \in {"up", "destroying"}
    /\ phase[i] = "destroying" => holder[i] = "muxer"
    /\ holder[i] = "session" => phase[i] \in {"up", "leaving", "ending"}
    /\ holder[i] = "server" => srv = "api"
    /\ holder[i] \in {"none", "init"} => victims[i] = {}
    /\ inst[i] => phase[i] \in {"up", "leaving", "ending"}

LockIsRight == \A i \in Muxers : LockOf(i)

(* From getMuxer on a session has its muxer; from addSession on it is in   *)
(* the muxer's map, or about to be closed by who took it out, and it is    *)
(* before the muxer ends.                                                  *)
Known(s) ==
    /\ phase[s] \in {"got", "replacing", "added", "open"} => smux[s] \in Muxers
    /\ phase[s] = "replacing" => holder[smux[s]] = "session"
    /\ phase[s] \in {"added", "open"} =>
         /\ phase[smux[s]] \in {"up", "leaving", "ending", "destroying"}
         /\ s \in registry[smux[s]] \cup victims[smux[s]]
         /\ phase[smux[s]] = "destroying" => s \in victims[smux[s]]

SessionsAreKnown ==
    /\ \A s \in Sessions : Known(s)
    /\ \A s, t \in Sessions : phase[s] = "replacing" /\ phase[t] = "replacing" /\ smux[s] = smux[t] => s = t

(* Of a path that is always remuxed the server is told everything: it has  *)
(* a muxer only while the path is ready, or while it is being told that it *)
(* is not.                                                                 *)
Remuxed(n) == AlwaysRemux /\ n \notin OnDemand

ReadyIsTold ==
    /\ srv # "starting" => registered
    /\ \A n \in Names :
        /\ ready[n] => on[n] /\ tell[n] \in {"no", "notReady"}
        /\ tell[n] = "ready" => on[n]
        /\ muxers[n] # None => srv # "starting"
        /\ Remuxed(n) /\ muxers[n] # None => auto[muxers[n]] /\ (ready[n] \/ mgr = <<n, "notReady">>)
        /\ mgr = <<n, "ready">> => ready[n]
        /\ Remuxed(n) /\ mgr = <<n, "ready">> => muxers[n] = None

Inv == TypeOK /\ Named /\ NoOrphanMuxer /\ ReadersAreAlive /\ MapIsRight /\ LockIsRight /\ SessionsAreKnown

-----------------------------------------------------------------------------
(***************************************************************************)
(* Types.                                                                  *)
(***************************************************************************)
(* A muxer that can be created is one, and it is nobody's.                 *)
LEMMA FreeFacts ==
    ASSUME TypeOK, NEW i \in Free
    PROVE  i \in Muxers /\ phase[i] = "none" /\ \A s \in Sessions : smux[s] # i
BY HLSAssumption DEF TypeOK, Free, Mode

(* What createMuxer does, to the muxers it creates and to the others.      *)
CreatedAs(ns, ids, isAuto) ==
    /\ muxers' = [n \in Names |-> IF n \in ns THEN ids[n] ELSE muxers[n]]
    /\ muxers' \in [Names -> Muxers \cup {None}]
    /\ name' \in [Readers -> Names \cup {None}]
    /\ auto' \in [Muxers -> BOOLEAN] /\ cancelled' \in [Muxers -> BOOLEAN]
    /\ holder' \in [Muxers -> {"none", "init", "muxer", "server", "session"}]
    /\ \A n \in ns : /\ ids[n] \in Muxers /\ phase[ids[n]] = "none"
                     /\ name'[ids[n]] = n /\ auto'[ids[n]] = isAuto
                     /\ ~cancelled'[ids[n]] /\ holder'[ids[n]] = "init"
    /\ \A a \in Readers : (\A n \in ns : ids[n] # a) => name'[a] = name[a]
    /\ \A i \in Muxers : (\A n \in ns : ids[n] # i) =>
          auto'[i] = auto[i] /\ cancelled'[i] = cancelled[i] /\ holder'[i] = holder[i]

(* Each has its own name.                                                  *)
LEMMA Created ==
    ASSUME TypeOK, NEW ns, ns \subseteq Names, NEW ids \in [ns -> Free], NEW isAuto \in BOOLEAN,
           \A m, n \in ns : ids[m] = ids[n] => m = n,
           createMuxers(ns, ids, isAuto)
    PROVE  CreatedAs(ns, ids, isAuto)
<1>. DEFINE new(i) == \E n \in ns : ids[n] = i
            of(i) == CHOOSE n \in ns : ids[n] = i
<1>1. /\ muxers' = [n \in Names |-> IF n \in ns THEN ids[n] ELSE muxers[n]]
      /\ name' = [a \in Readers |-> IF new(a) THEN of(a) ELSE name[a]]
      /\ auto' = [i \in Muxers |-> IF new(i) THEN isAuto ELSE auto[i]]
      /\ cancelled' = [i \in Muxers |-> ~new(i) /\ cancelled[i]]
      /\ holder' = [i \in Muxers |-> IF new(i) THEN "init" ELSE holder[i]]
  BY DEF createMuxers
<1>2. \A n \in ns : ids[n] \in Muxers /\ phase[ids[n]] = "none"
  BY FreeFacts
<1>3. \A a : new(a) => of(a) \in ns /\ ids[of(a)] = a
  OBVIOUS
<1>4. \A n \in ns : new(ids[n]) /\ of(ids[n]) = n
  <2>. SUFFICES ASSUME NEW n \in ns PROVE new(ids[n]) /\ of(ids[n]) = n
    OBVIOUS
  <2>1. new(ids[n])
    OBVIOUS
  <2>2. of(ids[n]) \in ns /\ ids[of(ids[n])] = ids[n]
    BY <1>3, <2>1
  <2>. QED
    BY <2>1, <2>2
<1>. HIDE DEF of
<1>5. /\ muxers' \in [Names -> Muxers \cup {None}]
      /\ holder' \in [Muxers -> {"none", "init", "muxer", "server", "session"}]
  BY <1>1, <1>2 DEF TypeOK
<1>6. name' \in [Readers -> Names \cup {None}]
  BY <1>1, <1>3 DEF TypeOK
<1>7. auto' \in [Muxers -> BOOLEAN]
  <2>1. \A i \in Muxers : (IF new(i) THEN isAuto ELSE auto[i]) \in BOOLEAN
    BY DEF TypeOK
  <2>. QED
    BY <1>1, <2>1
<1>8. cancelled' \in [Muxers -> BOOLEAN]
  BY <1>1
<1>9. \A n \in ns : /\ name'[ids[n]] = n /\ auto'[ids[n]] = isAuto
                    /\ ~cancelled'[ids[n]] /\ holder'[ids[n]] = "init"
  BY <1>1, <1>2, <1>4 DEF Readers
<1>10. \A a \in Readers : (\A n \in ns : ids[n] # a) => name'[a] = name[a]
  BY <1>1
<1>11. \A i \in Muxers : (\A n \in ns : ids[n] # i) =>
          auto'[i] = auto[i] /\ cancelled'[i] = cancelled[i] /\ holder'[i] = holder[i]
  <2>1. \A i \in Muxers : cancelled[i] \in BOOLEAN
    BY DEF TypeOK
  <2>. QED
    BY <1>1, <2>1
<1>. QED
  BY <1>1, <1>2, <1>5, <1>6, <1>7, <1>8, <1>9, <1>10, <1>11 DEF CreatedAs

(* The muxers of new are created; a step that does this leaves the others  *)
(* as they are.                                                            *)
Creation(new) ==
    /\ new \subseteq Muxers
    /\ \A i \in new : /\ phase[i] = "none" /\ \A s \in Sessions : smux[s] # i
                      /\ name'[i] \in Names /\ muxers[name'[i]] = None /\ muxers'[name'[i]] = i
                      /\ phase'[i] = "adding"
                      /\ ~cancelled'[i] /\ holder'[i] = "init"
    /\ \A a \in Readers \ new : name'[a] = name[a]
    /\ \A i \in Muxers \ new : /\ phase'[i] = phase[i] /\ auto'[i] = auto[i]
                               /\ cancelled'[i] = cancelled[i] /\ holder'[i] = holder[i]
    /\ \A n \in Names : \/ muxers'[n] = muxers[n]
                        \/ muxers[n] = None /\ muxers'[n] \in new /\ name'[muxers'[n]] = n

CreatedTypes ==
    /\ muxers' \in [Names -> Muxers \cup {None}]
    /\ name' \in [Readers -> Names \cup {None}] /\ gone' \subseteq Readers
    /\ phase' \in [Readers -> MuxerPhases \cup SessionPhases]
    /\ auto' \in [Muxers -> BOOLEAN] /\ cancelled' \in [Muxers -> BOOLEAN]
    /\ holder' \in [Muxers -> {"none", "init", "muxer", "server", "session"}]

(* SetHLSServer and PathReady create the muxers that are missing.          *)
LEMMA RemuxCreates ==
    ASSUME TypeOK, NEW ns, ns \subseteq Names, RemuxMissing(ns)
    PROVE  /\ CreatedTypes
           /\ \A s \in Sessions : phase'[s] = phase[s]
           /\ \E new : /\ Creation(new)
                       /\ \A i \in new : name'[i] \in ns /\ Remuxed(name'[i]) /\ auto'[i]
                       /\ \A n \in ns : Remuxed(n) /\ muxers[n] = None => muxers'[n] \in new
<1>. DEFINE missing == {n \in ns \ OnDemand : AlwaysRemux /\ muxers[n] = None}
<1>1. PICK ids \in [missing -> Free] :
        /\ \A m, n \in missing : ids[m] = ids[n] => m = n
        /\ createMuxers(missing, ids, TRUE)
        /\ phase' = [a \in Readers |-> IF \E n \in missing : ids[n] = a THEN "adding" ELSE phase[a]]
        /\ gone' = gone \ {ids[n] : n \in missing}
  BY DEF RemuxMissing
<1>2. missing \subseteq Names
  OBVIOUS
<1>. DEFINE new == {i \in Muxers : \E n \in missing : ids[n] = i}
<1>. HIDE DEF missing
<1>3. CreatedAs(missing, ids, TRUE)
  BY <1>1, <1>2, Created
<1>. USE DEF missing
<1>4. \A n \in missing : \A s \in Sessions : smux[s] # ids[n]
  BY <1>1, FreeFacts
<1>5. \A n \in missing : n \in ns /\ Remuxed(n) /\ muxers[n] = None /\ n \in Names
  BY DEF Remuxed
<1>6. \A n \in ns : Remuxed(n) /\ muxers[n] = None => n \in missing
  BY DEF Remuxed
<1>. HIDE DEF missing
<1>. USE DEF CreatedAs
<1>7. Creation(new)
  <2>1. \A i \in new : /\ phase[i] = "none" /\ \A s \in Sessions : smux[s] # i
                       /\ name'[i] \in Names /\ muxers[name'[i]] = None /\ muxers'[name'[i]] = i
                       /\ phase'[i] = "adding"
                       /\ ~cancelled'[i] /\ holder'[i] = "init"
    BY <1>1, <1>3, <1>4, <1>5 DEF Readers
  <2>2. \A a \in Readers \ new : name'[a] = name[a]
    BY <1>3
  <2>3. \A i \in Muxers \ new : /\ phase'[i] = phase[i] /\ auto'[i] = auto[i]
                                /\ cancelled'[i] = cancelled[i] /\ holder'[i] = holder[i]
    <3>1. \A i \in Muxers \ new : phase'[i] = phase[i]
      BY <1>1 DEF Readers
    <3>2. \A i \in Muxers \ new : \A n \in missing : ids[n] # i
      OBVIOUS
    <3>. QED
      BY <1>3, <3>1, <3>2
  <2>4. \A n \in Names : \/ muxers'[n] = muxers[n]
                         \/ muxers[n] = None /\ muxers'[n] \in new /\ name'[muxers'[n]] = n
    <3>1. \A n \in Names : /\ n \in missing => muxers'[n] = ids[n]
                           /\ n \notin missing => muxers'[n] = muxers[n]
      BY <1>3
    <3>2. \A n \in missing : muxers[n] = None /\ ids[n] \in new /\ name'[ids[n]] = n
      BY <1>3, <1>5
    <3>3. \A n \in missing : muxers[n] = None /\ muxers'[n] \in new /\ name'[muxers'[n]] = n
      BY <1>5, <3>1, <3>2
    <3>. HIDE DEF new
    <3>. QED
      BY <3>1, <3>3
  <2>. QED
    BY <2>1, <2>2, <2>3, <2>4 DEF Creation
<1>8. CreatedTypes
  <2>1. phase' \in [Readers -> MuxerPhases \cup SessionPhases]
    BY <1>1 DEF TypeOK, MuxerPhases
  <2>. QED
    BY <1>1, <1>3, <2>1 DEF TypeOK, CreatedTypes
<1>9. \A s \in Sessions : phase'[s] = phase[s]
  BY <1>1, <1>3, HLSAssumption DEF Readers
<1>10. \A i \in new : name'[i] \in ns /\ Remuxed(name'[i]) /\ auto'[i]
  BY <1>3, <1>5
<1>11. \A n \in ns : Remuxed(n) /\ muxers[n] = None => muxers'[n] \in new
  BY <1>3, <1>6
<1>. QED
  BY <1>7, <1>8, <1>9, <1>10, <1>11


(* getMuxer gives a session the muxer of its path, refuses it, or creates  *)
(* one muxer.                                                              *)
LEMMA GetCreates ==
    ASSUME TypeOK, Named, NEW s \in Sessions, getMuxer(s)
    PROVE  /\ CreatedTypes /\ smux' \in [Sessions -> Muxers \cup {None}]
           /\ phase[s] = "joined" /\ phase'[s] \in {"got", "quitting"}
           /\ phase'[s] = "got" => smux'[s] \in Muxers
           /\ \A t \in Sessions \ {s} : phase'[t] = phase[t] /\ smux'[t] = smux[t]
           /\ \E new : Creation(new) /\ \A i \in new : ~Remuxed(name'[i])
<1>. DEFINE n == name[s]
<1>1. n \in Names /\ phase[s] = "joined" /\ s \in Readers /\ s \notin Muxers
  BY HLSAssumption DEF getMuxer, Named, Readers
<1>2. CASE \E i \in Free :
              /\ muxers[n] = None /\ ~(AlwaysRemux /\ n \notin OnDemand)
              /\ createMuxers({n}, [m \in {n} |-> i], FALSE)
              /\ smux' = [smux EXCEPT ![s] = i]
              /\ phase' = [phase EXCEPT ![s] = "got", ![i] = "adding"]
              /\ gone' = gone \ {i}
  <2>1. PICK i \in Free :
              /\ muxers[n] = None /\ ~(AlwaysRemux /\ n \notin OnDemand)
              /\ createMuxers({n}, [m \in {n} |-> i], FALSE)
              /\ smux' = [smux EXCEPT ![s] = i]
              /\ phase' = [phase EXCEPT ![s] = "got", ![i] = "adding"]
              /\ gone' = gone \ {i}
    BY <1>2
  <2>. DEFINE ids == [m \in {n} |-> i]
  <2>2. i \in Muxers /\ i \in Readers /\ phase[i] = "none" /\ \A t \in Sessions : smux[t] # i
    BY FreeFacts DEF Readers
  <2>3. ids \in [{n} -> Free] /\ ids[n] = i /\ \A m, k \in {n} : ids[m] = ids[k] => m = k
    BY <2>1
  <2>4. createMuxers({n}, ids, FALSE) /\ {n} \subseteq Names
    BY <1>1, <2>1
  <2>. HIDE DEF ids
  <2>5. CreatedAs({n}, ids, FALSE)
    BY <2>3, <2>4, Created
  <2>6. /\ muxers' = [m \in Names |-> IF m = n THEN i ELSE muxers[m]]
        /\ name'[i] = n /\ auto'[i] = FALSE /\ ~cancelled'[i] /\ holder'[i] = "init"
        /\ \A a \in Readers \ {i} : name'[a] = name[a]
        /\ \A j \in Muxers \ {i} :
              auto'[j] = auto[j] /\ cancelled'[j] = cancelled[j] /\ holder'[j] = holder[j]
    BY <2>3, <2>5 DEF CreatedAs
  <2>7. /\ phase'[s] = "got" /\ phase'[i] = "adding"
        /\ \A a \in Readers \ {s, i} : phase'[a] = phase[a]
        /\ phase' \in [Readers -> MuxerPhases \cup SessionPhases]
    <3>1. phase \in [Readers -> MuxerPhases \cup SessionPhases]
          /\ "got" \in SessionPhases /\ "adding" \in MuxerPhases
      BY DEF TypeOK, MuxerPhases, SessionPhases
    <3>2. phase' = [phase EXCEPT ![s] = "got", ![i] = "adding"] /\ s # i
      BY <1>1, <2>1, <2>2
    <3>. QED
      BY <1>1, <2>2, <3>1, <3>2
  <2>8. Creation({i})
    <3>1. \A j \in Muxers \ {i} : phase'[j] = phase[j]
      BY <1>1, <2>7 DEF Readers
    <3>. QED
      BY <1>1, <2>1, <2>2, <2>6, <2>7, <3>1 DEF Creation
  <2>9. CreatedTypes
    BY <2>1, <2>5, <2>7 DEF TypeOK, CreatedAs, CreatedTypes
  <2>10. ~Remuxed(name'[i])
    BY <2>1, <2>6 DEF Remuxed
  <2>11. /\ smux' \in [Sessions -> Muxers \cup {None}] /\ smux'[s] \in Muxers
         /\ \A t \in Sessions \ {s} : phase'[t] = phase[t] /\ smux'[t] = smux[t]
    BY <2>1, <2>2, <2>7, HLSAssumption DEF TypeOK, Readers
  <2>12. \E new : Creation(new) /\ \A j \in new : ~Remuxed(name'[j])
    <3>. WITNESS {i}
    <3>. QED
      BY <2>8, <2>10
  <2>. QED
    BY <1>1, <2>7, <2>9, <2>11, <2>12
<1>3. CASE UNCHANGED <<muxers, name, auto, cancelled, holder, gone>>
           /\ \/ /\ phase' = [phase EXCEPT ![s] = "got"] /\ smux' = [smux EXCEPT ![s] = muxers[n]]
                 /\ muxers[n] # None
              \/ phase' = [phase EXCEPT ![s] = "quitting"] /\ smux' = smux
  <2>1. /\ phase' \in [Readers -> MuxerPhases \cup SessionPhases] /\ phase'[s] \in {"got", "quitting"}
        /\ \A a \in Readers \ {s} : phase'[a] = phase[a]
    BY <1>1, <1>3 DEF TypeOK, SessionPhases
  <2>2. /\ smux' \in [Sessions -> Muxers \cup {None}] /\ (phase'[s] = "got" => smux'[s] \in Muxers)
        /\ \A t \in Sessions \ {s} : smux'[t] = smux[t]
    BY <1>1, <1>3 DEF TypeOK
  <2>3. \E new : Creation(new) /\ \A j \in new : ~Remuxed(name'[j])
    <3>1. Creation({})
      BY <1>1, <1>3, <2>1 DEF Creation, Readers
    <3>. WITNESS {}
    <3>. QED
      BY <3>1
  <2>4. CreatedTypes
    BY <1>3, <2>1 DEF TypeOK, CreatedTypes
  <2>. QED
    BY <1>1, <2>1, <2>2, <2>3, <2>4 DEF Readers
<1>. QED
  BY <1>2, <1>3 DEF getMuxer

(* Every step keeps the types, and whoever has a goroutine has a path.     *)
LEMMA TypeStep ==
    ASSUME TypeOK, Named, [Next]_vars
    PROVE  TypeOK' /\ Named'
<1>. USE DEF TypeOK
<1>0. Muxers \subseteq Readers /\ Sessions \subseteq Readers /\ Muxers \cap Sessions = {}
  BY HLSAssumption DEF Readers
<1>m. mode' = mode
  BY DEF Next, vars
(* The goroutine of one muxer or session goes on.                          *)
<1>1. ASSUME NEW a \in Readers, NEW p, phase' = [phase EXCEPT ![a] = p],
             a \in Muxers => p \in MuxerPhases, a \in Sessions => p \in SessionPhases
      PROVE  /\ phase' \in [Readers -> MuxerPhases \cup SessionPhases]
             /\ \A i \in Muxers : phase'[i] \in MuxerPhases
             /\ \A s \in Sessions : phase'[s] \in SessionPhases
             /\ name' = name /\ phase[a] \notin {"none", "closed"} => Named'
  <2>1. phase' \in [Readers -> MuxerPhases \cup SessionPhases]
    BY <1>1 DEF Readers
  <2>2. \A i \in Muxers : phase'[i] \in MuxerPhases
    BY <1>0, <1>1
  <2>3. \A s \in Sessions : phase'[s] \in SessionPhases
    BY <1>0, <1>1
  <2>4. name' = name /\ phase[a] \notin {"none", "closed"} => Named'
    BY <1>1 DEF Named
  <2>. QED
    BY <2>1, <2>2, <2>3, <2>4
<1>2. ASSUME NEW ns, ns \subseteq Names, RemuxMissing(ns)
      PROVE  /\ CreatedTypes /\ Named'
             /\ \A i \in Muxers : phase'[i] \in MuxerPhases
             /\ \A s \in Sessions : phase'[s] \in SessionPhases
  <2>1. CreatedTypes /\ \A s \in Sessions : phase'[s] = phase[s]
    BY <1>2, RemuxCreates
  <2>2. PICK new : Creation(new)
    BY <1>2, RemuxCreates
  <2>3. \A i \in Muxers : phase'[i] \in MuxerPhases
    BY <2>2 DEF Creation, MuxerPhases
  <2>4. Named'
    BY <1>0, <2>1, <2>2 DEF Creation, Named, Readers
  <2>. QED
    BY <2>1, <2>3, <2>4
<1>3. CASE SetHLSServer \/ \E n \in Names : PathReady(n)
  <2>1. CreatedTypes /\ Named' /\ (\A i \in Muxers : phase'[i] \in MuxerPhases)
        /\ \A s \in Sessions : phase'[s] \in SessionPhases
    <3>1. CASE SetHLSServer
      BY <1>2, <3>1 DEF SetHLSServer
    <3>2. ASSUME NEW n \in Names, PathReady(n) PROVE RemuxMissing({n}) /\ {n} \subseteq Names
      BY <3>2 DEF PathReady
    <3>. QED
      BY <1>2, <1>3, <3>1, <3>2
  <2>2. /\ srv' \in {"starting", "select", "api"} /\ registered' \in BOOLEAN /\ mgr' \in {mgr, None}
        /\ UNCHANGED <<visit, kick, ready, on, tell, readers, inst, registry, victims, smux, broken>>
    BY <1>3 DEF SetHLSServer, PathReady
  <2>. QED
    BY <1>m, <2>1, <2>2 DEF CreatedTypes
<1>4. CASE \E s \in Sessions : getMuxer(s)
  <2>1. PICK s \in Sessions : getMuxer(s)
    BY <1>4
  <2>2. PICK new : Creation(new)
    BY <2>1, GetCreates
  <2>3. /\ CreatedTypes /\ smux' \in [Sessions -> Muxers \cup {None}]
        /\ phase[s] = "joined" /\ phase'[s] \in {"got", "quitting"}
        /\ \A t \in Sessions \ {s} : phase'[t] = phase[t]
    BY <2>1, GetCreates
  <2>4. \A i \in Muxers : phase'[i] \in MuxerPhases
    BY <2>2 DEF Creation, MuxerPhases
  <2>5. \A t \in Sessions : phase'[t] \in SessionPhases
    BY <2>3 DEF SessionPhases
  <2>6. Named'
    BY <1>0, <2>2, <2>3 DEF Creation, Named, Readers
  <2>7. UNCHANGED <<srv, visit, kick, pathVars, readers, inst, registry, victims, broken>>
    BY <2>1 DEF getMuxer
  <2>. QED
    BY <1>m, <2>3, <2>4, <2>5, <2>6, <2>7 DEF CreatedTypes, pathVars
<1>5. ASSUME NEW n \in Names,
             PathNotReady(n) \/ SwitchStream(n) \/ doSetPathReady(n) \/ CloseReaders(n)
      PROVE  TypeOK' /\ Named'
  <2>1. UNCHANGED <<phase, name, auto, inst, holder, registry, victims, smux, broken, srv, visit, kick, gone>>
    BY <1>5 DEF PathNotReady, SwitchStream, doSetPathReady, CloseReaders, srvVars, readVars, muxVars
  <2>2. CASE PathNotReady(n)
    <3>1. mgr' = None /\ UNCHANGED <<registered, ready, on, tell, readers>>
      BY <2>2 DEF PathNotReady, readVars
    <3>2. muxers' \in [Names -> Muxers \cup {None}] /\ cancelled' \in [Muxers -> BOOLEAN]
      BY <2>2 DEF PathNotReady
    <3>. QED
      BY <1>m, <2>1, <3>1, <3>2 DEF Named
  <2>3. CASE SwitchStream(n)
    BY <1>m, <2>1, <2>3 DEF SwitchStream, Named, readVars, muxVars, srvVars
  <2>4. CASE doSetPathReady(n)
    BY <1>m, <2>1, <2>4 DEF doSetPathReady, Named, readVars, muxVars, srvVars
  <2>5. CASE CloseReaders(n)
    BY <1>m, <2>1, <2>5 DEF CloseReaders, Named, srvVars
  <2>. QED
    BY <1>5, <2>2, <2>3, <2>4, <2>5
<1>6. ASSUME NEW n \in Names, RecreatePath(n) PROVE TypeOK' /\ Named'
  <2>1. /\ phase' \in [Readers -> MuxerPhases \cup SessionPhases]
        /\ \A i \in Muxers : phase'[i] \in MuxerPhases
        /\ \A s \in Sessions : phase'[s] \in SessionPhases
    BY <1>0, <1>6 DEF RecreatePath, AfterFailure, MuxerPhases, SessionPhases
  <2>2. holder' \in [Muxers -> {"none", "init", "muxer", "server", "session"}]
    BY <1>6 DEF RecreatePath, Unlocked
  <2>3. Named'
    BY <1>6 DEF RecreatePath, Named
  <2>4. cancelled' \in [Muxers -> BOOLEAN]
    BY <1>6 DEF RecreatePath
  <2>. QED
    BY <1>m, <1>6, <2>1, <2>2, <2>3, <2>4 DEF RecreatePath, srvVars
<1>7. ASSUME NEW t \in Sessions \cup {None}, APICall(t) PROVE TypeOK' /\ Named'
  BY <1>m, <1>7 DEF APICall, Named, pathVars, readVars, muxVars
<1>8. ASSUME NEW i \in Muxers, APIVisit(i) PROVE TypeOK' /\ Named'
  <2>1. /\ visit' \subseteq Muxers
        /\ holder' \in [Muxers -> {"none", "init", "muxer", "server", "session"}]
        /\ registry' \in [Muxers -> SUBSET Sessions]
    BY <1>8 DEF APIVisit
  <2>2. victims' \in [Muxers -> SUBSET Sessions]
    <3>1. kick \in registry[i] => {kick} \subseteq Sessions
      OBVIOUS
    <3>. QED
      BY <1>8, <3>1 DEF APIVisit
  <2>3. UNCHANGED <<srv, kick, muxers, pathVars, readVars, auto, cancelled, inst, smux, broken>>
    BY <1>8 DEF APIVisit
  <2>. QED
    BY <1>m, <2>1, <2>2, <2>3 DEF Named, pathVars, readVars
<1>9. CASE APIDone
  BY <1>m, <1>9 DEF APIDone, Named, pathVars, readVars, muxVars
<1>10. ASSUME NEW a \in Readers, AddReader(a) \/ PathAddReader(a) \/ HeldAnswered(a) PROVE TypeOK' /\ Named'
  <2>1. PICK p \in {"routed", "joined", "held", AfterFailure(a)} : phase' = [phase EXCEPT ![a] = p]
    BY <1>10 DEF AddReader, PathAddReader, HeldAnswered
  <2>2. (a \in Muxers => p \in MuxerPhases) /\ (a \in Sessions => p \in SessionPhases)
    BY <1>0 DEF AfterFailure, MuxerPhases, SessionPhases
  <2>3. phase[a] \notin {"none", "closed"} /\ name' = name
    BY <1>10 DEF AddReader, PathAddReader, HeldAnswered
  <2>4. /\ phase' \in [Readers -> MuxerPhases \cup SessionPhases]
        /\ \A i \in Muxers : phase'[i] \in MuxerPhases
        /\ \A s \in Sessions : phase'[s] \in SessionPhases
        /\ Named'
    BY <1>1, <2>1, <2>2, <2>3
  <2>5. holder' \in [Muxers -> {"none", "init", "muxer", "server", "session"}]
    BY <1>10 DEF AddReader, PathAddReader, HeldAnswered, Unlocked, muxVars
  <2>6. readers' \in [Names -> SUBSET Readers] /\ gone' \subseteq Readers
    BY <1>10 DEF AddReader, PathAddReader, HeldAnswered
  <2>7. UNCHANGED <<srvVars, pathVars, auto, cancelled, inst, registry, victims, smux, broken>>
    BY <1>10 DEF AddReader, PathAddReader, HeldAnswered, muxVars
  <2>. QED
    BY <1>m, <2>3, <2>4, <2>5, <2>6, <2>7 DEF srvVars, pathVars
<1>11. ASSUME NEW i \in Muxers, FirstInstance(i) \/ InstanceCrashed(i) \/ RecreateInstance(i) \/ StopMuxer(i)
                                 \/ LeavePath(i) \/ DestroyMuxer(i)
       PROVE  TypeOK' /\ Named'
  <2>1. /\ phase' \in [Readers -> MuxerPhases \cup SessionPhases]
        /\ \A j \in Muxers : phase'[j] \in MuxerPhases
        /\ \A s \in Sessions : phase'[s] \in SessionPhases
        /\ Named'
    <3>1. name' = name /\ phase[i] \notin {"none", "closed"}
      BY <1>11 DEF FirstInstance, InstanceCrashed, RecreateInstance, StopMuxer, LeavePath, DestroyMuxer, readVars
    <3>2. CASE phase' = phase
      BY <3>1, <3>2 DEF Named
    <3>3. ASSUME NEW p \in {"up", "leaving", "ending", "destroying"}, phase' = [phase EXCEPT ![i] = p]
          PROVE  /\ phase' \in [Readers -> MuxerPhases \cup SessionPhases]
                 /\ \A j \in Muxers : phase'[j] \in MuxerPhases
                 /\ \A s \in Sessions : phase'[s] \in SessionPhases
                 /\ Named'
      <4>1. p \in MuxerPhases /\ i \in Readers /\ i \notin Sessions
        BY <1>0 DEF MuxerPhases
      <4>. QED
        BY <1>1, <3>1, <3>3, <4>1
    <3>4. \/ phase' = phase
          \/ \E p \in {"up", "leaving", "ending", "destroying"} : phase' = [phase EXCEPT ![i] = p]
      BY <1>11 DEF FirstInstance, InstanceCrashed, RecreateInstance, StopMuxer, LeavePath, DestroyMuxer, readVars
    <3>. QED
      BY <3>2, <3>3, <3>4
  <2>2. /\ holder' \in [Muxers -> {"none", "init", "muxer", "server", "session"}]
        /\ cancelled' \in [Muxers -> BOOLEAN] /\ inst' \in [Muxers -> BOOLEAN]
    <3>1. CASE FirstInstance(i)
      BY <3>1 DEF FirstInstance, Unlocked
    <3>3. CASE InstanceCrashed(i)
      BY <3>3 DEF InstanceCrashed
    <3>2. CASE RecreateInstance(i) \/ StopMuxer(i) \/ LeavePath(i) \/ DestroyMuxer(i)
      BY <3>2 DEF RecreateInstance, StopMuxer, LeavePath, DestroyMuxer, muxVars
    <3>. QED
      BY <1>11, <3>1, <3>2, <3>3
  <2>4. /\ registry' \in [Muxers -> SUBSET Sessions] /\ victims' \in [Muxers -> SUBSET Sessions]
        /\ readers' \in [Names -> SUBSET Readers]
    <3>1. CASE FirstInstance(i) \/ InstanceCrashed(i)
      BY <3>1 DEF FirstInstance, InstanceCrashed
    <3>2. CASE RecreateInstance(i) \/ StopMuxer(i) \/ LeavePath(i) \/ DestroyMuxer(i)
      BY <3>2 DEF RecreateInstance, StopMuxer, LeavePath, DestroyMuxer, muxVars, readVars
    <3>. QED
      BY <1>11, <3>1, <3>2
  <2>3. UNCHANGED <<srvVars, pathVars, gone, name, auto, smux, broken>>
    BY <1>11 DEF FirstInstance, InstanceCrashed, RecreateInstance, StopMuxer, LeavePath, DestroyMuxer, muxVars, readVars
  <2>. QED
    BY <1>m, <2>1, <2>2, <2>3, <2>4 DEF srvVars, pathVars
<1>12. ASSUME NEW i \in Muxers, CloseMuxer(i) PROVE TypeOK' /\ Named'
  <2>1. "none" \in MuxerPhases /\ i \in Readers /\ i \notin Sessions
    BY <1>0 DEF MuxerPhases
  <2>2. /\ phase' \in [Readers -> MuxerPhases \cup SessionPhases]
        /\ \A j \in Muxers : phase'[j] \in MuxerPhases
        /\ \A s \in Sessions : phase'[s] \in SessionPhases
    BY <1>1, <1>12, <2>1 DEF CloseMuxer, Forget
  <2>3. Named' /\ name' \in [Readers -> Names \cup {None}]
    BY <1>12, <2>1 DEF CloseMuxer, Forget, Named
  <2>4. /\ muxers' \in [Names -> Muxers \cup {None}] /\ gone' \subseteq Readers
        /\ auto' \in [Muxers -> BOOLEAN] /\ cancelled' \in [Muxers -> BOOLEAN]
        /\ registry' \in [Muxers -> SUBSET Sessions]
    BY <1>12 DEF CloseMuxer, Forget
  <2>5. UNCHANGED <<srv, visit, kick, pathVars, readers, inst, holder, victims, smux, broken>>
    BY <1>12 DEF CloseMuxer
  <2>. QED
    BY <1>m, <2>2, <2>3, <2>4, <2>5 DEF pathVars
<1>13. ASSUME NEW i \in Muxers, NEW S \in SUBSET Sessions, CleanupSessions(i, S) PROVE TypeOK' /\ Named'
  BY <1>m, <1>13 DEF CleanupSessions, Named, srvVars, pathVars, readVars
<1>14. ASSUME NEW i \in Muxers, NEW s \in Sessions, close2(i, s) PROVE TypeOK' /\ Named'
  <2>1. "closed" \in SessionPhases /\ s \in Readers /\ s \notin Muxers
    BY <1>0 DEF SessionPhases
  <2>2. phase' = [phase EXCEPT ![s] = "closed"] /\ name' = name
    BY <1>14 DEF close2
  <2>3. /\ phase' \in [Readers -> MuxerPhases \cup SessionPhases]
        /\ \A j \in Muxers : phase'[j] \in MuxerPhases
        /\ \A t \in Sessions : phase'[t] \in SessionPhases
    BY <1>1, <2>1, <2>2
  <2>4. Named'
    BY <2>2 DEF Named
  <2>5. /\ victims' \in [Muxers -> SUBSET Sessions] /\ broken' \in {"no", "early", "twice"}
        /\ smux' \in [Sessions -> Muxers \cup {None}] /\ readers' \in [Names -> SUBSET Readers]
    BY <1>14 DEF close2
  <2>6. UNCHANGED <<srvVars, pathVars, gone, name, auto, cancelled, inst, holder, registry>>
    BY <1>14 DEF close2
  <2>. QED
    BY <1>m, <2>3, <2>4, <2>5, <2>6 DEF srvVars, pathVars
<1>15. ASSUME NEW i \in Muxers, Unlock(i) PROVE TypeOK' /\ Named'
  <2>1. /\ phase' \in [Readers -> MuxerPhases \cup SessionPhases]
        /\ \A j \in Muxers : phase'[j] \in MuxerPhases
        /\ \A t \in Sessions : phase'[t] \in SessionPhases
        /\ Named' /\ registry' \in [Muxers -> SUBSET Sessions]
    <3>1. CASE phase' = phase /\ registry' = registry
      BY <1>15, <3>1 DEF Named, Unlock
    <3>2. CASE phase[i] = "destroying" /\ phase' = [phase EXCEPT ![i] = "closing"] /\ registry' = registry
      <4>1. i \in Readers /\ i \notin Sessions /\ "closing" \in MuxerPhases /\ name' = name
        BY <1>0, <1>15 DEF MuxerPhases, Unlock
      <4>. QED
        BY <1>1, <3>2, <4>1
    <3>3. ASSUME NEW s \in Sessions, phase[s] = "replacing", phase' = [phase EXCEPT ![s] = "added"],
                 registry' = [registry EXCEPT ![i] = @ \cup {s}]
          PROVE  /\ phase' \in [Readers -> MuxerPhases \cup SessionPhases]
                 /\ \A j \in Muxers : phase'[j] \in MuxerPhases
                 /\ \A t \in Sessions : phase'[t] \in SessionPhases
                 /\ Named' /\ registry' \in [Muxers -> SUBSET Sessions]
      <4>1. s \in Readers /\ s \notin Muxers /\ "added" \in SessionPhases /\ name' = name
        BY <1>0, <1>15 DEF SessionPhases, Unlock
      <4>. QED
        BY <1>1, <3>3, <4>1
    <3>. QED
      BY <1>15, <3>1, <3>2, <3>3 DEF Unlock
  <2>2. /\ holder' \in [Muxers -> {"none", "init", "muxer", "server", "session"}]
        /\ UNCHANGED <<srvVars, pathVars, readers, gone, name, auto, cancelled, inst, victims, smux, broken>>
    BY <1>15 DEF Unlock, Unlocked
  <2>. QED
    BY <1>m, <2>1, <2>2 DEF srvVars, pathVars
<1>16. ASSUME NEW s \in Sessions, NEW n \in Names, OpenSession(s, n) PROVE TypeOK' /\ Named'
  <2>1. s \in Readers /\ s \notin Muxers /\ "adding" \in SessionPhases
    BY <1>0 DEF SessionPhases
  <2>2. /\ phase' \in [Readers -> MuxerPhases \cup SessionPhases]
        /\ \A j \in Muxers : phase'[j] \in MuxerPhases
        /\ \A t \in Sessions : phase'[t] \in SessionPhases
    BY <1>1, <1>16, <2>1 DEF OpenSession
  <2>3. Named' /\ name' \in [Readers -> Names \cup {None}] /\ gone' \subseteq Readers
    BY <1>16, <2>1 DEF OpenSession, Named
  <2>. QED
    BY <1>m, <1>16, <2>2, <2>3 DEF OpenSession, srvVars, pathVars, muxVars
<1>17. ASSUME NEW s \in Sessions, addSession(s) \/ OnRead(s) \/ RefusedSession(s) PROVE TypeOK' /\ Named'
  <2>1. s \in Readers /\ s \notin Muxers
    BY <1>0
  <2>2. PICK p \in {"quitting", "added", "replacing", "open", "none"} : phase' = [phase EXCEPT ![s] = p]
    BY <1>17 DEF addSession, OnRead, RefusedSession
  <2>3. p \in SessionPhases /\ phase[s] \notin {"none", "closed"} /\ name' = name
    BY <1>17 DEF SessionPhases, addSession, OnRead, RefusedSession
  <2>4. /\ phase' \in [Readers -> MuxerPhases \cup SessionPhases]
        /\ \A j \in Muxers : phase'[j] \in MuxerPhases
        /\ \A t \in Sessions : phase'[t] \in SessionPhases
        /\ Named'
    BY <1>1, <2>1, <2>2, <2>3
  <2>5. CASE addSession(s)
    <3>1. holder' \in [Muxers -> {"none", "init", "muxer", "server", "session"}]
      BY <2>5 DEF addSession
    <3>2. registry' \in [Muxers -> SUBSET Sessions] /\ victims' \in [Muxers -> SUBSET Sessions]
      <4>1. CASE registry' = registry /\ victims' = victims
        BY <4>1
      <4>2. CASE registry' = [registry EXCEPT ![smux[s]] = @ \cup {s}] /\ victims' = victims
        BY <4>2
      <4>3. ASSUME NEW previous \in SUBSET Sessions,
                   registry' = [registry EXCEPT ![smux[s]] = @ \ previous],
                   victims' = [victims EXCEPT ![smux[s]] = previous]
            PROVE registry' \in [Muxers -> SUBSET Sessions] /\ victims' \in [Muxers -> SUBSET Sessions]
        BY <4>3
      <4>4. (IF s \in CDN THEN registry[smux[s]] \cap CDN ELSE {}) \in SUBSET Sessions
        <5>1. CDN \subseteq Sessions
          BY HLSAssumption DEF CDN, Mode
        <5>. QED
          BY <5>1
      <4>. QED
        BY <2>5, <4>1, <4>2, <4>3, <4>4 DEF addSession
    <3>3. UNCHANGED <<srvVars, pathVars, readers, gone, name, auto, cancelled, inst, smux, broken>>
      BY <2>5 DEF addSession
    <3>. QED
      BY <1>m, <2>4, <3>1, <3>2, <3>3 DEF srvVars, pathVars
  <2>6. CASE OnRead(s)
    BY <1>m, <2>4, <2>6 DEF OnRead, srvVars, pathVars, muxVars
  <2>7. CASE RefusedSession(s)
    <3>1. smux' \in [Sessions -> Muxers \cup {None}] /\ readers' \in [Names -> SUBSET Readers]
          /\ gone' \subseteq Readers
      BY <2>7 DEF RefusedSession
    <3>. QED
      BY <1>m, <2>4, <2>7, <3>1 DEF RefusedSession, srvVars, pathVars, muxVars
  <2>. QED
    BY <1>17, <2>5, <2>6, <2>7
<1>18. CASE UNCHANGED vars
  BY <1>18 DEF vars, srvVars, pathVars, readVars, muxVars, Named
<1>. QED
  BY <1>3, <1>4, <1>5, <1>6, <1>7, <1>8, <1>9, <1>10, <1>11, <1>12, <1>13, <1>14, <1>15, <1>16, <1>17, <1>18 DEF Next

-----------------------------------------------------------------------------
(***************************************************************************)
(* The readers of the paths.                                               *)
(***************************************************************************)
(* Whoever leaves the phases of a reader has been taken out of the path,   *)
(* by itself or by the path.                                               *)
LEMMA AliveStep ==
    ASSUME TypeOK, Named, ReadersAreAlive, [Next]_vars
    PROVE  ReadersAreAlive'
<1>. USE DEF TypeOK, Joined
<1>0. Muxers \subseteq Readers /\ Sessions \subseteq Readers /\ Muxers \cap Sessions = {}
  BY HLSAssumption DEF Readers
(* Nobody is added.                                                        *)
<1>1. ASSUME \A n \in Names : \A a \in readers'[n] :
                a \in readers[n] /\ name'[a] = name[a] /\ (phase'[a] = phase[a] \/ phase'[a] \in Joined)
      PROVE  ReadersAreAlive'
  BY <1>1 DEF ReadersAreAlive
<1>2. ASSUME NEW new, Creation(new), readers' = readers,
             \A s \in Sessions : phase'[s] = phase[s] \/ phase'[s] \in Joined
      PROVE  ReadersAreAlive'
  <2>1. \A n \in Names : \A a \in readers[n] : a \in Readers /\ a \notin new
    <3>1. \A n \in Names : \A a \in readers[n] : a \in Readers /\ phase[a] # "none"
      BY DEF ReadersAreAlive
    <3>2. \A i \in new : phase[i] = "none"
      BY <1>2 DEF Creation
    <3>. QED
      BY <3>1, <3>2
  <2>2. \A n \in Names : \A a \in readers[n] : name'[a] = name[a] /\ (phase'[a] = phase[a] \/ phase'[a] \in Joined)
    BY <1>2, <2>1 DEF Creation, Readers
  <2>. QED
    BY <1>1, <1>2, <2>2
<1>3. CASE SetHLSServer
  <2>1. RemuxMissing({n \in Names : ready[n]}) /\ readers' = readers
    BY <1>3 DEF SetHLSServer
  <2>. QED
    BY <1>2, <2>1, RemuxCreates
<1>4. ASSUME NEW n \in Names, PathReady(n) PROVE ReadersAreAlive'
  <2>1. RemuxMissing({n}) /\ readers' = readers /\ {n} \subseteq Names
    BY <1>4 DEF PathReady
  <2>. QED
    BY <1>2, <2>1, RemuxCreates
<1>5. ASSUME NEW s \in Sessions, getMuxer(s) PROVE ReadersAreAlive'
  <2>1. readers' = readers
    BY <1>5 DEF getMuxer
  <2>2. \A t \in Sessions : phase'[t] = phase[t] \/ phase'[t] \in Joined
    BY <1>5, GetCreates
  <2>. QED
    BY <1>2, <1>5, <2>1, <2>2, GetCreates
<1>6. CASE UNCHANGED <<readers, phase, name>>
  BY <1>1, <1>6
<1>7. CASE APIDone \/ (\E t \in Sessions \cup {None} : APICall(t)) \/ UNCHANGED vars
  BY <1>6, <1>7 DEF APIDone, APICall, vars, readVars
<1>8. ASSUME NEW n \in Names, PathNotReady(n) \/ SwitchStream(n) \/ doSetPathReady(n) PROVE ReadersAreAlive'
  BY <1>6, <1>8 DEF PathNotReady, SwitchStream, doSetPathReady, readVars
<1>9. ASSUME NEW n \in Names, CloseReaders(n) PROVE ReadersAreAlive'
  BY <1>1, <1>9 DEF CloseReaders
<1>10. ASSUME NEW n \in Names, RecreatePath(n) PROVE ReadersAreAlive'
  <2>1. \A m \in Names : \A a \in readers'[m] : m # n /\ a \in readers[m]
    BY <1>10 DEF RecreatePath
  <2>2. \A m \in Names : \A a \in readers[m] : a \in Readers /\ name[a] = m /\ phase[a] \in Joined
    BY DEF ReadersAreAlive
  <2>3. name' = name /\ \A a \in Readers : phase[a] \in Joined => phase'[a] = phase[a]
    BY <1>10 DEF RecreatePath
  <2>. QED
    BY <1>1, <2>1, <2>2, <2>3
<1>11. ASSUME NEW a \in Readers, AddReader(a) \/ PathAddReader(a) \/ HeldAnswered(a) PROVE ReadersAreAlive'
  <2>1. /\ name' = name /\ phase[a] \notin Joined
        /\ \A b \in Readers \ {a} : phase'[b] = phase[b]
    BY <1>11 DEF AddReader, PathAddReader, HeldAnswered
  <2>2. readers' = readers \/ (phase'[a] = "joined" /\ readers' = [readers EXCEPT ![name[a]] = @ \cup {a}])
    BY <1>11 DEF AddReader, PathAddReader, HeldAnswered
  <2>3. \A n \in Names : \A b \in readers[n] : b \in Readers /\ name[b] = n /\ phase[b] \in Joined
    BY DEF ReadersAreAlive
  <2>4. CASE readers' = readers
    BY <1>1, <2>1, <2>3, <2>4
  <2>5. CASE phase'[a] = "joined" /\ readers' = [readers EXCEPT ![name[a]] = @ \cup {a}]
    <3>1. \A n \in Names : \A b \in readers'[n] : b \in readers[n] \/ (b = a /\ name[a] = n)
      BY <2>5
    <3>2. \A n \in Names : \A b \in readers'[n] : name[b] = n /\ phase'[b] \in Joined
      BY <2>1, <2>3, <2>5, <3>1
    <3>. QED
      BY <2>1, <3>2 DEF ReadersAreAlive
  <2>. QED
    BY <2>2, <2>4, <2>5
<1>12. ASSUME NEW i \in Muxers,
              FirstInstance(i) \/ InstanceCrashed(i) \/ RecreateInstance(i) \/ StopMuxer(i) \/ APIVisit(i)
       PROVE  ReadersAreAlive'
  <2>1. readers' = readers /\ name' = name
    BY <1>12 DEF FirstInstance, InstanceCrashed, RecreateInstance, StopMuxer, APIVisit, readVars
  <2>2. phase' = phase \/ phase' = [phase EXCEPT ![i] = "up"] \/ phase' = [phase EXCEPT ![i] = "leaving"]
    BY <1>12 DEF FirstInstance, InstanceCrashed, RecreateInstance, StopMuxer, APIVisit, readVars
  <2>. QED
    BY <1>0, <1>1, <2>1, <2>2
<1>13. ASSUME NEW i \in Muxers, CloseMuxer(i) \/ DestroyMuxer(i) \/ Unlock(i)
       PROVE  ReadersAreAlive'
  <2>1. readers' = readers /\ \A a \in Readers \ {i} : name'[a] = name[a]
    BY <1>13 DEF CloseMuxer, Forget, DestroyMuxer, Unlock
  <2>2. \/ phase' = phase /\ name' = name
        \/ phase[i] \notin Joined /\ \A a \in Readers \ {i} : phase'[a] = phase[a]
        \/ name' = name /\ \E s \in Sessions : phase' = [phase EXCEPT ![s] = "added"]
    BY <1>13 DEF CloseMuxer, Forget, DestroyMuxer, Unlock
  <2>3. \A n \in Names : \A a \in readers[n] : a \in Readers /\ name[a] = n /\ phase[a] \in Joined
    BY DEF ReadersAreAlive
  <2>4. CASE phase' = phase /\ name' = name
    BY <1>6, <2>1, <2>4
  <2>5. CASE phase[i] \notin Joined /\ \A a \in Readers \ {i} : phase'[a] = phase[a]
    BY <1>1, <2>1, <2>3, <2>5
  <2>6. CASE name' = name /\ \E s \in Sessions : phase' = [phase EXCEPT ![s] = "added"]
    BY <1>0, <1>1, <2>1, <2>3, <2>6
  <2>. QED
    BY <2>2, <2>4, <2>5, <2>6
<1>14. ASSUME NEW i \in Muxers, NEW S \in SUBSET Sessions, CleanupSessions(i, S) PROVE ReadersAreAlive'
  BY <1>6, <1>14 DEF CleanupSessions, readVars
(* Those that leave.                                                       *)
<1>15. ASSUME NEW a \in Readers, NEW p, phase' = [phase EXCEPT ![a] = p], name' = name,
              readers' = [readers EXCEPT ![name[a]] = @ \ {a}]
       PROVE  ReadersAreAlive'
  <2>1. \A n \in Names : \A b \in readers'[n] : b \in readers[n] /\ b \in Readers /\ b # a
    BY <1>15 DEF ReadersAreAlive
  <2>. QED
    BY <1>1, <1>15, <2>1
<1>16. ASSUME NEW i \in Muxers, LeavePath(i) PROVE ReadersAreAlive'
  <2>1. i \in Readers
    BY <1>0
  <2>. QED
    BY <1>15, <1>16, <2>1 DEF LeavePath
<1>17. ASSUME NEW s \in Sessions, RefusedSession(s) \/ \E i \in Muxers : close2(i, s) PROVE ReadersAreAlive'
  <2>1. s \in Readers
    BY <1>0
  <2>. QED
    BY <1>15, <1>17, <2>1 DEF RefusedSession, close2
<1>18. ASSUME NEW s \in Sessions, addSession(s) \/ OnRead(s) PROVE ReadersAreAlive'
  <2>1. PICK p \in Joined : phase' = [phase EXCEPT ![s] = p]
    BY <1>18 DEF addSession, OnRead
  <2>2. readers' = readers /\ name' = name
    BY <1>18 DEF addSession, OnRead
  <2>. QED
    BY <1>0, <1>1, <2>1, <2>2
<1>19. ASSUME NEW s \in Sessions, NEW n \in Names, OpenSession(s, n) PROVE ReadersAreAlive'
  <2>1. phase[s] \notin Joined /\ readers' = readers /\ \A a \in Readers \ {s} : phase'[a] = phase[a] /\ name'[a] = name[a]
    BY <1>19 DEF OpenSession, Idle
  <2>. QED
    BY <2>1 DEF ReadersAreAlive
<1>. QED
  BY <1>3, <1>4, <1>5, <1>7, <1>8, <1>9, <1>10, <1>11, <1>12, <1>13, <1>14, <1>16, <1>17, <1>18, <1>19 DEF Next

-----------------------------------------------------------------------------
(***************************************************************************)
(* The server's map.                                                       *)
(***************************************************************************)
Running == {"adding", "routed", "held", "joined", "up"}

(* A muxer leaves the map when it is told to stop or when it ends, and one *)
(* is created only for a name that has none.                               *)
LEMMA MapStep ==
    ASSUME TypeOK, Named, NoOrphanMuxer, MapIsRight, [Next]_vars
    PROVE  NoOrphanMuxer' /\ MapIsRight'
<1>. USE DEF TypeOK, Running
<1>0. Muxers \subseteq Readers /\ Sessions \subseteq Readers /\ Muxers \cap Sessions = {} /\ None \notin Muxers
  BY HLSAssumption DEF Readers
(* The map is left as it is.                                               *)
<1>1. ASSUME muxers' = muxers, visit' \subseteq visit, srv' = srv \/ visit' = {},
             \A i \in Muxers : /\ name'[i] = name[i] /\ (cancelled[i] => cancelled'[i])
                               /\ phase[i] # "none" => phase'[i] # "none"
                               /\ phase'[i] \in Running => phase[i] \in Running
      PROVE  NoOrphanMuxer' /\ MapIsRight'
  <2>1. NoOrphanMuxer'
    BY <1>1 DEF NoOrphanMuxer
  <2>2. MapIsRight'
    BY <1>1 DEF MapIsRight
  <2>. QED
    BY <2>1, <2>2
<1>2. ASSUME NEW new, Creation(new), visit' = visit, srv = "api" => srv' = "api"
      PROVE  NoOrphanMuxer' /\ MapIsRight'
  <2>1. ASSUME NEW i \in Muxers, phase'[i] \in Running, ~cancelled'[i] PROVE muxers'[name'[i]] = i
    <3>1. CASE i \in new
      BY <1>2, <3>1 DEF Creation
    <3>2. CASE i \notin new
      <4>1. muxers[name[i]] = i /\ name'[i] = name[i] /\ name[i] \in Names
        BY <1>0, <1>2, <2>1, <3>2 DEF Creation, NoOrphanMuxer, Named
      <4>. QED
        BY <1>0, <1>2, <4>1 DEF Creation
    <3>. QED
      BY <3>1, <3>2
  <2>2. ASSUME NEW n \in Names, muxers'[n] # None PROVE phase'[muxers'[n]] # "none" /\ name'[muxers'[n]] = n
    <3>1. CASE muxers'[n] \in new /\ name'[muxers'[n]] = n
      BY <1>2, <3>1 DEF Creation
    <3>2. CASE muxers'[n] = muxers[n]
      <4>1. muxers[n] \in Muxers \ new /\ phase[muxers[n]] # "none" /\ name[muxers[n]] = n
        BY <1>2, <2>2, <3>2 DEF MapIsRight, Creation
      <4>. QED
        BY <1>0, <1>2, <3>2, <4>1 DEF Creation
    <3>. QED
      BY <1>2, <3>1, <3>2 DEF Creation
  <2>3. \A i \in visit' : srv' = "api" /\ phase'[i] # "none"
    BY <1>2 DEF MapIsRight, Creation
  <2>4. NoOrphanMuxer'
    BY <2>1 DEF NoOrphanMuxer
  <2>5. MapIsRight'
    BY <2>2, <2>3 DEF MapIsRight
  <2>. QED
    BY <2>4, <2>5
<1>3. CASE SetHLSServer
  <2>1. RemuxMissing({n \in Names : ready[n]}) /\ visit' = visit /\ srv # "api"
    BY <1>3 DEF SetHLSServer
  <2>. QED
    BY <1>2, <2>1, RemuxCreates
<1>4. ASSUME NEW n \in Names, PathReady(n) PROVE NoOrphanMuxer' /\ MapIsRight'
  <2>1. RemuxMissing({n}) /\ {n} \subseteq Names /\ visit' = visit /\ srv' = srv
    BY <1>4 DEF PathReady
  <2>. QED
    BY <1>2, <2>1, RemuxCreates
<1>5. ASSUME NEW s \in Sessions, getMuxer(s) PROVE NoOrphanMuxer' /\ MapIsRight'
  <2>1. visit' = visit /\ srv' = srv
    BY <1>5 DEF getMuxer
  <2>. QED
    BY <1>2, <1>5, <2>1, GetCreates
<1>6. ASSUME NEW n \in Names, PathNotReady(n) PROVE NoOrphanMuxer' /\ MapIsRight'
  <2>. DEFINE i == muxers[n]
  <2>1. CASE i # None /\ auto[i]
    <3>1. /\ cancelled' = [cancelled EXCEPT ![i] = TRUE] /\ muxers' = [muxers EXCEPT ![n] = None]
          /\ UNCHANGED <<srv, visit, phase, name>> /\ i \in Muxers
      BY <1>6, <2>1 DEF PathNotReady, readVars
    <3>2. ASSUME NEW j \in Muxers, phase[j] \in Running, ~cancelled'[j] PROVE muxers'[name[j]] = j
      <4>1. j # i /\ ~cancelled[j]
        BY <3>1, <3>2
      <4>2. muxers[name[j]] = j
        BY <3>2, <4>1 DEF NoOrphanMuxer
      <4>. QED
        BY <3>1, <4>1, <4>2
    <3>3. NoOrphanMuxer'
      BY <3>1, <3>2 DEF NoOrphanMuxer
    <3>4. MapIsRight'
      BY <3>1 DEF MapIsRight
    <3>. QED
      BY <3>3, <3>4
  <2>2. CASE ~(i # None /\ auto[i])
    BY <1>1, <1>6, <2>2 DEF PathNotReady, readVars
  <2>. QED
    BY <2>1, <2>2
<1>7. ASSUME NEW n \in Names, SwitchStream(n) \/ doSetPathReady(n) \/ CloseReaders(n)
      PROVE  NoOrphanMuxer' /\ MapIsRight'
  <2>1. /\ UNCHANGED <<srv, visit, muxers, phase, name>>
        /\ \A i \in Muxers : cancelled[i] => cancelled'[i]
    BY <1>7 DEF SwitchStream, doSetPathReady, CloseReaders, srvVars, readVars, muxVars
  <2>. QED
    BY <1>1, <2>1
<1>8. ASSUME NEW n \in Names, RecreatePath(n) PROVE NoOrphanMuxer' /\ MapIsRight'
  <2>1. /\ UNCHANGED <<srv, visit, muxers, name>>
        /\ \A i \in Muxers : cancelled[i] => cancelled'[i]
    BY <1>8 DEF RecreatePath, srvVars
  <2>2. \A i \in Muxers : phase'[i] = phase[i] \/ phase'[i] = "ending"
    BY <1>0, <1>8 DEF RecreatePath, AfterFailure
  <2>. QED
    BY <1>1, <2>1, <2>2
<1>9. ASSUME NEW t \in Sessions \cup {None}, APICall(t) PROVE NoOrphanMuxer' /\ MapIsRight'
  <2>1. /\ UNCHANGED <<muxers, phase, name, cancelled>> /\ srv' = "api"
        /\ visit' = {muxers[n] : n \in Names} \ {None}
    BY <1>9 DEF APICall, readVars, muxVars
  <2>. QED
    BY <2>1 DEF NoOrphanMuxer, MapIsRight
<1>10. CASE APIDone
  BY <1>1, <1>10 DEF APIDone, readVars, muxVars
<1>11. ASSUME NEW i \in Muxers, APIVisit(i) PROVE NoOrphanMuxer' /\ MapIsRight'
  BY <1>1, <1>11 DEF APIVisit, readVars
<1>12. ASSUME NEW a \in Readers, AddReader(a) \/ PathAddReader(a) \/ HeldAnswered(a)
       PROVE  NoOrphanMuxer' /\ MapIsRight'
  <2>1. UNCHANGED <<srv, visit, muxers, name, cancelled>>
    BY <1>12 DEF AddReader, PathAddReader, HeldAnswered, srvVars, muxVars
  <2>2. /\ phase[a] \in Running /\ \A i \in Muxers \ {a} : phase'[i] = phase[i]
        /\ a \in Muxers => phase'[a] # "none"
    BY <1>0, <1>12 DEF AddReader, PathAddReader, HeldAnswered, AfterFailure
  <2>. QED
    BY <1>1, <2>1, <2>2
<1>13. ASSUME NEW i \in Muxers,
              FirstInstance(i) \/ InstanceCrashed(i) \/ RecreateInstance(i) \/ StopMuxer(i) \/ LeavePath(i)
              \/ DestroyMuxer(i)
       PROVE  NoOrphanMuxer' /\ MapIsRight'
  <2>1. UNCHANGED <<srv, visit, muxers, name>> /\ \A j \in Muxers : cancelled[j] => cancelled'[j]
    BY <1>13 DEF FirstInstance, InstanceCrashed, RecreateInstance, StopMuxer, LeavePath, DestroyMuxer, srvVars, readVars,
       muxVars
  <2>2. \/ phase' = phase
        \/ phase[i] \in Running /\ phase' = [phase EXCEPT ![i] = "up"]
        \/ \E p \in {"leaving", "ending", "destroying"} : phase' = [phase EXCEPT ![i] = p]
    BY <1>13 DEF FirstInstance, InstanceCrashed, RecreateInstance, StopMuxer, LeavePath, DestroyMuxer, readVars
  <2>. QED
    BY <1>0, <1>1, <2>1, <2>2
<1>14. ASSUME NEW i \in Muxers, CloseMuxer(i) PROVE NoOrphanMuxer' /\ MapIsRight'
  <2>1. /\ srv = "select" /\ phase[i] = "closing" /\ i \in Readers
        /\ muxers' = (IF muxers[name[i]] = i THEN [muxers EXCEPT ![name[i]] = None] ELSE muxers)
        /\ phase' = [phase EXCEPT ![i] = "none"] /\ name' = [name EXCEPT ![i] = None]
        /\ cancelled' = [cancelled EXCEPT ![i] = FALSE] /\ UNCHANGED <<srv, visit>>
    BY <1>0, <1>14 DEF CloseMuxer, Forget
  <2>2. visit = {} /\ name[i] \in Names
    BY <2>1 DEF MapIsRight, Named
  <2>3. ASSUME NEW j \in Muxers, phase'[j] \in Running, ~cancelled'[j] PROVE muxers'[name'[j]] = j
    <3>1. j # i /\ phase'[j] = phase[j] /\ name'[j] = name[j] /\ cancelled'[j] = cancelled[j] /\ j \in Readers
      BY <1>0, <2>1, <2>3
    <3>2. muxers[name[j]] = j
      BY <2>3, <3>1 DEF NoOrphanMuxer
    <3>. QED
      BY <2>1, <2>2, <3>1, <3>2
  <2>4. ASSUME NEW n \in Names, muxers'[n] # None PROVE phase'[muxers'[n]] # "none" /\ name'[muxers'[n]] = n
    <3>1. muxers'[n] = muxers[n] /\ muxers[n] \in Muxers
      BY <2>1, <2>2, <2>4
    <3>2. phase[muxers[n]] # "none" /\ name[muxers[n]] = n
      BY <2>4, <3>1 DEF MapIsRight
    <3>3. muxers[n] # i
      BY <2>1, <2>2, <2>4, <3>1, <3>2
    <3>. QED
      BY <1>0, <2>1, <3>1, <3>2, <3>3
  <2>5. NoOrphanMuxer'
    BY <2>3 DEF NoOrphanMuxer
  <2>6. MapIsRight'
    BY <2>1, <2>2, <2>4 DEF MapIsRight
  <2>. QED
    BY <2>5, <2>6
<1>15. ASSUME NEW i \in Muxers, Unlock(i) PROVE NoOrphanMuxer' /\ MapIsRight'
  <2>1. UNCHANGED <<srv, visit, muxers, name, cancelled>>
    BY <1>15 DEF Unlock, srvVars
  <2>2. \/ phase' = phase \/ phase' = [phase EXCEPT ![i] = "closing"]
        \/ \E s \in Sessions : phase' = [phase EXCEPT ![s] = "added"]
    BY <1>15 DEF Unlock
  <2>. QED
    BY <1>0, <1>1, <2>1, <2>2
<1>16. ASSUME NEW i \in Muxers, NEW S \in SUBSET Sessions, CleanupSessions(i, S) PROVE NoOrphanMuxer' /\ MapIsRight'
  BY <1>1, <1>16 DEF CleanupSessions, srvVars, readVars
<1>17. ASSUME NEW s \in Sessions,
              addSession(s) \/ OnRead(s) \/ RefusedSession(s) \/ (\E n \in Names : OpenSession(s, n))
              \/ \E i \in Muxers : close2(i, s)
       PROVE  NoOrphanMuxer' /\ MapIsRight'
  <2>1. UNCHANGED <<srv, visit, muxers, cancelled>>
    BY <1>17 DEF addSession, OnRead, RefusedSession, OpenSession, close2, srvVars, muxVars
  <2>2. \A a \in Readers \ {s} : name'[a] = name[a] /\ phase'[a] = phase[a]
    BY <1>17 DEF addSession, OnRead, RefusedSession, OpenSession, close2
  <2>. QED
    BY <1>0, <1>1, <2>1, <2>2
<1>18. CASE UNCHANGED vars
  BY <1>1, <1>18 DEF vars, srvVars, readVars, muxVars
<1>. QED
  BY <1>3, <1>4, <1>5, <1>6, <1>7, <1>8, <1>9, <1>10, <1>11, <1>12, <1>13, <1>14, <1>15, <1>16, <1>17, <1>18 DEF Next

-----------------------------------------------------------------------------
(***************************************************************************)
(* The mutex of a muxer.                                                   *)
(***************************************************************************)
(* It is free when it is taken, and given back by who took it.             *)
LEMMA MutexStep ==
    ASSUME TypeOK, Named, MapIsRight, LockIsRight, [Next]_vars
    PROVE  LockIsRight'
<1>. USE DEF TypeOK, Starting
<1>0. Muxers \subseteq Readers /\ Sessions \subseteq Readers /\ Muxers \cap Sessions = {}
  BY HLSAssumption DEF Readers
(* The muxer and its mutex are left as they are.                           *)
<1>1. ASSUME NEW i \in Muxers, phase'[i] = phase[i], holder'[i] = holder[i], victims'[i] = victims[i],
             inst'[i] = inst[i], srv' = srv \/ holder[i] # "server"
      PROVE  LockOf(i)'
  BY <1>1 DEF LockIsRight, LockOf
<1>2. ASSUME NEW new, Creation(new), UNCHANGED <<victims, inst>>, srv # "api" PROVE LockIsRight'
  <2>1. ASSUME NEW i \in new PROVE LockOf(i)'
    <3>1. /\ i \in Muxers /\ phase[i] = "none" /\ phase'[i] = "adding" /\ holder'[i] = "init"
          /\ victims'[i] = victims[i] /\ inst'[i] = inst[i]
      BY <1>2 DEF Creation
    <3>2. victims[i] = {} /\ ~inst[i]
      BY <3>1 DEF LockIsRight, LockOf
    <3>. QED
      BY <3>1, <3>2 DEF LockOf
  <2>2. ASSUME NEW i \in Muxers \ new PROVE LockOf(i)'
    <3>1. holder[i] # "server"
      BY <1>2 DEF LockIsRight, LockOf
    <3>. QED
      BY <1>1, <1>2, <3>1 DEF Creation
  <2>. QED
    BY <2>1, <2>2 DEF LockIsRight
<1>3. CASE SetHLSServer
  <2>1. RemuxMissing({n \in Names : ready[n]}) /\ UNCHANGED <<victims, inst>> /\ srv # "api"
    BY <1>3 DEF SetHLSServer
  <2>. QED
    BY <1>2, <2>1, RemuxCreates
<1>4. ASSUME NEW n \in Names, PathReady(n) PROVE LockIsRight'
  <2>1. RemuxMissing({n}) /\ {n} \subseteq Names /\ UNCHANGED <<victims, inst>> /\ srv # "api"
    BY <1>4 DEF PathReady
  <2>. QED
    BY <1>2, <2>1, RemuxCreates
<1>5. ASSUME NEW s \in Sessions, getMuxer(s) PROVE LockIsRight'
  <2>1. UNCHANGED <<victims, inst>> /\ srv # "api"
    BY <1>5 DEF getMuxer
  <2>. QED
    BY <1>2, <1>5, <2>1, GetCreates
<1>6. CASE UNCHANGED <<srv, holder, victims, inst>> /\ \A i \in Muxers : phase'[i] = phase[i]
  BY <1>1, <1>6 DEF LockIsRight
<1>7. ASSUME NEW n \in Names, PathNotReady(n) \/ SwitchStream(n) \/ doSetPathReady(n) \/ CloseReaders(n)
      PROVE  LockIsRight'
  BY <1>6, <1>7 DEF PathNotReady, SwitchStream, doSetPathReady, CloseReaders, srvVars, readVars, muxVars
<1>8. ASSUME NEW n \in Names, RecreatePath(n) PROVE LockIsRight'
  <2>. DEFINE waiting == {a \in Readers : name[a] = n /\ phase[a] \in {"routed", "held"}}
  <2>1. /\ UNCHANGED <<srv, victims, inst>>
        /\ \A i \in Muxers : i \in waiting => /\ phase'[i] = "ending" /\ holder'[i] = "none"
                                              /\ phase[i] \in Starting
        /\ \A i \in Muxers : i \notin waiting => phase'[i] = phase[i] /\ holder'[i] = holder[i]
    BY <1>0, <1>8 DEF RecreatePath, AfterFailure, Unlocked, srvVars
  <2>. HIDE DEF waiting
  <2>2. ASSUME NEW i \in Muxers, i \in waiting PROVE LockOf(i)'
    BY <2>1, <2>2 DEF LockIsRight, LockOf
  <2>3. ASSUME NEW i \in Muxers, i \notin waiting PROVE LockOf(i)'
    BY <1>1, <2>1, <2>3
  <2>. QED
    BY <2>2, <2>3 DEF LockIsRight
<1>9. ASSUME NEW t \in Sessions \cup {None}, APICall(t) PROVE LockIsRight'
  BY <1>1, <1>9 DEF APICall, LockIsRight, LockOf, readVars, muxVars
<1>10. CASE APIDone
  BY <1>1, <1>10 DEF APIDone, LockIsRight, readVars, muxVars
(* One muxer goes on.                                                      *)
<1>11. ASSUME NEW i \in Muxers, LockOf(i)', srv' = srv,
              \A j \in Muxers \ {i} : /\ phase'[j] = phase[j] /\ holder'[j] = holder[j]
                                      /\ victims'[j] = victims[j] /\ inst'[j] = inst[j]
       PROVE  LockIsRight'
  BY <1>1, <1>11 DEF LockIsRight
<1>12. ASSUME NEW i \in Muxers, APIVisit(i) PROVE LockIsRight'
  <2>0. srv = "api" /\ phase[i] # "none" /\ holder[i] = "none" /\ UNCHANGED <<srv, phase, inst>>
    BY <1>12 DEF APIVisit, MapIsRight, readVars
  <2>1. /\ \A j \in Muxers \ {i} : holder'[j] = holder[j] /\ victims'[j] = victims[j]
        /\ \/ holder'[i] = "server"
           \/ holder'[i] = holder[i] /\ victims'[i] = victims[i]
    <3>1. CASE kick \in registry[i]
      BY <1>12, <3>1 DEF APIVisit
    <3>2. CASE kick \notin registry[i]
      BY <1>12, <3>2 DEF APIVisit
    <3>. QED
      BY <3>1, <3>2
  <2>2. LockOf(i)'
    BY <2>0, <2>1 DEF LockIsRight, LockOf
  <2>. QED
    BY <1>11, <2>0, <2>1, <2>2
<1>13. ASSUME NEW a \in Readers, AddReader(a) \/ PathAddReader(a) \/ HeldAnswered(a) PROVE LockIsRight'
  <2>1. UNCHANGED <<srv, victims, inst>>
    BY <1>13 DEF AddReader, PathAddReader, HeldAnswered, srvVars, muxVars
  <2>2. \A i \in Muxers \ {a} : phase'[i] = phase[i] /\ holder'[i] = holder[i]
    <3>1. \E p : phase' = [phase EXCEPT ![a] = p]
      BY <1>13 DEF AddReader, PathAddReader, HeldAnswered
    <3>2. holder' = holder \/ holder' = Unlocked({a})
      BY <1>13 DEF AddReader, PathAddReader, HeldAnswered, muxVars
    <3>. QED
      BY <1>0, <3>1, <3>2 DEF Unlocked
  <2>3. CASE a \in Muxers
    <3>1. /\ phase[a] \in Starting
          /\ \/ phase'[a] \in Starting /\ holder'[a] = holder[a]
             \/ phase'[a] = "ending" /\ holder'[a] = "none"
      BY <1>13, <2>3 DEF AddReader, PathAddReader, HeldAnswered, AfterFailure, Unlocked, muxVars
    <3>2. LockOf(a)'
      BY <2>1, <2>3, <3>1 DEF LockIsRight, LockOf
    <3>. QED
      BY <1>11, <2>1, <2>2, <2>3, <3>2
  <2>4. CASE a \notin Muxers
    BY <1>1, <2>1, <2>2, <2>4 DEF LockIsRight
  <2>. QED
    BY <2>3, <2>4
<1>14. ASSUME NEW i \in Muxers, FirstInstance(i) PROVE LockIsRight'
  <2>1. /\ UNCHANGED <<srv, victims>> /\ phase[i] = "joined" /\ holder'[i] = "none"
        /\ phase'[i] \in {"up", "leaving"}
        /\ \A j \in Muxers \ {i} : phase'[j] = phase[j] /\ holder'[j] = holder[j] /\ inst'[j] = inst[j]
    BY <1>0, <1>14 DEF FirstInstance, Unlocked, srvVars
  <2>2. LockOf(i)'
    BY <2>1 DEF LockIsRight, LockOf
  <2>. QED
    BY <1>11, <2>1, <2>2
<1>15. ASSUME NEW i \in Muxers, InstanceCrashed(i) PROVE LockIsRight'
  <2>1. /\ UNCHANGED srv /\ phase[i] = "up" /\ holder[i] = "none" /\ ~inst'[i]
        /\ \/ phase'[i] = "up" /\ holder'[i] = "muxer"
           \/ phase'[i] = "leaving" /\ holder'[i] = "none" /\ victims'[i] = victims[i]
        /\ \A j \in Muxers \ {i} : /\ phase'[j] = phase[j] /\ holder'[j] = holder[j]
                                   /\ victims'[j] = victims[j] /\ inst'[j] = inst[j]
    BY <1>0, <1>15 DEF InstanceCrashed, srvVars
  <2>2. LockOf(i)'
    BY <2>1 DEF LockIsRight, LockOf
  <2>. QED
    BY <1>11, <2>1, <2>2
<1>16. ASSUME NEW i \in Muxers, RecreateInstance(i) \/ StopMuxer(i) \/ LeavePath(i) PROVE LockIsRight'
  <2>1. /\ UNCHANGED <<srv, holder, victims>>
        /\ \/ phase[i] = "up" /\ phase'[i] = "up"
           \/ phase[i] = "up" /\ holder[i] # "muxer" /\ phase'[i] = "leaving" /\ inst' = inst
           \/ phase[i] = "leaving" /\ phase'[i] = "ending" /\ inst' = inst
        /\ \A j \in Muxers \ {i} : phase'[j] = phase[j] /\ inst'[j] = inst[j]
    BY <1>0, <1>16 DEF RecreateInstance, StopMuxer, LeavePath, srvVars, readVars, muxVars
  <2>2. LockOf(i)'
    BY <2>1 DEF LockIsRight, LockOf
  <2>. QED
    BY <1>11, <2>1, <2>2
<1>17. ASSUME NEW i \in Muxers, DestroyMuxer(i) PROVE LockIsRight'
  <2>1. /\ UNCHANGED srv /\ phase'[i] = "destroying" /\ holder'[i] = "muxer" /\ ~inst'[i]
        /\ \A j \in Muxers \ {i} : /\ phase'[j] = phase[j] /\ holder'[j] = holder[j]
                                   /\ victims'[j] = victims[j] /\ inst'[j] = inst[j]
    BY <1>0, <1>17 DEF DestroyMuxer, srvVars
  <2>2. LockOf(i)'
    BY <2>1 DEF LockOf
  <2>. QED
    BY <1>11, <2>1, <2>2
<1>18. ASSUME NEW i \in Muxers, CloseMuxer(i) PROVE LockIsRight'
  <2>1. /\ UNCHANGED <<srv, holder, victims, inst>> /\ srv = "select" /\ phase[i] = "closing" /\ phase'[i] = "none"
        /\ \A j \in Muxers \ {i} : phase'[j] = phase[j]
    BY <1>0, <1>18 DEF CloseMuxer, Forget
  <2>2. LockOf(i)'
    BY <2>1 DEF LockIsRight, LockOf
  <2>. QED
    BY <1>11, <2>1, <2>2
<1>19. ASSUME NEW i \in Muxers, NEW S \in SUBSET Sessions, CleanupSessions(i, S) PROVE LockIsRight'
  <2>1. /\ UNCHANGED <<srv, phase, inst>> /\ phase[i] = "up" /\ holder'[i] = "muxer"
        /\ \A j \in Muxers \ {i} : holder'[j] = holder[j] /\ victims'[j] = victims[j]
    BY <1>19 DEF CleanupSessions, srvVars, readVars
  <2>2. LockOf(i)'
    BY <2>1 DEF LockIsRight, LockOf
  <2>. QED
    BY <1>11, <2>1, <2>2
<1>20. ASSUME NEW i \in Muxers, NEW s \in Sessions, close2(i, s) PROVE LockIsRight'
  <2>1. /\ UNCHANGED <<srv, holder, inst>> /\ victims[i] # {} /\ \A j \in Muxers : phase'[j] = phase[j]
        /\ \A j \in Muxers \ {i} : victims'[j] = victims[j]
    BY <1>0, <1>20 DEF close2, srvVars
  <2>2. LockOf(i)'
    BY <2>1 DEF LockIsRight, LockOf
  <2>. QED
    BY <1>11, <2>1, <2>2
<1>21. ASSUME NEW i \in Muxers, Unlock(i) PROVE LockIsRight'
  <2>1. /\ UNCHANGED <<srv, victims, inst>> /\ victims[i] = {} /\ holder'[i] = "none"
        /\ holder[i] \in {"muxer", "server", "session"}
        /\ \A j \in Muxers \ {i} : holder'[j] = holder[j]
    BY <1>21 DEF Unlock, Unlocked, srvVars
  <2>2. /\ \A j \in Muxers \ {i} : phase'[j] = phase[j]
        /\ \/ phase'[i] = phase[i] /\ phase[i] # "destroying"
           \/ phase[i] = "destroying" /\ phase'[i] = "closing"
           \/ phase'[i] = phase[i] /\ holder[i] # "muxer"
    BY <1>0, <1>21 DEF Unlock
  <2>3. LockOf(i)'
    BY <2>1, <2>2 DEF LockIsRight, LockOf
  <2>. QED
    BY <1>11, <2>1, <2>2, <2>3
<1>22. ASSUME NEW s \in Sessions, addSession(s) PROVE LockIsRight'
  <2>1. UNCHANGED <<srv, inst>> /\ \A j \in Muxers : phase'[j] = phase[j]
    BY <1>0, <1>22 DEF addSession, srvVars
  <2>2. CASE UNCHANGED <<holder, victims>>
    BY <1>6, <2>1, <2>2
  <2>3. CASE ~UNCHANGED <<holder, victims>>
    <3>1. ASSUME NEW i \in Muxers, i = smux[s] PROVE LockIsRight'
      <4>1. /\ holder[i] = "none" /\ inst[i] /\ holder' = [holder EXCEPT ![i] = "session"]
            /\ \A j \in Muxers \ {i} : victims'[j] = victims[j]
        BY <1>22, <2>3, <3>1 DEF addSession
      <4>2. LockOf(i)'
        BY <2>1, <4>1 DEF LockIsRight, LockOf
      <4>. QED
        BY <1>11, <2>1, <4>1, <4>2
    <3>2. CASE smux[s] \notin Muxers
      BY <1>6, <1>22, <2>1, <3>2 DEF addSession
    <3>. QED
      BY <3>1, <3>2
  <2>. QED
    BY <2>2, <2>3
<1>23. ASSUME NEW s \in Sessions, OnRead(s) \/ RefusedSession(s) \/ \E n \in Names : OpenSession(s, n)
       PROVE  LockIsRight'
  <2>1. UNCHANGED <<srv, holder, victims, inst>> /\ \A i \in Muxers : phase'[i] = phase[i]
    BY <1>0, <1>23 DEF OnRead, RefusedSession, OpenSession, srvVars, muxVars
  <2>. QED
    BY <1>6, <2>1
<1>24. CASE UNCHANGED vars
  BY <1>6, <1>24 DEF vars, srvVars, readVars, muxVars
<1>. QED
  BY <1>3, <1>4, <1>5, <1>7, <1>8, <1>9, <1>10, <1>12, <1>13, <1>14, <1>15, <1>16, <1>17, <1>18, <1>19, <1>20, <1>21,
     <1>22, <1>23, <1>24 DEF Next

-----------------------------------------------------------------------------
(***************************************************************************)
(* The sessions.                                                           *)
(***************************************************************************)
Served == {"got", "replacing", "added", "open"}
Serving == {"up", "leaving", "ending", "destroying"}

(* A step of somebody else leaves a session with the muxer that knows it.  *)
Kept(s) ==
    /\ phase'[s] = phase[s] /\ smux'[s] = smux[s]
    /\ \A i \in Muxers : i = smux[s] =>
         /\ phase[s] = "replacing" /\ holder[i] = "session" => holder'[i] = "session"
         /\ phase[s] \in {"added", "open"} /\ phase[i] \in Serving =>
              /\ phase'[i] \in Serving
              /\ s \in registry[i] => s \in registry'[i] \cup victims'[i]
              /\ s \in victims[i] => s \in victims'[i]
              /\ phase'[i] = "destroying" => phase[i] = "destroying" \/ s \in victims'[i]

(* What that gives.                                                        *)
LEMMA KeptIsKnown ==
    ASSUME TypeOK, SessionsAreKnown, NEW s \in Sessions, Kept(s)
    PROVE  Known(s)'
<1>1. Known(s)
  BY DEF SessionsAreKnown
<1>2. CASE phase[s] \in Served
  <2>1. PICK i \in Muxers : i = smux[s]
    BY <1>1, <1>2 DEF Known, Served
  <2>. QED
    BY <1>1, <1>2, <2>1 DEF Known, Kept, Served, Serving
<1>3. CASE phase[s] \notin Served
  BY <1>3 DEF Known, Kept, Served
<1>. QED
  BY <1>2, <1>3

(* Nobody who holds a muxer's mutex lets go of a session without closing   *)
(* it, and a muxer ends only after all of its sessions are closed.         *)
LEMMA SessionsStep ==
    ASSUME TypeOK, Named, LockIsRight, SessionsAreKnown, [Next]_vars
    PROVE  SessionsAreKnown'
<1>. USE DEF TypeOK
<1>0. Muxers \subseteq Readers /\ Sessions \subseteq Readers /\ Muxers \cap Sessions = {}
  BY HLSAssumption DEF Readers
<1>1. ASSUME \A s \in Sessions : Kept(s) \/ phase'[s] \notin Served PROVE SessionsAreKnown'
  <2>1. \A s \in Sessions : Known(s)'
    BY <1>1, KeptIsKnown DEF Known, Served
  <2>2. \A s \in Sessions : phase'[s] = "replacing" => phase[s] = "replacing" /\ smux'[s] = smux[s]
    BY <1>1 DEF Kept, Served
  <2>. QED
    BY <2>1, <2>2 DEF SessionsAreKnown
(* One session goes on.                                                    *)
<1>2. ASSUME NEW s \in Sessions, \A t \in Sessions \ {s} : Kept(t), Known(s)', phase'[s] # "replacing"
      PROVE  SessionsAreKnown'
  <2>1. \A t \in Sessions : Known(t)'
    BY <1>2, KeptIsKnown
  <2>2. \A t \in Sessions : phase'[t] = "replacing" => phase[t] = "replacing" /\ smux'[t] = smux[t]
    BY <1>2 DEF Kept
  <2>. QED
    BY <2>1, <2>2 DEF SessionsAreKnown
<1>3. ASSUME NEW new, Creation(new), UNCHANGED <<registry, victims>>, NEW s \in Sessions,
             phase'[s] = phase[s], smux'[s] = smux[s]
      PROVE  Kept(s)
  BY <1>3 DEF Creation, Kept
<1>4. CASE SetHLSServer
  <2>1. RemuxMissing({n \in Names : ready[n]}) /\ UNCHANGED <<registry, victims, smux>>
    BY <1>4 DEF SetHLSServer
  <2>. QED
    BY <1>1, <1>3, <2>1, RemuxCreates
<1>5. ASSUME NEW n \in Names, PathReady(n) PROVE SessionsAreKnown'
  <2>1. RemuxMissing({n}) /\ {n} \subseteq Names /\ UNCHANGED <<registry, victims, smux>>
    BY <1>5 DEF PathReady
  <2>. QED
    BY <1>1, <1>3, <2>1, RemuxCreates
<1>6. ASSUME NEW s \in Sessions, getMuxer(s) PROVE SessionsAreKnown'
  <2>1. UNCHANGED <<registry, victims>>
    BY <1>6 DEF getMuxer
  <2>2. PICK new : Creation(new)
    BY <1>6, GetCreates
  <2>3. /\ phase'[s] \in {"got", "quitting"} /\ (phase'[s] = "got" => smux'[s] \in Muxers)
        /\ \A t \in Sessions \ {s} : phase'[t] = phase[t] /\ smux'[t] = smux[t]
    BY <1>6, GetCreates
  <2>4. \A t \in Sessions \ {s} : Kept(t)
    BY <1>3, <2>1, <2>2, <2>3
  <2>5. Known(s)' /\ phase'[s] # "replacing"
    BY <2>3 DEF Known
  <2>. QED
    BY <1>2, <2>4, <2>5
<1>7. CASE UNCHANGED <<phase, smux, holder, registry, victims>>
  BY <1>1, <1>7 DEF Kept
<1>8. ASSUME NEW n \in Names, PathNotReady(n) \/ SwitchStream(n) \/ doSetPathReady(n) \/ CloseReaders(n)
      PROVE  SessionsAreKnown'
  BY <1>7, <1>8 DEF PathNotReady, SwitchStream, doSetPathReady, CloseReaders, readVars, muxVars
<1>9. CASE APIDone \/ (\E t \in Sessions \cup {None} : APICall(t)) \/ UNCHANGED vars
  BY <1>7, <1>9 DEF APIDone, APICall, vars, readVars, muxVars
<1>10. ASSUME NEW n \in Names, RecreatePath(n) PROVE SessionsAreKnown'
  <2>1. UNCHANGED <<smux, registry, victims>>
    BY <1>10 DEF RecreatePath
  <2>2. \A i \in Muxers : phase[i] \in Serving => phase'[i] = phase[i] /\ holder'[i] = holder[i]
    BY <1>0, <1>10 DEF RecreatePath, Unlocked, Serving
  <2>3. \A s \in Sessions : phase'[s] = phase[s] \/ phase'[s] = "none"
    BY <1>0, <1>10 DEF RecreatePath, AfterFailure
  <2>4. \A i \in Muxers : holder[i] = "session" => phase[i] \in Serving
    BY DEF LockIsRight, LockOf, Serving
  <2>. QED
    BY <1>1, <2>1, <2>2, <2>3, <2>4 DEF Kept, Served
(* The muxer goes on, with its mutex or without.                           *)
<1>11. ASSUME NEW i \in Muxers, smux' = smux,
              \A s \in Sessions : phase'[s] = phase[s],
              \A j \in Muxers \ {i} : /\ phase'[j] = phase[j] /\ holder'[j] = holder[j]
                                      /\ registry'[j] = registry[j] /\ victims'[j] = victims[j],
              holder[i] = "session" => holder'[i] = "session",
              phase[i] \in Serving =>
                 /\ phase'[i] \in Serving
                 /\ registry[i] \subseteq registry'[i] \cup victims'[i] /\ victims[i] \subseteq victims'[i]
                 /\ phase'[i] = "destroying" => phase[i] = "destroying" \/ registry[i] \cup victims[i] \subseteq victims'[i]
       PROVE  SessionsAreKnown'
  <2>1. ASSUME NEW s \in Sessions PROVE Kept(s)
    <3>1. ASSUME NEW j \in Muxers, j = smux[s], phase[s] \in {"added", "open"}, phase[j] \in Serving
          PROVE  /\ phase'[j] \in Serving
                 /\ s \in registry[j] => s \in registry'[j] \cup victims'[j]
                 /\ s \in victims[j] => s \in victims'[j]
                 /\ phase'[j] = "destroying" => phase[j] = "destroying" \/ s \in victims'[j]
      <4>1. s \in registry[j] \cup victims[j]
        BY <3>1 DEF SessionsAreKnown, Known
      <4>2. CASE j = i
        BY <1>11, <3>1, <4>1, <4>2
      <4>3. CASE j # i
        BY <1>11, <3>1, <4>1, <4>3
      <4>. QED
        BY <4>2, <4>3
    <3>2. \A j \in Muxers : holder[j] = "session" => holder'[j] = "session"
      BY <1>11
    <3>. QED
      BY <1>11, <3>1, <3>2 DEF Kept
  <2>. QED
    BY <1>1, <2>1
<1>12. \A i \in Muxers : holder[i] \in {"none", "init"} => victims[i] = {}
  BY DEF LockIsRight, LockOf
<1>13. ASSUME NEW i \in Muxers, APIVisit(i) PROVE SessionsAreKnown'
  <2>1. UNCHANGED <<phase, smux>> /\ holder[i] = "none" /\ victims[i] = {}
    BY <1>12, <1>13 DEF APIVisit, readVars
  <2>2. /\ \A j \in Muxers \ {i} : holder'[j] = holder[j] /\ registry'[j] = registry[j] /\ victims'[j] = victims[j]
        /\ registry[i] \subseteq registry'[i] \cup victims'[i]
    <3>1. CASE kick \in registry[i]
      BY <1>13, <3>1 DEF APIVisit
    <3>2. CASE kick \notin registry[i]
      BY <1>13, <3>2 DEF APIVisit
    <3>. QED
      BY <3>1, <3>2
  <2>. QED
    BY <1>11, <2>1, <2>2
<1>14. ASSUME NEW a \in Readers, AddReader(a) \/ PathAddReader(a) \/ HeldAnswered(a) PROVE SessionsAreKnown'
  <2>1. UNCHANGED <<smux, registry, victims>>
    BY <1>14 DEF AddReader, PathAddReader, HeldAnswered, muxVars
  <2>2. PICK p \in {"routed", "joined", "held", AfterFailure(a)} : phase' = [phase EXCEPT ![a] = p]
    BY <1>14 DEF AddReader, PathAddReader, HeldAnswered
  <2>3. phase[a] \notin Serving
    BY <1>14 DEF AddReader, PathAddReader, HeldAnswered, Serving
  <2>4. holder' = holder \/ holder' = Unlocked({a})
    BY <1>14 DEF AddReader, PathAddReader, HeldAnswered, muxVars
  <2>5. \A i \in Muxers : holder[i] = "session" => holder'[i] = "session"
    <3>1. a \in Muxers => holder[a] # "session"
      BY <2>3 DEF LockIsRight, LockOf, Serving
    <3>. QED
      BY <2>4, <3>1 DEF Unlocked
  <2>6. \A i \in Muxers : phase[i] \in Serving => phase'[i] = phase[i]
    BY <1>0, <2>2, <2>3
  <2>7. \A s \in Sessions : phase'[s] = phase[s] \/ phase'[s] \notin Served
    BY <1>0, <2>2 DEF AfterFailure, Served
  <2>. QED
    BY <1>1, <2>1, <2>5, <2>6, <2>7 DEF Kept
<1>15. ASSUME NEW i \in Muxers, FirstInstance(i) PROVE SessionsAreKnown'
  <2>1. /\ UNCHANGED <<smux, registry, victims>> /\ phase[i] = "joined"
        /\ holder' = Unlocked({i}) /\ \E p : phase' = [phase EXCEPT ![i] = p]
    BY <1>15 DEF FirstInstance
  <2>2. holder[i] # "session" /\ phase[i] \notin Serving
    BY <2>1 DEF LockIsRight, LockOf, Serving
  <2>. QED
    BY <1>0, <1>11, <2>1, <2>2 DEF Unlocked
<1>16. ASSUME NEW i \in Muxers, InstanceCrashed(i) \/ DestroyMuxer(i) \/ \E S \in SUBSET Sessions : CleanupSessions(i, S)
       PROVE  SessionsAreKnown'
  <2>1. smux' = smux /\ holder[i] = "none" /\ victims[i] = {}
    BY <1>12, <1>16 DEF InstanceCrashed, DestroyMuxer, CleanupSessions
  <2>2. phase' = phase \/ \E p \in {"leaving", "destroying"} : phase' = [phase EXCEPT ![i] = p]
    BY <1>16 DEF InstanceCrashed, DestroyMuxer, CleanupSessions, readVars
  <2>3. \A s \in Sessions : phase'[s] = phase[s]
    BY <1>0, <2>2
  <2>4. /\ \A j \in Muxers \ {i} : phase'[j] = phase[j]
        /\ phase'[i] \in Serving
    BY <1>0, <1>16, <2>2 DEF InstanceCrashed, DestroyMuxer, CleanupSessions, Serving
  <2>5. /\ \A j \in Muxers \ {i} : holder'[j] = holder[j] /\ registry'[j] = registry[j] /\ victims'[j] = victims[j]
        /\ registry[i] \subseteq registry'[i] \cup victims'[i]
        /\ phase'[i] = "destroying" => phase[i] = "destroying" \/ registry[i] \subseteq victims'[i]
    <3>1. CASE InstanceCrashed(i)
      BY <1>0, <3>1 DEF InstanceCrashed
    <3>2. CASE DestroyMuxer(i)
      BY <3>2 DEF DestroyMuxer
    <3>3. ASSUME NEW S \in SUBSET Sessions, CleanupSessions(i, S)
          PROVE  /\ \A j \in Muxers \ {i} :
                       holder'[j] = holder[j] /\ registry'[j] = registry[j] /\ victims'[j] = victims[j]
                 /\ registry[i] \subseteq registry'[i] \cup victims'[i] /\ phase' = phase
      BY <3>3 DEF CleanupSessions, readVars
    <3>. QED
      BY <1>16, <3>1, <3>2, <3>3
  <2>. QED
    BY <1>11, <2>1, <2>3, <2>4, <2>5
<1>17. ASSUME NEW i \in Muxers, RecreateInstance(i) \/ StopMuxer(i) \/ LeavePath(i) PROVE SessionsAreKnown'
  <2>1. /\ UNCHANGED <<smux, holder, registry, victims>>
        /\ phase' = phase \/ \E p \in {"leaving", "ending"} : phase' = [phase EXCEPT ![i] = p]
    BY <1>17 DEF RecreateInstance, StopMuxer, LeavePath, readVars, muxVars
  <2>2. /\ \A a \in Readers \ {i} : phase'[a] = phase[a]
        /\ phase'[i] = phase[i] \/ phase'[i] \in {"leaving", "ending"}
    BY <1>0, <2>1
  <2>. QED
    BY <1>0, <1>11, <2>1, <2>2 DEF Serving
<1>18. ASSUME NEW i \in Muxers, CloseMuxer(i) PROVE SessionsAreKnown'
  <2>1. /\ UNCHANGED <<smux, holder, victims>> /\ phase[i] = "closing"
        /\ phase' = [phase EXCEPT ![i] = "none"] /\ registry' = [registry EXCEPT ![i] = {}]
    BY <1>18 DEF CloseMuxer, Forget
  <2>2. phase[i] \notin Serving
    BY <2>1 DEF Serving
  <2>. QED
    BY <1>0, <1>11, <2>1, <2>2
<1>19. ASSUME NEW i \in Muxers, NEW s \in Sessions, close2(i, s) PROVE SessionsAreKnown'
  <2>1. /\ UNCHANGED <<holder, registry>> /\ phase' = [phase EXCEPT ![s] = "closed"]
        /\ smux' = [smux EXCEPT ![s] = None] /\ victims' = [victims EXCEPT ![i] = @ \ {s}]
    BY <1>19 DEF close2
  <2>2. phase'[s] \notin Served
    BY <1>0, <2>1 DEF Served
  <2>3. \A t \in Sessions \ {s} : Kept(t)
    <3>1. \A j \in Muxers : phase'[j] = phase[j]
      BY <1>0, <2>1
    <3>2. \A t \in Sessions \ {s} : phase'[t] = phase[t] /\ smux'[t] = smux[t]
      BY <1>0, <2>1
    <3>3. \A t \in Sessions \ {s} : \A j \in Muxers : t \in victims[j] => t \in victims'[j]
      BY <2>1
    <3>. QED
      BY <2>1, <3>1, <3>2, <3>3 DEF Kept
  <2>. QED
    BY <1>1, <2>2, <2>3
<1>20. ASSUME NEW i \in Muxers, Unlock(i) PROVE SessionsAreKnown'
  <2>1. /\ UNCHANGED <<smux, victims>> /\ victims[i] = {} /\ holder' = Unlocked({i})
        /\ \A j \in Muxers \ {i} : holder'[j] = holder[j]
    BY <1>20 DEF Unlock, Unlocked
  <2>2. CASE holder[i] \in {"muxer", "server"}
    <3>1. /\ registry' = registry
          /\ \A a \in Readers \ {i} : phase'[a] = phase[a]
          /\ phase'[i] = phase[i] \/ phase[i] = "destroying"
      BY <1>20, <2>2 DEF Unlock
    <3>2. CASE phase[i] # "destroying"
      <4>1. phase'[i] = phase[i] /\ registry[i] \subseteq registry'[i] \cup victims'[i] /\ victims[i] \subseteq victims'[i]
        BY <2>1, <3>1, <3>2
      <4>. QED
        BY <1>0, <1>11, <2>1, <2>2, <3>1, <4>1
    <3>3. CASE phase[i] = "destroying"
      <4>1. \A t \in Sessions : phase[t] \in {"added", "open"} => smux[t] # i
        BY <2>1, <3>3 DEF SessionsAreKnown, Known
      <4>2. \A t \in Sessions : phase[t] = "replacing" => smux[t] # i
        BY <2>2 DEF SessionsAreKnown, Known
      <4>3. \A t \in Sessions : Kept(t)
        BY <1>0, <2>1, <3>1, <4>1, <4>2 DEF Kept
      <4>. QED
        BY <1>1, <4>3
    <3>. QED
      BY <3>2, <3>3
  <2>3. CASE holder[i] \notin {"muxer", "server"}
    <3>1. PICK s \in Sessions : /\ phase[s] = "replacing" /\ smux[s] = i /\ phase' = [phase EXCEPT ![s] = "added"]
                                /\ registry' = [registry EXCEPT ![i] = @ \cup {s}] /\ holder[i] = "session"
      BY <1>20, <2>3 DEF Unlock
    <3>2. phase[i] \in {"up", "leaving", "ending"} /\ \A j \in Muxers : phase'[j] = phase[j]
      BY <1>0, <3>1 DEF LockIsRight, LockOf
    <3>3. Known(s)' /\ phase'[s] # "replacing"
      <4>1. phase'[s] = "added" /\ smux'[s] = i /\ s \in registry'[i] /\ phase'[i] \in {"up", "leaving", "ending"}
        BY <1>0, <2>1, <3>1, <3>2
      <4>. QED
        BY <4>1 DEF Known
    <3>4. ASSUME NEW t \in Sessions \ {s} PROVE Kept(t)
      <4>1. phase[t] = "replacing" => smux[t] # i
        BY <3>1 DEF SessionsAreKnown
      <4>2. phase'[t] = phase[t] /\ smux'[t] = smux[t]
        BY <1>0, <2>1, <3>1
      <4>3. \A j \in Muxers : registry[j] \subseteq registry'[j]
        BY <3>1
      <4>. QED
        BY <2>1, <3>2, <4>1, <4>2, <4>3 DEF Kept
    <3>. QED
      BY <1>2, <3>3, <3>4
  <2>. QED
    BY <2>2, <2>3
<1>21. ASSUME NEW s \in Sessions, NEW n \in Names, OpenSession(s, n) PROVE SessionsAreKnown'
  <2>1. UNCHANGED <<smux, holder, registry, victims>> /\ phase' = [phase EXCEPT ![s] = "adding"]
    BY <1>21 DEF OpenSession, muxVars
  <2>2. phase'[s] \notin Served /\ \A a \in Readers \ {s} : phase'[a] = phase[a]
    BY <1>0, <2>1 DEF Served
  <2>3. \A t \in Sessions \ {s} : Kept(t)
    BY <1>0, <2>1, <2>2 DEF Kept
  <2>. QED
    BY <1>1, <2>2, <2>3
<1>22. ASSUME NEW s \in Sessions, RefusedSession(s) PROVE SessionsAreKnown'
  <2>1. /\ UNCHANGED <<holder, registry, victims>> /\ phase' = [phase EXCEPT ![s] = "none"]
        /\ smux' = [smux EXCEPT ![s] = None]
    BY <1>22 DEF RefusedSession, muxVars
  <2>2. phase'[s] \notin Served /\ \A a \in Readers \ {s} : phase'[a] = phase[a]
    BY <1>0, <2>1 DEF Served
  <2>3. \A t \in Sessions \ {s} : Kept(t)
    BY <1>0, <2>1, <2>2 DEF Kept
  <2>. QED
    BY <1>1, <2>2, <2>3
<1>23. ASSUME NEW s \in Sessions, OnRead(s) PROVE SessionsAreKnown'
  <2>1. /\ UNCHANGED <<smux, holder, registry, victims>> /\ phase[s] = "added" /\ phase' = [phase EXCEPT ![s] = "open"]
    BY <1>23 DEF OnRead, muxVars
  <2>2. phase'[s] = "open" /\ \A a \in Readers \ {s} : phase'[a] = phase[a]
    BY <1>0, <2>1
  <2>3. \A t \in Sessions \ {s} : Kept(t)
    BY <1>0, <2>1, <2>2 DEF Kept
  <2>4. Known(s)'
    <3>1. PICK i \in Muxers : i = smux[s]
      BY <2>1 DEF SessionsAreKnown, Known
    <3>. QED
      BY <1>0, <2>1, <2>2, <3>1 DEF SessionsAreKnown, Known
  <2>. QED
    BY <1>2, <2>2, <2>3, <2>4
<1>24. ASSUME NEW s \in Sessions, addSession(s) PROVE SessionsAreKnown'
  <2>1. PICK i \in Muxers : i = smux[s]
    BY <1>24 DEF addSession, SessionsAreKnown, Known
  <2>2. /\ smux' = smux /\ holder[i] = "none" /\ victims[i] = {} /\ phase[s] = "got"
        /\ \A a \in Readers \ {s} : phase'[a] = phase[a]
    BY <1>12, <1>24, <2>1 DEF addSession
  <2>3. /\ \A j \in Muxers \ {i} : registry'[j] = registry[j] /\ victims'[j] = victims[j] /\ holder'[j] = holder[j]
        /\ registry[i] \subseteq registry'[i] \cup victims'[i]
    BY <1>24, <2>1 DEF addSession
  <2>4. \A t \in Sessions : phase[t] = "replacing" => smux[t] # i
    BY <2>2 DEF SessionsAreKnown, Known
  <2>5. ASSUME NEW t \in Sessions \ {s} PROVE Kept(t)
    <3>1. t \in Readers \ {s} /\ \A j \in Muxers : phase'[j] = phase[j]
      BY <1>0, <2>2
    <3>. QED
      BY <2>2, <2>3, <2>4, <3>1 DEF Kept
  <2>6. CASE phase'[s] = "quitting"
    BY <1>1, <2>5, <2>6 DEF Served
  <2>7. CASE phase'[s] = "added"
    <3>1. inst[i] /\ s \in registry'[i]
      BY <1>0, <1>24, <2>1, <2>7 DEF addSession
    <3>2. phase[i] \in {"up", "leaving", "ending"} /\ phase'[i] = phase[i]
      BY <1>0, <2>2, <3>1 DEF LockIsRight, LockOf
    <3>3. Known(s)'
      BY <2>1, <2>2, <2>7, <3>1, <3>2 DEF Known
    <3>. QED
      BY <1>2, <2>5, <2>7, <3>3
  <2>8. CASE phase'[s] = "replacing"
    <3>1. holder'[i] = "session"
      BY <1>0, <1>24, <2>1, <2>8 DEF addSession
    <3>2. Known(s)'
      BY <2>1, <2>2, <2>8, <3>1 DEF Known
    <3>3. \A t \in Sessions : Known(t)'
      BY <2>5, <3>2, KeptIsKnown
    <3>4. \A t \in Sessions \ {s} : phase'[t] = "replacing" => phase[t] = "replacing" /\ smux'[t] = smux[t]
      BY <2>5 DEF Kept
    <3>. QED
      BY <2>1, <2>2, <2>4, <3>3, <3>4 DEF SessionsAreKnown
  <2>. QED
    BY <1>0, <1>24, <2>6, <2>7, <2>8 DEF addSession
<1>. QED
  BY <1>4, <1>5, <1>6, <1>8, <1>9, <1>10, <1>13, <1>14, <1>15, <1>16, <1>17, <1>18, <1>19, <1>20, <1>21, <1>22, <1>23,
     <1>24 DEF Next

-----------------------------------------------------------------------------
(***************************************************************************)
(* Paths that are always remuxed.                                          *)
(***************************************************************************)
(* Where paths are always remuxed, no reload replaces a path by another.   *)
PathsAreKept == \A m \in Modes : m.recreation => ~m.alwaysRemux

(* The server hears of a path in the order in which it becomes ready and   *)
(* not ready: the manager's next call waits for the previous one.          *)
LEMMA ToldStep ==
    ASSUME PathsAreKept, TypeOK, Named, MapIsRight, ReadyIsTold, [Next]_vars
    PROVE  ReadyIsTold'
<1>. USE DEF TypeOK
<1>0. mode' = mode /\ \A n : Remuxed(n)' <=> Remuxed(n)
  BY DEF Next, vars, Remuxed, AlwaysRemux, OnDemand
<1>1. \A n \in Names : None # <<n, "ready">> /\ None # <<n, "notReady">>
  BY HLSAssumption
<1>2. CASE UNCHANGED <<srv, pathVars, muxers, auto>>
  BY <1>0, <1>2 DEF ReadyIsTold, pathVars
<1>3. ASSUME NEW new, Creation(new), \A i \in new : Remuxed(name'[i]) => ready[name'[i]] /\ auto'[i],
             srv' = "select", registered', mgr' = None, mgr \in {None} \cup (Names \X {"ready"}),
             UNCHANGED <<ready, on, tell>>
      PROVE  ReadyIsTold'
  <2>1. ASSUME NEW n \in Names, Remuxed(n), muxers'[n] # None PROVE auto'[muxers'[n]] /\ ready[n]
    <3>1. CASE muxers'[n] = muxers[n]
      <4>1. muxers[n] \in Muxers \ new
        BY <1>3, <2>1, <3>1 DEF MapIsRight, Creation
      <4>2. auto'[muxers[n]] = auto[muxers[n]]
        BY <1>3, <4>1 DEF Creation
      <4>3. mgr # <<n, "notReady">>
        BY <1>1, <1>3
      <4>. QED
        BY <2>1, <3>1, <4>2, <4>3 DEF ReadyIsTold
    <3>2. CASE muxers'[n] \in new /\ name'[muxers'[n]] = n
      BY <1>3, <2>1, <3>2
    <3>. QED
      BY <1>3, <3>1, <3>2 DEF Creation
  <2>. QED
    BY <1>0, <1>1, <1>3, <2>1 DEF ReadyIsTold
<1>4. CASE SetHLSServer
  <2>1. /\ RemuxMissing({n \in Names : ready[n]}) /\ srv' = "select" /\ registered' /\ mgr = None /\ mgr' = None
        /\ UNCHANGED <<ready, on, tell>>
    BY <1>4 DEF SetHLSServer
  <2>2. PICK new : Creation(new) /\ \A i \in new : name'[i] \in {n \in Names : ready[n]} /\ auto'[i]
    BY <2>1, RemuxCreates
  <2>. QED
    BY <1>3, <2>1, <2>2
<1>5. ASSUME NEW n \in Names, PathReady(n) PROVE ReadyIsTold'
  <2>1. /\ RemuxMissing({n}) /\ {n} \subseteq Names /\ srv' = "select" /\ registered' /\ mgr = <<n, "ready">> /\ mgr' = None
        /\ UNCHANGED <<ready, on, tell>>
    BY <1>5 DEF PathReady, ReadyIsTold
  <2>2. ready[n] /\ mgr \in {None} \cup (Names \X {"ready"})
    BY <2>1 DEF ReadyIsTold
  <2>3. PICK new : Creation(new) /\ \A i \in new : name'[i] \in {n} /\ auto'[i]
    BY <2>1, RemuxCreates
  <2>. QED
    BY <1>3, <2>1, <2>2, <2>3
<1>6. ASSUME NEW s \in Sessions, getMuxer(s) PROVE ReadyIsTold'
  <2>1. srv = "select" /\ UNCHANGED <<srv, pathVars>>
    BY <1>6 DEF getMuxer
  <2>2. PICK new : Creation(new) /\ \A i \in new : ~Remuxed(name'[i])
    BY <1>6, GetCreates
  <2>3. ASSUME NEW n \in Names, Remuxed(n) PROVE muxers'[n] = muxers[n] /\ (muxers[n] # None => muxers[n] \in Muxers \ new)
    BY <2>2, <2>3 DEF Creation, MapIsRight
  <2>4. \A n \in Names : Remuxed(n) /\ muxers[n] # None => auto'[muxers[n]] = auto[muxers[n]]
    BY <2>2, <2>3 DEF Creation
  <2>. QED
    BY <1>0, <2>1, <2>3, <2>4 DEF ReadyIsTold, pathVars
<1>7. ASSUME NEW n \in Names, PathNotReady(n) PROVE ReadyIsTold'
  <2>1. /\ mgr = <<n, "notReady">> /\ mgr' = None /\ UNCHANGED <<srv, registered, ready, on, tell, auto>>
        /\ \A m \in Names \ {n} : muxers'[m] = muxers[m]
        /\ muxers'[n] = None \/ (muxers' = muxers /\ ~(muxers[n] # None /\ auto[muxers[n]]))
    BY <1>7 DEF PathNotReady
  <2>2. \A m \in Names \ {n} : mgr # <<m, "notReady">>
    BY <2>1
  <2>. QED
    BY <1>0, <1>1, <2>1, <2>2 DEF ReadyIsTold
<1>8. ASSUME NEW n \in Names, SwitchStream(n) PROVE ReadyIsTold'
  <2>1. /\ UNCHANGED <<srv, muxers, registered, mgr, ready, auto>> /\ tell[n] = "no"
        /\ on' = [on EXCEPT ![n] = TRUE]
        /\ tell' = [tell EXCEPT ![n] = IF on[n] THEN "notReady" ELSE "ready"]
    BY <1>8 DEF SwitchStream, srvVars, muxVars
  <2>. QED
    BY <1>0, <2>1 DEF ReadyIsTold
<1>9. ASSUME NEW n \in Names, doSetPathReady(n) PROVE ReadyIsTold'
  <2>1. UNCHANGED <<srv, muxers, registered, on, auto>> /\ mgr = None
    BY <1>9 DEF doSetPathReady, srvVars, muxVars
  <2>2. \A m \in Names : Remuxed(m) /\ muxers[m] # None => ready[m] /\ auto[muxers[m]]
    BY <1>1, <2>1 DEF ReadyIsTold
  <2>3. CASE tell[n] = "ready"
    <3>1. /\ ready' = [ready EXCEPT ![n] = TRUE] /\ tell' = [tell EXCEPT ![n] = "no"]
          /\ mgr' \in {None, <<n, "ready">>} /\ ~ready[n] /\ on[n]
      BY <1>9, <2>3 DEF doSetPathReady, ReadyIsTold
    <3>2. \A m \in Names : /\ mgr' # <<m, "notReady">>
                           /\ mgr' = <<m, "ready">> => m = n
      BY <1>1, <3>1
    <3>. QED
      BY <1>0, <2>1, <2>2, <3>1, <3>2 DEF ReadyIsTold
  <2>4. CASE tell[n] = "notReady"
    <3>1. /\ ready' = [ready EXCEPT ![n] = FALSE] /\ tell' = [tell EXCEPT ![n] = "closing"]
          /\ mgr' = (IF registered THEN <<n, "notReady">> ELSE None)
      BY <1>9, <2>4 DEF doSetPathReady
    <3>2. \A m \in Names : mgr' # <<m, "ready">>
      BY <1>1, <3>1
    <3>3. muxers[n] # None => mgr' = <<n, "notReady">>
      BY <3>1 DEF ReadyIsTold
    <3>. QED
      BY <1>0, <2>1, <2>2, <3>1, <3>2, <3>3 DEF ReadyIsTold
  <2>. QED
    BY <1>9, <2>3, <2>4 DEF doSetPathReady
<1>10. ASSUME NEW n \in Names, CloseReaders(n) PROVE ReadyIsTold'
  <2>1. /\ UNCHANGED <<srv, muxers, registered, mgr, ready, auto>> /\ tell[n] = "closing"
        /\ on' = [on EXCEPT ![n] = FALSE] /\ tell' = [tell EXCEPT ![n] = "no"]
    BY <1>10 DEF CloseReaders, srvVars
  <2>. QED
    BY <1>0, <2>1 DEF ReadyIsTold
<1>11. ASSUME NEW n \in Names, RecreatePath(n) PROVE ReadyIsTold'
  <2>1. /\ UNCHANGED <<srv, muxers, registered, mgr, auto>> /\ mgr = None /\ mode.recreation
        /\ on' = [on EXCEPT ![n] = FALSE] /\ tell' = [tell EXCEPT ![n] = "no"] /\ ready' = [ready EXCEPT ![n] = FALSE]
    BY <1>11 DEF RecreatePath, srvVars
  <2>2. \A m : ~Remuxed(m)
    BY <2>1 DEF PathsAreKept, Remuxed, AlwaysRemux
  <2>. QED
    BY <1>0, <1>1, <2>1, <2>2 DEF ReadyIsTold
<1>12. ASSUME NEW i \in Muxers, CloseMuxer(i) PROVE ReadyIsTold'
  <2>1. /\ UNCHANGED <<srv, pathVars>> /\ auto' = [auto EXCEPT ![i] = FALSE]
        /\ \A n \in Names : muxers'[n] = None \/ (muxers'[n] = muxers[n] /\ (n = name[i] => muxers[n] # i))
    BY <1>12 DEF CloseMuxer, Forget
  <2>2. \A n \in Names : muxers'[n] # None => muxers'[n] = muxers[n] /\ muxers[n] # i /\ muxers[n] \in Muxers
    BY <2>1 DEF MapIsRight
  <2>. QED
    BY <1>0, <2>1, <2>2 DEF ReadyIsTold, pathVars
<1>13. CASE APIDone \/ \E t \in Sessions \cup {None} : APICall(t)
  <2>1. UNCHANGED <<pathVars, muxers, auto>> /\ srv # "starting" /\ srv' # "starting"
    BY <1>13 DEF APIDone, APICall, muxVars
  <2>. QED
    BY <1>0, <2>1 DEF ReadyIsTold, pathVars
<1>14. ASSUME NEW a \in Readers, AddReader(a) \/ PathAddReader(a) \/ HeldAnswered(a) PROVE ReadyIsTold'
  BY <1>2, <1>14 DEF AddReader, PathAddReader, HeldAnswered, srvVars, muxVars
<1>15. ASSUME NEW i \in Muxers,
              APIVisit(i) \/ FirstInstance(i) \/ InstanceCrashed(i) \/ RecreateInstance(i) \/ StopMuxer(i) \/ LeavePath(i)
              \/ DestroyMuxer(i) \/ Unlock(i) \/ (\E S \in SUBSET Sessions : CleanupSessions(i, S))
              \/ \E s \in Sessions : close2(i, s)
       PROVE  ReadyIsTold'
  BY <1>2, <1>15 DEF APIVisit, FirstInstance, InstanceCrashed, RecreateInstance, StopMuxer, LeavePath, DestroyMuxer, Unlock,
     CleanupSessions, close2, srvVars, muxVars
<1>16. ASSUME NEW s \in Sessions,
              (\E n \in Names : OpenSession(s, n)) \/ addSession(s) \/ OnRead(s) \/ RefusedSession(s)
       PROVE  ReadyIsTold'
  BY <1>2, <1>16 DEF OpenSession, addSession, OnRead, RefusedSession, srvVars, muxVars
<1>17. CASE UNCHANGED vars
  BY <1>2, <1>17 DEF vars, srvVars, muxVars
<1>. QED
  BY <1>4, <1>5, <1>6, <1>7, <1>8, <1>9, <1>10, <1>11, <1>12, <1>13, <1>14, <1>15, <1>16, <1>17 DEF Next

-----------------------------------------------------------------------------
(***************************************************************************)
(* The invariant, and what it says of the server.                          *)
(***************************************************************************)
(* The server starts without muxers and sessions.                          *)
LEMMA InitInv == ASSUME Init PROVE Inv /\ ReadyIsTold
<1>1. TypeOK
  <2>1. mode \in Modes /\ on \in [Names -> BOOLEAN] /\ ready \in [Names -> BOOLEAN]
    BY DEF Init
  <2>. QED
    BY <2>1 DEF Init, TypeOK, MuxerPhases, SessionPhases, Readers
<1>2. Named /\ NoOrphanMuxer /\ ReadersAreAlive /\ MapIsRight
  BY DEF Init, Named, NoOrphanMuxer, ReadersAreAlive, MapIsRight, Readers
<1>3. LockIsRight
  BY DEF Init, LockIsRight, LockOf, Starting, Readers
<1>4. SessionsAreKnown
  BY DEF Init, SessionsAreKnown, Known, Readers
<1>5. ReadyIsTold
  BY HLSAssumption DEF Init, ReadyIsTold
<1>. QED
  BY <1>1, <1>2, <1>3, <1>4, <1>5 DEF Inv

(* Every step keeps it.                                                    *)
LEMMA NextInv == ASSUME Inv, [Next]_vars PROVE Inv'
BY TypeStep, AliveStep, MapStep, MutexStep, SessionsStep DEF Inv

(* The invariant holds in every state of the server, however many paths,   *)
(* muxers and sessions there are, and whether or not paths are replaced.   *)
THEOREM Invariance == Spec => []Inv
BY InitInv, NextInv, PTL DEF Spec

(* The server, the muxers, the sessions and the paths keep their variables *)
(* in their types.                                                         *)
THEOREM TypeCorrect == Spec => []TypeOK
<1>1. Inv => TypeOK
  BY DEF Inv
<1>. QED
  BY <1>1, Invariance, PTL

(* Server, muxers, sessions and paths agree on who is there: a muxer that  *)
(* runs is in the server's map, an open session is in a muxer that has not *)
(* ended, and whoever is a reader of a path will leave it.                 *)
THEOREM ReadersAreKnownHolds == Spec => []ReadersAreKnown
<1>1. Inv => ReadersAreKnown
  <2>. SUFFICES ASSUME Inv PROVE OpenSessionsHaveMuxer
    BY DEF Inv, ReadersAreKnown
  <2>1. ASSUME NEW s \in Sessions, phase[s] = "open"
        PROVE  \E i \in Muxers : /\ phase[i] \in {"up", "leaving", "ending", "destroying"}
                                 /\ s \in registry[i] \cup victims[i]
    <3>1. Known(s)
      BY DEF Inv, SessionsAreKnown
    <3>. QED
      BY <2>1, <3>1 DEF Known
  <2>. QED
    BY <2>1 DEF OpenSessionsHaveMuxer
<1>. QED
  BY <1>1, Invariance, PTL

(* pathReady finds no muxer in the map that has been told to stop, and     *)
(* leaves one that has not, if no path is replaced.                        *)
THEOREM ReadyPathIsRemuxedHolds == ASSUME PathsAreKept PROVE Spec => ReadyPathIsRemuxed
<1>1. Inv /\ ReadyIsTold /\ [Next]_vars => ReadyIsTold'
  BY ToldStep DEF Inv
<1>2. ASSUME Inv, ReadyIsTold, NEW n \in Names \ OnDemand, AlwaysRemux, PathReady(n)
      PROVE  muxers'[n] # None /\ ~cancelled'[muxers'[n]]
  <2>1. TypeOK /\ RemuxMissing({n}) /\ {n} \subseteq Names /\ mgr = <<n, "ready">> /\ n \in Names /\ Remuxed(n)
    BY <1>2 DEF PathReady, Inv, Remuxed
  <2>2. muxers[n] = None
    BY <1>2, <2>1 DEF ReadyIsTold
  <2>3. PICK new : Creation(new) /\ muxers'[n] \in new
    BY <2>1, <2>2, RemuxCreates
  <2>. QED
    BY <2>3, HLSAssumption DEF Creation, Readers
<1>3. Inv /\ ReadyIsTold => [\A n \in Names \ OnDemand :
          AlwaysRemux /\ PathReady(n) => /\ muxers'[n] # None
                                         /\ ~cancelled'[muxers'[n]]]_vars
  BY <1>2
<1>. QED
  BY <1>1, <1>3, InitInv, Invariance, PTL DEF Spec, ReadyPathIsRemuxed
=============================================================================
