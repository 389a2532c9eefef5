--------------------------- MODULE SourceContract ---------------------------
(***************************************************************************)
(* What a path may rely on from its static source: after Start it becomes  *)
(* ready and not ready by turns, and once it is stopped nothing more comes *)
(* from it until it is started again.  Module Path is written against this *)
(* contract and module StaticSource implements it.                         *)
(***************************************************************************)
VARIABLE st

Init == st \in {"stopped", "running"}

Start == st = "stopped" /\ st' = "running"

SetReady == st = "running" /\ st' = "ready"

SetNotReady == st = "ready" /\ st' = "running"

Stop == st' = "stopped"

Next == Start \/ SetReady \/ SetNotReady \/ Stop

Spec == Init /\ [][Next]_st
=============================================================================
