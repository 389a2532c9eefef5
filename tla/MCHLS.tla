------------------------------- MODULE MCHLS -------------------------------
(* Small instances of HLS for TLC.                                         *)
EXTENDS HLS

CONSTANTS n1, m1, m2, s1, s2

(* Two CDN sessions of an on-demand path, and a session of one whose muxer *)
(* is replaced, with API calls; an always-remux muxer of a path that comes *)
(* and goes; and one of each, for liveness.                                *)
MCModes ==
    {[sessions |-> {s1, s2}, muxers |-> {m1}, cdn |-> {s1, s2}, onDemand |-> {n1},
      alwaysRemux |-> FALSE, apiCalls |-> TRUE, recreation |-> FALSE, fair |-> FALSE],
     [sessions |-> {s1}, muxers |-> {m1, m2}, cdn |-> {}, onDemand |-> {n1},
      alwaysRemux |-> FALSE, apiCalls |-> TRUE, recreation |-> TRUE, fair |-> FALSE],
     [sessions |-> {s1}, muxers |-> {m1, m2}, cdn |-> {}, onDemand |-> {},
      alwaysRemux |-> TRUE, apiCalls |-> FALSE, recreation |-> FALSE, fair |-> FALSE],
     [sessions |-> {s1}, muxers |-> {m1}, cdn |-> {}, onDemand |-> {n1},
      alwaysRemux |-> FALSE, apiCalls |-> FALSE, recreation |-> TRUE, fair |-> TRUE]}
=============================================================================
