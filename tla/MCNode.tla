------------------------------- MODULE MCNode -------------------------------
(* Two nodes: one without a control center whose settings change often,    *)
(* and one with everything on.                                             *)
EXTENDS Node

MCScenarios ==
    {[conf |-> {"auth", "metrics", "playback", "deleteAfter", "rtsp", "hls", "api", "admin"},
      editable |-> {"api", "admin", "hls", "playback", "logLevel"},
      edits |-> 3],
     [conf |-> Settings \ {"logLevel", "api"},
      editable |-> {"control", "webrtc", "recorder", "timeouts"},
      edits |-> 1]}
=============================================================================
