--------------------------- MODULE MCStaticSource ---------------------------
(* Small instances of StaticSource for TLC.                                *)
EXTENDS StaticSource
=============================================================================
