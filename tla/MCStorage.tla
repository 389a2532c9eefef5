------------------------------ MODULE MCStorage -----------------------------
(* Storage for TLC.                                                        *)
EXTENDS Storage

CONSTANTS f1, f2

MCMedia(c) == [codec |-> c, cpresent |-> FALSE, rate |-> 48000, ch |-> 2, depth |-> 16, config |-> 1]

UTC == [sign |-> 1, h |-> 0, m |-> 0]
EST == [sign |-> -1, h |-> 5, m |-> 0]

MCSetups ==
    {[fmt |-> "fmp4", medias |-> <<MCMedia("H264")>>, zone |-> UTC],
     [fmt |-> "fmp4", medias |-> <<MCMedia("Opus"), MCMedia("H265")>>, zone |-> EST],
     [fmt |-> "fmp4", medias |-> <<MCMedia("VP8")>>, zone |-> UTC],
     [fmt |-> "mpegts", medias |-> <<MCMedia("H264")>>, zone |-> UTC]}

MCForwarded ==
    {<<MCMedia("H264"), MCMedia("H264"), MCMedia("Opus")>>, <<MCMedia("H265"), MCMedia("H265")>>,
     <<MCMedia("MPEG4Audio")>>}

ASSUME RetentionIsLong

(* A clock ahead or behind by more than the tolerance, and one so far      *)
(* behind that a segment is older than DeleteAfter when it starts.         *)
MCSkews == {0, 2, -5}

MCMaxUnits == <<4, 4>>
MCMaxTime == <<4, 3>>
MCMaxDisturbed == <<1, 1>>
=============================================================================
