------------------------------ MODULE MCMedia -------------------------------
EXTENDS Media

Medium(c, rate, ch, depth) ==
    [codec |-> c, rate |-> rate, ch |-> ch, depth |-> depth, config |-> 1, cpresent |-> FALSE]

MCOrigDesc == <<Medium("H264", 90000, 0, 0), Medium("MPEG4Audio", 48000, 2, 0)>>

Brings(ms, packets, ps) == [medias |-> ms, rtp |-> packets, params |-> ps]
OtherAudio == [MCOrigDesc EXCEPT ![2].config = 2]

MCDescs ==
    [Pubs -> {Brings(MCOrigDesc, TRUE, None), Brings(MCOrigDesc, FALSE, "b"), Brings(OtherAudio, FALSE, "b")}]

In(kind, carries, big) == [kind |-> kind, carries |-> carries, big |-> big]
MCUnits == {In("nil", None, FALSE), In("bad", None, FALSE), In("delta", None, FALSE), In("delta", None, TRUE),
            In("key", None, FALSE), In("key", "a", FALSE), In("params", "a", FALSE)}

MCMedia ==
    {Medium(c, 90000, 0, 0) : c \in {"AV1", "VP9", "VP8", "H265", "H264", "MPEG4Video", "MPEG1Video",
                                     "MJPEG", "KLV", "MPEG1Audio"}}
    \cup {Medium(c, 48000, 2, 16) : c \in {"Opus", "AC3", "FLAC", "MPEG4Audio", "LATM", "G711", "LPCM", "G722"}}
    \cup {Medium("G711", 8000, 1, 0), Medium("LPCM", 44100, 2, 16), Medium("LPCM", 32000, 2, 16),
          Medium("LPCM", 16000, 1, 16), Medium("Opus", 48000, 6, 0), Medium("LPCM", 48000, 2, 24),
          [Medium("LATM", 48000, 2, 0) EXCEPT !.cpresent = TRUE]}

MCLayered == LET v == Medium("H264", 90000, 0, 0) a == Medium("Opus", 48000, 2, 16)
             IN  {<<v, v, a>>, <<a, v, v>>, <<v, a, v>>, <<v, v, v>>}

MCOffers == {<<m>> : m \in MCMedia} \cup {<<m1, m2>> : m1, m2 \in MCMedia} \cup MCLayered

Bound(fs, ts, hs) == [frames |-> fs, ticks |-> ts, handlers |-> hs]
MCLayerBounds == {Bound(<<3, 3>>, 0, 0), Bound(<<0, 0>>, 4, 0), Bound(<<3, 1>>, 0, 1), Bound(<<3>>, 0, 2)}

MCFourCCs == {{}, {"AV1", "H265", "Opus"}, {"VP9", "AC3", "FLAC"}}
=============================================================================
