------------------------------- MODULE MCPath -------------------------------
(***************************************************************************)
(* Instances of Path for TLC: the kinds of paths a configuration can       *)
(* describe, each with and without a regular expression where allowed.     *)
(***************************************************************************)
EXTENDS Path, TLC

CONSTANTS s1, s2

Symmetry == Permutations(Readers) \cup Permutations(Publishers)

Base == [source |-> "publisher", regexp |-> FALSE, alwaysAvailable |-> FALSE,
         sourceOnDemand |-> FALSE, runOnDemand |-> FALSE,
         overridePublisher |-> FALSE, maxReaders |-> 0, egress |-> AllOff]

(* Recorder and one forwarder off, on, or on with other parameters.        *)
Egresses == {AllOff,
             [AllOff EXCEPT !["recorder"] = s1],
             [AllOff EXCEPT !["recorder"] = s2, !["mmx"] = s1]}

WithReloads(c, regexps) ==
    {[c EXCEPT !.regexp = re, !.egress = eg] : re \in regexps, eg \in Egresses}

PublisherConfs ==
    WithReloads([Base EXCEPT !.overridePublisher = TRUE], {FALSE})

OnDemandPublisherConfs ==
    {[Base EXCEPT !.runOnDemand = TRUE, !.regexp = re, !.overridePublisher = ov,
                  !.maxReaders = 1] : re \in BOOLEAN, ov \in BOOLEAN}

StaticConfs ==
    {[Base EXCEPT !.source = "static", !.sourceOnDemand = TRUE, !.regexp = re,
                  !.maxReaders = m] : re \in BOOLEAN, m \in {0, 1}}
    \cup WithReloads([Base EXCEPT !.source = "static"], {FALSE})

AlwaysAvailableConfs ==
    UNION {WithReloads([Base EXCEPT !.source = src, !.alwaysAvailable = TRUE,
                                    !.overridePublisher = TRUE], {FALSE})
             : src \in {"static", "publisher"}}

OtherConfs ==
    {[Base EXCEPT !.source = "redirect"]} \cup {[Base EXCEPT !.regexp = re] : re \in BOOLEAN}

AllConfs == PublisherConfs \cup OnDemandPublisherConfs \cup StaticConfs
            \cup AlwaysAvailableConfs \cup OtherConfs

OnDemandConfs == OnDemandPublisherConfs \cup {c \in StaticConfs : c.sourceOnDemand}
=============================================================================
