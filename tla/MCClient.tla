------------------------------- MODULE MCClient -------------------------------
(* Two streams at the server's limit, that may ask for a region of each feed  *)
(* and for one that is not served, with connectors that differ in each        *)
(* setting.                                                                   *)
EXTENDS Client

MCPolicy(retries) == [max_retries |-> retries]

MCGood == [uri |-> "https", tls |-> "good", token |-> "good",
           reconnect |-> MCPolicy(NoLimit)]

MCConnectors ==
    {MCGood,
     [MCGood EXCEPT !.reconnect = MCPolicy(1)],
     [MCGood EXCEPT !.reconnect = NoReconnect],
     [MCGood EXCEPT !.token = "unknown"],
     [MCGood EXCEPT !.token = "none"],
     [MCGood EXCEPT !.token = "not ascii"],
     [MCGood EXCEPT !.uri = "invalid"],
     [MCGood EXCEPT !.tls = "bad"],
     [MCGood EXCEPT !.uri = "http", !.tls = "bad"]}

\* harmonic:ams, BAM:Ams, and a variant of the enumeration that has no name.
MCAsked ==
    {FromStr(Text(Word("harmonic", "lower"), Word("ams", "lower"))),
     FromStr(Text(Word("bam", "mixed"), Word("ams", "mixed"))),
     Region("Harmonic", 0)}

\* Every region with a name.
MCServed == UNION {{Parse(f, Word(n, "lower")) : n \in DOMAIN Table(f)} : f \in Feeds}

\* A region reads back from what it is shown as, but the unspecified one of a
\* feed, which is shown as a name that is refused.
ASSUME ReadsBack ==
    \A r \in RegionValues :
        FromStr(Display(r)) = IF r.number = 0 THEN RegionError("UnknownRegion") ELSE r

\* A text is refused for the first of its parts that is wrong.
ASSUME RefusedInOrder ==
    /\ FromStr(NoColon) = RegionError("Format")
    /\ FromStr(Text(Word("shreds", "lower"), Word("xyz", "lower"))) = RegionError("UnknownFeed")
    /\ FromStr(Text(Word("harmonic", "lower"), Word("dfw", "lower"))) = RegionError("UnknownRegion")
=============================================================================
