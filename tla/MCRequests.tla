---------------------------- MODULE MCRequests ------------------------------
(* Requests on small instances: hashes of four bits, two registers.  The   *)
(* digests of a client's connections differ, as those of two clients do.   *)
EXTENDS RequestsProperties

CONSTANTS home, away, de, junk, other, unknown, agent

MCShapes ==
  {[country |-> <<junk, de, None>>, forwarded |-> Blank, address |-> away,
    port |-> 1, real |-> home, agent |-> agent],
   [country |-> <<None, None, junk>>, forwarded |-> <<home>>, address |-> away,
    port |-> 1, real |-> home, agent |-> agent]}

MCDigest ==
  [k \in {<<<<home>>, agent>>, <<<<away, 1>>, agent>>} |->
     IF k[1] = <<home>> THEN 0 ELSE 2]

(* Regions that only direct calls pass.                                    *)
MCArrivals == {[hash |-> 9, region |-> junk], [hash |-> 9, region |-> other]}
=============================================================================
