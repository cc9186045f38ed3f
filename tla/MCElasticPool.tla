--------------------------- MODULE MCElasticPool ---------------------------
(* Small instances of ElasticPool for TLC. *)
EXTENDS ElasticPool, TLC

CONSTANTS s1, s2, w1, w2, t1, t2, t3

OneEach == s1 :> <<t1>> @@ s2 :> <<t2>>
Three == s1 :> <<t1, t2>> @@ s2 :> <<t3>>
=============================================================================
