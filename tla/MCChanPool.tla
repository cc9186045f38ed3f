----------------------------- MODULE MCChanPool -----------------------------
(* Instances of ChanPool for TLC.                                          *)
EXTENDS ChanPool, TLC

CONSTANTS s1, s2, w1, w2, w3, t1, t2, t3

OneBatch == [s \in {s1} |-> <<t1, t2>>]
OneTask == [s \in {s1} |-> <<t1>>]
TwoTasks == [s \in {s1, s2} |-> IF s = s1 THEN <<t1>> ELSE <<t2>>]

UpToOne == <<0, 1>>
UpToTwo == <<0, 2>>
OneToTwo == <<1, 2>>
RaiseToTwo == {<<1, 2>>}
LowerToOne == {<<1, 1>>}
NoResize == {}

AnyWorker == Permutations(Workers)
=============================================================================
