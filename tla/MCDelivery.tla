----------------------------- MODULE MCDelivery -----------------------------
(* Two messages, two workers, and one or two consumers of which one may    *)
(* acknowledge automatically.                                              *)
EXTENDS Delivery, TLC

CONSTANTS m1, m2, w1, w2, manual, automatic

MCMessages == {m1, m2}
MCWorkers == {w1, w2}
OneWorker == {w1}
Both == {manual, automatic}
ManualOnly == {manual}
AutomaticOnly == {automatic}
None == {}
MCSymmetry == Permutations(MCMessages) \cup Permutations(MCWorkers)
=============================================================================
