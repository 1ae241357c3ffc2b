---------------------------- MODULE MCResultCheck ---------------------------
(* One mining thread and its checker; the first work, a second one with     *)
(* another blob and another target.                                         *)
EXTENDS ResultCheck

CONSTANTS h1, h2, hStall, b1, b2, bNone

MCJobWorks  == {[head |-> h1, blob |-> b1], [head |-> h2, blob |-> b2]}
MCNoWork    == [head |-> hStall, blob |-> bNone]
MCResumeCnt == [h \in {h1, h2, hStall} |-> 0]
MCTarget    == [h \in {h1, h2, hStall} |-> IF h = h2 THEN 2 ELSE 1]
=============================================================================
