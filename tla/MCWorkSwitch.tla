---------------------------- MODULE MCWorkSwitch ----------------------------
(* Small works for TLC: a job, the same job resumed once, and another job.  *)
EXTENDS WorkSwitch

CONSTANTS h0, h1, h2, hStall, b1, b2, bNone

MCJobWorks  == {[head |-> h0, blob |-> b1], [head |-> h1, blob |-> b1],
                [head |-> h2, blob |-> b2]}
MCNoWork    == [head |-> hStall, blob |-> bNone]
MCResumeCnt == [h \in {h0, h1, h2, hStall} |-> IF h = h1 THEN 1 ELSE 0]
=============================================================================
