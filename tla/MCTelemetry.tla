---------------------------- MODULE MCTelemetry ----------------------------
(* What a ring of four that was never cleared may hold: nothing, something  *)
(* recent, or something recent after something old.                         *)
EXTENDS Telemetry

Bucket(count, stamp) == [count |-> count, stamp |-> stamp]

TheJunk == { Cleared,
             [b \in Ring |-> Bucket(7, 99)],
             [b \in Ring |-> IF b = 1 THEN Bucket(3, 1) ELSE Bucket(b, 97 + b)] }
=============================================================================
