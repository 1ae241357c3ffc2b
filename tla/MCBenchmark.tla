----------------------------- MODULE MCBenchmark ----------------------------
(* Threads on GPUs of different intensity.                                  *)
EXTENDS Benchmark

MCIntensity == [t \in Threads |-> t + 1]
=============================================================================
