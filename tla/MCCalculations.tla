--------------------------- MODULE MCCalculations ---------------------------
(***************************************************************************)
(* Four calculations that share nothing, side by side: a batch's hashes,   *)
(* divisions and roots, the telemetry of a thread, and the nonces of the   *)
(* threads.  One of them runs, the others stay where they begin.           *)
(***************************************************************************)
EXTENDS Cryptonight, IntMathCases, MCTelemetry, NonceSlices, Bitwise

BitXor(x, y) == x ^^ y

\* Stand-ins for AES: a chunk depends on both its words and on the key.
MixRound(c, key) ==
  << ((5 * c[1] + c[2] * c[2] + 3) % Word) ^^ key[1],
     ((c[1] * c[2] + 7 * c[2] + 11 + c[1]) % Word) ^^ key[2] >>
MixRounds(c, keys) == MixRound(MixRound(c, << keys[1], keys[2] >>), << keys[3], keys[4] >>)

TheStates == [n \in Nonces |-> [w \in 0 .. 13 |-> (37 * n + 29 * w * w + 11 * w + 5) % Word]]

Layout(stride, worksize, memChunk) ==
  [stride |-> stride, worksize |-> worksize, memChunk |-> memChunk]
Option(layout, nvidia, shuffle, intMath) ==
  [layout |-> layout, nvidia |-> nvidia, shuffle |-> shuffle, intMath |-> intMath]

\* Every layout, both versions of cn1, and both variants of the loop.
TheOptions == { Option(Layout(2, 1, 2), FALSE, TRUE, TRUE),
                Option(Layout(2, 2, 4), FALSE, TRUE, TRUE),
                Option(Layout(1, 1, 1), FALSE, TRUE, TRUE),
                Option(Layout(0, 2, 1), TRUE, TRUE, TRUE),
                Option(Layout(0, 1, 1), TRUE, FALSE, TRUE),
                Option(Layout(1, 2, 2), FALSE, TRUE, FALSE) }

\* A first job, a second one, and the second resumed: the last nonce is the last there is.
Job(b, n) == [blob |-> b, resume |-> n]
TheJobs == << Job("first", 0), Job("second", 0), Job("second", 1) >>
TheIntensities == [t \in {0, 1} |-> t + 1]

VARIABLE calculation

HashIdle == Init /\ opt = CHOOSE o \in Options : TRUE
CaseIdle == operands = Undone /\ result = Undone
TelemetryIdle == InitTelemetry /\ row = "first" /\ source = "clock"

InitCalculations ==
  /\ InitNonces
  /\ \/ calculation = "hash" /\ Init /\ CaseIdle /\ TelemetryIdle
     \/ calculation = "case" /\ HashIdle /\ InitCase /\ TelemetryIdle
     \/ calculation = "telemetry" /\ HashIdle /\ CaseIdle /\ InitTelemetry
     \/ calculation = "nonces" /\ HashIdle /\ CaseIdle /\ TelemetryIdle

NextCalculations ==
  /\ UNCHANGED calculation
  /\ \/ calculation = "hash" /\ Next /\ UNCHANGED <<caseVars, telemetryVars, nonceVars>>
     \/ calculation = "case" /\ NextCase /\ UNCHANGED <<vars, telemetryVars, nonceVars>>
     \/ calculation = "telemetry" /\ NextTelemetry /\ UNCHANGED <<vars, caseVars, nonceVars>>
     \/ calculation = "nonces" /\ NextNonces /\ UNCHANGED <<vars, caseVars, telemetryVars>>

SpecCalculations ==
  /\ InitCalculations
  /\ [][NextCalculations]_<<calculation, vars, caseVars, telemetryVars, nonceVars>>
=============================================================================
