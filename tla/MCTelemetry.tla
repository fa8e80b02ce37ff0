---------------------------- MODULE MCTelemetry ----------------------------
\* Small instances of Telemetry for TLC.
EXTENDS Telemetry, TLC

CONSTANTS n1, n2, n3, r1, r2

\* Two uploads of one installation, one of them with RISC-V data, which the
\* statistics tables can hold.
MCPayload ==
  [n \in Nonces |-> [installation |-> r1, report |-> None,
                     riscv |-> n = n1, fits |-> TRUE]]

\* An upload with an installation record, one that names its report only and
\* has a value that does not fit its column, and one with neither.
MCMixed ==
  [n \in Nonces |-> [installation |-> IF n = n1 THEN r1 ELSE None,
                     report |-> IF n = n3 THEN None ELSE r1,
                     riscv |-> n = n1, fits |-> n # n2]]

\* Two uploads of two installations, one of which has machine data with a
\* value that does not fit its column.
MCTwo ==
  [n \in Nonces |-> [installation |-> IF n = n1 THEN r1 ELSE r2, report |-> None,
                     riscv |-> n = n2, fits |-> n # n2]]

\* How often each upload is sent: the first one again, or both.
MCOnce == [n \in Nonces |-> 1]
MCFirstTwice == [n \in Nonces |-> IF n = n1 THEN 2 ELSE 1]
MCTwice == [n \in Nonces |-> 2]

\* Upload handlers are interchangeable.
HandlerSymmetry == Permutations(Handlers)

=============================================================================
