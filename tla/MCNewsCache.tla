---------------------------- MODULE MCNewsCache ----------------------------
\* Small instances of NewsCache for TLC.
EXTENDS NewsCache

CONSTANTS f1, f2, k1, k2

\* Each file has its own key.
MCOwnKey == [f \in Files |-> IF f = f1 THEN k1 ELSE k2]

\* Two files differ in their dates only.
MCSameKey == [f \in Files |-> k1]

=============================================================================
