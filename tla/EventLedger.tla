----------------------------- MODULE EventLedger -----------------------------
(***************************************************************************)
(* What the telemetry pipeline of ruyi-backend promises, with no database, *)
(* no handler and no clock: an upload is accepted at most once, and once   *)
(* accepted its events enter the statistics at most once and whole.        *)
(* Telemetry.tla implements this specification (Telemetry!Ledger).         *)
(***************************************************************************)
EXTENDS Naturals

CONSTANT Nonces      \* the uploads, each known by the nonce its client chose

VARIABLES accepted,  \* the uploads the service has taken responsibility for
          tally      \* tally[n]: how often upload n is in the statistics

vars == <<accepted, tally>>

Init == /\ accepted = {}
        /\ tally = [n \in Nonces |-> 0]

\* A client's upload is accepted; a retry of it changes nothing.
Accept(n) == /\ n \notin accepted
             /\ accepted' = accepted \cup {n}
             /\ UNCHANGED tally

\* A batch of accepted uploads that are not in the statistics is added.
Count(S) == /\ S # {}
            /\ \A n \in S : tally[n] = 0
            /\ tally' = [n \in Nonces |-> IF n \in S THEN 1 ELSE tally[n]]
            /\ UNCHANGED accepted

Next == \/ \E n \in Nonces : Accept(n)
        \/ \E S \in SUBSET accepted : Count(S)

Spec == Init /\ [][Next]_vars
=============================================================================
