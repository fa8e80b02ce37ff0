--------------------------- MODULE MCReleaseSync ---------------------------
\* Small instances of ReleaseSync for TLC.
EXTENDS ReleaseSync

CONSTANTS old, r1, r2, bad

\* From the oldest release to the newest: the one with an old version is a
\* late backport.
MCOrder ==
  [r \in Releases |-> CASE r = bad -> 0 [] r = r1 -> 1 [] r = r2 -> 2 [] r = old -> 3]

=============================================================================
