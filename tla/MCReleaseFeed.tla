--------------------------- MODULE MCReleaseFeed ---------------------------
\* A small instance of ReleaseFeed for TLC.
EXTENDS ReleaseFeed
CONSTANTS stable, build, twin, testing, odd, nightly, p1, p2, p3, p4, a, b, c

\* Lists that change in one way at a time: a release published or taken back
\* among the pages, or both, the lists of people, or that of repositories.
Quiet ==
  [releases |-> [f \in Feeds |-> <<>>], planned |-> [f \in Feeds |-> {}], doubtful |-> {},
   members |-> <<>>, contributors |-> [r \in Repos |-> <<>>], newcomers |-> {},
   repos |-> <<>>, drafts |-> {}]

MCWorlds ==
  {[Quiet EXCEPT !.releases["pm"] = <<stable, build>>, !.planned["pm"] = {testing}],
   [Quiet EXCEPT !.releases["pm"] = <<twin, stable>>, !.doubtful = {twin}],
   [Quiet EXCEPT !.releases["pm"] = <<nightly>>, !.planned["pm"] = {odd}, !.doubtful = {nightly}],
   [Quiet EXCEPT !.releases["eclipse"] = <<stable>>, !.repos = <<a>>,
                 !.contributors = [r \in Repos |-> IF r = a THEN <<p1, p2>> ELSE <<>>]],
   [Quiet EXCEPT !.members = <<p1, p2>>],
   [Quiet EXCEPT !.repos = <<a>>, !.newcomers = {p3}],
   [Quiet EXCEPT !.repos = <<a, b>>, !.drafts = {c},
                 !.contributors = [r \in Repos |-> IF r = b THEN <<p4>> ELSE <<>>]]}

\* A version with and without a "v" before it, and with build metadata.
MCTextOf ==
  [t \in Tags |-> CASE t \in {stable, twin} -> "1.0.0" [] t = build -> "1.0.0+b"
                    [] t = testing -> "1.1.0-rc" [] t = odd -> "1.2.0" [] OTHER -> "nightly"]

MCPrecedence == [v \in Versions |-> CASE v = "1.1.0-rc" -> 2 [] v = "1.2.0" -> 3 [] OTHER -> 1]

=============================================================================
