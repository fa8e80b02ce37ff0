---------------------------- MODULE MCDashboard ----------------------------
\* A small instance of Dashboard for TLC: two of the four GitHub statistics,
\* read in another order than the one in which they are refreshed.
EXTENDS Dashboard

CONSTANTS pm, org, pypi

MCRefreshed == <<pm, org>>

MCReadOrder == <<org, pm, pypi>>

=============================================================================
