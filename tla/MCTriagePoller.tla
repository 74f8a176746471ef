--------------------------- MODULE MCTriagePoller ---------------------------
\* Instances of TriagePoller for TLC.
EXTENDS TriagePoller

OneScope == {Tickets}
AnyScope == {Tickets, Tickets \ {1}}
=============================================================================
