------------------------------- MODULE MCJournal -------------------------------
\* Bounds for TLC: see journal.cfg.
EXTENDS Journal, TLC

Symmetry == Permutations(Writers)
================================================================================
