----------------------------- MODULE MCLoginLimiter -----------------------------
(* Threads are interchangeable, and so are the addresses no password is changed from. *)
EXTENDS LoginLimiter, TLC

Symmetry == Permutations(Threads) \cup Permutations(Addresses \ Rotating)

================================================================================
