----------------------------- MODULE MCAdminAccess -----------------------------
(* Requests and passwords are interchangeable, and no property is a liveness property. *)
EXTENDS AdminAccess, TLC

Symmetry == Permutations(Requests) \cup Permutations(Passwords)

================================================================================
