---------------------------- MODULE TicketLedger ----------------------------
(***************************************************************************)
(* What the polling engine promises about one GLPI ticket, whatever its    *)
(* database, GLPI, the LLM provider or a crash do to it: the two-step      *)
(* marking of `processed_tickets` (claim, then mark or release) seen from  *)
(* outside.  TriagePoller implements this module.                          *)
(*                                                                         *)
(*   open      no row: the ticket will be looked at again                  *)
(*   inflight  reserved by the running cycle                               *)
(*   settled   marked "processed": never looked at again                   *)
(*   orphan    reserved by a run that was interrupted: never replayed,     *)
(*             left to a human                                             *)
(***************************************************************************)
CONSTANT Tickets

VARIABLES
  status,     \* [Tickets -> Statuses]
  answered    \* tickets on which a follow-up was posted

vars == <<status, answered>>

Statuses == {"open", "inflight", "settled", "orphan"}

TypeOK ==
  /\ status \in [Tickets -> Statuses]
  /\ answered \subseteq Tickets

Init ==
  /\ status = [t \in Tickets |-> "open"]
  /\ answered = {}

\* The cycle reserves a ticket; it works on one ticket at a time.
Take(t) ==
  /\ status[t] = "open"
  /\ \A u \in Tickets : status[u] # "inflight"
  /\ status' = [status EXCEPT ![t] = "inflight"]
  /\ UNCHANGED answered

\* The one follow-up of the ticket, always under a reservation.
Answer(t) ==
  /\ status[t] = "inflight"
  /\ t \notin answered
  /\ answered' = answered \cup {t}
  /\ UNCHANGED status

\* The triage did not take place: the ticket goes back to the queue.
Reopen(t) ==
  /\ status[t] = "inflight"
  /\ t \notin answered
  /\ status' = [status EXCEPT ![t] = "open"]
  /\ UNCHANGED answered

Settle(t) ==
  /\ status[t] = "inflight"
  /\ status' = [status EXCEPT ![t] = "settled"]
  /\ UNCHANGED answered

\* Crash, a marking that cannot be written, or a reservation whose COMMIT was
\* applied although the database reported an error.
Strand(t) ==
  /\ status[t] \in {"open", "inflight"}
  /\ status' = [status EXCEPT ![t] = "orphan"]
  /\ UNCHANGED answered

Next ==
  \E t \in Tickets : Take(t) \/ Answer(t) \/ Reopen(t) \/ Settle(t) \/ Strand(t)

Spec == Init /\ [][Next]_vars
=============================================================================
