----------------------------- MODULE Guardrails -----------------------------
(***************************************************************************)
(* The trust boundary: what the LLM proposes, what the administrator       *)
(* allows and what is written to GLPI (domain/whitelist.py, engine.py,     *)
(* modes.py, services/referentials.py, absences.py and _persist_outcome of *)
(* services/triage.py).  The routes of the console run in threads of their *)
(* own: the configuration may change between any two steps of a cycle.     *)
(* The cycle works with three ages of it: the service built when it starts *)
(* (thresholds, default mode), the referentials it loads right after, table *)
(* by table, and the entity's row, read when a verdict is known.           *)
(* Tickets are triaged one at a time; the state kept is that of the        *)
(* current one, and all of them belong to one entity.                      *)
(***************************************************************************)
EXTENDS Integers, FiniteSets

CONSTANTS
  Categories, Technicians, Groups,   \* GLPI ids
  Decisions,       \* what the LLM may propose
  EntityChoices,   \* what the administrator may submit for the entity's row
  DefaultChoices,  \* global settings he may save
  TwoStepApply,    \* TRUE: the GLPI V2 connector (PATCH then POST TeamMember)
  MaxEdits,        \* bound on the edits of a behaviour (not in the code)
  None

Actors == Technicians \cup Groups
Modes == {"suggestion", "semi_auto", "full_auto"}

\* The decision as parsed at the boundary of the adapter (strict schema).
Decision == [category : Categories \cup {None}, priorityOk : BOOLEAN,
             technician : Technicians \cup {None}, group : Groups \cup {None},
             confidence : Nat]

\* The entity's row of referential_cache; None stands for NULL.
EntityRow == [mode : Modes \cup {None}, autoMin : Nat \cup {None},
              technician : Technicians \cup {None}, group : Groups \cup {None}]

\* The scope of a cycle: domain/models.py, Referentials.
Referentials == [categories : SUBSET Categories, technicians : SUBSET Technicians,
                 groups : SUBSET Groups]

ModeSetting == [mode : Modes, autoMin : Nat]

Settings == [mode : Modes, autoMin : Nat, confidence : Nat]

ASSUME GuardrailsAssumption ==
  /\ None \notin Categories \cup Actors \cup Modes \cup Nat
  /\ Technicians \cap Groups = {}
  /\ Decisions \subseteq Decision
  /\ EntityChoices \subseteq EntityRow
  /\ DefaultChoices \subseteq Settings
  /\ TwoStepApply \in BOOLEAN
  /\ MaxEdits \in Nat

VARIABLES
  \* database
  selected,     \* categories in the scope
  eligible,     \* actors the engine may route to
  absent,       \* technicians whose absence covers today
  entity,       \* the entity's row
  defaults,     \* global settings
  \* the cycle
  service,      \* settings captured by build_triage_service
  absents,      \* local of effective_referentials
  refs,         \* Referentials loaded at the start of the cycle
  pc,
  decision,     \* of the current ticket
  reason,       \* verdict of the guardrails
  applied,      \* local of _persist_outcome
  repli,        \* the fallback actor, fb_tech or fb_group
  \* GLPI and the journal, for the current ticket
  ticket,       \* what the engine wrote on it
  followup,
  entry,        \* its line of decision_log
  \* history
  permitted,    \* actors in force at some time of this cycle
  left,         \* technicians gone on leave since the cycle read the absences...
  joined,       \* ... and made eligible, until it read the technicians
  modesSeen,    \* modes in force for the entity at some time of this cycle
  authorities,  \* ... and since the current ticket was taken up
  edits         \* edits left

config == <<selected, eligible, absent, entity, defaults>>
cycle == <<service, absents, refs>>
locals == <<decision, reason, applied, repli>>
outside == <<ticket, followup, entry>>
scopeHistory == <<permitted, left, joined>>
history == <<scopeHistory, modesSeen, authorities, edits>>
vars == <<config, cycle, pc, locals, outside, history>>

Reasons == {"none", "invalid_output", "category_not_in_whitelist",
            "priority_not_in_whitelist", "technician_not_in_whitelist",
            "no_eligible_assignee", "low_confidence", "accepted"}

\* is_arbitrated_rejection: the code refused a decision that was really made.
Arbitrated == Reasons \ {"none", "invalid_output", "accepted"}

\* The SELECTs of effective_referentials: each sees what is committed when it runs.
Loading == {"load", "categories", "technicians", "groups"}

PCs == {"idle"} \cup Loading
       \cup {"scan", "llm", "mode", "apply", "assign", "followup", "record"}

Untouched == [category |-> None, actor |-> None]
NoFollowup == [kind |-> "none", assigned |-> None]
NoEntry == [written |-> FALSE, applied |-> FALSE, fallback |-> FALSE,
            technician |-> None, group |-> None]
NoDecision == [category |-> None, priorityOk |-> FALSE, technician |-> None,
               group |-> None, confidence |-> 0]
NoRefs == [categories |-> {}, technicians |-> {}, groups |-> {}]

-----------------------------------------------------------------------------
(* The guardrails (pure)                                                   *)

TechnicianOk(d, r) == d.technician # None /\ d.technician \in r.technicians
GroupOk(d, r) == d.group # None /\ d.group \in r.groups

\* whitelist.check, in its order; "accepted" stands for None (nothing to object).
Check(d, r) ==
  IF d.category \notin r.categories THEN "category_not_in_whitelist"
  ELSE IF ~d.priorityOk THEN "priority_not_in_whitelist"
  ELSE IF TechnicianOk(d, r) \/ GroupOk(d, r) THEN "accepted"
  ELSE IF d.technician # None THEN "technician_not_in_whitelist"
  ELSE "no_eligible_assignee"

\* engine.evaluate: the whitelist first, then the threshold.
Evaluate(d, r, threshold) ==
  IF Check(d, r) = "accepted" /\ d.confidence < threshold
  THEN "low_confidence"
  ELSE Check(d, r)

\* Mutant: what the LLM proposed is not filtered again.
EffectiveAssignmentRaw(d, r) == [technician |-> d.technician, group |-> d.group]

\* whitelist.effective_assignment: only eligible ids leave.
EffectiveAssignment(d, r) ==
  [technician |-> IF d.technician \in r.technicians THEN d.technician ELSE None,
   group      |-> IF d.group \in r.groups THEN d.group ELSE None]

\* The payload mappers prefer the technician.
Assignee(a) == IF a.technician # None THEN a.technician ELSE a.group

\* resolve_action on an accepted decision.
Applies(m, d) ==
  \/ m.mode = "full_auto"
  \/ m.mode = "semi_auto" /\ d.confidence >= m.autoMin

\* mode_for_entity: the row's own settings, else the defaults the caller holds.
ModeForEntity(row, fallback) ==
  [mode    |-> IF row.mode # None THEN row.mode ELSE fallback.mode,
   autoMin |-> IF row.autoMin # None THEN row.autoMin ELSE fallback.autoMin]

\* fallback_for_entity: the group first, and only what the referentials hold.
FallbackForEntity(row, r) ==
  IF row.group # None /\ row.group \in r.groups THEN row.group
  ELSE IF row.technician # None /\ row.technician \in r.technicians
  THEN row.technician
  ELSE None

\* Mutant: both targets are kept.
OneTargetOrTwo(body) == body

\* set_modes: at most one fallback target; a group excludes a technician.
OneTarget(body) ==
  IF body.group # None THEN [body EXCEPT !.technician = None] ELSE body

ActorsOf(r) == r.technicians \cup r.groups

\* Whom the administrator allows, were all the tables read at once (for the history: the
\* cycle reads them one by one).
ActorsInForce == eligible \ absent

\* The mode the console shows for the entity.
ModeInForce == ModeForEntity(entity, defaults)

TypeOK ==
  /\ selected \subseteq Categories
  /\ eligible \subseteq Actors
  /\ absent \subseteq Technicians
  /\ entity \in EntityRow
  /\ entity.group = None \/ entity.technician = None
  /\ defaults \in Settings
  /\ service \in Settings
  /\ absents \subseteq Technicians
  /\ refs \in Referentials
  /\ pc \in PCs
  /\ decision \in Decision
  /\ reason \in Reasons
  /\ applied \in BOOLEAN
  /\ repli \in Actors \cup {None}
  /\ ticket \in [category : Categories \cup {None}, actor : Actors \cup {None}]
  /\ followup \in [kind : {"none", "private", "public"}, assigned : Actors \cup {None}]
  /\ entry \in [written : BOOLEAN, applied : BOOLEAN, fallback : BOOLEAN,
                technician : Technicians \cup {None}, group : Groups \cup {None}]
  /\ permitted \subseteq Actors
  /\ left \subseteq Technicians /\ joined \subseteq Actors
  /\ modesSeen \subseteq ModeSetting
  /\ authorities \subseteq ModeSetting
  /\ edits \in Nat

\* No cycle runs; the administrator has saved any configuration.
Init ==
  /\ selected \in SUBSET Categories
  /\ eligible \in SUBSET Actors
  /\ absent \in SUBSET Technicians
  /\ entity \in {OneTarget(body) : body \in EntityChoices}
  /\ defaults \in DefaultChoices
  /\ service = defaults
  /\ absents = {}
  /\ refs = NoRefs
  /\ pc = "idle"
  /\ decision = NoDecision
  /\ reason = "none"
  /\ applied = FALSE
  /\ repli = None
  /\ ticket = Untouched
  /\ followup = NoFollowup
  /\ entry = NoEntry
  /\ permitted = {} /\ left = {} /\ joined = {}
  /\ modesSeen = {}
  /\ authorities = {}
  /\ edits = MaxEdits

-----------------------------------------------------------------------------
(* The console                                                             *)

Edit ==
  /\ edits > 0
  /\ edits' = edits - 1
  /\ IF pc = "idle"
     THEN UNCHANGED <<permitted, modesSeen, authorities>>
     ELSE /\ permitted' = permitted \cup ActorsInForce'
          /\ modesSeen' = modesSeen \cup {ModeInForce'}
          /\ authorities' = authorities \cup {ModeInForce'}
  /\ IF pc \in {"categories", "technicians"}
     THEN left' = left \cup (absent' \ absent) /\ joined' = joined \cup (eligible' \ eligible)
     ELSE UNCHANGED <<left, joined>>
  /\ UNCHANGED <<cycle, pc, locals, outside>>

\* PUT /technicians or PUT /groups: one kind at a time.
SetEligibility ==
  /\ \/ \E s \in SUBSET Technicians : eligible' = (eligible \ Technicians) \cup s
     \/ \E s \in SUBSET Groups : eligible' = (eligible \ Groups) \cup s
  /\ UNCHANGED <<selected, absent, entity, defaults>>
  /\ Edit

\* PUT /scope: replaces the selection.
SetScope ==
  /\ selected' \in SUBSET Categories
  /\ UNCHANGED <<eligible, absent, entity, defaults>>
  /\ Edit

\* PUT /absences, or midnight in the configured time zone.
SetAbsences ==
  /\ absent' \in SUBSET Technicians
  /\ UNCHANGED <<selected, eligible, entity, defaults>>
  /\ Edit

\* PUT /modes: a fallback target that is not eligible is refused.
SetModes ==
  /\ \E body \in EntityChoices :
       /\ {body.group, body.technician} \subseteq eligible \cup {None}
       /\ entity' = OneTarget(body)
  /\ UNCHANGED <<selected, eligible, absent, defaults>>
  /\ Edit

\* POST /config writes the settings one by one, each in a COMMIT of its own and in
\* the order of a set: one step per setting.
SetDefaults ==
  /\ \E saved \in DefaultChoices :
       \/ defaults' = [defaults EXCEPT !.mode = saved.mode]
       \/ defaults' = [defaults EXCEPT !.autoMin = saved.autoMin]
       \/ defaults' = [defaults EXCEPT !.confidence = saved.confidence]
  /\ UNCHANGED <<selected, eligible, absent, entity>>
  /\ Edit

-----------------------------------------------------------------------------
(* The cycle                                                               *)

NoTicket ==
  /\ decision' = NoDecision
  /\ reason' = "none"
  /\ applied' = FALSE
  /\ repli' = None
  /\ ticket' = Untouched
  /\ followup' = NoFollowup
  /\ entry' = NoEntry

\* build_triage_service captures the thresholds and the default mode.
BuildService ==
  /\ pc = "idle"
  /\ service' = defaults
  /\ permitted' = ActorsInForce
  /\ modesSeen' = {ModeInForce}
  /\ authorities' = {ModeInForce}
  /\ pc' = "load"
  /\ UNCHANGED <<config, absents, refs, locals, outside, left, joined, edits>>

\* effective_referentials: the allowed scope minus the technicians absent today.
ReadAbsences ==
  /\ pc = "load"
  /\ absents' = absent
  /\ pc' = "categories"
  /\ UNCHANGED <<config, service, refs, locals, outside, history>>

ReadCategories ==
  /\ pc = "categories"
  /\ refs' = [refs EXCEPT !.categories = selected]
  /\ pc' = "technicians"
  /\ UNCHANGED <<config, service, absents, locals, outside, history>>

\* Mutant: the absences are forgotten.
ReadAllTechnicians ==
  /\ pc = "technicians"
  /\ refs' = [refs EXCEPT !.technicians = Technicians \cap eligible]
  /\ absents' = {}
  /\ pc' = "groups"
  /\ UNCHANGED <<config, service, locals, outside, history>>

\* The last use of `absents`.
ReadTechnicians ==
  /\ pc = "technicians"
  /\ refs' = [refs EXCEPT !.technicians = (Technicians \cap eligible) \ absents]
  /\ absents' = {}
  /\ pc' = "groups"
  /\ UNCHANGED <<config, service, locals, outside, history>>

ReadGroups ==
  /\ pc = "groups"
  /\ refs' = [refs EXCEPT !.groups = Groups \cap eligible]
  /\ pc' = "scan"
  /\ UNCHANGED <<config, service, absents, locals, outside, history>>

\* The cycle ends, early when a read fails.
EndCycle ==
  /\ pc \in Loading \cup {"scan"}
  /\ pc' = "idle"
  /\ absents' = {}
  /\ refs' = NoRefs
  /\ NoTicket
  /\ permitted' = {} /\ left' = {} /\ joined' = {}
  /\ modesSeen' = {}
  /\ authorities' = {}
  /\ UNCHANGED <<config, service, edits>>

\* A ticket the engine has not written on is masked and sent to the LLM; none is when
\* no category was loaded.
TakeTicket ==
  /\ pc = "scan"
  /\ refs.categories # {}
  /\ pc' = "llm"
  /\ NoTicket
  /\ authorities' = {ModeInForce}
  /\ UNCHANGED <<config, cycle, scopeHistory, modesSeen, edits>>

LlmDecides ==
  /\ pc = "llm"
  /\ decision' \in Decisions
  /\ reason' = Evaluate(decision', refs, service.confidence)
  /\ pc' = "mode"
  /\ UNCHANGED <<config, cycle, applied, repli, outside, history>>

\* LLM_ERROR or INVALID_OUTPUT: no decision, nothing is written to GLPI.
LlmFails ==
  /\ pc = "llm"
  /\ reason' = "invalid_output"
  /\ pc' = "record"
  /\ UNCHANGED <<config, cycle, decision, applied, repli, outside, history>>

\* An accepted decision: the entity's row is read, with the service's defaults.
ResolveMode ==
  /\ pc = "mode"
  /\ reason = "accepted"
  /\ pc' = IF Applies(ModeForEntity(entity, service), decision)
           THEN "apply" ELSE "followup"
  /\ UNCHANGED <<config, cycle, locals, outside, history>>

\* Mutant: the fallback is assigned whatever the mode.
ResolveFallbackInAnyMode ==
  /\ pc = "mode"
  /\ reason \in Arbitrated
  /\ repli' = FallbackForEntity(entity, refs)
  /\ pc' = IF repli' # None THEN "assign" ELSE "followup"
  /\ UNCHANGED <<config, cycle, decision, reason, applied, outside, history>>

\* A refused decision: outside suggestion mode the entity's target takes the ticket.
ResolveFallback ==
  /\ pc = "mode"
  /\ reason \in Arbitrated
  /\ repli' = IF ModeForEntity(entity, service).mode = "suggestion"
              THEN None ELSE FallbackForEntity(entity, refs)
  /\ pc' = IF repli' # None THEN "assign" ELSE "followup"
  /\ UNCHANGED <<config, cycle, decision, reason, applied, outside, history>>

\* An exception on the way out: nothing was written, the poller takes over.
ModeFails ==
  /\ pc = "mode"
  /\ pc' = "scan"
  /\ UNCHANGED <<config, cycle, locals, outside, history>>

ApplyDecision ==
  /\ pc = "apply"
  /\ ticket' = [category |-> decision.category,
                actor    |-> Assignee(EffectiveAssignment(decision, refs))]
  /\ applied' = TRUE
  /\ pc' = "followup"
  /\ UNCHANGED <<config, cycle, decision, reason, repli, followup, entry, history>>

ApplyFails ==
  /\ pc = "apply"
  /\ pc' = "scan"
  /\ UNCHANGED <<config, cycle, locals, outside, history>>

\* Mutant: a partial application is answered like a complete one.
ApplyPartiallyAnswered ==
  /\ TwoStepApply
  /\ pc = "apply"
  /\ ticket' = [ticket EXCEPT !.category = decision.category]
  /\ applied' = TRUE
  /\ pc' = "followup"
  /\ UNCHANGED <<config, cycle, decision, reason, repli, followup, entry, history>>

\* ItsmPartialApplyError: the fields are set, the actor is not; no follow-up.
ApplyPartially ==
  /\ TwoStepApply
  /\ pc = "apply"
  /\ ticket' = [ticket EXCEPT !.category = decision.category]
  /\ applied' = TRUE
  /\ pc' = "record"
  /\ UNCHANGED <<config, cycle, decision, reason, repli, followup, entry, history>>

\* Mutant: the fallback goes through the payload of a decision.
AssignActorAndClassify ==
  /\ pc = "assign"
  /\ ticket' = [category |-> decision.category, actor |-> repli]
  /\ pc' = "followup"
  /\ UNCHANGED <<config, cycle, locals, followup, entry, history>>

\* assign_actor: routes, never classifies.
AssignActor ==
  /\ pc = "assign"
  /\ ticket' = [ticket EXCEPT !.actor = repli]
  /\ pc' = "followup"
  /\ UNCHANGED <<config, cycle, locals, followup, entry, history>>

\* Mutant: the failure leaves the target in place.
AssignFailsSilently ==
  /\ pc = "assign"
  /\ pc' = "followup"
  /\ UNCHANGED <<config, cycle, locals, outside, history>>

AssignFails ==
  /\ pc = "assign"
  /\ repli' = None
  /\ pc' = "followup"
  /\ UNCHANGED <<config, cycle, decision, reason, applied, outside, history>>

\* render_followup (the draft alone once applied) or render_fallback_followup, which
\* names the fallback actor.
WriteFollowup ==
  /\ pc = "followup"
  /\ followup' = [kind     |-> IF applied THEN "public" ELSE "private",
                  assigned |-> repli]
  /\ pc' = "record"
  /\ UNCHANGED <<config, cycle, locals, ticket, entry, history>>

FollowupFails ==
  /\ pc = "followup"
  /\ pc' = "record"
  /\ UNCHANGED <<config, cycle, locals, outside, history>>

\* record_decision stores the ids the LLM proposed.
RecordDecision ==
  /\ pc = "record"
  /\ entry' = [written |-> TRUE, applied |-> applied, fallback |-> repli # None,
               technician |-> decision.technician, group |-> decision.group]
  /\ pc' = "scan"
  /\ UNCHANGED <<config, cycle, locals, ticket, followup, history>>

RecordFails ==
  /\ pc = "record"
  /\ pc' = "scan"
  /\ UNCHANGED <<config, cycle, locals, outside, history>>

Console == SetEligibility \/ SetScope \/ SetAbsences \/ SetModes \/ SetDefaults

LoadReferentials == ReadAbsences \/ ReadCategories \/ ReadTechnicians \/ ReadGroups

Cycle == BuildService \/ LoadReferentials \/ EndCycle \/ TakeTicket

Triage == LlmDecides \/ LlmFails \/ ResolveMode \/ ResolveFallback \/ ModeFails
          \/ ApplyDecision \/ ApplyFails \/ ApplyPartially \/ AssignActor \/ AssignFails
          \/ WriteFollowup \/ FollowupFails \/ RecordDecision \/ RecordFails

Next == Console \/ Cycle \/ Triage

Spec == Init /\ [][Next]_vars

-----------------------------------------------------------------------------
(* Properties                                                              *)

\* No actor receives a ticket from the engine, by a decision or as a fallback, unless
\* he was in force at some time of the running cycle: one withdrawn, or gone on leave,
\* before a cycle starts gets nothing from it.  The absences and the technicians are
\* read one after the other (effective_referentials), hence the one exception: who was
\* sent on leave and made eligible between the two passes for eligible and present.
AssignedWasPermitted ==
  ticket.actor # None => ticket.actor \in permitted \cup (left \cap joined)

\* The inductive invariant behind it: what the cycle has read so far, what it holds and
\* whom it is about to assign.
Passing == permitted \cup (left \cap joined)

ScopeHeld ==
  /\ pc \in {"idle"} \cup Loading => reason = "none" /\ repli = None /\ ticket = Untouched
  /\ pc \in {"idle", "load"} => refs = NoRefs /\ left = {} /\ joined = {}
  /\ pc \in {"categories", "technicians"} =>
       /\ refs.technicians = {} /\ refs.groups = {}
       /\ (Technicians \cap absent) \ absents \subseteq left
       /\ (Technicians \cap eligible) \ absents \subseteq Passing
  /\ pc = "groups" => refs.groups = {}
  /\ ActorsOf(refs) \subseteq Passing
  /\ pc # "idle" => ActorsInForce \subseteq permitted
  /\ reason = "accepted" =>
       /\ decision.category \in refs.categories
       /\ Assignee(EffectiveAssignment(decision, refs)) \in ActorsOf(refs)
  /\ repli \in ActorsOf(refs) \cup {None}
  /\ pc = "apply" => reason = "accepted"
  /\ AssignedWasPermitted

\* GLPI is changed only under a mode that was in force for the entity while this very
\* ticket was handled: one that applies this decision, or, for a refused one, any but
\* "suggestion".
MutationIsAuthorised ==
  ticket # Untouched =>
    \E m \in authorities :
      IF reason = "accepted" THEN Applies(m, decision) ELSE m.mode # "suggestion"

\* The inductive invariant behind it, as long as the global settings do not change.
ModeHeld ==
  /\ defaults \in DefaultChoices /\ service = defaults
  /\ pc # "idle" => ModeInForce \in authorities /\ authorities \subseteq modesSeen
  /\ pc \in {"idle", "llm", "mode", "apply", "assign"} \cup Loading => ticket = Untouched
  /\ pc = "apply" => reason = "accepted" /\ \E m \in authorities : Applies(m, decision)
  /\ pc = "assign" =>
       reason # "accepted" /\ \E m \in authorities : m.mode # "suggestion"
  /\ MutationIsAuthorised

\* A promise of the suggestion mode: a ticket of an entity that was in that mode from
\* the start of the cycle on is not changed.
SuggestionNeverMutates ==
  ticket # Untouched => \E m \in modesSeen : m.mode # "suggestion"

\* A category enters GLPI only from a decision that the guardrails accepted, and a
\* refused one changes nothing but the assignee.
OnlyAcceptedClassifies == ticket.category # None => reason = "accepted"

\* What an applied decision makes of the ticket.
Applied == [category |-> decision.category,
            actor    |-> Assignee(EffectiveAssignment(decision, refs))]

\* The requester and the technicians are told what happened: a public answer stands
\* on a ticket whose decision was applied whole, and a private one announces an
\* assignment exactly when there is one.
FollowupTellsTheTruth ==
  /\ followup.kind = "public" =>
       ticket = Applied
  /\ followup.kind = "private" =>
       ticket = [category |-> None, actor |-> followup.assigned]

\* The journal's flags say what GLPI went through: applied for a decision, even half
\* applied, fallback_applied for a routing.
EntryMatchesTicket ==
  entry.written =>
    /\ entry.applied <=> ticket.category # None
    /\ entry.fallback <=> ticket.category = None /\ ticket.actor # None

\* The inductive invariant behind the last three: what is known of the ticket at each
\* point of its handling.
Routed == [category |-> None, actor |-> repli]

StoryHeld ==
  /\ pc \in {"idle", "llm", "mode"} \cup Loading => repli = None
  /\ pc \in {"idle", "llm", "mode", "apply", "assign"} \cup Loading =>
       ~applied /\ ticket = Untouched
  /\ pc = "apply" => reason = "accepted" /\ repli = None
  /\ pc = "assign" => reason # "accepted"
  /\ pc = "followup" => ticket = IF applied THEN Applied ELSE Routed
  /\ pc = "record" => IF applied THEN ticket.category = decision.category
                                 ELSE ticket = Routed
  /\ applied => reason = "accepted" /\ repli = None
  /\ reason = "accepted" => decision.category # None
  /\ pc \notin {"scan", "record"} => followup = NoFollowup
  /\ pc # "scan" => entry = NoEntry
  /\ OnlyAcceptedClassifies
  /\ FollowupTellsTheTruth
  /\ EntryMatchesTicket

\* The actor the journal names on an applied decision is the one GLPI received.
EntryNamesAssignee ==
  entry.written /\ entry.applied /\ ticket.actor # None =>
    ticket.actor = Assignee([technician |-> entry.technician, group |-> entry.group])

\* The fallback target is in the effective scope at the time it is written.
FallbackIsRevalidated ==
  [][AssignActor => repli \in ActorsInForce]_vars
=============================================================================
