-------------------------- MODULE GuardrailsProofs --------------------------
(***************************************************************************)
(* What module Guardrails guarantees for every scope, decision, number of  *)
(* edits and connector: who may receive a ticket, and that the follow-up   *)
(* and the journal say what was done.                                      *)
(***************************************************************************)
EXTENDS Guardrails, TLAPS

\* What whitelist.check and engine.evaluate guarantee of an accepted decision, read
\* with effective_assignment and the mappers: its category is allowed and an actor of
\* the scope receives the ticket.
LEMMA AcceptedIsInScope ==
  ASSUME NEW d \in Decision, NEW r \in Referentials, NEW threshold \in Nat,
         Evaluate(d, r, threshold) = "accepted"
  PROVE  /\ d.category \in r.categories
         /\ d.confidence >= threshold
         /\ Assignee(EffectiveAssignment(d, r)) \in ActorsOf(r)
<1>1. Check(d, r) = "accepted" /\ ~(d.confidence < threshold)
  BY DEF Evaluate
<1>2. d.category \in r.categories /\ (TechnicianOk(d, r) \/ GroupOk(d, r))
  BY <1>1 DEF Check
<1>3. d.confidence >= threshold
  BY <1>1 DEF Decision
<1>4. CASE TechnicianOk(d, r)
  BY <1>2, <1>3, <1>4 DEF TechnicianOk, EffectiveAssignment, Assignee, ActorsOf
<1>5. CASE ~TechnicianOk(d, r)
  <2>1. d.technician \notin r.technicians
    BY <1>5, GuardrailsAssumption DEF TechnicianOk, Referentials, Actors
  <2>2. d.group \in r.groups
    BY <1>2, <1>5 DEF GroupOk
  <2> QED
    BY <1>2, <1>3, <2>1, <2>2 DEF EffectiveAssignment, Assignee, ActorsOf
<1> QED
  BY <1>4, <1>5

\* fallback_for_entity returns an actor of the scope it is given, or nobody.
LEMMA FallbackIsInScope ==
  ASSUME NEW row, NEW r
  PROVE  FallbackForEntity(row, r) \in ActorsOf(r) \cup {None}
BY DEF FallbackForEntity, ActorsOf

-----------------------------------------------------------------------------
(* Types                                                                   *)

LEMMA RowTypes ==
  ASSUME NEW body \in EntityChoices
  PROVE  /\ OneTarget(body) \in EntityRow
         /\ OneTarget(body).group = None \/ OneTarget(body).technician = None
BY GuardrailsAssumption DEF OneTarget, EntityRow

LEMMA ModeTypes ==
  ASSUME NEW row \in EntityRow, NEW settings \in Settings
  PROVE  ModeForEntity(row, settings) \in ModeSetting
BY DEF ModeForEntity, ModeSetting, EntityRow, Settings

LEMMA StartTypes ==
  /\ NoRefs \in Referentials
  /\ NoDecision \in Decision
  /\ Untouched \in [category : Categories \cup {None}, actor : Actors \cup {None}]
  /\ NoFollowup \in [kind : {"none", "private", "public"}, assigned : Actors \cup {None}]
  /\ NoEntry \in [written : BOOLEAN, applied : BOOLEAN, fallback : BOOLEAN,
                  technician : Technicians \cup {None}, group : Groups \cup {None}]
<1>1. NoRefs \in Referentials
  BY DEF NoRefs, Referentials
<1>2. NoDecision \in Decision
  BY DEF NoDecision, Decision
<1> QED
  BY <1>1, <1>2 DEF Untouched, NoFollowup, NoEntry

\* Every variable keeps its type, for any configuration of the console.
THEOREM TypeCorrect == Spec => []TypeOK
<1>1. Init => TypeOK
  <2> SUFFICES ASSUME Init PROVE TypeOK
    OBVIOUS
  <2>1. entity \in EntityRow /\ (entity.group = None \/ entity.technician = None)
    BY RowTypes DEF Init
  <2>2. defaults \in Settings /\ service \in Settings /\ edits \in Nat
    BY GuardrailsAssumption DEF Init
  <2> QED
    BY <2>1, <2>2, StartTypes DEF Init, TypeOK, PCs, Reasons
<1>2. TypeOK /\ [Next]_vars => TypeOK'
  <2> SUFFICES ASSUME TypeOK, [Next]_vars PROVE TypeOK'
    OBVIOUS
  <2>1. CASE Console
    <3>1. UNCHANGED <<cycle, pc, locals, outside>>
      BY <2>1 DEF Console, SetEligibility, SetScope, SetAbsences, SetModes,
         SetDefaults, Edit
    <3>2. /\ selected' \subseteq Categories
          /\ eligible' \subseteq Actors
          /\ absent' \subseteq Technicians
          /\ entity' \in EntityRow
          /\ entity'.group = None \/ entity'.technician = None
          /\ defaults' \in Settings
      BY <2>1, GuardrailsAssumption, RowTypes DEF Console, SetEligibility, SetScope,
         SetAbsences, SetModes, SetDefaults, Settings, TypeOK, Actors
    <3>3. edits' \in Nat
      BY <2>1 DEF Console, SetEligibility, SetScope, SetAbsences, SetModes,
         SetDefaults, Edit, TypeOK
    <3>4. ActorsInForce' \subseteq Actors
      BY <3>2 DEF ActorsInForce
    <3>5. ModeInForce' \in ModeSetting
      BY <3>2, ModeTypes DEF ModeInForce
    <3>6. /\ permitted' \subseteq Actors
          /\ modesSeen' \subseteq ModeSetting
          /\ authorities' \subseteq ModeSetting
          /\ left' \subseteq Technicians /\ joined' \subseteq Actors
      BY <2>1, <3>2, <3>4, <3>5 DEF Console, SetEligibility, SetScope, SetAbsences, SetModes,
         SetDefaults, Edit, TypeOK
    <3> QED
      BY <3>1, <3>2, <3>3, <3>6 DEF TypeOK, cycle, locals, outside
  <2>2. CASE Cycle
    <3>0. ModeInForce \in ModeSetting
      BY ModeTypes DEF TypeOK, ModeInForce
    <3>1. ActorsInForce \subseteq Actors
      BY DEF TypeOK, ActorsInForce
    <3>2. CASE BuildService
      BY <3>0, <3>1, <3>2 DEF BuildService, TypeOK, PCs, Loading, config, locals, outside
    <3>3. CASE LoadReferentials
      <4>1. refs' \in Referentials /\ absents' \subseteq Technicians
        BY <3>3 DEF LoadReferentials, ReadAbsences, ReadCategories, ReadTechnicians,
           ReadGroups, TypeOK, Referentials
      <4> QED
        BY <3>3, <4>1 DEF LoadReferentials, ReadAbsences, ReadCategories, ReadTechnicians,
           ReadGroups, TypeOK, PCs, Loading, config, locals, outside, history, scopeHistory
    <3>4. CASE EndCycle \/ TakeTicket
      BY <3>4, <3>0, StartTypes DEF EndCycle, TakeTicket, NoTicket, TypeOK, PCs, config,
         cycle, scopeHistory, Reasons
    <3> QED
      BY <2>2, <3>2, <3>3, <3>4 DEF Cycle
  <2>3. CASE Triage
    <3> USE DEF TypeOK, config, cycle, locals, outside, history, scopeHistory, PCs
    <3>1. CASE LlmDecides
      BY <3>1, GuardrailsAssumption DEF LlmDecides, Evaluate, Check, Reasons
    <3>2. CASE LlmFails \/ ResolveMode \/ ModeFails \/ ApplyFails \/ FollowupFails
               \/ RecordFails
      BY <3>2 DEF LlmFails, ResolveMode, ModeFails, ApplyFails, FollowupFails,
         RecordFails, Reasons
    <3>3. CASE ResolveFallback
      <4>1. repli' \in ActorsOf(refs) \cup {None}
        BY <3>3, FallbackIsInScope DEF ResolveFallback
      <4> QED
        BY <3>3, <4>1 DEF ResolveFallback, ActorsOf, Referentials, Actors
    <3>4. CASE ApplyDecision
      <4>1. Assignee(EffectiveAssignment(decision, refs)) \in Actors \cup {None}
        BY DEF Assignee, EffectiveAssignment, Decision, Actors
      <4>2. decision.category \in Categories \cup {None}
        BY DEF Decision
      <4> QED
        BY <3>4, <4>1, <4>2 DEF ApplyDecision
    <3>5. CASE ApplyPartially
      <4>1. decision.category \in Categories \cup {None}
        BY DEF Decision
      <4> QED
        BY <3>5, <4>1 DEF ApplyPartially
    <3>6. CASE AssignActor \/ AssignFails
      BY <3>6 DEF AssignActor, AssignFails
    <3>7. CASE WriteFollowup
      BY <3>7 DEF WriteFollowup
    <3>8. CASE RecordDecision
      BY <3>8 DEF RecordDecision, Decision
    <3> QED
      BY <2>3, <3>1, <3>2, <3>3, <3>4, <3>5, <3>6, <3>7, <3>8 DEF Triage
  <2>4. CASE UNCHANGED vars
    BY <2>4 DEF TypeOK, vars, config, cycle, locals, outside, history, scopeHistory
  <2> QED
    BY <2>1, <2>2, <2>3, <2>4 DEF Next
<1> QED
  BY <1>1, <1>2, PTL DEF Spec

-----------------------------------------------------------------------------
(* Who may receive a ticket                                                *)

\* A console edit leaves the cycle alone and adds to the histories of a running one.
LEMMA ConsoleFrame ==
  ASSUME Console
  PROVE  /\ UNCHANGED <<cycle, pc, locals, outside>>
         /\ permitted \subseteq permitted'
         /\ left \subseteq left' /\ joined \subseteq joined'
         /\ authorities \subseteq authorities'
         /\ pc # "idle" => /\ ActorsInForce' \subseteq permitted'
                           /\ ModeInForce' \in authorities'
                           /\ authorities \subseteq modesSeen =>
                                authorities' \subseteq modesSeen'
BY DEF Console, SetEligibility, SetScope, SetAbsences, SetModes, SetDefaults, Edit

\* The steps of a cycle do not change the configuration.
LEMMA ConfigFrame ==
  ASSUME UNCHANGED config
  PROVE  /\ ActorsInForce' = ActorsInForce
         /\ ModeInForce' = ModeInForce
BY DEF config, ActorsInForce, ModeInForce

\* What the administrator saves between the SELECT of the absences and that of the
\* technicians: whom the second will find eligible was in force once, or has crossed.
LEMMA CrossingIsSeen ==
  ASSUME TypeOK, ScopeHeld, Console, pc \in {"categories", "technicians"}
  PROVE  /\ (Technicians \cap absent') \ absents \subseteq left'
         /\ (Technicians \cap eligible') \ absents \subseteq Passing'
<1>1. /\ left' = left \cup (absent' \ absent)
      /\ joined' = joined \cup (eligible' \ eligible)
      /\ permitted \subseteq permitted' /\ ActorsInForce' \subseteq permitted'
  BY DEF Console, SetEligibility, SetScope, SetAbsences, SetModes, SetDefaults, Edit
<1>2. (Technicians \cap absent') \ absents \subseteq left'
  BY <1>1 DEF ScopeHeld
<1>3. ASSUME NEW t \in (Technicians \cap eligible') \ absents
      PROVE  t \in Passing'
  <2>1. CASE t \in eligible
    BY <1>1, <2>1 DEF ScopeHeld, Passing
  <2>2. CASE t \notin eligible /\ t \in absent'
    BY <1>1, <1>2, <1>3, <2>2 DEF Passing
  <2>3. CASE t \notin absent'
    BY <1>1, <1>3, <2>3 DEF Passing, ActorsInForce
  <2> QED
    BY <2>1, <2>2, <2>3
<1> QED
  BY <1>2, <1>3

\* What a cycle holds, and what it assigns, was in force, or has crossed.
LEMMA ScopeInvariant == Spec => []ScopeHeld
<1>1. Init => ScopeHeld
  BY DEF Init, ScopeHeld, NoRefs, ActorsOf, AssignedWasPermitted, Untouched
<1>2. TypeOK /\ ScopeHeld /\ [Next]_vars => ScopeHeld'
  <2> SUFFICES ASSUME TypeOK, ScopeHeld, [Next]_vars PROVE ScopeHeld'
    OBVIOUS
  <2>1. CASE Console
    <3>1. /\ UNCHANGED <<cycle, pc, locals, outside>>
          /\ Passing \subseteq Passing'
          /\ pc # "idle" => ActorsInForce' \subseteq permitted'
      BY <2>1, ConsoleFrame DEF Passing
    <3>2. pc \in {"idle", "load"} => UNCHANGED <<left, joined>>
      BY <2>1 DEF Console, SetEligibility, SetScope, SetAbsences, SetModes, SetDefaults,
         Edit
    <3>3. AssignedWasPermitted'
      BY <3>1 DEF ScopeHeld, AssignedWasPermitted, Passing, outside
    <3>4. ActorsOf(refs)' = ActorsOf(refs) /\ ActorsOf(refs)' \subseteq Passing'
      BY <3>1 DEF ScopeHeld, ActorsOf, cycle
    <3>5. /\ reason' = "accepted" =>
               /\ decision'.category \in refs'.categories
               /\ Assignee(EffectiveAssignment(decision, refs))' \in ActorsOf(refs)'
          /\ repli' \in ActorsOf(refs)' \cup {None}
          /\ pc' = "apply" => reason' = "accepted"
      BY <3>1, <3>4 DEF ScopeHeld, cycle, locals, Assignee, EffectiveAssignment
    <3>6. pc' \in {"categories", "technicians"} =>
            /\ refs'.technicians = {} /\ refs'.groups = {}
            /\ ((Technicians \cap absent) \ absents \subseteq left)'
            /\ ((Technicians \cap eligible) \ absents \subseteq Passing)'
      BY <2>1, <3>1, CrossingIsSeen DEF ScopeHeld, cycle
    <3>7. /\ pc' \in {"idle"} \cup Loading =>
               reason' = "none" /\ repli' = None /\ ticket' = Untouched
          /\ pc' \in {"idle", "load"} => refs' = NoRefs /\ left' = {} /\ joined' = {}
          /\ pc' = "groups" => refs'.groups = {}
      BY <3>1, <3>2 DEF ScopeHeld, cycle, locals, outside
    <3> QED
      BY <3>1, <3>3, <3>4, <3>5, <3>6, <3>7 DEF ScopeHeld
  <2>2. CASE BuildService
    <3>1. ActorsInForce' = ActorsInForce
      BY <2>2, ConfigFrame DEF BuildService
    <3>2. ActorsOf(refs)' = {} /\ refs' = NoRefs
      BY <2>2 DEF BuildService, ScopeHeld, NoRefs, ActorsOf
    <3> QED
      BY <2>2, <3>1, <3>2 DEF BuildService, Loading, locals, outside, ScopeHeld, Passing,
         AssignedWasPermitted, Untouched, ActorsOf
  <2>3. CASE LoadReferentials
    <3>1. /\ UNCHANGED <<config, locals, outside, history>>
          /\ pc \in Loading /\ pc' \in {"categories", "technicians", "groups", "scan"}
      BY <2>3 DEF LoadReferentials, ReadAbsences, ReadCategories, ReadTechnicians,
         ReadGroups, Loading
    <3>2. ActorsInForce' = ActorsInForce /\ Passing' = Passing
      BY <3>1, ConfigFrame DEF history, scopeHistory, Passing
    <3>3. /\ reason = "none" /\ repli = None /\ ticket = Untouched
          /\ AssignedWasPermitted' /\ ActorsInForce' \subseteq permitted'
      BY <3>1, <3>2 DEF ScopeHeld, AssignedWasPermitted, Untouched, locals, outside, history,
         scopeHistory, Loading
    <3>4. CASE ReadAbsences
      <4>1. refs' = NoRefs /\ absents' = absent /\ pc' = "categories"
        BY <3>4 DEF ReadAbsences, ScopeHeld
      <4>2. (Technicians \cap eligible) \ absent \subseteq Passing
        BY <3>1 DEF ScopeHeld, ActorsInForce, Passing, Loading
      <4> QED
        BY <3>1, <3>2, <3>3, <4>1, <4>2 DEF ScopeHeld, NoRefs, ActorsOf, Loading, config,
           locals, outside
    <3>5. CASE ReadCategories
      <4>1. /\ refs' = [refs EXCEPT !.categories = selected] /\ absents' = absents
            /\ pc = "categories" /\ pc' = "technicians"
        BY <3>5 DEF ReadCategories
      <4>2. refs'.technicians = {} /\ refs'.groups = {} /\ ActorsOf(refs)' = {}
        BY <4>1 DEF ScopeHeld, TypeOK, Referentials, ActorsOf
      <4> QED
        BY <3>1, <3>2, <3>3, <4>1, <4>2 DEF ScopeHeld, Loading, config, locals, outside,
           history, scopeHistory
    <3>6. CASE ReadTechnicians
      <4>1. /\ refs' = [refs EXCEPT !.technicians = (Technicians \cap eligible) \ absents]
            /\ pc = "technicians" /\ pc' = "groups"
        BY <3>6 DEF ReadTechnicians
      <4>2. refs'.groups = {} /\ ActorsOf(refs)' \subseteq Passing
        BY <4>1 DEF ScopeHeld, TypeOK, Referentials, ActorsOf
      <4> QED
        BY <3>1, <3>2, <3>3, <4>1, <4>2 DEF ScopeHeld, Loading, locals, outside
    <3>7. CASE ReadGroups
      <4>1. /\ refs' = [refs EXCEPT !.groups = Groups \cap eligible]
            /\ pc = "groups" /\ pc' = "scan"
        BY <3>7 DEF ReadGroups
      <4>2. Groups \cap eligible \subseteq Passing
        BY <3>3, GuardrailsAssumption, <4>1 DEF ScopeHeld, TypeOK, ActorsInForce, Passing
      <4>3. ActorsOf(refs)' \subseteq Passing
        BY <4>1, <4>2 DEF ScopeHeld, TypeOK, Referentials, ActorsOf
      <4> QED
        BY <3>1, <3>2, <3>3, <4>1, <4>3 DEF ScopeHeld, Loading, locals, outside
    <3> QED
      BY <2>3, <3>4, <3>5, <3>6, <3>7 DEF LoadReferentials
  <2>4. CASE EndCycle
    BY <2>4 DEF EndCycle, NoTicket, ScopeHeld, AssignedWasPermitted, NoRefs, Untouched,
       ActorsOf
  <2>5. CASE TakeTicket
    <3>1. ActorsInForce' = ActorsInForce
      BY <2>5, ConfigFrame DEF TakeTicket
    <3> QED
      BY <2>5, <3>1 DEF TakeTicket, NoTicket, cycle, scopeHistory, ScopeHeld, Passing,
         AssignedWasPermitted, Untouched, ActorsOf, Loading
  <2>6. CASE Triage
    <3>1. /\ ActorsInForce' = ActorsInForce
          /\ UNCHANGED <<service, refs, scopeHistory>>
          /\ pc # "idle" /\ pc' \notin {"idle"} \cup Loading
      BY <2>6, ConfigFrame DEF Triage, LlmDecides, LlmFails, ResolveMode,
         ResolveFallback, ModeFails, ApplyDecision, ApplyFails, ApplyPartially,
         AssignActor, AssignFails, WriteFollowup, FollowupFails, RecordDecision,
         RecordFails, cycle, history, Loading
    <3>2. /\ ActorsOf(refs)' \subseteq Passing' /\ Passing' = Passing
          /\ (pc # "idle" => ActorsInForce \subseteq permitted)'
      BY <3>1 DEF ScopeHeld, ActorsOf, Passing, scopeHistory
    <3>3. reason' = "accepted" =>
            /\ decision'.category \in refs.categories
            /\ Assignee(EffectiveAssignment(decision', refs)) \in ActorsOf(refs)
      <4>1. CASE LlmDecides
        <5>1. decision' \in Decision /\ refs \in Referentials
              /\ service.confidence \in Nat
          BY <4>1, GuardrailsAssumption DEF LlmDecides, TypeOK, Settings
        <5>2. reason' = Evaluate(decision', refs, service.confidence)
          BY <4>1 DEF LlmDecides
        <5> QED
          BY <5>1, <5>2, AcceptedIsInScope
      <4>2. CASE LlmFails
        BY <4>2 DEF LlmFails
      <4>3. CASE ~LlmDecides /\ ~LlmFails
        <5>1. UNCHANGED <<reason, decision>>
          BY <2>6, <4>3 DEF Triage, ResolveMode, ResolveFallback, ModeFails,
             ApplyDecision, ApplyFails, ApplyPartially, AssignActor, AssignFails,
             WriteFollowup, FollowupFails, RecordDecision, RecordFails, locals
        <5> QED
          BY <5>1 DEF ScopeHeld
      <4> QED
        BY <4>1, <4>2, <4>3
    <3>4. repli' \in ActorsOf(refs) \cup {None}
      BY <2>6, FallbackIsInScope DEF Triage, LlmDecides, LlmFails, ResolveMode,
         ResolveFallback, ModeFails, ApplyDecision, ApplyFails, ApplyPartially,
         AssignActor, AssignFails, WriteFollowup, FollowupFails, RecordDecision,
         RecordFails, locals, ScopeHeld
    <3>5. pc' = "apply" => reason' = "accepted"
      BY <2>6 DEF Triage, LlmDecides, LlmFails, ResolveMode,
         ResolveFallback, ModeFails, ApplyDecision, ApplyFails, ApplyPartially,
         AssignActor, AssignFails, WriteFollowup, FollowupFails, RecordDecision,
         RecordFails, locals
    <3>6. ticket'.actor # None => ticket'.actor \in Passing
      <4>1. CASE ApplyDecision
        <5>1. ticket'.actor = Assignee(EffectiveAssignment(decision, refs))
          BY <4>1 DEF ApplyDecision
        <5>2. ticket'.actor \in ActorsOf(refs)
          BY <4>1, <5>1 DEF ApplyDecision, ScopeHeld
        <5> QED
          BY <5>2 DEF ScopeHeld
      <4>2. CASE ApplyPartially
        <5>1. ticket'.actor = ticket.actor
          BY <4>2 DEF ApplyPartially, TypeOK
        <5> QED
          BY <5>1 DEF ScopeHeld, AssignedWasPermitted, Passing
      <4>3. CASE AssignActor
        <5>1. ticket'.actor = repli
          BY <4>3 DEF AssignActor, TypeOK
        <5> QED
          BY <5>1 DEF ScopeHeld
      <4>4. CASE ~ApplyDecision /\ ~ApplyPartially /\ ~AssignActor
        <5>1. UNCHANGED ticket
          BY <2>6, <4>4 DEF Triage, LlmDecides, LlmFails, ResolveMode, ResolveFallback,
             ModeFails, ApplyFails, AssignFails, WriteFollowup, FollowupFails,
             RecordDecision, RecordFails, outside
        <5> QED
          BY <5>1 DEF ScopeHeld, AssignedWasPermitted, Passing
      <4> QED
        BY <4>1, <4>2, <4>3, <4>4
    <3> QED
      BY <3>1, <3>2, <3>3, <3>4, <3>5, <3>6 DEF ScopeHeld, AssignedWasPermitted, Loading,
         Passing, ActorsOf
  <2>7. CASE UNCHANGED vars
    BY <2>7, ConfigFrame DEF vars, ScopeHeld, AssignedWasPermitted, Passing, cycle,
       config, locals, outside, history, scopeHistory
  <2> QED
    BY <2>1, <2>2, <2>3, <2>4, <2>5, <2>6, <2>7 DEF Next, Cycle
<1> QED
  BY <1>1, <1>2, TypeCorrect, PTL DEF Spec

\* Whatever the model proposes and however the scope changes while it is read, no actor
\* gets a ticket who was not in force at some time of the cycle, but one who was sent on
\* leave and made eligible between the two reads (effective_referentials).
THEOREM OnlyPermittedActorsAreAssigned == Spec => []AssignedWasPermitted
<1>1. ScopeHeld => AssignedWasPermitted
  BY DEF ScopeHeld
<1> QED
  BY <1>1, ScopeInvariant, PTL

-----------------------------------------------------------------------------
(* What the requester, the technicians and the auditor are told            *)

\* What the engine wrote, and how StoryHeld reads it, hangs on these variables only.
LEMMA StoryFrame ==
  ASSUME StoryHeld, UNCHANGED <<pc, refs, locals, outside>>
  PROVE  StoryHeld'
BY DEF StoryHeld, locals, outside, Applied, Routed, OnlyAcceptedClassifies,
   FollowupTellsTheTruth, EntryMatchesTicket

\* Between two tickets nothing more is told.
LEMMA NothingToTell ==
  ASSUME NoTicket, pc' \in {"idle", "llm"}
  PROVE  StoryHeld'
BY DEF NoTicket, StoryHeld, NoFollowup, NoEntry, Untouched,
   OnlyAcceptedClassifies, FollowupTellsTheTruth, EntryMatchesTicket

\* At each point of its handling, what is written on the ticket, in the follow-up and in
\* the journal agree.
LEMMA StoryInvariant == Spec => []StoryHeld
<1> USE DEF Loading
<1>1. Init => StoryHeld
  BY DEF Init, StoryHeld, NoFollowup, NoEntry, Untouched,
     OnlyAcceptedClassifies, FollowupTellsTheTruth, EntryMatchesTicket
<1>2. TypeOK /\ ScopeHeld /\ StoryHeld /\ [Next]_vars => StoryHeld'
  <2> SUFFICES ASSUME TypeOK, ScopeHeld, StoryHeld, [Next]_vars PROVE StoryHeld'
    OBVIOUS
  <2>1. CASE Console
    BY <2>1, ConsoleFrame, StoryFrame DEF cycle
  <2>2. CASE BuildService
    BY <2>2 DEF BuildService, StoryHeld, locals, outside, Applied, Routed,
       OnlyAcceptedClassifies, FollowupTellsTheTruth, EntryMatchesTicket
  <2>3. CASE LoadReferentials
    <3>1. /\ UNCHANGED <<locals, outside>>
          /\ pc \in Loading /\ pc' \in {"categories", "technicians", "groups", "scan"}
      BY <2>3 DEF LoadReferentials, ReadAbsences, ReadCategories, ReadTechnicians,
         ReadGroups, Loading
    <3>2. /\ repli = None /\ ~applied /\ ticket = Untouched
          /\ followup = NoFollowup /\ entry = NoEntry
      BY <3>1 DEF StoryHeld, Loading
    <3> QED
      BY <3>1, <3>2 DEF StoryHeld, Loading, locals, outside, NoFollowup, NoEntry,
         OnlyAcceptedClassifies, FollowupTellsTheTruth, EntryMatchesTicket
  <2>4. CASE EndCycle \/ TakeTicket
    BY <2>4, NothingToTell DEF EndCycle, TakeTicket
  <2>5. CASE LlmDecides
    <3>1. reason' = "accepted" => decision'.category # None
      <4>1. decision' \in Decision /\ refs \in Referentials
            /\ service.confidence \in Nat
        BY <2>5, GuardrailsAssumption DEF LlmDecides, TypeOK, Settings
      <4>2. reason' = "accepted" => decision'.category \in refs.categories
        BY <2>5, <4>1, AcceptedIsInScope DEF LlmDecides
      <4> QED
        BY <4>1, <4>2, GuardrailsAssumption DEF Referentials
    <3> QED
      BY <2>5, <3>1 DEF LlmDecides, StoryHeld, outside, NoFollowup, NoEntry, Untouched,
         OnlyAcceptedClassifies, FollowupTellsTheTruth, EntryMatchesTicket
  <2>6. CASE LlmFails
    BY <2>6 DEF LlmFails, StoryHeld, outside, Routed, NoFollowup, NoEntry, Untouched,
       OnlyAcceptedClassifies, FollowupTellsTheTruth, EntryMatchesTicket
  <2>7. CASE ResolveMode
    BY <2>7 DEF ResolveMode, StoryHeld, locals, outside, Routed, NoFollowup, NoEntry,
       Untouched, OnlyAcceptedClassifies, FollowupTellsTheTruth, EntryMatchesTicket
  <2>8. CASE ResolveFallback
    BY <2>8 DEF ResolveFallback, Arbitrated, StoryHeld, outside, Routed, NoFollowup,
       NoEntry, Untouched, OnlyAcceptedClassifies, FollowupTellsTheTruth,
       EntryMatchesTicket
  <2>9. CASE ModeFails \/ ApplyFails
    BY <2>9 DEF ModeFails, ApplyFails, cycle, StoryHeld, locals, outside, Applied,
       OnlyAcceptedClassifies, FollowupTellsTheTruth, EntryMatchesTicket
  <2>10. CASE ApplyDecision
    BY <2>10 DEF ApplyDecision, cycle, StoryHeld, Applied, Routed, NoFollowup, NoEntry,
       OnlyAcceptedClassifies, FollowupTellsTheTruth, EntryMatchesTicket
  <2>11. CASE ApplyPartially
    <3>1. ticket'.category = decision.category
      BY <2>11 DEF ApplyPartially, TypeOK
    <3> QED
      BY <2>11, <3>1 DEF ApplyPartially, cycle, StoryHeld, NoFollowup, NoEntry,
         OnlyAcceptedClassifies, FollowupTellsTheTruth, EntryMatchesTicket
  <2>12. CASE AssignActor
    <3>1. ticket' = [category |-> None, actor |-> repli]
      BY <2>12 DEF AssignActor, TypeOK, StoryHeld, Untouched
    <3>2. /\ UNCHANGED <<refs, decision, reason, applied, repli, followup, entry>>
          /\ pc = "assign" /\ pc' = "followup"
      BY <2>12 DEF AssignActor, cycle, locals
    <3>3. ~applied /\ followup = NoFollowup /\ entry = NoEntry
      BY <3>2 DEF StoryHeld
    <3>4. OnlyAcceptedClassifies' /\ FollowupTellsTheTruth' /\ EntryMatchesTicket'
      BY <3>1, <3>2, <3>3 DEF NoFollowup, NoEntry, OnlyAcceptedClassifies,
         FollowupTellsTheTruth, EntryMatchesTicket
    <3> QED
      BY <3>1, <3>2, <3>3, <3>4 DEF StoryHeld, Routed
  <2>13. CASE AssignFails
    BY <2>13 DEF AssignFails, cycle, StoryHeld, outside, Routed, Untouched, NoFollowup,
       NoEntry, OnlyAcceptedClassifies, FollowupTellsTheTruth, EntryMatchesTicket
  <2>14. CASE WriteFollowup
    BY <2>14 DEF WriteFollowup, cycle, locals, StoryHeld, Applied, Routed, NoEntry,
       OnlyAcceptedClassifies, FollowupTellsTheTruth, EntryMatchesTicket
  <2>15. CASE FollowupFails
    BY <2>15 DEF FollowupFails, cycle, locals, outside, StoryHeld, Applied, Routed,
       NoEntry, OnlyAcceptedClassifies, FollowupTellsTheTruth, EntryMatchesTicket
  <2>16. CASE RecordDecision
    <3>1. /\ UNCHANGED <<refs, decision, reason, applied, repli, ticket, followup>>
          /\ entry'.applied = applied /\ entry'.fallback = (repli # None)
          /\ pc = "record" /\ pc' = "scan"
      BY <2>16 DEF RecordDecision, cycle, locals
    <3>2. IF applied THEN ticket.category # None /\ repli = None
                     ELSE ticket = [category |-> None, actor |-> repli]
      BY <3>1 DEF StoryHeld, Routed
    <3>3. EntryMatchesTicket'
      <4>1. CASE applied
        BY <3>1, <3>2, <4>1 DEF EntryMatchesTicket
      <4>2. CASE ~applied
        <5>1. ~entry'.applied /\ ticket'.category = None /\ ticket'.actor = repli
          BY <3>1, <3>2, <4>2
        <5>2. entry'.fallback <=> repli # None
          BY <3>1
        <5> QED
          BY <5>1, <5>2 DEF EntryMatchesTicket
      <4> QED
        BY <4>1, <4>2
    <3> QED
      BY <3>1, <3>3 DEF StoryHeld, Applied, OnlyAcceptedClassifies, FollowupTellsTheTruth
  <2>17. CASE RecordFails
    BY <2>17 DEF RecordFails, cycle, locals, outside, StoryHeld, Applied, NoEntry,
       OnlyAcceptedClassifies, FollowupTellsTheTruth, EntryMatchesTicket
  <2>18. CASE UNCHANGED vars
    BY <2>18, StoryFrame DEF vars, cycle
  <2> QED
    BY <2>1, <2>2, <2>3, <2>4, <2>5, <2>6, <2>7, <2>8, <2>9, <2>10, <2>11, <2>12,
       <2>13, <2>14, <2>15, <2>16, <2>17, <2>18 DEF Next, Cycle, Triage
<1> QED
  BY <1>1, <1>2, TypeCorrect, ScopeInvariant, PTL DEF Spec

\* A category enters GLPI only from an accepted decision.
THEOREM RefusedIsNotClassified == Spec => []OnlyAcceptedClassifies
<1>1. StoryHeld => OnlyAcceptedClassifies
  BY DEF StoryHeld
<1> QED
  BY <1>1, StoryInvariant, PTL

\* A public answer stands on a decision applied whole, a private one announces the
\* assignment there is.
THEOREM FollowupIsTrue == Spec => []FollowupTellsTheTruth
<1>1. StoryHeld => FollowupTellsTheTruth
  BY DEF StoryHeld
<1> QED
  BY <1>1, StoryInvariant, PTL

\* The journal's flags say what GLPI went through.
THEOREM JournalIsTrue == Spec => []EntryMatchesTicket
<1>1. StoryHeld => EntryMatchesTicket
  BY DEF StoryHeld
<1> QED
  BY <1>1, StoryInvariant, PTL

-----------------------------------------------------------------------------
(* Under which mode GLPI is changed                                        *)

\* The assumption under which a mode read by a cycle is one that is in force: the
\* global settings do not change (run guardrails_mixed_mode shows why it is needed).
FixedDefaults == \A d, e \in DefaultChoices : d = e

\* The mode that applies a decision is in force when it is read, and stays in the
\* history of the ticket until the ticket is changed.
LEMMA ModeInvariant ==
  ASSUME FixedDefaults
  PROVE  Spec => []ModeHeld
<1> USE DEF Loading
<1>1. Init => ModeHeld
  BY DEF Init, ModeHeld, MutationIsAuthorised
<1>2. TypeOK /\ ModeHeld /\ [Next]_vars => ModeHeld'
  <2> SUFFICES ASSUME TypeOK, ModeHeld, [Next]_vars PROVE ModeHeld'
    OBVIOUS
  <2>1. CASE Console
    <3>2. defaults' = defaults
      <4>1. CASE SetDefaults
        <5>1. PICK saved \in DefaultChoices :
                 \/ defaults' = [defaults EXCEPT !.mode = saved.mode]
                 \/ defaults' = [defaults EXCEPT !.autoMin = saved.autoMin]
                 \/ defaults' = [defaults EXCEPT !.confidence = saved.confidence]
          BY <4>1 DEF SetDefaults
        <5>2. saved = defaults
          BY DEF FixedDefaults, ModeHeld
        <5> QED
          BY <5>1, <5>2 DEF TypeOK, Settings
      <4> QED
        BY <2>1, <4>1 DEF Console, SetEligibility, SetScope, SetAbsences, SetModes
    <3>3. /\ UNCHANGED <<service, pc, reason, decision, ticket>>
          /\ authorities \subseteq authorities'
          /\ pc # "idle" => /\ ModeInForce' \in authorities'
                            /\ authorities \subseteq modesSeen =>
                                 authorities' \subseteq modesSeen'
      BY <2>1, ConsoleFrame DEF cycle, locals, outside
    <3>4. MutationIsAuthorised'
      BY <3>3 DEF ModeHeld, MutationIsAuthorised
    <3> QED
      BY <3>2, <3>3, <3>4 DEF ModeHeld
  <2>2. CASE BuildService
    <3>1. ModeInForce' = ModeInForce /\ UNCHANGED <<defaults, ticket, reason>>
      BY <2>2, ConfigFrame DEF BuildService, config, locals, outside
    <3> QED
      BY <2>2, <3>1 DEF BuildService, ModeHeld, MutationIsAuthorised
  <2>3. CASE LoadReferentials
    <3>1. /\ UNCHANGED <<config, service, locals, outside, history>>
          /\ pc \in Loading /\ pc' \in {"categories", "technicians", "groups", "scan"}
      BY <2>3 DEF LoadReferentials, ReadAbsences, ReadCategories, ReadTechnicians,
         ReadGroups, Loading
    <3>2. ModeInForce' = ModeInForce
      BY <3>1, ConfigFrame
    <3> QED
      BY <3>1, <3>2 DEF config, locals, outside, history, Loading, ModeHeld,
         MutationIsAuthorised
  <2>4. CASE EndCycle
    BY <2>4 DEF EndCycle, NoTicket, config, ModeHeld, MutationIsAuthorised
  <2>5. CASE TakeTicket
    <3>1. ModeInForce' = ModeInForce
      BY <2>5, ConfigFrame DEF TakeTicket
    <3> QED
      BY <2>5, <3>1 DEF TakeTicket, NoTicket, config, cycle, ModeHeld,
         MutationIsAuthorised
  <2>6. CASE Triage
    <3>1. /\ UNCHANGED <<service, defaults, authorities, modesSeen>>
          /\ ModeInForce' = ModeInForce
          /\ pc # "idle"
      BY <2>6, ConfigFrame DEF Triage, LlmDecides, LlmFails, ResolveMode,
         ResolveFallback, ModeFails, ApplyDecision, ApplyFails, ApplyPartially,
         AssignActor, AssignFails, WriteFollowup, FollowupFails, RecordDecision,
         RecordFails, cycle, config, history
    <3>2. /\ defaults' \in DefaultChoices /\ service' = defaults'
          /\ ModeInForce' \in authorities' /\ authorities' \subseteq modesSeen'
      BY <3>1 DEF ModeHeld
    <3>3. CASE LlmDecides \/ LlmFails
      BY <3>1, <3>2, <3>3 DEF LlmDecides, LlmFails, outside, ModeHeld,
         MutationIsAuthorised
    <3>4. CASE ResolveMode
      <4>1. ModeForEntity(entity, service) \in authorities
        BY <3>1, <3>4 DEF ModeHeld, ModeInForce
      <4>2. /\ UNCHANGED <<decision, reason, ticket>> /\ reason = "accepted"
            /\ ticket = Untouched /\ pc' \in {"apply", "followup"}
        BY <3>4 DEF ResolveMode, locals, outside, ModeHeld
      <4>3. pc' = "apply" => Applies(ModeForEntity(entity, service), decision)
        BY <3>4 DEF ResolveMode
      <4>4. pc' = "apply" => \E m \in authorities' : Applies(m, decision)'
        BY <3>1, <4>1, <4>2, <4>3 DEF Applies
      <4> QED
        BY <3>1, <3>2, <4>2, <4>4 DEF ModeHeld, MutationIsAuthorised
    <3>5. CASE ResolveFallback
      <4>1. ModeForEntity(entity, service) \in authorities
        BY <3>1, <3>5 DEF ModeHeld, ModeInForce
      <4>2. /\ UNCHANGED <<reason, ticket>> /\ reason # "accepted"
            /\ ticket = Untouched /\ pc' \in {"assign", "followup"}
        BY <3>5 DEF ResolveFallback, outside, ModeHeld, Arbitrated
      <4>3. pc' = "assign" => ModeForEntity(entity, service).mode # "suggestion"
        BY <3>5 DEF ResolveFallback
      <4> QED
        BY <3>1, <3>2, <4>1, <4>2, <4>3 DEF ModeHeld, MutationIsAuthorised
    <3>6. CASE ApplyDecision \/ ApplyPartially
      <4>1. /\ UNCHANGED <<reason, decision>> /\ reason = "accepted"
            /\ \E m \in authorities : Applies(m, decision)
            /\ pc' \in {"followup", "record"}
        BY <3>6 DEF ApplyDecision, ApplyPartially, ModeHeld
      <4>2. MutationIsAuthorised'
        BY <3>1, <4>1 DEF MutationIsAuthorised, Applies
      <4> QED
        BY <3>1, <3>2, <4>1, <4>2 DEF ModeHeld
    <3>7. CASE AssignActor
      <4>1. /\ UNCHANGED reason /\ reason # "accepted"
            /\ \E m \in authorities : m.mode # "suggestion"
            /\ pc' = "followup"
        BY <3>7 DEF AssignActor, locals, ModeHeld
      <4>2. MutationIsAuthorised'
        BY <3>1, <4>1 DEF MutationIsAuthorised
      <4> QED
        BY <3>1, <3>2, <4>1, <4>2 DEF ModeHeld
    <3>8. CASE ModeFails \/ ApplyFails \/ AssignFails \/ WriteFollowup \/ FollowupFails
               \/ RecordDecision \/ RecordFails
      <4>1. UNCHANGED <<reason, decision, ticket>> /\ pc' \in {"scan", "followup", "record"}
        BY <3>8 DEF ModeFails, ApplyFails, AssignFails, WriteFollowup, FollowupFails,
           RecordDecision, RecordFails, locals, outside
      <4>2. MutationIsAuthorised'
        BY <3>1, <4>1 DEF ModeHeld, MutationIsAuthorised, Applies
      <4> QED
        BY <3>1, <3>2, <4>1, <4>2 DEF ModeHeld
    <3> QED
      BY <2>6, <3>3, <3>4, <3>5, <3>6, <3>7, <3>8 DEF Triage
  <2>7. CASE UNCHANGED vars
    <3>1. ModeInForce' = ModeInForce
      BY <2>7, ConfigFrame DEF vars
    <3> QED
      BY <2>7, <3>1 DEF vars, config, cycle, locals, outside, history, ModeHeld,
         MutationIsAuthorised
  <2> QED
    BY <2>1, <2>2, <2>3, <2>4, <2>5, <2>6, <2>7 DEF Next, Cycle
<1> QED
  BY <1>1, <1>2, TypeCorrect, PTL DEF Spec

\* Every change of GLPI was allowed by a mode in force while its ticket was handled.
THEOREM EveryMutationIsAuthorised ==
  ASSUME FixedDefaults
  PROVE  Spec => []MutationIsAuthorised
<1>1. ModeHeld => MutationIsAuthorised
  BY DEF ModeHeld
<1> QED
  BY <1>1, ModeInvariant, PTL
=============================================================================
