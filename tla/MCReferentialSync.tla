--------------------------- MODULE MCReferentialSync ---------------------------
(* A small instance of ReferentialSync: one entity, two technicians, one group. *)
EXTENDS ReferentialSync, TLC

CONSTANTS a, b, e, g, full_auto

Away(t, first, last, by) == [technician |-> t, from |-> first, to |-> last, replacement |-> by]

\* Each list is valid on its own; the first with another makes a chain.
MCAbsenceLists == {{Away(a, 1, 1, b)}, {Away(b, 1, 2, None)}, {Away(b, 1, 2, a)}}

Setting(mode, group, technician) == [mode |-> mode, group |-> group, technician |-> technician]

MCModeChoices == {Setting(full_auto, g, b), Setting(None, None, b)}

\* What holds before anything is read or saved by those under way.
Quiet ==
  /\ glpi = Objects /\ open = FALSE
  /\ scan = NoScan
  /\ settings = [o \in Entities |-> Default]
  /\ absences = {}
  /\ save = [s \in Savers |-> NoSave]
  /\ traced = [o \in Entities |-> {}]
  /\ cycle = NoCycle
  /\ today = 1
  /\ cut = {} /\ raced = {} /\ leaked = FALSE

\* A scan has seen everything but a technician who is new in GLPI, and two saves have made
\* one actor of each kind eligible.  A scan and a save are left to come.
OneIsNew ==
  /\ dated = [o \in Objects |-> IF o = a THEN 0 ELSE 1] /\ chosen = {b, g}
  /\ saves = MaxSaves - 1 /\ scans = MaxScans - 1 /\ changes = 0

\* The last scan is over, everything is known and eligible.  The saves are left to come.
AllAreKnown ==
  /\ dated = [o \in Objects |-> MaxScans] /\ chosen = {a, b, g}
  /\ saves = 0 /\ scans = MaxScans /\ changes = MaxChanges

MCInit == Quiet /\ (OneIsNew \/ AllAreKnown)

MCSpec == MCInit /\ [][Next]_vars

Symmetry == Permutations(Savers)
================================================================================
