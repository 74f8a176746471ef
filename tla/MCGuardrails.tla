---------------------------- MODULE MCGuardrails ----------------------------
\* Instances of Guardrails for TLC.
EXTENDS Guardrails

Propose(c, ok, t, g, level) ==
  [category |-> c, priorityOk |-> ok, technician |-> t, group |-> g, confidence |-> level]

\* Sure and hesitant, with a technician, a group or both, and ids left null.
SomeDecisions ==
  {Propose("c1", TRUE, "t1", "g1", 2),
   Propose("c1", TRUE, "t2", None, 1),
   Propose("c1", TRUE, None, "g1", 1),
   Propose("c1", TRUE, None, None, 2),
   Propose("c1", FALSE, "t1", None, 2),
   Propose(None, TRUE, "t1", None, 0),
   Propose("c1", TRUE, "t1", None, 0)}

Row(mode, level, t, g) == [mode |-> mode, autoMin |-> level, technician |-> t, group |-> g]

SomeRows ==
  {Row("suggestion", None, None, "g1"),
   Row(None, None, "t1", None),
   Row("semi_auto", 2, "t2", "g1"),
   Row("full_auto", None, "t2", None)}

Setting(mode, level, confidence) ==
  [mode |-> mode, autoMin |-> level, confidence |-> confidence]

OneDefault == {Setting("semi_auto", 1, 1)}
TwoDefaults == {Setting("full_auto", 2, 1), Setting("suggestion", 2, 1)}
=============================================================================
