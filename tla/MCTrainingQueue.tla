--------------------------- MODULE MCTrainingQueue ---------------------------
(* Small instances of TrainingQueue.                                          *)
EXTENDS TrainingQueue

CONSTANTS a1, a2, a3, t1, t2, c1, c2

\* a1 and a2 are a live agent and its candidate, a3 is unrelated.
Lineages == [a \in Agents |-> IF a = a3 THEN t2 ELSE t1]

Train == [reason |-> "user", rebuild |-> FALSE]
Teach == [reason |-> "teach", rebuild |-> TRUE]

TrainOrTeach == {Train, Teach}
=============================================================================
