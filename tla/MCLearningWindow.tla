-------------------------- MODULE MCLearningWindow --------------------------
(* Small instances of LearningWindow for TLC.                              *)
EXTENDS LearningWindow

Nothing == {}
Interruptions == {"cycle", "signal", "kill"}
Everything == MishapKinds
=============================================================================
