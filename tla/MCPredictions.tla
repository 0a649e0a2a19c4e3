---------------------------- MODULE MCPredictions ----------------------------
(* Small instances of Predictions for TLC.                                 *)
EXTENDS Predictions

AnyFault == {"statement", "commit"}
AnyWrite == {"activity", "row"}
ActivityOnly == {"activity"}
=============================================================================
