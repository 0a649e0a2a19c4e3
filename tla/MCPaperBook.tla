----------------------------- MODULE MCPaperBook -----------------------------
(* Small instances of PaperBook for TLC.                                   *)
EXTENDS PaperBook, TLC

CONSTANTS s1, s2, s3

ThreeSymbols == {s1, s2, s3}
TwoSymbols == {s1, s2}

NoFaults == {}
AnyFault == {"statement", "commit"}

(* The symbols are interchangeable: no operator orders them.               *)
Symmetry == Permutations(Symbols)
=============================================================================
