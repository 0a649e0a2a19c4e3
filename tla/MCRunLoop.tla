------------------------------ MODULE MCRunLoop ------------------------------
(* Small instances of RunLoop for TLC: days of 14 units.                   *)
EXTENDS RunLoop

Holiday == {0, 2, 3, 5}   \* a day without trading after the first
=============================================================================
