--------------------------- MODULE MCBacktestEngine ---------------------------
(* Model-checking definitions for BacktestEngine. *)
EXTENDS BacktestEngine

CONSTANTS A, B

TwoSymbols == <<A, B>>
Bar(o, c)  == [open |-> o, close |-> c]
UpAndDown  == <<{Bar(3, 4)}, {Bar(2, 4)}, {Bar(4, 2)}, {Bar(2, 3)}>>
=============================================================================
