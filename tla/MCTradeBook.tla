------------------------------ MODULE MCTradeBook ------------------------------
(* Model-checking definitions for TradeBook. *)
EXTENDS TradeBook, TLC

SmallMoves     == {-6}
AnyUnits       == {-1, 1, 3}
SymbolSymmetry == Permutations(Symbols)
=============================================================================
