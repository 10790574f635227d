--------------------------- MODULE MCLedgerSessions ---------------------------
(* Model-checking definitions for LedgerSessions. *)
EXTENDS LedgerSessions, TLC

CONSTANTS A, B

TwoHeld        == (A :> 4) @@ (B :> 0)
TwoPrices      == (A :> 3) @@ (B :> 2)
SmallMoves     == {-4, 5}
=============================================================================
