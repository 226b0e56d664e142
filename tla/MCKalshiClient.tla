--------------------------- MODULE MCKalshiClient ---------------------------
(* KalshiClient for TLC: a series of one page, one of as many as are          *)
(* allowed, and one whose cursor never ends.                                  *)
EXTENDS KalshiClient, TLC

CONSTANTS short, long, endless

MCListing == (short :> 1) @@ (long :> MaxPages) @@ (endless :> MaxPages + 1)
=============================================================================
