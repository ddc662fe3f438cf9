------------------------------ MODULE MCCandles ------------------------------
(***************************************************************************)
(* Instance of Candles.                                                    *)
(***************************************************************************)
EXTENDS Candles

\* No trade, one trade, two makers of different prices.
MCFills == {<<>>, <<2>>, <<3, 1>>}
=============================================================================
