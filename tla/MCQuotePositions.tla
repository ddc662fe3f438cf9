--------------------------- MODULE MCQuotePositions ---------------------------
(***************************************************************************)
(* Instance of QuotePositions: two minutes of one day.  Both results are   *)
(* of the first minute, so that they come in time, late, or late after a   *)
(* restart from a snapshot taken in the second minute.                     *)
(***************************************************************************)
EXTENDS QuotePositions

MCWindows == {"minute 1", "minute 2", "day"}
MCWindowsAt ==
  [t \in 0 .. MaxTime |->
     CASE t = 0 -> {} [] t = 1 -> {"minute 1", "day"} [] OTHER -> {"minute 2", "day"}]
MCTimeOf == [i \in Rows |-> 1]
=============================================================================
