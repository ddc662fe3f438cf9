--------------------------- MODULE MatcherRefines ---------------------------
(***************************************************************************)
(* The matcher implements the abstract exchange: the index is the set of   *)
(* resting orders, the order in the loop is the working one, states,       *)
(* messages, trees and the order of the checks are details.                *)
(***************************************************************************)
EXTENDS Matcher

View(o) ==
  [user |-> o.user, side |-> o.side, type |-> o.type, price |-> o.price,
   stp |-> o.stp, banded |-> o.rate # 0, left |-> o.unfilled]

\* An order whose handler was aborted stays at work: nothing follows.
AtWork == phase = "matching" \/ (phase = "dead" /\ Taker.type # "Ioc")

workingBar == IF AtWork THEN fromId ELSE 0

liveBar ==
  [i \in cache \cup (IF AtWork THEN {fromId} ELSE {}) |-> View(orders[i])]

doneBar == AtWork /\ EndsLoop(Taker)

Views == {View(NewOrder(o)) : o \in Inputs}

X == INSTANCE Exchange WITH
       Ids <- SeqIds,
       Orders <- Views,
       live <- liveBar,
       working <- workingBar,
       done <- doneBar

\* Every behaviour of the matcher is one of the exchange: trades only with the
\* best acceptable order, at its price, as much as possible; self-trades only
\* prevented in the way asked for; only limit orders that cannot trade rest;
\* cancels take away resting orders and nothing else.
ImplementsExchange == X!XSpec
=============================================================================
