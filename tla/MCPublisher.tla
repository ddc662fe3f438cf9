----------------------------- MODULE MCPublisher -----------------------------
(* Three streams of two symbols that share the only connection: another      *)
(* connection would multiply the states and meet none of these.              *)
EXTENDS Publisher

SharedConnection == {<<0, "results">>, <<0, "quotes">>, <<1, "depth">>}

MessagesOf(s) == CASE s[2] = "results" -> 2
                   [] s[2] = "quotes"  -> 1
                   [] s[2] = "depth"   -> 3

MessagesMade == [s \in SharedConnection |-> MessagesOf(s)]
=============================================================================
