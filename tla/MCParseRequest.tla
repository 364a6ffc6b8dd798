---------------------------- MODULE MCParseRequest ----------------------------
(* Without a plan, and with two chunks for one permit, so that one chunk      *)
(* queues behind the other.                                                   *)
EXTENDS ParseRequest

R(s, e) == [start |-> s, end |-> e]

MCPlans   == {<<>>, <<R(0, 2), R(2, 3)>>}
MCAnswers == {<<"a">>}
===============================================================================
