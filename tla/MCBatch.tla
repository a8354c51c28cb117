------------------------------- MODULE MCBatch -------------------------------
(* A marketing batch that needs approval, a marketing batch that needs none and *)
(* during which the balance runs out, and a batch of an application, whose      *)
(* chunks may lose their answer.                                                *)
EXTENDS UncertainResolution, TLC

CONSTANTS alice, bob, carol, c1, c2, m1, m2, w1, w2

Reviewed == [web |-> TRUE, market |-> TRUE, review |-> TRUE]
Direct == [web |-> FALSE, market |-> FALSE, review |-> FALSE]
Market == [web |-> TRUE, market |-> TRUE, review |-> FALSE]

MCKinds == {Reviewed, Direct, Market}
MCViews == {<<alice, 2>>, <<bob, 1>>, <<bob, 2>>, <<carol, 1>>}
MCBroke == {Market}
MCLossy == {Direct}
MCHome == m1 :> c1 @@ m2 :> c2
MCProposals ==
  {<<c1, alice, "keep_unknown">>, <<c1, alice, "confirm_not_accepted">>,
   <<c1, alice, "resend_new_batch">>, <<c2, alice, "confirm_not_accepted">>}
MCAnswers == {<<m1, "delivered">>, <<m1, "unknown">>}
=============================================================================
