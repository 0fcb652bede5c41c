----------------------------- MODULE MCJourneys -----------------------------
EXTENDS Journeys, TLC
CONSTANTS j1, j2, c1, c2
Step(c, open, required) == [course |-> c, open |-> open, required |-> required]
\* Two courses in order, and only the second of them.
MCPlans == {<<Step(c1, FALSE, TRUE), Step(c2, FALSE, TRUE)>>, <<Step(c2, TRUE, TRUE)>>}
\* The second journey may start after the first.
MCFirstPlan == (j1 :> <<Step(c1, FALSE, TRUE), Step(c2, FALSE, TRUE)>>) @@ (j2 :> <<Step(c2, TRUE, TRUE)>>)
MCFirstRule == (c1 :> "nobody") @@ (c2 :> "mine")
MCFirstAfter == (j1 :> None) @@ (j2 :> j1)
MCBefore == (j1 :> {}) @@ (j2 :> {j1})
=============================================================================
