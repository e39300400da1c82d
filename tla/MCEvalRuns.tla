----------------------------- MODULE MCEvalRuns -----------------------------
(* A batch of two items and a launch by hand, each with one model.         *)
EXTENDS EvalRuns, TLC

CONSTANTS a, b, hand, a1, b1, h1

MCOf == a1 :> a @@ b1 :> b @@ h1 :> hand

=============================================================================
