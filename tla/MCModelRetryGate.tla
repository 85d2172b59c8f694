--------------------------- MODULE MCModelRetryGate ---------------------------
(* An instance of the retry gate: calls of two models on one wire route,   *)
(* as routePolicies builds them, the model's route first.                  *)
EXTENDS ModelRetryGate

CONSTANTS c1, c2, model1, model2, wire, nobody

(* Calls of two models that share their provider's wire route. *)
TwoModels == [c \in {c1, c2} |-> IF c = c1 THEN <<model1, wire>>
                                           ELSE <<model2, wire>>]
===============================================================================
