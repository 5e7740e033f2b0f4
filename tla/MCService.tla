----------------------------- MODULE MCService -----------------------------
(* Service with a payment, a preview of it and another payment under the   *)
(* same key, and a payment without a key.                                  *)
EXTENDS Service

CONSTANTS pay, peek, rival, loose, k

Intents == {pay, peek, rival, loose}
Previews == {peek}
Keys == [i \in Intents |-> IF i = loose THEN NoKey ELSE k]
Bodies == [i \in Intents |-> IF i = peek THEN pay ELSE i]
=============================================================================
