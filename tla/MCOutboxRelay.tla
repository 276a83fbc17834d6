----------------------------- MODULE MCOutboxRelay -----------------------------
(***************************************************************************)
(* Three events, batches of two, two relay replicas (docker-compose.prod:  *)
(* relay, replicas: 2) of which one has two polls that overlap.            *)
(***************************************************************************)
EXTENDS OutboxRelay, TLC

CONSTANTS relayA, relayB, pollA1, pollA2, pollB

MCPolls == {pollA1, pollA2, pollB}
MCHost == (pollA1 :> relayA) @@ (pollA2 :> relayA) @@ (pollB :> relayB)
===============================================================================
