-------------------------- MODULE MCEventService ---------------------------
(* An instance of EventService for TLC: three deployments, two configured, *)
(* of which one is followed for its listener alone.                        *)
EXTENDS EventService

CONSTANTS couscous, goldberg, kate

MCChains == <<couscous, kate, goldberg>>
MCMaxBlock == [c \in Configured |-> IF c = goldberg THEN 2 ELSE 0]
=============================================================================
