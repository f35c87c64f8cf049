--------------------------- MODULE MCCoordinator ---------------------------
(* The coordinator on small instances.  Requests and abort calls are model  *)
(* values, interchangeable until they act.  A behaviour is one of three     *)
(* messages that nothing goes wrong with, or one of two messages beside     *)
(* everything else: compactions, aborts, panics.                            *)
EXTENDS Coordinator, TLC

CONSTANT Parts   \* the parts to explore

VARIABLE part

Symmetry ==
    Permutations(Runs) \cup Permutations(Compacts) \cup Permutations(Aborters)

WithinPart ==
    IF part = "messages"
    THEN /\ \A r \in Compacts : pc[r] = "idle"
         /\ \A a \in Aborters : apc[a] = "idle"
         /\ \A i \in Requests : wpc[i] # "dead"
    ELSE Cardinality({r \in Runs : pc[r] # "idle"}) <= 2

(* A panic may leave the others waiting for ever. *)
LeftWaiting ==
    /\ \E i \in Requests : wpc[i] = "dead"
    /\ UNCHANGED vars

PartInit == part \in Parts /\ Init
PartNext == UNCHANGED part /\ (Next \/ LeftWaiting) /\ WithinPart'

PartSpec == PartInit /\ [][PartNext]_<<part, vars>>
=============================================================================
