---------------------------- MODULE ReadContract ----------------------------
(***************************************************************************)
(* What a subscriber of common::Flow<Registers>, as returned by            *)
(* ModbusSession::readHoldingRegisters, may rely on: a subscription ends    *)
(* once, with one block of registers followed by on_completed, or with one *)
(* on_error.  Several subscriptions may end in error in the same step: a    *)
(* session that breaks fails every request it holds before it returns.     *)
(***************************************************************************)
CONSTANT Reads               (* the subscriptions                          *)

VARIABLE status              (* how far each subscription has come         *)

Init == status = [r \in Reads |-> "idle"]

Subscribe(r) == /\ status[r] = "idle"
                /\ status' = [status EXCEPT ![r] = "subscribed"]

Answer(r) == /\ status[r] = "subscribed"
             /\ status' = [status EXCEPT ![r] = "registers"]

Fail(R) == /\ \A r \in R : status[r] = "subscribed"
           /\ status' = [r \in Reads |-> IF r \in R THEN "error" ELSE status[r]]

Next == \/ \E r \in Reads : Subscribe(r) \/ Answer(r)
        \/ \E R \in SUBSET Reads : Fail(R)

Spec == Init /\ [][Next]_status

(* No subscription stays without an outcome.                               *)
EveryReadEnds == \A r \in Reads : status[r] = "subscribed"
                                     ~> status[r] \in {"registers", "error"}
=============================================================================
