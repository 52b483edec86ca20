---------------------------- MODULE DiscoveryFlow ---------------------------
(***************************************************************************)
(* The contract of common::ThingDiscovery<Candidate>: one start, candidates *)
(* on a hot flow while it runs, and one end of that flow, by completion or  *)
(* by an error, after which there are no more candidates.  PortScanner,     *)
(* ModbusDiscovery and SunspecDiscovery each implement it, and each but the *)
(* first is driven by another discovery it knows only by this contract.     *)
(***************************************************************************)
CONSTANT Items               (* the candidates the flow may carry          *)

VARIABLES phase,             (* "idle", "running", "ended" or "failed"     *)
          found              (* the candidates emitted so far              *)

Init == phase = "idle" /\ found = {}

Start == /\ phase = "idle"
         /\ phase' = "running"
         /\ UNCHANGED found

Emit(x) == /\ phase = "running"
           /\ found' = found \cup {x}
           /\ UNCHANGED phase

End == /\ phase = "running"
       /\ phase' = "ended"
       /\ UNCHANGED found

Fail == /\ phase = "running"
        /\ phase' = "failed"
        /\ UNCHANGED found

(* A last candidate and the end of the flow in one callback of the loop.    *)
EmitAndEnd(x) == /\ phase = "running"
                 /\ found' = found \cup {x}
                 /\ phase' = "ended"

Next == Start \/ End \/ Fail \/ \E x \in Items : Emit(x) \/ EmitAndEnd(x)

Spec == Init /\ [][Next]_<<phase, found>>

(* A discovery that was started ends.                                       *)
Ends == phase = "running" ~> phase \in {"ended", "failed"}
=============================================================================
