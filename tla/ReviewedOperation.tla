------------------------- MODULE ReviewedOperation -------------------------
(***************************************************************************)
(* What reviewed maintenance promises of each named operation, without     *)
(* calls, sessions or locks: an attempt is opened, its command takes       *)
(* effect at most once, its outcome is settled truthfully or left in doubt *)
(* and only an operator settles a doubt.                                   *)
(***************************************************************************)
CONSTANT Names

VARIABLES
    status,     \* name -> status of the operation
    effect,     \* name -> has the command of the latest attempt taken effect?
    acked       \* names whose success a client was told of

vars == <<status, effect, acked>>

Init ==
    /\ status = [n \in Names |-> "absent"]
    /\ effect = [n \in Names |-> FALSE]
    /\ acked = {}

Open(n) ==
    /\ status[n] \in {"absent", "failed", "reconciled_failed"}
    /\ status' = [status EXCEPT ![n] = "running"]
    /\ effect' = [effect EXCEPT ![n] = FALSE]
    /\ UNCHANGED acked

TakeEffect(n) ==
    /\ status[n] = "running" /\ ~effect[n]
    /\ effect' = [effect EXCEPT ![n] = TRUE]
    /\ UNCHANGED <<status, acked>>

Settle(n) ==
    /\ status[n] = "running"
    /\ \E outcome \in (IF effect[n] THEN {"succeeded"} ELSE {"failed"}) \cup {"unknown"} :
         status' = [status EXCEPT ![n] = outcome]
    /\ UNCHANGED <<effect, acked>>

(* A success that no client was told of can fall back into doubt.          *)
Doubt(n) ==
    /\ status[n] = "succeeded" /\ n \notin acked
    /\ status' = [status EXCEPT ![n] = "unknown"]
    /\ UNCHANGED <<effect, acked>>

Resolve(n) ==
    /\ status[n] \in {"running", "unknown"}
    /\ \E outcome \in {"reconciled_succeeded", "reconciled_failed"} :
         status' = [status EXCEPT ![n] = outcome]
    /\ UNCHANGED <<effect, acked>>

Acknowledge(n) ==
    /\ status[n] = "succeeded" /\ effect[n]
    /\ acked' = acked \cup {n}
    /\ UNCHANGED <<status, effect>>

Next == \E n \in Names :
    Open(n) \/ TakeEffect(n) \/ Settle(n) \/ Doubt(n) \/ Resolve(n) \/ Acknowledge(n)

Spec == Init /\ [][Next]_vars
=============================================================================
