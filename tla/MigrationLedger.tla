-------------------------- MODULE MigrationLedger --------------------------
(***************************************************************************)
(* What reviewed migrations promise: the applied plans form a stack, the   *)
(* schema holds the effects of exactly those plans in that order, and both *)
(* change together, one plan at a time.                                    *)
(***************************************************************************)
EXTENDS Integers, Sequences

CONSTANTS Plans, NameOf, Steps

VARIABLES
    stack,      \* the applied plans, oldest first
    schema      \* the effects of the executed steps, oldest first

vars == <<stack, schema>>

Effects(p) == [i \in 1..Steps |-> [plan |-> p, step |-> i]]

Init == stack = <<>> /\ schema = <<>>

Push(p) ==
    /\ \A i \in DOMAIN stack : NameOf[stack[i]] # NameOf[p]
    /\ stack' = Append(stack, p)
    /\ schema' = schema \o Effects(p)

Pop ==
    /\ stack # <<>>
    /\ stack' = SubSeq(stack, 1, Len(stack) - 1)
    /\ schema' = SubSeq(schema, 1, Len(schema) - Steps)

Next == (\E p \in Plans : Push(p)) \/ Pop

Spec == Init /\ [][Next]_vars
=============================================================================
