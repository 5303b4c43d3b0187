------------------------------ MODULE Authority ------------------------------
(***************************************************************************)
(* What the hand-off protocol promises, without shards' copies or          *)
(* messages: the right to simulate an entity is a token.  A shard holds    *)
(* it, or it is on its way to a shard, or it is gone for good.             *)
(***************************************************************************)
CONSTANT Shards

VARIABLE token

Held(s) == [state |-> "held", at |-> s]
InTransit(s) == [state |-> "in transit", at |-> s]
Gone == [state |-> "gone"]

Init == \E s \in Shards : token = Held(s)

\* The holder gives the entity up to another shard.
Release(s, t) == token = Held(s) /\ s # t /\ token' = InTransit(t)

\* The addressee, and nobody else, takes it up.
TakeUp(t) == token = InTransit(t) /\ token' = Held(t)

\* Unreliable delivery: the entity stops being simulated anywhere.
Lose == token # Gone /\ token' = Gone

Moves ==
    \/ \E s, t \in Shards : Release(s, t)
    \/ \E t \in Shards : TakeUp(t)

Next == Moves \/ Lose

Spec == Init /\ [][Next]_token

\* With reliable delivery the token is always somewhere.
LosslessSpec == Init /\ [][Moves]_token

=============================================================================
