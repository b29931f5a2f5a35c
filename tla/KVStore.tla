------------------------------ MODULE KVStore ------------------------------
(***************************************************************************)
(* What storage.c promises its callers: a map from item indices to values. *)
(* A write takes effect at one moment between its call and its return and  *)
(* succeeds; a read returns what the map holds when it answers; a restart  *)
(* forgets the call in progress and no value.                              *)
(***************************************************************************)
CONSTANTS Keys, Vals, NoVal, NoCall

VARIABLES
    store,   \* the value of each key, NoVal while it has none
    call,    \* the call in progress
    reply    \* its answer

vars == <<store, call, reply>>

NoReply == <<"none", NoVal>>

Init ==
    /\ store = [k \in Keys |-> NoVal]
    /\ call = NoCall
    /\ reply = NoReply

Begin ==
    /\ call = NoCall
    /\ \E k \in Keys :
          \/ call' = [kind |-> "read", key |-> k, val |-> NoVal]
          \/ \E v \in Vals : call' = [kind |-> "write", key |-> k, val |-> v]
    /\ UNCHANGED <<store, reply>>

Apply ==
    /\ call # NoCall /\ call.kind = "write"
    /\ store' = [store EXCEPT ![call.key] = call.val]
    /\ UNCHANGED <<call, reply>>

Answer ==
    /\ call # NoCall /\ reply = NoReply
    /\ IF call.kind = "write"
       THEN /\ store' = [store EXCEPT ![call.key] = call.val]
            /\ reply' = <<"ok", NoVal>>
       ELSE /\ reply' = IF store[call.key] = NoVal THEN <<"absent", NoVal>>
                                                   ELSE <<"ok", store[call.key]>>
            /\ UNCHANGED store
    /\ UNCHANGED call

End ==
    /\ call # NoCall
    /\ call' = NoCall /\ reply' = NoReply
    /\ UNCHANGED store

Next == Begin \/ Apply \/ Answer \/ End

Spec == Init /\ [][Next]_vars
=============================================================================
