------------------------------ MODULE IdLease ------------------------------
(***************************************************************************)
(* What allocate_host_id and release_host_id promise: a HostID is lent to    *)
(* one holder at a time. A holder keeps the id until it gives it back, and   *)
(* only an id that nobody holds is lent out.                                 *)
(***************************************************************************)
CONSTANTS Id,       \* the ids
          Reserved, \* an id that is never lent
          Holder    \* whatever can hold an id

VARIABLE holders  \* holders[i]: who holds i

Init == holders = [i \in Id |-> {}]

\* One more id is lent, to one holder.
Lend ==
  \E i \in Id \ {Reserved} :
    /\ holders[i] = {}
    /\ \E x \in Holder : holders' = [holders EXCEPT ![i] = {x}]

\* Any number of ids come back in one step: a connection's and that of the group it
\* was the last member of, or all of them when the server stops.
Return == \A i \in Id : holders'[i] = holders[i] \/ holders'[i] = {}

Next == Return \/ Lend

Spec == Init /\ [][Next]_holders
=============================================================================
