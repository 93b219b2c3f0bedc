----------------------------- MODULE TenantMutex -----------------------------
(***************************************************************************)
(* What the per-tenant owner lock promises: the jobs of one tenant run one *)
(* after the other.  The promise is kept until a running job loses its     *)
(* renewals, from then on nothing is promised to that tenant.              *)
(***************************************************************************)
CONSTANTS Owners, Workers

VARIABLES inside,  \* the workers running a job of each tenant
          breach   \* tenants the promise no longer covers

Init ==
    /\ inside = [o \in Owners |-> {}]
    /\ breach = {}

Enter(w, o) ==
    /\ \A t \in Owners : w \notin inside[t]
    /\ inside[o] = {} \/ o \in breach
    /\ inside' = [inside EXCEPT ![o] = @ \cup {w}]
    /\ UNCHANGED breach

Leave(w, o) ==
    /\ w \in inside[o]
    /\ inside' = [inside EXCEPT ![o] = @ \ {w}]
    /\ UNCHANGED breach

Break(o) ==
    /\ inside[o] # {}
    /\ breach' = breach \cup {o}
    /\ UNCHANGED inside

Next ==
    \E o \in Owners :
        \/ \E w \in Workers : Enter(w, o) \/ Leave(w, o)
        \/ Break(o)

Spec == Init /\ [][Next]_<<inside, breach>>
=============================================================================
