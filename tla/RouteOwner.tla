----------------------------- MODULE RouteOwner -----------------------------
(***************************************************************************)
(* What the static route manager promises about the kernel's static routes *)
(* as long as only it changes them: each rib entry owns one route or none. *)
(* Whatever clients write and in whatever order it is handled, a step adds *)
(* a route for one owner in a slot that is free, replaces the one route of *)
(* an owner, or withdraws it; it never touches the route of another owner, *)
(* nor one that nobody owns.  A manager that dies owns nothing any more.   *)
(***************************************************************************)
CONSTANTS
    NULL,    \* no route
    Owner,   \* the rib entries
    Route    \* the routes, as Rib has them

VARIABLES
    kernel,  \* the kernel's static routes
    owned    \* owned[o]: the route of an owner, or NULL

vars == <<kernel, owned>>

Nobody == [o \in Owner |-> NULL]

Slot(r) == <<r.fam, r.dst, r.hi, r.lo>>
SlotFree(routes, r) == \A s \in routes : Slot(s) # Slot(r)

\* The route an owner ends up with, in a slot that is free among routes.
Gains(o, routes) ==
    /\ owned'[o] \in Route
    /\ owned' = [owned EXCEPT ![o] = owned'[o]]
    /\ SlotFree(routes, owned'[o])
    /\ kernel' = routes \cup {owned'[o]}

Install(o) ==
    /\ owned[o] = NULL
    /\ Gains(o, kernel)

Replace(o) ==
    /\ owned[o] # NULL
    /\ Gains(o, kernel \ {owned[o]})

Withdraw(o) ==
    /\ owned[o] # NULL
    /\ kernel' = kernel \ {owned[o]}
    /\ owned' = [owned EXCEPT ![o] = NULL]

Die == owned' = Nobody /\ UNCHANGED kernel

Init == kernel = {} /\ owned = Nobody

Next == (\E o \in Owner : Install(o) \/ Replace(o) \/ Withdraw(o)) \/ Die

Spec == Init /\ [][Next]_vars
=============================================================================
