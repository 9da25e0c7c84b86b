------------------------- MODULE IntrospectionBroker -------------------------
(***************************************************************************)
(* What the introspection synchroniser promises the broker (spec.md        *)
(* sections 4.7 and 6): the broker's view of a device is the introspection *)
(* it was last sent and the topics the device is subscribed to.  A         *)
(* server-owned interface is advertised only once the device subscribes    *)
(* to it, and unsubscribed only once it is no longer advertised, so the   *)
(* server never targets an advertised interface nobody listens on.         *)
(***************************************************************************)
CONSTANTS
    Ifaces,   \* interface names
    Owner     \* Owner[i] \in {"device", "server"}

VARIABLES
    adv,      \* the introspection the broker holds
    subs      \* the device's subscriptions

ServerOwned(S) == {i \in S : Owner[i] = "server"}

Init ==
    /\ adv \subseteq Ifaces
    /\ subs \subseteq Ifaces
    /\ ServerOwned(adv) \subseteq subs

(* The device subscribes to some server-owned interfaces.                 *)
Subscribe ==
    \E S \in SUBSET ServerOwned(Ifaces) :
        /\ subs' = subs \cup S
        /\ UNCHANGED adv

(* A new introspection is advertised: its server-owned interfaces are     *)
(* subscribed already.                                                     *)
Advertise ==
    \E A \in SUBSET Ifaces :
        /\ ServerOwned(A) \subseteq subs
        /\ adv' = A
        /\ UNCHANGED subs

(* An interface no longer advertised is unsubscribed.                     *)
Unsubscribe ==
    \E i \in subs \ adv :
        /\ subs' = subs \ {i}
        /\ UNCHANGED adv

Next == Subscribe \/ Advertise \/ Unsubscribe

Spec == Init /\ [][Next]_<<adv, subs>>

=============================================================================
