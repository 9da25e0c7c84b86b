--------------------------- MODULE PropertyRegister ---------------------------
(***************************************************************************)
(* What send_property and unset_prop promise their callers about the       *)
(* device's property values (spec.md sections 4.4, 4.6 and 5): each path   *)
(* is a register, and every call takes effect atomically at one instant    *)
(* between its invocation and its return.  A set writes its value, an      *)
(* unset writes None, a call that returns has taken effect, and a call     *)
(* abandoned by a crash or by its caller may or may not have.  A new major *)
(* of the interface replaces every register.                               *)
(***************************************************************************)
EXTENDS Naturals

CONSTANTS
    Tasks,     \* callers
    Keys,      \* property paths
    TaskKey,   \* TaskKey[t]: the path task t calls on
    Values,    \* property values
    None       \* no value

VARIABLES
    reg,       \* reg[k]: the value of path k
    call,      \* call[t]: the call of task t in progress, or Idle
    oks        \* oks[t]: calls of task t that returned Ok

vars == <<reg, call, oks>>

Idle == [state |-> "idle", value |-> None]

Init ==
    /\ reg \in [Keys -> Values \cup {None}]
    /\ call = [t \in Tasks |-> Idle]
    /\ oks = [t \in Tasks |-> 0]

(* A set of v (or an unset, v = None) is invoked.                         *)
Invoke(t) ==
    /\ call[t] = Idle
    /\ \E v \in Values \cup {None} :
         call' = [call EXCEPT ![t] = [state |-> "pending", value |-> v]]
    /\ UNCHANGED <<reg, oks>>

(* The call takes effect.                                                  *)
Apply(t) ==
    /\ call[t].state = "pending"
    /\ reg' = [reg EXCEPT ![TaskKey[t]] = call[t].value]
    /\ call' = [call EXCEPT ![t].state = "done"]
    /\ UNCHANGED oks

(* The call returns Ok after it took effect.                               *)
Return(t) ==
    /\ call[t].state = "done"
    /\ call' = [call EXCEPT ![t] = Idle]
    /\ oks' = [oks EXCEPT ![t] = @ + 1]
    /\ UNCHANGED reg

(* The call takes effect and returns Ok in one step.                      *)
ApplyReturn(t) ==
    /\ call[t].state = "pending"
    /\ reg' = [reg EXCEPT ![TaskKey[t]] = call[t].value]
    /\ call' = [call EXCEPT ![t] = Idle]
    /\ oks' = [oks EXCEPT ![t] = @ + 1]

(* The caller drops the call, whether or not it took effect.              *)
Drop(t) ==
    /\ call[t].state # "idle"
    /\ call' = [call EXCEPT ![t] = Idle]
    /\ UNCHANGED <<reg, oks>>

(* The device restarts: every call in progress is lost.                   *)
Crash ==
    /\ call' = [t \in Tasks |-> Idle]
    /\ UNCHANGED <<reg, oks>>

(* The interface is replaced by a new major while no call is in progress: *)
(* the values of the old major are gone, and each register holds what the *)
(* device kept for the new major, if anything.                            *)
Reset ==
    /\ \A t \in Tasks : call[t] = Idle
    /\ reg' \in [Keys -> Values \cup {None}]
    /\ UNCHANGED <<call, oks>>

Next ==
    \/ \E t \in Tasks : Invoke(t) \/ Apply(t) \/ Return(t) \/ ApplyReturn(t) \/ Drop(t)
    \/ Crash
    \/ Reset

Spec == Init /\ [][Next]_vars

=============================================================================
