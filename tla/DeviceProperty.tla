--------------------------- MODULE DeviceProperty ---------------------------
(***************************************************************************)
(* Device-owned properties of the Astarte device SDK: the client side of   *)
(* src/src/client/property.rs (send_property, is_prop_stored,              *)
(* try_load_prop, unset_prop) run by several client tasks that share one   *)
(* property store, one connection status and one ordered channel to the    *)
(* broker.  Every `.await` of the Rust code is a step boundary, so tasks   *)
(* interleave exactly where tokio may switch between them.                 *)
(*                                                                         *)
(* The store (load_prop / store_prop / unset_prop / delete_prop), the      *)
(* reconnect resynchronisation, the interface replacement and the broker   *)
(* are not under src/ and follow the contracts of spec.md sections 4.4,    *)
(* 4.6 and 4.7.                                                            *)
(***************************************************************************)
EXTENDS Integers, Sequences, SequencesExt, FiniteSets

CONSTANTS
    Tasks,           \* client tasks, each holding a clone of the DeviceClient
    Keys,            \* property paths of the (single) device-owned interface
    TaskKey,         \* TaskKey[t]: the path task t publishes on
    Data,            \* payloads, abstracted to model values
    MappingTypes,    \* mapping types the interface's mapping may have
    Majors,          \* interface major versions
    InitMajor,       \* major of the interface when the device starts
    InitType,        \* mapping type of the interface when the device starts
    None,            \* no value / no stored row
    OpsBound,        \* calls each task makes
    DisconnectBound, \* connection losses
    RestartBound,    \* device crashes and restarts
    ReplaceBound,    \* interface replacements by a new major
    CancelBound,     \* send_property / unset_prop futures dropped by the caller
    FailBound        \* calls of each task that return Err

ASSUME TaskKey \in [Tasks -> Keys]
ASSUME InitMajor \in Majors /\ InitType \in MappingTypes
ASSUME None \notin Data
ASSUME \A n \in {OpsBound, DisconnectBound, RestartBound, ReplaceBound, CancelBound,
                FailBound} : n \in Nat

(* AstarteType values: the payload together with its type.                *)
Value == [data : Data, type : MappingTypes]

(* A row of the property store: a value, or the marker left by unset_prop. *)
Row == [kind : {"set"}, value : Value, major : Majors]
       \cup [kind : {"unset"}, value : {None}, major : Majors]

(* What the broker keeps for a path: a value, or None once unset.         *)
ServerRow == [value : Value \cup {None}, major : Majors]

(* Frames on the connection: an individual property, an unset, and the    *)
(* purge that lists the device properties still set (resync, spec 4.7).   *)
Msg == [kind : {"set", "unset"}, key : Keys, value : Value \cup {None}, major : Majors]
       \cup [kind : {"purge"}, keys : SUBSET Keys, major : Majors]

PC == {"idle", "load", "delete_mismatch", "store", "check", "send",
       "unset", "ucheck", "usend", "udelete"}

VARIABLES
    iface,    \* the interface in the registry: [major, type] of its mapping
    store,    \* property store: Keys -> Row \cup {None}
    status,   \* connection status read by is_connected()
    wire,     \* frames accepted by the sender, in order, not yet applied
    server,   \* broker's view of the device properties
    task,     \* per task: program counter and the value being sent
    intent,   \* history: the value each path has after the last completed call
    opsDone,  \* calls that returned Ok per task
    faults    \* counts of disconnects, restarts and replacements

vars == <<iface, store, status, wire, server, task, intent, opsDone, faults>>

TypeOK ==
    /\ iface \in [major : Majors, type : MappingTypes]
    /\ store \in [Keys -> Row \cup {None}]
    /\ status \in {"connected", "disconnected"}
    /\ wire \in Seq(Msg)
    /\ server \in [Keys -> ServerRow]
    /\ task \in [Tasks -> [pc : PC, value : Value \cup {None}]]
    /\ intent \in [Keys -> Value \cup {None}]
    /\ opsDone \in [Tasks -> 0..OpsBound]
    /\ faults \in [disconnect : 0..DisconnectBound, restart : 0..RestartBound,
                   replace : 0..ReplaceBound, cancel : 0..CancelBound,
                   fail : [Tasks -> 0..FailBound]]

-----------------------------------------------------------------------------
(* Views of the state                                                      *)

(* The value try_load_prop would return for path k: a set row of the     *)
(* current major whose type matches the mapping type.                     *)
StoreView(k) ==
    LET r == store[k] IN
    IF /\ r # None /\ r.kind = "set"
       /\ r.major = iface.major /\ r.value.type = iface.type
    THEN r.value ELSE None

(* The value the broker holds for path k under the current major.         *)
ServerView(k) ==
    IF server[k].major = iface.major THEN server[k].value ELSE None

(* Frames of the property resynchronisation (spec 4.4 device_props, 4.7   *)
(* step 4): a purge listing the live paths, then one frame per value.     *)
Resync ==
    LET live == {k \in Keys : StoreView(k) # None}
        order == SetToSeq(live)
    IN  <<[kind |-> "purge", keys |-> live, major |-> iface.major]>>
        \o [i \in 1..Len(order) |->
               [kind |-> "set", key |-> order[i],
                value |-> StoreView(order[i]), major |-> iface.major]]

Key(t) == TaskKey[t]

Goto(t, pc) == task' = [task EXCEPT ![t].pc = pc]

(* A call of task t returns Ok: path k now holds v for the caller.        *)
Complete(t, v) ==
    /\ task' = [task EXCEPT ![t] = [pc |-> "idle", value |-> None]]
    /\ intent' = [intent EXCEPT ![Key(t)] = v]
    /\ opsDone' = [opsDone EXCEPT ![t] = @ + 1]

Init ==
    /\ iface = [major |-> InitMajor, type |-> InitType]
    /\ store \in [Keys -> Row \cup {None}]
    /\ status = "disconnected"
    /\ wire = <<>>
    /\ server \in [Keys -> [value : Value \cup {None}, major : {InitMajor}]]
    /\ task = [t \in Tasks |-> [pc |-> "idle", value |-> None]]
    /\ intent = [k \in Keys |-> StoreView(k)]
    /\ opsDone = [t \in Tasks |-> 0]
    /\ faults = [disconnect |-> 0, restart |-> 0, replace |-> 0, cancel |-> 0,
                 fail |-> [t \in Tasks |-> 0]]

-----------------------------------------------------------------------------
(* send_property                                                           *)

(* Takes the registry read lock, resolves the property mapping and        *)
(* validates the data: its type is the mapping type.                      *)
StartSend(t) ==
    /\ task[t].pc = "idle"
    /\ opsDone[t] + faults.fail[t] < OpsBound
    /\ \E d \in Data :
         task' = [task EXCEPT ![t] = [pc |-> "load",
                                      value |-> [data |-> d, type |-> iface.type]]]
    /\ UNCHANGED <<iface, store, status, wire, server, intent, opsDone, faults>>

(* Fault variant: the dedup compares the stored payload without the major *)
LoadIgnoringMajor(t) ==
    LET k == Key(t)  r == store[k] IN
    /\ task[t].pc = "load"
    /\ IF r # None /\ r.kind = "set" /\ r.value = task[t].value
         THEN Complete(t, task[t].value)
         ELSE /\ Goto(t, "store") /\ UNCHANGED <<intent, opsDone>>
    /\ UNCHANGED <<iface, store, status, wire, server, faults>>

(* A row written under another major than the interface's.               *)
StaleMajor(r) == r # None /\ r.major # iface.major

(* A value of the current major whose type is not the mapping type.       *)
TypeMismatch(r) ==
    r # None /\ r.major = iface.major /\ r.kind = "set" /\ r.value.type # iface.type

(* is_prop_stored / try_load_prop: load_prop returns the row's value only *)
(* under the current major (a row of another major is deleted by the      *)
(* store); a value of another type is deleted with a further await; an    *)
(* equal value ends the call with Ok and no emission.                     *)
Load(t) ==
    LET k == Key(t)  r == store[k] IN
    /\ task[t].pc = "load"
    /\ \/ /\ StaleMajor(r)
          /\ store' = [store EXCEPT ![k] = None]
          /\ Goto(t, "store")
          /\ UNCHANGED <<intent, opsDone>>
       \/ /\ TypeMismatch(r)
          /\ Goto(t, "delete_mismatch")
          /\ UNCHANGED <<store, intent, opsDone>>
       \/ /\ StoreView(k) = task[t].value
          /\ Complete(t, task[t].value)
          /\ UNCHANGED store
       \/ /\ ~StaleMajor(r) /\ ~TypeMismatch(r)
          /\ StoreView(k) # task[t].value
          /\ Goto(t, "store")
          /\ UNCHANGED <<store, intent, opsDone>>
    /\ UNCHANGED <<iface, status, wire, server, faults>>

(* try_load_prop: store.delete_prop after a stored type mismatch.         *)
DeleteMismatch(t) ==
    /\ task[t].pc = "delete_mismatch"
    /\ store' = [store EXCEPT ![Key(t)] = None]
    /\ Goto(t, "store")
    /\ UNCHANGED <<iface, status, wire, server, intent, opsDone, faults>>

(* store.store_prop of the new value with the interface major.            *)
StoreProp(t) ==
    /\ task[t].pc = "store"
    /\ store' = [store EXCEPT ![Key(t)] =
                   [kind |-> "set", value |-> task[t].value, major |-> iface.major]]
    /\ Goto(t, "check")
    /\ UNCHANGED <<iface, status, wire, server, intent, opsDone, faults>>

(* status.is_connected(): disconnected ends the call with Ok, the value   *)
(* waiting in the store for the resync.                                   *)
CheckConnected(t) ==
    /\ task[t].pc = "check"
    /\ IF status = "connected"
         THEN Goto(t, "send") /\ UNCHANGED <<intent, opsDone>>
         ELSE Complete(t, task[t].value)
    /\ UNCHANGED <<iface, store, status, wire, server, faults>>

(* Fault variant: the frame is dropped by the sender but Ok is returned.  *)
SendPropLost(t) ==
    /\ task[t].pc = "send"
    /\ Complete(t, task[t].value)
    /\ UNCHANGED <<iface, store, status, wire, server, faults>>

(* sender.send_property: the frame is queued on the connection.           *)
SendProp(t) ==
    /\ task[t].pc = "send"
    /\ wire' = Append(wire, [kind |-> "set", key |-> Key(t),
                             value |-> task[t].value, major |-> iface.major])
    /\ Complete(t, task[t].value)
    /\ UNCHANGED <<iface, store, status, server, faults>>

-----------------------------------------------------------------------------
(* unset_prop                                                              *)

(* Takes the registry read lock and validates the unset.                  *)
StartUnset(t) ==
    /\ task[t].pc = "idle"
    /\ opsDone[t] + faults.fail[t] < OpsBound
    /\ task' = [task EXCEPT ![t] = [pc |-> "unset", value |-> None]]
    /\ UNCHANGED <<iface, store, status, wire, server, intent, opsDone, faults>>

(* Fault variant: the marker is written over the row, keeping its value. *)
UnsetStoreKeepValue(t) ==
    /\ task[t].pc = "unset"
    /\ store' = [store EXCEPT ![Key(t)] =
                   [kind |-> "unset", value |-> IF @ = None THEN None ELSE @.value,
                    major |-> iface.major]]
    /\ Goto(t, "ucheck")
    /\ UNCHANGED <<iface, status, wire, server, intent, opsDone, faults>>

(* store.unset_prop: the row becomes the unset marker.                    *)
UnsetStore(t) ==
    /\ task[t].pc = "unset"
    /\ store' = [store EXCEPT ![Key(t)] =
                   [kind |-> "unset", value |-> None, major |-> iface.major]]
    /\ Goto(t, "ucheck")
    /\ UNCHANGED <<iface, status, wire, server, intent, opsDone, faults>>

(* status.is_connected(): disconnected ends the call, the marker stays.   *)
UnsetCheck(t) ==
    /\ task[t].pc = "ucheck"
    /\ IF status = "connected"
         THEN Goto(t, "usend") /\ UNCHANGED <<intent, opsDone>>
         ELSE Complete(t, None)
    /\ UNCHANGED <<iface, store, status, wire, server, faults>>

(* sender.unset: the unset frame is queued on the connection.             *)
UnsetSend(t) ==
    /\ task[t].pc = "usend"
    /\ wire' = Append(wire, [kind |-> "unset", key |-> Key(t),
                             value |-> None, major |-> iface.major])
    /\ Goto(t, "udelete")
    /\ UNCHANGED <<iface, store, status, server, intent, opsDone, faults>>

(* store.delete_prop right after the emission (no acknowledgement wait).  *)
UnsetDelete(t) ==
    /\ task[t].pc = "udelete"
    /\ store' = [store EXCEPT ![Key(t)] = None]
    /\ Complete(t, None)
    /\ UNCHANGED <<iface, status, wire, server, faults>>

-----------------------------------------------------------------------------
(* Connection, broker, registry and crashes (spec 4.4, 4.6, 4.7)           *)

(* The broker applies the oldest frame.                                   *)
Deliver ==
    /\ status = "connected"
    /\ wire # <<>>
    /\ LET m == Head(wire) IN
         server' =
           IF m.kind = "purge"
             THEN [k \in Keys |-> IF k \in m.keys THEN server[k]
                                  ELSE [value |-> None, major |-> m.major]]
             ELSE [server EXCEPT ![m.key] = [value |-> m.value, major |-> m.major]]
    /\ wire' = Tail(wire)
    /\ UNCHANGED <<iface, store, status, task, intent, opsDone, faults>>

(* The connection drops; frames not yet acknowledged are lost or kept by  *)
(* the transport session.                                                 *)
Disconnect ==
    /\ status = "connected"
    /\ faults.disconnect < DisconnectBound
    /\ status' = "disconnected"
    /\ wire' \in {wire, <<>>}
    /\ faults' = [faults EXCEPT !.disconnect = @ + 1]
    /\ UNCHANGED <<iface, store, server, task, intent, opsDone>>

(* On Connected the synchroniser runs before queued publications drain:  *)
(* the device properties are resynchronised.                              *)
Reconnect ==
    /\ status = "disconnected"
    /\ status' = "connected"
    /\ wire' = wire \o Resync
    /\ UNCHANGED <<iface, store, server, task, intent, opsDone, faults>>

(* add_interface with a new major: needs the registry write lock, so no   *)
(* call is in progress; the full replacement drops the rows bound to the  *)
(* old major (spec 3, Lifecycles), the rows the store keeps for the new   *)
(* major are its values, and the synchroniser resyncs if connected.       *)
ReplaceInterface ==
    /\ \A t \in Tasks : task[t].pc = "idle"
    /\ faults.replace < ReplaceBound
    /\ \E m \in Majors \ {iface.major}, ty \in MappingTypes :
         /\ iface' = [major |-> m, type |-> ty]
         /\ store' = [k \in Keys |-> IF store[k] # None /\ store[k].major = iface.major
                                    THEN None ELSE store[k]]
         /\ wire' = IF status = "connected" THEN wire \o Resync' ELSE wire
    /\ intent' = [k \in Keys |-> StoreView(k)']
    /\ faults' = [faults EXCEPT !.replace = @ + 1]
    /\ UNCHANGED <<status, server, task, opsDone>>

(* The device process crashes and restarts: calls in progress are lost,   *)
(* the store persists, the connection is re-established from scratch.     *)
Restart ==
    /\ faults.restart < RestartBound
    /\ task' = [t \in Tasks |-> [pc |-> "idle", value |-> None]]
    /\ status' = "disconnected"
    /\ wire' = <<>>
    /\ intent' = [k \in Keys |-> StoreView(k)]
    /\ faults' = [faults EXCEPT !.restart = @ + 1]
    /\ UNCHANGED <<iface, store, server, opsDone>>

(* The caller drops the future of its call (tokio::time::timeout,         *)
(* select!) while it is suspended on an await: on load_prop, delete_prop, *)
(* store_prop, unset_prop or on the sender before the frame is accepted.  *)
(* Completed store side effects stay; once they are done the caller       *)
(* observes the call as completed (spec.md section 5, Cancellation).      *)
Cancel(t) ==
    /\ task[t].pc \in {"load", "delete_mismatch", "store", "send",
                       "unset", "usend", "udelete"}
    /\ faults.cancel < CancelBound
    /\ task' = [task EXCEPT ![t] = [pc |-> "idle", value |-> None]]
    /\ intent' = CASE task[t].pc = "send" -> [intent EXCEPT ![Key(t)] = task[t].value]
                   [] task[t].pc \in {"usend", "udelete"} -> [intent EXCEPT ![Key(t)] = None]
                   [] OTHER -> intent
    /\ opsDone' = [opsDone EXCEPT ![t] = @ + 1]
    /\ faults' = [faults EXCEPT !.cancel = @ + 1]
    /\ UNCHANGED <<iface, store, status, wire, server>>

(* An operation task t awaits returns Err, which the `?` propagates: the *)
(* failed operation has no effect and the earlier ones stay.  The caller  *)
(* gets Err, so all it can rely on for the path is what a load returns.  *)
Fail(t) ==
    /\ faults.fail[t] < FailBound
    /\ task' = [task EXCEPT ![t] = [pc |-> "idle", value |-> None]]
    /\ intent' = [intent EXCEPT ![Key(t)] = StoreView(Key(t))]
    /\ faults' = [faults EXCEPT !.fail[t] = @ + 1]
    /\ UNCHANGED <<iface, store, status, wire, server, opsDone>>

(* A store operation fails (spec 7, "Store I/O failure: propagate"):      *)
(* load_prop, the mismatch delete_prop or store_prop of send_property,    *)
(* store.unset_prop, or the delete_prop after the unset frame was queued. *)
StoreFail(t) ==
    /\ task[t].pc \in {"load", "delete_mismatch", "store", "unset", "udelete"}
    /\ Fail(t)

(* The sender fails: sender.send_property after the value was stored, or  *)
(* sender.unset after the marker was written.                             *)
SenderFail(t) ==
    /\ task[t].pc \in {"send", "usend"}
    /\ Fail(t)

-----------------------------------------------------------------------------

TaskStep(t) ==
    \/ Load(t) \/ DeleteMismatch(t) \/ StoreProp(t) \/ CheckConnected(t)
    \/ SendProp(t) \/ UnsetStore(t) \/ UnsetCheck(t) \/ UnsetSend(t)
    \/ UnsetDelete(t)

Next ==
    \/ \E t \in Tasks : StartSend(t) \/ StartUnset(t) \/ TaskStep(t) \/ StoreFail(t)
    \/ Deliver \/ Disconnect \/ Reconnect \/ ReplaceInterface \/ Restart

(* Tokio runs every spawned task that can progress, the connection loop   *)
(* keeps polling the broker and reconnecting; the user is not obliged to  *)
(* make calls and faults are not obliged to happen.                       *)
Fairness ==
    /\ \A t \in Tasks : WF_vars(TaskStep(t))
    /\ WF_vars(Deliver)
    /\ WF_vars(Reconnect)

Spec == Init /\ [][Next]_vars /\ Fairness

(* The same system with callers that may drop their calls and a sender   *)
(* that may return Err.                                                   *)
NextAbort == Next \/ \E t \in Tasks : Cancel(t) \/ SenderFail(t)

SpecAbort == Init /\ [][NextAbort]_vars /\ Fairness

-----------------------------------------------------------------------------
(* Properties                                                              *)

Quiescent ==
    /\ status = "connected"
    /\ wire = <<>>
    /\ \A t \in Tasks : task[t].pc = "idle"

(* Whenever the device is connected, every frame has been applied and no  *)
(* send_property / unset_prop call is in progress, the broker and the     *)
(* store both hold, for every path, the value of the last call that       *)
(* returned Ok.  Broken by dedup against a stale row, a value stored but  *)
(* never emitted, or frames of one path applied out of order.             *)
PropertyConsistency ==
    Quiescent =>
        \A k \in Keys : ServerView(k) = intent[k] /\ StoreView(k) = intent[k]

(* Whenever the device is connected, every frame has been applied and no  *)
(* call is in progress, the broker holds exactly what the property store  *)
(* holds for every path.  is_prop_stored trusts the store to stand for    *)
(* what the broker has: a disagreement here makes the dedup suppress a    *)
(* value the broker never received.                                        *)
StoreMatchesBroker ==
    Quiescent => \A k \in Keys : ServerView(k) = StoreView(k)

(* Eventually the broker and the store agree for good with the last      *)
(* completed call on every path: losses of the connection, crashes and   *)
(* interface replacements are repaired by the resync on reconnect.        *)
Converges ==
    <>[](\A k \in Keys : ServerView(k) = intent[k] /\ StoreView(k) = intent[k])

(* The property store seen as the register of PropertyRegister: a call is *)
(* in progress from StartSend/StartUnset until it returns, and it has     *)
(* taken effect once its row is written.                                  *)
CallView(t) ==
    LET pc == task[t].pc IN
    IF pc = "idle" THEN [state |-> "idle", value |-> None]
    ELSE [state |-> IF pc \in {"check", "send", "ucheck", "usend", "udelete"}
                    THEN "done" ELSE "pending",
          value |-> task[t].value]

Register == INSTANCE PropertyRegister
    WITH Values <- Value, reg <- [k \in Keys |-> StoreView(k)],
         call <- [t \in Tasks |-> CallView(t)], oks <- opsDone

(* Every send_property and unset_prop call is linearizable on the         *)
(* property store: the value try_load_prop would return changes only by   *)
(* the write of a call in progress on that path, taking effect once,      *)
(* before the call returns Ok.  The early return of the dedup counts as  *)
(* taking effect with no change.                                          *)
RegisterRefinement == Register!Spec

=============================================================================
