---------------------------- MODULE Introspection ---------------------------
(***************************************************************************)
(* Dynamic introspection of the Astarte device SDK: the DynamicIntrospection *)
(* calls of src/src/introspection.rs (add_interface, extend_interfaces,    *)
(* remove_interface, remove_interfaces) sent by client tasks to the        *)
(* connection task, which handles one request at a time and issues the     *)
(* transport calls the tests of that file fix: a batched subscribe of the  *)
(* added server-owned interfaces, then the introspection publish; on       *)
(* removal the introspection publish, then one unsubscribe per removed     *)
(* server-owned interface.  Device-owned data publishes of other client    *)
(* tasks go to the same transport queue under the registry read lock; the  *)
(* synchroniser holds the write lock from the registry mutation to its     *)
(* last transport call (spec.md section 4.7).                              *)
(*                                                                         *)
(* The transport is the MQTT client's ordered request queue and the broker *)
(* applies requests in that order.  The connection may drop; the MQTT     *)
(* session is then kept by the broker or lost with its subscriptions, and  *)
(* on Connected the synchroniser diffs the registry with the last sent     *)
(* introspection (spec.md section 4.7).                                    *)
(***************************************************************************)
EXTENDS Integers, Sequences, FiniteSets

LOCAL INSTANCE SequencesExt

CONSTANTS
    Clients,     \* client tasks holding a DeviceClient clone
    Ifaces,      \* interface names
    Owner,       \* Owner[i] \in {"device", "server"}
    OpsBound,    \* introspection calls per client
    DataBound,   \* data publishes per client
    DropBound,   \* connection losses
    Sessions     \* what a reconnect finds: {"kept"} or {"kept", "lost"}

ASSUME Sessions \subseteq {"kept", "lost"}

ASSUME Owner \in [Ifaces -> {"device", "server"}]

ServerOwned(S) == {i \in S : Owner[i] = "server"}
DeviceOwned == Ifaces \ ServerOwned(Ifaces)

Ops == {"add", "remove"}

(* A request on the client channel: extend_interfaces / remove_interfaces *)
(* (add_interface and remove_interface are the one-element case).         *)
Request == [client : Clients, op : Ops, names : SUBSET Ifaces]

(* Requests of the MQTT client: subscribe_many, publish on realm/device_id *)
(* (the introspection), unsubscribe, and a data publish on an interface.  *)
Frame == [kind : {"subscribe"}, names : SUBSET ServerOwned(Ifaces)]
         \cup [kind : {"introspection"}, names : SUBSET Ifaces]
         \cup [kind : {"unsubscribe"}, name : ServerOwned(Ifaces)]
         \cup [kind : {"data"}, name : DeviceOwned]

HPC == {"recv", "subscribe", "publish", "unsubscribe"}

VARIABLES
    registry,  \* interfaces of the device introspection
    chan,      \* client -> connection task channel
    client,    \* per client: waiting for a reply or not, calls and data done
    handler,   \* the connection task: step, request, changed interfaces
    locked,    \* the synchroniser holds the registry write lock
    wire,      \* MQTT client request queue, in order
    broker,    \* broker side: advertised introspection and subscriptions
    conn,      \* connection status and losses so far
    lastSent   \* the registry of the last introspection queued

vars == <<registry, chan, client, handler, locked, wire, broker, conn, lastSent>>

TypeOK ==
    /\ registry \subseteq Ifaces
    /\ chan \in Seq(Request)
    /\ client \in [Clients -> [waiting : BOOLEAN, ops : 0..OpsBound,
                               data : 0..DataBound, reply : SUBSET Ifaces]]
    /\ handler \in [pc : HPC, op : Ops \cup {"none"}, client : Clients \cup {"none"},
                    changed : SUBSET Ifaces, pending : SUBSET ServerOwned(Ifaces)]
    /\ locked \in BOOLEAN
    /\ wire \in Seq(Frame)
    /\ broker \in [intro : SUBSET Ifaces, subs : SUBSET Ifaces]
    /\ conn \in [status : {"connected", "disconnected"}, drops : 0..DropBound]
    /\ lastSent \subseteq Ifaces

IdleHandler == [pc |-> "recv", op |-> "none", client |-> "none",
                changed |-> {}, pending |-> {}]

(* The device starts with some interfaces, advertised and subscribed by   *)
(* the synchronisation on connect.                                        *)
Init ==
    /\ registry \in SUBSET Ifaces
    /\ chan = <<>>
    /\ client = [c \in Clients |-> [waiting |-> FALSE, ops |-> 0, data |-> 0,
                                    reply |-> {}]]
    /\ handler = IdleHandler
    /\ locked = FALSE
    /\ wire = <<>>
    /\ broker = [intro |-> registry, subs |-> ServerOwned(registry)]
    /\ conn = [status |-> "connected", drops |-> 0]
    /\ lastSent = registry

-----------------------------------------------------------------------------
(* Client side: the DynamicIntrospection calls                             *)

(* extend_interfaces / add_interface*: the request is sent on the channel *)
(* and the caller awaits the reply.                                       *)
CallIntrospection(c) ==
    /\ ~client[c].waiting
    /\ client[c].ops < OpsBound
    /\ \E op \in Ops, S \in SUBSET Ifaces :
         chan' = Append(chan, [client |-> c, op |-> op, names |-> S])
    /\ client' = [client EXCEPT ![c].waiting = TRUE, ![c].ops = @ + 1]
    /\ UNCHANGED <<registry, handler, locked, wire, broker, conn, lastSent>>

(* A publish on a device-owned interface: the registry read lock is held  *)
(* from the lookup to the transport call, so it waits for the writer.     *)
PublishData(c) ==
    /\ ~client[c].waiting
    /\ client[c].data < DataBound
    /\ ~locked
    /\ \E i \in registry \cap DeviceOwned :
         wire' = Append(wire, [kind |-> "data", name |-> i])
    /\ client' = [client EXCEPT ![c].data = @ + 1]
    /\ UNCHANGED <<registry, chan, handler, locked, broker, conn, lastSent>>

-----------------------------------------------------------------------------
(* Connection task: handle_client_msg, one request at a time               *)

(* The reply ends the caller's await; the write lock is released.         *)
Reply(names) ==
    /\ client' = [client EXCEPT ![handler.client].waiting = FALSE,
                                ![handler.client].reply = names]
    /\ handler' = IdleHandler
    /\ locked' = FALSE

(* Every interface to add is present already: an empty reply, no        *)
(* transport call.                                                         *)
RecvAddNothing ==
    /\ handler.pc = "recv" /\ ~locked
    /\ chan # <<>>
    /\ Head(chan).op = "add" /\ Head(chan).names \subseteq registry
    /\ client' = [client EXCEPT ![Head(chan).client].waiting = FALSE,
                                ![Head(chan).client].reply = {}]
    /\ chan' = Tail(chan)
    /\ UNCHANGED <<registry, handler, locked, wire, broker, conn, lastSent>>

(* No interface to remove is present: an empty reply (false), no        *)
(* transport call.                                                         *)
RecvRemoveNothing ==
    /\ handler.pc = "recv" /\ ~locked
    /\ chan # <<>>
    /\ Head(chan).op = "remove" /\ Head(chan).names \cap registry = {}
    /\ client' = [client EXCEPT ![Head(chan).client].waiting = FALSE,
                                ![Head(chan).client].reply = {}]
    /\ chan' = Tail(chan)
    /\ UNCHANGED <<registry, handler, locked, wire, broker, conn, lastSent>>

(* Fault variant: the write lock is released before the transport calls. *)
RecvAddUnlocked ==
    /\ handler.pc = "recv" /\ ~locked
    /\ chan # <<>>
    /\ LET r == Head(chan)  added == r.names \ registry IN
         /\ r.op = "add" /\ added # {}
         /\ registry' = registry \cup added
         /\ handler' = [pc |-> IF ServerOwned(added) # {} THEN "subscribe"
                               ELSE "publish",
                        op |-> "add", client |-> r.client,
                        changed |-> added, pending |-> {}]
    /\ UNCHANGED locked
    /\ chan' = Tail(chan)
    /\ UNCHANGED <<client, wire, broker, conn, lastSent>>

(* Fault variant: dynamically added interfaces are never subscribed.     *)
RecvAddNoSubscribe ==
    /\ handler.pc = "recv" /\ ~locked
    /\ chan # <<>>
    /\ LET r == Head(chan)  added == r.names \ registry IN
         /\ r.op = "add" /\ added # {}
         /\ registry' = registry \cup added
         /\ handler' = [pc |-> "publish", op |-> "add", client |-> r.client,
                        changed |-> added, pending |-> {}]
    /\ locked' = TRUE
    /\ chan' = Tail(chan)
    /\ UNCHANGED <<client, wire, broker, conn, lastSent>>

(* Adding: take the write lock, add the new interfaces, subscribe if any  *)
(* of them is server-owned.                                               *)
RecvAdd ==
    /\ handler.pc = "recv" /\ ~locked
    /\ chan # <<>>
    /\ LET r == Head(chan)  added == r.names \ registry IN
         /\ r.op = "add" /\ added # {}
         /\ registry' = registry \cup added
         /\ handler' = [pc |-> IF ServerOwned(added) # {} THEN "subscribe"
                               ELSE "publish",
                        op |-> "add", client |-> r.client,
                        changed |-> added, pending |-> {}]
    /\ locked' = TRUE
    /\ chan' = Tail(chan)
    /\ UNCHANGED <<client, wire, broker, conn, lastSent>>

(* Fault variant: every removed interface is unsubscribed, device-owned *)
(* ones included.                                                          *)
RecvRemovePendingAll ==
    /\ handler.pc = "recv" /\ ~locked
    /\ chan # <<>>
    /\ LET r == Head(chan)  removed == r.names \cap registry IN
         /\ r.op = "remove" /\ removed # {}
         /\ registry' = registry \ removed
         /\ handler' = [pc |-> "publish", op |-> "remove", client |-> r.client,
                        changed |-> removed, pending |-> removed]
    /\ locked' = TRUE
    /\ chan' = Tail(chan)
    /\ UNCHANGED <<client, wire, broker, conn, lastSent>>

(* Removing: take the write lock and drop the present interfaces.         *)
RecvRemove ==
    /\ handler.pc = "recv" /\ ~locked
    /\ chan # <<>>
    /\ LET r == Head(chan)  removed == r.names \cap registry IN
         /\ r.op = "remove" /\ removed # {}
         /\ registry' = registry \ removed
         /\ handler' = [pc |-> "publish", op |-> "remove", client |-> r.client,
                        changed |-> removed, pending |-> ServerOwned(removed)]
    /\ locked' = TRUE
    /\ chan' = Tail(chan)
    /\ UNCHANGED <<client, wire, broker, conn, lastSent>>

(* subscribe_many on the added server-owned interfaces, in one call.      *)
Subscribe ==
    /\ handler.pc = "subscribe"
    /\ wire' = Append(wire, [kind |-> "subscribe",
                             names |-> ServerOwned(handler.changed)])
    /\ handler' = [handler EXCEPT !.pc = "publish"]
    /\ UNCHANGED <<registry, chan, client, locked, broker, conn, lastSent>>

(* The introspection of the registry is published on realm/device_id;    *)
(* an add then replies, a removal goes on to unsubscribe.                 *)
PublishIntrospection ==
    /\ handler.pc = "publish"
    /\ wire' = Append(wire, [kind |-> "introspection", names |-> registry])
    /\ lastSent' = registry
    /\ IF handler.op = "remove" /\ handler.pending # {}
         THEN /\ handler' = [handler EXCEPT !.pc = "unsubscribe"]
              /\ UNCHANGED <<client, locked>>
         ELSE Reply(handler.changed)
    /\ UNCHANGED <<registry, chan, broker, conn>>

(* Fault variant: the call returns after the first unsubscribe.         *)
UnsubscribeFirstOnly ==
    /\ handler.pc = "unsubscribe"
    /\ \E i \in handler.pending :
         /\ wire' = Append(wire, [kind |-> "unsubscribe", name |-> i])
         /\ Reply(handler.changed)
    /\ UNCHANGED <<registry, chan, broker, conn, lastSent>>

(* One unsubscribe per removed server-owned interface.                    *)
Unsubscribe ==
    /\ handler.pc = "unsubscribe"
    /\ \E i \in handler.pending :
         /\ wire' = Append(wire, [kind |-> "unsubscribe", name |-> i])
         /\ IF handler.pending = {i}
              THEN Reply(handler.changed)
              ELSE /\ handler' = [handler EXCEPT !.pending = @ \ {i}]
                   /\ UNCHANGED <<client, locked>>
    /\ UNCHANGED <<registry, chan, broker, conn, lastSent>>

-----------------------------------------------------------------------------
(* The broker applies the oldest request of the MQTT client.              *)
Deliver ==
    /\ conn.status = "connected"
    /\ wire # <<>>
    /\ LET f == Head(wire) IN
         broker' = CASE f.kind = "subscribe" -> [broker EXCEPT !.subs = @ \cup f.names]
                     [] f.kind = "unsubscribe" -> [broker EXCEPT !.subs = @ \ {f.name}]
                     [] f.kind = "introspection" -> [broker EXCEPT !.intro = f.names]
                     [] f.kind = "data" -> broker
    /\ wire' = Tail(wire)
    /\ UNCHANGED <<registry, chan, client, handler, locked, conn, lastSent>>

(* The connection drops.  A kept session keeps the subscriptions and the  *)
(* requests not yet acknowledged; a lost one drops the subscriptions and  *)
(* may drop the queued requests.                                          *)
Disconnect ==
    /\ conn.status = "connected"
    /\ conn.drops < DropBound
    /\ conn' = [status |-> "disconnected", drops |-> conn.drops + 1]
    /\ \E s \in Sessions :
         IF s = "kept" THEN UNCHANGED <<wire, broker>>
         ELSE /\ broker' = [broker EXCEPT !.subs = {}]
              /\ wire' \in {wire, <<>>}
    /\ UNCHANGED <<registry, chan, client, handler, locked, lastSent>>

(* On Connected the connection task, between two requests, runs the       *)
(* synchroniser: subscribe the server-owned interfaces added since the    *)
(* last sent introspection, unsubscribe the removed ones, publish the     *)
(* introspection of the registry.                                         *)
ConnectedSync ==
    /\ conn.status = "disconnected"
    /\ handler.pc = "recv"
    /\ LET added == ServerOwned(registry \ lastSent)
           removed == ServerOwned(lastSent \ registry)
           subs == IF added = {} THEN <<>>
                   ELSE <<[kind |-> "subscribe", names |-> added]>>
           gone == SetToSeq(removed)
           unsubs == [n \in 1..Len(gone) |->
                        [kind |-> "unsubscribe", name |-> gone[n]]]
       IN  wire' = wire \o subs \o unsubs
                   \o <<[kind |-> "introspection", names |-> registry]>>
    /\ lastSent' = registry
    /\ conn' = [conn EXCEPT !.status = "connected"]
    /\ UNCHANGED <<registry, chan, client, handler, locked, broker>>

Handle ==
    \/ RecvAddNothing \/ RecvRemoveNothing \/ RecvAdd \/ RecvRemove
    \/ Subscribe \/ PublishIntrospection \/ Unsubscribe

Next ==
    \/ \E c \in Clients : CallIntrospection(c) \/ PublishData(c)
    \/ Handle
    \/ Deliver
    \/ Disconnect
    \/ ConnectedSync

(* The connection task loops on the channel and the MQTT event loop keeps *)
(* draining its queue; clients are not obliged to call.                   *)
Spec == Init /\ [][Next]_vars /\ WF_vars(Handle) /\ WF_vars(Deliver)
        /\ WF_vars(ConnectedSync)

-----------------------------------------------------------------------------
(* Properties                                                              *)

(* The introspection the broker holds when the n-th queued request        *)
(* arrives: that of the last introspection publish queued before it.      *)
IntroBefore(n) ==
    LET idx == {j \in 1..(n - 1) : wire[j].kind = "introspection"} IN
    IF idx = {} THEN broker.intro
    ELSE wire[CHOOSE j \in idx : \A j2 \in idx : j2 <= j].names

(* Any publish on an interface reaches the broker after the introspection *)
(* advertising it (spec 4.6 ordering, 5): a data publish of another task   *)
(* must not slip between the registry update of add_interface and its     *)
(* introspection publish.                                                  *)
DataAfterIntrospection ==
    \A n \in 1..Len(wire) :
        wire[n].kind = "data" => wire[n].name \in IntroBefore(n)

Broker == INSTANCE IntrospectionBroker WITH adv <- broker.intro, subs <- broker.subs

(* The broker's view changes only as IntrospectionBroker allows: a        *)
(* server-owned interface is advertised only while subscribed (adding     *)
(* subscribes before publishing the introspection) and unsubscribed only  *)
(* once no longer advertised (removing publishes first), across requests  *)
(* of concurrent callers and reconnects.                                  *)
BrokerRefinement == Broker!Spec

(* Eventually the broker's introspection and subscriptions stay equal to  *)
(* the registry and its server-owned interfaces.                          *)
Converges ==
    <>[](broker.intro = registry /\ broker.subs = ServerOwned(registry))

=============================================================================
