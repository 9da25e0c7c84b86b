# TLA+ models of the Astarte device SDK (Rust)

This directory holds TLA+ models of the parts of `astarte-device-sdk-rust`
whose source is under `src/`, with TLC configurations that check them.
`PROJECT.json` lists the components, the runs, the mutants that show each
property can fail, and the source lines each definition models.

## 1. Inventory of the system

| Component | Source | State | Operations | Interacts with |
|---|---|---|---|---|
| Property state engine | `src/src/client/property.rs` | property store rows, connection status, interface registry (read) | `send_property`, `is_prop_stored`, `try_load_prop`, `unset_prop` | store, sender (connection), registry |
| Property store contract | not under `src/` (spec 4.4) | rows `(interface, path) -> (value, major)` | `load_prop` (drops rows of another major), `store_prop`, `unset_prop`, `delete_prop`, `device_props` | property engine, resync |
| Connection and resync | not under `src/` (spec 4.6, 4.7) | status, frames in flight | connect, disconnect, purge + replay of device properties | broker, store |
| Interface registry | not under `src/` (spec 4.1) | interfaces by name, behind an `RwLock` | `add_interface` with a new major | property engine (read lock), synchroniser |
| Mapping schema decoding | `astarte-interfaces/src/schema.rs`, `mapping/datastream/{individual,object}.rs`, `mapping/mod.rs` | none (pure) | `expiry_as_duration`, `retention_with_expiry`, `database_retention_ttl_as_duration`, `database_retention_with_ttl`, `TryFrom<&Mapping>`, `From<&DatastreamIndividualMapping> for Mapping` | interface validation |
| Introspection synchroniser | `src/src/introspection.rs` (trait and tests only) | interface set, subscriptions, published introspection | `add_interface`, `extend_interfaces`, `remove_interface(s)` | registry, connection |
| UUID conversions | `src/src/types/uuid.rs` | none (pure) | `BinUuid`/`StrUuid` `From`, `TryFrom`, `PartialEq` with `AstarteData` | data model |
| Interface-add errors | `src/src/introspection.rs` (`AddInterfaceError`) | none (pure) | `add_path_context` | interface loading from files |
| E2E fixtures, example | `e2e-test/src/mock_data_property.rs`, `examples/registration/main.rs` | files, network | CLI and test data | none of the above |

Hard behaviours the code is exposed to:

* **Several client tasks run concurrently.** Each holds a clone of the client and shares the store and the connection. `send_property` has four `.await`s: load, optional delete, store, and send. `unset_prop` has three: unset, send, and delete. Nothing serialises two calls on one path, because the registry lock is taken for read.
* **The connection can drop at any time.** This includes the window between `is_connected()` and the send. On reconnect, the device properties are resynchronised with a purge followed by a replay.
* **A crash can happen between `store_prop` and the emission.** The process restarts with the persisted store.
* **Any store or sender `.await` can return `Err`**, after the earlier ones took effect: a value can be stored without being sent, or an unset sent with its marker left behind.
* **A caller can drop a call's future** (a timeout, a `select!`) at any `.await`; what was stored stays stored.
* **The MQTT session can be kept or lost across a reconnect**, and with it the broker's subscriptions.
* **The interface can be replaced by a new major.** The replacement drops the rows of the old major (spec 3, Lifecycles). A store opened after a restart may still hold rows of another major; `load_prop` returns only rows of the expected major and drops a stale one when it is loaded.
* **The decoding has numeric edges.** Expiry `0` means "never". A negative expiry is an error, but only under volatile or stored retention. The TTL must be at least 60 s, and is only checked under `use_ttl`.

Properties per component:

* **Property engine.**
  * When quiescent, the broker and the store hold the value of the last completed call.
  * The broker agrees with the store, which is what the dedup trusts (a violation run for two tasks).
  * Both eventually converge.
  * Every call is linearizable on the store (the abstract `PropertyRegister`). This holds for one task. For two tasks it is a violation run: the type-mismatch delete, or the unset's trailing delete, loses a concurrent set.
* **Decoding.**
  * A mapping is accepted exactly when it obeys the schema rules, and the expiry and TTL are carried through.
  * Every error names its cause.
  * The JSON written back from a decoded mapping decodes to the same mapping.
  * Serializing a mapping elides its defaults without changing what it decodes to.
  * Two claims are checked as violations: the spec says a negative expiry is rejected, also under discard retention; the doc comment of `Mapping::expiry` says a value `<= 0` never expires, also under volatile or stored retention.
* **Synchroniser.**
  * The broker's view implements the abstract `IntrospectionBroker`: a server-owned interface is subscribed before it is published in the introspection, and unpublished before it is unsubscribed.
  * No data publish precedes the introspection that advertises its interface.
  * The broker converges to the registry, also across a connection loss that keeps the session (a lost session is a violation run).
* **UUIDs.** Equality with a UUID agrees with `TryFrom`; equality is not transitive (a violation run).
* **Interface-add errors.** A chain of path contexts leaves the last path, the source error and the I/O-ness.

## 2. Modules

| Module | Models | Kind |
|---|---|---|
| `DeviceProperty` | property engine + store contract + connection/resync + replacement + crash | concurrent state machine |
| `PropertyRegister` | what `send_property`/`unset_prop` promise: one atomic register per path, a call taking effect between invocation and return | abstract spec |
| `MCDeviceProperty` | instantiation: model values, `TaskKey` assignments, symmetry of payloads (race run only) | MC module |
| `MappingDecode` | mapping decoding operators; a two-step machine decoding one JSON as individual and as object | pure operators |
| `MCMappingDecode` | the i64 values tried (`-1, 0, 1, 59, 60`) | MC module |
| `Introspection` | `DynamicIntrospection` requests handled by the connection task, transport calls, racing data publishes | concurrent state machine |
| `IntrospectionBroker` | what the synchroniser promises the broker: advertised only while subscribed | abstract spec |
| `MCIntrospection` | two clients, one device-owned and two server-owned interfaces | MC module |
| `Uuid` | `BinUuid`/`StrUuid` conversions; a two-step machine converting one value both ways | pure operators |
| `MCUuid` | three UUIDs, two other `AstarteData` variants | MC module |
| `AddInterfaceError` | `AddInterfaceError` and `add_path_context`; a machine adding contexts to one error | pure operator |
| `MCAddInterfaceError` | three paths, one source error of each type | MC module |

### DeviceProperty

* **State.**
  * `iface` is the registry entry: major and mapping type.
  * `store` maps a path to a row, which is set or unset and carries a major. `Init` lets a row carry any major, as a store persisted under an earlier interface can.
  * `status`, and `wire` (the frames queued on the connection, in order).
  * `server` is the broker's view.
  * `task` holds each task's program counter and the value of its call in progress.
  * `intent` is a history variable: the value of the last call that returned `Ok`, per path.
  * `opsDone` and `faults` are bound counters.
* **Actions.** Each `.await` of `property.rs` is one step.
  * `send_property` is `StartSend` (lock, mapping, validation), then `Load` (`is_prop_stored`/`try_load_prop`), then `DeleteMismatch`, then `StoreProp`, then `CheckConnected`, then `SendProp`.
  * `unset_prop` is `StartUnset`, then `UnsetStore`, then `UnsetCheck`, then `UnsetSend`, then `UnsetDelete`.
  * The environment: `Deliver` (the broker applies the oldest frame), `Disconnect` (frames kept or lost), `Reconnect` (appends the resync: a purge of paths not set, then the set values), `ReplaceInterface` (needs every task idle, because it takes the write lock; drops the rows of the old major, spec 3 Lifecycles, and resyncs if connected), and `Restart`.
  * `Cancel` drops a task's call at an `.await` after it has started: what the store already did stays. The caller counts a call dropped at the sender or at the unset's delete as completed (spec 5, Cancellation). `Cancel` is only in `NextAbort`/`SpecAbort`, used by the cancellation run.
  * The error returns: every store and sender `.await` of `property.rs` ends in `?`. `Fail` is their common effect: the failed operation does nothing, the earlier ones stay, and the task goes idle with `Err`. After an `Err` the caller can only rely on what a load returns, so `intent` for the path becomes `StoreView`. A failed call counts against `OpsBound` through `faults.fail` but not in `opsDone`, which counts `Ok` returns only.
    * `StoreFail` is a failing `load_prop`, mismatch `delete_prop`, `store_prop`, `unset_prop`, or the `delete_prop` after the unset frame (spec 7, "Store I/O failure: propagate"). It is in `Next`.
    * `SenderFail` is a failing `sender.send_property` or `sender.unset`, after the store was written. It is only in `NextAbort`, because it is a violation of the same kind as `Cancel` at the sender.
* **Refinement.** `Register == INSTANCE PropertyRegister` maps:
  * each path's register to `StoreView`, the value the store holds for the current major, or `None`;
  * each task's call to `CallView`: idle, pending until the step that writes the store, and done from the steps after it (`CheckConnected`, `SendProp`, and the unset's check, send and delete);
  * the abstract count of `Ok` returns to `opsDone`.
  * `ReplaceInterface` to the abstract `Reset`, which gives every register a new value while no call is in progress (the rows of the old major are dropped; rows of the new major become current).

  `RegisterRefinement == Register!Spec` says every call is linearizable on the store. A deduplicated set counts as taking effect with no change. It holds for one task (`device_property_seq`) and fails for two (`device_property_lostupdate`). The abstract spec is safety only, since its fairness would make the check several times slower and the liveness is already `Converges`.
* **Fairness.**
  * Weak fairness on each task's steps, because tokio polls every runnable task.
  * Weak fairness on `Deliver` and `Reconnect`, because the connection loop keeps polling and reconnecting.
  * None on starting calls or on faults, which are user or environment choices.

### MappingDecode

Each conversion of `schema.rs` is an operator returning `Ok(v)` or `Err(kind, arg)`. The JSON keeps its i64 fields, and `Endpoint::try_from` (not under `src/`) is abstracted to a level count. `Init` picks any mapping JSON, and the two actions decode it. `IndividualInto` is the conversion back into a JSON `Mapping`. It uses `as_expiry_seconds`/`as_ttl_secs` of the semantic types, which are not under `src/` and are modelled from spec 3. The error kinds are the variants of `SchemaError` and `MappingError`. `ToJsonAndBack` is serializing a `Mapping` and reading it back: a field at `None` or equal to its type's default (`is_none_or_default`, with the `#[default]` variants and the zero of `bool`/`i64` in `FieldDefaults`) is not written, and `#[serde(default)]` reads it as `None`.

### Introspection

* **State.**
  * `registry` is the set of interfaces.
  * `chan` is the client-to-connection channel: the requests of `extend_interfaces` and `remove_interfaces`, where `add_interface` and `remove_interface` are the one-element case.
  * `client` holds, per client, whether it is awaiting a reply, and that reply.
  * `handler` is the connection task's current step.
  * `locked` is the registry write lock.
  * `wire` is the MQTT client's ordered request queue.
  * `broker` holds the advertised introspection and the subscriptions.
  * `conn` is the connection status and the number of losses so far; `lastSent` is the registry of the last introspection queued.
* **Actions.**
  * The connection task handles one request at a time. The tests' loop of `recv` followed by `handle_client_msg` shows this.
  * An add:
    * if nothing is new, it replies empty (`RecvAddNothing`, from `should_not_extend_interfaces`);
    * otherwise it locks and mutates the registry (`RecvAdd`), makes one batched `subscribe_many` for the new server-owned interfaces (`Subscribe`), then publishes the introspection (`PublishIntrospection`) and replies with the added names.
  * A removal:
    * if nothing is present, it replies empty (`RecvRemoveNothing`);
    * otherwise it publishes the reduced introspection, then makes one `unsubscribe` per removed server-owned interface (`Unsubscribe`). This comes from `should_remove_interfaces` and `should_not_unsubscribe_interfaces`.
  * Other client tasks publish on device-owned interfaces in the registry under the read lock (`PublishData`, spec 4.7).
  * The broker applies requests in order (`Deliver`), only while connected.
  * `Disconnect` loses the connection. With the session kept, the queue and the subscriptions stay. With it lost, the broker drops the subscriptions and the queue may be lost.
  * `ConnectedSync` is the synchroniser on `Connected` (spec 4.7). It diffs the registry against `lastSent`, the registry of the last introspection queued. It queues a subscribe of the added server-owned interfaces, one unsubscribe per removed one, and the introspection.
* **Refinement.** `Broker == INSTANCE IntrospectionBroker WITH adv <- broker.intro, subs <- broker.subs`. `BrokerRefinement == Broker!Spec` is checked as a property. Every broker step is one of:
  * subscribing server-owned interfaces;
  * advertising a set whose server-owned members are subscribed;
  * unsubscribing an interface that is not advertised.
* **Fairness.** Weak fairness on the connection task, on the MQTT event loop and on `ConnectedSync`, because all three loop forever. Clients have none.

### Uuid

* A UUID is a model value.
* A byte vector is its length class (16, or 0/15/17) with the UUID it encodes.
* A string is the UUID it spells (or `Bad`) and its spelling: hyphenated, simple, braced, urn or uppercase, as `Uuid::parse_str` accepts.
* `Display`/`to_string` is the hyphenated spelling.
* The operators follow `From`, `PartialEq` and `TryFrom` arm by arm.
* `StrUuid::try_from`'s wrong-variant context reads "into binary UUID" (`uuid.rs:169`, copied from line 91). The model keeps it, but no property is about the wording.

### AddInterfaceError

`AddPathContext` is `add_path_context`:
* `Interface` becomes `InterfaceFile` at the path;
* `Io` and `InterfaceFile` have their path overwritten.

`AddContext` applies it once more per step, as each path-aware caller on the way up does.

### Planned (later sittings)

1. **Endpoint overlap.** Checked if a source for `Endpoint` appears under `src/`.

## 3. Runs

| Run | Config | Expect | Shows |
|---|---|---|---|
| `device_property_seq` | `MCDeviceProperty_seq.cfg` | pass | One task, one path, two payloads, two types, two majors, two calls (a failed one included), one disconnect, one restart, one replacement and one failing store operation: `TypeOK`, `PropertyConsistency`, `Converges` and `RegisterRefinement` all hold. A store failure aborts the call before it emits anything, or (the delete after an unset) leaves only a marker every reader takes as no value. About 365k distinct states, about 46 s. |
| `device_property_race` | `MCDeviceProperty_race.cfg` | violation | Two tasks on one path, one call each, no faults: `StoreMatchesBroker` fails. `t1` stores `d1`, `t2`'s unset writes its marker, the reconnect purges the path, and `t1` (seeing "connected") sends `d1`. The broker keeps `d1` while the store says unset. |
| `mapping_decode` | `MCMappingDecode.cfg` | pass | All 186,624 combinations of field values, over the boundary seconds `-1, 0, 1, 59, 60`: `IndividualDecodesExactly`, `ErrorNamesCause`, `ReencodeRoundTrip` (through the serialized JSON) and `ElisionPreservesDecoding` hold. Eliding an explicit default never changes what a JSON decodes to; only an explicit TTL of 0 under `use_ttl` changes its error, from `DatabaseRetentionTtlTooLow` to `MissingDatabaseRetentionTtl`. |
| `introspection` | `MCIntrospection.cfg` | pass | Two clients each make one add or remove of any subset of `{i1 (device), i2, i3 (server)}` and one data publish, from any initial registry, with one connection loss that keeps the session. `TypeOK`, `DataAfterIntrospection`, `Converges` and `BrokerRefinement` all hold. About 421k states, about 25 s. |
| `introspection_session` | `MCIntrospection_session.cfg` | violation | The same with the session possibly lost: `Converges` fails. The subscriptions are gone, the diff against `lastSent` is empty, and `i2` is never subscribed again. |
| `device_property_cancel` | `MCDeviceProperty_cancel.cfg` | violation | One task, one cancellation: `PropertyConsistency` fails. `d1` is stored, the connection is up, and the call is dropped at the sender. The caller holds `d1`, the broker the old value, and an equal retry would be deduplicated. The run also allows one sender `Err` (`SenderFail`), which reaches the same state: the caller gets `Err`, and its retry of `d1` returns `Ok` with nothing emitted. TLC reports the cancellation trace; the two traces have the same length. |
| `uuid` | `MCUuid.cfg` | pass | Every `AstarteData` value against every UUID: `TypeOK` and `EqAgreesWithTryFrom` hold. 288 states. |
| `uuid_eq_transitive` | `MCUuid_transitive.cfg` | violation | `String` of a simple spelling of `u1` equals `StrUuid(u1)`, which equals `AstarteData::from(StrUuid(u1))`, yet the two `AstarteData` differ. |
| `add_interface_error` | `MCAddInterfaceError.cfg` | pass | Every error and every chain of up to three contexts: `ContextNamesLastPath` holds. 280 states. |
| `negative_expiry_discard` | `MCMappingDecode_negexpiry.cfg` | violation | `expiry = -1` with retention discard is accepted, against spec section 8. |
| `expiry_doc_nonpositive` | `MCMappingDecode_expirydoc.cfg` | violation | `NonPositiveExpiryNeverExpires`, the doc comment of `Mapping::expiry` (`schema.rs:203-204`, "a value <= 0 means the persistent cache never expires"), fails: `expiry = -1` with retention volatile is rejected with `NegativeExpiry`. The test `should_get_expiry` expects that error, so the doc comment is what is wrong. |
| `device_property_lostupdate` | `MCDeviceProperty_lostupdate.cfg` | violation | Two tasks on one path, one call each, two mapping types, no faults: `RegisterRefinement` fails. TLC reports the type-mismatch trace: both sends load a row of the wrong type, `t1` deletes it and stores `d1` (its set takes effect), then `t2`'s `delete_prop` of the mismatch (`property.rs:120`) erases `d1` although no call is taking effect. The unset's trailing `delete_prop` (`property.rs:157`) loses a concurrent set the same way. No order of the two calls as atomic steps ends with the store empty. |


**Bounds.** Two payloads and two types are what it takes to tell a stale equal value from a new one, and a matching type from a mismatch. Two majors make one replacement possible. Two calls put a set and an unset, or two different sets, on either side of each fault. A failed call counts as one of the two. Three calls with one store failure give 1.75M states and take longer than the five-minute budget of a run. The race needs only two single calls on one path, without faults.

The cancellation run needs one task, one path, and one cancellation or sender failure. One store failure in `device_property_seq` can hit any of the five store awaits, in any state the other faults reach.

In `introspection`, two server-owned interfaces make a removal unsubscribe twice, and one device-owned interface carries the data publishes. One call per client already puts a data publish, an add and a remove in every order. Two calls per client give 20M states and add no new orderings of the synchroniser's steps.

One connection loss already puts a reconnect before, inside and after each synchroniser step.

In `uuid`, three UUIDs tell a matching UUID from two others. One blob of each length class, and every spelling, cover the branches of each conversion. In `add_interface_error`, three paths let a chain of three contexts name three different paths.

`CHECK_DEADLOCK FALSE` is set because:
* the user makes a bounded number of calls, after which the device legitimately idles;
* decoding, conversions and error wrapping terminate.

## 4. Not modelled

* **Datastream publishing.** Retention buffers and reliability acknowledgements are not under `src/` and are not yet modelled.
* **Endpoint matching and overlap.** Only parse success or failure is modelled.
* **The E2E fixtures and the registration example.** These are I/O and test data, with no state machine to check.
* **Server-owned properties received from the broker.** That code is not under `src/`.
* **The registry lock composed with the transport queue.** `send_property` keeps the registry read guard across its awaits (`property.rs:46`), so a writer waits for the slowest call in progress. Whether this can close a wait cycle depends on two things decided by connection code not under `src/`: where the write lock is taken, and which task drains the MQTT request queue. The tests hand client messages to `connection.sender`, separate from the event loop. A model would have to guess, so no deadlock is claimed or listed as a hazard.
* **`description` and `doc` of mappings (the `doc-fields` feature) and `is_none_or_empty`.** These are documentation strings copied through unchanged. Under default elision an empty string reads back as absent, so only `Some("")` against `None` could differ after a round trip, and no behaviour of the SDK depends on it.
* **The `DeviceIntrospection::get_interface` accessor and the field getters of the mapping types.** These are reads with no state change. `get_interface` is a lookup under the registry read lock.
* **`Display`, `Deref` and the text of error messages.** These are formatting. Only the variant and the values an error carries are modelled.
