---------------------------- MODULE MappingDecode ---------------------------
(***************************************************************************)
(* Decoding of one JSON mapping into the in-memory mapping of a datastream *)
(* interface: Mapping::expiry_as_duration, retention_with_expiry,          *)
(* database_retention_ttl_as_duration, database_retention_with_ttl         *)
(* (src/astarte-interfaces/src/schema.rs) and the TryFrom conversions of   *)
(* DatastreamIndividualMapping and DatastreamObjectMapping.                *)
(*                                                                         *)
(* The JSON fields keep their i64 values; durations are seconds.  The      *)
(* endpoint is abstracted to its number of levels, 0 standing for a       *)
(* string Endpoint::try_from rejects.  Warnings are logging and are left   *)
(* out.  A decoding is a terminating computation: the state machine picks  *)
(* one input and decodes it both ways.                                     *)
(***************************************************************************)
EXTENDS Integers

CONSTANTS
    Seconds,     \* i64 values tried for "expiry" and "database_retention_ttl"
    None         \* an absent optional field / Option::None

ASSUME Seconds \subseteq Int /\ None \notin Int

Retentions == {"discard", "volatile", "stored"}
Policies == {"no_ttl", "use_ttl"}
Reliabilities == {"unreliable", "guaranteed", "unique"}

(* The fields of schema::Mapping that the conversions read.               *)
MappingJson ==
    [endpoint : 0..2,
     reliability : Reliabilities \cup {None},
     explicit_timestamp : BOOLEAN \cup {None},
     retention : Retentions \cup {None},
     expiry : Seconds \cup {None},
     database_retention_policy : Policies \cup {None},
     database_retention_ttl : Seconds \cup {None},
     allow_unset : BOOLEAN \cup {None}]

Ok(v) == [ok |-> TRUE, val |-> v]
Err(kind, arg) == [ok |-> FALSE, err |-> kind, arg |-> arg]
Pending == [ok |-> "pending"]

(* Option::unwrap_or_default on the enum fields.                          *)
OrDefault(v, d) == IF v = None THEN d ELSE v

-----------------------------------------------------------------------------

(* Fault variant: a zero expiry is not filtered out.                      *)
ExpiryAsDurationNoZero(m) ==
    IF m.expiry = None THEN Ok(None)
    ELSE IF m.expiry < 0 THEN Err("NegativeExpiry", m.expiry)
    ELSE Ok(m.expiry)

(* Fault variant: the i64 is cast to u64 instead of u64::try_from.      *)
ExpiryAsDurationNoSignCheck(m) ==
    IF m.expiry = None \/ m.expiry = 0 THEN Ok(None) ELSE Ok(m.expiry)

(* Option<i64> -> Option<Duration>: 0 is "never expires", a negative      *)
(* value fails u64::try_from.                                             *)
ExpiryAsDuration(m) ==
    IF m.expiry = None \/ m.expiry = 0 THEN Ok(None)
    ELSE IF m.expiry < 0 THEN Err("NegativeExpiry", m.expiry)
    ELSE Ok(m.expiry)

(* The semantic Retention: Discard drops the expiry without looking at    *)
(* it; Volatile and Stored carry the converted expiry.                    *)
RetentionWithExpiry(m) ==
    LET r == OrDefault(m.retention, "discard")
        e == ExpiryAsDuration(m)
    IN  IF r = "discard" THEN Ok([kind |-> "discard", expiry |-> None])
        ELSE IF e.ok THEN Ok([kind |-> r, expiry |-> e.val])
        ELSE e

(* Option<i64> -> Option<Duration> for the TTL: negative, then < 60s.     *)
DatabaseRetentionTtlAsDuration(m) ==
    LET ttl == m.database_retention_ttl IN
    IF ttl = None THEN Ok(None)
    ELSE IF ttl < 0 THEN Err("NegativeDatabaseRetentionTtl", ttl)
    ELSE IF ttl < 60 THEN Err("DatabaseRetentionTtlTooLow", ttl)
    ELSE Ok(ttl)

(* Fault variant: the TTL is validated under no_ttl as well.              *)
DatabaseRetentionWithTtlStrict(m) ==
    LET t == DatabaseRetentionTtlAsDuration(m) IN
    IF ~t.ok THEN t
    ELSE IF OrDefault(m.database_retention_policy, "no_ttl") = "no_ttl"
         THEN Ok([kind |-> "no_ttl", ttl |-> None])
    ELSE IF t.val = None THEN Err("MissingDatabaseRetentionTtl", None)
    ELSE Ok([kind |-> "use_ttl", ttl |-> t.val])

(* no_ttl ignores any TTL; use_ttl needs a TTL of at least 60 seconds.    *)
DatabaseRetentionWithTtl(m) ==
    IF OrDefault(m.database_retention_policy, "no_ttl") = "no_ttl"
    THEN Ok([kind |-> "no_ttl", ttl |-> None])
    ELSE LET t == DatabaseRetentionTtlAsDuration(m) IN
         IF ~t.ok THEN t
         ELSE IF t.val = None THEN Err("MissingDatabaseRetentionTtl", None)
         ELSE Ok([kind |-> "use_ttl", ttl |-> t.val])

(* Endpoint::try_from, abstracted: 0 levels is a parse error.             *)
EndpointTryFrom(m) ==
    IF m.endpoint = 0 THEN Err("Endpoint", None) ELSE Ok(m.endpoint)

(* DatastreamIndividualMapping::try_from: endpoint, retention, database   *)
(* retention, in this order; allow_unset is ignored.                      *)
IndividualTryFrom(m) ==
    LET ep == EndpointTryFrom(m)
        rt == RetentionWithExpiry(m)
        db == DatabaseRetentionWithTtl(m)
    IN  IF ~ep.ok THEN ep
        ELSE IF ~rt.ok THEN rt
        ELSE IF ~db.ok THEN db
        ELSE Ok([levels |-> ep.val,
                 reliability |-> OrDefault(m.reliability, "unreliable"),
                 explicit_timestamp |-> OrDefault(m.explicit_timestamp, FALSE),
                 retention |-> rt.val,
                 database_retention |-> db.val])

(* DatastreamObjectMapping::try_from: an object endpoint has >= 2 levels. *)
ObjectTryFrom(m) ==
    LET ep == EndpointTryFrom(m) IN
    IF ~ep.ok THEN ep
    ELSE IF ep.val < 2 THEN Err("TooShortForObject", ep.val)
    ELSE Ok([levels |-> ep.val])

(* Retention::as_expiry_seconds and DatabaseRetention::as_ttl_secs (the  *)
(* semantic types are not under src/): the seconds a Volatile/Stored      *)
(* expiry or a use_ttl TTL carries, as i64.                               *)
AsExpirySeconds(r) == IF r.kind = "discard" THEN None ELSE r.expiry
AsTtlSecs(d) == IF d.kind = "no_ttl" THEN None ELSE d.ttl

(* Fault variant: the expiry is not written back.                         *)
IndividualIntoNoExpiry(v) ==
    [endpoint |-> v.levels, reliability |-> v.reliability,
     explicit_timestamp |-> v.explicit_timestamp,
     retention |-> v.retention.kind, expiry |-> None,
     database_retention_policy |-> v.database_retention.kind,
     database_retention_ttl |-> AsTtlSecs(v.database_retention),
     allow_unset |-> None]

(* From<&DatastreamIndividualMapping> for Mapping: every enum is written  *)
(* out explicitly, the durations as seconds, allow_unset left absent.     *)
IndividualInto(v) ==
    [endpoint |-> v.levels, reliability |-> v.reliability,
     explicit_timestamp |-> v.explicit_timestamp,
     retention |-> v.retention.kind,
     expiry |-> AsExpirySeconds(v.retention),
     database_retention_policy |-> v.database_retention.kind,
     database_retention_ttl |-> AsTtlSecs(v.database_retention),
     allow_unset |-> None]

(* Fault variant: the test of is_none_or_default is inverted.            *)
IsNoneOrDefaultInverted(v, d) == v = None \/ v # d

(* is_none_or_default: the skip_serializing_if of every optional field.   *)
IsNoneOrDefault(v, d) == v = None \/ v = d

(* T::default() of each optional field's type: the #[default] variants    *)
(* and the zero of bool and i64.                                          *)
FieldDefaults ==
    [reliability |-> "unreliable", explicit_timestamp |-> FALSE,
     retention |-> "discard", expiry |-> 0,
     database_retention_policy |-> "no_ttl", database_retention_ttl |-> 0,
     allow_unset |-> FALSE]

(* Serializing a Mapping and reading the text back: a field at None or at *)
(* its default is not written, and #[serde(default)] reads it as None.    *)
ToJsonAndBack(m) ==
    [f \in DOMAIN m |->
        IF f # "endpoint" /\ IsNoneOrDefault(m[f], FieldDefaults[f])
        THEN None ELSE m[f]]

-----------------------------------------------------------------------------

VARIABLES json, individual, object

vars == <<json, individual, object>>

Init ==
    /\ json \in MappingJson
    /\ individual = Pending
    /\ object = Pending

DecodeIndividual ==
    /\ individual = Pending
    /\ individual' = IndividualTryFrom(json)
    /\ UNCHANGED <<json, object>>

DecodeObject ==
    /\ object = Pending
    /\ object' = ObjectTryFrom(json)
    /\ UNCHANGED <<json, individual>>

Next == DecodeIndividual \/ DecodeObject

Spec == Init /\ [][Next]_vars

-----------------------------------------------------------------------------
(* Properties                                                              *)

(* The variants of SchemaError (schema.rs) and MappingError (mapping/mod.rs). *)
SchemaErrorKinds == {"NegativeExpiry", "NegativeDatabaseRetentionTtl",
                     "DatabaseRetentionTtlTooLow", "MissingDatabaseRetentionTtl"}

MappingErrorKinds == {"Empty", "TooMany", "Duplicated", "Endpoint", "TooShortForObject"}

ErrorKinds == SchemaErrorKinds \cup MappingErrorKinds

Result ==
    LET secs == (Seconds \cap Nat) \cup {None} IN
    [ok : {TRUE}, val : [levels : 1..2, reliability : Reliabilities,
                         explicit_timestamp : BOOLEAN,
                         retention : [kind : Retentions, expiry : secs],
                         database_retention : [kind : Policies, ttl : secs]]
                        \cup [levels : 1..2]]
    \cup [ok : {FALSE}, err : ErrorKinds, arg : Seconds \cup 0..2 \cup {None}]
    \cup {Pending}

TypeOK ==
    /\ json \in MappingJson
    /\ individual \in Result
    /\ object \in Result

(* The rules of spec.md section 3 a mapping must satisfy, stated on the   *)
(* JSON: a parsable endpoint, an expiry that is not negative where the    *)
(* retention uses it, and a TTL of at least 60s whenever use_ttl is set.  *)
ValidJson(m) ==
    /\ m.endpoint >= 1
    /\ OrDefault(m.retention, "discard") \in {"volatile", "stored"}
         => (m.expiry = None \/ m.expiry >= 0)
    /\ OrDefault(m.database_retention_policy, "no_ttl") = "use_ttl"
         => (m.database_retention_ttl # None /\ m.database_retention_ttl >= 60)

(* A decoded individual mapping is exactly what the JSON says, in the     *)
(* semantic union of spec section 3: it is accepted iff the JSON obeys    *)
(* the rules; its expiry is absent for 0 or no field and otherwise the    *)
(* field's seconds; its TTL is the field's seconds under use_ttl only.    *)
IndividualDecodesExactly ==
    individual # Pending =>
      /\ individual.ok <=> ValidJson(json)
      /\ individual.ok =>
           LET r == individual.val.retention
               d == individual.val.database_retention
           IN  /\ r.expiry = IF r.kind = "discard" \/ json.expiry \in {None, 0}
                             THEN None ELSE json.expiry
               /\ d.ttl = IF d.kind = "use_ttl"
                          THEN json.database_retention_ttl ELSE None

(* Every rejection names the field that breaks a rule: a negative expiry  *)
(* only under volatile/stored, TTL errors only under use_ttl, and an      *)
(* object endpoint is too short only with a single level.                 *)
ErrorNamesCause ==
    LET pol == OrDefault(json.database_retention_policy, "no_ttl")
        ret == OrDefault(json.retention, "discard")
        ttl == json.database_retention_ttl
        Cause(r) ==
          CASE r.err = "Endpoint" -> json.endpoint = 0
            [] r.err = "NegativeExpiry" ->
                 ret \in {"volatile", "stored"} /\ r.arg = json.expiry /\ json.expiry < 0
            [] r.err = "NegativeDatabaseRetentionTtl" ->
                 pol = "use_ttl" /\ r.arg = ttl /\ ttl < 0
            [] r.err = "DatabaseRetentionTtlTooLow" ->
                 pol = "use_ttl" /\ r.arg = ttl /\ 0 <= ttl /\ ttl < 60
            [] r.err = "MissingDatabaseRetentionTtl" -> pol = "use_ttl" /\ ttl = None
            [] r.err = "TooShortForObject" -> json.endpoint = 1
            [] OTHER -> FALSE
    IN  /\ individual \notin {Pending} /\ ~individual.ok => Cause(individual)
        /\ object \notin {Pending} /\ ~object.ok => Cause(object)

(* spec.md section 8, "interface_json -> Interface -> interface_json      *)
(* preserves semantics": the JSON that From<&DatastreamIndividualMapping> *)
(* writes back, once serialized and read again, decodes to the same       *)
(* mapping, with its expiry and TTL.                                      *)
ReencodeRoundTrip ==
    individual # Pending /\ individual.ok =>
        IndividualTryFrom(ToJsonAndBack(IndividualInto(individual.val))) = individual

(* spec.md section 8, "default elision preserved": serializing a Mapping   *)
(* leaves out the fields equal to their default, and reading the text     *)
(* back must not change what it decodes to.  The decoders must treat an   *)
(* explicit default (expiry 0, retention "discard", ...) exactly as an    *)
(* absent field, and the elided defaults must be the decoders' defaults.  *)
(* Only acceptance is compared for a rejected JSON: an explicit TTL of 0  *)
(* under use_ttl is TooLow before and Missing after.                      *)
ElisionPreservesDecoding ==
    individual # Pending =>
        LET again == IndividualTryFrom(ToJsonAndBack(json)) IN
        /\ again.ok = individual.ok
        /\ individual.ok => again = individual

(* spec.md section 8: "Expiry < 0 rejected".                              *)
NegativeExpiryRejected ==
    individual # Pending /\ json.expiry # None /\ json.expiry < 0 => ~individual.ok

(* The doc comment of Mapping::expiry (schema.rs): "A value <= 0 means   *)
(* the persistent cache never expires, and is the default."  A mapping   *)
(* that breaks no other rule and whose expiry is not positive decodes,   *)
(* with no expiry, whatever its retention.                               *)
NonPositiveExpiryNeverExpires ==
    individual # Pending /\ json.expiry # None /\ json.expiry <= 0
      /\ json.endpoint >= 1
      /\ (OrDefault(json.database_retention_policy, "no_ttl") = "use_ttl"
            => (json.database_retention_ttl # None /\ json.database_retention_ttl >= 60))
      => individual.ok /\ individual.val.retention.expiry = None

=============================================================================
