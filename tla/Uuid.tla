-------------------------------- MODULE Uuid --------------------------------
(***************************************************************************)
(* The UUID wrappers of src/src/types/uuid.rs: BinUuid is carried as a     *)
(* BinaryBlob of its 16 bytes, StrUuid as the dashed lowercase string.     *)
(* Each has From into AstarteData, PartialEq with AstarteData in both      *)
(* directions and TryFrom<AstarteData>.                                    *)
(*                                                                         *)
(* A UUID is a model value.  A byte vector is its length and, when it is   *)
(* 16 bytes long, the UUID those bytes encode.  A string is the UUID it    *)
(* spells, or Bad, and the spelling Uuid::parse_str accepts it in; to_string *)
(* is the hyphenated lowercase spelling.  An error keeps the type it was   *)
(* converted from and the type its context names.                          *)
(***************************************************************************)
EXTENDS Naturals

CONSTANTS
    Uuids,       \* UUID values
    Bad,         \* a string that is no UUID
    OtherKinds   \* AstarteData variants other than BinaryBlob and String

(* Spellings Uuid::parse_str accepts (hex is case-insensitive).           *)
Forms == {"hyphenated", "simple", "braced", "urn", "uppercase"}

Bytes == {[len |-> 16, uuid |-> u] : u \in Uuids}
         \cup {[len |-> n, uuid |-> Bad] : n \in {0, 15, 17}}

Strs == {[uuid |-> u, form |-> f] : u \in Uuids, f \in Forms}
        \cup {[uuid |-> Bad, form |-> "hyphenated"]}

AstarteData == [kind : {"binaryblob"}, blob : Bytes]
               \cup [kind : {"string"}, str : Strs]
               \cup [kind : OtherKinds]

Ok(v) == [ok |-> TRUE, val |-> v]
(* TypeError::Conversion: the context names the source and the target.   *)
ConvErr(from, into) == [ok |-> FALSE, from |-> from, into |-> into]
Pending == [ok |-> "pending"]

-----------------------------------------------------------------------------
(* BinUuid                                                                 *)

AsBytes(u) == [len |-> 16, uuid |-> u]

(* From<BinUuid> for AstarteData.                                          *)
BinInto(u) == [kind |-> "binaryblob", blob |-> AsBytes(u)]

(* PartialEq<BinUuid> for AstarteData (and its mirror on BinUuid).        *)
DataEqBin(a, u) == a.kind = "binaryblob" /\ a.blob = AsBytes(u)

(* Fault variant: the byte vector is read without checking its length.   *)
BinTryFromAnyLen(a) ==
    IF a.kind # "binaryblob" THEN ConvErr(a.kind, "binary")
    ELSE Ok(a.blob.uuid)

(* TryFrom<AstarteData> for BinUuid: a BinaryBlob of exactly 16 bytes.    *)
BinTryFrom(a) ==
    IF a.kind # "binaryblob" THEN ConvErr(a.kind, "binary")
    ELSE IF a.blob.len = 16 THEN Ok(a.blob.uuid)
    ELSE ConvErr("binaryblob", "binary")

-----------------------------------------------------------------------------
(* StrUuid                                                                 *)

(* Uuid::parse_str.                                                        *)
ParseStr(s) == IF s.uuid = Bad THEN ConvErr("string", "string") ELSE Ok(s.uuid)

(* From<StrUuid> for AstarteData: Uuid::to_string.                         *)
StrInto(u) == [kind |-> "string", str |-> [uuid |-> u, form |-> "hyphenated"]]

(* Fault variant: the string is compared with the UUID's to_string.      *)
DataEqStrByText(a, u) == a.kind = "string" /\ a.str = StrInto(u).str

(* PartialEq<StrUuid> for AstarteData: the string parses to the UUID.     *)
DataEqStr(a, u) ==
    a.kind = "string" /\ ParseStr(a.str).ok /\ ParseStr(a.str).val = u

(* TryFrom<AstarteData> for StrUuid; the context of the wrong-variant     *)
(* error is the one written for BinUuid ("into binary UUID").             *)
StrTryFrom(a) ==
    IF a.kind # "string" THEN ConvErr(a.kind, "binary")
    ELSE ParseStr(a.str)

-----------------------------------------------------------------------------
(* One value and one UUID, converted both ways.                           *)

VARIABLES data, uuid, bin, str

vars == <<data, uuid, bin, str>>

Init ==
    /\ data \in AstarteData
    /\ uuid \in Uuids
    /\ bin = Pending
    /\ str = Pending

DecodeBin ==
    /\ bin = Pending
    /\ bin' = BinTryFrom(data)
    /\ UNCHANGED <<data, uuid, str>>

DecodeStr ==
    /\ str = Pending
    /\ str' = StrTryFrom(data)
    /\ UNCHANGED <<data, uuid, bin>>

Next == DecodeBin \/ DecodeStr

Spec == Init /\ [][Next]_vars

-----------------------------------------------------------------------------
(* Properties                                                              *)

Kinds == {"binaryblob", "string"} \cup OtherKinds

Result == [ok : {TRUE}, val : Uuids]
          \cup [ok : {FALSE}, from : Kinds, into : {"binary", "string"}]
          \cup {Pending}

TypeOK ==
    /\ data \in AstarteData
    /\ uuid \in Uuids
    /\ bin \in Result
    /\ str \in Result

(* Comparing a value with a UUID agrees with converting it: a == u holds  *)
(* exactly when try_from gives Ok(u), for every spelling parse_str takes, *)
(* and the value built by From is equal to its UUID.                      *)
EqAgreesWithTryFrom ==
    /\ bin # Pending => (DataEqBin(data, uuid) <=> bin = Ok(uuid))
    /\ str # Pending => (DataEqStr(data, uuid) <=> str = Ok(uuid))
    /\ DataEqBin(BinInto(uuid), uuid) /\ DataEqStr(StrInto(uuid), uuid)

(* std::cmp::PartialEq requires transitivity across the impls that exist: *)
(* AstarteData, BinUuid/StrUuid and AstarteData all compare with one       *)
(* another, so a value equal to a UUID equals (as AstarteData) the value   *)
(* From builds of that UUID.                                               *)
EqTransitive ==
    /\ DataEqBin(data, uuid) => data = BinInto(uuid)
    /\ DataEqStr(data, uuid) => data = StrInto(uuid)

=============================================================================
