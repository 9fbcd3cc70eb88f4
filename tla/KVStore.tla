------------------------------- MODULE KVStore -------------------------------
(***************************************************************************)
(* The storage engine: class KVStore, an unordered_map from keys to values *)
(* with size validation, and ConcurrentKVStore, which runs each operation  *)
(* under one shared_mutex.  Because of that lock every operation is a      *)
(* single atomic step of the modules that use this one, so the engine is   *)
(* given here as operators on a map: a function on Key that holds NotFound *)
(* where the map has no entry.                                             *)
(***************************************************************************)
EXTENDS Naturals

CONSTANTS
    Key,           \* keys a client may send, oversized ones included
    Value,         \* values a client may send, oversized ones included
    KeySize,       \* the length of each key
    ValueSize,     \* the length of each value
    MaxKeySize,    \* MAX_KEY_SIZE
    MaxValueSize,  \* MAX_VALUE_SIZE
    NotFound       \* marks a key that is not in the map

ASSUME KVStoreAssumption ==
    /\ Key # {}
    /\ KeySize \in [Key -> Nat]
    /\ ValueSize \in [Value -> Nat]
    /\ MaxKeySize \in Nat
    /\ MaxValueSize \in Nat
    /\ NotFound \notin Value

-----------------------------------------------------------------------------
EmptyMap == [k \in Key |-> NotFound]

(* The status KVStore::put answers; only "OK" changes the map. *)
PutStatus(k, v) ==
    IF KeySize[k] > MaxKeySize THEN "KEY_TOO_LARGE"
    ELSE IF ValueSize[v] > MaxValueSize THEN "VALUE_TOO_LARGE"
    ELSE "OK"

Put(m, k, v) ==
    IF PutStatus(k, v) = "OK" THEN [m EXCEPT ![k] = v] ELSE m

(* KVStore::get and KVStore::del do not validate the size of the key. *)
GetStatus(m, k) == IF m[k] = NotFound THEN "NOT_FOUND" ELSE "OK"

DelStatus(m, k) == IF m[k] = NotFound THEN "NOT_FOUND" ELSE "OK"

Del(m, k) == [m EXCEPT ![k] = NotFound]
=============================================================================
