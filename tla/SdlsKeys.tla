------------------------------ MODULE SdlsKeys ------------------------------
(***************************************************************************)
(* The administration of frame security by extended procedures: the ring   *)
(* of keys and the table of security associations.  A call that returns an *)
(* error and changes nothing is no step.                                   *)
(***************************************************************************)
EXTENDS Naturals, FiniteSets, Sequences

CONSTANTS
    KeyIds,         \* ids of keys
    NoKey,          \* key_id: None
    Spis,           \* security parameter indices, none of them reserved
    MaxKeys,        \* MAX_KEYS
    MaxSas,         \* MAX_SAS
    Arsns,          \* anti-replay sequence numbers an operator sets
    MaxDeliveries   \* bound: OTAR blocks

ASSUME KeysAssumption ==
    NoKey \notin KeyIds /\ MaxKeys \in Nat /\ MaxSas \in Nat /\ MaxDeliveries \in Nat

VARIABLES
    keys,           \* KeyRing: the state of every key in it
    sas,            \* SaTable: the associations by SPI
    deliveries      \* OTAR blocks so far

keys_vars == <<keys, sas, deliveries>>

Put(f, x, v) == [y \in DOMAIN f \cup {x} |-> IF y = x THEN v ELSE f[y]]

KeysInit == keys = <<>> /\ sas = <<>> /\ deliveries = 0
-----------------------------------------------------------------------------
(* The key ring *)

SetKey(k, state) == keys' = [keys EXCEPT ![k] = state] /\ UNCHANGED <<sas, deliveries>>

\* mutant of Loadable: a destroyed key makes room for its id
LoadableAgain(ring, k) ==
    IF k \in DOMAIN ring THEN ring[k] = "Destroyed" ELSE Cardinality(DOMAIN ring) < MaxKeys

\* load: no duplicate, destroyed keys included, and room in the ring
Loadable(ring, k) == k \notin DOMAIN ring /\ Cardinality(DOMAIN ring) < MaxKeys

LoadKey(k) ==
    /\ Loadable(keys, k)
    /\ keys' = Put(keys, k, "Preactive")
    /\ UNCHANGED <<sas, deliveries>>

Activate(k)   == k \in DOMAIN keys /\ keys[k] = "Preactive" /\ SetKey(k, "Active")
Deactivate(k) == k \in DOMAIN keys /\ keys[k] = "Active" /\ SetKey(k, "Deactivated")
Destroy(k)    == k \in DOMAIN keys /\ SetKey(k, "Destroyed")

\* otar: the keys of the block are loaded one after the other up to the first
\* that fails; those before it stay
Otar(master, block) ==
    /\ master \in DOMAIN keys /\ keys[master] = "Active"
    /\ deliveries < MaxDeliveries
    /\ deliveries' = deliveries + 1
    /\ keys' = LET first == Put(keys, block[1], "Preactive")
               IN  IF ~Loadable(keys, block[1]) THEN keys
                   ELSE IF ~Loadable(first, block[2]) THEN first
                   ELSE Put(first, block[2], "Preactive")
    /\ UNCHANGED sas
-----------------------------------------------------------------------------
(* The table of security associations *)

SetSa(spi, sa) == sas' = [sas EXCEPT ![spi] = sa] /\ UNCHANGED <<keys, deliveries>>

Create(spi) ==
    /\ spi \notin DOMAIN sas
    /\ Cardinality(DOMAIN sas) < MaxSas
    /\ sas' = Put(sas, spi, [state |-> "Unkeyed", key |-> NoKey, arsn |-> 0])
    /\ UNCHANGED <<keys, deliveries>>

Delete(spi) ==
    /\ spi \in DOMAIN sas /\ sas[spi].state = "Unkeyed"
    /\ sas' = [s \in DOMAIN sas \ {spi} |-> sas[s]]
    /\ UNCHANGED <<keys, deliveries>>

\* the ring of keys is not asked
Rekey(spi, k) ==
    /\ spi \in DOMAIN sas /\ sas[spi].state = "Unkeyed"
    /\ SetSa(spi, [sas[spi] EXCEPT !.key = k, !.state = "Keyed"])

StartSa(spi) ==
    /\ spi \in DOMAIN sas /\ sas[spi].state = "Keyed"
    /\ SetSa(spi, [sas[spi] EXCEPT !.state = "Operational"])

StopSa(spi) ==
    /\ spi \in DOMAIN sas /\ sas[spi].state = "Operational"
    /\ SetSa(spi, [sas[spi] EXCEPT !.state = "Keyed"])

\* mutant of ExpireSa: an operational association expires as well
ExpireSaAny(spi) ==
    /\ spi \in DOMAIN sas
    /\ SetSa(spi, [sas[spi] EXCEPT !.key = NoKey])

ExpireSa(spi) ==
    /\ spi \in DOMAIN sas /\ sas[spi].state = "Keyed"
    /\ SetSa(spi, [sas[spi] EXCEPT !.key = NoKey, !.state = "Unkeyed"])

SetArsn(spi, arsn) ==
    /\ spi \in DOMAIN sas
    /\ SetSa(spi, [sas[spi] EXCEPT !.arsn = arsn])
-----------------------------------------------------------------------------
KeysNext ==
    \/ \E k \in KeyIds : LoadKey(k) \/ Activate(k) \/ Deactivate(k) \/ Destroy(k)
    \/ \E k, a, b \in KeyIds : Otar(k, <<a, b>>)
    \/ \E spi \in Spis :
          \/ Create(spi) \/ Delete(spi) \/ StartSa(spi) \/ StopSa(spi) \/ ExpireSa(spi)
          \/ \E k \in KeyIds : Rekey(spi, k)
          \/ \E arsn \in Arsns : SetArsn(spi, arsn)

KeysSpec == KeysInit /\ [][KeysNext]_keys_vars
-----------------------------------------------------------------------------
\* An association that is used has a key, and keeps it until it is stopped:
\* no sequence of procedures leaves it Operational without one.
OperationalHasKey ==
    \A spi \in DOMAIN sas :
        sas[spi].state # "Unkeyed" <=> sas[spi].key # NoKey

Age(ring, k) ==
    IF k \notin DOMAIN ring THEN 0
    ELSE CASE ring[k] = "Preactive" -> 1 [] ring[k] = "Active" -> 2
           [] ring[k] = "Deactivated" -> 3 [] ring[k] = "Destroyed" -> 4

\* The life of a key id goes one way: no load, and no OTAR block, complete or
\* given up halfway, brings a key back that was active, deactivated or destroyed.
KeysOnlyAge == [][\A k \in KeyIds : Age(keys, k) <= Age(keys', k)]_keys_vars
=============================================================================
