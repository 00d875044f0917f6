----------------------------- MODULE Descriptors -----------------------------
(***************************************************************************)
(* The documents nodes sign and gossip about, the clock arithmetic that    *)
(* decides when one is too old, and the map operations used on them.       *)
(***************************************************************************)
EXTENDS Integers, Functions

CONSTANTS
    Fingerprint,     \* fingerprints, as the numbers their bytes spell
    ROUTE_TIMEOUT,   \* age, in ticks, up to which a document is kept
    WORD,            \* modulus of the u64 clock arithmetic
    MaxTime          \* bound: the last instant, and timestamp, considered

ASSUME DescriptorsAssumption ==
    /\ Fingerprint \subseteq Nat
    /\ ROUTE_TIMEOUT \in Nat
    /\ MaxTime \in Nat
    /\ WORD \in Nat
    /\ MaxTime + ROUTE_TIMEOUT < WORD

Time == 0..MaxTime

\* `sig` (`sigs`) says whether the signature (both signatures) verify. The
\* timestamp is the signer's clock, which may be ahead of ours or behind.
IdentityDescriptor ==
    [identity_pk : Fingerprint, unix_timestamp : Time, sig : BOOLEAN]
AdjacencyDescriptor ==
    [left : Fingerprint, right : Fingerprint, unix_timestamp : Time, sigs : BOOLEAN]

\* `now - unix_timestamp > ROUTE_TIMEOUT` on u64: the difference wraps.
Outdated(clock, descriptor) ==
    (clock - descriptor.unix_timestamp) % WORD > ROUTE_TIMEOUT

EmptyMap == [key \in {} |-> key]

\* HashMap::insert.
Put(map, key, value) ==
    [x \in DOMAIN map \cup {key} |-> IF x = key THEN value ELSE map[x]]

\* HashMap::remove of every key in keys.
Without(map, keys) == Restrict(map, DOMAIN map \ keys)

=============================================================================
