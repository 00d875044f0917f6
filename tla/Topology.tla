------------------------------ MODULE Topology ------------------------------
(***************************************************************************)
(* What the relay graph promises its users: a map from fingerprints to     *)
(* identity descriptors, a map from pairs of fingerprints to the adjacency *)
(* descriptors both ends signed, and the rule by which old entries leave.  *)
(* There are no numeric ids, no reverse index and no neighbour sets here:  *)
(* those are how RelayGraph represents the two maps.                       *)
(***************************************************************************)
EXTENDS Descriptors

VARIABLES
    identities,      \* fingerprint -> its identity descriptor
    links,           \* <<left, right>> -> the adjacency descriptor
    now              \* the local clock

vars == <<identities, links, now>>

Init ==
    /\ identities = EmptyMap
    /\ links = EmptyMap
    /\ now \in Time

insert_identity(d) ==
    /\ d.sig
    /\ identities' = Put(identities, d.identity_pk, d)
    /\ UNCHANGED <<links, now>>

Acceptable(a) ==
    /\ a.left < a.right
    /\ {a.left, a.right} \subseteq DOMAIN identities
    /\ a.sigs

\* The new link is recorded, then everything that has timed out is dropped,
\* links of a dropped identity included.
insert_adjacency(a) ==
    /\ Acceptable(a)
    /\ LET offered == Put(links, <<a.left, a.right>>, a)
           expired == {f \in DOMAIN identities : Outdated(now, identities[f])}
           dead    == {p \in DOMAIN offered : \/ p[1] \in expired
                                              \/ p[2] \in expired
                                              \/ Outdated(now, offered[p])}
       IN  /\ identities' = Without(identities, expired)
           /\ links' = Without(offered, dead)
    /\ UNCHANGED now

Tick ==
    /\ now < MaxTime
    /\ now' = now + 1
    /\ UNCHANGED <<identities, links>>

Next ==
    \/ \E d \in IdentityDescriptor : insert_identity(d)
    \/ \E a \in AdjacencyDescriptor : insert_adjacency(a)
    \/ Tick

Spec == Init /\ [][Next]_vars

=============================================================================
