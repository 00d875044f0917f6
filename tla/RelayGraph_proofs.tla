-------------------------- MODULE RelayGraph_proofs --------------------------
(***************************************************************************)
(* Proofs that the representation invariant of the relay graph holds after *)
(* any sequence of calls.                                                  *)
(***************************************************************************)
EXTENDS RelayGraph, TLAPS

\* The wrapped u64 subtraction calls every timestamp of the future outdated.
LEMMA FutureIsOutdated ==
    ASSUME NEW clock \in Time, NEW d, d.unix_timestamp \in Time,
           ~Outdated(clock, d)
    PROVE  d.unix_timestamp <= clock
  <1> DEFINE ts == d.unix_timestamp
  <1> SUFFICES ASSUME ts > clock PROVE FALSE
    BY DescriptorsAssumption DEF Time
  <1>1. ts \in Nat /\ clock \in Nat /\ ts <= MaxTime /\ WORD \in Nat /\ ROUTE_TIMEOUT \in Nat
        /\ MaxTime \in Nat /\ MaxTime + ROUTE_TIMEOUT < WORD
    BY DescriptorsAssumption DEF Time
  <1>2. (clock - ts) % WORD = clock - ts + WORD
    BY <1>1
  <1>3. clock - ts + WORD > ROUTE_TIMEOUT
    BY <1>1
  <1> QED BY <1>2, <1>3 DEF Outdated

-----------------------------------------------------------------------------
\* The empty graph satisfies the representation invariant.
LEMMA InitGraphInv == Init => GraphInv
  BY DescriptorsAssumption
     DEF Init, GraphInv, TypeOK, IndexesAgree, DocumentsFiled, LookupsNeverPanic,
         DocumentsServed, NoFutureLinks, EmptyMap, Time

\* insert_identity keeps the representation invariant, whether it allocates
\* an id or replaces the descriptor of a known fingerprint.
LEMMA InsertIdentityGraphInv ==
    ASSUME GraphInv, NEW d \in IdentityDescriptor, insert_identity(d)
    PROVE  GraphInv'
  <1> DEFINE f == d.identity_pk
             i == alloc_id(f)
  <1> USE DEF GraphInv
  <1>0. f \in Fingerprint
    BY DEF IdentityDescriptor
  <1>1. /\ id_to_descriptor' = Put(id_to_descriptor, i, d)
        /\ adjacency' = adjacency /\ documents' = documents /\ now' = now
    BY DEF insert_identity
  <1>2. CASE f \in DOMAIN fp_to_id
    <2>1. /\ unalloc_id' = unalloc_id /\ fp_to_id' = fp_to_id /\ id_to_fp' = id_to_fp
          /\ i = fp_to_id[f] /\ i \in DOMAIN id_to_fp /\ id_to_fp[i] = f /\ i \in Nat
      BY <1>2 DEF insert_identity, Allocate, alloc_id, IndexesAgree, TypeOK
    <2>2. /\ DOMAIN id_to_descriptor' = DOMAIN id_to_descriptor
          /\ id_to_descriptor'[i] = d
          /\ \A x \in DOMAIN id_to_descriptor \ {i} : id_to_descriptor'[x] = id_to_descriptor[x]
          /\ id_to_descriptor' \in [DOMAIN id_to_descriptor' -> IdentityDescriptor]
      BY <1>1, <2>1 DEF Put, TypeOK, IndexesAgree
    <2>3. TypeOK'
      BY <1>1, <2>1, <2>2 DEF TypeOK
    <2>4. IndexesAgree'
      BY <1>1, <2>1, <2>2 DEF IndexesAgree
    <2> QED
      BY <1>1, <2>1, <2>3, <2>4
         DEF DocumentsFiled, LookupsNeverPanic, DocumentsServed, NoFutureLinks, DocumentKey
  <1>3. CASE f \notin DOMAIN fp_to_id
    <2>1. /\ unalloc_id' = unalloc_id + 1 /\ i = unalloc_id
          /\ fp_to_id' = Put(fp_to_id, f, i) /\ id_to_fp' = Put(id_to_fp, i, f)
          /\ i \in Nat /\ i \notin DOMAIN id_to_fp
      BY <1>3 DEF insert_identity, Allocate, alloc_id, IndexesAgree, TypeOK
    <2>2. /\ DOMAIN id_to_descriptor' = DOMAIN id_to_descriptor \cup {i}
          /\ id_to_descriptor'[i] = d
          /\ \A x \in DOMAIN id_to_descriptor : id_to_descriptor'[x] = id_to_descriptor[x]
          /\ id_to_descriptor' \in [DOMAIN id_to_descriptor' -> IdentityDescriptor]
      BY <1>1, <2>1 DEF Put, TypeOK, IndexesAgree
    <2>3. /\ DOMAIN fp_to_id' = DOMAIN fp_to_id \cup {f}
          /\ fp_to_id'[f] = i
          /\ \A x \in DOMAIN fp_to_id : fp_to_id'[x] = fp_to_id[x]
          /\ fp_to_id' \in [DOMAIN fp_to_id' -> Nat]
      BY <1>3, <2>1 DEF Put, TypeOK
    <2>4. /\ DOMAIN id_to_fp' = DOMAIN id_to_fp \cup {i}
          /\ id_to_fp'[i] = f
          /\ \A x \in DOMAIN id_to_fp : id_to_fp'[x] = id_to_fp[x]
          /\ id_to_fp' \in [DOMAIN id_to_fp' -> Fingerprint]
      BY <1>0, <2>1 DEF Put, TypeOK
    <2>5. TypeOK'
      BY <1>0, <1>1, <2>1, <2>2, <2>3, <2>4 DEF TypeOK
    <2>6. IndexesAgree'
      BY <1>1, <1>3, <2>1, <2>2, <2>3, <2>4 DEF IndexesAgree, TypeOK
    <2>7. DocumentsFiled' /\ DocumentsServed' /\ NoFutureLinks'
      BY <1>1, <2>4 DEF DocumentsFiled, DocumentsServed, NoFutureLinks
    <2>8. LookupsNeverPanic'
      <3> SUFFICES ASSUME NEW x \in DOMAIN adjacency, NEW y \in adjacency[x]
                   PROVE  DocumentKey(x, y)' = DocumentKey(x, y)
        BY <1>1, <2>4 DEF LookupsNeverPanic
      <3> QED BY <2>4 DEF LookupsNeverPanic, DocumentKey
    <2> QED BY <2>5, <2>6, <2>7, <2>8
  <1> QED BY <1>2, <1>3

-----------------------------------------------------------------------------
\* What insert_adjacency(a) works on: the ids of the two ends, the documents
\* with a among them, and what cleanup finds outdated.
LeftId(a) == fp_to_id[a.left]
RightId(a) == fp_to_id[a.right]
Offered(a) == Put(documents, <<LeftId(a), RightId(a)>>, a)
OldDocuments(a) == outdated_documents(Offered(a))

\* insert_adjacency allocates no id, and each map it leaves is the map before
\* without the outdated entries.
LEMMA AdjacencyStep ==
    ASSUME GraphInv, NEW a \in AdjacencyDescriptor, insert_adjacency(a)
    PROVE  /\ a.left \in DOMAIN fp_to_id /\ a.right \in DOMAIN fp_to_id
           /\ a.left < a.right /\ a.left \in Nat /\ a.right \in Nat /\ a.sigs
           /\ alloc_id(a.left) = LeftId(a) /\ alloc_id(a.right) = RightId(a)
           /\ LeftId(a) \in DOMAIN id_to_fp /\ RightId(a) \in DOMAIN id_to_fp
           /\ id_to_fp[LeftId(a)] = a.left /\ id_to_fp[RightId(a)] = a.right
           /\ LeftId(a) # RightId(a) /\ LeftId(a) \in Nat /\ RightId(a) \in Nat
           /\ unalloc_id' = unalloc_id /\ now' = now
           /\ outdated_identities \subseteq DOMAIN id_to_fp
           /\ id_to_descriptor' = Without(id_to_descriptor, outdated_identities)
           /\ id_to_fp' = Without(id_to_fp, outdated_identities)
           /\ fp_to_id' = Without(fp_to_id, {id_to_fp[i] : i \in outdated_identities})
           /\ documents' = Without(Offered(a), OldDocuments(a))
  <1> USE DEF GraphInv
  <1>1. /\ a.left \in DOMAIN fp_to_id /\ a.right \in DOMAIN fp_to_id
        /\ a.left < a.right /\ a.left \in Nat /\ a.right \in Nat /\ a.sigs
        /\ alloc_id(a.left) = LeftId(a) /\ alloc_id(a.right) = RightId(a)
    BY DescriptorsAssumption
       DEF insert_adjacency, verify_adjacency, HasIdentity, alloc_id, AdjacencyDescriptor,
           LeftId, RightId
  <1>2. /\ LeftId(a) \in DOMAIN id_to_fp /\ RightId(a) \in DOMAIN id_to_fp
        /\ id_to_fp[LeftId(a)] = a.left /\ id_to_fp[RightId(a)] = a.right
        /\ LeftId(a) # RightId(a) /\ LeftId(a) \in Nat /\ RightId(a) \in Nat
    BY <1>1 DEF IndexesAgree, TypeOK, LeftId, RightId
  <1>3. outdated_identities \subseteq DOMAIN id_to_fp
    BY DEF outdated_identities, IndexesAgree
  <1>4. outdated_identities \cap DOMAIN id_to_fp = outdated_identities
    BY <1>3
  <1>5. /\ id_to_descriptor' = Without(id_to_descriptor, outdated_identities)
        /\ id_to_fp' = Without(id_to_fp, outdated_identities)
        /\ fp_to_id' = Without(fp_to_id, {id_to_fp[i] : i \in outdated_identities \cap DOMAIN id_to_fp})
        /\ documents' = Without(Offered(a), OldDocuments(a))
        /\ unalloc_id' = unalloc_id /\ now' = now
    BY <1>1 DEF insert_adjacency, cleanup, outdated_identities, outdated_documents, remaining, OldDocuments, Offered
  <1> QED BY <1>1, <1>2, <1>3, <1>4, <1>5

\* insert_adjacency, its trailing cleanup included, keeps the representation
\* invariant.
LEMMA InsertAdjacencyGraphInv ==
    ASSUME GraphInv, NEW a \in AdjacencyDescriptor, insert_adjacency(a)
    PROVE  GraphInv'
  <1> DEFINE l == LeftId(a)
             r == RightId(a)
             joined == Join(Join(adjacency, l, r), r, l)
             docs == Offered(a)
             oldIds == outdated_identities
             oldDocs == OldDocuments(a)
             kept(i) == {j \in joined[i] : {<<i, j>>, <<j, i>>} \cap oldDocs = {}}
  <1> USE DEF GraphInv
  <1>1. /\ a.left \in DOMAIN fp_to_id /\ a.right \in DOMAIN fp_to_id
        /\ a.left < a.right /\ a.left \in Nat /\ a.right \in Nat
    BY AdjacencyStep
  <1>2. /\ l \in DOMAIN id_to_fp /\ r \in DOMAIN id_to_fp
        /\ id_to_fp[l] = a.left /\ id_to_fp[r] = a.right
        /\ l # r /\ l \in Nat /\ r \in Nat
    BY AdjacencyStep
  <1>3. /\ id_to_descriptor' = Without(id_to_descriptor, oldIds)
        /\ id_to_fp' = Without(id_to_fp, oldIds)
        /\ fp_to_id' = Without(fp_to_id, {id_to_fp[i] : i \in oldIds})
        /\ documents' = Without(docs, oldDocs)
        /\ adjacency' = [i \in {k \in DOMAIN joined : kept(k) # {}} |-> kept(i)]
        /\ unalloc_id' = unalloc_id /\ now' = now
    <2>1. alloc_id(a.left) = l /\ alloc_id(a.right) = r
      BY AdjacencyStep
    <2>2. adjacency' = [i \in {k \in DOMAIN joined : kept(k) # {}} |-> kept(i)]
      BY <2>1 DEF insert_adjacency, cleanup, outdated_identities, outdated_documents, remaining, Offered, OldDocuments
    <2> QED BY <2>2, AdjacencyStep
  <1> HIDE DEF l, r, joined, docs, oldIds, oldDocs, kept
  \* The neighbour sets and the documents before anything is dropped.
  <1>4. /\ DOMAIN joined = DOMAIN adjacency \cup {l, r}
        /\ \A i \in DOMAIN joined : \A j :
              j \in joined[i] <=> \/ i \in DOMAIN adjacency /\ j \in adjacency[i]
                                  \/ i = l /\ j = r
                                  \/ i = r /\ j = l
    <2> DEFINE half == Join(adjacency, l, r)
    <2>1. /\ DOMAIN half = DOMAIN adjacency \cup {l}
          /\ half[l] = (IF l \in DOMAIN adjacency THEN adjacency[l] ELSE {}) \cup {r}
          /\ \A i \in DOMAIN adjacency : i # l => half[i] = adjacency[i]
      BY DEF Join, Put
    <2>2. /\ DOMAIN joined = DOMAIN half \cup {r}
          /\ joined[r] = (IF r \in DOMAIN half THEN half[r] ELSE {}) \cup {l}
          /\ \A i \in DOMAIN half : i # r => joined[i] = half[i]
      BY DEF joined, Join, Put
    <2> HIDE DEF half
    <2>3. ASSUME NEW i \in DOMAIN joined, NEW j
          PROVE  j \in joined[i] <=> \/ i \in DOMAIN adjacency /\ j \in adjacency[i]
                                     \/ i = l /\ j = r
                                     \/ i = r /\ j = l
      <3>1. CASE i = l
        BY <1>2, <2>1, <2>2, <3>1
      <3>2. CASE i = r
        BY <1>2, <2>1, <2>2, <3>2
      <3>3. CASE i # l /\ i # r
        BY <1>2, <2>1, <2>2, <3>3
      <3> QED BY <3>1, <3>2, <3>3
    <2> QED BY <2>1, <2>2, <2>3
  <1>5. /\ DOMAIN docs = DOMAIN documents \cup {<<l, r>>}
        /\ docs[<<l, r>>] = a
        /\ \A p \in DOMAIN documents : p # <<l, r>> => docs[p] = documents[p]
    BY DEF docs, Offered, l, r, Put
  <1>6. \A p \in DOMAIN docs :
          /\ p = <<p[1], p[2]>> /\ p[1] \in Nat /\ p[2] \in Nat
          /\ p[1] \in DOMAIN id_to_fp /\ p[2] \in DOMAIN id_to_fp
          /\ docs[p] \in AdjacencyDescriptor
          /\ docs[p].left = id_to_fp[p[1]] /\ docs[p].right = id_to_fp[p[2]]
          /\ docs[p].left < docs[p].right
          /\ p[1] \in DOMAIN joined /\ p[2] \in joined[p[1]]
    <2> SUFFICES ASSUME NEW p \in DOMAIN docs
                 PROVE <1>6!(p)
      OBVIOUS
    <2>1. CASE p = <<l, r>>
      <3>1. p[1] = l /\ p[2] = r
        BY <2>1
      <3> QED BY <1>1, <1>2, <1>4, <1>5, <2>1, <3>1
    <2>2. CASE p # <<l, r>>
      <3>1. p \in DOMAIN documents /\ docs[p] = documents[p]
        BY <1>5, <2>2
      <3>2. p \in Nat \X Nat /\ documents[p] \in AdjacencyDescriptor
        BY <3>1 DEF TypeOK
      <3>3. p[1] \in DOMAIN adjacency /\ p[2] \in adjacency[p[1]]
        BY <3>1 DEF DocumentsServed
      <3> QED BY <1>4, <3>1, <3>2, <3>3 DEF DocumentsFiled
    <2> QED BY <2>1, <2>2
  <1>7. \A i \in DOMAIN joined : \A j \in joined[i] :
          /\ i \in DOMAIN id_to_fp /\ j \in DOMAIN joined /\ i \in joined[j]
          /\ DocumentKey(i, j) \in DOMAIN docs
    <2> SUFFICES ASSUME NEW i \in DOMAIN joined, NEW j \in joined[i]
                 PROVE <1>7!(i)!(j)
      OBVIOUS
    <2>1. CASE i \in DOMAIN adjacency /\ j \in adjacency[i]
      BY <1>4, <1>5, <2>1 DEF LookupsNeverPanic
    <2>2. CASE i = l /\ j = r
      BY <1>1, <1>2, <1>4, <1>5, <2>2 DEF DocumentKey
    <2>3. CASE i = r /\ j = l
      BY <1>1, <1>2, <1>4, <1>5, <2>3 DEF DocumentKey
    <2> QED BY <1>4, <2>1, <2>2, <2>3
  \* What is left afterwards.
  <1>8. oldIds \subseteq DOMAIN id_to_fp /\ oldIds \subseteq Nat
    BY AdjacencyStep DEF oldIds, TypeOK
  <1>9. /\ DOMAIN id_to_descriptor' = DOMAIN id_to_descriptor \ oldIds
        /\ \A i \in DOMAIN id_to_descriptor' : id_to_descriptor'[i] = id_to_descriptor[i]
        /\ DOMAIN id_to_fp' = DOMAIN id_to_fp \ oldIds
        /\ \A i \in DOMAIN id_to_fp' : id_to_fp'[i] = id_to_fp[i]
        /\ DOMAIN fp_to_id' = DOMAIN fp_to_id \ {id_to_fp[i] : i \in oldIds}
        /\ \A f \in DOMAIN fp_to_id' : fp_to_id'[f] = fp_to_id[f]
        /\ DOMAIN documents' = DOMAIN docs \ oldDocs
        /\ \A p \in DOMAIN documents' : documents'[p] = docs[p]
    BY <1>3, <1>8 DEF Without, Restrict
  <1>10. /\ id_to_descriptor' \in [DOMAIN id_to_descriptor' -> IdentityDescriptor]
         /\ id_to_fp' \in [DOMAIN id_to_fp' -> Fingerprint]
         /\ fp_to_id' \in [DOMAIN fp_to_id' -> Nat]
    BY <1>3 DEF Without, Restrict, TypeOK
  <1>11. documents' \in [DOMAIN documents' -> AdjacencyDescriptor]
    BY <1>3, <1>6 DEF Without, Restrict
  <1>12. \A p \in DOMAIN documents' :
           p[1] \notin oldIds /\ p[2] \notin oldIds /\ ~Outdated(now, docs[p])
    BY <1>9 DEF oldDocs, OldDocuments, outdated_documents, oldIds, docs
  <1>13. \A i : i \in DOMAIN adjacency' <=> i \in DOMAIN joined /\ kept(i) # {}
    BY <1>3
  <1>14. \A i \in DOMAIN adjacency' : adjacency'[i] = kept(i)
    BY <1>3
  <1>15. \A i \in DOMAIN joined : \A j : j \in kept(i) <=>
           j \in joined[i] /\ <<i, j>> \notin oldDocs /\ <<j, i>> \notin oldDocs
    BY DEF kept
  <1>16. TypeOK'
    <2>1. adjacency' \in [DOMAIN adjacency' -> SUBSET Nat]
      <3>1. \A i \in DOMAIN joined : i \in Nat /\ joined[i] \in SUBSET Nat
        BY <1>2, <1>4 DEF TypeOK
      <3>2. \A i \in DOMAIN joined : kept(i) \in SUBSET Nat
        BY <3>1, <1>15
      <3> QED BY <1>3, <3>2
    <2>2. DOMAIN adjacency' \subseteq Nat
      BY <1>2, <1>4, <1>13 DEF TypeOK
    <2>3. DOMAIN documents' \subseteq Nat \X Nat
      BY <1>2, <1>5, <1>9 DEF TypeOK
    <2>4. /\ DOMAIN fp_to_id' \subseteq Fingerprint
          /\ DOMAIN id_to_fp' \subseteq Nat
          /\ DOMAIN id_to_descriptor' \subseteq Nat
          /\ unalloc_id' \in Nat /\ now' \in Time
      BY <1>3, <1>9 DEF TypeOK
    <2> QED
      BY <1>10, <1>11, <2>1, <2>2, <2>3, <2>4 DEF TypeOK
  <1>17. IndexesAgree'
    <2>1. DOMAIN id_to_descriptor' = DOMAIN id_to_fp'
      BY <1>9 DEF IndexesAgree
    <2>2. \A f \in DOMAIN fp_to_id' :
            fp_to_id'[f] \in DOMAIN id_to_fp' /\ id_to_fp'[fp_to_id'[f]] = f
      BY <1>9 DEF IndexesAgree
    <2>3. ASSUME NEW i \in DOMAIN id_to_fp'
          PROVE  /\ id_to_fp'[i] \in DOMAIN fp_to_id'
                 /\ fp_to_id'[id_to_fp'[i]] = i
                 /\ i < unalloc_id'
      <3>1. i \in DOMAIN id_to_fp /\ i \notin oldIds /\ id_to_fp'[i] = id_to_fp[i]
        BY <1>9
      <3>2. id_to_fp[i] \notin {id_to_fp[k] : k \in oldIds}
        BY <1>8, <3>1 DEF IndexesAgree
      <3> QED BY <1>3, <1>9, <3>1, <3>2 DEF IndexesAgree
    <2>4. \A i \in DOMAIN id_to_fp' : id_to_descriptor'[i].identity_pk = id_to_fp'[i]
      BY <1>9, <2>1 DEF IndexesAgree
    <2> QED BY <2>1, <2>2, <2>3, <2>4 DEF IndexesAgree
  <1>18. DocumentsFiled'
    BY <1>6, <1>9, <1>12 DEF DocumentsFiled
  <1>19. ASSUME NEW i \in DOMAIN adjacency', NEW j \in adjacency'[i]
         PROVE  /\ i \in DOMAIN id_to_fp' /\ j \in DOMAIN id_to_fp'
                /\ j \in DOMAIN adjacency' /\ i \in adjacency'[j]
                /\ DocumentKey(i, j)' \in DOMAIN documents'
    <2>1. /\ i \in DOMAIN joined /\ j \in joined[i]
          /\ <<i, j>> \notin oldDocs /\ <<j, i>> \notin oldDocs
      BY <1>13, <1>14, <1>15, <1>19
    <2>2. /\ i \in DOMAIN id_to_fp /\ j \in DOMAIN joined /\ i \in joined[j]
          /\ DocumentKey(i, j) \in DOMAIN docs
      BY <1>7, <2>1
    <2>3. DocumentKey(i, j) = <<i, j>> \/ DocumentKey(i, j) = <<j, i>>
      BY DEF DocumentKey
    <2>4. DocumentKey(i, j) \in DOMAIN documents'
      BY <1>9, <2>1, <2>2, <2>3
    <2>5. i \in DOMAIN id_to_fp' /\ j \in DOMAIN id_to_fp'
      BY <1>6, <1>9, <1>12, <2>2, <2>3, <2>4
    <2>6. DocumentKey(i, j)' = DocumentKey(i, j)
      BY <1>9, <2>5 DEF DocumentKey
    <2>7. i \in kept(j)
      BY <1>15, <2>1, <2>2
    <2> QED
      BY <1>13, <1>14, <2>2, <2>4, <2>5, <2>6, <2>7
  <1>20. LookupsNeverPanic'
    <2>1. \A i \in DOMAIN adjacency' : adjacency'[i] # {}
      BY <1>13, <1>14
    <2> QED BY <1>19, <2>1 DEF LookupsNeverPanic
  <1>21. DocumentsServed'
    <2> SUFFICES ASSUME NEW p \in DOMAIN documents'
                 PROVE  p[1] \in DOMAIN adjacency' /\ p[2] \in adjacency'[p[1]]
      BY DEF DocumentsServed
    <2>1. /\ p = <<p[1], p[2]>> /\ p \in DOMAIN docs /\ p \notin oldDocs
          /\ p[1] \in DOMAIN joined /\ p[2] \in joined[p[1]]
      BY <1>6, <1>9
    <2>2. <<p[2], p[1]>> \notin DOMAIN docs
      <3> SUFFICES ASSUME <<p[2], p[1]>> \in DOMAIN docs PROVE FALSE
        OBVIOUS
      <3>1. id_to_fp[p[1]] < id_to_fp[p[2]] /\ id_to_fp[p[2]] < id_to_fp[p[1]]
        BY <1>6, <2>1
      <3>2. id_to_fp[p[1]] \in Nat /\ id_to_fp[p[2]] \in Nat
        BY <1>6, <2>1, DescriptorsAssumption DEF TypeOK
      <3> QED BY <3>1, <3>2
    <2>3. p[2] \in kept(p[1])
      BY <1>15, <2>1, <2>2 DEF oldDocs, OldDocuments, outdated_documents, docs
    <2> QED BY <1>13, <1>14, <2>1, <2>3
  <1>22. NoFutureLinks'
    <2> SUFFICES ASSUME NEW p \in DOMAIN documents'
                 PROVE  documents'[p].unix_timestamp <= now
      BY <1>3 DEF NoFutureLinks
    <2>1. docs[p] \in AdjacencyDescriptor /\ ~Outdated(now, docs[p]) /\ documents'[p] = docs[p]
      BY <1>6, <1>9, <1>12
    <2>2. docs[p].unix_timestamp \in Time /\ now \in Time
      BY <2>1 DEF AdjacencyDescriptor, TypeOK
    <2> QED BY <2>1, <2>2, FutureIsOutdated
  <1> QED BY <1>16, <1>17, <1>18, <1>20, <1>21, <1>22

-----------------------------------------------------------------------------
\* The representation invariant of the relay graph holds in every reachable
\* state, for any number of nodes, any clock skew and any order of calls.
THEOREM GraphInvariant == Spec => []GraphInv
  <1>1. Init => GraphInv
    BY InitGraphInv
  <1>2. GraphInv /\ [Next]_vars => GraphInv'
    <2> SUFFICES ASSUME GraphInv, [Next]_vars PROVE GraphInv'
      OBVIOUS
    <2>1. CASE \E d \in IdentityDescriptor : insert_identity(d)
      BY <2>1, InsertIdentityGraphInv
    <2>2. CASE \E a \in AdjacencyDescriptor : insert_adjacency(a)
      BY <2>2, InsertAdjacencyGraphInv
    <2>3. CASE refused \/ UNCHANGED vars
      BY <2>3 DEF refused, vars, graph, GraphInv, TypeOK, IndexesAgree, DocumentsFiled,
                  LookupsNeverPanic, DocumentKey, DocumentsServed, NoFutureLinks
    <2>4. CASE Tick
      <3>1. now' \in Time /\ now' = now + 1 /\ now \in Nat
        BY <2>4, DescriptorsAssumption DEF Tick, Time, GraphInv, TypeOK
      <3>2. NoFutureLinks'
        <4> SUFFICES ASSUME NEW p \in DOMAIN documents
                     PROVE  documents[p].unix_timestamp <= now'
          BY <2>4 DEF Tick, graph, NoFutureLinks
        <4>1. documents[p].unix_timestamp \in Nat
          BY DescriptorsAssumption DEF GraphInv, TypeOK, AdjacencyDescriptor, Time
        <4> QED BY <3>1, <4>1 DEF GraphInv, NoFutureLinks
      <3> QED
        BY <2>4, <3>1, <3>2 DEF Tick, graph, GraphInv, TypeOK, IndexesAgree, DocumentsFiled,
                           LookupsNeverPanic, DocumentKey, DocumentsServed
    <2> QED BY <2>1, <2>2, <2>3, <2>4 DEF Next
  <1> QED BY <1>1, <1>2, PTL DEF Spec

-----------------------------------------------------------------------------
\* How the abstract maps read the concrete ones: each document is the link of
\* the two fingerprints its ids stand for, and of no others.
LinkView ==
    /\ \A p \in DOMAIN documents :
         /\ <<id_to_fp[p[1]], id_to_fp[p[2]]>> \in DOMAIN links
         /\ links[<<id_to_fp[p[1]], id_to_fp[p[2]]>>] = documents[p]
    /\ \A e \in DOMAIN links :
         /\ e = <<e[1], e[2]>>
         /\ e[1] \in DOMAIN fp_to_id /\ e[2] \in DOMAIN fp_to_id
         /\ <<fp_to_id[e[1]], fp_to_id[e[2]]>> \in DOMAIN documents
         /\ links[e] = documents[<<fp_to_id[e[1]], fp_to_id[e[2]]>>]

\* The links of the abstract graph are the filed documents, one to one.
LEMMA LinksOfDocuments == GraphInv => LinkView
  <1> SUFFICES ASSUME GraphInv PROVE LinkView
    OBVIOUS
  <1>1. ASSUME NEW p \in DOMAIN documents
        PROVE  /\ p = <<p[1], p[2]>>
               /\ id_to_fp[p[1]] \in DOMAIN fp_to_id /\ fp_to_id[id_to_fp[p[1]]] = p[1]
               /\ id_to_fp[p[2]] \in DOMAIN fp_to_id /\ fp_to_id[id_to_fp[p[2]]] = p[2]
    BY DEF GraphInv, TypeOK, IndexesAgree, DocumentsFiled
  <1>2. ASSUME NEW e \in DOMAIN links
        PROVE  \E p \in DOMAIN documents : e = <<id_to_fp[p[1]], id_to_fp[p[2]]>>
    BY DEF links
  <1>3. \A e \in DOMAIN links : links[e] = documents[<<fp_to_id[e[1]], fp_to_id[e[2]]>>]
    BY DEF links
  <1>4. \A p \in DOMAIN documents : <<id_to_fp[p[1]], id_to_fp[p[2]]>> \in DOMAIN links
    BY DEF links
  <1>5. ASSUME NEW e \in DOMAIN links
        PROVE  /\ e = <<e[1], e[2]>>
               /\ e[1] \in DOMAIN fp_to_id /\ e[2] \in DOMAIN fp_to_id
               /\ <<fp_to_id[e[1]], fp_to_id[e[2]]>> \in DOMAIN documents
    <2>1. PICK p \in DOMAIN documents : e = <<id_to_fp[p[1]], id_to_fp[p[2]]>>
      BY <1>2
    <2> QED BY <1>1, <2>1
  <1>6. ASSUME NEW p \in DOMAIN documents
        PROVE  links[<<id_to_fp[p[1]], id_to_fp[p[2]]>>] = documents[p]
    BY <1>1, <1>3, <1>4
  <1> QED BY <1>3, <1>4, <1>5, <1>6 DEF LinkView

\* An insert_identity of the indexed graph is one of the abstract maps.
LEMMA IdentityRefines ==
    ASSUME GraphInv, GraphInv', NEW d \in IdentityDescriptor, insert_identity(d)
    PROVE  T!insert_identity(d)
  <1> DEFINE f == d.identity_pk
             i == alloc_id(f)
  <1>1. /\ d.sig /\ now' = now /\ documents' = documents
        /\ id_to_descriptor' = Put(id_to_descriptor, i, d)
    BY DEF insert_identity
  <1>2. /\ DOMAIN fp_to_id' = DOMAIN fp_to_id \cup {f}
        /\ fp_to_id'[f] = i
        /\ \A g \in DOMAIN fp_to_id : fp_to_id'[g] = fp_to_id[g]
        /\ \A k \in DOMAIN id_to_fp : k \in DOMAIN id_to_fp' /\ id_to_fp'[k] = id_to_fp[k]
    <2>1. CASE f \in DOMAIN fp_to_id
      BY <2>1 DEF insert_identity, Allocate, alloc_id
    <2>2. CASE f \notin DOMAIN fp_to_id
      BY <2>2 DEF insert_identity, Allocate, alloc_id, Put, GraphInv, IndexesAgree, TypeOK
    <2> QED BY <2>1, <2>2
  <1>3. \A g \in DOMAIN fp_to_id : g # f => fp_to_id[g] # i
    BY <1>2 DEF GraphInv, IndexesAgree
  <1>4. identities' = T!Put(identities, f, d)
    <2>1. \A g \in DOMAIN fp_to_id' : id_to_descriptor'[fp_to_id'[g]] =
            (IF g = f THEN d ELSE id_to_descriptor[fp_to_id[g]])
      BY <1>1, <1>2, <1>3 DEF Put, GraphInv, IndexesAgree
    <2> QED BY <1>2, <2>1 DEF identities, T!Put
  <1>5. links' = links
    <2>1. \A p \in DOMAIN documents :
            id_to_fp'[p[1]] = id_to_fp[p[1]] /\ id_to_fp'[p[2]] = id_to_fp[p[2]]
      BY <1>2 DEF GraphInv, DocumentsFiled
    <2>2. {<<id_to_fp[p[1]], id_to_fp[p[2]]>> : p \in DOMAIN documents}' =
          {<<id_to_fp[p[1]], id_to_fp[p[2]]>> : p \in DOMAIN documents}
      BY <1>1, <2>1
    <2>3. DOMAIN links' = DOMAIN links
      BY <2>2 DEF links
    <2>4. ASSUME NEW e \in DOMAIN links
          PROVE  links'[e] = links[e]
      <3>1. e[1] \in DOMAIN fp_to_id /\ e[2] \in DOMAIN fp_to_id
        BY LinksOfDocuments DEF LinkView
      <3> QED BY <1>1, <1>2, <2>3, <3>1 DEF links
    <2> QED BY <2>3, <2>4 DEF links
  <1> QED BY <1>1, <1>4, <1>5 DEF T!insert_identity

\* An insert_adjacency with its cleanup is one of the abstract maps.
LEMMA AdjacencyRefines ==
    ASSUME GraphInv, GraphInv', NEW a \in AdjacencyDescriptor, insert_adjacency(a)
    PROVE  T!insert_adjacency(a)
  <1> DEFINE key == <<a.left, a.right>>
             offered == T!Put(links, key, a)
             expired == {f \in DOMAIN identities : T!Outdated(now, identities[f])}
             dead == {p \in DOMAIN offered : \/ p[1] \in expired
                                             \/ p[2] \in expired
                                             \/ T!Outdated(now, offered[p])}
             idOf(e) == <<fp_to_id[e[1]], fp_to_id[e[2]]>>
  <1>0. /\ \A f \in DOMAIN fp_to_id :
             fp_to_id[f] \in DOMAIN id_to_fp /\ id_to_fp[fp_to_id[f]] = f
        /\ \A i \in DOMAIN id_to_fp :
             id_to_fp[i] \in DOMAIN fp_to_id /\ fp_to_id[id_to_fp[i]] = i
        /\ DOMAIN id_to_descriptor = DOMAIN id_to_fp
        /\ outdated_identities \subseteq DOMAIN id_to_fp
        /\ a.left \in DOMAIN fp_to_id /\ a.right \in DOMAIN fp_to_id
    BY AdjacencyStep DEF GraphInv, IndexesAgree
  <1>1. \A d : T!Outdated(now, d) = Outdated(now, d)
    BY DEF T!Outdated, Outdated
  <1>2. T!Acceptable(a) /\ now' = now
    BY AdjacencyStep DEF T!Acceptable, identities
  <1>3. /\ DOMAIN identities = DOMAIN fp_to_id
        /\ \A f \in DOMAIN fp_to_id : identities[f] = id_to_descriptor[fp_to_id[f]]
    BY DEF identities
  <1>4. \A f \in DOMAIN fp_to_id : f \in expired <=> fp_to_id[f] \in outdated_identities
    BY <1>1, <1>3 DEF outdated_identities, GraphInv, IndexesAgree
  <1>5. \A f \in DOMAIN fp_to_id : f \in {id_to_fp[i] : i \in outdated_identities} <=> fp_to_id[f] \in outdated_identities
    BY <1>0
  <1>6. /\ DOMAIN fp_to_id' = DOMAIN fp_to_id \ expired
        /\ \A f \in DOMAIN fp_to_id' : fp_to_id'[f] = fp_to_id[f]
    BY <1>4, <1>5, AdjacencyStep DEF Without, Restrict
  <1>7. /\ \A i \in DOMAIN id_to_descriptor \ outdated_identities : id_to_descriptor'[i] = id_to_descriptor[i]
        /\ \A i \in DOMAIN id_to_fp \ outdated_identities : id_to_fp'[i] = id_to_fp[i]
        /\ DOMAIN id_to_fp' = DOMAIN id_to_fp \ outdated_identities
    BY AdjacencyStep DEF Without, Restrict
  <1> HIDE DEF expired
  <1>8. identities' = T!Without(identities, expired)
    <2>1. \A f \in DOMAIN fp_to_id \ expired :
            id_to_descriptor'[fp_to_id'[f]] = identities[f]
      BY <1>3, <1>4, <1>6, <1>7 DEF GraphInv, IndexesAgree
    <2>2. identities' = [f \in DOMAIN fp_to_id \ expired |-> identities[f]]
      BY <1>6, <2>1 DEF identities
    <2> QED BY <1>3, <2>2 DEF T!Without, T!Restrict
  \* The documents with a among them, read as links.
  <1>9. /\ DOMAIN offered = DOMAIN links \cup {key}
        /\ offered[key] = a
        /\ \A e \in DOMAIN links : e # key => offered[e] = links[e]
    BY DEF T!Put
  <1> HIDE DEF offered
  <1>10. /\ DOMAIN Offered(a) = DOMAIN documents \cup {idOf(key)}
         /\ Offered(a)[idOf(key)] = a
         /\ \A p \in DOMAIN documents : p # idOf(key) => Offered(a)[p] = documents[p]
    BY DEF Offered, Put, LeftId, RightId
  <1>11. ASSUME NEW e \in DOMAIN offered
         PROVE  /\ e = <<e[1], e[2]>>
                /\ e[1] \in DOMAIN fp_to_id /\ e[2] \in DOMAIN fp_to_id
                /\ idOf(e) \in DOMAIN Offered(a)
                /\ offered[e] = Offered(a)[idOf(e)]
    <2>1. CASE e = key
      BY <1>9, <1>10, <2>1, AdjacencyStep
    <2>2. CASE e # key
      <3>1. /\ e \in DOMAIN links /\ e = <<e[1], e[2]>>
            /\ e[1] \in DOMAIN fp_to_id /\ e[2] \in DOMAIN fp_to_id
            /\ idOf(e) \in DOMAIN documents /\ links[e] = documents[idOf(e)]
        BY <1>9, <2>2, LinksOfDocuments DEF LinkView
      <3>2. idOf(e) # idOf(key)
        <4>1. e[1] # a.left \/ e[2] # a.right
          BY <2>2, <3>1
        <4>2. fp_to_id[e[1]] # fp_to_id[a.left] \/ fp_to_id[e[2]] # fp_to_id[a.right]
          BY <1>0, <3>1, <4>1
        <4> QED BY <4>2
      <3> QED BY <1>9, <1>10, <2>2, <3>1, <3>2
    <2> QED BY <2>1, <2>2
  <1>12. ASSUME NEW e \in DOMAIN offered
         PROVE  e \in dead <=> idOf(e) \in OldDocuments(a)
    BY <1>1, <1>4, <1>11 DEF OldDocuments, outdated_documents
  <1>13. ASSUME NEW p \in DOMAIN Offered(a)
         PROVE  /\ p = <<p[1], p[2]>>
                /\ p[1] \in DOMAIN id_to_fp /\ p[2] \in DOMAIN id_to_fp
                /\ <<id_to_fp[p[1]], id_to_fp[p[2]]>> \in DOMAIN offered
                /\ idOf(<<id_to_fp[p[1]], id_to_fp[p[2]]>>) = p
    <2>1. CASE p = idOf(key)
      <3>1. p[1] = LeftId(a) /\ p[2] = RightId(a) /\ p = <<LeftId(a), RightId(a)>>
        BY <2>1 DEF LeftId, RightId
      <3> QED BY <1>9, <2>1, <3>1, AdjacencyStep
    <2>2. CASE p # idOf(key)
      <3>1. p \in DOMAIN documents
        BY <1>10, <2>2
      <3>2. /\ p = <<p[1], p[2]>>
            /\ p[1] \in DOMAIN id_to_fp /\ p[2] \in DOMAIN id_to_fp
        BY <3>1 DEF GraphInv, TypeOK, DocumentsFiled
      <3> QED BY <1>9, <3>1, <3>2, LinksOfDocuments DEF LinkView, GraphInv, IndexesAgree
    <2> QED BY <2>1, <2>2
  <1> HIDE DEF dead
  <1>14. /\ DOMAIN documents' = DOMAIN Offered(a) \ OldDocuments(a)
         /\ \A p \in DOMAIN documents' : documents'[p] = Offered(a)[p]
    BY AdjacencyStep DEF Without, Restrict
  <1>15. \A p \in DOMAIN documents' :
           id_to_fp'[p[1]] = id_to_fp[p[1]] /\ id_to_fp'[p[2]] = id_to_fp[p[2]]
    BY <1>7 DEF GraphInv, DocumentsFiled
  <1>16. DOMAIN links' = DOMAIN offered \ dead
    <2>1. ASSUME NEW e \in DOMAIN links' PROVE e \in DOMAIN offered \ dead
      <3>1. PICK p \in DOMAIN documents' : e = <<id_to_fp[p[1]], id_to_fp[p[2]]>>
        BY <1>15 DEF links
      <3> QED BY <1>12, <1>13, <1>14, <3>1
    <2>2. ASSUME NEW e \in DOMAIN offered \ dead PROVE e \in DOMAIN links'
      <3>1. idOf(e) \in DOMAIN documents'
        BY <1>11, <1>12, <1>14, <2>2
      <3>2. e = <<id_to_fp[idOf(e)[1]], id_to_fp[idOf(e)[2]]>>
        <4>1. /\ e \in DOMAIN offered /\ e = <<e[1], e[2]>>
              /\ e[1] \in DOMAIN fp_to_id /\ e[2] \in DOMAIN fp_to_id
          BY <1>11, <2>2
        <4>2. idOf(e)[1] = fp_to_id[e[1]] /\ idOf(e)[2] = fp_to_id[e[2]]
          OBVIOUS
        <4> QED BY <1>0, <4>1, <4>2
      <3>3. e = <<id_to_fp'[idOf(e)[1]], id_to_fp'[idOf(e)[2]]>>
        BY <1>15, <3>1, <3>2
      <3> QED BY <3>1, <3>3 DEF links
    <2> QED BY <2>1, <2>2
  <1>17. ASSUME NEW e \in DOMAIN links' PROVE links'[e] = offered[e]
    <2>1. /\ e \in DOMAIN offered
          /\ e[1] \in DOMAIN fp_to_id' /\ e[2] \in DOMAIN fp_to_id'
          /\ idOf(e)' \in DOMAIN documents'
          /\ links'[e] = documents'[idOf(e)']
      <3>1. LinkView'
        BY LinksOfDocuments, PTL
      <3> QED BY <1>16, <1>17, <3>1 DEF LinkView
    <2> QED BY <1>6, <1>11, <1>14, <2>1
  <1>18. links' = T!Without(offered, dead)
    BY <1>16, <1>17 DEF links, T!Without, T!Restrict
  <1> QED BY <1>2, <1>8, <1>18 DEF T!insert_adjacency, expired, offered, dead

-----------------------------------------------------------------------------
\* The indexing expressions of adjacencies() and find_shortest_path() never
\* panic.
THEOREM LookupsSafe == Spec => []LookupsNeverPanic
  BY GraphInvariant, PTL DEF GraphInv

\* fp_to_id, id_to_fp and id_to_descriptor always agree.
THEOREM IndexesSafe == Spec => []IndexesAgree
  BY GraphInvariant, PTL DEF GraphInv

\* Every document is filed under the ids of the two fingerprints it names,
\* and is reachable from the neighbour sets.
THEOREM DocumentsSafe == Spec => [](DocumentsFiled /\ DocumentsServed)
  BY GraphInvariant, PTL DEF GraphInv

\* A link dated after the local clock is never left in the graph by
\* insert_adjacency.
THEOREM FutureLinksDropped == Spec => []NoFutureLinks
  BY GraphInvariant, PTL DEF GraphInv

\* No id returned by alloc_id is ever handed to a second fingerprint.
THEOREM IdsStable == Spec => IdsNeverReused
  <1>1. ASSUME GraphInv, [Next]_vars
        PROVE  [\A i \in DOMAIN id_to_fp' :
                  IF i \in DOMAIN id_to_fp THEN id_to_fp'[i] = id_to_fp[i]
                                          ELSE i >= unalloc_id]_vars
    <2>1. ASSUME NEW d \in IdentityDescriptor, insert_identity(d)
          PROVE  \A i \in DOMAIN id_to_fp' :
                  IF i \in DOMAIN id_to_fp THEN id_to_fp'[i] = id_to_fp[i]
                                          ELSE i >= unalloc_id
      BY <1>1, <2>1 DEF insert_identity, Allocate, Put, GraphInv, TypeOK, IndexesAgree
    <2>2. ASSUME NEW a \in AdjacencyDescriptor, insert_adjacency(a)
          PROVE  \A i \in DOMAIN id_to_fp' :
                  IF i \in DOMAIN id_to_fp THEN id_to_fp'[i] = id_to_fp[i]
                                          ELSE i >= unalloc_id
      BY <1>1, <2>2, AdjacencyStep DEF Without, Restrict
    <2>3. CASE refused \/ Tick \/ UNCHANGED vars
      BY <2>3 DEF refused, Tick, vars, graph
    <2> QED BY <1>1, <2>1, <2>2, <2>3 DEF Next
  <1> QED BY <1>1, GraphInvariant, PTL DEF Spec, IdsNeverReused

\* Whenever the set of links changes, every link left joins two nodes whose
\* identity has not timed out.
THEOREM LinksStayLive == Spec => LinksJoinLiveNodes
  <1> DEFINE Live == documents' # documents =>
                 \A p \in DOMAIN documents' : \A i \in {p[1], p[2]} :
                     /\ i \in DOMAIN id_to_descriptor'
                     /\ ~Outdated(now, id_to_descriptor'[i])
  <1>1. ASSUME GraphInv, GraphInv', [Next]_vars
        PROVE  [Live]_vars
    <2>1. ASSUME NEW a \in AdjacencyDescriptor, insert_adjacency(a)
          PROVE  Live
      <3> SUFFICES ASSUME NEW p \in DOMAIN documents', NEW i \in {p[1], p[2]}
                   PROVE  /\ i \in DOMAIN id_to_descriptor'
                          /\ ~Outdated(now, id_to_descriptor'[i])
        OBVIOUS
      <3>1. i \in DOMAIN id_to_descriptor'
        BY <1>1 DEF GraphInv, DocumentsFiled, IndexesAgree
      <3>2. /\ DOMAIN id_to_descriptor' = DOMAIN id_to_descriptor \ outdated_identities
            /\ \A k \in DOMAIN id_to_descriptor' : id_to_descriptor'[k] = id_to_descriptor[k]
        BY <1>1, <2>1, AdjacencyStep DEF Without, Restrict
      <3> QED BY <3>1, <3>2 DEF outdated_identities
    <2>2. CASE \E d \in IdentityDescriptor : insert_identity(d)
      BY <2>2 DEF insert_identity
    <2>3. CASE refused \/ Tick \/ UNCHANGED vars
      BY <2>3 DEF refused, Tick, vars, graph
    <2> QED BY <1>1, <2>1, <2>2, <2>3 DEF Next
  <1> QED BY <1>1, GraphInvariant, PTL DEF Spec, LinksJoinLiveNodes

\* A link leaves the graph only for one of the three reasons cleanup has.
THEOREM LinksLeaveForAReason == Spec => LinkLossExplained
  <1> DEFINE Lost(p) ==
        \/ Outdated(now, documents[p])
        \/ \E i \in {p[1], p[2]} : Outdated(now, id_to_descriptor[i])
        \/ \E a \in AdjacencyDescriptor :
              /\ a.left = documents[p].left /\ a.right = documents[p].right
              /\ Outdated(now, a)
              /\ insert_adjacency(a)
  <1>1. ASSUME GraphInv, [Next]_vars
        PROVE  [\A p \in DOMAIN documents \ DOMAIN documents' : Lost(p)]_vars
    <2>1. ASSUME NEW a \in AdjacencyDescriptor, insert_adjacency(a),
                 NEW p \in DOMAIN documents, p \notin DOMAIN documents'
          PROVE  Lost(p)
      <3>1. p \in DOMAIN Offered(a) /\ p \in OldDocuments(a)
        BY <1>1, <2>1, AdjacencyStep DEF Without, Restrict, Offered, Put
      <3>2. CASE p[1] \in outdated_identities \/ p[2] \in outdated_identities
        BY <3>2 DEF outdated_identities
      <3>3. CASE Outdated(now, Offered(a)[p]) /\ p # <<LeftId(a), RightId(a)>>
        BY <3>3 DEF Offered, Put
      <3>4. CASE Outdated(now, Offered(a)[p]) /\ p = <<LeftId(a), RightId(a)>>
        <4>1. Offered(a)[p] = a /\ p[1] = LeftId(a) /\ p[2] = RightId(a)
          BY <3>4 DEF Offered, Put
        <4>2. documents[p].left = a.left /\ documents[p].right = a.right
          <5>1. id_to_fp[LeftId(a)] = a.left /\ id_to_fp[RightId(a)] = a.right
            BY <1>1, <2>1, AdjacencyStep
          <5>2. documents[p].left = id_to_fp[p[1]] /\ documents[p].right = id_to_fp[p[2]]
            BY <1>1 DEF GraphInv, DocumentsFiled
          <5> QED BY <4>1, <5>1, <5>2
        <4> QED BY <2>1, <3>4, <4>1, <4>2
      <3> QED BY <3>1, <3>2, <3>3, <3>4 DEF OldDocuments, outdated_documents
    <2>2. CASE \E d \in IdentityDescriptor : insert_identity(d)
      BY <2>2 DEF insert_identity
    <2>3. CASE refused \/ Tick \/ UNCHANGED vars
      BY <2>3 DEF refused, Tick, vars, graph
    <2> QED BY <1>1, <2>1, <2>2, <2>3 DEF Next
  <1> QED BY <1>1, GraphInvariant, PTL DEF Spec, LinkLossExplained

\* The graph with its ids, reverse index and neighbour sets behaves as the two
\* plain maps of Topology.
THEOREM Refinement == Spec => ImplementsTopology
  <1>1. Init => T!Init
    BY DEF Init, T!Init, identities, links, EmptyMap, T!EmptyMap, Time, T!Time
  <1>2. ASSUME GraphInv, GraphInv', [Next]_vars
        PROVE  [T!Next]_(T!vars)
    <2>1. ASSUME NEW d \in IdentityDescriptor, insert_identity(d)
          PROVE  T!Next
      <3>1. T!insert_identity(d)
        BY <1>2, <2>1, IdentityRefines
      <3>2. d \in T!IdentityDescriptor
        BY DEF IdentityDescriptor, T!IdentityDescriptor, Time, T!Time
      <3> QED BY <3>1, <3>2 DEF T!Next
    <2>2. ASSUME NEW a \in AdjacencyDescriptor, insert_adjacency(a)
          PROVE  T!Next
      <3>1. T!insert_adjacency(a)
        BY <1>2, <2>2, AdjacencyRefines
      <3>2. a \in T!AdjacencyDescriptor
        BY DEF AdjacencyDescriptor, T!AdjacencyDescriptor, Time, T!Time
      <3> QED BY <3>1, <3>2 DEF T!Next
    <2>3. CASE refused \/ UNCHANGED vars
      BY <2>3 DEF refused, vars, graph, T!vars, identities, links
    <2>4. CASE Tick
      BY <2>4 DEF Tick, graph, T!Next, T!Tick, identities, links
    <2> QED BY <1>2, <2>1, <2>2, <2>3, <2>4 DEF Next
  <1> QED BY <1>1, <1>2, GraphInvariant, PTL DEF Spec, ImplementsTopology, T!Spec

=============================================================================
