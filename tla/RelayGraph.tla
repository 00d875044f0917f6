----------------------------- MODULE RelayGraph -----------------------------
(***************************************************************************)
(* The indexed relay graph of earendil_topology: numeric ids handed out by *)
(* a counter, an index in each direction, descriptors and neighbour sets   *)
(* by id, and the signed adjacency documents by pair of ids.  Each method  *)
(* runs under the daemon's write lock, so a method is one step; calls come *)
(* from any task in any order, and the clock advances in between.          *)
(***************************************************************************)
EXTENDS Descriptors

CONSTANT MaxId       \* bound: ids handed out

ASSUME RelayGraphAssumption == MaxId \in Nat

VARIABLES
    unalloc_id,         \* the next id to hand out
    fp_to_id,
    id_to_fp,
    id_to_descriptor,
    adjacency,          \* id -> set of neighbouring ids
    documents,          \* <<left id, right id>> -> adjacency descriptor
    now

graph == <<unalloc_id, fp_to_id, id_to_fp, id_to_descriptor, adjacency, documents>>
vars == <<graph, now>>

Init ==
    /\ unalloc_id = 0
    /\ fp_to_id = EmptyMap
    /\ id_to_fp = EmptyMap
    /\ id_to_descriptor = EmptyMap
    /\ adjacency = EmptyMap
    /\ documents = EmptyMap
    /\ now \in Time

-----------------------------------------------------------------------------
\* identity(fp).is_some()
HasIdentity(fp) == fp \in DOMAIN fp_to_id /\ fp_to_id[fp] \in DOMAIN id_to_descriptor

\* Mutant: the counter is not advanced.
AllocateSameId(fp) ==
    IF fp \in DOMAIN fp_to_id
    THEN UNCHANGED <<unalloc_id, fp_to_id, id_to_fp>>
    ELSE /\ fp_to_id' = Put(fp_to_id, fp, unalloc_id)
         /\ id_to_fp' = Put(id_to_fp, unalloc_id, fp)
         /\ UNCHANGED unalloc_id

\* The id a fingerprint has, or is given now.
alloc_id(fp) == IF fp \in DOMAIN fp_to_id THEN fp_to_id[fp] ELSE unalloc_id

\* The index after alloc_id.
Allocate(fp) ==
    IF fp \in DOMAIN fp_to_id
    THEN UNCHANGED <<unalloc_id, fp_to_id, id_to_fp>>
    ELSE /\ unalloc_id < MaxId
         /\ unalloc_id' = unalloc_id + 1
         /\ fp_to_id' = Put(fp_to_id, fp, unalloc_id)
         /\ id_to_fp' = Put(id_to_fp, unalloc_id, fp)

insert_identity(d) ==
    /\ d.sig
    /\ Allocate(d.identity_pk)
    /\ id_to_descriptor' = Put(id_to_descriptor, alloc_id(d.identity_pk), d)
    /\ UNCHANGED <<adjacency, documents, now>>

verify_adjacency(a) ==
    /\ a.left < a.right
    /\ HasIdentity(a.left)
    /\ HasIdentity(a.right)
    /\ a.sigs

\* The first loop of cleanup collects these ids, and the second these keys
\* among the documents.
outdated_identities ==
    {i \in DOMAIN id_to_descriptor : Outdated(now, id_to_descriptor[i])}

\* Mutants: documents of a removed identity stay; an age of exactly
\* ROUTE_TIMEOUT is already too old.
OnlyOldDocuments(docs) == {p \in DOMAIN docs : Outdated(now, docs[p])}
TimedOutEarly(docs) ==
    {p \in DOMAIN docs : \/ {p[1], p[2]} \cap outdated_identities # {}
                         \/ (now - docs[p].unix_timestamp) % WORD >= ROUTE_TIMEOUT}

outdated_documents(docs) ==
    {p \in DOMAIN docs : \/ p[1] \in outdated_identities
                         \/ p[2] \in outdated_identities
                         \/ Outdated(now, docs[p])}

\* Mutant: only the left node forgets its neighbour.
RemainingOneWay(neighbours, gone, i) == {j \in neighbours[i] : <<i, j>> \notin gone}

\* The neighbours of i once the documents in gone are removed.
remaining(neighbours, gone, i) ==
    {j \in neighbours[i] : {<<i, j>>, <<j, i>>} \cap gone = {}}

\* Removes from the indexes, and from the given neighbour sets and documents,
\* what timed out: identities, the documents that touch them, old documents,
\* and neighbour sets left empty.
cleanup(neighbours, docs) ==
    LET gone == outdated_documents(docs)
    IN  /\ id_to_descriptor' = Without(id_to_descriptor, outdated_identities)
        /\ id_to_fp' = Without(id_to_fp, outdated_identities)
        /\ fp_to_id' = Without(fp_to_id, {id_to_fp[i] : i \in
                                  outdated_identities \cap DOMAIN id_to_fp})
        /\ documents' = Without(docs, gone)
        /\ adjacency' = [i \in {k \in DOMAIN neighbours : remaining(neighbours, gone, k) # {}} |->
                            remaining(neighbours, gone, i)]

\* HashMap::entry(id).or_default().insert(neighbour)
Join(neighbours, id, neighbour) ==
    Put(neighbours, id,
        (IF id \in DOMAIN neighbours THEN neighbours[id] ELSE {}) \cup {neighbour})

\* Mutant: no cleanup after the insertion.
InsertWithoutCleanup(a) ==
    /\ verify_adjacency(a)
    /\ adjacency' = Join(Join(adjacency, alloc_id(a.left), alloc_id(a.right)),
                         alloc_id(a.right), alloc_id(a.left))
    /\ documents' = Put(documents, <<alloc_id(a.left), alloc_id(a.right)>>, a)
    /\ UNCHANGED <<unalloc_id, fp_to_id, id_to_fp, id_to_descriptor, now>>

\* verify_adjacency has found both identities, so alloc_id only looks them up.
insert_adjacency(a) ==
    /\ verify_adjacency(a)
    /\ LET left_id == alloc_id(a.left)
           right_id == alloc_id(a.right)
       IN  cleanup(Join(Join(adjacency, left_id, right_id), right_id, left_id),
                   Put(documents, <<left_id, right_id>>, a))
    /\ UNCHANGED <<unalloc_id, now>>

\* A call with a signature that does not verify, or an adjacency that
\* verify_adjacency refuses, returns an error before it changes anything.
refused ==
    /\ \/ {d \in IdentityDescriptor : ~d.sig} # {}
       \/ {a \in AdjacencyDescriptor : ~verify_adjacency(a)} # {}
    /\ UNCHANGED vars

Tick ==
    /\ now < MaxTime
    /\ now' = now + 1
    /\ UNCHANGED graph

Next ==
    \/ \E d \in IdentityDescriptor : insert_identity(d)
    \/ \E a \in AdjacencyDescriptor : insert_adjacency(a)
    \/ refused
    \/ Tick

Spec == Init /\ [][Next]_vars

-----------------------------------------------------------------------------
TypeOK ==
    /\ unalloc_id \in Nat
    /\ now \in Time
    /\ DOMAIN fp_to_id \subseteq Fingerprint
    /\ fp_to_id \in [DOMAIN fp_to_id -> Nat]
    /\ DOMAIN id_to_fp \subseteq Nat
    /\ id_to_fp \in [DOMAIN id_to_fp -> Fingerprint]
    /\ DOMAIN id_to_descriptor \subseteq Nat
    /\ id_to_descriptor \in [DOMAIN id_to_descriptor -> IdentityDescriptor]
    /\ DOMAIN adjacency \subseteq Nat
    /\ adjacency \in [DOMAIN adjacency -> SUBSET Nat]
    /\ DOMAIN documents \subseteq Nat \X Nat
    /\ documents \in [DOMAIN documents -> AdjacencyDescriptor]

\* The four maps keyed by identity never disagree, whatever was inserted and
\* timed out: fp_to_id and id_to_fp are inverse to each other, exactly the
\* ids in them have a descriptor, it is the descriptor of that fingerprint,
\* and the counter is above every id in use.
IndexesAgree ==
    /\ \A f \in DOMAIN fp_to_id :
          fp_to_id[f] \in DOMAIN id_to_fp /\ id_to_fp[fp_to_id[f]] = f
    /\ \A i \in DOMAIN id_to_fp :
          /\ id_to_fp[i] \in DOMAIN fp_to_id
          /\ fp_to_id[id_to_fp[i]] = i
          /\ i < unalloc_id
    /\ DOMAIN id_to_descriptor = DOMAIN id_to_fp
    /\ \A i \in DOMAIN id_to_fp : id_to_descriptor[i].identity_pk = id_to_fp[i]

\* Every document joins two identified nodes and is filed under the ids of
\* the fingerprints it names, smaller fingerprint first.
DocumentsFiled ==
    \A p \in DOMAIN documents :
        /\ {p[1], p[2]} \subseteq DOMAIN id_to_fp
        /\ documents[p].left = id_to_fp[p[1]]
        /\ documents[p].right = id_to_fp[p[2]]
        /\ documents[p].left < documents[p].right

\* The key under which adjacencies() looks up the document of two neighbours.
DocumentKey(i, j) == IF id_to_fp[i] < id_to_fp[j] THEN <<i, j>> ELSE <<j, i>>

\* The indexing expressions of adjacencies() and find_shortest_path() cannot
\* panic: a neighbour always has a fingerprint and a document, and the
\* neighbour relation is symmetric with no empty sets left behind.
LookupsNeverPanic ==
    \A i \in DOMAIN adjacency :
        /\ adjacency[i] # {}
        /\ i \in DOMAIN id_to_fp
        /\ \A j \in adjacency[i] :
              /\ j \in DOMAIN adjacency
              /\ i \in adjacency[j]
              /\ DocumentKey(i, j) \in DOMAIN documents

\* The converse: no document is unreachable through the neighbour sets.
DocumentsServed ==
    \A p \in DOMAIN documents :
        p[1] \in DOMAIN adjacency /\ p[2] \in adjacency[p[1]]

\* A link dated in the future never stays in the graph: the wrapped age makes
\* cleanup drop it in the very call that inserted it.
NoFutureLinks == \A p \in DOMAIN documents : documents[p].unix_timestamp <= now

\* The inductive invariant: the conjunction the proofs carry through Next.
GraphInv ==
    /\ TypeOK
    /\ IndexesAgree
    /\ DocumentsFiled
    /\ LookupsNeverPanic
    /\ DocumentsServed
    /\ NoFutureLinks

\* An id is never taken over by another fingerprint, not even after cleanup
\* forgot the first one: neighbour sets that outlive a step keep their meaning.
IdsNeverReused ==
    [][\A i \in DOMAIN id_to_fp' :
          IF i \in DOMAIN id_to_fp THEN id_to_fp'[i] = id_to_fp[i]
                                  ELSE i >= unalloc_id]_vars

\* A link disappears only if its document or the identity of one end timed
\* out, or if a document for the same two nodes that is itself outdated was
\* inserted on top of it.
LinkLossExplained ==
    [][\A p \in DOMAIN documents \ DOMAIN documents' :
          \/ Outdated(now, documents[p])
          \/ \E i \in {p[1], p[2]} : Outdated(now, id_to_descriptor[i])
          \/ \E a \in AdjacencyDescriptor :
                /\ a.left = documents[p].left /\ a.right = documents[p].right
                /\ Outdated(now, a)
                /\ insert_adjacency(a)]_vars

\* After any change to the set of links, both ends of every link left are
\* identified by a descriptor that has not timed out.
LinksJoinLiveNodes ==
    [][documents' # documents =>
          \A p \in DOMAIN documents' : \A i \in {p[1], p[2]} :
              /\ i \in DOMAIN id_to_descriptor'
              /\ ~Outdated(now, id_to_descriptor'[i])]_vars

\* The indexed graph implements the two plain maps of Topology.
identities == [f \in DOMAIN fp_to_id |-> id_to_descriptor[fp_to_id[f]]]
links ==
    [e \in {<<id_to_fp[p[1]], id_to_fp[p[2]]>> : p \in DOMAIN documents} |->
        documents[<<fp_to_id[e[1]], fp_to_id[e[2]]>>]]

T == INSTANCE Topology WITH identities <- identities, links <- links, now <- now
ImplementsTopology == T!Spec
=============================================================================
