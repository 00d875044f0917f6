---------------------------- MODULE Gossip_proofs ----------------------------
(***************************************************************************)
(* Proof that gossip tells nobody about clients, for every network, every  *)
(* number of rounds at a time and every age of the descriptors.            *)
(***************************************************************************)
EXTENDS Gossip, TLAPS

\* What a node has on file is near it, and is filed under what it is about.
IdentitiesNear(n, map) ==
    \A f \in DOMAIN map : Near(n, f) /\ map[f].identity_pk = f
LinksNear(n, map) ==
    \A p \in DOMAIN map : /\ Near(n, p[1]) /\ Near(n, p[2])
                          /\ map[p].left = p[1] /\ map[p].right = p[2]
GraphsNear ==
    /\ DOMAIN identities = Node /\ DOMAIN links = Node
    /\ \A n \in Node : IdentitiesNear(n, identities[n]) /\ LinksNear(n, links[n])

BetweenRelays(a) == a.left \in Relay /\ a.right \in Relay

\* A round is between neighbours, and deals in links between relays but for the one
\* between the two.
RoundNear(r) ==
    /\ DOMAIN r = {"pc", "node", "peer", "todo", "adjacency"}
    /\ r.pc # "idle" => r.node \in Node /\ r.peer \in Node /\ {r.node, r.peer} \in Neighbours
    /\ \A a \in r.todo : BetweenRelays(a)
    /\ r.pc \in {"right", "adjacency"} => BetweenRelays(r.adjacency)
    /\ r.pc = "signed" => r.adjacency.left = r.node /\ r.adjacency.right = r.peer

PrivacyInv ==
    /\ GraphsNear
    /\ DOMAIN round = Task
    /\ \A t \in Task : RoundNear(round[t])

-----------------------------------------------------------------------------
\* insert_identity of a descriptor about somebody near keeps the graphs as they should be.
LEMMA IdentityNear ==
    ASSUME GraphsNear, NEW n \in Node, NEW d, Near(n, d.identity_pk), insert_identity(n, d)
    PROVE  GraphsNear'
  <1> DEFINE i == Put(identities[n], d.identity_pk, d)
  <1>1. identities' = [identities EXCEPT ![n] = i] /\ links' = links
    BY DEF insert_identity
  <1>2. IdentitiesNear(n, i)
    BY DEF Put, GraphsNear, IdentitiesNear
  <1> HIDE DEF i
  <1> QED BY <1>1, <1>2 DEF GraphsNear

\* So does insert_adjacency of a link with both ends near, whatever it cleans up.
LEMMA AdjacencyNear ==
    ASSUME GraphsNear, NEW n \in Node, NEW a, Near(n, a.left), Near(n, a.right),
           insert_adjacency(n, a)
    PROVE  GraphsNear'
  <1> DEFINE offered == Put(links[n], <<a.left, a.right>>, a)
             expired == {f \in DOMAIN identities[n] : Outdated(now, identities[n][f])}
             dead == {p \in DOMAIN offered : {p[1], p[2]} \cap expired # {}
                                             \/ Outdated(now, offered[p])}
             i == Without(identities[n], expired)
             l == Without(offered, dead)
  <1>1. identities' = [identities EXCEPT ![n] = i] /\ links' = [links EXCEPT ![n] = l]
    BY DEF insert_adjacency
  <1>2. LinksNear(n, offered)
    BY DEF Put, GraphsNear, LinksNear
  <1> HIDE DEF offered, expired, dead
  <1>3. IdentitiesNear(n, i)
    BY DEF Without, Restrict, GraphsNear, IdentitiesNear
  <1>4. LinksNear(n, l)
    BY <1>2 DEF Without, Restrict, LinksNear
  <1> HIDE DEF i, l
  <1> QED BY <1>1, <1>3, <1>4 DEF GraphsNear

\* The rounds are as they should be when the one that changes is.
LEMMA GoesNear ==
    ASSUME PrivacyInv, NEW t \in Task, NEW r, RoundNear(r), Goes(t, r)
    PROVE  DOMAIN round' = Task /\ \A u \in Task : RoundNear(round[u])'
  BY DEF PrivacyInv, Goes, RoundNear, BetweenRelays

\* A task without a round deals in nothing.
LEMMA NoRoundNear == RoundNear(NoRound)
  BY DEF RoundNear, NoRound

\* A round goes on with links that a neighbour answered, or ends.
LEMMA GoesOnNear ==
    ASSUME PrivacyInv, NEW t \in Task, round[t].pc # "idle", NEW todo,
           \A a \in todo : BetweenRelays(a), GoesOn(t, todo)
    PROVE  DOMAIN round' = Task /\ \A u \in Task : RoundNear(round[u])'
  <1> DEFINE r == [round[t] EXCEPT !.pc = "left", !.todo = todo, !.adjacency = NoAdjacency]
  <1>1. CASE todo = {}
    BY <1>1, GoesNear, NoRoundNear DEF GoesOn
  <1>2. CASE todo # {}
    <2>1. RoundNear(r)
      BY DEF RoundNear, PrivacyInv
    <2> QED BY <1>2, <2>1, GoesNear DEF GoesOn
  <1> QED BY <1>1, <1>2

\* A neighbour's answer to adjacencies has only links between relays.
LEMMA AnswersBetweenRelays ==
    ASSUME GraphsNear, NEW peer \in Node, NEW known, NEW a \in adjacencies(peer, known)
    PROVE  BetweenRelays(a)
  BY DEF adjacencies, IsRelayTo, GraphsNear, LinksNear, BetweenRelays

\* The descriptor of a relay that a neighbour has on file may be fetched.
LEMMA FetchEndNear ==
    ASSUME GraphsNear, NEW t \in Task, round[t].node \in Node, round[t].peer \in Node,
           NEW f \in Relay, fetch_end(t, f)
    PROVE  GraphsNear'
  <1> DEFINE n == round[t].node
             peer == round[t].peer
  <1>1. CASE f \in DOMAIN identities[peer]
    <2>1. Near(n, identities[peer][f].identity_pk)
      BY <1>1 DEF GraphsNear, IdentitiesNear, Near
    <2>2. insert_identity(n, identities[peer][f])
      BY <1>1 DEF fetch_end
    <2> QED BY <2>1, <2>2, IdentityNear
  <1>2. CASE f \notin DOMAIN identities[peer]
    BY <1>2 DEF fetch_end, GraphsUnchanged, GraphsNear
  <1> QED BY <1>1, <1>2

-----------------------------------------------------------------------------
\* The graphs are empty and no round is on when the daemons start.
LEMMA PrivacyInit == Init => PrivacyInv
  BY NoRoundNear DEF Init, PrivacyInv, GraphsNear, IdentitiesNear, LinksNear, EmptyMap

\* Every call of a round keeps PrivacyInv.
LEMMA RoundStepPrivate ==
    ASSUME PrivacyInv, NEW t \in Task, RoundStep(t)
    PROVE  PrivacyInv'
  <1> DEFINE n == round[t].node
             peer == round[t].peer
             a == round[t].adjacency
             Rounds == DOMAIN round' = Task /\ \A u \in Task : RoundNear(round[u])'
  <1>0. /\ GraphsNear /\ RoundNear(round[t])
        /\ n \in Node /\ peer \in Node /\ {n, peer} \in Neighbours
    BY DEF RoundStep, fetch_identity, sign_adjacency, insert_signed, ask, fetch_left,
           fetch_right, insert_gossiped, At, PrivacyInv, RoundNear
  <1>1. Near(n, n) /\ Near(n, peer) /\ Near(peer, n) /\ Near(peer, peer)
    <2>1. {peer, n} = {n, peer}
      OBVIOUS
    <2> QED BY <1>0, <2>1 DEF Near
  <1>2. GraphsUnchanged => GraphsNear'
    BY <1>0 DEF GraphsUnchanged, GraphsNear
  <1>3. Goes(t, NoRound) => Rounds
    BY GoesNear, NoRoundNear
  <1>4. SUFFICES GraphsNear' /\ Rounds
    BY DEF PrivacyInv
  <1>5. CASE fetch_identity(t)
    <2>1. CASE peer \in DOMAIN identities[peer]
      <3>1. GraphsNear'
        <4>1. identities[peer][peer].identity_pk = peer
          BY <1>0, <2>1 DEF GraphsNear, IdentitiesNear
        <4> QED BY <1>0, <1>1, <1>5, <2>1, <4>1, IdentityNear DEF fetch_identity
      <3>2. \A pc \in {"sign", "ask"} : RoundNear([round[t] EXCEPT !.pc = pc])
        BY <1>0 DEF RoundNear
      <3>3. Rounds
        BY <1>5, <2>1, <3>2, GoesNear DEF fetch_identity, Step
      <3> QED BY <3>1, <3>3
    <2> QED BY <1>2, <1>3, <1>5, <2>1 DEF fetch_identity
  <1>6. CASE sign_adjacency(t)
    <2> DEFINE b == Adjacency(n, peer)
    <2>1. b.left = n /\ b.right = peer
      BY DEF Adjacency
    <2> HIDE DEF b
    <2>2. CASE Acceptable(peer, b)
      <3>1. GraphsNear'
        BY <1>0, <1>1, <1>6, <2>1, <2>2, AdjacencyNear DEF sign_adjacency, b
      <3>2. RoundNear([round[t] EXCEPT !.pc = "signed", !.adjacency = b])
        BY <1>0, <2>1 DEF RoundNear
      <3>3. Rounds
        BY <1>6, <2>2, <3>2, GoesNear DEF sign_adjacency, b
      <3> QED BY <3>1, <3>3
    <2> QED BY <1>2, <1>3, <1>6, <2>2 DEF sign_adjacency, b
  <1>7. CASE insert_signed(t)
    <2>1. CASE Acceptable(n, a)
      <3>1. a.left = n /\ a.right = peer
        BY <1>0, <1>7 DEF insert_signed, At, RoundNear
      <3>2. GraphsNear'
        BY <1>0, <1>1, <1>7, <2>1, <3>1, AdjacencyNear DEF insert_signed
      <3>3. RoundNear([round[t] EXCEPT !.pc = "ask", !.adjacency = NoAdjacency])
        BY <1>0 DEF RoundNear
      <3>4. Rounds
        BY <1>7, <2>1, <3>3, GoesNear DEF insert_signed
      <3> QED BY <3>2, <3>4
    <2> QED BY <1>2, <1>3, <1>7, <2>1 DEF insert_signed
  <1>8. CASE ask(t)
    <2>1. \A b \in adjacencies(peer, DOMAIN identities[n]) : BetweenRelays(b)
      BY <1>0, AnswersBetweenRelays
    <2>2. Rounds
      BY <1>8, <2>1, GoesOnNear DEF ask, At
    <2> QED BY <1>2, <1>8, <2>2 DEF ask
  <1>9. CASE fetch_left(t)
    <2>1. PICK b \in round[t].todo :
             /\ fetch_end(t, b.left)
             /\ Goes(t, [round[t] EXCEPT !.pc = "right", !.adjacency = b, !.todo = @ \ {b}])
      BY <1>9 DEF fetch_left
    <2>2. BetweenRelays(b)
      BY <1>0 DEF RoundNear
    <2>3. GraphsNear'
      BY <1>0, <2>1, <2>2, FetchEndNear DEF BetweenRelays
    <2>4. RoundNear([round[t] EXCEPT !.pc = "right", !.adjacency = b, !.todo = @ \ {b}])
      BY <1>0, <2>2 DEF RoundNear
    <2> QED BY <2>1, <2>3, <2>4, GoesNear
  <1>10. CASE fetch_right(t)
    <2>1. BetweenRelays(a)
      BY <1>0, <1>10 DEF RoundNear, fetch_right, At
    <2>2. GraphsNear'
      BY <1>0, <1>10, <2>1, FetchEndNear DEF BetweenRelays, fetch_right
    <2>3. RoundNear([round[t] EXCEPT !.pc = "adjacency"])
      BY <1>0, <2>1 DEF RoundNear
    <2> QED BY <1>10, <2>2, <2>3, GoesNear DEF fetch_right, Step
  <1>11. CASE insert_gossiped(t)
    <2>1. CASE Acceptable(n, a)
      <3>1. Near(n, a.left) /\ Near(n, a.right)
        BY <1>0, <1>11 DEF RoundNear, insert_gossiped, At, BetweenRelays, Near
      <3>2. GraphsNear'
        BY <1>0, <1>11, <2>1, <3>1, AdjacencyNear DEF insert_gossiped
      <3>3. Rounds
        <4>1. \A b \in round[t].todo : BetweenRelays(b)
          BY <1>0 DEF RoundNear
        <4> QED BY <1>11, <2>1, <4>1, GoesOnNear DEF insert_gossiped, At
      <3> QED BY <3>2, <3>3
    <2> QED BY <1>2, <1>3, <1>11, <2>1 DEF insert_gossiped
  <1> QED BY <1>5, <1>6, <1>7, <1>8, <1>9, <1>10, <1>11 DEF RoundStep

\* So do rounds that start or break off, and time.
LEMMA PrivacyStep == PrivacyInv /\ [Next]_vars => PrivacyInv'
  <1> SUFFICES ASSUME PrivacyInv, [Next]_vars
               PROVE  PrivacyInv'
    OBVIOUS
  <1>1. ASSUME NEW t \in Task, RoundStep(t) PROVE PrivacyInv'
    BY <1>1, RoundStepPrivate
  <1>2. ASSUME NEW t \in Task, Abandon(t) PROVE PrivacyInv'
    BY <1>2, GoesNear, NoRoundNear DEF Abandon, GraphsUnchanged, PrivacyInv, GraphsNear
  <1>3. ASSUME NEW n \in Node, NEW peer \in Node, Start(n, peer) PROVE PrivacyInv'
    <2> DEFINE r == [NoRound EXCEPT !.pc = "identity", !.node = n, !.peer = peer]
    <2>1. PICK t \in Task : /\ {n, peer} \in Neighbours
                            /\ insert_identity(n, Identity(n)) /\ Goes(t, r)
      BY <1>3 DEF Start
    <2>2. Near(n, Identity(n).identity_pk)
      BY DEF Near, Identity
    <2>3. GraphsNear'
      BY <2>1, <2>2, IdentityNear DEF PrivacyInv
    <2>4. RoundNear(r)
      BY <2>1 DEF RoundNear, NoRound
    <2> QED BY <2>1, <2>3, <2>4, GoesNear DEF PrivacyInv
  <1>4. CASE Tick \/ UNCHANGED vars
    BY <1>4 DEF Tick, vars, PrivacyInv, GraphsNear, RoundNear, BetweenRelays
  <1> QED BY <1>1, <1>2, <1>3, <1>4 DEF Next

\* For every network of relays and clients, any number of rounds of gossip at a time,
\* rounds broken off anywhere and descriptors of any age: a node knows of a client, or
\* of one of its links, only if it is that client or its neighbour.
THEOREM ClientsStayPrivate == Spec => []ClientsPrivate
  <1>1. PrivacyInv => ClientsPrivate
    BY DEF PrivacyInv, GraphsNear, IdentitiesNear, LinksNear, ClientsPrivate
  <1> QED BY <1>1, PrivacyInit, PrivacyStep, PTL DEF Spec

=============================================================================
