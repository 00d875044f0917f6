------------------------------- MODULE Gossip -------------------------------
(***************************************************************************)
(* Nodes that gossip their relay graphs over their links: gossip_loop with *)
(* its rounds, and the side of LinkProtocolImpl that answers them.  Each   *)
(* node has a relay graph of its own, as Topology describes it; rounds of  *)
(* the same and of other nodes change the graphs between the calls of a    *)
(* round.  The links are those of the neighbour tables.  Whether a node is *)
(* a relay is part of its configuration, and so of every identity          *)
(* descriptor it signs.  The nodes' clocks agree.                          *)
(***************************************************************************)
EXTENDS Descriptors, FiniteSets

CONSTANTS
    Relay,           \* the nodes with in_routes
    Neighbours,      \* pairs of nodes {m, n} that have a link
    Task,            \* bound: one task per round that is on at a time
    Timeouts         \* whether rounds may time out or lose their link

ASSUME GossipAssumption ==
    /\ Timeouts \in BOOLEAN
    /\ Relay \subseteq Fingerprint
    /\ \A pair \in Neighbours : pair \subseteq Fingerprint /\ Cardinality(pair) = 2

VARIABLES
    identities,      \* node -> (fingerprint -> identity descriptor)
    links,           \* node -> (<<left, right>> -> adjacency descriptor)
    round,           \* task -> the round it runs
    now

vars == <<identities, links, round, now>>

Node == Fingerprint
NoNode == -1
NoAdjacency == [left |-> NoNode, right |-> NoNode]
NoRound == [pc |-> "idle", node |-> NoNode, peer |-> NoNode, todo |-> {}, adjacency |-> NoAdjacency]
Identity(n) == [identity_pk |-> n, unix_timestamp |-> now, sig |-> TRUE]
Adjacency(l, r) == [left |-> l, right |-> r, unix_timestamp |-> now, sigs |-> TRUE]

Init ==
    /\ identities = [n \in Node |-> EmptyMap] /\ links = [n \in Node |-> EmptyMap]
    /\ round = [t \in Task |-> NoRound] /\ now = 0

-----------------------------------------------------------------------------
(* The relay graph of a node: insert_identity and insert_adjacency.        *)

insert_identity(n, d) ==
    /\ identities' = [identities EXCEPT ![n] = Put(@, d.identity_pk, d)]
    /\ UNCHANGED links

Acceptable(n, a) == a.left < a.right /\ {a.left, a.right} \subseteq DOMAIN identities[n]

\* The link is recorded and what has timed out is dropped.
insert_adjacency(n, a) ==
    LET offered == Put(links[n], <<a.left, a.right>>, a)
        expired == {f \in DOMAIN identities[n] : Outdated(now, identities[n][f])}
        dead    == {p \in DOMAIN offered : {p[1], p[2]} \cap expired # {}
                                           \/ Outdated(now, offered[p])}
    IN  /\ identities' = [identities EXCEPT ![n] = Without(@, expired)]
        /\ links' = [links EXCEPT ![n] = Without(offered, dead)]

GraphsUnchanged == UNCHANGED <<identities, links>>

\* The round of task t goes on as r, or ends.
Goes(t, r) == round' = [round EXCEPT ![t] = r]
Step(t, pc) == Goes(t, [round[t] EXCEPT !.pc = pc])

\* gossip_graph goes on with the adjacency descriptors that are still to be done.
GoesOn(t, todo) ==
    Goes(t, IF todo = {} THEN NoRound
            ELSE [round[t] EXCEPT !.pc = "left", !.todo = todo, !.adjacency = NoAdjacency])
At(t, pc) == round[t].pc = pc /\ UNCHANGED now

-----------------------------------------------------------------------------
\* gossip_loop, once a second: the node's own descriptor is renewed, and a new task
\* does a round with some neighbour, whether or not earlier ones are done.
Start(n, peer) ==
    \E t \in Task :
        /\ At(t, "idle") /\ {n, peer} \in Neighbours
        /\ insert_identity(n, Identity(n))
        /\ Goes(t, [NoRound EXCEPT !.pc = "identity", !.node = n, !.peer = peer])

\* fetch_identity: the neighbour has its own descriptor, or refuses.
fetch_identity(t) ==
    LET n == round[t].node
        peer == round[t].peer
    IN  /\ At(t, "identity")
        /\ IF peer \in DOMAIN identities[peer]
           THEN /\ insert_identity(n, identities[peer][peer])
                /\ Step(t, IF n < peer THEN "sign" ELSE "ask")
           ELSE GraphsUnchanged /\ Goes(t, NoRound)

\* sign_adjacency, for the node on the left of the two; the one on the right signs,
\* and enters the link into its own graph first, or refuses.
sign_adjacency(t) ==
    LET n == round[t].node
        peer == round[t].peer
        a == Adjacency(n, peer)
    IN  /\ At(t, "sign")
        /\ IF Acceptable(peer, a)
           THEN /\ insert_adjacency(peer, a)
                /\ Goes(t, [round[t] EXCEPT !.pc = "signed", !.adjacency = a])
           ELSE GraphsUnchanged /\ Goes(t, NoRound)

\* The complete descriptor comes back.
insert_signed(t) ==
    LET n == round[t].node
        a == round[t].adjacency
    IN  /\ At(t, "signed")
        /\ IF Acceptable(n, a)
           THEN insert_adjacency(n, a) /\ Goes(t, [round[t] EXCEPT !.pc = "ask", !.adjacency = NoAdjacency])
           ELSE GraphsUnchanged /\ Goes(t, NoRound)

IsRelayTo(peer, f) == f \in DOMAIN identities[peer] /\ f \in Relay

\* Mutant: one end has to be a relay.
adjacencies_any(peer, known) ==
    {links[peer][p] : p \in {q \in DOMAIN links[peer] :
        {q[1], q[2]} \cap known # {} /\ (IsRelayTo(peer, q[1]) \/ IsRelayTo(peer, q[2]))}}

\* Mutant: both ends have to be known to the node that asks.
adjacencies_both(peer, known) ==
    {links[peer][p] : p \in {q \in DOMAIN links[peer] :
        {q[1], q[2]} \subseteq known /\ IsRelayTo(peer, q[1]) /\ IsRelayTo(peer, q[2])}}

\* adjacencies, answered by peer about the nodes that are known here: the links
\* between relays.  A link may be listed twice there; entering it again is what
\* another round does.
adjacencies(peer, known) ==
    {links[peer][p] : p \in {q \in DOMAIN links[peer] :
        {q[1], q[2]} \cap known # {} /\ IsRelayTo(peer, q[1]) /\ IsRelayTo(peer, q[2])}}

\* gossip_graph asks about a sample of up to ten of the nodes it knows: with so few
\* nodes, about all of them.
ask(t) ==
    /\ At(t, "ask") /\ GraphsUnchanged
    /\ GoesOn(t, adjacencies(round[t].peer, DOMAIN identities[round[t].node]))

\* The next adjacency descriptor of the answer.  The descriptors of its two ends are
\* fetched whether known or not; the neighbour may not have one any more.
fetch_end(t, f) ==
    LET n == round[t].node
        peer == round[t].peer
    IN  IF f \in DOMAIN identities[peer] THEN insert_identity(n, identities[peer][f])
                                         ELSE GraphsUnchanged
fetch_left(t) ==
    /\ At(t, "left")
    /\ \E a \in round[t].todo :
          /\ fetch_end(t, a.left)
          /\ Goes(t, [round[t] EXCEPT !.pc = "right", !.adjacency = a, !.todo = @ \ {a}])

\* Mutant: the descriptor of the right end is not fetched.
fetch_right_not(t) == At(t, "right") /\ GraphsUnchanged /\ Step(t, "adjacency")
fetch_right(t) ==
    At(t, "right") /\ fetch_end(t, round[t].adjacency.right) /\ Step(t, "adjacency")

\* Mutant: the link is entered unseen.
insert_gossiped_unseen(t) ==
    /\ At(t, "adjacency")
    /\ insert_adjacency(round[t].node, round[t].adjacency) /\ GoesOn(t, round[t].todo)

\* Then the link is entered; one that is refused ends the round, and the rest of
\* the answer is lost.
insert_gossiped(t) ==
    LET n == round[t].node
        a == round[t].adjacency
    IN  /\ At(t, "adjacency")
        /\ IF Acceptable(n, a) THEN insert_adjacency(n, a) /\ GoesOn(t, round[t].todo)
                               ELSE GraphsUnchanged /\ Goes(t, NoRound)

RoundStep(t) ==
    \/ fetch_identity(t) \/ sign_adjacency(t) \/ insert_signed(t) \/ ask(t)
    \/ fetch_left(t) \/ fetch_right(t) \/ insert_gossiped(t)

\* The call is not answered within the time of the round, or the link breaks.
Abandon(t) ==
    /\ Timeouts /\ round[t].pc # "idle"
    /\ Goes(t, NoRound) /\ GraphsUnchanged /\ UNCHANGED now

Tick == now < MaxTime /\ now' = now + 1 /\ UNCHANGED <<identities, links, round>>

Next ==
    \/ \E t \in Task : RoundStep(t) \/ Abandon(t)
    \/ \E n, peer \in Node : Start(n, peer)
    \/ Tick

Spec == Init /\ [][Next]_vars

\* Rounds come to an end, and every neighbour is picked, at random, again and again.
FairSpec ==
    /\ Spec
    /\ \A t \in Task : WF_vars(RoundStep(t))
    /\ \A n, peer \in Node : {n, peer} \in Neighbours => SF_vars(Start(n, peer))

-----------------------------------------------------------------------------
\* The relay graph of each node, whatever its rounds and those of its neighbours do
\* to it, is the one that Topology promises.
G(n) == INSTANCE Topology WITH identities <- identities[n], links <- links[n], now <- now
GraphsRefine ==
    /\ \A n \in Node : G(n)!Init
    /\ [][\A n \in Node : [G(n)!Next]_(G(n)!vars)]_vars

Near(n, f) == f = n \/ f \in Relay \/ {n, f} \in Neighbours

\* Nothing is gossiped about clients: a node knows of a client, or of one of its
\* links, only if it is the client's neighbour.
ClientsPrivate ==
    \A n \in Node :
        /\ \A f \in DOMAIN identities[n] : Near(n, f)
        /\ \A p \in DOMAIN links[n] : Near(n, p[1]) /\ Near(n, p[2])

\* As long as nothing can be too old anywhere, a link that a neighbour offers is
\* accepted, and no round cut short: only clean-ups, here or at the neighbour, take
\* away what a link needs between its being offered and its being entered.
OfferedAccepted ==
    \A t \in Task :
        round[t].pc = "adjacency" /\ now <= ROUTE_TIMEOUT
            => Acceptable(round[t].node, round[t].adjacency)

RelayLinks == {p \in Relay \X Relay : p[1] < p[2] /\ {p[1], p[2]} \in Neighbours}

Complete(n) == Relay \subseteq DOMAIN identities[n] /\ RelayLinks \subseteq DOMAIN links[n]

\* Gossip spreads: every node comes to know all relays and all links between relays,
\* also those far from it, and as long as nothing times out, for good.
Converges == <>[](\A n \in Node : Complete(n))
=============================================================================
