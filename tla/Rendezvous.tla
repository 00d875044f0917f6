----------------------------- MODULE Rendezvous -----------------------------
(***************************************************************************)
(* How a client finds a haven and is answered: the haven's registration    *)
(* task, the DHT of locators kept by the relays, the client's lookups with *)
(* their cache, and the relays' rendezvous_forward_loop.                   *)
(*                                                                         *)
(* A relay is its place in the order of the hashes that dht_key_to_fps     *)
(* sorts by, for the key of the one haven.  A locator is its rendezvous    *)
(* point: that is all the client uses of it.  Time goes in ticks of the    *)
(* timeout of a call; what is under way arrives within a tick or is lost.  *)
(* Times to live count down and are absent at 0.                           *)
(***************************************************************************)
EXTENDS Integers, FiniteSets

CONSTANTS
    HavenView,         \* the relays in the relay graph of the haven, as numbers
    ClientView,        \* and in the client's
    DHT_REDUNDANCY,
    SHARD_TTL,         \* of LOCAL_DHT_SHARD
    REGISTERED_TTL,    \* of REGISTERED_HAVENS
    CACHE_TTL,         \* of DHT_CACHE
    SEEN_TTI,          \* time to idle of seen_srcs
    MaxMoves,          \* bound: restarts of the haven with another rendezvous
    MaxFaults          \* bound: lost answers and messages, timeouts, and times a
                       \* rendezvous_forward_loop ends in an error

Relays == HavenView \cup ClientView

\* The two relay graphs differ by fewer relays than there are replicas.
ASSUME ViewAssumption ==
    /\ HavenView \subseteq Nat \ {0} /\ IsFiniteSet(HavenView)
    /\ ClientView \subseteq Nat \ {0} /\ IsFiniteSet(ClientView)
    /\ HavenView \cap ClientView # {}
    /\ Cardinality(HavenView \ ClientView) < DHT_REDUNDANCY
    /\ Cardinality(ClientView \ HavenView) < DHT_REDUNDANCY
ASSUME LifetimeAssumption ==
    SHARD_TTL \in Nat \ {0} /\ CACHE_TTL \in Nat \ {0} /\ SEEN_TTI \in Nat

VARIABLES
    haven,       \* the registration task: step, rendezvous, answers it waits for
    client,      \* the lookup: step and the answers it waits for
    late,        \* requests of a haven process that is gone
    shard,       \* relay -> LOCAL_DHT_SHARD for the haven's key
    registered,  \* relay -> time left in REGISTERED_HAVENS
    cache,       \* the client's DHT_CACHE for the haven's key
    seen_srcs,   \* relay -> time left of the pair (client, haven)
    message,     \* the message between the two by way of a relay, if any
    since,       \* ticks since the haven moved, counted up to StaleTicks
    steady,      \* history: all calls of the haven answered since a full insert
    asked,       \* history: relays that the client's messages went to
    moves, faults

vars == <<haven, client, late, shard, registered, cache, seen_srcs,
          message, since, steady, asked, moves, faults>>
forwarding == <<seen_srcs, message, asked>>
lookup == <<client, cache>>

NoRelay == 0
Absent == [loc |-> NoRelay, ttl |-> 0]
Entry(loc, ttl) == [loc |-> loc, ttl |-> ttl]
Aged(e) == IF e.ttl > 1 THEN Entry(e.loc, e.ttl - 1) ELSE Absent
Less(n) == IF n > 0 THEN n - 1 ELSE 0

\* dht_key_to_fps, as far as take(DHT_REDUNDANCY) looks.
Replicas(relays) ==
    {r \in relays : Cardinality({q \in relays : q < r}) < DHT_REDUNDANCY}

\* The ticks after which nothing can lead to the former rendezvous any more.
StaleTicks == SHARD_TTL + CACHE_TTL - 1
\* The longest time between two inserts of a locator when every call is answered.
RoundTicks == 3

Registering(rob) == [pc |-> "register", rob |-> rob, waiting |-> {rob}, age |-> 0]
Inserting(rob) ==
    [pc |-> "insert", rob |-> rob, waiting |-> Replicas(HavenView), age |-> 0]
Idle == [pc |-> "idle", waiting |-> {}, age |-> 0]
Getting == [pc |-> "get", waiting |-> Replicas(ClientView), age |-> 0]
Message(kind, rob, leg) == [kind |-> kind, rob |-> rob, leg |-> leg]
NoMessage == Message("none", NoRelay, "none")

Init ==
    /\ \E rob \in HavenView \cap ClientView : haven = Registering(rob)
    /\ client = Idle /\ late = {} /\ cache = Absent
    /\ shard = [r \in Relays |-> Absent]
    /\ registered = [r \in Relays |-> 0] /\ seen_srcs = [r \in Relays |-> 0]
    /\ message = NoMessage /\ since = 0 /\ steady = FALSE
    /\ asked = {} /\ moves = 0 /\ faults = 0

Fault(happens) ==
    IF happens THEN faults < MaxFaults /\ faults' = faults + 1 ELSE UNCHANGED faults

-----------------------------------------------------------------------------
(* The registration task of HavenSocket::bind.                             *)

\* A relay carries out alloc_forward, as often as the request reaches it; the
\* answer arrives or not.  The pause after a call is shorter than a tick.
alloc_forward(answered) ==
    /\ haven.pc = "register" /\ Fault(~answered)
    /\ registered' = [registered EXCEPT ![haven.rob] = REGISTERED_TTL]
    /\ haven' = IF answered THEN Inserting(haven.rob) ELSE haven
    /\ UNCHANGED <<late, shard, since, steady, moves>>
    /\ UNCHANGED lookup /\ UNCHANGED forwarding

\* Mutant: a locator in place is left alone.
dht_insert_once(r, answered) ==
    LET waiting == haven.waiting \ {r}
    IN  /\ haven.pc = "insert" /\ r \in haven.waiting /\ Fault(~answered)
        /\ shard' = IF shard[r] # Absent THEN shard
                    ELSE [shard EXCEPT ![r] = Entry(haven.rob, SHARD_TTL)]
        /\ haven' = CASE ~answered -> haven
                      [] answered /\ waiting # {} -> [haven EXCEPT !.waiting = waiting]
                      [] answered /\ waiting = {} -> Registering(haven.rob)
        /\ steady' = (steady \/ haven'.pc = "register")
        /\ UNCHANGED <<late, registered, since, moves>>
        /\ UNCHANGED lookup /\ UNCHANGED forwarding

\* A replica carries out dht_insert: the locator replaces what is there.  When
\* all replicas have answered, the round is over.
dht_insert(r, answered) ==
    LET waiting == haven.waiting \ {r}
    IN  /\ haven.pc = "insert" /\ r \in haven.waiting /\ Fault(~answered)
        /\ shard' = [shard EXCEPT ![r] = Entry(haven.rob, SHARD_TTL)]
        /\ haven' = CASE ~answered -> haven
                      [] answered /\ waiting # {} -> [haven EXCEPT !.waiting = waiting]
                      [] answered /\ waiting = {} -> Registering(haven.rob)
        /\ steady' = (steady \/ haven'.pc = "register")
        /\ UNCHANGED <<late, registered, since, moves>>
        /\ UNCHANGED lookup /\ UNCHANGED forwarding

\* A call that is not answered in time: the round starts again, also when some
\* of the replicas have the locator.
HavenTimeout ==
    /\ haven.age = 1 /\ Fault(TRUE)
    /\ haven' = Registering(haven.rob) /\ steady' = FALSE
    /\ UNCHANGED <<late, shard, registered, since, moves>>
    /\ UNCHANGED lookup /\ UNCHANGED forwarding

\* The haven is started with another rendezvous point while requests of the
\* former process are under way.
Move ==
    /\ moves < MaxMoves /\ moves' = moves + 1
    /\ \E rob \in (HavenView \cap ClientView) \ {haven.rob} : haven' = Registering(rob)
    /\ late' = [op : {haven.pc}, to : haven.waiting, rob : {haven.rob}]
    /\ since' = 0 /\ steady' = FALSE
    /\ UNCHANGED <<shard, registered, faults>>
    /\ UNCHANGED lookup /\ UNCHANGED forwarding

\* Such a request is carried out.
Late(q) ==
    /\ late' = late \ {q}
    /\ IF q.op = "insert"
       THEN /\ shard' = [shard EXCEPT ![q.to] = Entry(q.rob, SHARD_TTL)]
            /\ UNCHANGED registered
       ELSE /\ registered' = [registered EXCEPT ![q.to] = REGISTERED_TTL]
            /\ UNCHANGED shard
    /\ UNCHANGED <<haven, since, steady, moves, faults>>
    /\ UNCHANGED lookup /\ UNCHANGED forwarding

-----------------------------------------------------------------------------
(* The client: send_to_rendezvous of an encryption session, with dht_get.  *)

Ask(rob) == message' = Message("ask", rob, "in") /\ asked' = asked \cup {rob}
LookupUnchanged == UNCHANGED <<haven, late, shard, registered, seen_srcs, since,
                               steady, moves>>

\* dht_get with a locator in the cache, and without one.
LookupCached ==
    /\ client.pc = "idle" /\ message = NoMessage /\ cache # Absent /\ Ask(cache.loc)
    /\ UNCHANGED lookup /\ UNCHANGED faults /\ LookupUnchanged
LookupStart ==
    /\ client.pc = "idle" /\ message = NoMessage /\ cache = Absent /\ client' = Getting
    /\ UNCHANGED <<cache, message, asked>> /\ UNCHANGED faults /\ LookupUnchanged

Found(loc) == client' = Idle /\ cache' = Entry(loc, CACHE_TTL) /\ Ask(loc)

\* An answer without a locator ends the lookup when it is the last.
NotFound(r) ==
    /\ client' = IF client.waiting = {r} THEN Idle
                 ELSE [client EXCEPT !.waiting = client.waiting \ {r}]
    /\ UNCHANGED <<cache, message, asked>>

\* Mutant: reading a locator renews its time to live.
dht_get_renews(r) ==
    /\ client.pc = "get" /\ r \in client.waiting
    /\ IF shard[r] # Absent THEN Found(shard[r].loc) ELSE NotFound(r)
    /\ shard' = IF shard[r] = Absent THEN shard ELSE [shard EXCEPT ![r].ttl = SHARD_TTL]
    /\ UNCHANGED <<haven, late, registered, seen_srcs, since, steady, moves, faults>>

\* Mutant: the first answer decides, whatever it says.
dht_get_first(r) ==
    /\ client.pc = "get" /\ r \in client.waiting
    /\ IF shard[r] # Absent THEN Found(shard[r].loc)
       ELSE client' = Idle /\ UNCHANGED <<cache, message, asked>>
    /\ UNCHANGED faults /\ LookupUnchanged

\* A replica carries out dht_get and its answer arrives.  The first locator ends
\* the lookup, and the message is sent.
dht_get(r) ==
    /\ client.pc = "get" /\ r \in client.waiting
    /\ IF shard[r] # Absent THEN Found(shard[r].loc) ELSE NotFound(r)
    /\ UNCHANGED faults /\ LookupUnchanged

LookupTimeout ==
    /\ client.age = 1 /\ Fault(TRUE) /\ client' = Idle
    /\ UNCHANGED <<cache, message, asked>> /\ LookupUnchanged

-----------------------------------------------------------------------------
(* rendezvous_forward_loop of a relay, and the two ends.                   *)

ForwardUnchanged == UNCHANGED <<haven, late, shard, registered, since, steady,
                                asked, moves>> /\ UNCHANGED lookup
Passed == [message EXCEPT !.leg = "out"]
ToHaven == message.kind = "ask"

\* Mutant: what a registered haven sends is forwarded to anyone.
ForwardFromHaven ==
    /\ message.leg = "in"
    /\ seen_srcs' = IF ToHaven /\ registered[message.rob] > 0
                    THEN [seen_srcs EXCEPT ![message.rob] = SEEN_TTI] ELSE seen_srcs
    /\ message' = IF registered[message.rob] > 0 THEN Passed ELSE NoMessage
    /\ UNCHANGED faults /\ ForwardUnchanged

\* A message to a registered haven is forwarded, and the pair of its ends noted;
\* one to anybody else is forwarded if the pair is known the other way round,
\* which does not count as use of the entry.
Forward ==
    LET is_valid_dest == ToHaven /\ registered[message.rob] > 0
        is_seen_src == ~ToHaven /\ seen_srcs[message.rob] > 0
    IN  /\ message.leg = "in"
        /\ seen_srcs' = IF is_valid_dest THEN [seen_srcs EXCEPT ![message.rob] = SEEN_TTI]
                                         ELSE seen_srcs
        /\ message' = IF is_valid_dest \/ is_seen_src THEN Passed ELSE NoMessage
        /\ UNCHANGED faults /\ ForwardUnchanged

\* The loop ends, over a message it cannot decode or a send that fails, and is
\* started again with nothing seen.
LoopEnds(r) ==
    /\ Fault(TRUE)
    /\ seen_srcs' = [seen_srcs EXCEPT ![r] = 0]
    /\ UNCHANGED message /\ ForwardUnchanged

\* The haven answers by way of its own rendezvous point, wherever it was asked.
HavenHears ==
    /\ message.kind = "ask" /\ message.leg = "out"
    /\ message' = Message("answer", haven.rob, "in")
    /\ UNCHANGED <<seen_srcs, faults>> /\ ForwardUnchanged

ClientHears ==
    /\ message.kind = "answer" /\ message.leg = "out"
    /\ message' = NoMessage
    /\ UNCHANGED <<seen_srcs, faults>> /\ ForwardUnchanged

\* Time passes: a call has its timeout first, and what is still under way is lost.
Tick ==
    /\ haven.age = 0 /\ client.age = 0 /\ Fault(message # NoMessage)
    /\ haven' = [haven EXCEPT !.age = 1]
    /\ client' = IF client.pc = "get" THEN [client EXCEPT !.age = 1] ELSE client
    /\ shard' = [r \in Relays |-> Aged(shard[r])]
    /\ registered' = [r \in Relays |-> Less(registered[r])]
    /\ seen_srcs' = [r \in Relays |-> Less(seen_srcs[r])]
    /\ cache' = Aged(cache)
    /\ since' = IF since < StaleTicks THEN since + 1 ELSE since
    /\ late' = {} /\ message' = NoMessage
    /\ UNCHANGED <<steady, asked, moves>>

HavenStep == alloc_forward(TRUE) \/ \E r \in Relays : dht_insert(r, TRUE)
LookupStep ==
    \/ LookupCached \/ LookupStart
    \/ \E r \in Relays : dht_get(r)
MessageStep == Forward \/ HavenHears \/ ClientHears
Timeout == HavenTimeout \/ LookupTimeout

Next ==
    \/ HavenStep \/ LookupStep \/ MessageStep \/ Timeout \/ Tick \/ Move
    \/ alloc_forward(FALSE) \/ \E r \in Relays : dht_insert(r, FALSE) \/ LoopEnds(r)
    \/ \E q \in late : Late(q)

\* Time goes on, the client keeps trying, and what is sent arrives but for the faults.
Fairness ==
    /\ WF_vars(HavenStep) /\ WF_vars(LookupStep) /\ WF_vars(MessageStep)
    /\ SF_vars(Tick)

Spec == Init /\ [][Next]_vars /\ Fairness

-----------------------------------------------------------------------------
\* Once a haven has moved, its former locator is gone after the two times to
\* live: no late dht_insert and no lookup of the client keeps it longer, and the
\* client writes to the new rendezvous only.
LocatorFresh ==
    since = StaleTicks /\ moves > 0 =>
        /\ cache.loc \in {haven.rob, NoRelay}
        /\ message.kind = "ask" => message.rob = haven.rob

\* While the haven's calls are answered before their timeout, each of its replicas
\* holds a locator without a gap, its rendezvous relay knows it without a gap, and
\* what a late request overwrote is mended within a round.
LocatorKept ==
    steady =>
        /\ registered[haven.rob] > 0
        /\ \A r \in Replicas(HavenView) :
              /\ shard[r] # Absent
              /\ since > RoundTicks => shard[r].loc = haven.rob

\* A relay lets an answer pass only to a client that itself wrote to the haven by
\* way of this relay.
AnswersAsked == message.kind = "answer" /\ message.leg = "out" => message.rob \in asked

\* However the haven moved and relays forgot their pairs, the client is answered
\* again and again: the replicas that the haven writes to and those that the client
\* reads from have a relay in common although their relay graphs differ.
Reachable == []<>(message.kind = "answer" /\ message.leg = "out")
=============================================================================
