-------------------------- MODULE Rendezvous_proofs --------------------------
(***************************************************************************)
(* Proofs about the locators and the answers of a haven, for any relay     *)
(* graphs and lifetimes and any number of moves and faults.                *)
(***************************************************************************)
EXTENDS Rendezvous, TLAPS

Records ==
    /\ haven \in [pc : {"register", "insert"}, rob : Relays, waiting : SUBSET Relays, age : {0, 1}]
    /\ DOMAIN message = {"kind", "rob", "leg"}

\* A pair is only known where the client asked, and only such answers pass.
AnswersInv ==
    /\ seen_srcs \in [Relays -> Nat]
    /\ \A r \in Relays : seen_srcs[r] > 0 => r \in asked
    /\ message.kind = "ask" => message.rob \in asked
    /\ message.leg = "in" => message.kind = "ask" \/ message.rob \in Relays
    /\ AnswersAsked

\* What an entry that does not lead to the haven has left to live, together with the
\* time since the haven moved, is at most `bound'.
Held(entry, bound) ==
    \/ entry = Absent
    \/ entry.ttl \in Nat \ {0} /\ (entry.loc = haven.rob \/ entry.ttl + since <= bound)

\* The shards lose a former locator SHARD_TTL after the move, and the cache, filled
\* in their last tick, by StaleTicks.
LocatorInv ==
    /\ since \in 0..StaleTicks
    /\ late # {} => since = 0
    /\ DOMAIN shard = Relays
    /\ \A r \in Relays : Held(shard[r], SHARD_TTL) /\ shard[r].ttl \in 0..SHARD_TTL
    /\ Held(cache, StaleTicks) /\ cache.ttl \in 0..CACHE_TTL
    /\ message.kind = "ask" => message.rob = haven.rob \/ since < StaleTicks

FindInv == Records /\ AnswersInv /\ LocatorInv

-----------------------------------------------------------------------------
\* The relays' numbers, and the lifetimes in ticks.
LEMMA Numbers ==
    /\ StaleTicks \in Nat \ {0} /\ SHARD_TTL \in Nat \ {0} /\ CACHE_TTL \in Nat \ {0}
    /\ SHARD_TTL <= StaleTicks /\ CACHE_TTL <= StaleTicks
    /\ StaleTicks = SHARD_TTL + CACHE_TTL - 1
    /\ Replicas(HavenView) \subseteq Relays /\ HavenView \subseteq Relays
  BY LifetimeAssumption DEF StaleTicks, Replicas, Relays

\* A daemon that starts knows nothing.
LEMMA FindInit == Init => FindInv
  <1> SUFFICES ASSUME Init PROVE FindInv
    OBVIOUS
  <1>1. PICK rob \in HavenView \cap ClientView : haven = Registering(rob)
    BY DEF Init
  <1>2. Records
    BY <1>1, Numbers DEF Init, Records, Registering, NoMessage, Message, Relays
  <1>3. AnswersInv
    BY DEF Init, AnswersInv, AnswersAsked, NoMessage, Message
  <1>4. LocatorInv
    BY Numbers DEF Init, LocatorInv, Held, Absent, NoMessage, Message
  <1> QED BY <1>2, <1>3, <1>4 DEF FindInv

\* An entry made for the haven where it is now is no stale one.
LEMMA EntryHeld ==
    ASSUME NEW ttl \in Nat \ {0}, NEW bound
    PROVE  Held(Entry(haven.rob, ttl), bound) /\ Entry(haven.rob, ttl).ttl = ttl
  BY DEF Held, Entry

\* The registration task, whether its requests are answered or not, leaves the haven
\* where it is and writes only its present locator.
LEMMA HavenKeeps ==
    ASSUME FindInv,
           \/ \E answered \in BOOLEAN : alloc_forward(answered)
           \/ \E r \in Relays, answered \in BOOLEAN : dht_insert(r, answered)
           \/ HavenTimeout
    PROVE  FindInv'
  <1> USE DEF FindInv
  <1>1. /\ UNCHANGED <<late, since>> /\ UNCHANGED lookup /\ UNCHANGED forwarding
    BY DEF alloc_forward, dht_insert, HavenTimeout
  <1>2. haven' \in [pc : {"register", "insert"}, rob : Relays, waiting : SUBSET Relays, age : {0, 1}]
        /\ haven'.rob = haven.rob
    <2>1. ASSUME NEW answered \in BOOLEAN, alloc_forward(answered)
          PROVE  haven' \in {haven, Inserting(haven.rob)}
      BY <2>1 DEF alloc_forward
    <2>2. ASSUME NEW r \in Relays, NEW answered \in BOOLEAN, dht_insert(r, answered)
          PROVE  haven' \in {haven, [haven EXCEPT !.waiting = haven.waiting \ {r}],
                            Registering(haven.rob)}
      BY <2>2 DEF dht_insert
    <2>3. HavenTimeout => haven' = Registering(haven.rob)
      BY DEF HavenTimeout
    <2>4. \/ haven' \in {haven, Inserting(haven.rob), Registering(haven.rob)}
          \/ \E r \in Relays : haven' = [haven EXCEPT !.waiting = haven.waiting \ {r}]
      BY <2>1, <2>2, <2>3
    <2> QED BY <2>4, Numbers DEF Records, Registering, Inserting
  <1>3. \/ shard' = shard
        \/ \E r \in Relays : shard' = [shard EXCEPT ![r] = Entry(haven.rob, SHARD_TTL)]
    BY DEF alloc_forward, dht_insert, HavenTimeout
  <1>4. Records' /\ AnswersInv'
    BY <1>1, <1>2 DEF forwarding, Records, AnswersInv, AnswersAsked
  <1>5. /\ DOMAIN shard' = Relays
        /\ \A r \in Relays : Held(shard'[r], SHARD_TTL) /\ shard'[r].ttl \in 0..SHARD_TTL
    BY <1>3, Numbers, EntryHeld DEF LocatorInv
  <1>6. LocatorInv'
    BY <1>1, <1>2, <1>5 DEF lookup, forwarding, LocatorInv, Held
  <1> QED BY <1>4, <1>6

\* When the haven moves, everything may be stale, and no time has passed.
LEMMA MoveKeeps ==
    ASSUME FindInv, Move
    PROVE  FindInv'
  <1> USE DEF FindInv
  <1>1. PICK rob \in (HavenView \cap ClientView) \ {haven.rob} : haven' = Registering(rob)
    BY DEF Move
  <1>2. Records' /\ AnswersInv'
    BY <1>1, Numbers DEF Move, lookup, forwarding, Records, Registering, AnswersInv, AnswersAsked, Relays
  <1>3. since' = 0 /\ shard' = shard /\ cache' = cache /\ message' = message
    BY DEF Move, lookup, forwarding
  <1>4. LocatorInv'
    BY <1>3, Numbers DEF LocatorInv, Held
  <1> QED BY <1>2, <1>4

\* A late request of the former process still has all of its time to live ahead, but
\* arrives before any has passed.
LEMMA LateKeeps ==
    ASSUME FindInv, NEW q \in late, Late(q)
    PROVE  FindInv'
  <1> USE DEF FindInv
  <1>1. /\ late' = late \ {q} /\ UNCHANGED <<haven, since>>
        /\ UNCHANGED lookup /\ UNCHANGED forwarding /\ since = 0
    BY DEF Late, LocatorInv
  <1>2. shard' = shard \/ shard' = [shard EXCEPT ![q.to] = Entry(q.rob, SHARD_TTL)]
    BY DEF Late
  <1>3. Held(Entry(q.rob, SHARD_TTL), SHARD_TTL) /\ Entry(q.rob, SHARD_TTL).ttl = SHARD_TTL
    BY <1>1, Numbers DEF Held, Entry
  <1>4. /\ DOMAIN shard' = Relays
        /\ \A r \in Relays : Held(shard'[r], SHARD_TTL) /\ shard'[r].ttl \in 0..SHARD_TTL
    BY <1>2, <1>3, Numbers DEF LocatorInv
  <1>5. Records' /\ AnswersInv'
    BY <1>1 DEF forwarding, Records, AnswersInv, AnswersAsked
  <1>6. LocatorInv'
    BY <1>1, <1>4 DEF lookup, forwarding, LocatorInv, Held
  <1> QED BY <1>5, <1>6

\* A lookup fills the cache from an entry that is still held, and the client writes
\* where that entry leads.
LEMMA LookupKeeps ==
    ASSUME FindInv,
           LookupCached \/ LookupStart \/ LookupTimeout \/ \E r \in Relays : dht_get(r)
    PROVE  FindInv'
  <1> USE DEF FindInv
  <1> DEFINE Asked(entry) == /\ Held(entry, StaleTicks) /\ entry # Absent
                             /\ Ask(entry.loc)
             Cached == Held(cache', StaleTicks) /\ cache'.ttl \in 0..CACHE_TTL
  <1>1. LookupUnchanged
    BY DEF LookupCached, LookupStart, LookupTimeout, dht_get
  <1>2. Cached /\ (UNCHANGED <<message, asked>> \/ \E entry : Asked(entry))
    <2>1. CASE LookupCached
      BY <2>1 DEF LookupCached, lookup, LocatorInv
    <2>2. CASE LookupStart \/ LookupTimeout
      BY <2>2 DEF LookupStart, LookupTimeout, LocatorInv
    <2>3. ASSUME NEW r \in Relays, dht_get(r)
          PROVE  Cached /\ (UNCHANGED <<message, asked>> \/ \E entry : Asked(entry))
      <3>1. CASE shard[r] # Absent
        <4>1. cache' = Entry(shard[r].loc, CACHE_TTL) /\ Ask(shard[r].loc)
          BY <2>3, <3>1 DEF dht_get, Found
        <4>2. /\ since \in Nat /\ shard[r].ttl \in Nat \ {0}
              /\ shard[r].loc = haven.rob \/ shard[r].ttl + since <= SHARD_TTL
          BY <3>1 DEF LocatorInv, Held
        <4>3. shard[r].loc = haven.rob \/ CACHE_TTL + since <= StaleTicks
          BY <4>2, Numbers
        <4>4. Held(shard[r], StaleTicks)
          BY <3>1, <4>2, Numbers DEF Held
        <4>5. Cached
          BY <4>1, <4>3, Numbers DEF Held, Entry
        <4> QED BY <3>1, <4>1, <4>4, <4>5
      <3>2. CASE shard[r] = Absent
        BY <2>3, <3>2 DEF dht_get, NotFound, LocatorInv
      <3> QED BY <3>1, <3>2
    <2> QED BY <2>1, <2>2, <2>3
  <1>3. CASE UNCHANGED <<message, asked>>
    BY <1>1, <1>2, <1>3 DEF LookupUnchanged, Records, AnswersInv, AnswersAsked, LocatorInv, Held
  <1>4. ASSUME NEW entry, Asked(entry) PROVE FindInv'
    <2>1. message' = Message("ask", entry.loc, "in") /\ asked' = asked \cup {entry.loc}
      BY <1>4 DEF Ask
    <2>2. Records' /\ AnswersInv'
      BY <1>1, <2>1 DEF LookupUnchanged, Records, AnswersInv, AnswersAsked, Message
    <2>3. entry.loc = haven.rob \/ since < StaleTicks
      BY <1>4, Numbers DEF Held, LocatorInv
    <2>4. LocatorInv'
      BY <1>1, <1>2, <2>1, <2>3 DEF LookupUnchanged, LocatorInv, Held, Message
    <2> QED BY <2>2, <2>4
  <1> QED BY <1>2, <1>3, <1>4

\* The relays pass on what is for a registered haven or for a client they know, and
\* forget pairs when their loop ends.
LEMMA MessageKeeps ==
    ASSUME FindInv, MessageStep \/ \E r \in Relays : LoopEnds(r)
    PROVE  FindInv'
  <1> USE DEF FindInv
  <1>1. ForwardUnchanged
    BY DEF MessageStep, Forward, HavenHears, ClientHears, LoopEnds
  <1>2. /\ UNCHANGED <<haven, late, shard, since, asked, cache>>
    BY <1>1 DEF ForwardUnchanged, lookup
  <1>3. SUFFICES /\ DOMAIN message' = {"kind", "rob", "leg"} /\ AnswersInv'
                 /\ message'.kind = "ask" => message'.kind = message.kind /\ message'.rob = message.rob
    BY <1>2 DEF Records, LocatorInv, Held
  <1>4. CASE Forward
    <2>1. CASE ToHaven /\ registered[message.rob] > 0
      <3>1. message' = Passed /\ seen_srcs' = [seen_srcs EXCEPT ![message.rob] = SEEN_TTI]
        BY <1>4, <2>1 DEF Forward
      <3> QED BY <1>2, <2>1, <3>1, LifetimeAssumption
              DEF Passed, ToHaven, Records, AnswersInv, AnswersAsked
    <2>2. CASE ~ToHaven /\ seen_srcs[message.rob] > 0
      <3>1. message' = Passed /\ seen_srcs' = seen_srcs /\ message.rob \in asked
        BY <1>4, <2>2 DEF Forward, AnswersInv, ToHaven
      <3> QED BY <1>2, <2>2, <3>1 DEF Passed, ToHaven, Records, AnswersInv, AnswersAsked
    <2>3. CASE ~(ToHaven /\ registered[message.rob] > 0) /\ ~(~ToHaven /\ seen_srcs[message.rob] > 0)
      <3>1. message' = NoMessage /\ seen_srcs' = seen_srcs
        BY <1>4, <2>3 DEF Forward
      <3> QED BY <1>2, <3>1 DEF NoMessage, Message, AnswersInv, AnswersAsked
    <2> QED BY <2>1, <2>2, <2>3
  <1>5. CASE HavenHears \/ ClientHears
    BY <1>2, <1>5 DEF HavenHears, ClientHears, NoMessage, Message, Records, AnswersInv, AnswersAsked
  <1>6. ASSUME NEW r \in Relays, LoopEnds(r)
        PROVE  /\ DOMAIN message' = {"kind", "rob", "leg"} /\ AnswersInv'
               /\ message'.kind = "ask" => message'.kind = message.kind /\ message'.rob = message.rob
    BY <1>2, <1>6 DEF LoopEnds, Records, AnswersInv, AnswersAsked
  <1> QED BY <1>4, <1>5, <1>6 DEF MessageStep

\* A tick takes from every lifetime what it adds to the time since the move.
LEMMA TickKeeps ==
    ASSUME FindInv, Tick
    PROVE  FindInv'
  <1> USE DEF FindInv
  <1>1. /\ message' = NoMessage /\ late' = {} /\ asked' = asked
        /\ haven' = [haven EXCEPT !.age = 1]
        /\ seen_srcs' = [r \in Relays |-> Less(seen_srcs[r])]
        /\ shard' = [r \in Relays |-> Aged(shard[r])] /\ cache' = Aged(cache)
        /\ since' = IF since < StaleTicks THEN since + 1 ELSE since
    BY DEF Tick
  <1>2. Records' /\ haven'.rob = haven.rob
    BY <1>1 DEF Records, NoMessage, Message
  <1>3. AnswersInv'
    BY <1>1 DEF AnswersInv, AnswersAsked, Less, NoMessage, Message
  <1>4. ASSUME NEW entry, NEW bound \in Nat, bound <= StaleTicks, Held(entry, bound)
        PROVE  Held(Aged(entry), bound)'
    BY <1>1, <1>2, <1>4, Numbers DEF Held, Aged, Entry, Absent, LocatorInv
  <1>5. ASSUME NEW entry, NEW bound \in Nat, entry.ttl \in 0..bound
        PROVE  Aged(entry).ttl \in 0..bound
    BY <1>5 DEF Aged, Entry, Absent
  <1>6. \A r \in Relays : Held(shard[r], SHARD_TTL)' /\ shard'[r].ttl \in 0..SHARD_TTL
    BY <1>1, <1>4, <1>5, Numbers DEF LocatorInv
  <1>7. Held(cache, StaleTicks)' /\ cache'.ttl \in 0..CACHE_TTL
    BY <1>1, <1>4, <1>5, Numbers DEF LocatorInv
  <1>8. LocatorInv'
    BY <1>1, <1>6, <1>7, Numbers DEF LocatorInv, NoMessage, Message
  <1> QED BY <1>2, <1>3, <1>8

\* Every step of the haven, the client, the relays and time keeps FindInv.
LEMMA FindStep == FindInv /\ [Next]_vars => FindInv'
  <1> SUFFICES ASSUME FindInv, [Next]_vars
               PROVE  FindInv'
    OBVIOUS
  <1>1. CASE HavenStep \/ alloc_forward(FALSE) \/ HavenTimeout
             \/ \E r \in Relays : dht_insert(r, FALSE)
    BY <1>1, HavenKeeps DEF HavenStep
  <1>2. CASE LookupStep \/ LookupTimeout
    BY <1>2, LookupKeeps DEF LookupStep
  <1>3. CASE MessageStep \/ \E r \in Relays : LoopEnds(r)
    BY <1>3, MessageKeeps
  <1>4. CASE Move
    BY <1>4, MoveKeeps
  <1>5. CASE \E q \in late : Late(q)
    BY <1>5, LateKeeps
  <1>6. CASE Tick
    BY <1>6, TickKeeps
  <1>7. CASE UNCHANGED vars
    BY <1>7 DEF vars, FindInv, Records, AnswersInv, AnswersAsked, LocatorInv, Held
  <1> QED BY <1>1, <1>2, <1>3, <1>4, <1>5, <1>6, <1>7 DEF Next, Timeout

\* FindInv holds at any time.
LEMMA FindAlways == Spec => []FindInv
  BY FindInit, FindStep, PTL DEF Spec

\* For any lifetimes, relay graphs, restarts of the haven and lost or late calls:
\* once SHARD_TTL + CACHE_TTL - 1 ticks have passed since the haven moved, the client
\* has no former locator of it and writes to no former rendezvous.
THEOREM FormerLocatorsExpire == Spec => []LocatorFresh
  <1>1. FindInv => LocatorFresh
    BY Numbers DEF FindInv, LocatorInv, Held, LocatorFresh, Absent
  <1> QED BY <1>1, FindAlways, PTL

\* And however often relays lose and regain their pairs, an answer passes only a relay
\* by way of which the client has asked.
THEOREM OnlyAskedAnswers == Spec => []AnswersAsked
  <1>1. FindInv => AnswersAsked
    BY DEF FindInv, AnswersInv
  <1> QED BY <1>1, FindAlways, PTL

=============================================================================
