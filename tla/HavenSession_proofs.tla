------------------------- MODULE HavenSession_proofs -------------------------
(***************************************************************************)
(* Proof that no key seals two messages under one nonce, for any number of *)
(* sessions, messages and faults.                                          *)
(***************************************************************************)
EXTENDS HavenSession, TLAPS

State == {"new", "hs", "up", "dead"}
Session ==
    [owner : Side, state : State, client_hs : Nat, key : SUBSET Nat,
     out : Seq(Nat), nonce : Nat, rf : SUBSET Nat]

\* The two numbers in a key are the session's own and one of the peer's.
PeersKey(n, key) ==
    \E k \in 1..Made : key = {k, n} /\ session[k].owner = Peer(session[n].owner)

SessionInv(n) ==
    /\ session[n].client_hs # NoSession =>
          /\ session[n].client_hs \in 1..Made
          /\ session[session[n].client_hs].owner = Peer(session[n].owner)
    /\ session[n].key = NoKey \/ PeersKey(n, session[n].key)
    /\ session[n].state \in {"new", "hs"} => session[n].key = NoKey
    /\ session[n].state = "up" => session[n].key # NoKey

\* A message tells a session of the side that sent it.
MessageInv(m) ==
    /\ m.to \in Side /\ m.nonce \in Nat
    /\ m.eph \in 1..Made /\ session[m.eph].owner = Peer(m.to)

\* It was sealed with the key that session still has, under a nonce already counted.
SealedInv(m) ==
    /\ MessageInv(m)
    /\ m.key = session[m.eph].key /\ m.key # NoKey
    /\ m.nonce < session[m.eph].nonce

NonceInv ==
    /\ session \in Seq(Session) /\ sends \in [Side -> Nat]
    /\ DOMAIN crypt_sessions = Side
    /\ \A s \in Side : /\ crypt_sessions[s] \in 0..Made
                       /\ crypt_sessions[s] # NoSession => session[crypt_sessions[s]].owner = s
    /\ \A n \in 1..Made : SessionInv(n)
    /\ \A m \in network : MessageInv(m)
    /\ \A m \in sealed : SealedInv(m)
    /\ \A a, b \in sealed : a.eph = b.eph /\ a.nonce = b.nonce => a = b

\* A step that leaves the sessions there are, and what is known of their messages, good.
SessionsKept ==
    /\ session' \in Seq(Session) /\ Made \in Nat /\ Made' \in Nat /\ Made' >= Made
    /\ \A i \in 1..Made : session'[i].owner = session[i].owner
    /\ \A i \in 1..Made' : SessionInv(i)'
    /\ \A m : MessageInv(m) => MessageInv(m)'
    /\ \A m : SealedInv(m) => SealedInv(m)'

-----------------------------------------------------------------------------
\* The peer of the peer is oneself, and nobody is their own peer.
LEMMA PeerOfPeer ==
    \A s \in Side : Peer(s) \in Side /\ Peer(s) # s /\ Peer(Peer(s)) = s
  BY DEF Side, Peer

\* Two sessions of the same side never have the same key.
LEMMA KeysApart ==
    ASSUME NonceInv, NEW m \in 1..Made, NEW n \in 1..Made,
           session[m].owner = session[n].owner, session[m].key = session[n].key,
           session[m].key # NoKey
    PROVE  m = n
  <1>0. PeersKey(m, session[m].key) /\ PeersKey(n, session[n].key)
    BY DEF NonceInv, SessionInv
  <1>1. PICK j \in 1..Made : session[m].key = {j, m} /\ session[j].owner = Peer(session[m].owner)
    BY <1>0 DEF PeersKey
  <1>2. PICK k \in 1..Made : session[n].key = {k, n} /\ session[k].owner = Peer(session[n].owner)
    BY <1>0 DEF PeersKey
  <1>3. session[m].owner \in Side
    <2>1. session[m] \in Session
      BY DEF NonceInv, Made
    <2> QED BY <2>1 DEF Session
  <1>4. k # m
    BY <1>2, <1>3, PeerOfPeer
  <1> QED BY <1>1, <1>2, <1>4

\* What the other parts of the invariant need of a step of one session n: it keeps its
\* owner, may only count its nonce up, and gets a key once.
LEMMA OneSession ==
    ASSUME NonceInv, NEW n \in 1..Made, NEW r \in Session,
           session' = [session EXCEPT ![n] = r],
           r.owner = session[n].owner, r.client_hs = session[n].client_hs,
           r.nonce >= session[n].nonce,
           r.key = session[n].key \/ (session[n].key = NoKey /\ PeersKey(n, r.key)),
           r.state \in {"new", "hs"} => r.key = NoKey,
           r.state = "up" => r.key # NoKey
    PROVE  SessionsKept /\ Made' = Made /\ session'[n] = r
  <1>1. /\ session \in Seq(Session) /\ Made \in Nat /\ DOMAIN session = 1..Made
        /\ \A i \in 1..Made : session[i] \in Session
    BY DEF NonceInv, Made
  <1>2. session' \in Seq(Session) /\ Len(session') = Len(session)
    BY <1>1 DEF Made
  <1>3. Made' = Made
    BY <1>2 DEF Made
  <1>4. session'[n] = r /\ \A i \in 1..Made \ {n} : session'[i] = session[i]
    BY <1>1
  <1>5. \A i \in 1..Made : session'[i].owner = session[i].owner
                           /\ session'[i].client_hs = session[i].client_hs
    BY <1>4
  <1>6. \A i \in 1..Made : \A key : PeersKey(i, key) => PeersKey(i, key)'
    BY <1>3, <1>5 DEF PeersKey
  <1>7. ASSUME NEW i \in 1..Made PROVE SessionInv(i)'
    <2>0. SessionInv(i)
      BY DEF NonceInv
    <2>1. /\ session'[i].client_hs # NoSession =>
                /\ session'[i].client_hs \in 1..Made'
                /\ session'[session'[i].client_hs].owner = Peer(session'[i].owner)
      BY <1>3, <1>5, <2>0 DEF SessionInv
    <2>2. session'[i].key = NoKey \/ PeersKey(i, session[i].key)'
      BY <1>4, <1>6, <2>0 DEF SessionInv
    <2>3. /\ session'[i].state \in {"new", "hs"} => session'[i].key = NoKey
          /\ session'[i].state = "up" => session'[i].key # NoKey
      BY <1>4, <2>0 DEF SessionInv
    <2> QED BY <2>1, <2>2, <2>3 DEF SessionInv
  <1>8. \A m : MessageInv(m) => MessageInv(m)'
    BY <1>3, <1>5 DEF MessageInv
  <1>9. ASSUME NEW m, SealedInv(m) PROVE SealedInv(m)'
    <2>1. m.eph \in 1..Made /\ m.nonce \in Nat /\ session[m.eph].nonce \in Nat /\ r.nonce \in Nat
      BY <1>1, <1>9 DEF SealedInv, MessageInv, Session
    <2>2. CASE m.eph = n
      <3>1. session'[m.eph].key = session[m.eph].key
        BY <1>4, <1>9, <2>2 DEF SealedInv
      <3>2. m.nonce < session'[m.eph].nonce
        BY <1>4, <1>9, <2>1, <2>2 DEF SealedInv
      <3> QED BY <1>8, <1>9, <3>1, <3>2 DEF SealedInv
    <2>3. CASE m.eph # n
      BY <1>4, <1>8, <1>9, <2>1, <2>3 DEF SealedInv
    <2> QED BY <2>2, <2>3
  <1> QED BY <1>1, <1>2, <1>3, <1>4, <1>5, <1>7, <1>8, <1>9 DEF SessionsKept

\* A new session changes nothing about those there are.
LEMMA NextSession ==
    ASSUME NonceInv, NEW s \in Side, NEW client_hs \in Nat, NEW out \in Seq(Nat),
           session' = Append(session, NewSession(s, client_hs, out)),
           client_hs # NoSession => client_hs \in 1..Made /\ session[client_hs].owner = Peer(s)
    PROVE  SessionsKept /\ Made' = Made + 1 /\ session'[Made + 1].owner = s
  <1> DEFINE r == NewSession(s, client_hs, out)
  <1>1. /\ r \in Session /\ r.owner = s /\ r.client_hs = client_hs /\ r.key = NoKey /\ r.state = "new"
    BY DEF NewSession, Session, State, NoKey
  <1> HIDE DEF r
  <1>0. /\ session' \in Seq(Session) /\ Len(session') = Len(session) + 1 /\ Len(session) \in Nat
        /\ session'[Len(session) + 1] = r
        /\ \A i \in 1..Len(session) : session'[i] = session[i]
    BY <1>1 DEF NonceInv, r
  <1>2. /\ Made' = Made + 1 /\ Made \in Nat /\ session'[Made + 1] = r
        /\ \A i \in 1..Made : i \in 1..Made' /\ session'[i] = session[i]
    BY <1>0 DEF Made
  <1>3. ASSUME NEW i \in 1..Made, NEW key, PeersKey(i, key) PROVE PeersKey(i, key)'
    <2>1. PICK k \in 1..Made : key = {k, i} /\ session[k].owner = Peer(session[i].owner)
      BY <1>3 DEF PeersKey
    <2>2. k \in 1..Made' /\ session'[k].owner = Peer(session'[i].owner)
      BY <1>2, <2>1
    <2> QED BY <2>1, <2>2 DEF PeersKey
  <1>4. ASSUME NEW i \in 1..Made' PROVE SessionInv(i)'
    <2>1. CASE i \in 1..Made
      <3>0. SessionInv(i)
        BY <2>1 DEF NonceInv
      <3> QED BY <1>2, <1>3, <2>1, <3>0 DEF SessionInv
    <2>2. CASE i = Made + 1
      BY <1>1, <1>2, <2>2 DEF SessionInv
    <2> QED BY <1>2, <2>1, <2>2
  <1>5. /\ \A m : MessageInv(m) => MessageInv(m)'
        /\ \A m : SealedInv(m) => SealedInv(m)'
    BY <1>2 DEF MessageInv, SealedInv
  <1>6. /\ Made' \in Nat /\ Made' >= Made
        /\ \A i \in 1..Made : session'[i].owner = session[i].owner
    <2>1. Made' = Made + 1 /\ Made \in Nat
      BY <1>2
    <2>2. Made' \in Nat /\ Made' >= Made
      BY <2>1
    <2> QED BY <1>2, <2>2
  <1>7. SessionsKept
    BY <1>0, <1>2, <1>4, <1>5, <1>6 DEF SessionsKept
  <1> QED BY <1>1, <1>2, <1>7

\* Nor does a step that leaves the sessions alone.
LEMMA SameSessions ==
    ASSUME NonceInv, session' = session
    PROVE  SessionsKept
  <1>1. Made' = Made /\ Made \in Nat
    BY DEF Made, NonceInv
  <1> QED BY <1>1 DEF SessionsKept, NonceInv, SessionInv, MessageInv, SealedInv, PeersKey

\* What is left to show of a step that seals nothing.
LEMMA Unsealing ==
    ASSUME NonceInv, SessionsKept, sealed' = sealed,
           sends' \in [Side -> Nat], DOMAIN crypt_sessions' = Side,
           \A s \in Side : \/ crypt_sessions'[s] \in {crypt_sessions[s], NoSession}
                           \/ /\ crypt_sessions'[s] \in 1..Made'
                              /\ session'[crypt_sessions'[s]].owner = s,
           \A m \in network' : m \in network \/ MessageInv(m)'
    PROVE  NonceInv'
  <1>1. ASSUME NEW s \in Side
        PROVE  /\ crypt_sessions'[s] \in 0..Made'
               /\ crypt_sessions'[s] # NoSession => session'[crypt_sessions'[s]].owner = s
    <2>1. /\ Made \in Nat /\ Made' \in Nat /\ Made' >= Made
          /\ \A i \in 1..Made : session'[i].owner = session[i].owner
      BY DEF SessionsKept
    <2>2. /\ crypt_sessions[s] \in 0..Made
          /\ crypt_sessions[s] # NoSession => session[crypt_sessions[s]].owner = s
      BY DEF NonceInv
    <2>3. CASE crypt_sessions'[s] = crypt_sessions[s]
      BY <2>1, <2>2, <2>3 DEF NoSession
    <2>4. CASE crypt_sessions'[s] = NoSession
      BY <2>1, <2>4 DEF NoSession
    <2>5. CASE crypt_sessions'[s] \in 1..Made' /\ session'[crypt_sessions'[s]].owner = s
      BY <2>1, <2>5
    <2> QED BY <2>3, <2>4, <2>5
  <1>2. /\ \A m \in network' : MessageInv(m)'
        /\ \A m \in sealed' : SealedInv(m)'
    BY DEF NonceInv, SessionsKept
  <1>3. \A a, b \in sealed' : a.eph = b.eph /\ a.nonce = b.nonce => a = b
    BY DEF NonceInv
  <1>4. session' \in Seq(Session) /\ \A n \in 1..Made' : SessionInv(n)'
    BY DEF SessionsKept
  <1> QED BY <1>1, <1>2, <1>3, <1>4 DEF NonceInv

-----------------------------------------------------------------------------
\* send_to makes a session, uses the one there is, or drops one that has ended.
LEMMA SendKeeps ==
    ASSUME NonceInv, NEW s \in Side, send_to(s)
    PROVE  NonceInv'
  <1> DEFINE n == crypt_sessions[s]
             m == sends[s] + 1
  <1>1. /\ sends' \in [Side -> Nat] /\ m \in Nat /\ UNCHANGED <<network, sealed>>
    BY DEF NonceInv, send_to
  <1>2. n \in 0..Made /\ Made \in Nat /\ DOMAIN crypt_sessions = Side
    BY DEF NonceInv, Made
  <1>3. CASE /\ session' = Append(session, NewSession(s, NoSession, <<m>>))
             /\ crypt_sessions' = [crypt_sessions EXCEPT ![s] = Made + 1]
    <2>1. <<m>> \in Seq(Nat) /\ NoSession \in Nat
      BY <1>1 DEF NoSession
    <2>2. SessionsKept /\ Made' = Made + 1 /\ session'[Made + 1].owner = s
      BY <1>3, <2>1, NextSession
    <2>3. DOMAIN crypt_sessions' = Side /\ Made + 1 \in 1..Made'
          /\ \A u \in Side : crypt_sessions'[u] = IF u = s THEN Made + 1 ELSE crypt_sessions[u]
      BY <1>2, <1>3, <2>2
    <2>4. \A u \in Side : \/ crypt_sessions'[u] \in {crypt_sessions[u], NoSession}
                          \/ /\ crypt_sessions'[u] \in 1..Made'
                             /\ session'[crypt_sessions'[u]].owner = u
      BY <2>2, <2>3
    <2> QED BY <1>1, <2>2, <2>3, <2>4, Unsealing
  <1>4. CASE crypt_sessions' = [crypt_sessions EXCEPT ![s] = NoSession] /\ UNCHANGED session
    BY <1>1, <1>2, <1>4, SameSessions, Unsealing
  <1>5. CASE /\ n # NoSession /\ session' = [session EXCEPT ![n].out = Append(@, m)]
             /\ UNCHANGED crypt_sessions
    <2> DEFINE r == [session[n] EXCEPT !.out = Append(session[n].out, m)]
    <2>1. n \in 1..Made
      BY <1>2, <1>5 DEF NoSession
    <2>2. session[n] \in Session /\ SessionInv(n)
      BY <2>1 DEF NonceInv, Made
    <2>3. Append(session[n].out, m) \in Seq(Nat)
      BY <1>1, <2>2 DEF Session
    <2>4. /\ r \in Session /\ r.owner = session[n].owner /\ r.client_hs = session[n].client_hs
          /\ r.key = session[n].key /\ r.state = session[n].state /\ r.nonce >= session[n].nonce
      <3>1. r.nonce = session[n].nonce /\ session[n].nonce \in Nat
        BY <2>2 DEF Session
      <3>2. r.nonce >= session[n].nonce
        BY <3>1
      <3> QED BY <2>2, <2>3, <3>2 DEF Session
    <2>5. session' = [session EXCEPT ![n] = r]
      BY <1>5
    <2> HIDE DEF r
    <2>6. (r.state \in {"new", "hs"} => r.key = NoKey) /\ (r.state = "up" => r.key # NoKey)
      BY <2>2, <2>4 DEF SessionInv
    <2>7. SessionsKept
      BY <2>1, <2>4, <2>5, <2>6, OneSession
    <2> QED BY <1>1, <1>2, <1>5, <2>7, Unsealing
  <1> QED BY <1>3, <1>4, <1>5 DEF send_to

\* Shake gives the side that answers a handshake its key.
LEMMA ShakeKeeps ==
    ASSUME NonceInv, NEW s \in Side, NEW n \in 1..Made, Shake(s, n)
    PROVE  NonceInv'
  <1> DEFINE hs == session[n].client_hs
             state == IF hs = NoSession THEN "hs" ELSE "up"
             key == IF hs = NoSession THEN NoKey ELSE {hs, n}
             r == [session[n] EXCEPT !.state = state, !.key = key]
  <1>1. /\ session[n] \in Session /\ SessionInv(n) /\ n \in Nat
        /\ session[n].owner = s /\ session[n].state = "new"
    BY DEF NonceInv, Made, Shake
  <1>2. session[n].key = NoKey /\ hs \in Nat /\ session[n].nonce \in Nat
    BY <1>1 DEF SessionInv, Session
  <1>3. /\ state \in State /\ key \in SUBSET Nat
        /\ key = NoKey \/ PeersKey(n, key)
        /\ state \in {"new", "hs"} => key = NoKey
        /\ state = "up" => key # NoKey
    BY <1>1, <1>2 DEF State, NoKey, SessionInv, PeersKey
  <1>4. session' = [session EXCEPT ![n] = r]
    BY DEF Shake
  <1> HIDE DEF state, key
  <1>5. /\ r \in Session /\ r.owner = session[n].owner /\ r.client_hs = session[n].client_hs
        /\ r.nonce >= session[n].nonce /\ r.key = key /\ r.state = state
    <2>1. r.nonce = session[n].nonce /\ session[n].nonce \in Nat
      BY <1>1 DEF Session
    <2>2. r.nonce >= session[n].nonce
      BY <2>1
    <2> QED BY <1>1, <1>3, <2>2 DEF Session
  <1> HIDE DEF r
  <1>6. SessionsKept /\ Made' = Made /\ session'[n] = r
    <2>1. r.key = session[n].key \/ (session[n].key = NoKey /\ PeersKey(n, r.key))
      BY <1>2, <1>3, <1>5
    <2>2. (r.state \in {"new", "hs"} => r.key = NoKey) /\ (r.state = "up" => r.key # NoKey)
      BY <1>3, <1>5
    <2> QED BY <1>4, <1>5, <2>1, <2>2, OneSession
  <1>7. ASSUME NEW m, m = Handshake(s, n) PROVE MessageInv(m)'
    <2>1. m.to = Peer(s) /\ m.nonce = 0 /\ m.eph = n
      BY <1>7 DEF Handshake
    <2>2. MessageInv(m)
      BY <1>1, <2>1, PeerOfPeer DEF MessageInv
    <2> QED BY <1>6, <2>2 DEF SessionsKept
  <1>8. \A m \in network' : m \in network \/ MessageInv(m)'
    BY <1>7 DEF Shake
  <1>9. UNCHANGED <<crypt_sessions, sends, sealed>>
    BY DEF Shake
  <1> QED BY <1>6, <1>8, <1>9, Unsealing DEF NonceInv

\* Seal uses the nonce that the session has counted up to, and counts on.
LEMMA SealKeeps ==
    ASSUME NonceInv, NEW s \in Side, NEW n \in 1..Made, Seal(s, n)
    PROVE  NonceInv'
  <1> DEFINE r == [session[n] EXCEPT !.out = Tail(session[n].out), !.nonce = session[n].nonce + 1]
  <1>1. /\ session[n] \in Session /\ SessionInv(n) /\ n \in Nat
        /\ session[n].owner = s /\ session[n].state = "up" /\ session[n].out # <<>>
    BY DEF NonceInv, Made, Seal, Up
  <1>2. Tail(session[n].out) \in Seq(Nat) /\ session[n].nonce \in Nat /\ session[n].key # NoKey
    BY <1>1 DEF Session, SessionInv
  <1>3. session' = [session EXCEPT ![n] = r]
    BY DEF Seal
  <1>4. /\ r \in Session /\ r.owner = s /\ r.client_hs = session[n].client_hs
        /\ r.nonce = session[n].nonce + 1 /\ r.key = session[n].key /\ r.state = "up"
    <2>1. session[n].nonce + 1 \in Nat
      BY <1>2
    <2> QED BY <1>1, <1>2, <2>1 DEF Session
  <1> HIDE DEF r
  <1>5. r.nonce >= session[n].nonce
    BY <1>2, <1>4
  <1>6. SessionsKept /\ Made' = Made /\ session'[n] = r
    BY <1>1, <1>2, <1>3, <1>4, <1>5, OneSession
  <1>7. PICK x : x = Regular(s, n)
    OBVIOUS
  <1>8. /\ network' = network \cup {x} /\ sealed' = sealed \cup {x}
        /\ UNCHANGED <<crypt_sessions, sends>>
    BY <1>7 DEF Seal
  <1>9. /\ x.to = Peer(s) /\ x.eph = n /\ x.key = session[n].key /\ x.nonce = session[n].nonce
    BY <1>7 DEF Regular
  <1>10. MessageInv(x)' /\ SealedInv(x)'
    <2>1. MessageInv(x)
      BY <1>1, <1>2, <1>9, PeerOfPeer DEF MessageInv
    <2>2. MessageInv(x)'
      BY <1>6, <2>1 DEF SessionsKept
    <2>3. x.nonce < r.nonce
      BY <1>2, <1>4, <1>9
    <2> QED BY <1>2, <1>4, <1>6, <1>9, <2>2, <2>3 DEF SealedInv
  <1>11. \A b \in sealed : ~(b.eph = x.eph /\ b.nonce = x.nonce)
    <2> SUFFICES ASSUME NEW b \in sealed, b.eph = n PROVE b.nonce # session[n].nonce
      BY <1>9
    <2>1. b.nonce < session[n].nonce /\ b.nonce \in Nat
      BY DEF NonceInv, SealedInv, MessageInv
    <2> QED BY <1>2, <2>1
  <1>12. \A a, b \in sealed' : a.eph = b.eph /\ a.nonce = b.nonce => a = b
    BY <1>8, <1>11 DEF NonceInv
  <1>13. /\ \A m \in network' : MessageInv(m)'
         /\ \A m \in sealed' : SealedInv(m)'
    BY <1>6, <1>8, <1>10 DEF NonceInv, SessionsKept
  <1>14. \A u \in Side :
            /\ crypt_sessions'[u] \in 0..Made'
            /\ crypt_sessions'[u] # NoSession => session'[crypt_sessions'[u]].owner = u
    <2> SUFFICES ASSUME NEW u \in Side
                 PROVE  /\ crypt_sessions[u] \in 0..Made
                        /\ crypt_sessions[u] # NoSession => session'[crypt_sessions[u]].owner = u
      BY <1>6, <1>8
    <2>1. /\ crypt_sessions[u] \in 0..Made
          /\ crypt_sessions[u] # NoSession => session[crypt_sessions[u]].owner = u
      BY DEF NonceInv
    <2> QED BY <1>6, <2>1 DEF SessionsKept, NoSession
  <1>15. /\ session' \in Seq(Session) /\ sends' \in [Side -> Nat] /\ DOMAIN crypt_sessions' = Side
         /\ \A i \in 1..Made' : SessionInv(i)'
    BY <1>6, <1>8 DEF NonceInv, SessionsKept
  <1> QED BY <1>12, <1>13, <1>14, <1>15 DEF NonceInv

\* A session whose key is left alone may end and note what it has seen.
LEMMA EndKeeps ==
    ASSUME NonceInv, NEW n \in 1..Made, NEW rf \in SUBSET Nat, NEW state \in State,
           state = session[n].state \/ state = "dead",
           session' = [session EXCEPT ![n].rf = rf, ![n].state = state]
    PROVE  SessionsKept
  <1> DEFINE r == [session[n] EXCEPT !.rf = rf, !.state = state]
  <1>1. session[n] \in Session /\ SessionInv(n)
    BY DEF NonceInv, Made
  <1>2. /\ r \in Session /\ r.owner = session[n].owner /\ r.client_hs = session[n].client_hs
        /\ r.nonce = session[n].nonce /\ r.key = session[n].key /\ r.state = state
    BY <1>1 DEF Session
  <1>3. session' = [session EXCEPT ![n] = r]
    OBVIOUS
  <1> HIDE DEF r
  <1>4. r.nonce \in Nat
    BY <1>2 DEF Session
  <1>5. r.nonce >= session[n].nonce
    BY <1>2, <1>4
  <1>6. (r.state \in {"new", "hs"} => r.key = NoKey) /\ (r.state = "up" => r.key # NoKey)
    BY <1>1, <1>2 DEF SessionInv
  <1> QED BY <1>2, <1>3, <1>5, <1>6, OneSession

\* LookupFails ends the session of the client.
LEMMA LookupKeeps ==
    ASSUME NonceInv, NEW n \in 1..Made, LookupFails(n)
    PROVE  NonceInv'
  <1>1. session[n] \in Session
    BY DEF NonceInv, Made
  <1>2. session' = [session EXCEPT ![n].rf = session[n].rf, ![n].state = "dead"]
    BY <1>1 DEF LookupFails, Session
  <1>3. session[n].rf \in SUBSET Nat /\ "dead" \in State
    BY <1>1 DEF Session, State
  <1>4. SessionsKept
    BY <1>2, <1>3, EndKeeps
  <1> QED BY <1>4, Unsealing DEF LookupFails, NonceInv

-----------------------------------------------------------------------------
\* A client handshake makes a session that belongs to the other side than its sender.
LEMMA ClientHsKeeps ==
    ASSUME NonceInv, NEW s \in Side, NEW m, NEW again, RecvClientHs(s, m, again)
    PROVE  NonceInv'
  <1>1. /\ m \in network /\ network' \subseteq network /\ UNCHANGED <<sends, sealed>> /\ m.to = s
        /\ session' = Append(session, NewSession(s, m.eph, <<>>))
        /\ crypt_sessions' = [crypt_sessions EXCEPT ![s] = Made + 1]
    BY DEF RecvClientHs, Taken
  <1>2. /\ m.eph \in 1..Made /\ session[m.eph].owner = Peer(s) /\ Made \in Nat
        /\ DOMAIN crypt_sessions = Side /\ sends \in [Side -> Nat]
    BY <1>1 DEF NonceInv, MessageInv, Made
  <1>3. m.eph \in Nat /\ <<>> \in Seq(Nat)
    BY <1>2
  <1>4. SessionsKept /\ Made' = Made + 1 /\ session'[Made + 1].owner = s
    BY <1>1, <1>2, <1>3, NextSession
  <1>5. DOMAIN crypt_sessions' = Side /\ Made + 1 \in 1..Made'
        /\ \A u \in Side : crypt_sessions'[u] = IF u = s THEN Made + 1 ELSE crypt_sessions[u]
    BY <1>1, <1>2, <1>4
  <1>6. \A u \in Side : \/ crypt_sessions'[u] \in {crypt_sessions[u], NoSession}
                        \/ /\ crypt_sessions'[u] \in 1..Made'
                           /\ session'[crypt_sessions'[u]].owner = u
    BY <1>4, <1>5
  <1> QED BY <1>1, <1>2, <1>4, <1>5, <1>6, Unsealing

\* A server handshake gives a session that waits for one its key.
LEMMA ServerHsKeeps ==
    ASSUME NonceInv, NEW s \in Side, NEW m, NEW again, RecvServerHs(s, m, again)
    PROVE  NonceInv'
  <1> DEFINE n == crypt_sessions[s]
             key == {m.eph, n}
             r == [session[n] EXCEPT !.state = "up", !.key = key]
  <1>1. /\ m \in network /\ network' \subseteq network /\ m.to = s
        /\ UNCHANGED <<sends, sealed, crypt_sessions>>
    BY DEF RecvServerHs, Taken
  <1>2. SUFFICES SessionsKept
    BY <1>1, Unsealing DEF NonceInv
  <1>3. CASE n # NoSession /\ session[n].state = "hs"
    <2>1. /\ n \in 1..Made /\ session[n].owner = s
      <3>1. n \in 0..Made /\ (n # NoSession => session[n].owner = s) /\ Made \in Nat
        BY DEF NonceInv, Made
      <3> QED BY <1>3, <3>1 DEF NoSession
    <2>2. m.eph \in 1..Made /\ session[m.eph].owner = Peer(s)
      BY <1>1 DEF NonceInv, MessageInv
    <2>3. session[n] \in Session /\ session[n].key = NoKey
      BY <1>3, <2>1 DEF NonceInv, SessionInv, Made
    <2>4. key \in SUBSET Nat /\ key # NoKey /\ "up" \in State
      BY <2>1, <2>2 DEF NoKey, State
    <2>5. PeersKey(n, key)
      BY <2>1, <2>2 DEF PeersKey
    <2>6. session' = [session EXCEPT ![n] = r]
      BY <1>3 DEF RecvServerHs
    <2> HIDE DEF key
    <2>7. /\ r \in Session /\ r.owner = session[n].owner /\ r.client_hs = session[n].client_hs
          /\ r.nonce = session[n].nonce /\ r.key = key /\ r.state = "up"
      BY <2>3, <2>4 DEF Session
    <2> HIDE DEF r
    <2>8. r.nonce \in Nat
      BY <2>7 DEF Session
    <2>9. r.nonce >= session[n].nonce
      BY <2>7, <2>8
    <2> QED BY <2>1, <2>3, <2>4, <2>5, <2>6, <2>7, <2>9, OneSession
  <1>4. CASE ~(n # NoSession /\ session[n].state = "hs")
    BY <1>4, SameSessions DEF RecvServerHs
  <1> QED BY <1>3, <1>4

\* An encrypted message leaves the key of its session alone.
LEMMA RegularKeeps ==
    ASSUME NonceInv, NEW s \in Side, NEW m, NEW again, RecvRegular(s, m, again)
    PROVE  NonceInv'
  <1> DEFINE n == crypt_sessions[s]
             opens == n # NoSession /\ Up(n) /\ m.nonce \notin session[n].rf
             rf == session[n].rf \cup {m.nonce}
             state == IF session[n].key = m.key THEN "up" ELSE "dead"
  <1>1. /\ m \in network /\ network' \subseteq network
        /\ UNCHANGED <<sends, sealed, crypt_sessions>>
    BY DEF RecvRegular, Taken
  <1>2. SUFFICES SessionsKept
    BY <1>1, Unsealing DEF NonceInv
  <1>3. CASE opens
    <2>1. n \in 1..Made
      <3>1. n \in 0..Made /\ Made \in Nat
        BY DEF NonceInv, Made
      <3> QED BY <1>3, <3>1 DEF NoSession
    <2>2. session[n] \in Session /\ m.nonce \in Nat
      BY <1>1, <2>1 DEF NonceInv, MessageInv, Made
    <2>3. rf \in SUBSET Nat /\ state \in State /\ (state = session[n].state \/ state = "dead")
      BY <1>3, <2>2 DEF Session, State, Up
    <2>4. session' = [session EXCEPT ![n].rf = rf, ![n].state = state]
      BY <1>3 DEF RecvRegular
    <2> QED BY <2>1, <2>3, <2>4, EndKeeps
  <1>4. CASE ~opens
    BY <1>4, SameSessions DEF RecvRegular
  <1> QED BY <1>3, <1>4

-----------------------------------------------------------------------------
\* There are no sessions and no messages at first.
LEMMA NonceInit == Init => NonceInv
  <1> SUFFICES ASSUME Init PROVE NonceInv
    OBVIOUS
  <1>1. session = <<>> /\ Made = 0
    BY DEF Init, Made
  <1> QED BY <1>1 DEF Init, NonceInv, NoSession

\* Every step of the two sides and of the network keeps NonceInv.
LEMMA NonceStep == NonceInv /\ [Next]_vars => NonceInv'
  <1> SUFFICES ASSUME NonceInv, [Next]_vars
               PROVE  NonceInv'
    OBVIOUS
  <1>1. ASSUME NEW s \in Side, NEW n \in 1..Made, Shake(s, n) \/ Seal(s, n) PROVE NonceInv'
    BY <1>1, ShakeKeeps, SealKeeps
  <1>2. ASSUME NEW s \in Side, NEW m, NEW again, Recv(s, m, again) PROVE NonceInv'
    BY <1>2, ClientHsKeeps, ServerHsKeeps, RegularKeeps DEF Recv
  <1>3. ASSUME NEW s \in Side, send_to(s) PROVE NonceInv'
    BY <1>3, SendKeeps
  <1>4. ASSUME NEW s \in Side, Expire(s) PROVE NonceInv'
    BY <1>4, SameSessions, Unsealing DEF Expire, NonceInv
  <1>5. ASSUME NEW n \in 1..Made, LookupFails(n) PROVE NonceInv'
    BY <1>5, LookupKeeps
  <1>6. ASSUME NEW m \in network, Lose(m) PROVE NonceInv'
    BY <1>6, SameSessions, Unsealing DEF Lose, NonceInv
  <1>7. CASE UNCHANGED vars
    BY <1>7, SameSessions, Unsealing DEF vars, NonceInv
  <1> QED BY <1>1, <1>2, <1>3, <1>4, <1>5, <1>6, <1>7 DEF Next, SessionStep

\* For any number of sessions, messages, losses, repetitions and expiries, and both
\* sides shaking hands at the same time: no key ever seals two messages under one nonce
\* in the same direction, although every session counts its nonces from 0.
THEOREM NoncesNeverRepeat == Spec => []NonceOnce
  <1>1. NonceInv => NonceOnce
    <2> SUFFICES ASSUME NonceInv, NEW a \in sealed, NEW b \in sealed,
                        a.to = b.to, a.key = b.key, a.nonce = b.nonce
                 PROVE  a = b
      BY DEF NonceOnce
    <2>1. SealedInv(a) /\ SealedInv(b)
      BY DEF NonceInv
    <2>2. a.eph = b.eph
      BY <2>1, KeysApart DEF SealedInv, MessageInv
    <2> QED BY <2>2 DEF NonceInv
  <1> QED BY <1>1, NonceInit, NonceStep, PTL DEF Spec

=============================================================================
