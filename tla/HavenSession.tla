---------------------------- MODULE HavenSession ----------------------------
(***************************************************************************)
(* Two haven sockets, the client alice and the server bob, with one        *)
(* endpoint each: the cache of encryption sessions of HavenSocket, its     *)
(* recv_task, and the tasks of CryptSession.                               *)
(*                                                                         *)
(* The n2r layer and the rendezvous relay between them are a network that  *)
(* reorders, loses and duplicates.  The ephemeral key of a session is the  *)
(* session's number, and the shared secret of two sessions the set of both *)
(* numbers; the two directions use different keys derived from it.         *)
(***************************************************************************)
EXTENDS Integers, Sequences, FiniteSets

CONSTANTS
    MaxSessions,   \* bound: sessions made
    MaxSends,      \* bound: send_to calls of each side
    MaxFaults      \* bound: losses, duplications, expiries, DHT failures

Side == {"alice", "bob"}
Peer(s) == IF s = "alice" THEN "bob" ELSE "alice"
NoSession == 0
NoKey == {}

VARIABLES
    crypt_sessions,   \* side -> the session cached for the peer, or none
    session,          \* session number -> state of its task
    network,          \* messages under way
    sends,            \* side -> send_to calls
    decrypted,        \* side -> what recv_from can return, in order
    sealed,           \* history: every message sealed with a key
    faults

vars == <<crypt_sessions, session, network, sends, decrypted, sealed, faults>>

Made == Len(session)
Up(n) == session[n].state = "up"

\* CryptSession::new; client_hs is the number in the handshake answered, or none.
NewSession(s, client_hs, out) ==
    [owner |-> s, state |-> "new", client_hs |-> client_hs, key |-> NoKey,
     out |-> out, nonce |-> 0, rf |-> {}]

Handshake(s, n) ==
    [to |-> Peer(s), eph |-> n, key |-> NoKey, nonce |-> 0, body |-> 0,
     kind |-> IF session[n].client_hs = NoSession THEN "ClientHs" ELSE "ServerHs"]

Regular(s, n) ==
    [to |-> Peer(s), eph |-> n, key |-> session[n].key, nonce |-> session[n].nonce,
     body |-> Head(session[n].out), kind |-> "Regular"]

Init ==
    /\ crypt_sessions = [s \in Side |-> NoSession]
    /\ session = <<>> /\ network = {}
    /\ sends = [s \in Side |-> 0]
    /\ decrypted = [s \in Side |-> <<>>]
    /\ sealed = {} /\ faults = 0

Fault == faults < MaxFaults /\ faults' = faults + 1

-----------------------------------------------------------------------------
\* HavenSocket::send_to: the cached session, or a new one that will shake hands;
\* a session whose task has ended is removed and the message refused.  The
\* server's application answers peers it has heard of.
send_to(s) ==
    LET n == crypt_sessions[s]
        m == sends[s] + 1
    IN  /\ sends[s] < MaxSends
        /\ s = "bob" => decrypted["bob"] # <<>>
        /\ sends' = [sends EXCEPT ![s] = m]
        /\ \/ /\ n = NoSession /\ Made < MaxSessions
              /\ session' = Append(session, NewSession(s, NoSession, <<m>>))
              /\ crypt_sessions' = [crypt_sessions EXCEPT ![s] = Made + 1]
           \/ /\ n # NoSession /\ session[n].state = "dead"
              /\ crypt_sessions' = [crypt_sessions EXCEPT ![s] = NoSession]
              /\ UNCHANGED session
           \/ /\ n # NoSession /\ session[n].state # "dead"
              /\ session' = [session EXCEPT ![n].out = Append(@, m)]
              /\ UNCHANGED crypt_sessions
        /\ UNCHANGED <<network, decrypted, sealed, faults>>

\* Mutant: the answering side forgets to derive the key.
ShakeKeyless(s, n) ==
    /\ session[n].owner = s /\ session[n].state = "new"
    /\ network' = network \cup {Handshake(s, n)}
    /\ session' = [session EXCEPT
                     ![n].state = IF session[n].client_hs = NoSession THEN "hs" ELSE "up"]
    /\ UNCHANGED <<crypt_sessions, sends, decrypted, sealed, faults>>

\* enc_task begins: it sends its handshake.  Who answers one has the shared
\* secret at once, who starts one waits for the answer.  A session no longer in
\* the cache may go on for a while, until the cache drops it.
Shake(s, n) ==
    /\ session[n].owner = s /\ session[n].state = "new"
    /\ network' = network \cup {Handshake(s, n)}
    /\ session' = [session EXCEPT
                     ![n].state = IF session[n].client_hs = NoSession THEN "hs" ELSE "up",
                     ![n].key = IF session[n].client_hs = NoSession THEN NoKey
                                ELSE {session[n].client_hs, n}]
    /\ UNCHANGED <<crypt_sessions, sends, decrypted, sealed, faults>>

\* Mutant: the nonce stays what it is.
SealSameNonce(s, n) ==
    /\ session[n].owner = s /\ Up(n) /\ session[n].out # <<>>
    /\ network' = network \cup {Regular(s, n)}
    /\ sealed' = sealed \cup {Regular(s, n)}
    /\ session' = [session EXCEPT ![n].out = Tail(@)]
    /\ UNCHANGED <<crypt_sessions, sends, decrypted, faults>>

\* One round of up_loop.
Seal(s, n) ==
    /\ session[n].owner = s /\ Up(n) /\ session[n].out # <<>>
    /\ network' = network \cup {Regular(s, n)}
    /\ sealed' = sealed \cup {Regular(s, n)}
    /\ session' = [session EXCEPT ![n].out = Tail(@), ![n].nonce = @ + 1]
    /\ UNCHANGED <<crypt_sessions, sends, decrypted, faults>>

\* The client's lookup of the rendezvous point in the DHT fails or times out,
\* at the handshake or at any message: `?` ends the task.
LookupFails(n) ==
    /\ crypt_sessions["alice"] = n /\ n # NoSession /\ Fault
    /\ session[n].state = "new" \/ (Up(n) /\ session[n].out # <<>>)
    /\ session' = [session EXCEPT ![n].state = "dead"]
    /\ UNCHANGED <<crypt_sessions, network, sends, decrypted, sealed>>

-----------------------------------------------------------------------------
\* recv_task takes a message; `again' when a copy stays under way.
Taken(m, again) ==
    /\ m \in network
    /\ IF again THEN Fault /\ UNCHANGED network
                ELSE network' = network \ {m} /\ UNCHANGED faults
    /\ UNCHANGED <<sends, sealed>>

\* A client handshake: a new session takes the place of whatever is cached.
RecvClientHs(s, m, again) ==
    /\ m.to = s /\ m.kind = "ClientHs" /\ Taken(m, again)
    /\ Made < MaxSessions
    /\ session' = Append(session, NewSession(s, m.eph, <<>>))
    /\ crypt_sessions' = [crypt_sessions EXCEPT ![s] = Made + 1]
    /\ UNCHANGED decrypted

\* A server handshake: only a session that waits for one makes use of it, and
\* it takes the first that comes.
RecvServerHs(s, m, again) ==
    LET n == crypt_sessions[s]
    IN  /\ m.to = s /\ m.kind = "ServerHs" /\ Taken(m, again)
        /\ n # NoSession => session[n].state # "new"
        /\ session' = IF n # NoSession /\ session[n].state = "hs"
                      THEN [session EXCEPT ![n].state = "up", ![n].key = {m.eph, n}]
                      ELSE session
        /\ UNCHANGED <<crypt_sessions, decrypted>>

\* Mutant: no replay filter.
OpenUnfiltered(s, m, again) ==
    LET n == crypt_sessions[s]
    IN  /\ m.to = s /\ m.kind = "Regular" /\ Taken(m, again)
        /\ n # NoSession /\ Up(n) /\ session[n].key = m.key
        /\ decrypted' = [decrypted EXCEPT ![s] = Append(@, m.body)]
        /\ UNCHANGED <<crypt_sessions, session>>

\* Mutant: a replay filter without a window, that only takes rising nonces.
OpenRising(s, m, again) ==
    LET n == crypt_sessions[s]
        opens == n # NoSession /\ Up(n) /\ \A k \in session[n].rf : k < m.nonce
    IN  /\ m.to = s /\ m.kind = "Regular" /\ Taken(m, again)
        /\ n # NoSession => session[n].state # "new"
        /\ session' = IF opens THEN [session EXCEPT ![n].rf = @ \cup {m.nonce}] ELSE session
        /\ decrypted' = IF opens THEN [decrypted EXCEPT ![s] = Append(@, m.body)] ELSE decrypted
        /\ UNCHANGED crypt_sessions

\* An encrypted message, one round of down_loop.  It is dropped without a
\* session, by a session that has ended or is still waiting for its handshake,
\* and by the replay filter; what does not decrypt ends the task.
RecvRegular(s, m, again) ==
    LET n == crypt_sessions[s]
        opens == n # NoSession /\ Up(n) /\ m.nonce \notin session[n].rf
    IN  /\ m.to = s /\ m.kind = "Regular" /\ Taken(m, again)
        /\ n # NoSession => session[n].state # "new"
        /\ session' = IF ~opens THEN session
                      ELSE [session EXCEPT
                              ![n].rf = @ \cup {m.nonce},
                              ![n].state = IF session[n].key = m.key THEN "up" ELSE "dead"]
        /\ decrypted' = IF opens /\ session[n].key = m.key
                        THEN [decrypted EXCEPT ![s] = Append(@, m.body)]
                        ELSE decrypted
        /\ UNCHANGED crypt_sessions

Recv(s, m, again) ==
    RecvClientHs(s, m, again) \/ RecvServerHs(s, m, again) \/ RecvRegular(s, m, again)

\* The network, or a full queue on the way, loses a message.
Lose(m) ==
    /\ network' = network \ {m} /\ Fault
    /\ UNCHANGED <<crypt_sessions, session, sends, decrypted, sealed>>

\* The cache entry reaches its time to live, or the daemon is started anew.
Expire(s) ==
    /\ crypt_sessions[s] # NoSession /\ Fault
    /\ crypt_sessions' = [crypt_sessions EXCEPT ![s] = NoSession]
    /\ UNCHANGED <<session, network, sends, decrypted, sealed>>

SessionStep ==
    \E s \in Side :
        \/ \E n \in 1..Made : Shake(s, n) \/ Seal(s, n)
        \/ \E m \in network : Recv(s, m, FALSE)

Next ==
    \/ SessionStep
    \/ \E s \in Side : send_to(s) \/ Expire(s)
    \/ \E s \in Side : \E m \in network : Recv(s, m, TRUE)
    \/ \E n \in 1..Made : LookupFails(n)
    \/ \E m \in network : Lose(m)

\* Tasks run and what is not lost arrives; nobody has to send.
Spec == Init /\ [][Next]_vars /\ WF_vars(SessionStep)

-----------------------------------------------------------------------------
TypeOK ==
    /\ crypt_sessions \in [Side -> 0..MaxSessions]
    /\ \A n \in 1..Made :
          /\ session[n].state \in {"new", "hs", "up", "dead"}
          /\ session[n].key \subseteq 1..MaxSessions
          /\ Up(n) => n \in session[n].key
          /\ session[n].nonce \in 0..MaxSends
    /\ \A s \in Side : sends[s] \in 0..MaxSends /\ crypt_sessions[s] <= Made
    /\ faults \in 0..MaxFaults

\* recv_from returns each message of the peer at most once, over all sessions
\* the two sides ever have, and only messages the peer's application sent.
AtMostOnce ==
    \A s \in Side :
        /\ \A i, j \in 1..Len(decrypted[s]) : decrypted[s][i] = decrypted[s][j] => i = j
        /\ \A i \in 1..Len(decrypted[s]) : decrypted[s][i] \in 1..sends[Peer(s)]

\* No key ever seals two messages under one nonce in the same direction.
NonceOnce ==
    \A a, b \in sealed :
        a.to = b.to /\ a.key = b.key /\ a.nonce = b.nonce => a.body = b.body

\* In a network that only reorders, and with no session expiring, what the client
\* sends is received.
ClientHeard ==
    \A k \in 1..MaxSends :
        (sends["alice"] >= k) ~>
            (faults > 0 \/ \E i \in 1..Len(decrypted["bob"]) : decrypted["bob"][i] = k)
=============================================================================
