---------------------------- MODULE Docks_proofs ----------------------------
(***************************************************************************)
(* The table of receive queues only names live sockets bound to the dock   *)
(* they are registered for: for all sets of docks, names and callers, all  *)
(* queue lengths and any number of sockets and messages.  The proof is by  *)
(* induction on TypeOK /\ OnlyLiveRegistered.                              *)
(***************************************************************************)
EXTENDS Docks, TLAPS

DocksInv == TypeOK /\ OnlyLiveRegistered

\* A call that has just begun is a call, with the socket it was given.
LEMMA AtType ==
    ASSUME NEW n \in Nat, NEW s \in 0..n, NEW id \in SocketId,
           NEW pc \in {"idle", "insert", "recv"}
    PROVE  At(pc, id, s) \in Call(n) /\ At(pc, id, s).pc = pc /\ At(pc, id, s).skt = s
  <1>1. <<>> \in Seq(Member)
    OBVIOUS
  <1> QED BY <1>1 DEF At, Call

\* So is an idle one.
LEMMA IdleType ==
    ASSUME NEW n \in Nat
    PROVE  Idle \in Call(n) /\ Idle.pc = "idle"
  <1> DEFINE any == CHOOSE i \in SocketId : TRUE
  <1>1. any \in SocketId
    BY DocksAssumption
  <1> HIDE DEF any
  <1>2. At("idle", any, 0) \in Call(n) /\ At("idle", any, 0).pc = "idle"
    BY <1>1, AtType, 0 \in 0..n
  <1> QED BY <1>2 DEF Idle, NoSocket, any

\* A daemon starts with no socket and an empty table.
LEMMA InitDocksInv == Init => DocksInv
  <1> SUFFICES ASSUME Init PROVE DocksInv
    OBVIOUS
  <1>1. skt = <<>> /\ Len(skt) = 0 /\ skt \in Seq(Socket)
    BY DEF Init
  <1>2. call \in [Caller -> Call(Len(skt))]
    BY <1>1, IdleType DEF Init
  <1>3. \A c \in Caller : call[c].pc = "idle"
    BY IdleType DEF Init
  <1>4. TypeOK
    BY <1>1, <1>2, <1>3, DocksAssumption DEF Init, TypeOK, NoSocket
  <1>5. OnlyLiveRegistered
    BY DEF Init, OnlyLiveRegistered
  <1> QED BY <1>4, <1>5 DEF DocksInv

\* A call stays one when there are more sockets.
LEMMA CallMore ==
    ASSUME NEW n \in Nat, NEW x \in Call(n)
    PROVE  x \in Call(n + 1)
  BY DEF Call

\* A new socket is alive, and takes its dock over from the one before.
LEMMA BindDocksInv ==
    ASSUME DocksInv, NEW c \in Caller, NEW id \in SocketId, NEW d \in Dock, bind(c, id, d)
    PROVE  DocksInv'
  <1> DEFINE new == Len(skt) + 1
  <1>1. /\ skt \in Seq(Socket) /\ Len(skt) \in Nat
        /\ NewSkt(d) \in Socket
    BY DEF DocksInv, TypeOK, NewSkt, Socket, Member
  <1>2. /\ skt' \in Seq(Socket) /\ Len(skt') = new /\ new <= MaxBinds
        /\ skt'[new] = NewSkt(d)
        /\ \A s \in 1..Len(skt) : skt'[s] = skt[s]
    BY <1>1 DEF bind
  <1>3. SOCKET_RECV_QUEUES' \in [Dock -> 0..new]
    BY <1>1 DEF bind, DocksInv, TypeOK
  <1>4. sockets' \in [SocketId -> 0..new] /\ messages' \in Nat
    BY <1>1 DEF bind, DocksInv, TypeOK
  <1>5. /\ call'[c] \in Call(new) /\ call'[c].skt = new
        /\ \A e \in Caller \ {c} : call'[e] = call[e]
        /\ call' = [call EXCEPT ![c] = call'[c]]
    <2>1. new \in Nat /\ new \in 0..new
      BY <1>1
    <2>2. At("insert", id, new) \in Call(new) /\ At("insert", id, new).skt = new
      BY <2>1, AtType
    <2> QED BY <2>2 DEF bind, DocksInv, TypeOK
  <1>6. call' \in [Caller -> Call(new)]
    BY <1>1, <1>5, CallMore DEF DocksInv, TypeOK
  <1>7. \A e \in Caller : call'[e].pc # "idle" => call'[e].skt # NoSocket
    BY <1>1, <1>5 DEF DocksInv, TypeOK, NoSocket
  <1>8. TypeOK'
    BY <1>2, <1>3, <1>4, <1>6, <1>7 DEF TypeOK
  <1>9. OnlyLiveRegistered'
    BY <1>1, <1>2 DEF bind, NewSkt, DocksInv, TypeOK, OnlyLiveRegistered, NoSocket
  <1> QED BY <1>8, <1>9 DEF DocksInv

\* A replaced socket is dropped together with the entry of its dock, and no
\* other dock names it.
LEMMA InsertDocksInv ==
    ASSUME DocksInv, NEW c \in Caller, insert(c)
    PROVE  DocksInv'
  <1> DEFINE old == sockets[call[c].id]
  <1>1. /\ skt \in Seq(Socket) /\ Len(skt) \in Nat
        /\ call[c] \in Call(Len(skt)) /\ call[c].id \in SocketId
        /\ call[c].skt \in 0..Len(skt) /\ old \in 0..Len(skt)
    BY DEF DocksInv, TypeOK, Call
  <1>2. sockets' \in [SocketId -> 0..Len(skt)] /\ messages' \in Nat
    BY <1>1 DEF insert, DocksInv, TypeOK
  <1>3. /\ call' \in [Caller -> Call(Len(skt))]
        /\ \A e \in Caller : call'[e].pc # "idle" => call'[e].skt # NoSocket
    BY <1>1, IdleType DEF insert, DocksInv, TypeOK
  <1>4. CASE old = NoSocket
    <2>1. UNCHANGED <<skt, SOCKET_RECV_QUEUES>>
      BY <1>4 DEF insert, TableWithout
    <2> QED BY <1>2, <1>3, <2>1 DEF DocksInv, TypeOK, OnlyLiveRegistered
  <1>5. CASE old # NoSocket
    <2>1. old \in 1..Len(skt) /\ skt[old] \in Socket /\ skt[old].dock \in Dock
      <3>1. old \in 1..Len(skt)
        BY <1>1, <1>5 DEF NoSocket
      <3>2. skt[old] \in Socket
        BY <1>1, <3>1
      <3> QED BY <3>1, <3>2 DEF Socket
    <2>2. skt' = [skt EXCEPT ![old].alive = FALSE]
      BY <1>5 DEF insert
    <2>3. [skt[old] EXCEPT !.alive = FALSE] \in Socket
      BY <2>1 DEF Socket
    <2>4. /\ skt' \in Seq(Socket) /\ Len(skt') = Len(skt)
          /\ \A s \in 1..Len(skt) : s # old => skt'[s] = skt[s]
      BY <1>1, <2>1, <2>2, <2>3
    <2>5. SOCKET_RECV_QUEUES' = [SOCKET_RECV_QUEUES EXCEPT ![skt[old].dock] = NoSocket]
      BY <1>5 DEF insert, TableWithout
    <2>6. TypeOK'
      <3>1. SOCKET_RECV_QUEUES' \in [Dock -> 0..Len(skt)]
        <4>1. SOCKET_RECV_QUEUES \in [Dock -> 0..Len(skt)] /\ 0 \in 0..Len(skt)
          BY <1>1 DEF DocksInv, TypeOK
        <4> QED BY <2>5, <4>1 DEF NoSocket
      <3> QED BY <1>2, <1>3, <2>4, <3>1 DEF DocksInv, TypeOK
    <2>7. OnlyLiveRegistered'
      BY <1>1, <2>1, <2>4, <2>5 DEF DocksInv, TypeOK, OnlyLiveRegistered, NoSocket
    <2> QED BY <2>6, <2>7 DEF DocksInv
  <1> QED BY <1>4, <1>5

\* Receiving and delivering change what is in the queues, and leave every
\* socket alive or dropped and at its dock.
LEMMA ContentsStep ==
    ASSUME DocksInv, UNCHANGED <<SOCKET_RECV_QUEUES, sockets>>, messages' \in Nat,
           skt' \in Seq(Socket), Len(skt') = Len(skt),
           \A s \in 1..Len(skt) : skt'[s].dock = skt[s].dock /\ skt'[s].alive = skt[s].alive,
           call' \in [Caller -> Call(Len(skt))],
           \A c \in Caller : call'[c].pc # "idle" => call'[c].skt # NoSocket
    PROVE  DocksInv'
  <1>1. TypeOK'
    BY DEF DocksInv, TypeOK
  <1>2. \A d \in Dock : SOCKET_RECV_QUEUES[d] \in 0..Len(skt) /\ Len(skt) \in Nat
    BY DEF DocksInv, TypeOK
  <1>3. OnlyLiveRegistered'
    BY <1>2 DEF DocksInv, OnlyLiveRegistered, NoSocket
  <1> QED BY <1>1, <1>3 DEF DocksInv

\* Replacing a socket by one with the same dock and life is such a change.
LEMMA ReplaceSocket ==
    ASSUME DocksInv, NEW s \in 1..Len(skt), NEW x \in Socket,
           x.dock = skt[s].dock, x.alive = skt[s].alive
    PROVE  LET new == [skt EXCEPT ![s] = x]
           IN  /\ new \in Seq(Socket) /\ Len(new) = Len(skt)
               /\ \A t \in 1..Len(skt) : new[t].dock = skt[t].dock /\ new[t].alive = skt[t].alive
  BY DEF DocksInv, TypeOK

\* The delivery of a message adds it to one queue, or to none.
LEMMA DeliverDocksInv ==
    ASSUME DocksInv, NEW d \in Dock, NEW n \in 1..MaxBatch, process_inner_pkt(d, n)
    PROVE  DocksInv'
  <1> DEFINE s == SOCKET_RECV_QUEUES[d]
             body == [i \in 1..n |-> <<messages + 1, i>>]
  <1>1. s \in 0..Len(skt) /\ skt \in Seq(Socket) /\ Len(skt) \in Nat /\ messages \in Nat
    BY DEF DocksInv, TypeOK
  <1>2. /\ messages' \in Nat /\ UNCHANGED <<SOCKET_RECV_QUEUES, sockets, call>>
        /\ call' \in [Caller -> Call(Len(skt))]
        /\ \A c \in Caller : call'[c].pc # "idle" => call'[c].skt # NoSocket
    BY DEF process_inner_pkt, DocksInv, TypeOK
  <1>3. body \in Seq(Member)
    <2>1. \A i \in 1..n : <<messages + 1, i>> \in Member
      BY <1>1 DEF Member
    <2>2. n \in Nat
      OBVIOUS
    <2> QED BY <2>1, <2>2
  <1> HIDE DEF body
  <1>4. CASE s # NoSocket /\ Len(skt[s].recv_incoming) < QueueCap
    <2> DEFINE x == [skt[s] EXCEPT !.recv_incoming = Append(@, body),
                                   !.accepted = @ \cup ToSet(body)]
    <2>1. s \in 1..Len(skt) /\ skt[s] \in Socket
      BY <1>1, <1>4 DEF NoSocket
    <2>2. skt' = [skt EXCEPT ![s] = x]
      BY <1>1, <1>4, <2>1 DEF process_inner_pkt, body, Socket
    <2>3. ToSet(body) \subseteq Member
      BY <1>3 DEF ToSet
    <2>4. Append(skt[s].recv_incoming, body) \in Seq(Seq(Member))
      BY <1>3, <2>1 DEF Socket
    <2>5. x \in Socket /\ x.dock = skt[s].dock /\ x.alive = skt[s].alive
      BY <2>1, <2>3, <2>4 DEF Socket
    <2> HIDE DEF x
    <2> QED BY <1>2, <2>1, <2>2, <2>5, ReplaceSocket, ContentsStep
  <1>5. CASE ~(s # NoSocket /\ Len(skt[s].recv_incoming) < QueueCap)
    <2>1. skt' = skt
      BY <1>5 DEF process_inner_pkt
    <2> QED BY <1>1, <1>2, <2>1, ContentsStep
  <1> QED BY <1>4, <1>5

\* A call looks its name up and goes on with a socket.
LEMMA RecvDocksInv ==
    ASSUME DocksInv, NEW c \in Caller, NEW id \in SocketId, recv_message(c, id)
    PROVE  DocksInv'
  <1>1. /\ Len(skt) \in Nat /\ skt \in Seq(Socket)
        /\ sockets[id] \in 0..Len(skt) /\ sockets[id] # NoSocket
    BY DEF recv_message, DocksInv, TypeOK
  <1>2. At("recv", id, sockets[id]) \in Call(Len(skt))
    BY <1>1, AtType
  <1>3. At("recv", id, sockets[id]).skt # NoSocket
    BY <1>1, AtType
  <1>4. call' \in [Caller -> Call(Len(skt))]
    BY <1>2 DEF recv_message, DocksInv, TypeOK
  <1>5. \A e \in Caller : call'[e].pc # "idle" => call'[e].skt # NoSocket
    BY <1>3 DEF recv_message, DocksInv, TypeOK
  <1>6. UNCHANGED <<SOCKET_RECV_QUEUES, skt, sockets, messages>> /\ messages' \in Nat
    BY DEF recv_message, DocksInv, TypeOK
  <1> QED BY <1>1, <1>4, <1>5, <1>6, ContentsStep

\* The steps of recv_from: members move between the queues of the call's own
\* socket, its hand and its caller.
LEMMA RecvFromDocksInv ==
    ASSUME DocksInv, NEW c \in Caller, Pop(c) \/ Take(c) \/ Push(c) \/ RecvError(c)
    PROVE  DocksInv'
  <1> DEFINE s == call[c].skt
             Pc == {"idle", "insert", "recv", "wait", "push"}
             Callers == [Caller -> Call(Len(skt))]
  <1>1. /\ skt \in Seq(Socket) /\ Len(skt) \in Nat /\ messages \in Nat
        /\ call \in Callers /\ call[c] \in Call(Len(skt))
        /\ \A e \in Caller : call[e].pc # "idle" => call[e].skt # NoSocket
    BY DEF DocksInv, TypeOK
  <1>2. call[c].pc # "idle"
    BY DEF Pop, Take, Push, RecvError
  <1>3. s \in 1..Len(skt)
    BY <1>1, <1>2 DEF Call, NoSocket
  <1>4. skt[s] \in Socket /\ call[c].hand \in Seq(Member)
    BY <1>1, <1>3 DEF Call
  <1>5. UNCHANGED <<SOCKET_RECV_QUEUES, sockets>> /\ messages' \in Nat
    BY <1>1 DEF Pop, Take, Push, RecvError
  <1>6. \A pc \in Pc, h \in Seq(Member) :
            LET k == [call[c] EXCEPT !.pc = pc, !.hand = h]
            IN  k \in Call(Len(skt)) /\ k.skt = s
    BY <1>1 DEF Call
  <1>7. Idle \in Call(Len(skt)) /\ Idle.pc = "idle"
    BY <1>1, IdleType
  <1>8. ASSUME NEW x \in Call(Len(skt)), x.pc = "idle" \/ x.skt = s,
               call' = [call EXCEPT ![c] = x],
               NEW y \in Socket, y.dock = skt[s].dock, y.alive = skt[s].alive,
               skt' = [skt EXCEPT ![s] = y]
        PROVE  DocksInv'
    <2>1. call' \in Callers
      BY <1>1, <1>8
    <2>2. \A e \in Caller : call'[e].pc # "idle" => call'[e].skt # NoSocket
      BY <1>1, <1>3, <1>8 DEF NoSocket
    <2> QED BY <1>3, <1>5, <1>8, <2>1, <2>2, ReplaceSocket, ContentsStep
  <1>9. skt = [skt EXCEPT ![s] = skt[s]]
    BY <1>1, <1>3
  <1>10. CASE Pop(c)
    <2>1. CASE skt[s].incoming_queue # <<>>
      <3> DEFINE y == [skt[s] EXCEPT !.incoming_queue = Tail(@)]
      <3>1. Tail(skt[s].incoming_queue) \in Seq(Member)
        BY <1>4, <2>1 DEF Socket
      <3>2. y \in Socket /\ y.dock = skt[s].dock /\ y.alive = skt[s].alive
        BY <1>4, <3>1 DEF Socket
      <3>3. skt' = [skt EXCEPT ![s] = y] /\ call' = [call EXCEPT ![c] = Idle]
        BY <1>10, <2>1 DEF Pop
      <3> HIDE DEF y
      <3> QED BY <1>7, <1>8, <3>2, <3>3
    <2>2. CASE skt[s].incoming_queue = <<>>
      <3> DEFINE x == [call[c] EXCEPT !.pc = "wait", !.hand = call[c].hand]
      <3>1. x \in Call(Len(skt)) /\ x.skt = s
        BY <1>4, <1>6
      <3>2. call' = [call EXCEPT ![c] = x] /\ skt' = skt
        BY <1>1, <1>10, <2>2 DEF Pop, Call
      <3> HIDE DEF x
      <3> QED BY <1>4, <1>8, <1>9, <3>1, <3>2
    <2> QED BY <2>1, <2>2
  <1>11. CASE Take(c)
    <2> DEFINE x == [call[c] EXCEPT !.pc = "push", !.hand = Head(skt[s].recv_incoming)]
               y == [skt[s] EXCEPT !.recv_incoming = Tail(@)]
    <2>1. skt[s].recv_incoming \in Seq(Seq(Member)) /\ skt[s].recv_incoming # <<>>
      BY <1>4, <1>11 DEF Take, Socket
    <2>2. /\ Head(skt[s].recv_incoming) \in Seq(Member)
          /\ Tail(skt[s].recv_incoming) \in Seq(Seq(Member))
      BY <2>1
    <2>3. x \in Call(Len(skt)) /\ x.skt = s
      BY <1>6, <2>2
    <2>4. y \in Socket /\ y.dock = skt[s].dock /\ y.alive = skt[s].alive
      BY <1>4, <2>2 DEF Socket
    <2>5. call' = [call EXCEPT ![c] = x] /\ skt' = [skt EXCEPT ![s] = y]
      BY <1>1, <1>11 DEF Take, Call
    <2> HIDE DEF x, y
    <2> QED BY <1>8, <2>3, <2>4, <2>5
  <1>12. CASE Push(c)
    <2>1. CASE call[c].hand = <<>>
      <3> DEFINE x == [call[c] EXCEPT !.pc = "recv", !.hand = call[c].hand]
      <3>1. x \in Call(Len(skt)) /\ x.skt = s
        BY <1>4, <1>6
      <3>2. call' = [call EXCEPT ![c] = x] /\ skt' = skt
        BY <1>1, <1>12, <2>1 DEF Push, Call
      <3> HIDE DEF x
      <3> QED BY <1>4, <1>8, <1>9, <3>1, <3>2
    <2>2. CASE call[c].hand # <<>>
      <3> DEFINE x == [call[c] EXCEPT !.pc = call[c].pc, !.hand = Tail(call[c].hand)]
                 y == [skt[s] EXCEPT !.incoming_queue = Append(@, Head(call[c].hand))]
      <3>1. Head(call[c].hand) \in Member /\ Tail(call[c].hand) \in Seq(Member)
        BY <1>4, <2>2
      <3>2. x \in Call(Len(skt)) /\ x.skt = s
        BY <1>6, <1>12, <3>1 DEF Push
      <3>3. Append(skt[s].incoming_queue, Head(call[c].hand)) \in Seq(Member)
        BY <1>4, <3>1 DEF Socket
      <3>4. y \in Socket /\ y.dock = skt[s].dock /\ y.alive = skt[s].alive
        BY <1>4, <3>3 DEF Socket
      <3>5. call' = [call EXCEPT ![c] = x] /\ skt' = [skt EXCEPT ![s] = y]
        BY <1>1, <1>12, <2>2 DEF Push, Call
      <3> HIDE DEF x, y
      <3> QED BY <1>8, <3>2, <3>4, <3>5
    <2> QED BY <2>1, <2>2
  <1>13. CASE RecvError(c)
    <2>1. call' = [call EXCEPT ![c] = Idle] /\ skt' = skt
      BY <1>13 DEF RecvError
    <2> QED BY <1>4, <1>7, <1>8, <1>9, <2>1
  <1> QED BY <1>10, <1>11, <1>12, <1>13

\* Every step keeps the invariant.
LEMMA NextDocksInv == DocksInv /\ [Next]_vars => DocksInv'
  <1> SUFFICES ASSUME DocksInv, [Next]_vars PROVE DocksInv'
    OBVIOUS
  <1>1. CASE UNCHANGED vars
    BY <1>1 DEF vars, DocksInv, TypeOK, OnlyLiveRegistered
  <1>2. CASE \E c \in Caller, id \in SocketId :
                recv_message(c, id) \/ \E d \in Dock : bind(c, id, d)
    BY <1>2, RecvDocksInv, BindDocksInv
  <1>3. CASE \E c \in Caller : CallStep(c)
    BY <1>3, InsertDocksInv, RecvFromDocksInv DEF CallStep
  <1>4. CASE \E d \in Dock, n \in 1..MaxBatch : process_inner_pkt(d, n)
    BY <1>4, DeliverDocksInv
  <1> QED BY <1>1, <1>2, <1>3, <1>4 DEF Next

\* TypeOK and OnlyLiveRegistered together are an invariant of the sockets of a
\* daemon, whatever is bound, dropped, delivered and received concurrently.
THEOREM DocksInvariant == Spec => []DocksInv
  BY InitDocksInv, NextDocksInv, PTL DEF Spec

\* The table names only live sockets bound to the dock they are registered for:
\* Drop for BoundDock never leaves a queue behind that process_inner_pkt fills
\* and nobody reads.
THEOREM QueuesLive == Spec => []OnlyLiveRegistered
  <1>1. DocksInv => OnlyLiveRegistered
    BY DEF DocksInv
  <1> QED BY <1>1, DocksInvariant, PTL
=============================================================================
