-------------------------------- MODULE Docks --------------------------------
(***************************************************************************)
(* N2R sockets from the inside of one daemon: the table of receive queues  *)
(* by dock, binding and dropping sockets through the control protocol,     *)
(* the delivery of a message to the queue of its dock, and recv_from.      *)
(* Calls of the control protocol run concurrently.  All sockets here have  *)
(* the same fingerprint, so that an endpoint is its dock.                  *)
(***************************************************************************)
EXTENDS Integers, Sequences, SequencesExt, FiniteSets

CONSTANTS
    Dock,
    SocketId,      \* names of sockets in the control protocol
    Caller,        \* concurrent calls of the control protocol
    QueueCap,      \* capacity of recv_incoming
    MaxBinds, MaxMessages, MaxBatch   \* bounds; MaxBatch: members of a message

ASSUME DocksAssumption == SocketId # {} /\ MaxBinds \in Nat

VARIABLES
    SOCKET_RECV_QUEUES,   \* dock -> the socket that receives, or none
    skt,                  \* sockets made so far, in order
    sockets,              \* SocketId -> the socket of that name, or none
    call,                 \* caller -> the call it is in
    messages,             \* messages that have come in
    returned              \* history: socket -> members recv_from returned

vars == <<SOCKET_RECV_QUEUES, skt, sockets, call, messages, returned>>

NoSocket == 0
At(pc, id, s) == [pc |-> pc, id |-> id, skt |-> s, hand |-> <<>>]
Idle == At("idle", CHOOSE i \in SocketId : TRUE, NoSocket)

Init ==
    /\ SOCKET_RECV_QUEUES = [d \in Dock |-> NoSocket]
    /\ skt = <<>> /\ returned = <<>>
    /\ sockets = [i \in SocketId |-> NoSocket]
    /\ call = [c \in Caller |-> Idle]
    /\ messages = 0

NewSkt(d) == [dock |-> d, alive |-> TRUE, recv_incoming |-> <<>>, incoming_queue |-> <<>>,
              accepted |-> {}]

-----------------------------------------------------------------------------
\* N2rSocket::bind, the first half of bind_n2r: the new queue takes the dock over.
bind(c, id, d) ==
    LET new == Len(skt) + 1
    IN  /\ call[c].pc = "idle" /\ new <= MaxBinds
        /\ skt' = Append(skt, NewSkt(d))
        /\ returned' = Append(returned, <<>>)
        /\ SOCKET_RECV_QUEUES' = [SOCKET_RECV_QUEUES EXCEPT ![d] = new]
        /\ call' = [call EXCEPT ![c] = At("insert", id, new)]
        /\ UNCHANGED <<sockets, messages>>

\* recv_message keeps its reference into the map while it waits.
Referenced(id) == \E c \in Caller : call[c].pc \in {"recv", "wait", "push"} /\ call[c].id = id

\* Mutant: dropping a socket leaves its queue in the table.
TableKept(old) == SOCKET_RECV_QUEUES

\* Mutant: dropping a socket takes all entries of its fingerprint.
TableCleared(old) ==
    IF old = NoSocket THEN SOCKET_RECV_QUEUES ELSE [d \in Dock |-> NoSocket]

\* Drop for BoundDock: the dock's entry goes, whosever it is.
TableWithout(old) ==
    IF old = NoSocket THEN SOCKET_RECV_QUEUES
    ELSE [SOCKET_RECV_QUEUES EXCEPT ![skt[old].dock] = NoSocket]

\* The second half: the socket replaces the one of the same name, which is
\* dropped.  The map waits until nobody refers to that entry.
insert(c) ==
    LET old == sockets[call[c].id]
    IN  /\ call[c].pc = "insert" /\ ~Referenced(call[c].id)
        /\ sockets' = [sockets EXCEPT ![call[c].id] = call[c].skt]
        /\ SOCKET_RECV_QUEUES' = TableWithout(old)
        /\ skt' = IF old = NoSocket THEN skt ELSE [skt EXCEPT ![old].alive = FALSE]
        /\ call' = [call EXCEPT ![c] = Idle]
        /\ UNCHANGED <<messages, returned>>

\* process_inner_pkt: a message with n members for dock d.  Without a socket, or
\* with a full queue, it is lost.
process_inner_pkt(d, n) ==
    LET s == SOCKET_RECV_QUEUES[d]
        body == [i \in 1..n |-> <<messages + 1, i>>]
    IN  /\ messages < MaxMessages /\ messages' = messages + 1
        /\ skt' = IF s # NoSocket /\ Len(skt[s].recv_incoming) < QueueCap
                  THEN [skt EXCEPT ![s].recv_incoming = Append(@, body),
                                   ![s].accepted = @ \cup ToSet(body)]
                  ELSE skt
        /\ UNCHANGED <<SOCKET_RECV_QUEUES, sockets, call, returned>>

-----------------------------------------------------------------------------
\* Mutant: the name is not looked up before it is used.
RecvUnbound(c, id) ==
    /\ call[c].pc = "idle"
    /\ call' = [call EXCEPT ![c] = At("recv", id, sockets[id])]
    /\ UNCHANGED <<SOCKET_RECV_QUEUES, skt, sockets, messages, returned>>

\* A call for a name that is bound; the reference to its socket is kept.
recv_message(c, id) ==
    /\ call[c].pc = "idle" /\ sockets[id] # NoSocket
    /\ call' = [call EXCEPT ![c] = At("recv", id, sockets[id])]
    /\ UNCHANGED <<SOCKET_RECV_QUEUES, skt, sockets, messages, returned>>

\* recv_from: a member left over from an earlier message comes first.
Pop(c) ==
    LET s == call[c].skt
    IN  /\ call[c].pc = "recv"
        /\ IF skt[s].incoming_queue # <<>>
           THEN /\ returned' = [returned EXCEPT ![s] = Append(@, Head(skt[s].incoming_queue))]
                /\ skt' = [skt EXCEPT ![s].incoming_queue = Tail(@)]
                /\ call' = [call EXCEPT ![c] = Idle]
           ELSE /\ call' = [call EXCEPT ![c].pc = "wait"]
                /\ UNCHANGED <<skt, returned>>
        /\ UNCHANGED <<SOCKET_RECV_QUEUES, sockets, messages>>

\* Otherwise a message is waited for.
Take(c) ==
    LET s == call[c].skt
    IN  /\ call[c].pc = "wait" /\ skt[s].recv_incoming # <<>>
        /\ call' = [call EXCEPT ![c].pc = "push", ![c].hand = Head(skt[s].recv_incoming)]
        /\ skt' = [skt EXCEPT ![s].recv_incoming = Tail(@)]
        /\ UNCHANGED <<SOCKET_RECV_QUEUES, sockets, messages, returned>>

\* Mutant: the members are queued twice.
PushTwice(c) ==
    LET s == call[c].skt
    IN  /\ call[c].pc = "push"
        /\ skt' = [skt EXCEPT ![s].incoming_queue = @ \o call[c].hand \o call[c].hand]
        /\ call' = [call EXCEPT ![c].hand = <<>>, ![c].pc = "recv"]
        /\ UNCHANGED <<SOCKET_RECV_QUEUES, sockets, messages, returned>>

\* Its members are queued one by one.
Push(c) ==
    LET s == call[c].skt
    IN  /\ call[c].pc = "push"
        /\ IF call[c].hand = <<>>
           THEN call' = [call EXCEPT ![c].pc = "recv"] /\ UNCHANGED skt
           ELSE /\ skt' = [skt EXCEPT ![s].incoming_queue = Append(@, Head(call[c].hand))]
                /\ call' = [call EXCEPT ![c].hand = Tail(@)]
        /\ UNCHANGED <<SOCKET_RECV_QUEUES, sockets, messages, returned>>

\* The queue's sender has left the table: recv_from fails.
RecvError(c) ==
    LET s == call[c].skt
    IN  /\ call[c].pc = "wait" /\ skt[s].recv_incoming = <<>>
        /\ SOCKET_RECV_QUEUES[skt[s].dock] # s
        /\ call' = [call EXCEPT ![c] = Idle]
        /\ UNCHANGED <<SOCKET_RECV_QUEUES, skt, sockets, messages, returned>>

CallStep(c) == insert(c) \/ Pop(c) \/ Take(c) \/ Push(c) \/ RecvError(c)

Next ==
    \/ \E c \in Caller, id \in SocketId : recv_message(c, id) \/ \E d \in Dock : bind(c, id, d)
    \/ \E c \in Caller : CallStep(c)
    \/ \E d \in Dock, n \in 1..MaxBatch : process_inner_pkt(d, n)

Spec == Init /\ [][Next]_vars

-----------------------------------------------------------------------------
Member == Nat \X Nat
Socket ==
    [dock : Dock, alive : BOOLEAN, recv_incoming : Seq(Seq(Member)),
     incoming_queue : Seq(Member), accepted : SUBSET Member]

Call(n) ==
    [pc : {"idle", "insert", "recv", "wait", "push"}, id : SocketId, skt : 0..n,
     hand : Seq(Member)]

\* Every number in the table, in the map of names and in a call is that of a
\* socket that bind has made, and a call past its first step has a socket.
TypeOK ==
    /\ SOCKET_RECV_QUEUES \in [Dock -> 0..Len(skt)]
    /\ skt \in Seq(Socket) /\ Len(skt) <= MaxBinds
    /\ sockets \in [SocketId -> 0..Len(skt)]
    /\ call \in [Caller -> Call(Len(skt))]
    /\ \A c \in Caller : call[c].pc # "idle" => call[c].skt # NoSocket
    /\ messages \in Nat

\* The queue registered for a dock always belongs to a socket that is alive and
\* bound to that dock: no message is put where nobody will look for it.
OnlyLiveRegistered ==
    \A d \in Dock :
        SOCKET_RECV_QUEUES[d] # NoSocket =>
            /\ skt[SOCKET_RECV_QUEUES[d]].alive
            /\ skt[SOCKET_RECV_QUEUES[d]].dock = d

Held(s) == {c \in Caller : call[c].skt = s}

\* Concurrent recv_from calls neither lose nor repeat anything: the members a
\* socket accepted are those returned, queued, in some caller's hand, or in a
\* message not yet taken, each exactly once.
EachOnce ==
    \A s \in 1..Len(skt) :
        LET parts == <<returned[s], skt[s].incoming_queue, FlattenSeq(skt[s].recv_incoming)>>
            holders == SetToSeq(Held(s))
            hands == [i \in 1..Len(holders) |-> call[holders[i]].hand]
            all == FlattenSeq(parts) \o FlattenSeq(hands)
        IN  /\ ToSet(all) = skt[s].accepted
            /\ IsInjective(all)

\* "Binds an N2R socket.": the socket a name stands for receives what is sent to
\* its dock, whatever happens to other docks and names at the same time, unless a
\* socket bound later has taken the dock over, or one bound before it has gone: its
\* drop takes the entry of the dock away also when that is the new socket's.
BoundReceives ==
    \A id \in SocketId :
        LET s == sockets[id]
            same == {t \in 1..Len(skt) : t # s /\ skt[t].dock = skt[s].dock}
        IN  s # NoSocket /\ (\A t \in same : t < s /\ skt[t].alive)
            => SOCKET_RECV_QUEUES[skt[s].dock] = s
=============================================================================
