------------------------------ MODULE Streams -------------------------------
(***************************************************************************)
(* One reliable stream from a local TCP connection to a service of a       *)
(* haven: Stream::connect on the client's side, called by tcp_forward_loop *)
(* or socks5_once with a socket of its own; StreamListener::accept and the *)
(* tickers it starts on the haven's, called by tcp_forward or simple_proxy.*)
(*                                                                         *)
(* The haven sockets in between lose and reorder messages and deliver      *)
(* none twice.  StreamState, of another library, is kept to what the code  *)
(* relies on: chunks are numbered from 0, sent until acknowledged, handed  *)
(* over in order; an RST ends it.  The chunks go from client to server.    *)
(***************************************************************************)
EXTENDS Integers, Sequences, FiniteSets, FiniteSetsExt

CONSTANTS
    Chunks,      \* what the local connection sends: this many chunks
    MaxSyns,     \* bound: SYNs sent
    MaxFaults    \* bound: losses and failures

VARIABLES
    client,      \* the client's end: its step and the chunks acknowledged to it
    syns,        \* SYNs sent
    streams,     \* the server's streams in the order accepted
    table,       \* the listener's entry for the client, a stream or none
    net,         \* messages under way
    faults

vars == <<client, syns, streams, table, net, faults>>

None == 0
Message(kind, n) == [kind |-> kind, n |-> n]
Seqnos == 0..(Chunks - 1)

\* How far a stream has the chunks in order: what it hands over and acknowledges.
InOrder(i) ==
    Max({n \in streams[i].from..Chunks : streams[i].from..(n - 1) \subseteq streams[i].got})
Live(i) == streams[i].state = "live"
Sending == client.pc = "open" /\ client.acked < Chunks

Fault == faults < MaxFaults /\ faults' = faults + 1

Init ==
    /\ client = [pc |-> "dial", acked |-> 0]
    /\ syns = 0 /\ streams = <<>> /\ table = None /\ net = {} /\ faults = 0

-----------------------------------------------------------------------------
(* The client's side.                                                      *)

\* send_syn, first and after each of its timeouts.
SendSyn ==
    /\ client.pc = "dial" /\ syns < MaxSyns
    /\ syns' = syns + 1 /\ net' = net \cup {Message("Syn", syns)}
    /\ UNCHANGED <<client, streams, table, faults>>

\* wait_synack takes the first SYNACK for its own and passes over the rest; once
\* the stream is up, SYNACKs say nothing, acknowledgements add up, and an RST
\* ends the stream and with it the copying.
ClientRecv(m) ==
    /\ m \in net /\ m.kind \in {"SynAck", "Ack", "RstToClient"}
    /\ net' = net \ {m}
    /\ client' = CASE m.kind = "SynAck" /\ client.pc = "dial" -> [client EXCEPT !.pc = "open"]
                   [] m.kind = "Ack" /\ client.pc = "open" -> [client EXCEPT !.acked = Max({@, m.n})]
                   [] m.kind = "RstToClient" /\ client.pc = "open" -> [client EXCEPT !.pc = "reset"]
                   [] OTHER -> client
    /\ UNCHANGED <<syns, streams, table, faults>>

\* A tick of the client's StreamState sends a chunk not yet acknowledged.
SendData(k) ==
    /\ client.pc = "open" /\ k >= client.acked
    /\ net' = net \cup {Message("Data", k)}
    /\ UNCHANGED <<client, syns, streams, table, faults>>

\* The local connection ends, the dialling fails, or tcp_forward_loop ends over the
\* failed dialling of another connection: the socket and the task of the stream go
\* without a word to the server.
Hangup ==
    /\ Fault /\ client.pc \in {"dial", "open"}
    /\ client' = [client EXCEPT !.pc = "gone"]
    /\ UNCHANGED <<syns, streams, table, net>>

\* The stream gives up on its own accord, and its last tick may tell the server.
GiveUp(tells) ==
    /\ Fault /\ client.pc = "open"
    /\ client' = [client EXCEPT !.pc = "gone"]
    /\ net' = IF tells THEN net \cup {Message("RstToServer", 0)} ELSE net
    /\ UNCHANGED <<syns, streams, table>>

-----------------------------------------------------------------------------
(* StreamListener::accept.                                                 *)

\* StreamState::new_established: the chunks it is waiting for start at `from'.
Established(from) == [from |-> from, upto |-> from, got |-> {}, state |-> "live"]

\* Mutant: a second SYN goes on where the first left off.
AcceptResumes(m) ==
    /\ m \in net /\ m.kind = "Syn"
    /\ net' = (net \ {m}) \cup {Message("SynAck", 0)}
    /\ streams' = Append(streams, Established(IF table = None THEN 0 ELSE InOrder(table)))
    /\ table' = Len(streams) + 1
    /\ UNCHANGED <<client, syns, faults>>

\* A SYN, the first or a late one, makes a new stream with a ticker, which takes
\* the place of what the table holds for the client.
Accept(m) ==
    /\ m \in net /\ m.kind = "Syn"
    /\ net' = (net \ {m}) \cup {Message("SynAck", 0)}
    /\ streams' = Append(streams, Established(0))
    /\ table' = Len(streams) + 1
    /\ UNCHANGED <<client, syns, faults>>

\* An RST only takes the entry out: the stream behind it is not told.
RecvRst(m) ==
    /\ m \in net /\ m.kind = "RstToServer"
    /\ net' = net \ {m} /\ table' = None
    /\ UNCHANGED <<client, syns, streams, faults>>

\* Mutant: a chunk without a stream is passed over.
RecvDataSilent(m) ==
    /\ m \in net /\ m.kind = "Data"
    /\ net' = net \ {m}
    /\ streams' = IF table = None THEN streams
                  ELSE [streams EXCEPT ![table].got = @ \cup {m.n}]
    /\ UNCHANGED <<client, syns, table, faults>>

\* A chunk is injected into the stream of the table; without one it is answered
\* with an RST.  A state that nobody ticks any more takes it all the same.
RecvData(m) ==
    /\ m \in net /\ m.kind = "Data"
    /\ net' = (net \ {m}) \cup (IF table = None THEN {Message("RstToClient", 0)} ELSE {})
    /\ streams' = IF table = None THEN streams
                  ELSE [streams EXCEPT ![table].got = @ \cup {m.n}]
    /\ UNCHANGED <<client, syns, table, faults>>

-----------------------------------------------------------------------------
(* The tickers and the services.                                           *)

\* A tick: what is in order goes to the service, and is acknowledged.
Tick(i) ==
    /\ Live(i)
    /\ streams' = [streams EXCEPT ![i].upto = InOrder(i)]
    /\ net' = net \cup {Message("Ack", InOrder(i))}
    /\ UNCHANGED <<client, syns, table, faults>>

\* The service is done with a stream: upstream closed it, or refused the connection
\* that simple_proxy makes once it has read the address.  The ticker is cancelled
\* with the stream; if it gets a last tick before, it removes the client's entry,
\* also when that is another stream.
Drop(i, ticked) ==
    /\ Fault /\ Live(i)
    /\ streams' = [streams EXCEPT ![i].state = "gone"]
    /\ table' = IF ticked THEN None ELSE table
    /\ UNCHANGED <<client, syns, net>>

\* The loop of the service ends: over a message that accept cannot decode or an
\* answer it cannot send, and with tcp_forward over any refused connection.  All its
\* streams go, and it starts again with a new listener.
ServiceEnds ==
    /\ Fault /\ streams # <<>>
    /\ streams' = [i \in DOMAIN streams |-> [streams[i] EXCEPT !.state = "gone"]]
    /\ table' = None
    /\ UNCHANGED <<client, syns, net>>

Lose(m) ==
    /\ Fault /\ m \in net /\ net' = net \ {m}
    /\ UNCHANGED <<client, syns, streams, table>>

Recv(m) == ClientRecv(m) \/ Accept(m) \/ RecvRst(m) \/ RecvData(m)

Next ==
    \/ SendSyn \/ Hangup \/ ServiceEnds
    \/ \E told \in BOOLEAN : GiveUp(told)
    \/ \E k \in Seqnos : SendData(k)
    \/ \E m \in net : Recv(m) \/ Lose(m)
    \/ \E i \in DOMAIN streams : Tick(i) \/ \E ticked \in BOOLEAN : Drop(i, ticked)

\* Timers run and what is not lost arrives.
Fairness ==
    /\ WF_vars(SendSyn \/ \E k \in 0..MaxSyns : Recv(Message("Syn", k)))
    /\ WF_vars(\E kind \in {"SynAck", "RstToClient"} : Recv(Message(kind, 0)))
    /\ \A k \in Seqnos : WF_vars(SendData(k) \/ Recv(Message("Data", k)))
    /\ \A k \in 1..Chunks : WF_vars(Recv(Message("Ack", k)))
    /\ \A i \in 1..MaxSyns : WF_vars(i \in DOMAIN streams /\ Tick(i))

Spec == Init /\ [][Next]_vars /\ Fairness

-----------------------------------------------------------------------------
\* What has been acknowledged to the client was handed over whole, from the first
\* chunk on, by one stream of the server, however many streams its SYNs made: no
\* transfer counts as done that is split between two connections to upstream.
AckedDelivered ==
    client.acked > 0 =>
        \E i \in DOMAIN streams : streams[i].from = 0 /\ streams[i].upto >= client.acked

\* Chunks go to a state whose ticker was cancelled and never are acknowledged.
Unticked == table # None /\ ~Live(table)
\* A late SYN has put a new stream in the place of one that had acknowledged chunks.
Replaced == table # None /\ Live(table) /\ streams[table].upto < client.acked

\* A client with chunks to send sees them all acknowledged; after losses, restarts of
\* the service and streams that end it does, or is told by an RST that its stream is
\* gone.  The exceptions are exactly the two above.
Progress ==
    Sending ~> \/ client.acked = Chunks \/ Replaced
               \/ faults > 0 /\ (~Sending \/ Unticked)
=============================================================================
