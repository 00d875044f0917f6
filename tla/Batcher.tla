------------------------------- MODULE Batcher -------------------------------
(***************************************************************************)
(* The sending side of an N2R socket: send_to puts a message into a        *)
(* bounded channel, and send_batcher_loop takes what has accumulated,      *)
(* sorts it by destination and packs it into packets of limited size.      *)
(* What send_n2r does with a packet is the environment here, except for    *)
(* the size check of the encoder, which is exact.                          *)
(***************************************************************************)
EXTENDS Integers, Sequences, SequencesExt, FiniteSetsExt

CONSTANTS
    Endpoint,      \* destinations; an endpoint is its dock number here
    Length,        \* the message lengths applications use, in bytes
    SourceDock,
    LIMIT, OVERHEAD, PAYLOAD,
    OutgoingCap,   \* capacity of the outgoing channel
    MaxCalls       \* bound: calls of send_to

VARIABLES
    calls,           \* send_to calls so far
    recv_outgoing,   \* the outgoing channel
    batches,         \* endpoint -> messages taken from the channel
    endpoint,        \* the endpoint whose batch is being split, or 0
    pc,
    accepted,        \* history: what send_to got into the channel
    sent,            \* history: endpoint -> messages handed over by send_n2r
    lost,            \* history: messages dropped when send_n2r failed
    spinning         \* parity of the empty packets sent

vars == <<calls, recv_outgoing, batches, endpoint, pc, accepted, sent, lost, spinning>>

NoMessages == [e \in Endpoint |-> <<>>]

Init ==
    /\ calls = 0 /\ recv_outgoing = <<>> /\ accepted = <<>>
    /\ batches = NoMessages /\ sent = NoMessages
    /\ endpoint = 0 /\ pc = "recv" /\ lost = {} /\ spinning = FALSE

-----------------------------------------------------------------------------
\* bincode's variable-length encoding of an integer.
VarInt(n) == IF n < 251 THEN 1 ELSE IF n < 65536 THEN 3 ELSE 5

\* InnerPacket::encode: the fingerprint, the variant, two docks, and the body.
EncodedLen(e, body) ==
    20 + 1 + VarInt(SourceDock) + VarInt(e) + VarInt(Len(body))
       + FoldSeq(LAMBDA m, acc : VarInt(m.len) + m.len + acc, 0, body)

Encodable(e, body) == EncodedLen(e, body) <= PAYLOAD

\* Mutant: only the messages themselves are counted.
CurrentSizeBare(body) == FoldSeq(LAMBDA m, acc : m.len + acc, 0, body)

\* The size the batcher reckons with.
CurrentSize(body) == FoldSeq(LAMBDA m, acc : m.len + OVERHEAD + acc, 0, body)

\* Mutant: the limit is lowered to leave room for the packet's header.
SubbatchReserved(batch) ==
    Max({k \in 0..Len(batch) : CurrentSize(SubSeq(batch, 1, k)) <= LIMIT - 40})

\* How many messages at the front of a batch make the next subbatch.
Subbatch(batch) == Max({k \in 0..Len(batch) : CurrentSize(SubSeq(batch, 1, k)) <= LIMIT})

\* Mutant: what does not fit goes to the back of the batch.
RestRotated(batch) ==
    LET rest == SubSeq(batch, Subbatch(batch) + 1, Len(batch))
    IN  IF rest = <<>> THEN rest ELSE Tail(rest) \o <<Head(rest)>>

Rest(batch) == SubSeq(batch, Subbatch(batch) + 1, Len(batch))

-----------------------------------------------------------------------------
\* try_send: a full channel drops the message, and send_to says Ok anyway.
send_to(e, len) ==
    LET m == [no |-> calls + 1, to |-> e, len |-> len]
        room == Len(recv_outgoing) < OutgoingCap
    IN  /\ calls < MaxCalls
        /\ calls' = calls + 1
        /\ recv_outgoing' = IF room THEN Append(recv_outgoing, m) ELSE recv_outgoing
        /\ accepted' = IF room THEN Append(accepted, m) ELSE accepted
        /\ UNCHANGED <<batches, endpoint, pc, sent, lost, spinning>>

\* recv().await, then try_recv() for as long as something is available.
Take ==
    /\ pc \in {"recv", "drain"} /\ recv_outgoing # <<>>
    /\ batches' = [batches EXCEPT ![Head(recv_outgoing).to] = Append(@, Head(recv_outgoing))]
    /\ recv_outgoing' = Tail(recv_outgoing)
    /\ pc' = "drain"
    /\ UNCHANGED <<calls, endpoint, accepted, sent, lost, spinning>>

Drained ==
    /\ pc = "drain" /\ recv_outgoing = <<>>
    /\ pc' = "split"
    /\ UNCHANGED <<calls, recv_outgoing, batches, endpoint, accepted, sent, lost, spinning>>

\* Endpoints are visited in hash order, each until its batch is empty.
Visiting(e) == pc = "split" /\ batches[e] # <<>> /\ endpoint \in {0, e}

\* One subbatch leaves.
SendSubbatch(e) ==
    LET body == SubSeq(batches[e], 1, Subbatch(batches[e]))
    IN  /\ Visiting(e)
        /\ Encodable(e, body)
        /\ batches' = [batches EXCEPT ![e] = Rest(batches[e])]
        /\ sent' = [sent EXCEPT ![e] = @ \o body]
        /\ spinning' = (IF body = <<>> THEN ~spinning ELSE FALSE)
        /\ endpoint' = IF batches'[e] = <<>> THEN 0 ELSE e
        /\ UNCHANGED <<calls, recv_outgoing, pc, accepted, lost>>

\* send_n2r fails: the packet is too big, or there is no route, no onion key,
\* no anonymous source for a reply. `?` ends the task, the supervisor starts it
\* again, and the batches of that round are gone.
SendFails(e) ==
    /\ Visiting(e)
    /\ lost' = lost \cup UNION {ToSet(batches[d]) : d \in Endpoint}
    /\ batches' = NoMessages
    /\ endpoint' = 0 /\ pc' = "recv" /\ spinning' = FALSE
    /\ UNCHANGED <<calls, recv_outgoing, accepted, sent>>

RoundOver ==
    /\ pc = "split" /\ batches = NoMessages
    /\ pc' = "recv"
    /\ UNCHANGED <<calls, recv_outgoing, batches, endpoint, accepted, sent, lost, spinning>>

\* Nobody calls send_to any more and the loop waits in recv().
Idle == calls = MaxCalls /\ pc = "recv" /\ recv_outgoing = <<>> /\ UNCHANGED vars

LoopStep ==
    \/ Take \/ Drained \/ RoundOver
    \/ \E e \in Endpoint : SendSubbatch(e) \/ SendFails(e)

Next ==
    \/ \E e \in Endpoint, len \in Length : send_to(e, len)
    \/ LoopStep
    \/ Idle

\* The socket keeps its batcher task alive; applications need not send.
Spec == Init /\ [][Next]_vars /\ WF_vars(LoopStep)

-----------------------------------------------------------------------------
For(e, s) == SelectSeq(s, LAMBDA m : m.to = e)

\* Nothing is reordered, duplicated or forgotten on the way from send_to to
\* send_n2r: per destination, what was accepted and not lost with a failing
\* round is what was sent, then what is batched, then what is queued.
Conserved ==
    \A e \in Endpoint :
        SelectSeq(For(e, accepted), LAMBDA m : m \notin lost)
            = sent[e] \o batches[e] \o For(e, recv_outgoing)

Left(m) == m \in lost \cup UNION {ToSet(sent[e]) : e \in Endpoint}

\* "take things out until a limit is hit": the message in front is never taken out.
Oversize == \E e \in Endpoint : Visiting(e) /\ Head(batches[e]).len + OVERHEAD > LIMIT

\* Every message the channel accepted is eventually sent, or lost in a round
\* whose send_n2r failed, and no destination is starved by another; unless the loop
\* for ever sends empty packets ahead of a message that is too long to go alone.
EveryMessageLeaves ==
    \/ <>[]Oversize
    \/ \A n \in 1..MaxCalls :
          (Len(accepted) >= n) ~> (Len(accepted) >= n /\ Left(accepted[n]))

\* What the estimate leaves out of account: fingerprint, variant, docks and count,
\* less what it has to spare for the length of a first message.
Uncounted == 20 + 1 + 5 + 5 + 1 - (OVERHEAD - 3)

\* "const OVERHEAD: usize = 10; // conservative": a subbatch that passes the
\* size check fits into the payload of a packet, however many messages it is made
\* of, if it stays away from the limit by what the estimate leaves out.
OverheadConservative ==
    \A e \in Endpoint :
        LET body == SubSeq(batches[e], 1, Subbatch(batches[e]))
        IN  Visiting(e) /\ CurrentSize(body) <= LIMIT - Uncounted => Encodable(e, body)
=============================================================================
