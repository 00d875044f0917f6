---------------------------- MODULE ReplyBalance ----------------------------
(***************************************************************************)
(* An anonymous identity keeps a relay supplied with reply blocks.         *)
(*                                                                         *)
(* At the identity's daemon, tasks (calls of send_n2r, and peel_forward    *)
(* loops that received a reply) run replenish_rrb concurrently over one    *)
(* cached balance; degarblers and the balance live for TTL.  At the relay  *)
(* blocks wait in a bounded deque, and a reply uses up the newest.         *)
(*                                                                         *)
(* A block is told apart by the age of its degarbler only: at age TTL the  *)
(* degarbler is gone and the block is of no use.  Time passes in Tick.     *)
(***************************************************************************)
EXTENDS Integers, Sequences, SequencesExt, FiniteSets

CONSTANTS
    Task,
    LIMIT,        \* replenish while the balance is below this
    BATCH_SIZE,   \* blocks per packet
    TTL,          \* of balance and degarblers, in ticks
    Capacity,     \* of the relay's deque
    MaxFlight,    \* bound: packets under way in each direction
    MaxReplies,   \* bound: replies that arrive
    MaxErrors     \* bound: failing calls of send_reply_blocks

VARIABLES
    balance,      \* the cached balance, 0 when there is none
    cached, age,  \* is there one, and since how many ticks
    pc, read,     \* where each task is, and the balance it has read
    outbound,     \* ages of the batches of blocks under way
    deque,        \* ages of the blocks the relay holds, oldest insertion first
    inbound,      \* ages of the blocks of the replies under way
    replies, errors

vars == <<balance, cached, age, pc, read, outbound, deque, inbound, errors, replies>>

Init ==
    /\ balance = 0 /\ cached = FALSE /\ age = 0
    /\ pc = [t \in Task |-> "idle"] /\ read = [t \in Task |-> 0]
    /\ outbound = <<>> /\ deque = <<>> /\ inbound = <<>>
    /\ errors = 0 /\ replies = 0

Goto(t, l) == pc' = [pc EXCEPT ![t] = l]

-----------------------------------------------------------------------------
\* Mutant: a read renews the entry, as time_to_idle would.
LookupRenewing == cached' = TRUE /\ age' = 0 /\ UNCHANGED balance

\* rb_balance: get_with puts 0 into the cache when there is no entry.
rb_balance == cached' = TRUE /\ age' = (IF cached THEN age ELSE 0) /\ UNCHANGED balance

Insert(b) == balance' = b /\ cached' = TRUE /\ age' = 0

\* send_n2r from the identity: replenish before the message goes out.
Send(t) ==
    /\ pc[t] = "idle" /\ Goto(t, "while")
    /\ UNCHANGED <<balance, cached, age, read, outbound, deque, inbound, errors, replies>>

\* A reply comes in whose degarbler is still there; without one the packet is
\* given up.
Degarble(t, i) ==
    /\ pc[t] = "idle"
    /\ inbound' = RemoveAt(inbound, i)
    /\ Goto(t, IF inbound[i] < TTL THEN "decrement" ELSE "idle")
    /\ UNCHANGED <<balance, cached, age, read, outbound, deque, errors, replies>>

\* decrement_rrb_balance, replenish_rrb: read, and later write.
Read(t, from, to) ==
    /\ pc[t] = from /\ Goto(t, to)
    /\ read' = [read EXCEPT ![t] = balance]
    /\ rb_balance
    /\ UNCHANGED <<outbound, deque, inbound, errors, replies>>

Write(t, from, delta) ==
    /\ pc[t] = from /\ Goto(t, "while")
    /\ Insert(read[t] + delta)
    /\ read' = [read EXCEPT ![t] = 0]
    /\ UNCHANGED <<outbound, deque, inbound, errors, replies>>

\* The condition of the loop.
While(t) ==
    /\ pc[t] = "while" /\ Goto(t, IF balance < LIMIT THEN "send" ELSE "idle")
    /\ rb_balance
    /\ UNCHANGED <<read, outbound, deque, inbound, errors, replies>>

\* send_reply_blocks makes a batch and its degarblers; inject_asif_incoming
\* drops the packet when the queue is full.
SendBlocks(t) ==
    /\ pc[t] = "send" /\ Goto(t, "read")
    /\ outbound' = IF Len(outbound) < MaxFlight THEN Append(outbound, 0) ELSE outbound
    /\ UNCHANGED <<balance, cached, age, read, deque, inbound, errors, replies>>

\* It fails, for instance without a route: `?` ends replenish_rrb and its caller.
SendFails(t) ==
    /\ pc[t] = "send" /\ Goto(t, "idle")
    /\ errors < MaxErrors /\ errors' = errors + 1
    /\ UNCHANGED <<balance, cached, age, read, outbound, deque, inbound, replies>>

TaskStep(t) ==
    \/ \E i \in DOMAIN inbound : Degarble(t, i)
    \/ Read(t, "decrement", "decremented") \/ Write(t, "decremented", -1)
    \/ While(t)
    \/ SendBlocks(t) \/ SendFails(t)
    \/ Read(t, "read", "raised") \/ Write(t, "raised", BATCH_SIZE \div 2)

-----------------------------------------------------------------------------
\* Mutant: the oldest block is not removed from a full deque.
StoredAll(blocks, a) == blocks \o [i \in 1..BATCH_SIZE |-> a]

\* ReplyBlockDeque::insert for each block of the batch.
Stored(blocks, a) ==
    LET all == blocks \o [i \in 1..BATCH_SIZE |-> a]
    IN  SubSeq(all, Len(all) - (IF Len(all) < Capacity THEN Len(all) ELSE Capacity) + 1, Len(all))

Deliver(i) ==
    /\ deque' = Stored(deque, outbound[i])
    /\ outbound' = RemoveAt(outbound, i)
    /\ UNCHANGED <<balance, cached, age, pc, read, inbound, errors, replies>>

Lose(i) ==
    /\ outbound' = RemoveAt(outbound, i)
    /\ UNCHANGED <<balance, cached, age, pc, read, deque, inbound, errors, replies>>

\* The relay sends to the identity: pop_back, and the reply may get lost.
Reply(arrives) ==
    /\ deque # <<>>
    /\ deque' = Front(deque)
    /\ arrives => Len(inbound) < MaxFlight /\ replies < MaxReplies
    /\ replies' = IF arrives THEN replies + 1 ELSE replies
    /\ inbound' = IF arrives THEN Append(inbound, Last(deque)) ELSE inbound
    /\ UNCHANGED <<balance, cached, age, pc, read, outbound, errors>>

Older(a) == IF a < TTL THEN a + 1 ELSE a

\* Time passes; an entry of age TTL is gone.  The entry does not expire
\* in the instant between a task's read and its write.
Tick ==
    LET gone == age + 1 >= TTL
    IN  /\ \A t \in Task : pc[t] \notin {"decremented", "raised"}
        /\ cached' = (cached /\ ~gone)
        /\ balance' = IF cached' THEN balance ELSE 0
        /\ age' = IF cached' THEN age + 1 ELSE 0
        /\ outbound' = [i \in DOMAIN outbound |-> Older(outbound[i])]
        /\ deque' = [i \in DOMAIN deque |-> Older(deque[i])]
        /\ inbound' = [i \in DOMAIN inbound |-> Older(inbound[i])]
        /\ UNCHANGED <<pc, read, errors, replies>>

Next ==
    \/ \E t \in Task : Send(t) \/ TaskStep(t)
    \/ \E i \in DOMAIN outbound : Deliver(i) \/ Lose(i)
    \/ \E arrives \in BOOLEAN : Reply(arrives)
    \/ Tick

\* Tasks are scheduled and time passes.  The assumptions on the outside: the
\* application goes on sending, no packet is under way for ever, and a network
\* that is offered packets again and again delivers one before it is stale.
Fairness ==
    /\ \A t \in Task : WF_vars(TaskStep(t)) /\ WF_vars(Send(t))
    /\ WF_vars(Tick)
    /\ WF_vars(\E i \in DOMAIN outbound : Deliver(i) \/ Lose(i))
    /\ SF_vars(\E i \in DOMAIN outbound : outbound[i] < TTL /\ Deliver(i))

Spec == Init /\ [][Next]_vars /\ Fairness

-----------------------------------------------------------------------------
Ages == 0..TTL

TypeOK ==
    /\ balance \in Int /\ cached \in BOOLEAN /\ age \in 0..(TTL - 1)
    /\ pc \in [Task -> {"idle", "decrement", "decremented", "while", "send", "read", "raised"}]
    /\ read \in [Task -> Int]
    /\ outbound \in Seq(Ages) /\ deque \in Seq(Ages) /\ inbound \in Seq(Ages)
    /\ Len(deque) <= Capacity
    /\ errors \in 0..MaxErrors /\ replies \in 0..MaxReplies

\* "we don't keep track beyond so if rb calculation is wrong, we don't get stuck
\* for too long": an identity that goes on sending gets usable blocks to the
\* relay again and again, whatever was lost and however wrong the balance is.
NotStuck == []<>(\E i \in DOMAIN deque : deque[i] < TTL)

=============================================================================
