----------------------------- MODULE NeighTable -----------------------------
(***************************************************************************)
(* The link between two daemons, and the entry that each has for it in its *)
(* neighbour table.  One of them dials: out_route_obfsudp opens a new      *)
(* connection every CONNECTION_LIFETIME and pins it.  The other listens:   *)
(* in_route_obfsudp enters what it accepts, with a time to live.  Each end *)
(* authenticates the other by itself, so the two tables change at          *)
(* different times.  A connection that no table holds is dropped; rounds   *)
(* of gossip that still use it are left out.  Time is counted in periods   *)
(* of CONNECTION_LIFETIME.                                                 *)
(***************************************************************************)
EXTENDS Integers, FiniteSets

CONSTANTS
    Conn,            \* bound: connections that exist at a time
    TTL,             \* time to live of an accepted link, in periods
    MaxFaults        \* bound: things that go wrong

ASSUME NeighTableAssumption ==
    TTL \in Nat \ {0} /\ MaxFaults \in Nat /\ "none" \notin Conn

VARIABLES
    ends,            \* connection -> the state of each of its ends
    table,           \* node -> the connection entered for the other, and its expiry
    pc,              \* what the dialler's loop does
    due1, due2,      \* ticks of its two timers that were not consumed
    faults,
    trouble,         \* history: something went wrong in this period
    troubled         \* history: periods in a row with trouble

vars == <<ends, table, pc, due1, due2, faults, trouble, troubled>>
history == <<faults, trouble, troubled>>
timers == <<due1, due2>>

Node == {"dialler", "listener"}
Other(n) == IF n = "dialler" THEN "listener" ELSE "dialler"
Free == [n \in Node |-> "none"]
Nobody == [conn |-> "none", expiry |-> 0]
Pinned == -1

Init ==
    /\ ends = [c \in Conn |-> Free]
    /\ table = [n \in Node |-> Nobody]
    /\ pc = "pipe" /\ due1 = 0 /\ due2 = 0
    /\ faults = 0 /\ trouble = FALSE /\ troubled = 0

\* A connection of which both ends are gone is forgotten.
Tidy(e) == [c \in Conn |-> IF \A n \in Node : e[c][n] = "gone" THEN Free ELSE e[c]]
Alive(c, n) == ends[c][n] \in {"auth", "heard", "up"}
Becomes(c, n, s) == ends' = Tidy([ends EXCEPT ![c][n] = s])

\* The connection of the attempt that is on.
Attempt == {c \in Conn : ends[c]["dialler"] \in {"auth", "heard"}}
\* The attempt is dropped, with its connection if it has one.
Dropped == Tidy([c \in Conn |-> IF c \in Attempt THEN [ends[c] EXCEPT !["dialler"] = "gone"] ELSE ends[c]])

Fault == faults < MaxFaults /\ faults' = faults + 1 /\ trouble' = TRUE /\ UNCHANGED troubled

-----------------------------------------------------------------------------
\* Mutant: the connection that is replaced is not dropped.
insert_inner_leaks(n, c, expiry) ==
    /\ table' = [table EXCEPT ![n] = [conn |-> c, expiry |-> expiry]]
    /\ Becomes(c, n, "up")

\* insert_inner: whatever was entered for the neighbour is replaced, and dropped.
insert_inner(n, c, expiry) ==
    /\ table' = [table EXCEPT ![n] = [conn |-> c, expiry |-> expiry]]
    /\ ends' = Tidy([d \in Conn |->
                        IF d = c THEN [ends[d] EXCEPT ![n] = "up"]
                        ELSE IF d = table[n].conn THEN [ends[d] EXCEPT ![n] = "gone"]
                        ELSE ends[d]])

\* The pipe of an attempt comes up.  A tick of timer2 that is left over from the
\* period before ends the attempt before that.
PipeUp ==
    /\ pc = "pipe" /\ due2 = 0 /\ pc' = "auth"
    /\ \E c \in Conn :
          /\ ends[c] = Free
          /\ ends' = [ends EXCEPT ![c] = [dialler |-> "auth", listener |-> "pending"]]
    /\ UNCHANGED <<table, timers, history>>

\* The pipe cannot be opened, or the other end does not authenticate.
AttemptFails ==
    /\ pc \in {"pipe", "auth"} /\ pc' = "waiting" /\ ends' = Dropped
    /\ Fault /\ UNCHANGED <<table, timers>>

\* accept: a task per pipe begins to authenticate.
Accept(c) ==
    /\ ends[c]["listener"] = "pending" /\ Becomes(c, "listener", "auth")
    /\ UNCHANGED <<table, pc, timers, history>>

\* connect: the other end, as soon as its connection loop runs, answers authenticate.
authenticate(c, n) ==
    /\ ends[c][n] = "auth" /\ Alive(c, Other(n)) /\ Becomes(c, n, "heard")
    /\ UNCHANGED <<table, pc, timers, history>>

\* Mutant: an entry that is there is kept.
insert_pinned_first(c) ==
    /\ ends[c]["dialler"] = "heard" /\ pc' = "waiting"
    /\ IF table["dialler"] = Nobody THEN insert_inner("dialler", c, Pinned)
       ELSE Becomes(c, "dialler", "gone") /\ UNCHANGED table
    /\ UNCHANGED <<timers, history>>
insert_pinned(c) ==
    /\ ends[c]["dialler"] = "heard" /\ insert_inner("dialler", c, Pinned) /\ pc' = "waiting"
    /\ UNCHANGED <<timers, history>>

\* The tasks of the listener do not wait for one another: a connection may be entered
\* while one that was dialled before it is not, and then be replaced by that one.
Overtakes(c) ==
    \E d \in Conn \ {c} :
        /\ ends[d]["listener"] \in {"pending", "auth", "heard"}
        /\ c \in Attempt \/ (c = table["dialler"].conn /\ d \notin Attempt)
insert(c) ==
    /\ ends[c]["listener"] = "heard" /\ insert_inner("listener", c, TTL)
    /\ IF Overtakes(c) THEN Fault ELSE UNCHANGED history
    /\ UNCHANGED <<pc, timers>>

\* The dialler has left; or it does not answer.
Deserted(c) ==
    /\ ends[c]["listener"] \in {"pending", "auth"} /\ ends[c]["dialler"] = "gone"
    /\ Becomes(c, "listener", "gone")
    /\ UNCHANGED <<table, pc, timers, history>>
Unanswered(c) ==
    /\ ends[c]["listener"] \in {"pending", "auth"} /\ Becomes(c, "listener", "gone")
    /\ Fault /\ UNCHANGED <<table, pc, timers>>

\* The loop of the dialler.  An attempt that is over waits for timer1; timer2 ends
\* whatever is on, unless the attempt is over and timer1 has ticked too.
Timer1 ==
    /\ pc = "waiting" /\ due1 > 0 /\ due1' = due1 - 1 /\ pc' = "pipe"
    /\ UNCHANGED <<ends, table, due2, history>>

\* Mutant: the attempt goes on beside the next one.
Timer2_spawns ==
    /\ due2 > 0 /\ ~(pc = "waiting" /\ due1 > 0) /\ due2' = due2 - 1
    /\ pc' = "pipe" /\ UNCHANGED <<ends, table, due1, history>>
Timer2 ==
    /\ due2 > 0 /\ ~(pc = "waiting" /\ due1 > 0) /\ due2' = due2 - 1
    /\ pc' = "pipe" /\ ends' = Dropped
    /\ UNCHANGED <<table, due1, history>>

\* Mutant: an entry goes in the last of its periods.
garbage_collect_early(n) ==
    /\ table[n] # Nobody /\ table[n].expiry \in 0..1
    /\ table' = [table EXCEPT ![n] = Nobody] /\ Becomes(table[n].conn, n, "gone")
    /\ UNCHANGED <<pc, timers, history>>

\* The table's entries that have expired are dropped, pinned ones never.
garbage_collect(n) ==
    /\ table[n] # Nobody /\ table[n].expiry = 0
    /\ table' = [table EXCEPT ![n] = Nobody] /\ Becomes(table[n].conn, n, "gone")
    /\ UNCHANGED <<pc, timers, history>>

-----------------------------------------------------------------------------
\* What is ready in a daemon is done within a period.  That a message between two
\* live ends takes longer is a fault, and an attempt that is not over is trouble.
Ready ==
    /\ due2 = 0 /\ ~(pc = "waiting" /\ due1 > 0)
    /\ \A n \in Node : table[n] # Nobody => table[n].expiry # 0
    /\ \A c \in Conn, n \in Node : ends[c][n] # "heard"
Delivered ==
    /\ pc # "pipe"
    /\ \A c \in Conn : ends[c]["listener"] # "pending"
    /\ \A c \in Conn, n \in Node : ends[c][n] = "auth" => ~Alive(c, Other(n))

Tick ==
    /\ Ready
    /\ due1' = due1 + 1 /\ due2' = due2 + 1
    /\ table' = [n \in Node |-> IF table[n].expiry > 0 THEN [table[n] EXCEPT !.expiry = @ - 1] ELSE table[n]]
    /\ trouble' = FALSE
    /\ IF Delivered THEN UNCHANGED faults ELSE faults < MaxFaults /\ faults' = faults + 1
    /\ troubled' = IF trouble \/ ~Delivered \/ pc # "waiting" THEN troubled + 1 ELSE 0
    /\ UNCHANGED <<ends, pc>>

Work ==
    \/ PipeUp \/ Timer1 \/ Timer2
    \/ \E c \in Conn : Accept(c) \/ insert_pinned(c) \/ insert(c) \/ Deserted(c)
    \/ \E c \in Conn, n \in Node : authenticate(c, n)
    \/ \E n \in Node : garbage_collect(n)
Next == Work \/ AttemptFails \/ Tick \/ \E c \in Conn : Unanswered(c)

\* Daemons that have something to do do it, and time goes on.
Spec == Init /\ [][Next]_vars /\ WF_vars(Work) /\ WF_vars(Tick)

-----------------------------------------------------------------------------
TypeOK ==
    /\ ends \in [Conn -> [Node -> {"none", "pending", "auth", "heard", "up", "gone"}]]
    /\ Cardinality(Attempt) <= 1 /\ (Attempt # {} <=> pc = "auth")
    /\ \A n \in Node : table[n] = Nobody \/ table[n] \in [conn : Conn, expiry : {Pinned} \cup 0..TTL]
    /\ due1 \in 0..(MaxFaults + 1) /\ due2 \in 0..1
    /\ faults \in 0..MaxFaults /\ trouble \in BOOLEAN /\ troubled \in 0..MaxFaults

\* Every end that is up is the one its node has entered: none is left over that still
\* carries packets nobody takes out, and no entry stands for an end that is gone.
UpIsEntered == \A c \in Conn, n \in Node : ends[c][n] = "up" <=> table[n].conn = c

\* Both nodes send over the same connection.
Joined == table["dialler"] # Nobody /\ table["dialler"].conn = table["listener"].conn

\* However the two tables went apart, by an attempt given up after the listener had
\* entered it or by connections entered in another order than they were dialled, they
\* agree again at the end of the first period in which all goes well.
Heals == ~trouble /\ Ready /\ Delivered /\ pc = "waiting" => Joined

\* The listener forgets the neighbour only after trouble in TTL - 1 periods in a row.
KeptWhileRenewed ==
    [][table["listener"] # Nobody /\ table'["listener"] = Nobody => troubled >= TTL - 1]_vars

\* The nodes are connected again and again.
Reconnects == []<>Joined
=============================================================================
