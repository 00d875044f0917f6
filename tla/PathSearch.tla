----------------------------- MODULE PathSearch -----------------------------
(***************************************************************************)
(* find_shortest_path: the breadth-first search that chooses the route of  *)
(* every onion packet, one loop iteration per step.  It runs under the     *)
(* read lock of the graph, so the graph stands still; the order in which a *)
(* neighbour set is iterated is a hash order, hence arbitrary.             *)
(***************************************************************************)
EXTENDS Integers, Sequences, FiniteSets

CONSTANTS
    Node,        \* ids (one per fingerprint)
    None         \* the Option::None of the result

VARIABLES
    known,       \* the ids that fp_to_id still maps to
    adjacency,   \* id -> set of neighbouring ids, no entry for a node without any
    start_id, end_id,
    visited, queue,
    path,        \* id -> the id it was discovered from
    current_id,
    neighbors,   \* what the inner loop has not looked at yet
    result,
    pc

input == <<known, adjacency, start_id, end_id>>
vars == <<input, visited, queue, path, current_id, neighbors, result, pc>>

\* The graphs RelayGraph can be in: symmetric, no node its own neighbour, no
\* entry for a node without neighbours (LookupsNeverPanic and DocumentsFiled).
GraphOf(links) ==
    [m \in UNION links |-> {n \in Node : n # m /\ {m, n} \in links}]
Graphs == {GraphOf(links) : links \in SUBSET {l \in SUBSET Node : Cardinality(l) = 2}}

Init ==
    /\ adjacency \in Graphs
    /\ known \in SUBSET Node
    /\ DOMAIN adjacency \subseteq known
    /\ start_id \in Node
    /\ end_id \in Node
    /\ visited = {} /\ queue = <<>> /\ path = [n \in {} |-> n]
    /\ current_id = start_id /\ neighbors = {}
    /\ result = None /\ pc = "lookup"

-----------------------------------------------------------------------------
\* `self.id(start_fp)?` and `self.id(end_fp)?`, then the first queue entry.
Lookup ==
    /\ pc = "lookup"
    /\ IF {start_id, end_id} \subseteq known
       THEN visited' = {start_id} /\ queue' = <<start_id>> /\ pc' = "pop"
       ELSE pc' = "done" /\ UNCHANGED <<visited, queue>>
    /\ UNCHANGED <<input, path, current_id, neighbors, result>>

\* Mutants: the back of the queue is popped; the front is only looked at.
PopBack ==
    /\ pc = "pop" /\ queue # <<>>
    /\ current_id' = queue[Len(queue)]
    /\ queue' = SubSeq(queue, 1, Len(queue) - 1)
    /\ UNCHANGED <<input, visited, path>>
PeekFront ==
    /\ pc = "pop" /\ queue # <<>>
    /\ current_id' = Head(queue)
    /\ UNCHANGED <<input, visited, queue, path>>

\* queue.pop_front()
PopFront ==
    /\ pc = "pop" /\ queue # <<>>
    /\ current_id' = Head(queue)
    /\ queue' = Tail(queue)
    /\ UNCHANGED <<input, visited, path>>

\* The popped node is the destination.
Found ==
    /\ PopFront
    /\ current_id' = end_id
    /\ result' = <<>> /\ pc' = "walk"
    /\ UNCHANGED neighbors

\* `self.adjacency.get(&current_id)?` finds the neighbours ...
Expand ==
    /\ PopFront
    /\ current_id' # end_id
    /\ current_id' \in DOMAIN adjacency
    /\ neighbors' = adjacency[current_id'] /\ pc' = "scan"
    /\ UNCHANGED result

\* ... or returns None for the whole search.
Isolated ==
    /\ PopFront
    /\ current_id' # end_id
    /\ current_id' \notin DOMAIN adjacency
    /\ pc' = "done"
    /\ UNCHANGED <<neighbors, result>>

Exhausted ==
    /\ pc = "pop" /\ queue = <<>>
    /\ pc' = "done"
    /\ UNCHANGED <<input, visited, queue, path, current_id, neighbors, result>>

\* Mutant: the start is recorded as the previous node.
ScanFromStart(n) ==
    /\ n \in neighbors
    /\ neighbors' = neighbors \ {n}
    /\ visited' = visited \cup {n}
    /\ IF n \in visited THEN UNCHANGED <<path, queue>>
       ELSE /\ path' = [m \in DOMAIN path \cup {n} |-> IF m = n THEN start_id ELSE path[m]]
            /\ queue' = Append(queue, n)

\* One iteration of the inner loop.
Scan(n) ==
    /\ n \in neighbors
    /\ neighbors' = neighbors \ {n}
    /\ visited' = visited \cup {n}
    /\ IF n \in visited THEN UNCHANGED <<path, queue>>
       ELSE /\ path' = [m \in DOMAIN path \cup {n} |-> IF m = n THEN current_id ELSE path[m]]
            /\ queue' = Append(queue, n)

Visit ==
    /\ pc = "scan"
    /\ \E n \in neighbors : Scan(n)
    /\ UNCHANGED <<input, current_id, result, pc>>

Scanned ==
    /\ pc = "scan" /\ neighbors = {}
    /\ pc' = "pop"
    /\ UNCHANGED <<input, visited, queue, path, current_id, neighbors, result>>

\* The walk back pushes onto result, which is reversed at the end: here each
\* node goes to the front.
Walk ==
    /\ pc = "walk" /\ current_id \in DOMAIN path
    /\ result' = <<current_id>> \o result
    /\ current_id' = path[current_id]
    /\ UNCHANGED <<input, visited, queue, path, neighbors, pc>>

Return ==
    /\ pc = "walk" /\ current_id \notin DOMAIN path
    /\ result' = <<start_id>> \o result
    /\ pc' = "done"
    /\ UNCHANGED <<input, visited, queue, path, current_id, neighbors>>

\* The search has returned.
Done == pc = "done" /\ UNCHANGED vars

Next ==
    \/ Lookup \/ Found \/ Expand \/ Isolated \/ Exhausted \/ Visit \/ Scanned
    \/ Walk \/ Return \/ Done

\* A loop without awaits: the thread that runs it keeps running it.
Spec == Init /\ [][Next]_vars /\ WF_vars(Next)

-----------------------------------------------------------------------------
TypeOK ==
    /\ known \subseteq Node
    /\ DOMAIN adjacency \subseteq known /\ adjacency \in [DOMAIN adjacency -> SUBSET Node]
    /\ start_id \in Node /\ end_id \in Node /\ current_id \in Node
    /\ visited \subseteq Node
    /\ queue \in Seq(Node)
    /\ DOMAIN path \subseteq Node /\ path \in [DOMAIN path -> Node]
    /\ neighbors \subseteq Node
    /\ result \in Seq(Node) \cup {None}
    /\ pc \in {"lookup", "pop", "scan", "walk", "done"}

Joined(m, n) == m \in DOMAIN adjacency /\ n \in adjacency[m]

\* What send_n2r gets is a route: it begins at this node, ends at the
\* destination, and every two consecutive relays are joined by a link.
ResultIsRoute ==
    pc = "done" /\ result # None =>
        /\ Len(result) > 0
        /\ result[1] = start_id
        /\ result[Len(result)] = end_id
        /\ \A i \in 1..(Len(result) - 1) : Joined(result[i], result[i + 1])

\* The inductive strengthening of ResultIsRoute: path is a tree of links that
\* hangs from the start and covers what was visited, and the route walked back
\* so far joins current_id to the destination.
SearchInv ==
    /\ TypeOK
    /\ pc = "lookup" => visited = {}
    /\ start_id \notin DOMAIN path
    /\ DOMAIN path \subseteq visited /\ visited \subseteq DOMAIN path \cup {start_id}
    /\ \A n \in DOMAIN path : path[n] \in visited /\ Joined(path[n], n)
    /\ \A i \in 1..Len(queue) : queue[i] \in visited
    /\ pc \in {"pop", "scan", "walk"} => start_id \in visited
    /\ pc \in {"lookup", "pop", "scan"} => result = None
    /\ pc \in {"scan", "walk"} => current_id \in visited
    /\ pc = "scan" => \A n \in neighbors : Joined(current_id, n)
    /\ pc = "walk" =>
          /\ result \in Seq(Node)
          /\ IF result = <<>> THEN current_id = end_id
             ELSE Joined(current_id, result[1]) /\ result[Len(result)] = end_id
          /\ \A i \in 1..(Len(result) - 1) : Joined(result[i], result[i + 1])
    /\ ResultIsRoute

\* Ball[k]: the nodes at most k links away from the start.
Ball[k \in 0..Cardinality(Node)] ==
    IF k = 0 THEN {start_id}
    ELSE Ball[k - 1] \cup UNION {adjacency[n] : n \in Ball[k - 1] \cap DOMAIN adjacency}

Reachable == end_id \in Ball[Cardinality(Node)]

Distance(n) == CHOOSE k \in DOMAIN Ball : n \in Ball[k] /\ \A j \in DOMAIN Ball : j < k => n \notin Ball[j]

\* "a Vec of Fingerprint instances representing the shortest path or None if
\* no path exists": in whatever order neighbour sets are iterated.
ShortestOrNone ==
    pc = "done" =>
        IF {start_id, end_id} \subseteq known /\ Reachable
        THEN result # None /\ Len(result) = Distance(end_id) + 1
        ELSE result = None

\* Bounds the steps left: nodes not yet taken out of the queue, neighbours not
\* yet looked at, hops not yet walked back.
Rank ==
    LET n == Cardinality(Node)
        toPop == Cardinality(Node \ visited) + Len(queue)
    IN  IF pc = "done" THEN 0
        ELSE 1 + toPop * (n + 3) + Cardinality(neighbors)
               + (CASE pc = "pop" -> 0
                    [] pc \in {"lookup", "scan"} -> 1
                    [] pc = "walk" -> n + 1 - Len(result))

\* The search returns, cycles in the graph notwithstanding: every iteration of
\* its loops lowers Rank, which is never negative.
EveryStepCounts == [][0 <= Rank' /\ Rank' < Rank]_vars

=============================================================================
