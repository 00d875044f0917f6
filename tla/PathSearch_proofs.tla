-------------------------- MODULE PathSearch_proofs --------------------------
(***************************************************************************)
(* What find_shortest_path returns is a route, on every graph.             *)
(***************************************************************************)
EXTENDS PathSearch, SequenceTheorems, TLAPS

\* Every graph of GraphOf maps nodes to sets of nodes.
LEMMA GraphType ==
    ASSUME NEW g \in Graphs
    PROVE  DOMAIN g \subseteq Node /\ g \in [DOMAIN g -> SUBSET Node]
  <1>1. PICK ls \in SUBSET {l \in SUBSET Node : Cardinality(l) = 2} : g = GraphOf(ls)
    BY DEF Graphs
  <1> QED BY <1>1 DEF GraphOf

\* Putting the node reached by the walk in front of the route.
LEMMA Prepended ==
    ASSUME NEW x \in Node, NEW s \in Seq(Node)
    PROVE  /\ <<x>> \o s \in Seq(Node)
           /\ Len(<<x>> \o s) = Len(s) + 1
           /\ (<<x>> \o s)[1] = x
           /\ \A i \in 1..Len(s) : (<<x>> \o s)[i + 1] = s[i]
           /\ <<x>> \o s # <<>>
  <1>1. <<x>> \in Seq(Node) /\ Len(<<x>>) = 1 /\ <<x>>[1] = x /\ Len(s) \in Nat
    OBVIOUS
  <1>2. /\ <<x>> \o s \in Seq(Node)
        /\ Len(<<x>> \o s) = Len(<<x>>) + Len(s)
        /\ \A i \in 1 .. Len(<<x>>) + Len(s) :
              (<<x>> \o s)[i] = IF i <= Len(<<x>>) THEN <<x>>[i] ELSE s[i - Len(<<x>>)]
    BY <1>1, ConcatProperties
  <1>3. (<<x>> \o s)[1] = x
    BY <1>1, <1>2
  <1>4. ASSUME NEW i \in 1..Len(s) PROVE (<<x>> \o s)[i + 1] = s[i]
    BY <1>1, <1>2
  <1>5. Len(<<x>> \o s) = Len(s) + 1
    BY <1>1, <1>2
  <1> QED BY <1>1, <1>2, <1>3, <1>4, <1>5

\* A route that starts next to current_id stays a route with current_id put in
\* front of it.
LEMMA RouteExtended ==
    ASSUME NEW x \in Node, NEW s \in Seq(Node),
           IF s = <<>> THEN x = end_id ELSE Joined(x, s[1]) /\ s[Len(s)] = end_id,
           \A i \in 1..(Len(s) - 1) : Joined(s[i], s[i + 1])
    PROVE  LET r == <<x>> \o s
           IN  /\ r[Len(r)] = end_id
               /\ \A i \in 1..(Len(r) - 1) : Joined(r[i], r[i + 1])
  <1> DEFINE r == <<x>> \o s
  <1>1. /\ r \in Seq(Node) /\ Len(r) = Len(s) + 1 /\ r[1] = x
        /\ \A i \in 1..Len(s) : r[i + 1] = s[i]
        /\ Len(s) \in Nat
    BY Prepended
  <1>2. s # <<>> => Len(s) >= 1
    OBVIOUS
  <1>3. s = <<>> => Len(s) = 0
    OBVIOUS
  <1> HIDE DEF r
  <1>4. r[Len(r)] = end_id
    BY <1>1, <1>2, <1>3
  <1>5. ASSUME NEW i \in 1..(Len(r) - 1) PROVE Joined(r[i], r[i + 1])
    <2>1. CASE i = 1
      BY <1>1, <1>2, <1>3, <2>1
    <2>2. CASE i # 1
      <3>1. i - 1 \in 1..(Len(s) - 1) /\ i \in 1..Len(s)
        BY <1>1, <2>2
      <3>2. r[(i - 1) + 1] = s[i - 1] /\ r[i + 1] = s[i] /\ (i - 1) + 1 = i
        BY <1>1, <3>1
      <3>3. Joined(s[i - 1], s[(i - 1) + 1])
        BY <3>1
      <3> QED BY <3>2, <3>3
    <2> QED BY <2>1, <2>2
  <1> QED BY <1>4, <1>5 DEF r

-----------------------------------------------------------------------------
\* The search starts with nothing visited.
LEMMA InitSearchInv == Init => SearchInv
  <1> SUFFICES ASSUME Init PROVE SearchInv
    OBVIOUS
  <1>1. DOMAIN adjacency \subseteq Node /\ adjacency \in [DOMAIN adjacency -> SUBSET Node]
    BY GraphType DEF Init
  <1>2. DOMAIN path = {} /\ Len(queue) = 0 /\ queue \in Seq(Node) /\ path \in [DOMAIN path -> Node]
    BY DEF Init
  <1> QED BY <1>1, <1>2 DEF Init, SearchInv, TypeOK, ResultIsRoute

\* What a pop of the queue preserves, whatever is done with the node.
LEMMA PopKeeps ==
    ASSUME SearchInv, PopFront
    PROVE  /\ current_id' \in visited /\ current_id' \in Node
           /\ queue' \in Seq(Node)
           /\ \A i \in 1..Len(queue') : queue'[i] \in visited
           /\ visited' = visited /\ path' = path
           /\ known' = known /\ adjacency' = adjacency
           /\ start_id' = start_id /\ end_id' = end_id
  <1>1. queue \in Seq(Node) /\ queue # <<>> /\ visited \subseteq Node
    BY DEF SearchInv, TypeOK, PopFront
  <1>2. /\ Head(queue) = queue[1] /\ Len(queue) >= 1 /\ Len(queue) \in Nat
        /\ Tail(queue) \in Seq(Node)
        /\ Len(Tail(queue)) = Len(queue) - 1
        /\ \A i \in 1..Len(Tail(queue)) : Tail(queue)[i] = queue[i + 1]
    BY <1>1, HeadTailProperties
  <1>3. \A i \in 1..Len(queue) : queue[i] \in visited
    BY DEF SearchInv
  <1>4. \A i \in 1..Len(Tail(queue)) : Tail(queue)[i] \in visited
    BY <1>2, <1>3
  <1> QED BY <1>1, <1>2, <1>3, <1>4 DEF PopFront, input

\* One iteration of the inner loop hangs at most one new node onto the tree.
LEMMA ScanKeeps ==
    ASSUME SearchInv, Visit
    PROVE  /\ visited' \subseteq Node
           /\ DOMAIN path' \subseteq Node /\ path' \in [DOMAIN path' -> Node]
           /\ start_id \notin DOMAIN path'
           /\ DOMAIN path' \subseteq visited' /\ visited' \subseteq DOMAIN path' \cup {start_id}
           /\ visited \subseteq visited'
           /\ \A n \in DOMAIN path' : path'[n] \in visited' /\ Joined(path'[n], n)
           /\ queue' \in Seq(Node)
           /\ \A i \in 1..Len(queue') : queue'[i] \in visited'
           /\ neighbors' \subseteq neighbors
  <1>1. PICK n \in neighbors : Scan(n)
    BY DEF Visit
  <1>2. /\ n \in Node /\ Joined(current_id, n) /\ current_id \in visited /\ start_id \in visited
        /\ current_id \in Node
        /\ visited \subseteq Node /\ DOMAIN path \subseteq Node /\ path \in [DOMAIN path -> Node]
        /\ queue \in Seq(Node) /\ start_id \notin DOMAIN path
        /\ DOMAIN path \subseteq visited /\ visited \subseteq DOMAIN path \cup {start_id}
        /\ \A k \in DOMAIN path : path[k] \in visited /\ Joined(path[k], k)
        /\ \A i \in 1..Len(queue) : queue[i] \in visited
    BY <1>1 DEF SearchInv, TypeOK, Visit
  <1>3. visited' = visited \cup {n} /\ neighbors' = neighbors \ {n}
    BY <1>1 DEF Scan
  <1>4. CASE n \in visited
    BY <1>1, <1>2, <1>3, <1>4 DEF Scan
  <1>5. CASE n \notin visited
    <2>1. /\ DOMAIN path' = DOMAIN path \cup {n}
          /\ \A m \in DOMAIN path' : path'[m] = IF m = n THEN current_id ELSE path[m]
          /\ queue' = Append(queue, n)
          /\ path' = [m \in DOMAIN path' |-> path'[m]]
      BY <1>1, <1>5 DEF Scan
    <2>2. \A k \in DOMAIN path' : path'[k] \in visited' /\ Joined(path'[k], k)
      BY <1>2, <1>3, <2>1
    <2>3. queue' \in Seq(Node) /\ \A i \in 1..Len(queue') : queue'[i] \in visited'
      BY <1>2, <1>3, <2>1
    <2>4. path' \in [DOMAIN path' -> Node]
      BY <1>2, <2>1
    <2> QED BY <1>2, <1>3, <1>5, <2>1, <2>2, <2>3, <2>4
  <1> QED BY <1>4, <1>5

\* Every step keeps path a tree of links and the walked route a route.
LEMMA NextSearchInv == SearchInv /\ [Next]_vars => SearchInv'
  <1> SUFFICES ASSUME SearchInv, [Next]_vars PROVE SearchInv'
    OBVIOUS
  <1>1. CASE Lookup
    <2>1. CASE {start_id, end_id} \subseteq known
      <3>1. /\ <<start_id>> \in Seq(Node) /\ Len(<<start_id>>) = 1
            /\ <<start_id>>[1] = start_id
        BY DEF SearchInv, TypeOK
      <3>2. DOMAIN path = {}
        BY <1>1, <2>1 DEF SearchInv, Lookup
      <3>3. /\ visited' = {start_id} /\ queue' = <<start_id>> /\ pc' = "pop"
            /\ UNCHANGED <<known, adjacency, start_id, end_id, path, current_id, neighbors, result>>
        BY <1>1, <2>1 DEF Lookup, input
      <3>4. TypeOK'
        BY <3>1, <3>3 DEF SearchInv, TypeOK
      <3>5. ResultIsRoute'
        BY <3>3 DEF ResultIsRoute
      <3>6. result' = None
        BY <1>1, <3>3 DEF SearchInv, Lookup
      <3>7. \A i \in 1..Len(queue') : queue'[i] \in visited'
        BY <3>1, <3>3
      <3> QED BY <3>2, <3>3, <3>4, <3>5, <3>6, <3>7 DEF SearchInv
    <2>2. CASE ~({start_id, end_id} \subseteq known)
      BY <1>1, <2>2 DEF SearchInv, Lookup, TypeOK, ResultIsRoute, input, Joined
    <2> QED BY <2>1, <2>2
  <1>2. CASE Found
    <2>1. <<>> \in Seq(Node) /\ Len(<<>>) = 0
      OBVIOUS
    <2> QED BY <1>2, <2>1, PopKeeps DEF Found, PopFront, SearchInv, TypeOK, ResultIsRoute, Joined
  <1>3. CASE Expand
    BY <1>3, PopKeeps DEF Expand, PopFront, SearchInv, TypeOK, ResultIsRoute, Joined
  <1>4. CASE Isolated
    BY <1>4, PopKeeps DEF Isolated, PopFront, SearchInv, TypeOK, ResultIsRoute, Joined
  <1>5. CASE Exhausted
    BY <1>5 DEF Exhausted, SearchInv, TypeOK, ResultIsRoute, Joined, input
  <1>6. CASE Visit
    BY <1>6, ScanKeeps DEF Visit, SearchInv, TypeOK, ResultIsRoute, Joined, input
  <1>7. CASE Scanned
    BY <1>7 DEF Scanned, SearchInv, TypeOK, ResultIsRoute, Joined, input
  <1>8. CASE Walk
    <2> DEFINE r == <<current_id>> \o result
    <2>1. /\ current_id \in Node /\ result \in Seq(Node)
          /\ IF result = <<>> THEN current_id = end_id
             ELSE Joined(current_id, result[1]) /\ result[Len(result)] = end_id
          /\ \A i \in 1..(Len(result) - 1) : Joined(result[i], result[i + 1])
          /\ path[current_id] \in visited /\ path[current_id] \in Node
          /\ Joined(path[current_id], current_id)
      BY <1>8 DEF Walk, SearchInv, TypeOK
    <2>2. r \in Seq(Node) /\ r[1] = current_id /\ r # <<>>
      BY <2>1, Prepended
    <2>3. r[Len(r)] = end_id /\ \A i \in 1..(Len(r) - 1) : Joined(r[i], r[i + 1])
      BY <2>1, RouteExtended
    <2>4. result' = r
      BY <1>8 DEF Walk
    <2> HIDE DEF r
    <2> QED BY <1>8, <2>1, <2>2, <2>3, <2>4 DEF Walk, SearchInv, TypeOK, ResultIsRoute, Joined, input
  <1>9. CASE Return
    <2> DEFINE r == <<start_id>> \o result
    <2>1. current_id = start_id
      BY <1>9 DEF Return, SearchInv
    <2>2. /\ start_id \in Node /\ result \in Seq(Node)
          /\ IF result = <<>> THEN start_id = end_id
             ELSE Joined(start_id, result[1]) /\ result[Len(result)] = end_id
          /\ \A i \in 1..(Len(result) - 1) : Joined(result[i], result[i + 1])
      BY <1>9, <2>1 DEF Return, SearchInv, TypeOK
    <2>3. r \in Seq(Node) /\ r[1] = start_id /\ Len(r) > 0
      BY <2>2, Prepended
    <2>4. r[Len(r)] = end_id /\ \A i \in 1..(Len(r) - 1) : Joined(r[i], r[i + 1])
      BY <2>2, RouteExtended
    <2>5. result' = r
      BY <1>9 DEF Return
    <2> HIDE DEF r
    <2> QED BY <1>9, <2>2, <2>3, <2>4, <2>5 DEF Return, SearchInv, TypeOK, ResultIsRoute, Joined, input
  <1>10. CASE Done \/ UNCHANGED vars
    BY <1>10 DEF Done, vars, input, SearchInv, TypeOK, ResultIsRoute, Joined
  <1> QED
    BY <1>1, <1>2, <1>3, <1>4, <1>5, <1>6, <1>7, <1>8, <1>9, <1>10 DEF Next

-----------------------------------------------------------------------------
\* path is a tree of links and the walk follows it, on every graph and for
\* every iteration order.
THEOREM SearchInvariant == Spec => []SearchInv
  BY InitSearchInv, NextSearchInv, PTL DEF Spec

\* Every route find_shortest_path returns starts here, ends at the destination
\* and follows links of the graph.
THEOREM RouteSound == Spec => []ResultIsRoute
  BY SearchInvariant, PTL DEF SearchInv

=============================================================================
