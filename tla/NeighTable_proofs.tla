-------------------------- MODULE NeighTable_proofs --------------------------
(***************************************************************************)
(* Proof that the ends of connections that are up and the entries of the   *)
(* two neighbour tables are the same at any time.                          *)
(***************************************************************************)
EXTENDS NeighTable, TLAPS

EndState == {"none", "pending", "auth", "heard", "up", "gone"}

\* The part of TypeOK that UpIsEntered rests on.
EndsTyped ==
    /\ ends \in [Conn -> [Node -> EndState]]
    /\ table \in [Node -> [conn : Conn \cup {"none"}, expiry : Int]]
    /\ \A n \in Node : table[n].conn = "none" => table[n] = Nobody

LinkInv == EndsTyped /\ UpIsEntered

\* Forgetting connections that are gone at both ends changes no end that is up.
LEMMA TidyKeepsUp ==
    ASSUME NEW e \in [Conn -> [Node -> EndState]]
    PROVE  /\ Tidy(e) \in [Conn -> [Node -> EndState]]
           /\ \A c \in Conn, n \in Node : Tidy(e)[c][n] = "up" <=> e[c][n] = "up"
  BY DEF Tidy, Free, EndState, Node

\* An end that is not up and does not come up leaves everything as it is entered.
LEMMA BecomesKeepsUp ==
    ASSUME LinkInv, NEW c \in Conn, NEW n \in Node, NEW s \in EndState \ {"up"},
           ends[c][n] # "up", Becomes(c, n, s), UNCHANGED table
    PROVE  LinkInv'
  <1> DEFINE e == [ends EXCEPT ![c][n] = s]
  <1>1. /\ e \in [Conn -> [Node -> EndState]]
        /\ \A d \in Conn, m \in Node : e[d][m] = "up" <=> ends[d][m] = "up"
    BY DEF LinkInv, EndsTyped
  <1>2. ends' = Tidy(e)
    BY DEF Becomes
  <1> HIDE DEF e
  <1>3. /\ ends' \in [Conn -> [Node -> EndState]]
        /\ \A d \in Conn, m \in Node : ends'[d][m] = "up" <=> ends[d][m] = "up"
    BY <1>1, <1>2, TidyKeepsUp
  <1> QED BY <1>3 DEF LinkInv, EndsTyped, UpIsEntered

\* The same when an attempt is dropped: its connection is not up yet.
LEMMA DroppedKeepsUp ==
    ASSUME LinkInv, ends' = Dropped, UNCHANGED table
    PROVE  LinkInv'
  <1> DEFINE e == [c \in Conn |-> IF c \in Attempt THEN [ends[c] EXCEPT !["dialler"] = "gone"]
                                                   ELSE ends[c]]
  <1>1. /\ e \in [Conn -> [Node -> EndState]]
        /\ \A d \in Conn, m \in Node : e[d][m] = "up" <=> ends[d][m] = "up"
    BY DEF LinkInv, EndsTyped, Attempt, EndState, Node
  <1>2. ends' = Tidy(e)
    BY DEF Dropped
  <1> HIDE DEF e
  <1>3. /\ ends' \in [Conn -> [Node -> EndState]]
        /\ \A d \in Conn, m \in Node : ends'[d][m] = "up" <=> ends[d][m] = "up"
    BY <1>1, <1>2, TidyKeepsUp
  <1> QED BY <1>3 DEF LinkInv, EndsTyped, UpIsEntered

\* insert_inner brings one end up and takes the one that was entered before it down.
LEMMA InsertKeepsUp ==
    ASSUME LinkInv, NEW c \in Conn, NEW n \in Node, NEW expiry \in Int,
           ends[c][n] = "heard", insert_inner(n, c, expiry)
    PROVE  LinkInv'
  <1> DEFINE e == [d \in Conn |->
                     IF d = c THEN [ends[d] EXCEPT ![n] = "up"]
                     ELSE IF d = table[n].conn THEN [ends[d] EXCEPT ![n] = "gone"]
                     ELSE ends[d]]
  <1>1. /\ table' = [table EXCEPT ![n] = [conn |-> c, expiry |-> expiry]]
        /\ ends' = Tidy(e)
    BY DEF insert_inner
  <1>2. e \in [Conn -> [Node -> EndState]]
    BY DEF LinkInv, EndsTyped, EndState
  <1>3. \A d \in Conn, m \in Node : e[d][m] = "up" <=> table'[m].conn = d
    <2> SUFFICES ASSUME NEW d \in Conn, NEW m \in Node
                 PROVE  e[d][m] = "up" <=> table'[m].conn = d
      OBVIOUS
    <2>1. CASE m = n
      BY <1>1, <2>1 DEF LinkInv, EndsTyped, UpIsEntered
    <2>2. CASE m # n
      BY <1>1, <2>2 DEF LinkInv, EndsTyped, UpIsEntered
    <2> QED BY <2>1, <2>2
  <1>4. EndsTyped'
    <2>1. ends' \in [Conn -> [Node -> EndState]]
      BY <1>1, <1>2, TidyKeepsUp
    <2>2. /\ table' \in [Node -> [conn : Conn \cup {"none"}, expiry : Int]]
          /\ \A m \in Node : table'[m].conn = "none" => table'[m] = Nobody
      BY <1>1, NeighTableAssumption DEF LinkInv, EndsTyped
    <2> QED BY <2>1, <2>2 DEF EndsTyped
  <1> HIDE DEF e
  <1>5. UpIsEntered'
    BY <1>1, <1>2, <1>3, TidyKeepsUp DEF UpIsEntered
  <1> QED BY <1>4, <1>5 DEF LinkInv

\* garbage_collect takes the end down that it takes out of the table.
LEMMA CollectKeepsUp ==
    ASSUME LinkInv, NEW n \in Node, garbage_collect(n)
    PROVE  LinkInv'
  <1> DEFINE c == table[n].conn
             e == [ends EXCEPT ![c][n] = "gone"]
  <1>1. c \in Conn
    BY DEF LinkInv, EndsTyped, garbage_collect
  <1>2. table' = [table EXCEPT ![n] = Nobody] /\ ends' = Tidy(e)
    BY DEF garbage_collect, Becomes
  <1>3. e \in [Conn -> [Node -> EndState]]
    BY <1>1 DEF LinkInv, EndsTyped, EndState
  <1>4. \A d \in Conn, m \in Node : e[d][m] = "up" <=> table'[m].conn = d
    <2> SUFFICES ASSUME NEW d \in Conn, NEW m \in Node
                 PROVE  e[d][m] = "up" <=> table'[m].conn = d
      OBVIOUS
    <2>1. CASE m = n
      <3>1. table'[m].conn # d
        BY <1>2, <2>1, NeighTableAssumption DEF LinkInv, EndsTyped, Nobody
      <3>2. e[d][m] # "up"
        BY <1>1, <2>1 DEF LinkInv, EndsTyped, UpIsEntered
      <3> QED BY <3>1, <3>2
    <2>2. CASE m # n
      BY <1>1, <1>2, <2>2 DEF LinkInv, EndsTyped, UpIsEntered
    <2> QED BY <2>1, <2>2
  <1>5. EndsTyped'
    <2>1. ends' \in [Conn -> [Node -> EndState]]
      BY <1>2, <1>3, TidyKeepsUp
    <2>2. /\ table' \in [Node -> [conn : Conn \cup {"none"}, expiry : Int]]
          /\ \A m \in Node : table'[m].conn = "none" => table'[m] = Nobody
      BY <1>2 DEF LinkInv, EndsTyped, Nobody
    <2> QED BY <2>1, <2>2 DEF EndsTyped
  <1> HIDE DEF e
  <1>6. UpIsEntered'
    BY <1>2, <1>3, <1>4, TidyKeepsUp DEF UpIsEntered
  <1> QED BY <1>5, <1>6 DEF LinkInv

-----------------------------------------------------------------------------
\* Nothing is up and nothing is entered when the daemons start.
LEMMA LinkInvInit == Init => LinkInv
  BY NeighTableAssumption
     DEF Init, LinkInv, EndsTyped, UpIsEntered, Free, Nobody, Node, EndState

\* Every step of the two daemons, and of time, keeps LinkInv.
LEMMA LinkInvStep == LinkInv /\ [Next]_vars => LinkInv'
  <1> SUFFICES ASSUME LinkInv, [Next]_vars
               PROVE  LinkInv'
    OBVIOUS
  <1>0. "dialler" \in Node /\ "listener" \in Node
    BY DEF Node
  <1>1. CASE PipeUp
    <2>1. PICK c \in Conn :
             /\ ends[c] = Free
             /\ ends' = [ends EXCEPT ![c] = [dialler |-> "auth", listener |-> "pending"]]
      BY <1>1 DEF PipeUp
    <2>2. [dialler |-> "auth", listener |-> "pending"] \in [Node -> EndState \ {"up"}]
      BY DEF Node, EndState
    <2>3. \A d \in Conn, m \in Node : ends'[d][m] = "up" <=> ends[d][m] = "up"
      BY <2>1, <2>2 DEF LinkInv, EndsTyped, Free
    <2>4. ends' \in [Conn -> [Node -> EndState]]
      BY <2>1, <2>2 DEF LinkInv, EndsTyped
    <2> QED BY <1>1, <2>3, <2>4 DEF PipeUp, LinkInv, EndsTyped, UpIsEntered
  <1>2. CASE AttemptFails
    BY <1>2, DroppedKeepsUp DEF AttemptFails
  <1>3. ASSUME NEW c \in Conn, Accept(c) PROVE LinkInv'
    BY <1>0, <1>3, BecomesKeepsUp DEF Accept, EndState
  <1>4. ASSUME NEW c \in Conn, NEW n \in Node, authenticate(c, n) PROVE LinkInv'
    BY <1>4, BecomesKeepsUp DEF authenticate, EndState
  <1>5. ASSUME NEW c \in Conn, insert_pinned(c) PROVE LinkInv'
    BY <1>0, <1>5, InsertKeepsUp DEF insert_pinned, Pinned
  <1>6. ASSUME NEW c \in Conn, insert(c) PROVE LinkInv'
    BY <1>0, <1>6, InsertKeepsUp, NeighTableAssumption DEF insert
  <1>7. ASSUME NEW c \in Conn, Deserted(c) \/ Unanswered(c) PROVE LinkInv'
    BY <1>0, <1>7, BecomesKeepsUp DEF Deserted, Unanswered, EndState
  <1>8. CASE Timer1
    BY <1>8 DEF Timer1, LinkInv, EndsTyped, UpIsEntered
  <1>9. CASE Timer2
    BY <1>9, DroppedKeepsUp DEF Timer2
  <1>10. ASSUME NEW n \in Node, garbage_collect(n) PROVE LinkInv'
    BY <1>10, CollectKeepsUp
  <1>11. CASE Tick
    <2>1. /\ ends' = ends
          /\ table' \in [Node -> [conn : Conn \cup {"none"}, expiry : Int]]
          /\ \A n \in Node : table'[n].conn = table[n].conn
      BY <1>11 DEF Tick, LinkInv, EndsTyped
    <2>2. \A n \in Node : table'[n].conn = "none" => table'[n] = Nobody
      BY <1>11 DEF Tick, LinkInv, EndsTyped, Nobody
    <2> QED BY <2>1, <2>2 DEF LinkInv, EndsTyped, UpIsEntered
  <1>12. CASE UNCHANGED vars
    BY <1>12 DEF vars, LinkInv, EndsTyped, UpIsEntered
  <1> QED
    BY <1>1, <1>2, <1>3, <1>4, <1>5, <1>6, <1>7, <1>8, <1>9, <1>10, <1>11, <1>12 DEF Next, Work

\* For any number of connections and faults and any time to live: every end of a
\* connection that is up is the one its daemon has entered in its neighbour table, and
\* every entry stands for such an end, however accepting, dialling and replacing
\* interleave.
THEOREM UpIffEntered == Spec => []UpIsEntered
  <1>1. LinkInv => UpIsEntered
    BY DEF LinkInv
  <1> QED BY <1>1, LinkInvInit, LinkInvStep, PTL DEF Spec

=============================================================================
