----------------------------- MODULE Onion_proofs -----------------------------
(***************************************************************************)
(* Proofs about onion packets, for every set of nodes, every set of routes *)
(* and every header size: the inductive invariant says where each layer    *)
(* lies in the header and what it is encrypted with.                       *)
(***************************************************************************)
EXTENDS Onion, TLAPS

\* Encrypting the box of layer i + j for one more hop in front puts exactly the
\* keystream piece of that hop on it; peeling that hop takes it off again.
LEMMA MaskStep ==
    ASSUME NEW i \in Nat, NEW j \in Nat
    PROVE  /\ Toggle(Mask(i + 1, j), <<i, j>>) = Mask(i, j + 1)
           /\ Toggle(Mask(i, j + 1), <<i, j>>) = Mask(i + 1, j)
<1>1. Mask(i + 1, j) = {<<l, i + j - l>> : l \in (i + 1)..(i + j)}
  BY DEF Mask
<1>2. Mask(i, j + 1) = {<<l, i + j - l>> : l \in i..(i + j)}
  BY DEF Mask
<1>3. <<i, j>> \notin Mask(i + 1, j)
  BY <1>1
<1>4. <<i, j>> \in Mask(i, j + 1)
  <2>1. i \in i..(i + j) /\ i + j - i = j
    OBVIOUS
  <2>2. QED  BY <1>2, <2>1
<1>5. Mask(i + 1, j) \cup {<<i, j>>} = Mask(i, j + 1)
  <2>1. i..(i + j) = ((i + 1)..(i + j)) \cup {i}
    OBVIOUS
  <2>2. i + j - i = j
    OBVIOUS
  <2>3. QED  BY <1>1, <1>2, <2>1, <2>2
<1>6. QED  BY <1>3, <1>4, <1>5 DEF Toggle

\* The outermost box is under no keystream at all.
LEMMA OuterUnmasked == ASSUME NEW i \in Nat PROVE Mask(i, 0) = {}
  BY DEF Mask

\* XORing one more layer into the body, or out of it, moves the end of the
\* interval of layers it is under.
LEMMA BodyStep ==
    ASSUME NEW l \in Nat, NEW h \in Nat, l <= h
    PROVE  /\ Toggle(0..(l - 1), l) = 0..l
           /\ Toggle(l..h, l) = (l + 1)..h
           /\ l > 0 => Toggle(l..h, l - 1) = (l - 1)..h
<1>1. l \notin 0..(l - 1) /\ l \in l..h /\ l - 1 \notin l..h
  OBVIOUS
<1>2. (0..(l - 1)) \cup {l} = 0..l
  OBVIOUS
<1>3. (l..h) \ {l} = (l + 1)..h
  OBVIOUS
<1>4. l > 0 => (l..h) \cup {l - 1} = (l - 1)..h
  OBVIOUS
<1>5. QED  BY <1>1, <1>2, <1>3, <1>4 DEF Toggle

\* Every initial state satisfies the invariant.
LEMMA InitOnionInv == Init => OnionInv
<1> SUFFICES ASSUME Init PROVE OnionInv
  OBVIOUS
<1>1. path \in Seq(Node) /\ path # <<>> /\ Len(path) \in Nat /\ Len(path) >= 1
  BY OnionAssumption DEF Init
<1>2. TypeOK
  BY <1>1, OnionAssumption DEF Init, TypeOK, Hops, Blank, Garbage
<1>3. QED  BY <1>2 DEF Init, OnionInv

\* Wrapping: if the packet of layer i + 1 is in order, so is the header
\* RawPacket::new puts together for layer i.
LEMMA WrapInOrder ==
    ASSUME OnionInv, pc = "wrap", layer > 0
    PROVE  \A j \in 0..(Slots - 1) :
              IF layer - 1 + j <= Hops
              THEN WrapHeader(layer - 1)[j] = [val |-> layer - 1 + j, mask |-> Mask(layer - 1, j)]
              ELSE WrapHeader(layer - 1)[j].val = Garbage
<1> DEFINE i == layer - 1
<1>1. layer \in Nat /\ i \in Nat /\ layer = i + 1 /\ Hops \in Int /\ i <= Hops
  BY OnionAssumption DEF OnionInv, TypeOK, Hops
<1> SUFFICES ASSUME NEW j \in 0..(Slots - 1)
             PROVE  IF i + j <= Hops
                    THEN WrapHeader(i)[j] = [val |-> i + j, mask |-> Mask(i, j)]
                    ELSE WrapHeader(i)[j].val = Garbage
  OBVIOUS
<1>2. CASE j = 0
  <2>1. i + j = i /\ i + j <= Hops /\ Mask(i, j) = {}
    BY <1>1, <1>2, OuterUnmasked
  <2>2. WrapHeader(i)[j] = [val |-> i, mask |-> {}]
    BY <1>2 DEF WrapHeader
  <2>3. QED  BY <2>1, <2>2
<1>3. CASE j > 0
  <2>1. j - 1 \in 0..(Slots - 1) /\ j - 1 \in Nat /\ (j - 1) + 1 = j
    BY <1>3, OnionAssumption
  <2>2. WrapHeader(i)[j] = Dencrypt(header[j - 1], i, j - 1)
    BY <1>3 DEF WrapHeader
  <2>3. CASE i + j <= Hops
    <3>1. header[j - 1] = [val |-> layer + (j - 1), mask |-> Mask(i + 1, j - 1)]
      BY <1>1, <2>1, <2>3 DEF OnionInv
    <3>2. Toggle(Mask(i + 1, j - 1), <<i, j - 1>>) = Mask(i, j)
      BY <1>1, <2>1, MaskStep
    <3>3. layer + (j - 1) = i + j
      BY <1>1
    <3>4. QED  BY <2>2, <2>3, <3>1, <3>2, <3>3 DEF Dencrypt
  <2>4. CASE ~(i + j <= Hops)
    <3>1. ~(layer + (j - 1) <= Hops)
      BY <1>1, <2>4
    <3>2. header[j - 1].val = Garbage
      BY <2>1, <3>1 DEF OnionInv
    <3>3. QED  BY <2>2, <2>4, <3>2 DEF Dencrypt
  <2>5. QED  BY <2>3, <2>4
<1>4. QED  BY <1>2, <1>3

\* Peeling: if the packet of layer i is in order and layer i is not the last,
\* what peel produces is the packet of layer i + 1.
LEMMA PeelInOrder ==
    ASSUME OnionInv, pc = "travel", layer < Hops
    PROVE  \A j \in 0..(Slots - 1) :
              IF layer + 1 + j <= Hops
              THEN PeelHeader(layer)[j] = [val |-> layer + 1 + j, mask |-> Mask(layer + 1, j)]
              ELSE PeelHeader(layer)[j].val = Garbage
<1>1. layer \in Nat /\ Hops \in Int /\ Hops < Slots /\ Slots \in Nat
  BY OnionAssumption DEF OnionInv, TypeOK, Hops
<1> SUFFICES ASSUME NEW j \in 0..(Slots - 1)
             PROVE  IF layer + 1 + j <= Hops
                    THEN PeelHeader(layer)[j] = [val |-> layer + 1 + j, mask |-> Mask(layer + 1, j)]
                    ELSE PeelHeader(layer)[j].val = Garbage
  OBVIOUS
<1>2. CASE j = Slots - 1
  <2>1. ~(layer + 1 + j <= Hops)
    BY <1>1, <1>2
  <2>2. QED  BY <1>2, <2>1 DEF PeelHeader, Dencrypt, Blank
<1>3. CASE j < Slots - 1
  <2>1. j + 1 \in 0..(Slots - 1) /\ j \in Nat
    BY <1>1, <1>3
  <2>2. PeelHeader(layer)[j] = Dencrypt(header[j + 1], layer, j)
    BY <1>3 DEF PeelHeader
  <2>3. CASE layer + 1 + j <= Hops
    <3>1. layer + (j + 1) <= Hops /\ layer + (j + 1) = layer + 1 + j
      BY <1>1, <2>1, <2>3
    <3>2. header[j + 1] = [val |-> layer + (j + 1), mask |-> Mask(layer, j + 1)]
      BY <2>1, <3>1 DEF OnionInv
    <3>3. Toggle(Mask(layer, j + 1), <<layer, j>>) = Mask(layer + 1, j)
      BY <1>1, <2>1, MaskStep
    <3>4. QED  BY <2>2, <2>3, <3>1, <3>2, <3>3 DEF Dencrypt
  <2>4. CASE ~(layer + 1 + j <= Hops)
    <3>1. ~(layer + (j + 1) <= Hops)
      BY <1>1, <2>1, <2>4
    <3>2. header[j + 1].val = Garbage
      BY <2>1, <3>1 DEF OnionInv
    <3>3. QED  BY <2>2, <2>4, <3>2 DEF Dencrypt
  <2>5. QED  BY <2>3, <2>4
<1>4. QED  BY <1>1, <1>2, <1>3

\* A header stays a header: pieces with a value and a set of keystream pieces.
LEMMA HeaderTypes ==
    ASSUME TypeOK, NEW i \in 0..Hops
    PROVE  /\ SealedHeader \in [0..(Slots - 1) -> [val : -1..Hops, mask : SUBSET (Nat \X Nat)]]
           /\ WrapHeader(i) \in [0..(Slots - 1) -> [val : -1..Hops, mask : SUBSET (Nat \X Nat)]]
           /\ PeelHeader(i) \in [0..(Slots - 1) -> [val : -1..Hops, mask : SUBSET (Nat \X Nat)]]
<1>1. Hops \in Nat /\ Slots \in Nat /\ i \in Nat
  BY OnionAssumption DEF TypeOK, Hops
<1>2. ASSUME NEW piece \in [val : -1..Hops, mask : SUBSET (Nat \X Nat)], NEW p \in Nat
      PROVE  Dencrypt(piece, i, p) \in [val : -1..Hops, mask : SUBSET (Nat \X Nat)]
  BY <1>1, <1>2 DEF Dencrypt, Toggle
<1>3. \A j \in 0..(Slots - 1) : header[j] \in [val : -1..Hops, mask : SUBSET (Nat \X Nat)]
  BY DEF TypeOK
<1>4. Blank \in [val : -1..Hops, mask : SUBSET (Nat \X Nat)]
  BY <1>1 DEF Blank, Garbage
<1>5. SealedHeader \in [0..(Slots - 1) -> [val : -1..Hops, mask : SUBSET (Nat \X Nat)]]
  BY <1>1 DEF SealedHeader, Garbage
<1>6. WrapHeader(i) \in [0..(Slots - 1) -> [val : -1..Hops, mask : SUBSET (Nat \X Nat)]]
  <2> SUFFICES ASSUME NEW j \in 0..(Slots - 1)
               PROVE  (IF j = 0 THEN [val |-> i, mask |-> {}] ELSE Dencrypt(header[j - 1], i, j - 1))
                          \in [val : -1..Hops, mask : SUBSET (Nat \X Nat)]
    BY DEF WrapHeader
  <2>1. CASE j = 0
    BY <1>1, <2>1
  <2>2. CASE j # 0
    <3>1. j - 1 \in 0..(Slots - 1) /\ j - 1 \in Nat
      BY <1>1, <2>2
    <3>2. QED  BY <1>2, <1>3, <2>2, <3>1
  <2>3. QED  BY <2>1, <2>2
<1>7. PeelHeader(i) \in [0..(Slots - 1) -> [val : -1..Hops, mask : SUBSET (Nat \X Nat)]]
  <2> SUFFICES ASSUME NEW j \in 0..(Slots - 1)
               PROVE  Dencrypt(IF j < Slots - 1 THEN header[j + 1] ELSE Blank, i, j)
                          \in [val : -1..Hops, mask : SUBSET (Nat \X Nat)]
    BY DEF PeelHeader
  <2>1. (IF j < Slots - 1 THEN header[j + 1] ELSE Blank) \in [val : -1..Hops, mask : SUBSET (Nat \X Nat)]
    <3>1. CASE j < Slots - 1
      <4>1. j + 1 \in 0..(Slots - 1)
        BY <1>1, <3>1
      <4>2. QED  BY <1>3, <3>1, <4>1
    <3>2. CASE ~(j < Slots - 1)
      BY <1>4, <3>2
    <3>3. QED  BY <3>1, <3>2
  <2>2. j \in Nat
    BY <1>1
  <2>3. QED  BY <1>2, <2>1, <2>2
<1>8. QED  BY <1>5, <1>6, <1>7

\* Every step keeps the packet in order.
LEMMA NextOnionInv == OnionInv /\ [Next]_vars => OnionInv'
<1> SUFFICES ASSUME OnionInv, [Next]_vars PROVE OnionInv'
  OBVIOUS
<1>1. /\ path \in Seq(Node) /\ Len(path) \in Nat /\ Len(path) >= 1
      /\ Hops \in Nat /\ Slots \in Nat /\ Slots >= 2 /\ layer \in Nat /\ layer <= Hops
      /\ \A i \in 1..Len(path) : path[i] \in Node
  BY OnionAssumption DEF OnionInv, TypeOK, Hops
<1>2. CASE Seal
  <2>1. TypeOK'
    <3>1. Hops \in 0..Hops /\ Hops' = Hops /\ TypeOK
      BY <1>1, <1>2 DEF Seal, Hops, OnionInv
    <3>2. header' \in [0..(Slots - 1) -> [val : -1..Hops, mask : SUBSET (Nat \X Nat)]]
      BY <1>2, <3>1, HeaderTypes DEF Seal
    <3>3. body' \in [val : {"none", "payload"}, mask : SUBSET Nat] /\ layer' \in 0..Hops
      BY <1>1, <1>2, <3>1 DEF Seal
    <3>4. QED  BY <1>2, <3>1, <3>2, <3>3 DEF Seal, TypeOK
  <2>2. \A j \in 0..(Slots - 1) :
            IF Hops + j <= Hops
            THEN SealedHeader[j] = [val |-> Hops + j, mask |-> Mask(Hops, j)]
            ELSE SealedHeader[j].val = Garbage
    <3> SUFFICES ASSUME NEW j \in 0..(Slots - 1)
                 PROVE  IF Hops + j <= Hops
                        THEN SealedHeader[j] = [val |-> Hops + j, mask |-> Mask(Hops, j)]
                        ELSE SealedHeader[j].val = Garbage
      OBVIOUS
    <3>1. CASE j = 0
      <4>1. Hops + j = Hops /\ Hops + j <= Hops /\ Mask(Hops, j) = {}
        BY <1>1, <3>1, OuterUnmasked
      <4>2. SealedHeader[j] = [val |-> Hops, mask |-> {}]
        BY <3>1 DEF SealedHeader
      <4>3. QED  BY <4>1, <4>2
    <3>2. CASE j # 0
      BY <1>1, <3>2 DEF SealedHeader
    <3>3. QED  BY <3>1, <3>2
  <2>3. Hops..Hops = {Hops}
    BY <1>1
  <2>4. QED  BY <1>2, <2>1, <2>2, <2>3 DEF Seal, OnionInv, HopsWithin, Hops
<1>3. CASE Refuse
  BY <1>3 DEF Refuse, Fail, OnionInv, TypeOK, Hops
<1>4. CASE Wrap
  <2>1. layer - 1 \in 0..Hops /\ layer > 0 /\ pc = "wrap" /\ layer - 1 \in Nat
    BY <1>1, <1>4 DEF Wrap
  <2>2. TypeOK'
    BY <1>1, <1>4, <2>1, HeaderTypes DEF Wrap, OnionInv, TypeOK, Hops, Toggle
  <2>3. Toggle(layer..Hops, layer - 1) = (layer - 1)..Hops
    BY <1>1, <2>1, BodyStep
  <2>4. body.mask = layer..Hops /\ body.val = "payload"
    BY <2>1 DEF OnionInv
  <2>5. body'.mask = (layer - 1)..Hops /\ body'.val = "payload"
    BY <1>4, <2>3, <2>4 DEF Wrap, OnionInv, TypeOK
  <2>6. QED  BY <1>4, <2>1, <2>2, <2>5, WrapInOrder DEF Wrap, OnionInv, Hops
<1>5. CASE Launch
  <2>1. TypeOK'
    BY <1>5 DEF Launch, OnionInv, TypeOK, Hops
  <2>2. 0..(0 - 1) = {}
    OBVIOUS
  <2>3. QED  BY <1>5, <2>1, <2>2 DEF Launch, OnionInv, Hops
<1>6. ASSUME pc = "travel"
      PROVE  /\ header[0] = [val |-> layer, mask |-> {}]
             /\ Opens <=> at \notin stale
             /\ at = path[layer + 1]
             /\ Metadata.last <=> layer = Hops
             /\ layer < Hops => Metadata.next = path[layer + 2]
             /\ Metadata.garbled = reply
  <2>1. header[0] = [val |-> layer, mask |-> {}]
    <3>1. 0 \in 0..(Slots - 1) /\ layer + 0 <= Hops /\ layer + 0 = layer /\ Mask(layer, 0) = {}
      BY <1>1, OuterUnmasked
    <3>2. QED  BY <1>6, <3>1 DEF OnionInv
  <2>2. at = path[layer + 1]
    BY <1>6 DEF OnionInv
  <2>3. layer # Garbage
    BY <1>1 DEF Garbage
  <2>4. Metadata = Outer(layer) /\ Outer(layer).to = path[layer + 1]
    BY <2>1 DEF Metadata, Outer
  <2>5. Opens <=> at \notin stale
    BY <2>1, <2>2, <2>3, <2>4 DEF Opens
  <2>6. Metadata.last <=> layer = Hops
    BY <2>4, Zenon DEF Outer
  <2>7. layer < Hops => Metadata.next = path[layer + 2]
    BY <2>4 DEF Outer
  <2>8. Metadata.garbled = reply
    BY <2>4 DEF Outer
  <2>9. QED  BY <2>1, <2>2, <2>5, <2>6, <2>7, <2>8
<1>7. CASE PeelForward
  <2>1. pc = "travel" /\ layer # Hops /\ layer < Hops /\ header[0].val = layer
    BY <1>1, <1>6, <1>7 DEF PeelForward
  <2>2. layer \in 0..Hops /\ layer + 1 \in 0..Hops /\ layer + 2 \in 1..Len(path)
    BY <1>1, <2>1 DEF Hops
  <2>3. at' = path[layer + 2] /\ at' \in Node
    BY <1>1, <1>6, <1>7, <2>1, <2>2 DEF PeelForward
  <2>4. header' = PeelHeader(layer) /\ layer' = layer + 1
    BY <1>7, <2>1 DEF PeelForward
  <2>5. body' = [body EXCEPT !.mask = Toggle(body.mask, layer)]
    BY <1>7, <2>1 DEF PeelForward
  <2>6. TypeOK'
    <3>1. Hops' = Hops /\ TypeOK
      BY <1>7 DEF PeelForward, Hops, OnionInv
    <3>2. header' \in [0..(Slots - 1) -> [val : -1..Hops, mask : SUBSET (Nat \X Nat)]]
      BY <2>2, <2>4, <3>1, HeaderTypes
    <3>3. body' \in [val : {"none", "payload"}, mask : SUBSET Nat]
      BY <1>1, <2>5, <3>1 DEF TypeOK, Toggle
    <3>4. QED  BY <1>7, <2>2, <2>3, <2>4, <3>1, <3>2, <3>3 DEF PeelForward, TypeOK
  <2>7. body'.val = "payload" /\ body'.mask = (IF reply THEN 0..layer ELSE (layer + 1)..Hops)
    <3>1. body.mask = (IF reply THEN 0..(layer - 1) ELSE layer..Hops) /\ body.val = "payload"
      BY <2>1 DEF OnionInv
    <3>2. Toggle(0..(layer - 1), layer) = 0..layer
      BY <1>1, BodyStep
    <3>3. Toggle(layer..Hops, layer) = (layer + 1)..Hops
      BY <1>1, BodyStep
    <3>4. QED  BY <2>5, <3>1, <3>2, <3>3 DEF OnionInv, TypeOK
  <2>8. (layer + 1) - 1 = layer /\ (layer + 1) + 1 = layer + 2
    BY <1>1
  <2>9. QED  BY <1>7, <2>1, <2>3, <2>4, <2>6, <2>7, <2>8, PeelInOrder DEF PeelForward, OnionInv, Hops
<1>8. CASE PeelReceive
  <2>1. pc = "travel" /\ layer = Hops /\ header[0].val = layer
    BY <1>1, <1>6, <1>8 DEF PeelReceive
  <2>2. body.mask = (IF reply THEN 0..(Hops - 1) ELSE Hops..Hops) /\ body.val = "payload"
    BY <2>1 DEF OnionInv
  <2>3. Toggle(0..(Hops - 1), Hops) = 0..Hops
    BY <1>1, BodyStep
  <2>4. Toggle(Hops..Hops, Hops) = {}
    BY <1>1 DEF Toggle
  <2>5. Degarble(0..Hops) = {}
    BY DEF Degarble
  <2>6. (IF Metadata.garbled THEN Degarble(Toggle(body.mask, header[0].val))
                            ELSE Toggle(body.mask, header[0].val)) = {}
    <3>1. CASE reply
      BY <1>6, <2>1, <2>2, <2>3, <2>5, <3>1
    <3>2. CASE ~reply
      BY <1>6, <2>1, <2>2, <2>4, <3>2
    <3>3. QED  BY <3>1, <3>2
  <2>7. body' = [val |-> "payload", mask |-> {}] /\ result' = "received"
    BY <1>8, <2>2, <2>6 DEF PeelReceive, OnionInv, TypeOK
  <2>8. at = path[Len(path)]
    BY <1>1, <1>6, <2>1 DEF Hops
  <2>9. TypeOK'
    BY <1>8, <2>7 DEF PeelReceive, OnionInv, TypeOK, Hops
  <2>10. QED  BY <1>8, <2>7, <2>8, <2>9 DEF PeelReceive, OnionInv
<1>9. CASE PeelFails
  <2>1. at \in stale /\ at = path[layer + 1]
    BY <1>6, <1>9 DEF PeelFails
  <2>2. QED  BY <1>9, <2>1 DEF PeelFails, Fail, OnionInv, TypeOK, Hops
<1>10. CASE \E n \in Node : Restart(n)
  BY <1>10 DEF Restart, OnionInv, TypeOK, Hops
<1>11. CASE UNCHANGED vars
  BY <1>11 DEF vars, OnionInv, TypeOK, Hops
<1>12. QED
  BY <1>2, <1>3, <1>4, <1>5, <1>7, <1>8, <1>9, <1>10, <1>11 DEF Next, Done

\* OnionInv holds throughout: for every route and every header size, each
\* layer of a packet lies where its hop will look for it.
THEOREM OnionInvariant == Spec => []OnionInv
  BY InitOnionInv, NextOnionInv, PTL DEF Spec

\* Whatever is received is received at the end of its route with its payload
\* restored, for forward packets and for replies.
THEOREM PayloadIntact == Spec => []ReceivedIntact
<1>1. OnionInv => ReceivedIntact
  BY DEF OnionInv, ReceivedIntact
<1>2. QED  BY OnionInvariant, <1>1, PTL

\* A packet that could be built is refused by no hop whose onion key it was
\* built with.
THEOREM PeelSucceeds == Spec => []OnlyStaleKeysFail
<1>1. OnionInv => OnlyStaleKeysFail
  BY DEF OnionInv, OnlyStaleKeysFail
<1>2. QED  BY OnionInvariant, <1>1, PTL

\* The piece that drops out of the header when a hop is wrapped around it is
\* never one that some hop needs.
THEOREM DropsNothingUseful == Spec => []DroppedPieceUseless
<1>1. OnionInv => DroppedPieceUseless
  <2> SUFFICES ASSUME OnionInv, pc = "wrap", layer > 0 PROVE header[Slots - 1].val = Garbage
    BY DEF DroppedPieceUseless
  <2>1. layer \in Nat /\ Slots \in Nat /\ Slots - 1 \in 0..(Slots - 1) /\ Hops < Slots /\ Hops \in Int
    BY OnionAssumption DEF OnionInv, TypeOK, Hops
  <2>2. ~(layer + (Slots - 1) <= Hops)
    BY <2>1
  <2>3. QED  BY <2>1, <2>2 DEF OnionInv
<1>2. QED  BY OnionInvariant, <1>1, PTL
=============================================================================
