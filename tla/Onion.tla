-------------------------------- MODULE Onion --------------------------------
(***************************************************************************)
(* One onion packet: RawPacket::new wraps a payload in one layer per hop,  *)
(* RawPacket::peel takes a layer off at each hop, and a reply block is a   *)
(* header built in advance whose body is garbled on the way and degarbled  *)
(* at its end.                                                             *)
(*                                                                         *)
(* The header is Slots pieces of 69 bytes, the first one `outer', the      *)
(* others `inner'.  A piece is its plain value and the set of keystream    *)
(* pieces <<layer, position>> it has been XORed with: XORing twice with    *)
(* the same keystream piece undoes itself.  The shared secret of a layer   *)
(* is the layer's number, box_encrypt making a fresh one every time.  The  *)
(* body is likewise its plain value and the set of layers XORed into it.   *)
(***************************************************************************)
EXTENDS Integers, Sequences, FiniteSets

CONSTANTS
    Node,
    Path,          \* the routes packets are built for
    Slots,         \* pieces of the header; also the limit on the route
    MaxRestarts    \* bound: relays that restart

ASSUME OnionAssumption ==
    /\ Path \subseteq Seq(Node) /\ <<>> \notin Path
    /\ Slots \in Nat /\ Slots >= 2

VARIABLES
    path,        \* the route, from the node that sends the packet to its end
    reply,       \* is the header that of a reply block?
    big,         \* is the payload larger than the body of a packet?
    stale,       \* nodes that have another onion key than path was built with
    pc,
    layer,       \* the layer on the outside of the packet
    header, body,
    at,          \* the node that holds the packet
    result

vars == <<path, reply, big, stale, pc, layer, header, body, at, result>>

-----------------------------------------------------------------------------
Toggle(S, x) == IF x \in S THEN S \ {x} ELSE S \cup {x}

\* stream_dencrypt of one piece of a header.
Dencrypt(piece, key, pos) == [val |-> piece.val, mask |-> Toggle(piece.mask, <<key, pos>>)]

Hops == Len(path) - 1

\* A piece of the header: its plain value is the box of layer val, or garbage.
Garbage == -1
Blank == [val |-> Garbage, mask |-> {}]

\* What box_encrypt seals for the holder of layer i: the next hop's fingerprint,
\* or at the end of the route the metadata: zeros, or the identifier of the block.
Outer(i) ==
    [to |-> path[i + 1], last |-> i = Hops,
     next |-> IF i < Hops THEN path[i + 2] ELSE path[i + 1], garbled |-> reply]

\* The innermost packet; pieces behind `outer' are random bytes.
SealedHeader ==
    [j \in 0..(Slots - 1) |-> [val |-> IF j = 0 THEN Hops ELSE Garbage, mask |-> {}]]

\* Mutant: the header is encrypted before it is shifted.
WrapShiftLast(i) ==
    [j \in 0..(Slots - 1) |->
        IF j = 0 THEN [val |-> i, mask |-> {}]
                 ELSE Dencrypt(header[j - 1], i, j)]

\* The header of the next hop moves back by one piece, its last piece drops
\* out, and what is now `inner' is encrypted for this hop.
WrapHeader(i) ==
    [j \in 0..(Slots - 1) |->
        IF j = 0 THEN [val |-> i, mask |-> {}]
                 ELSE Dencrypt(header[j - 1], i, j - 1)]

\* The inverse: `inner', padded with zeros, is decrypted to the next header.
PeelHeader(key) ==
    [j \in 0..(Slots - 1) |->
        Dencrypt(IF j < Slots - 1 THEN header[j + 1] ELSE Blank, key, j)]

-----------------------------------------------------------------------------
Init ==
    /\ path \in Path /\ reply \in BOOLEAN /\ big \in BOOLEAN
    /\ stale \in {S \in SUBSET Node : Cardinality(S) <= MaxRestarts}
    /\ pc = "new" /\ layer = 0 /\ at = path[1] /\ result = "none"
    /\ header = [j \in 0..(Slots - 1) |-> Blank]
    /\ body = [val |-> "none", mask |-> {}]

\* Mutant: one hop more than the header has room for.
HopsWithinLoose == Hops <= Slots

HopsWithin == Hops < Slots

Fail(why) ==
    /\ pc' = "done" /\ result' = why
    /\ UNCHANGED <<path, reply, big, stale, layer, header, body, at>>

\* The recursion of RawPacket::new reaches its end, the layer of the destination.
Seal ==
    /\ pc = "new" /\ HopsWithin
    /\ reply \/ ~big
    /\ pc' = "wrap" /\ layer' = Hops
    /\ header' = SealedHeader
    /\ body' = [val |-> "payload", mask |-> {Hops}]
    /\ UNCHANGED <<path, reply, big, stale, at, result>>

Refuse ==
    \/ pc = "new" /\ ~HopsWithin /\ Fail("TooManyHops")
    \/ pc = "new" /\ HopsWithin /\ ~reply /\ big /\ Fail("MessageTooBig")
    \/ pc = "wrap" /\ layer = 0 /\ reply /\ big /\ Fail("MessageTooBig")

\* The recursion returns through one hop.
Wrap ==
    /\ pc = "wrap" /\ layer > 0
    /\ layer' = layer - 1
    /\ header' = WrapHeader(layer - 1)
    /\ body' = [body EXCEPT !.mask = Toggle(@, layer - 1)]
    /\ UNCHANGED <<path, reply, big, stale, pc, at, result>>

\* The packet is injected as if it had come in.  A reply takes only the header
\* that was built; its body is the encoded payload of whoever uses the block.
Launch ==
    /\ pc = "wrap" /\ layer = 0 /\ ~(reply /\ big)
    /\ body' = IF reply THEN [val |-> "payload", mask |-> {}] ELSE body
    /\ pc' = "travel"
    /\ UNCHANGED <<path, reply, big, stale, layer, header, at, result>>

\* box_decrypt of the outer header succeeds, and yields its plain text.
Opens ==
    /\ header[0].mask = {} /\ header[0].val # Garbage
    /\ Outer(header[0].val).to = at /\ at \notin stale

Metadata == Outer(header[0].val)

PeelForward ==
    /\ pc = "travel" /\ Opens /\ ~Metadata.last
    /\ header' = PeelHeader(header[0].val)
    /\ body' = [body EXCEPT !.mask = Toggle(@, header[0].val)]
    /\ at' = Metadata.next
    /\ layer' = layer + 1
    /\ UNCHANGED <<path, reply, big, stale, pc, result>>

\* Mutant: the secret of the destination's own layer is left out.
DegarbleShort(mask) == ((0..(Hops - 1)) \ mask) \cup (mask \ (0..(Hops - 1)))

\* degarble: XOR with every shared secret of the block, once more.
Degarble(mask) == ((0..Hops) \ mask) \cup (mask \ (0..Hops))

\* Mutant: what arrives is taken for plain, be it from a reply block or not.
ReceiveAsPlain ==
    /\ pc = "travel" /\ Opens /\ Metadata.last
    /\ body' = [body EXCEPT !.mask = Toggle(@, header[0].val)]
    /\ result' = "received" /\ pc' = "done"
    /\ UNCHANGED <<path, reply, big, stale, layer, header, at>>

\* The packet is for this node.  InnerPacket::decode makes sense of the body
\* when nothing is XORed into it any more.
PeelReceive ==
    LET mask == Toggle(body.mask, header[0].val)
        plain == IF Metadata.garbled THEN Degarble(mask) ELSE mask
    IN  /\ pc = "travel" /\ Opens /\ Metadata.last
        /\ body' = [body EXCEPT !.mask = plain]
        /\ result' = IF plain = {} THEN "received" ELSE "InnerPacketOpenError"
        /\ pc' = "done"
        /\ UNCHANGED <<path, reply, big, stale, layer, header, at>>

PeelFails == pc = "travel" /\ ~Opens /\ Fail("DecryptionError")

\* A relay starts anew: its onion key was only in memory, as was the packet.
Restart(n) ==
    /\ pc = "travel" /\ n \notin stale /\ Cardinality(stale) < MaxRestarts
    /\ stale' = stale \cup {n}
    /\ pc' = IF at = n THEN "done" ELSE pc
    /\ result' = IF at = n THEN "lost" ELSE result
    /\ UNCHANGED <<path, reply, big, layer, header, body, at>>

Done == pc = "done" /\ UNCHANGED vars

Next ==
    \/ Seal \/ Refuse \/ Wrap \/ Launch
    \/ PeelForward \/ PeelReceive \/ PeelFails
    \/ \E n \in Node : Restart(n)
    \/ Done

\* Building and peeling are synchronous code; restarts are not fair.
Spec == Init /\ [][Next]_vars /\ WF_vars(Seal \/ Wrap \/ Launch \/ PeelForward \/ PeelReceive)

-----------------------------------------------------------------------------
TypeOK ==
    /\ path \in Path /\ reply \in BOOLEAN /\ big \in BOOLEAN /\ stale \subseteq Node
    /\ pc \in {"new", "wrap", "travel", "done"}
    /\ layer \in 0..Hops
    /\ header \in [0..(Slots - 1) -> [val : -1..Hops, mask : SUBSET (Nat \X Nat)]]
    /\ body \in [val : {"none", "payload"}, mask : SUBSET Nat]
    /\ at \in Node
    /\ result \in {"none", "TooManyHops", "MessageTooBig", "DecryptionError",
                   "InnerPacketOpenError", "received", "lost"}

\* The keystream pieces on the box of layer i + j when layer i is outermost.
Mask(i, j) == {<<l, i + j - 1 - l>> : l \in i..(i + j - 1)}

\* While a packet is built and while it travels: behind the outer box lie the
\* boxes of all remaining layers in order, each under one keystream piece per
\* layer in front of it, and the body is under exactly the layers still to come
\* (a reply's body under exactly the layers already taken off).
OnionInv ==
    /\ TypeOK
    /\ pc \in {"new", "wrap"} => at = path[1]
    /\ pc = "new" => layer = 0
    /\ pc \in {"wrap", "travel"} =>
          /\ Hops < Slots
          /\ \A j \in 0..(Slots - 1) :
                IF layer + j <= Hops
                THEN header[j] = [val |-> layer + j, mask |-> Mask(layer, j)]
                ELSE header[j].val = Garbage
          /\ body.val = "payload"
          /\ at = (IF pc = "travel" THEN path[layer + 1] ELSE path[1])
          /\ body.mask = (IF pc = "travel" /\ reply THEN 0..(layer - 1) ELSE layer..Hops)
    /\ pc \in {"new", "wrap", "travel"} => result = "none"
    /\ result = "received" => at = path[Len(path)] /\ body = [val |-> "payload", mask |-> {}]
    /\ result # "InnerPacketOpenError"
    /\ result = "DecryptionError" => at = path[layer + 1] /\ at \in stale

\* A packet is accepted as received only by the last node of its route, and
\* with its payload restored, whether it was built forward or from a reply block.
ReceivedIntact ==
    result = "received" => at = path[Len(path)] /\ body = [val |-> "payload", mask |-> {}]

\* Peeling never fails on a packet RawPacket::new agreed to build, up to the
\* longest route it takes, except at a hop whose onion key has changed since;
\* no hop after the first failing one ever sees the packet.
OnlyStaleKeysFail ==
    /\ result # "InnerPacketOpenError"
    /\ result = "DecryptionError" => at = path[layer + 1] /\ at \in stale

\* "This drops the last 69 bytes, but we know that that cannot possibly include
\* any useful info because of the 10-hop limit."
DroppedPieceUseless == pc = "wrap" /\ layer > 0 => header[Slots - 1].val = Garbage

\* With nobody restarting, a packet that sets out is received.
Arrives == (pc = "travel" /\ stale = {}) ~> (result = "received" \/ stale # {})

=============================================================================
