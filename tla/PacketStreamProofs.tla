-------------------------- MODULE PacketStreamProofs --------------------------
(***************************************************************************)
(* Proofs about PacketStream, for any lengths of packets, any number of    *)
(* them, and buffers of any size: a read always has room, and the packets  *)
(* come out of the framing as they were sent, in both directions, however  *)
(* TCP cuts the stream and however the writes are interleaved.             *)
(*                                                                         *)
(* The bytes between the two ends are those that were sent, in order and   *)
(* without a gap (InOrder).  That what is written next goes on where they  *)
(* end is a matter of what is left to write (Pending); that the framing    *)
(* finds the packets in them, one of the recursion Framed.                 *)
(***************************************************************************)
EXTENDS PacketStream, FiniteSetTheorems, SequenceTheorems, TLAPS

\* The recursion Framed, and a buffer to which bytes are added.
R == INSTANCE Recursion WITH Handle <- Append, Picture <- Seq(Byte), Packets <- Byte

-----------------------------------------------------------------------------
(* The bytes of a stream. *)

\* The byte that comes next after the first i - 1 bytes of c, when n packets are
\* complete before c: the number of its packet, and its place in it.
DueNo(c, i, n) ==
    IF i = 1 THEN n + 1 ELSE IF c[i - 1].at < c[i - 1].length THEN c[i - 1].no ELSE c[i - 1].no + 1
DueAt(c, i) ==
    IF i = 1 THEN 1 ELSE IF c[i - 1].at < c[i - 1].length THEN c[i - 1].at + 1 ELSE 1

\* c holds bytes of the packets sent, from the first byte of the packet n + 1 on
\* and without a gap.
InOrder(c, n, sent) ==
    \A i \in 1..Len(c) :
        /\ c[i].no = DueNo(c, i, n) /\ c[i].at = DueAt(c, i)
        /\ c[i].no \in 1..Len(sent) /\ c[i].at <= c[i].length
        /\ c[i].length = sent[c[i].no].length

\* x is the end of a packet, or the whole of it.
IsPiece(x, sent) ==
    /\ x # <<>> /\ x[1].no \in 1..Len(sent)
    /\ x[1].at + Len(x) = x[1].length + 1 /\ x[1].length = sent[x[1].no].length
    /\ \A k \in 1..Len(x) : x[k] = [no |-> x[1].no, length |-> x[1].length, at |-> x[1].at + (k - 1)]

\* S is what is left to write after c: one piece of each packet that is not
\* written, and only the packet that is being written may have lost its front.
Pending(S, c, n, sent) ==
    LET due == DueNo(c, Len(c) + 1, n)
    IN  /\ \A x \in S :
              /\ IsPiece(x, sent)
              /\ x[1].no >= due
              /\ x[1].at = IF x[1].no = due THEN DueAt(c, Len(c) + 1) ELSE 1
        /\ \A x, y \in S : x[1].no = y[1].no => x = y
        /\ \A k \in due..Len(sent) : \E x \in S : x[1].no = k

\* The packets are numbered in the order of sending.
Numbered(sent) == \A i \in 1..Len(sent) : sent[i].no = i

\* The first n packets have been handled.
Handled(handled, sent) ==
    Len(handled) <= Len(sent) /\ \A i \in 1..Len(handled) : handled[i] = sent[i]

\* What a read leaves in a buffer is less than a packet.
FramedInv == Incomplete(clBuffer) /\ Incomplete(svBuffer)

\* What the server has still to write.
Posted == writes \o rests

DownInv ==
    /\ Numbered(svSent)
    /\ Handled(clHandled, svSent)
    /\ downState # "garbled" =>
          /\ InOrder(clBuffer \o down, Len(clHandled), svSent)
          /\ link = "up" => IsInjective(Posted) /\ Pending(Range(Posted), clBuffer \o down, Len(clHandled), svSent)

\* What the client has still to write.
Unsent == IF payload = <<>> THEN {} ELSE {payload}

UpInv ==
    /\ Numbered(clSent)
    /\ Handled(svHandled, clSent)
    /\ upState # "garbled" =>
          /\ InOrder(svBuffer \o up, Len(svHandled), clSent)
          /\ link # "closed" => Pending(Unsent, svBuffer \o up, Len(svHandled), clSent)

IInv == TypeOK /\ FramedInv /\ DownInv /\ UpInv

-----------------------------------------------------------------------------
(* Bytes and sequences of bytes. *)

\* What is known of a byte and of a packet.
LEMMA ByteFacts ==
  /\ \A b \in Byte : /\ b.no \in Nat \ {0} /\ b.length \in Nat \ {0} /\ b.at \in Nat \ {0}
                     /\ b.length \in HEADER_SIZE..MAX_PACKET_SIZE
                     /\ [no |-> b.no, length |-> b.length] \in Packets
  /\ \A p \in Packets : p.no \in Nat \ {0} /\ p.length \in Nat \ {0} /\ p.length \in HEADER_SIZE..MAX_PACKET_SIZE
<1>1. HEADER_SIZE \in Nat \ {0} /\ MAX_PACKET_SIZE \in Nat /\ Lengths \subseteq HEADER_SIZE..MAX_PACKET_SIZE /\ MaxSend \in Nat
  BY PacketAssumption
<1>2. \A b \in Byte : b.no \in 1..MaxSend /\ b.length \in Lengths /\ b.at \in 1..MAX_PACKET_SIZE
  BY DEF Byte
<1>3. \A p \in Packets : p.no \in 1..MaxSend /\ p.length \in Lengths
  BY DEF Packets
<1>4. \A b \in Byte : [no |-> b.no, length |-> b.length] \in Packets
  BY <1>2 DEF Packets
<1>5. \A l \in Lengths : l \in Nat \ {0} /\ l \in HEADER_SIZE..MAX_PACKET_SIZE
  <2> TAKE l \in Lengths
  <2>1. l \in HEADER_SIZE..MAX_PACKET_SIZE
    BY <1>1
  <2> QED BY <1>1, <2>1
<1>6. /\ \A k \in 1..MaxSend : k \in Nat \ {0}
      /\ \A k \in 1..MAX_PACKET_SIZE : k \in Nat \ {0}
  BY <1>1
<1>7. ASSUME NEW b \in Byte
      PROVE  /\ b.no \in Nat \ {0} /\ b.length \in Nat \ {0} /\ b.at \in Nat \ {0}
             /\ b.length \in HEADER_SIZE..MAX_PACKET_SIZE
  BY <1>2, <1>5, <1>6
<1>8. ASSUME NEW p \in Packets
      PROVE  p.no \in Nat \ {0} /\ p.length \in Nat \ {0} /\ p.length \in HEADER_SIZE..MAX_PACKET_SIZE
  BY <1>3, <1>5, <1>6
<1> QED BY <1>4, <1>7, <1>8

\* The bytes of a packet.
LEMMA BytesFacts ==
  ASSUME NEW p \in Packets
  PROVE  /\ Bytes(p) \in Seq(Byte) /\ Len(Bytes(p)) = p.length
         /\ \A k \in 1..p.length : Bytes(p)[k] = [no |-> p.no, length |-> p.length, at |-> k]
<1>1. p.length \in Nat /\ p.length <= MAX_PACKET_SIZE /\ MAX_PACKET_SIZE \in Nat
  BY ByteFacts, PacketAssumption
<1>2. \A k \in 1..p.length : [no |-> p.no, length |-> p.length, at |-> k] \in Byte
  BY <1>1 DEF Byte, Packets
<1> QED BY <1>1, <1>2 DEF Bytes

\* A part of a sequence.
LEMMA PartFacts ==
  ASSUME NEW S, NEW s \in Seq(S), NEW m \in 1..(Len(s) + 1), NEW n \in (m - 1)..Len(s)
  PROVE  /\ SubSeq(s, m, n) \in Seq(S) /\ Len(SubSeq(s, m, n)) = (n - m) + 1
         /\ \A i \in 1..((n - m) + 1) : SubSeq(s, m, n)[i] = s[(m + i) - 1]
<1>1. Len(s) \in Nat /\ m \in Int /\ n \in Int /\ \A i \in m..n : s[i] \in S
  OBVIOUS
<1>2. /\ SubSeq(s,m,n) \in Seq(S)
      /\ Len(SubSeq(s,m,n)) = IF m<=n THEN n-m+1 ELSE 0
      /\ \A i \in 1 .. n-m+1 : SubSeq(s,m,n)[i] = s[m+i-1]
  BY <1>1, SubSeqProperties
<1> QED BY <1>1, <1>2

\* More packets may be sent.
LEMMA InOrderGrows ==
  ASSUME NEW c \in Seq(Byte), NEW n \in Nat, NEW sent \in Seq(Packets), NEW p \in Packets, InOrder(c, n, sent)
  PROVE  InOrder(c, n, Append(sent, p))
<1> DEFINE all == Append(sent, p)
<1>1. Len(sent) \in Nat /\ Len(all) = Len(sent) + 1 /\ \A i \in 1..Len(sent) : all[i] = sent[i]
  BY AppendProperties
<1> HIDE DEF all
<1> SUFFICES ASSUME NEW i \in 1..Len(c)
             PROVE  /\ c[i].no = DueNo(c, i, n) /\ c[i].at = DueAt(c, i)
                    /\ c[i].no \in 1..Len(all) /\ c[i].at <= c[i].length
                    /\ c[i].length = all[c[i].no].length
  BY DEF InOrder, all
<1>2. /\ c[i].no = DueNo(c, i, n) /\ c[i].at = DueAt(c, i)
      /\ c[i].no \in 1..Len(sent) /\ c[i].at <= c[i].length
      /\ c[i].length = sent[c[i].no].length
  BY DEF InOrder
<1> HIDE DEF DueNo, DueAt
<1> QED BY <1>1, <1>2

\* The front of a stream.
LEMMA InOrderFront ==
  ASSUME NEW c \in Seq(Byte), NEW n \in Nat, NEW sent \in Seq(Packets), InOrder(c, n, sent), NEW k \in 0..Len(c)
  PROVE  InOrder(SubSeq(c, 1, k), n, sent)
<1> DEFINE f == SubSeq(c, 1, k)
<1>1. Len(c) \in Nat /\ f \in Seq(Byte) /\ Len(f) = k /\ \A i \in 1..k : f[i] = c[i]
  <2>1. 1 \in 1..(Len(c) + 1) /\ k \in (1 - 1)..Len(c) /\ (k - 1) + 1 = k
    OBVIOUS
  <2>2. /\ SubSeq(c, 1, k) \in Seq(Byte) /\ Len(SubSeq(c, 1, k)) = (k - 1) + 1
        /\ \A i \in 1..((k - 1) + 1) : SubSeq(c, 1, k)[i] = c[(1 + i) - 1]
    BY <2>1, PartFacts
  <2>3. \A i \in 1..k : (1 + i) - 1 = i
    OBVIOUS
  <2> QED BY <2>1, <2>2, <2>3
<1> HIDE DEF f
<1> SUFFICES ASSUME NEW i \in 1..Len(f)
             PROVE  /\ f[i].no = DueNo(f, i, n) /\ f[i].at = DueAt(f, i)
                    /\ f[i].no \in 1..Len(sent) /\ f[i].at <= f[i].length
                    /\ f[i].length = sent[f[i].no].length
  BY DEF InOrder, f
<1>2. i \in Nat \ {0} /\ i \in 1..Len(c) /\ f[i] = c[i] /\ (i > 1 => f[i - 1] = c[i - 1])
  BY <1>1
<1>3. DueNo(f, i, n) = DueNo(c, i, n) /\ DueAt(f, i) = DueAt(c, i)
  <2>1. CASE i = 1
    BY <2>1 DEF DueNo, DueAt
  <2>2. CASE i > 1
    <3>1. f[i - 1] = c[i - 1] /\ i # 1
      BY <1>2, <2>2
    <3> QED BY <3>1 DEF DueNo, DueAt
  <2> QED BY <1>2, <2>1, <2>2
<1>4. /\ c[i].no = DueNo(c, i, n) /\ c[i].at = DueAt(c, i)
      /\ c[i].no \in 1..Len(sent) /\ c[i].at <= c[i].length
      /\ c[i].length = sent[c[i].no].length
  BY <1>2 DEF InOrder
<1> HIDE DEF DueNo, DueAt
<1> QED BY <1>2, <1>3, <1>4

\* The first j bytes of c end with the packet m; n were complete before c.
Boundary(c, n, j, m) ==
    IF j = 0 THEN m = n ELSE c[j].no = m /\ c[j].at = c[j].length

\* What follows a boundary.
LEMMA InOrderBack ==
  ASSUME NEW c \in Seq(Byte), NEW n \in Nat, NEW sent \in Seq(Packets), InOrder(c, n, sent),
         NEW j \in 0..Len(c), NEW m \in Nat, Boundary(c, n, j, m)
  PROVE  LET f == SubSeq(c, j + 1, Len(c))
         IN  /\ f \in Seq(Byte) /\ Len(f) = Len(c) - j /\ \A i \in 1..Len(f) : f[i] = c[j + i]
             /\ InOrder(f, m, sent)
             /\ DueNo(f, Len(f) + 1, m) = DueNo(c, Len(c) + 1, n) /\ DueAt(f, Len(f) + 1) = DueAt(c, Len(c) + 1)
<1> DEFINE f == SubSeq(c, j + 1, Len(c))
<1>1. /\ Len(c) \in Nat /\ j \in Nat /\ f \in Seq(Byte) /\ Len(f) = Len(c) - j
      /\ \A i \in 1..Len(f) : f[i] = c[j + i]
  <2>1. Len(c) \in Nat /\ j + 1 \in 1..(Len(c) + 1) /\ Len(c) \in ((j + 1) - 1)..Len(c) /\ (Len(c) - (j + 1)) + 1 = Len(c) - j
    OBVIOUS
  <2>2. /\ f \in Seq(Byte) /\ Len(f) = (Len(c) - (j + 1)) + 1
        /\ \A i \in 1..((Len(c) - (j + 1)) + 1) : f[i] = c[((j + 1) + i) - 1]
    BY <2>1, PartFacts
  <2>3. \A i \in 1..(Len(c) - j) : ((j + 1) + i) - 1 = j + i
    BY <2>1
  <2> HIDE DEF f
  <2> QED BY <2>1, <2>2, <2>3
<1> HIDE DEF f
<1>2. ASSUME NEW i \in 1..(Len(f) + 1)
      PROVE  DueNo(f, i, m) = DueNo(c, j + i, n) /\ DueAt(f, i) = DueAt(c, j + i)
  <2>1. CASE i = 1 /\ j = 0
    BY <2>1 DEF DueNo, DueAt, Boundary
  <2>2. CASE i = 1 /\ j # 0
    <3>1. c[j].no = m /\ c[j].at = c[j].length /\ j \in 1..Len(c) /\ j + i # 1 /\ (j + i) - 1 = j
      BY <1>1, <2>2 DEF Boundary
    <3>2. c[j].at \in Nat
      <4>1. c[j] \in Byte
        BY <3>1
      <4> QED BY <4>1, ByteFacts
    <3> QED BY <2>2, <3>1, <3>2 DEF DueNo, DueAt
  <2>3. CASE i > 1
    <3>1. i - 1 \in 1..Len(f) /\ j + (i - 1) = (j + i) - 1 /\ j + i # 1 /\ i # 1
      BY <1>1, <2>3
    <3>2. f[i - 1] = c[(j + i) - 1]
      BY <1>1, <3>1
    <3> QED BY <3>1, <3>2 DEF DueNo, DueAt
  <2> QED BY <1>1, <2>1, <2>2, <2>3
<1>3. InOrder(f, m, sent)
  <2> SUFFICES ASSUME NEW i \in 1..Len(f)
               PROVE  /\ f[i].no = DueNo(f, i, m) /\ f[i].at = DueAt(f, i)
                      /\ f[i].no \in 1..Len(sent) /\ f[i].at <= f[i].length
                      /\ f[i].length = sent[f[i].no].length
    BY DEF InOrder
  <2>1. i \in 1..(Len(f) + 1) /\ j + i \in 1..Len(c) /\ f[i] = c[j + i]
    BY <1>1
  <2>2. LET q == j + i
        IN  /\ c[q].no = DueNo(c, q, n) /\ c[q].at = DueAt(c, q)
            /\ c[q].no \in 1..Len(sent) /\ c[q].at <= c[q].length
            /\ c[q].length = sent[c[q].no].length
    BY <2>1 DEF InOrder
  <2>3. DueNo(f, i, m) = DueNo(c, j + i, n) /\ DueAt(f, i) = DueAt(c, j + i)
    BY <1>2, <2>1
  <2> HIDE DEF DueNo, DueAt
  <2> QED BY <2>1, <2>2, <2>3
<1>4. DueNo(f, Len(f) + 1, m) = DueNo(c, Len(c) + 1, n) /\ DueAt(f, Len(f) + 1) = DueAt(c, Len(c) + 1)
  <2>1. Len(f) + 1 \in 1..(Len(f) + 1) /\ j + (Len(f) + 1) = Len(c) + 1
    BY <1>1
  <2> QED BY <1>2, <2>1
<1> QED BY <1>1, <1>3, <1>4 DEF f

-----------------------------------------------------------------------------
(* The framing. *)

\* What a read finds: packets, and the bytes that are left.
Found == [rest : Seq(Byte), packets : Seq(Packets \cup {Garbage})]

\* A buffer that begins with a whole packet, and what is behind it.
FirstOf(b) == SubSeq(b, 1, LengthField(b))
RestOf(b) == SubSeq(b, LengthField(b) + 1, Len(b))
NoPacket(b) == [rest |-> b, packets |-> <<>>]
OneMore(b, r) == [r EXCEPT !.packets = <<AsPacket(FirstOf(b))>> \o r.packets]

\* The length field says where to cut.
LEMMA CutFacts ==
  ASSUME NEW b \in Seq(Byte), ~Incomplete(b)
  PROVE  /\ b # <<>> /\ b[1] \in Byte
         /\ LengthField(b) \in 1..Len(b) /\ Len(b) \in Nat
         /\ FirstOf(b) \in Seq(Byte) /\ Len(FirstOf(b)) = LengthField(b)
         /\ \A i \in 1..LengthField(b) : FirstOf(b)[i] = b[i]
         /\ RestOf(b) \in Seq(Byte) /\ Len(RestOf(b)) = Len(b) - LengthField(b)
<1> DEFINE l == LengthField(b)
<1>1. Len(b) \in Nat /\ HEADER_SIZE \in Nat \ {0} /\ ~(Len(b) < HEADER_SIZE) /\ ~(l > Len(b))
  BY PacketAssumption DEF Incomplete
<1>2. b # <<>> /\ b[1] \in Byte /\ 1 \in 1..Len(b)
  BY <1>1
<1>3. l \in Nat \ {0}
  BY <1>2, ByteFacts DEF LengthField
<1> HIDE DEF l
<1>4. l \in 1..Len(b) /\ 1 \in 1..(Len(b) + 1) /\ l \in (1 - 1)..Len(b) /\ (l - 1) + 1 = l
      /\ l + 1 \in 1..(Len(b) + 1) /\ Len(b) \in ((l + 1) - 1)..Len(b) /\ (Len(b) - (l + 1)) + 1 = Len(b) - l
  BY <1>1, <1>3
<1>5. /\ SubSeq(b, 1, l) \in Seq(Byte) /\ Len(SubSeq(b, 1, l)) = (l - 1) + 1
      /\ \A i \in 1..((l - 1) + 1) : SubSeq(b, 1, l)[i] = b[(1 + i) - 1]
  BY <1>4, PartFacts
<1>6. /\ SubSeq(b, l + 1, Len(b)) \in Seq(Byte) /\ Len(SubSeq(b, l + 1, Len(b))) = (Len(b) - (l + 1)) + 1
  BY <1>4, PartFacts
<1>7. \A i \in 1..l : (1 + i) - 1 = i
  BY <1>3
<1> QED BY <1>1, <1>2, <1>4, <1>5, <1>6, <1>7 DEF l, FirstOf, RestOf

\* The packet is one that may be sent, or it shows that the stream is garbled.
LEMMA AsPacketType ==
  ASSUME NEW b \in Seq(Byte), b # <<>> PROVE AsPacket(b) \in Packets \cup {Garbage}
<1>1. b[1] \in Byte
  OBVIOUS
<1>2. [no |-> b[1].no, length |-> b[1].length] \in Packets
  BY <1>1, ByteFacts
<1> QED BY <1>2 DEF AsPacket

\* One more packet.
LEMMA OneMoreType ==
  ASSUME NEW b \in Seq(Byte), ~Incomplete(b), NEW r \in Found
  PROVE  /\ OneMore(b, r) \in Found /\ OneMore(b, r).rest = r.rest
         /\ OneMore(b, r).packets = <<AsPacket(FirstOf(b))>> \o r.packets
<1> DEFINE one == <<AsPacket(FirstOf(b))>>
           s == one \o r.packets
<1>1. AsPacket(FirstOf(b)) \in Packets \cup {Garbage}
  <2>1. FirstOf(b) \in Seq(Byte) /\ FirstOf(b) # <<>>
    BY CutFacts
  <2> QED BY <2>1, AsPacketType
<1>2. one \in Seq(Packets \cup {Garbage}) /\ r.packets \in Seq(Packets \cup {Garbage})
  BY <1>1 DEF Found
<1>3. OneMore(b, r) = [r EXCEPT !.packets = s]
  BY DEF OneMore
<1> HIDE DEF one
<1>4. s \in Seq(Packets \cup {Garbage})
  BY <1>2, ConcatProperties
<1> HIDE DEF s
<1>5. OneMore(b, r) \in Found /\ OneMore(b, r).rest = r.rest /\ OneMore(b, r).packets = s
  BY <1>3, <1>4 DEF Found
<1> QED BY <1>5 DEF s, one

\* Framed is what its loop says: each round leaves fewer bytes.
LEMMA FramedIsLoop ==
  \A b \in Seq(Byte) :
     /\ Framed[b] \in Found
     /\ Framed[b] = IF Incomplete(b) THEN NoPacket(b) ELSE OneMore(b, Framed[RestOf(b)])
<1> DEFINE X == Seq(Byte)
           Stop == {b \in X : Incomplete(b)}
           mu == [b \in X |-> Len(b)]
           step == [b \in X |-> IF b \in Stop THEN b ELSE RestOf(b)]
           base == [b \in X |-> NoPacket(b)]
           comb == [b \in X |-> [r \in Found |-> IF b \in Stop THEN r ELSE OneMore(b, r)]]
           Loop(c) == c = [b \in X |-> IF Incomplete(b) THEN NoPacket(b) ELSE OneMore(b, c[RestOf(b)])]
<1>1. mu \in [X -> Nat]
  OBVIOUS
<1>2. \A b \in X : b \notin Stop => RestOf(b) \in X /\ Len(RestOf(b)) < Len(b)
  <2> SUFFICES ASSUME NEW b \in X, ~Incomplete(b) PROVE RestOf(b) \in X /\ Len(RestOf(b)) < Len(b)
    OBVIOUS
  <2>1. LengthField(b) \in 1..Len(b) /\ Len(b) \in Nat /\ RestOf(b) \in Seq(Byte) /\ Len(RestOf(b)) = Len(b) - LengthField(b)
    BY CutFacts
  <2> QED BY <2>1
<1>3. /\ step \in [X -> X]
      /\ \A b \in X : b \notin Stop => mu[step[b]] < mu[b]
  <2> HIDE DEF X
  <2> QED BY <1>2
<1>4. base \in [X -> Found]
  BY DEF NoPacket, Found
<1>5. comb \in [X -> [Found -> Found]]
  BY OneMoreType
<1>6. PICK g \in [X -> Found] : R!Satisfies(g, X, Stop, step, base, comb)
  <2> HIDE DEF X, mu, Stop, step, base, comb
  <2> QED BY <1>1, <1>3, <1>4, <1>5, R!RecursionExists
<1>7. ASSUME NEW b \in X
      PROVE  g[b] = IF Incomplete(b) THEN NoPacket(b) ELSE OneMore(b, g[RestOf(b)])
  <2>1. g[b] = IF b \in Stop THEN base[b] ELSE comb[b][g[step[b]]]
    <3> HIDE DEF X, Stop, step, base, comb
    <3> QED BY <1>6 DEF R!Satisfies
  <2> HIDE DEF X
  <2> QED BY <1>2, <1>6, <2>1
<1>8. Loop(g)
  <2> HIDE DEF X
  <2> QED BY <1>6, <1>7
<1>9. Framed = CHOOSE c : Loop(c)
  BY DEF Framed, NoPacket, OneMore, RestOf, FirstOf
<1>10. Loop(Framed)
  <2> HIDE DEF Loop
  <2> QED BY <1>8, <1>9
<1>11. \A b \in X : Framed[b] = IF Incomplete(b) THEN NoPacket(b) ELSE OneMore(b, Framed[RestOf(b)])
  <2> HIDE DEF X
  <2> QED BY <1>10
<1> DEFINE Bad == {b \in X : Framed[b] \notin Found}
<1>12. Bad = {}
  <2> SUFFICES ASSUME Bad # {} PROVE FALSE
    OBVIOUS
  <2>1. PICK b \in Bad : \A d \in Bad : mu[b] <= mu[d]
    <3>1. Bad \subseteq X
      OBVIOUS
    <3> HIDE DEF Bad, X, mu
    <3> QED BY <1>1, <3>1, R!LeastMeasure
  <2>2. b \in X /\ Framed[b] \notin Found
    OBVIOUS
  <2>3. CASE Incomplete(b)
    <3>1. NoPacket(b) \in Found
      BY <2>2 DEF NoPacket, Found
    <3> QED BY <1>11, <2>2, <2>3, <3>1
  <2>4. CASE ~Incomplete(b)
    <3>1. RestOf(b) \in X /\ mu[RestOf(b)] < mu[b] /\ mu[b] \in Nat /\ mu[RestOf(b)] \in Nat
      BY <1>2, <2>2, <2>4
    <3>2. RestOf(b) \notin Bad
      <4> HIDE DEF Bad, X, mu
      <4> QED BY <2>1, <3>1
    <3>3. Framed[RestOf(b)] \in Found
      BY <3>1, <3>2
    <3> QED BY <1>11, <2>2, <2>4, <3>3, OneMoreType
  <2> QED BY <2>3, <2>4
<1> QED BY <1>11, <1>12

\* The first packet of a stream in order is the one that is due.
LEMMA FirstPacket ==
  ASSUME NEW c \in Seq(Byte), NEW n \in Nat, NEW sent \in Seq(Packets), Numbered(sent),
         InOrder(c, n, sent), ~Incomplete(c)
  PROVE  /\ n + 1 \in 1..Len(sent)
         /\ AsPacket(FirstOf(c)) = sent[n + 1]
         /\ Boundary(c, n, LengthField(c), n + 1)
<1> DEFINE l == LengthField(c)
           p == sent[n + 1]
<1>1. /\ c # <<>> /\ c[1] \in Byte /\ l \in 1..Len(c) /\ Len(c) \in Nat
      /\ FirstOf(c) \in Seq(Byte) /\ Len(FirstOf(c)) = l /\ \A i \in 1..l : FirstOf(c)[i] = c[i]
  BY CutFacts
<1>2. /\ 1 \in 1..Len(c) /\ c[1].no = n + 1 /\ c[1].at = 1 /\ n + 1 \in 1..Len(sent)
      /\ c[1].length = p.length /\ l = p.length
  BY <1>1 DEF InOrder, DueNo, DueAt, LengthField
<1>3. p \in Packets /\ p.no = n + 1
  BY <1>2 DEF Numbered
<1> HIDE DEF l, p
<1> DEFINE Bad == {i \in 1..l : ~(c[i].no = n + 1 /\ c[i].at = i /\ c[i].length = l)}
<1>4. Bad = {}
  <2> SUFFICES ASSUME Bad # {} PROVE FALSE
    OBVIOUS
  <2>1. PICK i \in Bad : \A k \in Bad : i <= k
    <3>1. Bad \subseteq Nat
      BY <1>1
    <3> HIDE DEF Bad
    <3> QED BY <3>1, R!LeastNat
  <2>2. i # 1 /\ i \in 1..l /\ l \in Nat
    BY <1>1, <1>2
  <2>3. i - 1 \in 1..l /\ i \in 1..Len(c) /\ i - 1 < i
    BY <1>1, <2>2
  <2>4. i - 1 \notin Bad
    <3> HIDE DEF Bad
    <3> QED BY <2>1, <2>2, <2>3
  <2>5. c[i - 1].no = n + 1 /\ c[i - 1].at = i - 1 /\ c[i - 1].length = l /\ i - 1 < l
    BY <2>2, <2>3, <2>4
  <2>6. DueNo(c, i, n) = n + 1 /\ DueAt(c, i) = i
    BY <2>2, <2>3, <2>5 DEF DueNo, DueAt
  <2>7. c[i].no = n + 1 /\ c[i].at = i /\ c[i].length = sent[c[i].no].length
    BY <2>3, <2>6 DEF InOrder
  <2>8. c[i].length = l
    BY <1>2, <2>7 DEF p
  <2> QED BY <2>1, <2>7, <2>8
<1>5. \A i \in 1..l : c[i] = [no |-> n + 1, length |-> l, at |-> i]
  <2> SUFFICES ASSUME NEW i \in 1..l PROVE c[i] = [no |-> n + 1, length |-> l, at |-> i]
    OBVIOUS
  <2>1. c[i].no = n + 1 /\ c[i].at = i /\ c[i].length = l
    BY <1>4
  <2>2. c[i] \in Byte
    BY <1>1
  <2> HIDE DEF Bad
  <2> QED BY <2>1, <2>2 DEF Byte
<1>6. p = [no |-> n + 1, length |-> l]
  BY <1>2, <1>3 DEF Packets
<1>7. FirstOf(c) = Bytes(p)
  <2>1. Bytes(p) \in Seq(Byte) /\ Len(Bytes(p)) = l /\ \A k \in 1..l : Bytes(p)[k] = [no |-> p.no, length |-> p.length, at |-> k]
    BY <1>2, <1>3, BytesFacts
  <2>2. \A k \in 1..l : FirstOf(c)[k] = Bytes(p)[k]
    BY <1>1, <1>2, <1>3, <1>5, <2>1
  <2> DEFINE f == FirstOf(c)
             g == Bytes(p)
  <2>3. f \in Seq(Byte) /\ g \in Seq(Byte) /\ Len(f) = Len(g) /\ \A k \in 1..Len(f) : f[k] = g[k]
    BY <1>1, <2>1, <2>2
  <2> HIDE DEF f, g
  <2>4. f = g
    BY <2>3, SeqEqual
  <2> QED BY <2>4 DEF f, g
<1>8. AsPacket(FirstOf(c)) = p
  <2>1. FirstOf(c)[1] = c[1] /\ c[1].length = l
    BY <1>1, <1>2
  <2>2. [no |-> FirstOf(c)[1].no, length |-> FirstOf(c)[1].length] = p
    BY <1>2, <1>6, <2>1
  <2> QED BY <1>7, <2>2 DEF AsPacket
<1>9. Boundary(c, n, l, n + 1)
  <2>1. l \in 1..l /\ l # 0
    BY <1>1
  <2>2. c[l] = [no |-> n + 1, length |-> l, at |-> l]
    BY <1>5, <2>1
  <2> QED BY <2>1, <2>2 DEF Boundary
<1> QED BY <1>2, <1>8, <1>9 DEF l, p

\* Of x, in order from packet n + 1 on, the packets up to m are found in the first
\* j bytes, and what is left is less than a packet.
FindsPackets(x, n, sent) ==
    \E j \in 0..Len(x), m \in n..Len(sent) :
        /\ Framed[x].rest = SubSeq(x, j + 1, Len(x)) /\ Incomplete(Framed[x].rest)
        /\ Len(Framed[x].packets) = m - n
        /\ \A i \in 1..(m - n) : Framed[x].packets[i] = sent[n + i]
        /\ Boundary(x, n, j, m)

\* One round of the loop.
LEMMA FramingRound ==
  ASSUME NEW sent \in Seq(Packets), Numbered(sent),
         NEW x \in Seq(Byte), NEW n \in 0..Len(sent), InOrder(x, n, sent), ~Incomplete(x),
         InOrder(RestOf(x), n + 1, sent) => FindsPackets(RestOf(x), n + 1, sent)
  PROVE  FindsPackets(x, n, sent)
<1> DEFINE l == LengthField(x)
           y == RestOf(x)
           r == Framed[y]
<1>1. /\ l \in 1..Len(x) /\ Len(x) \in Nat /\ Len(sent) \in Nat /\ n \in Nat
      /\ y \in Seq(Byte) /\ Len(y) = Len(x) - l
  BY CutFacts
<1>2. n + 1 \in 1..Len(sent) /\ AsPacket(FirstOf(x)) = sent[n + 1] /\ Boundary(x, n, l, n + 1)
  BY <1>1, FirstPacket
<1>3. y = SubSeq(x, l + 1, Len(x))
  BY DEF RestOf
<1>4. r \in Found /\ Framed[x] = OneMore(x, r)
  BY <1>1, FramedIsLoop
<1>5. Framed[x].rest = r.rest /\ Framed[x].packets = <<sent[n + 1]>> \o r.packets
  BY <1>2, <1>4, OneMoreType
<1> HIDE DEF l, y, r
<1>6. /\ \A i \in 1..Len(y) : y[i] = x[l + i]
      /\ InOrder(y, n + 1, sent)
  <2>1. l \in 0..Len(x) /\ n + 1 \in Nat
    BY <1>1
  <2> QED BY <1>1, <1>2, <1>3, <2>1, InOrderBack
<1>7. PICK j \in 0..Len(y), m \in (n + 1)..Len(sent) :
        /\ r.rest = SubSeq(y, j + 1, Len(y)) /\ Incomplete(r.rest)
        /\ Len(r.packets) = m - (n + 1)
        /\ \A i \in 1..(m - (n + 1)) : r.packets[i] = sent[(n + 1) + i]
        /\ Boundary(y, n + 1, j, m)
  BY <1>6 DEF FindsPackets, r, y
<1>8. l + j \in 0..Len(x) /\ m \in n..Len(sent) /\ j \in Nat /\ m \in Nat /\ Len(y) \in Nat /\ l \in Nat
  BY <1>1, <1>7
<1>9. r.rest = SubSeq(x, (l + j) + 1, Len(x))
  <2> DEFINE f == SubSeq(y, j + 1, Len(y))
             g == SubSeq(x, (l + j) + 1, Len(x))
  <2>1. /\ j + 1 \in 1..(Len(y) + 1) /\ Len(y) \in ((j + 1) - 1)..Len(y)
        /\ (l + j) + 1 \in 1..(Len(x) + 1) /\ Len(x) \in (((l + j) + 1) - 1)..Len(x)
    BY <1>1, <1>8
  <2>2. /\ f \in Seq(Byte) /\ Len(f) = (Len(y) - (j + 1)) + 1
        /\ \A i \in 1..((Len(y) - (j + 1)) + 1) : f[i] = y[((j + 1) + i) - 1]
    BY <1>1, <2>1, PartFacts
  <2>3. /\ g \in Seq(Byte) /\ Len(g) = (Len(x) - ((l + j) + 1)) + 1
        /\ \A i \in 1..((Len(x) - ((l + j) + 1)) + 1) : g[i] = x[(((l + j) + 1) + i) - 1]
    BY <2>1, PartFacts
  <2> HIDE DEF f, g
  <2>4. Len(f) = Len(g) /\ Len(f) = Len(y) - j
    BY <1>1, <1>8, <2>2, <2>3
  <2>5. ASSUME NEW i \in 1..Len(f) PROVE f[i] = g[i]
    <3>1. /\ i \in 1..((Len(y) - (j + 1)) + 1) /\ i \in 1..((Len(x) - ((l + j) + 1)) + 1)
          /\ ((j + 1) + i) - 1 = j + i /\ (((l + j) + 1) + i) - 1 = l + (j + i) /\ j + i \in 1..Len(y)
      BY <1>1, <1>8, <2>2, <2>3, <2>4
    <3>2. f[i] = y[j + i] /\ g[i] = x[l + (j + i)]
      BY <2>2, <2>3, <3>1
    <3> QED BY <1>6, <3>1, <3>2
  <2>6. f = g
    BY <2>2, <2>3, <2>4, <2>5, SeqEqual
  <2> QED BY <1>7, <2>6 DEF f, g
<1>10. /\ Len(Framed[x].packets) = m - n
       /\ \A i \in 1..(m - n) : Framed[x].packets[i] = sent[n + i]
  <2> DEFINE one == <<sent[n + 1]>>
             ps == r.packets
             all == one \o ps
             P == Packets \cup {Garbage}
  <2>1. one \in Seq(P) /\ ps \in Seq(P) /\ Len(one) = 1 /\ one[1] = sent[n + 1]
    BY <1>2, <1>4 DEF Found
  <2>2. Framed[x].packets = all
    BY <1>5
  <2>3. Len(ps) = m - (n + 1) /\ \A i \in 1..(m - (n + 1)) : ps[i] = sent[(n + 1) + i]
    BY <1>7
  <2> HIDE DEF one, ps, P
  <2>4. Len(all) = Len(one) + Len(ps) /\ \A i \in 1..(Len(one) + Len(ps)) : all[i] = IF i <= Len(one) THEN one[i] ELSE ps[i - Len(one)]
    BY <2>1, ConcatProperties
  <2> HIDE DEF all
  <2>5. Len(all) = m - n
    BY <1>1, <1>8, <2>1, <2>3, <2>4
  <2>6. ASSUME NEW i \in 1..(m - n) PROVE all[i] = sent[n + i]
    <3>1. CASE i = 1
      BY <1>1, <1>8, <2>1, <2>4, <2>5, <3>1
    <3>2. CASE i # 1
      <4>1. i - 1 \in 1..(m - (n + 1)) /\ (n + 1) + (i - 1) = n + i /\ ~(i <= 1) /\ i \in 1..(Len(one) + Len(ps))
        BY <1>1, <1>8, <2>1, <2>3, <3>2
      <4> QED BY <2>1, <2>3, <2>4, <4>1
    <3> QED BY <3>1, <3>2
  <2> QED BY <2>2, <2>5, <2>6
<1>11. Boundary(x, n, l + j, m)
  <2>1. CASE j = 0
    <3>1. m = n + 1 /\ l + j = l
      BY <1>7, <1>8, <2>1 DEF Boundary
    <3> QED BY <1>2, <3>1
  <2>2. CASE j # 0
    <3>1. j \in 1..Len(y) /\ l + j # 0
      BY <1>1, <1>8, <1>7, <2>2
    <3>2. y[j] = x[l + j] /\ y[j].no = m /\ y[j].at = y[j].length
      BY <1>6, <1>7, <2>2, <3>1 DEF Boundary
    <3> QED BY <3>1, <3>2 DEF Boundary
  <2> QED BY <2>1, <2>2
<1>12. Framed[x].rest = SubSeq(x, (l + j) + 1, Len(x)) /\ Incomplete(Framed[x].rest)
  BY <1>5, <1>7, <1>9
<1> QED BY <1>8, <1>10, <1>11, <1>12 DEF FindsPackets

\* The framing of a stream in order: the shortest for which it failed would begin
\* with a whole packet, and then a shorter one fails.
LEMMA FramingFinds ==
  ASSUME NEW sent \in Seq(Packets), Numbered(sent)
  PROVE  \A x \in Seq(Byte), n \in 0..Len(sent) : InOrder(x, n, sent) => FindsPackets(x, n, sent)
<1> DEFINE Fails(x, n) == InOrder(x, n, sent) /\ ~FindsPackets(x, n, sent)
           Bad == {x \in Seq(Byte) : \E n \in 0..Len(sent) : Fails(x, n)}
           mu == [x \in Seq(Byte) |-> Len(x)]
<1> SUFFICES ASSUME Bad # {} PROVE FALSE
  OBVIOUS
<1>1. PICK x \in Bad : \A y \in Bad : mu[x] <= mu[y]
  <2>1. Bad \subseteq Seq(Byte) /\ mu \in [Seq(Byte) -> Nat]
    OBVIOUS
  <2> HIDE DEF Bad, mu
  <2> QED BY <2>1, R!LeastMeasure
<1>2. PICK n \in 0..Len(sent) : Fails(x, n)
  BY <1>1
<1>3. x \in Seq(Byte) /\ Len(x) \in Nat /\ Len(sent) \in Nat /\ n \in Nat
  OBVIOUS
<1>4. CASE Incomplete(x)
  <2>1. Framed[x] = NoPacket(x)
    BY <1>3, <1>4, FramedIsLoop
  <2>2. Framed[x].rest = x /\ Framed[x].packets = <<>>
    BY <2>1 DEF NoPacket
  <2>3. SubSeq(x, 0 + 1, Len(x)) = x
    BY <1>3, SubSeqFull
  <2>4. 0 \in 0..Len(x) /\ n \in n..Len(sent) /\ Len(<<>>) = n - n /\ 1..(n - n) = {}
    BY <1>2, <1>3
  <2>5. Boundary(x, n, 0, n)
    BY DEF Boundary
  <2>6. FindsPackets(x, n, sent)
    <3>1. /\ Framed[x].rest = SubSeq(x, 0 + 1, Len(x)) /\ Incomplete(Framed[x].rest)
          /\ Len(Framed[x].packets) = n - n
          /\ \A i \in 1..(n - n) : Framed[x].packets[i] = sent[n + i]
          /\ Boundary(x, n, 0, n)
      BY <1>4, <2>2, <2>3, <2>4, <2>5
    <3> HIDE DEF Bad, mu
    <3> QED BY <2>4, <3>1 DEF FindsPackets
  <2> QED BY <1>2, <2>6
<1>5. CASE ~Incomplete(x)
  <2> DEFINE y == RestOf(x)
  <2>1. LengthField(x) \in 1..Len(x) /\ y \in Seq(Byte) /\ Len(y) = Len(x) - LengthField(x)
    BY <1>3, <1>5, CutFacts
  <2>2. n + 1 \in 0..Len(sent)
    <3>1. n + 1 \in 1..Len(sent)
      BY <1>2, <1>3, <1>5, FirstPacket
    <3> QED BY <3>1
  <2> HIDE DEF y
  <2>3. mu[y] < mu[x] /\ mu[y] \in Nat /\ mu[x] \in Nat
    BY <1>3, <2>1
  <2>4. y \notin Bad
    <3> HIDE DEF Bad, mu
    <3> QED BY <1>1, <2>3
  <2>5. InOrder(y, n + 1, sent) => FindsPackets(y, n + 1, sent)
    BY <2>1, <2>2, <2>4
  <2>6. FindsPackets(x, n, sent)
    <3> HIDE DEF Bad, mu
    <3> QED BY <1>2, <1>3, <1>5, <2>5, FramingRound DEF y
  <2> QED BY <1>2, <2>6
<1> QED BY <1>4, <1>5

\* A read of k bytes at the end of one direction, where sent are the packets that
\* were sent, b is the buffer and d under way: it takes the packets that are due
\* off the front of the stream, and what is left to write stays so.
LEMMA ReadInOrder ==
  ASSUME NEW sent \in Seq(Packets), Numbered(sent), NEW b \in Seq(Byte), NEW d \in Seq(Byte),
         NEW handled \in Seq(Packets), Handled(handled, sent),
         InOrder(b \o d, Len(handled), sent), NEW k \in 1..Len(d)
  PROVE  LET r == Framed[b \o SubSeq(d, 1, k)]
             e == SubSeq(d, k + 1, Len(d))
             h == handled \o r.packets
         IN  /\ r.rest \in Seq(Byte) /\ Incomplete(r.rest) /\ e \in Seq(Byte)
             /\ r.packets \in Seq(Packets) /\ h \in Seq(Packets) /\ Handled(h, sent)
             /\ InOrder(r.rest \o e, Len(h), sent)
             /\ \A S : Pending(S, b \o d, Len(handled), sent) => Pending(S, r.rest \o e, Len(h), sent)
<1> DEFINE n == Len(handled)
           c == b \o d
           a == SubSeq(d, 1, k)
           x == b \o a
           e == SubSeq(d, k + 1, Len(d))
           r == Framed[x]
           h == handled \o r.packets
<1>1. /\ Len(b) \in Nat /\ Len(d) \in Nat /\ n \in Nat /\ k \in Nat /\ Len(sent) \in Nat /\ k <= Len(d) /\ 1 <= k
      /\ n <= Len(sent) /\ \A i \in 1..n : handled[i] = sent[i]
  BY DEF Handled
<1>2. /\ c \in Seq(Byte) /\ Len(c) = Len(b) + Len(d)
      /\ \A i \in 1..(Len(b) + Len(d)) : c[i] = IF i <= Len(b) THEN b[i] ELSE d[i - Len(b)]
  BY ConcatProperties
<1>3. a \in Seq(Byte) /\ Len(a) = k /\ \A i \in 1..k : a[i] = d[i]
  <2>1. 1 \in 1..(Len(d) + 1) /\ k \in (1 - 1)..Len(d) /\ (k - 1) + 1 = k /\ \A i \in 1..k : (1 + i) - 1 = i
    BY <1>1
  <2>2. /\ a \in Seq(Byte) /\ Len(a) = (k - 1) + 1
        /\ \A i \in 1..((k - 1) + 1) : a[i] = d[(1 + i) - 1]
    BY <2>1, PartFacts
  <2> HIDE DEF a
  <2> QED BY <2>1, <2>2
<1>4. e \in Seq(Byte) /\ Len(e) = Len(d) - k /\ \A i \in 1..Len(e) : e[i] = d[k + i]
  <2>1. k + 1 \in 1..(Len(d) + 1) /\ Len(d) \in ((k + 1) - 1)..Len(d) /\ (Len(d) - (k + 1)) + 1 = Len(d) - k
        /\ \A i \in 1..(Len(d) - k) : ((k + 1) + i) - 1 = k + i
    BY <1>1
  <2>2. /\ e \in Seq(Byte) /\ Len(e) = (Len(d) - (k + 1)) + 1
        /\ \A i \in 1..((Len(d) - (k + 1)) + 1) : e[i] = d[((k + 1) + i) - 1]
    BY <2>1, PartFacts
  <2> HIDE DEF e
  <2> QED BY <2>1, <2>2
<1> HIDE DEF a, e
<1>5. /\ x \in Seq(Byte) /\ Len(x) = Len(b) + k
      /\ \A i \in 1..(Len(b) + k) : x[i] = IF i <= Len(b) THEN b[i] ELSE a[i - Len(b)]
  <2>1. /\ x \in Seq(Byte) /\ Len(x) = Len(b) + Len(a)
        /\ \A i \in 1..(Len(b) + Len(a)) : x[i] = IF i <= Len(b) THEN b[i] ELSE a[i - Len(b)]
    BY <1>3, ConcatProperties
  <2> QED BY <1>3, <2>1
<1>6. InOrder(c, n, sent)
  OBVIOUS
<1> HIDE DEF c, x, n
<1>7. ASSUME NEW i \in 1..Len(x) PROVE i \in 1..Len(c) /\ x[i] = c[i]
  <2>1. i \in 1..(Len(b) + k) /\ i \in 1..(Len(b) + Len(d)) /\ i \in 1..Len(c)
    BY <1>1, <1>2, <1>5
  <2>2. CASE i <= Len(b)
    BY <1>2, <1>5, <2>1, <2>2
  <2>3. CASE ~(i <= Len(b))
    <3>1. i - Len(b) \in 1..k
      BY <1>1, <2>1, <2>3
    <3> QED BY <1>2, <1>3, <1>5, <2>1, <2>3, <3>1
  <2> QED BY <2>2, <2>3
<1>8. InOrder(x, n, sent)
  <2> DEFINE f == SubSeq(c, 1, Len(x))
  <2>1. Len(x) \in Nat /\ Len(x) \in 0..Len(c) /\ 1 \in 1..(Len(c) + 1) /\ Len(x) \in (1 - 1)..Len(c) /\ (Len(x) - 1) + 1 = Len(x)
        /\ \A i \in 1..Len(x) : (1 + i) - 1 = i
    BY <1>1, <1>2, <1>5
  <2>2. InOrder(f, n, sent)
    BY <1>1, <1>2, <1>6, <2>1, InOrderFront
  <2>3. /\ f \in Seq(Byte) /\ Len(f) = (Len(x) - 1) + 1
        /\ \A i \in 1..((Len(x) - 1) + 1) : f[i] = c[(1 + i) - 1]
    BY <1>2, <2>1, PartFacts
  <2> HIDE DEF f
  <2>4. Len(f) = Len(x) /\ \A i \in 1..Len(f) : f[i] = x[i]
    BY <1>7, <2>1, <2>3
  <2>5. f = x
    BY <1>5, <2>3, <2>4, SeqEqual
  <2> QED BY <2>2, <2>5
<1>9. FindsPackets(x, n, sent) /\ r \in Found
  <2>1. n \in 0..Len(sent)
    BY <1>1
  <2> QED BY <1>5, <1>8, <2>1, FramingFinds, FramedIsLoop
<1>10. PICK j \in 0..Len(x), m \in n..Len(sent) :
          /\ r.rest = SubSeq(x, j + 1, Len(x)) /\ Incomplete(r.rest)
          /\ Len(r.packets) = m - n
          /\ \A i \in 1..(m - n) : r.packets[i] = sent[n + i]
          /\ Boundary(x, n, j, m)
  BY <1>9 DEF FindsPackets
<1> HIDE DEF r
<1>11. j \in Nat /\ m \in Nat /\ n <= m /\ m <= Len(sent) /\ j \in 0..Len(c) /\ j <= Len(x) /\ Len(x) \in Nat
  BY <1>1, <1>2, <1>5, <1>10
<1>12. r.packets \in Seq(Packets) /\ Len(r.packets) = m - n
  <2> DEFINE ps == r.packets
  <2>1. ps \in Seq(Packets \cup {Garbage}) /\ Len(ps) = m - n /\ \A i \in 1..(m - n) : ps[i] = sent[n + i]
    BY <1>9, <1>10 DEF Found
  <2>2. \A i \in 1..(m - n) : n + i \in 1..Len(sent)
    BY <1>1, <1>11
  <2>3. \A i \in 1..Len(ps) : ps[i] \in Packets
    BY <2>1, <2>2
  <2> HIDE DEF ps
  <2>4. ps \in Seq(Packets)
    BY <2>1, <2>3, LenProperties
  <2> QED BY <2>1, <2>4 DEF ps
<1>13. h \in Seq(Packets) /\ Len(h) = m /\ Handled(h, sent)
  <2> DEFINE ps == r.packets
  <2>1. ps \in Seq(Packets) /\ Len(ps) = m - n /\ \A i \in 1..(m - n) : ps[i] = sent[n + i]
    BY <1>10, <1>12
  <2>2. h = handled \o ps
    OBVIOUS
  <2> HIDE DEF ps, h
  <2>3. /\ h \in Seq(Packets) /\ Len(h) = n + Len(ps)
        /\ \A i \in 1..(n + Len(ps)) : h[i] = IF i <= n THEN handled[i] ELSE ps[i - n]
    BY <2>1, <2>2, ConcatProperties DEF n
  <2>4. Len(h) = m
    BY <1>1, <1>11, <2>1, <2>3
  <2>5. ASSUME NEW i \in 1..Len(h) PROVE h[i] = sent[i]
    <3>1. i \in 1..(n + Len(ps))
      BY <2>3
    <3>2. CASE i <= n
      BY <1>1, <2>3, <3>1, <3>2
    <3>3. CASE ~(i <= n)
      <4>1. i - n \in 1..(m - n) /\ n + (i - n) = i
        BY <1>1, <1>11, <2>1, <3>1, <3>3
      <4> QED BY <2>1, <2>3, <3>1, <3>3, <4>1
    <3> QED BY <3>2, <3>3
  <2> QED BY <1>11, <2>3, <2>4, <2>5 DEF Handled, h
<1>14. Boundary(c, n, j, m)
  <2>1. CASE j = 0
    BY <1>10, <2>1 DEF Boundary
  <2>2. CASE j # 0
    <3>1. j \in 1..Len(x)
      BY <1>11, <2>2
    <3>2. x[j] = c[j]
      BY <1>7, <3>1
    <3> QED BY <1>10, <2>2, <3>2 DEF Boundary
  <2> QED BY <2>1, <2>2
<1> DEFINE f == SubSeq(c, j + 1, Len(c))
<1>15. /\ f \in Seq(Byte) /\ Len(f) = Len(c) - j /\ \A i \in 1..Len(f) : f[i] = c[j + i]
       /\ InOrder(f, m, sent)
       /\ DueNo(f, Len(f) + 1, m) = DueNo(c, Len(c) + 1, n) /\ DueAt(f, Len(f) + 1) = DueAt(c, Len(c) + 1)
  BY <1>1, <1>2, <1>6, <1>11, <1>14, InOrderBack
<1> HIDE DEF f
<1>16. r.rest \in Seq(Byte) /\ Len(r.rest) = Len(x) - j /\ \A i \in 1..Len(r.rest) : r.rest[i] = x[j + i]
  <2> DEFINE g == SubSeq(x, j + 1, Len(x))
  <2>1. j + 1 \in 1..(Len(x) + 1) /\ Len(x) \in ((j + 1) - 1)..Len(x) /\ (Len(x) - (j + 1)) + 1 = Len(x) - j
        /\ \A i \in 1..(Len(x) - j) : ((j + 1) + i) - 1 = j + i
    BY <1>11
  <2>2. /\ g \in Seq(Byte) /\ Len(g) = (Len(x) - (j + 1)) + 1
        /\ \A i \in 1..((Len(x) - (j + 1)) + 1) : g[i] = x[((j + 1) + i) - 1]
    <3>1. x \in Seq(Byte)
      BY <1>5
    <3> QED BY <2>1, <3>1, PartFacts
  <2>3. r.rest = g
    BY <1>10
  <2> HIDE DEF g
  <2> QED BY <2>1, <2>2, <2>3
<1>17. r.rest \o e = f
  <2> DEFINE t == r.rest
             g == t \o e
  <2>1. t \in Seq(Byte) /\ Len(t) = Len(x) - j /\ \A i \in 1..Len(t) : t[i] = x[j + i]
    BY <1>16
  <2> HIDE DEF t
  <2>2. /\ g \in Seq(Byte) /\ Len(g) = Len(t) + Len(e)
        /\ \A i \in 1..(Len(t) + Len(e)) : g[i] = IF i <= Len(t) THEN t[i] ELSE e[i - Len(t)]
    BY <1>4, <2>1, ConcatProperties
  <2> HIDE DEF g
  <2>3. Len(g) = Len(f)
    BY <1>1, <1>2, <1>4, <1>5, <1>11, <1>15, <2>1, <2>2
  <2>4. ASSUME NEW i \in 1..Len(g) PROVE g[i] = f[i]
    <3>1. i \in 1..(Len(t) + Len(e)) /\ i \in 1..Len(f) /\ f[i] = c[j + i] /\ i \in Nat /\ Len(t) \in Nat
      <4>1. i \in 1..(Len(t) + Len(e)) /\ i \in 1..Len(f)
        BY <2>2, <2>3
      <4>2. f[i] = c[j + i]
        BY <1>15, <4>1
      <4>3. Len(t) \in Nat
        BY <2>1
      <4>4. Len(f) \in Nat
        BY <1>15
      <4> QED BY <4>1, <4>2, <4>3, <4>4
    <3>2. CASE i <= Len(t)
      <4>1. i \in 1..Len(t) /\ j + i \in 1..Len(x)
        BY <1>11, <2>1, <3>1, <3>2
      <4> QED BY <1>7, <2>1, <2>2, <3>1, <3>2, <4>1
    <3>3. CASE ~(i <= Len(t))
      <4>1. i - Len(t) \in 1..Len(e) /\ k + (i - Len(t)) = (j + i) - Len(b) /\ ~(j + i <= Len(b)) /\ j + i \in 1..(Len(b) + Len(d))
        <5>1. Len(e) = Len(d) - k /\ Len(x) = Len(b) + k /\ Len(t) = Len(x) - j
          BY <1>4, <1>5, <2>1
        <5>2. i \in 1..(Len(t) + Len(e)) /\ i \in Nat /\ Len(t) \in Nat /\ Len(b) \in Nat /\ Len(d) \in Nat
              /\ k \in Nat /\ j \in Nat /\ 1 <= k /\ k <= Len(d) /\ j <= Len(x)
          BY <1>1, <1>11, <3>1
        <5> QED BY <3>3, <5>1, <5>2
      <4>2. g[i] = e[i - Len(t)] /\ e[i - Len(t)] = d[k + (i - Len(t))]
        BY <1>4, <2>2, <3>1, <3>3, <4>1
      <4>3. c[j + i] = d[(j + i) - Len(b)]
        BY <1>2, <4>1
      <4> QED BY <3>1, <4>1, <4>2, <4>3
    <3> QED BY <3>2, <3>3
  <2>5. g = f
    BY <1>15, <2>2, <2>3, <2>4, SeqEqual
  <2> QED BY <2>5 DEF g, t
<1>18. ASSUME NEW S, Pending(S, c, n, sent) PROVE Pending(S, f, m, sent)
  <2> HIDE DEF DueNo, DueAt
  <2> QED BY <1>15, <1>18 DEF Pending
<1>19. /\ InOrder(r.rest \o e, Len(h), sent)
       /\ \A S : Pending(S, c, n, sent) => Pending(S, r.rest \o e, Len(h), sent)
  <2> HIDE DEF h
  <2> QED BY <1>13, <1>15, <1>17, <1>18
<1> QED BY <1>4, <1>10, <1>12, <1>13, <1>16, <1>19 DEF a, c, e, h, n, r, x

-----------------------------------------------------------------------------
(* Writing. *)

\* The byte that is due at the end is one of the packets sent, or the first of
\* the next one.
LEMMA DueAtEnd ==
  ASSUME NEW sent \in Seq(Packets), NEW n \in 0..Len(sent), NEW c \in Seq(Byte), InOrder(c, n, sent)
  PROVE  /\ DueNo(c, Len(c) + 1, n) \in 1..(Len(sent) + 1)
         /\ DueAt(c, Len(c) + 1) \in Nat \ {0}
         /\ DueNo(c, Len(c) + 1, n) = Len(sent) + 1 => DueAt(c, Len(c) + 1) = 1
<1>1. Len(c) \in Nat /\ Len(sent) \in Nat
  OBVIOUS
<1>2. CASE Len(c) = 0
  BY <1>1, <1>2 DEF DueNo, DueAt
<1>3. CASE Len(c) # 0
  <2> DEFINE z == c[Len(c)]
  <2>1. Len(c) \in 1..Len(c) /\ Len(c) + 1 # 1 /\ (Len(c) + 1) - 1 = Len(c)
    BY <1>1, <1>3
  <2>2. z.no \in 1..Len(sent) /\ z.at <= z.length
    BY <2>1 DEF InOrder
  <2>3. z \in Byte
    BY <2>1
  <2>4. z.at \in Nat \ {0} /\ z.length \in Nat
    BY <2>3, ByteFacts
  <2>5. /\ DueNo(c, Len(c) + 1, n) = IF z.at < z.length THEN z.no ELSE z.no + 1
        /\ DueAt(c, Len(c) + 1) = IF z.at < z.length THEN z.at + 1 ELSE 1
    BY <2>1 DEF DueNo, DueAt
  <2> HIDE DEF z
  <2> QED BY <1>1, <2>2, <2>4, <2>5
<1> QED BY <1>2, <1>3

\* Another packet is to be written.
LEMMA SendInOrder ==
  ASSUME NEW sent \in Seq(Packets), Numbered(sent), NEW n \in 0..Len(sent), NEW c \in Seq(Byte),
         InOrder(c, n, sent), NEW S, Pending(S, c, n, sent),
         NEW p \in Packets, p.no = Len(sent) + 1
  PROVE  Pending(S \cup {Bytes(p)}, c, n, Append(sent, p)) /\ Bytes(p) \notin S
<1> DEFINE all == Append(sent, p)
           x == Bytes(p)
           due == DueNo(c, Len(c) + 1, n)
           at == DueAt(c, Len(c) + 1)
           T == S \cup {x}
<1>1. /\ Len(sent) \in Nat /\ all \in Seq(Packets) /\ Len(all) = Len(sent) + 1
      /\ \A i \in 1..Len(sent) : all[i] = sent[i]
      /\ all[Len(sent) + 1] = p
  BY AppendProperties
<1>2. /\ due \in 1..(Len(sent) + 1) /\ at \in Nat \ {0} /\ (due = Len(sent) + 1 => at = 1)
  BY DueAtEnd
<1>3. /\ \A y \in S : IsPiece(y, sent) /\ y[1].no >= due /\ y[1].at = IF y[1].no = due THEN at ELSE 1
      /\ \A y, z \in S : y[1].no = z[1].no => y = z
      /\ \A k \in due..Len(sent) : \E y \in S : y[1].no = k
  BY DEF Pending
<1>4. /\ x \in Seq(Byte) /\ Len(x) = p.length /\ p.length \in Nat \ {0}
      /\ \A k \in 1..p.length : x[k] = [no |-> p.no, length |-> p.length, at |-> k]
  BY BytesFacts, ByteFacts
<1> HIDE DEF all, x, due, at
<1>5. x[1] = [no |-> p.no, length |-> p.length, at |-> 1] /\ 1 \in 1..p.length
  BY <1>4
<1>6. IsPiece(x, all)
  <2>1. x # <<>> /\ x[1].no \in 1..Len(all) /\ x[1].length = all[x[1].no].length /\ x[1].at + Len(x) = x[1].length + 1
    BY <1>1, <1>4, <1>5
  <2>2. \A k \in 1..Len(x) : 1 + (k - 1) = k
    BY <1>4
  <2>3. \A k \in 1..Len(x) : x[k] = [no |-> x[1].no, length |-> x[1].length, at |-> x[1].at + (k - 1)]
    BY <1>4, <1>5, <2>2
  <2> QED BY <2>1, <2>3 DEF IsPiece
<1>7. \A y \in S : y[1].no \in 1..Len(sent)
  BY <1>3 DEF IsPiece
<1>8. ASSUME NEW y \in S PROVE IsPiece(y, all)
  <2>1. /\ y # <<>> /\ y[1].no \in 1..Len(sent)
        /\ y[1].at + Len(y) = y[1].length + 1 /\ y[1].length = sent[y[1].no].length
        /\ \A k \in 1..Len(y) : y[k] = [no |-> y[1].no, length |-> y[1].length, at |-> y[1].at + (k - 1)]
    BY <1>3 DEF IsPiece
  <2>2. y[1].no \in 1..Len(all) /\ y[1].length = all[y[1].no].length
    BY <1>1, <2>1
  <2> QED BY <2>1, <2>2 DEF IsPiece
<1>9. x[1].no = Len(sent) + 1 /\ x[1].at = 1 /\ x \notin S
  <2>1. x[1].no = Len(sent) + 1 /\ x[1].at = 1
    BY <1>5
  <2> QED BY <1>1, <1>7, <2>1
<1>10. \A y \in T : IsPiece(y, all) /\ y[1].no >= due /\ y[1].at = IF y[1].no = due THEN at ELSE 1
  <2>1. x[1].no >= due /\ x[1].at = IF x[1].no = due THEN at ELSE 1
    BY <1>1, <1>2, <1>9
  <2> QED BY <1>3, <1>6, <1>8, <2>1
<1>11. \A y, z \in T : y[1].no = z[1].no => y = z
  BY <1>1, <1>3, <1>7, <1>9
<1>12. \A k \in due..Len(all) : \E y \in T : y[1].no = k
  <2> SUFFICES ASSUME NEW k \in due..Len(all) PROVE \E y \in T : y[1].no = k
    OBVIOUS
  <2>1. CASE k = Len(sent) + 1
    BY <1>9, <2>1
  <2>2. CASE k # Len(sent) + 1
    <3>1. k \in due..Len(sent)
      BY <1>1, <1>2, <2>2
    <3> QED BY <1>3, <3>1
  <2> QED BY <2>1, <2>2
<1>13. Pending(T, c, n, all)
  BY <1>10, <1>11, <1>12 DEF Pending, due, at
<1> QED BY <1>9, <1>13 DEF all, x

\* The first k bytes of the first piece are written.
LEMMA WriteInOrder ==
  ASSUME NEW sent \in Seq(Packets), NEW n \in 0..Len(sent), NEW c \in Seq(Byte),
         InOrder(c, n, sent), NEW S, Pending(S, c, n, sent),
         NEW x \in S, x \in Seq(Byte), \A y \in S : ~(y[1].no < x[1].no), NEW k \in 1..Len(x)
  PROVE  LET e == SubSeq(x, k + 1, Len(x))
             T == (S \ {x}) \cup (IF k = Len(x) THEN {} ELSE {e})
         IN  /\ InOrder(c \o SubSeq(x, 1, k), n, sent)
             /\ Pending(T, c \o SubSeq(x, 1, k), n, sent)
             /\ k # Len(x) => e \notin S \ {x}
<1> DEFINE a == SubSeq(x, 1, k)
           e == SubSeq(x, k + 1, Len(x))
           d == c \o a
           due == DueNo(c, Len(c) + 1, n)
           at == DueAt(c, Len(c) + 1)
           T == (S \ {x}) \cup (IF k = Len(x) THEN {} ELSE {e})
<1>1. Len(x) \in Nat /\ Len(c) \in Nat /\ Len(sent) \in Nat /\ k \in Nat /\ 1 <= k /\ k <= Len(x)
  OBVIOUS
<1>2. a \in Seq(Byte) /\ Len(a) = k /\ \A i \in 1..k : a[i] = x[i]
  <2>1. 1 \in 1..(Len(x) + 1) /\ k \in (1 - 1)..Len(x) /\ (k - 1) + 1 = k /\ \A i \in 1..k : (1 + i) - 1 = i
    BY <1>1
  <2>2. /\ a \in Seq(Byte) /\ Len(a) = (k - 1) + 1
        /\ \A i \in 1..((k - 1) + 1) : a[i] = x[(1 + i) - 1]
    BY <2>1, PartFacts
  <2> HIDE DEF a
  <2> QED BY <2>1, <2>2
<1>3. e \in Seq(Byte) /\ Len(e) = Len(x) - k /\ \A i \in 1..Len(e) : e[i] = x[k + i]
  <2>1. k + 1 \in 1..(Len(x) + 1) /\ Len(x) \in ((k + 1) - 1)..Len(x) /\ (Len(x) - (k + 1)) + 1 = Len(x) - k
        /\ \A i \in 1..(Len(x) - k) : ((k + 1) + i) - 1 = k + i
    BY <1>1
  <2>2. /\ e \in Seq(Byte) /\ Len(e) = (Len(x) - (k + 1)) + 1
        /\ \A i \in 1..((Len(x) - (k + 1)) + 1) : e[i] = x[((k + 1) + i) - 1]
    BY <2>1, PartFacts
  <2> HIDE DEF e
  <2> QED BY <2>1, <2>2
<1> HIDE DEF a, e
<1>4. /\ d \in Seq(Byte) /\ Len(d) = Len(c) + k
      /\ \A i \in 1..(Len(c) + k) : d[i] = IF i <= Len(c) THEN c[i] ELSE a[i - Len(c)]
  <2>1. /\ d \in Seq(Byte) /\ Len(d) = Len(c) + Len(a)
        /\ \A i \in 1..(Len(c) + Len(a)) : d[i] = IF i <= Len(c) THEN c[i] ELSE a[i - Len(c)]
    BY <1>2, ConcatProperties
  <2> QED BY <1>2, <2>1
<1> HIDE DEF d
<1>5. /\ \A i \in 1..Len(c) : i \in 1..Len(d) /\ d[i] = c[i]
      /\ \A i \in 1..k : Len(c) + i \in 1..Len(d) /\ d[Len(c) + i] = x[i]
  <2>1. ASSUME NEW i \in 1..k PROVE Len(c) + i \in 1..Len(d) /\ d[Len(c) + i] = x[i]
    <3>1. Len(c) + i \in 1..(Len(c) + k) /\ ~(Len(c) + i <= Len(c)) /\ (Len(c) + i) - Len(c) = i
      BY <1>1
    <3> QED BY <1>2, <1>4, <3>1
  <2>2. ASSUME NEW i \in 1..Len(c) PROVE i \in 1..Len(d) /\ d[i] = c[i]
    <3>1. i \in 1..(Len(c) + k) /\ i <= Len(c)
      BY <1>1
    <3> QED BY <1>4, <3>1
  <2> QED BY <2>1, <2>2
<1>6. /\ due \in 1..(Len(sent) + 1) /\ at \in Nat \ {0}
  BY DueAtEnd
<1>7. /\ \A y \in S : IsPiece(y, sent) /\ y[1].no >= due /\ y[1].at = IF y[1].no = due THEN at ELSE 1
      /\ \A y, z \in S : y[1].no = z[1].no => y = z
      /\ \A j \in due..Len(sent) : \E y \in S : y[1].no = j
  BY DEF Pending
<1>8. \A y \in S : y[1].no \in 1..Len(sent)
  BY <1>7 DEF IsPiece
<1> DEFINE f == x[1]
<1>9. f.no = due /\ f.at = at /\ due \in 1..Len(sent)
  <2>1. f.no \in 1..Len(sent) /\ f.no >= due
    BY <1>7, <1>8
  <2>2. due \in due..Len(sent)
    BY <1>6, <2>1
  <2>3. PICK y \in S : y[1].no = due
    BY <1>7, <2>2
  <2>4. ~(due < f.no)
    BY <2>3
  <2>5. f.no = due
    BY <1>6, <2>1, <2>4
  <2> QED BY <1>7, <2>1, <2>5
<1>10. /\ f.at + Len(x) = f.length + 1 /\ f.length = sent[due].length
       /\ \A i \in 1..Len(x) : x[i] = [no |-> due, length |-> f.length, at |-> at + (i - 1)]
  <2>1. IsPiece(x, sent)
    BY <1>7
  <2> QED BY <1>9, <2>1 DEF IsPiece
<1>11. f.length \in Nat
  <2>1. x[1] \in Byte
    BY <1>1
  <2> QED BY <2>1, ByteFacts
<1>12. at + Len(x) = f.length + 1
  BY <1>9, <1>10
<1> HIDE DEF f, due, at
<1>13. InOrder(d, n, sent)
  <2> SUFFICES ASSUME NEW i \in 1..Len(d)
               PROVE  /\ d[i].no = DueNo(d, i, n) /\ d[i].at = DueAt(d, i)
                      /\ d[i].no \in 1..Len(sent) /\ d[i].at <= d[i].length
                      /\ d[i].length = sent[d[i].no].length
    BY DEF InOrder
  <2>0. i \in Nat \ {0} /\ i <= Len(c) + k
    BY <1>1, <1>4
  <2>1. CASE i <= Len(c)
    <3>1. i \in 1..Len(c) /\ d[i] = c[i] /\ (i > 1 => i - 1 \in 1..Len(c) /\ d[i - 1] = c[i - 1])
      BY <1>1, <1>5, <2>0, <2>1
    <3>2. DueNo(d, i, n) = DueNo(c, i, n) /\ DueAt(d, i) = DueAt(c, i)
      <4>1. i \in Nat \ {0}
        BY <2>0
      <4>2. i > 1 => d[i - 1] = c[i - 1]
        BY <3>1
      <4>3. CASE i = 1
        BY <4>3 DEF DueNo, DueAt
      <4>4. CASE i > 1
        <5>1. d[i - 1] = c[i - 1] /\ i # 1
          BY <4>1, <4>2, <4>4
        <5> QED BY <5>1 DEF DueNo, DueAt
      <4> QED BY <4>1, <4>3, <4>4
    <3>3. /\ c[i].no = DueNo(c, i, n) /\ c[i].at = DueAt(c, i)
          /\ c[i].no \in 1..Len(sent) /\ c[i].at <= c[i].length
          /\ c[i].length = sent[c[i].no].length
      BY <3>1 DEF InOrder
    <3> HIDE DEF DueNo, DueAt
    <3> QED BY <3>1, <3>2, <3>3
  <2>2. CASE ~(i <= Len(c))
    <3> DEFINE j == i - Len(c)
    <3>1. j \in 1..k /\ j \in 1..Len(x) /\ Len(c) + j = i
      BY <1>1, <2>0, <2>2
    <3>2. d[i] = [no |-> due, length |-> f.length, at |-> at + (j - 1)]
      BY <1>5, <1>10, <3>1
    <3>3. d[i].no = due /\ d[i].length = f.length /\ d[i].at = at + (j - 1)
      BY <3>2
    <3>4. at + (j - 1) <= f.length
      <4>1. at \in Nat /\ f.length \in Nat /\ Len(x) \in Nat /\ at + Len(x) = f.length + 1
        BY <1>1, <1>6, <1>11, <1>12
      <4>2. j \in Nat /\ 1 <= j /\ j <= Len(x)
        BY <1>1, <3>1
      <4> HIDE DEF j
      <4> QED BY <4>1, <4>2
    <3>5. due = DueNo(d, i, n) /\ at + (j - 1) = DueAt(d, i)
      <4>1. CASE j = 1
        <5>1. i = Len(c) + 1 /\ (i > 1 => d[i - 1] = c[i - 1])
          <6>1. i = Len(c) + 1
            BY <3>1, <4>1
          <6>2. i > 1 => i - 1 \in 1..Len(c)
            BY <1>1, <6>1
          <6> QED BY <1>5, <6>1, <6>2
        <5>2. DueNo(d, i, n) = DueNo(c, i, n) /\ DueAt(d, i) = DueAt(c, i)
          <6>1. i \in Nat \ {0}
            BY <2>0
          <6>2. i > 1 => d[i - 1] = c[i - 1]
            BY <5>1
          <6>3. CASE i = 1
            BY <6>3 DEF DueNo, DueAt
          <6>4. CASE i > 1
            <7>1. d[i - 1] = c[i - 1] /\ i # 1
              BY <6>1, <6>2, <6>4
            <7> QED BY <7>1 DEF DueNo, DueAt
          <6> QED BY <6>1, <6>3, <6>4
        <5> QED BY <1>6, <4>1, <5>1, <5>2 DEF due, at
      <4>2. CASE j # 1
        <5>1. j - 1 \in 1..k /\ j - 1 \in 1..Len(x) /\ Len(c) + (j - 1) = i - 1 /\ i # 1
          BY <1>1, <3>1, <4>2
        <5>2. d[i - 1] = [no |-> due, length |-> f.length, at |-> at + ((j - 1) - 1)]
          BY <1>5, <1>10, <5>1
        <5>3. d[i - 1].no = due /\ d[i - 1].length = f.length /\ d[i - 1].at = at + ((j - 1) - 1)
          BY <5>2
        <5>4. at + ((j - 1) - 1) < f.length /\ (at + ((j - 1) - 1)) + 1 = at + (j - 1)
          BY <1>6, <1>11, <3>1, <3>4
        <5> QED BY <5>1, <5>3, <5>4 DEF DueNo, DueAt
      <4> QED BY <4>1, <4>2
    <3> HIDE DEF j, DueNo, DueAt
    <3> QED BY <1>9, <1>10, <3>3, <3>4, <3>5
  <2> QED BY <2>1, <2>2
<1> DEFINE due2 == DueNo(d, Len(d) + 1, n)
           at2 == DueAt(d, Len(d) + 1)
<1>14. IF k = Len(x) THEN due2 = due + 1 /\ at2 = 1 ELSE due2 = due /\ at2 = at + k
  <2>1. k \in 1..k /\ k \in 1..Len(x) /\ Len(c) + k = Len(d) /\ Len(d) + 1 # 1 /\ (Len(d) + 1) - 1 = Len(d)
    BY <1>1, <1>4
  <2>2. d[Len(d)] = [no |-> due, length |-> f.length, at |-> at + (k - 1)]
    BY <1>5, <1>10, <2>1
  <2>3. d[Len(d)].no = due /\ d[Len(d)].length = f.length /\ d[Len(d)].at = at + (k - 1)
    BY <2>2
  <2>4. /\ k = Len(x) => ~(at + (k - 1) < f.length)
        /\ k # Len(x) => at + (k - 1) < f.length /\ (at + (k - 1)) + 1 = at + k
    BY <1>1, <1>6, <1>11, <1>12
  <2>5. /\ due2 = IF d[Len(d)].at < d[Len(d)].length THEN d[Len(d)].no ELSE d[Len(d)].no + 1
        /\ at2 = IF d[Len(d)].at < d[Len(d)].length THEN d[Len(d)].at + 1 ELSE 1
    BY <2>1 DEF DueNo, DueAt
  <2> HIDE DEF due2, at2
  <2> QED BY <2>3, <2>4, <2>5
<1> HIDE DEF due2, at2
<1>15. k # Len(x) => /\ IsPiece(e, sent) /\ e[1].no = due /\ e[1].at = at + k
  <2> SUFFICES ASSUME k # Len(x) PROVE IsPiece(e, sent) /\ e[1].no = due /\ e[1].at = at + k
    OBVIOUS
  <2>1. Len(e) = Len(x) - k /\ Len(e) \in Nat \ {0} /\ k + 1 \in 1..Len(x) /\ 1 \in 1..Len(e) /\ at + ((k + 1) - 1) = at + k
    BY <1>1, <1>3, <1>6
  <2>2. e[1] = [no |-> due, length |-> f.length, at |-> at + k]
    BY <1>3, <1>10, <2>1
  <2>3. e[1].no = due /\ e[1].length = f.length /\ e[1].at = at + k
    BY <2>2
  <2>4. ASSUME NEW i \in 1..Len(e) PROVE e[i] = [no |-> due, length |-> f.length, at |-> (at + k) + (i - 1)]
    <3>1. k + i \in 1..Len(x) /\ at + ((k + i) - 1) = (at + k) + (i - 1)
      BY <1>1, <1>6, <2>1
    <3> QED BY <1>3, <1>10, <3>1
  <2>5. (at + k) + Len(e) = f.length + 1
    BY <1>1, <1>6, <1>11, <1>12, <2>1
  <2>6. e # <<>>
    BY <2>1
  <2> QED BY <1>9, <1>10, <2>3, <2>4, <2>5, <2>6 DEF IsPiece
<1>16. \A y \in S \ {x} : y[1].no > due /\ y[1].at = 1
  <2> SUFFICES ASSUME NEW y \in S \ {x} PROVE y[1].no > due /\ y[1].at = 1
    OBVIOUS
  <2>1. y[1].no # due /\ y[1].no >= due /\ y[1].no \in 1..Len(sent)
    BY <1>7, <1>8, <1>9 DEF f
  <2> QED BY <1>6, <1>7, <2>1
<1>17. Pending(T, d, n, sent)
  <2>1. ASSUME NEW y \in T
        PROVE  IsPiece(y, sent) /\ y[1].no >= due2 /\ y[1].at = IF y[1].no = due2 THEN at2 ELSE 1
    <3>1. CASE y \in S \ {x}
      <4>1. IsPiece(y, sent) /\ y[1].no \in 1..Len(sent)
        BY <1>7, <1>8, <3>1
      <4>2. y[1].no > due /\ y[1].at = 1
        BY <1>16, <3>1
      <4> QED BY <1>6, <1>14, <4>1, <4>2
    <3>2. CASE k # Len(x) /\ y = e
      BY <1>6, <1>14, <1>15, <3>2
    <3> QED BY <3>1, <3>2
  <2>2. ASSUME NEW y \in T, NEW z \in T, y[1].no = z[1].no PROVE y = z
    <3>1. CASE y \in S \ {x} /\ z \in S \ {x}
      BY <1>7, <2>2, <3>1
    <3>2. CASE ~(y \in S \ {x} /\ z \in S \ {x})
      <4>1. k # Len(x) /\ e[1].no = due
        BY <1>15, <3>2
      <4>2. \A w \in S \ {x} : w[1].no # due
        BY <1>6, <1>8, <1>16
      <4> QED BY <2>2, <3>2, <4>1, <4>2
    <3> QED BY <3>1, <3>2
  <2>3. ASSUME NEW j \in due2..Len(sent) PROVE \E y \in T : y[1].no = j
    <3>0. due2 \in Nat /\ j \in Nat /\ j <= Len(sent) /\ j >= due2
      BY <1>1, <1>6, <1>14
    <3>1. CASE j = due
      <4>1. k # Len(x)
        BY <1>6, <1>14, <3>0, <3>1
      <4> QED BY <1>15, <3>1, <4>1
    <3>2. CASE j # due
      <4>1. j \in due..Len(sent) /\ j > due
        BY <1>1, <1>6, <1>14, <3>0, <3>2
      <4>2. PICK y \in S : y[1].no = j
        BY <1>7, <4>1
      <4>3. y # x
        BY <1>9, <3>2, <4>2 DEF f
      <4> QED BY <4>2, <4>3
    <3> QED BY <3>1, <3>2
  <2> HIDE DEF T
  <2> QED BY <2>1, <2>2, <2>3 DEF Pending, due2, at2
<1>18. k # Len(x) => e \notin S \ {x}
  BY <1>6, <1>15, <1>16, <1>8
<1> QED BY <1>13, <1>17, <1>18 DEF d, a, e

-----------------------------------------------------------------------------
(* The writes that are posted, u, and the rests of others, v. *)

\* A write is posted.
LEMMA WritePosted ==
  ASSUME NEW S, NEW u \in Seq(S), NEW v \in Seq(S), NEW x \in S
  PROVE  /\ Range(Append(u, x) \o v) = Range(u \o v) \cup {x}
         /\ IsInjective(u \o v) /\ x \notin Range(u \o v) => IsInjective(Append(u, x) \o v)
<1> DEFINE P == u \o v
           w == Append(u, x)
           Q == w \o v
           a == Len(u)
           b == Len(v)
<1>1. a \in Nat /\ b \in Nat
  OBVIOUS
<1>2. P \in Seq(S) /\ Len(P) = a + b /\ \A i \in 1..(a + b) : P[i] = IF i <= a THEN u[i] ELSE v[i - a]
  BY ConcatProperties
<1>3. w \in Seq(S) /\ Len(w) = a + 1 /\ (\A i \in 1..a : w[i] = u[i]) /\ w[a + 1] = x
  BY AppendProperties
<1> HIDE DEF w, P
<1>4. Q \in Seq(S) /\ Len(Q) = Len(w) + b /\ \A i \in 1..(Len(w) + b) : Q[i] = IF i <= Len(w) THEN w[i] ELSE v[i - Len(w)]
  BY <1>3, ConcatProperties
<1>5. DOMAIN P = 1..(a + b) /\ DOMAIN Q = 1..((a + b) + 1)
  <2>1. Len(Q) = (a + b) + 1
    BY <1>1, <1>3, <1>4
  <2> HIDE DEF Q
  <2> QED BY <1>2, <1>4, <2>1, LenProperties
<1>6. Q \in Seq(S) /\ \A i \in 1..((a + b) + 1) : Q[i] = IF i <= a + 1 THEN w[i] ELSE v[i - (a + 1)]
  <2>1. Len(w) + b = (a + b) + 1 /\ Len(w) = a + 1
    BY <1>1, <1>3
  <2> HIDE DEF Q
  <2> QED BY <1>4, <2>1
<1> HIDE DEF Q, a, b
<1> DEFINE shift(i) == IF i <= a THEN i ELSE i + 1
<1>7. Q[a + 1] = x /\ a + 1 \in DOMAIN Q
  BY <1>1, <1>3, <1>5, <1>6
<1>8. ASSUME NEW i \in 1..(a + b) PROVE shift(i) \in 1..((a + b) + 1) /\ Q[shift(i)] = P[i] /\ shift(i) # a + 1
  <2>1. CASE i <= a
    <3>1. shift(i) = i /\ i \in 1..a /\ i \in 1..((a + b) + 1) /\ i <= a + 1
      BY <1>1, <2>1
    <3> QED BY <1>1, <1>2, <1>3, <1>6, <2>1, <3>1
  <2>2. CASE ~(i <= a)
    <3>1. shift(i) = i + 1 /\ i + 1 \in 1..((a + b) + 1) /\ ~(i + 1 <= a + 1) /\ (i + 1) - (a + 1) = i - a /\ i + 1 # a + 1
      BY <1>1, <2>2
    <3>2. Q[i + 1] = v[i - a] /\ P[i] = v[i - a]
      BY <1>2, <1>6, <2>2, <3>1
    <3> QED BY <3>1, <3>2
  <2> QED BY <2>1, <2>2
<1>9. ASSUME NEW i \in 1..((a + b) + 1), i # a + 1 PROVE \E j \in 1..(a + b) : i = shift(j)
  <2>1. CASE i <= a
    <3>1. i \in 1..(a + b) /\ i = shift(i)
      BY <1>1, <2>1
    <3> QED BY <3>1
  <2>2. CASE ~(i <= a)
    <3>1. i - 1 \in 1..(a + b) /\ i = shift(i - 1)
      BY <1>1, <1>9, <2>2
    <3> QED BY <3>1
  <2> QED BY <2>1, <2>2
<1>10. \A i, j \in 1..(a + b) : i = j => shift(i) = shift(j)
  OBVIOUS
<1> HIDE DEF shift
<1>11. Range(Q) = Range(P) \cup {x}
  <2>1. \A y : y \in Range(Q) <=> \E i \in 1..((a + b) + 1) : Q[i] = y
    BY <1>5 DEF Range
  <2>2. \A y : y \in Range(P) <=> \E i \in 1..(a + b) : P[i] = y
    BY <1>5 DEF Range
  <2>3. a + 1 \in 1..((a + b) + 1)
    BY <1>5, <1>7
  <2>4. ASSUME NEW y \in Range(Q) PROVE y \in Range(P) \cup {x}
    BY <1>7, <1>8, <1>9, <2>1, <2>2
  <2>5. ASSUME NEW y \in Range(P) \cup {x} PROVE y \in Range(Q)
    BY <1>7, <1>8, <2>1, <2>2, <2>3
  <2> QED BY <2>4, <2>5
<1>12. ASSUME IsInjective(P), x \notin Range(P) PROVE IsInjective(Q)
  <2>1. \A i, j \in 1..(a + b) : P[i] = P[j] => i = j
    BY <1>5, <1>12 DEF IsInjective
  <2>2. \A i \in 1..(a + b) : P[i] # x
    BY <1>5, <1>12 DEF Range
  <2>3. ASSUME NEW i \in 1..((a + b) + 1), NEW j \in 1..((a + b) + 1), Q[i] = Q[j] PROVE i = j
    BY <1>7, <1>8, <1>9, <1>10, <2>1, <2>2, <2>3
  <2> QED BY <1>5, <2>3 DEF IsInjective
<1> QED BY <1>11, <1>12 DEF P, Q, w

\* The rest of a write is posted again.
LEMMA RestPosted ==
  ASSUME NEW S, NEW u \in Seq(S), NEW v \in Seq(S), v # <<>>
  PROVE  Append(u, Head(v)) \o Tail(v) = u \o v
<1> DEFINE one == <<Head(v)>>
           t == Tail(v)
<1>1. Head(v) \in S /\ one \in Seq(S) /\ t \in Seq(S) /\ v = one \o t
  BY HeadTailProperties
<1>2. Append(u, Head(v)) = u \o one
  BY <1>1, AppendIsConcat
<1> HIDE DEF one, t
<1>3. (u \o one) \o t = u \o (one \o t)
  BY <1>1, ConcatAssociative
<1> QED BY <1>1, <1>2, <1>3 DEF t

\* The first write is taken.
LEMMA WriteTaken ==
  ASSUME NEW S, NEW u \in Seq(S), NEW v \in Seq(S), u # <<>>
  PROVE  /\ Range(u \o v) = Range(Tail(u) \o v) \cup {Head(u)}
         /\ IsInjective(u \o v) => IsInjective(Tail(u) \o v) /\ Head(u) \notin Range(Tail(u) \o v)
<1> DEFINE P == u \o v
           t == Tail(u)
           Q == t \o v
           a == Len(t)
           b == Len(v)
<1>1. t \in Seq(S) /\ Len(u) = a + 1 /\ a \in Nat /\ b \in Nat /\ (\A i \in 1..a : t[i] = u[i + 1]) /\ u[1] = Head(u)
  BY HeadTailProperties
<1>2. /\ P \in Seq(S) /\ Len(P) = Len(u) + b
      /\ \A i \in 1..(Len(u) + b) : P[i] = IF i <= Len(u) THEN u[i] ELSE v[i - Len(u)]
  BY ConcatProperties
<1> HIDE DEF t, P
<1>3. /\ Q \in Seq(S) /\ Len(Q) = a + b
      /\ \A i \in 1..(a + b) : Q[i] = IF i <= a THEN t[i] ELSE v[i - a]
  BY <1>1, ConcatProperties
<1> HIDE DEF Q, a, b
<1>4. DOMAIN Q = 1..(a + b) /\ DOMAIN P = 1..((a + b) + 1)
  <2>1. Len(P) = (a + b) + 1
    BY <1>1, <1>2
  <2> QED BY <1>2, <1>3, <2>1, LenProperties
<1>5. \A i \in 1..((a + b) + 1) : P[i] = IF i <= a + 1 THEN u[i] ELSE v[i - (a + 1)]
  <2>1. Len(u) + b = (a + b) + 1 /\ Len(u) = a + 1
    BY <1>1
  <2> QED BY <1>2, <2>1
<1>6. P[1] = Head(u) /\ 1 \in 1..((a + b) + 1)
  BY <1>1, <1>5
<1>7. ASSUME NEW i \in 1..(a + b) PROVE i + 1 \in 1..((a + b) + 1) /\ P[i + 1] = Q[i] /\ i + 1 # 1
  <2>1. CASE i <= a
    <3>1. i \in 1..a /\ i + 1 \in 1..((a + b) + 1) /\ i + 1 <= a + 1
      BY <1>1, <2>1
    <3> QED BY <1>1, <1>3, <1>5, <2>1, <3>1
  <2>2. CASE ~(i <= a)
    <3>1. i + 1 \in 1..((a + b) + 1) /\ ~(i + 1 <= a + 1) /\ (i + 1) - (a + 1) = i - a /\ i + 1 # 1
      BY <1>1, <2>2
    <3> QED BY <1>3, <1>5, <2>2, <3>1
  <2> QED BY <2>1, <2>2
<1>8. ASSUME NEW i \in 1..((a + b) + 1), i # 1 PROVE i - 1 \in 1..(a + b) /\ Q[i - 1] = P[i]
  <2>1. i - 1 \in 1..(a + b) /\ (i - 1) + 1 = i
    BY <1>1, <1>8
  <2> QED BY <1>7, <2>1
<1>9. /\ \A y : y \in Range(Q) <=> \E i \in 1..(a + b) : Q[i] = y
      /\ \A y : y \in Range(P) <=> \E i \in 1..((a + b) + 1) : P[i] = y
  BY <1>4 DEF Range
<1>10. Range(P) = Range(Q) \cup {Head(u)}
  <2>1. ASSUME NEW y \in Range(P) PROVE y \in Range(Q) \cup {Head(u)}
    BY <1>6, <1>8, <1>9
  <2>2. ASSUME NEW y \in Range(Q) \cup {Head(u)} PROVE y \in Range(P)
    BY <1>6, <1>7, <1>9
  <2> QED BY <2>1, <2>2
<1>11. ASSUME IsInjective(P) PROVE IsInjective(Q) /\ Head(u) \notin Range(Q)
  <2>1. \A i, j \in 1..((a + b) + 1) : P[i] = P[j] => i = j
    BY <1>4, <1>11 DEF IsInjective
  <2>2. ASSUME NEW i \in 1..(a + b), NEW j \in 1..(a + b), Q[i] = Q[j] PROVE i = j
    <3>1. i + 1 = j + 1
      BY <1>7, <2>1, <2>2
    <3> QED BY <1>1, <3>1
  <2>3. IsInjective(Q)
    BY <1>4, <2>2 DEF IsInjective
  <2> QED BY <1>6, <1>7, <1>9, <2>1, <2>3
<1> QED BY <1>10, <1>11 DEF P, Q, t

\* The rest of the first write is kept for later.
LEMMA RestKept ==
  ASSUME NEW S, NEW t \in Seq(S), NEW v \in Seq(S), NEW x \in S
  PROVE  /\ Range(t \o Append(v, x)) = Range(t \o v) \cup {x}
         /\ IsInjective(t \o v) /\ x \notin Range(t \o v) => IsInjective(t \o Append(v, x))
<1> DEFINE q == t \o v
           one == <<x>>
           none == <<>>
<1>1. q \in Seq(S) /\ one \in Seq(S) /\ none \in Seq(S) /\ Append(q, x) \in Seq(S)
  OBVIOUS
<1>2. Append(v, x) = v \o one /\ Append(q, x) = q \o one
  BY <1>1, AppendIsConcat
<1>3. q \o none = q /\ Append(q, x) \o none = Append(q, x)
  BY <1>1, ConcatEmptySeq
<1> HIDE DEF none, one
<1>4. t \o (v \o one) = q \o one
  <2>1. one \in Seq(S)
    BY <1>1
  <2>2. (t \o v) \o one = t \o (v \o one)
    BY <2>1, ConcatAssociative, SMTT(30)
  <2> QED BY <2>2
<1> HIDE DEF q
<1>5. /\ Range(Append(q, x) \o none) = Range(q \o none) \cup {x}
      /\ IsInjective(q \o none) /\ x \notin Range(q \o none) => IsInjective(Append(q, x) \o none)
  BY <1>1, WritePosted
<1>6. t \o Append(v, x) = Append(q, x)
  BY <1>2, <1>4
<1>7. /\ Range(Append(q, x)) = Range(q) \cup {x}
      /\ IsInjective(q) /\ x \notin Range(q) => IsInjective(Append(q, x))
  BY <1>3, <1>5
<1> QED BY <1>6, <1>7 DEF q

-----------------------------------------------------------------------------
(* The steps. *)

\* The types, one by one.
LEMMA Types ==
  ASSUME TypeOK
  PROVE  /\ link \in {"up", "closed", "silent"}
         /\ open \in BOOLEAN /\ connected \in BOOLEAN /\ clConnected \in BOOLEAN
         /\ svSent \in Seq(Packets) /\ clSent \in Seq(Packets)
         /\ svHandled \in Seq(Packets) /\ clHandled \in Seq(Packets)
         /\ down \in Seq(Byte) /\ up \in Seq(Byte) /\ clBuffer \in Seq(Byte)
         /\ svBuffer \in Seq(Byte) /\ payload \in Seq(Byte)
         /\ writes \in Seq(Seq(Byte)) /\ rests \in Seq(Seq(Byte))
         /\ downState \in States /\ upState \in States
  BY DEF TypeOK

\* A buffer that is incomplete has less than a packet in it.
LEMMA IncompleteIsShort ==
  ASSUME NEW b \in Seq(Byte), Incomplete(b) PROVE Len(b) < MAX_RECV_BUFFER_SIZE
<1>1. Len(b) \in Nat
  OBVIOUS
<1>2. /\ HEADER_SIZE \in Nat \ {0} /\ MAX_PACKET_SIZE \in Nat /\ MAX_RECV_BUFFER_SIZE \in Nat
      /\ HEADER_SIZE <= MAX_PACKET_SIZE /\ MAX_PACKET_SIZE <= MAX_RECV_BUFFER_SIZE
  BY PacketAssumption
<1>3. CASE Len(b) < HEADER_SIZE
  BY <1>1, <1>2, <1>3
<1>4. CASE ~(Len(b) < HEADER_SIZE)
  <2>1. LengthField(b) > Len(b)
    BY <1>4 DEF Incomplete
  <2>2. b[1] \in Byte
    BY <1>1, <1>2, <1>4
  <2>3. LengthField(b) \in HEADER_SIZE..MAX_PACKET_SIZE
    BY <2>2, ByteFacts DEF LengthField
  <2> QED BY <1>1, <1>2, <2>1, <2>3
<1> QED BY <1>3, <1>4

\* Nothing is under way at first.
LEMMA InitIInv == Init => IInv
<1> SUFFICES ASSUME Init PROVE IInv
  OBVIOUS
<1> DEFINE none == <<>>
<1>1. none \in Seq(Packets) /\ none \in Seq(Byte) /\ none \in Seq(Seq(Byte)) /\ Len(none) = 0 /\ none \o none = none
  OBVIOUS
<1>2. TypeOK
  BY <1>1 DEF Init, TypeOK, States
<1>3. FramedInv
  BY <1>1, PacketAssumption DEF Init, FramedInv, Incomplete
<1>4. Numbered(none) /\ Handled(none, none) /\ InOrder(none, 0, none)
  BY <1>1 DEF Numbered, Handled, InOrder
<1>5. Pending({}, none, 0, none)
  <2>1. DueNo(none, Len(none) + 1, 0) = 1
    BY <1>1 DEF DueNo
  <2> QED BY <1>1, <2>1 DEF Pending
<1>6. IsInjective(none) /\ Range(none) = {}
  BY <1>1 DEF IsInjective, Range
<1>7. DownInv
  BY <1>1, <1>4, <1>5, <1>6 DEF Init, DownInv, Posted
<1>8. UpInv
  BY <1>1, <1>4, <1>5 DEF Init, UpInv, Unsent
<1> QED BY <1>2, <1>3, <1>7, <1>8 DEF IInv

\* What one direction does not touch stays as it is; a connection does not come
\* back to life, and a garbled stream stays garbled.
LEMMA DownStays ==
  ASSUME IInv, UNCHANGED <<svSent, writes, rests, down, clBuffer, clHandled>>,
         downState' # "garbled" => downState # "garbled", link' = "up" => link = "up"
  PROVE  DownInv'
<1>1. DownInv
  BY DEF IInv
<1>2. Posted' = Posted
  BY DEF Posted
<1> QED BY <1>1, <1>2 DEF DownInv
LEMMA UpStays ==
  ASSUME IInv, UNCHANGED <<clSent, payload, up, svBuffer, svHandled>>,
         upState' # "garbled" => upState # "garbled", link' # "closed" => link # "closed"
  PROVE  UpInv'
<1>1. UpInv
  BY DEF IInv
<1>2. Unsent' = Unsent
  BY DEF Unsent
<1> QED BY <1>1, <1>2 DEF UpInv

\* The packet that is sent next.
LEMMA NextPacket ==
  ASSUME NEW sent \in Seq(Packets), Len(sent) < MaxSend, NEW len \in Lengths, Numbered(sent),
         NEW handled, Handled(handled, sent), Len(handled) \in Nat
  PROVE  LET p == [no |-> Len(sent) + 1, length |-> len]
         IN  /\ p \in Packets /\ p.no = Len(sent) + 1 /\ p.length = len /\ len \in Nat
             /\ Append(sent, p) \in Seq(Packets) /\ Len(Append(sent, p)) = Len(sent) + 1
             /\ Numbered(Append(sent, p)) /\ Handled(handled, Append(sent, p))
<1> DEFINE p == [no |-> Len(sent) + 1, length |-> len]
           all == Append(sent, p)
<1>1. Len(sent) \in Nat /\ MaxSend \in Nat
  BY PacketAssumption
<1>2. p \in Packets /\ p.no = Len(sent) + 1 /\ p.length = len
  BY <1>1 DEF Packets
<1>3. len \in Nat
  BY <1>2, ByteFacts
<1> HIDE DEF p
<1>4. /\ all \in Seq(Packets) /\ Len(all) = Len(sent) + 1
      /\ \A i \in 1..Len(sent) : all[i] = sent[i]
      /\ all[Len(sent) + 1] = p
  BY <1>2, AppendProperties
<1> HIDE DEF all
<1>5. Numbered(all)
  <2> SUFFICES ASSUME NEW i \in 1..Len(all) PROVE all[i].no = i
    BY DEF Numbered
  <2>1. CASE i = Len(sent) + 1
    BY <1>2, <1>4, <2>1
  <2>2. CASE i # Len(sent) + 1
    <3>1. i \in 1..Len(sent)
      BY <1>1, <1>4, <2>2
    <3> QED BY <1>4, <3>1 DEF Numbered
  <2> QED BY <2>1, <2>2
<1>6. Handled(handled, all)
  <2>1. Len(handled) <= Len(sent) /\ \A i \in 1..Len(handled) : handled[i] = sent[i]
    BY DEF Handled
  <2>2. Len(handled) <= Len(all)
    BY <1>1, <1>4, <2>1
  <2>3. \A i \in 1..Len(handled) : i \in 1..Len(sent)
    BY <1>1, <2>1
  <2> QED BY <1>4, <2>1, <2>2, <2>3 DEF Handled
<1> QED BY <1>2, <1>3, <1>4, <1>5, <1>6 DEF p, all

\* Session::Send posts a write behind those posted before, and ahead of the rests
\* of others.
LEMMA SessionSendStep ==
  ASSUME IInv, NEW len \in Lengths, SessionSend(len) PROVE IInv'
<1> DEFINE p == [no |-> Len(svSent) + 1, length |-> len]
           c == clBuffer \o down
           n == Len(clHandled)
<1>1. /\ svSent' = Append(svSent, p) /\ writes' = Append(writes, Bytes(p)) /\ Len(svSent) < MaxSend
      /\ UNCHANGED <<link, open, connected, clConnected>>
      /\ UNCHANGED <<rests, down, clBuffer, clHandled, downState>>
      /\ UNCHANGED <<clSent, payload, up, svBuffer, svHandled, upState>>
  BY DEF SessionSend, ends, upVars
<1>2. TypeOK /\ FramedInv /\ Numbered(svSent) /\ Handled(clHandled, svSent)
  BY DEF IInv, DownInv
<1>3. /\ svSent \in Seq(Packets) /\ clHandled \in Seq(Packets) /\ n \in Nat /\ Len(svSent) \in Nat /\ c \in Seq(Byte)
      /\ writes \in Seq(Seq(Byte)) /\ rests \in Seq(Seq(Byte))
  BY <1>2, Types
<1>4. /\ p \in Packets /\ p.no = Len(svSent) + 1
      /\ svSent' \in Seq(Packets) /\ Numbered(svSent') /\ Handled(clHandled, svSent')
  BY <1>1, <1>2, <1>3, NextPacket
<1> HIDE DEF p
<1>5. Bytes(p) \in Seq(Byte)
  BY <1>4, BytesFacts
<1>6. writes' \in Seq(Seq(Byte))
  BY <1>1, <1>3, <1>5, AppendProperties
<1>7. TypeOK'
  BY <1>1, <1>2, <1>4, <1>6, Types DEF TypeOK
<1>8. FramedInv'
  BY <1>1, <1>2 DEF FramedInv
<1>9. UpInv'
  BY <1>1, UpStays
<1>10. n \in 0..Len(svSent)
  BY <1>2, <1>3 DEF Handled
<1>11. downState # "garbled" => InOrder(c, n, svSent)
  BY DEF IInv, DownInv
<1>12. downState # "garbled" => InOrder(c, n, svSent')
  <2>1. svSent' = Append(svSent, p)
    BY <1>1
  <2> HIDE DEF c, n
  <2> QED BY <1>3, <1>4, <1>11, <2>1, InOrderGrows
<1>13. ASSUME downState # "garbled", link = "up"
       PROVE  IsInjective(Posted') /\ Pending(Range(Posted'), c, n, svSent')
  <2> DEFINE S == Range(Posted)
             x == Bytes(p)
  <2>1. IsInjective(Posted) /\ Pending(S, c, n, svSent)
    BY <1>13 DEF IInv, DownInv
  <2>2. Pending(S \cup {x}, c, n, svSent') /\ x \notin S
    <3>1. svSent' = Append(svSent, p) /\ InOrder(c, n, svSent)
      BY <1>1, <1>11, <1>13
    <3> HIDE DEF c, n, S
    <3> QED BY <1>2, <1>3, <1>4, <1>10, <2>1, <3>1, SendInOrder
  <2>3. Posted' = Append(writes, x) \o rests
    BY <1>1 DEF Posted
  <2> HIDE DEF x
  <2>4. /\ Range(Append(writes, x) \o rests) = Range(writes \o rests) \cup {x}
        /\ IsInjective(writes \o rests) /\ x \notin Range(writes \o rests) => IsInjective(Append(writes, x) \o rests)
    BY <1>3, <1>5, WritePosted DEF x
  <2> HIDE DEF c, n
  <2> QED BY <2>1, <2>2, <2>3, <2>4 DEF Posted
<1>14. DownInv'
  <2>1. clBuffer' \o down' = c /\ Len(clHandled') = n /\ clHandled' = clHandled /\ downState' = downState /\ link' = link
    BY <1>1
  <2> HIDE DEF c, n
  <2> QED BY <1>4, <1>12, <1>13, <2>1 DEF DownInv
<1> QED BY <1>7, <1>8, <1>9, <1>14 DEF IInv

\* A write that goes through, all of it or a part, goes on where the stream ends
\* unless it overtakes another one.
LEMMA WriteSomeStep ==
  ASSUME IInv, WriteSome PROVE IInv'
<1> DEFINE w == Head(writes)
           t == Tail(writes)
           c == clBuffer \o down
           n == Len(clHandled)
<1>1. /\ link = "up" /\ writes # <<>> /\ writes' = t
      /\ UNCHANGED <<link, open, connected, clConnected>>
      /\ UNCHANGED <<svSent, clBuffer, clHandled>>
      /\ UNCHANGED <<clSent, payload, up, svBuffer, svHandled, upState>>
  BY DEF WriteSome, ends, upVars
<1>2. PICK k \in 1..Len(w) :
        /\ down' = down \o SubSeq(w, 1, k)
        /\ rests' = IF k = Len(w) THEN rests ELSE Append(rests, SubSeq(w, k + 1, Len(w)))
        /\ downState' = IF Overtakes(w) THEN "garbled" ELSE downState
  BY DEF WriteSome
<1>3. TypeOK /\ FramedInv /\ Numbered(svSent) /\ Handled(clHandled, svSent)
  BY DEF IInv, DownInv
<1>4. /\ svSent \in Seq(Packets) /\ clHandled \in Seq(Packets) /\ n \in Nat /\ Len(svSent) \in Nat /\ c \in Seq(Byte)
      /\ writes \in Seq(Seq(Byte)) /\ rests \in Seq(Seq(Byte)) /\ down \in Seq(Byte) /\ clBuffer \in Seq(Byte)
  BY <1>3, Types
<1>5. w \in Seq(Byte) /\ t \in Seq(Seq(Byte)) /\ Len(w) \in Nat
  BY <1>1, <1>4, HeadTailProperties
<1> DEFINE a == SubSeq(w, 1, k)
           e == SubSeq(w, k + 1, Len(w))
<1>6. a \in Seq(Byte) /\ e \in Seq(Byte)
  <2>1. 1 \in 1..(Len(w) + 1) /\ k \in (1 - 1)..Len(w) /\ k + 1 \in 1..(Len(w) + 1) /\ Len(w) \in ((k + 1) - 1)..Len(w)
    BY <1>5
  <2> HIDE DEF w
  <2> QED BY <1>5, <2>1, PartFacts
<1>7. down' \in Seq(Byte)
  <2> HIDE DEF a
  <2> QED BY <1>2, <1>4, <1>6, ConcatProperties DEF a
<1>8. rests' \in Seq(Seq(Byte))
  <2>1. Append(rests, e) \in Seq(Seq(Byte))
    <3> HIDE DEF e
    <3> QED BY <1>4, <1>6, AppendProperties
  <2> QED BY <1>2, <1>4, <2>1
<1>9. TypeOK'
  <2>1. downState' \in States
    BY <1>2, <1>3, Types DEF States
  <2> QED BY <1>1, <1>3, <1>5, <1>7, <1>8, <2>1, Types DEF TypeOK
<1>10. FramedInv'
  BY <1>1, <1>3 DEF FramedInv
<1>11. UpInv'
  BY <1>1, UpStays
<1>12. n \in 0..Len(svSent)
  BY <1>3, <1>4 DEF Handled
<1>13. c \o a = clBuffer' \o down'
  <2>1. (clBuffer \o down) \o a = clBuffer \o (down \o a)
    <3>1. clBuffer \in Seq(Byte) /\ down \in Seq(Byte) /\ a \in Seq(Byte)
      BY <1>4, <1>6
    <3> HIDE DEF a
    <3> QED BY <3>1, ConcatAssociative
  <2> QED BY <1>1, <1>2, <2>1
<1>14. ASSUME downState' # "garbled"
       PROVE  /\ InOrder(c \o a, n, svSent)
              /\ IsInjective(Posted') /\ Pending(Range(Posted'), c \o a, n, svSent)
  <2> DEFINE S == Range(Posted)
             Q == t \o rests
             T == (S \ {w}) \cup (IF k = Len(w) THEN {} ELSE {e})
  <2>1. downState # "garbled" /\ ~Overtakes(w)
    BY <1>2, <1>14
  <2>2. InOrder(c, n, svSent) /\ IsInjective(Posted) /\ Pending(S, c, n, svSent)
    BY <1>1, <2>1 DEF IInv, DownInv
  <2>3. S = Range(Q) \cup {w} /\ IsInjective(Q) /\ w \notin Range(Q)
    <3>1. Posted = writes \o rests
      BY DEF Posted
    <3>2. /\ Range(writes \o rests) = Range(Tail(writes) \o rests) \cup {Head(writes)}
          /\ IsInjective(writes \o rests) => IsInjective(Tail(writes) \o rests) /\ Head(writes) \notin Range(Tail(writes) \o rests)
      BY <1>1, <1>4, WriteTaken
    <3> QED BY <2>2, <3>1, <3>2
  <2>4. \A y \in S : ~(y[1].no < w[1].no)
    <3>1. \A y \in Range(Q) : ~(y[1].no < w[1].no)
      BY <2>1 DEF Overtakes
    <3>2. ~(w[1].no < w[1].no)
      <4>1. w[1] \in Byte
        BY <1>2, <1>5
      <4>2. w[1].no \in Nat
        BY <4>1, ByteFacts
      <4> QED BY <4>2
    <3> QED BY <2>3, <3>1, <3>2
  <2>5. w \in S
    BY <2>3
  <2>6. /\ InOrder(c \o a, n, svSent) /\ Pending(T, c \o a, n, svSent)
        /\ k # Len(w) => e \notin S \ {w}
    <3> HIDE DEF S, c, n, w
    <3> QED BY <1>2, <1>4, <1>5, <1>12, <2>2, <2>4, <2>5, WriteInOrder
  <2>7. S \ {w} = Range(Q)
    BY <2>3
  <2> HIDE DEF e, w
  <2>8. IsInjective(Posted') /\ Range(Posted') = T
    <3>1. CASE k = Len(w)
      <4>1. Posted' = Q
        BY <1>1, <1>2, <3>1 DEF Posted
      <4> QED BY <2>3, <2>7, <3>1, <4>1
    <3>2. CASE k # Len(w)
      <4>1. Posted' = t \o Append(rests, e)
        BY <1>1, <1>2, <3>2 DEF Posted, e
      <4>2. /\ Range(t \o Append(rests, e)) = Range(t \o rests) \cup {e}
            /\ IsInjective(t \o rests) /\ e \notin Range(t \o rests) => IsInjective(t \o Append(rests, e))
        <5> HIDE DEF t
        <5> QED BY <1>4, <1>5, <1>6, RestKept
      <4> QED BY <2>3, <2>6, <2>7, <3>2, <4>1, <4>2
    <3> QED BY <3>1, <3>2
  <2> QED BY <2>6, <2>8
<1>15. DownInv'
  <2>1. Len(clHandled') = n /\ clHandled' = clHandled /\ svSent' = svSent
    BY <1>1
  <2> HIDE DEF c, n, a
  <2> QED BY <1>3, <1>13, <1>14, <2>1 DEF DownInv
<1> QED BY <1>9, <1>10, <1>11, <1>15 DEF IInv

\* The rest of a write takes its place behind the writes posted meanwhile.
LEMMA WriteRestStep ==
  ASSUME IInv, WriteRest PROVE IInv'
<1>1. /\ rests # <<>> /\ writes' = Append(writes, Head(rests)) /\ rests' = Tail(rests)
      /\ UNCHANGED <<link, open, connected, clConnected>>
      /\ UNCHANGED <<svSent, down, clBuffer, clHandled, downState>>
      /\ UNCHANGED <<clSent, payload, up, svBuffer, svHandled, upState>>
  BY DEF WriteRest, ends, upVars
<1>2. TypeOK /\ FramedInv
  BY DEF IInv
<1>3. writes \in Seq(Seq(Byte)) /\ rests \in Seq(Seq(Byte))
  BY <1>2, Types
<1>4. writes' \in Seq(Seq(Byte)) /\ rests' \in Seq(Seq(Byte))
  BY <1>1, <1>3, HeadTailProperties, AppendProperties
<1>5. TypeOK'
  BY <1>1, <1>2, <1>4, Types DEF TypeOK
<1>6. FramedInv'
  BY <1>1, <1>2 DEF FramedInv
<1>7. UpInv'
  BY <1>1, UpStays
<1>8. Posted' = Posted
  BY <1>1, <1>3, RestPosted DEF Posted
<1>9. DownInv'
  <2>1. DownInv
    BY DEF IInv
  <2> QED BY <1>1, <1>8, <2>1 DEF DownInv
<1> QED BY <1>5, <1>6, <1>7, <1>9 DEF IInv

\* Writes fail only when nothing can be written any more.
LEMMA WriteFailedStep ==
  ASSUME IInv, WriteFailed PROVE IInv'
<1>1. /\ link = "closed" /\ writes # <<>> /\ writes' = Tail(writes) /\ connected' = FALSE
      /\ UNCHANGED <<link, open, clConnected>>
      /\ UNCHANGED <<svSent, rests, down, clBuffer, clHandled, downState>>
      /\ UNCHANGED <<clSent, payload, up, svBuffer, svHandled, upState>>
  BY DEF WriteFailed, upVars
<1>2. TypeOK /\ FramedInv /\ DownInv
  BY DEF IInv
<1>3. writes' \in Seq(Seq(Byte))
  BY <1>1, <1>2, Types, HeadTailProperties
<1>4. TypeOK'
  BY <1>1, <1>2, <1>3, Types DEF TypeOK
<1>5. FramedInv'
  BY <1>1, <1>2 DEF FramedInv
<1>6. UpInv'
  BY <1>1, UpStays
<1>7. DownInv'
  BY <1>1, <1>2 DEF DownInv
<1> QED BY <1>4, <1>5, <1>6, <1>7 DEF IInv

\* What the client reads of a stream in order are the packets that are due.
LEMMA RecvLoopStep ==
  ASSUME IInv, RecvLoop
  PROVE  /\ IInv'
         /\ \E ps \in Seq(Packets) : clHandled' = clHandled \o ps
         /\ downState # "garbled"
<1>1. /\ downState # "garbled"
      /\ UNCHANGED <<link, open, connected, clConnected>>
      /\ UNCHANGED <<svSent, writes, rests, downState>>
      /\ UNCHANGED <<clSent, payload, up, svBuffer, svHandled, upState>>
  BY DEF RecvLoop, ends, upVars
<1>2. PICK k \in 1..Len(down) :
        /\ clBuffer' = ProcessPackets(clBuffer \o SubSeq(down, 1, k)).rest
        /\ clHandled' = clHandled \o ProcessPackets(clBuffer \o SubSeq(down, 1, k)).packets
        /\ down' = SubSeq(down, k + 1, Len(down))
  BY DEF RecvLoop
<1> DEFINE r == Framed[clBuffer \o SubSeq(down, 1, k)]
<1>3. clBuffer' = r.rest /\ clHandled' = clHandled \o r.packets
  BY <1>2 DEF ProcessPackets
<1>4. TypeOK /\ FramedInv /\ DownInv
  BY DEF IInv
<1>5. /\ svSent \in Seq(Packets) /\ clHandled \in Seq(Packets) /\ clBuffer \in Seq(Byte) /\ down \in Seq(Byte)
      /\ Numbered(svSent) /\ Handled(clHandled, svSent) /\ InOrder(clBuffer \o down, Len(clHandled), svSent)
  BY <1>1, <1>4, Types DEF DownInv
<1>6. /\ clBuffer' \in Seq(Byte) /\ Incomplete(clBuffer') /\ down' \in Seq(Byte)
      /\ r.packets \in Seq(Packets) /\ clHandled' \in Seq(Packets) /\ Handled(clHandled', svSent)
      /\ InOrder(clBuffer' \o down', Len(clHandled'), svSent)
      /\ \A S : Pending(S, clBuffer \o down, Len(clHandled), svSent) => Pending(S, clBuffer' \o down', Len(clHandled'), svSent)
  <2> DEFINE e == SubSeq(down, k + 1, Len(down))
             h == clHandled \o r.packets
  <2>1. /\ r.rest \in Seq(Byte) /\ Incomplete(r.rest) /\ e \in Seq(Byte)
        /\ r.packets \in Seq(Packets) /\ h \in Seq(Packets) /\ Handled(h, svSent)
        /\ InOrder(r.rest \o e, Len(h), svSent)
        /\ \A S : Pending(S, clBuffer \o down, Len(clHandled), svSent) => Pending(S, r.rest \o e, Len(h), svSent)
    BY <1>5, ReadInOrder
  <2>2. down' = e /\ clHandled' = h
    BY <1>2, <1>3
  <2> HIDE DEF e, h, r
  <2> QED BY <1>3, <2>1, <2>2
<1> HIDE DEF r
<1>7. TypeOK'
  BY <1>1, <1>4, <1>6, Types DEF TypeOK
<1>8. FramedInv'
  BY <1>1, <1>4, <1>6 DEF FramedInv
<1>9. UpInv'
  BY <1>1, UpStays
<1>10. DownInv'
  <2>1. Posted' = Posted
    BY <1>1 DEF Posted
  <2> QED BY <1>1, <1>4, <1>6, <2>1 DEF DownInv
<1> QED BY <1>1, <1>3, <1>6, <1>7, <1>8, <1>9, <1>10 DEF IInv

\* A send of the client: all the bytes go in, or the stream is garbled, or there
\* is no connection and none go in.
LEMMA ClientWriteFacts ==
  ASSUME TypeOK, NEW bytes \in Seq(Byte), bytes # <<>>, ClientWrite(bytes)
  PROVE  /\ up' \in Seq(Byte) /\ upState' \in {upState, "garbled"}
         /\ link = "closed" => up' = up /\ upState' = upState
         /\ link # "closed" /\ upState' # "garbled" => up' = up \o bytes
<1> DEFINE room == IF link = "closed" THEN 0 ELSE SendSpace - Len(up)
           k == IF Len(bytes) <= room THEN Len(bytes) ELSE room
           a == SubSeq(bytes, 1, k)
<1>1. up' = up \o a /\ upState' = IF k < Len(bytes) /\ link # "closed" THEN "garbled" ELSE upState
  BY DEF ClientWrite
<1>2. up \in Seq(Byte) /\ Len(up) \in Nat /\ Len(bytes) \in Nat \ {0} /\ SendSpace \in Nat
  BY Types, PacketAssumption
<1>3. k \in Int /\ k <= Len(bytes)
  BY <1>2
<1>4. a \in Seq(Byte)
  <2>1. \A i \in 1..k : bytes[i] \in Byte
    BY <1>2, <1>3
  <2> HIDE DEF k
  <2> QED BY <1>3, <2>1, SubSeqProperties
<1>5. link = "closed" => a = <<>> /\ upState' = upState
  <2> SUFFICES ASSUME link = "closed" PROVE a = <<>> /\ upState' = upState
    OBVIOUS
  <2>1. k = 0
    BY <1>2
  <2>2. k < 1 /\ k \in Int /\ 1 \in Int
    BY <2>1
  <2> HIDE DEF k
  <2> QED BY <1>1, <2>2, SubSeqEmpty
<1>6. link # "closed" /\ upState' # "garbled" => a = bytes
  <2> SUFFICES ASSUME link # "closed", upState' # "garbled" PROVE a = bytes
    OBVIOUS
  <2>1. k = Len(bytes)
    <3> HIDE DEF k, a
    <3> QED BY <1>1, <1>2, <1>3
  <2> HIDE DEF k
  <2> QED BY <2>1, SubSeqFull
<1> HIDE DEF a, k
<1>7. up' \in Seq(Byte)
  BY <1>1, <1>2, <1>4, ConcatProperties
<1>8. link = "closed" => up' = up
  BY <1>1, <1>2, <1>5, ConcatEmptySeq
<1> QED BY <1>1, <1>5, <1>6, <1>7, <1>8

\* TcpClient::Send, first half: the header goes where the stream ends, and the
\* payload is left.
LEMMA ClientSendStep ==
  ASSUME IInv, NEW len \in Lengths, ClientSend(len) PROVE IInv'
<1> DEFINE p == [no |-> Len(clSent) + 1, length |-> len]
           c == svBuffer \o up
           n == Len(svHandled)
<1>1. /\ clSent' = Append(clSent, p) /\ Len(clSent) < MaxSend
      /\ ClientWrite(Header(p)) /\ payload' = Payload(p) /\ payload = <<>>
      /\ UNCHANGED <<link, open, connected, clConnected>>
      /\ UNCHANGED <<svSent, writes, rests, down, clBuffer, clHandled, downState>>
      /\ UNCHANGED <<svBuffer, svHandled>>
  BY DEF ClientSend, ends, downVars
<1>2. TypeOK /\ FramedInv /\ Numbered(clSent) /\ Handled(svHandled, clSent)
  BY DEF IInv, UpInv
<1>3. /\ clSent \in Seq(Packets) /\ svHandled \in Seq(Packets) /\ n \in Nat /\ Len(clSent) \in Nat /\ c \in Seq(Byte)
      /\ up \in Seq(Byte) /\ svBuffer \in Seq(Byte) /\ upState \in States
  BY <1>2, Types
<1>4. /\ p \in Packets /\ p.no = Len(clSent) + 1
      /\ clSent' \in Seq(Packets) /\ Numbered(clSent') /\ Handled(svHandled, clSent')
  BY <1>1, <1>2, <1>3, NextPacket
<1> HIDE DEF p
<1> DEFINE x == Bytes(p)
           hd == SubSeq(x, 1, HEADER_SIZE)
           e == SubSeq(x, HEADER_SIZE + 1, Len(x))
<1>5. x \in Seq(Byte) /\ Len(x) = p.length /\ Len(x) \in Nat /\ HEADER_SIZE \in 1..Len(x)
  <2>1. p.length \in HEADER_SIZE..MAX_PACKET_SIZE /\ p.length \in Nat /\ HEADER_SIZE \in Nat \ {0} /\ MAX_PACKET_SIZE \in Nat
    BY <1>4, ByteFacts, PacketAssumption
  <2>2. x \in Seq(Byte) /\ Len(x) = p.length
    BY <1>4, BytesFacts
  <2> QED BY <2>1, <2>2
<1>6. Header(p) = hd /\ Payload(p) = e
  BY <1>5 DEF Header, Payload
<1> HIDE DEF x
<1>7. /\ hd \in Seq(Byte) /\ Len(hd) = HEADER_SIZE /\ e \in Seq(Byte) /\ Len(e) = Len(x) - HEADER_SIZE
  <2>1. /\ 1 \in 1..(Len(x) + 1) /\ HEADER_SIZE \in (1 - 1)..Len(x) /\ (HEADER_SIZE - 1) + 1 = HEADER_SIZE
        /\ HEADER_SIZE + 1 \in 1..(Len(x) + 1) /\ Len(x) \in ((HEADER_SIZE + 1) - 1)..Len(x)
        /\ (Len(x) - (HEADER_SIZE + 1)) + 1 = Len(x) - HEADER_SIZE
    BY <1>5
  <2>2. hd \in Seq(Byte) /\ Len(hd) = (HEADER_SIZE - 1) + 1
    BY <1>5, <2>1, PartFacts
  <2>3. e \in Seq(Byte) /\ Len(e) = (Len(x) - (HEADER_SIZE + 1)) + 1
    BY <1>5, <2>1, PartFacts
  <2> HIDE DEF hd, e
  <2> QED BY <2>1, <2>2, <2>3
<1> HIDE DEF hd, e
<1>8. hd # <<>>
  BY <1>5, <1>7
<1>9. /\ up' \in Seq(Byte) /\ upState' \in {upState, "garbled"}
      /\ link = "closed" => up' = up /\ upState' = upState
      /\ link # "closed" /\ upState' # "garbled" => up' = up \o hd
  BY <1>1, <1>2, <1>6, <1>7, <1>8, ClientWriteFacts
<1>10. TypeOK'
  <2>1. upState' \in States /\ payload' \in Seq(Byte)
    BY <1>1, <1>3, <1>6, <1>7, <1>9 DEF States
  <2> QED BY <1>1, <1>2, <1>4, <1>9, <2>1, Types DEF TypeOK
<1>11. FramedInv'
  BY <1>1, <1>2 DEF FramedInv
<1>12. DownInv'
  BY <1>1, DownStays
<1>13. n \in 0..Len(clSent)
  BY <1>2, <1>3 DEF Handled
<1>14. upState # "garbled" => InOrder(c, n, clSent) /\ (link # "closed" => Pending({}, c, n, clSent))
  BY <1>1 DEF IInv, UpInv, Unsent
<1>15. clSent' = Append(clSent, p)
  BY <1>1
<1>16. upState # "garbled" => InOrder(c, n, clSent')
  <2> HIDE DEF c, n
  <2> QED BY <1>3, <1>4, <1>14, <1>15, InOrderGrows
<1>17. ASSUME upState' # "garbled", link # "closed"
       PROVE  InOrder(c \o hd, n, clSent') /\ Pending(Unsent', c \o hd, n, clSent') /\ c \o hd = svBuffer' \o up'
  <2>1. upState # "garbled"
    BY <1>9, <1>17
  <2>2. Pending({} \cup {x}, c, n, clSent')
    <3>1. InOrder(c, n, clSent) /\ Pending({}, c, n, clSent)
      BY <1>14, <1>17, <2>1
    <3> HIDE DEF c, n
    <3> QED BY <1>2, <1>3, <1>4, <1>13, <1>15, <3>1, SendInOrder DEF x
  <2> DEFINE S == {x}
             T == (S \ {x}) \cup (IF HEADER_SIZE = Len(x) THEN {} ELSE {e})
  <2>3. Pending(S, c, n, clSent') /\ x \in S
    <3>1. {} \cup {x} = S
      OBVIOUS
    <3> QED BY <2>2, <3>1
  <2>4. \A y \in S : ~(y[1].no < x[1].no)
    <3>1. x[1] \in Byte
      BY <1>5
    <3>2. x[1].no \in Nat
      BY <3>1, ByteFacts
    <3> QED BY <3>2
  <2>5. n \in 0..Len(clSent') /\ InOrder(c, n, clSent')
    <3>1. Len(clSent') = Len(clSent) + 1
      BY <1>3, <1>4, <1>15, AppendProperties
    <3> QED BY <1>3, <1>13, <1>16, <2>1, <3>1
  <2>6. InOrder(c \o hd, n, clSent') /\ Pending(T, c \o hd, n, clSent')
    <3> HIDE DEF S, c, n
    <3> QED BY <1>3, <1>4, <1>5, <2>3, <2>4, <2>5, WriteInOrder DEF hd, e
  <2>7. Unsent' = T
    <3>1. payload' = e
      BY <1>1, <1>6
    <3>2. e = <<>> <=> HEADER_SIZE = Len(x)
      BY <1>5, <1>7
    <3> QED BY <3>1, <3>2 DEF Unsent
  <2>8. (svBuffer \o up) \o hd = svBuffer \o (up \o hd)
    BY <1>3, <1>7, ConcatAssociative
  <2>9. c \o hd = svBuffer' \o up'
    BY <1>1, <1>9, <1>17, <2>8
  <2> HIDE DEF c, n, T
  <2> QED BY <2>6, <2>7, <2>9
<1>18. UpInv'
  <2>1. Len(svHandled') = n /\ svHandled' = svHandled /\ link' = link
    BY <1>1
  <2>2. ASSUME upState' # "garbled" PROVE InOrder(svBuffer' \o up', n, clSent')
    <3>1. CASE link = "closed"
      <4>1. svBuffer' \o up' = c /\ upState # "garbled"
        BY <1>1, <1>9, <2>2, <3>1
      <4> HIDE DEF c, n
      <4> QED BY <1>16, <4>1
    <3>2. CASE link # "closed"
      <4> HIDE DEF c, n
      <4> QED BY <1>17, <2>2, <3>2
    <3> QED BY <3>1, <3>2
  <2>3. upState' # "garbled" /\ link' # "closed" => Pending(Unsent', svBuffer' \o up', n, clSent')
    <3> HIDE DEF c, n
    <3> QED BY <1>17, <2>1
  <2> HIDE DEF c, n
  <2> QED BY <1>4, <2>1, <2>2, <2>3 DEF UpInv
<1> QED BY <1>10, <1>11, <1>12, <1>18 DEF IInv

\* Second half.
LEMMA ClientSendPayloadStep ==
  ASSUME IInv, ClientSendPayload PROVE IInv'
<1> DEFINE c == svBuffer \o up
           n == Len(svHandled)
           x == payload
<1>1. /\ x # <<>> /\ ClientWrite(x) /\ payload' = <<>>
      /\ UNCHANGED <<link, open, connected, clConnected>>
      /\ UNCHANGED <<svSent, writes, rests, down, clBuffer, clHandled, downState>>
      /\ UNCHANGED <<clSent, svBuffer, svHandled>>
  BY DEF ClientSendPayload, ends, downVars
<1>2. TypeOK /\ FramedInv /\ Numbered(clSent) /\ Handled(svHandled, clSent)
  BY DEF IInv, UpInv
<1>3. /\ clSent \in Seq(Packets) /\ svHandled \in Seq(Packets) /\ n \in Nat /\ Len(clSent) \in Nat /\ c \in Seq(Byte)
      /\ up \in Seq(Byte) /\ svBuffer \in Seq(Byte) /\ upState \in States /\ x \in Seq(Byte)
  BY <1>2, Types
<1>4. /\ up' \in Seq(Byte) /\ upState' \in {upState, "garbled"}
      /\ link = "closed" => up' = up /\ upState' = upState
      /\ link # "closed" /\ upState' # "garbled" => up' = up \o x
  BY <1>1, <1>2, <1>3, ClientWriteFacts
<1>5. TypeOK'
  <2>1. upState' \in States /\ payload' \in Seq(Byte)
    BY <1>1, <1>3, <1>4 DEF States
  <2> QED BY <1>1, <1>2, <1>4, <2>1, Types DEF TypeOK
<1>6. FramedInv'
  BY <1>1, <1>2 DEF FramedInv
<1>7. DownInv'
  BY <1>1, DownStays
<1>8. upState # "garbled" => InOrder(c, n, clSent) /\ (link # "closed" => Pending({x}, c, n, clSent))
  BY <1>1 DEF IInv, UpInv, Unsent
<1>9. ASSUME upState' # "garbled", link # "closed"
      PROVE  InOrder(c \o x, n, clSent) /\ Pending({}, c \o x, n, clSent) /\ c \o x = svBuffer' \o up'
  <2>1. upState # "garbled"
    BY <1>4, <1>9
  <2> DEFINE S == {x}
             k == Len(x)
             e == SubSeq(x, k + 1, Len(x))
             T == (S \ {x}) \cup (IF k = Len(x) THEN {} ELSE {e})
  <2>2. InOrder(c, n, clSent) /\ Pending(S, c, n, clSent) /\ x \in S
    BY <1>8, <1>9, <2>1
  <2>3. n \in 0..Len(clSent) /\ k \in 1..Len(x)
    BY <1>1, <1>2, <1>3 DEF Handled
  <2>4. \A y \in S : ~(y[1].no < x[1].no)
    <3>1. x[1] \in Byte
      BY <1>3, <2>3
    <3>2. x[1].no \in Nat
      BY <3>1, ByteFacts
    <3> QED BY <3>2
  <2>5. InOrder(c \o SubSeq(x, 1, k), n, clSent) /\ Pending(T, c \o SubSeq(x, 1, k), n, clSent)
    <3> HIDE DEF S, c, n, x, k
    <3> QED BY <1>3, <2>2, <2>3, <2>4, WriteInOrder
  <2>6. SubSeq(x, 1, k) = x
    BY <1>3, SubSeqFull
  <2>7. T = {}
    OBVIOUS
  <2>8. (svBuffer \o up) \o x = svBuffer \o (up \o x)
    BY <1>3, ConcatAssociative
  <2>9. c \o x = svBuffer' \o up'
    BY <1>1, <1>4, <1>9, <2>8
  <2> HIDE DEF c, n, x, k, T
  <2> QED BY <2>5, <2>6, <2>7, <2>9
<1>10. UpInv'
  <2>1. Len(svHandled') = n /\ svHandled' = svHandled /\ link' = link /\ clSent' = clSent /\ Unsent' = {}
    BY <1>1 DEF Unsent
  <2>2. ASSUME upState' # "garbled" PROVE InOrder(svBuffer' \o up', n, clSent)
    <3>1. CASE link = "closed"
      <4>1. svBuffer' \o up' = c /\ upState # "garbled"
        BY <1>1, <1>4, <2>2, <3>1
      <4> HIDE DEF c, n
      <4> QED BY <1>8, <4>1
    <3>2. CASE link # "closed"
      <4> HIDE DEF c, n, x
      <4> QED BY <1>9, <2>2, <3>2
    <3> QED BY <3>1, <3>2
  <2>3. upState' # "garbled" /\ link' # "closed" => Pending({}, svBuffer' \o up', n, clSent)
    <3> HIDE DEF c, n, x
    <3> QED BY <1>9, <2>1
  <2> HIDE DEF c, n, x
  <2> QED BY <1>2, <2>1, <2>2, <2>3 DEF UpInv
<1> QED BY <1>5, <1>6, <1>7, <1>10 DEF IInv

\* What the server reads of a stream in order are the packets that are due.
LEMMA DoReadStep ==
  ASSUME IInv, DoRead
  PROVE  /\ IInv'
         /\ \E ps \in Seq(Packets) : svHandled' = svHandled \o ps
         /\ upState # "garbled"
<1>1. /\ upState # "garbled"
      /\ UNCHANGED <<link, open, connected, clConnected>>
      /\ UNCHANGED <<svSent, writes, rests, down, clBuffer, clHandled, downState>>
      /\ UNCHANGED <<clSent, payload, upState>>
  BY DEF DoRead, ends, downVars
<1>2. PICK k \in 1..Len(up) :
        /\ svBuffer' = ProcessBuffer(svBuffer \o SubSeq(up, 1, k)).rest
        /\ svHandled' = svHandled \o ProcessBuffer(svBuffer \o SubSeq(up, 1, k)).packets
        /\ up' = SubSeq(up, k + 1, Len(up))
  BY DEF DoRead
<1> DEFINE r == Framed[svBuffer \o SubSeq(up, 1, k)]
<1>3. svBuffer' = r.rest /\ svHandled' = svHandled \o r.packets
  BY <1>2 DEF ProcessBuffer
<1>4. TypeOK /\ FramedInv /\ UpInv
  BY DEF IInv
<1>5. /\ clSent \in Seq(Packets) /\ svHandled \in Seq(Packets) /\ svBuffer \in Seq(Byte) /\ up \in Seq(Byte)
      /\ Numbered(clSent) /\ Handled(svHandled, clSent) /\ InOrder(svBuffer \o up, Len(svHandled), clSent)
  BY <1>1, <1>4, Types DEF UpInv
<1>6. /\ svBuffer' \in Seq(Byte) /\ Incomplete(svBuffer') /\ up' \in Seq(Byte)
      /\ r.packets \in Seq(Packets) /\ svHandled' \in Seq(Packets) /\ Handled(svHandled', clSent)
      /\ InOrder(svBuffer' \o up', Len(svHandled'), clSent)
      /\ \A S : Pending(S, svBuffer \o up, Len(svHandled), clSent) => Pending(S, svBuffer' \o up', Len(svHandled'), clSent)
  <2> DEFINE e == SubSeq(up, k + 1, Len(up))
             h == svHandled \o r.packets
  <2>1. /\ r.rest \in Seq(Byte) /\ Incomplete(r.rest) /\ e \in Seq(Byte)
        /\ r.packets \in Seq(Packets) /\ h \in Seq(Packets) /\ Handled(h, clSent)
        /\ InOrder(r.rest \o e, Len(h), clSent)
        /\ \A S : Pending(S, svBuffer \o up, Len(svHandled), clSent) => Pending(S, r.rest \o e, Len(h), clSent)
    BY <1>5, ReadInOrder
  <2>2. up' = e /\ svHandled' = h
    BY <1>2, <1>3
  <2> HIDE DEF e, h, r
  <2> QED BY <1>3, <2>1, <2>2
<1> HIDE DEF r
<1>7. TypeOK'
  BY <1>1, <1>4, <1>6, Types DEF TypeOK
<1>8. FramedInv'
  BY <1>1, <1>4, <1>6 DEF FramedInv
<1>9. DownInv'
  BY <1>1, DownStays
<1>10. UpInv'
  <2>1. Unsent' = Unsent
    BY <1>1 DEF Unsent
  <2> QED BY <1>1, <1>4, <1>6, <2>1 DEF UpInv
<1> QED BY <1>1, <1>3, <1>6, <1>7, <1>8, <1>9, <1>10 DEF IInv

\* The end of a connection leaves the bytes where they are.
LEMMA EndStep ==
  ASSUME IInv, LinkLost \/ LinkGivenUp \/ Disconnect \/ RecvEnds \/ ReadError
  PROVE  /\ IInv'
         /\ UNCHANGED <<svSent, clHandled, clSent, svHandled>>
         /\ downState' = downState \/ (downState = "whole" /\ downState' = "cut")
         /\ upState' = upState \/ (upState = "whole" /\ upState' = "cut")
<1>1. TypeOK /\ FramedInv
  BY DEF IInv
<1>2. /\ UNCHANGED <<svSent, writes, rests, down, clBuffer, clHandled>>
      /\ UNCHANGED <<clSent, payload, up, svBuffer, svHandled>>
      /\ downState' = downState \/ (downState = "whole" /\ downState' = "cut")
      /\ upState' = upState \/ (upState = "whole" /\ upState' = "cut")
      /\ link' \in {"up", "closed", "silent"}
      /\ link' = "up" => link = "up"
      /\ link' # "closed" => link # "closed"
      /\ open' \in {open, FALSE} /\ connected' \in {connected, FALSE} /\ clConnected' \in {clConnected, FALSE}
  <2>1. CASE LinkLost
    BY <1>1, <2>1, Types DEF LinkLost, LinkEnds, Cut
  <2>2. CASE LinkGivenUp
    BY <1>1, <2>2, Types DEF LinkGivenUp, LinkEnds, Cut
  <2>3. CASE Disconnect
    BY <1>1, <2>3, Types DEF Disconnect, LinkEnds, Cut
  <2>4. CASE RecvEnds
    BY <1>1, <2>4, Types DEF RecvEnds, downVars, upVars
  <2>5. CASE ReadError
    BY <1>1, <2>5, Types DEF ReadError, downVars, upVars
  <2> QED BY <2>1, <2>2, <2>3, <2>4, <2>5
<1>3. TypeOK'
  <2>1. downState' \in States /\ upState' \in States
    BY <1>1, <1>2, Types DEF States
  <2>2. open' \in BOOLEAN /\ connected' \in BOOLEAN /\ clConnected' \in BOOLEAN
    <3>1. open \in BOOLEAN /\ connected \in BOOLEAN /\ clConnected \in BOOLEAN
      BY <1>1, Types
    <3>2. open' \in {open, FALSE} /\ connected' \in {connected, FALSE} /\ clConnected' \in {clConnected, FALSE}
      BY <1>2
    <3> QED BY <3>1, <3>2
  <2> QED BY <1>1, <1>2, <2>1, <2>2, Types DEF TypeOK
<1>4. FramedInv'
  BY <1>1, <1>2 DEF FramedInv
<1>5. DownInv'
  BY <1>2, DownStays
<1>6. UpInv'
  BY <1>2, UpStays
<1> QED BY <1>2, <1>3, <1>4, <1>5, <1>6 DEF IInv

\* Every step keeps the invariant.
LEMMA NextIInv == IInv /\ [Next]_vars => IInv'
<1> SUFFICES ASSUME IInv, [Next]_vars PROVE IInv'
  OBVIOUS
<1>1. CASE UNCHANGED vars
  <2>1. /\ UNCHANGED <<link, open, connected, clConnected>>
        /\ UNCHANGED <<svSent, writes, rests, down, clBuffer, clHandled, downState>>
        /\ UNCHANGED <<clSent, payload, up, svBuffer, svHandled, upState>>
    BY <1>1 DEF vars, ends, downVars, upVars
  <2>2. TypeOK' /\ FramedInv'
    BY <2>1 DEF IInv, TypeOK, FramedInv
  <2>3. DownInv' /\ UpInv'
    BY <2>1, DownStays, UpStays
  <2> QED BY <2>2, <2>3 DEF IInv
<1>2. CASE \E len \in Lengths : SessionSend(len) \/ ClientSend(len)
  BY <1>2, SessionSendStep, ClientSendStep
<1>3. CASE WriteSome \/ WriteRest \/ WriteFailed \/ RecvLoop
  BY <1>3, WriteSomeStep, WriteRestStep, WriteFailedStep, RecvLoopStep
<1>4. CASE ClientSendPayload \/ DoRead
  BY <1>4, ClientSendPayloadStep, DoReadStep
<1>5. CASE LinkLost \/ LinkGivenUp \/ Disconnect \/ RecvEnds \/ ReadError
  BY <1>5, EndStep
<1> QED BY <1>1, <1>2, <1>3, <1>4, <1>5 DEF Next

\* The invariant of both directions.
LEMMA StreamInvariant == Spec => []IInv
<1>1. Init => IInv
  BY InitIInv
<1>2. IInv /\ [Next]_vars => IInv'
  BY NextIInv
<1> QED BY <1>1, <1>2, PTL DEF Spec

\* Session::DoRead never asks for zero bytes: whatever has been read, the buffer of
\* the session has room for more.
THEOREM ReadsHaveRoom == Spec => []AlwaysRoom
<1>1. IInv => AlwaysRoom
  <2> SUFFICES ASSUME IInv PROVE AlwaysRoom
    OBVIOUS
  <2>1. TypeOK /\ svBuffer \in Seq(Byte) /\ Incomplete(svBuffer)
    BY Types DEF IInv, FramedInv
  <2>2. Len(svBuffer) \in Nat /\ Len(svBuffer) < MAX_RECV_BUFFER_SIZE /\ MAX_RECV_BUFFER_SIZE \in Nat
    BY <2>1, IncompleteIsShort, PacketAssumption
  <2>3. ReadRoom > 0
    BY <2>2 DEF ReadRoom
  <2> QED BY <2>1, <2>3 DEF AlwaysRoom
<1> QED BY <1>1, StreamInvariant, PTL

-----------------------------------------------------------------------------
(* Each direction is a PacketFifo. *)

\* The packets handled after a read are more of those that were sent.
LEMMA ReadDelivers ==
  ASSUME NEW sent \in Seq(Packets), NEW h \in Seq(Packets), NEW g \in Seq(Packets), NEW ps \in Seq(Packets),
         g = h \o ps, Handled(g, sent)
  PROVE  \/ g = h
         \/ \E n \in (Len(h) + 1)..Len(sent) : g = SubSeq(sent, 1, n)
<1>1. CASE ps = <<>>
  BY <1>1, ConcatEmptySeq
<1>2. CASE ps # <<>>
  <2> DEFINE n == Len(g)
             f == SubSeq(sent, 1, n)
  <2>1. n = Len(h) + Len(ps) /\ Len(h) \in Nat /\ Len(ps) \in Nat \ {0} /\ Len(sent) \in Nat
    BY <1>2, ConcatProperties
  <2>2. n <= Len(sent) /\ \A i \in 1..n : g[i] = sent[i]
    BY DEF Handled
  <2> HIDE DEF n
  <2>3. n \in (Len(h) + 1)..Len(sent) /\ 1 \in 1..(Len(sent) + 1) /\ n \in (1 - 1)..Len(sent) /\ (n - 1) + 1 = n
        /\ \A i \in 1..n : (1 + i) - 1 = i
    BY <2>1, <2>2
  <2>4. f \in Seq(Packets) /\ Len(f) = (n - 1) + 1 /\ \A i \in 1..((n - 1) + 1) : f[i] = sent[(1 + i) - 1]
    BY <2>3, PartFacts
  <2> HIDE DEF f
  <2>5. Len(g) = Len(f) /\ \A i \in 1..Len(g) : g[i] = f[i]
    BY <2>2, <2>3, <2>4 DEF n
  <2>6. g = f
    BY <2>4, <2>5, SeqEqual
  <2> QED BY <2>3, <2>6 DEF f
<1> QED BY <1>1, <1>2

\* Steps of the server to client direction.
LEMMA DownStep ==
  ASSUME IInv, [Next]_vars PROVE [DownFifo!Next]_(DownFifo!vars)
<1>1. TypeOK /\ IInv' /\ TypeOK' /\ DownInv /\ DownInv'
  BY NextIInv DEF IInv
<1>2. CASE UNCHANGED <<svSent, clHandled, downState>>
  BY <1>2 DEF DownFifo!vars
<1>3. CASE \E len \in Lengths : SessionSend(len)
  <2>1. PICK len \in Lengths : SessionSend(len)
    BY <1>3
  <2> DEFINE p == [no |-> Len(svSent) + 1, length |-> len]
  <2>2. svSent' = Append(svSent, p) /\ UNCHANGED <<clHandled, downState>> /\ Len(svSent) < MaxSend
    BY <2>1 DEF SessionSend
  <2>3. p \in Packets
    <3>1. svSent \in Seq(Packets) /\ Numbered(svSent) /\ Handled(clHandled, svSent) /\ Len(clHandled) \in Nat
      BY <1>1, Types DEF DownInv
    <3> QED BY <2>2, <3>1, NextPacket
  <2> HIDE DEF p
  <2>4. DownFifo!Send
    BY <2>2, <2>3 DEF DownFifo!Send
  <2> QED BY <2>4 DEF DownFifo!Next
<1>4. CASE WriteSome
  <2>1. UNCHANGED <<svSent, clHandled>> /\ downState' \in {"garbled", downState}
    BY <1>4 DEF WriteSome
  <2> QED BY <2>1 DEF DownFifo!Next, DownFifo!Garble, DownFifo!Garbled, DownFifo!vars
<1>5. CASE RecvLoop
  <2>1. PICK ps \in Seq(Packets) : clHandled' = clHandled \o ps
    BY <1>5, RecvLoopStep
  <2>2. downState # "garbled" /\ UNCHANGED <<svSent, downState>>
    BY <1>5 DEF RecvLoop
  <2>3. svSent \in Seq(Packets) /\ clHandled \in Seq(Packets)
    BY <1>1, Types
  <2>4. clHandled' \in Seq(Packets)
    BY <2>1, <2>3, ConcatProperties
  <2>5. Handled(clHandled', svSent)
    BY <1>1, <2>2 DEF DownInv
  <2>6. clHandled' = clHandled \/ \E n \in (Len(clHandled) + 1)..Len(svSent) : clHandled' = SubSeq(svSent, 1, n)
    BY <2>1, <2>3, <2>4, <2>5, ReadDelivers
  <2> QED BY <2>2, <2>6 DEF DownFifo!Next, DownFifo!Deliver, DownFifo!vars
<1>6. CASE LinkLost \/ LinkGivenUp \/ Disconnect \/ RecvEnds \/ ReadError
  <2>1. UNCHANGED <<svSent, clHandled>> /\ (downState' = downState \/ (downState = "whole" /\ downState' = "cut"))
    BY <1>6, EndStep
  <2> QED BY <2>1 DEF DownFifo!Next, DownFifo!Cut, DownFifo!vars
<1>7. CASE WriteRest \/ WriteFailed
  BY <1>2, <1>7 DEF WriteRest, WriteFailed
<1>8. CASE ClientSendPayload \/ DoRead \/ \E len \in Lengths : ClientSend(len)
  BY <1>2, <1>8 DEF ClientSendPayload, DoRead, ClientSend, downVars
<1>9. CASE UNCHANGED vars
  BY <1>2, <1>9 DEF vars, downVars
<1> QED BY <1>3, <1>4, <1>5, <1>6, <1>7, <1>8, <1>9 DEF Next

\* Steps of the client to server direction.
LEMMA UpStep ==
  ASSUME IInv, [Next]_vars PROVE [UpFifo!Next]_(UpFifo!vars)
<1>1. TypeOK /\ IInv' /\ TypeOK' /\ UpInv /\ UpInv'
  BY NextIInv DEF IInv
<1>2. CASE UNCHANGED <<clSent, svHandled, upState>>
  BY <1>2 DEF UpFifo!vars
<1>3. CASE \E len \in Lengths : ClientSend(len)
  <2>1. PICK len \in Lengths : ClientSend(len)
    BY <1>3
  <2> DEFINE p == [no |-> Len(clSent) + 1, length |-> len]
  <2>2. clSent' = Append(clSent, p) /\ UNCHANGED svHandled /\ Len(clSent) < MaxSend /\ ClientWrite(Header(p))
    BY <2>1 DEF ClientSend
  <2>3. p \in Packets
    <3>1. clSent \in Seq(Packets) /\ Numbered(clSent) /\ Handled(svHandled, clSent) /\ Len(svHandled) \in Nat
      BY <1>1, Types DEF UpInv
    <3> QED BY <2>2, <3>1, NextPacket
  <2>4. upState' \in {"garbled", upState}
    BY <2>2 DEF ClientWrite
  <2> HIDE DEF p
  <2>5. UpFifo!Send
    BY <2>2, <2>3, <2>4 DEF UpFifo!Send, UpFifo!Garbled
  <2> QED BY <2>5 DEF UpFifo!Next
<1>4. CASE ClientSendPayload
  <2>1. UNCHANGED <<clSent, svHandled>> /\ upState' \in {"garbled", upState}
    BY <1>4 DEF ClientSendPayload, ClientWrite
  <2> QED BY <2>1 DEF UpFifo!Next, UpFifo!Garble, UpFifo!Garbled, UpFifo!vars
<1>5. CASE DoRead
  <2>1. PICK ps \in Seq(Packets) : svHandled' = svHandled \o ps
    BY <1>5, DoReadStep
  <2>2. upState # "garbled" /\ UNCHANGED <<clSent, upState>>
    BY <1>5 DEF DoRead
  <2>3. clSent \in Seq(Packets) /\ svHandled \in Seq(Packets)
    BY <1>1, Types
  <2>4. svHandled' \in Seq(Packets)
    BY <2>1, <2>3, ConcatProperties
  <2>5. Handled(svHandled', clSent)
    BY <1>1, <2>2 DEF UpInv
  <2>6. svHandled' = svHandled \/ \E n \in (Len(svHandled) + 1)..Len(clSent) : svHandled' = SubSeq(clSent, 1, n)
    BY <2>1, <2>3, <2>4, <2>5, ReadDelivers
  <2> QED BY <2>2, <2>6 DEF UpFifo!Next, UpFifo!Deliver, UpFifo!vars
<1>6. CASE LinkLost \/ LinkGivenUp \/ Disconnect \/ RecvEnds \/ ReadError
  <2>1. UNCHANGED <<clSent, svHandled>> /\ (upState' = upState \/ (upState = "whole" /\ upState' = "cut"))
    BY <1>6, EndStep
  <2> QED BY <2>1 DEF UpFifo!Next, UpFifo!Cut, UpFifo!vars
<1>7. CASE WriteSome \/ WriteRest \/ WriteFailed \/ RecvLoop \/ \E len \in Lengths : SessionSend(len)
  BY <1>2, <1>7 DEF WriteSome, WriteRest, WriteFailed, RecvLoop, SessionSend, upVars
<1>8. CASE UNCHANGED vars
  BY <1>2, <1>8 DEF vars, upVars
<1> QED BY <1>3, <1>4, <1>5, <1>6, <1>7, <1>8 DEF Next

\* However TCP splits and merges what is sent, and however many packets one read
\* completes, the handlers at both ends get the packets of Send whole, in order,
\* none twice and none left out, as long as no write is overtaken and no send
\* finds the socket full.
THEOREM PacketsInOrder == Spec => FifoBothWays
<1>1. Init => DownFifo!Init /\ UpFifo!Init
  BY DEF Init, DownFifo!Init, UpFifo!Init
<1>2. IInv /\ [Next]_vars => [DownFifo!Next]_(DownFifo!vars)
  BY DownStep
<1>3. IInv /\ [Next]_vars => [UpFifo!Next]_(UpFifo!vars)
  BY UpStep
<1> QED BY <1>1, <1>2, <1>3, StreamInvariant, PTL
           DEF Spec, FifoBothWays, DownFifo!Safety, UpFifo!Safety
=============================================================================
