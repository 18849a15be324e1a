--------------------------- MODULE ReplyLinkProofs ---------------------------
(***************************************************************************)
(* Proofs about ReplyLink: a request that begins with an empty ring is     *)
(* only acknowledged by its own reply, and the data handed to the host are *)
(* those of that reply, for any size of the ring and any number of         *)
(* requests, late replies, keep alives and lost bytes.                     *)
(***************************************************************************)
EXTENDS ReplyLink, SequenceTheorems, TLAPS

Byte4 == [val : 0 .. 4 * ID_MOD - 1, req : 0 .. MaxRequests, k : Nat]
Requests == [no : 1 .. MaxRequests, id : 0 .. ID_MOD - 1, dir : {"in", "out"}]

\* Steps of the ring from a to b, and the positions that are still to be read.
Dist(a, b) == IF b >= a THEN b - a ELSE b - a + RXBUF_SIZE
InRing(p) == Dist(rxrpos, p) < Dist(rxrpos, rxwpos)

\* The bytes of a reply with n data bytes are numbered 0 .. LastByte(n).
LastByte(n) == IF n = 0 THEN 0 ELSE n + 1

Waiting == pc \in {"payload", "waitStart"}

\* What TypeOK leaves open, and what the counters are while data are read.
Shape ==
  /\ queue \in Seq(Requests) /\ out \in Seq(Byte4) /\ size \in Nat /\ got \in Seq(Byte4)
  /\ pc = "payload" => Len(queue) < MaxBacklog
  /\ pc = "reading" => reply_count > 0 /\ payload_count > 0
  /\ pc = "readByte" => packet > 0
  /\ Waiting => accepted = Nothing /\ result = "none" /\ got = <<>> /\ reqNo > 0
  /\ pc = "waitLength" => got = <<>>
  /\ result # "none" => pc = "idle"
  /\ pc = "idle" /\ result = "none" => got = <<>> /\ accepted = Nothing

\* The actual request is the last one that waits for an answer; its reply is the last
\* one that is sent.
ActualIsLast ==
  /\ \A i \in DOMAIN queue : /\ queue[i].no <= reqNo
                             /\ queue[i].no = reqNo => i = Len(queue) /\ pc # "payload"
  /\ \A p \in Pos : rxbuf[p].req <= reqNo
  /\ \A i \in DOMAIN out : out[i].req <= reqNo
  /\ out # <<>> /\ out[1].req = reqNo => queue = <<>> /\ pc # "payload"
  /\ pc = "payload" => \A p \in Pos : rxbuf[p].req # reqNo

\* The bytes being sent are the rest of one reply.
RestOfReply ==
  out # <<>> =>
    /\ \A i \in DOMAIN out : out[i].req = out[1].req /\ out[i].k = out[1].k + i - 1
    /\ out[1].k + Len(out) <= RXBUF_SIZE - 1
    /\ out[1].req = reqNo => out[1].k + Len(out) = LastByte(size) + 1

\* CleanStart is kept: only the actual request has its id.
OnlyActualHasId ==
  clean =>
    /\ \A i \in DOMAIN queue : queue[i].id = actual_req_id => queue[i].no = reqNo
    /\ out # <<>> /\ out[1].k = 0 /\ IdOf(out[1].val) = actual_req_id => out[1].req = reqNo

\* The rest of a reply does not come round to rxspos.
NoLap ==
  clean /\ ByteLost = {} /\ ~overrun /\ Waiting /\ out # <<>> /\ out[1].k > 0 =>
    /\ rxspos # rxwpos
    /\ Dist(rxspos, rxwpos) + Len(out) <= RXBUF_SIZE - 1

\* What would be taken for the start of the reply is the start of the reply.
StartIsReply ==
  clean /\ ByteLost = {} /\ Waiting /\ InRing(rxspos) /\ IsReply(rxspos) =>
    rxbuf[rxspos].req = reqNo /\ rxbuf[rxspos].k = 0

\* The reply to the actual request has begun to arrive.
Arrived ==
  \/ accepted = StartOfReply
  \/ /\ Waiting /\ InRing(rxspos) /\ rxbuf[rxspos].val # PWMRP_KEEP_ALIVE
     /\ rxbuf[rxspos].req = reqNo /\ rxbuf[rxspos].k = 0

\* Then what arrives from rxspos on is that reply, byte after byte.
ReplyFollows ==
  clean /\ ByteLost = {} /\ Arrived =>
    /\ queue = <<>> /\ rxspos # rxwpos
    /\ out # <<>> => out[1].req = reqNo
    /\ out # <<>> /\ ~overrun => out[1].k = Dist(rxspos, rxwpos)
    /\ \A p \in Pos : InRing(p) /\ Dist(rxspos, p) < Dist(rxspos, rxwpos) =>
         /\ rxbuf[p].req = reqNo /\ rxbuf[p].k = Dist(rxspos, p)
         /\ rxbuf[p].k <= LastByte(size)

\* How far it has been read.
ReadSoFar ==
  clean /\ ByteLost = {} =>
    /\ pc \in {"waitLength", "reading", "readByte"} \/ result = "ok" =>
         /\ accepted = StartOfReply
         /\ Dist(rxspos, rxrpos) <= Dist(rxspos, rxwpos)
    /\ pc = "waitLength" => Dist(rxspos, rxrpos) = 1
    /\ pc \in {"reading", "readByte"} => Dist(rxspos, rxrpos) = Len(got) + 2
    /\ result = "ok" => /\ Dist(rxspos, rxrpos) >= Len(got) + 1
                        /\ got # <<>> => Dist(rxspos, rxrpos) >= Len(got) + 2

IInv == /\ TypeOK /\ Shape /\ ActualIsLast /\ RestOfReply /\ OnlyActualHasId /\ NoLap
        /\ StartIsReply /\ ReplyFollows /\ ReadSoFar /\ DataIntact

(***************************************************************************)
(* Positions in the ring                                                   *)
(***************************************************************************)

LEMMA Sizes ==
  /\ RXBUF_SIZE \in Nat /\ RXBUF_SIZE >= 3 /\ ID_MOD \in Nat \ {0} /\ PACKET \in Nat \ {0}
  /\ MaxRequests \in Nat \ {0} /\ MaxBacklog \in Nat \ {0} /\ MaxLost \in Nat
  /\ \A n \in ReplySizes : n \in 1 .. 4 * ID_MOD - 1 /\ n + 3 <= RXBUF_SIZE
  /\ Lengths \subseteq Nat /\ DataBytes \subseteq 0 .. 4 * ID_MOD - 1
BY SizeAssumption

LEMMA AfterPos ==
  ASSUME NEW p \in Pos
  PROVE  /\ After(p) \in Pos
         /\ After(p) = IF p = RXBUF_SIZE - 1 THEN 0 ELSE p + 1
<1>1. CASE p = RXBUF_SIZE - 1
  <2>1. RXBUF_SIZE % RXBUF_SIZE = 0
    BY Sizes
  <2> QED BY <1>1, <2>1, Sizes DEF After, Pos
<1>2. CASE p # RXBUF_SIZE - 1
  <2>1. p + 1 \in 0 .. RXBUF_SIZE - 1
    BY <1>2, Sizes DEF Pos
  <2>2. (p + 1) % RXBUF_SIZE = p + 1
    BY <2>1, Sizes
  <2> QED BY <1>2, <2>1, <2>2, Sizes DEF After, Pos
<1> QED BY <1>1, <1>2

\* The start position of a reply is set to the byte before the one to write, or to the
\* one before that.
LEMMA StartResetPos ==
  ASSUME rxwpos \in Pos, NEW back \in 1 .. 2
  PROVE  StartReset(back) \in Pos /\ Dist(StartReset(back), rxwpos) = back
<1>1. CASE rxwpos < back
  <2>1. rxwpos - back + RXBUF_SIZE \in 0 .. RXBUF_SIZE - 1
    BY <1>1, Sizes DEF Pos
  <2>2. (rxwpos - back + RXBUF_SIZE) % RXBUF_SIZE = rxwpos - back + RXBUF_SIZE
    BY <2>1, Sizes
  <2> QED BY <1>1, <2>2, Sizes DEF StartReset, Pos, Dist
<1>2. CASE ~(rxwpos < back)
  <2>1. rxwpos - back \in 0 .. RXBUF_SIZE - 1
    BY <1>2, Sizes DEF Pos
  <2>2. (rxwpos - back + RXBUF_SIZE) % RXBUF_SIZE = rxwpos - back
    BY <2>1, Sizes
  <2> QED BY <1>2, <2>1, <2>2, Sizes DEF StartReset, Pos, Dist
<1> QED BY <1>1, <1>2

\* A byte that is written becomes readable, one that is read is so no more.
LEMMA WriteStep ==
  ASSUME NEW r \in Pos, NEW w \in Pos, After(w) # r
  PROVE  \A p \in Pos : (Dist(r, p) < Dist(r, After(w))) <=> (Dist(r, p) < Dist(r, w) \/ p = w)
BY AfterPos, Sizes DEF Dist, Pos

LEMMA ReadStep ==
  ASSUME NEW r \in Pos, NEW w \in Pos, r # w
  PROVE  \A p \in Pos : (Dist(After(r), p) < Dist(After(r), w))
                          <=> (Dist(r, p) < Dist(r, w) /\ p # r)
BY AfterPos, Sizes DEF Dist, Pos

LEMMA DistInjective ==
  ASSUME NEW a \in Pos, NEW b \in Pos, NEW c \in Pos, Dist(a, b) = Dist(a, c)
  PROVE  b = c
BY Sizes DEF Dist, Pos

LEMMA DistFacts ==
  ASSUME NEW a \in Pos, NEW b \in Pos
  PROVE  /\ Dist(a, b) \in Nat /\ Dist(a, b) <= RXBUF_SIZE - 1
         /\ (Dist(a, b) = 0) <=> (a = b)
         /\ Dist(a, b) < RXBUF_SIZE - 1 => Dist(a, After(b)) = Dist(a, b) + 1
         /\ After(b) # a => Dist(a, After(b)) = Dist(a, b) + 1
         /\ Dist(a, After(a)) = 1
BY AfterPos, Sizes DEF Dist, Pos

\* A reply carries the id of its request.
LEMMA IdOfReply ==
  ASSUME NEW id \in 0 .. ID_MOD - 1
  PROVE  IdOf(id) = id /\ IdOf(id + PWMRP_HAS_PAYLOAD) = id
<1>1. id % ID_MOD = id
  BY Sizes
<1>2. (id + ID_MOD) % ID_MOD = id
  BY Sizes
<1> QED BY <1>1, <1>2 DEF IdOf, PWMRP_HAS_PAYLOAD

LEMMA InvInit == Init => IInv
<1> SUFFICES ASSUME Init PROVE IInv
  OBVIOUS
<1>1. TypeOK
  <2>1. overrun \in BOOLEAN /\ clean \in BOOLEAN
    BY Zenon DEF Init
  <2>2. 0 \in Pos /\ rxbuf \in [Pos -> Byte4]
    BY Sizes DEF Init, Byte4, Blank, Byte, Pos
  <2> QED BY <2>1, <2>2, Sizes DEF Init, TypeOK, Byte4
<1>2. Shape
  BY Sizes DEF Init, Shape, Waiting
<1>3. ActualIsLast /\ RestOfReply /\ OnlyActualHasId
  BY Sizes DEF Init, ActualIsLast, RestOfReply, OnlyActualHasId, Blank, Byte
<1>4. NoLap /\ StartIsReply
  BY DEF Init, NoLap, StartIsReply, Waiting
<1>5. ReplyFollows /\ ReadSoFar /\ DataIntact
  <2>1. ~Arrived
    BY DEF Init, Arrived, Waiting, Nothing, StartOfReply
  <2> QED BY <2>1 DEF Init, ReplyFollows, ReadSoFar, DataIntact
<1> QED BY <1>1, <1>2, <1>3, <1>4, <1>5 DEF IInv

(***************************************************************************)
(* A byte is received, a byte is read                                      *)
(***************************************************************************)

LEMMA ReceiveType ==
  ASSUME TypeOK, NEW b \in Byte4, NEW isStart \in BOOLEAN, Receive(b, isStart)
  PROVE  /\ rxwpos' \in Pos /\ rxspos' \in Pos /\ rxrpos' = rxrpos
         /\ rxbuf' \in [Pos -> Byte4] /\ overrun' = FALSE
         /\ errs' \subseteq {"OVERFLOW", "OVERRUN", "START", "TIMEOUT"}
         /\ \A p \in Pos : rxbuf'[p] \in {rxbuf[p], b}
<1>1. After(rxwpos) \in Pos /\ rxwpos \in Pos /\ rxbuf \in [Pos -> Byte4]
  BY AfterPos DEF TypeOK, Byte4
<1>2. rxwpos' \in {rxwpos, After(rxwpos)} /\ rxspos' \in {rxspos, rxwpos} /\ rxrpos' = rxrpos
      /\ overrun' = FALSE
  BY Zenon DEF Receive
<1>3. rxbuf' \in {rxbuf, [rxbuf EXCEPT ![rxwpos] = b]}
  BY Zenon DEF Receive
<1>4. errs' \subseteq errs \cup {"OVERFLOW", "OVERRUN"}
  BY DEF Receive
<1>5. rxbuf' \in [Pos -> Byte4] /\ \A p \in Pos : rxbuf'[p] \in {rxbuf[p], b}
  BY <1>1, <1>3
<1> QED BY <1>1, <1>2, <1>4, <1>5 DEF TypeOK

\* When the status tells of no lost byte, the byte has been appended to the ring.
LEMMA ReceiveAppends ==
  ASSUME TypeOK, NEW b \in Byte4, NEW isStart \in BOOLEAN, Receive(b, isStart),
         ByteLost' = {}
  PROVE  /\ ByteLost = {} /\ ~overrun /\ After(rxwpos) # rxrpos
         /\ rxwpos' = After(rxwpos) /\ rxbuf'[rxwpos] = b
         /\ rxspos' = IF isStart THEN rxwpos ELSE rxspos
         /\ \A p \in Pos : p # rxwpos => rxbuf'[p] = rxbuf[p]
         /\ \A p \in Pos : InRing(p)' <=> InRing(p) \/ p = rxwpos
<1>1. ByteLost = {} /\ ~overrun /\ After(rxwpos) # rxrpos
  BY DEF Receive, ByteLost
<1>2. /\ rxwpos' = After(rxwpos) /\ rxbuf' = [rxbuf EXCEPT ![rxwpos] = b] /\ rxrpos' = rxrpos
      /\ rxspos' = IF isStart THEN rxwpos ELSE rxspos
  BY <1>1 DEF Receive
<1>3. \A p \in Pos : InRing(p)' <=> InRing(p) \/ p = rxwpos
  BY <1>1, <1>2, WriteStep DEF TypeOK, InRing, Dist
<1> QED BY <1>1, <1>2, <1>3 DEF TypeOK

LEMMA ReadType ==
  ASSUME TypeOK, Unread, ReadData, rxwpos' = rxwpos
  PROVE  /\ rxrpos' \in Pos /\ rxbuf' \in [Pos -> Byte4] /\ rxbuf[rxrpos] \in Byte4
         /\ \A p \in Pos : p # rxrpos => rxbuf'[p] = rxbuf[p]
         /\ rxbuf'[rxrpos].req = 0
         /\ \A p \in Pos : InRing(p)' <=> InRing(p) /\ p # rxrpos
         /\ InRing(rxrpos)
<1>1. Blank \in Byte4 /\ Blank.req = 0
  BY Sizes DEF Blank, Byte, Byte4
<1>2. rxrpos' = After(rxrpos) /\ rxbuf' = [rxbuf EXCEPT ![rxrpos] = Blank]
  BY DEF ReadData
<1>3. \A p \in Pos : InRing(p)' <=> InRing(p) /\ p # rxrpos
  BY <1>2, ReadStep DEF TypeOK, InRing, Unread, Dist
<1>4. InRing(rxrpos)
  <2>1. rxrpos \in Pos /\ rxwpos \in Pos /\ rxrpos # rxwpos
    BY DEF TypeOK, Unread
  <2>2. Dist(rxrpos, rxrpos) = 0 /\ Dist(rxrpos, rxwpos) \in Nat \ {0}
    BY <2>1, DistFacts
  <2> QED BY <2>2 DEF InRing
<1> QED BY <1>1, <1>2, <1>3, <1>4, AfterPos DEF TypeOK, Byte4

\* What the read position moves by.
LEMMA ReadMoves ==
  ASSUME TypeOK, Unread, ReadData, rxwpos' = rxwpos, rxspos' = rxspos,
         rxspos # rxwpos, Dist(rxspos, rxrpos) <= Dist(rxspos, rxwpos)
  PROVE  /\ Dist(rxspos, rxrpos)' = Dist(rxspos, rxrpos) + 1
         /\ Dist(rxspos, rxrpos) < Dist(rxspos, rxwpos)
<1>1. rxspos \in Pos /\ rxrpos \in Pos /\ rxwpos \in Pos /\ rxrpos # rxwpos
      /\ rxrpos' = After(rxrpos)
  BY DEF TypeOK, Unread, ReadData
<1>2. Dist(rxspos, rxrpos) # Dist(rxspos, rxwpos)
  BY <1>1, Sizes DEF Dist, Pos
<1>3. /\ Dist(rxspos, rxrpos) \in Nat /\ Dist(rxspos, rxwpos) \in Nat
      /\ Dist(rxspos, rxwpos) <= RXBUF_SIZE - 1
      /\ Dist(rxspos, rxrpos) < RXBUF_SIZE - 1
           => Dist(rxspos, After(rxrpos)) = Dist(rxspos, rxrpos) + 1
  BY <1>1, DistFacts
<1>4. Dist(rxspos, rxrpos)' = Dist(rxspos, After(rxrpos))
  BY <1>1 DEF Dist
<1> QED BY <1>2, <1>3, <1>4, Sizes

(***************************************************************************)
(* The PWM controller and the receive interrupt                            *)
(***************************************************************************)

\* A byte of the reply has left the PWM controller, received or lost.
LEMMA ByteLeaves ==
  ASSUME IInv, out # <<>>, out' = Tail(out),
         UNCHANGED <<reqNo, size, clean, queue, actual_req_id, pc>>
  PROVE  /\ out[1] \in Byte4 /\ Head(out) = out[1] /\ Len(out) \in Nat \ {0}
         /\ out' \in Seq(Byte4) /\ Len(out') = Len(out) - 1
         /\ out' # <<>> => /\ out'[1].req = out[1].req /\ out'[1].k = out[1].k + 1
                           /\ Len(out) > 1
         /\ \A i \in DOMAIN out' : out'[i].req = out[1].req
         /\ RestOfReply' /\ OnlyActualHasId'
<1>1. out \in Seq(Byte4) /\ RestOfReply
  BY DEF IInv, Shape
<1>2. /\ out[1] \in Byte4 /\ Head(out) = out[1] /\ Len(out) \in Nat \ {0} /\ 1 \in DOMAIN out
      /\ out' \in Seq(Byte4) /\ Len(out') = Len(out) - 1
      /\ \A i \in DOMAIN out' : i + 1 \in DOMAIN out /\ out'[i] = out[i + 1] /\ i \in Nat \ {0}
      /\ out' # <<>> => 1 \in DOMAIN out' /\ Len(out) > 1
  BY <1>1
<1>3. \A i \in DOMAIN out : out[i].req = out[1].req /\ out[i].k = out[1].k + i - 1
  BY <1>1 DEF RestOfReply
<1>4. \A i \in DOMAIN out' : out'[i].req = out[1].req /\ out'[i].k = out[1].k + i
  BY <1>2, <1>3 DEF Byte4
<1>5. /\ out[1].k \in Nat
      /\ out' # <<>> => out'[1].req = out[1].req /\ out'[1].k = out[1].k + 1
  BY <1>2, <1>4 DEF Byte4
<1>6. RestOfReply'
  <2> SUFFICES ASSUME out' # <<>>
               PROVE  /\ \A i \in DOMAIN out' : /\ out'[i].req = out'[1].req
                                                /\ out'[i].k = out'[1].k + i - 1
                      /\ out'[1].k + Len(out') <= RXBUF_SIZE - 1
                      /\ out'[1].req = reqNo => out'[1].k + Len(out') = LastByte(size) + 1
    BY DEF RestOfReply, LastByte
  <2>1. /\ out[1].k + Len(out) <= RXBUF_SIZE - 1
        /\ out[1].req = reqNo => out[1].k + Len(out) = LastByte(size) + 1
    BY <1>1 DEF RestOfReply
  <2>2. out'[1].k + Len(out') = out[1].k + Len(out)
    <3>1. \A a \in Nat, n \in Nat : (a + 1) + (n - 1) = a + n
      OBVIOUS
    <3>2. out[1].k \in Nat /\ Len(out) \in Nat
      BY <1>2, <1>5
    <3>3. (out[1].k + 1) + (Len(out) - 1) = out[1].k + Len(out)
      BY Zenon, <3>1, <3>2
    <3>4. out'[1].k = out[1].k + 1 /\ Len(out') = Len(out) - 1
      BY Zenon, <1>2, <1>5
    <3> QED BY Zenon, <3>3, <3>4
  <2>3. \A i \in DOMAIN out' : out'[i].k = out'[1].k + i - 1
    BY <1>2, <1>4, <1>5
  <2> QED BY <1>4, <1>5, <2>1, <2>2, <2>3
<1>7. OnlyActualHasId'
  <2>1. OnlyActualHasId
    BY DEF IInv
  <2>2. out' # <<>> => out'[1].k # 0
    BY <1>2, <1>5
  <2> QED BY <2>1, <2>2 DEF OnlyActualHasId
<1> QED BY <1>2, <1>4, <1>5, <1>6, <1>7

LEMMA ReceiveFrame ==
  ASSUME IInv, NEW b \in Byte4, NEW isStart \in BOOLEAN, Receive(b, isStart),
         UNCHANGED <<usb, queue, size, lost>>, out' \in Seq(Byte4),
         b.req <= reqNo, pc = "payload" => b.req # reqNo,
         \A i \in DOMAIN out' : out'[i].req = out[1].req /\ out # <<>>
  PROVE  TypeOK' /\ Shape' /\ ActualIsLast' /\ DataIntact'
<1>1. TypeOK'
  BY ReceiveType DEF IInv, TypeOK, usb, Byte4
<1>2. Shape'
  BY DEF IInv, Shape, usb, Waiting
<1>3. ActualIsLast'
  <2>1. \A p \in Pos : rxbuf'[p] \in {rxbuf[p], b}
    BY ReceiveType DEF IInv
  <2>2. ActualIsLast /\ out \in Seq(Byte4) /\ (out # <<>> => 1 \in DOMAIN out)
    BY DEF IInv, Shape
  <2>3. out' # <<>> => 1 \in DOMAIN out'
    OBVIOUS
  <2>4. /\ \A p \in Pos : rxbuf'[p].req <= reqNo
        /\ pc = "payload" => \A p \in Pos : rxbuf'[p].req # reqNo
    BY <2>1, <2>2 DEF ActualIsLast
  <2>5. /\ \A i \in DOMAIN out' : out'[i].req <= reqNo
        /\ out' # <<>> /\ out'[1].req = reqNo => queue = <<>> /\ pc # "payload"
    BY <2>2, <2>3 DEF ActualIsLast
  <2> QED BY <2>2, <2>4, <2>5 DEF ActualIsLast, usb
<1>4. DataIntact'
  <2>1. ByteLost' = {} => ByteLost = {}
    BY ReceiveAppends DEF IInv
  <2> QED BY <2>1 DEF IInv, DataIntact, usb
<1> QED BY <1>1, <1>2, <1>3, <1>4

LEMMA SendByteInv == IInv /\ SendByte => IInv'
<1> SUFFICES ASSUME IInv, SendByte PROVE IInv'
  OBVIOUS
<1> DEFINE b == out[1]
           isStart == b.k = 0
<1>1. /\ out # <<>> /\ out' = Tail(out) /\ Receive(Head(out), Head(out).k = 0)
      /\ UNCHANGED <<usb, queue, size, lost>>
  BY DEF SendByte
<1>2. UNCHANGED <<reqNo, size, clean, queue, actual_req_id, pc, accepted, got, result>>
  BY <1>1 DEF usb
<1>3. /\ b \in Byte4 /\ Head(out) = b /\ Len(out) \in Nat \ {0}
      /\ out' \in Seq(Byte4) /\ Len(out') = Len(out) - 1
      /\ out' # <<>> => out'[1].req = b.req /\ out'[1].k = b.k + 1 /\ Len(out) > 1
      /\ \A i \in DOMAIN out' : out'[i].req = b.req
      /\ RestOfReply' /\ OnlyActualHasId'
  BY <1>1, <1>2, ByteLeaves
<1>4. isStart \in BOOLEAN /\ Receive(b, isStart) /\ b.k \in Nat /\ b.req \in Nat
  <2>1. isStart \in BOOLEAN /\ Receive(b, isStart)
    BY Zenon, <1>1, <1>3
  <2>2. b.k \in Nat /\ b.req \in Nat
    BY <1>3 DEF Byte4
  <2> QED BY <2>1, <2>2
<1>5. b.req <= reqNo /\ (b.req = reqNo => queue = <<>> /\ pc # "payload")
  <2>1. ActualIsLast /\ out \in Seq(Byte4)
    BY DEF IInv, Shape
  <2> QED BY <1>1, <2>1 DEF ActualIsLast
<1>6. TypeOK' /\ Shape' /\ ActualIsLast' /\ DataIntact'
  BY <1>1, <1>3, <1>4, <1>5, ReceiveFrame
<1>7. NoLap' /\ StartIsReply' /\ ReplyFollows' /\ ReadSoFar'
  <2> SUFFICES ASSUME ByteLost' = {}
               PROVE  NoLap' /\ StartIsReply' /\ ReplyFollows' /\ ReadSoFar'
    BY DEF NoLap, StartIsReply, ReplyFollows, ReadSoFar
  <2>0. /\ TypeOK /\ rxrpos \in Pos /\ rxwpos \in Pos /\ rxspos \in Pos /\ rxspos' \in Pos
        /\ rxrpos' = rxrpos /\ rxwpos' \in Pos
    BY <1>3, <1>4, ReceiveType DEF IInv, TypeOK
  <2>1. /\ ByteLost = {} /\ ~overrun /\ After(rxwpos) # rxrpos
        /\ rxwpos' = After(rxwpos) /\ rxbuf'[rxwpos] = b
        /\ rxspos' = IF isStart THEN rxwpos ELSE rxspos
        /\ \A p \in Pos : p # rxwpos => rxbuf'[p] = rxbuf[p]
        /\ \A p \in Pos : InRing(p)' <=> InRing(p) \/ p = rxwpos
    BY <1>3, <1>4, <2>0, ReceiveAppends
  <2> HIDE DEF b
  <2>2. /\ Dist(rxspos', rxwpos') = Dist(rxspos, rxwpos)' /\ Dist(rxspos', rxrpos) = Dist(rxspos, rxrpos)'
        /\ \A p : Dist(rxspos', p) = Dist(rxspos, p)'
    BY <2>0 DEF Dist
  <2>3. CASE isStart
    <3>1. /\ rxspos' = rxwpos /\ rxbuf'[rxspos'] = b /\ Dist(rxspos, rxwpos)' = 1 /\ rxspos' # rxwpos'
      <4>1. Dist(rxwpos, After(rxwpos)) = 1 /\ Dist(rxwpos, rxwpos) = 0
        BY <2>0, DistFacts
      <4> QED BY <2>0, <2>1, <2>2, <2>3, <4>1
    <3>2. \A p \in Pos : Dist(rxspos, p)' < Dist(rxspos, rxwpos)' => p = rxwpos
      BY <2>0, <2>2, <3>1, DistFacts
    <3>3. ~(clean /\ accepted = StartOfReply)
      <4> SUFFICES ASSUME clean, accepted = StartOfReply PROVE FALSE
        OBVIOUS
      <4>1. out[1].k = Dist(rxspos, rxwpos) /\ rxspos # rxwpos
        BY <1>1, <2>1 DEF IInv, ReplyFollows, Arrived
      <4>2. b.k # 0
        BY <2>0, <4>1, DistFacts DEF b
      <4> QED BY <2>3, <4>2
    <3>4. NoLap'
      <4>1. out' # <<>> => Len(out') <= RXBUF_SIZE - 2
        <5>1. b.k + Len(out) <= RXBUF_SIZE - 1
          BY <1>1 DEF IInv, RestOfReply, b
        <5> QED BY <1>3, <1>4, <5>1, Sizes
      <4> QED BY <1>3, <3>1, <4>1, Sizes DEF NoLap
    <3>5. StartIsReply'
      <4>1. clean /\ IdOf(b.val) = actual_req_id => b.req = reqNo
        BY <1>1, <2>3 DEF IInv, OnlyActualHasId, b
      <4> QED BY <1>2, <2>3, <3>1, <4>1 DEF StartIsReply, IsReply
    <3>6. ReplyFollows'
      <4> SUFFICES ASSUME clean, Arrived'
                   PROVE  /\ queue = <<>>
                          /\ out' # <<>> => out'[1].req = reqNo /\ out'[1].k = 1
                          /\ b.req = reqNo /\ b.k <= LastByte(size)
        BY <1>2, <2>1, <2>2, <2>3, <3>1, <3>2, DistFacts, <2>0 DEF ReplyFollows, LastByte
      <4>1. accepted' = accepted /\ StartOfReply' = StartOfReply
        BY <1>2 DEF StartOfReply
      <4>2. b.req = reqNo
        BY <1>2, <3>1, <3>3, <4>1 DEF Arrived
      <4>3. b.k + Len(out) = LastByte(size) + 1
        BY <1>1, <4>2 DEF IInv, RestOfReply, b
      <4>4. LastByte(size) \in Nat
        BY DEF IInv, Shape, LastByte
      <4> QED BY <1>3, <1>4, <1>5, <2>3, <4>2, <4>3, <4>4
    <3>7. ReadSoFar'
      <4>1. ~(clean /\ (pc \in {"waitLength", "reading", "readByte"} \/ result = "ok"))
        BY <2>1, <3>3 DEF IInv, ReadSoFar
      <4> QED BY <1>2, <4>1 DEF ReadSoFar
    <3> QED BY <3>4, <3>5, <3>6, <3>7
  <2>4. CASE ~isStart
    <3>1. rxspos' = rxspos /\ b.k > 0
      BY <1>4, <2>1, <2>4 DEF b
    <3>2. /\ Dist(rxspos, rxwpos) \in Nat /\ Dist(rxspos, rxrpos) \in Nat
          /\ Dist(rxspos, rxwpos) < RXBUF_SIZE - 1
               => Dist(rxspos, After(rxwpos)) = Dist(rxspos, rxwpos) + 1
      BY <2>0, DistFacts
    <3>3. ASSUME Dist(rxspos, rxwpos) + Len(out) <= RXBUF_SIZE - 1
          PROVE  /\ Dist(rxspos, rxwpos)' = Dist(rxspos, rxwpos) + 1
                 /\ rxspos' # rxwpos'
      <4>1. Dist(rxspos, rxwpos)' = Dist(rxspos, rxwpos) + 1
        BY <1>3, <2>1, <2>2, <3>1, <3>2, <3>3, Sizes
      <4> QED BY <2>0, <2>2, <3>1, <3>2, <4>1, DistFacts
    <3>4. NoLap'
      <4> SUFFICES ASSUME clean, Waiting, out' # <<>>
                   PROVE  /\ rxspos' # rxwpos'
                          /\ Dist(rxspos, rxwpos)' + Len(out') <= RXBUF_SIZE - 1
        BY <1>2 DEF NoLap, Waiting
      <4>1. Dist(rxspos, rxwpos) + Len(out) <= RXBUF_SIZE - 1
        BY <1>1, <2>1, <3>1 DEF IInv, NoLap, b
      <4> QED BY <1>3, <3>2, <3>3, <4>1, Sizes
    <3>5. clean /\ Waiting /\ InRing(rxspos)' => InRing(rxspos) /\ rxbuf'[rxspos] = rxbuf[rxspos]
      <4>1. clean /\ Waiting => rxspos # rxwpos
        BY <1>1, <2>1, <3>1 DEF IInv, NoLap, b
      <4>2. InRing(rxspos)' => InRing(rxspos) \/ rxspos = rxwpos
        BY <2>0, <2>1, <3>1 DEF InRing, Dist
      <4> QED BY <2>0, <2>1, <4>1, <4>2
    <3>6. StartIsReply'
      BY <1>2, <2>1, <3>1, <3>5 DEF IInv, StartIsReply, IsReply, Waiting
    <3>7. clean /\ Arrived' => Arrived
      BY <1>2, <3>1, <3>5 DEF Arrived, StartOfReply, Waiting
    <3>8. ASSUME clean, Arrived
          PROVE  /\ queue = <<>> /\ b.req = reqNo /\ b.k = Dist(rxspos, rxwpos)
                 /\ b.k <= LastByte(size)
                 /\ Dist(rxspos, rxwpos) + Len(out) <= RXBUF_SIZE - 1
                 /\ \A p \in Pos : InRing(p) /\ Dist(rxspos, p) < Dist(rxspos, rxwpos) =>
                      /\ rxbuf[p].req = reqNo /\ rxbuf[p].k = Dist(rxspos, p)
                      /\ rxbuf[p].k <= LastByte(size)
      <4>1. /\ queue = <<>> /\ b.req = reqNo /\ b.k = Dist(rxspos, rxwpos)
            /\ \A p \in Pos : InRing(p) /\ Dist(rxspos, p) < Dist(rxspos, rxwpos) =>
                 /\ rxbuf[p].req = reqNo /\ rxbuf[p].k = Dist(rxspos, p)
                 /\ rxbuf[p].k <= LastByte(size)
        BY <1>1, <2>1, <3>8 DEF IInv, ReplyFollows, b
      <4>2. /\ b.k + Len(out) <= RXBUF_SIZE - 1
            /\ b.k + Len(out) = LastByte(size) + 1
        BY <1>1, <4>1 DEF IInv, RestOfReply, b
      <4>3. LastByte(size) \in Nat
        BY DEF IInv, Shape, LastByte
      <4> QED BY <1>3, <1>4, <4>1, <4>2, <4>3
    <3>9. ReplyFollows'
      <4> SUFFICES ASSUME clean, Arrived'
                   PROVE  /\ queue = <<>> /\ rxspos' # rxwpos'
                          /\ out' # <<>> => out'[1].req = reqNo
                          /\ out' # <<>> => out'[1].k = Dist(rxspos, rxwpos)'
                          /\ \A p \in Pos :
                               InRing(p)' /\ Dist(rxspos, p)' < Dist(rxspos, rxwpos)' =>
                                 /\ rxbuf'[p].req = reqNo /\ rxbuf'[p].k = Dist(rxspos, p)'
                                 /\ rxbuf'[p].k <= LastByte(size)
        BY <1>2 DEF ReplyFollows, LastByte
      <4>1. /\ Dist(rxspos, rxwpos)' = Dist(rxspos, rxwpos) + 1 /\ rxspos' # rxwpos'
        BY <3>3, <3>7, <3>8
      <4>2. ASSUME NEW p \in Pos, InRing(p)', Dist(rxspos, p)' < Dist(rxspos, rxwpos)'
            PROVE  /\ rxbuf'[p].req = reqNo /\ rxbuf'[p].k = Dist(rxspos, p)'
                   /\ rxbuf'[p].k <= LastByte(size)
        <5>1. Dist(rxspos, p)' = Dist(rxspos, p)
          BY <2>2, <3>1
        <5>2. CASE p = rxwpos
          BY <2>1, <3>7, <3>8, <5>1, <5>2
        <5>3. CASE p # rxwpos
          <6>1. InRing(p) /\ rxbuf'[p] = rxbuf[p]
            BY <2>1, <4>2, <5>3
          <6>2. Dist(rxspos, p) # Dist(rxspos, rxwpos) /\ Dist(rxspos, p) \in Nat
            BY <2>0, <5>3, DistInjective, DistFacts
          <6>3. Dist(rxspos, p) < Dist(rxspos, rxwpos)
            BY <3>2, <4>1, <4>2, <5>1, <6>2
          <6> QED BY <3>7, <3>8, <5>1, <6>1, <6>3
        <5> QED BY <5>2, <5>3
      <4> QED BY <1>3, <3>7, <3>8, <4>1, <4>2
    <3>10. ReadSoFar'
      <4> SUFFICES ASSUME clean PROVE ReadSoFar'
        BY <1>2 DEF ReadSoFar
      <4>1. Dist(rxspos, rxrpos)' = Dist(rxspos, rxrpos)
        BY <2>2, <3>1
      <4>2. accepted = StartOfReply => Dist(rxspos, rxwpos)' = Dist(rxspos, rxwpos) + 1
        BY <3>3, <3>8 DEF Arrived
      <4>3. StartOfReply' = StartOfReply
        BY <1>2 DEF StartOfReply
      <4>4. ReadSoFar
        BY DEF IInv
      <4> QED BY <1>2, <2>1, <3>2, <4>1, <4>2, <4>3, <4>4 DEF ReadSoFar
    <3> QED BY <3>4, <3>6, <3>9, <3>10
  <2> QED BY <2>3, <2>4
<1> QED BY <1>3, <1>6, <1>7 DEF IInv

LEMMA RecordTypes ==
  ASSUME IInv
  PROVE  /\ \A i \in DOMAIN queue : queue[i].no \in Nat
         /\ \A p \in Pos : rxbuf[p].req \in Nat /\ rxbuf[p].k \in Nat
         /\ \A i \in DOMAIN out : out[i].req \in Nat /\ out[i].k \in Nat
         /\ Len(out) \in Nat /\ (out # <<>> => 1 \in DOMAIN out)
<1>1. queue \in Seq(Requests) /\ out \in Seq(Byte4) /\ rxbuf \in [Pos -> Byte4]
  BY DEF IInv, Shape, TypeOK, Byte4
<1>2. \A i \in DOMAIN queue : queue[i] \in Requests
  BY <1>1
<1>3. \A i \in DOMAIN out : out[i] \in Byte4
  BY <1>1
<1>4. \A p \in Pos : rxbuf[p] \in Byte4
  BY <1>1
<1>5. Len(out) \in Nat /\ (out # <<>> => 1 \in DOMAIN out)
  BY <1>1
<1>6. /\ \A r \in Requests : r.no \in Nat
      /\ \A b \in Byte4 : b.req \in Nat /\ b.k \in Nat
  BY Sizes DEF Requests, Byte4
<1> QED BY <1>2, <1>3, <1>4, <1>5, <1>6

\* The first request of the queue.
LEMMA HeadOfQueue ==
  ASSUME IInv, queue # <<>>
  PROVE  /\ Head(queue) = queue[1] /\ queue[1] \in Requests /\ 1 \in DOMAIN queue
         /\ Len(queue) \in Nat \ {0} /\ queue[1].no <= reqNo
         /\ queue[1].no = reqNo => Len(queue) = 1 /\ pc # "payload"
         /\ clean /\ queue[1].id = actual_req_id => queue[1].no = reqNo
         /\ ~(clean /\ ByteLost = {} /\ Arrived)
<1>1. queue \in Seq(Requests) /\ ActualIsLast /\ OnlyActualHasId
  BY DEF IInv, Shape
<1>2. /\ Head(queue) = queue[1] /\ queue[1] \in Requests /\ 1 \in DOMAIN queue
      /\ Len(queue) \in Nat \ {0}
  BY <1>1
<1> QED BY <1>1, <1>2 DEF ActualIsLast, OnlyActualHasId, IInv, ReplyFollows

LEMMA KeepAliveInv == IInv /\ KeepAlive => IInv'
<1> SUFFICES ASSUME IInv, KeepAlive PROVE IInv'
  OBVIOUS
<1> DEFINE b == Byte(PWMRP_KEEP_ALIVE, queue[1].no, 0)
<1>1. /\ out = <<>> /\ queue # <<>> /\ Receive(Byte(PWMRP_KEEP_ALIVE, Head(queue).no, 0), TRUE)
      /\ UNCHANGED <<usb, queue, out, size, lost>>
  BY DEF KeepAlive, pwm
<1>2. UNCHANGED <<reqNo, size, clean, queue, actual_req_id, pc, accepted, got, result, out>>
  BY <1>1 DEF usb
<1>3. /\ Head(queue) = queue[1] /\ queue[1] \in Requests /\ queue[1].no <= reqNo
      /\ queue[1].no = reqNo => pc # "payload"
      /\ ~(clean /\ ByteLost = {} /\ Arrived)
  BY <1>1, HeadOfQueue
<1>4. b \in Byte4 /\ b.val = PWMRP_KEEP_ALIVE /\ b.req = queue[1].no
  BY <1>3, Sizes DEF Byte, Byte4, PWMRP_KEEP_ALIVE, Requests
<1>5. Receive(b, TRUE)
  BY <1>1, <1>3
<1> HIDE DEF b
<1>6. TypeOK' /\ Shape' /\ ActualIsLast' /\ DataIntact'
  <2>1. out' \in Seq(Byte4) /\ DOMAIN out' = {}
    BY <1>1
  <2> QED BY <1>1, <1>3, <1>4, <1>5, <2>1, ReceiveFrame
<1>7. RestOfReply' /\ OnlyActualHasId' /\ NoLap'
  BY <1>1, <1>2 DEF IInv, RestOfReply, OnlyActualHasId, NoLap
<1>8. StartIsReply' /\ ReplyFollows' /\ ReadSoFar'
  <2> SUFFICES ASSUME ByteLost' = {}
               PROVE  StartIsReply' /\ ReplyFollows' /\ ReadSoFar'
    BY DEF StartIsReply, ReplyFollows, ReadSoFar
  <2>1. ByteLost = {} /\ rxspos' = rxwpos /\ rxbuf'[rxspos'] = b
    BY <1>4, <1>5, ReceiveAppends DEF IInv
  <2>2. StartIsReply'
    BY <1>4, <2>1 DEF StartIsReply, IsReply, PWMRP_KEEP_ALIVE
  <2>3. ~(clean /\ accepted = StartOfReply)
    BY <1>3, <2>1 DEF Arrived
  <2>4. ReplyFollows'
    BY <1>2, <1>4, <2>1, <2>3 DEF ReplyFollows, Arrived, StartOfReply, PWMRP_KEEP_ALIVE
  <2>5. ReadSoFar'
    BY <1>2, <2>1, <2>3 DEF IInv, ReadSoFar
  <2> QED BY <2>2, <2>4, <2>5
<1> QED BY <1>6, <1>7, <1>8 DEF IInv

LEMMA LoseByteInv == IInv /\ LoseByte => IInv'
<1> SUFFICES ASSUME IInv, LoseByte PROVE IInv'
  OBVIOUS
<1>1. /\ out # <<>> /\ lost < MaxLost /\ out' = Tail(out) /\ overrun' = TRUE /\ lost' = lost + 1
      /\ UNCHANGED <<ring, usb, errs, queue, size>>
  BY DEF LoseByte
<1>2. /\ UNCHANGED <<rxbuf, rxrpos, rxwpos, rxspos, reqNo, size, clean, queue, actual_req_id>>
      /\ UNCHANGED <<pc, accepted, got, result, errs, reply_start, reply_count>>
      /\ UNCHANGED <<payload_count, packet, dir>>
  BY <1>1 DEF usb, ring
<1>3. /\ out' \in Seq(Byte4) /\ \A i \in DOMAIN out' : out'[i].req = out[1].req
      /\ out' # <<>> => out'[1].req = out[1].req
      /\ RestOfReply' /\ OnlyActualHasId'
  BY <1>1, <1>2, ByteLeaves
<1>4. TypeOK'
  <2>1. TypeOK
    BY DEF IInv
  <2>2. lost' \in 0 .. MaxLost /\ overrun' \in BOOLEAN
    BY <1>1, <2>1, Sizes DEF TypeOK
  <2> QED BY <1>2, <2>1, <2>2 DEF TypeOK
<1>5. Shape'
  BY <1>2, <1>3 DEF IInv, Shape, Waiting
<1>6. ActualIsLast'
  <2>1. out \in Seq(Byte4) /\ 1 \in DOMAIN out /\ ActualIsLast
    BY <1>1 DEF IInv, Shape
  <2> QED BY <1>1, <1>2, <1>3, <2>1 DEF ActualIsLast
<1>7. ByteLost' = ByteLost /\ (Arrived' <=> Arrived) /\ (InRing(rxspos)' <=> InRing(rxspos))
  BY <1>2 DEF ByteLost, Arrived, InRing, Dist, Waiting, StartOfReply
<1>8. NoLap' /\ StartIsReply' /\ DataIntact'
  BY <1>1, <1>2, <1>7 DEF IInv, NoLap, StartIsReply, DataIntact, Waiting, IsReply
<1>9. ReplyFollows'
  BY <1>1, <1>2, <1>3, <1>7 DEF IInv, ReplyFollows, InRing, Dist, LastByte
<1>10. ReadSoFar'
  BY <1>2, <1>7 DEF IInv, ReadSoFar, Dist, StartOfReply
<1> QED BY <1>3, <1>4, <1>5, <1>6, <1>8, <1>9, <1>10 DEF IInv

\* The bytes of a reply are numbered from 0 and carry its request.
LEMMA ReplyShape ==
  ASSUME NEW r \in Requests, NEW data \in Payloads(r)
  PROVE  /\ Len(data) \in Nat
         /\ ReplyBytes(r, data) \in Seq(Byte4) /\ ReplyBytes(r, data) # <<>>
         /\ Len(ReplyBytes(r, data)) = LastByte(Len(data)) + 1
         /\ Len(ReplyBytes(r, data)) <= RXBUF_SIZE - 1
         /\ \A i \in DOMAIN ReplyBytes(r, data) : /\ ReplyBytes(r, data)[i].req = r.no
                                                  /\ ReplyBytes(r, data)[i].k = i - 1
         /\ IdOf(ReplyBytes(r, data)[1].val) = r.id
<1>1. /\ r.no \in 0 .. MaxRequests /\ r.id \in 0 .. 4 * ID_MOD - 1 /\ r.id \in 0 .. ID_MOD - 1
      /\ r.id + PWMRP_HAS_PAYLOAD \in 0 .. 4 * ID_MOD - 1
  BY Sizes DEF Requests, PWMRP_HAS_PAYLOAD
<1>2. \A v \in 0 .. 4 * ID_MOD - 1, k \in Nat :
        /\ Byte(v, r.no, k) \in Byte4 /\ Byte(v, r.no, k).req = r.no
        /\ Byte(v, r.no, k).k = k /\ Byte(v, r.no, k).val = v
  BY <1>1 DEF Byte, Byte4
<1>3. CASE data = <<>>
  <2>1. ReplyBytes(r, data) = <<Byte(r.id, r.no, 0)>>
    BY <1>3 DEF ReplyBytes
  <2>2. LastByte(Len(data)) = 0 /\ Len(data) = 0
    BY <1>3 DEF LastByte
  <2> QED BY <1>1, <1>2, <2>1, <2>2, IdOfReply, Sizes
<1>4. CASE data # <<>>
  <2>1. PICK n \in ReplySizes, d \in DataBytes : data = [i \in 1 .. n |-> d]
    BY <1>4 DEF Payloads
  <2>2. /\ n \in 1 .. 4 * ID_MOD - 1 /\ n \in Nat \ {0} /\ n + 3 <= RXBUF_SIZE
        /\ Len(data) = n /\ d \in 0 .. 4 * ID_MOD - 1
        /\ \A i \in 1 .. n : data[i] = d
    BY <2>1, Sizes
  <2> DEFINE h == <<Byte(r.id + PWMRP_HAS_PAYLOAD, r.no, 0), Byte(n, r.no, 1)>>
             t == [i \in 1 .. n |-> Byte(data[i], r.no, i + 1)]
  <2>3. ReplyBytes(r, data) = h \o t
    BY <1>4, <2>2 DEF ReplyBytes
  <2>4. /\ h \in Seq(Byte4) /\ Len(h) = 2
        /\ h[1] = Byte(r.id + PWMRP_HAS_PAYLOAD, r.no, 0) /\ h[2] = Byte(n, r.no, 1)
    BY <1>1, <1>2, <2>2
  <2>5. t \in Seq(Byte4) /\ Len(t) = n /\ \A i \in 1 .. n : t[i] = Byte(d, r.no, i + 1)
    <3>1. \A i \in 1 .. n : i + 1 \in Nat /\ data[i] = d
      BY <2>2
    <3>2. \A i \in 1 .. n : Byte(d, r.no, i + 1) \in Byte4
      BY Zenon, <1>2, <2>2, <3>1
    <3>3. t = [i \in 1 .. n |-> Byte(d, r.no, i + 1)]
      BY Zenon, <3>1
    <3> HIDE DEF t
    <3>4. n \in Nat
      BY <2>2
    <3> QED BY <3>2, <3>3, <3>4
  <2> HIDE DEF h, t
  <2>6. /\ h \o t \in Seq(Byte4) /\ Len(h \o t) = n + 2
        /\ \A i \in 1 .. n + 2 : (h \o t)[i] = IF i <= 2 THEN h[i] ELSE t[i - 2]
    <3>1. /\ h \o t \in Seq(Byte4) /\ Len(h \o t) = Len(h) + Len(t)
          /\ \A i \in 1 .. Len(h) + Len(t) :
               (h \o t)[i] = IF i <= Len(h) THEN h[i] ELSE t[i - Len(h)]
      BY <2>4, <2>5, ConcatProperties
    <3>2. Len(h) = 2 /\ Len(t) = n /\ 2 + n = n + 2
      BY <2>2, <2>4, <2>5
    <3> QED BY Zenon, <3>1, <3>2
  <2>7. \A i \in 1 .. n + 2 : (h \o t)[i].req = r.no /\ (h \o t)[i].k = i - 1
    <3> TAKE i \in 1 .. n + 2
    <3>1. CASE i = 1
      <4>1. (h \o t)[1] = Byte(r.id + PWMRP_HAS_PAYLOAD, r.no, 0) /\ 0 \in Nat /\ 1 - 1 = 0
        BY <2>2, <2>4, <2>6
      <4> QED BY <1>1, <1>2, <3>1, <4>1
    <3>2. CASE i = 2
      <4>1. (h \o t)[2] = Byte(n, r.no, 1) /\ 1 \in Nat /\ 2 - 1 = 1
        BY <2>2, <2>4, <2>6
      <4> QED BY <1>2, <2>2, <3>2, <4>1
    <3>3. CASE i > 2
      <4>1. i - 2 \in 1 .. n /\ i - 2 + 1 = i - 1 /\ i - 1 \in Nat
        BY <2>2, <3>3
      <4>2. (h \o t)[i] = Byte(d, r.no, i - 1)
        <5>1. (h \o t)[i] = t[i - 2] /\ i \in Nat
          BY <2>2, <2>6, <3>3
        <5>2. t[i - 2] = Byte(d, r.no, (i - 2) + 1)
          BY Zenon, <2>5, <4>1
        <5> QED BY Zenon, <4>1, <5>1, <5>2
      <4> QED BY <1>2, <2>2, <4>1, <4>2
    <3>4. i = 1 \/ i = 2 \/ i > 2
      BY <2>2
    <3> QED BY <3>1, <3>2, <3>3, <3>4
  <2>8. (h \o t)[1].val = r.id + PWMRP_HAS_PAYLOAD
    <3>1. 1 \in 1 .. n + 2 /\ (h \o t)[1] = h[1]
      BY <2>2, <2>6
    <3> QED BY <1>1, <1>2, <2>4, <3>1
  <2>9. LastByte(Len(data)) = n + 1 /\ h \o t # <<>> /\ DOMAIN (h \o t) = 1 .. n + 2
    BY <2>2, <2>6 DEF LastByte
  <2>10. Len(h \o t) = LastByte(Len(data)) + 1 /\ Len(h \o t) <= RXBUF_SIZE - 1
    <3>1. n + 2 = (n + 1) + 1 /\ n + 2 <= RXBUF_SIZE - 1
      BY <2>2, Sizes
    <3> QED BY Zenon, <2>6, <2>9, <3>1
  <2>11. IdOf((h \o t)[1].val) = r.id
    BY <1>1, <2>8, IdOfReply
  <2> QED BY <2>2, <2>3, <2>6, <2>7, <2>9, <2>10, <2>11
<1> QED BY <1>3, <1>4

LEMMA TailOfQueue ==
  ASSUME IInv, queue # <<>>
  PROVE  /\ Tail(queue) \in Seq(Requests) /\ Len(Tail(queue)) = Len(queue) - 1
         /\ \A i \in DOMAIN Tail(queue) : /\ i + 1 \in DOMAIN queue
                                          /\ Tail(queue)[i] = queue[i + 1]
BY DEF IInv, Shape

LEMMA ProcessRequestInv == IInv /\ ProcessRequest => IInv'
<1> SUFFICES ASSUME IInv, ProcessRequest PROVE IInv'
  OBVIOUS
<1> DEFINE r == queue[1]
<1>1. /\ out = <<>> /\ queue # <<>> /\ queue' = Tail(queue)
      /\ UNCHANGED <<ring, usb, errs, line>>
  BY DEF ProcessRequest
<1>2. /\ UNCHANGED <<rxbuf, rxrpos, rxwpos, rxspos, reqNo, clean, actual_req_id, dir, lost>>
      /\ UNCHANGED <<pc, accepted, got, result, errs, reply_start, reply_count, overrun>>
      /\ UNCHANGED <<payload_count, packet>>
  BY <1>1 DEF usb, ring, line
<1>3. /\ Head(queue) = r /\ r \in Requests /\ r.no <= reqNo /\ Len(queue) \in Nat \ {0}
      /\ r.no = reqNo => Len(queue) = 1 /\ pc # "payload"
      /\ clean /\ r.id = actual_req_id => r.no = reqNo
      /\ ~(clean /\ ByteLost = {} /\ Arrived)
  BY <1>1, HeadOfQueue
<1>4. PICK data \in Payloads(r) :
        /\ out' = ReplyBytes(r, data)
        /\ size' = IF r.no = reqNo THEN Len(data) ELSE size
  BY <1>3 DEF ProcessRequest
<1> HIDE DEF r
<1>5. /\ Len(data) \in Nat /\ out' \in Seq(Byte4) /\ out' # <<>> /\ 1 \in DOMAIN out'
      /\ Len(out') = LastByte(Len(data)) + 1 /\ Len(out') <= RXBUF_SIZE - 1
      /\ \A i \in DOMAIN out' : out'[i].req = r.no /\ out'[i].k = i - 1
      /\ IdOf(out'[1].val) = r.id /\ out'[1].req = r.no /\ out'[1].k = 0
      /\ Len(out') \in Nat /\ DOMAIN out' = 1 .. Len(out')
  BY <1>3, <1>4, ReplyShape
<1>6. /\ queue' \in Seq(Requests) /\ Len(queue') = Len(queue) - 1
      /\ DOMAIN queue' = 1 .. Len(queue) - 1
      /\ \A i \in DOMAIN queue' : i + 1 \in DOMAIN queue /\ queue'[i] = queue[i + 1]
  BY <1>1, <1>3, TailOfQueue
<1>7. TypeOK'
  <2>1. Len(queue') <= MaxBacklog
    BY <1>3, <1>6, Sizes DEF IInv, TypeOK
  <2> QED BY <1>2, <2>1 DEF IInv, TypeOK
<1>8. Shape'
  <2>1. size' \in Nat
    BY <1>4, <1>5 DEF IInv, Shape
  <2> QED BY <1>2, <1>3, <1>5, <1>6, <2>1, Sizes DEF IInv, Shape, Waiting
<1>9. ActualIsLast'
  <2>1. ActualIsLast
    BY DEF IInv
  <2>2. \A i \in DOMAIN queue' : /\ queue'[i].no <= reqNo
                                 /\ queue'[i].no = reqNo => i = Len(queue') /\ pc # "payload"
    BY <1>3, <1>6, <2>1 DEF ActualIsLast
  <2>3. r.no = reqNo => queue' = <<>>
    BY <1>3, <1>6
  <2> QED BY <1>2, <1>3, <1>5, <2>1, <2>2, <2>3 DEF ActualIsLast
<1>10. RestOfReply'
  <2>1. out'[1].req = reqNo => LastByte(size)' = LastByte(Len(data))
    BY <1>4, <1>5 DEF LastByte
  <2> QED BY <1>2, <1>5, <2>1 DEF RestOfReply
<1>11. OnlyActualHasId'
  BY <1>2, <1>3, <1>5, <1>6 DEF IInv, OnlyActualHasId
<1>12. ByteLost' = ByteLost /\ (Arrived' <=> Arrived) /\ (InRing(rxspos)' <=> InRing(rxspos))
  BY <1>2 DEF ByteLost, Arrived, InRing, Dist, Waiting, StartOfReply
<1>13. NoLap' /\ StartIsReply' /\ DataIntact'
  BY <1>2, <1>5, <1>12 DEF IInv, NoLap, StartIsReply, DataIntact, Waiting, IsReply
<1>14. ReplyFollows' /\ ReadSoFar'
  BY <1>2, <1>3, <1>12 DEF IInv, ReplyFollows, ReadSoFar, Dist, StartOfReply
<1> QED BY <1>7, <1>8, <1>9, <1>10, <1>11, <1>13, <1>14 DEF IInv

LEMMA FrontOfQueue ==
  ASSUME IInv, queue # <<>>
  PROVE  /\ Front(queue) \in Seq(Requests) /\ Len(Front(queue)) = Len(queue) - 1
         /\ \A i \in DOMAIN Front(queue) : /\ i \in DOMAIN queue /\ i < Len(queue)
                                           /\ Front(queue)[i] = queue[i]
<1> DEFINE n == Len(queue) - 1
<1>1. /\ queue \in Seq(Requests) /\ n \in Nat /\ n < Len(queue)
      /\ DOMAIN queue = 1 .. Len(queue) /\ Len(queue) \in Nat
  BY DEF IInv, Shape
<1>2. Front(queue) = SubSeq(queue, 1, n)
  BY DEF Front
<1> HIDE DEF n
<1>3. \A i \in 1 .. n : i \in DOMAIN queue /\ i < Len(queue) /\ queue[i] \in Requests
  BY <1>1
<1>4. SubSeq(queue, 1, n) = [i \in 1 .. n |-> queue[i]]
  BY <1>1
<1>5. [i \in 1 .. n |-> queue[i]] \in Seq(Requests) /\ Len([i \in 1 .. n |-> queue[i]]) = n
  BY <1>1, <1>3
<1> QED BY <1>1, <1>2, <1>3, <1>4, <1>5 DEF n

LEMMA LoseRequestInv == IInv /\ LoseRequest => IInv'
<1> SUFFICES ASSUME IInv, LoseRequest PROVE IInv'
  OBVIOUS
<1>1. /\ queue # <<>> /\ lost < MaxLost /\ queue' = Front(queue) /\ lost' = lost + 1
      /\ UNCHANGED <<ring, usb, errs, out, size, overrun>>
  BY DEF LoseRequest
<1>2. /\ UNCHANGED <<rxbuf, rxrpos, rxwpos, rxspos, reqNo, clean, actual_req_id, dir, out>>
      /\ UNCHANGED <<pc, accepted, got, result, errs, reply_start, reply_count, overrun>>
      /\ UNCHANGED <<payload_count, packet, size>>
  BY <1>1 DEF usb, ring
<1>3. ~(clean /\ ByteLost = {} /\ Arrived) /\ Len(queue) \in Nat \ {0}
  BY <1>1, HeadOfQueue
<1>4. /\ queue' \in Seq(Requests) /\ Len(queue') = Len(queue) - 1
      /\ \A i \in DOMAIN queue' : i \in DOMAIN queue /\ i < Len(queue) /\ queue'[i] = queue[i]
  BY <1>1, FrontOfQueue
<1>5. TypeOK'
  <2>1. Len(queue') <= MaxBacklog /\ lost' \in 0 .. MaxLost
    BY <1>1, <1>3, <1>4, Sizes DEF IInv, TypeOK
  <2> QED BY <1>2, <2>1 DEF IInv, TypeOK
<1>6. Shape'
  BY <1>2, <1>3, <1>4, Sizes DEF IInv, Shape, Waiting
<1>7. ActualIsLast' /\ RestOfReply' /\ OnlyActualHasId'
  <2>1. ActualIsLast /\ RestOfReply /\ OnlyActualHasId
    BY DEF IInv
  <2>2. \A i \in DOMAIN queue' : queue'[i].no <= reqNo /\ queue'[i].no # reqNo
    BY <1>3, <1>4, <2>1 DEF ActualIsLast
  <2>3. out # <<>> => out[1].req # reqNo
    BY <1>1, <2>1 DEF ActualIsLast
  <2>4. ActualIsLast'
    BY <1>2, <2>1, <2>2, <2>3 DEF ActualIsLast
  <2>5. RestOfReply' /\ OnlyActualHasId'
    BY <1>2, <1>4, <2>1 DEF RestOfReply, OnlyActualHasId, LastByte
  <2> QED BY <2>4, <2>5
<1>8. ByteLost' = ByteLost /\ (Arrived' <=> Arrived) /\ (InRing(rxspos)' <=> InRing(rxspos))
  BY <1>2 DEF ByteLost, Arrived, InRing, Dist, Waiting, StartOfReply
<1>9. NoLap' /\ StartIsReply' /\ DataIntact'
  BY <1>2, <1>8 DEF IInv, NoLap, StartIsReply, DataIntact, Waiting, IsReply, Dist
<1>10. ReplyFollows' /\ ReadSoFar'
  BY <1>2, <1>3, <1>8 DEF IInv, ReplyFollows, ReadSoFar, Dist, StartOfReply
<1> QED BY <1>5, <1>6, <1>7, <1>9, <1>10 DEF IInv

(***************************************************************************)
(* The USB controller sends a request                                      *)
(***************************************************************************)

\* A request that is sent goes to the end of the queue.
LEMMA AppendToQueue ==
  ASSUME NEW q \in Seq(Requests), NEW e \in Requests
  PROVE  /\ Append(q, e) \in Seq(Requests) /\ Len(Append(q, e)) = Len(q) + 1
         /\ \A i \in DOMAIN Append(q, e) :
              \/ i \in DOMAIN q /\ Append(q, e)[i] = q[i]
              \/ i = Len(q) + 1 /\ Append(q, e)[i] = e
BY AppendProperties

LEMMA SendPayloadInv == IInv /\ SendPayload => IInv'
<1> SUFFICES ASSUME IInv, SendPayload PROVE IInv'
  OBVIOUS
<1> DEFINE e == [no |-> reqNo, id |-> actual_req_id, dir |-> dir]
<1>1. /\ pc = "payload" /\ pc' = "waitStart" /\ queue' = Append(queue, e)
      /\ UNCHANGED <<rxbuf, rxrpos, rxwpos, rxspos, reqNo, clean, actual_req_id, dir, out>>
      /\ UNCHANGED <<accepted, got, result, errs, reply_start, reply_count, overrun>>
      /\ UNCHANGED <<payload_count, packet, size, lost>>
  BY DEF SendPayload, Queued, ring, line
<1>2. Waiting /\ Waiting' /\ accepted = Nothing /\ result = "none" /\ got = <<>> /\ reqNo > 0
  BY <1>1 DEF IInv, Shape, Waiting
<1>3. e \in Requests /\ e.no = reqNo
  BY <1>2 DEF Requests, IInv, TypeOK
<1> HIDE DEF e
<1>4. /\ queue' \in Seq(Requests) /\ Len(queue') = Len(queue) + 1
      /\ \A i \in DOMAIN queue' : \/ i \in DOMAIN queue /\ queue'[i] = queue[i]
                                  \/ i = Len(queue') /\ queue'[i] = e
  BY <1>1, <1>3, AppendToQueue DEF IInv, Shape
<1>5. TypeOK'
  <2>1. Len(queue') <= MaxBacklog
    BY <1>1, <1>4, Sizes DEF IInv, Shape
  <2> QED BY <1>1, <2>1 DEF IInv, TypeOK
<1>6. Shape'
  BY <1>1, <1>2, <1>4 DEF IInv, Shape
<1>7. ActualIsLast' /\ RestOfReply' /\ OnlyActualHasId'
  <2>1. ActualIsLast /\ RestOfReply /\ OnlyActualHasId
    BY DEF IInv
  <2>2. ActualIsLast'
    <3>1. reqNo \in Nat
      BY DEF IInv, TypeOK
    <3>2. \A i \in DOMAIN queue : queue[i].no <= reqNo /\ queue[i].no # reqNo
      BY <1>1, <2>1 DEF ActualIsLast
    <3>3. \A i \in DOMAIN queue' : /\ queue'[i].no <= reqNo
                                   /\ queue'[i].no = reqNo => i = Len(queue')
      BY <1>3, <1>4, <3>1, <3>2
    <3>4. out # <<>> => out[1].req # reqNo
      BY <1>1, <2>1 DEF ActualIsLast
    <3> QED BY <1>1, <2>1, <3>3, <3>4 DEF ActualIsLast
  <2>3. RestOfReply'
    BY <1>1, <2>1 DEF RestOfReply, LastByte
  <2>4. OnlyActualHasId'
    BY <1>1, <1>3, <1>4, <2>1 DEF OnlyActualHasId
  <2> QED BY <2>2, <2>3, <2>4
<1>8. NoLap' /\ StartIsReply' /\ DataIntact'
  BY <1>1, <1>2 DEF IInv, NoLap, StartIsReply, DataIntact, IsReply, Dist, InRing, ByteLost
<1>9. ReplyFollows' /\ ReadSoFar'
  <2>1. \A p \in Pos : rxbuf[p].req # reqNo
    BY <1>1 DEF IInv, ActualIsLast
  <2>2. ~Arrived'
    BY <1>1, <1>2, <2>1 DEF Arrived, Nothing, StartOfReply, IInv, TypeOK
  <2> QED BY <1>1, <1>2, <2>2 DEF ReplyFollows, ReadSoFar
<1> QED BY <1>5, <1>6, <1>7, <1>8, <1>9 DEF IInv

LEMMA SetupInv ==
  ASSUME IInv, NEW d \in {"in", "out"}, NEW len \in Nat, NEW hasPayload \in BOOLEAN,
         Setup(d, len, hasPayload)
  PROVE  IInv'
<1> DEFINE id == (actual_req_id + 1) % ID_MOD
           e == [no |-> reqNo + 1, id |-> id, dir |-> d]
<1>1. /\ reqNo < MaxRequests /\ Len(queue) < MaxBacklog
      /\ \E back \in 1 .. 2 : (back = 2 => Unread) /\ rxspos' = StartReset(back)
      /\ actual_req_id' = id /\ reqNo' = reqNo + 1
      /\ payload_count' = len /\ dir' = d
      /\ pc' = IF hasPayload THEN "payload" ELSE "waitStart"
      /\ queue' = IF hasPayload THEN queue ELSE Append(queue, e)
      /\ errs' = {} /\ result' = "none" /\ size' = 0 /\ got' = <<>> /\ accepted' = Nothing
      /\ clean' = CleanStart(id) /\ reply_start' = 0 /\ reply_count' = 0 /\ packet' = 0
      /\ UNCHANGED <<rxbuf, rxrpos, rxwpos, out, overrun, lost>>
  BY DEF Setup, Queued, Forget, line
<1>2. id \in 0 .. ID_MOD - 1 /\ reqNo \in Nat
  <2>1. actual_req_id + 1 \in Nat /\ reqNo \in Nat
    BY Sizes DEF IInv, TypeOK
  <2>2. \A a \in Nat : a % ID_MOD \in 0 .. ID_MOD - 1
    BY Sizes
  <2> QED BY <2>1, <2>2
<1> HIDE DEF id
<1>3. e \in Requests /\ e.no = reqNo + 1
  BY <1>1, <1>2, Sizes DEF Requests, IInv, TypeOK
<1> HIDE DEF e
<1>4. /\ queue' \in Seq(Requests) /\ Len(queue') <= MaxBacklog
      /\ hasPayload => Len(queue') < MaxBacklog
      /\ \A i \in DOMAIN queue' :
           \/ i \in DOMAIN queue /\ queue'[i] = queue[i]
           \/ i = Len(queue') /\ queue'[i] = e /\ ~hasPayload
  BY <1>1, <1>3, AppendToQueue, Sizes DEF IInv, Shape
<1>5. /\ rxwpos \in Pos /\ rxrpos \in Pos /\ 0 \in Pos /\ rxspos' \in Pos
      /\ clean' => Dist(rxspos', rxwpos) = 1
  <2>1. clean' => ~Unread
    BY <1>1 DEF CleanStart, Unread
  <2>2. rxwpos \in Pos /\ rxrpos \in Pos /\ 0 \in Pos
    BY Sizes DEF IInv, TypeOK, Pos
  <2> QED BY <1>1, <2>1, <2>2, StartResetPos
<1>6. TypeOK'
  <2>1. clean' \in BOOLEAN
    BY Zenon, <1>1 DEF CleanStart
  <2> QED BY <1>1, <1>2, <1>4, <1>5, <2>1, Sizes DEF IInv, TypeOK
<1>7. Shape'
  BY <1>1, <1>2, <1>4 DEF IInv, Shape, Waiting
<1>8. ActualIsLast' /\ RestOfReply'
  <2>1. ActualIsLast /\ RestOfReply
    BY DEF IInv
  <2>2. /\ \A i \in DOMAIN queue : queue[i].no \in Nat /\ queue[i].no <= reqNo
        /\ \A p \in Pos : rxbuf[p].req \in Nat /\ rxbuf[p].req <= reqNo
        /\ \A i \in DOMAIN out : out[i].req \in Nat /\ out[i].req <= reqNo
        /\ out # <<>> => 1 \in DOMAIN out
    BY <2>1, RecordTypes DEF ActualIsLast
  <2>3. ActualIsLast'
    BY <1>1, <1>2, <1>3, <1>4, <2>2 DEF ActualIsLast
  <2>4. RestOfReply'
    BY <1>1, <1>2, <2>1, <2>2 DEF RestOfReply
  <2> QED BY <2>3, <2>4
<1>9. OnlyActualHasId'
  <2> SUFFICES ASSUME clean'
               PROVE  /\ \A i \in DOMAIN queue' : queue'[i].id = id => queue'[i].no = reqNo + 1
                      /\ out # <<>> /\ out[1].k = 0 => IdOf(out[1].val) # id
    BY <1>1 DEF OnlyActualHasId
  <2>1. /\ \A i \in DOMAIN queue : queue[i].id # id
        /\ out # <<>> => IdOf(Head(out).val) # id \/ Head(out).k # 0
    BY <1>1 DEF CleanStart
  <2>2. out # <<>> => Head(out) = out[1]
    BY DEF IInv, Shape
  <2> QED BY <1>3, <1>4, <2>1, <2>2
<1>10. NoLap'
  <2> SUFFICES ASSUME clean', out # <<>>, out[1].k > 0
               PROVE  rxspos' # rxwpos /\ 1 + Len(out) <= RXBUF_SIZE - 1
    BY <1>1, <1>5 DEF NoLap, Dist
  <2>1. out[1].k + Len(out) <= RXBUF_SIZE - 1 /\ out[1].k \in Nat /\ Len(out) \in Nat
    BY RecordTypes DEF IInv, RestOfReply
  <2>2. rxspos' # rxwpos
    BY <1>5, DistFacts
  <2> QED BY <2>1, <2>2, Sizes
<1>11. StartIsReply' /\ ReplyFollows'
  <2> SUFFICES ASSUME clean' PROVE StartIsReply' /\ ReplyFollows'
    BY DEF StartIsReply, ReplyFollows
  <2>1. rxrpos' = rxwpos'
    BY <1>1 DEF CleanStart
  <2>2. ~InRing(rxspos)'
    BY <1>1, <1>5, <2>1, Sizes DEF InRing, Dist, Pos
  <2>3. accepted' # StartOfReply'
    BY <1>1 DEF Nothing, StartOfReply
  <2> QED BY <2>2, <2>3 DEF StartIsReply, ReplyFollows, Arrived
<1>12. ReadSoFar' /\ DataIntact'
  BY <1>1 DEF ReadSoFar, DataIntact
<1> QED BY <1>6, <1>7, <1>8, <1>9, <1>10, <1>11, <1>12 DEF IInv

LEMMA ResetInv == IInv /\ ResetPwmCtrl => IInv'
<1> SUFFICES ASSUME IInv, ResetPwmCtrl PROVE IInv'
  OBVIOUS
<1>1. /\ rxrpos' = 0 /\ rxwpos' = 0 /\ rxbuf' = [p \in Pos |-> Blank]
      /\ queue' = <<>> /\ out' = <<>> /\ overrun' = FALSE
      /\ errs' = {} /\ pc' = "idle" /\ result' = "none" /\ reqNo < MaxRequests
      /\ reqNo' = reqNo + 1 /\ size' = 0 /\ got' = <<>> /\ accepted' = Nothing
      /\ reply_start' = 0 /\ reply_count' = 0 /\ packet' = 0
      /\ UNCHANGED <<rxspos, actual_req_id, payload_count, dir, clean, lost>>
  BY DEF ResetPwmCtrl, Forget
<1>2. 0 \in Pos /\ Blank \in Byte4 /\ Blank.req = 0 /\ reqNo \in Nat
  BY Sizes DEF Pos, Blank, Byte, Byte4, IInv, TypeOK
<1>3. TypeOK'
  <2>1. rxbuf' \in [Pos -> Byte4] /\ overrun' \in BOOLEAN
    BY Zenon, <1>1, <1>2
  <2> QED BY <1>1, <1>2, <2>1, Sizes DEF IInv, TypeOK, Byte4
<1>4. Shape'
  BY <1>1 DEF Shape, Waiting
<1>5. ActualIsLast' /\ RestOfReply' /\ OnlyActualHasId'
  BY <1>1, <1>2 DEF ActualIsLast, RestOfReply, OnlyActualHasId
<1>6. NoLap' /\ StartIsReply' /\ ReplyFollows'
  <2>1. ~Waiting' /\ ~Arrived'
    BY <1>1 DEF Waiting, Arrived, Nothing, StartOfReply
  <2> QED BY <2>1 DEF NoLap, StartIsReply, ReplyFollows
<1>7. ReadSoFar' /\ DataIntact'
  BY <1>1 DEF ReadSoFar, DataIntact
<1> QED BY <1>3, <1>4, <1>5, <1>6, <1>7 DEF IInv

(***************************************************************************)
(* The USB controller reads the reply                                      *)
(***************************************************************************)

\* What does not depend on the place where the USB controller is.
LEMMA WaitKeeps ==
  ASSUME IInv, WaitFrame, pc # "payload", pc' # "payload",
         \A p \in Pos : rxbuf'[p].req \in {rxbuf[p].req, 0}
  PROVE  ActualIsLast' /\ RestOfReply' /\ OnlyActualHasId'
<1>1. UNCHANGED <<actual_req_id, reqNo, clean, queue, out, size>>
  BY DEF WaitFrame, pwm
<1>2. reqNo \in Nat /\ ActualIsLast /\ RestOfReply /\ OnlyActualHasId
  BY DEF IInv, TypeOK
<1>3. \A p \in Pos : rxbuf'[p].req <= reqNo
  BY <1>2 DEF ActualIsLast
<1>4. ActualIsLast'
  BY <1>1, <1>2, <1>3 DEF ActualIsLast
<1>5. RestOfReply' /\ OnlyActualHasId'
  BY <1>1, <1>2 DEF RestOfReply, OnlyActualHasId, LastByte
<1> QED BY <1>4, <1>5

LEMMA ReadKeeps ==
  ASSUME IInv, Unread, ReadData, WaitFrame, errs' = errs, pc # "payload", pc' # "payload",
         pc' = "waitStart" => pc = "waitStart",
         clean /\ ByteLost = {} /\ Arrived' => Arrived
  PROVE  /\ ActualIsLast' /\ RestOfReply' /\ OnlyActualHasId' /\ NoLap' /\ StartIsReply'
         /\ ReplyFollows'
         /\ rxrpos' \in Pos /\ rxbuf' \in [Pos -> Byte4] /\ rxbuf[rxrpos] \in Byte4
<1>1. UNCHANGED <<rxwpos, rxspos, actual_req_id, reqNo, clean, queue, out, size, overrun>>
  BY DEF WaitFrame, pwm, line
<1>2. TypeOK /\ rxspos \in Pos /\ rxrpos \in Pos /\ rxwpos \in Pos
  BY DEF IInv, TypeOK
<1>3. /\ rxrpos' \in Pos /\ rxbuf' \in [Pos -> Byte4] /\ rxbuf[rxrpos] \in Byte4
      /\ \A p \in Pos : p # rxrpos => rxbuf'[p] = rxbuf[p]
      /\ rxbuf'[rxrpos].req = 0
      /\ \A p \in Pos : InRing(p)' <=> InRing(p) /\ p # rxrpos
  BY <1>1, <1>2, ReadType
<1>4. ActualIsLast' /\ RestOfReply' /\ OnlyActualHasId'
  BY <1>3, WaitKeeps
<1>5. (Waiting' => Waiting) /\ ByteLost' = ByteLost
  BY DEF Waiting, ByteLost
<1>6. NoLap'
  BY <1>1, <1>5 DEF IInv, NoLap, Dist
<1>7. InRing(rxspos)' => InRing(rxspos) /\ rxbuf'[rxspos] = rxbuf[rxspos]
  <2>1. InRing(rxspos)' => Dist(rxrpos', rxspos) < Dist(rxrpos', rxwpos)
    BY <1>1 DEF InRing, Dist
  <2> QED BY <1>1, <1>2, <1>3, <2>1 DEF InRing, Dist
<1>8. StartIsReply'
  BY <1>1, <1>5, <1>7 DEF IInv, StartIsReply, IsReply
<1>9. ReplyFollows'
  <2> SUFFICES ASSUME clean, ByteLost = {}, Arrived' PROVE ReplyFollows'
    BY <1>1, <1>5 DEF ReplyFollows
  <2>1. /\ queue = <<>> /\ rxspos # rxwpos
        /\ out # <<>> => out[1].req = reqNo
        /\ out # <<>> /\ ~overrun => out[1].k = Dist(rxspos, rxwpos)
        /\ \A p \in Pos : InRing(p) /\ Dist(rxspos, p) < Dist(rxspos, rxwpos) =>
             /\ rxbuf[p].req = reqNo /\ rxbuf[p].k = Dist(rxspos, p)
             /\ rxbuf[p].k <= LastByte(size)
    BY DEF IInv, ReplyFollows
  <2>2. \A p : Dist(rxspos, p)' = Dist(rxspos, p)
    BY <1>1 DEF Dist
  <2>3. Dist(rxspos, rxwpos)' = Dist(rxspos, rxwpos) /\ LastByte(size)' = LastByte(size)
    BY <1>1 DEF Dist, LastByte
  <2>4. \A p \in Pos : InRing(p)' /\ Dist(rxspos, p)' < Dist(rxspos, rxwpos)' =>
          /\ rxbuf'[p].req = reqNo /\ rxbuf'[p].k = Dist(rxspos, p)'
          /\ rxbuf'[p].k <= LastByte(size)'
    BY <1>3, <2>1, <2>2, <2>3
  <2> QED BY <1>1, <2>1, <2>3, <2>4 DEF ReplyFollows
<1> QED BY <1>3, <1>4, <1>6, <1>8, <1>9

LEMMA DropByteInv == IInv /\ DropByte => IInv'
<1> SUFFICES ASSUME IInv, DropByte PROVE IInv'
  OBVIOUS
<1>1. /\ pc = "waitStart" /\ Unread /\ ReadData /\ WaitFrame
      /\ UNCHANGED <<errs, reply_start, reply_count, payload_count, pc, packet, result>>
      /\ UNCHANGED <<accepted, got>>
      /\ UNCHANGED <<rxwpos, rxspos, actual_req_id, dir, reqNo, clean, queue, out, size>>
      /\ UNCHANGED <<overrun, lost>>
  BY DEF DropByte, WaitFrame, pwm, line
<1>2. Waiting /\ Waiting' /\ accepted = Nothing /\ result = "none" /\ got = <<>>
  BY <1>1 DEF IInv, Shape, Waiting
<1>3. Arrived' => Arrived
  <2>1. /\ \A p \in Pos : p # rxrpos => rxbuf'[p] = rxbuf[p]
        /\ \A p \in Pos : InRing(p)' <=> InRing(p) /\ p # rxrpos
    BY <1>1, ReadType DEF IInv
  <2>2. InRing(rxspos)' => InRing(rxspos) /\ rxbuf'[rxspos] = rxbuf[rxspos]
    <3>1. InRing(rxspos)' => Dist(rxrpos', rxspos) < Dist(rxrpos', rxwpos)
      BY <1>1 DEF InRing, Dist
    <3> QED BY <1>1, <2>1, <3>1 DEF InRing, Dist, IInv, TypeOK
  <2> QED BY <1>1, <1>2, <2>2 DEF Arrived, Nothing, StartOfReply
<1>4. /\ ActualIsLast' /\ RestOfReply' /\ OnlyActualHasId' /\ NoLap' /\ StartIsReply'
      /\ ReplyFollows' /\ rxrpos' \in Pos /\ rxbuf' \in [Pos -> Byte4]
  BY <1>1, <1>3, ReadKeeps
<1>5. TypeOK'
  BY <1>1, <1>4 DEF IInv, TypeOK, Byte4
<1>6. Shape'
  BY <1>1 DEF IInv, Shape, Waiting
<1>7. ReadSoFar' /\ DataIntact'
  BY <1>1, <1>2 DEF ReadSoFar, DataIntact
<1> QED BY <1>4, <1>5, <1>6, <1>7 DEF IInv

LEMMA AcceptStartInv == IInv /\ AcceptStart => IInv'
<1> SUFFICES ASSUME IInv, AcceptStart PROVE IInv'
  OBVIOUS
<1>1. /\ pc = "waitStart" /\ Unread /\ ReadData /\ WaitFrame /\ IsReply(rxrpos)
      /\ reply_start' = rxrpos /\ errs' = errs
      /\ UNCHANGED <<errs, payload_count, packet, got>>
      /\ accepted' = [req |-> rxbuf[rxrpos].req, k |-> rxbuf[rxrpos].k]
      /\ UNCHANGED <<rxwpos, rxspos, actual_req_id, dir, reqNo, clean, queue, out, size>>
      /\ UNCHANGED <<overrun, lost>>
  BY DEF AcceptStart, WaitFrame, pwm, line
<1>2. \/ pc' = "waitLength" /\ UNCHANGED <<reply_count, result>>
      \/ pc' = "idle" /\ result' = "ok" /\ reply_count' = 0
  BY DEF AcceptStart, Answered
<1>3. Waiting /\ ~Waiting' /\ accepted = Nothing /\ result = "none" /\ got = <<>>
  BY <1>1, <1>2 DEF IInv, Shape, Waiting
<1>4. /\ rxspos = rxrpos /\ InRing(rxspos) /\ IsReply(rxspos)
      /\ rxbuf[rxspos].val # PWMRP_KEEP_ALIVE
  <2>1. InRing(rxrpos)
    BY <1>1, ReadType DEF IInv
  <2> QED BY <1>1, <2>1 DEF IsReply
<1>5. clean /\ ByteLost = {} => Arrived /\ accepted' = StartOfReply'
  <2> SUFFICES ASSUME clean, ByteLost = {} PROVE Arrived /\ accepted' = StartOfReply'
    OBVIOUS
  <2>1. rxbuf[rxspos].req = reqNo /\ rxbuf[rxspos].k = 0
    BY <1>3, <1>4 DEF IInv, StartIsReply
  <2> QED BY <1>1, <1>3, <1>4, <2>1 DEF Arrived, StartOfReply
<1>6. /\ ActualIsLast' /\ RestOfReply' /\ OnlyActualHasId' /\ NoLap' /\ StartIsReply'
      /\ ReplyFollows' /\ rxrpos' \in Pos /\ rxbuf' \in [Pos -> Byte4]
  BY <1>1, <1>2, <1>5, ReadKeeps
<1>7. TypeOK'
  <2>1. /\ reply_start' \in Pos /\ reply_count' \in Nat
        /\ pc' \in {"waitLength", "idle"} /\ result' \in {"none", "ok", "stall"}
    <3>1. rxrpos \in Pos /\ reply_count \in Nat /\ 0 \in Nat
      BY DEF IInv, TypeOK
    <3>2. reply_count' \in Nat
      BY Zenon, <1>2, <3>1
    <3> QED BY <1>1, <1>2, <1>3, <3>1, <3>2
  <2> QED BY <1>1, <1>6, <2>1 DEF IInv, TypeOK, Byte4
<1>8. Shape'
  BY <1>1, <1>2, <1>3 DEF IInv, Shape
<1>9. ReadSoFar'
  <2> SUFFICES ASSUME clean, ByteLost = {} PROVE ReadSoFar'
    BY <1>1 DEF ReadSoFar, ByteLost
  <2>1. /\ rxspos \in Pos /\ rxwpos \in Pos /\ rxrpos' = After(rxrpos) /\ rxspos # rxwpos
    BY <1>1, <1>5 DEF IInv, TypeOK, ReadData, ReplyFollows
  <2>2. Dist(rxspos, rxrpos)' = 1 /\ Dist(rxspos, rxwpos)' \in Nat \ {0}
    <3>1. Dist(rxspos, After(rxspos)) = 1 /\ Dist(rxspos, rxwpos) \in Nat \ {0}
      BY <2>1, DistFacts
    <3> QED BY <1>1, <1>4, <2>1, <3>1 DEF Dist
  <2>3. Dist(rxspos, rxrpos)' <= Dist(rxspos, rxwpos)'
    BY <2>2
  <2>4. Len(got') = 0 /\ got' = <<>>
    BY <1>1, <1>3
  <2> QED BY <1>2, <1>5, <2>2, <2>3, <2>4 DEF ReadSoFar
<1>10. DataIntact'
  BY <1>1, <1>3 DEF DataIntact
<1> QED BY <1>6, <1>7, <1>8, <1>9, <1>10 DEF IInv

\* The byte that is read next belongs to the reply, and it is the next one.
LEMMA NextByte ==
  ASSUME IInv, Unread, ReadData, WaitFrame, clean, ByteLost = {},
         pc \in {"waitLength", "readByte"}
  PROVE  /\ rxbuf[rxrpos].req = reqNo /\ rxbuf[rxrpos].k = Dist(rxspos, rxrpos)
         /\ Dist(rxspos, rxrpos)' = Dist(rxspos, rxrpos) + 1
         /\ Dist(rxspos, rxrpos)' <= Dist(rxspos, rxwpos)'
         /\ accepted = StartOfReply
<1>1. /\ accepted = StartOfReply /\ Dist(rxspos, rxrpos) <= Dist(rxspos, rxwpos)
      /\ TypeOK /\ rxspos \in Pos /\ rxrpos \in Pos /\ rxwpos \in Pos
      /\ UNCHANGED <<rxwpos, rxspos>>
  BY DEF IInv, ReadSoFar, TypeOK, WaitFrame
<1>2. /\ rxspos # rxwpos
      /\ \A p \in Pos : InRing(p) /\ Dist(rxspos, p) < Dist(rxspos, rxwpos) =>
           rxbuf[p].req = reqNo /\ rxbuf[p].k = Dist(rxspos, p)
  BY <1>1 DEF IInv, ReplyFollows, Arrived
<1>3. /\ Dist(rxspos, rxrpos)' = Dist(rxspos, rxrpos) + 1
      /\ Dist(rxspos, rxrpos) < Dist(rxspos, rxwpos)
  BY <1>1, <1>2, ReadMoves
<1>4. InRing(rxrpos)
  BY <1>1, ReadType
<1>5. Dist(rxspos, rxwpos)' = Dist(rxspos, rxwpos) /\ Dist(rxspos, rxrpos) \in Nat
      /\ Dist(rxspos, rxwpos) \in Nat
  BY <1>1, DistFacts DEF Dist
<1> QED BY <1>1, <1>2, <1>3, <1>4, <1>5

LEMMA AcceptLengthInv == IInv /\ AcceptLength => IInv'
<1> SUFFICES ASSUME IInv, AcceptLength PROVE IInv'
  OBVIOUS
<1>1. /\ pc = "waitLength" /\ Unread /\ ReadData /\ WaitFrame
      /\ UNCHANGED <<errs, reply_start, payload_count, packet, accepted, got>>
      /\ UNCHANGED <<rxwpos, rxspos, actual_req_id, dir, reqNo, clean, queue, out, size>>
      /\ UNCHANGED <<overrun, lost>>
  BY DEF AcceptLength, WaitFrame, pwm, line
<1>2. /\ reply_count' = rxbuf[rxrpos].val
      /\ \/ pc' = "reading" /\ result' = result /\ reply_count' # 0 /\ payload_count # 0
         \/ pc' = "idle" /\ result' = "ok"
  BY DEF AcceptLength, Answered
<1>3. ~Waiting /\ ~Waiting' /\ result = "none" /\ got = <<>>
  BY <1>1, <1>2 DEF IInv, Shape, Waiting
<1>4. Arrived' => Arrived
  BY <1>1, <1>3 DEF Arrived, StartOfReply
<1>5. /\ ActualIsLast' /\ RestOfReply' /\ OnlyActualHasId' /\ NoLap' /\ StartIsReply'
      /\ ReplyFollows' /\ rxrpos' \in Pos /\ rxbuf' \in [Pos -> Byte4]
      /\ rxbuf[rxrpos] \in Byte4
  BY <1>1, <1>2, <1>4, ReadKeeps
<1>6. reply_count' \in Nat
  BY <1>2, <1>5, Sizes DEF Byte4
<1>7. TypeOK'
  BY <1>1, <1>2, <1>5, <1>6 DEF IInv, TypeOK, Byte4
<1>8. Shape'
  <2>1. pc' = "reading" => reply_count' > 0 /\ payload_count' > 0
    <3>1. payload_count \in Nat
      BY DEF IInv, TypeOK
    <3>2. pc' = "reading" => reply_count' # 0 /\ payload_count # 0
      BY <1>2
    <3> QED BY <1>1, <1>6, <3>1, <3>2
  <2> QED BY <1>1, <1>2, <1>3, <2>1 DEF IInv, Shape
<1>9. ReadSoFar'
  <2> SUFFICES ASSUME clean, ByteLost = {} PROVE ReadSoFar'
    BY <1>1 DEF ReadSoFar, ByteLost
  <2>1. /\ Dist(rxspos, rxrpos)' = Dist(rxspos, rxrpos) + 1
        /\ Dist(rxspos, rxrpos)' <= Dist(rxspos, rxwpos)' /\ accepted = StartOfReply
    BY <1>1, NextByte
  <2>2. Dist(rxspos, rxrpos) = 1
    BY <1>1 DEF IInv, ReadSoFar
  <2>3. Len(got') = 0 /\ got' = <<>> /\ accepted' = StartOfReply'
    BY <1>1, <1>3, <2>1 DEF StartOfReply
  <2> QED BY <1>2, <2>1, <2>2, <2>3 DEF ReadSoFar
<1>10. DataIntact'
  BY <1>1, <1>3 DEF DataIntact
<1> QED BY <1>5, <1>7, <1>8, <1>9, <1>10 DEF IInv

LEMMA ReadByteInv == IInv /\ ReadByte => IInv'
<1> SUFFICES ASSUME IInv, ReadByte PROVE IInv'
  OBVIOUS
<1>1. /\ pc = "readByte" /\ Unread /\ ReadData /\ WaitFrame
      /\ packet' = packet - 1 /\ got' = Append(got, rxbuf[rxrpos])
      /\ UNCHANGED <<errs, reply_start, reply_count, payload_count, accepted>>
      /\ UNCHANGED <<rxwpos, rxspos, actual_req_id, dir, reqNo, clean, queue, out, size>>
      /\ UNCHANGED <<overrun, lost>>
  BY DEF ReadByte, WaitFrame, pwm, line
<1>2. \/ packet' > 0 /\ pc' = pc /\ result' = result
      \/ pc' = "idle" /\ result' = "ok"
      \/ pc' = "reading" /\ result' = result /\ payload_count # 0 /\ reply_count # 0
  BY DEF ReadByte
<1>3. ~Waiting /\ ~Waiting' /\ result = "none" /\ got \in Seq(Byte4) /\ packet \in 1 .. PACKET
  <2>1. ~Waiting /\ ~Waiting' /\ result = "none" /\ got \in Seq(Byte4)
    BY <1>1, <1>2 DEF IInv, Shape, Waiting, TypeOK
  <2>2. packet > 0 /\ packet \in 0 .. PACKET
    BY <1>1 DEF IInv, Shape, TypeOK
  <2> QED BY <2>1, <2>2, Sizes
<1>4. Arrived' => Arrived
  BY <1>1, <1>3 DEF Arrived, StartOfReply
<1>5. /\ ActualIsLast' /\ RestOfReply' /\ OnlyActualHasId' /\ NoLap' /\ StartIsReply'
      /\ ReplyFollows' /\ rxrpos' \in Pos /\ rxbuf' \in [Pos -> Byte4]
      /\ rxbuf[rxrpos] \in Byte4
  BY <1>1, <1>2, <1>4, ReadKeeps
<1>6. TypeOK'
  <2>1. packet' \in 0 .. PACKET
    BY <1>1, <1>3, Sizes
  <2>2. /\ pc' \in {"readByte", "idle", "reading"} /\ result' \in {"none", "ok", "stall"}
    BY <1>1, <1>2, <1>3
  <2> QED BY <1>1, <1>5, <2>1, <2>2 DEF IInv, TypeOK, Byte4
<1>7. /\ got' \in Seq(Byte4) /\ Len(got') = Len(got) + 1 /\ got' # <<>>
      /\ Len(got) \in Nat /\ DOMAIN got' = 1 .. Len(got) + 1
      /\ \A i \in 1 .. Len(got) : i \in DOMAIN got /\ got'[i] = got[i]
      /\ got'[Len(got) + 1] = rxbuf[rxrpos]
  BY <1>1, <1>3, <1>5, AppendProperties
<1>8. Shape'
  <2>1. pc' = "reading" => reply_count' > 0 /\ payload_count' > 0
    BY <1>1, <1>2 DEF IInv, TypeOK
  <2>2. pc' = "readByte" => packet' > 0
    BY <1>1, <1>2
  <2> QED BY <1>1, <1>2, <1>3, <1>7, <2>1, <2>2 DEF IInv, Shape
<1>9. ReadSoFar' /\ DataIntact'
  <2> SUFFICES ASSUME clean, ByteLost = {} PROVE ReadSoFar' /\ DataIntact'
    BY <1>1 DEF ReadSoFar, DataIntact, ByteLost
  <2>1. /\ Dist(rxspos, rxrpos)' = Dist(rxspos, rxrpos) + 1
        /\ Dist(rxspos, rxrpos)' <= Dist(rxspos, rxwpos)' /\ accepted = StartOfReply
        /\ rxbuf[rxrpos].req = reqNo /\ rxbuf[rxrpos].k = Dist(rxspos, rxrpos)
    BY <1>1, NextByte
  <2>2. Dist(rxspos, rxrpos) = Len(got) + 2
    BY <1>1 DEF IInv, ReadSoFar
  <2>3. accepted' = StartOfReply'
    BY <1>1, <2>1 DEF StartOfReply
  <2>4. ReadSoFar'
    <3>1. Dist(rxspos, rxrpos)' = Len(got') + 2
      BY <1>7, <2>1, <2>2
    <3> QED BY <1>1, <1>2, <1>3, <1>7, <2>1, <2>3, <3>1 DEF ReadSoFar
  <2>5. \A i \in DOMAIN got : got[i].req = reqNo /\ got[i].k = i + 1
    BY <1>3 DEF IInv, DataIntact
  <2>6. \A i \in DOMAIN got' : got'[i].req = reqNo /\ got'[i].k = i + 1
    BY <1>7, <2>1, <2>2, <2>5
  <2>7. DataIntact'
    BY <1>1, <2>6 DEF DataIntact
  <2> QED BY <2>4, <2>7
<1> QED BY <1>5, <1>6, <1>8, <1>9 DEF IInv

\* The ring stays as it is, and the USB controller does not wait for a start.
LEMMA RingKept ==
  ASSUME IInv, WaitFrame, UNCHANGED <<rxbuf, rxrpos, accepted>>, ByteLost' = ByteLost,
         pc # "payload", ~Waiting'
  PROVE  /\ ActualIsLast' /\ RestOfReply' /\ OnlyActualHasId' /\ NoLap' /\ StartIsReply'
         /\ ReplyFollows'
<1>1. UNCHANGED <<rxwpos, rxspos, actual_req_id, reqNo, clean, queue, out, size, overrun>>
  BY DEF WaitFrame, pwm, line
<1>2. ActualIsLast' /\ RestOfReply' /\ OnlyActualHasId'
  BY WaitKeeps DEF Waiting
<1>3. NoLap' /\ StartIsReply'
  BY DEF NoLap, StartIsReply
<1>4. Arrived' => Arrived
  BY <1>1 DEF Arrived, StartOfReply
<1>5. ReplyFollows'
  BY <1>1, <1>4 DEF IInv, ReplyFollows, InRing, Dist, LastByte
<1> QED BY <1>2, <1>3, <1>5

LEMMA ReadPacketInv == IInv /\ ReadPacket => IInv'
<1> SUFFICES ASSUME IInv, ReadPacket PROVE IInv'
  OBVIOUS
<1> DEFINE n == Min({PACKET, reply_count, payload_count})
<1>1. /\ pc = "reading" /\ WaitFrame /\ pc' = "readByte"
      /\ reply_count' = reply_count - n /\ payload_count' = payload_count - n /\ packet' = n
      /\ UNCHANGED <<errs, rxbuf, rxrpos, reply_start, result, accepted, got>>
      /\ UNCHANGED <<rxwpos, rxspos, actual_req_id, dir, reqNo, clean, queue, out, size>>
      /\ UNCHANGED <<overrun, lost>>
  BY DEF ReadPacket, WaitFrame, pwm, line
<1>2. /\ reply_count \in Nat \ {0} /\ payload_count \in Nat \ {0} /\ PACKET \in Nat \ {0}
  <2>1. reply_count \in Nat /\ payload_count \in Nat
    BY DEF IInv, TypeOK
  <2>2. reply_count > 0 /\ payload_count > 0
    BY <1>1 DEF IInv, Shape
  <2> QED BY <2>1, <2>2, Sizes
<1>3. /\ n \in {PACKET, reply_count, payload_count}
      /\ n <= PACKET /\ n <= reply_count /\ n <= payload_count
  <2> DEFINE S == {PACKET, reply_count, payload_count}
  <2>1. \E x \in S : \A y \in S : x <= y
    BY <1>2
  <2>2. n \in S /\ \A y \in S : n <= y
    BY <2>1 DEF Min
  <2> QED BY <2>2
<1> HIDE DEF n
<1>4. /\ n \in 1 .. PACKET /\ reply_count - n \in Nat /\ payload_count - n \in Nat
  BY <1>2, <1>3
<1>5. ~Waiting' /\ ByteLost' = ByteLost /\ pc # "payload"
  BY <1>1 DEF Waiting, ByteLost
<1>6. /\ ActualIsLast' /\ RestOfReply' /\ OnlyActualHasId' /\ NoLap' /\ StartIsReply'
      /\ ReplyFollows'
  BY <1>1, <1>5, RingKept
<1>7. TypeOK'
  <2>1. reply_count' \in Nat /\ payload_count' \in Nat /\ packet' \in 0 .. PACKET
    BY <1>1, <1>2, <1>4
  <2> QED BY <1>1, <2>1 DEF IInv, TypeOK
<1>8. Shape'
  BY <1>1, <1>4, <1>5 DEF IInv, Shape
<1>9. ReadSoFar' /\ DataIntact'
  BY <1>1, <1>5 DEF IInv, ReadSoFar, DataIntact, Dist, StartOfReply
<1> QED BY <1>6, <1>7, <1>8, <1>9 DEF IInv

LEMMA FailInv ==
  ASSUME IInv, NEW err \in {"START", "TIMEOUT"}, Fail(err), pc # "payload"
  PROVE  IInv'
<1>1. /\ pc' = "idle" /\ result' = "stall" /\ errs' = errs \cup {err} /\ WaitFrame
      /\ reply_start' = 0 /\ reply_count' = 0 /\ packet' = 0
      /\ UNCHANGED <<rxbuf, rxrpos, payload_count, accepted, got>>
      /\ UNCHANGED <<rxwpos, rxspos, actual_req_id, dir, reqNo, clean, queue, out, size>>
      /\ UNCHANGED <<overrun, lost>>
  BY DEF Fail, Forget, WaitFrame, pwm, line
<1>2. ~Waiting' /\ ByteLost' = ByteLost
  BY <1>1 DEF Waiting, ByteLost
<1>3. /\ ActualIsLast' /\ RestOfReply' /\ OnlyActualHasId' /\ NoLap' /\ StartIsReply'
      /\ ReplyFollows'
  BY <1>1, <1>2, RingKept
<1>4. TypeOK'
  <2>1. 0 \in Pos /\ 0 \in 0 .. PACKET /\ errs' \subseteq {"OVERFLOW", "OVERRUN", "START", "TIMEOUT"}
    BY <1>1, Sizes DEF Pos, IInv, TypeOK
  <2> QED BY <1>1, <2>1 DEF IInv, TypeOK
<1>5. Shape'
  BY <1>1, <1>2 DEF IInv, Shape
<1>6. ReadSoFar' /\ DataIntact'
  BY <1>1 DEF ReadSoFar, DataIntact
<1> QED BY <1>3, <1>4, <1>5, <1>6 DEF IInv

LEMMA StutterInv == IInv /\ UNCHANGED vars => IInv'
<1> SUFFICES ASSUME IInv, UNCHANGED vars PROVE IInv'
  OBVIOUS
<1>1. /\ UNCHANGED <<rxbuf, rxrpos, rxwpos, rxspos, actual_req_id, reply_start, reply_count>>
      /\ UNCHANGED <<payload_count, errs, pc, dir, packet, result, queue, out, overrun>>
      /\ UNCHANGED <<lost, reqNo, clean, accepted, size, got>>
  BY DEF vars, ring, usb, pwm, line
<1>2. (Arrived' <=> Arrived) /\ (Waiting' <=> Waiting) /\ ByteLost' = ByteLost
      /\ (InRing(rxspos)' <=> InRing(rxspos))
  BY <1>1 DEF Arrived, Waiting, ByteLost, InRing, Dist, StartOfReply
<1>3. TypeOK' /\ Shape' /\ ActualIsLast' /\ RestOfReply' /\ OnlyActualHasId'
  <2>1. TypeOK'
    BY <1>1 DEF IInv, TypeOK
  <2>2. Shape' /\ ActualIsLast'
    BY <1>1, <1>2 DEF IInv, Shape, ActualIsLast
  <2>3. RestOfReply' /\ OnlyActualHasId'
    BY <1>1 DEF IInv, RestOfReply, OnlyActualHasId, LastByte
  <2> QED BY <2>1, <2>2, <2>3
<1>4. NoLap' /\ StartIsReply' /\ DataIntact'
  BY <1>1, <1>2 DEF IInv, NoLap, StartIsReply, DataIntact, IsReply, Dist
<1>5. ReplyFollows' /\ ReadSoFar'
  BY <1>1, <1>2 DEF IInv, ReplyFollows, ReadSoFar, InRing, Dist, LastByte, StartOfReply
<1> QED BY <1>3, <1>4, <1>5 DEF IInv

(***************************************************************************)
(* The theorems                                                            *)
(***************************************************************************)

LEMMA InvNext == IInv /\ [Next]_vars => IInv'
<1> SUFFICES ASSUME IInv, [Next]_vars PROVE IInv'
  OBVIOUS
<1>1. CASE ProcessRequest
  BY <1>1, ProcessRequestInv
<1>2. CASE KeepAlive
  BY <1>2, KeepAliveInv
<1>3. CASE SendByte
  BY <1>3, SendByteInv
<1>4. CASE LoseByte
  BY <1>4, LoseByteInv
<1>5. CASE LoseRequest
  BY <1>5, LoseRequestInv
<1>6. CASE SetupIn
  BY <1>6, SetupInv, Sizes DEF SetupIn
<1>7. CASE SetupOut
  BY <1>7, SetupInv DEF SetupOut
<1>8. CASE ResetPwmCtrl
  BY <1>8, ResetInv
<1>9. CASE SendPayload
  BY <1>9, SendPayloadInv
<1>10. CASE DropByte
  BY <1>10, DropByteInv
<1>11. CASE AcceptStart
  BY <1>11, AcceptStartInv
<1>12. CASE AcceptLength
  BY <1>12, AcceptLengthInv
<1>13. CASE ReadPacket
  BY <1>13, ReadPacketInv
<1>14. CASE ReadByte
  BY <1>14, ReadByteInv
<1>15. CASE OtherReply
  BY <1>15, FailInv DEF OtherReply
<1>16. CASE TimeOut
  BY <1>16, FailInv DEF TimeOut
<1>17. CASE UNCHANGED vars
  BY <1>17, StutterInv
<1> QED BY <1>1, <1>2, <1>3, <1>4, <1>5, <1>6, <1>7, <1>8, <1>9, <1>10, <1>11, <1>12, <1>13,
           <1>14, <1>15, <1>16, <1>17 DEF Next

LEMMA Invariance == Spec => []IInv
<1> QED BY InvInit, InvNext, PTL DEF Spec

\* The positions stay in the ring, the counts do not become negative, and no more
\* requests wait than MaxBacklog.
THEOREM LinkType == Spec => []TypeOK
<1>1. IInv => TypeOK
  BY DEF IInv
<1> QED BY <1>1, Invariance, PTL

\* wait_for_reply_start: a request that began with an empty ring is acknowledged by the
\* start of its own reply, or the error status says that a byte was lost.
THEOREM AckIsOwnReply == Spec => []AckMeansAnswered
<1>1. IInv => AckMeansAnswered
  BY DEF IInv, ReadSoFar, AckMeansAnswered, Accepted
<1> QED BY <1>1, Invariance, PTL

\* usbFunctionRead: the data the host gets for it are the data of that reply from the
\* first byte on, in order and without gap.
THEOREM DataAreReply == Spec => []DataIntact
<1>1. IInv => DataIntact
  BY DEF IInv
<1> QED BY <1>1, Invariance, PTL

\* A reply that has been read to the end leaves nothing in the ring.
THEOREM RingIsEmptied == Spec => []NothingLeft
<1>1. IInv => NothingLeft
  <2> SUFFICES ASSUME IInv, result = "ok", clean, errs = {}, Len(got) = size, Unread
               PROVE  FALSE
    BY DEF NothingLeft
  <2>1. ByteLost = {} /\ TypeOK /\ rxspos \in Pos /\ rxrpos \in Pos /\ rxwpos \in Pos
    BY DEF ByteLost, IInv, TypeOK
  <2>2. /\ accepted = StartOfReply /\ Dist(rxspos, rxrpos) <= Dist(rxspos, rxwpos)
        /\ Dist(rxspos, rxrpos) >= Len(got) + 1
        /\ got # <<>> => Dist(rxspos, rxrpos) >= Len(got) + 2
    BY <2>1 DEF IInv, ReadSoFar
  <2>3. /\ Dist(rxspos, rxrpos) # Dist(rxspos, rxwpos)
        /\ Dist(rxspos, rxrpos) \in Nat /\ Dist(rxspos, rxwpos) \in Nat
    BY <2>1, DistInjective, DistFacts DEF Unread
  <2>4. InRing(rxrpos)
    <3>1. Dist(rxrpos, rxrpos) = 0 /\ Dist(rxrpos, rxwpos) \in Nat \ {0}
      BY <2>1, DistFacts DEF Unread
    <3> QED BY <3>1 DEF InRing
  <2>5. Dist(rxspos, rxrpos) <= LastByte(size)
    <3>1. Dist(rxspos, rxrpos) < Dist(rxspos, rxwpos)
      BY <2>2, <2>3
    <3> QED BY <2>1, <2>2, <2>4, <3>1 DEF IInv, ReplyFollows, Arrived
  <2>6. got \in Seq(Byte4) /\ size \in Nat
    BY DEF IInv, Shape
  <2>7. got = <<>> \/ size # 0
    BY <2>6
  <2> QED BY <2>2, <2>3, <2>5, <2>6, <2>7 DEF LastByte
<1> QED BY <1>1, Invariance, PTL
===============================================================================
