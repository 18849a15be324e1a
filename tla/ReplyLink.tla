------------------------------ MODULE ReplyLink ------------------------------
(***************************************************************************)
(* Requests and replies between the two controllers, as the USB controller *)
(* (usb_appl/df10ch_usb_appl.c) sees them: its receive ring, the search    *)
(* for the start of the reply, and the reading of the reply's data, with   *)
(* replies that come late, bytes that are lost, and a host that gives up a *)
(* transfer and sends the next request.                                    *)
(*                                                                         *)
(* The PWM controller is a queue: it takes whole requests in order and     *)
(* answers each with the bytes of send_reply_start and send_reply_data,    *)
(* after any number of keep alive replies.  Time is abstract: a wait may   *)
(* time out at any moment.                                                 *)
(*                                                                         *)
(* A byte is [val, req, k]; req and k say which byte of the reply to which *)
(* request it is, and only the properties look at them.                    *)
(***************************************************************************)
EXTENDS Integers, Sequences, FiniteSets, SequencesExt, FiniteSetsExt

CONSTANTS RXBUF_SIZE,   \* size of the receive ring
          ID_MOD,       \* number of request ids (64: PWMRQ_ID_MASK is 0x3F)
          PACKET,       \* data bytes in a USB packet (8)
          Lengths,      \* lengths the host asks for (wLength)
          ReplySizes,   \* sizes of the replies with payload
          DataBytes,    \* values of reply data
          MaxRequests,  \* bound: requests and resets of the host
          MaxBacklog,   \* bound: requests the PWM controller has not answered
          MaxKeepAlives, \* bound: keep alive replies in the ring at a time
          MaxLost       \* bound: bytes and requests lost on the lines

\* A length is a byte.  A reply (at most MAX_REPLY_PAYLOAD_SIZE = 128 data bytes) fits
\* in the ring (256 bytes) with room to spare.
ASSUME SizeAssumption ==
  /\ {RXBUF_SIZE, ID_MOD, PACKET, MaxRequests, MaxBacklog} \subseteq Nat \ {0}
  /\ MaxLost \in Nat /\ Lengths \subseteq Nat
  /\ ReplySizes \subseteq 1 .. 4 * ID_MOD - 1
  /\ \A n \in ReplySizes \cup {0} : n + 3 <= RXBUF_SIZE
  /\ DataBytes \subseteq 0 .. 4 * ID_MOD - 1

PWMRP_HAS_PAYLOAD == ID_MOD        \* 0x40
PWMRP_KEEP_ALIVE  == 2 * ID_MOD    \* 0x80
IdOf(val)       == val % ID_MOD
HasPayload(val) == (val \div ID_MOD) % 2 = 1

VARIABLES
  rxbuf, rxrpos, rxwpos, rxspos,   \* the receive ring
  actual_req_id, reply_start, reply_count, payload_count,
  errs,       \* bits set in reply_err_status since the last request was sent
  pc,         \* where the USB controller is with the actual request
  dir,        \* the actual request is "in" (data to the host) or "out"
  packet,     \* bytes still missing in the packet usbFunctionRead fills
  result,     \* how the actual request ended
  queue,      \* requests the PWM controller has not answered
  out,        \* bytes of the reply the PWM controller is sending
  overrun,    \* a byte has been lost since the last one was received
  lost,       \* bytes and requests lost so far
  reqNo,      \* history: number of the actual request
  clean,      \* history: the actual request met CleanStart
  accepted,   \* history: which byte was taken as the start of its reply
  size,       \* history: size of its reply
  got         \* history: data bytes handed to the host for it

ring == <<rxbuf, rxrpos, rxwpos, rxspos>>
usb  == <<actual_req_id, reply_start, reply_count, payload_count, pc, dir, packet,
          result, reqNo, clean, accepted, got>>
pwm  == <<queue, out, size>>
line == <<overrun, lost>>
vars == <<ring, usb, errs, pwm, line>>

Pos == 0 .. RXBUF_SIZE - 1
\* Mutant: CHECK_RXBUF_END is missing.
After_NoWrap(p) == p + 1
After(p) == (p + 1) % RXBUF_SIZE
Byte(v, r, k) == [val |-> v, req |-> r, k |-> k]

(***************************************************************************)
(* The PWM controller and the receive interrupt.                           *)
(***************************************************************************)

\* Entries of the ring outside rxrpos .. rxwpos are never read: they are blank.
Blank == Byte(0, 0, 0)

\* ISR(USART_RXC_vect): a full ring drops the byte but not its start mark.
Receive(byte, isStart) ==
  LET full == After(rxwpos) = rxrpos
  IN /\ rxwpos' = IF full THEN rxwpos ELSE After(rxwpos)
     /\ errs' = errs \cup (IF full THEN {"OVERFLOW"} ELSE {})
                     \cup (IF overrun THEN {"OVERRUN"} ELSE {})
     /\ rxspos' = IF isStart THEN rxwpos ELSE rxspos
     /\ rxbuf' = IF full THEN rxbuf ELSE [rxbuf EXCEPT ![rxwpos] = byte]
     /\ overrun' = FALSE /\ UNCHANGED rxrpos

\* Mutant: the length is also sent when there is no payload.
ReplyBytes_AlwaysLength(r, data) ==
  <<Byte(r.id + (IF data = <<>> THEN 0 ELSE PWMRP_HAS_PAYLOAD), r.no, 0), Byte(Len(data), r.no, 1)>>
  \o [i \in DOMAIN data |-> Byte(data[i], r.no, i + 1)]
\* send_reply_start and send_reply_data
ReplyBytes(r, data) ==
  LET n == Len(data)
  IN IF n = 0
       THEN <<Byte(r.id, r.no, 0)>>
       ELSE <<Byte(r.id + PWMRP_HAS_PAYLOAD, r.no, 0), Byte(n, r.no, 1)>>
            \o [i \in 1 .. n |-> Byte(data[i], r.no, i + 1)]

\* A request to set something is only acknowledged, one to read may be empty.  Bound:
\* the data bytes of a reply are equal.
Payloads(r) ==
  {<<>>} \cup IF r.dir = "in"
                THEN {[i \in 1 .. n |-> d] : n \in ReplySizes, d \in DataBytes} ELSE {}

ProcessRequest ==
  /\ out = <<>> /\ queue # <<>>
  /\ \E data \in Payloads(Head(queue)) :
       /\ out' = ReplyBytes(Head(queue), data)
       /\ size' = IF Head(queue).no = reqNo THEN Len(data) ELSE size
  /\ queue' = Tail(queue)
  /\ UNCHANGED <<ring, usb, errs, line>>

\* send_keep_alive_reply, while a request is processed.
KeepAlives == {p \in Pos : rxbuf[p].val = PWMRP_KEEP_ALIVE}
KeepAlive ==
  /\ out = <<>> /\ queue # <<>>
  /\ Cardinality(KeepAlives) < MaxKeepAlives
  /\ Receive(Byte(PWMRP_KEEP_ALIVE, Head(queue).no, 0), TRUE)
  /\ UNCHANGED <<usb, pwm, lost>>

SendByte ==
  /\ out # <<>>
  /\ Receive(Head(out), Head(out).k = 0)
  /\ out' = Tail(out)
  /\ UNCHANGED <<usb, queue, size, lost>>

\* A byte of the reply is lost; the next one carries the overrun flag.
LoseByte ==
  /\ out # <<>> /\ lost < MaxLost
  /\ out' = Tail(out)
  /\ overrun' = TRUE /\ lost' = lost + 1
  /\ UNCHANGED <<ring, usb, errs, queue, size>>

\* Bytes of the request are lost; the PWM controller does not answer it.
LoseRequest ==
  /\ queue # <<>> /\ lost < MaxLost
  /\ queue' = Front(queue)
  /\ lost' = lost + 1
  /\ UNCHANGED <<ring, usb, errs, out, size, overrun>>

(***************************************************************************)
(* usbFunctionSetup and the wait loops.                                    *)
(***************************************************************************)

\* usbFunctionSetup is called between two packets of a transfer, or after one.
AtSetup == pc \in {"idle", "payload", "reading"}

\* The ring holds no byte of an older reply, and no older request with the same
\* id is still to be answered.
CleanStart(id) ==
  /\ rxrpos = rxwpos
  /\ \A i \in DOMAIN queue : queue[i].id # id
  /\ out # <<>> => IdOf(Head(out).val) # id \/ Head(out).k # 0

\* Mutant: the start position is not reset.
StartReset_Kept(back) == rxspos
\* send_request: "Reset start reply position".  The interrupt may receive a byte, and mark
\* it as a start, between the reading of rxwpos and the assignment.
StartReset(back) == (rxwpos - back + RXBUF_SIZE) % RXBUF_SIZE

Unread == rxwpos # rxrpos
Nothing == [req |-> 0, k |-> -1]
\* They are set again before they are read: blank, as the bytes outside the ring.
Forget == reply_start' = 0 /\ reply_count' = 0 /\ packet' = 0
Queued(no, id, d) == Append(queue, [no |-> no, id |-> id, dir |-> d])

\* A request with payload reaches the PWM controller when its payload is complete.
Setup(d, len, hasPayload) ==
  LET id == (actual_req_id + 1) % ID_MOD
      no == reqNo + 1
  IN /\ AtSetup /\ reqNo < MaxRequests /\ Len(queue) < MaxBacklog
     /\ \E back \in 1 .. 2 : (back = 2 => Unread) /\ rxspos' = StartReset(back)
     /\ actual_req_id' = id /\ reqNo' = no
     /\ payload_count' = len
     /\ dir' = d
     /\ pc' = IF hasPayload THEN "payload" ELSE "waitStart"
     /\ queue' = IF hasPayload THEN queue ELSE Queued(no, id, d)
     /\ errs' = {} /\ result' = "none" /\ size' = 0 /\ got' = <<>>
     /\ accepted' = Nothing
     /\ clean' = CleanStart(id)
     /\ Forget
     /\ UNCHANGED <<rxbuf, rxrpos, rxwpos, out, line>>

SetupIn == \E len \in Lengths : Setup("in", len, FALSE)
SetupOut == \E hasPayload \in BOOLEAN : Setup("out", 0, hasPayload)

\* REQ_RESET_PWM_CTRL: reset_pwm_ctrl.  Requests and replies on their way are gone;
\* rxspos keeps its value.
ResetPwmCtrl ==
  /\ AtSetup /\ reqNo < MaxRequests
  /\ rxrpos' = 0 /\ rxwpos' = 0 /\ rxbuf' = [p \in Pos |-> Blank]
  /\ queue' = <<>> /\ out' = <<>> /\ overrun' = FALSE
  /\ errs' = {} /\ pc' = "idle" /\ result' = "none"
  /\ reqNo' = reqNo + 1 /\ size' = 0 /\ got' = <<>> /\ accepted' = Nothing
  /\ Forget
  /\ UNCHANGED <<rxspos, actual_req_id, payload_count, dir, clean, lost>>

\* send_payload_data, last packet
SendPayload ==
  /\ pc = "payload"
  /\ pc' = "waitStart"
  /\ queue' = Queued(reqNo, actual_req_id, dir)
  /\ UNCHANGED <<ring, errs, out, size, line, actual_req_id, reply_start, reply_count,
                 payload_count, dir, packet, result, reqNo, clean, accepted, got>>

ReadData == rxrpos' = After(rxrpos) /\ rxbuf' = [rxbuf EXCEPT ![rxrpos] = Blank]

\* The end of wait_for_reply_start with n announced data bytes, and what its
\* callers do then.
Answered(n) ==
  /\ reply_count' = n
  /\ IF dir = "in" /\ n # 0 /\ payload_count # 0
       THEN pc' = "reading" /\ result' = result
       ELSE pc' = "idle" /\ result' = "ok"

\* The rest of the state while the USB controller waits.
WaitFrame == UNCHANGED <<rxwpos, rxspos, actual_req_id, dir, reqNo, clean, pwm,
                         line>>

Fail(err) ==
  /\ pc' = "idle" /\ result' = "stall" /\ errs' = errs \cup {err}
  /\ Forget
  /\ UNCHANGED <<rxbuf, rxrpos, payload_count, accepted, got>>
  /\ WaitFrame

\* Mutant: a reply is taken without looking at its id.
IsReply_AnyId(p) == rxspos = p /\ rxbuf[p].val # PWMRP_KEEP_ALIVE
IsReply(p) ==
  /\ rxspos = p
  /\ rxbuf[p].val # PWMRP_KEEP_ALIVE
  /\ IdOf(rxbuf[p].val) = actual_req_id

\* wait_for_reply_start: keep alive replies, replies to older requests and data
\* bytes are dropped.
DropByte ==
  /\ pc = "waitStart" /\ Unread
  /\ ~IsReply(rxrpos)
  /\ ReadData
  /\ UNCHANGED <<errs, reply_start, reply_count, payload_count, pc, packet, result,
                 accepted, got>>
  /\ WaitFrame

AcceptStart ==
  /\ pc = "waitStart" /\ Unread
  /\ IsReply(rxrpos)
  /\ ReadData
  /\ reply_start' = rxrpos
  /\ IF HasPayload(rxbuf[rxrpos].val)
       THEN pc' = "waitLength" /\ UNCHANGED <<reply_count, result>>
       ELSE Answered(0)
  /\ accepted' = [req |-> rxbuf[rxrpos].req, k |-> rxbuf[rxrpos].k]
  /\ UNCHANGED <<errs, payload_count, packet, got>>
  /\ WaitFrame

\* wait_for_reply: no other reply has started.
SameReply == reply_start = rxspos

AcceptLength ==
  /\ pc = "waitLength" /\ Unread /\ SameReply
  /\ ReadData
  /\ Answered(rxbuf[rxrpos].val)
  /\ UNCHANGED <<errs, reply_start, payload_count, packet, accepted, got>>
  /\ WaitFrame

\* usbFunctionRead, read_payload_data: the bytes of the next packet.
ReadPacket ==
  /\ pc = "reading"
  /\ LET n == Min({PACKET, reply_count, payload_count})
     IN /\ reply_count' = reply_count - n
        /\ payload_count' = payload_count - n
        /\ packet' = n
  /\ pc' = "readByte"
  /\ UNCHANGED <<errs, rxbuf, rxrpos, reply_start, result, accepted, got>>
  /\ WaitFrame

\* The last byte of a packet sends it.  One that is not full ends the transfer, so
\* does the last byte asked for.
ReadByte ==
  /\ pc = "readByte" /\ Unread /\ SameReply
  /\ ReadData
  /\ packet' = packet - 1
  /\ got' = Append(got, rxbuf[rxrpos])
  /\ IF packet' > 0
       THEN UNCHANGED <<pc, result>>
     ELSE IF payload_count = 0 \/ reply_count = 0
       THEN pc' = "idle" /\ result' = "ok"
       ELSE pc' = "reading" /\ UNCHANGED result
  /\ UNCHANGED <<errs, reply_start, reply_count, payload_count, accepted>>
  /\ WaitFrame

\* wait_for_reply fails when another reply has started, every wait when it takes
\* too long.
OtherReply ==
  /\ pc \in {"waitLength", "readByte"} /\ Unread /\ ~SameReply
  /\ Fail("START")

TimeOut ==
  /\ pc \in {"waitStart", "waitLength", "readByte"}
  /\ Fail("TIMEOUT")

\* Power on; the memory of the ring is not initialized.
Init ==
  /\ rxbuf = [p \in Pos |-> Blank]
  /\ rxrpos = 0 /\ rxwpos = 0 /\ rxspos = 0
  /\ actual_req_id = 0 /\ reply_start = 0 /\ reply_count = 0 /\ payload_count = 0
  /\ errs = {} /\ pc = "idle" /\ dir = "out" /\ packet = 0 /\ result = "none"
  /\ queue = <<>> /\ out = <<>> /\ overrun = FALSE /\ lost = 0
  /\ reqNo = 0 /\ clean = TRUE /\ size = 0 /\ got = <<>> /\ accepted = Nothing

Next == \/ ProcessRequest \/ KeepAlive \/ SendByte \/ LoseByte \/ LoseRequest
        \/ SetupIn \/ SetupOut \/ ResetPwmCtrl \/ SendPayload \/ DropByte \/ AcceptStart
        \/ AcceptLength \/ ReadPacket \/ ReadByte \/ OtherReply \/ TimeOut

Spec == Init /\ [][Next]_vars

(***************************************************************************)
(* Properties                                                              *)
(***************************************************************************)

TypeOK ==
  /\ rxrpos \in Pos /\ rxwpos \in Pos /\ rxspos \in Pos /\ reply_start \in Pos
  /\ rxbuf \in [Pos -> [val : 0 .. 4 * ID_MOD - 1, req : 0 .. MaxRequests, k : Nat]]
  /\ actual_req_id \in 0 .. ID_MOD - 1 /\ reqNo \in 0 .. MaxRequests
  /\ reply_count \in Nat /\ payload_count \in Nat /\ packet \in 0 .. PACKET
  /\ errs \subseteq {"OVERFLOW", "OVERRUN", "START", "TIMEOUT"}
  /\ pc \in {"idle", "payload", "waitStart", "waitLength", "reading", "readByte"}
  /\ dir \in {"in", "out"} /\ result \in {"none", "ok", "stall"}
  /\ Len(queue) <= MaxBacklog /\ lost \in 0 .. MaxLost
  /\ overrun \in BOOLEAN /\ clean \in BOOLEAN

\* The reply of the actual request has been found: success has been reported to
\* the host, or its data are being read.
Accepted == result = "ok" \/ pc \in {"reading", "readByte"}
ByteLost == errs \cap {"OVERRUN", "OVERFLOW"}
StartOfReply == [req |-> reqNo, k |-> 0]

\* wait_for_reply_start: "reply start detected", "reply is for actual request".
ReplyIsForActualRequest == Accepted => accepted = StartOfReply

\* A request that starts with an empty ring is only reported as successful when the
\* PWM controller has answered this very request, whatever comes late from older
\* requests meanwhile; or the error status says that a byte was lost.
AckMeansAnswered ==
  clean /\ Accepted /\ ByteLost = {} => accepted = StartOfReply

\* The data of such a request are those of its reply, in order and without gap, or
\* the error status says that a byte was lost.
DataIntact ==
  clean /\ result # "stall" /\ ByteLost = {} =>
    \A i \in DOMAIN got : got[i].req = reqNo /\ got[i].k = i + 1

\* A successful exchange without a lost byte whose reply has been read to the end
\* leaves nothing in the ring that a later request could take for its reply.
NothingLeft ==
  /\ result = "ok" /\ clean /\ errs = {}
  /\ queue = <<>> /\ out = <<>> /\ Len(got) = size
  => ~Unread
===============================================================================
