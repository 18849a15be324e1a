----------------------------- MODULE HostRequest -----------------------------
(***************************************************************************)
(* Requests of the setup program to one controller                         *)
(* (df10ch_setup_pkg/device_drv.py): the repetition of transfers in        *)
(* ctrl_write and ctrl_read.  The USB controller sends PWM requests on to  *)
(* the PWM controller and answers with STALL (a PIPE error on the host)    *)
(* when it gets no reply in time.  The PWM controller carries requests out *)
(* in the order they came, also when nobody waits for the reply any more.  *)
(* Taken from the link: the USB controller accepts no reply but the one to *)
(* the transfer under way.  ReplyLink shows it for clean starts, and run   *)
(* replies_stale shows how a byte left in the ring breaks it.              *)
(***************************************************************************)
EXTENDS Integers, Sequences, FiniteSets

CONSTANTS DEF_RETRY,   \* transfers of one call
          Values,      \* what a request sets
          ErrBits,     \* COMM_ERR_... of the PWM controller
          MaxCalls,    \* bound: calls of a behaviour
          MaxQueue     \* bound: requests under way to the PWM controller

ASSUME RequestAssumption == DEF_RETRY \in Nat \ {0}

\* The calls that differ in how they fail: a write with payload (set_brightness), a
\* request without payload, sent as a read (set_common_brightness), and the two error
\* status reads, which clear what they read.
PwmKinds == {"write", "set", "pwm_status"}
Kinds    == PwmKinds \cup {"usb_status"}
NoValue  == "no value"

VARIABLES
  at,           \* "idle", "send" (top of the while loop) or "wait" (in the transfer)
  kind, val,    \* the actual call
  retry,        \* the local variable retry
  ended,       \* how the last call ended: "ok" or "raised"
  got,          \* the error bits that the last status call returned
  error_count,
  queue,        \* requests sent on to the PWM controller: of this call? of this transfer?
  answer,       \* the reply of this transfer: "none" or "ready"
  bits,         \* the error bits in it
  reg,          \* what the write requests set in the PWM controller
  rx_err_status,       \* of the PWM controller
  reply_err_status,    \* of the USB controller: TIMEOUT is flagged
  calls, raised,       \* history: calls, and those that raised an exception
  dropped,      \* history: a transfer of this call took error bits, its reply was lost
  silent        \* history: such a call ended well, and no status call since has told

call    == <<kind, val>>
device  == <<reg, rx_err_status>>
callHistory == <<calls, raised, dropped, silent>>
requestVars == <<at, call, retry, ended, got, error_count, queue, answer, bits, device,
          reply_err_status, callHistory>>

Requests == [kind : PwmKinds, val : Values \cup {NoValue}, mine : BOOLEAN, now : BOOLEAN]

RequestInit ==
  /\ at = "idle" /\ kind = "set" /\ val = NoValue /\ retry = 0 /\ ended = "ok" /\ got = {}
  /\ error_count = 0 /\ queue = <<>> /\ answer = "none" /\ bits = {}
  /\ reg = NoValue /\ rx_err_status = {} /\ reply_err_status = FALSE
  /\ calls = 0 /\ raised = 0 /\ dropped = FALSE /\ silent = FALSE

Forgotten(q) == [i \in DOMAIN q |-> [q[i] EXCEPT !.now = FALSE]]
Foreign(q)   == [i \in DOMAIN q |-> [q[i] EXCEPT !.now = FALSE, !.mine = FALSE]]

Call(k) ==
  /\ at = "idle" /\ calls < MaxCalls
  /\ calls' = calls + 1
  /\ at' = "send" /\ kind' = k /\ retry' = DEF_RETRY
  /\ val' \in IF k \in {"write", "set"} THEN Values ELSE {NoValue}
  /\ queue' = Foreign(queue)
  /\ answer' = "none" /\ bits' = {} /\ got' = {} /\ dropped' = FALSE
  /\ UNCHANGED <<ended, error_count, device, reply_err_status, raised, silent>>

\* Mutant: the retries are not counted.
Decremented_Not == retry
Decremented == retry - 1

\* controlWrite or controlRead: the USB controller passes a PWM request on, unless the
\* transfer does not get through to it.
Transfer ==
  /\ at = "send"
  /\ at' = "wait" /\ retry' = Decremented
  /\ \/ /\ kind \in PwmKinds /\ Len(queue) < MaxQueue
        /\ queue' = Append(queue, [kind |-> kind, val |-> val, mine |-> TRUE, now |-> TRUE])
     \/ UNCHANGED queue
  /\ UNCHANGED <<call, ended, got, error_count, answer, bits, device, reply_err_status,
                 callHistory>>

(***************************************************************************)
(* The PWM controller                                                      *)
(***************************************************************************)
\* rx_err_status is cleared after it was sent: an error flagged in between is wiped with it,
\* and the request that it hit is gone as well.
CarryOut ==
  /\ queue # <<>>
  /\ LET r == Head(queue) IN
       /\ reg' = IF r.kind = "pwm_status" THEN reg ELSE r.val
       /\ rx_err_status' = IF r.kind = "pwm_status" THEN {} ELSE rx_err_status
       /\ IF r.now
          THEN /\ answer' = "ready"
               /\ bits' = IF r.kind = "pwm_status" THEN rx_err_status ELSE {}
               /\ UNCHANGED dropped
          ELSE /\ dropped' = (dropped \/ (r.mine /\ r.kind = "pwm_status" /\ rx_err_status # {}))
               /\ UNCHANGED <<answer, bits>>
  /\ \/ queue' = Tail(queue)
     \/ Head(queue).kind = "pwm_status" /\ Len(queue) > 1 /\ queue' = Tail(Tail(queue))
  /\ UNCHANGED <<at, call, retry, ended, got, error_count, reply_err_status, calls, raised,
                 silent>>

\* A receive error; a discarded request is a lost element of the queue.
ReceiveError ==
  /\ \E b \in ErrBits : rx_err_status' = rx_err_status \cup {b}
  /\ \/ UNCHANGED queue
     \/ queue # <<>> /\ queue' = Tail(queue)
  /\ UNCHANGED <<at, call, retry, ended, got, error_count, answer, bits, reg,
                 reply_err_status, callHistory>>

(***************************************************************************)
(* The end of a transfer                                                   *)
(***************************************************************************)
Answered ==
  /\ at = "wait" /\ kind \in PwmKinds /\ answer = "ready"
  /\ at' = "idle" /\ ended' = "ok" /\ got' = bits
  /\ silent' = (silent \/ dropped)
  /\ UNCHANGED <<call, retry, error_count, queue, answer, bits, device, reply_err_status,
                 calls, raised, dropped>>

\* GET_REPLY_ERR_STATUS is answered by the USB controller itself.
UsbStatusAnswered ==
  /\ at = "wait" /\ kind = "usb_status"
  /\ at' = "idle" /\ ended' = "ok"
  /\ got' = IF reply_err_status THEN {"TIMEOUT"} ELSE {}
  /\ silent' = (silent /\ ~reply_err_status)
  /\ reply_err_status' = FALSE
  /\ UNCHANGED <<call, retry, error_count, queue, answer, bits, device, calls, raised,
                 dropped>>

\* ctrl_write counts every failure, ctrl_read the last one only.
\* Mutant: ctrl_read counts none.
Counted_Writes(last) == kind = "write"
Counted(last) == kind = "write" \/ last

\* Mutant: the loop has no end.
UsedUp_Never == FALSE
UsedUp == retry = 0

\* Mutant: only an error other than PIPE is raised, the loop just ends after the last one.
Outcome_PipeQuiet(again) == IF again THEN "ok" ELSE "raised"
Outcome(again) == "raised"

\* The exception handler; again: the transfer may be repeated.
Failed(again) ==
  LET last == UsedUp \/ ~again IN
  /\ error_count' = error_count + IF Counted(last) THEN 1 ELSE 0
  /\ at' = IF last THEN "idle" ELSE "send"
  /\ ended' = IF last THEN Outcome(again) ELSE ended
  /\ raised' = IF last THEN raised + 1 ELSE raised
  /\ silent' = (silent /\ ~last)
  /\ queue' = Forgotten(queue) /\ answer' = "none" /\ bits' = {}
  /\ dropped' = (dropped \/ bits # {})

\* LIBUSB_ERROR_PIPE: the USB controller waited in vain for the reply, also when the reply
\* was sent and got lost.  A request of its own it stalls only when it did not read it.
Stall ==
  /\ at = "wait"
  /\ Failed(TRUE)
  /\ reply_err_status' = (reply_err_status \/ kind \in PwmKinds)
  /\ UNCHANGED <<call, retry, got, device, calls>>

\* Any other error (time out, no device): the device may have done all it was asked for.
\* Mutant: it is repeated like a PIPE error.
Retried_Always == TRUE
Retried == FALSE

OtherError ==
  /\ at = "wait"
  /\ Failed(Retried)
  /\ reply_err_status' \in IF kind = "usb_status" THEN {reply_err_status, FALSE}
                           ELSE {reply_err_status}
  /\ UNCHANGED <<call, retry, got, device, calls>>

\* written != len(data), len(data) != size: the request was carried out, and counts as failed.
WrongLength ==
  /\ at = "wait" /\ kind \in PwmKinds /\ answer = "ready"
  /\ at' = "idle" /\ ended' = "raised"
  /\ error_count' = error_count + 1 /\ raised' = raised + 1
  /\ silent' = FALSE
  /\ UNCHANGED <<call, retry, got, queue, answer, bits, device, reply_err_status, calls,
                 dropped>>

Host == \/ Transfer \/ Answered \/ UsbStatusAnswered \/ Stall \/ OtherError \/ WrongLength
RequestNext == \/ \E k \in Kinds : Call(k)
        \/ Host \/ CarryOut \/ ReceiveError

\* The program goes on and a transfer ends, at the latest with libusb's time out.
RequestFairness == WF_requestVars(Host)
RequestSpec == RequestInit /\ [][RequestNext]_requestVars /\ RequestFairness

(***************************************************************************)
(* Properties                                                              *)
(***************************************************************************)

\* The values of the variables.
RequestTypeOK ==
  /\ at \in {"idle", "send", "wait"}
  /\ kind \in Kinds /\ val \in Values \cup {NoValue}
  /\ retry \in 0 .. DEF_RETRY /\ (at = "send" => retry > 0)
  /\ ended \in {"ok", "raised"} /\ error_count \in Nat
  /\ queue \in Seq(Requests) /\ answer \in {"none", "ready"}
  /\ got \subseteq ErrBits \cup {"TIMEOUT"} /\ bits \subseteq ErrBits
  /\ reg \in Values \cup {NoValue} /\ rx_err_status \subseteq ErrBits
  /\ reply_err_status \in BOOLEAN /\ dropped \in BOOLEAN /\ silent \in BOOLEAN
  /\ calls \in Nat /\ raised \in Nat

\* ctrl_write, ctrl_read: once a call has ended without an exception its request is what
\* the controller has set last, whatever transfers were repeated before it: no older copy
\* of any request comes after it.
SuccessIsLast ==
  at = "idle" /\ ended = "ok" /\ kind \in {"write", "set"} => reg = val /\ queue = <<>>

\* get_request_error_status repeats a read that clears what it reads.  When the reply of
\* an earlier transfer was lost with error bits in it, the call still ends well and says
\* OK; the time out is then flagged in the USB controller until a status call reports it
\* or fails with an exception.
LossIsFlagged == silent => reply_err_status

\* showStatus shows error_count: every exception is in it.
RaisedIsCounted == raised <= error_count

\* A call ends, whatever the controllers do.
CallEnds == at # "idle" ~> at = "idle"

\* What a call, or the list of errors, says of the requests is true.
CallsAreHonest == SuccessIsLast /\ LossIsFlagged /\ RaisedIsCounted

==============================================================================
