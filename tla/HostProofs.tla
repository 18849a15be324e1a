------------------------------ MODULE HostProofs ------------------------------
(***************************************************************************)
(* Proofs about the driver of the setup program.  HostRequest: what a call *)
(* reports of its requests is true, for any number of retries, calls and   *)
(* requests under way.  ControllerConfig: for any ports, mappings, layouts,*)
(* frequencies, failures and cuts of a write, the values stay legal        *)
(* whatever bytes are read; what Store writes in two halves is what any    *)
(* later start reads; what the dialog shows is what the controller has, and*)
(* a Store that failed does not lose the mapping.                          *)
(***************************************************************************)
EXTENDS MCHost, FiniteSetTheorems, WellFoundedInduction, SequenceTheorems, TLAPS

(***************************************************************************)
(* The requests: one call                                                  *)
(***************************************************************************)

\* The invariant speaks of the requests under way.

\* The request of the running transfer is the last one, and it is not answered yet.
NowIsLast ==
  \A i \in DOMAIN queue :
    queue[i].now => /\ i = Len(queue) /\ at = "wait" /\ answer = "none"
                    /\ queue[i].kind = kind /\ queue[i].val = val

\* When it is answered nothing is under way any more.
ReadyIsDone ==
  answer = "ready" => /\ at # "send" /\ queue = <<>> /\ kind \in PwmKinds
                      /\ kind \in {"write", "set"} => reg = val
BitsAreReady == bits # {} => answer = "ready"

\* A request of an earlier transfer of this call, or the bits it took, means a time out.
MineIsPwm == \A i \in DOMAIN queue : at # "idle" /\ queue[i].mine => kind \in PwmKinds
RepeatIsFlagged ==
  at # "idle" =>
    /\ \A i \in DOMAIN queue : queue[i].mine /\ ~queue[i].now => reply_err_status
    /\ dropped => reply_err_status

RequestInv == /\ RequestTypeOK /\ NowIsLast /\ ReadyIsDone /\ BitsAreReady /\ MineIsPwm
        /\ RepeatIsFlagged /\ CallsAreHonest

LEMMA RequestInvInit == RequestInit => RequestInv
<1> SUFFICES ASSUME RequestInit PROVE RequestInv
  OBVIOUS
<1>1. RequestTypeOK
  <2>1. DEF_RETRY \in Nat \ {0}
    BY RequestAssumption
  <2>2. reply_err_status \in BOOLEAN /\ dropped \in BOOLEAN /\ silent \in BOOLEAN
    BY Zenon DEF RequestInit
  <2> QED BY <2>1, <2>2 DEF RequestInit, RequestTypeOK, Kinds, PwmKinds
<1>2. queue = <<>> /\ DOMAIN queue = {} /\ answer = "none" /\ bits = {} /\ at = "idle"
  BY DEF RequestInit
<1>3. CallsAreHonest
  BY DEF RequestInit, CallsAreHonest, SuccessIsLast, LossIsFlagged, RaisedIsCounted
<1> QED BY <1>1, <1>2, <1>3 DEF RequestInv, NowIsLast, ReadyIsDone, BitsAreReady, MineIsPwm, RepeatIsFlagged

(***************************************************************************)
(* The requests under way                                                  *)
(***************************************************************************)

\* The end of a transfer and the beginning of a call keep every request, and none of the
\* running transfer.
LEMMA ForgottenType ==
  ASSUME NEW q \in Seq(Requests)
  PROVE  /\ Forgotten(q) \in Seq(Requests) /\ Len(Forgotten(q)) = Len(q)
         /\ \A i \in 1 .. Len(q) : /\ ~Forgotten(q)[i].now
                                   /\ Forgotten(q)[i].mine => q[i].mine
<1>1. Len(q) \in Nat /\ DOMAIN q = 1 .. Len(q) /\ \A i \in 1 .. Len(q) : q[i] \in Requests
  OBVIOUS
<1>2. Forgotten(q) = [i \in 1 .. Len(q) |-> [q[i] EXCEPT !.now = FALSE]]
  BY <1>1 DEF Forgotten
<1>3. \A i \in 1 .. Len(q) : [q[i] EXCEPT !.now = FALSE] \in Requests
  BY <1>1 DEF Requests
<1>4. Forgotten(q) \in Seq(Requests) /\ Len(Forgotten(q)) = Len(q)
  BY <1>1, <1>2, <1>3
<1> QED BY <1>1, <1>2, <1>4 DEF Requests

LEMMA ForeignType ==
  ASSUME NEW q \in Seq(Requests)
  PROVE  /\ Foreign(q) \in Seq(Requests) /\ Len(Foreign(q)) = Len(q)
         /\ \A i \in 1 .. Len(q) : ~Foreign(q)[i].now /\ ~Foreign(q)[i].mine
<1> DEFINE r(i) == [q[i] EXCEPT !.now = FALSE, !.mine = FALSE]
<1>1. Len(q) \in Nat /\ DOMAIN q = 1 .. Len(q) /\ \A i \in 1 .. Len(q) : q[i] \in Requests
  OBVIOUS
<1>2. Foreign(q) = [i \in 1 .. Len(q) |-> r(i)]
  BY <1>1 DEF Foreign
<1>3. \A i \in 1 .. Len(q) : r(i) \in Requests /\ ~r(i).now /\ ~r(i).mine
  BY <1>1 DEF Requests
<1> HIDE DEF r
<1>4. Foreign(q) \in Seq(Requests) /\ Len(Foreign(q)) = Len(q)
  BY <1>1, <1>2, <1>3
<1> QED BY <1>1, <1>2, <1>3, <1>4

LEMMA TailType ==
  ASSUME NEW q \in Seq(Requests), q # <<>>
  PROVE  /\ Head(q) \in Requests /\ Head(q) = q[1] /\ Len(q) \in Nat \ {0} /\ 1 \in DOMAIN q
         /\ Tail(q) \in Seq(Requests) /\ Len(Tail(q)) = Len(q) - 1
         /\ \A i \in DOMAIN Tail(q) : i + 1 \in DOMAIN q /\ Tail(q)[i] = q[i + 1]
OBVIOUS

LEMMA TwoTails ==
  ASSUME NEW q \in Seq(Requests), Len(q) > 1
  PROVE  /\ Tail(Tail(q)) \in Seq(Requests) /\ Len(Tail(Tail(q))) = Len(q) - 2
         /\ \A i \in DOMAIN Tail(Tail(q)) :
              i + 2 \in DOMAIN q /\ Tail(Tail(q))[i] = q[i + 2]
<1> DEFINE t == Tail(q)
<1>1. q # <<>>
  OBVIOUS
<1>2. /\ t \in Seq(Requests) /\ Len(t) = Len(q) - 1 /\ Len(q) \in Nat
      /\ \A i \in DOMAIN t : i + 1 \in DOMAIN q /\ t[i] = q[i + 1]
  BY <1>1, TailType
<1> HIDE DEF t
<1>3. t # <<>>
  BY <1>2
<1>4. /\ Tail(t) \in Seq(Requests) /\ Len(Tail(t)) = Len(t) - 1
      /\ \A i \in DOMAIN Tail(t) : i + 1 \in DOMAIN t /\ Tail(t)[i] = t[i + 1]
  BY <1>2, <1>3, TailType
<1>5. ASSUME NEW i \in DOMAIN Tail(t)
      PROVE  i + 2 \in DOMAIN q /\ Tail(t)[i] = q[i + 2]
  <2>1. i \in Nat
    BY <1>4
  <2>2. (i + 1) + 1 \in DOMAIN q /\ Tail(t)[i] = q[(i + 1) + 1]
    BY <1>2, <1>4
  <2>3. (i + 1) + 1 = i + 2
    BY <2>1
  <2> QED BY <2>2, <2>3
<1>6. Tail(t) \in Seq(Requests) /\ Len(Tail(t)) = Len(q) - 2
  BY <1>2, <1>4
<1> QED BY <1>5, <1>6 DEF t

LEMMA AppendType ==
  ASSUME NEW q \in Seq(Requests), NEW r \in Requests
  PROVE  /\ Append(q, r) \in Seq(Requests) /\ Len(Append(q, r)) = Len(q) + 1 /\ Len(q) \in Nat
         /\ \A i \in DOMAIN Append(q, r) :
              IF i = Len(q) + 1 THEN Append(q, r)[i] = r
                                ELSE i \in DOMAIN q /\ Append(q, r)[i] = q[i]
OBVIOUS

(***************************************************************************)
(* Every step                                                              *)
(***************************************************************************)

\* A transfer that failed.
LEMMA FailedKeeps ==
  ASSUME RequestInv, at = "wait", NEW again \in BOOLEAN, Failed(again),
         UNCHANGED <<call, retry, got, device, calls>>,
         reply_err_status' \in BOOLEAN,
         again /\ kind \in PwmKinds => reply_err_status',
         again /\ reply_err_status => reply_err_status',
         silent' /\ reply_err_status => reply_err_status'
  PROVE  RequestInv'
<1> USE DEF call, device
<1>1. /\ queue' \in Seq(Requests) /\ Len(queue') = Len(queue)
      /\ \A i \in 1 .. Len(queue') : ~queue'[i].now /\ (queue'[i].mine => queue[i].mine)
  BY ForgottenType DEF Failed, RequestInv, RequestTypeOK
<1>2. DOMAIN queue' = 1 .. Len(queue) /\ DOMAIN queue = 1 .. Len(queue)
  BY <1>1 DEF RequestInv, RequestTypeOK
<1>3. /\ answer' = "none" /\ bits' = {} /\ at' \in {"idle", "send"}
      /\ at' = "send" => again /\ retry # 0 /\ ~UsedUp
  BY DEF Failed, UsedUp
<1>4. RequestTypeOK'
  <2>1. /\ error_count' \in Nat /\ raised' \in Nat
    BY DEF Failed, RequestInv, RequestTypeOK
  <2>2. /\ ended' \in {"ok", "raised"} /\ silent' \in BOOLEAN /\ dropped' \in BOOLEAN
    BY DEF Failed, Outcome, RequestInv, RequestTypeOK
  <2> QED BY <1>1, <1>3, <2>1, <2>2 DEF RequestInv, RequestTypeOK
<1>5. NowIsLast' /\ ReadyIsDone' /\ BitsAreReady'
  BY <1>1, <1>2, <1>3 DEF NowIsLast, ReadyIsDone, BitsAreReady
<1>6. MineIsPwm'
  BY <1>1, <1>2 DEF MineIsPwm, RequestInv
<1>7. RepeatIsFlagged'
  <2>1. SUFFICES ASSUME at' = "send"
                 PROVE  /\ \A i \in DOMAIN queue' : queue'[i].mine => reply_err_status'
                        /\ dropped' => reply_err_status'
    BY <1>3 DEF RepeatIsFlagged
  <2>2. kind \in PwmKinds => reply_err_status'
    BY <1>3, <2>1
  <2>3. \A i \in DOMAIN queue' : queue'[i].mine => reply_err_status'
    BY <1>1, <1>2, <2>2 DEF RequestInv, MineIsPwm
  <2>4. dropped' => dropped \/ bits # {}
    BY DEF Failed
  <2>5. dropped => reply_err_status'
    BY <1>3, <2>1 DEF RequestInv, RepeatIsFlagged
  <2>6. bits # {} => reply_err_status'
    BY <2>2 DEF RequestInv, BitsAreReady, ReadyIsDone
  <2> QED BY <2>3, <2>4, <2>5, <2>6
<1>8. CallsAreHonest'
  <2>1. SuccessIsLast'
    <3>1. at' = "idle" => ended' = "raised"
      BY DEF Failed, Outcome
    <3> QED BY <3>1 DEF SuccessIsLast
  <2>2. LossIsFlagged'
    BY DEF Failed, LossIsFlagged, CallsAreHonest, RequestInv
  <2>3. RaisedIsCounted'
    BY DEF Failed, Counted, RaisedIsCounted, CallsAreHonest, RequestInv, RequestTypeOK
  <2> QED BY <2>1, <2>2, <2>3 DEF CallsAreHonest
<1> QED BY <1>4, <1>5, <1>6, <1>7, <1>8 DEF RequestInv

LEMMA RequestInvNext == RequestInv /\ [RequestNext]_requestVars => RequestInv'
<1> SUFFICES ASSUME RequestInv, [RequestNext]_requestVars PROVE RequestInv'
  OBVIOUS
<1> USE DEF call, device, callHistory
<1>a. /\ RequestTypeOK /\ NowIsLast /\ ReadyIsDone /\ BitsAreReady /\ MineIsPwm /\ RepeatIsFlagged
      /\ SuccessIsLast /\ LossIsFlagged /\ RaisedIsCounted
  BY DEF RequestInv, CallsAreHonest
<1>b. /\ queue \in Seq(Requests) /\ DEF_RETRY \in Nat \ {0}
  BY <1>a, RequestAssumption DEF RequestTypeOK
<1>1. ASSUME NEW k \in Kinds, Call(k) PROVE RequestInv'
  <2>1. /\ queue' \in Seq(Requests) /\ Len(queue') = Len(queue)
        /\ \A i \in 1 .. Len(queue') : ~queue'[i].now /\ ~queue'[i].mine
    BY <1>1, <1>b, ForeignType DEF Call
  <2>2. DOMAIN queue' = 1 .. Len(queue')
    BY <2>1
  <2>3. val' \in Values \cup {NoValue} /\ calls' \in Nat
    BY <1>1, <1>a DEF Call, RequestTypeOK
  <2>4. RequestTypeOK'
    <3>1. dropped' \in BOOLEAN
      BY <1>1, Zenon DEF Call
    <3> QED BY <1>1, <1>a, <1>b, <2>1, <2>3, <3>1 DEF Call, RequestTypeOK
  <2>5. NowIsLast' /\ ReadyIsDone' /\ BitsAreReady' /\ MineIsPwm' /\ RepeatIsFlagged'
    BY <1>1, <2>1, <2>2
       DEF Call, NowIsLast, ReadyIsDone, BitsAreReady, MineIsPwm, RepeatIsFlagged
  <2>6. CallsAreHonest'
    BY <1>1, <1>a DEF Call, CallsAreHonest, SuccessIsLast, LossIsFlagged, RaisedIsCounted
  <2> QED BY <2>4, <2>5, <2>6 DEF RequestInv
<1>2. CASE Transfer
  <2>1. retry' \in 0 .. DEF_RETRY
    BY <1>2, <1>a, <1>b DEF Transfer, Decremented, RequestTypeOK
  <2>2. answer = "none" /\ bits = {}
    BY <1>2, <1>a DEF Transfer, ReadyIsDone, BitsAreReady, RequestTypeOK
  <2>3. \A i \in DOMAIN queue : ~queue[i].now
    BY <1>2, <1>a DEF Transfer, NowIsLast
  <2>4. CASE UNCHANGED queue
    <3>1. RequestTypeOK'
      BY <1>2, <1>a, <2>1, <2>4 DEF Transfer, RequestTypeOK
    <3>2. NowIsLast' /\ ReadyIsDone' /\ BitsAreReady' /\ MineIsPwm' /\ RepeatIsFlagged'
      BY <1>2, <1>a, <2>2, <2>3, <2>4
         DEF Transfer, NowIsLast, ReadyIsDone, BitsAreReady, MineIsPwm, RepeatIsFlagged
    <3>3. CallsAreHonest'
      BY <1>2, <1>a DEF Transfer, CallsAreHonest, SuccessIsLast, LossIsFlagged, RaisedIsCounted
    <3> QED BY <3>1, <3>2, <3>3 DEF RequestInv
  <2>5. CASE ~UNCHANGED queue
    <3> DEFINE r == [kind |-> kind, val |-> val, mine |-> TRUE, now |-> TRUE]
    <3>1. kind \in PwmKinds /\ queue' = Append(queue, r) /\ r \in Requests
      BY <1>2, <1>a, <2>5 DEF Transfer, RequestTypeOK, Requests
    <3>2. r.now /\ r.mine /\ r.kind = kind /\ r.val = val
      OBVIOUS
    <3> HIDE DEF r
    <3>3. /\ queue' \in Seq(Requests) /\ Len(queue') = Len(queue) + 1 /\ Len(queue) \in Nat
          /\ \A i \in DOMAIN queue' : IF i = Len(queue) + 1 THEN queue'[i] = r
                                      ELSE i \in DOMAIN queue /\ queue'[i] = queue[i]
      BY <1>b, <3>1, AppendType
    <3>4. RequestTypeOK'
      BY <1>2, <1>a, <2>1, <3>3 DEF Transfer, RequestTypeOK
    <3>5. NowIsLast'
      BY <1>2, <2>2, <2>3, <3>2, <3>3 DEF Transfer, NowIsLast
    <3>6. ReadyIsDone' /\ BitsAreReady' /\ MineIsPwm'
      BY <1>2, <2>2, <3>1 DEF Transfer, ReadyIsDone, BitsAreReady, MineIsPwm
    <3>7. RepeatIsFlagged'
      BY <1>2, <1>a, <3>2, <3>3 DEF Transfer, RepeatIsFlagged
    <3>8. CallsAreHonest'
      BY <1>2, <1>a DEF Transfer, CallsAreHonest, SuccessIsLast, LossIsFlagged, RaisedIsCounted
    <3> QED BY <3>4, <3>5, <3>6, <3>7, <3>8 DEF RequestInv
  <2> QED BY <2>4, <2>5
<1>3. CASE CarryOut
  <2> DEFINE r == Head(queue)
  <2>1. /\ queue # <<>>
        /\ \/ queue' = Tail(queue)
           \/ r.kind = "pwm_status" /\ Len(queue) > 1 /\ queue' = Tail(Tail(queue))
        /\ UNCHANGED <<at, call, retry, ended, got, error_count, reply_err_status, calls,
                       raised, silent>>
    BY <1>3 DEF CarryOut
  <2>a. /\ r \in Requests /\ r = queue[1] /\ Len(queue) \in Nat \ {0} /\ 1 \in DOMAIN queue
        /\ Tail(queue) \in Seq(Requests) /\ Len(Tail(queue)) = Len(queue) - 1
        /\ \A i \in DOMAIN Tail(queue) : i + 1 \in DOMAIN queue /\ Tail(queue)[i] = queue[i + 1]
    BY <1>b, <2>1, TailType
  <2>b. \E n \in 1 .. 2 :
          /\ queue' \in Seq(Requests) /\ Len(queue') = Len(queue) - n
          /\ \A i \in DOMAIN queue' : i + n \in DOMAIN queue /\ queue'[i] = queue[i + n]
    <3>1. CASE queue' = Tail(queue)
      <4>1. /\ queue' \in Seq(Requests) /\ Len(queue') = Len(queue) - 1
            /\ \A i \in DOMAIN queue' : i + 1 \in DOMAIN queue /\ queue'[i] = queue[i + 1]
        BY <2>a, <3>1
      <4>2. 1 \in 1 .. 2
        OBVIOUS
      <4> QED BY <4>1, <4>2
    <3>2. CASE Len(queue) > 1 /\ queue' = Tail(Tail(queue))
      <4>1. /\ queue' \in Seq(Requests) /\ Len(queue') = Len(queue) - 2
            /\ \A i \in DOMAIN queue' : i + 2 \in DOMAIN queue /\ queue'[i] = queue[i + 2]
        BY <1>b, <3>2, TwoTails
      <4>2. 2 \in 1 .. 2
        OBVIOUS
      <4> QED BY <4>1, <4>2
    <3> QED BY <2>1, <3>1, <3>2
  <2>c. PICK n \in 1 .. 2 :
          /\ queue' \in Seq(Requests) /\ Len(queue') = Len(queue) - n
          /\ \A i \in DOMAIN queue' : i + n \in DOMAIN queue /\ queue'[i] = queue[i + n]
    BY <2>b
  <2>2. /\ r \in Requests /\ r = queue[1] /\ Len(queue) \in Nat \ {0} /\ 1 \in DOMAIN queue
        /\ queue' \in Seq(Requests) /\ Len(queue') = Len(queue) - n
        /\ \A i \in DOMAIN queue' : i + n \in DOMAIN queue /\ queue'[i] = queue[i + n]
    BY <2>a, <2>c
  <2>3. answer = "none" /\ bits = {}
    BY <1>a, <2>1 DEF ReadyIsDone, BitsAreReady, RequestTypeOK
  <2>4. /\ reg' = IF r.kind = "pwm_status" THEN reg ELSE r.val
        /\ rx_err_status' = IF r.kind = "pwm_status" THEN {} ELSE rx_err_status
        /\ r.now => /\ answer' = "ready" /\ UNCHANGED dropped
                    /\ bits' = IF r.kind = "pwm_status" THEN rx_err_status ELSE {}
        /\ ~r.now => /\ dropped' = (dropped \/ (r.mine /\ r.kind = "pwm_status" /\ rx_err_status # {}))
                     /\ UNCHANGED <<answer, bits>>
    BY <1>3 DEF CarryOut
  <2>5. /\ r.kind \in PwmKinds /\ r.val \in Values \cup {NoValue}
        /\ r.mine \in BOOLEAN /\ r.now \in BOOLEAN
    BY <2>2 DEF Requests
  <2>6. r.now => /\ Len(queue) = 1 /\ at = "wait" /\ r.kind = kind /\ r.val = val
    BY <1>a, <2>2 DEF NowIsLast
  <2>7. at # "idle" /\ r.mine /\ ~r.now => reply_err_status
    BY <1>a, <2>2 DEF RepeatIsFlagged
  <2> HIDE DEF r
  <2>8. r.now => queue' = <<>> /\ DOMAIN queue' = {}
    <3> SUFFICES ASSUME r.now PROVE queue' = <<>>
      OBVIOUS
    <3>1. Len(queue) = 1
      BY <2>6, Zenon
    <3>2. Len(queue') = 0
      BY <2>2, <3>1
    <3> QED BY <2>2, <3>2, EmptySeq
  <2>9. RequestTypeOK'
    <3>1. dropped' \in BOOLEAN
      BY <1>a, <2>4, <2>5 DEF RequestTypeOK
    <3> QED BY <1>a, <2>1, <2>2, <2>4, <2>5, <3>1 DEF RequestTypeOK
  <2>10. NowIsLast'
    <3>1. CASE r.now
      BY <2>8, <3>1 DEF NowIsLast
    <3>2. CASE ~r.now
      BY <1>a, <2>1, <2>2, <2>4, <3>2 DEF NowIsLast
    <3> QED BY <2>5, <3>1, <3>2
  <2>11. ReadyIsDone' /\ BitsAreReady'
    <3>1. CASE r.now
      BY <2>1, <2>4, <2>5, <2>6, <2>8, <3>1 DEF ReadyIsDone, BitsAreReady
    <3>2. CASE ~r.now
      BY <2>3, <2>4, <3>2 DEF ReadyIsDone, BitsAreReady
    <3> QED BY <2>5, <3>1, <3>2
  <2>12. MineIsPwm'
    BY <1>a, <2>1, <2>2 DEF MineIsPwm
  <2>13. RepeatIsFlagged'
    <3>1. at # "idle" /\ dropped' => reply_err_status
      BY <1>a, <2>4, <2>5, <2>7 DEF RepeatIsFlagged
    <3> QED BY <1>a, <2>1, <2>2, <3>1 DEF RepeatIsFlagged
  <2>14. CallsAreHonest'
    <3>1. SuccessIsLast'
      BY <1>a, <2>1 DEF SuccessIsLast, ReadyIsDone
    <3> QED BY <1>a, <2>1, <3>1 DEF CallsAreHonest, LossIsFlagged, RaisedIsCounted
  <2> QED BY <2>9, <2>10, <2>11, <2>12, <2>13, <2>14 DEF RequestInv
<1>4. CASE ReceiveError
  <2>1. /\ rx_err_status' \subseteq ErrBits
        /\ UNCHANGED <<at, call, retry, ended, got, error_count, answer, bits, reg,
                       reply_err_status, callHistory>>
    BY <1>4, <1>a DEF ReceiveError, RequestTypeOK
  <2>2. CASE UNCHANGED queue
    <3>1. RequestTypeOK'
      BY <1>a, <2>1, <2>2 DEF RequestTypeOK
    <3>2. /\ NowIsLast' /\ ReadyIsDone' /\ BitsAreReady' /\ MineIsPwm' /\ RepeatIsFlagged'
          /\ CallsAreHonest'
      BY <1>a, <2>1, <2>2 DEF NowIsLast, ReadyIsDone, BitsAreReady, MineIsPwm, RepeatIsFlagged,
             CallsAreHonest, SuccessIsLast, LossIsFlagged, RaisedIsCounted
    <3> QED BY <3>1, <3>2 DEF RequestInv
  <2>3. CASE queue # <<>> /\ queue' = Tail(queue)
    <3>1. /\ Len(queue) \in Nat \ {0} /\ queue' \in Seq(Requests) /\ Len(queue') = Len(queue) - 1
          /\ \A i \in DOMAIN queue' : i + 1 \in DOMAIN queue /\ queue'[i] = queue[i + 1]
      BY <1>b, <2>3, TailType
    <3>2. RequestTypeOK'
      BY <1>a, <2>1, <3>1 DEF RequestTypeOK
    <3>3. NowIsLast' /\ MineIsPwm' /\ RepeatIsFlagged'
      BY <1>a, <2>1, <3>1 DEF NowIsLast, MineIsPwm, RepeatIsFlagged
    <3>4. ReadyIsDone' /\ BitsAreReady'
      BY <1>a, <2>1, <2>3 DEF ReadyIsDone, BitsAreReady
    <3>5. CallsAreHonest'
      BY <1>a, <2>1, <2>3 DEF CallsAreHonest, SuccessIsLast, LossIsFlagged, RaisedIsCounted
    <3> QED BY <3>2, <3>3, <3>4, <3>5 DEF RequestInv
  <2> QED BY <1>4, <2>2, <2>3 DEF ReceiveError
<1>5. CASE Answered
  <2>1. RequestTypeOK'
    BY <1>5, <1>a DEF Answered, RequestTypeOK
  <2>2. NowIsLast' /\ ReadyIsDone' /\ BitsAreReady' /\ MineIsPwm' /\ RepeatIsFlagged'
    <3>1. queue = <<>> /\ DOMAIN queue = {}
      BY <1>5, <1>a DEF Answered, ReadyIsDone
    <3> QED BY <1>5, <1>a, <3>1
          DEF Answered, NowIsLast, ReadyIsDone, BitsAreReady, MineIsPwm, RepeatIsFlagged
  <2>3. CallsAreHonest'
    BY <1>5, <1>a DEF Answered, CallsAreHonest, SuccessIsLast, LossIsFlagged, RaisedIsCounted,
           ReadyIsDone, RepeatIsFlagged
  <2> QED BY <2>1, <2>2, <2>3 DEF RequestInv
<1>6. CASE UsbStatusAnswered
  <2>1. RequestTypeOK'
    BY <1>6, <1>a DEF UsbStatusAnswered, RequestTypeOK
  <2>2. answer = "none" /\ bits = {} /\ \A i \in DOMAIN queue : ~queue[i].mine
    BY <1>6, <1>a DEF UsbStatusAnswered, ReadyIsDone, BitsAreReady, MineIsPwm, PwmKinds, RequestTypeOK
  <2>3. \A i \in DOMAIN queue : ~queue[i].now
    <3> SUFFICES ASSUME NEW i \in DOMAIN queue, queue[i].now PROVE FALSE
      OBVIOUS
    <3>1. queue[i] \in Requests
      BY <1>b
    <3> QED BY <1>6, <1>a, <3>1 DEF UsbStatusAnswered, NowIsLast, Requests, PwmKinds
  <2>4. NowIsLast' /\ ReadyIsDone' /\ BitsAreReady' /\ MineIsPwm' /\ RepeatIsFlagged'
    BY <1>6, <2>2, <2>3
       DEF UsbStatusAnswered, NowIsLast, ReadyIsDone, BitsAreReady, MineIsPwm, RepeatIsFlagged
  <2>5. CallsAreHonest'
    BY <1>6, <1>a DEF UsbStatusAnswered, CallsAreHonest, SuccessIsLast, LossIsFlagged,
           RaisedIsCounted
  <2> QED BY <2>1, <2>4, <2>5 DEF RequestInv
<1>7. CASE Stall
  <2>1. reply_err_status' = (reply_err_status \/ kind \in PwmKinds)
    BY <1>7 DEF Stall
  <2> QED BY <1>7, <1>a, <2>1, FailedKeeps DEF Stall, RequestTypeOK
<1>8. CASE OtherError
  <2>1. reply_err_status' \in BOOLEAN /\ ~silent'
    BY <1>8, <1>a DEF OtherError, Failed, Retried, RequestTypeOK
  <2>2. Failed(FALSE) /\ at = "wait" /\ UNCHANGED <<call, retry, got, device, calls>>
    BY <1>8 DEF OtherError, Retried
  <2> QED BY <2>1, <2>2, FailedKeeps
<1>9. CASE WrongLength
  <2>1. RequestTypeOK'
    <3>1. error_count' \in Nat /\ raised' \in Nat
      BY <1>9, <1>a DEF WrongLength, RequestTypeOK
    <3>2. silent' \in BOOLEAN
      BY <1>9, Zenon DEF WrongLength
    <3> QED BY <1>9, <1>a, <3>1, <3>2 DEF WrongLength, RequestTypeOK
  <2>2. NowIsLast' /\ ReadyIsDone' /\ BitsAreReady' /\ MineIsPwm' /\ RepeatIsFlagged'
    <3>1. queue = <<>> /\ DOMAIN queue = {}
      BY <1>9, <1>a DEF WrongLength, ReadyIsDone
    <3> QED BY <1>9, <1>a, <3>1
          DEF WrongLength, NowIsLast, ReadyIsDone, BitsAreReady, MineIsPwm, RepeatIsFlagged
  <2>3. CallsAreHonest'
    BY <1>9, <1>a DEF WrongLength, CallsAreHonest, SuccessIsLast, LossIsFlagged, RaisedIsCounted,
           RequestTypeOK
  <2> QED BY <2>1, <2>2, <2>3 DEF RequestInv
<1>10. CASE UNCHANGED requestVars
  <2>1. RequestTypeOK'
    BY <1>10, <1>a DEF requestVars, RequestTypeOK
  <2> QED BY <1>10, <1>a, <2>1
        DEF requestVars, RequestInv, NowIsLast, ReadyIsDone, BitsAreReady, MineIsPwm, RepeatIsFlagged,
            CallsAreHonest, SuccessIsLast, LossIsFlagged, RaisedIsCounted
<1> QED BY <1>1, <1>2, <1>3, <1>4, <1>5, <1>6, <1>7, <1>8, <1>9, <1>10 DEF RequestNext, Host

\* The values of the variables, for any number of retries, calls and requests under way.
THEOREM RequestType == RequestSpec => []RequestTypeOK
<1>1. RequestInv => RequestTypeOK
  BY DEF RequestInv
<1>2. RequestInit => RequestInv
  BY RequestInvInit
<1>3. RequestInv /\ [RequestNext]_requestVars => RequestInv'
  BY RequestInvNext
<1> QED BY <1>1, <1>2, <1>3, PTL DEF RequestSpec

\* A call that ended well is the last word to the controller, error bits that were lost with
\* their reply leave a time out flagged, and every exception is counted.
THEOREM RequestsAreHonest == RequestSpec => []CallsAreHonest
<1>1. RequestInv => CallsAreHonest
  BY DEF RequestInv
<1>2. RequestInit => RequestInv
  BY RequestInvInit
<1>3. RequestInv /\ [RequestNext]_requestVars => RequestInv'
  BY RequestInvNext
<1> QED BY <1>1, <1>2, <1>3, PTL DEF RequestSpec

(***************************************************************************)
(* The configuration: numbers and ports                                    *)
(***************************************************************************)

\* The members of the two ranges.
LEMMA RangeFacts ==
  /\ \A x : x \in Byte <=> x \in Nat /\ x <= 255
  /\ \A x : x \in Word <=> x \in Nat /\ x <= 65535
<1> SUFFICES ASSUME NEW x PROVE /\ x \in Byte <=> x \in Nat /\ x <= 255
                                /\ x \in Word <=> x \in Nat /\ x <= 65535
  OBVIOUS
<1>1. MaxByte \in Nat /\ MaxWord \in Nat
  BY DEF MaxByte, MaxWord
<1>2. CASE x \in Nat
  <2>1. (x \in Byte <=> x <= MaxByte) /\ (x \in Word <=> x <= MaxWord)
    BY SMT, <1>1, <1>2 DEF Byte, Word
  <2>2. (x <= MaxByte <=> x <= 255) /\ (x <= MaxWord <=> x <= 65535)
    BY SMT, <1>2 DEF MaxByte, MaxWord
  <2> QED BY SMT, <1>2, <2>1, <2>2
<1>3. CASE x \notin Nat
  <2>1. x \notin Byte /\ x \notin Word
    BY SMT, <1>1, <1>3 DEF Byte, Word
  <2> QED BY SMT, <1>3, <2>1
<1> QED BY <1>2, <1>3

\* A set of numbers that is not empty has a smallest one.
LEMMA SmallestNumber ==
  ASSUME NEW T, T \subseteq Nat, T # {}
  PROVE  \E x \in T : \A y \in T : x <= y
<1>1. PICK x \in T : \A y \in T : ~(<<y, x>> \in OpToRel(<, Nat))
  BY NatLessThanWellFounded, WFMin, Zenon
<1>2. \A y \in T : ~(y < x)
  BY <1>1 DEF OpToRel
<1> QED BY <1>2

\* Place finds a port in the order of channelMap.keys().
LEMMA PlaceFacts ==
  \A p \in Ports : Place(p) \in 1 .. NCHANNELS /\ PortNames[Place(p)] = p
<1>1. DOMAIN PortNames = 1 .. NCHANNELS
  BY ConfigAssumption DEF NCHANNELS
<1> SUFFICES ASSUME NEW p \in Ports PROVE Place(p) \in 1 .. NCHANNELS /\ PortNames[Place(p)] = p
  OBVIOUS
<1>2. \E i \in 1 .. NCHANNELS : PortNames[i] = p
  BY <1>1 DEF Ports, ToSet
<1> QED BY <1>2 DEF Place

\* There are finitely many ports, as many as fit into the byte of their number.
LEMMA PortsAreFew == IsFiniteSet(Ports) /\ Cardinality(Ports) <= NCHANNELS /\ NCHANNELS \in 1 .. MaxByte
<1> DEFINE f == [p \in Ports |-> Place(p)]
<1>1. NCHANNELS \in 1 .. MaxByte /\ NCHANNELS \in Int /\ 1 \in Int
  BY ConfigAssumption
<1>2. IsFiniteSet(1 .. NCHANNELS) /\ Cardinality(1 .. NCHANNELS) = NCHANNELS
  <2>1. IsFiniteSet(1 .. NCHANNELS)
        /\ Cardinality(1 .. NCHANNELS) = IF 1 > NCHANNELS THEN 0 ELSE NCHANNELS - 1 + 1
    BY Zenon, <1>1, FS_Interval
  <2> QED BY <1>1, <2>1
<1>3. f \in Injection(Ports, 1 .. NCHANNELS)
  BY PlaceFacts DEF Injection, IsInjective
<1> QED BY <1>1, <1>2, <1>3, FS_Injection

\* The number of ports as a number.
LEMMA ChannelNumber == NCHANNELS \in Nat /\ NCHANNELS <= 255 /\ NCHANNELS >= 1
<1>1. NCHANNELS \in 1 .. MaxByte /\ MaxByte \in Nat
  BY PortsAreFew DEF MaxByte
<1>2. NCHANNELS \in Nat /\ NCHANNELS <= MaxByte /\ NCHANNELS >= 1
  BY <1>1
<1>3. MaxByte = 255
  BY DEF MaxByte
<1> QED BY <1>2, <1>3

(***************************************************************************)
(* The request channels of a configuration                                 *)
(***************************************************************************)

\* Of the ports with one key there is a first one: it has a request channel, its own.
LEMMA FirstFacts ==
  ASSUME NEW cf, NEW p \in MappedPorts(cf)
  PROVE  /\ FirstWithKey(cf, p) \in WithSameKey(cf, p)
         /\ FirstWithKey(cf, p) \in ReqPorts(cf)
         /\ FirstWithKey(cf, FirstWithKey(cf, p)) = FirstWithKey(cf, p)
<1> DEFINE S == WithSameKey(cf, p)
           first == FirstWithKey(cf, p)
<1>1. p \in S /\ S \subseteq MappedPorts(cf) /\ S \subseteq Ports
  BY DEF WithSameKey, MappedPorts
<1>2. \E q \in S : \A r \in S : Place(q) <= Place(r)
  <2> DEFINE T == {Place(q) : q \in S}
  <2>1. T \subseteq Nat /\ T # {}
    BY <1>1, PlaceFacts, PortsAreFew
  <2>2. PICK x \in T : \A y \in T : x <= y
    BY <2>1, SmallestNumber
  <2> QED BY <2>2
<1>3. first \in S
  BY <1>2 DEF FirstWithKey
<1>4. WithSameKey(cf, first) = S
  BY <1>3 DEF WithSameKey
<1>5. FirstWithKey(cf, first) = first
  BY <1>4 DEF FirstWithKey
<1> QED BY <1>1, <1>3, <1>5 DEF ReqPorts

\* At most one request channel for each port.
LEMMA ReqPortsAreFew ==
  ASSUME NEW cf
  PROVE  /\ ReqPorts(cf) \subseteq Ports /\ IsFiniteSet(ReqPorts(cf))
         /\ Cardinality(ReqPorts(cf)) \in 0 .. NCHANNELS
<1>1. ReqPorts(cf) \subseteq Ports
  BY DEF ReqPorts, MappedPorts
<1>2. IsFiniteSet(ReqPorts(cf)) /\ Cardinality(ReqPorts(cf)) <= Cardinality(Ports)
  BY <1>1, PortsAreFew, FS_Subset
<1>3. Cardinality(ReqPorts(cf)) \in Nat /\ Cardinality(Ports) \in Nat
  BY <1>2, PortsAreFew, FS_CardinalityType
<1> QED BY <1>1, <1>2, <1>3, PortsAreFew

\* The ports before two ports with a request channel differ in number, so that the
\* channels get different numbers.
LEMMA BeforeFacts ==
  ASSUME NEW cf
  PROVE  /\ \A p \in ReqPorts(cf) :
              Cardinality(ReqPortsBefore(cf, p)) \in 0 .. Cardinality(ReqPorts(cf)) - 1
         /\ \A p, q \in ReqPorts(cf) :
              Cardinality(ReqPortsBefore(cf, p)) = Cardinality(ReqPortsBefore(cf, q)) => p = q
<1> DEFINE R == ReqPorts(cf)
           B(p) == ReqPortsBefore(cf, p)
<1>1. R \subseteq Ports /\ IsFiniteSet(R) /\ Cardinality(R) \in Nat
  BY ReqPortsAreFew, PortsAreFew
<1>2. \A p \in R : Place(p) \in Nat /\ PortNames[Place(p)] = p
  BY <1>1, PlaceFacts, PortsAreFew
<1>3. \A S, T : IsFiniteSet(T) /\ S \subseteq T /\ S # T =>
         IsFiniteSet(S) /\ Cardinality(S) \in Nat /\ Cardinality(T) \in Nat
         /\ Cardinality(S) < Cardinality(T)
  <2> SUFFICES ASSUME NEW S, NEW T, IsFiniteSet(T), S \subseteq T, S # T
               PROVE IsFiniteSet(S) /\ Cardinality(S) \in Nat /\ Cardinality(T) \in Nat
                     /\ Cardinality(S) < Cardinality(T)
    OBVIOUS
  <2>1. IsFiniteSet(S) /\ Cardinality(S) <= Cardinality(T) /\ Cardinality(S) # Cardinality(T)
    BY FS_Subset
  <2>2. Cardinality(S) \in Nat /\ Cardinality(T) \in Nat
    BY <2>1, FS_CardinalityType
  <2> QED BY <2>1, <2>2
<1>4. \A p \in R : B(p) \subseteq R /\ p \notin B(p)
  BY <1>2 DEF ReqPortsBefore
<1>5. \A p, q \in R : Place(p) < Place(q) => B(p) \subseteq B(q) /\ p \in B(q)
  BY <1>2 DEF ReqPortsBefore
<1>6. \A p \in R : IsFiniteSet(B(p)) /\ Cardinality(B(p)) \in Nat
                   /\ Cardinality(B(p)) < Cardinality(R)
  BY <1>1, <1>3, <1>4
<1>7. \A p, q \in R : Place(p) < Place(q) => Cardinality(B(p)) < Cardinality(B(q))
  <2> SUFFICES ASSUME NEW p \in R, NEW q \in R, Place(p) < Place(q)
               PROVE  Cardinality(B(p)) < Cardinality(B(q))
    OBVIOUS
  <2>1. B(p) \subseteq B(q) /\ B(p) # B(q)
    BY <1>4, <1>5
  <2> QED BY <1>3, <1>6, <2>1
<1>8. \A p, q \in R : Cardinality(B(p)) = Cardinality(B(q)) => p = q
  <2> SUFFICES ASSUME NEW p \in R, NEW q \in R, Cardinality(B(p)) = Cardinality(B(q))
               PROVE  p = q
    OBVIOUS
  <2>1. ~(Place(p) < Place(q)) /\ ~(Place(q) < Place(p))
    BY <1>6, <1>7
  <2>2. Place(p) = Place(q)
    BY <1>2, <2>1
  <2> QED BY <1>2, <2>2
<1> QED BY <1>1, <1>6, <1>8

\* The request channels are numbered from 0 without a gap; two ports have the same number
\* exactly if they have the same first port.
LEMMA ChannelFacts ==
  ASSUME NEW cf
  PROVE  LET n == Cardinality(ReqPorts(cf))
         IN  /\ \A p \in MappedPorts(cf) :
                  /\ ReqChannel(cf, p) \in 0 .. n - 1
                  /\ \A q \in ReqPorts(cf) :
                       ReqChannel(cf, q) = ReqChannel(cf, p) <=> q = FirstWithKey(cf, p)
             /\ \A k \in 0 .. n - 1 : \E p \in ReqPorts(cf) : ReqChannel(cf, p) = k
<1> DEFINE R == ReqPorts(cf)
           n == Cardinality(R)
           f == [p \in R |-> ReqChannel(cf, p)]
<1>1. \A p \in R : p \in MappedPorts(cf) /\ FirstWithKey(cf, p) = p
  BY DEF ReqPorts
<1>2. \A p \in R : ReqChannel(cf, p) = Cardinality(ReqPortsBefore(cf, p))
  BY <1>1 DEF ReqChannel
<1>3. \A p \in MappedPorts(cf) : /\ FirstWithKey(cf, p) \in R
                                 /\ ReqChannel(cf, p) = ReqChannel(cf, FirstWithKey(cf, p))
  BY FirstFacts DEF ReqChannel
<1>4. /\ \A p \in R : ReqChannel(cf, p) \in 0 .. n - 1
      /\ \A p, q \in R : ReqChannel(cf, p) = ReqChannel(cf, q) => p = q
  BY <1>2, BeforeFacts
<1>5. n \in Nat /\ IsFiniteSet(R)
  BY ReqPortsAreFew, PortsAreFew
<1>6. \A k \in 0 .. n - 1 : \E p \in R : ReqChannel(cf, p) = k
  <2>1. IsFiniteSet(0 .. n - 1) /\ Cardinality(0 .. n - 1) = n
    <3>1. 0 \in Int /\ n - 1 \in Int
      BY <1>5
    <3>2. /\ IsFiniteSet(0 .. n - 1)
          /\ Cardinality(0 .. n - 1) = IF 0 > n - 1 THEN 0 ELSE n - 1 - 0 + 1
      BY Zenon, <3>1, FS_Interval
    <3> QED BY <1>5, <3>2
  <2>2. f \in Injection(R, 0 .. n - 1)
    BY <1>4 DEF Injection, IsInjective
  <2>3. f \in Surjection(R, 0 .. n - 1)
    BY <2>1, <2>2, FS_Injection
  <2> QED BY <2>3 DEF Surjection
<1> HIDE DEF R, n
<1>7. \A p \in MappedPorts(cf) :
         /\ ReqChannel(cf, p) \in 0 .. n - 1
         /\ \A q \in R : ReqChannel(cf, q) = ReqChannel(cf, p) <=> q = FirstWithKey(cf, p)
  BY <1>3, <1>4
<1> QED BY <1>6, <1>7 DEF R, n

(***************************************************************************)
(* The record of a channel                                                 *)
(***************************************************************************)

\* The area code and the six bytes of a channel.
Code(c) == AreaCode(c.area, c.color)
Bytes(c, n, res) ==
  <<n, Code(c), AreaNum(c.area), c.gamma, AtMost(c.whiteCal, res) % 256, AtMost(c.whiteCal, res) \div 256>>

\* Clamp stays between its limits and keeps what lies between them.
LEMMA ClampFacts ==
  /\ \A v, hi \in Nat : /\ AtMost(v, hi) \in 0 .. hi /\ AtMost(v, hi) <= v
                        /\ v <= hi => AtMost(v, hi) = v
  /\ \A v, lo, hi \in Int : lo <= hi => /\ Clamp(v, lo, hi) \in lo .. hi
                                        /\ v \in lo .. hi => Clamp(v, lo, hi) = v
BY DEF AtMost, Clamp

\* A number of two bytes is the sum of its bytes.
LEMMA WordFacts ==
  \A w \in Word : w % 256 \in Byte /\ w \div 256 \in Byte
                        /\ (w % 256) + 256 * (w \div 256) = w
BY RangeFacts

\* The code and the number of an area make up two bytes, from which read gets the area and
\* the colour again.
LEMMA CodeFacts ==
  ASSUME NEW c \in Channels
  PROVE  /\ Code(c) \in Byte /\ AreaNum(c.area) \in Byte
         /\ AreaName(Code(c), AreaNum(c.area)) = c.area /\ Code(c) % 4 = c.color
<1>1. /\ c.area \in [idx : 0 .. 8, num : Byte] /\ (c.area.idx > 3 => c.area.num = 0)
      /\ c.color \in 0 .. 3
  BY DEF Channels, Areas, NumBaseAreas
<1>2. PICK i \in 0 .. 8, m \in Byte : c.area = [idx |-> i, num |-> m]
  BY <1>1
<1>3. c.area.idx = i /\ c.area.num = m
  BY <1>2
<1>4. Code(c) = i * 4 + c.color /\ AreaNum(c.area) = IF i < 4 THEN m ELSE 0
  BY <1>3 DEF Code, AreaCode, AreaNum
<1>5. (i * 4 + c.color) \div 4 = i /\ (i * 4 + c.color) % 4 = c.color
  BY <1>1
<1>6. (IF i < 4 THEN m ELSE 0) = m
  BY <1>1, <1>3
<1>8. Code(c) \in Byte /\ AreaNum(c.area) \in Byte
  BY <1>1, <1>4, <1>6, RangeFacts
<1>7. AreaName(Code(c), AreaNum(c.area)) = [idx |-> i, num |-> m]
  BY <1>4, <1>5, <1>6 DEF AreaName, NumBaseAreas
<1> QED BY <1>2, <1>4, <1>5, <1>7, <1>8

\* Six bytes.
LEMMA BytesType ==
  ASSUME NEW c \in Channels, NEW n \in Byte, NEW res \in Word
  PROVE  /\ Bytes(c, n, res) \in Seq(Byte) /\ Len(Bytes(c, n, res)) = 6
         /\ \A j \in 1 .. 6 : Bytes(c, n, res)[j] \in Byte
<1> DEFINE w == AtMost(c.whiteCal, res)
<1>1. w \in Word /\ c.gamma \in Byte
  <2>1. c.whiteCal \in Nat /\ res \in Nat /\ c.gamma \in 10 .. 50
    BY RangeFacts DEF Channels
  <2>2. w \in 0 .. res
    BY <2>1, ClampFacts
  <2> HIDE DEF w
  <2> QED BY <2>1, <2>2, RangeFacts
<1>2. w % 256 \in Byte /\ w \div 256 \in Byte
  BY <1>1, WordFacts
<1> HIDE DEF w
<1>3. Code(c) \in Byte /\ AreaNum(c.area) \in Byte
  BY CodeFacts
<1>4. Bytes(c, n, res) = <<n, Code(c), AreaNum(c.area), c.gamma, w % 256, w \div 256>>
  BY DEF Bytes, w
<1> QED BY <1>1, <1>2, <1>3, <1>4

\* The record of a channel is the one of the first port with its key.
LEMMA RecordFacts ==
  ASSUME NEW cf \in Configs
  PROVE  /\ \A k \in 0 .. Cardinality(ReqPorts(cf)) - 1 :
              /\ ChannelRecord(cf, k) \in Seq(Byte) /\ Len(ChannelRecord(cf, k)) = 6
              /\ \A j \in 1 .. 6 : ChannelRecord(cf, k)[j] \in Byte
         /\ \A p \in MappedPorts(cf) :
              ChannelRecord(cf, ReqChannel(cf, p)) =
                Bytes(cf.channelMap[FirstWithKey(cf, p)], ReqChannel(cf, p), cf.pwmRes)
<1> DEFINE R == ReqPorts(cf)
           port(k) == CHOOSE p \in R : ReqChannel(cf, p) = k
<1>1. \A k : ChannelRecord(cf, k) = Bytes(cf.channelMap[port(k)], k, cf.pwmRes)
  BY DEF ChannelRecord, Bytes, Code
<1>2. \A p \in R : cf.channelMap[p] \in Channels
  BY DEF ReqPorts, MappedPorts, Configs, ChannelMaps
<1>3. cf.pwmRes \in Word
  BY DEF Configs
<1>4. ASSUME NEW k \in 0 .. Cardinality(R) - 1
      PROVE  /\ ChannelRecord(cf, k) \in Seq(Byte) /\ Len(ChannelRecord(cf, k)) = 6
             /\ \A j \in 1 .. 6 : ChannelRecord(cf, k)[j] \in Byte
  <2>1. port(k) \in R
    BY ChannelFacts
  <2>2. k \in Byte
    <3>1. NCHANNELS \in Nat /\ NCHANNELS <= 255 /\ Cardinality(R) \in 0 .. NCHANNELS
      BY ReqPortsAreFew, ChannelNumber
    <3> HIDE DEF R
    <3> QED BY <3>1, RangeFacts
  <2>3. cf.channelMap[port(k)] \in Channels
    BY <1>2, <2>1
  <2> HIDE DEF port
  <2> QED BY <1>1, <1>3, <2>2, <2>3, BytesType
<1>5. ASSUME NEW p \in MappedPorts(cf)
      PROVE  port(ReqChannel(cf, p)) = FirstWithKey(cf, p)
  <2>1. FirstWithKey(cf, p) \in R
    BY FirstFacts
  <2>2. \A q \in R : ReqChannel(cf, q) = ReqChannel(cf, p) <=> q = FirstWithKey(cf, p)
    BY ChannelFacts
  <2> QED BY <2>1, <2>2
<1> HIDE DEF R, port
<1> QED BY <1>1, <1>4, <1>5 DEF R

(***************************************************************************)
(* What write sends to the EEPROM                                          *)
(***************************************************************************)

\* The elements of two sequences one after the other.
IsJoin(u, s, t) ==
  /\ u \in Seq(Byte) /\ Len(u) = Len(s) + Len(t)
  /\ \A i \in 1 .. Len(s) : u[i] = s[i]
  /\ \A i \in 1 .. Len(t) : u[Len(s) + i] = t[i]

\* Concatenation puts them there.
LEMMA Joined ==
  ASSUME NEW s \in Seq(Byte), NEW t \in Seq(Byte), NEW u, u = s \o t
  PROVE  IsJoin(u, s, t)
<1>1. s \o t \in Seq(Byte) /\ Len(s \o t) = Len(s) + Len(t)
  OBVIOUS
<1>2. \A i \in 1 .. Len(s) : (s \o t)[i] = s[i]
  OBVIOUS
<1>3. \A i \in 1 .. Len(t) : (s \o t)[Len(s) + i] = t[i]
  OBVIOUS
<1> QED BY Zenon, <1>1, <1>2, <1>3 DEF IsJoin

\* A function on the numbers up to n is a sequence of this length.
LEMMA FunctionIsSeq ==
  ASSUME NEW S, NEW n \in Nat, NEW f \in [1 .. n -> S]
  PROVE  f \in Seq(S) /\ Len(f) = n
OBVIOUS

\* The three parts of the data that write sends.
Header(cf) == CONFIG_VALID_ID \o <<3, 0>> \o cf.layout.numAreas \o <<Cardinality(ReqPorts(cf))>>
ChannelBytes(cf) == [i \in 1 .. Cardinality(ReqPorts(cf)) * 6 |->
                  ChannelRecord(cf, (i - 1) \div 6)[1 + ((i - 1) % 6)]]
LayoutBytes(cf) == <<cf.layout.overscan, cf.layout.analyzeSize, cf.layout.edgeWeighting, cf.layout.weightLimit>>

\* The values of a legal layout are bytes.
LEMMA LayoutFacts ==
  ASSUME NEW l \in LegalLayouts
  PROVE  /\ l.numAreas \in Seq(Byte) /\ Len(l.numAreas) = 9
         /\ \A i \in 1 .. 9 : l.numAreas[i] \in Nat /\ l.numAreas[i] <= MAX_AREAS[i]
         /\ l.overscan \in 0 .. 200 /\ l.analyzeSize \in 0 .. 5 /\ l.edgeWeighting \in 10 .. 200
         /\ l.weightLimit \in Byte
         /\ l.overscan \in Byte /\ l.analyzeSize \in Byte /\ l.edgeWeighting \in Byte
<1>1. /\ l.numAreas \in [1 .. 9 -> Nat]
      /\ \A i \in 1 .. 9 : l.numAreas[i] <= MAX_AREAS[i]
      /\ l.overscan \in 0 .. 200 /\ l.analyzeSize \in 0 .. 5 /\ l.edgeWeighting \in 10 .. 200
      /\ l.weightLimit \in Byte
  BY DEF LegalLayouts, NumBaseAreas
<1>2. l.overscan \in Byte /\ l.analyzeSize \in Byte /\ l.edgeWeighting \in Byte
  BY <1>1, RangeFacts
<1>3. \A i \in 1 .. 9 : MAX_AREAS[i] \in Nat /\ MAX_AREAS[i] <= 30
  BY DEF MAX_AREAS
<1>4. \A i \in 1 .. 9 : l.numAreas[i] \in Byte
  BY <1>1, <1>3, RangeFacts
<1>5. l.numAreas \in [1 .. 9 -> Byte]
  BY <1>1, <1>4
<1>6. l.numAreas \in Seq(Byte) /\ Len(l.numAreas) = 9
  BY <1>5, FunctionIsSeq, ZenonT(60)
<1> QED BY <1>1, <1>2, <1>6

\* The bytes before the channels, and their number.
LEMMA HeaderFacts ==
  ASSUME NEW cf \in Configs
  PROVE  /\ Header(cf) \in Seq(Byte) /\ Len(Header(cf)) = 14
         /\ Header(cf)[1] = 161 /\ Header(cf)[2] = 160 /\ Header(cf)[3] = 3 /\ Header(cf)[4] = 0
         /\ \A i \in 1 .. 9 : Header(cf)[4 + i] = cf.layout.numAreas[i]
         /\ Header(cf)[14] = Cardinality(ReqPorts(cf))
<1> DEFINE n == Cardinality(ReqPorts(cf))
           a == cf.layout.numAreas
           v == CONFIG_VALID_ID
           w == <<3, 0>>
           z == <<n>>
           vw == v \o w
           vwa == vw \o a
           h == Header(cf)
<1>1. a \in Seq(Byte) /\ Len(a) = 9
  BY LayoutFacts DEF Configs
<1>2. v \in Seq(Byte) /\ Len(v) = 2 /\ v[1] = 161 /\ v[2] = 160
  BY RangeFacts DEF CONFIG_VALID_ID
<1>3. w \in Seq(Byte) /\ Len(w) = 2 /\ w[1] = 3 /\ w[2] = 0
  BY RangeFacts
<1>4. z \in Seq(Byte) /\ Len(z) = 1 /\ z[1] = n
  <2>1. n \in Byte
    BY ReqPortsAreFew, ChannelNumber, RangeFacts
  <2> HIDE DEF n
  <2> QED BY <2>1
<1>5. vw = v \o w /\ vwa = vw \o a /\ h = vwa \o z
  BY DEF Header
<1> HIDE DEF a, v, w, z, n, vw, vwa, h
<1>6. IsJoin(vw, v, w)
  BY <1>2, <1>3, <1>5, Joined
<1>7. IsJoin(vwa, vw, a)
  <2>1. vw \in Seq(Byte)
    BY <1>6 DEF IsJoin
  <2> QED BY <1>1, <1>5, <2>1, Joined
<1>8. IsJoin(h, vwa, z)
  <2>1. vwa \in Seq(Byte)
    BY <1>7 DEF IsJoin
  <2> QED BY <1>4, <1>5, <2>1, Joined
<1>9. Len(vw) = 4 /\ Len(vwa) = 13 /\ Len(h) = 14
  BY <1>1, <1>2, <1>3, <1>4, <1>6, <1>7, <1>8 DEF IsJoin
<1>10. \A i \in 1 .. 4 : h[i] = vw[i]
  BY <1>7, <1>8, <1>9 DEF IsJoin
<1>11. h[1] = 161 /\ h[2] = 160 /\ h[3] = 3 /\ h[4] = 0
  BY <1>2, <1>3, <1>6, <1>10 DEF IsJoin
<1>12. \A i \in 1 .. 9 : h[4 + i] = a[i]
  BY <1>1, <1>7, <1>8, <1>9, SMTT(30) DEF IsJoin
<1>13. h[14] = n
  BY <1>4, <1>8, <1>9 DEF IsJoin
<1> QED BY <1>8, <1>9, <1>11, <1>12, <1>13 DEF IsJoin, a, n, h

\* The bytes of the channels, six of each.
LEMMA RecordsFacts ==
  ASSUME NEW cf \in Configs
  PROVE  LET n == Cardinality(ReqPorts(cf))
         IN  /\ n \in 0 .. NCHANNELS
             /\ ChannelBytes(cf) \in Seq(Byte) /\ Len(ChannelBytes(cf)) = n * 6
             /\ \A k \in 0 .. n - 1, j \in 1 .. 6 :
                  k * 6 + j \in 1 .. n * 6 /\ ChannelBytes(cf)[k * 6 + j] = ChannelRecord(cf, k)[j]
<1> DEFINE n == Cardinality(ReqPorts(cf))
           r(i) == ChannelRecord(cf, (i - 1) \div 6)[1 + ((i - 1) % 6)]
<1>1. n \in 0 .. NCHANNELS /\ n \in Nat
  BY ReqPortsAreFew, ChannelNumber
<1>2. ChannelBytes(cf) = [i \in 1 .. n * 6 |-> r(i)]
  BY DEF ChannelBytes
<1> HIDE DEF n
<1>3. \A i \in 1 .. n * 6 : (i - 1) \div 6 \in 0 .. n - 1 /\ 1 + ((i - 1) % 6) \in 1 .. 6
  BY <1>1
<1>4. \A i \in 1 .. n * 6 : r(i) \in Byte
  BY <1>3, RecordFacts DEF n
<1>5. \A k \in 0 .. n - 1, j \in 1 .. 6 :
        /\ k * 6 + j \in 1 .. n * 6
        /\ (k * 6 + j - 1) \div 6 = k /\ 1 + ((k * 6 + j - 1) % 6) = j
  BY <1>1
<1>6. \A k \in 0 .. n - 1, j \in 1 .. 6 : r(k * 6 + j) = ChannelRecord(cf, k)[j]
  <2> SUFFICES ASSUME NEW k \in 0 .. n - 1, NEW j \in 1 .. 6
               PROVE  r(k * 6 + j) = ChannelRecord(cf, k)[j]
    OBVIOUS
  <2>1. (k * 6 + j - 1) \div 6 = k /\ 1 + ((k * 6 + j - 1) % 6) = j
    BY <1>5
  <2> QED BY SMT, <2>1
<1> HIDE DEF r
<1>7. \A k \in 0 .. n - 1, j \in 1 .. 6 : ChannelBytes(cf)[k * 6 + j] = r(k * 6 + j)
  BY <1>2, <1>5
<1>8. ChannelBytes(cf) \in Seq(Byte) /\ Len(ChannelBytes(cf)) = n * 6
  <2>1. n * 6 \in Nat
    BY <1>1
  <2>2. ChannelBytes(cf) \in [1 .. n * 6 -> Byte]
    BY <1>2, <1>4
  <2> QED BY <2>1, <2>2
<1> QED BY <1>1, <1>5, <1>6, <1>7, <1>8 DEF n

\* The whole data: it fits into the EEPROM, and each byte is at its place.
LEMMA EeDataFacts ==
  ASSUME NEW cf \in Configs
  PROVE  LET n == Cardinality(ReqPorts(cf))
             d == EeData(cf)
         IN  /\ n \in 0 .. NCHANNELS
             /\ d \in Seq(Byte) /\ Len(d) = 14 + n * 6 + 4
             /\ d[1] = 161 /\ d[2] = 160 /\ d[3] = 3 /\ d[4] = 0
             /\ \A i \in 1 .. 9 : d[4 + i] = cf.layout.numAreas[i]
             /\ d[14] = n
             /\ \A k \in 0 .. n - 1, j \in 1 .. 6 :
                  k * 6 + j \in 1 .. n * 6 /\ d[14 + (k * 6 + j)] = ChannelRecord(cf, k)[j]
             /\ d[14 + n * 6 + 1] = cf.layout.overscan
             /\ d[14 + n * 6 + 2] = cf.layout.analyzeSize
             /\ d[14 + n * 6 + 3] = cf.layout.edgeWeighting
             /\ d[14 + n * 6 + 4] = cf.layout.weightLimit
<1> DEFINE n == Cardinality(ReqPorts(cf))
           m == n * 6
           h == Header(cf)
           r == ChannelBytes(cf)
           t == LayoutBytes(cf)
           hr == h \o r
           d == EeData(cf)
<1>1. d = hr \o t /\ hr = h \o r
  BY DEF EeData, Header, ChannelBytes, LayoutBytes
<1>2. n \in 0 .. NCHANNELS /\ m \in Nat
  BY RecordsFacts, ChannelNumber
<1>3. h \in Seq(Byte) /\ Len(h) = 14
  BY HeaderFacts
<1>12. /\ h[1] = 161 /\ h[2] = 160 /\ h[3] = 3 /\ h[4] = 0 /\ h[14] = n
       /\ \A i \in 1 .. 9 : h[4 + i] = cf.layout.numAreas[i]
  BY HeaderFacts
<1>4. r \in Seq(Byte) /\ Len(r) = m
  BY RecordsFacts
<1>5. /\ t \in Seq(Byte) /\ Len(t) = 4
      /\ t[1] = cf.layout.overscan /\ t[2] = cf.layout.analyzeSize
      /\ t[3] = cf.layout.edgeWeighting /\ t[4] = cf.layout.weightLimit
  <2>1. cf.layout \in LegalLayouts
    BY DEF Configs
  <2>2. /\ cf.layout.overscan \in Byte /\ cf.layout.analyzeSize \in Byte
        /\ cf.layout.edgeWeighting \in Byte /\ cf.layout.weightLimit \in Byte
    BY <2>1, LayoutFacts
  <2> QED BY <2>2 DEF LayoutBytes
<1> HIDE DEF m, h, r, t, hr, d
<1>13. IsJoin(hr, h, r)
  BY <1>1, <1>3, <1>4, Joined
<1>6. /\ hr \in Seq(Byte) /\ Len(hr) = 14 + m
      /\ \A i \in 1 .. 14 : hr[i] = h[i]
      /\ \A i \in 1 .. m : hr[14 + i] = r[i]
  BY <1>2, <1>3, <1>4, <1>13 DEF IsJoin
<1>14. IsJoin(d, hr, t)
  BY <1>1, <1>5, <1>6, Joined
<1>7. /\ d \in Seq(Byte) /\ Len(d) = 14 + m + 4
      /\ \A i \in 1 .. 14 + m : d[i] = hr[i]
      /\ \A i \in 1 .. 4 : d[14 + m + i] = t[i]
  BY <1>2, <1>5, <1>6, <1>14 DEF IsJoin
<1>8. /\ \A i \in 1 .. 14 : d[i] = h[i]
      /\ \A i \in 1 .. m : d[14 + i] = r[i]
      /\ \A i \in 1 .. 4 : d[14 + m + i] = t[i]
  <2>1. \A i \in 1 .. 14 : i \in 1 .. 14 + m
    BY <1>2
  <2>2. \A i \in 1 .. m : 14 + i \in 1 .. 14 + m
    BY <1>2
  <2> QED BY <1>6, <1>7, <2>1, <2>2
<1>9. /\ d[1] = 161 /\ d[2] = 160 /\ d[3] = 3 /\ d[4] = 0 /\ d[14] = n
      /\ \A i \in 1 .. 9 : d[4 + i] = cf.layout.numAreas[i]
  BY <1>8, <1>12
<1>10. \A k \in 0 .. n - 1, j \in 1 .. 6 :
         k * 6 + j \in 1 .. m /\ d[14 + (k * 6 + j)] = ChannelRecord(cf, k)[j]
  <2>1. \A k \in 0 .. n - 1, j \in 1 .. 6 :
         k * 6 + j \in 1 .. m /\ r[k * 6 + j] = ChannelRecord(cf, k)[j]
    BY RecordsFacts DEF r, m
  <2> QED BY <1>8, <2>1
<1>11. /\ d[14 + m + 1] = cf.layout.overscan /\ d[14 + m + 2] = cf.layout.analyzeSize
       /\ d[14 + m + 3] = cf.layout.edgeWeighting /\ d[14 + m + 4] = cf.layout.weightLimit
  BY <1>5, <1>8
<1> HIDE DEF n
<1> QED BY Zenon, <1>2, <1>7, <1>9, <1>10, <1>11 DEF m, n, d

(***************************************************************************)
(* The EEPROM after a write                                                *)
(***************************************************************************)

\* A byte is a number.
LEMMA ByteIsNat == \A x \in Byte : x \in Nat /\ x \in Int
BY RangeFacts

\* The limits that read enforces.
LEMMA ClampRanges ==
  \A v \in Int : /\ Clamp(v, 0, 200) \in 0 .. 200 /\ Clamp(v, 0, 5) \in 0 .. 5
                 /\ Clamp(v, 10, 200) \in 10 .. 200 /\ Clamp(v, 0, 255) \in Byte
                 /\ Clamp(v, 10, 50) \in 10 .. 50
<1> SUFFICES ASSUME NEW v \in Int
             PROVE  /\ Clamp(v, 0, 200) \in 0 .. 200 /\ Clamp(v, 0, 5) \in 0 .. 5
                    /\ Clamp(v, 10, 200) \in 10 .. 200 /\ Clamp(v, 0, 255) \in Byte
                    /\ Clamp(v, 10, 50) \in 10 .. 50
  OBVIOUS
<1>1. Clamp(v, 0, 255) \in Nat /\ Clamp(v, 0, 255) <= 255
  BY DEF Clamp
<1>2. Clamp(v, 0, 255) \in Byte
  BY <1>1, RangeFacts
<1>3. Clamp(v, 0, 200) \in 0 .. 200 /\ Clamp(v, 0, 5) \in 0 .. 5
  BY DEF Clamp
<1>4. Clamp(v, 10, 200) \in 10 .. 200 /\ Clamp(v, 10, 50) \in 10 .. 50
  BY DEF Clamp
<1> QED BY <1>2, <1>3, <1>4

\* The sizes of the parts as numbers.
LEMMA Sizes == /\ HEADER = 14 /\ EeSize = 18 + NCHANNELS * 6 /\ NumBaseAreas = 9
               /\ NCHANNELS \in Nat /\ NCHANNELS >= 1 /\ EeSize \in Nat
BY ChannelNumber DEF HEADER, EeSize, NumBaseAreas

\* A write leaves bytes in the EEPROM, and a complete one all those that were sent.
LEMMA OverwrittenFacts ==
  ASSUME ee \in [1 .. EeSize -> Byte], NEW data \in Seq(Byte), NEW n \in Nat
  PROVE  /\ Overwritten(data, n) \in [1 .. EeSize -> Byte]
         /\ n = EeSize /\ Len(data) <= EeSize =>
              \A i \in 1 .. Len(data) : Overwritten(data, n)[i] = data[i]
<1>1. Len(data) \in Nat /\ \A i \in 1 .. Len(data) : data[i] \in Byte
  OBVIOUS
<1>2. EeSize \in Nat
  BY Sizes
<1>3. Overwritten(data, n) = [i \in 1 .. EeSize |-> IF i <= n /\ i <= Len(data) THEN data[i] ELSE ee[i]]
  BY DEF Overwritten
<1> QED BY <1>1, <1>2, <1>3

\* What the bytes of a configuration are.
Holds(e, cf) ==
  LET n == Cardinality(ReqPorts(cf))
  IN  /\ e[1] = 161 /\ e[2] = 160 /\ e[3] = 3 /\ e[4] = 0
      /\ \A i \in 1 .. 9 : e[4 + i] = cf.layout.numAreas[i]
      /\ e[14] = n
      /\ \A k \in 0 .. n - 1, j \in 1 .. 6 : e[14 + (k * 6 + j)] = ChannelRecord(cf, k)[j]
      /\ e[14 + n * 6 + 1] = cf.layout.overscan
      /\ e[14 + n * 6 + 2] = cf.layout.analyzeSize
      /\ e[14 + n * 6 + 3] = cf.layout.edgeWeighting
      /\ e[14 + n * 6 + 4] = cf.layout.weightLimit

\* After write_ee_data the EEPROM has the bytes of the configuration.
LEMMA WrittenHolds ==
  ASSUME ee \in [1 .. EeSize -> Byte], NEW cf \in Configs
  PROVE  Holds(Overwritten(EeData(cf), EeSize), cf)
<1> DEFINE n == Cardinality(ReqPorts(cf))
           m == n * 6
           d == EeData(cf)
           e == Overwritten(d, EeSize)
<1>1. n \in Nat /\ m \in Nat /\ m <= NCHANNELS * 6
  <2>1. n \in 0 .. NCHANNELS /\ m = n * 6
    BY RecordsFacts
  <2> HIDE DEF n, m
  <2> QED BY <2>1, Sizes
<1>2. d \in Seq(Byte) /\ Len(d) = 14 + m + 4
  BY EeDataFacts
<1>3. /\ d[1] = 161 /\ d[2] = 160 /\ d[3] = 3 /\ d[4] = 0
      /\ \A i \in 1 .. 9 : d[4 + i] = cf.layout.numAreas[i]
      /\ d[14] = n
  BY EeDataFacts
<1>4. \A k \in 0 .. n - 1, j \in 1 .. 6 :
        k * 6 + j \in 1 .. m /\ d[14 + (k * 6 + j)] = ChannelRecord(cf, k)[j]
  BY EeDataFacts
<1>5. /\ d[14 + m + 1] = cf.layout.overscan /\ d[14 + m + 2] = cf.layout.analyzeSize
      /\ d[14 + m + 3] = cf.layout.edgeWeighting /\ d[14 + m + 4] = cf.layout.weightLimit
  BY EeDataFacts
<1> HIDE DEF n, m, d
<1>6. \A i \in 1 .. 14 + m + 4 : e[i] = d[i]
  <2>1. EeSize \in Nat /\ 14 + m + 4 <= EeSize
    BY <1>1, Sizes
  <2> HIDE DEF e
  <2>2. Len(d) <= EeSize
    BY <1>2, <2>1
  <2>3. \A i \in 1 .. Len(d) : e[i] = d[i]
    BY <1>2, <2>1, <2>2, OverwrittenFacts DEF e
  <2> QED BY <1>2, <2>3
<1> HIDE DEF e
<1>7. /\ e[1] = 161 /\ e[2] = 160 /\ e[3] = 3 /\ e[4] = 0
      /\ \A i \in 1 .. 9 : e[4 + i] = cf.layout.numAreas[i]
      /\ e[14] = n
  BY <1>1, <1>3, <1>6, SMTT(30)
<1>8. \A k \in 0 .. n - 1, j \in 1 .. 6 : e[14 + (k * 6 + j)] = ChannelRecord(cf, k)[j]
  <2>1. \A i \in 1 .. m : 14 + i \in 1 .. 14 + m + 4
    BY <1>1
  <2> QED BY <1>4, <1>6, <2>1
<1>9. /\ e[14 + m + 1] = cf.layout.overscan /\ e[14 + m + 2] = cf.layout.analyzeSize
      /\ e[14 + m + 3] = cf.layout.edgeWeighting /\ e[14 + m + 4] = cf.layout.weightLimit
  BY <1>1, <1>5, <1>6
<1> QED BY Zenon, <1>7, <1>8, <1>9 DEF Holds, m, n, d, e

(***************************************************************************)
(* What read makes of the bytes                                            *)
(***************************************************************************)

\* The layout that read makes, attribute by attribute.
LEMMA ReadLayoutFields ==
  ASSUME NEW e, ConfigValid(e)
  PROVE  ReadLayout(e) =
           [numAreas |-> [i \in 1 .. 9 |-> AreaCount(e[4 + i], i)],
            overscan |-> IF ConfigVersion(e) > 1 THEN Clamp(e[LayoutAt(e) + 1], 0, 200) ELSE 30,
            analyzeSize |-> IF ConfigVersion(e) > 1 THEN Clamp(e[LayoutAt(e) + 2], 0, 5) ELSE 1,
            edgeWeighting |-> IF ConfigVersion(e) > 1 THEN Clamp(e[LayoutAt(e) + 3], 10, 200) ELSE 60,
            weightLimit |-> IF ConfigVersion(e) > 2 THEN Clamp(e[LayoutAt(e) + 4], 0, 255) ELSE 12]
<1> DEFINE v == ConfigVersion(e)
           a == [i \in 1 .. 9 |-> AreaCount(e[4 + i], i)]
           w == Clamp(e[LayoutAt(e) + 1], 0, 200)
           x == Clamp(e[LayoutAt(e) + 2], 0, 5)
           y == Clamp(e[LayoutAt(e) + 3], 10, 200)
           z == Clamp(e[LayoutAt(e) + 4], 0, 255)
           l == [numAreas |-> a, overscan |-> w, analyzeSize |-> x, edgeWeighting |-> y,
                 weightLimit |-> z]
<1>1. ReadLayout(e) = [l EXCEPT !.overscan      = IF v > 1 THEN @ ELSE 30,
                                !.analyzeSize   = IF v > 1 THEN @ ELSE 1,
                                !.edgeWeighting = IF v > 1 THEN @ ELSE 60,
                                !.weightLimit   = IF v > 2 THEN @ ELSE 12]
  BY DEF ReadLayout, NumBaseAreas
<1> HIDE DEF v, a, w, x, y, z
<1>2. ReadLayout(e) = [numAreas |-> a, overscan |-> IF v > 1 THEN w ELSE 30,
                       analyzeSize |-> IF v > 1 THEN x ELSE 1,
                       edgeWeighting |-> IF v > 1 THEN y ELSE 60,
                       weightLimit |-> IF v > 2 THEN z ELSE 12]
  BY <1>1
<1> QED BY Zenon, <1>2 DEF v, a, w, x, y, z

\* The number of channels is not more than there are ports, whatever its byte is, and the
\* layout behind them is inside the EEPROM.
LEMMA NumReqFacts ==
  ASSUME NEW e \in [1 .. EeSize -> Byte]
  PROVE  /\ NumReqChannels(e) \in 0 .. NCHANNELS /\ LayoutAt(e) = 14 + NumReqChannels(e) * 6
         /\ \A i \in 1 .. 4 : LayoutAt(e) + i \in 1 .. EeSize /\ e[LayoutAt(e) + i] \in Byte
<1>1. 14 \in 1 .. EeSize /\ HEADER = 14
  BY Sizes
<1>2. e[HEADER] \in Nat
  BY <1>1, RangeFacts
<1>3. NumReqChannels(e) \in 0 .. NCHANNELS
  BY <1>2, Sizes, ClampFacts DEF NumReqChannels
<1>4. LayoutAt(e) = 14 + NumReqChannels(e) * 6
  BY <1>1 DEF LayoutAt
<1>5. \A i \in 1 .. 4 : LayoutAt(e) + i \in 1 .. EeSize
  BY <1>3, <1>4, Sizes
<1> QED BY <1>3, <1>4, <1>5

\* The layout of a configuration that could not be read.
LEMMA DefaultLayoutLegal == DefaultLayout \in LegalLayouts
<1>1. DefaultLayout = [numAreas |-> [i \in 1 .. 9 |-> 0], overscan |-> 30, analyzeSize |-> 1,
                       edgeWeighting |-> 60, weightLimit |-> 12]
  BY DEF DefaultLayout, NumBaseAreas
<1>2. \A i \in 1 .. 9 : 0 <= MAX_AREAS[i]
  BY DEF MAX_AREAS
<1>3. 12 \in Byte
  BY RangeFacts
<1> QED BY <1>1, <1>2, <1>3 DEF LegalLayouts, NumBaseAreas

\* Attributes within their limits make a legal layout.
LEMMA MadeLayoutLegal ==
  ASSUME NEW a \in [1 .. 9 -> Nat], NEW w \in 0 .. 200, NEW x \in 0 .. 5, NEW y \in 10 .. 200,
         NEW z \in Byte, NEW l,
         \A i \in 1 .. 9 : a[i] <= MAX_AREAS[i],
         l = [numAreas |-> a, overscan |-> w, analyzeSize |-> x, edgeWeighting |-> y,
              weightLimit |-> z]
  PROVE  l \in LegalLayouts
BY DEF LegalLayouts, NumBaseAreas

\* read makes a legal layout of any bytes.
LEMMA ReadLayoutLegal ==
  ASSUME NEW e \in [1 .. EeSize -> Byte]
  PROVE  ReadLayout(e) \in LegalLayouts
<1>1. CASE ~ConfigValid(e)
  BY <1>1, DefaultLayoutLegal DEF ReadLayout
<1>2. CASE ConfigValid(e)
  <2> DEFINE v == ConfigVersion(e)
             a == [i \in 1 .. 9 |-> AreaCount(e[4 + i], i)]
             w == IF v > 1 THEN Clamp(e[LayoutAt(e) + 1], 0, 200) ELSE 30
             x == IF v > 1 THEN Clamp(e[LayoutAt(e) + 2], 0, 5) ELSE 1
             y == IF v > 1 THEN Clamp(e[LayoutAt(e) + 3], 10, 200) ELSE 60
             z == IF v > 2 THEN Clamp(e[LayoutAt(e) + 4], 0, 255) ELSE 12
  <2>1. ReadLayout(e) = [numAreas |-> a, overscan |-> w, analyzeSize |-> x, edgeWeighting |-> y,
                         weightLimit |-> z]
    BY <1>2, ReadLayoutFields
  <2>2. /\ e[LayoutAt(e) + 1] \in Int /\ e[LayoutAt(e) + 2] \in Int
        /\ e[LayoutAt(e) + 3] \in Int /\ e[LayoutAt(e) + 4] \in Int
    <3>1. 1 \in 1 .. 4 /\ 2 \in 1 .. 4 /\ 3 \in 1 .. 4 /\ 4 \in 1 .. 4
      OBVIOUS
    <3> QED BY Zenon, <3>1, NumReqFacts, ByteIsNat
  <2>3. w \in 0 .. 200 /\ x \in 0 .. 5
    <3>1. 30 \in 0 .. 200 /\ 1 \in 0 .. 5
      OBVIOUS
    <3> QED BY ZenonT(60), <2>2, <3>1, ClampRanges
  <2>4. y \in 10 .. 200
    <3>1. 60 \in 10 .. 200
      OBVIOUS
    <3> QED BY ZenonT(60), <2>2, <3>1, ClampRanges
  <2>6. z \in Byte
    <3>1. 12 \in Byte
      BY RangeFacts
    <3> QED BY SMT, <2>2, <3>1, ClampRanges
  <2>7. \A i \in 1 .. 9 : a[i] \in Nat /\ a[i] <= MAX_AREAS[i]
    <3>1. \A i \in 1 .. 9 : 4 + i \in 1 .. EeSize
      BY Sizes
    <3>2. \A i \in 1 .. 9 : e[4 + i] \in Nat
      BY <3>1, ByteIsNat
    <3>3. \A i \in 1 .. 9 : MAX_AREAS[i] \in Nat
      BY DEF MAX_AREAS
    <3>4. \A i \in 1 .. 9 : AreaCount(e[4 + i], i) \in Nat /\ AreaCount(e[4 + i], i) <= MAX_AREAS[i]
      <4> SUFFICES ASSUME NEW i \in 1 .. 9
                   PROVE  /\ AreaCount(e[4 + i], i) \in Nat
                          /\ AreaCount(e[4 + i], i) <= MAX_AREAS[i]
        OBVIOUS
      <4> DEFINE c == AreaCount(e[4 + i], i)
                 max == MAX_AREAS[i]
      <4>1. c \in 0 .. max
        BY ZenonT(60), <3>2, <3>3, ClampFacts DEF AreaCount
      <4>2. max \in Nat
        BY <3>3
      <4> HIDE DEF c, max
      <4>3. c \in Nat /\ c <= max
        BY <4>1, <4>2
      <4> QED BY Zenon, <4>3 DEF c, max
    <3> QED BY <3>4
  <2>8. a \in [1 .. 9 -> Nat]
    BY <2>7
  <2> HIDE DEF a, w, x, y, z
  <2> DEFINE l == [numAreas |-> a, overscan |-> w, analyzeSize |-> x, edgeWeighting |-> y,
                   weightLimit |-> z]
  <2>9. ReadLayout(e) = l /\ l = [numAreas |-> a, overscan |-> w, analyzeSize |-> x,
                                  edgeWeighting |-> y, weightLimit |-> z]
    BY <2>1
  <2> HIDE DEF l
  <2>10. \A i \in 1 .. 9 : a[i] <= MAX_AREAS[i]
    BY <2>7
  <2>11. l \in LegalLayouts
    BY <2>3, <2>4, <2>6, <2>8, <2>9, <2>10, MadeLayoutLegal
  <2> QED BY <2>9, <2>11
<1> QED BY <1>1, <1>2

\* The limits of read keep the values of a legal layout.
LEMMA ClampKeeps ==
  /\ \A v \in 0 .. 200 : Clamp(v, 0, 200) = v
  /\ \A v \in 0 .. 5 : Clamp(v, 0, 5) = v
  /\ \A v \in 10 .. 200 : Clamp(v, 10, 200) = v
  /\ \A v \in 10 .. 50 : Clamp(v, 10, 50) = v
<1>1. \A v \in Int : v <= 200 /\ v >= 0 => Clamp(v, 0, 200) = v
  BY DEF Clamp
<1>2. \A v \in Int : v <= 5 /\ v >= 0 => Clamp(v, 0, 5) = v
  BY DEF Clamp
<1>3. \A v \in Int : v <= 200 /\ v >= 10 => Clamp(v, 10, 200) = v
  BY DEF Clamp
<1>4. \A v \in Int : v <= 50 /\ v >= 10 => Clamp(v, 10, 50) = v
  BY DEF Clamp
<1> QED BY <1>1, <1>2, <1>3, <1>4

\* The first two bytes.
LEMMA FirstTwo ==
  ASSUME NEW s \in Seq(Byte), Len(s) >= 2
  PROVE  SubSeq(s, 1, 2) = <<s[1], s[2]>>
<1> DEFINE u == SubSeq(s, 1, 2)
<1>1. u \in Seq(Byte) /\ Len(u) = 2 /\ u[1] = s[1] /\ u[2] = s[2]
  OBVIOUS
<1> HIDE DEF u
<1>2. u = <<s[1], s[2]>>
  BY <1>1
<1> QED BY <1>2 DEF u

\* The bytes of a configuration are recognised, with their version and number of channels.
LEMMA HeldCount ==
  ASSUME NEW e \in [1 .. EeSize -> Byte], NEW cf \in Configs, Holds(e, cf)
  PROVE  LET n == Cardinality(ReqPorts(cf))
         IN  /\ n \in 0 .. NCHANNELS /\ n \in Nat /\ NumReqChannels(e) = n /\ LayoutAt(e) = 14 + n * 6
             /\ ConfigValid(e) /\ ConfigVersion(e) = 3
<1> DEFINE n == Cardinality(ReqPorts(cf))
<1>1. n \in 0 .. NCHANNELS
  BY RecordsFacts
<1>2. e[1] = 161 /\ e[2] = 160 /\ e[3] = 3 /\ e[4] = 0 /\ e[14] = n
  BY DEF Holds
<1> HIDE DEF n
<1>3. n \in Nat
  BY <1>1, Sizes
<1>4. NumReqChannels(e) = n
  <2>1. AtMost(n, NCHANNELS) = n
    BY <1>1, Sizes, ClampFacts
  <2> QED BY <1>2, <2>1, Sizes DEF NumReqChannels
<1>5. LayoutAt(e) = 14 + n * 6
  BY <1>4, Sizes DEF LayoutAt
<1>6. ConfigVersion(e) = 3
  BY <1>2 DEF ConfigVersion
<1>7. ConfigValid(e)
  <2>1. e \in Seq(Byte) /\ Len(e) = EeSize /\ EeSize >= 2
    BY Sizes, FunctionIsSeq
  <2>2. SubSeq(e, 1, 2) = <<e[1], e[2]>>
    BY <2>1, FirstTwo
  <2> QED BY <1>2, <2>2 DEF ConfigValid, CONFIG_VALID_ID
<1> QED BY <1>1, <1>3, <1>4, <1>5, <1>6, <1>7 DEF n

\* The layout is read back as it was written.
LEMMA LayoutReadBack ==
  ASSUME NEW e \in [1 .. EeSize -> Byte], NEW cf \in Configs, Holds(e, cf)
  PROVE  ReadLayout(e) = cf.layout
<1> DEFINE l == cf.layout
           base == LayoutAt(e)
           b == [i \in 1 .. 9 |-> AreaCount(e[4 + i], i)]
<1>1. ConfigValid(e) /\ ConfigVersion(e) = 3
  BY HeldCount
<1>2. l \in LegalLayouts
  BY DEF Configs
<1>3. /\ e[base + 1] = l.overscan /\ e[base + 2] = l.analyzeSize
      /\ e[base + 3] = l.edgeWeighting /\ e[base + 4] = l.weightLimit
  <2>1. base = 14 + Cardinality(ReqPorts(cf)) * 6
    BY HeldCount
  <2> QED BY <2>1 DEF Holds
<1>4. \A i \in 1 .. 9 : e[4 + i] = l.numAreas[i]
  BY DEF Holds
<1>5. ReadLayout(e) =
        [numAreas |-> b, overscan |-> Clamp(e[base + 1], 0, 200), analyzeSize |-> Clamp(e[base + 2], 0, 5),
         edgeWeighting |-> Clamp(e[base + 3], 10, 200), weightLimit |-> Clamp(e[base + 4], 0, 255)]
  <2>1. (ConfigVersion(e) > 1) = TRUE /\ (ConfigVersion(e) > 2) = TRUE
    BY <1>1
  <2> QED BY Zenon, <1>1, <2>1, ReadLayoutFields
<1> HIDE DEF l, base, b
<1>6. /\ l.numAreas \in [1 .. 9 -> Nat] /\ l.overscan \in 0 .. 200 /\ l.analyzeSize \in 0 .. 5
      /\ l.edgeWeighting \in 10 .. 200 /\ l.weightLimit \in Byte
      /\ \A i \in 1 .. 9 : l.numAreas[i] <= MAX_AREAS[i]
      /\ l = [numAreas |-> l.numAreas, overscan |-> l.overscan, analyzeSize |-> l.analyzeSize,
              edgeWeighting |-> l.edgeWeighting, weightLimit |-> l.weightLimit]
  BY <1>2 DEF LegalLayouts, NumBaseAreas
<1>7. Clamp(l.overscan, 0, 200) = l.overscan /\ Clamp(l.analyzeSize, 0, 5) = l.analyzeSize
  <2>1. l.overscan \in 0 .. 200
    BY <1>6
  <2>2. l.analyzeSize \in 0 .. 5
    BY <1>6
  <2>3. Clamp(l.overscan, 0, 200) = l.overscan
    BY <2>1, ClampKeeps
  <2>4. Clamp(l.analyzeSize, 0, 5) = l.analyzeSize
    BY <2>2, ClampKeeps
  <2> QED BY Zenon, <2>3, <2>4
<1>8. Clamp(l.edgeWeighting, 10, 200) = l.edgeWeighting
  BY ZenonT(60), <1>6, ClampKeeps
<1>9. Clamp(l.weightLimit, 0, 255) = l.weightLimit
  <2>1. l.weightLimit \in Nat /\ l.weightLimit <= 255
    BY <1>6, RangeFacts
  <2> QED BY <2>1 DEF Clamp
<1>10. b = l.numAreas
  <2>1. ASSUME NEW i \in 1 .. 9 PROVE AreaCount(e[4 + i], i) = l.numAreas[i]
    <3>1. MAX_AREAS[i] \in Nat
      BY DEF MAX_AREAS
    <3>2. l.numAreas[i] \in Nat /\ l.numAreas[i] <= MAX_AREAS[i]
      BY <1>6
    <3>3. AtMost(l.numAreas[i], MAX_AREAS[i]) = l.numAreas[i]
      BY Zenon, <3>1, <3>2, ClampFacts
    <3> QED BY Zenon, <1>4, <3>3 DEF AreaCount
  <2> QED BY <1>6, <2>1 DEF b
<1>11. ReadLayout(e) =
        [numAreas |-> l.numAreas, overscan |-> l.overscan, analyzeSize |-> l.analyzeSize,
         edgeWeighting |-> l.edgeWeighting, weightLimit |-> l.weightLimit]
  BY ZenonT(60), <1>3, <1>5, <1>7, <1>8, <1>9, <1>10
<1>12. ReadLayout(e) = l
  BY Zenon, <1>6, <1>11
<1> QED BY <1>12 DEF l

\* A mapped port gets back what the first port with its key shows.
LEMMA ChannelReadBack ==
  ASSUME NEW e \in [1 .. EeSize -> Byte], NEW cf \in Configs, Holds(e, cf),
         NEW p \in MappedPorts(cf), NEW max \in Word
  PROVE  LET c == cf.channelMap[FirstWithKey(cf, p)]
         IN  /\ ReqChannel(cf, p) # None
             /\ ReadChannelMap(e, PwmMap(cf), max)[p] =
                  [area |-> c.area, color |-> c.color, gamma |-> c.gamma,
                   whiteCal |-> AtMost(AtMost(c.whiteCal, cf.pwmRes), max)]
<1> DEFINE n == Cardinality(ReqPorts(cf))
           first == FirstWithKey(cf, p)
           c == cf.channelMap[first]
           k == ReqChannel(cf, p)
           w == AtMost(c.whiteCal, cf.pwmRes)
           base(i) == HEADER + 6 * (i - 1)
           map == PwmMap(cf)
           hits == {i \in 1 .. NumReqChannels(e) :
                      e[base(i) + 1] = map[p] /\ AreaName(e[base(i) + 2], e[base(i) + 3]) # None}
           a == base(Min(hits))
<1>1. /\ NumReqChannels(e) = n /\ n \in 0 .. NCHANNELS /\ n \in Nat /\ ConfigValid(e)
  BY HeldCount
<1>2. k \in 0 .. n - 1
  BY ChannelFacts
<1>3. p \in Ports /\ cf.channelMap[p] # None /\ map[p] = k
  <2>1. p \in Ports /\ cf.channelMap[p] # None
    BY DEF MappedPorts
  <2> QED BY <2>1 DEF PwmMap
<1>4. first \in MappedPorts(cf)
  BY FirstFacts DEF WithSameKey
<1>5. c \in Channels
  BY <1>4 DEF MappedPorts, Configs, ChannelMaps
<1>6. /\ \A j \in 0 .. n - 1, i \in 1 .. 6 : e[14 + (j * 6 + i)] = ChannelRecord(cf, j)[i]
  BY DEF Holds
<1>7. ChannelRecord(cf, k) = Bytes(c, k, cf.pwmRes)
  BY RecordFacts
<1>8. \A j \in 0 .. n - 1 : ChannelRecord(cf, j)[1] = j
  BY DEF ChannelRecord
<1>9. ReadChannelMap(e, map, max)[p] =
        IF map[p] = None \/ ~ConfigValid(e) \/ hits = {} THEN None
        ELSE [area     |-> AreaName(e[a + 2], e[a + 3]),
              color    |-> e[a + 2] % 4,
              gamma    |-> Clamp(e[a + 4], 10, 50),
              whiteCal |-> AtMost(e[a + 5] + 256 * e[a + 6], max)]
  BY <1>3 DEF ReadChannelMap
<1>10. k # None
  <2>1. k \in Nat
    BY <1>1, <1>2
  <2> QED BY <2>1, ConfigAssumption
<1> HIDE DEF n, first, c, k, map
<1>11. \A j \in 0 .. n - 1, i \in 1 .. 6 : base(j + 1) + i = 14 + (j * 6 + i)
  BY <1>1, Sizes
<1>12. \A j \in 0 .. n - 1, i \in 1 .. 6 : e[base(j + 1) + i] = ChannelRecord(cf, j)[i]
  BY <1>6, <1>11
<1>13. /\ e[base(k + 1) + 1] = k /\ e[base(k + 1) + 2] = Code(c) /\ e[base(k + 1) + 3] = AreaNum(c.area)
       /\ e[base(k + 1) + 4] = c.gamma
       /\ e[base(k + 1) + 5] = w % 256 /\ e[base(k + 1) + 6] = w \div 256
  <2> HIDE DEF base, w
  <2>1. /\ e[base(k + 1) + 1] = ChannelRecord(cf, k)[1] /\ e[base(k + 1) + 2] = ChannelRecord(cf, k)[2]
        /\ e[base(k + 1) + 3] = ChannelRecord(cf, k)[3] /\ e[base(k + 1) + 4] = ChannelRecord(cf, k)[4]
        /\ e[base(k + 1) + 5] = ChannelRecord(cf, k)[5] /\ e[base(k + 1) + 6] = ChannelRecord(cf, k)[6]
    BY <1>2, <1>12
  <2>2. ChannelRecord(cf, k) = <<k, Code(c), AreaNum(c.area), c.gamma, w % 256, w \div 256>>
    BY <1>7 DEF Bytes, w
  <2> QED BY <2>1, <2>2
<1>14. AreaName(Code(c), AreaNum(c.area)) = c.area /\ Code(c) % 4 = c.color /\ c.area # None
  <2>1. c.area \in Areas
    BY <1>5 DEF Channels
  <2> QED BY <1>5, <2>1, CodeFacts, ConfigAssumption
<1>15. hits = {k + 1}
  <2>1. k + 1 \in 1 .. n
    BY <1>1, <1>2
  <2>2. k + 1 \in hits
    BY <1>1, <1>3, <1>13, <1>14, <2>1
  <2>3. ASSUME NEW i \in hits PROVE i = k + 1
    <3>1. i \in 1 .. n /\ e[base(i) + 1] = k
      BY <1>1, <1>3
    <3>2. i - 1 \in 0 .. n - 1 /\ (i - 1) + 1 = i
      BY <1>1, <3>1
    <3> HIDE DEF base
    <3>3. e[base(i) + 1] = ChannelRecord(cf, i - 1)[1]
      BY <1>12, <3>2
    <3>4. i - 1 = k
      BY <1>8, <3>1, <3>2, <3>3
    <3> QED BY <3>1, <3>4
  <2> HIDE DEF hits
  <2> QED BY <2>2, <2>3
<1>16. Min(hits) = k + 1
  <2>1. k + 1 \in Int
    BY <1>1, <1>2
  <2> HIDE DEF hits
  <2> QED BY <1>15, <2>1 DEF Min
<1>17. a = base(k + 1) /\ hits # {}
  BY <1>15, <1>16
<1> HIDE DEF base, hits, w
<1>18. Clamp(c.gamma, 10, 50) = c.gamma
  <2>1. c.gamma \in 10 .. 50
    BY <1>5 DEF Channels
  <2> QED BY ZenonT(60), <2>1, ClampKeeps
<1>19. (w % 256) + 256 * (w \div 256) = w
  <2>1. c.whiteCal \in Nat /\ cf.pwmRes \in Word
    BY <1>5 DEF Channels, Configs
  <2>2. w \in Nat /\ w <= cf.pwmRes /\ cf.pwmRes <= 65535
    <3> DEFINE r == cf.pwmRes
    <3>1. r \in Nat /\ r <= 65535
      BY <2>1, RangeFacts
    <3>4. r \in Nat
      BY <3>1
    <3>2. w \in 0 .. r
      BY Zenon, <2>1, <3>4, ClampFacts DEF w
    <3> HIDE DEF r
    <3>3. w \in Nat /\ w <= r
      BY <3>1, <3>2
    <3> QED BY SMT, <3>1, <3>3 DEF r
  <2>3. w \in Word
    BY <2>1, <2>2, RangeFacts
  <2> QED BY <2>3, WordFacts
<1> HIDE DEF a
<1>20. ReadChannelMap(e, map, max)[p] =
         [area |-> AreaName(e[a + 2], e[a + 3]), color |-> e[a + 2] % 4,
          gamma |-> Clamp(e[a + 4], 10, 50), whiteCal |-> AtMost(e[a + 5] + 256 * e[a + 6], max)]
  <2> DEFINE none == map[p] = None \/ ~ConfigValid(e) \/ hits = {}
             r == [area |-> AreaName(e[a + 2], e[a + 3]), color |-> e[a + 2] % 4,
                   gamma |-> Clamp(e[a + 4], 10, 50),
                   whiteCal |-> AtMost(e[a + 5] + 256 * e[a + 6], max)]
  <2>1. ReadChannelMap(e, map, max)[p] = IF none THEN None ELSE r
    BY Zenon, <1>9
  <2>2. ~none
    BY Zenon, <1>1, <1>3, <1>10, <1>17
  <2> HIDE DEF none, r
  <2>3. ReadChannelMap(e, map, max)[p] = r
    BY Zenon, <2>1, <2>2
  <2> QED BY Zenon, <2>3 DEF r
<1>21. ReadChannelMap(e, map, max)[p] =
         [area |-> c.area, color |-> c.color, gamma |-> c.gamma, whiteCal |-> AtMost(w, max)]
  <2>1. /\ e[a + 2] = Code(c) /\ e[a + 3] = AreaNum(c.area) /\ e[a + 4] = c.gamma
        /\ e[a + 5] = w % 256 /\ e[a + 6] = w \div 256
    BY Zenon, <1>13, <1>17
  <2>2. AreaName(e[a + 2], e[a + 3]) = c.area /\ e[a + 2] % 4 = c.color
    BY Zenon, <1>14, <2>1
  <2>3. Clamp(e[a + 4], 10, 50) = c.gamma
    BY Zenon, <1>18, <2>1
  <2>4. e[a + 5] + 256 * e[a + 6] = w
    BY ZenonT(60), <1>19, <2>1
  <2> QED BY Zenon, <1>20, <2>2, <2>3, <2>4
<1> QED BY Zenon, <1>10, <1>21 DEF c, first, k, w, map

\* A channel with another white calibration.
LEMMA ExceptWhite ==
  ASSUME NEW c \in Channels, NEW x
  PROVE  [c EXCEPT !.whiteCal = x] =
           [area |-> c.area, color |-> c.color, gamma |-> c.gamma, whiteCal |-> x]
BY DEF Channels

\* The channel map is read back as it was written if no two ports have the same key and
\* different mappings.
LEMMA MapReadBack ==
  ASSUME NEW e \in [1 .. EeSize -> Byte], NEW cf \in Configs, Holds(e, cf), KeysApart(cf),
         NEW max \in Word
  PROVE  ReadChannelMap(e, PwmMap(cf), max) = Storable(cf, max).channelMap
<1> DEFINE read == ReadChannelMap(e, PwmMap(cf), max)
           want(p) == IF cf.channelMap[p] = None THEN None
                      ELSE [cf.channelMap[p] EXCEPT !.whiteCal = AtMost(AtMost(@, cf.pwmRes), max)]
<1>1. Storable(cf, max).channelMap = [p \in Ports |-> want(p)]
  BY DEF Storable
<1>2. read = [p \in Ports |-> read[p]]
  BY DEF ReadChannelMap
<1>3. ASSUME NEW p \in Ports PROVE read[p] = want(p)
  <2>1. CASE cf.channelMap[p] = None
    <3>1. PwmMap(cf)[p] = None
      BY <2>1 DEF PwmMap
    <3>2. read[p] = None
      BY <3>1 DEF ReadChannelMap
    <3> QED BY <2>1, <3>2
  <2>2. CASE cf.channelMap[p] # None
    <3> DEFINE c == cf.channelMap[p]
               q == FirstWithKey(cf, p)
               d == cf.channelMap[q]
               r == cf.pwmRes
    <3>1. p \in MappedPorts(cf)
      BY <2>2 DEF MappedPorts
    <3>2. q \in WithSameKey(cf, p) /\ q \in MappedPorts(cf)
      BY <3>1, FirstFacts DEF WithSameKey
    <3>3. Clamped(cf, q) = Clamped(cf, p)
      BY <3>1, <3>2 DEF KeysApart
    <3>4. c \in Channels /\ d \in Channels
      BY <3>1, <3>2 DEF MappedPorts, Configs, ChannelMaps
    <3>5. [d EXCEPT !.whiteCal = AtMost(d.whiteCal, r)] = [c EXCEPT !.whiteCal = AtMost(c.whiteCal, r)]
      BY <3>3 DEF Clamped
    <3>6. read[p] = [area |-> d.area, color |-> d.color, gamma |-> d.gamma,
                     whiteCal |-> AtMost(AtMost(d.whiteCal, r), max)]
      BY <3>1, ChannelReadBack
    <3>7. want(p) = [c EXCEPT !.whiteCal = AtMost(AtMost(c.whiteCal, r), max)]
      BY <2>2
    <3> HIDE DEF c, d, read, want, r
    <3>8. /\ d.area = c.area /\ d.color = c.color /\ d.gamma = c.gamma
          /\ AtMost(d.whiteCal, r) = AtMost(c.whiteCal, r)
      <4> DEFINE x == AtMost(d.whiteCal, r)
                 y == AtMost(c.whiteCal, r)
      <4>1. [area |-> d.area, color |-> d.color, gamma |-> d.gamma, whiteCal |-> x]
              = [area |-> c.area, color |-> c.color, gamma |-> c.gamma, whiteCal |-> y]
        BY Zenon, <3>4, <3>5, ExceptWhite
      <4> HIDE DEF x, y
      <4>2. d.area = c.area /\ d.color = c.color /\ d.gamma = c.gamma /\ x = y
        BY SMT, <4>1
      <4> QED BY <4>2 DEF x, y
    <3>9. want(p) = [area |-> c.area, color |-> c.color, gamma |-> c.gamma,
                     whiteCal |-> AtMost(AtMost(c.whiteCal, r), max)]
      BY Zenon, <3>4, <3>7, ExceptWhite
    <3> QED BY Zenon, <3>6, <3>8, <3>9
  <2> QED BY <2>1, <2>2
<1> HIDE DEF read, want
<1>4. read = [p \in Ports |-> want(p)]
  BY Zenon, <1>2, <1>3
<1> QED BY <1>1, <1>4 DEF read

(***************************************************************************)
(* The values that the operators make                                      *)
(***************************************************************************)

\* read makes a legal channel map of any bytes, and of any map of the PWM controller.
LEMMA ReadMapType ==
  ASSUME NEW e \in [1 .. EeSize -> Byte], NEW map, NEW res \in Word
  PROVE  ReadChannelMap(e, map, res) \in ChannelMaps
<1> DEFINE base(i) == HEADER + 6 * (i - 1)
           hits(p) == {i \in 1 .. NumReqChannels(e) :
                         e[base(i) + 1] = map[p] /\ AreaName(e[base(i) + 2], e[base(i) + 3]) # None}
           a(p) == base(Min(hits(p)))
           rec(p) == [area     |-> AreaName(e[a(p) + 2], e[a(p) + 3]),
                      color    |-> e[a(p) + 2] % 4,
                      gamma    |-> Clamp(e[a(p) + 4], 10, 50),
                      whiteCal |-> AtMost(e[a(p) + 5] + 256 * e[a(p) + 6], res)]
           chan(p) == IF map[p] = None \/ ~ConfigValid(e) \/ hits(p) = {} THEN None ELSE rec(p)
<1>1. ReadChannelMap(e, map, res) = [p \in Ports |-> chan(p)]
  BY DEF ReadChannelMap
<1>2. ASSUME NEW p \in Ports, hits(p) # {} PROVE rec(p) \in Channels
  <2> DEFINE h == hits(p)
             i == Min(h)
             b == base(i)
  <2>1. NumReqChannels(e) \in 0 .. NCHANNELS
    BY NumReqFacts
  <2>2. h \subseteq Nat
    BY <2>1, Sizes
  <2>3. \E x \in h : \A y \in h : x <= y
    BY <1>2, <2>2, SmallestNumber
  <2>4. i \in h
    BY <2>3 DEF Min
  <2>5. i \in 1 .. NumReqChannels(e) /\ AreaName(e[b + 2], e[b + 3]) # None
    BY <2>4
  <2>6. rec(p) = [area |-> AreaName(e[b + 2], e[b + 3]), color |-> e[b + 2] % 4,
                  gamma |-> Clamp(e[b + 4], 10, 50), whiteCal |-> AtMost(e[b + 5] + 256 * e[b + 6], res)]
    OBVIOUS
  <2>7. b \in Nat /\ b + 6 <= EeSize
    <3> HIDE DEF i
    <3> QED BY <2>1, <2>5, Sizes
  <2> HIDE DEF b, rec
  <2>8. /\ b + 2 \in 1 .. EeSize /\ b + 3 \in 1 .. EeSize /\ b + 4 \in 1 .. EeSize
        /\ b + 5 \in 1 .. EeSize /\ b + 6 \in 1 .. EeSize
    BY <2>7, Sizes
  <2>9. /\ e[b + 2] \in Byte /\ e[b + 3] \in Byte /\ e[b + 4] \in Byte
        /\ e[b + 5] \in Byte /\ e[b + 6] \in Byte
    BY <2>8
  <2>10. AreaName(e[b + 2], e[b + 3]) \in Areas
    <3> DEFINE code == e[b + 2]
               num == e[b + 3]
               idx == code \div 4
               m == IF idx < 4 THEN num ELSE 0
    <3>1. code \in Nat /\ num \in Byte /\ 0 \in Byte
      BY <2>9, RangeFacts, SMTT(30)
    <3>2. AreaName(code, num) = IF idx < 9 THEN [idx |-> idx, num |-> m] ELSE None
      BY DEF AreaName, NumBaseAreas
    <3>3. AreaName(code, num) # None
      BY <2>5
    <3> HIDE DEF code, num
    <3>4. idx \in Nat
      BY <3>1
    <3> HIDE DEF idx
    <3>5. idx < 9 /\ AreaName(code, num) = [idx |-> idx, num |-> m]
      BY <3>2, <3>3
    <3>6. m \in Byte /\ (idx > 3 => m = 0)
      BY <3>1, <3>4
    <3> HIDE DEF m
    <3>7. AreaName(code, num) \in Areas
      BY <3>4, <3>5, <3>6 DEF Areas, NumBaseAreas
    <3> QED BY <3>7 DEF code, num
  <2>11. e[b + 2] % 4 \in 0 .. 3
    <3> DEFINE code == e[b + 2]
    <3>1. code \in Nat
      BY <2>9, ByteIsNat
    <3> HIDE DEF code
    <3>2. code % 4 \in 0 .. 3
      BY <3>1
    <3> QED BY <3>2 DEF code
  <2>12. Clamp(e[b + 4], 10, 50) \in 10 .. 50
    BY Zenon, <2>9, ByteIsNat, ClampRanges
  <2>13. AtMost(e[b + 5] + 256 * e[b + 6], res) \in Nat
    <3> DEFINE v == e[b + 5] + 256 * e[b + 6]
    <3>1. v \in Nat /\ res \in Nat
      BY <2>9, ByteIsNat, RangeFacts, SMTT(30)
    <3> HIDE DEF v
    <3>2. AtMost(v, res) \in 0 .. res
      BY <3>1, ClampFacts
    <3>3. AtMost(v, res) \in Nat
      BY <3>1, <3>2
    <3> QED BY <3>3 DEF v
  <2> QED BY <2>6, <2>10, <2>11, <2>12, <2>13 DEF Channels
<1>3. \A p \in Ports : chan(p) \in Channels \cup {None}
  BY <1>2
<1> HIDE DEF chan
<1> QED BY <1>1, <1>3 DEF ChannelMaps

\* The map that is sent to the PWM controller.
LEMMA PwmMapType == ASSUME NEW cf PROVE PwmMap(cf) \in [Ports -> Nat \cup {None}]
<1>1. \A p \in Ports : cf.channelMap[p] # None => ReqChannel(cf, p) \in Nat
  <2> SUFFICES ASSUME NEW p \in Ports, cf.channelMap[p] # None PROVE ReqChannel(cf, p) \in Nat
    OBVIOUS
  <2>1. p \in MappedPorts(cf)
    BY DEF MappedPorts
  <2>2. ReqChannel(cf, p) \in 0 .. Cardinality(ReqPorts(cf)) - 1
    BY <2>1, ChannelFacts
  <2>3. Cardinality(ReqPorts(cf)) \in Nat
    BY ReqPortsAreFew, Sizes
  <2> QED BY <2>2, <2>3
<1> QED BY <1>1 DEF PwmMap

\* What a configuration is once it is stored.
LEMMA StorableType ==
  ASSUME NEW cf \in Configs, NEW max \in Word
  PROVE  Storable(cf, max) \in Stored
<1> DEFINE want(p) == IF cf.channelMap[p] = None THEN None
                      ELSE [cf.channelMap[p] EXCEPT !.whiteCal = AtMost(AtMost(@, cf.pwmRes), max)]
<1>1. Storable(cf, max) = [channelMap |-> [p \in Ports |-> want(p)], layout |-> cf.layout]
  BY DEF Storable
<1>2. cf.layout \in LegalLayouts /\ cf.pwmRes \in Nat /\ max \in Nat
  BY RangeFacts DEF Configs
<1>3. ASSUME NEW p \in Ports PROVE want(p) \in Channels \cup {None}
  <2>1. CASE cf.channelMap[p] # None
    <3> DEFINE c == cf.channelMap[p]
               x == AtMost(AtMost(c.whiteCal, cf.pwmRes), max)
    <3>1. c \in Channels
      BY <2>1 DEF Configs, ChannelMaps
    <3>2. c.whiteCal \in Nat
      BY <3>1 DEF Channels
    <3>3. x \in Nat
      <4>1. \A v, hi \in Nat : AtMost(v, hi) \in Nat
        BY ClampFacts
      <4> QED BY Zenon, <1>2, <3>2, <4>1
    <3>4. want(p) = [c EXCEPT !.whiteCal = x]
      BY <2>1
    <3> HIDE DEF c, x, want
    <3>5. want(p) = [area |-> c.area, color |-> c.color, gamma |-> c.gamma, whiteCal |-> x]
      BY Zenon, <3>1, <3>4, ExceptWhite
    <3>6. c.area \in Areas /\ c.color \in 0 .. 3 /\ c.gamma \in 10 .. 50
      BY <3>1 DEF Channels
    <3>7. want(p) \in Channels
      BY <3>3, <3>5, <3>6 DEF Channels
    <3> QED BY <3>7
  <2>2. CASE cf.channelMap[p] = None
    BY <2>2
  <2> QED BY <2>1, <2>2
<1> HIDE DEF want
<1> QED BY <1>1, <1>2, <1>3 DEF Stored, ChannelMaps

\* The configuration after a reset.
LEMMA EmptyType == Empty \in Stored /\ Empty.channelMap \in ChannelMaps
BY DefaultLayoutLegal DEF Empty, Stored, ChannelMaps

\* A maximum fits into two bytes, and the frequency of a maximum is a number.
LEMMA FreqTypes ==
  /\ \A f \in MIN_PWM_FREQ .. MAX_PWM_FREQ : MaxPwm(f) \in Word
  /\ \A m \in Word : GetFreq(m) \in Nat
<1>1. ASSUME NEW f \in MIN_PWM_FREQ .. MAX_PWM_FREQ PROVE MaxPwm(f) \in Word
  <2>1. f \in Nat /\ f >= 50 /\ f <= 400
    BY DEF MIN_PWM_FREQ, MAX_PWM_FREQ
  <2> DEFINE d == 144 * f
             q == 16000000 \div d
  <2>2. d \in Nat /\ d >= 7200 /\ d <= 57600
    BY <2>1
  <2> HIDE DEF d
  <2>3. q \in Nat /\ d * q <= 16000000 /\ 16000000 < d * q + d
    BY <2>2
  <2> HIDE DEF q
  <2>4. q >= 1
    BY <2>2, <2>3
  <2>5. q <= 2223
    <3>1. \A u, v, x, y \in Nat : u <= v /\ x <= y => u * x <= v * y
      OBVIOUS
    <3>2. q >= 2224 => 7200 * 2224 <= d * q
      BY <2>2, <2>3, <3>1
    <3> QED BY <2>2, <2>3, <3>2
  <2>6. q - 1 \in Nat /\ q - 1 <= 65535
    BY <2>3, <2>4, <2>5
  <2>7. q - 1 \in Word
    BY <2>6, RangeFacts
  <2> QED BY <2>7 DEF MaxPwm, q, d
<1>2. ASSUME NEW m \in Word PROVE GetFreq(m) \in Nat
  <2>1. m \in Nat
    BY RangeFacts
  <2>2. 144 * (m + 1) \in Nat \ {0}
    BY <2>1
  <2> DEFINE d == 144 * (m + 1)
  <2> HIDE DEF d
  <2>3. \A x \in Nat \ {0} : 16000000 \div x \in Nat
    OBVIOUS
  <2> QED BY <2>2, <2>3 DEF GetFreq
<1> QED BY <1>1, <1>2

\* The setup after a reset.
LEMMA DefaultSetupType == DefaultSetup \in Setups
<1>1. 100 \in MIN_PWM_FREQ .. MAX_PWM_FREQ
  BY SMT DEF MIN_PWM_FREQ, MAX_PWM_FREQ
<1>2. MaxPwm(100) \in Word
  BY <1>1, FreqTypes
<1>3. \A p \in Ports : Place(p) - 1 \in Nat
  BY PlaceFacts, Sizes
<1>4. 255 \in Byte
  BY RangeFacts
<1> DEFINE m == MaxPwm(100)
<1>5. DefaultSetup = [map |-> [p \in Ports |-> Place(p) - 1], max |-> m, bright |-> 255]
  BY DEF DefaultSetup
<1> HIDE DEF m
<1> QED BY <1>2, <1>3, <1>4, <1>5 DEF Setups, m

\* A setup with one value changed.
LEMMA SetupTypes ==
  ASSUME NEW s \in Setups
  PROVE  /\ \A m \in [Ports -> Nat \cup {None}] : [s EXCEPT !.map = m] \in Setups
         /\ \A m \in Word : [s EXCEPT !.max = m] \in Setups
         /\ \A v \in Byte : [s EXCEPT !.bright = v] \in Setups
         /\ s.map \in [Ports -> Nat \cup {None}] /\ s.max \in Word /\ s.bright \in Byte
BY DEF Setups

\* set_pwm_freq leaves a setup.
LEMMA SetFreqType ==
  ASSUME live \in Setups, NEW f
  PROVE  SetupWithFreq(f) \in Setups
BY FreqTypes, SetupTypes DEF SetupWithFreq

\* A configuration with one attribute changed.
LEMMA ConfigTypes ==
  ASSUME NEW c \in Configs
  PROVE  /\ \A m \in ChannelMaps : [c EXCEPT !.channelMap = m] \in Configs
         /\ \A l \in LegalLayouts : [c EXCEPT !.layout = l] \in Configs
         /\ \A r \in Word : [c EXCEPT !.pwmRes = r] \in Configs
         /\ \A f \in Nat : [c EXCEPT !.pwmFreq = f] \in Configs
         /\ \A v \in Byte : [c EXCEPT !.commonBright = v] \in Configs
         /\ c.channelMap \in ChannelMaps /\ c.layout \in LegalLayouts /\ c.pwmRes \in Word
         /\ c.pwmFreq \in Nat /\ c.commonBright \in Byte
BY DEF Configs

(***************************************************************************)
(* The type invariant                                                      *)
(***************************************************************************)

\* TypeOK in three parts: the controllers, the objects of the program, and the control.
HalvesType == ee \in [1 .. EeSize -> Byte] /\ live \in Setups /\ stored \in Setups
ObjectsType ==
  /\ cfg \in Configs \cup {None} /\ file \in Configs \cup {None} /\ layout \in LegalLayouts
  /\ wanted \in Stored \cup {None} /\ promise \in Stored \cup {None}
Pcs == {"idle", "set_bright", "set_freq", "write_ee", "clear_ee", "set_map", "store",
        "reset_setup", "reset_pwm", "get_pwm", "read_ee", "read_map"}
Ops == {"none", "store", "reset", "restore", "scan"}
ControlType ==
  /\ gone \in BOOLEAN /\ doubt \in BOOLEAN /\ ops \in 0 .. MaxOps
  /\ pc \in Pcs /\ op \in Ops /\ result \in {"ok", "raised"}
  /\ pc # "idle" => cfg # None /\ op # "none"

LEMMA TypeParts == /\ TypeOK <=> HalvesType /\ ObjectsType /\ ControlType
                   /\ TypeOK' <=> HalvesType' /\ ObjectsType' /\ ControlType'
<1>1. TypeOK <=> HalvesType /\ ObjectsType /\ ControlType
  BY Zenon DEF TypeOK, HalvesType, ObjectsType, ControlType, Pcs, Ops
<1>2. TypeOK' <=> HalvesType' /\ ObjectsType' /\ ControlType'
  BY Zenon DEF TypeOK, HalvesType, ObjectsType, ControlType, Pcs, Ops
<1> QED BY <1>1, <1>2

\* The initial states.
LEMMA TypeInit == Init => TypeOK
<1> SUFFICES ASSUME Init PROVE TypeOK
  OBVIOUS
<1>1. HalvesType
  <2>1. 255 \in Byte
    BY RangeFacts
  <2>2. ee \in [1 .. EeSize -> Byte]
    BY <2>1 DEF Init
  <2> QED BY <2>2, DefaultSetupType DEF Init, HalvesType
<1>2. ObjectsType
  BY DefaultLayoutLegal DEF Init, ObjectsType
<1>3. ControlType
  <2>1. MaxOps \in Nat
    BY ConfigAssumption
  <2>2. gone \in BOOLEAN /\ doubt \in BOOLEAN
    BY Zenon DEF Init
  <2> QED BY <2>1, <2>2 DEF Init, ControlType, Pcs, Ops
<1> QED BY <1>1, <1>2, <1>3, TypeParts

\* write_ee_data sends bytes.
LEMMA WriteDataType == ASSUME TypeOK, pc # "idle" PROVE WriteData \in Seq(Byte)
<1>1. cfg \in Configs
  BY DEF TypeOK
<1>2. EeData(cfg) \in Seq(Byte)
  BY <1>1, EeDataFacts
<1>3. 255 \in Byte
  BY RangeFacts
<1>4. <<255, 255>> \in Seq(Byte)
  BY <1>3
<1> QED BY Zenon, <1>2, <1>4 DEF WriteData

\* A request that may have been carried out leaves a setup.
LEMMA MaySetType ==
  ASSUME TypeOK, NEW new \in Setups, MaySet(new)
  PROVE  live' \in Setups
BY DEF MaySet, Sets, TypeOK

\* The setups that the requests of Restore and Store make.
LEMMA NewSetups ==
  ASSUME TypeOK, cfg # None
  PROVE  /\ [live EXCEPT !.bright = cfg.commonBright] \in Setups
         /\ SetupWithFreq(cfg.pwmFreq) \in Setups
         /\ [live EXCEPT !.map = PwmMap(cfg)] \in Setups
<1>1. cfg \in Configs /\ live \in Setups
  BY DEF TypeOK
<1>2. cfg.commonBright \in Byte
  BY <1>1, ConfigTypes
<1> QED BY <1>1, <1>2, SetupTypes, SetFreqType, PwmMapType

\* Every step leaves bytes in the EEPROM and setups in the PWM controller.
LEMMA HalvesNext == ASSUME TypeOK, [Next]_vars PROVE HalvesType'
<1> USE DEF HalvesType
<1>1. HalvesType /\ live \in Setups
  BY DEF TypeOK
<1>2. CASE UNCHANGED devices
  BY <1>1, <1>2 DEF devices
<1>3. CASE SetPWMFreq
  <2>1. PICK f \in Freqs : Sets(SetupWithFreq(f)) \/ MaySet(SetupWithFreq(f))
    BY <1>3 DEF SetPWMFreq
  <2>2. SetupWithFreq(f) \in Setups
    BY <1>1, SetFreqType
  <2>3. live' \in Setups
    BY <2>1, <2>2, MaySetType DEF Sets
  <2> QED BY <1>1, <1>3, <2>3 DEF SetPWMFreq
<1>4. CASE SetCommonBright
  <2>1. PICK v \in Brights : Sets([live EXCEPT !.bright = v]) \/ MaySet([live EXCEPT !.bright = v])
    BY <1>4 DEF SetCommonBright
  <2>2. v \in Byte
    BY ConfigAssumption
  <2>3. [live EXCEPT !.bright = v] \in Setups
    BY <1>1, <2>2, SetupTypes
  <2>4. live' \in Setups
    BY <2>1, <2>3, MaySetType DEF Sets
  <2> QED BY <1>1, <1>4, <2>4 DEF SetCommonBright
<1>5. CASE RestoreBright \/ RestoreFreq \/ SetChannelMap
  <2>1. cfg # None
    BY <1>5 DEF TypeOK, RestoreBright, RestoreFreq, SetChannelMap, Step
  <2>2. live' \in Setups /\ UNCHANGED <<ee, stored>>
    BY <1>5, <2>1, NewSetups DEF RestoreBright, RestoreFreq, SetChannelMap, RestoredSetup
  <2> QED BY <1>1, <2>2
<1>6. CASE WriteEe
  <2>1. WriteData \in Seq(Byte)
    BY <1>6, WriteDataType DEF WriteEe, Step
  <2>2. ee' \in [1 .. EeSize -> Byte]
    BY <1>1, <1>6, <2>1, Sizes, OverwrittenFacts DEF WriteEe
  <2> QED BY <1>1, <1>6, <2>2 DEF WriteEe
<1>7. CASE StoreRequest \/ ResetRequest \/ ReadReset \/ PowerLoss
  BY <1>1, <1>7, DefaultSetupType DEF StoreRequest, ResetRequest, ReadReset, PowerLoss
<1>8. CASE Failure
  <2>1. Fails /\ pc # "idle" /\ cfg # None
    BY <1>8 DEF Failure, Fails, TypeOK
  <2>2. CASE pc \in {"write_ee", "clear_ee"}
    <3>1. PICK n \in Cuts \cup {0, EeSize} : ee' = Overwritten(WriteData, n)
      BY <2>1, <2>2 DEF Fails
    <3>2. n \in Nat
      BY ConfigAssumption, Sizes
    <3>3. WriteData \in Seq(Byte)
      BY <2>1, WriteDataType
    <3>4. ee' \in [1 .. EeSize -> Byte]
      BY <1>1, <3>1, <3>2, <3>3, OverwrittenFacts
    <3>5. UNCHANGED <<live, stored>>
      BY <2>1, <2>2 DEF Fails
    <3> QED BY <1>1, <3>4, <3>5
  <2>3. CASE pc = "store"
    <3>1. stored' \in {stored, live} /\ UNCHANGED <<ee, live>>
      BY <2>1, <2>3 DEF Fails
    <3> QED BY <1>1, <3>1
  <2>4. CASE pc = "reset_setup"
    <3>1. ee' = ee /\ live' \in {live, DefaultSetup} /\ stored' \in {stored, DefaultSetup}
      BY <2>1, <2>4 DEF Fails, devices
    <3> QED BY <1>1, <3>1, DefaultSetupType
  <2>5. CASE pc = "get_pwm"
    <3>1. UNCHANGED devices
      BY <2>1, <2>5 DEF Fails
    <3> QED BY <1>2, <3>1
  <2>6. CASE pc \notin {"write_ee", "clear_ee", "store", "reset_setup", "get_pwm"}
    <3> DEFINE new == CASE pc = "set_bright" -> [live EXCEPT !.bright = cfg.commonBright]
                        [] pc = "set_freq"   -> SetupWithFreq(cfg.pwmFreq)
                        [] pc = "set_map"    -> [live EXCEPT !.map = PwmMap(cfg)]
                        [] pc = "reset_pwm"  -> stored
                        [] OTHER             -> live
    <3>1. MaySet(new) /\ UNCHANGED <<ee, stored>>
      BY Zenon, <2>1, <2>6 DEF Fails
    <3>2. new \in Setups
      BY Zenon, <1>1, <2>1, NewSetups
    <3> HIDE DEF new
    <3> QED BY <1>1, <3>1, <3>2, MaySetType
  <2> QED BY <2>2, <2>3, <2>4, <2>5, <2>6
<1>9. CASE ScanFailure
  <2>1. MaySet(IF pc = "reset_pwm" THEN stored ELSE live) /\ UNCHANGED <<ee, stored>>
    BY <1>9 DEF ScanFailure
  <2>2. (IF pc = "reset_pwm" THEN stored ELSE live) \in Setups
    BY <1>1
  <2> QED BY <1>1, <2>1, <2>2, MaySetType
<1>10. CASE EditMap \/ EditLayout \/ BackupSetup \/ UNCHANGED vars
  <2>1. UNCHANGED devices
    BY <1>10 DEF EditMap, EditLayout, BackupSetup, vars
  <2> QED BY <1>2, <2>1
<1>11. CASE StoreSetup \/ ResetSetup \/ RestoreSetup \/ Scan
  <2>1. UNCHANGED devices
    BY <1>11 DEF StoreSetup, ResetSetup, RestoreSetup, Scan, Begin
  <2> QED BY <1>2, <2>1
<1>12. CASE ReadPwm \/ ReadEe \/ ReadMap
  <2>1. UNCHANGED devices
    BY <1>12 DEF ReadPwm, ReadEe, ReadMap
  <2> QED BY <1>2, <2>1
<1> HIDE DEF HalvesType
<1> QED BY <1>3, <1>4, <1>5, <1>6, <1>7, <1>8, <1>9, <1>10, <1>11, <1>12 DEF Next

\* What Store and Restore are to store.
LEMMA WantedType ==
  ASSUME TypeOK, NEW cf \in Configs, NEW f
  PROVE  /\ Storable(cf, live.max) \in Stored
         /\ Storable(cf, SetupWithFreq(f).max) \in Stored
<1>1. live \in Setups
  BY DEF TypeOK
<1>2. live.max \in Word /\ SetupWithFreq(f).max \in Word
  BY <1>1, SetupTypes, SetFreqType
<1> QED BY <1>2, StorableType

\* The configuration while the values of the PWM controller are read.
LEMMA PwmReadType ==
  ASSUME TypeOK, cfg # None
  PROVE  /\ WithPwm(cfg) \in Configs /\ Blank(WithPwm(cfg)) \in Configs
         /\ [cfg EXCEPT !.pwmRes = live.max] \in Configs
         /\ [WithPwm(cfg) EXCEPT !.commonBright = cfg.commonBright] \in Configs
<1>1. cfg \in Configs /\ live \in Setups
  BY DEF TypeOK
<1>2. live.max \in Word /\ live.bright \in Byte /\ GetFreq(live.max) \in Nat
  BY <1>1, SetupTypes, FreqTypes
<1> DEFINE b == [cfg EXCEPT !.pwmRes = live.max]
           c == [b EXCEPT !.pwmFreq = GetFreq(live.max)]
           d == [c EXCEPT !.commonBright = live.bright]
<1>3. b \in Configs
  BY <1>1, <1>2, ConfigTypes
<1>4. WithPwm(cfg) = d
  BY DEF WithPwm
<1> HIDE DEF b
<1>5. c \in Configs
  BY <1>2, <1>3, ConfigTypes
<1> HIDE DEF c
<1>6. d \in Configs
  BY <1>2, <1>5, ConfigTypes
<1> HIDE DEF d
<1>7. Blank(d) \in Configs
  BY <1>6, ConfigTypes, DefaultLayoutLegal DEF Blank
<1>8. [d EXCEPT !.commonBright = cfg.commonBright] \in Configs
  BY <1>1, <1>6, ConfigTypes
<1> QED BY <1>3, <1>4, <1>6, <1>7, <1>8 DEF b

\* The new configuration of Scan.
LEMMA ScannedType ==
  [channelMap |-> Empty.channelMap, layout |-> DefaultLayout,
   pwmRes |-> 0, pwmFreq |-> 0, commonBright |-> 0] \in Configs
<1>1. 0 \in Word /\ 0 \in Byte
  BY RangeFacts
<1> QED BY <1>1, EmptyType, DefaultLayoutLegal DEF Configs

\* The configurations that the operations make of the actual one.
LEMMA SetConfigType ==
  ASSUME TypeOK, cfg # None
  PROVE  /\ \A f \in Freqs, r \in Word : [cfg EXCEPT !.pwmFreq = f, !.pwmRes = r] \in Configs
         /\ \A v \in Brights : [cfg EXCEPT !.commonBright = v] \in Configs
         /\ \A m \in [Ports -> Mappings \cup {None}] : [cfg EXCEPT !.channelMap = m] \in Configs
         /\ [cfg EXCEPT !.layout = layout] \in Configs
         /\ [cfg EXCEPT !.layout = ReadLayout(ee)] \in Configs
         /\ [cfg EXCEPT !.channelMap = ReadChannelMap(ee, live.map, cfg.pwmRes)] \in Configs
<1>1. cfg \in Configs /\ layout \in LegalLayouts /\ ee \in [1 .. EeSize -> Byte]
  BY DEF TypeOK
<1>2. \A f \in Freqs : f \in Nat
  <2>1. \A f \in MIN_PWM_FREQ .. MAX_PWM_FREQ : f \in Nat
    BY SMT DEF MIN_PWM_FREQ, MAX_PWM_FREQ
  <2> QED BY <2>1, FreqAssumption
<1>3. ASSUME NEW f \in Freqs, NEW r \in Word
      PROVE  [cfg EXCEPT !.pwmFreq = f, !.pwmRes = r] \in Configs
  <2> DEFINE b == [cfg EXCEPT !.pwmFreq = f]
  <2>1. b \in Configs
    BY <1>1, <1>2, ConfigTypes
  <2>2. [cfg EXCEPT !.pwmFreq = f, !.pwmRes = r] = [b EXCEPT !.pwmRes = r]
    OBVIOUS
  <2> HIDE DEF b
  <2> QED BY <2>1, <2>2, ConfigTypes
<1>4. \A v \in Brights : [cfg EXCEPT !.commonBright = v] \in Configs
  BY <1>1, ConfigTypes, ConfigAssumption
<1>5. ASSUME NEW m \in [Ports -> Mappings \cup {None}]
      PROVE  [cfg EXCEPT !.channelMap = m] \in Configs
  <2>1. m \in ChannelMaps
    BY ConfigAssumption DEF ChannelMaps
  <2> QED BY <1>1, <2>1, ConfigTypes
<1>6. [cfg EXCEPT !.layout = layout] \in Configs
  BY <1>1, ConfigTypes
<1>7. [cfg EXCEPT !.layout = ReadLayout(ee)] \in Configs
  BY <1>1, ConfigTypes, ReadLayoutLegal
<1>8. [cfg EXCEPT !.channelMap = ReadChannelMap(ee, live.map, cfg.pwmRes)] \in Configs
  <2>1. cfg.pwmRes \in Word
    BY <1>1, ConfigTypes
  <2>2. ReadChannelMap(ee, live.map, cfg.pwmRes) \in ChannelMaps
    BY <1>1, <2>1, ReadMapType
  <2> QED BY <1>1, <2>2, ConfigTypes
<1> QED BY <1>3, <1>4, <1>5, <1>6, <1>7, <1>8

\* Every step leaves legal configurations and layouts; read does so for any bytes.
LEMMA ObjectsNext == ASSUME TypeOK, HalvesType', [Next]_vars PROVE ObjectsType'
<1> DEFINE Same == UNCHANGED <<file, layout, wanted, promise>>
<1>1. ObjectsType
  BY TypeParts
<1>2. ASSUME cfg' \in Configs \cup {None}, Same PROVE ObjectsType'
  BY <1>1, <1>2 DEF ObjectsType
<1>4. CASE SetPWMFreq
  <2>1. live' \in Setups
    BY DEF HalvesType
  <2>2. NewRes \in Word
    BY <2>1, SetupTypes DEF NewRes
  <2>3. cfg' \in Configs /\ Same
    <3>1. cfg \in Configs
      BY <1>4 DEF SetPWMFreq, TypeOK
    <3> QED BY <1>4, <2>2, <3>1, SetConfigType DEF SetPWMFreq
  <2> QED BY <1>2, <2>3
<1>5. CASE SetCommonBright
  <2>1. cfg' \in Configs /\ Same
    <3>1. cfg \in Configs
      BY <1>5 DEF SetCommonBright, TypeOK
    <3> QED BY <1>5, <3>1, SetConfigType DEF SetCommonBright
  <2> QED BY <1>2, <2>1
<1>6. CASE EditMap
  <2>1. cfg' \in Configs /\ Same
    BY <1>6, SetConfigType DEF EditMap
  <2> QED BY <1>2, <2>1
<1>7. CASE EditLayout
  <2>1. layout' \in LegalLayouts
    BY <1>7, ConfigAssumption DEF EditLayout
  <2> QED BY <1>1, <1>7, <2>1 DEF EditLayout, ObjectsType
<1>8. CASE BackupSetup
  <2>1. cfg' \in Configs /\ file' = cfg'
    BY <1>8, SetConfigType DEF BackupSetup
  <2> QED BY <1>1, <1>8, <2>1 DEF BackupSetup, ObjectsType
<1>9. CASE StoreSetup
  <2>1. cfg' \in Configs /\ wanted' = Storable(cfg', live.max)
    BY <1>9, SetConfigType DEF StoreSetup
  <2>2. wanted' \in Stored
    BY <2>1, WantedType
  <2> QED BY <1>1, <1>9, <2>1, <2>2 DEF StoreSetup, Begin, ObjectsType
<1>10. CASE ResetSetup
  <2>1. wanted' \in Stored
    BY <1>10, EmptyType DEF ResetSetup
  <2> QED BY <1>1, <1>10, <2>1 DEF ResetSetup, Begin, ObjectsType
<1>11. CASE RestoreSetup
  <2>1. file \in Configs
    BY <1>1, <1>11 DEF RestoreSetup, ObjectsType
  <2>2. cfg' \in Configs /\ wanted' \in Stored
    BY <1>11, <2>1, WantedType DEF RestoreSetup
  <2> QED BY <1>1, <1>11, <2>2 DEF RestoreSetup, Begin, ObjectsType
<1>12. CASE Scan
  <2>1. cfg' \in Configs
    BY Zenon, <1>12, ScannedType DEF Scan
  <2>2. UNCHANGED <<file, layout, wanted, promise>>
    BY <1>12 DEF Scan, Begin
  <2> QED BY <1>1, <2>1, <2>2 DEF ObjectsType
<1>13. CASE \/ RestoreBright \/ RestoreFreq \/ WriteEe \/ SetChannelMap \/ StoreRequest
            \/ ResetRequest \/ ReadReset
  <2>1. UNCHANGED <<cfg, file, layout, wanted, promise>>
    BY <1>13 DEF RestoreBright, RestoreFreq, WriteEe, SetChannelMap, StoreRequest,
                 ResetRequest, ReadReset, Step, history
  <2> QED BY <1>1, <2>1 DEF ObjectsType
<1>14. CASE ReadPwm \/ ReadEe
  <2>1. cfg # None
    BY <1>14 DEF TypeOK, ReadPwm, ReadEe, Step
  <2>2. cfg' \in Configs /\ UNCHANGED <<file, layout, wanted, promise>>
    BY <1>14, <2>1, PwmReadType, SetConfigType DEF ReadPwm, ReadEe, Step, history
  <2> QED BY <1>2, <2>2
<1>15. ASSUME ObjectsType, cfg' \in Configs \cup {None}
       PROVE  LayoutAfter(cfg') \in LegalLayouts
  BY <1>15, ConfigTypes DEF ObjectsType, LayoutAfter
<1>16. CASE ReadMap
  <2>1. cfg' \in Configs
    BY <1>16, SetConfigType DEF ReadMap, TypeOK
  <2>2. layout' \in LegalLayouts
    BY <1>1, <1>15, <1>16, <2>1 DEF ReadMap
  <2> QED BY <1>1, <1>16, <2>1, <2>2 DEF ReadMap, ObjectsType
<1>17. CASE Failure
  <2>1. Fails /\ Raise /\ layout' = LayoutAfter(cfg') /\ cfg \in Configs
    BY <1>17 DEF Failure, Fails, TypeOK
  <2>2. cfg' \in Configs
    <3>1. CASE pc = "get_pwm"
      <4>1. cfg' \in {cfg, [cfg EXCEPT !.pwmRes = live.max],
                      [WithPwm(cfg) EXCEPT !.commonBright = cfg.commonBright]}
        BY <2>1, <3>1 DEF Fails
      <4>2. cfg # None
        BY <2>1, <1>17 DEF Failure, Fails, TypeOK
      <4> QED BY <2>1, <4>1, <4>2, PwmReadType
    <3>2. CASE pc # "get_pwm"
      <4>1. cfg' = cfg
        <5>1. CASE pc \in {"write_ee", "clear_ee"}
          BY <2>1, <5>1 DEF Fails
        <5>2. CASE pc \in {"store", "reset_setup"}
          BY <2>1, <5>2 DEF Fails
        <5>3. CASE pc \notin {"write_ee", "clear_ee", "store", "reset_setup", "get_pwm"}
          BY Zenon, <2>1, <5>3 DEF Fails
        <5> QED BY <3>2, <5>1, <5>2, <5>3
      <4> QED BY <2>1, <4>1
    <3> QED BY <3>1, <3>2
  <2>3. layout' \in LegalLayouts
    BY <1>1, <1>15, <2>1, <2>2
  <2>4. file' = file /\ wanted' = wanted /\ promise' \in {promise, None}
    BY <2>1 DEF Fails, Raise
  <2> QED BY <1>1, <2>2, <2>3, <2>4 DEF ObjectsType
<1>18. CASE ScanFailure
  <2>1. cfg' = None /\ UNCHANGED <<file, layout, wanted>> /\ promise' \in {promise, None}
    BY <1>18 DEF ScanFailure, Raise
  <2> QED BY <1>1, <2>1 DEF ObjectsType
<1>19. CASE PowerLoss \/ UNCHANGED vars
  <2>1. UNCHANGED <<cfg, file, layout, wanted, promise>>
    BY <1>19 DEF PowerLoss, vars, history
  <2> QED BY <1>1, <2>1 DEF ObjectsType
<1> QED BY <1>4, <1>5, <1>6, <1>7, <1>8, <1>9, <1>10, <1>11, <1>12, <1>13, <1>14, <1>16, <1>17,
           <1>18, <1>19 DEF Next

\* An operation only runs while there is a configuration.
LEMMA ControlNext == ASSUME TypeOK, ObjectsType', [Next]_vars PROVE ControlType'
<1> USE DEF ControlType, Pcs, Ops
<1>1. ControlType
  BY TypeParts
<1> DEFINE Flags == gone' \in BOOLEAN /\ doubt' \in BOOLEAN
<1>2. MaxOps \in Nat
  BY ConfigAssumption
<1>3. None \notin Configs /\ (cfg # None => cfg \in Configs)
  BY ConfigAssumption DEF TypeOK
<1>4. UserActs => ops' \in 0 .. MaxOps
  BY <1>1, <1>2 DEF UserActs
<1>5. CASE EditMap \/ EditLayout \/ SetPWMFreq \/ SetCommonBright \/ BackupSetup
  <2>1. ops' \in 0 .. MaxOps /\ pc = "idle" /\ pc' = pc
    BY <1>4, <1>5 DEF EditMap, EditLayout, SetPWMFreq, SetCommonBright, BackupSetup, UserActs
  <2>2. op' \in {op, "none"} /\ result' \in {result, "ok", "raised"}
    BY <1>5 DEF EditMap, EditLayout, SetPWMFreq, SetCommonBright, BackupSetup
  <2>3. Flags
    BY Zenon, <1>1, <1>5 DEF EditMap, EditLayout, SetPWMFreq, SetCommonBright, BackupSetup
  <2> QED BY <1>1, <2>1, <2>2, <2>3
<1>6. CASE StoreSetup \/ ResetSetup \/ RestoreSetup \/ Scan
  <2>1. ops' \in 0 .. MaxOps /\ result' = result
    BY <1>4, <1>6 DEF StoreSetup, ResetSetup, RestoreSetup, Scan, Begin
  <2>2. op' \in Ops \ {"none"} /\ pc' \in Pcs
    BY <1>6 DEF StoreSetup, ResetSetup, RestoreSetup, Scan, Begin
  <2>3. Flags
    BY Zenon, <1>1, <1>6 DEF StoreSetup, ResetSetup, RestoreSetup, Scan, Begin
  <2>4. cfg' # None
    <3>1. CASE StoreSetup
      BY <1>3, <3>1, SetConfigType DEF StoreSetup
    <3>2. CASE ResetSetup \/ RestoreSetup
      BY <3>2 DEF ResetSetup, RestoreSetup
    <3>3. CASE Scan
      <4>1. cfg' \in Configs
        BY Zenon, <3>3, ScannedType DEF Scan
      <4> QED BY <1>3, <4>1
    <3> QED BY <1>6, <3>1, <3>2, <3>3
  <2> QED BY <1>1, <2>1, <2>2, <2>3, <2>4
<1>7. CASE \/ RestoreBright \/ RestoreFreq \/ WriteEe \/ SetChannelMap \/ StoreRequest
           \/ ResetRequest \/ ReadReset \/ ReadPwm \/ ReadEe
  <2>1. PICK from \in Pcs \ {"idle"}, to \in Pcs : Step(from, to)
    BY <1>7 DEF RestoreBright, RestoreFreq, WriteEe, SetChannelMap, StoreRequest,
                ResetRequest, ReadReset, ReadPwm, ReadEe
  <2>2. pc # "idle" /\ cfg # None
    BY <1>1, <2>1 DEF Step
  <2>3. cfg' # None
    <3>1. CASE ReadPwm \/ ReadEe
      BY <1>3, <2>2, <3>1, PwmReadType, SetConfigType DEF ReadPwm, ReadEe
    <3>2. CASE \/ RestoreBright \/ RestoreFreq \/ WriteEe \/ SetChannelMap \/ StoreRequest
               \/ ResetRequest \/ ReadReset
      BY <2>2, <3>2 DEF RestoreBright, RestoreFreq, WriteEe, SetChannelMap, StoreRequest,
                        ResetRequest, ReadReset
    <3> QED BY <1>7, <3>1, <3>2
  <2>4. Flags
    BY Zenon, <1>1, <2>1 DEF Step, history
  <2>5. pc' = to /\ UNCHANGED <<op, result, ops>>
    BY <2>1 DEF Step, history
  <2> QED BY <1>1, <2>1, <2>2, <2>3, <2>4, <2>5
<1>8. CASE ReadMap \/ Failure \/ ScanFailure
  <2>1. pc' = "idle" /\ op' = op /\ ops' = ops /\ result' \in {"ok", "raised"}
    BY <1>8 DEF ReadMap, Failure, ScanFailure, Fails, Raise
  <2>2. Flags
    BY Zenon, <1>1, <1>8 DEF ReadMap, Failure, ScanFailure, Fails, Raise
  <2> QED BY <1>1, <2>1, <2>2
<1>9. CASE PowerLoss \/ UNCHANGED vars
  <2>1. UNCHANGED <<pc, op, result, ops, cfg>>
    BY <1>9 DEF PowerLoss, vars, history
  <2>2. Flags
    BY Zenon, <1>1, <1>9 DEF PowerLoss, vars, history
  <2> QED BY <1>1, <2>1, <2>2
<1> QED BY <1>5, <1>6, <1>7, <1>8, <1>9 DEF Next

\* Every step keeps the type.
LEMMA TypeNext == TypeOK /\ [Next]_vars => TypeOK'
BY HalvesNext, ObjectsNext, ControlNext, TypeParts

\* TypeOK holds for any ports, mappings, layouts, frequencies and cuts of a write: read makes
\* a legal configuration of any bytes, and no request gets a value that does not fit.
THEOREM ConfigType == Spec => []TypeOK
<1> QED BY TypeInit, TypeNext, PTL DEF Spec

(***************************************************************************)
(* What is stored is read again                                            *)
(***************************************************************************)

\* What read makes of the two halves is w.
Matches(e, s, w) ==
  ReadLayout(e) = w.layout /\ ReadChannelMap(e, s.map, s.max) = w.channelMap
ReadSteps == {"reset_pwm", "get_pwm", "read_ee", "read_map"}

\* The invariant follows the two halves through an operation.  What is to be stored is the
\* configuration, with the resolution that the PWM controller has by then.
ToBeStored ==
  /\ pc \in {"set_bright", "set_freq"} =>
       gone \/ wanted = Storable(cfg, RestoredSetup.max)
  /\ pc = "write_ee" => gone \/ wanted = Storable(cfg, live.max)
  /\ pc \in {"clear_ee", "reset_setup"} => wanted = Empty
\* One half is stored, the other one still under way.
HalfStored ==
  /\ pc = "set_map" => gone \/ Matches(ee, [live EXCEPT !.map = PwmMap(cfg)], wanted)
  /\ pc = "store" => gone \/ Matches(ee, live, wanted)
  /\ pc = "reset_setup" => ~ConfigValid(ee)
\* Both are stored, and read confirms them.
FullyStored ==
  /\ pc \in ReadSteps /\ op # "scan" => Matches(ee, stored, wanted)
  /\ pc = "idle" \/ op = "scan" => promise = None \/ Matches(ee, stored, promise)
  /\ pc \notin ReadSteps \cup {"idle"} => op # "scan"
Promising == TypeOK /\ ToBeStored /\ HalfStored /\ FullyStored

\* Nothing is promised at first.
LEMMA PromisingInit == Init => Promising
BY TypeInit DEF Init, Promising, ToBeStored, HalfStored, FullyStored, ReadSteps

\* Between two operations only the last clause of FullyStored is at stake,
LEMMA WhileIdle ==
  ASSUME TypeOK', pc' = "idle", promise' = None \/ Matches(ee', stored', promise')
  PROVE  Promising'
BY DEF Promising, ToBeStored, HalfStored, FullyStored, ReadSteps, Matches

\* and while read runs only its first two.
LEMMA WhileReading ==
  ASSUME TypeOK', pc' \in ReadSteps,
         op' # "scan" => Matches(ee', stored', wanted'),
         op' = "scan" => promise' = None \/ Matches(ee', stored', promise')
  PROVE  Promising'
BY DEF Promising, ToBeStored, HalfStored, FullyStored, ReadSteps, Matches

\* A complete write and the map of the PWM controller make up the configuration.
LEMMA WrittenMatches ==
  ASSUME TypeOK, cfg # None, KeysApart(cfg)
  PROVE  Matches(Overwritten(EeData(cfg), EeSize), [live EXCEPT !.map = PwmMap(cfg)],
                 Storable(cfg, live.max))
<1> DEFINE e == Overwritten(EeData(cfg), EeSize)
<1>1. cfg \in Configs /\ live \in Setups /\ ee \in [1 .. EeSize -> Byte]
  BY DEF TypeOK
<1>2. EeData(cfg) \in Seq(Byte)
  BY <1>1, EeDataFacts
<1>3. e \in [1 .. EeSize -> Byte]
  BY <1>1, <1>2, Sizes, OverwrittenFacts
<1>4. Holds(e, cfg)
  BY <1>1, WrittenHolds
<1>5. live.max \in Word
  BY <1>1, SetupTypes
<1> HIDE DEF e
<1>6. ReadLayout(e) = cfg.layout
  BY <1>1, <1>3, <1>4, LayoutReadBack
<1>7. ReadChannelMap(e, PwmMap(cfg), live.max) = Storable(cfg, live.max).channelMap
  BY <1>1, <1>3, <1>4, <1>5, MapReadBack
<1>8. Storable(cfg, live.max).layout = cfg.layout
  BY DEF Storable
<1>9. /\ [live EXCEPT !.map = PwmMap(cfg)].map = PwmMap(cfg)
      /\ [live EXCEPT !.map = PwmMap(cfg)].max = live.max
  BY <1>1 DEF Setups
<1> QED BY <1>6, <1>7, <1>8, <1>9 DEF Matches, e

\* An EEPROM without the identification gives the empty configuration with any setup.
LEMMA ClearedMatches ==
  ASSUME NEW e, NEW s, ~ConfigValid(e)
  PROVE  Matches(e, s, Empty)
<1>1. ReadLayout(e) = DefaultLayout
  BY DEF ReadLayout
<1>2. ReadChannelMap(e, s.map, s.max) = [p \in Ports |-> None]
  BY DEF ReadChannelMap
<1> QED BY <1>1, <1>2 DEF Matches, Empty

\* Two bytes 255 take the identification away.
LEMMA Cleared ==
  ASSUME TypeOK
  PROVE  ~ConfigValid(Overwritten(<<255, 255>>, EeSize))
<1> DEFINE d == <<255, 255>>
           e == Overwritten(d, EeSize)
<1>1. d \in Seq(Byte) /\ Len(d) = 2 /\ d[1] = 255
  <2>1. 255 \in Byte
    BY RangeFacts
  <2> QED BY <2>1
<1>2. ee \in [1 .. EeSize -> Byte] /\ EeSize \in Nat /\ 2 <= EeSize
  BY Sizes DEF TypeOK
<1> HIDE DEF d, e
<1>3. e = [i \in 1 .. EeSize |-> IF i <= EeSize /\ i <= Len(d) THEN d[i] ELSE ee[i]]
  BY <1>2 DEF e, Overwritten
<1>4. e[1] = 255
  BY <1>1, <1>2, <1>3
<1>5. e \in Seq(Byte) /\ Len(e) = EeSize
  BY <1>1, <1>2, OverwrittenFacts, FunctionIsSeq DEF e
<1>6. SubSeq(e, 1, 2) = <<e[1], e[2]>>
  BY <1>2, <1>5, FirstTwo
<1>7. ~ConfigValid(e)
  BY <1>4, <1>6 DEF ConfigValid, CONFIG_VALID_ID
<1> QED BY <1>7 DEF e, d

\* Setting the brightness does not change the resolution that Restore is about to set.
LEMMA FreqOfSetup ==
  ASSUME TypeOK, cfg' = cfg, NEW v, live' = [live EXCEPT !.bright = v]
  PROVE  RestoredSetup'.max = RestoredSetup.max
<1> DEFINE f == cfg.pwmFreq
<1>1. live \in Setups /\ f' = f
  BY DEF TypeOK
<1>2. live'.max = live.max /\ live' \in [map : {live.map}, max : {live.max}, bright : {v}]
  BY <1>1 DEF Setups
<1>3. /\ RestoredSetup = IF f \in MIN_PWM_FREQ .. MAX_PWM_FREQ THEN [live EXCEPT !.max = MaxPwm(f)] ELSE live
      /\ RestoredSetup' = IF f \in MIN_PWM_FREQ .. MAX_PWM_FREQ THEN [live' EXCEPT !.max = MaxPwm(f)] ELSE live'
  BY <1>1 DEF RestoredSetup, SetupWithFreq
<1> HIDE DEF f
<1> QED BY <1>1, <1>2, <1>3 DEF Setups

\* Every step keeps the invariant, if the configuration that is written has its keys apart.
LEMMA PromisingNext ==
  ASSUME Promising, KeysTellApart, [Next]_vars
  PROVE  Promising'
<1>1. TypeOK /\ TypeOK' /\ ToBeStored /\ HalfStored /\ FullyStored
  BY TypeNext DEF Promising
<1>2. CASE EditMap \/ EditLayout \/ SetPWMFreq \/ SetCommonBright \/ BackupSetup
  <2>1. pc = "idle" /\ pc' = "idle" /\ UNCHANGED <<ee, stored, promise>>
    BY <1>2 DEF EditMap, EditLayout, SetPWMFreq, SetCommonBright, BackupSetup, UserActs, devices
  <2>2. promise = None \/ Matches(ee, stored, promise)
    BY <1>1, <2>1 DEF FullyStored
  <2>3. promise' = None \/ Matches(ee', stored', promise')
    BY <2>1, <2>2
  <2> QED BY <1>1, <2>1, <2>3, WhileIdle
<1>3. CASE StoreSetup
  <2>1. pc' = "write_ee" /\ op' = "store" /\ live' = live /\ wanted' = Storable(cfg', live.max)
    BY <1>3 DEF StoreSetup, Begin, devices
  <2>2. wanted' = Storable(cfg', live'.max)
    BY <2>1
  <2> QED BY <1>1, <2>1, <2>2 DEF Promising, ToBeStored, HalfStored, FullyStored, ReadSteps
<1>4. CASE ResetSetup
  <2>1. pc' = "clear_ee" /\ op' = "reset" /\ wanted' = Empty
    BY <1>4 DEF ResetSetup, Begin
  <2> QED BY <1>1, <2>1 DEF Promising, ToBeStored, HalfStored, FullyStored, ReadSteps
<1>5. CASE RestoreSetup
  <2>1. /\ pc' = "set_bright" /\ op' = "restore" /\ cfg' = file /\ live' = live
        /\ wanted' = Storable(file, SetupWithFreq(file.pwmFreq).max)
    BY <1>5 DEF RestoreSetup, Begin, devices
  <2>2. RestoredSetup' = SetupWithFreq(file.pwmFreq)
    BY <2>1 DEF RestoredSetup, SetupWithFreq
  <2>3. wanted' = Storable(cfg', RestoredSetup'.max)
    BY <2>1, <2>2
  <2> QED BY <1>1, <2>1, <2>3 DEF Promising, ToBeStored, HalfStored, FullyStored, ReadSteps
<1>6. CASE Scan
  <2>1. pc = "idle" /\ pc' = "reset_pwm" /\ op' = "scan" /\ UNCHANGED <<ee, stored, promise>>
    BY <1>6 DEF Scan, Begin, UserActs, devices
  <2>2. promise = None \/ Matches(ee, stored, promise)
    BY <1>1, <2>1 DEF FullyStored
  <2>3. promise' = None \/ Matches(ee', stored', promise')
    BY <2>1, <2>2
  <2>4. pc' \in ReadSteps
    BY <2>1 DEF ReadSteps
  <2> QED BY <1>1, <2>1, <2>3, <2>4, WhileReading
<1>7. CASE RestoreBright
  <2>1. /\ pc = "set_bright" /\ pc' = "set_freq" /\ ~gone /\ UNCHANGED <<cfg, wanted, op>>
        /\ live' = [live EXCEPT !.bright = cfg.commonBright]
    BY <1>7 DEF RestoreBright, Step, history
  <2>2. wanted = Storable(cfg, RestoredSetup.max) /\ op # "scan"
    BY <1>1, <2>1 DEF ToBeStored, FullyStored, ReadSteps
  <2>3. RestoredSetup'.max = RestoredSetup.max
    BY <1>1, <2>1, FreqOfSetup
  <2>4. wanted' = Storable(cfg', RestoredSetup'.max)
    BY <2>1, <2>2, <2>3
  <2> QED BY <1>1, <2>1, <2>2, <2>4 DEF Promising, ToBeStored, HalfStored, FullyStored, ReadSteps
<1>8. CASE RestoreFreq
  <2>1. /\ pc = "set_freq" /\ pc' = "write_ee" /\ ~gone /\ UNCHANGED <<cfg, wanted, op>>
        /\ live' = RestoredSetup
    BY <1>8 DEF RestoreFreq, Step, history
  <2>2. wanted = Storable(cfg, RestoredSetup.max) /\ op # "scan"
    BY <1>1, <2>1 DEF ToBeStored, FullyStored, ReadSteps
  <2>3. wanted' = Storable(cfg', live'.max)
    BY <2>1, <2>2
  <2> QED BY <1>1, <2>1, <2>2, <2>3 DEF Promising, ToBeStored, HalfStored, FullyStored, ReadSteps
<1>9. CASE WriteEe
  <2>1. CASE Step("write_ee", "set_map")
    <3>1. /\ pc = "write_ee" /\ pc' = "set_map" /\ ~gone /\ UNCHANGED <<live, cfg, wanted, op>>
          /\ ee' = Overwritten(EeData(cfg), EeSize)
      BY <1>9, <2>1 DEF WriteEe, WriteData, Step, history
    <3>2. wanted = Storable(cfg, live.max) /\ op # "scan" /\ cfg # None
      BY <1>1, <3>1 DEF ToBeStored, FullyStored, ReadSteps, TypeOK
    <3>3. Matches(ee', [live EXCEPT !.map = PwmMap(cfg)], wanted)
      BY <1>1, <3>1, <3>2, WrittenMatches DEF KeysTellApart
    <3>4. Matches(ee', [live' EXCEPT !.map = PwmMap(cfg')], wanted')
      BY <3>1, <3>3
    <3> QED BY <1>1, <3>1, <3>2, <3>4 DEF Promising, ToBeStored, HalfStored, FullyStored, ReadSteps, Matches
  <2>2. CASE Step("clear_ee", "reset_setup")
    <3>1. /\ pc = "clear_ee" /\ pc' = "reset_setup" /\ UNCHANGED <<wanted, op>>
          /\ ee' = Overwritten(<<255, 255>>, EeSize)
      BY <1>9, <2>2 DEF WriteEe, WriteData, Step, history
    <3>2. wanted = Empty /\ op # "scan"
      BY <1>1, <3>1 DEF ToBeStored, FullyStored, ReadSteps
    <3>3. ~ConfigValid(ee')
      BY <1>1, <3>1, Cleared
    <3> QED BY <1>1, <3>1, <3>2, <3>3 DEF Promising, ToBeStored, HalfStored, FullyStored, ReadSteps
  <2> QED BY <1>9, <2>1, <2>2 DEF WriteEe
<1>10. CASE SetChannelMap
  <2>1. /\ pc = "set_map" /\ pc' = "store" /\ ~gone /\ UNCHANGED <<ee, wanted, op>>
        /\ live' = [live EXCEPT !.map = PwmMap(cfg)]
    BY <1>10 DEF SetChannelMap, Step, history
  <2>2. Matches(ee, [live EXCEPT !.map = PwmMap(cfg)], wanted) /\ op # "scan"
    BY <1>1, <2>1 DEF HalfStored, FullyStored, ReadSteps
  <2>3. Matches(ee', live', wanted')
    BY <2>1, <2>2
  <2> QED BY <1>1, <2>1, <2>2, <2>3 DEF Promising, ToBeStored, HalfStored, FullyStored, ReadSteps, Matches
<1>11. CASE StoreRequest
  <2>1. /\ pc = "store" /\ pc' = "reset_pwm" /\ ~gone /\ UNCHANGED <<ee, wanted, op>>
        /\ stored' = live
    BY <1>11 DEF StoreRequest, Step, history
  <2>2. Matches(ee, live, wanted) /\ op # "scan"
    BY <1>1, <2>1 DEF HalfStored, FullyStored, ReadSteps
  <2>3. Matches(ee', stored', wanted') /\ op' # "scan"
    BY <2>1, <2>2
  <2>4. pc' \in ReadSteps
    BY <2>1 DEF ReadSteps
  <2> QED BY <1>1, <2>3, <2>4, WhileReading
<1>12. CASE ResetRequest
  <2>1. pc = "reset_setup" /\ pc' = "reset_pwm" /\ UNCHANGED <<ee, wanted, op>>
    BY <1>12 DEF ResetRequest, Step, history
  <2>2. ~ConfigValid(ee) /\ wanted = Empty /\ op # "scan"
    BY <1>1, <2>1 DEF ToBeStored, HalfStored, FullyStored, ReadSteps
  <2>3. Matches(ee', stored', wanted') /\ op' # "scan"
    BY <2>1, <2>2, ClearedMatches
  <2>4. pc' \in ReadSteps
    BY <2>1 DEF ReadSteps
  <2> QED BY <1>1, <2>3, <2>4, WhileReading
<1>13. CASE ReadReset \/ ReadPwm \/ ReadEe
  <2>1. /\ pc \in ReadSteps /\ pc' \in ReadSteps
        /\ UNCHANGED <<ee, stored, wanted, promise, op>>
    BY <1>13 DEF ReadReset, ReadPwm, ReadEe, Step, history, devices, ReadSteps
  <2>2. /\ op # "scan" => Matches(ee, stored, wanted)
        /\ op = "scan" => promise = None \/ Matches(ee, stored, promise)
    BY <1>1, <2>1 DEF FullyStored
  <2>3. /\ op' # "scan" => Matches(ee', stored', wanted')
        /\ op' = "scan" => promise' = None \/ Matches(ee', stored', promise')
    BY <2>1, <2>2
  <2> QED BY <1>1, <2>1, <2>3, WhileReading
<1>14. CASE ReadMap
  <2>1. /\ pc \in ReadSteps /\ pc' = "idle" /\ UNCHANGED <<ee, stored>>
        /\ promise' = IF op = "scan" THEN promise ELSE wanted
    BY <1>14 DEF ReadMap, devices, ReadSteps
  <2>2. /\ op # "scan" => Matches(ee, stored, wanted)
        /\ op = "scan" => promise = None \/ Matches(ee, stored, promise)
    BY <1>1, <2>1 DEF FullyStored
  <2>3. promise' = None \/ Matches(ee', stored', promise')
    BY <2>1, <2>2
  <2> QED BY <1>1, <2>1, <2>3, WhileIdle
<1>15. CASE Failure
  <2>1. pc' = "idle" /\ promise' = None
    BY <1>15 DEF Failure, Fails, Raise
  <2> QED BY <1>1, <2>1, WhileIdle
<1>16. CASE ScanFailure
  <2>1. op = "scan" /\ pc' = "idle" /\ UNCHANGED <<ee, stored, promise>>
    BY <1>16 DEF ScanFailure, Raise
  <2>2. promise = None \/ Matches(ee, stored, promise)
    BY <1>1, <2>1 DEF FullyStored
  <2>3. promise' = None \/ Matches(ee', stored', promise')
    BY <2>1, <2>2
  <2> QED BY <1>1, <2>1, <2>3, WhileIdle
<1>17. CASE PowerLoss
  <2>1. gone' = TRUE /\ UNCHANGED <<ee, stored, pc, op, wanted, promise>>
    BY <1>17 DEF PowerLoss
  <2>2. ToBeStored' /\ HalfStored'
    BY <1>1, <2>1 DEF ToBeStored, HalfStored
  <2>3. FullyStored'
    BY <1>1, <2>1 DEF FullyStored, Matches
  <2> QED BY <1>1, <2>2, <2>3 DEF Promising
<1>18. CASE UNCHANGED vars
  <2>1. UNCHANGED <<ee, live, stored, gone, cfg, pc, op, wanted, promise>>
    BY <1>18 DEF vars, devices, history
  <2>2. ToBeStored' /\ HalfStored' /\ FullyStored'
    BY <1>1, <2>1 DEF ToBeStored, HalfStored, FullyStored, Matches, RestoredSetup, SetupWithFreq
  <2> QED BY <1>1, <2>2 DEF Promising
<1> QED BY <1>2, <1>3, <1>4, <1>5, <1>6, <1>7, <1>8, <1>9, <1>10, <1>11, <1>12, <1>13, <1>14,
           <1>15, <1>16, <1>17, <1>18 DEF Next

\* StoredIsPromised holds for any ports, mappings, layouts, frequencies, cuts, failures and
\* losses of power in every behaviour in which no configuration is written that has two
\* ports with the same key and different mappings.
THEOREM StoredIsRead == Spec /\ []KeysTellApart => []StoredIsPromised
<1>1. Promising /\ KeysTellApart /\ [Next]_vars => Promising'
  BY PromisingNext
<1>2. Promising => StoredIsPromised
  BY DEF Promising, FullyStored, Matches, StoredIsPromised
<1> QED BY PromisingInit, <1>1, <1>2, PTL DEF Spec

(***************************************************************************)
(* The frequency                                                           *)
(***************************************************************************)

\* A value of MAX_PWM_VAL that comes from a frequency.
LegalMax(m) == \E f \in MIN_PWM_FREQ .. MAX_PWM_FREQ : m = MaxPwm(f)

LEMMA DivFacts ==
  /\ \A x \in Nat, d \in Nat \ {0} : /\ x \div d \in Nat /\ d * (x \div d) <= x
                                     /\ x < d * (x \div d) + d
OBVIOUS

LEMMA DivUnique ==
  ASSUME NEW x \in Nat, NEW d \in Nat \ {0}, NEW q \in Nat, d * q <= x, x < d * q + d
  PROVE  x \div d = q
<1>1. \A k \in Nat : d * k <= x /\ x < d * k + d => k = q
  <2> TAKE k \in Nat
  <2>1. CASE k < q
    <3>1. \A u, v, w \in Nat : u < v => w * u + w <= w * v
      OBVIOUS
    <3> QED BY <2>1, <3>1
  <2>2. CASE k > q
    <3>1. \A u, v, w \in Nat : u < v => w * u + w <= w * v
      OBVIOUS
    <3> QED BY <2>2, <3>1
  <2> QED BY <2>1, <2>2
<1> QED BY <1>1, DivFacts

\* get_pwm_freq and set_pwm_freq: the frequency that is read back from a maximum gives this
\* maximum again, in spite of the two roundings.
LEMMA FreqReadBack ==
  ASSUME NEW m, LegalMax(m)
  PROVE  MaxPwm(GetFreq(m)) = m
<1> DEFINE X == 16000000
<1>1. PICK f \in MIN_PWM_FREQ .. MAX_PWM_FREQ : m = MaxPwm(f)
  BY DEF LegalMax
<1>2. f \in Nat \ {0} /\ 144 * f \in Nat \ {0} /\ X \in Nat /\ 144 * f < X
  BY SMT DEF MIN_PWM_FREQ, MAX_PWM_FREQ
<1> DEFINE n == X \div (144 * f)
<1>3. m = n - 1 /\ GetFreq(m) = X \div (144 * (m + 1)) /\ \A g : MaxPwm(g) = X \div (144 * g) - 1
  BY SMT, <1>1 DEF MaxPwm, GetFreq
<1> HIDE DEF X
<1>4. n \in Nat /\ (144 * f) * n <= X /\ X < (144 * f) * n + 144 * f
  BY Zenon, <1>2, DivFacts
<1> HIDE DEF n
<1>5. n # 0
  <2>1. (144 * f) * 0 = 0
    BY <1>2
  <2> QED BY <1>2, <1>4, <2>1
<1>6. m + 1 = n /\ 144 * n \in Nat \ {0}
  BY <1>3, <1>4, <1>5
<1> DEFINE g == X \div (144 * n)
<1>7. g \in Nat /\ (144 * n) * g <= X /\ X < (144 * n) * g + 144 * n
  <2>1. \A d \in Nat \ {0} : X \div d \in Nat /\ d * (X \div d) <= X /\ X < d * (X \div d) + d
    BY Zenon, <1>2, DivFacts
  <2> QED BY Zenon, <1>6, <2>1
<1>8. GetFreq(m) = g
  BY <1>3, <1>6
<1> HIDE DEF g
<1>9. g >= f
  <2>1. (144 * n) * g + 144 * n = (144 * n) * (g + 1)
    BY <1>4, <1>7
  <2>2. (144 * n) * f = (144 * f) * n
    BY <1>2, <1>4
  <2>3. \A a, b, c \in Nat : a <= b => c * a <= c * b
    OBVIOUS
  <2>4. g + 1 <= f => (144 * n) * (g + 1) <= (144 * n) * f
    BY <1>2, <1>6, <1>7, <2>3
  <2> QED BY <1>2, <1>4, <1>7, <2>1, <2>2, <2>4
<1>10. (144 * g) * n <= X
  <2>1. (144 * g) * n = (144 * n) * g
    BY <1>4, <1>7
  <2> QED BY <1>7, <2>1
<1>11. X < (144 * g) * n + 144 * g
  <2>1. (144 * f) * n + 144 * f <= (144 * g) * n + 144 * g
    <3>1. \A a, b, c \in Nat : a <= b => (144 * a) * c + 144 * a <= (144 * b) * c + 144 * b
      OBVIOUS
    <3> QED BY <1>2, <1>4, <1>7, <1>9, <3>1
  <2> QED BY <1>2, <1>4, <1>7, <2>1
<1>12. X \div (144 * g) = n
  <2>1. 144 * g \in Nat \ {0}
    BY <1>2, <1>7, <1>9
  <2> QED BY <1>2, <1>4, <1>10, <1>11, <2>1, DivUnique
<1> QED BY <1>3, <1>8, <1>12

(***************************************************************************)
(* What the dialog shows, and the mapping of the user                      *)
(***************************************************************************)

\* The objects have the attributes that are assigned to.
IsConfig(c) ==
  c = [channelMap |-> c.channelMap, layout |-> c.layout, pwmRes |-> c.pwmRes,
       pwmFreq |-> c.pwmFreq, commonBright |-> c.commonBright]
IsSetup(s) == s = [map |-> s.map, max |-> s.max, bright |-> s.bright]

Shapes ==
  /\ cfg # None \/ pc # "idle" => IsConfig(cfg)
  /\ file # None => IsConfig(file)
  /\ IsSetup(live) /\ IsSetup(stored)

\* The PWM controller only gets maxima that come from a frequency.
MaxIsLegal == LegalMax(live.max) /\ LegalMax(stored.max)

\* The configuration shows what the controller has.
Agree(c, l) == c.pwmRes = l.max /\ MaxPwm(c.pwmFreq) = l.max /\ c.commonBright = l.bright
AgreesWhileReading == ~gone /\ pc \in {"read_ee", "read_map"} => Agree(cfg, live)
AgreesAtRest == pc = "idle" /\ ~doubt /\ cfg # None => Agree(cfg, live)

\* The mapping that is being stored, or could not be, is the one of the user.
SameMap(c, w) ==
  \A p \in Ports :
    w.channelMap[p] = IF c.channelMap[p] = None THEN None
                      ELSE [c.channelMap[p] EXCEPT !.whiteCal = w.channelMap[p].whiteCal]
MapIsKept ==
  op = "store" /\ (pc # "idle" \/ (result = "raised" /\ cfg # None)) => SameMap(cfg, wanted)

Kept == Shapes /\ MaxIsLegal /\ AgreesWhileReading /\ AgreesAtRest /\ MapIsKept

\* Objects that differ in one attribute.
LEMMA ConfigChange ==
  ASSUME NEW c, IsConfig(c), NEW a
  PROVE  /\ [c EXCEPT !.channelMap = a] =
              [channelMap |-> a, layout |-> c.layout, pwmRes |-> c.pwmRes,
               pwmFreq |-> c.pwmFreq, commonBright |-> c.commonBright]
         /\ [c EXCEPT !.layout = a] =
              [channelMap |-> c.channelMap, layout |-> a, pwmRes |-> c.pwmRes,
               pwmFreq |-> c.pwmFreq, commonBright |-> c.commonBright]
         /\ [c EXCEPT !.pwmRes = a] =
              [channelMap |-> c.channelMap, layout |-> c.layout, pwmRes |-> a,
               pwmFreq |-> c.pwmFreq, commonBright |-> c.commonBright]
         /\ [c EXCEPT !.pwmFreq = a] =
              [channelMap |-> c.channelMap, layout |-> c.layout, pwmRes |-> c.pwmRes,
               pwmFreq |-> a, commonBright |-> c.commonBright]
         /\ [c EXCEPT !.commonBright = a] =
              [channelMap |-> c.channelMap, layout |-> c.layout, pwmRes |-> c.pwmRes,
               pwmFreq |-> c.pwmFreq, commonBright |-> a]
<1>1. PICK m, l, r, f, v :
        c = [channelMap |-> m, layout |-> l, pwmRes |-> r, pwmFreq |-> f, commonBright |-> v]
  BY DEF IsConfig
<1>2. /\ c.channelMap = m /\ c.layout = l /\ c.pwmRes = r /\ c.pwmFreq = f /\ c.commonBright = v
  BY <1>1
<1>3. [c EXCEPT !.channelMap = a] =
        [channelMap |-> a, layout |-> l, pwmRes |-> r, pwmFreq |-> f, commonBright |-> v]
  BY SMT, <1>1
<1>4. [c EXCEPT !.layout = a] =
        [channelMap |-> m, layout |-> a, pwmRes |-> r, pwmFreq |-> f, commonBright |-> v]
  BY SMT, <1>1
<1>5. [c EXCEPT !.pwmRes = a] =
        [channelMap |-> m, layout |-> l, pwmRes |-> a, pwmFreq |-> f, commonBright |-> v]
  BY SMT, <1>1
<1>6. [c EXCEPT !.pwmFreq = a] =
        [channelMap |-> m, layout |-> l, pwmRes |-> r, pwmFreq |-> a, commonBright |-> v]
  BY SMT, <1>1
<1>7. [c EXCEPT !.commonBright = a] =
        [channelMap |-> m, layout |-> l, pwmRes |-> r, pwmFreq |-> f, commonBright |-> a]
  BY SMT, <1>1
<1> QED BY Zenon, <1>2, <1>3, <1>4, <1>5, <1>6, <1>7

\* An object with all the attributes is a configuration that has them.
LEMMA ConfigFields ==
  ASSUME NEW c, NEW m, NEW l, NEW r, NEW f, NEW v,
         c = [channelMap |-> m, layout |-> l, pwmRes |-> r, pwmFreq |-> f, commonBright |-> v]
  PROVE  /\ IsConfig(c) /\ c.channelMap = m /\ c.layout = l /\ c.pwmRes = r
         /\ c.pwmFreq = f /\ c.commonBright = v
BY DEF IsConfig

\* setPWMFreq: the frequency and the resolution that was read.
LEMMA FreqChange ==
  ASSUME NEW c, IsConfig(c), NEW a, NEW b
  PROVE  [c EXCEPT !.pwmFreq = a, !.pwmRes = b] =
           [channelMap |-> c.channelMap, layout |-> c.layout, pwmRes |-> b,
            pwmFreq |-> a, commonBright |-> c.commonBright]
<1> DEFINE d == [c EXCEPT !.pwmFreq = a]
<1>1. [c EXCEPT !.pwmFreq = a, !.pwmRes = b] = [d EXCEPT !.pwmRes = b]
  BY SMT
<1>2. d = [channelMap |-> c.channelMap, layout |-> c.layout, pwmRes |-> c.pwmRes,
           pwmFreq |-> a, commonBright |-> c.commonBright]
  BY Zenon, ConfigChange
<1> HIDE DEF d
<1> QED BY SMT, <1>1, <1>2

\* read: the values of the PWM controller.
LEMMA PwmChange ==
  ASSUME NEW c, IsConfig(c)
  PROVE  WithPwm(c) =
           [channelMap |-> c.channelMap, layout |-> c.layout, pwmRes |-> live.max,
            pwmFreq |-> GetFreq(live.max), commonBright |-> live.bright]
<1> DEFINE d == [c EXCEPT !.pwmRes = live.max]
           e == [d EXCEPT !.pwmFreq = GetFreq(live.max)]
<1>1. WithPwm(c) = [e EXCEPT !.commonBright = live.bright]
  BY SMT DEF WithPwm
<1>2. d = [channelMap |-> c.channelMap, layout |-> c.layout, pwmRes |-> live.max,
           pwmFreq |-> c.pwmFreq, commonBright |-> c.commonBright]
  BY Zenon, ConfigChange
<1> HIDE DEF d
<1>3. e = [channelMap |-> c.channelMap, layout |-> c.layout, pwmRes |-> live.max,
           pwmFreq |-> GetFreq(live.max), commonBright |-> c.commonBright]
  BY SMT, <1>2
<1> HIDE DEF e
<1> QED BY SMT, <1>1, <1>3

\* The setup of the PWM controller after one value was set.
LEMMA SetupChange ==
  ASSUME NEW s, IsSetup(s), NEW a, NEW t
  PROVE  /\ t = [s EXCEPT !.map = a] => IsSetup(t) /\ t.max = s.max /\ t.bright = s.bright
         /\ t = [s EXCEPT !.bright = a] => IsSetup(t) /\ t.max = s.max /\ t.bright = a
         /\ t = [s EXCEPT !.max = a] => IsSetup(t) /\ t.max = a /\ t.bright = s.bright
<1>1. PICK m, x, v : s = [map |-> m, max |-> x, bright |-> v]
  BY DEF IsSetup
<1>2. \A u, w, z : t = [map |-> u, max |-> w, bright |-> z]
                     => IsSetup(t) /\ t.max = w /\ t.bright = z
  BY DEF IsSetup
<1>3. [s EXCEPT !.map = a] = [map |-> a, max |-> x, bright |-> v] /\ s.max = x /\ s.bright = v
  BY SMT, <1>1
<1>4. [s EXCEPT !.bright = a] = [map |-> m, max |-> x, bright |-> a]
  BY SMT, <1>1
<1>5. [s EXCEPT !.max = a] = [map |-> m, max |-> a, bright |-> v]
  BY SMT, <1>1
<1>6. t = [s EXCEPT !.map = a] => IsSetup(t) /\ t.max = s.max /\ t.bright = s.bright
  BY <1>2, <1>3
<1>7. t = [s EXCEPT !.bright = a] => IsSetup(t) /\ t.max = s.max /\ t.bright = a
  BY <1>2, <1>3, <1>4
<1>8. t = [s EXCEPT !.max = a] => IsSetup(t) /\ t.max = a /\ t.bright = s.bright
  BY <1>2, <1>3, <1>5
<1> QED BY <1>6, <1>7, <1>8

\* set_pwm_freq: whatever frequency is asked for, the maximum comes from a frequency.
LEMMA FreqSetup ==
  ASSUME Shapes, MaxIsLegal, NEW f
  PROVE  /\ IsSetup(SetupWithFreq(f)) /\ LegalMax(SetupWithFreq(f).max)
         /\ SetupWithFreq(f).bright = live.bright
         /\ f \in MIN_PWM_FREQ .. MAX_PWM_FREQ => SetupWithFreq(f).max = MaxPwm(f)
<1>1. CASE f \in MIN_PWM_FREQ .. MAX_PWM_FREQ
  <2>1. SetupWithFreq(f) = [live EXCEPT !.max = MaxPwm(f)]
    BY Zenon, <1>1 DEF SetupWithFreq
  <2>2. LegalMax(MaxPwm(f))
    BY Zenon, <1>1 DEF LegalMax
  <2>3. IsSetup(live)
    BY DEF Shapes
  <2>4. /\ IsSetup(SetupWithFreq(f)) /\ SetupWithFreq(f).max = MaxPwm(f)
        /\ SetupWithFreq(f).bright = live.bright
    <3> DEFINE t == SetupWithFreq(f)
    <3>1. t = [live EXCEPT !.max = MaxPwm(f)]
      BY <2>1
    <3> HIDE DEF t
    <3>2. IsSetup(t) /\ t.max = MaxPwm(f) /\ t.bright = live.bright
      BY <2>3, <3>1, SetupChange
    <3> QED BY Zenon, <3>2 DEF t
  <2> QED BY Zenon, <1>1, <2>2, <2>4
<1>2. CASE f \notin MIN_PWM_FREQ .. MAX_PWM_FREQ
  BY Zenon, <1>2 DEF SetupWithFreq, Shapes, MaxIsLegal
<1> QED BY Zenon, <1>1, <1>2

LEMMA DefaultIsLegal == IsSetup(DefaultSetup) /\ LegalMax(DefaultSetup.max)
<1>1. DefaultSetup.max = MaxPwm(100) /\ IsSetup(DefaultSetup)
  BY SMT DEF DefaultSetup, IsSetup
<1>2. 100 \in MIN_PWM_FREQ .. MAX_PWM_FREQ
  BY SMT DEF MIN_PWM_FREQ, MAX_PWM_FREQ
<1> QED BY <1>1, <1>2 DEF LegalMax

LEMMA KeptInit == Init => Kept
<1> SUFFICES ASSUME Init PROVE Kept
  OBVIOUS
<1>1. Shapes /\ MaxIsLegal
  BY DefaultIsLegal DEF Init, Shapes, MaxIsLegal
<1>2. AgreesWhileReading /\ AgreesAtRest /\ MapIsKept
  BY DEF Init, AgreesWhileReading, AgreesAtRest, MapIsKept
<1> QED BY <1>1, <1>2 DEF Kept

\* A step that leaves the controller, the configuration and the operation alone.
LEMMA KeptSame ==
  ASSUME Kept, UNCHANGED <<live, stored, gone, cfg, file, pc, op, result, doubt, wanted>>
  PROVE  Kept'
BY DEF Kept, Shapes, MaxIsLegal, AgreesWhileReading, AgreesAtRest, MapIsKept

\* The user edits the mapping.
LEMMA KeptEditMap == ASSUME Kept, EditMap PROVE Kept'
<1>1. /\ pc = "idle" /\ cfg # None /\ op' = "none"
      /\ UNCHANGED <<live, stored, gone, file, pc, result, doubt, wanted>>
  BY DEF EditMap, UserActs, devices
<1>2. PICK m : cfg' = [cfg EXCEPT !.channelMap = m]
  BY Zenon DEF EditMap
<1>3. IsConfig(cfg)
  BY <1>1 DEF Kept, Shapes
<1>4. cfg' = [channelMap |-> m, layout |-> cfg.layout, pwmRes |-> cfg.pwmRes,
              pwmFreq |-> cfg.pwmFreq, commonBright |-> cfg.commonBright]
  BY Zenon, <1>2, <1>3, ConfigChange
<1>5. /\ IsConfig(cfg') /\ cfg'.pwmRes = cfg.pwmRes /\ cfg'.pwmFreq = cfg.pwmFreq
      /\ cfg'.commonBright = cfg.commonBright
  BY <1>4, ConfigFields
<1>6. Shapes' /\ MaxIsLegal'
  BY <1>1, <1>5 DEF Kept, Shapes, MaxIsLegal
<1>7. AgreesWhileReading' /\ MapIsKept'
  BY <1>1 DEF AgreesWhileReading, MapIsKept
<1>8. AgreesAtRest'
  BY <1>1, <1>5 DEF Kept, AgreesAtRest, Agree
<1> QED BY <1>6, <1>7, <1>8 DEF Kept

\* The user sets a value of the PWM controller: it is set and shown, or in doubt.
LEMMA KeptSet ==
  ASSUME Kept, pc = "idle", cfg # None, op' = "none",
         UNCHANGED <<stored, gone, file, pc, wanted>>,
         IsConfig(cfg'), IsSetup(live'), LegalMax(live'.max),
         doubt' # TRUE => Agree(cfg', live')
  PROVE  Kept'
<1>1. Shapes' /\ MaxIsLegal'
  BY DEF Kept, Shapes, MaxIsLegal
<1>2. AgreesWhileReading' /\ MapIsKept'
  BY DEF AgreesWhileReading, MapIsKept
<1>3. AgreesAtRest'
  BY DEF Kept, AgreesAtRest
<1> QED BY <1>1, <1>2, <1>3 DEF Kept

LEMMA KeptSetPWMFreq == ASSUME Kept, SetPWMFreq PROVE Kept'
<1>1. /\ pc = "idle" /\ cfg # None /\ op' = "none"
      /\ UNCHANGED <<stored, gone, file, pc, wanted>>
  BY DEF SetPWMFreq, UserActs
<1>2. PICK f \in Freqs :
        \/ /\ Sets(SetupWithFreq(f))
           /\ cfg' = [cfg EXCEPT !.pwmFreq = f, !.pwmRes = NewRes]
           /\ result' = "ok" /\ UNCHANGED doubt
        \/ /\ MaySet(SetupWithFreq(f))
           /\ result' = "raised" /\ doubt' = TRUE /\ UNCHANGED cfg
  BY Zenon DEF SetPWMFreq
<1>3. IsConfig(cfg) /\ IsSetup(live) /\ LegalMax(live.max) /\ Shapes /\ MaxIsLegal
  BY <1>1 DEF Kept, Shapes, MaxIsLegal
<1>4. /\ IsSetup(SetupWithFreq(f)) /\ LegalMax(SetupWithFreq(f).max)
      /\ SetupWithFreq(f).bright = live.bright /\ SetupWithFreq(f).max = MaxPwm(f)
  BY <1>3, FreqSetup, FreqAssumption
<1>5. CASE /\ Sets(SetupWithFreq(f))
           /\ cfg' = [cfg EXCEPT !.pwmFreq = f, !.pwmRes = NewRes]
           /\ result' = "ok" /\ UNCHANGED doubt
  <2>1. live' = SetupWithFreq(f)
    BY <1>5 DEF Sets
  <2>2. cfg' = [channelMap |-> cfg.channelMap, layout |-> cfg.layout, pwmRes |-> live'.max,
                pwmFreq |-> f, commonBright |-> cfg.commonBright]
    BY Zenon, <1>3, <1>5, FreqChange DEF NewRes
  <2>3. /\ IsConfig(cfg') /\ cfg'.pwmRes = live'.max /\ cfg'.pwmFreq = f
        /\ cfg'.commonBright = cfg.commonBright
    BY <2>2, ConfigFields
  <2>4. doubt # TRUE => cfg.commonBright = live.bright
    BY <1>1 DEF Kept, AgreesAtRest, Agree
  <2>5. doubt' # TRUE => Agree(cfg', live')
    BY <1>4, <1>5, <2>1, <2>3, <2>4 DEF Agree
  <2> QED BY <1>1, <1>4, <2>1, <2>3, <2>5, KeptSet
<1>6. CASE /\ MaySet(SetupWithFreq(f))
           /\ result' = "raised" /\ doubt' = TRUE /\ UNCHANGED cfg
  <2>1. IsSetup(live') /\ LegalMax(live'.max)
    BY <1>3, <1>4, <1>6 DEF MaySet, Sets
  <2> QED BY <1>1, <1>3, <1>6, <2>1, KeptSet
<1> QED BY <1>2, <1>5, <1>6

LEMMA KeptSetCommonBright == ASSUME Kept, SetCommonBright PROVE Kept'
<1>1. /\ pc = "idle" /\ cfg # None /\ op' = "none"
      /\ UNCHANGED <<stored, gone, file, pc, wanted>>
  BY DEF SetCommonBright, UserActs
<1>2. PICK v \in Brights :
        \/ /\ Sets([live EXCEPT !.bright = v])
           /\ cfg' = [cfg EXCEPT !.commonBright = v]
           /\ result' = "ok" /\ UNCHANGED doubt
        \/ /\ MaySet([live EXCEPT !.bright = v])
           /\ result' = "raised" /\ doubt' = TRUE /\ UNCHANGED cfg
  BY Zenon DEF SetCommonBright
<1> DEFINE new == [live EXCEPT !.bright = v]
<1>3. IsConfig(cfg) /\ IsSetup(live) /\ LegalMax(live.max)
  BY <1>1 DEF Kept, Shapes, MaxIsLegal
<1>4. IsSetup(new) /\ new.max = live.max /\ new.bright = v
  BY <1>3, SetupChange
<1>5. CASE /\ Sets(new)
           /\ cfg' = [cfg EXCEPT !.commonBright = v]
           /\ result' = "ok" /\ UNCHANGED doubt
  <2>1. live' = new
    BY <1>5 DEF Sets
  <2>2. cfg' = [channelMap |-> cfg.channelMap, layout |-> cfg.layout, pwmRes |-> cfg.pwmRes,
                pwmFreq |-> cfg.pwmFreq, commonBright |-> v]
    BY Zenon, <1>3, <1>5, ConfigChange
  <2>3. /\ IsConfig(cfg') /\ cfg'.pwmRes = cfg.pwmRes /\ cfg'.pwmFreq = cfg.pwmFreq
        /\ cfg'.commonBright = v
    BY <2>2, ConfigFields
  <2>4. doubt # TRUE => cfg.pwmRes = live.max /\ MaxPwm(cfg.pwmFreq) = live.max
    BY <1>1 DEF Kept, AgreesAtRest, Agree
  <2> HIDE DEF new
  <2>5. doubt' # TRUE => Agree(cfg', live')
    BY <1>4, <1>5, <2>1, <2>3, <2>4 DEF Agree
  <2>6. IsSetup(live') /\ LegalMax(live'.max)
    BY <1>3, <1>4, <2>1
  <2> QED BY <1>1, <2>3, <2>5, <2>6, KeptSet
<1>6. CASE /\ MaySet(new)
           /\ result' = "raised" /\ doubt' = TRUE /\ UNCHANGED cfg
  <2> HIDE DEF new
  <2>1. IsSetup(live') /\ LegalMax(live'.max)
    BY <1>3, <1>4, <1>6 DEF MaySet, Sets
  <2> QED BY <1>1, <1>3, <1>6, <2>1, KeptSet
<1> QED BY Zenon, <1>2, <1>5, <1>6

\* "Backup": the layout of the dialog gets into the configuration and the file.
LEMMA KeptBackup == ASSUME Kept, BackupSetup PROVE Kept'
<1>1. /\ pc = "idle" /\ cfg # None /\ cfg' = [cfg EXCEPT !.layout = layout] /\ file' = cfg'
      /\ UNCHANGED <<live, stored, gone, pc, op, result, doubt, wanted>>
  BY DEF BackupSetup, UserActs, devices
<1>2. IsConfig(cfg)
  BY <1>1 DEF Kept, Shapes
<1>3. cfg' = [channelMap |-> cfg.channelMap, layout |-> layout, pwmRes |-> cfg.pwmRes,
              pwmFreq |-> cfg.pwmFreq, commonBright |-> cfg.commonBright]
  BY Zenon, <1>1, <1>2, ConfigChange
<1>4. /\ IsConfig(cfg') /\ cfg'.pwmRes = cfg.pwmRes /\ cfg'.pwmFreq = cfg.pwmFreq
      /\ cfg'.commonBright = cfg.commonBright /\ cfg'.channelMap = cfg.channelMap
  BY <1>3, ConfigFields
<1>5. Shapes' /\ MaxIsLegal' /\ AgreesWhileReading'
  BY <1>1, <1>4 DEF Kept, Shapes, MaxIsLegal, AgreesWhileReading
<1>6. AgreesAtRest'
  BY <1>1, <1>4 DEF Kept, AgreesAtRest, Agree
<1>7. MapIsKept'
  BY <1>1, <1>4 DEF Kept, MapIsKept, SameMap
<1> QED BY <1>5, <1>6, <1>7 DEF Kept

\* An operation begins: with a configuration, and for a store with what is to be stored.
LEMMA KeptBegins ==
  ASSUME Kept, UNCHANGED <<live, stored, file>>, IsConfig(cfg'),
         pc' \in {"write_ee", "clear_ee", "set_bright", "reset_pwm"},
         op' = "store" => SameMap(cfg', wanted')
  PROVE  Kept'
<1>1. Shapes' /\ MaxIsLegal'
  BY DEF Kept, Shapes, MaxIsLegal
<1>2. AgreesWhileReading' /\ AgreesAtRest'
  BY DEF AgreesWhileReading, AgreesAtRest
<1> QED BY <1>1, <1>2 DEF Kept, MapIsKept

LEMMA KeptStoreSetup == ASSUME Kept, StoreSetup PROVE Kept'
<1>1. /\ cfg # None /\ cfg' = [cfg EXCEPT !.layout = layout] /\ pc' = "write_ee"
      /\ wanted' = Storable(cfg', live.max)
      /\ UNCHANGED <<live, stored, file>>
  BY DEF StoreSetup, Begin, devices
<1>2. IsConfig(cfg)
  BY <1>1 DEF Kept, Shapes
<1>3. cfg' = [channelMap |-> cfg.channelMap, layout |-> layout, pwmRes |-> cfg.pwmRes,
              pwmFreq |-> cfg.pwmFreq, commonBright |-> cfg.commonBright]
  BY Zenon, <1>1, <1>2, ConfigChange
<1>4. IsConfig(cfg')
  BY <1>3, ConfigFields
<1>5. SameMap(cfg', wanted')
  <2> DEFINE w(p) == IF cfg'.channelMap[p] = None THEN None
                     ELSE [cfg'.channelMap[p] EXCEPT !.whiteCal =
                             AtMost(AtMost(cfg'.channelMap[p].whiteCal, cfg'.pwmRes), live.max)]
  <2>1. wanted'.channelMap = [p \in Ports |-> w(p)]
    BY <1>1 DEF Storable
  <2>2. \A c, x : [c EXCEPT !.whiteCal = x] = [c EXCEPT !.whiteCal = [c EXCEPT !.whiteCal = x].whiteCal]
    BY SMT
  <2>3. \A p \in Ports : wanted'.channelMap[p] = w(p)
    BY <2>1
  <2>4. \A p \in Ports : cfg'.channelMap[p] # None =>
          w(p) = [cfg'.channelMap[p] EXCEPT !.whiteCal = w(p).whiteCal]
    BY <2>2
  <2>5. \A p \in Ports : cfg'.channelMap[p] = None => w(p) = None
    OBVIOUS
  <2> HIDE DEF w
  <2> QED BY Zenon, <2>3, <2>4, <2>5 DEF SameMap
<1> QED BY <1>1, <1>4, <1>5, KeptBegins

LEMMA KeptResetSetup == ASSUME Kept, ResetSetup PROVE Kept'
<1>1. /\ cfg # None /\ pc' = "clear_ee" /\ op' = "reset"
      /\ UNCHANGED <<live, stored, file, cfg>>
  BY DEF ResetSetup, Begin, devices
<1> QED BY <1>1, KeptBegins DEF Kept, Shapes

LEMMA KeptRestoreSetup == ASSUME Kept, RestoreSetup PROVE Kept'
<1>1. /\ file # None /\ cfg' = file /\ pc' = "set_bright" /\ op' = "restore"
      /\ UNCHANGED <<live, stored, file>>
  BY DEF RestoreSetup, Begin, devices
<1> QED BY <1>1, KeptBegins DEF Kept, Shapes

LEMMA KeptScan == ASSUME Kept, Scan PROVE Kept'
<1>1. /\ cfg' = [channelMap |-> Empty.channelMap, layout |-> DefaultLayout,
                 pwmRes |-> 0, pwmFreq |-> 0, commonBright |-> 0]
      /\ pc' = "reset_pwm" /\ op' = "scan" /\ UNCHANGED <<live, stored, file>>
  BY Zenon DEF Scan, Begin, devices
<1>2. IsConfig(cfg')
  BY <1>1, ConfigFields
<1> QED BY <1>1, <1>2, KeptBegins

\* A request of an operation that leaves the configuration alone.
LEMMA KeptRequest ==
  ASSUME Kept, pc # "idle", pc' \notin {"idle", "read_ee", "read_map"},
         UNCHANGED <<gone, file, op, wanted, cfg>>,
         IsSetup(live'), LegalMax(live'.max), IsSetup(stored'), LegalMax(stored'.max)
  PROVE  Kept'
<1>1. Shapes' /\ MaxIsLegal'
  BY DEF Kept, Shapes, MaxIsLegal
<1>2. AgreesWhileReading' /\ AgreesAtRest'
  BY DEF AgreesWhileReading, AgreesAtRest
<1>3. MapIsKept'
  BY DEF Kept, MapIsKept
<1> QED BY <1>1, <1>2, <1>3 DEF Kept

LEMMA KeptRequests ==
  ASSUME Kept, \/ RestoreBright \/ RestoreFreq \/ WriteEe \/ SetChannelMap
               \/ StoreRequest \/ ResetRequest \/ ReadReset
  PROVE  Kept'
<1>1. /\ IsSetup(live) /\ LegalMax(live.max) /\ IsSetup(stored) /\ LegalMax(stored.max)
      /\ Shapes /\ MaxIsLegal
  BY DEF Kept, Shapes, MaxIsLegal
<1>2. CASE RestoreBright
  <2>1. /\ pc = "set_bright" /\ pc' = "set_freq" /\ live' = [live EXCEPT !.bright = cfg.commonBright]
        /\ UNCHANGED <<gone, file, op, wanted, cfg, stored>>
    BY <1>2 DEF RestoreBright, Step, history
  <2>2. IsSetup(live') /\ live'.max = live.max
    BY <1>1, <2>1, SetupChange
  <2> QED BY <1>1, <2>1, <2>2, KeptRequest
<1>3. CASE RestoreFreq
  <2>1. /\ pc = "set_freq" /\ pc' = "write_ee" /\ live' = SetupWithFreq(cfg.pwmFreq)
        /\ UNCHANGED <<gone, file, op, wanted, cfg, stored>>
    BY <1>3 DEF RestoreFreq, RestoredSetup, Step, history
  <2>2. IsSetup(live') /\ LegalMax(live'.max)
    BY <1>1, <2>1, FreqSetup
  <2> QED BY <1>1, <2>1, <2>2, KeptRequest
<1>4. CASE WriteEe
  <2>1. /\ pc \in {"write_ee", "clear_ee"} /\ pc' \in {"set_map", "reset_setup"}
        /\ UNCHANGED <<gone, file, op, wanted, cfg, live, stored>>
    BY <1>4 DEF WriteEe, Step, history
  <2> QED BY <1>1, <2>1, KeptRequest
<1>5. CASE SetChannelMap
  <2>1. /\ pc = "set_map" /\ pc' = "store" /\ live' = [live EXCEPT !.map = PwmMap(cfg)]
        /\ UNCHANGED <<gone, file, op, wanted, cfg, stored>>
    BY <1>5 DEF SetChannelMap, Step, history
  <2>2. IsSetup(live') /\ live'.max = live.max
    BY <1>1, <2>1, SetupChange
  <2> QED BY <1>1, <2>1, <2>2, KeptRequest
<1>6. CASE StoreRequest
  <2>1. /\ pc = "store" /\ pc' = "reset_pwm" /\ stored' = live
        /\ UNCHANGED <<gone, file, op, wanted, cfg, live>>
    BY <1>6 DEF StoreRequest, Step, history
  <2> QED BY <1>1, <2>1, KeptRequest
<1>7. CASE ResetRequest
  <2>1. /\ pc = "reset_setup" /\ pc' = "reset_pwm"
        /\ live' = DefaultSetup /\ stored' = DefaultSetup
        /\ UNCHANGED <<gone, file, op, wanted, cfg>>
    BY <1>7 DEF ResetRequest, Step, history
  <2> QED BY <2>1, DefaultIsLegal, KeptRequest
<1>8. CASE ReadReset
  <2>1. /\ pc = "reset_pwm" /\ pc' = "get_pwm" /\ live' = stored
        /\ UNCHANGED <<gone, file, op, wanted, cfg, stored>>
    BY <1>8 DEF ReadReset, Step, history
  <2> QED BY <1>1, <2>1, KeptRequest
<1> QED BY <1>2, <1>3, <1>4, <1>5, <1>6, <1>7, <1>8

\* A request of read that assigns attributes: the mapping stays, and the values of the PWM
\* controller are shown from the first on.
LEMMA KeptReads ==
  ASSUME Kept, pc # "idle", pc' \in {"read_ee", "read_map"},
         UNCHANGED <<gone, file, op, wanted, live, stored>>,
         IsConfig(cfg'), cfg'.channelMap = cfg.channelMap, Agree(cfg', live)
  PROVE  Kept'
<1>1. Shapes' /\ MaxIsLegal'
  BY DEF Kept, Shapes, MaxIsLegal
<1>2. AgreesWhileReading' /\ AgreesAtRest'
  BY DEF AgreesWhileReading, AgreesAtRest
<1>3. MapIsKept'
  BY DEF Kept, MapIsKept, SameMap
<1> QED BY <1>1, <1>2, <1>3 DEF Kept

LEMMA KeptReadPwm == ASSUME Kept, ReadPwm PROVE Kept'
<1>1. /\ pc = "get_pwm" /\ pc' = "read_ee"
      /\ cfg' = [WithPwm(cfg) EXCEPT !.layout = DefaultLayout]
      /\ UNCHANGED <<gone, file, op, wanted, live, stored>>
  BY DEF ReadPwm, Step, history, devices, Blank
<1>2. IsConfig(cfg) /\ LegalMax(live.max)
  BY <1>1 DEF Kept, Shapes, MaxIsLegal
<1> DEFINE d == WithPwm(cfg)
<1>3. d = [channelMap |-> cfg.channelMap, layout |-> cfg.layout, pwmRes |-> live.max,
           pwmFreq |-> GetFreq(live.max), commonBright |-> live.bright]
  BY Zenon, <1>2, PwmChange
<1> HIDE DEF d
<1>4. cfg' = [channelMap |-> cfg.channelMap, layout |-> DefaultLayout, pwmRes |-> live.max,
              pwmFreq |-> GetFreq(live.max), commonBright |-> live.bright]
  <2>1. cfg' = [d EXCEPT !.layout = DefaultLayout]
    BY <1>1 DEF d
  <2> QED BY SMT, <1>3, <2>1
<1>5. /\ IsConfig(cfg') /\ cfg'.channelMap = cfg.channelMap /\ cfg'.pwmRes = live.max
      /\ cfg'.pwmFreq = GetFreq(live.max) /\ cfg'.commonBright = live.bright
  BY <1>4, ConfigFields
<1>6. Agree(cfg', live)
  BY <1>2, <1>5, FreqReadBack DEF Agree
<1> QED BY <1>1, <1>5, <1>6, KeptReads

LEMMA KeptReadEe == ASSUME Kept, ReadEe PROVE Kept'
<1>1. /\ pc = "read_ee" /\ ~gone /\ pc' = "read_map"
      /\ cfg' = [cfg EXCEPT !.layout = ReadLayout(ee)]
      /\ UNCHANGED <<gone, file, op, wanted, live, stored>>
  BY DEF ReadEe, Step, history, devices
<1>2. IsConfig(cfg) /\ Agree(cfg, live)
  BY <1>1 DEF Kept, Shapes, AgreesWhileReading
<1>3. cfg' = [channelMap |-> cfg.channelMap, layout |-> ReadLayout(ee), pwmRes |-> cfg.pwmRes,
              pwmFreq |-> cfg.pwmFreq, commonBright |-> cfg.commonBright]
  BY Zenon, <1>1, <1>2, ConfigChange
<1>4. /\ IsConfig(cfg') /\ cfg'.channelMap = cfg.channelMap /\ cfg'.pwmRes = cfg.pwmRes
      /\ cfg'.pwmFreq = cfg.pwmFreq /\ cfg'.commonBright = cfg.commonBright
  BY <1>3, ConfigFields
<1>5. Agree(cfg', live)
  BY <1>2, <1>4 DEF Agree
<1> QED BY <1>1, <1>4, <1>5, KeptReads

\* The operation ends well, with the mapping that was read.
LEMMA KeptReadMap == ASSUME Kept, ReadMap PROVE Kept'
<1>1. /\ pc = "read_map" /\ ~gone /\ pc' = "idle" /\ result' = "ok"
      /\ cfg' = [cfg EXCEPT !.channelMap = ReadChannelMap(ee, live.map, cfg.pwmRes)]
      /\ UNCHANGED <<gone, file, op, wanted, live, stored>>
  BY DEF ReadMap, devices
<1>2. IsConfig(cfg) /\ Agree(cfg, live)
  BY <1>1 DEF Kept, Shapes, AgreesWhileReading
<1>3. cfg' = [channelMap |-> ReadChannelMap(ee, live.map, cfg.pwmRes), layout |-> cfg.layout,
              pwmRes |-> cfg.pwmRes, pwmFreq |-> cfg.pwmFreq, commonBright |-> cfg.commonBright]
  BY Zenon, <1>1, <1>2, ConfigChange
<1>4. /\ IsConfig(cfg') /\ cfg'.pwmRes = cfg.pwmRes
      /\ cfg'.pwmFreq = cfg.pwmFreq /\ cfg'.commonBright = cfg.commonBright
  BY <1>3, ConfigFields
<1>5. Agree(cfg', live')
  BY <1>1, <1>2, <1>4 DEF Agree
<1>6. Shapes' /\ MaxIsLegal'
  BY <1>1, <1>4 DEF Kept, Shapes, MaxIsLegal
<1>7. AgreesWhileReading' /\ AgreesAtRest' /\ MapIsKept'
  BY <1>1, <1>5 DEF AgreesWhileReading, AgreesAtRest, MapIsKept
<1> QED BY <1>6, <1>7 DEF Kept

\* An operation breaks off: in doubt, with the mapping of the user.
LEMMA KeptFailure == ASSUME Kept, Failure PROVE Kept'
<1>1. /\ pc # "idle" /\ pc' = "idle" /\ doubt' = TRUE
      /\ UNCHANGED <<gone, file, op, wanted>>
  BY DEF Failure, Fails, Raise
<1>2. /\ IsConfig(cfg) /\ Shapes /\ MaxIsLegal
      /\ IsSetup(live) /\ LegalMax(live.max) /\ IsSetup(stored) /\ LegalMax(stored.max)
  BY <1>1 DEF Kept, Shapes, MaxIsLegal
<1>3. /\ IsSetup(live') /\ LegalMax(live'.max) /\ IsSetup(stored') /\ LegalMax(stored'.max)
      /\ IsConfig(cfg') /\ cfg'.channelMap = cfg.channelMap
  <2>1. CASE pc \in {"write_ee", "clear_ee"}
    <3>1. UNCHANGED <<live, stored, cfg>>
      BY <2>1 DEF Failure, Fails
    <3> QED BY <1>2, <3>1
  <2>2. CASE pc = "store"
    <3>1. stored' \in {stored, live} /\ UNCHANGED <<live, cfg>>
      BY <2>2 DEF Failure, Fails
    <3> QED BY <1>2, <3>1
  <2>3. CASE pc = "reset_setup"
    <3>1. live' \in {live, DefaultSetup} /\ stored' \in {stored, DefaultSetup} /\ UNCHANGED cfg
      BY <2>3 DEF Failure, Fails, devices
    <3> QED BY <1>2, <3>1, DefaultIsLegal
  <2>4. CASE pc = "get_pwm"
    <3>1. /\ \/ cfg' = cfg
             \/ cfg' = [cfg EXCEPT !.pwmRes = live.max]
             \/ cfg' = [WithPwm(cfg) EXCEPT !.commonBright = cfg.commonBright]
          /\ UNCHANGED <<live, stored>>
      BY <2>4 DEF Failure, Fails, devices
    <3>2. CASE cfg' = [cfg EXCEPT !.pwmRes = live.max]
      <4>1. cfg' = [channelMap |-> cfg.channelMap, layout |-> cfg.layout, pwmRes |-> live.max,
                    pwmFreq |-> cfg.pwmFreq, commonBright |-> cfg.commonBright]
        BY Zenon, <1>2, <3>2, ConfigChange
      <4> QED BY <1>2, <3>1, <4>1, ConfigFields
    <3>3. CASE cfg' = [WithPwm(cfg) EXCEPT !.commonBright = cfg.commonBright]
      <4> DEFINE d == WithPwm(cfg)
      <4>1. d = [channelMap |-> cfg.channelMap, layout |-> cfg.layout, pwmRes |-> live.max,
                 pwmFreq |-> GetFreq(live.max), commonBright |-> live.bright]
        BY Zenon, <1>2, PwmChange
      <4>2. cfg' = [d EXCEPT !.commonBright = cfg.commonBright]
        BY <3>3
      <4> HIDE DEF d
      <4>3. cfg' = [channelMap |-> cfg.channelMap, layout |-> cfg.layout, pwmRes |-> live.max,
                    pwmFreq |-> GetFreq(live.max), commonBright |-> cfg.commonBright]
        BY SMT, <4>1, <4>2
      <4> QED BY <1>2, <3>1, <4>3, ConfigFields
    <3> QED BY <1>2, <3>1, <3>2, <3>3
  <2>5. CASE pc \notin {"write_ee", "clear_ee", "store", "reset_setup", "get_pwm"}
    <3> DEFINE new == CASE pc = "set_bright" -> [live EXCEPT !.bright = cfg.commonBright]
                        [] pc = "set_freq"   -> SetupWithFreq(cfg.pwmFreq)
                        [] pc = "set_map"    -> [live EXCEPT !.map = PwmMap(cfg)]
                        [] pc = "reset_pwm"  -> stored
                        [] OTHER             -> live
    <3>1. live' \in {live, new} /\ UNCHANGED <<stored, cfg>>
      BY <2>5 DEF Failure, Fails, MaySet, Sets
    <3>2. IsSetup(new) /\ LegalMax(new.max)
      <4>1. CASE pc = "set_bright"
        <5>1. new = [live EXCEPT !.bright = cfg.commonBright]
          BY <4>1
        <5> QED BY <1>2, <5>1, SetupChange
      <4>2. CASE pc = "set_freq"
        <5>1. new = SetupWithFreq(cfg.pwmFreq)
          BY <4>2
        <5> QED BY <1>2, <5>1, FreqSetup
      <4>3. CASE pc = "set_map"
        <5>1. new = [live EXCEPT !.map = PwmMap(cfg)]
          BY <4>3
        <5> QED BY <1>2, <5>1, SetupChange
      <4>4. CASE pc = "reset_pwm"
        BY <1>2, <4>4
      <4>5. CASE pc \notin {"set_bright", "set_freq", "set_map", "reset_pwm"}
        BY <1>2, <4>5
      <4> QED BY <4>1, <4>2, <4>3, <4>4, <4>5
    <3> HIDE DEF new
    <3> QED BY <1>2, <3>1, <3>2
  <2> QED BY <2>1, <2>2, <2>3, <2>4, <2>5
<1>4. Shapes' /\ MaxIsLegal'
  BY <1>1, <1>2, <1>3 DEF Shapes, MaxIsLegal
<1>5. AgreesWhileReading' /\ AgreesAtRest'
  BY <1>1 DEF AgreesWhileReading, AgreesAtRest
<1>6. MapIsKept'
  BY <1>1, <1>3 DEF Kept, MapIsKept, SameMap
<1> QED BY <1>4, <1>5, <1>6 DEF Kept

LEMMA KeptScanFailure == ASSUME Kept, ScanFailure PROVE Kept'
<1>1. /\ op = "scan" /\ pc # "idle" /\ pc' = "idle" /\ doubt' = TRUE /\ cfg' = None
      /\ live' \in {live, stored} /\ UNCHANGED <<stored, gone, file, op, wanted>>
  BY DEF ScanFailure, Raise, MaySet, Sets
<1>2. Shapes' /\ MaxIsLegal'
  BY <1>1 DEF Kept, Shapes, MaxIsLegal
<1>3. AgreesWhileReading' /\ AgreesAtRest' /\ MapIsKept'
  BY <1>1 DEF AgreesWhileReading, AgreesAtRest, MapIsKept
<1> QED BY <1>2, <1>3 DEF Kept

LEMMA KeptPowerLoss == ASSUME Kept, PowerLoss PROVE Kept'
<1>1. /\ gone' = TRUE /\ live' = stored /\ doubt' = TRUE
      /\ UNCHANGED <<stored, cfg, file, pc, op, result, wanted>>
  BY DEF PowerLoss
<1>2. Shapes' /\ MaxIsLegal'
  BY <1>1 DEF Kept, Shapes, MaxIsLegal
<1>3. AgreesWhileReading' /\ AgreesAtRest'
  BY <1>1 DEF AgreesWhileReading, AgreesAtRest
<1>4. MapIsKept'
  BY <1>1 DEF Kept, MapIsKept
<1> QED BY <1>2, <1>3, <1>4 DEF Kept

LEMMA KeptNext == Kept /\ [Next]_vars => Kept'
<1> SUFFICES ASSUME Kept, [Next]_vars PROVE Kept'
  OBVIOUS
<1>1. CASE EditLayout
  BY <1>1, KeptSame DEF EditLayout, UserActs, devices
<1>2. CASE UNCHANGED vars
  BY <1>2, KeptSame DEF vars, devices, history
<1> QED BY <1>1, <1>2, KeptEditMap, KeptSetPWMFreq, KeptSetCommonBright, KeptBackup,
           KeptStoreSetup, KeptResetSetup, KeptRestoreSetup, KeptScan, KeptRequests,
           KeptReadPwm, KeptReadEe, KeptReadMap, KeptFailure, KeptScanFailure,
           KeptPowerLoss DEF Next

\* Unless an exception was shown, the dialog shows what the controller has; and a Store
\* that failed at any request leaves the mapping of the user (device_drv.py write, read,
\* setPWMFreq, setCommonBright).
THEOREM ConfigStaysKept == Spec => []ConfigIsKept
<1>1. Kept => ConfigIsKept
  <2> SUFFICES ASSUME Kept PROVE ConfigIsKept
    OBVIOUS
  <2>1. ShownIsLive
    BY DEF Kept, AgreesAtRest, Agree, ShownIsLive
  <2>2. FailedStoreKeepsMap
    BY DEF Kept, MapIsKept, SameMap, FailedStoreKeepsMap
  <2> QED BY <2>1, <2>2 DEF ConfigIsKept
<1> QED BY <1>1, KeptInit, KeptNext, PTL DEF Spec

(***************************************************************************)
(* Requests and configuration                                              *)
(***************************************************************************)

\* The values of the variables of both parts, in whichever a behaviour is about.
THEOREM HostType == MCSpec => []MCTypeOK
<1>1. MCInit => RequestInv /\ TypeOK
  BY RequestInvInit, TypeInit DEF MCInit
<1>2. RequestInv /\ TypeOK /\ [MCNext]_<<vars, requestVars, part>> => (RequestInv /\ TypeOK)'
  <2> SUFFICES ASSUME RequestInv, TypeOK, [MCNext]_<<vars, requestVars, part>>
               PROVE  RequestInv' /\ TypeOK'
    OBVIOUS
  <2>1. [RequestNext]_requestVars /\ [Next]_vars
    BY DEF MCNext
  <2> QED BY <2>1, RequestInvNext, TypeNext
<1>3. RequestInv /\ TypeOK => MCTypeOK
  BY DEF RequestInv, MCTypeOK
<1> QED BY <1>1, <1>2, <1>3, PTL DEF MCSpec
================================================================================
