---------------------------- MODULE MCPwmStepList ----------------------------
(***************************************************************************)
(* Three channels, so that a step is cut with others before and behind it. *)
(* The first request sets every brightness, the second that of one         *)
(* channel; each comes when the page built for the one before is shown     *)
(* (overlapping requests are the subject of MCPwmPages).  Two requests     *)
(* suffice: each page is built from the all-on garbage of Init or from an  *)
(* old page, and no state but the port values of free entries outlives     *)
(* the reset of a page.                                                    *)
(***************************************************************************)
EXTENDS PwmStepList

CONSTANT b1

Entry(port, ch, bits) == [code |-> 4 * ch + port, port_bits |-> bits]

MCDefaultMap == [ch \in 0 .. 2 |-> Entry(ch, ch, {b1})]

Quiet == ~update_pwm_page /\ actual_pwm_step.page = active_pwm_page.page
VARIABLE requests   \* requests processed so far, at most MaxRequests
MaxRequests == 2

OneChannel ==
  \E i \in 0 .. 2, v \in Brights : bright_vals' = [bright_vals EXCEPT ![i] = v]

MCRequest ==
  /\ Quiet /\ requests < MaxRequests
  /\ requests' = requests + 1
  /\ UNCHANGED <<memory, actual_pwm_step>>
  /\ Pages!SetBrightness
  /\ requests = 1 => OneChannel

MCInit == Init /\ requests = 0
MCNext ==
  \/ MCRequest
  \/ /\ \/ MainOther \/ InitPwmPage \/ CalcPwmPage \/ FinishPage
        \/ InstallLink \/ SwapPages \/ StartTimer \/ TimerInterrupt
     /\ UNCHANGED requests
MCSpec == MCInit /\ [][MCNext]_<<vars, requests>>
===============================================================================
