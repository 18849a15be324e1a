------------------------------ MODULE PwmDisplay ------------------------------
(***************************************************************************)
(* What the PWM page switching of the PWM controller promises, without its *)
(* two step pages: the outputs always follow one whole frame, and a newly  *)
(* computed frame waits in a one-place mailbox until the end of the cycle  *)
(* that is running.  A frame in the mailbox is never replaced: the main    *)
(* loop computes the next one only when the mailbox is empty.              *)
(***************************************************************************)
CONSTANTS Frames,   \* the frames the controller can be asked to show
          Dark      \* no frame; not a member of Frames

VARIABLES shown,    \* the frame the timer interrupt is stepping through
          pending   \* the frame it will step through next, or Dark

vars == <<shown, pending>>

Init == shown = Dark /\ pending = Dark

\* init_pwm_step_tab: the first frame is complete before the timer starts.
Start ==
  /\ shown = Dark /\ pending = Dark
  /\ shown' \in Frames
  /\ UNCHANGED pending

\* activate_pwm_page: the link to the new page is installed.
Publish ==
  /\ shown # Dark /\ pending = Dark
  /\ pending' \in Frames
  /\ UNCHANGED shown

\* The timer interrupt leaves the last step of the old page.
Switch ==
  /\ pending # Dark
  /\ shown' = pending
  /\ pending' = Dark

Next == Start \/ Publish \/ Switch

Spec == Init /\ [][Next]_vars /\ WF_vars(Start) /\ WF_vars(Switch)
===============================================================================
