----------------------------- MODULE PwmStepList -----------------------------
(***************************************************************************)
(* The step pages of PwmPages as they are in memory: arrays of             *)
(* PWM_STEP_PAGE_SIZE entries with next_step pointers, which set_channel   *)
(* relinks and activate_pwm_page closes to a cycle.  The list is checked   *)
(* to implement the sequences of PwmPages.                                 *)
(*                                                                         *)
(* A pointer is a page and an index; a page ends at an entry whose         *)
(* timer_val is 0.  The loops of the code walk along the row of entries    *)
(* that the next_step pointers make; what they do is said of the place in  *)
(* the row at which they stop.                                             *)
(***************************************************************************)
EXTENDS Integers, Sequences, FiniteSets, SequencesExt

CONSTANTS NCHANNELS, Bits, Brights, MapRequests, DefaultMap, PwmResolutions,
          DefMaxPwm, PWM_PRESCALE, Dark

VARIABLES bright_vals, channel_map, max_pwm, update_pwm_page, shadow_pwm_page, pc, c,
          running, frame, syncOwed   \* as in PwmPages
VARIABLES mem,              \* pwm_step_page1 and pwm_step_page2
          last,             \* activate_pwm_page: l, the last step of the new page
          active_pwm_page,  \* pointer to the last step of the active page
          actual_pwm_step   \* pointer to the step the interrupt loads next

PWM_STEP_PAGE_SIZE == NCHANNELS + 2
Entries == 0 .. PWM_STEP_PAGE_SIZE - 1
Ptr(p, i) == [page |-> p, idx |-> i]
At(ptr) == mem[ptr.page][ptr.idx]

\* The entries of a page in the order of their next_step pointers, from the first on.
RowOf(m) ==
  LET row[k \in 1 .. PWM_STEP_PAGE_SIZE] ==
        IF k = 1 THEN 0 ELSE m[row[k-1]].next_step.idx
  IN row

\* The number of steps of a page that is built: a free entry ends the list.
Used(m) ==
  LET row == RowOf(m)
  IN Min({n \in 0 .. PWM_STEP_PAGE_SIZE - 1 : m[row[n+1]].timer_val = 0})

(***************************************************************************)
(* The refinement mapping.                                                 *)
(***************************************************************************)

\* The number of steps of page p, also of a finished one: the last step leads to the
\* first one of this or the other page.
Length(p, m) ==
  LET row == RowOf(m)
      closes(i) == m[i].next_step.page # p \/ m[i].next_step.idx = 0
  IN Min({n \in 0 .. PWM_STEP_PAGE_SIZE - 1 :
            m[row[n+1]].timer_val = 0 \/ (n > 0 /\ closes(row[n]))})

ListOf(p, m) ==
  LET row == RowOf(m)
  IN [k \in 1 .. Length(p, m) |-> [on |-> m[row[k]].on, timer_val |-> m[row[k]].timer_val]]
EndOf(p, m)  == IF Length(p, m) = 0 THEN 0 ELSE RowOf(m)[Length(p, m)]
LinkOf(p, m) == m[EndOf(p, m)].next_step.page
PosOf(p, m, i) ==
  LET at == {k \in 1 .. Length(p, m) : RowOf(m)[k] = i}
  IN IF at = {} THEN 1 ELSE CHOOSE k \in at : TRUE

ListSteps  == [p \in {1, 2} |-> ListOf(p, mem[p])]
ListLink   == [p \in {1, 2} |-> LinkOf(p, mem[p])]
ListActual == [page |-> actual_pwm_step.page,
               pos  |-> PosOf(actual_pwm_step.page, mem[actual_pwm_step.page],
                              actual_pwm_step.idx)]

Pages == INSTANCE PwmPages WITH
  steps           <- ListSteps,
  link            <- ListLink,
  active_pwm_page <- active_pwm_page.page,
  actual_pwm_step <- ListActual

\* The assumptions of PwmPages.
ASSUME SizeAssumption == NCHANNELS \in 1 .. 64 /\ PWM_PRESCALE \in Nat \ {0}
ASSUME BrightAssumption == Brights \subseteq Nat /\ 0 \in Brights
ASSUME MapAssumption ==
  /\ MapRequests \subseteq [code : 0 .. 255, port_bits : SUBSET Bits]
  /\ DefaultMap \in [Pages!Channels -> Pages!MapEntries]
ASSUME WidthAssumption ==
  /\ PwmResolutions \subseteq Nat \ {0} /\ DefMaxPwm \in PwmResolutions
  /\ \A r \in PwmResolutions : r * PWM_PRESCALE < 65536
ASSUME DarkNotSettings == Dark \notin Pages!Settings

settings == <<bright_vals, channel_map, max_pwm>>
memory   == <<mem, last, active_pwm_page>>
vars     == <<settings, update_pwm_page, shadow_pwm_page, pc, c, running, frame,
              syncOwed, memory, actual_pwm_step>>

(***************************************************************************)
(* set_channel, on the array m of one page.                                *)
(***************************************************************************)

\* The first loop stops at the end of the list or at the first step that ends at v or
\* later; it switches outs on in the steps before, and in one that ends at v.
StopsAt(m, v) ==
  LET row == RowOf(m)
  IN Min({k \in 1 .. PWM_STEP_PAGE_SIZE :
            m[row[k]].timer_val = 0 \/ v <= m[row[k]].timer_val})

Cover(m, outs, v) ==
  LET k == StopsAt(m, v)
      exact == m[RowOf(m)[k]].timer_val = v
  IN [i \in Entries |->
        IF \E j \in 1 .. k : RowOf(m)[j] = i /\ (j < k \/ exact)
          THEN [m[i] EXCEPT !.on = @ \cup outs]
          ELSE m[i]]

\* Mutant: the free entry is not taken out of the row of free entries.
CutStep_KeepLinked(m, i) ==
  LET l == RowOf(m)[Used(m)]
      n == m[l].next_step
  IN [m EXCEPT ![n.idx] = m[i], ![i].next_step = n]

\* The second loop finds the last step l; the free entry n behind it takes over step i,
\* which becomes the new step.
CutStep(m, i) ==
  LET l == RowOf(m)[Used(m)]
      n == m[l].next_step
      unlinked == [m EXCEPT ![l].next_step = m[n.idx].next_step]
  IN [unlinked EXCEPT ![n.idx] = unlinked[i], ![i].next_step = n]

\* Mutant: a new last step keeps the old port values of its entry.
SetChannel_NoPortReset(m, outs, v) ==
  LET i == RowOf(m)[StopsAt(m, v)]
      lit == Cover(m, outs, v)
      free == IF m[i].timer_val # 0 THEN CutStep(lit, i) ELSE lit
  IN IF m[i].timer_val = v THEN lit
     ELSE [free EXCEPT ![i].timer_val = v, ![i].on = @ \cup outs]

SetChannel(m, outs, v) ==
  LET i == RowOf(m)[StopsAt(m, v)]
      lit == Cover(m, outs, v)
      free == IF m[i].timer_val # 0 THEN CutStep(lit, i) ELSE [lit EXCEPT ![i].on = {}]
  IN IF m[i].timer_val = v THEN lit
     ELSE [free EXCEPT ![i].timer_val = v, ![i].on = @ \cup outs]

\* calc_pwm_page, the body of the loop.
CalcEntry(m, e) ==
  LET v == bright_vals[Pages!CM_CHANNEL(e.code)]
  IN IF e.port_bits = {} \/ v = 0 THEN m
     ELSE SetChannel(m, Pages!Driven(e), IF v > max_pwm THEN max_pwm ELSE v)

\* activate_pwm_page: when the k-th step ends, and the loop that turns end times into
\* durations.
EndTime(m, k) == IF k = 0 THEN 0 ELSE m[RowOf(m)[k]].timer_val

ToDurations(m) ==
  LET row == RowOf(m)
      duration(k) == (EndTime(m, k) - EndTime(m, k - 1)) * PWM_PRESCALE
  IN [i \in Entries |->
        IF \E k \in 1 .. Used(m) : row[k] = i
          THEN [m[i] EXCEPT !.timer_val =
                  duration(CHOOSE k \in 1 .. Used(m) : row[k] = i)]
          ELSE m[i]]

\* The pause, if there is one, is the first entry that is free.  The list is not empty:
\* max_pwm is positive.
LastStep(m, pause) == RowOf(m)[IF pause = 0 THEN Used(m) ELSE Used(m) + 1]

\* activate_pwm_page, up to the cycle: durations, pause and the link to the first step.
Finish(p, m) ==
  LET pause == max_pwm - EndTime(m, Used(m))
      l == LastStep(m, pause)
      full == IF pause = 0 THEN ToDurations(m)
              ELSE [ToDurations(m) EXCEPT ![l].on = {}, ![l].timer_val = pause * PWM_PRESCALE]
  IN [page |-> [full EXCEPT ![l].next_step = Ptr(p, 0)], last |-> l]

(***************************************************************************)
(* The steps that touch the memory.                                        *)
(***************************************************************************)

\* init_pwm_page; the port values of the old steps stay in memory.
Cleared(p, m) ==
  [i \in Entries |-> [m[i] EXCEPT !.timer_val = 0, !.next_step = Ptr(p, i + 1)]]

InitPwmPage ==
  /\ pc = "update"
  /\ update_pwm_page /\ actual_pwm_step.page # shadow_pwm_page
  /\ mem' = [mem EXCEPT ![shadow_pwm_page] = Cleared(shadow_pwm_page, @)]
  /\ c' = NCHANNELS
  /\ pc' = "calc"
  /\ frame' = [frame EXCEPT ![shadow_pwm_page] = Pages!Snapshot]
  /\ syncOwed' = FALSE
  /\ UNCHANGED <<settings, update_pwm_page, shadow_pwm_page, running, last,
                 active_pwm_page, actual_pwm_step>>

CalcPwmPage ==
  /\ pc = "calc" /\ c > 0
  /\ c' = c - 1
  /\ mem' = [mem EXCEPT ![shadow_pwm_page] = CalcEntry(@, channel_map[c-1])]
  /\ UNCHANGED <<settings, update_pwm_page, shadow_pwm_page, pc, running, frame,
                 syncOwed, last, active_pwm_page, actual_pwm_step>>

FinishPage ==
  /\ pc = "calc" /\ c = 0
  /\ LET r == Finish(shadow_pwm_page, mem[shadow_pwm_page])
     IN mem' = [mem EXCEPT ![shadow_pwm_page] = r.page] /\ last' = r.last
  /\ pc' = "install"
  /\ UNCHANGED <<settings, update_pwm_page, shadow_pwm_page, c, running, frame,
                 syncOwed, active_pwm_page, actual_pwm_step>>

InstallLink ==
  /\ pc = "install"
  /\ mem' = [mem EXCEPT ![active_pwm_page.page][active_pwm_page.idx].next_step =
                          Ptr(shadow_pwm_page, 0)]
  /\ active_pwm_page' = Ptr(shadow_pwm_page, last)
  /\ pc' = "swap"
  /\ UNCHANGED <<settings, update_pwm_page, shadow_pwm_page, c, running, frame,
                 syncOwed, last, actual_pwm_step>>

SwapPages == UNCHANGED <<memory, actual_pwm_step>> /\ Pages!SwapPages

TimerInterrupt ==
  /\ running
  /\ actual_pwm_step' = At(actual_pwm_step).next_step
  /\ UNCHANGED <<settings, update_pwm_page, shadow_pwm_page, pc, c, running, frame,
                 syncOwed, memory>>

StartTimer ==
  /\ pc = "start"
  /\ actual_pwm_step' = At(active_pwm_page).next_step
  /\ running' = TRUE
  /\ pc' = "loop"
  /\ UNCHANGED <<settings, update_pwm_page, shadow_pwm_page, c, frame, syncOwed,
                 memory>>

\* The steps that leave the memory of the pages alone are those of PwmPages.
Request   == UNCHANGED <<memory, actual_pwm_step>> /\ Pages!Request
MainOther ==
  /\ UNCHANGED <<memory, actual_pwm_step>>
  /\ Pages!SyncedReply \/ Pages!NoRequest \/ Pages!NoUpdate

\* init_pwm_step_tab has cleared page 1.  The memory is not initialized: the port
\* values are those that can harm most, everything on, and of page 2, which is
\* cleared before it is used, nothing else is read.
Init ==
  /\ mem = [p \in {1, 2} |-> [i \in Entries |->
             [on |-> Pages!Outputs, timer_val |-> 0, next_step |-> Ptr(p, i + 1)]]]
  /\ last = 0
  /\ active_pwm_page = Ptr(2, 0)
  /\ actual_pwm_step = Ptr(2, 0)
  /\ bright_vals = [ch \in Pages!Channels |-> 0]
  /\ Pages!Mapped(DefaultMap, channel_map)
  /\ max_pwm \in PwmResolutions
  /\ update_pwm_page \in BOOLEAN
  /\ shadow_pwm_page = 1
  /\ pc = "calc" /\ c = NCHANNELS
  /\ running = FALSE
  /\ frame = [p \in {1, 2} |-> Pages!Snapshot]
  /\ syncOwed = FALSE

Next == \/ Request \/ MainOther \/ InitPwmPage \/ CalcPwmPage \/ FinishPage
        \/ InstallLink \/ SwapPages \/ StartTimer \/ TimerInterrupt

Spec == Init /\ [][Next]_vars

(***************************************************************************)
(* Properties                                                              *)
(***************************************************************************)

\* set_channel, calc_pwm_page and activate_pwm_page do on the linked list what
\* PwmPages says they do on the sequence of steps, also while the interrupt walks
\* along the other page.
ListImplementsSteps == Pages!SafetySpec

\* Following next_step from the first entry of the page that is built meets every
\* entry of the page once: no entry is lost and the row of free entries is whole,
\* so that set_channel always finds the end mark.
NoEntryLost ==
  pc = "calc" =>
    LET row == RowOf(mem[shadow_pwm_page])
    IN /\ \A k \in 1 .. PWM_STEP_PAGE_SIZE : row[k] \in Entries
       /\ IsInjective(row)
===============================================================================
