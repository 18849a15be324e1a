----------------------------- MODULE SetupStore -----------------------------
(***************************************************************************)
(* The setup of the PWM controller (pwm_appl/df10ch_pwm_appl.c): its copy  *)
(* in RAM, its copy in the EEPROM with the valid mark, the requests that   *)
(* change, store and reset it, and restarts at any moment.  An EEPROM      *)
(* write takes a while; a reset lets it finish, a loss of power may leave  *)
(* any value in the byte that was being written.                           *)
(***************************************************************************)
EXTENDS Integers

CONSTANTS SIZE,      \* bytes of setup_t
          Values,    \* values of a byte
          Default    \* what init_setup_values sets

Bytes  == 1 .. SIZE
Setups == [Bytes -> Values]

ASSUME SetupAssumption ==
  /\ SIZE \in Nat \ {0}
  /\ Default \in Setups

MARK == "EE_VALID_MARK"
Marks == {MARK, "other"}
Mark_At == SIZE + 1        \* address of ee_valid

VARIABLES
  setup,       \* the setup in RAM
  ee_setup,    \* the setup in the EEPROM
  ee_valid,    \* the mark in the EEPROM
  write_at,    \* the byte of the EEPROM that is being written, 0 for none
  write_val,   \* and its new value
  pc,          \* "idle", "store" (store_setup_values) or "ack" (it is done)
  pos,         \* next byte store_setup_values looks at
  last,        \* history: the last request on the EEPROM, and how far it came
  target,      \* history: the setup of the last STORE_SETUP
  stored,      \* history: the setup of the last STORE_SETUP that wrote every byte
  wasMarked    \* history: the mark was set when the last STORE_SETUP began

eeprom  == <<ee_setup, ee_valid>>
write   == <<write_at, write_val>>
history == <<last, target, stored, wasMarked>>
vars == <<setup, eeprom, write, pc, pos, history>>

Writing == write_at # 0
StartWrite(at, val) == write_at' = at /\ write_val' = val

Init ==
  /\ ee_setup \in Setups /\ ee_valid = "other"
  /\ setup = Default
  /\ write_at = 0 /\ write_val = 0 /\ pc = "idle" /\ pos = 1
  /\ last = "none" /\ target = Default /\ stored = Default /\ wasMarked = FALSE

\* SET_COMMON_PWM, SET_CHANNEL_MAP and SET_PWM_FREQ change bytes in RAM.
Change ==
  /\ pc = "idle"
  /\ \E i \in Bytes, v \in Values : setup' = [setup EXCEPT ![i] = v]
  /\ UNCHANGED <<eeprom, write, pc, pos, history>>

\* STORE_SETUP: store_setup_values looks at byte after byte.  Every access to the
\* EEPROM waits for the write before.
Store ==
  /\ pc = "idle" /\ ~Writing
  /\ pc' = "store" /\ pos' = 1
  /\ last' = "storing" /\ target' = setup /\ wasMarked' = (ee_valid = MARK)
  /\ UNCHANGED <<setup, eeprom, write, stored>>

StoreByte ==
  /\ pc = "store" /\ pos \in Bytes /\ ~Writing
  /\ IF ee_setup[pos] # setup[pos] THEN StartWrite(pos, setup[pos]) ELSE UNCHANGED write
  /\ pos' = pos + 1
  /\ UNCHANGED <<setup, eeprom, pc, history>>

\* Mutant: the mark is written while bytes are still to be stored.
AllStored_Early == pos >= SIZE
AllStored == pos = SIZE + 1

StoreMark ==
  /\ pc = "store" /\ AllStored /\ ~Writing
  /\ IF ee_valid # MARK THEN StartWrite(Mark_At, MARK) ELSE UNCHANGED write
  /\ pc' = "ack" /\ stored' = target
  /\ UNCHANGED <<setup, eeprom, pos, last, target, wasMarked>>

\* Mutant: the acknowledge does not wait for the last write.
Ready_NoWait == TRUE
Ready == ~Writing

\* send_reply_start(0)
StoreDone ==
  /\ pc = "ack" /\ Ready
  /\ pc' = "idle"
  /\ last' = "stored"
  /\ UNCHANGED <<setup, eeprom, write, pos, target, stored, wasMarked>>

\* Mutant: the mark stays.
Invalidate_Not == UNCHANGED write
Invalidate == IF ee_valid = MARK THEN StartWrite(Mark_At, "other") ELSE UNCHANGED write

\* RESET_SETUP: acknowledged while the mark is being written.
ResetSetup ==
  /\ pc = "idle" /\ ~Writing
  /\ setup' = Default
  /\ Invalidate
  /\ last' = "reset"
  /\ UNCHANGED <<eeprom, pc, pos, target, stored, wasMarked>>

\* The EEPROM after the write that is going on has left val in its byte.
WriteLeaves(val) ==
  /\ ee_setup' = IF write_at \in Bytes THEN [ee_setup EXCEPT ![write_at] = val] ELSE ee_setup
  /\ ee_valid' = IF write_at = Mark_At THEN val ELSE ee_valid
  /\ write_at' = 0 /\ write_val' = 0

WriteDone ==
  /\ Writing
  /\ WriteLeaves(write_val)
  /\ UNCHANGED <<setup, pc, pos, history>>

\* main after a restart: read_setup_values
Boot ==
  /\ setup' = IF ee_valid' = MARK THEN ee_setup' ELSE Default
  /\ pc' = "idle" /\ pos' = 1
  /\ UNCHANGED <<target, stored, wasMarked>>

\* A reset, by the USB controller or the watchdog.
Reset ==
  /\ IF Writing THEN WriteLeaves(write_val) ELSE UNCHANGED <<eeprom, write>>
  /\ last' = IF last = "storing" THEN "none" ELSE last
  /\ Boot

PowerLoss ==
  /\ IF ~Writing THEN UNCHANGED <<eeprom, write>>
     ELSE \E val \in IF write_at = Mark_At THEN Marks ELSE Values : WriteLeaves(val)
  /\ last' = IF last = "storing" \/ Writing THEN "none" ELSE last
  /\ Boot

Restart == Reset \/ PowerLoss
Next == \/ Change \/ Store \/ StoreByte \/ StoreMark \/ StoreDone \/ ResetSetup
        \/ WriteDone \/ Restart

Spec == Init /\ [][Next]_vars

(***************************************************************************)
(* Properties                                                              *)
(***************************************************************************)

\* The values of the variables; a store is over when every byte has been looked at.
TypeOK ==
  /\ setup \in Setups /\ ee_setup \in Setups /\ ee_valid \in Marks
  /\ write_at \in 0 .. SIZE + 1
  /\ write_at \in Bytes => write_val \in Values
  /\ write_at = Mark_At => write_val \in Marks
  /\ pc \in {"idle", "store", "ack"} /\ pos \in 1 .. SIZE + 1
  /\ pc = "ack" => pos = SIZE + 1
  /\ last \in {"none", "storing", "stored", "reset"}
  /\ target \in Setups /\ stored \in Setups /\ wasMarked \in BOOLEAN

\* After an acknowledged STORE_SETUP every restart brings that setup back, until the
\* next STORE_SETUP or RESET_SETUP.
StoreIsDurable == [][Restart /\ last = "stored" => setup' = target]_vars

\* A restart in the middle of a STORE_SETUP that found no valid mark brings back the
\* defaults or the whole new setup: the mark is written last.
FirstStoreIsAtomic ==
  [][Restart /\ last = "storing" /\ ~wasMarked => setup' \in {Default, target}]_vars

\* After RESET_SETUP, once the mark is written, every restart brings back the defaults.
ResetIsDurable == [][Restart /\ last = "reset" /\ ~Writing => setup' = Default]_vars

\* ee_valid: "If eeprom content is valid this byte is EE_VALID_MARK", and
\* read_setup_values trusts it: what is marked is a setup that has been stored as a
\* whole.
MarkMeansStored == ee_valid = MARK /\ pc = "idle" => ee_setup \in {target, stored}
===============================================================================
