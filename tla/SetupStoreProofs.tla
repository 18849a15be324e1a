-------------------------- MODULE SetupStoreProofs --------------------------
(***************************************************************************)
(* What SetupStore promises of a stored setup, proved for every size of    *)
(* the setup and every set of byte values.                                 *)
(***************************************************************************)
EXTENDS SetupStore, TLAPS

\* While a setup is stored, the bytes before pos are in the EEPROM or the last of
\* them is being written; the mark comes after all of them.
StoreInv ==
  pc = "store" =>
    /\ last = "storing" /\ target = setup
    /\ Writing => write_at = pos - 1 /\ write_at \in Bytes /\ write_val = setup[write_at]
    /\ \A i \in Bytes : i < pos => ee_setup[i] = setup[i] \/ write_at = i
    /\ ~wasMarked => ee_valid = "other"

AckInv ==
  pc = "ack" =>
    /\ last = "storing" /\ target = setup /\ ee_setup = target
    /\ Writing => write_at = Mark_At /\ write_val = MARK
    /\ ~Writing => ee_valid = MARK

\* Between requests nothing is written, but the mark after RESET_SETUP.
IdleInv ==
  pc = "idle" =>
    /\ last # "storing"
    /\ last = "stored" => ee_valid = MARK /\ ee_setup = target
    /\ Writing => last = "reset" /\ write_at = Mark_At /\ write_val = "other"
    /\ last = "reset" /\ ~Writing => ee_valid = "other"

IInv == TypeOK /\ StoreInv /\ AckInv /\ IdleInv

USE SetupAssumption DEF Bytes, Setups, Marks, MARK, Mark_At

LEMMA InitInv == Init => IInv
<1> SUFFICES ASSUME Init PROVE IInv
  OBVIOUS
<1>1. TypeOK
  <2>1. wasMarked \in BOOLEAN
    BY DEF Init
  <2>2. 1 \in 1 .. SIZE + 1 /\ 0 \in 0 .. SIZE + 1 /\ ~(0 \in Bytes) /\ 0 # Mark_At
    OBVIOUS
  <2> QED  BY <2>1, <2>2 DEF Init, TypeOK
<1> QED  BY <1>1 DEF Init, IInv, StoreInv, AckInv, IdleInv, Writing

\* What a write that is going on leaves behind keeps the types, whatever it leaves.
LEMMA WriteTypes ==
  ASSUME TypeOK, Writing,
         NEW val, WriteLeaves(val),
         val \in IF write_at = Mark_At THEN Marks ELSE Values
  PROVE  ee_setup' \in Setups /\ ee_valid' \in Marks /\ write_at' = 0
<1>1. CASE write_at = Mark_At
  BY <1>1 DEF TypeOK, Writing, WriteLeaves
<1>2. CASE write_at \in Bytes
  BY <1>2 DEF TypeOK, Writing, WriteLeaves
<1> QED  BY <1>1, <1>2 DEF TypeOK, Writing

\* The value of the write fits its address.
LEMMA WriteFits ==
  ASSUME TypeOK, Writing
  PROVE  /\ write_at \in Bytes \cup {Mark_At}
         /\ write_val \in IF write_at = Mark_At THEN Marks ELSE Values
  BY DEF TypeOK, Writing

\* A restart leaves the setup that is marked, or the defaults.
LEMMA RestartInv == IInv /\ Restart => IInv'
<1> SUFFICES ASSUME IInv, Restart PROVE IInv'
  OBVIOUS
<1> USE DEF IInv
<1>1. ee_setup' \in Setups /\ ee_valid' \in Marks /\ write_at' = 0
  <2>1. CASE ~Writing
    BY <2>1 DEF Restart, Reset, PowerLoss, TypeOK, Writing, eeprom, write
  <2>2. CASE Writing /\ Reset
    <3>1. WriteLeaves(write_val)
      BY <2>2 DEF Reset
    <3> QED  BY <2>2, <3>1, WriteTypes, WriteFits
  <2>3. CASE Writing /\ PowerLoss
    <3>1. PICK val \in IF write_at = Mark_At THEN Marks ELSE Values : WriteLeaves(val)
      BY <2>3 DEF PowerLoss
    <3> QED  BY <2>3, <3>1, WriteTypes
  <2> QED  BY <2>1, <2>2, <2>3 DEF Restart
<1>2. Boot /\ last' \in {"none", "stored", "reset"} /\ last' \in {last, "none"}
  BY DEF Restart, Reset, PowerLoss, TypeOK
<1>3. TypeOK'
  BY <1>1, <1>2 DEF TypeOK, Boot
<1>4. pc' = "idle" /\ ~Writing' /\ target' = target
  BY <1>1, <1>2 DEF Boot, Writing
<1>5. last' = "stored" => ee_valid' = MARK /\ ee_setup' = target'
  <2> SUFFICES ASSUME last' = "stored" PROVE ee_valid' = MARK /\ ee_setup' = target'
    OBVIOUS
  <2>1. last = "stored" /\ pc = "idle" /\ ~Writing
    BY <1>2 DEF TypeOK, StoreInv, AckInv, IdleInv
  <2> QED  BY <2>1, <1>4 DEF Restart, Reset, PowerLoss, IdleInv, eeprom, write
<1>6. last' = "reset" => ee_valid' = "other"
  <2> SUFFICES ASSUME last' = "reset" PROVE ee_valid' = "other"
    OBVIOUS
  <2>1. last = "reset" /\ pc = "idle"
    BY <1>2 DEF TypeOK, StoreInv, AckInv, IdleInv
  <2>2. CASE ~Writing
    BY <2>1, <2>2 DEF Restart, Reset, PowerLoss, IdleInv, eeprom, write
  <2>3. CASE Writing /\ Reset
    BY <2>1, <2>3 DEF Reset, IdleInv, WriteLeaves
  <2>4. CASE Writing /\ PowerLoss
    BY <2>1, <2>4 DEF PowerLoss
  <2> QED  BY <2>2, <2>3, <2>4 DEF Restart
<1> QED  BY <1>3, <1>4, <1>5, <1>6, <1>2 DEF StoreInv, AckInv, IdleInv

LEMMA StepInv == IInv /\ [Next]_vars => IInv'
<1> SUFFICES ASSUME IInv, [Next]_vars PROVE IInv'
  OBVIOUS
<1> USE DEF IInv
<1>1. CASE Change
  BY <1>1 DEF Change, TypeOK, StoreInv, AckInv, IdleInv, Writing, eeprom, write, history
<1>2. CASE Store
  <2>1. TypeOK'
    BY <1>2 DEF Store, TypeOK, eeprom, write
  <2>2. StoreInv'
    <3>1. ~wasMarked' => ee_valid' = "other"
      BY <1>2 DEF Store, TypeOK, eeprom
    <3>2. \A i \in Bytes : ~(i < pos')
      BY <1>2 DEF Store
    <3> QED  BY <1>2, <3>1, <3>2 DEF Store, StoreInv, Writing, write
  <2> QED  BY <1>2, <2>1, <2>2 DEF Store, AckInv, IdleInv
<1>3. CASE StoreByte
  <2>1. TypeOK'
    BY <1>3 DEF StoreByte, StartWrite, TypeOK, eeprom, write, history
  <2>2. StoreInv'
    BY <1>3 DEF StoreByte, StartWrite, TypeOK, StoreInv, Writing, eeprom, write, history
  <2> QED  BY <1>3, <2>1, <2>2 DEF StoreByte, AckInv, IdleInv
<1>4. CASE StoreMark
  <2>1. TypeOK'
    BY <1>4 DEF StoreMark, AllStored, StartWrite, TypeOK, eeprom, write
  <2>2. \A i \in Bytes : ee_setup[i] = target[i]
    BY <1>4 DEF StoreMark, AllStored, StoreInv, Writing
  <2>3. ee_setup = target
    BY <2>2 DEF TypeOK
  <2>4. AckInv'
    BY <1>4, <2>3 DEF StoreMark, StartWrite, TypeOK, StoreInv, AckInv, Writing, eeprom, write
  <2> QED  BY <1>4, <2>1, <2>4 DEF StoreMark, StoreInv, IdleInv
<1>5. CASE StoreDone
  BY <1>5 DEF StoreDone, Ready, TypeOK, StoreInv, AckInv, IdleInv, Writing, eeprom, write
<1>6. CASE ResetSetup
  BY <1>6 DEF ResetSetup, Invalidate, StartWrite, TypeOK, StoreInv, AckInv, IdleInv, Writing, eeprom, write
<1>7. CASE WriteDone
  <2>1. TypeOK'
    BY <1>7, WriteTypes, WriteFits DEF WriteDone, TypeOK, history
  <2>2. StoreInv'
    BY <1>7 DEF WriteDone, WriteLeaves, TypeOK, StoreInv, Writing, history
  <2>3. AckInv' /\ IdleInv'
    BY <1>7 DEF WriteDone, WriteLeaves, TypeOK, AckInv, IdleInv, Writing, history
  <2> QED  BY <2>1, <2>2, <2>3
<1>8. CASE Restart
  BY <1>8, RestartInv
<1>9. CASE UNCHANGED vars
  BY <1>9 DEF vars, eeprom, write, history, TypeOK, StoreInv, AckInv, IdleInv, Writing
<1> QED  BY <1>1, <1>2, <1>3, <1>4, <1>5, <1>6, <1>7, <1>8, <1>9 DEF Next

THEOREM Inductive == Spec => []IInv
  BY InitInv, StepInv, PTL DEF Spec

\* The variables of the store have their types, and a store is only over when every
\* byte has been looked at (store_setup_values).
THEOREM TypeCorrect == Spec => []TypeOK
  BY Inductive, PTL DEF IInv

\* An acknowledged STORE_SETUP survives every restart, the loss of power included.
THEOREM StoredIsDurable == Spec => StoreIsDurable
<1>1. IInv /\ [Next]_vars => [Restart /\ last = "stored" => setup' = target]_vars
  <2> SUFFICES ASSUME IInv, Restart, last = "stored" PROVE setup' = target
    OBVIOUS
  <2>1. pc = "idle" /\ ~Writing /\ ee_valid = MARK /\ ee_setup = target
    BY DEF IInv, TypeOK, StoreInv, AckInv, IdleInv
  <2> QED  BY <2>1 DEF Restart, Reset, PowerLoss, Boot, eeprom, write
<1> QED  BY <1>1, Inductive, PTL DEF Spec, StoreIsDurable

\* A first STORE_SETUP that is cut short leaves the defaults or the whole new setup.
THEOREM FirstStoreAtomic == Spec => FirstStoreIsAtomic
<1>1. IInv /\ [Next]_vars =>
        [Restart /\ last = "storing" /\ ~wasMarked => setup' \in {Default, target}]_vars
  <2> SUFFICES ASSUME IInv, Restart, last = "storing", ~wasMarked
               PROVE  setup' \in {Default, target}
    OBVIOUS
  <2>1. pc = "store" \/ pc = "ack"
    BY DEF IInv, TypeOK, IdleInv
  <2>2. CASE pc = "store"
    <3>1. ee_valid = "other" /\ (Writing => write_at # Mark_At)
      BY <2>2 DEF IInv, StoreInv
    <3>2. ee_valid' = "other"
      BY <3>1 DEF Restart, Reset, PowerLoss, WriteLeaves, eeprom, write
    <3> QED  BY <3>2 DEF Restart, Reset, PowerLoss, Boot
  <2>3. CASE pc = "ack"
    <3>1. ee_setup = target /\ (Writing => write_at = Mark_At)
      BY <2>3 DEF IInv, AckInv
    <3>2. ee_setup' = target
      BY <3>1 DEF Restart, Reset, PowerLoss, WriteLeaves, eeprom, write
    <3> QED  BY <3>2 DEF Restart, Reset, PowerLoss, Boot
  <2> QED  BY <2>1, <2>2, <2>3
<1> QED  BY <1>1, Inductive, PTL DEF Spec, FirstStoreIsAtomic

\* After RESET_SETUP, once the mark is written, every restart loads the defaults.
THEOREM ResetStays == Spec => ResetIsDurable
<1>1. IInv /\ [Next]_vars => [Restart /\ last = "reset" /\ ~Writing => setup' = Default]_vars
  <2> SUFFICES ASSUME IInv, Restart, last = "reset", ~Writing PROVE setup' = Default
    OBVIOUS
  <2>1. ee_valid = "other"
    BY DEF IInv, TypeOK, StoreInv, AckInv, IdleInv
  <2> QED  BY <2>1 DEF Restart, Reset, PowerLoss, Boot, eeprom, write
<1> QED  BY <1>1, Inductive, PTL DEF Spec, ResetIsDurable
===============================================================================
