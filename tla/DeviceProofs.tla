----------------------------- MODULE DeviceProofs -----------------------------
(***************************************************************************)
(* Proofs about the devices of the setup program.  AsyncTransfer: the      *)
(* transfer objects are type correct and wait only for transfers that      *)
(* libusb owns; and a program that cancels nothing keeps the flag and      *)
(* libusb's ownership together, for any number of transfers and callbacks. *)
(* DeviceDialog: the device sheet shows, and its buttons act on, what the  *)
(* last search has found, for any number of controllers, searches and echo *)
(* tests.                                                                  *)
(***************************************************************************)
EXTENDS MCDevices, FiniteSetTheorems, TLAPS

(***************************************************************************)
(* The transfers                                                           *)
(***************************************************************************)

\* The type invariant, for every step of both threads and of libusb.
LEMMA TypeStep == TypeOK /\ [Next]_vars => TypeOK'
<1> SUFFICES ASSUME TypeOK, [Next]_vars PROVE TypeOK'
    OBVIOUS
<1> USE TransfersAssumption
<1>1. ASSUME NEW h \in Threads, NEW t \in Transfers, NEW k \in Kinds,
             NEW b \in Buffers, NEW c \in Callbacks \cup {None}, SetUp(h, t, k, b, c)
      PROVE  TypeOK'
    BY <1>1 DEF SetUp, MayUse, TypeOK
<1>2. ASSUME NEW h \in Threads, NEW t \in Transfers, NEW b \in Buffers,
             SetBuffer(h, t, b)
      PROVE  TypeOK'
    BY <1>2 DEF SetBuffer, object, TypeOK
<1>3. ASSUME NEW h \in Threads, NEW t \in Transfers,
             NEW c \in Callbacks \cup {None}, SetCallback(h, t, c)
      PROVE  TypeOK'
    BY <1>3 DEF SetCallback, structure, TypeOK
<1>4. ASSUME NEW h \in Threads, NEW t \in Transfers, Close(h, t) PROVE TypeOK'
    BY <1>4 DEF Close, structure, TypeOK
<1>5. ASSUME NEW h \in Threads, NEW t \in Transfers, Submit(h, t) PROVE TypeOK'
    BY <1>5 DEF Submit, FlagAtSubmit, structure, TypeOK, Calls
<1>6. ASSUME NEW h \in Threads, NEW t \in Transfers, LibSubmit(h, t) PROVE TypeOK'
  <2>1. \A op \in {"submitted", "failed"} : [op |-> op, on |-> t] \in Calls
      BY DEF Calls
  <2> QED
      BY <1>6, <2>1 DEF LibSubmit, object, structure, TypeOK
<1>7. ASSUME NEW h \in Threads, NEW t \in Transfers, SubmitEnds(h, t) PROVE TypeOK'
    BY <1>7, ZenonT(60) DEF SubmitEnds, FlagAfterSubmit, FlagAfterError, structure, TypeOK, Calls
<1>8. ASSUME NEW h \in Threads, NEW t \in Transfers, Cancel(h, t) PROVE TypeOK'
    BY <1>8 DEF Cancel, object, structure, TypeOK, Calls
<1>9. ASSUME NEW h \in Threads, NEW t \in Transfers, CancelEnds(h, t) PROVE TypeOK'
    BY <1>9 DEF CancelEnds, structure, TypeOK, Calls
<1>10. ASSUME NEW t \in Transfers, Event(t) PROVE TypeOK'
    BY <1>10 DEF Event, FlagAtEvent, structure, TypeOK
<1>11. ASSUME EventEnds PROVE TypeOK'
    BY <1>11 DEF EventEnds, object, structure, TypeOK
<1>12. ASSUME UNCHANGED vars PROVE TypeOK'
    BY <1>12 DEF vars, TypeOK
<1> QED
    BY <1>1, <1>2, <1>3, <1>4, <1>5, <1>6, <1>7, <1>8, <1>9, <1>10,
       <1>11, <1>12 DEF Next, Method

LEMMA TypeInitial == Init => TypeOK
    BY TransfersAssumption DEF Init, TypeOK, Kinds, Calls

\* Type correctness of the transfer objects and of libusb's view of them.
THEOREM AsyncType == Spec => []TypeOK
    BY TypeInitial, TypeStep, PTL DEF Spec

-----------------------------------------------------------------------------
\* The flag is set before libusb is asked, and taken back only when libusb
\* refused: no completion can be missed, with or without cancellation.
THEOREM AsyncNeverStuck == Spec => []SubmittedIsPending
<1>1. Init => SubmittedIsPending
    BY DEF Init, SubmittedIsPending
<1>2. TypeOK /\ SubmittedIsPending /\ [Next]_vars => SubmittedIsPending'
  <2> SUFFICES ASSUME TypeOK, SubmittedIsPending, [Next]_vars,
                      NEW x \in Transfers, submitted'[x], ~Submitting(x)'
               PROVE  pending'[x] # "no"
      BY DEF SubmittedIsPending
  <2> USE DEF TypeOK, SubmittedIsPending, Submitting, Idle
  <2>1. ASSUME NEW h \in Threads, NEW t \in Transfers,
               \/ \E k \in Kinds, b \in Buffers, c \in Callbacks \cup {None} :
                     SetUp(h, t, k, b, c)
               \/ \E b \in Buffers : SetBuffer(h, t, b)
               \/ \E c \in Callbacks \cup {None} : SetCallback(h, t, c)
               \/ Close(h, t)
        PROVE  pending'[x] # "no"
    <3>1. UNCHANGED <<submitted, pending, call>>
        BY <2>1 DEF SetUp, SetBuffer, SetCallback, Close, object
    <3> QED
        BY <3>1
  <2>2. ASSUME NEW h \in Threads, NEW t \in Transfers, Submit(h, t)
        PROVE  pending'[x] # "no"
      BY <2>2 DEF Submit, MayUse
  <2>3. ASSUME NEW h \in Threads, NEW t \in Transfers, LibSubmit(h, t)
        PROVE  pending'[x] # "no"
    <3>1. submitted' = submitted
        BY <2>3 DEF LibSubmit, object
    <3>2. CASE x = t
        BY <2>3, <3>1, <3>2 DEF LibSubmit
    <3>3. CASE x # t
        BY <2>3, <3>1, <3>3 DEF LibSubmit
    <3> QED
        BY <3>2, <3>3
  <2>4. ASSUME NEW h \in Threads, NEW t \in Transfers, SubmitEnds(h, t)
        PROVE  pending'[x] # "no"
      BY <2>4 DEF SubmitEnds, FlagAfterSubmit, FlagAfterError
  <2>5. ASSUME NEW h \in Threads, NEW t \in Transfers, Cancel(h, t)
        PROVE  pending'[x] # "no"
      BY <2>5 DEF Cancel, MayUse, object
  <2>6. ASSUME NEW h \in Threads, NEW t \in Transfers, CancelEnds(h, t)
        PROVE  pending'[x] # "no"
      BY <2>6 DEF CancelEnds
  <2>7. ASSUME NEW t \in Transfers, Event(t) PROVE pending'[x] # "no"
      BY <2>7 DEF Event, FlagAtEvent
  <2>8. CASE EventEnds
      BY <2>8 DEF EventEnds, object
  <2>9. CASE UNCHANGED vars
      BY <2>9 DEF vars
  <2> QED
      BY <2>1, <2>2, <2>3, <2>4, <2>5, <2>6, <2>7, <2>8, <2>9 DEF Next, Method
<1> QED
    BY <1>1, <1>2, AsyncType, PTL DEF Spec

-----------------------------------------------------------------------------
(* Transfers that the program does not cancel.                             *)

Asked(h, t) == call[h].on = t /\ call[h].op \in {"submit", "failed"}

\* The flag covers libusb's ownership; a submit that libusb has not taken
\* holds the flag and belongs to the one thread that may use the transfer;
\* what is on its way to libusb is set up.
Held ==
    /\ \A t \in Transfers \ Cancelling :
          /\ pending[t] # "cancelled"
          /\ pending[t] = "yes" => submitted[t] /\ initialized[t]
    /\ \A h \in Threads : call[h].op = "cancel" => call[h].on \in Cancelling
    /\ \A h \in Threads, t \in Transfers \ Cancelling :
          Asked(h, t) =>
             /\ submitted[t] /\ pending[t] = "no"
             /\ call[h].op = "submit" => initialized[t]
             /\ h = "events" <=> handling = t

LEMMA HeldInit == Init => Held
BY DEF Init, Held, Asked, Idle, Threads

\* The methods that change the structure find the transfer unsubmitted, so
\* that libusb does not own it and no submit of it is under way.
LEMMA HeldAlter ==
    ASSUME TypeOK, Held, NEW h \in Threads, NEW t \in Transfers,
           \/ \E k \in Kinds, b \in Buffers, c \in Callbacks \cup {None} :
                 SetUp(h, t, k, b, c)
           \/ \E b \in Buffers : SetBuffer(h, t, b)
           \/ \E c \in Callbacks \cup {None} : SetCallback(h, t, c)
           \/ Close(h, t)
    PROVE  Held'
<1>1. /\ UNCHANGED <<submitted, pending, handling, call>>
      /\ ~submitted[t]
    BY DEF SetUp, SetBuffer, SetCallback, Close, object, Unsubmitted
<1>2. t \notin Cancelling => pending[t] = "no" /\ \A g \in Threads : ~Asked(g, t)
    BY <1>1 DEF Held, TypeOK
<1>3. \A u \in Transfers : u # t =>
          initialized'[u] = initialized[u]
    BY DEF SetUp, SetBuffer, SetCallback, Close, object, structure, TypeOK
<1> QED
    BY <1>1, <1>2, <1>3 DEF Held, Asked

LEMMA HeldStep == TypeOK /\ Held /\ [Next]_vars => Held'
<1> SUFFICES ASSUME TypeOK, Held, [Next]_vars PROVE Held'
    OBVIOUS
<1>2. ASSUME NEW h \in Threads, NEW t \in Transfers, Submit(h, t) PROVE Held'
  <2>1. t \notin Cancelling =>
           pending[t] = "no" /\ initialized[t] /\ \A g \in Threads : ~Asked(g, t)
      BY <1>2 DEF Submit, Unsubmitted, Ready, Held, TypeOK
  <2>2. h = "events" <=> handling = t
      BY <1>2 DEF Submit, MayUse, Threads
  <2> QED
      BY <1>2, <2>1, <2>2
      DEF Submit, FlagAtSubmit, structure, Held, Asked, TypeOK
<1>3. ASSUME NEW h \in Threads, NEW t \in Transfers, LibSubmit(h, t) PROVE Held'
  <2>1. Asked(h, t) /\ call[h].op = "submit"
      BY <1>3 DEF LibSubmit, Asked
  <2>2. t \notin Cancelling => \A g \in Threads : g # h => ~Asked(g, t)
      BY <2>1 DEF Held, Threads
  <2>3. t \notin Cancelling => submitted[t] /\ initialized[t] /\ pending[t] = "no"
      BY <2>1 DEF Held
  <2>4. t \notin Cancelling => (h = "events" <=> handling = t)
      BY <2>1 DEF Held
  <2>5. UNCHANGED <<object, structure, handling>>
      BY <1>3 DEF LibSubmit
  <2>6. CASE call' = [call EXCEPT ![h] = [op |-> "failed", on |-> t]]
             /\ pending' = pending
      BY <2>2, <2>3, <2>4, <2>5, <2>6 DEF Held, Asked, TypeOK, object, structure
  <2>7. CASE call' = [call EXCEPT ![h] = [op |-> "submitted", on |-> t]]
             /\ pending' = [pending EXCEPT ![t] = "yes"]
      BY <2>2, <2>3, <2>5, <2>7 DEF Held, Asked, TypeOK, object, structure
  <2> QED
      BY <1>3, <2>6, <2>7 DEF LibSubmit
<1>4. ASSUME NEW h \in Threads, NEW t \in Transfers, SubmitEnds(h, t) PROVE Held'
  <2>1. CASE call[h] = [op |-> "submitted", on |-> t]
      BY <1>4, <2>1
      DEF SubmitEnds, FlagAfterSubmit, Held, Asked, TypeOK, structure, Idle
  <2>2. CASE call[h] = [op |-> "failed", on |-> t]
    <3>1. Asked(h, t)
        BY <2>2 DEF Asked
    <3>2. t \notin Cancelling =>
             pending[t] = "no" /\ \A g \in Threads : g # h => ~Asked(g, t)
        BY <3>1 DEF Held, Threads
    <3> QED
        BY <1>4, <2>2, <3>2
        DEF SubmitEnds, FlagAfterError, Held, Asked, TypeOK, structure, Idle
  <2> QED
      BY <1>4, <2>1, <2>2 DEF SubmitEnds
<1>5. ASSUME NEW h \in Threads, NEW t \in Transfers, Cancel(h, t) \/ CancelEnds(h, t)
      PROVE  Held'
  <2>1. t \in Cancelling
      BY <1>5 DEF Cancel, CancelEnds, Held
  <2>2. \A g \in Threads, u \in Transfers \ Cancelling : Asked(g, u)' => Asked(g, u)
      BY <1>5, <2>1 DEF Cancel, CancelEnds, Asked, TypeOK, Idle
  <2>3. /\ UNCHANGED <<structure, initialized, handling>>
        /\ \A u \in Transfers \ Cancelling :
              submitted'[u] = submitted[u] /\ pending'[u] = pending[u]
      BY <1>5, <2>1 DEF Cancel, CancelEnds, object, structure, TypeOK
  <2>4. \A g \in Threads : call'[g].op = "cancel" => call'[g].on \in Cancelling
      BY <1>5, <2>1 DEF Cancel, CancelEnds, TypeOK, Held, Idle
  <2>5. \A g \in Threads, u \in Transfers \ Cancelling :
           Asked(g, u)' => call'[g] = call[g]
      BY <1>5, <2>1 DEF Cancel, CancelEnds, Asked, TypeOK, Idle
  <2> QED
      BY <2>1, <2>2, <2>3, <2>4, <2>5 DEF Held, structure
<1>6. ASSUME NEW t \in Transfers, Event(t) PROVE Held'
  <2>1. call["events"] = Idle
        /\ (t \notin Cancelling => \A g \in Threads : ~Asked(g, t))
      BY <1>6 DEF Event, Held
  <2>2. \A g \in Threads, u \in Transfers : Asked(g, u) => g # "events"
      BY <2>1, TransfersAssumption DEF Asked, Idle
  <2> QED
      BY <1>6, <2>1, <2>2
      DEF Event, FlagAtEvent, Held, Asked, TypeOK, structure
<1>7. ASSUME EventEnds PROVE Held'
  <2>1. \A u \in Transfers : ~Asked("events", u)
      BY <1>7, TransfersAssumption DEF EventEnds, Asked, Idle
  <2> QED
      BY <1>7, <2>1, TransfersAssumption
      DEF EventEnds, Held, Asked, TypeOK, object, structure, Threads
<1>8. CASE UNCHANGED vars
    BY <1>8 DEF vars, Held, Asked
<1> QED
    BY HeldAlter, <1>2, <1>3, <1>4, <1>5, <1>6, <1>7, <1>8 DEF Next, Method

LEMMA HeldAlways == Spec => [](TypeOK /\ Held)
<1>1. TypeOK /\ Held /\ [Next]_vars => Held'
    BY HeldStep
<1> QED
    BY <1>1, HeldInit, AsyncType, PTL DEF Spec

\* isSubmitted says the truth of a transfer that is not cancelled: what libusb
\* owns is submitted.
THEOREM AsyncPendingIsSubmitted == Spec => []PendingIsSubmitted
<1>1. TypeOK /\ Held => PendingIsSubmitted
    BY DEF TypeOK, Held, PendingIsSubmitted
<1> QED
    BY <1>1, HeldAlways, PTL

\* libusb never has a transfer that is not set up and that nobody cancels.
THEOREM AsyncPendingIsSetUp == Spec => []PendingIsSetUp
<1>1. TypeOK /\ Held => PendingIsSetUp
    BY DEF TypeOK, Held, PendingIsSetUp
<1> QED
    BY <1>1, HeldAlways, PTL

\* The flag says who owns a transfer, in every interleaving of the two threads.
THEOREM AsyncTransfersAreSound == Spec => []TransfersAreSound
<1>1. SubmittedIsPending /\ PendingIsSubmitted /\ PendingIsSetUp => TransfersAreSound
    BY DEF TransfersAreSound
<1> QED
    BY <1>1, AsyncNeverStuck, AsyncPendingIsSubmitted, AsyncPendingIsSetUp, PTL

\* Nothing touches a structure that libusb owns and nobody cancels.
THEOREM AsyncOwnedIsUntouched == Spec => OwnedIsUntouched
<1> DEFINE Same(t) == /\ kind'[t] = kind[t] /\ buffer'[t] = buffer[t]
                      /\ callback'[t] = callback[t]
<1>1. TypeOK /\ Held /\ [Next]_vars
         => [\A t \in Transfers \ Cancelling : pending[t] # "no" => Same(t)]_vars
  <2> SUFFICES ASSUME TypeOK, Held, Next, NEW x \in Transfers \ Cancelling,
                      pending[x] # "no"
               PROVE  Same(x)
      OBVIOUS
  <2>1. submitted[x]
      BY DEF TypeOK, Held
  <2>2. ASSUME NEW h \in Threads, NEW t \in Transfers, Method(h, t) PROVE Same(x)
      BY <2>1, <2>2
      DEF Method, SetUp, SetBuffer, SetCallback, Close, Submit,
          LibSubmit, SubmitEnds, Cancel, CancelEnds, Unsubmitted, object,
          structure, TypeOK
  <2>3. ASSUME NEW t \in Transfers, Event(t) PROVE Same(x)
      BY <2>3 DEF Event, structure
  <2>4. ASSUME EventEnds PROVE Same(x)
      BY <2>4 DEF EventEnds, object, structure
  <2> QED
      BY <2>2, <2>3, <2>4 DEF Next
<1> QED
    BY <1>1, HeldAlways, PTL DEF Spec, OwnedIsUntouched

(***************************************************************************)
(* The device dialog                                                       *)
(***************************************************************************)

\* What the sheet acts on has a configuration, and nothing is selected while the
\* program searches.
Chosen == selectedConfig \in ConfigMap \cup {NoHandle}
NoneWhileSearching == pc \in {"start", "scan"} => selectedConfig = NoHandle

\* Until the sheet is left the configurations are those of open handles of the list.
ConfigsAreOpen == ~quitting => ConfigMap \subseteq open \cap Range(DeviceList)

\* A selected configuration is the one whose version and values are shown.
ShownTogether ==
  AtRest /\ Range(DeviceList) = ConfigMap /\ selectedConfig # NoHandle
    => version = selectedConfig /\ values = selectedConfig

LEMMA DialogSizes ==
  /\ Cardinality(Controllers) \in Nat /\ MaxScans \in Nat \ {0} /\ MaxEcho \in Nat \ {0}
  /\ NoHandle \notin Handles
BY DialogAssumption, FS_CardinalityType

\* What libusb lists is a sequence of different controllers.
LEMMA HereType ==
  ASSUME DialogTypeOK, NEW here \in Listed
  PROVE  here \in Seq(Controllers) /\ Len(here) <= Cardinality(Controllers)
<1>1. PICK s \in SUBSET plugged : here \in SetToSeqs(s)
  BY DEF Listed, SetToAllKPermutations
<1>2. here \in [1 .. Cardinality(s) -> s]
  BY <1>1 DEF SetToSeqs
<1>3. s \in SUBSET Controllers
  BY DEF DialogTypeOK
<1>4. Cardinality(s) \in Nat /\ Cardinality(s) <= Cardinality(Controllers)
  BY <1>3, DialogAssumption, FS_Subset, FS_CardinalityType
<1> QED BY <1>2, <1>3, <1>4

\* FindDevices: the list of the handles that were opened.
LEMMA OpenedType ==
  ASSUME DialogTypeOK, scans < MaxScans, NEW here \in Listed
  PROVE  /\ Opened(here) \in Seq(Handles)
         /\ Len(Opened(here)) \in Nat /\ Len(Opened(here)) <= Cardinality(Controllers)
         /\ Ids(Opened(here)) \in Seq(Controllers)
         /\ Len(Ids(Opened(here))) <= Cardinality(Controllers)
<1>1. here \in Seq(Controllers) /\ Len(here) <= Cardinality(Controllers)
      /\ DOMAIN here = 1 .. Len(here) /\ Len(here) \in Nat
  BY HereType
<1>2. scans + 1 \in 1 .. MaxScans
  BY DialogSizes DEF DialogTypeOK
<1>3. \A i \in DOMAIN here : here[i] \in Controllers
  BY <1>1
<1>4. \A i \in DOMAIN here : [ctrl |-> here[i], scan |-> scans + 1] \in Handles
  BY Zenon, <1>2, <1>3 DEF Handles
<1> DEFINE list == [i \in 1 .. Len(here) |-> [ctrl |-> here[i], scan |-> scans + 1]]
<1>5. Opened(here) = list
  BY <1>1 DEF Opened
<1>6. list \in Seq(Handles) /\ Len(list) = Len(here) /\ DOMAIN list = 1 .. Len(here)
  BY <1>1, <1>4
<1>7. \A i \in 1 .. Len(here) : list[i] \in Handles
  BY <1>1, <1>4
<1> HIDE DEF list
<1>8. Ids(list) \in Seq(Controllers) /\ Len(Ids(list)) = Len(here)
  <2>1. \A i \in 1 .. Len(here) : list[i].ctrl \in Controllers
    BY <1>7 DEF Handles
  <2>2. Ids(list) = [i \in 1 .. Len(here) |-> list[i].ctrl]
    BY <1>6 DEF Ids
  <2> QED BY <1>1, <2>1, <2>2
<1> QED BY <1>1, <1>5, <1>6, <1>8

\* LoadConfigs: only controllers of the list have a configuration.
LEMMA ConfiguredIn ==
  ASSUME NEW list \in Seq(Handles), NEW n \in 0 .. Len(list)
  PROVE  Configured(list, n) \subseteq Range(list) /\ Range(list) \subseteq Handles
<1>1. \A j \in 1 .. n : j \in DOMAIN list
  OBVIOUS
<1>2. \A j \in DOMAIN list : list[j] \in Handles
  OBVIOUS
<1> QED BY <1>1, <1>2 DEF Configured, Range

\* The values of the sheet after a line was shown.
LEMMA ShowType ==
  ASSUME DialogTypeOK, NEW h \in Handles, NEW configs, NEW boots, Show(h, configs, boots)
  PROVE  /\ selectedConfig' \in Handles \cup {NoHandle}
         /\ {version', values'} \subseteq Handles \cup {NoHandle}
         /\ h \notin configs => selectedConfig' = selectedConfig
         /\ h \in configs => /\ selectedConfig' = h
                             /\ \/ version' = h /\ values' = h
                                \/ /\ selectedConfig = h
                                   /\ version' = version /\ values' = values
BY DEF DialogTypeOK, Show, Reloads

(***************************************************************************)
(* The type of the variables                                               *)
(***************************************************************************)

\* The three ways in which an attempt leaves the sheet.
Found(list, n) ==
  /\ list # <<>>
  /\ open' = Released \cup Range(list) /\ DeviceList' = list
  /\ ConfigMap' = Configured(list, n) /\ ShowFound(list, ConfigMap')
Asks(list, n) ==
  /\ open' = Released \cup Range(list) /\ DeviceList' = list
  /\ ConfigMap' = Configured(list, n) /\ UNCHANGED <<screen, pc>>
Finds0(list, n) ==
  /\ list = <<>>
  /\ open' = Released \cup Range(list) /\ DeviceList' = list
  /\ ConfigMap' = Configured(list, n) /\ UNCHANGED screen
  /\ pc' = IF pc = "start" THEN "ended" ELSE "loop"

LEMMA AttemptCases ==
  ASSUME DialogTypeOK, Attempt
  PROVE  \E list \in Seq(Handles) : \E n \in 0 .. Len(list) :
            /\ Len(list) <= Cardinality(Controllers) /\ Ids(list) \in Seq(Controllers)
            /\ Len(Ids(list)) <= Cardinality(Controllers)
            /\ Found(list, n) \/ Asks(list, n) \/ Finds0(list, n)
<1>1. PICK here \in Listed :
        \E n \in 0 .. Len(Opened(here)) :
          \/ Found(Opened(here), n) \/ Asks(Opened(here), n) \/ Finds0(Opened(here), n)
  BY Zenon DEF Attempt, GivesUp, Found, Asks, Finds0
<1>2. scans < MaxScans
  BY DEF Attempt
<1> QED BY Zenon, <1>1, <1>2, OpenedType

\* The search knows the boot loaders among the handles it has opened.
LEMMA AttemptBoots ==
  ASSUME DialogTypeOK, Attempt
  PROVE  \E list \in Seq(Handles) :
            bootLoaders' = {h \in Range(list) : mode[h.ctrl] = "usbboot"}
<1>1. PICK here \in Listed :
        bootLoaders' = {h \in Range(Opened(here)) : mode[h.ctrl] = "usbboot"}
  BY Zenon DEF Attempt
<1>2. scans < MaxScans
  BY DEF Attempt
<1> QED BY Zenon, <1>1, <1>2, OpenedType

LEMMA DialogTypeStep ==
  ASSUME DialogTypeOK, [DialogNext]_dialogVars
  PROVE  DialogTypeOK'
<1> USE DialogSizes
<1>1. ASSUME NEW c \in Controllers, Unplug(c) PROVE DialogTypeOK'
  BY <1>1 DEF Unplug, DialogTypeOK, Modes, devices, screen
<1>2. ASSUME NEW c \in Controllers, NEW m \in Modes, Plug(c, m) PROVE DialogTypeOK'
  BY <1>2 DEF Plug, DialogTypeOK, devices, screen
<1>3. CASE cbScanDevices
  BY <1>3 DEF cbScanDevices, DialogTypeOK, devices, bus, Forgotten
<1>4. CASE Attempt
  <2>0. PICK list \in Seq(Handles) : \E n \in 0 .. Len(list) :
            /\ Len(list) <= Cardinality(Controllers) /\ Ids(list) \in Seq(Controllers)
            /\ Len(Ids(list)) <= Cardinality(Controllers)
            /\ Found(list, n) \/ Asks(list, n) \/ Finds0(list, n)
    BY Zenon, <1>4, AttemptCases
  <2>1. PICK n \in 0 .. Len(list) :
            /\ Len(list) <= Cardinality(Controllers) /\ Ids(list) \in Seq(Controllers)
            /\ Len(Ids(list)) <= Cardinality(Controllers)
            /\ Found(list, n) \/ Asks(list, n) \/ Finds0(list, n)
    BY Zenon, <2>0
  <2>2. /\ scans < MaxScans /\ scans' = scans + 1 /\ UNCHANGED <<plugged, mode, echo, running, quitting>>
    BY <1>4 DEF Attempt, bus
  <2>3. Range(list) \subseteq Handles /\ Configured(list, n) \subseteq Handles /\ Released \subseteq Handles
    BY ConfiguredIn DEF Released, DialogTypeOK
  <2>4. open' \subseteq Handles /\ DeviceList' = list /\ ConfigMap' \subseteq Handles
    BY <2>1, <2>3 DEF Found, Asks, Finds0
  <2>5. bootLoaders' \subseteq Handles
    <3>1. \E l \in Seq(Handles) : bootLoaders' = {h \in Range(l) : mode[h.ctrl] = "usbboot"}
      BY Zenon, <1>4, AttemptBoots
    <3> QED BY <3>1 DEF Range
  <2>6. /\ selectedConfig' \in Handles \cup {NoHandle} /\ selectedIdx' \in 0 .. Cardinality(Controllers)
        /\ {version', values'} \subseteq Handles \cup {NoHandle}
        /\ listed' \in Seq(Controllers) /\ Len(listed') <= Cardinality(Controllers)
        /\ pc' \in {"start", "scan", "loop", "ended"}
    <3>1. CASE Found(list, n)
      <4>1. /\ list # <<>> /\ Show(list[1], ConfigMap', bootLoaders') /\ listed' = Ids(list) /\ selectedIdx' = 1
            /\ pc' \in {"ended", "loop"}
        BY <3>1 DEF Found, ShowFound
      <4>2. list[1] \in Handles /\ 1 \in 0 .. Cardinality(Controllers)
        BY <2>1, <4>1
      <4> QED BY <2>1, <4>1, <4>2, ShowType
    <3>2. CASE Asks(list, n) \/ Finds0(list, n)
      BY <3>2 DEF Asks, Finds0, screen, DialogTypeOK
    <3> QED BY <2>1, <3>1, <3>2
  <2> QED BY <2>1, <2>2, <2>4, <2>5, <2>6 DEF DialogTypeOK
<1>5. ASSUME NEW i \in 1 .. Cardinality(Controllers), cbSelectDevice(i) PROVE DialogTypeOK'
  <2>1. /\ selectedIdx' = i /\ UNCHANGED <<plugged, mode, open, DeviceList, bootLoaders, ConfigMap, listed>>
        /\ UNCHANGED <<echo, running, scans, quitting, pc>>
    BY <1>5 DEF cbSelectDevice, bus, devices
  <2>2. /\ selectedConfig' \in Handles \cup {NoHandle}
        /\ {version', values'} \subseteq Handles \cup {NoHandle}
    <3>1. CASE i \in DOMAIN DeviceList
      <4>1. DeviceList[i] \in Handles
        BY <3>1 DEF DialogTypeOK
      <4>2. Show(DeviceList[i], ConfigMap, bootLoaders)
        BY <1>5, <3>1 DEF cbSelectDevice
      <4> QED BY <4>1, <4>2, ShowType
    <3>2. CASE i \notin DOMAIN DeviceList
      BY <1>5, <3>2 DEF cbSelectDevice, DialogTypeOK
    <3> QED BY <3>1, <3>2
  <2>3. i \in 0 .. Cardinality(Controllers)
    OBVIOUS
  <2> QED BY <2>1, <2>2, <2>3 DEF DialogTypeOK
<1>6. CASE cbSheetSelected
  BY <1>6 DEF cbSheetSelected, DialogTypeOK, devices, bus
<1>7. CASE cbEchoTest
  <2>1. echo' \in Seq(Handles) /\ Len(echo') <= MaxEcho /\ running' \in BOOLEAN
    <3>1. selectedIdx \in DOMAIN DeviceList => DeviceList[selectedIdx] \in Handles
      BY DEF DialogTypeOK
    <3>2. /\ echo \in Seq(Handles) /\ Len(echo) <= MaxEcho
      BY DEF DialogTypeOK
    <3>3. CASE running /\ running' = FALSE /\ echo' = echo
      BY <3>2, <3>3
    <3>4. CASE /\ ~running /\ selectedIdx # 0 /\ Len(echo) < MaxEcho
               /\ running' = TRUE
               /\ echo' = IF selectedIdx \in DOMAIN DeviceList
                          THEN Append(echo, DeviceList[selectedIdx])
                          ELSE echo
      <4>1. CASE selectedIdx \in DOMAIN DeviceList
        <5>1. echo' = Append(echo, DeviceList[selectedIdx])
          BY <3>4, <4>1
        <5>2. echo' \in Seq(Handles) /\ Len(echo') = Len(echo) + 1 /\ Len(echo) \in Nat
          BY <3>1, <3>2, <4>1, <5>1
        <5> QED BY <3>4, <5>2
      <4>2. CASE selectedIdx \notin DOMAIN DeviceList
        BY <3>2, <3>4, <4>2
      <4> QED BY <4>1, <4>2
    <3> QED BY Zenon, <1>7, <3>3, <3>4 DEF cbEchoTest
  <2> QED BY <1>7, <2>1 DEF cbEchoTest, DialogTypeOK, devices, bus, screen
<1>8. CASE EchoStep
  <2>1. echo' \in Seq(Handles) /\ Len(echo') <= MaxEcho
    BY <1>8 DEF EchoStep, DialogTypeOK, Front
  <2> QED BY <1>8, <2>1 DEF EchoStep, DialogTypeOK, devices, bus, screen
<1>9. CASE storeAndQuit
  <2>1. Released \subseteq Handles
    BY DEF Released, DialogTypeOK
  <2> QED BY <1>9, <2>1 DEF storeAndQuit, DialogTypeOK, bus, screen
<1>10. CASE Ended \/ UNCHANGED dialogVars
  BY <1>10 DEF Ended, dialogVars, DialogTypeOK, devices, bus, screen
<1> QED BY Zenon, <1>1, <1>2, <1>3, <1>4, <1>5, <1>6, <1>7, <1>8, <1>9, <1>10 DEF DialogNext

LEMMA DialogTypeInitial == DialogInit => DialogTypeOK
<1> SUFFICES ASSUME DialogInit PROVE DialogTypeOK
  OBVIOUS
<1>1. \A S : <<>> \in Seq(S)
  OBVIOUS
<1>2. Len(<<>>) <= Cardinality(Controllers) /\ Len(<<>>) <= MaxEcho
  BY DialogSizes
<1>3. 0 \in 0 .. Cardinality(Controllers) /\ 0 \in 0 .. MaxScans
  BY DialogSizes
<1> QED BY <1>1, <1>2, <1>3 DEF DialogInit, DialogTypeOK

\* The variables of the device sheet have their types.
THEOREM DialogType == DialogSpec => []DialogTypeOK
BY DialogTypeInitial, DialogTypeStep, PTL DEF DialogSpec

(***************************************************************************)
(* The sheet and the last search                                           *)
(***************************************************************************)

\* What the callbacks keep between the list, the configurations and the sheet.
Current ==
  /\ Chosen /\ NoneWhileSearching /\ ConfigsAreOpen
  /\ ListedIsFound /\ ScreenIsSelected /\ ShownTogether

\* A step that touches neither the handles nor the sheet.
LEMMA SameSheet ==
  ASSUME Current, UNCHANGED <<devices, screen, quitting>>, pc' \in {pc, "ended"}
  PROVE  Current'
<1>1. /\ UNCHANGED <<open, DeviceList, ConfigMap, selectedConfig, selectedIdx>>
      /\ UNCHANGED <<listed, version, values, quitting>>
  BY DEF devices, screen
<1>2. AtRest' => AtRest
  BY <1>1 DEF AtRest
<1>3. Chosen' /\ NoneWhileSearching' /\ ConfigsAreOpen'
  BY <1>1 DEF Current, Chosen, NoneWhileSearching, ConfigsAreOpen
<1>4. ListedIsFound' /\ ScreenIsSelected' /\ ShownTogether'
  BY <1>1, <1>2 DEF Current, ListedIsFound, ScreenIsSelected, ShownTogether
<1> QED BY <1>3, <1>4 DEF Current

\* scanDevices: nothing is selected until the search has ended.
LEMMA ScanCurrent == ASSUME Current, cbScanDevices PROVE Current'
<1>1. /\ selectedConfig' = NoHandle /\ pc' = "scan"
      /\ UNCHANGED <<open, DeviceList, ConfigMap, quitting>>
  BY DEF cbScanDevices, Forgotten, devices
<1>2. ~AtRest'
  BY <1>1 DEF AtRest
<1>3. Chosen' /\ NoneWhileSearching' /\ ConfigsAreOpen'
  BY <1>1 DEF Current, Chosen, NoneWhileSearching, ConfigsAreOpen
<1> QED BY <1>2, <1>3 DEF Current, ListedIsFound, ScreenIsSelected, ShownTogether

\* storeAndQuit: the handles are released and the sheet is left.
LEMMA QuitCurrent == ASSUME Current, storeAndQuit PROVE Current'
<1>1. /\ quitting' = TRUE /\ pc' \in {"ended", "loop"}
      /\ UNCHANGED <<ConfigMap, selectedConfig>>
  BY DEF storeAndQuit, screen
<1>2. ~AtRest'
  BY <1>1 DEF AtRest
<1>3. Chosen' /\ NoneWhileSearching' /\ ConfigsAreOpen'
  BY <1>1 DEF Current, Chosen, NoneWhileSearching, ConfigsAreOpen
<1> QED BY <1>2, <1>3 DEF Current, ListedIsFound, ScreenIsSelected, ShownTogether

\* cbSheetSelected: the selected configuration is shown again.
LEMMA SheetSelectedCurrent == ASSUME Current, cbSheetSelected PROVE Current'
<1>1. /\ version' = selectedConfig /\ values' = selectedConfig
      /\ UNCHANGED <<open, DeviceList, ConfigMap, selectedConfig, selectedIdx>>
      /\ UNCHANGED <<listed, quitting, pc>>
  BY DEF cbSheetSelected, devices
<1>2. AtRest' => AtRest
  BY <1>1 DEF AtRest
<1>3. Chosen' /\ NoneWhileSearching' /\ ConfigsAreOpen'
  BY <1>1 DEF Current, Chosen, NoneWhileSearching, ConfigsAreOpen
<1>4. ListedIsFound' /\ ShownTogether'
  BY <1>1, <1>2 DEF Current, ListedIsFound, ShownTogether
<1>5. ScreenIsSelected'
  BY <1>1, <1>2 DEF Current, ScreenIsSelected
<1> QED BY <1>3, <1>4, <1>5 DEF Current

\* A click on a line: when every controller has a configuration the line is shown,
\* or it was already.
LEMMA SelectCurrent ==
  ASSUME DialogTypeOK, Current, NEW i \in 1 .. Cardinality(Controllers), cbSelectDevice(i)
  PROVE  Current'
<1>1. /\ selectedIdx' = i /\ pc = "loop"
      /\ UNCHANGED <<open, DeviceList, ConfigMap, listed, quitting, pc>>
  BY DEF cbSelectDevice, devices
<1>2. AtRest' => AtRest
  BY <1>1 DEF AtRest
<1>3. ConfigsAreOpen' /\ ListedIsFound' /\ NoneWhileSearching'
  BY <1>1, <1>2 DEF Current, ConfigsAreOpen, ListedIsFound, NoneWhileSearching
<1>4. CASE i \in DOMAIN DeviceList
  <2>1. DeviceList[i] \in Handles /\ DeviceList[i] \in Range(DeviceList)
    BY <1>4 DEF DialogTypeOK, Range
  <2>2. Show(DeviceList[i], ConfigMap, bootLoaders)
    BY <1>4 DEF cbSelectDevice
  <2>3. DeviceList[i] \notin ConfigMap => selectedConfig' = selectedConfig
    BY <2>1, <2>2, ShowType
  <2>4. DeviceList[i] \in ConfigMap
          => /\ selectedConfig' = DeviceList[i]
             /\ \/ version' = DeviceList[i] /\ values' = DeviceList[i]
                \/ /\ selectedConfig = DeviceList[i]
                   /\ version' = version /\ values' = values
    BY <2>1, <2>2, ShowType
  <2>5. Chosen'
    BY <1>1, <2>3, <2>4 DEF Current, Chosen
  <2>6. AtRest' /\ Range(DeviceList') = ConfigMap'
          => /\ selectedConfig' = DeviceList[i]
             /\ version' = DeviceList[i] /\ values' = DeviceList[i]
    <3> SUFFICES ASSUME AtRest', Range(DeviceList') = ConfigMap'
                 PROVE  /\ selectedConfig' = DeviceList[i]
                        /\ version' = DeviceList[i] /\ values' = DeviceList[i]
      OBVIOUS
    <3>1. AtRest /\ Range(DeviceList) = ConfigMap /\ DeviceList[i] \in ConfigMap
      BY <1>1, <1>2, <2>1
    <3>2. selectedConfig = DeviceList[i] => version = DeviceList[i] /\ values = DeviceList[i]
      BY <2>1, <3>1, DialogSizes DEF Current, ShownTogether
    <3> QED BY <2>4, <3>1, <3>2
  <2>7. ScreenIsSelected' /\ ShownTogether'
    BY <1>1, <2>6 DEF ScreenIsSelected, ShownTogether
  <2> QED BY <1>3, <2>5, <2>7 DEF Current
<1>5. CASE i \notin DOMAIN DeviceList
  <2>1. UNCHANGED <<selectedConfig, version, values>>
    BY <1>5 DEF cbSelectDevice
  <2>2. Chosen' /\ ShownTogether'
    BY <1>1, <1>2, <2>1 DEF Current, Chosen, ShownTogether
  <2>3. ScreenIsSelected'
    BY <1>1, <1>5 DEF ScreenIsSelected
  <2> QED BY <1>3, <2>2, <2>3 DEF Current
<1> QED BY <1>4, <1>5

\* An attempt: the list, the configurations and the sheet follow the search.
LEMMA AttemptCurrent ==
  ASSUME DialogTypeOK, Current, Attempt
  PROVE  Current'
<1>1. PICK list \in Seq(Handles) : \E n \in 0 .. Len(list) :
         Found(list, n) \/ Asks(list, n) \/ Finds0(list, n)
  BY Zenon, AttemptCases
<1>2. PICK n \in 0 .. Len(list) : Found(list, n) \/ Asks(list, n) \/ Finds0(list, n)
  BY Zenon, <1>1
<1>3. selectedConfig = NoHandle /\ pc \in {"start", "scan"}
  BY DEF Attempt, Current, NoneWhileSearching
<1>4. /\ open' = Released \cup Range(list) /\ DeviceList' = list
      /\ ConfigMap' = Configured(list, n)
  BY <1>2 DEF Found, Asks, Finds0
<1>5. Configured(list, n) \subseteq Range(list)
  BY ConfiguredIn
<1>6. ConfigsAreOpen'
  BY <1>4, <1>5 DEF ConfigsAreOpen
<1>7. CASE Found(list, n)
  <2>1. /\ list # <<>> /\ listed' = Ids(list) /\ selectedIdx' = 1
        /\ Show(list[1], ConfigMap', bootLoaders') /\ pc' \in {"ended", "loop"}
    BY <1>7 DEF Found, ShowFound
  <2>2. list[1] \in Handles /\ list[1] \in Range(list) /\ list[1] # NoHandle
    BY <2>1, DialogSizes DEF Range
  <2>3. list[1] \notin ConfigMap' => selectedConfig' = NoHandle
    BY <1>3, <2>1, <2>2, ShowType
  <2>4. list[1] \in ConfigMap'
          => selectedConfig' = list[1] /\ version' = list[1] /\ values' = list[1]
    BY <1>3, <2>1, <2>2, ShowType
  <2>5. Chosen' /\ NoneWhileSearching' /\ ListedIsFound'
    BY <1>4, <2>1, <2>3, <2>4 DEF Chosen, NoneWhileSearching, ListedIsFound
  <2>6. ScreenIsSelected' /\ ShownTogether'
    BY <1>4, <2>1, <2>2, <2>4 DEF ScreenIsSelected, ShownTogether
  <2> QED BY <1>6, <2>5, <2>6 DEF Current
<1>8. CASE Asks(list, n)
  <2>1. selectedConfig' = NoHandle /\ pc' \in {"start", "scan"}
    BY <1>3, <1>8 DEF Asks, screen
  <2>2. ~AtRest'
    BY <2>1 DEF AtRest
  <2> QED BY <1>6, <2>1, <2>2
          DEF Current, Chosen, NoneWhileSearching, ListedIsFound, ScreenIsSelected, ShownTogether
<1>9. CASE Finds0(list, n)
  <2>1. selectedConfig' = NoHandle /\ pc' \in {"ended", "loop"} /\ list = <<>>
    BY <1>3, <1>9 DEF Finds0, screen
  <2>2. DeviceList' = <<>> /\ DOMAIN DeviceList' = {}
    BY <1>4, <2>1
  <2> QED BY <1>6, <2>1, <2>2
          DEF Current, Chosen, NoneWhileSearching, ListedIsFound, ScreenIsSelected, ShownTogether
<1> QED BY <1>2, <1>7, <1>8, <1>9

LEMMA CurrentStep ==
  ASSUME DialogTypeOK, Current, [DialogNext]_dialogVars
  PROVE  Current'
<1>1. ASSUME NEW c \in Controllers, Unplug(c) PROVE Current'
  BY <1>1, SameSheet DEF Unplug
<1>2. ASSUME NEW c \in Controllers, NEW m \in Modes, Plug(c, m) PROVE Current'
  BY <1>2, SameSheet DEF Plug
<1>3. CASE cbEchoTest
  BY <1>3, SameSheet DEF cbEchoTest
<1>4. CASE EchoStep
  BY <1>4, SameSheet DEF EchoStep
<1>5. CASE Ended \/ UNCHANGED dialogVars
  BY <1>5, SameSheet DEF Ended, dialogVars
<1> QED BY <1>1, <1>2, <1>3, <1>4, <1>5, ScanCurrent, AttemptCurrent, SelectCurrent,
           SheetSelectedCurrent, QuitCurrent DEF DialogNext

\* The sheet shows, and its buttons act on, what the last search has found
\* (device_dlg.py scanDevices, selectDevice).
THEOREM SheetStaysCurrent == DialogSpec => []SheetIsCurrent
<1>1. DialogInit => Current
  BY DEF DialogInit, Current, Chosen, NoneWhileSearching, ConfigsAreOpen, ListedIsFound,
         ScreenIsSelected, ShownTogether, AtRest
<1>2. DialogTypeOK /\ Current /\ [DialogNext]_dialogVars => Current'
  BY CurrentStep
<1>3. Current => SheetIsCurrent
  <2>1. Current => ConfigIsOpen
    BY DEF Current, ConfigIsOpen, Chosen, ConfigsAreOpen, AtRest
  <2> QED BY <2>1 DEF Current, SheetIsCurrent
<1> QED BY <1>1, <1>2, <1>3, DialogType, PTL DEF DialogSpec

(***************************************************************************)
(* Transfers and device sheet                                              *)
(***************************************************************************)

\* The values of the variables of both parts, in whichever a behaviour is about.
THEOREM DevicesType == MCSpec => []MCTypeOK
<1>1. MCInit => TypeOK /\ DialogTypeOK
  BY TypeInitial, DialogTypeInitial DEF MCInit
<1>2. TypeOK /\ DialogTypeOK /\ [MCNext]_<<vars, dialogVars, part>> =>
        (TypeOK /\ DialogTypeOK)'
  <2> SUFFICES ASSUME TypeOK, DialogTypeOK, [MCNext]_<<vars, dialogVars, part>>
               PROVE  TypeOK' /\ DialogTypeOK'
    OBVIOUS
  <2>1. [Next]_vars /\ [DialogNext]_dialogVars
    BY DEF MCNext
  <2> QED BY <2>1, TypeStep, DialogTypeStep
<1>3. TypeOK /\ DialogTypeOK => MCTypeOK
  BY DEF MCTypeOK
<1> QED BY <1>1, <1>2, <1>3, PTL DEF MCSpec
================================================================================
