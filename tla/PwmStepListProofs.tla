--------------------------- MODULE PwmStepListProofs ---------------------------
(***************************************************************************)
(* Proofs about PwmStepList: the linked list implements the sequences of   *)
(* PwmPages, for any number of channels and any settings.                  *)
(*                                                                         *)
(* PP is PwmPages once more, with its proofs: what PwmPagesProofs shows of *)
(* a step of PwmPages is used here of the step that the memory makes.      *)
(***************************************************************************)
EXTENDS PwmStepList, FiniteSetTheorems, SequenceTheorems, WellFoundedInduction, TLAPS

PP == INSTANCE PwmPagesProofs WITH
  steps           <- ListSteps,
  link            <- ListLink,
  active_pwm_page <- active_pwm_page.page,
  actual_pwm_step <- ListActual

(***************************************************************************)
(* The row of entries that the next_step pointers make.                    *)
(***************************************************************************)

LEMMA SizeFacts ==
  /\ NCHANNELS \in Nat \ {0} /\ PWM_STEP_PAGE_SIZE = NCHANNELS + 2
  /\ PWM_STEP_PAGE_SIZE \in Nat /\ PWM_STEP_PAGE_SIZE >= 3
  /\ 0 \in Entries /\ Entries \subseteq Nat
  BY SizeAssumption DEF PWM_STEP_PAGE_SIZE, Entries

LEMMA SmallestOf ==
  ASSUME NEW T \in SUBSET Nat, T # {}
  PROVE  \E x \in T : \A y \in T : x <= y
<1>1. PICK x \in T : \A y \in T : ~ (<<y, x>> \in OpToRel(<, Nat))
  BY NatLessThanWellFounded, WFMin
<1>2. \A y \in T : ~(y < x)
  BY <1>1 DEF OpToRel
<1> QED BY <1>2

LEMMA MinIs ==
  ASSUME NEW T \in SUBSET Nat, NEW x \in T, \A y \in T : x <= y
  PROVE  Min(T) = x
<1>1. Min(T) \in T /\ \A y \in T : Min(T) <= y
  BY DEF Min
<1>2. Min(T) \in Nat /\ x \in Nat /\ Min(T) <= x /\ x <= Min(T)
  BY <1>1
<1> QED BY <1>2

LEMMA MinIn ==
  ASSUME NEW T \in SUBSET Nat, T # {}
  PROVE  Min(T) \in T /\ \A y \in T : Min(T) <= y
  BY SmallestOf DEF Min

\* Following the pointers from the first entry is well defined.
LEMMA RowExists ==
  ASSUME NEW m, NEW n \in Nat \ {0}
  PROVE  \E f : f[1] = 0 /\ \A k \in 1 .. n - 1 : f[k+1] = m[f[k]].next_step.idx
<1> DEFINE R(f, j) == f[1] = 0 /\ \A k \in 1 .. j - 1 : f[k+1] = m[f[k]].next_step.idx
           Bad == {j \in Nat \ {0} : ~ \E f : R(f, j)}
<1>1. Bad = {}
  <2> SUFFICES ASSUME Bad # {} PROVE FALSE
    OBVIOUS
  <2>1. PICK j \in Bad : \A i \in Bad : j <= i
    <3>1. Bad \in SUBSET Nat
      OBVIOUS
    <3> HIDE DEF Bad
    <3> QED BY <3>1, SmallestOf
  <2>2. j \in Nat \ {0} /\ ~ \E f : R(f, j)
    OBVIOUS
  <2>3. CASE j = 1
    <3>1. R([k \in {1} |-> 0], 1)
      OBVIOUS
    <3> QED BY <2>2, <2>3, <3>1
  <2>4. CASE j # 1
    <3>1. j - 1 \in Nat \ {0} /\ j - 1 < j
      BY <2>2, <2>4
    <3>2. PICK f : R(f, j - 1)
      <4>1. j - 1 \notin Bad
        <5> HIDE DEF Bad
        <5> QED BY <2>1, <2>2, <3>1
      <4> HIDE DEF R
      <4> QED BY <3>1, <4>1
    <3> DEFINE g == [k \in 1 .. j |-> IF k = j THEN m[f[j-1]].next_step.idx ELSE f[k]]
    <3>3. \A k \in 1 .. j : g[k] = IF k = j THEN m[f[j-1]].next_step.idx ELSE f[k]
      OBVIOUS
    <3> HIDE DEF g
    <3>4. g[1] = 0
      BY <2>2, <2>4, <3>2, <3>3
    <3>5. ASSUME NEW k \in 1 .. j - 1 PROVE g[k+1] = m[g[k]].next_step.idx
      <4>1. k \in 1 .. j /\ k + 1 \in 1 .. j /\ k # j /\ (k + 1 = j <=> k = j - 1)
        BY <2>2
      <4>2. g[k] = f[k] /\ g[k+1] = IF k + 1 = j THEN m[f[j-1]].next_step.idx ELSE f[k+1]
        BY <3>3, <4>1
      <4>3. CASE k = j - 1
        BY <4>1, <4>2, <4>3
      <4>4. CASE k # j - 1
        <5>1. k \in 1 .. (j - 1) - 1
          BY <2>2, <4>4
        <5> QED BY <3>2, <4>1, <4>2, <4>4, <5>1
      <4> QED BY <4>3, <4>4
    <3>6. R(g, j)
      BY <3>4, <3>5
    <3> QED BY <2>2, <3>6
  <2> QED BY <2>3, <2>4
<1> QED BY <1>1

LEMMA RowIs ==
  ASSUME NEW m
  PROVE  /\ DOMAIN RowOf(m) = 1 .. PWM_STEP_PAGE_SIZE
         /\ RowOf(m)[1] = 0
         /\ \A k \in 1 .. PWM_STEP_PAGE_SIZE - 1 :
              RowOf(m)[k+1] = m[RowOf(m)[k]].next_step.idx
<1> DEFINE S == PWM_STEP_PAGE_SIZE
           R(f) == f = [k \in 1 .. S |-> IF k = 1 THEN 0 ELSE m[f[k-1]].next_step.idx]
           row == CHOOSE f : R(f)
<1>1. \E f : R(f)
  <2>1. PICK f : f[1] = 0 /\ \A k \in 1 .. S - 1 : f[k+1] = m[f[k]].next_step.idx
    <3>1. S \in Nat \ {0}
      BY SizeFacts
    <3> HIDE DEF S
    <3> QED BY <3>1, RowExists
  <2> DEFINE g == [k \in 1 .. S |-> f[k]]
  <2>2. \A k \in 1 .. S : k # 1 => k - 1 \in 1 .. S - 1 /\ (k - 1) + 1 = k /\ k - 1 \in 1 .. S
    BY SizeFacts
  <2>3. ASSUME NEW k \in 1 .. S
        PROVE  g[k] = IF k = 1 THEN 0 ELSE m[g[k-1]].next_step.idx
    <3>1. CASE k = 1
      BY <2>1, <3>1
    <3>2. CASE k # 1
      <4>1. f[(k-1)+1] = m[f[k-1]].next_step.idx
        BY <2>1, <2>2, <3>2
      <4>2. f[k] = m[f[k-1]].next_step.idx
        BY <2>2, <3>2, <4>1, Zenon
      <4>3. g[k-1] = f[k-1]
        BY <2>2, <3>2, Zenon
      <4> QED BY <3>2, <4>2, <4>3
    <3> QED BY <3>1, <3>2
  <2>4. g \in [1 .. S -> {f[k] : k \in 1 .. S}]
    OBVIOUS
  <2> HIDE DEF g
  <2>5. R(g)
    BY <2>3, <2>4
  <2> QED BY <2>5
<1>2. R(row)
  <2> HIDE DEF R
  <2> QED BY <1>1
<1>3. RowOf(m) = row
  BY Zenon DEF RowOf
<1> HIDE DEF row
<1>4. \A k \in 1 .. S - 1 : k + 1 \in 1 .. S /\ k + 1 # 1 /\ (k + 1) - 1 = k
  BY SizeFacts
<1>5. \A k \in 1 .. S - 1 : row[k+1] = m[row[k]].next_step.idx
  <2> SUFFICES ASSUME NEW k \in 1 .. S - 1 PROVE row[k+1] = m[row[k]].next_step.idx
    OBVIOUS
  <2>1. row[k+1] = m[row[(k+1)-1]].next_step.idx
    BY <1>2, <1>4
  <2> QED BY <1>4, <2>1
<1>6. DOMAIN row = 1 .. S /\ row[1] = 0
  BY <1>2, SizeFacts
<1> QED BY <1>3, <1>5, <1>6

\* A row that starts at the first entry and follows the pointers is the row.
Follows(m, r, n) ==
  r[1] = 0 /\ \A k \in 1 .. n - 1 : m[r[k]].next_step.idx = r[k+1]
RowBegins(m, r, n) == \A k \in 1 .. n : RowOf(m)[k] = r[k]

LEMMA RowPrefix ==
  ASSUME NEW m, NEW n \in 1 .. PWM_STEP_PAGE_SIZE, NEW r, Follows(m, r, n)
  PROVE  RowBegins(m, r, n)
<1> USE DEF Follows, RowBegins
<1> DEFINE row == RowOf(m)
           Bad == {k \in 1 .. n : row[k] # r[k]}
<1>0. /\ row[1] = 0
      /\ \A k \in 1 .. PWM_STEP_PAGE_SIZE - 1 : row[k+1] = m[row[k]].next_step.idx
  BY RowIs
<1> HIDE DEF row
<1>1. Bad = {}
  <2> SUFFICES ASSUME Bad # {} PROVE FALSE
    OBVIOUS
  <2>1. PICK j \in Bad : \A i \in Bad : j <= i
    <3>1. Bad \in SUBSET Nat
      OBVIOUS
    <3> HIDE DEF Bad
    <3> QED BY <3>1, SmallestOf
  <2>2. j \in 1 .. n /\ j # 1 /\ row[j] # r[j]
    BY <1>0
  <2>3. /\ j - 1 \in 1 .. n - 1 /\ j - 1 \in 1 .. PWM_STEP_PAGE_SIZE - 1
        /\ (j - 1) + 1 = j /\ j - 1 \in 1 .. n /\ j - 1 < j
    BY <2>2, SizeFacts
  <2>4. row[j-1] = r[j-1]
    BY <2>1, <2>3
  <2>5. row[j] = m[row[j-1]].next_step.idx /\ r[j] = m[r[j-1]].next_step.idx
    BY <1>0, <2>3
  <2> QED BY <2>2, <2>4, <2>5
<1> QED BY <1>1 DEF row

(***************************************************************************)
(* The shapes a page has.                                                  *)
(***************************************************************************)

StepEntry == [on : SUBSET PP!Outputs, timer_val : Int,
              next_step : [page : {1, 2}, idx : Nat]]
PageMemory == [Entries -> StepEntry]

\* The page that is built: one row of all entries, n steps and then the free entries.
OpenPage(p, m, n) ==
  LET row == RowOf(m)
  IN /\ n \in 0 .. PWM_STEP_PAGE_SIZE - 1
     /\ \A k \in 1 .. PWM_STEP_PAGE_SIZE :
          row[k] \in Entries /\ (m[row[k]].timer_val # 0 <=> k <= n)
     /\ \A k \in 1 .. PWM_STEP_PAGE_SIZE - 1 : m[row[k]].next_step.page = p
     /\ \A j, k \in 1 .. PWM_STEP_PAGE_SIZE : row[j] = row[k] => j = k

\* A finished page: n steps, the last of which leads to the first entry of a page.
ClosedPage(p, m, n) ==
  LET row == RowOf(m)
  IN /\ n \in 1 .. PWM_STEP_PAGE_SIZE - 1
     /\ \A k \in 1 .. n : row[k] \in Entries /\ m[row[k]].timer_val # 0
     /\ \A k \in 1 .. n - 1 : m[row[k]].next_step.page = p
     /\ \A j, k \in 1 .. n : row[j] = row[k] => j = k
     /\ m[row[n]].next_step.idx = 0

LEMMA LengthIs ==
  ASSUME NEW p, NEW m, NEW n \in 0 .. PWM_STEP_PAGE_SIZE - 1,
         \A k \in 1 .. n : m[RowOf(m)[k]].timer_val # 0,
         \A k \in 1 .. n - 1 : /\ m[RowOf(m)[k]].next_step.page = p
                               /\ m[RowOf(m)[k]].next_step.idx # 0,
         \/ m[RowOf(m)[n+1]].timer_val = 0
         \/ n > 0 /\ m[RowOf(m)[n]].next_step.idx = 0
  PROVE  Length(p, m) = n
<1> DEFINE row == RowOf(m)
           closes(i) == m[i].next_step.page # p \/ m[i].next_step.idx = 0
           T == {k \in 0 .. PWM_STEP_PAGE_SIZE - 1 :
                   m[row[k+1]].timer_val = 0 \/ (k > 0 /\ closes(row[k]))}
<1>1. Length(p, m) = Min(T)
  BY Zenon DEF Length
<1> HIDE DEF row
<1>2. T \in SUBSET Nat /\ n \in T
  BY DEF row
<1>3. ASSUME NEW k \in T, k < n PROVE FALSE
  <2>1. k + 1 \in 1 .. n /\ k \in Nat /\ (k > 0 => k \in 1 .. n - 1)
    BY <1>3
  <2>2. m[row[k+1]].timer_val # 0
    BY <2>1 DEF row
  <2>3. k > 0 /\ closes(row[k])
    BY <2>2
  <2>4. m[row[k]].next_step.page = p /\ m[row[k]].next_step.idx # 0
    BY <2>1, <2>3 DEF row
  <2> QED BY <2>3, <2>4
<1>4. \A k \in T : n <= k
  BY <1>2, <1>3
<1> HIDE DEF T
<1> QED BY <1>1, <1>2, <1>4, MinIs

LEMMA UsedIs ==
  ASSUME NEW p, NEW m, NEW n, OpenPage(p, m, n) PROVE Used(m) = n
<1> DEFINE row == RowOf(m)
           T == {k \in 0 .. PWM_STEP_PAGE_SIZE - 1 : m[row[k+1]].timer_val = 0}
<1>1. Used(m) = Min(T)
  BY Zenon DEF Used
<1>2. /\ n \in 0 .. PWM_STEP_PAGE_SIZE - 1
      /\ \A k \in 1 .. PWM_STEP_PAGE_SIZE : m[row[k]].timer_val # 0 <=> k <= n
  BY DEF OpenPage
<1> HIDE DEF row
<1>3. \A k \in 0 .. PWM_STEP_PAGE_SIZE - 1 :
        k + 1 \in 1 .. PWM_STEP_PAGE_SIZE /\ (k + 1 <= n <=> ~(n <= k))
  BY <1>2, SizeFacts
<1>4. T \in SUBSET Nat /\ n \in T /\ \A k \in T : n <= k
  BY <1>2, <1>3
<1> HIDE DEF T
<1> QED BY <1>1, <1>4, MinIs

\* What a page stands for, with the row of its steps in the first n places.
LEMMA StepsOf ==
  ASSUME NEW p \in {1, 2}, NEW m \in PageMemory, NEW n \in 0 .. PWM_STEP_PAGE_SIZE - 1,
         Length(p, m) = n, \A k \in 1 .. n : RowOf(m)[k] \in Entries
  PROVE  /\ ListOf(p, m) \in Seq(PP!Step) /\ Len(ListOf(p, m)) = n
         /\ DOMAIN ListOf(p, m) = 1 .. n
         /\ \A k \in 1 .. n :
              /\ ListOf(p, m)[k] = [on |-> m[RowOf(m)[k]].on,
                                    timer_val |-> m[RowOf(m)[k]].timer_val]
              /\ ListOf(p, m)[k].on = m[RowOf(m)[k]].on
              /\ ListOf(p, m)[k].timer_val = m[RowOf(m)[k]].timer_val
         /\ EndOf(p, m) = IF n = 0 THEN 0 ELSE RowOf(m)[n]
         /\ LinkOf(p, m) = m[EndOf(p, m)].next_step.page
         /\ EndOf(p, m) \in Entries /\ LinkOf(p, m) \in {1, 2}
<1> DEFINE row == RowOf(m)
           list == [k \in 1 .. n |-> [on |-> m[row[k]].on, timer_val |-> m[row[k]].timer_val]]
<1>1. ListOf(p, m) = list
  BY Zenon DEF ListOf
<1> HIDE DEF row
<1>2. \A k \in 1 .. n : m[row[k]] \in StepEntry
  BY DEF PageMemory, row
<1>3. \A k \in 1 .. n :
        [on |-> m[row[k]].on, timer_val |-> m[row[k]].timer_val] \in PP!Step
  BY <1>2 DEF StepEntry, PP!Step
<1>4. n \in Nat
  BY SizeFacts
<1>5. list \in [1 .. n -> PP!Step]
  BY <1>3
<1>6. list \in Seq(PP!Step) /\ Len(list) = n /\ DOMAIN list = 1 .. n
  BY <1>4, <1>5
<1>7. EndOf(p, m) = IF n = 0 THEN 0 ELSE row[n]
  BY DEF EndOf, row
<1>8. EndOf(p, m) \in Entries
  <2>1. n # 0 => n \in 1 .. n
    BY <1>4
  <2> QED BY <1>7, <2>1, SizeFacts DEF row
<1>9. LinkOf(p, m) = m[EndOf(p, m)].next_step.page /\ LinkOf(p, m) \in {1, 2}
  BY <1>8 DEF LinkOf, PageMemory, StepEntry
<1> QED BY <1>1, <1>6, <1>7, <1>8, <1>9 DEF row

LEMMA OpenFacts ==
  ASSUME NEW p \in {1, 2}, NEW m \in PageMemory, NEW n, OpenPage(p, m, n)
  PROVE  /\ Used(m) = n /\ Length(p, m) = n /\ LinkOf(p, m) = p
         /\ n \in 0 .. PWM_STEP_PAGE_SIZE - 1
         /\ \A k \in 1 .. n : RowOf(m)[k] \in Entries
<1> DEFINE row == RowOf(m)
<1>1. /\ n \in 0 .. PWM_STEP_PAGE_SIZE - 1
      /\ \A k \in 1 .. PWM_STEP_PAGE_SIZE :
           row[k] \in Entries /\ (m[row[k]].timer_val # 0 <=> k <= n)
      /\ \A k \in 1 .. PWM_STEP_PAGE_SIZE - 1 : m[row[k]].next_step.page = p
      /\ \A j, k \in 1 .. PWM_STEP_PAGE_SIZE : row[j] = row[k] => j = k
  BY DEF OpenPage
<1>2. /\ row[1] = 0
      /\ \A k \in 1 .. PWM_STEP_PAGE_SIZE - 1 : row[k+1] = m[row[k]].next_step.idx
  BY RowIs
<1> HIDE DEF row
<1>3. /\ n \in Nat /\ n + 1 \in 1 .. PWM_STEP_PAGE_SIZE /\ ~(n + 1 <= n)
      /\ 1 \in 1 .. PWM_STEP_PAGE_SIZE - 1 /\ 1 \in 1 .. PWM_STEP_PAGE_SIZE
      /\ n # 0 => n \in 1 .. PWM_STEP_PAGE_SIZE - 1
      /\ \A k \in 1 .. n : k \in 1 .. PWM_STEP_PAGE_SIZE /\ k <= n
      /\ \A k \in 1 .. n - 1 : /\ k \in 1 .. PWM_STEP_PAGE_SIZE - 1
                               /\ k + 1 \in 1 .. PWM_STEP_PAGE_SIZE /\ k + 1 # 1
  BY <1>1, SizeFacts
<1>4. Length(p, m) = n
  <2>1. \A k \in 1 .. n : m[row[k]].timer_val # 0
    BY <1>1, <1>3
  <2>2. \A k \in 1 .. n - 1 : m[row[k]].next_step.page = p /\ m[row[k]].next_step.idx # 0
    <3> SUFFICES ASSUME NEW k \in 1 .. n - 1
                 PROVE  m[row[k]].next_step.page = p /\ m[row[k]].next_step.idx # 0
      OBVIOUS
    <3>1. row[k+1] = m[row[k]].next_step.idx /\ m[row[k]].next_step.page = p
      BY <1>1, <1>2, <1>3
    <3>2. row[k+1] # row[1]
      BY <1>1, <1>3
    <3> QED BY <1>2, <3>1, <3>2
  <2>3. m[row[n+1]].timer_val = 0
    BY <1>1, <1>3
  <2> QED BY <1>1, <2>1, <2>2, <2>3, LengthIs DEF row
<1>5. EndOf(p, m) = IF n = 0 THEN row[1] ELSE row[n]
  BY <1>2, <1>4 DEF EndOf, row
<1>6. LinkOf(p, m) = p
  BY <1>1, <1>3, <1>5 DEF LinkOf
<1> QED BY <1>1, <1>3, <1>4, <1>6, UsedIs DEF row

LEMMA ClosedFacts ==
  ASSUME NEW p \in {1, 2}, NEW m \in PageMemory, NEW n, ClosedPage(p, m, n)
  PROVE  /\ Length(p, m) = n /\ n \in 1 .. PWM_STEP_PAGE_SIZE - 1
         /\ \A k \in 1 .. n : RowOf(m)[k] \in Entries
         /\ m[RowOf(m)[n]].next_step.idx = 0
         /\ EndOf(p, m) = RowOf(m)[n]
         /\ m[RowOf(m)[n]].next_step = Ptr(LinkOf(p, m), 0)
         /\ \A k \in 1 .. n - 1 : m[RowOf(m)[k]].next_step = Ptr(p, RowOf(m)[k+1])
<1> DEFINE row == RowOf(m)
<1>1. /\ n \in 1 .. PWM_STEP_PAGE_SIZE - 1
      /\ \A k \in 1 .. n : row[k] \in Entries /\ m[row[k]].timer_val # 0
      /\ \A k \in 1 .. n - 1 : m[row[k]].next_step.page = p
      /\ \A j, k \in 1 .. n : row[j] = row[k] => j = k
      /\ m[row[n]].next_step.idx = 0
  BY DEF ClosedPage
<1>2. /\ row[1] = 0
      /\ \A k \in 1 .. PWM_STEP_PAGE_SIZE - 1 : row[k+1] = m[row[k]].next_step.idx
  BY RowIs
<1> HIDE DEF row
<1>3. /\ n \in Nat /\ n > 0 /\ n \in 1 .. n /\ 1 \in 1 .. n
      /\ n \in 0 .. PWM_STEP_PAGE_SIZE - 1
      /\ \A k \in 1 .. n - 1 : /\ k \in 1 .. PWM_STEP_PAGE_SIZE - 1 /\ k \in 1 .. n
                               /\ k + 1 \in 1 .. n /\ k + 1 # 1
  BY <1>1, SizeFacts
<1>4. \A k \in 1 .. n - 1 : m[row[k]].next_step.page = p /\ m[row[k]].next_step.idx # 0
  <2> SUFFICES ASSUME NEW k \in 1 .. n - 1
               PROVE  m[row[k]].next_step.page = p /\ m[row[k]].next_step.idx # 0
    OBVIOUS
  <2>1. row[k+1] = m[row[k]].next_step.idx /\ m[row[k]].next_step.page = p
    BY <1>1, <1>2, <1>3
  <2>2. row[k+1] # row[1]
    BY <1>1, <1>3
  <2> QED BY <1>2, <2>1, <2>2
<1>5. Length(p, m) = n
  BY <1>1, <1>3, <1>4, LengthIs DEF row
<1>6. EndOf(p, m) = row[n]
  BY <1>3, <1>5 DEF EndOf, row
<1>7. \A k \in 1 .. n : m[row[k]].next_step \in [page : {1, 2}, idx : Nat]
  BY <1>1 DEF PageMemory, StepEntry
<1>8. m[row[n]].next_step = Ptr(LinkOf(p, m), 0)
  BY <1>1, <1>3, <1>6, <1>7 DEF LinkOf, Ptr
<1>9. \A k \in 1 .. n - 1 : m[row[k]].next_step = Ptr(p, row[k+1])
  BY <1>1, <1>2, <1>3, <1>7 DEF Ptr
<1> QED BY <1>1, <1>5, <1>6, <1>8, <1>9 DEF row

LEMMA EmptyFacts ==
  ASSUME NEW p, NEW m, m[0].timer_val = 0
  PROVE  /\ Length(p, m) = 0 /\ EndOf(p, m) = 0 /\ LinkOf(p, m) = m[0].next_step.page
         /\ \A i : PosOf(p, m, i) = 1
<1>1. RowOf(m)[1] = 0
  BY RowIs
<1>2. 0 \in 0 .. PWM_STEP_PAGE_SIZE - 1 /\ 1 .. 0 = {} /\ 1 .. 0 - 1 = {} /\ 0 + 1 = 1
  BY SizeFacts
<1>3. Length(p, m) = 0
  <2>1. m[RowOf(m)[0+1]].timer_val = 0
    BY <1>1, <1>2
  <2> QED BY <1>2, <2>1, LengthIs
<1>4. EndOf(p, m) = 0
  BY <1>3 DEF EndOf
<1>5. \A i : PosOf(p, m, i) = 1
  BY <1>2, <1>3 DEF PosOf
<1> QED BY <1>3, <1>4, <1>5 DEF LinkOf

\* The place in the sequence of the step that a pointer leads to.
LEMMA PosIs ==
  ASSUME NEW p \in {1, 2}, NEW m \in PageMemory, NEW n, ClosedPage(p, m, n),
         NEW k \in 1 .. n
  PROVE  PosOf(p, m, RowOf(m)[k]) = k
<1> DEFINE row == RowOf(m)
           at == {j \in 1 .. Length(p, m) : row[j] = row[k]}
<1>1. Length(p, m) = n
  BY ClosedFacts
<1>2. PosOf(p, m, row[k]) = IF at = {} THEN 1 ELSE CHOOSE j \in at : TRUE
  BY Zenon DEF PosOf
<1>3. at = {k}
  BY <1>1 DEF ClosedPage
<1> QED BY <1>2, <1>3

(***************************************************************************)
(* The assumptions of PwmPages hold of PP.                                 *)
(***************************************************************************)

LEMMA Assumed ==
  /\ NCHANNELS \in 1 .. 64 /\ PWM_PRESCALE \in Nat \ {0}
  /\ Brights \subseteq Nat /\ 0 \in Brights
  /\ MapRequests \subseteq [code : 0 .. 255, port_bits : SUBSET Bits]
  /\ DefaultMap \in [PP!Channels -> PP!MapEntries]
  /\ PwmResolutions \subseteq Nat \ {0} /\ DefMaxPwm \in PwmResolutions
  /\ \A r \in PwmResolutions : r * PWM_PRESCALE < 65536
  /\ Dark \notin PP!Settings
<1> USE DEF Pages!Channels, PP!Channels, Pages!CM_CHANNEL, PP!CM_CHANNEL,
            Pages!MapEntries, PP!MapEntries
<1>1. DefaultMap \in [PP!Channels -> PP!MapEntries]
  BY MapAssumption
<1>2. Dark \notin PP!Settings
  BY DarkNotSettings DEF Pages!Settings, PP!Settings
<1> HIDE DEF Pages!Channels, PP!Channels, Pages!CM_CHANNEL, PP!CM_CHANNEL,
             Pages!MapEntries, PP!MapEntries
<1> QED BY <1>1, <1>2, SizeAssumption, BrightAssumption, MapAssumption, WidthAssumption

(***************************************************************************)
(* set_channel, on the sequence.                                           *)
(***************************************************************************)

LEMMA StepInserted ==
  ASSUME NEW s \in Seq(PP!Step), NEW k \in 0 .. Len(s), NEW e \in PP!Step
  PROVE  /\ PP!InsertedBehind(s, k, e) \in Seq(PP!Step)
         /\ Len(PP!InsertedBehind(s, k, e)) = Len(s) + 1
         /\ \A i \in 1 .. k : PP!InsertedBehind(s, k, e)[i] = s[i]
         /\ PP!InsertedBehind(s, k, e)[k+1] = e
         /\ \A i \in k + 2 .. Len(s) + 1 : PP!InsertedBehind(s, k, e)[i] = s[i-1]
<1> DEFINE r == PP!InsertedBehind(s, k, e)
<1>1. /\ r \in Seq(PP!Step) /\ Len(r) = Len(s) + 1
      /\ \A i \in 1 .. Len(s) + 1 :
            r[i] = IF i <= k THEN s[i] ELSE IF i = k + 1 THEN e ELSE s[i - 1]
  BY Assumed, PP!Inserted, SMT
<1> HIDE DEF r
<1>2. Len(s) \in Nat
  OBVIOUS
<1>3. k + 1 \in 1 .. Len(s) + 1 /\ ~(k + 1 <= k)
  BY <1>2
<1>4. \A i \in 1 .. k : i \in 1 .. Len(s) + 1 /\ i <= k
  BY <1>2
<1>5. \A i \in k + 2 .. Len(s) + 1 : i \in 1 .. Len(s) + 1 /\ ~(i <= k) /\ i # k + 1
  BY <1>2
<1> QED BY <1>1, <1>3, <1>4, <1>5 DEF r

\* What set_channel does to the sequence when the walk stops at place k.
Switched(list, t, outs, v, k) ==
  LET n == Len(list)
      exact == k <= n /\ list[k].timer_val = v
  IN /\ t \in Seq(PP!Step) /\ Len(t) = IF exact THEN n ELSE n + 1
     /\ \A i \in 1 .. k - 1 : /\ t[i].on = list[i].on \cup outs
                              /\ t[i].timer_val = list[i].timer_val
     /\ t[k].timer_val = v
     /\ k <= n => t[k].on = list[k].on \cup outs
     /\ k = n + 1 => t[k].on = outs
     /\ exact => \A i \in k + 1 .. n : t[i] = list[i]
     /\ ~exact => \A i \in k + 1 .. n + 1 : t[i] = list[i-1]

\* CoveredPrefix of PwmPagesProofs, of a sequence of steps of the list.
LEMMA PrefixCovered ==
  ASSUME NEW list \in Seq(PP!Step), PP!Sorted(list), NEW v \in Int
  PROVE  LET covered == {i \in DOMAIN list : list[i].timer_val <= v}
         IN /\ PP!Cardinality(covered) \in 0 .. Len(list)
            /\ covered = 1 .. PP!Cardinality(covered)
  BY Assumed, PP!CoveredPrefix, SMTT(30)

\* The steps that end by v are the first ones, up to the one at which the walk stops.
LEMMA SetChannelIs ==
  ASSUME NEW list \in Seq(PP!Step), PP!Sorted(list), NEW outs \in SUBSET PP!Outputs,
         NEW v \in Int, NEW k \in 1 .. Len(list) + 1,
         \A j \in 1 .. k - 1 : list[j].timer_val < v,
         k <= Len(list) => v <= list[k].timer_val
  PROVE  Switched(list, PP!SetChannel(list, outs, v), outs, v, k)
<1> DEFINE n == Len(list)
           covered == {i \in DOMAIN list : list[i].timer_val <= v}
           K == PP!Cardinality(covered)
           lit(i) == [list[i] EXCEPT !.on = @ \cup outs]
           lits == [i \in DOMAIN list |-> IF i \in covered THEN lit(i) ELSE list[i]]
           cut == [on |-> outs \cup (IF K < n THEN list[K+1].on ELSE {}), timer_val |-> v]
           exact == k <= n /\ list[k].timer_val = v
<1>1. n \in Nat /\ DOMAIN list = 1 .. n /\ \A i \in 1 .. n : list[i] \in PP!Step
  OBVIOUS
<1>2. \A i \in 1 .. n : list[i].timer_val \in Int
  BY <1>1 DEF PP!Step
<1>3. \A i, j \in 1 .. n : i < j => list[i].timer_val < list[j].timer_val
  BY <1>1 DEF PP!Sorted
<1>4. K \in 0 .. n /\ covered = 1 .. K
  BY PrefixCovered
<1>5. PP!SetChannel(list, outs, v) =
        IF \E i \in covered : list[i].timer_val = v
          THEN lits ELSE SubSeq(lits, 1, K) \o <<cut>> \o SubSeq(lits, K + 1, Len(lits))
  BY DEF PP!SetChannel
<1>6. K = IF exact THEN k ELSE k - 1
  <2>1. \A i \in 1 .. k - 1 : i \in covered
    BY <1>1, <1>2
  <2>2. exact => k \in covered
    BY <1>1
  <2>3. ~exact => k \notin covered
    BY <1>1, <1>2
  <2>4. \A i \in covered : i <= k
    <3> SUFFICES ASSUME NEW i \in covered, k < i PROVE FALSE
      BY <1>1
    <3>1. i \in 1 .. n /\ k \in 1 .. n /\ list[i].timer_val <= v
      BY <1>1
    <3>2. list[k].timer_val < list[i].timer_val /\ v <= list[k].timer_val
      BY <1>3, <3>1
    <3> QED BY <1>2, <3>1, <3>2
  <2> HIDE DEF covered, K, exact
  <2>5. k - 1 <= K
    <3>1. CASE k = 1
      BY <1>4, <3>1
    <3>2. CASE k # 1
      <4>1. k - 1 \in 1 .. k - 1
        BY <3>2, <1>1
      <4> QED BY <1>4, <2>1, <4>1
    <3> QED BY <3>1, <3>2
  <2>6. K <= k
    <3>1. CASE K = 0
      BY <3>1
    <3>2. CASE K # 0
      <4>1. K \in covered
        BY <1>4, <3>2
      <4> QED BY <2>4, <4>1
    <3> QED BY <3>1, <3>2
  <2>7. k \in 1 .. K <=> K = k
    BY <1>1, <1>4, <2>6
  <2> QED BY <1>1, <1>4, <2>2, <2>3, <2>5, <2>6, <2>7
<1>7. (\E i \in covered : list[i].timer_val = v) <=> exact
  <2>1. exact => k \in covered /\ list[k].timer_val = v
    BY <1>1
  <2>2. ASSUME NEW i \in covered, list[i].timer_val = v, ~exact PROVE FALSE
    <3>1. i \in 1 .. k - 1
      BY <1>4, <1>6, <2>2
    <3> QED BY <1>1, <1>2, <2>2, <3>1
  <2> QED BY <2>1, <2>2
<1>8. \A i \in 1 .. n : lits[i] = IF i <= K THEN lit(i) ELSE list[i]
  BY <1>1, <1>4
<1>9. lits \in Seq(PP!Step) /\ Len(lits) = n /\ DOMAIN lits = 1 .. n
  <2>1. \A i \in 1 .. n : lits[i] \in PP!Step
    BY <1>1 DEF PP!Step
  <2>2. lits = [i \in 1 .. n |-> lits[i]]
    BY <1>1
  <2> QED BY <1>1, <2>1, <2>2
<1>10. cut \in PP!Step
  <2>1. K < n => K + 1 \in 1 .. n
    BY <1>1, <1>4
  <2> QED BY <1>1, <2>1 DEF PP!Step
<1>11. \A i \in 1 .. n : /\ lit(i).on = list[i].on \cup outs
                         /\ lit(i).timer_val = list[i].timer_val
  <2> SUFFICES ASSUME NEW i \in 1 .. n
               PROVE  lit(i).on = list[i].on \cup outs /\ lit(i).timer_val = list[i].timer_val
    OBVIOUS
  <2>1. list[i] \in PP!Step
    BY <1>1
  <2> QED BY <2>1 DEF PP!Step
<1> DEFINE t == PP!SetChannel(list, outs, v)
<1> HIDE DEF lit
<1>12. CASE exact
  <2>1. t = lits /\ K = k /\ k \in 1 .. n
    <3>1. K = k /\ k \in 1 .. n
      <4> HIDE DEF K
      <4> QED BY <1>1, <1>6, <1>12
    <3>2. \E i \in covered : list[i].timer_val = v
      BY <1>7, <1>12
    <3>3. t = lits
      <4> HIDE DEF lits, covered, K
      <4> QED BY <1>5, <3>2
    <3> QED BY <3>1, <3>3
  <2> HIDE DEF lits, K, t
  <2>2. t \in Seq(PP!Step) /\ Len(t) = n
    BY <1>9, <2>1
  <2>3. \A i \in 1 .. k : t[i].on = list[i].on \cup outs /\ t[i].timer_val = list[i].timer_val
    BY <1>1, <1>8, <1>11, <2>1
  <2>4. \A i \in k + 1 .. n : t[i] = list[i]
    BY <1>1, <1>8, <2>1
  <2>5. /\ \A i \in 1 .. k - 1 : /\ t[i].on = list[i].on \cup outs
                                 /\ t[i].timer_val = list[i].timer_val
        /\ t[k].timer_val = v /\ t[k].on = list[k].on \cup outs
    BY <1>1, <1>12, <2>1, <2>3
  <2>6. k # n + 1
    BY <1>1, <2>1
  <2> HIDE DEF n
  <2>7. Switched(list, t, outs, v, k)
    BY <1>12, <2>2, <2>4, <2>5, <2>6 DEF Switched, n
  <2> QED BY <2>7 DEF t
<1>13. CASE ~exact
  <2>1. t = PP!InsertedBehind(lits, K, cut)
    BY <1>5, <1>7, <1>13 DEF PP!InsertedBehind
  <2>2. K = k - 1 /\ K + 1 = k /\ K + 2 = k + 1 /\ (K < n <=> k <= n)
    BY <1>1, <1>6, <1>13
  <2>3. cut.timer_val = v /\ cut.on = outs \cup (IF k <= n THEN list[k].on ELSE {})
    BY <2>2
  <2> HIDE DEF lits, cut, K, t
  <2>4. /\ t \in Seq(PP!Step) /\ Len(t) = n + 1
        /\ \A i \in 1 .. K : t[i] = lits[i]
        /\ t[K+1] = cut
        /\ \A i \in K + 2 .. n + 1 : t[i] = lits[i-1]
    <3>1. lits \in Seq(PP!Step) /\ K \in 0 .. Len(lits)
      BY <1>4, <1>9
    <3>2. /\ t \in Seq(PP!Step) /\ Len(t) = Len(lits) + 1
          /\ \A i \in 1 .. K : t[i] = lits[i]
          /\ t[K+1] = cut
          /\ \A i \in K + 2 .. Len(lits) + 1 : t[i] = lits[i-1]
      BY <1>10, <2>1, <3>1, StepInserted
    <3> QED BY <1>9, <3>2
  <2>5. \A i \in 1 .. k - 1 : t[i].on = list[i].on \cup outs /\ t[i].timer_val = list[i].timer_val
    <3> SUFFICES ASSUME NEW i \in 1 .. k - 1
                 PROVE  /\ t[i].on = list[i].on \cup outs
                        /\ t[i].timer_val = list[i].timer_val
      OBVIOUS
    <3>1. i \in 1 .. K /\ i <= K /\ i \in 1 .. n
      BY <1>1, <1>4, <2>2
    <3> QED BY <1>8, <1>11, <2>4, <3>1
  <2>6. t[k] = cut
    BY <2>2, <2>4
  <2>7. ASSUME NEW i \in k + 1 .. n + 1 PROVE t[i] = list[i-1]
    <3>1. i \in K + 2 .. n + 1 /\ i - 1 \in 1 .. n /\ ~(i - 1 <= K)
      BY <1>1, <1>4, <2>2
    <3> QED BY <1>8, <2>4, <3>1
  <2>8. t[k].timer_val = v
    BY <2>3, <2>6
  <2>9. k <= n => t[k].on = list[k].on \cup outs
    BY <2>3, <2>6
  <2>10. k = n + 1 => t[k].on = outs
    <3>1. k = n + 1 => cut.on = outs \cup {}
      BY <1>1, <2>3
    <3>2. outs \cup {} = outs
      OBVIOUS
    <3> QED BY <2>6, <3>1, <3>2
  <2>11. \A i \in k + 1 .. n + 1 : t[i] = list[i-1]
    BY <2>7
  <2>12. t \in Seq(PP!Step) /\ Len(t) = n + 1
    BY <2>4
  <2> HIDE DEF n
  <2>13. Switched(list, t, outs, v, k)
    BY <1>13, <2>5, <2>8, <2>9, <2>10, <2>11, <2>12 DEF Switched, n
  <2> QED BY <2>13 DEF t
<1> QED BY <1>12, <1>13

(***************************************************************************)
(* set_channel, on the memory.                                             *)
(***************************************************************************)

LEMMA OpenRow ==
  ASSUME NEW p \in {1, 2}, NEW m \in PageMemory, NEW n, OpenPage(p, m, n)
  PROVE  /\ n \in 0 .. PWM_STEP_PAGE_SIZE - 1
         /\ RowOf(m)[1] = 0
         /\ \A k \in 1 .. PWM_STEP_PAGE_SIZE :
              /\ RowOf(m)[k] \in Entries
              /\ m[RowOf(m)[k]] \in StepEntry
              /\ m[RowOf(m)[k]].timer_val # 0 <=> k <= n
         /\ \A k \in 1 .. PWM_STEP_PAGE_SIZE - 1 :
              m[RowOf(m)[k]].next_step = Ptr(p, RowOf(m)[k+1])
         /\ \A j, k \in 1 .. PWM_STEP_PAGE_SIZE : RowOf(m)[j] = RowOf(m)[k] => j = k
<1> DEFINE row == RowOf(m)
<1>1. /\ n \in 0 .. PWM_STEP_PAGE_SIZE - 1
      /\ \A k \in 1 .. PWM_STEP_PAGE_SIZE :
           row[k] \in Entries /\ (m[row[k]].timer_val # 0 <=> k <= n)
      /\ \A k \in 1 .. PWM_STEP_PAGE_SIZE - 1 : m[row[k]].next_step.page = p
      /\ \A j, k \in 1 .. PWM_STEP_PAGE_SIZE : row[j] = row[k] => j = k
  BY DEF OpenPage
<1>2. /\ row[1] = 0
      /\ \A k \in 1 .. PWM_STEP_PAGE_SIZE - 1 : row[k+1] = m[row[k]].next_step.idx
  BY RowIs
<1> HIDE DEF row
<1>3. \A k \in 1 .. PWM_STEP_PAGE_SIZE - 1 : k \in 1 .. PWM_STEP_PAGE_SIZE
  BY SizeFacts
<1>4. \A k \in 1 .. PWM_STEP_PAGE_SIZE : m[row[k]] \in StepEntry
  BY <1>1 DEF PageMemory
<1>5. \A k \in 1 .. PWM_STEP_PAGE_SIZE - 1 : m[row[k]].next_step = Ptr(p, row[k+1])
  <2> SUFFICES ASSUME NEW k \in 1 .. PWM_STEP_PAGE_SIZE - 1
               PROVE  m[row[k]].next_step = Ptr(p, row[k+1])
    OBVIOUS
  <2>1. m[row[k]].next_step \in [page : {1, 2}, idx : Nat]
    BY <1>3, <1>4 DEF StepEntry
  <2> QED BY <1>1, <1>2, <2>1 DEF Ptr
<1> QED BY <1>1, <1>2, <1>4, <1>5 DEF row

\* A row that meets every entry once makes an open page.
LEMMA OpenFromRow ==
  ASSUME NEW p \in {1, 2}, NEW m \in PageMemory, NEW n \in 0 .. PWM_STEP_PAGE_SIZE - 1,
         NEW r, r[1] = 0,
         \A k \in 1 .. PWM_STEP_PAGE_SIZE :
           r[k] \in Entries /\ (m[r[k]].timer_val # 0 <=> k <= n),
         \A k \in 1 .. PWM_STEP_PAGE_SIZE - 1 : m[r[k]].next_step = Ptr(p, r[k+1]),
         \A j, k \in 1 .. PWM_STEP_PAGE_SIZE : r[j] = r[k] => j = k
  PROVE  /\ OpenPage(p, m, n)
         /\ \A k \in 1 .. PWM_STEP_PAGE_SIZE : RowOf(m)[k] = r[k]
<1>1. \A k \in 1 .. PWM_STEP_PAGE_SIZE - 1 :
        m[r[k]].next_step.idx = r[k+1] /\ m[r[k]].next_step.page = p
  <2> SUFFICES ASSUME NEW k \in 1 .. PWM_STEP_PAGE_SIZE - 1
               PROVE  m[r[k]].next_step.idx = r[k+1] /\ m[r[k]].next_step.page = p
    OBVIOUS
  <2>1. m[r[k]].next_step = Ptr(p, r[k+1])
    OBVIOUS
  <2> QED BY <2>1 DEF Ptr
<1>2. \A k \in 1 .. PWM_STEP_PAGE_SIZE : RowOf(m)[k] = r[k]
  <2>1. PWM_STEP_PAGE_SIZE \in 1 .. PWM_STEP_PAGE_SIZE
    BY SizeFacts
  <2>2. Follows(m, r, PWM_STEP_PAGE_SIZE)
    BY <1>1 DEF Follows
  <2>3. RowBegins(m, r, PWM_STEP_PAGE_SIZE)
    BY <2>1, <2>2, RowPrefix
  <2> QED BY <2>3 DEF RowBegins
<1>3. \A k \in 1 .. PWM_STEP_PAGE_SIZE - 1 : k \in 1 .. PWM_STEP_PAGE_SIZE
  BY SizeFacts
<1> QED BY <1>1, <1>2, <1>3 DEF OpenPage

\* Where the walk stops.
LEMMA StopIs ==
  ASSUME NEW p \in {1, 2}, NEW m \in PageMemory, NEW n, OpenPage(p, m, n),
         NEW v \in Nat \ {0}
  PROVE  /\ StopsAt(m, v) \in 1 .. n + 1 /\ StopsAt(m, v) \in 1 .. PWM_STEP_PAGE_SIZE
         /\ \A j \in 1 .. StopsAt(m, v) - 1 : m[RowOf(m)[j]].timer_val < v
         /\ StopsAt(m, v) <= n => /\ v <= m[RowOf(m)[StopsAt(m, v)]].timer_val
                                  /\ m[RowOf(m)[StopsAt(m, v)]].timer_val # 0
         /\ StopsAt(m, v) = n + 1 => m[RowOf(m)[StopsAt(m, v)]].timer_val = 0
<1> DEFINE row == RowOf(m)
           T == {k \in 1 .. PWM_STEP_PAGE_SIZE :
                   m[row[k]].timer_val = 0 \/ v <= m[row[k]].timer_val}
<1>1. StopsAt(m, v) = Min(T)
  BY Zenon DEF StopsAt
<1>2. /\ n \in 0 .. PWM_STEP_PAGE_SIZE - 1
      /\ \A k \in 1 .. PWM_STEP_PAGE_SIZE : /\ m[row[k]].timer_val \in Int
                                            /\ m[row[k]].timer_val # 0 <=> k <= n
  BY OpenRow DEF StepEntry
<1> HIDE DEF row
<1>3. T \in SUBSET Nat /\ n + 1 \in T
  BY <1>2, SizeFacts
<1> DEFINE s == StopsAt(m, v)
<1>4. s \in T /\ \A j \in T : s <= j
  <2> HIDE DEF T
  <2> QED BY <1>1, <1>3, MinIn
<1> HIDE DEF s
<1>5. s \in 1 .. n + 1
  BY <1>2, <1>3, <1>4
<1>6. \A j \in 1 .. s - 1 : m[row[j]].timer_val < v
  <2> SUFFICES ASSUME NEW j \in 1 .. s - 1 PROVE m[row[j]].timer_val < v
    OBVIOUS
  <2>1. j \in 1 .. PWM_STEP_PAGE_SIZE /\ ~(s <= j)
    BY <1>2, <1>4, <1>5, SizeFacts
  <2>2. j \notin T
    BY <1>4, <2>1
  <2> QED BY <1>2, <2>1, <2>2
<1>7. s <= n => v <= m[row[s]].timer_val /\ m[row[s]].timer_val # 0
  BY <1>2, <1>4
<1>8. s = n + 1 => m[row[s]].timer_val = 0
  BY <1>2, <1>4
<1>9. s \in 1 .. PWM_STEP_PAGE_SIZE
  BY <1>4
<1> QED BY <1>5, <1>6, <1>7, <1>8, <1>9 DEF s, row

\* What the walk of set_channel does to the page: the row stays, and outs are switched on
\* up to the place where the walk stops.
Covered(m, lit, outs, v) ==
  LET row == RowOf(m)
      s == StopsAt(m, v)
  IN \A k \in 1 .. PWM_STEP_PAGE_SIZE :
       /\ RowOf(lit)[k] = row[k]
       /\ lit[row[k]].timer_val = m[row[k]].timer_val
       /\ lit[row[k]].next_step = m[row[k]].next_step
       /\ lit[row[k]].on = IF k < s \/ (k = s /\ m[row[s]].timer_val = v)
                             THEN m[row[k]].on \cup outs ELSE m[row[k]].on

LEMMA CoverIs ==
  ASSUME NEW p \in {1, 2}, NEW m \in PageMemory, NEW n, OpenPage(p, m, n),
         NEW outs \in SUBSET PP!Outputs, NEW v \in Nat \ {0}
  PROVE  /\ Cover(m, outs, v) \in PageMemory
         /\ OpenPage(p, Cover(m, outs, v), n)
         /\ Covered(m, Cover(m, outs, v), outs, v)
<1> DEFINE row == RowOf(m)
           lit == Cover(m, outs, v)
           s == StopsAt(m, v)
           exact == m[row[s]].timer_val = v
           passed(i) == \E j \in 1 .. s : row[j] = i /\ (j < s \/ exact)
<1>1. lit = [i \in Entries |-> IF passed(i) THEN [m[i] EXCEPT !.on = @ \cup outs] ELSE m[i]]
  BY DEF Cover
<1>2. /\ n \in 0 .. PWM_STEP_PAGE_SIZE - 1
      /\ row[1] = 0
      /\ \A k \in 1 .. PWM_STEP_PAGE_SIZE :
           row[k] \in Entries /\ m[row[k]] \in StepEntry /\ (m[row[k]].timer_val # 0 <=> k <= n)
      /\ \A k \in 1 .. PWM_STEP_PAGE_SIZE - 1 : m[row[k]].next_step = Ptr(p, row[k+1])
      /\ \A j, k \in 1 .. PWM_STEP_PAGE_SIZE : row[j] = row[k] => j = k
  BY OpenRow
<1>3. s \in 1 .. PWM_STEP_PAGE_SIZE
  BY StopIs
<1> HIDE DEF row, lit, s, exact, passed
<1>4. \A i \in Entries : m[i] \in StepEntry
  BY DEF PageMemory
<1>5. \A i \in Entries : /\ lit[i] \in StepEntry
                         /\ lit[i].timer_val = m[i].timer_val
                         /\ lit[i].next_step = m[i].next_step
                         /\ lit[i].on = IF passed(i) THEN m[i].on \cup outs ELSE m[i].on
  <2> SUFFICES ASSUME NEW i \in Entries
               PROVE  /\ lit[i] \in StepEntry
                      /\ lit[i].timer_val = m[i].timer_val
                      /\ lit[i].next_step = m[i].next_step
                      /\ lit[i].on = IF passed(i) THEN m[i].on \cup outs ELSE m[i].on
    OBVIOUS
  <2>1. lit[i] = IF passed(i) THEN [m[i] EXCEPT !.on = @ \cup outs] ELSE m[i]
    BY <1>1
  <2>2. m[i] \in StepEntry
    BY <1>4
  <2> QED BY <2>1, <2>2 DEF StepEntry
<1>6. lit \in PageMemory
  BY <1>1, <1>5 DEF PageMemory
<1>7. \A k \in 1 .. PWM_STEP_PAGE_SIZE : passed(row[k]) <=> k < s \/ (k = s /\ exact)
  <2> SUFFICES ASSUME NEW k \in 1 .. PWM_STEP_PAGE_SIZE
               PROVE  passed(row[k]) <=> k < s \/ (k = s /\ exact)
    OBVIOUS
  <2>1. ASSUME passed(row[k]) PROVE k < s \/ (k = s /\ exact)
    <3>1. PICK j \in 1 .. s : row[j] = row[k] /\ (j < s \/ exact)
      BY <2>1 DEF passed
    <3>2. j \in 1 .. PWM_STEP_PAGE_SIZE
      BY <1>3, SizeFacts
    <3>3. j = k
      BY <1>2, <3>1, <3>2
    <3> QED BY <1>3, <3>1, <3>3
  <2>2. ASSUME k < s \/ (k = s /\ exact) PROVE passed(row[k])
    <3>1. k \in 1 .. s
      BY <1>3, <2>2
    <3> QED BY <2>2, <3>1 DEF passed
  <2> QED BY <2>1, <2>2
<1>8. \A k \in 1 .. PWM_STEP_PAGE_SIZE :
        /\ lit[row[k]].timer_val = m[row[k]].timer_val
        /\ lit[row[k]].next_step = m[row[k]].next_step
        /\ lit[row[k]].on = IF k < s \/ (k = s /\ exact)
                              THEN m[row[k]].on \cup outs ELSE m[row[k]].on
  BY <1>2, <1>5, <1>7
<1>9. \A k \in 1 .. PWM_STEP_PAGE_SIZE - 1 : k \in 1 .. PWM_STEP_PAGE_SIZE
  BY SizeFacts
<1>10. OpenPage(p, lit, n) /\ \A k \in 1 .. PWM_STEP_PAGE_SIZE : RowOf(lit)[k] = row[k]
  <2>1. \A k \in 1 .. PWM_STEP_PAGE_SIZE :
          row[k] \in Entries /\ (lit[row[k]].timer_val # 0 <=> k <= n)
    BY <1>2, <1>8
  <2>2. \A k \in 1 .. PWM_STEP_PAGE_SIZE - 1 : lit[row[k]].next_step = Ptr(p, row[k+1])
    BY <1>2, <1>8, <1>9
  <2> QED BY <1>2, <1>6, <2>1, <2>2, OpenFromRow
<1>11. OpenPage(p, lit, n)
  BY <1>10
<1>12. Covered(m, lit, outs, v)
  BY <1>8, <1>10 DEF Covered, row, s, exact
<1> QED BY <1>6, <1>11, <1>12 DEF lit

\* What CutStep does: the free entry behind the last step takes over the k-th step.
TakenOver(p, m, cut, n, k) ==
  LET row == RowOf(m)
      free == row[n+1]
  IN /\ \A j \in 1 .. PWM_STEP_PAGE_SIZE : j # k /\ j # n + 1 =>
          /\ cut[row[j]].on = m[row[j]].on
          /\ cut[row[j]].timer_val = m[row[j]].timer_val
          /\ cut[row[j]].next_step = IF j = n THEN m[free].next_step ELSE m[row[j]].next_step
     /\ cut[row[k]].on = m[row[k]].on /\ cut[row[k]].next_step = Ptr(p, free)
     /\ cut[free].on = m[row[k]].on /\ cut[free].timer_val = m[row[k]].timer_val
     /\ cut[free].next_step = IF k = n THEN m[free].next_step ELSE m[row[k]].next_step

LEMMA CutIs ==
  ASSUME NEW p \in {1, 2}, NEW m \in PageMemory,
         NEW n \in 1 .. PWM_STEP_PAGE_SIZE - 2, OpenPage(p, m, n), NEW k \in 1 .. n
  PROVE  /\ CutStep(m, RowOf(m)[k]) \in PageMemory
         /\ TakenOver(p, m, CutStep(m, RowOf(m)[k]), n, k)
<1> DEFINE row == RowOf(m)
           free == row[n+1]
           i == row[k]
           l == row[n]
           unlinked == [m EXCEPT ![l].next_step = m[free].next_step]
           cut == [unlinked EXCEPT ![free] = unlinked[i], ![i].next_step = Ptr(p, free)]
<1>1. /\ \A j \in 1 .. PWM_STEP_PAGE_SIZE : row[j] \in Entries
      /\ \A j \in 1 .. PWM_STEP_PAGE_SIZE - 1 : m[row[j]].next_step = Ptr(p, row[j+1])
      /\ \A j, h \in 1 .. PWM_STEP_PAGE_SIZE : row[j] = row[h] => j = h
  BY OpenRow
<1>2. Used(m) = n
  BY UsedIs
<1> HIDE DEF row
<1>3. /\ n \in 1 .. PWM_STEP_PAGE_SIZE - 1 /\ n \in 1 .. PWM_STEP_PAGE_SIZE
      /\ n + 1 \in 1 .. PWM_STEP_PAGE_SIZE /\ k \in 1 .. PWM_STEP_PAGE_SIZE
      /\ k # n + 1 /\ n # n + 1
  BY SizeFacts
<1>4. m[l].next_step = Ptr(p, free) /\ m[l].next_step.idx = free
  <2>1. m[l].next_step = Ptr(p, free)
    BY <1>1, <1>3
  <2> QED BY <2>1 DEF Ptr
<1>5. CutStep(m, row[k]) = cut
  BY <1>2, <1>4 DEF CutStep, row
<1>6. free \in Entries /\ i \in Entries /\ l \in Entries /\ free # i /\ free # l
  BY <1>1, <1>3
<1>7. \A x \in Entries : m[x] \in StepEntry
  BY DEF PageMemory
<1>8. Ptr(p, free) \in [page : {1, 2}, idx : Nat]
  BY <1>6, SizeFacts DEF Ptr
<1> HIDE DEF free, i, l
<1>9. /\ unlinked \in PageMemory
      /\ \A x \in Entries :
           /\ unlinked[x].on = m[x].on /\ unlinked[x].timer_val = m[x].timer_val
           /\ unlinked[x].next_step = IF x = l THEN m[free].next_step ELSE m[x].next_step
  BY <1>6, <1>7 DEF PageMemory, StepEntry
<1> HIDE DEF unlinked
<1>10. /\ cut \in PageMemory
       /\ \A x \in Entries : x # free /\ x # i => cut[x] = unlinked[x]
       /\ cut[free] = unlinked[i]
       /\ cut[i].on = unlinked[i].on /\ cut[i].next_step = Ptr(p, free)
  BY <1>6, <1>8, <1>9 DEF PageMemory, StepEntry
<1> HIDE DEF cut
<1>11. ASSUME NEW j \in 1 .. PWM_STEP_PAGE_SIZE, j # k, j # n + 1
       PROVE  /\ cut[row[j]].on = m[row[j]].on
              /\ cut[row[j]].timer_val = m[row[j]].timer_val
              /\ cut[row[j]].next_step =
                   IF j = n THEN m[free].next_step ELSE m[row[j]].next_step
  <2>1. row[j] \in Entries /\ row[j] # i /\ row[j] # free /\ (row[j] = l <=> j = n)
    BY <1>1, <1>3, <1>11 DEF i, free, l
  <2> QED BY <1>9, <1>10, <2>1
<1>12. i = l <=> k = n
  BY <1>1, <1>3 DEF i, l
<1>13. /\ cut[free].on = m[i].on /\ cut[free].timer_val = m[i].timer_val
       /\ cut[free].next_step = IF k = n THEN m[free].next_step ELSE m[i].next_step
       /\ cut[i].on = m[i].on
  BY <1>6, <1>9, <1>10, <1>12
<1>14. TakenOver(p, m, cut, n, k)
  BY <1>10, <1>11, <1>13 DEF TakenOver, row, free, i
<1> QED BY <1>5, <1>10, <1>14 DEF row

\* A sequence that has the values of the steps is what the page stands for.
HasSteps(m, n, t) ==
  /\ t \in Seq(PP!Step) /\ Len(t) = n
  /\ \A k \in 1 .. n : /\ RowOf(m)[k] \in Entries
                       /\ t[k].on = m[RowOf(m)[k]].on
                       /\ t[k].timer_val = m[RowOf(m)[k]].timer_val

LEMMA SameSteps ==
  ASSUME NEW p \in {1, 2}, NEW m \in PageMemory, NEW n \in 0 .. PWM_STEP_PAGE_SIZE - 1,
         Length(p, m) = n, NEW t, HasSteps(m, n, t)
  PROVE  ListOf(p, m) = t
<1> USE DEF HasSteps
<1> DEFINE list == ListOf(p, m)
<1>1. list \in Seq(PP!Step) /\ Len(list) = n
  BY StepsOf
<1>2. list = [k \in 1 .. n |-> [on |-> m[RowOf(m)[k]].on,
                               timer_val |-> m[RowOf(m)[k]].timer_val]]
  BY Zenon DEF ListOf
<1>3. \A k \in 1 .. n : /\ list[k].on = m[RowOf(m)[k]].on
                        /\ list[k].timer_val = m[RowOf(m)[k]].timer_val
  BY <1>2
<1> HIDE DEF list
<1>4. \A k \in 1 .. n : list[k] = t[k]
  <2> SUFFICES ASSUME NEW k \in 1 .. n PROVE list[k] = t[k]
    OBVIOUS
  <2>1. list[k] \in PP!Step /\ t[k] \in PP!Step
    BY <1>1
  <2>2. list[k].on = t[k].on /\ list[k].timer_val = t[k].timer_val
    BY <1>3
  <2> QED BY <2>1, <2>2 DEF PP!Step
<1>5. list = t
  BY <1>1, <1>4
<1> QED BY <1>5 DEF list

\* The sequence that an open page stands for.
LEMMA OpenSteps ==
  ASSUME NEW p \in {1, 2}, NEW m \in PageMemory, NEW n, OpenPage(p, m, n)
  PROVE  /\ n \in Nat /\ ListOf(p, m) \in Seq(PP!Step) /\ Len(ListOf(p, m)) = n
         /\ \A k \in 1 .. n : /\ ListOf(p, m)[k] \in PP!Step
                              /\ ListOf(p, m)[k].on = m[RowOf(m)[k]].on
                              /\ ListOf(p, m)[k].timer_val = m[RowOf(m)[k]].timer_val
<1>1. /\ Length(p, m) = n /\ n \in 0 .. PWM_STEP_PAGE_SIZE - 1
      /\ \A k \in 1 .. n : RowOf(m)[k] \in Entries
  BY OpenFacts
<1> DEFINE list == ListOf(p, m)
<1>2. /\ list \in Seq(PP!Step) /\ Len(list) = n
      /\ \A k \in 1 .. n : /\ list[k].on = m[RowOf(m)[k]].on
                           /\ list[k].timer_val = m[RowOf(m)[k]].timer_val
  <2>1. list \in Seq(PP!Step) /\ Len(list) = n
    BY <1>1, StepsOf
  <2>2. list = [k \in 1 .. n |-> [on |-> m[RowOf(m)[k]].on,
                                 timer_val |-> m[RowOf(m)[k]].timer_val]]
    BY <1>1, Zenon DEF ListOf
  <2> QED BY <2>1, <2>2
<1>3. n \in Nat
  BY <1>1, SizeFacts
<1> HIDE DEF list
<1>4. \A k \in 1 .. n : list[k] \in PP!Step
  BY <1>2
<1> QED BY <1>2, <1>3, <1>4 DEF list

LEMMA ListIs ==
  ASSUME NEW p \in {1, 2}, NEW m \in PageMemory, NEW n, OpenPage(p, m, n),
         NEW t \in Seq(PP!Step), Len(t) = n,
         \A k \in 1 .. n : /\ t[k].on = m[RowOf(m)[k]].on
                           /\ t[k].timer_val = m[RowOf(m)[k]].timer_val
  PROVE  ListOf(p, m) = t
<1>1. HasSteps(m, n, t)
  BY OpenFacts DEF HasSteps
<1> QED BY <1>1, OpenFacts, SameSteps


\* A step ends at v already.
LEMMA SetChannelExact ==
  ASSUME NEW p \in {1, 2}, NEW m \in PageMemory, NEW n, OpenPage(p, m, n),
         PP!Sorted(ListOf(p, m)), NEW outs \in SUBSET PP!Outputs, NEW v \in Nat \ {0},
         StopsAt(m, v) <= n, m[RowOf(m)[StopsAt(m, v)]].timer_val = v
  PROVE  /\ SetChannel(m, outs, v) \in PageMemory
         /\ OpenPage(p, SetChannel(m, outs, v), n)
         /\ ListOf(p, SetChannel(m, outs, v)) = PP!SetChannel(ListOf(p, m), outs, v)
<1> DEFINE row == RowOf(m)
           k == StopsAt(m, v)
           lit == Cover(m, outs, v)
           list == ListOf(p, m)
           t == PP!SetChannel(list, outs, v)
<1>1. SetChannel(m, outs, v) = lit
  BY DEF SetChannel
<1>2. lit \in PageMemory /\ OpenPage(p, lit, n) /\ Covered(m, lit, outs, v)
  BY CoverIs
<1>3. /\ n \in Nat /\ list \in Seq(PP!Step) /\ Len(list) = n
      /\ \A j \in 1 .. n : /\ list[j].on = m[row[j]].on
                           /\ list[j].timer_val = m[row[j]].timer_val
  BY OpenSteps
<1>4. /\ k \in 1 .. n + 1 /\ k <= n /\ m[row[k]].timer_val = v
      /\ \A j \in 1 .. k - 1 : m[row[j]].timer_val < v
  BY StopIs
<1>5. PP!Sorted(list) /\ n \in 0 .. PWM_STEP_PAGE_SIZE - 1
  BY OpenFacts
<1>6. Switched(list, t, outs, v, k)
  <2>1. /\ k \in 1 .. Len(list) + 1 /\ v \in Int /\ v <= list[k].timer_val
        /\ \A j \in 1 .. k - 1 : list[j].timer_val < v
    <3> HIDE DEF list, row, k
    <3> QED BY <1>3, <1>4
  <2> HIDE DEF list, row, k
  <2> QED BY <1>3, <1>5, <2>1, SetChannelIs
<1> HIDE DEF lit, list, t
<1>7. \A j \in 1 .. PWM_STEP_PAGE_SIZE :
        /\ RowOf(lit)[j] = row[j]
        /\ lit[row[j]].timer_val = m[row[j]].timer_val
        /\ lit[row[j]].on = IF j < k \/ (j = k /\ m[row[k]].timer_val = v)
                              THEN m[row[j]].on \cup outs ELSE m[row[j]].on
  BY <1>2 DEF Covered
<1> HIDE DEF row, k
<1>8. \A j \in 1 .. n : j \in 1 .. PWM_STEP_PAGE_SIZE
  BY <1>5, SizeFacts
<1>9. /\ t \in Seq(PP!Step) /\ Len(t) = n
      /\ \A i \in 1 .. k - 1 : /\ t[i].on = list[i].on \cup outs
                               /\ t[i].timer_val = list[i].timer_val
      /\ t[k].timer_val = v
      /\ t[k].on = list[k].on \cup outs
      /\ \A i \in k + 1 .. n : t[i] = list[i]
  BY <1>3, <1>4, <1>6 DEF Switched
<1>10. ASSUME NEW i \in 1 .. n
       PROVE  /\ t[i].on = lit[RowOf(lit)[i]].on
              /\ t[i].timer_val = lit[RowOf(lit)[i]].timer_val
  <2>1. /\ RowOf(lit)[i] = row[i] /\ lit[row[i]].timer_val = m[row[i]].timer_val
        /\ lit[row[i]].on = IF i < k \/ (i = k /\ m[row[k]].timer_val = v)
                              THEN m[row[i]].on \cup outs ELSE m[row[i]].on
    BY <1>7, <1>8
  <2>2. list[i].on = m[row[i]].on /\ list[i].timer_val = m[row[i]].timer_val
    BY <1>3
  <2>3. CASE i < k
    <3>1. i \in 1 .. k - 1
      BY <1>4, <2>3
    <3>2. t[i].on = list[i].on \cup outs /\ t[i].timer_val = list[i].timer_val
      BY <1>9, <3>1
    <3> QED BY <2>1, <2>2, <2>3, <3>2
  <2>4. CASE i = k
    BY <1>4, <1>9, <2>1, <2>2, <2>4
  <2>5. CASE k < i
    <3>1. i \in k + 1 .. n /\ ~(i < k) /\ i # k
      BY <1>4, <2>5
    <3>2. t[i] = list[i]
      BY <1>9, <3>1
    <3> QED BY <2>1, <2>2, <3>1, <3>2
  <2> QED BY <1>4, <2>3, <2>4, <2>5
<1>11. ListOf(p, lit) = t
  BY <1>2, <1>9, <1>10, ListIs
<1> QED BY <1>1, <1>2, <1>11 DEF list, t

\* The walk stops at the first free entry, which becomes the last step.
LEMMA SetChannelAppend ==
  ASSUME NEW p \in {1, 2}, NEW m \in PageMemory, NEW n \in 0 .. PWM_STEP_PAGE_SIZE - 2,
         OpenPage(p, m, n), PP!Sorted(ListOf(p, m)), NEW outs \in SUBSET PP!Outputs,
         NEW v \in Nat \ {0}, StopsAt(m, v) = n + 1
  PROVE  /\ SetChannel(m, outs, v) \in PageMemory
         /\ OpenPage(p, SetChannel(m, outs, v), n + 1)
         /\ ListOf(p, SetChannel(m, outs, v)) = PP!SetChannel(ListOf(p, m), outs, v)
<1> DEFINE row == RowOf(m)
           k == n + 1
           i == row[k]
           lit == Cover(m, outs, v)
           list == ListOf(p, m)
           t == PP!SetChannel(list, outs, v)
           free == [lit EXCEPT ![i].on = {}]
           new == [free EXCEPT ![i].timer_val = v, ![i].on = @ \cup outs]
<1>1. /\ k \in 1 .. n + 1 /\ m[row[k]].timer_val = 0
      /\ \A j \in 1 .. k - 1 : m[row[j]].timer_val < v
  BY StopIs
<1>2. SetChannel(m, outs, v) = new
  <2>1. m[row[StopsAt(m, v)]].timer_val = 0 /\ v # 0
    BY <1>1
  <2> QED BY <2>1 DEF SetChannel
<1>3. lit \in PageMemory /\ OpenPage(p, lit, n) /\ Covered(m, lit, outs, v)
  BY CoverIs
<1>4. /\ n \in Nat /\ list \in Seq(PP!Step) /\ Len(list) = n
      /\ \A j \in 1 .. n : /\ list[j].on = m[row[j]].on
                           /\ list[j].timer_val = m[row[j]].timer_val
  BY OpenSteps
<1>5. Switched(list, t, outs, v, k)
  <2>1. /\ PP!Sorted(list) /\ k \in 1 .. Len(list) + 1 /\ v \in Int /\ ~(k <= Len(list))
        /\ \A j \in 1 .. k - 1 : list[j].timer_val < v
    <3>1. PP!Sorted(list)
      OBVIOUS
    <3> HIDE DEF list, row
    <3>2. k - 1 = n /\ k \in 1 .. Len(list) + 1 /\ v \in Int /\ ~(k <= Len(list))
      BY <1>4
    <3>3. \A j \in 1 .. k - 1 : list[j].timer_val < v
      BY <1>1, <1>4, <3>2
    <3> QED BY <3>1, <3>2, <3>3
  <2> HIDE DEF list, row, k
  <2> QED BY <1>4, <2>1, SetChannelIs
<1> HIDE DEF lit, list, t
<1>6. \A j \in 1 .. PWM_STEP_PAGE_SIZE :
        /\ RowOf(lit)[j] = row[j]
        /\ lit[row[j]].timer_val = m[row[j]].timer_val
        /\ lit[row[j]].next_step = m[row[j]].next_step
        /\ lit[row[j]].on = IF j < k \/ (j = k /\ m[row[k]].timer_val = v)
                              THEN m[row[j]].on \cup outs ELSE m[row[j]].on
  BY <1>3 DEF Covered
<1>7. /\ row[1] = 0
      /\ \A j \in 1 .. PWM_STEP_PAGE_SIZE : /\ row[j] \in Entries
                                            /\ m[row[j]].timer_val # 0 <=> j <= n
      /\ \A j \in 1 .. PWM_STEP_PAGE_SIZE - 1 : m[row[j]].next_step = Ptr(p, row[j+1])
      /\ \A j, h \in 1 .. PWM_STEP_PAGE_SIZE : row[j] = row[h] => j = h
  BY OpenRow
<1> HIDE DEF row
<1>8. /\ k \in 1 .. PWM_STEP_PAGE_SIZE /\ k \in 0 .. PWM_STEP_PAGE_SIZE - 1
      /\ \A j \in 1 .. n : j \in 1 .. PWM_STEP_PAGE_SIZE /\ j # k /\ j < k
      /\ \A j \in 1 .. PWM_STEP_PAGE_SIZE - 1 : j \in 1 .. PWM_STEP_PAGE_SIZE
      /\ \A j \in 1 .. PWM_STEP_PAGE_SIZE : j # k => (j <= n <=> j <= k)
      /\ k <= k
  BY <1>4, SizeFacts
<1>9. i \in Entries /\ lit[i] \in StepEntry
  BY <1>3, <1>7, <1>8 DEF PageMemory
<1> HIDE DEF i
<1>10. /\ free \in PageMemory /\ free[i].on = {} /\ free[i].next_step = lit[i].next_step
       /\ \A x \in Entries : x # i => free[x] = lit[x]
  BY <1>3, <1>9 DEF PageMemory, StepEntry
<1> HIDE DEF free
<1>11. /\ new \in PageMemory /\ new[i].on = outs /\ new[i].timer_val = v
       /\ new[i].next_step = lit[i].next_step
       /\ \A x \in Entries : x # i => new[x] = lit[x]
  <2>1. free[i] \in StepEntry /\ v \in Int /\ {} \cup outs = outs
    BY <1>9, <1>10 DEF PageMemory
  <2>2. \A x \in Entries : new[x] = IF x = i THEN [free[i] EXCEPT !.timer_val = v, !.on = @ \cup outs]
                                             ELSE free[x]
    BY <1>9, <1>10 DEF PageMemory
  <2>3. DOMAIN new = Entries /\ new = [x \in Entries |-> new[x]]
    BY <1>9, <1>10 DEF PageMemory
  <2> HIDE DEF new
  <2>4. /\ new[i] = [free[i] EXCEPT !.timer_val = v, !.on = @ \cup outs]
        /\ \A x \in Entries : x # i => new[x] = free[x]
    BY <1>9, <2>2
  <2>5. /\ new[i] \in StepEntry /\ new[i].on = {} \cup outs /\ new[i].timer_val = v
        /\ new[i].next_step = free[i].next_step
    BY <1>10, <2>1, <2>4 DEF StepEntry
  <2>6. \A x \in Entries : new[x] \in StepEntry
    BY <1>10, <2>4, <2>5 DEF PageMemory
  <2>7. new \in PageMemory
    BY <2>3, <2>6 DEF PageMemory
  <2> QED BY <1>10, <2>1, <2>4, <2>5, <2>7
<1> HIDE DEF new, k
<1>12. \A j \in 1 .. PWM_STEP_PAGE_SIZE : j # k => row[j] \in Entries /\ row[j] # i
  BY <1>7, <1>8 DEF i
<1>13. \A j \in 1 .. PWM_STEP_PAGE_SIZE : new[row[j]].next_step = m[row[j]].next_step
  <2> SUFFICES ASSUME NEW j \in 1 .. PWM_STEP_PAGE_SIZE
               PROVE  new[row[j]].next_step = m[row[j]].next_step
    OBVIOUS
  <2>1. lit[row[j]].next_step = m[row[j]].next_step
    BY <1>6
  <2>2. CASE j = k
    BY <1>11, <2>1, <2>2 DEF i
  <2>3. CASE j # k
    BY <1>11, <1>12, <2>1, <2>3
  <2> QED BY <2>2, <2>3
<1>14. \A j \in 1 .. PWM_STEP_PAGE_SIZE : new[row[j]].timer_val # 0 <=> j <= k
  <2> SUFFICES ASSUME NEW j \in 1 .. PWM_STEP_PAGE_SIZE
               PROVE  new[row[j]].timer_val # 0 <=> j <= k
    OBVIOUS
  <2>1. CASE j = k
    BY <1>8, <1>11, <2>1 DEF i
  <2>2. CASE j # k
    <3>1. new[row[j]].timer_val = m[row[j]].timer_val
      BY <1>6, <1>11, <1>12, <2>2
    <3> QED BY <1>7, <1>8, <2>2, <3>1
  <2> QED BY <2>1, <2>2
<1>15. OpenPage(p, new, k) /\ \A j \in 1 .. PWM_STEP_PAGE_SIZE : RowOf(new)[j] = row[j]
  <2>1. \A j \in 1 .. PWM_STEP_PAGE_SIZE :
          row[j] \in Entries /\ (new[row[j]].timer_val # 0 <=> j <= k)
    BY <1>7, <1>14
  <2>2. \A j \in 1 .. PWM_STEP_PAGE_SIZE - 1 : new[row[j]].next_step = Ptr(p, row[j+1])
    BY <1>7, <1>8, <1>13
  <2> QED BY <1>7, <1>8, <1>11, <2>1, <2>2, OpenFromRow
<1>16. /\ t \in Seq(PP!Step) /\ Len(t) = k /\ t[k].timer_val = v /\ t[k].on = outs
       /\ \A j \in 1 .. n : /\ t[j].on = list[j].on \cup outs
                            /\ t[j].timer_val = list[j].timer_val
  <2>1. k = n + 1 /\ ~(k <= n) /\ k - 1 = n
    BY <1>4 DEF k
  <2> QED BY <1>4, <1>5, <2>1 DEF Switched
<1>17. ASSUME NEW j \in 1 .. k
       PROVE  /\ t[j].on = new[RowOf(new)[j]].on
              /\ t[j].timer_val = new[RowOf(new)[j]].timer_val
  <2>1. j \in 1 .. PWM_STEP_PAGE_SIZE /\ RowOf(new)[j] = row[j]
    BY <1>8, <1>15, SizeFacts
  <2>2. CASE j = k
    BY <1>11, <1>16, <2>1, <2>2 DEF i
  <2>3. CASE j # k
    <3>1. j \in 1 .. n /\ j < k
      BY <1>4, <2>3 DEF k
    <3>2. new[row[j]] = lit[row[j]]
      BY <1>11, <1>12, <2>1, <2>3
    <3>3. lit[row[j]].on = m[row[j]].on \cup outs /\ lit[row[j]].timer_val = m[row[j]].timer_val
      BY <1>6, <2>1, <3>1
    <3> QED BY <1>4, <1>16, <2>1, <3>1, <3>2, <3>3
  <2> QED BY <2>2, <2>3
<1>18. ListOf(p, new) = t
  BY <1>11, <1>15, <1>16, <1>17, ListIs
<1> QED BY <1>2, <1>11, <1>15, <1>18 DEF list, t, k

\* The walk stops at a step that ends later than v: the page that results, by the places
\* that its entries had in the row.
CutAt(p, m, new, n, k, outs, v) ==
  LET row == RowOf(m)
  IN /\ \A j \in 1 .. PWM_STEP_PAGE_SIZE : j # k /\ j # n + 1 =>
          /\ new[row[j]].on = IF j < k THEN m[row[j]].on \cup outs ELSE m[row[j]].on
          /\ new[row[j]].timer_val = m[row[j]].timer_val
          /\ j < PWM_STEP_PAGE_SIZE =>
               new[row[j]].next_step = Ptr(p, row[IF j = n THEN n + 2 ELSE j + 1])
     /\ new[row[k]].on = m[row[k]].on \cup outs /\ new[row[k]].timer_val = v
     /\ new[row[k]].next_step = Ptr(p, row[n+1])
     /\ new[row[n+1]].on = m[row[k]].on
     /\ new[row[n+1]].timer_val = m[row[k]].timer_val
     /\ new[row[n+1]].next_step = Ptr(p, row[IF k = n THEN n + 2 ELSE k + 1])

LEMMA SetChannelCutAt ==
  ASSUME NEW p \in {1, 2}, NEW m \in PageMemory, NEW n \in 0 .. PWM_STEP_PAGE_SIZE - 2,
         OpenPage(p, m, n), NEW outs \in SUBSET PP!Outputs, NEW v \in Nat \ {0},
         NEW k \in 1 .. n, k = StopsAt(m, v), m[RowOf(m)[k]].timer_val # v
  PROVE  /\ SetChannel(m, outs, v) \in PageMemory
         /\ CutAt(p, m, SetChannel(m, outs, v), n, k, outs, v)
<1> DEFINE row == RowOf(m)
           i == row[k]
           lit == Cover(m, outs, v)
           cut == CutStep(lit, i)
           new == [cut EXCEPT ![i].timer_val = v, ![i].on = @ \cup outs]
<1>1. m[row[k]].timer_val # 0
  BY StopIs
<1>2. SetChannel(m, outs, v) = new
  BY <1>1 DEF SetChannel
<1>3. lit \in PageMemory /\ OpenPage(p, lit, n) /\ Covered(m, lit, outs, v)
  BY CoverIs
<1> HIDE DEF lit
<1>4. \A j \in 1 .. PWM_STEP_PAGE_SIZE :
        /\ RowOf(lit)[j] = row[j]
        /\ lit[row[j]].timer_val = m[row[j]].timer_val
        /\ lit[row[j]].next_step = m[row[j]].next_step
        /\ lit[row[j]].on = IF j < k THEN m[row[j]].on \cup outs ELSE m[row[j]].on
  BY <1>3 DEF Covered
<1>5. /\ \A j \in 1 .. PWM_STEP_PAGE_SIZE : row[j] \in Entries
      /\ \A j \in 1 .. PWM_STEP_PAGE_SIZE - 1 : m[row[j]].next_step = Ptr(p, row[j+1])
      /\ \A j, h \in 1 .. PWM_STEP_PAGE_SIZE : row[j] = row[h] => j = h
  BY OpenRow
<1> HIDE DEF row
<1>6. /\ n \in Nat /\ n \in 1 .. PWM_STEP_PAGE_SIZE - 2 /\ n + 1 \in 1 .. PWM_STEP_PAGE_SIZE - 1
      /\ n + 1 \in 1 .. PWM_STEP_PAGE_SIZE /\ (n + 1) + 1 = n + 2
      /\ k \in 1 .. PWM_STEP_PAGE_SIZE /\ k \in 1 .. PWM_STEP_PAGE_SIZE - 1
      /\ k # n + 1 /\ ~(k < k)
      /\ \A j \in 1 .. PWM_STEP_PAGE_SIZE :
           j < PWM_STEP_PAGE_SIZE => j \in 1 .. PWM_STEP_PAGE_SIZE - 1
  BY SizeFacts
<1>7. cut \in PageMemory /\ TakenOver(p, lit, cut, n, k)
  <2>1. cut = CutStep(lit, RowOf(lit)[k])
    BY <1>4, <1>6
  <2> HIDE DEF cut
  <2> QED BY <1>3, <1>6, <2>1, CutIs
<1> HIDE DEF cut
<1>8. /\ \A j \in 1 .. PWM_STEP_PAGE_SIZE : j # k /\ j # n + 1 =>
           /\ cut[row[j]].on = lit[row[j]].on
           /\ cut[row[j]].timer_val = lit[row[j]].timer_val
           /\ cut[row[j]].next_step =
                IF j = n THEN lit[row[n+1]].next_step ELSE lit[row[j]].next_step
      /\ cut[row[k]].on = lit[row[k]].on /\ cut[row[k]].next_step = Ptr(p, row[n+1])
      /\ cut[row[n+1]].on = lit[row[k]].on
      /\ cut[row[n+1]].timer_val = lit[row[k]].timer_val
      /\ cut[row[n+1]].next_step =
           IF k = n THEN lit[row[n+1]].next_step ELSE lit[row[k]].next_step
  <2>1. /\ RowOf(lit)[n+1] = row[n+1] /\ RowOf(lit)[k] = row[k]
        /\ \A j \in 1 .. PWM_STEP_PAGE_SIZE : RowOf(lit)[j] = row[j]
    BY <1>4, <1>6
  <2> QED BY <1>7, <2>1 DEF TakenOver
<1>9. i \in Entries /\ \A j \in 1 .. PWM_STEP_PAGE_SIZE : j # k => row[j] # i
  BY <1>5, <1>6
<1>10. /\ new \in PageMemory /\ new[i].on = cut[i].on \cup outs /\ new[i].timer_val = v
       /\ new[i].next_step = cut[i].next_step
       /\ \A x \in Entries : x # i => new[x] = cut[x]
  <2> HIDE DEF i
  <2>1. cut[i] \in StepEntry /\ v \in Int
    BY <1>7, <1>9 DEF PageMemory
  <2>2. \A x \in Entries : new[x] = IF x = i THEN [cut[i] EXCEPT !.timer_val = v, !.on = @ \cup outs]
                                             ELSE cut[x]
    BY <1>7, <1>9 DEF PageMemory
  <2>3. DOMAIN new = Entries /\ new = [x \in Entries |-> new[x]]
    BY <1>7, <1>9 DEF PageMemory
  <2> HIDE DEF new
  <2>4. /\ new[i] = [cut[i] EXCEPT !.timer_val = v, !.on = @ \cup outs]
        /\ \A x \in Entries : x # i => new[x] = cut[x]
    BY <1>9, <2>2
  <2>5. /\ new[i] \in StepEntry /\ new[i].on = cut[i].on \cup outs /\ new[i].timer_val = v
        /\ new[i].next_step = cut[i].next_step
    BY <2>1, <2>4 DEF StepEntry
  <2>6. \A x \in Entries : new[x] \in StepEntry
    BY <1>7, <2>4, <2>5 DEF PageMemory
  <2>7. new \in PageMemory
    BY <2>3, <2>6 DEF PageMemory
  <2> QED BY <2>4, <2>5, <2>7
<1> HIDE DEF new
<1>11. \A j \in 1 .. PWM_STEP_PAGE_SIZE : j # k => new[row[j]] = cut[row[j]]
  BY <1>5, <1>9, <1>10
<1>12. lit[row[n+1]].next_step = Ptr(p, row[n+2])
  <2>1. lit[row[n+1]].next_step = m[row[n+1]].next_step
    BY <1>4, <1>6
  <2>2. m[row[n+1]].next_step = Ptr(p, row[(n+1)+1])
    BY <1>5, <1>6
  <2> QED BY <1>6, <2>1, <2>2
<1>13. ASSUME NEW j \in 1 .. PWM_STEP_PAGE_SIZE, j # k, j # n + 1
       PROVE  /\ new[row[j]].on = IF j < k THEN m[row[j]].on \cup outs ELSE m[row[j]].on
              /\ new[row[j]].timer_val = m[row[j]].timer_val
              /\ j < PWM_STEP_PAGE_SIZE =>
                   new[row[j]].next_step = Ptr(p, row[IF j = n THEN n + 2 ELSE j + 1])
  <2>1. /\ new[row[j]].on = lit[row[j]].on /\ new[row[j]].timer_val = lit[row[j]].timer_val
        /\ new[row[j]].next_step =
             IF j = n THEN lit[row[n+1]].next_step ELSE lit[row[j]].next_step
    BY <1>8, <1>11, <1>13
  <2>2. j < PWM_STEP_PAGE_SIZE => lit[row[j]].next_step = Ptr(p, row[j+1])
    BY <1>4, <1>5, <1>6
  <2> QED BY <1>4, <1>12, <2>1, <2>2
<1>14. /\ new[row[k]].on = m[row[k]].on \cup outs /\ new[row[k]].timer_val = v
       /\ new[row[k]].next_step = Ptr(p, row[n+1])
  <2>1. lit[row[k]].on = m[row[k]].on
    BY <1>4, <1>6
  <2> QED BY <1>8, <1>10, <2>1
<1>15. /\ new[row[n+1]].on = m[row[k]].on
       /\ new[row[n+1]].timer_val = m[row[k]].timer_val
       /\ new[row[n+1]].next_step = Ptr(p, row[IF k = n THEN n + 2 ELSE k + 1])
  <2>1. /\ lit[row[k]].on = m[row[k]].on /\ lit[row[k]].timer_val = m[row[k]].timer_val
        /\ lit[row[k]].next_step = Ptr(p, row[k+1])
    BY <1>4, <1>5, <1>6
  <2>2. new[row[n+1]] = cut[row[n+1]]
    BY <1>6, <1>11
  <2> QED BY <1>8, <1>12, <2>1, <2>2
<1>16. CutAt(p, m, new, n, k, outs, v)
  BY <1>13, <1>14, <1>15 DEF CutAt, row
<1> QED BY <1>2, <1>10, <1>16

\* The row after a step has been cut in two at place k: the free entry follows it.
OldPlace(n, k, x) ==
  IF x <= k THEN x ELSE IF x = k + 1 THEN n + 1 ELSE IF x <= n + 1 THEN x - 1 ELSE x

LEMMA OldPlaceIs ==
  ASSUME NEW n \in 1 .. PWM_STEP_PAGE_SIZE - 2, NEW k \in 1 .. n
  PROVE  /\ \A x \in 1 .. PWM_STEP_PAGE_SIZE : OldPlace(n, k, x) \in 1 .. PWM_STEP_PAGE_SIZE
         /\ \A x, y \in 1 .. PWM_STEP_PAGE_SIZE :
              OldPlace(n, k, x) = OldPlace(n, k, y) => x = y
         /\ OldPlace(n, k, 1) = 1 /\ OldPlace(n, k, k) = k /\ OldPlace(n, k, k + 1) = n + 1
         /\ \A x \in 1 .. PWM_STEP_PAGE_SIZE : x # k /\ x # k + 1 =>
              /\ OldPlace(n, k, x) # k /\ OldPlace(n, k, x) # n + 1
              /\ OldPlace(n, k, x) < k <=> x < k
              /\ OldPlace(n, k, x) <= n <=> x <= n + 1
              /\ x < PWM_STEP_PAGE_SIZE =>
                   /\ OldPlace(n, k, x) < PWM_STEP_PAGE_SIZE
                   /\ OldPlace(n, k, x + 1) = IF OldPlace(n, k, x) = n THEN n + 2
                                              ELSE OldPlace(n, k, x) + 1
         /\ OldPlace(n, k, k + 2) = IF k = n THEN n + 2 ELSE k + 1
<1>1. /\ n \in Nat /\ PWM_STEP_PAGE_SIZE \in Nat /\ n + 2 <= PWM_STEP_PAGE_SIZE /\ k \in Nat
      /\ 1 <= k /\ k <= n
  BY SizeFacts
<1> QED BY <1>1 DEF OldPlace

RowMoved(m, new, n, k) ==
  \A x \in 1 .. PWM_STEP_PAGE_SIZE : RowOf(new)[x] = RowOf(m)[OldPlace(n, k, x)]

LEMMA SetChannelCutOpen ==
  ASSUME NEW p \in {1, 2}, NEW m \in PageMemory, NEW n \in 0 .. PWM_STEP_PAGE_SIZE - 2,
         OpenPage(p, m, n), NEW outs \in SUBSET PP!Outputs, NEW v \in Nat \ {0},
         NEW k \in 1 .. n, NEW new \in PageMemory, CutAt(p, m, new, n, k, outs, v)
  PROVE  OpenPage(p, new, n + 1) /\ RowMoved(m, new, n, k)
<1> DEFINE S == PWM_STEP_PAGE_SIZE
           row == RowOf(m)
           old(x) == OldPlace(n, k, x)
           r == [x \in 1 .. S |-> row[old(x)]]
<1>1. /\ row[1] = 0
      /\ \A j \in 1 .. S : row[j] \in Entries /\ (m[row[j]].timer_val # 0 <=> j <= n)
      /\ \A j, h \in 1 .. S : row[j] = row[h] => j = h
  BY OpenRow
<1>2. /\ \A j \in 1 .. S : j # k /\ j # n + 1 =>
           /\ new[row[j]].timer_val = m[row[j]].timer_val
           /\ j < S => new[row[j]].next_step = Ptr(p, row[IF j = n THEN n + 2 ELSE j + 1])
      /\ new[row[k]].timer_val = v
      /\ new[row[k]].next_step = Ptr(p, row[n+1])
      /\ new[row[n+1]].timer_val = m[row[k]].timer_val
      /\ new[row[n+1]].next_step = Ptr(p, row[IF k = n THEN n + 2 ELSE k + 1])
  BY DEF CutAt
<1>3. /\ n \in 1 .. S - 2 /\ n + 1 \in 0 .. S - 1 /\ k \in 1 .. S /\ k + 1 \in 1 .. S
      /\ k <= n /\ k <= n + 1 /\ k + 1 <= n + 1 /\ 1 \in 1 .. S /\ (k + 1) + 1 = k + 2
      /\ \A x \in 1 .. S - 1 : x \in 1 .. S /\ x < S /\ x + 1 \in 1 .. S
  BY SizeFacts
<1>4. /\ \A x \in 1 .. S : old(x) \in 1 .. S
      /\ \A x, y \in 1 .. S : old(x) = old(y) => x = y
      /\ old(1) = 1 /\ old(k) = k /\ old(k + 1) = n + 1
      /\ \A x \in 1 .. S : x # k /\ x # k + 1 =>
           /\ old(x) # k /\ old(x) # n + 1
           /\ old(x) <= n <=> x <= n + 1
           /\ x < S => /\ old(x) < S
                       /\ old(x + 1) = IF old(x) = n THEN n + 2 ELSE old(x) + 1
      /\ old(k + 2) = IF k = n THEN n + 2 ELSE k + 1
  BY <1>3, OldPlaceIs
<1>5. \A x \in 1 .. S : r[x] = row[old(x)]
  OBVIOUS
<1> HIDE DEF r, row, old
<1>6. r[1] = 0
  BY <1>1, <1>3, <1>4, <1>5
<1>7. ASSUME NEW x \in 1 .. S
      PROVE  r[x] \in Entries /\ (new[r[x]].timer_val # 0 <=> x <= n + 1)
  <2>1. r[x] = row[old(x)] /\ old(x) \in 1 .. S /\ r[x] \in Entries
    BY <1>1, <1>4, <1>5
  <2>2. CASE x = k
    BY <1>2, <1>3, <1>4, <2>1, <2>2
  <2>3. CASE x = k + 1
    <3>1. new[r[x]].timer_val = m[row[k]].timer_val /\ m[row[k]].timer_val # 0
      BY <1>1, <1>2, <1>3, <1>4, <2>1, <2>3
    <3> QED BY <1>3, <2>1, <2>3, <3>1
  <2>4. CASE x # k /\ x # k + 1
    <3>1. new[r[x]].timer_val = m[row[old(x)]].timer_val
      BY <1>2, <1>4, <2>1, <2>4
    <3> QED BY <1>1, <1>4, <2>1, <2>4, <3>1
  <2> QED BY <2>2, <2>3, <2>4
<1>8. ASSUME NEW x \in 1 .. S - 1 PROVE new[r[x]].next_step = Ptr(p, r[x+1])
  <2>1. /\ x \in 1 .. S /\ x + 1 \in 1 .. S /\ x < S
        /\ r[x] = row[old(x)] /\ r[x+1] = row[old(x+1)] /\ old(x) \in 1 .. S
    BY <1>3, <1>4, <1>5
  <2>2. CASE x = k
    BY <1>2, <1>4, <2>1, <2>2
  <2>3. CASE x = k + 1
    <3>1. r[x] = row[n+1] /\ r[x+1] = row[old(k+2)]
      BY <1>3, <1>4, <2>1, <2>3
    <3> QED BY <1>2, <1>4, <3>1
  <2>4. CASE x # k /\ x # k + 1
    <3>1. old(x) # k /\ old(x) # n + 1 /\ old(x) < S
          /\ old(x + 1) = IF old(x) = n THEN n + 2 ELSE old(x) + 1
      BY <1>4, <2>1, <2>4
    <3>2. new[row[old(x)]].next_step = Ptr(p, row[IF old(x) = n THEN n + 2 ELSE old(x) + 1])
      BY <1>2, <2>1, <3>1
    <3> QED BY <2>1, <3>1, <3>2
  <2> QED BY <2>2, <2>3, <2>4
<1>9. \A x, y \in 1 .. S : r[x] = r[y] => x = y
  BY <1>1, <1>4, <1>5
<1>10. OpenPage(p, new, n + 1) /\ \A x \in 1 .. S : RowOf(new)[x] = r[x]
  BY <1>3, <1>6, <1>7, <1>8, <1>9, OpenFromRow
<1> QED BY <1>5, <1>10 DEF RowMoved, row, old

LEMMA SetChannelCut ==
  ASSUME NEW p \in {1, 2}, NEW m \in PageMemory, NEW n \in 0 .. PWM_STEP_PAGE_SIZE - 2,
         OpenPage(p, m, n), PP!Sorted(ListOf(p, m)), NEW outs \in SUBSET PP!Outputs,
         NEW v \in Nat \ {0}, StopsAt(m, v) <= n,
         m[RowOf(m)[StopsAt(m, v)]].timer_val # v
  PROVE  /\ SetChannel(m, outs, v) \in PageMemory
         /\ OpenPage(p, SetChannel(m, outs, v), n + 1)
         /\ ListOf(p, SetChannel(m, outs, v)) = PP!SetChannel(ListOf(p, m), outs, v)
<1> DEFINE row == RowOf(m)
           k == StopsAt(m, v)
           list == ListOf(p, m)
           t == PP!SetChannel(list, outs, v)
           new == SetChannel(m, outs, v)
<1>1. /\ k \in 1 .. n + 1 /\ v <= m[row[k]].timer_val
      /\ \A j \in 1 .. k - 1 : m[row[j]].timer_val < v
  BY StopIs
<1>2. k \in 1 .. n /\ n \in Nat
  BY <1>1, SizeFacts
<1>3. new \in PageMemory /\ CutAt(p, m, new, n, k, outs, v)
  BY <1>2, SetChannelCutAt
<1>4. /\ OpenPage(p, new, n + 1)
      /\ \A x \in 1 .. PWM_STEP_PAGE_SIZE : RowOf(new)[x] = row[OldPlace(n, k, x)]
  <2> HIDE DEF new, k
  <2>1. OpenPage(p, new, n + 1)
    BY <1>2, <1>3, SetChannelCutOpen
  <2>2. RowMoved(m, new, n, k)
    BY <1>2, <1>3, SetChannelCutOpen
  <2> QED BY <2>1, <2>2 DEF RowMoved
<1>5. /\ list \in Seq(PP!Step) /\ Len(list) = n
      /\ \A j \in 1 .. n : /\ list[j].on = m[row[j]].on
                           /\ list[j].timer_val = m[row[j]].timer_val
  BY OpenSteps
<1>6. Switched(list, t, outs, v, k) /\ list[k].timer_val # v
  <2>1. PP!Sorted(list) /\ m[row[k]].timer_val # v
    OBVIOUS
  <2> HIDE DEF list, row, k
  <2>2. /\ k \in 1 .. Len(list) + 1 /\ v \in Int /\ v <= list[k].timer_val
        /\ list[k].timer_val # v
    BY <1>1, <1>2, <1>5, <2>1
  <2>3. \A j \in 1 .. k - 1 : list[j].timer_val < v
    BY <1>1, <1>2, <1>5
  <2> QED BY <1>5, <2>1, <2>2, <2>3, SetChannelIs
<1> HIDE DEF new, list, t, row
<1>7. /\ \A j \in 1 .. PWM_STEP_PAGE_SIZE : j # k /\ j # n + 1 =>
           /\ new[row[j]].on = IF j < k THEN m[row[j]].on \cup outs ELSE m[row[j]].on
           /\ new[row[j]].timer_val = m[row[j]].timer_val
      /\ new[row[k]].on = m[row[k]].on \cup outs /\ new[row[k]].timer_val = v
      /\ new[row[n+1]].on = m[row[k]].on
      /\ new[row[n+1]].timer_val = m[row[k]].timer_val
  BY <1>3 DEF CutAt, row
<1> HIDE DEF k
<1>8. /\ t \in Seq(PP!Step) /\ Len(t) = n + 1
      /\ \A i \in 1 .. k - 1 : /\ t[i].on = list[i].on \cup outs
                               /\ t[i].timer_val = list[i].timer_val
      /\ t[k].timer_val = v /\ t[k].on = list[k].on \cup outs
      /\ \A i \in k + 1 .. n + 1 : t[i] = list[i-1]
  <2>1. k <= n
    BY <1>2
  <2> QED BY <1>5, <1>6, <2>1 DEF Switched
<1>9. ASSUME NEW x \in 1 .. n + 1
      PROVE  /\ t[x].on = new[RowOf(new)[x]].on
             /\ t[x].timer_val = new[RowOf(new)[x]].timer_val
  <2>1. RowOf(new)[x] = row[OldPlace(n, k, x)]
    BY <1>2, <1>4, SizeFacts
  <2>2. CASE x < k
    <3>1. /\ OldPlace(n, k, x) = x /\ x \in 1 .. PWM_STEP_PAGE_SIZE /\ x # k /\ x # n + 1
          /\ x \in 1 .. n /\ x \in 1 .. k - 1
      BY <1>2, <2>2, SizeFacts DEF OldPlace
    <3>2. list[x].on = m[row[x]].on /\ list[x].timer_val = m[row[x]].timer_val
      BY <1>5, <3>1
    <3>3. /\ new[row[x]].on = m[row[x]].on \cup outs
          /\ new[row[x]].timer_val = m[row[x]].timer_val
      BY <1>7, <2>2, <3>1
    <3>4. t[x].on = list[x].on \cup outs /\ t[x].timer_val = list[x].timer_val
      BY <1>8, <3>1
    <3> QED BY <2>1, <3>1, <3>2, <3>3, <3>4
  <2>3. CASE x = k
    <3>1. OldPlace(n, k, x) = k
      BY <1>2, <2>3 DEF OldPlace
    <3>2. list[k].on = m[row[k]].on
      BY <1>2, <1>5
    <3>3. t[k].timer_val = v /\ t[k].on = m[row[k]].on \cup outs
      BY <1>8, <3>2
    <3> QED BY <1>7, <2>1, <2>3, <3>1, <3>3
  <2>4. CASE x = k + 1
    <3>1. OldPlace(n, k, x) = n + 1 /\ x \in k + 1 .. n + 1 /\ x - 1 = k
      BY <1>2, <2>4 DEF OldPlace
    <3>2. t[x] = list[k]
      BY <1>8, <3>1
    <3> QED BY <1>2, <1>5, <1>7, <2>1, <3>1, <3>2
  <2>5. CASE k + 1 < x
    <3>1. /\ OldPlace(n, k, x) = x - 1 /\ x - 1 \in 1 .. PWM_STEP_PAGE_SIZE
          /\ x - 1 # k /\ x - 1 # n + 1 /\ ~(x - 1 < k) /\ x - 1 \in 1 .. n
          /\ x \in k + 1 .. n + 1
      BY <1>2, <2>5, SizeFacts DEF OldPlace
    <3>2. t[x] = list[x-1]
      BY <1>8, <3>1
    <3>3. list[x-1].on = m[row[x-1]].on /\ list[x-1].timer_val = m[row[x-1]].timer_val
      BY <1>5, <3>1
    <3>4. /\ new[row[x-1]].on = m[row[x-1]].on
          /\ new[row[x-1]].timer_val = m[row[x-1]].timer_val
      BY <1>7, <3>1
    <3> QED BY <2>1, <3>1, <3>2, <3>3, <3>4
  <2> QED BY <1>2, <2>2, <2>3, <2>4, <2>5
<1>10. ListOf(p, new) = t
  BY <1>3, <1>4, <1>8, <1>9, ListIs
<1> QED BY <1>3, <1>4, <1>10 DEF list, t, new

\* set_channel on the list is SetChannel on the sequence; it takes at most one free entry.
LEMMA SetChannelStep ==
  ASSUME NEW p \in {1, 2}, NEW m \in PageMemory, NEW n \in 0 .. PWM_STEP_PAGE_SIZE - 2,
         OpenPage(p, m, n), PP!Sorted(ListOf(p, m)), NEW outs \in SUBSET PP!Outputs,
         NEW v \in Nat \ {0}
  PROVE  /\ SetChannel(m, outs, v) \in PageMemory
         /\ \E l \in {n, n + 1} : OpenPage(p, SetChannel(m, outs, v), l)
         /\ ListOf(p, SetChannel(m, outs, v)) = PP!SetChannel(ListOf(p, m), outs, v)
<1>1. StopsAt(m, v) = n + 1 \/ StopsAt(m, v) <= n
  BY StopIs, SizeFacts
<1>2. CASE StopsAt(m, v) = n + 1
  BY <1>2, SetChannelAppend
<1>3. CASE StopsAt(m, v) <= n /\ m[RowOf(m)[StopsAt(m, v)]].timer_val = v
  BY <1>3, SetChannelExact
<1>4. CASE StopsAt(m, v) <= n /\ m[RowOf(m)[StopsAt(m, v)]].timer_val # v
  BY <1>4, SetChannelCut
<1> QED BY <1>1, <1>2, <1>3, <1>4

LEMMA ValueFacts ==
  Brights \subseteq Nat /\ PwmResolutions \subseteq Nat \ {0} /\ PWM_PRESCALE \in Nat \ {0}
  BY Assumed, SMT

\* calc_pwm_page, the body of the loop.
LEMMA CalcEntryStep ==
  ASSUME bright_vals \in [PP!Channels -> Brights], max_pwm \in PwmResolutions,
         NEW p \in {1, 2}, NEW m \in PageMemory, NEW n \in 0 .. PWM_STEP_PAGE_SIZE - 2,
         OpenPage(p, m, n), PP!Sorted(ListOf(p, m)), NEW e \in PP!MapEntries
  PROVE  /\ CalcEntry(m, e) \in PageMemory
         /\ \E l \in {n, n + 1} : OpenPage(p, CalcEntry(m, e), l)
         /\ ListOf(p, CalcEntry(m, e)) = PP!CalcEntry(ListOf(p, m), e)
<1> DEFINE v == bright_vals[PP!CM_CHANNEL(e.code)]
           cutTime == IF v > max_pwm THEN max_pwm ELSE v
<1>1. PP!CM_CHANNEL(e.code) = Pages!CM_CHANNEL(e.code) /\ PP!Driven(e) = Pages!Driven(e)
  BY DEF PP!CM_CHANNEL, Pages!CM_CHANNEL, PP!Driven, Pages!Driven, PP!CM_PORT, Pages!CM_PORT
<1>2. v \in Nat /\ max_pwm \in Nat \ {0}
  BY ValueFacts DEF PP!MapEntries
<1>3. PP!Driven(e) \in SUBSET PP!Outputs
  BY Assumed, PP!DrivenType
<1>4. CASE e.port_bits = {} \/ v = 0
  <2>1. CalcEntry(m, e) = m /\ PP!CalcEntry(ListOf(p, m), e) = ListOf(p, m)
    BY <1>1, <1>4 DEF CalcEntry, PP!CalcEntry
  <2> QED BY <2>1
<1>5. CASE ~(e.port_bits = {} \/ v = 0)
  <2>1. /\ CalcEntry(m, e) = SetChannel(m, PP!Driven(e), cutTime)
        /\ PP!CalcEntry(ListOf(p, m), e) = PP!SetChannel(ListOf(p, m), PP!Driven(e), cutTime)
    BY <1>1, <1>5 DEF CalcEntry, PP!CalcEntry
  <2>2. cutTime \in Nat \ {0}
    BY <1>2, <1>5
  <2> HIDE DEF cutTime
  <2> QED BY <1>3, <2>1, <2>2, SetChannelStep
<1> QED BY <1>4, <1>5

(***************************************************************************)
(* activate_pwm_page, up to the cycle.                                     *)
(***************************************************************************)

\* What has been put into a list that is to be finished.
Timed(list) ==
  /\ PP!Sorted(list)
  /\ \A i \in 1 .. Len(list) : list[i].timer_val \in 1 .. max_pwm

\* The finished sequence, place by place.
FinishedAs(list, t) ==
  LET n == Len(list)
      pause == max_pwm - PP!LastTime(list)
      before(i) == IF i = 1 THEN 0 ELSE list[i-1].timer_val
  IN /\ t \in Seq(PP!Step) /\ Len(t) = IF pause = 0 THEN n ELSE n + 1
     /\ \A i \in 1 .. n : /\ t[i].on = list[i].on
                          /\ t[i].timer_val = PWM_PRESCALE * (list[i].timer_val - before(i))
     /\ pause # 0 => t[n+1].on = {} /\ t[n+1].timer_val = pause * PWM_PRESCALE

LEMMA FinishedIs ==
  ASSUME NEW list \in Seq(PP!Step), PP!Finished(list) \in Seq(PP!Step)
  PROVE  FinishedAs(list, PP!Finished(list))
<1> DEFINE n == Len(list)
           pause == max_pwm - PP!LastTime(list)
           before(i) == IF i = 1 THEN 0 ELSE list[i-1].timer_val
           d == PP!Durations(list)
           t == PP!Finished(list)
           rest == [on |-> {}, timer_val |-> pause * PWM_PRESCALE]
<1>1. n \in Nat /\ DOMAIN list = 1 .. n
  OBVIOUS
<1>2. d = [i \in 1 .. n |-> [on |-> list[i].on,
                             timer_val |-> PWM_PRESCALE * (list[i].timer_val - before(i))]]
  BY <1>1 DEF PP!Durations
<1>3. /\ DOMAIN d = 1 .. n
      /\ \A i \in 1 .. n : /\ d[i].on = list[i].on
                           /\ d[i].timer_val = PWM_PRESCALE * (list[i].timer_val - before(i))
  BY <1>2
<1> DEFINE D == {d[i] : i \in 1 .. n}
<1>4. d \in Seq(D) /\ Len(d) = n
  <2>1. d \in [1 .. n -> D]
    BY <1>2
  <2> HIDE DEF d, D
  <2> QED BY <1>1, <1>3, <2>1
<1>5. t = IF pause = 0 THEN d ELSE Append(d, rest)
  BY Zenon DEF PP!Finished
<1> HIDE DEF d, D, before, pause
<1>6. CASE pause = 0
  BY <1>1, <1>3, <1>4, <1>5, <1>6 DEF FinishedAs, pause, before
<1>7. CASE pause # 0
  <2>1. t = Append(d, rest)
    BY <1>5, <1>7
  <2> HIDE DEF t
  <2>2. /\ Len(t) = n + 1 /\ t[n+1] = rest /\ \A i \in 1 .. n : t[i] = d[i]
    <3> HIDE DEF rest
    <3> QED BY <1>1, <1>4, <2>1
  <2>3. t \in Seq(PP!Step)
    BY DEF t
  <2>4. /\ \A i \in 1 .. n : /\ t[i].on = list[i].on
                             /\ t[i].timer_val = PWM_PRESCALE * (list[i].timer_val - before(i))
        /\ t[n+1].on = {} /\ t[n+1].timer_val = pause * PWM_PRESCALE
    BY <1>3, <2>2
  <2>5. FinishedAs(list, t)
    BY <1>7, <2>2, <2>3, <2>4 DEF FinishedAs, pause, before
  <2> QED BY <2>5 DEF t
<1> QED BY <1>6, <1>7

\* The loop that turns end times into durations.
DurationsAt(m, dur, n) ==
  LET row == RowOf(m)
      before(k) == IF k = 1 THEN 0 ELSE m[row[k-1]].timer_val
  IN \A k \in 1 .. PWM_STEP_PAGE_SIZE :
       /\ dur[row[k]].on = m[row[k]].on
       /\ dur[row[k]].next_step = m[row[k]].next_step
       /\ dur[row[k]].timer_val =
            IF k <= n THEN PWM_PRESCALE * (m[row[k]].timer_val - before(k)) ELSE 0

LEMMA ToDurationsIs ==
  ASSUME NEW p \in {1, 2}, NEW m \in PageMemory, NEW n, OpenPage(p, m, n)
  PROVE  ToDurations(m) \in PageMemory /\ DurationsAt(m, ToDurations(m), n)
<1> DEFINE row == RowOf(m)
           before(k) == IF k = 1 THEN 0 ELSE m[row[k-1]].timer_val
           duration(k) == (EndTime(m, k) - EndTime(m, k - 1)) * PWM_PRESCALE
           placed(i) == \E k \in 1 .. n : row[k] = i
           place(i) == CHOOSE k \in 1 .. n : row[k] = i
           dur == ToDurations(m)
<1>1. Used(m) = n
  BY UsedIs
<1>2. dur = [i \in Entries |-> IF placed(i) THEN [m[i] EXCEPT !.timer_val = duration(place(i))]
                                            ELSE m[i]]
  BY <1>1, Zenon DEF ToDurations
<1>3. /\ n \in 0 .. PWM_STEP_PAGE_SIZE - 1
      /\ \A k \in 1 .. PWM_STEP_PAGE_SIZE : /\ row[k] \in Entries
                                            /\ m[row[k]] \in StepEntry
                                            /\ m[row[k]].timer_val # 0 <=> k <= n
      /\ \A j, k \in 1 .. PWM_STEP_PAGE_SIZE : row[j] = row[k] => j = k
  BY OpenRow
<1>4. /\ n \in Nat
      /\ \A k \in 1 .. n : /\ k \in 1 .. PWM_STEP_PAGE_SIZE /\ k # 0
                           /\ k # 1 => k - 1 \in 1 .. n /\ k - 1 # 0
                           /\ k = 1 => k - 1 = 0
  BY <1>3, SizeFacts
<1> HIDE DEF row
<1>5. ASSUME NEW k \in 1 .. n
      PROVE  duration(k) = PWM_PRESCALE * (m[row[k]].timer_val - before(k)) /\ duration(k) \in Int
  <2>1. EndTime(m, k) = m[row[k]].timer_val /\ EndTime(m, k - 1) = before(k)
    BY <1>4 DEF EndTime, row
  <2>2. m[row[k]].timer_val \in Int /\ before(k) \in Int
    <3>1. m[row[k]].timer_val \in Int
      BY <1>3, <1>4 DEF StepEntry
    <3>2. k # 1 => m[row[k-1]].timer_val \in Int
      BY <1>3, <1>4 DEF StepEntry
    <3> QED BY <3>1, <3>2
  <2> HIDE DEF before
  <2> QED BY <2>1, <2>2, ValueFacts
<1> HIDE DEF duration, before
<1>6. \A i \in Entries : placed(i) => place(i) \in 1 .. n /\ row[place(i)] = i
  OBVIOUS
<1>7. \A i \in Entries :
        /\ dur[i] \in StepEntry /\ dur[i].on = m[i].on /\ dur[i].next_step = m[i].next_step
        /\ dur[i].timer_val = IF placed(i) THEN duration(place(i)) ELSE m[i].timer_val
  <2> SUFFICES ASSUME NEW i \in Entries
               PROVE  /\ dur[i] \in StepEntry /\ dur[i].on = m[i].on
                      /\ dur[i].next_step = m[i].next_step
                      /\ dur[i].timer_val = IF placed(i) THEN duration(place(i))
                                                         ELSE m[i].timer_val
    OBVIOUS
  <2>1. placed(i) => duration(place(i)) \in Int
    BY <1>5, <1>6
  <2>2. m[i] \in StepEntry
    BY DEF PageMemory
  <2> HIDE DEF placed, place, dur
  <2>3. dur[i] = IF placed(i) THEN [m[i] EXCEPT !.timer_val = duration(place(i))] ELSE m[i]
    BY <1>2
  <2> QED BY <2>1, <2>2, <2>3 DEF StepEntry
<1>8. dur \in PageMemory
  <2> HIDE DEF placed, place, dur
  <2> QED BY <1>2, <1>7 DEF PageMemory
<1>9. ASSUME NEW k \in 1 .. PWM_STEP_PAGE_SIZE
      PROVE  dur[row[k]].timer_val =
               IF k <= n THEN PWM_PRESCALE * (m[row[k]].timer_val - before(k)) ELSE 0
  <2> HIDE DEF dur
  <2>1. row[k] \in Entries
    BY <1>3
  <2>2. CASE k <= n
    <3>1. k \in 1 .. n /\ placed(row[k])
      BY <1>4, <2>2
    <3>2. place(row[k]) = k
      <4>1. place(row[k]) \in 1 .. n /\ row[place(row[k])] = row[k]
        BY <1>6, <2>1, <3>1
      <4> HIDE DEF place
      <4> QED BY <1>3, <1>4, <4>1
    <3> HIDE DEF place, placed
    <3>3. dur[row[k]].timer_val = duration(k)
      BY <1>7, <2>1, <3>1, <3>2
    <3> QED BY <1>5, <2>2, <3>1, <3>3
  <2>3. CASE ~(k <= n)
    <3>1. ~ placed(row[k])
      BY <1>3, <1>4, <2>3
    <3> HIDE DEF placed, place
    <3> QED BY <1>3, <1>7, <2>1, <2>3, <3>1
  <2> QED BY <2>2, <2>3
<1> HIDE DEF dur
<1>10. DurationsAt(m, dur, n)
  BY <1>3, <1>7, <1>9 DEF DurationsAt, row, before
<1> QED BY <1>8, <1>10 DEF dur

LEMMA TimedPositive ==
  ASSUME NEW list \in Seq(PP!Step), Timed(list), max_pwm \in PwmResolutions
  PROVE  /\ PP!LastTime(list) \in 0 .. max_pwm
         /\ Len(list) = 0 => PP!LastTime(list) = 0
         /\ \A i \in 1 .. Len(list) :
              list[i].timer_val - (IF i = 1 THEN 0 ELSE list[i-1].timer_val) \in Nat \ {0}
<1> DEFINE n == Len(list)
<1>1. n \in Nat /\ DOMAIN list = 1 .. n /\ (list = <<>> <=> n = 0)
  OBVIOUS
<1>2. /\ \A i \in 1 .. n : list[i].timer_val \in 1 .. max_pwm
      /\ \A i, j \in 1 .. n : i < j => list[i].timer_val < list[j].timer_val
  BY <1>1 DEF Timed, PP!Sorted
<1>3. max_pwm \in Nat \ {0}
  BY ValueFacts
<1>4. PP!LastTime(list) = IF n = 0 THEN 0 ELSE list[n].timer_val
  BY <1>1 DEF PP!LastTime
<1> HIDE DEF n
<1>5. PP!LastTime(list) \in 0 .. max_pwm
  <2>1. n # 0 => n \in 1 .. n
    BY <1>1
  <2> QED BY <1>2, <1>3, <1>4, <2>1
<1>6. ASSUME NEW i \in 1 .. n
      PROVE  list[i].timer_val - (IF i = 1 THEN 0 ELSE list[i-1].timer_val) \in Nat \ {0}
  <2>1. list[i].timer_val \in 1 .. max_pwm
    BY <1>2
  <2>2. CASE i = 1
    BY <1>3, <2>1, <2>2
  <2>3. CASE i # 1
    <3>1. i - 1 \in 1 .. n /\ i - 1 < i
      BY <1>1, <2>3
    <3>2. list[i-1].timer_val \in 1 .. max_pwm /\ list[i-1].timer_val < list[i].timer_val
      BY <1>2, <3>1
    <3> QED BY <1>3, <2>1, <2>3, <3>2
  <2> QED BY <2>2, <2>3
<1> QED BY <1>4, <1>5, <1>6 DEF n

LEMMA PositiveProduct ==
  ASSUME NEW a \in Nat \ {0}, NEW b \in Nat \ {0}
  PROVE  a * b \in Nat \ {0} /\ a * b = b * a
  OBVIOUS

\* activate_pwm_page finishes the list as PwmPages finishes the sequence: the pause is the
\* first free entry, and the last step leads to the first entry.
LEMMA FinishStep ==
  ASSUME NEW p \in {1, 2}, NEW m \in PageMemory, NEW n \in 0 .. PWM_STEP_PAGE_SIZE - 2,
         OpenPage(p, m, n), max_pwm \in PwmResolutions, Timed(ListOf(p, m)),
         PP!Finished(ListOf(p, m)) \in Seq(PP!Step)
  PROVE  /\ Finish(p, m).page \in PageMemory
         /\ \E N \in Nat : ClosedPage(p, Finish(p, m).page, N)
         /\ ListOf(p, Finish(p, m).page) = PP!Finished(ListOf(p, m))
         /\ LinkOf(p, Finish(p, m).page) = p
         /\ Finish(p, m).last = EndOf(p, Finish(p, m).page)
<1> DEFINE row == RowOf(m)
           list == ListOf(p, m)
           t == PP!Finished(list)
           pause == max_pwm - EndTime(m, n)
           N == IF pause = 0 THEN n ELSE n + 1
           l == row[N]
           dur == ToDurations(m)
           full == IF pause = 0 THEN dur
                   ELSE [dur EXCEPT ![l].on = {}, ![l].timer_val = pause * PWM_PRESCALE]
           done == [full EXCEPT ![l].next_step = Ptr(p, 0)]
<1>1. Used(m) = n
  BY UsedIs
<1>2. Finish(p, m).page = done /\ Finish(p, m).last = l
  BY <1>1 DEF Finish, LastStep
<1>3. /\ n \in Nat /\ list \in Seq(PP!Step) /\ Len(list) = n
      /\ \A j \in 1 .. n : /\ list[j].on = m[row[j]].on
                           /\ list[j].timer_val = m[row[j]].timer_val
  BY OpenSteps
<1>4. dur \in PageMemory /\ DurationsAt(m, dur, n)
  BY ToDurationsIs
<1>5. FinishedAs(list, t)
  BY <1>3, FinishedIs
<1>6. /\ PP!LastTime(list) \in 0 .. max_pwm
      /\ n = 0 => PP!LastTime(list) = 0
      /\ \A i \in 1 .. n :
           list[i].timer_val - (IF i = 1 THEN 0 ELSE list[i-1].timer_val) \in Nat \ {0}
      /\ max_pwm \in Nat \ {0}
  <2> HIDE DEF list
  <2> QED BY <1>3, TimedPositive, ValueFacts DEF list
<1>7. /\ row[1] = 0
      /\ \A j \in 1 .. PWM_STEP_PAGE_SIZE : row[j] \in Entries
      /\ \A j \in 1 .. PWM_STEP_PAGE_SIZE - 1 : m[row[j]].next_step = Ptr(p, row[j+1])
      /\ \A j, h \in 1 .. PWM_STEP_PAGE_SIZE : row[j] = row[h] => j = h
  BY OpenRow
<1> HIDE DEF dur, list, t
<1>8. EndTime(m, n) = PP!LastTime(list)
  <2>1. CASE n = 0
    BY <1>6, <2>1 DEF EndTime
  <2>2. CASE n # 0
    <3>1. n \in 1 .. n /\ list # <<>>
      BY <1>3, <2>2
    <3> QED BY <1>3, <2>2, <3>1 DEF EndTime, PP!LastTime
  <2> QED BY <2>1, <2>2
<1>9. /\ \A k \in 1 .. PWM_STEP_PAGE_SIZE :
           /\ dur[row[k]].on = m[row[k]].on
           /\ dur[row[k]].next_step = m[row[k]].next_step
           /\ dur[row[k]].timer_val =
                IF k <= n THEN PWM_PRESCALE * (m[row[k]].timer_val
                                               - (IF k = 1 THEN 0 ELSE m[row[k-1]].timer_val))
                          ELSE 0
  BY <1>4 DEF DurationsAt
<1> HIDE DEF row
<1>10. pause \in 0 .. max_pwm /\ (n = 0 => pause # 0)
  <2>1. pause = max_pwm - PP!LastTime(list)
    BY <1>8
  <2> HIDE DEF pause
  <2> QED BY <1>6, <2>1
<1>11. /\ t \in Seq(PP!Step) /\ Len(t) = N
       /\ \A i \in 1 .. n : /\ t[i].on = list[i].on
                            /\ t[i].timer_val = PWM_PRESCALE * (list[i].timer_val
                                  - (IF i = 1 THEN 0 ELSE list[i-1].timer_val))
       /\ pause # 0 => t[n+1].on = {} /\ t[n+1].timer_val = pause * PWM_PRESCALE
  BY <1>3, <1>5, <1>8 DEF FinishedAs
<1> HIDE DEF pause
<1>12. /\ N \in 1 .. PWM_STEP_PAGE_SIZE - 1 /\ N \in 1 .. PWM_STEP_PAGE_SIZE
       /\ \A i \in 1 .. n : /\ i \in 1 .. PWM_STEP_PAGE_SIZE /\ i <= n
                            /\ i # 1 => i - 1 \in 1 .. n
       /\ \A i \in 1 .. N : /\ i \in 1 .. PWM_STEP_PAGE_SIZE
                            /\ i \in 1 .. n \/ (i = n + 1 /\ i = N /\ pause # 0)
       /\ \A i \in 1 .. N - 1 : /\ i \in 1 .. PWM_STEP_PAGE_SIZE - 1
                                /\ i \in 1 .. N /\ i # N /\ i + 1 \in 1 .. N
       /\ N \in 1 .. N
       /\ pause # 0 => N = n + 1
       /\ pause = 0 => N = n
  BY <1>3, <1>10, SizeFacts
<1> HIDE DEF N
<1>13. l \in Entries /\ \A j \in 1 .. PWM_STEP_PAGE_SIZE : j # N => row[j] # l
  BY <1>7, <1>12
<1> HIDE DEF l
<1>14. /\ full \in PageMemory
       /\ \A x \in Entries : x # l => full[x] = dur[x]
       /\ pause = 0 => full[l] = dur[l]
       /\ pause # 0 => full[l].on = {} /\ full[l].timer_val = pause * PWM_PRESCALE
  <2>1. pause * PWM_PRESCALE \in Int
    BY <1>6, <1>10, ValueFacts
  <2> DEFINE ticks == pause * PWM_PRESCALE
  <2> HIDE DEF ticks
  <2>2. CASE pause = 0
    BY <1>4, <1>13, <2>2
  <2>3. CASE pause # 0
    <3>1. full = [dur EXCEPT ![l].on = {}, ![l].timer_val = ticks]
      BY <2>3 DEF ticks
    <3>2. ticks \in Int /\ dur[l] \in StepEntry
      BY <1>4, <1>13, <2>1 DEF ticks, PageMemory
    <3> HIDE DEF full
    <3>3. \A x \in Entries : full[x] = IF x = l THEN [dur[l] EXCEPT !.on = {}, !.timer_val = ticks]
                                                ELSE dur[x]
      BY <1>4, <1>13, <3>1 DEF PageMemory
    <3>4. full = [x \in Entries |-> full[x]]
      BY <1>4, <1>13, <3>1 DEF PageMemory
    <3>5. full[l] \in StepEntry /\ full[l].on = {} /\ full[l].timer_val = ticks
      BY <1>13, <3>2, <3>3 DEF StepEntry
    <3>6. \A x \in Entries : full[x] \in StepEntry
      BY <1>4, <3>3, <3>5 DEF PageMemory
    <3>7. full \in PageMemory
      BY <3>4, <3>6 DEF PageMemory
    <3> QED BY <2>3, <3>3, <3>5, <3>7 DEF ticks
  <2> QED BY <2>2, <2>3
<1> HIDE DEF full
<1>15. /\ done \in PageMemory
       /\ \A x \in Entries : x # l => done[x] = full[x]
       /\ done[l].on = full[l].on /\ done[l].timer_val = full[l].timer_val
       /\ done[l].next_step = Ptr(p, 0)
  <2>1. Ptr(p, 0) \in [page : {1, 2}, idx : Nat]
    BY DEF Ptr
  <2>2. full[l] \in StepEntry
    BY <1>13, <1>14 DEF PageMemory
  <2> QED BY <1>13, <1>14, <2>1, <2>2 DEF PageMemory, StepEntry
<1> HIDE DEF done
<1>16. ASSUME NEW i \in 1 .. N
       PROVE  t[i].on = done[row[i]].on /\ t[i].timer_val = done[row[i]].timer_val
  <2>1. row[i] \in Entries
    BY <1>7, <1>12
  <2>2. done[row[i]].on = full[row[i]].on /\ done[row[i]].timer_val = full[row[i]].timer_val
    BY <1>15, <2>1
  <2>3. CASE i \in 1 .. n
    <3>1. full[row[i]] = dur[row[i]]
      <4>1. i # N => row[i] # l
        BY <1>12, <1>13
      <4>2. i = N => pause = 0
        BY <1>3, <1>12, <2>3
      <4> QED BY <1>14, <2>1, <4>1, <4>2 DEF l
    <3>2. /\ dur[row[i]].on = m[row[i]].on
          /\ dur[row[i]].timer_val = PWM_PRESCALE * (m[row[i]].timer_val
                                        - (IF i = 1 THEN 0 ELSE m[row[i-1]].timer_val))
      BY <1>9, <1>12, <2>3
    <3>3. /\ list[i].on = m[row[i]].on /\ list[i].timer_val = m[row[i]].timer_val
          /\ i # 1 => list[i-1].timer_val = m[row[i-1]].timer_val
      BY <1>3, <1>12, <2>3
    <3>4. /\ t[i].on = list[i].on
          /\ t[i].timer_val = PWM_PRESCALE * (list[i].timer_val
                                 - (IF i = 1 THEN 0 ELSE list[i-1].timer_val))
      BY <1>11, <2>3
    <3> QED BY <2>2, <3>1, <3>2, <3>3, <3>4
  <2>4. CASE i = n + 1 /\ i = N /\ pause # 0
    BY <1>11, <1>14, <2>2, <2>4 DEF l
  <2> QED BY <1>12, <2>3, <2>4
<1>17. ASSUME NEW i \in 1 .. N PROVE t[i].timer_val # 0
  <2>1. CASE i \in 1 .. n
    <3> DEFINE d == list[i].timer_val - (IF i = 1 THEN 0 ELSE list[i-1].timer_val)
    <3>1. d \in Nat \ {0} /\ t[i].timer_val = PWM_PRESCALE * d
      BY <1>6, <1>11, <2>1
    <3> HIDE DEF d
    <3> QED BY <3>1, ValueFacts, PositiveProduct
  <2>2. CASE i = n + 1 /\ pause # 0
    <3>1. pause \in Nat \ {0} /\ t[i].timer_val = pause * PWM_PRESCALE
      BY <1>6, <1>10, <1>11, <2>2
    <3> QED BY <3>1, ValueFacts, PositiveProduct
  <2> QED BY <1>12, <2>1, <2>2
<1>18. ASSUME NEW i \in 1 .. N - 1 PROVE done[row[i]].next_step = Ptr(p, row[i+1])
  <2>1. i \in 1 .. PWM_STEP_PAGE_SIZE - 1 /\ i \in 1 .. PWM_STEP_PAGE_SIZE /\ i # N
    BY <1>12
  <2>2. row[i] \in Entries /\ row[i] # l
    BY <1>7, <1>13, <2>1
  <2>3. done[row[i]].next_step = dur[row[i]].next_step
    BY <1>14, <1>15, <2>2
  <2> QED BY <1>7, <1>9, <2>1, <2>3
<1>19. \A i \in 1 .. N : RowOf(done)[i] = row[i]
  <2>1. ASSUME NEW i \in 1 .. N - 1 PROVE done[row[i]].next_step.idx = row[i+1]
    <3>1. done[row[i]].next_step = Ptr(p, row[i+1])
      BY <1>18
    <3> QED BY <3>1 DEF Ptr
  <2>2. PWM_STEP_PAGE_SIZE \in Nat /\ N \in 1 .. PWM_STEP_PAGE_SIZE
    BY <1>12, SizeFacts
  <2>3. row[1] = 0
    BY <1>7
  <2>4. Follows(done, row, N)
    BY <2>1, <2>3 DEF Follows
  <2>5. RowBegins(done, row, N)
    BY <2>2, <2>4, RowPrefix
  <2> QED BY <2>5 DEF RowBegins
<1>20. ClosedPage(p, done, N)
  <2>1. ASSUME NEW i \in 1 .. N
        PROVE  RowOf(done)[i] \in Entries /\ done[RowOf(done)[i]].timer_val # 0
    <3>1. RowOf(done)[i] = row[i] /\ row[i] \in Entries
      BY <1>7, <1>12, <1>19
    <3>2. done[row[i]].timer_val # 0
      BY <1>16, <1>17
    <3> QED BY <3>1, <3>2
  <2>2. ASSUME NEW i \in 1 .. N - 1 PROVE done[RowOf(done)[i]].next_step.page = p
    <3>1. done[row[i]].next_step = Ptr(p, row[i+1]) /\ RowOf(done)[i] = row[i]
      BY <1>12, <1>18, <1>19
    <3> QED BY <3>1 DEF Ptr
  <2>3. \A i, j \in 1 .. N : RowOf(done)[i] = RowOf(done)[j] => i = j
    BY <1>7, <1>12, <1>19
  <2>4. done[RowOf(done)[N]].next_step.idx = 0
    <3>1. RowOf(done)[N] = l
      BY <1>12, <1>19 DEF l
    <3> QED BY <1>15, <3>1 DEF Ptr
  <2> QED BY <1>12, <2>1, <2>2, <2>3, <2>4 DEF ClosedPage
<1>21. Length(p, done) = N /\ EndOf(p, done) = l /\ LinkOf(p, done) = p
  <2>1. /\ Length(p, done) = N /\ EndOf(p, done) = RowOf(done)[N]
    BY <1>15, <1>20, ClosedFacts
  <2>2. RowOf(done)[N] = l
    BY <1>12, <1>19 DEF l
  <2> QED BY <1>15, <2>1, <2>2 DEF LinkOf, Ptr
<1>22. ListOf(p, done) = t
  <2>1. N \in 0 .. PWM_STEP_PAGE_SIZE - 1 /\ \A k \in 1 .. N : RowOf(done)[k] \in Entries
    BY <1>7, <1>12, <1>19
  <2>2. ASSUME NEW k \in 1 .. N
        PROVE  /\ t[k].on = done[RowOf(done)[k]].on
               /\ t[k].timer_val = done[RowOf(done)[k]].timer_val
    <3>1. RowOf(done)[k] = row[k]
      BY <1>19
    <3> QED BY <1>16, <3>1
  <2>3. HasSteps(done, N, t)
    BY <1>11, <2>1, <2>2 DEF HasSteps
  <2> QED BY <1>15, <1>21, <2>1, <2>3, SameSteps
<1>23. N \in Nat
  BY <1>12
<1> QED BY <1>2, <1>15, <1>20, <1>21, <1>22, <1>23 DEF list, t

(***************************************************************************)
(* PwmPages once by its definitions and once with its proofs: the steps    *)
(* are the same.                                                           *)
(***************************************************************************)

LEMMA SameConstants ==
  /\ Pages!Channels = PP!Channels /\ Pages!MapEntries = PP!MapEntries
  /\ Pages!Pages = {1, 2} /\ PP!Pages = {1, 2}
  /\ \A code : Pages!CM_CHANNEL(code) = PP!CM_CHANNEL(code)
  /\ Pages!Snapshot = PP!Snapshot
  /\ Pages!Outputs = PP!Outputs
  BY DEF Pages!Channels, PP!Channels, Pages!MapEntries, PP!MapEntries, Pages!Pages, PP!Pages,
         Pages!CM_CHANNEL, PP!CM_CHANNEL, Pages!Snapshot, PP!Snapshot,
         Pages!Outputs, PP!Outputs

LEMMA SameMapped == \A table, new : Pages!Mapped(table, new) <=> PP!Mapped(table, new)
  BY DEF Pages!Mapped, PP!Mapped, Pages!Written, PP!Written, Pages!Payloads, PP!Payloads,
         Pages!Checked, PP!Checked, Pages!CM_CHANNEL, PP!CM_CHANNEL, Pages!Channels, PP!Channels

LEMMA SameSetChannel ==
  \A list, outs, v : Pages!SetChannel(list, outs, v) = PP!SetChannel(list, outs, v)
  BY DEF Pages!SetChannel, PP!SetChannel, Pages!Cardinality, PP!Cardinality

LEMMA SameCalcEntry ==
  \A list, e : Pages!CalcEntry(list, e) = PP!CalcEntry(list, e)
  BY SameSetChannel DEF Pages!CalcEntry, PP!CalcEntry, Pages!Driven, PP!Driven,
     Pages!CM_CHANNEL, PP!CM_CHANNEL, PP!CM_PORT, Pages!CM_PORT

LEMMA SameFinished == \A list : Pages!Finished(list) = PP!Finished(list)
  BY DEF Pages!Finished, PP!Finished, Pages!Durations, PP!Durations,
     Pages!LastTime, PP!LastTime

LEMMA SameRequest == Pages!Request <=> PP!Request
  BY DEF Pages!Request, PP!Request, Pages!settings, PP!settings, Pages!pages, PP!pages,
     Pages!SetBrightness, PP!SetBrightness, Pages!SetBrightnessSynced,
     PP!SetBrightnessSynced, Pages!AtRequest, PP!AtRequest, Pages!WriteBrightness,
     PP!WriteBrightness, Pages!Written, PP!Written, Pages!Payloads, PP!Payloads,
     Pages!Channels, PP!Channels, Pages!SetChannelMap, PP!SetChannelMap, Pages!SetPwmFreq,
     PP!SetPwmFreq, Pages!ResetSetup, PP!ResetSetup, PP!Checked, Pages!Checked,
     Pages!CM_CHANNEL, PP!CM_CHANNEL, Pages!Mapped, PP!Mapped

LEMMA SameMain == Pages!Main <=> PP!Main
<1> USE DEF Pages!settings, PP!settings, Pages!pages, PP!pages
<1>1. Pages!SyncedReply <=> PP!SyncedReply
  BY DEF Pages!SyncedReply, PP!SyncedReply
<1>2. Pages!NoRequest <=> PP!NoRequest
  BY DEF Pages!NoRequest, PP!NoRequest, Pages!AtRequest, PP!AtRequest
<1>3. Pages!NoUpdate <=> PP!NoUpdate
  BY DEF Pages!NoUpdate, PP!NoUpdate, Pages!ShadowFree, PP!ShadowFree
<1>4. Pages!InitPwmPage <=> PP!InitPwmPage
  BY DEF Pages!InitPwmPage, PP!InitPwmPage, Pages!ShadowFree, PP!ShadowFree,
     Pages!Snapshot, PP!Snapshot
<1>5. Pages!CalcPwmPage <=> PP!CalcPwmPage
  BY SameCalcEntry DEF Pages!CalcPwmPage, PP!CalcPwmPage
<1>6. Pages!FinishPage <=> PP!FinishPage
  BY SameFinished DEF Pages!FinishPage, PP!FinishPage
<1>7. Pages!InstallLink <=> PP!InstallLink
  BY DEF Pages!InstallLink, PP!InstallLink
<1>8. Pages!SwapPages <=> PP!SwapPages
  BY DEF Pages!SwapPages, PP!SwapPages, Pages!OtherPage, PP!OtherPage
<1>9. Pages!StartTimer <=> PP!StartTimer
  BY DEF Pages!StartTimer, PP!StartTimer, Pages!FirstStep, PP!FirstStep
<1> QED BY <1>1, <1>2, <1>3, <1>4, <1>5, <1>6, <1>7, <1>8, <1>9 DEF Pages!Main, PP!Main

LEMMA SameTimerInterrupt == Pages!TimerInterrupt <=> PP!TimerInterrupt
  BY DEF Pages!TimerInterrupt, PP!TimerInterrupt, Pages!Successor, PP!Successor,
     Pages!FirstStep, PP!FirstStep, Pages!settings, PP!settings, Pages!pages, PP!pages

LEMMA SameNext == [Pages!Next]_(Pages!vars) <=> [PP!Next]_(PP!vars)
<1>1. Pages!vars = PP!vars /\ Pages!vars' = PP!vars'
  BY DEF Pages!vars, PP!vars, Pages!settings, PP!settings, Pages!pages, PP!pages
<1> QED BY <1>1, SameRequest, SameMain, SameTimerInterrupt DEF Pages!Next, PP!Next

(***************************************************************************)
(* What the other steps do to a page.                                      *)
(***************************************************************************)

\* A page that no step is put into: its first entry is free or its last step leads to
\* the first entry of a page.
AtRest(p, m) == m[0].timer_val = 0 \/ \E n \in Nat : ClosedPage(p, m, n)

LEMMA EntryWithTimer ==
  ASSUME NEW e \in StepEntry, NEW ticks \in Int
  PROVE  /\ [e EXCEPT !.timer_val = ticks] \in StepEntry
         /\ [e EXCEPT !.timer_val = ticks].timer_val = ticks
         /\ [e EXCEPT !.timer_val = ticks].on = e.on
         /\ [e EXCEPT !.timer_val = ticks].next_step = e.next_step
  BY DEF StepEntry

LEMMA EntryWithNext ==
  ASSUME NEW e \in StepEntry, NEW next \in [page : {1, 2}, idx : Nat]
  PROVE  /\ [e EXCEPT !.next_step = next] \in StepEntry
         /\ [e EXCEPT !.next_step = next].next_step = next
         /\ [e EXCEPT !.next_step = next].on = e.on
         /\ [e EXCEPT !.next_step = next].timer_val = e.timer_val
  BY DEF StepEntry

\* All entries free and linked in a row.
LEMMA FreshPage ==
  ASSUME NEW p \in {1, 2}, NEW m \in PageMemory,
         \A i \in Entries : m[i].timer_val = 0 /\ m[i].next_step = Ptr(p, i + 1)
  PROVE  OpenPage(p, m, 0) /\ ListOf(p, m) = <<>> /\ LinkOf(p, m) = p
<1> DEFINE r == [k \in 1 .. PWM_STEP_PAGE_SIZE |-> k - 1]
<1>1. /\ 0 \in 0 .. PWM_STEP_PAGE_SIZE - 1
      /\ \A k \in 1 .. PWM_STEP_PAGE_SIZE : k - 1 \in Entries /\ ~(k <= 0)
      /\ \A k \in 1 .. PWM_STEP_PAGE_SIZE - 1 :
           k \in 1 .. PWM_STEP_PAGE_SIZE /\ k + 1 \in 1 .. PWM_STEP_PAGE_SIZE
  BY SizeFacts DEF Entries
<1>2. \A k \in 1 .. PWM_STEP_PAGE_SIZE : r[k] = k - 1
  OBVIOUS
<1> HIDE DEF r
<1>3. r[1] = 0
  BY <1>2, SizeFacts
<1>4. \A k \in 1 .. PWM_STEP_PAGE_SIZE :
        r[k] \in Entries /\ (m[r[k]].timer_val # 0 <=> k <= 0)
  BY <1>1, <1>2
<1>5. \A k \in 1 .. PWM_STEP_PAGE_SIZE - 1 : m[r[k]].next_step = Ptr(p, r[k+1])
  <2> SUFFICES ASSUME NEW k \in 1 .. PWM_STEP_PAGE_SIZE - 1
               PROVE  m[r[k]].next_step = Ptr(p, r[k+1])
    OBVIOUS
  <2>1. r[k] = k - 1 /\ r[k+1] = (k - 1) + 1 /\ k - 1 \in Entries
    BY <1>1, <1>2
  <2> QED BY <2>1
<1>6. \A j, k \in 1 .. PWM_STEP_PAGE_SIZE : r[j] = r[k] => j = k
  BY <1>2
<1>7. OpenPage(p, m, 0)
  BY <1>1, <1>3, <1>4, <1>5, <1>6, OpenFromRow
<1>8. Len(ListOf(p, m)) = 0 /\ ListOf(p, m) \in Seq(PP!Step)
  BY <1>7, OpenSteps
<1>9. LinkOf(p, m) = p
  BY <1>7, OpenFacts
<1> QED BY <1>7, <1>8, <1>9

LEMMA ClearedStep ==
  ASSUME NEW p \in {1, 2}, NEW m \in PageMemory
  PROVE  /\ Cleared(p, m) \in PageMemory /\ OpenPage(p, Cleared(p, m), 0)
         /\ ListOf(p, Cleared(p, m)) = <<>> /\ LinkOf(p, Cleared(p, m)) = p
<1> DEFINE new == Cleared(p, m)
<1>1. new = [i \in Entries |-> [m[i] EXCEPT !.timer_val = 0, !.next_step = Ptr(p, i + 1)]]
  BY DEF Cleared
<1> HIDE DEF new
<1>2. ASSUME NEW i \in Entries
      PROVE  /\ new[i] \in StepEntry /\ new[i].timer_val = 0
             /\ new[i].next_step = Ptr(p, i + 1)
  <2> DEFINE next == Ptr(p, i + 1)
  <2>1. next \in [page : {1, 2}, idx : Nat]
    BY SizeFacts DEF Ptr
  <2>2. m[i] \in StepEntry
    BY DEF PageMemory
  <2>3. new[i] = [m[i] EXCEPT !.timer_val = 0, !.next_step = next]
    BY <1>1
  <2> HIDE DEF next
  <2> DEFINE e == [m[i] EXCEPT !.timer_val = 0]
  <2>4. e \in StepEntry /\ e.timer_val = 0
    BY <2>2, EntryWithTimer
  <2>5. new[i] = [e EXCEPT !.next_step = next]
    BY <2>3
  <2> HIDE DEF e
  <2>6. new[i] \in StepEntry /\ new[i].timer_val = 0 /\ new[i].next_step = next
    BY <2>1, <2>4, <2>5, EntryWithNext
  <2> QED BY <2>6 DEF next
<1>3. new \in PageMemory
  BY <1>1, <1>2 DEF PageMemory
<1> QED BY <1>2, <1>3, FreshPage DEF new

\* A page at rest: its list, and where its last step leads.
LEMMA RestFacts ==
  ASSUME NEW p \in {1, 2}, NEW m \in PageMemory, AtRest(p, m)
  PROVE  /\ EndOf(p, m) \in Entries
         /\ LinkOf(p, m) \in {1, 2}
         /\ m[EndOf(p, m)].next_step.page = LinkOf(p, m)
<1>1. CASE m[0].timer_val = 0
  <2>1. EndOf(p, m) = 0 /\ 0 \in Entries
    BY <1>1, EmptyFacts, SizeFacts
  <2> QED BY <2>1 DEF LinkOf, PageMemory, StepEntry
<1>2. ASSUME NEW n \in Nat, ClosedPage(p, m, n)
      PROVE  EndOf(p, m) \in Entries
  <2>1. n \in 1 .. n /\ EndOf(p, m) = RowOf(m)[n] /\ \A k \in 1 .. n : RowOf(m)[k] \in Entries
    BY <1>2, ClosedFacts
  <2> QED BY <2>1
<1>3. EndOf(p, m) \in Entries
  BY <1>1, <1>2, EmptyFacts, SizeFacts DEF AtRest
<1> QED BY <1>3 DEF LinkOf, PageMemory, StepEntry

\* The link from the last step of page p to page q changes nothing else.
Relinked(p, m, q, new) ==
  /\ new \in PageMemory /\ AtRest(p, new)
  /\ ListOf(p, new) = ListOf(p, m) /\ LinkOf(p, new) = q
  /\ EndOf(p, new) = EndOf(p, m) /\ new[0].timer_val = m[0].timer_val
  /\ \A i : PosOf(p, new, i) = PosOf(p, m, i)
  /\ \A n \in Nat : ClosedPage(p, m, n) =>
       ClosedPage(p, new, n) /\ \A k \in 1 .. n : RowOf(new)[k] = RowOf(m)[k]

LEMMA RelinkStep ==
  ASSUME NEW p \in {1, 2}, NEW m \in PageMemory, AtRest(p, m), NEW q \in {1, 2},
         NEW new, new = [m EXCEPT ![EndOf(p, m)].next_step = Ptr(q, 0)]
  PROVE  Relinked(p, m, q, new)
<1> DEFINE l == EndOf(p, m)
<1>1. l \in Entries
  BY RestFacts
<1>2. Ptr(q, 0) \in [page : {1, 2}, idx : Nat]
  BY DEF Ptr
<1> HIDE DEF l
<1>3. /\ new \in PageMemory
      /\ \A x \in Entries : /\ new[x].on = m[x].on /\ new[x].timer_val = m[x].timer_val
                            /\ x # l => new[x].next_step = m[x].next_step
      /\ new[l].next_step = Ptr(q, 0)
  <2> DEFINE next == Ptr(q, 0)
  <2>1. new = [m EXCEPT ![l].next_step = next]
    BY DEF l
  <2>2. next \in [page : {1, 2}, idx : Nat]
    BY <1>2
  <2> HIDE DEF next
  <2>3. new = [x \in Entries |-> IF x = l THEN [m[l] EXCEPT !.next_step = next] ELSE m[x]]
    BY <1>1, <2>1 DEF PageMemory
  <2>4. \A x \in Entries : m[x] \in StepEntry
    BY DEF PageMemory
  <2> DEFINE e == [m[l] EXCEPT !.next_step = next]
  <2>5. /\ e \in StepEntry /\ e.next_step = next /\ e.on = m[l].on
        /\ e.timer_val = m[l].timer_val
    BY <1>1, <2>2, <2>4, EntryWithNext
  <2>6. new[l] = e /\ \A x \in Entries : x # l => new[x] = m[x]
    BY <1>1, <2>3
  <2> HIDE DEF e
  <2>7. new \in PageMemory
    BY <2>3, <2>4, <2>5, <2>6 DEF PageMemory
  <2> QED BY <2>5, <2>6, <2>7 DEF next
<1>4. CASE m[0].timer_val = 0
  <2>1. l = 0 /\ 0 \in Entries /\ new[0].timer_val = 0
    BY <1>3, <1>4, EmptyFacts, SizeFacts DEF l
  <2>2. /\ Length(p, m) = 0 /\ Length(p, new) = 0 /\ EndOf(p, new) = 0
        /\ LinkOf(p, new) = new[0].next_step.page
        /\ \A i : PosOf(p, new, i) = 1 /\ PosOf(p, m, i) = 1
    <3>1. Length(p, m) = 0 /\ \A i : PosOf(p, m, i) = 1
      BY <1>4, EmptyFacts, Zenon
    <3>2. new[0].timer_val = 0
      BY <2>1
    <3>3. /\ Length(p, new) = 0 /\ EndOf(p, new) = 0
          /\ LinkOf(p, new) = new[0].next_step.page
          /\ \A i : PosOf(p, new, i) = 1
      BY <3>2, EmptyFacts, Zenon
    <3> QED BY <3>1, <3>3
  <2>3. ListOf(p, new) = ListOf(p, m)
    <3>1. 1 .. 0 = {}
      OBVIOUS
    <3> QED BY <2>2, <3>1 DEF ListOf
  <2>4. LinkOf(p, new) = q
    BY <1>3, <2>1, <2>2 DEF Ptr
  <2>5. ASSUME NEW n \in Nat, ClosedPage(p, m, n) PROVE FALSE
    <3>1. 1 \in 1 .. n /\ \A k \in 1 .. n : m[RowOf(m)[k]].timer_val # 0
      BY <2>5, SizeFacts DEF ClosedPage
    <3> QED BY <1>4, <3>1, RowIs
  <2>6. new[0].timer_val = m[0].timer_val
    BY <1>4, <2>1
  <2> QED BY <1>3, <2>1, <2>2, <2>3, <2>4, <2>5, <2>6 DEF l, AtRest, Relinked
<1>5. CASE m[0].timer_val # 0
  <2>1. PICK n \in Nat : ClosedPage(p, m, n)
    BY <1>5 DEF AtRest
  <2> DEFINE row == RowOf(m)
             r == RowOf(new)
  <2>2. /\ Length(p, m) = n /\ n \in 1 .. PWM_STEP_PAGE_SIZE - 1 /\ l = row[n]
        /\ \A k \in 1 .. n - 1 : m[row[k]].next_step = Ptr(p, row[k+1])
    BY <2>1, ClosedFacts DEF l
  <2>3. /\ \A k \in 1 .. n : row[k] \in Entries /\ m[row[k]].timer_val # 0
        /\ \A j, k \in 1 .. n : row[j] = row[k] => j = k
    BY <2>1 DEF ClosedPage
  <2>4. /\ n \in 1 .. n /\ n \in 1 .. PWM_STEP_PAGE_SIZE /\ n \in 0 .. PWM_STEP_PAGE_SIZE - 1
        /\ \A k \in 1 .. n - 1 : k \in 1 .. n /\ k # n /\ k + 1 \in 1 .. n
    BY <2>2, SizeFacts
  <2> HIDE DEF row, r
  <2>5. \A k \in 1 .. n - 1 : new[row[k]].next_step = Ptr(p, row[k+1])
    BY <1>3, <2>2, <2>3, <2>4
  <2>6. \A k \in 1 .. n : r[k] = row[k]
    <3>1. ASSUME NEW k \in 1 .. n - 1 PROVE new[row[k]].next_step.idx = row[k+1]
      <4>1. new[row[k]].next_step = Ptr(p, row[k+1])
        BY <2>5
      <4> QED BY <4>1 DEF Ptr
    <3>2. row[1] = 0
      BY RowIs DEF row
    <3>3. n \in 1 .. PWM_STEP_PAGE_SIZE
      BY <2>4
    <3>4. Follows(new, row, n)
      BY <3>1, <3>2 DEF Follows
    <3>5. RowBegins(new, row, n)
      BY <3>3, <3>4, RowPrefix
    <3> QED BY <3>5 DEF RowBegins, r
  <2>7. ClosedPage(p, new, n)
    <3>1. ASSUME NEW k \in 1 .. n PROVE r[k] \in Entries /\ new[r[k]].timer_val # 0
      BY <1>3, <2>3, <2>6
    <3>2. ASSUME NEW k \in 1 .. n - 1 PROVE new[r[k]].next_step.page = p
      <4>1. new[r[k]].next_step = Ptr(p, row[k+1])
        BY <2>4, <2>5, <2>6
      <4> QED BY <4>1 DEF Ptr
    <3>3. \A j, k \in 1 .. n : r[j] = r[k] => j = k
      BY <2>3, <2>6
    <3>4. new[r[n]].next_step.idx = 0
      <4>1. new[r[n]].next_step = Ptr(q, 0)
        BY <1>3, <2>2, <2>4, <2>6
      <4> QED BY <4>1 DEF Ptr
    <3> QED BY <2>2, <3>1, <3>2, <3>3, <3>4 DEF ClosedPage, r
  <2>8. Length(p, new) = n /\ EndOf(p, new) = l
    <3>1. Length(p, new) = n /\ EndOf(p, new) = r[n]
      BY <1>3, <2>7, ClosedFacts DEF r
    <3> QED BY <2>2, <2>4, <2>6, <3>1
  <2>9. LinkOf(p, new) = q
    BY <1>3, <2>8 DEF LinkOf, Ptr
  <2>10. ListOf(p, m) = ListOf(p, new)
    <3> DEFINE list == ListOf(p, m)
    <3>1. /\ list \in Seq(PP!Step) /\ Len(list) = n
          /\ \A k \in 1 .. n : /\ list[k].on = m[row[k]].on
                               /\ list[k].timer_val = m[row[k]].timer_val
      <4>1. /\ list \in Seq(PP!Step) /\ Len(list) = n
        BY <2>2, <2>3, <2>4, StepsOf DEF row
      <4>2. list = [k \in 1 .. n |-> [on |-> m[row[k]].on, timer_val |-> m[row[k]].timer_val]]
        BY <2>2, Zenon DEF ListOf, row
      <4> QED BY <4>1, <4>2
    <3> HIDE DEF list
    <3>2. ASSUME NEW k \in 1 .. n
          PROVE  list[k].on = new[r[k]].on /\ list[k].timer_val = new[r[k]].timer_val
      <4>1. r[k] = row[k] /\ row[k] \in Entries
        BY <2>3, <2>6
      <4> QED BY <1>3, <3>1, <4>1
    <3>3. \A k \in 1 .. n : r[k] \in Entries
      BY <2>3, <2>6
    <3>4. /\ \A k \in 1 .. n : RowOf(new)[k] \in Entries
          /\ \A k \in 1 .. n : /\ list[k].on = new[RowOf(new)[k]].on
                               /\ list[k].timer_val = new[RowOf(new)[k]].timer_val
      BY <3>2, <3>3 DEF r
    <3>5. HasSteps(new, n, list)
      BY <3>1, <3>4 DEF HasSteps
    <3>6. ListOf(p, new) = list
      BY <1>3, <2>4, <2>8, <3>5, SameSteps
    <3> QED BY <3>6 DEF list
  <2>11. ASSUME NEW i PROVE PosOf(p, new, i) = PosOf(p, m, i)
    <3> DEFINE at == {k \in 1 .. Length(p, m) : row[k] = i}
               at1 == {k \in 1 .. Length(p, new) : r[k] = i}
    <3>1. PosOf(p, m, i) = IF at = {} THEN 1 ELSE CHOOSE k \in at : TRUE
      BY Zenon DEF PosOf, row
    <3>2. PosOf(p, new, i) = IF at1 = {} THEN 1 ELSE CHOOSE k \in at1 : TRUE
      BY Zenon DEF PosOf, r
    <3>3. at1 = at
      BY <2>2, <2>6, <2>8
    <3> HIDE DEF at, at1
    <3> QED BY <3>1, <3>2, <3>3
  <2>12. ASSUME NEW j \in Nat, ClosedPage(p, m, j)
         PROVE  ClosedPage(p, new, j) /\ \A k \in 1 .. j : RowOf(new)[k] = RowOf(m)[k]
    <3>1. j = n
      BY <2>2, <2>12, ClosedFacts
    <3>2. ClosedPage(p, new, n) /\ \A k \in 1 .. n : RowOf(new)[k] = RowOf(m)[k]
      BY <2>6, <2>7 DEF r, row
    <3> QED BY <3>1, <3>2, Zenon
  <2>13. AtRest(p, new)
    BY <2>7 DEF AtRest
  <2>14. new[0].timer_val = m[0].timer_val
    BY <1>3, SizeFacts
  <2> QED BY <1>3, <2>8, <2>9, <2>10, <2>11, <2>12, <2>13, <2>14 DEF l, Relinked
<1> QED BY <1>4, <1>5

(***************************************************************************)
(* The inductive invariant: the page that is built is one row of all       *)
(* entries, every other page is empty or closed, and each pointer is to a  *)
(* step of the page it names.                                              *)
(***************************************************************************)

ListInv ==
  /\ mem \in [{1, 2} -> PageMemory]
  /\ \A p \in {1, 2} :
       IF pc = "calc" /\ p = shadow_pwm_page
         THEN \E n \in 0 .. NCHANNELS - c : OpenPage(p, mem[p], n)
         ELSE AtRest(p, mem[p])
  /\ active_pwm_page = Ptr(active_pwm_page.page,
                           EndOf(active_pwm_page.page, mem[active_pwm_page.page]))
  /\ pc = "install" => last = EndOf(shadow_pwm_page, mem[shadow_pwm_page])
  /\ actual_pwm_step \in [page : {1, 2}, idx : Nat]
  /\ running =>
       \E n \in Nat : /\ ClosedPage(actual_pwm_step.page, mem[actual_pwm_step.page], n)
                      /\ \E k \in 1 .. n :
                           actual_pwm_step.idx = RowOf(mem[actual_pwm_step.page])[k]
  /\ ~running => /\ actual_pwm_step = Ptr(2, 0) /\ mem[2][0].timer_val = 0
                 /\ pc \in {"calc", "install"} => shadow_pwm_page = 1

LEMMA PageTypes ==
  ASSUME PP!PageInv
  PROVE  /\ shadow_pwm_page \in {1, 2} /\ active_pwm_page.page \in {1, 2}
         /\ bright_vals \in [PP!Channels -> Brights]
         /\ channel_map \in [PP!Channels -> PP!MapEntries]
         /\ max_pwm \in PwmResolutions /\ c \in 0 .. NCHANNELS
         /\ PP!TypeOK
         /\ pc = "swap" <=> active_pwm_page.page = shadow_pwm_page
         /\ ~running => pc \in {"calc", "install", "swap", "start"}
         /\ running /\ pc \in {"calc", "install"} => actual_pwm_step.page # shadow_pwm_page
<1>1. ListActual.page = actual_pwm_step.page
  BY DEF ListActual
<1> QED BY <1>1 DEF PP!PageInv, PP!TypeOK, PP!Pages, PP!Building

LEMMA PageWritten ==
  ASSUME mem \in [{1, 2} -> PageMemory], NEW q \in {1, 2}, NEW new,
         mem' = [mem EXCEPT ![q] = new]
  PROVE  /\ ListSteps' = [ListSteps EXCEPT ![q] = ListOf(q, new)]
         /\ ListLink' = [ListLink EXCEPT ![q] = LinkOf(q, new)]
         /\ mem'[q] = new /\ \A p \in {1, 2} : p # q => mem'[p] = mem[p]
         /\ new \in PageMemory => mem' \in [{1, 2} -> PageMemory]
  BY DEF ListSteps, ListLink

LEMMA ActualKept ==
  ASSUME actual_pwm_step' = actual_pwm_step,
         mem'[actual_pwm_step.page] = mem[actual_pwm_step.page]
  PROVE  ListActual' = ListActual
  BY DEF ListActual

LEMMA InitPwmPageStep ==
  ASSUME PP!PageInv, ListInv, InitPwmPage
  PROVE  PP!InitPwmPage /\ ListInv'
<1> DEFINE q == shadow_pwm_page
           new == Cleared(q, mem[q])
<1>1. /\ q \in {1, 2} /\ active_pwm_page.page \in {1, 2}
      /\ pc = "update" /\ actual_pwm_step.page # q /\ running
      /\ active_pwm_page.page # q
  BY PageTypes DEF InitPwmPage
<1>2. mem \in [{1, 2} -> PageMemory] /\ mem[q] \in PageMemory
  BY <1>1 DEF ListInv
<1>3. /\ new \in PageMemory /\ OpenPage(q, new, 0) /\ ListOf(q, new) = <<>>
      /\ LinkOf(q, new) = q
  BY <1>1, <1>2, ClearedStep
<1>4. mem' = [mem EXCEPT ![q] = new]
  BY DEF InitPwmPage
<1> HIDE DEF new
<1>5. /\ ListSteps' = [ListSteps EXCEPT ![q] = <<>>]
      /\ ListLink' = [ListLink EXCEPT ![q] = q]
      /\ mem'[q] = new /\ \A p \in {1, 2} : p # q => mem'[p] = mem[p]
      /\ mem' \in [{1, 2} -> PageMemory]
  <2>1. /\ ListSteps' = [ListSteps EXCEPT ![q] = ListOf(q, new)]
        /\ ListLink' = [ListLink EXCEPT ![q] = LinkOf(q, new)]
        /\ mem'[q] = new /\ \A p \in {1, 2} : p # q => mem'[p] = mem[p]
        /\ new \in PageMemory => mem' \in [{1, 2} -> PageMemory]
    <3>1. q \in {1, 2} /\ mem \in [{1, 2} -> PageMemory]
      BY <1>1, <1>2
    <3> HIDE DEF q
    <3> QED BY <1>4, <3>1, PageWritten
  <2> QED BY <1>3, <2>1
<1>6. actual_pwm_step.page \in {1, 2}
  BY DEF ListInv
<1>7. ListActual' = ListActual /\ ListActual.page = actual_pwm_step.page
  BY <1>1, <1>5, <1>6, ActualKept DEF InitPwmPage, ListActual
<1>8. PP!InitPwmPage
  BY <1>1, <1>5, <1>7, SameConstants DEF InitPwmPage, PP!InitPwmPage, PP!ShadowFree, settings,
     PP!settings
<1>9. ListInv'
  <2>1. /\ pc' = "calc" /\ c' = NCHANNELS /\ 0 \in 0 .. NCHANNELS - c'
        /\ UNCHANGED <<shadow_pwm_page, active_pwm_page, actual_pwm_step, running>>
    BY SizeFacts DEF InitPwmPage
  <2>2. ASSUME NEW p \in {1, 2}
        PROVE  IF pc' = "calc" /\ p = shadow_pwm_page'
                 THEN \E n \in 0 .. NCHANNELS - c' : OpenPage(p, mem'[p], n)
                 ELSE AtRest(p, mem'[p])
    <3>1. CASE p = q
      BY <1>3, <1>5, <2>1, <3>1
    <3>2. CASE p # q
      BY <1>1, <1>5, <2>1, <3>2 DEF ListInv
    <3> QED BY <3>1, <3>2
  <2>3. /\ mem'[active_pwm_page.page] = mem[active_pwm_page.page]
        /\ mem'[actual_pwm_step.page] = mem[actual_pwm_step.page]
    BY <1>1, <1>5, <1>6
  <2> QED BY <1>1, <1>5, <2>1, <2>2, <2>3 DEF ListInv
<1> QED BY <1>8, <1>9

LEMMA CalcPwmPageStep ==
  ASSUME PP!PageInv, PP!ShowInv, ListInv, CalcPwmPage
  PROVE  PP!CalcPwmPage /\ ListInv'
<1> DEFINE q == shadow_pwm_page
           m == mem[q]
           e == channel_map[c-1]
           new == CalcEntry(m, e)
<1>1. /\ q \in {1, 2} /\ active_pwm_page.page \in {1, 2} /\ active_pwm_page.page # q
      /\ pc = "calc" /\ c \in 1 .. NCHANNELS
      /\ running => actual_pwm_step.page # q
  <2>1. pc = "calc" /\ c > 0
    BY DEF CalcPwmPage
  <2> QED BY <2>1, PageTypes, SizeFacts
<1>2. mem \in [{1, 2} -> PageMemory] /\ m \in PageMemory
  BY <1>1 DEF ListInv
<1>3. PICK n \in 0 .. NCHANNELS - c : OpenPage(q, m, n)
  BY <1>1 DEF ListInv
<1>4. n \in 0 .. PWM_STEP_PAGE_SIZE - 2 /\ n + 1 \in 0 .. NCHANNELS - (c - 1)
      /\ n \in 0 .. NCHANNELS - (c - 1) /\ c - 1 \in 0 .. NCHANNELS
  BY <1>1, <1>3, SizeFacts
<1>5. PP!Sorted(ListOf(q, m))
  <2>1. ListSteps[q] = ListOf(q, m)
    BY <1>1 DEF ListSteps
  <2> QED BY <1>1, <2>1 DEF PP!ShowInv, PP!ListShows
<1>6. e \in PP!MapEntries
  <2>1. c - 1 \in PP!Channels
    BY <1>1, SizeFacts DEF PP!Channels
  <2> QED BY <2>1, PageTypes
<1>7. /\ new \in PageMemory
      /\ \E l \in {n, n + 1} : OpenPage(q, new, l)
      /\ ListOf(q, new) = PP!CalcEntry(ListOf(q, m), e)
  <2> HIDE DEF m, e
  <2> QED BY <1>1, <1>2, <1>3, <1>4, <1>5, <1>6, CalcEntryStep, PageTypes
<1>8. mem' = [mem EXCEPT ![q] = new]
  BY <1>2 DEF CalcPwmPage
<1> HIDE DEF new
<1>9. LinkOf(q, m) = q /\ LinkOf(q, new) = q
  BY <1>1, <1>2, <1>3, <1>7, OpenFacts
<1>10. /\ ListSteps' = [ListSteps EXCEPT ![q] = PP!CalcEntry(ListOf(q, m), e)]
       /\ ListLink' = [ListLink EXCEPT ![q] = q]
       /\ mem'[q] = new /\ \A p \in {1, 2} : p # q => mem'[p] = mem[p]
       /\ mem' \in [{1, 2} -> PageMemory]
  <2> HIDE DEF m, e
  <2>1. /\ ListSteps' = [ListSteps EXCEPT ![q] = ListOf(q, new)]
        /\ ListLink' = [ListLink EXCEPT ![q] = LinkOf(q, new)]
        /\ mem'[q] = new /\ \A p \in {1, 2} : p # q => mem'[p] = mem[p]
        /\ mem' \in [{1, 2} -> PageMemory]
    <3>1. /\ q \in {1, 2} /\ mem \in [{1, 2} -> PageMemory]
          /\ mem' = [mem EXCEPT ![q] = new] /\ new \in PageMemory
      BY <1>1, <1>2, <1>7, <1>8
    <3> HIDE DEF q
    <3> QED BY <3>1, PageWritten
  <2>2. ListOf(q, new) = PP!CalcEntry(ListOf(q, m), e) /\ LinkOf(q, new) = q
    BY <1>7, <1>9
  <2> QED BY <2>1, <2>2, Zenon
<1>11. ListSteps[q] = ListOf(q, m) /\ ListLink' = ListLink
  <2>1. ListSteps[q] = ListOf(q, m) /\ ListLink[q] = q /\ ListLink = [p \in {1, 2} |-> ListLink[p]]
    BY <1>1, <1>9 DEF ListSteps, ListLink
  <2> QED BY <1>10, <2>1
<1>12. /\ actual_pwm_step.page \in {1, 2}
       /\ ~running => actual_pwm_step.page = 2 /\ q = 1
  BY <1>1 DEF ListInv, Ptr
<1>13. actual_pwm_step.page # q
  BY <1>1, <1>12
<1>14. ListActual' = ListActual
  BY <1>10, <1>12, <1>13, ActualKept DEF CalcPwmPage
<1>15. PP!CalcPwmPage
  BY <1>10, <1>11, <1>14 DEF CalcPwmPage, PP!CalcPwmPage, settings, PP!settings
<1>16. ListInv'
  <2>1. /\ pc' = pc /\ c' = c - 1
        /\ UNCHANGED <<shadow_pwm_page, active_pwm_page, actual_pwm_step, running>>
    BY DEF CalcPwmPage
  <2>2. ASSUME NEW p \in {1, 2}
        PROVE  IF pc' = "calc" /\ p = shadow_pwm_page'
                 THEN \E l \in 0 .. NCHANNELS - c' : OpenPage(p, mem'[p], l)
                 ELSE AtRest(p, mem'[p])
    <3>1. CASE p = q
      <4>1. \E l \in 0 .. NCHANNELS - (c - 1) : OpenPage(q, new, l)
        BY <1>4, <1>7
      <4> QED BY <1>1, <1>10, <2>1, <3>1, <4>1
    <3>2. CASE p # q
      BY <1>1, <1>10, <2>1, <3>2 DEF ListInv
    <3> QED BY <3>1, <3>2
  <2>3. /\ mem'[active_pwm_page.page] = mem[active_pwm_page.page]
        /\ mem'[actual_pwm_step.page] = mem[actual_pwm_step.page]
        /\ ~running => mem'[2] = mem[2]
    BY <1>1, <1>10, <1>12, <1>13
  <2>4. \A p \in {1, 2} : IF pc' = "calc" /\ p = shadow_pwm_page'
                 THEN \E l \in 0 .. NCHANNELS - c' : OpenPage(p, mem'[p], l)
                 ELSE AtRest(p, mem'[p])
    BY <2>2
  <2> QED BY <1>1, <1>10, <2>1, <2>3, <2>4 DEF ListInv
<1> QED BY <1>15, <1>16

LEMMA FinishPageStep ==
  ASSUME PP!PageInv, PP!ShowInv, ListInv, FinishPage
  PROVE  PP!FinishPage /\ ListInv'
<1> DEFINE q == shadow_pwm_page
           m == mem[q]
           r == Finish(q, m)
<1>1. /\ q \in {1, 2} /\ active_pwm_page.page \in {1, 2} /\ active_pwm_page.page # q
      /\ pc = "calc" /\ c = 0
      /\ running => actual_pwm_step.page # q
      /\ max_pwm \in PwmResolutions
  <2>1. pc = "calc" /\ c = 0
    BY DEF FinishPage
  <2> QED BY <2>1, PageTypes, SizeFacts
<1>2. mem \in [{1, 2} -> PageMemory] /\ m \in PageMemory
  BY <1>1 DEF ListInv
<1>3. PICK n \in 0 .. NCHANNELS : OpenPage(q, m, n)
  BY <1>1, SizeFacts DEF ListInv
<1>4. n \in 0 .. PWM_STEP_PAGE_SIZE - 2
  BY <1>3, SizeFacts
<1> DEFINE list == ListOf(q, m)
<1>5. ListSteps[q] = list
  BY <1>1 DEF ListSteps
<1>6. list \in Seq(PP!Step)
  BY <1>1, <1>2, <1>3, OpenSteps
<1> HIDE DEF list
<1>7. Timed(list)
  <2>1. PP!ListShows(list, PP!Wanted(PP!Snapshot, 0))
    BY <1>1, <1>5 DEF PP!ShowInv
  <2>2. /\ PP!Wanted(PP!Snapshot, 0) \in SUBSET PP!Wants
        /\ \A w \in PP!Wanted(PP!Snapshot, 0) : w.v <= PP!Snapshot.max
    <3>1. PP!Snapshot \in PP!Settings
      BY Assumed, PP!SnapshotOK, PageTypes, SMT
    <3> QED BY Assumed, PP!WantedType, <3>1, SMT
  <2>3. PP!Snapshot.max = max_pwm
    BY DEF PP!Snapshot
  <2>4. \A w \in PP!Wanted(PP!Snapshot, 0) : w.v \in 1 .. max_pwm
    <3> SUFFICES ASSUME NEW w \in PP!Wanted(PP!Snapshot, 0) PROVE w.v \in 1 .. max_pwm
      OBVIOUS
    <3>1. w.v \in Nat \ {0} /\ w.v <= max_pwm
      BY <2>2, <2>3 DEF PP!Wants
    <3> QED BY <1>1, <3>1, ValueFacts
  <2>5. \A i \in 1 .. Len(list) : list[i].timer_val \in 1 .. max_pwm
    <3>1. DOMAIN list = 1 .. Len(list)
      BY <1>6
    <3> QED BY <2>1, <2>4, <3>1 DEF PP!ListShows
  <2> QED BY <2>1, <2>5 DEF Timed, PP!ListShows
<1>8. PP!Finished(list) \in Seq(PP!Step)
  BY Assumed, PP!FinishedType, PageTypes, <1>6, SMT
<1>9. /\ r.page \in PageMemory /\ AtRest(q, r.page)
      /\ ListOf(q, r.page) = PP!Finished(list)
      /\ LinkOf(q, r.page) = q /\ r.last = EndOf(q, r.page)
  <2>1. Timed(ListOf(q, m)) /\ PP!Finished(ListOf(q, m)) \in Seq(PP!Step)
    BY <1>7, <1>8 DEF list
  <2> HIDE DEF m
  <2> QED BY <1>1, <1>2, <1>3, <1>4, <2>1, FinishStep DEF AtRest, list
<1>10. mem' = [mem EXCEPT ![q] = r.page] /\ last' = r.last
  BY DEF FinishPage
<1> HIDE DEF r
<1>11. LinkOf(q, m) = q
  BY <1>1, <1>2, <1>3, OpenFacts
<1>12. /\ ListSteps' = [ListSteps EXCEPT ![q] = PP!Finished(list)]
       /\ ListLink' = [ListLink EXCEPT ![q] = q]
       /\ mem'[q] = r.page /\ \A p \in {1, 2} : p # q => mem'[p] = mem[p]
       /\ mem' \in [{1, 2} -> PageMemory]
  <2> HIDE DEF m
  <2>1. /\ ListSteps' = [ListSteps EXCEPT ![q] = ListOf(q, r.page)]
        /\ ListLink' = [ListLink EXCEPT ![q] = LinkOf(q, r.page)]
        /\ mem'[q] = r.page /\ \A p \in {1, 2} : p # q => mem'[p] = mem[p]
        /\ mem' \in [{1, 2} -> PageMemory]
    BY <1>1, <1>2, <1>9, <1>10, PageWritten
  <2>2. ListOf(q, r.page) = PP!Finished(list) /\ LinkOf(q, r.page) = q
    BY <1>9
  <2> QED BY <2>1, <2>2, Zenon
<1>13. /\ actual_pwm_step.page \in {1, 2}
       /\ ~running => actual_pwm_step.page = 2 /\ q = 1
  BY <1>1 DEF ListInv, Ptr
<1>14. actual_pwm_step.page # q
  BY <1>1, <1>13
<1>15. ListActual' = ListActual
  BY <1>12, <1>13, <1>14, ActualKept DEF FinishPage
<1>16. PP!FinishPage
  BY <1>5, <1>12, <1>15 DEF FinishPage, PP!FinishPage, settings, PP!settings
<1>17. ListInv'
  <2>1. /\ pc' = "install"
        /\ UNCHANGED <<shadow_pwm_page, active_pwm_page, actual_pwm_step, running>>
    BY DEF FinishPage
  <2>2. \A p \in {1, 2} : AtRest(p, mem'[p])
    <3> SUFFICES ASSUME NEW p \in {1, 2} PROVE AtRest(p, mem'[p])
      OBVIOUS
    <3>1. CASE p = q
      BY <1>9, <1>12, <3>1
    <3>2. CASE p # q
      BY <1>1, <1>12, <3>2 DEF ListInv
    <3> QED BY <3>1, <3>2
  <2>3. /\ mem'[active_pwm_page.page] = mem[active_pwm_page.page]
        /\ mem'[actual_pwm_step.page] = mem[actual_pwm_step.page]
        /\ ~running => mem'[2] = mem[2]
        /\ last' = EndOf(q, mem'[q])
    BY <1>1, <1>9, <1>10, <1>12, <1>13, <1>14
  <2> QED BY <1>1, <1>12, <2>1, <2>2, <2>3 DEF ListInv
<1> QED BY <1>16, <1>17

LEMMA InstallLinkStep ==
  ASSUME PP!PageInv, ListInv, InstallLink
  PROVE  PP!InstallLink /\ ListInv'
<1> DEFINE a == active_pwm_page.page
           q == shadow_pwm_page
           m == mem[a]
           i == actual_pwm_step.idx
           new == [m EXCEPT ![EndOf(a, m)].next_step = Ptr(q, 0)]
<1>1. /\ a \in {1, 2} /\ q \in {1, 2} /\ a # q /\ pc = "install"
      /\ actual_pwm_step.page = a
  <2>1. pc = "install"
    BY DEF InstallLink
  <2>2. a \in {1, 2} /\ q \in {1, 2} /\ a # q
    BY <2>1, PageTypes
  <2>3. running => actual_pwm_step.page = a
    BY <2>1 DEF PP!PageInv, PP!Building, ListActual
  <2>4. ~running => actual_pwm_step.page = 2 /\ q = 1
    BY <2>1 DEF ListInv, Ptr
  <2> QED BY <2>1, <2>2, <2>3, <2>4
<1>2. /\ mem \in [{1, 2} -> PageMemory] /\ m \in PageMemory
      /\ \A p \in {1, 2} : AtRest(p, mem[p])
      /\ active_pwm_page.idx = EndOf(a, m) /\ last = EndOf(q, mem[q])
  BY <1>1 DEF ListInv, Ptr
<1>3. mem' = [mem EXCEPT ![a] = new]
  BY <1>1, <1>2 DEF InstallLink
<1>4. /\ new \in PageMemory /\ AtRest(a, new)
      /\ ListOf(a, new) = ListOf(a, m) /\ LinkOf(a, new) = q
      /\ EndOf(a, new) = EndOf(a, m) /\ new[0].timer_val = m[0].timer_val
      /\ \A x : PosOf(a, new, x) = PosOf(a, m, x)
      /\ \A n \in Nat : ClosedPage(a, m, n) =>
           ClosedPage(a, new, n) /\ \A k \in 1 .. n : RowOf(new)[k] = RowOf(m)[k]
  <2>1. a \in {1, 2} /\ q \in {1, 2} /\ m \in PageMemory /\ AtRest(a, m)
    BY <1>1, <1>2
  <2>2. new = [m EXCEPT ![EndOf(a, m)].next_step = Ptr(q, 0)]
    OBVIOUS
  <2> HIDE DEF new, m, a, q
  <2>3. Relinked(a, m, q, new)
    BY <2>1, <2>2, RelinkStep
  <2> QED BY <2>3 DEF Relinked
<1> HIDE DEF new
<1>5. /\ ListSteps' = [ListSteps EXCEPT ![a] = ListOf(a, new)]
      /\ ListLink' = [ListLink EXCEPT ![a] = LinkOf(a, new)]
      /\ mem'[a] = new /\ \A p \in {1, 2} : p # a => mem'[p] = mem[p]
      /\ mem' \in [{1, 2} -> PageMemory]
  <2>1. a \in {1, 2} /\ new \in PageMemory
    BY <1>1, <1>4
  <2> HIDE DEF a
  <2> QED BY <1>2, <1>3, <2>1, PageWritten
<1>6. ListSteps' = ListSteps /\ ListLink' = [ListLink EXCEPT ![a] = q]
  <2>1. ListSteps[a] = ListOf(a, m) /\ ListSteps = [p \in {1, 2} |-> ListSteps[p]]
    BY <1>1 DEF ListSteps
  <2>2. ListOf(a, new) = ListSteps[a] /\ LinkOf(a, new) = q
    BY <1>4, <2>1
  <2> QED BY <1>5, <2>1, <2>2
<1>7. UNCHANGED <<actual_pwm_step, running, shadow_pwm_page, last>>
      /\ active_pwm_page' = Ptr(q, last) /\ pc' = "swap"
  BY DEF InstallLink
<1>8. ListActual' = ListActual
  <2>1. PosOf(a, new, i) = PosOf(a, m, i)
    BY <1>4
  <2> QED BY <1>1, <1>5, <1>7, <2>1 DEF ListActual
<1>9. active_pwm_page.page' = q
  BY <1>7 DEF Ptr
<1>10. PP!InstallLink
  BY <1>6, <1>8, <1>9 DEF InstallLink, PP!InstallLink, settings, PP!settings
<1>11. ListInv'
  <2>1. \A p \in {1, 2} : AtRest(p, mem'[p])
    <3> SUFFICES ASSUME NEW p \in {1, 2} PROVE AtRest(p, mem'[p])
      OBVIOUS
    <3> QED BY <1>2, <1>4, <1>5
  <2>2. active_pwm_page' = Ptr(q, EndOf(q, mem'[q]))
    BY <1>1, <1>2, <1>5, <1>7
  <2>3. running' =>
          \E n \in Nat :
            /\ ClosedPage(actual_pwm_step'.page, mem'[actual_pwm_step'.page], n)
            /\ \E k \in 1 .. n :
                 actual_pwm_step'.idx = RowOf(mem'[actual_pwm_step'.page])[k]
    <3> SUFFICES ASSUME running
                 PROVE  \E n \in Nat : /\ ClosedPage(a, new, n)
                                       /\ \E k \in 1 .. n : i = RowOf(new)[k]
      BY <1>1, <1>5, <1>7
    <3>1. \E n \in Nat : ClosedPage(a, m, n) /\ \E k \in 1 .. n : i = RowOf(m)[k]
      BY <1>1 DEF ListInv
    <3> QED BY <1>4, <3>1
  <2>4. ~running' => actual_pwm_step' = Ptr(2, 0) /\ mem'[2][0].timer_val = 0
    <3> SUFFICES ASSUME ~running PROVE actual_pwm_step = Ptr(2, 0) /\ new[0].timer_val = 0
                                       /\ a = 2
      BY <1>5, <1>7
    <3>1. actual_pwm_step = Ptr(2, 0) /\ mem[2][0].timer_val = 0
      BY DEF ListInv
    <3>2. a = 2
      BY <1>1, <3>1 DEF Ptr
    <3> QED BY <1>4, <3>1, <3>2
  <2>5. actual_pwm_step' \in [page : {1, 2}, idx : Nat]
    BY <1>7 DEF ListInv
  <2>6. active_pwm_page' = Ptr(active_pwm_page'.page,
                               EndOf(active_pwm_page'.page, mem'[active_pwm_page'.page]))
    BY <2>2, <1>9
  <2> QED BY <1>5, <1>7, <2>1, <2>3, <2>4, <2>5, <2>6 DEF ListInv
<1> QED BY <1>10, <1>11

\* A page at rest that has steps is closed.
LEMMA StepsClosed ==
  ASSUME NEW p \in {1, 2}, NEW m \in PageMemory, AtRest(p, m), Len(ListOf(p, m)) > 0
  PROVE  /\ \E n \in Nat : ClosedPage(p, m, n)
         /\ m[EndOf(p, m)].next_step = Ptr(LinkOf(p, m), 0)
         /\ PosOf(p, m, 0) = 1
<1>1. m[0].timer_val # 0
  <2> SUFFICES ASSUME m[0].timer_val = 0 PROVE FALSE
    OBVIOUS
  <2>1. Length(p, m) = 0
    BY EmptyFacts
  <2>2. 0 \in 0 .. PWM_STEP_PAGE_SIZE - 1 /\ 1 .. 0 = {}
    BY SizeFacts
  <2>3. Len(ListOf(p, m)) = 0
    BY <2>1, <2>2, StepsOf
  <2> QED BY <2>3
<1>2. PICK n \in Nat : ClosedPage(p, m, n)
  BY <1>1 DEF AtRest
<1>3. EndOf(p, m) = RowOf(m)[n] /\ m[RowOf(m)[n]].next_step = Ptr(LinkOf(p, m), 0)
  BY <1>2, ClosedFacts
<1>4. 1 \in 1 .. n /\ RowOf(m)[1] = 0
  BY <1>2, RowIs DEF ClosedPage
<1>5. PosOf(p, m, RowOf(m)[1]) = 1
  BY <1>2, <1>4, PosIs
<1> QED BY <1>2, <1>3, <1>4, <1>5

\* The page the interrupt walks along next: it is closed, and its first step is step 1.
LEMMA ActiveClosed ==
  ASSUME PP!PageInv, ListInv, PP!Installed
  PROVE  LET a == active_pwm_page.page
         IN /\ a \in {1, 2} /\ ListLink[a] = a
            /\ \E n \in Nat : ClosedPage(a, mem[a], n)
            /\ At(active_pwm_page).next_step = Ptr(a, 0)
            /\ PosOf(a, mem[a], 0) = 1
<1> DEFINE a == active_pwm_page.page
<1>1. a \in {1, 2} /\ mem \in [{1, 2} -> PageMemory] /\ mem[a] \in PageMemory
  BY PageTypes DEF ListInv
<1>2. ListLink[a] = a /\ Len(ListSteps[a]) > 0
  BY DEF PP!PageInv
<1>3. ListLink[a] = LinkOf(a, mem[a]) /\ ListSteps[a] = ListOf(a, mem[a])
  BY <1>1 DEF ListLink, ListSteps
<1>4. AtRest(a, mem[a])
  <2>1. ~(pc = "calc" /\ a = shadow_pwm_page)
    BY PageTypes
  <2> QED BY <1>1, <2>1 DEF ListInv
<1>5. At(active_pwm_page) = mem[a][EndOf(a, mem[a])]
  BY DEF ListInv, At, Ptr
<1>6. Len(ListOf(a, mem[a])) > 0
  BY <1>2, <1>3
<1>7. /\ \E n \in Nat : ClosedPage(a, mem[a], n)
      /\ mem[a][EndOf(a, mem[a])].next_step = Ptr(LinkOf(a, mem[a]), 0)
      /\ PosOf(a, mem[a], 0) = 1
  BY <1>1, <1>4, <1>6, StepsClosed
<1> QED BY <1>1, <1>2, <1>3, <1>5, <1>7

\* The steps that leave the memory alone, outside of the building of a page.
LEMMA ListKept ==
  ASSUME ListInv, UNCHANGED <<mem, active_pwm_page, actual_pwm_step, running>>,
         pc \notin {"calc", "install"}, pc' \notin {"calc", "install"}
  PROVE  ListInv' /\ ListSteps' = ListSteps /\ ListLink' = ListLink /\ ListActual' = ListActual
<1>1. ListInv'
  BY DEF ListInv
<1> QED BY <1>1 DEF ListSteps, ListLink, ListActual

LEMMA SwapPagesStep ==
  ASSUME PP!PageInv, ListInv, SwapPages
  PROVE  PP!SwapPages /\ ListInv'
<1>1. PP!SwapPages
  BY DEF SwapPages, Pages!SwapPages, PP!SwapPages, Pages!settings, PP!settings,
     Pages!OtherPage, PP!OtherPage
<1>2. /\ UNCHANGED <<mem, active_pwm_page, actual_pwm_step, running>>
      /\ pc = "swap" /\ pc' \in {"loop", "start"}
  BY <1>1 DEF SwapPages, PP!SwapPages, memory
<1> QED BY <1>1, <1>2, ListKept

LEMMA RequestStep ==
  ASSUME PP!PageInv, ListInv, Request
  PROVE  PP!Request /\ ListInv'
<1>1. PP!Request
  BY SameRequest DEF Request
<1>2. pc = "loop" /\ pc' \in {"synced", "update"} /\ UNCHANGED running
  BY <1>1 DEF PP!Request, PP!SetBrightness, PP!SetBrightnessSynced, PP!AtRequest,
     PP!WriteBrightness, PP!SetChannelMap, PP!SetPwmFreq, PP!ResetSetup
<1>3. UNCHANGED <<mem, active_pwm_page, actual_pwm_step>>
  BY DEF Request, memory
<1> QED BY <1>1, <1>2, <1>3, ListKept

LEMMA MainOtherStep ==
  ASSUME PP!PageInv, ListInv, MainOther
  PROVE  PP!Next /\ ListInv'
<1>1. PP!SyncedReply \/ PP!NoRequest \/ PP!NoUpdate
  BY DEF MainOther, Pages!settings, PP!settings, Pages!pages, PP!pages,
     Pages!SyncedReply, PP!SyncedReply, Pages!NoRequest, PP!NoRequest, Pages!AtRequest,
     PP!AtRequest, Pages!NoUpdate, PP!NoUpdate, Pages!ShadowFree, PP!ShadowFree
<1>2. /\ pc \in {"synced", "loop", "update"} /\ pc' \in {"update", "loop"}
      /\ UNCHANGED running
  BY <1>1 DEF PP!SyncedReply, PP!NoRequest, PP!NoUpdate, PP!AtRequest
<1>3. UNCHANGED <<mem, active_pwm_page, actual_pwm_step>>
  BY DEF MainOther, memory
<1>4. ListInv'
  BY <1>2, <1>3, ListKept
<1> QED BY <1>1, <1>4 DEF PP!Next, PP!Main

LEMMA StartTimerStep ==
  ASSUME PP!PageInv, ListInv, StartTimer
  PROVE  PP!StartTimer /\ ListInv'
<1> DEFINE a == active_pwm_page.page
<1>1. pc = "start" /\ PP!Installed
  BY DEF StartTimer, PP!Installed
<1>2. /\ a \in {1, 2} /\ ListLink[a] = a
      /\ \E n \in Nat : ClosedPage(a, mem[a], n)
      /\ At(active_pwm_page).next_step = Ptr(a, 0) /\ PosOf(a, mem[a], 0) = 1
  BY <1>1, ActiveClosed
<1>3. /\ actual_pwm_step' = Ptr(a, 0) /\ running' = TRUE /\ pc' = "loop"
      /\ UNCHANGED <<mem, active_pwm_page, shadow_pwm_page>>
  BY <1>2 DEF StartTimer, memory
<1>4. ListActual' = [page |-> a, pos |-> 1]
  BY <1>2, <1>3 DEF ListActual, Ptr
<1>5. ListSteps' = ListSteps /\ ListLink' = ListLink
  BY <1>3 DEF ListSteps, ListLink
<1>6. PP!StartTimer
  BY <1>2, <1>3, <1>4, <1>5 DEF StartTimer, PP!StartTimer, PP!FirstStep, settings,
     PP!settings, PP!pages
<1>7. ListInv'
  <2>1. \E n \in Nat : ClosedPage(a, mem[a], n) /\ \E k \in 1 .. n : 0 = RowOf(mem[a])[k]
    <3>1. PICK n \in Nat : ClosedPage(a, mem[a], n)
      BY <1>2
    <3>2. 1 \in 1 .. n /\ RowOf(mem[a])[1] = 0
      BY <3>1, RowIs DEF ClosedPage
    <3> QED BY <3>1, <3>2
  <2>2. actual_pwm_step'.page = a /\ actual_pwm_step'.idx = 0
        /\ actual_pwm_step' \in [page : {1, 2}, idx : Nat]
    BY <1>2, <1>3 DEF Ptr
  <2>3. running' =>
          \E n \in Nat :
            /\ ClosedPage(actual_pwm_step'.page, mem'[actual_pwm_step'.page], n)
            /\ \E k \in 1 .. n :
                 actual_pwm_step'.idx = RowOf(mem'[actual_pwm_step'.page])[k]
    BY <1>3, <2>1, <2>2
  <2>4. \A p \in {1, 2} : AtRest(p, mem'[p])
    BY <1>1, <1>3 DEF ListInv
  <2>5. /\ mem' \in [{1, 2} -> PageMemory]
        /\ active_pwm_page' = Ptr(active_pwm_page'.page,
                                  EndOf(active_pwm_page'.page, mem'[active_pwm_page'.page]))
    BY <1>3 DEF ListInv
  <2> QED BY <1>3, <2>2, <2>3, <2>4, <2>5 DEF ListInv
<1> QED BY <1>6, <1>7

LEMMA TimerInterruptStep ==
  ASSUME PP!PageInv, ListInv, TimerInterrupt
  PROVE  PP!TimerInterrupt /\ ListInv'
<1> DEFINE p == actual_pwm_step.page
           a == active_pwm_page.page
           m == mem[p]
           row == RowOf(m)
<1>1. running /\ PP!Installed /\ actual_pwm_step \in [page : {1, 2}, idx : Nat] /\ p \in {1, 2}
      /\ mem \in [{1, 2} -> PageMemory] /\ m \in PageMemory
  BY DEF TimerInterrupt, PP!Installed, ListInv
<1>2. PICK n \in Nat : ClosedPage(p, m, n) /\ \E k \in 1 .. n : actual_pwm_step.idx = row[k]
  BY <1>1 DEF ListInv
<1>3. PICK k \in 1 .. n : actual_pwm_step.idx = row[k]
  BY <1>2
<1>4. /\ Length(p, m) = n /\ n \in 1 .. PWM_STEP_PAGE_SIZE - 1
      /\ \A j \in 1 .. n : row[j] \in Entries
      /\ m[row[n]].next_step = Ptr(LinkOf(p, m), 0)
      /\ \A j \in 1 .. n - 1 : m[row[j]].next_step = Ptr(p, row[j+1])
  BY <1>1, <1>2, ClosedFacts
<1>5. /\ a \in {1, 2}
      /\ \E j \in Nat : ClosedPage(a, mem[a], j)
      /\ PosOf(a, mem[a], 0) = 1
  BY <1>1, ActiveClosed
<1>6. ListLink[p] = a /\ ListLink[p] = LinkOf(p, m) /\ ListSteps[p] = ListOf(p, m)
  <2>1. ListActual.page = p
    BY DEF ListActual
  <2> QED BY <1>1, <2>1 DEF PP!PageInv, ListLink, ListSteps
<1>7. Len(ListSteps[p]) = n
  <2>1. n \in 0 .. PWM_STEP_PAGE_SIZE - 1
    BY <1>4
  <2> HIDE DEF m
  <2> QED BY <1>1, <1>4, <1>6, <2>1, StepsOf
<1>8. PosOf(p, m, actual_pwm_step.idx) = k
  BY <1>1, <1>2, <1>3, PosIs
<1>9. ListActual = [page |-> p, pos |-> k]
  BY <1>8 DEF ListActual
<1>10. /\ actual_pwm_step' = m[row[k]].next_step
       /\ UNCHANGED <<mem, active_pwm_page, shadow_pwm_page, running, pc, c, last>>
       /\ ListSteps' = ListSteps /\ ListLink' = ListLink
  BY <1>3 DEF TimerInterrupt, At, memory, ListSteps, ListLink
<1>11. /\ ListActual' = PP!Successor(ListActual)
       /\ actual_pwm_step' \in [page : {1, 2}, idx : Nat]
       /\ \E j \in Nat :
            /\ ClosedPage(actual_pwm_step'.page, mem[actual_pwm_step'.page], j)
            /\ \E x \in 1 .. j : actual_pwm_step'.idx = RowOf(mem[actual_pwm_step'.page])[x]
  <2>1. CASE k < n
    <3>1. k \in 1 .. n - 1 /\ k + 1 \in 1 .. n
      BY <1>4, <2>1
    <3>2. actual_pwm_step' = Ptr(p, row[k+1]) /\ row[k+1] \in Nat
      BY <1>4, <1>10, <3>1, SizeFacts
    <3>3. PosOf(p, m, row[k+1]) = k + 1
      BY <1>1, <1>2, <3>1, PosIs
    <3>4. actual_pwm_step'.page = p /\ actual_pwm_step'.idx = row[k+1]
          /\ actual_pwm_step' \in [page : {1, 2}, idx : Nat]
      BY <1>1, <3>2 DEF Ptr
    <3>5. ListActual' = [page |-> p, pos |-> k + 1]
      BY <1>10, <3>3, <3>4 DEF ListActual
    <3>6. PP!Successor(ListActual) = [page |-> p, pos |-> k + 1]
      BY <1>7, <1>9, <2>1 DEF PP!Successor
    <3> QED BY <1>2, <3>1, <3>4, <3>5, <3>6
  <2>2. CASE ~(k < n)
    <3>1. k = n
      BY <1>4, <2>2
    <3>2. actual_pwm_step' = Ptr(a, 0)
      BY <1>4, <1>6, <1>10, <3>1
    <3>3. actual_pwm_step'.page = a /\ actual_pwm_step'.idx = 0
          /\ actual_pwm_step' \in [page : {1, 2}, idx : Nat]
      BY <1>5, <3>2 DEF Ptr
    <3>4. ListActual' = [page |-> a, pos |-> 1]
      BY <1>5, <1>10, <3>3 DEF ListActual
    <3>5. PP!Successor(ListActual) = [page |-> a, pos |-> 1]
      BY <1>6, <1>7, <1>9, <2>2 DEF PP!Successor, PP!FirstStep
    <3>6. PICK j \in Nat : ClosedPage(a, mem[a], j)
      BY <1>5
    <3>7. 1 \in 1 .. j /\ RowOf(mem[a])[1] = 0
      BY <3>6, RowIs DEF ClosedPage
    <3> QED BY <3>3, <3>4, <3>5, <3>6, <3>7
  <2> QED BY <2>1, <2>2
<1>12. PP!TimerInterrupt
  <2>1. active_pwm_page.page' = active_pwm_page.page
    BY <1>10
  <2> QED BY <1>1, <1>10, <1>11, <2>1 DEF TimerInterrupt, PP!TimerInterrupt, settings,
          PP!settings, PP!pages
<1>13. ListInv'
  <2>1. \A x \in {1, 2} :
          IF pc' = "calc" /\ x = shadow_pwm_page'
            THEN \E j \in 0 .. NCHANNELS - c' : OpenPage(x, mem'[x], j)
            ELSE AtRest(x, mem'[x])
    BY <1>10 DEF ListInv
  <2>2. /\ mem' \in [{1, 2} -> PageMemory]
        /\ active_pwm_page' = Ptr(active_pwm_page'.page,
                                  EndOf(active_pwm_page'.page, mem'[active_pwm_page'.page]))
        /\ pc' = "install" => last' = EndOf(shadow_pwm_page', mem'[shadow_pwm_page'])
    BY <1>10 DEF ListInv
  <2> QED BY <1>1, <1>10, <1>11, <2>1, <2>2 DEF ListInv
<1> QED BY <1>12, <1>13

(***************************************************************************)
(* The theorems.                                                           *)
(***************************************************************************)

LEMMA InitStep == Init => PP!Init /\ ListInv
<1> SUFFICES ASSUME Init PROVE PP!Init /\ ListInv
  OBVIOUS
<1> DEFINE fresh(p) == [i \in Entries |->
             [on |-> PP!Outputs, timer_val |-> 0, next_step |-> Ptr(p, i + 1)]]
<1>1. mem = [p \in {1, 2} |-> fresh(p)]
  BY SameConstants DEF Init
<1>2. ASSUME NEW p \in {1, 2}, NEW m, m = fresh(p)
      PROVE  /\ m \in PageMemory /\ m[0].timer_val = 0
             /\ OpenPage(p, m, 0) /\ ListOf(p, m) = <<>> /\ LinkOf(p, m) = p
  <2>1. \A i \in Entries : Ptr(p, i + 1) \in [page : {1, 2}, idx : Nat]
    BY SizeFacts DEF Ptr
  <2>2. \A i \in Entries : m[i] = [on |-> PP!Outputs, timer_val |-> 0,
                                   next_step |-> Ptr(p, i + 1)]
    BY <1>2
  <2>3. \A i \in Entries :
          /\ m[i] \in StepEntry /\ m[i].timer_val = 0 /\ m[i].next_step = Ptr(p, i + 1)
    <3> SUFFICES ASSUME NEW i \in Entries
                 PROVE  /\ m[i] \in StepEntry /\ m[i].timer_val = 0
                        /\ m[i].next_step = Ptr(p, i + 1)
      OBVIOUS
    <3> DEFINE next == Ptr(p, i + 1)
    <3>1. next \in [page : {1, 2}, idx : Nat]
      BY <2>1
    <3>2. m[i] = [on |-> PP!Outputs, timer_val |-> 0, next_step |-> next]
      BY <2>2
    <3> HIDE DEF next
    <3>3. m[i] \in StepEntry /\ m[i].timer_val = 0 /\ m[i].next_step = next
      BY <3>1, <3>2 DEF StepEntry
    <3> QED BY <3>3 DEF next
  <2>4. m = [i \in Entries |-> m[i]]
    BY <1>2
  <2>5. m \in PageMemory
    BY <2>3, <2>4 DEF PageMemory
  <2>6. m[0].timer_val = 0
    BY <2>3, SizeFacts
  <2>7. \A i \in Entries : m[i].timer_val = 0 /\ m[i].next_step = Ptr(p, i + 1)
    BY <2>3
  <2>8. OpenPage(p, m, 0) /\ ListOf(p, m) = <<>> /\ LinkOf(p, m) = p
    BY <2>5, <2>7, FreshPage
  <2> QED BY <2>5, <2>6, <2>8
<1>3. \A p \in {1, 2} : mem[p] = fresh(p)
  BY <1>1
<1>4. \A p \in {1, 2} : /\ mem[p] \in PageMemory /\ mem[p][0].timer_val = 0
                        /\ OpenPage(p, mem[p], 0) /\ ListOf(p, mem[p]) = <<>>
                        /\ LinkOf(p, mem[p]) = p
  BY <1>2, <1>3
<1>5. mem \in [{1, 2} -> PageMemory]
  <2>1. mem = [p \in {1, 2} |-> mem[p]]
    BY <1>1
  <2> QED BY <1>4, <2>1
<1> HIDE DEF fresh
<1>6. /\ last = 0 /\ active_pwm_page = Ptr(2, 0) /\ actual_pwm_step = Ptr(2, 0)
      /\ bright_vals = [ch \in PP!Channels |-> 0] /\ PP!Mapped(DefaultMap, channel_map)
      /\ max_pwm \in PwmResolutions /\ update_pwm_page \in BOOLEAN
      /\ shadow_pwm_page = 1 /\ pc = "calc" /\ c = NCHANNELS /\ running = FALSE
      /\ frame = [p \in {1, 2} |-> PP!Snapshot] /\ syncOwed = FALSE
  BY SameConstants, SameMapped DEF Init
<1>7. Ptr(2, 0).page = 2 /\ Ptr(2, 0).idx = 0 /\ Ptr(2, 0) \in [page : {1, 2}, idx : Nat]
  BY DEF Ptr
<1>8. EndOf(2, mem[2]) = 0 /\ \A i : PosOf(2, mem[2], i) = 1
  BY <1>4, EmptyFacts
<1>9. ListInv
  <2>1. 0 \in 0 .. NCHANNELS - c
    BY <1>6, SizeFacts
  <2>2. \A p \in {1, 2} : IF pc = "calc" /\ p = shadow_pwm_page
                            THEN \E n \in 0 .. NCHANNELS - c : OpenPage(p, mem[p], n)
                            ELSE AtRest(p, mem[p])
    BY <1>4, <2>1 DEF AtRest
  <2>3. active_pwm_page = Ptr(active_pwm_page.page,
                              EndOf(active_pwm_page.page, mem[active_pwm_page.page]))
    BY <1>6, <1>7, <1>8
  <2> QED BY <1>4, <1>5, <1>6, <1>7, <2>2, <2>3 DEF ListInv
<1>10. PP!Init
  <2>1. ListActual = [page |-> 2, pos |-> 1]
    BY <1>6, <1>7, <1>8 DEF ListActual
  <2>2. ListSteps = [p \in {1, 2} |-> <<>>] /\ ListLink = [p \in {1, 2} |-> p]
    BY <1>4 DEF ListSteps, ListLink
  <2>3. ListLink \in [{1, 2} -> {1, 2}] /\ ListLink[1] = 1
    BY <2>2
  <2> QED BY <1>6, <1>7, <2>1, <2>2, <2>3, SameConstants DEF PP!Init, PP!FirstStep
<1> QED BY <1>9, <1>10

LEMMA NextStep ==
  PP!PageInv /\ PP!ShowInv /\ ListInv /\ [Next]_vars => [PP!Next]_(PP!vars) /\ ListInv'
<1> SUFFICES ASSUME PP!PageInv, PP!ShowInv, ListInv, [Next]_vars
             PROVE  [PP!Next]_(PP!vars) /\ ListInv'
  OBVIOUS
<1>1. CASE Request
  BY <1>1, RequestStep DEF PP!Next
<1>2. CASE MainOther
  BY <1>2, MainOtherStep
<1>3. CASE InitPwmPage
  BY <1>3, InitPwmPageStep DEF PP!Next, PP!Main
<1>4. CASE CalcPwmPage
  BY <1>4, CalcPwmPageStep DEF PP!Next, PP!Main
<1>5. CASE FinishPage
  BY <1>5, FinishPageStep DEF PP!Next, PP!Main
<1>6. CASE InstallLink
  BY <1>6, InstallLinkStep DEF PP!Next, PP!Main
<1>7. CASE SwapPages
  BY <1>7, SwapPagesStep DEF PP!Next, PP!Main
<1>8. CASE StartTimer
  BY <1>8, StartTimerStep DEF PP!Next, PP!Main
<1>9. CASE TimerInterrupt
  BY <1>9, TimerInterruptStep DEF PP!Next
<1>10. CASE UNCHANGED vars
  <2>1. UNCHANGED <<settings, update_pwm_page, shadow_pwm_page, pc, c, running, frame,
                    syncOwed, mem, last, active_pwm_page, actual_pwm_step>>
    BY <1>10 DEF vars, memory
  <2>2. ListInv'
    BY <2>1 DEF ListInv
  <2>3. UNCHANGED PP!vars
    BY <2>1 DEF PP!vars, PP!settings, settings, PP!pages, ListSteps, ListLink, ListActual
  <2> QED BY <2>2, <2>3
<1> QED BY <1>1, <1>2, <1>3, <1>4, <1>5, <1>6, <1>7, <1>8, <1>9, <1>10 DEF Next

LEMMA InitAll == Init => PP!PageInv /\ PP!ShowInv /\ ListInv
<1>1. PP!Init => PP!PageInv
  BY Assumed, PP!InitInv, SMT
<1>2. PP!Init => PP!ShowInv
  BY Assumed, PP!InitShow, SMT
<1> QED BY <1>1, <1>2, InitStep

LEMMA NextAll ==
  PP!PageInv /\ PP!ShowInv /\ ListInv /\ [Next]_vars =>
    PP!PageInv' /\ PP!ShowInv' /\ ListInv' /\ [PP!Next]_(PP!vars)
<1>1. PP!PageInv /\ [PP!Next]_(PP!vars) => PP!PageInv'
  BY Assumed, PP!NextInv, SMT
<1>2. PP!PageInv /\ PP!ShowInv /\ [PP!Next]_(PP!vars) => PP!ShowInv'
  BY Assumed, PP!NextShow, SMT
<1> QED BY <1>1, <1>2, NextStep

LEMMA SpecAll == Spec => [](PP!PageInv /\ PP!ShowInv /\ ListInv)
<1>1. Init => PP!PageInv /\ PP!ShowInv /\ ListInv
  BY InitAll
<1>2. (PP!PageInv /\ PP!ShowInv /\ ListInv) /\ [Next]_vars =>
        (PP!PageInv /\ PP!ShowInv /\ ListInv)'
  BY NextAll
<1> QED BY <1>1, <1>2, PTL DEF Spec

\* The list of the page that is built never loses an entry: the next_step pointers
\* lead from the first entry through all entries of the page, each once, whatever
\* set_channel has inserted where.
THEOREM NoEntryIsLost == Spec => []NoEntryLost
<1>1. PP!PageInv /\ PP!ShowInv /\ ListInv => NoEntryLost
  <2> SUFFICES ASSUME PP!PageInv, ListInv, pc = "calc"
               PROVE  LET row == RowOf(mem[shadow_pwm_page])
                      IN /\ \A k \in 1 .. PWM_STEP_PAGE_SIZE : row[k] \in Entries
                         /\ IsInjective(row)
    BY DEF NoEntryLost
  <2> DEFINE row == RowOf(mem[shadow_pwm_page])
  <2>1. PICK n : OpenPage(shadow_pwm_page, mem[shadow_pwm_page], n)
    BY PageTypes DEF ListInv
  <2>2. /\ \A k \in 1 .. PWM_STEP_PAGE_SIZE : row[k] \in Entries
        /\ \A j, k \in 1 .. PWM_STEP_PAGE_SIZE : row[j] = row[k] => j = k
    BY <2>1 DEF OpenPage
  <2>3. DOMAIN row = 1 .. PWM_STEP_PAGE_SIZE
    BY RowIs
  <2> HIDE DEF row
  <2>4. IsInjective(row)
    BY <2>2, <2>3 DEF IsInjective
  <2> QED BY <2>2, <2>4 DEF row
<1> QED BY <1>1, SpecAll, PTL

\* What set_channel, calc_pwm_page and activate_pwm_page do to the linked list in
\* memory, and what the interrupt that follows its pointers sees of it, is what
\* PwmPages says they do to the sequence of steps.
THEOREM ListRefinesSteps == Spec => ListImplementsSteps
<1>1. Init => Pages!Init
  <2>1. Init => PP!Init
    BY InitStep
  <2>2. PP!Init <=> Pages!Init
    BY SameConstants, SameMapped DEF PP!Init, Pages!Init, PP!FirstStep, Pages!FirstStep
  <2> QED BY <2>1, <2>2
<1>2. (PP!PageInv /\ PP!ShowInv /\ ListInv) /\ [Next]_vars => [Pages!Next]_(Pages!vars)
  BY NextStep, SameNext
<1> QED BY <1>1, <1>2, SpecAll, PTL DEF Spec, ListImplementsSteps, Pages!SafetySpec

\* What the interrupt reads through actual_pwm_step while the other page is built is
\* always a step of the cycle: never a free entry, whose timer_val is 0, nor one that
\* waits for its duration to be computed, and its duration fits the 16 bits of the
\* compare register and leaves the interrupt the time it takes.
LoadedStepFits == running => At(actual_pwm_step).timer_val \in PWM_PRESCALE .. 65535

\* The compare register of timer 3 gets only such durations, whatever is built meanwhile.
THEOREM InterruptLoadsSteps == Spec => []LoadedStepFits
<1>1. PP!PageInv /\ PP!ShowInv => PP!StepTicksFit
  BY Assumed, PP!TicksFit, SMT
<1>2. PP!PageInv /\ PP!ShowInv /\ ListInv => LoadedStepFits
  <2> SUFFICES ASSUME PP!PageInv, PP!ShowInv, ListInv, running
               PROVE  At(actual_pwm_step).timer_val \in PWM_PRESCALE .. 65535
    BY DEF LoadedStepFits
  <2> DEFINE p == actual_pwm_step.page
             m == mem[p]
             row == RowOf(m)
             W == PWM_PRESCALE .. 65535
  <2>a. \A q \in PP!Reachable : \A i \in DOMAIN ListSteps[q] :
          ListSteps[q][i].timer_val \in W
    BY <1>1 DEF PP!StepTicksFit
  <2> HIDE DEF W
  <2>1. p \in {1, 2} /\ m \in PageMemory
    BY DEF ListInv
  <2>2. PICK n \in Nat : ClosedPage(p, m, n) /\ \E k \in 1 .. n : actual_pwm_step.idx = row[k]
    BY DEF ListInv
  <2>3. PICK k \in 1 .. n : actual_pwm_step.idx = row[k]
    BY <2>2
  <2>4. At(actual_pwm_step).timer_val = m[row[k]].timer_val
    BY <2>3 DEF At
  <2>5. ListSteps[p] = ListOf(p, m) /\ p \in PP!Reachable
    BY <2>1 DEF ListSteps, PP!Reachable, ListActual
  <2>6. k \in DOMAIN ListOf(p, m) /\ ListOf(p, m)[k].timer_val = m[row[k]].timer_val
    <3>1. Length(p, m) = n
      BY <2>1, <2>2, ClosedFacts
    <3>2. ListOf(p, m) =
            [j \in 1 .. n |-> [on |-> m[row[j]].on, timer_val |-> m[row[j]].timer_val]]
      BY <3>1, Zenon DEF ListOf
    <3> HIDE DEF p, m, row
    <3> QED BY <3>2
  <2>7. ListSteps[p][k].timer_val \in W
    <3>1. k \in DOMAIN ListSteps[p]
      BY <2>5, <2>6
    <3> QED BY <2>a, <2>5, <3>1
  <2>8. At(actual_pwm_step).timer_val \in W
    BY <2>4, <2>5, <2>6, <2>7
  <2> QED BY <2>8 DEF W
<1> QED BY <1>2, SpecAll, PTL
================================================================================
