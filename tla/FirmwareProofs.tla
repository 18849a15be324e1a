--------------------------- MODULE FirmwareProofs ---------------------------
(***************************************************************************)
(* Proofs about the firmware update.  FlashImage: the pages are distinct,  *)
(* and the list of pages with its remembered page implements the plain     *)
(* memory of FlashContents, for any page size, address range and sequence  *)
(* of lines.  FirmwareUpdate: no update, however it breaks off, lets a     *)
(* controller run a mixture of two firmwares, for any number of            *)
(* controllers, pages, updates and restarts.                               *)
(***************************************************************************)
EXTENDS MCFirmware, TLAPS

(***************************************************************************)
(* The image of a firmware file                                            *)
(***************************************************************************)

ImageInv == ImageTypeOK /\ PagesDistinct

\* A base address and an offset determine the address (FlashPage.insert).
LEMMA AddressParts ==
  ASSUME NEW a \in Addrs, NEW b \in Addrs, Base(a) = Base(b), Offset(a) = Offset(b)
  PROVE  a = b
BY FlashAssumption DEF Addrs, Base, Offset

LEMMA OffsetRange == ASSUME NEW a \in Addrs PROVE Offset(a) \in Offsets
BY FlashAssumption DEF Addrs, Offset, Offsets

\* A new page is blank and begins at the base address.
LEMMA NewPageType ==
  ASSUME NEW a \in Addrs
  PROVE  NewPage(a) \in FlashPages /\ NewPage(a).baseAddr = Base(a)
BY FlashAssumption DEF NewPage, FlashPages

\* Inserting a byte leaves the base address and the other bytes.
LEMMA InsertedPage ==
  ASSUME NEW a \in Addrs, NEW v \in Values, NEW p \in FlashPages
  PROVE  /\ Inserted(p, a, v) \in FlashPages
         /\ Inserted(p, a, v).baseAddr = p.baseAddr
         /\ \A o \in Offsets : Inserted(p, a, v).data[o] = IF o = Offset(a) THEN v ELSE p.data[o]
BY OffsetRange DEF Inserted, FlashPages

\* What FlashMem.insert does, in one of two forms: a byte of a page of the list is
\* changed, or a page is appended.
Changed(i, a, v) ==
  /\ i \in DOMAIN pageList /\ pageList[i].baseAddr = Base(a)
  /\ pageList' = [pageList EXCEPT ![i] = Inserted(@, a, v)]
  /\ lastLookupPage' \in {lastLookupPage, i}
Appended(a, v) ==
  /\ \A i \in DOMAIN pageList : pageList[i].baseAddr # Base(a)
  /\ pageList' = Append(pageList, Inserted(NewPage(a), a, v))
  /\ lastLookupPage' = lastLookupPage

LEMMA InsertCases ==
  ASSUME ImageTypeOK, NEW a \in Addrs, NEW v \in Values, Insert(a, v)
  PROVE  (\E i \in DOMAIN pageList : Changed(i, a, v)) \/ Appended(a, v)
<1>1. CASE Remembered(a)
  <2>1. lastLookupPage \in DOMAIN pageList /\ pageList[lastLookupPage].baseAddr = Base(a)
    BY <1>1 DEF ImageTypeOK, Remembered
  <2>2. Changed(lastLookupPage, a, v)
    BY <1>1, <2>1 DEF Insert, Changed
  <2> QED BY <2>1, <2>2
<1>2. CASE ~Remembered(a) /\ Found(a) # {}
  <2>1. PICK i \in Found(a) : pageList' = [pageList EXCEPT ![i] = Inserted(@, a, v)]
                             /\ lastLookupPage' = i
    BY <1>2 DEF Insert
  <2> QED BY <2>1 DEF Found, Changed
<1>3. CASE ~Remembered(a) /\ Found(a) = {}
  BY <1>3 DEF Insert, Found, Appended
<1> QED BY <1>1, <1>2, <1>3

\* Under both forms the list stays a list of distinct pages, and the lookup in it.
LEMMA InsertKeeps ==
  ASSUME ImageInv, NEW a \in Addrs, NEW v \in Values, Insert(a, v)
  PROVE  /\ pageList' \in Seq(FlashPages) /\ lastLookupPage' \in 0 .. Len(pageList')
         /\ PagesDistinct'
<1> USE DEF ImageInv
<1>0. pageList \in Seq(FlashPages) /\ lastLookupPage \in 0 .. Len(pageList)
  BY DEF ImageTypeOK
<1>1. ASSUME NEW i \in DOMAIN pageList, Changed(i, a, v)
      PROVE  /\ pageList' \in Seq(FlashPages) /\ lastLookupPage' \in 0 .. Len(pageList')
             /\ PagesDistinct'
  <2>1. pageList[i] \in FlashPages
    BY <1>0
  <2>2. /\ Inserted(pageList[i], a, v) \in FlashPages
        /\ Inserted(pageList[i], a, v).baseAddr = pageList[i].baseAddr
    BY <2>1, InsertedPage
  <2>3. /\ pageList' \in Seq(FlashPages) /\ Len(pageList') = Len(pageList)
        /\ DOMAIN pageList' = DOMAIN pageList
        /\ \A j \in DOMAIN pageList : pageList'[j] = IF j = i THEN Inserted(pageList[i], a, v)
                                                             ELSE pageList[j]
    BY <1>0, <1>1, <2>2 DEF Changed
  <2>4. \A j \in DOMAIN pageList : pageList'[j].baseAddr = pageList[j].baseAddr
    BY <2>2, <2>3
  <2>5. PagesDistinct'
    BY <2>3, <2>4 DEF PagesDistinct
  <2> QED BY <1>0, <1>1, <2>3, <2>5 DEF Changed
<1>2. ASSUME Appended(a, v)
      PROVE  /\ pageList' \in Seq(FlashPages) /\ lastLookupPage' \in 0 .. Len(pageList')
             /\ PagesDistinct'
  <2>1. /\ Inserted(NewPage(a), a, v) \in FlashPages
        /\ Inserted(NewPage(a), a, v).baseAddr = Base(a)
    BY NewPageType, InsertedPage
  <2>2. /\ pageList' \in Seq(FlashPages) /\ Len(pageList') = Len(pageList) + 1
        /\ \A j \in DOMAIN pageList : pageList'[j] = pageList[j]
        /\ pageList'[Len(pageList) + 1] = Inserted(NewPage(a), a, v)
    BY <1>0, <1>2, <2>1 DEF Appended
  <2>3. PagesDistinct'
    BY <1>0, <1>2, <2>1, <2>2 DEF PagesDistinct, Appended
  <2> QED BY <1>0, <1>2, <2>2, <2>3 DEF Appended
<1> QED BY <1>1, <1>2, InsertCases

\* The type invariant and the distinctness of the pages are inductive together.
LEMMA ImageInit == LoadInit => ImageInv
<1> SUFFICES ASSUME LoadInit PROVE ImageInv
  OBVIOUS
<1>1. pageList = <<>> /\ rest = <<>> /\ addr = 0 /\ lastLookupPage = 0 /\ loading = "read"
  BY DEF LoadInit
<1>2. <<>> \in Seq(FlashPages) /\ <<>> \in Seq(Values \cup {BAD}) /\ Len(pageList) = 0
  BY <1>1
<1>a. loading # "insert"
  BY <1>1
<1>3. ImageTypeOK
  <2>1. pageList \in Seq(FlashPages) /\ rest \in Seq(Values \cup {BAD})
    BY <1>1, <1>2
  <2>2. lastLookupPage \in 0 .. Len(pageList) /\ addr \in Nat
    BY <1>1, <1>2
  <2>3. targetInfo \in BOOLEAN
    BY DEF LoadInit
  <2> QED BY <1>1, <1>a, <2>1, <2>2, <2>3 DEF ImageTypeOK
<1>4. PagesDistinct
  BY <1>1 DEF PagesDistinct
<1> QED BY <1>3, <1>4 DEF ImageInv

LEMMA InsertedAddr ==
  ASSUME ImageTypeOK, loading = "insert", rest # <<>>, Head(rest) # BAD
  PROVE  /\ addr \in Addrs /\ Head(rest) \in Values
         /\ addr + 1 \in Nat /\ Tail(rest) \in Seq(Values \cup {BAD})
         /\ addr + 1 + Len(Tail(rest)) - 1 <= MaxAddr
<1>1. /\ rest \in Seq(Values \cup {BAD}) /\ addr \in Nat /\ addr + Len(rest) - 1 <= MaxAddr
  BY DEF ImageTypeOK
<1>2. Len(rest) >= 1 /\ Head(rest) \in Values \cup {BAD} /\ Len(Tail(rest)) = Len(rest) - 1
  BY <1>1
<1> QED BY <1>1, <1>2, FlashAssumption DEF Addrs

LEMMA ImageNext == ImageInv /\ [LoadNext]_loadVars => ImageInv'
<1> SUFFICES ASSUME ImageInv, [LoadNext]_loadVars PROVE ImageInv'
  OBVIOUS
<1> USE DEF ImageInv
<1>1. CASE TargetLine
  BY <1>1 DEF TargetLine, memory, ImageTypeOK, PagesDistinct
<1>2. CASE DataLine
  <2>1. rest' \in Seq(Values \cup {BAD}) /\ addr' \in Nat
    BY <1>2, FlashAssumption DEF DataLine, Addrs
  <2> QED BY <1>2, <2>1 DEF DataLine, memory, ImageTypeOK, PagesDistinct
<1>3. CASE InsertByte
  <2>1. Insert(addr, Head(rest)) /\ loading = "insert" /\ rest # <<>> /\ Head(rest) # BAD
    BY <1>3 DEF InsertByte
  <2>2. addr \in Addrs /\ Head(rest) \in Values
    BY <2>1, InsertedAddr
  <2>3. /\ pageList' \in Seq(FlashPages) /\ lastLookupPage' \in 0 .. Len(pageList')
        /\ PagesDistinct'
    BY <2>1, <2>2, InsertKeeps
  <2>4. addr' \in Nat /\ rest' \in Seq(Values \cup {BAD}) /\ addr' + Len(rest') - 1 <= MaxAddr
    BY <1>3, <2>1, InsertedAddr DEF InsertByte
  <2> QED BY <1>3, <2>3, <2>4 DEF InsertByte, ImageTypeOK
<1>4. CASE EndOfLine
  BY <1>4 DEF EndOfLine, memory, ImageTypeOK, PagesDistinct
<1>5. CASE SyntaxError
  BY <1>5 DEF SyntaxError, memory, ImageTypeOK, PagesDistinct
<1>6. CASE EndOfFile
  BY <1>6 DEF EndOfFile, memory, ImageTypeOK, PagesDistinct
<1>7. CASE UNCHANGED loadVars
  BY <1>7 DEF loadVars, memory, ImageTypeOK, PagesDistinct
<1> QED BY <1>1, <1>2, <1>3, <1>4, <1>5, <1>6, <1>7 DEF LoadNext

\* The values of the variables, for any file.
THEOREM ImageType == LoadSpec => []ImageTypeOK
<1>1. ImageInv => ImageTypeOK
  BY DEF ImageInv
<1> QED BY <1>1, ImageInit, ImageNext, PTL DEF LoadSpec

\* FlashMem.insert never makes a second page for the addresses of another.
THEOREM ImagePagesDistinct == LoadSpec => []PagesDistinct
<1>1. ImageInv => PagesDistinct
  BY DEF ImageInv
<1> QED BY <1>1, ImageInit, ImageNext, PTL DEF LoadSpec

(***************************************************************************)
(* The refinement                                                          *)
(***************************************************************************)
mem == [a \in Addrs |-> Content(a)]
pages == {pageList[i].baseAddr : i \in DOMAIN pageList}

\* With distinct pages, the content of an address is that of the one page it is in.
LEMMA ContentOf ==
  ASSUME PagesDistinct, NEW a \in Addrs, NEW i \in DOMAIN pageList,
         pageList[i].baseAddr = Base(a)
  PROVE  Content(a) = pageList[i].data[Offset(a)]
<1>1. PageOf(a) = {i}
  BY DEF PagesDistinct, PageOf
<1> QED BY <1>1 DEF Content

LEMMA NoContent ==
  ASSUME NEW a \in Addrs, \A i \in DOMAIN pageList : pageList[i].baseAddr # Base(a)
  PROVE  Content(a) = BLANK
BY DEF Content, PageOf

\* The contents depend on the pages of the address only.
LEMMA SameContent ==
  ASSUME PagesDistinct, NEW b \in Addrs, PageOf(b)' = PageOf(b),
         \A j \in PageOf(b) : pageList'[j] = pageList[j]
  PROVE  Content(b)' = Content(b)
<1>1. CASE PageOf(b) = {}
  BY <1>1 DEF Content
<1>2. CASE PageOf(b) # {}
  <2>1. PICK j \in PageOf(b) : TRUE
    BY <1>2
  <2>2. PageOf(b) = {j}
    BY <2>1 DEF PagesDistinct, PageOf
  <2>3. Content(b) = pageList[j].data[Offset(b)]
    BY <2>2 DEF Content
  <2>4. Content(b)' = pageList'[j].data[Offset(b)]
    BY <2>2 DEF Content
  <2> QED BY <2>1, <2>3, <2>4
<1> QED BY <1>1, <1>2

\* A byte that is inserted changes the contents at its address only.
LEMMA InsertContent ==
  ASSUME ImageInv, NEW a \in Addrs, NEW v \in Values, Insert(a, v), NEW b \in Addrs
  PROVE  Content(b)' = IF b = a THEN v ELSE Content(b)
<1>0. pageList \in Seq(FlashPages) /\ PagesDistinct /\ PagesDistinct'
  BY InsertKeeps DEF ImageInv, ImageTypeOK
<1>a. Offset(b) \in Offsets /\ Offset(a) \in Offsets
  BY OffsetRange
<1>1. ASSUME NEW i \in DOMAIN pageList, Changed(i, a, v)
      PROVE  Content(b)' = IF b = a THEN v ELSE Content(b)
  <2>1. pageList[i] \in FlashPages
    BY <1>0
  <2>2. /\ DOMAIN pageList' = DOMAIN pageList
        /\ pageList'[i] = Inserted(pageList[i], a, v)
        /\ \A j \in DOMAIN pageList : j # i => pageList'[j] = pageList[j]
    BY <1>1 DEF Changed
  <2>3. /\ pageList'[i].baseAddr = pageList[i].baseAddr /\ pageList[i].baseAddr = Base(a)
        /\ \A o \in Offsets : pageList'[i].data[o] = IF o = Offset(a) THEN v
                                                     ELSE pageList[i].data[o]
    BY <1>1, <2>1, <2>2, InsertedPage DEF Changed
  <2>4. CASE Base(b) = Base(a)
    <3>1. Content(b) = pageList[i].data[Offset(b)]
      BY <1>0, <2>3, <2>4, ContentOf
    <3>2. Content(b)' = pageList'[i].data[Offset(b)]
      <4>1. PageOf(b)' = {i}
        BY <1>0, <2>2, <2>3, <2>4 DEF PagesDistinct, PageOf
      <4> QED BY <4>1 DEF Content
    <3>3. b = a <=> Offset(b) = Offset(a)
      BY <2>4, AddressParts
    <3> QED BY <1>a, <2>3, <3>1, <3>2, <3>3
  <2>5. CASE Base(b) # Base(a)
    <3>1. PageOf(b)' = PageOf(b) /\ i \notin PageOf(b)
      BY <2>2, <2>3, <2>5 DEF PageOf
    <3>2. Content(b)' = Content(b)
      <4>1. \A j \in PageOf(b) : pageList'[j] = pageList[j]
        BY <2>2, <3>1 DEF PageOf
      <4> QED BY <1>0, <3>1, <4>1, SameContent
    <3> QED BY <2>5, <3>2
  <2> QED BY <2>4, <2>5
<1>2. ASSUME Appended(a, v)
      PROVE  Content(b)' = IF b = a THEN v ELSE Content(b)
  <2> DEFINE n == Len(pageList) + 1
  <2>1. /\ Inserted(NewPage(a), a, v) \in FlashPages
        /\ Inserted(NewPage(a), a, v).baseAddr = Base(a)
        /\ \A o \in Offsets : Inserted(NewPage(a), a, v).data[o] =
                               IF o = Offset(a) THEN v ELSE NewPage(a).data[o]
    BY NewPageType, InsertedPage
  <2>2. /\ DOMAIN pageList' = 1 .. n /\ DOMAIN pageList = 1 .. n - 1 /\ n \in Nat
        /\ \A j \in DOMAIN pageList : pageList'[j] = pageList[j]
        /\ pageList'[n] = Inserted(NewPage(a), a, v)
    BY <1>0, <1>2, <2>1 DEF Appended
  <2>3. CASE Base(b) = Base(a)
    <3>1. Content(b) = BLANK
      BY <1>2, <2>3, NoContent DEF Appended
    <3>2. Content(b)' = pageList'[n].data[Offset(b)]
      <4>1. PageOf(b)' = {n}
        BY <1>0, <2>1, <2>2, <2>3 DEF PagesDistinct, PageOf
      <4> QED BY <4>1 DEF Content
    <3>3. b = a <=> Offset(b) = Offset(a)
      BY <2>3, AddressParts
    <3>4. NewPage(a).data[Offset(b)] = BLANK
      BY <1>a DEF NewPage
    <3> QED BY <1>a, <2>1, <2>2, <3>1, <3>2, <3>3, <3>4
  <2>4. CASE Base(b) # Base(a)
    <3>1. PageOf(b)' = PageOf(b)
      <4>1. \A j \in 1 .. n - 1 : pageList'[j] = pageList[j]
        BY <2>2
      <4>2. pageList'[n].baseAddr # Base(b)
        BY <2>1, <2>2, <2>4
      <4> QED BY <2>2, <4>1, <4>2 DEF PageOf
    <3>2. Content(b)' = Content(b)
      <4>1. \A j \in PageOf(b) : pageList'[j] = pageList[j]
        BY <2>2 DEF PageOf
      <4> QED BY <1>0, <3>1, <4>1, SameContent
    <3> QED BY <2>4, <3>2
  <2> QED BY <2>3, <2>4
<1> QED BY <1>1, <1>2, InsertCases DEF ImageInv

\* The pages touched grow by the page of the byte.
LEMMA InsertPages ==
  ASSUME ImageInv, NEW a \in Addrs, NEW v \in Values, Insert(a, v)
  PROVE  pages' = pages \cup {Base(a)}
<1>0. pageList \in Seq(FlashPages)
  BY DEF ImageInv, ImageTypeOK
<1>1. ASSUME NEW i \in DOMAIN pageList, Changed(i, a, v)
      PROVE  pages' = pages \cup {Base(a)}
  <2>1. /\ DOMAIN pageList' = DOMAIN pageList /\ pageList[i].baseAddr = Base(a)
        /\ \A j \in DOMAIN pageList : j # i => pageList'[j] = pageList[j]
        /\ pageList'[i] = Inserted(pageList[i], a, v)
    BY <1>1 DEF Changed
  <2>2. pageList'[i].baseAddr = Base(a)
    BY <1>0, <2>1, InsertedPage
  <2> QED BY <2>1, <2>2 DEF pages
<1>2. ASSUME Appended(a, v)
      PROVE  pages' = pages \cup {Base(a)}
  <2> DEFINE n == Len(pageList) + 1
  <2>1. /\ Inserted(NewPage(a), a, v) \in FlashPages
        /\ Inserted(NewPage(a), a, v).baseAddr = Base(a)
    BY NewPageType, InsertedPage
  <2>2. /\ DOMAIN pageList' = DOMAIN pageList \cup {n}
        /\ \A j \in DOMAIN pageList : pageList'[j] = pageList[j]
        /\ pageList'[n] = Inserted(NewPage(a), a, v)
    BY <1>0, <1>2, <2>1 DEF Appended
  <2> QED BY <2>1, <2>2 DEF pages
<1> QED BY <1>1, <1>2, InsertCases DEF ImageInv

\* Every line and every byte does to the contents what FlashContents says.
THEOREM ImageImplementsContents == LoadSpec => LoadsContents
<1>1. LoadInit => Flat!Init
  <2> SUFFICES ASSUME LoadInit PROVE Flat!Init
    OBVIOUS
  <2>1. DOMAIN pageList = {} /\ loading = "read" /\ addr = 0 /\ rest = <<>>
    BY DEF LoadInit
  <2>2. \A a \in Addrs : Content(a) = BLANK
    BY <2>1 DEF Content, PageOf
  <2> QED BY <2>1, <2>2 DEF Flat!Init, Flat!Addrs, Addrs
<1>2. ImageInv /\ [LoadNext]_loadVars => [Flat!Next]_(Flat!vars)
  <2> SUFFICES ASSUME ImageInv, [LoadNext]_loadVars PROVE Flat!Next \/ UNCHANGED Flat!vars
    OBVIOUS
  <2>0. ASSUME UNCHANGED pageList PROVE mem' = mem /\ pages' = pages
    BY <2>0 DEF mem, pages, Content, PageOf
  <2>1. CASE TargetLine
    <3>1. UNCHANGED <<pageList, loading, addr, rest>>
      BY <2>1 DEF TargetLine, memory
    <3> QED BY <2>0, <3>1 DEF Flat!vars, mem, pages
  <2>2. CASE DataLine
    BY <2>0, <2>2 DEF DataLine, memory, Flat!Next, Flat!Line, Flat!Addrs, Addrs,
                      mem, pages
  <2>3. CASE InsertByte
    <3>1. Insert(addr, Head(rest)) /\ loading = "insert" /\ rest # <<>> /\ Head(rest) # BAD
      BY <2>3 DEF InsertByte
    <3>2. addr \in Addrs /\ Head(rest) \in Values
      BY <3>1, InsertedAddr DEF ImageInv
    <3>3. mem' = [mem EXCEPT ![addr] = Head(rest)]
      BY <3>1, <3>2, InsertContent DEF mem
    <3>4. pages' = pages \cup {Base(addr)}
      BY <3>1, <3>2, InsertPages
    <3> QED BY <2>3, <3>1, <3>3, <3>4
            DEF InsertByte, Flat!Next, Flat!Put, Flat!Base, Base, mem, pages
  <2>4. CASE EndOfLine
    BY <2>0, <2>4 DEF EndOfLine, memory, Flat!Next, Flat!LineDone, mem, pages
  <2>5. CASE SyntaxError
    BY <2>0, <2>5 DEF SyntaxError, memory, Flat!Next, Flat!End, mem, pages
  <2>6. CASE EndOfFile
    BY <2>0, <2>6 DEF EndOfFile, memory, Flat!Next, Flat!End, mem, pages
  <2>7. CASE UNCHANGED loadVars
    <3>1. UNCHANGED <<pageList, loading, addr, rest>>
      BY <2>7 DEF loadVars, memory
    <3> QED BY <2>0, <3>1 DEF Flat!vars, mem, pages
  <2> QED BY <2>1, <2>2, <2>3, <2>4, <2>5, <2>6, <2>7 DEF LoadNext
<1> QED BY <1>1, <1>2, ImageInit, ImageNext, PTL DEF LoadSpec, LoadsContents, Flat!Spec

(***************************************************************************)
(* The update                                                              *)
(***************************************************************************)

\* The pages f of a controller: of one firmware, or with one that was written wrong.
Uniform(f) == \E k \in {"old", "new"} : \A p \in Image : f[p] = k
Faulty(f)  == \E p \in Image : f[p] = "bad"

\* What the first page says about the others.
Protected ==
  \A c \in Ctrls : /\ flash[c][0] = "blank" \/ Faulty(flash[c]) \/ Uniform(flash[c])
                   /\ mode[c] = "appl" => flash[c][0] # "blank"

\* How far the controller is that is being flashed, unless its application has started.
Progress ==
  pc = "one" =>
    /\ step \in {"mode", "size", "blank"} => left = Image \ {0}
    /\ step = "pages" /\ mode[ctrl] = "boot" =>
         /\ flash[ctrl][0] \in {"blank", "bad"}
         /\ \A p \in (Image \ {0}) \ left : flash[ctrl][p] \in {"new", "bad"}

IInv == TypeOK /\ Protected /\ Progress

LEMMA InvInit == Init => IInv
<1> SUFFICES ASSUME Init PROVE IInv
  OBVIOUS
<1>1. PICK k \in {"old", "blank"} : flash = [c \in Ctrls |-> [p \in Pages |-> k]]
  BY DEF Init
<1>2. TypeOK
  <2>1. flash \in [Ctrls -> [Pages -> Contents]]
    BY <1>1 DEF Contents
  <2>2. mode \in [Ctrls -> {"appl", "boot"}]
    BY DEF Init, Booted
  <2>3. /\ handle \in [Ctrls -> BOOLEAN] /\ serialBL \in [Ctrls -> BOOLEAN]
        /\ told \in [Ctrls -> BOOLEAN]
    BY DEF Init
  <2>4. updates \in 0 .. MaxUpdates /\ restarts \in 0 .. MaxRestarts
    BY UpdateAssumption DEF Init
  <2>5. /\ DeviceList \subseteq Ctrls /\ target \in TARGETS /\ todo \subseteq Ctrls
        /\ ctrl \in Ctrls /\ left \subseteq Image \ {0}
    BY DEF Init
  <2>6. /\ pc = "idle" /\ step = "mode"
        /\ doFlash \in BOOLEAN /\ doRefresh \in BOOLEAN /\ quiet \in BOOLEAN
    BY DEF Init
  <2> QED BY <2>1, <2>2, <2>3, <2>4, <2>5, <2>6 DEF TypeOK
<1>3. Protected
  BY <1>1, UpdateAssumption DEF Init, Protected, Uniform, Booted
<1>4. Progress
  BY DEF Init, Progress
<1> QED BY <1>2, <1>3, <1>4 DEF IInv

(***************************************************************************)
(* Steps that write no page                                                *)
(***************************************************************************)

\* Whatever controller is restarted or put into its boot loader, the pages stay, and an
\* application runs only where the first page is programmed.
ApplKept == \A c \in Ctrls : mode'[c] = "appl" => mode[c] = "appl" \/ flash[c][0] # "blank"
BootKept ==
  \A c \in Ctrls :
    mode'[c] = "boot" =>
      mode[c] = "boot" \/ pc \in {"start", "leave"} \/ flash[c][0] = "blank"
ModesKept == ApplKept /\ BootKept

LEMMA KeepsProtected ==
  ASSUME IInv, UNCHANGED flash, ModesKept
  PROVE  Protected'
<1> SUFFICES ASSUME NEW c \in Ctrls
             PROVE  /\ flash[c][0] = "blank" \/ Faulty(flash'[c]) \/ Uniform(flash'[c])
                    /\ mode'[c] = "appl" => flash[c][0] # "blank"
  BY DEF Protected
<1>1. flash[c][0] = "blank" \/ Faulty(flash'[c]) \/ Uniform(flash'[c])
  BY DEF IInv, Protected, Uniform, Faulty
<1>2. mode[c] = "appl" => flash[c][0] # "blank"
  BY DEF IInv, Protected
<1>3. mode'[c] = "appl" => mode[c] = "appl" \/ flash[c][0] # "blank"
  BY DEF ModesKept, ApplKept
<1> QED BY <1>1, <1>2, <1>3

LEMMA KeepsProgress ==
  ASSUME IInv, UNCHANGED <<flash, pc, ctrl, step, left>>, ModesKept
  PROVE  Progress'
BY DEF IInv, TypeOK, Protected, Progress, ModesKept, BootKept

LEMMA RestartModes ==
  ASSUME IInv, NEW c \in Ctrls, Restarted(c)
  PROVE  /\ UNCHANGED flash /\ ModesKept /\ mode' \in [Ctrls -> {"appl", "boot"}]
BY DEF IInv, TypeOK, Restarted, Booted, ModesKept, ApplKept, BootKept

LEMMA BootModes ==
  ASSUME IInv, NEW c \in Ctrls, BootStarted(c), pc = "start"
  PROVE  /\ UNCHANGED flash /\ ModesKept /\ mode' \in [Ctrls -> {"appl", "boot"}]
BY DEF IInv, TypeOK, BootStarted, ModesKept, ApplKept, BootKept

LEMMA HandleType ==
  ASSUME TypeOK, NEW c \in Ctrls, OldHandle(c)
  PROVE  handle' \in [Ctrls -> BOOLEAN]
BY DEF TypeOK, OldHandle

(***************************************************************************)
(* Page writes                                                             *)
(***************************************************************************)

\* A write changes one page of a controller that runs its boot loader, or nothing.
LEMMA WriteCases ==
  ASSUME TypeOK, NEW c \in Ctrls, NEW p \in Image, NEW v \in {"new", "blank"},
         Written(c, p, v) \/ PartlyWritten(c, p, v)
  PROVE  /\ UNCHANGED <<mode, handle>>
         /\ \/ UNCHANGED flash
            \/ \E w \in {v, "blank", "bad"} :
                 mode[c] = "boot" /\ flash' = [flash EXCEPT ![c][p] = w]
<1>1. CASE mode[c] = "boot"
  BY <1>1 DEF Written, PartlyWritten, WrongWrites
<1>2. CASE mode[c] # "boot"
  BY <1>2 DEF TypeOK, Written, PartlyWritten
<1> QED BY <1>1, <1>2

LEMMA WriteType ==
  ASSUME TypeOK, NEW c \in Ctrls, NEW p \in Image, NEW v \in {"new", "blank"},
         Written(c, p, v) \/ PartlyWritten(c, p, v)
  PROVE  /\ flash' \in [Ctrls -> [Pages -> Contents]]
         /\ UNCHANGED <<mode, handle>>
<1>1. p \in Pages
  BY UpdateAssumption
<1>2. ASSUME NEW w \in {v, "blank", "bad"}
      PROVE  [flash EXCEPT ![c][p] = w] \in [Ctrls -> [Pages -> Contents]]
  BY <1>1 DEF TypeOK, Contents
<1>3. UNCHANGED <<mode, handle>>
  BY WriteCases
<1>4. flash \in [Ctrls -> [Pages -> Contents]]
  BY DEF TypeOK
<1>5. flash' = flash \/ \E w \in {v, "blank", "bad"} : flash' = [flash EXCEPT ![c][p] = w]
  BY WriteCases
<1>6. flash' \in [Ctrls -> [Pages -> Contents]]
  <2>1. CASE flash' = flash
    BY <1>4, <2>1
  <2>2. CASE \E w \in {v, "blank", "bad"} : flash' = [flash EXCEPT ![c][p] = w]
    <3>1. PICK w \in {v, "blank", "bad"} : flash' = [flash EXCEPT ![c][p] = w]
      BY <2>2
    <3> QED BY <1>2, <3>1
  <2> QED BY <1>5, <2>1, <2>2
<1> QED BY <1>3, <1>6

\* What is to be shown of the controller that is written to.
LEMMA OthersProtected ==
  ASSUME IInv, mode[ctrl] = "boot", mode' = mode,
         \A c \in Ctrls : c # ctrl => flash'[c] = flash[c],
         flash'[ctrl][0] = "blank" \/ Faulty(flash'[ctrl]) \/ Uniform(flash'[ctrl])
  PROVE  Protected'
<1> SUFFICES ASSUME NEW c \in Ctrls
             PROVE  /\ flash'[c][0] = "blank" \/ Faulty(flash'[c]) \/ Uniform(flash'[c])
                    /\ mode'[c] = "appl" => flash'[c][0] # "blank"
  BY DEF Protected
<1>1. CASE c = ctrl
  BY <1>1
<1>2. CASE c # ctrl
  BY <1>2 DEF IInv, Protected, Uniform, Faulty
<1> QED BY <1>1, <1>2

\* A page behind the first is written while the first is blank or wrong.
LEMMA PageKeepsProtected ==
  ASSUME IInv, pc = "one", step = "pages", NEW p \in left,
         Written(ctrl, p, "new") \/ PartlyWritten(ctrl, p, "new")
  PROVE  Protected'
<1>1. p \in Image /\ p # 0 /\ ctrl \in Ctrls /\ TypeOK /\ 0 \in Image
  BY UpdateAssumption DEF IInv, TypeOK
<1>2. CASE UNCHANGED flash
  BY <1>1, <1>2, WriteCases, KeepsProtected DEF ModesKept, ApplKept, BootKept
<1>3. CASE \E w \in {"new", "blank", "bad"} :
             mode[ctrl] = "boot" /\ flash' = [flash EXCEPT ![ctrl][p] = w]
  <2>1. PICK w \in {"new", "blank", "bad"} :
             mode[ctrl] = "boot" /\ flash' = [flash EXCEPT ![ctrl][p] = w]
    BY <1>3
  <2>2. flash[ctrl][0] \in {"blank", "bad"} /\ mode' = mode
    BY <1>1, <2>1, WriteCases DEF IInv, Progress
  <2>3. flash'[ctrl][0] = flash[ctrl][0]
    BY <1>1, <2>1 DEF TypeOK
  <2>4. \A c \in Ctrls : c # ctrl => flash'[c] = flash[c]
    BY <2>1 DEF IInv, TypeOK
  <2>5. flash'[ctrl][0] = "blank" \/ Faulty(flash'[ctrl])
    BY <1>1, <2>2, <2>3 DEF Faulty
  <2> QED BY <2>1, <2>2, <2>4, <2>5, OthersProtected
<1> QED BY <1>1, <1>2, <1>3, WriteCases

\* The first page is written with its contents when the others are.
LEMMA FirstKeepsProtected ==
  ASSUME IInv, pc = "one", step = "pages", left = {},
         Written(ctrl, 0, "new") \/ PartlyWritten(ctrl, 0, "new")
  PROVE  Protected'
<1>1. 0 \in Image /\ ctrl \in Ctrls /\ TypeOK /\ Image \subseteq Pages
  BY UpdateAssumption DEF IInv, TypeOK
<1>2. CASE UNCHANGED flash
  BY <1>1, <1>2, WriteCases, KeepsProtected DEF ModesKept, ApplKept, BootKept
<1>3. CASE \E w \in {"new", "blank", "bad"} :
             mode[ctrl] = "boot" /\ flash' = [flash EXCEPT ![ctrl][0] = w]
  <2>1. PICK w \in {"new", "blank", "bad"} :
             mode[ctrl] = "boot" /\ flash' = [flash EXCEPT ![ctrl][0] = w]
    BY <1>3
  <2>2. mode' = mode /\ \A p \in Image \ {0} : flash[ctrl][p] \in {"new", "bad"}
    BY <1>1, <2>1, WriteCases DEF IInv, Progress
  <2>3. flash'[ctrl][0] = w /\ \A p \in Image \ {0} : flash'[ctrl][p] = flash[ctrl][p]
    BY <1>1, <2>1 DEF TypeOK
  <2>4. \A c \in Ctrls : c # ctrl => flash'[c] = flash[c]
    BY <2>1 DEF IInv, TypeOK
  <2>5. flash'[ctrl][0] = "blank" \/ Faulty(flash'[ctrl]) \/ Uniform(flash'[ctrl])
    BY <1>1, <2>2, <2>3 DEF Faulty, Uniform
  <2> QED BY <2>1, <2>2, <2>4, <2>5, OthersProtected
<1> QED BY <1>1, <1>2, <1>3, WriteCases

\* The first page is made blank.
LEMMA BlankKeepsProtected ==
  ASSUME IInv, Written(ctrl, 0, BlankFirst) \/ PartlyWritten(ctrl, 0, BlankFirst)
  PROVE  Protected'
<1>1. 0 \in Image /\ ctrl \in Ctrls /\ TypeOK /\ BlankFirst = "blank" /\ Image \subseteq Pages
  BY UpdateAssumption DEF IInv, TypeOK, BlankFirst
<1>2. CASE UNCHANGED flash
  BY <1>1, <1>2, WriteCases, KeepsProtected DEF ModesKept, ApplKept, BootKept
<1>3. CASE \E w \in {"blank", "bad"} :
             mode[ctrl] = "boot" /\ flash' = [flash EXCEPT ![ctrl][0] = w]
  <2>1. PICK w \in {"blank", "bad"} :
             mode[ctrl] = "boot" /\ flash' = [flash EXCEPT ![ctrl][0] = w]
    BY <1>3
  <2>2. mode' = mode /\ flash'[ctrl][0] = w
    <3>1. mode' = mode
      BY <1>1, WriteCases
    <3>2. flash'[ctrl][0] = w
      BY <1>1, <2>1 DEF TypeOK
    <3> QED BY <3>1, <3>2
  <2>3. \A c \in Ctrls : c # ctrl => flash'[c] = flash[c]
    BY <2>1 DEF IInv, TypeOK
  <2>4. flash'[ctrl][0] = "blank" \/ Faulty(flash'[ctrl])
    BY <1>1, <2>1, <2>2 DEF Faulty
  <2> QED BY <2>1, <2>2, <2>3, <2>4, OthersProtected
<1> QED BY <1>1, <1>2, <1>3, WriteCases

(***************************************************************************)
(* Every step                                                              *)
(***************************************************************************)
LEMMA SameDevice ==
  ASSUME IInv, UNCHANGED <<flash, mode>>
  PROVE  ModesKept /\ Protected'
<1>1. ModesKept
  BY DEF ModesKept, ApplKept, BootKept, IInv, TypeOK
<1> QED BY <1>1, KeepsProtected

LEMMA ResetModes ==
  ASSUME IInv, NEW c \in Ctrls, AfterReset(c) \/ (Restarted(c) /\ OldHandle(c))
  PROVE  /\ UNCHANGED flash /\ ModesKept /\ mode' \in [Ctrls -> {"appl", "boot"}]
         /\ handle' \in [Ctrls -> BOOLEAN]
<1>1. Restarted(c) /\ TypeOK
  BY DEF AfterReset, IInv
<1>2. handle' \in [Ctrls -> BOOLEAN]
  <2>1. CASE OldHandle(c)
    BY <1>1, <2>1, HandleType
  <2>2. CASE UNCHANGED handle
    BY <1>1, <2>2 DEF TypeOK
  <2> QED BY <2>1, <2>2 DEF AfterReset
<1> QED BY <1>1, <1>2, RestartModes

LEMMA StartModes ==
  ASSUME IInv, NEW c \in Ctrls, BootStarted(c), pc = "start"
  PROVE  /\ UNCHANGED flash /\ ModesKept /\ mode' \in [Ctrls -> {"appl", "boot"}]
         /\ handle' \in [Ctrls -> BOOLEAN]
<1>1. TypeOK
  BY DEF IInv
<1>2. handle' \in [Ctrls -> BOOLEAN]
  <2>1. CASE OldHandle(c)
    BY <1>1, <2>1, HandleType
  <2>2. CASE UNCHANGED handle
    BY <1>1, <2>2 DEF TypeOK
  <2> QED BY <2>1, <2>2 DEF BootStarted
<1> QED BY <1>2, BootModes

LEMMA FindsType ==
  ASSUME TypeOK, NEW S \in SUBSET Ctrls, Finds(S)
  PROVE  /\ DeviceList' \subseteq Ctrls /\ UNCHANGED <<flash, mode>>
         /\ handle' \in [Ctrls -> BOOLEAN] /\ serialBL' \in [Ctrls -> BOOLEAN]
<1>1. serialBL' \in [Ctrls -> BOOLEAN]
  <2>1. \A c \in Ctrls : (IF c \in S /\ Usb THEN mode[c] = "boot" ELSE serialBL[c]) \in BOOLEAN
    BY DEF TypeOK
  <2> QED BY <2>1 DEF Finds
<1>2. handle' \in [Ctrls -> BOOLEAN]
  <2>1. \A c \in Ctrls : (handle[c] \/ c \in S) \in BOOLEAN
    OBVIOUS
  <2> QED BY <2>1 DEF Finds
<1> QED BY <1>1, <1>2 DEF Finds

\* An error message marks every controller.
LEMMA ShowsType == ASSUME ShowsError PROVE told' \in [Ctrls -> BOOLEAN] /\ quiet' \in BOOLEAN
BY DEF ShowsError

LEMMA InvNext == IInv /\ [Next]_vars => IInv'
<1> SUFFICES ASSUME IInv, [Next]_vars PROVE IInv'
  OBVIOUS
<1> USE DEF device, list, loop, flags, history
<1>a. TypeOK /\ Protected /\ Progress
  BY DEF IInv
<1>b. /\ 0 \in Image /\ Image \subseteq Pages /\ MaxUpdates \in Nat /\ MaxRestarts \in Nat
  BY UpdateAssumption
<1>1. CASE Start
  <2>1. TypeOK'
    <3>1. updates' \in 0 .. MaxUpdates
      BY <1>1, <1>a, <1>b DEF Start, TypeOK
    <3> QED BY <1>1, <1>a, <3>1 DEF Start, TypeOK
  <2>2. Protected' /\ Progress'
    BY <1>1, SameDevice DEF Start, Progress
  <2> QED BY <2>1, <2>2 DEF IInv
<1>2. CASE StartBootloader
  <2>1. PICK c \in todo :
          /\ \/ UNCHANGED <<device, doRefresh>>
             \/ BootStarted(c) /\ doRefresh' = Usb
          /\ IF todo = {c} THEN AfterStart ELSE pc' = "start" /\ todo' = todo \ {c}
    BY <1>2 DEF StartBootloader
  <2>2. c \in Ctrls /\ pc = "start"
    BY <1>2, <1>a DEF StartBootloader, TypeOK
  <2>3. /\ UNCHANGED flash /\ ModesKept /\ mode' \in [Ctrls -> {"appl", "boot"}]
        /\ handle' \in [Ctrls -> BOOLEAN]
    <3>1. CASE UNCHANGED device
      BY <1>a, <3>1, SameDevice DEF TypeOK
    <3>2. CASE BootStarted(c)
      BY <2>2, <3>2, StartModes
    <3> QED BY <2>1, <3>1, <3>2
  <2>4. /\ doRefresh' \in BOOLEAN
        /\ pc' \in {"start", "refresh", "each"} /\ todo' \subseteq Ctrls
    BY <1>2, <1>a, <2>1, <2>2 DEF StartBootloader, AfterStart, ToFlash, Usb, TypeOK
  <2>5. TypeOK'
    BY <1>2, <1>a, <2>3, <2>4 DEF StartBootloader, NoError, TypeOK
  <2>6. Protected' /\ Progress'
    BY <2>3, <2>4, KeepsProtected DEF Progress
  <2> QED BY <2>5, <2>6 DEF IInv
<1>3. CASE StartFails
  <2>1. PICK c \in todo : UNCHANGED device \/ BootStarted(c)
    BY <1>3 DEF StartFails
  <2>2. c \in Ctrls /\ pc = "start"
    BY <1>3, <1>a DEF StartFails, TypeOK
  <2>3. /\ UNCHANGED flash /\ ModesKept /\ mode' \in [Ctrls -> {"appl", "boot"}]
        /\ handle' \in [Ctrls -> BOOLEAN]
    <3>1. CASE UNCHANGED device
      BY <1>a, <3>1, SameDevice DEF TypeOK
    <3>2. CASE BootStarted(c)
      BY <2>2, <3>2, StartModes
    <3> QED BY <2>1, <3>1, <3>2
  <2>4. /\ doRefresh' \in BOOLEAN /\ pc' \in {"refresh", "each"} /\ todo' \subseteq Ctrls
    BY <1>3, <1>a DEF StartFails, AfterStart, ToFlash, Usb, TypeOK
  <2>5. TypeOK'
    BY <1>3, <1>a, <2>3, <2>4, ShowsType DEF StartFails, TypeOK
  <2>6. Protected' /\ Progress'
    BY <2>3, <2>4, KeepsProtected DEF Progress
  <2> QED BY <2>5, <2>6 DEF IInv
<1>4. CASE Refresh
  <2>1. PICK S \in SUBSET Ctrls : Finds(S)
    BY <1>4 DEF Refresh
  <2>2. TypeOK'
    BY <1>4, <1>a, <2>1, FindsType DEF Refresh, TypeOK
  <2>3. Protected' /\ Progress'
    BY <1>4, <1>a, <2>1, FindsType, SameDevice DEF Refresh, Progress
  <2> QED BY <2>2, <2>3 DEF IInv
<1>5. CASE Each
  <2>1. TypeOK'
    BY <1>5, <1>a DEF Each, PagesBetween, TypeOK
  <2>2. Protected' /\ Progress'
    BY <1>5, SameDevice DEF Each, PagesBetween, Progress
  <2> QED BY <2>1, <2>2 DEF IInv
<1>6. CASE EndOfFlash
  <2>1. TypeOK'
    BY <1>6, <1>a DEF EndOfFlash, TypeOK
  <2>2. Protected' /\ Progress'
    BY <1>6, SameDevice DEF EndOfFlash, Progress
  <2> QED BY <2>1, <2>2 DEF IInv
<1>7. CASE CheckMode
  <2>1. told' \in [Ctrls -> BOOLEAN] /\ quiet' \in BOOLEAN /\ doFlash' \in BOOLEAN
    BY <1>7, <1>a DEF CheckMode, ShowsError, TypeOK
  <2>2. TypeOK'
    BY <1>7, <1>a, <2>1 DEF CheckMode, One, Go, NextOne, TypeOK
  <2>3. Protected' /\ Progress'
    BY <1>7, <1>a, SameDevice DEF CheckMode, One, Go, NextOne, Progress
  <2> QED BY <2>2, <2>3 DEF IInv
<1>8. CASE PageSize
  <2>1. TypeOK'
    BY <1>8, <1>a DEF PageSize, One, Go, SameHistory, TypeOK
  <2>2. Protected' /\ Progress'
    BY <1>8, <1>a, SameDevice DEF PageSize, One, Go, Progress
  <2> QED BY <2>1, <2>2 DEF IInv
<1>9. CASE WriteBlank
  <2>1. ctrl \in Ctrls /\ BlankFirst = "blank" /\ pc = "one" /\ step = "blank"
    BY <1>9, <1>a DEF WriteBlank, One, BlankFirst, TypeOK
  <2>2. Written(ctrl, 0, "blank")
    BY <1>9, <2>1 DEF WriteBlank
  <2>3. flash' \in [Ctrls -> [Pages -> Contents]] /\ UNCHANGED <<mode, handle>>
    BY <1>a, <1>b, <2>1, <2>2, WriteType
  <2>4. TypeOK'
    BY <1>9, <1>a, <2>3 DEF WriteBlank, One, Go, SameHistory, TypeOK
  <2>5. Protected'
    BY <2>1, <2>2, BlankKeepsProtected
  <2>6. Progress'
    <3>1. left' = Image \ {0} /\ UNCHANGED ctrl /\ pc' = "one" /\ step' = "pages"
      BY <1>9, <1>a, <2>1 DEF WriteBlank, One, Go, Progress
    <3>2. mode'[ctrl] = "boot" => flash'[ctrl][0] \in {"blank", "bad"}
      BY <1>a, <1>b, <2>1, <2>2, <2>3 DEF Written, WrongWrites, TypeOK
    <3> QED BY <3>1, <3>2 DEF Progress
  <2> QED BY <2>4, <2>5, <2>6 DEF IInv
<1>10. CASE WritePage
  <2>1. PICK p \in left : Written(ctrl, p, "new") /\ left' = left \ {p}
    BY <1>10 DEF WritePage
  <2>2. ctrl \in Ctrls /\ p \in Image \ {0} /\ pc = "one" /\ step = "pages"
    BY <1>10, <1>a DEF WritePage, One, TypeOK
  <2>3. flash' \in [Ctrls -> [Pages -> Contents]] /\ UNCHANGED <<mode, handle>>
    BY <1>a, <2>1, <2>2, WriteType
  <2>4. TypeOK'
    BY <1>10, <1>a, <2>1, <2>3 DEF WritePage, One, Go, SameHistory, TypeOK
  <2>5. Protected'
    BY <2>1, <2>2, PageKeepsProtected
  <2>6. Progress'
    <3>1. left' = left \ {p} /\ UNCHANGED ctrl /\ pc' = "one" /\ step' = "pages"
      BY <1>10, <2>1 DEF WritePage, One, Go
    <3>2. SUFFICES ASSUME mode[ctrl] = "boot"
                   PROVE  /\ flash'[ctrl][0] \in {"blank", "bad"}
                          /\ \A q \in (Image \ {0}) \ left' : flash'[ctrl][q] \in {"new", "bad"}
      BY <2>3, <3>1 DEF Progress
    <3>3. PICK w \in {"new", "bad"} : flash' = [flash EXCEPT ![ctrl][p] = w]
      BY <2>1, <2>2, <3>2 DEF Written, WrongWrites
    <3>4. \A q \in Image : flash'[ctrl][q] = IF q = p THEN w ELSE flash[ctrl][q]
      BY <1>a, <1>b, <2>2, <3>3 DEF TypeOK
    <3>5. /\ flash[ctrl][0] \in {"blank", "bad"}
          /\ \A q \in (Image \ {0}) \ left : flash[ctrl][q] \in {"new", "bad"}
      BY <1>a, <2>2, <3>2 DEF Progress
    <3> QED BY <1>b, <2>2, <3>1, <3>4, <3>5
  <2> QED BY <2>4, <2>5, <2>6 DEF IInv
<1>11. CASE WriteFirst
  <2>1. ctrl \in Ctrls /\ pc = "one" /\ step = "pages" /\ left = {} /\ Written(ctrl, 0, "new")
    BY <1>11, <1>a DEF WriteFirst, AllWritten, One, TypeOK
  <2>2. flash' \in [Ctrls -> [Pages -> Contents]] /\ UNCHANGED <<mode, handle>>
    BY <1>a, <1>b, <2>1, WriteType
  <2>3. TypeOK'
    BY <1>11, <1>a, <2>2 DEF WriteFirst, One, Go, SameHistory, TypeOK
  <2>4. Protected'
    BY <2>1, FirstKeepsProtected
  <2>5. Progress'
    BY <1>11 DEF WriteFirst, Go, Progress
  <2> QED BY <2>3, <2>4, <2>5 DEF IInv
<1>12. CASE Verify
  <2>1. TypeOK'
    BY <1>12, <1>a DEF Verify, One, NextOne, SameHistory, TypeOK
  <2>2. Protected' /\ Progress'
    BY <1>12, SameDevice DEF Verify, NextOne, Progress
  <2> QED BY <2>1, <2>2 DEF IInv
<1>13. CASE VerifyFails
  <2>1. TypeOK'
    BY <1>13, <1>a, ShowsType DEF VerifyFails, One, NextOne, TypeOK
  <2>2. Protected' /\ Progress'
    BY <1>13, SameDevice DEF VerifyFails, NextOne, Progress
  <2> QED BY <2>1, <2>2 DEF IInv
<1>14. CASE FlashFails
  <2>1. ctrl \in Ctrls /\ pc = "one" /\ pc' = "each" /\ step' = step
    BY <1>14, <1>a DEF FlashFails, NextOne, TypeOK
  <2>2. \/ UNCHANGED device
        \/ PartlyWritten(ctrl, 0, BlankFirst)
        \/ step = "pages" /\ \E p \in left : PartlyWritten(ctrl, p, "new")
        \/ step = "pages" /\ left = {} /\ PartlyWritten(ctrl, 0, "new")
    BY <1>14 DEF FlashFails, AllWritten
  <2>3. /\ flash' \in [Ctrls -> [Pages -> Contents]] /\ UNCHANGED <<mode, handle>>
        /\ Protected'
    <3>1. CASE UNCHANGED device
      BY <1>a, <3>1, SameDevice DEF TypeOK
    <3>2. CASE PartlyWritten(ctrl, 0, BlankFirst)
      <4>1. BlankFirst \in {"new", "blank"}
        BY DEF BlankFirst
      <4> QED BY <1>a, <1>b, <2>1, <3>2, <4>1, WriteType, BlankKeepsProtected
    <3>3. CASE step = "pages" /\ \E p \in left : PartlyWritten(ctrl, p, "new")
      <4>1. PICK p \in left : PartlyWritten(ctrl, p, "new")
        BY <3>3
      <4>2. p \in Image
        BY <1>a DEF TypeOK
      <4> QED BY <1>a, <2>1, <3>3, <4>1, <4>2, WriteType, PageKeepsProtected
    <3>4. CASE step = "pages" /\ left = {} /\ PartlyWritten(ctrl, 0, "new")
      BY <1>a, <1>b, <2>1, <3>4, WriteType, FirstKeepsProtected
    <3> QED BY <2>2, <3>1, <3>2, <3>3, <3>4
  <2>4. TypeOK'
    BY <1>14, <1>a, <2>1, <2>3, ShowsType DEF FlashFails, TypeOK
  <2>5. Progress'
    BY <2>1 DEF Progress
  <2> QED BY <2>3, <2>4, <2>5 DEF IInv
<1>15. CASE Leave
  <2>1. PICK c \in todo :
          /\ todo' = todo \ {c}
          /\ NoError \/ ShowsError
          /\ UNCHANGED device \/ AfterReset(c)
    BY <1>15 DEF Leave
  <2>2. c \in Ctrls
    BY <1>a DEF TypeOK
  <2>3. /\ UNCHANGED flash /\ ModesKept /\ mode' \in [Ctrls -> {"appl", "boot"}]
        /\ handle' \in [Ctrls -> BOOLEAN]
    <3>1. CASE UNCHANGED device
      BY <1>a, <3>1, SameDevice DEF TypeOK
    <3>2. CASE AfterReset(c)
      BY <2>2, <3>2, ResetModes
    <3> QED BY <2>1, <3>1, <3>2
  <2>4. told' \in [Ctrls -> BOOLEAN] /\ quiet' \in BOOLEAN
    BY <1>a, <2>1, ShowsType DEF NoError, TypeOK
  <2>5. TypeOK'
    BY <1>15, <1>a, <2>1, <2>3, <2>4 DEF Leave, TypeOK
  <2>6. Protected' /\ Progress'
    BY <1>15, <2>3, KeepsProtected DEF Leave, Progress
  <2> QED BY <2>5, <2>6 DEF IInv
<1>16. CASE Finish
  <2>1. PICK S \in SUBSET Ctrls : Finds(S)
    BY <1>16 DEF Finish
  <2>2. TypeOK'
    BY <1>16, <1>a, <2>1, FindsType DEF Finish, TypeOK
  <2>3. Protected' /\ Progress'
    BY <1>16, <1>a, <2>1, FindsType, SameDevice DEF Finish, Progress
  <2> QED BY <2>2, <2>3 DEF IInv
<1>17. CASE Restart
  <2>1. PICK c \in Ctrls : AfterReset(c) \/ (Restarted(c) /\ OldHandle(c))
    BY <1>17 DEF Restart
  <2>2. /\ UNCHANGED flash /\ ModesKept /\ mode' \in [Ctrls -> {"appl", "boot"}]
        /\ handle' \in [Ctrls -> BOOLEAN]
    BY <2>1, ResetModes
  <2>3. restarts' \in 0 .. MaxRestarts
    BY <1>17, <1>a, <1>b DEF Restart, TypeOK
  <2>4. TypeOK'
    BY <1>17, <1>a, <2>2, <2>3 DEF Restart, TypeOK
  <2>5. Protected'
    BY <2>2, KeepsProtected
  <2>6. Progress'
    BY <1>17, <2>2, KeepsProgress DEF Restart
  <2> QED BY <2>4, <2>5, <2>6 DEF IInv
<1>18. CASE UNCHANGED vars
  <2>1. TypeOK'
    BY <1>18, <1>a DEF vars, TypeOK
  <2>2. Protected' /\ Progress'
    BY <1>18, SameDevice, KeepsProgress DEF vars
  <2> QED BY <2>1, <2>2 DEF IInv
<1> QED BY <1>1, <1>2, <1>3, <1>4, <1>5, <1>6, <1>7, <1>8, <1>9, <1>10, <1>11, <1>12, <1>13,
           <1>14, <1>15, <1>16, <1>17, <1>18 DEF Next

\* The values of the variables, for any number of controllers, pages and updates.
THEOREM UpdateType == Spec => []TypeOK
<1>1. IInv => TypeOK
  BY DEF IInv
<1> QED BY <1>1, InvInit, InvNext, PTL DEF Spec

\* No application runs that is a mixture of two firmwares, wherever an update broke off.
THEOREM UpdateNeverMixed == Spec => []NeverMixed
<1>1. IInv => NeverMixed
  BY DEF IInv, Protected, Uniform, Faulty, NeverMixed
<1> QED BY <1>1, InvInit, InvNext, PTL DEF Spec

(***************************************************************************)
(* What the update says of the controllers                                 *)
(***************************************************************************)

\* A controller that was written to without an error since then has been verified, or is
\* the one that is being flashed.
WrittenIsVerified ==
  \A c \in Ctrls :
    \/ told[c]
    \/ pc = "one" /\ ctrl = c /\ step \in {"pages", "verify"}
    \/ Equal(flash[c])

\* How far an update is that has shown no error: the controllers of the list that the loop
\* has done are verified, the boot loader that wrote them is known, and in the end their
\* applications run.
VerifiedBoot(c) == Equal(flash[c]) /\ (Usb => serialBL[c])
QuietSoFar ==
  quiet /\ pc # "idle" =>
    /\ doFlash
    /\ pc = "each" => \A c \in DeviceList \ todo : VerifiedBoot(c)
    /\ pc = "one"  => /\ \A c \in DeviceList \ (todo \cup {ctrl}) : VerifiedBoot(c)
                      /\ step # "mode" => (Usb => serialBL[ctrl])
    /\ pc = "leave" => \A c \in DeviceList :
                         VerifiedBoot(c) /\ (c \notin todo => mode[c] = "appl")

HonestInv == IInv /\ WrittenIsVerified /\ QuietSoFar

LEMMA HonestInit == Init => HonestInv
<1> SUFFICES ASSUME Init PROVE HonestInv
  OBVIOUS
<1>1. WrittenIsVerified
  BY DEF Init, WrittenIsVerified
<1>2. QuietSoFar
  BY DEF Init, QuietSoFar
<1> QED BY <1>1, <1>2, InvInit DEF HonestInv

\* The pages stay, and so does what is known of them.
LEMMA KeepsVerified ==
  ASSUME WrittenIsVerified, UNCHANGED flash,
         told' = told \/ ShowsError,
         pc = "one" /\ step \in {"pages", "verify"} =>
           UNCHANGED <<pc, ctrl, step>> \/ Equal(flash[ctrl]) \/ ShowsError
  PROVE  WrittenIsVerified'
BY DEF WrittenIsVerified, Equal, ShowsError

\* A write to the controller that is being flashed.
LEMMA WritesOne ==
  ASSUME HonestInv, NEW p \in Image, NEW v \in {"new", "blank"},
         Written(ctrl, p, v) \/ PartlyWritten(ctrl, p, v)
  PROVE  mode' = mode /\ \A c \in Ctrls : c # ctrl => flash'[c] = flash[c]
<1>1. TypeOK /\ ctrl \in Ctrls
  BY DEF HonestInv, IInv, TypeOK
<1>2. mode' = mode /\ \/ UNCHANGED flash
                      \/ \E w \in {v, "blank", "bad"} : flash' = [flash EXCEPT ![ctrl][p] = w]
  BY <1>1, WriteCases
<1>3. CASE UNCHANGED flash
  BY <1>2, <1>3
<1>4. CASE \E w \in {v, "blank", "bad"} : flash' = [flash EXCEPT ![ctrl][p] = w]
  BY <1>1, <1>2, <1>4 DEF TypeOK
<1> QED BY <1>2, <1>3, <1>4

LEMMA WriteKeepsHonest ==
  ASSUME HonestInv, NEW p \in Image, NEW v \in {"new", "blank"}, Written(ctrl, p, v),
         pc = "one", step # "mode", pc' = "one", step' \in {"pages", "verify"},
         told' = [told EXCEPT ![ctrl] = FALSE],
         UNCHANGED <<list, target, todo, ctrl, doFlash, quiet>>
  PROVE  WrittenIsVerified' /\ QuietSoFar'
<1> USE DEF list
<1>1. \A c \in Ctrls : c # ctrl => flash'[c] = flash[c] /\ told'[c] = told[c]
  BY WritesOne DEF HonestInv, IInv, TypeOK
<1>2. WrittenIsVerified'
  BY <1>1 DEF HonestInv, WrittenIsVerified, Equal
<1>3. QuietSoFar'
  <2>1. \A c \in DeviceList : c \in Ctrls
    BY DEF HonestInv, IInv, TypeOK
  <2> QED BY <1>1, <2>1 DEF HonestInv, QuietSoFar, VerifiedBoot, Equal, Usb
<1> QED BY <1>2, <1>3

LEMMA HonestNext == HonestInv /\ [Next]_vars => HonestInv'
<1> SUFFICES ASSUME HonestInv, [Next]_vars PROVE WrittenIsVerified' /\ QuietSoFar'
  BY InvNext DEF HonestInv
<1> USE DEF device, list, loop, flags, history
<1>a. TypeOK /\ WrittenIsVerified /\ QuietSoFar /\ 0 \in Image /\ DeviceList \subseteq Ctrls
  BY UpdateAssumption DEF HonestInv, IInv, TypeOK
<1>1. CASE Start
  <2>1. WrittenIsVerified'
    BY <1>1, <1>a, KeepsVerified DEF Start
  <2>2. QuietSoFar'
    BY <1>1 DEF Start, QuietSoFar
  <2> QED BY <2>1, <2>2
<1>2. CASE StartBootloader
  <2>1. UNCHANGED <<flash, told, quiet, DeviceList, doFlash>> /\ pc = "start"
    BY <1>2 DEF StartBootloader, BootStarted, NoError
  <2>2. pc' \in {"start", "refresh", "each"} /\ (pc' = "each" => todo' = DeviceList)
    <3>1. PICK c \in todo : IF todo = {c} THEN AfterStart ELSE pc' = "start" /\ todo' = todo \ {c}
      BY <1>2 DEF StartBootloader
    <3> QED BY <2>1, <3>1 DEF AfterStart, ToFlash
  <2>3. WrittenIsVerified'
    BY <1>a, <2>1, KeepsVerified
  <2>4. QuietSoFar'
    BY <1>a, <2>1, <2>2 DEF QuietSoFar
  <2> QED BY <2>3, <2>4
<1>3. CASE StartFails
  <2>1. UNCHANGED flash /\ ShowsError /\ pc = "start"
    BY <1>3 DEF StartFails, BootStarted
  <2>2. WrittenIsVerified'
    BY <1>a, <2>1, KeepsVerified
  <2>3. QuietSoFar'
    BY <2>1 DEF QuietSoFar, ShowsError
  <2> QED BY <2>2, <2>3
<1>4. CASE Refresh
  <2>1. UNCHANGED <<flash, told, quiet, doFlash>> /\ pc = "refresh" /\ pc' = "each" /\ todo' = DeviceList'
    BY <1>4 DEF Refresh, Finds
  <2>2. WrittenIsVerified'
    BY <1>a, <2>1, KeepsVerified
  <2>3. QuietSoFar'
    BY <1>a, <2>1 DEF QuietSoFar
  <2> QED BY <2>2, <2>3
<1>5. CASE Each
  <2>1. /\ UNCHANGED <<flash, told, quiet, doFlash, DeviceList, serialBL, target>>
        /\ pc = "each" /\ pc' = "one" /\ step' = "mode"
        /\ todo' = todo \ {ctrl'} /\ ctrl' \in todo
    BY <1>5 DEF Each
  <2>2. WrittenIsVerified'
    BY <1>a, <2>1, KeepsVerified
  <2>3. QuietSoFar'
    BY <1>a, <2>1 DEF QuietSoFar, VerifiedBoot, Equal, Usb
  <2> QED BY <2>2, <2>3
<1>6. CASE EndOfFlash
  <2>1. /\ UNCHANGED <<flash, told, quiet, doFlash, DeviceList, serialBL, target>>
        /\ pc = "each" /\ todo = {} /\ pc' = "leave" /\ todo' = DeviceList
    BY <1>6 DEF EndOfFlash
  <2>2. WrittenIsVerified'
    BY <1>a, <2>1, KeepsVerified
  <2>3. QuietSoFar'
    BY <1>a, <2>1 DEF QuietSoFar, VerifiedBoot, Equal, Usb
  <2> QED BY <2>2, <2>3
<1>7. CASE CheckMode
  <2>1. /\ UNCHANGED <<flash, DeviceList, serialBL, target, todo, ctrl>>
        /\ pc = "one" /\ step = "mode"
    BY <1>7 DEF CheckMode, One
  <2>2. CASE ShowsError
    <3>1. WrittenIsVerified'
      BY <1>a, <2>1, <2>2, KeepsVerified
    <3> QED BY <2>2, <3>1 DEF QuietSoFar, ShowsError
  <2>3. CASE ~ShowsError
    <3>1. /\ InBoot(ctrl) /\ UNCHANGED <<doFlash, quiet, told>>
          /\ IF doFlash THEN Go("size") ELSE NextOne
      BY <1>7, <2>3 DEF CheckMode
    <3>2. WrittenIsVerified'
      BY <1>a, <2>1, <3>1, KeepsVerified
    <3>3. QuietSoFar'
      BY <1>a, <2>1, <3>1 DEF QuietSoFar, VerifiedBoot, Equal, Usb, InBoot, Go
    <3> QED BY <3>2, <3>3
  <2> QED BY <2>2, <2>3
<1>8. CASE PageSize
  <2>1. /\ UNCHANGED <<flash, told, quiet, doFlash, DeviceList, serialBL, target, todo, ctrl>>
        /\ pc = "one" /\ step = "size" /\ pc' = "one" /\ step' = "blank"
    BY <1>8 DEF PageSize, One, Go, SameHistory
  <2>2. WrittenIsVerified'
    BY <1>a, <2>1, KeepsVerified
  <2>3. QuietSoFar'
    BY <1>a, <2>1 DEF QuietSoFar, VerifiedBoot, Equal, Usb
  <2> QED BY <2>2, <2>3
<1>9. CASE WriteBlank
  <2>1. /\ pc = "one" /\ step = "blank" /\ pc' = "one" /\ step' = "pages"
        /\ told' = [told EXCEPT ![ctrl] = FALSE]
        /\ UNCHANGED <<list, target, todo, ctrl, doFlash, quiet>>
        /\ Written(ctrl, 0, "blank")
    BY <1>9 DEF WriteBlank, One, Go, SameHistory, BlankFirst
  <2> QED BY <1>a, <2>1, WriteKeepsHonest
<1>10. CASE WritePage
  <2>1. PICK p \in left : Written(ctrl, p, "new")
    BY <1>10 DEF WritePage
  <2>2. /\ pc = "one" /\ step = "pages" /\ pc' = "one" /\ step' = "pages"
        /\ told' = [told EXCEPT ![ctrl] = FALSE]
        /\ UNCHANGED <<list, target, todo, ctrl, doFlash, quiet>>
    BY <1>10 DEF WritePage, One, Go, SameHistory
  <2>3. p \in Image
    BY <1>a DEF TypeOK
  <2> QED BY <2>1, <2>2, <2>3, WriteKeepsHonest
<1>11. CASE WriteFirst
  <2>1. /\ pc = "one" /\ step = "pages" /\ pc' = "one" /\ step' = "verify"
        /\ told' = [told EXCEPT ![ctrl] = FALSE]
        /\ UNCHANGED <<list, target, todo, ctrl, doFlash, quiet>>
        /\ Written(ctrl, 0, "new")
    BY <1>11 DEF WriteFirst, One, Go, SameHistory
  <2> QED BY <1>a, <2>1, WriteKeepsHonest
<1>12. CASE Verify
  <2>1. /\ UNCHANGED <<flash, told, quiet, doFlash, DeviceList, serialBL, target, todo, ctrl>>
        /\ pc = "one" /\ step = "verify" /\ pc' = "each" /\ Equal(flash[ctrl])
    BY <1>12 DEF Verify, One, NextOne, SameHistory
  <2>2. WrittenIsVerified'
    BY <1>a, <2>1, KeepsVerified
  <2>3. QuietSoFar'
    BY <1>a, <2>1 DEF QuietSoFar, VerifiedBoot, Equal, Usb
  <2> QED BY <2>2, <2>3
<1>13. CASE VerifyFails
  <2>1. UNCHANGED flash /\ ShowsError
    BY <1>13 DEF VerifyFails
  <2>2. WrittenIsVerified'
    BY <1>a, <2>1, KeepsVerified
  <2> QED BY <2>1, <2>2 DEF QuietSoFar, ShowsError
<1>14. CASE FlashFails
  <2>1. ShowsError
    BY <1>14 DEF FlashFails
  <2> QED BY <2>1 DEF WrittenIsVerified, QuietSoFar, ShowsError
<1>15. CASE Leave
  <2>1. PICK c \in todo :
          /\ todo' = todo \ {c}
          /\ \/ /\ ~InBoot(c) /\ (Usb \/ handle[c])
                /\ NoError /\ UNCHANGED device
             \/ /\ InBoot(c) /\ handle[c] /\ mode[c] = "boot"
                /\ AfterReset(c) /\ NoError
             \/ ShowsError
          /\ UNCHANGED device \/ AfterReset(c)
    BY <1>15 DEF Leave
  <2>2. /\ UNCHANGED <<flash, pc, DeviceList, serialBL, target, doFlash>> /\ pc = "leave"
        /\ c \in Ctrls
    BY <1>15, <1>a, <2>1 DEF Leave, AfterReset, Restarted, TypeOK
  <2>3. WrittenIsVerified'
    BY <1>a, <2>1, <2>2, KeepsVerified DEF NoError
  <2>4. QuietSoFar'
    <3> SUFFICES ASSUME quiet'
                 PROVE  /\ doFlash
                        /\ \A d \in DeviceList :
                             VerifiedBoot(d)' /\ (d \notin todo' => mode'[d] = "appl")
      BY <2>2 DEF QuietSoFar
    <3>1. NoError /\ quiet
      BY <2>1 DEF NoError, ShowsError
    <3>2. doFlash /\ \A d \in DeviceList :
                        VerifiedBoot(d) /\ (d \notin todo => mode[d] = "appl")
      BY <1>a, <2>2, <3>1 DEF QuietSoFar
    <3>3. \A d \in DeviceList : VerifiedBoot(d)'
      BY <2>2, <3>2 DEF VerifiedBoot, Equal, Usb
    <3>4. ASSUME NEW d \in DeviceList, d \notin todo' PROVE mode'[d] = "appl"
      <4>1. d \in Ctrls /\ flash[d][0] = "new"
        BY <1>a, <3>2 DEF VerifiedBoot, Equal
      <4>2. CASE d = c
        <5>1. CASE AfterReset(c)
          BY <1>a, <4>1, <4>2, <5>1 DEF AfterReset, Restarted, Booted, TypeOK
        <5>2. CASE ~AfterReset(c)
          <6>1. ~InBoot(c) /\ UNCHANGED mode
            BY <2>1, <3>1, <5>2 DEF NoError, ShowsError
          <6> QED BY <1>a, <3>2, <4>1, <4>2, <6>1 DEF InBoot, VerifiedBoot, TypeOK
        <5> QED BY <5>1, <5>2
      <4>3. CASE d # c
        <5>1. mode[d] = "appl"
          BY <2>1, <3>2, <3>4, <4>3
        <5>2. mode'[d] = mode[d]
          BY <1>a, <2>1, <4>1, <4>3 DEF AfterReset, Restarted, TypeOK
        <5> QED BY <5>1, <5>2
      <4> QED BY <4>2, <4>3
    <3> QED BY <3>2, <3>3, <3>4
  <2> QED BY <2>3, <2>4
<1>16. CASE Finish
  <2>1. UNCHANGED <<flash, told>> /\ pc = "leave" /\ pc' = "idle"
    BY <1>16 DEF Finish, Finds
  <2>2. WrittenIsVerified'
    BY <1>a, <2>1, KeepsVerified
  <2> QED BY <2>1, <2>2 DEF QuietSoFar
<1>17. CASE Restart
  <2>1. PICK c \in Ctrls : Restarted(c)
    BY <1>17 DEF Restart, AfterReset
  <2>2. UNCHANGED <<flash, told, quiet, doFlash, DeviceList, serialBL, target, todo, ctrl, pc, step>>
    BY <1>17, <2>1 DEF Restart, Restarted
  <2>3. WrittenIsVerified'
    BY <1>a, <2>2, KeepsVerified
  <2>4. \A d \in Ctrls : flash[d][0] = "new" /\ mode[d] = "appl" => mode'[d] = "appl"
    BY <1>a, <2>1 DEF Restarted, Booted, TypeOK
  <2>5. \A d \in DeviceList : VerifiedBoot(d) => d \in Ctrls /\ flash[d][0] = "new"
    BY <1>a DEF VerifiedBoot, Equal
  <2>6. QuietSoFar'
    BY <1>a, <2>2, <2>4, <2>5 DEF QuietSoFar, VerifiedBoot, Equal, Usb
  <2> QED BY <2>3, <2>6
<1>18. CASE UNCHANGED vars
  BY <1>18, <1>a DEF vars, WrittenIsVerified, QuietSoFar, VerifiedBoot, Equal, Usb
<1> QED BY <1>1, <1>2, <1>3, <1>4, <1>5, <1>6, <1>7, <1>8, <1>9, <1>10, <1>11, <1>12, <1>13,
           <1>14, <1>15, <1>16, <1>17, <1>18 DEF Next

\* An update never leaves an application with a wrong page without a message, and one that
\* ends without a message has flashed and started every controller in the list.
THEOREM UpdateHonest == Spec => []UpdateIsHonest
<1>1. HonestInv => UpdateIsHonest
  <2> SUFFICES ASSUME HonestInv PROVE FaultIsTold /\ QuietIsComplete
    BY DEF UpdateIsHonest
  <2>1. FaultIsTold
    BY DEF HonestInv, WrittenIsVerified, Equal, FaultIsTold
  <2>2. QuietIsComplete
    BY DEF HonestInv, QuietSoFar, VerifiedBoot, Equal, QuietIsComplete
  <2> QED BY <2>1, <2>2
<1> QED BY <1>1, HonestInit, HonestNext, PTL DEF Spec

(***************************************************************************)
(* Firmware file and update                                                *)
(***************************************************************************)

\* The values of the variables of both parts, in whichever a behaviour is about.
THEOREM FirmwareType == MCSpec => []MCTypeOK
<1>1. MCInit => IInv /\ ImageInv
  BY InvInit, ImageInit DEF MCInit
<1>2. IInv /\ ImageInv /\ [MCNext]_<<vars, loadVars, part>> => (IInv /\ ImageInv)'
  <2> SUFFICES ASSUME IInv, ImageInv, [MCNext]_<<vars, loadVars, part>>
               PROVE  IInv' /\ ImageInv'
    OBVIOUS
  <2>1. [Next]_vars /\ [LoadNext]_loadVars
    BY DEF MCNext
  <2> QED BY <2>1, InvNext, ImageNext
<1>3. IInv /\ ImageInv => MCTypeOK
  BY DEF IInv, ImageInv, MCTypeOK
<1> QED BY <1>1, <1>2, <1>3, PTL DEF MCSpec
================================================================================
