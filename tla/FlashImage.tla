------------------------------ MODULE FlashImage ------------------------------
(***************************************************************************)
(* Loading a firmware file (df10ch_setup_pkg/firmware.py, classes          *)
(* FlashPage and FlashMem): lines of Intel hex records and the line with   *)
(* target and version.  The bytes go to pages that are created when a byte *)
(* of them comes, in any order of the addresses; the page looked up last   *)
(* is remembered.                                                          *)
(***************************************************************************)
EXTENDS Integers, Sequences

CONSTANTS pageSize,
          MaxAddr,              \* bound: addresses
          MaxLine,              \* bound: bytes of a line
          Values, BLANK,        \* of a byte; BLANK is 0xFF
          BAD,                  \* two characters that are no hexadecimal number
          targetInfoMustExist

ASSUME FlashAssumption ==
  /\ pageSize \in Nat \ {0} /\ MaxAddr \in Nat /\ MaxLine \in Nat
  /\ BLANK \in Values /\ BAD \notin Values
  /\ targetInfoMustExist \in BOOLEAN

Addrs == 0 .. MaxAddr
Base(a) == a - (a % pageSize)
Offset(a) == a % pageSize
Offsets == 0 .. pageSize - 1

VARIABLES
  pageList,         \* the pages in the order they were created
  lastLookupPage,   \* index of a page, 0 for None
  targetInfo,       \* target and version were read
  loading,          \* "read", "insert" (in the loop over a line), "loaded" or "failed"
  addr, rest        \* of that loop: the next address, the bytes still to insert

memory == <<pageList, lastLookupPage>>
loadVars == <<memory, targetInfo, loading, addr, rest>>

FlashPages == [baseAddr : {Base(a) : a \in Addrs}, data : [Offsets -> Values]]

\* FlashPage.__init__
\* Mutant: the address is not rounded down.
NewPage_Raw(a) == [baseAddr |-> a, data |-> [o \in Offsets |-> BLANK]]
NewPage(a) == [baseAddr |-> Base(a), data |-> [o \in Offsets |-> BLANK]]

LoadInit ==
  /\ pageList = <<>> /\ lastLookupPage = 0 /\ targetInfo = FALSE
  /\ loading = "read" /\ addr = 0 /\ rest = <<>>

\* getPageForAddr
\* Mutant: the remembered page is taken without a look at its address.
Remembered_Any(a) == lastLookupPage # 0
Remembered(a) == lastLookupPage # 0 /\ pageList[lastLookupPage].baseAddr = Base(a)

\* FlashPage.insert
Inserted(page, a, v) == [page EXCEPT !.data[Offset(a)] = v]

\* Mutant: a page is searched among those before the last.
Found_NotLast(a) == {i \in 1 .. Len(pageList) - 1 : pageList[i].baseAddr = Base(a)}
Found(a) == {i \in DOMAIN pageList : pageList[i].baseAddr = Base(a)}

\* FlashMem.insert
Insert(a, v) ==
  \/ /\ Remembered(a)
     /\ pageList' = [pageList EXCEPT ![lastLookupPage] = Inserted(@, a, v)]
     /\ UNCHANGED lastLookupPage
  \/ /\ ~Remembered(a)
     /\ \E i \in Found(a) :
          /\ pageList' = [pageList EXCEPT ![i] = Inserted(@, a, v)]
          /\ lastLookupPage' = i
  \/ /\ ~Remembered(a) /\ Found(a) = {}
     /\ pageList' = Append(pageList, Inserted(NewPage(a), a, v))
     /\ UNCHANGED lastLookupPage

(***************************************************************************)
(* loadFromHexFile: one line; empty lines and comments change nothing      *)
(***************************************************************************)
TargetLine ==
  /\ loading = "read" /\ targetInfo' = TRUE
  /\ UNCHANGED <<memory, loading, addr, rest>>

DataLine ==
  /\ loading = "read"
  /\ \E n \in 0 .. MaxLine : rest' \in [1 .. n -> Values \cup {BAD}]
  /\ addr' \in Addrs /\ addr' + Len(rest') - 1 <= MaxAddr
  /\ loading' = "insert"
  /\ UNCHANGED <<memory, targetInfo>>

InsertByte ==
  /\ loading = "insert" /\ rest # <<>> /\ Head(rest) # BAD
  /\ Insert(addr, Head(rest))
  /\ addr' = addr + 1 /\ rest' = Tail(rest)
  /\ UNCHANGED <<targetInfo, loading>>

EndOfLine ==
  /\ loading = "insert" /\ rest = <<>>
  /\ loading' = "read"
  /\ UNCHANGED <<memory, targetInfo, addr, rest>>

\* A line that is too short or not of this form, or a byte that is no number, after the
\* bytes before it were inserted; or the file cannot be read on.
SyntaxError ==
  /\ loading \in {"read", "insert"}
  /\ loading = "insert" => rest # <<>> /\ Head(rest) = BAD
  /\ loading' = "failed"
  /\ UNCHANGED <<memory, targetInfo, addr, rest>>

Complete == targetInfoMustExist => targetInfo

\* The end of the file, or a record that is not of type 0.
EndOfFile ==
  /\ loading = "read"
  /\ loading' = IF Complete THEN "loaded" ELSE "failed"
  /\ UNCHANGED <<memory, targetInfo, addr, rest>>

LoadNext == TargetLine \/ DataLine \/ InsertByte \/ EndOfLine \/ SyntaxError \/ EndOfFile
LoadSpec == LoadInit /\ [][LoadNext]_loadVars

(***************************************************************************)
(* Properties                                                              *)
(***************************************************************************)

\* The values of the variables; the pages begin at multiples of their size.
ImageTypeOK ==
  /\ pageList \in Seq(FlashPages) /\ lastLookupPage \in 0 .. Len(pageList)
  /\ targetInfo \in BOOLEAN /\ loading \in {"read", "insert", "loaded", "failed"}
  /\ addr \in Nat /\ rest \in Seq(Values \cup {BAD})
  /\ loading = "insert" => addr + Len(rest) - 1 <= MaxAddr

\* FlashMem.insert: no page is in the list twice, though it is created wherever the
\* search fails; the update would flash the second over the first.
PagesDistinct ==
  \A i, j \in DOMAIN pageList : pageList[i].baseAddr = pageList[j].baseAddr => i = j

\* The contents the pages stand for.
PageOf(a) == {i \in DOMAIN pageList : pageList[i].baseAddr = Base(a)}
Content(a) ==
  IF PageOf(a) = {} THEN BLANK
  ELSE pageList[CHOOSE i \in PageOf(a) : TRUE].data[Offset(a)]

Flat == INSTANCE FlashContents
  WITH mem    <- [a \in Addrs |-> Content(a)],
       pages  <- {pageList[i].baseAddr : i \in DOMAIN pageList},
       status <- loading

\* FlashMem: every byte of the file is, at the end, where its address says, with the last
\* value the file gave it, whatever the order of the lines and the lookups; all other
\* bytes of the pages are blank, and no page is touched that the file does not write to.
LoadsContents == Flat!Spec
===============================================================================
