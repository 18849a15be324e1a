---------------------------- MODULE FlashContents ----------------------------
(***************************************************************************)
(* What loading a firmware file is to produce (df10ch_setup_pkg/           *)
(* firmware.py, class FlashMem), without pages and lookups: the contents   *)
(* of the flash memory, blank where the file says nothing, and the set of  *)
(* pages that are to be flashed.                                           *)
(***************************************************************************)
EXTENDS Integers, Sequences

CONSTANTS pageSize, MaxAddr, MaxLine, Values, BLANK, BAD

Addrs == 0 .. MaxAddr
Base(a) == a - (a % pageSize)

VARIABLES mem,          \* the contents
          pages,        \* base addresses of the pages the file writes to
          status,       \* "read", "insert", "loaded" or "failed"
          addr, rest    \* the bytes of the line that are still to come, and their address

vars == <<mem, pages, status, addr, rest>>

Init == /\ mem = [a \in Addrs |-> BLANK] /\ pages = {}
        /\ status = "read" /\ addr = 0 /\ rest = <<>>

Line == /\ status = "read" /\ status' = "insert"
        /\ \E n \in 0 .. MaxLine : rest' \in [1 .. n -> Values \cup {BAD}]
        /\ addr' \in Addrs /\ addr' + Len(rest') - 1 <= MaxAddr
        /\ UNCHANGED <<mem, pages>>

Put == /\ status = "insert" /\ rest # <<>> /\ Head(rest) # BAD
       /\ mem' = [mem EXCEPT ![addr] = Head(rest)]
       /\ pages' = pages \cup {Base(addr)}
       /\ addr' = addr + 1 /\ rest' = Tail(rest)
       /\ UNCHANGED status

LineDone == status = "insert" /\ rest = <<>> /\ status' = "read"
            /\ UNCHANGED <<mem, pages, addr, rest>>

End == \/ status = "read" /\ status' \in {"loaded", "failed"}
                          /\ UNCHANGED <<mem, pages, addr, rest>>
       \/ status = "insert" /\ status' = "failed"
                          /\ UNCHANGED <<mem, pages, addr, rest>>

Next == Line \/ Put \/ LineDone \/ End
Spec == Init /\ [][Next]_vars
==============================================================================
