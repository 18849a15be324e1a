------------------------------ MODULE MCPwmPages ------------------------------
(***************************************************************************)
(* Two channels.  Entry 0 drives bit b1 of port 0 and entry 1 bit b1 of    *)
(* port 1; requests can point both entries at one channel or at one port   *)
(* bit, switch an entry off, or name a channel that does not exist.        *)
(***************************************************************************)
EXTENDS PwmPages

CONSTANTS b1, b2

Entry(port, ch, bits) == [code |-> 4 * ch + port, port_bits |-> bits]

MCDefaultMap  == [ch \in 0 .. 1 |-> Entry(ch, ch, {b1})]
MCMapRequests == {Entry(0, 9, {b1, b2})}

\* For the liveness run.
LiveMapRequests == {Entry(0, 1, {b1})}
===============================================================================
