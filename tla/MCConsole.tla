------------------------------ MODULE MCConsole ------------------------------
(***************************************************************************)
(* What programs write in the instance for TLC: a prompt, text that fills   *)
(* its row, a line that wraps and ends in a newline.                        *)
(***************************************************************************)
EXTENDS Console

p == "p"

MCWrites == {<<p>>, <<p, p, p, p, Newline>>}
MCHelper == <<Newline, p>>
MCPaper == [t \in Terminals |-> IF t = 0 THEN 7 ELSE 2]
=============================================================================
