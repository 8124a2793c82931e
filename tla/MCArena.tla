------------------------------ MODULE MCArena ------------------------------
(* Two threads on an arena of two chunks of three pages; a run of the bin  *)
(* has two pages and two regions, the second of them on the second page.   *)
EXTENDS Arena

CONSTANTS t1, t2

MCThreads == {t1, t2}
MCZeroing == {1}
MCSizes == {1, 2}
MCAlignedSizes == {1}
MCPast == [i \in 0 .. NRegs |-> IF i < 2 THEN 1 ELSE 2]
=============================================================================
