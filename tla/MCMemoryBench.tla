--------------------------- MODULE MCMemoryBench ---------------------------
(* MemoryBench with four words of memory, two sets and two tags.           *)
EXTENDS MemoryBench

CONSTANTS b0, b1

MCBytes == {b0, b1}
MCZero == b0

Fill(b) == [k \in 0 .. 3 |-> b]

\* Addresses 0 and 8 share set 0 under two tags; 4 is in set 1; 1 is inside
\* the word at 0.
MCRequests ==
    {[MemRead |-> 1, WE |-> {}, A |-> a, WD |-> Fill(b0)] : a \in {0, 4, 8, 1}}
    \cup {[MemRead |-> 0, WE |-> {}, A |-> a, WD |-> Fill(b0)] : a \in {0, 8}}
    \cup {[MemRead |-> 0, WE |-> 0 .. 3, A |-> a, WD |-> Fill(b)] :
            a \in {0, 8}, b \in MCBytes}
    \cup {[MemRead |-> 0, WE |-> {0}, A |-> 1, WD |-> Fill(b1)]}

\* Memory starts as the image a program loads: one word differs.
MCInit == Init /\ ram_array = [a \in MemAddr |-> IF a \in 8 .. 11 THEN b1 ELSE b0]
MCSpec == MCInit /\ [][Next]_vars /\ WF_vars(Next)
=============================================================================
