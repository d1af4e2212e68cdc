------------------------------ MODULE MCDevMem ------------------------------
(* TLC instance of DevMem: two pages of four bytes and words of two, so    *)
(* that an address can be aligned, cross into the second page (3) or out   *)
(* of the memory (7), lie beyond it, or not fit.                           *)
EXTENDS DevMem

Number(n) == [form |-> "number", n |-> n]
NoNumbers == {[form |-> f, n |-> 1] : f \in {"empty", "trailing"}}

MCAddrTexts  == {Number(n) : n \in {-1, 0, 3, 7, 16}} \cup NoNumbers
MCValueTexts == {Number(n) : n \in {-1, 3, 5, 16}} \cup NoNumbers

=============================================================================
