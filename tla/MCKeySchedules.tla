--------------------------- MODULE MCKeySchedules ---------------------------
(* KeySchedules with the words of MCAesWords and two keys per key size.      *)
EXTENDS KeySchedules, MCAesWords

MCRcon == [n \in 1 .. 10 |-> Nth(<<1, 2, 4, 3, 6, 7, 5, 1, 2, 4>>[n])]
MCKeys == {[n \in 0 .. 7 |-> MCWord(5, 3, n)], [n \in 0 .. 7 |-> MCWord(1, 7, n)]}
MCJunk == {MCWord(3, 1, 2), MCWord(1, 6, 5)}
=============================================================================
