--------------------------- MODULE MCFileTransfer ---------------------------
(* Instances of FileTransfer for TLC. *)
EXTENDS FileTransfer, TLC

CONSTANTS s1, s2, s3

\* Two senders race for one name with files of different length, or the file of one
\* has the name that uniquePath makes of a second copy of the other's.
TwoNames == [s \in Senders |-> IF s = s3 THEN "a (1)" ELSE "a"]
Pairs == {{s1, s2}, {s1, s3}}
OneName == [s \in Senders |-> "a"]
Sizes == [s \in Senders |-> IF s = s1 THEN 2 ELSE 1]

\* A part file longer than any file of that name lies about for 'a'.
LongPart == {[n \in Names |-> IF n = "a" THEN 3 ELSE 0]}

Candidates == [n \in Names |->
    IF n = "a" THEN <<"a", "a (1)", "a (2)", "a (3)", "a (4)">>
    ELSE <<"a (1)", "a (1) (1)", "a (1) (2)">>]
=============================================================================
