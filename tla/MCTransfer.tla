---------------------------- MODULE MCTransfer ------------------------------
(***************************************************************************)
(* Small instances of Transfer for TLC.  Every byte tells where it is from *)
(* and where it was.                                                       *)
(***************************************************************************)
EXTENDS Transfer

Bytes(from, end) == [b \in Mapped(end) |-> from + b]

\* Ends of mapped memory: none, within a word, at its end, and far away.
Ends8      == {0, 4, 8, 13, 16, 32}
AnySource  == {Bytes(300, end) : end \in Ends8}
AnyDest    == {Bytes(400, end) : end \in Ends8}
FullSource == {Bytes(300, 32)}
FullDest   == {Bytes(400, 32)}
Buffer     == {Bytes(500, LOCAL_SIZE + W)}

AnyRequest  == {-11, -1} \cup 0 .. BUF_SIZE + 2
=============================================================================
