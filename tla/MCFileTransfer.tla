--------------------------- MODULE MCFileTransfer ---------------------------
(* Instances of FileTransfer for TLC: the files on the card and their blocks. *)
EXTENDS FileTransfer

MCOneFile == [f \in {"a"} |-> 3]
MCTwoFiles == [f \in {"a", "e"} |-> IF f = "e" THEN 0 ELSE 2]
=============================================================================
