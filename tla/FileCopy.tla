------------------------------ MODULE FileCopy ------------------------------
(***************************************************************************)
(* What the transfer of a log file promises, whatever the streams, packets *)
(* and counters do: at most one file is being received at a time; it grows *)
(* block by block in the order of the robot's file; it is finished when,   *)
(* and only when, its last block has been written; a finished file stays   *)
(* as it is until it is asked for again.  All this is promised as long as  *)
(* the console is alone: the robot has a second command line, whose "get"  *)
(* moves the file, and whose "log" the buffer, of a running transfer.      *)
(* FileTransfer implements this.                                           *)
(***************************************************************************)
EXTENDS Naturals, Sequences

CONSTANTS
  Files,    \* names of the files on the robot's card
  Blocks,   \* [Files -> Nat]: their numbers of blocks
  NoFile    \* no file is being received

VARIABLES
  alone,    \* no command has come over the robot's other command line
  current,  \* the file being received, or NoFile
  copy,     \* [Files -> Seq(Block)]: the files on the console's disk
  finished  \* the files whose transfer was completed

copyVars == <<alone, current, copy, finished>>

Init == /\ alone = TRUE
        /\ current = NoFile
        /\ copy = [f \in Files |-> <<>>]
        /\ finished = {}

\* The file is opened for writing, empty.
Begin(f) == /\ current' = f
            /\ copy' = [copy EXCEPT ![f] = <<>>]
            /\ finished' = finished \ {f}

\* The next block of the file; the last one finishes it.
Grow(f) == LET i == Len(copy[f]) + 1
           IN  /\ current = f
               /\ i <= Blocks[f]
               /\ copy' = [copy EXCEPT ![f] = Append(@, <<f, i>>)]
               /\ IF i < Blocks[f] THEN UNCHANGED <<current, finished>>
                  ELSE current' = NoFile /\ finished' = finished \cup {f}

\* The connection is lost, the robot gives up or another file is asked for.
GiveUp == /\ current # NoFile
          /\ current' = NoFile
          /\ UNCHANGED <<copy, finished>>

\* A command comes over the other line: from now on nothing is promised.
Intrude == /\ alone' = FALSE
           /\ UNCHANGED <<current, copy, finished>>
Unpromised == /\ ~alone
              /\ alone' = FALSE

Next == \/ /\ alone
           /\ GiveUp \/ \E f \in Files : Begin(f) \/ Grow(f)
           /\ UNCHANGED alone
        \/ Intrude
        \/ Unpromised

Spec == Init /\ [][Next]_copyVars
=============================================================================
