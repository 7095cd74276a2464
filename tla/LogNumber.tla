----------------------------- MODULE LogNumber -----------------------------
(***************************************************************************)
(* The numbers of the log files: lfStart without a file name, lines        *)
(* 119-171 of src/src/logfile.cpp.  The number of the last log is kept in  *)
(* fn.txt on the card, which is read, emptied and written again; log_n.xq  *)
(* is then opened with O_TRUNC, so a number used twice destroys a log.     *)
(* Power may fail at any step and the robot may be started with another    *)
(* card; the card may fail to open, read, empty or write fn.txt, and what  *)
(* truncate, write and sync return is not looked at.  The names are other  *)
(* than those of LogFile, so that the proofs can extend both.              *)
(***************************************************************************)
EXTENDS Integers

CONSTANTS
  Cards,      \* the SD cards in use
  Faults,     \* what may go wrong: power within lfStart ("crash"), and the
              \* "open", "read", "truncate" and "write" of fn.txt
  MaxLogs     \* bound: lfStart is not called once this number is used

ASSUME NumberAssumption ==
  /\ MaxLogs \in Nat
  /\ Faults \subseteq {"crash", "open", "read", "truncate", "write"}

VARIABLES
  startPc,     \* where lfStart is
  fileNumber,  \* in RAM, 0 at power-on
  slot,        \* the card in the slot
  fn,          \* the number in fn.txt of each card
  logs,        \* the numbers of the log files of each card
  torn         \* history: the cards whose number was lost or not heard

numberVars == <<startPc, fileNumber, slot, fn, logs, torn>>

NoNumber == -1          \* fn.txt is absent or holds no number

NumberInit ==
  /\ startPc = "idle"
  /\ fileNumber = 0
  /\ slot \in Cards
  /\ fn = [c \in Cards |-> NoNumber]
  /\ logs = [c \in Cards |-> {}]
  /\ torn = {}

\* Mutant of ReadNumber: the number is used as it was read.
MutReadNumber ==
  /\ startPc = "idle"
  /\ fn[slot] < MaxLogs
  /\ startPc' = "numbered"
  /\ fileNumber' = IF fn[slot] = NoNumber THEN fileNumber ELSE fn[slot]
  /\ UNCHANGED <<slot, fn, logs, torn>>

\* fn.txt is opened, or created, and read; without a number in it fileNumber
\* stays what it was, and so it does when fgets cannot read the card.
ReadNumber ==
  /\ startPc = "idle"
  /\ fn[slot] < MaxLogs
  /\ startPc' = "numbered"
  /\ \/ /\ fileNumber' = IF fn[slot] = NoNumber THEN fileNumber ELSE fn[slot] + 1
        /\ UNCHANGED torn
     \/ /\ "read" \in Faults
        /\ fn[slot] # NoNumber
        /\ torn' = torn \cup {slot}
        /\ UNCHANGED fileNumber
  /\ UNCHANGED <<slot, fn, logs>>

\* fn.txt cannot be opened for reading; opening it with O_TRUNC works, or not.
OpenFails ==
  /\ "open" \in Faults
  /\ startPc = "idle"
  /\ \/ /\ startPc' = "numbered"
        /\ fn' = [fn EXCEPT ![slot] = NoNumber]
        /\ torn' = torn \cup {slot}
     \/ UNCHANGED <<startPc, fn, torn>>
  /\ UNCHANGED <<fileNumber, slot, logs>>

\* file.truncate(0): back to the beginning of fn.txt, which is emptied, or not.
Truncate ==
  /\ startPc = "numbered"
  /\ startPc' = "truncated"
  /\ \/ fn' = [fn EXCEPT ![slot] = NoNumber]
     \/ "truncate" \in Faults /\ UNCHANGED fn
  /\ UNCHANGED <<fileNumber, slot, logs, torn>>

\* Mutant of WriteNumber: the number is increased once more after it is written.
MutWriteNumber ==
  /\ startPc = "truncated"
  /\ startPc' = "named"
  /\ fn' = [fn EXCEPT ![slot] = fileNumber]
  /\ fileNumber' = fileNumber + 1
  /\ UNCHANGED <<slot, logs, torn>>

\* file.write and file.sync at the beginning of fn.txt; the results are ignored.
WriteNumber ==
  /\ startPc = "truncated"
  /\ startPc' = "named"
  /\ \/ /\ fn' = [fn EXCEPT ![slot] = fileNumber]
        /\ UNCHANGED torn
     \/ /\ "write" \in Faults
        /\ torn' = torn \cup {slot}
        /\ fn' \in {fn, [fn EXCEPT ![slot] = NoNumber]}
  /\ UNCHANGED <<fileNumber, slot, logs>>

\* log_n.xq is opened with O_CREAT | O_TRUNC, or the card refuses.
OpenLog ==
  /\ startPc = "named"
  /\ startPc' = "idle"
  /\ \/ logs' = [logs EXCEPT ![slot] = @ \cup {fileNumber}]
     \/ UNCHANGED logs
  /\ UNCHANGED <<fileNumber, slot, fn, torn>>

\* Power is switched off between two commands, or fails within lfStart, and
\* comes back with this or another card.
PowerCycle ==
  /\ startPc = "idle" \/ "crash" \in Faults
  /\ startPc' = "idle"
  /\ fileNumber' = 0
  /\ slot' \in Cards
  /\ torn' = IF startPc = "truncated" /\ fn[slot] = NoNumber
             THEN torn \cup {slot} ELSE torn
  /\ UNCHANGED <<fn, logs>>

NumberNext == ReadNumber \/ OpenFails \/ Truncate \/ WriteNumber \/ OpenLog \/ PowerCycle

NumberSpec == NumberInit /\ [][NumberNext]_numberVars

-----------------------------------------------------------------------------
(* Properties *)

\* The types; the numbers advance by one and so stay within the bound.
NumberTypeOK ==
  /\ startPc \in {"idle", "numbered", "truncated", "named"}
  /\ fileNumber \in 0..MaxLogs
  /\ slot \in Cards
  /\ fn \in [Cards -> {NoNumber} \cup 0..MaxLogs]
  /\ logs \in [Cards -> SUBSET (0..MaxLogs)]
  /\ torn \in SUBSET Cards

Fresh == fileNumber \notin logs[slot]

\* "At this point fileNumber have the correct file number" (line 145): no log on
\* the card has it.
NumberIsFresh == startPc = "numbered" => Fresh

\* A log is overwritten only on a card whose number was lost to a power failure
\* while fn.txt was empty or to a failing open or write, or was not heard once
\* because fgets failed: from the line that chooses the number to the one that
\* opens the log it names no existing log of a sound card, whatever happened to
\* other cards, to truncate(0) and before the restart (lfStart).
FreshUnlessTorn == startPc # "idle" /\ slot \notin torn => Fresh

\* On a sound card fn.txt never falls behind the logs, except while it is being
\* rewritten, so the next start cannot choose an old number (lfStart).
NumberNotBehind ==
  \A c \in Cards \ torn :
     ~(startPc = "truncated" /\ c = slot) => \A n \in logs[c] : n <= fn[c]
=============================================================================
