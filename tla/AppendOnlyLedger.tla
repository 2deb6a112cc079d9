-------------------------- MODULE AppendOnlyLedger --------------------------
(***************************************************************************)
(* What the books promise, whatever workflow writes them: the ledger is a  *)
(* numbered list of entries that only grows, an entry keeps its contents   *)
(* for ever, and the one thing that may ever be added to an entry is the   *)
(* number of the single later entry that takes it back.                    *)
(*                                                                         *)
(* A step is one committed transaction, which may add several entries: the *)
(* batch workflows post everything that is due in one transaction.         *)
(* The detailed modules of this project are shown to implement this one.   *)
(***************************************************************************)
EXTENDS Naturals, Sequences

CONSTANT Opposite(_, _)    \* Opposite(c, d): the contents d undo the contents c

VARIABLES
  entries,          \* entries[n]: the contents of entry number n
  takenBackBy       \* takenBackBy[n]: the entry that reverses n, 0 for none

vars == <<entries, takenBackBy>>

Init ==
  /\ entries = << >>
  /\ takenBackBy = << >>

\* Every recorded entry keeps its number and its contents.
KeepEntries ==
  /\ Len(entries) <= Len(entries')
  /\ \A n \in DOMAIN entries : entries'[n] = entries[n]

\* An entry once taken back stays taken back, by the same entry, and an entry
\* of an earlier transaction is only ever taken back by one of this one.
KeepReversals ==
  /\ Len(takenBackBy') = Len(entries')
  /\ \A n \in DOMAIN takenBackBy :
       IF takenBackBy[n] # 0
       THEN takenBackBy'[n] = takenBackBy[n]
       ELSE takenBackBy'[n] = 0 \/ takenBackBy'[n] > Len(entries)

\* What takes an entry back is a later entry that undoes it, and no other.
SoundReversals ==
  /\ \A n \in DOMAIN takenBackBy' : takenBackBy'[n] # 0 =>
       /\ takenBackBy'[n] \in (n + 1)..Len(entries')
       /\ Opposite(entries'[n], entries'[takenBackBy'[n]])
  /\ \A m, n \in DOMAIN takenBackBy' :
       takenBackBy'[m] # 0 /\ takenBackBy'[m] = takenBackBy'[n] => m = n

Commit == KeepEntries /\ KeepReversals /\ SoundReversals

Spec == Init /\ [][Commit]_vars
=============================================================================
