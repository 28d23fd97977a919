-------------------------- MODULE DurableRegister --------------------------
(***************************************************************************)
(* What a caller may expect of a parameter kept in flash: a store is       *)
(* committed at one moment, a store that returns is committed, a power     *)
(* loss cancels the store under way or lets it stand, and nothing else     *)
(* changes what the next start will find.                                  *)
(***************************************************************************)
EXTENDS Naturals

CONSTANTS Values,   \* what can be stored
          None      \* nothing is found

VARIABLES value,    \* what a start would find now
          pending,  \* the value of the store under way, or None
          backed,   \* the sector has a backup while it is erased
          losses,   \* power losses so far
          exact     \* the promise is in force

vars == <<value, pending, backed, losses, exact>>

Init == /\ value = None
        /\ pending = None
        /\ backed \in BOOLEAN
        /\ losses = 0
        /\ exact = TRUE

Begin == /\ pending = None
         /\ pending' \in Values
         /\ UNCHANGED <<value, losses>>

Commit == /\ pending # None
          /\ value' = pending
          /\ UNCHANGED <<pending, losses>>

\* A sector without a backup holds nothing between its erasure and its first record.
Erase == /\ pending # None
         /\ ~backed
         /\ value' = None
         /\ UNCHANGED <<pending, losses>>

Return == /\ pending # None
          /\ value = pending
          /\ pending' = None
          /\ UNCHANGED <<value, losses>>

PowerLoss == /\ losses' = losses + 1
             /\ pending' = None
             /\ UNCHANGED value

Next == /\ UNCHANGED backed
        /\ exact' => (Begin \/ Commit \/ Erase \/ Return \/ PowerLoss)

Spec == Init /\ [][Next]_vars
=============================================================================
