----------------------------- MODULE RecentList -----------------------------
(***************************************************************************)
(* The bounded "recent items" list that NodeMgr keeps three times          *)
(* (HeaderWsList, PendingTxList, Signals) and NodeClient once: an append   *)
(* that first drops the oldest Drop items when the list is longer than     *)
(* MaxLen.  The code has MaxLen = 200 and Drop = 100.                      *)
(***************************************************************************)
EXTENDS Integers, Sequences

CONSTANTS MaxLen,   \* the length above which the list is trimmed
          Drop      \* how many of the oldest items a trim removes

(* list[Drop] must exist when a trim reads it, hence Drop <= MaxLen. *)
ASSUME RecentListAssumption == /\ MaxLen \in Nat
                               /\ Drop \in Nat \ {0}
                               /\ Drop <= MaxLen

Trim(list) == IF Len(list) > MaxLen THEN SubSeq(list, Drop + 1, Len(list))
                                    ELSE list

(* Mutant: the trim keeps the old end of the list, list[:Len-Drop].        *)
PushKeepingOldest(list, x) ==
  Append(IF Len(list) > MaxLen THEN SubSeq(list, 1, Len(list) - Drop) ELSE list, x)

Push(list, x) == Append(Trim(list), x)

(* What a reader without lock may take for the last item while x is being   *)
(* pushed, besides the last item and a slot never stored to: x, or, if the  *)
(* list is trimmed, the item at one of its new lengths.                     *)
OverlappedReads(list, x) ==
  {x} \cup (IF Len(list) > MaxLen
            THEN {list[Len(list) - Drop], list[Len(list) - Drop + 1]} ELSE {})

(* The fewest items a list holds once it has been trimmed. *)
KeptAfterTrim == MaxLen - Drop + 2

(***************************************************************************)
(* list holds the newest items of history, in order, and never fewer than  *)
(* a trim leaves.                                                          *)
(***************************************************************************)
IsRecentPart(list, history) ==
  /\ Len(list) <= Len(history)
  /\ Len(list) <= MaxLen + 1
  /\ Len(list) < KeptAfterTrim => Len(list) = Len(history)
  /\ \A i \in 1..Len(list) : list[i] = history[Len(history) - Len(list) + i]

=============================================================================
