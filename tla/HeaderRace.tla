----------------------------- MODULE HeaderRace -----------------------------
(***************************************************************************)
(* One push of SubGethBlockHeader (node_mgr.go:104-109) and one read of    *)
(* the latest header by GasPriceAnalyse (lines 152 and 193), word by word. *)
(*                                                                         *)
(* The field HeaderWsList is a slice header of three words - pointer,      *)
(* length, capacity - over a backing array.  A push is one or two          *)
(* assignments of the field, and each of them stores its words, and append *)
(* the element, one at a time and in any order: no lock or atomic orders   *)
(* them for the other goroutine.  A read loads the length and the pointer  *)
(* in either order and then the slot that the two of them select.  This    *)
(* module justifies HeaderReads of NodeMgr.                                *)
(***************************************************************************)
EXTENDS RecentList, SequencesExt

CONSTANTS Headers,    \* the headers that arrive, oldest first
          Nil,        \* what a slot holds that was never stored to
          Foreign,    \* what lies behind the end of a backing array
          NoHeader    \* the index panics on a length of zero

ASSUME HeaderRaceAssumption == Len(Headers) \in Nat

VARIABLES
  heap,      \* the backing arrays, in the order of their allocation
  field,     \* HeaderWsList: [array, base, len, cap]
  next,      \* how many headers have been received
  todo,      \* stores of the running assignment that are left
  target,    \* the words the running assignment stores
  stage,     \* "idle", "trim" or "append"
  list,      \* what HeaderWsList is between two pushes
  loads,     \* loads of the running read that are left
  loaded,    \* the words loaded so far
  result,    \* what the last read yielded
  overlaps,  \* how many pushes the running read has overlapped
  allowed    \* the outcomes that HeaderReads gives the running read

writerVars == <<heap, field, next, todo, target, stage, list>>
readerVars == <<loads, loaded, result, overlaps, allowed>>
vars == <<writerVars, readerVars>>

newHead == Headers[next]

Latest == IF list = <<>> THEN NoHeader ELSE Last(list)

(* HeaderReads of NodeMgr for the push of x; Foreign counts as Nil there:  *)
(* following a wild pointer is a fault like following nil.                 *)
WindowReads(x) == {Latest, Nil, Foreign} \cup OverlappedReads(list, x)

HeaderRaceInit ==
  /\ heap = << <<>> >>
  /\ field = [array |-> 1, base |-> 0, len |-> 0, cap |-> 0]
  /\ next = 0
  /\ todo = {} /\ stage = "idle" /\ target = field
  /\ list = <<>>
  /\ loads = {} /\ loaded = [len |-> 0, array |-> 1, base |-> 0]
  /\ result = NoHeader
  /\ overlaps = 0 /\ allowed = {NoHeader}

----------------------------------------------------------------------------
(* The writer.                                                             *)

(* Mutant: n.HeaderWsList[:len(n.HeaderWsList)-100] keeps the oldest headers. *)
TrimmedToOldest == [field EXCEPT !.len = @ - Drop]

(* n.HeaderWsList[100:] shares the array. *)
TrimmedWords == [field EXCEPT !.base = @ + Drop, !.len = @ - Drop, !.cap = @ - Drop]

(* append grows a full slice: at least twice the capacity, the elements are *)
(* copied to the start of a new array, the rest of which is zero.           *)
GrownCap(f) == IF f.cap = 0 THEN 1 ELSE 2 * f.cap

GrownArray(f) ==
  [i \in 1..GrownCap(f) |-> IF i <= f.len THEN heap[f.array][f.base + i] ELSE Nil]

BeginAppend(f) ==
  /\ stage' = "append"
  /\ IF f.len < f.cap
     THEN /\ target' = [f EXCEPT !.len = @ + 1]
          /\ todo' = {"len", "elem"}
          /\ UNCHANGED heap
     ELSE /\ target' = [array |-> Len(heap) + 1, base |-> 0, len |-> f.len + 1,
                        cap |-> GrownCap(f)]
          /\ todo' = {"ptr", "cap", "len", "elem"}
          /\ heap' = Append(heap, GrownArray(f))

(* A header is received; a list longer than MaxLen is trimmed first. *)
RecvHead ==
  /\ stage = "idle" /\ next < Len(Headers)
  /\ next' = next + 1
  /\ IF field.len > MaxLen
     THEN /\ stage' = "trim"
          /\ target' = TrimmedWords
          /\ todo' = {"ptr", "len", "cap"}
          /\ UNCHANGED heap
     ELSE BeginAppend(field)
  /\ UNCHANGED <<field, list, loads, loaded, result>>
  /\ IF loads = {} THEN UNCHANGED <<overlaps, allowed>>
     ELSE /\ overlaps' = overlaps + 1
          /\ allowed' = allowed \cup WindowReads(Headers[next + 1])

StoreWord ==
  /\ \E word \in todo :
       /\ todo' = todo \ {word}
       /\ field' = CASE word = "ptr" -> [field EXCEPT !.array = target.array, !.base = target.base]
                     [] word = "len" -> [field EXCEPT !.len = target.len]
                     [] word = "cap" -> [field EXCEPT !.cap = target.cap]
                     [] word = "elem" -> field
       /\ heap' = IF word = "elem"
                  THEN [heap EXCEPT ![target.array][target.base + target.len] = newHead]
                  ELSE heap
  /\ UNCHANGED <<next, target, stage, list, readerVars>>

(* The trimming assignment is complete, the append begins. *)
TrimDone ==
  /\ stage = "trim" /\ todo = {}
  /\ BeginAppend(field)
  /\ UNCHANGED <<field, next, list, readerVars>>

PushDone ==
  /\ stage = "append" /\ todo = {}
  /\ stage' = "idle"
  /\ list' = Push(list, newHead)
  /\ UNCHANGED <<heap, field, next, todo, target, readerVars>>

----------------------------------------------------------------------------
(* The reader.                                                             *)

BeginRead ==
  /\ loads = {}
  /\ loads' = {"len", "ptr", "slot"}
  /\ overlaps' = IF stage = "idle" THEN 0 ELSE 1
  /\ allowed' = IF stage = "idle" THEN {Latest} ELSE WindowReads(newHead)
  /\ UNCHANGED <<writerVars, loaded, result>>

LoadLen ==
  /\ "len" \in loads
  /\ loads' = loads \ {"len"}
  /\ loaded' = [loaded EXCEPT !.len = field.len]
  /\ UNCHANGED <<writerVars, result, overlaps, allowed>>

LoadPtr ==
  /\ "ptr" \in loads
  /\ loads' = loads \ {"ptr"}
  /\ loaded' = [loaded EXCEPT !.array = field.array, !.base = field.base]
  /\ UNCHANGED <<writerVars, result, overlaps, allowed>>

(* Mutant: the index is the length itself. *)
SlotPastLatest == loaded.base + loaded.len + 1

LatestSlot == loaded.base + loaded.len

(* The bounds check compares with the loaded length. *)
LoadSlot ==
  /\ loads = {"slot"}
  /\ loads' = {}
  /\ result' = IF loaded.len = 0 THEN NoHeader
               ELSE IF LatestSlot > Len(heap[loaded.array]) THEN Foreign
               ELSE heap[loaded.array][LatestSlot]
  /\ UNCHANGED <<writerVars, loaded, overlaps, allowed>>

----------------------------------------------------------------------------
SubGethBlockHeader == RecvHead \/ StoreWord \/ TrimDone \/ PushDone

GasPriceAnalyse == BeginRead \/ LoadLen \/ LoadPtr \/ LoadSlot

Next == SubGethBlockHeader \/ GasPriceAnalyse

Spec == HeaderRaceInit /\ [][Next]_vars

----------------------------------------------------------------------------
(***************************************************************************)
(* Between two pushes the slice over its array is the list that NodeMgr    *)
(* has: trimming by re-slicing, growing and copying lose nothing           *)
(* (node_mgr.go:104-109).                                                  *)
(***************************************************************************)
SliceHoldsList ==
  stage = "idle" =>
    /\ field.len = Len(list) /\ field.len <= field.cap
    /\ \A i \in 1..field.len : heap[field.array][field.base + i] = list[i]

(***************************************************************************)
(* A read that overlaps no push yields the latest header, and one that     *)
(* overlaps one push yields an outcome of HeaderReads in NodeMgr           *)
(* (node_mgr.go:152 and 193 against 104-109, unsynchronised).              *)
(***************************************************************************)
ReadsAsNodeMgrSays == loads = {} /\ overlaps <= 1 => result \in allowed
=============================================================================
