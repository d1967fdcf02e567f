-------------------------- MODULE HeaderRaceProofs --------------------------
(***************************************************************************)
(* Both halves of HeaderRace, for every number of headers and every bound: *)
(* word by word stores, growth and re-slicing keep the list, and a read    *)
(* that one push overlaps sees what NodeMgr says it sees.                  *)
(***************************************************************************)
EXTENDS HeaderRace, RecentListProofs

HeadSet == {Headers[i] : i \in 1..Len(Headers)}
Slots == HeadSet \cup {Nil}
Slices == [array : Nat, base : Nat, len : Nat, cap : Nat]

(* The slice s lies within its array, and its first n items are those of l. *)
Fits(s) ==
  /\ s \in Slices /\ s.array \in 1..Len(heap)
  /\ s.len <= s.cap /\ s.base + s.cap <= Len(heap[s.array])

Holds(s, n, l) == \A i \in 1..n : heap[s.array][s.base + i] = l[i]

TypeInv ==
  /\ heap \in Seq(Seq(Slots)) /\ list \in Seq(HeadSet)
  /\ next \in 0..Len(Headers) /\ (stage # "idle" => next # 0)
  /\ field \in Slices /\ stage \in {"idle", "trim", "append"}
  /\ todo \subseteq {"ptr", "len", "cap", "elem"}

(* The words that are not yet stored are all that field and target differ in. *)
Partly ==
  /\ "ptr" \notin todo => field.array = target.array /\ field.base = target.base
  /\ "len" \notin todo => field.len = target.len
  /\ "cap" \notin todo => field.cap = target.cap

IdleInv == todo = {} /\ Fits(field) /\ field.len = Len(list) /\ Holds(field, Len(list), list)

TrimInv ==
  /\ Fits(target) /\ Partly /\ "elem" \notin todo
  /\ target.len = Len(Trim(list)) /\ Holds(target, Len(Trim(list)), Trim(list))

AppendInv ==
  /\ Fits(target) /\ Partly
  /\ target.len = Len(Trim(list)) + 1 /\ Holds(target, Len(Trim(list)), Trim(list))
  /\ "elem" \notin todo => heap[target.array][target.base + target.len] = newHead

SliceInv ==
  /\ TypeInv
  /\ stage = "idle"   => IdleInv
  /\ stage = "trim"   => TrimInv
  /\ stage = "append" => AppendInv

----------------------------------------------------------------------------
LEMMA SliceInit == HeaderRaceInit => SliceInv
<1> SUFFICES ASSUME HeaderRaceInit PROVE SliceInv
  OBVIOUS
<1>1. TypeInv
  BY HeaderRaceAssumption DEF HeaderRaceInit, TypeInv, Slices
<1>2. IdleInv
  BY DEF HeaderRaceInit, IdleInv, Fits, Holds, Slices
<1> QED BY <1>1, <1>2 DEF HeaderRaceInit, SliceInv

(* The slice words that a read of the heap may rely on. *)
LEMMA FitsProperties ==
  ASSUME TypeInv, NEW s, Fits(s)
  PROVE  /\ s.array \in Nat /\ s.base \in Nat /\ s.len \in Nat /\ s.cap \in Nat
         /\ heap[s.array] \in Seq(Slots) /\ Len(heap[s.array]) \in Nat
         /\ \A i \in 1..s.cap : s.base + i \in 1..Len(heap[s.array])
                                /\ heap[s.array][s.base + i] \in Slots
<1>1. s.array \in Nat /\ s.base \in Nat /\ s.len \in Nat /\ s.cap \in Nat
  BY DEF Fits, Slices
<1>2. heap[s.array] \in Seq(Slots)
  BY ElementOfSeq DEF Fits, TypeInv
<1>3. Len(heap[s.array]) \in Nat
  BY <1>2, LenProperties
<1>4. ASSUME NEW i \in 1..s.cap
      PROVE  s.base + i \in 1..Len(heap[s.array]) /\ heap[s.array][s.base + i] \in Slots
  <2>1. s.base + i \in 1..Len(heap[s.array])
    BY <1>1, <1>3, <1>4 DEF Fits
  <2> QED BY <1>2, <2>1, ElementOfSeq
<1> QED BY <1>1, <1>2, <1>3, <1>4

(* The array that append grows into holds what the slice held. *)
LEMMA GrownProperties ==
  ASSUME TypeInv, Fits(field), ~(field.len < field.cap)
  PROVE  /\ GrownCap(field) \in Nat /\ field.len + 1 <= GrownCap(field)
         /\ GrownArray(field) \in Seq(Slots)
         /\ Len(GrownArray(field)) = GrownCap(field)
         /\ \A i \in 1..field.len : GrownArray(field)[i] = heap[field.array][field.base + i]
<1>1. /\ field.len \in Nat /\ field.cap \in Nat /\ field.len = field.cap
      /\ \A i \in 1..field.cap : heap[field.array][field.base + i] \in Slots
  BY FitsProperties DEF Fits
<1>2. GrownCap(field) \in Nat /\ field.len + 1 <= GrownCap(field)
  BY <1>1 DEF GrownCap
<1>3. GrownArray(field) \in [1..GrownCap(field) -> Slots]
  BY <1>1 DEF GrownArray, Slots
<1>4. GrownArray(field) \in Seq(Slots) /\ Len(GrownArray(field)) = GrownCap(field)
  BY <1>2, <1>3
<1>5. \A i \in 1..field.len : GrownArray(field)[i] = heap[field.array][field.base + i]
  BY <1>1, <1>2 DEF GrownArray
<1> QED BY <1>2, <1>4, <1>5

(* append begins on a slice that holds the trimmed list. *)
LEMMA AppendBegins ==
  ASSUME TypeInv, Fits(field), field.len = Len(Trim(list)),
         Holds(field, Len(Trim(list)), Trim(list)),
         BeginAppend(field), UNCHANGED <<field, list>>,
         next' \in 0..Len(Headers), next' # 0
  PROVE  SliceInv'
<1>1. field.len \in Nat /\ field.cap \in Nat /\ field.base \in Nat /\ field.array \in Nat
  BY FitsProperties
<1>2. CASE field.len < field.cap
  <2>1. /\ target' = [field EXCEPT !.len = @ + 1] /\ todo' = {"len", "elem"} /\ heap' = heap
        /\ stage' = "append"
    BY <1>2 DEF BeginAppend
  <2>2. TypeInv'
    BY <2>1 DEF TypeInv
  <2>3. /\ target' \in Slices /\ target'.array = field.array /\ target'.base = field.base
        /\ target'.len = field.len + 1 /\ target'.cap = field.cap
    BY <1>1, <2>1 DEF TypeInv, Slices
  <2>4. AppendInv'
    BY <1>1, <1>2, <2>1, <2>3 DEF AppendInv, Fits, Partly, Holds
  <2> QED BY <2>1, <2>2, <2>4 DEF SliceInv
<1>3. CASE ~(field.len < field.cap)
  <2> DEFINE new == GrownArray(field)
  <2>1. /\ target' = [array |-> Len(heap) + 1, base |-> 0, len |-> field.len + 1,
                      cap |-> GrownCap(field)]
        /\ todo' = {"ptr", "cap", "len", "elem"}
        /\ heap' = Append(heap, new) /\ stage' = "append"
    BY <1>3 DEF BeginAppend
  <2>2. /\ GrownCap(field) \in Nat /\ field.len + 1 <= GrownCap(field)
        /\ new \in Seq(Slots) /\ Len(new) = GrownCap(field)
        /\ \A i \in 1..field.len : new[i] = heap[field.array][field.base + i]
    BY <1>3, GrownProperties
  <2>3. /\ Len(heap) \in Nat /\ heap' \in Seq(Seq(Slots)) /\ Len(heap') = Len(heap) + 1
        /\ heap'[Len(heap) + 1] = new
    BY <2>1, <2>2, AppendProperties, LenProperties DEF TypeInv
  <2>4. TypeInv'
    BY <2>1, <2>3 DEF TypeInv
  <2>5. target' \in Slices
    BY <1>1, <2>1, <2>2, <2>3 DEF Slices
  <2>6. Fits(target)'
    BY <1>1, <2>1, <2>2, <2>3, <2>5 DEF Fits
  <2>7. Holds(target, Len(Trim(list)), Trim(list))'
    <3>1. \A i \in 1..field.len : heap'[target'.array][target'.base + i] = new[i]
      BY <1>1, <2>1, <2>3
    <3>2. \A i \in 1..field.len : heap[field.array][field.base + i] = Trim(list)[i]
      BY DEF Holds
    <3> QED BY <2>2, <3>1, <3>2 DEF Holds
  <2>8. AppendInv'
    BY <2>1, <2>6, <2>7 DEF AppendInv, Partly
  <2> QED BY <2>1, <2>4, <2>8 DEF SliceInv
<1> QED BY <1>2, <1>3

----------------------------------------------------------------------------
(* A list that is too long is re-sliced first. *)
LEMMA SliceRecv == SliceInv /\ RecvHead => SliceInv'
<1> SUFFICES ASSUME SliceInv, RecvHead PROVE SliceInv'
  OBVIOUS
<1>1. /\ TypeInv /\ Fits(field) /\ field.len = Len(list) /\ Holds(field, Len(list), list)
      /\ next' \in 0..Len(Headers) /\ next' # 0 /\ UNCHANGED <<field, list>>
  BY HeaderRaceAssumption DEF SliceInv, TypeInv, IdleInv, RecvHead
<1>2. /\ field.len \in Nat /\ field.cap \in Nat /\ field.base \in Nat /\ field.array \in Nat
  BY <1>1, FitsProperties
<1>3. /\ Trim(list) \in Seq(HeadSet)
      /\ Len(Trim(list)) = IF Len(list) > MaxLen THEN Len(list) - Drop ELSE Len(list)
      /\ \A i \in 1..Len(Trim(list)) : Trim(list)[i] = list[Len(list) - Len(Trim(list)) + i]
  BY <1>1, TrimProperties DEF TypeInv
<1>4. CASE field.len > MaxLen
  <2>1. /\ stage' = "trim" /\ target' = TrimmedWords /\ todo' = {"ptr", "len", "cap"}
        /\ UNCHANGED heap
    BY <1>4 DEF RecvHead
  <2>2. /\ target' \in Slices /\ target'.array = field.array /\ target'.base = field.base + Drop
        /\ target'.len = field.len - Drop /\ target'.cap = field.cap - Drop
    <3>1. Drop \in Nat /\ field.len - Drop \in Nat /\ field.cap - Drop \in Nat /\ field.base + Drop \in Nat
      BY <1>1, <1>2, <1>4, RecentListAssumption DEF Fits
    <3>2. field \in Slices
      BY <1>1 DEF TypeInv
    <3> QED BY <2>1, <3>1, <3>2 DEF TrimmedWords, Slices
  <2>3. Fits(target)'
    BY <1>1, <1>2, <2>1, <2>2, RecentListAssumption, FitsProperties DEF Fits
  <2>4. Len(Trim(list)) = Len(list) - Drop /\ Len(list) \in Nat /\ Drop \in Nat
    BY <1>1, <1>2, <1>3, <1>4, RecentListAssumption
  <2>5. Holds(target, Len(Trim(list)), Trim(list))'
    <3> SUFFICES ASSUME NEW i \in 1..Len(Trim(list))
                 PROVE  heap[field.array][field.base + Drop + i] = Trim(list)[i]
      BY <1>1, <2>1, <2>2 DEF Holds
    <3>1. Drop + i \in 1..Len(list) /\ field.base + (Drop + i) = field.base + Drop + i
      BY <1>2, <2>4
    <3>2. Trim(list)[i] = list[Drop + i]
      <4>1. Len(list) - Len(Trim(list)) + i = Drop + i
        BY <2>4
      <4> QED BY <1>3, <4>1
    <3>3. heap[field.array][field.base + (Drop + i)] = list[Drop + i]
      BY <1>1, <3>1 DEF Holds
    <3> QED BY <3>1, <3>2, <3>3
  <2>6. TypeInv'
    BY <1>1, <2>1 DEF TypeInv
  <2>7. TrimInv'
    BY <1>1, <2>1, <2>2, <2>3, <2>4, <2>5 DEF TrimInv, Partly
  <2> QED BY <2>1, <2>6, <2>7 DEF SliceInv
<1>5. CASE ~(field.len > MaxLen)
  <2>1. BeginAppend(field)
    BY <1>5 DEF RecvHead
  <2>2. Trim(list) = list
    BY <1>1, <1>5 DEF Trim
  <2> QED BY <1>1, <2>1, <2>2, AppendBegins
<1> QED BY <1>4, <1>5

(* One word, or the element: the last of them completes the target. *)
LEMMA SliceStore == SliceInv /\ StoreWord => SliceInv'
<1> SUFFICES ASSUME SliceInv, StoreWord PROVE SliceInv'
  OBVIOUS
<1>0. TypeInv
  BY DEF SliceInv
<1>1. PICK word \in todo :
        /\ todo' = todo \ {word}
        /\ field' = CASE word = "ptr" -> [field EXCEPT !.array = target.array, !.base = target.base]
                      [] word = "len" -> [field EXCEPT !.len = target.len]
                      [] word = "cap" -> [field EXCEPT !.cap = target.cap]
                      [] word = "elem" -> field
        /\ heap' = IF word = "elem"
                   THEN [heap EXCEPT ![target.array][target.base + target.len] = newHead]
                   ELSE heap
        /\ UNCHANGED <<next, target, stage, list>>
  BY DEF StoreWord
<1>2. word \in {"ptr", "len", "cap", "elem"}
  BY <1>0, <1>1 DEF TypeInv
<1>3. CASE stage = "idle"
  <2>1. todo = {}
    BY <1>3 DEF SliceInv, IdleInv
  <2> QED BY <1>1, <2>1
<1>4. CASE stage # "idle"
  <2>1. Fits(target) /\ Partly
    BY <1>0, <1>4 DEF SliceInv, TypeInv, TrimInv, AppendInv
  <2>2. target \in Slices /\ target.array \in Nat /\ target.base \in Nat /\ target.len \in Nat /\ target.cap \in Nat
    BY <1>0, <2>1, FitsProperties DEF Fits
  <2>3. field' \in Slices /\ Partly'
    BY <1>0, <1>1, <1>2, <2>1, <2>2 DEF TypeInv, Slices, Partly
  <2>4. CASE word # "elem"
    <3>1. heap' = heap /\ newHead' = newHead
      BY <1>1, <2>4 DEF newHead
    <3>2. TypeInv'
      BY <1>0, <1>1, <2>3, <3>1 DEF TypeInv
    <3>3. stage = "trim" => TrimInv'
      BY <1>1, <2>3, <3>1 DEF SliceInv, TrimInv, Fits, Holds
    <3>4. stage = "append" => AppendInv'
      BY <1>1, <2>3, <2>4, <3>1 DEF SliceInv, AppendInv, Fits, Holds
    <3> QED BY <1>1, <1>4, <3>2, <3>3, <3>4 DEF SliceInv
  <2>5. CASE word = "elem"
    <3>1. stage = "append" /\ AppendInv
      BY <1>0, <1>1, <1>4, <2>5 DEF SliceInv, TypeInv, TrimInv
    <3> DEFINE a == target.array
               slot == target.base + target.len
    <3>2. /\ heap[a] \in Seq(Slots) /\ Len(heap[a]) \in Nat /\ a \in 1..Len(heap)
          /\ slot \in 1..Len(heap[a])
      <4>1. target.len \in 1..target.cap
        <5>1. Len(Trim(list)) \in Nat
          BY <1>0, TrimProperties, LenProperties DEF TypeInv
        <5> QED BY <2>1, <2>2, <3>1, <5>1 DEF AppendInv, Fits
      <4> QED BY <1>0, <2>1, <4>1, FitsProperties DEF Fits
    <3>3. newHead \in Slots /\ newHead' = newHead
      BY <1>0, <1>1, <1>4, HeaderRaceAssumption DEF newHead, TypeInv, HeadSet, Slots
    <3> DEFINE stored == [heap[a] EXCEPT ![slot] = newHead]
    <3>4. /\ stored \in Seq(Slots) /\ Len(stored) = Len(heap[a])
          /\ \A j \in 1..Len(heap[a]) : stored[j] = IF j = slot THEN newHead ELSE heap[a][j]
      BY <3>2, <3>3, ExceptSeq
    <3>5. heap' = [heap EXCEPT ![a] = stored]
      BY <1>1, <2>5
    <3>6. /\ heap' \in Seq(Seq(Slots)) /\ Len(heap') = Len(heap) /\ heap'[a] = stored
      <4> HIDE DEF stored
      <4> QED BY <1>0, <3>2, <3>4, <3>5, ExceptSeq DEF TypeInv
    <3> HIDE DEF stored
    <3>7. TypeInv'
      BY <1>0, <1>1, <2>3, <3>6 DEF TypeInv
    <3>8. Fits(target)'
      BY <1>1, <2>1, <3>2, <3>4, <3>6 DEF Fits
    <3>9. Holds(target, Len(Trim(list)), Trim(list))'
      <4> SUFFICES ASSUME NEW i \in 1..Len(Trim(list))
                   PROVE  stored[target.base + i] = Trim(list)[i]
        BY <1>1, <3>6 DEF Holds
      <4>1. Len(Trim(list)) \in Nat
        BY <1>0, TrimProperties, LenProperties DEF TypeInv
      <4>2. target.base + i \in 1..Len(heap[a]) /\ target.base + i # slot
        <5>1. target.len = Len(Trim(list)) + 1
          BY <3>1 DEF AppendInv
        <5> QED BY <2>2, <3>2, <4>1, <5>1
      <4>3. heap[a][target.base + i] = Trim(list)[i]
        BY <3>1 DEF AppendInv, Holds
      <4> QED BY <3>4, <4>2, <4>3
    <3>10. heap'[target'.array][target'.base + target'.len] = newHead'
      BY <1>1, <3>2, <3>3, <3>4, <3>6
    <3>11. AppendInv'
      BY <1>1, <2>3, <3>1, <3>8, <3>9, <3>10 DEF AppendInv
    <3> QED BY <1>1, <3>1, <3>7, <3>11 DEF SliceInv
  <2> QED BY <2>4, <2>5
<1> QED BY <1>3, <1>4

(* The re-sliced field holds the trimmed list; append begins on it. *)
LEMMA Stored ==
  ASSUME TypeInv, Fits(target), Partly, "ptr" \notin todo, "len" \notin todo, "cap" \notin todo
  PROVE  field = target
<1>1. field \in Slices /\ target \in Slices
  BY DEF TypeInv, Fits
<1>2. /\ field = [array |-> field.array, base |-> field.base, len |-> field.len, cap |-> field.cap]
      /\ target = [array |-> target.array, base |-> target.base, len |-> target.len, cap |-> target.cap]
  BY <1>1 DEF Slices
<1>3. /\ field.array = target.array /\ field.base = target.base
      /\ field.len = target.len /\ field.cap = target.cap
  BY DEF Partly
<1> QED BY <1>2, <1>3

LEMMA SliceTrimDone == SliceInv /\ TrimDone => SliceInv'
<1> SUFFICES ASSUME SliceInv, TrimDone PROVE SliceInv'
  OBVIOUS
<1>1. TypeInv /\ TrimInv /\ todo = {} /\ stage = "trim"
  BY DEF SliceInv, TrimDone
<1>2. field = target
  BY <1>1, Stored DEF TrimInv
<1>3. next' \in 0..Len(Headers) /\ next' # 0 /\ UNCHANGED <<field, list>> /\ BeginAppend(field)
  BY <1>1 DEF TypeInv, TrimDone
<1> QED BY <1>1, <1>2, <1>3, AppendBegins DEF TrimInv

LEMMA SlicePushDone == SliceInv /\ PushDone => SliceInv'
<1> SUFFICES ASSUME SliceInv, PushDone PROVE SliceInv'
  OBVIOUS
<1>1. TypeInv /\ AppendInv /\ todo = {} /\ stage = "append" /\ stage' = "idle"
      /\ list' = Append(Trim(list), newHead) /\ UNCHANGED <<heap, field, next, todo>>
  BY DEF SliceInv, PushDone, Push
<1>2. field = target
  BY <1>1, Stored DEF AppendInv
<1>3. newHead \in HeadSet
  BY <1>1, HeaderRaceAssumption DEF newHead, TypeInv, HeadSet
<1>4. Trim(list) \in Seq(HeadSet) /\ Len(Trim(list)) \in Nat
  BY <1>1, TrimProperties, LenProperties DEF TypeInv
<1>5. /\ list' \in Seq(HeadSet) /\ Len(list') = Len(Trim(list)) + 1
      /\ \A i \in 1..Len(Trim(list)) : list'[i] = Trim(list)[i]
      /\ list'[Len(Trim(list)) + 1] = newHead
  BY <1>1, <1>3, <1>4, AppendProperties
<1>6. TypeInv'
  BY <1>1, <1>5 DEF TypeInv
<1>7. IdleInv'
  <2>1. Fits(field)' /\ field'.len = Len(list')
    BY <1>1, <1>2, <1>5 DEF AppendInv, Fits
  <2>2. Holds(field, Len(list), list)'
    BY <1>1, <1>2, <1>4, <1>5 DEF AppendInv, Holds
  <2> QED BY <1>1, <2>1, <2>2 DEF IdleInv
<1> QED BY <1>1, <1>6, <1>7 DEF SliceInv

LEMMA SliceReads == SliceInv /\ UNCHANGED writerVars => SliceInv'
BY DEF SliceInv, TypeInv, IdleInv, TrimInv, AppendInv, Partly, Fits, Holds, newHead, writerVars

(***************************************************************************)
(* Between two pushes the slice over its array is the list, whatever the   *)
(* order in which the words are stored and however often the array grows   *)
(* or is re-sliced (node_mgr.go:104-109).                                  *)
(***************************************************************************)
THEOREM SliceIsTheList == Spec => []SliceHoldsList
<1>1. HeaderRaceInit => SliceInv BY SliceInit
<1>2. SliceInv /\ [Next]_vars => SliceInv'
  <2> SUFFICES ASSUME SliceInv, [Next]_vars PROVE SliceInv'
    OBVIOUS
  <2>1. CASE GasPriceAnalyse \/ UNCHANGED vars
    BY <2>1, SliceReads DEF GasPriceAnalyse, BeginRead, LoadLen, LoadPtr, LoadSlot, vars
  <2> QED BY <2>1, SliceRecv, SliceStore, SliceTrimDone, SlicePushDone DEF Next, SubGethBlockHeader
<1>3. SliceInv => SliceHoldsList
  BY DEF SliceInv, IdleInv, Fits, Holds, SliceHoldsList
<1> QED BY <1>1, <1>2, <1>3, PTL DEF Spec

----------------------------------------------------------------------------
(* The reader's half: which slots a read that overlaps a push may select,  *)
(* and what the writer may have left in them.                              *)

(* What the slot of a length and a pointer holds now. *)
SlotOf(len, array, base) ==
  IF len = 0 THEN NoHeader
  ELSE IF base + len > Len(heap[array]) THEN Foreign
  ELSE heap[array][base + len]

(* The lengths that the words of a push have, whatever its stage. *)
WindowLens == {Len(list), Len(Trim(list)), Len(Trim(list)) + 1}

(* The slots from base on hold the trimmed list and nothing but the new    *)
(* header behind it; the element that append stores is behind them.        *)
NewView(array, base) ==
  /\ array \in 1..Len(heap) /\ base \in Nat
  /\ base + Len(Trim(list)) <= Len(heap[array])
  /\ \A i \in 1..Len(Trim(list)) : heap[array][base + i] = Trim(list)[i]
  /\ \A j \in (base + Len(Trim(list)) + 1)..Len(heap[array]) : heap[array][j] \in {Nil, newHead}
  /\ array = target.array => base <= target.base

(* A pointer from before the trim: the slots from base on hold the whole list. *)
OldView(array, base) ==
  /\ Len(list) > MaxLen
  /\ array \in 1..Len(heap) /\ base \in Nat
  /\ base + Len(list) <= Len(heap[array])
  /\ \A i \in 1..Len(list) : heap[array][base + i] = list[i]
  /\ array = target.array => base + Len(list) <= target.base + Len(Trim(list))

View(array, base) == NewView(array, base) \/ OldView(array, base)

(* Behind the end of the slice s its array was never stored to. *)
Untouched(s) == \A j \in (s.base + s.len + 1)..Len(heap[s.array]) : heap[s.array][j] = Nil

WindowInv ==
  /\ stage = "idle" => Untouched(field)
  /\ stage # "idle" => /\ Untouched(target) /\ NewView(target.array, target.base)
                       /\ View(field.array, field.base) /\ field.len \in WindowLens

(* The words that the slot to read depends on, loaded or still to load. *)
ReadLen   == IF "len" \in loads THEN field.len ELSE loaded.len
ReadArray == IF "ptr" \in loads THEN field.array ELSE loaded.array
ReadBase  == IF "ptr" \in loads THEN field.base ELSE loaded.base

ReaderInv ==
  /\ loads \subseteq {"len", "ptr", "slot"} /\ (loads # {} => "slot" \in loads)
  /\ loaded \in [len : Nat, array : Nat, base : Nat] /\ overlaps \in Nat
  /\ loads = {} /\ overlaps <= 1 => result \in allowed
  /\ loads # {} /\ overlaps = 0 =>
       /\ stage = "idle" /\ Latest \in allowed
       /\ ReadLen = field.len /\ ReadArray = field.array /\ ReadBase = field.base
  /\ loads # {} /\ overlaps = 1 /\ stage = "idle" => SlotOf(ReadLen, ReadArray, ReadBase) \in allowed
  /\ loads # {} /\ overlaps = 1 /\ stage # "idle" =>
       /\ WindowReads(newHead) \subseteq allowed
       /\ ReadLen \in WindowLens /\ View(ReadArray, ReadBase)

----------------------------------------------------------------------------
(* What a push leaves of the list, in numbers. *)
LEMMA TrimmedList ==
  ASSUME TypeInv
  PROVE  /\ Len(list) \in Nat /\ Len(Trim(list)) \in Nat
         /\ Len(Trim(list)) = IF Len(list) > MaxLen THEN Len(list) - Drop ELSE Len(list)
         /\ Len(list) > 0 => Len(Trim(list)) > 0
         /\ \A i \in 1..Len(Trim(list)) : Trim(list)[i] = list[Len(list) - Len(Trim(list)) + i]
<1>1. Len(list) \in Nat /\ MaxLen \in Nat /\ Drop \in Nat /\ Drop <= MaxLen
  BY LenProperties, RecentListAssumption DEF TypeInv
<1>2. /\ Trim(list) \in Seq(HeadSet)
      /\ Len(Trim(list)) = IF Len(list) > MaxLen THEN Len(list) - Drop ELSE Len(list)
      /\ \A i \in 1..Len(Trim(list)) : Trim(list)[i] = list[Len(list) - Len(Trim(list)) + i]
  BY TrimProperties DEF TypeInv
<1>3. Len(Trim(list)) \in Nat
  BY <1>2, LenProperties
<1>4. Len(list) > 0 => Len(Trim(list)) > 0
  BY <1>1, <1>2
<1> QED BY <1>1, <1>2, <1>3, <1>4

(* The last header of a nonempty list is the latest one. *)
LEMMA LatestIsLast ==
  ASSUME TypeInv
  PROVE  Latest = IF Len(list) = 0 THEN NoHeader ELSE list[Len(list)]
BY EmptySeq DEF TypeInv, Latest, Last

(* Whatever mixture of words a read has loaded during a push, the slot they *)
(* select holds what HeaderReads says.                                      *)
LEMMA WindowSlot ==
  ASSUME TypeInv, NEW len \in WindowLens, NEW array, NEW base, View(array, base)
  PROVE  SlotOf(len, array, base) \in WindowReads(newHead)
<1> DEFINE n == Len(list)
           k == Len(Trim(list))
<1>1. /\ n \in Nat /\ k \in Nat /\ (n > 0 => k > 0)
      /\ k = IF n > MaxLen THEN n - Drop ELSE n
      /\ MaxLen \in Nat /\ Drop \in Nat /\ Drop # 0 /\ Drop <= MaxLen
  BY TrimmedList, RecentListAssumption
<1>2. len \in {n, k, k + 1}
  BY DEF WindowLens
<1>3. Latest = IF n = 0 THEN NoHeader ELSE list[n]
  BY LatestIsLast
<1>4. /\ {Latest, Nil, Foreign, newHead} \subseteq WindowReads(newHead)
      /\ n > MaxLen => {list[n - Drop], list[n - Drop + 1]} \subseteq WindowReads(newHead)
  BY DEF WindowReads, OverlappedReads
<1> HIDE DEF n, k
<1>5. CASE len = 0
  <2>1. n = 0
    BY <1>1, <1>2, <1>5
  <2> QED BY <1>3, <1>4, <1>5, <2>1 DEF SlotOf
<1>6. CASE len # 0 /\ NewView(array, base)
  <2>1. /\ base \in Nat /\ Len(heap[array]) \in Nat
        /\ \A i \in 1..k : heap[array][base + i] = Trim(list)[i]
        /\ \A j \in (base + k + 1)..Len(heap[array]) : heap[array][j] \in {Nil, newHead}
    BY <1>6, ElementOfSeq, LenProperties DEF NewView, TypeInv, k
  <2>2. CASE base + len > Len(heap[array])
    BY <1>4, <1>6, <2>2 DEF SlotOf
  <2>3. CASE ~(base + len > Len(heap[array])) /\ len <= k
    <3>1. len = k /\ k \in 1..k /\ n # 0
      BY <1>1, <1>2, <1>6, <2>3
    <3>2. heap[array][base + len] = list[n]
      <4>1. heap[array][base + len] = Trim(list)[k]
        BY <2>1, <3>1
      <4>2. Trim(list)[k] = list[n - k + k]
        BY <3>1, TrimmedList DEF n, k
      <4> QED BY <1>1, <4>1, <4>2
    <3> QED BY <1>3, <1>4, <1>6, <2>3, <3>1, <3>2 DEF SlotOf
  <2>4. CASE ~(base + len > Len(heap[array])) /\ ~(len <= k)
    <3>1. base + len \in (base + k + 1)..Len(heap[array])
      BY <1>1, <1>2, <2>1, <2>4
    <3> QED BY <1>4, <1>6, <2>1, <2>4, <3>1 DEF SlotOf
  <2> QED BY <2>2, <2>3, <2>4
<1>7. CASE len # 0 /\ OldView(array, base)
  <2>1. n > MaxLen /\ base + n <= Len(heap[array]) /\ base \in Nat
        /\ \A i \in 1..n : heap[array][base + i] = list[i]
    BY <1>7 DEF OldView, n
  <2>2. len \in 1..n /\ len \in {n, n - Drop, n - Drop + 1}
    BY <1>1, <1>2, <1>7, <2>1
  <2>3. list[len] \in WindowReads(newHead)
    BY <1>1, <1>3, <1>4, <2>1, <2>2
  <2> QED BY <1>4, <1>7, <2>1, <2>2, <2>3 DEF SlotOf
<1> QED BY <1>5, <1>6, <1>7 DEF View

----------------------------------------------------------------------------
(* The writer's steps: what they leave behind the slice, and that a view   *)
(* of an array stays one while the push goes on.                           *)

LEMMA WindowInit == HeaderRaceInit => WindowInv
BY DEF HeaderRaceInit, WindowInv, Untouched

(* append begins: behind the slice, and in the grown array, nothing is stored yet. *)
LEMMA WindowAppends ==
  ASSUME TypeInv, Fits(field), field.len = Len(Trim(list)),
         Holds(field, Len(Trim(list)), Trim(list)), Untouched(field),
         BeginAppend(field), UNCHANGED <<field, list>>
  PROVE  WindowInv' /\ NewView(field.array, field.base)'
<1> DEFINE k == Len(Trim(list))
           A == field.array
           B == field.base
<1>1. /\ A \in 1..Len(heap) /\ Len(heap) \in Nat /\ B \in Nat /\ k \in Nat /\ field.len = k
      /\ field.cap \in Nat /\ k <= field.cap /\ Len(heap[A]) \in Nat /\ B + field.cap <= Len(heap[A])
  BY FitsProperties, TrimmedList, LenProperties DEF Fits, TypeInv
<1>2. /\ \A i \in 1..k : heap[A][B + i] = Trim(list)[i]
      /\ \A j \in (B + k + 1)..Len(heap[A]) : heap[A][j] = Nil
  BY DEF Holds, Untouched
<1>3. stage' = "append" /\ Trim(list)' = Trim(list) /\ k' = k /\ A' = A /\ B' = B
  BY DEF BeginAppend, Trim
<1>4. field.len' \in WindowLens'
  BY <1>1, <1>3 DEF WindowLens
<1> HIDE DEF k, A, B
<1>5. CASE field.len < field.cap
  <2>1. heap' = heap /\ target' = [field EXCEPT !.len = @ + 1]
    BY <1>5 DEF BeginAppend
  <2>2. target'.array = A /\ target'.base = B /\ target'.len = k + 1
    BY <1>1, <2>1 DEF TypeInv, Slices, A, B
  <2>3. NewView(A, B)'
    BY <1>1, <1>2, <1>3, <2>1, <2>2 DEF NewView, k
  <2>4. Untouched(target)'
    BY <1>1, <1>2, <2>1, <2>2 DEF Untouched
  <2>5. NewView(target.array, target.base)'
    BY <1>3, <2>2, <2>3
  <2> QED BY <1>3, <1>4, <2>3, <2>4, <2>5 DEF WindowInv, View, A, B
<1>6. CASE ~(field.len < field.cap)
  <2> DEFINE new == GrownArray(field)
  <2>1. /\ target' = [array |-> Len(heap) + 1, base |-> 0, len |-> field.len + 1,
                      cap |-> GrownCap(field)]
        /\ heap' = Append(heap, new)
    BY <1>6 DEF BeginAppend
  <2>2. /\ GrownCap(field) \in Nat /\ k + 1 <= GrownCap(field)
        /\ new \in Seq(Slots) /\ Len(new) = GrownCap(field)
        /\ \A i \in 1..k : new[i] = heap[A][B + i]
    BY <1>1, <1>6, GrownProperties DEF A, B
  <2>3. \A j \in (k + 1)..GrownCap(field) : new[j] = Nil
    BY <1>1, <2>2 DEF GrownArray
  <2> HIDE DEF new
  <2>4. /\ Len(heap') = Len(heap) + 1 /\ heap'[Len(heap) + 1] = new /\ heap'[A] = heap[A]
    BY <1>1, <2>1, <2>2, AppendProperties DEF TypeInv
  <2>5. target'.array = Len(heap) + 1 /\ target'.base = 0 /\ target'.len = k + 1
    BY <1>1, <2>1
  <2>6. NewView(A, B)'
    <3>1. A \in 1..Len(heap') /\ A # target'.array /\ B + k <= Len(heap'[A])
      BY <1>1, <2>4, <2>5
    <3> QED BY <1>1, <1>2, <1>3, <2>4, <3>1 DEF NewView, k
  <2>7. Untouched(target)'
    <3>1. heap'[target'.array] = new
      BY <2>4, <2>5
    <3> SUFFICES ASSUME NEW j \in (target'.base + target'.len + 1)..Len(new) PROVE new[j] = Nil
      BY <3>1 DEF Untouched
    <3> QED BY <1>1, <2>2, <2>3, <2>5
  <2>8. NewView(target.array, target.base)'
    <3>1. heap'[target'.array] = new /\ target'.array \in 1..Len(heap') /\ target'.base = 0
      BY <1>1, <2>4, <2>5
    <3>2. 0 + k <= Len(new) /\ \A i \in 1..k : new[0 + i] = Trim(list)[i]
      BY <1>1, <1>2, <2>2
    <3>3. \A j \in (0 + k + 1)..Len(new) : new[j] = Nil
      BY <1>1, <2>2, <2>3
    <3> QED BY <1>3, <3>1, <3>2, <3>3 DEF NewView, k
  <2> QED BY <1>3, <1>4, <2>6, <2>7, <2>8 DEF WindowInv, View, A, B
<1> QED BY <1>5, <1>6

(* A push begins: the field is a view of the whole list, the target of the  *)
(* trimmed one.                                                             *)
LEMMA WindowRecv ==
  ASSUME SliceInv, WindowInv, RecvHead
  PROVE  /\ WindowInv' /\ View(field.array, field.base)' /\ field.len \in WindowLens'
         /\ stage' # "idle"
<1>1. /\ stage = "idle" /\ TypeInv /\ Fits(field) /\ Untouched(field) /\ field.len = Len(list)
      /\ Holds(field, Len(list), list) /\ UNCHANGED <<field, list>>
  BY DEF SliceInv, IdleInv, WindowInv, RecvHead
<1>2. CASE ~(Len(list) > MaxLen)
  <2>1. BeginAppend(field) /\ Trim(list) = list
    BY <1>1, <1>2 DEF RecvHead, Trim
  <2>2. field.len \in WindowLens' /\ stage' = "append"
    BY <1>1, <2>1 DEF WindowLens, BeginAppend
  <2> QED BY <1>1, <2>1, <2>2, WindowAppends DEF View
<1>3. CASE Len(list) > MaxLen
  <2> DEFINE n == Len(list)
             A == field.array
             B == field.base
  <2>1. stage' = "trim" /\ target' = TrimmedWords /\ heap' = heap
    BY <1>1, <1>3 DEF RecvHead
  <2>2. /\ A \in 1..Len(heap) /\ B \in Nat /\ n \in Nat /\ Drop \in Nat /\ Drop <= n /\ Len(heap[A]) \in Nat
        /\ B + n <= Len(heap[A]) /\ Len(Trim(list)) = n - Drop
    BY <1>1, <1>3, FitsProperties, TrimmedList, RecentListAssumption DEF Fits
  <2>3. target'.array = A /\ target'.base = B + Drop /\ target'.len = n - Drop
    BY <1>1, <2>1 DEF TrimmedWords, TypeInv, Slices
  <2>4. /\ \A i \in 1..n : heap[A][B + i] = list[i]
        /\ \A j \in (B + n + 1)..Len(heap[A]) : heap[A][j] = Nil
    BY <1>1 DEF Holds, Untouched
  <2>5. A' = A /\ B' = B /\ n' = n /\ Trim(list)' = Trim(list)
    BY <1>1 DEF Trim
  <2> HIDE DEF A, B, n
  <2>6. OldView(A, B)'
    <3>1. B + n <= target'.base + Len(Trim(list))
      BY <2>2, <2>3
    <3>2. list' = list
      BY <1>1
    <3> QED BY <1>3, <2>1, <2>2, <2>3, <2>4, <2>5, <3>1, <3>2 DEF OldView, n
  <2>7. Untouched(target)'
    <3>1. B + Drop + (n - Drop) + 1 = B + n + 1
      BY <2>2
    <3> QED BY <2>1, <2>3, <2>4, <3>1 DEF Untouched
  <2>8. NewView(target.array, target.base)'
    <3> DEFINE k == Len(Trim(list))
    <3>1. B + Drop \in Nat /\ B + Drop + k = B + n /\ k = n - Drop
      BY <2>2
    <3>2. \A i \in 1..k : heap[A][B + Drop + i] = Trim(list)[i]
      <4> SUFFICES ASSUME NEW i \in 1..k PROVE heap[A][B + Drop + i] = Trim(list)[i]
        OBVIOUS
      <4>1. Drop + i \in 1..n /\ B + (Drop + i) = B + Drop + i /\ n - k + i = Drop + i
        BY <2>2, <3>1
      <4>2. Trim(list)[i] = list[n - k + i]
        BY <1>1, TrimmedList DEF n
      <4>3. heap[A][B + (Drop + i)] = list[Drop + i]
        BY <2>4, <4>1
      <4> QED BY <4>1, <4>2, <4>3
    <3>3. \A j \in (B + Drop + k + 1)..Len(heap[A]) : heap[A][j] = Nil
      BY <2>4, <3>1
    <3> QED BY <2>1, <2>2, <2>3, <2>5, <3>1, <3>2, <3>3 DEF NewView
  <2>9. field.len \in WindowLens'
    BY <1>1 DEF WindowLens
  <2> QED BY <1>1, <2>1, <2>5, <2>6, <2>7, <2>8, <2>9 DEF WindowInv, View, A, B
<1> QED BY <1>2, <1>3

(* A stored word leaves the arrays as they are, and the element goes behind *)
(* every view.                                                              *)
LEMMA StoreKeepsViews ==
  ASSUME SliceInv, StoreWord
  PROVE  /\ \A array, base : NewView(array, base) => NewView(array, base)'
         /\ \A array, base : View(array, base) => View(array, base)'
<1> SUFFICES ASSUME NEW a, NEW b
             PROVE  /\ NewView(a, b) => NewView(a, b)'
                    /\ OldView(a, b) => OldView(a, b)'
  BY DEF View
<1>1. /\ TypeInv /\ UNCHANGED <<target, list, next>> /\ newHead' = newHead /\ Trim(list)' = Trim(list)
  BY DEF SliceInv, StoreWord, newHead, Trim
<1>2. CASE heap' = heap
  BY <1>1, <1>2 DEF NewView, OldView
<1>3. CASE heap' # heap
  <2> DEFINE A == target.array
             slot == target.base + target.len
             n == Len(list)
             k == Len(Trim(list))
  <2>1. heap' = [heap EXCEPT ![A][slot] = newHead] /\ "elem" \in todo
    BY <1>3 DEF StoreWord
  <2>2. stage = "append" /\ AppendInv
    BY <1>1, <2>1 DEF SliceInv, TypeInv, IdleInv, TrimInv
  <2>3. /\ n \in Nat /\ k \in Nat /\ target.base \in Nat /\ slot = target.base + k + 1
        /\ A \in 1..Len(heap) /\ slot \in 1..Len(heap[A]) /\ Len(heap) \in Nat /\ Len(heap[A]) \in Nat
    <3>1. /\ Fits(target) /\ target.len = k + 1 /\ k \in Nat /\ n \in Nat /\ Len(heap) \in Nat
      BY <1>1, <2>2, TrimmedList, LenProperties DEF AppendInv, TypeInv
    <3>2. /\ target.base \in Nat /\ target.cap \in Nat /\ Len(heap[A]) \in Nat
      BY <1>1, <3>1, FitsProperties
    <3>3. A \in 1..Len(heap) /\ target.len <= target.cap /\ target.base + target.cap <= Len(heap[A])
      BY <3>1 DEF Fits
    <3> HIDE DEF k, n, A
    <3>4. slot = target.base + k + 1 /\ slot \in 1..Len(heap[A])
      BY <3>1, <3>2, <3>3
    <3> QED BY <3>1, <3>2, <3>3, <3>4
  <2>4. /\ heap[A] \in Seq(Slots) /\ heap \in Seq(Seq(Slots))
    BY <1>1, <2>3, ElementOfSeq DEF TypeInv
  <2>5. /\ DOMAIN heap' = DOMAIN heap /\ DOMAIN heap'[A] = DOMAIN heap[A]
        /\ \A c \in 1..Len(heap) : c # A => heap'[c] = heap[c]
        /\ \A j \in 1..Len(heap[A]) : heap'[A][j] = IF j = slot THEN newHead ELSE heap[A][j]
    BY <2>1, <2>3, <2>4
  <2>6. Len(heap') = Len(heap) /\ Len(heap'[A]) = Len(heap[A])
    BY <2>1, <2>3, <2>4
  <2> HIDE DEF A, slot, n, k
  <2>7. ASSUME a \in 1..Len(heap), a # A
        PROVE  /\ NewView(a, b) => NewView(a, b)'
               /\ OldView(a, b) => OldView(a, b)'
    BY <1>1, <2>5, <2>6, <2>7 DEF NewView, OldView
  <2>8. ASSUME a = A, NewView(a, b)
        PROVE  NewView(a, b)'
    <3>1. /\ b \in Nat /\ b <= target.base /\ b + k <= Len(heap[A])
          /\ \A i \in 1..k : heap[A][b + i] = Trim(list)[i]
          /\ \A j \in (b + k + 1)..Len(heap[A]) : heap[A][j] \in {Nil, newHead}
      BY <2>8 DEF NewView, A, k
    <3>2. \A i \in 1..k : heap'[A][b + i] = Trim(list)[i]
      <4> TAKE i \in 1..k
      <4>1. b + i \in 1..Len(heap[A]) /\ b + i # slot
        BY <2>3, <3>1
      <4> QED BY <2>5, <3>1, <4>1
    <3>3. \A j \in (b + k + 1)..Len(heap[A]) : heap'[A][j] \in {Nil, newHead}
      BY <2>3, <2>5, <3>1
    <3> QED BY <1>1, <2>3, <2>6, <2>8, <3>1, <3>2, <3>3 DEF NewView, A, k
  <2>9. ASSUME a = A, OldView(a, b)
        PROVE  OldView(a, b)'
    <3>1. /\ b \in Nat /\ b + n <= target.base + k /\ b + n <= Len(heap[A]) /\ n > MaxLen
          /\ \A i \in 1..n : heap[A][b + i] = list[i]
      BY <2>9 DEF OldView, A, k, n
    <3>2. \A i \in 1..n : heap'[A][b + i] = list[i]
      <4> TAKE i \in 1..n
      <4>1. b + i \in 1..Len(heap[A]) /\ b + i # slot
        BY <2>3, <3>1
      <4> QED BY <2>5, <3>1, <4>1
    <3> QED BY <1>1, <2>3, <2>6, <2>9, <3>1, <3>2 DEF OldView, A, k, n
  <2> QED BY <2>7, <2>8, <2>9 DEF NewView, OldView
<1> QED BY <1>2, <1>3

LEMMA WindowStore ==
  ASSUME SliceInv, WindowInv, StoreWord
  PROVE  /\ WindowInv' /\ WindowLens' = WindowLens /\ UNCHANGED <<newHead, list, stage>> /\ stage # "idle"
<1>1. PICK word \in todo :
        /\ field' = CASE word = "ptr" -> [field EXCEPT !.array = target.array, !.base = target.base]
                      [] word = "len" -> [field EXCEPT !.len = target.len]
                      [] word = "cap" -> [field EXCEPT !.cap = target.cap]
                      [] word = "elem" -> field
        /\ heap' = IF word = "elem"
                   THEN [heap EXCEPT ![target.array][target.base + target.len] = newHead]
                   ELSE heap
        /\ UNCHANGED <<next, target, stage, list>>
  BY DEF StoreWord
<1>2. /\ TypeInv /\ stage # "idle" /\ word \in {"ptr", "len", "cap", "elem"}
  BY <1>1 DEF SliceInv, TypeInv, IdleInv
<1>3. newHead' = newHead /\ WindowLens' = WindowLens /\ Trim(list)' = Trim(list)
  BY <1>1 DEF newHead, WindowLens, Trim
<1>4. /\ Untouched(target) /\ NewView(target.array, target.base)
      /\ View(field.array, field.base) /\ field.len \in WindowLens /\ target.len \in WindowLens
  BY <1>2 DEF WindowInv, SliceInv, TypeInv, TrimInv, AppendInv, WindowLens
<1>5. /\ \/ field'.array = field.array /\ field'.base = field.base
         \/ field'.array = target.array /\ field'.base = target.base
      /\ field'.len \in {field.len, target.len}
  BY <1>1, <1>2 DEF TypeInv, Slices
<1>6. View(field.array, field.base)' /\ NewView(target.array, target.base)'
  <2>1. /\ \A array, base : NewView(array, base) => NewView(array, base)'
        /\ \A array, base : View(array, base) => View(array, base)'
    BY StoreKeepsViews
  <2>2. NewView(target.array, target.base)'
    BY <1>1, <1>4, <2>1
  <2>3. CASE field'.array = field.array /\ field'.base = field.base
    <3>1. PICK a, b : a = field.array /\ b = field.base
      OBVIOUS
    <3>2. View(a, b)'
      BY <1>4, <2>1, <3>1
    <3>3. View(field.array, field.base)'
      BY <2>3, <3>1, <3>2 DEF View, NewView, OldView
    <3> QED BY <2>2, <3>3
  <2>4. CASE field'.array = target.array /\ field'.base = target.base
    BY <1>1, <2>2, <2>4 DEF View
  <2> QED BY <1>5, <2>2, <2>3, <2>4
<1>7. Untouched(target)'
  <2>1. CASE word # "elem"
    BY <1>1, <1>4, <2>1 DEF Untouched
  <2>2. CASE word = "elem"
    <3> DEFINE A == target.array
               slot == target.base + target.len
    <3>1. heap' = [heap EXCEPT ![A][slot] = newHead] /\ stage = "append"
      BY <1>1, <1>2, <2>2 DEF SliceInv, TypeInv, TrimInv
    <3>2. A \in 1..Len(heap) /\ target.base \in Nat /\ target.len \in Nat
      BY <1>2, <3>1, FitsProperties DEF SliceInv, AppendInv, Fits
    <3>3. heap \in Seq(Seq(Slots)) /\ heap[A] \in Seq(Slots) /\ Len(heap[A]) \in Nat
      BY <1>2, <3>2, ElementOfSeq, LenProperties DEF TypeInv
    <3>4. Len(heap'[A]) = Len(heap[A]) /\ \A j \in 1..Len(heap[A]) : j # slot => heap'[A][j] = heap[A][j]
      BY <3>1, <3>2, <3>3
    <3>5. \A j \in (slot + 1)..Len(heap[A]) : heap[A][j] = Nil /\ j \in 1..Len(heap[A]) /\ j # slot
      BY <1>4, <3>2, <3>3 DEF Untouched
    <3> HIDE DEF slot, A
    <3>6. \A j \in (slot + 1)..Len(heap'[A]) : heap'[A][j] = Nil
      BY <3>4, <3>5
    <3> QED BY <1>1, <3>6 DEF Untouched, slot, A
  <2> QED BY <2>1, <2>2
<1> QED BY <1>1, <1>2, <1>3, <1>4, <1>5, <1>6, <1>7 DEF WindowInv

LEMMA WindowTrimDone ==
  ASSUME SliceInv, WindowInv, TrimDone
  PROVE  /\ WindowInv' /\ WindowLens' = WindowLens /\ UNCHANGED <<newHead, list, field>>
         /\ stage = "trim" /\ stage' # "idle"
         /\ \A array, base : View(array, base) => View(array, base)'
<1>1. /\ TypeInv /\ TrimInv /\ todo = {} /\ stage = "trim" /\ BeginAppend(field)
      /\ UNCHANGED <<field, next, list>>
  BY DEF SliceInv, TrimDone
<1>2. field = target
  BY <1>1, Stored DEF TrimInv
<1>3. newHead' = newHead /\ WindowLens' = WindowLens /\ Trim(list)' = Trim(list) /\ stage' = "append"
  BY <1>1 DEF newHead, WindowLens, Trim, BeginAppend
<1>4. Fits(field) /\ field.len = Len(Trim(list)) /\ Holds(field, Len(Trim(list)), Trim(list)) /\ Untouched(field)
  BY <1>1, <1>2 DEF TrimInv, WindowInv
<1>5. WindowInv'
  BY <1>1, <1>4, WindowAppends
<1>6. ASSUME NEW a, NEW b, View(a, b)
      PROVE  View(a, b)'
  <2>1. a \in 1..Len(heap) /\ Len(heap) \in Nat
    BY <1>1, <1>6, LenProperties DEF View, NewView, OldView, TypeInv
  <2>2. CASE field.len < field.cap
    <3>1. heap' = heap /\ target' = [field EXCEPT !.len = @ + 1]
      BY <1>1, <2>2 DEF BeginAppend
    <3>2. target'.array = target.array /\ target'.base = target.base
      BY <1>1, <1>2, <3>1 DEF TypeInv, Slices
    <3> QED BY <1>1, <1>3, <1>6, <3>1, <3>2 DEF View, NewView, OldView
  <2>3. CASE ~(field.len < field.cap)
    <3>1. heap' = Append(heap, GrownArray(field)) /\ target'.array = Len(heap) + 1
      BY <1>1, <2>3 DEF BeginAppend
    <3>2. GrownArray(field) \in Seq(Slots) /\ heap \in Seq(Seq(Slots))
      BY <1>1, <1>4, <2>3, GrownProperties DEF TypeInv
    <3>3. Len(heap') = Len(heap) + 1 /\ heap'[a] = heap[a]
      BY <2>1, <3>1, <3>2, AppendProperties
    <3>4. a \in 1..Len(heap') /\ a # target'.array
      BY <2>1, <3>1, <3>3
    <3> QED BY <1>1, <1>3, <1>6, <3>3, <3>4 DEF View, NewView, OldView
  <2> QED BY <2>2, <2>3
<1> QED BY <1>1, <1>3, <1>5, <1>6

LEMMA WindowPushDone ==
  ASSUME SliceInv, WindowInv, PushDone
  PROVE  WindowInv' /\ UNCHANGED <<heap, field>> /\ stage # "idle" /\ stage' = "idle"
<1>1. TypeInv /\ AppendInv /\ todo = {} /\ stage = "append" /\ stage' = "idle" /\ UNCHANGED <<heap, field>>
  BY DEF SliceInv, PushDone
<1>2. field = target
  BY <1>1, Stored DEF AppendInv
<1>3. Untouched(field)'
  BY <1>1, <1>2 DEF WindowInv, Untouched
<1> QED BY <1>1, <1>3 DEF WindowInv

----------------------------------------------------------------------------
(* The reader's invariant along every step.                                *)

LEMMA ReaderInit == HeaderRaceInit => ReaderInv
BY DEF HeaderRaceInit, ReaderInv

(* A push begins.  A read under way that overlapped none has loaded words of *)
(* the field as it still is.                                                 *)
LEMMA ReaderRecv ==
  ASSUME SliceInv, WindowInv, ReaderInv, RecvHead
  PROVE  ReaderInv'
<1>1. /\ UNCHANGED <<field, list, loads, loaded, result>> /\ stage = "idle"
      /\ IF loads = {} THEN UNCHANGED <<overlaps, allowed>>
         ELSE /\ overlaps' = overlaps + 1
              /\ allowed' = allowed \cup WindowReads(Headers[next + 1])
      /\ next' = next + 1
  BY DEF RecvHead
<1>2. View(field.array, field.base)' /\ field.len \in WindowLens' /\ stage' # "idle"
  BY WindowRecv
<1>3. ReadLen' = ReadLen /\ ReadArray' = ReadArray /\ ReadBase' = ReadBase
  BY <1>1 DEF ReadLen, ReadArray, ReadBase
<1>4. CASE loads = {}
  BY <1>1, <1>4 DEF ReaderInv
<1>5. CASE loads # {} /\ overlaps = 0
  <2>1. overlaps' = 1 /\ WindowReads(newHead)' \subseteq allowed'
    BY <1>1, <1>5 DEF WindowReads, OverlappedReads, newHead, Latest
  <2>2. ReadLen = field.len /\ ReadArray = field.array /\ ReadBase = field.base
    BY <1>5 DEF ReaderInv
  <2>3. ReadLen' \in WindowLens' /\ View(ReadArray, ReadBase)'
    BY <1>1, <1>2, <1>3, <2>2
  <2> QED BY <1>1, <1>2, <1>5, <2>1, <2>3 DEF ReaderInv
<1>6. CASE loads # {} /\ overlaps # 0
  <2>1. overlaps' \in Nat /\ overlaps' > 1
    BY <1>1, <1>6 DEF ReaderInv
  <2> QED BY <1>1, <1>6, <2>1 DEF ReaderInv
<1> QED BY <1>4, <1>5, <1>6

(* The push goes on: what is loaded keeps its view, what is not yet loaded  *)
(* is one of the push's words.                                              *)
LEMMA ReaderDuringPush ==
  ASSUME ReaderInv, WindowInv', stage # "idle", stage' # "idle", UNCHANGED <<newHead, list, readerVars>>,
         WindowLens' = WindowLens,
         \A array, base : View(array, base) => View(array, base)'
  PROVE  ReaderInv'
<1>1. UNCHANGED <<loads, loaded, result, overlaps, allowed>>
  BY DEF readerVars
<1>2. CASE loads = {} \/ overlaps # 1
  BY <1>1, <1>2 DEF ReaderInv
<1>3. CASE loads # {} /\ overlaps = 1
  <2>1. /\ WindowReads(newHead) \subseteq allowed /\ ReadLen \in WindowLens /\ View(ReadArray, ReadBase)
    BY <1>3 DEF ReaderInv
  <2>2. WindowReads(newHead)' = WindowReads(newHead)
    BY DEF WindowReads, Latest
  <2>3. View(field.array, field.base)' /\ field'.len \in WindowLens'
    BY DEF WindowInv
  <2>4. ReadLen' \in WindowLens'
    BY <1>1, <2>1, <2>3 DEF ReadLen
  <2>5. View(ReadArray, ReadBase)'
    <3>1. CASE "ptr" \in loads
      BY <1>1, <2>3, <3>1 DEF ReadArray, ReadBase
    <3>2. CASE "ptr" \notin loads
      BY <1>1, <2>1, <3>2 DEF ReadArray, ReadBase
    <3> QED BY <3>1, <3>2
  <2> QED BY <1>1, <1>3, <2>1, <2>2, <2>4, <2>5 DEF ReaderInv
<1> QED BY <1>2, <1>3

(* The push is complete.  The read's words select what they selected.       *)
LEMMA ReaderPushDone ==
  ASSUME SliceInv, WindowInv, ReaderInv, PushDone
  PROVE  ReaderInv'
<1>1. /\ UNCHANGED <<heap, field, loads, loaded, result, overlaps, allowed>>
      /\ stage # "idle" /\ stage' = "idle" /\ TypeInv
  BY WindowPushDone DEF PushDone, readerVars, SliceInv
<1>2. ReadLen' = ReadLen /\ ReadArray' = ReadArray /\ ReadBase' = ReadBase
  BY <1>1 DEF ReadLen, ReadArray, ReadBase
<1>3. CASE loads = {} \/ overlaps # 1
  BY <1>1, <1>3 DEF ReaderInv
<1>4. CASE loads # {} /\ overlaps = 1
  <2>1. SlotOf(ReadLen, ReadArray, ReadBase) \in allowed
    BY <1>1, <1>4, WindowSlot DEF ReaderInv
  <2>2. SlotOf(ReadLen, ReadArray, ReadBase)' = SlotOf(ReadLen, ReadArray, ReadBase)
    BY <1>1, <1>2 DEF SlotOf
  <2> QED BY <1>1, <1>4, <2>1, <2>2 DEF ReaderInv
<1> QED BY <1>3, <1>4

LEMMA ReaderBegins ==
  ASSUME SliceInv, WindowInv, ReaderInv, BeginRead
  PROVE  ReaderInv'
<1>1. /\ loads' = {"len", "ptr", "slot"} /\ UNCHANGED <<heap, field, next, target, stage, list, loaded>>
      /\ overlaps' = IF stage = "idle" THEN 0 ELSE 1
      /\ allowed' = IF stage = "idle" THEN {Latest} ELSE WindowReads(newHead)
  BY DEF BeginRead, writerVars
<1>2. ReadLen' = field'.len /\ ReadArray' = field'.array /\ ReadBase' = field'.base
  BY <1>1 DEF ReadLen, ReadArray, ReadBase
<1>3. CASE stage = "idle"
  BY <1>1, <1>2, <1>3 DEF ReaderInv, Latest
<1>4. CASE stage # "idle"
  <2>1. field.len \in WindowLens /\ View(field.array, field.base)
    BY <1>4 DEF WindowInv
  <2>2. ReadLen' \in WindowLens' /\ View(ReadArray, ReadBase)' /\ WindowReads(newHead)' = WindowReads(newHead)
    BY <1>1, <1>2, <2>1 DEF WindowLens, View, NewView, OldView, newHead, WindowReads, Latest
  <2> QED BY <1>1, <1>4, <2>2 DEF ReaderInv
<1> QED BY <1>3, <1>4

(* A load changes no word that the slot depends on. *)
LEMMA ReaderLoads ==
  ASSUME SliceInv, ReaderInv, LoadLen \/ LoadPtr
  PROVE  ReaderInv'
<1>1. /\ UNCHANGED <<heap, field, next, target, stage, list, result, overlaps, allowed>>
      /\ loads # {} /\ loads' \subseteq loads /\ "slot" \in loads'
  BY DEF LoadLen, LoadPtr, writerVars, ReaderInv
<1>2. loaded' \in [len : Nat, array : Nat, base : Nat]
  BY DEF LoadLen, LoadPtr, ReaderInv, SliceInv, TypeInv, Slices
<1>3. ReadLen' = ReadLen /\ ReadArray' = ReadArray /\ ReadBase' = ReadBase
  BY <1>1 DEF LoadLen, LoadPtr, ReadLen, ReadArray, ReadBase, ReaderInv
<1>4. /\ Latest' = Latest /\ WindowReads(newHead)' = WindowReads(newHead) /\ WindowLens' = WindowLens
      /\ SlotOf(ReadLen, ReadArray, ReadBase)' = SlotOf(ReadLen, ReadArray, ReadBase)
      /\ View(ReadArray, ReadBase) => View(ReadArray, ReadBase)'
  BY <1>1, <1>3 DEF Latest, WindowReads, WindowLens, newHead, SlotOf, View, NewView, OldView
<1> QED BY <1>1, <1>2, <1>3, <1>4 DEF ReaderInv

LEMMA ReaderEnds ==
  ASSUME SliceInv, WindowInv, ReaderInv, LoadSlot
  PROVE  ReaderInv'
<1>1. /\ loads = {"slot"} /\ loads' = {} /\ UNCHANGED <<loaded, overlaps, allowed>>
      /\ result' = SlotOf(ReadLen, ReadArray, ReadBase)
  BY DEF LoadSlot, LatestSlot, SlotOf, ReadLen, ReadArray, ReadBase
<1>2. overlaps = 0 => result' \in allowed
  <2> SUFFICES ASSUME overlaps = 0 PROVE result' = Latest
    BY <1>1 DEF ReaderInv
  <2>1. /\ TypeInv /\ Fits(field) /\ field.len = Len(list) /\ Holds(field, Len(list), list)
        /\ ReadLen = field.len /\ ReadArray = field.array /\ ReadBase = field.base
    BY <1>1 DEF SliceInv, IdleInv, ReaderInv
  <2>2. /\ field.len \in Nat /\ field.base \in Nat /\ field.cap \in Nat /\ field.len <= field.cap
        /\ field.base + field.cap <= Len(heap[field.array]) /\ Len(heap[field.array]) \in Nat
    BY <2>1, FitsProperties DEF Fits
  <2>3. field.len # 0 => /\ ~(field.base + field.len > Len(heap[field.array]))
                         /\ heap[field.array][field.base + field.len] = list[field.len]
    BY <2>1, <2>2 DEF Holds
  <2> QED BY <1>1, <2>1, <2>3, LatestIsLast DEF SlotOf
<1>3. overlaps = 1 => result' \in allowed
  <2>1. CASE stage = "idle"
    BY <1>1, <2>1 DEF ReaderInv
  <2>2. CASE stage # "idle"
    BY <1>1, <2>2, WindowSlot DEF ReaderInv, SliceInv
  <2> QED BY <2>1, <2>2
<1> QED BY <1>1, <1>2, <1>3 DEF ReaderInv

(* What the reader leaves alone. *)
LEMMA WindowReadsOnly == WindowInv /\ UNCHANGED writerVars => WindowInv'
BY DEF WindowInv, writerVars, Untouched, NewView, OldView, View, WindowLens, newHead

(***************************************************************************)
(* A read that overlaps no push yields the latest header; one that         *)
(* overlaps a push yields an outcome that NodeMgr's HeaderReads lists, in  *)
(* whatever order the words are stored and loaded, whether or not the push *)
(* re-slices or grows the array (node_mgr.go:152 and 193 against 104-109). *)
(***************************************************************************)
THEOREM ReadsAreHeaderReads == Spec => []ReadsAsNodeMgrSays
<1> DEFINE Inv == SliceInv /\ WindowInv /\ ReaderInv
<1>1. HeaderRaceInit => Inv
  BY SliceInit, WindowInit, ReaderInit
<1>2. Inv /\ [Next]_vars => Inv'
  <2> SUFFICES ASSUME Inv, [Next]_vars PROVE Inv'
    OBVIOUS
  <2>1. CASE RecvHead
    BY <2>1, SliceRecv, WindowRecv, ReaderRecv
  <2>2. CASE StoreWord
    <3>1. \A array, base : View(array, base) => View(array, base)'
      BY <2>2, StoreKeepsViews
    <3>2. UNCHANGED readerVars
      BY <2>2 DEF StoreWord
    <3>3. WindowInv' /\ WindowLens' = WindowLens /\ UNCHANGED <<newHead, list, stage>> /\ stage # "idle"
      BY <2>2, WindowStore
    <3>4. ReaderInv'
      BY <3>1, <3>2, <3>3, ReaderDuringPush
    <3> QED BY <2>2, <3>3, <3>4, SliceStore
  <2>3. CASE TrimDone
    <3>1. UNCHANGED readerVars
      BY <2>3 DEF TrimDone
    <3> QED BY <2>3, <3>1, SliceTrimDone, WindowTrimDone, ReaderDuringPush
  <2>4. CASE PushDone
    BY <2>4, SlicePushDone, WindowPushDone, ReaderPushDone
  <2>5. CASE GasPriceAnalyse
    <3>1. UNCHANGED writerVars
      BY <2>5 DEF GasPriceAnalyse, BeginRead, LoadLen, LoadPtr, LoadSlot
    <3>2. ReaderInv'
      BY <2>5, ReaderBegins, ReaderLoads, ReaderEnds DEF GasPriceAnalyse
    <3> QED BY <3>1, <3>2, SliceReads, WindowReadsOnly
  <2>6. CASE UNCHANGED vars
    <3>1. ReaderInv'
      BY <2>6 DEF vars, writerVars, readerVars, ReaderInv, ReadLen, ReadArray, ReadBase, Latest, WindowReads,
                  WindowLens, newHead, SlotOf, View, NewView, OldView
    <3> QED BY <2>6, <3>1, SliceReads, WindowReadsOnly DEF vars
  <2> QED BY <2>1, <2>2, <2>3, <2>4, <2>5, <2>6 DEF Next, SubGethBlockHeader
<1>3. Inv => ReadsAsNodeMgrSays
  BY DEF ReaderInv, ReadsAsNodeMgrSays
<1> QED BY <1>1, <1>2, <1>3, PTL DEF Spec
=============================================================================
