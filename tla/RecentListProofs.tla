-------------------------- MODULE RecentListProofs --------------------------
(***************************************************************************)
(* What Trim and Push of RecentList do, for every list and bound.          *)
(***************************************************************************)
EXTENDS RecentList, SequenceTheorems, TLAPS

(* A trim keeps the newest items. *)
LEMMA TrimProperties ==
  ASSUME NEW S, NEW list \in Seq(S)
  PROVE  /\ Trim(list) \in Seq(S)
         /\ Len(Trim(list)) = IF Len(list) > MaxLen THEN Len(list) - Drop ELSE Len(list)
         /\ \A i \in 1..Len(Trim(list)) : Trim(list)[i] = list[Len(list) - Len(Trim(list)) + i]
<1>1. CASE Len(list) > MaxLen
  <2>1. /\ Len(list) \in Nat /\ Drop + 1 \in Int /\ Drop + 1 <= Len(list)
        /\ Drop \in Nat
    BY <1>1, LenProperties, RecentListAssumption
  <2>2. \A i \in (Drop + 1)..Len(list) : list[i] \in S
    BY <2>1, ElementOfSeq
  <2>3. Trim(list) = SubSeq(list, Drop + 1, Len(list))
    BY <1>1 DEF Trim
  <2>4. /\ Trim(list) \in Seq(S)
        /\ Len(Trim(list)) = Len(list) - Drop
        /\ \A i \in 1..(Len(list) - (Drop + 1) + 1) : Trim(list)[i] = list[Drop + 1 + i - 1]
    BY <2>1, <2>2, <2>3, SubSeqProperties
  <2>5. \A i \in 1..Len(Trim(list)) : Trim(list)[i] = list[Len(list) - Len(Trim(list)) + i]
    <3>1. TAKE i \in 1..Len(Trim(list))
    <3>2. /\ i \in 1..(Len(list) - (Drop + 1) + 1)
          /\ Drop + 1 + i - 1 = Len(list) - Len(Trim(list)) + i
      BY <2>1, <2>4, <3>1
    <3> QED BY <2>4, <3>2
  <2> QED BY <1>1, <2>4, <2>5
<1>2. CASE ~(Len(list) > MaxLen)
  BY <1>2, LenProperties DEF Trim
<1> QED BY <1>1, <1>2

(* Push keeps the type of a list, and the new item is its last.  *)
LEMMA PushProperties ==
  ASSUME NEW S, NEW list \in Seq(S), NEW x \in S
  PROVE  /\ Push(list, x) \in Seq(S)
         /\ Len(Push(list, x)) = IF Len(list) > MaxLen THEN Len(list) - Drop + 1
                                                       ELSE Len(list) + 1
         /\ Push(list, x)[Len(Push(list, x))] = x
         /\ \A i \in 1..(Len(Push(list, x)) - 1) :
              Push(list, x)[i] = list[Len(list) - Len(Push(list, x)) + 1 + i]
<1> DEFINE kept == Trim(list)
<1>1. /\ kept \in Seq(S)
      /\ Len(kept) = IF Len(list) > MaxLen THEN Len(list) - Drop ELSE Len(list)
      /\ \A i \in 1..Len(kept) : kept[i] = list[Len(list) - Len(kept) + i]
  BY TrimProperties
<1> HIDE DEF kept
<1>2. /\ Append(kept, x) \in Seq(S)
      /\ Len(Append(kept, x)) = Len(kept) + 1
      /\ \A i \in 1..Len(kept) : Append(kept, x)[i] = kept[i]
      /\ Append(kept, x)[Len(kept) + 1] = x
  BY <1>1, AppendProperties
<1>3. Push(list, x) = Append(kept, x)
  BY DEF Push, kept
<1> QED BY <1>1, <1>2, <1>3, LenProperties
=============================================================================
