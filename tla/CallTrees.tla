------------------------------ MODULE CallTrees ------------------------------
(***************************************************************************)
(* The trees that debug_traceCall returns (type.go:155-165, of which the   *)
(* code reads two fields): a call is a record [to, calls], calls being the *)
(* calls made from it, in the order they were made.                        *)
(***************************************************************************)
EXTENDS Integers, FiniteSets, SequencesExt

(* Mutant: the calls made inside a call are listed before it. *)
RECURSIVE AddressesInsideOut(_)
AddressesInsideOut(callsRes) ==
  FlattenSeq([i \in DOMAIN callsRes |->
               Append(AddressesInsideOut(callsRes[i].calls), callsRes[i].to)])

RECURSIVE GetAllAddress(_)
GetAllAddress(callsRes) ==
  FlattenSeq([i \in DOMAIN callsRes |->
               <<callsRes[i].to>> \o GetAllAddress(callsRes[i].calls)])

----------------------------------------------------------------------------
(* The reference: a call is found by its path, the positions to follow from *)
(* the outermost list inwards; calls are entered in the order of their      *)
(* paths, a caller before what it calls, an earlier call before a later one.*)

RECURSIVE Paths(_)
Paths(calls) ==
  UNION {{<<i>>} \cup {<<i>> \o p : p \in Paths(calls[i].calls)} : i \in DOMAIN calls}

RECURSIVE CallAt(_, _)
CallAt(calls, path) == IF Len(path) = 1 THEN calls[path[1]]
                       ELSE CallAt(calls[path[1]].calls, Tail(path))

EnteredBefore(p, q) ==
  \/ IsStrictPrefix(p, q)
  \/ \E i \in DOMAIN p \cap DOMAIN q :
       p[i] < q[i] /\ \A j \in 1..(i - 1) : p[j] = q[j]

(* The addresses called, in the order in which the calls were entered. *)
InCallOrder(calls) ==
  LET paths == SetToSortSeq(Paths(calls), EnteredBefore)
  IN [i \in DOMAIN paths |-> CallAt(calls, paths[i]).to]
=============================================================================
