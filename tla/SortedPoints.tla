----------------------------- MODULE SortedPoints -----------------------------
(***************************************************************************)
(* The list of points of warmup/sorted_points.c.  The list is a sequence,  *)
(* heap counts what has been allocated and not freed: the list itself and, *)
(* for each element, a node and a point.                                   *)
(***************************************************************************)
EXTENDS Integers, SequencesExt, FiniteSets

CONSTANTS Coords,      \* coordinates of points
          MaxPoints    \* bound: length of the list

ASSUME PointsAssumption == Coords \subseteq Int /\ MaxPoints \in Nat

Points == Coords \X Coords
None   == <<>>

VARIABLES list, heap,
          fault,       \* a null pointer was followed
          ret,         \* what the last call returned, and in *ret
          held,        \* history: how often a point was added and not removed
          misplaced    \* history: some point was put before a smaller head

pointVars == <<list, heap, fault, ret, held, misplaced>>

PointInit ==
    /\ list = <<>> /\ heap = 1 /\ fault = FALSE /\ ret = <<1, None>>
    /\ held = [p \in Points |-> 0] /\ misplaced = FALSE

\* The square of the distance from the origin, which orders as the distance.
Distance2(p) == p[1] * p[1] + p[2] * p[2]
point_compare(p, q) ==
    IF Distance2(p) > Distance2(q) THEN 1
    ELSE IF Distance2(p) < Distance2(q) THEN -1 ELSE 0

\* Mutants
FartherOrEqual(p, q) == Distance2(p) > Distance2(q) \/ p = q

\* The comparison in returnPrev: p belongs behind q.
Behind(p, q) ==
    \/ point_compare(p, q) = 1
    \/ point_compare(p, q) = 0 /\ p[1] > q[1]
    \/ point_compare(p, q) = 0 /\ p[1] = q[1] /\ p[2] > q[2]

\* The node that returnPrev returns, 0 for NULL: the head is not compared.
ReturnPrev(p) ==
    IF list = <<>> THEN 0
    ELSE CHOOSE k \in 1..Len(list) :
            /\ \A j \in 2..k : Behind(p, list[j])
            /\ k < Len(list) => ~Behind(p, list[k + 1])

\* The place where sp_add_point links the new node in.
Place(p) == IF ReturnPrev(p) <= 1 THEN 1 ELSE ReturnPrev(p) + 1

Alive == ~fault /\ heap > 0

sp_add_point(p) ==
    /\ Alive /\ Len(list) < MaxPoints
    /\ list' = InsertAt(list, Place(p), p)
    /\ heap' = heap + 2
    /\ ret' = <<1, None>>
    /\ held' = [held EXCEPT ![p] = @ + 1]
    /\ misplaced' = (misplaced \/ (Place(p) = 1 /\ list # <<>> /\ Behind(p, list[1])))
    /\ UNCHANGED fault

\* Element k is unlinked, returned and freed.
Take(k) ==
    /\ list' = RemoveAt(list, k)
    /\ heap' = heap - 2
    /\ ret' = <<1, list[k]>>
    /\ held' = [held EXCEPT ![list[k]] = @ - 1]
    /\ UNCHANGED <<fault, misplaced>>

Refuse ==
    /\ ret' = <<0, None>>
    /\ UNCHANGED <<list, heap, fault, held, misplaced>>

sp_remove_first == Alive /\ IF list = <<>> THEN Refuse ELSE Take(1)
sp_remove_last  == Alive /\ IF list = <<>> THEN Refuse ELSE Take(Len(list))

\* With one element removeNode is NULL, and any index but 0 follows it.  A
\* negative index takes the second element.
sp_remove_by_index(index) ==
    /\ Alive
    /\ IF list = <<>> THEN Refuse
       ELSE IF Len(list) = 1 /\ index # 0
       THEN fault' = TRUE /\ UNCHANGED <<list, heap, ret, held, misplaced>>
       ELSE IF index >= Len(list) THEN Refuse
       ELSE Take(IF index < 0 THEN 2 ELSE index + 1)

\* The elements that differ from the one before them are kept; where the k-th
\* of them was.
Distinct  == {k \in 1..Len(list) : k = 1 \/ list[k] # list[k - 1]}
KeptAt(k) == CHOOSE j \in Distinct : Cardinality(Distinct \cap 1..j) = k

\* One of each point is what the caller asked to keep; out of order, whatever
\* is kept.
sp_delete_duplicates ==
    LET kept == Cardinality(Distinct)
    IN /\ Alive
       /\ list' = [k \in 1..kept |-> list[KeptAt(k)]]
       /\ heap' = heap - 2 * (Len(list) - kept)
       /\ ret' = <<Len(list) - kept, None>>
       /\ held' = [p \in Points |->
                      IF misplaced THEN Cardinality({k \in 1..kept : list'[k] = p})
                      ELSE IF held[p] = 0 THEN 0 ELSE 1]
       /\ UNCHANGED <<fault, misplaced>>

\* delete frees from the end: of each element its point and the node after
\* it; sp_destroy frees the head and the list.
FreedFrom(s) == Len(s) + (IF s = <<>> THEN 0 ELSE Len(s) - 1)
sp_destroy ==
    /\ Alive
    /\ heap' = heap - FreedFrom(list) - (IF list = <<>> THEN 0 ELSE 1) - 1
    /\ list' = <<>> /\ held' = [p \in Points |-> 0]
    /\ UNCHANGED <<fault, ret, misplaced>>

PointNext ==
    \/ \E p \in Points : sp_add_point(p)
    \/ sp_remove_first \/ sp_remove_last \/ sp_delete_duplicates \/ sp_destroy
    \/ \E index \in -1..MaxPoints : sp_remove_by_index(index)

PointSpec == PointInit /\ [][PointNext]_pointVars

-----------------------------------------------------------------------------
(* Properties.                                                             *)

\* sorted_points.h: by distance, then x, then y.
Sorted == \A j, k \in 1..Len(list) : j < k => ~Behind(list[j], list[k])

\* No operation loses, repeats or leaks a point: the list holds what was added
\* and not taken out.  It is in the order of sorted_points.h, and so deleting
\* duplicates leaves one of each point, unless some point was added that
\* belonged directly behind the head.
PointsSound ==
    /\ \A p \in Points : held[p] = Cardinality({k \in 1..Len(list) : list[k] = p})
    /\ heap \in {0, 1 + 2 * Len(list)}
    /\ ~misplaced => Sorted

===============================================================================
