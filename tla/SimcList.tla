------------------------------ MODULE SimcList ------------------------------
(***************************************************************************)
(* The list of simclist.c, in which the daemon and the client library keep *)
(* their contexts, handles and waiting clients: entries doubly linked      *)
(* between two sentinels, a pointer to the middle entry from which half of *)
(* the searches start, a pool of spare entries that insertions take from,  *)
(* and an iterator that freezes the list.  A list is a record; an          *)
(* operation returns the list it leaves and the value it returns.          *)
(*                                                                         *)
(* Entries are numbers, malloc takes the smallest that is not in use, and  *)
(* "freed" remembers what free was given until malloc takes it again.      *)
(***************************************************************************)
EXTENDS Integers, Sequences, FiniteSets, TLC

CONSTANTS MaxSpares   \* SIMCLIST_MAX_SPARE_ELEMS

ASSUME ListAssumption == MaxSpares \in Nat

Head_ == 0     \* head_sentinel
Tail_ == -1    \* tail_sentinel
Null == -2

\* list_init.
EmptyList ==
  [next |-> (Head_ :> Tail_), prev |-> (Tail_ :> Head_), data |-> <<>>,
   mid |-> Null, numels |-> 0, spareels |-> <<>>, freed |-> {},
   iter_active |-> FALSE, iter_pos |-> 0, iter_curentry |-> Null]

Put(f, x, v) == (x :> v) @@ f

\* The entry k links away from p.
Walk(link, p, k) ==
  LET entry[i \in 0..(IF k > 0 THEN k ELSE 0)] ==
        IF i = 0 THEN p ELSE link[entry[i - 1]]
  IN entry[IF k > 0 THEN k ELSE 0]

\* The chain as the code walks it, from the head.
Chain(l) == [i \in 1..l.numels |-> Walk(l.next, Head_, i)]
Contents(l) == [i \in 1..l.numels |-> l.data[Chain(l)[i]]]

Middle(n) == (n - 1) \div 2

Returns(l, value) == [list |-> l, value |-> value]

-----------------------------------------------------------------------------
(* Positions.                                                              *)

\* list_findpos: from the head, the middle or the tail, whichever is near.
\* In an empty list the quotient is no number, and the search starts from
\* the tail.
FindPos(l, pos) ==
  LET n == l.numels
      x == 4 * (pos + 1)
  IN IF n = 0 THEN Walk(l.prev, Tail_, n - pos)
     ELSE IF x <= n THEN Walk(l.next, Head_, pos + 1)
     ELSE IF x < 2 * n THEN Walk(l.prev, l.mid, Middle(n) - pos)
     ELSE IF x <= 3 * n THEN Walk(l.next, l.mid, pos - Middle(n))
     ELSE Walk(l.prev, Tail_, n - pos)

list_size(l) == l.numels

list_get_at(l, pos) ==
  IF pos > l.numels THEN Null
  ELSE LET e == FindPos(l, pos) IN IF e \in {Head_, Tail_} THEN Null ELSE l.data[e]

\* list_locate, with the comparator or by reference: the first that is equal.
list_locate(l, value) ==
  LET found == {i \in 1..l.numels : Contents(l)[i] = value}
  IN IF found = {} THEN -1 ELSE (CHOOSE i \in found : \A j \in found : i <= j) - 1

\* list_seek: the first element among those the seeker accepts.
list_seek(l, accepted) ==
  LET found == {i \in 1..l.numels : Contents(l)[i] \in accepted}
  IN IF found = {} THEN Null
     ELSE Contents(l)[CHOOSE i \in found : \A j \in found : i <= j]

-----------------------------------------------------------------------------
(* Entries.                                                                *)

Allocated(l) == {Chain(l)[i] : i \in 1..l.numels} \cup {l.spareels[i] : i \in 1..Len(l.spareels)}

Fresh(l) == CHOOSE e \in 1..(Cardinality(Allocated(l)) + 1) : e \notin Allocated(l)

\* An entry for an insertion: the last spare one, or a new one.
Spare(l) == l.spareels[Len(l.spareels)]
TakeEntry(l) ==
  IF Len(l.spareels) > 0
    THEN Returns([l EXCEPT !.spareels = SubSeq(@, 1, Len(@) - 1)], Spare(l))
    ELSE LET e == Fresh(l) IN Returns([l EXCEPT !.freed = @ \ {e}], e)

\* Entries that leave the chain become spare as long as there is room.
Recycle(l, entries) ==
  LET room == MaxSpares - Len(l.spareels)
      kept == IF Len(entries) <= room THEN Len(entries) ELSE IF room > 0 THEN room ELSE 0
  IN [l EXCEPT !.spareels = @ \o SubSeq(entries, 1, kept),
               !.freed = @ \cup {entries[i] : i \in (kept + 1)..Len(entries)}]

-----------------------------------------------------------------------------
(* Insertions and deletions.                                               *)

\* The middle entry once the list has n elements, the new one at pos.
MidAfterInsert(l, n, pos) ==
  IF n % 2 = 1
    THEN IF pos >= (n - 1) \div 2 THEN l.next[l.mid] ELSE l.mid
    ELSE IF pos <= (n - 1) \div 2 THEN l.prev[l.mid] ELSE l.mid

list_insert_at(l, value, pos) ==
  IF l.iter_active \/ pos > l.numels THEN Returns(l, -1)
  ELSE
    LET taken == TakeEntry(l)
        e == taken.value
        prec == FindPos(l, pos - 1)
        succ == l.next[prec]
        linked == [taken.list EXCEPT
                     !.data = Put(@, e, value),
                     !.next = Put(Put(@, e, succ), prec, e),
                     !.prev = Put(Put(@, e, prec), succ, e),
                     !.numels = @ + 1]
    IN Returns([linked EXCEPT !.mid = IF linked.numels = 1 THEN e
                                      ELSE MidAfterInsert(linked, linked.numels, pos)], 1)

list_append(l, value) == list_insert_at(l, value, l.numels)
list_prepend(l, value) == list_insert_at(l, value, 0)

\* Mutant: the middle of a list of odd length stays when it is what leaves.
MidAfterDropLate(l, pos) ==
  IF l.numels = 1 THEN Null
  ELSE IF l.numels % 2 = 1
    THEN IF pos > l.numels \div 2 THEN l.prev[l.mid] ELSE l.mid
    ELSE IF pos < l.numels \div 2 THEN l.next[l.mid] ELSE l.mid

\* The middle entry once the element at pos has left.
MidAfterDrop(l, pos) ==
  IF l.numels = 1 THEN Null
  ELSE IF l.numels % 2 = 1
    THEN IF pos >= l.numels \div 2 THEN l.prev[l.mid] ELSE l.mid
    ELSE IF pos < l.numels \div 2 THEN l.next[l.mid] ELSE l.mid

\* list_drop_elem, and the count its callers take off.
Drop(l, e, pos) ==
  Recycle([l EXCEPT !.mid = MidAfterDrop(l, pos),
                    !.next = Put(@, l.prev[e], l.next[e]),
                    !.prev = Put(@, l.next[e], l.prev[e]),
                    !.numels = @ - 1], <<e>>)

list_extract_at(l, pos) ==
  IF l.iter_active \/ pos >= l.numels THEN Returns(l, Null)
  ELSE LET e == FindPos(l, pos) IN Returns(Drop(l, e, pos), l.data[e])

list_fetch(l) == list_extract_at(l, 0)

list_delete_at(l, pos) ==
  IF l.iter_active \/ pos >= l.numels THEN Returns(l, -1)
  ELSE Returns(Drop(l, FindPos(l, pos), pos), 0)

list_delete(l, value) ==
  LET pos == list_locate(l, value)
  IN IF pos < 0 THEN Returns(l, -1) ELSE list_delete_at(l, pos)

list_clear(l) ==
  IF l.iter_active THEN Returns(l, -1)
  ELSE Returns([Recycle(l, Chain(l)) EXCEPT
                  !.next = Put(@, Head_, Tail_), !.prev = Put(@, Tail_, Head_),
                  !.numels = 0, !.mid = Null], l.numels)

list_delete_range(l, first, last) ==
  IF l.iter_active \/ last < first \/ last >= l.numels THEN Returns(l, -1)
  ELSE
    LET numdel == last - first + 1
        half == (l.numels - 1 - numdel) \div 2
        after == IF half < first THEN half ELSE half + numdel
        moved == after - Middle(l.numels)
        e == FindPos(l, first)
        lastvalid == l.prev[e]
        tmp == Walk(l.next, e, numdel)
    IN IF numdel = l.numels THEN list_clear(l)
       ELSE Returns([Recycle(l, [i \in 1..numdel |-> Walk(l.next, e, i - 1)]) EXCEPT
                       !.mid = IF moved > 0 THEN Walk(l.next, @, moved) ELSE Walk(l.prev, @, -moved),
                       !.next = Put(@, lastvalid, tmp),
                       !.prev = Put(@, tmp, lastvalid),
                       !.numels = @ - numdel], numdel)

\* list_concat copies both chains, the middle first at the end of the first.
list_concat(l1, l2) ==
  LET n == l1.numels + l2.numels
      err == l2.numels - l1.numels
      entries == Contents(l1) \o Contents(l2)
      next == [e \in 0..n |-> IF e = n THEN Tail_ ELSE e + 1]
      prev == [e \in (1..n) \cup {Tail_} |-> IF e = Tail_ THEN n ELSE e - 1]
      right == IF err + 1 >= 0 THEN (err + 1) \div 2 ELSE 0
      left == IF err < 0 THEN (-err) \div 2 ELSE 0
  IN IF n = 0 THEN EmptyList
     ELSE [EmptyList EXCEPT
             !.next = next, !.prev = prev, !.data = entries, !.numels = n,
             !.mid = IF right > 0 THEN Walk(next, l1.numels, right)
                     ELSE Walk(prev, l1.numels, left)]

-----------------------------------------------------------------------------
(* Iteration.                                                              *)

list_iterator_start(l) ==
  IF l.iter_active THEN Returns(l, 0)
  ELSE Returns([l EXCEPT !.iter_pos = 0, !.iter_active = TRUE,
                         !.iter_curentry = l.next[Head_]], 1)

list_iterator_hasnext(l) == l.iter_active /\ l.iter_pos < l.numels

list_iterator_next(l) ==
  IF ~l.iter_active THEN Returns(l, Null)
  ELSE Returns([l EXCEPT !.iter_curentry = l.next[@], !.iter_pos = @ + 1],
               l.data[l.iter_curentry])

list_iterator_stop(l) ==
  IF ~l.iter_active THEN Returns(l, 0)
  ELSE Returns([l EXCEPT !.iter_pos = 0, !.iter_active = FALSE], 1)

-----------------------------------------------------------------------------
(* list_repOk, what the code asserts of a list after every operation, and  *)
(* what it does not assert: no entry is both spare and in the chain, and   *)
(* none that was freed is still in use.                                    *)

RepOk(l) ==
  /\ Len(l.spareels) <= MaxSpares
  /\ l.numels = 0 => l.mid = Null /\ l.next[Head_] = Tail_ /\ l.prev[Tail_] = Head_
  /\ l.numels >= 1 =>
       /\ l.mid = Walk(l.next, Head_, Middle(l.numels) + 1)
       /\ Walk(l.next, Head_, l.numels + 1) = Tail_
       /\ \A i \in 0..l.numels : l.prev[Walk(l.next, Head_, i + 1)] = Walk(l.next, Head_, i)

EntriesOk(l) ==
  /\ Cardinality(Allocated(l)) = l.numels + Len(l.spareels)
  /\ Allocated(l) \cap l.freed = {}
=============================================================================
