-------------------------- MODULE HashIter_proofs --------------------------
(***************************************************************************)
(* Proofs about the loop of aws_hash_table_foreach, for tables of any size:  *)
(* with the stubs the assertions of done and delete never fail; with the    *)
(* library's iterator the table stays valid, every element is visited once  *)
(* and no step but a deletion does what the stubs may not do.               *)
(***************************************************************************)
EXTENDS MCHashIter, FiniteSetTheorems, WellFoundedInduction, TLAPS

(* With the stubs. *)

(* None of the three is inductive on its own: that done agrees with the     *)
(* status needs a slot within the limit, and so does the limit's type.     *)
IInv == TypeOK /\ DoneAgreesWithStatus /\ SlotIsWithinLimit

(* What a decrement of entry_count leaves is a size_t, also that of 0.      *)
LEMMA DecrementWraps ==
    ASSUME NEW M \in Nat, NEW c \in 0 .. M
    PROVE  (c - 1) % (M + 1) \in 0 .. M
<1>1. ASSUME NEW a \in Int, NEW b \in Nat \ {0} PROVE a % b \in 0 .. b - 1
  OBVIOUS
<1>2. c - 1 \in Int /\ M + 1 \in Nat \ {0}
  OBVIOUS
<1>3. (c - 1) % (M + 1) \in 0 .. (M + 1) - 1
  BY <1>1, <1>2
<1> QED
  BY <1>3

LEMMA InitInv == Init => IInv
  BY SizesAreNat, SizeMaxIsNat DEF Init, IInv, TypeOK, DoneAgreesWithStatus, SlotIsWithinLimit

LEMMA NextInv == IInv /\ [Next]_vars => IInv'
<1> SUFFICES ASSUME IInv, [Next]_vars PROVE IInv'
  OBVIOUS
<1> USE DEF IInv, TypeOK, DoneAgreesWithStatus, SlotIsWithinLimit
<1> size \in Nat /\ slot \in Int /\ limit \in Int /\ entry_count \in Int
  BY SizesAreNat, SizeMaxIsNat
<1>1. CASE Begin
  BY <1>1 DEF Begin, StatusAt
<1>2. CASE Done
  BY <1>2 DEF Done
<1>3. CASE Callback
  BY <1>3 DEF Callback
<1>4. CASE Delete
  <2>1. entry_count' \in 0 .. SizeMax
    BY <1>4, DecrementWraps, SizeMaxIsNat DEF Delete
  <2>2. limit' \in 0 .. size /\ slot' = slot /\ slot' <= limit'
    BY <1>4 DEF Delete
  <2> QED
    BY <1>4, <2>1, <2>2 DEF Delete
<1>5. CASE NextSlot
  <2>1. CASE slot = limit
    BY <1>5, <2>1 DEF NextSlot
  <2>2. CASE slot # limit
    <3>1. slot' \in slot + 1 .. limit /\ limit' = limit
      BY <1>5, <2>2 DEF NextSlot
    <3>2. slot' \in 0 .. size /\ slot' <= limit'
      BY <3>1
    <3>3. status' \in {"DONE", "READY_FOR_USE"} /\ (slot' = limit' <=> status' = "DONE")
      BY <1>5, <2>2, <3>1 DEF NextSlot, StatusAt
    <3> QED
      BY <1>5, <3>1, <3>2, <3>3 DEF NextSlot
  <2> QED
    BY <2>1, <2>2
<1>6. CASE UNCHANGED vars
  BY <1>6 DEF vars
<1> QED
  BY <1>1, <1>2, <1>3, <1>4, <1>5, <1>6 DEF Next

LEMMA InvAlways == Spec => []IInv
  BY InitInv, NextInv, PTL DEF Spec

(* The variables keep their types for every set of table sizes: the limit   *)
(* that delete shortens never wraps.                                       *)
THEOREM TypeCorrect == Spec => []TypeOK
<1>1. IInv => TypeOK
  BY DEF IInv
<1> QED
  BY <1>1, InvAlways, PTL

(* The assertion in the stub of done never fails, in any table. *)
THEOREM DoneAssertionHolds == Spec => []DoneAgreesWithStatus
<1>1. IInv => DoneAgreesWithStatus
  BY DEF IInv
<1> QED
  BY <1>1, InvAlways, PTL

(* delete is only called before the limit, in any table. *)
THEOREM LimitIsRespected == Spec => []SlotIsWithinLimit
<1>1. IInv => SlotIsWithinLimit
  BY DEF IInv
<1> QED
  BY <1>1, InvAlways, PTL

-----------------------------------------------------------------------------
(* With the library's iterator. *)

(* Of the entries that are left, those have been visited that are in the     *)
(* slots before the next one the iterator looks at, or from its limit on.   *)
Seen(t, v, next, l) ==
    \A s \in 0 .. TableSize - 1 :
        t[s] # Lib!Vacant => v[t[s].key] = IF s < next \/ s >= l THEN 1 ELSE 0

Progress(next) == Seen(slots, visits, next, lib_limit)

(* The slot next looks at first: after a deletion the iterator's own again,  *)
(* through the largest size_t if that is slot 0.                           *)
Following == (lib_slot + 1) % (SizeMax + 1)

(* Between begin or next and the callback. *)
AtSlot ==
    /\ lib_status \in {"DONE", "READY_FOR_USE"}
    /\ lib_slot \in 0 .. lib_limit
    /\ lib_slot = lib_limit <=> lib_status = "DONE"
    /\ lib_slot < lib_limit => slots[lib_slot] # Lib!Vacant
    /\ Progress(lib_slot)

(* TableStaysValid and VisitedOnce are not inductive: which entries a step    *)
(* moves over the slots that were looked at is told by where the iterator   *)
(* and its limit are, and what has been visited by the slot it looks at.    *)
LibInv ==
    /\ Lib!TypeOK /\ Lib!TableStaysValid /\ Lib!VisitedOnce
    /\ lib_pc = "begin" => \A k \in Lib!Key : visits[k] = 0
    /\ lib_pc \in {"done", "callback"} => AtSlot
    /\ lib_pc = "callback" => lib_slot < lib_limit
    /\ lib_pc = "next" =>
           /\ Following \in 0 .. lib_limit /\ Progress(Following)
           /\ lib_status # "DELETE_CALLED" => lib_slot < lib_limit

-----------------------------------------------------------------------------
(* Slots are numbered modulo the size of the table. *)

Slot == 0 .. TableSize - 1

LEMMA Constants ==
    /\ TableSize \in Nat \ {0} /\ SizeMax \in Nat /\ TableSize <= SizeMax
    /\ Lib!Place = Slot
BY TableSizeIsASize, SizeMaxIsNat DEF Lib!Place, Slot

LEMMA RemainderIsUnique ==
    ASSUME NEW n \in Nat \ {0}, NEW a \in Int, NEW q \in Int, NEW r \in 0 .. n - 1,
           a = (n * q) + r
    PROVE  a % n = r
OBVIOUS

LEMMA RoundOnce ==
    ASSUME NEW n \in Nat \ {0}, NEW x \in Int
    PROVE  /\ x \in 0 .. n - 1 => x % n = x
           /\ x - n \in 0 .. n - 1 => x % n = x - n
           /\ x + n \in 0 .. n - 1 => x % n = x + n
<1>1. ASSUME x \in 0 .. n - 1 PROVE x % n = x
  <2>1. x = (n * 0) + x  OBVIOUS
  <2> QED  BY <1>1, <2>1, RemainderIsUnique
<1>2. ASSUME x - n \in 0 .. n - 1 PROVE x % n = x - n
  <2>1. x = (n * 1) + (x - n)  OBVIOUS
  <2> QED  BY <1>2, <2>1, RemainderIsUnique
<1>3. ASSUME x + n \in 0 .. n - 1 PROVE x % n = x + n
  <2>1. x = (n * (-1)) + (x + n) /\ -1 \in Int  OBVIOUS
  <2> QED  BY <1>3, <2>1, RemainderIsUnique
<1> QED  BY <1>1, <1>2, <1>3

(* How far slot u is behind slot s, and the slots next to u. *)
After(s, u) == (u - s) % TableSize
Succ(u) == (u + 1) % TableSize
Pred(u) == (u - 1) % TableSize

LEMMA AfterIs ==
    ASSUME NEW s \in Slot, NEW u \in Slot
    PROVE  /\ After(s, u) = IF s <= u THEN u - s ELSE (u - s) + TableSize
           /\ After(s, u) \in Slot
<1>1. u - s \in Int /\ TableSize \in Nat \ {0}  BY Constants DEF Slot
<1>2. s <= u => u - s \in 0 .. TableSize - 1  BY <1>1 DEF Slot
<1>3. ~(s <= u) => (u - s) + TableSize \in 0 .. TableSize - 1  BY <1>1 DEF Slot
<1>4. After(s, u) = IF s <= u THEN u - s ELSE (u - s) + TableSize
  BY <1>1, <1>2, <1>3, RoundOnce, Zenon DEF After
<1> QED  BY <1>2, <1>3, <1>4 DEF Slot

LEMMA NeighboursAre ==
    ASSUME NEW u \in Slot
    PROVE  /\ Succ(u) = IF u = TableSize - 1 THEN 0 ELSE u + 1
           /\ Pred(u) = IF u = 0 THEN TableSize - 1 ELSE u - 1
           /\ Succ(u) \in Slot /\ Pred(u) \in Slot
<1>1. u + 1 \in Int /\ u - 1 \in Int /\ TableSize \in Nat \ {0}  BY Constants DEF Slot
<1>2. Succ(u) = IF u = TableSize - 1 THEN 0 ELSE u + 1
  <2>1. CASE u = TableSize - 1
    <3>1. (u + 1) - TableSize = 0 /\ 0 \in 0 .. TableSize - 1  BY <1>1, <2>1
    <3> QED  BY <1>1, <2>1, <3>1, RoundOnce, Zenon DEF Succ
  <2>2. CASE u # TableSize - 1
    <3>1. u + 1 \in 0 .. TableSize - 1  BY <1>1, <2>2 DEF Slot
    <3> QED  BY <1>1, <2>2, <3>1, RoundOnce, Zenon DEF Succ
  <2> QED  BY <2>1, <2>2
<1>3. Pred(u) = IF u = 0 THEN TableSize - 1 ELSE u - 1
  <2>1. CASE u = 0
    <3>1. (u - 1) + TableSize = TableSize - 1 /\ TableSize - 1 \in 0 .. TableSize - 1
      BY <1>1, <2>1
    <3> QED  BY <1>1, <2>1, <3>1, RoundOnce, Zenon DEF Pred
  <2>2. CASE u # 0
    <3>1. u - 1 \in 0 .. TableSize - 1  BY <1>1, <2>2 DEF Slot
    <3> QED  BY <1>1, <2>2, <3>1, RoundOnce, Zenon DEF Pred
  <2> QED  BY <2>1, <2>2
<1> QED  BY <1>1, <1>2, <1>3 DEF Slot

LEMMA AfterNeighbours ==
    ASSUME NEW s \in Slot, NEW u \in Slot
    PROVE  /\ After(s, Succ(u)) = IF After(s, u) = TableSize - 1 THEN 0 ELSE After(s, u) + 1
           /\ After(s, Pred(u)) = IF After(s, u) = 0 THEN TableSize - 1 ELSE After(s, u) - 1
           /\ Succ(Pred(u)) = u /\ Pred(Succ(u)) = u
<1>1. Succ(u) \in Slot /\ Pred(u) \in Slot  BY NeighboursAre
<1> TableSize \in Nat \ {0}  BY Constants
<1>2. /\ After(s, u) = IF s <= u THEN u - s ELSE (u - s) + TableSize
      /\ After(s, Succ(u)) = IF s <= Succ(u) THEN Succ(u) - s ELSE (Succ(u) - s) + TableSize
      /\ After(s, Pred(u)) = IF s <= Pred(u) THEN Pred(u) - s ELSE (Pred(u) - s) + TableSize
  BY <1>1, AfterIs, Zenon
<1>3. After(s, Succ(u)) = IF After(s, u) = TableSize - 1 THEN 0 ELSE After(s, u) + 1
  BY <1>1, <1>2, NeighboursAre DEF Slot
<1>6. After(s, Pred(u)) = IF After(s, u) = 0 THEN TableSize - 1 ELSE After(s, u) - 1
  <2>1. CASE u = 0
    <3>1. Pred(u) = TableSize - 1  BY <2>1, NeighboursAre, Zenon
    <3> QED  BY <1>2, <2>1, <3>1 DEF Slot
  <2>2. CASE u # 0
    <3>1. Pred(u) = u - 1  BY <2>2, NeighboursAre, Zenon
    <3> QED  BY <1>2, <2>2, <3>1 DEF Slot
  <2> QED  BY <2>1, <2>2
<1>4. Succ(Pred(u)) = u  BY <1>1, NeighboursAre DEF Slot
<1>5. Pred(Succ(u)) = u  BY <1>1, NeighboursAre DEF Slot
<1> QED  BY <1>3, <1>4, <1>5, <1>6

LEMMA AfterIsOneToOne ==
    ASSUME NEW s \in Slot, NEW u \in Slot, NEW v \in Slot
    PROVE  /\ After(s, u) = After(s, v) => u = v
           /\ After(s, u) = 0 <=> u = s
<1>1. /\ After(s, u) = IF s <= u THEN u - s ELSE (u - s) + TableSize
      /\ After(s, v) = IF s <= v THEN v - s ELSE (v - s) + TableSize
  BY AfterIs, Zenon
<1> QED  BY <1>1, Constants DEF Slot

(* The slot k behind s. *)
LEMMA AfterAt ==
    ASSUME NEW s \in Slot, NEW k \in Slot
    PROVE  (s + k) % TableSize \in Slot /\ After(s, (s + k) % TableSize) = k
<1>1. s + k \in Int /\ TableSize \in Nat \ {0}  BY Constants DEF Slot
<1>2. CASE s + k < TableSize
  <2>1. s + k \in 0 .. TableSize - 1  BY <1>1, <1>2 DEF Slot
  <2>2. (s + k) % TableSize = s + k  BY <1>1, <2>1, RoundOnce, Zenon
  <2>3. s + k \in Slot /\ After(s, s + k) = k  BY <1>1, <2>1, AfterIs DEF Slot
  <2> QED  BY <2>2, <2>3
<1>3. CASE ~(s + k < TableSize)
  <2>1. (s + k) - TableSize \in 0 .. TableSize - 1  BY <1>1, <1>3 DEF Slot
  <2>2. (s + k) % TableSize = (s + k) - TableSize  BY <1>1, <2>1, RoundOnce, Zenon
  <2> DEFINE v == (s + k) - TableSize
  <2>3. v \in Slot /\ v < s  BY <1>1, <2>1 DEF Slot
  <2>4. After(s, v) = (v - s) + TableSize
    <3> HIDE DEF v
    <3> QED  BY <2>3, AfterIs DEF Slot
  <2>5. (v - s) + TableSize = k  BY <1>1 DEF Slot
  <2> QED  BY <2>2, <2>3, <2>4, <2>5
<1> QED  BY <1>2, <1>3

(* Every slot is at some distance behind s. *)
LEMMA AfterFinds ==
    ASSUME NEW s \in Slot, NEW u \in Slot
    PROVE  (s + After(s, u)) % TableSize = u
<1>1. After(s, u) \in Slot  BY AfterIs
<1> DEFINE v == (s + After(s, u)) % TableSize
<1>2. v \in Slot /\ After(s, v) = After(s, u)
  BY <1>1, AfterAt
<1> HIDE DEF v
<1>3. v = u  BY <1>2, AfterIsOneToOne
<1> QED  BY <1>3 DEF v

-----------------------------------------------------------------------------
(* What a deletion does to the table. *)

Table == [Slot -> Lib!Entry \cup {Lib!Vacant}]

(* Probe distances as distances between slots. *)
LEMMA EntryIs ==
    ASSUME NEW e \in Lib!Entry
    PROVE  /\ e # Lib!Vacant /\ e.home \in Slot /\ e.key \in Lib!Key
           /\ \A u : Lib!ProbeIdx(u, e) = After(e.home, u)
<1>1. e.home \in Slot /\ e.key \in Lib!Key
  BY Constants DEF Lib!Entry
<1>2. e # Lib!Vacant
  <2>1. e.key \in Nat  BY <1>1 DEF Lib!Key
  <2>2. Lib!Vacant.key = -1  BY DEF Lib!Vacant
  <2> QED  BY <2>1, <2>2
<1> QED  BY <1>1, <1>2 DEF Lib!ProbeIdx, After

LEMMA RobinHoodIs ==
    ASSUME NEW t \in Table
    PROVE  Lib!IsRobinHood(t) <=>
               /\ \A s, u \in Slot : s # u /\ t[s] # Lib!Vacant => t[s].key # t[u].key
               /\ \E s \in Slot : t[s] = Lib!Vacant
               /\ \A s \in Slot : t[s] # Lib!Vacant /\ After(t[s].home, s) > 0 =>
                      /\ t[Pred(s)] # Lib!Vacant
                      /\ After(t[Pred(s)].home, Pred(s)) >= After(t[s].home, s) - 1
BY Constants DEF Lib!IsRobinHood, Lib!ProbeIdx, After, Pred

(* LastMoved finds the slot before the first one at which moving stops. *)
LEMMA LastMovedIs ==
    ASSUME slots \in Table, Lib!IsRobinHood(slots), NEW s \in Slot, slots[s] # Lib!Vacant
    PROVE  /\ Lib!LastMoved(s) \in Slot
           /\ After(s, Lib!LastMoved(s)) < TableSize - 1
           /\ Lib!Stops(Succ(Lib!LastMoved(s)))
           /\ \A u \in Slot : After(s, u) \in 1 .. After(s, Lib!LastMoved(s)) => ~Lib!Stops(u)
<1> TableSize \in Nat \ {0}  BY Constants
<1> DEFINE At(k) == (s + k) % TableSize
           First(k) == Lib!Stops((s + k + 1) % TableSize) /\ \A j \in 1 .. k : ~Lib!Stops((s + j) % TableSize)
           n == CHOOSE k \in 0 .. TableSize - 1 : First(k)
<1>1. Lib!LastMoved(s) = At(n)
  BY DEF Lib!LastMoved
<1>2. PICK v \in Slot : slots[v] = Lib!Vacant
  BY RobinHoodIs
<1> DEFINE m == After(s, v)
<1>3. m \in 1 .. TableSize - 1 /\ At(m) = v /\ Lib!Stops(v)
  <2>1. v # s  BY <1>2
  <2>2. m \in Slot /\ m # 0  BY <2>1, AfterIs, AfterIsOneToOne, Zenon
  <2>3. At(m) = v  BY AfterFinds
  <2> QED  BY <1>2, <2>2, <2>3 DEF Lib!Stops, Slot
<1>4. \A k \in Slot : (s + k + 1) % TableSize = At(k + 1)
  BY DEF Slot
<1> DEFINE T == {k \in Slot : Lib!Stops(At(k + 1))}
           Less == {ss \in Nat \X Nat : ss[1] < ss[2]}
<1> HIDE DEF m
<1>5. m - 1 \in T /\ T \subseteq Nat
  <2>1. m - 1 \in Slot /\ (m - 1) + 1 = m  BY <1>3 DEF Slot
  <2>2. Lib!Stops(At((m - 1) + 1))  BY <1>3, <2>1
  <2> QED  BY <2>1, <2>2 DEF Slot
<1>6. PICK p \in T : \A q \in T : <<q, p>> \notin Less
  <2>1. IsWellFoundedOn(Less, Nat)
    BY NatLessThanWellFounded, Zenon DEF OpToRel
  <2> HIDE DEF T, Less
  <2> QED  BY <1>5, <2>1, WFMin
<1>7. p \in Slot /\ First(p)
  <2>1. p \in Slot /\ p \in Nat /\ Lib!Stops(At(p + 1))  BY DEF Slot
  <2>2. ASSUME NEW j \in 1 .. p PROVE ~Lib!Stops(At(j))
    <3>1. j - 1 \in Slot /\ j - 1 < p /\ (j - 1) + 1 = j /\ j - 1 \in Nat  BY <2>1 DEF Slot
    <3>2. j - 1 \notin T
      <4>1. <<j - 1, p>> \in Nat \X Nat /\ <<j - 1, p>>[1] = j - 1 /\ <<j - 1, p>>[2] = p
        BY <2>1, <3>1
      <4>2. <<j - 1, p>> \in Less  BY <3>1, <4>1
      <4> QED  BY <1>6, <4>2
    <3> QED  BY <3>1, <3>2
  <2> QED  BY <1>4, <2>1, <2>2
<1>8. n \in Slot /\ First(n)
  <2> HIDE DEF First
  <2>1. \E k \in 0 .. TableSize - 1 : First(k)  BY <1>7 DEF Slot
  <2> QED  BY <2>1 DEF Slot
<1> HIDE DEF n, T, Less
<1>9. n < m
  <2>1. ~(m \in 1 .. n)  BY <1>3, <1>8
  <2> QED  BY <1>3, <1>8, <2>1 DEF Slot
<1>10. n + 1 \in Slot /\ n < TableSize - 1  BY <1>3, <1>8, <1>9 DEF Slot
<1>11. At(n) \in Slot /\ After(s, At(n)) = n  BY <1>8, AfterAt
<1>12. Lib!Stops(Succ(At(n)))
  <2>1. Succ(At(n)) \in Slot /\ After(s, Succ(At(n))) = n + 1
    BY <1>10, <1>11, NeighboursAre, AfterNeighbours
  <2>2. At(n + 1) = Succ(At(n))
    <3>1. (s + After(s, Succ(At(n)))) % TableSize = Succ(At(n))  BY <2>1, AfterFinds
    <3> QED  BY <2>1, <3>1, Zenon
  <2>3. Lib!Stops(At(n + 1))  BY <1>4, <1>8
  <2> QED  BY <2>2, <2>3, Zenon
<1>13. ASSUME NEW u \in Slot, After(s, u) \in 1 .. n PROVE ~Lib!Stops(u)
  <2>1. (s + After(s, u)) % TableSize = u  BY AfterFinds
  <2>2. ~Lib!Stops((s + After(s, u)) % TableSize)  BY <1>8, <1>13
  <2> QED  BY <2>1, <2>2, Zenon
<1> HIDE DEF At
<1> QED  BY <1>1, <1>10, <1>11, <1>12, <1>13, Zenon

Last(s) == Lib!LastMoved(s)

(* Where the entry comes from that a slot other than the last has then. *)
Source(s, u) == IF After(s, u) < After(s, Last(s)) THEN Succ(u) ELSE u

Without(s) == [u \in Slot |-> IF u = Last(s) THEN Lib!Vacant ELSE slots[Source(s, u)]]

LEMMA RemoveEntryIs ==
    ASSUME NEW s \in Slot, Lib!RemoveEntry(s, Lib!LastMoved(s))
    PROVE  slots' = Without(s)
BY Constants DEF Lib!RemoveEntry, Without, Source, Last, After, Succ

LEMMA SourceIs ==
    ASSUME slots \in Table, Lib!IsRobinHood(slots), NEW s \in Slot, slots[s] # Lib!Vacant
    PROVE  /\ Last(s) \in Slot
           /\ \A u \in Slot : After(s, u) <= After(s, Last(s)) => slots[u] # Lib!Vacant
           /\ \A u \in Slot : After(s, u) \in 1 .. After(s, Last(s)) =>
                  After(slots[u].home, u) > 0
           /\ slots[Succ(Last(s))] # Lib!Vacant =>
                  After(slots[Succ(Last(s))].home, Succ(Last(s))) = 0
           /\ \A u \in Slot \ {Last(s)} : Source(s, u) \in Slot /\ Source(s, u) # s
           /\ \A u, v \in Slot \ {Last(s)} : Source(s, u) = Source(s, v) => u = v
<1> TableSize \in Nat \ {0}  BY Constants
<1> DEFINE last == Last(s)
           n == After(s, last)
<1>1. /\ last \in Slot /\ n < TableSize - 1 /\ Lib!Stops(Succ(last))
      /\ \A u \in Slot : After(s, u) \in 1 .. n => ~Lib!Stops(u)
  BY LastMovedIs DEF Last
<1>2. n \in Slot /\ Succ(last) \in Slot  BY <1>1, AfterIs, NeighboursAre
<1> HIDE DEF last
<1>3. ASSUME NEW u \in Slot, After(s, u) \in 1 .. n
      PROVE  slots[u] # Lib!Vacant /\ After(slots[u].home, u) > 0
  <2>1. slots[u] # Lib!Vacant /\ Lib!ProbeIdx(u, slots[u]) # 0
    BY <1>1, <1>3 DEF Lib!Stops
  <2>2. slots[u] \in Lib!Entry  BY <2>1 DEF Table
  <2>3. After(slots[u].home, u) # 0 /\ After(slots[u].home, u) \in Slot
    BY <2>1, <2>2, EntryIs, AfterIs
  <2> QED  BY <2>1, <2>3 DEF Slot
<1>4. ASSUME NEW u \in Slot, After(s, u) <= n PROVE slots[u] # Lib!Vacant
  <2>1. CASE After(s, u) = 0
    <3>1. u = s  BY <2>1, AfterIsOneToOne
    <3> QED  BY <3>1
  <2>2. CASE After(s, u) # 0
    <3>1. After(s, u) \in Slot  BY AfterIs
    <3>2. After(s, u) \in 1 .. n  BY <1>2, <1>4, <2>2, <3>1 DEF Slot
    <3> QED  BY <1>3, <3>2
  <2> QED  BY <2>1, <2>2
<1>5. ASSUME slots[Succ(last)] # Lib!Vacant
      PROVE  After(slots[Succ(last)].home, Succ(last)) = 0
  <2>1. slots[Succ(last)] \in Lib!Entry  BY <1>2, <1>5 DEF Table
  <2>2. Lib!ProbeIdx(Succ(last), slots[Succ(last)]) = 0  BY <1>1, <1>5 DEF Lib!Stops
  <2> QED  BY <2>1, <2>2, EntryIs
(* The distance of the source of a slot. *)
<1>6. ASSUME NEW u \in Slot \ {last}
      PROVE  /\ Source(s, u) \in Slot
             /\ After(s, u) < n => After(s, Source(s, u)) = After(s, u) + 1
             /\ ~(After(s, u) < n) => After(s, Source(s, u)) = After(s, u) /\ After(s, u) > n
             /\ After(s, u) \in Slot
  <2>1. After(s, u) \in Slot /\ After(s, u) # n
    BY <1>1, AfterIs, AfterIsOneToOne
  <2>2. CASE After(s, u) < n
    <3>1. Source(s, u) = Succ(u)  BY <2>2 DEF Source, last
    <3>2. Succ(u) \in Slot /\ After(s, Succ(u)) = After(s, u) + 1
      <4>1. After(s, u) # TableSize - 1  BY <1>1, <1>2, <2>1, <2>2 DEF Slot
      <4> QED  BY <4>1, NeighboursAre, AfterNeighbours
    <3> QED  BY <2>1, <2>2, <3>1, <3>2
  <2>3. CASE ~(After(s, u) < n)
    <3>1. Source(s, u) = u  BY <2>3 DEF Source, last
    <3>2. After(s, u) > n  BY <1>2, <2>1, <2>3 DEF Slot
    <3> QED  BY <2>1, <2>3, <3>1, <3>2
  <2> QED  BY <2>2, <2>3
<1>7. ASSUME NEW u \in Slot \ {last} PROVE Source(s, u) # s
  <2>1. After(s, Source(s, u)) # 0  BY <1>2, <1>6 DEF Slot
  <2> QED  BY <1>6, <2>1, AfterIsOneToOne
<1>8. ASSUME NEW u \in Slot \ {last}, NEW v \in Slot \ {last}, Source(s, u) = Source(s, v)
      PROVE  u = v
  <2>1. After(s, u) = After(s, v)
    <3>1. After(s, Source(s, u)) = After(s, Source(s, v))  BY <1>8
    <3>2. CASE After(s, u) < n /\ After(s, v) < n
      <4>1. After(s, u) + 1 = After(s, v) + 1  BY <1>6, <3>1, <3>2
      <4> QED  BY <1>6, <4>1 DEF Slot
    <3>3. CASE ~(After(s, u) < n) /\ ~(After(s, v) < n)
      BY <1>6, <3>1, <3>3
    <3>4. CASE After(s, u) < n /\ ~(After(s, v) < n)
      <4>1. After(s, u) + 1 = After(s, v) /\ After(s, v) > n  BY <1>6, <3>1, <3>4
      <4> QED  BY <1>2, <1>6, <3>4, <4>1 DEF Slot
    <3>5. CASE ~(After(s, u) < n) /\ After(s, v) < n
      <4>1. After(s, v) + 1 = After(s, u) /\ After(s, u) > n  BY <1>6, <3>1, <3>5
      <4> QED  BY <1>2, <1>6, <3>5, <4>1 DEF Slot
    <3> QED  BY <3>2, <3>3, <3>4, <3>5
  <2> QED  BY <2>1, AfterIsOneToOne
<1> QED  BY <1>1, <1>3, <1>4, <1>5, <1>6, <1>7, <1>8 DEF last

LEMMA WithoutIs ==
    ASSUME slots \in Table, Lib!IsRobinHood(slots), NEW s \in Slot, slots[s] # Lib!Vacant
    PROVE  Without(s) \in Table /\ Lib!IsRobinHood(Without(s))
<1> TableSize \in Nat \ {0}  BY Constants
<1> DEFINE t == Without(s)
           last == Last(s)
           n == After(s, last)
<1>1. /\ last \in Slot /\ n \in Slot /\ n < TableSize - 1
      /\ \A u \in Slot : After(s, u) \in 1 .. n => After(slots[u].home, u) > 0
      /\ slots[Succ(last)] # Lib!Vacant => After(slots[Succ(last)].home, Succ(last)) = 0
      /\ \A u \in Slot \ {last} : Source(s, u) \in Slot /\ Source(s, u) # s
      /\ \A u, v \in Slot \ {last} : Source(s, u) = Source(s, v) => u = v
  BY SourceIs, LastMovedIs, AfterIs DEF Last
<1>2. /\ t = [u \in Slot |-> t[u]]
      /\ t[last] = Lib!Vacant
      /\ \A u \in Slot \ {last} : t[u] = slots[Source(s, u)]
  BY <1>1 DEF Without
<1>3. \A u \in Slot : /\ After(s, u) < n => Source(s, u) = Succ(u)
                      /\ ~(After(s, u) < n) => Source(s, u) = u
  BY DEF Source
<1> HIDE DEF t, last
<1>4. t \in Table
  BY <1>1, <1>2 DEF Table
(* The probe sequence of an entry that is left has no hole, and who stands   *)
(* before it is no closer to home.                                         *)
<1>5. ASSUME NEW u \in Slot, t[u] # Lib!Vacant, After(t[u].home, u) > 0
      PROVE  /\ t[Pred(u)] # Lib!Vacant
             /\ After(t[Pred(u)].home, Pred(u)) >= After(t[u].home, u) - 1
  <2> DEFINE w == Source(s, u)
             d == After(s, u)
             p == After(t[u].home, u)
  <2>1. u # last /\ w \in Slot /\ t[u] = slots[w] /\ t[u] \in Lib!Entry /\ d \in Slot /\ d # n
    BY <1>1, <1>2, <1>4, <1>5, AfterIs, AfterIsOneToOne DEF Table
  <2>2. t[u].home \in Slot /\ p \in Slot
    <3>1. t[u].home \in Slot  BY <2>1, EntryIs
    <3> QED  BY <3>1, AfterIs
  <2>3. Pred(u) \in Slot /\ After(s, Pred(u)) = IF d = 0 THEN TableSize - 1 ELSE d - 1
    BY NeighboursAre, AfterNeighbours
  <2>4. ASSUME NEW v \in Slot, slots[v] # Lib!Vacant, After(slots[v].home, v) > 0
        PROVE  /\ slots[Pred(v)] # Lib!Vacant
               /\ After(slots[Pred(v)].home, Pred(v)) >= After(slots[v].home, v) - 1
    BY <2>4, RobinHoodIs
  <2>5. ASSUME NEW v \in Slot, slots[v] # Lib!Vacant
        PROVE  slots[v].home \in Slot /\ After(slots[v].home, v) \in Slot
    <3>1. slots[v] \in Lib!Entry  BY <2>5 DEF Table
    <3>2. slots[v].home \in Slot  BY <3>1, EntryIs
    <3> QED  BY <3>2, AfterIs
  <2> HIDE DEF w, d, p
  <2>6. CASE d < n
    <3>1. w = Succ(u) /\ Succ(u) \in Slot /\ Pred(w) = u
      BY <1>3, <2>6, NeighboursAre, AfterNeighbours DEF w, d
    <3>2. After(s, w) = d + 1
      BY <1>1, <2>1, <2>6, <3>1, AfterNeighbours DEF Slot, d
    <3>3. After(slots[w].home, w) = p + 1
      <4>1. After(slots[w].home, w) > 0  BY <1>1, <2>1, <2>6, <3>2 DEF Slot
      <4>2. After(t[u].home, Succ(u)) = IF p = TableSize - 1 THEN 0 ELSE p + 1
        BY <2>2, AfterNeighbours DEF p
      <4> QED  BY <2>1, <3>1, <4>1, <4>2
    <3>4. slots[u] # Lib!Vacant /\ After(slots[u].home, u) >= p
      <4>1. slots[w] # Lib!Vacant /\ p + 1 > 0  BY <1>5, <2>1, <2>2 DEF Slot
      <4>2. slots[u] # Lib!Vacant /\ After(slots[u].home, u) >= (p + 1) - 1
        BY <2>1, <2>4, <3>1, <3>3, <4>1
      <4> QED  BY <2>2, <4>2 DEF Slot
    <3>5. CASE d = 0
      <4>1. u = s /\ Pred(s) \in Slot /\ After(s, Pred(s)) = TableSize - 1
        BY <2>3, <3>5, AfterIsOneToOne DEF d
      <4>2. Pred(u) # last /\ Source(s, Pred(u)) = Pred(u)
        BY <1>1, <1>3, <4>1 DEF Slot
      <4>3. t[Pred(u)] = slots[Pred(u)]  BY <1>2, <2>3, <4>2
      <4>4. After(slots[u].home, u) > 0  BY <1>5, <2>2, <2>5, <3>4 DEF Slot, p
      <4>5. /\ slots[Pred(u)] # Lib!Vacant
            /\ After(slots[Pred(u)].home, Pred(u)) >= After(slots[u].home, u) - 1
        BY <2>4, <3>4, <4>4
      <4> QED  BY <2>2, <2>3, <2>5, <3>4, <4>3, <4>5 DEF Slot, p
    <3>6. CASE d # 0
      <4>1. After(s, Pred(u)) = d - 1  BY <2>3, <3>6
      <4>2. d \in 1 .. n /\ d - 1 < n  BY <1>1, <2>1, <2>6, <3>6 DEF Slot
      <4>3. Pred(u) # last /\ Source(s, Pred(u)) = u
        <5>1. After(s, Pred(u)) < n /\ After(s, Pred(u)) # n
          BY <1>1, <2>1, <4>1, <4>2 DEF Slot
        <5>2. Source(s, Pred(u)) = Succ(Pred(u))  BY <1>3, <2>3, <5>1
        <5> QED  BY <5>1, <5>2, AfterNeighbours
      <4>4. t[Pred(u)] = slots[u]  BY <1>2, <2>3, <4>3
      <4>5. After(slots[u].home, u) > 0  BY <1>1, <4>2 DEF d
      <4>6. After(slots[u].home, Pred(u)) = After(slots[u].home, u) - 1
        <5>1. slots[u].home \in Slot  BY <2>5, <3>4
        <5>2. After(slots[u].home, u) # 0  BY <4>5
        <5> QED  BY <5>1, <5>2, AfterNeighbours
      <4> QED  BY <2>2, <2>5, <3>4, <4>4, <4>6 DEF Slot, p
    <3> QED  BY <3>5, <3>6
  <2>7. CASE ~(d < n)
    <3>1. w = u /\ d > n  BY <1>1, <1>3, <2>1, <2>7 DEF Slot, d, w
    <3>2. /\ slots[u] # Lib!Vacant /\ After(slots[u].home, u) = p
          /\ slots[Pred(u)] # Lib!Vacant
          /\ After(slots[Pred(u)].home, Pred(u)) >= p - 1
      <4>1. slots[u] # Lib!Vacant /\ After(slots[u].home, u) > 0 /\ After(slots[u].home, u) = p
        BY <1>5, <2>1, <3>1 DEF p
      <4> QED  BY <2>4, <4>1
    <3>3. After(s, Pred(u)) = d - 1  BY <1>1, <2>1, <2>3, <3>1 DEF Slot
    <3>4. Pred(u) # last
      <4>1. ASSUME Pred(u) = last PROVE FALSE
        <5>1. u = Succ(last)  BY <4>1, AfterNeighbours
        <5>2. After(slots[u].home, u) = 0  BY <1>1, <3>2, <5>1
        <5> QED  BY <1>5, <3>2, <5>2 DEF p
      <4> QED  BY <4>1
    <3>5. Source(s, Pred(u)) = Pred(u)
      <4>1. ~(After(s, Pred(u)) < n)  BY <1>1, <2>1, <3>1, <3>3 DEF Slot
      <4> QED  BY <1>3, <2>3, <4>1
    <3>6. t[Pred(u)] = slots[Pred(u)]  BY <1>2, <2>3, <3>4, <3>5
    <3> QED  BY <3>2, <3>6 DEF p
  <2> QED  BY <2>6, <2>7
<1>6. ASSUME NEW u \in Slot, NEW v \in Slot, u # v, t[u] # Lib!Vacant PROVE t[u].key # t[v].key
  <2>1. u # last /\ t[u] \in Lib!Entry /\ t[u] = slots[Source(s, u)] /\ Source(s, u) \in Slot
    BY <1>1, <1>2, <1>4, <1>6 DEF Table
  <2>2. CASE v = last
    <3>1. t[u].key \in Nat  BY <2>1, EntryIs DEF Lib!Key
    <3>2. t[v].key = -1  BY <1>2, <2>2 DEF Lib!Vacant
    <3> QED  BY <3>1, <3>2
  <2>3. CASE v # last
    <3>1. Source(s, v) \in Slot /\ t[v] = slots[Source(s, v)] /\ Source(s, u) # Source(s, v)
      BY <1>1, <1>2, <1>6, <2>1, <2>3
    <3>2. slots[Source(s, u)] # Lib!Vacant  BY <1>6, <2>1
    <3> QED  BY <2>1, <3>1, <3>2, RobinHoodIs
  <2> QED  BY <2>2, <2>3
<1>7. Lib!IsRobinHood(t)
  BY <1>1, <1>2, <1>4, <1>5, <1>6, RobinHoodIs, Zenon
<1> QED  BY <1>4, <1>7 DEF t

LEMMA OccupiedWithout ==
    ASSUME slots \in Table, Lib!IsRobinHood(slots), NEW s \in Slot, slots[s] # Lib!Vacant
    PROVE  /\ {u \in Slot : Without(s)[u] # Lib!Vacant} = {u \in Slot : slots[u] # Lib!Vacant} \ {Last(s)}
           /\ Last(s) \in {u \in Slot : slots[u] # Lib!Vacant}
<1> TableSize \in Nat \ {0}  BY Constants
<1> DEFINE last == Last(s)
           n == After(s, last)
<1>1. /\ last \in Slot /\ n \in Slot /\ n < TableSize - 1
      /\ \A u \in Slot : After(s, u) <= n => slots[u] # Lib!Vacant
  BY SourceIs, LastMovedIs, AfterIs DEF Last
<1>2. ASSUME NEW u \in Slot
      PROVE  Without(s)[u] # Lib!Vacant <=> slots[u] # Lib!Vacant /\ u # last
  <2>1. CASE u = last  BY <1>2, <2>1 DEF Without
  <2>2. CASE u # last
    <3>1. Without(s)[u] = slots[Source(s, u)]  BY <1>2, <2>2 DEF Without
    <3>2. CASE After(s, u) < n
      <4>1. Source(s, u) = Succ(u)  BY <3>2 DEF Source
      <4>2. Succ(u) \in Slot /\ After(s, Succ(u)) = After(s, u) + 1
        <5>1. After(s, u) # TableSize - 1  BY <1>1, <3>2, AfterIs DEF Slot
        <5> QED  BY <5>1, NeighboursAre, AfterNeighbours
      <4>3. After(s, Succ(u)) <= n /\ After(s, u) <= n
        <5>1. After(s, u) \in Slot  BY AfterIs
        <5> HIDE DEF n
        <5> QED  BY <1>1, <3>2, <4>2, <5>1 DEF Slot
      <4>4. slots[Succ(u)] # Lib!Vacant /\ slots[u] # Lib!Vacant  BY <1>1, <4>2, <4>3
      <4> QED  BY <2>2, <3>1, <4>1, <4>4
    <3>3. CASE ~(After(s, u) < n)
      <4>1. Source(s, u) = u  BY <3>3 DEF Source
      <4> QED  BY <2>2, <3>1, <4>1
    <3> QED  BY <3>2, <3>3
  <2> QED  BY <2>1, <2>2
<1>3. slots[last] # Lib!Vacant
  <2> HIDE DEF last
  <2> QED  BY <1>1 DEF Slot
<1> QED  BY <1>1, <1>2, <1>3

(* The number of the entries of a table, as the library's module counts them. *)
LEMMA Counting ==
    ASSUME NEW S \in SUBSET Slot
    PROVE  /\ Lib!Cardinality(S) \in Nat
           /\ \A x \in S : Lib!Cardinality(S \ {x}) = Lib!Cardinality(S) - 1
<1>1. IsFiniteSet(S)
  <2>1. IsFiniteSet(Slot)  BY Constants, FS_Interval DEF Slot
  <2> QED  BY <2>1, FS_Subset
<1>2. \A T : Lib!Cardinality(T) = Cardinality(T)
  BY Zenon DEF Lib!Cardinality, Cardinality
<1>3. Cardinality(S) \in Nat /\ \A x \in S : Cardinality(S \ {x}) = Cardinality(S) - 1
  BY <1>1, FS_RemoveElement, FS_CardinalityType
<1> QED  BY <1>2, <1>3

(* The limit a deletion leaves: it gives way when an entry comes from beyond *)
(* it.  The entries stay on their side of the slot and the limit.           *)
LimitWithout(s, l) == IF Last(s) < s \/ Last(s) >= l THEN l - 1 ELSE l

LEMMA EntriesStayBehind ==
    ASSUME slots \in Table, Lib!IsRobinHood(slots), NEW s \in Slot, slots[s] # Lib!Vacant,
           NEW l \in 0 .. TableSize, s < l, NEW u \in Slot \ {Last(s)}
    PROVE  (u < s \/ u >= LimitWithout(s, l)) <=> (Source(s, u) < s \/ Source(s, u) >= l)
<1> TableSize \in Nat \ {0}  BY Constants
<1> DEFINE last == Last(s)
           m == LimitWithout(s, l)
           w == Source(s, u)
<1>1. last \in Slot  BY SourceIs
<1>2. m = IF last < s \/ last >= l THEN l - 1 ELSE l
  BY DEF LimitWithout
<1>3. /\ After(s, u) = IF s <= u THEN u - s ELSE (u - s) + TableSize
      /\ After(s, last) = IF s <= last THEN last - s ELSE (last - s) + TableSize
  BY <1>1, AfterIs, Zenon
<1>4. w = IF After(s, u) < After(s, last) THEN Succ(u) ELSE u
  BY DEF Source
<1>5. Succ(u) = IF u = TableSize - 1 THEN 0 ELSE u + 1
  BY NeighboursAre, Zenon
<1>6. u # last  OBVIOUS
<1> HIDE DEF last, m, w
<1>7. (u < s \/ u >= m) <=> (w < s \/ w >= l)
  BY <1>1, <1>2, <1>3, <1>4, <1>5, <1>6 DEF Slot
<1> QED  BY <1>7 DEF m, w

(* What a deletion leaves has been visited or not as before. *)
LEMMA SeenWithout ==
    ASSUME slots \in Table, Lib!IsRobinHood(slots), NEW s \in Slot, slots[s] # Lib!Vacant,
           NEW l \in 0 .. TableSize, s < l, NEW v \in [Lib!Key -> Nat], Seen(slots, v, s, l),
           NEW x
    PROVE  Seen(Without(s), [v EXCEPT ![slots[s].key] = x], s, LimitWithout(s, l))
<1>1. SUFFICES ASSUME NEW u \in Slot, Without(s)[u] # Lib!Vacant
               PROVE  [v EXCEPT ![slots[s].key] = x][Without(s)[u].key] =
                          IF u < s \/ u >= LimitWithout(s, l) THEN 1 ELSE 0
  BY DEF Seen, Slot
<1> DEFINE w == Source(s, u)
<1>2. /\ u # Last(s) /\ Without(s)[u] = slots[w] /\ slots[w] # Lib!Vacant
      /\ w \in Slot /\ w # s
  <2>1. u # Last(s) /\ Without(s)[u] = slots[w]  BY <1>1 DEF Without
  <2> QED  BY <1>1, <2>1, SourceIs
<1>3. (u < s \/ u >= LimitWithout(s, l)) <=> (w < s \/ w >= l)
  BY <1>2, EntriesStayBehind
<1> HIDE DEF w
<1>4. slots[w].key # slots[s].key  BY <1>2, RobinHoodIs
<1>5. slots[w].key \in Lib!Key
  <2>1. slots[w] \in Lib!Entry  BY <1>2 DEF Table
  <2> QED  BY <2>1, EntryIs
<1>6. v[slots[w].key] = IF w < s \/ w >= l THEN 1 ELSE 0
  BY <1>2 DEF Seen, Slot
<1>7. [v EXCEPT ![slots[s].key] = x][slots[w].key] = v[slots[w].key]
  BY <1>4, <1>5
<1> QED  BY <1>2, <1>3, <1>6, <1>7, Zenon

-----------------------------------------------------------------------------
(* The iterator goes to the first entry from a slot on. *)

LEMMA FirstEntryIs ==
    ASSUME slots \in Table, NEW l \in 0 .. TableSize, NEW start \in 0 .. l,
           Lib!GetNextElement(start, l)
    PROVE  /\ lib_slot' \in start .. l
           /\ lib_status' \in {"DONE", "READY_FOR_USE"}
           /\ lib_slot' = l <=> lib_status' = "DONE"
           /\ lib_slot' < l => slots[lib_slot'] # Lib!Vacant
           /\ \A s \in Slot : start <= s /\ s < lib_slot' => slots[s] = Lib!Vacant
<1> TableSize \in Nat \ {0}  BY Constants
<1> DEFINE found == {s \in Lib!Occupied : start <= s /\ s < l}
           first == CHOOSE s \in found : \A u \in found : s <= u
           Less == {ss \in Nat \X Nat : ss[1] < ss[2]}
<1>1. /\ found = {} => lib_slot' = l /\ lib_status' = "DONE"
      /\ found # {} => lib_slot' = first /\ lib_status' = "READY_FOR_USE"
  BY Zenon DEF Lib!GetNextElement
<1>2. /\ found \subseteq Nat
      /\ \A s : s \in found <=> s \in Slot /\ slots[s] # Lib!Vacant /\ start <= s /\ s < l
  BY Constants DEF Lib!Occupied, Slot
<1> HIDE DEF found
<1>3. CASE found = {}
  <2>1. lib_slot' = l /\ lib_status' = "DONE"  BY <1>1, <1>3
  <2>2. \A s \in Slot : start <= s /\ s < l => slots[s] = Lib!Vacant
    BY <1>2, <1>3
  <2> QED  BY <2>1, <2>2
<1>4. CASE found # {}
  <2>1. PICK p \in found : \A q \in found : <<q, p>> \notin Less
    <3>1. IsWellFoundedOn(Less, Nat)
      BY NatLessThanWellFounded, Zenon DEF OpToRel
    <3> HIDE DEF Less
    <3> QED  BY <1>2, <1>4, <3>1, WFMin
  <2>2. ASSUME NEW q \in found PROVE p <= q
    <3>1. p \in Nat /\ q \in Nat  BY <1>2
    <3>2. <<q, p>> \in Nat \X Nat /\ <<q, p>>[1] = q /\ <<q, p>>[2] = p  BY <3>1
    <3>3. ~(q < p)  BY <2>1, <3>2
    <3> QED  BY <3>1, <3>3
  <2>3. first \in found /\ \A u \in found : first <= u
    BY <2>1, <2>2
  <2> HIDE DEF first
  <2>4. first \in Slot /\ slots[first] # Lib!Vacant /\ start <= first /\ first < l
    BY <1>2, <2>3
  <2>5. ASSUME NEW s \in Slot, start <= s, s < first PROVE slots[s] = Lib!Vacant
    <3>1. s \notin found  BY <2>3, <2>4, <2>5 DEF Slot
    <3>2. s < l  BY <2>4, <2>5 DEF Slot
    <3> QED  BY <1>2, <2>5, <3>1, <3>2
  <2>6. first \in start .. l /\ first # l  BY <2>4 DEF Slot
  <2>7. lib_slot' = first /\ lib_status' = "READY_FOR_USE"  BY <1>1, <1>4
  <2> QED  BY <2>4, <2>5, <2>6, <2>7
<1> QED  BY <1>3, <1>4

(* What is between it and that slot is vacant: no entry is passed over. *)
LEMMA SeenUpTo ==
    ASSUME NEW t \in Table, NEW l \in 0 .. TableSize, NEW start \in 0 .. l, NEW next \in start .. l,
           \A s \in Slot : start <= s /\ s < next => t[s] = Lib!Vacant,
           NEW v, Seen(t, v, start, l)
    PROVE  Seen(t, v, next, l)
<1>1. SUFFICES ASSUME NEW s \in Slot, t[s] # Lib!Vacant
               PROVE  v[t[s].key] = IF s < next \/ s >= l THEN 1 ELSE 0
  BY DEF Seen, Slot
<1>2. v[t[s].key] = IF s < start \/ s >= l THEN 1 ELSE 0
  BY <1>1 DEF Seen, Slot
<1>3. ~(start <= s /\ s < next)  BY <1>1
<1>4. s < start <=> s < next
  BY <1>3, Constants DEF Slot
<1> QED  BY <1>2, <1>4

(* The entry that is given to the callback joins those that have been        *)
(* visited.                                                                *)
LEMMA SeenOneMore ==
    ASSUME NEW t \in Table, Lib!IsRobinHood(t), NEW s \in Slot, t[s] # Lib!Vacant,
           NEW l \in 0 .. TableSize, s < l, NEW v \in [Lib!Key -> Nat], Seen(t, v, s, l)
    PROVE  /\ v[t[s].key] = 0
           /\ Seen(t, [v EXCEPT ![t[s].key] = 1], s + 1, l)
<1> TableSize \in Nat \ {0}  BY Constants
<1>1. v[t[s].key] = 0
  <2>1. ~(s < s \/ s >= l)  BY DEF Slot
  <2> QED  BY <2>1 DEF Seen, Slot
<1>2. ASSUME NEW u \in Slot, t[u] # Lib!Vacant
      PROVE  [v EXCEPT ![t[s].key] = 1][t[u].key] = IF u < s + 1 \/ u >= l THEN 1 ELSE 0
  <2>1. t[u].key \in Lib!Key
    <3>1. t[u] \in Lib!Entry  BY <1>2 DEF Table
    <3> QED  BY <3>1, EntryIs
  <2>2. CASE u = s
    <3>1. u < s + 1  BY <2>2 DEF Slot
    <3> QED  BY <2>1, <2>2, <3>1
  <2>3. CASE u # s
    <3>1. t[u].key # t[s].key  BY <1>2, <2>3, RobinHoodIs
    <3>2. v[t[u].key] = IF u < s \/ u >= l THEN 1 ELSE 0  BY <1>2 DEF Seen, Slot
    <3>3. u < s + 1 <=> u < s  BY <2>3 DEF Slot
    <3>4. [v EXCEPT ![t[s].key] = 1][t[u].key] = v[t[u].key]  BY <2>1, <3>1
    <3> QED  BY <3>2, <3>3, <3>4, Zenon
  <2> QED  BY <2>2, <2>3
<1> QED  BY <1>1, <1>2 DEF Seen, Slot

(* The slot after the iterator's, also when that is the one before slot 0. *)
LEMMA SlotAfter ==
    ASSUME NEW s \in 0 .. TableSize, s < SizeMax \/ s < TableSize
    PROVE  /\ (s + 1) % (SizeMax + 1) = s + 1
           /\ (s - 1) % (SizeMax + 1) \in (0 .. TableSize) \cup {SizeMax}
           /\ (((s - 1) % (SizeMax + 1)) + 1) % (SizeMax + 1) = s
<1> DEFINE n == SizeMax + 1
<1>1. n \in Nat \ {0} /\ TableSize \in Nat \ {0} /\ TableSize <= SizeMax /\ SizeMax \in Nat
  BY Constants
<1>2. s + 1 \in 0 .. n - 1 /\ s \in 0 .. n - 1 /\ s + 1 \in Int /\ s - 1 \in Int /\ s \in Int
  BY <1>1
<1> HIDE DEF n
<1>3. (s + 1) % n = s + 1 /\ s % n = s  BY <1>1, <1>2, RoundOnce
<1>4. CASE s = 0
  <2>1. (s - 1) + n = SizeMax /\ SizeMax \in 0 .. n - 1
    BY <1>1, <1>4 DEF n
  <2>2. (s - 1) % n = SizeMax
    BY <1>1, <1>2, <2>1, RoundOnce, Zenon
  <2>3. SizeMax + 1 \in Int /\ (SizeMax + 1) - n = 0 /\ 0 \in 0 .. n - 1
    BY <1>1 DEF n
  <2>4. (SizeMax + 1) % n = 0
    BY <1>1, <2>3, RoundOnce, Zenon
  <2>5. (s - 1) % n \in (0 .. TableSize) \cup {SizeMax} /\ (((s - 1) % n) + 1) % n = s
    BY <1>4, <2>2, <2>4
  <2> QED  BY <1>3, <2>5 DEF n
<1>5. CASE s # 0
  <2>1. s - 1 \in 0 .. n - 1 /\ s - 1 \in 0 .. TableSize /\ (s - 1) + 1 = s  BY <1>1, <1>2, <1>5
  <2>2. (s - 1) % n = s - 1  BY <1>1, <1>2, <2>1, RoundOnce, Zenon
  <2>3. (s - 1) % n \in (0 .. TableSize) \cup {SizeMax} /\ (((s - 1) % n) + 1) % n = s
    BY <1>3, <2>1, <2>2
  <2> QED  BY <1>3, <2>3 DEF n
<1> QED  BY <1>4, <1>5

-----------------------------------------------------------------------------
(* Every step keeps the invariant. *)

LEMMA LibVariables ==
    ASSUME LibInv
    PROVE  /\ slots \in Table /\ Lib!IsRobinHood(slots)
           /\ lib_limit \in 0 .. TableSize /\ lib_limit \in Nat
           /\ visits \in [Lib!Key -> Nat] /\ visits \in [Lib!Key -> 0 .. 2]
           /\ \A k \in Lib!Key : visits[k] <= 1
           /\ lib_entry_count = Lib!Cardinality({u \in Slot : slots[u] # Lib!Vacant})
<1>1. /\ slots \in [Slot -> Lib!Entry \cup {Lib!Vacant}] /\ Lib!IsRobinHood(slots)
      /\ lib_limit \in 0 .. TableSize
      /\ visits \in [Lib!Key -> 0 .. 2]
      /\ \A k \in Lib!Key : visits[k] <= 1
  BY Constants DEF LibInv, Lib!TypeOK, Lib!TableStaysValid, Lib!VisitedOnce
<1>2. lib_entry_count = Lib!Cardinality({u \in Slot : slots[u] # Lib!Vacant})
  BY Constants, Zenon DEF LibInv, Lib!TableStaysValid, Lib!Occupied
<1> QED  BY <1>1, <1>2, Constants DEF Table

LEMMA LibInitInv == Lib!Init => LibInv
<1> SUFFICES ASSUME Lib!Init PROVE LibInv
  OBVIOUS
<1>1. Lib!TypeOK
  BY Constants DEF Lib!Init, Lib!TypeOK
<1>2. Lib!TableStaysValid
  BY DEF Lib!Init, Lib!TableStaysValid
<1>3. lib_pc = "begin" /\ \A k \in Lib!Key : visits[k] = 0
  BY DEF Lib!Init
<1> QED  BY <1>1, <1>2, <1>3 DEF LibInv, Lib!VisitedOnce

LEMMA LibIdleInv == LibraryIdle => LibInv
<1> SUFFICES ASSUME LibraryIdle PROVE LibInv
  OBVIOUS
<1>1. slots = [s \in Slot |-> Lib!Vacant] /\ slots \in Table
  BY Constants DEF LibraryIdle, Table
<1>2. Lib!TypeOK
  BY Constants DEF LibraryIdle, Lib!TypeOK
<1>3. Lib!IsRobinHood(slots)
  <2>1. 0 \in Slot  BY Constants DEF Slot
  <2>2. \A s \in Slot : slots[s] = Lib!Vacant  BY <1>1
  <2> QED  BY <1>1, <2>1, <2>2, RobinHoodIs
<1>4. Lib!Occupied = {}
  BY <1>1, Constants DEF Lib!Occupied
<1>5. Lib!Cardinality({}) = 0
  <2>1. Lib!Cardinality({}) = Cardinality({})  BY Zenon DEF Lib!Cardinality, Cardinality
  <2> QED  BY <2>1, FS_EmptySet
<1>6. Lib!TableStaysValid
  BY <1>3, <1>4, <1>5 DEF LibraryIdle, Lib!TableStaysValid
<1>7. lib_pc = "returned" /\ \A k \in Lib!Key : visits[k] = 0
  BY DEF LibraryIdle
<1> QED  BY <1>2, <1>6, <1>7 DEF LibInv, Lib!VisitedOnce

(* GetNextElement in a state: the iterator is at the slot it went to. *)
LEMMA GoesToSlot ==
    ASSUME LibInv, NEW l \in 0 .. TableSize, NEW start \in 0 .. l, Seen(slots, visits, start, l),
           Lib!GetNextElement(start, l), lib_limit' = l, UNCHANGED <<slots, visits>>
    PROVE  AtSlot' /\ lib_slot' \in (0 .. TableSize) \cup {SizeMax}
<1>1. slots \in Table  BY LibVariables
<1>2. /\ lib_slot' \in start .. l
      /\ lib_status' \in {"DONE", "READY_FOR_USE"}
      /\ lib_slot' = l <=> lib_status' = "DONE"
      /\ lib_slot' < l => slots[lib_slot'] # Lib!Vacant
      /\ \A s \in Slot : start <= s /\ s < lib_slot' => slots[s] = Lib!Vacant
  BY <1>1, FirstEntryIs
<1>3. Seen(slots, visits, lib_slot', l)
  BY <1>1, <1>2, SeenUpTo
<1>4. lib_slot' \in 0 .. l /\ lib_slot' \in 0 .. TableSize
  BY <1>2, Constants
<1>5. Progress(lib_slot)'
  BY <1>3 DEF Progress
<1> QED  BY <1>2, <1>4, <1>5 DEF AtSlot

LEMMA LibBeginInv == LibInv /\ Lib!Begin => LibInv'
<1> SUFFICES ASSUME LibInv, Lib!Begin PROVE LibInv'
  OBVIOUS
<1>1. /\ lib_pc = "begin" /\ lib_pc' = "done" /\ lib_limit' = TableSize
      /\ Lib!GetNextElement(0, TableSize)
      /\ UNCHANGED <<slots, visits>> /\ UNCHANGED <<slots, lib_entry_count, visits>>
  BY DEF Lib!Begin
<1>2. Seen(slots, visits, 0, TableSize)
  <2> SUFFICES ASSUME NEW s \in Slot, slots[s] # Lib!Vacant
               PROVE  visits[slots[s].key] = IF s < 0 \/ s >= TableSize THEN 1 ELSE 0
    BY DEF Seen, Slot
  <2>1. slots[s] \in Lib!Entry  BY LibVariables DEF Table
  <2>2. slots[s].key \in Lib!Key  BY <2>1, EntryIs
  <2>3. visits[slots[s].key] = 0  BY <1>1, <2>2 DEF LibInv
  <2> QED  BY <2>3, Constants DEF Slot
<1>3. 0 \in 0 .. TableSize /\ TableSize \in 0 .. TableSize  BY Constants
<1>4. AtSlot' /\ lib_slot' \in (0 .. TableSize) \cup {SizeMax}
  BY <1>1, <1>2, <1>3, GoesToSlot
<1>5. Lib!TypeOK' /\ Lib!TableStaysValid' /\ Lib!VisitedOnce'
  BY <1>1, <1>3, <1>4
     DEF LibInv, Lib!TypeOK, Lib!TableStaysValid, Lib!VisitedOnce, Lib!Occupied
<1> QED  BY <1>1, <1>4, <1>5 DEF LibInv

LEMMA LibDoneInv == LibInv /\ Lib!Done => LibInv'
<1> SUFFICES ASSUME LibInv, Lib!Done PROVE LibInv'
  OBVIOUS
<1>1. /\ lib_pc = "done" /\ AtSlot
      /\ lib_pc' = IF lib_slot = lib_limit THEN "returned" ELSE "callback"
      /\ UNCHANGED <<slots, lib_entry_count, lib_slot, lib_limit, lib_status, visits>>
  BY DEF Lib!Done, LibInv
<1>2. AtSlot'
  BY <1>1 DEF AtSlot, Progress
<1>3. lib_pc' = "callback" => lib_slot' < lib_limit'
  BY <1>1, LibVariables DEF AtSlot
<1>4. Lib!TypeOK' /\ Lib!TableStaysValid' /\ Lib!VisitedOnce'
  BY <1>1 DEF LibInv, Lib!TypeOK, Lib!TableStaysValid, Lib!VisitedOnce, Lib!Occupied
<1> QED  BY <1>1, <1>2, <1>3, <1>4 DEF LibInv

(* What the loop knows when it calls the callback. *)
LEMMA CallbackVisits ==
    ASSUME LibInv, lib_pc = "callback", Lib!Visit
    PROVE  /\ lib_slot \in Slot /\ lib_slot < lib_limit /\ lib_slot \in 0 .. TableSize
           /\ slots[lib_slot] # Lib!Vacant /\ slots[lib_slot].key \in Lib!Key
           /\ Seen(slots, visits, lib_slot, lib_limit)
           /\ visits' = [visits EXCEPT ![slots[lib_slot].key] = 1]
           /\ visits' \in [Lib!Key -> 0 .. 2] /\ \A k \in Lib!Key : visits'[k] <= 1
<1>1. /\ lib_slot \in Slot /\ lib_slot < lib_limit /\ lib_slot \in 0 .. TableSize
      /\ slots[lib_slot] # Lib!Vacant
      /\ Seen(slots, visits, lib_slot, lib_limit)
  BY LibVariables, Constants DEF LibInv, AtSlot, Progress, Slot
<1>2. slots[lib_slot].key \in Lib!Key
  <2>1. slots[lib_slot] \in Lib!Entry  BY <1>1, LibVariables DEF Table
  <2> QED  BY <2>1, EntryIs
<1>3. visits[slots[lib_slot].key] = 0
  BY <1>1, LibVariables, SeenOneMore
<1>4. visits' = [visits EXCEPT ![slots[lib_slot].key] = 1]
  BY <1>3 DEF Lib!Visit
<1>5. visits' \in [Lib!Key -> 0 .. 2] /\ \A k \in Lib!Key : visits'[k] <= 1
  BY <1>2, <1>4, LibVariables
<1> QED  BY <1>1, <1>2, <1>4, <1>5

LEMMA LibCallbackInv == LibInv /\ Lib!Callback => LibInv'
<1> SUFFICES ASSUME LibInv, Lib!Callback PROVE LibInv'
  OBVIOUS
<1>1. /\ lib_pc = "callback" /\ lib_pc' \in {"next", "returned"} /\ Lib!Visit
      /\ UNCHANGED <<slots, lib_entry_count, lib_slot, lib_limit, lib_status>>
  BY DEF Lib!Callback
<1>2. /\ lib_slot \in Slot /\ lib_slot < lib_limit /\ lib_slot \in 0 .. TableSize
      /\ slots[lib_slot] # Lib!Vacant
      /\ Seen(slots, visits, lib_slot, lib_limit)
      /\ visits' = [visits EXCEPT ![slots[lib_slot].key] = 1]
      /\ visits' \in [Lib!Key -> 0 .. 2] /\ \A k \in Lib!Key : visits'[k] <= 1
  BY <1>1, CallbackVisits
<1>3. Seen(slots, visits', lib_slot + 1, lib_limit)
  <2>1. Seen(slots, [visits EXCEPT ![slots[lib_slot].key] = 1], lib_slot + 1, lib_limit)
    BY <1>2, LibVariables, SeenOneMore
  <2> QED  BY <1>2, <2>1, Zenon
<1>4. Following = lib_slot + 1
  <2>1. lib_slot < TableSize  BY <1>2, Constants DEF Slot
  <2> QED  BY <1>2, <2>1, SlotAfter DEF Following
<1>5. Following' = lib_slot + 1 /\ Following' \in 0 .. lib_limit'
  <2>1. Following' = Following  BY <1>1 DEF Following
  <2>2. lib_slot + 1 \in 0 .. lib_limit  BY <1>2, LibVariables
  <2> QED  BY <1>1, <1>4, <2>1, <2>2, Zenon
<1>6. Progress(Following)'
  <2>1. Seen(slots', visits', Following', lib_limit')  BY <1>1, <1>3, <1>5, Zenon
  <2> QED  BY <2>1, Zenon DEF Progress
<1>7. lib_slot' < lib_limit'
  BY <1>1, <1>2
<1>8. Lib!TypeOK'
  BY <1>1, <1>2 DEF LibInv, Lib!TypeOK
<1>9. Lib!TableStaysValid' /\ Lib!VisitedOnce'
  BY <1>1, <1>2 DEF LibInv, Lib!TableStaysValid, Lib!VisitedOnce, Lib!Occupied
<1> QED  BY <1>1, <1>5, <1>6, <1>7, <1>8, <1>9 DEF LibInv

LEMMA LibDeleteInv == LibInv /\ Lib!Delete => LibInv'
<1> SUFFICES ASSUME LibInv, Lib!Delete PROVE LibInv'
  OBVIOUS
<1>1. /\ lib_pc = "callback" /\ lib_pc' \in {"next", "returned"} /\ Lib!Visit
      /\ Lib!RemoveEntry(lib_slot, Lib!LastMoved(lib_slot))
      /\ lib_limit' = LimitWithout(lib_slot, lib_limit)
      /\ lib_slot' = (lib_slot - 1) % (SizeMax + 1)
      /\ lib_status' = "DELETE_CALLED"
      /\ lib_entry_count' = lib_entry_count - 1
  BY DEF Lib!Delete, Lib!RemoveEntry, LimitWithout, Last
<1>2. /\ lib_slot \in Slot /\ lib_slot < lib_limit /\ lib_slot \in 0 .. TableSize
      /\ slots[lib_slot] # Lib!Vacant
      /\ Seen(slots, visits, lib_slot, lib_limit)
      /\ visits' = [visits EXCEPT ![slots[lib_slot].key] = 1]
      /\ visits' \in [Lib!Key -> 0 .. 2] /\ \A k \in Lib!Key : visits'[k] <= 1
  BY <1>1, CallbackVisits
<1>3. slots' = Without(lib_slot)
  BY <1>1, <1>2, RemoveEntryIs
<1>4. slots' \in Table /\ Lib!IsRobinHood(slots')
  BY <1>2, <1>3, LibVariables, WithoutIs
<1>5. /\ lib_limit' \in 0 .. TableSize /\ lib_slot \in 0 .. lib_limit'
  <2>1. lib_limit' = lib_limit - 1 \/ lib_limit' = lib_limit
    BY <1>1 DEF LimitWithout
  <2> QED  BY <1>2, <2>1, LibVariables, Constants DEF Slot
<1>6. /\ lib_slot' \in (0 .. TableSize) \cup {SizeMax}
      /\ Following' = lib_slot
  <2>1. lib_slot < TableSize  BY <1>2, Constants DEF Slot
  <2>2. /\ (lib_slot - 1) % (SizeMax + 1) \in (0 .. TableSize) \cup {SizeMax}
        /\ (((lib_slot - 1) % (SizeMax + 1)) + 1) % (SizeMax + 1) = lib_slot
    BY <1>2, <2>1, SlotAfter
  <2>3. Following' = (lib_slot' + 1) % (SizeMax + 1)  BY DEF Following
  <2> QED  BY <1>1, <2>2, <2>3, Zenon
<1>7. Progress(Following)' /\ Following' \in 0 .. lib_limit'
  <2>1. Seen(Without(lib_slot), [visits EXCEPT ![slots[lib_slot].key] = 1],
             lib_slot, LimitWithout(lib_slot, lib_limit))
    BY <1>2, LibVariables, SeenWithout
  <2>2. Seen(slots', visits', Following', lib_limit')
    BY <1>1, <1>2, <1>3, <1>6, <2>1, Zenon
  <2> QED  BY <1>5, <1>6, <2>2, Zenon DEF Progress
<1>8. lib_entry_count' = Lib!Cardinality({u \in Slot : slots'[u] # Lib!Vacant})
  <2> DEFINE S == {u \in Slot : slots[u] # Lib!Vacant}
  <2>1. /\ {u \in Slot : slots'[u] # Lib!Vacant} = S \ {Last(lib_slot)}
        /\ Last(lib_slot) \in S
    BY <1>2, <1>3, LibVariables, OccupiedWithout, Zenon
  <2>2. S \in SUBSET Slot /\ lib_entry_count = Lib!Cardinality(S)
    BY LibVariables
  <2> HIDE DEF S
  <2>3. Lib!Cardinality(S \ {Last(lib_slot)}) = Lib!Cardinality(S) - 1
    BY <2>1, <2>2, Counting
  <2> QED  BY <1>1, <2>1, <2>2, <2>3, Zenon
<1>9. Lib!TypeOK'
  BY <1>1, <1>2, <1>4, <1>5, <1>6, Constants DEF Lib!TypeOK, Table
<1>10. Lib!TableStaysValid' /\ Lib!VisitedOnce'
  <2>1. lib_entry_count' = Lib!Cardinality(Lib!Occupied')
    BY <1>8, Constants, Zenon DEF Lib!Occupied
  <2> QED  BY <1>2, <1>4, <2>1, Zenon DEF Lib!TableStaysValid, Lib!VisitedOnce
<1> QED  BY <1>1, <1>7, <1>9, <1>10 DEF LibInv

LEMMA LibNextSlotInv == LibInv /\ Lib!NextSlot => LibInv'
<1> SUFFICES ASSUME LibInv, Lib!NextSlot PROVE LibInv'
  OBVIOUS
<1>1. /\ lib_pc = "next" /\ lib_pc' = "done" /\ lib_limit' = lib_limit
      /\ Lib!GetNextElement(Following, lib_limit)
      /\ UNCHANGED <<slots, visits>> /\ UNCHANGED <<slots, lib_entry_count, visits>>
  BY DEF Lib!NextSlot, Following
<1>2. Following \in 0 .. lib_limit /\ Seen(slots, visits, Following, lib_limit)
  BY <1>1 DEF LibInv, Progress
<1>3. AtSlot' /\ lib_slot' \in (0 .. TableSize) \cup {SizeMax}
  <2> HIDE DEF Following
  <2> QED  BY <1>1, <1>2, LibVariables, GoesToSlot
<1>4. Lib!TypeOK' /\ Lib!TableStaysValid' /\ Lib!VisitedOnce'
  BY <1>1, <1>3
     DEF LibInv, Lib!TypeOK, Lib!TableStaysValid, Lib!VisitedOnce, Lib!Occupied
<1> QED  BY <1>1, <1>3, <1>4 DEF LibInv

LEMMA LibStutterInv == LibInv /\ UNCHANGED lib_vars => LibInv'
<1> SUFFICES ASSUME LibInv, UNCHANGED lib_vars PROVE LibInv'
  OBVIOUS
<1>1. UNCHANGED <<lib_pc, slots, lib_entry_count, lib_slot, lib_limit, lib_status, visits>>
  BY DEF lib_vars
<1>2. Lib!TypeOK' /\ Lib!TableStaysValid' /\ Lib!VisitedOnce'
  BY <1>1 DEF LibInv, Lib!TypeOK, Lib!TableStaysValid, Lib!VisitedOnce, Lib!Occupied
<1>3. Following' = Following /\ (AtSlot => AtSlot') /\ (Progress(Following) => Progress(Following)')
  BY <1>1 DEF Following, AtSlot, Progress
<1> QED  BY <1>1, <1>2, <1>3 DEF LibInv

LEMMA LibInvAlways == LoopSpec => []LibInv
<1>1. LoopInit => LibInv
  BY LibInitInv, LibIdleInv DEF LoopInit
<1>2. LibInv /\ [LoopNext]_<<vars, lib_vars>> => LibInv'
  <2> SUFFICES ASSUME LibInv, [LoopNext]_<<vars, lib_vars>> PROVE LibInv'
    OBVIOUS
  <2>1. CASE Lib!Next
    BY <2>1, LibBeginInv, LibDoneInv, LibCallbackInv, LibDeleteInv, LibNextSlotInv
       DEF Lib!Next
  <2>2. CASE UNCHANGED lib_vars
    BY <2>2, LibStutterInv
  <2>3. Lib!Next \/ UNCHANGED lib_vars
    BY DEF LoopNext
  <2> QED  BY <2>1, <2>2, <2>3
<1> QED  BY <1>1, <1>2, PTL DEF LoopSpec

(* aws_hash_iter_delete keeps a table of any size one in which every key is  *)
(* found, and entry_count the number of its entries.                       *)
THEOREM TableIsKept == LoopSpec => []TableStaysValid
<1>1. LibInv => TableStaysValid
  BY DEF LibInv, TableStaysValid
<1> QED  BY <1>1, LibInvAlways, PTL

(* aws_hash_table_foreach gives each element of a table of any size to the   *)
(* callback once, whatever is deleted under way, and misses none.           *)
THEOREM VisitsAreExact == LoopSpec => []EachIsVisitedOnce
<1>1. ASSUME LibInv PROVE EachIsVisitedOnce
  <2>1. Lib!VisitedOnce  BY <1>1 DEF LibInv
  <2>2. ASSUME lib_pc = "done", lib_status = "DONE", NEW s \in Lib!Occupied
        PROVE  visits[slots[s].key] = 1
    <3>1. AtSlot  BY <1>1, <2>2 DEF LibInv
    <3>2. lib_slot = lib_limit /\ Seen(slots, visits, lib_limit, lib_limit)
      BY <2>2, <3>1 DEF AtSlot, Progress
    <3>3. s \in Slot /\ slots[s] # Lib!Vacant  BY <2>2, Constants DEF Lib!Occupied
    <3>4. s < lib_limit \/ s >= lib_limit  BY <1>1, <3>3, LibVariables DEF Slot
    <3> QED  BY <3>2, <3>3, <3>4 DEF Seen, Slot
  <2> QED  BY <2>1, <2>2 DEF EachIsVisitedOnce, Lib!NoneIsMissed
<1> QED  BY <1>1, LibInvAlways, PTL

(* The stubs of begin, done and next may do, in a table of any size, what    *)
(* the library's functions do with an iterator no deletion has touched.     *)
THEOREM LibraryIsCovered == LoopSpec => CoveredByStubs
<1> DEFINE Covered == lib_status # "DELETE_CALLED" /\ lib_status' # "DELETE_CALLED" => Lib!Stubs!Next
<1>1. LibInv /\ [LoopNext]_<<vars, lib_vars>> => [Covered]_(Lib!vars)
  <2> SUFFICES ASSUME LibInv, [LoopNext]_<<vars, lib_vars>>,
                      lib_status # "DELETE_CALLED", lib_status' # "DELETE_CALLED"
               PROVE  Lib!Stubs!Next \/ UNCHANGED Lib!vars
    OBVIOUS
  <2>1. CASE Lib!Begin
    <3>1. /\ lib_pc = "begin" /\ lib_pc' = "done" /\ lib_limit' = TableSize
          /\ Lib!GetNextElement(0, TableSize)
          /\ UNCHANGED <<slots, lib_entry_count, visits>>
      BY <2>1 DEF Lib!Begin
    <3>2. 0 \in 0 .. TableSize /\ TableSize \in 0 .. TableSize  BY Constants
    <3>3. /\ lib_slot' \in 0 .. TableSize
          /\ lib_status' \in {"DONE", "READY_FOR_USE"}
          /\ lib_slot' = TableSize <=> lib_status' = "DONE"
      BY <3>1, <3>2, LibVariables, FirstEntryIs
    <3>4. Lib!Stubs!Begin
      BY <3>1, <3>3 DEF Lib!Stubs!Begin, Lib!Stubs!StatusAt
    <3> QED  BY <3>4 DEF Lib!Stubs!Next
  <2>2. CASE Lib!Done
    <3>1. Lib!Stubs!Done  BY <2>2 DEF Lib!Done, Lib!Stubs!Done
    <3> QED  BY <3>1 DEF Lib!Stubs!Next
  <2>3. CASE Lib!Callback
    <3>1. Lib!Stubs!Callback  BY <2>3 DEF Lib!Callback, Lib!Stubs!Callback
    <3> QED  BY <3>1 DEF Lib!Stubs!Next
  <2>4. CASE Lib!Delete
    BY <2>4 DEF Lib!Delete
  <2>5. CASE Lib!NextSlot
    <3>1. /\ lib_pc = "next" /\ lib_pc' = "done" /\ lib_limit' = lib_limit
          /\ Lib!GetNextElement(Following, lib_limit)
          /\ UNCHANGED <<slots, lib_entry_count, visits>>
      BY <2>5 DEF Lib!NextSlot, Following
    <3>2. Following \in 0 .. lib_limit /\ lib_slot < lib_limit
      BY <3>1 DEF LibInv
    <3> HIDE DEF Following
    <3>3. /\ lib_slot' \in Following .. lib_limit
          /\ lib_status' \in {"DONE", "READY_FOR_USE"}
          /\ lib_slot' = lib_limit <=> lib_status' = "DONE"
      BY <3>1, <3>2, LibVariables, FirstEntryIs
    <3>4. Following = lib_slot + 1
      <4>1. lib_slot \in (0 .. TableSize) \cup {SizeMax}  BY DEF LibInv, Lib!TypeOK
      <4>2. lib_slot \in 0 .. TableSize /\ lib_slot < TableSize
        BY <3>2, <4>1, LibVariables, Constants
      <4> QED  BY <4>2, SlotAfter DEF Following
    <3>5. Lib!Stubs!NextSlot
      BY <3>1, <3>2, <3>3, <3>4, LibVariables DEF Lib!Stubs!NextSlot, Lib!Stubs!StatusAt
    <3> QED  BY <3>5 DEF Lib!Stubs!Next
  <2>6. CASE UNCHANGED lib_vars
    BY <2>6 DEF lib_vars, Lib!vars
  <2> QED  BY <2>1, <2>2, <2>3, <2>4, <2>5, <2>6 DEF LoopNext, Lib!Next
<1> QED  BY <1>1, LibInvAlways, PTL DEF LoopSpec, CoveredByStubs, Lib!CoveredByStubs
=============================================================================
