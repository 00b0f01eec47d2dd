-------------------------- MODULE HashTable_proofs --------------------------
(***************************************************************************)
(* Proofs about HashTable, for every set of keys, every hash function and   *)
(* every size, provided that s_update_template_size stores the size it      *)
(* computes:                                                               *)
(*   - the types are right, the table implements the set of its keys, and   *)
(*     s_emplace_item only gets valid tables;                              *)
(*   - what the probing of s_emplace_item keeps true of a table (Robin      *)
(*     Hood's invariant and a vacant slot), and what follows: every key is  *)
(*     found, the counters are exact, a call takes at most linear time and  *)
(*     returns the slot of the new entry;                                  *)
(*   - the stubs of the SeaHorn branches cover this code.                  *)
(***************************************************************************)
EXTENDS HashTable, FiniteSetTheorems, WellFoundedInduction, TLAPS

(* The keys of the first n slots of t. *)
KeysBelow(t, n) == {t.slots[s].key : s \in {r \in Occupied(t) : r < n}}

InHand == IF pc = "emplace" THEN Held(entry) ELSE {}

(* An expansion has moved exactly the keys of the slots it has passed: they *)
(* are in the new table, or in the hand of s_emplace_item.                 *)
MovedSoFar ==
    /\ adding \in Key
    /\ new_state.size >= table.size
    /\ KeysOf(new_state) \cup InHand = KeysBelow(table, i)

IInv ==
    /\ TypeOK
    /\ pc = "idle" => ~Expanding
    /\ pc = "rehash" => Expanding
    /\ Expanding => MovedSoFar

-----------------------------------------------------------------------------

LEMMA HashForIsPositive ==
    ASSUME hash_fn \in [Key -> Hash], NEW k \in Key
    PROVE  HashFor(k) \in Nat /\ HashFor(k) # 0
  <1>1. hash_fn[k] \in Nat
    BY HashIsNat
  <1>2. CASE k = NullKey
    <2>1. HashFor(k) = 42
      BY <1>2, Zenon DEF HashFor
    <2>2. QED
      BY <2>1
  <1>3. CASE k # NullKey
    <2>1. HashFor(k) = IF hash_fn[k] = 0 THEN 1 ELSE hash_fn[k]
      BY <1>3, Zenon DEF HashFor
    <2>2. QED
      BY <1>1, <2>1
  <1>4. QED
    BY <1>2, <1>3

(* A new table has room and nothing in it. *)
LEMMA AllocStateIsGood ==
    ASSUME NEW n \in Nat \ {0}, NEW c \in Nat
    PROVE  /\ IsTable(AllocState(n, n, c))
           /\ AllocState(n, n, c).size = n
           /\ KeysOf(AllocState(n, n, c)) = {}
  <1>1. Vacant \in Entries /\ Vacant.hash_code = 0
    BY DEF Vacant, Entries
  <1>2. MaxLoad(n, n) \in Nat
    BY DEF MaxLoad
  <1>3. IsTable(AllocState(n, n, c)) /\ AllocState(n, n, c).size = n
    BY <1>1, <1>2 DEF IsTable, Slots, AllocState
  <1>4. Occupied(AllocState(n, n, c)) = {}
    BY <1>1 DEF Occupied, AllocState
  <1>5. QED
    BY <1>3, <1>4 DEF KeysOf

(* So has the table an expansion allocates, if the template knows its size. *)
LEMMA ExpandedTableIsGood ==
    ASSUME SizeIsStored, NEW t, IsTable(t), 2 * t.size <= MaxSize
    PROVE  /\ IsTable(ExpandedTable(t))
           /\ ExpandedTable(t).size >= t.size
           /\ KeysOf(ExpandedTable(t)) = {}
  <1>1. t.size \in Nat \ {0} /\ t.entry_count \in Nat
    BY DEF IsTable
  <1>2. 2 * t.size \in 2 .. MaxSize + 2
    BY <1>1, MaxSizeIsNat
  <1>3. TemplateSize(2 * t.size) \in Nat \ {0} /\ TemplateSize(2 * t.size) >= 2 * t.size
    BY <1>2, RoundUpIsUp, MaxSizeIsNat DEF TemplateSize
  <1>4. ExpandedTable(t) = AllocState(TemplateSize(2 * t.size), TemplateSize(2 * t.size),
                                      t.entry_count)
    BY DEF ExpandedTable
  <1>5. QED
    BY <1>1, <1>3, <1>4, AllocStateIsGood

(* A table is not the absence of one. *)
LEMMA TableIsATable ==
    ASSUME NEW t, IsTable(t)
    PROVE  t # NoTable
  BY DEF IsTable, NoTable

LEMMA SlotAtIsASlot ==
    ASSUME NEW t, IsTable(t), NEW h \in Nat, NEW p \in Nat
    PROVE  SlotAt(t, h, p) \in 0 .. t.size - 1
  BY DEF IsTable, SlotAt

LEMMA ProbeIdxIsNat ==
    ASSUME NEW t, IsTable(t), NEW s \in Nat, NEW e \in Entries
    PROVE  ProbeIdx(t, s, e) \in Nat
  BY DEF IsTable, ProbeIdx, Entries

LEMMA CountingKeepsTable ==
    ASSUME NEW t, IsTable(t), NEW u, u = [t EXCEPT !.entry_count = @ + 1]
    PROVE  IsTable(u) /\ u.size = t.size /\ u.slots = t.slots
  BY DEF IsTable, Slots

(* Putting e into slot s and taking out what was there loses no key. *)
LEMMA SwapKeepsKeys ==
    ASSUME NEW t, IsTable(t), NEW s \in 0 .. t.size - 1,
           NEW e \in Entries, e.hash_code # 0,
           NEW u, u = [t EXCEPT !.slots[s] = e]
    PROVE  /\ IsTable(u) /\ u.size = t.size
           /\ t.slots[s] \in Entries
           /\ KeysOf(u) \cup Held(t.slots[s]) = KeysOf(t) \cup Held(e)
  <1>1. u.slots = [t.slots EXCEPT ![s] = e] /\ u.size = t.size
    BY DEF IsTable
  <1>2. IsTable(u)
    BY <1>1 DEF IsTable, Slots
  <1>3. /\ DOMAIN u.slots = DOMAIN t.slots
        /\ u.slots[s] = e
        /\ \A r \in DOMAIN t.slots : r # s => u.slots[r] = t.slots[r]
        /\ s \in DOMAIN t.slots
        /\ t.slots[s] \in Entries
    BY <1>1 DEF IsTable, Slots
  <1>4. QED
    BY <1>1, <1>2, <1>3 DEF KeysOf, Occupied, Held

(* The keys below n + 1 are those below n and the one of slot n. *)
LEMMA KeysBelowNext ==
    ASSUME NEW t, IsTable(t), NEW n \in 0 .. t.size - 1
    PROVE  KeysBelow(t, n + 1) = KeysBelow(t, n) \cup Held(t.slots[n])
  <1>1. DOMAIN t.slots = 0 .. t.size - 1
    BY DEF IsTable, Slots
  <1>2. QED
    BY <1>1 DEF KeysBelow, Held, Occupied, IsTable

LEMMA KeysBelowEnds ==
    ASSUME NEW t, IsTable(t)
    PROVE  KeysBelow(t, 0) = {} /\ KeysBelow(t, t.size) = KeysOf(t)
  <1>1. DOMAIN t.slots = 0 .. t.size - 1 /\ t.size \in Nat
    BY DEF IsTable, Slots
  <1>2. QED
    BY <1>1 DEF KeysBelow, KeysOf, Occupied

(* The search of aws_hash_table_create ends at the first slot that stops it, *)
(* after t.size slots if none does.                                        *)
LEMMA SearchEnds ==
    ASSUME NEW t, IsTable(t), NEW h \in Nat, NEW k
    PROVE  LET f == FindProbe(t, h, k)
           IN  /\ f \in 0 .. t.size /\ f \in Nat
               /\ f = t.size \/ StopsAt(t, h, k, f)
               /\ \A q \in 0 .. f - 1 : ~StopsAt(t, h, k, q)
  <1> DEFINE Ends(p) == p = t.size \/ StopsAt(t, h, k, p)
             Less == {ss \in Nat \X Nat : ss[1] < ss[2]}
             T == {p \in 0 .. t.size : Ends(p)}
  <1>1. IsWellFoundedOn(Less, Nat)
    BY NatLessThanWellFounded, Zenon DEF OpToRel
  <1>2. T \subseteq Nat /\ t.size \in T
    BY DEF IsTable
  <1>3. PICK p \in T : \A q \in T : <<q, p>> \notin Less
    <2> HIDE DEF T, Less
    <2> QED
      BY <1>1, <1>2, WFMin
  <1>4. \A q \in 0 .. p - 1 : ~StopsAt(t, h, k, q)
    <2>1. ASSUME NEW q \in T PROVE ~(q < p)
      <3>1. q \in Nat /\ p \in Nat
        BY <1>2
      <3>2. <<q, p>> \in Nat \X Nat
        BY <3>1
      <3>3. <<q, p>>[1] = q /\ <<q, p>>[2] = p
        OBVIOUS
      <3>4. <<q, p>> \notin Less
        BY <1>3
      <3>5. QED
        BY <3>2, <3>3, <3>4
    <2>2. p \in 0 .. t.size /\ t.size \in Nat
      BY DEF IsTable
    <2>3. ASSUME NEW q \in 0 .. p - 1 PROVE ~StopsAt(t, h, k, q)
      <3>1. q \in 0 .. t.size /\ q < p
        BY <2>2
      <3>2. q \notin T
        BY <2>1, <3>1
      <3>3. QED
        BY <3>1, <3>2
    <2>4. QED
      BY <2>3
  <1>5. LET f == FindProbe(t, h, k)
        IN  /\ f \in 0 .. t.size
            /\ f = t.size \/ StopsAt(t, h, k, f)
            /\ \A q \in 0 .. f - 1 : ~StopsAt(t, h, k, q)
    <2>1. p \in 0 .. t.size /\ (p = t.size \/ StopsAt(t, h, k, p))
      BY <1>3
    <2>2. QED
      BY <1>4, <2>1 DEF FindProbe
  <1>6. QED
    BY <1>5 DEF IsTable

-----------------------------------------------------------------------------

(* One step lemma per action: it keeps IInv, and adds a key or leaves the   *)
(* keys as they are.                                                       *)
AddsOrLeaves == keysNow' = keysNow \/ \E k \in Key : keysNow' = keysNow \cup {k}

LEMMA InitIInv == Init => IInv /\ keysNow = {}
  <1> SUFFICES ASSUME Init PROVE IInv /\ keysNow = {}
    OBVIOUS
  <1>1. IsTable(table) /\ KeysOf(table) = {}
    BY AllocStateIsGood DEF Init
  <1>2. Vacant \in Entries /\ table.size \in Nat
    BY <1>1 DEF Vacant, Entries, IsTable
  <1>3. QED
    BY <1>1, <1>2 DEF Init, IInv, TypeOK, Expanding, keysNow

LEMMA CreateStep ==
    ASSUME IInv, NEW k \in Key, Create(k)
    PROVE  IInv' /\ AddsOrLeaves
  <1>1. IsTable(table) /\ ~Expanding /\ pc = "idle"
    BY DEF IInv, TypeOK, Create
  <1>2. HashFor(k) \in Nat /\ HashFor(k) # 0
    BY HashForIsPositive DEF IInv, TypeOK
  <1>3. /\ IsTable(table') /\ table'.size = table.size
        /\ table'.slots = table.slots
    BY <1>1, CountingKeepsTable DEF Create
  <1>4. /\ entry' = [hash_code |-> HashFor(k), key |-> k]
        /\ probe_idx' \in Nat /\ rval' = -1
    BY <1>1, <1>2, SearchEnds DEF Create, StartEmplace
  <1>5. IInv'
    BY <1>1, <1>2, <1>3, <1>4 DEF IInv, TypeOK, Create, Expanding, Entries
  <1>6. keysNow = KeysOf(table) /\ keysNow' = KeysOf(table) \cup {k}
    BY <1>1, <1>2, <1>3, <1>4 DEF keysNow, Create, Expanding, KeysOf, Occupied, Held
  <1>7. QED
    BY <1>5, <1>6 DEF AddsOrLeaves

LEMMA CreateExpandsStep ==
    ASSUME IInv, SizeIsStored, NEW k \in Key, CreateExpands(k)
    PROVE  IInv' /\ AddsOrLeaves
  <1>1. IsTable(table) /\ ~Expanding /\ pc = "idle"
    BY DEF IInv, TypeOK, CreateExpands
  <1>2. new_state' = ExpandedTable(table) /\ 2 * table.size <= MaxSize
    BY DEF CreateExpands
  <1>3. /\ IsTable(new_state') /\ new_state'.size >= table.size
        /\ KeysOf(new_state') = {}
    BY <1>1, <1>2, ExpandedTableIsGood
  <1>4. table.size \in Nat
    BY <1>1 DEF IsTable
  <1>5. KeysBelow(table, 0) = {}
    BY <1>1, KeysBelowEnds
  <1>6. MovedSoFar'
    BY <1>3, <1>5 DEF MovedSoFar, InHand, CreateExpands, KeysBelow
  <1>7. IInv'
    BY <1>1, <1>3, <1>4, <1>6, TableIsATable DEF IInv, TypeOK, CreateExpands, Expanding
  <1>8. keysNow' = keysNow
    BY <1>1 DEF keysNow, CreateExpands
  <1>9. QED
    BY <1>7, <1>8 DEF AddsOrLeaves

LEMMA RehashStep ==
    ASSUME IInv, Rehash
    PROVE  IInv' /\ AddsOrLeaves
  <1>1. /\ IsTable(table) /\ pc = "rehash" /\ Expanding
        /\ i \in Nat /\ table.size \in Nat /\ i \in 0 .. table.size - 1
        /\ MovedSoFar /\ InHand = {}
    BY DEF IInv, TypeOK, Rehash, IsTable, InHand
  <1>2. table.slots[i] \in Entries
    BY <1>1 DEF IsTable, Slots
  <1>3. KeysBelow(table, i + 1) = KeysBelow(table, i) \cup Held(table.slots[i])
    BY <1>1, KeysBelowNext
  <1>4. InHand' = Held(table.slots[i])
    BY <1>1 DEF Rehash, StartEmplace, InHand, Held
  <1>5. MovedSoFar'
    BY <1>1, <1>3, <1>4 DEF MovedSoFar, Rehash, KeysBelow
  <1>6. TypeOK'
    BY <1>1, <1>2 DEF IInv, TypeOK, Rehash, StartEmplace
  <1>7. IInv'
    BY <1>1, <1>5, <1>6 DEF IInv, Rehash, Expanding
  <1>8. keysNow' = keysNow
    BY <1>1 DEF keysNow, Rehash, Expanding
  <1>9. QED
    BY <1>7, <1>8 DEF AddsOrLeaves

LEMMA ExpandDoneStep ==
    ASSUME IInv, ExpandDone
    PROVE  IInv' /\ AddsOrLeaves
  <1>1. /\ IsTable(table) /\ IsTable(new_state) /\ pc = "rehash" /\ Expanding
        /\ i = table.size /\ MovedSoFar /\ InHand = {}
        /\ hash_fn \in [Key -> Hash] /\ adding \in Key
    BY DEF IInv, TypeOK, ExpandDone, InHand, Expanding, MovedSoFar
  <1>2. KeysOf(new_state) = KeysOf(table)
    BY <1>1, KeysBelowEnds DEF MovedSoFar
  <1>3. /\ IsTable(table') /\ table'.size = new_state.size
        /\ table'.slots = new_state.slots
    BY <1>1, CountingKeepsTable DEF ExpandDone
  <1>4. i \in 0 .. table'.size
    BY <1>1, <1>3 DEF MovedSoFar, IsTable
  <1>5. HashFor(adding) \in Nat /\ HashFor(adding) # 0
    BY <1>1, HashForIsPositive
  <1>6. ~Expanding' /\ pc' = "emplace"
    BY DEF ExpandDone, Expanding
  <1>7. TypeOK'
    BY <1>1, <1>3, <1>4, <1>5, <1>6
       DEF TypeOK, ExpandDone, StartEmplace, Expanding, Entries
  <1>8. KeysOf(table') = KeysOf(table)
    BY <1>2, <1>3 DEF KeysOf, Occupied
  <1>9. keysNow' = keysNow \cup {adding}
    BY <1>1, <1>5, <1>6, <1>8 DEF keysNow, ExpandDone, StartEmplace, Held
  <1>10. QED
    BY <1>1, <1>6, <1>7, <1>9 DEF IInv, AddsOrLeaves

LEMMA EmplaceStepStep ==
    ASSUME IInv, EmplaceStep
    PROVE  IInv' /\ AddsOrLeaves
  <1> DEFINE s == SlotAt(Target, entry.hash_code, probe_idx)
             victim == Target.slots[s]
             after == [Target EXCEPT !.slots[s] = entry]
  <1>1. /\ TypeOK /\ pc = "emplace" /\ entry.hash_code # 0
        /\ entry \in Entries /\ probe_idx \in Nat /\ rval \in Nat \cup {-1}
        /\ entry.hash_code \in Nat
    BY DEF IInv, TypeOK, EmplaceStep, Entries
  <1>2. IsTable(Target)
    BY <1>1 DEF TypeOK, Target, Expanding
  <1>3. s \in 0 .. Target.size - 1 /\ s \in Nat
    <2>1. s \in 0 .. Target.size - 1
      BY <1>1, <1>2, SlotAtIsASlot
    <2>2. QED
      BY <2>1
  <1>4. /\ IsTable(after) /\ after.size = Target.size
        /\ victim \in Entries
        /\ KeysOf(after) \cup Held(victim) = KeysOf(Target) \cup Held(entry)
    BY <1>1, <1>2, <1>3, SwapKeepsKeys
  <1>5. ProbeIdx(Target, s, victim) \in Nat
    BY <1>2, <1>3, <1>4, ProbeIdxIsNat
  <1>6. CASE ~Displaces(Target, s, probe_idx)
    <2>1. UNCHANGED <<rval, table, new_state, entry, hash_fn, pc, i, adding>>
          /\ probe_idx' \in Nat
      BY <1>1, <1>6 DEF EmplaceStep
    <2>2. TypeOK'
      BY <1>1, <2>1 DEF TypeOK
    <2>3. /\ keysNow' = keysNow /\ Expanding' = Expanding
          /\ MovedSoFar' = MovedSoFar
      BY <2>1 DEF keysNow, MovedSoFar, InHand, Expanding
    <2>4. QED
      BY <2>1, <2>2, <2>3 DEF IInv, AddsOrLeaves
  <1>7. CASE Displaces(Target, s, probe_idx) /\ Expanding
    <2>1. /\ new_state' = after /\ entry' = victim
          /\ UNCHANGED <<hash_fn, table, pc, i, adding>>
          /\ probe_idx' \in Nat /\ rval' \in Nat \cup {-1}
      BY <1>1, <1>3, <1>5, <1>7 DEF EmplaceStep, FirstSlot
    <2>2. Target = new_state /\ MovedSoFar /\ Expanding'
      BY <1>4, <1>7, <2>1, TableIsATable DEF Target, IInv, Expanding
    <2>3. MovedSoFar'
      BY <1>1, <1>4, <2>1, <2>2 DEF MovedSoFar, InHand, KeysBelow, Occupied
    <2>4. TypeOK'
      BY <1>1, <1>4, <2>1 DEF TypeOK
    <2>5. keysNow' = keysNow
      BY <1>7, <2>1, <2>2 DEF keysNow
    <2>6. QED
      BY <1>1, <2>1, <2>2, <2>3, <2>4, <2>5 DEF IInv, AddsOrLeaves
  <1>8. CASE Displaces(Target, s, probe_idx) /\ ~Expanding
    <2>1. /\ table' = after /\ entry' = victim
          /\ UNCHANGED <<hash_fn, new_state, pc, i, adding>>
          /\ probe_idx' \in Nat /\ rval' \in Nat \cup {-1}
      BY <1>1, <1>3, <1>5, <1>8 DEF EmplaceStep, FirstSlot
    <2>2. Target = table /\ ~Expanding'
      BY <1>8, <2>1 DEF Target, Expanding
    <2>3. TypeOK'
      BY <1>1, <1>4, <2>1, <2>2 DEF TypeOK, Expanding
    <2>4. keysNow' = keysNow
      BY <1>1, <1>4, <1>8, <2>1, <2>2 DEF keysNow
    <2>5. QED
      BY <1>1, <2>1, <2>2, <2>3, <2>4 DEF IInv, AddsOrLeaves
  <1>9. QED
    BY <1>6, <1>7, <1>8

LEMMA EmplaceDoneStep ==
    ASSUME IInv, EmplaceDone
    PROVE  IInv' /\ AddsOrLeaves
  <1>1. /\ TypeOK /\ pc = "emplace" /\ Held(entry) = {} /\ InHand = {}
        /\ UNCHANGED <<hash_fn, table, new_state, entry, probe_idx, rval, i, steps>>
    BY DEF IInv, EmplaceDone, Held, InHand
  <1>2. CASE Expanding
    <2>1. pc' = "rehash" /\ adding' = adding /\ Expanding' /\ InHand' = {}
      BY <1>1, <1>2 DEF EmplaceDone, Expanding, InHand
    <2>2. MovedSoFar'
      BY <1>1, <1>2, <2>1 DEF IInv, MovedSoFar
    <2>3. TypeOK' /\ keysNow' = keysNow
      BY <1>1, <1>2, <2>1 DEF TypeOK, keysNow, Slots, IsTable
    <2>4. QED
      BY <2>1, <2>2, <2>3 DEF IInv, AddsOrLeaves
  <1>3. CASE ~Expanding
    <2>1. pc' = "idle" /\ adding' = NoKey /\ ~Expanding'
      BY <1>1, <1>3 DEF EmplaceDone, Expanding
    <2>2. TypeOK' /\ keysNow' = keysNow
      BY <1>1, <1>3, <2>1 DEF TypeOK, keysNow, Slots, IsTable, Expanding
    <2>3. QED
      BY <2>1, <2>2 DEF IInv, AddsOrLeaves
  <1>4. QED
    BY <1>2, <1>3

LEMMA NextIInv ==
    ASSUME SizeIsStored, IInv, [Next]_vars
    PROVE  IInv' /\ AddsOrLeaves
  <1>1. ASSUME NEW k \in Key, Create(k) \/ CreateExpands(k)
        PROVE  IInv' /\ AddsOrLeaves
    BY <1>1, CreateStep, CreateExpandsStep
  <1>2. CASE Rehash
    BY <1>2, RehashStep
  <1>3. CASE ExpandDone
    BY <1>3, ExpandDoneStep
  <1>4. CASE EmplaceStep
    BY <1>4, EmplaceStepStep
  <1>5. CASE EmplaceDone
    BY <1>5, EmplaceDoneStep
  <1>6. CASE UNCHANGED vars
    <2>1. keysNow' = keysNow
      BY <1>6 DEF vars, keysNow, Expanding
    <2>2. IInv'
      BY <1>6 DEF vars, IInv, TypeOK, Expanding, MovedSoFar, InHand
    <2>3. QED
      BY <2>1, <2>2 DEF AddsOrLeaves
  <1>7. QED
    BY <1>1, <1>2, <1>3, <1>4, <1>5, <1>6 DEF Next

(* The precondition of s_emplace_item holds of every table, not only of the *)
(* one that is handed to it; while a larger table is filled, it has room    *)
(* for the entry that made it necessary.                                   *)
ValidTables ==
    /\ StateIsValid(table)
    /\ Expanding => /\ StateIsValid(new_state)
                    /\ new_state.entry_count < new_state.max_load

LEMMA AllocStateIsValid ==
    ASSUME NEW n \in Nat, n >= 2, RoundUp(n) = n, NEW c \in Nat,
           c <= MaxLoad(n, n)
    PROVE  StateIsValid(AllocState(n, n, c))
  BY DEF StateIsValid, AllocState, MaxLoad

(* Twice the size leaves room for one more entry. *)
LEMMA ExpandedTableIsValid ==
    ASSUME SizeIsStored, NEW t, IsTable(t), StateIsValid(t), 2 * t.size <= MaxSize
    PROVE  /\ StateIsValid(ExpandedTable(t))
           /\ ExpandedTable(t).entry_count < ExpandedTable(t).max_load
  <1> DEFINE n == TemplateSize(2 * t.size)
  <1>1. t.size \in Nat /\ t.size >= 2 /\ t.entry_count \in Nat /\ t.entry_count < t.size
    BY DEF IsTable, StateIsValid
  <1>2. 2 * t.size \in 2 .. MaxSize + 2
    BY <1>1, MaxSizeIsNat
  <1>3. n \in Nat /\ n >= 2 * t.size /\ RoundUp(n) = n
    BY <1>1, <1>2, RoundUpIsUp DEF TemplateSize
  <1>4. ExpandedTable(t) = AllocState(n, n, t.entry_count)
    BY DEF ExpandedTable
  <1>5. t.entry_count < MaxLoad(n, n)
    <2> HIDE DEF n
    <2>1. (95 * n) \div 100 >= t.size
      BY <1>1, <1>3
    <2>2. QED
      BY <1>1, <1>3, <2>1 DEF MaxLoad
  <1>6. AllocState(n, n, t.entry_count).max_load = MaxLoad(n, n)
        /\ AllocState(n, n, t.entry_count).entry_count = t.entry_count
    BY DEF AllocState
  <1>7. MaxLoad(n, n) \in Nat
    <2> HIDE DEF n
    <2> QED
      BY <1>1, <1>3 DEF MaxLoad
  <1>8. QED
    <2> HIDE DEF n
    <2> QED
      BY <1>1, <1>3, <1>4, <1>5, <1>6, <1>7, AllocStateIsValid

LEMMA InitValidTables == Init => ValidTables
  <1>1. MaxLoad(2, 2) = 1
    BY DEF MaxLoad
  <1>2. Init => StateIsValid(table) /\ ~Expanding
    BY <1>1, RoundUpIsUp, AllocStateIsValid DEF Init, Expanding
  <1> QED  BY <1>2 DEF ValidTables

LEMMA ValidStep ==
    ASSUME SizeIsStored, IInv, ValidTables, [Next]_vars
    PROVE  ValidTables'
  <1>1. /\ IsTable(table) /\ StateIsValid(table)
        /\ Expanding => IsTable(new_state)
    BY DEF IInv, TypeOK, ValidTables, Expanding
  <1>2. ASSUME NEW k \in Key, Create(k) PROVE ValidTables'
    <2>1. ~Expanding /\ ~Expanding'
      BY <1>2 DEF IInv, Create, Expanding
    <2>2. /\ table'.size = table.size /\ table'.mask = table.mask
          /\ table'.max_load = table.max_load
          /\ table'.entry_count = table.entry_count + 1
      BY <1>1, <1>2 DEF Create, IsTable
    <2>3. table.entry_count + 1 <= table.max_load
      BY <1>2 DEF Create
    <2>4. QED
      BY <1>1, <2>1, <2>2, <2>3 DEF ValidTables, StateIsValid
  <1>3. ASSUME NEW k \in Key, CreateExpands(k) PROVE ValidTables'
    <2>1. table' = table /\ new_state' = ExpandedTable(table) /\ 2 * table.size <= MaxSize
      BY <1>3 DEF CreateExpands
    <2>2. QED
      BY <1>1, <2>1, ExpandedTableIsValid DEF ValidTables
  <1>4. CASE Rehash
    <2>1. UNCHANGED <<table, new_state>>
      BY <1>4 DEF Rehash
    <2>2. QED
      BY <2>1 DEF ValidTables, Expanding
  <1>5. CASE ExpandDone
    <2>1. ~Expanding' /\ Expanding
      BY <1>5 DEF IInv, ExpandDone, Expanding
    <2>2. table' = [new_state EXCEPT !.entry_count = @ + 1]
      BY <1>5 DEF ExpandDone
    <2>3. /\ IsTable(new_state) /\ StateIsValid(new_state)
          /\ new_state.entry_count < new_state.max_load
      BY <1>1, <2>1 DEF ValidTables
    <2>4. /\ table'.size = new_state.size /\ table'.mask = new_state.mask
          /\ table'.max_load = new_state.max_load
          /\ table'.entry_count = new_state.entry_count + 1
          /\ new_state.entry_count \in Nat /\ new_state.max_load \in Nat
      BY <2>2, <2>3 DEF IsTable
    <2>5. StateIsValid(table')
      BY <2>3, <2>4 DEF StateIsValid
    <2>6. QED
      BY <2>1, <2>5 DEF ValidTables
  <1>6. CASE EmplaceStep
    <2> DEFINE s == SlotAt(Target, entry.hash_code, probe_idx)
               after == [Target EXCEPT !.slots[s] = entry]
    <2>1. IsTable(Target) /\ StateIsValid(Target)
      BY <1>1 DEF Target, ValidTables
    <2>2. /\ after.size = Target.size /\ after.mask = Target.mask
          /\ after.max_load = Target.max_load
          /\ after.entry_count = Target.entry_count
      BY <2>1 DEF IsTable
    <2>3. StateIsValid(after)
      BY <2>1, <2>2 DEF StateIsValid
    <2>4. CASE UNCHANGED <<table, new_state>>
      BY <2>4 DEF ValidTables, Expanding
    <2>5. CASE Expanding /\ new_state' = after /\ UNCHANGED table
      <3>1. Target = new_state
        BY <2>5 DEF Target
      <3>2. QED
        BY <2>2, <2>3, <2>5, <3>1 DEF ValidTables
    <2>6. CASE ~Expanding /\ table' = after /\ UNCHANGED new_state
      BY <2>3, <2>6 DEF ValidTables, Expanding
    <2>7. QED
      BY <1>6, <2>4, <2>5, <2>6 DEF EmplaceStep
  <1>7. CASE EmplaceDone
    <2>1. UNCHANGED <<table, new_state>>
      BY <1>7 DEF EmplaceDone
    <2>2. QED
      BY <2>1 DEF ValidTables, Expanding
  <1>8. CASE UNCHANGED vars
    BY <1>8 DEF vars, ValidTables, Expanding
  <1>9. QED
    BY <1>2, <1>3, <1>4, <1>5, <1>6, <1>7, <1>8 DEF Next

(* The slots, entries and counters of the hash table keep their types: every *)
(* slot s_emplace_item computes is one of the table's.                     *)
THEOREM TypeCorrect ==
    ASSUME SizeIsStored
    PROVE  Spec => []TypeOK
  <1>1. Init => IInv
    BY InitIInv
  <1>2. IInv /\ [Next]_vars => IInv'
    BY NextIInv
  <1>3. IInv => TypeOK
    BY DEF IInv
  <1>4. QED
    BY <1>1, <1>2, <1>3, PTL DEF Spec

(* The hash table implements the set of its keys: insertion, displacement   *)
(* and expansion lose no key and bring none back.                          *)
THEOREM Refinement ==
    ASSUME SizeIsStored
    PROVE  Spec => ImplementsKeySet
  <1>1. Init => IInv /\ Keys!Init
    BY InitIInv DEF Keys!Init
  <1>2. IInv /\ [Next]_vars => IInv' /\ [Keys!Next]_keysNow
    BY NextIInv DEF AddsOrLeaves, Keys!Next, Keys!Add
  <1>3. QED
    BY <1>1, <1>2, PTL DEF Spec, ImplementsKeySet, Keys!Spec

(* s_emplace_item is only called on tables that satisfy its precondition:   *)
(* the cap of max_load and the doubling of the size keep every table valid. *)
THEOREM Precondition ==
    ASSUME SizeIsStored
    PROVE  Spec => []EmplaceGetsAValidTable
  <1>1. Init => IInv /\ ValidTables
    BY InitIInv, InitValidTables
  <1>2. IInv /\ ValidTables /\ [Next]_vars => (IInv /\ ValidTables)'
    BY NextIInv, ValidStep
  <1>3. ValidTables => EmplaceGetsAValidTable
    BY DEF ValidTables, EmplaceGetsAValidTable, Target
  <1>4. QED
    BY <1>1, <1>2, <1>3, PTL DEF Spec

-----------------------------------------------------------------------------
(* Slots are numbered modulo the size of the table. *)

LEMMA RemainderIsUnique ==
    ASSUME NEW n \in Nat \ {0}, NEW a \in Int, NEW q \in Int, NEW r \in 0 .. n - 1,
           a = (n * q) + r
    PROVE  a % n = r
  OBVIOUS

LEMMA QuotientAndRemainder ==
    ASSUME NEW n \in Nat \ {0}, NEW a \in Int
    PROVE  \E q \in Int, r \in 0 .. n - 1 : a = (n * q) + r /\ a % n = r
  <1>1. a \div n \in Int /\ a = (n * (a \div n)) + (a % n) /\ (a % n) \in 0 .. n - 1
    OBVIOUS
  <1> QED  BY <1>1

LEMMA RemainderOfSum ==
    ASSUME NEW n \in Nat \ {0}, NEW a \in Int, NEW b \in Int
    PROVE  ((a % n) + b) % n = (a + b) % n
  <1>1. PICK q \in Int, y \in 0 .. n - 1 : a = (n * q) + y /\ a % n = y
    BY QuotientAndRemainder
  <1>2. y + b \in Int
    OBVIOUS
  <1>3. PICK r \in Int, z \in 0 .. n - 1 : y + b = (n * r) + z /\ (y + b) % n = z
    BY <1>2, QuotientAndRemainder
  <1>4. a + b = (n * (q + r)) + z
    BY <1>1, <1>3
  <1>5. (a + b) % n = z
    <2>1. a + b \in Int /\ q + r \in Int
      OBVIOUS
    <2> QED  BY <1>4, <2>1, RemainderIsUnique
  <1> QED  BY <1>1, <1>3, <1>5

(* The slot j after slot s, or -j before it. *)
Off(t, s, j) == (s + j) % t.size

(* How far the entry in slot s is from the slot its hash selects. *)
Full(t, s) == t.slots[s].hash_code # 0
Dist(t, s) == ProbeIdx(t, s, t.slots[s])

LEMMA TableFields ==
    ASSUME NEW t, IsTable(t)
    PROVE  /\ t.size \in Nat \ {0} /\ t.mask + 1 = t.size
           /\ t.slots \in [0 .. t.size - 1 -> Entries]
           /\ DOMAIN t.slots = 0 .. t.size - 1
           /\ \A s \in 0 .. t.size - 1 : t.slots[s].hash_code \in Nat
  BY DEF IsTable, Slots, Entries

LEMMA OffIsASlot ==
    ASSUME NEW t, IsTable(t), NEW s \in Int, NEW j \in Int
    PROVE  Off(t, s, j) \in 0 .. t.size - 1
  <1>1. t.size \in Nat \ {0} /\ s + j \in Int
    BY TableFields
  <1> QED  BY <1>1, QuotientAndRemainder DEF Off

LEMMA OffOfASlot ==
    ASSUME NEW t, IsTable(t), NEW s \in 0 .. t.size - 1
    PROVE  Off(t, s, 0) = s
  <1>1. t.size \in Nat \ {0} /\ s + 0 = (t.size * 0) + s /\ s + 0 \in Int
    BY TableFields
  <1> QED  BY <1>1, RemainderIsUnique DEF Off

LEMMA OffOfOff ==
    ASSUME NEW t, IsTable(t), NEW s \in Int, NEW j \in Int, NEW k \in Int
    PROVE  Off(t, Off(t, s, j), k) = Off(t, s, j + k)
  <1>1. t.size \in Nat \ {0} /\ s + j \in Int /\ (s + j) + k = s + (j + k)
    BY TableFields
  <1>2. (((s + j) % t.size) + k) % t.size = ((s + j) + k) % t.size
    BY <1>1, RemainderOfSum
  <1> QED  BY <1>1, <1>2 DEF Off

(* Two offsets less than the size apart lead to different slots. *)
LEMMA OffIsOneToOne ==
    ASSUME NEW t, IsTable(t), NEW s \in Int, NEW j \in Int, NEW k \in Int,
           j < k, k - j < t.size
    PROVE  Off(t, s, j) # Off(t, s, k)
  <1> DEFINE n == t.size
  <1>1. n \in Nat \ {0} /\ s + j \in Int /\ s + k \in Int
    BY TableFields
  <1>2. PICK q \in Int, x \in 0 .. n - 1 : s + j = (n * q) + x /\ (s + j) % n = x
    BY <1>1, QuotientAndRemainder
  <1>3. PICK r \in Int, y \in 0 .. n - 1 : s + k = (n * r) + y /\ (s + k) % n = y
    BY <1>1, QuotientAndRemainder
  <1>4. x # y
    <2> SUFFICES ASSUME x = y PROVE FALSE
      OBVIOUS
    <2>1. k - j = n * (r - q)
      BY <1>1, <1>2, <1>3
    <2>2. r - q \in Int /\ n \in Nat \ {0} /\ k - j \in Int /\ 0 < k - j /\ k - j < n
      BY <1>1
    <2>3. \A m \in Int : m >= 1 => n * m >= n
      BY <1>1
    <2>4. \A m \in Int : m <= 0 => n * m <= 0
      BY <1>1
    <2> QED  BY <2>1, <2>2, <2>3, <2>4
  <1> QED  BY <1>2, <1>3, <1>4 DEF Off

(* Every slot is met on the way back from any other, within size steps. *)
LEMMA OffMeetsEverySlot ==
    ASSUME NEW t, IsTable(t), NEW s \in 0 .. t.size - 1, NEW r \in 0 .. t.size - 1
    PROVE  \E j \in 1 .. t.size : Off(t, s, -j) = r
  <1>1. t.size \in Nat \ {0}
    BY TableFields
  <1>2. CASE r < s
    <2>1. s - r \in 1 .. t.size
      BY <1>1, <1>2
    <2>2. Off(t, s, -(s - r)) = Off(t, r, 0)
      BY <1>1 DEF Off
    <2> QED  BY <2>1, <2>2, OffOfASlot
  <1>3. CASE s <= r
    <2> DEFINE j == (s - r) + t.size
    <2>1. j \in 1 .. t.size
      BY <1>1, <1>3
    <2>2. s + (-j) = (t.size * (-1)) + r /\ s + (-j) \in Int
      BY <1>1
    <2>3. (s + (-j)) % t.size = r
      <3> HIDE DEF j
      <3>1. -1 \in Int
        OBVIOUS
      <3> QED  BY <1>1, <2>2, <3>1, RemainderIsUnique
    <2> QED  BY <2>1, <2>3 DEF Off
  <1> QED  BY <1>1, <1>2, <1>3

(* The probe sequence of a hash code starts at its slot and moves on by one. *)
LEMMA SlotAtIsOff ==
    ASSUME NEW t, IsTable(t), NEW h \in Nat, NEW p \in Int
    PROVE  SlotAt(t, h, p) = Off(t, h, p)
  BY TableFields DEF SlotAt, Off

LEMMA SlotAtSteps ==
    ASSUME NEW t, IsTable(t), NEW h \in Nat, NEW p \in Int, NEW j \in Int
    PROVE  SlotAt(t, h, p + j) = Off(t, SlotAt(t, h, p), j)
  <1>1. SlotAt(t, h, p) = Off(t, h, p) /\ SlotAt(t, h, p + j) = Off(t, h, p + j)
    BY SlotAtIsOff
  <1> QED  BY <1>1, OffOfOff

(* ProbeIdx is what SlotAt was given, if it was given less than the size ... *)
LEMMA ProbeIdxOfSlotAt ==
    ASSUME NEW t, IsTable(t), NEW e \in Entries, NEW p \in 0 .. t.size - 1
    PROVE  ProbeIdx(t, SlotAt(t, e.hash_code, p), e) = p
  <1> DEFINE h == e.hash_code
  <1>1. h \in Nat /\ t.size \in Nat \ {0} /\ t.mask + 1 = t.size
    BY TableFields DEF Entries
  <1>2. SlotAt(t, h, p) = (h + p) % t.size
    BY <1>1 DEF SlotAt
  <1>3. (((h + p) % t.size) + (-h)) % t.size = ((h + p) + (-h)) % t.size
    <2>1. h + p \in Int /\ -h \in Int /\ t.size \in Nat \ {0}
      BY <1>1
    <2> HIDE DEF h
    <2> QED  BY <2>1, RemainderOfSum
  <1>4. (h + p) + (-h) = p /\ p % t.size = p
    <2>1. p = (t.size * 0) + p /\ p \in Int /\ (h + p) + (-h) = p
      BY <1>1
    <2> QED  BY <1>1, <2>1, RemainderIsUnique
  <1>5. ((h + p) % t.size) - h = ((h + p) % t.size) + (-h)
    <2>1. (h + p) % t.size \in Int
      BY <1>1
    <2> QED  BY <1>1, <2>1
  <1> HIDE DEF h
  <1>6. ProbeIdx(t, SlotAt(t, h, p), e) = (((h + p) % t.size) - h) % t.size
    BY <1>1, <1>2 DEF ProbeIdx, h
  <1> QED  BY <1>3, <1>4, <1>5, <1>6 DEF h

(* ... and leads back to the slot it was computed for. *)
LEMMA SlotAtOfProbeIdx ==
    ASSUME NEW t, IsTable(t), NEW e \in Entries, NEW s \in 0 .. t.size - 1
    PROVE  /\ ProbeIdx(t, s, e) \in 0 .. t.size - 1
           /\ SlotAt(t, e.hash_code, ProbeIdx(t, s, e)) = s
  <1> DEFINE h == e.hash_code
             d == (s - h) % t.size
  <1>1. h \in Nat /\ t.size \in Nat \ {0} /\ t.mask + 1 = t.size /\ s - h \in Int
    BY TableFields DEF Entries
  <1>2. ProbeIdx(t, s, e) = d /\ d \in 0 .. t.size - 1
    BY <1>1 DEF ProbeIdx
  <1>3. (d + h) % t.size = ((s - h) + h) % t.size
    <2>1. \A a \in Int : ((a % t.size) + h) % t.size = (a + h) % t.size
      <3>1. h \in Int /\ t.size \in Nat \ {0}
        BY <1>1
      <3> HIDE DEF h
      <3> QED  BY <3>1, RemainderOfSum
    <2> DEFINE g == s - h
    <2>2. g \in Int
      BY <1>1
    <2> HIDE DEF g, h
    <2>3. ((g % t.size) + h) % t.size = (g + h) % t.size
      BY <2>1, <2>2
    <2> QED  BY <2>3, Zenon DEF g
  <1>4. (s - h) + h = s /\ s % t.size = s
    <2> HIDE DEF h, d
    <2>1. s = (t.size * 0) + s /\ s \in Int /\ (s - h) + h = s
      <3>1. s \in Int /\ h \in Int /\ t.size \in Int
        BY <1>1
      <3> QED  BY <3>1
    <2> QED  BY <1>1, <2>1, RemainderIsUnique
  <1>5. SlotAt(t, h, d) = (d + h) % t.size
    <2> HIDE DEF d
    <2>1. h + d = d + h
      BY <1>1, <1>2
    <2> QED  BY <1>1, <2>1 DEF SlotAt
  <1> QED  BY <1>2, <1>3, <1>4, <1>5

-----------------------------------------------------------------------------
(* Robin Hood's invariant. *)

(* An entry that is not in its own slot has a neighbour before it, which is *)
(* at most one step closer to its own.                                     *)
RobinHood(t) ==
    \A s \in 0 .. t.size - 1 :
        Full(t, s) /\ Dist(t, s) > 0 =>
            LET r == Off(t, s, -1)
            IN  Full(t, r) /\ Dist(t, r) >= Dist(t, s) - 1

HasVacancy(t) == \E v \in 0 .. t.size - 1 : ~Full(t, v)

(* An entry probing slot s at distance p could stay there. *)
Fits(t, s, p) ==
    p > 0 => LET r == Off(t, s, -1)
             IN  Full(t, r) /\ Dist(t, r) >= p - 1

LEMMA DistIsSmall ==
    ASSUME NEW t, IsTable(t), NEW s \in 0 .. t.size - 1
    PROVE  Dist(t, s) \in 0 .. t.size - 1
  BY TableFields, SlotAtOfProbeIdx DEF Dist

(* The probe sequence of an entry is full up to where the entry is, with    *)
(* entries that are at least as far from their own slots as it was there.  *)
LEMMA ProbedSlotsAreFull ==
    ASSUME NEW t, IsTable(t), RobinHood(t),
           NEW s \in 0 .. t.size - 1, Full(t, s), NEW q \in 0 .. Dist(t, s)
    PROVE  /\ Full(t, Off(t, s, -q))
           /\ Dist(t, Off(t, s, -q)) >= Dist(t, s) - q
  <1> DEFINE d == Dist(t, s)
             Good(r) == Full(t, Off(t, s, -r)) /\ Dist(t, Off(t, s, -r)) >= d - r
             Bad == {r \in 0 .. d : ~Good(r)}
             Less == {ss \in Nat \X Nat : ss[1] < ss[2]}
  <1>1. d \in 0 .. t.size - 1 /\ t.size \in Nat
    BY DistIsSmall, TableFields
  <1> SUFFICES ASSUME Bad # {} PROVE FALSE
    BY <1>1
  <1>2. Bad \subseteq Nat
    BY <1>1
  <1>3. PICK r \in Bad : \A x \in Bad : <<x, r>> \notin Less
    <2>1. IsWellFoundedOn(Less, Nat)
      BY NatLessThanWellFounded, Zenon DEF OpToRel
    <2> HIDE DEF Bad, Less
    <2> QED  BY <1>2, <2>1, WFMin
  <1>4. r # 0
    <2>1. Off(t, s, -0) = s
      BY OffOfASlot
    <2>2. Good(0)
      BY <1>1, <2>1
    <2> HIDE DEF Good
    <2> QED  BY <2>2
  <1>5. r - 1 \in 0 .. d /\ r \in 0 .. d
    BY <1>1, <1>4
  <1>6. Good(r - 1)
    <2>1. <<r - 1, r>> \in Less
      BY <1>1, <1>5
    <2> HIDE DEF Good, Less
    <2> QED  BY <1>3, <1>5, <2>1
  <1> DEFINE u == Off(t, s, -(r - 1))
  <1>7. u \in 0 .. t.size - 1 /\ Off(t, u, -1) = Off(t, s, -r)
    <2>1. -(r - 1) \in Int /\ (-(r - 1)) + (-1) = -r /\ s \in Int
      BY <1>1, <1>5
    <2> QED  BY <2>1, OffIsASlot, OffOfOff
  <1>8. Full(t, u) /\ Dist(t, u) > 0 /\ Dist(t, u) - 1 >= d - r
    <2>1. Dist(t, u) \in Int
      BY <1>7, DistIsSmall
    <2> HIDE DEF u
    <2>2. Full(t, u) /\ Dist(t, u) >= d - (r - 1)
      BY <1>6 DEF u
    <2> QED  BY <1>1, <1>5, <2>1, <2>2
  <1>9. Full(t, Off(t, u, -1)) /\ Dist(t, Off(t, u, -1)) >= Dist(t, u) - 1
    BY <1>7, <1>8 DEF RobinHood
  <1>10. Good(r)
    <2>1. Dist(t, Off(t, u, -1)) \in Int /\ Dist(t, u) \in Int
      BY <1>7, DistIsSmall, OffIsASlot
    <2> HIDE DEF u
    <2> QED  BY <1>1, <1>5, <1>7, <1>8, <1>9, <2>1
  <1> QED  BY <1>3, <1>10

LEMMA OffAllRound ==
    ASSUME NEW t, IsTable(t), NEW s \in 0 .. t.size - 1
    PROVE  Off(t, s, -t.size) = s
  <1>1. t.size \in Nat \ {0} /\ s + (-t.size) \in Int
    BY TableFields
  <1>2. s + (-t.size) = (t.size * (-1)) + s /\ -1 \in Int
    BY <1>1
  <1> QED  BY <1>1, <1>2, RemainderIsUnique DEF Off

(* A vacant slot keeps every distance below the greatest there could be. *)
LEMMA VacancyBoundsDist ==
    ASSUME NEW t, IsTable(t), RobinHood(t), HasVacancy(t),
           NEW s \in 0 .. t.size - 1, Full(t, s)
    PROVE  Dist(t, s) + 1 < t.size
  <1>1. t.size \in Nat \ {0} /\ Dist(t, s) \in 0 .. t.size - 1
    BY TableFields, DistIsSmall
  <1> SUFFICES ASSUME Dist(t, s) = t.size - 1 PROVE FALSE
    BY <1>1
  <1>2. PICK v \in 0 .. t.size - 1 : ~Full(t, v)
    BY DEF HasVacancy
  <1>3. PICK j \in 1 .. t.size : Off(t, s, -j) = v
    BY OffMeetsEverySlot
  <1>4. CASE j = t.size
    BY <1>2, <1>3, <1>4, OffAllRound
  <1>5. CASE j # t.size
    <2>1. j \in 0 .. Dist(t, s)
      BY <1>1, <1>5
    <2> QED  BY <1>2, <1>3, <2>1, ProbedSlotsAreFull
  <1> QED  BY <1>4, <1>5

(* An entry that probes has not gone round. *)
LEMMA FitsIsSmall ==
    ASSUME NEW t, IsTable(t), RobinHood(t), HasVacancy(t),
           NEW s \in 0 .. t.size - 1, NEW p \in Nat, Fits(t, s, p)
    PROVE  p \in 0 .. t.size - 1
  <1>1. t.size \in Nat \ {0}
    BY TableFields
  <1>2. CASE p = 0
    BY <1>1, <1>2
  <1>3. CASE p > 0
    <2> DEFINE r == Off(t, s, -1)
    <2>1. r \in 0 .. t.size - 1
      BY OffIsASlot
    <2> HIDE DEF r
    <2>2. Full(t, r) /\ Dist(t, r) >= p - 1
      BY <1>3 DEF Fits, r
    <2>3. Dist(t, r) + 1 < t.size /\ Dist(t, r) \in Int
      BY <2>1, <2>2, VacancyBoundsDist, DistIsSmall
    <2> QED  BY <1>1, <2>2, <2>3
  <1> QED  BY <1>2, <1>3

Put(t, s, e) == [t EXCEPT !.slots[s] = e]

(* An entry put into slot s: everywhere else nothing changes. *)
LEMMA PutFields ==
    ASSUME NEW t, IsTable(t), NEW s \in 0 .. t.size - 1,
           NEW e \in Entries, e.hash_code # 0,
           NEW u, u = Put(t, s, e)
    PROVE  /\ IsTable(u) /\ u.size = t.size /\ u.mask = t.mask
           /\ u.slots[s] = e /\ Full(u, s)
           /\ \A r, j : Off(u, r, j) = Off(t, r, j)
           /\ \A h, p : SlotAt(u, h, p) = SlotAt(t, h, p)
           /\ \A r, x : ProbeIdx(u, r, x) = ProbeIdx(t, r, x)
           /\ \A r \in 0 .. t.size - 1 :
                  r # s => /\ u.slots[r] = t.slots[r]
                           /\ Full(u, r) = Full(t, r)
                           /\ Dist(u, r) = Dist(t, r)
  <1>1. IsTable(u) /\ u.size = t.size
    BY SwapKeepsKeys DEF Put
  <1>2. u.mask = t.mask /\ u.slots = [t.slots EXCEPT ![s] = e]
    BY DEF IsTable, Put
  <1>3. DOMAIN t.slots = 0 .. t.size - 1
    BY TableFields
  <1>4. \A r, x : ProbeIdx(u, r, x) = ProbeIdx(t, r, x)
    BY <1>2 DEF ProbeIdx
  <1>5. u.slots[s] = e /\ Full(u, s)
    BY <1>2, <1>3 DEF Full
  <1>6. ASSUME NEW r \in 0 .. t.size - 1, r # s PROVE u.slots[r] = t.slots[r]
    BY <1>2, <1>3, <1>6
  <1> QED  BY <1>1, <1>2, <1>4, <1>5, <1>6 DEF Full, Dist, Off, SlotAt

(* Displacing an entry that is closer to its own slot keeps the invariant,  *)
(* and the displaced entry fits at the next slot.                          *)
LEMMA DisplacingKeepsRobinHood ==
    ASSUME NEW t, IsTable(t), RobinHood(t), HasVacancy(t),
           NEW e \in Entries, e.hash_code # 0, NEW p \in Nat,
           NEW s, s = SlotAt(t, e.hash_code, p), Fits(t, s, p), Displaces(t, s, p),
           NEW u, u = Put(t, s, e)
    PROVE  /\ RobinHood(u)
           /\ Full(t, s) => /\ SlotAt(u, t.slots[s].hash_code, Dist(t, s) + 1) = Off(u, s, 1)
                            /\ Fits(u, Off(u, s, 1), Dist(t, s) + 1)
  <1>1. t.size \in Nat \ {0} /\ e.hash_code \in Nat /\ s \in 0 .. t.size - 1
    <2>1. t.size \in Nat \ {0} /\ e.hash_code \in Nat
      BY TableFields DEF Entries
    <2> QED  BY <2>1, SlotAtIsASlot
  <1>2. p \in 0 .. t.size - 1
    BY <1>1, FitsIsSmall
  <1>3. /\ IsTable(u) /\ u.size = t.size /\ u.mask = t.mask
        /\ u.slots[s] = e /\ Full(u, s)
        /\ \A r, j : Off(u, r, j) = Off(t, r, j)
        /\ \A h, q : SlotAt(u, h, q) = SlotAt(t, h, q)
        /\ \A r, x : ProbeIdx(u, r, x) = ProbeIdx(t, r, x)
        /\ \A r \in 0 .. t.size - 1 :
               r # s => /\ u.slots[r] = t.slots[r]
                        /\ Full(u, r) = Full(t, r)
                        /\ Dist(u, r) = Dist(t, r)
    BY <1>1, PutFields
  <1>4. Dist(u, s) = p
    BY <1>2, <1>3, ProbeIdxOfSlotAt DEF Dist
  <1>5. Full(t, s) => Dist(t, s) < p
    BY DEF Displaces, Full, Dist
  <1>6. ASSUME NEW r \in 0 .. u.size - 1, Full(u, r), Dist(u, r) > 0
        PROVE  Full(u, Off(u, r, -1)) /\ Dist(u, Off(u, r, -1)) >= Dist(u, r) - 1
    <2> DEFINE b == Off(t, r, -1)
    <2>1. b \in 0 .. t.size - 1 /\ r \in 0 .. t.size - 1 /\ Off(u, r, -1) = b
      BY <1>3, OffIsASlot
    <2>2. b # r
      <3>1. Dist(u, r) \in 0 .. t.size - 1
        BY <1>3, <2>1, DistIsSmall
      <3>2. 1 < t.size /\ -1 < 0 /\ 0 - (-1) < t.size
        BY <1>1, <1>6, <3>1
      <3>3. Off(t, r, -1) # Off(t, r, 0)
        BY <2>1, <3>2, OffIsOneToOne
      <3> QED  BY <2>1, <3>3, OffOfASlot
    <2> HIDE DEF b
    <2>3. CASE r = s
      <3>1. Full(t, b) /\ Dist(t, b) >= p - 1
        BY <1>4, <1>6, <2>3 DEF Fits, b
      <3> QED  BY <1>3, <1>4, <2>1, <2>2, <2>3, <3>1
    <2>4. CASE r # s
      <3>1. Full(t, b) /\ Dist(t, b) >= Dist(t, r) - 1 /\ Dist(u, r) = Dist(t, r)
        BY <1>3, <1>6, <2>1, <2>4 DEF RobinHood, b
      <3>2. CASE b = s
        <4>1. Dist(t, b) \in Int /\ Dist(t, r) \in Int
          BY <2>1, DistIsSmall
        <4> QED  BY <1>3, <1>4, <1>5, <2>1, <3>1, <3>2, <4>1
      <3>3. CASE b # s
        BY <1>3, <2>1, <3>1, <3>3
      <3> QED  BY <3>2, <3>3
    <2> QED  BY <2>3, <2>4
  <1>7. ASSUME Full(t, s)
        PROVE  /\ SlotAt(u, t.slots[s].hash_code, Dist(t, s) + 1) = Off(u, s, 1)
               /\ Fits(u, Off(u, s, 1), Dist(t, s) + 1)
    <2>1. Dist(t, s) \in 0 .. t.size - 1 /\ t.slots[s] \in Entries
          /\ t.slots[s].hash_code \in Nat
      BY <1>1, DistIsSmall, TableFields
    <2>2. SlotAt(t, t.slots[s].hash_code, Dist(t, s)) = s
      BY <1>1, <2>1, SlotAtOfProbeIdx DEF Dist
    <2>3. SlotAt(t, t.slots[s].hash_code, Dist(t, s) + 1) = Off(t, s, 1)
      BY <2>1, <2>2, SlotAtSteps
    <2>4. Off(t, Off(t, s, 1), -1) = s
      <3>1. Off(t, Off(t, s, 1), -1) = Off(t, s, 1 + (-1)) /\ 1 + (-1) = 0
        BY <1>1, OffOfOff
      <3> QED  BY <1>1, <3>1, OffOfASlot
    <2>5. Dist(u, s) >= (Dist(t, s) + 1) - 1
      BY <1>4, <1>5, <1>7, <2>1
    <2> QED  BY <1>3, <2>3, <2>4, <2>5 DEF Fits
  <1> QED  BY <1>6, <1>7 DEF RobinHood

(* An entry that does not displace fits at the next slot. *)
LEMMA PassingFits ==
    ASSUME NEW t, IsTable(t), NEW e \in Entries, NEW p \in Nat,
           NEW s, s = SlotAt(t, e.hash_code, p), ~Displaces(t, s, p)
    PROVE  /\ Full(t, s)
           /\ SlotAt(t, e.hash_code, p + 1) = Off(t, s, 1)
           /\ Fits(t, Off(t, s, 1), p + 1)
  <1>1. e.hash_code \in Nat /\ s \in 0 .. t.size - 1
    <2>1. e.hash_code \in Nat
      BY DEF Entries
    <2> QED  BY <2>1, SlotAtIsASlot
  <1>2. Full(t, s) /\ ~(Dist(t, s) < p) /\ Dist(t, s) \in Int
    BY <1>1, DistIsSmall DEF Displaces, Full, Dist
  <1>3. Off(t, Off(t, s, 1), -1) = s
    <2>1. Off(t, Off(t, s, 1), -1) = Off(t, s, 1 + (-1)) /\ 1 + (-1) = 0
      BY <1>1, OffOfOff
    <2> QED  BY <1>1, <2>1, OffOfASlot
  <1>4. SlotAt(t, e.hash_code, p + 1) = Off(t, s, 1)
    BY <1>1, SlotAtSteps
  <1> QED  BY <1>2, <1>3, <1>4 DEF Fits

LEMMA SearchFits ==
    ASSUME NEW t, IsTable(t), NEW h \in Nat, NEW k, NEW p, p = FindProbe(t, h, k)
    PROVE  p \in Nat /\ Fits(t, SlotAt(t, h, p), p)
  <1>1. p \in Nat /\ \A q \in 0 .. p - 1 : ~StopsAt(t, h, k, q)
    BY SearchEnds, Zenon
  <1>2. CASE p = 0
    BY <1>1, <1>2 DEF Fits
  <1>3. CASE p > 0
    <2> DEFINE r == SlotAt(t, h, p - 1)
    <2>1. p - 1 \in 0 .. p - 1 /\ p - 1 \in Nat /\ p + (-1) = p - 1
      BY <1>1, <1>3
    <2>2. r \in 0 .. t.size - 1 /\ Off(t, SlotAt(t, h, p), -1) = r
      <3>1. SlotAt(t, h, p + (-1)) = Off(t, SlotAt(t, h, p), -1)
        <4>1. p \in Int /\ -1 \in Int
          BY <1>1
        <4> QED  BY <4>1, SlotAtSteps
      <3>2. SlotAt(t, h, p - 1) \in 0 .. t.size - 1
        BY <2>1, SlotAtIsASlot
      <3> QED  BY <2>1, <3>1, <3>2
    <2>3. ~StopsAt(t, h, k, p - 1)
      BY <1>1, <2>1
    <2>4. Full(t, r) /\ ~(Dist(t, r) < p - 1)
      BY <2>3 DEF StopsAt, Full, Dist
    <2>5. Dist(t, r) \in Int
      BY <2>2, DistIsSmall
    <2> HIDE DEF r
    <2> QED  BY <1>1, <2>2, <2>4, <2>5 DEF Fits
  <1> QED  BY <1>1, <1>2, <1>3

(* Every key of a Robin Hood table is found. *)
LEMMA EntriesAreFound ==
    ASSUME NEW t, IsTable(t), RobinHood(t), NEW s \in 0 .. t.size - 1, Full(t, s)
    PROVE  Found(t, t.slots[s].hash_code, t.slots[s].key)
  <1> DEFINE h == t.slots[s].hash_code
             k == t.slots[s].key
             d == Dist(t, s)
             p == FindProbe(t, h, k)
             r == SlotAt(t, h, p)
  <1>1. h \in Nat /\ t.slots[s] \in Entries
    BY TableFields
  <1>2. d \in 0 .. t.size - 1 /\ SlotAt(t, h, d) = s /\ t.size \in Nat
    BY <1>1, SlotAtOfProbeIdx, TableFields DEF Dist
  <1>3. StopsAt(t, h, k, d)
    BY <1>2 DEF StopsAt
  <1>4. /\ p \in Nat
        /\ p = t.size \/ StopsAt(t, h, k, p)
        /\ \A q \in 0 .. p - 1 : ~StopsAt(t, h, k, q)
    <2> HIDE DEF h, k
    <2> QED  BY <1>1, SearchEnds, Zenon
  <1>5. p <= d
    <2> HIDE DEF d, p, h, k
    <2>1. ~(d \in 0 .. p - 1)
      BY <1>3, <1>4
    <2> QED  BY <1>2, <1>4, <2>1
  <1>6. r = Off(t, s, -(d - p)) /\ r \in 0 .. t.size - 1
    <2> HIDE DEF d, p, h, k
    <2>1. p = d + (-(d - p)) /\ -(d - p) \in Int
      BY <1>2, <1>4
    <2>2. SlotAt(t, h, d + (-(d - p))) = Off(t, SlotAt(t, h, d), -(d - p))
      BY <1>1, <1>2, <2>1, SlotAtSteps
    <2>3. r \in 0 .. t.size - 1
      BY <1>1, <1>4, SlotAtIsASlot
    <2> QED  BY <1>2, <2>1, <2>2, <2>3
  <1>7. Full(t, r) /\ Dist(t, r) >= p
    <2>1. d - p \in 0 .. d /\ p \in Int /\ d \in Int
      BY <1>2, <1>4, <1>5
    <2>2. Full(t, r) /\ Dist(t, r) >= d - (d - p)
      BY <1>6, <2>1, ProbedSlotsAreFull
    <2>3. d - (d - p) = p
      BY <2>1
    <2> QED  BY <2>2, <2>3
  <1>8. p < t.size /\ StopsAt(t, h, k, p)
    <2> HIDE DEF d, p, h, k
    <2> QED  BY <1>2, <1>4, <1>5
  <1>9. t.slots[r].key = k
    <2>1. Dist(t, r) \in Int
      BY <1>6, DistIsSmall
    <2>2. t.slots[r].hash_code = 0 \/ t.slots[r].key = k \/ Dist(t, r) < p
      BY <1>8 DEF StopsAt, Dist
    <2> HIDE DEF d, p, h, k, r
    <2> QED  BY <1>4, <1>7, <2>1, <2>2 DEF Full
  <1> QED  BY <1>8, <1>9 DEF Found

(* The k slots before s are full. *)
Walked(t, s, k) == \A j \in 1 .. k : Full(t, Off(t, s, -j))

LEMMA WalkedIsShort ==
    ASSUME NEW t, IsTable(t), HasVacancy(t), NEW s \in 0 .. t.size - 1,
           NEW k \in Nat, Walked(t, s, k)
    PROVE  k < t.size
  <1>1. t.size \in Nat
    BY TableFields
  <1>2. PICK v \in 0 .. t.size - 1 : ~Full(t, v)
    BY DEF HasVacancy
  <1>3. PICK j \in 1 .. t.size : Off(t, s, -j) = v
    BY OffMeetsEverySlot
  <1>4. j \notin 1 .. k
    BY <1>2, <1>3 DEF Walked
  <1> QED  BY <1>1, <1>3, <1>4

LEMMA WalkedOn ==
    ASSUME NEW t, IsTable(t), NEW s \in 0 .. t.size - 1, NEW k \in Nat, Walked(t, s, k),
           NEW u, u.size = t.size, Full(u, s),
           \A r \in 0 .. t.size - 1 : Full(t, r) => Full(u, r)
    PROVE  /\ Walked(u, Off(u, s, 1), k + 1)
           /\ \A j \in 0 .. k : Off(u, Off(u, s, 1), -(j + 1)) = Off(t, s, -j)
  <1>1. \A r, j : Off(u, r, j) = Off(t, r, j)
    BY DEF Off
  <1>2. ASSUME NEW j \in 0 .. k
        PROVE  /\ Off(t, Off(t, s, 1), -(j + 1)) = Off(t, s, -j)
               /\ Off(t, s, -j) \in 0 .. t.size - 1
               /\ Full(u, Off(t, s, -j))
    <2>1. 1 + (-(j + 1)) = -j /\ -(j + 1) \in Int /\ -j \in Int
      OBVIOUS
    <2>2. Off(t, Off(t, s, 1), -(j + 1)) = Off(t, s, -j)
      BY <2>1, OffOfOff
    <2>3. Off(t, s, -j) \in 0 .. t.size - 1
      BY <2>1, OffIsASlot
    <2>4. CASE j = 0
      <3>1. Off(t, s, -j) = s
        BY <2>4, OffOfASlot
      <3> QED  BY <2>2, <2>3, <3>1
    <2>5. CASE j # 0
      <3>1. Full(t, Off(t, s, -j))
        BY <2>5 DEF Walked
      <3> QED  BY <2>2, <2>3, <3>1
    <2> QED  BY <2>4, <2>5
  <1>3. ASSUME NEW j \in 1 .. k + 1 PROVE Full(u, Off(u, Off(u, s, 1), -j))
    <2>1. j - 1 \in 0 .. k /\ (j - 1) + 1 = j
      OBVIOUS
    <2>2. /\ Off(t, Off(t, s, 1), -((j - 1) + 1)) = Off(t, s, -(j - 1))
          /\ Full(u, Off(t, s, -(j - 1)))
      BY <1>2, <2>1
    <2> QED  BY <1>1, <2>1, <2>2
  <1> QED  BY <1>1, <1>2, <1>3 DEF Walked

-----------------------------------------------------------------------------
(* Counting the occupied slots. *)

OccupiedBelow(t, n) == {s \in Occupied(t) : s < n}

LEMMA OccupiedIsFinite ==
    ASSUME NEW t, IsTable(t)
    PROVE  /\ IsFiniteSet(Occupied(t)) /\ Cardinality(Occupied(t)) \in Nat
           /\ Cardinality(Occupied(t)) < t.size => HasVacancy(t)
           /\ \A n : /\ IsFiniteSet(OccupiedBelow(t, n))
                     /\ Cardinality(OccupiedBelow(t, n)) \in Nat
                     /\ Cardinality(OccupiedBelow(t, n)) <= Cardinality(Occupied(t))
  <1>1. DOMAIN t.slots = 0 .. t.size - 1 /\ t.size \in Nat \ {0}
    BY TableFields
  <1>2. IsFiniteSet(0 .. t.size - 1) /\ Cardinality(0 .. t.size - 1) = t.size
    <2>1. 0 \in Int /\ t.size - 1 \in Int /\ ~(0 > t.size - 1)
          /\ (t.size - 1) - 0 + 1 = t.size
      BY <1>1
    <2> QED  BY <2>1, FS_Interval
  <1>3. Occupied(t) \in SUBSET (0 .. t.size - 1)
    BY <1>1 DEF Occupied
  <1>4. IsFiniteSet(Occupied(t)) /\ Cardinality(Occupied(t)) \in Nat
    BY <1>2, <1>3, FS_Subset, FS_CardinalityType
  <1>5. ASSUME Cardinality(Occupied(t)) < t.size PROVE HasVacancy(t)
    <2>1. Occupied(t) # 0 .. t.size - 1
      BY <1>1, <1>2, <1>5
    <2> QED  BY <1>1, <1>3, <2>1 DEF HasVacancy, Full, Occupied
  <1>6. ASSUME NEW n
        PROVE  /\ IsFiniteSet(OccupiedBelow(t, n))
               /\ Cardinality(OccupiedBelow(t, n)) \in Nat
               /\ Cardinality(OccupiedBelow(t, n)) <= Cardinality(Occupied(t))
    <2>1. OccupiedBelow(t, n) \in SUBSET Occupied(t)
      BY DEF OccupiedBelow
    <2> QED  BY <1>4, <2>1, FS_Subset, FS_CardinalityType
  <1> QED  BY <1>4, <1>5, <1>6

LEMMA PutCounts ==
    ASSUME NEW t, IsTable(t), NEW s \in 0 .. t.size - 1,
           NEW e \in Entries, e.hash_code # 0
    PROVE  /\ Full(t, s) =>
                  Cardinality(Occupied(Put(t, s, e))) = Cardinality(Occupied(t))
           /\ ~Full(t, s) =>
                  Cardinality(Occupied(Put(t, s, e))) = Cardinality(Occupied(t)) + 1
  <1> DEFINE u == Put(t, s, e)
  <1>1. /\ IsTable(u) /\ u.size = t.size /\ Full(u, s)
        /\ \A r \in 0 .. t.size - 1 : r # s => Full(u, r) = Full(t, r)
    <2>1. \A x : x = Put(t, s, e) =>
              /\ IsTable(x) /\ x.size = t.size /\ Full(x, s)
              /\ \A r \in 0 .. t.size - 1 : r # s => Full(x, r) = Full(t, r)
      BY PutFields
    <2> QED  BY <2>1
  <1>2. DOMAIN u.slots = 0 .. t.size - 1 /\ DOMAIN t.slots = 0 .. t.size - 1
    BY <1>1, TableFields
  <1>3. Occupied(u) = Occupied(t) \cup {s} /\ (s \in Occupied(t) <=> Full(t, s))
    BY <1>1, <1>2 DEF Occupied, Full
  <1>4. IsFiniteSet(Occupied(t))
    BY OccupiedIsFinite
  <1>5. Cardinality(Occupied(t) \cup {s}) =
            IF s \in Occupied(t) THEN Cardinality(Occupied(t)) ELSE Cardinality(Occupied(t)) + 1
    BY <1>4, FS_AddElement
  <1> QED  BY <1>3, <1>5

LEMMA OccupiedBelowNext ==
    ASSUME NEW t, IsTable(t), NEW n \in 0 .. t.size - 1
    PROVE  Cardinality(OccupiedBelow(t, n + 1)) =
               Cardinality(OccupiedBelow(t, n)) + (IF Full(t, n) THEN 1 ELSE 0)
  <1>1. DOMAIN t.slots = 0 .. t.size - 1
    BY TableFields
  <1>2. IsFiniteSet(OccupiedBelow(t, n)) /\ Cardinality(OccupiedBelow(t, n)) \in Nat
    BY OccupiedIsFinite
  <1>3. CASE Full(t, n)
    <2>1. OccupiedBelow(t, n + 1) = OccupiedBelow(t, n) \cup {n} /\ n \notin OccupiedBelow(t, n)
      BY <1>1, <1>3 DEF OccupiedBelow, Occupied, Full
    <2> QED  BY <1>2, <1>3, <2>1, FS_AddElement
  <1>4. CASE ~Full(t, n)
    <2>1. OccupiedBelow(t, n + 1) = OccupiedBelow(t, n)
      BY <1>1, <1>4 DEF OccupiedBelow, Occupied, Full
    <2> QED  BY <1>2, <1>4, <2>1
  <1> QED  BY <1>3, <1>4

LEMMA OccupiedBelowEnds ==
    ASSUME NEW t, IsTable(t)
    PROVE  OccupiedBelow(t, 0) = {} /\ OccupiedBelow(t, t.size) = Occupied(t)
  <1>1. DOMAIN t.slots = 0 .. t.size - 1 /\ t.size \in Nat
    BY TableFields
  <1> QED  BY <1>1 DEF OccupiedBelow, Occupied

LEMMA AllocStateIsRobinHood ==
    ASSUME NEW n \in Nat \ {0}, NEW c \in Nat
    PROVE  /\ RobinHood(AllocState(n, n, c))
           /\ Occupied(AllocState(n, n, c)) = {}
  BY DEF RobinHood, Full, Occupied, AllocState, Vacant

-----------------------------------------------------------------------------
(* The invariant. *)

Probing == pc = "emplace" /\ entry.hash_code # 0
Pos == SlotAt(Target, entry.hash_code, probe_idx)

(* Every table is a Robin Hood table at every step; the entry in hand fits  *)
(* where it is tried, and every slot it was tried at before is full.       *)
ProbeInv ==
    /\ RobinHood(table)
    /\ Expanding => RobinHood(new_state)
    /\ steps \in Nat
    /\ Probing => Fits(Target, Pos, probe_idx) /\ Walked(Target, Pos, steps)
    /\ pc = "emplace" => steps <= Target.size

(* The new entry is in hand until it has a slot, and that slot is one of    *)
(* those that the call has passed.                                         *)
ReturnInv ==
    pc = "emplace" /\ ~Expanding =>
        \/ rval = -1 /\ entry.hash_code # 0 /\ entry.key = adding
        \/ /\ rval \in DOMAIN table.slots
           /\ table.slots[rval].key = adding
           /\ Probing => \E j \in 1 .. steps : rval = Off(table, Pos, -j)

CountInv ==
    LET held == IF Probing THEN 1 ELSE 0
    IN  /\ ~Expanding => table.entry_count = Cardinality(Occupied(table)) + held
        /\ Expanding =>
               /\ table.entry_count = Cardinality(Occupied(table))
               /\ new_state.entry_count = table.entry_count
               /\ Cardinality(Occupied(new_state)) + held =
                      Cardinality(OccupiedBelow(table, i))

LEMMA ProbingFacts ==
    ASSUME IInv, Probing
    PROVE  /\ IsTable(Target) /\ entry \in Entries /\ entry.hash_code \in Nat
           /\ probe_idx \in Nat /\ Pos \in 0 .. Target.size - 1
  <1>1. IsTable(Target) /\ entry \in Entries /\ entry.hash_code \in Nat /\ probe_idx \in Nat
    BY DEF IInv, TypeOK, Target, Expanding, Entries
  <1> QED  BY <1>1, SlotAtIsASlot DEF Pos

(* There is always at least one empty slot, because entry_count counts the  *)
(* entry in hand and never exceeds max_load.                               *)
LEMMA TargetHasVacancy ==
    ASSUME IInv, ValidTables, CountInv, Probing \/ Expanding
    PROVE  HasVacancy(Target)
  <1>1. CASE Expanding
    <2>1. /\ IsTable(table) /\ IsTable(new_state) /\ Target = new_state
          /\ new_state.size >= table.size
      BY <1>1 DEF IInv, TypeOK, MovedSoFar, Target, Expanding
    <2>2. Cardinality(Occupied(new_state)) <= Cardinality(Occupied(table))
      <3>1. /\ Cardinality(Occupied(new_state)) \in Nat /\ Cardinality(Occupied(table)) \in Nat
            /\ Cardinality(OccupiedBelow(table, i)) \in Nat
            /\ Cardinality(OccupiedBelow(table, i)) <= Cardinality(Occupied(table))
        BY <2>1, OccupiedIsFinite
      <3> QED  BY <1>1, <3>1 DEF CountInv
    <2>3. Cardinality(Occupied(table)) < table.size
      <3>1. table.entry_count \in Nat /\ table.max_load \in Nat /\ table.size \in Nat
        BY <2>1 DEF IsTable
      <3>2. table.entry_count <= table.max_load /\ table.max_load < table.size
        BY DEF ValidTables, StateIsValid
      <3> QED  BY <1>1, <3>1, <3>2 DEF CountInv
    <2>4. Cardinality(Occupied(new_state)) < new_state.size
      <3>1. Cardinality(Occupied(new_state)) \in Nat /\ Cardinality(Occupied(table)) \in Nat
            /\ table.size \in Nat /\ new_state.size \in Nat
        BY <2>1, OccupiedIsFinite, TableFields
      <3> QED  BY <2>1, <2>2, <2>3, <3>1
    <2> QED  BY <2>1, <2>4, OccupiedIsFinite
  <1>2. CASE ~Expanding /\ Probing
    <2>1. IsTable(table) /\ Target = table
      BY <1>2 DEF IInv, TypeOK, Target
    <2>2. table.entry_count \in Nat /\ table.max_load \in Nat /\ table.size \in Nat
      BY <2>1 DEF IsTable
    <2>3. table.entry_count <= table.max_load /\ table.max_load < table.size
      BY DEF ValidTables, StateIsValid
    <2>4. Cardinality(Occupied(table)) \in Nat
          /\ table.entry_count = Cardinality(Occupied(table)) + 1
      BY <1>2, <2>1, OccupiedIsFinite DEF CountInv
    <2> QED  BY <2>1, <2>2, <2>3, <2>4, OccupiedIsFinite
  <1> QED  BY <1>1, <1>2

(* An iteration of s_emplace_item, whichever table it works on. *)
LEMMA EmplaceMoves ==
    ASSUME IInv, EmplaceStep
    PROVE  /\ Probing /\ pc' = "emplace" /\ steps' = steps + 1
           /\ Expanding' = Expanding
           /\ UNCHANGED <<adding, i, hash_fn>>
           /\ Expanding => table' = table
           /\ Displaces(Target, Pos, probe_idx) =>
                  /\ Target' = Put(Target, Pos, entry)
                  /\ entry' = Target.slots[Pos]
                  /\ probe_idx' = Dist(Target, Pos) + 1
                  /\ rval' = FirstSlot(Pos)
           /\ ~Displaces(Target, Pos, probe_idx) =>
                  /\ UNCHANGED <<table, new_state, entry, rval>>
                  /\ Target' = Target
                  /\ probe_idx' = probe_idx + 1
  <1>1. Probing /\ pc' = "emplace" /\ steps' = steps + 1 /\ UNCHANGED <<adding, i, hash_fn>>
    BY DEF EmplaceStep, Probing
  <1>2. IsTable(Target) /\ Pos \in 0 .. Target.size - 1 /\ entry \in Entries
    BY <1>1, ProbingFacts
  <1>3. IsTable(Put(Target, Pos, entry))
    BY <1>1, <1>2, SwapKeepsKeys DEF Put, Probing
  <1>4. CASE ~Displaces(Target, Pos, probe_idx)
    <2>1. UNCHANGED <<table, new_state, entry, rval>> /\ probe_idx' = probe_idx + 1
      BY <1>4 DEF EmplaceStep, Pos
    <2>2. Target' = Target /\ Expanding' = Expanding
      BY <2>1 DEF Target, Expanding
    <2> QED  BY <1>1, <1>4, <2>1, <2>2
  <1>5. CASE Displaces(Target, Pos, probe_idx)
    <2>1. /\ rval' = FirstSlot(Pos)
          /\ IF Expanding
             THEN new_state' = Put(Target, Pos, entry) /\ UNCHANGED table
             ELSE table' = Put(Target, Pos, entry) /\ UNCHANGED new_state
          /\ entry' = Target.slots[Pos]
          /\ probe_idx' = Dist(Target, Pos) + 1
      BY <1>5 DEF EmplaceStep, Pos, Put, Dist
    <2>2. Expanding' = Expanding
      BY <1>3, <2>1, TableIsATable DEF Expanding
    <2>3. Target' = Put(Target, Pos, entry)
      BY <2>1, <2>2 DEF Target
    <2> QED  BY <1>1, <1>5, <2>1, <2>2, <2>3
  <1> QED  BY <1>4, <1>5

LEMMA EmplaceKeepsProbeInv ==
    ASSUME IInv, ValidTables, CountInv, ProbeInv, EmplaceStep
    PROVE  ProbeInv'
  <1> DEFINE t == Target
             s == Pos
  <1>1. /\ Probing /\ pc' = "emplace" /\ steps' = steps + 1
        /\ Expanding' = Expanding
        /\ Expanding => table' = table
    BY EmplaceMoves
  <1>2. /\ IsTable(t) /\ entry \in Entries /\ entry.hash_code \in Nat
        /\ entry.hash_code # 0 /\ probe_idx \in Nat /\ s \in 0 .. t.size - 1
        /\ t.size \in Nat
    BY <1>1, ProbingFacts, TableFields DEF Probing
  <1>3. HasVacancy(t) /\ RobinHood(t) /\ Fits(t, s, probe_idx) /\ Walked(t, s, steps)
        /\ steps \in Nat
    BY <1>1, TargetHasVacancy DEF ProbeInv, Target
  <1>4. steps < t.size
    BY <1>2, <1>3, WalkedIsShort
  <1>5. CASE ~Displaces(t, s, probe_idx)
    <2>1. Target' = t /\ entry' = entry /\ probe_idx' = probe_idx + 1
          /\ UNCHANGED <<table, new_state>>
      BY <1>5, EmplaceMoves
    <2>2. Full(t, s) /\ Pos' = Off(t, s, 1) /\ Fits(t, Off(t, s, 1), probe_idx + 1)
      BY <1>2, <1>5, <2>1, PassingFits DEF Pos
    <2>3. Walked(t, Off(t, s, 1), steps + 1)
      BY <1>2, <1>3, <2>2, WalkedOn
    <2> QED  BY <1>1, <1>2, <1>3, <1>4, <2>1, <2>2, <2>3 DEF ProbeInv, Expanding
  <1>6. CASE Displaces(t, s, probe_idx)
    <2> DEFINE u == Put(t, s, entry)
    <2>1. Target' = u /\ entry' = t.slots[s] /\ probe_idx' = Dist(t, s) + 1
      BY <1>6, EmplaceMoves
    <2>2. /\ RobinHood(u)
          /\ Full(t, s) => /\ SlotAt(u, t.slots[s].hash_code, Dist(t, s) + 1) = Off(u, s, 1)
                           /\ Fits(u, Off(u, s, 1), Dist(t, s) + 1)
      <3> HIDE DEF t
      <3> QED  BY <1>2, <1>3, <1>6, DisplacingKeepsRobinHood DEF Pos, t
    <2>3. /\ u.size = t.size /\ Full(u, s)
          /\ \A r \in 0 .. t.size - 1 : Full(t, r) => Full(u, r)
      <3>1. \A x : x = Put(t, s, entry) =>
                /\ x.size = t.size /\ Full(x, s)
                /\ \A r \in 0 .. t.size - 1 : r # s => Full(x, r) = Full(t, r)
        <4> HIDE DEF t, s
        <4> QED  BY <1>2, PutFields
      <3> QED  BY <3>1
    <2>4. Walked(u, Off(u, s, 1), steps + 1)
      <3> HIDE DEF t, s, u
      <3> QED  BY <1>2, <1>3, <2>3, WalkedOn
    <2>5. Probing' => Full(t, s)
      BY <2>1 DEF Probing, Full
    <2>6. RobinHood(table') /\ (Expanding' => RobinHood(new_state'))
      <3> HIDE DEF u
      <3>1. Target' = IF Expanding' THEN new_state' ELSE table'
        BY DEF Target
      <3>2. RobinHood(Target')
        BY <2>1, <2>2
      <3>3. CASE Expanding
        <4>1. RobinHood(table') /\ Target' = new_state'
          BY <1>1, <3>1, <3>3 DEF ProbeInv, Expanding
        <4> QED  BY <3>2, <4>1
      <3>4. CASE ~Expanding
        <4>1. Target' = table'
          BY <1>1, <3>1, <3>4 DEF Expanding
        <4> QED  BY <1>1, <3>2, <3>4, <4>1 DEF Expanding
      <3> QED  BY <3>3, <3>4
    <2>7. Probing' => Pos' = Off(u, s, 1)
      BY <2>1, <2>2, <2>5 DEF Pos
    <2> QED  BY <1>1, <1>2, <1>3, <1>4, <2>1, <2>2, <2>3, <2>4, <2>5, <2>6, <2>7 DEF ProbeInv
  <1> QED  BY <1>5, <1>6

LEMMA EmplaceKeepsCountInv ==
    ASSUME IInv, CountInv, EmplaceStep
    PROVE  CountInv'
  <1> DEFINE t == Target
             s == Pos
  <1>1. /\ Probing /\ pc' = "emplace" /\ i' = i
        /\ Expanding' <=> Expanding
        /\ Expanding => table' = table
        /\ Displaces(t, s, probe_idx) => Target' = Put(t, s, entry) /\ entry' = t.slots[s]
        /\ ~Displaces(t, s, probe_idx) => UNCHANGED <<table, new_state, entry>>
    BY EmplaceMoves
  <1>2. /\ IsTable(t) /\ entry \in Entries /\ entry.hash_code # 0 /\ s \in 0 .. t.size - 1
    BY <1>1, ProbingFacts DEF Probing
  <1>3. CASE ~Displaces(t, s, probe_idx)
    BY <1>1, <1>3 DEF CountInv, Probing, Expanding, OccupiedBelow, Occupied
  <1>4. CASE Displaces(t, s, probe_idx)
    <2>1. /\ Full(t, s) => Cardinality(Occupied(Target')) = Cardinality(Occupied(t))
          /\ ~Full(t, s) => Cardinality(Occupied(Target')) = Cardinality(Occupied(t)) + 1
          /\ Target'.entry_count = t.entry_count
      <3>1. Put(t, s, entry).entry_count = t.entry_count
        BY <1>2 DEF Put, IsTable
      <3> HIDE DEF t, s
      <3> QED  BY <1>1, <1>2, <1>4, <3>1, PutCounts
    <2>2. Probing' <=> Full(t, s)
      BY <1>1, <1>4 DEF Probing, Full
    <2>3. Cardinality(Occupied(t)) \in Nat
      BY <1>2, OccupiedIsFinite
    <2>4. CASE Expanding
      <3>1. Target' = new_state' /\ t = new_state /\ table' = table
        BY <1>1, <2>4 DEF Target
      <3>2. OccupiedBelow(table', i') = OccupiedBelow(table, i)
            /\ Occupied(table') = Occupied(table)
        BY <1>1, <3>1
      <3> QED  BY <1>1, <2>1, <2>2, <2>3, <2>4, <3>1, <3>2 DEF CountInv
    <2>5. CASE ~Expanding
      <3>1. Target' = table' /\ t = table
        BY <1>1, <2>5 DEF Target
      <3> QED  BY <1>1, <2>1, <2>2, <2>3, <2>5, <3>1 DEF CountInv
    <2> QED  BY <2>4, <2>5
  <1> QED  BY <1>3, <1>4

LEMMA EmplaceKeepsReturnInv ==
    ASSUME IInv, ValidTables, CountInv, ProbeInv, ReturnInv, EmplaceStep
    PROVE  ReturnInv'
  <1> DEFINE t == Target
             s == Pos
  <1>1. /\ Probing /\ pc = "emplace" /\ adding' = adding
        /\ steps' = steps + 1
        /\ Expanding' <=> Expanding
        /\ Displaces(t, s, probe_idx) =>
               /\ Target' = Put(t, s, entry) /\ entry' = t.slots[s]
               /\ probe_idx' = Dist(t, s) + 1 /\ rval' = FirstSlot(s)
        /\ ~Displaces(t, s, probe_idx) =>
               /\ UNCHANGED <<table, new_state, entry, rval>>
               /\ Target' = t /\ probe_idx' = probe_idx + 1
    BY EmplaceMoves DEF Probing
  <1> SUFFICES ASSUME ~Expanding PROVE ReturnInv'
    BY <1>1 DEF ReturnInv
  <1>2. t = table /\ Target' = table'
    BY <1>1 DEF Target
  <1>3. /\ IsTable(t) /\ entry \in Entries /\ entry.hash_code \in Nat
        /\ entry.hash_code # 0 /\ probe_idx \in Nat /\ s \in 0 .. t.size - 1
        /\ DOMAIN t.slots = 0 .. t.size - 1 /\ t.size \in Nat
    BY <1>1, ProbingFacts, TableFields DEF Probing
  <1>4. HasVacancy(t) /\ RobinHood(t) /\ Fits(t, s, probe_idx) /\ Walked(t, s, steps)
        /\ steps \in Nat
    BY <1>1, <1>2, TargetHasVacancy DEF ProbeInv
  <1>5. steps < t.size
    BY <1>3, <1>4, WalkedIsShort
  <1>6. \/ rval = -1 /\ entry.key = adding
        \/ /\ rval \in DOMAIN t.slots /\ t.slots[rval].key = adding
           /\ \E j \in 1 .. steps : rval = Off(t, s, -j)
    BY <1>1, <1>2 DEF ReturnInv
  <1>7. rval # -1 => rval # s
    <2> SUFFICES ASSUME NEW j \in 1 .. steps, rval = Off(t, s, -j), rval = s PROVE FALSE
      BY <1>6
    <2>1. -j < 0 /\ 0 - (-j) < t.size /\ -j \in Int
      BY <1>3, <1>4, <1>5
    <2>2. Off(t, s, -j) # Off(t, s, 0)
      BY <1>3, <2>1, OffIsOneToOne
    <2> QED  BY <1>3, <2>2, OffOfASlot
  <1>8. ASSUME NEW u, u.size = t.size, Full(u, s), Walked(t, s, steps)
        PROVE  /\ s = Off(u, Off(u, s, 1), -1)
               /\ \A j \in 1 .. steps : Off(t, s, -j) = Off(u, Off(u, s, 1), -(j + 1))
    <2>1. \A r, j : Off(u, r, j) = Off(t, r, j)
      BY <1>8 DEF Off
    <2>2. ASSUME NEW j \in 0 .. steps
          PROVE  Off(t, s, -j) = Off(t, Off(t, s, 1), -(j + 1))
      <3>1. 1 + (-(j + 1)) = -j /\ -(j + 1) \in Int /\ s \in Int /\ 1 \in Int
        BY <1>3, <1>4
      <3> HIDE DEF t, s
      <3>2. Off(t, Off(t, s, 1), -(j + 1)) = Off(t, s, 1 + (-(j + 1)))
        BY <1>3, <3>1, OffOfOff
      <3> QED  BY <3>1, <3>2
    <2>3. Off(t, s, -0) = s
      BY <1>3, OffOfASlot
    <2>4. Off(t, s, -0) = Off(t, Off(t, s, 1), -(0 + 1)) /\ 0 + 1 = 1
      BY <1>4, <2>2
    <2> QED  BY <1>4, <2>1, <2>2, <2>3, <2>4
  <1>9. CASE ~Displaces(t, s, probe_idx)
    <2>1. Pos' = Off(t, s, 1) /\ Full(t, s)
      BY <1>1, <1>3, <1>9, PassingFits DEF Pos
    <2>2. \A j \in 1 .. steps : /\ j + 1 \in 1 .. steps'
                                /\ Off(t, s, -j) = Off(table', Pos', -(j + 1))
      BY <1>1, <1>2, <1>4, <1>8, <1>9, <2>1
    <2> QED  BY <1>1, <1>2, <1>3, <1>6, <1>9, <2>2 DEF ReturnInv
  <1>10. CASE Displaces(t, s, probe_idx)
    <2> DEFINE u == Put(t, s, entry)
    <2>1. /\ u.size = t.size /\ Full(u, s) /\ u.slots[s] = entry
          /\ \A r \in 0 .. t.size - 1 : r # s => u.slots[r] = t.slots[r]
          /\ IsTable(u)
      <3>1. \A x : x = Put(t, s, entry) =>
                /\ x.size = t.size /\ Full(x, s) /\ x.slots[s] = entry
                /\ \A r \in 0 .. t.size - 1 : r # s => x.slots[r] = t.slots[r]
                /\ IsTable(x)
        <4> HIDE DEF t, s
        <4> QED  BY <1>3, PutFields
      <3> QED  BY <3>1
    <2>2. DOMAIN u.slots = 0 .. t.size - 1
      BY <2>1, TableFields
    <2>3. Probing' => Pos' = Off(u, s, 1)
      <3>1. Full(t, s) => SlotAt(u, t.slots[s].hash_code, Dist(t, s) + 1) = Off(u, s, 1)
        <4> HIDE DEF t
        <4> QED  BY <1>3, <1>4, <1>10, DisplacingKeepsRobinHood DEF Pos, t
      <3>2. Probing' => Full(t, s)
        BY <1>1, <1>10 DEF Probing, Full
      <3> QED  BY <1>1, <1>10, <3>1, <3>2 DEF Pos
    <2> HIDE DEF u
    <2>4. table' = u
      BY <1>1, <1>2, <1>10 DEF u
    <2>5. /\ s = Off(u, Off(u, s, 1), -1)
          /\ \A j \in 1 .. steps : Off(t, s, -j) = Off(u, Off(u, s, 1), -(j + 1))
      BY <1>4, <1>8, <2>1
    <2>6. \A j \in 1 .. steps : j + 1 \in 1 .. steps' /\ 1 \in 1 .. steps'
      BY <1>1, <1>4
    <2>7. 1 \in 1 .. steps'
      BY <1>1, <1>4
    <2>8. CASE rval = -1
      <3>1. rval' = s /\ entry.key = adding
        BY <1>1, <1>6, <1>10, <2>8, <1>3 DEF FirstSlot
      <3>2. /\ rval' \in DOMAIN table'.slots /\ table'.slots[rval'].key = adding'
            /\ Probing' => rval' = Off(table', Pos', -1)
        BY <1>1, <1>3, <2>1, <2>2, <2>3, <2>4, <2>5, <3>1
      <3> QED  BY <2>7, <3>2 DEF ReturnInv
    <2>9. CASE rval # -1
      <3>1. /\ rval' = rval /\ rval # s /\ rval \in 0 .. t.size - 1
            /\ t.slots[rval].key = adding
        BY <1>1, <1>3, <1>6, <1>7, <1>10, <2>9 DEF FirstSlot
      <3>2. PICK j \in 1 .. steps : rval = Off(t, s, -j)
        BY <1>6, <2>9
      <3>3. /\ rval' \in DOMAIN table'.slots /\ table'.slots[rval'].key = adding'
            /\ Probing' => rval' = Off(table', Pos', -(j + 1))
        BY <1>1, <2>1, <2>2, <2>3, <2>4, <2>5, <3>1, <3>2
      <3> QED  BY <2>6, <3>2, <3>3 DEF ReturnInv
    <2> QED  BY <2>8, <2>9
  <1> QED  BY <1>9, <1>10

(* entry_count plays no part in where the entries are. *)
LEMMA SameSlots ==
    ASSUME NEW t, NEW u, u.size = t.size, u.mask = t.mask, u.slots = t.slots
    PROVE  /\ RobinHood(u) <=> RobinHood(t)
           /\ Occupied(u) = Occupied(t)
           /\ \A h, p : SlotAt(u, h, p) = SlotAt(t, h, p)
           /\ \A s, p : Fits(u, s, p) <=> Fits(t, s, p)
  BY DEF RobinHood, Full, Dist, Off, ProbeIdx, Occupied, SlotAt, Fits

(* Nothing has been walked over when the probing starts. *)
LEMMA FreshProbe ==
    ASSUME NEW t, NEW s
    PROVE  Walked(t, s, 0) /\ Fits(t, s, 0)
  BY DEF Walked, Fits

ProbingInv == ProbeInv /\ CountInv /\ ReturnInv

LEMMA InitProbingInv == Init => ProbingInv
  <1> SUFFICES ASSUME Init PROVE ProbingInv
    OBVIOUS
  <1>1. RobinHood(table) /\ Occupied(table) = {}
    BY AllocStateIsRobinHood DEF Init
  <1>2. table.entry_count = 0
    BY DEF Init, AllocState
  <1>3. pc = "idle" /\ ~Expanding /\ steps = 0
    BY DEF Init, Expanding
  <1> QED  BY <1>1, <1>2, <1>3, FS_EmptySet
              DEF ProbingInv, ProbeInv, CountInv, ReturnInv, Probing

LEMMA CreateProbing ==
    ASSUME IInv, ProbingInv, NEW k \in Key, Create(k)
    PROVE  ProbingInv'
  <1>1. /\ IsTable(table) /\ ~Expanding /\ pc = "idle" /\ RobinHood(table)
        /\ hash_fn \in [Key -> Hash]
    BY DEF IInv, TypeOK, Create, ProbingInv, ProbeInv
  <1>2. /\ table' = [table EXCEPT !.entry_count = @ + 1]
        /\ entry' = [hash_code |-> HashFor(k), key |-> k]
        /\ probe_idx' = FindProbe(table, HashFor(k), k)
        /\ rval' = -1 /\ steps' = 0 /\ pc' = "emplace" /\ adding' = k
        /\ new_state' = new_state
    BY DEF Create, StartEmplace
  <1>3. HashFor(k) \in Nat /\ HashFor(k) # 0
    BY <1>1, HashForIsPositive
  <1>4. /\ table'.size = table.size /\ table'.mask = table.mask
        /\ table'.slots = table.slots /\ table'.entry_count = table.entry_count + 1
    BY <1>1, <1>2 DEF IsTable
  <1>5. ~Expanding' /\ Target' = table' /\ Probing'
    BY <1>1, <1>2, <1>3 DEF Expanding, Target, Probing
  <1>6. /\ RobinHood(table') /\ Occupied(table') = Occupied(table)
        /\ \A h, p : SlotAt(table', h, p) = SlotAt(table, h, p)
        /\ \A s, p : Fits(table', s, p) <=> Fits(table, s, p)
    BY <1>1, <1>4, SameSlots
  <1>7. Fits(table, SlotAt(table, HashFor(k), probe_idx'), probe_idx')
    BY <1>1, <1>2, <1>3, SearchFits
  <1>8. Fits(Target', Pos', probe_idx') /\ Walked(Target', Pos', steps')
    BY <1>2, <1>5, <1>6, <1>7, FreshProbe DEF Pos
  <1>9. steps' <= Target'.size
    BY <1>1, <1>2, <1>4, <1>5, TableFields
  <1>10. table'.entry_count = Cardinality(Occupied(table')) + 1
    <2>1. table.entry_count = Cardinality(Occupied(table)) + 0
      BY <1>1 DEF ProbingInv, CountInv, Probing
    <2> QED  BY <1>1, <1>4, <1>6, <2>1, OccupiedIsFinite
  <1>11. rval' = -1 /\ entry'.hash_code # 0 /\ entry'.key = adding'
    BY <1>2, <1>3
  <1> QED  BY <1>2, <1>5, <1>6, <1>8, <1>9, <1>10, <1>11
              DEF ProbingInv, ProbeInv, CountInv, ReturnInv

LEMMA CreateExpandsProbing ==
    ASSUME SizeIsStored, IInv, ProbingInv, NEW k \in Key, CreateExpands(k)
    PROVE  ProbingInv'
  <1>1. /\ IsTable(table) /\ ~Expanding /\ pc = "idle" /\ RobinHood(table)
        /\ table' = table /\ new_state' = ExpandedTable(table) /\ i' = 0
        /\ steps' = steps /\ steps \in Nat /\ pc' = "rehash" /\ 2 * table.size <= MaxSize
    BY DEF IInv, TypeOK, CreateExpands, ProbingInv, ProbeInv
  <1>2. /\ RobinHood(new_state') /\ Occupied(new_state') = {}
        /\ new_state'.entry_count = table.entry_count
    <2> DEFINE n == TemplateSize(2 * table.size)
    <2>1. table.size \in Nat \ {0} /\ table.entry_count \in Nat
      BY <1>1 DEF IsTable
    <2>2. 2 * table.size \in 2 .. MaxSize + 2
      BY <1>1, <2>1, MaxSizeIsNat
    <2>3. n \in Nat \ {0}
      BY <2>2, RoundUpIsUp, MaxSizeIsNat DEF TemplateSize
    <2>4. ExpandedTable(table) = AllocState(n, n, table.entry_count)
      BY DEF ExpandedTable
    <2> HIDE DEF n
    <2>5. AllocState(n, n, table.entry_count).entry_count = table.entry_count
      BY DEF AllocState
    <2> QED  BY <1>1, <2>1, <2>3, <2>4, <2>5, AllocStateIsRobinHood
  <1>3. IsTable(new_state')
    BY <1>1, ExpandedTableIsGood
  <1>4. Expanding' /\ ~Probing'
    BY <1>1, <1>3, TableIsATable DEF Expanding, Probing
  <1>5. table.entry_count = Cardinality(Occupied(table))
    BY <1>1, OccupiedIsFinite DEF ProbingInv, CountInv, Probing
  <1>6. OccupiedBelow(table', i') = {} /\ Occupied(table') = Occupied(table)
    BY <1>1, OccupiedBelowEnds
  <1> QED  BY <1>1, <1>2, <1>4, <1>5, <1>6, FS_EmptySet
              DEF ProbingInv, ProbeInv, CountInv, ReturnInv

LEMMA RehashProbing ==
    ASSUME IInv, ProbingInv, Rehash
    PROVE  ProbingInv'
  <1>1. /\ IsTable(table) /\ IsTable(new_state) /\ Expanding /\ pc = "rehash"
        /\ i \in 0 .. table.size - 1 /\ i' = i + 1
        /\ table' = table /\ new_state' = new_state /\ ~Probing
        /\ steps \in Nat
    BY TableFields DEF IInv, TypeOK, Rehash, Expanding, Probing, ProbingInv, ProbeInv
  <1>2. Expanding' /\ Target' = new_state
    BY <1>1 DEF Expanding, Target
  <1>3. /\ Full(table, i) => /\ entry' = table.slots[i] /\ probe_idx' = 0 /\ steps' = 0
                             /\ pc' = "emplace"
        /\ ~Full(table, i) => pc' = "rehash" /\ steps' = steps
    BY <1>1 DEF Rehash, Full, StartEmplace
  <1>4. Probing' <=> Full(table, i)
    BY <1>3 DEF Probing, Full
  <1>5. Cardinality(OccupiedBelow(table, i + 1)) =
            Cardinality(OccupiedBelow(table, i)) + (IF Full(table, i) THEN 1 ELSE 0)
    BY <1>1, OccupiedBelowNext
  <1>6. Cardinality(Occupied(new_state)) \in Nat /\ Cardinality(OccupiedBelow(table, i)) \in Nat
    BY <1>1, OccupiedIsFinite
  <1>7. CountInv'
    BY <1>1, <1>2, <1>4, <1>5, <1>6 DEF ProbingInv, CountInv
  <1>8. ProbeInv'
    <2>1. pc' = "emplace" => steps' <= Target'.size
      BY <1>1, <1>2, <1>3, TableFields
    <2>2. Probing' => Fits(Target', Pos', probe_idx') /\ Walked(Target', Pos', steps')
      BY <1>3, <1>4, FreshProbe
    <2>3. steps' \in Nat
      BY <1>1, <1>3
    <2> QED  BY <1>1, <2>1, <2>2, <2>3 DEF ProbingInv, ProbeInv, Expanding
  <1> QED  BY <1>2, <1>7, <1>8 DEF ProbingInv, ReturnInv

LEMMA ExpandDoneProbing ==
    ASSUME IInv, ProbingInv, ExpandDone
    PROVE  ProbingInv'
  <1>1. /\ IsTable(table) /\ IsTable(new_state) /\ Expanding /\ pc = "rehash"
        /\ i = table.size /\ ~Probing /\ adding \in Key /\ hash_fn \in [Key -> Hash]
        /\ RobinHood(new_state)
    BY DEF IInv, TypeOK, ExpandDone, Expanding, Probing, MovedSoFar, ProbingInv, ProbeInv
  <1>2. /\ table' = [new_state EXCEPT !.entry_count = @ + 1] /\ new_state' = NoTable
        /\ entry' = [hash_code |-> HashFor(adding), key |-> adding]
        /\ probe_idx' = 0 /\ rval' = -1 /\ steps' = 0 /\ pc' = "emplace"
        /\ adding' = adding
    BY DEF ExpandDone, StartEmplace
  <1>3. HashFor(adding) # 0
    BY <1>1, HashForIsPositive
  <1>4. ~Expanding' /\ Target' = table' /\ Probing'
    BY <1>2, <1>3 DEF Expanding, Target, Probing
  <1>5. /\ table'.size = new_state.size /\ table'.mask = new_state.mask
        /\ table'.slots = new_state.slots
        /\ table'.entry_count = new_state.entry_count + 1
    BY <1>1, <1>2 DEF IsTable
  <1>6. RobinHood(table') /\ Occupied(table') = Occupied(new_state)
    BY <1>1, <1>5, SameSlots
  <1>7. Fits(Target', Pos', probe_idx') /\ Walked(Target', Pos', steps')
    BY <1>2, FreshProbe
  <1>8. steps' <= Target'.size /\ steps' \in Nat
    BY <1>1, <1>2, <1>4, <1>5, TableFields
  <1>9. table'.entry_count = Cardinality(Occupied(table')) + 1
    <2>1. Cardinality(Occupied(new_state)) + 0 = Cardinality(Occupied(table))
          /\ new_state.entry_count = Cardinality(Occupied(table))
      BY <1>1, OccupiedBelowEnds DEF ProbingInv, CountInv
    <2> QED  BY <1>1, <1>5, <1>6, <2>1, OccupiedIsFinite
  <1>10. rval' = -1 /\ entry'.hash_code # 0 /\ entry'.key = adding'
    BY <1>2, <1>3
  <1> QED  BY <1>4, <1>6, <1>7, <1>8, <1>9, <1>10
              DEF ProbingInv, ProbeInv, CountInv, ReturnInv

LEMMA NextProbingInv ==
    ASSUME SizeIsStored, IInv, ValidTables, ProbingInv, [Next]_vars
    PROVE  ProbingInv'
  <1>1. ASSUME NEW k \in Key, Create(k) \/ CreateExpands(k)
        PROVE  ProbingInv'
    BY <1>1, CreateProbing, CreateExpandsProbing
  <1>2. CASE Rehash
    BY <1>2, RehashProbing
  <1>3. CASE ExpandDone
    BY <1>3, ExpandDoneProbing
  <1>4. CASE EmplaceStep
    BY <1>4, EmplaceKeepsProbeInv, EmplaceKeepsCountInv, EmplaceKeepsReturnInv DEF ProbingInv
  <1>5. CASE EmplaceDone
    <2>1. /\ UNCHANGED <<table, new_state, entry, probe_idx, rval, i, steps>>
          /\ ~Probing /\ ~Probing' /\ pc' # "emplace"
      BY <1>5 DEF EmplaceDone, Probing
    <2> QED  BY <2>1 DEF ProbingInv, ProbeInv, CountInv, ReturnInv, Expanding,
                         OccupiedBelow, Occupied
  <1>6. CASE UNCHANGED vars
    BY <1>6 DEF vars, ProbingInv, ProbeInv, CountInv, ReturnInv, Expanding, Probing,
                Pos, Target, OccupiedBelow, Occupied, Walked, Fits
  <1> QED  BY <1>1, <1>2, <1>3, <1>4, <1>5, <1>6 DEF Next

LEMMA Invariance ==
    ASSUME SizeIsStored
    PROVE  Spec => [](IInv /\ ValidTables /\ ProbingInv)
  <1>1. Init => IInv /\ ValidTables /\ ProbingInv
    BY InitIInv, InitValidTables, InitProbingInv
  <1>2. IInv /\ ValidTables /\ ProbingInv /\ [Next]_vars => (IInv /\ ValidTables /\ ProbingInv)'
    BY NextIInv, ValidStep, NextProbingInv
  <1> QED  BY <1>1, <1>2, PTL DEF Spec

(* The search, which gives up at the first entry that is closer to its own  *)
(* slot than the searched key would be, finds every key of the table.      *)
THEOREM KeysAreFound ==
    ASSUME SizeIsStored
    PROVE  Spec => []EveryKeyIsFound
  <1>1. IInv /\ ProbingInv => EveryKeyIsFound
    <2> SUFFICES ASSUME IInv, ProbingInv, NEW s \in Occupied(table)
                 PROVE  Found(table, table.slots[s].hash_code, table.slots[s].key)
      BY DEF EveryKeyIsFound
    <2>1. IsTable(table) /\ RobinHood(table)
      BY DEF IInv, TypeOK, ProbingInv, ProbeInv
    <2>2. s \in 0 .. table.size - 1 /\ Full(table, s)
      BY <2>1, TableFields DEF Occupied, Full
    <2> QED  BY <2>1, <2>2, EntriesAreFound
  <1> QED  BY <1>1, Invariance, PTL

(* entry_count counts the entries, and there is always an empty slot.  *)
THEOREM CountIsExact ==
    ASSUME SizeIsStored
    PROVE  Spec => []EntryCountIsExact
  <1>1. IInv /\ ValidTables /\ ProbingInv => EntryCountIsExact
    <2> SUFFICES ASSUME IInv, ValidTables, ProbingInv PROVE EntryCountIsExact
      OBVIOUS
    <2>1. CASE pc = "idle"
      <3>1. IsTable(table) /\ ~Expanding /\ ~Probing
        BY <2>1 DEF IInv, TypeOK, Probing
      <3>2. table.entry_count = Cardinality(Occupied(table))
        BY <3>1, OccupiedIsFinite DEF ProbingInv, CountInv
      <3>3. table.entry_count < table.size
        <4>1. table.entry_count \in Nat /\ table.max_load \in Nat /\ table.size \in Nat
          BY <3>1 DEF IsTable
        <4> QED  BY <4>1 DEF ValidTables, StateIsValid
      <3> QED  BY <2>1, <3>2, <3>3 DEF EntryCountIsExact
    <2>2. CASE pc # "idle"
      <3>1. pc \in {"emplace", "rehash"} /\ entry \in Entries
        BY <2>2 DEF IInv, TypeOK
      <3>2. CASE ~(Probing \/ Expanding)
        BY <2>2, <3>1, <3>2 DEF EntryCountIsExact, Probing, IInv
      <3>3. CASE Probing \/ Expanding
        <4>1. HasVacancy(Target) /\ IsTable(Target)
          <5>1. HasVacancy(Target)
            BY <3>3, TargetHasVacancy DEF ProbingInv
          <5>2. IsTable(Target)
            BY DEF IInv, TypeOK, Target, Expanding
          <5> QED  BY <5>1, <5>2
        <4>2. Occupied(Target) # DOMAIN Target.slots
          BY <4>1, TableFields DEF HasVacancy, Occupied, Full
        <4> QED  BY <2>2, <4>2 DEF EntryCountIsExact
      <3> QED  BY <3>2, <3>3
    <2> QED  BY <2>1, <2>2
  <1> QED  BY <1>1, Invariance, PTL

(* What s_emplace_item returns is the slot of the entry it was given: no    *)
(* entry that it displaces comes back to that slot.                        *)
THEOREM ReturnsNewEntry ==
    ASSUME SizeIsStored
    PROVE  Spec => []ReturnsTheNewEntry
  <1>1. ProbingInv => ReturnsTheNewEntry
    BY DEF ProbingInv, ReturnInv, ReturnsTheNewEntry
  <1> QED  BY <1>1, Invariance, PTL

(* The loop of s_emplace_item takes no more steps than the table has slots. *)
THEOREM LoopIsLinear ==
    ASSUME SizeIsStored
    PROVE  Spec => []LinearTime
  <1>1. ProbingInv => LinearTime
    BY DEF ProbingInv, ProbeInv, LinearTime
  <1> QED  BY <1>1, Invariance, PTL

-----------------------------------------------------------------------------
(* The stubs of the SeaHorn branches cover this code. *)

EntriesOf(t) == {t.slots[s] : s \in Occupied(t)}
EntriesBelow(t, n) == {t.slots[s] : s \in OccupiedBelow(t, n)}
EntryInHand == IF pc = "emplace" THEN {entry} \ {Vacant} ELSE {}
NewEntry == [hash_code |-> HashFor(adding), key |-> adding]

(* What is not an entry is Vacant, with nothing left of an older entry. *)
IsClean(t) == \A s \in DOMAIN t.slots : ~Full(t, s) => t.slots[s] = Vacant

VacantInv ==
    /\ IsClean(table)
    /\ Expanding => IsClean(new_state)
    /\ entry.hash_code = 0 => entry = Vacant

(* An expansion has moved the entries of the slots it has passed, entry by  *)
(* entry, and what made it necessary is still the case.                    *)
MoveInv ==
    Expanding =>
        /\ EntriesOf(new_state) \cup EntryInHand = EntriesBelow(table, i)
        /\ NewEntry \notin EntriesOf(table)
        /\ table.entry_count + 1 > table.max_load
        /\ 2 * table.size <= MaxSize
        /\ new_state.size = TemplateSize(2 * table.size)

StubInv == VacantInv /\ MoveInv /\ table.max_load >= 1

StubStep == [Stubs!Next]_(Stubs!vars)

LEMMA EntriesAreFewer ==
    ASSUME NEW t, IsTable(t)
    PROVE  /\ IsFiniteSet(EntriesOf(t)) /\ Cardinality(EntriesOf(t)) \in Nat
           /\ Cardinality(EntriesOf(t)) <= Cardinality(Occupied(t))
  <1> DEFINE f == [s \in Occupied(t) |-> t.slots[s]]
  <1>1. IsFiniteSet(Occupied(t))
    BY OccupiedIsFinite
  <1>2. f \in Surjection(Occupied(t), EntriesOf(t))
    BY DEF Surjection, EntriesOf
  <1>3. IsFiniteSet(EntriesOf(t)) /\ Cardinality(EntriesOf(t)) <= Cardinality(Occupied(t))
    <2> HIDE DEF f
    <2> QED  BY <1>1, <1>2, FS_Surjection
  <1> QED  BY <1>3, FS_CardinalityType

(* Putting e into slot s and taking out what was there loses no entry. *)
LEMMA SwapKeepsEntries ==
    ASSUME NEW t, IsTable(t), IsClean(t), NEW s \in 0 .. t.size - 1,
           NEW e \in Entries, e.hash_code # 0,
           NEW u, u = Put(t, s, e)
    PROVE  /\ IsClean(u)
           /\ EntriesOf(u) \cup ({t.slots[s]} \ {Vacant}) = EntriesOf(t) \cup ({e} \ {Vacant})
           /\ t.slots[s].hash_code = 0 => t.slots[s] = Vacant
  <1>1. /\ IsTable(u) /\ u.size = t.size /\ u.slots[s] = e
        /\ \A r \in 0 .. t.size - 1 : r # s => u.slots[r] = t.slots[r]
    BY PutFields
  <1>2. DOMAIN u.slots = 0 .. t.size - 1 /\ DOMAIN t.slots = 0 .. t.size - 1
    BY <1>1, TableFields
  <1>3. Vacant.hash_code = 0
    BY DEF Vacant
  <1>4. \A r \in 0 .. t.size - 1 : t.slots[r].hash_code = 0 <=> t.slots[r] = Vacant
    BY <1>2, <1>3 DEF IsClean, Full
  <1>5. IsClean(u)
    BY <1>1, <1>2, <1>4 DEF IsClean, Full
  <1>6. ASSUME NEW r \in 0 .. t.size - 1
        PROVE  r \in Occupied(t) <=> t.slots[r] # Vacant
    BY <1>2, <1>4 DEF Occupied
  <1>7. ASSUME NEW r \in 0 .. t.size - 1
        PROVE  r \in Occupied(u) <=> (r = s \/ r \in Occupied(t))
    BY <1>1, <1>2 DEF Occupied
  <1>8. Occupied(t) \subseteq 0 .. t.size - 1 /\ Occupied(u) = Occupied(t) \cup {s}
    BY <1>2, <1>7 DEF Occupied
  <1>9. e # Vacant
    BY <1>3
  <1>10. EntriesOf(u) \cup ({t.slots[s]} \ {Vacant}) = EntriesOf(t) \cup {e}
    <2>1. EntriesOf(u) = {u.slots[r] : r \in Occupied(t) \cup {s}}
      BY <1>8 DEF EntriesOf
    <2>2. ASSUME NEW x \in EntriesOf(u) PROVE x \in EntriesOf(t) \cup {e}
      BY <1>1, <1>8, <2>1 DEF EntriesOf
    <2>3. ASSUME NEW x \in EntriesOf(t) PROVE x \in EntriesOf(u) \cup ({t.slots[s]} \ {Vacant})
      BY <1>1, <1>6, <1>8, <2>1 DEF EntriesOf
    <2>4. e \in EntriesOf(u)
      BY <1>1, <2>1
    <2>5. ({t.slots[s]} \ {Vacant}) \subseteq EntriesOf(t)
      BY <1>6 DEF EntriesOf
    <2> QED  BY <2>2, <2>3, <2>4, <2>5
  <1> QED  BY <1>4, <1>5, <1>9, <1>10

LEMMA EntriesBelowNext ==
    ASSUME NEW t, IsTable(t), IsClean(t), NEW n \in 0 .. t.size - 1
    PROVE  /\ Full(t, n) => EntriesBelow(t, n + 1) =
                                EntriesBelow(t, n) \cup ({t.slots[n]} \ {Vacant})
           /\ ~Full(t, n) => EntriesBelow(t, n + 1) = EntriesBelow(t, n)
  <1>1. DOMAIN t.slots = 0 .. t.size - 1
    BY TableFields
  <1>2. CASE Full(t, n)
    <2>1. OccupiedBelow(t, n + 1) = OccupiedBelow(t, n) \cup {n}
      BY <1>1, <1>2 DEF OccupiedBelow, Occupied, Full
    <2>2. t.slots[n] # Vacant
      BY <1>2 DEF Full, Vacant
    <2> QED  BY <1>2, <2>1, <2>2 DEF EntriesBelow
  <1>3. CASE ~Full(t, n)
    <2>1. OccupiedBelow(t, n + 1) = OccupiedBelow(t, n)
      BY <1>1, <1>3 DEF OccupiedBelow, Occupied, Full
    <2> QED  BY <1>3, <2>1 DEF EntriesBelow
  <1> QED  BY <1>2, <1>3

LEMMA EntriesBelowEnds ==
    ASSUME NEW t, IsTable(t)
    PROVE  EntriesBelow(t, 0) = {} /\ EntriesBelow(t, t.size) = EntriesOf(t)
  BY OccupiedBelowEnds DEF EntriesBelow, EntriesOf

(* The stubs count with a Cardinality of their own. *)
LEMMA SameCardinality == \A S : Stubs!Cardinality(S) = Cardinality(S)
  BY Zenon DEF Stubs!Cardinality, Cardinality

(* There is room for one more entry in a valid table that counts its own. *)
LEMMA RoomForOne ==
    ASSUME IInv, ValidTables, CountInv, Expanding \/ ~Probing
    PROVE  Cardinality(EntriesOf(table)) < table.size
  <1>1. IsTable(table)
    BY DEF IInv, TypeOK
  <1>2. /\ table.entry_count \in Nat /\ table.max_load \in Nat /\ table.size \in Nat
        /\ table.entry_count <= table.max_load /\ table.max_load < table.size
    BY <1>1 DEF IsTable, ValidTables, StateIsValid
  <1>3. Cardinality(Occupied(table)) \in Nat /\ Cardinality(EntriesOf(table)) \in Nat
        /\ Cardinality(EntriesOf(table)) <= Cardinality(Occupied(table))
    BY <1>1, OccupiedIsFinite, EntriesAreFewer
  <1>4. table.entry_count = Cardinality(Occupied(table))
    BY <1>3 DEF CountInv
  <1> QED  BY <1>2, <1>3, <1>4

LEMMA HashForIsAllowed ==
    ASSUME hash_fn \in [Key -> Hash], NEW k \in Key
    PROVE  Stubs!IsHashFor(HashFor(k), k)
  <1>1. HashFor(k) \in Nat /\ HashFor(k) # 0
    BY HashForIsPositive
  <1>2. CASE k = NullKey
    BY <1>2 DEF HashFor, Stubs!IsHashFor
  <1>3. CASE k # NullKey
    BY <1>1, <1>3 DEF Stubs!IsHashFor
  <1> QED  BY <1>2, <1>3

LEMMA EntriesNowUnfolds ==
    /\ ~Expanding /\ pc = "emplace" => entriesNow = EntriesOf(table) \cup ({entry} \ {Vacant})
    /\ (Expanding \/ pc # "emplace") => entriesNow = EntriesOf(table)
  BY DEF entriesNow, EntriesOf

LEMMA InitStubInv == Init => StubInv /\ Stubs!Init
  <1> SUFFICES ASSUME Init PROVE StubInv /\ Stubs!Init
    OBVIOUS
  <1>1. table = AllocState(2, 2, 0) /\ Occupied(table) = {}
    BY AllocStateIsRobinHood DEF Init
  <1>2. MaxLoad(2, 2) = 1
    BY DEF MaxLoad
  <1>3. table.size = 2 /\ table.max_load = 1 /\ table.entry_count = 0
    BY <1>1, <1>2 DEF AllocState
  <1>4. IsClean(table)
    BY <1>1 DEF IsClean, Full, AllocState
  <1>5. ~Expanding /\ pc = "idle" /\ entry = Vacant
    BY DEF Init, Expanding
  <1>6. entriesNow = {}
    BY <1>1, <1>5 DEF entriesNow
  <1> QED  BY <1>3, <1>4, <1>5, <1>6, RoundUpIsUp
              DEF StubInv, VacantInv, MoveInv, Stubs!Init

LEMMA CreateStub ==
    ASSUME IInv, ValidTables, ProbingInv, StubInv, NEW k \in Key, Create(k)
    PROVE  StubInv' /\ StubStep
  <1> DEFINE e == [hash_code |-> HashFor(k), key |-> k]
  <1>1. /\ IsTable(table) /\ ~Expanding /\ pc = "idle" /\ RobinHood(table)
        /\ hash_fn \in [Key -> Hash] /\ ~Probing
    BY DEF IInv, TypeOK, Create, ProbingInv, ProbeInv, Probing
  <1>2. /\ table' = [table EXCEPT !.entry_count = @ + 1]
        /\ entry' = e /\ pc' = "emplace" /\ new_state' = new_state
        /\ table.entry_count + 1 <= table.max_load
        /\ ~Found(table, HashFor(k), k)
    BY DEF Create, StartEmplace
  <1>3. HashFor(k) # 0 /\ e # Vacant
    BY <1>1, HashForIsPositive DEF Vacant
  <1>4. /\ table'.size = table.size /\ table'.slots = table.slots
        /\ table'.max_load = table.max_load /\ table'.entry_count = table.entry_count + 1
    BY <1>1, <1>2 DEF IsTable
  <1>5. ~Expanding'
    BY <1>1, <1>2 DEF Expanding
  <1>6. EntriesOf(table') = EntriesOf(table) /\ IsClean(table')
    BY <1>4 DEF EntriesOf, Occupied, IsClean, Full, StubInv, VacantInv
  <1>7. StubInv'
    BY <1>2, <1>3, <1>4, <1>5, <1>6 DEF StubInv, VacantInv, MoveInv
  <1>8. e \notin EntriesOf(table)
    <2>1. ASSUME NEW s \in Occupied(table), table.slots[s] = e PROVE FALSE
      <3>1. s \in 0 .. table.size - 1 /\ Full(table, s)
        BY <1>1, TableFields DEF Occupied, Full
      <3>2. Found(table, table.slots[s].hash_code, table.slots[s].key)
        BY <1>1, <3>1, EntriesAreFound
      <3> QED  BY <1>2, <2>1, <3>2
    <2> QED  BY <2>1 DEF EntriesOf
  <1>9. entriesNow = EntriesOf(table) /\ entriesNow' = EntriesOf(table) \cup {e}
    <2>1. entriesNow' = EntriesOf(table)' \cup ({entry'} \ {Vacant})
      BY <1>2, <1>5 DEF entriesNow, EntriesOf
    <2>2. entriesNow = EntriesOf(table)
      BY <1>1, EntriesNowUnfolds
    <2> QED  BY <1>2, <1>3, <1>6, <2>1, <2>2
  <1>10. Stubs!HasAnEmptySlot
    BY <1>1, <1>9, RoomForOne, SameCardinality DEF ProbingInv, Stubs!HasAnEmptySlot
  <1>11. Stubs!EmplaceItem(entriesNow, k)
    <2>1. e.key = k /\ Stubs!IsHashFor(e.hash_code, k)
      BY <1>1, HashForIsAllowed
    <2> HIDE DEF e
    <2> QED  BY <1>4, <1>8, <1>9, <2>1 DEF Stubs!EmplaceItem
  <1>12. Stubs!Create(k)
    BY <1>2, <1>4, <1>10, <1>11 DEF Stubs!Create
  <1> QED  BY <1>7, <1>12 DEF StubStep, Stubs!Next

LEMMA CreateExpandsStub ==
    ASSUME SizeIsStored, IInv, ProbingInv, StubInv, NEW k \in Key, CreateExpands(k)
    PROVE  StubInv' /\ StubStep
  <1> DEFINE e == [hash_code |-> HashFor(k), key |-> k]
             n == TemplateSize(2 * table.size)
  <1>1. /\ IsTable(table) /\ ~Expanding /\ pc = "idle" /\ RobinHood(table)
    BY DEF IInv, TypeOK, CreateExpands, ProbingInv, ProbeInv
  <1>2. /\ table' = table /\ new_state' = ExpandedTable(table) /\ i' = 0
        /\ entry' = entry /\ pc' = "rehash" /\ adding' = k /\ hash_fn' = hash_fn
        /\ table.entry_count + 1 > table.max_load /\ 2 * table.size <= MaxSize
        /\ ~Found(table, HashFor(k), k)
    BY DEF CreateExpands
  <1>3. IsTable(new_state')
    BY <1>1, <1>2, ExpandedTableIsGood
  <1>4. Expanding'
    BY <1>3, TableIsATable DEF Expanding
  <1>5. new_state' = AllocState(n, n, table.entry_count)
    BY <1>2 DEF ExpandedTable
  <1>6. new_state'.size = n /\ Occupied(new_state') = {} /\ IsClean(new_state')
    <2> HIDE DEF n
    <2> QED  BY <1>5 DEF AllocState, Occupied, IsClean, Full, Vacant
  <1>7. EntriesOf(new_state') = {} /\ EntryInHand' = {}
    BY <1>2, <1>6 DEF EntriesOf, EntryInHand
  <1>8. EntriesBelow(table', i') = {}
    BY <1>1, <1>2, EntriesBelowEnds
  <1>9. e \notin EntriesOf(table)
    <2>1. ASSUME NEW s \in Occupied(table), table.slots[s] = e PROVE FALSE
      <3>1. s \in 0 .. table.size - 1 /\ Full(table, s)
        BY <1>1, TableFields DEF Occupied, Full
      <3>2. Found(table, table.slots[s].hash_code, table.slots[s].key)
        BY <1>1, <3>1, EntriesAreFound
      <3> QED  BY <1>2, <2>1, <3>2
    <2> QED  BY <2>1 DEF EntriesOf
  <1>10. NewEntry' = e
    BY <1>2 DEF NewEntry, HashFor
  <1>11. VacantInv'
    BY <1>2, <1>6 DEF StubInv, VacantInv, IsClean, Full, Expanding
  <1>12. MoveInv'
    <2> HIDE DEF e
    <2>1. EntriesOf(table') = EntriesOf(table)
      BY <1>2
    <2>2. TemplateSize(2 * table'.size) = n
      BY <1>2
    <2> HIDE DEF n
    <2> QED  BY <1>2, <1>6, <1>7, <1>8, <1>9, <1>10, <2>1, <2>2 DEF MoveInv
  <1>13. entriesNow' = entriesNow
    BY <1>1, <1>2 DEF entriesNow
  <1> QED  BY <1>2, <1>11, <1>12, <1>13 DEF StubInv, StubStep, Stubs!vars

LEMMA RehashStub ==
    ASSUME IInv, StubInv, Rehash
    PROVE  StubInv' /\ StubStep
  <1>1. /\ IsTable(table) /\ Expanding /\ pc = "rehash" /\ i \in 0 .. table.size - 1
        /\ i' = i + 1 /\ IsClean(table)
        /\ UNCHANGED <<table, new_state, hash_fn, adding>>
    BY TableFields DEF IInv, TypeOK, Rehash, StubInv, VacantInv
  <1>2. CASE Full(table, i)
    <2>1. entry' = table.slots[i] /\ pc' = "emplace"
      BY <1>1, <1>2 DEF Rehash, StartEmplace, Full
    <2>2. EntryInHand' = {table.slots[i]} \ {Vacant}
      BY <2>1 DEF EntryInHand
    <2>3. EntriesBelow(table, i + 1) = EntriesBelow(table, i) \cup ({table.slots[i]} \ {Vacant})
      BY <1>1, <1>2, EntriesBelowNext
    <2>4. VacantInv'
      BY <1>1, <1>2, <2>1 DEF StubInv, VacantInv, IsClean, Full, Expanding
    <2>5. EntryInHand = {}
      BY <1>1 DEF EntryInHand
    <2>6. EntriesBelow(table', i') = EntriesBelow(table, i + 1) /\ NewEntry' = NewEntry
          /\ EntriesOf(new_state') = EntriesOf(new_state)
          /\ EntriesOf(table') = EntriesOf(table)
      BY <1>1 DEF NewEntry, HashFor
    <2>7. MoveInv'
      BY <1>1, <2>2, <2>3, <2>5, <2>6 DEF StubInv, MoveInv
    <2>8. entriesNow' = entriesNow
      BY <1>1 DEF entriesNow, Expanding
    <2> QED  BY <1>1, <2>4, <2>7, <2>8 DEF StubInv, StubStep, Stubs!vars
  <1>3. CASE ~Full(table, i)
    <2>1. entry' = entry /\ pc' = pc
      BY <1>1, <1>3 DEF Rehash, Full
    <2>2. EntriesBelow(table, i + 1) = EntriesBelow(table, i)
      BY <1>1, <1>3, EntriesBelowNext
    <2>3. VacantInv'
      BY <1>1, <2>1 DEF StubInv, VacantInv, IsClean, Full, Expanding
    <2>4. EntriesBelow(table', i') = EntriesBelow(table, i + 1) /\ NewEntry' = NewEntry
          /\ EntriesOf(new_state') = EntriesOf(new_state)
          /\ EntriesOf(table') = EntriesOf(table)
      BY <1>1 DEF NewEntry, HashFor
    <2>5. EntryInHand' = EntryInHand
      BY <2>1 DEF EntryInHand
    <2>6. MoveInv'
      BY <1>1, <2>2, <2>4, <2>5 DEF StubInv, MoveInv
    <2>7. entriesNow' = entriesNow
      BY <1>1, <2>1 DEF entriesNow, Expanding
    <2> QED  BY <1>1, <2>3, <2>6, <2>7 DEF StubInv, StubStep, Stubs!vars
  <1> QED  BY <1>2, <1>3

(* The step by which a larger table takes over is the one at which the stubs *)
(* expand; what they leave arbitrary is here the content of the old table. *)
LEMMA ExpandDoneStub ==
    ASSUME IInv, ValidTables, ProbingInv, StubInv, ExpandDone
    PROVE  StubInv' /\ StubStep
  <1> DEFINE before == EntriesOf(table)
  <1>1. /\ IsTable(table) /\ IsTable(new_state) /\ pc = "rehash" /\ Expanding
        /\ i = table.size /\ ~Probing /\ adding \in Key /\ hash_fn \in [Key -> Hash]
        /\ new_state.size >= table.size
    BY DEF IInv, TypeOK, ExpandDone, Expanding, Probing, MovedSoFar
  <1>2. /\ table' = [new_state EXCEPT !.entry_count = @ + 1] /\ new_state' = NoTable
        /\ entry' = NewEntry /\ pc' = "emplace"
    BY DEF ExpandDone, StartEmplace, NewEntry
  <1>3. HashFor(adding) # 0 /\ NewEntry # Vacant
    BY <1>1, HashForIsPositive DEF Vacant, NewEntry
  <1>4. /\ table'.size = new_state.size /\ table'.slots = new_state.slots
        /\ table'.max_load = new_state.max_load
        /\ table'.entry_count = new_state.entry_count + 1
    BY <1>1, <1>2 DEF IsTable
  <1>5. ~Expanding'
    BY <1>2 DEF Expanding
  <1>6. EntriesOf(new_state) = before
    <2>1. EntryInHand = {}
      BY <1>1 DEF EntryInHand
    <2>2. EntriesOf(new_state) \cup EntryInHand = EntriesBelow(table, i)
      BY <1>1 DEF StubInv, MoveInv
    <2> QED  BY <1>1, <2>1, <2>2, EntriesBelowEnds
  <1>7. EntriesOf(table') = before /\ IsClean(table')
    <2>1. EntriesOf(table') = EntriesOf(new_state) /\ IsClean(table')
      BY <1>1, <1>4 DEF EntriesOf, Occupied, IsClean, Full, StubInv, VacantInv
    <2> QED  BY <1>6, <2>1
  <1>8. entriesNow = before /\ entriesNow' = before \cup {NewEntry}
    <2>1. entriesNow' = EntriesOf(table)' \cup ({entry'} \ {Vacant})
      BY <1>2, <1>5 DEF entriesNow, EntriesOf
    <2>2. entriesNow = before
      BY <1>1, EntriesNowUnfolds
    <2> QED  BY <1>2, <1>3, <1>7, <2>1, <2>2
  <1>9. /\ new_state.entry_count = table.entry_count
        /\ table.entry_count \in Nat /\ table.max_load \in Nat
        /\ new_state.max_load \in Nat /\ new_state.size \in Nat /\ table.size \in Nat
        /\ new_state.entry_count < new_state.max_load
        /\ new_state.max_load < new_state.size
    BY <1>1 DEF ProbingInv, CountInv, IsTable, ValidTables, StateIsValid
  <1>10. StubInv'
    BY <1>2, <1>3, <1>4, <1>5, <1>7, <1>9 DEF StubInv, VacantInv, MoveInv, NewEntry
  <1>11. Cardinality(before) < table.size /\ Cardinality(before) \in Nat
    BY <1>1, RoomForOne, EntriesAreFewer DEF ProbingInv
  <1>12. Stubs!ExpandTable
    <2>1. /\ 2 * table.size <= MaxSize /\ table.entry_count + 1 > table.max_load
          /\ new_state.size = TemplateSize(2 * table.size) /\ table.max_load >= 1
      BY <1>1 DEF StubInv, MoveInv
    <2>2. table.entry_count > 0
      BY <1>9, <2>1
    <2>3. Stubs!HasAnEmptySlot
      BY <1>8, <1>11, SameCardinality DEF Stubs!HasAnEmptySlot
    <2>4. Stubs!UpdateTemplateSize(2 * table.size)
      BY <1>4, <1>9, <2>1 DEF Stubs!UpdateTemplateSize, TemplateSize
    <2> QED  BY <2>1, <2>2, <2>3, <2>4 DEF Stubs!ExpandTable
  <1>13. Stubs!EmplaceItem(before, adding)
    <2>1. NewEntry.key = adding /\ Stubs!IsHashFor(NewEntry.hash_code, adding)
      BY <1>1, HashForIsAllowed DEF NewEntry
    <2>2. NewEntry \notin before
      BY <1>1 DEF StubInv, MoveInv
    <2>3. NewEntry \in entriesNow' /\ table'.entry_count = table.entry_count + 1
      BY <1>4, <1>8, <1>9
    <2> HIDE DEF before
    <2> QED  BY <1>8, <2>1, <2>2, <2>3 DEF Stubs!EmplaceItem
  <1>14. Stubs!CreateExpands(adding)
    <2>1. before \in SUBSET entriesNow' /\ Cardinality(before) < table'.size
      BY <1>1, <1>4, <1>8, <1>9, <1>11
    <2>2. table.entry_count + 1 > table.max_load
      BY <1>1 DEF StubInv, MoveInv
    <2> HIDE DEF before
    <2> QED  BY <1>12, <1>13, <2>1, <2>2, SameCardinality DEF Stubs!CreateExpands
  <1> QED  BY <1>1, <1>10, <1>14 DEF StubStep, Stubs!Next

LEMMA EmplaceStub ==
    ASSUME IInv, StubInv, EmplaceStep
    PROVE  StubInv' /\ StubStep
  <1>1. /\ Probing /\ pc = "emplace" /\ pc' = "emplace" /\ Expanding' = Expanding
        /\ UNCHANGED <<adding, i, hash_fn>>
        /\ Expanding => table' = table
        /\ Displaces(Target, Pos, probe_idx) =>
               Target' = Put(Target, Pos, entry) /\ entry' = Target.slots[Pos]
        /\ ~Displaces(Target, Pos, probe_idx) =>
               UNCHANGED <<table, new_state, entry>> /\ Target' = Target
    BY EmplaceMoves DEF Probing
  <1>2. /\ IsTable(Target) /\ Pos \in 0 .. Target.size - 1 /\ entry \in Entries
        /\ entry.hash_code # 0 /\ IsClean(Target)
    BY <1>1, ProbingFacts DEF Probing, StubInv, VacantInv, Target
  (* What is in the table and what is in hand are together the same. *)
  <1>3. /\ IsClean(Target')
        /\ EntriesOf(Target') \cup ({entry'} \ {Vacant}) =
               EntriesOf(Target) \cup ({entry} \ {Vacant})
        /\ entry'.hash_code = 0 => entry' = Vacant
        /\ Target'.size = Target.size /\ Target'.max_load = Target.max_load
        /\ Target'.entry_count = Target.entry_count
    <2>1. CASE Displaces(Target, Pos, probe_idx)
      <3>1. /\ IsClean(Target')
            /\ EntriesOf(Target') \cup ({Target.slots[Pos]} \ {Vacant}) =
                  EntriesOf(Target) \cup ({entry} \ {Vacant})
            /\ Target.slots[Pos].hash_code = 0 => Target.slots[Pos] = Vacant
        BY <1>1, <1>2, <2>1, SwapKeepsEntries
      <3>2. /\ Target'.size = Target.size /\ Target'.max_load = Target.max_load
            /\ Target'.entry_count = Target.entry_count
        BY <1>1, <1>2, <2>1 DEF Put, IsTable
      <3> QED  BY <1>1, <2>1, <3>1, <3>2
    <2>2. CASE ~Displaces(Target, Pos, probe_idx)
      <3>1. Target' = Target /\ entry' = entry
        BY <1>1, <2>2
      <3> QED  BY <1>2, <3>1
    <2> QED  BY <2>1, <2>2
  <1>4. CASE Expanding
    <2>1. Target = new_state /\ Target' = new_state' /\ table' = table /\ Expanding'
      BY <1>1, <1>4 DEF Target
    <2>2. VacantInv'
      BY <1>2, <1>3, <1>4, <2>1 DEF StubInv, VacantInv, IsClean, Full
    <2>3. EntryInHand' = {entry'} \ {Vacant} /\ EntryInHand = {entry} \ {Vacant}
      BY <1>1 DEF EntryInHand
    <2>4. EntriesBelow(table', i') = EntriesBelow(table, i) /\ NewEntry' = NewEntry
          /\ EntriesOf(table') = EntriesOf(table)
      BY <1>1, <2>1 DEF NewEntry, HashFor
    <2>5. MoveInv'
      BY <1>3, <1>4, <2>1, <2>3, <2>4 DEF StubInv, MoveInv
    <2>6. entriesNow' = entriesNow
      BY <1>4, <2>1, EntriesNowUnfolds DEF entriesNow
    <2> QED  BY <2>1, <2>2, <2>5, <2>6 DEF StubInv, StubStep, Stubs!vars
  <1>5. CASE ~Expanding
    <2>1. Target = table /\ Target' = table' /\ ~Expanding'
      BY <1>1, <1>5 DEF Target
    <2>2. entriesNow' = EntriesOf(table') \cup ({entry'} \ {Vacant})
      BY <1>1, <2>1 DEF entriesNow, EntriesOf
    <2>3. entriesNow = EntriesOf(table) \cup ({entry} \ {Vacant})
      BY <1>1, <1>5, EntriesNowUnfolds
    <2>4. entriesNow' = entriesNow
      BY <1>3, <2>1, <2>2, <2>3
    <2>5. StubInv'
      BY <1>3, <2>1 DEF StubInv, VacantInv, MoveInv
    <2> QED  BY <1>3, <2>1, <2>4, <2>5 DEF StubStep, Stubs!vars
  <1> QED  BY <1>4, <1>5

LEMMA EmplaceDoneStub ==
    ASSUME IInv, StubInv, EmplaceDone
    PROVE  StubInv' /\ StubStep
  <1>1. /\ UNCHANGED <<hash_fn, table, new_state, entry, i>> /\ pc = "emplace"
        /\ Expanding' = Expanding /\ entry = Vacant
        /\ Expanding => adding' = adding /\ pc' = "rehash"
        /\ ~Expanding => pc' = "idle"
    BY DEF EmplaceDone, Expanding, StubInv, VacantInv
  <1>2. VacantInv'
    BY <1>1 DEF StubInv, VacantInv, IsClean, Full
  <1>3. MoveInv'
    <2>1. CASE Expanding
      <3>1. EntryInHand = {} /\ EntryInHand' = {}
        BY <1>1, <2>1 DEF EntryInHand
      <3>2. NewEntry' = NewEntry /\ EntriesBelow(table', i') = EntriesBelow(table, i)
            /\ EntriesOf(table') = EntriesOf(table)
            /\ EntriesOf(new_state') = EntriesOf(new_state)
        BY <1>1, <2>1 DEF NewEntry, HashFor
      <3> QED  BY <1>1, <2>1, <3>1, <3>2 DEF StubInv, MoveInv
    <2> QED  BY <1>1, <2>1 DEF MoveInv
  <1>4. entriesNow' = entriesNow
    BY <1>1 DEF entriesNow
  <1> QED  BY <1>1, <1>2, <1>3, <1>4 DEF StubInv, StubStep, Stubs!vars

LEMMA NextStub ==
    ASSUME SizeIsStored, IInv, ValidTables, ProbingInv, StubInv, [Next]_vars
    PROVE  StubInv' /\ StubStep
  <1>1. ASSUME NEW k \in Key, Create(k) \/ CreateExpands(k)
        PROVE  StubInv' /\ StubStep
    BY <1>1, CreateStub, CreateExpandsStub
  <1>2. CASE UNCHANGED vars
    <2>1. UNCHANGED <<hash_fn, table, new_state, entry, i, pc, adding>>
      BY <1>2 DEF vars
    <2>2. entriesNow' = entriesNow
      BY <2>1 DEF entriesNow, Expanding
    <2>3. VacantInv'
      BY <2>1 DEF StubInv, VacantInv, IsClean, Full, Expanding
    <2>4. EntryInHand' = EntryInHand /\ NewEntry' = NewEntry
          /\ EntriesBelow(table', i') = EntriesBelow(table, i)
          /\ EntriesOf(table') = EntriesOf(table)
          /\ EntriesOf(new_state') = EntriesOf(new_state)
          /\ Expanding' = Expanding
      BY <2>1 DEF EntryInHand, NewEntry, HashFor, Expanding
    <2>5. MoveInv'
      BY <2>1, <2>4 DEF StubInv, MoveInv
    <2> QED  BY <2>1, <2>2, <2>3, <2>5 DEF StubInv, StubStep, Stubs!vars
  <1> QED  BY <1>1, <1>2, RehashStub, ExpandDoneStub, EmplaceStub, EmplaceDoneStub DEF Next

(* Whatever this code does to the size, the counters and the set of the     *)
(* entries, the stubs of the SeaHorn branches may do: a proof that uses the *)
(* stubs leaves out no behaviour of the original code.                     *)
THEOREM StubsCover ==
    ASSUME SizeIsStored
    PROVE  Spec => ImplementsStubs
  <1>1. Init => IInv /\ ValidTables /\ ProbingInv /\ StubInv /\ Stubs!Init
    BY InitIInv, InitValidTables, InitProbingInv, InitStubInv
  <1>2. IInv /\ ValidTables /\ ProbingInv /\ StubInv /\ [Next]_vars =>
            (IInv /\ ValidTables /\ ProbingInv /\ StubInv)' /\ [Stubs!Next]_(Stubs!vars)
    BY NextIInv, ValidStep, NextProbingInv, NextStub DEF StubStep
  <1> QED  BY <1>1, <1>2, PTL DEF Spec, ImplementsStubs, Stubs!Spec
=============================================================================
