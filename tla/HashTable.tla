----------------------------- MODULE HashTable -----------------------------
(***************************************************************************)
(* The hash table code that the repository carries in                      *)
(* seahorn/aws-c-common-stubs: s_emplace_item with its Robin Hood probing,  *)
(* s_expand_table, s_update_template_size and s_hash_for, in the form they  *)
(* have outside of SeaHorn (the #else branches, "original code").  What the *)
(* SeaHorn branches make of it is the specification HashTableStubs.        *)
(*                                                                         *)
(* A driver adds keys one after the other, the way aws_hash_table_create   *)
(* calls this code.  The loops run one iteration per step.                 *)
(***************************************************************************)
EXTENDS Integers, FiniteSets

CONSTANTS
    Key,          \* the keys that may be added
    NullKey,      \* the key NULL, if it is one of them
    Hash,         \* the values hash_fn may take
    MaxSize,      \* above this size the allocation fails or overflows
    SizeIsStored, \* s_update_template_size stores the size it computes
    RoundUp(_)    \* aws_round_up_to_power_of_two of the library

ASSUME HashIsNat == Hash \subseteq Nat
ASSUME MaxSizeIsNat == MaxSize \in Nat
ASSUME SizeIsStoredOrNot == SizeIsStored \in BOOLEAN
ASSUME RoundUpIsUp ==
    /\ \A n \in 2 .. MaxSize + 2 :
           RoundUp(n) \in Nat /\ RoundUp(n) >= n /\ RoundUp(RoundUp(n)) = RoundUp(n)
    /\ RoundUp(2) = 2

VARIABLES
    hash_fn,      \* the user's hash function
    table,        \* map->p_impl
    new_state,    \* the table s_expand_table fills; NoTable outside of it
    pc,           \* "idle", "emplace", "rehash"
    entry,        \* the entry s_emplace_item still has to place
    probe_idx,
    rval,         \* the slot s_emplace_item will return, -1 for NULL
    i,            \* s_expand_table's loop counter
    adding,       \* the key being added
    steps         \* iterations of the current s_emplace_item

vars == <<hash_fn, table, new_state, pc, entry, probe_idx, rval, i, adding, steps>>

-----------------------------------------------------------------------------

NoKey == "no key"
Vacant == [hash_code |-> 0, key |-> NoKey]
NoTable == [size |-> 0, mask |-> 0, max_load |-> 0, entry_count |-> 0, slots |-> <<>>]

(* max_load_factor is 0.95 in every table the unit proofs build.  It is     *)
(* applied to the size the template has, the result is cut off to an        *)
(* integer, and capped so that one of size slots stays empty.              *)
MaxLoad_NoCap(size, template_size) == template_size
MaxLoad(size, template_size) ==
    LET load == (95 * template_size) \div 100
    IN  IF load >= size THEN size - 1 ELSE load

TemplateSize(expected_elements) ==
    RoundUp(IF expected_elements < 2 THEN 2 ELSE expected_elements)

(* s_alloc_state: as many slots as the template's size says, all vacant. *)
AllocState(size, template_size, entry_count) ==
    [size |-> template_size, mask |-> size - 1,
     max_load |-> MaxLoad(size, template_size), entry_count |-> entry_count,
     slots |-> [s \in 0 .. template_size - 1 |-> Vacant]]

ExpandedTable_OldSize(t) ==
    AllocState(TemplateSize(2 * t.size), t.size, t.entry_count)

(* The table s_expand_table allocates.  The function of the library stores  *)
(* the new size in the template, and so does the SeaHorn branch of the      *)
(* override; its #else branch does not, and the template keeps the size of *)
(* the old table next to the mask of the new one.                          *)
ExpandedTable(t) ==
    LET size == TemplateSize(2 * t.size)
    IN  AllocState(size, IF SizeIsStored THEN size ELSE t.size, t.entry_count)

HashFor(k) ==
    IF k = NullKey THEN 42
    ELSE IF hash_fn[k] = 0 THEN 1 ELSE hash_fn[k]

(* How far entry e, when in slot s, is from the slot its hash selects.  The  *)
(* 64-bit difference wraps; the mask makes that a remainder.               *)
ProbeIdx_Zero(t, s, e) == 0
ProbeIdx(t, s, e) == (s - e.hash_code) % (t.mask + 1)
SlotAt(t, hash_code, p) == (hash_code + p) % (t.mask + 1)

(* The search of aws_hash_table_create: it follows the probe sequence until *)
(* a slot is vacant or holds an entry closer to its own slot.              *)
StopsAt(t, hash_code, k, p) ==
    LET s == SlotAt(t, hash_code, p)
        e == t.slots[s]
    IN  e.hash_code = 0 \/ e.key = k \/ ProbeIdx(t, s, e) < p

FindProbe(t, hash_code, k) ==
    CHOOSE p \in 0 .. t.size : (p = t.size \/ StopsAt(t, hash_code, k, p))
                               /\ \A q \in 0 .. p - 1 : ~StopsAt(t, hash_code, k, q)

Found(t, hash_code, k) ==
    LET p == FindProbe(t, hash_code, k)
    IN  p < t.size /\ t.slots[SlotAt(t, hash_code, p)].key = k

Occupied(t) == {s \in DOMAIN t.slots : t.slots[s].hash_code # 0}
KeysOf(t) == {t.slots[s].key : s \in Occupied(t)}
Held(e) == IF e.hash_code = 0 THEN {} ELSE {e.key}

-----------------------------------------------------------------------------

Init ==
    /\ hash_fn \in [Key -> Hash]
    /\ table = AllocState(2, 2, 0)
    /\ new_state = NoTable
    /\ pc = "idle"
    /\ entry = Vacant /\ probe_idx = 0 /\ rval = -1 /\ i = 0 /\ adding = NoKey
    /\ steps = 0

StartEmplace(e, p) ==
    /\ entry' = e /\ probe_idx' = p /\ rval' = -1 /\ steps' = 0

(* aws_hash_table_create finds room for one more entry. *)
Create(k) ==
    /\ pc = "idle"
    /\ ~Found(table, HashFor(k), k)
    /\ table.entry_count + 1 <= table.max_load
    /\ table' = [table EXCEPT !.entry_count = @ + 1]
    /\ StartEmplace([hash_code |-> HashFor(k), key |-> k],
                    FindProbe(table, HashFor(k), k))
    /\ pc' = "emplace" /\ adding' = k
    /\ UNCHANGED <<hash_fn, new_state, i>>

(* ... or has to expand the table first.  (When that fails, the call fails  *)
(* and nothing has changed.)                                               *)
CreateExpands(k) ==
    /\ pc = "idle"
    /\ ~Found(table, HashFor(k), k)
    /\ table.entry_count + 1 > table.max_load
    /\ 2 * table.size <= MaxSize
    /\ new_state' = ExpandedTable(table)
    /\ i' = 0
    /\ pc' = "rehash" /\ adding' = k
    /\ UNCHANGED <<hash_fn, table, entry, probe_idx, rval, steps>>

(* One iteration of the loop over the old slots: an occupied slot is handed *)
(* to s_emplace_item, which works on the new table.                        *)
Rehash_StuckOnVacant ==
    /\ pc = "rehash"
    /\ i < table.size
    /\ table.slots[i].hash_code # 0
    /\ pc' = "emplace" /\ StartEmplace(table.slots[i], 0)
    /\ i' = i + 1
    /\ UNCHANGED <<hash_fn, table, new_state, adding>>

Rehash ==
    /\ pc = "rehash"
    /\ i < table.size
    /\ IF table.slots[i].hash_code # 0
       THEN pc' = "emplace" /\ StartEmplace(table.slots[i], 0)
       ELSE UNCHANGED <<pc, entry, probe_idx, rval, steps>>
    /\ i' = i + 1
    /\ UNCHANGED <<hash_fn, table, new_state, adding>>

(* The new table takes the place of the old one, and aws_hash_table_create  *)
(* adds its entry to it with a fresh probe.                                *)
ExpandDone_Early ==
    /\ pc = "rehash"
    /\ i = table.size - 1
    /\ table' = [new_state EXCEPT !.entry_count = @ + 1]
    /\ new_state' = NoTable
    /\ StartEmplace([hash_code |-> HashFor(adding), key |-> adding], 0)
    /\ pc' = "emplace"
    /\ UNCHANGED <<hash_fn, i, adding>>

ExpandDone ==
    /\ pc = "rehash"
    /\ i = table.size
    /\ table' = [new_state EXCEPT !.entry_count = @ + 1]
    /\ new_state' = NoTable
    /\ StartEmplace([hash_code |-> HashFor(adding), key |-> adding], 0)
    /\ pc' = "emplace"
    /\ UNCHANGED <<hash_fn, i, adding>>

Expanding == new_state # NoTable
Target == IF Expanding THEN new_state ELSE table

Displaces_OnlyVacant(t, s, p) == t.slots[s].hash_code = 0
Displaces(t, s, p) ==
    LET victim == t.slots[s]
    IN  victim.hash_code = 0 \/ ProbeIdx(t, s, victim) < p

(* The first slot written is the one s_emplace_item will return. *)
FirstSlot_Last(s) == s
FirstSlot(s) == IF rval = -1 THEN s ELSE rval

(* One iteration of s_emplace_item's loop. *)
EmplaceStep ==
    LET s == SlotAt(Target, entry.hash_code, probe_idx)
        victim == Target.slots[s]
        after == [Target EXCEPT !.slots[s] = entry]
    IN  /\ pc = "emplace"
        /\ entry.hash_code # 0
        /\ IF Displaces(Target, s, probe_idx)
           THEN /\ rval' = FirstSlot(s)
                /\ IF Expanding
                   THEN new_state' = after /\ UNCHANGED table
                   ELSE table' = after /\ UNCHANGED new_state
                /\ entry' = victim
                /\ probe_idx' = ProbeIdx(Target, s, victim) + 1
           ELSE /\ probe_idx' = probe_idx + 1
                /\ UNCHANGED <<rval, table, new_state, entry>>
        /\ steps' = steps + 1
        /\ UNCHANGED <<hash_fn, pc, i, adding>>

(* s_emplace_item returns. *)
EmplaceDone ==
    /\ pc = "emplace"
    /\ entry.hash_code = 0
    /\ pc' = IF Expanding THEN "rehash" ELSE "idle"
    /\ adding' = IF Expanding THEN adding ELSE NoKey
    /\ UNCHANGED <<hash_fn, table, new_state, entry, probe_idx, rval, i, steps>>

Next ==
    \/ \E k \in Key : Create(k) \/ CreateExpands(k)
    \/ Rehash
    \/ ExpandDone
    \/ EmplaceStep
    \/ EmplaceDone

Running == Rehash \/ ExpandDone \/ EmplaceStep \/ EmplaceDone

Spec == Init /\ [][Next]_vars

(* The code runs: a call that was made goes on until it returns. *)
FairSpec == Spec /\ WF_vars(Running)

-----------------------------------------------------------------------------

Entries == [hash_code : Nat, key : Key \cup {NoKey}]
Slots(t) == [0 .. t.size - 1 -> Entries]

IsTable(t) ==
    /\ t \in [size : Nat \ {0}, mask : Nat, max_load : Nat, entry_count : Nat,
              slots : Slots(t)]
    /\ t.mask = t.size - 1

TypeOK ==
    /\ hash_fn \in [Key -> Hash]
    /\ IsTable(table)
    /\ new_state # NoTable => IsTable(new_state)
    /\ pc \in {"idle", "emplace", "rehash"}
    /\ entry \in Entries
    /\ probe_idx \in Nat /\ rval \in Nat \cup {-1} /\ i \in 0 .. table.size
    /\ adding \in Key \cup {NoKey}

(* The hash table implements the set of its keys: no step of the insertion, *)
(* of the displacements it causes or of the move to a larger table loses   *)
(* a key or brings one back.  While s_emplace_item holds an entry, the entry counts. *)
keysNow ==
    KeysOf(table) \cup (IF pc = "emplace" /\ ~Expanding THEN Held(entry) ELSE {})

Keys == INSTANCE KeySet WITH keys <- keysNow
ImplementsKeySet == Keys!Spec

(* hash_table_state_is_valid, as far as it is about these fields. *)
StateIsValid(t) ==
    /\ t.size >= 2 /\ RoundUp(t.size) = t.size
    /\ t.entry_count <= t.max_load /\ t.max_load < t.size
    /\ t.mask = t.size - 1

(* s_emplace_item is never called on a table that fails its precondition:   *)
(* not on a table that was just expanded, nor on one that is being filled. *)
EmplaceGetsAValidTable == pc = "emplace" => StateIsValid(Target)

(* The SeaHorn branches cover this code: whatever it does to the size, the  *)
(* counters and the set of the entries, the stubs may do.                  *)
entriesNow == {table.slots[s] : s \in Occupied(table)}
                  \cup (IF pc = "emplace" /\ ~Expanding THEN {entry} \ {Vacant} ELSE {})

Stubs == INSTANCE HashTableStubs WITH
    size <- table.size, max_load <- table.max_load,
    entry_count <- table.entry_count, entries <- entriesNow
ImplementsStubs == Stubs!Spec

(* Every key in an idle table is found from where its hash says, although   *)
(* the search gives up at the first entry that is closer to its own slot   *)
(* than the searched key would be.                                         *)
EveryKeyIsFound ==
    pc = "idle" => \A s \in Occupied(table) :
        Found(table, table.slots[s].hash_code, table.slots[s].key)

(* Once a call has returned, entry_count is the number of occupied slots    *)
(* and "there is always at least one empty slot", as the comment on the cap *)
(* of max_load has it; before it has, the vacant slot that makes           *)
(* s_emplace_item end is there, also in the table an expansion fills.      *)
EntryCountIsExact ==
    /\ pc = "idle" => /\ table.entry_count = Cardinality(Occupied(table))
                      /\ table.entry_count < table.size
    /\ pc # "idle" => Occupied(Target) # DOMAIN Target.slots \/ entry.hash_code = 0

(* What s_emplace_item returns is the slot of the entry it was given, even  *)
(* after the entries it displaced have moved on.                           *)
ReturnsTheNewEntry ==
    pc = "emplace" /\ ~Expanding /\ rval # -1 => table.slots[rval].key = adding

(* The comment on the loop of s_emplace_item: it "will always terminate in  *)
(* at most linear time".                                                   *)
LinearTime == pc = "emplace" => steps <= Target.size

(* A call that adds a key returns. *)
EveryCallReturns == pc # "idle" ~> pc = "idle"
=============================================================================
