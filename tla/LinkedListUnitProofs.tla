------------------------ MODULE LinkedListUnitProofs ------------------------
(***************************************************************************)
(* The linked_list_* unit proofs of seahorn/jobs.  Each is a small program: *)
(* build some nodes nondeterministically, assume the precondition, call the *)
(* operation under verification, assert.                                   *)
(*                                                                         *)
(* A unit proof is worth what its assertions notice.  So the operation is   *)
(* called as it should be, or it is skipped, or it also does something it   *)
(* should not: a write to any field of any node, or another return value.  *)
(* MaxFaults bounds how many such faults one call has.                     *)
(***************************************************************************)
EXTENDS LinkedListHelper

CONSTANTS
    A, B,         \* the lists, records [head, tail, first, second]
    Extra,        \* a node on the stack of the unit proof
    MaxFaults

Nodes(l) == {l.head, l.tail, l.first, l.second}

(* Objects of their own, on the stack or from malloc(). *)
ASSUME NodesAreApart ==
    /\ {A, B} \subseteq [head : Node, tail : Node, first : Node, second : Node]
    /\ \A l \in {A, B} :
           /\ l.head \notin {l.tail, l.first, l.second}
           /\ l.tail \notin {l.first, l.second} /\ l.first # l.second
    /\ Nodes(A) \cap Nodes(B) = {}
    /\ Extra \in Node \ (Nodes(A) \cup Nodes(B))

ASSUME MaxFaultsIsNat == MaxFaults \in Nat

VARIABLES
    proof,        \* the unit proof that runs, "" before one is chosen
    pc,           \* "setup", "call", "check", "passed" or "failed"
    heap,
    loc,          \* the unit proof's local variables
    ret,          \* what the operation returned
    want,         \* what a correct operation leaves: [heap, ret]
    faults        \* how many faults the operation had

vars == <<proof, pc, heap, loc, ret, want, faults>>

NoSnapshot == [saved_size |-> 0, nodes |-> <<>>]
NoLocals == [size |-> 0, saved |-> NoSnapshot, saved_b |-> NoSnapshot, p |-> NULL, q |-> NULL]

Init ==
    /\ proof = "" /\ pc = "setup"
    /\ heap = <<>> /\ loc = NoLocals /\ ret = NULL
    /\ want = [heap |-> <<>>, ret |-> NULL]
    /\ faults = 0

(* A variable the unit proof does not initialise. *)
Garbage == [next : NdPtr, prev : NdPtr]

With(h, n, links) == [x \in DOMAIN h \cup {n} |-> IF x = n THEN links ELSE h[x]]

(* The unit proof p reaches its call with heap h and local variables l. *)
Reach(p, h, l) ==
    /\ proof' = p /\ pc' = "call"
    /\ heap' = h /\ loc' = l
    /\ UNCHANGED <<ret, want, faults>>

FromHead(p, h, size, start) ==
    Reach(p, h, [NoLocals EXCEPT !.size = size, !.saved = SaveToTail(h, A, size, start)])
FromTail(p, h, size, start) ==
    Reach(p, h, [NoLocals EXCEPT !.size = size, !.saved = SaveToHead(h, A, size, start)])

-----------------------------------------------------------------------------
(* Accessors: the list is saved from the sentinel they look at, and nothing *)
(* may change.                                                             *)

BeginSetup ==
    \E size \in Lengths : \E h \in InitFromHead(A, size) :
        FromHead("begin", h, size, A.head)
BeginAsserts ==
    /\ heap[A.head].next = ret
    /\ UnchangedToTail(heap, A, loc.saved)

RendSetup ==
    \E size \in Lengths : \E h \in InitFromHead(A, size) :
        FromHead("rend", h, size, A.head)
RendAsserts ==
    /\ ret = A.head
    /\ NextIsValid(heap, ret)
    /\ UnchangedToTail(heap, A, loc.saved)

FrontSetup ==
    \E size \in Lengths : \E h \in InitFromHead(A, size) :
        ~Empty(h, A) /\ FromHead("front", h, size, A.head)
FrontAsserts ==
    /\ heap[A.head].next = ret
    /\ PrevIsValid(heap, ret)
    /\ NextIsValid(heap, ret)
    /\ UnchangedToTail(heap, A, loc.saved)

EndSetup ==
    \E size \in Lengths : \E h \in InitFromTail(A, size) :
        FromTail("end", h, size, A.tail)
EndAsserts ==
    /\ ret = A.tail
    /\ UnchangedToHead(heap, A, loc.saved)

RbeginSetup ==
    \E size \in Lengths : \E h \in InitFromTail(A, size) :
        FromTail("rbegin", h, size, A.tail)
RbeginAsserts ==
    /\ ret = heap[A.tail].prev
    /\ NextIsValid(heap, ret)
    /\ loc.size > 0 \/ ret = A.head
    /\ ret = A.head \/ PrevIsValid(heap, ret)
    /\ UnchangedToHead(heap, A, loc.saved)

BackSetup ==
    \E size \in Lengths : \E h \in InitFromTail(A, size) :
        ~Empty(h, A) /\ FromTail("back", h, size, A.tail)
BackAsserts ==
    /\ heap[A.tail].prev = ret
    /\ UnchangedToHead(heap, A, loc.saved)

(* Two nodes of which only the links between them are set. *)
Pair(a, b, p, q) ==
    AttachDirectly([n \in {a, b} |-> IF n = a THEN [next |-> NULL, prev |-> p]
                                     ELSE [next |-> q, prev |-> NULL]], a, b)

PairOf(a, b) == {Pair(a, b, p, q) : p \in NdPtr, q \in NdPtr}

NextSetup ==
    \E h \in PairOf(A.first, A.second) : Reach("next", h, NoLocals)
NextAsserts ==
    /\ NextIsValid(heap, A.first)
    /\ PrevIsValid(heap, ret)
    /\ ret = A.second

PrevSetup ==
    \E h \in PairOf(A.first, A.second) : Reach("prev", h, NoLocals)
PrevAsserts ==
    /\ PrevIsValid(heap, A.second)
    /\ NextIsValid(heap, ret)
    /\ ret = A.first

-----------------------------------------------------------------------------
(* Operations that change the list. *)

InitSetup ==
    \E g \in Garbage, k \in Garbage :
        Reach("init", With(With(<<>>, A.head, g), A.tail, k), NoLocals)
InitAsserts == ListIsValid(heap, A)

NodeResetSetup == \E g \in Garbage : Reach("node_reset", With(<<>>, Extra, g), NoLocals)
NodeResetAsserts == heap[Extra] = [next |-> NULL, prev |-> NULL]

PushFrontSetup ==
    \E size \in Lengths, g \in Garbage : \E h \in InitFromHead(A, size) :
        FromHead("push_front", With(h, Extra, g), size, h[A.head].next)
PushFrontAsserts ==
    /\ heap[A.tail].next = NULL
    /\ heap[A.head].prev = NULL
    /\ PrevIsValid(heap, Extra) /\ NextIsValid(heap, Extra)
    /\ IsAttachedAfter(heap, A.head, Extra)
    /\ IsAttachedAfter(heap, Extra, loc.saved.save_point)
    /\ UnchangedToTail(heap, A, loc.saved)

PushBackSetup ==
    \E size \in Lengths, g \in Garbage : \E h \in InitFromTail(A, size) :
        FromTail("push_back", With(h, Extra, g), size, h[A.tail].prev)
PushBackAsserts ==
    /\ heap[A.head].prev = NULL
    /\ heap[A.tail].next = NULL
    /\ PrevIsValid(heap, Extra) /\ NextIsValid(heap, Extra)
    /\ IsAttachedAfter(heap, Extra, A.tail)
    /\ IsAttachedAfter(heap, loc.saved.save_point, Extra)
    /\ UnchangedToHead(heap, A, loc.saved)

PopFrontSetup ==
    \E size \in Lengths : \E h \in InitFromHead(A, size) :
        LET to_pop == h[A.head].next
        IN  ~Empty(h, A) /\ FromHead("pop_front", h, size, h[to_pop].next)
PopFrontAsserts_NoSnapshot ==
    /\ Hop(heap, ret, "next") = NULL /\ Hop(heap, ret, "prev") = NULL
    /\ IsAttachedAfter(heap, A.head, loc.saved.save_point)
    /\ heap[A.head].prev = NULL
    /\ heap[A.tail].next = NULL

PopFrontAsserts ==
    /\ Hop(heap, ret, "next") = NULL /\ Hop(heap, ret, "prev") = NULL
    /\ IsAttachedAfter(heap, A.head, loc.saved.save_point)
    /\ heap[A.head].prev = NULL
    /\ heap[A.tail].next = NULL
    /\ UnchangedToTail(heap, A, loc.saved)

PopBackSetup_SavesPopped ==
    \E size \in Lengths : \E h \in InitFromTail(A, size) :
        LET to_pop == h[A.tail].prev
        IN  ~Empty(h, A) /\ FromTail("pop_back", h, size, to_pop)

PopBackSetup ==
    \E size \in Lengths : \E h \in InitFromTail(A, size) :
        LET to_pop == h[A.tail].prev
        IN  ~Empty(h, A) /\ FromTail("pop_back", h, size, h[to_pop].prev)
PopBackAsserts ==
    /\ Hop(heap, ret, "next") = NULL /\ Hop(heap, ret, "prev") = NULL
    /\ IsAttachedAfter(heap, loc.saved.save_point, A.tail)
    /\ heap[A.head].prev = NULL
    /\ heap[A.tail].next = NULL
    /\ UnchangedToHead(heap, A, loc.saved)

(* insert_after(&after, &to_add): after, after_next and to_add are first,   *)
(* second and Extra.                                                       *)
InsertAfterSetup ==
    \E h \in PairOf(A.first, A.second), g \in Garbage :
        Reach("insert_after", With(h, Extra, g),
              [NoLocals EXCEPT !.p = h[A.first].prev, !.q = h[A.second].next])
InsertAfterAsserts ==
    /\ IsAttachedAfter(heap, A.first, Extra)
    /\ IsAttachedAfter(heap, Extra, A.second)
    /\ heap[A.first].prev = loc.p
    /\ heap[A.second].next = loc.q

(* insert_before(&before, &to_add): before_prev, before and to_add. *)
InsertBeforeSetup ==
    \E h \in PairOf(A.first, A.second), g \in Garbage :
        Reach("insert_before", With(h, Extra, g),
              [NoLocals EXCEPT !.p = h[A.first].prev, !.q = h[A.second].next])
InsertBeforeAsserts ==
    /\ IsAttachedAfter(heap, A.first, Extra)
    /\ IsAttachedAfter(heap, Extra, A.second)
    /\ heap[A.second].next = loc.q
    /\ heap[A.first].prev = loc.p

(* remove(&node): prev, node and next are first, Extra and second. *)
RemoveSetup ==
    \E p \in NdPtr, q \in NdPtr :
        LET h == With(With(Blank({Extra}), A.first, [next |-> NULL, prev |-> p]),
                      A.second, [next |-> q, prev |-> NULL])
        IN  Reach("remove",
                  AttachDirectly(AttachDirectly(h, A.first, Extra), Extra, A.second),
                  [NoLocals EXCEPT !.p = p, !.q = q])
RemoveAsserts ==
    /\ IsAttachedAfter(heap, A.first, A.second)
    /\ heap[A.first].prev = loc.p
    /\ heap[A.second].next = loc.q
    /\ heap[Extra] = [next |-> NULL, prev |-> NULL]

SwapContentsSetup ==
    \E n \in Lengths, m \in Lengths : \E g \in InitBoth(A, n), k \in InitBoth(B, m) :
        Reach("swap_contents",
              [x \in DOMAIN g \cup DOMAIN k |-> IF x \in DOMAIN g THEN g[x] ELSE k[x]],
              [NoLocals EXCEPT
                  !.saved = SaveFull(g, A, n, g[A.head].next, g[A.tail].prev),
                  !.saved_b = SaveFull(k, B, m, k[B.head].next, k[B.tail].prev)])
SwapContentsAsserts ==
    /\ \A l \in {A, B} :
           /\ heap[l.head].prev = NULL /\ heap[l.tail].next = NULL
           /\ NextIsValid(heap, l.head) /\ PrevIsValid(heap, l.tail)
    /\ UnchangedFull(heap, B, loc.saved)
    /\ UnchangedFull(heap, A, loc.saved_b)

-----------------------------------------------------------------------------

Setup ==
    /\ pc = "setup"
    /\ \/ BeginSetup \/ RendSetup \/ FrontSetup \/ EndSetup \/ RbeginSetup
       \/ BackSetup \/ NextSetup \/ PrevSetup \/ InitSetup \/ NodeResetSetup
       \/ PushFrontSetup \/ PushBackSetup \/ PopFrontSetup \/ PopBackSetup
       \/ InsertAfterSetup \/ InsertBeforeSetup \/ RemoveSetup \/ SwapContentsSetup

(* What the library's operation does, called by unit proof p with heap h: *)
(* the heap it leaves and what it returns.                                 *)
Accessors == {"begin", "rend", "front", "end", "rbegin", "back", "next", "prev"}

Result(p, h) ==
    CASE p \in {"begin", "front"} -> h[A.head].next
      [] p \in {"rbegin", "back"} -> h[A.tail].prev
      [] p = "rend"      -> A.head
      [] p = "end"       -> A.tail
      [] p = "next"      -> h[A.first].next
      [] p = "prev"      -> h[A.second].prev
      [] p = "pop_front" -> h[A.head].next
      [] p = "pop_back"  -> h[A.tail].prev
      [] OTHER         -> NULL

Effect(p, h) ==
    CASE p \in Accessors      -> h
      [] p = "init"           -> ListInit(h, A)
      [] p = "node_reset"     -> NodeReset(h, Extra)
      [] p = "push_front"     -> PushFront(h, A, Extra)
      [] p = "push_back"      -> PushBack(h, A, Extra)
      [] p = "pop_front"      -> Remove(h, h[A.head].next)
      [] p = "pop_back"       -> Remove(h, h[A.tail].prev)
      [] p = "insert_after"   -> InsertAfter(h, A.first, Extra)
      [] p = "insert_before"  -> InsertBefore(h, A.second, Extra)
      [] p = "remove"         -> Remove(h, Extra)
      [] p = "swap_contents"  -> SwapContents(h, A, B)

Call ==
    /\ pc = "call"
    /\ pc' = "check"
    /\ heap' = Effect(proof, heap) /\ ret' = Result(proof, heap)
    /\ want' = [heap |-> heap', ret |-> ret']
    /\ UNCHANGED <<proof, loc, faults>>

(* An operation that returns the right value but leaves the heap alone. *)
SkippedCall ==
    /\ pc = "call" /\ faults < MaxFaults
    /\ pc' = "check"
    /\ ret' = Result(proof, heap)
    /\ want' = [heap |-> Effect(proof, heap), ret |-> ret']
    /\ faults' = faults + 1
    /\ UNCHANGED <<proof, heap, loc>>

StrayWrite(n, f, p) ==
    /\ pc = "check" /\ faults < MaxFaults
    /\ heap' = [heap EXCEPT ![n][f] = p]
    /\ faults' = faults + 1
    /\ UNCHANGED <<proof, pc, loc, ret, want>>

WrongReturn(p) ==
    /\ pc = "check" /\ faults < MaxFaults
    /\ proof \in Accessors \cup {"pop_front", "pop_back"}
    /\ ret' = p
    /\ faults' = faults + 1
    /\ UNCHANGED <<proof, pc, heap, loc, want>>

Asserts ==
    CASE proof = "begin"          -> BeginAsserts
      [] proof = "rend"           -> RendAsserts
      [] proof = "front"          -> FrontAsserts
      [] proof = "end"            -> EndAsserts
      [] proof = "rbegin"         -> RbeginAsserts
      [] proof = "back"           -> BackAsserts
      [] proof = "next"           -> NextAsserts
      [] proof = "prev"           -> PrevAsserts
      [] proof = "init"           -> InitAsserts
      [] proof = "node_reset"     -> NodeResetAsserts
      [] proof = "push_front"     -> PushFrontAsserts
      [] proof = "push_back"      -> PushBackAsserts
      [] proof = "pop_front"      -> PopFrontAsserts
      [] proof = "pop_back"       -> PopBackAsserts
      [] proof = "insert_after"   -> InsertAfterAsserts
      [] proof = "insert_before"  -> InsertBeforeAsserts
      [] proof = "remove"         -> RemoveAsserts
      [] proof = "swap_contents"  -> SwapContentsAsserts

Check ==
    /\ pc = "check"
    /\ pc' = IF Asserts THEN "passed" ELSE "failed"
    /\ UNCHANGED <<proof, heap, loc, ret, want, faults>>

Next ==
    \/ Setup
    \/ Call
    \/ SkippedCall
    \/ \E n \in DOMAIN heap, f \in {"next", "prev"}, p \in Ptr : StrayWrite(n, f, p)
    \/ \E p \in Ptr : WrongReturn(p)
    \/ Check

Spec == Init /\ [][Next]_vars

-----------------------------------------------------------------------------

(* No unit proof fails on an operation that did what it should, whatever   *)
(* list it was given and wherever the unknown pointers point.              *)
NoFalseAlarm == pc = "failed" => [heap |-> heap, ret |-> ret] # want

(* The fields no assertion of a unit proof looks at.  The accessors watch   *)
(* only the side of the sentinel that faces the list; next and prev leave   *)
(* the outer links of their two nodes uninitialised; init asserts of the   *)
(* two inner links of the sentinels only that they are not NULL.           *)
Unwatched ==
    CASE proof \in {"begin", "rend", "front"} -> {<<A.head, "prev">>}
      [] proof \in {"end", "rbegin", "back"} -> {<<A.tail, "next">>}
      [] proof \in {"next", "prev"} -> {<<A.first, "prev">>, <<A.second, "next">>}
      [] proof = "init" -> {<<A.head, "next">>, <<A.tail, "prev">>}
      [] OTHER -> {}

SameButUnwatched ==
    \A n \in DOMAIN heap, f \in {"next", "prev"} :
        heap[n][f] = want.heap[n][f] \/ <<n, f>> \in Unwatched

(* A unit proof that passes has seen a correct operation: the returned     *)
(* pointer is the right one and every watched field of every node holds    *)
(* what it should.  (swap_contents is the exception: see SwapIsNoticed.)    *)
PassedMeansCorrect ==
    pc = "passed" /\ proof # "swap_contents" => SameButUnwatched /\ ret = want.ret

(* The swap_contents unit proof passes only if a has b's old content and b  *)
(* has a's, which is what the comment above its last two assertions says.  *)
SwapIsNoticed ==
    pc = "passed" /\ proof = "swap_contents" =>
        \A l \in {A, B} : /\ heap[l.head].next = want.heap[l.head].next
                          /\ heap[l.tail].prev = want.heap[l.tail].prev
=============================================================================
