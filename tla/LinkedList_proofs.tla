------------------------- MODULE LinkedList_proofs -------------------------
(***************************************************************************)
(* Proofs about the linked lists, for every set of nodes, every behaviour   *)
(* of nd_linked_list_node() and every number of writes and of faults.       *)
(*                                                                         *)
(* First the unit proofs.  What one is given is a chain of nodes from the  *)
(* sentinel it looks at (Chain), of which it has taken a snapshot (Walked), *)
(* or a few nodes joined by hand (Joined).  What the snapshot's check tells *)
(* of such a chain (ChainSnapshot), with the other assertions, decides      *)
(* whether the operation did what it should: one lemma ("Decides") for each *)
(* unit proof.  The inductive invariant (ListInv) carries what was given    *)
(* past the faults to the verdict.                                         *)
(*                                                                         *)
(* Then the snapshots themselves, whatever is written after they are taken. *)
(***************************************************************************)
EXTENDS LinkedListUnitProofs, LinkedListSnapshot, TLAPS

Heaps(D) == [D -> Links]
Fields == {"next", "prev"}
Back(f) == IF f = "next" THEN "prev" ELSE "next"

(* The chain of n nodes (3: more than two) that h holds along f between the *)
(* sentinels of A.  Of more than two, the nodes after the second are hidden *)
(* behind links that are anything but NULL.                                *)
Chain(h, f, n, x, y) ==
    LET o == Origin(A, f)
        e == End(A, f)
        b == Back(f)
    IN  /\ h \in Heaps(DOMAIN h)
        /\ x \in {A.first, A.second} /\ y \in {A.first, A.second} /\ x # y
        /\ h[o][b] = NULL /\ h[e][f] = NULL
        /\ n = 0 => /\ DOMAIN h \ {Extra} = {o, e}
                    /\ h[o][f] = e /\ h[e][b] = o
        /\ n = 1 => /\ DOMAIN h \ {Extra} = {o, x, e}
                    /\ h[o][f] = x /\ h[x] = [next |-> IF f = "next" THEN e ELSE o,
                                              prev |-> IF f = "next" THEN o ELSE e]
                    /\ h[e][b] = x
        /\ n > 1 => /\ DOMAIN h \ {Extra} = {o, x, y, e}
                    /\ h[o][f] = x /\ h[x][f] = y
                    /\ h[x][b] = o /\ h[y][b] = x
        /\ n = 2 => h[y][f] = e /\ h[e][b] = y
        /\ n > 2 => h[y][f] # NULL /\ h[e][b] # NULL

(* The nodes of the unit proof are apart. *)
Apart ==
    /\ A.head \in Node /\ A.tail \in Node /\ A.first \in Node /\ A.second \in Node
    /\ B.head \in Node /\ B.tail \in Node /\ B.first \in Node /\ B.second \in Node
    /\ Extra \in Node
    /\ A.head \notin {A.tail, A.first, A.second, Extra}
    /\ A.tail \notin {A.first, A.second, Extra}
    /\ A.first \notin {A.second, Extra} /\ A.second # Extra
    /\ B.head \notin {B.tail, B.first, B.second}
    /\ B.tail \notin {B.first, B.second} /\ B.first # B.second
    /\ Nodes(A) \cap Nodes(B) = {}

LEMMA NodesApart == Apart
<1>1. A \in [head : Node, tail : Node, first : Node, second : Node]
  BY NodesAreApart
<1>2. B \in [head : Node, tail : Node, first : Node, second : Node]
  BY NodesAreApart
<1>3. /\ A.head \notin {A.tail, A.first, A.second}
      /\ A.tail \notin {A.first, A.second} /\ A.first # A.second
  BY NodesAreApart
<1>4. /\ B.head \notin {B.tail, B.first, B.second}
      /\ B.tail \notin {B.first, B.second} /\ B.first # B.second
  BY NodesAreApart
<1>5. Extra \in Node /\ Extra \notin Nodes(A)
  BY NodesAreApart
<1> QED
  BY <1>1, <1>2, <1>3, <1>4, <1>5, NodesAreApart DEF Apart, Nodes

LEMMA AttachType ==
    ASSUME NEW D, NEW h \in Heaps(D), NEW a \in D, NEW c \in D, NEW p \in Ptr, NEW q \in Ptr
    PROVE  AttachIndirectly(h, a, c, p, q) \in Heaps(D)
BY DEF Heaps, Links, AttachIndirectly

LEMMA AttachDirectlyType ==
    ASSUME NEW D, NEW h \in Heaps(D), NEW a \in D \cap Node, NEW c \in D \cap Node
    PROVE  AttachDirectly(h, a, c) \in Heaps(D)
<1>1. a \in Ptr /\ c \in Ptr
  BY DEF Ptr
<1> QED
  BY <1>1, AttachType DEF AttachDirectly

LEMMA BlankType ==
    ASSUME NEW D
    PROVE  Blank(D) \in Heaps(D)
BY DEF Blank, Heaps, Links, Ptr

(* The nodes of one list are four. *)
Separate(l) ==
    /\ l.head \in Node /\ l.tail \in Node /\ l.first \in Node /\ l.second \in Node
    /\ l.head \notin {l.tail, l.first, l.second}
    /\ l.tail \notin {l.first, l.second} /\ l.first # l.second

LEMMA ListsSeparate == Separate(A) /\ Separate(B)
BY NodesApart DEF Apart, Separate

(* What the initialisers for more than two nodes leave. *)
LongShape(l, hidden, h) ==
    /\ h \in Heaps({l.head, l.tail, l.first, l.second})
    /\ h[l.head].prev = NULL /\ h[l.tail].next = NULL
    /\ IF hidden # "first" THEN h[l.head].next = l.first /\ h[l.first].prev = l.head
       ELSE h[l.head].next # NULL /\ h[l.first].prev # NULL
    /\ IF hidden # "middle" THEN h[l.first].next = l.second /\ h[l.second].prev = l.first
       ELSE h[l.first].next # NULL /\ h[l.second].prev # NULL
    /\ IF hidden # "last" THEN h[l.second].next = l.tail /\ h[l.tail].prev = l.second
       ELSE h[l.second].next # NULL /\ h[l.tail].prev # NULL

LEMMA LongIs ==
    ASSUME NEW l, Separate(l), NEW hidden \in {"first", "last", "middle"}, NEW h \in InitLong(l, hidden)
    PROVE  LongShape(l, hidden, h)
<1> DEFINE D == {l.head, l.tail, l.first, l.second}
<1> USE DEF Separate
<1>1. PICK h1 \in AttachAfter(Blank(D), l.head, l.first, hidden # "first") :
         \E h2 \in AttachAfter(h1, l.first, l.second, hidden # "middle") :
             h \in AttachAfter(h2, l.second, l.tail, hidden # "last")
  <2>1. Blank(D) = Blank({l.head, l.tail, l.first, l.second})
    OBVIOUS
  <2> HIDE DEF D
  <2> QED  BY <2>1 DEF InitLong
<1>2. PICK h2 \in AttachAfter(h1, l.first, l.second, hidden # "middle") :
          h \in AttachAfter(h2, l.second, l.tail, hidden # "last")
  BY <1>1
<1>3. D \subseteq Ptr \ {NULL} /\ NdPtr \subseteq Ptr
  BY NdPtrIsPtr, PointersDistinct DEF Ptr
<1>4. Blank(D) \in Heaps(D) /\ \A n \in D : Blank(D)[n] = [next |-> NULL, prev |-> NULL]
  BY BlankType DEF Blank
<1>5. l.head \in D /\ l.tail \in D /\ l.first \in D /\ l.second \in D
  OBVIOUS
<1> HIDE DEF D
<1>6. PICK p1, q1 \in Ptr \ {NULL} :
          /\ hidden # "first" => p1 = l.first /\ q1 = l.head
          /\ h1 = AttachIndirectly(Blank(D), l.head, l.first, p1, q1)
          /\ h1 \in Heaps(D)
  <2>1. \E p, q \in Ptr \ {NULL} :
            /\ hidden # "first" => p = l.first /\ q = l.head
            /\ h1 = AttachIndirectly(Blank(D), l.head, l.first, p, q)
    <3>1. CASE hidden = "first"
      BY <1>1, <1>3, <1>5, <3>1 DEF AttachAfter
    <3>2. CASE hidden # "first"
      <4>1. h1 = AttachIndirectly(Blank(D), l.head, l.first, l.first, l.head)
        BY <1>1, <3>2 DEF AttachAfter, AttachDirectly
      <4> QED  BY <1>3, <1>5, <3>2, <4>1
    <3> QED  BY <3>1, <3>2
  <2>2. \A p, q \in Ptr : AttachIndirectly(Blank(D), l.head, l.first, p, q) \in Heaps(D)
    BY <1>4, <1>5, AttachType
  <2> QED
    BY <2>1, <2>2
<1>7. PICK p2, q2 \in Ptr \ {NULL} :
          /\ hidden # "middle" => p2 = l.second /\ q2 = l.first
          /\ h2 = AttachIndirectly(h1, l.first, l.second, p2, q2)
          /\ h2 \in Heaps(D)
  <2>1. \E p, q \in Ptr \ {NULL} :
            /\ hidden # "middle" => p = l.second /\ q = l.first
            /\ h2 = AttachIndirectly(h1, l.first, l.second, p, q)
    <3>1. CASE hidden = "middle"
      BY <1>2, <1>3, <1>5, <3>1 DEF AttachAfter
    <3>2. CASE hidden # "middle"
      <4>1. h2 = AttachIndirectly(h1, l.first, l.second, l.second, l.first)
        BY <1>2, <3>2 DEF AttachAfter, AttachDirectly
      <4> QED  BY <1>3, <1>5, <3>2, <4>1
    <3> QED  BY <3>1, <3>2
  <2>2. \A p, q \in Ptr : AttachIndirectly(h1, l.first, l.second, p, q) \in Heaps(D)
    BY <1>6, <1>5, AttachType
  <2> QED
    BY <2>1, <2>2
<1>8. PICK p3, q3 \in Ptr \ {NULL} :
          /\ hidden # "last" => p3 = l.tail /\ q3 = l.second
          /\ h = AttachIndirectly(h2, l.second, l.tail, p3, q3)
          /\ h \in Heaps(D)
  <2>1. \E p, q \in Ptr \ {NULL} :
            /\ hidden # "last" => p = l.tail /\ q = l.second
            /\ h = AttachIndirectly(h2, l.second, l.tail, p, q)
    <3>1. CASE hidden = "last"
      BY <1>2, <1>3, <1>5, <3>1 DEF AttachAfter
    <3>2. CASE hidden # "last"
      <4>1. h = AttachIndirectly(h2, l.second, l.tail, l.tail, l.second)
        BY <1>2, <3>2 DEF AttachAfter, AttachDirectly
      <4> QED  BY <1>3, <1>5, <3>2, <4>1
    <3> QED  BY <3>1, <3>2
  <2>2. \A p, q \in Ptr : AttachIndirectly(h2, l.second, l.tail, p, q) \in Heaps(D)
    BY <1>7, <1>5, AttachType
  <2> QED
    BY <2>1, <2>2
<1> DEFINE k0 == Blank(D)
<1>9. /\ k0 \in Heaps(D) /\ \A n \in D : k0[n] = [next |-> NULL, prev |-> NULL]
      /\ h1 = AttachIndirectly(k0, l.head, l.first, p1, q1)
  BY <1>4, <1>6
<1> HIDE DEF k0
<1>10. /\ h1[l.head] = [next |-> p1, prev |-> NULL]
       /\ h1[l.first] = [next |-> NULL, prev |-> q1]
       /\ h1[l.second] = [next |-> NULL, prev |-> NULL]
       /\ h1[l.tail] = [next |-> NULL, prev |-> NULL]
  BY <1>5, <1>9 DEF AttachIndirectly, Heaps, Links
<1>11. /\ h2[l.head] = [next |-> p1, prev |-> NULL]
       /\ h2[l.first] = [next |-> p2, prev |-> q1]
       /\ h2[l.second] = [next |-> NULL, prev |-> q2]
       /\ h2[l.tail] = [next |-> NULL, prev |-> NULL]
  <2> HIDE DEF k0
  <2>1. /\ DOMAIN h1 = D
        /\ l.first # l.second /\ l.first # l.head /\ l.second # l.head
        /\ l.first # l.tail /\ l.second # l.tail
    BY <1>6 DEF Heaps
  <2> QED
    BY <1>5, <1>7, <1>10, <2>1 DEF AttachIndirectly
<1>12. /\ h[l.head] = [next |-> p1, prev |-> NULL]
       /\ h[l.first] = [next |-> p2, prev |-> q1]
       /\ h[l.second] = [next |-> p3, prev |-> q2]
       /\ h[l.tail] = [next |-> NULL, prev |-> q3]
  <2>1. /\ DOMAIN h2 = D
        /\ l.tail # l.second /\ l.tail # l.head /\ l.second # l.head
        /\ l.first # l.tail /\ l.second # l.first
    BY <1>7 DEF Heaps
  <2> QED
    BY <1>5, <1>8, <1>11, <2>1 DEF AttachIndirectly
<1> QED
  BY <1>6, <1>7, <1>8, <1>12 DEF D, LongShape

ShortShape(l, n, h) ==
    /\ h[l.head].prev = NULL /\ h[l.tail].next = NULL
    /\ n = 0 => /\ h \in Heaps({l.head, l.tail})
                /\ h[l.head].next = l.tail /\ h[l.tail].prev = l.head
    /\ n = 1 => /\ h \in Heaps({l.head, l.tail, l.first})
                /\ h[l.head].next = l.first /\ h[l.tail].prev = l.first
                /\ h[l.first] = [next |-> l.tail, prev |-> l.head]
    /\ n = 2 => /\ h \in Heaps({l.head, l.tail, l.first, l.second})
                /\ h[l.head].next = l.first /\ h[l.tail].prev = l.second
                /\ h[l.first] = [next |-> l.second, prev |-> l.head]
                /\ h[l.second] = [next |-> l.tail, prev |-> l.first]

LEMMA ShortIs ==
    ASSUME NEW l, Separate(l), NEW n \in 0 .. 2, NEW h, h = InitShort(l, n)
    PROVE  ShortShape(l, n, h)
<1> USE DEF Separate
<1>0. Node \subseteq Ptr
  BY DEF Ptr
<1>1. CASE n = 0
  <2> DEFINE D == {l.head, l.tail}
  <2>1. h = AttachDirectly(Blank(D), l.head, l.tail)
    BY <1>1 DEF InitShort
  <2>2. h \in Heaps(D)
    <3>1. l.head \in D /\ l.tail \in D
      OBVIOUS
    <3> HIDE DEF D
    <3> QED  BY <2>1, <3>1, BlankType, AttachDirectlyType
  <2>3. h[l.head] = [next |-> l.tail, prev |-> NULL] /\ h[l.tail] = [next |-> NULL, prev |-> l.head]
    BY <2>1 DEF AttachDirectly, AttachIndirectly, Blank
  <2> QED
    BY <1>1, <2>2, <2>3 DEF ShortShape
<1>2. CASE n = 1
  <2> DEFINE D == {l.head, l.tail, l.first}
             h1 == AttachDirectly(Blank(D), l.head, l.first)
  <2>1. h = AttachDirectly(h1, l.first, l.tail)
    BY <1>2 DEF InitShort
  <2>2. h1 \in Heaps(D)
    <3>1. l.head \in D /\ l.first \in D
      OBVIOUS
    <3> HIDE DEF D
    <3> QED  BY <3>1, BlankType, AttachDirectlyType
  <2>3. /\ h1[l.head] = [next |-> l.first, prev |-> NULL]
        /\ h1[l.first] = [next |-> NULL, prev |-> l.head]
        /\ h1[l.tail] = [next |-> NULL, prev |-> NULL]
    BY DEF AttachDirectly, AttachIndirectly, Blank
  <2> HIDE DEF h1
  <2>4. h \in Heaps(D)
    <3>1. l.first \in D /\ l.tail \in D
      OBVIOUS
    <3> HIDE DEF D
    <3> QED  BY <2>1, <2>2, <3>1, AttachDirectlyType
  <2>5. /\ h[l.head] = [next |-> l.first, prev |-> NULL]
        /\ h[l.first] = [next |-> l.tail, prev |-> l.head]
        /\ h[l.tail] = [next |-> NULL, prev |-> l.first]
    BY <2>1, <2>2, <2>3 DEF AttachDirectly, AttachIndirectly, Heaps
  <2> QED
    BY <1>2, <2>4, <2>5 DEF ShortShape
<1>3. CASE n = 2
  <2> DEFINE D == {l.head, l.tail, l.first, l.second}
             h1 == AttachDirectly(Blank(D), l.head, l.first)
             h2 == AttachDirectly(h1, l.first, l.second)
  <2>1. h = AttachDirectly(h2, l.second, l.tail)
    BY <1>3 DEF InitShort
  <2>2. h1 \in Heaps(D)
    <3>1. l.head \in D /\ l.first \in D
      OBVIOUS
    <3> HIDE DEF D
    <3> QED  BY <3>1, BlankType, AttachDirectlyType
  <2>3. /\ h1[l.head] = [next |-> l.first, prev |-> NULL]
        /\ h1[l.first] = [next |-> NULL, prev |-> l.head]
        /\ h1[l.second] = [next |-> NULL, prev |-> NULL]
        /\ h1[l.tail] = [next |-> NULL, prev |-> NULL]
    BY DEF AttachDirectly, AttachIndirectly, Blank
  <2> HIDE DEF h1
  <2>4. h2 \in Heaps(D)
    <3>1. l.first \in D /\ l.second \in D
      OBVIOUS
    <3> HIDE DEF D
    <3> QED  BY <2>2, <3>1, AttachDirectlyType
  <2>5. /\ h2[l.head] = [next |-> l.first, prev |-> NULL]
        /\ h2[l.first] = [next |-> l.second, prev |-> l.head]
        /\ h2[l.second] = [next |-> NULL, prev |-> l.first]
        /\ h2[l.tail] = [next |-> NULL, prev |-> NULL]
    BY <2>2, <2>3 DEF AttachDirectly, AttachIndirectly, Heaps
  <2> HIDE DEF h2
  <2>6. h \in Heaps(D)
    <3>1. l.second \in D /\ l.tail \in D
      OBVIOUS
    <3> HIDE DEF D
    <3> QED  BY <2>1, <2>4, <3>1, AttachDirectlyType
  <2>7. /\ h[l.head] = [next |-> l.first, prev |-> NULL]
        /\ h[l.first] = [next |-> l.second, prev |-> l.head]
        /\ h[l.second] = [next |-> l.tail, prev |-> l.first]
        /\ h[l.tail] = [next |-> NULL, prev |-> l.second]
    BY <2>1, <2>4, <2>5 DEF AttachDirectly, AttachIndirectly, Heaps
  <2> QED
    BY <1>3, <2>6, <2>7 DEF ShortShape
<1> QED
  BY <1>1, <1>2, <1>3

(* Built from the head or from the tail, a list is a chain from there. *)
LEMMA BuiltChain ==
    ASSUME NEW n \in Lengths, NEW f \in Fields, NEW h,
           h \in IF f = "next" THEN InitFromHead(A, n) ELSE InitFromTail(A, n)
    PROVE  Extra \notin DOMAIN h /\ \E x, y : Chain(h, f, n, x, y)
<1> USE NodesApart DEF Apart
<1>1. CASE n \in 0 .. 2
  <2>1. ShortShape(A, n, h)
    BY <1>1, ShortIs, ListsSeparate DEF InitFromHead, InitFromTail
  <2>2. CASE f = "next"
    <3>1. Extra \notin DOMAIN h /\ Chain(h, f, n, A.first, A.second)
      BY <1>1, <2>1, <2>2 DEF ShortShape, Chain, Origin, End, Back, Heaps
    <3> QED  BY <3>1
  <2>3. CASE f = "prev" /\ n = 2
    <3>1. Extra \notin DOMAIN h /\ Chain(h, f, n, A.second, A.first)
      BY <1>1, <2>1, <2>3 DEF ShortShape, Chain, Origin, End, Back, Heaps
    <3> QED  BY <3>1
  <2>4. CASE f = "prev" /\ n # 2
    <3>1. Extra \notin DOMAIN h /\ Chain(h, f, n, A.first, A.second)
      BY <1>1, <2>1, <2>4 DEF ShortShape, Chain, Origin, End, Back, Heaps
    <3> QED  BY <3>1
  <2> QED
    BY <2>2, <2>3, <2>4 DEF Fields
<1>2. CASE n = 3
  <2>1. CASE f = "next"
    <3>0. h \in InitLong(A, "last")
      BY <1>2, <2>1 DEF InitFromHead
    <3>1. LongShape(A, "last", h)
      BY <3>0, LongIs, ListsSeparate
    <3>2. Extra \notin DOMAIN h /\ Chain(h, f, n, A.first, A.second)
      BY <1>2, <2>1, <3>1 DEF LongShape, Chain, Origin, End, Back, Heaps
    <3> QED  BY <3>2
  <2>2. CASE f = "prev"
    <3>0. h \in InitLong(A, "first")
      BY <1>2, <2>2 DEF InitFromTail
    <3>1. LongShape(A, "first", h)
      BY <3>0, LongIs, ListsSeparate
    <3>2. Extra \notin DOMAIN h /\ Chain(h, f, n, A.second, A.first)
      BY <1>2, <2>2, <3>1 DEF LongShape, Chain, Origin, End, Back, Heaps
    <3> QED  BY <3>2
  <2> QED
    BY <2>1, <2>2 DEF Fields
<1> QED
  BY <1>1, <1>2 DEF Lengths

(* Another node beside the list. *)
LEMMA WithExtra ==
    ASSUME NEW h, NEW f \in Fields, NEW n \in Lengths, NEW x, NEW y, Chain(h, f, n, x, y),
           Extra \notin DOMAIN h, NEW g \in Garbage
    PROVE  Extra \in DOMAIN With(h, Extra, g) /\ Chain(With(h, Extra, g), f, n, x, y)
<1> USE NodesApart DEF Apart
<1>1. g \in Links
  BY NdPtrIsPtr DEF Garbage, Links
<1> DEFINE k == With(h, Extra, g)
<1>2. /\ DOMAIN k = DOMAIN h \cup {Extra}
      /\ \A m \in DOMAIN h : k[m] = h[m]
      /\ k[Extra] = g
  BY DEF With
<1>3. k \in Heaps(DOMAIN k)
  BY <1>1, <1>2 DEF Heaps, Chain, With
<1> HIDE DEF k
<1>4. Origin(A, f) \in DOMAIN h /\ End(A, f) \in DOMAIN h
  BY DEF Chain, Lengths
<1>5. (n = 1 => x \in DOMAIN h) /\ (n > 1 => x \in DOMAIN h /\ y \in DOMAIN h)
  BY DEF Chain, Lengths
<1>6. DOMAIN k \ {Extra} = DOMAIN h \ {Extra}
  BY <1>2
<1>7. Chain(k, f, n, x, y)
  <2> HIDE DEF With
  <2>1. k[Origin(A, f)] = h[Origin(A, f)] /\ k[End(A, f)] = h[End(A, f)]
    BY <1>2, <1>4
  <2>2. n = 1 => k[x] = h[x]
    BY <1>2, <1>5
  <2>3. n > 1 => k[x] = h[x] /\ k[y] = h[y]
    BY <1>2, <1>5
  <2> QED
    BY <1>3, <1>6, <2>1, <2>2, <2>3 DEF Chain, Lengths
<1> QED
  BY <1>2, <1>7 DEF k

-----------------------------------------------------------------------------

(* What a one-way snapshot of a heap tells of a later one over the same     *)
(* nodes: as long as the check finds what was saved, it walks over the very *)
(* nodes that were saved.                                                  *)
LEMMA SnapshotTells ==
    ASSUME NEW D, NEW h \in Heaps(D), NEW g \in Heaps(D), NEW f \in Fields,
           NEW n \in Lengths, NEW start, NEW s, s = SaveTowards(h, A, n, start, f),
           NEW k, k = SavedSize(h, A, n, start, f), NEW e, e = End(A, f)
    PROVE  /\ k = 0 => (UnchangedTowards(g, A, s, f) <=> Hop(g, e, f) = Hop(h, e, f))
           /\ k # 0 => (UnchangedTowards(g, A, s, f) <=>
                  /\ Hop(g, start, f) = Hop(h, start, f)
                  /\ \A i \in 2 .. k : At(g, Walk(h, start, f, i)) = At(h, Walk(h, start, f, i))
                  /\ At(g, e) = At(h, e))
<1> DEFINE node(i) == Walk(h, start, f, i)
           sentinel == IF f = "next" THEN s.tail ELSE s.head
<1>1. k \in 0 .. 3
  BY DEF SavedSize, Lengths
<1>2. /\ s.saved_size = k /\ s.save_point = start
      /\ sentinel = SaveNode(h, e)
      /\ \A i \in 1 .. k : s.nodes[i] = SaveNode(h, node(i))
  BY <1>1 DEF SaveTowards, End, Fields
<1>3. \A m : At(g, m) = At(h, m) <=>
                 Hop(g, m, "next") = Hop(h, m, "next") /\ Hop(g, m, "prev") = Hop(h, m, "prev")
  BY DEF Heaps, Links, At, Hop
<1>4. \A m, c : NodesEqual(g, m, SaveNode(h, c)) <=> m = c /\ At(g, c) = At(h, c)
  BY <1>3 DEF NodesEqual, NodesNextEqual, NodesPrevEqual, SaveNode
<1>5. \A m, c : NodesFieldEqual(g, m, SaveNode(h, c), f) <=>
                    m = c /\ Hop(g, c, f) = Hop(h, c, f)
  BY DEF Fields, NodesFieldEqual, NodesNextEqual, NodesPrevEqual, SaveNode
<1>6. CASE k = 0
  BY <1>2, <1>5, <1>6 DEF UnchangedTowards
<1>7. CASE k # 0
  <2>1. k \in 1 .. 3
    BY <1>1, <1>7
  <2>2. At(g, e) = At(h, e) => Hop(g, e, f) = Hop(h, e, f)
    BY <1>3 DEF Fields
  <2>3. UnchangedTowards(g, A, s, f) <=>
            /\ Hop(g, start, f) = Hop(h, start, f)
            /\ \A i \in 2 .. k : /\ Walk(g, start, f, i) = node(i)
                                 /\ At(g, node(i)) = At(h, node(i))
            /\ At(g, e) = At(h, e)
    <3>1. 1 \in 1 .. k /\ (\A i \in 2 .. k : i \in 1 .. k)
      BY <2>1
    <3>2. start = node(1)
      BY DEF Walk
    <3> QED
      BY <1>2, <1>4, <1>5, <1>7, <3>1, <3>2 DEF UnchangedTowards
  <2>4. ASSUME Hop(g, start, f) = Hop(h, start, f),
               \A i \in 2 .. k : At(g, node(i)) = At(h, node(i)),
               NEW i \in 2 .. k
        PROVE  Walk(g, start, f, i) = node(i)
    <3>1. Walk(g, start, f, 2) = node(2)
      BY <2>4 DEF Walk
    <3>2. CASE i = 3
      <4>1. Hop(g, node(2), f) = Hop(h, node(2), f)
        BY <2>1, <2>4, <3>2 DEF Hop
      <4> QED
        BY <3>1, <3>2, <4>1 DEF Walk
    <3> QED
      BY <2>1, <3>1, <3>2
  <2> QED
    BY <1>7, <2>2, <2>3, <2>4
<1> QED
  BY <1>6, <1>7

(* The same for a chain, by where the snapshot starts. *)
LEMMA ChainSnapshot ==
    ASSUME NEW h, NEW f \in Fields, NEW n \in Lengths, NEW x, NEW y, Chain(h, f, n, x, y),
           NEW g \in Heaps(DOMAIN h), NEW start,
           NEW o, o = Origin(A, f), NEW e, e = End(A, f), NEW same,
           same = UnchangedTowards(g, A, SaveTowards(h, A, n, start, f), f)
    PROVE  /\ start = o => (same <=> /\ g[o][f] = h[o][f] /\ g[e] = h[e]
                                     /\ n > 0 => g[x] = h[x]
                                     /\ n > 1 => g[y] = h[y])
           /\ start = h[o][f] => (same <=> IF n = 0 THEN g[e][f] = h[e][f]
                                           ELSE /\ g[x][f] = h[x][f] /\ g[e] = h[e]
                                                /\ n > 1 => g[y] = h[y])
           /\ start = h[x][f] /\ n > 0 => (same <=> IF n = 1 THEN g[e][f] = h[e][f]
                                                    ELSE g[y][f] = h[y][f] /\ g[e] = h[e])
<1> USE NodesApart DEF Apart
<1> DEFINE k == SavedSize(h, A, n, start, f)
<1>1. /\ o \in DOMAIN h /\ e \in DOMAIN h /\ o # e /\ x # o /\ x # e /\ y # o /\ y # e /\ x # y
      /\ n > 0 => x \in DOMAIN h
      /\ n > 1 => y \in DOMAIN h
      /\ h \in Heaps(DOMAIN h)
  BY DEF Chain, Lengths, Origin, End, Fields
<1>2. DOMAIN g = DOMAIN h
  BY DEF Heaps
<1>3. \A m \in DOMAIN h : At(g, m) = g[m] /\ At(h, m) = h[m]
  BY <1>2 DEF At
<1>4. \A m \in DOMAIN h : Hop(g, m, f) = g[m][f] /\ Hop(h, m, f) = h[m][f]
  BY <1>3 DEF Hop
<1>5. /\ k = 0 => (same <=> g[e][f] = h[e][f])
      /\ k # 0 => (same <=>
             /\ Hop(g, start, f) = Hop(h, start, f)
             /\ \A i \in 2 .. k : At(g, Walk(h, start, f, i)) = At(h, Walk(h, start, f, i))
             /\ g[e] = h[e])
  BY <1>1, <1>3, <1>4, SnapshotTells
<1>6. /\ n = 0 => h[o][f] = e
      /\ n > 0 => h[o][f] = x
      /\ n = 1 => h[x][f] = e
      /\ n > 1 => h[x][f] = y
  <2>1. CASE f = "next"
    BY <2>1, <1>1 DEF Chain, Origin, End, Lengths
  <2>2. CASE f = "prev"
    BY <2>2, <1>1 DEF Chain, Origin, End, Lengths
  <2> QED  BY <2>1, <2>2 DEF Fields
<1>7. n \in {0, 1, 2, 3}
  BY DEF Lengths
<1>8. ASSUME start = o
      PROVE  same <=> /\ g[o][f] = h[o][f] /\ g[e] = h[e]
                      /\ n > 0 => g[x] = h[x]
                      /\ n > 1 => g[y] = h[y]
  <2>1. k = IF n > 1 THEN 3 ELSE n + 1
    BY <1>8 DEF SavedSize
  <2>2. n > 0 => Walk(h, start, f, 2) = x
    BY <1>1, <1>4, <1>6, <1>8 DEF Walk
  <2>3. n > 1 => Walk(h, start, f, 3) = y
    BY <1>1, <1>4, <1>6, <1>7, <1>8 DEF Walk
  <2>4. k # 0 /\ (\A i \in 2 .. k : i = 2 \/ i = 3) /\ (n > 0 => 2 \in 2 .. k) /\ (n > 1 => 3 \in 2 .. k)
        /\ (n = 0 => 2 .. k = {}) /\ (n = 1 => \A i \in 2 .. k : i = 2)
    BY <1>7, <2>1
  <2> HIDE DEF k
  <2>5. (\A i \in 2 .. k : At(g, Walk(h, start, f, i)) = At(h, Walk(h, start, f, i)))
        <=> (n > 0 => g[x] = h[x]) /\ (n > 1 => g[y] = h[y])
    BY <1>1, <1>3, <1>7, <2>2, <2>3, <2>4
  <2> QED
    BY <1>1, <1>4, <1>5, <1>8, <2>4, <2>5
<1>9. ASSUME start = h[o][f]
      PROVE  same <=> IF n = 0 THEN g[e][f] = h[e][f]
                      ELSE /\ g[x][f] = h[x][f] /\ g[e] = h[e]
                           /\ n > 1 => g[y] = h[y]
  <2>1. k = IF n = 0 THEN 0 ELSE IF n = 1 THEN 1 ELSE 2
    BY <1>1, <1>4, <1>6, <1>7, <1>9 DEF SavedSize
  <2>2. n > 1 => Walk(h, start, f, 2) = y
    BY <1>1, <1>4, <1>6, <1>7, <1>9 DEF Walk
  <2>4. (n = 0 => k = 0) /\ (n > 0 => k # 0) /\ (\A i \in 2 .. k : i = 2)
        /\ (n > 1 => 2 \in 2 .. k) /\ (n = 1 => 2 .. k = {})
    BY <1>7, <2>1
  <2> HIDE DEF k
  <2>5. (\A i \in 2 .. k : At(g, Walk(h, start, f, i)) = At(h, Walk(h, start, f, i)))
        <=> (n > 1 => g[y] = h[y]) \/ n = 0
    BY <1>1, <1>3, <1>7, <2>1, <2>2, <2>4
  <2> QED
    BY <1>1, <1>4, <1>5, <1>6, <1>7, <1>9, <2>4, <2>5
<1>10. ASSUME start = h[x][f], n > 0
       PROVE  same <=> IF n = 1 THEN g[e][f] = h[e][f]
                       ELSE g[y][f] = h[y][f] /\ g[e] = h[e]
  <2>1. Hop(h, Hop(h, o, f), f) = h[x][f]
    BY <1>1, <1>4, <1>6, <1>10
  <2>2. k = IF n = 1 THEN 0 ELSE 1
    BY <1>1, <1>4, <1>6, <1>7, <1>10, <2>1 DEF SavedSize, Walk
  <2>3. (n = 1 => k = 0) /\ (n # 1 => k # 0) /\ 2 .. k = {}
    BY <1>7, <2>2
  <2> HIDE DEF k
  <2> QED
    BY <1>1, <1>4, <1>5, <1>6, <1>7, <1>10, <2>3
<1> QED
  BY <1>8, <1>9, <1>10

-----------------------------------------------------------------------------
(* What each unit proof calls its operation with. *)

Walked(h, l, f, start) ==
    /\ l.size \in Lengths
    /\ l.saved = SaveTowards(h, A, l.size, start, f)
    /\ \E x, y : Chain(h, f, l.size, x, y)

Joined(h) ==
    /\ DOMAIN h \ {Extra} = {A.first, A.second}
    /\ h[A.first].next = A.second /\ h[A.second].prev = A.first

Swapped(h, l) ==
    \E n \in Lengths, m \in Lengths : \E g \in InitBoth(A, n), k \in InitBoth(B, m) :
        /\ h = [x \in DOMAIN g \cup DOMAIN k |-> IF x \in DOMAIN g THEN g[x] ELSE k[x]]
        /\ l.saved = SaveFull(g, A, n, g[A.head].next, g[A.tail].prev)
        /\ l.saved_b = SaveFull(k, B, m, k[B.head].next, k[B.tail].prev)

Given(p, h, l) ==
    /\ h \in Heaps(DOMAIN h) /\ DOMAIN h \subseteq Node
    /\ \/ p \in {"begin", "rend"} /\ Extra \notin DOMAIN h /\ Walked(h, l, "next", A.head)
       \/ p = "front" /\ Extra \notin DOMAIN h /\ Walked(h, l, "next", A.head) /\ l.size > 0
       \/ p \in {"end", "rbegin"} /\ Extra \notin DOMAIN h /\ Walked(h, l, "prev", A.tail)
       \/ p = "back" /\ Extra \notin DOMAIN h /\ Walked(h, l, "prev", A.tail) /\ l.size > 0
       \/ p \in {"next", "prev"} /\ Extra \notin DOMAIN h /\ Joined(h)
       \/ p = "init" /\ DOMAIN h = {A.head, A.tail}
       \/ p = "node_reset" /\ DOMAIN h = {Extra}
       \/ p = "push_front" /\ Extra \in DOMAIN h /\ Walked(h, l, "next", h[A.head].next)
       \/ p = "push_back" /\ Extra \in DOMAIN h /\ Walked(h, l, "prev", h[A.tail].prev)
       \/ /\ p = "pop_front" /\ Extra \notin DOMAIN h /\ l.size > 0
          /\ Walked(h, l, "next", h[h[A.head].next].next)
       \/ /\ p = "pop_back" /\ Extra \notin DOMAIN h /\ l.size > 0
          /\ Walked(h, l, "prev", h[h[A.tail].prev].prev)
       \/ /\ p \in {"insert_after", "insert_before"} /\ Extra \in DOMAIN h /\ Joined(h)
          /\ l.p = h[A.first].prev /\ l.q = h[A.second].next
       \/ /\ p = "remove" /\ DOMAIN h = {A.first, Extra, A.second}
          /\ h[A.first] = [next |-> Extra, prev |-> l.p]
          /\ h[Extra] = [next |-> A.second, prev |-> A.first]
          /\ h[A.second] = [next |-> l.q, prev |-> Extra]
       \/ p = "swap_contents" /\ Swapped(h, l)

Returning == Accessors \cup {"pop_front", "pop_back"}

(* The operation was called with heap h; heap and ret are what it and the   *)
(* faults have left.                                                       *)
Called(h) ==
    /\ Given(proof, h, loc)
    /\ heap \in Heaps(DOMAIN h)
    /\ want = [heap |-> Effect(proof, h), ret |-> Result(proof, h)]
    /\ proof \notin Returning => ret = want.ret
    /\ faults \in Nat
    /\ faults = 0 => heap = want.heap /\ ret = want.ret
    /\ proof \in {"next", "prev"} /\ faults <= 1 =>
           heap[A.first].next = A.second \/ heap[A.second].prev = A.first

(* The next and prev unit proofs look at either link of their nodes through *)
(* the other one, and both may be wrong in a way that agrees.              *)
Noticed == proof \in {"next", "prev"} => faults <= 1

AsWanted == heap = want.heap /\ ret = want.ret
Correct == SameButUnwatched /\ ret = want.ret

-----------------------------------------------------------------------------
(* The accessors. *)

LEMMA ForwardAccessors ==
    ASSUME NEW h, Called(h), proof \in {"begin", "rend", "front"}
    PROVE  /\ UnchangedToTail(heap, A, loc.saved) <=> SameButUnwatched
           /\ want.heap = h /\ want.ret = Result(proof, h)
           /\ A.head \in DOMAIN heap /\ DOMAIN heap = DOMAIN h
           /\ NextIsValid(h, A.head)
           /\ loc.size > 0 => PrevIsValid(h, h[A.head].next) /\ NextIsValid(h, h[A.head].next)
<1> USE NodesApart DEF Apart
<1>1. Extra \notin DOMAIN h /\ Walked(h, loc, "next", A.head)
  BY DEF Called, Given
<1> DEFINE n == loc.size
<1>2. PICK x, y : Chain(h, "next", n, x, y)
  BY <1>1 DEF Walked
<1>3. n \in Lengths /\ n \in {0, 1, 2, 3} /\ loc.saved = SaveTowards(h, A, n, A.head, "next")
  BY <1>1 DEF Walked, Lengths
<1>4. heap \in Heaps(DOMAIN h) /\ want.heap = h /\ want.ret = Result(proof, h)
  BY DEF Called, Effect, Accessors
<1> HIDE DEF n
<1>5. UnchangedToTail(heap, A, loc.saved) <=>
          /\ heap[A.head].next = h[A.head].next /\ heap[A.tail] = h[A.tail]
          /\ n > 0 => heap[x] = h[x]
          /\ n > 1 => heap[y] = h[y]
  <2>1. "next" \in Fields /\ A.head = Origin(A, "next") /\ A.tail = End(A, "next")
    BY DEF Fields, Origin, End
  <2> QED
    BY <1>2, <1>3, <1>4, <2>1, ChainSnapshot DEF UnchangedToTail
<1>6. DOMAIN heap = DOMAIN h /\ A.head \in DOMAIN h /\ A.tail \in DOMAIN h
  BY <1>2, <1>3, <1>4 DEF Heaps, Chain, Origin, End
<1>7. /\ n = 0 => DOMAIN h = {A.head, A.tail}
      /\ n = 1 => DOMAIN h = {A.head, x, A.tail}
      /\ n > 1 => DOMAIN h = {A.head, x, y, A.tail}
      /\ n > 0 => x \in DOMAIN h
      /\ n > 1 => y \in DOMAIN h
      /\ h \in Heaps(DOMAIN h)
  <2>1. Origin(A, "next") = A.head /\ End(A, "next") = A.tail /\ DOMAIN h \ {Extra} = DOMAIN h
    BY <1>1 DEF Origin, End
  <2>2. /\ n = 0 => DOMAIN h = {A.head, A.tail}
        /\ n = 1 => DOMAIN h = {A.head, x, A.tail}
        /\ n > 1 => DOMAIN h = {A.head, x, y, A.tail}
        /\ h \in Heaps(DOMAIN h)
    BY <1>2, <2>1, Zenon DEF Chain
  <2> QED
    BY <1>3, <2>2
<1>8. SameButUnwatched <=>
          /\ heap[A.head].next = h[A.head].next /\ heap[A.tail] = h[A.tail]
          /\ n > 0 => heap[x] = h[x]
          /\ n > 1 => heap[y] = h[y]
  <2>1. \A m \in DOMAIN heap : heap[m] \in Links /\ h[m] \in Links
    BY <1>4, <1>6, <1>7 DEF Heaps
  <2>2. \A m \in DOMAIN heap : heap[m] = h[m] <=> heap[m].next = h[m].next /\ heap[m].prev = h[m].prev
    BY <2>1 DEF Links
  <2>3. Unwatched = {<<A.head, "prev">>}
    BY DEF Unwatched
  <2>4. SameButUnwatched <=> \A m \in DOMAIN heap : IF m = A.head THEN heap[m].next = h[m].next
                                                  ELSE heap[m] = h[m]
    BY <1>4, <2>2, <2>3 DEF SameButUnwatched
  <2> QED
    BY <1>2, <1>3, <1>6, <1>7, <2>4 DEF Chain, Origin, End
<1>9. NextIsValid(h, A.head)
  BY <1>2, <1>3, <1>6, <1>7 DEF NextIsValid, Chain, Hop, At, Origin, End, Back
<1>10. n = 1 => PrevIsValid(h, h[A.head].next) /\ NextIsValid(h, h[A.head].next)
  BY <1>2, <1>6, <1>7 DEF NextIsValid, PrevIsValid, Chain, Hop, At, Origin, End, Back
<1>11. n > 1 => PrevIsValid(h, h[A.head].next) /\ NextIsValid(h, h[A.head].next)
  BY <1>2, <1>6, <1>7 DEF NextIsValid, PrevIsValid, Chain, Hop, At, Origin, End, Back
<1> QED
  BY <1>3, <1>4, <1>5, <1>6, <1>8, <1>9, <1>10, <1>11 DEF n

LEMMA BackwardAccessors ==
    ASSUME NEW h, Called(h), proof \in {"end", "rbegin", "back"}
    PROVE  /\ UnchangedToHead(heap, A, loc.saved) <=> SameButUnwatched
           /\ want.heap = h /\ want.ret = Result(proof, h)
           /\ A.tail \in DOMAIN heap /\ DOMAIN heap = DOMAIN h
           /\ NextIsValid(h, h[A.tail].prev)
           /\ loc.size = 0 => h[A.tail].prev = A.head
           /\ loc.size > 0 => PrevIsValid(h, h[A.tail].prev)
           /\ loc.size \in Lengths
<1> USE NodesApart DEF Apart
<1>1. Extra \notin DOMAIN h /\ Walked(h, loc, "prev", A.tail)
  BY DEF Called, Given
<1> DEFINE n == loc.size
<1>2. PICK x, y : Chain(h, "prev", n, x, y)
  BY <1>1 DEF Walked
<1>3. n \in Lengths /\ n \in {0, 1, 2, 3} /\ loc.saved = SaveTowards(h, A, n, A.tail, "prev")
  BY <1>1 DEF Walked, Lengths
<1>4. heap \in Heaps(DOMAIN h) /\ want.heap = h /\ want.ret = Result(proof, h)
  BY DEF Called, Effect, Accessors
<1> HIDE DEF n
<1>5. UnchangedToHead(heap, A, loc.saved) <=>
          /\ heap[A.tail].prev = h[A.tail].prev /\ heap[A.head] = h[A.head]
          /\ n > 0 => heap[x] = h[x]
          /\ n > 1 => heap[y] = h[y]
  <2>1. "prev" \in Fields /\ A.tail = Origin(A, "prev") /\ A.head = End(A, "prev")
    BY DEF Fields, Origin, End
  <2> QED
    BY <1>2, <1>3, <1>4, <2>1, ChainSnapshot DEF UnchangedToHead
<1>6. DOMAIN heap = DOMAIN h /\ A.head \in DOMAIN h /\ A.tail \in DOMAIN h
  BY <1>2, <1>3, <1>4 DEF Heaps, Chain, Origin, End
<1>7. /\ n = 0 => DOMAIN h = {A.tail, A.head}
      /\ n = 1 => DOMAIN h = {A.tail, x, A.head}
      /\ n > 1 => DOMAIN h = {A.tail, x, y, A.head}
      /\ n > 0 => x \in DOMAIN h
      /\ n > 1 => y \in DOMAIN h
      /\ h \in Heaps(DOMAIN h)
  <2>1. Origin(A, "prev") = A.tail /\ End(A, "prev") = A.head /\ DOMAIN h \ {Extra} = DOMAIN h
    BY <1>1 DEF Origin, End
  <2>2. /\ n = 0 => DOMAIN h = {A.tail, A.head}
        /\ n = 1 => DOMAIN h = {A.tail, x, A.head}
        /\ n > 1 => DOMAIN h = {A.tail, x, y, A.head}
        /\ h \in Heaps(DOMAIN h)
    BY <1>2, <2>1, Zenon DEF Chain
  <2> QED
    BY <1>3, <2>2
<1>8. SameButUnwatched <=>
          /\ heap[A.tail].prev = h[A.tail].prev /\ heap[A.head] = h[A.head]
          /\ n > 0 => heap[x] = h[x]
          /\ n > 1 => heap[y] = h[y]
  <2>1. \A m \in DOMAIN heap : heap[m] \in Links /\ h[m] \in Links
    BY <1>4, <1>6, <1>7 DEF Heaps
  <2>2. \A m \in DOMAIN heap : heap[m] = h[m] <=> heap[m].next = h[m].next /\ heap[m].prev = h[m].prev
    BY <2>1 DEF Links
  <2>3. Unwatched = {<<A.tail, "next">>}
    BY DEF Unwatched
  <2>4. SameButUnwatched <=> \A m \in DOMAIN heap : IF m = A.tail THEN heap[m].prev = h[m].prev
                                                  ELSE heap[m] = h[m]
    BY <1>4, <2>2, <2>3 DEF SameButUnwatched
  <2> QED
    BY <1>2, <1>3, <1>6, <1>7, <2>4 DEF Chain, Origin, End
<1>9. CASE n = 0
  BY <1>2, <1>3, <1>4, <1>5, <1>6, <1>7, <1>8, <1>9 DEF n, NextIsValid, PrevIsValid, Chain, Hop, At, Origin, End, Back
<1>10. CASE n = 1
  BY <1>2, <1>3, <1>4, <1>5, <1>6, <1>7, <1>8, <1>10 DEF n, NextIsValid, PrevIsValid, Chain, Hop, At, Origin, End, Back
<1>11. CASE n > 1
  BY <1>2, <1>3, <1>4, <1>5, <1>6, <1>7, <1>8, <1>11 DEF n, NextIsValid, PrevIsValid, Chain, Hop, At, Origin, End, Back
<1> QED
  BY <1>3, <1>9, <1>10, <1>11

(* Each decides, and accepts what is correct. *)
LEMMA BeginDecides ==
    ASSUME NEW h, Called(h), proof = "begin"
    PROVE  (BeginAsserts => Correct) /\ (AsWanted => BeginAsserts)
<1>1. Result(proof, h) = h[A.head].next
  BY DEF Result
<1>2. SameButUnwatched => heap[A.head].next = h[A.head].next
  BY ForwardAccessors DEF SameButUnwatched, Unwatched
<1>3. AsWanted => SameButUnwatched
  BY DEF AsWanted, SameButUnwatched
<1> QED
  BY <1>1, <1>2, <1>3, ForwardAccessors DEF BeginAsserts, Correct, AsWanted

LEMMA RendDecides ==
    ASSUME NEW h, Called(h), proof = "rend"
    PROVE  (RendAsserts => Correct) /\ (AsWanted => RendAsserts)
<1>1. Result(proof, h) = A.head
  BY DEF Result
<1>2. AsWanted => SameButUnwatched
  BY DEF AsWanted, SameButUnwatched
<1> QED
  BY <1>1, <1>2, ForwardAccessors DEF RendAsserts, Correct, AsWanted

LEMMA FrontDecides ==
    ASSUME NEW h, Called(h), proof = "front"
    PROVE  (FrontAsserts => Correct) /\ (AsWanted => FrontAsserts)
<1>1. Result(proof, h) = h[A.head].next
  BY DEF Result
<1>2. SameButUnwatched => heap[A.head].next = h[A.head].next
  BY ForwardAccessors DEF SameButUnwatched, Unwatched
<1>3. AsWanted => SameButUnwatched
  BY DEF AsWanted, SameButUnwatched
<1>4. loc.size > 0
  BY DEF Called, Given
<1> QED
  BY <1>1, <1>2, <1>3, <1>4, ForwardAccessors DEF FrontAsserts, Correct, AsWanted

LEMMA EndDecides ==
    ASSUME NEW h, Called(h), proof = "end"
    PROVE  (EndAsserts => Correct) /\ (AsWanted => EndAsserts)
<1>1. Result(proof, h) = A.tail
  BY DEF Result
<1>2. AsWanted => SameButUnwatched
  BY DEF AsWanted, SameButUnwatched
<1> QED
  BY <1>1, <1>2, BackwardAccessors DEF EndAsserts, Correct, AsWanted

LEMMA RbeginDecides ==
    ASSUME NEW h, Called(h), proof = "rbegin"
    PROVE  (RbeginAsserts => Correct) /\ (AsWanted => RbeginAsserts)
<1>1. Result(proof, h) = h[A.tail].prev
  BY DEF Result
<1>2. SameButUnwatched => heap[A.tail].prev = h[A.tail].prev
  BY BackwardAccessors DEF SameButUnwatched, Unwatched
<1>3. AsWanted => SameButUnwatched
  BY DEF AsWanted, SameButUnwatched
<1>4. loc.size > 0 \/ loc.size = 0
  BY BackwardAccessors DEF Lengths
<1> QED
  BY <1>1, <1>2, <1>3, <1>4, BackwardAccessors DEF RbeginAsserts, Correct, AsWanted

LEMMA BackDecides ==
    ASSUME NEW h, Called(h), proof = "back"
    PROVE  (BackAsserts => Correct) /\ (AsWanted => BackAsserts)
<1>1. Result(proof, h) = h[A.tail].prev
  BY DEF Result
<1>2. SameButUnwatched => heap[A.tail].prev = h[A.tail].prev
  BY BackwardAccessors DEF SameButUnwatched, Unwatched
<1>3. AsWanted => SameButUnwatched
  BY DEF AsWanted, SameButUnwatched
<1> QED
  BY <1>1, <1>2, <1>3, BackwardAccessors DEF BackAsserts, Correct, AsWanted

LEMMA NextDecides ==
    ASSUME NEW h, Called(h), proof = "next"
    PROVE  (NextAsserts /\ Noticed => Correct) /\ (AsWanted => NextAsserts)
<1> USE NodesApart DEF Apart
<1>1. /\ Extra \notin DOMAIN h /\ Joined(h)
      /\ heap \in Heaps(DOMAIN h) /\ h \in Heaps(DOMAIN h)
      /\ want.heap = h /\ want.ret = h[A.first].next
  BY DEF Called, Given, Effect, Accessors, Result
<1>2. DOMAIN heap = DOMAIN h /\ DOMAIN h = {A.first, A.second}
  BY <1>1 DEF Joined, Heaps
<1>3. Unwatched = {<<A.first, "prev">>, <<A.second, "next">>}
  BY DEF Unwatched
<1>4. SameButUnwatched <=> heap[A.first].next = A.second /\ heap[A.second].prev = A.first
  BY <1>1, <1>2, <1>3 DEF SameButUnwatched, Joined
<1>5. NextAsserts /\ Noticed => ret = A.second /\ heap[A.second].prev = A.first /\ heap[A.first].next = A.second
  <2>1. Noticed => heap[A.first].next = A.second \/ heap[A.second].prev = A.first
    BY DEF Noticed, Called
  <2> QED
    BY <1>1, <1>2, <2>1 DEF NextAsserts, PrevIsValid, NextIsValid, Hop, At
<1>6. AsWanted => NextAsserts
  BY <1>1, <1>2 DEF AsWanted, NextAsserts, PrevIsValid, NextIsValid, Hop, At, Joined
<1> QED
  BY <1>1, <1>4, <1>5, <1>6 DEF Correct, Joined

LEMMA PrevDecides ==
    ASSUME NEW h, Called(h), proof = "prev"
    PROVE  (PrevAsserts /\ Noticed => Correct) /\ (AsWanted => PrevAsserts)
<1> USE NodesApart DEF Apart
<1>1. /\ Extra \notin DOMAIN h /\ Joined(h)
      /\ heap \in Heaps(DOMAIN h) /\ h \in Heaps(DOMAIN h)
      /\ want.heap = h /\ want.ret = h[A.second].prev
  BY DEF Called, Given, Effect, Accessors, Result
<1>2. DOMAIN heap = DOMAIN h /\ DOMAIN h = {A.first, A.second}
  BY <1>1 DEF Joined, Heaps
<1>3. Unwatched = {<<A.first, "prev">>, <<A.second, "next">>}
  BY DEF Unwatched
<1>4. SameButUnwatched <=> heap[A.first].next = A.second /\ heap[A.second].prev = A.first
  BY <1>1, <1>2, <1>3 DEF SameButUnwatched, Joined
<1>5. PrevAsserts /\ Noticed => ret = A.first /\ heap[A.second].prev = A.first /\ heap[A.first].next = A.second
  <2>1. Noticed => heap[A.first].next = A.second \/ heap[A.second].prev = A.first
    BY DEF Noticed, Called
  <2> QED
    BY <1>1, <1>2, <2>1 DEF PrevAsserts, PrevIsValid, NextIsValid, Hop, At
<1>6. AsWanted => PrevAsserts
  BY <1>1, <1>2 DEF AsWanted, PrevAsserts, PrevIsValid, NextIsValid, Hop, At, Joined
<1> QED
  BY <1>1, <1>4, <1>5, <1>6 DEF Correct, Joined

-----------------------------------------------------------------------------
(* The operations that change the list: what the three they are made of     *)
(* leave, link by link, then each unit proof.                              *)

LEMMA InsertedBefore ==
    ASSUME NEW D, NEW h \in Heaps(D), NEW m, NEW pv, NEW nx,
           m \in D, pv \in D, nx \in D, m \in Node, pv \in Node, nx \in Node,
           m # pv, m # nx, pv # nx, h[nx].prev = pv
    PROVE  /\ InsertBefore(h, nx, m) \in Heaps(D)
           /\ InsertBefore(h, nx, m)[m] = [next |-> nx, prev |-> pv]
           /\ InsertBefore(h, nx, m)[pv] = [next |-> m, prev |-> h[pv].prev]
           /\ InsertBefore(h, nx, m)[nx] = [next |-> h[nx].next, prev |-> m]
           /\ \A c \in D \ {m, pv, nx} : InsertBefore(h, nx, m)[c] = h[c]
<1>1. m \in Ptr /\ pv \in Ptr /\ nx \in Ptr
  BY DEF Ptr
<1>2. \A c \in D : h[c] \in Links /\ h[c] = [next |-> h[c].next, prev |-> h[c].prev]
  BY DEF Heaps, Links
<1> QED
  BY <1>1, <1>2 DEF InsertBefore, Heaps, Links

LEMMA InsertedAfter ==
    ASSUME NEW D, NEW h \in Heaps(D), NEW m, NEW pv, NEW nx,
           m \in D, pv \in D, nx \in D, m \in Node, pv \in Node, nx \in Node,
           m # pv, m # nx, pv # nx, h[pv].next = nx
    PROVE  /\ InsertAfter(h, pv, m) \in Heaps(D)
           /\ InsertAfter(h, pv, m)[m] = [next |-> nx, prev |-> pv]
           /\ InsertAfter(h, pv, m)[pv] = [next |-> m, prev |-> h[pv].prev]
           /\ InsertAfter(h, pv, m)[nx] = [next |-> h[nx].next, prev |-> m]
           /\ \A c \in D \ {m, pv, nx} : InsertAfter(h, pv, m)[c] = h[c]
<1>1. m \in Ptr /\ pv \in Ptr /\ nx \in Ptr
  BY DEF Ptr
<1>2. \A c \in D : h[c] \in Links /\ h[c] = [next |-> h[c].next, prev |-> h[c].prev]
  BY DEF Heaps, Links
<1> QED
  BY <1>1, <1>2 DEF InsertAfter, Heaps, Links

LEMMA Removed ==
    ASSUME NEW D, NEW h \in Heaps(D), NEW m, NEW pv, NEW nx,
           m \in D, pv \in D, nx \in D, m \in Node, pv \in Node, nx \in Node,
           m # pv, m # nx, pv # nx, h[m].prev = pv, h[m].next = nx
    PROVE  /\ Remove(h, m) \in Heaps(D)
           /\ Remove(h, m)[m] = [next |-> NULL, prev |-> NULL]
           /\ Remove(h, m)[pv] = [next |-> nx, prev |-> h[pv].prev]
           /\ Remove(h, m)[nx] = [next |-> h[nx].next, prev |-> pv]
           /\ \A c \in D \ {m, pv, nx} : Remove(h, m)[c] = h[c]
<1>1. NULL \in Ptr /\ pv \in Ptr /\ nx \in Ptr
  BY DEF Ptr
<1>2. \A c \in D : h[c] \in Links /\ h[c] = [next |-> h[c].next, prev |-> h[c].prev]
  BY DEF Heaps, Links
<1> QED
  BY <1>1, <1>2 DEF Remove, NodeReset, Heaps, Links

(* With nothing unwatched, correct is what every link is as wanted. *)
LEMMA SameIsEqual ==
    ASSUME NEW D, heap \in Heaps(D), want.heap \in Heaps(D), Unwatched = {}
    PROVE  SameButUnwatched <=> \A c \in D : heap[c] = want.heap[c]
<1>1. \A c \in D : heap[c] = want.heap[c] <=>
          heap[c].next = want.heap[c].next /\ heap[c].prev = want.heap[c].prev
  BY DEF Heaps, Links
<1>2. DOMAIN heap = D
  BY DEF Heaps
<1> QED
  BY <1>1, <1>2 DEF SameButUnwatched

LEMMA PushFrontDecides ==
    ASSUME NEW h, Called(h), proof = "push_front"
    PROVE  (PushFrontAsserts => Correct) /\ (AsWanted => PushFrontAsserts)
<1> USE NodesApart DEF Apart
<1>1. /\ Extra \in DOMAIN h /\ Walked(h, loc, "next", h[A.head].next)
      /\ h \in Heaps(DOMAIN h) /\ DOMAIN h \subseteq Node
      /\ heap \in Heaps(DOMAIN h)
      /\ want.heap = PushFront(h, A, Extra) /\ ret = want.ret
  BY DEF Called, Given, Effect, Accessors, Returning
<1> DEFINE n == loc.size
           D == DOMAIN h
           start == h[A.head].next
           w == want.heap
<1>2. PICK x, y : Chain(h, "next", n, x, y)
  BY <1>1 DEF Walked
<1>3. n \in {0, 1, 2, 3} /\ n \in Lengths /\ loc.saved = SaveTowards(h, A, n, start, "next")
  BY <1>1 DEF Walked, Lengths
<1>4. Origin(A, "next") = A.head /\ End(A, "next") = A.tail /\ Back("next") = "prev"
  BY DEF Origin, End, Back
<1>5. loc.saved.save_point = start
  BY <1>3 DEF SaveTowards
<1>6. D \subseteq Node /\ h \in Heaps(D) /\ heap \in Heaps(D) /\ Extra \in D
  BY <1>1
<1> HIDE DEF n, D
<1>7. /\ A.head \in D /\ A.tail \in D /\ start = IF n = 0 THEN A.tail ELSE x
      /\ start \in D /\ start # Extra /\ start # A.head
      /\ h[start].prev = A.head
      /\ n = 0 => D = {Extra, A.head, A.tail}
      /\ n = 1 => D = {Extra, A.head, x, A.tail} /\ x \in D
      /\ n > 1 => D = {Extra, A.head, x, y, A.tail} /\ x \in D /\ y \in D
      /\ x # A.head /\ x # A.tail /\ x # Extra /\ y # A.head /\ y # A.tail /\ y # Extra /\ x # y
      /\ h[A.head].prev = NULL /\ h[A.tail].next = NULL
  <2>1. CASE n = 0
    BY <1>2, <1>3, <1>4, <1>6, <2>1 DEF Chain, D
  <2>2. CASE n = 1
    BY <1>2, <1>3, <1>4, <1>6, <2>2 DEF Chain, D
  <2>3. CASE n > 1
    BY <1>2, <1>3, <1>4, <1>6, <2>3 DEF Chain, D
  <2> QED  BY <1>3, <2>1, <2>2, <2>3
<1>8. UnchangedToTail(heap, A, loc.saved) <=>
          IF n = 0 THEN heap[A.tail].next = h[A.tail].next
          ELSE /\ heap[x].next = h[x].next /\ heap[A.tail] = h[A.tail]
               /\ n > 1 => heap[y] = h[y]
  BY <1>2, <1>3, <1>4, <1>6, ChainSnapshot DEF UnchangedToTail, Fields, D
<1> HIDE DEF start
<1>9. w = InsertBefore(h, start, Extra)
  BY <1>1 DEF PushFront, start
<1> HIDE DEF w
<1>10. /\ w \in Heaps(D)
       /\ w[Extra] = [next |-> start, prev |-> A.head]
       /\ w[A.head] = [next |-> Extra, prev |-> NULL]
       /\ w[start] = [next |-> h[start].next, prev |-> Extra]
       /\ \A c \in D \ {Extra, A.head, start} : w[c] = h[c]
  <2>1. Extra \in D \cap Node /\ A.head \in D \cap Node /\ start \in D \cap Node
    BY <1>6, <1>7
  <2>2. Extra # A.head /\ Extra # start /\ A.head # start /\ h[start].prev = A.head
    BY <1>7
  <2>3. /\ w \in Heaps(D)
        /\ w[Extra] = [next |-> start, prev |-> A.head]
        /\ w[A.head] = [next |-> Extra, prev |-> h[A.head].prev]
        /\ w[start] = [next |-> h[start].next, prev |-> Extra]
        /\ \A c \in D \ {Extra, A.head, start} : w[c] = h[c]
    BY <1>6, <1>9, <2>1, <2>2, InsertedBefore
  <2> QED
    BY <1>7, <2>3
<1>11. Unwatched = {}
  BY DEF Unwatched
<1>12. SameButUnwatched <=> \A c \in D : heap[c] = w[c]
  BY <1>6, <1>10, <1>11, SameIsEqual DEF w
<1>13. /\ \A c \in D : heap[c] = [next |-> heap[c].next, prev |-> heap[c].prev]
       /\ \A c \in D : Hop(heap, c, "next") = heap[c].next /\ Hop(heap, c, "prev") = heap[c].prev
  BY <1>6 DEF Heaps, Links, Hop, At
<1>14. PushFrontAsserts <=>
          /\ heap[A.tail].next = NULL /\ heap[A.head].prev = NULL
          /\ heap[A.head].next = Extra /\ heap[Extra].prev = A.head
          /\ heap[Extra].next = start /\ heap[start].prev = Extra
          /\ UnchangedToTail(heap, A, loc.saved)
  BY <1>5, <1>6, <1>7, <1>13 DEF PushFrontAsserts, IsAttachedAfter, PrevIsValid, NextIsValid
<1>15. PushFrontAsserts <=> \A c \in D : heap[c] = w[c]
  <2>1. CASE n = 0
    BY <1>7, <1>8, <1>10, <1>13, <1>14, <2>1
  <2>2. CASE n = 1
    BY <1>7, <1>8, <1>10, <1>13, <1>14, <2>2
  <2>3. CASE n > 1
    BY <1>7, <1>8, <1>10, <1>13, <1>14, <2>3
  <2> QED  BY <1>3, <2>1, <2>2, <2>3
<1> QED
  BY <1>1, <1>12, <1>15 DEF Correct, AsWanted, w

LEMMA PushBackDecides ==
    ASSUME NEW h, Called(h), proof = "push_back"
    PROVE  (PushBackAsserts => Correct) /\ (AsWanted => PushBackAsserts)
<1> USE NodesApart DEF Apart
<1>1. /\ Extra \in DOMAIN h /\ Walked(h, loc, "prev", h[A.tail].prev)
      /\ h \in Heaps(DOMAIN h) /\ DOMAIN h \subseteq Node
      /\ heap \in Heaps(DOMAIN h)
      /\ want.heap = PushBack(h, A, Extra) /\ ret = want.ret
  BY DEF Called, Given, Effect, Accessors, Returning
<1> DEFINE n == loc.size
           D == DOMAIN h
           start == h[A.tail].prev
           w == want.heap
<1>2. PICK x, y : Chain(h, "prev", n, x, y)
  BY <1>1 DEF Walked
<1>3. n \in {0, 1, 2, 3} /\ n \in Lengths /\ loc.saved = SaveTowards(h, A, n, start, "prev")
  BY <1>1 DEF Walked, Lengths
<1>4. Origin(A, "prev") = A.tail /\ End(A, "prev") = A.head /\ Back("prev") = "next"
  BY DEF Origin, End, Back
<1>5. loc.saved.save_point = start
  BY <1>3 DEF SaveTowards
<1>6. D \subseteq Node /\ h \in Heaps(D) /\ heap \in Heaps(D) /\ Extra \in D
  BY <1>1
<1> HIDE DEF n, D
<1>7. /\ A.head \in D /\ A.tail \in D /\ start = IF n = 0 THEN A.head ELSE x
      /\ start \in D /\ start # Extra /\ start # A.tail
      /\ h[start].next = A.tail
      /\ n = 0 => D = {Extra, A.tail, A.head}
      /\ n = 1 => D = {Extra, A.tail, x, A.head} /\ x \in D
      /\ n > 1 => D = {Extra, A.tail, x, y, A.head} /\ x \in D /\ y \in D
      /\ x # A.head /\ x # A.tail /\ x # Extra /\ y # A.head /\ y # A.tail /\ y # Extra /\ x # y
      /\ h[A.head].prev = NULL /\ h[A.tail].next = NULL
  <2>1. CASE n = 0
    BY <1>2, <1>3, <1>4, <1>6, <2>1 DEF Chain, D
  <2>2. CASE n = 1
    BY <1>2, <1>3, <1>4, <1>6, <2>2 DEF Chain, D
  <2>3. CASE n > 1
    BY <1>2, <1>3, <1>4, <1>6, <2>3 DEF Chain, D
  <2> QED  BY <1>3, <2>1, <2>2, <2>3
<1>8. UnchangedToHead(heap, A, loc.saved) <=>
          IF n = 0 THEN heap[A.head].prev = h[A.head].prev
          ELSE /\ heap[x].prev = h[x].prev /\ heap[A.head] = h[A.head]
               /\ n > 1 => heap[y] = h[y]
  BY <1>2, <1>3, <1>4, <1>6, ChainSnapshot DEF UnchangedToHead, Fields, D
<1> HIDE DEF start
<1>9. w = InsertBefore(h, A.tail, Extra) /\ h[A.tail].prev = start
  BY <1>1 DEF PushBack, start
<1> HIDE DEF w
<1>10. /\ w \in Heaps(D)
       /\ w[Extra] = [next |-> A.tail, prev |-> start]
       /\ w[start] = [next |-> Extra, prev |-> h[start].prev]
       /\ w[A.tail] = [next |-> NULL, prev |-> Extra]
       /\ \A c \in D \ {Extra, start, A.tail} : w[c] = h[c]
  <2>1. Extra \in D \cap Node /\ A.tail \in D \cap Node /\ start \in D \cap Node
    BY <1>6, <1>7
  <2>2. Extra # A.tail /\ Extra # start /\ start # A.tail /\ h[A.tail].prev = start
    BY <1>7, <1>9
  <2>3. /\ w \in Heaps(D)
        /\ w[Extra] = [next |-> A.tail, prev |-> start]
        /\ w[start] = [next |-> Extra, prev |-> h[start].prev]
        /\ w[A.tail] = [next |-> h[A.tail].next, prev |-> Extra]
        /\ \A c \in D \ {Extra, start, A.tail} : w[c] = h[c]
    BY <1>6, <1>9, <2>1, <2>2, InsertedBefore
  <2> QED
    BY <1>7, <2>3
<1>11. Unwatched = {}
  BY DEF Unwatched
<1>12. SameButUnwatched <=> \A c \in D : heap[c] = w[c]
  BY <1>6, <1>10, <1>11, SameIsEqual DEF w
<1>13. /\ \A c \in D : heap[c] = [next |-> heap[c].next, prev |-> heap[c].prev]
       /\ \A c \in D : Hop(heap, c, "next") = heap[c].next /\ Hop(heap, c, "prev") = heap[c].prev
  BY <1>6 DEF Heaps, Links, Hop, At
<1>14. PushBackAsserts <=>
          /\ heap[A.tail].next = NULL /\ heap[A.head].prev = NULL
          /\ heap[Extra].next = A.tail /\ heap[A.tail].prev = Extra
          /\ heap[start].next = Extra /\ heap[Extra].prev = start
          /\ UnchangedToHead(heap, A, loc.saved)
  BY <1>5, <1>6, <1>7, <1>13 DEF PushBackAsserts, IsAttachedAfter, PrevIsValid, NextIsValid
<1>15. PushBackAsserts <=> \A c \in D : heap[c] = w[c]
  <2>1. CASE n = 0
    BY <1>7, <1>8, <1>10, <1>13, <1>14, <2>1
  <2>2. CASE n = 1
    BY <1>7, <1>8, <1>10, <1>13, <1>14, <2>2
  <2>3. CASE n > 1
    BY <1>7, <1>8, <1>10, <1>13, <1>14, <2>3
  <2> QED  BY <1>3, <2>1, <2>2, <2>3
<1> QED
  BY <1>1, <1>12, <1>15 DEF Correct, AsWanted, w

LEMMA PopFrontDecides ==
    ASSUME NEW h, Called(h), proof = "pop_front"
    PROVE  (PopFrontAsserts => Correct) /\ (AsWanted => PopFrontAsserts)
<1> USE NodesApart DEF Apart
<1>1. /\ Extra \notin DOMAIN h /\ Walked(h, loc, "next", h[h[A.head].next].next)
      /\ loc.size > 0
      /\ h \in Heaps(DOMAIN h) /\ DOMAIN h \subseteq Node
      /\ heap \in Heaps(DOMAIN h)
      /\ want.heap = Remove(h, h[A.head].next) /\ want.ret = h[A.head].next
  BY DEF Called, Given, Effect, Accessors, Result
<1> DEFINE n == loc.size
           D == DOMAIN h
           start == h[h[A.head].next].next
           w == want.heap
<1>2. PICK x, y : Chain(h, "next", n, x, y)
  BY <1>1 DEF Walked
<1>3. n \in {1, 2, 3} /\ n \in Lengths /\ loc.saved = SaveTowards(h, A, n, start, "next")
  BY <1>1 DEF Walked, Lengths
<1>4. Origin(A, "next") = A.head /\ End(A, "next") = A.tail /\ Back("next") = "prev"
  BY DEF Origin, End, Back
<1>5. loc.saved.save_point = start
  BY <1>3 DEF SaveTowards
<1>6. D \subseteq Node /\ h \in Heaps(D) /\ heap \in Heaps(D) /\ Extra \notin D
  BY <1>1
<1>7. h[A.head].next = x
  BY <1>2, <1>3, <1>4 DEF Chain
<1> HIDE DEF n, D
<1>8. /\ A.head \in D /\ A.tail \in D /\ x \in D /\ start = IF n = 1 THEN A.tail ELSE y
      /\ start \in D /\ h[x].prev = A.head /\ h[x].next = start
      /\ n = 1 => D = {A.head, x, A.tail}
      /\ n > 1 => D = {A.head, x, y, A.tail}
      /\ x # A.head /\ x # A.tail /\ y # A.head /\ y # A.tail /\ x # y
      /\ h[A.head].prev = NULL /\ h[A.tail].next = NULL
      /\ n > 1 => h[y].next # NULL /\ h[A.tail].prev # NULL
  <2>1. CASE n = 1
    BY <1>2, <1>3, <1>4, <1>6, <1>7, <2>1 DEF Chain, D
  <2>2. CASE n = 2
    <3>1. A.tail # NULL /\ y # NULL
      BY <1>2, PointersDistinct DEF Chain
    <3> QED  BY <1>2, <1>3, <1>4, <1>6, <1>7, <2>2, <3>1 DEF Chain, D
  <2>3. CASE n = 3
    BY <1>2, <1>3, <1>4, <1>6, <1>7, <2>3 DEF Chain, D
  <2> QED  BY <1>3, <2>1, <2>2, <2>3
<1>9. UnchangedToTail(heap, A, loc.saved) <=>
          IF n = 1 THEN heap[A.tail].next = h[A.tail].next
          ELSE heap[y].next = h[y].next /\ heap[A.tail] = h[A.tail]
  <2>1. n > 0 /\ start = h[x].next
    BY <1>3, <1>7
  <2> QED
    BY <1>2, <1>3, <1>4, <1>6, <2>1, ChainSnapshot DEF UnchangedToTail, Fields, D
<1>10. w = Remove(h, x)
  BY <1>1, <1>7
<1> HIDE DEF start, w
<1>11. /\ w \in Heaps(D)
       /\ w[x] = [next |-> NULL, prev |-> NULL]
       /\ w[A.head] = [next |-> start, prev |-> NULL]
       /\ w[start] = [next |-> h[start].next, prev |-> A.head]
       /\ \A c \in D \ {x, A.head, start} : w[c] = h[c]
  BY <1>6, <1>8, <1>10, Removed
<1>12. Unwatched = {}
  BY DEF Unwatched
<1>13. SameButUnwatched <=> \A c \in D : heap[c] = w[c]
  BY <1>6, <1>11, <1>12, SameIsEqual DEF w
<1>14. /\ \A c \in D : heap[c] = [next |-> heap[c].next, prev |-> heap[c].prev]
       /\ \A c \in D : Hop(heap, c, "next") = heap[c].next /\ Hop(heap, c, "prev") = heap[c].prev
       /\ \A c : Hop(heap, c, "next") = NULL => c \in D
  BY <1>6, PointersDistinct DEF Heaps, Links, Hop, At
<1>15. PopFrontAsserts <=>
          /\ Hop(heap, ret, "next") = NULL /\ Hop(heap, ret, "prev") = NULL
          /\ heap[A.head].next = start /\ heap[start].prev = A.head
          /\ heap[A.head].prev = NULL /\ heap[A.tail].next = NULL
          /\ UnchangedToTail(heap, A, loc.saved)
  BY <1>5, <1>6, <1>8, <1>14 DEF PopFrontAsserts, IsAttachedAfter
<1>16. start # NULL /\ A.head # NULL
  BY <1>6, <1>8, PointersDistinct
<1>17. PopFrontAsserts => ret = x
  BY <1>3, <1>8, <1>9, <1>14, <1>15, <1>16
<1>18. ret = x => (PopFrontAsserts <=> \A c \in D : heap[c] = w[c])
  <2>1. CASE n = 1
    BY <1>8, <1>9, <1>11, <1>14, <1>15, <2>1
  <2>2. CASE n > 1
    BY <1>8, <1>9, <1>11, <1>14, <1>15, <2>2
  <2> QED  BY <1>3, <2>1, <2>2
<1> QED
  BY <1>1, <1>7, <1>13, <1>17, <1>18 DEF Correct, AsWanted, w

LEMMA PopBackDecides ==
    ASSUME NEW h, Called(h), proof = "pop_back"
    PROVE  (PopBackAsserts => Correct) /\ (AsWanted => PopBackAsserts)
<1> USE NodesApart DEF Apart
<1>1. /\ Extra \notin DOMAIN h /\ Walked(h, loc, "prev", h[h[A.tail].prev].prev)
      /\ loc.size > 0
      /\ h \in Heaps(DOMAIN h) /\ DOMAIN h \subseteq Node
      /\ heap \in Heaps(DOMAIN h)
      /\ want.heap = Remove(h, h[A.tail].prev) /\ want.ret = h[A.tail].prev
  BY DEF Called, Given, Effect, Accessors, Result
<1> DEFINE n == loc.size
           D == DOMAIN h
           start == h[h[A.tail].prev].prev
           w == want.heap
<1>2. PICK x, y : Chain(h, "prev", n, x, y)
  BY <1>1 DEF Walked
<1>3. n \in {1, 2, 3} /\ n \in Lengths /\ loc.saved = SaveTowards(h, A, n, start, "prev")
  BY <1>1 DEF Walked, Lengths
<1>4. Origin(A, "prev") = A.tail /\ End(A, "prev") = A.head /\ Back("prev") = "next"
  BY DEF Origin, End, Back
<1>5. loc.saved.save_point = start
  BY <1>3 DEF SaveTowards
<1>6. D \subseteq Node /\ h \in Heaps(D) /\ heap \in Heaps(D) /\ Extra \notin D
  BY <1>1
<1>7. h[A.tail].prev = x
  BY <1>2, <1>3, <1>4 DEF Chain
<1> HIDE DEF n, D
<1>8. /\ A.tail \in D /\ A.head \in D /\ x \in D /\ start = IF n = 1 THEN A.head ELSE y
      /\ start \in D /\ h[x].next = A.tail /\ h[x].prev = start
      /\ n = 1 => D = {A.tail, x, A.head}
      /\ n > 1 => D = {A.tail, x, y, A.head}
      /\ x # A.tail /\ x # A.head /\ y # A.tail /\ y # A.head /\ x # y
      /\ h[A.tail].next = NULL /\ h[A.head].prev = NULL
      /\ n > 1 => h[y].prev # NULL /\ h[A.head].next # NULL
  <2>1. CASE n = 1
    BY <1>2, <1>3, <1>4, <1>6, <1>7, <2>1 DEF Chain, D
  <2>2. CASE n = 2
    <3>1. A.head # NULL /\ y # NULL
      BY <1>2, PointersDistinct DEF Chain
    <3> QED  BY <1>2, <1>3, <1>4, <1>6, <1>7, <2>2, <3>1 DEF Chain, D
  <2>3. CASE n = 3
    BY <1>2, <1>3, <1>4, <1>6, <1>7, <2>3 DEF Chain, D
  <2> QED  BY <1>3, <2>1, <2>2, <2>3
<1>9. UnchangedToHead(heap, A, loc.saved) <=>
          IF n = 1 THEN heap[A.head].prev = h[A.head].prev
          ELSE heap[y].prev = h[y].prev /\ heap[A.head] = h[A.head]
  <2>1. n > 0 /\ start = h[x].prev
    BY <1>3, <1>7
  <2> QED
    BY <1>2, <1>3, <1>4, <1>6, <2>1, ChainSnapshot DEF UnchangedToHead, Fields, D
<1>10. w = Remove(h, x)
  BY <1>1, <1>7
<1> HIDE DEF start, w
<1>11. /\ w \in Heaps(D)
       /\ w[x] = [next |-> NULL, prev |-> NULL]
       /\ w[start] = [next |-> A.tail, prev |-> h[start].prev]
       /\ w[A.tail] = [next |-> NULL, prev |-> start]
       /\ \A c \in D \ {x, start, A.tail} : w[c] = h[c]
  BY <1>6, <1>8, <1>10, Removed
<1>12. Unwatched = {}
  BY DEF Unwatched
<1>13. SameButUnwatched <=> \A c \in D : heap[c] = w[c]
  BY <1>6, <1>11, <1>12, SameIsEqual DEF w
<1>14. /\ \A c \in D : heap[c] = [next |-> heap[c].next, prev |-> heap[c].prev]
       /\ \A c \in D : Hop(heap, c, "prev") = heap[c].prev /\ Hop(heap, c, "next") = heap[c].next
       /\ \A c : Hop(heap, c, "prev") = NULL => c \in D
  BY <1>6, PointersDistinct DEF Heaps, Links, Hop, At
<1>15. PopBackAsserts <=>
          /\ Hop(heap, ret, "prev") = NULL /\ Hop(heap, ret, "next") = NULL
          /\ heap[A.tail].prev = start /\ heap[start].next = A.tail
          /\ heap[A.tail].next = NULL /\ heap[A.head].prev = NULL
          /\ UnchangedToHead(heap, A, loc.saved)
  BY <1>5, <1>6, <1>8, <1>14 DEF PopBackAsserts, IsAttachedAfter
<1>16. start # NULL /\ A.tail # NULL
  BY <1>6, <1>8, PointersDistinct
<1>17. PopBackAsserts => ret = x
  BY <1>3, <1>8, <1>9, <1>14, <1>15, <1>16
<1>18. ret = x => (PopBackAsserts <=> \A c \in D : heap[c] = w[c])
  <2>1. CASE n = 1
    BY <1>8, <1>9, <1>11, <1>14, <1>15, <2>1
  <2>2. CASE n > 1
    BY <1>8, <1>9, <1>11, <1>14, <1>15, <2>2
  <2> QED  BY <1>3, <2>1, <2>2
<1> QED
  BY <1>1, <1>7, <1>13, <1>17, <1>18 DEF Correct, AsWanted, w

LEMMA InsertsDecide ==
    ASSUME NEW h, Called(h), proof \in {"insert_after", "insert_before"}, NEW asserts,
           asserts = IF proof = "insert_after" THEN InsertAfterAsserts ELSE InsertBeforeAsserts
    PROVE  (asserts => Correct) /\ (AsWanted => asserts)
<1> USE NodesApart DEF Apart
<1> DEFINE D == DOMAIN h
           w == want.heap
<1>1. /\ Extra \in D /\ Joined(h)
      /\ loc.p = h[A.first].prev /\ loc.q = h[A.second].next
      /\ h \in Heaps(D) /\ D \subseteq Node /\ heap \in Heaps(D)
      /\ ret = want.ret
      /\ IF proof = "insert_after" THEN w = InsertAfter(h, A.first, Extra)
         ELSE w = InsertBefore(h, A.second, Extra)
  BY DEF Called, Given, Effect, Accessors, Returning
<1>2. /\ D = {Extra, A.first, A.second}
      /\ h[A.first].next = A.second /\ h[A.second].prev = A.first
  BY <1>1 DEF Joined
<1> HIDE DEF D, w
<1>3. /\ Extra \in D /\ A.first \in D /\ A.second \in D
      /\ Extra # A.first /\ Extra # A.second /\ A.first # A.second
  BY <1>2
<1>4. /\ w \in Heaps(D)
      /\ w[Extra] = [next |-> A.second, prev |-> A.first]
      /\ w[A.first] = [next |-> Extra, prev |-> h[A.first].prev]
      /\ w[A.second] = [next |-> h[A.second].next, prev |-> Extra]
  <2>1. CASE proof = "insert_after"
    BY <1>1, <1>2, <1>3, <2>1, InsertedAfter
  <2>2. CASE proof = "insert_before"
    BY <1>1, <1>2, <1>3, <2>2, InsertedBefore
  <2> QED  BY <2>1, <2>2
<1>5. Unwatched = {}
  BY DEF Unwatched
<1>6. SameButUnwatched <=> \A c \in D : heap[c] = w[c]
  BY <1>1, <1>4, <1>5, SameIsEqual DEF w
<1>7. /\ \A c \in D : heap[c] = [next |-> heap[c].next, prev |-> heap[c].prev]
      /\ \A c \in D : Hop(heap, c, "next") = heap[c].next /\ Hop(heap, c, "prev") = heap[c].prev
  BY <1>1 DEF Heaps, Links, Hop, At
<1>8. asserts <=> /\ heap[A.first].next = Extra /\ heap[Extra].prev = A.first
                  /\ heap[Extra].next = A.second /\ heap[A.second].prev = Extra
                  /\ heap[A.first].prev = loc.p /\ heap[A.second].next = loc.q
  BY <1>3, <1>7 DEF InsertAfterAsserts, InsertBeforeAsserts, IsAttachedAfter
<1>9. asserts <=> \A c \in D : heap[c] = w[c]
  BY <1>1, <1>2, <1>4, <1>7, <1>8
<1> QED
  BY <1>1, <1>6, <1>9 DEF Correct, AsWanted, w

LEMMA RemoveDecides ==
    ASSUME NEW h, Called(h), proof = "remove"
    PROVE  (RemoveAsserts => Correct) /\ (AsWanted => RemoveAsserts)
<1> USE NodesApart DEF Apart
<1> DEFINE D == DOMAIN h
           w == want.heap
<1>1. /\ D = {A.first, Extra, A.second}
      /\ h[A.first] = [next |-> Extra, prev |-> loc.p]
      /\ h[Extra] = [next |-> A.second, prev |-> A.first]
      /\ h[A.second] = [next |-> loc.q, prev |-> Extra]
      /\ h \in Heaps(D) /\ D \subseteq Node /\ heap \in Heaps(D)
      /\ ret = want.ret /\ w = Remove(h, Extra)
  BY DEF Called, Given, Effect, Accessors, Returning
<1> HIDE DEF D, w
<1>2. /\ Extra \in D /\ A.first \in D /\ A.second \in D
      /\ Extra # A.first /\ Extra # A.second /\ A.first # A.second
  BY <1>1
<1>3. /\ w \in Heaps(D)
      /\ w[Extra] = [next |-> NULL, prev |-> NULL]
      /\ w[A.first] = [next |-> A.second, prev |-> loc.p]
      /\ w[A.second] = [next |-> loc.q, prev |-> A.first]
  BY <1>1, <1>2, Removed
<1>4. Unwatched = {}
  BY DEF Unwatched
<1>5. SameButUnwatched <=> \A c \in D : heap[c] = w[c]
  BY <1>1, <1>3, <1>4, SameIsEqual DEF w
<1>6. /\ \A c \in D : heap[c] = [next |-> heap[c].next, prev |-> heap[c].prev]
      /\ \A c \in D : Hop(heap, c, "next") = heap[c].next /\ Hop(heap, c, "prev") = heap[c].prev
  BY <1>1 DEF Heaps, Links, Hop, At
<1>7. RemoveAsserts <=> /\ heap[A.first].next = A.second /\ heap[A.second].prev = A.first
                        /\ heap[A.first].prev = loc.p /\ heap[A.second].next = loc.q
                        /\ heap[Extra] = [next |-> NULL, prev |-> NULL]
  BY <1>2, <1>6 DEF RemoveAsserts, IsAttachedAfter
<1>8. RemoveAsserts <=> \A c \in D : heap[c] = w[c]
  BY <1>1, <1>3, <1>6, <1>7
<1> QED
  BY <1>1, <1>5, <1>8 DEF Correct, AsWanted, w

LEMMA InitDecides ==
    ASSUME NEW h, Called(h), proof = "init"
    PROVE  (InitAsserts => Correct) /\ (AsWanted => InitAsserts)
<1> USE NodesApart DEF Apart
<1> DEFINE D == DOMAIN h
           w == want.heap
<1>1. /\ D = {A.head, A.tail}
      /\ h \in Heaps(D) /\ D \subseteq Node /\ heap \in Heaps(D)
      /\ ret = want.ret /\ w = ListInit(h, A)
  BY DEF Called, Given, Effect, Accessors, Returning
<1> HIDE DEF D, w
<1>2. A.head # NULL /\ A.tail # NULL
  BY PointersDistinct
<1>3. /\ w[A.head] = [next |-> A.tail, prev |-> NULL]
      /\ w[A.tail] = [next |-> NULL, prev |-> A.head]
  BY <1>1 DEF ListInit, Heaps
<1>4. Unwatched = {<<A.head, "next">>, <<A.tail, "prev">>}
  BY DEF Unwatched
<1>5. DOMAIN heap = {A.head, A.tail}
  BY <1>1 DEF Heaps
<1>6. SameButUnwatched <=> heap[A.head].prev = NULL /\ heap[A.tail].next = NULL
  BY <1>3, <1>4, <1>5 DEF SameButUnwatched, w
<1> QED
  BY <1>1, <1>2, <1>3, <1>6 DEF InitAsserts, ListIsValid, Correct, AsWanted, w

LEMMA NodeResetDecides ==
    ASSUME NEW h, Called(h), proof = "node_reset"
    PROVE  (NodeResetAsserts => Correct) /\ (AsWanted => NodeResetAsserts)
<1> DEFINE D == DOMAIN h
           w == want.heap
<1>1. /\ D = {Extra}
      /\ h \in Heaps(D) /\ heap \in Heaps(D)
      /\ ret = want.ret /\ w = NodeReset(h, Extra)
  BY DEF Called, Given, Effect, Accessors, Returning
<1> HIDE DEF D, w
<1>2. w[Extra] = [next |-> NULL, prev |-> NULL] /\ w \in Heaps(D)
  BY <1>1 DEF NodeReset, Heaps, Links, Ptr
<1>3. Unwatched = {}
  BY DEF Unwatched
<1>4. SameButUnwatched <=> \A c \in D : heap[c] = w[c]
  BY <1>1, <1>2, <1>3, SameIsEqual DEF w
<1> QED
  BY <1>1, <1>2, <1>4 DEF NodeResetAsserts, Correct, AsWanted, w

-----------------------------------------------------------------------------
(* Swapping the contents of two lists. *)

(* What sea_nd_init_aws_linked_list builds: a list whose sentinels meet its  *)
(* first and its last node.                                                *)
BothShape(l, n, h) ==
    /\ h \in Heaps(DOMAIN h)
    /\ DOMAIN h = {l.head, l.tail} \cup (IF n > 0 THEN {l.first} ELSE {})
                                   \cup (IF n > 1 THEN {l.second} ELSE {})
    /\ h[l.head].prev = NULL /\ h[l.tail].next = NULL
    /\ h[l.head].next = IF n = 0 THEN l.tail ELSE l.first
    /\ h[l.tail].prev = IF n = 0 THEN l.head ELSE IF n = 1 THEN l.first ELSE l.second

LEMMA BothIs ==
    ASSUME NEW l, Separate(l), NEW n \in Lengths, NEW h \in InitBoth(l, n)
    PROVE  BothShape(l, n, h)
<1>1. CASE n \in 0 .. 2
  <2>1. ShortShape(l, n, h)
    BY <1>1, ShortIs DEF InitBoth
  <2>2. CASE n = 0
    BY <2>1, <2>2 DEF ShortShape, BothShape, Heaps
  <2>3. CASE n = 1
    BY <2>1, <2>3 DEF ShortShape, BothShape, Heaps
  <2>4. CASE n = 2
    BY <2>1, <2>4 DEF ShortShape, BothShape, Heaps
  <2> QED  BY <1>1, <2>2, <2>3, <2>4
<1>2. CASE n = 3
  <2>1. h \in InitLong(l, "middle")
    BY <1>2 DEF InitBoth
  <2>2. LongShape(l, "middle", h)
    BY <2>1, LongIs
  <2> QED
    BY <1>2, <2>2 DEF LongShape, BothShape, Heaps
<1> QED
  BY <1>1, <1>2 DEF Lengths

LEMMA FullIs ==
    ASSUME NEW l, Separate(l), NEW n \in Lengths, NEW h, BothShape(l, n, h), NEW s,
           s = SaveFull(h, l, n, h[l.head].next, h[l.tail].prev)
    PROVE  /\ n = 0 => /\ s.saved_size = 0
                       /\ s.head = SaveNode(h, l.head) /\ s.tail = SaveNode(h, l.tail)
           /\ n = 1 => /\ s.saved_size = 1
                       /\ s.save_point = l.first /\ s.save_point_end = l.first
                       /\ s.nodes[1] = SaveNode(h, l.first)
           /\ n > 1 => /\ s.saved_size = 2
                       /\ s.save_point = l.first /\ s.save_point_end = l.second
                       /\ s.nodes[1] = SaveNode(h, l.first)
                       /\ s.nodes[2] = SaveNode(h, l.second)
<1> USE DEF Separate
<1>1. CASE n = 0
  BY <1>1 DEF SaveFull, BothShape
<1>2. CASE n = 1
  BY <1>2 DEF SaveFull, BothShape
<1>3. CASE n > 1
  <2>1. h[l.head].next = l.first /\ h[l.tail].prev = l.second
    BY <1>3 DEF BothShape
  <2> DEFINE kept == <<l.first, l.second>>
  <2>2. n > 0 /\ n > 1 /\ n # 0 /\ n # 1
    BY <1>3 DEF Lengths
  <2>3. kept = <<l.first>> \o <<l.second>>
    OBVIOUS
  <2>4. s = [saved_size |-> Len(kept), save_point |-> l.first, save_point_end |-> l.second,
             head |-> SaveNode(h, l.head), tail |-> SaveNode(h, l.tail),
             nodes |-> [i \in 1 .. Len(kept) |-> SaveNode(h, kept[i])]]
    BY <2>1, <2>2, <2>3 DEF SaveFull
  <2>5. Len(kept) = 2 /\ kept[1] = l.first /\ kept[2] = l.second
    OBVIOUS
  <2> QED
    BY <1>3, <2>4, <2>5
<1> QED
  BY <1>1, <1>2, <1>3 DEF Lengths

(* TakeOver when there is something to take over. *)
Splice(h, l, first, last) ==
    [h EXCEPT ![l.head].next = first, ![first].prev = l.head,
              ![l.tail].prev = last, ![last].next = l.tail]

(* Heap k is h after list l has taken over the n nodes of list o, of which   *)
(* first and last are the outer ones.                                      *)
Taken(D, h, l, o, n, first, last, k) ==
    /\ k \in Heaps(D)
    /\ k[l.head] = [next |-> IF n = 0 THEN l.tail ELSE first, prev |-> NULL]
    /\ k[l.tail] = [next |-> NULL, prev |-> IF n = 0 THEN l.head ELSE last]
    /\ n > 0 => k[first].prev = l.head /\ k[last].next = l.tail
    /\ n > 1 => k[first].next = h[first].next /\ k[last].prev = h[last].prev
    /\ \A m \in D : m \notin {l.head, l.tail, o.first, o.second} => k[m] = h[m]

LEMMA TakenOver ==
    ASSUME NEW D, D \subseteq Node, NEW h, h \in Heaps(D), NEW l, NEW o, Separate(l), Separate(o),
           Nodes(l) \cap Nodes(o) = {}, NEW n, n \in Lengths,
           l.head \in D, l.tail \in D, n > 0 => o.first \in D, n > 1 => o.second \in D,
           h[l.head].prev = NULL, h[l.tail].next = NULL,
           NEW first, NEW last,
           n > 0 => first = o.first /\ last = IF n = 1 THEN o.first ELSE o.second,
           NEW k, k = IF n = 0 THEN ListInit(h, l) ELSE Splice(h, l, first, last)
    PROVE  Taken(D, h, l, o, n, first, last, k)
<1> USE DEF Separate
<1>1. \A c \in D : h[c] \in Links /\ h[c] = [next |-> h[c].next, prev |-> h[c].prev]
  BY DEF Heaps, Links
<1>2. NULL \in Ptr /\ Node \subseteq Ptr
  BY DEF Ptr
<1>3. {l.head, l.tail} \cap {o.first, o.second} = {} /\ l.head # l.tail /\ o.first # o.second
  BY DEF Nodes
<1>4. CASE n = 0
  BY <1>1, <1>2, <1>4 DEF Taken, ListInit, Heaps, Links
<1>5. ASSUME n > 0
      PROVE  /\ k = Splice(h, l, first, last)
             /\ first \in D /\ last \in D /\ first \in Node /\ last \in Node
             /\ first # l.head /\ first # l.tail /\ last # l.head /\ last # l.tail
  <2>1. n # 0 /\ (n = 1 \/ n > 1)
    BY <1>5 DEF Lengths
  <2>2. k = Splice(h, l, first, last)
    BY <2>1, Zenon
  <2>3. first = o.first /\ (last = o.first \/ (n > 1 /\ last = o.second))
    BY <1>5, <2>1
  <2> QED  BY <1>3, <1>5, <2>2, <2>3
<1>7. ASSUME n > 0
      PROVE  /\ k[l.head] = [next |-> first, prev |-> NULL]
             /\ k[l.tail] = [next |-> NULL, prev |-> last]
             /\ k[first] = [next |-> IF first = last THEN l.tail ELSE h[first].next, prev |-> l.head]
             /\ k[last] = [next |-> l.tail, prev |-> IF first = last THEN l.head ELSE h[last].prev]
             /\ \A m \in D : m \notin {l.head, l.tail, first, last} => k[m] = h[m]
  <2>1. first \in D /\ last \in D /\ l.head \in D /\ l.tail \in D /\ DOMAIN h = D
    BY <1>5, <1>7 DEF Heaps
  <2>2. first # l.head /\ first # l.tail /\ last # l.head /\ last # l.tail /\ l.head # l.tail
    BY <1>3, <1>5, <1>7
  <2>3. k = Splice(h, l, first, last)
    BY <1>5, <1>7
  <2> QED
    BY <1>1, <2>1, <2>2, <2>3 DEF Splice
<1>6. ASSUME n > 0 PROVE k \in Heaps(D)
  <2>1. DOMAIN k = D /\ k = [m \in D |-> k[m]]
    BY <1>5, <1>6 DEF Splice, Heaps
  <2>2. ASSUME NEW m \in D PROVE k[m] \in Links
    <3>1. /\ h[first].next \in Ptr /\ h[last].prev \in Ptr
          /\ first \in Ptr /\ last \in Ptr /\ l.head \in Ptr /\ l.tail \in Ptr /\ NULL \in Ptr
      BY <1>1, <1>2, <1>5, <1>6 DEF Links
    <3>2. \A p, q \in Ptr : [next |-> p, prev |-> q] \in Links
      BY DEF Links
    <3>3. CASE m \in {l.head, l.tail, first, last}
      BY <1>6, <1>7, <3>1, <3>2, <3>3
    <3>4. CASE m \notin {l.head, l.tail, first, last}
      BY <1>1, <1>6, <1>7, <3>4
    <3> QED  BY <3>3, <3>4
  <2> QED  BY <2>1, <2>2 DEF Heaps
<1>8. n > 0 => first = o.first /\ last \in {o.first, o.second}
  OBVIOUS
<1>9. n > 1 => first # last
  BY <1>3 DEF Lengths
<1>10. CASE n > 0
  BY <1>6, <1>7, <1>8, <1>9, <1>10 DEF Taken, Lengths
<1> QED
  BY <1>4, <1>10 DEF Lengths

(* What is left of the two lists that were swapped. *)
LEMMA SwapLeaves ==
    ASSUME NEW h, NEW l, Given("swap_contents", h, l), NEW w, w = SwapContents(h, A, B)
    PROVE  /\ w \in Heaps(DOMAIN h)
           /\ \A c \in {A, B} :
                  /\ c.head \in DOMAIN w /\ c.tail \in DOMAIN w
                  /\ w[c.head].prev = NULL /\ w[c.tail].next = NULL
                  /\ NextIsValid(w, c.head) /\ PrevIsValid(w, c.tail)
           /\ UnchangedFull(w, B, l.saved) /\ UnchangedFull(w, A, l.saved_b)
<1> DEFINE D == DOMAIN h
<1>0. PICK n \in Lengths, m \in Lengths : \E g \in InitBoth(A, n), k \in InitBoth(B, m) :
          /\ h = [x \in DOMAIN g \cup DOMAIN k |-> IF x \in DOMAIN g THEN g[x] ELSE k[x]]
          /\ l.saved = SaveFull(g, A, n, g[A.head].next, g[A.tail].prev)
          /\ l.saved_b = SaveFull(k, B, m, k[B.head].next, k[B.tail].prev)
  BY DEF Given, Swapped
<1>1. PICK g \in InitBoth(A, n), k \in InitBoth(B, m) :
          /\ h = [x \in DOMAIN g \cup DOMAIN k |-> IF x \in DOMAIN g THEN g[x] ELSE k[x]]
          /\ l.saved = SaveFull(g, A, n, g[A.head].next, g[A.tail].prev)
          /\ l.saved_b = SaveFull(k, B, m, k[B.head].next, k[B.tail].prev)
  BY <1>0
<1>2. h \in Heaps(D) /\ D \in SUBSET Node
  BY DEF Given
<1>3. BothShape(A, n, g) /\ BothShape(B, m, k)
  BY BothIs, ListsSeparate
<1>4. Nodes(A) \cap Nodes(B) = {} /\ Nodes(B) \cap Nodes(A) = {} /\ Separate(A) /\ Separate(B)
  BY NodesApart, ListsSeparate DEF Apart
<1>5. /\ DOMAIN g \subseteq Nodes(A) /\ DOMAIN k \subseteq Nodes(B)
      /\ D = DOMAIN g \cup DOMAIN k
      /\ \A x \in DOMAIN g : h[x] = g[x]
      /\ \A x \in DOMAIN k : h[x] = k[x]
  <2>1. DOMAIN g \subseteq Nodes(A) /\ DOMAIN k \subseteq Nodes(B)
    BY <1>3 DEF BothShape, Nodes
  <2> QED  BY <1>1, <1>4, <2>1
<1>6. /\ A.head \in D /\ A.tail \in D
      /\ n > 0 => A.first \in D
      /\ n > 1 => A.second \in D
      /\ B.head \in D /\ B.tail \in D
      /\ m > 0 => B.first \in D
      /\ m > 1 => B.second \in D
  BY <1>3, <1>5 DEF BothShape
<1> DEFINE af == h[A.head].next
           al == h[A.tail].prev
           bf == h[B.head].next
           bl == h[B.tail].prev
           h1 == TakeOver(h, A, Empty(h, B), bf, bl)
<1>7. /\ h[A.head].prev = NULL /\ h[A.tail].next = NULL
      /\ h[B.head].prev = NULL /\ h[B.tail].next = NULL
      /\ af = IF n = 0 THEN A.tail ELSE A.first
      /\ al = IF n = 0 THEN A.head ELSE IF n = 1 THEN A.first ELSE A.second
      /\ bf = IF m = 0 THEN B.tail ELSE B.first
      /\ bl = IF m = 0 THEN B.head ELSE IF m = 1 THEN B.first ELSE B.second
  BY <1>3, <1>5, <1>6 DEF BothShape
<1>8. (Empty(h, A) <=> n = 0) /\ (Empty(h, B) <=> m = 0)
  BY <1>4, <1>7 DEF Empty, Separate
<1>9. w = TakeOver(h1, B, Empty(h, A), af, al)
  BY DEF SwapContents
<1>25. h1 = TakeOver(h, A, Empty(h, B), bf, bl)
  OBVIOUS
<1> HIDE DEF af, al, bf, bl, h1, D
<1>26. h1 = IF m = 0 THEN ListInit(h, A) ELSE Splice(h, A, bf, bl)
  <2>1. CASE m = 0  BY <1>8, <1>25, <2>1 DEF TakeOver
  <2>2. CASE m # 0  BY <1>8, <1>25, <2>2 DEF TakeOver, Splice
  <2> QED  BY <2>1, <2>2
<1>27. w = IF n = 0 THEN ListInit(h1, B) ELSE Splice(h1, B, af, al)
  <2>1. CASE n = 0  BY <1>8, <1>9, <2>1 DEF TakeOver
  <2>2. CASE n # 0  BY <1>8, <1>9, <2>2 DEF TakeOver, Splice
  <2> QED  BY <2>1, <2>2
<1>10. /\ n > 0 => af = A.first /\ al = IF n = 1 THEN A.first ELSE A.second
       /\ m > 0 => bf = B.first /\ bl = IF m = 1 THEN B.first ELSE B.second
  BY <1>7 DEF Lengths
<1>11. /\ h1 \in Heaps(D)
       /\ h1[A.head] = [next |-> IF m = 0 THEN A.tail ELSE bf, prev |-> NULL]
       /\ h1[A.tail] = [next |-> NULL, prev |-> IF m = 0 THEN A.head ELSE bl]
       /\ m > 0 => h1[bf].prev = A.head /\ h1[bl].next = A.tail
       /\ m > 1 => h1[bf].next = h[bf].next /\ h1[bl].prev = h[bl].prev
       /\ \A x \in D : x \notin {A.head, A.tail, B.first, B.second} => h1[x] = h[x]
  <2>1. Taken(D, h, A, B, m, bf, bl, h1)
    BY <1>2, <1>4, <1>6, <1>7, <1>10, <1>26, TakenOver
  <2> QED  BY <2>1 DEF Taken
<1>12. h1[B.head].prev = NULL /\ h1[B.tail].next = NULL
  BY <1>4, <1>6, <1>7, <1>11 DEF Nodes, Separate
<1>13. /\ w \in Heaps(D)
       /\ w[B.head] = [next |-> IF n = 0 THEN B.tail ELSE af, prev |-> NULL]
       /\ w[B.tail] = [next |-> NULL, prev |-> IF n = 0 THEN B.head ELSE al]
       /\ n > 0 => w[af].prev = B.head /\ w[al].next = B.tail
       /\ n > 1 => w[af].next = h1[af].next /\ w[al].prev = h1[al].prev
       /\ \A x \in D : x \notin {B.head, B.tail, A.first, A.second} => w[x] = h1[x]
  <2>1. Taken(D, h1, B, A, n, af, al, w)
    BY <1>2, <1>4, <1>6, <1>10, <1>11, <1>12, <1>27, TakenOver
  <2> QED  BY <2>1 DEF Taken
<1>14. /\ w[A.head] = h1[A.head] /\ w[A.tail] = h1[A.tail]
       /\ m > 0 => w[bf] = h1[bf] /\ w[bl] = h1[bl]
  <2>1. {A.head, A.tail, B.first, B.second} \cap {B.head, B.tail, A.first, A.second} = {}
    BY <1>4 DEF Nodes, Separate
  <2>2. m > 0 => bf \in D /\ bl \in D /\ bf \in {B.first, B.second} /\ bl \in {B.first, B.second}
    BY <1>6, <1>10 DEF Lengths
  <2> QED  BY <1>6, <1>13, <2>1, <2>2
<1>15. n > 1 => h1[af] = h[af] /\ h1[al] = h[al]
  <2>1. {A.first, A.second} \cap {A.head, A.tail, B.first, B.second} = {}
    BY <1>4 DEF Nodes, Separate
  <2>2. n > 1 => af \in D /\ al \in D /\ af \in {A.first, A.second} /\ al \in {A.first, A.second}
    BY <1>6, <1>10 DEF Lengths
  <2> QED  BY <1>11, <2>1, <2>2
<1>16. /\ DOMAIN w = D
       /\ \A x \in D : Hop(w, x, "next") = w[x].next /\ Hop(w, x, "prev") = w[x].prev
  BY <1>13 DEF Heaps, Hop, At
<1>17. /\ n > 0 => af \in D /\ al \in D
       /\ m > 0 => bf \in D /\ bl \in D
  BY <1>6, <1>10 DEF Lengths
<1>18. n = 0 \/ n > 0
  BY DEF Lengths
<1>19. m = 0 \/ m > 0
  BY DEF Lengths
<1>20. /\ w[A.head].prev = NULL /\ w[A.tail].next = NULL
       /\ NextIsValid(w, A.head) /\ PrevIsValid(w, A.tail)
  BY <1>6, <1>11, <1>14, <1>16, <1>17, <1>19 DEF NextIsValid, PrevIsValid
<1>21. /\ w[B.head].prev = NULL /\ w[B.tail].next = NULL
       /\ NextIsValid(w, B.head) /\ PrevIsValid(w, B.tail)
  BY <1>6, <1>13, <1>16, <1>17, <1>18 DEF NextIsValid, PrevIsValid
<1>22. ASSUME NEW c, Separate(c), NEW i \in Lengths, NEW q, BothShape(c, i, q), NEW s, NEW o,
              s = SaveFull(q, c, i, q[c.head].next, q[c.tail].prev),
              i > 1 => /\ Hop(w, c.first, "next") = q[c.first].next
                       /\ Hop(w, c.second, "prev") = q[c.second].prev
       PROVE  UnchangedFull(w, o, s)
  <2>1. /\ c.head \in DOMAIN q /\ c.tail \in DOMAIN q
        /\ i > 1 => c.first \in DOMAIN q /\ c.second \in DOMAIN q
        /\ i = 0 => q[c.head].next = c.tail /\ q[c.tail].prev = c.head
    BY <1>22 DEF BothShape, Lengths
  <2>2. CASE i = 0
    <3>1. /\ s.saved_size = 0
          /\ s.head = SaveNode(q, c.head) /\ s.tail = SaveNode(q, c.tail)
      BY <1>22, <2>2, FullIs
    <3> QED  BY <2>1, <2>2, <3>1 DEF UnchangedFull, SaveNode, Hop, At
  <2>3. CASE i = 1
    <3>1. /\ s.saved_size = 1
          /\ s.save_point = c.first /\ s.save_point_end = c.first
          /\ s.nodes[1] = SaveNode(q, c.first)
      BY <1>22, <2>3, FullIs
    <3> QED  BY <3>1 DEF UnchangedFull, SaveNode
  <2>4. CASE i > 1
    <3>1. /\ s.saved_size = 2 /\ s.save_point = c.first /\ s.save_point_end = c.second
          /\ s.nodes[1] = SaveNode(q, c.first) /\ s.nodes[2] = SaveNode(q, c.second)
      BY <1>22, <2>4, FullIs
    <3>2. Hop(q, c.first, "next") = q[c.first].next /\ Hop(q, c.second, "prev") = q[c.second].prev
      BY <2>1, <2>4 DEF Hop, At
    <3>3. NodesNextEqual(w, c.first, s.nodes[1]) /\ NodesPrevEqual(w, c.second, s.nodes[2])
      BY <1>22, <2>4, <3>1, <3>2 DEF NodesNextEqual, NodesPrevEqual, SaveNode
    <3> QED
      BY <3>1, <3>3 DEF UnchangedFull
  <2> QED  BY <2>2, <2>3, <2>4 DEF Lengths
<1>23. UnchangedFull(w, B, l.saved)
  <2>1. n > 1 => /\ Hop(w, A.first, "next") = g[A.first].next
                 /\ Hop(w, A.second, "prev") = g[A.second].prev
    <3>1. n > 1 => /\ af = A.first /\ al = A.second /\ A.first \in D /\ A.second \in D
                   /\ A.first \in DOMAIN g /\ A.second \in DOMAIN g
      BY <1>3, <1>6, <1>10 DEF BothShape, Lengths
    <3> QED  BY <1>5, <1>13, <1>15, <1>16, <3>1
  <2> QED  BY <1>1, <1>3, <1>4, <1>22, <2>1
<1>24. UnchangedFull(w, A, l.saved_b)
  <2>1. m > 1 => /\ Hop(w, B.first, "next") = k[B.first].next
                 /\ Hop(w, B.second, "prev") = k[B.second].prev
    <3>1. m > 1 => /\ bf = B.first /\ bl = B.second /\ B.first \in D /\ B.second \in D
                   /\ B.first \in DOMAIN k /\ B.second \in DOMAIN k
      BY <1>3, <1>6, <1>10 DEF BothShape, Lengths
    <3> QED  BY <1>5, <1>11, <1>14, <1>16, <1>19, <3>1 DEF Lengths
  <2> QED  BY <1>1, <1>3, <1>4, <1>22, <2>1
<1> QED
  BY <1>6, <1>13, <1>16, <1>20, <1>21, <1>23, <1>24 DEF D

LEMMA SwapContentsDecides ==
    ASSUME NEW h, Called(h), proof = "swap_contents"
    PROVE  AsWanted => SwapContentsAsserts
<1>1. Given("swap_contents", h, loc) /\ want.heap = SwapContents(h, A, B)
  BY DEF Called, Effect, Accessors
<1> DEFINE w == want.heap
<1>2. /\ \A c \in {A, B} : /\ w[c.head].prev = NULL /\ w[c.tail].next = NULL
                          /\ NextIsValid(w, c.head) /\ PrevIsValid(w, c.tail)
      /\ UnchangedFull(w, B, loc.saved) /\ UnchangedFull(w, A, loc.saved_b)
  BY <1>1, SwapLeaves
<1> QED
  BY <1>2 DEF AsWanted, SwapContentsAsserts

-----------------------------------------------------------------------------
(* The unit proofs together. *)

LEMMA EachDecides ==
    ASSUME NEW h, Called(h)
    PROVE  /\ Asserts /\ Noticed /\ proof # "swap_contents" => Correct
           /\ AsWanted => Asserts
<1>1. CASE proof = "begin"
  BY <1>1, BeginDecides DEF Asserts
<1>2. CASE proof = "rend"
  BY <1>2, RendDecides DEF Asserts
<1>3. CASE proof = "front"
  BY <1>3, FrontDecides DEF Asserts
<1>4. CASE proof = "end"
  BY <1>4, EndDecides DEF Asserts
<1>5. CASE proof = "rbegin"
  BY <1>5, RbeginDecides DEF Asserts
<1>6. CASE proof = "back"
  BY <1>6, BackDecides DEF Asserts
<1>7. CASE proof = "next"
  BY <1>7, NextDecides DEF Asserts
<1>8. CASE proof = "prev"
  BY <1>8, PrevDecides DEF Asserts
<1>9. CASE proof = "init"
  BY <1>9, InitDecides DEF Asserts
<1>10. CASE proof = "node_reset"
  BY <1>10, NodeResetDecides DEF Asserts
<1>11. CASE proof = "push_front"
  BY <1>11, PushFrontDecides DEF Asserts
<1>12. CASE proof = "push_back"
  BY <1>12, PushBackDecides DEF Asserts
<1>13. CASE proof = "pop_front"
  BY <1>13, PopFrontDecides DEF Asserts
<1>14. CASE proof = "pop_back"
  BY <1>14, PopBackDecides DEF Asserts
<1>15. CASE proof = "insert_after"
  <2>1. (InsertAfterAsserts => Correct) /\ (AsWanted => InsertAfterAsserts)
    BY <1>15, InsertsDecide
  <2> QED  BY <1>15, <2>1 DEF Asserts
<1>16. CASE proof = "insert_before"
  <2>1. (InsertBeforeAsserts => Correct) /\ (AsWanted => InsertBeforeAsserts)
    BY <1>16, InsertsDecide
  <2> QED  BY <1>16, <2>1 DEF Asserts
<1>17. CASE proof = "remove"
  BY <1>17, RemoveDecides DEF Asserts
<1>18. CASE proof = "swap_contents"
  BY <1>18, SwapContentsDecides DEF Asserts
<1>19. proof \in {"begin", "rend", "front", "end", "rbegin", "back", "next", "prev", "init",
                  "node_reset", "push_front", "push_back", "pop_front", "pop_back",
                  "insert_after", "insert_before", "remove", "swap_contents"}
  BY DEF Called, Given
<1> QED
  BY <1>1, <1>2, <1>3, <1>4, <1>5, <1>6, <1>7, <1>8, <1>9, <1>10, <1>11, <1>12, <1>13, <1>14,
     <1>15, <1>16, <1>17, <1>18, <1>19

RemovedFrom(D, h, m, pv, nx) == Remove(h, m) \in Heaps(D)

LEMMA RemovedIs ==
    ASSUME NEW D, NEW h \in Heaps(D), NEW m, NEW pv, NEW nx,
           m \in D, pv \in D, nx \in D, m \in Node, pv \in Node, nx \in Node,
           m # pv, m # nx, pv # nx, h[m].prev = pv, h[m].next = nx
    PROVE  RemovedFrom(D, h, m, pv, nx)
<1>1. m \in Ptr /\ pv \in Ptr /\ nx \in Ptr /\ NULL \in Ptr
  BY DEF Ptr
<1> QED
  BY <1>1 DEF RemovedFrom, Remove, NodeReset, Heaps, Links

(* What an operation leaves is a heap over the same nodes. *)
LEMMA EffectIsHeap ==
    ASSUME NEW p, NEW h, NEW l, Given(p, h, l)
    PROVE  Effect(p, h) \in Heaps(DOMAIN h)
<1> USE NodesApart DEF Apart
<1> DEFINE D == DOMAIN h
<1>1. h \in Heaps(D) /\ D \subseteq Node
  BY DEF Given
<1>2. NULL \in Ptr /\ Node \subseteq Ptr
  BY DEF Ptr
<1>3. CASE p \in Accessors
  <2>1. Effect(p, h) = h
    BY <1>3 DEF Effect, Accessors
  <2> QED  BY <1>1, <2>1
<1>4. CASE p = "init"
  <2>1. D = {A.head, A.tail}
    BY <1>4 DEF Given
  <2> QED  BY <1>1, <1>2, <1>4, <2>1 DEF Effect, Accessors, ListInit, Heaps, Links
<1>5. CASE p = "node_reset"
  <2>1. D = {Extra}
    BY <1>5 DEF Given
  <2> QED  BY <1>1, <1>2, <1>5, <2>1 DEF Effect, Accessors, NodeReset, Heaps, Links
<1>6. CASE p = "push_front"
  <2>1. Extra \in D /\ Walked(h, l, "next", h[A.head].next)
    BY <1>6 DEF Given
  <2>2. PICK x, y : Chain(h, "next", l.size, x, y)
    BY <2>1 DEF Walked
  <2> DEFINE nx == h[A.head].next
  <2>3. nx \in D /\ A.head \in D /\ nx # Extra /\ nx # A.head /\ h[nx].prev = A.head
    BY <1>1, <2>1, <2>2 DEF Walked, Lengths, Chain, Origin, End, Back
  <2>4. Effect(p, h) = InsertBefore(h, nx, Extra)
    BY <1>6 DEF Effect, Accessors, PushFront
  <2> HIDE DEF nx, D
  <2>5. InsertBefore(h, nx, Extra) \in Heaps(D)
    BY <1>1, <2>1, <2>3, InsertedBefore
  <2> QED  BY <2>4, <2>5 DEF D
<1>7. CASE p = "push_back"
  <2>1. Extra \in D /\ Walked(h, l, "prev", h[A.tail].prev)
    BY <1>7 DEF Given
  <2>2. PICK x, y : Chain(h, "prev", l.size, x, y)
    BY <2>1 DEF Walked
  <2> DEFINE pv == h[A.tail].prev
  <2>3. pv \in D /\ A.tail \in D /\ pv # Extra /\ pv # A.tail
    BY <1>1, <2>1, <2>2 DEF Walked, Lengths, Chain, Origin, End, Back
  <2>4. Effect(p, h) = InsertBefore(h, A.tail, Extra) /\ h[A.tail].prev = pv
    BY <1>7 DEF Effect, Accessors, PushBack
  <2> HIDE DEF pv, D
  <2>5. pv \in Node
    BY <1>1, <2>3
  <2>6. InsertBefore(h, A.tail, Extra) \in Heaps(D)
    <3>1. A.tail \in Node /\ Extra \in Node /\ A.tail \in D /\ Extra \in D
          /\ pv # Extra /\ pv # A.tail /\ Extra # A.tail
      BY <2>1, <2>3
    <3>2. \A c \in Node : c \in D /\ c # Extra /\ c # A.tail /\ h[A.tail].prev = c
                => InsertBefore(h, A.tail, Extra) \in Heaps(D)
      BY <1>1, <3>1, InsertedBefore
    <3> QED  BY <2>3, <2>4, <2>5, <3>1, <3>2
  <2> QED  BY <2>4, <2>6 DEF D
<1>8. CASE p = "pop_front"
  <2>1. Extra \notin D /\ l.size > 0 /\ Walked(h, l, "next", h[h[A.head].next].next)
    BY <1>8 DEF Given
  <2>2. PICK x, y : Chain(h, "next", l.size, x, y)
    BY <2>1 DEF Walked
  <2>3. l.size \in {1, 2, 3}
    BY <2>1 DEF Walked, Lengths
  <2> DEFINE nx == h[x].next
  <2>4. x \in D /\ nx \in D /\ A.head \in D /\ h[A.head].next = x /\ h[x].prev = A.head
        /\ nx # x /\ nx # A.head /\ x # A.head
    <3>1. CASE l.size = 1
      BY <2>1, <2>2, <3>1 DEF Chain, Origin, End, Back
    <3>2. CASE l.size > 1
      BY <2>1, <2>2, <3>2 DEF Chain, Origin, End, Back
    <3> QED  BY <2>3, <3>1, <3>2
  <2>5. Effect(p, h) = Remove(h, x) /\ h[x].next = nx
    BY <1>8, <2>4 DEF Effect, Accessors
  <2> HIDE DEF nx, D
  <2>6. x \in Node /\ nx \in Node /\ A.head \in Node
    BY <1>1, <2>4
  <2>7. RemovedFrom(D, h, x, A.head, nx)
    BY <1>1, <2>4, <2>5, <2>6, RemovedIs
  <2> QED  BY <2>5, <2>7 DEF D, RemovedFrom
<1>9. CASE p = "pop_back"
  <2>1. Extra \notin D /\ l.size > 0 /\ Walked(h, l, "prev", h[h[A.tail].prev].prev)
    BY <1>9 DEF Given
  <2>2. PICK x, y : Chain(h, "prev", l.size, x, y)
    BY <2>1 DEF Walked
  <2>3. l.size \in {1, 2, 3}
    BY <2>1 DEF Walked, Lengths
  <2> DEFINE pv == h[x].prev
  <2>4. x \in D /\ pv \in D /\ A.tail \in D /\ h[A.tail].prev = x /\ h[x].next = A.tail
        /\ pv # x /\ pv # A.tail /\ x # A.tail
    <3>1. CASE l.size = 1
      BY <2>1, <2>2, <3>1 DEF Chain, Origin, End, Back
    <3>2. CASE l.size > 1
      BY <2>1, <2>2, <3>2 DEF Chain, Origin, End, Back
    <3> QED  BY <2>3, <3>1, <3>2
  <2>5. Effect(p, h) = Remove(h, x) /\ h[x].prev = pv
    BY <1>9, <2>4 DEF Effect, Accessors
  <2> HIDE DEF pv, D
  <2>6. x \in Node /\ pv \in Node /\ A.tail \in Node
    BY <1>1, <2>4
  <2>7. RemovedFrom(D, h, x, pv, A.tail)
    BY <1>1, <2>4, <2>5, <2>6, RemovedIs
  <2> QED  BY <2>5, <2>7 DEF D, RemovedFrom
<1>10. CASE p \in {"insert_after", "insert_before"}
  <2>1. /\ Extra \in D /\ A.first \in D /\ A.second \in D
        /\ h[A.first].next = A.second /\ h[A.second].prev = A.first
    BY <1>10 DEF Given, Joined
  <2>2. Effect(p, h) \in {InsertAfter(h, A.first, Extra), InsertBefore(h, A.second, Extra)}
    BY <1>10 DEF Effect, Accessors
  <2> HIDE DEF D
  <2>3. InsertAfter(h, A.first, Extra) \in Heaps(D)
    BY <1>1, <2>1, InsertedAfter
  <2>4. InsertBefore(h, A.second, Extra) \in Heaps(D)
    BY <1>1, <2>1, InsertedBefore
  <2> QED  BY <2>2, <2>3, <2>4 DEF D
<1>11. CASE p = "remove"
  <2>1. /\ Extra \in D /\ A.first \in D /\ A.second \in D
        /\ h[Extra].next = A.second /\ h[Extra].prev = A.first
    BY <1>11 DEF Given
  <2>2. Effect(p, h) = Remove(h, Extra)
    BY <1>11 DEF Effect, Accessors
  <2> HIDE DEF D
  <2>3. RemovedFrom(D, h, Extra, A.first, A.second)
    BY <1>1, <2>1, RemovedIs
  <2> QED  BY <2>2, <2>3 DEF D, RemovedFrom
<1>12. CASE p = "swap_contents"
  <2>1. Effect(p, h) = SwapContents(h, A, B)
    BY <1>12 DEF Effect, Accessors
  <2> QED  BY <1>12, <2>1, SwapLeaves
<1> QED
  BY <1>3, <1>4, <1>5, <1>6, <1>7, <1>8, <1>9, <1>10, <1>11, <1>12 DEF Given, Accessors

-----------------------------------------------------------------------------
(* What the unit proofs set up is what their operations are given.         *)

(* A list built from the sentinel a walk along f begins at, and saved. *)
LEMMA BuiltIsWalked ==
    ASSUME NEW n \in Lengths, NEW f \in Fields, NEW h,
           h \in IF f = "next" THEN InitFromHead(A, n) ELSE InitFromTail(A, n),
           NEW start, NEW l,
           l = [NoLocals EXCEPT !.size = n, !.saved = SaveTowards(h, A, n, start, f)]
    PROVE  /\ Walked(h, l, f, start) /\ Extra \notin DOMAIN h
           /\ h \in Heaps(DOMAIN h) /\ DOMAIN h \subseteq Node
           /\ ~Empty(h, A) => l.size > 0
<1>1. Extra \notin DOMAIN h
  BY BuiltChain
<1>2. PICK x, y : Chain(h, f, n, x, y)
  <2>1. \E x, y : Chain(h, f, n, x, y)
    BY BuiltChain
  <2> QED  BY <2>1
<1>3. l.size = n /\ l.saved = SaveTowards(h, A, n, start, f)
  BY DEF NoLocals
<1>4. n \in {0, 1, 2, 3}
  BY DEF Lengths
<1>5. h \in Heaps(DOMAIN h) /\ DOMAIN h \subseteq Node
  BY <1>1, <1>2, <1>4, NodesApart DEF Chain, Apart, Origin, End
<1>6. n = 0 => Empty(h, A)
  BY <1>2, NodesApart DEF Chain, Apart, Origin, End, Empty, Back, Fields
<1> QED
  BY <1>1, <1>2, <1>3, <1>4, <1>5, <1>6 DEF Walked

(* ... with another node beside it. *)
Beside(h, k, l, f, start) ==
    /\ Walked(k, l, f, start) /\ Extra \in DOMAIN k
    /\ k \in Heaps(DOMAIN k) /\ DOMAIN k \subseteq Node
    /\ k[A.head] = h[A.head] /\ k[A.tail] = h[A.tail]

LEMMA BuiltBesideExtra ==
    ASSUME NEW n \in Lengths, NEW f \in Fields, NEW h,
           h \in IF f = "next" THEN InitFromHead(A, n) ELSE InitFromTail(A, n),
           NEW g \in Garbage, NEW k, k = With(h, Extra, g), NEW start, NEW l,
           l = [NoLocals EXCEPT !.size = n, !.saved = SaveTowards(k, A, n, start, f)]
    PROVE  Beside(h, k, l, f, start)
<1> USE NodesApart DEF Apart
<1>1. Extra \notin DOMAIN h
  BY BuiltChain
<1>2. PICK x, y : Chain(h, f, n, x, y)
  <2>1. \E x, y : Chain(h, f, n, x, y)
    BY BuiltChain
  <2> QED  BY <2>1
<1>3. Extra \in DOMAIN k /\ Chain(k, f, n, x, y)
  BY <1>1, <1>2, WithExtra
<1>4. l.size = n /\ l.saved = SaveTowards(k, A, n, start, f)
  BY DEF NoLocals
<1>5. n \in {0, 1, 2, 3}
  BY DEF Lengths
<1>6. k \in Heaps(DOMAIN k) /\ DOMAIN k \subseteq Node
  BY <1>3, <1>5 DEF Chain, Origin, End
<1>7. A.head \in DOMAIN h /\ A.tail \in DOMAIN h
  BY <1>2, <1>5 DEF Chain, Origin, End
<1>8. k[A.head] = h[A.head] /\ k[A.tail] = h[A.tail]
  BY <1>7 DEF With
<1> QED
  BY <1>3, <1>4, <1>6, <1>8 DEF Walked, Beside

(* Two nodes and the links between them. *)
LEMMA PairIsJoined ==
    ASSUME NEW h \in PairOf(A.first, A.second)
    PROVE  /\ h \in Heaps(DOMAIN h) /\ DOMAIN h = {A.first, A.second}
           /\ Joined(h) /\ Extra \notin DOMAIN h /\ DOMAIN h \subseteq Node
<1>1. PICK p \in NdPtr, q \in NdPtr : h = Pair(A.first, A.second, p, q)
  BY DEF PairOf
<1> DEFINE k == [n \in {A.first, A.second} |-> IF n = A.first THEN [next |-> NULL, prev |-> p]
                                               ELSE [next |-> q, prev |-> NULL]]
<1>2. h = AttachDirectly(k, A.first, A.second)
  BY <1>1 DEF Pair
<1> USE NodesApart DEF Apart
<1> DEFINE D == {A.first, A.second}
<1>3. p \in Ptr /\ q \in Ptr /\ NULL \in Ptr
  BY NdPtrIsPtr DEF Ptr
<1>4. k \in Heaps(D)
  BY <1>3 DEF Heaps, Links
<1>5. A.first \in D \cap Node /\ A.second \in D \cap Node
  OBVIOUS
<1> HIDE DEF k, D
<1>6. h \in Heaps(D)
  BY <1>2, <1>4, <1>5, AttachDirectlyType
<1>7. h[A.first].next = A.second /\ h[A.second].prev = A.first
  <2>1. k[A.first] \in Links /\ k[A.second] \in Links /\ DOMAIN k = D
    BY <1>4, <1>5 DEF Heaps
  <2> QED  BY <1>2, <1>5, <2>1 DEF AttachDirectly, AttachIndirectly, Links
<1>8. DOMAIN h = {A.first, A.second}
  BY <1>6 DEF Heaps, D
<1> QED
  BY <1>6, <1>7, <1>8 DEF Joined, D

(* ... and another node. *)
LEMMA PairBesideExtra ==
    ASSUME NEW h \in PairOf(A.first, A.second), NEW g \in Garbage, NEW k, k = With(h, Extra, g)
    PROVE  /\ k \in Heaps(DOMAIN k) /\ DOMAIN k \subseteq Node
           /\ Extra \in DOMAIN k /\ Joined(k)
           /\ k[A.first] = h[A.first] /\ k[A.second] = h[A.second]
<1> USE NodesApart DEF Apart
<1>1. /\ h \in Heaps(DOMAIN h) /\ DOMAIN h = {A.first, A.second}
      /\ Joined(h) /\ Extra \notin DOMAIN h
  BY PairIsJoined
<1>2. g \in Links
  BY NdPtrIsPtr DEF Garbage, Links
<1>3. DOMAIN k = {A.first, A.second, Extra}
  BY <1>1 DEF With
<1>4. k[A.first] = h[A.first] /\ k[A.second] = h[A.second]
  BY <1>1 DEF With
<1>5. k \in Heaps(DOMAIN k)
  BY <1>1, <1>2 DEF With, Heaps
<1> QED
  BY <1>1, <1>3, <1>4, <1>5 DEF Joined

(* The heap h over D, with a node m added to it. *)
Added(D, h, m, g, k) ==
    /\ k \in Heaps(D \cup {m}) /\ k[m] = g
    /\ \A c \in D : c # m => k[c] = h[c]

LEMMA WithAdds ==
    ASSUME NEW D, NEW h \in Heaps(D), NEW m, NEW g \in Links, NEW k, k = With(h, m, g)
    PROVE  Added(D, h, m, g, k)
BY DEF With, Heaps, Added

(* A unit proof reaches its call with what its operation is given. *)
Set(p) == \E h, l : Reach(p, h, l) /\ Given(p, h, l)

LEMMA FromHeadSets ==
    ASSUME \/ BeginSetup \/ RendSetup \/ FrontSetup \/ PopFrontSetup \/ PushFrontSetup
    PROVE  \E p : Set(p)
<1> DEFINE saving(h, n, start) == [NoLocals EXCEPT !.size = n, !.saved = SaveTowards(h, A, n, start, "next")]
<1>1. \A n \in Lengths : \A h \in InitFromHead(A, n) : \A start :
          LET l == saving(h, n, start)
          IN  /\ Walked(h, l, "next", start) /\ Extra \notin DOMAIN h
              /\ h \in Heaps(DOMAIN h) /\ DOMAIN h \subseteq Node
              /\ ~Empty(h, A) => l.size > 0
  BY BuiltIsWalked DEF Fields
<1>2. \A p, h, n, start : FromHead(p, h, n, start) => Reach(p, h, saving(h, n, start))
  BY DEF FromHead, SaveToTail
<1> HIDE DEF saving
<1>3. CASE BeginSetup
  <2>1. PICK n \in Lengths : \E h \in InitFromHead(A, n) : FromHead("begin", h, n, A.head)
    BY <1>3 DEF BeginSetup
  <2>2. PICK h \in InitFromHead(A, n) : FromHead("begin", h, n, A.head)
    BY <2>1
  <2>3. Given("begin", h, saving(h, n, A.head))
    BY <1>1 DEF Given
  <2> QED  BY <1>2, <2>2, <2>3 DEF Set
<1>4. CASE RendSetup
  <2>1. PICK n \in Lengths : \E h \in InitFromHead(A, n) : FromHead("rend", h, n, A.head)
    BY <1>4 DEF RendSetup
  <2>2. PICK h \in InitFromHead(A, n) : FromHead("rend", h, n, A.head)
    BY <2>1
  <2>3. Given("rend", h, saving(h, n, A.head))
    BY <1>1 DEF Given
  <2> QED  BY <1>2, <2>2, <2>3 DEF Set
<1>5. CASE FrontSetup
  <2>1. PICK n \in Lengths : \E h \in InitFromHead(A, n) :
            ~Empty(h, A) /\ FromHead("front", h, n, A.head)
    BY <1>5 DEF FrontSetup
  <2>2. PICK h \in InitFromHead(A, n) : ~Empty(h, A) /\ FromHead("front", h, n, A.head)
    BY <2>1
  <2>3. Given("front", h, saving(h, n, A.head))
    BY <1>1, <2>2 DEF Given
  <2> QED  BY <1>2, <2>2, <2>3 DEF Set
<1>6. CASE PopFrontSetup
  <2>1. PICK n \in Lengths : \E h \in InitFromHead(A, n) :
            ~Empty(h, A) /\ FromHead("pop_front", h, n, h[h[A.head].next].next)
    BY <1>6 DEF PopFrontSetup
  <2>2. PICK h \in InitFromHead(A, n) :
            ~Empty(h, A) /\ FromHead("pop_front", h, n, h[h[A.head].next].next)
    BY <2>1
  <2>3. Given("pop_front", h, saving(h, n, h[h[A.head].next].next))
    BY <1>1, <2>2 DEF Given
  <2> QED  BY <1>2, <2>2, <2>3 DEF Set
<1>7. CASE PushFrontSetup
  <2>1. PICK n \in Lengths, g \in Garbage : \E h \in InitFromHead(A, n) :
            FromHead("push_front", With(h, Extra, g), n, h[A.head].next)
    BY <1>7 DEF PushFrontSetup
  <2>2. PICK h \in InitFromHead(A, n) :
            FromHead("push_front", With(h, Extra, g), n, h[A.head].next)
    BY <2>1
  <2> DEFINE k == With(h, Extra, g)
             start == h[A.head].next
             l == saving(k, n, start)
  <2>3. Reach("push_front", k, l)
    BY <1>2, <2>2
  <2>4. l = [NoLocals EXCEPT !.size = n, !.saved = SaveTowards(k, A, n, start, "next")]
    BY DEF saving
  <2>5. k = With(h, Extra, g)
    OBVIOUS
  <2> HIDE DEF k, l
  <2>6. Beside(h, k, l, "next", start)
    BY <2>4, <2>5, BuiltBesideExtra DEF Fields
  <2>7. Given("push_front", k, l)
    BY <2>6 DEF Given, Beside
  <2> QED  BY <2>3, <2>7 DEF Set
<1> QED
  BY <1>3, <1>4, <1>5, <1>6, <1>7

LEMMA FromTailSets ==
    ASSUME \/ EndSetup \/ RbeginSetup \/ BackSetup \/ PopBackSetup \/ PushBackSetup
    PROVE  \E p : Set(p)
<1> DEFINE saving(h, n, start) == [NoLocals EXCEPT !.size = n, !.saved = SaveTowards(h, A, n, start, "prev")]
<1>1. \A n \in Lengths : \A h \in InitFromTail(A, n) : \A start :
          LET l == saving(h, n, start)
          IN  /\ Walked(h, l, "prev", start) /\ Extra \notin DOMAIN h
              /\ h \in Heaps(DOMAIN h) /\ DOMAIN h \subseteq Node
              /\ ~Empty(h, A) => l.size > 0
  BY BuiltIsWalked DEF Fields
<1>2. \A p, h, n, start : FromTail(p, h, n, start) => Reach(p, h, saving(h, n, start))
  BY DEF FromTail, SaveToHead
<1> HIDE DEF saving
<1>3. CASE EndSetup
  <2>1. PICK n \in Lengths : \E h \in InitFromTail(A, n) : FromTail("end", h, n, A.tail)
    BY <1>3 DEF EndSetup
  <2>2. PICK h \in InitFromTail(A, n) : FromTail("end", h, n, A.tail)
    BY <2>1
  <2>3. Given("end", h, saving(h, n, A.tail))
    BY <1>1 DEF Given
  <2> QED  BY <1>2, <2>2, <2>3 DEF Set
<1>4. CASE RbeginSetup
  <2>1. PICK n \in Lengths : \E h \in InitFromTail(A, n) : FromTail("rbegin", h, n, A.tail)
    BY <1>4 DEF RbeginSetup
  <2>2. PICK h \in InitFromTail(A, n) : FromTail("rbegin", h, n, A.tail)
    BY <2>1
  <2>3. Given("rbegin", h, saving(h, n, A.tail))
    BY <1>1 DEF Given
  <2> QED  BY <1>2, <2>2, <2>3 DEF Set
<1>5. CASE BackSetup
  <2>1. PICK n \in Lengths : \E h \in InitFromTail(A, n) :
            ~Empty(h, A) /\ FromTail("back", h, n, A.tail)
    BY <1>5 DEF BackSetup
  <2>2. PICK h \in InitFromTail(A, n) : ~Empty(h, A) /\ FromTail("back", h, n, A.tail)
    BY <2>1
  <2>3. Given("back", h, saving(h, n, A.tail))
    BY <1>1, <2>2 DEF Given
  <2> QED  BY <1>2, <2>2, <2>3 DEF Set
<1>6. CASE PopBackSetup
  <2>1. PICK n \in Lengths : \E h \in InitFromTail(A, n) :
            ~Empty(h, A) /\ FromTail("pop_back", h, n, h[h[A.tail].prev].prev)
    BY <1>6 DEF PopBackSetup
  <2>2. PICK h \in InitFromTail(A, n) :
            ~Empty(h, A) /\ FromTail("pop_back", h, n, h[h[A.tail].prev].prev)
    BY <2>1
  <2>3. Given("pop_back", h, saving(h, n, h[h[A.tail].prev].prev))
    BY <1>1, <2>2 DEF Given
  <2> QED  BY <1>2, <2>2, <2>3 DEF Set
<1>7. CASE PushBackSetup
  <2>1. PICK n \in Lengths, g \in Garbage : \E h \in InitFromTail(A, n) :
            FromTail("push_back", With(h, Extra, g), n, h[A.tail].prev)
    BY <1>7 DEF PushBackSetup
  <2>2. PICK h \in InitFromTail(A, n) :
            FromTail("push_back", With(h, Extra, g), n, h[A.tail].prev)
    BY <2>1
  <2> DEFINE k == With(h, Extra, g)
             start == h[A.tail].prev
             l == saving(k, n, start)
  <2>3. Reach("push_back", k, l)
    BY <1>2, <2>2
  <2>4. l = [NoLocals EXCEPT !.size = n, !.saved = SaveTowards(k, A, n, start, "prev")]
    BY DEF saving
  <2>5. k = With(h, Extra, g)
    OBVIOUS
  <2> HIDE DEF k, l
  <2>6. Beside(h, k, l, "prev", start)
    BY <2>4, <2>5, BuiltBesideExtra DEF Fields
  <2>7. Given("push_back", k, l)
    BY <2>6 DEF Given, Beside
  <2> QED  BY <2>3, <2>7 DEF Set
<1> QED
  BY <1>3, <1>4, <1>5, <1>6, <1>7

LEMMA OthersSet ==
    ASSUME \/ NextSetup \/ PrevSetup \/ InitSetup \/ NodeResetSetup
           \/ InsertAfterSetup \/ InsertBeforeSetup
    PROVE  \E p : Set(p)
<1>1. \A g \in Garbage : g \in Links
  BY NdPtrIsPtr DEF Garbage, Links
<1>2. CASE NextSetup
  <2>1. PICK h \in PairOf(A.first, A.second) : Reach("next", h, NoLocals)
    BY <1>2 DEF NextSetup
  <2>2. Given("next", h, NoLocals)
    BY PairIsJoined DEF Given
  <2> QED  BY <2>1, <2>2 DEF Set
<1>3. CASE PrevSetup
  <2>1. PICK h \in PairOf(A.first, A.second) : Reach("prev", h, NoLocals)
    BY <1>3 DEF PrevSetup
  <2>2. Given("prev", h, NoLocals)
    BY PairIsJoined DEF Given
  <2> QED  BY <2>1, <2>2 DEF Set
<1>4. CASE InitSetup
  <2>1. PICK g \in Garbage, k \in Garbage :
            Reach("init", With(With(<<>>, A.head, g), A.tail, k), NoLocals)
    BY <1>4 DEF InitSetup
  <2> DEFINE h0 == With(<<>>, A.head, g)
             h == With(h0, A.tail, k)
  <2>2. h0 = [x \in {A.head} |-> g]
    BY DEF With
  <2>3. h0 \in Heaps({A.head})
    BY <1>1, <2>2 DEF Heaps
  <2> HIDE DEF h0
  <2>4. h \in Heaps({A.head} \cup {A.tail})
    BY <1>1, <2>3 DEF With, Heaps
  <2>5. Reach("init", h, NoLocals)
    BY <2>1 DEF h0
  <2> HIDE DEF h
  <2>6. h \in Heaps(DOMAIN h) /\ DOMAIN h = {A.head, A.tail}
    BY <2>4 DEF Heaps
  <2>7. Given("init", h, NoLocals)
    BY <2>6, NodesApart DEF Given, Apart
  <2> QED  BY <2>5, <2>7 DEF Set
<1>5. CASE NodeResetSetup
  <2>1. PICK g \in Garbage : Reach("node_reset", With(<<>>, Extra, g), NoLocals)
    BY <1>5 DEF NodeResetSetup
  <2> DEFINE h == With(<<>>, Extra, g)
  <2>2. h = [x \in {Extra} |-> g]
    BY DEF With
  <2>3. h \in Heaps({Extra})
    BY <1>1, <2>2 DEF Heaps
  <2> HIDE DEF h
  <2>4. h \in Heaps(DOMAIN h) /\ DOMAIN h = {Extra}
    BY <2>3 DEF Heaps
  <2>5. Given("node_reset", h, NoLocals)
    BY <2>4, NodesApart DEF Given, Apart
  <2> QED  BY <2>1, <2>5 DEF Set, h
<1> DEFINE outer(h) == [NoLocals EXCEPT !.p = h[A.first].prev, !.q = h[A.second].next]
<1>6. \A h : outer(h).p = h[A.first].prev /\ outer(h).q = h[A.second].next
  BY DEF NoLocals
<1> HIDE DEF outer
<1>7. CASE InsertAfterSetup
  <2>1. PICK h \in PairOf(A.first, A.second), g \in Garbage :
            Reach("insert_after", With(h, Extra, g), outer(h))
    BY <1>7 DEF InsertAfterSetup, outer
  <2>2. Given("insert_after", With(h, Extra, g), outer(h))
    <3> DEFINE k == With(h, Extra, g)
    <3>1. /\ k \in Heaps(DOMAIN k) /\ DOMAIN k \subseteq Node
          /\ Extra \in DOMAIN k /\ Joined(k)
          /\ k[A.first] = h[A.first] /\ k[A.second] = h[A.second]
      BY PairBesideExtra
    <3> HIDE DEF k
    <3>2. Given("insert_after", k, outer(h))
      BY <1>6, <3>1 DEF Given
    <3> QED  BY <3>2 DEF k
  <2> QED  BY <2>1, <2>2 DEF Set
<1>8. CASE InsertBeforeSetup
  <2>1. PICK h \in PairOf(A.first, A.second), g \in Garbage :
            Reach("insert_before", With(h, Extra, g), outer(h))
    BY <1>8 DEF InsertBeforeSetup, outer
  <2>2. Given("insert_before", With(h, Extra, g), outer(h))
    <3> DEFINE k == With(h, Extra, g)
    <3>1. /\ k \in Heaps(DOMAIN k) /\ DOMAIN k \subseteq Node
          /\ Extra \in DOMAIN k /\ Joined(k)
          /\ k[A.first] = h[A.first] /\ k[A.second] = h[A.second]
      BY PairBesideExtra
    <3> HIDE DEF k
    <3>2. Given("insert_before", k, outer(h))
      BY <1>6, <3>1 DEF Given
    <3> QED  BY <3>2 DEF k
  <2> QED  BY <2>1, <2>2 DEF Set
<1> QED
  BY <1>2, <1>3, <1>4, <1>5, <1>7, <1>8

LEMMA RemoveSets ==
    ASSUME RemoveSetup
    PROVE  Set("remove")
<1> USE NodesApart DEF Apart
<1> DEFINE between(p, q) == With(With(Blank({Extra}), A.first, [next |-> NULL, prev |-> p]),
                                 A.second, [next |-> q, prev |-> NULL])
           joined(p, q) == AttachDirectly(AttachDirectly(between(p, q), A.first, Extra),
                                          Extra, A.second)
           outer(p, q) == [NoLocals EXCEPT !.p = p, !.q = q]
<1>1. PICK p \in NdPtr, q \in NdPtr : Reach("remove", joined(p, q), outer(p, q))
  BY DEF RemoveSetup
<1> DEFINE D == {Extra} \cup {A.first} \cup {A.second}
           h0 == With(Blank({Extra}), A.first, [next |-> NULL, prev |-> p])
           h1 == between(p, q)
           h2 == AttachDirectly(h1, A.first, Extra)
           h == joined(p, q)
           l == outer(p, q)
<1>2. l.p = p /\ l.q = q
  BY DEF NoLocals
<1>3. p \in Ptr /\ q \in Ptr /\ NULL \in Ptr /\ Node \subseteq Ptr
  BY NdPtrIsPtr DEF Ptr
<1>4. [next |-> NULL, prev |-> p] \in Links /\ [next |-> q, prev |-> NULL] \in Links
  BY <1>3 DEF Links
<1>5. h0 \in Heaps({Extra} \cup {A.first}) /\ h0[A.first] = [next |-> NULL, prev |-> p]
      /\ h0[Extra] = [next |-> NULL, prev |-> NULL]
  <2> DEFINE b == Blank({Extra})
             g == [next |-> NULL, prev |-> p]
  <2>1. b \in Heaps({Extra}) /\ b[Extra] = [next |-> NULL, prev |-> NULL]
    BY BlankType DEF Blank
  <2>2. h0 = With(b, A.first, g) /\ g \in Links
    BY <1>4
  <2> HIDE DEF b, g, h0
  <2>3. Added({Extra}, b, A.first, g, h0)
    BY <2>1, <2>2, WithAdds
  <2> QED  BY <2>1, <2>3 DEF g, Added
<1> HIDE DEF h0
<1>6. /\ h1 \in Heaps(D) /\ h1[A.first] = [next |-> NULL, prev |-> p]
      /\ h1[Extra] = [next |-> NULL, prev |-> NULL]
      /\ h1[A.second] = [next |-> q, prev |-> NULL]
  <2>1. h1 = With(h0, A.second, [next |-> q, prev |-> NULL])
    BY DEF h0
  <2> DEFINE g == [next |-> q, prev |-> NULL]
             E == {Extra} \cup {A.first}
  <2>2. h1 = With(h0, A.second, g) /\ g \in Links /\ h0 \in Heaps(E)
    BY <1>4, <1>5, <2>1
  <2> HIDE DEF h1, g, E
  <2>3. Added(E, h0, A.second, g, h1)
    BY <2>2, WithAdds
  <2> QED  BY <1>5, <2>3 DEF g, E, Added
<1> HIDE DEF h1, D
<1>7. A.first \in D \cap Node /\ Extra \in D \cap Node /\ A.second \in D \cap Node
  BY DEF D
<1>8. h2 \in Heaps(D)
  BY <1>6, <1>7, AttachDirectlyType
<1>9. /\ h2[A.first] = [next |-> Extra, prev |-> p]
      /\ h2[Extra] = [next |-> NULL, prev |-> A.first]
      /\ h2[A.second] = [next |-> q, prev |-> NULL]
  BY <1>6, <1>7 DEF AttachDirectly, AttachIndirectly, Heaps
<1> HIDE DEF h2
<1>10. h = AttachDirectly(h2, Extra, A.second)
  BY DEF h2, h1
<1> HIDE DEF h, l
<1>11. h \in Heaps(D)
  BY <1>7, <1>8, <1>10, AttachDirectlyType
<1>12. /\ h[A.first] = [next |-> Extra, prev |-> p]
       /\ h[Extra] = [next |-> A.second, prev |-> A.first]
       /\ h[A.second] = [next |-> q, prev |-> Extra]
  BY <1>7, <1>8, <1>9, <1>10 DEF AttachDirectly, AttachIndirectly, Heaps
<1>13. h \in Heaps(DOMAIN h) /\ DOMAIN h = {A.first, Extra, A.second}
  BY <1>11 DEF Heaps, D
<1>14. Given("remove", h, l)
  BY <1>2, <1>12, <1>13 DEF Given
<1> QED
  BY <1>1, <1>14 DEF Set, h, l

LEMMA SwapContentsSets ==
    ASSUME SwapContentsSetup
    PROVE  Set("swap_contents")
<1> DEFINE both(g, k) == [x \in DOMAIN g \cup DOMAIN k |-> IF x \in DOMAIN g THEN g[x] ELSE k[x]]
           saving(g, n, k, m) == [NoLocals EXCEPT
                  !.saved = SaveFull(g, A, n, g[A.head].next, g[A.tail].prev),
                  !.saved_b = SaveFull(k, B, m, k[B.head].next, k[B.tail].prev)]
<1>1. PICK n \in Lengths, m \in Lengths : \E g \in InitBoth(A, n), k \in InitBoth(B, m) :
          Reach("swap_contents", both(g, k), saving(g, n, k, m))
  BY DEF SwapContentsSetup
<1>2. PICK g \in InitBoth(A, n), k \in InitBoth(B, m) :
          Reach("swap_contents", both(g, k), saving(g, n, k, m))
  BY <1>1
<1> DEFINE h == both(g, k)
           l == saving(g, n, k, m)
<1>3. /\ l.saved = SaveFull(g, A, n, g[A.head].next, g[A.tail].prev)
      /\ l.saved_b = SaveFull(k, B, m, k[B.head].next, k[B.tail].prev)
  BY DEF NoLocals
<1>4. Swapped(h, l)
  <2> HIDE DEF l
  <2> QED  BY <1>3 DEF Swapped
<1>5. BothShape(A, n, g) /\ BothShape(B, m, k)
  BY BothIs, ListsSeparate
<1>6. /\ g \in Heaps(DOMAIN g) /\ DOMAIN g \subseteq Node
      /\ k \in Heaps(DOMAIN k) /\ DOMAIN k \subseteq Node
  BY <1>5, NodesApart DEF BothShape, Apart, Lengths, Heaps
<1>7. h \in Heaps(DOMAIN h) /\ DOMAIN h \subseteq Node
  BY <1>6 DEF Heaps
<1> HIDE DEF h, l
<1>8. Given("swap_contents", h, l)
  BY <1>4, <1>7 DEF Given
<1> QED
  BY <1>2, <1>8 DEF Set, h, l

LEMMA SetupSets == Setup => \E p : Set(p)
BY FromHeadSets, FromTailSets, OthersSet, RemoveSets, SwapContentsSets DEF Setup

-----------------------------------------------------------------------------
(* The inductive invariant: what the operation was given, what it and the   *)
(* faults have left of it, and what the verdict means.                     *)
ListInv ==
    /\ pc \in {"setup", "call", "check", "passed", "failed"}
    /\ faults \in 0 .. MaxFaults
    /\ pc \in {"setup", "call"} => faults = 0
    /\ pc = "call" => Given(proof, heap, loc)
    /\ pc = "check" => \E h : Called(h)
    /\ pc = "passed" /\ Noticed /\ proof # "swap_contents" => Correct
    /\ pc = "failed" => ~AsWanted

(* A link written over: a heap still, with the other links as they were. *)
Overwritten(D, h, n, f, p, k) ==
    /\ k \in Heaps(D)
    /\ \A a, b \in D : a # b => k[a].next = h[a].next \/ k[b].prev = h[b].prev

LEMMA WriteOverwrites ==
    ASSUME NEW D, NEW h \in Heaps(D), NEW n, NEW f \in Fields, NEW p \in Ptr, NEW k,
           k = [h EXCEPT ![n][f] = p]
    PROVE  Overwritten(D, h, n, f, p, k)
<1>1. \A a \in D : h[a] \in Links
  BY DEF Heaps
<1>2. CASE f = "next"
  BY <1>1, <1>2 DEF Heaps, Links, Overwritten
<1>3. CASE f = "prev"
  BY <1>1, <1>3 DEF Heaps, Links, Overwritten
<1> QED
  BY <1>2, <1>3 DEF Fields

LEMMA ListInvIsKept == ListInv /\ [Next]_vars => ListInv'
<1> USE MaxFaultsIsNat
<1> SUFFICES ASSUME ListInv, [Next]_vars PROVE ListInv'
  OBVIOUS
<1>1. CASE Setup
  <2>1. PICK p : Set(p)
    BY <1>1, SetupSets
  <2>2. PICK h, l : Reach(p, h, l) /\ Given(p, h, l)
    BY <2>1 DEF Set
  <2>3. proof' = p /\ heap' = h /\ loc' = l /\ pc' = "call" /\ faults' = faults /\ pc = "setup"
    BY <1>1, <2>2 DEF Reach, Setup
  <2>4. Given(proof', heap', loc')
    BY <2>2, <2>3
  <2>5. Given(proof, heap, loc)'
    BY <2>4 DEF Given, Walked, Joined, Swapped, Chain
  <2> QED  BY <2>3, <2>5 DEF ListInv
<1>2. CASE Call
  <2>1. Given(proof, heap, loc) /\ faults = 0
    BY <1>2 DEF Call, ListInv
  <2>2. PICK h : h = heap
    OBVIOUS
  <2>3. Effect(proof, h) \in Heaps(DOMAIN h)
    BY <2>1, <2>2, EffectIsHeap
  <2>4. /\ proof' = proof /\ loc' = loc /\ faults' = 0 /\ pc' = "check"
        /\ heap' = Effect(proof, h) /\ ret' = Result(proof, h)
        /\ want' = [heap |-> Effect(proof, h), ret |-> Result(proof, h)]
    BY <1>2, <2>1, <2>2 DEF Call
  <2>5. proof \in {"next", "prev"} => heap'[A.first].next = A.second
    BY <2>1, <2>2, <2>4 DEF Effect, Accessors, Given, Joined
  <2>6. Called(h)'
    BY <2>1, <2>2, <2>3, <2>4, <2>5 DEF Called
  <2> QED  BY <2>4, <2>6 DEF ListInv
<1>3. CASE SkippedCall
  <2>1. Given(proof, heap, loc) /\ faults = 0
    BY <1>3 DEF SkippedCall, ListInv
  <2>2. PICK h : h = heap
    OBVIOUS
  <2>3. /\ proof' = proof /\ loc' = loc /\ faults' = 1 /\ pc' = "check"
        /\ heap' = h /\ ret' = Result(proof, h)
        /\ want' = [heap |-> Effect(proof, h), ret |-> Result(proof, h)]
    BY <1>3, <2>1, <2>2 DEF SkippedCall
  <2>6. 1 \in 0 .. MaxFaults
    BY <1>3, <2>1 DEF SkippedCall
  <2>4. h \in Heaps(DOMAIN h) /\ (proof \in {"next", "prev"} => h[A.first].next = A.second)
    BY <2>1, <2>2 DEF Given, Joined
  <2>5. Called(h)'
    BY <2>1, <2>2, <2>3, <2>4 DEF Called
  <2> QED  BY <2>3, <2>5, <2>6 DEF ListInv
<1>4. ASSUME NEW n \in DOMAIN heap, NEW f \in {"next", "prev"}, NEW p \in Ptr, StrayWrite(n, f, p)
      PROVE  ListInv'
  <2>1. PICK h : Called(h)
    BY <1>4 DEF StrayWrite, ListInv
  <2>2. /\ heap' = [heap EXCEPT ![n][f] = p] /\ faults' = faults + 1
        /\ UNCHANGED <<proof, pc, loc, ret, want>> /\ pc = "check"
    BY <1>4 DEF StrayWrite
  <2>3. heap \in Heaps(DOMAIN h) /\ faults \in Nat
    BY <2>1 DEF Called
  <2>4. /\ heap' \in Heaps(DOMAIN h)
        /\ \A a, b \in DOMAIN h : a # b => heap'[a].next = heap[a].next \/ heap'[b].prev = heap[b].prev
    <3>1. Overwritten(DOMAIN h, heap, n, f, p, heap')
      BY <2>2, <2>3, WriteOverwrites DEF Fields
    <3> QED  BY <3>1 DEF Overwritten
  <2>5. proof \in {"next", "prev"} /\ faults = 0 =>
            heap'[A.first].next = A.second \/ heap'[A.second].prev = A.first
    <3> SUFFICES ASSUME proof \in {"next", "prev"}, faults = 0
                 PROVE  heap'[A.first].next = A.second \/ heap'[A.second].prev = A.first
      OBVIOUS
    <3>1. heap = h /\ Joined(h) /\ Extra \notin DOMAIN h
      BY <2>1 DEF Called, Given, Effect, Accessors
    <3>2. A.first \in DOMAIN h /\ A.second \in DOMAIN h /\ A.first # A.second
      BY <3>1, NodesApart DEF Joined, Apart
    <3> QED  BY <2>4, <3>1, <3>2 DEF Joined
  <2>6. faults' \in Nat /\ faults' # 0 /\ (faults' <= 1 => faults = 0)
    BY <2>2, <2>3
  <2>7. Called(h)'
    BY <2>1, <2>2, <2>4, <2>5, <2>6 DEF Called
  <2>8. faults' \in 0 .. MaxFaults
    BY <1>4, <2>3 DEF StrayWrite
  <2> QED  BY <2>2, <2>7, <2>8 DEF ListInv
<1>5. ASSUME NEW p \in Ptr, WrongReturn(p)
      PROVE  ListInv'
  <2>1. PICK h : Called(h)
    BY <1>5 DEF WrongReturn, ListInv
  <2>2. /\ ret' = p /\ faults' = faults + 1 /\ proof \in Returning
        /\ UNCHANGED <<proof, pc, heap, loc, want>> /\ pc = "check"
    BY <1>5 DEF WrongReturn, Returning
  <2>3. faults \in Nat
    BY <2>1 DEF Called
  <2>4. faults' \in Nat /\ faults' # 0 /\ (faults' <= 1 => faults <= 1)
    BY <2>2, <2>3
  <2>5. Called(h)'
    BY <2>1, <2>2, <2>4 DEF Called
  <2>6. faults' \in 0 .. MaxFaults
    BY <1>5, <2>3 DEF WrongReturn
  <2> QED  BY <2>2, <2>5, <2>6 DEF ListInv
<1>6. CASE Check
  <2>1. PICK h : Called(h)
    BY <1>6 DEF Check, ListInv
  <2>2. /\ Asserts /\ Noticed /\ proof # "swap_contents" => Correct
        /\ AsWanted => Asserts
    BY <2>1, EachDecides
  <2>3. /\ pc' = IF Asserts THEN "passed" ELSE "failed"
        /\ UNCHANGED <<proof, heap, loc, ret, want, faults>>
    BY <1>6 DEF Check
  <2>4. (Noticed' <=> Noticed) /\ (Correct' <=> Correct) /\ (AsWanted' <=> AsWanted)
    BY <2>3 DEF Noticed, Correct, AsWanted, SameButUnwatched, Unwatched
  <2> QED  BY <2>2, <2>3, <2>4 DEF ListInv
<1>7. CASE UNCHANGED vars
  <2>1. UNCHANGED <<proof, pc, heap, loc, ret, want, faults>>
    BY <1>7 DEF vars
  <2>2. \A h : Called(h)' <=> Called(h)
    BY <2>1 DEF Called
  <2>3. (Noticed' <=> Noticed) /\ (Correct' <=> Correct) /\ (AsWanted' <=> AsWanted)
    BY <2>1 DEF Noticed, Correct, AsWanted, SameButUnwatched, Unwatched
  <2> QED  BY <2>1, <2>2, <2>3 DEF ListInv
<1> QED
  BY <1>1, <1>2, <1>3, <1>4, <1>5, <1>6, <1>7 DEF Next

LEMMA ListInvHolds == Spec => []ListInv
<1>1. Init => ListInv
  <2> SUFFICES ASSUME Init PROVE ListInv
    OBVIOUS
  <2>1. pc = "setup" /\ faults = 0
    BY DEF Init
  <2> QED  BY <2>1, MaxFaultsIsNat DEF ListInv
<1> QED
  BY <1>1, ListInvIsKept, PTL DEF Spec

(* No linked list unit proof fails on an operation that did what it should: *)
(* not for any set of nodes, nor for any pointers nd_linked_list_node() may  *)
(* return, nor for any number of writes that put back what was there.       *)
THEOREM ListNoFalseAlarm == Spec => []NoFalseAlarm
<1>1. ListInv => NoFalseAlarm
  BY DEF ListInv, NoFalseAlarm, AsWanted
<1> QED
  BY <1>1, ListInvHolds, PTL

(* A linked list unit proof that passes has seen a correct operation, for   *)
(* any number of faults; those of next and prev, which look at either link  *)
(* of their nodes through the other one, for at most one.                   *)
THEOREM ListPassedMeansCorrect == Spec => [](Noticed => PassedMeansCorrect)
<1>1. ListInv => (Noticed => PassedMeansCorrect)
  BY DEF ListInv, PassedMeansCorrect, Correct
<1> QED
  BY <1>1, ListInvHolds, PTL

(* With at most one fault in a call, all of them do. *)
THEOREM OneListFaultIsNoticed ==
    ASSUME MaxFaults <= 1
    PROVE  Spec => []PassedMeansCorrect
<1>1. ListInv => PassedMeansCorrect
  BY MaxFaultsIsNat DEF ListInv, PassedMeansCorrect, Correct, Noticed
<1> QED
  BY <1>1, ListInvHolds, PTL

-----------------------------------------------------------------------------
(* The snapshot helpers. *)

Kinds == {"to_tail", "to_head", "full"}

(* Heaps stay heaps over the same nodes, and nothing written since the     *)
(* snapshot is in it: a one-way snapshot is the one SaveTowards takes of    *)
(* the old heap.                                                           *)
IInv ==
    /\ kind \in Kinds
    /\ size \in Lengths
    /\ DOMAIN current \subseteq Node
    /\ current \in Heaps(DOMAIN current)
    /\ old \in Heaps(DOMAIN current)
    /\ saved = None => current = old
    /\ OneWayTaken => \E start \in Node :
                         saved = SaveTowards(old, L, size, start, Direction)

-----------------------------------------------------------------------------

LEMMA AttachAfterType ==
    ASSUME NEW D \in SUBSET Node, NEW h \in Heaps(D), NEW a \in D, NEW b \in D,
           NEW directly \in BOOLEAN, NEW g \in AttachAfter(h, a, b, directly)
    PROVE  g \in Heaps(D)
  <1>1. CASE directly
    BY <1>1, AttachDirectlyType DEF AttachAfter
  <1>2. CASE ~directly
    <2>1. PICK p \in NdPtr, q \in NdPtr :
              g = AttachIndirectly(h, a, b, p, q)
      BY <1>2 DEF AttachAfter
    <2>2. p \in Ptr /\ q \in Ptr
      BY NdPtrIsPtr
    <2>3. QED
      BY <2>1, <2>2 DEF Heaps, Links, AttachIndirectly
  <1>3. QED
    BY <1>1, <1>2

LEMMA InitShortType ==
    ASSUME NEW length \in 0 .. 2
    PROVE  /\ DOMAIN InitShort(L, length) \subseteq Node
           /\ InitShort(L, length) \in Heaps(DOMAIN InitShort(L, length))
  <1> DEFINE D0 == {L.head, L.tail}
             D1 == {L.head, L.tail, L.first}
             D2 == {L.head, L.tail, L.first, L.second}
  <1>1. /\ L.head \in Node /\ L.tail \in Node
        /\ L.first \in Node /\ L.second \in Node
    BY ListNodes
  <1>2. /\ D0 \in SUBSET Node /\ D1 \in SUBSET Node /\ D2 \in SUBSET Node
        /\ Blank(D0) \in Heaps(D0) /\ Blank(D1) \in Heaps(D1)
        /\ Blank(D2) \in Heaps(D2)
    BY <1>1, BlankType
  <1>3. CASE length = 0
    <2>1. InitShort(L, length) = AttachDirectly(Blank(D0), L.head, L.tail)
      BY <1>3 DEF InitShort
    <2>2. InitShort(L, length) \in Heaps(D0)
      BY <1>2, <2>1, AttachDirectlyType
    <2>3. QED
      BY <1>2, <2>2 DEF Heaps
  <1>4. CASE length = 1
    <2>1. InitShort(L, length) =
              AttachDirectly(AttachDirectly(Blank(D1), L.head, L.first),
                             L.first, L.tail)
      BY <1>4 DEF InitShort
    <2>2. AttachDirectly(Blank(D1), L.head, L.first) \in Heaps(D1)
      BY <1>2, AttachDirectlyType
    <2>3. InitShort(L, length) \in Heaps(D1)
      BY <1>2, <2>1, <2>2, AttachDirectlyType
    <2>4. QED
      BY <1>2, <2>3 DEF Heaps
  <1>5. CASE length = 2
    <2>1. InitShort(L, length) =
              AttachDirectly(AttachDirectly(AttachDirectly(Blank(D2),
                  L.head, L.first), L.first, L.second), L.second, L.tail)
      BY <1>5 DEF InitShort
    <2>2. AttachDirectly(Blank(D2), L.head, L.first) \in Heaps(D2)
      BY <1>2, AttachDirectlyType
    <2>3. AttachDirectly(AttachDirectly(Blank(D2), L.head, L.first),
                         L.first, L.second) \in Heaps(D2)
      BY <1>2, <2>2, AttachDirectlyType
    <2>4. InitShort(L, length) \in Heaps(D2)
      BY <1>2, <2>1, <2>3, AttachDirectlyType
    <2>5. QED
      BY <1>2, <2>4 DEF Heaps
  <1>6. QED
    BY <1>3, <1>4, <1>5

LEMMA InitLongType ==
    ASSUME NEW hidden, NEW g \in InitLong(L, hidden)
    PROVE  DOMAIN g \subseteq Node /\ g \in Heaps(DOMAIN g)
  <1> DEFINE D == {L.head, L.tail, L.first, L.second}
  <1>1. D \in SUBSET Node
    BY ListNodes
  <1>2. PICK h1 \in AttachAfter(Blank(D), L.head, L.first, hidden # "first") :
            \E h2 \in AttachAfter(h1, L.first, L.second, hidden # "middle") :
                g \in AttachAfter(h2, L.second, L.tail, hidden # "last")
    BY DEF InitLong
  <1>3. PICK h2 \in AttachAfter(h1, L.first, L.second, hidden # "middle") :
            g \in AttachAfter(h2, L.second, L.tail, hidden # "last")
    BY <1>2
  <1>4. h1 \in Heaps(D)
    BY <1>1, BlankType, AttachAfterType
  <1>5. h2 \in Heaps(D)
    BY <1>1, <1>4, AttachAfterType
  <1>6. g \in Heaps(D)
    BY <1>1, <1>3, <1>5, AttachAfterType
  <1>7. QED
    BY <1>1, <1>6 DEF Heaps

-----------------------------------------------------------------------------

(* The initialisers build heaps, and no snapshot is taken yet. *)
LEMMA InitIInv == SnapshotInit => IInv
  <1> SUFFICES ASSUME SnapshotInit PROVE IInv
    OBVIOUS
  <1>1. DOMAIN current \subseteq Node /\ current \in Heaps(DOMAIN current)
    <2>1. CASE size <= 2
      <3>1. current = InitShort(L, size) /\ size \in 0 .. 2
        BY <2>1 DEF SnapshotInit, Lengths, InitFromHead, InitFromTail, InitBoth
      <3>2. QED
        BY <3>1, InitShortType
    <2>2. CASE ~(size <= 2)
      <3>1. \E hidden : current \in InitLong(L, hidden)
        BY <2>2 DEF SnapshotInit, InitFromHead, InitFromTail, InitBoth
      <3>2. QED
        BY <3>1, InitLongType
    <2>3. QED
      BY <2>1, <2>2
  <1>2. QED
    BY <1>1 DEF SnapshotInit, IInv, Kinds, OneWayTaken

LEMMA WriteType ==
    ASSUME NEW D \in SUBSET Node, NEW h \in Heaps(D), NEW n \in D,
           NEW f \in {"next", "prev"}, NEW p \in Ptr
    PROVE  [h EXCEPT ![n][f] = p] \in Heaps(D)
  <1>1. CASE f = "next"
    BY <1>1 DEF Heaps, Links
  <1>2. CASE f = "prev"
    BY <1>2 DEF Heaps, Links
  <1>3. QED
    BY <1>1, <1>2

LEMMA NextIInv == IInv /\ [SnapshotNext]_snapshot_vars => IInv'
  <1> SUFFICES ASSUME IInv, [SnapshotNext]_snapshot_vars PROVE IInv'
    OBVIOUS
  <1>1. ASSUME NEW start \in Node, SaveOneWay(start) PROVE IInv'
    BY <1>1 DEF IInv, SaveOneWay, OneWayTaken, Direction
  <1>2. CASE SaveBothWays
    BY <1>2 DEF IInv, SaveBothWays, OneWayTaken
  <1>3. ASSUME NEW n \in DOMAIN current, NEW f \in {"next", "prev"}, NEW p \in Ptr,
               Write(n, f, p)
        PROVE  IInv'
    <2>1. current' \in Heaps(DOMAIN current)
      BY <1>3, WriteType DEF Write, IInv
    <2>2. DOMAIN current' = DOMAIN current
      BY <2>1 DEF Heaps
    <2>3. QED
      BY <1>3, <2>1, <2>2 DEF IInv, Write, OneWayTaken, Direction
  <1>4. CASE UNCHANGED snapshot_vars
    BY <1>4 DEF snapshot_vars, IInv, OneWayTaken, Direction
  <1>5. QED
    BY <1>1, <1>2, <1>3, <1>4 DEF SnapshotNext

(* What a one-way snapshot holds, spelled out. *)
LEMMA SavedFields ==
    ASSUME NEW h, NEW l, NEW n \in Lengths, NEW start, NEW f, NEW s,
           s = SaveTowards(h, l, n, start, f)
    PROVE  /\ s.saved_size \in 0 .. 3
           /\ s.save_point = start
           /\ s.head = SaveNode(h, l.head)
           /\ s.tail = SaveNode(h, l.tail)
           /\ \A i \in 1 .. s.saved_size :
                  s.nodes[i] = SaveNode(h, Walk(h, start, f, i))
  <1>1. SavedSize(h, l, n, start, f) \in 0 .. 3
    BY DEF SavedSize, Lengths
  <1>2. QED
    BY <1>1 DEF SaveTowards

(* Two nodes agree on both links exactly when they are equal as records. *)
LEMMA AtExtensional ==
    ASSUME NEW D \in SUBSET Node, NEW g \in Heaps(D), NEW h \in Heaps(D), NEW n
    PROVE  At(g, n) = At(h, n) <=>
               Hop(g, n, "next") = Hop(h, n, "next")
               /\ Hop(g, n, "prev") = Hop(h, n, "prev")
  <1>1. CASE n \in D
    BY <1>1 DEF At, Hop, Heaps, Links
  <1>2. CASE n \notin D
    BY <1>2 DEF At, Hop, Heaps
  <1>3. QED
    BY <1>1, <1>2

-----------------------------------------------------------------------------

(* The check follows the links the heap has now.  As long as it finds what  *)
(* was saved, it walks over the very nodes that were saved, so agreement at *)
(* every step is agreement of the whole segment, and the other way round.   *)
LEMMA CheckDecidesSegment ==
    IInv /\ OneWayTaken =>
        (UnchangedTowards(current, L, saved, Direction) <=> SegmentSame)
  <1> SUFFICES ASSUME IInv, OneWayTaken
               PROVE  UnchangedTowards(current, L, saved, Direction) <=> SegmentSame
    OBVIOUS
  <1> DEFINE f == Direction
             e == End(L, f)
             node(i) == Walk(old, saved.save_point, f, i)
             k == saved.saved_size
             sentinel == IF f = "next" THEN saved.tail ELSE saved.head
  <1>1. f \in {"next", "prev"}
    BY DEF Direction
  <1>2. PICK start \in Node : saved = SaveTowards(old, L, size, start, f)
    BY DEF IInv
  <1>3. /\ k \in 0 .. 3
        /\ sentinel = SaveNode(old, e)
        /\ \A i \in 1 .. k : saved.nodes[i] = SaveNode(old, node(i))
    <2>1. size \in Lengths
      BY DEF IInv
    <2>2. QED
      BY <1>1, <1>2, <2>1, SavedFields DEF End
  <1>4. \A n : At(current, n) = At(old, n) <=>
                   Hop(current, n, "next") = Hop(old, n, "next")
                   /\ Hop(current, n, "prev") = Hop(old, n, "prev")
    BY AtExtensional DEF IInv
  <1>5. \A n, m : NodesEqual(current, n, SaveNode(old, m)) <=>
                      n = m /\ At(current, m) = At(old, m)
    BY <1>4 DEF NodesEqual, NodesNextEqual, NodesPrevEqual, SaveNode
  <1>6. \A n, m : NodesFieldEqual(current, n, SaveNode(old, m), f) <=>
                      n = m /\ Hop(current, m, f) = Hop(old, m, f)
    BY <1>1 DEF NodesFieldEqual, NodesNextEqual, NodesPrevEqual, SaveNode
  <1>7. CASE k = 0
    BY <1>3, <1>6, <1>7 DEF UnchangedTowards, SegmentSame
  <1>8. CASE k # 0
    <2>1. k \in 1 .. 3
      BY <1>3, <1>8
    <2>2. At(current, e) = At(old, e) => Hop(current, e, f) = Hop(old, e, f)
      BY <1>1, <1>4
    <2>3. UnchangedTowards(current, L, saved, f) <=>
              /\ Hop(current, node(1), f) = Hop(old, node(1), f)
              /\ \A i \in 2 .. k :
                     /\ Walk(current, saved.save_point, f, i) = node(i)
                     /\ At(current, node(i)) = At(old, node(i))
              /\ At(current, e) = At(old, e)
      <3>1. 1 \in 1 .. k /\ (\A i \in 2 .. k : i \in 1 .. k)
        BY <2>1
      <3>2. saved.save_point = node(1)
        BY DEF Walk
      <3>3. QED
        BY <1>3, <1>5, <1>6, <1>8, <3>1, <3>2 DEF UnchangedTowards
    <2>4. ASSUME Hop(current, node(1), f) = Hop(old, node(1), f),
                 \A i \in 2 .. k : At(current, node(i)) = At(old, node(i)),
                 NEW i \in 2 .. k
          PROVE  Walk(current, saved.save_point, f, i) = node(i)
      <3>1. Walk(current, saved.save_point, f, 2) = node(2)
        BY <2>4 DEF Walk
      <3>2. CASE i = 3
        <4>1. Hop(current, node(2), f) = Hop(old, node(2), f)
          BY <2>1, <2>4, <3>2 DEF Hop
        <4>2. QED
          BY <3>1, <3>2, <4>1 DEF Walk
      <3>3. QED
        BY <2>1, <3>1, <3>2
    <2>5. QED
      BY <1>8, <2>1, <2>2, <2>3, <2>4 DEF SegmentSame
  <1>9. QED
    BY <1>7, <1>8

(* IInv holds whatever the operation under verification writes. *)
THEOREM Invariance == SnapshotSpec => []IInv
  BY InitIInv, NextIInv, PTL DEF SnapshotSpec

(* For every heap and every sequence of writes, is_aws_list_unchanged_to_tail *)
(* and _to_head answer "unchanged" only of a segment that is unchanged.     *)
THEOREM CheckSound == SnapshotSpec => []CheckIsSound
  <1>1. IInv => CheckIsSound
    BY CheckDecidesSegment DEF CheckIsSound
  <1>2. QED
    BY Invariance, <1>1, PTL

(* ... and they always do so of one that is. *)
THEOREM CheckComplete == SnapshotSpec => []CheckIsComplete
  <1>1. IInv => CheckIsComplete
    BY CheckDecidesSegment DEF CheckIsComplete
  <1>2. QED
    BY Invariance, <1>1, PTL

-----------------------------------------------------------------------------
(* Types, and the full snapshot. *)

(* However a full snapshot starts and ends, it has at most four nodes.      *)
LEMMA FullSize ==
    ASSUME NEW h, NEW l, NEW n, NEW start, NEW end
    PROVE  SaveFull(h, l, n, start, end).saved_size \in 0 .. 4
  <1> DEFINE headNext == h[l.head].next
             tailPrev == h[l.tail].prev
             front == IF start = l.head THEN <<l.head, headNext>>
                      ELSE IF start = headNext /\ n > 0 THEN <<headNext>>
                      ELSE <<>>
             back == IF n = 0 THEN <<>>
                     ELSE IF end = l.tail
                     THEN IF n = 1 THEN <<l.tail>> ELSE <<tailPrev, l.tail>>
                     ELSE IF end = tailPrev /\ n > 1 THEN <<tailPrev>>
                     ELSE <<>>
             kept == IF start = end THEN <<start>> ELSE front \o back
             S == {l.head, l.tail, headNext, tailPrev, start}
  <1>1. front \in Seq(S) /\ Len(front) \in 0 .. 2
    <2> HIDE DEF headNext, tailPrev
    <2>1. <<l.head, headNext>> \in Seq(S) /\ Len(<<l.head, headNext>>) \in 0 .. 2
      OBVIOUS
    <2>2. <<headNext>> \in Seq(S) /\ Len(<<headNext>>) \in 0 .. 2
      OBVIOUS
    <2>3. <<>> \in Seq(S) /\ Len(<<>>) \in 0 .. 2
      OBVIOUS
    <2>4. front \in {<<l.head, headNext>>, <<headNext>>, <<>>}
      OBVIOUS
    <2> HIDE DEF front, S
    <2> QED  BY <2>1, <2>2, <2>3, <2>4, Zenon
  <1>2. back \in Seq(S) /\ Len(back) \in 0 .. 2
    <2> HIDE DEF headNext, tailPrev
    <2>1. <<tailPrev, l.tail>> \in Seq(S) /\ Len(<<tailPrev, l.tail>>) \in 0 .. 2
      OBVIOUS
    <2>2. \A x \in S : <<x>> \in Seq(S) /\ Len(<<x>>) \in 0 .. 2
      OBVIOUS
    <2>3. <<>> \in Seq(S) /\ Len(<<>>) \in 0 .. 2
      OBVIOUS
    <2>4. back \in {<<tailPrev, l.tail>>, <<tailPrev>>, <<l.tail>>, <<>>}
      OBVIOUS
    <2>5. tailPrev \in S /\ l.tail \in S
      OBVIOUS
    <2> HIDE DEF back, S
    <2> QED  BY <2>1, <2>2, <2>3, <2>4, <2>5, Zenon
  <1>3. Len(kept) \in 0 .. 4
    <2> HIDE DEF front, back, S, headNext, tailPrev
    <2>1. CASE start = end
      <3>1. kept = <<start>>
        BY <2>1
      <3>2. Len(<<start>>) = 1
        OBVIOUS
      <3> HIDE DEF kept
      <3> QED  BY <3>1, <3>2
    <2>2. CASE start # end
      <3>1. Len(front \o back) = Len(front) + Len(back)
        BY <1>1, <1>2
      <3>2. kept = front \o back
        BY <2>2
      <3>3. Len(front) + Len(back) \in 0 .. 4
        <4>1. \A a, b \in 0 .. 2 : a + b \in 0 .. 4
          OBVIOUS
        <4> QED  BY <1>1, <1>2, <4>1, Zenon
      <3> HIDE DEF kept
      <3> QED  BY <3>1, <3>2, <3>3, Zenon
    <2> HIDE DEF kept
    <2> QED  BY <2>1, <2>2
  <1>4. SaveFull(h, l, n, start, end).saved_size = Len(kept)
    <2> HIDE DEF kept
    <2>1. SaveFull(h, l, n, start, end) =
              [saved_size |-> Len(kept), save_point |-> start, save_point_end |-> end,
               head |-> SaveNode(h, l.head), tail |-> SaveNode(h, l.tail),
               nodes |-> [i \in 1 .. Len(kept) |-> SaveNode(h, kept[i])]]
      BY DEF SaveFull, kept
    <2> QED  BY <2>1
  <1> QED  BY <1>3, <1>4

(* How much was written and how many nodes were saved, the rest of the type *)
(* invariant. *)
SizesInv ==
    /\ writes \in 0 .. MaxWrites
    /\ saved.saved_size \in 0 .. 4
    /\ kind # "full" => saved.saved_size \in 0 .. 3

LEMMA NextSizesInv == IInv /\ SizesInv /\ [SnapshotNext]_snapshot_vars => SizesInv'
  <1> SUFFICES ASSUME IInv, SizesInv, [SnapshotNext]_snapshot_vars PROVE SizesInv'
    OBVIOUS
  <1>1. ASSUME NEW start \in Node, SaveOneWay(start) PROVE SizesInv'
    <2>1. size \in Lengths /\ saved' = SaveTowards(current, L, size, start, Direction)
      BY <1>1 DEF IInv, SaveOneWay
    <2>2. saved'.saved_size \in 0 .. 3
      BY <2>1, SavedFields
    <2> QED  BY <1>1, <2>2 DEF SizesInv, SaveOneWay
  <1>2. CASE SaveBothWays
    BY <1>2, FullSize DEF SizesInv, SaveBothWays
  <1>3. ASSUME NEW n, NEW f, NEW p, Write(n, f, p) PROVE SizesInv'
    BY <1>3, MaxWritesType DEF SizesInv, Write
  <1>4. CASE UNCHANGED snapshot_vars
    BY <1>4 DEF snapshot_vars, SizesInv
  <1> QED  BY <1>1, <1>2, <1>3, <1>4 DEF SnapshotNext

(* Heaps stay heaps over the nodes of the list, and no snapshot has more    *)
(* nodes than the four the helper has room for.                            *)
THEOREM TypeCorrect == SnapshotSpec => []TypeOK
  <1>1. SnapshotInit => SizesInv
    BY MaxWritesType DEF SnapshotInit, SizesInv, None
  <1>2. IInv /\ SizesInv => TypeOK
    BY DEF IInv, SizesInv, TypeOK, Heaps, Kinds
  <1> QED
    BY <1>1, <1>2, NextSizesInv, Invariance, PTL DEF SnapshotSpec

-----------------------------------------------------------------------------
(* The full snapshot. *)

(* A full snapshot is the one SaveFull takes between the sentinels of the   *)
(* old heap, which is still as the initialiser built it.                   *)
FullInv ==
    kind = "full" =>
        /\ old \in InitBoth(L, size)
        /\ saved # None =>
               saved = SaveFull(old, L, size, old[L.head].next, old[L.tail].prev)

LEMMA InitFullInv == SnapshotInit => FullInv
  BY DEF SnapshotInit, FullInv

LEMMA NextFullInv == IInv /\ FullInv /\ [SnapshotNext]_snapshot_vars => FullInv'
  <1> SUFFICES ASSUME IInv, FullInv, [SnapshotNext]_snapshot_vars PROVE FullInv'
    OBVIOUS
  <1>1. ASSUME NEW start \in Node, SaveOneWay(start) PROVE FullInv'
    BY <1>1 DEF FullInv, SaveOneWay
  <1>2. CASE SaveBothWays
    BY <1>2 DEF FullInv, SaveBothWays, IInv
  <1>3. ASSUME NEW n, NEW f, NEW p, Write(n, f, p) PROVE FullInv'
    BY <1>3 DEF FullInv, Write
  <1>4. CASE UNCHANGED snapshot_vars
    BY <1>4 DEF snapshot_vars, FullInv
  <1>5. QED
    BY <1>1, <1>2, <1>3, <1>4 DEF SnapshotNext

(* The ends of what InitBoth builds: the hidden nodes lie between first and *)
(* second, so that the sentinels and these two are always joined.          *)
LEMMA BothEnds ==
    ASSUME NEW n \in Lengths, NEW h \in InitBoth(L, n)
    PROVE  /\ n = 0 => h[L.head].next = L.tail /\ h[L.tail].prev = L.head
           /\ n = 1 => h[L.head].next = L.first /\ h[L.tail].prev = L.first
           /\ n >= 2 => h[L.head].next = L.first /\ h[L.tail].prev = L.second
  <1>1. CASE n = 0
    BY <1>1, ListNodes DEF InitBoth, InitShort, AttachDirectly, AttachIndirectly, Blank
  <1>2. CASE n = 1
    BY <1>2, ListNodes DEF InitBoth, InitShort, AttachDirectly, AttachIndirectly, Blank
  <1>3. CASE n = 2
    BY <1>3, ListNodes DEF InitBoth, InitShort, AttachDirectly, AttachIndirectly, Blank
  <1>4. CASE n = 3
    <2> DEFINE D == {L.head, L.tail, L.first, L.second}
               h1 == AttachDirectly(Blank(D), L.head, L.first)
    <2>1. PICK h2 \in AttachAfter(h1, L.first, L.second, FALSE) :
              h = AttachDirectly(h2, L.second, L.tail)
      BY <1>4 DEF InitBoth, InitLong, AttachAfter
    <2>2. D \in SUBSET Node
      BY ListNodes
    <2>3. /\ h1 \in Heaps(D)
          /\ h1[L.head].next = L.first
      <3>1. Blank(D) \in Heaps(D)
        BY <2>2, BlankType
      <3>2. h1 \in Heaps(D)
        BY <2>2, <3>1, AttachDirectlyType
      <3>3. \A g \in Heaps(D) :
                AttachDirectly(g, L.head, L.first)[L.head].next = L.first
        <4>1. L.head \in D /\ L.first \in D /\ L.head # L.first
          BY ListNodes
        <4> HIDE DEF D
        <4> QED  BY <4>1 DEF Heaps, Links, AttachDirectly, AttachIndirectly
      <3> HIDE DEF D
      <3> QED
        BY <3>1, <3>2, <3>3
    <2>4. /\ h2 \in Heaps(D)
          /\ h2[L.head].next = L.first
      <3>1. PICK p, q : h2 = AttachIndirectly(h1, L.first, L.second, p, q)
        BY <2>1 DEF AttachAfter
      <3>2. h2 \in Heaps(D)
        BY <2>2, <2>3, AttachAfterType
      <3> HIDE DEF h1
      <3> QED
        BY <2>3, <3>1, <3>2, ListNodes DEF Heaps, AttachIndirectly
    <2> HIDE DEF h1
    <2> QED
      BY <1>4, <2>1, <2>4, ListNodes DEF Heaps, AttachDirectly, AttachIndirectly
  <1>5. QED
    BY <1>1, <1>2, <1>3, <1>4 DEF Lengths

(* What a full snapshot of such a list holds. *)
LEMMA FullFields ==
    ASSUME NEW n \in Lengths, NEW h \in InitBoth(L, n), NEW s,
           s = SaveFull(h, L, n, h[L.head].next, h[L.tail].prev)
    PROVE  /\ n = 0 => /\ s.saved_size = 0
                       /\ s.head = SaveNode(h, L.head) /\ s.tail = SaveNode(h, L.tail)
           /\ n = 1 => /\ s.saved_size = 1
                       /\ s.save_point = L.first /\ s.save_point_end = L.first
                       /\ s.nodes[1] = SaveNode(h, L.first)
           /\ n >= 2 => /\ s.saved_size = 2
                        /\ s.save_point = L.first /\ s.save_point_end = L.second
                        /\ s.nodes[1] = SaveNode(h, L.first)
                        /\ s.nodes[2] = SaveNode(h, L.second)
  <1>1. CASE n = 0
    BY <1>1, BothEnds, ListNodes DEF SaveFull
  <1>2. CASE n = 1
    BY <1>2, BothEnds, ListNodes DEF SaveFull
  <1>3. CASE n >= 2
    <2>1. h[L.head].next = L.first /\ h[L.tail].prev = L.second
      BY <1>3, BothEnds
    <2> DEFINE kept == <<L.first, L.second>>
    <2>2. /\ L.first # L.head /\ L.first # L.second /\ L.second # L.tail
          /\ n > 0 /\ n > 1 /\ n # 0
      BY <1>3, ListNodes DEF Lengths
    <2>3. kept = <<L.first>> \o <<L.second>>
      OBVIOUS
    <2>4. s = [saved_size |-> Len(kept), save_point |-> L.first, save_point_end |-> L.second,
               head |-> SaveNode(h, L.head), tail |-> SaveNode(h, L.tail),
               nodes |-> [i \in 1 .. Len(kept) |-> SaveNode(h, kept[i])]]
      BY <2>1, <2>2, <2>3 DEF SaveFull
    <2>5. Len(kept) = 2 /\ kept[1] = L.first /\ kept[2] = L.second
      OBVIOUS
    <2>6. QED
      BY <1>3, <2>4, <2>5
  <1>4. QED
    BY <1>1, <1>2, <1>3

LEMMA ContentSameIsUnchanged ==
    IInv /\ FullInv => FullCheckIsComplete
  <1> SUFFICES ASSUME IInv, FullInv, kind = "full", saved # None, ContentSame
               PROVE  UnchangedFull(current, L, saved)
    BY DEF FullCheckIsComplete
  <1>1. /\ size \in Lengths /\ old \in InitBoth(L, size)
        /\ saved = SaveFull(old, L, size, old[L.head].next, old[L.tail].prev)
    BY DEF IInv, FullInv
  <1>2. CASE size = 0
    <2>1. /\ saved.saved_size = 0
          /\ saved.head = SaveNode(old, L.head) /\ saved.tail = SaveNode(old, L.tail)
      BY <1>1, <1>2, FullFields
    <2>2. Hop(old, L.head, "next") = L.tail /\ Hop(old, L.tail, "prev") = L.head
      <3>1. L.head \in DOMAIN old /\ L.tail \in DOMAIN old
        BY <1>1, <1>2 DEF InitBoth, InitShort, AttachDirectly, AttachIndirectly, Blank
      <3>2. old[L.head].next = L.tail /\ old[L.tail].prev = L.head
        BY <1>1, <1>2, BothEnds
      <3> QED  BY <3>1, <3>2 DEF Hop, At
    <2> QED
      BY <2>1, <2>2 DEF UnchangedFull, SaveNode
  <1>3. CASE size = 1
    <2>1. /\ saved.saved_size = 1
          /\ saved.save_point = L.first /\ saved.save_point_end = L.first
          /\ saved.nodes[1] = SaveNode(old, L.first)
      BY <1>1, <1>3, FullFields
    <2> QED
      BY <2>1 DEF UnchangedFull, SaveNode
  <1>4. CASE size >= 2
    <2>1. DOMAIN current = DOMAIN old
      BY DEF IInv, Heaps
    <2>2. /\ current[L.first].next = old[L.first].next
          /\ current[L.second].prev = old[L.second].prev
      <3>1. old[L.head].next = L.first /\ old[L.tail].prev = L.second
        BY <1>1, <1>4, BothEnds
      <3>2. QED
        BY <3>1, ListNodes DEF ContentSame
    <2>3. /\ Hop(current, L.first, "next") = Hop(old, L.first, "next")
          /\ Hop(current, L.second, "prev") = Hop(old, L.second, "prev")
      BY <2>1, <2>2 DEF Hop, At
    <2>4. /\ saved.saved_size = 2
          /\ saved.save_point = L.first /\ saved.save_point_end = L.second
          /\ saved.nodes[1] = SaveNode(old, L.first)
          /\ saved.nodes[2] = SaveNode(old, L.second)
      BY <1>1, <1>4, FullFields
    <2>5. /\ NodesNextEqual(current, L.first, saved.nodes[1])
          /\ NodesPrevEqual(current, L.second, saved.nodes[2])
      BY <2>3, <2>4 DEF SaveNode, NodesNextEqual, NodesPrevEqual
    <2> QED
      BY <2>4, <2>5 DEF UnchangedFull
  <1>5. QED
    BY <1>1, <1>2, <1>3, <1>4 DEF Lengths

(* The full snapshot of every behaviour is the one taken of the list as     *)
(* sea_nd_init_aws_linked_list built it.                                   *)
THEOREM FullInvariance == SnapshotSpec => []FullInv
  BY InitFullInv, NextFullInv, Invariance, PTL DEF SnapshotSpec

(* is_aws_list_unchanged_full never calls a list changed whose content is   *)
(* as it was saved.                                                        *)
THEOREM FullCheckComplete == SnapshotSpec => []FullCheckIsComplete
  BY FullInvariance, Invariance, ContentSameIsUnchanged, PTL
=============================================================================
