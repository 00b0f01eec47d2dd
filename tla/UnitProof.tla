----------------------------- MODULE UnitProof -----------------------------
(***************************************************************************)
(* What the unit proofs of byte buffers, cursors, array lists and strings   *)
(* have in common.  A unit proof builds its inputs with the helpers of the *)
(* tool it runs in, calls one operation of the library and makes its        *)
(* assertions.  The operation does what it should, or it does nothing, or  *)
(* it gets one field, one byte or its answer wrong: the assertions are     *)
(* there to notice.                                                        *)
(***************************************************************************)
EXTENDS WatchedBytes

CONSTANTS
    Tools,            \* of "sea", "klee", "fuzz"
    MaxFaults

ToolsAreKnown == Tools \subseteq {"sea", "klee", "fuzz"}
MaxFaultsIsNat == MaxFaults \in Nat

VARIABLES
    tool,
    proof,            \* the unit proof that runs, "" before one is chosen
    pc,               \* "setup", "call", "check", "passed" or "failed"
    obj,              \* the structs the operation may write, by name
    mem,              \* the blocks of memory, by name
    arg,              \* what it gets by value
    old,              \* [obj, mem] before the call
    ret,              \* its answer
    want,             \* what it should leave: [obj, mem, ret]
    faults

vars == <<tool, proof, pc, obj, mem, arg, old, ret, want, faults>>

Does(o, m, r) == [obj |-> o, mem |-> m, ret |-> r]

Init ==
    /\ tool \in Tools
    /\ proof = "" /\ pc = "setup"
    /\ obj = <<>> /\ mem = <<>> /\ arg = <<>> /\ ret = "none"
    /\ old = Does(<<>>, <<>>, "none") /\ want = Does(<<>>, <<>>, "none")
    /\ faults = 0

(* The unit proof p reaches its call with structs o, memory m and inputs a. *)
Reach(p, o, m, a) ==
    /\ proof' = p /\ pc' = "call"
    /\ obj' = o /\ mem' = m /\ arg' = a
    /\ old' = Does(o, m, "none")
    /\ UNCHANGED <<tool, ret, want, faults>>

Call(outcomes) ==
    /\ pc = "call" /\ pc' = "check"
    /\ want' \in outcomes
    /\ obj' = want'.obj /\ mem' = want'.mem /\ ret' = want'.ret
    /\ UNCHANGED <<tool, proof, arg, old, faults>>

SkippedCall(outcomes) ==
    /\ pc = "call" /\ faults < MaxFaults
    /\ pc' = "check" /\ faults' = faults + 1
    /\ want' \in outcomes
    /\ ret' = want'.ret
    /\ UNCHANGED <<tool, proof, obj, mem, arg, old>>

Goes(o, m, r) ==
    /\ pc = "check" /\ faults < MaxFaults
    /\ obj' = o /\ mem' = m /\ ret' = r
    /\ faults' = faults + 1
    /\ UNCHANGED <<tool, proof, pc, arg, old, want>>

(* Wrong values for field f: a null or shifted pointer, a number that is    *)
(* off by one or 0, the other allocator.                                   *)
Wrong(f, v) ==
    CASE f \in {"buffer", "ptr", "data", "bytes", "p_impl"} ->
             IF v = Null THEN {StartOf("wild")} ELSE {Null, Plus(v, 1)}
      [] f \in {"allocator", "alloc"} -> {"sea", "none"} \ {v}
      [] OTHER -> {v + 1, v - 1, 0} \cap (Nat \ {v})

(* A comparison that is made twice: "self_nonzero" is one after which lhs   *)
(* differs from itself.                                                    *)
Opposite(r) ==
    CASE r = "success" -> {"error"}  [] r = "error" -> {"success"}
      [] r = "true" -> {"false"}     [] r = "false" -> {"true"}
      [] r = "zero" -> {"nonzero", "self_nonzero"}
      [] r = "nonzero" -> {"zero", "self_nonzero"}
      [] OTHER -> {}

StrayField(x, f) ==
    \E v \in Wrong(f, obj[x][f]) : Goes([obj EXCEPT ![x] = [@ EXCEPT ![f] = v]], mem, ret)

StrayByte(b, i) ==
    \E v \in Byte \ {mem[b][i]} : Goes(obj, [mem EXCEPT ![b] = [@ EXCEPT ![i] = v]], ret)

WrongReturn == \E r \in Opposite(ret) : Goes(obj, mem, r)

Fault ==
    \/ \E x \in DOMAIN obj : \E f \in DOMAIN obj[x] : StrayField(x, f)
    \/ \E b \in DOMAIN mem : \E i \in DOMAIN mem[b] : StrayByte(b, i)
    \/ WrongReturn

Check(asserts) ==
    /\ pc = "check"
    /\ pc' = IF asserts THEN "passed" ELSE "failed"
    /\ UNCHANGED <<tool, proof, obj, mem, arg, old, ret, want, faults>>

-----------------------------------------------------------------------------

Result == Does(obj, mem, ret)

(* SeaHorn's tracking of memory, which the second generation of the unit     *)
(* proofs (seahorn/jobs2) uses: sea_is_modified, of the address of a struct  *)
(* and of a pointer into a block, whether that object was written to since  *)
(* sea_tracking_on or sea_reset_modified.  Of an allocator it holds never,   *)
(* since the unit proofs pass the allocator and not the field that points   *)
(* to it.  A write of what was there already counts as none.                *)
Modified(x) == obj[x] # old.obj[x]

BytesModified(p) ==
    /\ p.block \in DOMAIN old.mem
    /\ p.block \notin DOMAIN mem \/ mem[p.block] # old.mem[p.block]

Judged == pc \in {"passed", "failed"}

-----------------------------------------------------------------------------

(* The places at which the result is not the one of a correct operation.    *)
Field(x, fields) == {<<x, f>> : f \in fields}
ByteOf(b, offsets) == {<<"byte", b, i>> : i \in offsets}

Differences ==
    (UNION {Field(x, {f \in DOMAIN obj[x] : obj[x][f] # want.obj[x][f]}) :
                x \in DOMAIN obj \cap DOMAIN want.obj})
    \cup (UNION {ByteOf(b, {i \in DOMAIN want.mem[b] : ~HasByte(mem, Plus(StartOf(b), i), want.mem[b][i])}) :
                     b \in DOMAIN want.mem})
    \cup (IF ret = want.ret THEN {} ELSE {<<"ret", ret>>})
=============================================================================
