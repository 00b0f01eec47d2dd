------------------------ MODULE ArithmeticUnitProofs ------------------------
(***************************************************************************)
(* The unit proofs of the library's arithmetic (add_size_*, mul_size_*,      *)
(* is_power_of_two, round_up_to_power_of_two) and of ptr_eq.  Each chooses  *)
(* its numbers, makes one call and compares the answer with what it works   *)
(* out itself, in the same integers that wrap.  The operation answers what  *)
(* it should, or, at most MaxFaults times, anything else.                   *)
(***************************************************************************)
EXTENDS UnitProof, FiniteSets

CONSTANTS Widths      \* the bits of the integers: 64 and, where there are two, 32

WidthsArePositive == Widths \subseteq Nat \ {0}

(* The numbers, or the pointers of ptr_eq, and what is written to r. *)
a == arg.a
b == arg.b
r == obj.result.r

Max == 2 ^ arg.bits - 1
Word == 0 .. Max
Wrapped(n) == n % (Max + 1)

Popcount(n) == Cardinality({i \in 0 .. arg.bits - 1 : (n \div 2 ^ i) % 2 = 1})

Answer(rval, n) == Does([result |-> [r |-> n]], <<>>, rval)

-----------------------------------------------------------------------------
(* The library: a checked operation that fails leaves r as it was.          *)

Checked(n) ==
    IF n > Max THEN {Answer("error", k) : k \in Word} ELSE {Answer("success", n)}

Saturating(n) == {Answer("none", IF n > Max THEN Max ELSE n)}

Says(yes) == {Answer(IF yes THEN "true" ELSE "false", 0)}

PowersOfTwo == {2 ^ i : i \in 0 .. arg.bits - 1}

RoundUpToPowerOfTwo(n) ==
    LET enough == {p \in PowersOfTwo : n <= p}
    IN  IF enough = {} THEN {Answer("error", k) : k \in Word}
        ELSE {Answer("success", p) : p \in {q \in enough : \A o \in enough : q <= o}}

-----------------------------------------------------------------------------
(* The assertions. *)

TooLargeASum == b > 0 /\ a > Max - b

AddSizeCheckedAsserts ==
    IF ret = "success" THEN r = Wrapped(a + b) ELSE TooLargeASum

AddSizeSaturatingAsserts == r = IF TooLargeASum THEN Max ELSE Wrapped(a + b)

(* The assertion that its comment calls wrong, taken from the addition.     *)
MulSizeCheckedAsserts_AsForSums ==
    IF ret = "success" THEN r = Wrapped(a * b) ELSE TooLargeASum

MulSizeCheckedAsserts ==
    IF ret = "success" THEN r = Wrapped(a * b) ELSE b > 0

MulSizeSaturatingAsserts ==
    r = IF a > 0 /\ b > 0 /\ a > Max \div b THEN Max ELSE Wrapped(a * b)

IsPowerOfTwoAsserts == ret = "true" <=> Popcount(a) = 1

RoundUpToPowerOfTwoAsserts_NoUpperBound ==
    IF ret = "success" THEN Popcount(r) = 1 /\ a <= r
    ELSE a > (Max \div 2) + 1

RoundUpToPowerOfTwoAsserts ==
    IF ret = "success"
    THEN Popcount(r) = 1 /\ a <= r /\ a >= r \div 2
    ELSE a > (Max \div 2) + 1

PtrEqAsserts == ret = "true" <=> a = b

Asserts ==
    CASE proof = "add_size_checked" -> AddSizeCheckedAsserts
      [] proof = "add_size_saturating" -> AddSizeSaturatingAsserts
      [] proof = "mul_size_checked" -> MulSizeCheckedAsserts
      [] proof = "mul_size_saturating" -> MulSizeSaturatingAsserts
      [] proof = "is_power_of_two" -> IsPowerOfTwoAsserts
      [] proof = "round_up_to_power_of_two" -> RoundUpToPowerOfTwoAsserts
      [] proof = "ptr_eq" -> PtrEqAsserts

-----------------------------------------------------------------------------

Choose(p, bits, lefts, rights) ==
    \E x \in lefts, y \in rights :
        Reach(p, [result |-> [r |-> 0]], <<>>, [bits |-> bits, a |-> x, b |-> y])

WordOf(bits) == 0 .. 2 ^ bits - 1

AddSizeCheckedSetup(bits) == Choose("add_size_checked", bits, WordOf(bits), WordOf(bits))
AddSizeSaturatingSetup(bits) == Choose("add_size_saturating", bits, WordOf(bits), WordOf(bits))
MulSizeCheckedSetup(bits) == Choose("mul_size_checked", bits, WordOf(bits), WordOf(bits))

(* Products of any two numbers take too long. *)
MulSizeSaturatingSetup(bits) ==
    Choose("mul_size_saturating", bits, {0, 2 ^ bits - 1}, WordOf(bits))

IsPowerOfTwoSetup(bits) == Choose("is_power_of_two", bits, WordOf(bits), {0})
RoundUpToPowerOfTwoSetup(bits) == Choose("round_up_to_power_of_two", bits, WordOf(bits), {0})
PtrEqSetup(bits) == Choose("ptr_eq", bits, WordOf(bits), WordOf(bits))

Setup ==
    /\ pc = "setup"
    /\ \E bits \in Widths :
           \/ AddSizeCheckedSetup(bits) \/ AddSizeSaturatingSetup(bits)
           \/ MulSizeCheckedSetup(bits) \/ MulSizeSaturatingSetup(bits)
           \/ IsPowerOfTwoSetup(bits) \/ RoundUpToPowerOfTwoSetup(bits) \/ PtrEqSetup(bits)

Outcomes ==
    CASE proof = "add_size_checked" -> Checked(a + b)
      [] proof = "add_size_saturating" -> Saturating(a + b)
      [] proof = "mul_size_checked" -> Checked(a * b)
      [] proof = "mul_size_saturating" -> Saturating(a * b)
      [] proof = "is_power_of_two" -> Says(a \in PowersOfTwo)
      [] proof = "round_up_to_power_of_two" -> RoundUpToPowerOfTwo(a)
      [] proof = "ptr_eq" -> Says(a = b)

(* What an operation of this kind could answer instead. *)
Answers ==
    CASE ret \in {"success", "error"} -> {Answer(v, n) : v \in {"success", "error"}, n \in Word}
      [] ret \in {"true", "false"} -> {Answer(v, 0) : v \in {"true", "false"}}
      [] OTHER -> {Answer("none", n) : n \in Word}

WrongAnswer == pc = "check" /\ \E w \in Answers \ {Result} : Goes(w.obj, w.mem, w.ret)

Next ==
    \/ Setup
    \/ Call(Outcomes)
    \/ WrongAnswer
    \/ Check(Asserts)

Spec == Init /\ [][Next]_vars

-----------------------------------------------------------------------------

(* On a correct library no assertion fails, for any two numbers: those about *)
(* errors say no more than what must hold where a result does not fit.      *)
NoFalseAlarm == pc = "failed" => faults > 0

(* What the assertions cannot tell from a correct answer.  A sum or a       *)
(* product that does not fit is compared with one that has wrapped as well, *)
(* so that an operation that never reports an overflow passes; so does one  *)
(* that reports an overflow of a product that fits, if b is not 0; and so   *)
(* does one that rounds a power of two up to the next one.                  *)
Unnoticed ==
    \/ /\ proof \in {"add_size_checked", "mul_size_checked"}
       /\ want.ret = "error" /\ ret = "success"
       /\ r = Wrapped(IF proof = "add_size_checked" THEN a + b ELSE a * b)
    \/ proof = "mul_size_checked" /\ ret = "error" /\ b > 0
    \/ proof = "round_up_to_power_of_two" /\ a \in PowersOfTwo /\ Result = Answer("success", 2 * a)
    \/ want.ret = "error" /\ ret = "error"

(* With any one wrong answer an operation passes exactly if that answer is   *)
(* one of these: the cases listed are the only ones, and they do occur.      *)
PassesIfUnnoticed ==
    pc \in {"passed", "failed"} => (pc = "passed" <=> Result = want \/ Unnoticed)
=============================================================================
