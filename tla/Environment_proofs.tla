------------------------ MODULE Environment_proofs ------------------------
(***************************************************************************)
(* Proofs about what the unit proofs run in.                               *)
(*                                                                         *)
(* The fuzzing driver: no copy leaves the input or the block it fills, and  *)
(* no byte of an input is used twice, for every length of a word, every    *)
(* alignment and every size a unit proof may ask for.                      *)
(*                                                                         *)
(* The verification script: its verdict is right for any answers,          *)
(* locations, exit codes and capacity of the pipe.                         *)
(*                                                                         *)
(* bcmp and memcmp are right for memories, lengths and pre-unrolled loops   *)
(* of every size: all the bytes before the one the loops are at are equal,  *)
(* so the first that is not is the first difference.                       *)
(*                                                                         *)
(* memcpy, memmove and memset are right for blocks of every length at      *)
(* every two addresses and words of four bytes; with words of eight, up    *)
(* to what they do to the four bytes behind the blocks.  What is done is   *)
(* one region of the destination, which grows up from its start or down    *)
(* from its end; the bytes of the source that are still to be copied are   *)
(* outside it; and at each label the counter the code uses there says how  *)
(* much is left.                                                           *)
(***************************************************************************)
EXTENDS MCMemory, VerifyScript, TLAPS

-----------------------------------------------------------------------------
(* The fuzzing driver. *)

(* What was copied last lies before the cursor. *)
FuzzInv ==
    /\ FuzzTypeOK
    /\ CopiesStayInside
    /\ copied.to <= iterator

-----------------------------------------------------------------------------

LEMMA DivMod ==
    ASSUME NEW a \in Nat \ {0}, NEW x \in Nat
    PROVE  /\ x % a \in 0 .. a - 1
           /\ (x \div a) * a = x - (x % a)
           /\ x \div a \in Nat
  OBVIOUS

LEMMA SmallMod ==
    ASSUME NEW w \in Nat \ {0}, NEW x \in 0 .. w - 1
    PROVE  x % w = x
  OBVIOUS

LEMMA NoCopyIsACopy ==
    /\ NoCopy \in [from : Nat, to : Nat, room : Nat]
    /\ NoCopy.from = 0 /\ NoCopy.to = 0 /\ NoCopy.room = 0
  BY DEF NoCopy

(* Rounding up does, unless it wraps. *)
LEMMA RoundsUp ==
    ASSUME NEW size \in Request, size + Alignment <= Word
    PROVE  AlignRoundUp(size) \in Nat /\ AlignRoundUp(size) >= size
  <1> DEFINE x == size + Alignment - 1
             y == (x \div Alignment) * Alignment
  <1>1. /\ Word \in Nat \ {0} /\ Alignment \in Nat \ {0}
        /\ size \in Nat /\ x \in 0 .. Word - 1
    BY WordIsLarge, BoundsAreNat, RequestIsASize
  <1>2. AlignRoundUp(size) = y % Word
    BY DEF AlignRoundUp
  <1>3. y = x - (x % Alignment) /\ x % Alignment \in 0 .. Alignment - 1
    <2> HIDE DEF x
    <2>1. QED
      BY <1>1, DivMod
  <1>4. y \in 0 .. Word - 1 /\ y >= size
    <2> HIDE DEF y
    <2>1. QED
      BY <1>1, <1>3
  <1>5. y % Word = y
    <2> HIDE DEF y
    <2>1. QED
      BY <1>1, <1>4, SmallMod
  <1>6. QED
    BY <1>1, <1>2, <1>4, <1>5

(* Whatever size malloc granted, the bytes that are taken are there. *)
LEMMA TakeKeeps ==
    ASSUME FuzzInv, target = "running",
           NEW k \in 0 .. MaxAlloc, NEW room \in Nat, k <= room, Take(k, room)
    PROVE  FuzzInv' /\ (copied' # copied => copied'.from >= copied.to)
  <1>1. CASE UsedUp(k)
    BY <1>1 DEF Take, EndOfRun, FuzzInv, FuzzTypeOK, CopiesStayInside
  <1>2. CASE ~UsedUp(k)
    <2>1. /\ copied' = [from |-> iterator, to |-> iterator + k, room |-> room]
          /\ iterator' = iterator + k
          /\ UNCHANGED <<target, data_size, violated>>
      BY <1>2 DEF Take
    <2>2. /\ iterator \in 0 .. data_size /\ data_size \in 0 .. MaxInput
          /\ MaxInput \in Nat /\ MaxAlloc \in Nat /\ Word \in Nat \ {0}
          /\ MaxInput + MaxAlloc < Word
      BY WordIsLarge, BoundsAreNat DEF FuzzInv, FuzzTypeOK
    <2>3. iterator + k \in 0 .. Word - 1
      BY <2>2
    <2>4. iterator + k < data_size
      BY <1>2, <2>2, <2>3, SmallMod DEF UsedUp
    <2>5. FuzzTypeOK'
      BY <2>1, <2>2, <2>4 DEF FuzzInv, FuzzTypeOK
    <2>6. CopiesStayInside' /\ copied'.to <= iterator'
      BY <2>1, <2>2, <2>4 DEF CopiesStayInside
    <2>7. copied'.from >= copied.to
      BY <2>1 DEF FuzzInv
    <2>8. QED
      BY <2>5, <2>6, <2>7 DEF FuzzInv
  <1>3. QED
    BY <1>1, <1>2

LEMMA StepKeeps ==
    ASSUME FuzzInv, [FuzzNext]_fuzz_vars
    PROVE  /\ FuzzInv'
           /\ target' = "running" /\ target = "running" /\ copied' # copied => copied'.from >= copied.to
  <1> DEFINE Goal == /\ FuzzInv'
                     /\ target' = "running" /\ target = "running" /\ copied' # copied
                            => copied'.from >= copied.to
  <1>1. CASE UNCHANGED fuzz_vars
    BY <1>1 DEF fuzz_vars, FuzzInv, FuzzTypeOK, CopiesStayInside
  <1>2. ASSUME NEW k \in 0 .. MaxInput, TestOneInput(k)
        PROVE  Goal
    <2>1. /\ target = "idle" /\ target' = "running" /\ data_size' = k /\ iterator' = 0
          /\ copied' = NoCopy /\ violated' = FALSE
      BY <1>2 DEF TestOneInput
    <2>2. FuzzTypeOK'
      <3>1. violated' \in BOOLEAN
        BY <2>1, Zenon
      <3>2. data_size' \in 0 .. MaxInput /\ iterator' \in 0 .. data_size'
        BY <2>1, BoundsAreNat
      <3>3. copied' \in [from : Nat, to : Nat, room : Nat] /\ target' = "running"
        BY <2>1, NoCopyIsACopy, Zenon
      <3>4. QED
        BY <3>1, <3>2, <3>3 DEF FuzzTypeOK
    <2>3. CopiesStayInside' /\ copied'.to <= iterator'
      BY <2>1, NoCopyIsACopy DEF CopiesStayInside
    <2>4. QED
      BY <2>1, <2>2, <2>3 DEF FuzzInv
  <1>3. ASSUME NEW k \in TypeSize, Nd(k)
        PROVE  Goal
    <2>1. k \in 0 .. MaxAlloc /\ k \in Nat
      BY TypeSizesArePositive, BoundsAreNat
    <2>2. QED
      BY <1>3, <2>1, TakeKeeps DEF Nd
  <1>4. ASSUME NEW size \in Request, MallocHavoc(size)
        PROVE  Goal
    <2>1. CASE UNCHANGED fuzz_vars
      BY <1>1, <2>1
    <2>2. CASE Succeeds(size) /\ Take(size, size)
      <3>1. size \in 0 .. MaxAlloc /\ size \in Nat
        BY <2>2, RequestIsASize, WordIsLarge, BoundsAreNat DEF Succeeds
      <3>2. QED
        BY <1>4, <2>2, <3>1, TakeKeeps DEF MallocHavoc
    <2>3. QED
      BY <1>4, <2>1, <2>2 DEF MallocHavoc
  <1>5. ASSUME NEW size \in Request, SeaMallocSafe(size)
        PROVE  Goal
    BY <1>5 DEF SeaMallocSafe, EndOfRun, fuzz_vars, FuzzInv, FuzzTypeOK, CopiesStayInside
  <1>6. ASSUME NEW size \in Request, SeaMallocAlignedHavoc(size)
        PROVE  Goal
    <2>1. CASE UNCHANGED fuzz_vars
      BY <1>1, <2>1
    <2>2. CASE Succeeds(AlignRoundUp(size)) /\ Take(size, AlignRoundUp(size))
      <3>1. AlignRoundUp(size) \in Nat /\ AlignRoundUp(size) >= size
        BY <1>6, RoundsUp DEF SeaMallocAlignedHavoc
      <3>2. size \in 0 .. MaxAlloc
        BY <2>2, <3>1, RequestIsASize, WordIsLarge, BoundsAreNat DEF Succeeds
      <3>3. QED
        BY <1>6, <2>2, <3>1, <3>2, TakeKeeps DEF SeaMallocAlignedHavoc
    <2>3. QED
      BY <1>6, <2>1, <2>2 DEF SeaMallocAlignedHavoc
  <1>7. CASE Assume(FALSE) \/ UnitProofReturns
    BY <1>7 DEF Assume, UnitProofReturns, EndOfRun, FuzzInv, FuzzTypeOK, CopiesStayInside
  <1>8. CASE AssertionFails
    BY <1>8 DEF AssertionFails, FuzzInv, FuzzTypeOK, CopiesStayInside
  <1>9. QED
    BY <1>1, <1>2, <1>3, <1>4, <1>5, <1>6, <1>7, <1>8 DEF FuzzNext

LEMMA FuzzStarts == FuzzInit => FuzzInv
  <1> SUFFICES ASSUME FuzzInit PROVE FuzzInv
    OBVIOUS
  <1>1. FuzzTypeOK
    <2>1. violated \in BOOLEAN
      BY Zenon DEF FuzzInit
    <2>2. data_size \in 0 .. MaxInput /\ iterator \in 0 .. data_size
      BY BoundsAreNat DEF FuzzInit
    <2>3. copied \in [from : Nat, to : Nat, room : Nat] /\ target = "idle"
      BY NoCopyIsACopy, Zenon DEF FuzzInit
    <2>4. QED
      BY <2>1, <2>2, <2>3 DEF FuzzTypeOK
  <1>2. CopiesStayInside /\ copied.to <= iterator
    BY NoCopyIsACopy DEF FuzzInit, CopiesStayInside
  <1>3. QED
    BY <1>1, <1>2 DEF FuzzInv

(* The cursor of nd_fuzz.c stays inside of the input, run after run, however *)
(* a run ended.                                                            *)
THEOREM FuzzTypeCorrect == FuzzSpec => []FuzzTypeOK
  <1>1. FuzzInv /\ [FuzzNext]_fuzz_vars => FuzzInv'
    BY StepKeeps
  <1>2. FuzzInv => FuzzTypeOK
    BY DEF FuzzInv
  <1>3. QED
    BY FuzzStarts, <1>1, <1>2, PTL DEF FuzzSpec

(* memhavoc and the nd functions never read behind the input, nor write     *)
(* behind the block an allocator of fuzz_allocators.c gave them.           *)
THEOREM CopiesInside == FuzzSpec => []CopiesStayInside
  <1>1. FuzzInv /\ [FuzzNext]_fuzz_vars => FuzzInv'
    BY StepKeeps
  <1>2. FuzzInv => CopiesStayInside
    BY DEF FuzzInv
  <1>3. QED
    BY FuzzStarts, <1>1, <1>2, PTL DEF FuzzSpec

(* No two choices of one run are made from the same bytes. *)
THEOREM BytesUsedOnce == FuzzSpec => NoByteIsUsedTwice
  <1> DEFINE Later == target' = "running" /\ target = "running" /\ copied' # copied
                          => copied'.from >= copied.to
  <1>1. FuzzInv /\ [FuzzNext]_fuzz_vars => FuzzInv'
    BY StepKeeps
  <1>2. FuzzInv /\ [FuzzNext]_fuzz_vars => [Later]_fuzz_vars
    BY StepKeeps
  <1>3. QED
    BY FuzzStarts, <1>1, <1>2, PTL DEF FuzzSpec, NoByteIsUsedTwice

-----------------------------------------------------------------------------
(* The script.  The invariant splits what SeaHorn has printed: each line is *)
(* still in the pipe or has left its trace in the variables of the loop.   *)

Queued == {pipe[k] : k \in 1 .. Len(pipe)}

(* The pipe is empty and SeaHorn gone when the loop has ended. *)
LoopEnds == expect # None =>
    /\ script # "replaced"
    /\ script \in {"waiting", "returned"} => pipe = <<>> /\ sea = "exited"
    /\ script = "returned" => verdict = Verdict

SplitAnswer == expect # None =>
    (Answer(expect) \in printed <=> found_expected = 1 \/ Answer(expect) \in Queued)

SplitError == AssertionFailed \in printed /\ expect # None
              <=> expect # None /\ (found_error = 1 \/ AssertionFailed \in Queued)

SplitPassed == expect # None => \A l \in Locations :
    ReportedReached(l) <=> l \in vacuity_passed \/ Vacuity("Info", "passed", l) \in Queued

SplitFailed == expect # None => \A l \in Locations :
    ReportedVacuous(l) <=> l \in vacuity_failed \/ Vacuity("Error", "failed", l) \in Queued

ScriptInv == ScriptTypeOK /\ (script = "start" => sea = "none") /\ LoopEnds
        /\ SplitAnswer /\ SplitError /\ SplitPassed /\ SplitFailed

(* What a line appended to the pipe, or taken from it, does to the set of  *)
(* the lines in it.                                                        *)
LEMMA QueuedAppend ==
    ASSUME NEW T, NEW s \in Seq(T), NEW e \in T
    PROVE  {Append(s, e)[k] : k \in 1 .. Len(Append(s, e))} = {s[k] : k \in 1 .. Len(s)} \cup {e}
<1> DEFINE t == Append(s, e)
<1>1. Len(t) = Len(s) + 1 /\ t[Len(s) + 1] = e /\ \A k \in 1 .. Len(s) : t[k] = s[k]
  OBVIOUS
<1>2. Len(s) \in Nat
  OBVIOUS
<1> HIDE DEF t
<1>3. {t[k] : k \in 1 .. Len(t)} = {s[k] : k \in 1 .. Len(s)} \cup {e}
  BY <1>1, <1>2
<1> QED BY <1>3 DEF t

LEMMA QueuedTail ==
    ASSUME NEW T, NEW s \in Seq(T), s # <<>>
    PROVE  {s[k] : k \in 1 .. Len(s)} = {Tail(s)[k] : k \in 1 .. Len(Tail(s))} \cup {Head(s)}
<1> DEFINE t == Tail(s)
<1>1. Len(s) \in Nat \ {0} /\ Len(t) = Len(s) - 1 /\ Head(s) = s[1]
      /\ \A k \in 1 .. Len(t) : t[k] = s[k + 1]
  OBVIOUS
<1> HIDE DEF t
<1>2. ASSUME NEW x \in {s[k] : k \in 1 .. Len(s)}
      PROVE  x \in {t[k] : k \in 1 .. Len(t)} \cup {s[1]}
  <2>1. PICK k \in 1 .. Len(s) : x = s[k]
    OBVIOUS
  <2>2. CASE k = 1
    BY <2>1, <2>2
  <2>3. CASE k # 1
    <3>1. k - 1 \in 1 .. Len(t) /\ t[k - 1] = s[k]
      BY <1>1, <2>3
    <3> QED BY <3>1, <2>1
  <2> QED BY <2>2, <2>3
<1>3. ASSUME NEW x \in {t[k] : k \in 1 .. Len(t)} \cup {s[1]}
      PROVE  x \in {s[k] : k \in 1 .. Len(s)}
  <2>1. CASE x = s[1]
    BY <1>1, <2>1
  <2>2. CASE x \in {t[k] : k \in 1 .. Len(t)}
    <3>1. PICK k \in 1 .. Len(t) : x = t[k]
      BY <2>2
    <3>2. k + 1 \in 1 .. Len(s) /\ x = s[k + 1]
      BY <1>1, <3>1
    <3> QED BY <3>2
  <2> QED BY <2>1, <2>2
<1>4. {s[k] : k \in 1 .. Len(s)} = {t[k] : k \in 1 .. Len(t)} \cup {s[1]}
  BY <1>2, <1>3
<1> QED BY <1>4, <1>1 DEF t

(* A line with a verdict on vacuity is made of its stream, result and place. *)
LEMMA VacuityLine ==
    ASSUME NEW line \in Line, line.what \in {"passed", "failed"}
    PROVE  line.info \in Locations /\ line = Vacuity(line.stream, line.what, line.info)
<1>1. line \notin {Answer(a) : a \in Answers}
  BY DEF Answer
<1>2. line # AssertionFailed /\ line # Other
  <2>1. AssertionFailed.what = "assertion failed" /\ Other.what = "other"
    BY DEF AssertionFailed, Other
  <2> QED BY <2>1
<1>3. line \in [what : {"passed", "failed"}, stream : {"Info", "Error"}, info : Locations]
  BY <1>1, <1>2 DEF Line
<1> QED BY <1>3 DEF Vacuity

(* What check_vacuity adds to its sets, said of the line as a whole. *)
LEMMA VacuitySets ==
    ASSUME NEW line \in Line, CheckVacuity(line), NEW l \in Locations
    PROVE  /\ l \in vacuity_passed' <=> l \in vacuity_passed \/ line = Vacuity("Info", "passed", l)
           /\ l \in vacuity_failed' <=> l \in vacuity_failed \/ line = Vacuity("Error", "failed", l)
<1>1. line.what = "passed" /\ line.stream = "Info" /\ line.info = l <=> line = Vacuity("Info", "passed", l)
  BY VacuityLine DEF Vacuity
<1>2. line.what = "failed" /\ line.stream = "Error" /\ line.info = l <=> line = Vacuity("Error", "failed", l)
  BY VacuityLine DEF Vacuity
<1> QED BY <1>1, <1>2 DEF CheckVacuity

(* At the start nothing is printed and nothing found. *)
LEMMA ScriptStarts == ScriptInit => ScriptInv
<1> SUFFICES ASSUME ScriptInit PROVE ScriptInv
  OBVIOUS
<1>1. ScriptTypeOK
  BY DEF ScriptInit, ScriptTypeOK
<1>2. Queued = {}
  BY DEF ScriptInit, Queued
<1>3. LoopEnds
  BY DEF ScriptInit, LoopEnds
<1>4. SplitAnswer /\ SplitError /\ SplitPassed /\ SplitFailed
  BY <1>2 DEF ScriptInit, SplitAnswer, SplitError, SplitPassed, SplitFailed,
     ReportedReached, ReportedVacuous
<1> QED BY <1>1, <1>3, <1>4 DEF ScriptInv, ScriptInit

(* A printed line is a queued line. *)
LEMMA PrintsStep ==
    ASSUME ScriptInv, NEW l \in Line, SeaHornPrints(l)
    PROVE  ScriptInv'
<1> USE DEF ScriptInv
<1>1. ScriptTypeOK'
  BY DEF ScriptTypeOK, SeaHornPrints, options, found
<1>2. LoopEnds'
  BY DEF LoopEnds, SeaHornPrints, options, found, Verdict
<1>3. expect # None => Queued' = Queued \cup {l}
  <2>1. expect # None => pipe' = Append(pipe, l)
    BY DEF SeaHornPrints, LoopEnds
  <2>2. pipe \in Seq(Line)
    BY DEF ScriptTypeOK
  <2> QED BY <2>1, <2>2, QueuedAppend DEF Queued
<1>4. printed' = printed \cup {l} /\ UNCHANGED <<options, script, found, sea>>
  BY DEF SeaHornPrints
<1>5. (SplitAnswer /\ SplitError)'
  BY <1>3, <1>4 DEF SplitAnswer, SplitError, options, found, Answer,
     AssertionFailed
<1>6. (SplitPassed /\ SplitFailed)'
  BY <1>3, <1>4 DEF SplitPassed, SplitFailed, options, found,
     ReportedReached, ReportedVacuous
<1> QED BY <1>1, <1>2, <1>4, <1>5, <1>6

(* A line that is read leaves its trace: by the three tests in turn. *)
LEMMA ReadStep ==
    ASSUME ScriptInv, ReadLine
    PROVE  ScriptInv'
<1> USE DEF ScriptInv
<1> DEFINE line == Head(pipe)
<1>1. pipe \in Seq(Line) /\ pipe # <<>> /\ pipe' = Tail(pipe) /\ script = "reading"
      /\ UNCHANGED <<options, script, sea, rcode, verdict, printed, lines>>
  BY DEF ScriptTypeOK, ReadLine
<1>2. line \in Line
  BY <1>1
<1>3. Queued = Queued' \cup {line}
  BY <1>1, QueuedTail DEF Queued
<1> HIDE DEF line
<1>a. CASE found_expected = 0 /\ line = Answer(expect)
  <2>1. found_expected' = 1 /\ UNCHANGED <<found_error, vacuity_passed, vacuity_failed>>
    BY <1>a DEF ReadLine, line
  <2>2. ScriptTypeOK'
    BY <1>1, <2>1 DEF ScriptTypeOK, options
  <2>3. SplitAnswer'
    BY <1>1, <1>3, <1>a, <2>1 DEF SplitAnswer, options, Answer
  <2>4. SplitError'
    BY <1>1, <1>3, <1>a, <2>1 DEF SplitError, options, AssertionFailed, Answer
  <2>5. SplitPassed' /\ SplitFailed'
    BY <1>1, <1>3, <1>a, <2>1 DEF SplitPassed, SplitFailed, ReportedReached,
       ReportedVacuous, options, Vacuity, Answer
  <2>6. LoopEnds'
    BY <1>1 DEF LoopEnds, options
  <2> QED BY <1>1, <2>2, <2>3, <2>4, <2>5, <2>6
<1>b. CASE ~(found_expected = 0 /\ line = Answer(expect)) /\ line = AssertionFailed
  <2>1. found_error' = 1 /\ UNCHANGED <<found_expected, vacuity_passed, vacuity_failed>>
    BY <1>b DEF ReadLine, line
  <2>2. ScriptTypeOK'
    BY <1>1, <2>1 DEF ScriptTypeOK, options
  <2>3. SplitAnswer'
    BY <1>1, <1>3, <1>b, <2>1 DEF SplitAnswer, options, AssertionFailed, Answer
  <2>4. SplitError'
    BY <1>1, <1>3, <1>b, <2>1 DEF SplitError, options
  <2>5. SplitPassed' /\ SplitFailed'
    BY <1>1, <1>3, <1>b, <2>1 DEF SplitPassed, SplitFailed, ReportedReached,
       ReportedVacuous, options, Vacuity, AssertionFailed
  <2>6. LoopEnds'
    BY <1>1 DEF LoopEnds, options
  <2> QED BY <1>1, <2>2, <2>3, <2>4, <2>5, <2>6
<1>c. CASE ~(found_expected = 0 /\ line = Answer(expect)) /\ line # AssertionFailed
  <2>1. CheckVacuity(line) /\ UNCHANGED <<found_expected, found_error>>
    <3>1. ReadLine /\ line = Head(pipe)
      BY DEF line
    <3> QED BY <3>1, <1>c, <1>1 DEF ReadLine
  <2>2. vacuity_passed' \subseteq Locations /\ vacuity_failed' \subseteq Locations
    <3>1. line.what \in {"passed", "failed"} => line.info \in Locations
      BY <1>2, VacuityLine
    <3> QED BY <3>1, <2>1 DEF ScriptTypeOK, CheckVacuity
  <2>3. ScriptTypeOK'
    BY <1>1, <2>1, <2>2 DEF ScriptTypeOK, options
  <2>4. SplitAnswer'
    BY <1>1, <1>3, <1>c, <2>1 DEF SplitAnswer, options, ScriptTypeOK
  <2>5. SplitError'
    BY <1>1, <1>3, <1>c, <2>1 DEF SplitError, options
  <2>6. SplitPassed'
    BY <1>1, <1>2, <1>3, <2>1, VacuitySets DEF SplitPassed, ReportedReached, options
  <2>7. SplitFailed'
    BY <1>1, <1>2, <1>3, <2>1, VacuitySets DEF SplitFailed, ReportedVacuous, options
  <2>8. LoopEnds'
    BY <1>1 DEF LoopEnds, options
  <2> QED BY <1>1, <2>3, <2>4, <2>5, <2>6, <2>7, <2>8
<1> QED BY <1>a, <1>b, <1>c

(* Every other step changes neither the lines nor what was found. *)
LEMMA OtherStep ==
    ASSUME ScriptInv, Execv \/ Popen \/ EndOfOutput \/ Wait \/ \E code \in ExitCodes : Exit(code)
    PROVE  ScriptInv'
<1> USE DEF ScriptInv
<1>1. UNCHANGED <<options, pipe, found, printed, lines>>
  BY DEF Execv, Popen, EndOfOutput, Wait, Exit
<1>2. UNCHANGED <<vac, expect, found_expected, found_error, vacuity_passed, vacuity_failed>>
  BY <1>1 DEF options, found
<1>3. (SplitAnswer /\ SplitError /\ SplitPassed /\ SplitFailed)'
  BY <1>1, <1>2 DEF SplitAnswer, SplitError, SplitPassed, SplitFailed, Queued,
     ReportedReached, ReportedVacuous
<1>4. CASE Execv
  BY <1>1, <1>2, <1>3, <1>4 DEF Execv, ScriptTypeOK, LoopEnds
<1>5. CASE Popen
  BY <1>1, <1>2, <1>3, <1>5 DEF Popen, ScriptTypeOK, LoopEnds
<1>6. CASE EndOfOutput
  BY <1>1, <1>2, <1>3, <1>6 DEF EndOfOutput, ScriptTypeOK, LoopEnds
<1>7. CASE Wait
  <2>1. Verdict \in ExitCodes \cup {0, 1, 2}
    BY DEF Verdict, ScriptTypeOK
  <2>2. Verdict' = Verdict
    BY <1>2, <1>7 DEF Wait, Verdict
  <2>3. verdict' = Verdict /\ script' = "returned" /\ UNCHANGED <<sea, rcode>> /\ script = "waiting" /\ sea = "exited"
    BY <1>7 DEF Wait
  <2>4. ScriptTypeOK'
    BY <1>1, <1>2, <2>1, <2>3 DEF ScriptTypeOK
  <2>5. LoopEnds'
    BY <1>1, <1>2, <2>2, <2>3 DEF LoopEnds
  <2> QED BY <1>3, <2>3, <2>4, <2>5
<1>8. ASSUME NEW code \in ExitCodes, Exit(code)
      PROVE  ScriptInv'
  <2>1. sea = "running" /\ sea' = "exited" /\ rcode' = code
        /\ (IF script = "replaced" THEN script' = "returned" /\ verdict' = code ELSE UNCHANGED <<script, verdict>>)
    BY <1>8 DEF Exit
  <2>2. ScriptTypeOK'
    BY <1>1, <1>2, <2>1 DEF ScriptTypeOK
  <2>3. LoopEnds'
    BY <1>1, <1>2, <2>1 DEF LoopEnds
  <2> QED BY <1>3, <2>1, <2>2, <2>3
<1> QED BY <1>4, <1>5, <1>6, <1>7, <1>8

LEMMA ScriptStutters == ScriptInv /\ UNCHANGED script_vars => ScriptInv'
  BY DEF ScriptInv, script_vars, options, found, ScriptTypeOK, LoopEnds,
     Verdict, SplitAnswer, SplitError,
     SplitPassed, SplitFailed, Queued, ReportedReached, ReportedVacuous

LEMMA ScriptStep == ScriptInv /\ [ScriptNext]_script_vars => ScriptInv'
  BY PrintsStep, ReadStep, OtherStep, ScriptStutters DEF ScriptNext

(* When the script has returned the pipe is empty: the trace is all. *)
LEMMA InvIsRight == ScriptInv => ZeroMeansVerified
<1> SUFFICES ASSUME ScriptInv, script = "returned", expect # None
             PROVE  verdict = 0 <=> Verified
  BY DEF ZeroMeansVerified
<1>1. Queued = {} /\ verdict = Verdict
  BY DEF ScriptInv, LoopEnds, Queued
<1>2. Answer(expect) \in printed <=> found_expected = 1
  BY <1>1 DEF ScriptInv, SplitAnswer
<1>3. AssertionFailed \in printed <=> found_error = 1
  BY <1>1 DEF ScriptInv, SplitError
<1>4. \A l \in Locations : (ReportedReached(l) <=> l \in vacuity_passed)
                           /\ (ReportedVacuous(l) <=> l \in vacuity_failed)
  BY <1>1 DEF ScriptInv, SplitPassed, SplitFailed
<1>5. (\A l \in Locations : ReportedVacuous(l) => ReportedReached(l))
      <=> vacuity_failed \ vacuity_passed = {}
  BY <1>4 DEF ScriptInv, ScriptTypeOK
<1>6. Verdict = 0 <=>
          /\ rcode = 0 /\ found_expected = 1
          /\ vac = 1 => found_error # 1 /\ vacuity_failed \ vacuity_passed = {}
  BY DEF Verdict, ScriptInv, ScriptTypeOK
<1> QED BY <1>1, <1>2, <1>3, <1>5, <1>6 DEF Verified

(* The variables keep their types. *)
THEOREM ScriptTypeCorrect == ScriptSpec => []ScriptTypeOK
<1>1. ScriptInv => ScriptTypeOK
  BY DEF ScriptInv
<1> QED BY ScriptStarts, ScriptStep, <1>1, PTL DEF ScriptSpec

(* For every pipe, option and output of SeaHorn: the script says 0 exactly *)
(* when all that SeaHorn printed, and its exit code, say so.               *)
THEOREM VerdictIsRight == ScriptSpec => []ZeroMeansVerified
<1> QED BY ScriptStarts, ScriptStep, InvIsRight, PTL DEF ScriptSpec

-----------------------------------------------------------------------------
(* The functions of bcmp.c. *)

(* Bytes k of the two blocks, and where the loops may read them. *)
Same(k) == mem[p1 + k] = mem[p2 + k]

EqualSoFar == pc \in {"pre-unrolled", "rest"} =>
    /\ p1 # p2
    /\ \A k \in 0 .. n - 1 : k < i => Same(k)

(* The loops stay in their bounds. *)
Position == (pc = "start" => i = 0) /\ (i <= MaxBufferSize \/ i <= n)

Arguments == Block(p1, n) /\ Block(p2, n)

IInv == TypeOK /\ Arguments /\ Position /\ EqualSoFar /\ ResultIsFirstDifference /\ ReadsStayInside

(* A number below n is where both blocks have a byte. *)
LEMMA InBlock ==
    ASSUME NEW p \in Address \cup {NULL}, n \in Length, Block(p, n), NEW k \in 0 .. n - 1
    PROVE  p # NULL /\ p + k \in Address /\ p + k \in p .. p + n - 1
BY MemCompareAssumption DEF Block, Address, NULL, Length

(* The first place where the blocks differ is First. *)
LEMMA FirstIs ==
    ASSUME n \in Nat, NEW k \in 0 .. n - 1, ~Same(k), \A l \in 0 .. n - 1 : l < k => Same(l)
    PROVE  First = k /\ Differences # {}
<1>1. k \in Differences /\ \A l \in Differences : k <= l
  BY DEF Differences, Same
<1>2. \A m \in Differences : (\A l \in Differences : m <= l) => m = k
  BY <1>1 DEF Differences
<1>3. First \in Differences /\ \A l \in Differences : First <= l
  BY <1>1 DEF First
<1> QED BY <1>1, <1>2, <1>3

LEMMA InitInv == Init => IInv
BY MemCompareAssumption DEF Init, IInv, TypeOK, Arguments, Position, EqualSoFar, ResultIsFirstDifference, ReadsStayInside, Length

(* What a step that returns r has to establish. *)
LEMMA ReturnStep ==
    ASSUME NEW r \in {-1, 0, 1}, IInv, UNCHANGED arguments, UNCHANGED i, Return(r),
           read' \subseteq Address, ReadsStayInside',
           NULL \notin {p1, p2} =>
               /\ r = 0 <=> Differences = {}
               /\ function = "memcmp" /\ Differences # {} =>
                      (r < 0 <=> mem[p1 + First] < mem[p2 + First])
    PROVE  IInv'
<1>1. UNCHANGED <<function, mem, p1, p2, n, i>> /\ pc' = "returned" /\ result' = r
  BY DEF arguments, Return
<1>2. TypeOK'
  BY <1>1 DEF IInv, TypeOK
<1>3. Arguments'
  BY <1>1 DEF IInv, Arguments, Block
<1>4. Position' /\ EqualSoFar'
  BY <1>1 DEF IInv, Position, EqualSoFar
<1>5. Differences' = Differences /\ First' = First
  BY <1>1 DEF Differences, First
<1>6. ResultIsFirstDifference'
  BY <1>1, <1>5 DEF ResultIsFirstDifference
<1> QED BY <1>2, <1>3, <1>4, <1>6 DEF IInv

(* Either loop compares byte i < n. *)
LEMMA CompareStep ==
    ASSUME IInv, pc \in {"pre-unrolled", "rest"}, i < n, Compare, UNCHANGED arguments
    PROVE  IInv'
<1>1. n \in Nat /\ n <= MaxLength /\ i \in Nat /\ i \in 0 .. n - 1 /\ n \in Length
  BY MemCompareAssumption DEF IInv, TypeOK, Length
<1>2. /\ p1 # NULL /\ p1 + i \in Address /\ p1 + i \in p1 .. p1 + n - 1
      /\ p2 # NULL /\ p2 + i \in Address /\ p2 + i \in p2 .. p2 + n - 1
  BY <1>1, InBlock DEF IInv, TypeOK, Arguments
<1>3. UNCHANGED <<function, mem, p1, p2, n>> /\ read' = read \cup {p1 + i, p2 + i}
  BY DEF arguments, Compare
<1>4. read' \subseteq Address /\ ReadsStayInside'
  BY <1>2, <1>3 DEF IInv, TypeOK, ReadsStayInside
<1>5. CASE mem[p1 + i] # mem[p2 + i]
  <2> DEFINE r == Differ(mem[p1 + i], mem[p2 + i])
  <2>1. Return(r) /\ UNCHANGED i
    BY <1>5 DEF Compare
  <2>2. mem[p1 + i] \in Int /\ mem[p2 + i] \in Int
    <3>1. mem \in [Address -> Byte]
      BY DEF IInv, TypeOK
    <3>2. mem[p1 + i] \in Byte /\ mem[p2 + i] \in Byte
      BY <1>2, <3>1
    <3>3. \A b \in Byte : b \in Int
      BY MemCompareAssumption
    <3> QED BY <3>2, <3>3, Zenon
  <2>3. r \in {-1, 1} /\ (function = "memcmp" => (r < 0 <=> mem[p1 + i] < mem[p2 + i]))
    BY <2>2 DEF Differ, IInv, TypeOK
  <2>4. First = i /\ Differences # {}
    BY <1>1, <1>5, FirstIs DEF IInv, EqualSoFar, Same
  <2> HIDE DEF r
  <2> QED BY <1>4, <2>1, <2>3, <2>4, ReturnStep
<1>6. CASE mem[p1 + i] = mem[p2 + i]
  <2>1. i' = i + 1 /\ UNCHANGED <<pc, result>>
    BY <1>6 DEF Compare
  <2>2. TypeOK'
    BY <1>1, <1>3, <1>4, <2>1, MemCompareAssumption DEF IInv, TypeOK
  <2>3. Arguments'
    BY <1>3 DEF IInv, Arguments, Block
  <2>4. Position'
    BY <1>1, <1>3, <2>1 DEF Position
  <2>5. EqualSoFar'
    <3>1. p1 # p2
      BY DEF IInv, EqualSoFar
    <3>2. ASSUME NEW k \in 0 .. n - 1, k < i + 1 PROVE Same(k)
      <4>1. CASE k = i
        BY <1>6, <4>1 DEF Same
      <4>2. CASE k < i
        BY <4>2 DEF IInv, EqualSoFar
      <4> QED BY <3>2, <4>1, <4>2, <1>1
    <3> QED BY <1>3, <2>1, <3>1, <3>2 DEF EqualSoFar, Same
  <2>6. ResultIsFirstDifference'
    BY <2>1 DEF ResultIsFirstDifference
  <2> QED BY <1>4, <2>2, <2>3, <2>4, <2>5, <2>6 DEF IInv
<1> QED BY <1>5, <1>6

(* The same block is equal to itself; NULL is answered without a read. *)
LEMMA StartStep == ASSUME IInv, Start PROVE IInv'
<1>1. UNCHANGED <<function, mem, p1, p2, n, i, read>> /\ UNCHANGED arguments /\ pc = "start" /\ i = 0
  BY DEF Start, arguments, IInv, Position
<1>2. ReadsStayInside' /\ read' \subseteq Address
  BY <1>1 DEF IInv, ReadsStayInside, TypeOK
<1>3. CASE p1 = p2
  <2>1. Return(0) /\ Differences = {}
    BY <1>3 DEF Start, Differences
  <2> QED BY <1>1, <1>2, <2>1, ReturnStep
<1>4. CASE p1 # p2 /\ function = "bcmp" /\ NULL \in {p1, p2}
  <2>1. Return(1)
    BY <1>4 DEF Start
  <2> QED BY <1>1, <1>2, <1>4, <2>1, ReturnStep
<1>5. CASE p1 # p2 /\ ~(function = "bcmp" /\ NULL \in {p1, p2})
  <2>1. pc' = "pre-unrolled" /\ UNCHANGED result
    BY <1>5 DEF Start
  <2>2. n \in Nat
    BY DEF IInv, TypeOK, Length
  <2>3. EqualSoFar'
    BY <1>1, <1>5, <2>2 DEF EqualSoFar
  <2>4. TypeOK' /\ Position'
    BY <1>1, <2>1 DEF IInv, TypeOK, Position
  <2>5. Arguments'
    BY <1>1 DEF IInv, Arguments, Block
  <2>6. ResultIsFirstDifference'
    BY <2>1 DEF ResultIsFirstDifference
  <2> QED BY <1>2, <2>3, <2>4, <2>5, <2>6 DEF IInv
<1> QED BY <1>3, <1>4, <1>5

(* The unrolled loop goes on behind n without a read, then the rest begins. *)
LEMMA PreUnrolledStep == ASSUME IInv, PreUnrolled \/ PreUnrolledEnds PROVE IInv'
<1>1. CASE PreUnrolled /\ i < n
  BY <1>1, CompareStep DEF PreUnrolled
<1>2. CASE (PreUnrolled /\ ~(i < n)) \/ PreUnrolledEnds
  <2>1. /\ UNCHANGED <<function, mem, p1, p2, n, result, read>>
        /\ pc = "pre-unrolled" /\ pc' \in {"pre-unrolled", "rest"}
        /\ i' = i \/ (i' = i + 1 /\ i < MaxBufferSize /\ ~(i < n))
    BY <1>2 DEF PreUnrolled, PreUnrolledEnds, arguments
  <2>2. n \in Nat /\ n <= MaxLength /\ i \in Nat
    BY MemCompareAssumption DEF IInv, TypeOK, Length
  <2>3. TypeOK'
    BY <2>1, <2>2, MemCompareAssumption DEF IInv, TypeOK
  <2>4. Arguments'
    BY <2>1 DEF IInv, Arguments, Block
  <2>5. Position'
    BY <2>1, <2>2, MemCompareAssumption DEF IInv, Position
  <2>6. EqualSoFar'
    <3>1. p1 # p2 /\ \A k \in 0 .. n - 1 : k < i => Same(k)
      BY <2>1 DEF IInv, EqualSoFar
    <3>2. \A k \in 0 .. n - 1 : k < i' => Same(k)
      BY <2>1, <2>2, <3>1
    <3> QED BY <2>1, <3>1, <3>2 DEF EqualSoFar, Same
  <2>7. ResultIsFirstDifference'
    BY <2>1 DEF ResultIsFirstDifference
  <2>8. ReadsStayInside'
    BY <2>1 DEF IInv, ReadsStayInside
  <2> QED BY <2>3, <2>4, <2>5, <2>6, <2>7, <2>8 DEF IInv
<1> QED BY <1>1, <1>2

(* Behind the last byte the blocks are known to be equal. *)
LEMMA RestStep == ASSUME IInv, Rest \/ RestEnds PROVE IInv'
<1>1. CASE Rest
  BY <1>1, CompareStep DEF Rest
<1>2. CASE RestEnds
  <2>1. pc = "rest" /\ i >= n /\ Return(0) /\ UNCHANGED <<arguments, i, read>>
    BY <1>2 DEF RestEnds
  <2>2. n \in Nat /\ i \in Nat
    BY MemCompareAssumption DEF IInv, TypeOK, Length
  <2>3. Differences = {}
    BY <2>1, <2>2 DEF IInv, EqualSoFar, Same, Differences
  <2>4. ReadsStayInside' /\ read' \subseteq Address
    BY <2>1 DEF IInv, ReadsStayInside, TypeOK, arguments
  <2> QED BY <2>1, <2>3, <2>4, ReturnStep
<1> QED BY <1>1, <1>2

LEMMA StutterStep == IInv /\ UNCHANGED vars => IInv'
BY DEF IInv, vars, TypeOK, Arguments, Block, Position, EqualSoFar, Same, ResultIsFirstDifference, Differences, First,
   Differences, ReadsStayInside

LEMMA NextStep == IInv /\ [Next]_vars => IInv'
BY StartStep, PreUnrolledStep, RestStep, StutterStep DEF Next

LEMMA Invariance == Spec => []IInv
BY InitInv, NextStep, PTL DEF Spec

(* The variables keep their types: no address outside the memory is read.  *)
THEOREM TypeCorrect == Spec => []TypeOK
<1>1. IInv => TypeOK
  BY DEF IInv
<1> QED BY Invariance, <1>1, PTL

(* Whatever the length, and wherever the first loop ends, the result is     *)
(* that of the first byte in which the blocks differ.                      *)
THEOREM ResultCorrect == Spec => []ResultIsFirstDifference
<1>1. IInv => ResultIsFirstDifference
  BY DEF IInv
<1> QED BY Invariance, <1>1, PTL

(* No byte beyond the length is read, also when the first loop is longer.  *)
THEOREM ReadsCorrect == Spec => []ReadsStayInside
<1>1. IInv => ReadsStayInside
  BY DEF IInv
<1> QED BY Invariance, <1>1, PTL

-----------------------------------------------------------------------------
(* memcpy, memmove and memset. *)

move_arguments == <<move_function, to, from, len>>

(* The memory in which the destination's bytes from lo to hi are the new     *)
(* ones and all the others the old.                                        *)
Moved(lo, hi) ==
    [a \in Move!Address |->
        IF a \notin lo .. hi - 1 THEN a
        ELSE IF move_function = "memset" THEN Move!Value
        ELSE from + (a - to)]

MoveArguments ==
    /\ move_function \in {"memcpy", "memmove", "memset"}
    /\ to \in Nat /\ from \in Nat /\ len \in 0 .. MaxMoveLength
    /\ (to + len) + 4 \in Move!Address /\ (from + len) + 4 \in Move!Address
    /\ move_function = "memcpy" => (to + len <= from \/ from + len <= to)
    /\ move_function = "memset" => from = to

(* Going forward, what is done lies before tmp_to and n is left. *)
Forward ==
    /\ move_n \in 0 .. len
    /\ tmp_to = to + (len - move_n)
    /\ tmp_from = IF move_function = "memset" THEN from ELSE from + (len - move_n)
    /\ move_mem = Moved(to, tmp_to)
    /\ move_function = "memmove" => from >= to

(* Memory m after a move that goes back has come to place t: below it nothing *)
(* has changed, above it lie the new bytes, unless the blocks are too close, *)
(* and what lies beyond the reach of a word is old as well.                 *)
MovedBack(m, t) ==
    /\ m \in [Move!Address -> Move!Address \cup {Move!Value}]
    /\ \A a \in Move!Address :
          /\ a < t => m[a] = a
          /\ a >= t /\ a < to + len /\ ~Move!TooClose => m[a] = a - (to - from)
          /\ a >= (to + len) + Move!Beyond => m[a] = a

(* Going back, what is done lies behind tmp_to, as far from the source as    *)
(* ever.                                                                   *)
Backward ==
    /\ move_function = "memmove" /\ from < to
    /\ move_n \in 0 .. len
    /\ tmp_to \in to .. to + len
    /\ tmp_from = tmp_to - (to - from)
    /\ MovedBack(move_mem, tmp_to)

BackwardLabels == {"align", "align bytes", "copy_chunks", "lessthan8", "last bytes"}

(* How much of the destination is left, going back. *)
Distance == tmp_to - to

(* Each counter says what is left to do at its label. *)
Left ==
    /\ move_pc = "align" => move_n = Distance /\ move_n >= 8 /\ rem \in 1 .. 3
    /\ move_pc = "align bytes" => move_n + rem = Distance /\ rem \in 1 .. 3 /\ len >= 8
    /\ move_pc = "copy_chunks" => (8 * chunks) + (move_n % 8) = Distance /\ chunks >= 1
    /\ move_pc = "lessthan8" => move_n % 8 = Distance /\ (len < 8 => move_n = len)
    /\ move_pc = "last bytes" => move_n = Distance /\ move_n \in 1 .. 3

Counters == rem \in 0 .. 3 /\ chunks \in 0 .. MaxMoveLength \div 8

(* Where a loop has ended. *)
NothingLeft == move_pc = "returned" => move_n = 0
BackAtTheStart == move_pc = "returned" => tmp_to = to

AtLabel ==
    /\ move_pc = "memmove" =>
           /\ move_function = "memmove" /\ move_n = len
           /\ tmp_to = to /\ tmp_from = from /\ move_mem = Moved(to, to)
           /\ touched = {}
    /\ move_pc = "memcpy" => Forward /\ move_function # "memset"
    /\ move_pc = "memset" => Forward /\ move_function = "memset"
    /\ move_pc \in BackwardLabels => Backward

MoveInv ==
    /\ Move!TypeOK /\ MoveArguments
    /\ AtLabel /\ Left
    /\ Move!BytesAreMoved /\ Move!AccessesStayNear

-----------------------------------------------------------------------------

MoveTop == MaxStart + MaxDistance + MaxMoveLength + 8
Blocks == Move!Cells(to, len + Move!Beyond) \cup Move!Cells(from, len + Move!Beyond)

LEMMA MoveConstants ==
    /\ MoveTop \in Nat /\ Move!Address = 0 .. MoveTop /\ Move!Value \notin Nat
    /\ MaxMoveLength \in Nat /\ MaxStart \in Nat /\ MaxDistance \in Nat
    /\ WordSize \in {4, 8}
BY MoveAssumption DEF Move!ConstantsMakeSense, MoveTop, Move!Address, Move!Value

LEMMA Eighths ==
    ASSUME NEW k \in Nat
    PROVE  /\ k \div 8 \in Nat /\ k % 8 \in 0 .. 7 /\ k = (8 * (k \div 8)) + (k % 8)
           /\ k % 4 = IF k % 8 < 4 THEN k % 8 ELSE (k % 8) - 4
           /\ k < 8 => k \div 8 = 0 /\ k % 8 = k
           /\ k >= 8 => k \div 8 > 0
           /\ \A l \in Nat : k <= l => k \div 8 <= l \div 8
OBVIOUS

LEMMA Behind ==
    ASSUME NEW x \in Nat, NEW t \in Nat, NEW f \in Nat, NEW l \in Nat,
           f < t, t <= x, x <= t + l
    PROVE  x - (t - f) \in Nat /\ x - (t - f) <= f + l
OBVIOUS

LEMMA Done ==
    ASSUME NEW l \in Nat, NEW k \in 0 .. l
    PROVE  l - k \in Nat /\ l - k <= l
OBVIOUS

LEMMA NoDistance ==
    ASSUME NEW a \in Nat, NEW b \in Nat, b - a = 0
    PROVE  b = a
OBVIOUS

(* What the arguments say of where the blocks are. *)
LEMMA Places ==
    ASSUME MoveArguments
    PROVE  /\ to \in Nat /\ from \in Nat /\ len \in Nat /\ len <= MaxMoveLength
           /\ (to + len) + 4 <= MoveTop /\ (from + len) + 4 <= MoveTop
           /\ to + len <= MoveTop /\ from + len <= MoveTop
           /\ Move!Beyond \in 0 .. 4
           /\ Blocks = (to .. (to + len + Move!Beyond) - 1) \cup (from .. (from + len + Move!Beyond) - 1)
<1>1. /\ to \in Nat /\ from \in Nat /\ len \in Nat /\ len <= MaxMoveLength
      /\ (to + len) + 4 <= MoveTop /\ (from + len) + 4 <= MoveTop
  BY MoveConstants DEF MoveArguments
<1>2. Move!Beyond \in 0 .. 4  BY MoveConstants DEF Move!Beyond
<1>3. /\ to + ((len + Move!Beyond) - 1) = (to + len + Move!Beyond) - 1
      /\ from + ((len + Move!Beyond) - 1) = (from + len + Move!Beyond) - 1
  BY <1>1, <1>2
<1>4. Blocks = (to .. (to + len + Move!Beyond) - 1) \cup (from .. (from + len + Move!Beyond) - 1)
  BY <1>3 DEF Blocks, Move!Cells
<1>5. to + len <= MoveTop /\ from + len <= MoveTop  BY <1>1, MoveConstants
<1> QED  BY <1>1, <1>2, <1>4, <1>5

LEMMA BlocksInside ==
    ASSUME MoveArguments
    PROVE  /\ Blocks \subseteq Move!Address
           /\ Move!Cells(to, len) \subseteq Blocks /\ Move!Cells(from, len) \subseteq Blocks
<1>1. to .. (to + len + Move!Beyond) - 1 \subseteq Move!Address  BY Places, MoveConstants
<1>2. from .. (from + len + Move!Beyond) - 1 \subseteq Move!Address  BY Places, MoveConstants
<1>3. Move!Cells(to, len) \subseteq to .. (to + len + Move!Beyond) - 1  BY Places DEF Move!Cells
<1>4. Move!Cells(from, len) \subseteq from .. (from + len + Move!Beyond) - 1  BY Places DEF Move!Cells
<1> QED  BY <1>1, <1>2, <1>3, <1>4, Places

LEMMA MovedType ==
    ASSUME MoveArguments, NEW lo \in to .. to + len, NEW hi \in to .. to + len
    PROVE  Moved(lo, hi) \in [Move!Address -> Move!Address \cup {Move!Value}]
<1>1. ASSUME NEW a \in Move!Address, a \in lo .. hi - 1
      PROVE  from + (a - to) \in Move!Address
  BY <1>1, Places, MoveConstants
<1> QED  BY <1>1 DEF Moved

LEMMA MovedNothing ==
    ASSUME MoveArguments
    PROVE  Moved(to, to) = [a \in Move!Address |-> a]
<1>1. to .. to - 1 = {}  BY Places
<1> QED  BY <1>1 DEF Moved

(* What a step that goes back has to establish of the memory. *)
LEMMA BackwardHolds ==
    ASSUME Backward, UNCHANGED move_arguments, move_n' \in 0 .. len, tmp_to' \in to .. to + len,
           tmp_from' = tmp_to' - (to - from), MovedBack(move_mem', tmp_to')
    PROVE  Backward'
<1>1. UNCHANGED <<move_function, to, from, len>>  BY DEF move_arguments
<1>2. Move!TooClose' = Move!TooClose /\ Move!Beyond' = Move!Beyond
  BY <1>1 DEF Move!TooClose, Move!Beyond, Move!GoesBack, Move!GoesForward
<1>3. Move!Address' = Move!Address /\ Move!Value' = Move!Value  BY DEF Move!Address, Move!Value
<1> QED  BY <1>1, <1>2, <1>3 DEF Backward, MovedBack

(* The lengths that words of eight bytes matter for. *)
LEMMA Reach ==
    ASSUME MoveArguments, Backward
    PROVE  /\ len >= 4 => Move!Beyond = WordSize - 4
           /\ ~Move!TooClose => len < 8 \/ to - from >= WordSize - 4
BY Places, MoveConstants
DEF Backward, Move!Beyond, Move!TooClose, Move!GoesBack, Move!GoesForward

(* A word stored g bytes below where the move has come to. *)
LEMMA StoredBelow ==
    ASSUME MoveArguments, Backward, NEW g \in {4, 8}, tmp_to - g >= to,
           len < 8 => tmp_to = to + len,
           NEW m, MovedBack(m, (tmp_to - g) + 4)
    PROVE  MovedBack(Move!Stored(m, tmp_to - g, move_mem, tmp_from - g, WordSize), tmp_to - g)
<1> DEFINE d == tmp_to - g
           s == tmp_from - g
           gap == to - from
           new == Move!Stored(m, d, move_mem, s, WordSize)
<1>1. /\ to \in Nat /\ from \in Nat /\ len \in Nat /\ tmp_to \in Nat
      /\ tmp_to >= to /\ tmp_to <= to + len /\ gap \in Nat \ {0} /\ gap <= to
      /\ s = d - gap /\ d \in Nat /\ d >= to /\ d + g = tmp_to
      /\ WordSize \in {4, 8} /\ len >= 4 /\ Move!Beyond = WordSize - 4
  <2>1. /\ to \in Nat /\ from \in Nat /\ len \in Nat /\ WordSize \in {4, 8}
        /\ from < to /\ tmp_to \in to .. to + len /\ tmp_from = tmp_to - (to - from)
    BY Places, MoveConstants DEF Backward
  <2>2. gap \in Nat \ {0} /\ gap <= to /\ tmp_to \in Nat
        /\ d \in Nat /\ d >= to /\ d + g = tmp_to /\ s = d - gap
    BY <2>1
  <2>3. len >= 4  BY <2>1, <2>2
  <2> QED  BY <2>1, <2>2, <2>3, Reach
<1>2. ~Move!TooClose => len < 8 \/ gap >= WordSize - 4  BY Reach
<1>3. /\ move_mem \in [Move!Address -> Move!Address \cup {Move!Value}]
      /\ \A a \in Move!Address : a < tmp_to => move_mem[a] = a
  BY DEF Backward, MovedBack
<1>4. /\ m \in [Move!Address -> Move!Address \cup {Move!Value}]
      /\ \A a \in Move!Address :
            /\ a < d + 4 => m[a] = a
            /\ a >= d + 4 /\ a < to + len /\ ~Move!TooClose => m[a] = a - gap
            /\ a >= (to + len) + (WordSize - 4) => m[a] = a
  BY <1>1 DEF MovedBack
<1> HIDE DEF gap, s, d
<1>5. ASSUME NEW a \in Move!Address, a \in d .. d + WordSize - 1
      PROVE  /\ s + (a - d) = a - gap /\ a - gap \in Move!Address
             /\ ~(a < d) /\ ~(a >= (to + len) + (WordSize - 4))
             /\ a < to + len /\ ~Move!TooClose => move_mem[a - gap] = a - gap
  <2>1. a \in Nat /\ a <= MoveTop  BY MoveConstants
  <2>2. /\ s + (a - d) = a - gap /\ a - gap \in Nat /\ a - gap <= a
        /\ ~(a < d) /\ ~(a >= (to + len) + (WordSize - 4))
    BY <1>1, <1>5, <2>1
  <2>3. a - gap \in Move!Address  BY <2>1, <2>2, MoveConstants
  <2>4. a < to + len /\ ~Move!TooClose => a - gap < tmp_to
    <3>1. CASE gap >= WordSize - 4  BY <1>1, <1>5, <2>1, <3>1
    <3>2. CASE len < 8  BY <1>1, <2>1, <3>2
    <3> QED  BY <1>2, <3>1, <3>2
  <2> QED  BY <1>3, <2>2, <2>3, <2>4
<1>6. new = [a \in Move!Address |-> IF a \in d .. d + WordSize - 1 THEN move_mem[s + (a - d)] ELSE m[a]]
  BY DEF Move!Stored, Move!Cells, Move!Address
<1>7. new \in [Move!Address -> Move!Address \cup {Move!Value}]
  <2>1. ASSUME NEW a \in Move!Address, a \in d .. d + WordSize - 1
        PROVE  move_mem[s + (a - d)] \in Move!Address \cup {Move!Value}
    BY <1>3, <1>5, <2>1
  <2>2. ASSUME NEW a \in Move!Address PROVE m[a] \in Move!Address \cup {Move!Value}
    BY <1>4
  <2> QED  BY <1>6, <2>1, <2>2
<1>8. ASSUME NEW a \in Move!Address
      PROVE  /\ a < d => new[a] = a
             /\ a >= d /\ a < to + len /\ ~Move!TooClose => new[a] = a - gap
             /\ a >= (to + len) + (WordSize - 4) => new[a] = a
  <2>1. CASE a \in d .. d + WordSize - 1
    <3>1. new[a] = move_mem[a - gap]  BY <1>5, <1>6, <2>1
    <3> QED  BY <1>5, <2>1, <3>1
  <2>2. CASE a \notin d .. d + WordSize - 1
    <3>1. new[a] = m[a]  BY <1>6, <2>2
    <3>2. a \in Nat  BY MoveConstants
    <3>3. a < d => a < d + 4  BY <1>1, <3>2
    <3>4. a >= d => a >= d + 4  BY <1>1, <2>2, <3>2
    <3> QED  BY <1>4, <3>1, <3>3, <3>4
  <2> QED  BY <2>1, <2>2
<1> HIDE DEF new
<1>9. MovedBack(new, d)  BY <1>1, <1>7, <1>8 DEF MovedBack, gap
<1> QED  BY <1>9 DEF new, d, s

(* Single bytes. *)
LEMMA ByteBelow ==
    ASSUME MoveArguments, Backward, tmp_to > to
    PROVE  /\ MovedBack([move_mem EXCEPT ![tmp_to - 1] = move_mem[tmp_from - 1]], tmp_to - 1)
           /\ Move!Cells(tmp_to - 1, 1) \cup Move!Cells(tmp_from - 1, 1) \subseteq Blocks
<1> DEFINE gap == to - from
           new == [move_mem EXCEPT ![tmp_to - 1] = move_mem[tmp_from - 1]]
<1>1. /\ to \in Nat /\ from \in Nat /\ len \in Nat /\ from < to
      /\ tmp_to \in Nat /\ tmp_to > to /\ tmp_to <= to + len /\ gap \in Nat \ {0}
      /\ tmp_from - 1 = (tmp_to - 1) - gap /\ tmp_to - 1 \in Nat /\ tmp_from - 1 \in Nat
      /\ tmp_from - 1 >= from /\ tmp_from - 1 < from + len /\ tmp_from - 1 < tmp_to
      /\ to + len <= MoveTop /\ from + len <= MoveTop /\ Move!Beyond \in 0 .. 4
  BY Places DEF Backward
<1>2. MovedBack(move_mem, tmp_to)  BY DEF Backward
<1>3. tmp_to - 1 \in Move!Address /\ tmp_from - 1 \in Move!Address
  BY <1>1, MoveConstants
<1>4. move_mem[tmp_from - 1] = tmp_from - 1  BY <1>1, <1>2, <1>3 DEF MovedBack
<1>5. /\ new \in [Move!Address -> Move!Address \cup {Move!Value}]
      /\ \A a \in Move!Address : new[a] = IF a = tmp_to - 1 THEN tmp_from - 1 ELSE move_mem[a]
  BY <1>2, <1>3, <1>4 DEF MovedBack
<1> HIDE DEF new
<1>6. ASSUME NEW a \in Move!Address
      PROVE  /\ a < tmp_to - 1 => new[a] = a
             /\ a >= tmp_to - 1 /\ a < to + len /\ ~Move!TooClose => new[a] = a - gap
             /\ a >= (to + len) + Move!Beyond => new[a] = a
  <2>1. a \in Nat  BY MoveConstants
  <2>2. CASE a = tmp_to - 1
    <3>1. new[a] = a - gap /\ ~(a >= (to + len) + Move!Beyond)  BY <1>1, <1>5, <2>2
    <3> QED  BY <2>1, <2>2, <3>1, <1>1
  <2>3. CASE a # tmp_to - 1
    <3>1. new[a] = move_mem[a]  BY <1>5, <2>3
    <3>2. a < tmp_to - 1 => a < tmp_to  BY <1>1, <2>1
    <3>3. a >= tmp_to - 1 => a >= tmp_to  BY <1>1, <2>1, <2>3
    <3> QED  BY <1>2, <3>1, <3>2, <3>3 DEF MovedBack
  <2> QED  BY <2>2, <2>3
<1>7. MovedBack(new, tmp_to - 1)  BY <1>5, <1>6 DEF MovedBack
<1>8. Move!Cells(tmp_to - 1, 1) \subseteq Move!Cells(to, len)
  BY <1>1 DEF Move!Cells
<1>9. Move!Cells(tmp_from - 1, 1) \subseteq Move!Cells(from, len)
  BY <1>1 DEF Move!Cells
<1> QED  BY <1>7, <1>8, <1>9, BlocksInside DEF new

(* A word, and the two words of a chunk. *)
LEMMA WordBelow ==
    ASSUME MoveArguments, Backward, tmp_to - 4 >= to, len < 8 => tmp_to = to + len
    PROVE  /\ MovedBack(Move!Stored(move_mem, tmp_to - 4, move_mem, tmp_from - 4, WordSize), tmp_to - 4)
           /\ Move!Cells(tmp_to - 4, WordSize) \cup Move!Cells(tmp_from - 4, WordSize) \subseteq Blocks
<1>1. /\ to \in Nat /\ from \in Nat /\ len \in Nat /\ from < to
      /\ tmp_to \in to .. to + len /\ tmp_from = tmp_to - (to - from)
      /\ MovedBack(move_mem, tmp_to) /\ (tmp_to - 4) + 4 = tmp_to
      /\ WordSize \in {4, 8} /\ Move!Beyond = WordSize - 4
  BY Places, MoveConstants, Reach DEF Backward
<1>2. MovedBack(Move!Stored(move_mem, tmp_to - 4, move_mem, tmp_from - 4, WordSize), tmp_to - 4)
  BY <1>1, StoredBelow
<1>3. Move!Cells(tmp_to - 4, WordSize) \cup Move!Cells(tmp_from - 4, WordSize) \subseteq Blocks
  BY <1>1 DEF Blocks, Move!Cells
<1> QED  BY <1>2, <1>3

LEMMA ChunkBelow ==
    ASSUME MoveArguments, Backward, tmp_to - 8 >= to
    PROVE  /\ MovedBack(Move!Stored(Move!Stored(move_mem, tmp_to - 4, move_mem, tmp_from - 4, WordSize),
                                    tmp_to - 8, move_mem, tmp_from - 8, WordSize), tmp_to - 8)
           /\ Move!Cells(tmp_to - 8, 4 + WordSize) \cup Move!Cells(tmp_from - 8, 4 + WordSize) \subseteq Blocks
<1>1. /\ to \in Nat /\ from \in Nat /\ len \in Nat /\ from < to /\ len >= 8
      /\ tmp_to \in to .. to + len /\ tmp_from = tmp_to - (to - from)
      /\ (tmp_to - 8) + 4 = tmp_to - 4 /\ tmp_to - 4 >= to
      /\ WordSize \in {4, 8} /\ Move!Beyond = WordSize - 4
  BY Places, MoveConstants, Reach DEF Backward
<1>2. ~(len < 8)  BY <1>1
<1> DEFINE high == Move!Stored(move_mem, tmp_to - 4, move_mem, tmp_from - 4, WordSize)
<1>3. MovedBack(high, (tmp_to - 8) + 4)  BY <1>1, <1>2, WordBelow
<1> HIDE DEF high
<1>4. MovedBack(Move!Stored(high, tmp_to - 8, move_mem, tmp_from - 8, WordSize), tmp_to - 8)
  BY <1>2, <1>3, StoredBelow
<1>5. Move!Cells(tmp_to - 8, 4 + WordSize) \cup Move!Cells(tmp_from - 8, 4 + WordSize) \subseteq Blocks
  BY <1>1 DEF Blocks, Move!Cells
<1> QED  BY <1>4, <1>5 DEF high

-----------------------------------------------------------------------------
(* The steps. *)

(* What a step of the loops that go back has to establish. *)
LEMMA BackwardStep ==
    ASSUME MoveInv, UNCHANGED move_arguments, Backward', Left', Counters',
           move_pc' \in BackwardLabels \cup {"returned"},
           touched' \subseteq Blocks, BackAtTheStart'
    PROVE  MoveInv'
<1>1. UNCHANGED <<move_function, to, from, len>>  BY DEF move_arguments
<1>2. MoveArguments /\ MoveArguments'  BY <1>1 DEF MoveInv, MoveArguments
<1>3. /\ to \in Nat /\ from \in Nat /\ len \in Nat /\ len <= MaxMoveLength
      /\ to + len <= MoveTop /\ from + len <= MoveTop
  BY <1>2, Places
<1>4. /\ move_function = "memmove" /\ from < to
      /\ move_n' \in 0 .. len /\ tmp_to' \in to .. to + len
      /\ tmp_from' = tmp_to' - (to - from) /\ MovedBack(move_mem', tmp_to')
  <2>1. Move!TooClose' = Move!TooClose /\ Move!Beyond' = Move!Beyond
    BY <1>1 DEF Move!TooClose, Move!Beyond, Move!GoesBack, Move!GoesForward
  <2>2. Move!Address' = Move!Address /\ Move!Value' = Move!Value  BY DEF Move!Address, Move!Value
  <2> QED  BY <1>1, <2>1, <2>2 DEF Backward, MovedBack
<1>5. move_mem' \in [Move!Address -> Move!Address \cup {Move!Value}]
  BY <1>4 DEF MovedBack
<1>6. Blocks \subseteq Move!Address  BY <1>2, BlocksInside
<1>7. tmp_to' \in Move!Address /\ tmp_from' \in Move!Address /\ move_n' \in 0 .. MaxMoveLength
  <2>1. tmp_to' \in Nat /\ to <= tmp_to' /\ tmp_to' <= to + len  BY <1>3, <1>4
  <2>2. tmp_to' - (to - from) \in Nat /\ tmp_to' - (to - from) <= from + len
    BY <1>3, <1>4, <2>1, Behind, Zenon
  <2>4. tmp_from' \in Nat /\ tmp_from' <= from + len  BY <1>4, <2>2, Zenon
  <2>5. tmp_to' <= MoveTop  BY <1>3, <2>1, MoveConstants
  <2>6. tmp_from' <= MoveTop  BY <1>3, <2>4, MoveConstants
  <2>7. move_n' \in 0 .. MaxMoveLength  BY <1>3, <1>4, MoveConstants
  <2> QED  BY <2>1, <2>4, <2>5, <2>6, <2>7, MoveConstants
<1>8. Move!TypeOK'
  <2>1. to' \in Move!Address /\ from' \in Move!Address /\ len' \in 0 .. MaxMoveLength
        /\ move_function' \in {"memcpy", "memmove", "memset"}
    BY <1>1, <1>3, <1>4, MoveConstants
  <2>2. touched' \subseteq Move!Address  BY <1>6
  <2>3. move_pc' \in {"memcpy", "memmove", "memset", "align", "align bytes", "copy_chunks",
                      "lessthan8", "last bytes", "returned"}
    BY DEF BackwardLabels
  <2> QED  BY <1>5, <1>7, <2>1, <2>2, <2>3 DEF Move!TypeOK, Counters, Move!Address, Move!Value
<1>9. AtLabel'
  BY DEF AtLabel, BackwardLabels
<1>10. Move!BytesAreMoved'
  <2>1. move_pc' = "returned" => MovedBack(move_mem', to)
    BY <1>1, <1>4 DEF BackAtTheStart
  <2>2. ASSUME MovedBack(move_mem', to), NEW a \in Move!Address
        PROVE  /\ a \in Move!Cells(to, len) /\ ~Move!TooClose => move_mem'[a] = from + (a - to)
               /\ a \notin Move!Cells(to, len + Move!Beyond) => move_mem'[a] = a
    <3>1. a \in Nat /\ Move!Beyond \in 0 .. 4  BY <1>2, MoveConstants, Places
    <3>2. a \in Move!Cells(to, len) => a >= to /\ a < to + len  BY <1>3, <3>1 DEF Move!Cells
    <3>3. a \notin Move!Cells(to, len + Move!Beyond) => a < to \/ a >= (to + len) + Move!Beyond
      BY <1>3, <3>1 DEF Move!Cells
    <3>4. a - (to - from) = from + (a - to)  BY <1>3, <3>1
    <3> QED  BY <2>2, <3>2, <3>3, <3>4 DEF MovedBack
  <2>3. Move!TooClose' = Move!TooClose /\ Move!Beyond' = Move!Beyond
    BY <1>1 DEF Move!TooClose, Move!Beyond, Move!GoesBack, Move!GoesForward
  <2> QED  BY <1>1, <1>4, <2>1, <2>2, <2>3 DEF Move!BytesAreMoved, Move!Cells, Move!Address, Move!Value
<1>11. Move!AccessesStayNear'
  <2>1. Move!Beyond' = Move!Beyond  BY <1>1 DEF Move!Beyond, Move!GoesBack, Move!GoesForward
  <2> QED  BY <1>1, <2>1 DEF Move!AccessesStayNear, Blocks, Move!Cells
<1> QED  BY <1>2, <1>8, <1>9, <1>10, <1>11 DEF MoveInv

(* What a step of the loops that go forward has to establish. *)
LEMMA ForwardStep ==
    ASSUME MoveInv, UNCHANGED move_arguments, Forward', Counters',
           move_pc' \in {"memcpy", "memset", "returned"},
           move_pc' = "memcpy" => move_function # "memset",
           move_pc' = "memset" => move_function = "memset",
           touched' \subseteq Blocks, NothingLeft'
    PROVE  MoveInv'
<1>1. UNCHANGED <<move_function, to, from, len>>  BY DEF move_arguments
<1>2. MoveArguments /\ MoveArguments'  BY <1>1 DEF MoveInv, MoveArguments
<1>3. /\ to \in Nat /\ from \in Nat /\ len \in Nat /\ len <= MaxMoveLength
      /\ to + len <= MoveTop /\ from + len <= MoveTop
  BY <1>2, Places
<1>4. /\ move_n' \in 0 .. len
      /\ tmp_to' = to + (len - move_n')
      /\ tmp_from' \in {from, from + (len - move_n')}
      /\ move_mem' = Moved(to, tmp_to')
  BY <1>1 DEF Forward, Moved, Move!Address, Move!Value
<1>5. /\ tmp_to' \in to .. to + len /\ to \in to .. to + len
      /\ tmp_from' \in from .. from + len
  <2> DEFINE done == len - move_n'
  <2>1. done \in Nat /\ done <= len
    <3>1. move_n' \in 0 .. len  BY <1>4
    <3> QED  BY <1>3, <3>1, Done, Zenon
  <2>2. tmp_to' = to + done /\ tmp_from' \in {from, from + done}  BY <1>4
  <2> HIDE DEF done
  <2> QED  BY <1>3, <2>1, <2>2
<1>6. move_mem' \in [Move!Address -> Move!Address \cup {Move!Value}]
  BY <1>2, <1>4, <1>5, MovedType
<1>7. Blocks \subseteq Move!Address  BY <1>2, BlocksInside
<1>8. tmp_to' \in Move!Address /\ tmp_from' \in Move!Address /\ move_n' \in 0 .. MaxMoveLength
  <2>1. to .. to + len \subseteq Move!Address /\ from .. from + len \subseteq Move!Address
    BY <1>3, MoveConstants
  <2>2. 0 .. len \subseteq 0 .. MaxMoveLength  BY <1>3, MoveConstants
  <2> QED  BY <1>4, <1>5, <2>1, <2>2, Zenon
<1>9. Move!TypeOK'
  <2>1. to' \in Move!Address /\ from' \in Move!Address /\ len' \in 0 .. MaxMoveLength
        /\ move_function' \in {"memcpy", "memmove", "memset"}
    BY <1>1, <1>2, <1>3, MoveConstants DEF MoveArguments
  <2>2. touched' \subseteq Move!Address  BY <1>7
  <2>3. move_pc' \in {"memcpy", "memmove", "memset", "align", "align bytes", "copy_chunks",
                      "lessthan8", "last bytes", "returned"}
    OBVIOUS
  <2> QED  BY <1>6, <1>8, <2>1, <2>2, <2>3 DEF Move!TypeOK, Counters, Move!Address, Move!Value
<1>10. AtLabel' /\ Left'
  BY <1>1 DEF AtLabel, BackwardLabels, Left
<1>11. Move!BytesAreMoved'
  <2>1. move_pc' = "returned" => move_mem' = Moved(to, to + len)
    <3>1. move_pc' = "returned" => move_n' = 0  BY DEF NothingLeft
    <3>2. move_n' = 0 => tmp_to' = to + len  BY <1>3, <1>4
    <3> QED  BY <1>4, <3>1, <3>2
  <2>2. ASSUME NEW a \in Move!Address
        PROVE  /\ a \in Move!Cells(to, len) =>
                      Moved(to, to + len)[a] = IF move_function = "memset" THEN Move!Value ELSE from + (a - to)
               /\ a \notin Move!Cells(to, len + Move!Beyond) => Moved(to, to + len)[a] = a
    <3>1. a \in Nat /\ Move!Beyond \in 0 .. 4  BY <1>2, MoveConstants, Places
    <3>2. a \in Move!Cells(to, len) <=> a \in to .. (to + len) - 1  BY <1>3 DEF Move!Cells
    <3>3. a \notin Move!Cells(to, len + Move!Beyond) => a \notin to .. (to + len) - 1
      BY <1>3, <3>1 DEF Move!Cells
    <3>4. Moved(to, to + len)[a] =
              IF a \notin to .. (to + len) - 1 THEN a
              ELSE IF move_function = "memset" THEN Move!Value ELSE from + (a - to)
      BY DEF Moved
    <3> QED  BY <3>2, <3>3, <3>4, Zenon
  <2>3. Move!TooClose' = Move!TooClose /\ Move!Beyond' = Move!Beyond
    BY <1>1 DEF Move!TooClose, Move!Beyond, Move!GoesBack, Move!GoesForward
  <2> QED  BY <1>1, <2>1, <2>2, <2>3 DEF Move!BytesAreMoved, Move!Cells, Move!Address, Move!Value
<1>12. Move!AccessesStayNear'
  <2>1. Move!Beyond' = Move!Beyond  BY <1>1 DEF Move!Beyond, Move!GoesBack, Move!GoesForward
  <2> QED  BY <1>1, <2>1 DEF Move!AccessesStayNear, Blocks, Move!Cells
<1> QED  BY <1>2, <1>9, <1>10, <1>11, <1>12 DEF MoveInv

(* The next byte of the destination. *)
LEMMA ByteAbove ==
    ASSUME MoveArguments, Forward, move_n > 0, NEW v,
           v = IF move_function = "memset" THEN Move!Value ELSE from + (tmp_to - to)
    PROVE  [move_mem EXCEPT ![tmp_to] = v] = Moved(to, tmp_to + 1)
<1>1. /\ to \in Nat /\ tmp_to \in Nat /\ to <= tmp_to
      /\ move_mem = Moved(to, tmp_to)
  <2>1. len - move_n \in Nat  BY Places DEF Forward
  <2> QED  BY <2>1, Places DEF Forward
<1>2. ASSUME NEW a \in Move!Address
      PROVE  (IF a = tmp_to THEN v ELSE move_mem[a]) = Moved(to, tmp_to + 1)[a]
  <2>1. a \in Nat  BY MoveConstants
  <2>2. CASE a = tmp_to
    <3>1. a \in to .. (tmp_to + 1) - 1  BY <1>1, <2>2
    <3>2. Moved(to, tmp_to + 1)[a] = IF move_function = "memset" THEN Move!Value ELSE from + (a - to)
      BY <3>1 DEF Moved
    <3> QED  BY <2>2, <3>2
  <2>3. CASE a # tmp_to
    <3>1. a \in to .. (tmp_to + 1) - 1 <=> a \in to .. tmp_to - 1  BY <1>1, <2>1, <2>3
    <3> QED  BY <1>1, <2>3, <3>1 DEF Moved
  <2> QED  BY <2>2, <2>3
<1>3. DOMAIN move_mem = Move!Address  BY <1>1 DEF Moved
<1>4. [move_mem EXCEPT ![tmp_to] = v] =
          [a \in Move!Address |-> IF a = tmp_to THEN v ELSE move_mem[a]]
  BY <1>3
<1>5. Moved(to, tmp_to + 1) = [a \in Move!Address |-> Moved(to, tmp_to + 1)[a]]
  BY DEF Moved
<1> QED  BY <1>2, <1>4, <1>5

LEMMA MemcpyStep ==
    ASSUME MoveInv, Move!Memcpy
    PROVE  MoveInv'
<1>1. /\ MoveArguments /\ Forward /\ move_function # "memset" /\ Counters
      /\ touched \subseteq Blocks /\ move_pc = "memcpy"
  BY DEF MoveInv, AtLabel, Move!Memcpy, Move!TypeOK, Counters, Move!AccessesStayNear, Blocks
<1>2. /\ move_n > 0 /\ tmp_to' = tmp_to + 1 /\ tmp_from' = tmp_from + 1 /\ move_n' = move_n - 1
      /\ UNCHANGED <<move_function, to, from, len, move_pc, rem, chunks>>
      /\ move_mem' = [move_mem EXCEPT ![tmp_to] = move_mem[tmp_from]]
      /\ touched' = touched \cup Move!Cells(tmp_to, 1) \cup Move!Cells(tmp_from, 1)
  BY DEF Move!Memcpy, Move!Touch, Move!arguments
<1>3. /\ to \in Nat /\ from \in Nat /\ len \in Nat /\ move_n \in 1 .. len
      /\ to + len <= MoveTop /\ from + len <= MoveTop
      /\ len - move_n \in Nat /\ len - move_n < len
      /\ tmp_to = to + (len - move_n) /\ tmp_from = from + (len - move_n)
      /\ move_mem = Moved(to, tmp_to)
  <2>1. move_n \in 1 .. len  BY <1>1, <1>2, Places DEF Forward
  <2> QED  BY <1>1, <2>1, Places DEF Forward
<1>4. from >= to \/ to + len <= from \/ from + len <= to
  BY <1>1, <1>3 DEF MoveArguments, Forward
<1>5. move_mem[tmp_from] = tmp_from
  <2>1. tmp_from \in Move!Address  BY <1>3, MoveConstants
  <2>2. tmp_from \notin to .. tmp_to - 1  BY <1>3, <1>4
  <2> QED  BY <1>3, <2>1, <2>2 DEF Moved
<1>6. tmp_from = from + (tmp_to - to)  BY <1>3
<1>7. move_mem' = Moved(to, tmp_to + 1)
  BY <1>1, <1>2, <1>5, <1>6, ByteAbove
<1>8. touched' \subseteq Blocks
  <2>1. Move!Cells(tmp_to, 1) \subseteq Move!Cells(to, len)  BY <1>3 DEF Move!Cells
  <2>2. Move!Cells(tmp_from, 1) \subseteq Move!Cells(from, len)  BY <1>3 DEF Move!Cells
  <2> QED  BY <1>1, <1>2, <2>1, <2>2, BlocksInside
<1>9. Forward'
  <2>1. move_n' \in 0 .. len /\ len - move_n' = (len - move_n) + 1  BY <1>2, <1>3
  <2>2. tmp_to' = to + (len - move_n') /\ tmp_from' = from + (len - move_n')
    BY <1>2, <1>3, <2>1
  <2>3. move_mem' = Moved(to, tmp_to')  BY <1>2, <1>7
  <2>4. move_function = "memmove" => from >= to  BY <1>1 DEF Forward
  <2> QED  BY <1>1, <1>2, <2>1, <2>2, <2>3, <2>4 DEF Forward, Moved, Move!Address, Move!Value
<1>10. Counters' /\ UNCHANGED move_arguments  BY <1>1, <1>2 DEF Counters, move_arguments
<1> QED  BY <1>1, <1>2, <1>8, <1>9, <1>10, ForwardStep DEF NothingLeft

LEMMA MemsetStep ==
    ASSUME MoveInv, Move!Memset
    PROVE  MoveInv'
<1>1. /\ MoveArguments /\ Forward /\ move_function = "memset" /\ Counters
      /\ touched \subseteq Blocks /\ move_pc = "memset"
  BY DEF MoveInv, AtLabel, Move!Memset, Move!TypeOK, Counters, Move!AccessesStayNear, Blocks
<1>2. /\ move_n > 0 /\ tmp_to' = tmp_to + 1 /\ move_n' = move_n - 1
      /\ UNCHANGED <<move_function, to, from, len, move_pc, rem, chunks, tmp_from>>
      /\ move_mem' = [move_mem EXCEPT ![tmp_to] = Move!Value]
      /\ touched' = touched \cup {tmp_to}
  BY DEF Move!Memset, Move!arguments
<1>3. /\ to \in Nat /\ from \in Nat /\ len \in Nat /\ move_n \in 1 .. len
      /\ len - move_n \in Nat /\ len - move_n < len
      /\ tmp_to = to + (len - move_n) /\ tmp_from = from
      /\ move_mem = Moved(to, tmp_to)
  <2>1. move_n \in 1 .. len  BY <1>1, <1>2, Places DEF Forward
  <2> QED  BY <1>1, <2>1, Places DEF Forward
<1>4. move_mem' = Moved(to, tmp_to + 1)
  BY <1>1, <1>2, ByteAbove
<1>5. touched' \subseteq Blocks
  <2>1. tmp_to \in Move!Cells(to, len)  BY <1>3 DEF Move!Cells
  <2> QED  BY <1>1, <1>2, <2>1, BlocksInside
<1>6. Forward'
  <2>1. move_n' \in 0 .. len /\ len - move_n' = (len - move_n) + 1  BY <1>2, <1>3
  <2>2. tmp_to' = to + (len - move_n') /\ tmp_from' = from
    BY <1>2, <1>3, <2>1
  <2>3. move_mem' = Moved(to, tmp_to')  BY <1>2, <1>4
  <2> QED  BY <1>1, <1>2, <2>1, <2>2, <2>3 DEF Forward, Moved, Move!Address, Move!Value
<1>7. Counters' /\ UNCHANGED move_arguments  BY <1>1, <1>2 DEF Counters, move_arguments
<1> QED  BY <1>1, <1>2, <1>5, <1>6, <1>7, ForwardStep DEF NothingLeft

LEMMA ForwardEndsStep ==
    ASSUME MoveInv, Move!ForwardEnds
    PROVE  MoveInv'
<1>1. /\ MoveArguments /\ Forward /\ Counters /\ touched \subseteq Blocks
  BY DEF MoveInv, AtLabel, Move!ForwardEnds, Move!TypeOK, Counters, Move!AccessesStayNear, Blocks
<1>2. /\ move_n = 0 /\ move_pc' = "returned"
      /\ UNCHANGED <<move_function, to, from, len, move_mem, move_n, rem, chunks, tmp_to,
                      tmp_from, touched>>
  BY DEF Move!ForwardEnds, Move!Goto, Move!arguments
<1>3. Forward' /\ Counters' /\ UNCHANGED move_arguments
  BY <1>1, <1>2 DEF Forward, Counters, move_arguments, Moved, Move!Address, Move!Value
<1> QED  BY <1>1, <1>2, <1>3, ForwardStep DEF NothingLeft

(* Nothing is moved yet. *)
LEMMA MovedNothingBelow ==
    ASSUME MoveArguments, from < to
    PROVE  MovedBack(Moved(to, to), to + len)
<1>1. Moved(to, to) = [a \in Move!Address |-> a]  BY MovedNothing
<1>2. Moved(to, to) \in [Move!Address -> Move!Address \cup {Move!Value}]
      /\ \A a \in Move!Address : Moved(to, to)[a] = a
  BY <1>1
<1>3. \A a \in Move!Address : ~(a >= to + len /\ a < to + len)  BY Places, MoveConstants
<1> QED  BY <1>2, <1>3 DEF MovedBack

LEMMA MemmoveStep ==
    ASSUME MoveInv, Move!Memmove
    PROVE  MoveInv'
<1>1. /\ MoveArguments /\ Counters /\ touched \subseteq Blocks
      /\ move_function = "memmove" /\ move_n = len
      /\ tmp_to = to /\ tmp_from = from /\ move_mem = Moved(to, to)
  BY DEF MoveInv, AtLabel, Move!Memmove, Move!TypeOK, Counters, Move!AccessesStayNear, Blocks
<1>2. /\ to \in Nat /\ from \in Nat /\ len \in Nat /\ len <= MaxMoveLength
  BY <1>1, Places
<1>3. /\ UNCHANGED <<move_function, to, from, len, move_mem, move_n, touched>>
      /\ UNCHANGED move_arguments
  BY DEF Move!Memmove, Move!arguments, move_arguments
<1>4. CASE from >= to
  <2>1. move_pc' = "memcpy" /\ UNCHANGED <<rem, chunks, tmp_to, tmp_from>>
    BY <1>4 DEF Move!Memmove, Move!GoesForward, Move!Goto
  <2>2. Forward'
    <3>1. len \in 0 .. len /\ to = to + (len - len) /\ from = from + (len - len)  BY <1>2
    <3>2. move_n' = len' /\ tmp_to' = to' /\ tmp_from' = from' /\ move_mem' = Moved(to, to)
      BY <1>1, <1>3, <2>1
    <3> QED  BY <1>1, <1>3, <1>4, <3>1, <3>2 DEF Forward, Moved, Move!Address, Move!Value
  <2>3. Counters'  BY <1>1, <2>1 DEF Counters
  <2> QED  BY <1>1, <1>3, <2>1, <2>2, <2>3, ForwardStep DEF NothingLeft
<1>5. CASE ~(from >= to)
  <2>1. /\ chunks' = len \div 8 /\ tmp_from' = from + len /\ tmp_to' = to + len
        /\ rem' = IF len \div 8 > 0 THEN (to + len) % 4 ELSE rem
        /\ move_pc' = IF len \div 8 = 0 THEN "lessthan8"
                      ELSE IF (to + len) % 4 > 0 THEN "align" ELSE "copy_chunks"
    BY <1>1, <1>5 DEF Move!Memmove, Move!GoesForward, Move!Goto
  <2>2. Backward'
    <3>1. len \in 0 .. len /\ to + len \in to .. to + len /\ from < to
          /\ from + len = (to + len) - (to - from)
      BY <1>2, <1>5
    <3>2. MovedBack(Moved(to, to), to + len)  BY <1>1, <3>1, MovedNothingBelow
    <3>3. MovedBack(move_mem', tmp_to')  BY <1>1, <1>3, <2>1, <3>2
    <3>4. Move!TooClose' = Move!TooClose /\ Move!Beyond' = Move!Beyond
      BY <1>3 DEF Move!TooClose, Move!Beyond, Move!GoesBack, Move!GoesForward
    <3>5. Move!Address' = Move!Address /\ Move!Value' = Move!Value  BY DEF Move!Address, Move!Value
    <3> QED  BY <1>1, <1>3, <2>1, <3>1, <3>3, <3>4, <3>5 DEF Backward, MovedBack
  <2>3. (to + len) % 4 \in 0 .. 3 /\ (to + len) - to = len  BY <1>2
  <2>4. Counters'
    <3>1. len \div 8 \in 0 .. MaxMoveLength \div 8  BY <1>2, Eighths, MoveConstants
    <3> QED  BY <1>1, <2>1, <2>3, <3>1 DEF Counters
  <2>5. /\ len \div 8 \in Nat /\ (8 * (len \div 8)) + (len % 8) = len
        /\ len \div 8 # 0 => len >= 8 /\ len \div 8 >= 1
        /\ len \div 8 = 0 => len % 8 = len
    BY <1>2, Eighths
  <2>6. Distance' = len /\ move_n' = len
    <3>1. tmp_to' - to' = len  BY <1>3, <2>1, <2>3
    <3> QED  BY <1>1, <1>3, <3>1 DEF Distance
  <2>7. ASSUME len \div 8 = 0 PROVE Left'
    <3>1. move_pc' = "lessthan8"  BY <2>1, <2>7
    <3>2. move_n' % 8 = Distance' /\ move_n' = len'  BY <1>3, <2>5, <2>6, <2>7
    <3> QED  BY <3>1, <3>2 DEF Left
  <2>8. ASSUME len \div 8 # 0 /\ (to + len) % 4 > 0 PROVE Left'
    <3>1. move_pc' = "align"  BY <2>1, <2>8
    <3>2. len >= 8 /\ len \div 8 > 0  BY <2>5, <2>8
    <3>3. rem' \in 1 .. 3
      <4>1. (to + len) % 4 \in 1 .. 3  BY <2>3, <2>8
      <4> QED  BY <2>1, <3>2, <4>1
    <3>4. move_n' = Distance' /\ move_n' >= 8  BY <2>6, <3>2
    <3> QED  BY <3>1, <3>3, <3>4 DEF Left
  <2>9. ASSUME len \div 8 # 0 /\ ~((to + len) % 4 > 0) PROVE Left'
    <3>1. move_pc' = "copy_chunks"  BY <2>1, <2>9
    <3>2. chunks' >= 1 /\ (8 * chunks') + (move_n' % 8) = Distance'
      BY <2>1, <2>5, <2>6, <2>9
    <3> QED  BY <3>1, <3>2 DEF Left
  <2>11. Left'  BY <2>7, <2>8, <2>9, Zenon
  <2>12. move_pc' \in BackwardLabels /\ move_pc' # "returned"  BY <2>1 DEF BackwardLabels
  <2> QED  BY <1>1, <1>3, <2>2, <2>4, <2>11, <2>12, BackwardStep DEF BackAtTheStart
<1> QED  BY <1>4, <1>5

LEMMA AlignStep ==
    ASSUME MoveInv, Move!Align
    PROVE  MoveInv'
<1>1. /\ MoveArguments /\ Backward /\ Counters /\ touched \subseteq Blocks
      /\ move_n = Distance /\ move_n >= 8 /\ rem \in 1 .. 3
  BY DEF MoveInv, AtLabel, BackwardLabels, Left, Move!Align, Move!TypeOK, Counters,
         Move!AccessesStayNear, Blocks
<1>2. /\ rem' = 4 - rem /\ move_n' = move_n - (4 - rem) /\ move_pc' = "align bytes"
      /\ UNCHANGED <<move_function, to, from, len, move_mem, chunks, tmp_to, tmp_from, touched>>
      /\ UNCHANGED move_arguments
  BY DEF Move!Align, Move!arguments, Move!Goto, move_arguments
<1>3. move_n \in 0 .. len /\ len \in Nat  BY <1>1, Places DEF Backward
<1>4. 4 - rem \in 1 .. 3 /\ move_n - (4 - rem) \in 0 .. len
      /\ (move_n - (4 - rem)) + (4 - rem) = move_n
  BY <1>1, <1>3
<1>5. Backward'
  <2>1. MovedBack(move_mem', tmp_to') /\ move_n' \in 0 .. len /\ tmp_to' \in to .. to + len
        /\ tmp_from' = tmp_to' - (to - from)
    BY <1>1, <1>2, <1>4 DEF Backward
  <2> QED  BY <1>1, <1>2, <2>1, BackwardHolds
<1>6. Left' /\ Counters'
  <2>1. rem' \in 1 .. 3 /\ move_n' + rem' = move_n /\ len' >= 8
    <3>1. len >= 8  BY <1>1, <1>3
    <3> QED  BY <1>2, <1>4, <3>1
  <2>2. Distance' = Distance  BY <1>2 DEF Distance
  <2>3. Left'  BY <1>1, <1>2, <2>1, <2>2 DEF Left
  <2>4. Counters'
    <3>1. rem' \in 0 .. 3  BY <2>1
    <3> QED  BY <1>1, <1>2, <3>1 DEF Counters
  <2> QED  BY <2>3, <2>4
<1> QED  BY <1>1, <1>2, <1>5, <1>6, BackwardStep DEF BackwardLabels, BackAtTheStart

(* What a byte from the end does, wherever the code does it. *)
LEMMA ByteFromTheEnd ==
    ASSUME MoveInv, Backward, Move!ByteFromTheEnd, UNCHANGED move_arguments, tmp_to > to,
           move_n' \in 0 .. len
    PROVE  /\ Backward' /\ touched' \subseteq Blocks
           /\ Distance' = Distance - 1 /\ Distance \in Nat \ {0}
<1>1. MoveArguments /\ touched \subseteq Blocks
  BY DEF MoveInv, Move!AccessesStayNear, Blocks
<1>2. /\ move_mem' = [move_mem EXCEPT ![tmp_to - 1] = move_mem[tmp_from - 1]]
      /\ tmp_to' = tmp_to - 1 /\ tmp_from' = tmp_from - 1
      /\ touched' = touched \cup Move!Cells(tmp_to - 1, 1) \cup Move!Cells(tmp_from - 1, 1)
      /\ UNCHANGED <<move_function, to, from, len>>
  BY DEF Move!ByteFromTheEnd, Move!Touch, move_arguments
<1>3. /\ to \in Nat /\ from \in Nat /\ len \in Nat
      /\ tmp_to \in to .. to + len /\ tmp_from = tmp_to - (to - from)
  BY <1>1, Places DEF Backward
<1>4. /\ tmp_to - 1 \in to .. to + len /\ tmp_from - 1 = (tmp_to - 1) - (to - from)
      /\ (tmp_to - 1) - to = (tmp_to - to) - 1 /\ tmp_to - to \in Nat \ {0}
  BY <1>3
<1>5. MovedBack(move_mem', tmp_to') /\ touched' \subseteq Blocks
  BY <1>1, <1>2, ByteBelow
<1>6. tmp_to' \in to .. to + len /\ tmp_from' = tmp_to' - (to - from)
      /\ tmp_to' - to' = (tmp_to - to) - 1
  BY <1>2, <1>4
<1>7. Backward'
  BY <1>5, <1>6, BackwardHolds
<1> QED  BY <1>4, <1>5, <1>6, <1>7 DEF Distance

LEMMA AlignByteStep ==
    ASSUME MoveInv, Move!AlignByte
    PROVE  MoveInv'
<1>1. /\ MoveArguments /\ Backward /\ Counters
      /\ move_n + rem = Distance /\ rem \in 1 .. 3 /\ len >= 8
  BY DEF MoveInv, AtLabel, BackwardLabels, Left, Move!AlignByte, Move!TypeOK, Counters
<1>2. /\ rem' = rem - 1 /\ Move!ByteFromTheEnd
      /\ IF rem = 1
         THEN /\ chunks' = move_n \div 8
              /\ move_pc' = IF move_n \div 8 > 0 THEN "copy_chunks" ELSE "lessthan8"
         ELSE UNCHANGED <<chunks, move_pc>>
      /\ UNCHANGED move_arguments /\ UNCHANGED move_n
  BY DEF Move!AlignByte, Move!arguments, Move!Goto, move_arguments
<1>3. move_n \in 0 .. len /\ len \in Nat /\ move_n \in Nat /\ len <= MaxMoveLength
      /\ to \in Nat /\ tmp_to \in to .. to + len
  BY <1>1, Places DEF Backward
<1>4. tmp_to > to
  <2>1. Distance > 0  BY <1>1, <1>3
  <2> QED  BY <1>3, <2>1 DEF Distance
<1>5. move_n' \in 0 .. len /\ UNCHANGED len  BY <1>2, <1>3 DEF move_arguments
<1>6. Backward' /\ touched' \subseteq Blocks /\ Distance' = Distance - 1 /\ Distance \in Nat \ {0}
  BY <1>1, <1>2, <1>4, <1>5, ByteFromTheEnd
<1>7. CASE rem = 1
  <2>1. Distance - 1 = move_n /\ rem' = 0 /\ rem' \in 0 .. 3  BY <1>1, <1>2, <1>3, <1>7
  <2>2. /\ move_n \div 8 \in Nat /\ (8 * (move_n \div 8)) + (move_n % 8) = move_n
        /\ move_n \div 8 \in 0 .. MaxMoveLength \div 8
        /\ ~(move_n \div 8 > 0) => move_n % 8 = move_n
        /\ move_n \div 8 > 0 => move_n \div 8 >= 1
    BY <1>3, Eighths, MoveConstants
  <2>3. Counters'  BY <1>2, <1>7, <2>1, <2>2 DEF Counters
  <2>4. chunks' = move_n \div 8 /\ Distance' = move_n /\ move_n' = move_n
    BY <1>2, <1>6, <1>7, <2>1
  <2>5. ASSUME move_n \div 8 > 0 PROVE Left' /\ move_pc' = "copy_chunks"
    <3>1. move_pc' = "copy_chunks"  BY <1>2, <1>7, <2>5
    <3>2. chunks' >= 1 /\ (8 * chunks') + (move_n' % 8) = Distance'  BY <2>2, <2>4, <2>5
    <3> QED  BY <3>1, <3>2 DEF Left
  <2>6. ASSUME ~(move_n \div 8 > 0) PROVE Left' /\ move_pc' = "lessthan8"
    <3>1. move_pc' = "lessthan8"  BY <1>2, <1>7, <2>6
    <3>2. move_n' % 8 = Distance' /\ ~(len' < 8)  BY <1>1, <1>3, <1>5, <2>2, <2>4, <2>6
    <3> QED  BY <3>1, <3>2 DEF Left
  <2> QED  BY <1>2, <1>6, <2>3, <2>5, <2>6, BackwardStep DEF BackwardLabels, BackAtTheStart
<1>8. CASE rem # 1
  <2>1. rem - 1 \in 1 .. 3 /\ move_n + (rem - 1) = Distance - 1 /\ rem - 1 \in 0 .. 3
    BY <1>1, <1>3, <1>6, <1>8
  <2>2. move_pc' = "align bytes"  BY <1>2, <1>8 DEF Move!AlignByte
  <2>3. move_n' + rem' = Distance' /\ rem' \in 1 .. 3 /\ len' >= 8  BY <1>1, <1>2, <1>5, <1>6, <2>1
  <2>4. Left'  BY <2>2, <2>3 DEF Left
  <2>5. Counters'  BY <1>1, <1>2, <1>8, <2>1 DEF Counters
  <2> QED  BY <1>2, <1>6, <2>2, <2>4, <2>5, BackwardStep DEF BackwardLabels, BackAtTheStart
<1> QED  BY <1>7, <1>8

LEMMA CopyChunkStep ==
    ASSUME MoveInv, Move!CopyChunk
    PROVE  MoveInv'
<1>1. /\ MoveArguments /\ Backward /\ Counters /\ touched \subseteq Blocks
      /\ (8 * chunks) + (move_n % 8) = Distance /\ chunks >= 1
      /\ chunks \in 0 .. MaxMoveLength \div 8 /\ rem \in 0 .. 3
  BY DEF MoveInv, AtLabel, BackwardLabels, Left, Move!CopyChunk, Move!TypeOK, Counters,
         Move!AccessesStayNear, Blocks
<1>2. /\ move_mem' = Move!Stored(Move!Stored(move_mem, tmp_to - 4, move_mem, tmp_from - 4, WordSize),
                               tmp_to - 8, move_mem, tmp_from - 8, WordSize)
      /\ touched' = touched \cup Move!Cells(tmp_to - 8, 4 + WordSize) \cup Move!Cells(tmp_from - 8, 4 + WordSize)
      /\ tmp_to' = tmp_to - 8 /\ tmp_from' = tmp_from - 8 /\ chunks' = chunks - 1
      /\ IF chunks = 1 THEN move_pc' = "lessthan8" ELSE UNCHANGED move_pc
      /\ UNCHANGED <<move_function, to, from, len, move_n, rem>>
      /\ UNCHANGED move_arguments
  BY DEF Move!CopyChunk, Move!Touch, Move!arguments, Move!Goto, move_arguments
<1>3. /\ move_n \in 0 .. len /\ len \in Nat /\ move_n \in Nat
      /\ to \in Nat /\ from \in Nat /\ tmp_to \in to .. to + len
      /\ tmp_from = tmp_to - (to - from)
  BY <1>1, Places DEF Backward
<1>4. move_n % 8 \in 0 .. 7 /\ chunks \in Nat \ {0} /\ MaxMoveLength \div 8 \in Nat
  BY <1>1, <1>3, Eighths, MoveConstants
<1>5. tmp_to - 8 >= to /\ len >= 8
  <2>1. Distance >= 8  BY <1>1, <1>4
  <2> QED  BY <1>3, <2>1 DEF Distance
<1>6. MovedBack(move_mem', tmp_to - 8) /\ touched' \subseteq Blocks
  BY <1>1, <1>2, <1>5, ChunkBelow
<1>7. Backward'
  <2>1. tmp_to - 8 \in to .. to + len /\ tmp_from - 8 = (tmp_to - 8) - (to - from)
    BY <1>3, <1>5
  <2>2. /\ MovedBack(move_mem', tmp_to') /\ move_n' \in 0 .. len /\ tmp_to' \in to .. to + len
        /\ tmp_from' = tmp_to' - (to - from)
    BY <1>2, <1>3, <1>6, <2>1
  <2> QED  BY <1>1, <1>2, <2>2, BackwardHolds
<1>8. Distance' = Distance - 8
  <2>1. (tmp_to - 8) - to = (tmp_to - to) - 8  BY <1>3
  <2> QED  BY <1>2, <2>1 DEF Distance
<1>9. /\ chunks - 1 \in 0 .. MaxMoveLength \div 8
      /\ (8 * (chunks - 1)) + (move_n % 8) = Distance - 8
      /\ chunks = 1 => move_n % 8 = Distance - 8
      /\ chunks # 1 => chunks - 1 >= 1
  BY <1>1, <1>4
<1>10. Counters'  BY <1>1, <1>2, <1>9 DEF Counters
<1>11. move_n' = move_n /\ chunks' = chunks - 1  BY <1>2
<1>12. CASE chunks = 1
  <2>1. move_pc' = "lessthan8"  BY <1>2, <1>12
  <2>2. move_n' % 8 = Distance' /\ ~(len' < 8)  BY <1>2, <1>3, <1>5, <1>8, <1>9, <1>11, <1>12
  <2>3. Left'  BY <2>1, <2>2 DEF Left
  <2> QED  BY <1>2, <1>6, <1>7, <1>10, <2>1, <2>3, BackwardStep DEF BackwardLabels, BackAtTheStart
<1>13. CASE chunks # 1
  <2>1. move_pc' = "copy_chunks"  BY <1>2, <1>13 DEF Move!CopyChunk
  <2>2. chunks' >= 1 /\ (8 * chunks') + (move_n' % 8) = Distance'
    BY <1>8, <1>9, <1>11, <1>13
  <2>3. Left'  BY <2>1, <2>2 DEF Left
  <2> QED  BY <1>2, <1>6, <1>7, <1>10, <2>1, <2>3, BackwardStep DEF BackwardLabels, BackAtTheStart
<1> QED  BY <1>12, <1>13

LEMMA LessThan8Step ==
    ASSUME MoveInv, Move!LessThan8
    PROVE  MoveInv'
<1>1. /\ MoveArguments /\ Backward /\ Counters /\ touched \subseteq Blocks
      /\ move_n % 8 = Distance /\ (len < 8 => move_n = len)
  BY DEF MoveInv, AtLabel, BackwardLabels, Left, Move!LessThan8, Move!TypeOK, Counters,
         Move!AccessesStayNear, Blocks
<1>2. /\ IF move_n % 8 >= 4
         THEN /\ move_mem' = Move!Stored(move_mem, tmp_to - 4, move_mem, tmp_from - 4, WordSize)
              /\ touched' = touched \cup Move!Cells(tmp_to - 4, WordSize) \cup Move!Cells(tmp_from - 4, WordSize)
              /\ tmp_to' = tmp_to - 4 /\ tmp_from' = tmp_from - 4
              /\ move_n' = (move_n % 8) - 4
         ELSE move_n' = move_n % 8 /\ UNCHANGED <<move_mem, touched, tmp_to, tmp_from>>
      /\ move_pc' = IF move_n % 4 = 0 THEN "returned" ELSE "last bytes"
      /\ UNCHANGED <<move_function, to, from, len, rem, chunks>>
      /\ UNCHANGED move_arguments
  BY DEF Move!LessThan8, Move!Touch, Move!arguments, Move!Goto, move_arguments
<1>3. /\ move_n \in Nat /\ len \in Nat
      /\ to \in Nat /\ from \in Nat /\ tmp_to \in to .. to + len
      /\ tmp_from = tmp_to - (to - from)
  BY <1>1, Places DEF Backward
<1>4. /\ move_n % 8 \in 0 .. 7 /\ Distance \in 0 .. 7 /\ Distance = tmp_to - to /\ Distance <= len
      /\ move_n % 4 = IF move_n % 8 < 4 THEN move_n % 8 ELSE (move_n % 8) - 4
  <2>1. Distance <= len  BY <1>3 DEF Distance
  <2>2. /\ move_n % 8 \in 0 .. 7
        /\ move_n % 4 = IF move_n % 8 < 4 THEN move_n % 8 ELSE (move_n % 8) - 4
    BY <1>3, Eighths
  <2> QED  BY <1>1, <2>1, <2>2 DEF Distance
<1>5. Counters'  BY <1>1, <1>2 DEF Counters
<1>6. ASSUME Backward', touched' \subseteq Blocks,
             move_n' = Distance', Distance' = move_n % 4, Distance' \in 0 .. 3, to' = to,
             to \in Nat, tmp_to' \in to .. to + len
      PROVE  MoveInv'
  <2>1. CASE move_n % 4 = 0
    <3>1. move_pc' = "returned"  BY <1>2, <2>1
    <3>2. Left'  BY <3>1 DEF Left
    <3>3. tmp_to' = to'
      <4>1. tmp_to' - to' = 0  BY <1>6, <2>1 DEF Distance
      <4>2. tmp_to' \in Nat /\ to' \in Nat  BY <1>3, <1>6
      <4> QED  BY <4>1, <4>2, NoDistance, Zenon
    <3> QED  BY <1>2, <1>5, <1>6, <3>1, <3>2, <3>3, BackwardStep DEF BackwardLabels, BackAtTheStart
  <2>2. CASE move_n % 4 # 0
    <3>1. move_pc' = "last bytes"  BY <1>2, <2>2
    <3>2. move_n' = Distance' /\ move_n' \in 1 .. 3  BY <1>6, <2>2
    <3>3. Left'  BY <3>1, <3>2 DEF Left
    <3> QED  BY <1>2, <1>5, <1>6, <3>1, <3>3, BackwardStep DEF BackwardLabels, BackAtTheStart
  <2> QED  BY <2>1, <2>2
<1>7. CASE move_n % 8 >= 4
  <2>1. /\ Distance - 4 = move_n % 4 /\ Distance - 4 \in 0 .. 3 /\ Distance - 4 \in 0 .. len
        /\ tmp_to - 4 >= to /\ (tmp_to - 4) - to = Distance - 4
        /\ tmp_to - 4 \in to .. to + len /\ tmp_from - 4 = (tmp_to - 4) - (to - from)
    BY <1>1, <1>3, <1>4, <1>7
  <2>2. MovedBack(move_mem', tmp_to - 4) /\ touched' \subseteq Blocks
    <3>1. len < 8 => tmp_to = to + len
      <4>1. len < 8 => move_n % 8 = len  BY <1>1, <1>3
      <4> QED  BY <1>1, <1>3, <1>4, <4>1
    <3> QED  BY <1>1, <1>2, <1>7, <2>1, <3>1, WordBelow
  <2>3. Distance' = Distance - 4 /\ move_n' = Distance - 4
    <3>1. Distance' = (tmp_to - 4) - to  BY <1>2, <1>7 DEF Distance
    <3> QED  BY <1>1, <1>2, <1>7, <2>1, <3>1
  <2>4. Backward'
    <3>1. /\ MovedBack(move_mem', tmp_to') /\ move_n' \in 0 .. len /\ tmp_to' \in to .. to + len
          /\ tmp_from' = tmp_to' - (to - from)
      BY <1>2, <1>7, <2>1, <2>2, <2>3
    <3> QED  BY <1>1, <1>2, <3>1, BackwardHolds
  <2> QED  BY <1>2, <1>3, <1>6, <1>7, <2>1, <2>2, <2>3, <2>4
<1>8. CASE ~(move_n % 8 >= 4)
  <2>1. Distance = move_n % 4 /\ Distance \in 0 .. 3 /\ Distance \in 0 .. len
    BY <1>1, <1>3, <1>4, <1>8
  <2>2. Distance' = Distance /\ move_n' = Distance  BY <1>1, <1>2, <1>8 DEF Distance
  <2>3. Backward'
    <3>1. /\ MovedBack(move_mem', tmp_to') /\ move_n' \in 0 .. len /\ tmp_to' \in to .. to + len
          /\ tmp_from' = tmp_to' - (to - from)
      BY <1>1, <1>2, <1>8, <2>1, <2>2 DEF Backward
    <3> QED  BY <1>1, <1>2, <3>1, BackwardHolds
  <2> QED  BY <1>1, <1>2, <1>3, <1>6, <1>8, <2>1, <2>2, <2>3
<1> QED  BY <1>7, <1>8

LEMMA LastByteStep ==
    ASSUME MoveInv, Move!LastByte
    PROVE  MoveInv'
<1>1. /\ MoveArguments /\ Backward /\ Counters
      /\ move_n = Distance /\ move_n \in 1 .. 3
  BY DEF MoveInv, AtLabel, BackwardLabels, Left, Move!LastByte, Move!TypeOK, Counters
<1>2. /\ move_n' = move_n - 1 /\ Move!ByteFromTheEnd
      /\ IF move_n = 1 THEN move_pc' = "returned" ELSE UNCHANGED move_pc
      /\ UNCHANGED move_arguments /\ UNCHANGED <<to, len, rem, chunks>>
  BY DEF Move!LastByte, Move!arguments, Move!Goto, move_arguments
<1>3. /\ move_n \in 0 .. len /\ len \in Nat /\ to \in Nat /\ tmp_to \in to .. to + len
  BY <1>1, Places DEF Backward
<1>4. tmp_to > to
  <2>1. Distance > 0  BY <1>1
  <2> QED  BY <1>3, <2>1 DEF Distance
<1>5. move_n - 1 \in 0 .. len  BY <1>1, <1>3
<1>6. Backward' /\ touched' \subseteq Blocks /\ Distance' = Distance - 1
  BY <1>1, <1>2, <1>4, <1>5, ByteFromTheEnd
<1>7. Counters'  BY <1>1, <1>2 DEF Counters
<1>8. CASE move_n = 1
  <2>1. move_pc' = "returned"  BY <1>2, <1>8
  <2>2. Left'  BY <2>1 DEF Left
  <2>3. tmp_to' = to'
    <3>1. tmp_to' - to' = 0  BY <1>1, <1>6, <1>8 DEF Distance
    <3>2. tmp_to' \in Nat /\ to' \in Nat
      <4>1. tmp_to' = tmp_to - 1  BY <1>2 DEF Move!ByteFromTheEnd
      <4>2. tmp_to - 1 \in Nat  BY <1>3, <1>4
      <4> QED  BY <1>2, <1>3, <4>1, <4>2
    <3> QED  BY <3>1, <3>2, NoDistance, Zenon
  <2> QED  BY <1>2, <1>6, <1>7, <2>1, <2>2, <2>3, BackwardStep DEF BackwardLabels, BackAtTheStart
<1>9. CASE move_n # 1
  <2>1. move_pc' = "last bytes"  BY <1>2, <1>9 DEF Move!LastByte
  <2>2. move_n' = Distance' /\ move_n' \in 1 .. 3
    <3>1. move_n - 1 = Distance - 1 /\ move_n - 1 \in 1 .. 3  BY <1>1, <1>9
    <3> QED  BY <1>2, <1>6, <3>1
  <2>3. Left'  BY <2>1, <2>2 DEF Left
  <2> QED  BY <1>2, <1>6, <1>7, <2>1, <2>3, BackwardStep DEF BackwardLabels, BackAtTheStart
<1> QED  BY <1>8, <1>9

-----------------------------------------------------------------------------

LEMMA MoveNext ==
    ASSUME MoveInv, Move!Next
    PROVE  MoveInv'
BY MemcpyStep, MemsetStep, ForwardEndsStep, MemmoveStep, AlignStep, AlignByteStep, CopyChunkStep,
   LessThan8Step, LastByteStep
DEF Move!Next

LEMMA MoveStutters ==
    ASSUME MoveInv, UNCHANGED move_vars
    PROVE  MoveInv'
<1>1. Move!TypeOK'  BY DEF MoveInv, move_vars, Move!TypeOK, Move!Address, Move!Value
<1>2. MoveArguments'  BY DEF MoveInv, move_vars, MoveArguments, Move!Address
<1>3. AtLabel' /\ Left'
  <2>1. Backward => Backward'
    BY DEF move_vars, Backward, MovedBack, Move!TooClose, Move!Beyond, Move!GoesBack, Move!GoesForward,
           Move!Address, Move!Value
  <2>2. Forward => Forward'
    BY DEF move_vars, Forward, Moved, Move!Address, Move!Value
  <2> QED  BY <2>1, <2>2 DEF MoveInv, move_vars, AtLabel, BackwardLabels, Moved, Move!Address, Move!Value,
                             Left, Distance
<1>4. Move!BytesAreMoved' /\ Move!AccessesStayNear'
  BY DEF MoveInv, move_vars, Move!BytesAreMoved, Move!Cells, Move!Address, Move!Value,
         Move!AccessesStayNear, Move!TooClose, Move!Beyond, Move!GoesBack, Move!GoesForward
<1> QED  BY <1>1, <1>2, <1>3, <1>4 DEF MoveInv

(* A call that has not begun, and the group that is not called. *)
LEMMA MoveInit == Move!Init => MoveInv
<1> SUFFICES ASSUME Move!Init PROVE MoveInv
  OBVIOUS
<1>1. /\ move_function \in {"memcpy", "memmove", "memset"}
      /\ to \in 4 .. MaxStart + MaxDistance /\ from \in 4 .. MaxStart + MaxDistance
      /\ len \in 0 .. MaxMoveLength
      /\ move_function = "memcpy" => to + len <= from \/ from + len <= to
      /\ move_function = "memset" => from = to
      /\ move_mem = [a \in Move!Address |-> a]
      /\ move_pc = move_function /\ move_n = len
      /\ rem = 0 /\ chunks = 0 /\ tmp_to = to /\ tmp_from = from /\ touched = {}
  BY DEF Move!Init
<1>2. to \in Nat /\ from \in Nat /\ len \in Nat /\ to \in Move!Address /\ from \in Move!Address
      /\ (to + len) + 4 \in Move!Address /\ (from + len) + 4 \in Move!Address
  BY <1>1, MoveConstants DEF MoveTop
<1>3. MoveArguments  BY <1>1, <1>2 DEF MoveArguments
<1>4. move_mem = Moved(to, to)  BY <1>1, <1>3, MovedNothing
<1>5. Move!TypeOK
  <2>1. 0 \in 0 .. MaxMoveLength \div 8  BY MoveConstants, Eighths
  <2>2. move_mem \in [Move!Address -> Move!Address \cup {Move!Value}]  BY <1>1
  <2>3. /\ move_pc \in {"memcpy", "memmove", "memset"} /\ move_n \in 0 .. MaxMoveLength
        /\ rem \in 0 .. 3 /\ chunks \in 0 .. MaxMoveLength \div 8 /\ touched \subseteq Move!Address
        /\ tmp_to \in Move!Address /\ tmp_from \in Move!Address
    BY <1>1, <1>2, <2>1
  <2>4. /\ to \in Move!Address /\ from \in Move!Address /\ len \in 0 .. MaxMoveLength
        /\ move_function \in {"memcpy", "memmove", "memset"}
    BY <1>1, <1>2
  <2> QED  BY <2>2, <2>3, <2>4 DEF Move!TypeOK
<1>6. ASSUME move_function # "memmove" PROVE Forward
  <2>1. len \in 0 .. len /\ to = to + (len - len) /\ from = from + (len - len)  BY <1>2
  <2> QED  BY <1>1, <1>4, <1>6, <2>1 DEF Forward
<1>7. AtLabel  BY <1>1, <1>4, <1>6 DEF AtLabel, BackwardLabels
<1>8. Left  BY <1>1 DEF Left
<1>9. Move!BytesAreMoved /\ Move!AccessesStayNear
  BY <1>1 DEF Move!BytesAreMoved, Move!AccessesStayNear
<1> QED  BY <1>3, <1>5, <1>7, <1>8, <1>9 DEF MoveInv

LEMMA MoveIdle == MoveIsIdle => MoveInv
<1> SUFFICES ASSUME MoveIsIdle PROVE MoveInv
  OBVIOUS
<1>1. /\ move_function = "memcpy" /\ to = 4 /\ from = 4 /\ len = 0
      /\ move_mem = [a \in Move!Address |-> a]
      /\ move_pc = "returned" /\ move_n = 0
      /\ rem = 0 /\ chunks = 0 /\ tmp_to = 4 /\ tmp_from = 4 /\ touched = {}
  BY DEF MoveIsIdle
<1>2. to \in Nat /\ from \in Nat /\ len \in 0 .. MaxMoveLength
      /\ to \in Move!Address /\ from \in Move!Address
      /\ (to + len) + 4 \in Move!Address /\ (from + len) + 4 \in Move!Address
  BY <1>1, MoveConstants DEF MoveTop
<1>3. MoveArguments  BY <1>1, <1>2 DEF MoveArguments
<1>4. Move!TypeOK
  <2>1. 0 \in 0 .. MaxMoveLength \div 8  BY MoveConstants, Eighths
  <2>2. move_mem \in [Move!Address -> Move!Address \cup {Move!Value}]  BY <1>1
  <2> QED  BY <1>1, <1>2, <2>1, <2>2 DEF Move!TypeOK
<1>5. AtLabel /\ Left  BY <1>1 DEF AtLabel, BackwardLabels, Left
<1>6. Move!BytesAreMoved
  <2>1. Move!Cells(to, len) = {}  BY <1>1, <1>2 DEF Move!Cells
  <2>2. ~Move!GoesBack  BY <1>1 DEF Move!GoesBack
  <2> QED  BY <1>1, <2>1, <2>2 DEF Move!BytesAreMoved
<1>7. Move!AccessesStayNear  BY <1>1 DEF Move!AccessesStayNear
<1> QED  BY <1>3, <1>4, <1>5, <1>6, <1>7 DEF MoveInv

-----------------------------------------------------------------------------
(* The calls of either group. *)

LEMMA CompareIdle == CompareIsIdle => IInv
<1> SUFFICES ASSUME CompareIsIdle PROVE IInv
  OBVIOUS
<1>1. /\ function = "bcmp" /\ mem = [a \in Address |-> 0] /\ p1 = NULL /\ p2 = NULL /\ n = 0
      /\ pc = "returned" /\ i = 0 /\ result = 0 /\ read = {}
  BY DEF CompareIsIdle
<1> QED BY <1>1, MemCompareAssumption, IdleAssumption DEF IInv, TypeOK, Arguments, Block, Position, EqualSoFar,
           ResultIsFirstDifference, ReadsStayInside, Length

LEMMA CallInvariance == CallSpec => [](IInv /\ MoveInv)
<1>1. CallInit => IInv /\ MoveInv
  BY InitInv, CompareIdle, MoveInit, MoveIdle DEF CallInit
<1>2. IInv /\ MoveInv /\ [CallNext]_call_vars => (IInv /\ MoveInv)'
  <2>1. IInv /\ [CallNext]_call_vars => IInv'
    BY NextStep, StutterStep DEF CallNext, call_vars
  <2>2. MoveInv /\ [CallNext]_call_vars => MoveInv'
    BY MoveNext, MoveStutters DEF CallNext, call_vars
  <2> QED BY <2>1, <2>2
<1> QED BY <1>1, <1>2, PTL DEF CallSpec

(* When memcpy, memmove or memset returns, the destination holds what the    *)
(* source held at the call, however the two overlap, and no other byte has  *)
(* changed; on the way no counter wraps, and no more than len bytes at      *)
(* either pointer are used.  A memmove to a higher address with words of    *)
(* eight bytes may use, and change, four bytes more behind each; and if the *)
(* addresses are less than four bytes apart, its bytes may be wrong.        *)
THEOREM BytesMoved == CallSpec => []BytesAreMoved
<1>1. MoveInv => BytesAreMoved
  BY DEF MoveInv, BytesAreMoved
<1> QED BY CallInvariance, <1>1, PTL
=============================================================================
