---------------------------- MODULE VerifyScript ----------------------------
(***************************************************************************)
(* verify.py: the script behind every test of the build.  It starts        *)
(* SeaHorn on a unit proof, reads what SeaHorn prints (both its streams,   *)
(* through one pipe), and turns the lines and SeaHorn's exit code into the *)
(* verdict that ctest looks at.  Without --expect the script is replaced   *)
(* by SeaHorn, whose exit code is the verdict.                             *)
(*                                                                         *)
(* SeaHorn is the environment: it may print any lines in any order and may *)
(* exit with any code at any time.  Python's False and True are 0 and 1.   *)
(***************************************************************************)
EXTENDS Integers, Sequences

CONSTANTS
    Answers,          \* what --expect may ask for
    None,             \* --expect is not given
    Locations,        \* the debug information of a vacuity check
    ExitCodes,        \* of SeaHorn
    Capacity,         \* lines the pipe holds
    MaxLines          \* bound: lines SeaHorn prints

ASSUME VerifyAssumption ==
    /\ None \notin Answers
    /\ ExitCodes \subseteq Int
    /\ Capacity \in Nat \ {0}
    /\ MaxLines \in Nat

VARIABLES
    vac, expect,      \* the options
    script,           \* what the script does
    sea,              \* SeaHorn: "none", "running" or "exited"
    pipe,
    rcode,            \* SeaHorn's exit code
    found_expected, found_error,
    vacuity_passed, vacuity_failed,
    verdict,          \* the script's own exit code
    printed,          \* history: the lines SeaHorn printed
    lines             \* history: their number

options == <<vac, expect>>
found == <<found_expected, found_error, vacuity_passed, vacuity_failed>>
script_vars == <<options, script, sea, pipe, rcode, found, verdict, printed, lines>>

Answer(a) == [what |-> "answer", stream |-> "Info", info |-> a]
AssertionFailed == [what |-> "assertion failed", stream |-> "Error", info |-> None]
Vacuity(stream, result, l) == [what |-> result, stream |-> stream, info |-> l]
Other == [what |-> "other", stream |-> "Info", info |-> None]

Line == {Answer(a) : a \in Answers} \cup {AssertionFailed, Other}
        \cup [what : {"passed", "failed"}, stream : {"Info", "Error"}, info : Locations]

ScriptInit ==
    /\ vac \in {0, 1} /\ expect \in Answers \cup {None}
    /\ script = "start" /\ sea = "none" /\ pipe = <<>> /\ rcode = 0
    /\ found_expected = 0 /\ found_error = 0
    /\ vacuity_passed = {} /\ vacuity_failed = {}
    /\ verdict = 0 /\ printed = {} /\ lines = 0

(* SeaHorn.  After execv nobody reads its output but the terminal. *)
SeaHornPrints(l) ==
    /\ sea = "running" /\ lines < MaxLines
    /\ IF script = "replaced" THEN pipe' = pipe
       ELSE Len(pipe) < Capacity /\ pipe' = Append(pipe, l)
    /\ printed' = printed \cup {l} /\ lines' = lines + 1
    /\ UNCHANGED <<options, script, sea, rcode, found, verdict>>

Exit(code) ==
    /\ sea = "running" /\ sea' = "exited" /\ rcode' = code
    /\ IF script = "replaced" THEN script' = "returned" /\ verdict' = code
       ELSE UNCHANGED <<script, verdict>>
    /\ UNCHANGED <<options, pipe, found, printed, lines>>

(* The script. *)
Execv ==
    /\ script = "start" /\ expect = None
    /\ script' = "replaced" /\ sea' = "running"
    /\ UNCHANGED <<options, pipe, rcode, found, verdict, printed, lines>>

Popen ==
    /\ script = "start" /\ expect # None
    /\ script' = "reading" /\ sea' = "running"
    /\ UNCHANGED <<options, pipe, rcode, found, verdict, printed, lines>>

(* The two sets of check_vacuity: a verdict on the wrong stream is neither. *)
CheckVacuity(l) ==
    /\ vacuity_passed' = vacuity_passed \cup
           (IF l.what = "passed" /\ l.stream = "Info" THEN {l.info} ELSE {})
    /\ vacuity_failed' = vacuity_failed \cup
           (IF l.what = "failed" /\ l.stream = "Error" THEN {l.info} ELSE {})

(* One round of the loop: the first test that holds takes the line. *)
ReadLine ==
    /\ script = "reading" /\ pipe # <<>>
    /\ pipe' = Tail(pipe)
    /\ LET line == Head(pipe)
       IN  IF found_expected = 0 /\ line = Answer(expect)
           THEN found_expected' = 1 /\ UNCHANGED <<found_error, vacuity_passed, vacuity_failed>>
           ELSE IF line = AssertionFailed
           THEN found_error' = 1 /\ UNCHANGED <<found_expected, vacuity_passed, vacuity_failed>>
           ELSE CheckVacuity(line) /\ UNCHANGED <<found_expected, found_error>>
    /\ UNCHANGED <<options, script, sea, rcode, verdict, printed, lines>>

EndOfOutput_WaitsFirst ==
    /\ script = "reading" /\ found_expected = 1
    /\ script' = "waiting"
    /\ UNCHANGED <<options, sea, pipe, rcode, found, verdict, printed, lines>>

EndOfOutput_OnlyWithAnswer ==
    /\ script = "reading" /\ pipe = <<>> /\ sea = "exited" /\ found_expected = 1
    /\ script' = "waiting"
    /\ UNCHANGED <<options, sea, pipe, rcode, found, verdict, printed, lines>>

(* readline returns '' when the writing end is closed and all is read. *)
EndOfOutput ==
    /\ script = "reading" /\ pipe = <<>> /\ sea = "exited"
    /\ script' = "waiting"
    /\ UNCHANGED <<options, sea, pipe, rcode, found, verdict, printed, lines>>

Verdict_AnswerFirst ==
    IF rcode = 0 THEN IF found_expected = 1 THEN 0 ELSE 1
    ELSE IF vac = 1 /\ (found_error = 1 \/ vacuity_failed \ vacuity_passed # {}) THEN 2
    ELSE rcode

Verdict ==
    IF vac = 1 /\ found_error = 1 THEN 2
    ELSE IF vac = 1 /\ vacuity_failed \ vacuity_passed # {} THEN 2
    ELSE IF rcode = 0 THEN IF found_expected = 1 THEN 0 ELSE 1
    ELSE rcode

Wait ==
    /\ script = "waiting" /\ sea = "exited"
    /\ script' = "returned" /\ verdict' = Verdict
    /\ UNCHANGED <<options, sea, pipe, rcode, found, printed, lines>>

ScriptNext ==
    \/ \E l \in Line : SeaHornPrints(l)
    \/ \E code \in ExitCodes : Exit(code)
    \/ Execv \/ Popen \/ ReadLine \/ EndOfOutput \/ Wait

(* The script always takes its next step; SeaHorn need not ever exit. *)
Fairness == WF_script_vars(Execv) /\ WF_script_vars(Popen) /\ WF_script_vars(ReadLine)
            /\ WF_script_vars(EndOfOutput) /\ WF_script_vars(Wait)

ScriptSpec == ScriptInit /\ [][ScriptNext]_script_vars /\ Fairness
-----------------------------------------------------------------------------
ScriptTypeOK ==
    /\ vac \in {0, 1} /\ expect \in Answers \cup {None}
    /\ script \in {"start", "reading", "waiting", "replaced", "returned"}
    /\ sea \in {"none", "running", "exited"}
    /\ pipe \in Seq(Line)
    /\ rcode \in ExitCodes \cup {0}
    /\ found_expected \in {0, 1} /\ found_error \in {0, 1}
    /\ vacuity_passed \subseteq Locations /\ vacuity_failed \subseteq Locations
    /\ verdict \in ExitCodes \cup {0, 1, 2}
    /\ printed \subseteq Line /\ lines \in Nat

ReportedVacuous(l) == Vacuity("Error", "failed", l) \in printed
ReportedReached(l) == Vacuity("Info", "passed", l) \in printed

(* What a test of the build stands for: SeaHorn ended well with the answer *)
(* the test expects and, in vacuity mode, no assertion failed and every    *)
(* location reported vacuous was also reported reached.                    *)
Verified ==
    /\ rcode = 0 /\ Answer(expect) \in printed
    /\ vac = 1 => /\ AssertionFailed \notin printed
                  /\ \A l \in Locations : ReportedVacuous(l) => ReportedReached(l)

(* The order of the lines, which test took each of them, and how reading   *)
(* and printing interleave do not matter: the script says 0 exactly when   *)
(* all that SeaHorn printed says so.  (verify.py, lines 139-161.)          *)
ZeroMeansVerified ==
    script = "returned" /\ expect # None => (verdict = 0 <=> Verified)

(* SeaHorn never stays blocked on a full pipe: the script reads to the end *)
(* before it waits for SeaHorn to exit.                                    *)
PipeIsDrained == Len(pipe) = Capacity ~> Len(pipe) < Capacity

(* Once SeaHorn has exited the script returns a verdict. *)
ScriptReturns == sea = "exited" ~> script = "returned"

(* Neither of the two processes waits for the other for ever (verify.py,   *)
(* lines 130-163).                                                         *)
NeitherWaitsForEver == PipeIsDrained /\ ScriptReturns
=============================================================================
