------------------------------ MODULE Laborant ------------------------------
(***************************************************************************)
(* The test orchestrator: one command `laborant test', `lint' or `format'  *)
(* and what it starts.  `test' runs the files of the components it is      *)
(* given one after the other, each as a process of its own that sets up,   *)
(* runs its tests, tears down and prints its results, and may die or hang  *)
(* at any moment; the exit code that main() returns is made of what the    *)
(* processes printed.  `lint' checks a component, lets four tools rewrite  *)
(* it and checks it again.                                                 *)
(*                                                                         *)
(* Components and files are taken in any order where the code sorts their  *)
(* names.  black, isort, autoflake and autopep8 are external: they leave   *)
(* any flaws behind.                                                       *)
(***************************************************************************)
EXTENDS Integers, Sequences, FiniteSets

CONSTANTS
  Component,  \* names that may be given on the command line
  Tested,     \* components with a directory tests/
  Sources,    \* components with Python files
  TestFile,   \* the files tests/{unit,integration,e2e}/test_*.py,
  Home,       \*   [TestFile -> Tested]
  CategoryOf, \*   [TestFile -> Category]
  Suite,      \*   and the kinds of their tests, [TestFile -> Seq(Kinds)]
  Commands,   \* the command lines considered
  MaxFlaws    \* bound: issues of a component

Category == {"unit", "integration", "e2e"}
Kinds == {"sync", "async"}
Tool == {"flake8", "autoflake", "autopep8", "black", "isort"}

Command ==
  [name : {"test", "lint", "format"},
   mode : {"auto", "all", "named"}, components : SUBSET Component,
   categories : SUBSET Category, \* {}: all
   matching : SUBSET TestFile,   \* by --file
   fail_fast : BOOLEAN]

ASSUME CommandsAssumption ==
  /\ Tested \cup Sources \subseteq Component
  /\ Home \in [TestFile -> Tested]
  /\ CategoryOf \in [TestFile -> Category]
  /\ Suite \in [TestFile -> Seq(Kinds)]
  /\ Commands \subseteq Command
  /\ \A cmd \in Commands :
       /\ cmd.mode = "named" <=> cmd.components # {}
       /\ cmd.name = "format" => Cardinality(cmd.components) <= 1
  /\ MaxFlaws \in Nat

(* A hook: what it does, for the whole class or for every test, and how.   *)
Hooks == {"setup", "teardown"} \X {"class", "test"} \X Kinds

VARIABLES
  command,     \* the command line
  exit,        \* "running", or the exit code: success (0), failure (1), fatal (2)
  targets,     \* what it has still to go through, a set of sets of components
  unit,        \* the one at hand
  step,        \* how far it is with that one; 0 between two
  todo,        \* files of the component at hand not yet run
  result,      \* ComponentTestResult: total_failed, total_errors
  all_passed,
  proc,        \* the process of a test file, or NoProc
  hooks,       \* the hooks that the test classes override
  installed,   \* the tools that can be found
  flaws,       \* [Component -> number]: issues that flake8 reports
               \* history:
  finished,    \* files whose result was added
  broken,      \* files with a test or a setup that failed, or whose process
               \*   died or hung
  left,        \* files whose class-level fixture is still there
  silent       \* files whose class-level teardown raised

progress == <<targets, unit, step, all_passed>>
history  == <<finished, broken, left, silent>>
runvars  == <<command, exit, progress, todo, result, proc, hooks, installed,
              flaws, history>>

NoProc == [step |-> "none"]
NoFailures == [failed |-> 0, errors |-> 0]

----------------------------------------------------------------------------
(* What a test file prints and what the runner makes of it.                *)

Count(tests, status) == Cardinality({i \in DOMAIN tests : tests[i] = status})

(* The result of a file whose tests were run...                            *)
Message(tests) ==
  [total |-> Len(tests), tests |-> tests,
   failed |-> Count(tests, "fail"), errors |-> Count(tests, "error")]

(* ...and of one whose setup failed, which counts no tests but lists one.  *)
SetupFailed == [total |-> 0, tests |-> <<"error">>, failed |-> 0, errors |-> 1]

(* The total must be the number of tests listed, and the counts theirs.    *)
Valid(m) ==
  /\ m.total = Len(m.tests)
  /\ m.failed = Count(m.tests, "fail")
  /\ m.errors = Count(m.tests, "error")

(* Mutated: the made-up result counts nothing.                             *)
UncountedError == [failed |-> 0, errors |-> 0]

(* The result made up for a file that has no valid one.                    *)
CreateErrorResult == [failed |-> 0, errors |-> 1]

(* The output holds at most one result.                                    *)
ResultOf(output) ==
  LET valid == {m \in output : Valid(m)}
  IN  IF valid = {} THEN CreateErrorResult
      ELSE [k \in {"failed", "errors"} |-> (CHOOSE m \in valid : TRUE)[k]]

Success(r) == r.failed = 0 /\ r.errors = 0

AddResult(r, s) == [failed |-> r.failed + s.failed, errors |-> r.errors + s.errors]

(* Mutated: an asynchronous teardown never falls back to the synchronous   *)
(* one.                                                                    *)
HookStrict(what, scope, kind) ==
  IF kind = "async" /\ (what = "teardown" \/ <<what, scope, "async">> \in hooks)
  THEN <<what, scope, "async">> ELSE <<what, scope, "sync">>

(* The hook that is called: the asynchronous one where it is overridden,   *)
(* for the class and for asynchronous tests; else the synchronous one.     *)
Hook(what, scope, kind) ==
  IF kind = "async" /\ <<what, scope, "async">> \in hooks
  THEN <<what, scope, "async">> ELSE <<what, scope, "sync">>

Does(what, scope, kind) == Hook(what, scope, kind) \in hooks

----------------------------------------------------------------------------
(* laborant test                                                           *)

(* The files of a component that the command asks for.                     *)
Selected(c) ==
  {f \in command.matching :
     /\ Home[f] = c
     /\ command.categories # {} => CategoryOf[f] \in command.categories}

(* The components: those named, or all that have tests.  Otherwise the     *)
(* change detector and the mapper are asked by methods that neither has,   *)
(* and the exception ends the run.                                         *)
AutoDetect ==
  /\ exit = "running" /\ command.name = "test" /\ step = 0 /\ targets = {}
  /\ command.mode = "auto"
  /\ exit' = "fatal"
  /\ UNCHANGED <<command, progress, todo, result, proc, hooks, installed,
                 flaws, history>>

(* Components without tests, or without any that are asked for, pass.      *)
StartComponent ==
  /\ exit = "running" /\ command.name = "test" /\ step = 0
  /\ \E u \in targets : targets' = targets \ {u} /\ unit' = u
  /\ step' = 1
  /\ todo' = UNION {Selected(c) : c \in unit'}
  /\ result' = NoFailures
  /\ UNCHANGED <<command, exit, all_passed, proc, hooks, installed, flaws,
                 history>>

(* Unit before integration before e2e.                                     *)
Before(f, g) ==
  \/ CategoryOf[f] = "unit" /\ CategoryOf[g] # "unit"
  \/ CategoryOf[f] = "integration" /\ CategoryOf[g] = "e2e"

StartFile ==
  /\ exit = "running" /\ proc = NoProc
  /\ \E f \in todo :
       /\ ~\E g \in todo : Before(g, f)
       /\ todo' = todo \ {f}
       /\ proc' = [step |-> "setup", file |-> f, results |-> << >>,
                   held |-> FALSE, output |-> {}]
  /\ UNCHANGED <<command, exit, progress, result, hooks, installed, flaws,
                 history>>

Alive == exit = "running" /\ proc.step \in {"setup", "tests"}

(* The class-level setup.  One that raises may have done a part.           *)
ClassSetup ==
  /\ exit = "running" /\ proc.step = "setup"
  /\ LET f == proc.file
         made == IF Does("setup", "class", "async") THEN {f} ELSE {}
     IN  \/ /\ proc' = [proc EXCEPT !.step = "tests"]
            /\ left' = left \cup made
            /\ UNCHANGED broken
         \/ /\ made # {}
            /\ proc' = [proc EXCEPT !.step = "ended", !.output = {SetupFailed}]
            /\ left' \in {left, left \cup made}
            /\ broken' = broken \cup {f}
  /\ UNCHANGED <<command, exit, progress, todo, result, hooks, installed,
                 flaws, finished, silent>>

(* A test with its own setup and teardown.  It passes if all three return; *)
(* once one of them raises, the rest is skipped, the teardown too.         *)
RunTest ==
  /\ exit = "running" /\ proc.step = "tests"
  /\ Len(proc.results) < Len(Suite[proc.file])
  /\ LET kind == Suite[proc.file][Len(proc.results) + 1]
         made == proc.held \/ Does("setup", "test", kind)
     IN  \/ /\ proc' = [proc EXCEPT
                          !.results = Append(@, "pass"),
                          !.held = made /\ ~Does("teardown", "test", kind)]
            /\ UNCHANGED broken
         \/ /\ \E status \in {"fail", "error"},
                  h \in {proc.held, made, made /\ ~Does("teardown", "test", kind)} :
                 proc' = [proc EXCEPT !.results = Append(@, status), !.held = h]
            /\ broken' = broken \cup {proc.file}
  /\ UNCHANGED <<command, exit, progress, todo, result, hooks, installed,
                 flaws, finished, left, silent>>

(* The class-level teardown: if it raises, that is logged and no more.     *)
ClassTeardown ==
  /\ exit = "running" /\ proc.step = "tests"
  /\ Len(proc.results) = Len(Suite[proc.file])
  /\ proc' = [proc EXCEPT !.step = "ended", !.output = {Message(proc.results)}]
  /\ IF Does("teardown", "class", "async")
     THEN \/ left' = left \ {proc.file} /\ UNCHANGED silent
          \/ silent' = silent \cup {proc.file} /\ UNCHANGED left
     ELSE UNCHANGED <<left, silent>>
  /\ UNCHANGED <<command, exit, progress, todo, result, hooks, installed,
                 flaws, finished, broken>>

(* The process ends without its results, or is killed when it takes too    *)
(* long, be it after it has printed them.                                  *)
Dies ==
  /\ Alive
  /\ proc' = [proc EXCEPT !.step = "ended"]
  /\ broken' = broken \cup {proc.file}
  /\ UNCHANGED <<command, exit, progress, todo, result, hooks, installed,
                 flaws, finished, left, silent>>

Timeout ==
  /\ exit = "running" /\ proc.step \in {"setup", "tests", "ended"}
  /\ proc' = [proc EXCEPT !.step = "ended", !.output = {}]
  /\ broken' = broken \cup {proc.file}
  /\ UNCHANGED <<command, exit, progress, todo, result, hooks, installed,
                 flaws, finished, left, silent>>

(* The runner adds the result, and forgets the other files of the          *)
(* component if it is to stop at the first failure.                        *)
Collect ==
  /\ exit = "running" /\ proc.step = "ended"
  /\ LET r == ResultOf(proc.output)
     IN  /\ result' = AddResult(result, r)
         /\ todo' = IF ~Success(r) /\ command.fail_fast THEN {} ELSE todo
  /\ proc' = NoProc
  /\ finished' = finished \cup {proc.file}
  /\ UNCHANGED <<command, exit, progress, hooks, installed, flaws, broken,
                 left, silent>>

EndComponent ==
  /\ exit = "running" /\ command.name = "test" /\ step = 1
  /\ todo = {} /\ proc = NoProc
  /\ step' = 0
  /\ all_passed' = (all_passed /\ Success(result))
  /\ targets' = IF ~Success(result) /\ command.fail_fast THEN {} ELSE targets
  /\ UNCHANGED <<command, exit, unit, todo, result, proc, hooks, installed,
                 flaws, history>>

----------------------------------------------------------------------------
(* laborant lint, laborant format                                          *)

(* Nothing to check is as good as clean; otherwise flake8 must be there.   *)
RunFlake8(u) ==
  \/ u \cap Sources = {}
  \/ "flake8" \in installed /\ \A c \in u \cap Sources : flaws[c] = 0

Scan ==
  /\ exit = "running" /\ command.name = "lint" /\ step = 0
  /\ \E u \in targets :
       /\ unit' = u
       /\ IF RunFlake8(u)
          THEN targets' = targets \ {u} /\ UNCHANGED step
          ELSE UNCHANGED targets /\ step' = 1
  /\ UNCHANGED <<command, exit, todo, result, all_passed, proc, hooks,
                 installed, flaws, history>>

(* Formatting has the last two of the four tools only.                     *)
Format ==
  /\ exit = "running" /\ command.name = "format" /\ step = 0
  /\ \E u \in targets : unit' = u
  /\ step' = 3
  /\ UNCHANGED <<command, exit, targets, todo, result, all_passed, proc,
                 hooks, installed, flaws, history>>

Fixers == <<"autoflake", "autopep8", "black", "isort">>

(* Only `format' minds that a tool is missing; nobody reads its exit code. *)
Fix ==
  /\ exit = "running" /\ command.name # "test" /\ step \in 1..4
  /\ LET files == unit \cap Sources
         found == Fixers[step] \in installed
     IN  /\ IF found
            THEN \E n \in [files -> 0..MaxFlaws] :
                   flaws' = [c \in Component |->
                               IF c \in files THEN n[c] ELSE flaws[c]]
            ELSE UNCHANGED flaws
         /\ all_passed' = (all_passed /\
              (command.name = "format" => found \/ files = {}))
  /\ IF command.name = "format" /\ step = 4
     THEN step' = 0 /\ targets' = targets \ {unit}
     ELSE step' = step + 1 /\ UNCHANGED targets
  /\ UNCHANGED <<command, exit, unit, todo, result, proc, hooks, installed,
                 history>>

Verify ==
  /\ exit = "running" /\ command.name = "lint" /\ step = 5
  /\ step' = 0
  /\ targets' = targets \ {unit}
  /\ all_passed' = (all_passed /\ RunFlake8(unit))
  /\ UNCHANGED <<command, exit, unit, todo, result, proc, hooks, installed,
                 flaws, history>>

----------------------------------------------------------------------------

Finish ==
  /\ exit = "running" /\ step = 0 /\ targets = {}
  /\ command.name = "test" => command.mode # "auto"
  /\ exit' = IF all_passed THEN "success" ELSE "failure"
  /\ UNCHANGED <<command, progress, todo, result, proc, hooks, installed,
                 flaws, history>>

(* Ctrl-C; a test process is killed.                                       *)
Interrupt ==
  /\ exit = "running"
  /\ exit' = "fatal"
  /\ proc' = NoProc
  /\ UNCHANGED <<command, progress, todo, result, hooks, installed, flaws,
                 history>>

(* What the command goes through: each component for itself, except that   *)
(* without a name lint and format take all files at once.                  *)
Targets(cmd) ==
  CASE cmd.mode = "named" -> {{c} : c \in cmd.components}
    [] cmd.mode = "all" -> {{c} : c \in Tested}
    [] OTHER -> IF cmd.name = "test" THEN {} ELSE {Sources}

RunnerInit ==
  /\ command \in Commands
  /\ exit = "running"
  /\ targets = Targets(command) /\ unit = {} /\ step = 0 /\ todo = {}
  /\ result = NoFailures /\ all_passed = TRUE
  /\ proc = NoProc
  /\ hooks \in SUBSET Hooks
  /\ installed \in SUBSET Tool
  /\ flaws \in [Component -> 0..MaxFlaws]
  /\ finished = {} /\ broken = {} /\ left = {} /\ silent = {}

RunnerNext ==
  \/ AutoDetect \/ StartComponent \/ StartFile \/ ClassSetup \/ RunTest
  \/ ClassTeardown \/ Dies \/ Timeout \/ Collect \/ EndComponent
  \/ Scan \/ Format \/ Fix \/ Verify
  \/ Finish \/ Interrupt

RunnerSpec == RunnerInit /\ [][RunnerNext]_runvars

----------------------------------------------------------------------------

Status == {"pass", "fail", "error"}

RunnerTypeOK ==
  /\ command \in Commands
  /\ exit \in {"running", "success", "failure", "fatal"}
  /\ targets \subseteq SUBSET Component /\ unit \subseteq Component
  /\ step \in 0..5 /\ todo \subseteq TestFile
  /\ result \in [{"failed", "errors"} -> Nat]
  /\ all_passed \in BOOLEAN
  /\ proc # NoProc =>
       /\ proc.step \in {"setup", "tests", "ended"}
       /\ proc.file \in TestFile
       /\ proc.results \in Seq(Status)
       /\ proc.held \in BOOLEAN
       /\ proc.output \subseteq {SetupFailed, Message(proc.results)}
  /\ hooks \subseteq Hooks /\ installed \subseteq Tool
  /\ flaws \in [Component -> 0..MaxFlaws]
  /\ finished \cup broken \cup left \cup silent \subseteq TestFile

Asked ==
  UNION {Selected(c) : c \in UNION Targets(command)}

(* The exit code tells the truth, whatever happens to the processes in     *)
(* between: 0 if every file that was asked for ran to its end and nothing  *)
(* but a class-level teardown failed in it, or the files linted have no    *)
(* issue now; 1 only if something failed, or has an issue or no linter.    *)
ExitTrue ==
  LET linted == (UNION Targets(command)) \cap Sources
      Flawed == \E c \in linted : flaws[c] # 0
  IN  /\ command.name = "test" =>
           /\ exit = "success" => Asked \subseteq finished \ broken
           /\ exit = "failure" => broken # {}
      /\ command.name = "lint" =>
           /\ exit = "success" => ~Flawed
           /\ exit = "failure" => Flawed \/ "flake8" \notin installed

(* In a class that overrides teardowns of the same kinds as setups, a test *)
(* starts among the leftovers of another only after one that failed, and a *)
(* file leaves its fixture to the next ones only if it is reported as      *)
(* failed or its teardown raised.                                          *)
LeftoversHaveCause ==
  LET Kept(what) == {<<h[2], h[3]>> : h \in {g \in hooks : g[1] = what}}
  IN  Kept("setup") = Kept("teardown") =>
        /\ proc.step = "tests" /\ proc.held =>
             \E i \in DOMAIN proc.results : proc.results[i] # "pass"
        /\ \A f \in left \cap finished : f \in broken \cup silent
=============================================================================
