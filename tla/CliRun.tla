------------------------------- MODULE CliRun -------------------------------
(***************************************************************************)
(* The commands of the command line that work on workflows: each is one    *)
(* process that takes its steps in order and stops at the first that       *)
(* fails.  The exit code is found by looking for words in the outermost    *)
(* text of the error, so that a context hides its cause.                   *)
(***************************************************************************)
EXTENDS Naturals, Sequences, SequencesExt

CONSTANT None

VARIABLES
  command,       \* what was typed
  spec,          \* the workflow file, or what the model gives
  todo,          \* the steps that are left
  done,          \* the steps that were taken
  text,          \* the words that tell errors apart, in the outermost text of the error
  exit,          \* None, or the exit code
  counts,        \* of the metrics manager
  saved          \* whether the run is in the database, a map in memory

vars == <<command, spec, todo, done, text, exit, counts, saved>>

Command ==
  [name : {"validate"}, strict : BOOLEAN]
  \cup [name : {"run"}, save : BOOLEAN, input : {"none", "good", "bad"}]
  \cup [name : {"synth"}, save : BOOLEAN, deploy : BOOLEAN, run : BOOLEAN,
        input : {"none", "good", "bad"}]
  \cup {[name |-> "token"]}

\* A file that is not there or is no workflow, an edge to a node that is not there, a cycle.
Source == {"absent", "garbage", "dangling", "cyclic", "sound"}

Opt(asked, steps) == IF asked THEN steps ELSE <<>>

-----------------------------------------------------------------------------
(* The steps of the commands, in their order.                              *)

ValidateSteps(c) == <<"read", "parse">> \o Opt(c.strict, <<"strict">>) \o <<"print">>

\* MUTANT of RunSteps: the input is looked at when the run has started.
RunStepsInputLate(c) ==
  <<"read", "parse", "start", "input", "execute", "complete">>
    \o Opt(c.save, <<"save">>) \o <<"print">>

\* The flags for parallel runs and for the cache change nothing.
RunSteps(c) ==
  <<"read", "parse", "input", "start", "execute", "complete">>
    \o Opt(c.save, <<"save">>) \o <<"print">>

\* The input is looked at when the plan is deployed.  A deployment is run through its
\* store, which records the run.
SynthSteps(c) ==
  <<"synthesize">> \o Opt(c.save, <<"write">>) \o Opt(c.deploy, <<"open", "deploy">>)
    \o Opt(c.run, <<"inputOption", "executeSpec">>)
    \o Opt(c.run /\ c.deploy, <<"record">>)

TokenSteps == <<"secret", "mint">>

\* execute_command.  What comes before it, the configuration and the managers, is a step of
\* every command.
StepsOf(c) ==
  <<"init">> \o
  (CASE c.name = "validate" -> ValidateSteps(c)
     [] c.name = "run" -> RunSteps(c)
     [] c.name = "synth" -> SynthSteps(c)
     [] c.name = "token" -> TokenSteps)

Init ==
  /\ command \in Command /\ spec \in Source
  /\ todo = StepsOf(command) /\ done = <<>>
  /\ text = {} /\ exit = None
  /\ counts = [total |-> 0, running |-> 0, completed |-> 0, failed |-> 0] /\ saved = FALSE

-----------------------------------------------------------------------------
(* Errors.                                                                 *)

Word == {"timeout", "permission", "not found", "invalid", "cancelled"}

\* handle_cli_error: the first of the words that the text contains.
ExitCode(words) ==
  IF "timeout" \in words THEN 124
  ELSE IF "permission" \in words THEN 126
  ELSE IF "not found" \in words THEN 127
  ELSE IF "invalid" \in words THEN 128
  ELSE IF "cancelled" \in words THEN 130
  ELSE 1

\* The outermost texts that a step may fail with: one of its own, or one that repeats the
\* text of the cause.
Texts(step) ==
  CASE step \in {"read", "strict", "execute", "write", "inputOption", "secret"} -> {{}}
    [] step \in {"parse", "input"} -> {{"invalid"}}
    [] step \in {"synthesize", "open", "deploy", "executeSpec", "record", "mint"} ->
         {{}} \cup {{w} : w \in Word}
    [] OTHER -> {}

\* Whether a step can fail, and whether it can succeed: what is in the file and in the
\* input decides, and elsewhere both are possible.
CanFail(step) ==
  CASE step = "read" -> spec = "absent"
    [] step = "parse" -> spec = "garbage"
    [] step = "strict" -> spec = "cyclic"
    [] step \in {"input", "inputOption"} -> command.input = "bad"
    [] step \in {"init", "start", "complete", "save", "print"} -> FALSE
    [] OTHER -> TRUE

CanSucceed(step) ==
  /\ step \in {"read", "parse", "strict", "input", "inputOption"} => ~CanFail(step)
  /\ ~(step = "parse" /\ spec = "dangling")

-----------------------------------------------------------------------------
(* One process.                                                            *)

\* The metrics manager: a run is counted when it starts, and counted off when it succeeds.
Counted(step) ==
  CASE step = "start" -> [counts EXCEPT !.total = @ + 1, !.running = @ + 1]
    [] step = "complete" -> [counts EXCEPT !.running = @ - 1, !.completed = @ + 1]
    [] OTHER -> counts

Step ==
  /\ exit = None /\ todo # <<>>
  /\ CanSucceed(Head(todo))
  /\ todo' = Tail(todo) /\ done' = Append(done, Head(todo))
  /\ counts' = Counted(Head(todo)) /\ saved' = (saved \/ Head(todo) = "save")
  /\ UNCHANGED <<command, spec, text, exit>>

\* The configuration does not load, or has a watch that fails: main returns the error itself.
InitFails ==
  /\ exit = None /\ todo # <<>> /\ Head(todo) = "init"
  /\ exit' = 1
  /\ UNCHANGED <<command, spec, todo, done, text, counts, saved>>

Fail ==
  /\ exit = None /\ todo # <<>> /\ CanFail(Head(todo))
  /\ \E words \in Texts(Head(todo)) : text' = words /\ exit' = ExitCode(words)
  /\ UNCHANGED <<command, spec, todo, done, counts, saved>>

\* from_json looks the ends of an edge up, and panics if one is not there.
Panic ==
  /\ exit = None /\ todo # <<>> /\ spec = "dangling" /\ Head(todo) \in {"parse", "synthesize"}
  /\ exit' = 101
  /\ UNCHANGED <<command, spec, todo, done, text, counts, saved>>

Finish ==
  /\ exit = None /\ todo = <<>>
  /\ exit' = 0
  /\ UNCHANGED <<command, spec, todo, done, text, counts, saved>>

\* The memory of a process goes with it: what was counted, and what was saved.
Again ==
  /\ exit # None
  /\ command' \in Command /\ spec' \in Source
  /\ todo' = StepsOf(command') /\ done' = <<>> /\ text' = {} /\ exit' = None
  /\ counts' = [total |-> 0, running |-> 0, completed |-> 0, failed |-> 0] /\ saved' = FALSE

Next == Step \/ InitFails \/ Fail \/ Panic \/ Finish \/ Again

CliSpec == Init /\ [][Next]_vars

-----------------------------------------------------------------------------
(* Properties.                                                             *)

TypeOK ==
  /\ command \in Command /\ spec \in Source /\ done \o todo = StepsOf(command)
  /\ text \subseteq Word /\ exit \in {None, 0, 1, 101, 124, 126, 127, 128, 130}
  /\ \A k \in DOMAIN counts : counts[k] \in 0..1

\* A validate, run or token that exits as misused has started nothing, and every run that
\* was started and has not completed is still counted as running.
MisuseStartsNothing ==
  /\ exit = 128 /\ command.name # "synth" =>
       counts.total = 0 /\ ~saved /\ "mint" \notin Range(done)
  /\ counts.total = counts.running + counts.completed
=============================================================================
