-------------------------- MODULE ExperimentRunner --------------------------
(***************************************************************************)
(* experiment/run_experiment.sh, started again and again by hand: it       *)
(* switches off address randomisation for the host, runs a container with  *)
(* a fixed name, switches randomisation on and copies the results out.     *)
(* "set -e" ends the script at the first failing command, except for the   *)
(* left side of &&; it may also be killed between any two commands.        *)
(***************************************************************************)
EXTENDS Naturals

CONSTANT MaxRuns

VARIABLES
    run,        \* number of the current run of the script
    command,    \* its next command; "idle": none is running
    aslr,       \* /proc/sys/kernel/randomize_va_space
    container,  \* run whose container has the name, 0 if none has
    results,    \* run whose results are in this run's OUTPUT_DIR, 0 if none
    said        \* "COMPLETED EXPERIMENT - COPIED RESULTS" was printed

runner_vars == <<run, command, aslr, container, results, said>>

RunnerInit ==
    /\ run = 0
    /\ command = "idle"
    /\ aslr = 2
    /\ container = 0
    /\ results = 0
    /\ said = FALSE

Start ==
    /\ command = "idle"
    /\ run < MaxRuns
    /\ run' = run + 1
    /\ command' = "build"
    /\ results' = 0
    /\ said' = FALSE
    /\ UNCHANGED <<aslr, container>>

(* mutant: without set -e *)
CarryOn(next) == next

(* set -e: where the script is after a failed command *)
ErrExit(next) == "idle"

(* a command that does nothing modelled here *)
Plain(at, next) ==
    /\ command = at
    /\ command' \in {next, ErrExit(next)}
    /\ UNCHANGED <<run, aslr, container, results, said>>

(* echo value | tee /proc/sys/kernel/randomize_va_space *)
SetAslr(at, value, next) ==
    /\ command = at
    /\ \/ aslr' = value /\ command' = next
       \/ UNCHANGED aslr /\ command' = ErrExit(next)
    /\ UNCHANGED <<run, container, results, said>>

(* docker container run: refused if the name is taken *)
RunContainer ==
    /\ command = "run"
    /\ \/ container = 0 /\ container' = run /\ command' = "running"
       \/ UNCHANGED container /\ command' = ErrExit("reenable")
    /\ UNCHANGED <<run, aslr, results, said>>

ContainerEnds ==
    /\ command = "running"
    /\ command' \in {"reenable", ErrExit("reenable")}
    /\ UNCHANGED <<run, aslr, container, results, said>>

(* docker cp && docker rm: a failing cp skips rm and does not end the script *)
CopyOut ==
    /\ command = "copy"
    /\ \/ container # 0 /\ results' = container /\ container' = 0 /\ command' = "chown"
       \/ container # 0 /\ results' = container /\ UNCHANGED container
          /\ command' = ErrExit("chown")
       \/ UNCHANGED <<results, container>> /\ command' = "chown"
    /\ UNCHANGED <<run, aslr, said>>

Report ==
    /\ command = "report"
    /\ said' = TRUE
    /\ command' = "idle"
    /\ UNCHANGED <<run, aslr, container, results>>

Killed ==
    /\ command # "idle"
    /\ command' = "idle"
    /\ UNCHANGED <<run, aslr, container, results, said>>

(* somebody cleans up between two runs *)
RemoveContainer ==
    /\ command = "idle"
    /\ container # 0
    /\ container' = 0
    /\ UNCHANGED <<run, command, aslr, results, said>>

RunnerNext ==
    \/ Start \/ RunContainer \/ ContainerEnds \/ CopyOut \/ Report
    \/ Killed \/ RemoveContainer
    \/ Plain("build", "disable") \/ Plain("chown", "report")
    \/ SetAslr("disable", 0, "run") \/ SetAslr("reenable", 2, "copy")

RunnerSpec == RunnerInit /\ [][RunnerNext]_runner_vars

-----------------------------------------------------------------------------
(* Properties *)

(* The experiment runs with randomisation off, whatever failed before: the *)
(* leak finders compare outputs of repeated executions.                    *)
AslrOffWhileRunning == command = "running" => aslr = 0

(* What is in a run's OUTPUT_DIR comes from that run's own container, also *)
(* if an earlier container still has the name.                             *)
ResultsOfThisRun == results \in {0, run}

(* "Disable ASLR for the run" and "Reenable ASLR": when the script is not  *)
(* running, randomisation is on.  It does not hold after a failing run.    *)
AslrRestored == command = "idle" => aslr = 2

(* "COMPLETED EXPERIMENT - COPIED RESULTS INTO $OUTPUT_DIR": the results   *)
(* were copied.  It does not hold after a failing docker cp.               *)
CompletedMeansCopied == said => results = run
=============================================================================
