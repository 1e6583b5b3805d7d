------------------------------ MODULE Pipeline ------------------------------
(***************************************************************************)
(* reproduce.sh as a sequence of file-system operations: the interpreter   *)
(* (experimentex/interpret.py and the run-directory generators of the root *)
(* classes) turns the ExperimenTeX of the document into run directories,   *)
(* step_3_run.sh executes every run directory that is not finished, and    *)
(* the plotter (experimentex/plot.py) reads the results back through the   *)
(* instance-to-run-directories mapping.  Any of the three can be killed    *)
(* between two file operations and reproduce.sh, or any one step, be       *)
(* started again; the author may edit the document at any time.            *)
(*                                                                         *)
(* A run directory is named after the hash of its configuration, so a      *)
(* Config is both: two configurations of the model never collide.          *)
(* Rewriting a file is two operations, because open(.., "w+") truncates.   *)
(***************************************************************************)
EXTENDS Naturals, SequencesExt

CONSTANTS
    Instance,    \* experiment instances
    Config,      \* run configurations
    Drafts,      \* documents the author may write: instance -> configurations
    MaxEdits,    \* bound on the edits of the document
    MaxCrashes   \* bound on the kills

ASSUME DraftsAssumption ==
    /\ Drafts # {}
    /\ \A draft \in Drafts : /\ DOMAIN draft \subseteq Instance /\ IsFiniteSet(DOMAIN draft)
                             /\ \A i \in DOMAIN draft :
                                  draft[i] \subseteq Config /\ IsFiniteSet(draft[i])
                             /\ UNION {draft[i] : i \in DOMAIN draft} # {}
    /\ MaxEdits \in Nat /\ MaxCrashes \in Nat

File == {"dataStructure", "input", "inputReady", "runScript"}

VARIABLES
    doc,        \* the document: which instance needs which configurations
    runsDir,    \* temp/runs exists
    dirs,       \* the run directories under it
    files,      \* files[d][f] \in {"absent", "empty", "ok"}
    finished,   \* output/finished.txt of each run directory
    result,     \* the other output files: "none", "partial", "right", or
                \* "misled" when they were computed from a truncated input
    mapping,    \* [state: absent, empty or ok; of: the document it was made from]
    plots,      \* plots[i]: what the plots of instance i were drawn from
    stage,      \* the step that is running, or "idle"
    program,    \* the operations that step has left
    chained,    \* it was started by reproduce.sh, which goes on to the next step
    lastError,  \* why the last step to fail did and as part of what, or NoError
    edited,     \* the document changed since the last interpretation started
    edits, crashes

disk == <<runsDir, dirs, files, finished, result, mapping, plots>>
control == <<stage, program, chained, lastError>>
author == <<doc, edited, edits>>
vars == <<disk, control, author, crashes>>

NoError == [why |-> "none", chained |-> FALSE]
NoPlot == [of |-> {}, drawn |-> FALSE, complete |-> TRUE]
NoMapping == [state |-> "absent", of |-> <<>>]
EmptyDir == [f \in File |-> "absent"]

Init ==
    /\ doc \in Drafts
    /\ runsDir = FALSE /\ dirs = {} /\ files = [d \in Config |-> EmptyDir]
    /\ finished = [d \in Config |-> "absent"] /\ result = [d \in Config |-> "none"]
    /\ mapping = NoMapping /\ plots = [i \in Instance |-> NoPlot]
    /\ stage = "idle" /\ program = <<>> /\ chained = FALSE /\ lastError = NoError
    /\ edited = FALSE /\ edits = 0 /\ crashes = 0

-----------------------------------------------------------------------------
(* The operations of one interpretation, in the order they are performed.  *)

Operations(S, OpsOf(_)) ==
    LET order == SetToSeq(S) IN FlattenSeq([k \in DOMAIN order |-> OpsOf(order[k])])

On(d, what) == <<[do |-> what, dir |-> d]>>

Rewrite(d, f) == <<[do |-> "truncate", dir |-> d, file |-> f],
                   [do |-> "write", dir |-> d, file |-> f]>>

RunDirOps(d) ==
    On(d, "makeDir") \o On(d, "compare") \o On(d, "checkReady")
        \o Rewrite(d, "dataStructure") \o Rewrite(d, "input") \o Rewrite(d, "inputReady")

InstanceOps(configs) ==
    Operations(configs, RunDirOps)
        \o Operations(configs, LAMBDA d : Rewrite(d, "runScript"))

CleanSlateOps ==
    <<[do |-> "cleanSlate"]>> \o Operations(dirs, LAMBDA d : On(d, "remove"))
        \o <<[do |-> "removeRuns"]>>

\* mutant: the mapping of an earlier interpretation is left as it is
InterpretationKeepsMapping(flag) ==
    (IF flag = "clean-slate" THEN CleanSlateOps ELSE <<>>)
        \o <<[do |-> "makeRuns"]>>
        \o Operations(DOMAIN doc, LAMBDA i : InstanceOps(doc[i]))
        \o (IF mapping.state = "absent" \/ flag = "clean-slate"
                THEN <<[do |-> "truncateMapping"], [do |-> "writeMapping", of |-> doc]>> ELSE <<>>)

Interpretation(flag) ==
    (IF flag = "clean-slate" THEN CleanSlateOps ELSE <<>>)
        \o <<[do |-> "makeRuns"]>>
        \o Operations(DOMAIN doc, LAMBDA i : InstanceOps(doc[i]))
        \o (IF flag = "remove-unused"
                THEN Operations(dirs \ UNION {doc[i] : i \in DOMAIN doc}, LAMBDA d : On(d, "remove"))
                ELSE <<>>)
        \o <<[do |-> "truncateMapping"], [do |-> "writeMapping", of |-> doc]>>

\* mutant: the run is marked finished before its results are written
SolverOpsMarkFirst(d) ==
    On(d, "unfinish") \o On(d, "markNo") \o On(d, "unfinish") \o On(d, "markYes")
        \o On(d, "openResult") \o On(d, "solve")

\* run.sh of one directory, when it does not skip (solve_mmfa.py, main).
SolverOps(d) ==
    On(d, "unfinish") \o On(d, "markNo") \o On(d, "openResult") \o On(d, "solve")
        \o On(d, "unfinish") \o On(d, "markYes")

\* Step 3 over every directory; without any, the glob itself fails the test.
RunOps == IF dirs = {} THEN <<[do |-> "noDirectory"]>>
                       ELSE Operations(dirs, LAMBDA d : On(d, "run"))

\* Step 4 parses the document again.
PlotOps == <<[do |-> "readMapping"]>>
               \o Operations(DOMAIN doc, LAMBDA i : <<[do |-> "plot", of |-> i]>>)

-----------------------------------------------------------------------------
(* Control of the steps.                                                   *)

Doing(what) == program # <<>> /\ Head(program).do = what
Here == Head(program).dir
Step == program' = Tail(program) /\ UNCHANGED <<stage, chained, lastError>>

Fail(error) ==
    /\ lastError' = [why |-> error, chained |-> chained]
    /\ stage' = "idle" /\ program' = <<>> /\ chained' = FALSE

\* reproduce.sh, or the interpreter alone with one of its flags.
Start(flag, chain) ==
    /\ stage = "idle"
    /\ chain => flag = "none"
    /\ stage' = "interpret" /\ program' = Interpretation(flag) /\ chained' = chain
    /\ lastError' = NoError /\ edited' = FALSE
    /\ UNCHANGED <<disk, doc, edits, crashes>>

\* step_3_run.sh or step_4_plot.sh by hand.
StartAlone(what, operations) ==
    /\ stage = "idle"
    /\ stage' = what /\ program' = operations
    /\ lastError' = NoError
    /\ UNCHANGED <<disk, author, chained, crashes>>

\* The interpretation is complete; reproduce.sh goes on with step 3.
InterpretDone ==
    /\ stage = "interpret" /\ program = <<>>
    /\ stage' = IF chained THEN "run" ELSE "idle"
    /\ program' = IF chained THEN RunOps ELSE <<>>
    /\ UNCHANGED <<disk, author, chained, lastError, crashes>>

RunDone ==
    /\ stage = "run" /\ program = <<>>
    /\ stage' = IF chained THEN "plot" ELSE "idle"
    /\ program' = IF chained THEN PlotOps ELSE <<>>
    /\ UNCHANGED <<disk, author, chained, lastError, crashes>>

PlotDone ==
    /\ stage = "plot" /\ program = <<>>
    /\ stage' = "idle" /\ chained' = FALSE
    /\ UNCHANGED <<disk, author, program, lastError, crashes>>

-----------------------------------------------------------------------------
(* Interpretation: the file operations.                                    *)

\* interpret.py 41-43: shutil.rmtree raises when there is no runs directory.
CleanSlate ==
    /\ Doing("cleanSlate")
    /\ IF runsDir THEN Step ELSE Fail("cleanSlateWithoutRuns")
    /\ UNCHANGED <<disk, author, crashes>>

RemoveDir ==
    /\ Doing("remove")
    /\ dirs' = dirs \ {Here}
    /\ files' = [files EXCEPT ![Here] = EmptyDir]
    /\ finished' = [finished EXCEPT ![Here] = "absent"]
    /\ result' = [result EXCEPT ![Here] = "none"]
    /\ Step
    /\ UNCHANGED <<runsDir, mapping, plots, author, crashes>>

RemoveRuns ==
    /\ Doing("removeRuns")
    /\ runsDir' = FALSE /\ mapping' = NoMapping
    /\ Step
    /\ UNCHANGED <<dirs, files, finished, result, plots, author, crashes>>

MakeRuns ==
    /\ Doing("makeRuns")
    /\ runsDir' = TRUE
    /\ Step
    /\ UNCHANGED <<dirs, files, finished, result, mapping, plots, author, crashes>>

MakeDir ==
    /\ Doing("makeDir")
    /\ dirs' = dirs \cup {Here}
    /\ Step
    /\ UNCHANGED <<runsDir, files, finished, result, mapping, plots, author, crashes>>

\* An existing data-structure.txt must hold this very data structure.
Compare ==
    /\ Doing("compare")
    /\ IF files[Here]["dataStructure"] = "empty" THEN Fail("hashMatched") ELSE Step
    /\ UNCHANGED <<disk, author, crashes>>

\* input-ready.txt is opened with "w+" to be read, which truncates it: what
\* is read is never "Yes" and the directory is always written again.
CheckReady ==
    /\ Doing("checkReady")
    /\ files' = [files EXCEPT ![Here]["inputReady"] = IF @ = "absent" THEN @ ELSE "empty"]
    /\ Step
    /\ UNCHANGED <<runsDir, dirs, finished, result, mapping, plots, author, crashes>>

Truncate ==
    /\ Doing("truncate")
    /\ files' = [files EXCEPT ![Here][Head(program).file] = "empty"]
    /\ Step
    /\ UNCHANGED <<runsDir, dirs, finished, result, mapping, plots, author, crashes>>

Write ==
    /\ Doing("write")
    /\ files' = [files EXCEPT ![Here][Head(program).file] = "ok"]
    /\ Step
    /\ UNCHANGED <<runsDir, dirs, finished, result, mapping, plots, author, crashes>>

TruncateMapping ==
    /\ Doing("truncateMapping")
    /\ mapping' = [state |-> "empty", of |-> <<>>]
    /\ Step
    /\ UNCHANGED <<runsDir, dirs, files, finished, result, plots, author, crashes>>

WriteMapping ==
    /\ Doing("writeMapping")
    /\ mapping' = [state |-> "ok", of |-> Head(program).of]
    /\ Step
    /\ UNCHANGED <<runsDir, dirs, files, finished, result, plots, author, crashes>>

-----------------------------------------------------------------------------
(* Runs.                                                                   *)

\* mutant: run.sh skips as soon as finished.txt is there, whatever it says
SkippedIfPresent(d) == finished[d] # "absent"

\* mutant: run.sh never skips
SkippedNever(d) == FALSE

Skipped(d) == finished[d] = "Yes"

NoDirectory ==
    /\ Doing("noDirectory")
    /\ Fail("noRunScript")
    /\ UNCHANGED <<disk, author, crashes>>

\* step_3_run.sh on one directory: fail without run.sh; an empty run.sh
\* succeeds and does nothing.
RunDirectory ==
    /\ Doing("run")
    /\ \/ /\ files[Here]["runScript"] = "absent"
          /\ Fail("noRunScript")
       \/ /\ files[Here]["runScript"] = "empty" \/ Skipped(Here)
          /\ Step
       \/ /\ files[Here]["runScript"] = "ok" /\ ~Skipped(Here)
          /\ program' = SolverOps(Here) \o Tail(program)
          /\ UNCHANGED <<stage, chained, lastError>>
    /\ UNCHANGED <<disk, author, crashes>>

MarkFinished(what, mark) ==
    /\ Doing(what)
    /\ finished' = [finished EXCEPT ![Here] = mark]
    /\ Step
    /\ UNCHANGED <<runsDir, dirs, files, result, mapping, plots, author, crashes>>

OpenResult ==
    /\ Doing("openResult")
    /\ result' = [result EXCEPT ![Here] = "partial"]
    /\ Step
    /\ UNCHANGED <<runsDir, dirs, files, finished, mapping, plots, author, crashes>>

\* The framework reads the input; on a truncated one it fails or, when the
\* missing part only means fewer flows, succeeds with the wrong results.
Solve ==
    /\ Doing("solve")
    /\ \/ /\ files[Here]["input"] = "ok"
          /\ result' = [result EXCEPT ![Here] = "right"] /\ Step
       \/ /\ files[Here]["input"] = "empty"
          /\ result' = [result EXCEPT ![Here] = "misled"] /\ Step
       \/ /\ files[Here]["input"] # "ok"
          /\ Fail("runFailed") /\ UNCHANGED result
    /\ UNCHANGED <<runsDir, dirs, files, finished, mapping, plots, author, crashes>>

-----------------------------------------------------------------------------
(* Plots.                                                                  *)

\* A mapping that is missing, or that does not parse, ends the plotter.
ReadMapping ==
    /\ Doing("readMapping")
    /\ IF mapping.state = "ok" THEN Step ELSE Fail("noMapping")
    /\ UNCHANGED <<disk, author, crashes>>

\* An instance that the mapping does not know is only warned about.
PlotInstance ==
    /\ Doing("plot")
    /\ LET i == Head(program).of
       IN  \/ /\ i \notin DOMAIN mapping.of
              /\ Step /\ UNCHANGED plots
           \/ /\ i \in DOMAIN mapping.of
              /\ ~(mapping.of[i] \subseteq dirs)
              /\ Fail("noRunDir") /\ UNCHANGED plots
           \/ /\ i \in DOMAIN mapping.of
              /\ mapping.of[i] \subseteq dirs
              /\ \E d \in mapping.of[i] : finished[d] # "Yes"
              /\ Fail("notFinished") /\ UNCHANGED plots
           \/ /\ i \in DOMAIN mapping.of
              /\ \A d \in mapping.of[i] : d \in dirs /\ finished[d] = "Yes"
              /\ plots' = [plots EXCEPT ![i] =
                    [of |-> mapping.of[i], drawn |-> TRUE,
                     complete |-> \A d \in mapping.of[i] : result[d] \in {"right", "misled"}]]
              /\ Step
    /\ UNCHANGED <<runsDir, dirs, files, finished, result, mapping, author, crashes>>

-----------------------------------------------------------------------------
(* The environment.                                                        *)

\* The author edits the document.
Edit(draft) ==
    /\ edits < MaxEdits
    /\ draft # doc
    /\ doc' = draft /\ edited' = TRUE /\ edits' = edits + 1
    /\ UNCHANGED <<disk, control, crashes>>

\* The process is killed between two operations.
Crash ==
    /\ crashes < MaxCrashes
    /\ stage # "idle"
    /\ stage' = "idle" /\ program' = <<>> /\ chained' = FALSE
    /\ crashes' = crashes + 1
    /\ UNCHANGED <<disk, author, lastError>>

Next ==
    \/ \E flag \in {"none", "clean-slate", "remove-unused"}, chain \in BOOLEAN : Start(flag, chain)
    \/ StartAlone("run", RunOps) \/ StartAlone("plot", PlotOps)
    \/ InterpretDone \/ RunDone \/ PlotDone
    \/ CleanSlate \/ RemoveDir \/ RemoveRuns \/ MakeRuns \/ MakeDir
    \/ Compare \/ CheckReady \/ Truncate \/ Write \/ TruncateMapping \/ WriteMapping
    \/ NoDirectory \/ RunDirectory \/ OpenResult \/ Solve
    \/ MarkFinished("unfinish", "empty") \/ MarkFinished("markNo", "No") \/ MarkFinished("markYes", "Yes")
    \/ ReadMapping \/ PlotInstance
    \/ \E draft \in Drafts : Edit(draft)
    \/ Crash

Spec == Init /\ [][Next]_vars

-----------------------------------------------------------------------------
(* Properties.                                                             *)

\* The run directories the last complete interpretation asks for.
Asked == IF mapping.state = "ok" THEN UNION {mapping.of[i] : i \in DOMAIN mapping.of} ELSE {}

(* A run is marked finished when its results are right, since run.sh skips  *)
(* it from then on and nothing repairs a mark that came too early (run.sh;  *)
(* solve_mmfa.py, main).  Results of a truncated input are marked so only   *)
(* when step 3 is run by hand, or in a directory that reproduce.sh runs     *)
(* although the document does not ask for it.                               *)
FinishedIsRight ==
    [][\A d \in Config : finished'[d] = "Yes" =>
        \/ result'[d] = "right"
        \/ /\ result'[d] = "misled"
           /\ \/ UNCHANGED <<finished[d], result[d]>>
              \/ ~chained
              \/ d \notin Asked]_vars

(* Steps 3 and 4 of reproduce.sh fail for one reason only, whatever was     *)
(* killed or edited before: a killed interpretation left a directory half   *)
(* written that the document no longer asks for.  Every directory asked for *)
(* is there, has its run.sh, and is finished when it is plotted.            *)
OnlyLeftoversFailSteps ==
    lastError.chained =>
        \/ lastError.why \in {"none", "cleanSlateWithoutRuns", "hashMatched"}
        \/ /\ lastError.why \in {"noRunScript", "runFailed"}
           /\ \E d \in dirs \ Asked :
                files[d]["runScript"] = "absent" \/ files[d]["input"] # "ok"

(* When reproduce.sh gets to its end and the document is still the one it   *)
(* interpreted, every instance's plots are drawn from exactly the run       *)
(* directories the document asks for; and no plot is ever drawn from output *)
(* files that a run had not finished writing.                               *)
PlotsReflectDocument ==
    /\ \A i \in Instance : plots[i].complete
    /\ stage = "plot" /\ program = <<>> /\ chained /\ ~edited =>
            \A i \in DOMAIN doc : plots[i].drawn /\ plots[i].of = doc[i]

(* A finished run (up to hours of simulation) stays finished until its      *)
(* directory is removed: interpreting, crashing and reproducing again never *)
(* makes it run a second time (the skip at the top of every run.sh).        *)
FinishedKept ==
    [][\A d \in Config : finished[d] = "Yes" /\ d \in dirs' => finished'[d] = "Yes"]_vars

(* "Only if not yet ready, write the data files again"                      *)
(* (rootclass_mmfa.py 309): a run directory whose input is ready keeps its  *)
(* input and stays ready.                                                   *)
ReadyInputsKept ==
    [][\A d \in dirs \cap dirs' : files[d]["inputReady"] = "ok" =>
            files'[d]["input"] = files[d]["input"] /\ files'[d]["inputReady"] = "ok"]_vars

(* The data-structure comparison is there for "a weird duplicate SHA-256    *)
(* hash" (rootclass_mmfa.py 290-292): without one, as here where every      *)
(* configuration has a directory of its own, it never raises.               *)
HashErrorMeansCollision == lastError.why # "hashMatched"
=============================================================================
