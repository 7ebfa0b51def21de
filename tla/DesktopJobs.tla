------------------------------- MODULE DesktopJobs -------------------------------
(* cozip_desktop: what it is started for becomes a plan, the window starts it at once *)
(* or after its settings, a thread carries it out, and a timer copies what the thread   *)
(* shares into the window.  Names are chosen so that nothing that is there is written    *)
(* to: the name of an archive when the plan is made, that of an extracted folder when    *)
(* its turn comes.  Others create entries meanwhile.                                     *)
(*                                                                                      *)
(* An entry is [dir, base, n], where n is the number that unique_path appends.  The      *)
(* coding is external here; progress is counted in Parts of an archive and shown in      *)
(* steps of one FullBar.  Options that only the coding looks at are left out.              *)
EXTENDS Integers, Sequences, FiniteSets, SequencesExt

CONSTANTS
    CommandLines, \* command lines: [kind, auto, inputs] and, to compress, the format
    DesktopEntries,      \* the entries there may be
    Before,       \* sets of entries that may be there at first
    Offered,      \* the entries the user may choose as the output
    LastSuffix,   \* the last number unique_path tries
    Parts,        \* the steps of a progress
    FullBar,      \* what the window shows at the end
    MaxOthers,    \* how many entries others create
    JobFaults     \* of {"create", "stage", "code", "panic"}

VARIABLES
    desk,     \* [request, before, asked, others]: what the user did
    names,    \* names[e]: whose entry it is, a task's number or one of the following
    window,   \* CozipDesktopApp: [plan, screen, consumed, started, snapshot, displayed]
    shared,   \* JobSnapshot: [status, total, completed, progress]; progress: which task's
    worker,   \* the thread of spawn_job: [stage, at, output, staging]
    coded     \* coded[i]: [done, whole] of the progress and the output of task i

desktopVars == <<desk, names, window, shared, worker, coded>>

None == 0
Old == -1
Foreign == -2
IdleJob == [status |-> "idle", total |-> 0, completed |-> 0, progress |-> 0]
NoThread == [stage |-> "none", at |-> 1, output |-> <<>>, staging |-> FALSE]

--------------------------------------------------------------------------------
(* Plans.                                                                       *)

Exists(e) == names[e] # None
At(dir, base, n) == [dir |-> dir, base |-> base, n |-> n]

unique_path(dir, base) ==
    LET free == {n \in 1 .. LastSuffix : ~Exists(At(dir, base, n))}
    IN  At(dir, base, IF free = {} THEN 1 ELSE CHOOSE n \in free : \A m \in free : n <= m)

\* An input is [id, stem, what, single, inside]: "missing", "archive", "named" like one,
\* "other", or "dir" with the files inside.  What is not an archive is ignored, as is what
\* was seen before.
Archives(inputs) ==
    LET files == FlattenSeq([i \in 1 .. Len(inputs) |->
                    IF inputs[i].what = "dir" THEN inputs[i].inside ELSE <<inputs[i]>>])
    IN  SelectSeq(files, LAMBDA f : f.what \in {"archive", "named"})
FirstsOf(files) ==
    FoldLeft(LAMBDA kept, f : IF \E i \in 1 .. Len(kept) : kept[i].id = f.id THEN kept
                              ELSE Append(kept, f), <<>>, files)
build_extract_plan(inputs) ==
    LET tasks == FirstsOf(Archives(inputs))
    IN  [kind |-> IF tasks = <<>> THEN "none" ELSE "extract", tasks |-> tasks, dir |-> "here"]

default_output_path(inputs, format) ==
    unique_path("here", <<IF Len(inputs) = 1 THEN inputs[1].stem ELSE "Archive", format>>)
build_compress_plan(inputs, format) ==
    IF inputs = <<>> \/ \E i \in 1 .. Len(inputs) : inputs[i].what = "missing"
    THEN [kind |-> "none"]
    ELSE [kind |-> "compress", format |-> format, sources |-> inputs,
          output |-> default_output_path(inputs, format)]

parse_args(request) ==
    IF request.kind = "compress" THEN build_compress_plan(request.inputs, request.format)
    ELSE build_extract_plan(request.inputs)

DesktopInit ==
    /\ desk \in [request : CommandLines, before : Before, asked : {{}}, others : {0}]
    /\ names = [e \in DesktopEntries |-> IF e \in desk.before THEN Old ELSE None]
    /\ LET plan == parse_args(desk.request) IN
       window = [plan |-> plan, started |-> FALSE, consumed |-> FALSE,
                 screen |-> IF desk.request.auto \/ plan.kind = "none" THEN "job" ELSE "settings",
                 snapshot |-> IdleJob, displayed |-> 0]
    /\ shared = IdleJob /\ worker = NoThread
    /\ coded = [i \in 1 .. 0 |-> [done |-> 0, whole |-> FALSE]]

Plan == window.plan
TaskCount == IF Plan.kind = "extract" THEN Len(Plan.tasks) ELSE 1
\* Slip for TLC: the folder is taken to be new.
output_path_as_named(task) == At(Plan.dir, <<task.stem>>, 1)
output_path_for(task) == unique_path(Plan.dir, <<task.stem>>)

--------------------------------------------------------------------------------
(* The window.                                                                  *)

\* A finished task still counts with its own progress until the next one has one.
target_progress_fraction(snapshot, marks) ==
    IF snapshot.total = 0 THEN 0
    ELSE LET part == IF snapshot.progress = 0 THEN 0 ELSE marks[snapshot.progress].done
             all  == ((snapshot.completed * Parts + part) * FullBar) \div (snapshot.total * Parts)
         IN  IF snapshot.total = 1 /\ snapshot.status = "succeeded" THEN FullBar
             ELSE IF snapshot.total = 1 THEN (part * FullBar) \div Parts
             ELSE IF all > FullBar THEN FullBar ELSE all

step_displayed_progress(displayed, snapshot, marks) ==
    LET target == target_progress_fraction(snapshot, marks)
        next == displayed + ((target - displayed) * 22) \div 100 + 1
        kept == IF next < target THEN next ELSE target
    IN  IF snapshot.status = "succeeded" THEN FullBar
        ELSE IF snapshot.status = "failed" \/ target <= displayed THEN target
        ELSE IF kept < FullBar THEN kept ELSE FullBar - 1

\* start_command with the state of the window that starts it, and spawn_job.
start_command(w) ==
    IF w.plan.kind = "none" \/ w.snapshot.status = "running"
    THEN window' = w /\ UNCHANGED <<shared, worker, coded>>
    ELSE LET first == [IdleJob EXCEPT !.status = "running", !.total = TaskCount] IN
         /\ coded' = [i \in 1 .. TaskCount |-> [done |-> 0, whole |-> FALSE]]
         /\ shared' = first /\ worker' = [NoThread EXCEPT !.stage = "task"]
         /\ window' = [w EXCEPT !.started = TRUE, !.snapshot = first,
                                !.displayed = step_displayed_progress(0, first, coded')]

maybe_start_from_launch ==
    /\ desk.request.auto /\ ~window.consumed
    /\ start_command([window EXCEPT !.consumed = TRUE])
    /\ UNCHANGED <<desk, names>>

refresh_job_snapshot ==
    LET seen == IF window.started THEN shared ELSE window.snapshot
        shown == step_displayed_progress(window.displayed, seen, coded)
    IN  /\ window' = [window EXCEPT !.snapshot = seen, !.displayed = shown]
        /\ UNCHANGED <<desk, names, shared, worker, coded>>

\* The user is asked before something that is there becomes the output.
confirm_overwrite(e) == desk' = IF Exists(e) THEN [desk EXCEPT !.asked = @ \cup {e}] ELSE desk

Settings ==
    /\ window.screen = "settings"
    /\ \/ \E e \in {x \in Offered : Plan.kind = "compress"} :
             confirm_overwrite(e) /\ window' = [window EXCEPT !.plan.output = e]
       \/ /\ Plan.kind = "compress" /\ UNCHANGED desk
          /\ LET format == IF Plan.format = "zip" THEN "cozip" ELSE "zip" IN
             window' = [window EXCEPT !.plan.format = format,
                           !.plan.output = default_output_path(Plan.sources, format)]
       \/ /\ Plan.kind = "extract" /\ UNCHANGED desk
          /\ window' = [window EXCEPT !.plan.dir = "there"]
    /\ UNCHANGED <<names, shared, worker, coded>>

\* settings_action_row: the same question once more, or about the outputs of the tasks: a
\* folder, or a file in it, which may not be there.
Conflicts(single) ==
    {e \in {output_path_for(Plan.tasks[i]) :
              i \in {j \in 1 .. TaskCount : Plan.tasks[j].single = single}} : Exists(e)}
Start ==
    /\ window.screen = "settings" /\ Plan.kind # "none"
    /\ IF Plan.kind = "compress" THEN confirm_overwrite(Plan.output)
       ELSE \E files \in SUBSET Conflicts(TRUE) :
               desk' = [desk EXCEPT !.asked = @ \cup Conflicts(FALSE) \cup files]
    /\ start_command([window EXCEPT !.screen = "job"])
    /\ UNCHANGED names

\* Someone makes an entry by a name that unique_path could choose next.
Others ==
    /\ desk.others < MaxOthers /\ worker.stage \in {"task", "create", "open"}
    /\ \E e \in DesktopEntries : /\ ~Exists(e) /\ e = unique_path(e.dir, e.base)
                         /\ names' = [names EXCEPT ![e] = Foreign]
    /\ desk' = [desk EXCEPT !.others = @ + 1]
    /\ UNCHANGED <<window, shared, worker, coded>>

--------------------------------------------------------------------------------
(* The thread.                                                                  *)

Fault(kind) == kind \in JobFaults
Stage(stage) == worker' = [worker EXCEPT !.stage = stage]
JobFails == Stage("failed") /\ UNCHANGED <<names, shared, coded>>

Makes == names' = [names EXCEPT ![worker.output] = worker.at]

\* The name of the folder is chosen, then the window is told, then the folder is made.
set_current_task ==
    /\ worker.stage = "task"
    /\ shared' = [shared EXCEPT !.progress = worker.at]
    /\ worker' = [worker EXCEPT !.stage = "create",
                     !.output = IF Plan.kind = "compress" THEN Plan.output
                                ELSE output_path_for(Plan.tasks[worker.at])]
    /\ UNCHANGED <<names, coded>>

\* create_dir_all, which makes the folder of a single file, and CoZip::init; what was
\* selected together is copied next to each other.
PrepareJob ==
    /\ worker.stage = "create"
    /\ \/ /\ UNCHANGED <<shared, coded>>
          /\ IF Plan.kind = "extract" /\ Plan.tasks[worker.at].single THEN Makes ELSE UNCHANGED names
          /\ Stage(IF Plan.kind = "compress" /\ Len(Plan.sources) > 1 THEN "stage" ELSE "open")
       \/ Fault("create") /\ JobFails

build_staging_directory ==
    /\ worker.stage = "stage" /\ UNCHANGED <<names, shared, coded>>
    /\ \/ worker' = [worker EXCEPT !.stage = "open", !.staging = TRUE]
       \/ Fault("stage") /\ worker' = [worker EXCEPT !.stage = "failed", !.staging = TRUE]

\* The coding makes its output and goes through its input, or fails and leaves its output.
Code ==
    \/ worker.stage = "open" /\ Stage("code") /\ Makes /\ UNCHANGED <<shared, coded>>
    \/ /\ worker.stage = "code" /\ UNCHANGED <<names, shared>>
       /\ \/ /\ coded[worker.at].done < Parts /\ UNCHANGED worker
             /\ coded' = [coded EXCEPT ![worker.at].done = @ + 1]
          \/ /\ coded[worker.at].done = Parts /\ Stage("ended")
             /\ coded' = [coded EXCEPT ![worker.at].whole = TRUE]
          \/ Fault("panic") /\ Stage("panicked") /\ UNCHANGED coded
    \/ /\ worker.stage \in {"open", "code"} /\ Fault("code") /\ UNCHANGED <<names, shared, coded>>
       /\ worker' = [worker EXCEPT !.stage = "failed", !.staging = FALSE]

\* The directory with the copies is deleted, and the task counts.
TaskEnds ==
    /\ worker.stage = "ended"
    /\ shared' = [shared EXCEPT !.completed = worker.at]
    /\ worker' = [worker EXCEPT !.at = @ + 1, !.staging = FALSE,
                     !.stage = IF worker.at < TaskCount THEN "task" ELSE "succeeded"]
    /\ UNCHANGED <<names, coded>>

spawn_job ==
    /\ worker.stage \in {"succeeded", "failed"} /\ shared.status = "running"
    /\ shared' = [shared EXCEPT !.status = worker.stage]
    /\ UNCHANGED <<names, worker, coded>>

JobStep ==
    /\ set_current_task \/ PrepareJob \/ build_staging_directory \/ Code \/ TaskEnds \/ spawn_job
    /\ UNCHANGED <<desk, window>>

DesktopNext ==
    \/ maybe_start_from_launch \/ refresh_job_snapshot \/ Settings \/ Start \/ Others \/ JobStep

--------------------------------------------------------------------------------

\* What was there before the window opened is written to only if the user was asked, or
\* unique_path ran out of numbers, which it does not tell (launch.rs:639).
AllTaken(e) == \A n \in 1 .. LastSuffix : Exists(At(e.dir, e.base, n))
OldEntriesKept ==
    \A e \in desk.before : names[e] = Old \/ e \in desk.asked \/ AllTaken(e)

\* Archives with the same name, in one selection, are extracted to folders of their own:
\* every task that is through still has what it wrote, if numbers are left.
FoldersOfTheirOwn ==
    \A i \in DOMAIN coded : coded[i].whole =>
        \/ \E e \in DesktopEntries : names[e] = i
        \/ Plan.kind = "extract" /\ AllTaken(At(Plan.dir, <<Plan.tasks[i].stem>>, 1))

\* What the window says of a job: it succeeded only if every output is whole, it is not
\* at the end before, and never more than one task ahead; and what was copied to be
\* compressed is gone when the job ends, unless the copying failed (jobs.rs:131).
WindowIsRight ==
    LET seen == window.snapshot IN
    /\ seen.status = "succeeded" => /\ seen.completed = TaskCount
                                    /\ \A i \in DOMAIN coded : coded[i].whole
    /\ seen.status = "running" => window.displayed < FullBar
    /\ window.displayed * TaskCount <= (shared.completed + 1) * FullBar
    /\ worker.stage \in {"succeeded", "failed"} /\ worker.staging =>
          coded[1].done = 0 /\ Fault("stage")
================================================================================
