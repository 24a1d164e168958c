-------------------------------- MODULE FixCli --------------------------------
(***************************************************************************)
(* One invocation of the dsql-lint command (src/dsql-lint/src/main.rs): it *)
(* checks its arguments, lints or fixes its inputs one after the other,    *)
(* writes each fix beside its input or to --output through a temporary     *)
(* file, and reports a summary and an exit code.  Files may be symbolic    *)
(* links; any call may fail, the process may be killed and the machine may *)
(* lose power at any step.                                                 *)
(*                                                                         *)
(* A name is a stem with a number of "-fixed" suffixes, all in one         *)
(* directory.  A file is the name it was written under by the user, and    *)
(* whether it is a fix of that text.  The diagnostics of an input are the  *)
(* set of their statuses, whatever the rules find.                         *)
(***************************************************************************)
EXTENDS Naturals, FiniteSets, FiniteSetsExt, Sequences, SequencesExt

CONSTANTS Stems,       \* the files a user works on
          MaxSuffix,   \* bound: "-fixed" suffixes of an input or an --output
          MaxInputs    \* bound: inputs of the command

ASSUME FixCliAssumption == MaxSuffix \in Nat /\ MaxInputs \in Nat

Names == [stem : Stems, fixed : 0..MaxSuffix + 1]
Arguments == [stem : Stems, fixed : 0..MaxSuffix]
Stdin == [stdin |-> TRUE]
NoOutput == [output |-> FALSE]

Text(n, f) == [kind |-> "file", of |-> n, fixed |-> f]
Link(n) == [kind |-> "link", to |-> n]
Missing == [kind |-> "missing"]
Torn == [kind |-> "torn"]
Texts == {Text(n, f) : n \in Names \cup {Stdin}, f \in BOOLEAN}
Entries == Texts \cup {Link(n) : n \in Names} \cup {Missing, Torn}
Statuses == {"fixed", "fixed_with_warning", "unfixable"}

VARIABLES args,       \* the command line, and whether stdin is a terminal
          was,        \* the directory before the command
          dir,        \* the directory
          survives,   \* what a power loss may leave under each name
          pc,         \* where the process is
          fix,        \* the fix at hand: the text to write and its diagnostics
          tmp,        \* the temporary file: "none", "written" or "synced"
          outcomes,   \* the outcome of each input so far
          stdout,     \* what came out of the write to stdout
          code        \* the exit code

vars == <<args, was, dir, survives, pc, fix, tmp, outcomes, stdout, code>>
disk == <<dir, survives>>

NoFix == [text |-> Missing, diags |-> {}]
Fixes == [text : Texts, diags : SUBSET Statuses] \cup {NoFix}
Dests == [file : Names] \cup {[stdout |-> TRUE], [inline |-> TRUE], [none |-> TRUE]}
Outcomes == [kind : {"read_error", "io_error", "linted", "processed"},
             diags : SUBSET Statuses, dest : Dests]
Outcome(k, ds, d) == [kind |-> k, diags |-> ds, dest |-> d]

src == args.files[Len(outcomes) + 1]
AllDone == Len(outcomes) = Len(args.files)

------------------------------------------------------------------------------
(* Names, and where a fix goes.                                            *)

default_output_path(n) == [n EXCEPT !.fixed = @ + 1]

compute_fix_dest(s) ==
  IF args.output # NoOutput THEN [file |-> args.output]
  ELSE IF s # Stdin THEN [file |-> default_output_path(s)]
  ELSE IF args.format = "json" THEN [inline |-> TRUE] ELSE [stdout |-> TRUE]

\* The name a path resolves to.
Canonical(d, n) == IF d[n].kind = "link" THEN d[n].to ELSE n
Content(d, s) == IF s = Stdin THEN Text(Stdin, FALSE) ELSE d[Canonical(d, s)]
Readable(d, s) == Content(d, s).kind = "file"

\* Bug: paths are compared as they are written.
same_output_as_input_ByteExact(input, output) == output = input

\* The input is resolved, the last component of the output is not.
same_output_as_input(input, output) == output = Canonical(dir, input)

------------------------------------------------------------------------------
(* The summary and the exit code.                                          *)

Failed(o) == o.kind \in {"read_error", "io_error"}

\* Diagnostics and failures counted by status.
CountStatus(os, s) == Quantify(DOMAIN os, LAMBDA k : s \in os[k].diags)
FailureErrors(os) == Quantify(DOMAIN os, LAMBDA k : Failed(os[k]))

\* Bug: a file that could not be read or written is not counted.
Summary_DiagnosticsOnly(os) == [errors   |-> CountStatus(os, "unfixable"),
                                warnings |-> CountStatus(os, "fixed_with_warning")]

Summary(os) == [errors   |-> CountStatus(os, "unfixable") + FailureErrors(os),
                warnings |-> CountStatus(os, "fixed_with_warning")]

LintExitCode(os) ==
  IF \E k \in DOMAIN os : Failed(os[k]) \/ os[k].diags # {} THEN "errors" ELSE "ok"

\* Bug: had_io_error is not set: only what was not fixed is an error.
FixExitCode_IgnoresFailures(os) ==
  IF \E k \in DOMAIN os : "unfixable" \in os[k].diags THEN "errors"
  ELSE IF Summary(os).warnings > 0 THEN "warnings" ELSE "ok"

FixExitCode(os) ==
  IF \E k \in DOMAIN os : Failed(os[k]) \/ "unfixable" \in os[k].diags THEN "errors"
  ELSE IF Summary(os).warnings > 0 THEN "warnings" ELSE "ok"

exit_code == IF args.fix THEN FixExitCode(outcomes) ELSE LintExitCode(outcomes)

------------------------------------------------------------------------------
(* The arguments.                                                          *)

StdinCount == Quantify(DOMAIN args.files, LAMBDA k : args.files[k] = Stdin)

UsageError ==
  \/ args.files = <<>>
  \/ StdinCount > 1
  \/ args.output # NoOutput /\ ~args.fix
  \/ args.output # NoOutput /\ Len(args.files) > 1
  \/ args.mysql /\ ~args.fix
  \/ StdinCount > 0 /\ args.terminal

Init ==
  /\ args \in [fix : BOOLEAN, files : SeqOf(Arguments \cup {Stdin}, MaxInputs),
               output : Arguments \cup {NoOutput}, format : {"text", "json"},
               mysql : BOOLEAN, terminal : BOOLEAN]
  /\ was \in {d \in [Names -> {Text(n, FALSE) : n \in Names} \cup {Missing}
                                \cup {Link(n) : n \in Arguments}] :
                \A n \in Names : /\ d[n].kind = "file" => d[n].of = n
                                 /\ d[n].kind = "link" => n \in Arguments /\ d[d[n].to].kind # "link"}
  /\ dir = was
  /\ survives = [n \in Names |-> {was[n]}]
  /\ pc = "start"
  /\ fix = NoFix
  /\ tmp = "none"
  /\ outcomes = <<>>
  /\ stdout = "none"
  /\ code = "none"

RejectUsage ==
  /\ pc = "start" /\ UsageError
  /\ pc' = "done"
  /\ code' = "usage"
  /\ UNCHANGED <<args, was, disk, fix, tmp, outcomes, stdout>>

Start ==
  /\ pc = "start" /\ ~UsageError
  /\ pc' = "next"
  /\ UNCHANGED <<args, was, disk, fix, tmp, outcomes, stdout, code>>

------------------------------------------------------------------------------
(* One input: read, lint or fix, write.                                    *)

Finish(o) ==
  /\ outcomes' = Append(outcomes, o)
  /\ pc' = IF Len(outcomes') = Len(args.files) THEN "render" ELSE "next"

\* Missing, unreadable or not UTF-8.
ReadFails ==
  /\ pc = "next"
  /\ Finish(Outcome("read_error", {}, [none |-> TRUE]))
  /\ UNCHANGED <<args, was, disk, fix, tmp, stdout, code>>

LintOne ==
  /\ pc = "next" /\ ~args.fix
  /\ Readable(dir, src)
  /\ \E ds \in SUBSET Statuses : Finish(Outcome("linted", ds, [none |-> TRUE]))
  /\ UNCHANGED <<args, was, disk, fix, tmp, stdout, code>>

\* The fix is streamed or embedded when the output is rendered.
FixToStdout ==
  /\ pc = "next" /\ args.fix
  /\ Readable(dir, src)
  /\ compute_fix_dest(src) \notin [file : Names]
  /\ \E ds \in SUBSET Statuses : Finish(Outcome("processed", ds, compute_fix_dest(src)))
  /\ UNCHANGED <<args, was, disk, fix, tmp, stdout, code>>

FixRefused ==
  /\ pc = "next" /\ args.fix
  /\ Readable(dir, src)
  /\ compute_fix_dest(src) \in [file : Names]
  /\ src # Stdin /\ same_output_as_input(src, compute_fix_dest(src).file)
  /\ Finish(Outcome("io_error", {}, [none |-> TRUE]))
  /\ UNCHANGED <<args, was, disk, fix, tmp, stdout, code>>

FixToFile ==
  /\ pc = "next" /\ args.fix
  /\ Readable(dir, src)
  /\ compute_fix_dest(src) \in [file : Names]
  /\ src # Stdin => ~same_output_as_input(src, compute_fix_dest(src).file)
  /\ \E ds \in SUBSET Statuses :
       fix' = [text |-> Text(Content(dir, src).of, TRUE), diags |-> ds]
  /\ pc' = "write"
  /\ UNCHANGED <<args, was, disk, tmp, outcomes, stdout, code>>

\* atomic_write: a temporary file in the directory, its data on disk, a rename.
WriteTemp ==
  /\ pc = "write"
  /\ tmp' = "written"
  /\ pc' = "sync"
  /\ UNCHANGED <<args, was, disk, fix, outcomes, stdout, code>>

\* Bug: the data is not synced before the rename.
SyncTemp_Skipped ==
  /\ pc = "sync"
  /\ pc' = "persist"
  /\ UNCHANGED <<args, was, disk, fix, tmp, outcomes, stdout, code>>

SyncTemp ==
  /\ pc = "sync"
  /\ tmp' = "synced"
  /\ pc' = "persist"
  /\ UNCHANGED <<args, was, disk, fix, outcomes, stdout, code>>

\* Until the directory is on disk too, a power loss may undo the rename, or
\* keep it without the data that was not synced.
PersistTemp ==
  /\ pc = "persist"
  /\ LET o == compute_fix_dest(src).file IN
       /\ dir' = [dir EXCEPT ![o] = fix.text]
       /\ survives' = [survives EXCEPT ![o] = @ \cup {fix.text}
                                     \cup {e \in {Torn} : tmp # "synced"}]
  /\ Finish(Outcome("processed", fix.diags, compute_fix_dest(src)))
  /\ tmp' = "none"
  /\ fix' = NoFix
  /\ UNCHANGED <<args, was, stdout, code>>

\* Bug: a temporary file that was kept when it could not be renamed.
WriteFails_KeepsTemp ==
  /\ pc \in {"write", "sync", "persist"}
  /\ Finish(Outcome("io_error", {}, [none |-> TRUE]))
  /\ fix' = NoFix
  /\ UNCHANGED <<args, was, disk, tmp, stdout, code>>

\* Creating, writing, syncing or renaming fails; the temporary file is dropped.
WriteFails ==
  /\ pc \in {"write", "sync", "persist"}
  /\ Finish(Outcome("io_error", {}, [none |-> TRUE]))
  /\ tmp' = "none"
  /\ fix' = NoFix
  /\ UNCHANGED <<args, was, disk, stdout, code>>

------------------------------------------------------------------------------
(* The report.                                                             *)

WritesStdout ==
  args.format = "json" \/ \E k \in DOMAIN outcomes : outcomes[k].dest = [stdout |-> TRUE]

WritesStderr ==
  /\ args.format = "text"
  /\ ~args.fix \/ \E k \in DOMAIN outcomes :
       outcomes[k] # Outcome("processed", {}, [stdout |-> TRUE])

Render ==
  /\ pc = "render"
  /\ stdout' = IF WritesStdout THEN "all" ELSE "none"
  /\ code' = exit_code
  /\ pc' = "done"
  /\ UNCHANGED <<args, was, disk, fix, tmp, outcomes>>

\* The consumer of stdout is gone.
RenderToBrokenPipe ==
  /\ pc = "render" /\ WritesStdout
  /\ stdout' = "broken_pipe"
  /\ code' = "ok"
  /\ pc' = "done"
  /\ UNCHANGED <<args, was, disk, fix, tmp, outcomes>>

RenderFails ==
  /\ pc = "render" /\ WritesStdout
  /\ stdout' = "failed"
  /\ code' = "errors"
  /\ pc' = "done"
  /\ UNCHANGED <<args, was, disk, fix, tmp, outcomes>>

\* eprintln! panics when stderr is gone; stdout may have been written before.
StderrPanics ==
  /\ \/ /\ pc = "start" /\ UsageError
        /\ UNCHANGED stdout
     \/ /\ pc = "render" /\ WritesStderr
        /\ stdout' \in {"none"} \cup {s \in {"all"} : WritesStdout}
     \/ /\ pc = "render" /\ WritesStdout
        /\ stdout' = "failed"
  /\ code' = "panic"
  /\ pc' = "done"
  /\ UNCHANGED <<args, was, disk, fix, tmp, outcomes>>

------------------------------------------------------------------------------
(* The environment.                                                        *)

\* The process is killed: a temporary file stays.
Kill ==
  /\ pc \notin {"done", "killed"}
  /\ pc' = "killed"
  /\ UNCHANGED <<args, was, disk, fix, tmp, outcomes, stdout, code>>

PowerLoss ==
  /\ \E d \in [Names -> UNION Range(survives)] :
       /\ \A n \in Names : d[n] \in survives[n]
       /\ dir' = d
       /\ survives' = [n \in Names |-> {d[n]}]
  /\ pc' = "killed"
  /\ UNCHANGED <<args, was, fix, tmp, outcomes, stdout, code>>

Next ==
  \/ RejectUsage \/ Start
  \/ ReadFails \/ LintOne \/ FixToStdout \/ FixRefused \/ FixToFile
  \/ WriteTemp \/ SyncTemp \/ PersistTemp \/ WriteFails
  \/ Render \/ RenderToBrokenPipe \/ RenderFails \/ StderrPanics
  \/ Kill \/ PowerLoss

Spec == Init /\ [][Next]_vars

------------------------------------------------------------------------------
(* What is checked.                                                        *)

\* Every variable keeps its type: a temporary file exists only while a fix is
\* written, and a stopped run that was not killed has an outcome for each input.
TypeOK ==
  /\ dir \in [Names -> Entries] /\ was \in [Names -> Entries]
  /\ survives \in [Names -> SUBSET Entries]
  /\ pc \in {"start", "next", "write", "sync", "persist", "render", "done", "killed"}
  /\ fix \in Fixes
  /\ tmp \in {"none", "written", "synced"}
  /\ tmp # "none" => pc \in {"sync", "persist", "killed"}
  /\ outcomes \in Seq(Outcomes) /\ Len(outcomes) <= Len(args.files)
  /\ pc \in {"render", "done"} => AllDone \/ UsageError
  /\ stdout \in {"none", "all", "broken_pipe", "failed"}
  /\ code \in {"none", "ok", "warnings", "errors", "usage", "panic"}

\* The name that holds the text of an input when the command starts.
Source(k) == Canonical(was, args.files[k])
SourceIsKept(k) ==
  args.files[k] # Stdin /\ Readable(was, args.files[k]) => dir[Source(k)] = was[Source(k)]

\* No file is ever torn, whenever the process is killed or the power is lost
\* (atomic_write's sync before the rename).
FilesAreWhole == \A n \in Names : dir[n] # Torn

\* A command with one input never changes the file it reads, whatever path and
\* links lead to it and to the output (same_output_as_input).
SingleSourceKept == Len(args.files) = 1 => SourceIsKept(1)

\* An exit code of 0 or 3 in fix mode means that nothing was left unfixable and
\* that the fix of every input is where it was asked for, unless whoever reads
\* stdout has gone away (run_fix, atomic_write, RenderOutcome).
SuccessIsWritten ==
  pc = "done" /\ args.fix /\ code \in {"ok", "warnings"} /\ stdout # "broken_pipe" =>
    \A k \in DOMAIN args.files :
      /\ outcomes[k].kind = "processed" /\ "unfixable" \notin outcomes[k].diags
      /\ LET to == IF args.output # NoOutput THEN args.output
                   ELSE default_output_path(args.files[k]) IN
         IF args.output = NoOutput /\ args.files[k] = Stdin THEN stdout = "all"
         ELSE dir[to].kind = "file" /\ dir[to].fixed

\* A consumer of the JSON document can tell from the summary alone whether a fix
\* failed: no errors if and only if the exit code is 0 or 3 (run_fix's comment on
\* summary.errors).
SummaryTellsFailure ==
  pc = "done" /\ args.fix /\ args.format = "json" /\ stdout = "all" =>
    (Summary(outcomes).errors = 0) = (code \in {"ok", "warnings"})

\* No command changes a file that it was given as an input (the comment of
\* same_output_as_input: rather refuse than overwrite the user's source file).
SourcesKept == \A k \in DOMAIN args.files : SourceIsKept(k)
==============================================================================
