---------------------------- MODULE FixCliProofs ----------------------------
(***************************************************************************)
(* Proofs about FixCli, for every set of files and any number of inputs.   *)
(***************************************************************************)
EXTENDS FixCli, FiniteSetTheorems, TLAPS

------------------------------------------------------------------------------
(* The inductive invariant.                                                *)

Commands == [fix : BOOLEAN, files : SeqOf(Arguments \cup {Stdin}, MaxInputs),
             output : Arguments \cup {NoOutput}, format : {"text", "json"},
             mysql : BOOLEAN, terminal : BOOLEAN]

Processing == pc \in {"next", "write", "sync", "persist"}
Writing == pc \in {"write", "sync", "persist"}
InFile(d) == d \in [file : Names]

\* An input is processed while there is one left.
RunInv ==
  /\ args \in Commands
  /\ pc = "start" => outcomes = <<>> /\ code = "none"
  /\ Processing => Len(outcomes) < Len(args.files)
  /\ pc = "render" => AllDone
  /\ pc \notin {"done", "killed"} => stdout = "none"

\* What is renamed into place is a fix whose data is on disk.
WriteInv ==
  /\ Writing => args.fix /\ InFile(compute_fix_dest(src))
  /\ Writing => fix.text.kind = "file" /\ fix.text.fixed
  /\ pc = "persist" => tmp = "synced"

\* No file is torn, nor does a power loss leave one that is.
WholeInv == \A n \in Names : dir[n] # Torn /\ Torn \notin survives[n]

\* Until the first outcome the disk is as it was; while the first fix is written,
\* it goes to another file than the one it was read from; and a single source is
\* kept, even by a power loss.
KeepInv ==
  /\ (pc = "start" \/ Processing) /\ outcomes = <<>> => dir = was
  /\ Writing /\ outcomes = <<>> /\ args.files[1] # Stdin =>
       compute_fix_dest(args.files[1]).file # Source(1)
  /\ Len(args.files) = 1 /\ args.files[1] # Stdin /\ Readable(was, args.files[1]) =>
       dir[Source(1)] = was[Source(1)] /\ survives[Source(1)] = {was[Source(1)]}

\* Each outcome says what became of its input.
OutcomeInv ==
  \A k \in DOMAIN outcomes :
    /\ outcomes[k].kind = "linted" => ~args.fix
    /\ outcomes[k].kind = "processed" =>
         /\ args.fix
         /\ outcomes[k].dest = compute_fix_dest(args.files[k])
         /\ pc # "killed" /\ InFile(outcomes[k].dest) =>
              LET e == dir[outcomes[k].dest.file] IN e.kind = "file" /\ e.fixed

\* The exit code of a run that rendered its report is that of its outcomes.
CodeInv ==
  pc = "done" =>
    /\ code \in {"ok", "warnings"} /\ stdout # "broken_pipe" =>
         /\ AllDone
         /\ code = exit_code
         /\ stdout = IF WritesStdout THEN "all" ELSE "none"
    /\ stdout = "all" /\ args.format = "json" => code = exit_code

IInv == /\ TypeOK /\ RunInv /\ WriteInv /\ WholeInv /\ KeepInv /\ OutcomeInv /\ CodeInv

------------------------------------------------------------------------------
(* Types.                                                                  *)

Inputs == Arguments \cup {Stdin}

LEMMA CommandTypes ==
  ASSUME args \in Commands
  PROVE  /\ args.files \in Seq(Inputs) /\ Len(args.files) \in Nat
         /\ DOMAIN args.files = 1..Len(args.files)
         /\ args.output \in Arguments \cup {NoOutput}
         /\ args.format \in {"text", "json"}
         /\ args.fix \in BOOLEAN
<1>1. PICK m \in 0..MaxInputs : args.files \in [1..m -> Inputs]
  BY DEF Commands, SeqOf, Inputs
<1>2. m \in Nat
  BY <1>1, FixCliAssumption
<1> QED  BY <1>1, <1>2 DEF Commands

LEMMA NameTypes ==
  /\ \A n \in Arguments : n \in Names /\ default_output_path(n) \in Names
BY FixCliAssumption DEF Arguments, Names, default_output_path

\* Where a fix goes is a destination, and a name when it is a file.
LEMMA DestTypes ==
  ASSUME args \in Commands, NEW s \in Inputs
  PROVE  /\ compute_fix_dest(s) \in Dests
         /\ InFile(compute_fix_dest(s)) => compute_fix_dest(s).file \in Names
<1>1. CASE args.output # NoOutput
  <2>1. args.output \in Names
    BY <1>1, CommandTypes, NameTypes
  <2> QED  BY <1>1, <2>1 DEF compute_fix_dest, Dests, InFile
<1>2. CASE args.output = NoOutput /\ s # Stdin
  <2>1. default_output_path(s) \in Names
    BY <1>2, NameTypes DEF Inputs
  <2> QED  BY <1>2, <2>1 DEF compute_fix_dest, Dests, InFile
<1>3. CASE args.output = NoOutput /\ s = Stdin
  BY <1>3 DEF compute_fix_dest, Dests, InFile
<1> QED  BY <1>1, <1>2, <1>3

LEMMA SourceTypes ==
  ASSUME TypeOK, RunInv, Processing
  PROVE  /\ src \in Inputs
         /\ outcomes = <<>> => src = args.files[1] /\ 1 \in DOMAIN args.files
<1>1. /\ Len(outcomes) \in Nat /\ Len(outcomes) < Len(args.files)
      /\ args.files \in Seq(Inputs) /\ Len(args.files) \in Nat
  BY CommandTypes DEF RunInv, TypeOK
<1>2. Len(outcomes) + 1 \in 1..Len(args.files)
  BY <1>1
<1> QED  BY <1>1, <1>2 DEF src

LEMMA TextTypes ==
  /\ \A n \in Names \cup {Stdin}, f \in BOOLEAN : Text(n, f) \in Texts
  /\ \A t \in Texts : t.of \in Names \cup {Stdin}
<1>1. \A n \in Names \cup {Stdin}, f \in BOOLEAN : Text(n, f) \in Texts
  BY DEF Texts
<1>2. \A t \in Texts : t.of \in Names \cup {Stdin}
  BY DEF Texts, Text
<1> QED  BY <1>1, <1>2

\* The text that is read is a file; its fix is one that is fixed.
LEMMA ContentTypes ==
  ASSUME NEW d \in [Names -> Entries], NEW s \in Inputs, Readable(d, s)
  PROVE  Text(Content(d, s).of, TRUE) \in Texts
<1>1. Content(d, s) \in Texts
  <2>1. CASE s = Stdin
    BY <2>1, TextTypes DEF Content
  <2>2. CASE s # Stdin
    <3>1. s \in Names
      BY <2>2, NameTypes DEF Inputs
    <3>2. Canonical(d, s) \in Names
      BY <3>1 DEF Canonical, Entries, Texts, Text, Link, Missing, Torn
    <3>3. d[Canonical(d, s)] \in Entries /\ d[Canonical(d, s)].kind = "file"
      BY <2>2, <3>2 DEF Readable, Content
    <3> QED  BY <2>2, <3>3 DEF Content, Entries, Link, Missing, Torn
  <2> QED  BY <2>1, <2>2
<1> QED  BY <1>1, TextTypes

\* What depends on the command alone does not change.
LEMMA CommandFixed ==
  ASSUME UNCHANGED <<args, was>>
  PROVE  /\ UsageError' = UsageError
         /\ \A s : compute_fix_dest(s)' = compute_fix_dest(s)
         /\ \A k : Source(k)' = Source(k)
         /\ Readable(was, args.files[1])' = Readable(was, args.files[1])
         /\ (args \in Commands)' = (args \in Commands)
<1>1. UsageError' = UsageError
  <2>1. StdinCount' = StdinCount
    BY DEF StdinCount, Quantify
  <2> QED  BY <2>1 DEF UsageError
<1>2. \A s : compute_fix_dest(s)' = compute_fix_dest(s)
  BY DEF compute_fix_dest
<1>3. \A k : Source(k)' = Source(k)
  BY DEF Source, Canonical
<1>4. Readable(was, args.files[1])' = Readable(was, args.files[1])
  BY DEF Readable, Content, Canonical
<1> QED  BY <1>1, <1>2, <1>3, <1>4

------------------------------------------------------------------------------
(* The steps.                                                              *)

LEMMA FinishStep ==
  ASSUME TypeOK, RunInv, Processing, NEW o \in Outcomes, Finish(o), UNCHANGED <<args, was>>
  PROVE  /\ outcomes' \in Seq(Outcomes) /\ outcomes' # <<>>
         /\ Len(outcomes') <= Len(args.files)
         /\ \A k \in DOMAIN outcomes' :
              \/ k \in DOMAIN outcomes /\ outcomes'[k] = outcomes[k]
              \/ k = Len(outcomes) + 1 /\ outcomes'[k] = o
         /\ pc' \in {"next", "render"}
         /\ pc' = "next" => Len(outcomes') < Len(args.files)
         /\ pc' = "render" => AllDone'
<1>1. /\ outcomes \in Seq(Outcomes) /\ Len(outcomes) \in Nat
      /\ Len(args.files) \in Nat /\ Len(outcomes) < Len(args.files)
  BY CommandTypes DEF TypeOK, RunInv
<1>2. outcomes' = Append(outcomes, o) /\ outcomes' \in Seq(Outcomes)
  BY <1>1 DEF Finish
<1>3. Len(outcomes') = Len(outcomes) + 1
  BY <1>1, <1>2
<1>4. \A k \in DOMAIN outcomes' :
        \/ k \in DOMAIN outcomes /\ outcomes'[k] = outcomes[k]
        \/ k = Len(outcomes) + 1 /\ outcomes'[k] = o
  BY <1>1, <1>2
<1> QED  BY <1>1, <1>2, <1>3, <1>4 DEF Finish, AllDone

\* An input that ends without a file written.
Skips(o) ==
  /\ Processing /\ o \in Outcomes
  /\ Finish(o)
  /\ o.kind = "linted" => ~args.fix
  /\ o.kind = "processed" =>
       args.fix /\ o.dest = compute_fix_dest(src) /\ ~InFile(o.dest)
  /\ tmp' = "none" /\ fix' \in {fix, NoFix}
  /\ UNCHANGED <<args, was, disk, stdout, code>>

LEMMA SkipForms ==
  ASSUME IInv, ReadFails \/ LintOne \/ FixToStdout \/ FixRefused \/ WriteFails
  PROVE  \E o : Skips(o)
<1> DEFINE nowhere == [none |-> TRUE]
<1>1. /\ Outcome("read_error", {}, nowhere) \in Outcomes
      /\ Outcome("io_error", {}, nowhere) \in Outcomes
      /\ \A ds \in SUBSET Statuses : Outcome("linted", ds, nowhere) \in Outcomes
  BY DEF Outcome, Outcomes, Dests
<1>2. pc = "next" => tmp = "none" /\ Processing
  BY DEF IInv, TypeOK, Processing
<1>3. CASE ReadFails
  BY <1>1, <1>2, <1>3 DEF ReadFails, Skips, Outcome
<1>4. CASE LintOne
  <2>1. PICK ds \in SUBSET Statuses : Finish(Outcome("linted", ds, nowhere))
    BY <1>4 DEF LintOne
  <2>2. Skips(Outcome("linted", ds, nowhere))
    BY <1>1, <1>2, <1>4, <2>1 DEF LintOne, Skips, Outcome
  <2> QED  BY <2>2
<1>5. CASE FixToStdout
  <2>1. PICK ds \in SUBSET Statuses :
          Finish(Outcome("processed", ds, compute_fix_dest(src)))
    BY <1>5 DEF FixToStdout
  <2>2. compute_fix_dest(src) \in Dests /\ ~InFile(compute_fix_dest(src))
    BY <1>2, <1>5, SourceTypes, DestTypes DEF FixToStdout, InFile, IInv, RunInv
  <2>3. Outcome("processed", ds, compute_fix_dest(src)) \in Outcomes
    BY <2>2 DEF Outcome, Outcomes
  <2>4. Skips(Outcome("processed", ds, compute_fix_dest(src)))
    BY <1>2, <1>5, <2>1, <2>2, <2>3 DEF FixToStdout, Skips, Outcome
  <2> QED  BY <2>4
<1>6. CASE FixRefused
  BY <1>1, <1>2, <1>6 DEF FixRefused, Skips, Outcome
<1>7. CASE WriteFails
  BY <1>1, <1>7 DEF WriteFails, Skips, Outcome, Processing
<1> QED  BY <1>3, <1>4, <1>5, <1>6, <1>7

LEMMA SkipStep ==
  ASSUME IInv, NEW o, Skips(o)
  PROVE  IInv'
<1> USE DEF IInv
<1>1. /\ outcomes' \in Seq(Outcomes) /\ outcomes' # <<>>
      /\ Len(outcomes') <= Len(args.files)
      /\ \A k \in DOMAIN outcomes' :
           \/ k \in DOMAIN outcomes /\ outcomes'[k] = outcomes[k]
           \/ k = Len(outcomes) + 1 /\ outcomes'[k] = o
      /\ pc' \in {"next", "render"}
      /\ pc' = "next" => Len(outcomes') < Len(args.files)
      /\ pc' = "render" => AllDone'
  BY FinishStep DEF Skips
<1>2. /\ UsageError' = UsageError
      /\ \A s : compute_fix_dest(s)' = compute_fix_dest(s)
      /\ \A k : Source(k)' = Source(k)
      /\ Readable(was, args.files[1])' = Readable(was, args.files[1])
  BY CommandFixed DEF Skips
<1>3. /\ o \in Outcomes /\ tmp' = "none" /\ fix' \in {fix, NoFix}
      /\ UNCHANGED <<args, was, dir, survives, stdout, code>>
      /\ stdout = "none"
  BY DEF Skips, disk, Processing, RunInv
<1>4. TypeOK'
  BY <1>1, <1>2, <1>3 DEF TypeOK, Fixes
<1>5. RunInv' /\ WriteInv'
  BY <1>1, <1>3 DEF RunInv, WriteInv, Processing, Writing
<1>6. WholeInv'
  BY <1>3 DEF WholeInv
<1>7. KeepInv'
  BY <1>1, <1>2, <1>3 DEF KeepInv, Processing, Writing
<1>8. OutcomeInv'
  <2> SUFFICES ASSUME NEW k \in DOMAIN outcomes'
      PROVE  /\ outcomes'[k].kind = "linted" => ~args.fix
             /\ outcomes'[k].kind = "processed" =>
                  /\ args.fix
                  /\ outcomes'[k].dest = compute_fix_dest(args.files[k])
                  /\ InFile(outcomes'[k].dest) =>
                       LET e == dir[outcomes'[k].dest.file] IN e.kind = "file" /\ e.fixed
    BY <1>2, <1>3 DEF OutcomeInv, InFile
  <2>1. CASE k \in DOMAIN outcomes /\ outcomes'[k] = outcomes[k]
    BY <2>1 DEF OutcomeInv, Skips, Processing
  <2>2. CASE k = Len(outcomes) + 1 /\ outcomes'[k] = o
    BY <2>2 DEF Skips, src
  <2> QED  BY <1>1, <2>1, <2>2
<1>9. CodeInv'
  BY <1>1 DEF CodeInv
<1> QED  BY <1>4, <1>5, <1>6, <1>7, <1>8, <1>9

\* The rename: the fix is in place, and nothing else changes.
LEMMA PersistStep ==
  ASSUME IInv, PersistTemp
  PROVE  IInv'
<1> USE DEF IInv
<1> DEFINE to == compute_fix_dest(src)
           o == Outcome("processed", fix.diags, to)
<1>1. Processing /\ Writing /\ pc = "persist"
  BY DEF PersistTemp, Processing, Writing
<1>2. /\ args.fix /\ InFile(to) /\ to \in Dests /\ to.file \in Names
      /\ src \in Inputs
  BY <1>1, SourceTypes, DestTypes DEF WriteInv, RunInv
<1>3. fix.text \in Texts /\ fix.text.kind = "file" /\ fix.text.fixed /\ fix.text # Torn
  BY <1>1 DEF WriteInv, TypeOK, Fixes, NoFix, Missing, Torn
<1>4. o \in Outcomes /\ Finish(o) /\ o.kind = "processed" /\ o.dest = to
  BY <1>2 DEF PersistTemp, TypeOK, Fixes, NoFix, Outcome, Outcomes
<1>5. /\ UNCHANGED <<args, was, stdout, code>> /\ tmp' = "none" /\ fix' = NoFix
      /\ stdout = "none"
      /\ dir' = [dir EXCEPT ![to.file] = fix.text]
      /\ survives' = [survives EXCEPT ![to.file] = @ \cup {fix.text}]
  BY <1>1 DEF PersistTemp, WriteInv, RunInv
<1>6. /\ outcomes' \in Seq(Outcomes) /\ outcomes' # <<>>
      /\ Len(outcomes') <= Len(args.files)
      /\ \A k \in DOMAIN outcomes' :
           \/ k \in DOMAIN outcomes /\ outcomes'[k] = outcomes[k]
           \/ k = Len(outcomes) + 1 /\ outcomes'[k] = o
      /\ pc' \in {"next", "render"}
      /\ pc' = "next" => Len(outcomes') < Len(args.files)
      /\ pc' = "render" => AllDone'
  BY <1>1, <1>4, <1>5, FinishStep
<1>7. /\ UsageError' = UsageError
      /\ \A s : compute_fix_dest(s)' = compute_fix_dest(s)
      /\ \A k : Source(k)' = Source(k)
      /\ Readable(was, args.files[1])' = Readable(was, args.files[1])
  BY <1>5, CommandFixed
<1>8. /\ dir \in [Names -> Entries] /\ survives \in [Names -> SUBSET Entries]
      /\ fix.text \in Entries
  BY <1>3 DEF TypeOK, Entries
<1>9. TypeOK'
  BY <1>2, <1>5, <1>6, <1>8 DEF TypeOK, Fixes
<1>10. RunInv' /\ WriteInv'
  BY <1>5, <1>6 DEF RunInv, WriteInv, Processing, Writing
<1>11. WholeInv'
  BY <1>2, <1>3, <1>5, <1>8 DEF WholeInv
<1>12. KeepInv'
  <2>1. ~(outcomes' = <<>>)
    BY <1>6
  <2>2. SUFFICES ASSUME Len(args.files) = 1, args.files[1] # Stdin,
                        Readable(was, args.files[1])
        PROVE  to.file # Source(1)
    BY <2>1, <2>2, <1>2, <1>5, <1>7, <1>8 DEF KeepInv
  <2>3. outcomes = <<>>
    BY <1>1, <2>2 DEF RunInv, TypeOK
  <2> QED  BY <1>1, <2>2, <2>3, SourceTypes DEF KeepInv
<1>13. OutcomeInv'
  <2> SUFFICES ASSUME NEW k \in DOMAIN outcomes'
      PROVE  /\ outcomes'[k].kind = "linted" => ~args.fix
             /\ outcomes'[k].kind = "processed" =>
                  /\ args.fix
                  /\ outcomes'[k].dest = compute_fix_dest(args.files[k])
                  /\ InFile(outcomes'[k].dest) =>
                       LET e == dir'[outcomes'[k].dest.file] IN e.kind = "file" /\ e.fixed
    BY <1>5, <1>7 DEF OutcomeInv, InFile
  <2>1. CASE k \in DOMAIN outcomes /\ outcomes'[k] = outcomes[k]
    <3>1. outcomes[k] \in Outcomes
      BY <2>1 DEF TypeOK
    <3>2. InFile(outcomes[k].dest) => outcomes[k].dest.file \in Names
      BY DEF InFile
    <3> QED  BY <1>1, <1>3, <1>5, <1>8, <2>1, <3>2 DEF OutcomeInv
  <2>2. CASE k = Len(outcomes) + 1 /\ outcomes'[k] = o
    BY <1>2, <1>3, <1>4, <1>5, <1>8, <2>2 DEF src
  <2> QED  BY <1>6, <2>1, <2>2
<1>14. CodeInv'
  BY <1>6 DEF CodeInv
<1> QED  BY <1>9, <1>10, <1>11, <1>12, <1>13, <1>14

\* A fix begins, its temporary file is written, and synced.
LEMMA WriteStep ==
  ASSUME IInv, FixToFile \/ WriteTemp \/ SyncTemp
  PROVE  IInv'
<1> USE DEF IInv
<1>1. /\ Processing /\ Processing' /\ Writing'
      /\ UNCHANGED <<args, was, dir, survives, outcomes, stdout, code>>
  BY DEF FixToFile, WriteTemp, SyncTemp, Processing, Writing, disk
<1>2. /\ UsageError' = UsageError
      /\ \A s : compute_fix_dest(s)' = compute_fix_dest(s)
      /\ \A k : Source(k)' = Source(k)
      /\ Readable(was, args.files[1])' = Readable(was, args.files[1])
  BY <1>1, CommandFixed
<1>3. src' = src
  BY <1>1 DEF src
<1>4. src \in Inputs /\ dir \in [Names -> Entries]
  BY <1>1, SourceTypes DEF TypeOK
<1>5. fix' \in Fixes /\ (FixToFile => fix'.text.kind = "file" /\ fix'.text.fixed)
  <2>1. CASE FixToFile
    <3>1. Text(Content(dir, src).of, TRUE) \in Texts
      BY <1>4, <2>1, ContentTypes DEF FixToFile
    <3>2. PICK ds \in SUBSET Statuses :
            fix' = [text |-> Text(Content(dir, src).of, TRUE), diags |-> ds]
      BY <2>1 DEF FixToFile
    <3> QED  BY <3>1, <3>2 DEF Fixes, Text
  <2>2. CASE WriteTemp \/ SyncTemp
    BY <2>2 DEF WriteTemp, SyncTemp, FixToFile, TypeOK
  <2> QED  BY <2>1, <2>2
<1>6. TypeOK'
  BY <1>1, <1>2, <1>5 DEF TypeOK, FixToFile, WriteTemp, SyncTemp, AllDone
<1>7. RunInv'
  BY <1>1 DEF RunInv, FixToFile, WriteTemp, SyncTemp, Processing
<1>8. WriteInv'
  BY <1>1, <1>2, <1>3, <1>5
     DEF WriteInv, FixToFile, WriteTemp, SyncTemp, Writing, InFile
<1>9. WholeInv'
  BY <1>1 DEF WholeInv
<1>10. KeepInv'
  <2>1. ASSUME outcomes = <<>>, args.files[1] # Stdin
        PROVE  compute_fix_dest(args.files[1]).file # Source(1)
    <3>1. CASE FixToFile
      <4>1. src = args.files[1] /\ dir = was
        BY <1>1, <2>1, SourceTypes DEF KeepInv
      <4> QED  BY <2>1, <3>1, <4>1 DEF FixToFile, same_output_as_input, Source
    <3>2. CASE WriteTemp \/ SyncTemp
      BY <2>1, <3>2 DEF WriteTemp, SyncTemp, KeepInv, Writing
    <3> QED  BY <3>1, <3>2
  <2> QED  BY <1>1, <1>2, <2>1 DEF KeepInv
<1>11. OutcomeInv'
  BY <1>1, <1>2 DEF OutcomeInv, InFile, Processing
<1>12. CodeInv'
  BY <1>1 DEF CodeInv, Processing
<1> QED  BY <1>6, <1>7, <1>8, <1>9, <1>10, <1>11, <1>12

\* The command ends with its report, or without one.
LEMMA ReportStep ==
  ASSUME IInv, RejectUsage \/ Render \/ RenderToBrokenPipe \/ RenderFails \/ StderrPanics
  PROVE  IInv'
<1> USE DEF IInv
<1>1. /\ pc' = "done" /\ pc \in {"start", "render"}
      /\ pc = "start" => UsageError
      /\ UNCHANGED <<args, was, dir, survives, fix, tmp, outcomes>>
  BY DEF RejectUsage, Render, RenderToBrokenPipe, RenderFails, StderrPanics, disk
<1>2. /\ UsageError' = UsageError
      /\ \A s : compute_fix_dest(s)' = compute_fix_dest(s)
      /\ \A k : Source(k)' = Source(k)
      /\ Readable(was, args.files[1])' = Readable(was, args.files[1])
  BY <1>1, CommandFixed
<1>3. exit_code' = exit_code /\ WritesStdout' = WritesStdout /\ AllDone' = AllDone
  BY <1>1 DEF exit_code, WritesStdout, AllDone
<1>4. exit_code \in {"ok", "warnings", "errors"}
  BY DEF exit_code, FixExitCode, LintExitCode
<1>5. /\ stdout' \in {"none", "all", "broken_pipe", "failed"}
      /\ code' \in {"ok", "warnings", "errors", "usage", "panic"}
  BY <1>4 DEF RejectUsage, Render, RenderToBrokenPipe, RenderFails, StderrPanics, TypeOK
<1>6. TypeOK'
  BY <1>1, <1>2, <1>3, <1>5 DEF TypeOK, RunInv
<1>7. RunInv' /\ WriteInv' /\ WholeInv' /\ KeepInv'
  BY <1>1, <1>2 DEF RunInv, WriteInv, WholeInv, KeepInv, Processing, Writing
<1>8. OutcomeInv'
  BY <1>1, <1>2 DEF OutcomeInv, InFile
<1>9. CodeInv'
  <2>1. CASE RejectUsage
    BY <2>1, <1>1 DEF RejectUsage, RunInv, CodeInv
  <2>2. CASE Render
    BY <2>2, <1>1, <1>3 DEF Render, RunInv, CodeInv
  <2>3. CASE RenderToBrokenPipe
    BY <2>3 DEF RenderToBrokenPipe, CodeInv
  <2>4. CASE RenderFails
    BY <2>4 DEF RenderFails, CodeInv
  <2>5. CASE StderrPanics
    BY <2>5, <1>1 DEF StderrPanics, WritesStderr, RunInv, CodeInv
  <2> QED  BY <2>1, <2>2, <2>3, <2>4, <2>5
<1> QED  BY <1>6, <1>7, <1>8, <1>9

LEMMA StartStep ==
  ASSUME IInv, Start
  PROVE  IInv'
<1> USE DEF IInv
<1>1. /\ pc = "start" /\ pc' = "next" /\ args.files # <<>> /\ outcomes = <<>>
      /\ UNCHANGED <<args, was, dir, survives, fix, tmp, outcomes, stdout, code>>
  BY DEF Start, UsageError, RunInv, disk
<1>2. Len(outcomes) < Len(args.files)
  BY <1>1, CommandTypes DEF RunInv
<1>3. /\ \A s : compute_fix_dest(s)' = compute_fix_dest(s)
      /\ \A k : Source(k)' = Source(k)
      /\ Readable(was, args.files[1])' = Readable(was, args.files[1])
  BY <1>1, CommandFixed
<1>4. TypeOK' /\ RunInv' /\ WriteInv' /\ WholeInv'
  BY <1>1, <1>2 DEF TypeOK, RunInv, WriteInv, WholeInv, Processing, Writing
<1>5. KeepInv' /\ OutcomeInv' /\ CodeInv'
  BY <1>1, <1>3 DEF KeepInv, OutcomeInv, CodeInv, Processing, Writing
<1> QED  BY <1>4, <1>5

\* The process is killed; the power is lost, and each name keeps one of the files
\* that it may have held.
LEMMA StopStep ==
  ASSUME IInv, Kill \/ PowerLoss
  PROVE  IInv'
<1> USE DEF IInv
<1>1. /\ pc' = "killed"
      /\ UNCHANGED <<args, was, fix, tmp, outcomes, stdout, code>>
  BY DEF Kill, PowerLoss
<1>2. /\ \A s : compute_fix_dest(s)' = compute_fix_dest(s)
      /\ \A k : Source(k)' = Source(k)
      /\ Readable(was, args.files[1])' = Readable(was, args.files[1])
  BY <1>1, CommandFixed
<1>3. /\ dir' \in [Names -> Entries] /\ survives' \in [Names -> SUBSET Entries]
      /\ \/ UNCHANGED <<dir, survives>>
         \/ \A n \in Names : dir'[n] \in survives[n] /\ survives'[n] = {dir'[n]}
  <2>1. CASE Kill
    BY <2>1 DEF Kill, disk, TypeOK
  <2>2. CASE PowerLoss
    <3>1. PICK d \in [Names -> UNION Range(survives)] :
            /\ \A n \in Names : d[n] \in survives[n]
            /\ dir' = d
            /\ survives' = [n \in Names |-> {d[n]}]
      BY <2>2 DEF PowerLoss
    <3>2. \A n \in Names : d[n] \in Entries
      BY <3>1 DEF TypeOK
    <3> QED  BY <3>1, <3>2
  <2> QED  BY <2>1, <2>2
<1>4. TypeOK' /\ RunInv' /\ WriteInv' /\ CodeInv' /\ OutcomeInv'
  BY <1>1, <1>2, <1>3
     DEF TypeOK, RunInv, WriteInv, CodeInv, OutcomeInv, Processing, Writing, AllDone
<1>5. WholeInv'
  BY <1>3 DEF WholeInv
<1>6. KeepInv'
  <2>1. ASSUME Len(args.files) = 1, args.files[1] # Stdin, Readable(was, args.files[1])
        PROVE  /\ dir'[Source(1)] = was[Source(1)]
               /\ survives'[Source(1)] = {was[Source(1)]}
    <3>1. args.files[1] \in Names
      BY <2>1, CommandTypes, NameTypes DEF RunInv, Inputs
    <3>2. Source(1) \in Names
      BY <3>1 DEF Source, Canonical, TypeOK, Entries, Texts, Text, Link, Missing, Torn
    <3> QED  BY <1>3, <2>1, <3>2 DEF KeepInv
  <2> QED  BY <1>1, <1>2, <2>1 DEF KeepInv, Processing, Writing
<1> QED  BY <1>4, <1>5, <1>6

------------------------------------------------------------------------------
(* The invariant, and what follows from it.                                *)

LEMMA Begins ==
  ASSUME Init
  PROVE  IInv
<1>1. /\ was \in [Names -> Entries] /\ dir = was
      /\ \A n \in Names : was[n] # Torn
  <2>1. \A n \in Names : Text(n, FALSE) \in Texts
    BY TextTypes
  <2>2. \A n \in Names : /\ was[n] \in {Text(m, FALSE) : m \in Names} \cup {Missing}
                                         \cup {Link(m) : m \in Arguments}
    BY DEF Init
  <2>3. \A n \in Names : was[n] \in Entries /\ was[n] # Torn
    BY <2>1, <2>2, NameTypes DEF Entries, Text, Link, Missing, Torn
  <2> QED  BY <2>3 DEF Init
<1>2. args \in Commands
  BY DEF Init, Commands
<1>3. TypeOK
  BY <1>1, <1>2, CommandTypes DEF Init, TypeOK, Fixes
<1>4. RunInv /\ WriteInv /\ OutcomeInv /\ CodeInv
  BY <1>2 DEF Init, RunInv, WriteInv, OutcomeInv, CodeInv, Processing, Writing
<1>5. WholeInv
  BY <1>1 DEF Init, WholeInv
<1>6. KeepInv
  <2>1. ASSUME Len(args.files) = 1, args.files[1] # Stdin
        PROVE  Source(1) \in Names
    <3>1. args.files[1] \in Names
      BY <1>2, <2>1, CommandTypes, NameTypes DEF Inputs
    <3> QED
      BY <1>1, <3>1 DEF Source, Canonical, Entries, Texts, Text, Link, Missing, Torn
  <2> QED  BY <2>1, <1>1 DEF Init, KeepInv, Writing
<1> QED  BY <1>3, <1>4, <1>5, <1>6 DEF IInv

LEMMA Steps ==
  ASSUME IInv, [Next]_vars
  PROVE  IInv'
<1>1. CASE ReadFails \/ LintOne \/ FixToStdout \/ FixRefused \/ WriteFails
  BY <1>1, SkipForms, SkipStep
<1>2. CASE FixToFile \/ WriteTemp \/ SyncTemp
  BY <1>2, WriteStep
<1>3. CASE PersistTemp
  BY <1>3, PersistStep
<1>4. CASE RejectUsage \/ Render \/ RenderToBrokenPipe \/ RenderFails \/ StderrPanics
  BY <1>4, ReportStep
<1>5. CASE Start
  BY <1>5, StartStep
<1>6. CASE Kill \/ PowerLoss
  BY <1>6, StopStep
<1>7. CASE UNCHANGED vars
  <2>1. UNCHANGED <<args, was, dir, survives, pc, fix, tmp, outcomes, stdout, code>>
    BY <1>7 DEF vars, disk
  <2>2. /\ UsageError' = UsageError
        /\ \A s : compute_fix_dest(s)' = compute_fix_dest(s)
        /\ \A k : Source(k)' = Source(k)
        /\ Readable(was, args.files[1])' = Readable(was, args.files[1])
    BY <2>1, CommandFixed
  <2>3. /\ exit_code' = exit_code /\ WritesStdout' = WritesStdout /\ AllDone' = AllDone
        /\ src' = src
    BY <2>1 DEF exit_code, WritesStdout, AllDone, src
  <2>4. TypeOK' /\ RunInv' /\ WriteInv' /\ WholeInv'
    BY <2>1, <2>2, <2>3 DEF IInv, TypeOK, RunInv, WriteInv, WholeInv, Processing, Writing
  <2>5. KeepInv' /\ OutcomeInv' /\ CodeInv'
    BY <2>1, <2>2, <2>3 DEF IInv, KeepInv, OutcomeInv, CodeInv, Processing, Writing
  <2> QED  BY <2>4, <2>5 DEF IInv
<1> QED  BY <1>1, <1>2, <1>3, <1>4, <1>5, <1>6, <1>7 DEF Next

\* The inductive invariant holds, whatever fails and whenever the process stops.
THEOREM Invariance == Spec => []IInv
<1>1. Init => IInv
  BY Begins
<1>2. IInv /\ [Next]_vars => IInv'
  BY Steps
<1> QED  BY <1>1, <1>2, PTL DEF Spec

\* Every variable keeps its type, for any command and any directory.
THEOREM TypeCorrect == Spec => []TypeOK
BY Invariance, PTL DEF IInv

\* No kill and no power loss leaves a torn file (atomic_write syncs the temporary
\* file before it renames it).
THEOREM FilesWhole == Spec => []FilesAreWhole
<1>1. IInv => FilesAreWhole
  BY DEF IInv, WholeInv, FilesAreWhole
<1> QED  BY <1>1, Invariance, PTL

\* A command with one input keeps the file that it reads (same_output_as_input,
\* and no other write).
THEOREM SourceKept == Spec => []SingleSourceKept
<1>1. IInv => SingleSourceKept
  BY DEF IInv, KeepInv, SingleSourceKept, SourceIsKept
<1> QED  BY <1>1, Invariance, PTL

\* Exit code 0 or 3 in fix mode: every fix is where it was asked for, and nothing
\* was left unfixable.
THEOREM SuccessWritten == Spec => []SuccessIsWritten
<1>1. ASSUME IInv PROVE SuccessIsWritten
  <2> USE DEF IInv
  <2> SUFFICES ASSUME pc = "done", args.fix, code \in {"ok", "warnings"},
                      stdout # "broken_pipe", NEW k \in DOMAIN args.files
      PROVE  /\ outcomes[k].kind = "processed" /\ "unfixable" \notin outcomes[k].diags
             /\ LET to == IF args.output # NoOutput THEN args.output
                          ELSE default_output_path(args.files[k]) IN
                IF args.output = NoOutput /\ args.files[k] = Stdin THEN stdout = "all"
                ELSE dir[to].kind = "file" /\ dir[to].fixed
    BY DEF SuccessIsWritten
  <2>1. AllDone /\ code = FixExitCode(outcomes)
    BY <1>1 DEF CodeInv, exit_code
  <2>2. k \in DOMAIN outcomes /\ outcomes[k] \in Outcomes
    BY <1>1, <2>1, CommandTypes DEF AllDone, TypeOK, RunInv
  <2>3. ~Failed(outcomes[k]) /\ "unfixable" \notin outcomes[k].diags
    BY <2>1, <2>2 DEF FixExitCode
  <2>4. outcomes[k].kind = "processed"
    BY <1>1, <2>2, <2>3 DEF Failed, Outcomes, OutcomeInv
  <2>5. outcomes[k].dest = compute_fix_dest(args.files[k])
    BY <1>1, <2>2, <2>4 DEF OutcomeInv
  <2>6. CASE args.output = NoOutput /\ args.files[k] = Stdin
    <3>1. WritesStdout
      BY <1>1, <2>2, <2>5, <2>6, CommandTypes DEF compute_fix_dest, WritesStdout, RunInv
    <3> QED  BY <1>1, <2>3, <2>4, <2>6, <3>1 DEF CodeInv
  <2>7. CASE ~(args.output = NoOutput /\ args.files[k] = Stdin)
    <3> DEFINE to == IF args.output # NoOutput THEN args.output
                     ELSE default_output_path(args.files[k])
    <3>1. args.files[k] \in Inputs
      BY <1>1, CommandTypes DEF RunInv
    <3>2. to \in Names
      BY <1>1, <2>7, <3>1, CommandTypes, NameTypes DEF RunInv, Inputs
    <3>3. compute_fix_dest(args.files[k]) = [file |-> to]
      BY <2>7 DEF compute_fix_dest
    <3>4. InFile(outcomes[k].dest) /\ outcomes[k].dest.file = to
      BY <2>5, <3>2, <3>3 DEF InFile
    <3>5. dir[to].kind = "file" /\ dir[to].fixed
      BY <1>1, <2>2, <2>4, <3>4 DEF OutcomeInv
    <3> QED  BY <2>3, <2>4, <2>7, <3>5
  <2> QED  BY <2>6, <2>7
<1> QED  BY <1>1, Invariance, PTL

\* A summary counts no error just when no outcome is a failure or unfixable.
LEMMA NoErrors ==
  ASSUME TypeOK
  PROVE  Summary(outcomes).errors = 0
           <=> \A k \in DOMAIN outcomes :
                 ~Failed(outcomes[k]) /\ "unfixable" \notin outcomes[k].diags
<1> DEFINE unfixable == {k \in DOMAIN outcomes : "unfixable" \in outcomes[k].diags}
           failed == {k \in DOMAIN outcomes : Failed(outcomes[k])}
<1>1. IsFiniteSet(DOMAIN outcomes)
  <2>1. DOMAIN outcomes = 1..Len(outcomes) /\ Len(outcomes) \in Nat
    BY DEF TypeOK
  <2> QED  BY <2>1, FS_Interval
<1>2. IsFiniteSet(unfixable) /\ IsFiniteSet(failed)
  BY <1>1, FS_Subset
<1>3. /\ Cardinality(unfixable) \in Nat /\ Cardinality(failed) \in Nat
      /\ Cardinality(unfixable) = 0 <=> unfixable = {}
      /\ Cardinality(failed) = 0 <=> failed = {}
  BY <1>2, FS_CardinalityType, FS_EmptySet
<1>4. Summary(outcomes).errors = Cardinality(unfixable) + Cardinality(failed)
  BY DEF Summary, CountStatus, FailureErrors, Quantify
<1>5. Summary(outcomes).errors = 0 <=> unfixable = {} /\ failed = {}
  BY <1>3, <1>4
<1> QED  BY <1>5

\* The JSON summary of a fix counts an error just when the exit code tells of one.
THEOREM SummaryTells == Spec => []SummaryTellsFailure
<1>1. ASSUME IInv PROVE SummaryTellsFailure
  <2> USE DEF IInv
  <2> SUFFICES ASSUME pc = "done", args.fix, args.format = "json", stdout = "all"
      PROVE  (Summary(outcomes).errors = 0) = (code \in {"ok", "warnings"})
    BY DEF SummaryTellsFailure
  <2>1. code = FixExitCode(outcomes)
    BY <1>1 DEF CodeInv, exit_code
  <2>2. code \in {"ok", "warnings"}
          <=> \A k \in DOMAIN outcomes :
                ~Failed(outcomes[k]) /\ "unfixable" \notin outcomes[k].diags
    BY <2>1 DEF FixExitCode
  <2> QED  BY <1>1, <2>2, NoErrors
<1> QED  BY <1>1, Invariance, PTL
==============================================================================
