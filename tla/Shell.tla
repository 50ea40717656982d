------------------------------- MODULE Shell -------------------------------
(***************************************************************************)
(* The shell of p5 (main.cpp): it reads a line, parses it (Parser), runs   *)
(* its commands one after the other or joined by pipes, waits for them,    *)
(* and is interrupted by SIGINT, with the processes it starts.             *)
(*                                                                         *)
(* A command that execvp does not find makes its process return into main: *)
(* it is a shell itself, reads what is left of the input, and ends with 0. *)
(* A line in the background is one process here.                           *)
(***************************************************************************)
EXTENDS Parser, FiniteSets

CONSTANTS
  Lines,         \* the lines that may be typed
  Unknown,       \* words that are no program
  MaxLines,      \* bound on the lines typed in a behaviour
  MaxInterrupts  \* bound on the SIGINTs in a behaviour

ASSUME ShellAssumption ==
  MaxLines \in Nat /\ MaxInterrupts \in Nat /\ \A line \in Lines : line \in Seq(STRING)

VARIABLES
  eof, interrupts,
  procs,        \* the processes, at their pid: where they come from, and state
  \* main
  phase,        \* "prompt", "read", "spawned" (in the background), "run",
                \* "start", "started", "wait", "final", "ended" or "undefined"
  active_process, pids,
  line,         \* the line typed
  lines,        \* how many
  \* run
  cmds, iter, prev_op, cur_pid, cur_status,
  cnt_proc,     \* in "wait": the waits still to do
  fdpipe,       \* the process that writes to the pipe of fdpipe[0], 0 if none
  \* history
  foreign       \* this run waited for a process that is not of its line

world == <<eof, interrupts, procs>>
main  == <<active_process, pids, line, lines>>
runs  == <<cmds, iter, prev_op, cur_pid, cur_status, cnt_proc, fdpipe, foreign>>
vars == <<world, phase, main, runs>>

Status == {"0", "1", "signal"}
Running == {p \in DOMAIN procs : procs[p].state = "running"}
Zombies == {p \in DOMAIN procs : procs[p].state = "zombie"}

\* What a process reads from: one of these, or the process that writes to its
\* pipe, or 0, a descriptor that is no pipe.
Terminal == -1
File == -2

\* A new process: the line and the command it is of (0 is the whole line), its
\* program, what it reads from, and whether SIGINT came before it.
Process(i, word, input) ==
  [line |-> lines, cmd |-> i, word |-> word, input |-> input,
   state |-> "running", status |-> "0", late |-> ~active_process]

Init ==
  /\ eof = FALSE /\ interrupts = 0 /\ procs = <<>>
  /\ phase = "prompt" /\ active_process = FALSE /\ pids = {} /\ line = <<>> /\ lines = 0
  /\ cmds = <<>> /\ iter = 1 /\ prev_op = "" /\ cur_pid = 0 /\ cur_status = "0"
  /\ cnt_proc = 0 /\ fdpipe = 0 /\ foreign = FALSE

----------------------------------------------------------------------------
(* The user and the processes *)

EndInput ==
  /\ ~eof /\ eof' = TRUE
  /\ UNCHANGED <<interrupts, procs, phase, main, runs>>

\* A process ends.  One that has become a shell ends at the end of the input.
Ends(p) ==
  /\ p \in Running
  /\ \E status \in {"0", "1"} :
       /\ procs[p].word \in Unknown => eof /\ status = "0"
       /\ procs' = [procs EXCEPT ![p].state = "zombie", ![p].status = status]
  /\ UNCHANGED <<eof, interrupts, phase, main, runs>>

Killed(S) ==
  procs' = [p \in DOMAIN procs |-> IF p \in S \cap Running
                                   THEN [procs[p] EXCEPT !.state = "zombie", !.status = "signal"]
                                   ELSE procs[p]]

\* handler: SIGINT goes on to the children in pids.  A terminal has sent it to
\* all of them already.
handler ==
  /\ interrupts < MaxInterrupts /\ phase \notin {"ended", "undefined"}
  /\ interrupts' = interrupts + 1
  /\ active_process' = FALSE
  /\ Killed(pids) \/ Killed(Running)
  /\ UNCHANGED <<eof, phase, pids, line, lines, runs>>

----------------------------------------------------------------------------
(* main *)

\* Mutant of waited_for: the child stays in pids.
waited_for_in_pids(p) ==
  /\ p \in Zombies
  /\ procs' = [procs EXCEPT ![p].state = "reaped"]
  /\ UNCHANGED pids

waited_for(p) ==
  /\ p \in Zombies
  /\ procs' = [procs EXCEPT ![p].state = "reaped"]
  /\ pids' = pids \ {p}

\* waitpid finds a child that has ended.
Reap(p) ==
  /\ phase \in {"prompt", "final"} /\ waited_for(p)
  /\ UNCHANGED <<eof, interrupts, phase, active_process, line, lines, runs>>

\* The loop over waitpid is over, and a line is read.
Prompt ==
  /\ phase = "prompt" /\ Zombies = {}
  /\ phase' = "read" /\ active_process' = TRUE /\ pids' = {}
  /\ UNCHANGED <<world, line, lines, runs>>

\* A line was read and is parsed; it is run if no SIGINT came meanwhile, perhaps
\* by a child.  cur_status and fdpipe of run are not initialised.
ReadLine ==
  /\ phase = "read" /\ lines < MaxLines
  /\ line' \in Lines /\ lines' = lines + 1
  /\ LET p == parse(line')
     IN  /\ phase' = CASE ~p.defined -> "undefined"
                       [] p.defined /\ ~active_process -> "prompt"
                       [] p.defined /\ active_process /\ p.bkgr_mode -> "spawned"
                       [] OTHER -> "run"
         /\ cmds' = IF p.defined THEN p.cmds ELSE <<>>
         /\ procs' = IF phase' = "spawned"
                     THEN Append(procs, [Process(0, "&", Terminal) EXCEPT !.line = lines'])
                     ELSE procs
  /\ iter' = 1 /\ prev_op' = "" /\ cnt_proc' = 0 /\ fdpipe' = 0 /\ foreign' = FALSE
  /\ cur_status' \in Status
  /\ UNCHANGED <<eof, interrupts, active_process, pids, cur_pid>>

Spawned ==
  /\ phase = "spawned" /\ phase' = "prompt"
  /\ pids' = pids \cup {Len(procs)}
  /\ UNCHANGED <<world, active_process, line, lines, runs>>

\* The end of the input, and the wait for the children that are left.
EndOfInput ==
  /\ phase = "read" /\ eof /\ phase' = "final"
  /\ UNCHANGED <<world, main, runs>>

Finish ==
  /\ phase = "final" /\ Running \cup Zombies = {} /\ phase' = "ended"
  /\ UNCHANGED <<world, main, runs>>

----------------------------------------------------------------------------
(* run *)

\* Mutant of Lazy: a command behind && always runs.
LazyOrOnly == prev_op = "||" /\ cur_status = "0"

\* The command is skipped because of the status of what ran before.
Lazy == \/ prev_op = "||" /\ cur_status = "0"
        \/ prev_op = "&&" /\ cur_status # "0"

\* Mutant of Return: the loop has no other end than SIGINT.
ReturnIfInterrupted ==
  /\ phase = "run" /\ ~active_process /\ phase' = "prompt"
  /\ UNCHANGED <<world, main, runs>>

\* run has come to its end, or finds that SIGINT came.
Return ==
  /\ phase = "run" /\ (iter > Len(cmds) \/ ~active_process) /\ phase' = "prompt"
  /\ UNCHANGED <<world, main, runs>>

\* The command is skipped, with the operator behind it, whichever that is.
Skip ==
  /\ phase = "run" /\ iter <= Len(cmds) /\ active_process /\ Lazy
  /\ IF iter = Len(cmds)
     THEN phase' = "prompt" /\ UNCHANGED <<prev_op, iter>>
     ELSE prev_op' = cmds[iter + 1].delim /\ iter' = iter + 2 /\ UNCHANGED phase
  /\ UNCHANGED <<world, main, cmds, cur_pid, cur_status, cnt_proc, fdpipe, foreign>>

\* Mutant of Decide: active_process is not looked at.
DecideAnyway ==
  /\ phase = "run" /\ iter <= Len(cmds) /\ ~Lazy
  /\ phase' = "start"
  /\ UNCHANGED <<world, main, runs>>

\* The command is to be started.
Decide ==
  /\ phase = "run" /\ iter <= Len(cmds) /\ active_process /\ ~Lazy
  /\ phase' = "start"
  /\ UNCHANGED <<world, main, runs>>

\* forward_input: fdpipe[0] is used up by the command that reads from it.
forward_input(cmd) ==
  CASE cmd.infile = "pipe" -> fdpipe
    [] cmd.infile = "" -> Terminal
    [] OTHER -> File

\* forward_output, for the process that is next.
forward_output(cmd) ==
  IF cmd.outfile = "pipe" THEN Len(procs) + 1 ELSE IF cmd.infile = "pipe" THEN 0 ELSE fdpipe

\* The redirections, and fork.
Start ==
  /\ phase = "start" /\ phase' = "started"
  /\ procs' = Append(procs, Process(iter, cmds[iter].params[1], forward_input(cmds[iter])))
  /\ fdpipe' = forward_output(cmds[iter])
  /\ cur_pid' = Len(procs) + 1
  /\ UNCHANGED <<eof, interrupts, main, cmds, iter, prev_op, cur_status, cnt_proc, foreign>>

\* The shell waits behind this command.
EndsPipeline == iter = Len(cmds) \/ cmds[iter + 1].delim \in {"||", "&&", ";"}

\* To the next command, if there is one.
Advance ==
  IF iter = Len(cmds) THEN phase' = "prompt" /\ UNCHANGED <<prev_op, iter>>
  ELSE phase' = "run" /\ prev_op' = cmds[iter + 1].delim /\ iter' = iter + 2

\* The parent, back from fork.
Started ==
  /\ phase = "started"
  /\ pids' = pids \cup {cur_pid}
  /\ cnt_proc' = cnt_proc + 1
  /\ IF EndsPipeline THEN phase' = "wait" /\ UNCHANGED <<prev_op, iter>> ELSE Advance
  /\ UNCHANGED <<world, active_process, line, lines, cmds, cur_pid, cur_status, fdpipe, foreign>>

\* Mutant of StatusAfter: the last child that is waited for counts.
StatusAfterAny(p) == procs[p].status

StatusAfter(p) == IF p = cur_pid THEN procs[p].status ELSE cur_status

\* One wait: any child that has ended.
Wait(p) ==
  /\ phase = "wait" /\ waited_for(p)
  /\ cur_status' = StatusAfter(p)
  /\ foreign' = (foreign \/ procs[p].line # lines)
  /\ cnt_proc' = cnt_proc - 1
  /\ IF cnt_proc = 1 THEN Advance ELSE UNCHANGED <<phase, prev_op, iter>>
  /\ UNCHANGED <<eof, interrupts, active_process, line, lines, cmds, cur_pid, fdpipe>>

run == Return \/ Skip \/ Decide \/ Start \/ Started \/ \E p \in DOMAIN procs : Wait(p)

Shell ==
  \/ Prompt \/ Spawned \/ EndOfInput \/ Finish \/ run
  \/ \E p \in DOMAIN procs : Reap(p)

Next ==
  \/ Shell \/ ReadLine \/ handler \/ EndInput
  \/ \E p \in DOMAIN procs : Ends(p)

Spec == Init /\ [][Next]_vars

\* The shell runs when it is not waiting, and every process ends that is not
\* waiting for the end of the input.
FairSpec == Spec /\ WF_vars(Shell) /\ WF_vars(\E p \in DOMAIN procs : Ends(p))

----------------------------------------------------------------------------
(* Properties *)

TypeOK ==
  /\ eof \in BOOLEAN /\ interrupts \in Nat /\ lines \in Nat
  /\ \A p \in DOMAIN procs :
       /\ procs[p].state \in {"running", "zombie", "reaped"} /\ procs[p].status \in Status
       /\ procs[p].line \in 1 .. lines /\ procs[p].late \in BOOLEAN
  /\ phase \in {"prompt", "read", "spawned", "run", "start", "started", "wait", "final",
                "ended", "undefined"}
  /\ active_process \in BOOLEAN /\ foreign \in BOOLEAN
  /\ pids \subseteq DOMAIN procs /\ \A p \in pids : procs[p].state # "reaped"
  /\ iter \in Nat /\ prev_op \in {"", "||", "&&", ";", "|", "&"}
  /\ cur_pid \in 0 .. Len(procs) /\ cur_status \in Status
  /\ cnt_proc \in Nat /\ fdpipe \in 0 .. Len(procs)

InRun == phase \in {"run", "start", "started", "wait"}
Mine == {p \in DOMAIN procs : procs[p].line = lines /\ procs[p].cmd # 0}
Of(i) == {p \in Mine : procs[p].cmd = i}

\* The entities that run works on are those of the line, in order, with their files
\* (Faithful); a line with a piece of blanks is never run.
ParsedRight == InRun => Faithful([cmds |-> cmds, bkgr_mode |-> FALSE], line)

\* When run decides what comes next, everything before a ; || or && is over and
\* waited for, and cur_status is the status of its last command, whichever order
\* the processes of a pipeline end in; unless wait returned a process of an
\* earlier line, which then counts as one of this line.
PipelineIsOver ==
  (phase = "run" /\ prev_op \in {";", "||", "&&"} /\ ~foreign) =>
    /\ \A p \in Mine : procs[p].state = "reaped"
    /\ \A p \in Mine : (\A q \in Mine : q <= p) => cur_status = procs[p].status

\* A command behind a | reads from the process of the command before it, if that
\* was started, and no other command reads from a pipe.
PipesConnect ==
  \A p \in Mine :
    LET before == Of(procs[p].cmd - 2)
    IN  InRun =>
          IF IsDelim(cmds, procs[p].cmd - 1, "|")
          THEN procs[p].input \in before \cup (IF before = {} THEN {0} ELSE {})
          ELSE procs[p].input \in {Terminal, File}

\* After SIGINT at most the command that was just being started is started.
StopsAfterInterrupt == Cardinality({p \in Mine : procs[p].late}) <= 1

\* A line comes to its end, unless one of its commands became a shell.
LineFinishes ==
  (phase = "run") ~> (phase = "prompt" \/ [](\E p \in Running : procs[p].word \in Unknown))

\* The commands before i that run decides i by: those of the pipelines joined by
\* || and && before it.  The status is that of the last one that ran.
LastBefore(i) ==
  LET ran == {p \in Mine : procs[p].cmd < i}
  IN  CHOOSE p \in ran : \A q \in ran : q <= p

FirstOfPipeline(i) ==
  CHOOSE k \in 1 .. i :
    /\ k % 2 = 1 /\ ~IsDelim(cmds, k - 1, "|")
    /\ \A j \in k + 1 .. i : j % 2 = 0 => IsDelim(cmds, j, "|")

\* A pipeline behind || runs only if what ran before it failed, and one behind &&
\* only if that succeeded.
RunsLazily(p) ==
  LET k == FirstOfPipeline(procs[p].cmd)
      status == procs[LastBefore(k)].status
  IN  /\ IsDelim(cmds, k - 1, "||") => status # "0"
      /\ IsDelim(cmds, k - 1, "&&") => status = "0"

\* Lazy evaluation, as main.cpp:163 has it.  The code does not keep this: behind
\* a skipped command, the rest of its pipeline runs.
LazyEvaluation == InRun => \A p \in Mine : ~foreign => RunsLazily(p)

\* Lazy evaluation of commands that are no pipelines, in any mixture of || && ;
\* unless wait returned a process of an earlier line.
LazyUnlessPiped ==
  (InRun /\ ~foreign /\ \A i \in DOMAIN cmds : ~IsDelim(cmds, i, "|")) =>
    \A p \in Mine : RunsLazily(p)
=============================================================================
