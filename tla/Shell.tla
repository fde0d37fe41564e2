-------------------------------- MODULE Shell --------------------------------
(***************************************************************************)
(* runcmd() and main() of the shell (sh.c) and init.c: the processes that  *)
(* run the lines typed, and the files behind their descriptors.  A program *)
(* is a filter: it exits at the end of its standard input.  fork1() finds  *)
(* a slot and pipe() a file (Proc and Ftable have their failures).         *)
(***************************************************************************)
EXTENDS Parser, FiniteSets

CONSTANTS Lines,   \* the lines typed
          NSlot    \* bound on the processes alive at once

Slot == 1 .. NSlot
TheInit == 1         \* the process of init.c
FDs == 0 .. 4

\* What a descriptor names: 0 nothing, 1 the console, 2 a file, and for
\* pipe k, 10 + k its read end and 20 + k its write end.
VARIABLE job
shellVars == job

NoCommand == [type |-> "none"]
NoJob == [st |-> "unused", cmd |-> NoCommand, fds |-> [d \in FDs |-> 0], parent |-> 0, waits |-> 0,
           p |-> <<0, 0>>]
Console3 == [d \in FDs |-> IF d < 3 THEN 1 ELSE 0]

ShellInit == job = [j \in Slot |-> IF j = TheInit THEN [NoJob EXCEPT !.st = "init", !.fds = Console3]
                                   ELSE NoJob]

Lowest(fds) == CHOOSE d \in FDs : fds[d] = 0 /\ \A e \in FDs : e < d => fds[e] # 0
Close(fds, ds) == [d \in FDs |-> IF d \in ds THEN 0 ELSE fds[d]]
Holders(f) == {j \in Slot : \E d \in FDs : job[j].fds[d] = f}
FreePipe(k) == Holders(10 + k) \union Holders(20 + k) = {}

\* fork(): j goes on as me; the child, in state st, has the files me has.
Fork(j, me, st, cmd) ==
  LET c == CHOOSE i \in Slot : job[i].st = "unused" /\ \A k \in 1 .. i - 1 : job[k].st # "unused" IN
  job' = [job EXCEPT ![j] = me,
                     ![c] = [me EXCEPT !.st = st, !.cmd = cmd, !.parent = j, !.waits = 0]]

\* exit(): the files are closed and the children passed to init.
Exit(j) ==
  job' = [i \in Slot |-> IF i = j THEN [NoJob EXCEPT !.st = "zombie", !.parent = job[j].parent]
                         ELSE IF job[i].parent = j THEN [job[i] EXCEPT !.parent = TheInit] ELSE job[i]]

------------------------------------------------------------------------------
\* init.c: fork the shell; p[1] keeps its pid.
init_fork ==
  LET sh == CHOOSE i \in Slot : job[i].st = "unused" /\ \A k \in 1 .. i - 1 : job[k].st # "unused" IN
  /\ job[TheInit].st = "init"
  /\ job' = [job EXCEPT ![TheInit].st = "wait", ![TheInit].p = <<sh, 0>>,
                        ![sh] = [NoJob EXCEPT !.st = "prompt", !.fds = Console3, !.parent = TheInit]]

\* It waits until the shell itself ends, reaping the orphans it is given.
init_wait(c) ==
  /\ job[TheInit].st = "wait" /\ job[c].st = "zombie" /\ job[c].parent = TheInit
  /\ job' = [job EXCEPT ![c] = NoJob, ![TheInit].st = IF c = job[TheInit].p[1] THEN "init" ELSE "wait"]

SlotsLeft == Cardinality({i \in Slot : job[i].st = "unused"}) >= 5     \* bound: what a line may need

\* main(): a line is run by a child, or the input has ended; a "cd " line,
\* which starts no process, is left out.
main(j) ==
  /\ job[j].st = "prompt" /\ SlotsLeft
  /\ \/ \E s \in Lines :
          LET c == parsecmd(s) IN
          Fork(j, [job[j] EXCEPT !.st = "wait", !.waits = 1], IF c.ok THEN "run" ELSE "exit", c.cmd)
     \/ Exit(j)

runcmd_exec(j) ==
  /\ job[j].st = "run" /\ job[j].cmd.type = "EXEC"
  /\ \/ job[j].cmd.argc > 0 /\ job' = [job EXCEPT ![j].st = "program"]
     \/ Exit(j)     \* no program named, or exec() returned

runcmd_redir(j) ==
  LET c == job[j].cmd
      fds == Close(job[j].fds, {c.fd}) IN
  /\ job[j].st = "run" /\ c.type = "REDIR"
  /\ \/ job' = [job EXCEPT ![j].cmd = c.cmd, ![j].fds = [fds EXCEPT ![Lowest(fds)] = 2]]
     \/ Exit(j)     \* open() failed

runcmd_list(j) ==
  LET c == job[j].cmd IN
  /\ job[j].st = "run" /\ c.type = "LIST"
  /\ Fork(j, [job[j] EXCEPT !.st = "wait", !.waits = 1, !.cmd = c.right], "run", c.left)

runcmd_back(j) ==
  LET c == job[j].cmd IN
  /\ job[j].st = "run" /\ c.type = "BACK"
  /\ Fork(j, [job[j] EXCEPT !.st = "exit"], "run", c.cmd)

\* PIPE: pipe(p) and the fork of the left side, then that of the right side.
runcmd_pipe(j) ==
  LET c == job[j].cmd
      k == CHOOSE i \in 1 .. 9 : FreePipe(i) /\ \A n \in 1 .. i - 1 : ~FreePipe(n)
      r == Lowest(job[j].fds)
      fds == [job[j].fds EXCEPT ![r] = 10 + k]
      w == Lowest(fds) IN
  /\ job[j].st = "run" /\ c.type = "PIPE"
  /\ Fork(j, [job[j] EXCEPT !.st = "fork2", !.p = <<r, w>>, !.fds = [fds EXCEPT ![w] = 20 + k]],
          "left", c.left)

runcmd_pipe2(j) ==
  /\ job[j].st = "fork2"
  /\ Fork(j, [job[j] EXCEPT !.st = "close"], "right", job[j].cmd.right)

\* Mutant: the shell waits before it closes the write end.
runcmd_close_Late(j) ==
  LET v == job[j] IN
  /\ v.st = "close"
  /\ job' = [job EXCEPT ![j].st = "wait", ![j].waits = 2, ![j].cmd = NoCommand,
                        ![j].fds = Close(@, {v.p[1]})]

\* The shell closes both ends, then waits for both sides.
runcmd_close(j) ==
  LET v == job[j] IN
  /\ v.st = "close"
  /\ job' = [job EXCEPT ![j].st = "wait", ![j].waits = 2, ![j].cmd = NoCommand,
                        ![j].fds = Close(@, {v.p[1], v.p[2]})]

\* Mutant: the right side keeps the write end of its own input.
runcmd_side_Open(j) ==
  LET v == job[j]
      n == IF v.st = "left" THEN 1 ELSE 0
      fds == Close(v.fds, {n}) IN
  /\ v.st \in {"left", "right"}
  /\ job' = [job EXCEPT ![j].st = "run",
               ![j].fds = Close([fds EXCEPT ![Lowest(fds)] = fds[v.p[2 - (1 - n)]]], {v.p[1]})]

\* A side: close(0 or 1), dup(the end), close both descriptors of the pipe.
runcmd_side(j) ==
  LET v == job[j]
      n == IF v.st = "left" THEN 1 ELSE 0
      fds == Close(v.fds, {n}) IN
  /\ v.st \in {"left", "right"}
  /\ job' = [job EXCEPT ![j].st = "run",
               ![j].fds = Close([fds EXCEPT ![Lowest(fds)] = fds[v.p[n + 1]]], {v.p[1], v.p[2]})]

\* wait(): a child that has ended; then the prompt, the rest of the list, or exit.
runcmd_wait(j, c) ==
  LET v == job[j] IN
  /\ j # TheInit /\ v.st = "wait" /\ job[c].st = "zombie" /\ job[c].parent = j
  /\ job' = [job EXCEPT ![c] = NoJob, ![j].waits = @ - 1,
               ![j].st = IF v.waits > 1 THEN "wait" ELSE IF j = job[TheInit].p[1] THEN "prompt"
                         ELSE IF v.cmd = NoCommand THEN "exit" ELSE "run"]

runcmd_exit(j) == job[j].st = "exit" /\ Exit(j)

\* A filter ends with its input: a pipe, when nobody can write to it.
program(j) ==
  /\ job[j].st = "program"
  /\ job[j].fds[0] > 10 => Holders(job[j].fds[0] + 10) = {}
  /\ Exit(j)

JobStep(j) == \/ runcmd_exec(j) \/ runcmd_redir(j) \/ runcmd_list(j) \/ runcmd_back(j)
              \/ runcmd_pipe(j) \/ runcmd_pipe2(j) \/ runcmd_close(j) \/ runcmd_side(j)
              \/ runcmd_exit(j) \/ program(j) \/ \E c \in Slot : runcmd_wait(j, c)
InitStep == init_fork \/ \E c \in Slot : init_wait(c)
ShellNext == InitStep \/ \E j \in Slot : main(j) \/ JobStep(j)

------------------------------------------------------------------------------
\* A program starts with its input, output and error output open, and has no
\* end of a pipe but the ones it reads from and writes to: a stray write end
\* would keep its reader waiting for ever.
OnlyItsOwnFiles ==
  \A j \in Slot : job[j].st = "program" =>
    /\ \A d \in 0 .. 2 : job[j].fds[d] # 0
    /\ job[j].fds[0] \notin 21 .. 29 /\ job[j].fds[1] \notin 11 .. 19
    /\ \A d \in FDs : d > 1 => job[j].fds[d] <= 1

\* One shell at a time reads the console: init starts another only when the
\* one it started has ended, whatever orphans end before it.
OneShell == /\ Cardinality({j \in Slot : job[j].st = "prompt"}) <= 1
            /\ \A j \in Slot : job[j].st = "prompt" => j = job[TheInit].p[1]

\* The shell comes back to its prompt (or a new one does) after every line,
\* pipelines included: each reader sees the end of its input because every
\* other holder of the write end has closed it.
PromptReturns == (\E j \in Slot : j # TheInit /\ job[j].st = "wait" /\ j = job[TheInit].p[1])
                   ~> \E j \in Slot : job[j].st = "prompt"

\* Each process of a line has its own files and no others, under one shell.
JobsSound == OnlyItsOwnFiles /\ OneShell
==============================================================================
