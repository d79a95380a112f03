----------------------------- MODULE JobControl -----------------------------
(***************************************************************************)
(* Job control, src/lib/job-control.idio: pipelines of child processes,    *)
(* their statuses as waitpid(2) returns them, and the SIGCHLD handler,     *)
(* do-job-notification.                                                    *)
(*                                                                         *)
(* There is one thread, but the VM looks for a recorded signal after every *)
(* instruction and then runs the handler on top of whatever was going on,  *)
(* another run of the handler included.  So the shell is a stack of        *)
(* activations, the top one at the head.  An activation takes a step only  *)
(* when no signal is recorded; the one exception is waitpid, a system call *)
(* inside which the shell may be when its child changes state.             *)
(***************************************************************************)
EXTENDS Integers, Sequences, FiniteSets

CONSTANTS
    Job, Proc,      \* the jobs the program starts and their processes
    NoJob, NoProc,
    Setups          \* the shells and programs to look at, see Setup

(* The processes of each job, in order; the jobs the shell waits for; the  *)
(* collect-output, pipe-into, ... jobs; those started without              *)
(* command/%suppress-rcse; %idio-interactive; and two bounds, how many     *)
(* times a process is stopped and how many activations of the handler      *)
(* there are at once.                                                      *)
Setup == [pipeline : [Job -> Seq(Proc)], foreground : SUBSET Job,
          async : SUBSET Job, raise : SUBSET Job, interactive : BOOLEAN,
          maxStops : Nat, maxDepth : Nat]

ASSUME JobControlAssumption ==
    /\ Setups \subseteq Setup
    /\ \A s \in Setups :
          /\ \A j \in Job : Len(s.pipeline[j]) > 0
          /\ \A i, j \in Job : \A k \in 1 .. Len(s.pipeline[i]) :
                \A l \in 1 .. Len(s.pipeline[j]) :
                    s.pipeline[i][k] = s.pipeline[j][l] => i = j /\ k = l
    /\ NoJob \notin Job /\ NoProc \notin Proc

Status == {"nil", "ok", "failed", "stopped"}
Got == [proc : Proc \cup {NoProc}, status : Status]
PC == {"idle", "fork", "addRead", "addWrite", "reverse", "setProcs",
       "release", "cont",
       "wait", "waitMark", "waitCheck", "waitDone", "waitRaise",
       "update", "updateMark", "list", "walk", "report", "raise"}

(* An activation: where it is, the job it is about, a status it has taken  *)
(* from waitpid, and the lists it is working through.                      *)
Frame == [pc : PC, job : Job \cup {NoJob}, k : Nat, got : Got,
          todo : Seq(Job), keep : Seq(Job), failed : Seq(Job),
          wait : Seq(Job), notify : BOOLEAN]

VARIABLES
    setup,      \* one of Setups
    os,         \* kernel: what each process is doing
    news,       \* kernel: processes with a change waitpid has not reported
    sigchld,    \* idio_vm_signal_record[SIGCHLD]
    stops,      \* history: stops so far
    jobs,       \* %idio-jobs
    started,    \* history: jobs whose first process has been let go
    completed, stopped, status,     \* fields of %idio-process
    told,       \* %idio-job-notify-stopped
    raised,     \* %idio-job-raised
    stack       \* activations, the running one first; empty after exit

Pipeline == setup.pipeline
Interactive == setup.interactive
Foreground == setup.foreground
Procs(j) == {Pipeline[j][i] : i \in 1 .. Len(Pipeline[j])}

kernel == <<os, news, sigchld, stops, setup>>
procState == <<completed, stopped, status>>
vars == <<setup, os, news, sigchld, stops, jobs, started, completed, stopped,
          status, told, raised, stack>>

NoGot == [proc |-> NoProc, status |-> "nil"]
Idle == [pc |-> "idle", job |-> NoJob, k |-> 0, got |-> NoGot, todo |-> << >>,
         keep |-> << >>, failed |-> << >>, wait |-> << >>, notify |-> FALSE]

Init ==
    /\ setup \in Setups
    /\ os = [p \in Proc |-> "none"]
    /\ news = {}
    /\ sigchld = FALSE
    /\ stops = 0
    /\ jobs = << >>
    /\ started = {}
    /\ completed = {} /\ stopped = {}
    /\ status = [p \in Proc |-> "nil"]
    /\ told = {}
    /\ raised = Job \ setup.raise
    /\ stack = <<Idle>>

Listed == {jobs[i] : i \in 1 .. Len(jobs)}
Top == Head(stack)
At(pc) == stack # << >> /\ Top.pc = pc
Ready == ~sigchld \/ Len(stack) > setup.maxDepth
Continue(f) == stack' = <<f>> \o Tail(stack)

-----------------------------------------------------------------------------
(* Children.                                                               *)

Alive(p) == os[p] \in {"blocked", "running", "stopped"}
IsChild(p) == Alive(p) \/ p \in news

Changed(p, s) ==
    /\ os' = [os EXCEPT ![p] = s]
    /\ news' = news \cup {p}
    /\ sigchld' = TRUE
    /\ UNCHANGED <<setup, jobs, started, procState, told, raised, stack>>

ChildExits(p) ==
    /\ stack # << >>
    /\ os[p] = "running"
    /\ \E s \in {"ok", "failed"} : Changed(p, s)
    /\ UNCHANGED stops

ChildStops(p) ==
    /\ stack # << >>
    /\ os[p] = "running"
    /\ stops < setup.maxStops
    /\ stops' = stops + 1
    /\ Changed(p, "stopped")

(* Some other process sends a SIGCONT.                                     *)
ChildContinues(p) ==
    /\ stack # << >>
    /\ os[p] = "stopped"
    /\ os' = [os EXCEPT ![p] = "running"]
    /\ news' = news \ {p}
    /\ sigchld' = TRUE
    /\ UNCHANGED <<setup, stops, jobs, started, procState, told, raised, stack>>

-----------------------------------------------------------------------------
(* %idio-job-procs.  A pipeline builds the list last process first; once   *)
(* reverse! has turned it in place, and until its result is assigned, the  *)
(* job still has what was the first pair, and so the last process only.    *)
Reversed(j) == \E i \in 1 .. Len(stack) : stack[i].pc = "setProcs" /\ stack[i].job = j
Shown(j) == IF Reversed(j) THEN {Pipeline[j][Len(Pipeline[j])]} ELSE Procs(j)

JobIsStopped(j) == \A p \in Shown(j) : p \in completed \cup stopped
JobIsCompleted(j) == \A p \in Shown(j) : p \in completed
JobFailed(j) == JobIsCompleted(j) /\ \E p \in Shown(j) : status[p] = "failed"

(* waitpid WAIT_ANY hands over one change; `f' is the activation after.    *)
Reap(p, f) ==
    /\ p \in news
    /\ news' = news \ {p}
    /\ Continue([f EXCEPT !.got = [proc |-> p, status |-> os[p]]])
    /\ UNCHANGED <<setup, os, sigchld, stops, jobs, started, procState, told, raised>>

(* Faulty variant of mark-process-status: it takes a stop for an exit.     *)
MarkStopAsExit(got) ==
    LET p == got.proc
        known == \E j \in Listed : p \in Shown(j)
    IN /\ status' = IF known THEN [status EXCEPT ![p] = got.status] ELSE status
       /\ completed' = IF known THEN completed \cup {p} ELSE completed
       /\ UNCHANGED stopped

(* mark-process-status.  It is true, which ends the caller's loop, when no *)
(* job has the process: the status goes to %idio-stray-pids.               *)
MarkProcessStatus(got) ==
    LET p == got.proc
        known == \E j \in Listed : p \in Shown(j)
    IN /\ status' = IF known THEN [status EXCEPT ![p] = got.status] ELSE status
       /\ stopped' = IF known /\ got.status = "stopped"
                     THEN stopped \cup {p} ELSE stopped
       /\ completed' = IF known /\ got.status # "stopped"
                       THEN completed \cup {p} ELSE completed

Unknown(got) == \A j \in Listed : got.proc \notin Shown(j)

-----------------------------------------------------------------------------
(* do-job-notification, run by the handler or by the prompt.               *)

Notification(notify) == [Idle EXCEPT !.pc = "update", !.notify = notify]

Interrupt ==
    /\ stack # << >>
    /\ sigchld
    /\ Len(stack) <= setup.maxDepth
    /\ sigchld' = FALSE
    /\ stack' = <<Notification(FALSE)>> \o stack
    /\ UNCHANGED <<setup, os, news, stops, jobs, started, procState, told, raised>>

UpdateStatus(p) ==
    /\ At("update")
    /\ Reap(p, [Top EXCEPT !.pc = "updateMark"])

(* Faulty variant: update-status takes one status and leaves the rest.     *)
UpdateMarkOne ==
    /\ At("updateMark") /\ Ready
    /\ MarkProcessStatus(Top.got)
    /\ Continue([Top EXCEPT !.pc = "list", !.got = NoGot])
    /\ UNCHANGED <<kernel, jobs, started, told, raised>>

UpdateMark ==
    /\ At("updateMark") /\ Ready
    /\ MarkProcessStatus(Top.got)
    /\ Continue([Top EXCEPT !.pc = IF Unknown(Top.got) THEN "list" ELSE "update",
                            !.got = NoGot])
    /\ UNCHANGED <<kernel, jobs, started, told, raised>>

(* Faulty variant: the 0 that waitpid returns is marked like a process.    *)
UpdateMarksZero ==
    /\ At("update")
    /\ news = {}
    /\ completed' = completed \cup {NoProc}
    /\ Continue([Top EXCEPT !.pc = "list"])
    /\ UNCHANGED <<kernel, jobs, started, stopped, status, told, raised>>

UpdateEnds ==
    /\ At("update")
    /\ news = {}
    /\ Continue([Top EXCEPT !.pc = "list"])
    /\ UNCHANGED <<kernel, jobs, started, procState, told, raised>>

(* The list is read here and assigned when all of it has been looked at.   *)
List ==
    /\ At("list") /\ Ready
    /\ Continue([Top EXCEPT !.pc = "walk", !.todo = jobs, !.keep = << >>])
    /\ UNCHANGED <<kernel, jobs, started, procState, told, raised>>

(* Faulty variant: stopped jobs leave the list with the completed ones.    *)
WalkDropsStopped ==
    /\ At("walk") /\ Ready
    /\ Top.todo # << >>
    /\ LET j == Head(Top.todo) IN
          Continue([Top EXCEPT
                !.todo = Tail(@),
                !.keep = IF JobIsStopped(j) THEN @ ELSE Append(@, j),
                !.failed = IF JobFailed(j) THEN <<j>> \o @ ELSE @])
    /\ UNCHANGED <<kernel, jobs, started, procState, told, raised>>

Walk ==
    /\ At("walk") /\ Ready
    /\ Top.todo # << >>
    /\ LET j == Head(Top.todo) IN
          /\ Continue([Top EXCEPT
                !.todo = Tail(@),
                !.keep = IF JobIsCompleted(j) THEN @ ELSE Append(@, j),
                !.failed = IF JobFailed(j) THEN <<j>> \o @ ELSE @])
          /\ told' = IF JobIsStopped(j) /\ ~JobIsCompleted(j)
                     THEN told \cup {j} ELSE told
    /\ UNCHANGED <<kernel, jobs, started, procState, raised>>

WalkEnds ==
    /\ At("walk") /\ Ready
    /\ Top.todo = << >>
    /\ jobs' = Top.keep
    /\ Continue([Top EXCEPT !.pc = "report", !.keep = << >>])
    /\ UNCHANGED <<kernel, started, procState, told, raised>>

(* The test of `raised' and its assignment are two steps.                  *)
Report ==
    /\ At("report") /\ Ready
    /\ Top.failed # << >>
    /\ Continue(IF Head(Top.failed) \in raised
                THEN [Top EXCEPT !.failed = Tail(@)]
                ELSE [Top EXCEPT !.failed = Tail(@), !.job = Head(Top.failed),
                                 !.pc = "raise"])
    /\ UNCHANGED <<kernel, jobs, started, procState, told, raised>>

(* A handler of the condition returns, or ends the program.                *)
Reraise(j, f) ==
    /\ raised' = raised \cup {j}
    /\ Continue(f) \/ stack' = << >>
    /\ UNCHANGED <<kernel, jobs, started, procState, told>>

(* Faulty variant: the failures after the first are forgotten.             *)
RaiseFirstFailed ==
    /\ At("raise") /\ Ready
    /\ Reraise(Top.job, [Top EXCEPT !.job = NoJob, !.pc = "report", !.failed = << >>])

RaiseFailed ==
    /\ At("raise") /\ Ready
    /\ Reraise(Top.job, [Top EXCEPT !.job = NoJob, !.pc = "report"])

(* The handler's activation goes; the program's goes back to its prompt.   *)
NotificationEnds ==
    /\ At("report") /\ Ready
    /\ Top.failed = << >>
    /\ stack' = IF Len(stack) > 1 THEN Tail(stack) ELSE <<Idle>>
    /\ UNCHANGED <<kernel, jobs, started, procState, told, raised>>

-----------------------------------------------------------------------------
(* What the program does next when a command is over: an interactive shell *)
(* notifies before it prompts, and so does `wait'.                         *)

AfterCommand(notify) == IF Interactive \/ notify THEN Notification(TRUE) ELSE Idle

WaitNext(f) ==
    IF f.wait = << >>
    THEN AfterCommand(f.notify)
    ELSE [f EXCEPT !.pc = "wait", !.job = Head(f.wait), !.wait = Tail(@)]

(* wait-for-job.  waitpid blocks while there are children without news.    *)
WaitPid(p) ==
    /\ At("wait")
    /\ Reap(p, [Top EXCEPT !.pc = "waitMark"])

(* Faulty variant: ECHILD is taken for an interrupted call.                *)
NoChildrenRetry ==
    /\ At("wait")
    /\ \A p \in Proc : ~IsChild(p)
    /\ UNCHANGED vars

NoChildren ==
    /\ At("wait")
    /\ \A p \in Proc : ~IsChild(p)
    /\ Continue([Top EXCEPT !.pc = "waitDone"])
    /\ UNCHANGED <<kernel, jobs, started, procState, told, raised>>

WaitMark ==
    /\ At("waitMark") /\ Ready
    /\ MarkProcessStatus(Top.got)
    /\ Continue([Top EXCEPT !.pc = IF Unknown(Top.got) THEN "waitDone" ELSE "waitCheck",
                            !.got = NoGot])
    /\ UNCHANGED <<kernel, jobs, started, told, raised>>

WaitCheck ==
    /\ At("waitCheck") /\ Ready
    /\ Continue([Top EXCEPT !.pc = IF JobIsStopped(Top.job) THEN "waitDone" ELSE "wait"])
    /\ UNCHANGED <<kernel, jobs, started, procState, told, raised>>

WaitDone ==
    /\ At("waitDone") /\ Ready
    /\ Continue(IF JobFailed(Top.job) /\ Top.job \notin raised
                THEN [Top EXCEPT !.pc = "waitRaise"]
                ELSE WaitNext(Top))
    /\ UNCHANGED <<kernel, jobs, started, procState, told, raised>>

WaitRaise ==
    /\ At("waitRaise") /\ Ready
    /\ Reraise(Top.job, WaitNext(Top))

-----------------------------------------------------------------------------
(* Starting a job.  A child reads from the pgrp-pipe, and so waits for the *)
(* parent to close it, when it finds no process group to join: the first   *)
(* of a pipeline, or all of them when the shell makes no process groups.   *)

(* Faulty variant: only the first process waits, in every kind of shell.   *)
BlocksFirst(j, k) == k = 1

Blocks(j, k) == k = 1 \/ ~(Interactive \/ j \in setup.async)

New(j) == \A p \in Procs(j) : os[p] = "none"

Released(j) == [p \in Proc |-> IF p \in Procs(j) /\ os[p] = "blocked"
                               THEN "running" ELSE os[p]]

Launched(j) == WaitNext([Idle EXCEPT !.wait = IF j \in Foreground THEN <<j>> ELSE << >>])

(* idio_job_control_launch_1proc_job: one primitive, the job is listed     *)
(* before the fork.                                                        *)
Launch1(j) ==
    /\ At("idle") /\ Ready
    /\ New(j) /\ Len(Pipeline[j]) = 1
    /\ jobs' = <<j>> \o jobs
    /\ os' = [os EXCEPT ![Pipeline[j][1]] = "running"]
    /\ started' = started \cup {j}
    /\ Continue(Launched(j))
    /\ UNCHANGED <<setup, news, sigchld, stops, procState, told, raised>>

StartPipeline(j) ==
    /\ At("idle") /\ Ready
    /\ New(j) /\ Len(Pipeline[j]) > 1
    /\ Continue([Idle EXCEPT !.pc = "fork", !.job = j, !.k = 1])
    /\ UNCHANGED <<kernel, jobs, started, procState, told, raised>>

Fork ==
    /\ At("fork") /\ Ready
    /\ LET j == Top.job
           k == Top.k
       IN /\ os' = [os EXCEPT ![Pipeline[j][k]] =
                       IF Blocks(j, k) THEN "blocked" ELSE "running"]
          /\ Continue(IF k < Len(Pipeline[j])
                      THEN [Top EXCEPT !.k = k + 1]
                      ELSE [Top EXCEPT !.k = 0, !.pc = "addRead"])
    /\ UNCHANGED <<setup, news, sigchld, stops, jobs, started, procState, told, raised>>

AddRead ==
    /\ At("addRead") /\ Ready
    /\ Continue([Top EXCEPT !.pc = "addWrite", !.keep = jobs])
    /\ UNCHANGED <<kernel, jobs, started, procState, told, raised>>

AddWrite ==
    /\ At("addWrite") /\ Ready
    /\ jobs' = <<Top.job>> \o Top.keep
    /\ Continue([Top EXCEPT !.pc = "reverse", !.keep = << >>])
    /\ UNCHANGED <<kernel, started, procState, told, raised>>

(* The processes are put back in pipeline order, with the job on the list: *)
(* from here to SetProcs the job is Reversed.                              *)
Reverse ==
    /\ At("reverse") /\ Ready
    /\ Continue([Top EXCEPT !.pc = "setProcs"])
    /\ UNCHANGED <<kernel, jobs, started, procState, told, raised>>

SetProcs ==
    /\ At("setProcs") /\ Ready
    /\ Continue([Top EXCEPT !.pc = "release"])
    /\ UNCHANGED <<kernel, jobs, started, procState, told, raised>>

Release ==
    /\ At("release") /\ Ready
    /\ os' = Released(Top.job)
    /\ started' = started \cup {Top.job}
    /\ Continue(Launched(Top.job))
    /\ UNCHANGED <<setup, news, sigchld, stops, jobs, procState, told, raised>>

-----------------------------------------------------------------------------
(* wait, with the outstanding jobs.                                        *)
Wait ==
    /\ At("idle") /\ Ready
    /\ jobs # << >>
    /\ Continue(WaitNext([Idle EXCEPT !.notify = TRUE, !.wait = jobs]))
    /\ UNCHANGED <<kernel, jobs, started, procState, told, raised>>

(* continue-job: the flags are reset before the signal is sent.            *)
MarkJobAsRunning(j) ==
    /\ At("idle") /\ Ready
    /\ Interactive /\ j \in Listed
    /\ stopped' = stopped \ Procs(j)
    /\ told' = told \ {j}
    /\ \E fg \in BOOLEAN :
          Continue([Idle EXCEPT !.pc = "cont", !.job = j,
                                !.wait = IF fg THEN <<j>> ELSE << >>])
    /\ UNCHANGED <<kernel, jobs, started, completed, status, raised>>

(* killpg raises a condition when the whole group is gone.                 *)
SendSIGCONT ==
    /\ At("cont") /\ Ready
    /\ LET group == {p \in Procs(Top.job) : Alive(p)}
           waking == {p \in group : os[p] = "stopped"}
       IN /\ os' = [p \in Proc |-> IF p \in waking THEN "running" ELSE os[p]]
          /\ news' = news \ waking
          /\ Continue(IF \E p \in Procs(Top.job) : IsChild(p)
                      THEN WaitNext(Top)
                      ELSE AfterCommand(FALSE))
          /\ sigchld' = (sigchld \/ waking # {})
    /\ UNCHANGED <<setup, stops, jobs, started, procState, told, raised>>

StopJob(j) ==
    /\ At("idle") /\ Ready
    /\ Interactive /\ j \in Listed
    /\ stops < setup.maxStops
    /\ stops' = stops + 1
    /\ \E p \in Procs(j) : os[p] = "running"
    /\ os' = [p \in Proc |-> IF p \in Procs(j) /\ os[p] = "running"
                             THEN "stopped" ELSE os[p]]
    /\ news' = news \cup {p \in Procs(j) : os[p] = "running"}
    /\ sigchld' = TRUE
    /\ UNCHANGED <<setup, jobs, started, procState, told, raised, stack>>

(* The program ends; its children are no longer looked at.                 *)
Exit ==
    /\ At("idle") /\ Ready
    /\ stack' = << >>
    /\ UNCHANGED <<kernel, jobs, started, procState, told, raised>>

Gone == stack = << >> /\ UNCHANGED vars

-----------------------------------------------------------------------------
Shell ==
    \/ Interrupt
    \/ \E p \in Proc : UpdateStatus(p) \/ WaitPid(p)
    \/ UpdateMark \/ UpdateEnds \/ List \/ Walk \/ WalkEnds
    \/ Report \/ RaiseFailed \/ NotificationEnds
    \/ NoChildren \/ WaitMark \/ WaitCheck \/ WaitDone \/ WaitRaise
    \/ Fork \/ AddRead \/ AddWrite \/ Reverse \/ SetProcs \/ Release \/ SendSIGCONT

Program ==
    \/ \E j \in Job : \/ Launch1(j) \/ StartPipeline(j)
                      \/ MarkJobAsRunning(j) \/ StopJob(j)
    \/ Wait \/ Exit

Children == \E p \in Proc : ChildExits(p) \/ ChildStops(p) \/ ChildContinues(p)

Next == Shell \/ Program \/ Children \/ Gone

Spec == Init /\ [][Next]_vars

(* The VM keeps running and looking for signals, whatever the children do. *)
ShellSpec == Spec /\ WF_vars(Shell)

(* As well, every child comes to its end.                                  *)
FairSpec == ShellSpec /\ \A p \in Proc : WF_vars(ChildExits(p))

-----------------------------------------------------------------------------
Held(p) == \E i \in 1 .. Len(stack) : stack[i].got.proc = p
Quiet == Len(stack) = 1 /\ At("idle") /\ ~sigchld

TypeOK ==
    /\ setup \in Setup
    /\ os \in [Proc -> {"none", "blocked", "running", "stopped", "ok", "failed"}]
    /\ news \subseteq Proc
    /\ sigchld \in BOOLEAN
    /\ stops \in Nat
    /\ jobs \in Seq(Job) /\ started \subseteq Job
    /\ completed \subseteq Proc /\ stopped \subseteq Proc
    /\ status \in [Proc -> Status]
    /\ told \subseteq Job /\ raised \subseteq Job
    /\ stack \in Seq(Frame)

(* No exit is lost: a child that waitpid has reported as gone is marked    *)
(* completed, or some interrupted activation of wait-for-job or            *)
(* update-status still holds its status.  The pipeline template says it    *)
(* updates a job's processes at once because a signal about them may come  *)
(* at any time.                                                            *)
ExitsRecorded ==
    stack # << >> =>
        \A p \in Proc : os[p] \in {"ok", "failed"} =>
            p \in news \/ p \in completed \/ Held(p)

(* No stop is lost: a child that is stopped is marked so, unless the shell *)
(* is about to continue its job (mark-job-as-running precedes the SIGCONT) *)
(* or still has to look at it.                                             *)
StopsRecorded ==
    stack # << >> =>
        \A p \in Proc : os[p] = "stopped" =>
            \/ p \in news \/ p \in stopped \/ Held(p)
            \/ \E i \in 1 .. Len(stack) : /\ stack[i].pc = "cont"
                                          /\ p \in Procs(stack[i].job)

(* One recorded SIGCHLD stands for any number of children: when the        *)
(* program runs undisturbed, update-status has left none of them waiting.  *)
NothingMissed == Quiet => news = {}

(* do-job-notification assigns %idio-jobs from a list it read earlier, and *)
(* another run of it, or a new pipeline, may come between; a job with      *)
(* processes left is on the list all the same, which its documentation     *)
(* says is updated when a job is launched or completes.                    *)
NotForgotten ==
    \A j \in started : j \in Listed \/ Procs(j) \subseteq completed

(* When the shell prompts, the failure of every job that has failed and    *)
(* was to raise a condition has raised it, whichever of wait-for-job and   *)
(* do-job-notification came to know of it.                                 *)
FailureRaised ==
    Quiet /\ Interactive => \A j \in started : JobFailed(j) => j \in raised

(* wait-for-job returns once every child has come to its end: no order of  *)
(* the handler and the blocking waitpid leaves the program waiting.  A     *)
(* child that stays stopped has no end, so it is about setups without.     *)
WaitReturns ==
    \A j \in Job : (At("wait") /\ Top.job = j /\ setup.maxStops = 0)
                       ~> ~(At("wait") /\ Top.job = j)

(* wait-for-job waits for its job to be stopped or completed, and so not   *)
(* for any other.                                                          *)
WaitsForItsJob ==
    \A j \in Job : (At("wait") /\ Top.job = j /\ JobIsStopped(j))
                       ~> ~(At("wait") /\ Top.job = j)
=============================================================================
