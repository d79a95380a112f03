-------------------------- MODULE JobControlProofs --------------------------
(***************************************************************************)
(* Proofs about `JobControl', for any jobs, processes and setups: any      *)
(* number of stops and any depth of handlers interrupting handlers.        *)
(***************************************************************************)
EXTENDS JobControl, TLAPS

Among(s) == {s[n] : n \in 1 .. Len(s)}
Frames == 1 .. Len(stack)

Ends == {"ok", "failed"}
Handling == {"update", "updateMark", "list", "walk", "report", "raise"}
Starting == {"fork", "addRead", "addWrite", "reverse", "setProcs", "release"}
AboutJob == Starting \cup {"cont", "wait", "waitMark", "waitCheck", "waitDone",
                           "waitRaise", "raise"}

(* What the activations are: handlers on top of the program; and what the  *)
(* fields of one say.                                                      *)
FrameOK(f) ==
    /\ f.pc \in AboutJob => f.job \in Job
    /\ f.pc = "fork" => /\ f.k \in 1 .. Len(Pipeline[f.job])
                        /\ \A l \in f.k .. Len(Pipeline[f.job]) :
                              os[Pipeline[f.job][l]] = "none"
    /\ IF f.pc \in {"updateMark", "waitMark"}
       THEN f.got.proc \in Proc /\ f.got.status \in Ends \cup {"stopped"}
       ELSE f.got = NoGot
    /\ f.pc \notin {"walk", "report", "raise"} => f.failed = << >>

FramesOK ==
    /\ \A i \in Frames : FrameOK(stack[i])
    /\ \A i \in 1 .. Len(stack) - 1 : stack[i].pc \in Handling

(* An end is reported once: it is in the kernel, in one activation or on   *)
(* the job.                                                                *)
HoldsEnd(i, p) == stack[i].got.proc = p /\ stack[i].got.status \in Ends

OneEnd ==
    /\ \A p \in news : os[p] \in Ends \cup {"stopped"}
    /\ \A p \in completed : os[p] \in Ends /\ p \notin news
    /\ \A i \in Frames : \A p \in Proc : HoldsEnd(i, p) =>
          /\ os[p] \in Ends /\ p \notin news /\ p \notin completed
          /\ \A k \in Frames : HoldsEnd(k, p) => k = i

TInv == TypeOK /\ setup \in Setups /\ FramesOK /\ OneEnd

(* Every child waits for its job to be listed.                             *)
ChildrenWait == \A j \in Job : \A k \in 1 .. Len(Pipeline[j]) : Blocks(j, k)

(* A job is started once, and while it is being started its first process  *)
(* waits, or is still to come.                                             *)
StartingOK(f) ==
    /\ f.job \notin started
    /\ os[Pipeline[f.job][1]] \in {"none", "blocked"}
    /\ ChildrenWait => \A p \in Procs(f.job) : os[p] \in {"none", "blocked"}
    /\ \A l \in 1 .. Len(Pipeline[f.job]) :
          os[Pipeline[f.job][l]] = "none" => f.pc = "fork" /\ l >= f.k

SInv ==
    /\ \A j \in started : \A p \in Procs(j) : os[p] # "none"
    /\ \A i \in Frames : stack[i].pc \in Starting => StartingOK(stack[i])

(* The jobs whose processes are the shell's to look after: those it may    *)
(* take for completed only when all of their processes are.                *)
Owing == IF ChildrenWait THEN {"reverse", "setProcs", "release"} ELSE {"release"}
Owed == started \cup {stack[i].job : i \in {n \in Frames : stack[n].pc \in Owing}}

Completed(j) == \A p \in Procs(j) : p \in completed
Failed(j) == Completed(j) /\ \E p \in Procs(j) : status[p] = "failed"

(* A job is on every list that will be assigned to %idio-jobs, or on none  *)
(* of them, which a job can come to be that was looked at while Reversed.  *)
OnList(f, j) ==
    /\ f.pc = "walk" => j \in Among(f.todo) \cup Among(f.keep)
    /\ f.pc = "addWrite" => j \in Among(f.keep)

OffList(f, j) ==
    /\ f.pc = "walk" => j \notin Among(f.todo) \cup Among(f.keep)
    /\ f.pc = "addWrite" => j \notin Among(f.keep)

OnEveryList(j) == j \in Among(jobs) /\ \A i \in Frames : OnList(stack[i], j)
OnNoList(j) == j \notin Among(jobs) /\ \A i \in Frames : OffList(stack[i], j)

KeptOnLists ==
    \A j \in Owed : Completed(j) \/ OnEveryList(j) \/ (~ChildrenWait /\ OnNoList(j))

(* A failure that has not raised its condition will: an activation has the *)
(* job among its failures, or will come past it.                           *)
WillRaise(f, j) == j \in Among(f.failed) \/ (f.pc \in {"raise", "waitRaise"} /\ f.job = j)

Raising(j) == \E i \in Frames : WillRaise(stack[i], j)

WillLook(f, j) ==
    \/ f.pc \in {"update", "updateMark", "list"}
    \/ f.pc = "walk" /\ j \in Among(f.todo)
    \/ f.pc \notin Handling \cup {"idle"}

LookedAt(j) == \E i \in Frames : WillLook(stack[i], j)

FailuresFound ==
    Interactive /\ stack # << >> =>
        \A j \in Owed : Failed(j) /\ j \notin raised =>
            Raising(j) \/ (OnEveryList(j) /\ LookedAt(j))

RunsWhenStarted ==
    \A p \in Proc : os[p] \notin {"none", "blocked"} => \E j \in started : p \in Procs(j)

(* A change that has not been reported is signalled, or update-status is   *)
(* at its loop and will not leave it.                                      *)
Signalled ==
    stack # << >> /\ news # {} =>
        \/ sigchld
        \/ Top.pc = "update"
        \/ Top.pc = "updateMark" /\ ~Unknown(Top.got)

EndsKept ==
    stack # << >> =>
        \A p \in Proc : os[p] \in Ends =>
            p \in news \/ p \in completed \/ \E i \in Frames : HoldsEnd(i, p)

StopsKept ==
    stack # << >> =>
        \A p \in Proc : os[p] = "stopped" =>
            \/ p \in news \/ p \in stopped \/ Held(p)
            \/ \E i \in Frames : stack[i].pc = "cont" /\ p \in Procs(stack[i].job)

NInv == RunsWhenStarted /\ Signalled /\ EndsKept /\ StopsKept

-----------------------------------------------------------------------------
(* Lists of jobs.                                                          *)
LEMMA AmongFacts ==
    ASSUME NEW s \in Seq(Job), NEW x \in Job
    PROVE  /\ Among(<< >>) = {}
           /\ Among(s) \subseteq Job
           /\ <<x>> \o s \in Seq(Job) /\ Among(<<x>> \o s) = {x} \cup Among(s)
           /\ Append(s, x) \in Seq(Job) /\ Among(Append(s, x)) = Among(s) \cup {x}
           /\ s # << >> => /\ Head(s) \in Job /\ Tail(s) \in Seq(Job)
                          /\ Among(s) = {Head(s)} \cup Among(Tail(s))
<1>1. Among(<<x>> \o s) = {x} \cup Among(s)
  <2>1. \A n \in 1 .. Len(s) : (<<x>> \o s)[n + 1] = s[n] /\ n + 1 \in 1 .. Len(<<x>> \o s)
    OBVIOUS
  <2>2. \A n \in 1 .. Len(<<x>> \o s) : n = 1 \/ (n - 1 \in 1 .. Len(s) /\ (<<x>> \o s)[n] = s[n - 1])
    OBVIOUS
  <2>3. (<<x>> \o s)[1] = x /\ 1 \in 1 .. Len(<<x>> \o s)
    OBVIOUS
  <2> QED BY <2>1, <2>2, <2>3 DEF Among
<1>2. Among(Append(s, x)) = Among(s) \cup {x}
  <2>1. \A n \in 1 .. Len(s) : Append(s, x)[n] = s[n] /\ n \in 1 .. Len(Append(s, x))
    OBVIOUS
  <2>2. \A n \in 1 .. Len(Append(s, x)) :
           \/ n \in 1 .. Len(s) /\ Append(s, x)[n] = s[n]
           \/ Append(s, x)[n] = x
    OBVIOUS
  <2>3. /\ Append(s, x)[Len(s) + 1] = x
        /\ Len(s) + 1 \in 1 .. Len(Append(s, x))
    OBVIOUS
  <2> QED BY <2>1, <2>2, <2>3 DEF Among
<1>3. ASSUME s # << >>
      PROVE  Head(s) \in Job /\ Tail(s) \in Seq(Job) /\ Among(s) = {Head(s)} \cup Among(Tail(s))
  <2>1. \A n \in 1 .. Len(Tail(s)) : Tail(s)[n] = s[n + 1] /\ n + 1 \in 1 .. Len(s)
    BY <1>3
  <2>2. \A n \in 1 .. Len(s) : n = 1 \/ (n - 1 \in 1 .. Len(Tail(s)) /\ Tail(s)[n - 1] = s[n])
    BY <1>3
  <2>3. Head(s) = s[1] /\ 1 \in 1 .. Len(s) /\ Head(s) \in Job /\ Tail(s) \in Seq(Job)
    BY <1>3
  <2>4. Among(s) \subseteq {Head(s)} \cup Among(Tail(s))
    BY <2>2, <2>3 DEF Among
  <2>5. {Head(s)} \cup Among(Tail(s)) \subseteq Among(s)
    BY <2>1, <2>3 DEF Among
  <2> QED BY <2>3, <2>4, <2>5
<1>4. Among(<< >>) = {} /\ Among(s) \subseteq Job
  BY DEF Among
<1> QED BY <1>1, <1>2, <1>3, <1>4

(* The stack after the running activation has gone on, another has started *)
(* on top of it, or it has ended.                                          *)
LEMMA StackFacts ==
    ASSUME stack \in Seq(Frame), stack # << >>, NEW f \in Frame
    PROVE  /\ Top \in Frame /\ Top = stack[1] /\ Len(stack) \in Nat \ {0}
           /\ LET s == <<f>> \o Tail(stack) IN
              /\ s \in Seq(Frame) /\ s # << >> /\ Len(s) = Len(stack) /\ s[1] = f /\ Head(s) = f
              /\ \A i \in 2 .. Len(stack) : s[i] = stack[i]
           /\ LET s == <<f>> \o stack IN
              /\ s \in Seq(Frame) /\ s # << >> /\ Len(s) = Len(stack) + 1 /\ s[1] = f /\ Head(s) = f
              /\ \A i \in 2 .. Len(stack) + 1 : s[i] = stack[i - 1]
           /\ Len(stack) > 1 =>
              /\ Tail(stack) \in Seq(Frame) /\ Tail(stack) # << >>
              /\ Len(Tail(stack)) = Len(stack) - 1 /\ Head(Tail(stack)) = Tail(stack)[1]
              /\ \A i \in 1 .. Len(stack) - 1 : Tail(stack)[i] = stack[i + 1]
           /\ <<f>> \in Seq(Frame) /\ <<f>> # << >> /\ Len(<<f>>) = 1
           /\ <<f>>[1] = f /\ Head(<<f>>) = f
<1>1. Top \in Frame /\ Top = stack[1] /\ Len(stack) \in Nat \ {0}
  BY DEF Top
<1>2. /\ Tail(stack) \in Seq(Frame) /\ Len(Tail(stack)) = Len(stack) - 1
      /\ \A i \in 1 .. Len(stack) - 1 : Tail(stack)[i] = stack[i + 1]
  OBVIOUS
<1>3. LET s == <<f>> \o Tail(stack) IN
      /\ s \in Seq(Frame) /\ s # << >> /\ Len(s) = Len(stack) /\ s[1] = f /\ Head(s) = f
      /\ \A i \in 2 .. Len(stack) : s[i] = stack[i]
  BY <1>1, <1>2
<1>4. LET s == <<f>> \o stack IN
      /\ s \in Seq(Frame) /\ s # << >> /\ Len(s) = Len(stack) + 1 /\ s[1] = f /\ Head(s) = f
      /\ \A i \in 2 .. Len(stack) + 1 : s[i] = stack[i - 1]
  BY <1>1
<1>5. <<f>> \in Seq(Frame) /\ <<f>> # << >> /\ Len(<<f>>) = 1 /\ <<f>>[1] = f /\ Head(<<f>>) = f
  OBVIOUS
<1>6. Len(stack) > 1 => Tail(stack) # << >> /\ Head(Tail(stack)) = Tail(stack)[1]
  <2>1. \A t \in Seq(Frame) : Len(t) > 0 => t # << >> /\ Head(t) = t[1]
    OBVIOUS
  <2>2. Len(stack) > 1 => Len(Tail(stack)) > 0
    BY <1>1, <1>2
  <2> QED BY <1>2, <2>1, <2>2
<1> QED BY <1>1, <1>2, <1>3, <1>4, <1>5, <1>6

(* The activations the program goes on with.                               *)
LEMMA FrameFacts ==
    ASSUME NEW f \in Frame, NEW n \in BOOLEAN
    PROVE  /\ Idle \in Frame /\ Notification(n) \in Frame
           /\ AfterCommand(n) \in Frame
           /\ AfterCommand(n).pc \in {"idle", "update"} /\ AfterCommand(n).got = NoGot
           /\ AfterCommand(n).failed = << >>
           /\ Interactive => AfterCommand(n).pc = "update"
           /\ WaitNext(f) \in Frame
           /\ WaitNext(f).pc \in {"idle", "update", "wait"}
           /\ Interactive => WaitNext(f).pc # "idle"
           /\ WaitNext(f).pc = "wait" => WaitNext(f).job \in Job
           /\ f.got = NoGot => WaitNext(f).got = NoGot
           /\ f.failed = << >> => WaitNext(f).failed = << >>
<1>1. /\ NoGot \in Got /\ NoGot.status = "nil"
  BY DEF Got, NoGot, Status
<1>2. Idle \in Frame /\ Notification(n) \in Frame
  <2>1. << >> \in Seq(Job) /\ 0 \in Nat /\ NoJob \in Job \cup {NoJob}
    OBVIOUS
  <2>2. Idle \in Frame
    BY <1>1, <2>1 DEF Idle, Frame, PC
  <2>3. "update" \in PC
    BY DEF PC
  <2> QED BY <2>2, <2>3 DEF Notification, Frame
<1>3. ASSUME NEW m \in BOOLEAN
      PROVE  /\ AfterCommand(m) \in Frame /\ AfterCommand(m).pc \in {"idle", "update"}
             /\ AfterCommand(m).got = NoGot /\ AfterCommand(m).failed = << >>
             /\ Interactive => AfterCommand(m).pc = "update"
  <2>1. Idle.pc = "idle" /\ Idle.got = NoGot /\ Idle.failed = << >>
    BY DEF Idle
  <2>2. /\ Notification(TRUE).pc = "update" /\ Notification(TRUE).got = NoGot
        /\ Notification(TRUE).failed = << >> /\ Notification(TRUE) \in Frame
    <3>1. "update" \in PC
      BY DEF PC
    <3> QED BY <1>2, <2>1, <3>1 DEF Notification, Idle, Frame
  <2> QED BY <1>2, <2>1, <2>2 DEF AfterCommand
<1>4. ASSUME f.wait # << >>
      PROVE  /\ WaitNext(f) \in Frame /\ WaitNext(f).pc = "wait" /\ WaitNext(f).job \in Job
             /\ WaitNext(f).got = f.got /\ WaitNext(f).failed = f.failed
  <2>1. Head(f.wait) \in Job /\ Tail(f.wait) \in Seq(Job)
    BY <1>4 DEF Frame
  <2> QED BY <1>4, <2>1 DEF WaitNext, Frame, PC
<1>5. ASSUME f.wait = << >>
      PROVE  /\ WaitNext(f) \in Frame /\ WaitNext(f).pc \in {"idle", "update"}
             /\ WaitNext(f).got = NoGot /\ WaitNext(f).failed = << >>
             /\ Interactive => WaitNext(f).pc = "update"
  <2>1. f.notify \in BOOLEAN
    BY DEF Frame
  <2>2. WaitNext(f) = AfterCommand(f.notify)
    BY <1>5 DEF WaitNext
  <2>3. ASSUME NEW m \in BOOLEAN
        PROVE  /\ AfterCommand(m) \in Frame /\ AfterCommand(m).pc \in {"idle", "update"}
               /\ AfterCommand(m).got = NoGot /\ AfterCommand(m).failed = << >>
               /\ Interactive => AfterCommand(m).pc = "update"
    BY <1>3
  <2> QED BY <2>1, <2>2, <2>3
<1> QED BY <1>2, <1>3, <1>4, <1>5
(* Types, part by part: what an activation that goes on must be like.      *)
LEMMA FramesStep ==
    ASSUME TInv, stack # << >>, NEW g \in Frame, Continue(g), setup' = setup,
           Len(stack) = 1 \/ \A p \in Proc : os[p] = "none" => os'[p] = "none",
           FrameOK(g)', g.pc \in Handling \/ Len(stack) = 1
    PROVE  /\ stack' \in Seq(Frame) /\ stack' # << >> /\ Len(stack') = Len(stack)
           /\ stack'[1] = g /\ Top' = g /\ \A i \in 2 .. Len(stack) : stack'[i] = stack[i]
           /\ FramesOK'
<1>1. /\ stack' \in Seq(Frame) /\ stack' # << >> /\ Len(stack') = Len(stack)
      /\ stack'[1] = g /\ Top' = g /\ \A i \in 2 .. Len(stack) : stack'[i] = stack[i]
  BY StackFacts DEF TInv, TypeOK, Continue, Top
<1>2. Len(stack) \in Nat \ {0}
  BY DEF TInv, TypeOK
<1>3. ASSUME NEW i \in 1 .. Len(stack')
      PROVE  FrameOK(stack[i])'
  <2>1. CASE i = 1
    BY <1>1, <2>1 DEF FrameOK
  <2>2. CASE i # 1
    <3>1. i \in 2 .. Len(stack) /\ i \in Frames /\ stack'[i] = stack[i] /\ stack[i] \in Frame
      BY <1>1, <1>2, <2>2 DEF TInv, TypeOK, Frames
    <3>2. FrameOK(stack[i]) /\ Len(stack) # 1
      BY <1>2, <3>1 DEF TInv, FramesOK
    <3>3. ASSUME stack[i].pc = "fork"
          PROVE  \A l \in stack[i].k .. Len(Pipeline[stack[i].job]) :
                    os'[Pipeline[stack[i].job][l]] = "none"
      <4>1. stack[i].job \in Job /\ Pipeline[stack[i].job] \in Seq(Proc)
        BY <3>2, <3>3 DEF FrameOK, AboutJob, Starting, TInv, TypeOK, Setup, Pipeline
      <4>2. stack[i].k \in 1 .. Len(Pipeline[stack[i].job])
        BY <3>2, <3>3 DEF FrameOK
      <4>3. \A l \in stack[i].k .. Len(Pipeline[stack[i].job]) : Pipeline[stack[i].job][l] \in Proc
        BY <4>1, <4>2
      <4> QED BY <3>2, <3>3, <4>3 DEF FrameOK
    <3>4. Pipeline' = Pipeline
      BY DEF Pipeline
    <3> QED BY <3>1, <3>2, <3>3, <3>4 DEF FrameOK
  <2> QED BY <2>1, <2>2
<1>4. ASSUME NEW i \in 1 .. Len(stack') - 1
      PROVE  stack'[i].pc \in Handling
  <2>1. CASE i = 1
    BY <1>1, <1>2, <2>1
  <2>2. CASE i # 1
    BY <1>1, <1>2, <2>2 DEF TInv, FramesOK
  <2> QED BY <2>1, <2>2
<1> QED BY <1>1, <1>3, <1>4 DEF FramesOK, Frames

(* No status changes hands.                                                *)
LEMMA OneEndStep ==
    ASSUME TInv, Len(stack') = Len(stack), \A i \in Frames : stack'[i].got = stack[i].got,
           completed' = completed, news' \subseteq Proc,
           \A q \in Proc : os[q] \in Ends => os'[q] = os[q],
           \A q \in news' : os'[q] \in Ends \cup {"stopped"} /\ (q \in news \/ os[q] \notin Ends)
    PROVE  OneEnd'
<1>1. Frames' = Frames
  BY DEF Frames
<1>2. \A i \in Frames : \A p \in Proc : HoldsEnd(i, p)' <=> HoldsEnd(i, p)
  BY DEF HoldsEnd
<1>3. \A q \in Proc : os[q] \in Ends /\ q \notin news => q \notin news' /\ os'[q] \in Ends
  OBVIOUS
<1>4. completed \subseteq Proc
  BY DEF TInv, TypeOK
<1> QED BY <1>1, <1>2, <1>3, <1>4 DEF TInv, OneEnd
(* The running activation.                                                 *)
LEMMA TopFacts ==
    ASSUME TInv, stack # << >>
    PROVE  /\ Top \in Frame /\ Top = stack[1] /\ Len(stack) \in Nat \ {0} /\ 1 \in Frames
           /\ FrameOK(Top)
           /\ Top.pc \in Handling \/ Len(stack) = 1
<1>1. Top \in Frame /\ Top = stack[1] /\ Len(stack) \in Nat \ {0}
  BY DEF TInv, TypeOK, Top
<1>2. 1 \in Frames /\ FrameOK(stack[1])
  BY <1>1 DEF TInv, FramesOK, Frames
<1>3. Len(stack) # 1 => 1 \in 1 .. Len(stack) - 1
  <2>1. \A n \in Nat \ {0} : n # 1 => 1 \in 1 .. n - 1
    OBVIOUS
  <2> QED BY <1>1, <2>1
<1>4. Len(stack) # 1 => stack[1].pc \in Handling
  BY <1>3 DEF TInv, FramesOK
<1> QED BY <1>1, <1>2, <1>4

(* An activation goes on and only the lists and the histories change.      *)
LEMMA Moves ==
    ASSUME TInv, stack # << >>, NEW g \in Frame, Continue(g), FrameOK(g),
           g.got = Top.got, g.pc \in Handling \/ Len(stack) = 1,
           UNCHANGED <<kernel, procState>>, jobs' \in Seq(Job),
           started' \subseteq Job, told' \subseteq Job, raised' \subseteq Job
    PROVE  TInv'
<1>0. UNCHANGED <<setup, os, news, sigchld, stops, completed, stopped, status>>
  BY DEF kernel, procState
<1>1. FrameOK(g)'
  BY <1>0 DEF FrameOK, Pipeline
<1>2. /\ stack' \in Seq(Frame) /\ Len(stack') = Len(stack)
      /\ stack'[1] = g /\ \A i \in 2 .. Len(stack) : stack'[i] = stack[i]
      /\ FramesOK'
  BY <1>0, <1>1, FramesStep
<1>3. Top = stack[1] /\ Len(stack) \in Nat
  BY TopFacts
<1>4. \A i \in Frames : stack'[i].got = stack[i].got
  BY <1>2, <1>3 DEF Frames
<1>5. OneEnd'
  <2>1. news' \subseteq Proc /\ \A q \in news' : os'[q] \in Ends \cup {"stopped"} /\ q \in news
    BY <1>0 DEF TInv, TypeOK, OneEnd
  <2> QED BY <1>0, <1>2, <1>4, <2>1, OneEndStep
<1> QED BY <1>0, <1>2, <1>5 DEF TInv, TypeOK

(* waitpid's status is taken, and put where the job has it.                *)
LEMMA Reaps ==
    ASSUME TInv, NEW p \in Proc, NEW pc, stack # << >>, Reap(p, [Top EXCEPT !.pc = pc]),
           \/ Top.pc = "update" /\ pc = "updateMark"
           \/ Top.pc = "wait" /\ pc = "waitMark"
    PROVE  TInv'
<1>g. PICK g : g = [[Top EXCEPT !.pc = pc] EXCEPT !.got = [proc |-> p, status |-> os[p]]]
  OBVIOUS
<1>0. /\ p \in news /\ news' = news \ {p} /\ Continue(g)
      /\ UNCHANGED <<setup, os, sigchld, stops, jobs, started, completed, stopped, status, told, raised>>
  BY <1>g DEF Reap, procState
<1>1. Top \in Frame /\ Top = stack[1] /\ Len(stack) \in Nat \ {0}
  BY TopFacts
<1>2. FrameOK(Top) /\ (Top.pc \in Handling \/ Len(stack) = 1)
  BY TopFacts
<1>3. os[p] \in Ends \cup {"stopped"}
  BY <1>0 DEF TInv, OneEnd
<1>4. /\ g \in Frame /\ g.pc = pc /\ g.got = [proc |-> p, status |-> os[p]]
      /\ g.job = Top.job /\ g.failed = Top.failed
  <2>1. [proc |-> p, status |-> os[p]] \in Got
    BY <1>3 DEF Got, Status, Ends
  <2> QED BY <1>g, <1>1, <2>1 DEF Frame, PC
<1>5. FrameOK(g)'
  BY <1>0, <1>2, <1>3, <1>4 DEF FrameOK, AboutJob, Starting, Pipeline
<1>6. g.pc \in Handling \/ Len(stack) = 1
  BY <1>2, <1>4 DEF Handling
<1>7. /\ stack' \in Seq(Frame) /\ Len(stack') = Len(stack)
      /\ stack'[1] = g /\ \A i \in 2 .. Len(stack) : stack'[i] = stack[i]
      /\ FramesOK'
  BY <1>0, <1>4, <1>5, <1>6, FramesStep
<1>8. \A i \in Frames : \A q \in Proc :
         HoldsEnd(i, q)' => IF i = 1 THEN q = p /\ os[p] \in Ends ELSE HoldsEnd(i, q)
  BY <1>1, <1>4, <1>7 DEF HoldsEnd, Frames
<1>9. Frames' = Frames
  BY <1>7 DEF Frames
<1>10. p \notin completed /\ \A i \in Frames : ~HoldsEnd(i, p)
  BY <1>0 DEF TInv, OneEnd
<1>11. OneEnd'
  BY <1>0, <1>8, <1>9, <1>10 DEF TInv, OneEnd
<1> QED BY <1>0, <1>7, <1>11 DEF TInv, TypeOK

LEMMA Marks ==
    ASSUME TInv, stack # << >>, Top.pc \in {"updateMark", "waitMark"},
           MarkProcessStatus(Top.got), UNCHANGED <<kernel, jobs, started, told, raised>>,
           NEW pc, Continue([Top EXCEPT !.pc = pc, !.got = NoGot]),
           \/ Top.pc = "updateMark" /\ pc \in {"update", "list"}
           \/ Top.pc = "waitMark" /\ pc \in {"waitDone", "waitCheck"}
    PROVE  TInv'
<1>g. PICK g : g = [Top EXCEPT !.pc = pc, !.got = NoGot]
  OBVIOUS
<1>0. UNCHANGED <<setup, os, news, sigchld, stops, jobs, started, told, raised>>
  BY DEF kernel
<1>1. Top \in Frame /\ Top = stack[1] /\ Len(stack) \in Nat \ {0}
  BY TopFacts
<1>2. FrameOK(Top) /\ (Top.pc \in Handling \/ Len(stack) = 1)
  BY TopFacts
<1>3. Top.got.proc \in Proc /\ Top.got.status \in Ends \cup {"stopped"}
  BY <1>2 DEF FrameOK
<1>4. /\ g \in Frame /\ g.pc = pc /\ g.got = NoGot
      /\ g.job = Top.job /\ g.failed = Top.failed
  <2>1. NoGot \in Got
    BY DEF NoGot, Got, Status
  <2> QED BY <1>g, <1>1, <2>1 DEF Frame, PC
<1>5. FrameOK(g)'
  BY <1>0, <1>2, <1>4 DEF FrameOK, AboutJob, Starting, Pipeline
<1>6. g.pc \in Handling \/ Len(stack) = 1
  BY <1>2, <1>4 DEF Handling
<1>7. Continue(g)
  BY <1>g
<1>8. /\ stack' \in Seq(Frame) /\ Len(stack') = Len(stack)
      /\ stack'[1] = g /\ \A i \in 2 .. Len(stack) : stack'[i] = stack[i]
      /\ FramesOK'
  BY <1>0, <1>4, <1>5, <1>6, <1>7, FramesStep
<1>9. Frames' = Frames /\ 1 \in Frames
  BY <1>1, <1>8 DEF Frames
<1>10. \A i \in Frames : \A q \in Proc : HoldsEnd(i, q)' => i # 1 /\ HoldsEnd(i, q)
  <2>1. NoGot.proc \notin Proc
    BY JobControlAssumption DEF JobControlAssumption, NoGot
  <2> QED BY <1>1, <1>4, <1>8, <2>1 DEF HoldsEnd, Frames
<1>11. /\ completed' \subseteq completed \cup {q \in Proc : HoldsEnd(1, q)}
       /\ status' \in [Proc -> Status] /\ stopped' \subseteq Proc
  BY <1>1, <1>3 DEF MarkProcessStatus, HoldsEnd, TInv, TypeOK, Status, Ends
<1>12. \A q \in Proc : HoldsEnd(1, q) => /\ os[q] \in Ends /\ q \notin news
                                        /\ \A k \in Frames : HoldsEnd(k, q) => k = 1
  BY <1>9 DEF TInv, OneEnd
<1>13. OneEnd'
  <2>1. \A q \in completed' : os'[q] \in Ends /\ q \notin news'
    BY <1>0, <1>11, <1>12 DEF TInv, OneEnd
  <2>2. \A i \in Frames : \A q \in Proc : HoldsEnd(i, q)' =>
          /\ os'[q] \in Ends /\ q \notin news' /\ q \notin completed'
          /\ \A k \in Frames : HoldsEnd(k, q)' => k = i
    BY <1>0, <1>10, <1>11, <1>12 DEF TInv, OneEnd
  <2> QED BY <1>0, <1>9, <2>1, <2>2 DEF TInv, OneEnd
<1> QED BY <1>0, <1>8, <1>11, <1>13 DEF TInv, TypeOK
(* The program ends.                                                       *)
LEMMA Ending ==
    ASSUME TInv, stack' = << >>, UNCHANGED <<kernel, procState, jobs, started, told>>,
           raised' \subseteq Job
    PROVE  TInv'
<1>1. UNCHANGED <<setup, os, news, sigchld, stops, completed, stopped, status>>
  BY DEF kernel, procState
<1>2. Frames' = {} /\ 1 .. Len(stack') - 1 = {}
  BY DEF Frames
<1> QED BY <1>1, <1>2 DEF TInv, TypeOK, FramesOK, OneEnd

(* The activations that go on with nothing but lists and histories.        *)
LEMMA MovesOn ==
    ASSUME TInv,
           \/ UpdateEnds \/ List \/ Walk \/ WalkEnds \/ Report \/ RaiseFailed
           \/ NoChildren \/ WaitCheck \/ WaitDone \/ WaitRaise \/ AddRead \/ AddWrite
           \/ Reverse \/ SetProcs \/ Wait \/ \E j \in Job : StartPipeline(j)
    PROVE  TInv'
<1>1. /\ stack # << >> /\ Top \in Frame /\ FrameOK(Top)
      /\ Top.pc \in Handling \/ Len(stack) = 1
  <2>1. stack # << >>
    BY DEF UpdateEnds, List, Walk, WalkEnds, Report, RaiseFailed, NoChildren, WaitCheck,
           WaitDone, WaitRaise, AddRead, AddWrite, Reverse, SetProcs, Wait, StartPipeline, At
  <2> QED BY <2>1, TopFacts
<1>2. /\ jobs \in Seq(Job) /\ started \subseteq Job /\ told \subseteq Job /\ raised \subseteq Job
      /\ setup \in Setup
  BY DEF TInv, TypeOK
<1>i. Idle \in Frame /\ Idle.got = NoGot /\ Idle.failed = << >>
  <2>1. Idle \in Frame
    BY <1>1, FrameFacts
  <2> QED BY <2>1 DEF Idle
<1> USE DEF At
<1>3. CASE UpdateEnds
  <2>1. PICK g : g = [Top EXCEPT !.pc = "list"]
    OBVIOUS
  <2>2. g \in Frame /\ FrameOK(g) /\ g.got = Top.got /\ g.pc \in Handling
    BY <1>1, <1>3, <2>1 DEF Frame, PC, FrameOK, AboutJob, Starting, Handling, UpdateEnds
  <2> QED BY <1>1, <1>2, <1>3, <2>1, <2>2, Moves DEF UpdateEnds
<1>4. CASE List
  <2>1. PICK g : g = [Top EXCEPT !.pc = "walk", !.todo = jobs, !.keep = << >>]
    OBVIOUS
  <2>2. g \in Frame /\ FrameOK(g) /\ g.got = Top.got /\ g.pc \in Handling
    BY <1>1, <1>2, <1>4, <2>1 DEF Frame, PC, FrameOK, AboutJob, Starting, Handling, List
  <2> QED BY <1>1, <1>2, <1>4, <2>1, <2>2, Moves DEF List
<1>5. CASE Walk
  <2> DEFINE j == Head(Top.todo)
  <2>1. PICK g : g = [Top EXCEPT
                !.todo = Tail(@),
                !.keep = IF JobIsCompleted(j) THEN @ ELSE Append(@, j),
                !.failed = IF JobFailed(j) THEN <<j>> \o @ ELSE @]
    OBVIOUS
  <2>2. j \in Job /\ Tail(Top.todo) \in Seq(Job)
    BY <1>1, <1>5 DEF Walk, Frame
  <2>3. Append(Top.keep, j) \in Seq(Job) /\ <<j>> \o Top.failed \in Seq(Job)
    BY <1>1, <2>2 DEF Frame
  <2>4. g \in Frame /\ g.got = Top.got /\ g.pc = "walk"
    BY <1>1, <1>5, <2>1, <2>2, <2>3 DEF Frame, Walk
  <2>5. FrameOK(g)
    BY <1>1, <1>5, <2>4 DEF FrameOK, AboutJob, Starting, Walk
  <2>6. told' \subseteq Job /\ Continue(g) /\ UNCHANGED <<kernel, procState, jobs, started, raised>>
    BY <1>2, <1>5, <2>1, <2>2 DEF Walk
  <2> QED BY <1>1, <1>2, <2>4, <2>5, <2>6, Moves DEF Handling
<1>6. CASE WalkEnds
  <2>1. PICK g : g = [Top EXCEPT !.pc = "report", !.keep = << >>]
    OBVIOUS
  <2>2. g \in Frame /\ FrameOK(g) /\ g.got = Top.got /\ g.pc \in Handling /\ Top.keep \in Seq(Job)
    BY <1>1, <1>6, <2>1 DEF Frame, PC, FrameOK, AboutJob, Starting, Handling, WalkEnds
  <2> QED BY <1>1, <1>2, <1>6, <2>1, <2>2, Moves DEF WalkEnds
<1>7. CASE Report
  <2>1. PICK g : g = IF Head(Top.failed) \in raised
                THEN [Top EXCEPT !.failed = Tail(@)]
                ELSE [Top EXCEPT !.failed = Tail(@), !.job = Head(Top.failed),
                                 !.pc = "raise"]
    OBVIOUS
  <2>2. Head(Top.failed) \in Job /\ Tail(Top.failed) \in Seq(Job)
    BY <1>1, <1>7 DEF Report, Frame
  <2>3. g \in Frame /\ g.got = Top.got /\ g.pc \in {"report", "raise"} /\ (g.pc = "raise" => g.job \in Job)
    BY <1>1, <1>7, <2>1, <2>2 DEF Frame, PC, Report
  <2>4. FrameOK(g)
    BY <1>1, <1>7, <2>3 DEF FrameOK, AboutJob, Starting, Report
  <2>5. Continue(g) /\ UNCHANGED <<kernel, procState, jobs, started, told, raised>>
    BY <1>7, <2>1 DEF Report
  <2> QED BY <1>1, <1>2, <2>3, <2>4, <2>5, Moves DEF Handling
<1>8. CASE RaiseFailed
  <2>1. PICK g : g = [Top EXCEPT !.job = NoJob, !.pc = "report"]
    OBVIOUS
  <2>2. g \in Frame /\ g.got = Top.got /\ g.pc = "report"
    BY <1>1, <2>1 DEF Frame, PC
  <2>3. FrameOK(g)
    BY <1>1, <1>8, <2>2 DEF FrameOK, AboutJob, Starting, RaiseFailed
  <2>4. Top.job \in Job
    BY <1>1, <1>8 DEF FrameOK, AboutJob, Starting, RaiseFailed
  <2>5. /\ Continue(g) \/ stack' = << >>
        /\ UNCHANGED <<kernel, procState, jobs, started, told>> /\ raised' \subseteq Job
    BY <1>2, <1>8, <2>1, <2>4 DEF RaiseFailed, Reraise
  <2> QED BY <1>1, <1>2, <2>2, <2>3, <2>5, Moves, Ending DEF Handling
<1>9. CASE NoChildren
  <2>1. PICK g : g = [Top EXCEPT !.pc = "waitDone"]
    OBVIOUS
  <2>2. g \in Frame /\ FrameOK(g) /\ g.got = Top.got /\ Len(stack) = 1
    BY <1>1, <1>9, <2>1 DEF Frame, PC, FrameOK, AboutJob, Starting, Handling, NoChildren
  <2> QED BY <1>1, <1>2, <1>9, <2>1, <2>2, Moves DEF NoChildren
<1>10. CASE WaitCheck
  <2>1. PICK g : g = [Top EXCEPT !.pc = IF JobIsStopped(Top.job) THEN "waitDone" ELSE "wait"]
    OBVIOUS
  <2>2. g \in Frame /\ FrameOK(g) /\ g.got = Top.got /\ Len(stack) = 1
    BY <1>1, <1>10, <2>1 DEF Frame, PC, FrameOK, AboutJob, Starting, Handling, WaitCheck
  <2> QED BY <1>1, <1>2, <1>10, <2>1, <2>2, Moves DEF WaitCheck
<1>11. CASE WaitDone
  <2>1. PICK g : g = IF JobFailed(Top.job) /\ Top.job \notin raised
                     THEN [Top EXCEPT !.pc = "waitRaise"] ELSE WaitNext(Top)
    OBVIOUS
  <2>2. Top.got = NoGot /\ Top.failed = << >> /\ Top.job \in Job /\ Len(stack) = 1
    BY <1>1, <1>11 DEF FrameOK, AboutJob, Starting, Handling, WaitDone
  <2>3. /\ g \in Frame /\ g.got = Top.got /\ g.failed = << >>
        /\ g.pc \in {"waitRaise", "idle", "update", "wait"}
        /\ g.pc \in {"waitRaise", "wait"} => g.job \in Job
    BY <1>1, <2>1, <2>2, FrameFacts DEF Frame, PC
  <2>4. FrameOK(g)
    BY <2>2, <2>3 DEF FrameOK, AboutJob, Starting
  <2> QED BY <1>1, <1>2, <1>11, <2>1, <2>2, <2>3, <2>4, Moves DEF WaitDone
<1>12. CASE WaitRaise
  <2>1. PICK g : g = WaitNext(Top)
    OBVIOUS
  <2>2. Top.got = NoGot /\ Top.failed = << >> /\ Top.job \in Job /\ Len(stack) = 1
    BY <1>1, <1>12 DEF FrameOK, AboutJob, Starting, Handling, WaitRaise
  <2>3. g \in Frame /\ FrameOK(g) /\ g.got = Top.got
    BY <1>1, <2>1, <2>2, FrameFacts DEF FrameOK, AboutJob, Starting
  <2>4. /\ Continue(g) \/ stack' = << >>
        /\ UNCHANGED <<kernel, procState, jobs, started, told>> /\ raised' \subseteq Job
    BY <1>2, <1>12, <2>1, <2>2 DEF WaitRaise, Reraise
  <2> QED BY <1>1, <1>2, <2>2, <2>3, <2>4, Moves, Ending
<1>13. CASE AddRead
  <2>1. PICK g : g = [Top EXCEPT !.pc = "addWrite", !.keep = jobs]
    OBVIOUS
  <2>2. g \in Frame /\ FrameOK(g) /\ g.got = Top.got /\ Len(stack) = 1
    BY <1>1, <1>2, <1>13, <2>1 DEF Frame, PC, FrameOK, AboutJob, Starting, Handling, AddRead
  <2> QED BY <1>1, <1>2, <1>13, <2>1, <2>2, Moves DEF AddRead
<1>14. CASE AddWrite
  <2>1. PICK g : g = [Top EXCEPT !.pc = "reverse", !.keep = << >>]
    OBVIOUS
  <2>2. g \in Frame /\ FrameOK(g) /\ g.got = Top.got /\ Len(stack) = 1
    BY <1>1, <1>2, <1>14, <2>1 DEF Frame, PC, FrameOK, AboutJob, Starting, Handling, AddWrite
  <2>3. <<Top.job>> \o Top.keep \in Seq(Job)
    <3>1. Top.job \in Job /\ Top.keep \in Seq(Job)
      BY <1>1, <1>14 DEF Frame, FrameOK, AboutJob, Starting, AddWrite
    <3> QED BY <3>1
  <2> QED BY <1>1, <1>2, <1>14, <2>1, <2>2, <2>3, Moves DEF AddWrite
<1>r. CASE Reverse
  <2>1. PICK g : g = [Top EXCEPT !.pc = "setProcs"]
    OBVIOUS
  <2>2. g \in Frame /\ FrameOK(g) /\ g.got = Top.got /\ Len(stack) = 1
    BY <1>1, <1>r, <2>1 DEF Frame, PC, FrameOK, AboutJob, Starting, Handling, Reverse
  <2> QED BY <1>1, <1>2, <1>r, <2>1, <2>2, Moves DEF Reverse
<1>p. CASE SetProcs
  <2>1. PICK g : g = [Top EXCEPT !.pc = "release"]
    OBVIOUS
  <2>2. g \in Frame /\ FrameOK(g) /\ g.got = Top.got /\ Len(stack) = 1
    BY <1>1, <1>p, <2>1 DEF Frame, PC, FrameOK, AboutJob, Starting, Handling, SetProcs
  <2> QED BY <1>1, <1>2, <1>p, <2>1, <2>2, Moves DEF SetProcs
<1>15. CASE Wait
  <2>1. PICK f : f = [Idle EXCEPT !.notify = TRUE, !.wait = jobs]
    OBVIOUS
  <2>2. f \in Frame /\ f.got = NoGot /\ f.failed = << >>
    BY <1>i, <1>2, <2>1 DEF Frame
  <2>3. Top.got = NoGot /\ Len(stack) = 1
    BY <1>1, <1>15 DEF FrameOK, Handling, Wait
  <2>4. PICK g : g = WaitNext(f)
    OBVIOUS
  <2>5. g \in Frame /\ FrameOK(g) /\ g.got = Top.got
    BY <2>2, <2>3, <2>4, FrameFacts DEF FrameOK, AboutJob, Starting
  <2> QED BY <1>1, <1>2, <1>15, <2>1, <2>3, <2>4, <2>5, Moves DEF Wait
<1>16. ASSUME NEW j \in Job, StartPipeline(j)
       PROVE  TInv'
  <2>1. PICK g : g = [Idle EXCEPT !.pc = "fork", !.job = j, !.k = 1]
    OBVIOUS
  <2>2. g \in Frame /\ g.pc = "fork" /\ g.job = j /\ g.k = 1 /\ g.got = NoGot /\ g.failed = << >>
    BY <1>i, <2>1 DEF Frame, PC
  <2>3. Top.got = NoGot /\ Len(stack) = 1
    BY <1>1, <1>16 DEF FrameOK, Handling, StartPipeline
  <2>4. Len(Pipeline[j]) \in Nat /\ Len(Pipeline[j]) > 1 /\ \A l \in 1 .. Len(Pipeline[j]) : os[Pipeline[j][l]] = "none"
    <3>1. Pipeline[j] \in Seq(Proc)
      BY <1>2 DEF Setup, Pipeline
    <3>2. \A l \in 1 .. Len(Pipeline[j]) : Pipeline[j][l] \in Procs(j)
      BY DEF Procs
    <3>3. Len(Pipeline[j]) > 1 /\ \A q \in Procs(j) : os[q] = "none"
      BY <1>16 DEF StartPipeline, New
    <3> QED BY <3>1, <3>2, <3>3
  <2>5. FrameOK(g)
    BY <2>2, <2>4 DEF FrameOK, AboutJob, Starting
  <2> QED BY <1>1, <1>2, <1>16, <2>1, <2>2, <2>3, <2>5, Moves DEF StartPipeline
<1> QED BY <1>3, <1>4, <1>5, <1>6, <1>7, <1>8, <1>9, <1>10, <1>11, <1>12, <1>13, <1>14, <1>15, <1>16,
           <1>r, <1>p
(* The activations that start or wake children.                            *)
LEMMA Starts ==
    ASSUME TInv, Fork \/ Release \/ SendSIGCONT \/ \E j \in Job : Launch1(j) \/ MarkJobAsRunning(j)
    PROVE  TInv'
<1>1. /\ stack # << >> /\ Top \in Frame /\ FrameOK(Top) /\ Top = stack[1]
      /\ Len(stack) = 1 /\ Top.got = NoGot /\ Top.failed = << >>
      /\ Top.pc # "idle" => Top.job \in Job
  <2>1. stack # << >> /\ Top.pc \in {"fork", "release", "cont", "idle"}
    BY DEF Fork, Release, SendSIGCONT, Launch1, MarkJobAsRunning, At
  <2> QED BY <2>1, TopFacts DEF FrameOK, Handling, AboutJob, Starting
<1>2. /\ jobs \in Seq(Job) /\ started \subseteq Job /\ told \subseteq Job /\ raised \subseteq Job
      /\ setup \in Setup /\ \A j \in Job : Pipeline[j] \in Seq(Proc)
      /\ os \in [Proc -> {"none", "blocked", "running", "stopped", "ok", "failed"}]
  BY DEF TInv, TypeOK, Setup, Pipeline
<1>i. /\ Idle \in Frame /\ Idle.got = NoGot /\ Idle.failed = << >> /\ Idle.pc = "idle"
  <2>1. Idle \in Frame
    BY <1>1, FrameFacts
  <2> QED BY <2>1 DEF Idle
<1>n. ASSUME NEW f \in Frame, f.got = NoGot, f.failed = << >>
      PROVE  /\ WaitNext(f) \in Frame /\ WaitNext(f).got = NoGot
             /\ FrameOK(WaitNext(f)) /\ WaitNext(f).pc \in {"idle", "update", "wait"}
  <2>1. /\ WaitNext(f) \in Frame /\ WaitNext(f).got = NoGot /\ WaitNext(f).failed = << >>
        /\ WaitNext(f).pc \in {"idle", "update", "wait"}
        /\ WaitNext(f).pc = "wait" => WaitNext(f).job \in Job
    BY <1>n, FrameFacts
  <2> QED BY <2>1 DEF FrameOK, AboutJob, Starting
<1>l. ASSUME NEW j \in Job
      PROVE  /\ Launched(j) \in Frame /\ Launched(j).got = NoGot
             /\ FrameOK(Launched(j)) /\ Launched(j).pc \in {"idle", "update", "wait"}
  <2>1. PICK f : f = [Idle EXCEPT !.wait = IF j \in Foreground THEN <<j>> ELSE << >>]
    OBVIOUS
  <2>2. f \in Frame /\ f.got = NoGot /\ f.failed = << >>
    <3>1. (IF j \in Foreground THEN <<j>> ELSE << >>) \in Seq(Job)
      OBVIOUS
    <3> QED BY <1>i, <2>1, <3>1 DEF Frame
  <2> QED BY <1>n, <2>1, <2>2 DEF Launched
(* The running activation is the only one.                                 *)
<1>s. ASSUME NEW g \in Frame, Continue(g), setup' = setup, g.got = NoGot, FrameOK(g)',
             completed' = completed, news' \subseteq Proc,
             \A q \in Proc : os[q] \in Ends => os'[q] = os[q],
             \A q \in news' : q \in news /\ os'[q] = os[q]
      PROVE  stack' \in Seq(Frame) /\ FramesOK' /\ OneEnd'
  <2>1. /\ stack' \in Seq(Frame) /\ Len(stack') = Len(stack) /\ stack'[1] = g /\ FramesOK'
    BY <1>1, <1>s, FramesStep
  <2>2. \A i \in Frames : stack'[i].got = stack[i].got
    BY <1>1, <1>s, <2>1 DEF Frames
  <2>3. \A q \in news' : os'[q] \in Ends \cup {"stopped"} /\ q \in news
    BY <1>s DEF TInv, OneEnd
  <2>4. OneEnd'
    BY <1>s, <2>1, <2>2, <2>3, OneEndStep
  <2> QED BY <2>1, <2>4
<1>5. ASSUME NEW g \in Frame, g.pc # "fork", FrameOK(g), setup' = setup
      PROVE  FrameOK(g)'
  BY <1>5 DEF FrameOK, Pipeline
<1> USE DEF At
<1>6. CASE Fork
  <2>1. PICK j \in Job : j = Top.job
    BY <1>1, <1>6 DEF Fork
  <2>2. PICK k : k = Top.k
    OBVIOUS
  <2>3. PICK g : g = IF k < Len(Pipeline[j]) THEN [Top EXCEPT !.k = k + 1]
                     ELSE [Top EXCEPT !.k = 0, !.pc = "addRead"]
    OBVIOUS
  <2>4. /\ k \in 1 .. Len(Pipeline[j]) /\ Len(Pipeline[j]) \in Nat
        /\ \A l \in k .. Len(Pipeline[j]) : os[Pipeline[j][l]] = "none"
    BY <1>1, <1>2, <1>6, <2>1, <2>2 DEF Fork, FrameOK
  <2>5. \A l \in 1 .. Len(Pipeline[j]) : Pipeline[j][l] \in Proc
    BY <1>2
  <2>6. Continue(g) /\ UNCHANGED <<setup, news, sigchld, stops, jobs, started, procState, told, raised>>
    BY <1>6, <2>1, <2>2, <2>3 DEF Fork
  <2>7. \E s \in {"blocked", "running"} : os' = [os EXCEPT ![Pipeline[j][k]] = s]
    BY <1>6, <2>1, <2>2 DEF Fork
  <2>8. /\ \A q \in Proc : q # Pipeline[j][k] => os'[q] = os[q]
        /\ os' \in [Proc -> {"none", "blocked", "running", "stopped", "ok", "failed"}]
        /\ os[Pipeline[j][k]] = "none"
    BY <1>2, <2>4, <2>5, <2>7
  <2>9. g \in Frame /\ g.got = NoGot /\ g.failed = << >> /\ g.job = j
        /\ g.pc = (IF k < Len(Pipeline[j]) THEN "fork" ELSE "addRead")
        /\ (g.pc = "fork" => g.k = k + 1)
    <3>1. k + 1 \in Nat /\ 0 \in Nat
      BY <2>4
    <3>2. CASE k < Len(Pipeline[j])
      BY <1>1, <1>6, <2>1, <2>3, <3>1, <3>2 DEF Frame, PC, Fork
    <3>3. CASE ~ (k < Len(Pipeline[j]))
      BY <1>1, <1>6, <2>1, <2>3, <3>1, <3>3 DEF Frame, PC, Fork
    <3> QED BY <3>2, <3>3
  <2>10. \A l \in k + 1 .. Len(Pipeline[j]) : Pipeline[j][l] # Pipeline[j][k]
    <3>1. \A l, m \in 1 .. Len(Pipeline[j]) : Pipeline[j][l] = Pipeline[j][m] => l = m
      BY JobControlAssumption DEF JobControlAssumption, Pipeline, TInv
    <3> QED BY <2>4, <3>1
  <2>11. FrameOK(g)'
    <3>1. Pipeline' = Pipeline
      BY <2>6 DEF Pipeline
    <3> QED BY <2>4, <2>5, <2>8, <2>9, <2>10, <3>1 DEF FrameOK, AboutJob, Starting
  <2>12. stack' \in Seq(Frame) /\ FramesOK' /\ OneEnd'
    <3>1. \A q \in news : os[q] # "none"
      BY DEF TInv, OneEnd, Ends
    <3>2. news \subseteq Proc
      BY DEF TInv, TypeOK
    <3> QED BY <1>s, <2>6, <2>8, <2>9, <2>11, <3>1, <3>2 DEF procState, Ends
  <2> QED BY <2>6, <2>8, <2>12 DEF TInv, TypeOK, procState
<1>7. CASE Release
  <2>1. PICK j \in Job : j = Top.job
    BY <1>1, <1>7 DEF Release
  <2>2. PICK g : g = Launched(j)
    OBVIOUS
  <2>3. g \in Frame /\ g.got = NoGot /\ FrameOK(g)'
    BY <1>l, <1>5, <1>7, <2>2 DEF Release
  <2>4. /\ Continue(g) /\ os' = Released(j) /\ started' = started \cup {j}
        /\ UNCHANGED <<setup, news, sigchld, stops, jobs, completed, stopped, status, told, raised>>
    BY <1>7, <2>1, <2>2 DEF Release, procState
  <2>5. /\ os' \in [Proc -> {"none", "blocked", "running", "stopped", "ok", "failed"}]
        /\ \A q \in Proc : os[q] # "blocked" => os'[q] = os[q]
    BY <1>2, <2>4 DEF Released
  <2>6. \A q \in news : os[q] # "blocked" /\ q \in Proc
    BY DEF TInv, TypeOK, OneEnd, Ends
  <2>7. stack' \in Seq(Frame) /\ FramesOK' /\ OneEnd'
    BY <1>s, <2>3, <2>4, <2>5, <2>6 DEF Ends
  <2> QED BY <2>4, <2>5, <2>7 DEF TInv, TypeOK
<1>8. CASE SendSIGCONT
  <2>1. PICK g : g = IF \E p \in Procs(Top.job) : IsChild(p) THEN WaitNext(Top) ELSE AfterCommand(FALSE)
    OBVIOUS
  <2>2. g \in Frame /\ g.got = NoGot /\ FrameOK(g) /\ g.pc # "fork"
    <3>1. /\ AfterCommand(FALSE) \in Frame /\ AfterCommand(FALSE).got = NoGot
          /\ AfterCommand(FALSE).pc \in {"idle", "update"} /\ AfterCommand(FALSE).failed = << >>
      BY <1>1, FrameFacts
    <3>2. FrameOK(AfterCommand(FALSE))
      BY <3>1 DEF FrameOK, AboutJob, Starting
    <3> QED BY <1>1, <1>n, <2>1, <3>1, <3>2
  <2> DEFINE waking == {p \in Procs(Top.job) : Alive(p) /\ os[p] = "stopped"}
  <2>3. /\ Continue(g) /\ UNCHANGED <<setup, stops, jobs, started, completed, stopped, status, told, raised>>
        /\ sigchld' \in BOOLEAN
        /\ os' = [p \in Proc |-> IF p \in waking THEN "running" ELSE os[p]]
        /\ news' = news \ waking
    BY <1>8, <2>1 DEF SendSIGCONT, procState, TInv, TypeOK
  <2>4. /\ os' \in [Proc -> {"none", "blocked", "running", "stopped", "ok", "failed"}]
        /\ \A q \in Proc : os[q] # "stopped" => os'[q] = os[q]
        /\ \A q \in news' : q \in news /\ q \in Proc /\ os'[q] = os[q]
    BY <1>2, <2>3 DEF TInv, TypeOK
  <2> HIDE DEF waking
  <2>5. FrameOK(g)'
    BY <1>5, <2>2, <2>3
  <2>6. stack' \in Seq(Frame) /\ FramesOK' /\ OneEnd'
    BY <1>s, <2>2, <2>3, <2>4, <2>5 DEF Ends
  <2> QED BY <2>3, <2>4, <2>6 DEF TInv, TypeOK
<1>9. ASSUME NEW j \in Job, Launch1(j)
      PROVE  TInv'
  <2>1. PICK g : g = Launched(j)
    OBVIOUS
  <2>2. g \in Frame /\ g.got = NoGot /\ FrameOK(g)'
    BY <1>l, <1>5, <1>9, <2>1 DEF Launch1
  <2>3. PICK q \in Proc : q = Pipeline[j][1] /\ os[q] = "none"
    <3>1. Pipeline[j][1] \in Proc /\ Pipeline[j][1] \in Procs(j)
      BY <1>2, <1>9 DEF Launch1, Procs
    <3> QED BY <1>9, <3>1 DEF Launch1, New
  <2>4. /\ Continue(g) /\ os' = [os EXCEPT ![q] = "running"] /\ started' = started \cup {j}
        /\ jobs' = <<j>> \o jobs
        /\ UNCHANGED <<setup, news, sigchld, stops, completed, stopped, status, told, raised>>
    BY <1>9, <2>1, <2>3 DEF Launch1, procState
  <2>5. /\ os' \in [Proc -> {"none", "blocked", "running", "stopped", "ok", "failed"}]
        /\ \A p \in Proc : os[p] # "none" => os'[p] = os[p]
        /\ jobs' \in Seq(Job)
    BY <1>2, <2>3, <2>4
  <2>6. \A p \in news : os[p] # "none" /\ p \in Proc
    BY DEF TInv, TypeOK, OneEnd, Ends
  <2>7. stack' \in Seq(Frame) /\ FramesOK' /\ OneEnd'
    BY <1>s, <2>2, <2>4, <2>5, <2>6 DEF Ends
  <2> QED BY <2>4, <2>5, <2>7 DEF TInv, TypeOK
<1>10. ASSUME NEW j \in Job, MarkJobAsRunning(j)
       PROVE  TInv'
  <2>1. PICK fg \in BOOLEAN :
           Continue([Idle EXCEPT !.pc = "cont", !.job = j, !.wait = IF fg THEN <<j>> ELSE << >>])
    BY <1>10 DEF MarkJobAsRunning
  <2>2. PICK g : g = [Idle EXCEPT !.pc = "cont", !.job = j, !.wait = IF fg THEN <<j>> ELSE << >>]
    OBVIOUS
  <2>3. g \in Frame /\ g.got = NoGot /\ g.failed = << >> /\ g.pc = "cont" /\ g.job = j
    <3>1. (IF fg THEN <<j>> ELSE << >>) \in Seq(Job)
      OBVIOUS
    <3> QED BY <1>i, <2>2, <3>1 DEF Frame, PC
  <2>4. FrameOK(g)
    BY <2>3 DEF FrameOK, AboutJob, Starting
  <2>5. /\ Continue(g) /\ stopped' \subseteq Proc /\ told' \subseteq Job
        /\ UNCHANGED <<setup, os, news, sigchld, stops, jobs, started, completed, status, raised>>
    BY <1>10, <2>1, <2>2 DEF MarkJobAsRunning, kernel, TInv, TypeOK
  <2>6. news \subseteq Proc
    BY DEF TInv, TypeOK
  <2>7. stack' \in Seq(Frame) /\ FramesOK' /\ OneEnd'
    BY <1>s, <1>5, <2>3, <2>4, <2>5, <2>6
  <2> QED BY <2>5, <2>7 DEF TInv, TypeOK
<1> QED BY <1>6, <1>7, <1>8, <1>9, <1>10
(* A handler starts on top of whatever is running, or ends.                *)
LEMMA Nests ==
    ASSUME TInv, Interrupt \/ NotificationEnds
    PROVE  TInv'
<1>1. /\ stack # << >> /\ Top \in Frame /\ FrameOK(Top) /\ Top = stack[1] /\ Len(stack) \in Nat \ {0}
      /\ stack \in Seq(Frame)
  <2>1. stack # << >>
    BY DEF Interrupt, NotificationEnds, At
  <2> QED BY <2>1, TopFacts DEF TInv, TypeOK
<1>2. /\ Notification(FALSE) \in Frame /\ Idle \in Frame
      /\ Notification(FALSE).pc = "update" /\ Notification(FALSE).got = NoGot
      /\ Notification(FALSE).failed = << >>
      /\ Idle.pc = "idle" /\ Idle.got = NoGot /\ Idle.failed = << >>
  <2>1. Notification(FALSE) \in Frame /\ Idle \in Frame
    BY <1>1, FrameFacts
  <2> QED BY <2>1 DEF Notification, Idle, Frame
<1>3. NoGot.proc \notin Proc
  BY JobControlAssumption DEF JobControlAssumption, NoGot
<1>4. ASSUME UNCHANGED <<setup, os>>, NEW f, FrameOK(f)
      PROVE  FrameOK(f)'
  BY <1>4 DEF FrameOK, Pipeline
<1>5. CASE Interrupt
  <2>1. /\ stack' = <<Notification(FALSE)>> \o stack /\ sigchld' = FALSE
        /\ UNCHANGED <<setup, os, news, stops, jobs, started, completed, stopped, status, told, raised>>
    BY <1>5 DEF Interrupt, procState
  <2>2. /\ stack' \in Seq(Frame) /\ Len(stack') = Len(stack) + 1
        /\ stack'[1] = Notification(FALSE)
        /\ \A i \in 2 .. Len(stack) + 1 : stack'[i] = stack[i - 1]
    BY <1>1, <1>2, <2>1, StackFacts
  <2>3. \A i \in Frames' : i = 1 \/ (i - 1 \in Frames /\ stack'[i] = stack[i - 1])
    BY <1>1, <2>2 DEF Frames
  <2>4. FramesOK'
    <3>1. ASSUME NEW i \in Frames'
          PROVE  FrameOK(stack[i])'
      <4>1. CASE i = 1
        BY <1>2, <2>2, <4>1 DEF FrameOK, AboutJob, Starting
      <4>2. CASE i # 1
        <5>1. i - 1 \in Frames /\ stack'[i] = stack[i - 1]
          BY <2>3, <4>2
        <5>2. PICK f : f = stack[i - 1]
          OBVIOUS
        <5>3. FrameOK(f)
          BY <5>1, <5>2 DEF TInv, FramesOK
        <5>4. FrameOK(f)'
          BY <1>4, <2>1, <5>3
        <5> QED BY <5>1, <5>2, <5>4 DEF FrameOK
      <4> QED BY <4>1, <4>2
    <3>2. ASSUME NEW i \in 1 .. Len(stack') - 1
          PROVE  stack'[i].pc \in Handling
      <4>1. CASE i = 1
        BY <1>2, <2>2, <4>1 DEF Handling
      <4>2. CASE i # 1
        <5>1. i - 1 \in 1 .. Len(stack) - 1 /\ stack'[i] = stack[i - 1]
          BY <1>1, <2>2, <4>2
        <5> QED BY <5>1 DEF TInv, FramesOK
      <4> QED BY <4>1, <4>2
    <3> QED BY <3>1, <3>2 DEF FramesOK
  <2>5. \A i \in Frames' : \A q \in Proc : HoldsEnd(i, q)' => i # 1 /\ HoldsEnd(i - 1, q)
    BY <1>2, <1>3, <2>2, <2>3 DEF HoldsEnd
  <2>6. OneEnd'
    <3>1. ASSUME NEW i \in Frames', NEW q \in Proc, HoldsEnd(i, q)',
                 NEW k \in Frames', HoldsEnd(k, q)'
          PROVE  k = i
      <4>1. i - 1 \in Frames /\ k - 1 \in Frames /\ HoldsEnd(i - 1, q) /\ HoldsEnd(k - 1, q)
        BY <2>3, <2>5, <3>1
      <4>2. k - 1 = i - 1
        BY <4>1 DEF TInv, OneEnd
      <4>3. k \in Nat /\ i \in Nat
        BY DEF Frames
      <4> QED BY <4>2, <4>3
    <3>2. ASSUME NEW i \in Frames', NEW q \in Proc, HoldsEnd(i, q)'
          PROVE  os[q] \in Ends /\ q \notin news /\ q \notin completed
      BY <2>3, <2>5, <3>2 DEF TInv, OneEnd
    <3> QED BY <2>1, <3>1, <3>2 DEF TInv, OneEnd
  <2> QED BY <2>1, <2>2, <2>4, <2>6 DEF TInv, TypeOK
<1>6. CASE NotificationEnds
  <2>1. /\ UNCHANGED <<kernel, procState, jobs, started, told, raised>>
        /\ Top.pc = "report" /\ Top.got = NoGot
        /\ stack' = IF Len(stack) > 1 THEN Tail(stack) ELSE <<Idle>>
    BY <1>1, <1>6 DEF NotificationEnds, At, FrameOK
  <2>2. UNCHANGED <<setup, os, news, sigchld, stops, jobs, started, completed, stopped, status, told, raised>>
    BY <2>1 DEF kernel, procState
  <2>3. CASE Len(stack) = 1
    <3>1. /\ stack' \in Seq(Frame) /\ Len(stack') = 1 /\ stack'[1] = Idle
      BY <1>1, <1>2, <2>1, <2>3, StackFacts
    <3>2. Frames' = {1} /\ Frames = {1}
      BY <2>3, <3>1 DEF Frames
    <3>3. FramesOK'
      <4>1. FrameOK(stack[1])'
        BY <1>2, <3>1 DEF FrameOK, AboutJob, Starting
      <4> QED BY <3>1, <3>2, <4>1 DEF FramesOK
    <3>4. \A i \in Frames' : \A q \in Proc : ~HoldsEnd(i, q)'
      BY <1>2, <1>3, <3>1, <3>2 DEF HoldsEnd
    <3>5. OneEnd'
      BY <2>2, <3>4 DEF TInv, OneEnd
    <3> QED BY <2>2, <3>1, <3>3, <3>5 DEF TInv, TypeOK
  <2>4. CASE Len(stack) # 1
    <3>1. /\ stack' \in Seq(Frame) /\ Len(stack') = Len(stack) - 1
          /\ \A i \in 1 .. Len(stack) - 1 : stack'[i] = stack[i + 1]
      BY <1>1, <2>1, <2>4, StackFacts
    <3>2. \A i \in Frames' : i + 1 \in Frames /\ stack'[i] = stack[i + 1]
      BY <1>1, <3>1 DEF Frames
    <3>3. FramesOK'
      <4>1. ASSUME NEW i \in Frames'
            PROVE  FrameOK(stack[i])'
        <5>1. PICK f : f = stack[i + 1]
          OBVIOUS
        <5>2. FrameOK(f)
          BY <3>2, <5>1 DEF TInv, FramesOK
        <5>3. FrameOK(f)'
          BY <1>4, <2>2, <5>2
        <5> QED BY <3>2, <5>1, <5>3 DEF FrameOK
      <4>2. ASSUME NEW i \in 1 .. Len(stack') - 1
            PROVE  stack'[i].pc \in Handling
        <5>1. i + 1 \in 1 .. Len(stack) - 1 /\ stack'[i] = stack[i + 1]
          BY <1>1, <3>1
        <5> QED BY <5>1 DEF TInv, FramesOK
      <4> QED BY <4>1, <4>2 DEF FramesOK
    <3>4. \A i \in Frames' : \A q \in Proc : HoldsEnd(i, q)' => HoldsEnd(i + 1, q)
      BY <3>2 DEF HoldsEnd
    <3>5. OneEnd'
      <4>1. ASSUME NEW i \in Frames', NEW q \in Proc, HoldsEnd(i, q)',
                   NEW k \in Frames', HoldsEnd(k, q)'
            PROVE  k = i
        <5>1. i + 1 \in Frames /\ k + 1 \in Frames /\ HoldsEnd(i + 1, q) /\ HoldsEnd(k + 1, q)
          BY <3>2, <3>4, <4>1
        <5>2. k + 1 = i + 1
          BY <5>1 DEF TInv, OneEnd
        <5>3. k \in Nat /\ i \in Nat
          BY DEF Frames
        <5> QED BY <5>2, <5>3
      <4>2. ASSUME NEW i \in Frames', NEW q \in Proc, HoldsEnd(i, q)'
            PROVE  os[q] \in Ends /\ q \notin news /\ q \notin completed
        BY <3>2, <3>4, <4>2 DEF TInv, OneEnd
      <4> QED BY <2>2, <4>1, <4>2 DEF TInv, OneEnd
    <3> QED BY <2>2, <3>1, <3>3, <3>5 DEF TInv, TypeOK
  <2> QED BY <2>3, <2>4
<1> QED BY <1>5, <1>6

(* The children, and the user who stops them.                              *)
LEMMA Kernel ==
    ASSUME TInv, UNCHANGED <<setup, jobs, started, procState, told, raised, stack>>,
           os' \in [Proc -> {"none", "blocked", "running", "stopped", "ok", "failed"}],
           \A q \in Proc : os[q] \in Ends \cup {"none"} => os'[q] = os[q],
           \A q \in news' : /\ q \in Proc /\ os'[q] \in Ends \cup {"stopped"}
                            /\ q \in news \/ os[q] \notin Ends,
           sigchld' \in BOOLEAN, stops' \in Nat
    PROVE  TInv'
<1>1. UNCHANGED <<completed, stopped, status>> /\ news' \subseteq Proc
  BY DEF procState
<1>2. OneEnd'
  BY <1>1, OneEndStep
<1>3. FramesOK'
  <2>1. ASSUME NEW i \in Frames
        PROVE  FrameOK(stack[i])'
    <3>1. FrameOK(stack[i]) /\ stack[i] \in Frame
      BY DEF TInv, TypeOK, FramesOK, Frames
    <3>2. ASSUME stack[i].pc = "fork"
          PROVE  \A l \in stack[i].k .. Len(Pipeline[stack[i].job]) :
                    os'[Pipeline[stack[i].job][l]] = "none"
      <4>1. stack[i].job \in Job /\ Pipeline[stack[i].job] \in Seq(Proc)
        BY <3>1, <3>2 DEF FrameOK, AboutJob, Starting, TInv, TypeOK, Setup, Pipeline
      <4>2. stack[i].k \in 1 .. Len(Pipeline[stack[i].job])
        BY <3>1, <3>2 DEF FrameOK
      <4>3. \A l \in stack[i].k .. Len(Pipeline[stack[i].job]) : Pipeline[stack[i].job][l] \in Proc
        BY <4>1, <4>2
      <4> QED BY <3>1, <3>2, <4>3 DEF FrameOK
    <3> QED BY <3>1, <3>2 DEF FrameOK, Pipeline
  <2> QED BY <2>1 DEF TInv, FramesOK, Frames
<1> QED BY <1>1, <1>2, <1>3 DEF TInv, TypeOK
(* Types, the shape of the stack and where a status may be are kept by     *)
(* every step.                                                             *)
LEMMA Typed == Spec => []TInv
<1>1. Init => TInv
  <2> SUFFICES ASSUME Init PROVE TInv
    OBVIOUS
  <2>1. Idle \in Frame /\ FrameOK(Idle) /\ Idle.got = NoGot
    <3>1. NoGot \in Got
      BY DEF NoGot, Got, Status
    <3>2. << >> \in Seq(Job) /\ 0 \in Nat /\ NoJob \in Job \cup {NoJob} /\ "idle" \in PC
      BY DEF PC
    <3> QED BY <3>1, <3>2 DEF Idle, Frame, FrameOK, AboutJob, Starting
  <2>2. stack \in Seq(Frame) /\ Len(stack) = 1 /\ stack[1] = Idle
    BY <2>1 DEF Init
  <2>3. Frames = {1} /\ 1 .. Len(stack) - 1 = {}
    BY <2>2 DEF Frames
  <2>4. FramesOK
    BY <2>1, <2>2, <2>3 DEF FramesOK
  <2>5. OneEnd
    <3>1. NoGot.proc \notin Proc
      BY JobControlAssumption DEF JobControlAssumption, NoGot
    <3> QED BY <2>1, <2>2, <2>3, <3>1 DEF OneEnd, HoldsEnd, Init
  <2>6. TypeOK
    <3>1. setup \in Setup /\ jobs \in Seq(Job) /\ raised \subseteq Job
      BY JobControlAssumption DEF JobControlAssumption, Init
    <3>2. /\ os \in [Proc -> {"none", "blocked", "running", "stopped", "ok", "failed"}]
          /\ status \in [Proc -> Status]
      BY DEF Init, Status
    <3> QED BY <2>2, <3>1, <3>2 DEF TypeOK, Init
  <2> QED BY <2>4, <2>5, <2>6 DEF TInv, Init
<1>2. TInv /\ [Next]_vars => TInv'
  <2> SUFFICES ASSUME TInv, [Next]_vars PROVE TInv'
    OBVIOUS
  <2>0. /\ os \in [Proc -> {"none", "blocked", "running", "stopped", "ok", "failed"}]
        /\ news \subseteq Proc /\ stops \in Nat /\ raised \subseteq Job /\ sigchld \in BOOLEAN
        /\ \A q \in news : os[q] \in Ends \cup {"stopped"}
    BY DEF TInv, TypeOK, OneEnd
  <2>1. CASE Interrupt \/ NotificationEnds
    BY <2>1, Nests
  <2>2. ASSUME NEW p \in Proc, UpdateStatus(p) \/ WaitPid(p)
        PROVE  TInv'
    BY <2>2, Reaps DEF UpdateStatus, WaitPid, At
  <2>3. CASE UpdateMark
    <3>1. PICK pc : pc = IF Unknown(Top.got) THEN "list" ELSE "update"
      OBVIOUS
    <3> QED BY <2>3, <3>1, Marks DEF UpdateMark, At
  <2>4. CASE WaitMark
    <3>1. PICK pc : pc = IF Unknown(Top.got) THEN "waitDone" ELSE "waitCheck"
      OBVIOUS
    <3> QED BY <2>4, <3>1, Marks DEF WaitMark, At
  <2>5. CASE \/ UpdateEnds \/ List \/ Walk \/ WalkEnds \/ Report \/ RaiseFailed
             \/ NoChildren \/ WaitCheck \/ WaitDone \/ WaitRaise \/ AddRead \/ AddWrite
             \/ Reverse \/ SetProcs \/ Wait \/ \E j \in Job : StartPipeline(j)
    BY <2>5, MovesOn
  <2>6. CASE Fork \/ Release \/ SendSIGCONT \/ \E j \in Job : Launch1(j) \/ MarkJobAsRunning(j)
    BY <2>6, Starts
  <2>7. CASE Exit
    BY <2>0, <2>7, Ending DEF Exit
  <2>8. ASSUME NEW p \in Proc, ChildExits(p) PROVE TInv'
    BY <2>0, <2>8, Kernel DEF ChildExits, Changed, Ends
  <2>9. ASSUME NEW p \in Proc, ChildStops(p) PROVE TInv'
    BY <2>0, <2>9, Kernel DEF ChildStops, Changed, Ends
  <2>10. ASSUME NEW p \in Proc, ChildContinues(p) PROVE TInv'
    BY <2>0, <2>10, Kernel DEF ChildContinues, Ends
  <2>11. ASSUME NEW j \in Job, StopJob(j) PROVE TInv'
    <3>1. Procs(j) \subseteq Proc
      <4>1. Pipeline[j] \in Seq(Proc)
        BY DEF TInv, TypeOK, Setup, Pipeline
      <4> QED BY <4>1 DEF Procs
    <3>2. /\ os' \in [Proc -> {"none", "blocked", "running", "stopped", "ok", "failed"}]
          /\ \A q \in Proc : os[q] # "running" => os'[q] = os[q]
          /\ \A q \in Procs(j) : os[q] = "running" => os'[q] = "stopped"
          /\ news' = news \cup {p \in Procs(j) : os[p] = "running"}
      BY <2>0, <2>11, <3>1 DEF StopJob
    <3>3. \A q \in news' : /\ q \in Proc /\ os'[q] \in Ends \cup {"stopped"}
                           /\ q \in news \/ os[q] \notin Ends
      BY <2>0, <3>1, <3>2 DEF Ends
    <3>4. /\ UNCHANGED <<setup, jobs, started, procState, told, raised, stack>>
          /\ sigchld' \in BOOLEAN /\ stops' \in Nat
          /\ \A q \in Proc : os[q] \in Ends \cup {"none"} => os'[q] = os[q]
      BY <2>0, <2>11, <3>2 DEF StopJob, Ends
    <3>5. os' \in [Proc -> {"none", "blocked", "running", "stopped", "ok", "failed"}]
      BY <3>2
    <3> QED BY <3>3, <3>4, <3>5, Kernel
  <2>12. CASE UNCHANGED vars
    BY <2>0, <2>12, Kernel DEF vars, procState
  <2> QED
    BY <2>1, <2>2, <2>3, <2>4, <2>5, <2>6, <2>7, <2>8, <2>9, <2>10, <2>11, <2>12
    DEF Next, Shell, Program, Children, Gone
<1> QED BY <1>1, <1>2, PTL DEF Spec

(* Variables and activations keep their types.                             *)
THEOREM TypeCorrect == Spec => []TypeOK
<1>1. TInv => TypeOK
  BY DEF TInv
<1> QED BY <1>1, Typed, PTL
-----------------------------------------------------------------------------
(* Nothing is started, and the activations that are starting a job are the *)
(* ones that were.                                                         *)
LEMMA Underway ==
    ASSUME TInv, SInv, setup' = setup, started' = started,
           \A i \in Frames' : \/ stack'[i].pc \notin Starting
                              \/ \E k \in Frames : /\ stack[k].pc \in Starting
                                                   /\ stack[k].job = stack'[i].job
                                                   /\ stack[k].pc = "fork" => stack'[i] = stack[k],
           \A p \in Proc : os'[p] = os[p] \/ (os[p] \notin {"none", "blocked"} /\ os'[p] # "none")
    PROVE  SInv'
<1>1. \A j \in Job : Pipeline[j] \in Seq(Proc) /\ Len(Pipeline[j]) \in Nat \ {0}
  BY JobControlAssumption DEF JobControlAssumption, TInv, TypeOK, Setup, Pipeline
<1>2. \A j \in Job : \A l \in 1 .. Len(Pipeline[j]) : Pipeline[j][l] \in Proc /\ Pipeline[j][l] \in Procs(j)
  BY <1>1 DEF Procs
<1>3. \A j \in Job : Procs(j) \subseteq Proc /\ Pipeline[j][1] \in Proc
  BY <1>1, <1>2 DEF Procs
<1>4. Pipeline' = Pipeline /\ (ChildrenWait' <=> ChildrenWait) /\ \A j : Procs(j)' = Procs(j)
  BY DEF Pipeline, Procs, ChildrenWait, Blocks, Interactive
<1>5. \A j \in started' : \A p \in Procs(j)' : os'[p] # "none"
  <2>1. started \subseteq Job
    BY DEF TInv, TypeOK
  <2> QED BY <1>3, <1>4, <2>1 DEF SInv
<1>6. ASSUME NEW i \in Frames', stack'[i].pc \in Starting
      PROVE  StartingOK(stack[i])'
  <2>1. PICK k \in Frames : /\ stack[k].pc \in Starting /\ stack[k].job = stack'[i].job
                            /\ stack[k].pc = "fork" => stack'[i] = stack[k]
    BY <1>6
  <2>2. PICK j : j = stack[k].job
    OBVIOUS
  <2>3. j \in Job
    BY <2>1, <2>2 DEF TInv, FramesOK, FrameOK, AboutJob
  <2>4. /\ j \notin started /\ os[Pipeline[j][1]] \in {"none", "blocked"}
        /\ ChildrenWait => \A p \in Procs(j) : os[p] \in {"none", "blocked"}
        /\ \A l \in 1 .. Len(Pipeline[j]) :
              os[Pipeline[j][l]] = "none" => stack[k].pc = "fork" /\ l >= stack[k].k
    BY <2>1, <2>2 DEF SInv, StartingOK
  <2>5. os'[Pipeline[j][1]] \in {"none", "blocked"}
    BY <1>3, <2>3, <2>4
  <2>6. ChildrenWait => \A p \in Procs(j) : os'[p] \in {"none", "blocked"}
    BY <1>3, <2>3, <2>4
  <2>7. \A l \in 1 .. Len(Pipeline[j]) :
              os'[Pipeline[j][l]] = "none" => stack'[i].pc = "fork" /\ l >= stack'[i].k
    <3>1. \A l \in 1 .. Len(Pipeline[j]) : os'[Pipeline[j][l]] = "none" => os[Pipeline[j][l]] = "none"
      BY <1>2, <2>3
    <3> QED BY <2>1, <2>4, <3>1
  <2> QED BY <1>4, <2>1, <2>2, <2>4, <2>5, <2>6, <2>7 DEF StartingOK
<1> QED BY <1>5, <1>6 DEF SInv

(* The activations of the stack after a step.                              *)
LEMMA FramesAfter ==
    ASSUME TInv, stack # << >>, NEW g, Continue(g)
    PROVE  /\ Frames' = Frames /\ stack'[1] = g /\ Top' = g
           /\ \A i \in Frames : i # 1 => stack'[i] = stack[i]
<1>1. stack \in Seq(Frame \cup {g}) /\ <<g>> \in Seq(Frame \cup {g}) /\ Len(stack) \in Nat \ {0}
  BY DEF TInv, TypeOK
<1>2. Tail(stack) \in Seq(Frame \cup {g}) /\ Len(Tail(stack)) = Len(stack) - 1
  BY <1>1
<1>3. \A i \in 2 .. Len(stack) : Tail(stack)[i - 1] = stack[i]
  BY <1>1
<1>4. stack' = <<g>> \o Tail(stack)
  BY DEF Continue
<1>5. /\ Len(stack') = Len(stack) /\ stack'[1] = g /\ stack' # << >> /\ Head(stack') = g
      /\ \A i \in 2 .. Len(stack) : stack'[i] = stack[i]
  BY <1>1, <1>2, <1>3, <1>4
<1> QED BY <1>5 DEF Frames, Top

(* What is being started is kept by every step.                            *)
LEMMA Begins == Spec => []SInv
<1>1. Init => SInv
  <2> SUFFICES ASSUME Init PROVE SInv
    OBVIOUS
  <2>1. Len(stack) = 1 /\ stack[1].pc = "idle" /\ started = {}
    BY DEF Init, Idle
  <2> QED BY <2>1 DEF SInv, Frames, Starting
<1>2. TInv /\ SInv /\ [Next]_vars => SInv'
  <2> SUFFICES ASSUME TInv, SInv, [Next]_vars PROVE SInv'
    OBVIOUS
  <2>1. stack # << >> =>
          /\ Top \in Frame /\ FrameOK(Top) /\ Top = stack[1] /\ 1 \in Frames
          /\ Top.pc \in Handling \/ Len(stack) = 1
    BY TopFacts
  <2>2. /\ os \in [Proc -> {"none", "blocked", "running", "stopped", "ok", "failed"}]
        /\ \A j \in Job : Pipeline[j] \in Seq(Proc) /\ Len(Pipeline[j]) \in Nat \ {0}
        /\ started \subseteq Job /\ jobs \in Seq(Job)
    BY JobControlAssumption DEF JobControlAssumption, TInv, TypeOK, Setup, Pipeline
  <2>3. /\ \A j \in Job : \A l \in 1 .. Len(Pipeline[j]) :
              Pipeline[j][l] \in Proc /\ Pipeline[j][l] \in Procs(j)
        /\ \A j \in Job : Procs(j) \subseteq Proc /\ Pipeline[j][1] \in Procs(j)
    BY <2>2 DEF Procs
  <2>i. stack # << >> => Idle \in Frame /\ Idle.pc = "idle"
    BY <2>1, FrameFacts DEF Idle
  <2>n. ASSUME stack # << >>, NEW f \in Frame
        PROVE  WaitNext(f).pc \notin Starting /\ AfterCommand(FALSE).pc \notin Starting
    BY <2>n, FrameFacts DEF Starting
  <2>l. ASSUME stack # << >>, NEW j \in Job
        PROVE  Launched(j).pc \notin Starting
    <3>1. PICK f : f = [Idle EXCEPT !.wait = IF j \in Foreground THEN <<j>> ELSE << >>]
      OBVIOUS
    <3>2. (IF j \in Foreground THEN <<j>> ELSE << >>) \in Seq(Job)
      OBVIOUS
    <3>3. f \in Frame
      BY <2>i, <2>l, <3>1, <3>2 DEF Frame
    <3> QED BY <2>l, <2>n, <3>1, <3>3 DEF Launched
(* The running activation goes on and is starting nothing; or it goes on   *)
(* with the job that it is starting.                                       *)
  <2>4. ASSUME NEW g, Continue(g), stack # << >>, UNCHANGED <<setup, started>>,
               \/ g.pc \notin Starting
               \/ /\ Top.pc \in Starting \ {"fork"} /\ g.job = Top.job,
               \A p \in Proc : os'[p] = os[p] \/ (os[p] \notin {"none", "blocked"} /\ os'[p] # "none")
        PROVE  SInv'
    <3>1. /\ Frames' = Frames /\ stack'[1] = g
          /\ \A i \in Frames : i # 1 => stack'[i] = stack[i]
      BY <2>4, FramesAfter
    <3>2. \A i \in Frames' : \/ stack'[i].pc \notin Starting
                             \/ \E k \in Frames : /\ stack[k].pc \in Starting
                                                  /\ stack[k].job = stack'[i].job
                                                  /\ stack[k].pc = "fork" => stack'[i] = stack[k]
      BY <2>1, <2>4, <3>1
    <3> QED BY <2>4, <3>2, Underway
(* The activations are among those there were, or start nothing.           *)
  <2>5. ASSUME UNCHANGED <<setup, started>>,
               \A i \in Frames' : stack'[i].pc \notin Starting \/ \E k \in Frames : stack'[i] = stack[k],
               \A p \in Proc : os'[p] = os[p] \/ (os[p] \notin {"none", "blocked"} /\ os'[p] # "none")
        PROVE  SInv'
    <3>1. \A i \in Frames' : \/ stack'[i].pc \notin Starting
                             \/ \E k \in Frames : /\ stack[k].pc \in Starting
                                                  /\ stack[k].job = stack'[i].job
                                                  /\ stack[k].pc = "fork" => stack'[i] = stack[k]
      BY <2>5
    <3> QED BY <2>5, <3>1, Underway
  <2>6. ASSUME stack' = << >>, UNCHANGED <<setup, started, os>> PROVE SInv'
    <3>1. Frames' = {}
      BY <2>6 DEF Frames
    <3> QED BY <2>5, <2>6, <3>1
  <2> USE DEF At
  <2>7. ASSUME NEW p \in Proc, UpdateStatus(p) \/ WaitPid(p) PROVE SInv'
    <3>1. PICK f : f = [Top EXCEPT !.pc = IF Top.pc = "wait" THEN "waitMark" ELSE "updateMark"]
      OBVIOUS
    <3>2. PICK g : g = [f EXCEPT !.got = [proc |-> p, status |-> os[p]]]
      OBVIOUS
    <3>3. stack # << >> /\ Reap(p, f)
      BY <2>7, <3>1 DEF UpdateStatus, WaitPid
    <3>4. Continue(g) /\ UNCHANGED <<setup, started, os>>
      BY <3>2, <3>3 DEF Reap
    <3>5. g.pc \notin Starting
      BY <2>1, <3>1, <3>2, <3>3 DEF Frame, Starting
    <3> QED BY <2>4, <3>3, <3>4, <3>5
  <2>8. CASE \/ UpdateMark \/ UpdateEnds \/ List \/ WalkEnds
             \/ NoChildren \/ WaitMark \/ WaitCheck
    <3>1. PICK pc \in {"list", "update", "walk", "report", "waitDone", "waitCheck", "wait"} :
             \/ Continue([Top EXCEPT !.pc = pc])
             \/ Continue([Top EXCEPT !.pc = pc, !.got = NoGot])
             \/ Continue([Top EXCEPT !.pc = pc, !.todo = jobs, !.keep = << >>])
             \/ Continue([Top EXCEPT !.pc = pc, !.keep = << >>])
      BY <2>8 DEF UpdateMark, UpdateEnds, List, WalkEnds, NoChildren, WaitMark, WaitCheck
    <3>2. stack # << >> /\ UNCHANGED <<setup, started, os>>
      BY <2>8 DEF UpdateMark, UpdateEnds, List, WalkEnds, NoChildren, WaitMark, WaitCheck, kernel
    <3>3. PICK g : /\ Continue(g)
                   /\ \/ g = [Top EXCEPT !.pc = pc]
                      \/ g = [Top EXCEPT !.pc = pc, !.got = NoGot]
                      \/ g = [Top EXCEPT !.pc = pc, !.todo = jobs, !.keep = << >>]
                      \/ g = [Top EXCEPT !.pc = pc, !.keep = << >>]
      BY <3>1
    <3>4. g.pc = pc
      BY <2>1, <3>2, <3>3 DEF Frame
    <3> QED BY <2>4, <3>1, <3>2, <3>3, <3>4 DEF Starting
  <2>9. CASE Walk \/ Report
    <3>1. stack # << >> /\ UNCHANGED <<setup, started, os>> /\ Top.pc \in {"walk", "report"}
      BY <2>9 DEF Walk, Report, kernel
    <3>2. PICK todo, keep, failed, job, g :
             /\ Continue(g)
             /\ \/ g = [Top EXCEPT !.todo = todo, !.keep = keep, !.failed = failed]
                \/ g = [Top EXCEPT !.failed = failed]
                \/ g = [Top EXCEPT !.failed = failed, !.job = job, !.pc = "raise"]
      BY <2>9 DEF Walk, Report
    <3>3. g.pc \in {Top.pc, "raise"}
      BY <2>1, <3>1, <3>2 DEF Frame
    <3> QED BY <2>4, <3>1, <3>2, <3>3 DEF Starting
  <2>10. CASE RaiseFailed \/ WaitRaise
    <3>1. stack # << >> /\ UNCHANGED <<setup, started, os>>
      BY <2>10 DEF RaiseFailed, WaitRaise, Reraise, kernel
    <3>2. PICK g : g = [Top EXCEPT !.job = NoJob, !.pc = "report"]
      OBVIOUS
    <3>3. g.pc = "report"
      BY <2>1, <3>1, <3>2 DEF Frame
    <3>4. Continue(g) \/ Continue(WaitNext(Top)) \/ stack' = << >>
      BY <2>10, <3>2 DEF RaiseFailed, WaitRaise, Reraise
    <3>5. g.pc \notin Starting /\ WaitNext(Top).pc \notin Starting
      BY <2>1, <2>n, <3>1, <3>3 DEF Starting
    <3> QED BY <2>4, <2>6, <3>1, <3>4, <3>5
  <2>11. CASE WaitDone
    <3>1. stack # << >> /\ UNCHANGED <<setup, started, os>>
      BY <2>11 DEF WaitDone, kernel
    <3>2. PICK g : g = [Top EXCEPT !.pc = "waitRaise"]
      OBVIOUS
    <3>3. g.pc \notin Starting /\ WaitNext(Top).pc \notin Starting
      BY <2>1, <2>n, <3>1, <3>2 DEF Frame, Starting
    <3>4. Continue(g) \/ Continue(WaitNext(Top))
      BY <2>11, <3>2 DEF WaitDone
    <3> QED BY <2>4, <3>1, <3>3, <3>4
  <2>12. CASE Wait
    <3>1. stack # << >> /\ UNCHANGED <<setup, started, os>>
      BY <2>12 DEF Wait, kernel
    <3>2. PICK f : f = [Idle EXCEPT !.notify = TRUE, !.wait = jobs]
      OBVIOUS
    <3>3. f \in Frame
      BY <2>2, <2>i, <3>1, <3>2 DEF Frame
    <3> QED BY <2>4, <2>12, <2>n, <3>1, <3>2, <3>3 DEF Wait
  <2>13. CASE SendSIGCONT
    <3>1. /\ stack # << >> /\ UNCHANGED <<setup, started>>
          /\ Continue(WaitNext(Top)) \/ Continue(AfterCommand(FALSE))
          /\ \A p \in Proc : os'[p] = os[p] \/ (os[p] = "stopped" /\ os'[p] = "running")
      BY <2>13 DEF SendSIGCONT
    <3> QED BY <2>1, <2>4, <2>n, <3>1
  <2>14. ASSUME NEW j \in Job, MarkJobAsRunning(j) PROVE SInv'
    <3>1. stack # << >> /\ UNCHANGED <<setup, started, os>>
      BY <2>14 DEF MarkJobAsRunning, kernel
    <3>2. PICK w, g : Continue(g) /\ g = [Idle EXCEPT !.pc = "cont", !.job = j, !.wait = w]
      BY <2>14 DEF MarkJobAsRunning
    <3>3. g.pc = "cont"
      BY <3>2 DEF Idle
    <3> QED BY <2>4, <3>1, <3>2, <3>3 DEF Starting
  <2>15. CASE AddRead \/ AddWrite \/ Reverse \/ SetProcs
    <3>1. /\ stack # << >> /\ UNCHANGED <<setup, started, os>>
          /\ Top.pc \in {"addRead", "addWrite", "reverse", "setProcs"}
      BY <2>15 DEF AddRead, AddWrite, Reverse, SetProcs, kernel
    <3>2. PICK pc, keep, g : Continue(g) /\ (\/ g = [Top EXCEPT !.pc = pc, !.keep = keep]
                                            \/ g = [Top EXCEPT !.pc = pc])
      BY <2>15 DEF AddRead, AddWrite, Reverse, SetProcs
    <3>3. g.job = Top.job
      BY <2>1, <3>1, <3>2 DEF Frame
    <3> QED BY <2>4, <3>1, <3>2, <3>3 DEF Starting
  <2>16. CASE Interrupt
    <3>1. stack # << >> /\ stack \in Seq(Frame) /\ UNCHANGED <<setup, started, os>>
      BY <2>16 DEF Interrupt, TInv, TypeOK
    <3>2. Notification(FALSE) \in Frame /\ Notification(FALSE).pc = "update"
      BY <2>1, <3>1, FrameFacts DEF Notification, Idle
    <3>3. /\ Len(stack') = Len(stack) + 1 /\ Len(stack) \in Nat
          /\ stack'[1] = Notification(FALSE)
          /\ \A i \in 2 .. Len(stack) + 1 : stack'[i] = stack[i - 1]
      BY <2>16, <3>1, <3>2, StackFacts DEF Interrupt
    <3>4. \A i \in Frames' : i = 1 \/ (i - 1 \in Frames /\ stack'[i] = stack[i - 1])
      BY <3>3 DEF Frames
    <3> QED BY <2>5, <3>1, <3>2, <3>3, <3>4 DEF Starting
  <2>17. CASE NotificationEnds
    <3>1. stack # << >> /\ stack \in Seq(Frame) /\ UNCHANGED <<setup, started, os>>
      BY <2>17 DEF NotificationEnds, kernel, TInv, TypeOK
    <3>2. CASE Len(stack) > 1
      <4>1. /\ Len(stack') = Len(stack) - 1 /\ Len(stack) \in Nat
            /\ \A i \in 1 .. Len(stack) - 1 : stack'[i] = stack[i + 1]
        BY <2>1, <2>17, <3>1, <3>2, StackFacts DEF NotificationEnds
      <4>2. \A i \in Frames' : i + 1 \in Frames /\ stack'[i] = stack[i + 1]
        BY <4>1 DEF Frames
      <4> QED BY <2>5, <3>1, <4>2
    <3>3. CASE ~ (Len(stack) > 1)
      <4>1. stack' = <<Idle>>
        BY <2>17, <3>3 DEF NotificationEnds
      <4>2. Frames' = {1} /\ stack'[1] = Idle
        BY <4>1 DEF Frames
      <4> QED BY <2>5, <2>i, <3>1, <4>2 DEF Starting
    <3> QED BY <3>2, <3>3
  <2>18. CASE Exit
    BY <2>6, <2>18 DEF Exit, kernel
  <2>19. CASE Children \/ UNCHANGED vars \/ \E j \in Job : StopJob(j)
    <3>1. UNCHANGED <<setup, started, stack>>
      BY <2>19 DEF Children, ChildExits, ChildStops, ChildContinues, Changed, StopJob, vars
    <3>2. \A p \in Proc : os'[p] = os[p] \/ (os[p] \notin {"none", "blocked"} /\ os'[p] # "none")
      BY <2>2, <2>19 DEF Children, ChildExits, ChildStops, ChildContinues, Changed, StopJob, vars
    <3>3. \A i \in Frames' : i \in Frames /\ stack'[i] = stack[i]
      BY <3>1 DEF Frames
    <3> QED BY <2>5, <3>1, <3>2, <3>3
(* A job is begun, goes on being forked, and is let go: there is only the  *)
(* program's activation.                                                   *)
  <2>20. ASSUME NEW j \in Job, StartPipeline(j) PROVE SInv'
    <3>1. /\ stack # << >> /\ Top.pc = "idle" /\ UNCHANGED <<setup, started, os>>
          /\ Continue([Idle EXCEPT !.pc = "fork", !.job = j, !.k = 1])
          /\ \A p \in Procs(j) : os[p] = "none"
      BY <2>20 DEF StartPipeline, New, kernel
    <3>2. PICK g : g = [Idle EXCEPT !.pc = "fork", !.job = j, !.k = 1]
      OBVIOUS
    <3>3. g.pc = "fork" /\ g.job = j /\ g.k = 1 /\ Continue(g)
      BY <3>1, <3>2 DEF Idle
    <3>4. Frames' = {1} /\ stack'[1] = g
      BY <2>1, <3>1, <3>3, FramesAfter DEF Handling, Frames
    <3>5. j \notin started
      BY <2>3, <3>1 DEF SInv
    <3>6. Pipeline' = Pipeline /\ \A i : Procs(i)' = Procs(i)
      BY <3>1 DEF Pipeline, Procs
    <3>7. StartingOK(g)'
      BY <2>2, <2>3, <3>1, <3>3, <3>5, <3>6 DEF StartingOK
    <3>8. StartingOK(stack[1])'
      BY <3>4, <3>7 DEF StartingOK
    <3>9. \A i \in started' : \A p \in Procs(i)' : os'[p] # "none"
      BY <3>1, <3>6 DEF SInv
    <3> QED BY <3>4, <3>8, <3>9 DEF SInv
  <2>21. CASE Fork
    <3>1. PICK j : j = Top.job
      OBVIOUS
    <3>2. PICK k : k = Top.k
      OBVIOUS
    <3>3. PICK g : g = IF k < Len(Pipeline[j]) THEN [Top EXCEPT !.k = k + 1]
                       ELSE [Top EXCEPT !.k = 0, !.pc = "addRead"]
      OBVIOUS
    <3>4. /\ stack # << >> /\ Top.pc = "fork" /\ UNCHANGED <<setup, started>> /\ Continue(g)
          /\ os' = [os EXCEPT ![Pipeline[j][k]] = IF Blocks(j, k) THEN "blocked" ELSE "running"]
      BY <2>21, <3>1, <3>2, <3>3 DEF Fork
    <3>5. j \in Job /\ k \in 1 .. Len(Pipeline[j]) /\ Len(stack) = 1 /\ StartingOK(Top)
      <4>1. j \in Job /\ k \in 1 .. Len(Pipeline[j]) /\ Len(stack) = 1
        BY <2>1, <3>1, <3>2, <3>4 DEF FrameOK, AboutJob, Starting, Handling
      <4> QED BY <2>1, <3>4, <4>1 DEF SInv, Starting
    <3>6. /\ g.job = j /\ g.pc \in {"fork", "addRead"}
          /\ k < Len(Pipeline[j]) => g.pc = "fork" /\ g.k = k + 1
      BY <2>1, <3>1, <3>3, <3>4 DEF Frame
    <3>7. Frames' = {1} /\ stack'[1] = g
      BY <3>4, <3>5, FramesAfter DEF Frames
    <3>8. Pipeline' = Pipeline /\ (ChildrenWait' <=> ChildrenWait) /\ \A i : Procs(i)' = Procs(i)
      BY <3>4 DEF Pipeline, Procs, ChildrenWait, Blocks, Interactive
    <3>9. /\ os'[Pipeline[j][k]] \in {"blocked", "running"}
          /\ Blocks(j, k) => os'[Pipeline[j][k]] = "blocked"
          /\ \A q \in Proc : q # Pipeline[j][k] => os'[q] = os[q]
      BY <2>2, <2>3, <3>4, <3>5
    <3>10. \A l, m \in 1 .. Len(Pipeline[j]) : Pipeline[j][l] = Pipeline[j][m] => l = m
      BY <3>5, JobControlAssumption DEF JobControlAssumption, Pipeline, TInv
    <3>11. \A i \in started' : \A p \in Procs(i)' : os'[p] # "none"
      BY <2>2, <2>3, <3>4, <3>8, <3>9 DEF SInv
    <3>12. os'[Pipeline[j][1]] \in {"none", "blocked"}
      <4>1. os[Pipeline[j][1]] \in {"none", "blocked"} /\ 1 \in 1 .. Len(Pipeline[j])
        BY <2>2, <3>1, <3>5 DEF StartingOK
      <4>2. CASE k = 1
        BY <3>9, <4>2 DEF Blocks
      <4>3. CASE k # 1
        BY <2>3, <3>5, <3>9, <3>10, <4>1, <4>3
      <4> QED BY <4>2, <4>3
    <3>13. ChildrenWait => \A p \in Procs(j) : os'[p] \in {"none", "blocked"}
      <4>1. ChildrenWait => Blocks(j, k)
        BY <3>5 DEF ChildrenWait
      <4>2. ChildrenWait => \A p \in Procs(j) : os[p] \in {"none", "blocked"}
        BY <3>1, <3>5 DEF StartingOK
      <4> QED BY <2>3, <3>5, <3>9, <4>1, <4>2
    <3>14. ASSUME NEW l \in 1 .. Len(Pipeline[j]), os'[Pipeline[j][l]] = "none"
           PROVE  g.pc = "fork" /\ l >= g.k
      <4>1. l # k
        BY <3>9, <3>14
      <4>2. os[Pipeline[j][l]] = "none"
        BY <2>3, <3>5, <3>9, <3>10, <3>14, <4>1
      <4>3. l >= k
        BY <3>1, <3>2, <3>5, <4>2 DEF StartingOK
      <4>4. k < Len(Pipeline[j]) /\ l >= k + 1
        BY <2>2, <3>5, <4>1, <4>3
      <4> QED BY <3>6, <4>4
    <3>15. StartingOK(g)'
      BY <3>1, <3>4, <3>5, <3>6, <3>8, <3>12, <3>13, <3>14 DEF StartingOK
    <3>16. StartingOK(stack[1])'
      BY <3>7, <3>15 DEF StartingOK
    <3> QED BY <3>7, <3>11, <3>16 DEF SInv
  <2>22. CASE Release
    <3>1. PICK j : j = Top.job
      OBVIOUS
    <3>2. /\ stack # << >> /\ Top.pc = "release" /\ setup' = setup /\ Continue(Launched(j))
          /\ os' = Released(j) /\ started' = started \cup {j}
      BY <2>22, <3>1 DEF Release
    <3>3. j \in Job /\ Len(stack) = 1 /\ StartingOK(Top)
      <4>1. j \in Job /\ Len(stack) = 1
        BY <2>1, <3>1, <3>2 DEF FrameOK, AboutJob, Starting, Handling
      <4> QED BY <2>1, <3>2, <4>1 DEF SInv, Starting
    <3>4. Frames' = {1} /\ stack'[1].pc \notin Starting
      BY <2>l, <3>2, <3>3, FramesAfter DEF Frames
    <3>5. \A i : Procs(i)' = Procs(i)
      BY <3>2 DEF Procs, Pipeline
    <3>6. \A p \in Procs(j) : os[p] # "none"
      BY <3>1, <3>2, <3>3 DEF StartingOK, Procs
    <3>7. \A i \in started' : \A p \in Procs(i) : os[p] # "none" /\ p \in Proc
      BY <2>2, <2>3, <3>2, <3>3, <3>6 DEF SInv
    <3>8. \A p \in Proc : os[p] # "none" => os'[p] # "none"
      BY <3>2 DEF Released
    <3> QED BY <3>4, <3>5, <3>7, <3>8 DEF SInv
  <2>23. ASSUME NEW j \in Job, Launch1(j) PROVE SInv'
    <3>1. /\ stack # << >> /\ Top.pc = "idle" /\ setup' = setup /\ Continue(Launched(j))
          /\ Len(Pipeline[j]) = 1
          /\ os' = [os EXCEPT ![Pipeline[j][1]] = "running"] /\ started' = started \cup {j}
      BY <2>23 DEF Launch1
    <3>2. Frames' = {1} /\ stack'[1].pc \notin Starting
      BY <2>1, <2>l, <3>1, FramesAfter DEF Frames, Handling
    <3>3. \A i : Procs(i)' = Procs(i)
      BY <3>1 DEF Procs, Pipeline
    <3>4. Procs(j) = {Pipeline[j][1]}
      BY <3>1 DEF Procs
    <3>5. \A p \in Proc : os[p] # "none" \/ p \in Procs(j) => os'[p] # "none"
      BY <2>2, <3>1, <3>4
    <3>6. \A i \in started' : \A p \in Procs(i) : p \in Proc /\ (os[p] # "none" \/ p \in Procs(j))
      BY <2>2, <2>3, <3>1 DEF SInv
    <3> QED BY <3>2, <3>3, <3>5, <3>6 DEF SInv
  <2> QED
    BY <2>7, <2>8, <2>9, <2>10, <2>11, <2>12, <2>13, <2>14, <2>15, <2>16, <2>17, <2>18, <2>19,
       <2>20, <2>21, <2>22, <2>23
    DEF Next, Shell, Program, Gone
<1> QED BY <1>1, <1>2, Typed, PTL DEF Spec

(* The processes a job shows are all of its own, but for one whose list is *)
(* reversed; and of that one, when every child waits, none has ended.      *)
LEMMA Whole ==
    ASSUME TInv, SInv
    PROVE  /\ \A j \in Job : Shown(j) \subseteq Procs(j)
           /\ \A j \in started : Shown(j) = Procs(j)
           /\ \A j \in Owed : /\ j \in Job
                              /\ JobIsCompleted(j) <=> Completed(j)
                              /\ JobFailed(j) <=> Failed(j)
<1>1. \A j \in Job : Pipeline[j] \in Seq(Proc) /\ Len(Pipeline[j]) \in Nat \ {0}
  BY JobControlAssumption DEF JobControlAssumption, TInv, TypeOK, Setup, Pipeline
<1>2. \A j \in Job : Pipeline[j][Len(Pipeline[j])] \in Procs(j)
  BY <1>1 DEF Procs
<1>3. \A j \in started : ~Reversed(j)
  BY DEF Reversed, SInv, StartingOK, Starting, Frames
<1>4. \A j : ~Reversed(j) => /\ Shown(j) = Procs(j)
                             /\ JobIsCompleted(j) <=> Completed(j)
                             /\ JobFailed(j) <=> Failed(j)
  BY DEF Shown, JobIsCompleted, JobFailed, Completed, Failed
<1>5. Owed \subseteq Job
  <2>1. \A i \in Frames : stack[i].pc \in Owing => stack[i].job \in Job
    BY DEF TInv, FramesOK, FrameOK, AboutJob, Starting, Owing
  <2> QED BY <2>1 DEF Owed, TInv, TypeOK
<1>6. ASSUME NEW j \in Owed, Reversed(j)
      PROVE  ~JobIsCompleted(j) /\ ~Completed(j)
  <2>1. PICK i \in Frames : stack[i].pc = "setProcs" /\ stack[i].job = j
    BY <1>6 DEF Reversed, Frames
  <2>2. PICK k \in Frames : stack[k].pc \in Owing /\ stack[k].job = j
    BY <1>3, <1>6 DEF Owed
  <2>3. i = Len(stack) /\ k = Len(stack)
    <3>1. stack[i].pc \notin Handling /\ stack[k].pc \notin Handling
      BY <2>1, <2>2 DEF Handling, Owing
    <3>2. Len(stack) \in Nat
      BY DEF TInv, TypeOK
    <3> QED BY <3>1, <3>2 DEF TInv, FramesOK, Frames
  <2>4. ChildrenWait
    BY <2>1, <2>2, <2>3 DEF Owing
  <2>5. \A p \in Procs(j) : os[p] \in {"none", "blocked"}
    BY <2>1, <2>4 DEF SInv, StartingOK, Starting
  <2>6. Shown(j) # {} /\ Shown(j) \subseteq Procs(j)
    BY <1>2, <1>5, <1>6 DEF Shown
  <2>7. \A p \in Procs(j) : p \notin completed
    BY <2>5 DEF TInv, OneEnd, Ends
  <2> QED BY <2>6, <2>7 DEF JobIsCompleted, Completed
<1>7. \A j \in Job : Shown(j) \subseteq Procs(j)
  BY <1>2 DEF Shown
<1> QED BY <1>3, <1>4, <1>5, <1>6, <1>7 DEF JobFailed, Failed
-----------------------------------------------------------------------------
LInv == KeptOnLists /\ FailuresFound

(* An activation goes on: each job that is owed something stays on the     *)
(* lists, and its failure stays in somebody's hands.                       *)
LEMMA GoesOn ==
    ASSUME TInv, LInv, stack # << >>, NEW g \in Frame, Continue(g), setup' = setup,
           completed \subseteq completed', raised \subseteq raised', started' = started,
           g.pc \notin {"reverse", "setProcs", "release"},
           \A j \in Owed : OnEveryList(j) =>
               Completed(j)' \/ (j \in Among(jobs') /\ OnList(g, j)),
           \A j \in Owed : OnNoList(j) => j \notin Among(jobs') /\ OffList(g, j),
           Interactive => \A j \in Owed : Failed(j)' /\ j \notin raised' =>
               \/ OnEveryList(j) /\ j \in Among(jobs') /\ OnList(g, j) /\ WillLook(g, j)
               \/ /\ Failed(j)
                  /\ WillRaise(Top, j) => WillRaise(g, j)
                  /\ OnEveryList(j) =>
                       \/ WillRaise(g, j)
                       \/ /\ j \in Among(jobs') /\ OnList(g, j)
                          /\ WillLook(Top, j) => WillLook(g, j)
    PROVE  LInv'
<1>1. /\ Top = stack[1] /\ Len(stack') = Len(stack) /\ stack'[1] = g /\ stack' # << >>
      /\ \A i \in 2 .. Len(stack) : stack'[i] = stack[i]
      /\ Len(stack) \in Nat \ {0}
  BY StackFacts DEF TInv, TypeOK, Continue
<1>2. Frames' = Frames /\ 1 \in Frames /\ \A i \in Frames : i # 1 => stack'[i] = stack[i]
  BY <1>1 DEF Frames
<1>w. (ChildrenWait' <=> ChildrenWait) /\ Owing' = Owing
  BY DEF ChildrenWait, Blocks, Pipeline, Interactive, Owing
<1>3. Owed' \subseteq Owed
  BY <1>1, <1>2, <1>w DEF Owed, Owing
<1>4. \A j : OnEveryList(j) /\ j \in Among(jobs') /\ OnList(g, j) => OnEveryList(j)'
  <2> SUFFICES ASSUME NEW j, OnEveryList(j), j \in Among(jobs'), OnList(g, j)
               PROVE  OnEveryList(j)'
    OBVIOUS
  <2>1. Among(jobs)' = Among(jobs')
    BY DEF Among
  <2>2. ASSUME NEW i \in Frames
        PROVE  OnList(stack[i], j)'
    <3>1. CASE i = 1
      BY <1>1, <3>1 DEF OnList, Among
    <3>2. CASE i # 1
      BY <1>2, <3>2 DEF OnEveryList, OnList, Among
    <3> QED BY <3>1, <3>2
  <2> QED BY <1>2, <2>1, <2>2 DEF OnEveryList
<1>5. \A j : Completed(j) => Completed(j)'
  BY DEF Completed, Procs, Pipeline
<1>6. \A j \in Owed : OnNoList(j) => OnNoList(j)'
  <2> SUFFICES ASSUME NEW j \in Owed, OnNoList(j), j \notin Among(jobs'), OffList(g, j)
               PROVE  OnNoList(j)'
    OBVIOUS
  <2>1. Among(jobs)' = Among(jobs')
    BY DEF Among
  <2>2. ASSUME NEW i \in Frames
        PROVE  OffList(stack[i], j)'
    <3>1. CASE i = 1
      BY <1>1, <3>1 DEF OffList, Among
    <3>2. CASE i # 1
      BY <1>2, <3>2 DEF OnNoList, OffList, Among
    <3> QED BY <3>1, <3>2
  <2> QED BY <1>2, <2>1, <2>2 DEF OnNoList
<1>7. KeptOnLists'
  <2> SUFFICES ASSUME NEW j \in Owed'
               PROVE  Completed(j)' \/ OnEveryList(j)' \/ (~ChildrenWait' /\ OnNoList(j)')
    BY DEF KeptOnLists
  <2>1. j \in Owed
    BY <1>3
  <2>2. Completed(j) \/ OnEveryList(j) \/ (~ChildrenWait /\ OnNoList(j))
    BY <2>1 DEF LInv, KeptOnLists
  <2> QED BY <1>4, <1>5, <1>6, <1>w, <2>1, <2>2
<1>8. FailuresFound'
  <2> SUFFICES ASSUME Interactive, NEW j \in Owed', Failed(j)', j \notin raised'
               PROVE  Raising(j)' \/ (OnEveryList(j)' /\ LookedAt(j)')
    BY DEF FailuresFound, Interactive
  <2>1. j \in Owed /\ j \notin raised
    BY <1>3
  <2>2. WillRaise(g, j) => Raising(j)'
    BY <1>1, <1>2 DEF Raising, WillRaise, Among
  <2>3. WillLook(g, j) => LookedAt(j)'
    BY <1>1, <1>2 DEF LookedAt, WillLook, Among
  <2>4. ASSUME NEW i \in Frames, i # 1, WillRaise(stack[i], j)
        PROVE  Raising(j)'
    BY <1>2, <2>4 DEF Raising, WillRaise, Among
  <2>5. ASSUME NEW i \in Frames, i # 1, WillLook(stack[i], j)
        PROVE  LookedAt(j)'
    BY <1>2, <2>5 DEF LookedAt, WillLook, Among
  <2>6. CASE OnEveryList(j) /\ j \in Among(jobs') /\ OnList(g, j) /\ WillLook(g, j)
    BY <1>4, <2>3, <2>6
  <2>7. CASE /\ Failed(j)
             /\ WillRaise(Top, j) => WillRaise(g, j)
             /\ OnEveryList(j) =>
                  \/ WillRaise(g, j)
                  \/ /\ j \in Among(jobs') /\ OnList(g, j)
                     /\ WillLook(Top, j) => WillLook(g, j)
    <3>1. Raising(j) \/ (OnEveryList(j) /\ LookedAt(j))
      BY <2>1, <2>7 DEF LInv, FailuresFound
    <3>2. CASE Raising(j)
      <4>1. PICK i \in Frames : WillRaise(stack[i], j)
        BY <3>2 DEF Raising
      <4> QED BY <1>1, <2>2, <2>4, <2>7, <4>1
    <3>3. CASE OnEveryList(j) /\ LookedAt(j)
      <4>1. PICK i \in Frames : WillLook(stack[i], j)
        BY <3>3 DEF LookedAt
      <4>2. CASE WillRaise(g, j)
        BY <2>2, <4>2
      <4>3. CASE j \in Among(jobs') /\ OnList(g, j) /\ (WillLook(Top, j) => WillLook(g, j))
        BY <1>1, <1>4, <2>3, <2>5, <3>3, <4>1, <4>3
      <4> QED BY <2>7, <3>3, <4>2, <4>3
    <3> QED BY <3>1, <3>2, <3>3
  <2> QED BY <2>1, <2>6, <2>7
<1> QED BY <1>7, <1>8 DEF LInv
(* The same when jobs and processes are left alone.                        *)
LEMMA GoesOnQuietly ==
    ASSUME TInv, LInv, stack # << >>, NEW g \in Frame, Continue(g),
           UNCHANGED <<setup, jobs, completed, status, raised, started>>,
           g.pc \notin {"reverse", "setProcs", "release"},
           \A j \in Among(jobs) : OnList(Top, j) => OnList(g, j),
           \A j : j \notin Among(jobs) /\ OffList(Top, j) => OffList(g, j),
           \A j \in Owed : WillRaise(Top, j) => WillRaise(g, j),
           Interactive => \A j \in Among(jobs) : WillLook(Top, j) => WillLook(g, j)
    PROVE  LInv'
<1>1. \A j : /\ OnEveryList(j) => j \in Among(jobs) /\ OnList(Top, j)
             /\ OnNoList(j) => j \notin Among(jobs) /\ OffList(Top, j)
  BY TopFacts DEF OnEveryList, OnNoList
<1>2. \A j : Failed(j)' => Failed(j)
  BY DEF Failed, Completed, Procs, Pipeline
<1>3. ASSUME NEW j \in Owed, OnEveryList(j)
      PROVE  j \in Among(jobs') /\ OnList(g, j)
  BY <1>1, <1>3
<1>n. ASSUME NEW j \in Owed, OnNoList(j)
      PROVE  j \notin Among(jobs') /\ OffList(g, j)
  BY <1>1, <1>n
<1>4. ASSUME Interactive, NEW j \in Owed, Failed(j)', j \notin raised'
      PROVE  /\ Failed(j)
             /\ WillRaise(Top, j) => WillRaise(g, j)
             /\ OnEveryList(j) =>
                  /\ j \in Among(jobs') /\ OnList(g, j)
                  /\ WillLook(Top, j) => WillLook(g, j)
  BY <1>1, <1>2, <1>3, <1>4
<1> QED BY <1>3, <1>n, <1>4, GoesOn

(* The jobs are left alone, activations come and go: those that come hold  *)
(* no list, those that go have no failure in their hands.                  *)
LEMMA StaysPut ==
    ASSUME LInv, UNCHANGED <<setup, jobs, completed, status, started>>, raised \subseteq raised',
           \A i \in Frames' : \/ stack'[i].pc \notin Owing \cup {"walk", "addWrite"}
                              \/ \E k \in Frames : stack'[i] = stack[k],
           \/ stack' = << >>
           \/ /\ stack # << >>
              /\ \A k \in Frames : \/ \A j : ~WillRaise(stack[k], j) /\ ~WillLook(stack[k], j)
                                   \/ \E i \in Frames' : stack'[i] = stack[k]
    PROVE  LInv'
<1>1. \A j : (Completed(j) => Completed(j)') /\ (Failed(j)' => Failed(j))
  BY DEF Completed, Failed, Procs, Pipeline
<1>w. (ChildrenWait' <=> ChildrenWait) /\ Owing' = Owing
  BY DEF ChildrenWait, Blocks, Pipeline, Interactive, Owing
<1>2. Owed' \subseteq Owed
  BY <1>w DEF Owed
<1>3. ASSUME NEW j, OnEveryList(j)
      PROVE  OnEveryList(j)'
  <2>1. \A k \in Frames : OnList(stack[k], j)
    BY <1>3 DEF OnEveryList
  <2>2. ASSUME NEW i \in Frames'
        PROVE  OnList(stack[i], j)'
    <3>1. CASE stack'[i].pc \notin Owing \cup {"walk", "addWrite"}
      BY <3>1 DEF OnList
    <3>2. CASE \E k \in Frames : stack'[i] = stack[k]
      <4>1. PICK k \in Frames : stack'[i] = stack[k]
        BY <3>2
      <4> QED BY <2>1, <4>1 DEF OnList, Among
    <3> QED BY <3>1, <3>2
  <2>3. j \in Among(jobs)'
    BY <1>3 DEF OnEveryList, Among
  <2> QED BY <2>2, <2>3 DEF OnEveryList
<1>n. ASSUME NEW j, OnNoList(j)
      PROVE  OnNoList(j)'
  <2>1. \A k \in Frames : OffList(stack[k], j)
    BY <1>n DEF OnNoList
  <2>2. ASSUME NEW i \in Frames'
        PROVE  OffList(stack[i], j)'
    <3>1. CASE stack'[i].pc \notin Owing \cup {"walk", "addWrite"}
      BY <3>1 DEF OffList
    <3>2. CASE \E k \in Frames : stack'[i] = stack[k]
      <4>1. PICK k \in Frames : stack'[i] = stack[k]
        BY <3>2
      <4> QED BY <2>1, <4>1 DEF OffList, Among
    <3> QED BY <3>1, <3>2
  <2>3. j \notin Among(jobs)'
    BY <1>n DEF OnNoList, Among
  <2> QED BY <2>2, <2>3 DEF OnNoList
<1>4. KeptOnLists'
  BY <1>1, <1>2, <1>3, <1>n, <1>w DEF LInv, KeptOnLists
<1>5. ASSUME stack' # << >>, NEW j, Raising(j)
      PROVE  Raising(j)'
  <2>1. PICK k \in Frames : WillRaise(stack[k], j)
    BY <1>5 DEF Raising
  <2>2. PICK i \in Frames' : stack'[i] = stack[k]
    BY <1>5, <2>1
  <2> QED BY <2>1, <2>2 DEF Raising, WillRaise, Among
<1>6. ASSUME stack' # << >>, NEW j, LookedAt(j)
      PROVE  LookedAt(j)'
  <2>1. PICK k \in Frames : WillLook(stack[k], j)
    BY <1>6 DEF LookedAt
  <2>2. PICK i \in Frames' : stack'[i] = stack[k]
    BY <1>6, <2>1
  <2> QED BY <2>1, <2>2 DEF LookedAt, WillLook, Among
<1>7. Interactive' = Interactive
  BY DEF Interactive
<1>8. ASSUME Interactive, stack' # << >>, NEW j \in Owed', Failed(j)', j \notin raised'
      PROVE  Raising(j)' \/ (OnEveryList(j)' /\ LookedAt(j)')
  <2>1. stack # << >> /\ j \in Owed /\ Failed(j) /\ j \notin raised
    BY <1>1, <1>2, <1>8
  <2>2. Raising(j) \/ (OnEveryList(j) /\ LookedAt(j))
    BY <1>8, <2>1 DEF LInv, FailuresFound
  <2> QED BY <1>3, <1>5, <1>6, <1>8, <2>2
<1>9. FailuresFound'
  BY <1>7, <1>8 DEF FailuresFound
<1> QED BY <1>4, <1>9 DEF LInv

(* A handler starts, or ends, or the program does.                         *)
LEMMA ListsNest ==
    ASSUME TInv, LInv, raised \subseteq raised',
           \/ Interrupt \/ NotificationEnds
           \/ stack' = << >> /\ UNCHANGED <<setup, jobs, completed, status, started>>
    PROVE  LInv'
<1>0. UNCHANGED <<setup, jobs, completed, status, started>>
  BY DEF Interrupt, NotificationEnds, kernel, procState
<1>3. CASE Interrupt
  <2>1. stack # << >> /\ stack \in Seq(Frame) /\ Top \in Frame
    BY <1>3, TopFacts DEF Interrupt, TInv, TypeOK
  <2>2. Notification(FALSE) \in Frame /\ Notification(FALSE).pc = "update"
    <3>1. Notification(FALSE) \in Frame
      BY <2>1, FrameFacts
    <3> QED BY <3>1 DEF Notification, Idle
  <2>3. /\ Len(stack') = Len(stack) + 1 /\ Len(stack) \in Nat
        /\ stack'[1] = Notification(FALSE)
        /\ \A i \in 2 .. Len(stack) + 1 : stack'[i] = stack[i - 1]
    BY <1>3, <2>1, <2>2, StackFacts DEF Interrupt
  <2>4. \A i \in Frames' : i = 1 \/ (i - 1 \in Frames /\ stack'[i] = stack[i - 1])
    BY <2>3 DEF Frames
  <2>5. \A i \in Frames : i + 1 \in Frames' /\ stack'[i + 1] = stack[i]
    BY <2>3 DEF Frames
  <2>6. \A i \in Frames' : \/ stack'[i].pc \notin Owing \cup {"walk", "addWrite"}
                           \/ \E k \in Frames : stack'[i] = stack[k]
    BY <2>2, <2>3, <2>4 DEF Owing
  <2>7. \A k \in Frames : \E i \in Frames' : stack'[i] = stack[k]
    BY <2>5
  <2> QED BY <1>0, <2>1, <2>6, <2>7, StaysPut
<1>4. CASE NotificationEnds
  <2>1. /\ stack # << >> /\ stack \in Seq(Frame) /\ Top \in Frame
        /\ Top = stack[1] /\ Len(stack) \in Nat \ {0} /\ Top.pc = "report" /\ Top.failed = << >>
    BY <1>4, TopFacts DEF NotificationEnds, At, TInv, TypeOK
  <2>2. Idle \in Frame /\ Idle.pc = "idle"
    <3>1. Idle \in Frame
      BY <2>1, FrameFacts
    <3> QED BY <3>1 DEF Idle
  <2>3. \A j : ~WillRaise(stack[1], j) /\ ~WillLook(stack[1], j)
    BY <2>1 DEF WillRaise, WillLook, Among, Handling
  <2>4. CASE Len(stack) = 1
    <3>1. stack' = <<Idle>> /\ Len(stack') = 1 /\ stack'[1] = Idle
      BY <1>4, <2>1, <2>2, <2>4, StackFacts DEF NotificationEnds
    <3>2. Frames' = {1} /\ Frames = {1}
      BY <2>4, <3>1 DEF Frames
    <3>3. Idle.pc \notin Owing \cup {"walk", "addWrite"}
      BY <2>2 DEF Owing
    <3> QED BY <1>0, <2>1, <2>3, <3>1, <3>2, <3>3, StaysPut
  <2>5. CASE Len(stack) # 1
    <3>1. /\ Len(stack') = Len(stack) - 1
          /\ \A i \in 1 .. Len(stack) - 1 : stack'[i] = stack[i + 1]
      BY <1>4, <2>1, <2>5, StackFacts DEF NotificationEnds
    <3>2. \A i \in Frames' : i + 1 \in Frames /\ stack'[i] = stack[i + 1]
      BY <2>1, <3>1 DEF Frames
    <3>3. \A i \in Frames : i = 1 \/ (i - 1 \in Frames' /\ stack'[i - 1] = stack[i])
      BY <2>1, <3>1 DEF Frames
    <3>4. \A i \in Frames' : \E k \in Frames : stack'[i] = stack[k]
      BY <3>2
    <3>5. \A k \in Frames : k = 1 \/ \E i \in Frames' : stack'[i] = stack[k]
      BY <3>3
    <3> QED BY <1>0, <2>1, <2>3, <3>4, <3>5, StaysPut
  <2> QED BY <2>4, <2>5
<1>5. CASE stack' = << >> /\ UNCHANGED <<setup, jobs, completed, status, started>>
  <2>1. Frames' = {}
    BY <1>5 DEF Frames
  <2> QED BY <1>5, <2>1, StaysPut
<1> QED BY <1>3, <1>4, <1>5

(* The activations that go on and know no more of any process than before. *)
LEMMA ListsMove ==
    ASSUME TInv, SInv, LInv,
           \/ \E p \in Proc : UpdateStatus(p) \/ WaitPid(p)
           \/ UpdateEnds \/ List \/ Walk \/ WalkEnds \/ Report \/ RaiseFailed
           \/ NoChildren \/ WaitCheck \/ WaitDone \/ WaitRaise \/ Wait
           \/ Fork \/ AddRead \/ SendSIGCONT
           \/ \E j \in Job : StartPipeline(j) \/ MarkJobAsRunning(j)
    PROVE  LInv'
<1>1. /\ stack # << >> /\ Top \in Frame /\ FrameOK(Top)
      /\ Top.todo \in Seq(Job) /\ Top.keep \in Seq(Job) /\ Top.failed \in Seq(Job)
  <2>1. stack # << >>
    BY DEF UpdateStatus, WaitPid, UpdateEnds, List, Walk, WalkEnds, Report, RaiseFailed, NoChildren,
           WaitCheck, WaitDone, WaitRaise, Wait, Fork, AddRead, SendSIGCONT, StartPipeline,
           MarkJobAsRunning, At
  <2>2. Top \in Frame /\ FrameOK(Top)
    BY <2>1, TopFacts
  <2> QED BY <2>1, <2>2 DEF Frame
<1>2. /\ jobs \in Seq(Job) /\ started \subseteq Job /\ setup \in Setup
      /\ \A j \in Job : Pipeline[j] \in Seq(Proc)
  BY DEF TInv, TypeOK, Setup, Pipeline
<1>i. Idle \in Frame /\ Idle.failed = << >> /\ Idle.pc = "idle"
  <2>1. Idle \in Frame
    BY <1>1, FrameFacts
  <2> QED BY <2>1 DEF Idle
<1>f. Top.pc \notin {"walk", "report", "raise"} => Among(Top.failed) = {}
  BY <1>1 DEF FrameOK, Among
<1>n. ASSUME NEW f \in Frame
      PROVE  /\ WaitNext(f) \in Frame
             /\ WaitNext(f).pc \in {"idle", "update", "wait"}
             /\ Interactive => WaitNext(f).pc \in {"update", "wait"}
  BY FrameFacts
<1>j. \A j : Failed(j)' => (UNCHANGED <<setup, completed, status>> => Failed(j))
  BY DEF Failed, Completed, Procs, Pipeline
<1>o. \A j : /\ OnEveryList(j) => j \in Among(jobs) /\ OnList(Top, j)
             /\ OnNoList(j) => j \notin Among(jobs) /\ OffList(Top, j)
  BY <1>1, TopFacts DEF OnEveryList, OnNoList
(* Most steps: no list, no failure in hand, and a look ahead still.        *)
<1>q. ASSUME NEW g \in Frame, Continue(g),
             UNCHANGED <<setup, jobs, completed, status, raised, started>>,
             Top.pc \notin {"walk", "report", "raise", "waitRaise"},
             g.pc \notin {"reverse", "setProcs", "release", "walk"},
             g.pc = "addWrite" => g.keep = jobs,
             \/ Top.pc = "idle"
             \/ Interactive => g.pc \in {"update", "updateMark", "list"} \/ g.pc \notin Handling \cup {"idle"}
      PROVE  LInv'
  <2>1. /\ \A j \in Among(jobs) : OnList(g, j)
        /\ \A j : j \notin Among(jobs) => OffList(g, j)
    BY <1>q DEF OnList, OffList
  <2>2. \A j : ~WillRaise(Top, j)
    BY <1>f, <1>q DEF WillRaise
  <2>3. Interactive => \A j : WillLook(Top, j) => WillLook(g, j)
    BY <1>q DEF WillLook, Handling
  <2> QED BY <1>1, <1>q, <2>1, <2>2, <2>3, GoesOnQuietly
<1> USE DEF At
<1>3. ASSUME NEW p \in Proc, UpdateStatus(p) \/ WaitPid(p) PROVE LInv'
  <2>1. PICK f : f = [Top EXCEPT !.pc = IF Top.pc = "wait" THEN "waitMark" ELSE "updateMark"]
    OBVIOUS
  <2>2. PICK g : g = [f EXCEPT !.got = [proc |-> p, status |-> os[p]]]
    OBVIOUS
  <2>3. Reap(p, f) /\ Top.pc \in {"update", "wait"}
    BY <1>3, <2>1 DEF UpdateStatus, WaitPid
  <2>4. Continue(g) /\ p \in news /\ UNCHANGED <<setup, jobs, completed, status, raised, started>>
    BY <2>2, <2>3 DEF Reap, procState
  <2>5. [proc |-> p, status |-> os[p]] \in Got
    BY <2>4 DEF TInv, OneEnd, Ends, Got, Status
  <2>6. g \in Frame /\ g.pc \in {"updateMark", "waitMark"}
    BY <1>1, <2>1, <2>2, <2>5 DEF Frame, PC
  <2> QED BY <1>q, <2>3, <2>4, <2>6 DEF Handling
<1>4. CASE UpdateEnds
  <2>1. PICK g : g = [Top EXCEPT !.pc = "list"]
    OBVIOUS
  <2>2. g \in Frame /\ g.pc = "list"
    BY <1>1, <2>1 DEF Frame, PC
  <2> QED BY <1>q, <1>4, <2>1, <2>2 DEF UpdateEnds, kernel, procState
<1>5. CASE List
  <2>1. PICK g : g = [Top EXCEPT !.pc = "walk", !.todo = jobs, !.keep = << >>]
    OBVIOUS
  <2>2. g \in Frame /\ g.pc = "walk" /\ g.todo = jobs /\ g.keep = << >>
    <3>1. << >> \in Seq(Job)
      OBVIOUS
    <3> QED BY <1>1, <1>2, <2>1, <3>1 DEF Frame, PC
  <2>3. \A j : ~WillRaise(Top, j)
    BY <1>f, <1>5 DEF WillRaise, List
  <2>4. /\ \A j \in Among(jobs) : OnList(g, j) /\ WillLook(g, j)
        /\ \A j : j \notin Among(jobs) => OffList(g, j)
    BY <2>2 DEF OnList, OffList, WillLook, Among
  <2> QED BY <1>1, <1>5, <2>1, <2>2, <2>3, <2>4, GoesOnQuietly DEF List, kernel, procState
<1>6. CASE Walk
  <2>1. PICK h : h = Head(Top.todo)
    OBVIOUS
  <2>2. PICK g : g = [Top EXCEPT
                !.todo = Tail(@),
                !.keep = IF JobIsCompleted(h) THEN @ ELSE Append(@, h),
                !.failed = IF JobFailed(h) THEN <<h>> \o @ ELSE @]
    OBVIOUS
  <2>3. h \in Job /\ Tail(Top.todo) \in Seq(Job) /\ Among(Top.todo) = {h} \cup Among(Tail(Top.todo))
    <3>1. Top.todo # << >> /\ h \in Job
      BY <1>1, <1>6, <2>1 DEF Walk
    <3> QED BY <1>1, <2>1, <3>1, AmongFacts
  <2>4. /\ Append(Top.keep, h) \in Seq(Job) /\ Among(Append(Top.keep, h)) = Among(Top.keep) \cup {h}
        /\ <<h>> \o Top.failed \in Seq(Job) /\ Among(<<h>> \o Top.failed) = {h} \cup Among(Top.failed)
    BY <1>1, <2>3, AmongFacts
  <2>5. /\ g \in Frame /\ g.pc = "walk" /\ Among(g.todo) = Among(Tail(Top.todo))
        /\ Among(g.keep) = IF JobIsCompleted(h) THEN Among(Top.keep) ELSE Among(Top.keep) \cup {h}
        /\ Among(g.failed) = IF JobFailed(h) THEN {h} \cup Among(Top.failed) ELSE Among(Top.failed)
    BY <1>1, <1>6, <2>2, <2>3, <2>4 DEF Frame, Walk
  <2>6. /\ Continue(g) /\ UNCHANGED <<setup, jobs, completed, status, raised, started>>
        /\ Top.pc = "walk"
    BY <1>6, <2>1, <2>2 DEF Walk, kernel, procState
  <2>7. \A j : Completed(j)' <=> Completed(j)
    BY <2>6 DEF Completed, Procs, Pipeline
  <2>w. \A j \in Owed : (JobIsCompleted(j) => Completed(j)) /\ (Failed(j) => JobFailed(j))
    BY Whole
  <2>n. ASSUME NEW j \in Owed, OnNoList(j)
        PROVE  j \notin Among(jobs') /\ OffList(g, j)
    BY <1>o, <2>3, <2>5, <2>6, <2>n DEF OffList
  <2>8. ASSUME NEW j \in Owed, OnEveryList(j)
        PROVE  /\ j \in Among(jobs')
               /\ OnList(g, j) \/ (j = h /\ JobIsCompleted(h))
               /\ WillLook(g, j) \/ j = h \/ ~WillLook(Top, j)
    BY <1>o, <2>3, <2>5, <2>6, <2>8 DEF OnList, WillLook, Handling
  <2>9. \A j : WillRaise(Top, j) => WillRaise(g, j)
    BY <2>5, <2>6 DEF WillRaise
  <2>10. JobFailed(h) => WillRaise(g, h)
    BY <2>5 DEF WillRaise
  <2>11. ASSUME NEW j \in Owed, OnEveryList(j)
         PROVE  Completed(j)' \/ (j \in Among(jobs') /\ OnList(g, j))
    BY <2>7, <2>8, <2>11, <2>w
  <2>12. \A j \in Owed : j = h /\ Failed(j) => JobFailed(h)
    BY <2>w
  <2>13. ASSUME NEW j \in Owed, Failed(j)', j \notin raised'
         PROVE  /\ Failed(j)
                /\ WillRaise(Top, j) => WillRaise(g, j)
                /\ OnEveryList(j) =>
                      \/ WillRaise(g, j)
                      \/ /\ j \in Among(jobs') /\ OnList(g, j)
                         /\ WillLook(Top, j) => WillLook(g, j)
    BY <1>j, <2>6, <2>8, <2>9, <2>10, <2>12, <2>13, <2>w
  <2> QED BY <1>1, <2>5, <2>6, <2>11, <2>13, <2>n, GoesOn
<1>7. CASE WalkEnds
  <2>1. PICK g : g = [Top EXCEPT !.pc = "report", !.keep = << >>]
    OBVIOUS
  <2>2. g \in Frame /\ g.pc = "report" /\ g.failed = Top.failed
    <3>1. << >> \in Seq(Job) /\ "report" \in PC
      BY DEF PC
    <3> QED BY <1>1, <2>1, <3>1 DEF Frame
  <2>3. /\ Continue(g) /\ UNCHANGED <<setup, completed, status, raised, started>> /\ jobs' = Top.keep
        /\ Top.pc = "walk" /\ Top.todo = << >>
    BY <1>7, <2>1 DEF WalkEnds, kernel, procState
  <2>4. \A j : /\ OnEveryList(j) => j \in Among(jobs') /\ OnList(g, j)
               /\ OnNoList(j) => j \notin Among(jobs') /\ OffList(g, j)
    BY <1>o, <2>2, <2>3 DEF OnList, OffList, Among
  <2>5. \A j : ~WillLook(Top, j)
    BY <2>3 DEF WillLook, Among, Handling
  <2>6. \A j : WillRaise(Top, j) => WillRaise(g, j)
    BY <2>2, <2>3 DEF WillRaise
  <2> QED BY <1>1, <1>j, <2>2, <2>3, <2>4, <2>5, <2>6, GoesOn
<1>8. CASE Report
  <2>1. PICK g : g = IF Head(Top.failed) \in raised
                THEN [Top EXCEPT !.failed = Tail(@)]
                ELSE [Top EXCEPT !.failed = Tail(@), !.job = Head(Top.failed),
                                 !.pc = "raise"]
    OBVIOUS
  <2>2. /\ Head(Top.failed) \in Job /\ Tail(Top.failed) \in Seq(Job)
        /\ Among(Top.failed) = {Head(Top.failed)} \cup Among(Tail(Top.failed))
    <3>1. Top.failed # << >> /\ Head(Top.failed) \in Job
      BY <1>1, <1>8 DEF Report
    <3> QED BY <1>1, <3>1, AmongFacts
  <2>3. /\ g \in Frame /\ g.pc \in {"report", "raise"} /\ g.failed = Tail(Top.failed)
        /\ Head(Top.failed) \notin raised => g.pc = "raise" /\ g.job = Head(Top.failed)
    BY <1>1, <1>8, <2>1, <2>2 DEF Frame, PC, Report
  <2>4. /\ Continue(g) /\ UNCHANGED <<setup, jobs, completed, status, raised, started>>
        /\ Top.pc = "report"
    BY <1>8, <2>1 DEF Report, kernel, procState
  <2>5. \A j : OnList(g, j) /\ OffList(g, j) /\ ~WillLook(Top, j)
    BY <2>3, <2>4 DEF OnList, OffList, WillLook, Handling
  <2>6. \A j : WillRaise(Top, j) /\ j \notin raised' => WillRaise(g, j)
    BY <2>2, <2>3, <2>4 DEF WillRaise
  <2>7. \A j : (OnEveryList(j) => j \in Among(jobs')) /\ (OnNoList(j) => j \notin Among(jobs'))
    BY <1>o, <2>4
  <2> QED BY <1>1, <1>j, <2>3, <2>4, <2>5, <2>6, <2>7, GoesOn
<1>9. CASE RaiseFailed
  <2>1. PICK g : g = [Top EXCEPT !.job = NoJob, !.pc = "report"]
    OBVIOUS
  <2>2. g \in Frame /\ g.pc = "report" /\ g.failed = Top.failed
    BY <1>1, <2>1 DEF Frame, PC
  <2>3. /\ Continue(g) \/ stack' = << >>
        /\ UNCHANGED <<setup, jobs, completed, status, started>> /\ raised' = raised \cup {Top.job}
        /\ Top.pc = "raise"
    BY <1>9, <2>1 DEF RaiseFailed, Reraise, kernel, procState
  <2>4. \A j : OnList(g, j) /\ OffList(g, j) /\ ~WillLook(Top, j)
    BY <2>2, <2>3 DEF OnList, OffList, WillLook, Handling
  <2>5. \A j : WillRaise(Top, j) /\ j \notin raised' => WillRaise(g, j)
    BY <2>2, <2>3 DEF WillRaise
  <2>6. \A j : (OnEveryList(j) => j \in Among(jobs')) /\ (OnNoList(j) => j \notin Among(jobs'))
    BY <1>o, <2>3
  <2>7. raised \subseteq raised'
    BY <2>3
  <2>8. CASE Continue(g)
    BY <1>1, <1>j, <2>2, <2>3, <2>4, <2>5, <2>6, <2>7, <2>8, GoesOn
  <2>9. CASE stack' = << >>
    BY <2>3, <2>7, <2>9, ListsNest
  <2> QED BY <2>3, <2>8, <2>9
<1>10. CASE NoChildren \/ WaitCheck
  <2>1. PICK pc \in {"wait", "waitDone"} : Continue([Top EXCEPT !.pc = pc])
    BY <1>10 DEF NoChildren, WaitCheck
  <2>2. PICK g : g = [Top EXCEPT !.pc = pc]
    OBVIOUS
  <2>3. g \in Frame /\ g.pc = pc
    BY <1>1, <2>1, <2>2 DEF Frame, PC
  <2>4. UNCHANGED <<setup, jobs, completed, status, raised, started>> /\ Top.pc \in {"wait", "waitCheck"}
    BY <1>10 DEF NoChildren, WaitCheck, kernel, procState
  <2> QED BY <1>q, <2>1, <2>2, <2>3, <2>4 DEF Handling
<1>11. CASE WaitDone
  <2>1. PICK g : g = IF JobFailed(Top.job) /\ Top.job \notin raised
                     THEN [Top EXCEPT !.pc = "waitRaise"] ELSE WaitNext(Top)
    OBVIOUS
  <2>2. /\ g \in Frame /\ g.pc \in {"waitRaise", "idle", "update", "wait"}
        /\ Interactive => g.pc # "idle"
    BY <1>1, <1>n, <2>1 DEF Frame, PC
  <2>3. Continue(g) /\ UNCHANGED <<setup, jobs, completed, status, raised, started>> /\ Top.pc = "waitDone"
    BY <1>11, <2>1 DEF WaitDone, kernel, procState
  <2> QED BY <1>q, <2>2, <2>3 DEF Handling
<1>12. CASE WaitRaise
  <2>1. PICK g : g = WaitNext(Top)
    OBVIOUS
  <2>2. /\ g \in Frame /\ g.pc \in {"idle", "update", "wait"}
        /\ Interactive => g.pc \in {"update", "wait"}
    BY <1>1, <1>n, <2>1
  <2>3. /\ Continue(g) \/ stack' = << >>
        /\ UNCHANGED <<setup, jobs, completed, status, started>> /\ raised' = raised \cup {Top.job}
        /\ Top.pc = "waitRaise"
    BY <1>12, <2>1 DEF WaitRaise, Reraise, kernel, procState
  <2>4. \A j : OnList(g, j) /\ OffList(g, j) /\ (Interactive => WillLook(g, j))
    BY <2>2 DEF OnList, OffList, WillLook, Handling
  <2>5. \A j : WillRaise(Top, j) => j \in raised'
    BY <1>f, <2>3 DEF WillRaise
  <2>6. \A j : (OnEveryList(j) => j \in Among(jobs')) /\ (OnNoList(j) => j \notin Among(jobs'))
    BY <1>o, <2>3
  <2>7. raised \subseteq raised'
    BY <2>3
  <2>8. CASE Continue(g)
    BY <1>1, <1>j, <2>2, <2>3, <2>4, <2>5, <2>6, <2>7, <2>8, GoesOn
  <2>9. CASE stack' = << >>
    BY <2>3, <2>7, <2>9, ListsNest
  <2> QED BY <2>3, <2>8, <2>9
<1>13. CASE Wait
  <2>1. PICK f : f = [Idle EXCEPT !.notify = TRUE, !.wait = jobs]
    OBVIOUS
  <2>2. f \in Frame
    BY <1>i, <1>2, <2>1 DEF Frame
  <2>3. PICK g : g = WaitNext(f)
    OBVIOUS
  <2>4. g \in Frame /\ g.pc \in {"idle", "update", "wait"}
    BY <1>n, <2>2, <2>3
  <2> QED BY <1>q, <1>13, <2>1, <2>3, <2>4 DEF Wait, kernel, procState
<1>14. CASE Fork
  <2>1. PICK g : g = IF Top.k < Len(Pipeline[Top.job]) THEN [Top EXCEPT !.k = Top.k + 1]
                     ELSE [Top EXCEPT !.k = 0, !.pc = "addRead"]
    OBVIOUS
  <2>2. Continue(g) /\ UNCHANGED <<setup, jobs, completed, status, raised, started>> /\ Top.pc = "fork"
    BY <1>14, <2>1 DEF Fork, procState
  <2>3. g \in Frame /\ g.pc \in {"fork", "addRead"}
    <3>1. Top.k + 1 \in Nat /\ 0 \in Nat
      BY <1>1 DEF Frame
    <3>2. CASE Top.k < Len(Pipeline[Top.job])
      BY <1>1, <2>1, <2>2, <3>1, <3>2 DEF Frame, PC
    <3>3. CASE ~ (Top.k < Len(Pipeline[Top.job]))
      BY <1>1, <2>1, <2>2, <3>1, <3>3 DEF Frame, PC
    <3> QED BY <3>2, <3>3
  <2> QED BY <1>q, <2>2, <2>3 DEF Handling
<1>15. CASE AddRead
  <2>1. PICK g : g = [Top EXCEPT !.pc = "addWrite", !.keep = jobs]
    OBVIOUS
  <2>2. g \in Frame /\ g.pc = "addWrite" /\ g.keep = jobs
    BY <1>1, <1>2, <2>1 DEF Frame, PC
  <2> QED BY <1>q, <1>15, <2>1, <2>2 DEF AddRead, kernel, procState, Handling
<1>16. CASE SendSIGCONT
  <2>1. PICK g : g = IF \E p \in Procs(Top.job) : IsChild(p) THEN WaitNext(Top) ELSE AfterCommand(FALSE)
    OBVIOUS
  <2>2. /\ g \in Frame /\ g.pc \in {"idle", "update", "wait"}
        /\ Interactive => g.pc \in {"update", "wait"}
    <3>1. /\ AfterCommand(FALSE) \in Frame /\ AfterCommand(FALSE).pc \in {"idle", "update"}
          /\ Interactive => AfterCommand(FALSE).pc = "update"
      BY <1>1, FrameFacts
    <3> QED BY <1>1, <1>n, <2>1, <3>1
  <2>3. /\ Continue(g) /\ UNCHANGED <<setup, jobs, started, completed, status, raised>>
        /\ Top.pc = "cont"
    BY <1>16, <2>1 DEF SendSIGCONT, procState
  <2> QED BY <1>q, <2>2, <2>3 DEF Handling
<1>17. ASSUME NEW j \in Job, StartPipeline(j) PROVE LInv'
  <2>1. PICK g : g = [Idle EXCEPT !.pc = "fork", !.job = j, !.k = 1]
    OBVIOUS
  <2>2. g \in Frame /\ g.pc = "fork"
    BY <1>i, <2>1 DEF Frame, PC
  <2> QED BY <1>q, <1>17, <2>1, <2>2 DEF StartPipeline, kernel, procState
<1>18. ASSUME NEW j \in Job, MarkJobAsRunning(j) PROVE LInv'
  <2>1. PICK fg \in BOOLEAN :
           Continue([Idle EXCEPT !.pc = "cont", !.job = j, !.wait = IF fg THEN <<j>> ELSE << >>])
    BY <1>18 DEF MarkJobAsRunning
  <2>2. PICK g : g = [Idle EXCEPT !.pc = "cont", !.job = j, !.wait = IF fg THEN <<j>> ELSE << >>]
    OBVIOUS
  <2>3. g \in Frame /\ g.pc = "cont"
    <3>1. (IF fg THEN <<j>> ELSE << >>) \in Seq(Job)
      OBVIOUS
    <3> QED BY <1>i, <2>2, <3>1 DEF Frame, PC
  <2> QED BY <1>q, <1>18, <2>1, <2>2, <2>3 DEF MarkJobAsRunning, kernel
<1> QED BY <1>3, <1>4, <1>5, <1>6, <1>7, <1>8, <1>9, <1>10, <1>11, <1>12, <1>13, <1>14, <1>15,
           <1>16, <1>17, <1>18

(* A status is put where its job has it: a job that has failed by it was   *)
(* not completed before, and so is on the lists still to be looked at.     *)
LEMMA ListsMark ==
    ASSUME TInv, SInv, LInv, UpdateMark \/ WaitMark
    PROVE  LInv'
<1>1. /\ stack # << >> /\ Top \in Frame /\ FrameOK(Top) /\ Top = stack[1] /\ 1 \in Frames
      /\ Top.pc \in {"updateMark", "waitMark"}
  BY TopFacts DEF UpdateMark, WaitMark, At
<1>2. PICK p : p = Top.got.proc
  OBVIOUS
<1>3. PICK pc \in {"update", "list", "waitDone", "waitCheck"} :
         Continue([Top EXCEPT !.pc = pc, !.got = NoGot])
  BY DEF UpdateMark, WaitMark
<1>4. PICK g : g = [Top EXCEPT !.pc = pc, !.got = NoGot]
  OBVIOUS
<1>5. /\ MarkProcessStatus(Top.got)
      /\ UNCHANGED <<setup, jobs, started, raised>>
  BY DEF UpdateMark, WaitMark, kernel
<1>6. g \in Frame /\ g.pc = pc
  <2>1. NoGot \in Got
    BY DEF NoGot, Got, Status
  <2> QED BY <1>1, <1>3, <1>4, <2>1 DEF Frame, PC
<1>7. p \in Proc /\ Top.got.status \in Ends \cup {"stopped"} /\ Among(Top.failed) = {}
  BY <1>1, <1>2 DEF FrameOK, Among
<1>8. /\ completed \subseteq completed'
      /\ \A q : status'[q] # status[q] => q = p /\ status'[p] = Top.got.status
  <2>1. status \in [Proc -> Status]
    BY DEF TInv, TypeOK
  <2> QED BY <1>2, <1>5, <2>1 DEF MarkProcessStatus
<1>9. Top.got.status = "failed" => p \notin completed
  <2>1. Top.got.status = "failed" => HoldsEnd(1, p)
    BY <1>1, <1>2 DEF HoldsEnd, Ends
  <2> QED BY <1>1, <1>7, <2>1 DEF TInv, OneEnd
<1>10. \A j : OnList(g, j) /\ OffList(g, j) /\ WillLook(g, j) /\ ~WillRaise(Top, j)
  BY <1>1, <1>6, <1>7 DEF OnList, OffList, WillLook, WillRaise, Handling
<1>11. \A j : (OnEveryList(j) => j \in Among(jobs')) /\ (OnNoList(j) => j \notin Among(jobs'))
  BY <1>5 DEF OnEveryList, OnNoList
<1>12. ASSUME NEW j \in Owed, Failed(j)', ~Failed(j)
       PROVE  OnEveryList(j)
  <2>1. ~Completed(j)
    <3>1. PICK q \in Procs(j) : status'[q] = "failed"
      BY <1>5, <1>12 DEF Failed, Procs, Pipeline
    <3>2. ASSUME Completed(j) PROVE FALSE
      <4>1. status[q] # "failed" /\ q \in completed
        BY <1>12, <3>1, <3>2 DEF Failed, Completed
      <4> QED BY <1>8, <1>9, <3>1, <4>1
    <3> QED BY <3>2
  <2>2. \E q \in Procs(j) : q \in completed' /\ q \notin completed
    BY <1>5, <1>12, <2>1 DEF Failed, Completed, Procs, Pipeline
  <2>3. PICK i \in Listed : p \in Shown(i) /\ p \in Procs(j)
    BY <1>2, <1>5, <2>2 DEF MarkProcessStatus
  <2>4. i \in Job /\ j \in Job /\ p \in Procs(i)
    BY <2>3, Whole DEF Listed, TInv, TypeOK
  <2>5. i = j
    BY <2>3, <2>4, JobControlAssumption DEF JobControlAssumption, Procs, Pipeline, TInv
  <2>6. j \in Among(jobs)
    BY <2>3, <2>5 DEF Listed, Among
  <2> QED BY <1>12, <2>1, <2>6 DEF LInv, KeptOnLists, OnNoList
<1> QED BY <1>1, <1>3, <1>4, <1>5, <1>6, <1>8, <1>10, <1>11, <1>12, GoesOn

(* A job is put on the list, turned round and let go: the program is the   *)
(* only activation then, so a job is on %idio-jobs or on no list at all.   *)
LEMMA ListsStart ==
    ASSUME TInv, SInv, LInv, AddWrite \/ Reverse \/ SetProcs \/ Release \/ \E j \in Job : Launch1(j)
    PROVE  LInv'
<1>1. /\ stack # << >> /\ Top \in Frame /\ FrameOK(Top) /\ Top = stack[1] /\ Len(stack) = 1
      /\ Frames = {1}
  <2>1. stack # << >> /\ Top.pc \in {"addWrite", "reverse", "setProcs", "release", "idle"}
    BY DEF AddWrite, Reverse, SetProcs, Release, Launch1, At
  <2>2. Len(stack) = 1
    BY <2>1, TopFacts DEF Handling
  <2> QED BY <2>1, <2>2, TopFacts DEF Frames
<1>2. jobs \in Seq(Job) /\ started \subseteq Job
  BY DEF TInv, TypeOK
(* Every job owed something then is on the list, as it was before; or its  *)
(* first process is not completed.                                         *)
<1>s. ASSUME NEW g \in Frame, Continue(g), UNCHANGED <<setup, completed, status, raised>>,
             Top.pc \in Starting \cup {"idle"}, g.pc \notin {"walk", "addWrite"},
             NEW j \in Job,
             \A i \in Owed' : \/ i \in Owed /\ ~ (i = j /\ i \in Among(jobs'))
                              \/ i = j /\ i \in Among(jobs')
                              \/ i = j /\ ~ChildrenWait /\ ~Completed(j),
             \A i \in Among(jobs) : OnList(Top, i) => i \in Among(jobs'),
             \A i \in Owed : OnNoList(i) => i \notin Among(jobs') \/ i = j,
             Interactive => g.pc \in {"update", "wait"} \cup Starting
      PROVE  LInv'
  <2>1. Len(stack') = 1 /\ stack'[1] = g
    BY <1>1, <1>s, StackFacts DEF Continue, TInv, TypeOK
  <2>2. Frames' = {1}
    BY <2>1 DEF Frames
  <2>3. \A i : /\ i \in Among(jobs') => OnEveryList(i)'
               /\ i \notin Among(jobs') => OnNoList(i)'
    BY <1>s, <2>1, <2>2 DEF OnEveryList, OnNoList, OnList, OffList, Among
  <2>4. \A i : OnEveryList(i) => OnEveryList(i)'
    BY <1>1, <1>s, <2>3 DEF OnEveryList
  <2>5. \A i : ~Raising(i)
    <3>1. Among(Top.failed) = {}
      BY <1>1, <1>s DEF FrameOK, Among, Starting
    <3> QED BY <1>1, <1>s, <3>1 DEF Raising, WillRaise, Starting
  <2>6. Interactive => \A i : LookedAt(i)'
    BY <1>s, <2>1, <2>2 DEF LookedAt, WillLook, Handling, Starting
  <2>7. /\ \A i : /\ Completed(i)' <=> Completed(i)
                  /\ Failed(i)' => Failed(i)
        /\ \A i : Failed(i) => Completed(i)
        /\ (ChildrenWait' <=> ChildrenWait) /\ Interactive' = Interactive
    BY <1>s DEF Failed, Completed, Procs, Pipeline, ChildrenWait, Blocks, Interactive
  <2>8. ASSUME NEW i \in Owed'
        PROVE  Completed(i)' \/ OnEveryList(i)' \/ (~ChildrenWait' /\ OnNoList(i)')
    <3>1. CASE i \in Owed
      BY <2>3, <2>4, <2>7, <3>1 DEF LInv, KeptOnLists
    <3> QED BY <1>s, <2>3, <2>7, <2>8, <3>1
  <2>9. KeptOnLists'
    BY <2>8 DEF KeptOnLists
  <2>10. ASSUME Interactive, NEW i \in Owed', Failed(i)', i \notin raised'
         PROVE  OnEveryList(i)'
    <3>1. CASE i = j /\ i \in Among(jobs')
      BY <2>3, <3>1
    <3>2. CASE i \in Owed
      BY <1>1, <1>s, <2>4, <2>5, <2>7, <2>10, <3>2 DEF LInv, FailuresFound
    <3> QED BY <1>s, <2>7, <2>10, <3>1, <3>2
  <2>11. FailuresFound'
    BY <2>6, <2>7, <2>10 DEF FailuresFound
  <2> QED BY <2>9, <2>11 DEF LInv
<1>l. ASSUME NEW j \in Job
      PROVE  /\ Launched(j) \in Frame /\ Launched(j).pc \in {"idle", "update", "wait"}
             /\ Interactive => Launched(j).pc \in {"update", "wait"}
  <2>1. PICK f : f = [Idle EXCEPT !.wait = IF j \in Foreground THEN <<j>> ELSE << >>]
    OBVIOUS
  <2>2. f \in Frame
    <3>1. (IF j \in Foreground THEN <<j>> ELSE << >>) \in Seq(Job)
      OBVIOUS
    <3>2. Idle \in Frame
      BY <1>1, FrameFacts
    <3> QED BY <2>1, <3>1, <3>2 DEF Frame
  <2> QED BY <2>1, <2>2, FrameFacts DEF Launched
(* What is owed something after: the job of the only activation as well.   *)
<1>w. ASSUME NEW g \in Frame, Continue(g), setup' = setup
      PROVE  /\ Owing' = Owing
             /\ Owed' = started' \cup (IF g.pc \in Owing THEN {g.job} ELSE {})
             /\ Owed = started \cup (IF Top.pc \in Owing THEN {Top.job} ELSE {})
  <2>1. Owing' = Owing
    BY <1>w DEF Owing, ChildrenWait, Blocks, Pipeline, Interactive
  <2>2. Len(stack') = 1 /\ stack'[1] = g
    BY <1>1, <1>w, StackFacts DEF Continue, TInv, TypeOK
  <2>3. Frames' = {1}
    BY <2>2 DEF Frames
  <2> QED BY <1>1, <2>1, <2>2, <2>3 DEF Owed
<1> USE DEF At
<1>3. CASE AddWrite
  <2>1. PICK g : g = [Top EXCEPT !.pc = "reverse", !.keep = << >>]
    OBVIOUS
  <2>2. g \in Frame /\ g.pc = "reverse" /\ g.job = Top.job
    <3>1. << >> \in Seq(Job) /\ "reverse" \in PC
      BY DEF PC
    <3> QED BY <1>1, <2>1, <3>1 DEF Frame
  <2>3. /\ Top.pc = "addWrite" /\ Top.job \in Job /\ Top.keep \in Seq(Job)
        /\ jobs' = <<Top.job>> \o Top.keep
        /\ Continue(g) /\ UNCHANGED <<setup, completed, status, raised, started>>
    BY <1>1, <1>3, <2>1 DEF AddWrite, kernel, procState, FrameOK, AboutJob, Starting, Frame
  <2>4. Among(jobs') = {Top.job} \cup Among(Top.keep)
    BY <2>3, AmongFacts
  <2>5. \A i \in Owed' : i \in Owed \/ i = Top.job
    BY <1>w, <2>2, <2>3 DEF Owing
  <2>6. /\ \A i \in Among(jobs) : OnList(Top, i) => i \in Among(jobs')
        /\ \A i : OnNoList(i) => i \notin Among(jobs') \/ i = Top.job
    BY <1>1, <2>3, <2>4 DEF OnList, OnNoList, OffList
  <2> QED BY <1>s, <2>2, <2>3, <2>4, <2>5, <2>6 DEF Starting
<1>4. CASE Reverse
  <2>1. PICK g : g = [Top EXCEPT !.pc = "setProcs"]
    OBVIOUS
  <2>2. g \in Frame /\ g.pc = "setProcs" /\ g.job = Top.job
    BY <1>1, <2>1 DEF Frame, PC
  <2>3. /\ Top.pc = "reverse" /\ Top.job \in Job
        /\ Continue(g) /\ UNCHANGED <<setup, jobs, completed, status, raised, started>>
    BY <1>1, <1>4, <2>1 DEF Reverse, kernel, procState, FrameOK, AboutJob, Starting
  <2>4. \A i \in Owed' : i \in Owed
    BY <1>w, <2>2, <2>3 DEF Owing
  <2>5. \A i : OnNoList(i) => i \notin Among(jobs')
    BY <2>3 DEF OnNoList
  <2> QED BY <1>s, <2>2, <2>3, <2>4, <2>5 DEF Starting
<1>5. CASE SetProcs
  <2>1. PICK g : g = [Top EXCEPT !.pc = "release"]
    OBVIOUS
  <2>2. g \in Frame /\ g.pc = "release" /\ g.job = Top.job
    BY <1>1, <2>1 DEF Frame, PC
  <2>3. /\ Top.pc = "setProcs" /\ Top.job \in Job
        /\ Continue(g) /\ UNCHANGED <<setup, jobs, completed, status, raised, started>>
    BY <1>1, <1>5, <2>1 DEF SetProcs, kernel, procState, FrameOK, AboutJob, Starting
  <2>4. \A i \in Owed' : i \in Owed \/ (i = Top.job /\ ~ChildrenWait)
    BY <1>w, <2>2, <2>3 DEF Owing
  <2>5. \A i : OnNoList(i) => i \notin Among(jobs')
    BY <2>3 DEF OnNoList
  <2>6. ~Completed(Top.job)
    <3>1. os[Pipeline[Top.job][1]] \in {"none", "blocked"}
      BY <1>1, <2>3 DEF SInv, StartingOK, Starting
    <3>2. Pipeline[Top.job] \in Seq(Proc) /\ Len(Pipeline[Top.job]) > 0
      BY <2>3, JobControlAssumption DEF JobControlAssumption, TInv, TypeOK, Setup, Pipeline
    <3>3. Pipeline[Top.job][1] \in Procs(Top.job)
      BY <3>2 DEF Procs
    <3> QED BY <3>1, <3>3 DEF Completed, TInv, OneEnd, Ends
  <2> QED BY <1>s, <2>2, <2>3, <2>4, <2>5, <2>6 DEF Starting
<1>6. CASE Release
  <2>1. PICK j \in Job : j = Top.job
    BY <1>1, <1>6 DEF Release, FrameOK, AboutJob, Starting
  <2>2. PICK g : g = Launched(j)
    OBVIOUS
  <2>3. g \in Frame /\ g.pc \in {"idle", "update", "wait"} /\ (Interactive => g.pc \in {"update", "wait"})
    BY <1>l, <2>2
  <2>4. /\ Top.pc = "release" /\ Continue(g) /\ started' = started \cup {j}
        /\ UNCHANGED <<setup, jobs, completed, status, raised>>
    BY <1>6, <2>1, <2>2 DEF Release, procState
  <2>5. \A i \in Owed' : i \in Owed
    BY <1>w, <2>1, <2>3, <2>4 DEF Owing
  <2>6. \A i : OnNoList(i) => i \notin Among(jobs')
    BY <2>4 DEF OnNoList
  <2> QED BY <1>s, <2>3, <2>4, <2>5, <2>6 DEF Starting
<1>7. ASSUME NEW j \in Job, Launch1(j) PROVE LInv'
  <2>1. PICK g : g = Launched(j)
    OBVIOUS
  <2>2. g \in Frame /\ g.pc \in {"idle", "update", "wait"} /\ (Interactive => g.pc \in {"update", "wait"})
    BY <1>l, <2>1
  <2>3. /\ Top.pc = "idle" /\ Continue(g) /\ started' = started \cup {j} /\ jobs' = <<j>> \o jobs
        /\ UNCHANGED <<setup, completed, status, raised>>
    BY <1>7, <2>1 DEF Launch1, procState
  <2>4. Among(jobs') = {j} \cup Among(jobs)
    BY <1>2, <2>3, AmongFacts
  <2>5. \A i \in Owed' : i \in Owed \/ i = j
    BY <1>w, <2>2, <2>3 DEF Owing
  <2>6. \A i : OnNoList(i) => i \notin Among(jobs') \/ i = j
    BY <2>4 DEF OnNoList
  <2> QED BY <1>s, <2>2, <2>3, <2>4, <2>5, <2>6
<1> QED BY <1>3, <1>4, <1>5, <1>6, <1>7

(* The lists are kept, and the failures found, in every behaviour.         *)
LEMMA Kept == Spec => []LInv
<1>1. Init => LInv
  <2> SUFFICES ASSUME Init PROVE LInv
    OBVIOUS
  <2>1. Owed = {}
    <3>1. Len(stack) = 1 /\ stack[1].pc = "idle" /\ started = {}
      BY DEF Init, Idle
    <3> QED BY <3>1 DEF Owed, Owing, Frames
  <2> QED BY <2>1 DEF LInv, KeptOnLists, FailuresFound
<1>2. TInv /\ SInv /\ LInv /\ [Next]_vars => LInv'
  <2> SUFFICES ASSUME TInv, SInv, LInv, [Next]_vars PROVE LInv'
    OBVIOUS
  <2>1. CASE Interrupt \/ NotificationEnds
    <3>1. raised \subseteq raised'
      BY <2>1 DEF Interrupt, NotificationEnds
    <3> QED BY <2>1, <3>1, ListsNest
  <2>2. CASE Exit
    <3>1. raised \subseteq raised' /\ stack' = << >> /\ UNCHANGED <<setup, jobs, completed, status, started>>
      BY <2>2 DEF Exit, kernel, procState
    <3> QED BY <3>1, ListsNest
  <2>3. CASE \/ \E p \in Proc : UpdateStatus(p) \/ WaitPid(p)
             \/ UpdateEnds \/ List \/ Walk \/ WalkEnds \/ Report \/ RaiseFailed
             \/ NoChildren \/ WaitCheck \/ WaitDone \/ WaitRaise \/ Wait
             \/ Fork \/ AddRead \/ SendSIGCONT
             \/ \E j \in Job : StartPipeline(j) \/ MarkJobAsRunning(j)
    BY <2>3, ListsMove
  <2>4. CASE UpdateMark \/ WaitMark
    BY <2>4, ListsMark
  <2>5. CASE AddWrite \/ Reverse \/ SetProcs \/ Release \/ \E j \in Job : Launch1(j)
    BY <2>5, ListsStart
  <2>6. CASE Children \/ UNCHANGED vars \/ \E j \in Job : StopJob(j)
    <3>1. UNCHANGED <<setup, jobs, completed, status, started, raised, stack>>
      BY <2>6 DEF Children, ChildExits, ChildStops, ChildContinues, Changed, StopJob, vars, procState
    <3>2. Frames' = Frames /\ \A i \in Frames : stack'[i] = stack[i]
      BY <3>1 DEF Frames
    <3> QED BY <3>1, <3>2, StaysPut
  <2> QED BY <2>1, <2>2, <2>3, <2>4, <2>5, <2>6 DEF Next, Shell, Program, Gone
<1> QED BY <1>1, <1>2, Typed, Begins, PTL DEF Spec

(* A job with processes left is on %idio-jobs, when every child waits for  *)
(* its job to be listed: one whose list is Reversed has none that ended.   *)
(* jc_reverse shows a job dropped when a child does not wait.              *)
THEOREM NothingForgotten == Spec => [](ChildrenWait => NotForgotten)
<1>1. LInv => (ChildrenWait => NotForgotten)
  BY DEF LInv, KeptOnLists, Owed, OnEveryList, Among, NotForgotten, Listed, Completed
<1> QED BY <1>1, Kept, PTL

(* When the shell prompts, every failure has raised its condition: the     *)
(* program's activation is at rest and has none in its hands, nor anything *)
(* left to look at.                                                        *)
THEOREM FailuresRaised == Spec => []FailureRaised
<1>1. TInv /\ SInv /\ LInv => FailureRaised
  <2> SUFFICES ASSUME TInv, SInv, LInv, Quiet, Interactive, NEW j \in started, JobFailed(j), j \notin raised
               PROVE  FALSE
    BY DEF FailureRaised
  <2>1. /\ stack # << >> /\ Top.pc = "idle" /\ Len(stack) = 1
    BY DEF Quiet, At
  <2>2. Top = stack[1] /\ FrameOK(Top) /\ Frames = {1}
    BY <2>1, TopFacts DEF Frames
  <2>3. Among(Top.failed) = {}
    BY <2>1, <2>2 DEF FrameOK, Among
  <2>4. ~Raising(j) /\ ~LookedAt(j)
    BY <2>1, <2>2, <2>3 DEF Raising, WillRaise, LookedAt, WillLook, Handling
  <2>5. j \in Owed /\ Failed(j)
    BY Whole DEF Owed
  <2> QED BY <2>1, <2>4, <2>5 DEF LInv, FailuresFound
<1> QED BY <1>1, Typed, Begins, Kept, PTL
-----------------------------------------------------------------------------
(* When every child waits for its job to be listed, a change of a process  *)
(* that has not come to its end is about a job on the list.                *)
LEMMA Known ==
    ASSUME TInv, SInv, LInv, ChildrenWait, RunsWhenStarted, NEW p \in Proc,
           os[p] \notin {"none", "blocked"}, p \notin completed
    PROVE  \E j \in Listed : p \in Procs(j) /\ p \in Shown(j) /\ ~Reversed(j)
<1>1. PICK j \in started : p \in Procs(j)
  BY DEF RunsWhenStarted
<1>2. j \in Owed /\ ~Completed(j)
  BY <1>1 DEF Owed, Completed
<1>3. j \in Among(jobs)
  BY <1>2 DEF LInv, KeptOnLists, OnEveryList
<1>4. ~Reversed(j)
  BY DEF Reversed, SInv, StartingOK, Starting, Frames
<1>5. p \in Shown(j)
  BY <1>1, <1>4 DEF Shown
<1> QED BY <1>1, <1>3, <1>4, <1>5 DEF Among, Listed

(* No status changes hands, and the processes that change are signalled:   *)
(* the activations that go hold none.                                      *)
LEMMA Carries ==
    ASSUME TInv, NInv, Signalled', setup' = setup, started \subseteq started',
           completed \subseteq completed', stopped \subseteq stopped',
           stack' # << >> =>
               /\ stack # << >>
               /\ \A i \in Frames : \/ stack[i].got = NoGot /\ stack[i].pc # "cont"
                                    \/ \E k \in Frames' : stack'[k] = stack[i],
           \A p \in Proc :
               \/ os'[p] = os[p] \/ os'[p] = "blocked"
               \/ /\ os'[p] = "running"
                  /\ \/ os[p] \notin {"none", "blocked"}
                     \/ \E j \in started' : p \in Procs(j)
               \/ os[p] = "running" /\ p \in news',
           \A p \in news : p \in news' \/ os'[p] = "running"
    PROVE  NInv'
<1>0. \A j : Procs(j)' = Procs(j)
  BY DEF Procs, Pipeline
<1>1. RunsWhenStarted'
  BY <1>0 DEF NInv, RunsWhenStarted
<1>2. NoGot.proc \notin Proc
  BY JobControlAssumption DEF JobControlAssumption, NoGot
<1>3. ASSUME stack' # << >>, NEW p \in Proc, os'[p] \in Ends
      PROVE  p \in news' \/ p \in completed' \/ \E i \in Frames' : HoldsEnd(i, p)'
  <2>1. CASE p \notin news'
    <3>1. os[p] = os'[p] /\ p \notin news
      BY <1>3, <2>1 DEF Ends
    <3>2. CASE p \in completed
      BY <3>2
    <3>3. CASE \E i \in Frames : HoldsEnd(i, p)
      <4>1. PICK i \in Frames : HoldsEnd(i, p)
        BY <3>3
      <4>2. stack[i].got # NoGot
        BY <1>2, <4>1 DEF HoldsEnd
      <4>3. PICK k \in Frames' : stack'[k] = stack[i]
        BY <1>3, <4>2
      <4> QED BY <4>1, <4>3 DEF HoldsEnd
    <3> QED BY <1>3, <3>1, <3>2, <3>3 DEF NInv, EndsKept
  <2> QED BY <2>1
<1>4. EndsKept'
  BY <1>3 DEF EndsKept
<1>5. ASSUME stack' # << >>, NEW p \in Proc, os'[p] = "stopped"
      PROVE  \/ p \in news' \/ p \in stopped' \/ Held(p)'
             \/ \E i \in Frames' : stack'[i].pc = "cont" /\ p \in Procs(stack'[i].job)
  <2>1. CASE p \notin news'
    <3>1. os[p] = os'[p] /\ p \notin news
      BY <1>5, <2>1
    <3>2. CASE p \in stopped
      BY <3>2
    <3>3. CASE Held(p)
      <4>1. PICK i \in Frames : stack[i].got.proc = p
        BY <3>3 DEF Held, Frames
      <4>2. stack[i].got # NoGot
        BY <1>2, <4>1
      <4>3. PICK k \in Frames' : stack'[k] = stack[i]
        BY <1>5, <4>2
      <4> QED BY <4>1, <4>3 DEF Held, Frames
    <3>4. CASE \E i \in Frames : stack[i].pc = "cont" /\ p \in Procs(stack[i].job)
      <4>1. PICK i \in Frames : stack[i].pc = "cont" /\ p \in Procs(stack[i].job)
        BY <3>4
      <4>2. PICK k \in Frames' : stack'[k] = stack[i]
        BY <1>5, <4>1
      <4> QED BY <4>1, <4>2
    <3> QED BY <1>5, <3>1, <3>2, <3>3, <3>4 DEF NInv, StopsKept
  <2> QED BY <2>1
<1>6. StopsKept'
  BY <1>0, <1>5 DEF StopsKept
<1> QED BY <1>1, <1>4, <1>6 DEF NInv

(* The steps that take a status or clear a flag; the program is where      *)
(* waitpid is called, or where a job is continued.                         *)
LEMMA Takes ==
    ASSUME TInv, SInv, LInv, NInv, ChildrenWait,
           \/ \E p \in Proc : UpdateStatus(p) \/ WaitPid(p)
           \/ UpdateMark \/ WaitMark \/ SendSIGCONT
           \/ \E j \in Job : MarkJobAsRunning(j)
    PROVE  NInv'
<1>1. stack # << >>
  BY DEF UpdateStatus, WaitPid, UpdateMark, WaitMark, SendSIGCONT, MarkJobAsRunning, At
<1>2. /\ Top \in Frame /\ FrameOK(Top) /\ Top = stack[1] /\ 1 \in Frames /\ Len(stack) \in Nat \ {0}
      /\ Top.pc \in Handling \/ Len(stack) = 1
  BY <1>1, TopFacts
<1>3. NoGot.proc \notin Proc
  BY JobControlAssumption DEF JobControlAssumption, NoGot
<1>c. ASSUME NEW g, Continue(g)
      PROVE  /\ Frames' = Frames /\ stack'[1] = g /\ Top' = g
             /\ \A i \in Frames : i # 1 => stack'[i] = stack[i]
  BY <1>1, <1>c, FramesAfter
<1>p. setup' = setup => \A j : Procs(j)' = Procs(j)
  BY DEF Procs, Pipeline
<1> USE DEF At
<1>4. ASSUME NEW p \in Proc, UpdateStatus(p) \/ WaitPid(p) PROVE NInv'
  <2>1. PICK f : f = [Top EXCEPT !.pc = IF Top.pc = "wait" THEN "waitMark" ELSE "updateMark"]
    OBVIOUS
  <2>2. PICK g : g = [f EXCEPT !.got = [proc |-> p, status |-> os[p]]]
    OBVIOUS
  <2>3. Reap(p, f) /\ Top.pc \in {"update", "wait"}
    BY <1>4, <2>1 DEF UpdateStatus, WaitPid
  <2>4. /\ Continue(g) /\ p \in news /\ news' = news \ {p}
        /\ UNCHANGED <<setup, os, sigchld, jobs, started, completed, stopped>>
    BY <2>2, <2>3 DEF Reap, procState
  <2>5. /\ g.got.proc = p /\ g.got.status = os[p]
        /\ g.pc = IF Top.pc = "wait" THEN "waitMark" ELSE "updateMark"
    BY <1>2, <2>1, <2>2 DEF Frame
  <2>6. /\ Frames' = Frames /\ stack'[1] = g /\ Top' = g
        /\ \A i \in Frames : i # 1 => stack'[i] = stack[i]
    BY <1>c, <2>4
  <2>7. Top.got = NoGot
    BY <1>2, <2>3 DEF FrameOK
  <2>8. RunsWhenStarted'
    BY <1>p, <2>4 DEF NInv, RunsWhenStarted
  <2>9. os[p] \in Ends \cup {"stopped"} /\ p \notin completed
    BY <2>4 DEF TInv, OneEnd
  <2>10. Signalled'
    <3>1. sigchld \/ Top.pc = "update"
      BY <1>1, <2>3, <2>4 DEF NInv, Signalled
    <3>2. PICK j \in Listed : p \in Procs(j) /\ ~Reversed(j)
      BY <2>9, Known DEF NInv, Ends
    <3>3. Listed' = Listed
      BY <2>4 DEF Listed
    <3>4. ~Reversed(j)'
      BY <2>5, <2>6, <3>2 DEF Reversed, Frames
    <3>5. p \in Shown(j)'
      BY <1>p, <2>4, <3>2, <3>4 DEF Shown
    <3>6. ~Unknown(Top.got)'
      BY <2>5, <2>6, <3>3, <3>5 DEF Unknown
    <3> QED BY <2>3, <2>4, <2>5, <2>6, <3>1, <3>6 DEF Signalled
  <2>11. ASSUME NEW q \in Proc, os'[q] \in Ends
         PROVE  q \in news' \/ q \in completed' \/ \E i \in Frames' : HoldsEnd(i, q)'
    <3>1. q = p => HoldsEnd(1, q)'
      BY <2>4, <2>5, <2>6, <2>11 DEF HoldsEnd
    <3>2. \A i \in Frames : HoldsEnd(i, q) => HoldsEnd(i, q)'
      BY <1>2, <1>3, <2>6, <2>7 DEF HoldsEnd
    <3> QED BY <1>1, <1>2, <2>4, <2>6, <2>11, <3>1, <3>2 DEF NInv, EndsKept
  <2>12. EndsKept'
    BY <2>11 DEF EndsKept
  <2>13. ASSUME NEW q \in Proc, os'[q] = "stopped"
         PROVE  \/ q \in news' \/ q \in stopped' \/ Held(q)'
                \/ \E i \in Frames' : stack'[i].pc = "cont" /\ q \in Procs(stack'[i].job)
    <3>1. q = p => Held(q)'
      BY <1>2, <2>5, <2>6 DEF Held, Frames
    <3>2. ASSUME Held(q) PROVE Held(q)'
      <4>1. PICK i \in Frames : stack[i].got.proc = q
        BY <3>2 DEF Held, Frames
      <4>2. i # 1
        BY <1>2, <1>3, <2>7, <4>1
      <4> QED BY <2>6, <4>1, <4>2 DEF Held, Frames
    <3>3. \A i \in Frames : stack[i].pc = "cont" => stack'[i] = stack[i]
      BY <1>2, <2>3, <2>6
    <3> QED BY <1>1, <2>4, <2>6, <2>13, <3>1, <3>2, <3>3 DEF NInv, StopsKept
  <2>14. StopsKept'
    BY <1>p, <2>4, <2>13 DEF StopsKept
  <2> QED BY <2>8, <2>10, <2>12, <2>14 DEF NInv
<1>5. CASE UpdateMark \/ WaitMark
  <2>1. PICK p : p = Top.got.proc
    OBVIOUS
  <2>2. /\ Top.pc \in {"updateMark", "waitMark"} /\ Ready /\ MarkProcessStatus(Top.got)
        /\ UNCHANGED <<setup, os, news, sigchld, jobs, started>>
    BY <1>5 DEF UpdateMark, WaitMark, kernel
  <2>3. PICK g : /\ Continue(g)
                 /\ g = [Top EXCEPT !.pc = g.pc, !.got = NoGot]
                 /\ Top.pc = "updateMark" /\ ~Unknown(Top.got) => g.pc = "update"
    <3>1. PICK h : h = [Top EXCEPT !.pc = IF Top.pc = "updateMark"
                                          THEN IF Unknown(Top.got) THEN "list" ELSE "update"
                                          ELSE IF Unknown(Top.got) THEN "waitDone" ELSE "waitCheck",
                                   !.got = NoGot]
      OBVIOUS
    <3>2. h.pc = IF Top.pc = "updateMark"
                 THEN IF Unknown(Top.got) THEN "list" ELSE "update"
                 ELSE IF Unknown(Top.got) THEN "waitDone" ELSE "waitCheck"
      BY <1>2, <3>1 DEF Frame
    <3>3. Continue(h)
      BY <1>5, <3>1 DEF UpdateMark, WaitMark
    <3> QED BY <3>1, <3>2, <3>3
  <2>4. p \in Proc /\ Top.got.status \in Ends \cup {"stopped"}
    BY <1>2, <2>1, <2>2 DEF FrameOK
  <2>5. /\ Frames' = Frames /\ stack'[1] = g /\ Top' = g
        /\ \A i \in Frames : i # 1 => stack'[i] = stack[i]
    BY <1>c, <2>3
  <2>6. completed \subseteq completed' /\ stopped \subseteq stopped'
    BY <2>2 DEF MarkProcessStatus
  <2>7. RunsWhenStarted'
    BY <1>p, <2>2 DEF NInv, RunsWhenStarted
  <2>8. Signalled'
    <3>1. news # {} => sigchld \/ (Top.pc = "updateMark" /\ ~Unknown(Top.got))
      BY <1>1, <2>2 DEF NInv, Signalled
    <3> QED BY <2>2, <2>3, <2>5, <3>1 DEF Signalled
  <2>9. os[p] \in Ends /\ Top.got.status \in Ends => p \in completed'
    <3>1. ASSUME os[p] \in Ends, Top.got.status \in Ends PROVE p \in completed'
      <4>1. HoldsEnd(1, p)
        BY <1>2, <2>1, <3>1 DEF HoldsEnd
      <4>2. p \notin completed
        BY <1>2, <2>4, <4>1 DEF TInv, OneEnd
      <4>3. \E j \in Listed : p \in Shown(j)
        BY <2>4, <3>1, <4>2, Known DEF NInv, Ends
      <4> QED BY <2>1, <2>2, <2>4, <3>1, <4>3 DEF MarkProcessStatus, Ends
    <3> QED BY <3>1
  <2>10. os[p] = "stopped" => p \in stopped'
    <3>1. ASSUME os[p] = "stopped" PROVE p \in stopped'
      <4>1. Top.got.status \in Ends => HoldsEnd(1, p)
        BY <1>2, <2>1 DEF HoldsEnd
      <4>2. Top.got.status = "stopped"
        BY <1>2, <2>4, <3>1, <4>1 DEF TInv, OneEnd, Ends
      <4>3. p \notin completed
        BY <3>1 DEF TInv, OneEnd, Ends
      <4>4. \E j \in Listed : p \in Shown(j)
        BY <2>4, <3>1, <4>3, Known DEF NInv
      <4> QED BY <2>1, <2>2, <4>2, <4>4 DEF MarkProcessStatus
    <3> QED BY <3>1
  <2>11. ASSUME NEW q \in Proc, os'[q] \in Ends
         PROVE  q \in news' \/ q \in completed' \/ \E i \in Frames' : HoldsEnd(i, q)'
    <3>1. HoldsEnd(1, q) => q \in completed'
      BY <1>2, <2>1, <2>2, <2>9, <2>11 DEF HoldsEnd
    <3>2. \A i \in Frames : HoldsEnd(i, q) /\ i # 1 => HoldsEnd(i, q)'
      BY <2>5 DEF HoldsEnd
    <3> QED BY <1>1, <2>2, <2>5, <2>6, <2>11, <3>1, <3>2 DEF NInv, EndsKept
  <2>12. EndsKept'
    BY <2>11 DEF EndsKept
  <2>13. ASSUME NEW q \in Proc, os'[q] = "stopped"
         PROVE  \/ q \in news' \/ q \in stopped' \/ Held(q)'
                \/ \E i \in Frames' : stack'[i].pc = "cont" /\ q \in Procs(stack'[i].job)
    <3>1. ASSUME Held(q) PROVE Held(q)' \/ q \in stopped'
      <4>1. PICK i \in Frames : stack[i].got.proc = q
        BY <3>1 DEF Held, Frames
      <4>2. CASE i = 1
        BY <1>2, <2>1, <2>2, <2>10, <2>13, <4>1, <4>2
      <4>3. CASE i # 1
        BY <2>5, <4>1, <4>3 DEF Held, Frames
      <4> QED BY <4>2, <4>3
    <3>2. \A i \in Frames : stack[i].pc = "cont" => stack'[i] = stack[i]
      BY <1>2, <2>2, <2>5
    <3> QED BY <1>1, <2>2, <2>5, <2>6, <2>13, <3>1, <3>2 DEF NInv, StopsKept
  <2>14. StopsKept'
    BY <1>p, <2>2, <2>13 DEF StopsKept
  <2> QED BY <2>7, <2>8, <2>12, <2>14 DEF NInv
<1>6. CASE SendSIGCONT
  <2> DEFINE waking == {p \in Procs(Top.job) : Alive(p) /\ os[p] = "stopped"}
  <2>1. /\ Top.pc = "cont" /\ Ready /\ \E g : Continue(g)
        /\ os' = [p \in Proc |-> IF p \in waking THEN "running" ELSE os[p]]
        /\ news' = news \ waking /\ sigchld' = (sigchld \/ waking # {})
        /\ UNCHANGED <<setup, jobs, started, completed, stopped>>
    BY <1>6 DEF SendSIGCONT, procState
  <2>2. PICK g : Continue(g)
    BY <2>1
  <2>3. Frames = {1} /\ Top.got = NoGot
    <3>1. Len(stack) = 1 /\ Top.got = NoGot
      BY <1>2, <2>1 DEF Handling, FrameOK
    <3> QED BY <3>1 DEF Frames
  <2>4. RunsWhenStarted'
    BY <1>p, <2>1 DEF NInv, RunsWhenStarted
  <2>5. Signalled'
    BY <1>1, <2>1 DEF NInv, Signalled
  <2>6. \A q \in Proc : ~HoldsEnd(1, q) /\ ~Held(q)
    <3>1. Len(stack) = 1
      BY <1>2, <2>1 DEF Handling
    <3> QED BY <1>2, <1>3, <2>3, <3>1 DEF HoldsEnd, Held
  <2>7. ASSUME NEW q \in Proc, os'[q] \in Ends
        PROVE  q \in news' \/ q \in completed'
    <3>1. os[q] \in Ends /\ q \notin waking
      BY <2>1, <2>7 DEF Ends
    <3> QED BY <1>1, <2>1, <2>3, <2>6, <3>1 DEF NInv, EndsKept
  <2>8. ASSUME NEW q \in Proc, os'[q] = "stopped"
        PROVE  q \in news' \/ q \in stopped'
    <3>1. os[q] = "stopped" /\ q \notin waking
      BY <2>1, <2>8
    <3>2. q \notin Procs(Top.job)
      BY <3>1 DEF Alive
    <3> QED BY <1>1, <1>2, <2>1, <2>3, <2>6, <3>1, <3>2 DEF NInv, StopsKept
  <2>9. EndsKept' /\ StopsKept'
    BY <2>7, <2>8 DEF EndsKept, StopsKept
  <2> QED BY <2>4, <2>5, <2>9 DEF NInv
<1>7. ASSUME NEW j \in Job, MarkJobAsRunning(j) PROVE NInv'
  <2>1. PICK g : /\ Continue(g) /\ g.pc = "cont" /\ g.job = j
    <3>1. PICK fg \in BOOLEAN :
             Continue([Idle EXCEPT !.pc = "cont", !.job = j, !.wait = IF fg THEN <<j>> ELSE << >>])
      BY <1>7 DEF MarkJobAsRunning
    <3>2. PICK g : g = [Idle EXCEPT !.pc = "cont", !.job = j, !.wait = IF fg THEN <<j>> ELSE << >>]
      OBVIOUS
    <3>3. g.pc = "cont" /\ g.job = j
      BY <3>2 DEF Idle
    <3> QED BY <3>1, <3>2, <3>3
  <2>2. /\ Top.pc = "idle" /\ stopped' = stopped \ Procs(j)
        /\ UNCHANGED <<setup, os, news, sigchld, started, completed>>
    BY <1>7 DEF MarkJobAsRunning, kernel
  <2>3. Len(stack) = 1 /\ Frames = {1} /\ Top.got = NoGot
    <3>1. Len(stack) = 1 /\ Top.got = NoGot
      BY <1>2, <2>2 DEF Handling, FrameOK
    <3> QED BY <3>1 DEF Frames
  <2>4. Frames' = Frames /\ stack'[1] = g
    BY <1>c, <2>1
  <2>5. RunsWhenStarted'
    BY <1>p, <2>2 DEF NInv, RunsWhenStarted
  <2>6. Signalled'
    BY <1>1, <2>2 DEF NInv, Signalled
  <2>7. \A q \in Proc : ~HoldsEnd(1, q) /\ ~Held(q)
    BY <1>2, <1>3, <2>3 DEF HoldsEnd, Held
  <2>8. EndsKept'
    BY <1>1, <2>2, <2>3, <2>7 DEF NInv, EndsKept
  <2>9. ASSUME NEW q \in Proc, os'[q] = "stopped"
        PROVE  \/ q \in news' \/ q \in stopped'
               \/ \E i \in Frames' : stack'[i].pc = "cont" /\ q \in Procs(stack'[i].job)
    BY <1>1, <1>2, <2>1, <2>2, <2>3, <2>4, <2>7, <2>9 DEF NInv, StopsKept
  <2>10. StopsKept'
    BY <1>p, <2>2, <2>9 DEF StopsKept
  <2> QED BY <2>5, <2>6, <2>8, <2>10 DEF NInv
<1> QED BY <1>4, <1>5, <1>6, <1>7

(* No status is lost while every child waits for its job to be listed.     *)
LEMMA Recorded == Spec => [](ChildrenWait => NInv)
<1>1. Init => (ChildrenWait => NInv)
  <2> SUFFICES ASSUME Init PROVE NInv
    OBVIOUS
  <2>1. news = {} /\ \A p \in Proc : os[p] = "none"
    BY DEF Init
  <2> QED BY <2>1 DEF NInv, RunsWhenStarted, Signalled, EndsKept, StopsKept, Ends
<1>2. TInv /\ SInv /\ LInv /\ (ChildrenWait => NInv) /\ [Next]_vars => (ChildrenWait => NInv)'
  <2> SUFFICES ASSUME TInv, SInv, LInv, ChildrenWait => NInv, [Next]_vars, ChildrenWait'
               PROVE  NInv'
    OBVIOUS
  <2>1. setup' = setup
    BY DEF Next, Shell, Program, Children, Gone, vars, kernel, Interrupt, UpdateStatus, WaitPid, Reap,
           UpdateMark, UpdateEnds, List, Walk, WalkEnds, Report, RaiseFailed, Reraise, NotificationEnds,
           NoChildren, WaitMark, WaitCheck, WaitDone, WaitRaise, Fork, AddRead, AddWrite, Reverse,
           SetProcs, Release, SendSIGCONT, Launch1, StartPipeline, MarkJobAsRunning, StopJob, Wait, Exit, ChildExits,
           ChildStops, ChildContinues, Changed
  <2>2. ChildrenWait
    BY <2>1 DEF ChildrenWait, Blocks, Pipeline, Interactive
  <2>3. NInv
    BY <2>2
  <2>4. stack # << >> =>
          /\ Top \in Frame /\ FrameOK(Top) /\ Top = stack[1] /\ 1 \in Frames /\ Len(stack) \in Nat \ {0}
          /\ Top.pc \in Handling \/ Len(stack) = 1
    BY TopFacts
  <2>5. /\ os \in [Proc -> {"none", "blocked", "running", "stopped", "ok", "failed"}]
        /\ \A q \in news : q \in Proc /\ os[q] \in Ends \cup {"stopped"}
        /\ \A j \in Job : Pipeline[j] \in Seq(Proc)
        /\ \A j \in Job : Procs(j) \subseteq Proc
    <3>1. \A j \in Job : Pipeline[j] \in Seq(Proc)
      BY DEF TInv, TypeOK, Setup, Pipeline
    <3>2. \A j \in Job : Procs(j) \subseteq Proc
      BY <3>1 DEF Procs
    <3> QED BY <3>1, <3>2 DEF TInv, TypeOK, OneEnd
(* The activation goes on, holds nothing and takes nothing.                *)
  <2>6. ASSUME NEW g, Continue(g), stack # << >>, Top.got = NoGot, Top.pc # "cont",
               Top.pc # "update" \/ news = {}, started \subseteq started',
               UNCHANGED <<setup, news, sigchld, completed, stopped>>,
               \A p \in Proc :
                   \/ os'[p] = os[p] \/ os'[p] = "blocked"
                   \/ os'[p] = "running" /\ \E j \in started' : p \in Procs(j)
        PROVE  NInv'
    <3>1. Top.pc # "updateMark"
      BY <2>4, <2>6, JobControlAssumption DEF FrameOK, NoGot, JobControlAssumption
    <3>2. Signalled'
      BY <2>3, <2>6, <3>1 DEF NInv, Signalled
    <3>3. Len(stack') = Len(stack) /\ \A i \in 2 .. Len(stack) : stack'[i] = stack[i]
      <4>1. stack \in Seq(Frame \cup {g}) /\ <<g>> \in Seq(Frame \cup {g})
        BY DEF TInv, TypeOK
      <4>2. Tail(stack) \in Seq(Frame \cup {g}) /\ Len(Tail(stack)) = Len(stack) - 1
        BY <2>6, <4>1
      <4>3. \A i \in 2 .. Len(stack) : Tail(stack)[i - 1] = stack[i]
        BY <2>6, <4>1
      <4>4. stack' = <<g>> \o Tail(stack)
        BY <2>6 DEF Continue
      <4> QED BY <2>4, <2>6, <4>1, <4>2, <4>3, <4>4
    <3>4. \A i \in Frames : i = 1 \/ (i \in Frames' /\ stack'[i] = stack[i])
      BY <3>3 DEF Frames
    <3>5. \A i \in Frames : \/ stack[i].got = NoGot /\ stack[i].pc # "cont"
                            \/ \E k \in Frames' : stack'[k] = stack[i]
      BY <2>4, <2>6, <3>4
    <3> QED BY <2>3, <2>6, <3>2, <3>5, Carries
(* The program ends.                                                       *)
  <2>7. ASSUME stack' = << >>, UNCHANGED <<setup, os, news, started, completed, stopped>>
        PROVE  NInv'
    BY <2>3, <2>7 DEF NInv, RunsWhenStarted, Signalled, EndsKept, StopsKept, Procs, Pipeline
  <2>8. CASE Interrupt
    <3>1. stack # << >> /\ UNCHANGED <<setup, os, news, started, completed, stopped>>
      BY <2>8 DEF Interrupt, procState
    <3>2. /\ Notification(FALSE) \in Frame /\ Notification(FALSE).pc = "update"
      <4>1. Notification(FALSE) \in Frame
        BY <2>4, <3>1, FrameFacts
      <4> QED BY <4>1 DEF Notification, Idle
    <3>3. /\ Len(stack') = Len(stack) + 1 /\ Top' = Notification(FALSE)
          /\ \A i \in 2 .. Len(stack) + 1 : stack'[i] = stack[i - 1]
      BY <2>8, <3>1, <3>2, StackFacts DEF Interrupt, TInv, TypeOK, Top
    <3>4. Signalled'
      BY <3>2, <3>3 DEF Signalled
    <3>5. \A i \in Frames : i + 1 \in Frames' /\ stack'[i + 1] = stack[i]
      BY <2>4, <3>1, <3>3 DEF Frames
    <3>6. \A i \in Frames : \E k \in Frames' : stack'[k] = stack[i]
      BY <3>5
    <3> QED BY <2>3, <3>1, <3>4, <3>6, Carries
  <2>9. CASE NotificationEnds
    <3>1. /\ stack # << >> /\ Top.pc = "report"
          /\ UNCHANGED <<setup, os, news, sigchld, started, completed, stopped>>
      BY <2>9 DEF NotificationEnds, At, kernel, procState
    <3>2. Signalled'
      BY <2>3, <3>1 DEF NInv, Signalled
    <3>3. \A i \in Frames : i = 1 \/ \E k \in Frames' : stack'[k] = stack[i]
      <4>1. CASE Len(stack) = 1
        BY <4>1 DEF Frames
      <4>2. CASE Len(stack) # 1
        <5>1. /\ Len(stack') = Len(stack) - 1
              /\ \A i \in 1 .. Len(stack) - 1 : stack'[i] = stack[i + 1]
          BY <2>4, <2>9, <3>1, <4>2, StackFacts DEF NotificationEnds, TInv, TypeOK
        <5>2. \A i \in Frames : i = 1 \/ (i - 1 \in Frames' /\ stack'[i - 1] = stack[i])
          BY <2>4, <3>1, <5>1 DEF Frames
        <5> QED BY <5>2
      <4> QED BY <4>1, <4>2
    <3>4. stack[1].got = NoGot /\ stack[1].pc # "cont"
      BY <2>4, <3>1 DEF FrameOK
    <3> QED BY <2>3, <3>1, <3>2, <3>3, <3>4, Carries
  <2>10. CASE \/ \E p \in Proc : UpdateStatus(p) \/ WaitPid(p)
              \/ UpdateMark \/ WaitMark \/ SendSIGCONT
              \/ \E j \in Job : MarkJobAsRunning(j)
    BY <2>2, <2>3, <2>10, Takes
  <2>11. CASE \/ UpdateEnds \/ List \/ Walk \/ WalkEnds \/ Report
              \/ NoChildren \/ WaitCheck \/ WaitDone \/ AddRead \/ AddWrite
              \/ Reverse \/ SetProcs \/ Wait \/ \E j \in Job : StartPipeline(j)
    <3>1. \E g : Continue(g)
      BY <2>11 DEF UpdateEnds, List, Walk, WalkEnds, Report, NoChildren, WaitCheck, WaitDone, AddRead,
                   AddWrite, Reverse, SetProcs, Wait, StartPipeline
    <3>2. /\ stack # << >> /\ Top.pc \in {"update", "list", "walk", "report", "wait", "waitCheck",
                                          "waitDone", "addRead", "addWrite", "reverse", "setProcs", "idle"}
          /\ Top.pc = "update" => news = {}
          /\ UNCHANGED <<setup, os, news, sigchld, completed, stopped, started>>
      BY <2>11 DEF UpdateEnds, List, Walk, WalkEnds, Report, NoChildren, WaitCheck, WaitDone, AddRead,
                   AddWrite, Reverse, SetProcs, Wait, StartPipeline, At, kernel, procState
    <3>3. Top.got = NoGot
      BY <2>4, <3>2 DEF FrameOK
    <3> QED BY <2>6, <3>1, <3>2, <3>3
  <2>12. CASE RaiseFailed \/ WaitRaise
    <3>1. (\E g : Continue(g)) \/ stack' = << >>
      BY <2>12 DEF RaiseFailed, WaitRaise, Reraise
    <3>2. /\ stack # << >> /\ Top.pc \in {"raise", "waitRaise"}
          /\ UNCHANGED <<setup, os, news, sigchld, completed, stopped, started>>
      BY <2>12 DEF RaiseFailed, WaitRaise, Reraise, At, kernel, procState
    <3>3. Top.got = NoGot
      BY <2>4, <3>2 DEF FrameOK
    <3> QED BY <2>6, <2>7, <3>1, <3>2, <3>3
  <2>13. CASE Fork
    <3>1. (\E g : Continue(g)) /\ stack # << >> /\ Top.pc = "fork"
      BY <2>13 DEF Fork, At
    <3>2. Top.got = NoGot /\ Top.job \in Job /\ Top.k \in 1 .. Len(Pipeline[Top.job])
      BY <2>4, <3>1 DEF FrameOK, AboutJob, Starting
    <3>3. /\ os' = [os EXCEPT ![Pipeline[Top.job][Top.k]] = "blocked"]
          /\ UNCHANGED <<setup, news, sigchld, completed, stopped, started>>
      BY <2>2, <2>13, <3>2 DEF Fork, ChildrenWait, procState
    <3>4. \A p \in Proc : os'[p] = os[p] \/ os'[p] = "blocked"
      BY <2>5, <3>3
    <3> QED BY <2>6, <3>1, <3>2, <3>3, <3>4
  <2>14. CASE Release
    <3>1. (\E g : Continue(g)) /\ stack # << >> /\ Top.pc = "release"
      BY <2>14 DEF Release, At
    <3>2. Top.got = NoGot
      BY <2>4, <3>1 DEF FrameOK
    <3>3. /\ started' = started \cup {Top.job}
          /\ UNCHANGED <<setup, news, sigchld, completed, stopped>>
      BY <2>14 DEF Release, procState
    <3>4. \A p \in Proc : os'[p] = os[p] \/ (os'[p] = "running" /\ p \in Procs(Top.job))
      BY <2>14 DEF Release, Released
    <3> QED BY <2>6, <3>1, <3>2, <3>3, <3>4
  <2>15. ASSUME NEW j \in Job, Launch1(j) PROVE NInv'
    <3>1. (\E g : Continue(g)) /\ stack # << >> /\ Top.pc = "idle"
      BY <2>15 DEF Launch1, At
    <3>2. Top.got = NoGot
      BY <2>4, <3>1 DEF FrameOK
    <3>3. /\ started' = started \cup {j} /\ os' = [os EXCEPT ![Pipeline[j][1]] = "running"]
          /\ UNCHANGED <<setup, news, sigchld, completed, stopped>>
      BY <2>15 DEF Launch1, procState
    <3>4. Pipeline[j][1] \in Procs(j)
      BY <2>15 DEF Launch1, Procs
    <3>5. \A p \in Proc : os'[p] = os[p] \/ (os'[p] = "running" /\ p \in Procs(j))
      BY <2>5, <3>3, <3>4
    <3> QED BY <2>6, <3>1, <3>2, <3>3, <3>5
  <2>16. CASE Exit
    BY <2>7, <2>16 DEF Exit, kernel, procState
(* A change is signalled.                                                  *)
  <2>17. ASSUME stack # << >>, sigchld' = TRUE,
                UNCHANGED <<setup, started, completed, stopped, stack>>,
                \A p \in Proc :
                    \/ os'[p] = os[p]
                    \/ os'[p] = "running" /\ os[p] \notin {"none", "blocked"}
                    \/ os[p] = "running" /\ p \in news',
                \A p \in news : p \in news' \/ os'[p] = "running"
         PROVE  NInv'
    <3>1. Signalled'
      BY <2>17 DEF Signalled
    <3>2. Frames' = Frames /\ \A i \in Frames : stack'[i] = stack[i]
      BY <2>17 DEF Frames
    <3> QED BY <2>3, <2>17, <3>1, <3>2, Carries
  <2>18. ASSUME NEW p \in Proc, ChildExits(p) \/ ChildStops(p) PROVE NInv'
    <3>1. /\ stack # << >> /\ sigchld' = TRUE /\ os[p] = "running" /\ news' = news \cup {p}
          /\ UNCHANGED <<setup, started, completed, stopped, stack>>
          /\ \E s : os' = [os EXCEPT ![p] = s]
      BY <2>18 DEF ChildExits, ChildStops, Changed, procState
    <3>2. \A q \in Proc : os'[q] = os[q] \/ q = p
      BY <2>5, <3>1
    <3> QED BY <2>17, <3>1, <3>2
  <2>19. ASSUME NEW p \in Proc, ChildContinues(p) PROVE NInv'
    <3>1. /\ stack # << >> /\ sigchld' = TRUE /\ os[p] = "stopped" /\ news' = news \ {p}
          /\ UNCHANGED <<setup, started, completed, stopped, stack>>
          /\ os' = [os EXCEPT ![p] = "running"]
      BY <2>19 DEF ChildContinues, procState
    <3>2. \A q \in Proc : os'[q] = os[q] \/ q = p
      BY <2>5, <3>1
    <3>3. os'[p] = "running"
      BY <2>5, <3>1
    <3> QED BY <2>17, <3>1, <3>2, <3>3
  <2>20. ASSUME NEW j \in Job, StopJob(j) PROVE NInv'
    <3>1. /\ stack # << >> /\ sigchld' = TRUE
          /\ UNCHANGED <<setup, started, completed, stopped, stack>>
          /\ os' = [p \in Proc |-> IF p \in Procs(j) /\ os[p] = "running" THEN "stopped" ELSE os[p]]
          /\ news' = news \cup {p \in Procs(j) : os[p] = "running"}
      BY <2>20 DEF StopJob, At, procState
    <3> QED BY <2>5, <2>17, <3>1
  <2>21. CASE UNCHANGED vars
    <3>1. UNCHANGED <<setup, os, news, sigchld, started, completed, stopped, stack>>
      BY <2>21 DEF vars, procState
    <3>2. Signalled'
      <4>1. Top' = Top /\ Unknown(Top.got)' = Unknown(Top.got)
        BY <2>21 DEF vars, Top, Unknown, Listed, Shown, Reversed, Procs, Pipeline
      <4> QED BY <2>3, <3>1, <4>1 DEF NInv, Signalled
    <3>3. Frames' = Frames /\ \A i \in Frames : stack'[i] = stack[i]
      BY <3>1 DEF Frames
    <3> QED BY <2>3, <2>7, <3>1, <3>2, <3>3, Carries
  <2> QED
    BY <2>8, <2>9, <2>10, <2>11, <2>12, <2>13, <2>14, <2>15, <2>16, <2>18, <2>19, <2>20, <2>21
    DEF Next, Shell, Program, Children, Gone
<1> QED BY <1>1, <1>2, Typed, Begins, Kept, PTL DEF Spec

(* No exit is lost, except that of a child that did not wait (jc_pipeline  *)
(* shows one).                                                             *)
THEOREM ExitsAreRecorded == Spec => [](ChildrenWait => ExitsRecorded)
<1>1. NInv => ExitsRecorded
  BY DEF NInv, EndsKept, HoldsEnd, ExitsRecorded, Held, Frames, Ends
<1> QED BY <1>1, Recorded, PTL

(* No stop is lost.                                                        *)
THEOREM StopsAreRecorded == Spec => [](ChildrenWait => StopsRecorded)
<1>1. NInv => StopsRecorded
  BY DEF NInv, StopsKept, StopsRecorded, Frames
<1> QED BY <1>1, Recorded, PTL

(* One SIGCHLD recorded for many is enough: at rest, none is waiting.      *)
THEOREM NoneMissed == Spec => [](ChildrenWait => NothingMissed)
<1>1. NInv => NothingMissed
  BY DEF NInv, Signalled, NothingMissed, Quiet, At
<1> QED BY <1>1, Recorded, PTL
=============================================================================
