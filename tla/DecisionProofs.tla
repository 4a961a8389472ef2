--------------------------- MODULE DecisionProofs ---------------------------
(***************************************************************************)
(* Proofs about what DeliveryLoop leaves on record: the attempts that task *)
(* files name, the decisions that explain their status, one decision for   *)
(* each attempt; and what the files are worth when one process works on    *)
(* them alone: evidence for what is accepted, and a TaskBoard.             *)
(***************************************************************************)
EXTENDS DeliveryLoopProofs

-----------------------------------------------------------------------------
(* Plans.                                                                  *)

Step(p) ==
  \/ Command(p) \/ SaveStep(p) \/ WorkflowStep(p)
  \/ TickStart(p) \/ TickStep(p) \/ Crash(p)

LEMMA NextIsStep == Next <=> \E p \in Procs : Step(p)
BY DEF Next, Step

\* A command saves a task and one file of another kind, or one file.
Short(saves) ==
  /\ Len(saves) <= 2
  /\ Len(saves) = 2 => saves[1].kind = "Task" /\ saves[2].kind # "Task"

\* A process that runs a workflow, or reads tasks, has nothing to save.
PlanInv ==
  \A p \in Procs :
    /\ Short(plan[p])
    /\ job[p] \in {"workflow", "tick"} => plan[p] = <<>>
    /\ job[p] = "reading" /\ scan[p].names # {} => plan[p] = <<>>

LEMMA SaveKinds ==
  /\ \A g, b : GoalSave(g, b).kind = "Goal"
  /\ \A r : TaskSave(r).kind = "Task" /\ TaskSave(r).task = r
  /\ \A a, ev : /\ AttemptSave(a, ev).kind = "Attempt" /\ AttemptSave(a, ev).attempt = a
                /\ AttemptSave(a, ev).evidence = ev
  /\ \A d : DecisionSave(d).kind = "LoopDecision" /\ DecisionSave(d).decision = d
BY DEF GoalSave, TaskSave, AttemptSave, DecisionSave

LEMMA DecisionSaveTells ==
  ASSUME NEW d, NEW e, DecisionSave(d) = DecisionSave(e)
  PROVE  d = e
BY DEF DecisionSave

LEMMA ShortPlans ==
  /\ Short(<<>>) /\ \A a : Short(<<a>>)
  /\ \A a, b : a.kind = "Task" /\ b.kind # "Task" => Short(<<a, b>>)
BY DEF Short

LEMMA CommandIsIdle ==
  ASSUME NEW p, Command(p)
  PROVE  Idle(p)
BY DEF Command, StartGoal, ProposeRefused, ProposeTask, LoadTask, DropTask, RunWorkflow,
       SubmitAttempt, AcceptTask, ReviewAttempt, Fresh

\* A command leaves the plan alone, or makes a short one.
LEMMA CommandPlan ==
  ASSUME NEW p, Command(p)
  PROVE  plan' = plan \/ \E saves : Short(saves) /\ plan' = [plan EXCEPT ![p] = saves]
<1>1. ASSUME NEW r, NEW a, NEW b, Review(p, r, a)
      PROVE  \E saves : Short(saves) /\ plan' = [plan EXCEPT ![p] = saves]
  BY <1>1, SaveKinds, ShortPlans DEF Review, Saves
<1>2. ASSUME NEW g, NEW b, StartGoal(p, g, b)
      PROVE  \E saves : Short(saves) /\ plan' = [plan EXCEPT ![p] = saves]
  BY <1>2, ShortPlans DEF StartGoal, Saves
<1>3. ASSUME NEW g, NEW spec, ProposeRefused(p, g, spec)
      PROVE  \E saves : Short(saves) /\ plan' = [plan EXCEPT ![p] = saves]
  BY <1>3, ShortPlans DEF ProposeRefused, Saves
<1>4. ASSUME NEW t, NEW spec, ProposeTask(p, t, spec)
      PROVE  \E saves : Short(saves) /\ plan' = [plan EXCEPT ![p] = saves]
  BY <1>4, SaveKinds, ShortPlans DEF ProposeTask, Saves
<1>5. ASSUME NEW status, NEW summary, NEW ev, SubmitAttempt(p, status, summary, ev)
      PROVE  \E saves : Short(saves) /\ plan' = [plan EXCEPT ![p] = saves]
  BY <1>5, SaveKinds, ShortPlans DEF SubmitAttempt, Saves
<1>6. CASE AcceptTask(p)
  BY <1>6, ShortPlans DEF AcceptTask, Saves
<1>7. CASE DropTask(p) \/ \E t \in Tasks : LoadTask(p, t) \/ RunWorkflow(p, t)
  BY <1>7 DEF DropTask, LoadTask, RunWorkflow
<1>8. ASSUME NEW a, ReviewAttempt(p, a)
      PROVE  \E saves : Short(saves) /\ plan' = [plan EXCEPT ![p] = saves]
  BY <1>1, <1>8 DEF ReviewAttempt
<1>9. QED
  BY <1>2, <1>3, <1>4, <1>5, <1>6, <1>7, <1>8 DEF Command

\* What a step does to the plans: one process begins a command, writes, is
\* refused or is killed.
LEMMA PlanStep ==
  ASSUME TypeInv, PlanInv, NEW p \in Procs, Step(p)
  PROVE  /\ \A q \in Procs \ {p} : plan'[q] = plan[q]
         /\ \/ plan'[p] = plan[p]
            \/ plan[p] = <<>> /\ Short(plan'[p])
            \/ plan[p] # <<>> /\ Write(p) /\ plan'[p] = Tail(plan[p])
            \/ SaveRefused(p) /\ plan'[p] = <<>>
            \/ Crash(p) /\ plan'[p] = <<>>
<1>0. DOMAIN plan = Procs
  BY DEF TypeInv, TypeOK
<1>1. CASE Command(p)
  <2>1. plan[p] = <<>>
    BY <1>1, CommandIsIdle DEF Idle
  <2>2. QED
    BY <1>0, <1>1, <2>1, CommandPlan
<1>2. CASE Truncate(p)
  BY <1>2 DEF Truncate
<1>3. CASE Write(p) \/ SaveRefused(p) \/ Crash(p)
  BY <1>0, <1>3 DEF Write, SaveRefused, Crash
<1>4. ASSUME NEW status, FinishWorkflow(p, status)
      PROVE  /\ plan[p] = <<>> /\ Short(plan'[p])
             /\ \A q \in Procs \ {p} : plan'[q] = plan[q]
  <2>1. plan[p] = <<>>
    BY <1>4 DEF FinishWorkflow, PlanInv
  <2>2. \E saves : Short(saves) /\ plan' = [plan EXCEPT ![p] = saves]
    BY <1>4, SaveKinds, ShortPlans DEF FinishWorkflow, Saves
  <2>3. QED
    BY <1>0, <2>1, <2>2
<1>5. CASE WorkflowTimeout(p) \/ TickStart(p)
  BY <1>5 DEF WorkflowTimeout, TickStart, TickBegin
<1>6. CASE TickReview(p)
  <2>1. PICK r : Reviewing(p, r) /\ Review(p, r, r.latest)
    BY <1>6 DEF TickReview
  <2>2. plan[p] = <<>>
    BY <2>1 DEF Reviewing
  <2>3. \E saves : Short(saves) /\ plan' = [plan EXCEPT ![p] = saves]
    BY <2>1, SaveKinds, ShortPlans DEF Review, Saves
  <2>4. QED
    BY <1>0, <2>2, <2>3
<1>7. CASE TickStep(p) /\ ~TickReview(p)
  BY <1>7
  DEF TickStep, TickGlob, TickRead, TickSkip, TickAbort, TickEnd, TickReturns
<1>8. QED
  BY <1>1, <1>2, <1>3, <1>4, <1>5, <1>6, <1>7 DEF Step, SaveStep, WorkflowStep

LEMMA NextPlanInv ==
  ASSUME TypeInv, TypeInv', PlanInv, NEW p \in Procs, Step(p)
  PROVE  PlanInv'
<1>1. \A q \in Procs \ {p} : plan'[q] = plan[q] /\ job'[q] = job[q] /\ scan'[q] = scan[q]
  <2>1. \A q \in Procs \ {p} : plan'[q] = plan[q]
    BY PlanStep
  <2>2. DOMAIN job = Procs /\ DOMAIN scan = Procs
    BY DEF TypeInv, TypeOK
  <2>3. \A q \in Procs \ {p} : job'[q] = job[q]
    BY <2>2
    DEF Step, Command, StartGoal, ProposeRefused, ProposeTask, LoadTask, DropTask,
        RunWorkflow, SubmitAttempt, AcceptTask, ReviewAttempt, SaveStep, Truncate, Write,
        SaveRefused, WorkflowStep, FinishWorkflow, WorkflowTimeout, TickStart, TickBegin,
        TickStep, TickGlob, TickRead, TickSkip, TickReview, TickAbort, TickEnd, TickReturns,
        Crash
  <2>4. \A q \in Procs \ {p} : scan'[q] = scan[q]
    BY <2>2
    DEF Step, Command, StartGoal, ProposeRefused, ProposeTask, LoadTask, DropTask,
        RunWorkflow, SubmitAttempt, AcceptTask, ReviewAttempt, SaveStep, Truncate, Write,
        SaveRefused, WorkflowStep, FinishWorkflow, WorkflowTimeout, TickStart, TickBegin,
        TickStep, TickGlob, TickRead, TickSkip, TickReview, TickAbort, TickEnd, TickReturns,
        Crash
  <2>5. QED
    BY <2>1, <2>3, <2>4
<1>2. Short(plan'[p])
  <2>1. CASE plan[p] # <<>> /\ plan'[p] = Tail(plan[p])
    <3>1. plan[p] \in Seq(SaveSet) /\ Len(plan[p]) <= 2
      BY DEF TypeInv, TypeOK, PlanInv, Short
    <3>2. Len(Tail(plan[p])) <= 1
      BY <2>1, <3>1
    <3>3. QED
      BY <2>1, <3>2 DEF Short
  <2>2. QED
    BY <2>1, PlanStep, ShortPlans DEF PlanInv
\* A process that is in the middle of a workflow or a listing has no saves.
<1>3. /\ job'[p] \in {"workflow", "tick"} => plan'[p] = <<>>
      /\ job'[p] = "reading" /\ scan'[p].names # {} => plan'[p] = <<>>
  <2>0. /\ DOMAIN job = Procs /\ DOMAIN scan = Procs /\ scan[p] \in Scans
        /\ job[p] \in {"workflow", "tick"} => plan[p] = <<>>
        /\ job[p] = "reading" /\ scan[p].names # {} => plan[p] = <<>>
    BY DEF TypeInv, TypeOK, PlanInv
  <2>1. CASE Command(p)
    <3>1. Idle(p)
      BY <2>1, CommandIsIdle
    <3>2. CASE \E t \in Tasks : RunWorkflow(p, t)
      BY <3>1, <3>2 DEF RunWorkflow, Idle
    <3>3. CASE ~\E t \in Tasks : RunWorkflow(p, t)
      <4>1. job' = job
        BY <2>1, <3>3
        DEF Command, StartGoal, ProposeRefused, ProposeTask, LoadTask, DropTask,
            SubmitAttempt, AcceptTask, ReviewAttempt
      <4>2. QED
        BY <3>1, <4>1 DEF Idle
    <3>4. QED
      BY <3>2, <3>3
  <2>2. CASE SaveStep(p)
    <3>1. plan[p] # <<>> /\ job' = job /\ scan' = scan
      BY <2>2 DEF SaveStep, Truncate, Write, SaveRefused
    <3>2. QED
      BY <2>0, <3>1
  <2>3. CASE WorkflowStep(p) \/ Crash(p) \/ TickReturns(p)
    BY <2>0, <2>3 DEF WorkflowStep, FinishWorkflow, WorkflowTimeout, Crash, TickReturns
  <2>4. CASE TickStart(p)
    BY <2>4 DEF TickStart, TickBegin, Fresh, Idle
  <2>5. CASE TickGlob(p)
    BY <2>0, <2>5 DEF TickGlob
  <2>6. CASE TickRead(p)
    BY <2>0, <2>6 DEF TickRead, Reading
  <2>7. CASE TickSkip(p)
    BY <2>0, <2>7 DEF TickSkip, Reviewing
  <2>8. CASE TickReview(p)
    <3>1. PICK r : Reviewing(p, r)
      BY <2>8 DEF TickReview
    <3>2. job' = job /\ scan'[p].names = scan[p].names
      BY <2>0, <2>8 DEF TickReview, Scans
    <3>3. QED
      BY <3>1, <3>2 DEF Reviewing
  <2>9. QED
    BY <2>1, <2>2, <2>3, <2>4, <2>5, <2>6, <2>7, <2>8 DEF Step, TickStep, TickAbort, TickEnd
<1>4. QED
  BY <1>1, <1>2, <1>3 DEF PlanInv

\* A live process has the save still to make or to finish.
Pending(save) == \E p \in Procs : \E i \in DOMAIN plan[p] : plan[p][i] = save

\* A save that is valid and is no task's stays to be made until it is written,
\* while no process is killed.
LEMMA PendingStays ==
  ASSUME TypeInv, PlanInv, NEW p \in Procs, Step(p), ~Crash(p),
         NEW save, Valid(save), save.kind # "Task", Pending(save)
  PROVE  Pending(save)' \/ (Write(p) /\ plan[p] # <<>> /\ Head(plan[p]) = save)
<1>0. PICK q \in Procs : \E i \in DOMAIN plan[q] : plan[q][i] = save
  BY DEF Pending
<1>1. PICK i \in DOMAIN plan[q] : plan[q][i] = save
  BY <1>0
<1>2. CASE plan'[q] = plan[q]
  BY <1>1, <1>2 DEF Pending
<1>3. CASE plan'[q] # plan[q]
  <2>1. q = p /\ plan[p] # <<>> /\ plan[p] \in Seq(SaveSet)
    BY <1>1, <1>3, PlanStep DEF TypeInv, TypeOK
  <2>2. i \in 1 .. Len(plan[p]) /\ Head(plan[p]) = plan[p][1] /\ Len(plan[p]) \in Nat
    BY <1>1, <2>1
  <2>3. CASE i = 1
    <3>1. Head(plan[p]) = save
      BY <1>1, <2>1, <2>2, <2>3
    <3>2. ~SaveRefused(p)
      BY <3>1 DEF SaveRefused
    <3>3. QED
      BY <1>3, <2>1, <3>1, <3>2, PlanStep
  <2>4. CASE i # 1
    <3>1. i = 2 /\ Len(plan[p]) = 2 /\ Head(plan[p]).kind = "Task"
      <4>1. Len(plan[p]) <= 2 /\ (Len(plan[p]) = 2 => plan[p][1].kind = "Task")
        BY <2>1 DEF PlanInv, Short
      <4>2. \A n \in Nat : n <= 2 /\ i \in 1 .. n => i = 2 /\ n = 2
        BY <2>4
      <4>3. i = 2 /\ Len(plan[p]) = 2
        BY <2>2, <4>1, <4>2
      <4>4. QED
        BY <2>2, <4>1, <4>3
    <3>2. ~SaveRefused(p)
      BY <3>1 DEF SaveRefused, Valid
    <3>3. plan'[p] = Tail(plan[p])
      BY <1>3, <2>1, <3>2, PlanStep
    <3>4. 1 \in DOMAIN plan'[p] /\ plan'[p][1] = save
      BY <1>1, <2>1, <3>1, <3>3
    <3>5. QED
      BY <3>4 DEF Pending
  <2>5. QED
    BY <2>3, <2>4
<1>4. QED
  BY <1>2, <1>3

-----------------------------------------------------------------------------
(* Copies of tasks, in files, hands, listings and saves, and what steps    *)
(* make of them.                                                           *)

Copy(r) ==
  \/ \E t \in Tasks : Readable(tasks[t]) /\ r = tasks[t]
  \/ \E p \in Procs : \/ hand[p] # None /\ r = hand[p]
                      \/ r \in scan[p].batch
                      \/ \E i \in DOMAIN plan[p] : plan[p][i] = TaskSave(r)

New(r) == r.status = "pending" /\ r.latest = None

\* The decision of a review that gives the task its status.
Settles(d, r) ==
  /\ d.task = r.id /\ d.attempt # None
  /\ d.action \in DOMAIN Target /\ Target[d.action] = r.status

\* The save is pending after the step.  (Not Pending', for records named with
\* variables of the next state.)
PendingNext(save) ==
  \E p \in Procs : \E i \in DOMAIN plan'[p] : plan'[p][i] = save

\* A command makes r of the copy s: it names an attempt, or says a verdict,
\* only with the save of the attempt, or of the decision, to follow.
Becomes(s, r) ==
  /\ r.id = s.id /\ r.spec = s.spec
  /\ r.latest = s.latest \/ \E ev \in Evidence : PendingNext(AttemptSave(r.latest, ev))
  /\ \/ r.status \in {s.status, "submitted"}
     \/ r.status = "accepted" /\ <<r.id, r.spec>> \in signedOff'
     \/ \E d \in Decisions : Settles(d, r) /\ PendingNext(DecisionSave(d))

Made(r) == New(r) \/ \E s : Copy(s) /\ Becomes(s, r)

LEMMA CopyIsRecord ==
  ASSUME TypeInv, NEW r, Copy(r)
  PROVE  r \in TaskRecords
<1>1. ASSUME NEW p \in Procs, NEW i \in DOMAIN plan[p], plan[p][i] = TaskSave(r)
      PROVE  r \in TaskRecords
  <2>1. TaskSave(r) \in SaveSet
    BY <1>1 DEF TypeInv, TypeOK
  <2>2. QED
    BY <2>1 DEF TaskSave, SaveSet
<1>2. QED
  BY <1>1 DEF Copy, TypeInv, TypeOK, Readable, Scans

LEMMA CopyIsMade ==
  ASSUME NEW r, Copy(r)
  PROVE  Made(r)
BY DEF Made, Becomes

\* A step that brings in no copy but made ones.
LEMMA CopyFrame ==
  ASSUME TypeInv',
         \A t \in Tasks : tasks'[t] \in TaskRecords =>
           tasks'[t] = tasks[t] \/ Made(tasks'[t]),
         \A q \in Procs : hand'[q] # None => hand'[q] = hand[q] \/ Made(hand'[q]),
         \A q \in Procs : \A r \in scan'[q].batch : r \in scan[q].batch \/ Made(r),
         \A q \in Procs : \A i \in DOMAIN plan'[q] :
           plan'[q][i].kind = "Task" =>
             \/ \E j \in DOMAIN plan[q] : plan'[q][i] = plan[q][j]
             \/ Made(plan'[q][i].task),
         NEW r, Copy(r)'
  PROVE  Made(r)
<1>1. ASSUME NEW t \in Tasks, Readable(tasks'[t]), r = tasks'[t] PROVE Made(r)
  <2>1. tasks'[t] \in TaskRecords
    BY <1>1 DEF TypeInv, TypeOK, Readable
  <2>2. CASE tasks'[t] = tasks[t]
    <3>1. Copy(r)
      BY <1>1, <2>2 DEF Copy
    <3>2. QED
      BY <3>1, CopyIsMade
  <2>3. QED
    BY <1>1, <2>1, <2>2
<1>2. ASSUME NEW q \in Procs, hand'[q] # None, r = hand'[q] PROVE Made(r)
  <2>1. hand'[q] = hand[q] => Copy(r)
    BY <1>2 DEF Copy
  <2>2. QED
    BY <1>2, <2>1, CopyIsMade
<1>3. ASSUME NEW q \in Procs, r \in scan'[q].batch PROVE Made(r)
  <2>1. r \in scan[q].batch => Copy(r)
    BY DEF Copy
  <2>2. QED
    BY <1>3, <2>1, CopyIsMade
<1>4. ASSUME NEW q \in Procs, NEW i \in DOMAIN plan'[q], plan'[q][i] = TaskSave(r)
      PROVE  Made(r)
  <2>1. plan'[q][i].kind = "Task" /\ plan'[q][i].task = r
    BY <1>4, SaveKinds
  <2>2. ASSUME NEW j \in DOMAIN plan[q], plan'[q][i] = plan[q][j] PROVE Copy(r)
    BY <1>4, <2>2 DEF Copy
  <2>3. QED
    BY <2>1, <2>2, CopyIsMade
<1>5. QED
  BY <1>1, <1>2, <1>3, <1>4 DEF Copy

\* The plan of a command that begins with a task, or has none.
LEMMA PlanOfTask ==
  ASSUME TypeInv, NEW p \in Procs, NEW r, Made(r), NEW save, save.kind # "Task",
         \/ plan' = [plan EXCEPT ![p] = <<TaskSave(r), save>>]
         \/ plan' = [plan EXCEPT ![p] = <<TaskSave(r)>>]
  PROVE  \A q \in Procs : \A i \in DOMAIN plan'[q] :
           plan'[q][i].kind = "Task" =>
             \/ \E j \in DOMAIN plan[q] : plan'[q][i] = plan[q][j]
             \/ Made(plan'[q][i].task)
<1>1. \A q \in Procs : q # p => plan'[q] = plan[q]
  BY DEF TypeInv, TypeOK
<1>2. plan'[p] = <<TaskSave(r), save>> \/ plan'[p] = <<TaskSave(r)>>
  BY DEF TypeInv, TypeOK
<1>3. \A i \in DOMAIN plan'[p] : plan'[p][i] = TaskSave(r) \/ plan'[p][i] = save
  BY <1>2
<1>4. \A i \in DOMAIN plan'[p] : plan'[p][i].kind = "Task" => plan'[p][i].task = r
  BY <1>3, SaveKinds
<1>5. QED
  BY <1>1, <1>4

LEMMA PlanOfOther ==
  ASSUME TypeInv, NEW p \in Procs, NEW save, save.kind # "Task",
         plan' = [plan EXCEPT ![p] = <<save>>]
  PROVE  \A q \in Procs : \A i \in DOMAIN plan'[q] :
           plan'[q][i].kind = "Task" => \E j \in DOMAIN plan[q] : plan'[q][i] = plan[q][j]
<1>1. \A q \in Procs : q # p => plan'[q] = plan[q]
  BY DEF TypeInv, TypeOK
<1>2. plan'[p] = <<save>>
  BY DEF TypeInv, TypeOK
<1>3. \A i \in DOMAIN plan'[p] : plan'[p][i] = save
  BY <1>2
<1>4. QED
  BY <1>1, <1>3

LEMMA SecondIsPending ==
  ASSUME TypeInv, NEW p \in Procs, NEW a, NEW b,
         plan' = [plan EXCEPT ![p] = <<a, b>>]
  PROVE  PendingNext(b)
<1>1. plan'[p] = <<a, b>>
  BY DEF TypeInv, TypeOK
<1>2. 2 \in DOMAIN plan'[p] /\ plan'[p][2] = b
  BY <1>1
<1>3. QED
  BY <1>2 DEF PendingNext


\* What a review makes of the copy it is given.
LEMMA ReviewMakes ==
  ASSUME TypeInv, NEW p \in Procs, NEW r \in TaskRecords, Copy(r),
         NEW a \in AttemptIds, Review(p, r, a)
  PROVE  /\ Made(Head(plan'[p]).task)
         /\ \A q \in Procs : \A i \in DOMAIN plan'[q] :
              plan'[q][i].kind = "Task" =>
                \/ \E j \in DOMAIN plan[q] : plan'[q][i] = plan[q][j]
                \/ Made(plan'[q][i].task)
<1>1. PICK d, updated :
        /\ d = ReviewDecision(r, a, attempts[a])
        /\ updated = [r EXCEPT !.status = Reviewed(r.status, d.action)]
        /\ plan' = [plan EXCEPT ![p] = <<TaskSave(updated), DecisionSave(d)>>]
  BY DEF Review, Saves
<1>2. d \in Decisions /\ d.task = r.id /\ d.attempt = a
  <2>1. attempts[a] \in Evidence
    BY DEF Review, Readable, TypeInv, TypeOK
  <2>2. r.id \in Tasks /\ GoalOf[r.id] \in Goals
    BY GoalOfAssumption DEF TaskRecords
  <2>3. QED
    BY <1>1, <2>1, <2>2, ReviewActionType, FeedbackType DEF ReviewDecision, Decisions
<1>3. PendingNext(DecisionSave(d))
  BY <1>1, SecondIsPending
<1>4. /\ updated.id = r.id /\ updated.spec = r.spec /\ updated.latest = r.latest
      /\ updated.status = Reviewed(r.status, d.action)
  BY <1>1 DEF TaskRecords
<1>5. updated.status = r.status \/ Settles(d, updated)
  BY <1>2, <1>4, MarkersAssumption DEF Reviewed, Settles
<1>6. Becomes(r, updated)
  BY <1>2, <1>3, <1>4, <1>5 DEF Becomes
<1>7. Made(updated)
  BY <1>6 DEF Made
<1>8. plan'[p] = <<TaskSave(updated), DecisionSave(d)>>
  BY <1>1 DEF TypeInv, TypeOK
<1>9. Head(plan'[p]).task = updated
  BY <1>8, SaveKinds
<1>10. DecisionSave(d).kind # "Task"
  BY SaveKinds
<1>11. QED
  BY <1>1, <1>7, <1>9, <1>10, PlanOfTask

LEMMA SaveStepCopies ==
  ASSUME TypeInv, TypeInv', NEW p \in Procs, SaveStep(p), NEW r, Copy(r)'
  PROVE  Made(r)
<1>0. hand' = hand /\ scan' = scan /\ plan[p] \in Seq(SaveSet) /\ plan[p] # <<>>
  BY DEF SaveStep, Truncate, Write, SaveRefused, TypeInv, TypeOK
<1>1. ASSUME NEW t \in Tasks, tasks'[t] \in TaskRecords, tasks'[t] # tasks[t]
      PROVE  Made(tasks'[t])
  <2>1. Head(plan[p]) = plan[p][1] /\ 1 \in DOMAIN plan[p] /\ Head(plan[p]) \in SaveSet
    BY <1>0
  <2>2. CASE Truncate(p)
    BY <1>1, <2>2, MarkersAssumption DEF Truncate, Put, Unreadable, TypeInv, TypeOK
  <2>3. CASE Write(p)
    <3>1. PICK content \in AfterWrite(Head(plan[p])) : Put(Head(plan[p]), content)
      BY <2>3 DEF Write
    <3>2. Head(plan[p]).kind = "Task" /\ tasks'[t] = content
      BY <1>1, <3>1 DEF Put, TypeInv, TypeOK
    <3>3. content = Head(plan[p]).task
      BY <1>1, <3>2, MarkersAssumption DEF AfterWrite, Content, Unreadable
    <3>4. plan[p][1] = TaskSave(content)
      BY <2>1, <3>2, <3>3 DEF TaskSave, SaveSet
    <3>5. Copy(content)
      BY <2>1, <3>4 DEF Copy
    <3>6. QED
      BY <3>2, <3>5, CopyIsMade
  <2>4. CASE SaveRefused(p)
    BY <1>1, <2>4 DEF SaveRefused, files
  <2>5. QED
    BY <2>2, <2>3, <2>4 DEF SaveStep
<1>2. ASSUME NEW q \in Procs, NEW i \in DOMAIN plan'[q]
      PROVE  \E j \in DOMAIN plan[q] : plan'[q][i] = plan[q][j]
  <2>1. DOMAIN plan = Procs
    BY DEF TypeInv, TypeOK
  <2>2. CASE plan'[q] = plan[q]
    BY <1>2, <2>2
  <2>3. CASE q = p /\ plan'[p] = Tail(plan[p])
    <3>1. i + 1 \in DOMAIN plan[p] /\ Tail(plan[p])[i] = plan[p][i + 1]
      BY <1>0, <1>2, <2>3
    <3>2. QED
      BY <2>3, <3>1
  <2>4. CASE q = p /\ plan'[p] = <<>>
    BY <1>2, <2>4
  <2>5. QED
    BY <2>1, <2>2, <2>3, <2>4 DEF SaveStep, Truncate, Write, SaveRefused
<1>3. QED
  BY <1>0, <1>1, <1>2, CopyFrame

LEMMA CommandCopies ==
  ASSUME TypeInv, TypeInv', NEW p \in Procs, Command(p), NEW r, Copy(r)'
  PROVE  Made(r)
<1>0. /\ plan \in [Procs -> Seq(SaveSet)]
      /\ hand \in [Procs -> TaskRecords \union {None}]
      /\ tasks' = tasks /\ scan' = scan
  BY DEF TypeInv, TypeOK, Command, StartGoal, ProposeRefused, ProposeTask, LoadTask,
         DropTask, RunWorkflow, SubmitAttempt, AcceptTask, ReviewAttempt, files
<1>1. ASSUME NEW g, NEW b, StartGoal(p, g, b) PROVE Made(r)
  <2>1. plan' = [plan EXCEPT ![p] = <<GoalSave(g, b)>>] /\ hand' = hand
    BY <1>1 DEF StartGoal, Saves
  <2>2. GoalSave(g, b).kind # "Task"
    BY SaveKinds
  <2>3. QED
    BY <1>0, <2>1, <2>2, PlanOfOther, CopyFrame
<1>2. ASSUME NEW g, NEW spec, ProposeRefused(p, g, spec) PROVE Made(r)
  <2>1. PICK d : plan' = [plan EXCEPT ![p] = <<DecisionSave(d)>>] /\ hand' = hand
    BY <1>2 DEF ProposeRefused, Saves
  <2>2. DecisionSave(d).kind # "Task"
    BY SaveKinds
  <2>3. QED
    BY <1>0, <2>1, <2>2, PlanOfOther, CopyFrame
<1>3. ASSUME NEW t, NEW spec, ProposeTask(p, t, spec) PROVE Made(r)
  <2>1. PICK task, d :
          /\ plan' = [plan EXCEPT ![p] = <<TaskSave(task), DecisionSave(d)>>]
          /\ hand' = [hand EXCEPT ![p] = task]
          /\ task = [id |-> t, status |-> "pending", latest |-> None, spec |-> spec]
    BY <1>3 DEF ProposeTask, Saves
  <2>2. Made(task) /\ DecisionSave(d).kind # "Task"
    <3>1. task.status = "pending" /\ task.latest = None
      BY <2>1
    <3>2. QED
      BY <3>1, SaveKinds DEF Made, New
  <2>3. \A q \in Procs : hand'[q] # None => hand'[q] = hand[q] \/ Made(hand'[q])
    BY <1>0, <2>1, <2>2
  <2>4. QED
    BY <1>0, <2>1, <2>2, <2>3, PlanOfTask, CopyFrame
<1>4. ASSUME NEW t \in Tasks, LoadTask(p, t) PROVE Made(r)
  <2>1. hand' = [hand EXCEPT ![p] = tasks[t]] /\ plan' = plan /\ Copy(tasks[t])
    BY <1>4 DEF LoadTask, Copy
  <2>2. \A q \in Procs : hand'[q] # None => hand'[q] = hand[q] \/ Made(hand'[q])
    BY <1>0, <2>1, CopyIsMade
  <2>3. QED
    BY <1>0, <2>1, <2>2, CopyFrame
<1>5. ASSUME NEW t \in Tasks, RunWorkflow(p, t) PROVE Made(r)
  <2>1. Copy(tasks[t]) /\ tasks[t] \in TaskRecords
    BY <1>5 DEF RunWorkflow, Copy, TypeInv, TypeOK, Readable
  <2>2. PICK task : /\ hand' = [hand EXCEPT ![p] = task]
                    /\ task = [tasks[t] EXCEPT !.status = "submitted"]
                    /\ plan' = plan
    BY <1>5 DEF RunWorkflow
  <2>3. Becomes(tasks[t], task)
    BY <2>1, <2>2 DEF Becomes, TaskRecords
  <2>4. Made(task)
    BY <2>1, <2>3 DEF Made
  <2>5. \A q \in Procs : hand'[q] # None => hand'[q] = hand[q] \/ Made(hand'[q])
    BY <1>0, <2>2, <2>4
  <2>6. QED
    BY <1>0, <2>2, <2>5, CopyFrame
<1>6. CASE DropTask(p)
  <2>1. hand' = [hand EXCEPT ![p] = None] /\ plan' = plan
    BY <1>6 DEF DropTask
  <2>2. \A q \in Procs : hand'[q] # None => hand'[q] = hand[q]
    BY <1>0, <2>1
  <2>3. QED
    BY <1>0, <2>1, <2>2, CopyFrame
<1>7. ASSUME NEW status \in Outcomes, NEW summary \in Summaries,
             NEW ev \in SUBSET Items, SubmitAttempt(p, status, summary, ev)
      PROVE  Made(r)
  <2>1. hand[p] \in TaskRecords /\ Copy(hand[p])
    BY <1>0, <1>7 DEF SubmitAttempt, Copy
  <2>2. PICK task, a :
          /\ task = [hand[p] EXCEPT !.status = "submitted", !.latest = a]
          /\ plan' = [plan EXCEPT ![p] = <<TaskSave(task), AttemptSave(a, ev)>>]
          /\ hand' = [hand EXCEPT ![p] = task]
    BY <1>7 DEF SubmitAttempt, Saves
  <2>3. PendingNext(AttemptSave(a, ev)) /\ ev \in Evidence
    BY <2>2, SecondIsPending DEF Evidence
  <2>4. Becomes(hand[p], task)
    BY <2>1, <2>2, <2>3 DEF Becomes, TaskRecords
  <2>5. Made(task) /\ AttemptSave(a, ev).kind # "Task"
    BY <2>1, <2>4, SaveKinds DEF Made
  <2>6. \A q \in Procs : hand'[q] # None => hand'[q] = hand[q] \/ Made(hand'[q])
    BY <1>0, <2>2, <2>5
  <2>7. QED
    BY <1>0, <2>2, <2>5, <2>6, PlanOfTask, CopyFrame
<1>8. CASE AcceptTask(p)
  <2>1. hand[p] \in TaskRecords /\ Copy(hand[p])
    BY <1>0, <1>8 DEF AcceptTask, Copy
  <2>2. PICK task :
          /\ task = [hand[p] EXCEPT !.status = "accepted"]
          /\ plan' = [plan EXCEPT ![p] = <<TaskSave(task)>>]
          /\ hand' = [hand EXCEPT ![p] = task]
          /\ signedOff' = signedOff \union {<<task.id, task.spec>>}
    BY <1>8 DEF AcceptTask, Saves
  <2>3. Becomes(hand[p], task)
    BY <2>1, <2>2 DEF Becomes, TaskRecords
  <2>4. Made(task)
    BY <2>1, <2>3 DEF Made
  <2>5. \A q \in Procs : hand'[q] # None => hand'[q] = hand[q] \/ Made(hand'[q])
    BY <1>0, <2>2, <2>4
  <2>6. DecisionSave(None).kind # "Task"
    BY SaveKinds
  <2>7. QED
    BY <1>0, <2>2, <2>4, <2>5, <2>6, PlanOfTask, CopyFrame
<1>9. ASSUME NEW a \in AttemptIds, ReviewAttempt(p, a) PROVE Made(r)
  <2> DEFINE s == IF hand[p] = None THEN tasks[a.task] ELSE hand[p]
  <2>1. a.task \in Tasks
    BY DEF AttemptIds
  <2>2. s \in TaskRecords /\ Copy(s)
    BY <1>0, <1>9, <2>1 DEF ReviewAttempt, Copy, TypeInv, TypeOK, Readable
  <2>3. Review(p, s, a)
    BY <1>9 DEF ReviewAttempt
  <2>4. hand' = [hand EXCEPT ![p] = IF hand[p] = None THEN None
                                    ELSE Head(plan'[p]).task]
    BY <1>9 DEF ReviewAttempt
  <2> HIDE DEF s
  <2>5. /\ Made(Head(plan'[p]).task)
        /\ \A q \in Procs : \A i \in DOMAIN plan'[q] :
             plan'[q][i].kind = "Task" =>
               \/ \E j \in DOMAIN plan[q] : plan'[q][i] = plan[q][j]
               \/ Made(plan'[q][i].task)
    BY <2>2, <2>3, ReviewMakes
  <2>6. \A q \in Procs : hand'[q] # None => hand'[q] = hand[q] \/ Made(hand'[q])
    BY <1>0, <2>4, <2>5
  <2>7. QED
    BY <1>0, <2>5, <2>6, CopyFrame
<1>10. QED
  BY <1>1, <1>2, <1>3, <1>4, <1>5, <1>6, <1>7, <1>8, <1>9 DEF Command


LEMMA TickCopies ==
  ASSUME TypeInv, TypeInv', NEW p \in Procs, TickStart(p) \/ TickStep(p), NEW r, Copy(r)'
  PROVE  Made(r)
<1>0. /\ scan \in [Procs -> Scans] /\ tasks' = tasks /\ hand' = hand
  BY DEF TypeInv, TypeOK, TickStart, TickStep, TickBegin, TickGlob, TickRead, TickSkip,
         TickReview, TickAbort, TickEnd, TickReturns, files
<1>1. CASE \/ \E quota \in Quotas : TickBegin(p, quota)
           \/ TickGlob(p) \/ TickSkip(p) \/ TickReturns(p)
  <2>1. plan' = plan
    BY <1>1 DEF TickBegin, TickGlob, TickSkip, TickReturns
  <2>2. \A q \in Procs : scan'[q].batch \subseteq scan[q].batch
    <3>1. CASE \E quota \in Quotas : TickBegin(p, quota)
      BY <1>0, <3>1 DEF TickBegin, NoScan
    <3>2. CASE TickGlob(p)
      BY <1>0, <3>2 DEF TickGlob, Scans
    <3>3. CASE TickSkip(p)
      BY <1>0, <3>3 DEF TickSkip, Scans
    <3>4. CASE TickReturns(p)
      BY <1>0, <3>4 DEF TickReturns, NoScan
    <3>5. QED
      BY <1>1, <3>1, <3>2, <3>3, <3>4
  <2>3. QED
    BY <1>0, <2>1, <2>2, CopyFrame
<1>2. CASE TickRead(p)
  <2>1. PICK t \in scan[p].names :
          /\ Readable(tasks[t]) /\ plan' = plan
          /\ scan' = [scan EXCEPT ![p].names = @ \ {t},
                                  ![p].batch = @ \union {tasks[t]}]
    BY <1>2 DEF TickRead
  <2>2. t \in Tasks /\ Copy(tasks[t])
    BY <1>0, <2>1 DEF Scans, Copy
  <2>3. \A q \in Procs : \A s \in scan'[q].batch : s \in scan[q].batch \/ s = tasks[t]
    BY <1>0, <2>1 DEF Scans
  <2>4. Made(tasks[t])
    BY <2>2, CopyIsMade
  <2>5. QED
    BY <1>0, <2>1, <2>3, <2>4, CopyFrame
<1>3. CASE TickReview(p)
  <2>1. PICK s \in scan[p].batch :
          /\ Unreviewed(p, s) /\ Review(p, s, s.latest)
          /\ scan' = [scan EXCEPT
                         ![p].batch = @ \ {s},
                         ![p].seen = @ \union {s.latest},
                         ![p].room = IF @ = None THEN None ELSE @ - 1]
    BY <1>3 DEF TickReview
  <2>2. s \in TaskRecords /\ s.latest \in AttemptIds /\ Copy(s)
    BY <1>0, <2>1 DEF Scans, TaskRecords, Unreviewed, Copy
  <2>3. \A q \in Procs : \A i \in DOMAIN plan'[q] :
          plan'[q][i].kind = "Task" =>
            \/ \E j \in DOMAIN plan[q] : plan'[q][i] = plan[q][j]
            \/ Made(plan'[q][i].task)
    BY <2>1, <2>2, ReviewMakes
  <2>4. \A q \in Procs : scan'[q].batch \subseteq scan[q].batch
    BY <1>0, <2>1 DEF Scans
  <2>5. QED
    BY <1>0, <2>3, <2>4, CopyFrame
<1>4. QED
  BY <1>1, <1>2, <1>3 DEF TickStart, TickStep, TickEnd, TickAbort

LEMMA WorkflowCopies ==
  ASSUME TypeInv, TypeInv', NEW p \in Procs, WorkflowStep(p), NEW r, Copy(r)'
  PROVE  Made(r)
<1>0. /\ tasks' = tasks /\ scan' = scan
      /\ \A q \in Procs : hand'[q] # None => hand'[q] = hand[q]
  BY DEF TypeInv, TypeOK, WorkflowStep, FinishWorkflow, WorkflowTimeout, files
<1>1. ASSUME NEW status \in {"succeeded", "failed"}, FinishWorkflow(p, status)
      PROVE  Made(r)
  <2>1. hand[p] \in TaskRecords /\ Copy(hand[p])
    BY <1>1 DEF FinishWorkflow, TypeInv, TypeOK, WorkflowHasTask, Copy
  <2>2. PICK task, a :
          /\ task = [hand[p] EXCEPT !.latest = a]
          /\ plan' = [plan EXCEPT ![p] = <<TaskSave(task), AttemptSave(a, {WorkflowItem})>>]
    BY <1>1 DEF FinishWorkflow, Saves
  <2>3. PendingNext(AttemptSave(a, {WorkflowItem})) /\ {WorkflowItem} \in Evidence
    BY <2>2, SecondIsPending DEF Evidence
  <2>4. Becomes(hand[p], task)
    BY <2>1, <2>2, <2>3 DEF Becomes, TaskRecords
  <2>5. Made(task) /\ AttemptSave(a, {WorkflowItem}).kind # "Task"
    BY <2>1, <2>4, SaveKinds DEF Made
  <2>6. QED
    BY <1>0, <2>2, <2>5, PlanOfTask, CopyFrame
<1>2. CASE WorkflowTimeout(p)
  BY <1>0, <1>2, CopyFrame DEF WorkflowTimeout
<1>3. QED
  BY <1>1, <1>2 DEF WorkflowStep

LEMMA CrashCopies ==
  ASSUME TypeInv, TypeInv', NEW p \in Procs, Crash(p), NEW r, Copy(r)'
  PROVE  Made(r)
<1>1. /\ tasks' = tasks
      /\ \A q \in Procs : hand'[q] # None => hand'[q] = hand[q]
      /\ \A q \in Procs : scan'[q].batch \subseteq scan[q].batch
      /\ \A q \in Procs : plan'[q] = plan[q] \/ plan'[q] = <<>>
  BY DEF Crash, TypeInv, TypeOK, files, NoScan
<1>2. \A q \in Procs : \A i \in DOMAIN plan'[q] :
        \E j \in DOMAIN plan[q] : plan'[q][i] = plan[q][j]
  BY <1>1
<1>3. QED
  BY <1>1, <1>2, CopyFrame

\* Every copy there is after a step is new, was there before, or was made of one.
LEMMA CopyComes ==
  ASSUME TypeInv, TypeInv', NEW p \in Procs, Step(p), NEW r, Copy(r)'
  PROVE  Made(r)
BY SaveStepCopies, CommandCopies, TickCopies, WorkflowCopies, CrashCopies DEF Step

-----------------------------------------------------------------------------
(* What a step leaves of the files and of the history.                     *)

\* The only step that adds to the decisions that can be parsed is the write of
\* one, and what it writes is the whole decision.
LEMMA DecisionsChange ==
  ASSUME TypeInv, NEW p \in Procs, Step(p)
  PROVE  \/ decisions' = decisions
         \/ \E d \in Decisions :
              /\ plan[p] # <<>> /\ Head(plan[p]) = DecisionSave(d)
              /\ \/ Truncate(p) /\ decisions' = decisions \ {d}
                 \/ Write(p) /\ decisions' = decisions \union {d}
<1>1. CASE Truncate(p) \/ Write(p)
  <2>1. Head(plan[p]) \in SaveSet /\ plan[p] # <<>>
    BY <1>1 DEF Truncate, Write, TypeInv, TypeOK
  <2>2. PICK content : /\ Put(Head(plan[p]), content)
                       /\ \/ Truncate(p) /\ content = Truncated
                          \/ Write(p) /\ content \in AfterWrite(Head(plan[p]))
    BY <1>1 DEF Truncate, Write
  <2>3. CASE Head(plan[p]).kind # "LoopDecision"
    BY <2>2, <2>3 DEF Put
  <2>4. CASE Head(plan[p]).kind = "LoopDecision"
    <3>1. PICK d \in Decisions : Head(plan[p]) = DecisionSave(d)
      BY <2>1, <2>4 DEF SaveSet, DecisionSave
    <3>2. CASE Truncate(p)
      <4>1. decisions' = decisions \ {d}
        BY <2>2, <3>1, <3>2, SaveKinds DEF Truncate, Put
      <4>2. QED
        BY <2>1, <3>1, <3>2, <4>1
    <3>3. CASE Write(p) /\ content \in AfterWrite(Head(plan[p]))
      <4>1. content = d
        BY <3>1, <3>3, SaveKinds DEF AfterWrite, Content, Current
      <4>2. d # Truncated
        BY MarkersAssumption DEF Unreadable
      <4>3. decisions' = decisions \union {d}
        BY <2>2, <3>1, <4>1, <4>2, SaveKinds DEF Put
      <4>4. QED
        BY <2>1, <3>1, <3>3, <4>3
    <3>4. QED
      BY <2>2, <3>2, <3>3
  <2>5. QED
    BY <2>3, <2>4
<1>2. CASE ~(Truncate(p) \/ Write(p))
  BY <1>2
  DEF Step, Command, StartGoal, ProposeRefused, ProposeTask, LoadTask, DropTask,
      RunWorkflow, SubmitAttempt, AcceptTask, ReviewAttempt, SaveStep, SaveRefused,
      WorkflowStep, FinishWorkflow, WorkflowTimeout, TickStart, TickBegin, TickStep,
      TickGlob, TickRead, TickSkip, TickReview, TickAbort, TickEnd, TickReturns, Crash, files
<1>3. QED
  BY <1>1, <1>2

LEMMA DecisionIsWritten ==
  ASSUME TypeInv, NEW p \in Procs, Write(p), NEW d \in Decisions,
         Head(plan[p]) = DecisionSave(d)
  PROVE  d \in decisions'
<1>1. PICK content \in AfterWrite(Head(plan[p])) : Put(Head(plan[p]), content)
  BY DEF Write
<1>2. Head(plan[p]).kind = "LoopDecision" /\ Head(plan[p]).decision = d
  BY SaveKinds
<1>3. content = d
  BY <1>1, <1>2 DEF AfterWrite, Content, Current
<1>4. d # Truncated
  BY MarkersAssumption DEF Unreadable
<1>5. QED
  BY <1>1, <1>2, <1>3, <1>4 DEF Put

\* An attempt file never disappears, and the write of one leaves it there.
LEMMA AttemptsStay ==
  ASSUME TypeInv, NEW p \in Procs, Step(p), NEW a \in AttemptIds
  PROVE  /\ attempts[a] # Absent => attempts'[a] # Absent
         /\ \A ev \in Evidence :
              Write(p) /\ Head(plan[p]) = AttemptSave(a, ev) => attempts'[a] # Absent
<1>1. CASE Truncate(p) \/ Write(p)
  <2>1. Head(plan[p]) \in SaveSet /\ plan[p] # <<>>
    BY <1>1 DEF Truncate, Write, TypeInv, TypeOK
  <2>2. PICK content : /\ Put(Head(plan[p]), content)
                       /\ \/ content = Truncated
                          \/ content \in AfterWrite(Head(plan[p]))
    BY <1>1 DEF Truncate, Write
  <2>3. CASE Head(plan[p]).kind # "Attempt"
    BY <2>2, <2>3, SaveKinds DEF Put
  <2>4. CASE Head(plan[p]).kind = "Attempt"
    <3>1. PICK b \in AttemptIds, ev \in Evidence : Head(plan[p]) = AttemptSave(b, ev)
      BY <2>1, <2>4 DEF SaveSet, AttemptSave
    <3>2. content \in {Truncated, Garbled, ev}
      BY <2>2, <3>1, SaveKinds DEF AfterWrite, Content
    <3>3. content # Absent
      BY <3>2, MarkersAssumption DEF Unreadable
    <3>4. attempts' = [attempts EXCEPT ![b] = content]
      <4>1. Head(plan[p]).attempt = b
        BY <3>1, SaveKinds
      <4>2. QED
        BY <2>2, <2>4, <4>1 DEF Put
    <3>5. attempts'[a] = attempts[a] \/ (a = b /\ attempts'[a] # Absent)
      BY <3>3, <3>4 DEF TypeInv, TypeOK
    <3>6. attempts'[b] # Absent
      BY <3>3, <3>4 DEF TypeInv, TypeOK
    <3>7. \A ew \in Evidence : Head(plan[p]) = AttemptSave(a, ew) => a = b
      BY <3>1, SaveKinds
    <3>8. QED
      BY <3>5, <3>6, <3>7
  <2>5. QED
    BY <2>3, <2>4
<1>2. CASE ~(Truncate(p) \/ Write(p))
  <2>1. attempts' = attempts
    BY <1>2
    DEF Step, Command, StartGoal, ProposeRefused, ProposeTask, LoadTask, DropTask,
        RunWorkflow, SubmitAttempt, AcceptTask, ReviewAttempt, SaveStep, SaveRefused,
        WorkflowStep, FinishWorkflow, WorkflowTimeout, TickStart, TickBegin, TickStep,
        TickGlob, TickRead, TickSkip, TickReview, TickAbort, TickEnd, TickReturns, Crash, files
  <2>2. QED
    BY <1>2, <2>1
<1>3. QED
  BY <1>1, <1>2

\* What was signed off stays so; a save that died with its process stays lost.
LEMMA HistoryGrows ==
  ASSUME NEW p \in Procs, Step(p)
  PROVE  signedOff \subseteq signedOff' /\ lost \subseteq lost'
<1>1. signedOff \subseteq signedOff'
  BY DEF Step, Command, StartGoal, ProposeRefused, ProposeTask, LoadTask, DropTask,
      RunWorkflow, SubmitAttempt, AcceptTask, ReviewAttempt, SaveStep, Truncate, Write,
      SaveRefused, WorkflowStep, FinishWorkflow, WorkflowTimeout, TickStart, TickBegin,
      TickStep, TickGlob, TickRead, TickSkip, TickReview, TickAbort, TickEnd, TickReturns,
      Crash, history
<1>2. lost \subseteq lost'
  BY DEF Step, Command, StartGoal, ProposeRefused, ProposeTask, LoadTask, DropTask,
      RunWorkflow, SubmitAttempt, AcceptTask, ReviewAttempt, SaveStep, Truncate, Write,
      SaveRefused, WorkflowStep, FinishWorkflow, WorkflowTimeout, TickStart, TickBegin,
      TickStep, TickGlob, TickRead, TickSkip, TickReview, TickAbort, TickEnd, TickReturns,
      Crash, history
<1>3. QED
  BY <1>1, <1>2

\* A save that is owed, valid and no task's stays owed until it is written: a
\* process that is killed leaves it among the lost ones.
LEMMA OwedStays ==
  ASSUME TypeInv, PlanInv, NEW p \in Procs, Step(p),
         NEW save, Valid(save), save.kind # "Task", save \in Owed
  PROVE  \/ save \in Owed'
         \/ Write(p) /\ plan[p] # <<>> /\ Head(plan[p]) = save
<1>1. CASE save \in lost
  BY <1>1, HistoryGrows DEF Owed
<1>2. CASE Pending(save) /\ ~Crash(p)
  <2>1. Pending(save)' \/ (Write(p) /\ plan[p] # <<>> /\ Head(plan[p]) = save)
    BY <1>2, PendingStays
  <2>2. Pending(save)' => save \in Owed'
    BY DEF Pending, Owed, PendingOf
  <2>3. QED
    BY <2>1, <2>2
<1>3. CASE Pending(save) /\ Crash(p)
  <2>1. PICK q \in Procs : \E i \in DOMAIN plan[q] : plan[q][i] = save
    BY <1>3 DEF Pending
  <2>2. CASE q = p
    BY <1>3, <2>1, <2>2 DEF Crash, Owed, PendingOf
  <2>3. CASE q # p
    <3>1. plan'[q] = plan[q]
      BY <1>3, <2>3 DEF Crash, TypeInv, TypeOK
    <3>2. QED
      BY <2>1, <3>1 DEF Owed, PendingOf
  <2>4. QED
    BY <2>2, <2>3
<1>4. save \in lost \/ Pending(save)
  BY DEF Owed, PendingOf, Pending
<1>5. QED
  BY <1>1, <1>2, <1>3, <1>4


-----------------------------------------------------------------------------
(* Attempts and verdicts.  Both invariants speak of every copy of a task,  *)
(* as any of them may be saved later.                                      *)

\* The attempt of a copy is on disk or owed to it.
HasAttempt(r) ==
  r.latest # None /\ r.latest.summary # "" =>
    \/ attempts[r.latest] # Absent
    \/ \E ev \in Evidence : AttemptSave(r.latest, ev) \in Owed

Verdicts == {"accepted", "rejected", "blocked"}

\* The verdict of a copy is a sign-off, or a decision on disk or owed to it.
HasDecision(r) ==
  r.status \in Verdicts =>
    \/ r.status = "accepted" /\ <<r.id, r.spec>> \in signedOff
    \/ \E d \in Decisions : Settles(d, r) /\ (d \in decisions \/ DecisionSave(d) \in Owed)

AttemptInv == \A r : Copy(r) => HasAttempt(r)
VerdictInv == \A r : Copy(r) => HasDecision(r)

\* A task file is the file of the task whose id it holds.
FilesNamed == \A t \in Tasks : Readable(tasks[t]) => tasks[t].id = t

LEMMA NextFilesNamed ==
  ASSUME TypeInv, FilesNamed, NEW p \in Procs, Step(p)
  PROVE  FilesNamed'
<1>1. CASE Truncate(p) \/ Write(p)
  <2>1. Head(plan[p]) \in SaveSet /\ plan[p] # <<>>
    BY <1>1 DEF Truncate, Write, TypeInv, TypeOK
  <2>2. PICK content : /\ Put(Head(plan[p]), content)
                       /\ \/ content = Truncated
                          \/ content \in AfterWrite(Head(plan[p]))
    BY <1>1 DEF Truncate, Write
  <2>3. CASE Head(plan[p]).kind # "Task"
    BY <2>2, <2>3 DEF Put, FilesNamed
  <2>4. CASE Head(plan[p]).kind = "Task"
    <3>1. PICK r \in TaskRecords : Head(plan[p]) = TaskSave(r)
      BY <2>1, <2>4 DEF SaveSet, TaskSave
    <3>2. content \in {Truncated, Garbled, r}
      BY <2>2, <3>1, SaveKinds DEF AfterWrite, Content
    <3>3. tasks' = [tasks EXCEPT ![r.id] = content]
      <4>1. Head(plan[p]).task = r
        BY <3>1, SaveKinds
      <4>2. QED
        BY <2>2, <2>4, <4>1 DEF Put
    <3>4. QED
      BY <3>2, <3>3 DEF FilesNamed, Readable, Unreadable, TypeInv, TypeOK
  <2>5. QED
    BY <2>3, <2>4
<1>2. CASE ~(Truncate(p) \/ Write(p))
  <2>1. tasks' = tasks
    BY <1>2
    DEF Step, Command, StartGoal, ProposeRefused, ProposeTask, LoadTask, DropTask,
        RunWorkflow, SubmitAttempt, AcceptTask, ReviewAttempt, SaveStep, SaveRefused,
        WorkflowStep, FinishWorkflow, WorkflowTimeout, TickStart, TickBegin, TickStep,
        TickGlob, TickRead, TickSkip, TickReview, TickAbort, TickEnd, TickReturns, Crash, files
  <2>2. QED
    BY <2>1 DEF FilesNamed
<1>3. QED
  BY <1>1, <1>2

LEMMA PendingIsOwed ==
  ASSUME NEW save, PendingNext(save)
  PROVE  save \in Owed'
BY DEF PendingNext, Owed, PendingOf

LEMMA NextAttemptInv ==
  ASSUME TypeInv, TypeInv', PlanInv, AttemptInv, NEW p \in Procs, Step(p)
  PROVE  AttemptInv'
<1> SUFFICES ASSUME NEW r, Copy(r)', r.latest # None, r.latest.summary # ""
             PROVE  \/ attempts'[r.latest] # Absent
                    \/ \E ev \in Evidence : AttemptSave(r.latest, ev) \in Owed'
  BY DEF AttemptInv, HasAttempt
<1>1. PICK s : Copy(s) /\ Becomes(s, r)
  BY CopyComes DEF Made, New
<1>2. CASE \E ev \in Evidence : AttemptSave(r.latest, ev) \in Owed'
  BY <1>2
<1>3. CASE r.latest = s.latest
  <2>1. r.latest \in AttemptIds
    BY <1>1, <1>3, CopyIsRecord DEF TaskRecords
  <2>2. CASE attempts[r.latest] # Absent
    BY <2>1, <2>2, AttemptsStay
  <2>3. ASSUME NEW ev \in Evidence, AttemptSave(r.latest, ev) \in Owed
        PROVE  \/ attempts'[r.latest] # Absent
               \/ AttemptSave(r.latest, ev) \in Owed'
    <3>1. /\ AttemptSave(r.latest, ev).kind = "Attempt"
          /\ AttemptSave(r.latest, ev).attempt = r.latest
      BY SaveKinds
    <3>2. Valid(AttemptSave(r.latest, ev))
      BY <3>1 DEF Valid
    <3>3. \/ AttemptSave(r.latest, ev) \in Owed'
          \/ Write(p) /\ Head(plan[p]) = AttemptSave(r.latest, ev)
      BY <2>3, <3>1, <3>2, OwedStays
    <3>4. QED
      BY <2>1, <3>3, AttemptsStay
  <2>4. HasAttempt(s)
    BY <1>1 DEF AttemptInv
  <2>5. QED
    BY <1>3, <2>2, <2>3, <2>4 DEF HasAttempt
<1>4. QED
  BY <1>1, <1>2, <1>3, PendingIsOwed DEF Becomes

LEMMA NextVerdictInv ==
  ASSUME TypeInv, TypeInv', PlanInv, VerdictInv, NEW p \in Procs, Step(p)
  PROVE  VerdictInv'
<1> SUFFICES ASSUME NEW r, Copy(r)', r.status \in Verdicts
             PROVE  \/ r.status = "accepted" /\ <<r.id, r.spec>> \in signedOff'
                    \/ \E d \in Decisions :
                         Settles(d, r) /\ (d \in decisions' \/ DecisionSave(d) \in Owed')
  BY DEF VerdictInv, HasDecision
<1>1. PICK s : Copy(s) /\ Becomes(s, r)
  BY CopyComes DEF Made, New, Verdicts
<1>2. CASE r.status # s.status
  BY <1>1, <1>2, PendingIsOwed DEF Becomes, Verdicts
<1>3. CASE r.status = s.status
  <2>1. HasDecision(s) /\ r.id = s.id /\ r.spec = s.spec
    BY <1>1 DEF VerdictInv, Becomes
  <2>2. CASE s.status = "accepted" /\ <<s.id, s.spec>> \in signedOff
    BY <1>3, <2>1, <2>2, HistoryGrows
  <2>3. ASSUME NEW d \in Decisions, Settles(d, s),
               d \in decisions \/ DecisionSave(d) \in Owed
        PROVE  Settles(d, r) /\ (d \in decisions' \/ DecisionSave(d) \in Owed')
    <3>1. Settles(d, r)
      BY <1>3, <2>1, <2>3 DEF Settles
    <3>2. CASE DecisionSave(d) \in Owed
      <4>1. DecisionSave(d).kind = "LoopDecision"
        BY SaveKinds
      <4>2. Valid(DecisionSave(d))
        BY <4>1 DEF Valid
      <4>3. \/ DecisionSave(d) \in Owed'
            \/ Write(p) /\ Head(plan[p]) = DecisionSave(d)
        BY <3>2, <4>1, <4>2, OwedStays
      <4>4. Write(p) /\ Head(plan[p]) = DecisionSave(d) => d \in decisions'
        BY DecisionIsWritten
      <4>5. QED
        BY <3>1, <4>3, <4>4
    <3>3. CASE d \in decisions
      <4>1. CASE d \in decisions'
        BY <3>1, <4>1
      <4>2. CASE d \notin decisions'
        <5>1. Truncate(p) /\ Head(plan[p]) = DecisionSave(d) /\ plan[p] # <<>>
          BY <3>3, <4>2, DecisionsChange, SaveKinds
        <5>2. plan' = plan /\ plan[p] \in Seq(SaveSet)
          BY <5>1 DEF Truncate, TypeInv, TypeOK
        <5>3. 1 \in DOMAIN plan'[p] /\ plan'[p][1] = DecisionSave(d)
          BY <5>1, <5>2
        <5>4. DecisionSave(d) \in Owed'
          BY <5>3 DEF Owed, PendingOf
        <5>5. QED
          BY <3>1, <5>4
      <4>3. QED
        BY <4>1, <4>2
    <3>4. QED
      BY <2>3, <3>2, <3>3
  <2>4. QED
    BY <1>3, <2>1, <2>2, <2>3 DEF HasDecision
<1>4. QED
  BY <1>2, <1>3

-----------------------------------------------------------------------------
RecordInv == TypeInv /\ PlanInv /\ FilesNamed /\ AttemptInv /\ VerdictInv

LEMMA InitRecordInv == Init => RecordInv
<1> SUFFICES ASSUME Init PROVE RecordInv
  OBVIOUS
<1>1. TypeInv
  BY InitType
<1>2. PlanInv
  BY ShortPlans DEF Init, PlanInv, NoScan
<1>3. \A r : ~Copy(r)
  BY DEF Init, Copy, Readable, Unreadable, NoScan
<1>4. FilesNamed
  BY DEF Init, FilesNamed, Readable, Unreadable
<1>5. QED
  BY <1>1, <1>2, <1>3, <1>4 DEF RecordInv, AttemptInv, VerdictInv

LEMMA NextRecordInv == RecordInv /\ [Next]_vars => RecordInv'
<1> SUFFICES ASSUME RecordInv, [Next]_vars PROVE RecordInv'
  OBVIOUS
<1>0. TypeInv'
  BY NextType DEF RecordInv
<1>1. CASE UNCHANGED vars
  <2>1. /\ UNCHANGED <<goals, tasks, attempts, decisions, spoiled>>
        /\ UNCHANGED <<hand, job, plan, opened, scan>>
        /\ UNCHANGED <<earned, signedOff, lost, ops, crashes>>
    BY <1>1 DEF vars, files, locals, history, bounds
  <2>2. PlanInv' /\ FilesNamed'
    BY <2>1 DEF RecordInv, PlanInv, FilesNamed
  <2>3. Owed' = Owed
    BY <2>1 DEF Owed, PendingOf
  <2>4. AttemptInv' /\ VerdictInv'
    BY <2>1, <2>3 DEF RecordInv, AttemptInv, VerdictInv, HasAttempt, HasDecision, Copy
  <2>5. QED
    BY <1>0, <2>2, <2>4 DEF RecordInv
<1>2. ASSUME NEW p \in Procs, Step(p) PROVE RecordInv'
  BY <1>0, <1>2, NextPlanInv, NextFilesNamed, NextAttemptInv, NextVerdictInv DEF RecordInv
<1>3. QED
  BY <1>1, <1>2, NextIsStep

\* The attempt that a task file names exists, or is owed to the files by its
\* submitter, alive or killed (submit_attempt, run-workflow-task).
THEOREM SubmissionsHaveAttempts == Spec => []SubmittedHasAttempt
<1>1. RecordInv => SubmittedHasAttempt
  BY DEF RecordInv, AttemptInv, HasAttempt, SubmittedHasAttempt, Copy
<1>2. QED
  BY <1>1, InitRecordInv, NextRecordInv, PTL DEF Spec

\* A task file that shows a verdict has the decision that explains it on disk
\* or owed by its reviewer, alive or killed, or a sign-off (review_attempt,
\* supervisor_tick, accept_task).
THEOREM VerdictsAreRecorded == Spec => []VerdictIsRecorded
<1>1. RecordInv => VerdictIsRecorded
  <2> SUFFICES ASSUME RecordInv, NEW t \in Tasks, Readable(tasks[t]),
                      tasks[t].status \in Verdicts
               PROVE  \/ tasks[t].status = "accepted" /\ <<t, tasks[t].spec>> \in signedOff
                      \/ \E d \in decisions : Explains(d, t)
                      \/ \E save \in Owed : save.kind = "LoopDecision"
                                            /\ Explains(save.decision, t)
    BY DEF VerdictIsRecorded, Verdicts
  <2>1. HasDecision(tasks[t]) /\ tasks[t].id = t
    BY DEF RecordInv, VerdictInv, FilesNamed, Copy
  <2>2. \A d : Settles(d, tasks[t]) => Explains(d, t)
    BY <2>1 DEF Settles, Explains
  <2>3. ASSUME NEW d \in Decisions, Settles(d, tasks[t]), DecisionSave(d) \in Owed
        PROVE  \E save \in Owed : save.kind = "LoopDecision" /\ Explains(save.decision, t)
    BY <2>2, <2>3, SaveKinds
  <2>4. QED
    BY <2>1, <2>2, <2>3 DEF HasDecision
<1>2. QED
  BY <1>1, InitRecordInv, NextRecordInv, PTL DEF Spec


-----------------------------------------------------------------------------
(* One decision for each attempt, when one cron process reviews and nobody *)
(* runs review-attempt beside it.                                          *)

\* The review of a tick: one new decision, about an attempt not seen before.
LEMMA TickDecides ==
  ASSUME TypeInv, NEW p \in Procs, TickReview(p)
  PROVE  \E d :
           /\ d.attempt \notin scan[p].seen
           /\ scan'[p].seen = scan[p].seen \union {d.attempt}
           /\ \A q \in Procs \ {p} : scan'[q] = scan[q] /\ plan'[q] = plan[q]
           /\ job' = job /\ job[p] = "reading" /\ plan[p] = <<>>
           /\ decisions' = decisions
           /\ \A i \in DOMAIN plan'[p] : \A e : plan'[p][i] = DecisionSave(e) => e = d
<1>1. PICK r \in scan[p].batch :
        /\ Reviewing(p, r) /\ Unreviewed(p, r) /\ Review(p, r, r.latest)
        /\ scan' = [scan EXCEPT ![p].batch = @ \ {r},
                                ![p].seen = @ \union {r.latest},
                                ![p].room = IF @ = None THEN None ELSE @ - 1]
        /\ job' = job /\ decisions' = decisions
  BY DEF TickReview, files
<1>2. PICK d, task :
        /\ d.attempt = r.latest
        /\ plan' = [plan EXCEPT ![p] = <<TaskSave(task), DecisionSave(d)>>]
  BY <1>1 DEF Review, ReviewDecision, Saves
<1>3. scan \in [Procs -> Scans] /\ DOMAIN plan = Procs
  BY DEF TypeInv, TypeOK
<1>4. scan'[p].seen = scan[p].seen \union {r.latest}
  BY <1>1, <1>3 DEF Scans
<1>5. \A q \in Procs \ {p} : scan'[q] = scan[q] /\ plan'[q] = plan[q]
  BY <1>1, <1>2, <1>3
<1>6. ASSUME NEW i \in DOMAIN plan'[p], NEW e, plan'[p][i] = DecisionSave(e) PROVE e = d
  <2>1. plan'[p] = <<TaskSave(task), DecisionSave(d)>>
    BY <1>2, <1>3
  <2>2. plan'[p][i] = TaskSave(task) \/ plan'[p][i] = DecisionSave(d)
    BY <1>6, <2>1
  <2>3. QED
    BY <1>6, <2>2, SaveKinds
<1>7. r.latest \notin scan[p].seen /\ job[p] = "reading" /\ plan[p] = <<>>
  BY <1>1 DEF Reviewing, Unreviewed
<1>8. QED
  BY <1>1, <1>2, <1>4, <1>5, <1>6, <1>7

\* No other step brings in a decision about an attempt.
LEMMA OnlyTicksDecide ==
  ASSUME TypeInv, PlanInv, "review" \notin Commands, NEW p \in Procs, Step(p), ~TickReview(p),
         NEW q \in Procs, NEW i \in DOMAIN plan'[q], NEW d,
         plan'[q][i] = DecisionSave(d), d.attempt # None
  PROVE  \E j \in DOMAIN plan[q] : plan[q][j] = DecisionSave(d)
<1>0. plan \in [Procs -> Seq(SaveSet)] /\ DecisionSave(d).kind = "LoopDecision"
  BY SaveKinds DEF TypeInv, TypeOK
<1>1. CASE plan'[q] = plan[q]
  BY <1>1
<1>2. CASE q = p /\ plan[p] # <<>> /\ plan'[p] = Tail(plan[p])
  <2>1. i + 1 \in DOMAIN plan[p] /\ Tail(plan[p])[i] = plan[p][i + 1]
    BY <1>0, <1>2
  <2>2. QED
    BY <1>2, <2>1
<1>3. CASE q = p /\ plan'[p] = <<>>
  BY <1>3
<1>4. CASE Command(p) /\ q = p
  <2>1. ASSUME NEW g, NEW b, StartGoal(p, g, b) PROVE FALSE
    <3>1. plan'[p] = <<GoalSave(g, b)>>
      BY <1>0, <2>1 DEF StartGoal, Saves
    <3>2. plan'[p][i] = GoalSave(g, b)
      BY <1>4, <3>1
    <3>3. QED
      BY <1>0, <1>4, <3>2, SaveKinds
  <2>2. ASSUME NEW g, NEW spec, ProposeRefused(p, g, spec) PROVE FALSE
    <3>1. PICK e : plan'[p] = <<DecisionSave(e)>> /\ e.attempt = None
      BY <1>0, <2>2 DEF ProposeRefused, Saves, ProposalDecision
    <3>2. plan'[p][i] = DecisionSave(e)
      BY <1>4, <3>1
    <3>3. DecisionSave(d) = DecisionSave(e)
      BY <1>4, <3>2
    <3>4. QED
      BY <3>1, <3>3, DecisionSaveTells
  <2>3. ASSUME NEW t, NEW spec, ProposeTask(p, t, spec) PROVE FALSE
    <3>1. PICK task, e : plan'[p] = <<TaskSave(task), DecisionSave(e)>> /\ e.attempt = None
      BY <1>0, <2>3 DEF ProposeTask, Saves, ProposalDecision
    <3>2. plan'[p][i] = TaskSave(task) \/ plan'[p][i] = DecisionSave(e)
      BY <1>4, <3>1
    <3>3. QED
      <4>1. DecisionSave(d) = TaskSave(task) \/ DecisionSave(d) = DecisionSave(e)
        BY <1>4, <3>2
      <4>2. TaskSave(task).kind = "Task"
        BY SaveKinds
      <4>3. d = e
        BY <1>0, <4>1, <4>2, DecisionSaveTells
      <4>4. QED
        BY <3>1, <4>3
  <2>4. ASSUME NEW status, NEW summary, NEW ev, SubmitAttempt(p, status, summary, ev)
        PROVE  FALSE
    <3>1. PICK task, a : plan'[p] = <<TaskSave(task), AttemptSave(a, ev)>>
      BY <1>0, <2>4 DEF SubmitAttempt, Saves
    <3>2. plan'[p][i] = TaskSave(task) \/ plan'[p][i] = AttemptSave(a, ev)
      BY <1>4, <3>1
    <3>3. QED
      BY <1>0, <1>4, <3>2, SaveKinds
  <2>5. ASSUME AcceptTask(p) PROVE FALSE
    <3>1. PICK task : plan'[p] = <<TaskSave(task)>>
      BY <1>0, <2>5 DEF AcceptTask, Saves
    <3>2. plan'[p][i] = TaskSave(task)
      BY <1>4, <3>1
    <3>3. QED
      BY <1>0, <1>4, <3>2, SaveKinds
  <2>6. CASE DropTask(p) \/ \E t \in Tasks : LoadTask(p, t) \/ RunWorkflow(p, t)
    BY <2>6 DEF DropTask, LoadTask, RunWorkflow
  <2>7. \A a : ~ReviewAttempt(p, a)
    BY DEF ReviewAttempt, Starts
  <2>8. QED
    BY <1>4, <2>1, <2>2, <2>3, <2>4, <2>5, <2>6, <2>7 DEF Command
<1>5. ASSUME NEW status, FinishWorkflow(p, status), q = p PROVE FALSE
  <2>1. PICK task, a : plan'[p] = <<TaskSave(task), AttemptSave(a, {WorkflowItem})>>
    BY <1>0, <1>5 DEF FinishWorkflow, Saves
  <2>2. plan'[p][i] = TaskSave(task) \/ plan'[p][i] = AttemptSave(a, {WorkflowItem})
    BY <1>5, <2>1
  <2>3. QED
    BY <1>0, <1>5, <2>2, SaveKinds
<1>6. CASE SaveStep(p) \/ Crash(p)
  <2>1. \/ plan' = plan
        \/ plan' = [plan EXCEPT ![p] = Tail(plan[p])] /\ plan[p] # <<>>
        \/ plan' = [plan EXCEPT ![p] = <<>>]
    BY <1>6 DEF SaveStep, Truncate, Write, SaveRefused, Crash
  <2>2. QED
    BY <1>0, <1>1, <1>2, <1>3, <2>1
<1>7. CASE WorkflowTimeout(p) \/ TickStart(p) \/ (TickStep(p) /\ ~TickReview(p))
  BY <1>1, <1>7
  DEF WorkflowTimeout, TickStart, TickBegin, TickStep, TickGlob, TickRead, TickSkip,
      TickAbort, TickEnd, TickReturns
<1>8. q # p => plan'[q] = plan[q]
  BY PlanStep
<1>9. QED
  BY <1>1, <1>4, <1>5, <1>6, <1>7, <1>8 DEF Step, WorkflowStep

\* Ticks, which only cron processes run: when they begin, go on and end.
LEMMA TickGoesOn ==
  ASSUME TypeInv, PlanInv, NEW p \in Procs, Step(p), ~TickReview(p), NEW c \in Procs
  PROVE  /\ job'[c] \in {"tick", "reading"} =>
              \/ job[c] \in {"tick", "reading"} /\ scan'[c].seen = scan[c].seen
              \/ /\ c \in Cron /\ job[c] = "idle" /\ decisions' = decisions
                 /\ scan'[c].seen = {d.attempt : d \in decisions} \ {None}
         /\ job[c] = "reading" /\ plan[c] # <<>> => job'[c] = "reading" \/ plan'[c] = <<>>
<1>0. scan \in [Procs -> Scans] /\ job \in [Procs -> {"idle", "workflow", "tick", "reading"}]
  BY DEF TypeInv, TypeOK
<1>1. CASE Command(p)
  <2>1. scan' = scan
    BY <1>1
    DEF Command, StartGoal, ProposeRefused, ProposeTask, LoadTask, DropTask, RunWorkflow,
        SubmitAttempt, AcceptTask, ReviewAttempt
  <2>2. job' = job \/ (job[p] = "idle" /\ job' = [job EXCEPT ![p] = "workflow"])
    BY <1>1, CommandIsIdle
    DEF Command, StartGoal, ProposeRefused, ProposeTask, LoadTask, DropTask, RunWorkflow,
        SubmitAttempt, AcceptTask, ReviewAttempt, Idle
  <2>3. QED
    BY <1>0, <2>1, <2>2
<1>2. CASE SaveStep(p)
  BY <1>2 DEF SaveStep, Truncate, Write, SaveRefused
<1>3. CASE WorkflowStep(p)
  BY <1>0, <1>3 DEF WorkflowStep, FinishWorkflow, WorkflowTimeout
<1>4. ASSUME NEW quota, TickBegin(p, quota)
      PROVE  /\ job'[c] \in {"tick", "reading"} =>
                  \/ job[c] \in {"tick", "reading"} /\ scan'[c].seen = scan[c].seen
                  \/ /\ c \in Cron /\ job[c] = "idle" /\ decisions' = decisions
                     /\ scan'[c].seen = {d.attempt : d \in decisions} \ {None}
             /\ job[c] = "reading" /\ plan[c] # <<>> => job'[c] = "reading"
  <2>1. /\ p \in Cron /\ job[p] = "idle" /\ job' = [job EXCEPT ![p] = "tick"]
        /\ decisions' = decisions
        /\ scan' = [scan EXCEPT ![p] =
             [NoScan EXCEPT !.seen = {d.attempt : d \in decisions} \ {None}, !.room = quota]]
    BY <1>4 DEF TickBegin, Fresh, Idle, files
  <2>2. c = p => scan'[c].seen = {d.attempt : d \in decisions} \ {None}
    BY <1>0, <2>1 DEF NoScan
  <2>3. c # p => scan'[c] = scan[c] /\ job'[c] = job[c]
    BY <1>0, <2>1
  <2>4. QED
    BY <1>0, <2>1, <2>2, <2>3
<1>5. CASE TickGlob(p)
  BY <1>0, <1>5 DEF TickGlob, Scans
<1>6. CASE TickRead(p) \/ TickSkip(p)
  <2>1. job' = job /\ plan' = plan
    BY <1>6 DEF TickRead, TickSkip
  <2>2. CASE TickRead(p)
    <3>1. PICK t : scan' = [scan EXCEPT ![p].names = @ \ {t},
                                        ![p].batch = @ \union {tasks[t]}]
      BY <2>2 DEF TickRead
    <3>2. scan'[c].seen = scan[c].seen
      BY <1>0, <3>1 DEF Scans
    <3>3. QED
      BY <2>1, <3>2
  <2>3. CASE TickSkip(p)
    <3>1. PICK r : scan' = [scan EXCEPT ![p].batch = @ \ {r}]
      BY <2>3 DEF TickSkip
    <3>2. scan'[c].seen = scan[c].seen
      BY <1>0, <3>1 DEF Scans
    <3>3. QED
      BY <2>1, <3>2
  <2>4. QED
    BY <1>6, <2>2, <2>3
<1>7. CASE TickAbort(p) \/ TickEnd(p)
  <2>1. plan[p] = <<>>
    BY <1>7 DEF TickAbort, TickEnd, Reading, Stuck, Reviewing, PlanInv
  <2>2. TickReturns(p)
    BY <1>7 DEF TickAbort, TickEnd
  <2>3. QED
    BY <1>0, <2>1, <2>2 DEF TickReturns
<1>8. CASE Crash(p)
  <2>1. /\ job' = [job EXCEPT ![p] = "idle"] /\ scan' = [scan EXCEPT ![p] = NoScan]
        /\ plan' = [plan EXCEPT ![p] = <<>>] /\ DOMAIN plan = Procs
    BY <1>8 DEF Crash, TypeInv, TypeOK
  <2>2. c = p => job'[c] = "idle" /\ plan'[c] = <<>>
    BY <1>0, <2>1
  <2>3. c # p => job'[c] = job[c] /\ scan'[c] = scan[c]
    BY <1>0, <2>1
  <2>4. QED
    BY <2>2, <2>3
<1>9. QED
  BY <1>1, <1>2, <1>3, <1>4, <1>5, <1>6, <1>7, <1>8 DEF Step, TickStart, TickStep


\* A decision that is on disk or about to be.
Due(d) == d \in decisions \/ Pending(DecisionSave(d))

\* What the cron process c knows of the decisions about attempts.  A decision
\* that its writer has truncated is on no list until it is written.
OnceInv(c) ==
  /\ \A p \in Procs : job[p] \in {"tick", "reading"} => p = c
  /\ \A p \in Procs, d \in Decisions : \A i \in DOMAIN plan[p] :
       plan[p][i] = DecisionSave(d) /\ d.attempt # None => p = c /\ job[c] = "reading"
  /\ job[c] \in {"tick", "reading"} =>
       \A d \in Decisions : Due(d) /\ d.attempt # None => d.attempt \in scan[c].seen
  /\ \A d, e \in Decisions :
       Due(d) /\ Due(e) /\ d.attempt = e.attempt /\ d.attempt # None => d = e

LEMMA NextOnceInv ==
  ASSUME NEW c, Cron = {c}, "review" \notin Commands,
         TypeInv, TypeInv', PlanInv, OnceInv(c), NEW p \in Procs, Step(p)
  PROVE  OnceInv(c)'
<1>0. c \in Procs
  BY DEF Procs
<1>1. CASE TickReview(p)
  <2>1. p = c
    <3>1. job[p] = "reading"
      BY <1>1, TickDecides
    <3>2. QED
      BY <3>1 DEF OnceInv
  <2>2. PICK new :
          /\ new.attempt \notin scan[p].seen
          /\ scan'[p].seen = scan[p].seen \union {new.attempt}
          /\ \A q \in Procs \ {p} : scan'[q] = scan[q] /\ plan'[q] = plan[q]
          /\ job' = job /\ job[p] = "reading" /\ plan[p] = <<>>
          /\ decisions' = decisions
          /\ \A i \in DOMAIN plan'[p] : \A e : plan'[p][i] = DecisionSave(e) => e = new
    BY <1>1, TickDecides
  <2>3. ASSUME NEW d \in Decisions, Due(d)' PROVE Due(d) \/ d = new
    <3>1. CASE d \in decisions'
      BY <2>2, <3>1 DEF Due
    <3>2. CASE Pending(DecisionSave(d))'
      <4>1. PICK q \in Procs : \E i \in DOMAIN plan'[q] : plan'[q][i] = DecisionSave(d)
        BY <3>2 DEF Pending
      <4>2. CASE q = p
        BY <2>2, <4>1, <4>2
      <4>3. CASE q # p
        BY <2>2, <4>1, <4>3 DEF Due, Pending
      <4>4. QED
        BY <4>2, <4>3
    <3>3. QED
      BY <2>3, <3>1, <3>2 DEF Due
  <2>4. ASSUME NEW q \in Procs, NEW d \in Decisions, NEW i \in DOMAIN plan'[q],
               plan'[q][i] = DecisionSave(d), d.attempt # None
        PROVE  q = c /\ job'[c] = "reading"
    <3>1. CASE q = p
      BY <2>1, <2>2, <3>1
    <3>2. CASE q # p
      BY <2>1, <2>2, <2>4, <3>2 DEF OnceInv
    <3>3. QED
      BY <3>1, <3>2
  <2>5. ASSUME NEW d \in Decisions, Due(d)', d.attempt # None
        PROVE  d.attempt \in scan'[c].seen
    BY <2>1, <2>2, <2>3, <2>5 DEF OnceInv
  <2>6. ASSUME NEW d \in Decisions, NEW e \in Decisions,
               Due(d)', Due(e)', d.attempt = e.attempt, d.attempt # None
        PROVE  d = e
    <3>1. ASSUME NEW f \in Decisions, Due(f), f.attempt = d.attempt
          PROVE  f.attempt # new.attempt
      BY <2>1, <2>2, <2>6, <3>1 DEF OnceInv
    <3>2. QED
      BY <2>3, <2>6, <3>1 DEF OnceInv
  <2>7. \A q \in Procs : job'[q] \in {"tick", "reading"} => q = c
    BY <2>2 DEF OnceInv
  <2>8. QED
    BY <2>4, <2>5, <2>6, <2>7 DEF OnceInv
<1>2. CASE ~TickReview(p)
  \* What is due after the step was due before.
  <2>1. ASSUME NEW d \in Decisions, d.attempt # None, Due(d)' PROVE Due(d)
    <3>1. CASE d \in decisions'
      <4>1. d \in decisions \/ (Head(plan[p]) = DecisionSave(d) /\ plan[p] # <<>>)
        BY <3>1, DecisionsChange
      <4>2. ASSUME Head(plan[p]) = DecisionSave(d), plan[p] # <<>>
            PROVE  Pending(DecisionSave(d))
        <5>1. plan[p] \in Seq(SaveSet)
          BY DEF TypeInv, TypeOK
        <5>2. 1 \in DOMAIN plan[p] /\ plan[p][1] = DecisionSave(d)
          BY <4>2, <5>1
        <5>3. QED
          BY <5>2 DEF Pending
      <4>3. QED
        BY <4>1, <4>2 DEF Due
    <3>2. CASE Pending(DecisionSave(d))'
      <4>1. PICK q \in Procs : \E i \in DOMAIN plan'[q] : plan'[q][i] = DecisionSave(d)
        BY <3>2 DEF Pending
      <4>2. PICK i \in DOMAIN plan'[q] : plan'[q][i] = DecisionSave(d)
        BY <4>1
      <4>3. \E j \in DOMAIN plan[q] : plan[q][j] = DecisionSave(d)
        BY <1>2, <2>1, <4>2, OnlyTicksDecide
      <4>4. QED
        BY <4>3 DEF Due, Pending
    <3>3. QED
      BY <2>1, <3>1, <3>2 DEF Due
  <2>2. ASSUME NEW q \in Procs, NEW d \in Decisions, NEW i \in DOMAIN plan'[q],
               plan'[q][i] = DecisionSave(d), d.attempt # None
        PROVE  q = c /\ job'[c] = "reading"
    <3>1. PICK j \in DOMAIN plan[q] : plan[q][j] = DecisionSave(d)
      BY <1>2, <2>2, OnlyTicksDecide
    <3>2. q = c /\ job[c] = "reading"
      BY <2>2, <3>1 DEF OnceInv
    <3>3. plan[c] # <<>> /\ plan'[c] # <<>>
      BY <2>2, <3>1, <3>2
    <3>4. QED
      BY <1>0, <1>2, <3>2, <3>3, TickGoesOn
  <2>3. ASSUME job'[c] \in {"tick", "reading"}, NEW d \in Decisions, Due(d)', d.attempt # None
        PROVE  d.attempt \in scan'[c].seen
    <3>1. Due(d)
      BY <2>1, <2>3
    <3>2. CASE job[c] \in {"tick", "reading"} /\ scan'[c].seen = scan[c].seen
      BY <2>3, <3>1, <3>2 DEF OnceInv
    <3>3. CASE /\ c \in Cron /\ job[c] = "idle" /\ decisions' = decisions
               /\ scan'[c].seen = {e.attempt : e \in decisions} \ {None}
      <4>1. ~Pending(DecisionSave(d))
        BY <2>3, <3>3 DEF OnceInv, Pending
      <4>2. d \in decisions
        BY <3>1, <4>1 DEF Due
      <4>3. QED
        BY <2>3, <3>3, <4>2
    <3>4. QED
      BY <1>0, <1>2, <2>3, <3>2, <3>3, TickGoesOn
  <2>4. ASSUME NEW d \in Decisions, NEW e \in Decisions,
               Due(d)', Due(e)', d.attempt = e.attempt, d.attempt # None
        PROVE  d = e
    BY <2>1, <2>4 DEF OnceInv
  <2>5. ASSUME NEW q \in Procs, job'[q] \in {"tick", "reading"} PROVE q = c
    <3>1. job[q] \in {"tick", "reading"} \/ q \in Cron
      BY <1>2, <2>5, TickGoesOn
    <3>2. QED
      BY <3>1 DEF OnceInv
  <2>6. QED
    BY <2>2, <2>3, <2>4, <2>5 DEF OnceInv
<1>3. QED
  BY <1>1, <1>2

\* One attempt gets one decision, when one cron process runs the ticks and no
\* session reviews beside it: whatever ticks are cut short by crashes and
\* quotas, and however often sessions name the attempt again (supervisor_tick
\* leaves out the attempts of the decisions it has listed).
THEOREM OneTickerReviewsOnce ==
  ASSUME NEW c, Cron = {c}, "review" \notin Commands
  PROVE  Spec => []ReviewedOnce
<1> DEFINE IInv == TypeInv /\ PlanInv /\ OnceInv(c)
<1>1. Init => IInv
  <2> SUFFICES ASSUME Init PROVE IInv
    OBVIOUS
  <2>1. TypeInv
    BY InitType
  <2>2. PlanInv
    BY ShortPlans DEF Init, PlanInv, NoScan
  <2>3. c \in Procs /\ \A d : ~Due(d)
    BY DEF Init, Due, Pending, Procs
  <2>4. OnceInv(c)
    BY <2>3 DEF Init, OnceInv
  <2>5. QED
    BY <2>1, <2>2, <2>4
<1>2. IInv /\ [Next]_vars => IInv'
  <2> SUFFICES ASSUME IInv, [Next]_vars PROVE IInv'
    OBVIOUS
  <2>0. TypeInv'
    BY NextType
  <2>1. CASE UNCHANGED vars
    <3>1. UNCHANGED <<decisions, job, plan, scan>>
      BY <2>1 DEF vars, files, locals
    <3>2. PlanInv'
      BY <3>1 DEF PlanInv
    <3>3. OnceInv(c)'
      BY <3>1 DEF OnceInv, Due, Pending
    <3>4. QED
      BY <2>0, <3>2, <3>3
  <2>2. ASSUME NEW p \in Procs, Step(p) PROVE IInv'
    BY <2>0, <2>2, NextPlanInv, NextOnceInv
  <2>3. QED
    BY <2>1, <2>2, NextIsStep
<1>3. IInv => ReviewedOnce
  BY DEF OnceInv, Due, ReviewedOnce, TypeInv, TypeOK
<1>4. QED
  BY <1>1, <1>2, <1>3, PTL DEF Spec

-----------------------------------------------------------------------------
(* Tasks are never left in a passing status.                               *)

Settled == {"accepted", "rejected", "blocked"}

LastingInv == \A r : Copy(r) => r.status \in {"pending", "submitted"} \union Settled

LEMMA NextLastingInv ==
  ASSUME TypeInv, TypeInv', LastingInv, NEW p \in Procs, Step(p)
  PROVE  LastingInv'
<1> SUFFICES ASSUME NEW r, Copy(r)'
             PROVE  r.status \in {"pending", "submitted"} \union Settled
  BY DEF LastingInv
<1>1. Made(r)
  BY CopyComes
<1>2. ASSUME NEW d, Settles(d, r) PROVE r.status \in Settled
  BY <1>2, TargetValues DEF Settles, Settled
<1>3. QED
  BY <1>1, <1>2 DEF Made, New, Becomes, LastingInv, Settled

\* What the lifecycle table says of the moves the workspace makes.
LEMMA LifecycleMoves ==
  /\ \A s : CanMoveThrough(s, "running", "submitted") => s = "pending"
  /\ \A s : CanMove(s, "submitted") => s = "running"
  /\ \A s : CanMove(s, "accepted") => s = "submitted"
BY DEF CanMoveThrough, CanMove, TASK_TRANSITIONS, TaskStatuses

-----------------------------------------------------------------------------
(* One process that works alone.  Its copies are then what the files say,  *)
(* or what it is about to save.                                            *)

HeadTask(p) == plan[p] # <<>> /\ Head(plan[p]).kind = "Task"
HeadAttempt(p) == plan[p] # <<>> /\ Head(plan[p]).kind = "Attempt"

CopyInv(p) ==
  /\ hand[p] # None /\ job[p] # "workflow" =>
       IF HeadTask(p) THEN Head(plan[p]).task = hand[p] ELSE tasks[hand[p].id] = hand[p]
  /\ job[p] = "workflow" =>
       /\ hand[p].status = "submitted" /\ Readable(tasks[hand[p].id])
       /\ tasks[hand[p].id].status \in {"pending", "submitted"}
  /\ job[p] \in {"tick", "reading"} => hand[p] = None
  /\ scan[p].batch # {} => job[p] = "reading"
  /\ \A r \in scan[p].batch :
       tasks[r.id] = r /\ (HeadTask(p) => Head(plan[p]).task.id # r.id)

\* A step of the board that the save of a status makes.
Moves(file, status) ==
  \/ status = "pending"
  \/ /\ Readable(file)
     /\ \/ file.status = status
        \/ file.status = "pending" /\ status = "submitted"
        \/ file.status \in {"pending", "submitted"} /\ status \in Settled

\* An accepted task that nobody signed off has an attempt that meets its terms.
OnRecord(r, signed) ==
  r.status = "accepted" /\ <<r.id, r.spec>> \notin signed =>
    \E a \in AttemptIds : /\ a.task = r.id /\ Readable(attempts[a])
                          /\ MeetsAcceptance(r.spec, a, attempts[a])

\* An open file is empty; a task about to be saved moves as the board does.
SaveInv(p) ==
  /\ opened[p] => plan[p] # <<>> /\ Current(Head(plan[p])) = Truncated
  /\ HeadTask(p) /\ ~opened[p] => Moves(tasks[Head(plan[p]).task.id], Head(plan[p]).task.status)

\* The files, and the task about to be saved; an attempt is only saved for a
\* task that the same command has saved as submitted.
AloneInv(p) ==
  /\ \A t \in Tasks : Readable(tasks[t]) => OnRecord(tasks[t], signedOff)
  /\ HeadTask(p) => OnRecord(Head(plan[p]).task, signedOff)
  /\ HeadAttempt(p) =>
       LET t == Head(plan[p]).attempt.task
       IN  Readable(tasks[t]) => tasks[t].status = "submitted"
  /\ Len(plan[p]) = 2 /\ plan[p][2].kind = "Attempt" =>
       /\ plan[p][1].task.id = plan[p][2].attempt.task
       /\ plan[p][1].task.status = "submitted"

\* The first save of a command that begins.
Good(saves, signed) ==
  saves # <<>> =>
    /\ Head(saves).kind # "Attempt"
    /\ Head(saves).kind = "Task" =>
         /\ Moves(tasks[Head(saves).task.id], Head(saves).task.status)
         /\ OnRecord(Head(saves).task, signed)
    /\ Len(saves) = 2 /\ saves[2].kind = "Attempt" =>
         /\ saves[1].task.id = saves[2].attempt.task
         /\ saves[1].task.status = "submitted"

LEMMA GoodPlans ==
  /\ \A signed : Good(<<>>, signed)
  /\ \A save, signed : save.kind \notin {"Task", "Attempt"} => Good(<<save>>, signed)
  /\ \A r, signed : Moves(tasks[r.id], r.status) /\ OnRecord(r, signed)
                    => Good(<<TaskSave(r)>>, signed)
  /\ \A r, save, signed :
       /\ Moves(tasks[r.id], r.status) /\ OnRecord(r, signed)
       /\ save.kind = "Attempt" => r.id = save.attempt.task /\ r.status = "submitted"
       => Good(<<TaskSave(r), save>>, signed)
<1>1. \A r : TaskSave(r).kind = "Task" /\ TaskSave(r).task = r
  BY SaveKinds
<1>2. \A r, save : /\ <<TaskSave(r), save>> # <<>> /\ Head(<<TaskSave(r), save>>) = TaskSave(r)
                   /\ <<TaskSave(r), save>>[1] = TaskSave(r)
                   /\ <<TaskSave(r), save>>[2] = save
  OBVIOUS
<1>3. \A save : Head(<<save>>) = save /\ Len(<<save>>) = 1
  OBVIOUS
<1>4. \A save, signed : save.kind \notin {"Task", "Attempt"} => Good(<<save>>, signed)
  BY <1>3 DEF Good
<1>5. \A r, signed : Moves(tasks[r.id], r.status) /\ OnRecord(r, signed)
                    => Good(<<TaskSave(r)>>, signed)
  BY <1>1, <1>3 DEF Good
<1>6. ASSUME NEW r, NEW save, NEW signed, Moves(tasks[r.id], r.status), OnRecord(r, signed),
             save.kind = "Attempt" => r.id = save.attempt.task /\ r.status = "submitted"
      PROVE  Good(<<TaskSave(r), save>>, signed)
  BY <1>1, <1>2, <1>6 DEF Good
<1>7. QED
  BY <1>4, <1>5, <1>6 DEF Good

\* What a review of the file's own task plans.
LEMMA ReviewAlone ==
  ASSUME TypeInv, NEW p \in Procs, AloneInv(p), NEW r \in TaskRecords, tasks[r.id] = r,
         r.status \in {"pending", "submitted"} \union Settled,
         NEW a \in AttemptIds, Review(p, r, a), signedOff' = signedOff
  PROVE  \E task : /\ Head(plan'[p]) = TaskSave(task) /\ plan'[p] # <<>>
                   /\ task.id = r.id
                   /\ Good(plan'[p], signedOff')
<1>1. PICK d, task :
        /\ d = ReviewDecision(r, a, attempts[a])
        /\ task = [r EXCEPT !.status = Reviewed(r.status, d.action)]
        /\ plan' = [plan EXCEPT ![p] = <<TaskSave(task), DecisionSave(d)>>]
  BY DEF Review, Saves
<1>2. plan'[p] = <<TaskSave(task), DecisionSave(d)>>
  BY <1>1 DEF TypeInv, TypeOK
<1>3. r.id \in Tasks /\ Readable(r)
  BY MarkersAssumption DEF TaskRecords, Readable
<1>4. /\ task.id = r.id /\ task.spec = r.spec
      /\ task.status = Reviewed(r.status, d.action)
  BY <1>1 DEF TaskRecords
<1>5. /\ CanReview(r.status, d.action)
      /\ d.action = ReviewAction(goals[GoalOf[r.id]], r.spec, a.status, attempts[a])
      /\ a.task = r.id /\ Readable(attempts[a])
  BY <1>1 DEF Review, ReviewDecision
<1>6. Moves(tasks[r.id], task.status)
  BY <1>3, <1>4, <1>5, TargetValues DEF Moves, Reviewed, CanReview, Settled
<1>7. OnRecord(task, signedOff')
  <2>1. CASE task.status = r.status
    <3>1. OnRecord(r, signedOff)
      BY <1>3 DEF AloneInv
    <3>2. QED
      BY <1>4, <2>1, <3>1 DEF OnRecord
  <2>2. CASE task.status = "accepted" /\ r.status # "accepted"
    <3>1. d.action = "mark_complete"
      BY <1>4, <2>2, TargetValues DEF Reviewed
    <3>2. /\ a.status = "succeeded"
          /\ _check_evidence(r.spec, attempts[a]) = "ok"
      <4>1. ReviewAction(goals[GoalOf[r.id]], r.spec, a.status, attempts[a]) = "mark_complete"
        BY <1>5, <3>1
      <4>2. QED
        BY <4>1, CompleteMeans
    <3>3. MeetsAcceptance(r.spec, a, attempts[a])
      BY <3>2, CheckIsSound DEF MeetsAcceptance
    <3>4. QED
      BY <1>4, <1>5, <3>3 DEF OnRecord
  <2>3. CASE task.status # "accepted"
    BY <2>3 DEF OnRecord
  <2>4. QED
    BY <2>1, <2>2, <2>3
<1>8. DecisionSave(d).kind # "Attempt"
  BY SaveKinds
<1>9. Good(plan'[p], signedOff')
  BY <1>2, <1>4, <1>6, <1>7, <1>8, GoodPlans
<1>10. QED
  BY <1>2, <1>4, <1>9

-----------------------------------------------------------------------------
(* The steps of the one process.                                           *)

\* A process that has nothing to save changes no task and no attempt.
LEMMA QuietStep ==
  ASSUME TypeInv, NEW p \in Procs, Step(p), ~Truncate(p), ~Write(p)
  PROVE  /\ tasks' = tasks /\ attempts' = attempts
         /\ ~Crash(p) => opened' = opened
<1>1. tasks' = tasks /\ attempts' = attempts
  BY DEF Step, Command, StartGoal, ProposeRefused, ProposeTask, LoadTask, DropTask,
         RunWorkflow, SubmitAttempt, AcceptTask, ReviewAttempt, SaveStep, SaveRefused,
         WorkflowStep, FinishWorkflow, WorkflowTimeout, TickStart, TickBegin, TickStep,
         TickGlob, TickRead, TickSkip, TickReview, TickAbort, TickEnd, TickReturns, Crash, files
<1>2. ~Crash(p) => opened' = opened
  BY DEF Step, Command, StartGoal, ProposeRefused, ProposeTask, LoadTask, DropTask,
         RunWorkflow, SubmitAttempt, AcceptTask, ReviewAttempt, SaveStep, SaveRefused,
         WorkflowStep, FinishWorkflow, WorkflowTimeout, TickStart, TickBegin, TickStep,
         TickGlob, TickRead, TickSkip, TickReview, TickAbort, TickEnd, TickReturns
<1>3. QED
  BY <1>1, <1>2

\* A process with saves to make does nothing else.
LEMMA BusyStep ==
  ASSUME TypeInv, PlanInv, NEW p \in Procs, Step(p), plan[p] # <<>>
  PROVE  Truncate(p) \/ Write(p) \/ SaveRefused(p) \/ Crash(p)
<1>1. ~Command(p)
  BY CommandIsIdle DEF Idle
<1>2. job[p] \notin {"workflow", "tick"} /\ (job[p] = "reading" => scan[p].names = {})
  BY DEF PlanInv
<1>3. ~WorkflowStep(p)
  BY <1>2 DEF WorkflowStep, FinishWorkflow, WorkflowTimeout
<1>4. ~TickStart(p)
  BY DEF TickStart, TickBegin, Fresh, Idle
<1>5. ~TickStep(p)
  BY <1>2 DEF TickStep, TickGlob, TickRead, TickSkip, TickReview, TickAbort, TickEnd,
              Reading, Reviewing, Stuck
<1>6. QED
  BY <1>1, <1>3, <1>4, <1>5 DEF Step, SaveStep

\* The head of a plan is the save of one file.
LEMMA HeadIs ==
  ASSUME TypeInv, NEW p \in Procs, plan[p] # <<>>
  PROVE  /\ Head(plan[p]) \in SaveSet
         /\ HeadTask(p) => Head(plan[p]).task \in TaskRecords /\ Head(plan[p]).task.id \in Tasks
         /\ HeadAttempt(p) => /\ Head(plan[p]).attempt \in AttemptIds
                              /\ Head(plan[p]).evidence \in Evidence
         /\ ~(HeadTask(p) /\ HeadAttempt(p))
<1>1. Head(plan[p]) \in SaveSet
  BY DEF TypeInv, TypeOK
<1>2. QED
  BY <1>1 DEF HeadTask, HeadAttempt, SaveSet, TaskRecords

LEMMA TruncateDoes ==
  ASSUME TypeInv, NEW p \in Procs, Truncate(p)
  PROVE  /\ tasks' = IF HeadTask(p) THEN [tasks EXCEPT ![Head(plan[p]).task.id] = Truncated]
                     ELSE tasks
         /\ attempts' = IF HeadAttempt(p)
                        THEN [attempts EXCEPT ![Head(plan[p]).attempt] = Truncated]
                        ELSE attempts
         /\ plan[p] # <<>> /\ plan' = plan /\ ~opened[p] /\ opened'[p]
         /\ UNCHANGED <<hand, job, scan, signedOff>>
         /\ Current(Head(plan[p]))' = Truncated
<1>1. Put(Head(plan[p]), Truncated) /\ plan[p] # <<>> /\ plan' = plan
  BY DEF Truncate
<1>2. Head(plan[p]) \in SaveSet
  BY <1>1, HeadIs
<1> DEFINE s == Head(plan[p])
<1>3. CASE s.kind = "Goal"
  <2>1. s.goal \in Goals /\ goals' = [goals EXCEPT ![s.goal] = Truncated]
    BY <1>1, <1>2, <1>3 DEF SaveSet, Put
  <2>2. goals'[s.goal] = Truncated
    BY <2>1 DEF TypeInv, TypeOK
  <2>3. Current(s)' = Truncated
    BY <1>1, <1>3, <2>2 DEF Current
  <2>4. QED
    BY <1>1, <1>3, <2>3 DEF Put, HeadTask, HeadAttempt, Truncate, history, TypeInv, TypeOK
<1>4. CASE s.kind = "Task"
  <2>1. s.task.id \in Tasks /\ tasks' = [tasks EXCEPT ![s.task.id] = Truncated]
    BY <1>1, <1>2, <1>4 DEF SaveSet, Put, TaskRecords
  <2>2. tasks'[s.task.id] = Truncated
    BY <2>1 DEF TypeInv, TypeOK
  <2>3. Current(s)' = Truncated
    BY <1>1, <1>4, <2>2 DEF Current
  <2>4. QED
    BY <1>1, <1>4, <2>1, <2>3 DEF Put, HeadTask, HeadAttempt, Truncate, history, TypeInv, TypeOK
<1>5. CASE s.kind = "Attempt"
  <2>1. s.attempt \in AttemptIds /\ attempts' = [attempts EXCEPT ![s.attempt] = Truncated]
    BY <1>1, <1>2, <1>5 DEF SaveSet, Put
  <2>2. attempts'[s.attempt] = Truncated
    BY <2>1 DEF TypeInv, TypeOK
  <2>3. Current(s)' = Truncated
    BY <1>1, <1>5, <2>2 DEF Current
  <2>4. QED
    BY <1>1, <1>5, <2>1, <2>3 DEF Put, HeadTask, HeadAttempt, Truncate, history, TypeInv, TypeOK
<1>6. CASE s.kind = "LoopDecision"
  <2>1. s.decision \notin decisions'
    BY <1>1, <1>6 DEF Put
  <2>2. Current(s)' = Truncated
    BY <1>1, <1>6, <2>1 DEF Current
  <2>3. QED
    BY <1>1, <1>6, <2>2 DEF Put, HeadTask, HeadAttempt, Truncate, history, TypeInv, TypeOK
<1>7. QED
  BY <1>2, <1>3, <1>4, <1>5, <1>6 DEF SaveSet

LEMMA WriteDoes ==
  ASSUME TypeInv, PlanInv, NEW p \in Procs, SaveInv(p), Write(p)
  PROVE  /\ tasks' = IF HeadTask(p)
                     THEN [tasks EXCEPT ![Head(plan[p]).task.id] = Head(plan[p]).task]
                     ELSE tasks
         /\ attempts' = IF HeadAttempt(p)
                        THEN [attempts EXCEPT ![Head(plan[p]).attempt] = Head(plan[p]).evidence]
                        ELSE attempts
         /\ plan[p] # <<>> /\ plan'[p] = Tail(plan[p])
         /\ opened[p] /\ ~opened'[p]
         /\ UNCHANGED <<hand, job, scan, signedOff>>
<1>1. PICK content \in AfterWrite(Head(plan[p])) : Put(Head(plan[p]), content)
  BY DEF Write
<1>2. Current(Head(plan[p])) = Truncated /\ plan[p] # <<>> /\ Head(plan[p]) \in SaveSet
  BY HeadIs DEF Write, SaveInv
<1>3. content = Content(Head(plan[p]))
  BY <1>1, <1>2 DEF AfterWrite
<1>4. /\ Head(plan[p]).kind = "Task" => content = Head(plan[p]).task
      /\ Head(plan[p]).kind = "Attempt" => content = Head(plan[p]).evidence
  BY <1>3 DEF Content
<1>5. /\ tasks' = IF HeadTask(p)
                  THEN [tasks EXCEPT ![Head(plan[p]).task.id] = Head(plan[p]).task]
                  ELSE tasks
      /\ attempts' = IF HeadAttempt(p)
                     THEN [attempts EXCEPT ![Head(plan[p]).attempt] = Head(plan[p]).evidence]
                     ELSE attempts
  BY <1>1, <1>2, <1>4 DEF Put, HeadTask, HeadAttempt
<1>6. plan'[p] = Tail(plan[p]) /\ opened[p] /\ ~opened'[p]
  BY DEF Write, TypeInv, TypeOK
<1>7. QED
  BY <1>2, <1>5, <1>6 DEF Write, history

LEMMA TailOfShort ==
  ASSUME NEW S, NEW s \in Seq(S), s # <<>>, Len(s) <= 2
  PROVE  /\ Len(Tail(s)) <= 1 /\ Head(s) = s[1]
         /\ Tail(s) = <<>> \/ (Len(s) = 2 /\ Head(Tail(s)) = s[2])
<1>1. Len(s) \in Nat /\ Len(s) # 0 /\ Tail(s) \in Seq(S) /\ Len(Tail(s)) = Len(s) - 1
  OBVIOUS
<1>2. Len(s) = 1 \/ Len(s) = 2
  BY <1>1
<1>3. CASE Len(s) = 1
  <2>1. s = <<s[1]>>
    BY <1>3
  <2>2. \A a : Tail(<<a>>) = <<>>
    OBVIOUS
  <2>3. Tail(s) = <<>> /\ Len(Tail(s)) = 0
    <3>1. Tail(s) = Tail(<<s[1]>>)
      BY <2>1
    <3>2. Tail(<<s[1]>>) = <<>>
      BY <2>2
    <3>3. QED
      BY <1>1, <1>3, <3>1, <3>2
  <2>4. Head(s) = s[1]
    OBVIOUS
  <2>5. Len(Tail(s)) <= 1
    BY <1>1, <1>3
  <2>6. QED
    BY <2>3, <2>4, <2>5
<1>4. CASE Len(s) = 2
  <2>1. Len(Tail(s)) <= 1 /\ Head(s) = s[1]
    BY <1>1, <1>4
  <2>2. Head(Tail(s)) = Tail(s)[1]
    BY <1>1, <1>4
  <2>3. Tail(s)[1] = s[2]
    BY <1>1, <1>4
  <2>4. QED
    BY <1>4, <2>1, <2>2, <2>3
<1>5. QED
  BY <1>2, <1>3, <1>4

\* After a save the rest of the plan is empty, or one save that is no task's.
LEMMA RestOfPlan ==
  ASSUME TypeInv, PlanInv, NEW p \in Procs, plan[p] # <<>>
  PROVE  /\ Tail(plan[p]) # <<>> => /\ Len(plan[p]) = 2 /\ Head(Tail(plan[p])) = plan[p][2]
                                    /\ Head(plan[p]) = plan[p][1]
                                    /\ plan[p][1].kind = "Task" /\ plan[p][2].kind # "Task"
         /\ Len(Tail(plan[p])) <= 1
<1>1. plan[p] \in Seq(SaveSet) /\ Len(plan[p]) <= 2
  BY DEF TypeInv, TypeOK, PlanInv, Short
<1>2. Len(plan[p]) = 2 => plan[p][1].kind = "Task" /\ plan[p][2].kind # "Task"
  BY DEF PlanInv, Short
<1>3. QED
  BY <1>1, <1>2, TailOfShort

\* What a command, a workflow that ends, or a review of a tick plans to save:
\* it starts from what the files say.
LEMMA StartIsGood ==
  ASSUME TypeInv, LastingInv, FilesNamed, NEW p \in Procs, CopyInv(p), AloneInv(p),
         plan[p] = <<>>, Step(p), ~Crash(p)
  PROVE  Good(plan'[p], signedOff')
<1>0. /\ ~HeadTask(p) /\ DOMAIN plan = Procs
      /\ plan[p] = plan'[p] => Good(plan'[p], signedOff')
  BY GoodPlans DEF HeadTask, TypeInv, TypeOK
<1>1. ASSUME NEW saves, plan' = [plan EXCEPT ![p] = saves]
      PROVE  plan'[p] = saves
  BY <1>0, <1>1
<1>2. ASSUME NEW g, NEW b, StartGoal(p, g, b)
      PROVE  Good(plan'[p], signedOff')
  BY <1>1, <1>2, SaveKinds, GoodPlans DEF StartGoal, Saves
<1>3. ASSUME NEW g, NEW spec, ProposeRefused(p, g, spec)
      PROVE  Good(plan'[p], signedOff')
  BY <1>1, <1>3, SaveKinds, GoodPlans DEF ProposeRefused, Saves
<1>4. ASSUME NEW t, NEW spec, ProposeTask(p, t, spec)
      PROVE  Good(plan'[p], signedOff')
  <2> DEFINE task == [id |-> t, status |-> "pending", latest |-> None, spec |-> spec]
             save == DecisionSave(ProposalDecision(GoalOf[t], "create_task", t))
  <2>1. plan'[p] = <<TaskSave(task), save>>
    BY <1>1, <1>4 DEF ProposeTask, Saves
  <2>2. save.kind # "Attempt"
    BY SaveKinds
  <2>3. Moves(tasks[task.id], task.status) /\ OnRecord(task, signedOff')
    BY DEF Moves, OnRecord
  <2> HIDE DEF task, save
  <2>4. QED
    BY <2>1, <2>2, <2>3, GoodPlans
\* The copy in hand is what the file says.
<1>5. ASSUME hand[p] # None, job[p] = "idle"
      PROVE  /\ tasks[hand[p].id] = hand[p] /\ hand[p] \in TaskRecords
             /\ Readable(hand[p]) /\ OnRecord(hand[p], signedOff)
             /\ hand[p].status \in {"pending", "submitted"} \union Settled
  <2>1. hand[p] \in TaskRecords
    BY <1>5 DEF TypeInv, TypeOK
  <2>2. tasks[hand[p].id] = hand[p]
    BY <1>0, <1>5 DEF CopyInv
  <2>3. Readable(hand[p]) /\ hand[p].id \in Tasks
    BY <2>1, MarkersAssumption DEF Readable, TaskRecords
  <2>4. OnRecord(hand[p], signedOff)
    BY <2>2, <2>3 DEF AloneInv
  <2>5. Copy(hand[p])
    BY <1>5 DEF Copy
  <2>6. QED
    BY <2>1, <2>2, <2>3, <2>4, <2>5 DEF LastingInv
<1>6. ASSUME NEW status, NEW summary, NEW ev, SubmitAttempt(p, status, summary, ev)
      PROVE  Good(plan'[p], signedOff')
  <2> DEFINE a == [task |-> hand[p].id, status |-> status, summary |-> summary]
             task == [hand[p] EXCEPT !.status = "submitted", !.latest = a]
             save == AttemptSave(a, ev)
  <2>1. plan'[p] = <<TaskSave(task), save>> /\ CanMove(hand[p].status, "running")
    BY <1>1, <1>6 DEF SubmitAttempt, Saves, CanMoveThrough
  <2>2. /\ hand[p] \in TaskRecords /\ tasks[hand[p].id] = hand[p] /\ Readable(hand[p])
        /\ hand[p].status = "pending"
    <3>1. hand[p] # None /\ job[p] = "idle"
      BY <1>6 DEF SubmitAttempt, Idle
    <3>2. hand[p].status = "pending"
      BY <1>6, LifecycleMoves DEF SubmitAttempt
    <3>3. QED
      BY <1>5, <3>1, <3>2
  <2>3. task.id = hand[p].id /\ task.status = "submitted"
    BY <2>2 DEF TaskRecords
  <2>4. save.attempt.task = hand[p].id
    BY SaveKinds
  <2>5. Moves(tasks[task.id], task.status) /\ OnRecord(task, signedOff')
    BY <2>2, <2>3 DEF Moves, OnRecord
  <2> HIDE DEF a, task, save
  <2>6. QED
    BY <2>1, <2>3, <2>4, <2>5, GoodPlans
<1>7. CASE AcceptTask(p)
  <2> DEFINE task == [hand[p] EXCEPT !.status = "accepted"]
  <2>1. /\ plan'[p] = <<TaskSave(task)>> /\ <<task.id, task.spec>> \in signedOff'
        /\ hand[p].status = "submitted" /\ hand[p] # None /\ job[p] = "idle"
    <3>1. plan'[p] = <<TaskSave(task)>>
      BY <1>1, <1>7 DEF AcceptTask, Saves
    <3>2. CanMove(hand[p].status, "accepted") /\ hand[p] # None /\ job[p] = "idle"
      BY <1>7 DEF AcceptTask, Idle
    <3>3. <<task.id, task.spec>> \in signedOff'
      BY <1>7 DEF AcceptTask
    <3>4. QED
      BY <3>1, <3>2, <3>3, LifecycleMoves
  <2>2. hand[p] \in TaskRecords /\ tasks[hand[p].id] = hand[p] /\ Readable(hand[p])
    BY <1>5, <2>1
  <2>3. task.id = hand[p].id /\ task.status = "accepted"
    BY <2>2 DEF TaskRecords
  <2>4. Moves(tasks[task.id], task.status) /\ OnRecord(task, signedOff')
    BY <2>1, <2>2, <2>3 DEF Moves, OnRecord, Settled
  <2> HIDE DEF task
  <2>5. QED
    BY <2>1, <2>4, GoodPlans
<1>8. CASE DropTask(p) \/ \E t \in Tasks : LoadTask(p, t) \/ RunWorkflow(p, t)
  BY <1>0, <1>8 DEF DropTask, LoadTask, RunWorkflow
<1>9. ASSUME NEW a \in AttemptIds, ReviewAttempt(p, a)
      PROVE  Good(plan'[p], signedOff')
  <2>1. CASE hand[p] = None
    <3>1. Readable(tasks[a.task]) /\ Review(p, tasks[a.task], a) /\ signedOff' = signedOff
      BY <1>9, <2>1 DEF ReviewAttempt
    <3>2. a.task \in Tasks /\ tasks[a.task] \in TaskRecords /\ tasks[a.task].id = a.task
      BY <3>1 DEF AttemptIds, TypeInv, TypeOK, Readable, FilesNamed
    <3>3. tasks[a.task].status \in {"pending", "submitted"} \union Settled
      BY <3>1, <3>2 DEF LastingInv, Copy
    <3>4. QED
      BY <3>1, <3>2, <3>3, ReviewAlone
  <2>2. CASE hand[p] # None
    <3>1. Review(p, hand[p], a) /\ signedOff' = signedOff /\ job[p] = "idle"
      BY <1>9, <2>2 DEF ReviewAttempt, Idle
    <3>2. QED
      BY <1>5, <2>2, <3>1, ReviewAlone
  <2>3. QED
    BY <2>1, <2>2
<1>10. CASE Command(p)
  BY <1>2, <1>3, <1>4, <1>6, <1>7, <1>8, <1>9, <1>10 DEF Command
<1>11. ASSUME NEW status, FinishWorkflow(p, status)
       PROVE  Good(plan'[p], signedOff')
  <2> DEFINE a == [task |-> hand[p].id, status |-> status, summary |-> WorkflowSummary]
             task == [hand[p] EXCEPT !.latest = a]
             save == AttemptSave(a, {WorkflowItem})
  <2>1. plan'[p] = <<TaskSave(task), save>>
    BY <1>1, <1>11 DEF FinishWorkflow, Saves
  <2>2. /\ hand[p] \in TaskRecords /\ hand[p].status = "submitted"
        /\ Readable(tasks[hand[p].id]) /\ tasks[hand[p].id].status \in {"pending", "submitted"}
    BY <1>11 DEF FinishWorkflow, CopyInv, TypeInv, TypeOK, WorkflowHasTask
  <2>3. task.id = hand[p].id /\ task.status = "submitted"
    BY <2>2 DEF TaskRecords
  <2>4. save.attempt.task = hand[p].id
    BY SaveKinds
  <2>5. Moves(tasks[task.id], task.status) /\ OnRecord(task, signedOff')
    BY <2>2, <2>3 DEF Moves, OnRecord
  <2> HIDE DEF a, task, save
  <2>6. QED
    BY <2>1, <2>3, <2>4, <2>5, GoodPlans
<1>12. CASE TickReview(p)
  <2>1. PICK r \in scan[p].batch : Unreviewed(p, r) /\ Review(p, r, r.latest)
    BY <1>12 DEF TickReview
  <2>2. r \in TaskRecords /\ r.latest \in AttemptIds
    BY <2>1 DEF TypeInv, TypeOK, Scans, Unreviewed, TaskRecords
  <2>3. tasks[r.id] = r /\ r.status = "submitted" /\ signedOff' = signedOff
    BY <1>12, <2>1 DEF CopyInv, Unreviewed, TickReview
  <2>4. QED
    BY <2>1, <2>2, <2>3, ReviewAlone
<1>13. CASE WorkflowTimeout(p) \/ TickStart(p) \/ (TickStep(p) /\ ~TickReview(p))
  BY <1>0, <1>13
  DEF WorkflowTimeout, TickStart, TickBegin, TickStep, TickGlob, TickRead, TickSkip,
      TickAbort, TickEnd, TickReturns
<1>14. ~SaveStep(p)
  BY DEF SaveStep, Truncate, Write, SaveRefused
<1>15. QED
  BY <1>10, <1>11, <1>12, <1>13, <1>14 DEF Step, WorkflowStep

\* A pending task save that was begun by this step came with the command's
\* other locals.
LEMMA NextCopyInv ==
  ASSUME TypeInv, TypeInv', PlanInv, FilesNamed, LastingInv, NEW p \in Procs, Step(p),
         SaveInv(p), CopyInv(p)
  PROVE  CopyInv(p)'
<1>0. /\ DOMAIN hand = Procs /\ DOMAIN job = Procs /\ DOMAIN plan = Procs
      /\ DOMAIN scan = Procs /\ DOMAIN tasks = Tasks /\ scan[p] \in Scans
      /\ hand[p] # None => hand[p] \in TaskRecords
      /\ \A r \in scan[p].batch : r \in TaskRecords
  BY DEF TypeInv, TypeOK, Scans
<1>1. CASE Truncate(p)
  <2>1. /\ plan' = plan /\ hand' = hand /\ job' = job /\ scan' = scan
        /\ plan[p] # <<>> /\ job[p] # "workflow"
        /\ HeadTask(p)' <=> HeadTask(p)
    BY <1>1, TruncateDoes DEF PlanInv, HeadTask
  <2>2. CASE HeadTask(p)
    <3>1. tasks' = [tasks EXCEPT ![Head(plan[p]).task.id] = Truncated]
      BY <1>1, <2>2, TruncateDoes
    <3>2. \A r \in scan[p].batch : tasks'[r.id] = r /\ Head(plan[p]).task.id # r.id
      BY <1>0, <2>2, <3>1 DEF CopyInv, TaskRecords
    <3>3. QED
      BY <2>1, <2>2, <3>2 DEF CopyInv
  <2>3. CASE ~HeadTask(p)
    <3>1. tasks' = tasks
      BY <1>1, <2>3, TruncateDoes
    <3>2. QED
      BY <2>1, <2>3, <3>1 DEF CopyInv
  <2>4. QED
    BY <2>2, <2>3
<1>2. CASE Write(p)
  <2>1. /\ plan'[p] = Tail(plan[p]) /\ hand' = hand /\ job' = job /\ scan' = scan
        /\ plan[p] # <<>> /\ job[p] # "workflow"
    BY <1>2, WriteDoes DEF PlanInv
  <2>2. ~HeadTask(p)'
    BY <2>1, RestOfPlan DEF HeadTask
  <2>3. CASE HeadTask(p)
    <3>1. tasks' = [tasks EXCEPT ![Head(plan[p]).task.id] = Head(plan[p]).task]
      BY <1>2, <2>3, WriteDoes
    <3>2. \A r \in scan[p].batch : tasks'[r.id] = r
      BY <1>0, <2>3, <3>1 DEF CopyInv, TaskRecords
    <3>3. hand[p] # None => tasks'[hand[p].id] = hand[p]
      <4>1. hand[p] # None => Head(plan[p]).task = hand[p] /\ hand[p].id \in Tasks
        BY <1>0, <2>1, <2>3 DEF CopyInv, TaskRecords
      <4>2. QED
        BY <1>0, <3>1, <4>1
    <3>4. QED
      BY <2>1, <2>2, <3>2, <3>3 DEF CopyInv
  <2>4. CASE ~HeadTask(p)
    <3>1. tasks' = tasks
      BY <1>2, <2>4, WriteDoes
    <3>2. QED
      BY <2>1, <2>2, <2>4, <3>1 DEF CopyInv
  <2>5. QED
    BY <2>3, <2>4
<1>3. CASE ~Truncate(p) /\ ~Write(p)
  <2>0. tasks' = tasks
    BY <1>3, QuietStep
  <2>1. CASE SaveRefused(p)
    <3>1. /\ plan'[p] = <<>> /\ hand' = hand /\ job' = job /\ scan' = scan /\ plan[p] # <<>>
      BY <1>0, <2>1 DEF SaveRefused
    <3>2. ~HeadTask(p) /\ ~HeadTask(p)'
      BY <2>1, <3>1 DEF SaveRefused, Valid, HeadTask
    <3>3. QED
      BY <2>0, <3>1, <3>2 DEF CopyInv
  <2>2. CASE WorkflowStep(p)
    <3>1. /\ hand'[p] = None /\ job'[p] = "idle" /\ scan' = scan /\ job[p] = "workflow"
      BY <1>0, <2>2 DEF WorkflowStep, FinishWorkflow, WorkflowTimeout
    <3>2. scan[p].batch = {}
      BY <3>1 DEF CopyInv
    <3>3. QED
      BY <3>1, <3>2 DEF CopyInv
  <2>3. CASE Crash(p)
    BY <1>0, <2>3 DEF CopyInv, Crash, NoScan
  <2>4. CASE TickReturns(p) /\ (TickEnd(p) \/ TickAbort(p))
    <3>1. hand' = hand /\ job[p] = "reading" /\ job'[p] = "idle" /\ scan'[p].batch = {}
      BY <1>0, <2>4 DEF TickReturns, TickEnd, TickAbort, Reading, Stuck, Reviewing, NoScan
    <3>2. QED
      BY <3>1 DEF CopyInv
  <2>5. CASE TickStart(p)
    <3>1. hand' = hand /\ hand[p] = None /\ job'[p] = "tick" /\ scan'[p].batch = {}
      BY <1>0, <2>5 DEF TickStart, TickBegin, Fresh, NoScan
    <3>2. QED
      BY <3>1 DEF CopyInv
  <2>6. CASE TickGlob(p)
    <3>1. /\ hand' = hand /\ job[p] = "tick" /\ job'[p] = "reading"
          /\ scan'[p].batch = scan[p].batch
      BY <1>0, <2>6 DEF TickGlob, Scans
    <3>2. QED
      BY <3>1 DEF CopyInv
  <2>7. CASE TickRead(p)
    <3>1. PICK t \in scan[p].names :
            /\ Reading(p, t) /\ Readable(tasks[t])
            /\ scan' = [scan EXCEPT ![p].names = @ \ {t}, ![p].batch = @ \union {tasks[t]}]
      BY <2>7 DEF TickRead
    <3>2. scan'[p].batch = scan[p].batch \union {tasks[t]}
      BY <1>0, <3>1 DEF Scans
    <3>3. hand' = hand /\ job' = job /\ plan' = plan /\ job[p] = "reading"
      BY <2>7, <3>1 DEF TickRead, Reading
    <3>4. plan[p] = <<>> /\ t \in Tasks /\ tasks[t].id = t
      BY <1>0, <3>1, <3>3 DEF PlanInv, Scans, FilesNamed
    <3>5. QED
      BY <2>0, <3>2, <3>3, <3>4 DEF CopyInv, HeadTask
  <2>8. CASE TickSkip(p)
    <3>1. PICK r \in scan[p].batch :
            /\ Reviewing(p, r) /\ scan' = [scan EXCEPT ![p].batch = @ \ {r}]
      BY <2>8 DEF TickSkip
    <3>2. scan'[p].batch = scan[p].batch \ {r}
      BY <1>0, <3>1 DEF Scans
    <3>3. hand' = hand /\ job' = job /\ plan' = plan
      BY <2>8 DEF TickSkip
    <3>4. QED
      BY <2>0, <3>2, <3>3 DEF CopyInv, HeadTask
  <2>9. CASE TickReview(p)
    <3>1. PICK r \in scan[p].batch :
            /\ Reviewing(p, r) /\ Review(p, r, r.latest)
            /\ scan' = [scan EXCEPT
                          ![p].batch = @ \ {r},
                          ![p].seen = @ \union {r.latest},
                          ![p].room = IF @ = None THEN None ELSE @ - 1]
      BY <2>9 DEF TickReview
    <3>2. scan'[p].batch = scan[p].batch \ {r}
      BY <1>0, <3>1 DEF Scans
    <3>3. hand' = hand /\ job' = job /\ job[p] = "reading" /\ hand[p] = None
      BY <2>9, <3>1 DEF TickReview, Reviewing, CopyInv
    <3>4. Head(plan'[p]).task.id = r.id
      <4>1. PICK task, save :
              /\ task = [r EXCEPT !.status =
                           Reviewed(r.status, ReviewDecision(r, r.latest, attempts[r.latest]).action)]
              /\ plan' = [plan EXCEPT ![p] = <<TaskSave(task), save>>]
        BY <3>1 DEF Review, Saves
      <4>2. plan'[p] = <<TaskSave(task), save>>
        BY <1>0, <4>1
      <4>3. Head(plan'[p]) = TaskSave(task)
        BY <4>2
      <4>4. task.id = r.id
        BY <1>0, <4>1 DEF TaskRecords
      <4>5. QED
        BY <4>3, <4>4, SaveKinds
    <3>5. \A s \in scan[p].batch : s # r => s.id # r.id
      BY <3>1 DEF CopyInv
    <3>6. QED
      BY <2>0, <3>2, <3>3, <3>4, <3>5 DEF CopyInv
  <2>10. CASE Command(p)
    <3>1. job[p] = "idle" /\ plan[p] = <<>> /\ scan[p].batch = {} /\ ~HeadTask(p)
      BY <2>10, CommandIsIdle DEF Idle, CopyInv, HeadTask
    <3>2. scan' = scan
      BY <2>10
      DEF Command, StartGoal, ProposeRefused, ProposeTask, LoadTask, DropTask, RunWorkflow,
          SubmitAttempt, AcceptTask, ReviewAttempt
    <3>3. ASSUME NEW task, NEW saves, hand' = [hand EXCEPT ![p] = task], job' = job,
                 plan' = [plan EXCEPT ![p] = saves], saves # <<>>, Head(saves) = TaskSave(task)
          PROVE  CopyInv(p)'
      <4>1. hand'[p] = task /\ plan'[p] = saves
        BY <1>0, <3>3
      <4>2. HeadTask(p)' /\ Head(plan'[p]).task = hand'[p]
        BY <3>3, <4>1, SaveKinds DEF HeadTask
      <4>3. QED
        BY <3>1, <3>2, <3>3, <4>2 DEF CopyInv
    <3>4. ASSUME job' = job, hand'[p] = None
          PROVE  CopyInv(p)'
      BY <3>1, <3>2, <3>4 DEF CopyInv
    <3>5. CASE (\E g \in Goals, b \in Budgets : StartGoal(p, g, b))
               \/ (\E g \in Goals, spec \in Specs : ProposeRefused(p, g, spec))
               \/ DropTask(p)
      <4>1. job' = job /\ hand'[p] = None
        BY <1>0, <3>5 DEF StartGoal, ProposeRefused, DropTask, Fresh
      <4>2. QED
        BY <3>4, <4>1
    <3>6. ASSUME NEW t, NEW spec, ProposeTask(p, t, spec)
          PROVE  CopyInv(p)'
      <4> DEFINE task == [id |-> t, status |-> "pending", latest |-> None, spec |-> spec]
                 saves == <<TaskSave(task),
                            DecisionSave(ProposalDecision(GoalOf[t], "create_task", t))>>
      <4>1. /\ plan' = [plan EXCEPT ![p] = saves] /\ hand' = [hand EXCEPT ![p] = task]
            /\ job' = job
        BY <3>6 DEF ProposeTask, Saves
      <4>2. saves # <<>> /\ Head(saves) = TaskSave(task)
        OBVIOUS
      <4> HIDE DEF task, saves
      <4>3. QED
        BY <3>3, <4>1, <4>2
    <3>7. ASSUME NEW t \in Tasks, LoadTask(p, t)
          PROVE  CopyInv(p)'
      <4>1. hand'[p] = tasks[t] /\ tasks[t].id = t /\ job' = job /\ plan' = plan
        BY <1>0, <3>7 DEF LoadTask, FilesNamed
      <4>2. QED
        BY <2>0, <3>1, <3>2, <4>1 DEF CopyInv, HeadTask
    <3>8. ASSUME NEW t \in Tasks, RunWorkflow(p, t)
          PROVE  CopyInv(p)'
      <4>1. /\ hand'[p] = [tasks[t] EXCEPT !.status = "submitted"] /\ job'[p] = "workflow"
            /\ Readable(tasks[t]) /\ tasks[t].id = t /\ tasks[t] \in TaskRecords
        BY <1>0, <3>8 DEF RunWorkflow, FilesNamed, TypeInv, TypeOK, Readable
      <4>2. tasks[t].status \in {"pending", "submitted"}
        <5>1. tasks[t].status \in {"pending", "submitted"} \union Settled
          BY <4>1 DEF LastingInv, Copy
        <5>2. tasks[t].status \in {"pending", "running", "submitted"}
          BY <3>8, LifecycleMoves DEF RunWorkflow
        <5>3. QED
          BY <5>1, <5>2 DEF Settled
      <4>3. hand'[p].id = t /\ hand'[p].status = "submitted"
        BY <4>1 DEF TaskRecords
      <4>4. QED
        BY <2>0, <3>1, <3>2, <4>1, <4>2, <4>3 DEF CopyInv
    <3>9. ASSUME NEW status, NEW summary, NEW ev, SubmitAttempt(p, status, summary, ev)
          PROVE  CopyInv(p)'
      <4> DEFINE a == [task |-> hand[p].id, status |-> status, summary |-> summary]
                 task == [hand[p] EXCEPT !.status = "submitted", !.latest = a]
                 saves == <<TaskSave(task), AttemptSave(a, ev)>>
      <4>1. /\ plan' = [plan EXCEPT ![p] = saves] /\ hand' = [hand EXCEPT ![p] = task]
            /\ job' = job
        BY <3>9 DEF SubmitAttempt, Saves
      <4>2. saves # <<>> /\ Head(saves) = TaskSave(task)
        OBVIOUS
      <4> HIDE DEF a, task, saves
      <4>3. QED
        BY <3>3, <4>1, <4>2
    <3>10. ASSUME NEW a \in AttemptIds, ReviewAttempt(p, a)
           PROVE  CopyInv(p)'
      <4>1. CASE hand[p] = None
        <5>1. job' = job /\ hand'[p] = None
          BY <1>0, <3>10, <4>1 DEF ReviewAttempt
        <5>2. QED
          BY <3>4, <5>1
      <4>2. CASE hand[p] # None
        <5> DEFINE decision == ReviewDecision(hand[p], a, attempts[a])
                   task == [hand[p] EXCEPT !.status = Reviewed(hand[p].status, decision.action)]
                   saves == <<TaskSave(task), DecisionSave(decision)>>
        <5>1. plan' = [plan EXCEPT ![p] = saves]
          BY <3>10, <4>2 DEF ReviewAttempt, Review, Saves
        <5>4. saves # <<>> /\ Head(saves) = TaskSave(task)
          OBVIOUS
        <5> HIDE DEF decision, task, saves
        <5>2. hand' = [hand EXCEPT ![p] = task] /\ job' = job
          <6>1. Head(plan'[p]).task = task
            BY <1>0, <5>1, <5>4, SaveKinds
          <6>2. QED
            BY <3>10, <4>2, <6>1 DEF ReviewAttempt
        <5>3. QED
          BY <3>3, <5>1, <5>2, <5>4
      <4>3. QED
        BY <4>1, <4>2
    <3>11. CASE AcceptTask(p)
      <4> DEFINE task == [hand[p] EXCEPT !.status = "accepted"]
                 saves == <<TaskSave(task)>>
      <4>1. /\ plan' = [plan EXCEPT ![p] = saves] /\ hand' = [hand EXCEPT ![p] = task]
            /\ job' = job
        BY <3>11 DEF AcceptTask, Saves
      <4>2. saves # <<>> /\ Head(saves) = TaskSave(task)
        OBVIOUS
      <4> HIDE DEF task, saves
      <4>3. QED
        BY <3>3, <4>1, <4>2
    <3>12. QED
      BY <2>10, <3>5, <3>6, <3>7, <3>8, <3>9, <3>10, <3>11 DEF Command
  <2>11. QED
    BY <1>3, <2>1, <2>2, <2>3, <2>4, <2>5, <2>6, <2>7, <2>8, <2>9, <2>10
    DEF Step, SaveStep, TickStep, TickEnd, TickAbort
<1>4. QED
  BY <1>1, <1>2, <1>3

LEMMA NextSaveInv ==
  ASSUME TypeInv, PlanInv, LastingInv, FilesNamed, NEW p \in Procs, Step(p),
         CopyInv(p), SaveInv(p), AloneInv(p)
  PROVE  SaveInv(p)'
<1>0. DOMAIN plan = Procs /\ DOMAIN opened = Procs /\ opened[p] \in BOOLEAN
  BY DEF TypeInv, TypeOK
<1>1. CASE Truncate(p)
  BY <1>1, TruncateDoes DEF SaveInv
<1>2. CASE Write(p)
  <2>1. ~opened'[p] /\ plan'[p] = Tail(plan[p]) /\ plan[p] # <<>>
    BY <1>2, WriteDoes
  <2>2. ~HeadTask(p)'
    BY <2>1, RestOfPlan DEF HeadTask
  <2>3. QED
    BY <2>1, <2>2 DEF SaveInv
<1>3. CASE Crash(p) \/ SaveRefused(p)
  <2>1. plan'[p] = <<>> /\ ~opened'[p]
    BY <1>0, <1>3 DEF Crash, SaveRefused
  <2>2. QED
    BY <2>1 DEF SaveInv, HeadTask
<1>4. CASE plan[p] = <<>> /\ ~Crash(p)
  <2>1. ~Truncate(p) /\ ~Write(p)
    BY <1>4 DEF Truncate, Write
  <2>2. tasks' = tasks /\ opened' = opened /\ ~opened[p]
    BY <1>4, <2>1, QuietStep DEF SaveInv
  <2>3. Good(plan'[p], signedOff')
    BY <1>4, StartIsGood
  <2>4. QED
    BY <2>2, <2>3 DEF SaveInv, HeadTask, Good
<1>5. QED
  BY <1>1, <1>2, <1>3, <1>4, BusyStep

\* Only an accepted task's attempt matters, and it is not the one being saved.
LEMMA RecordStays ==
  ASSUME TypeInv, FilesNamed, NEW p \in Procs, AloneInv(p), NEW t \in Tasks, NEW content,
         Readable(tasks[t]),
         attempts' = IF HeadAttempt(p) THEN [attempts EXCEPT ![Head(plan[p]).attempt] = content]
                     ELSE attempts,
         signedOff' = signedOff
  PROVE  OnRecord(tasks[t], signedOff)
         /\ (tasks[t].status = "accepted" /\ <<tasks[t].id, tasks[t].spec>> \notin signedOff =>
               \E a \in AttemptIds : /\ a.task = tasks[t].id /\ Readable(attempts'[a])
                                     /\ MeetsAcceptance(tasks[t].spec, a, attempts'[a]))
<1>1. OnRecord(tasks[t], signedOff) /\ tasks[t].id = t
  BY DEF AloneInv, FilesNamed
<1>2. ASSUME tasks[t].status = "accepted", <<tasks[t].id, tasks[t].spec>> \notin signedOff
      PROVE  \E a \in AttemptIds : /\ a.task = tasks[t].id /\ Readable(attempts'[a])
                                   /\ MeetsAcceptance(tasks[t].spec, a, attempts'[a])
  <2>1. PICK a \in AttemptIds : /\ a.task = tasks[t].id /\ Readable(attempts[a])
                                /\ MeetsAcceptance(tasks[t].spec, a, attempts[a])
    BY <1>1, <1>2 DEF OnRecord
  <2>2. attempts'[a] = attempts[a]
    <3>1. HeadAttempt(p) => Head(plan[p]).attempt # a
      BY <1>1, <1>2, <2>1 DEF AloneInv
    <3>2. QED
      BY <3>1 DEF TypeInv, TypeOK
  <2>3. QED
    BY <2>1, <2>2
<1>3. QED
  BY <1>1, <1>2

LEMMA NextAloneInv ==
  ASSUME TypeInv, TypeInv', PlanInv, LastingInv, FilesNamed, NEW p \in Procs, Step(p),
         CopyInv(p), SaveInv(p), AloneInv(p)
  PROVE  AloneInv(p)'
<1>0. DOMAIN plan = Procs /\ signedOff \subseteq signedOff'
  BY HistoryGrows DEF TypeInv, TypeOK
<1>1. CASE Truncate(p)
  <2>1. /\ plan' = plan /\ signedOff' = signedOff /\ plan[p] # <<>>
        /\ attempts' = IF HeadAttempt(p)
                       THEN [attempts EXCEPT ![Head(plan[p]).attempt] = Truncated]
                       ELSE attempts
    BY <1>1, TruncateDoes
  <2>2. \A t \in Tasks : Readable(tasks'[t]) => tasks'[t] = tasks[t]
    BY <1>1, TruncateDoes DEF Readable, Unreadable, TypeInv, TypeOK
  <2>3. \A t \in Tasks : Readable(tasks'[t]) => OnRecord(tasks[t], signedOff)'
    <3> SUFFICES ASSUME NEW t \in Tasks, Readable(tasks'[t])
                 PROVE  OnRecord(tasks[t], signedOff)'
      OBVIOUS
    <3>1. tasks'[t] = tasks[t] /\ Readable(tasks[t])
      BY <2>2
    <3>2. QED
      BY <2>1, <3>1, RecordStays DEF OnRecord
  <2>4. HeadTask(p)' => OnRecord(Head(plan[p]).task, signedOff)'
    <3>1. HeadTask(p)' => HeadTask(p) /\ ~HeadAttempt(p)
      BY <2>1, HeadIs DEF HeadTask
    <3>2. QED
      BY <2>1, <3>1 DEF AloneInv, OnRecord
  <2>5. HeadAttempt(p)' => HeadAttempt(p) /\ tasks' = tasks
    BY <1>1, <2>1, HeadIs, TruncateDoes DEF HeadAttempt
  <2>6. QED
    BY <2>1, <2>3, <2>4, <2>5 DEF AloneInv
<1>2. CASE Write(p)
  <2>1. /\ plan'[p] = Tail(plan[p]) /\ signedOff' = signedOff /\ plan[p] # <<>>
        /\ attempts' = IF HeadAttempt(p)
                       THEN [attempts EXCEPT ![Head(plan[p]).attempt] = Head(plan[p]).evidence]
                       ELSE attempts
        /\ tasks' = IF HeadTask(p)
                    THEN [tasks EXCEPT ![Head(plan[p]).task.id] = Head(plan[p]).task]
                    ELSE tasks
    BY <1>2, WriteDoes
  <2>2. ~HeadTask(p)' /\ Len(plan'[p]) # 2
    <3>1. Len(plan'[p]) \in Nat /\ Len(plan'[p]) <= 1
      BY <2>1, RestOfPlan DEF TypeInv, TypeOK
    <3>2. ~HeadTask(p)'
      BY <2>1, RestOfPlan DEF HeadTask
    <3>3. QED
      BY <3>1, <3>2
  <2>3. \A t \in Tasks : Readable(tasks'[t]) => OnRecord(tasks[t], signedOff)'
    <3> SUFFICES ASSUME NEW t \in Tasks, Readable(tasks'[t])
                 PROVE  OnRecord(tasks[t], signedOff)'
      OBVIOUS
    <3>1. CASE HeadTask(p) /\ t = Head(plan[p]).task.id
      <4>1. tasks'[t] = Head(plan[p]).task /\ attempts' = attempts
        BY <2>1, <3>1, HeadIs DEF TypeInv, TypeOK
      <4>2. OnRecord(Head(plan[p]).task, signedOff)
        BY <3>1 DEF AloneInv
      <4>3. QED
        BY <2>1, <4>1, <4>2 DEF OnRecord
    <3>2. CASE ~(HeadTask(p) /\ t = Head(plan[p]).task.id)
      <4>1. tasks'[t] = tasks[t]
        BY <2>1, <3>2 DEF TypeInv, TypeOK
      <4>2. tasks[t].status = "accepted" /\ <<tasks[t].id, tasks[t].spec>> \notin signedOff =>
              \E a \in AttemptIds : /\ a.task = tasks[t].id /\ Readable(attempts'[a])
                                    /\ MeetsAcceptance(tasks[t].spec, a, attempts'[a])
        <5> DEFINE content == Head(plan[p]).evidence
        <5>1. attempts' = IF HeadAttempt(p)
                          THEN [attempts EXCEPT ![Head(plan[p]).attempt] = content]
                          ELSE attempts
          BY <2>1
        <5> HIDE DEF content
        <5>2. Readable(tasks[t]) /\ signedOff' = signedOff
          BY <2>1, <4>1
        <5>3. QED
          BY <5>1, <5>2, RecordStays
      <4>3. QED
        BY <2>1, <4>1, <4>2 DEF OnRecord
    <3>3. QED
      BY <3>1, <3>2
  <2>4. ASSUME HeadAttempt(p)'
        PROVE  tasks'[Head(plan'[p]).attempt.task].status = "submitted"
    <3>1. /\ Len(plan[p]) = 2 /\ Head(plan'[p]) = plan[p][2]
          /\ Head(plan[p]) = plan[p][1] /\ plan[p][1].kind = "Task"
      BY <2>1, <2>4, RestOfPlan DEF HeadAttempt
    <3>2. /\ plan[p][1].task.id = plan[p][2].attempt.task
          /\ plan[p][1].task.status = "submitted"
      BY <2>4, <3>1 DEF AloneInv, HeadAttempt
    <3>3. HeadTask(p) /\ Head(plan[p]).task.id \in Tasks
      BY <2>1, <3>1, HeadIs DEF HeadTask
    <3>4. tasks'[Head(plan[p]).task.id] = Head(plan[p]).task
      BY <2>1, <3>3 DEF TypeInv, TypeOK
    <3>5. QED
      BY <3>1, <3>2, <3>4
  <2>5. QED
    BY <2>2, <2>3, <2>4 DEF AloneInv
<1>3. CASE Crash(p) \/ SaveRefused(p)
  <2>1. plan'[p] = <<>> /\ signedOff' = signedOff
    BY <1>0, <1>3 DEF Crash, SaveRefused, history
  <2>2. tasks' = tasks /\ attempts' = attempts
    BY <1>3 DEF Crash, SaveRefused, files
  <2>3. QED
    BY <2>1, <2>2 DEF AloneInv, OnRecord, HeadTask, HeadAttempt
<1>4. CASE plan[p] = <<>> /\ ~Crash(p)
  <2>1. ~Truncate(p) /\ ~Write(p)
    BY <1>4 DEF Truncate, Write
  <2>2. tasks' = tasks /\ attempts' = attempts
    BY <1>4, <2>1, QuietStep
  <2>3. Good(plan'[p], signedOff')
    BY <1>4, StartIsGood
  <2>4. /\ HeadTask(p)' => OnRecord(Head(plan[p]).task, signedOff)'
        /\ ~HeadAttempt(p)'
    BY <2>2, <2>3 DEF Good, HeadTask, HeadAttempt, OnRecord
  <2>5. Len(plan'[p]) = 2 /\ plan'[p][2].kind = "Attempt" =>
           /\ plan'[p][1].task.id = plan'[p][2].attempt.task
           /\ plan'[p][1].task.status = "submitted"
    <3>1. Len(plan'[p]) = 2 => plan'[p] # <<>>
      OBVIOUS
    <3>2. QED
      BY <2>3, <3>1 DEF Good
  <2>6. \A t \in Tasks : Readable(tasks[t]) => OnRecord(tasks[t], signedOff)'
    BY <1>0, <2>2 DEF AloneInv, OnRecord
  <2>7. QED
    BY <2>2, <2>4, <2>5, <2>6 DEF AloneInv
<1>5. QED
  BY <1>1, <1>2, <1>3, <1>4, BusyStep

-----------------------------------------------------------------------------
SerialInv(p) ==
  /\ TypeInv /\ PlanInv /\ FilesNamed /\ LastingInv
  /\ CopyInv(p) /\ SaveInv(p) /\ AloneInv(p)

LEMMA InitSerialInv ==
  ASSUME NEW p \in Procs, Init
  PROVE  SerialInv(p)
<1>1. TypeInv /\ PlanInv /\ FilesNamed
  BY InitRecordInv DEF RecordInv
<1>2. /\ plan[p] = <<>> /\ ~opened[p] /\ hand[p] = None /\ job[p] = "idle"
      /\ scan[p].batch = {}
      /\ \A t \in Tasks : ~Readable(tasks[t])
  BY DEF Init, NoScan, Readable, Unreadable
<1>3. \A r : ~Copy(r)
  BY DEF Init, Copy, NoScan, Readable, Unreadable
<1>4. LastingInv
  BY <1>3 DEF LastingInv
<1>5. CopyInv(p) /\ SaveInv(p) /\ AloneInv(p)
  BY <1>2 DEF CopyInv, SaveInv, AloneInv, HeadTask, HeadAttempt
<1>6. QED
  BY <1>1, <1>4, <1>5 DEF SerialInv

LEMMA NextSerialInv ==
  ASSUME NEW p, Procs = {p}, SerialInv(p), [Next]_vars
  PROVE  SerialInv(p)'
<1> USE DEF SerialInv
<1>1. CASE Next
  <2>1. p \in Procs /\ Step(p)
    BY <1>1, NextIsStep
  <2>2. TypeInv'
    BY <1>1, NextType
  <2>3. PlanInv' /\ FilesNamed' /\ LastingInv'
    BY <2>1, <2>2, NextPlanInv, NextFilesNamed, NextLastingInv
  <2>4. CopyInv(p)' /\ SaveInv(p)' /\ AloneInv(p)'
    BY <2>1, <2>2, NextCopyInv, NextSaveInv, NextAloneInv
  <2>5. QED
    BY <2>2, <2>3, <2>4
<1>2. CASE UNCHANGED vars
  <2>1. TypeInv'
    BY NextType
  <2>2. UNCHANGED <<tasks, attempts, goals, decisions, hand, job, plan, opened, scan, signedOff>>
    BY <1>2 DEF vars, files, locals, history
  <2>3. PlanInv' /\ FilesNamed' /\ LastingInv'
    BY <2>2 DEF PlanInv, FilesNamed, LastingInv, Copy
  <2>4. CopyInv(p)' /\ SaveInv(p)' /\ AloneInv(p)'
    BY <2>2 DEF CopyInv, SaveInv, AloneInv, HeadTask, HeadAttempt, OnRecord, Current
  <2>5. QED
    BY <2>1, <2>3, <2>4
<1>3. QED
  BY <1>1, <1>2

\* Used by one process, whatever it does and wherever it is killed, the
\* workspace has on disk what an accepted task was accepted for
\* (review_attempt, supervisor_tick, submit_attempt).
THEOREM AloneMeansOnRecord ==
  ASSUME NEW p, Procs = {p}
  PROVE  Spec => []AcceptedIsOnRecord
<1>1. SerialInv(p) => AcceptedIsOnRecord
  BY DEF SerialInv, AloneInv, OnRecord, AcceptedIsOnRecord, FilesNamed
<1>2. Init => SerialInv(p)
  BY InitSerialInv
<1>3. SerialInv(p) /\ [Next]_vars => SerialInv(p)'
  BY NextSerialInv
<1>4. QED
  BY <1>1, <1>2, <1>3, PTL DEF Spec

-----------------------------------------------------------------------------
(* The board.                                                              *)

Writes(p, t) == opened[p] /\ HeadTask(p) /\ Head(plan[p]).task.id = t

\* The board shows an open file as its only writer is about to leave it.
LEMMA StatusIs ==
  ASSUME NEW p, Procs = {p}, SaveInv(p), NEW t
  PROVE  Status(t) = IF tasks[t] = Absent THEN "absent"
                     ELSE IF Readable(tasks[t]) THEN tasks[t].status
                     ELSE IF Writes(p, t) THEN Head(plan[p]).task.status
                     ELSE "corrupt"
<1> DEFINE At(q) == opened[q] /\ Head(plan[q]).kind = "Task" /\ Head(plan[q]).task.id = t
<1>1. At(p) <=> Writes(p, t)
  BY DEF SaveInv, Writes, HeadTask
<1>2. (\E q \in Procs : At(q)) <=> At(p)
  OBVIOUS
<1>3. At(p) => (CHOOSE q \in Procs : At(q)) = p
  OBVIOUS
<1> HIDE DEF At
<1>4. Status(t) = IF tasks[t] = Absent THEN "absent"
                  ELSE IF Readable(tasks[t]) THEN tasks[t].status
                  ELSE IF \E q \in Procs : At(q)
                  THEN Head(plan[CHOOSE q \in Procs : At(q)]).task.status
                  ELSE "corrupt"
  BY DEF Status, At
<1>5. QED
  BY <1>1, <1>2, <1>3, <1>4

\* The same one step later: t is the same task.
LEMMA ShownThen ==
  ASSUME NEW p, Procs = {p}, SaveInv(p)', NEW t
  PROVE  Status(t)' = IF tasks'[t] = Absent THEN "absent"
                      ELSE IF Readable(tasks'[t]) THEN tasks'[t].status
                      ELSE IF Writes(p, t)' THEN Head(plan'[p]).task.status
                      ELSE "corrupt"
<1> DEFINE At(q) == opened'[q] /\ Head(plan'[q]).kind = "Task" /\ Head(plan'[q]).task.id = t
<1>1. At(p) <=> Writes(p, t)'
  BY DEF SaveInv, Writes, HeadTask
<1>2. (\E q \in Procs : At(q)) <=> At(p)
  OBVIOUS
<1>3. At(p) => (CHOOSE q \in Procs : At(q)) = p
  OBVIOUS
<1> HIDE DEF At
<1>4. Status(t)' = IF tasks'[t] = Absent THEN "absent"
                   ELSE IF Readable(tasks'[t]) THEN tasks'[t].status
                   ELSE IF \E q \in Procs : At(q)
                   THEN Head(plan'[CHOOSE q \in Procs : At(q)]).task.status
                   ELSE "corrupt"
  BY DEF Status, At
<1>5. QED
  BY <1>1, <1>2, <1>3, <1>4

\* Statuses that change nothing on the board but that of task t.
LEMMA BoardMoves ==
  ASSUME NEW t \in Tasks, \A u \in Tasks \ {t} : Status(u)' = Status(u)
  PROVE  [u \in Tasks |-> Status(u)]'
           = [[u \in Tasks |-> Status(u)] EXCEPT ![t] = Status(t)']
OBVIOUS

Shown == [u \in Tasks |-> Status(u)]

\* Any verdict may follow a submission.
LEMMA VerdictsFollow ==
  /\ Board!Verdicts = Settled
  /\ \A verdict \in Settled : Board!CanMove("submitted", verdict)
BY DEF Board!Verdicts, Settled, Board!CanMove, Board!TASK_TRANSITIONS, Board!TaskStatuses

\* A task save that is opened is a move of the board.
LEMMA OpenMoves ==
  ASSUME NEW p, Procs = {p}, SerialInv(p), SerialInv(p)', Truncate(p), HeadTask(p)
  PROVE  Board!Next \/ Shown' = Shown
<1>1. p \in Procs /\ TypeInv /\ SaveInv(p) /\ SaveInv(p)'
  BY DEF SerialInv
<1>0. PICK r \in TaskRecords : r = Head(plan[p]).task
  BY <1>1, HeadIs DEF HeadTask
<1>2. r \in TaskRecords /\ r.id \in Tasks /\ plan' = plan /\ HeadTask(p)' /\ ~opened[p]
      /\ opened'[p] /\ tasks' = [tasks EXCEPT ![r.id] = Truncated]
  BY <1>0, <1>1, HeadIs, TruncateDoes DEF HeadTask
<1>3. DOMAIN tasks = Tasks /\ Truncated # Absent /\ ~Readable(Truncated)
  BY <1>1, MarkersAssumption DEF TypeInv, TypeOK, Readable, Unreadable
<1>4. Status(r.id)' = r.status
  <2>1. tasks'[r.id] = Truncated /\ Head(plan'[p]).task = r
    BY <1>0, <1>2, <1>3
  <2>2. Writes(p, r.id)'
    BY <1>0, <1>2 DEF Writes
  <2>3. Readable(tasks'[r.id]) <=> Readable(Truncated)
    BY <2>1
  <2>4. Status(r.id)' = IF tasks'[r.id] = Absent THEN "absent"
                        ELSE IF Readable(tasks'[r.id]) THEN tasks'[r.id].status
                        ELSE IF Writes(p, r.id)' THEN Head(plan'[p]).task.status
                        ELSE "corrupt"
    BY <1>1, ShownThen
  <2>5. QED
    BY <1>3, <2>1, <2>2, <2>3, <2>4
<1>5. \A u \in Tasks \ {r.id} : Status(u)' = Status(u)
  <2> SUFFICES ASSUME NEW u \in Tasks \ {r.id} PROVE Status(u)' = Status(u)
    OBVIOUS
  <2>1. tasks'[u] = tasks[u] /\ ~Writes(p, u) /\ ~Writes(p, u)'
    BY <1>0, <1>2, <1>3 DEF Writes
  <2>2. Status(u)' = IF tasks'[u] = Absent THEN "absent"
                     ELSE IF Readable(tasks'[u]) THEN tasks'[u].status ELSE "corrupt"
    BY <1>1, <2>1, ShownThen
  <2>3. Status(u) = IF tasks[u] = Absent THEN "absent"
                    ELSE IF Readable(tasks[u]) THEN tasks[u].status ELSE "corrupt"
    BY <1>1, <2>1, StatusIs
  <2>4. QED
    BY <2>1, <2>2, <2>3
<1>6. Shown' = [Shown EXCEPT ![r.id] = r.status]
  BY <1>2, <1>4, <1>5, BoardMoves DEF Shown
<1>7. Moves(tasks[r.id], r.status)
  BY <1>0, <1>1, <1>2 DEF SaveInv
<1>8. Readable(tasks[r.id]) => Shown[r.id] = tasks[r.id].status
  BY <1>1, <1>2, StatusIs DEF Shown, Readable, Unreadable
<1>9. CASE r.status = "pending"
  BY <1>2, <1>6, <1>9 DEF Board!Next, Board!Propose, Board!Shows, Shown
<1>10. CASE Readable(tasks[r.id]) /\ tasks[r.id].status = r.status
  <2>1. Shown = [Shown EXCEPT ![r.id] = r.status]
    BY <1>8, <1>10 DEF Shown
  <2>2. QED
    BY <1>6, <2>1
<1>11. CASE /\ Readable(tasks[r.id])
            /\ tasks[r.id].status = "pending" /\ r.status = "submitted"
  BY <1>2, <1>6, <1>8, <1>11 DEF Board!Next, Board!Submit, Board!Shows, Shown
<1>12. CASE /\ Readable(tasks[r.id])
            /\ tasks[r.id].status \in {"pending", "submitted"} /\ r.status \in Settled
  BY <1>2, <1>6, <1>8, <1>12, VerdictsFollow DEF Board!Next, Board!Judge, Board!Shows, Shown
<1>13. QED
  BY <1>7, <1>9, <1>10, <1>11, <1>12 DEF Moves

\* A process that is killed with a task's file open spoils its card.
LEMMA CrashSpoils ==
  ASSUME NEW p, Procs = {p}, SerialInv(p), SerialInv(p)', Crash(p)
  PROVE  Board!Next \/ Shown' = Shown
<1>1. p \in Procs /\ TypeInv /\ SaveInv(p) /\ SaveInv(p)'
  BY DEF SerialInv
<1>2. tasks' = tasks /\ ~opened'[p]
  BY <1>1 DEF Crash, files, TypeInv, TypeOK
<1>3. \A u : ~Writes(p, u) => Status(u)' = Status(u)
  <2> SUFFICES ASSUME NEW u, ~Writes(p, u) PROVE Status(u)' = Status(u)
    OBVIOUS
  <2>1. Status(u)' = IF tasks'[u] = Absent THEN "absent"
                     ELSE IF Readable(tasks'[u]) THEN tasks'[u].status ELSE "corrupt"
    BY <1>1, <1>2, ShownThen DEF Writes
  <2>2. Status(u) = IF tasks[u] = Absent THEN "absent"
                    ELSE IF Readable(tasks[u]) THEN tasks[u].status ELSE "corrupt"
    BY <1>1, StatusIs
  <2>3. QED
    BY <1>2, <2>1, <2>2
<1>4. CASE opened[p] /\ HeadTask(p)
  <2>0. PICK r \in TaskRecords : r = Head(plan[p]).task
    BY <1>1, <1>4, HeadIs DEF HeadTask
  <2>1. r.id \in Tasks
    BY DEF TaskRecords
  <2>2. tasks[r.id] = Truncated
    BY <1>1, <1>4, <2>0 DEF SaveInv, Current, HeadTask
  <2>3. Truncated # Absent /\ ~Readable(tasks[r.id])
    BY <2>2, MarkersAssumption DEF Readable, Unreadable
  <2>4. Status(r.id) = r.status /\ r.status # "absent"
    <3>1. Writes(p, r.id)
      BY <1>4, <2>0 DEF Writes
    <3>2. r.status # "absent"
      BY DEF TaskRecords, TaskStatuses
    <3>3. QED
      BY <1>1, <2>0, <2>2, <2>3, <3>1, <3>2, StatusIs
  <2>5. Status(r.id)' = "corrupt"
    <3>1. Status(r.id)' = IF tasks'[r.id] = Absent THEN "absent"
                          ELSE IF Readable(tasks'[r.id]) THEN tasks'[r.id].status
                          ELSE "corrupt"
      BY <1>1, <1>2, ShownThen DEF Writes
    <3>2. QED
      BY <1>2, <2>2, <2>3, <3>1
  <2>6. \A u \in Tasks \ {r.id} : Status(u)' = Status(u)
    BY <1>3, <2>0 DEF Writes
  <2>7. Shown' = [Shown EXCEPT ![r.id] = "corrupt"]
    BY <2>1, <2>5, <2>6, BoardMoves DEF Shown
  <2>8. QED
    BY <2>1, <2>4, <2>7 DEF Board!Next, Board!Spoil, Board!Shows, Shown
<1>5. CASE ~(opened[p] /\ HeadTask(p))
  BY <1>3, <1>5 DEF Writes, Shown
<1>6. QED
  BY <1>4, <1>5

\* No other step shows on the board.
LEMMA OthersAreQuiet ==
  ASSUME NEW p, Procs = {p}, SerialInv(p), SerialInv(p)', Step(p), ~Crash(p),
         ~(Truncate(p) /\ HeadTask(p))
  PROVE  Shown' = Shown
<1>1. p \in Procs /\ TypeInv /\ PlanInv /\ SaveInv(p) /\ SaveInv(p)'
  BY DEF SerialInv
<1> SUFFICES ASSUME NEW u \in Tasks PROVE Status(u)' = Status(u)
  BY DEF Shown
<1>2. CASE Write(p) /\ HeadTask(p) /\ u = Head(plan[p]).task.id
  <2>0. PICK r \in TaskRecords : r = Head(plan[p]).task
    BY <1>1, <1>2, HeadIs, WriteDoes
  <2>1. opened[p] /\ plan[p] # <<>>
        /\ tasks' = [tasks EXCEPT ![r.id] = r]
    BY <1>1, <1>2, <2>0, WriteDoes
  <2>2. tasks[u] = Truncated /\ Writes(p, u)
    BY <1>1, <1>2, <2>0, <2>1 DEF SaveInv, Current, HeadTask, Writes
  <2>3. tasks'[u] = r
    BY <1>1, <1>2, <2>0, <2>1 DEF TypeInv, TypeOK
  <2>4. /\ Truncated # Absent /\ ~Readable(Truncated)
        /\ Readable(r) /\ r # Absent
    BY MarkersAssumption DEF Readable, Unreadable
  <2>5. Status(u) = r.status
    BY <1>1, <2>0, <2>2, <2>4, StatusIs
  <2>6. Status(u)' = r.status
    <3>1. Status(u)' = IF tasks'[u] = Absent THEN "absent"
                       ELSE IF Readable(tasks'[u]) THEN tasks'[u].status
                       ELSE IF Writes(p, u)' THEN Head(plan'[p]).task.status
                       ELSE "corrupt"
      BY <1>1, ShownThen
    <3>2. QED
      BY <2>3, <2>4, <3>1
  <2>7. QED
    BY <2>5, <2>6
<1>3. ASSUME tasks'[u] = tasks[u], ~Writes(p, u), ~Writes(p, u)'
      PROVE  Status(u)' = Status(u)
  <2>1. Status(u)' = IF tasks'[u] = Absent THEN "absent"
                     ELSE IF Readable(tasks'[u]) THEN tasks'[u].status ELSE "corrupt"
    BY <1>1, <1>3, ShownThen
  <2>2. Status(u) = IF tasks[u] = Absent THEN "absent"
                    ELSE IF Readable(tasks[u]) THEN tasks[u].status ELSE "corrupt"
    BY <1>1, <1>3, StatusIs
  <2>3. QED
    BY <1>3, <2>1, <2>2
<1>4. CASE Write(p) /\ ~(HeadTask(p) /\ u = Head(plan[p]).task.id)
  BY <1>1, <1>3, <1>4, WriteDoes DEF Writes, TypeInv, TypeOK
<1>5. CASE Truncate(p)
  <2>1. tasks' = tasks /\ plan' = plan /\ ~opened[p]
    BY <1>1, <1>5, TruncateDoes
  <2>2. ~HeadTask(p)'
    BY <1>5, <2>1 DEF HeadTask
  <2>3. QED
    BY <1>3, <2>1, <2>2 DEF Writes
<1>6. CASE ~Truncate(p) /\ ~Write(p)
  <2>1. tasks' = tasks /\ opened' = opened
    BY <1>1, <1>6, QuietStep
  <2>2. ~opened[p]
    <3>1. plan[p] # <<>> => SaveRefused(p)
      BY <1>1, <1>6, BusyStep
    <3>2. QED
      BY <1>1, <3>1 DEF SaveInv, SaveRefused
  <2>3. QED
    BY <1>3, <2>1, <2>2 DEF Writes
<1>7. QED
  BY <1>2, <1>4, <1>5, <1>6

LEMMA StepBoard ==
  ASSUME NEW p, Procs = {p}, SerialInv(p), SerialInv(p)', [Next]_vars
  PROVE  Board!Next \/ Shown' = Shown
<1>1. CASE Next
  <2>1. Step(p)
    BY <1>1, NextIsStep
  <2>2. QED
    BY <2>1, OpenMoves, CrashSpoils, OthersAreQuiet
<1>2. CASE UNCHANGED vars
  <2>1. tasks' = tasks /\ plan' = plan /\ opened' = opened
    BY <1>2 DEF vars, files, locals
  <2>2. \A u : Status(u)' = Status(u)
    BY <2>1 DEF Status, Readable
  <2>3. QED
    BY <2>2 DEF Shown
<1>3. QED
  BY <1>1, <1>2

\* Used by one process the files are a board of statuses: every move a
\* command shows is one the lifecycle allows, the passing statuses are never
\* seen, and a process killed at any moment at worst spoils the card it was
\* writing (workspace.py, lifecycle.py).
THEOREM AloneIsBoard ==
  ASSUME NEW p, Procs = {p}
  PROVE  Spec => BoardSpec
<1>1. Init => SerialInv(p)
  BY InitSerialInv
<1>2. SerialInv(p) /\ [Next]_vars => SerialInv(p)'
  BY NextSerialInv
<1>3. Init => Board!Init
  BY DEF Init, Board!Init, Status
<1>4. SerialInv(p) /\ SerialInv(p)' /\ [Next]_vars
        => [Board!Next]_[t \in Tasks |-> Status(t)]
  BY StepBoard DEF Shown
<1>5. QED
  BY <1>1, <1>2, <1>3, <1>4, PTL DEF Spec, BoardSpec, Board!Spec
=============================================================================
