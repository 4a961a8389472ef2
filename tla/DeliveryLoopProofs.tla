------------------------- MODULE DeliveryLoopProofs -------------------------
(***************************************************************************)
(* Proofs about DeliveryLoop for any number of sessions, cron processes,   *)
(* tasks and goals, and any bounds.                                        *)
(***************************************************************************)
EXTENDS DeliveryLoop, TLAPS

-----------------------------------------------------------------------------
(* Facts about the operators of Review.                                    *)

\* A review that moves a task moves it to a status of the lifecycle.
LEMMA TargetValues ==
  /\ DOMAIN Target = {"mark_complete", "mark_blocked", "create_task"}
  /\ Target["mark_complete"] = "accepted"
  /\ Target["mark_blocked"] = "blocked"
  /\ Target["create_task"] = "rejected"
BY DEF Target, Actions

LEMMA ReviewedType ==
  ASSUME NEW current \in TaskStatuses, NEW action \in Actions
  PROVE  Reviewed(current, action) \in TaskStatuses
BY TargetValues DEF Reviewed, TaskStatuses, Actions

LEMMA ReviewActionType ==
  ASSUME NEW b, NEW spec, NEW status, NEW evidence
  PROVE  ReviewAction(b, spec, status, evidence) \in Actions
BY DEF ReviewAction, Actions

LEMMA CheckType ==
  ASSUME NEW spec, NEW evidence
  PROVE  _check_evidence(spec, evidence) \in Checks
BY DEF _check_evidence, Checks

LEMMA FeedbackType ==
  ASSUME NEW b, NEW spec, NEW status, NEW evidence \in Evidence
  PROVE  /\ Feedback(b, spec, status, evidence).check \in Checks
         /\ Feedback(b, spec, status, evidence).evidence \in Evidence
<1>1. _check_evidence(spec, evidence) \in Checks
  BY CheckType
<1>2. "none" \in Checks /\ {} \in Evidence
  BY DEF Checks, Evidence
<1> QED
  BY <1>1, <1>2 DEF Feedback

-----------------------------------------------------------------------------
(* Facts about the store.                                                  *)

\* A save leaves the files with the content it names, or damaged.
LEMMA PutType ==
  ASSUME TypeOK, NEW save \in SaveSet, NEW content,
         content \in {Truncated, Garbled, Content(save)},
         Put(save, content)
  PROVE  /\ goals' \in [Goals -> Budgets \union Unreadable]
         /\ tasks' \in [Tasks -> TaskRecords \union Unreadable]
         /\ attempts' \in [AttemptIds -> Unreadable \union Evidence]
         /\ decisions' \subseteq Decisions /\ spoiled' \subseteq Decisions
<1> USE DEF TypeOK
<1>1. CASE save.kind = "Goal"
  BY <1>1 DEF SaveSet, Put, Content, Unreadable
<1>2. CASE save.kind = "Task"
  BY <1>2 DEF SaveSet, Put, Content, Unreadable, TaskRecords
<1>3. CASE save.kind = "Attempt"
  BY <1>3 DEF SaveSet, Put, Content, Unreadable
<1>4. CASE save.kind = "LoopDecision"
  BY <1>4 DEF SaveSet, Put
<1> QED
  BY <1>1, <1>2, <1>3, <1>4 DEF SaveSet

-----------------------------------------------------------------------------
(* Type correctness.                                                       *)

\* FinishWorkflow reads the task in hand: its type rests on the second part.
TypeInv == TypeOK /\ WorkflowHasTask

LEMMA InitType == Init => TypeInv
BY BoundsAssumption
DEF Init, TypeInv, TypeOK, WorkflowHasTask, NoScan, Scans, SaveSet, Unreadable

\* What a review saves has the right types.
LEMMA ReviewType ==
  ASSUME TypeInv, NEW p \in Procs, NEW r \in TaskRecords, NEW a \in AttemptIds,
         Review(p, r, a)
  PROVE  /\ plan' \in [Procs -> Seq(SaveSet)]
         /\ earned' \subseteq Tasks \X Specs
         /\ plan'[p] # <<>> /\ Head(plan'[p]) \in [kind : {"Task"}, task : TaskRecords]
<1> DEFINE d == ReviewDecision(r, a, attempts[a])
           updated == [r EXCEPT !.status = Reviewed(r.status, d.action)]
<1>1. attempts[a] \in Evidence
  BY DEF Review, Readable, TypeInv, TypeOK
<1>2. d.action \in Actions /\ d \in Decisions
  <2>1. r.id \in Tasks /\ GoalOf[r.id] \in Goals
    BY GoalOfAssumption DEF TaskRecords
  <2> QED
    BY <1>1, <2>1, ReviewActionType, FeedbackType DEF ReviewDecision, Decisions
<1>3. updated \in TaskRecords
  <2>1. Reviewed(r.status, d.action) \in TaskStatuses
    BY <1>2, ReviewedType DEF TaskRecords
  <2> QED
    BY <2>1 DEF TaskRecords
<1>4. TaskSave(updated) \in [kind : {"Task"}, task : TaskRecords]
      /\ DecisionSave(d) \in SaveSet
  BY <1>2, <1>3 DEF TaskSave, DecisionSave, SaveSet
<1>5. plan' = [plan EXCEPT ![p] = <<TaskSave(updated), DecisionSave(d)>>]
  BY DEF Review, Saves
<1>6. plan'[p] = <<TaskSave(updated), DecisionSave(d)>>
  BY <1>5 DEF TypeInv, TypeOK
<1>7. <<TaskSave(updated), DecisionSave(d)>> \in Seq(SaveSet)
  BY <1>4 DEF SaveSet
<1>8. earned' \subseteq Tasks \X Specs
  BY DEF Review, TypeInv, TypeOK, TaskRecords
<1> QED
  BY <1>4, <1>5, <1>6, <1>7, <1>8 DEF TypeInv, TypeOK

LEMMA SaveStepType ==
  ASSUME TypeInv, NEW p \in Procs, SaveStep(p)
  PROVE  TypeInv'
<1> USE DEF TypeInv, WorkflowHasTask
<1>1. CASE Truncate(p)
  <2>1. Head(plan[p]) \in SaveSet
    BY <1>1 DEF Truncate, TypeOK
  <2>2. Put(Head(plan[p]), Truncated)
    BY <1>1 DEF Truncate
  <2> QED
    BY <1>1, <2>1, <2>2, PutType
    DEF Truncate, TypeOK, history, bounds
<1>2. CASE Write(p)
  <2>1. Head(plan[p]) \in SaveSet /\ Tail(plan[p]) \in Seq(SaveSet)
    BY <1>2 DEF Write, TypeOK
  <2>2. PICK content \in AfterWrite(Head(plan[p])) : Put(Head(plan[p]), content)
    BY <1>2 DEF Write
  <2>3. content \in {Truncated, Garbled, Content(Head(plan[p]))}
    BY DEF AfterWrite
  <2>4. plan' = [plan EXCEPT ![p] = Tail(plan[p])]
    BY <1>2 DEF Write
  <2> QED
    BY <1>2, <2>1, <2>2, <2>3, <2>4, PutType
    DEF Write, TypeOK, history, bounds
<1>3. CASE SaveRefused(p)
  BY <1>3 DEF SaveRefused, TypeOK, files, history, bounds
<1> QED
  BY <1>1, <1>2, <1>3 DEF SaveStep

LEMMA CommandType ==
  ASSUME TypeInv, NEW p \in Procs, Command(p)
  PROVE  TypeInv'
<1> USE BoundsAssumption DEF TypeInv, WorkflowHasTask
<1>1. ASSUME NEW g \in Goals, NEW b \in Budgets, StartGoal(p, g, b)
      PROVE  TypeInv'
  <2>1. <<GoalSave(g, b)>> \in Seq(SaveSet)
    BY DEF GoalSave, SaveSet
  <2> QED
    BY <1>1, <2>1
    DEF StartGoal, Starts, Saves, TypeOK, files, history
<1>2. ASSUME NEW g \in Goals, NEW spec \in Specs, ProposeRefused(p, g, spec)
      PROVE  TypeInv'
  <2>1. PICK action \in {"stop_budget", "mark_blocked", "request_approval"} :
          Saves(p, <<DecisionSave(ProposalDecision(g, action, None))>>)
    BY <1>2 DEF ProposeRefused
  <2>2. ProposalDecision(g, action, None) \in Decisions
    BY DEF ProposalDecision, Decisions, Actions, Checks, Evidence
  <2>3. <<DecisionSave(ProposalDecision(g, action, None))>> \in Seq(SaveSet)
    BY <2>2 DEF DecisionSave, SaveSet
  <2> QED
    BY <1>2, <2>1, <2>3
    DEF ProposeRefused, Starts, Saves, TypeOK, files, history
<1>3. ASSUME NEW t \in Tasks, NEW spec \in Specs, ProposeTask(p, t, spec)
      PROVE  TypeInv'
  <2> DEFINE task == [id |-> t, status |-> "pending", latest |-> None,
                      spec |-> spec]
             d == ProposalDecision(GoalOf[t], "create_task", t)
  <2>1. task \in TaskRecords
    BY DEF TaskRecords, TaskStatuses
  <2>2. d \in Decisions
    BY GoalOfAssumption
    DEF ProposalDecision, Decisions, Actions, Checks, Evidence
  <2>3. <<TaskSave(task), DecisionSave(d)>> \in Seq(SaveSet)
    BY <2>1, <2>2 DEF TaskSave, DecisionSave, SaveSet
  <2>4. hand' = [hand EXCEPT ![p] = task]
        /\ plan' = [plan EXCEPT ![p] = <<TaskSave(task), DecisionSave(d)>>]
    BY <1>3 DEF ProposeTask, Saves
  <2>5. job[p] = "idle"
    BY <1>3 DEF ProposeTask, Fresh, Idle
  <2> QED
    BY <1>3, <2>1, <2>3, <2>4, <2>5, MarkersAssumption
    DEF ProposeTask, Starts, TypeOK, files, history
<1>4. ASSUME NEW t \in Tasks, LoadTask(p, t)
      PROVE  TypeInv'
  <2>1. tasks[t] \in TaskRecords
    BY <1>4 DEF LoadTask, Readable, TypeOK
  <2> QED
    BY <1>4, <2>1, MarkersAssumption
    DEF LoadTask, TypeOK, files, history, bounds
<1>5. ASSUME NEW t \in Tasks, RunWorkflow(p, t)
      PROVE  TypeInv'
  <2>1. tasks[t] \in TaskRecords
    BY <1>5 DEF RunWorkflow, Readable, TypeOK
  <2>2. [tasks[t] EXCEPT !.status = "submitted"] \in TaskRecords
    BY <2>1 DEF TaskRecords, TaskStatuses
  <2>3. [tasks[t] EXCEPT !.status = "submitted"] # None
    BY <2>2, MarkersAssumption
  <2>4. /\ hand' = [hand EXCEPT ![p] = [tasks[t] EXCEPT !.status = "submitted"]]
        /\ job' = [job EXCEPT ![p] = "workflow"]
        /\ ops < MaxOps /\ ops' = ops + 1
        /\ UNCHANGED <<goals, tasks, attempts, decisions, spoiled, plan, opened,
                       scan, earned, signedOff, lost, crashes>>
    BY <1>5 DEF RunWorkflow, Starts, files, history
  <2>5. WorkflowHasTask'
    BY <2>3, <2>4 DEF TypeOK
  <2> QED
    BY <2>2, <2>4, <2>5 DEF TypeOK
<1>6. CASE DropTask(p)
  <2>1. job[p] = "idle"
    BY <1>6 DEF DropTask, Idle
  <2> QED
    BY <1>6, <2>1 DEF DropTask, TypeOK, files, history, bounds
<1>7. ASSUME NEW status \in Outcomes, NEW summary \in Summaries,
             NEW ev \in SUBSET Items, SubmitAttempt(p, status, summary, ev)
      PROVE  TypeInv'
  <2> DEFINE a == [task |-> hand[p].id, status |-> status, summary |-> summary]
             task == [hand[p] EXCEPT !.status = "submitted", !.latest = a]
  <2>1. hand[p] \in TaskRecords
    BY <1>7 DEF SubmitAttempt, TypeOK
  <2>2. a \in AttemptIds /\ ev \in Evidence
    BY <2>1, AttemptsAssumption DEF AttemptIds, TaskRecords, Evidence
  <2>3. task \in TaskRecords
    BY <2>1, <2>2 DEF TaskRecords, TaskStatuses
  <2>4. <<TaskSave(task), AttemptSave(a, ev)>> \in Seq(SaveSet)
    BY <2>2, <2>3 DEF TaskSave, AttemptSave, SaveSet
  <2>5. hand' = [hand EXCEPT ![p] = task]
        /\ plan' = [plan EXCEPT ![p] = <<TaskSave(task), AttemptSave(a, ev)>>]
    BY <1>7 DEF SubmitAttempt, Saves
  <2> QED
    BY <1>7, <2>3, <2>4, <2>5, MarkersAssumption
    DEF SubmitAttempt, Starts, TypeOK, files, history
<1>8. CASE AcceptTask(p)
  <2> DEFINE task == [hand[p] EXCEPT !.status = "accepted"]
  <2>1. task \in TaskRecords
    BY <1>8 DEF AcceptTask, TypeOK, TaskRecords, TaskStatuses
  <2>4. hand' = [hand EXCEPT ![p] = task]
    BY <1>8 DEF AcceptTask
  <2>2. <<TaskSave(task)>> \in Seq(SaveSet) /\ <<task.id, task.spec>> \in Tasks \X Specs
    BY <2>1 DEF TaskSave, SaveSet, TaskRecords
  <2>3. job[p] = "idle"
    BY <1>8 DEF AcceptTask, Idle
  <2> QED
    BY <1>8, <2>1, <2>2, <2>3, <2>4
    DEF AcceptTask, Starts, Saves, TypeOK, files
<1>9. ASSUME NEW a \in AttemptIds, ReviewAttempt(p, a)
      PROVE  TypeInv'
  <2> DEFINE r == IF hand[p] = None THEN tasks[a.task] ELSE hand[p]
  <2>1. r \in TaskRecords
    BY <1>9 DEF ReviewAttempt, Readable, TypeOK, AttemptIds
  <2>2. Review(p, r, a)
    BY <1>9 DEF ReviewAttempt
  <2>3. /\ plan' \in [Procs -> Seq(SaveSet)]
        /\ earned' \subseteq Tasks \X Specs
        /\ Head(plan'[p]).task \in TaskRecords
    BY <2>1, <2>2, ReviewType
  <2>4. job[p] = "idle"
    BY <1>9 DEF ReviewAttempt, Idle
  <2>5. /\ hand' = [hand EXCEPT ![p] = IF hand[p] = None THEN None
                                       ELSE Head(plan'[p]).task]
        /\ ops < MaxOps /\ ops' = ops + 1
        /\ UNCHANGED <<goals, tasks, attempts, decisions, spoiled, job, opened,
                       scan, signedOff, lost, crashes>>
    BY <1>9 DEF ReviewAttempt, Starts, files
  <2>6. hand' \in [Procs -> TaskRecords \union {None}]
    BY <2>3, <2>5 DEF TypeOK
  <2>7. WorkflowHasTask'
    BY <2>4, <2>5 DEF TypeOK
  <2>8. signedOff' \subseteq Tasks \X Specs /\ lost' \subseteq SaveSet
    BY <2>5 DEF TypeOK
  <2>9. ops' \in 0..MaxOps /\ crashes' \in 0..MaxCrashes
    BY <2>5, BoundsAssumption DEF TypeOK
  <2> QED
    BY <2>3, <2>5, <2>6, <2>7, <2>8, <2>9 DEF TypeOK
<1> QED
  BY <1>1, <1>2, <1>3, <1>4, <1>5, <1>6, <1>7, <1>8, <1>9 DEF Command

LEMMA WorkflowStepType ==
  ASSUME TypeInv, NEW p \in Procs, WorkflowStep(p)
  PROVE  TypeInv'
<1> USE DEF TypeInv, WorkflowHasTask
<1>1. ASSUME NEW status \in {"succeeded", "failed"}, FinishWorkflow(p, status)
      PROVE  TypeInv'
  <2> DEFINE a == [task |-> hand[p].id, status |-> status,
                   summary |-> WorkflowSummary]
             task == [hand[p] EXCEPT !.latest = a]
  <2>1. hand[p] \in TaskRecords
    BY <1>1 DEF FinishWorkflow, TypeOK
  <2>2. a \in AttemptIds /\ {WorkflowItem} \in Evidence
    BY <2>1 DEF AttemptIds, TaskRecords, Evidence, AttemptStatuses
  <2>3. task \in TaskRecords
    BY <2>1, <2>2 DEF TaskRecords
  <2>4. <<TaskSave(task), AttemptSave(a, {WorkflowItem})>> \in Seq(SaveSet)
    BY <2>2, <2>3 DEF TaskSave, AttemptSave, SaveSet
  <2>5. plan' = [plan EXCEPT ![p] =
                   <<TaskSave(task), AttemptSave(a, {WorkflowItem})>>]
    BY <1>1 DEF FinishWorkflow, Saves
  <2> QED
    BY <1>1, <2>4, <2>5
    DEF FinishWorkflow, TypeOK, files, history, bounds
<1>2. CASE WorkflowTimeout(p)
  BY <1>2 DEF WorkflowTimeout, TypeOK, files, history, bounds
<1> QED
  BY <1>1, <1>2 DEF WorkflowStep

LEMMA TickType ==
  ASSUME TypeInv, NEW p \in Procs, TickStart(p) \/ TickStep(p)
  PROVE  TypeInv'
<1> USE DEF TypeInv, WorkflowHasTask
<1>0. scan[p] \in Scans
  BY DEF TypeOK
<1>1. ASSUME NEW quota \in Quotas, TickBegin(p, quota)
      PROVE  TypeInv'
  <2> DEFINE new == [NoScan EXCEPT !.seen = {d.attempt : d \in decisions} \ {None},
                                   !.room = quota]
  <2>1. {d.attempt : d \in decisions} \ {None} \subseteq AttemptIds
    BY DEF TypeOK, Decisions
  <2>2. new \in Scans
    BY <2>1, QuotasAssumption DEF NoScan, Scans
  <2>3. scan' = [scan EXCEPT ![p] = new] /\ job' = [job EXCEPT ![p] = "tick"]
    BY <1>1 DEF TickBegin
  <2> HIDE DEF new
  <2> QED
    BY <1>1, <2>2, <2>3 DEF TickBegin, TypeOK, files, history, bounds
<1>2. CASE TickGlob(p)
  <2>1. scan' = [scan EXCEPT ![p] = [scan[p] EXCEPT !.names =
                   {t \in Tasks : tasks[t] # Absent}]]
    BY <1>2 DEF TickGlob
  <2>2. [scan[p] EXCEPT !.names = {t \in Tasks : tasks[t] # Absent}] \in Scans
    BY <1>0 DEF Scans
  <2> QED
    BY <1>2, <2>1, <2>2 DEF TickGlob, TypeOK, files, history, bounds
<1>3. CASE TickRead(p)
  <2>1. PICK t \in scan[p].names :
          /\ Readable(tasks[t])
          /\ scan' = [scan EXCEPT ![p].names = @ \ {t},
                                  ![p].batch = @ \union {tasks[t]}]
    BY <1>3 DEF TickRead
  <2> DEFINE new == [scan[p] EXCEPT !.names = @ \ {t},
                                    !.batch = @ \union {tasks[t]}]
  <2>2. tasks[t] \in TaskRecords
    BY <1>0, <2>1 DEF Scans, Readable, TypeOK
  <2>3. new \in Scans
    BY <1>0, <2>2 DEF Scans
  <2>4. scan' = [scan EXCEPT ![p] = new]
    BY <2>1 DEF TypeOK
  <2> QED
    BY <1>3, <2>3, <2>4 DEF TickRead, TypeOK, files, history, bounds
<1>4. CASE TickSkip(p)
  <2>1. PICK r \in scan[p].batch :
          scan' = [scan EXCEPT ![p] = [scan[p] EXCEPT !.batch = @ \ {r}]]
    BY <1>4 DEF TickSkip
  <2>2. [scan[p] EXCEPT !.batch = @ \ {r}] \in Scans
    BY <1>0 DEF Scans
  <2> QED
    BY <1>4, <2>1, <2>2 DEF TickSkip, TypeOK, files, history, bounds
<1>5. CASE TickReview(p)
  <2>1. PICK r \in scan[p].batch :
          /\ Reviewing(p, r) /\ Unreviewed(p, r)
          /\ Review(p, r, r.latest)
          /\ scan' = [scan EXCEPT
                         ![p].batch = @ \ {r},
                         ![p].seen = @ \union {r.latest},
                         ![p].room = IF @ = None THEN None ELSE @ - 1]
    BY <1>5 DEF TickReview
  <2> DEFINE new == [scan[p] EXCEPT
                       !.batch = @ \ {r},
                       !.seen = @ \union {r.latest},
                       !.room = IF @ = None THEN None ELSE @ - 1]
  <2>2. r \in TaskRecords /\ r.latest \in AttemptIds
    BY <1>0, <2>1 DEF Scans, TaskRecords, Unreviewed
  <2>3. plan' \in [Procs -> Seq(SaveSet)] /\ earned' \subseteq Tasks \X Specs
    BY <2>1, <2>2, ReviewType
  <2>4. scan[p].room # None => scan[p].room - 1 \in Nat
    BY <1>0, <2>1 DEF Scans, Reviewing
  <2>5. new \in Scans
    BY <1>0, <2>2, <2>4 DEF Scans
  <2>6. scan' = [scan EXCEPT ![p] = new]
    BY <2>1 DEF TypeOK
  <2> QED
    BY <1>5, <2>3, <2>5, <2>6 DEF TickReview, TypeOK, files, bounds
<1>6. CASE TickReturns(p)
  <2>1. NoScan \in Scans
    BY DEF NoScan, Scans
  <2> QED
    BY <1>6, <2>1 DEF TickReturns, TypeOK, files, history, bounds
<1> QED
  BY <1>1, <1>2, <1>3, <1>4, <1>5, <1>6
  DEF TickStart, TickStep, TickEnd, TickAbort

LEMMA CrashType ==
  ASSUME TypeInv, NEW p \in Procs, Crash(p)
  PROVE  TypeInv'
<1>1. NoScan \in Scans /\ <<>> \in Seq(SaveSet)
  BY DEF NoScan, Scans
<1>2. crashes' \in 0..MaxCrashes
  BY BoundsAssumption DEF Crash, TypeInv, TypeOK
<1>3. lost' \subseteq SaveSet
  <2>1. plan[p] \in Seq(SaveSet)
    BY DEF TypeInv, TypeOK
  <2>2. \A i \in DOMAIN plan[p] : plan[p][i] \in SaveSet
    BY <2>1
  <2>3. PendingOf(p) \subseteq SaveSet
    BY <2>2 DEF PendingOf
  <2> QED
    BY <2>3 DEF Crash, TypeInv, TypeOK
<1> QED
  BY <1>1, <1>2, <1>3 DEF Crash, TypeInv, TypeOK, WorkflowHasTask, files

\* One step keeps the types.
LEMMA NextType == TypeInv /\ [Next]_vars => TypeInv'
<1> SUFFICES ASSUME TypeInv, [Next]_vars PROVE TypeInv'
  OBVIOUS
<1>1. CASE UNCHANGED vars
  BY <1>1
  DEF vars, files, locals, history, bounds, TypeInv, TypeOK, WorkflowHasTask
<1>2. ASSUME NEW p \in Procs,
             \/ Command(p) \/ SaveStep(p) \/ WorkflowStep(p)
             \/ TickStart(p) \/ TickStep(p) \/ Crash(p)
      PROVE  TypeInv'
  BY <1>2, CommandType, SaveStepType, WorkflowStepType, TickType, CrashType
<1> QED
  BY <1>1, <1>2 DEF Next

\* Files and locals keep the shapes the code gives them, whatever the
\* processes do to each other's files (FilesystemStore, FilesystemWorkspace).
THEOREM TypeCorrect == Spec => []TypeOK
<1>1. TypeInv => TypeOK
  BY DEF TypeInv
<1> QED
  BY <1>1, InitType, NextType, PTL DEF Spec

-----------------------------------------------------------------------------
(* An accepted task was earned.  The files alone are not inductive: a      *)
(* process may save any copy it holds, so the invariant speaks of every    *)
(* copy, in files, hands, listings and pending saves.                      *)

EarnedInv == TypeInv /\ AcceptanceIsEarned /\ CopiesAreEarned

\* Earned, with the history as parameters: for records of the next state.
EarnedUnder(r, e, s) ==
  r.status = "accepted" =>
    <<r.id, r.spec>> \in s \/ (<<r.id, r.spec>> \in e /\ ~r.spec.human)

\* A step that brings in no record but earned ones keeps the invariant.
LEMMA EarnedFrame ==
  ASSUME EarnedInv, TypeInv', earned \subseteq earned',
         signedOff \subseteq signedOff',
         \A t \in Tasks : tasks'[t] \notin Unreadable =>
           tasks'[t] = tasks[t] \/ EarnedUnder(tasks'[t], earned', signedOff'),
         \A p \in Procs : hand'[p] # None =>
           hand'[p] = hand[p] \/ EarnedUnder(hand'[p], earned', signedOff'),
         \A p \in Procs : \A r \in scan'[p].batch :
           r \in scan[p].batch \/ EarnedUnder(r, earned', signedOff'),
         \A p \in Procs : \A i \in DOMAIN plan'[p] :
           plan'[p][i].kind = "Task" =>
             \/ \E j \in DOMAIN plan[p] : plan'[p][i] = plan[p][j]
             \/ EarnedUnder(plan'[p][i].task, earned', signedOff')
  PROVE  EarnedInv'
<1>1. AcceptanceIsEarned'
  BY DEF EarnedInv, AcceptanceIsEarned, Earned, Backed, EarnedUnder, Readable
<1>2. ASSUME NEW p \in Procs, hand'[p] # None
      PROVE  Earned(hand[p])'
  BY <1>2 DEF EarnedInv, CopiesAreEarned, Earned, Backed, EarnedUnder
<1>3. ASSUME NEW p \in Procs, NEW r \in scan'[p].batch
      PROVE  EarnedUnder(r, earned', signedOff')
  BY <1>3 DEF EarnedInv, CopiesAreEarned, Earned, Backed, EarnedUnder
<1>4. ASSUME NEW p \in Procs, NEW i \in DOMAIN plan'[p],
             plan'[p][i].kind = "Task"
      PROVE  EarnedUnder(plan'[p][i].task, earned', signedOff')
  <2>1. CASE \E j \in DOMAIN plan[p] : plan'[p][i] = plan[p][j]
    BY <1>4, <2>1 DEF EarnedInv, CopiesAreEarned, Earned, Backed, EarnedUnder
  <2> QED
    BY <1>4, <2>1
<1>5. CopiesAreEarned'
  BY <1>2, <1>3, <1>4 DEF CopiesAreEarned, Earned, Backed, EarnedUnder
<1> QED
  BY <1>1, <1>5 DEF EarnedInv

\* The code's evidence check is the requester's acceptance.
LEMMA CheckIsSound ==
  ASSUME NEW spec, NEW evidence, _check_evidence(spec, evidence) = "ok"
  PROVE  /\ spec.required => evidence # {}
         /\ spec.expected \subseteq UNION evidence
<1>1. ~(spec.required /\ evidence = {})
  BY DEF _check_evidence
<1>2. ~\E label \in spec.expected : ~_evidence_matches(label, evidence)
  BY <1>1 DEF _check_evidence
<1> QED
  BY <1>1, <1>2 DEF _evidence_matches

\* A decision to complete says that the attempt succeeded, that the check was
\* passed and that no human gate is set.
LEMMA CompleteMeans ==
  ASSUME NEW b, NEW spec, NEW status, NEW evidence,
         ReviewAction(b, spec, status, evidence) = "mark_complete"
  PROVE  /\ status = "succeeded"
         /\ _check_evidence(spec, evidence) = "ok"
         /\ ~spec.human
BY DEF ReviewAction

\* The task a review saves is earned when the copy it started from was.
LEMMA ReviewIsEarned ==
  ASSUME TypeInv, NEW p \in Procs, NEW r \in TaskRecords, NEW a \in AttemptIds,
         Review(p, r, a), EarnedUnder(r, earned, signedOff),
         signedOff' = signedOff
  PROVE  /\ earned \subseteq earned'
         /\ \A i \in DOMAIN plan'[p] : plan'[p][i].kind = "Task" =>
              EarnedUnder(plan'[p][i].task, earned', signedOff')
         /\ EarnedUnder(Head(plan'[p]).task, earned', signedOff')
         /\ \A q \in Procs : q # p => plan'[q] = plan[q]
<1> DEFINE d == ReviewDecision(r, a, attempts[a])
           b == goals[GoalOf[r.id]]
           updated == [r EXCEPT !.status = Reviewed(r.status, d.action)]
<1>1. earned \subseteq earned'
  BY DEF Review
<1>2. d.action = ReviewAction(b, r.spec, a.status, attempts[a])
  BY DEF ReviewDecision
<1>3. /\ updated.id = r.id /\ updated.spec = r.spec
      /\ updated.status = Reviewed(r.status, d.action)
  BY DEF TaskRecords
<1>4. ASSUME updated.status = "accepted", r.status # "accepted"
      PROVE  <<r.id, r.spec>> \in earned' /\ ~r.spec.human
  <2>1. d.action = "mark_complete"
    BY <1>3, <1>4, TargetValues DEF Reviewed
  <2>2. ReviewAction(b, r.spec, a.status, attempts[a]) = "mark_complete"
    BY <1>2, <2>1
  <2>3. /\ a.status = "succeeded" /\ ~r.spec.human
        /\ _check_evidence(r.spec, attempts[a]) = "ok"
    BY <2>2, CompleteMeans
  <2>4. MeetsAcceptance(r.spec, a, attempts[a])
    BY <2>3, CheckIsSound DEF MeetsAcceptance
  <2> QED
    BY <2>3, <2>4 DEF Review
<1>5. EarnedUnder(updated, earned', signedOff')
  <2>1. CASE r.status = "accepted"
    BY <1>1, <1>3, <2>1 DEF EarnedUnder
  <2>2. CASE r.status # "accepted"
    BY <1>3, <1>4, <2>2 DEF EarnedUnder
  <2> QED
    BY <2>1, <2>2
<1> HIDE DEF d, updated
<1>6. plan' = [plan EXCEPT ![p] = <<TaskSave(updated), DecisionSave(d)>>]
  BY DEF Review, Saves, updated, d
<1>7. /\ plan'[p] = <<TaskSave(updated), DecisionSave(d)>>
      /\ \A q \in Procs : q # p => plan'[q] = plan[q]
  BY <1>6 DEF TypeInv, TypeOK
<1>8. \A i \in DOMAIN plan'[p] : plan'[p][i].kind = "Task" =>
        plan'[p][i].task = updated
  BY <1>7 DEF TaskSave, DecisionSave
<1>9. Head(plan'[p]).task = updated
  BY <1>7 DEF TaskSave
<1> QED
  BY <1>1, <1>5, <1>7, <1>8, <1>9

LEMMA SaveStepEarned ==
  ASSUME EarnedInv, TypeInv', NEW p \in Procs, SaveStep(p)
  PROVE  EarnedInv'
<1>0. /\ hand' = hand /\ scan' = scan /\ earned' = earned
      /\ signedOff' = signedOff
  BY DEF SaveStep, Truncate, Write, SaveRefused, history
<1>1. plan[p] \in Seq(SaveSet) /\ plan \in [Procs -> Seq(SaveSet)]
  BY DEF EarnedInv, TypeInv, TypeOK
<1>2. ASSUME NEW t \in Tasks, tasks'[t] \notin Unreadable, tasks'[t] # tasks[t]
      PROVE  EarnedUnder(tasks'[t], earned', signedOff')
  <2>1. CASE Truncate(p)
    <3>1. Put(Head(plan[p]), Truncated)
      BY <2>1 DEF Truncate
    <3> QED
      BY <1>2, <3>1 DEF Put, Unreadable, EarnedInv, TypeInv, TypeOK
  <2>2. CASE Write(p)
    <3>1. PICK content \in AfterWrite(Head(plan[p])) : Put(Head(plan[p]), content)
      BY <2>2 DEF Write
    <3>2. Head(plan[p]).kind = "Task" /\ tasks'[t] = content
      BY <1>2, <3>1 DEF Put, EarnedInv, TypeInv, TypeOK
    <3>3. content = Head(plan[p]).task
      BY <1>2, <3>2 DEF AfterWrite, Content, Unreadable
    <3>4. plan[p] # <<>> /\ Head(plan[p]) = plan[p][1] /\ 1 \in DOMAIN plan[p]
      BY <1>1, <2>2 DEF Write
    <3> QED
      BY <1>0, <3>2, <3>3, <3>4
      DEF EarnedInv, CopiesAreEarned, Earned, Backed, EarnedUnder
  <2>3. CASE SaveRefused(p)
    BY <1>2, <2>3 DEF SaveRefused, files
  <2> QED
    BY <2>1, <2>2, <2>3 DEF SaveStep
<1>3. ASSUME NEW q \in Procs, NEW i \in DOMAIN plan'[q]
      PROVE  \E j \in DOMAIN plan[q] : plan'[q][i] = plan[q][j]
  <2>1. CASE Truncate(p)
    BY <1>3, <2>1 DEF Truncate
  <2>2. CASE Write(p)
    <3>1. plan' = [plan EXCEPT ![p] = Tail(plan[p])] /\ plan[p] # <<>>
      BY <2>2 DEF Write
    <3>2. CASE q = p
      <4>1. plan'[q] = Tail(plan[q])
        BY <1>1, <3>1, <3>2
      <4>2. i + 1 \in DOMAIN plan[q] /\ Tail(plan[q])[i] = plan[q][i + 1]
        BY <1>1, <1>3, <3>1, <3>2, <4>1
      <4> QED
        BY <4>1, <4>2
    <3>3. CASE q # p
      BY <1>1, <1>3, <3>1, <3>3
    <3> QED
      BY <3>2, <3>3
  <2>3. CASE SaveRefused(p)
    BY <1>1, <1>3, <2>3 DEF SaveRefused
  <2> QED
    BY <2>1, <2>2, <2>3 DEF SaveStep
<1> QED
  BY <1>0, <1>2, <1>3, EarnedFrame

LEMMA CommandEarned ==
  ASSUME EarnedInv, TypeInv', NEW p \in Procs, Command(p)
  PROVE  EarnedInv'
<1>0. /\ plan \in [Procs -> Seq(SaveSet)]
      /\ hand \in [Procs -> TaskRecords \union {None}]
      /\ tasks' = tasks /\ scan' = scan
  BY DEF EarnedInv, TypeInv, TypeOK, Command, StartGoal, ProposeRefused,
         ProposeTask, LoadTask, DropTask, RunWorkflow, SubmitAttempt, AcceptTask,
         ReviewAttempt, files
<1>1. ASSUME NEW g \in Goals, NEW b \in Budgets, StartGoal(p, g, b)
      PROVE  EarnedInv'
  <2>1. /\ plan' = [plan EXCEPT ![p] = <<GoalSave(g, b)>>]
        /\ UNCHANGED <<hand, earned, signedOff>>
    BY <1>1 DEF StartGoal, Saves, history
  <2> QED
    BY <1>0, <2>1, EarnedFrame DEF GoalSave
<1>2. ASSUME NEW g \in Goals, NEW spec \in Specs, ProposeRefused(p, g, spec)
      PROVE  EarnedInv'
  <2>1. PICK d : /\ plan' = [plan EXCEPT ![p] = <<DecisionSave(d)>>]
                 /\ UNCHANGED <<hand, earned, signedOff>>
    BY <1>2 DEF ProposeRefused, Saves, history
  <2> QED
    BY <1>0, <2>1, EarnedFrame DEF DecisionSave
<1>3. ASSUME NEW t \in Tasks, NEW spec \in Specs, ProposeTask(p, t, spec)
      PROVE  EarnedInv'
  <2>1. PICK task, d :
          /\ plan' = [plan EXCEPT ![p] = <<TaskSave(task), DecisionSave(d)>>]
          /\ hand' = [hand EXCEPT ![p] = task]
          /\ task.status = "pending"
          /\ UNCHANGED <<earned, signedOff>>
    BY <1>3 DEF ProposeTask, Saves, history
  <2>2. EarnedUnder(task, earned', signedOff')
    BY <2>1 DEF EarnedUnder
  <2> QED
    BY <1>0, <2>1, <2>2, EarnedFrame DEF TaskSave, DecisionSave
<1>4. ASSUME NEW t \in Tasks, LoadTask(p, t)
      PROVE  EarnedInv'
  <2>1. /\ hand' = [hand EXCEPT ![p] = tasks[t]]
        /\ UNCHANGED <<plan, earned, signedOff>> /\ Readable(tasks[t])
    BY <1>4 DEF LoadTask, history
  <2>2. EarnedUnder(tasks[t], earned', signedOff')
    BY <2>1
    DEF EarnedInv, AcceptanceIsEarned, Earned, Backed, EarnedUnder
  <2> QED
    BY <1>0, <2>1, <2>2, EarnedFrame
<1>5. ASSUME NEW t \in Tasks, RunWorkflow(p, t)
      PROVE  EarnedInv'
  <2>1. tasks[t] \in TaskRecords
    BY <1>5 DEF RunWorkflow, Readable, EarnedInv, TypeInv, TypeOK
  <2>2. PICK task :
          /\ hand' = [hand EXCEPT ![p] = task] /\ task.status = "submitted"
          /\ UNCHANGED <<plan, earned, signedOff>>
    BY <1>5, <2>1 DEF RunWorkflow, history, TaskRecords
  <2>3. EarnedUnder(task, earned', signedOff')
    BY <2>2 DEF EarnedUnder
  <2> QED
    BY <1>0, <2>2, <2>3, EarnedFrame
<1>6. CASE DropTask(p)
  <2>1. hand' = [hand EXCEPT ![p] = None] /\ UNCHANGED <<plan, earned, signedOff>>
    BY <1>6 DEF DropTask, history
  <2> QED
    BY <1>0, <2>1, EarnedFrame
<1>7. ASSUME NEW status \in Outcomes, NEW summary \in Summaries,
             NEW ev \in SUBSET Items, SubmitAttempt(p, status, summary, ev)
      PROVE  EarnedInv'
  <2>1. hand[p] \in TaskRecords
    BY <1>0, <1>7 DEF SubmitAttempt
  <2>2. PICK task, a :
          /\ plan' = [plan EXCEPT ![p] = <<TaskSave(task), AttemptSave(a, ev)>>]
          /\ hand' = [hand EXCEPT ![p] = task]
          /\ task.status = "submitted"
          /\ UNCHANGED <<earned, signedOff>>
    BY <1>7, <2>1 DEF SubmitAttempt, Saves, history, TaskRecords
  <2>3. EarnedUnder(task, earned', signedOff')
    BY <2>2 DEF EarnedUnder
  <2> QED
    BY <1>0, <2>2, <2>3, EarnedFrame DEF TaskSave, AttemptSave
<1>8. CASE AcceptTask(p)
  <2>1. PICK task :
          /\ plan' = [plan EXCEPT ![p] = <<TaskSave(task)>>]
          /\ hand' = [hand EXCEPT ![p] = task]
          /\ signedOff' = signedOff \union {<<task.id, task.spec>>}
          /\ earned' = earned
    BY <1>8 DEF AcceptTask, Saves
  <2>2. EarnedUnder(task, earned', signedOff')
    BY <2>1 DEF EarnedUnder
  <2>3. \A q \in Procs : hand'[q] # None =>
          hand'[q] = hand[q] \/ EarnedUnder(hand'[q], earned', signedOff')
    BY <1>0, <2>1, <2>2
  <2>4. \A q \in Procs : \A i \in DOMAIN plan'[q] :
          \/ \E j \in DOMAIN plan[q] : plan'[q][i] = plan[q][j]
          \/ plan'[q][i].task = task
    BY <1>0, <2>1 DEF TaskSave
  <2>5. earned \subseteq earned' /\ signedOff \subseteq signedOff'
    BY <2>1
  <2> QED
    BY <1>0, <2>2, <2>3, <2>4, <2>5, EarnedFrame
<1>9. ASSUME NEW a \in AttemptIds, ReviewAttempt(p, a)
      PROVE  EarnedInv'
  <2> DEFINE r == IF hand[p] = None THEN tasks[a.task] ELSE hand[p]
  <2>1. r \in TaskRecords /\ EarnedUnder(r, earned, signedOff)
    BY <1>0, <1>9
    DEF ReviewAttempt, Readable, EarnedInv, TypeInv, TypeOK, AttemptIds,
        AcceptanceIsEarned, CopiesAreEarned, Earned, Backed, EarnedUnder
  <2>2. Review(p, r, a) /\ signedOff' = signedOff
    BY <1>9 DEF ReviewAttempt
  <2> HIDE DEF r
  <2>3. /\ earned \subseteq earned'
        /\ \A i \in DOMAIN plan'[p] : plan'[p][i].kind = "Task" =>
             EarnedUnder(plan'[p][i].task, earned', signedOff')
        /\ EarnedUnder(Head(plan'[p]).task, earned', signedOff')
        /\ \A q \in Procs : q # p => plan'[q] = plan[q]
    BY <2>1, <2>2, ReviewIsEarned DEF EarnedInv
  <2>4. hand' = [hand EXCEPT ![p] = IF hand[p] = None THEN None
                                    ELSE Head(plan'[p]).task]
    BY <1>9 DEF ReviewAttempt
  <2>5. \A q \in Procs : hand'[q] # None =>
          hand'[q] = hand[q] \/ EarnedUnder(hand'[q], earned', signedOff')
    BY <1>0, <2>3, <2>4
  <2>6. \A q \in Procs : \A i \in DOMAIN plan'[q] :
          plan'[q][i].kind = "Task" =>
            \/ \E j \in DOMAIN plan[q] : plan'[q][i] = plan[q][j]
            \/ EarnedUnder(plan'[q][i].task, earned', signedOff')
    BY <2>3
  <2> QED
    BY <1>0, <2>2, <2>3, <2>5, <2>6, EarnedFrame
<1> QED
  BY <1>1, <1>2, <1>3, <1>4, <1>5, <1>6, <1>7, <1>8, <1>9 DEF Command

LEMMA TickEarned ==
  ASSUME EarnedInv, TypeInv', NEW p \in Procs, TickStart(p) \/ TickStep(p)
  PROVE  EarnedInv'
<1>0. /\ scan \in [Procs -> Scans] /\ tasks' = tasks /\ hand' = hand
      /\ signedOff' = signedOff
  BY DEF EarnedInv, TypeInv, TypeOK, TickStart, TickStep, TickBegin, TickGlob,
         TickRead, TickSkip, TickReview, TickAbort, TickEnd, TickReturns, files,
         history
<1>1. CASE \/ \E quota \in Quotas : TickBegin(p, quota)
           \/ TickGlob(p) \/ TickSkip(p) \/ TickReturns(p)
  <2>1. plan' = plan /\ earned' = earned
    BY <1>1 DEF TickBegin, TickGlob, TickSkip, TickReturns, history
  <2>2. PICK new : scan' = [scan EXCEPT ![p] = new] /\ new.batch \subseteq scan[p].batch
    <3>1. CASE \E quota \in Quotas : TickBegin(p, quota)
      BY <3>1 DEF TickBegin, NoScan
    <3>2. CASE TickGlob(p)
      <4> DEFINE globbed == [scan[p] EXCEPT !.names = {t \in Tasks : tasks[t] # Absent}]
      <4>1. scan' = [scan EXCEPT ![p] = globbed]
        BY <3>2 DEF TickGlob
      <4>2. globbed.batch = scan[p].batch
        BY <1>0 DEF Scans
      <4> QED
        BY <4>1, <4>2
    <3>3. CASE TickSkip(p)
      <4>1. PICK r \in scan[p].batch :
              scan' = [scan EXCEPT ![p] = [scan[p] EXCEPT !.batch = @ \ {r}]]
        BY <3>3 DEF TickSkip
      <4> DEFINE skipped == [scan[p] EXCEPT !.batch = @ \ {r}]
      <4>2. skipped.batch \subseteq scan[p].batch
        BY <1>0 DEF Scans
      <4> QED
        BY <4>1, <4>2
    <3>4. CASE TickReturns(p)
      <4>1. scan' = [scan EXCEPT ![p] = NoScan] /\ NoScan.batch = {}
        BY <3>4 DEF TickReturns, NoScan
      <4> QED
        BY <4>1
    <3> QED
      BY <1>1, <3>1, <3>2, <3>3, <3>4
  <2>3. \A q \in Procs : scan'[q].batch \subseteq scan[q].batch
    BY <1>0, <2>2
  <2> QED
    BY <1>0, <2>1, <2>3, EarnedFrame
<1>2. CASE TickRead(p)
  <2>1. PICK t \in scan[p].names :
          /\ Readable(tasks[t])
          /\ scan' = [scan EXCEPT ![p].names = @ \ {t},
                                  ![p].batch = @ \union {tasks[t]}]
          /\ plan' = plan /\ earned' = earned
    BY <1>2 DEF TickRead, history
  <2>2. t \in Tasks
    BY <1>0 DEF Scans
  <2>3. EarnedUnder(tasks[t], earned', signedOff')
    BY <1>0, <2>1, <2>2
    DEF EarnedInv, AcceptanceIsEarned, Earned, Backed, EarnedUnder
  <2>4. \A q \in Procs : \A r \in scan'[q].batch :
          r \in scan[q].batch \/ r = tasks[t]
    BY <1>0, <2>1 DEF Scans
  <2> QED
    BY <1>0, <2>1, <2>3, <2>4, EarnedFrame
<1>3. CASE TickReview(p)
  <2>1. PICK r \in scan[p].batch :
          /\ Unreviewed(p, r) /\ Review(p, r, r.latest)
          /\ scan' = [scan EXCEPT
                         ![p].batch = @ \ {r},
                         ![p].seen = @ \union {r.latest},
                         ![p].room = IF @ = None THEN None ELSE @ - 1]
    BY <1>3 DEF TickReview
  <2>2. r \in TaskRecords /\ r.latest \in AttemptIds
    BY <1>0, <2>1 DEF Scans, TaskRecords, Unreviewed
  <2>3. EarnedUnder(r, earned, signedOff)
    BY DEF EarnedInv, CopiesAreEarned, Earned, Backed, EarnedUnder
  <2>4. /\ earned \subseteq earned'
        /\ \A i \in DOMAIN plan'[p] : plan'[p][i].kind = "Task" =>
             EarnedUnder(plan'[p][i].task, earned', signedOff')
        /\ \A q \in Procs : q # p => plan'[q] = plan[q]
    BY <1>0, <2>1, <2>2, <2>3, ReviewIsEarned DEF EarnedInv
  <2>5. \A q \in Procs : scan'[q].batch \subseteq scan[q].batch
    BY <1>0, <2>1 DEF Scans
  <2>6. \A q \in Procs : \A i \in DOMAIN plan'[q] :
          plan'[q][i].kind = "Task" =>
            \/ \E j \in DOMAIN plan[q] : plan'[q][i] = plan[q][j]
            \/ EarnedUnder(plan'[q][i].task, earned', signedOff')
    BY <2>4
  <2> QED
    BY <1>0, <2>4, <2>5, <2>6, EarnedFrame
<1> QED
  BY <1>1, <1>2, <1>3 DEF TickStart, TickStep, TickEnd, TickAbort

LEMMA WorkflowStepEarned ==
  ASSUME EarnedInv, TypeInv', NEW p \in Procs, WorkflowStep(p)
  PROVE  EarnedInv'
<1>0. /\ tasks' = tasks /\ scan' = scan /\ earned' = earned
      /\ signedOff' = signedOff
      /\ hand' = [hand EXCEPT ![p] = None]
      /\ hand \in [Procs -> TaskRecords \union {None}]
      /\ plan \in [Procs -> Seq(SaveSet)]
  BY DEF EarnedInv, TypeInv, TypeOK, WorkflowStep, FinishWorkflow,
         WorkflowTimeout, files, history
<1>1. ASSUME NEW status \in {"succeeded", "failed"}, FinishWorkflow(p, status)
      PROVE  EarnedInv'
  <2>1. hand[p] \in TaskRecords /\ EarnedUnder(hand[p], earned, signedOff)
    BY <1>1
    DEF FinishWorkflow, EarnedInv, TypeInv, TypeOK, WorkflowHasTask,
        CopiesAreEarned, Earned, Backed, EarnedUnder
  <2> DEFINE a == [task |-> hand[p].id, status |-> status,
                   summary |-> WorkflowSummary]
             task == [hand[p] EXCEPT !.latest = a]
  <2>2. plan' = [plan EXCEPT ![p] =
                   <<TaskSave(task), AttemptSave(a, {WorkflowItem})>>]
    BY <1>1 DEF FinishWorkflow, Saves
  <2>3. EarnedUnder(task, earned', signedOff')
    BY <1>0, <2>1 DEF EarnedUnder, TaskRecords
  <2> HIDE DEF a, task
  <2>4. \A q \in Procs : \A i \in DOMAIN plan'[q] :
          plan'[q][i].kind = "Task" =>
            \/ \E j \in DOMAIN plan[q] : plan'[q][i] = plan[q][j]
            \/ plan'[q][i].task = task
    BY <1>0, <2>2 DEF TaskSave, AttemptSave
  <2> QED
    BY <1>0, <2>3, <2>4, EarnedFrame
<1>2. CASE WorkflowTimeout(p)
  BY <1>0, <1>2, EarnedFrame DEF WorkflowTimeout
<1> QED
  BY <1>1, <1>2 DEF WorkflowStep

LEMMA CrashEarned ==
  ASSUME EarnedInv, TypeInv', NEW p \in Procs, Crash(p)
  PROVE  EarnedInv'
<1>1. /\ tasks' = tasks /\ earned' = earned /\ signedOff' = signedOff
      /\ hand' = [hand EXCEPT ![p] = None]
      /\ plan' = [plan EXCEPT ![p] = <<>>]
      /\ scan' = [scan EXCEPT ![p] = NoScan]
      /\ hand \in [Procs -> TaskRecords \union {None}]
      /\ plan \in [Procs -> Seq(SaveSet)] /\ scan \in [Procs -> Scans]
  BY DEF Crash, EarnedInv, TypeInv, TypeOK, files
<1> QED
  BY <1>1, EarnedFrame DEF NoScan

LEMMA NextEarned == EarnedInv /\ [Next]_vars => EarnedInv'
<1> SUFFICES ASSUME EarnedInv, [Next]_vars PROVE EarnedInv'
  OBVIOUS
<1>0. TypeInv'
  BY NextType DEF EarnedInv
<1>1. CASE UNCHANGED vars
  BY <1>0, <1>1, EarnedFrame DEF vars, files, locals, history
<1>2. ASSUME NEW p \in Procs,
             \/ Command(p) \/ SaveStep(p) \/ WorkflowStep(p)
             \/ TickStart(p) \/ TickStep(p) \/ Crash(p)
      PROVE  EarnedInv'
  BY <1>0, <1>2, CommandEarned, SaveStepEarned, WorkflowStepEarned, TickEarned,
     CrashEarned
<1> QED
  BY <1>1, <1>2 DEF Next

LEMMA InitEarned == Init => EarnedInv
<1> SUFFICES ASSUME Init PROVE EarnedInv
  OBVIOUS
<1>1. TypeInv
  BY InitType
<1> QED
  BY <1>1
  DEF Init, EarnedInv, AcceptanceIsEarned, CopiesAreEarned, NoScan, Readable,
      Unreadable

\* No task file says accepted that was not earned, nor does any copy that a
\* process may still save, under any overlap, stale copy, crash or damaged
\* file (review_attempt, accept_task, supervisor_tick, run-workflow-task).
THEOREM AcceptedOnlyIfEarned == Spec => [](AcceptanceIsEarned /\ CopiesAreEarned)
<1>1. EarnedInv => AcceptanceIsEarned /\ CopiesAreEarned
  BY DEF EarnedInv
<1> QED
  BY <1>1, InitEarned, NextEarned, PTL DEF Spec


\* No copy a process may still save, in a hand, in the listing of a tick or in a
\* plan, says accepted unearned (review_attempt, accept_task, supervisor_tick).
THEOREM CopiesStayEarned == Spec => []CopiesAreEarned
BY AcceptedOnlyIfEarned, PTL
=============================================================================
