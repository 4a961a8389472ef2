---------------------------- MODULE DeliveryLoop ----------------------------
(***************************************************************************)
(* The delivery workspace: one directory of JSON files and the processes   *)
(* that work on it without locks.                                          *)
(*                                                                         *)
(* Sessions are processes that use the FilesystemWorkspace library, the    *)
(* review-attempt command and the run-workflow-task command.  A session    *)
(* keeps the task object it proposed or loaded in `hand` and passes that   *)
(* copy, however old, to submit_attempt and accept_task.  Cron processes   *)
(* run supervisor_tick again and again.                                    *)
(*                                                                         *)
(* FilesystemStore.save is write_text: open with truncation, then write.   *)
(* A command's saves wait in plan[p], each taking a Truncate and a Write   *)
(* step, and other processes run in between.  A crash loses the rest.      *)
(***************************************************************************)
EXTENDS Review, Sequences, FiniteSets

CONSTANTS
  Sessions,    \* processes that run operator and expert commands
  Cron,        \* processes that run supervisor_tick
  N,           \* tasks are 1..N, numbered in the order of their file names
  Goals,
  GoalOf,      \* the goal of each task (part of the task id)
  Budgets,     \* budgets a goal may be started with
  Specs,       \* permissions and acceptance a task may be proposed with
  Items,       \* evidence items an expert may attach
  Outcomes,    \* result statuses an expert may report
  Summaries,   \* result summaries an expert may give; "" is one
  Quotas,      \* values of max_reviews; None is no limit
  Commands,    \* the commands sessions use
  MaxOps,      \* bound: commands that sessions start
  MaxCrashes,  \* bound: processes killed
  Absent, Truncated, Garbled, \* states of a file that cannot be parsed
  None

Procs == Sessions \union Cron
Tasks == 1..N
Unreadable == {Absent, Truncated, Garbled}
Permissions == SYSTEM_RISK_PERMISSIONS \union {"read"}

\* adl_runtime.py attaches one workflow_result and a fixed summary.
WorkflowSummary == "workflow"
WorkflowItem == {"workflow_result"}

\* An attempt id is a hash of task, executor, status and summary.  The
\* executor is told apart by the summary; the evidence is not hashed.
AttemptIds == [task : Tasks, status : AttemptStatuses,
               summary : Summaries \union {WorkflowSummary}]

Evidence == SUBSET (Items \union {WorkflowItem})

TaskRecords == [id : Tasks, status : TaskStatuses,
                latest : AttemptIds \union {None}, spec : Specs]

\* A decision id is a hash of all these fields: the file name is the content.
Decisions == [goal : Goals, action : Actions, task : Tasks \union {None},
              attempt : AttemptIds \union {None},
              check : Checks, evidence : Evidence]

ASSUME SpecsAssumption ==
  Specs \subseteq [permissions : SUBSET Permissions, required : BOOLEAN,
                   expected : SUBSET STRING, human : BOOLEAN]

ASSUME BudgetsAssumption == Budgets \subseteq Budget

ASSUME GoalOfAssumption == N \in Nat /\ GoalOf \in [Tasks -> Goals]

ASSUME AttemptsAssumption ==
  /\ Outcomes \subseteq AttemptStatuses
  /\ Summaries \subseteq STRING

ASSUME QuotasAssumption == Quotas \subseteq Nat \union {None}

ASSUME BoundsAssumption == MaxOps \in Nat /\ MaxCrashes \in Nat

\* The values that stand for "no such thing" are none of the things.
ASSUME MarkersAssumption ==
  /\ None \notin AttemptIds \union TaskRecords \union Tasks \union Nat
  /\ \A b \in Budgets : b \notin Unreadable
  /\ \A r \in TaskRecords : r \notin Unreadable
  /\ \A ev \in Evidence : ev \notin Unreadable
  /\ Unreadable \intersect Decisions = {}
  /\ Absent \notin {Truncated, Garbled}

VARIABLES
  \* The files.
  goals,      \* goal |-> its budget
  tasks,      \* task |-> its record
  attempts,   \* attempt id |-> its evidence
  decisions,  \* decision files that can be parsed
  spoiled,    \* decision files that are truncated
  \* The processes.
  hand,       \* the task object a session holds
  job,        \* what the process is in the middle of
  plan,       \* the saves left to do
  opened,     \* the first of them has truncated its file
  scan,       \* the locals of a supervisor_tick
  \* History: recorded for the properties, read by no action.
  earned,     \* <<task, spec>> whose acceptance a reviewed attempt met
  signedOff,  \* <<task, spec>> given to accept_task
  lost,       \* saves that killed processes had begun or still to make
  \* Bounds.
  ops, crashes

files == <<goals, tasks, attempts, decisions, spoiled>>
locals == <<hand, job, plan, opened, scan>>
history == <<earned, signedOff, lost>>
bounds == <<ops, crashes>>
vars == <<files, locals, history, bounds>>

NoScan == [seen |-> {}, names |-> {}, batch |-> {}, room |-> None]

Scans == [seen : SUBSET AttemptIds, names : SUBSET Tasks,
          batch : SUBSET TaskRecords, room : Nat \union {None}]

Init ==
  /\ goals = [g \in Goals |-> Absent]
  /\ tasks = [t \in Tasks |-> Absent]
  /\ attempts = [a \in AttemptIds |-> Absent]
  /\ decisions = {} /\ spoiled = {}
  /\ hand = [p \in Procs |-> None]
  /\ job = [p \in Procs |-> "idle"]
  /\ plan = [p \in Procs |-> <<>>]
  /\ opened = [p \in Procs |-> FALSE]
  /\ scan = [p \in Procs |-> NoScan]
  /\ earned = {} /\ signedOff = {} /\ lost = {}
  /\ ops = 0 /\ crashes = 0

-----------------------------------------------------------------------------
(* FilesystemStore.                                                        *)

Readable(file) == file \notin Unreadable

GoalSave(g, b) == [kind |-> "Goal", goal |-> g, budget |-> b]
TaskSave(r) == [kind |-> "Task", task |-> r]
AttemptSave(a, ev) == [kind |-> "Attempt", attempt |-> a, evidence |-> ev]
DecisionSave(d) == [kind |-> "LoopDecision", decision |-> d]

\* validate_object refuses an attempt whose summary is the empty string.
Valid(save) == save.kind = "Attempt" => save.attempt.summary # ""

\* The file of the save now has this content; no other file changes.
Put(save, content) ==
  /\ goals' = IF save.kind = "Goal"
              THEN [goals EXCEPT ![save.goal] = content] ELSE goals
  /\ tasks' = IF save.kind = "Task"
              THEN [tasks EXCEPT ![save.task.id] = content] ELSE tasks
  /\ attempts' = IF save.kind = "Attempt"
                 THEN [attempts EXCEPT ![save.attempt] = content] ELSE attempts
  /\ decisions' = IF save.kind # "LoopDecision" THEN decisions
                  ELSE IF content = Truncated THEN decisions \ {save.decision}
                  ELSE decisions \union {save.decision}
  /\ spoiled' = IF save.kind # "LoopDecision" THEN spoiled
                ELSE IF content = Truncated THEN spoiled \union {save.decision}
                ELSE spoiled \ {save.decision}

\* The content to write, and what the file holds now.
Content(save) ==
  CASE save.kind = "Goal"         -> save.budget
    [] save.kind = "Task"         -> save.task
    [] save.kind = "Attempt"      -> save.evidence
    [] save.kind = "LoopDecision" -> save.decision

Current(save) ==
  CASE save.kind = "Goal"         -> goals[save.goal]
    [] save.kind = "Task"         -> tasks[save.task.id]
    [] save.kind = "Attempt"      -> attempts[save.attempt]
    [] save.kind = "LoopDecision" ->
         IF save.decision \in decisions THEN save.decision ELSE Truncated

\* What the file holds after the write: another process that wrote since our
\* truncation leaves its tail behind when its text was the longer one.
AfterWrite(save) ==
  {Content(save)} \union
    IF Current(save) \in {Truncated, Content(save)} THEN {} ELSE {Garbled}

Truncate(p) ==
  /\ plan[p] # <<>> /\ ~opened[p] /\ Valid(Head(plan[p]))
  /\ Put(Head(plan[p]), Truncated)
  /\ opened' = [opened EXCEPT ![p] = TRUE]
  /\ UNCHANGED <<hand, job, plan, scan, history, bounds>>

Write(p) ==
  /\ plan[p] # <<>> /\ opened[p]
  /\ \E content \in AfterWrite(Head(plan[p])) : Put(Head(plan[p]), content)
  /\ opened' = [opened EXCEPT ![p] = FALSE]
  /\ plan' = [plan EXCEPT ![p] = Tail(@)]
  /\ UNCHANGED <<hand, job, scan, history, bounds>>

\* ValidationError: the command ends with its remaining saves undone.
SaveRefused(p) ==
  /\ plan[p] # <<>> /\ ~opened[p] /\ ~Valid(Head(plan[p]))
  /\ plan' = [plan EXCEPT ![p] = <<>>]
  /\ UNCHANGED <<files, hand, job, opened, scan, history, bounds>>

-----------------------------------------------------------------------------
(* Commands of a session.  One that raises before its first save changes   *)
(* nothing and has no action.                                              *)

Idle(p) == job[p] = "idle" /\ plan[p] = <<>>

\* A command that runs in a process of its own.
Fresh(p) == Idle(p) /\ hand[p] = None

Starts(p, command) ==
  /\ p \in Sessions /\ command \in Commands
  /\ ops < MaxOps /\ ops' = ops + 1
  /\ UNCHANGED crashes

Saves(p, saves) == plan' = [plan EXCEPT ![p] = saves]

\* start_goal, or intake --promote: the goal is saved, over an earlier goal
\* of the same title and request.  The Demand is never read again.
StartGoal(p, g, b) ==
  /\ Starts(p, "goal") /\ Fresh(p)
  /\ Saves(p, <<GoalSave(g, b)>>)
  /\ UNCHANGED <<files, hand, job, opened, scan, history>>

ProposalDecision(g, action, t) ==
  [goal |-> g, action |-> action, task |-> t, attempt |-> None,
   check |-> "none", evidence |-> {}]

\* propose_task: stopped by the budget, without a matching expert, waiting
\* for an approval, or a new task that replaces one with the same id.
ProposeRefused(p, g, spec) ==
  /\ Starts(p, "propose") /\ Fresh(p) /\ Readable(goals[g])
  /\ \E action \in {"stop_budget", "mark_blocked", "request_approval"} :
       /\ (action = "stop_budget") <=> should_stop_for_budget(goals[g])
       /\ action = "request_approval" => _is_high_risk(spec)
       /\ Saves(p, <<DecisionSave(ProposalDecision(g, action, None))>>)
  /\ UNCHANGED <<files, hand, job, opened, scan, history>>

\* Fault: proposing a task again keeps the progress of the earlier one.
ProposeTask_KeepsState(p, t, spec) ==
  LET g == GoalOf[t]
      task == IF Readable(tasks[t]) THEN [tasks[t] EXCEPT !.spec = spec]
              ELSE [id |-> t, status |-> "pending", latest |-> None,
                    spec |-> spec]
  IN
  /\ Starts(p, "propose") /\ Fresh(p) /\ Readable(goals[g])
  /\ ~should_stop_for_budget(goals[g]) /\ ~_is_high_risk(spec)
  /\ hand' = [hand EXCEPT ![p] = task]
  /\ Saves(p, <<TaskSave(task)>>)
  /\ UNCHANGED <<files, job, opened, scan, history>>

ProposeTask(p, t, spec) ==
  LET g == GoalOf[t]
      task == [id |-> t, status |-> "pending", latest |-> None, spec |-> spec]
  IN
  /\ Starts(p, "propose") /\ Fresh(p) /\ Readable(goals[g])
  /\ ~should_stop_for_budget(goals[g]) /\ ~_is_high_risk(spec)
  /\ hand' = [hand EXCEPT ![p] = task]
  /\ Saves(p, <<TaskSave(task),
                DecisionSave(ProposalDecision(g, "create_task", t))>>)
  /\ UNCHANGED <<files, job, opened, scan, history>>

\* store.load("Task", t): the session now holds a copy of the file.
LoadTask(p, t) ==
  /\ p \in Sessions /\ Fresh(p) /\ "load" \in Commands /\ Readable(tasks[t])
  /\ hand' = [hand EXCEPT ![p] = tasks[t]]
  /\ UNCHANGED <<files, job, plan, opened, scan, history, bounds>>

DropTask(p) ==
  /\ p \in Sessions /\ Idle(p) /\ hand[p] # None
  /\ hand' = [hand EXCEPT ![p] = None]
  /\ UNCHANGED <<files, job, plan, opened, scan, history, bounds>>

\* submit_attempt on the copy in hand.  The task is saved before the attempt
\* that it names.
SubmitAttempt(p, status, summary, evidence) ==
  LET a == [task |-> hand[p].id, status |-> status, summary |-> summary]
      task == [hand[p] EXCEPT !.status = "submitted", !.latest = a]
  IN
  /\ Starts(p, "submit") /\ Idle(p) /\ hand[p] # None
  /\ CanMoveThrough(hand[p].status, "running", "submitted")
  /\ hand' = [hand EXCEPT ![p] = task]
  /\ Saves(p, <<TaskSave(task), AttemptSave(a, evidence)>>)
  /\ UNCHANGED <<files, job, opened, scan, history>>

\* accept_task on the copy in hand, which it changes in place: the
\* requester's sign-off.
AcceptTask(p) ==
  LET task == [hand[p] EXCEPT !.status = "accepted"]
  IN
  /\ Starts(p, "accept") /\ Idle(p) /\ hand[p] # None
  /\ CanMove(hand[p].status, "accepted")
  /\ hand' = [hand EXCEPT ![p] = task]
  /\ Saves(p, <<TaskSave(task)>>)
  /\ signedOff' = signedOff \union {<<task.id, task.spec>>}
  /\ UNCHANGED <<files, job, opened, scan, earned, lost>>

\* run-workflow-task: load, risk check, transition in memory, then the
\* subprocess, which runs for up to 1200 seconds.
RunWorkflow(p, t) ==
  /\ Starts(p, "workflow") /\ Fresh(p) /\ Readable(tasks[t])
  /\ tasks[t].spec.permissions \intersect SYSTEM_RISK_PERMISSIONS = {}
  /\ \/ CanMoveThrough(tasks[t].status, "running", "submitted")
     \/ CanMove(tasks[t].status, "submitted")
     \/ tasks[t].status = "submitted"
  /\ hand' = [hand EXCEPT ![p] = [tasks[t] EXCEPT !.status = "submitted"]]
  /\ job' = [job EXCEPT ![p] = "workflow"]
  /\ UNCHANGED <<files, plan, opened, scan, history>>

\* Fault: a failed workflow leaves no attempt behind.
FinishWorkflow_NoFailures(p, status) ==
  LET a == [task |-> hand[p].id, status |-> status,
            summary |-> WorkflowSummary]
      task == TaskSave([hand[p] EXCEPT !.latest = a])
  IN
  /\ job[p] = "workflow"
  /\ Saves(p, IF status = "failed" THEN <<task>>
              ELSE <<task, AttemptSave(a, {WorkflowItem})>>)
  /\ job' = [job EXCEPT ![p] = "idle"]
  /\ hand' = [hand EXCEPT ![p] = None]
  /\ UNCHANGED <<files, opened, scan, history, bounds>>

FinishWorkflow(p, status) ==
  LET a == [task |-> hand[p].id, status |-> status,
            summary |-> WorkflowSummary]
      task == [hand[p] EXCEPT !.latest = a]
  IN
  /\ job[p] = "workflow"
  /\ Saves(p, <<TaskSave(task), AttemptSave(a, {WorkflowItem})>>)
  /\ job' = [job EXCEPT ![p] = "idle"]
  /\ hand' = [hand EXCEPT ![p] = None]
  /\ UNCHANGED <<files, opened, scan, history, bounds>>

\* TimeoutExpired is not caught: the run leaves no trace on the task.
WorkflowTimeout(p) ==
  /\ job[p] = "workflow"
  /\ job' = [job EXCEPT ![p] = "idle"]
  /\ hand' = [hand EXCEPT ![p] = None]
  /\ UNCHANGED <<files, plan, opened, scan, history, bounds>>

-----------------------------------------------------------------------------
(* Reviews: the review-attempt command and the supervisor's tick.          *)

ReviewDecision(r, a, evidence) ==
  LET b == goals[GoalOf[r.id]]
      feedback == Feedback(b, r.spec, a.status, evidence)
  IN [goal |-> GoalOf[r.id],
      action |-> ReviewAction(b, r.spec, a.status, evidence),
      task |-> r.id, attempt |-> a,
      check |-> feedback.check, evidence |-> feedback.evidence]

\* What the requester asked for, said without the code's check: the attempt
\* reports success, brings something when evidence is required, and answers
\* to every expected label.
MeetsAcceptance(spec, a, evidence) ==
  /\ a.status = "succeeded"
  /\ spec.required => evidence # {}
  /\ spec.expected \subseteq UNION evidence

\* Fault: the decision is saved only when it closes the task.
Review_FewDecisions(p, r, a) ==
  LET d == ReviewDecision(r, a, attempts[a])
      updated == TaskSave([r EXCEPT !.status = Reviewed(r.status, d.action)])
  IN
  /\ Readable(goals[GoalOf[r.id]]) /\ Readable(attempts[a])
  /\ a.task = r.id
  /\ CanReview(r.status, d.action)
  /\ Saves(p, IF d.action = "create_task" THEN <<updated>>
              ELSE <<updated, DecisionSave(d)>>)
  /\ earned' = IF MeetsAcceptance(r.spec, a, attempts[a])
               THEN earned \union {<<r.id, r.spec>>} ELSE earned

\* review_attempt on the copy r of the task, with goal and attempt as they
\* are on disk now; the task is saved before the decision.
Review(p, r, a) ==
  LET d == ReviewDecision(r, a, attempts[a])
      updated == [r EXCEPT !.status = Reviewed(r.status, d.action)]
  IN
  /\ Readable(goals[GoalOf[r.id]]) /\ Readable(attempts[a])
  /\ a.task = r.id
  /\ CanReview(r.status, d.action)
  /\ Saves(p, <<TaskSave(updated), DecisionSave(d)>>)
  /\ earned' = IF MeetsAcceptance(r.spec, a, attempts[a])
               THEN earned \union {<<r.id, r.spec>>} ELSE earned

\* workspace.review_attempt on the copy in hand, which it changes in place;
\* with empty hands it is the review-attempt command, which loads the task.
\* Neither looks at the task's latest attempt.
ReviewAttempt(p, a) ==
  LET r == IF hand[p] = None THEN tasks[a.task] ELSE hand[p] IN
  /\ Starts(p, "review") /\ Idle(p)
  /\ hand[p] = None => Readable(tasks[a.task])
  /\ Review(p, r, a)
  /\ hand' = [hand EXCEPT ![p] = IF @ = None THEN None
                                 ELSE Head(plan'[p]).task]
  /\ UNCHANGED <<files, job, opened, scan, signedOff, lost>>

\* supervisor_tick lists the decisions; a truncated one aborts it here.
TickBegin(p, quota) ==
  /\ p \in Cron /\ Fresh(p) /\ spoiled = {}
  /\ job' = [job EXCEPT ![p] = "tick"]
  /\ scan' = [scan EXCEPT ![p] =
       [NoScan EXCEPT !.seen = {d.attempt : d \in decisions} \ {None},
                      !.room = quota]]
  /\ UNCHANGED <<files, hand, plan, opened, history, bounds>>

\* list_objects("Task"): the names first, then the files one by one.
TickGlob(p) ==
  /\ job[p] = "tick"
  /\ job' = [job EXCEPT ![p] = "reading"]
  /\ scan' = [scan EXCEPT ![p].names = {t \in Tasks : tasks[t] # Absent}]
  /\ UNCHANGED <<files, hand, plan, opened, history, bounds>>

Reading(p, t) ==
  /\ job[p] = "reading"
  /\ t \in scan[p].names /\ \A u \in scan[p].names : t <= u

TickRead(p) ==
  \E t \in scan[p].names :
    /\ Reading(p, t) /\ Readable(tasks[t])
    /\ scan' = [scan EXCEPT ![p].names = @ \ {t},
                            ![p].batch = @ \union {tasks[t]}]
    /\ UNCHANGED <<files, hand, job, plan, opened, history, bounds>>

\* The copies are taken in the order of the file names, up to the quota.
Reviewing(p, r) ==
  /\ job[p] = "reading" /\ plan[p] = <<>> /\ scan[p].names = {}
  /\ r \in scan[p].batch /\ \A s \in scan[p].batch : r.id <= s.id
  /\ scan[p].room # 0

\* Fault: the attempts of earlier decisions are not left out.
Unreviewed_Again(p, r) == r.status = "submitted" /\ r.latest # None

Unreviewed(p, r) ==
  /\ r.status = "submitted" /\ r.latest # None
  /\ r.latest \notin scan[p].seen

\* Fault: skipped tasks count against max_reviews.
TickSkip_Counted(p) ==
  \E r \in scan[p].batch :
    /\ Reviewing(p, r) /\ ~Unreviewed(p, r)
    /\ scan' = [scan EXCEPT
         ![p].batch = @ \ {r},
         ![p].room = IF @ = None THEN None ELSE @ - 1]
    /\ UNCHANGED <<files, hand, job, plan, opened, history, bounds>>

TickSkip(p) ==
  \E r \in scan[p].batch :
    /\ Reviewing(p, r) /\ ~Unreviewed(p, r)
    /\ scan' = [scan EXCEPT ![p].batch = @ \ {r}]
    /\ UNCHANGED <<files, hand, job, plan, opened, history, bounds>>

TickReview(p) ==
  \E r \in scan[p].batch :
    /\ Reviewing(p, r) /\ Unreviewed(p, r)
    /\ Review(p, r, r.latest)
    /\ scan' = [scan EXCEPT
         ![p].batch = @ \ {r},
         ![p].seen = @ \union {r.latest},
         ![p].room = IF @ = None THEN None ELSE @ - 1]
    /\ UNCHANGED <<files, hand, job, opened, signedOff, lost, bounds>>

TickReturns(p) ==
  /\ job' = [job EXCEPT ![p] = "idle"]
  /\ scan' = [scan EXCEPT ![p] = NoScan]
  /\ UNCHANGED <<files, hand, plan, opened, history, bounds>>

TickEnd(p) ==
  /\ job[p] = "reading" /\ plan[p] = <<>> /\ scan[p].names = {}
  /\ scan[p].batch = {} \/ scan[p].room = 0
  /\ TickReturns(p)

\* The copy whose goal or attempt cannot be loaded: the exception ends the
\* tick, the tasks after it are not looked at.
Stuck(p, r) ==
  /\ Reviewing(p, r) /\ Unreviewed(p, r)
  /\ ~Readable(goals[GoalOf[r.id]]) \/ ~Readable(attempts[r.latest])

TickAbort(p) ==
  /\ \/ \E t \in scan[p].names : Reading(p, t) /\ ~Readable(tasks[t])
     \/ \E r \in scan[p].batch : Stuck(p, r)
  /\ TickReturns(p)

-----------------------------------------------------------------------------
\* The saves a process has still to make or to finish.
PendingOf(p) == {plan[p][i] : i \in DOMAIN plan[p]}

\* A process is killed: its saves and its copies are gone, the files stay.
Crash(p) ==
  /\ ~Fresh(p) /\ crashes < MaxCrashes
  /\ crashes' = crashes + 1
  /\ lost' = lost \union PendingOf(p)
  /\ plan' = [plan EXCEPT ![p] = <<>>]
  /\ opened' = [opened EXCEPT ![p] = FALSE]
  /\ job' = [job EXCEPT ![p] = "idle"]
  /\ hand' = [hand EXCEPT ![p] = None]
  /\ scan' = [scan EXCEPT ![p] = NoScan]
  /\ UNCHANGED <<files, earned, signedOff, ops>>

Command(p) ==
  \/ \E g \in Goals, b \in Budgets : StartGoal(p, g, b)
  \/ \E g \in Goals, spec \in Specs : ProposeRefused(p, g, spec)
  \/ \E t \in Tasks, spec \in Specs : ProposeTask(p, t, spec)
  \/ \E t \in Tasks : LoadTask(p, t) \/ RunWorkflow(p, t)
  \/ DropTask(p)
  \/ \E status \in Outcomes, summary \in Summaries, ev \in SUBSET Items :
       SubmitAttempt(p, status, summary, ev)
  \/ AcceptTask(p)
  \/ \E a \in AttemptIds : ReviewAttempt(p, a)

SaveStep(p) == Truncate(p) \/ Write(p) \/ SaveRefused(p)

WorkflowStep(p) ==
  \/ \E status \in {"succeeded", "failed"} : FinishWorkflow(p, status)
  \/ WorkflowTimeout(p)

TickStart(p) == \E quota \in Quotas : TickBegin(p, quota)

TickStep(p) ==
  TickGlob(p) \/ TickRead(p) \/ TickSkip(p) \/ TickReview(p) \/ TickAbort(p)
  \/ TickEnd(p)

Next ==
  \E p \in Procs : \/ Command(p) \/ SaveStep(p) \/ WorkflowStep(p)
                   \/ TickStart(p) \/ TickStep(p) \/ Crash(p)

Spec == Init /\ [][Next]_vars

\* What has been started goes on, and the scheduler starts ticks for ever;
\* nobody has to type a command, and no process has to be killed.
Fairness ==
  \A p \in Procs : /\ WF_vars(SaveStep(p)) /\ WF_vars(WorkflowStep(p))
                   /\ WF_vars(TickStep(p)) /\ WF_vars(TickStart(p))

FairSpec == Spec /\ Fairness

-----------------------------------------------------------------------------
(* Properties.                                                             *)

SaveSet == [kind : {"Goal"}, goal : Goals, budget : Budgets]
           \union [kind : {"Task"}, task : TaskRecords]
           \union [kind : {"Attempt"}, attempt : AttemptIds, evidence : Evidence]
           \union [kind : {"LoopDecision"}, decision : Decisions]

\* Every file is parseable, damaged or absent, and every local of a process
\* has the shape the code gives it.
TypeOK ==
  /\ goals \in [Goals -> Budgets \union Unreadable]
  /\ tasks \in [Tasks -> TaskRecords \union Unreadable]
  /\ attempts \in [AttemptIds -> Unreadable \union Evidence]
  /\ decisions \subseteq Decisions /\ spoiled \subseteq Decisions
  /\ hand \in [Procs -> TaskRecords \union {None}]
  /\ job \in [Procs -> {"idle", "workflow", "tick", "reading"}]
  /\ plan \in [Procs -> Seq(SaveSet)]
  /\ opened \in [Procs -> BOOLEAN]
  /\ scan \in [Procs -> Scans]
  /\ earned \subseteq Tasks \X Specs /\ signedOff \subseteq Tasks \X Specs
  /\ lost \subseteq SaveSet
  /\ ops \in 0..MaxOps /\ crashes \in 0..MaxCrashes

\* A running workflow has its task in hand.
WorkflowHasTask == \A p \in Procs : job[p] = "workflow" => hand[p] # None

\* A task record is backed when accept_task was called for it, or when no
\* human gate is set and a reviewed attempt met its acceptance.
Backed(r) ==
  \/ <<r.id, r.spec>> \in signedOff
  \/ <<r.id, r.spec>> \in earned /\ ~r.spec.human

Earned(r) == r.status = "accepted" => Backed(r)

\* However the stale copies of several processes overwrite each other, a task
\* file says accepted only for the acceptance terms under which the task was
\* reviewed or signed off (review_attempt, accept_task, supervisor_tick).
AcceptanceIsEarned ==
  \A t \in Tasks : Readable(tasks[t]) => Earned(tasks[t])

\* The same of every copy a process holds, which it may save later over
\* whatever the file says by then: the object in a session's hand, the tasks
\* a tick has listed, the saves still to be made.
CopiesAreEarned ==
  \A p \in Procs :
    /\ hand[p] # None => Earned(hand[p])
    /\ \A r \in scan[p].batch : Earned(r)
    /\ \A i \in DOMAIN plan[p] :
         plan[p][i].kind = "Task" => Earned(plan[p][i].task)

\* A decision that explains the status of task t, as a review makes it.
Explains(d, t) ==
  /\ d.task = t /\ d.attempt # None
  /\ d.action \in DOMAIN Target /\ Target[d.action] = tasks[t].status

\* The saves that are owed to the files: a live process is about to make or
\* to finish them, or was killed before it had.
Owed == lost \union UNION {PendingOf(p) : p \in Procs}

\* A task file that shows a verdict has a decision file that explains it, or
\* one about to be written, or the very save of one died with its process:
\* the decision is saved second (workspace.review_attempt) and may be
\* rewritten later.  Nothing but a kill between the two saves takes it away.
VerdictIsRecorded ==
  \A t \in Tasks :
    Readable(tasks[t]) /\ tasks[t].status \in {"accepted", "rejected", "blocked"}
    => \/ tasks[t].status = "accepted" /\ <<t, tasks[t].spec>> \in signedOff
       \/ \E d \in decisions : Explains(d, t)
       \/ \E save \in Owed : save.kind = "LoopDecision"
                            /\ Explains(save.decision, t)

\* The attempt that a task file names exists, or its submitter is about to
\* save it, or was killed before it could: the attempt is saved second
\* (submit_attempt, run-workflow-task).  A summary that the store refuses is
\* the one other way to leave a task without its attempt.
SubmittedHasAttempt ==
  \A t \in Tasks :
    Readable(tasks[t]) /\ tasks[t].latest # None /\ tasks[t].latest.summary # ""
    => \/ attempts[tasks[t].latest] # Absent
       \/ \E ev \in Evidence : AttemptSave(tasks[t].latest, ev) \in Owed

\* One attempt gets one decision, however ticks are cut short by crashes and
\* quotas and however often the attempt is named again (supervisor_tick).
ReviewedOnce ==
  \A d, e \in decisions : d.attempt = e.attempt /\ d.attempt # None => d = e

\* When commands do not overlap, an accepted task that nobody signed off has
\* on disk an attempt that meets the terms on disk.
AcceptedIsOnRecord ==
  \A t \in Tasks :
    /\ Readable(tasks[t]) /\ tasks[t].status = "accepted"
    /\ <<t, tasks[t].spec>> \notin signedOff
    => \E a \in AttemptIds :
         /\ a.task = t /\ Readable(attempts[a])
         /\ MeetsAcceptance(tasks[t].spec, a, attempts[a])

-----------------------------------------------------------------------------
(* The abstract board of task statuses that a workspace stands for.        *)

\* A file that its only writer has truncated shows what is being written.
Status(t) ==
  IF tasks[t] = Absent THEN "absent"
  ELSE IF Readable(tasks[t]) THEN tasks[t].status
  ELSE IF \E p \in Procs : opened[p] /\ Head(plan[p]).kind = "Task"
                                     /\ Head(plan[p]).task.id = t
  THEN Head(plan[CHOOSE p \in Procs : opened[p] /\ Head(plan[p]).kind = "Task"
                                     /\ Head(plan[p]).task.id = t]).task.status
  ELSE "corrupt"

Board == INSTANCE TaskBoard WITH board <- [t \in Tasks |-> Status(t)]

\* Used by one process at a time the files behave as a board of statuses,
\* over crashes and damaged files included.
BoardSpec == Board!Spec

-----------------------------------------------------------------------------
\* A task file left in two overlapping writes; nothing repairs it.
Damaged ==
  \/ \E g \in Goals : goals[g] = Garbled
  \/ \E t \in Tasks : tasks[t] = Garbled
  \/ \E a \in AttemptIds : attempts[a] = Garbled

Decided(a) == \E d \in decisions : d.attempt = a

\* While no process is killed, every submission is answered by a decision
\* about it or taken off the desk by a later command, unless two overlapping
\* writes leave a file that cannot be parsed (supervisor_tick).
SubmissionIsAnswered ==
  \A t \in Tasks, a \in AttemptIds :
    (Readable(tasks[t]) /\ tasks[t].status = "submitted" /\ tasks[t].latest = a)
    ~> \/ Decided(a) \/ Damaged
       \/ Readable(tasks[t])
          /\ (tasks[t].status # "submitted" \/ tasks[t].latest # a)

-----------------------------------------------------------------------------
(* What the repository says of the workspace, and the files do not keep.   *)

\* docs/implementation-checklist.md: "Filesystem workspace skips tasks
\* without a submitted latest attempt."  A tick that meets a submitted task
\* whose attempt was never saved must not be stopped by it.
MissingAttemptIsSkipped ==
  \A p \in Procs : \A r \in scan[p].batch :
    Stuck(p, r) => attempts[r.latest] # Absent

\* lifecycle.py, TASK_TRANSITIONS: nothing follows accepted.  A task file that
\* says accepted is rewritten only as accepted, or by a new proposal.
AcceptedIsFinal ==
  [][\A t \in Tasks :
       Readable(tasks[t]) /\ tasks[t].status = "accepted" /\ tasks'[t] # tasks[t]
       => \E p \in Procs :
            /\ plan[p] # <<>> /\ Head(plan[p]).kind = "Task"
            /\ Head(plan[p]).task.id = t
            /\ \/ Head(plan[p]).task.status = "accepted"
               \/ Head(plan[p]).task.latest = None]_vars

\* docs/v0-readiness.md: "`supervisor-tick` can scan submitted tasks and
\* review unreviewed latest attempts."  With a funded goal and no human gate
\* a submission does not stay submitted for ever.
SubmissionIsSettled ==
  \A t \in Tasks, a \in AttemptIds :
    (Readable(tasks[t]) /\ tasks[t].status = "submitted" /\ tasks[t].latest = a)
    ~> \/ Damaged
       \/ Readable(tasks[t])
          /\ (tasks[t].status # "submitted" \/ tasks[t].latest # a)
=============================================================================
