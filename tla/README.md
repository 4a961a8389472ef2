# Verification of the Agent Delivery Loop

TLA+ models of this repository's program, TLC configurations that check them on
small instances, and theorems about them that TLAPS proves for every instance.

1. [The system](#the-system)
2. [The modules](#the-modules)
3. [The core: DeliveryLoop](#the-core-deliveryloop)
4. [Notifications: Outbox](#notifications-outbox)
5. [Paths: GovernedTask](#paths-governedtask)
6. [Requests: FrontDesk and Listener](#requests-frontdesk-and-listener)
7. [Experts, approvals, health: Records](#experts-approvals-health-records)
8. [The runs](#the-runs)
9. [Fairness](#fairness)
10. [The proofs](#the-proofs)
11. [Where code and documents disagree](#where-code-and-documents-disagree)
12. [What is not modelled](#what-is-not-modelled)
13. [Plan](#plan)

`PROJECT.json` has the same in tables: components, runs, the source lines of
every definition (`map`), hazards by line, theorems, and for each property a
plausible bug in the code that breaks it (`mutants`; the definitions with
*Fault* in their comment).

## The system

A requester's wish becomes a *goal*, a supervisor proposes *tasks* for it, experts
submit *attempts* at a task, the supervisor reviews them and records a
*decision*. Nothing runs all the time: every operation is a short command on a
directory of JSON files, started by people, by agents or by cron, and none of
them takes a lock. What is hard about the system follows from that.

| component | state it keeps | operations | talks to |
| --- | --- | --- | --- |
| lifecycle, budget, permissions, routing (`delivery-core`) | none | pure functions | called by all others |
| filesystem store and workspace | one file per goal, task, attempt, decision, expert; event log | save, load, list; start goal, propose, submit, accept, review, tick | shared directory |
| supervisor SDK | none | propose a task, review an attempt, reroute to an owner | called by workspace and CLI with an evaluator of paths |
| expert SDK | none | build an attempt, assign its id | called by workspace and runtime |
| workflow runner (`adl_runtime.py`) | its copy of a task, for up to 1200 s | load, check, run the subprocess, save task and attempt | shared directory, subprocess, path check |
| supervisor tick cron | none between runs | run a tick, give it 300 s | shared directory |
| path governance check | a rule file, read at each check | check paths for an actor | called by proposal (through its caller) and runner |
| notification outbox | outbox, outbox-sent, outbox-failed, thread bindings | enqueue, send | `lark-cli`, a chat |
| requester intake | assessments, demands, goals | classify, promote, ingest | shared directory |
| Feishu listener, its poller and watchdog | a pid file, a log | relay events to ingestion; start a listener for a while, or when none is alive | `lark-cli`, processes |
| human approval | an approval object in memory | create, approve, reject | its caller |
| registry health | none between runs | register the default experts anew, report | shared directory |
| framework operation plans | none | derive paths, check a request | path check |
| other health reports, cron wrappers, payload adapters, schemas | none | read and print | - |

What makes each hard, and what makes it correct:

* **Store and workspace.** `write_text` truncates a file and then writes it; an
  operation saves two files one after the other; every process works on copies
  it read earlier. Correct means: a task is accepted only for terms an attempt
  was found to meet, or that someone signed off; a verdict comes with its
  decision, a named attempt with its file; an attempt gets one decision; every
  submission is answered; used one command at a time the directory is a board of
  statuses that obeys the lifecycle table.
* **Runner.** A subprocess that may time out sits between reading a task and
  saving it. Correct means: it never launches a workflow its actor may not run,
  and what it saves later does no harm.
* **Proposal and path governance.** A task is handed to another expert in the
  middle of a proposal, under rules that may change before it runs. Correct
  means: what is created was allowed to the actor it was created for, what is
  blocked had no way out, and the two checks agree as long as the rules are the
  same.
* **Outbox.** `lark-cli` may deliver and then fail; two senders may overlap; an
  enqueue may rewrite what is being sent. Correct means: what is filed as sent
  was delivered, once per enqueue; a goal has one thread; every note leaves the
  outbox.
* **Intake.** Three saves, and a process that may end between any two, while the
  same request is taken in elsewhere. Correct means: a goal has its demand and an
  assessment that explains it, and a demand gets its goal.
* **Listener, watchdog.** Events that are dropped; a child that has ended before
  its output is read, or that never ends; a process started before its pid is on
  disk; pids used again. Correct means: one kept listener, a summary that says
  *ok* only when nothing is missing, every message settled.
* **Approval.** Two copies of one pending request. Correct means: what says
  *approved* was approved in the context it says.
* **Registry.** Experts registered by many, some while files are damaged. Correct
  means: a report that says *ok* is true, and the daily replay repairs.
* **Routing, operation plans.** Pure, but made of tables that must agree. Correct
  means: no expert is passed over who is better in every respect, and an accepted
  plan is about its own operation.

## The modules

```
Lifecycle            the table of task statuses
  Review             the review of one attempt, the budget test, the gates
    DeliveryLoop     the workspace and its processes
      DeliveryLoopProofs        MCDeliveryLoop
        DecisionProofs
    GovernedTask     proposal and run of a task that writes governed paths
      GovernedTaskProofs
      Planning       the choice of an expert and the plan of an operation before it
        PlanningProofs          MCGovernedTask
  TaskBoard          the abstract board that DeliveryLoop implements
PathGovernance       rules and the check of a list of paths (used by GovernedTask)
  OperationPlan      the request check and the paths of a framework operation
Routing              scores of experts
Outbox               enqueuing and sending notifications
      OutboxProofs              MCOutbox
  Delivery           the abstract channel that Outbox implements
Store                files that processes save without locks
Intake               what a request is taken for
  FrontDesk          (Store, Intake) the saves of an intake
      FrontDeskProofs           lemmas for the two modules below
    Listener         listeners, watchdog and pollers that feed it
      ListenerProofs            MCListener
    Records          intake beside experts, health and approvals
      RecordsProofs             MCRecords
```

`Review`, `PathGovernance`, `OperationPlan`, `Routing` and `Intake` are pure:
operators on one budget, spec, attempt, path, request or text, which the state
machines call at the place where the code calls the function. `MC*` modules give
values to constants and define nothing else.
No module declares a RECURSIVE operator, so all can be reasoned about.

## The core: DeliveryLoop

### State

| variable | code |
| --- | --- |
| `goals`, `tasks`, `attempts` | the files of a kind; a file holds a value, or is `Absent`, `Truncated` (opened and not yet written) or `Garbled` (the end of a longer text behind a shorter one) |
| `decisions`, `spoiled` | decision files that can be parsed, and truncated ones. A decision's name is the hash of its content, so the file *is* its content |
| `hand[p]` | the task object of a session: what `propose_task` returned or `load` read, however old |
| `job[p]` | idle, in a workflow, or in a tick (before or after it listed the tasks) |
| `plan[p]`, `opened[p]` | the saves a command has still to do; whether the first has truncated its file |
| `scan[p]` | locals of a tick: attempts already reviewed, names to read, copies read, reviews left |
| `earned`, `signedOff` | history: task and terms for which a reviewed attempt met the acceptance, or for which `accept_task` was called |
| `lost` | history: the saves that died with a killed process |
| `ops`, `crashes` | bounds |

`GoalOf`, and the order of task numbers, stand for what is hashed into the ids
and for the sorted file names. A budget is three numbers, a spec the permissions
that are on and the terms of acceptance. The id of an attempt is the record of
what the code hashes: task, status, summary (the summary tells the runner's
attempts apart), and not the evidence.

### Actions

| action | code |
| --- | --- |
| `Truncate`, `Write`, `SaveRefused` | `FilesystemStore.save`: `validate_object`, then `write_text` |
| `StartGoal`, `ProposeTask`, `ProposeRefused` | `start_goal`; `propose_task` with its outcomes |
| `LoadTask`, `DropTask` | a caller reads a task, or forgets it |
| `SubmitAttempt`, `AcceptTask`, `ReviewAttempt` | the methods on the caller's copy, and the `review-attempt` command |
| `RunWorkflow`, `FinishWorkflow`, `WorkflowTimeout` | `run-workflow-task` before, after and instead of the end of its subprocess |
| `TickBegin`, `TickGlob`, `TickRead` | `supervisor_tick` lists decisions, then task names, then reads the files one by one |
| `TickSkip`, `TickReview`, `TickEnd`, `TickAbort` | its loop: skip, review, reach the end or the quota, or fail on a file it cannot load |
| `Crash` | a kill, or the 300 s of the cron wrapper |

A command's guard and the content of its saves are computed in one step, from
the files as they are then; each save is two more steps, in which other
processes may come between. A command that raises before its first save changes
nothing, and has no action. The listing of decisions is one step: decisions are
only ever added, and an older list only makes a tick review an attempt again,
which overlapping ticks do anyway.

### Abstractions

* A file is written by one write; texts longer than a buffer are not split.
* `Garbled` is what two overlapping writes of *different* texts may leave. Which
  of the texts is longer is not modelled, so it always may.
* Whether an expert matches a proposal is nondeterministic here: scores and
  ranking are in `GovernedTask`.
* `goals` are read when a task is proposed, not held from an earlier load.
* `created_at`, the event log, demands, experts and the status of a goal (which
  no code changes) are left out: nobody reads them to decide anything.

### Properties

`AcceptanceIsEarned` and `CopiesAreEarned` are the heart: however the stale copies of
several processes overwrite each other, neither a file nor a copy that may be
saved later says *accepted* without a review that met, or a sign-off given for,
the very terms in it. "Met" is `MeetsAcceptance`, which is stated from what the
requester asks and not with the code's check. `ReviewedOnce` is what the set of
reviewed attempts in a tick is for. `VerdictIsRecorded` and
`SubmittedHasAttempt` say that the second of two saves arrives, or is *owed*: a
process is still going to make it, or was killed before it could. `lost` remembers
which saves that were, so the two hold over kills as well, and a kill excuses
just the save it cut off and no other. `AcceptedIsOnRecord` says that without overlap the evidence on disk itself
meets the terms on disk. `SubmissionIsAnswered` is the liveness of the tick, with
a quota that could starve later tasks. Its escape `Damaged` is a file left
`Garbled`: nothing repairs one, and every tick ends at it.

`TaskBoard` is what people who run one command at a time may expect: one status
per task, moves along the table, no passing states, a settled task that moves
only when proposed anew, and a crash that may spoil a card until it is proposed
again. `BoardSpec` is `TaskBoard!Spec` under the mapping `Status`, which shows a
truncated file as what its writer is about to write.

## Notifications: Outbox

### State and actions

| variable | code |
| --- | --- |
| `outbox[n]`, `sent`, `failed` | the three directories. The name of a file is the hash of its payload: payload and file are one number, in the order of the names |
| `binding[g]` | `conversations/goals/<goal>.json`: the id of the root message |
| `chat` | external: messages delivered, whose index is their id |
| `writing`, `moved` | an open `write_text` of an enqueuer, and whether a sender has moved that file meanwhile: the writer then completes the moved file |
| `run[s]` | locals of one `notify-send-outbox` |
| `order`, `unbound`, `unmoved` | history: enqueues; roots whose id was lost; messages whose sender ended before it moved the note |

`EnqueueOpen`/`EnqueueWrite` are the two halves of the enqueue's write. `SendBegin`
lists the outbox and cuts it at `--limit`; for each path `SendRead` parses the
file, `SendBind` reads the binding and decides between root and reply, one of
`CallSucceeds`, `CallHidesId`, `CallFails` and `CallTimesOut` is the call of
`lark-cli` (external: it delivers or not, whatever it reports), `BindOpen` and
`BindWrite` save the binding of a new root, and `SendMove` files the note.
`CrashEnqueuer` and `CrashSender` kill a process between any two.

### Abstractions

* `shutil.move` is a rename, as it is within one file system.
* Bindings have texts of one length (ids and times of fixed width), so of two
  writers the later one wins and nothing is garbled.
* A negative `--limit` is not modelled. An enqueue whose goal or target cannot be
  resolved changes nothing.
* `direct` stands for every target without `thread_per_goal`.

### Properties

`SentWasDelivered` and `RepliesFollowTheirRoot` hold for any number of senders, and
so does `ChannelSpec`: the outbox implements `Delivery`, a channel in which a note
waits until it is filed as sent, which takes that it was received, or as failed,
and nobody receives what nobody asked for. The mapping shows every file in
`outbox/`, an empty one too, as waiting.
`DeliveredOnce` and `OneThreadPerGoal` hold for one sender and say exactly which
faults are excused: a delivery after which the sender ended before the move, and
a root whose id was lost before the binding was on disk. `NoteIsHandled` is
liveness: a whole note leaves the outbox unless a crash left a file that no run
can parse (`Damaged`: an empty note that nobody is writing any more, or a
truncated binding) - every run ends at such a file and nothing removes it.

## Paths: GovernedTask

`PathGovernance` is the check of a list of paths by a list of rules: the rule with
the longest matching pattern, its allowed profiles, its delegate. A path is a
sequence of names in which a doubled or trailing slash is an empty name (which
`normalize_path` removes), and `/` is the path of no names; a pattern is a
directory or `directory/**`, the two forms the rule files use (for `fnmatch` the
pattern `/**` matches `/` too); names keep their number of characters, because the
choice is by the length of the text.

`GovernedTask` has the rule file (`config`), the registered experts, the task
files as far as governance reads them, the workflows under way, and two
histories: the proposals that created a task and the workflows launched. Actions:
`EditConfig` and `RegisterExpert` (the environment), `Propose` (all of
`propose_next_task` with its reroute to the owner), `RunWorkflow` (load, risk
check, preflight, launch), `FinishWorkflow` (saves the copy it loaded, over
whatever a newer proposal wrote) and `WorkflowTimeout`.

The library takes its evaluator of paths from its caller, and only tests in the
repository pass one. It is modelled as `check_paths` for the actor `loop.py`
itself names: the `actor_profile` of the spec, or else the expert it asks about.
With `evaluator = FALSE` there is none. Scores are chosen freely, the ranking by
them is the code's. Statuses and attempts are not here but in `DeliveryLoop`.

`TasksWereAccepted`: whatever is on disk or in a runner's memory was created by a
proposal of just those planned paths, all allowed, by the rules of that moment,
to the actor it was created for. `RunsAreCovered`: a workflow is launched only
when the rules of *its* moment allow its actor every planned path and every path
from the command line. `ChecksAgree`: under unchanged rules a task that names its
actor passes the runner's preflight. `BlockedHasNoRoute`: no proposal for the
selected expert is blocked while some registered expert could take it over.
`DeeperRuleWins`: choosing by length means choosing the deeper directory, for
names longer than `**`; a last name of one or two characters does not outweigh
the `/**` of its directory, which is the reason for that condition. The run has a
file on each side of it, one whose name has two characters and one whose name
has three.

### Routing, OperationPlan, Planning

`Routing` has the five weights of `score_expert`; which words of the objective
count for which capability is data of the task. `OperationPlan` has the two lists
of `framework_operation_plan.py`, what an operation needs and which paths follow
from it, and its verdict through `check_paths`. `Planning` puts both before
`GovernedTask`, whose rules and experts they use at every moment of a run.

`NobodyIsFitter` states what the weights are for and none of them: no registered
expert outdoes every capability of the one selected, when he was selected on a
score above 0. (It says nothing about an expert who is better in one respect and
worse in another, which is what weights decide; and a score of 0, which an expert
without capabilities has too, leaves the choice to the order of the names.) `PlansNameTheirTarget` says that the two lists agree: an accepted plan
never consists only of paths that came with the request, and the maintainer may
change all of its paths.

## Requests: FrontDesk and Listener

### State

| variable | code |
| --- | --- |
| `file`, `plan`, `opened`, `failed` | `Store`: the files by key, the saves a command has still to do, whether the first has truncated its file, whether the last command of a process raised |
| `lost` | history, as in `DeliveryLoop` |
| `asked` | history: intakes begun |
| `proc[pid]` | a listener with its locals and its `lark-cli` (running, blocked, ended, failed, and the lines in its pipe), a process of another kind, or none |
| `watch[w]` | the watchdog has found no listener and is about to start one |
| `file[PidKey]` | the pid file |
| `chat` | external: messages not sent, waiting, or given to a consumer |
| `handled`, `dropped`, `vouched`, `orphans` | history: messages skipped or taken in; those whose intake failed or whose listener died; those read by a listener that reported *ok*; listeners whose watchdog died before it wrote the pid |

### Actions

| action | code |
| --- | --- |
| `Truncate`, `Write`, `SaveRefused` | one save, as in `DeliveryLoop` |
| `Ingest` | `feishu-ingest` and `intake --promote`: assessment, demand, goal |
| `Watch`, `WatchStart` | the watchdog asks for the pid on file; `Popen`, and the pid is written by a save |
| `PollStart`, `TimeIsUp` | a poller starts a listener with a timeout |
| `Skip`, `TakeIn`, `TakenIn`, `Summarise` | the loop of a listener and its end |
| `Emit`, `Redeliver`, `Complain`, `CliFails` | external: `lark-cli` gives a message to one consumer, once or (a fault) again, fills its standard error, fails |
| `Kill`, `WatchDies`, `IntakeDies`, `OtherTakes`, `OtherEnds` | faults: processes die, and pids are used again |

### Abstractions

* A text is the set of its words that matter, `{}` the empty text. The keyword
  tables stand with their English entries; a Chinese keyword counts as one of
  these does.
* Ids are the records of what the code hashes: an assessment's has text, requester
  and source and *not* the preferred expert.
* One requester; titles are part of the text. Clarifying questions are wording.
* A save of the same text twice leaves that text, as in `DeliveryLoop`.
* A watchdog that dies between `Popen` and the write is the same as one that dies
  with the pid file open or not yet open: `WatchDies` allows both.

### Properties

`DemandGetsItsGoal`, in `FrontDesk`, holds over intakes of one request that overlap
and are repeated, and over deaths: a demand has its goal, or the save of the goal
is pending or died with its process. `OneListener` says precisely what the pid file is good for: one
watchdog keeps one listener, whatever becomes of pids and processes, except for
those it was killed over. `OkMeansSaved` is the listener's summary against the
files: it must notice failing intakes, a child that fails, and lines left
unread. `MessageIsSettled` is liveness in spite of a listener blocked for good, a
watchdog that never runs, and a dead listener's pid that another process took:
the pollers come again. It needs a pid that is not held for good; with fewer
faults than pids there is one, and an operating system has many.

## Experts, approvals, health: Records

Clerks run the commands that write the other files; the health script of cron
registers the default experts anew and reports. State: that of `Store` and
`FrontDesk`, and `todo[p]` (what is left of a `register-default-experts`, and
whether it overwrites), `copy[p]` (the approval a clerk has in memory, however
old), `health` (the script is at work) and `report` (which stays on disk until the
next one replaces it), and the histories `touched` (experts saved by others since
the health script began, or all of them after a run that came to no report) and
`granted`.

| action | code |
| --- | --- |
| `IntakeCommand` | `intake --promote` |
| `RegisterExpert` | `register_expert` with the id of a default expert |
| `RegisterDefaults`, `RegisterNext` | `register-default-experts`: for each expert a test for the file, then its save |
| `HealthBegin`, `HealthReport`, `HealthTimeout` | `adl_registry_health.py`: registration with `--overwrite`, verdict; the 60 s of the registration end both |
| `RequestApproval`, `LoadApproval`, `_resolve` | `create_approval_request`; a load; `approve` and `reject`; each with the caller's save |
| `Dies` | a command is killed, or the registration under the health script, which goes on |

The approvals adapter itself saves nothing; that a caller saves what it returns is
how tests and docs use it. Which workflow specs are missing for an expert is
free, since the verdict is not affected otherwise.

`GoalIsExplained`: a goal has its demand and an assessment that says *candidate* -
or one that was overwritten by an intake for another expert, which the id cannot
tell apart and the property therefore leaves out. `ApprovalIsEarned`: a request of the same id for another context
replaces a resolved one, two copies are resolved differently, and still nothing
says *approved* for a context nobody approved. `ReportIsTrue`, about the time from a report to the next run: the report counts
names of files, and a file that cannot be parsed has a name; what keeps *ok*
honest is the result of the registration. `RegistryHeals` is what the daily
replay is for.

## The runs

Distinct states in brackets. `CHECK_DEADLOCK FALSE` is said for `DeliveryLoop` and
`GovernedTask`, where the bounds on commands run out and a truncated decision
stops every tick for good, and for `Listener`, where every pid may be held by a
blocked listener. `Outbox` and `Records` are checked for deadlock: a sender, and
the health script, can always be started.

| run | instance | what it shows |
| --- | --- | --- |
| `serial` (1.24M) | one process that is session and cron, 2 tasks, 5 commands, 1 crash, all outcomes, empty summaries | `TypeOK`, `AcceptedIsOnRecord`, `BoardSpec` |
| `one_cron` (2.12M) | two sessions and a cron process, 1 task, 4 commands, 1 crash, budget and quota change | `AcceptanceIsEarned`, `CopiesAreEarned`, `ReviewedOnce`, `VerdictIsRecorded`, `SubmittedHasAttempt` |
| `answered` (31k) | a session and a cron process, 2 tasks, 4 commands, quota 1, fairness | `SubmissionIsAnswered` |
| `missing_attempt` | as `serial`, no crash | violates `MissingAttemptIsSkipped` |
| `stale_copy` | two sessions and a cron process, 1 task, no crash | violates `AcceptedIsFinal` |
| `same_attempt` | a session and a cron process, 1 task, 5 commands, fairness | violates `SubmissionIsSettled` |
| `outbox_sender` (431k) | two enqueuers, one sender, 3 notes of 2 goals, 3 enqueues, 2 faults | `DeliveredOnce`, `OneThreadPerGoal` |
| `outbox_handled` (234k) | one enqueuer, two senders, 3 notes of all targets, 2 enqueues, 1 fault, limits 0 and 1, fairness | `TypeOK`, `SentWasDelivered`, `RepliesFollowTheirRoot`, `ChannelSpec`, `NoteIsHandled` |
| `second_root` | two senders, no fault | violates `OnlyFirstIsRoot` |
| `governed` (32k) | 3 profiles, 3 rule files with one edit, 7 requests, 2 proposals, 2 runs; registries, tasks and operations for `Planning` | `TypeOK`, `TasksWereAccepted`, `RunsAreCovered`, `ChecksAgree`, `BlockedHasNoRoute`, `DeeperRuleWins`, `NobodyIsFitter`, `PlansNameTheirTarget` |
| `listener` (240k) | a watchdog and pollers over 2 pids, 2 of 3 messages, a pipe of one line, 1 fault of any kind, fairness | `TypeOK`, `OneListener`, `OkMeansSaved`, `DemandGetsItsGoal`, `MessageIsSettled` |
| `records` (1.61M) | 2 clerks, the health script, 1 death or timeout, fairness; and either 2 intakes of 2 requests from 2 sources, or 3 commands on 2 default experts, or 4 on an approval with 2 contexts | `TypeOK`, `GoalIsExplained`, `ApprovalIsEarned`, `ReportIsTrue`, `RegistryHeals` |

Why the bounds are enough for the cases that matter:

* `MaxOps` bounds the commands sessions start; ticks, the steps of a command and
  its saves are free. The shortest histories that break a property take a goal, a
  proposal and a submission and then a command that overlaps with another or
  with a tick; `one_cron` has two sessions, whose fourth command overlaps with the
  third, and a tick that overlaps with both.
* One crash is enough to cut any pair of saves in any place; what a second one
  adds is the same cut elsewhere.
* Two tasks are enough for a quota of 1 to stop before the second and for a
  failing task to stand before a sound one.
* `Strict` is rejected without its label and has a permission the runner
  refuses; `HumanSpec` needs a sign-off; `Spent` is below the threshold by one.
  Two specs for one task id are what a second proposal needs to change the terms
  under old copies.
* In the outbox two notes of one goal and one of another are the least in which a
  reply can go to the wrong thread; three enqueues let one note be enqueued again
  while it is being sent.
* The three rule files have rules that tie, overlap and only warn, an owner who is
  not the delegate, patterns for a single file whose names have two and three
  characters, and `/**`, which one request asks for `/` itself.
* Two pids let a watchdog's listener and a poller's run at once, and a pid be used
  again; of the three messages one becomes a goal, one is refused by the store and
  one is not for the loop. A fault of each kind happens, one in a history: two of
  them hit the same steps twice.
* In `Records` the bound is on the commands of each kind (`Workloads`), because only
  commands of one kind share files, and a load is not counted. Two intakes meet at
  any pair of their saves, of one request or of two, one of which is a candidate
  for every expert and the other for one of them. Three commands on experts are a
  registration between two by other hands. Four on the approval are a request, two
  copies resolved in two ways, and a request for another context before, between
  or after.

Every property is broken by a mutant of a mapped definition under its own run, so
no run is too small to reach what it is about.

## Fairness

`DeliveryLoop`: weak fairness of each process's save steps, workflow steps and tick
steps, and of starting a tick. The first three say that the operating system lets
a started command go on (a workflow ends or times out); the last that cron keeps
starting ticks. Nothing makes a person type a command, and no process has to
crash. `answered` and `same_attempt` have no crashes: after one, a truncated
file may stop every tick, which is a hazard in `PROJECT.json` and not something
fairness could cure.

`Outbox`: weak fairness of an enqueuer's second half and of a sender's steps;
*strong* fairness of starting a real run, without `--dry-run` and with a limit that
is not 0. No cron entry for the sender is in the repository; the assumption is
that whoever runs it does not only make dry runs.

`Listener`: weak fairness of saves, of the loop of a listener, of the end of a
poller's time, and of starting pollers, which cron does every few minutes; strong
fairness of the delivery of each message, since listeners come and go. Neither
the watchdog nor any fault has to happen. `Records`: weak fairness of starting
the health script and of its steps; no clerk has to type anything, and one that
stops in the middle of a save never goes on.

The invariants, `BoardSpec` and `ChannelSpec` need no fairness; `GovernedTask` has none.

## The proofs

For all values of the constants under the named assumptions, which TLC evaluates
in the runs.

| theorem | says |
| --- | --- |
| `DeliveryLoopProofs!TypeCorrect` | `Spec => []TypeOK` |
| `DeliveryLoopProofs!AcceptedOnlyIfEarned`, `CopiesStayEarned` | `Spec => [](AcceptanceIsEarned /\ CopiesAreEarned)` |
| `DecisionProofs!SubmissionsHaveAttempts` | `Spec => []SubmittedHasAttempt` |
| `DecisionProofs!VerdictsAreRecorded` | `Spec => []VerdictIsRecorded` |
| `DecisionProofs!OneTickerReviewsOnce` | `Spec => []ReviewedOnce`, for one cron process and no `review-attempt` beside it |
| `DecisionProofs!AloneMeansOnRecord` | `Spec => []AcceptedIsOnRecord`, for one process |
| `DecisionProofs!AloneIsBoard` | `Spec => BoardSpec`, for one process |
| `OutboxProofs!TypeCorrect` | `Spec => []TypeOK` |
| `OutboxProofs!OnlyDeliveredIsSent`, `RepliesAreInTheirThread` | `Spec => [](SentWasDelivered /\ RepliesFollowTheirRoot)` |
| `OutboxProofs!OutboxIsChannel` | `Spec => ChannelSpec` |
| `OutboxProofs!OneSenderOneThread` | `Spec => []OneThreadPerGoal`, for one sender |
| `OutboxProofs!OneSenderDeliversOnce` | `Spec => []DeliveredOnce`, for one sender |
| `GovernedTaskProofs!TypeCorrect` | `Spec => []TypeOK` |
| `GovernedTaskProofs!CreatedTasksWereAccepted` | `Spec => []TasksWereAccepted` |
| `GovernedTaskProofs!LaunchedRunsAreCovered` | `Spec => []RunsAreCovered` |
| `GovernedTaskProofs!PreflightsAgree` | `Spec => []ChecksAgree` |
| `GovernedTaskProofs!RerouteIsFound` | `Spec => []BlockedHasNoRoute` |
| `GovernedTaskProofs!DeepestRuleDecides` | `Spec => []DeeperRuleWins` |
| `PlanningProofs!RoutingIsByCapability` | `Spec => []NobodyIsFitter` |
| `PlanningProofs!AcceptedPlansNameTheirTarget` | `Spec => []PlansNameTheirTarget` |
| `ListenerProofs!ListenersAreTyped` | `Spec => []TypeOK` |
| `ListenerProofs!OneListenerIsKept` | `Spec => []OneListener` |
| `ListenerProofs!OkMeansAllSaved` | `Spec => []OkMeansSaved` |
| `ListenerProofs!DemandsGetTheirGoal` | `Spec => []DemandGetsItsGoal` |
| `RecordsProofs!RecordsAreTyped` | `Spec => []TypeOK` |
| `RecordsProofs!GoalsAreExplained` | `Spec => []GoalIsExplained` |
| `RecordsProofs!ApprovalsAreEarned` | `Spec => []ApprovalIsEarned` |
| `RecordsProofs!ReportsAreTrue` | `Spec => []ReportIsTrue` |

The assumptions are of two kinds: the constants have the shapes the source gives
them (a quota is a number or none, an expert's cost is one of `COSTS`), and
values that stand for *no such thing* or *not readable* are none of the things.

**Acceptance.** `AcceptanceIsEarned` speaks of files, and is not inductive: a process
may write any copy it holds. `EarnedInv` therefore says the same of every hand,
every copy in a tick's batch and every pending save, on top of types and of
`WorkflowHasTask` (a workflow under way has its task in hand, which
`FinishWorkflow` reads). `EarnedFrame` is the common argument: a step keeps the
invariant if each record it brings in was there before or is earned. What
remains is where *accepted* is born: in `AcceptTask`, which signs off, and in
`Review`, where `CheckIsSound` shows that the code's evidence check implies what
the requester asked for and `CompleteMeans` that a decision to complete rests on
it. The theorem holds for any number of sessions and overlapping ticks, any
crashes and any damaged file: the stale copies do lose updates, but they cannot
forge an acceptance.

**Outbox.** Types need `HasNote`: a run that is at a note has a path left, and one
that saves a binding has the id of a message in the chat; that the least path
exists is well-foundedness of the naturals. `ChatInv` adds to the two properties
what a sender's locals know: `Sound` (whoever is about to file a note as sent has
delivered it; whoever is about to reply holds a root of the goal) and
`BindingsAreRoots`. The chat only grows, so what is known of it stays known to
the other senders (`OthersSound`). The refinement needs one fact more,
`PathsAsked`: a sender is at notes that are in one of the three directories,
whoever moved them. Then an enqueue is an `Ask` or a stutter, a call of `lark-cli`
a `Receive` when it delivers, `SendMove` one of the two ways to file, and all other
steps stutter.

**Paths.** `IInv` is the conjunction of the type invariant, the two halves of
`TasksWereAccepted` and `RunsAreCovered`; files and copies are needed together,
because a run saves its copy again, and a launched run is covered because the
task it loads was accepted. `CreatedIsAllowed` follows the reroute:
the delegate's own check, on the corrected spec, is what the created task stands
for. `Violates` is never expanded: these theorems hold for any reading of rules.

`ProposalsAccept` is the same of the history, and what `ChecksAgree` needs: the
proposal that accepted a task was made under some rules, and if these are the
rules of the run the preflight asks the question that was answered then.
`BlockedHasNoRoute` needs no history: when a registered expert may write all the
paths and every violation names him, the reroute finds that one delegate, and his
own check is ok.

**The deepest rule.** `Length` is a fold over the names of a pattern, and what it adds up
to for a pattern of any length is the induction that `DeeperRuleWins` needs.
`SetInduction` makes it an argument about sets of numbers: a set with 0 and the
successors of its members leaves out no least number. With it `SumsExist` shows
that the function the fold is defined by exists, and `SumsAgree` that what a name
adds does not depend on where the sum began. So a pattern that matches weighs what
the path weighs up to its end, and 3 more with a wildcard (`MatchWeighs`), and longer
beginnings weigh more (`UpToGrows`); the last name's weight is what puts the path
itself before every directory (`LongerIsDeeper`). `RulesAssumption` and
`PathsAssumption` give rules and paths their shapes, with names of known length.

**Routing and plans.** `NobodyIsFitter` is a statement about a state, so types are
all its invariant. `SelectedIsBest` says that the ranking picks a registered
expert with the highest score, `OutdoingScoresHigher` that one capability that
outdoes another has more points (by the tables of weights, which fall with the
cost and the reliability), and `ScoreIsBest` that an expert's score is that of his
best capability, or 0; so an expert who outdoes all of another's would have been
picked. `FiniteHasBest` replaces the induction over finite sets that the prover
cannot use: a smallest set without a best member has none.

**Attempts and verdicts.** Both properties of `DecisionProofs` speak of task files,
and a task file is a copy that somebody saved. So the invariants say it of every
`Copy`: in a file, a hand, a batch or a pending save. `CopyComes` is the common
argument: after any step a copy was a copy before, is new, or was made of an
earlier copy by a command (`Becomes`), and then the save of its attempt, or of
the decision behind its status, is pending. A pending save of these kinds stays
owed: it is pending until it is made, and lost when its process is killed
(`OwedStays`); and an attempt or a decision on disk stays. An attempt
with an empty summary is excepted: the store refuses it after its task was saved,
which is what `MissingAttemptIsSkipped` fails on.

**One decision each.** `OnceInv(c)`, for the one cron process c, adds to
`ReviewedOnce` what c knows: nobody else ticks, a decision about an attempt is only ever pending in c's
plan while it reads, all that are on disk or pending (`Due`) are in the set `seen` of the tick
under way, and there is one for each attempt. A tick that begins after a kill lists the
decisions again; one that was truncated and never written is not listed, and is
reviewed anew - the second decision is the only one that can be read.

**One process.** Two theorems have the hypothesis that `Procs` is a set of one; a
second process could save a stale copy (`stale_copy`). The hypothesis buys
`CopyInv`: whatever the process holds of a task is what the file
says, or is about to say by a save that is pending, in a tick's batch for every
task it has not come to. `SaveInv` is about the time between two saves of one
command: an open file is empty, and the next task save moves the status as the
lifecycle allows, so that a kill shows as a spoiled task and nothing else.
`AloneInv` adds what an acceptance rests on: an accepted task that nobody signed
off has its attempt on disk, and an attempt that is being overwritten belongs to a
task already saved as submitted. `LastingInv` keeps the statuses that a command
only passes through out of every copy. `Good` collects what a command that begins
plans to save, one lemma per command; then a begin, a write and a kill preserve
the invariant for all of them at once. For `AloneIsBoard`, `StepBoard` shows each
step to be a move of the table, a spoiling, or a stutter.

**One sender.** `ThreadInv`: a goal with a binding has the thread the binding names, and
a goal without has no root in the chat but the one whose binding is being saved,
or one that was lost. For `DeliveredOnce`, `CountInv` says that the deliveries that
count, and the one still owed to a note that is in the outbox and not delivered
yet, are no more than the enqueues; and `HoldInv` that the note a sender is at stays
in the outbox until the sender moves it, and that the message it has an id of is
the delivery of that note. A sender killed after the delivery owes it again, and
just that delivery no longer counts (`unmoved`). Cardinalities are
moved over steps with the library's theorems on finite sets.

**Intake.** `FrontDeskProofs` has no theorem of a specification: it is about any module
whose processes make the saves of an intake beside others of other files, and both
`Listener` and `Records` are. `DeskFiles` says that files come in the order of the
saves, and that an assessment on disk is one that was asked for; `Progress` says
how far a process has come with its intake. `GoalIsExplained` follows for every
state. `DemandGetsItsGoal` needs more, because the process that saved a demand
may not be the one that saves its goal; `GoalsAreLost` carries it over a death.

**Listener.** `OneListener` rests on `Keeps(w)`: while the watchdog is about to start a
listener there is none it keeps, and a kept listener's pid is on file or about to
be saved by the watchdog itself; so the next look at the pid file finds it. That
a pid is not taken by another process while its listener lives is what makes the
look honest, and a pid on file that was used again only keeps the watchdog from
starting anything. `OkMeansSaved` rests on `TakenInv`: each event a listener took
is saved, or has marked the listener as bad, or is the one it works on, whose
intake has not failed and is at a known point (`Underway`). Files only come, so
what is saved stays so whatever other listeners do.

**Records.** `ApprovalInv` says of copies and pending saves what `ApprovalIsEarned` says
of the file. `ReportIsTrue` needs `HealthInv`: while the registration under a report has
not failed, each default expert is readable, still in its list or the save at
hand, or was saved by somebody else since (`touched`), which includes somebody
who has the file open.

Only model-checked: `SubmissionIsAnswered`, `NoteIsHandled`, `MessageIsSettled`
and `RegistryHeals`: liveness under fairness, out of the prover's reach.

## Where code and documents disagree

* **A tick fails on a task without its attempt** (`missing_attempt`).
  `submit_attempt` saves the task before the attempt; when the store refuses an
  attempt with an empty summary, the task stays submitted and names an attempt
  that does not exist. Every later tick raises at it, and no task after it is
  reviewed. The checklist says such tasks are skipped.
* **An accepted task is taken back** (`stale_copy`). A process saves the copy it
  loaded earlier, over an acceptance that came in between.
* **A resubmission with new evidence is never reviewed** (`same_attempt`). The id
  of an attempt leaves the evidence out, so it counts as reviewed.
* **A goal gets two threads** (`second_root`). Two senders that overlap both find
  no binding.

Seen while modelling, and not a run of its own: two ticks that overlap review an
attempt twice and may decide differently (`workspace.py:95`; `ReviewedOnce` is for
one cron process). A task proposed without an `actor_profile` never passes the
runner's preflight, because proposals assign to the kind `expert` and the runner
takes actors from other kinds (`adl_runtime.py:301`; `ChecksAgree` is about tasks
that name an actor). A finishing run restores an older `path_governance`
(`adl_runtime.py:264`; `TasksWereAccepted` allows any accepted proposal). Notes
are sent in the order of their hashes, so the root of a thread need not be the
first notification (`adl_runtime.py:205`). A request that names another actor is
blocked although the selected expert owns its paths: a delegate equal to the
selected expert is not a reroute (`loop.py:127`). An expert without a required
capability still scores, and gets the task when nobody has it
(`routing.py:28`). The name of the preferred expert is read as part of the
request, and keywords are looked for anywhere in it, so that *report* counts as
*repo* and *ops-auditor* as *audit* (`builder.py:181`). A poller and a watchdog
together are two consumers; the skill says which one is for production, and
nothing keeps the other from running. The registry health says *ok* while the
file of an expert other than the default ones cannot be read
(`adl_registry_health.py:64`).

## What is not modelled

* *Governance health, model registry check, scheduled report wrappers, payload
  adapters*: they read or lay out data and change nothing the loop depends on.
  The governance health looks at ids and owners of rules, never at what their
  patterns match; the model registry check asks a service for its list.
* *Schemas, fixtures, examples, release and protocol checks*: data and tooling;
  the schemas give the value sets used here.
* *Of modelled parts*: `register_expert` of the workspace (its files are read by
  callers only; `GovernedTask` and `Records` have the registration), `is_allowed` and
  `assert_allowed` of `permissions.py` (nobody calls them; the sets that close a gate
  are in `loop.py` and `adl_runtime.py`), configuring
  notification targets, `--dry-run` of the listener, intakes without
  `--promote`, the questions of an assessment, activation checks of an operation
  plan, the event log and the summary of the store, texts of prompts and
  reports, the goal's transition table (never called), the effects of a workflow
  outside these files.

## Plan

Written, in this order: `Lifecycle`, `Review`, `TaskBoard`, `DeliveryLoop` and its
proofs; `Outbox` and its proofs; `PathGovernance`, `GovernedTask` and its proofs.

Then `Delivery` and the proof that the outbox implements it; `Store`, `Intake`,
`FrontDesk`, `Listener`, `Records`; `Routing`, `OperationPlan`, `Planning`. New runs took the
place of runs that another subsumed, so that the project can be run in a few minutes.

Then theorems about every module with a state: `GovernedTaskProofs`,
`PlanningProofs`, `FrontDeskProofs`, `ListenerProofs`, `RecordsProofs`,
`DecisionProofs`.

Then what holds of one process and of one sender: `AcceptedIsOnRecord`, `BoardSpec`
(every step of `DeliveryLoop` is then a step of `TaskBoard` or a stutter),
`OneThreadPerGoal` and `DeliveredOnce`. Last `DeeperRuleWins`. Every safety
property of a passing run is stated by a theorem; the four liveness properties
stay with the model checker.
