---------------------------- MODULE GovernedTask ----------------------------
(***************************************************************************)
(* A task that writes governed paths, from its proposal to its run.        *)
(* propose_next_task (loop.py) checks the planned paths and may hand the   *)
(* task to the owner; run-workflow-task (adl_runtime.py) checks them again *)
(* before it launches the workflow.  In between somebody edits             *)
(* path-governance.json, registers an expert, or proposes the task again,  *)
(* and a run that ends saves the copy of the task it loaded.               *)
(*                                                                         *)
(* The evaluator propose_next_task is given belongs to its caller.  It is  *)
(* modelled as check_paths for the actor loop.py itself names: the         *)
(* actor_profile of the task spec, or else the expert it is asked about.   *)
(***************************************************************************)
EXTENDS PathGovernance, Review, FiniteSets

CONSTANTS
  Objectives,  \* what tasks are for (part of the task id)
  Configs,     \* rule sequences path-governance.json may hold
  Requests,    \* task specs that callers propose
  Budgets,     \* budgets of the goal
  Scores,      \* scores experts may get for an objective
  Calls,       \* arguments of run-workflow-task
  Runners,     \* processes that run workflows
  MaxProposals, MaxEdits, MaxRuns  \* bounds

Ids == Objectives \X Profiles

PathSets == {r.planned : r \in Requests} \union {c.changed : c \in Calls}

\* spec.path_governance, and the part of the spec the runner looks at.
TaskSpecs == [permissions : {r.permissions : r \in Requests},
              actor : Profiles \union {None},
              planned : {r.planned : r \in Requests}, strict : BOOLEAN]

ASSUME RequestsAssumption ==
  \A r \in Requests : /\ r.actor \in Profiles \union {None}
                      /\ r.strict \in BOOLEAN /\ r.approved \in BOOLEAN

ASSUME RulesAssumption == \A rules \in Configs : rules \in Seq(Rules)

ASSUME PathsAssumption ==
  \A paths \in PathSets : \A path \in paths :
    normalize_path(path) \in Seq(DOMAIN Characters)

ASSUME GovernedBounds == MaxProposals \in Nat /\ MaxEdits \in Nat /\ MaxRuns \in Nat

VARIABLES
  config,     \* the rules of path-governance.json
  experts,    \* the registered experts
  tasks,      \* task id |-> its spec, or None
  running,    \* runner |-> the task it has launched a workflow for, or None
  proposals,  \* history: the proposals that created a task
  runs,       \* history: the workflows launched
  edits       \* bound

vars == <<config, experts, tasks, running, proposals, runs, edits>>

Init ==
  /\ config \in Configs
  /\ experts = {}
  /\ tasks = [id \in Ids |-> None]
  /\ running = [r \in Runners |-> None]
  /\ proposals = {} /\ runs = {} /\ edits = 0

EditConfig ==
  /\ edits < MaxEdits
  /\ config' \in Configs \ {config}
  /\ edits' = edits + 1
  /\ UNCHANGED <<experts, tasks, running, proposals, runs>>

RegisterExpert(e) ==
  /\ e \notin experts
  /\ experts' = experts \union {e}
  /\ UNCHANGED <<config, tasks, running, proposals, runs, edits>>

-----------------------------------------------------------------------------
(* Proposal                                                                *)

\* rank_experts(...)[0]: the highest score, then the first id.
rank_experts(score) ==
  CHOOSE e \in experts : \A f \in experts :
    score[f] < score[e] \/ (score[f] = score[e] /\ e <= f)

NoPaths == [ok |-> TRUE, delegates |-> {}]

_evaluate_path_governance(spec, selected, evaluator) ==
  IF spec.planned = {} THEN NoPaths
  ELSE IF ~evaluator THEN [ok |-> FALSE, delegates |-> {None}]
  ELSE check_paths(IF spec.actor = None THEN selected ELSE spec.actor,
                   spec.planned, config, spec.strict)

\* The only delegate the violations name, or None.
_single_delegate_profile(preflight) ==
  LET named == preflight.delegates \ {None}
  IN  IF Cardinality(named) = 1 THEN CHOOSE p \in named : TRUE ELSE None

\* Fault: the spec keeps the actor it came with.
_correct_task_spec_Kept(spec, delegate) == spec

_correct_task_spec_for_delegate(spec, delegate) ==
  [spec EXCEPT !.actor = delegate]

\* Fault: the delegate is not checked.
Reroutes_Unchecked(spec, selected, preflight, evaluator) ==
  LET delegate == _single_delegate_profile(preflight)
  IN  delegate \notin {None, selected} /\ delegate \in experts

\* _try_reroute_path_governance returns a task.
Reroutes(spec, selected, preflight, evaluator) ==
  LET delegate == _single_delegate_profile(preflight)
  IN  /\ delegate \notin {None, selected} /\ delegate \in experts
      /\ _evaluate_path_governance(_correct_task_spec_for_delegate(spec, delegate),
                                   delegate, evaluator).ok

\* What propose_next_task decides: its action, the expert it selected, and
\* for a task the expert it is assigned to.
Outcome(action, selected, assignee) ==
  [action |-> action, selected |-> selected, assignee |-> assignee]

Routed(spec, score, evaluator) ==
  LET selected == rank_experts(score)
      preflight == _evaluate_path_governance(spec, selected, evaluator)
  IN  IF \A e \in experts : score[e] <= 0
      THEN Outcome("mark_blocked", None, None)
      ELSE IF _is_high_risk(spec) /\ ~spec.approved
      THEN Outcome("request_approval", selected, None)
      ELSE IF preflight.ok THEN Outcome("create_task", selected, selected)
      ELSE IF Reroutes(spec, selected, preflight, evaluator)
      THEN Outcome("create_task", selected, _single_delegate_profile(preflight))
      ELSE Outcome("mark_blocked", selected, None)

Proposed(b, spec, score, evaluator) ==
  IF should_stop_for_budget(b) THEN Outcome("stop_budget", None, None)
  ELSE Routed(spec, score, evaluator)

\* Fault: the delegate gets the task as it was proposed.
Rerouted_AsProposed(spec, selected, assignee) == spec

\* The spec the task is created from.
Rerouted(spec, selected, assignee) ==
  IF assignee = selected THEN spec
  ELSE _correct_task_spec_for_delegate(spec, assignee)

\* Fault: the rerouted task leaves path_governance out.
create_task_NoGovernance(spec) ==
  [permissions |-> spec.permissions, actor |-> None, planned |-> {}, strict |-> FALSE]

create_task(spec) ==
  [permissions |-> spec.permissions, actor |-> spec.actor,
   planned |-> spec.planned, strict |-> spec.strict]

\* Without a task the files stay as they are, but for the decision.  A task
\* replaces an older one of the same goal, objective and assignee.
Propose(objective, b, spec, score, evaluator) ==
  LET outcome == Proposed(b, spec, score, evaluator)
      created == create_task(Rerouted(spec, outcome.selected, outcome.assignee))
      id == <<objective, outcome.assignee>>
  IN  /\ Cardinality(proposals) < MaxProposals
      /\ outcome.action = "create_task"
      /\ tasks' = [tasks EXCEPT ![id] = created]
      /\ proposals' = proposals \union
           {[id |-> id, spec |-> spec, rules |-> config, created |-> created]}
      /\ UNCHANGED <<config, experts, running, runs, edits>>

-----------------------------------------------------------------------------
(* Run                                                                     *)

\* Tasks that proposals create are assigned to an expert, and only the kinds
\* hermes_profile and profile name an actor: _actor_profile_from_task is None.
RunActor(task, call) == IF call.actor # None THEN call.actor ELSE task.actor

\* Fault: paths on the command line replace the planned ones.
RunPaths_Replaced(task, call) ==
  IF call.changed # {} THEN call.changed ELSE task.planned

RunPaths(task, call) == task.planned \union call.changed

_workflow_path_preflight(task, call) ==
  \/ RunPaths(task, call) = {}
  \/ /\ RunActor(task, call) # None
     /\ check_paths(RunActor(task, call), RunPaths(task, call), config,
                    call.strict \/ task.strict).ok

MayRun(task, call) ==
  /\ task.permissions \intersect SYSTEM_RISK_PERMISSIONS = {}
  /\ _workflow_path_preflight(task, call)

RunWorkflow(runner, id, call) ==
  /\ running[runner] = None
  /\ tasks[id] # None
  /\ Cardinality(runs) < MaxRuns
  /\ MayRun(tasks[id], call)
  /\ running' = [running EXCEPT ![runner] = [id |-> id, copy |-> tasks[id]]]
  /\ runs' = runs \union {[id |-> id, call |-> call, rules |-> config,
                           actor |-> RunActor(tasks[id], call)]}
  /\ UNCHANGED <<config, experts, tasks, proposals, edits>>

\* store.save(task) at the end of the run: the copy it loaded.
FinishWorkflow(runner) ==
  /\ running[runner] # None
  /\ tasks' = [tasks EXCEPT ![running[runner].id] = running[runner].copy]
  /\ running' = [running EXCEPT ![runner] = None]
  /\ UNCHANGED <<config, experts, proposals, runs, edits>>

\* The 1200 seconds are over, or the process ends: nothing is saved.
WorkflowTimeout(runner) ==
  /\ running[runner] # None
  /\ running' = [running EXCEPT ![runner] = None]
  /\ UNCHANGED <<config, experts, tasks, proposals, runs, edits>>

Next ==
  \/ EditConfig
  \/ \E e \in Profiles : RegisterExpert(e)
  \/ \E objective \in Objectives, b \in Budgets, spec \in Requests,
        score \in [Profiles -> Scores], evaluator \in BOOLEAN :
       Propose(objective, b, spec, score, evaluator)
  \/ \E runner \in Runners, id \in Ids, call \in Calls : RunWorkflow(runner, id, call)
  \/ \E runner \in Runners : FinishWorkflow(runner)
  \/ \E runner \in Runners : WorkflowTimeout(runner)

Spec == Init /\ [][Next]_vars

-----------------------------------------------------------------------------
(* Properties                                                              *)

TaskFiles == [Ids -> TaskSpecs \union {None}]

TypeOK ==
  /\ config \in Configs /\ experts \subseteq Profiles
  /\ tasks \in TaskFiles
  /\ running \in [Runners -> [id : Ids, copy : TaskSpecs] \union {None}]
  /\ edits \in 0..MaxEdits

\* The actor a task is checked for: its own, or the expert it belongs to.
ActorOf(id, task) == IF task.actor = None THEN id[2] ELSE task.actor

\* The proposal created this task, and found its paths allowed.
Accepts(p, id, task) ==
  /\ p.id = id /\ p.created = task
  /\ task.planned = p.spec.planned /\ task.strict = p.spec.strict
  /\ \A path \in task.planned :
       ~Violates(ActorOf(id, task), path, p.rules, task.strict)

WasAccepted(id, task) == \E p \in proposals : Accepts(p, id, task)

\* A task on disk, or in a running workflow that will save it again, was
\* created by a proposal of just these planned paths, and every one of them
\* was allowed to its actor by the rules of that moment, rerouted or not
\* (propose_next_task, _try_reroute_path_governance).
FilesWereAccepted ==
  \A id \in Ids : tasks[id] # None => WasAccepted(id, tasks[id])

CopiesWereAccepted ==
  \A r \in Runners :
    running[r] # None => WasAccepted(running[r].id, running[r].copy)

TasksWereAccepted == FilesWereAccepted /\ CopiesWereAccepted

\* A workflow is only launched when the rules of that moment allow the actor
\* every path that some accepted proposal of the task planned, and every path
\* on the command line (run-workflow-task, the last guard).
Covers(run, p) ==
  /\ p.id = run.id
  /\ \A path \in p.spec.planned \union run.call.changed :
       ~Violates(run.actor, path, run.rules, run.call.strict \/ p.spec.strict)

RunsAreCovered == \A run \in runs : \E p \in proposals : Covers(run, p)

\* Proposal p created the task on disk, under the rules still in force.
InForce(p, id) == p.id = id /\ p.created = tasks[id] /\ p.rules = config

NoArguments == [actor |-> None, changed |-> {}, strict |-> FALSE]

\* While the rules are those of the proposal that created it, a task that
\* names its actor passes the preflight of run-workflow-task without further
\* arguments: the two checks agree.  (A task that names none is never passed:
\* the runner does not take the actor from an assignee of kind expert.)
ChecksAgree ==
  \A id \in Ids, p \in proposals :
    InForce(p, id) /\ tasks[id].actor # None
    => _workflow_path_preflight(tasks[id], NoArguments)

\* An expert that owns the way out: registered, allowed every planned path,
\* and the delegate of every path denied to the actor.
HasRoute(spec, actor) ==
  \E e \in experts :
    /\ Violations(e, spec.planned, config, spec.strict) = {}
    /\ \A path \in Violations(actor, spec.planned, config, spec.strict) :
         DelegateOf(path, config) = e

\* What is proposed now is blocked because of its paths.
Blocked(spec, score) ==
  LET outcome == Routed(spec, score, TRUE)
  IN  outcome.action = "mark_blocked" /\ outcome.selected # None

\* A proposal for the selected expert's own writes is only blocked when no
\* registered expert could take it over: whatever the paths and their owners,
\* a reroute that exists is found (_try_reroute_path_governance).
BlockedHasNoRoute ==
  \A spec \in Requests, score \in [Profiles -> Scores] :
    Blocked(spec, score) /\ spec.actor \in {None, rank_experts(score)}
    => ~HasRoute(spec, rank_experts(score))

Paths == UNION PathSets

Names(path) == normalize_path(path)

\* A pattern of the path itself is one deeper than one of its directory.
Depth(pattern) == Len(pattern.dir) + (IF pattern.below THEN 0 ELSE 1)

\* A rule for a path itself, or for a deeper directory, is preferred to one
\* for a directory above, wherever they stand in the file; for a path itself
\* only when its last name outweighs the `**` (best_rule_for_path).
DeeperRuleWins ==
  \A path \in Paths, i, j \in DOMAIN config :
    /\ best_rule_for_path(Names(path), config) = i
    /\ Names(path) # <<>> /\ Characters[Last(Names(path))] > 2
    => \A q \in config[j].match : FnMatch(Names(path), q) =>
         \E best \in config[i].match :
           /\ FnMatch(Names(path), best)
           /\ Depth(best) >= Depth(q)
=============================================================================
