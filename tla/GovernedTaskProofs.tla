------------------------- MODULE GovernedTaskProofs -------------------------
(***************************************************************************)
(* Path governance for any profiles, rules, requests and arguments.  The   *)
(* proofs about tasks and runs never look into Violates: whatever the      *)
(* rules say, the control flow of proposal and run asks them about the     *)
(* right actor and paths.  The last part is about which rule is found.     *)
(***************************************************************************)
EXTENDS GovernedTask, WellFoundedInduction, FiniteSetTheorems, TLAPS

\* Every proposal that created a task found the paths of that task allowed:
\* what the files keep from it follows, and more is needed for ChecksAgree.
ProposalsAccept ==
  \A p \in proposals : p.created \in TaskSpecs /\ Accepts(p, p.id, p.created)

IInv == /\ TypeOK /\ ProposalsAccept
        /\ FilesWereAccepted /\ CopiesWereAccepted /\ RunsAreCovered

LEMMA InitIInv == Init => IInv
<1> SUFFICES ASSUME Init PROVE IInv
  OBVIOUS
<1>1. TypeOK
  BY GovernedBounds DEF Init, TypeOK, TaskFiles
<1>2. ProposalsAccept /\ FilesWereAccepted /\ CopiesWereAccepted /\ RunsAreCovered
  BY DEF Init, ProposalsAccept, FilesWereAccepted, CopiesWereAccepted, RunsAreCovered
<1>3. QED
  BY <1>1, <1>2 DEF IInv

-----------------------------------------------------------------------------
(* What propose_next_task has checked when it creates a task.              *)

\* A preflight that is ok found no planned path in violation.
LEMMA PreflightIsMeant ==
  ASSUME NEW spec, NEW selected, NEW evaluator \in BOOLEAN,
         _evaluate_path_governance(spec, selected, evaluator).ok
  PROVE  \A path \in spec.planned :
           ~Violates(IF spec.actor = None THEN selected ELSE spec.actor,
                     path, config, spec.strict)
BY DEF _evaluate_path_governance, NoPaths, check_paths, Violations

\* The task of a create_task, and for whom its paths were checked.
LEMMA CreatedIsAllowed ==
  ASSUME NEW b, NEW spec \in Requests, NEW score, NEW evaluator \in BOOLEAN,
         experts \subseteq Profiles,
         NEW outcome, outcome = Proposed(b, spec, score, evaluator),
         outcome.action = "create_task",
         NEW task, task = create_task(Rerouted(spec, outcome.selected, outcome.assignee))
  PROVE  /\ task \in TaskSpecs
         /\ task.planned = spec.planned /\ task.strict = spec.strict
         /\ \A path \in task.planned :
              ~Violates(IF task.actor = None THEN outcome.assignee ELSE task.actor,
                        path, config, task.strict)
<1> DEFINE selected == rank_experts(score)
           preflight == _evaluate_path_governance(spec, selected, evaluator)
           delegate == _single_delegate_profile(preflight)
           corrected == _correct_task_spec_for_delegate(spec, delegate)
<1>1. CASE preflight.ok /\ outcome = Outcome("create_task", selected, selected)
  <2>1. task = create_task(spec)
    BY <1>1 DEF Rerouted, Outcome
  <2>2. QED
    BY <1>1, <2>1, PreflightIsMeant, RequestsAssumption
       DEF create_task, TaskSpecs, Outcome
<1>2. CASE /\ Reroutes(spec, selected, preflight, evaluator)
           /\ outcome = Outcome("create_task", selected, delegate)
  <2>1. task = create_task(corrected)
    BY <1>2 DEF Rerouted, Outcome, Reroutes
  <2>2. delegate \in Profiles /\ delegate # None
    BY <1>2 DEF Reroutes
  <2>3. _evaluate_path_governance(corrected, delegate, evaluator).ok
    BY <1>2 DEF Reroutes
  <2>4. /\ create_task(corrected).permissions = spec.permissions
        /\ create_task(corrected).actor = delegate
        /\ create_task(corrected).planned = spec.planned
        /\ create_task(corrected).strict = spec.strict
    BY DEF create_task, _correct_task_spec_for_delegate
  <2>5. QED
    BY <2>1, <2>2, <2>3, <2>4, PreflightIsMeant, RequestsAssumption
       DEF create_task, TaskSpecs
<1>3. QED
  BY <1>1, <1>2 DEF Proposed, Routed, Outcome

-----------------------------------------------------------------------------
(* Steps.                                                                  *)

\* What was accepted or covered stays so while proposals are only added.
LEMMA HistoryGrows ==
  ASSUME proposals \subseteq proposals'
  PROVE  /\ \A id, task : WasAccepted(id, task) => WasAccepted(id, task)'
         /\ runs' = runs /\ RunsAreCovered => RunsAreCovered'
         /\ proposals' = proposals /\ ProposalsAccept => ProposalsAccept'
BY DEF WasAccepted, Accepts, ActorOf, RunsAreCovered, Covers, ProposalsAccept

LEMMA StepIInv == IInv /\ [Next]_vars => IInv'
<1> SUFFICES ASSUME IInv, [Next]_vars PROVE IInv'
  OBVIOUS
<1> USE DEF IInv
<1>1. ASSUME UNCHANGED <<tasks, running, proposals, runs>>, TypeOK'
      PROVE  IInv'
  BY <1>1 DEF FilesWereAccepted, CopiesWereAccepted, RunsAreCovered,
              ProposalsAccept, WasAccepted, Accepts, ActorOf, Covers
<1>2. CASE EditConfig
  <2>1. TypeOK'
    BY <1>2, GovernedBounds DEF EditConfig, TypeOK, TaskFiles
  <2>2. QED
    BY <1>1, <1>2, <2>1 DEF EditConfig
<1>3. ASSUME NEW e \in Profiles, RegisterExpert(e)
      PROVE  IInv'
  <2>1. TypeOK'
    BY <1>3 DEF RegisterExpert, TypeOK, TaskFiles
  <2>2. QED
    BY <1>1, <1>3, <2>1 DEF RegisterExpert
<1>4. ASSUME NEW objective \in Objectives, NEW b \in Budgets,
             NEW spec \in Requests, NEW score \in [Profiles -> Scores],
             NEW evaluator \in BOOLEAN,
             Propose(objective, b, spec, score, evaluator)
      PROVE  IInv'
  <2> DEFINE outcome == Proposed(b, spec, score, evaluator)
             created == create_task(Rerouted(spec, outcome.selected, outcome.assignee))
             id == <<objective, outcome.assignee>>
             p == [id |-> id, spec |-> spec, rules |-> config, created |-> created]
  <2>1. /\ outcome.action = "create_task"
        /\ tasks' = [tasks EXCEPT ![id] = created]
        /\ proposals' = proposals \union {p}
        /\ UNCHANGED <<config, experts, running, runs, edits>>
    BY <1>4 DEF Propose
  <2>2. /\ created \in TaskSpecs
        /\ created.planned = spec.planned /\ created.strict = spec.strict
        /\ \A path \in created.planned :
             ~Violates(IF created.actor = None THEN outcome.assignee ELSE created.actor,
                       path, config, created.strict)
    BY <2>1, CreatedIsAllowed DEF TypeOK
  <2>3. /\ p.id = id /\ p.spec = spec /\ p.rules = config /\ p.created = created
        /\ id[2] = outcome.assignee
    OBVIOUS
  <2> HIDE DEF outcome, created, id, p
  <2>4. TypeOK'
    BY <2>1, <2>2 DEF TypeOK, TaskFiles
  <2>5. /\ \A j, task : WasAccepted(j, task) => WasAccepted(j, task)'
        /\ RunsAreCovered'
    BY <2>1, HistoryGrows
  <2>6. CopiesWereAccepted'
    BY <2>1, <2>5 DEF CopiesWereAccepted
  <2>7. Accepts(p, id, created)
    BY <2>2, <2>3 DEF Accepts, ActorOf
  <2>8. FilesWereAccepted'
    <3>1. \A j \in Ids : tasks'[j] # None =>
            \/ tasks'[j] = tasks[j] /\ WasAccepted(j, tasks[j])
            \/ j = id /\ tasks'[j] = created
      BY <2>1 DEF FilesWereAccepted, TypeOK, TaskFiles
    <3>2. \A j \in Ids : tasks'[j] # None =>
            \E q \in proposals' : Accepts(q, j, tasks'[j])
      BY <2>1, <2>7, <3>1 DEF WasAccepted
    <3>3. QED
      BY <3>2 DEF FilesWereAccepted, WasAccepted, Accepts, ActorOf
  <2>9. ProposalsAccept'
    BY <2>1, <2>2, <2>3, <2>7 DEF ProposalsAccept, Accepts, ActorOf
  <2>10. QED
    BY <2>4, <2>5, <2>6, <2>8, <2>9
<1>5. ASSUME NEW runner \in Runners, NEW id \in Ids, NEW call \in Calls,
             RunWorkflow(runner, id, call)
      PROVE  IInv'
  <2> DEFINE run == [id |-> id, call |-> call, rules |-> config,
                     actor |-> RunActor(tasks[id], call)]
  <2>1. /\ tasks[id] # None /\ MayRun(tasks[id], call)
        /\ running' = [running EXCEPT ![runner] = [id |-> id, copy |-> tasks[id]]]
        /\ runs' = runs \union {run}
        /\ UNCHANGED <<config, experts, tasks, proposals, edits>>
    BY <1>5 DEF RunWorkflow
  <2>2. tasks[id] \in TaskSpecs
    BY <2>1 DEF TypeOK, TaskFiles
  <2>3. TypeOK'
    BY <2>1, <2>2 DEF TypeOK
  <2>4. FilesWereAccepted'
    BY <2>1 DEF FilesWereAccepted, WasAccepted, Accepts, ActorOf
  <2>5. WasAccepted(id, tasks[id])
    BY <2>1 DEF FilesWereAccepted
  <2>6. CopiesWereAccepted'
    <3>1. \A r \in Runners : running'[r] # None =>
            \/ running'[r] = running[r] /\ running[r] # None
            \/ running'[r] = [id |-> id, copy |-> tasks[id]]
      BY <2>1 DEF TypeOK
    <3>2. \A r \in Runners : running'[r] # None =>
            WasAccepted(running'[r].id, running'[r].copy)
      BY <3>1, <2>5 DEF CopiesWereAccepted
    <3>3. QED
      BY <2>1, <3>2 DEF CopiesWereAccepted, WasAccepted, Accepts, ActorOf
  <2>7. PICK p \in proposals : Accepts(p, id, tasks[id])
    BY <2>5 DEF WasAccepted
  <2>8. Covers(run, p)
    <3>1. /\ run.id = id /\ run.call = call /\ run.rules = config
          /\ run.actor = RunActor(tasks[id], call)
      OBVIOUS
    <3>2. /\ p.id = id
          /\ tasks[id].planned = p.spec.planned
          /\ tasks[id].strict = p.spec.strict
      BY <2>7 DEF Accepts
    <3>3. \A path \in RunPaths(tasks[id], call) :
            ~Violates(RunActor(tasks[id], call), path, config,
                      call.strict \/ tasks[id].strict)
      BY <2>1 DEF MayRun, _workflow_path_preflight, check_paths, Violations
    <3> HIDE DEF run
    <3>4. QED
      BY <3>1, <3>2, <3>3 DEF Covers, RunPaths
  <2> HIDE DEF run
  <2>9. RunsAreCovered'
    BY <2>1, <2>8 DEF RunsAreCovered, Covers
  <2>10. QED
    BY <2>1, <2>3, <2>4, <2>6, <2>9, HistoryGrows
<1>6. ASSUME NEW runner \in Runners, FinishWorkflow(runner)
      PROVE  IInv'
  <2> DEFINE saved == running[runner]
  <2>1. /\ saved # None
        /\ tasks' = [tasks EXCEPT ![saved.id] = saved.copy]
        /\ running' = [running EXCEPT ![runner] = None]
        /\ UNCHANGED <<config, experts, proposals, runs, edits>>
    BY <1>6 DEF FinishWorkflow
  <2>2. saved.id \in Ids /\ saved.copy \in TaskSpecs
    BY <2>1 DEF TypeOK
  <2>3. WasAccepted(saved.id, saved.copy)
    BY <2>1 DEF CopiesWereAccepted
  <2> HIDE DEF saved
  <2>4. TypeOK'
    BY <2>1, <2>2 DEF TypeOK, TaskFiles
  <2>5. FilesWereAccepted'
    BY <2>1, <2>2, <2>3
       DEF FilesWereAccepted, TypeOK, TaskFiles, WasAccepted, Accepts, ActorOf
  <2>6. CopiesWereAccepted' /\ RunsAreCovered'
    BY <2>1 DEF CopiesWereAccepted, RunsAreCovered, TypeOK,
                WasAccepted, Accepts, ActorOf, Covers
  <2>7. QED
    BY <2>1, <2>4, <2>5, <2>6, HistoryGrows
<1>7. ASSUME NEW runner \in Runners, WorkflowTimeout(runner)
      PROVE  IInv'
  <2>1. /\ running' = [running EXCEPT ![runner] = None]
        /\ UNCHANGED <<config, experts, tasks, proposals, runs, edits>>
    BY <1>7 DEF WorkflowTimeout
  <2>2. TypeOK'
    BY <2>1 DEF TypeOK, TaskFiles
  <2>3. FilesWereAccepted' /\ CopiesWereAccepted' /\ RunsAreCovered'
    BY <2>1 DEF FilesWereAccepted, CopiesWereAccepted, RunsAreCovered,
                TypeOK, WasAccepted, Accepts, ActorOf, Covers
  <2>4. QED
    BY <2>1, <2>2, <2>3, HistoryGrows
<1>8. CASE UNCHANGED vars
  <2>1. TypeOK'
    BY <1>8 DEF vars, TypeOK, TaskFiles
  <2>2. QED
    BY <1>1, <1>8, <2>1 DEF vars
<1>9. QED
  BY <1>2, <1>3, <1>4, <1>5, <1>6, <1>7, <1>8 DEF Next

\* Every task on disk or in a running workflow was created by a proposal that
\* found its planned paths allowed for its actor, whatever the rules and the
\* requests (propose_next_task with path governance).
THEOREM CreatedTasksWereAccepted == Spec => []TasksWereAccepted
<1>1. IInv => TasksWereAccepted
  BY DEF IInv, TasksWereAccepted
<1>2. QED
  BY InitIInv, StepIInv, <1>1, PTL DEF Spec

\* No workflow is launched over a planned or an added path that the rules of
\* that moment deny its actor (run-workflow-task).
THEOREM LaunchedRunsAreCovered == Spec => []RunsAreCovered
<1>1. IInv => RunsAreCovered
  BY DEF IInv
<1>2. QED
  BY InitIInv, StepIInv, <1>1, PTL DEF Spec

\* The types of GovernedTask, for any profiles, rules, requests and arguments.
THEOREM TypeCorrect == Spec => []TypeOK
<1>1. IInv => TypeOK
  BY DEF IInv
<1>2. QED
  BY InitIInv, StepIInv, <1>1, PTL DEF Spec

-----------------------------------------------------------------------------
(* The two checks of a task, and its reroute.                              *)

\* What check_paths answers.
LEMMA CheckPaths ==
  ASSUME NEW actor, NEW paths, NEW rules, NEW strict,
         NEW bad, bad = Violations(actor, paths, rules, strict)
  PROVE  /\ check_paths(actor, paths, rules, strict).ok <=> bad = {}
         /\ check_paths(actor, paths, rules, strict).delegates
              = {DelegateOf(path, rules) : path \in bad}
BY DEF check_paths

\* While the rules stay, run-workflow-task passes what propose_next_task has
\* passed, when the task names its actor.
THEOREM PreflightsAgree == Spec => []ChecksAgree
<1>1. IInv => ChecksAgree
  <2> SUFFICES ASSUME ProposalsAccept, NEW id \in Ids, NEW p \in proposals,
                      InForce(p, id), tasks[id].actor # None
               PROVE  _workflow_path_preflight(tasks[id], NoArguments)
    BY DEF IInv, ChecksAgree
  <2>1. \A path \in tasks[id].planned :
          ~Violates(tasks[id].actor, path, config, tasks[id].strict)
    BY DEF ProposalsAccept, Accepts, ActorOf, InForce
  <2>2. /\ RunActor(tasks[id], NoArguments) = tasks[id].actor
        /\ RunPaths(tasks[id], NoArguments) = tasks[id].planned
        /\ ~NoArguments.strict
    BY DEF RunActor, RunPaths, NoArguments
  <2>3. Violations(tasks[id].actor, tasks[id].planned, config, tasks[id].strict) = {}
    BY <2>1 DEF Violations
  <2>4. tasks[id].strict \in BOOLEAN
    BY DEF ProposalsAccept, InForce, TaskSpecs
  <2>5. (NoArguments.strict \/ tasks[id].strict) = tasks[id].strict
    BY <2>2, <2>4
  <2>6. check_paths(tasks[id].actor, tasks[id].planned, config, tasks[id].strict).ok
    BY <2>3, CheckPaths
  <2>7. QED
    BY <2>2, <2>5, <2>6 DEF _workflow_path_preflight
<1>2. QED
  BY InitIInv, StepIInv, <1>1, PTL DEF Spec

\* One delegate is named when all violations name the same.
LEMMA OneDelegate ==
  ASSUME NEW e, e # None, NEW preflight, preflight.delegates = {e}
  PROVE  _single_delegate_profile(preflight) = e
<1>1. preflight.delegates \ {None} = {e}
  OBVIOUS
<1>2. Cardinality({e}) = 1
  BY FS_Singleton
<1>3. QED
  BY <1>1, <1>2 DEF _single_delegate_profile

\* propose_next_task blocks a task over its paths only when no registered
\* expert may write all of them and is the delegate of all that are denied.
THEOREM RerouteIsFound == Spec => []BlockedHasNoRoute
<1>1. TypeOK => BlockedHasNoRoute
  <2> SUFFICES ASSUME TypeOK, NEW spec \in Requests, NEW score \in [Profiles -> Scores],
                      Blocked(spec, score),
                      spec.actor \in {None, rank_experts(score)},
                      HasRoute(spec, rank_experts(score))
               PROVE  FALSE
    BY DEF BlockedHasNoRoute
  <2> DEFINE selected == rank_experts(score)
             preflight == _evaluate_path_governance(spec, selected, TRUE)
  <2>1. ~preflight.ok /\ ~Reroutes(spec, selected, preflight, TRUE)
    BY DEF Blocked, Routed, Outcome
  <2>2. spec.planned # {}
    BY <2>1 DEF _evaluate_path_governance, NoPaths
  <2> DEFINE bad == Violations(selected, spec.planned, config, spec.strict)
  <2>3. preflight = check_paths(selected, spec.planned, config, spec.strict)
    BY <2>2 DEF _evaluate_path_governance
  <2>4. bad # {} /\ preflight.delegates = {DelegateOf(path, config) : path \in bad}
    <3> DEFINE checked == check_paths(selected, spec.planned, config, spec.strict)
    <3>1. /\ checked.ok <=> bad = {}
          /\ checked.delegates = {DelegateOf(path, config) : path \in bad}
      BY CheckPaths
    <3> HIDE DEF preflight, checked, bad
    <3>2. QED
      BY <2>1, <2>3, <3>1 DEF checked
  <2>5. PICK e \in experts :
          /\ Violations(e, spec.planned, config, spec.strict) = {}
          /\ \A path \in bad : DelegateOf(path, config) = e
    BY DEF HasRoute
  <2>6. e # None /\ e # selected
    BY <2>4, <2>5, ProfilesAssumption DEF TypeOK
  <2>7. preflight.delegates = {e}
    BY <2>4, <2>5
  <2>8. _single_delegate_profile(preflight) = e
    BY <2>6, <2>7, OneDelegate
  <2> HIDE DEF preflight
  <2>9. _evaluate_path_governance(_correct_task_spec_for_delegate(spec, e), e, TRUE).ok
    <3> DEFINE corrected == [spec EXCEPT !.actor = e]
    <3>1. corrected.planned = spec.planned /\ corrected.strict = spec.strict
      OBVIOUS
    <3>2. (IF corrected.actor = None THEN e ELSE corrected.actor) = e
      OBVIOUS
    <3>3. _evaluate_path_governance(corrected, e, TRUE)
            = check_paths(e, spec.planned, config, spec.strict)
      BY <2>2, <3>1, <3>2 DEF _evaluate_path_governance
    <3>4. check_paths(e, spec.planned, config, spec.strict).ok
      BY <2>5, CheckPaths
    <3>5. QED
      BY <3>3, <3>4 DEF _correct_task_spec_for_delegate
  <2>10. QED
    BY <2>1, <2>5, <2>6, <2>8, <2>9 DEF Reroutes
<1>2. QED
  BY TypeCorrect, <1>1, PTL

-----------------------------------------------------------------------------
(* Which rule is found: the numbers, the sum that is the length of a       *)
(* pattern, and the choice of the longest.  The sum is a fold; h below is  *)
(* the function the fold is defined by.                                    *)

\* The naturals are well-founded.
LEMMA LeastNumber ==
  ASSUME NEW S \in SUBSET Nat, S # {}
  PROVE  \E n \in S : \A m \in S : n <= m
<1> DEFINE Less == OpToRel(<, Nat)
<1>1. IsWellFoundedOn(Less, Nat)
  BY NatLessThanWellFounded
<1>2. \A x, y \in Nat : (<<x, y>> \in Less) <=> (x < y)
  BY DEF OpToRel
<1> HIDE DEF Less
<1>3. \E x \in S : \A y \in S : ~ (<<y, x>> \in Less)
  BY <1>1, WFMin
<1>4. PICK n \in S : \A m \in S : ~ (<<m, n>> \in Less)
  BY <1>3
<1>5. ASSUME NEW m \in S PROVE n <= m
  <2>1. m \in Nat /\ n \in Nat
    OBVIOUS
  <2>2. ~ (m < n)
    BY <1>2, <1>4, <2>1
  <2>3. QED
    BY <2>1, <2>2
<1>6. QED
  BY <1>5

\* A set of numbers with 0 and the successor of each of its members has all.
LEMMA SetInduction ==
  ASSUME NEW S \in SUBSET Nat, 0 \in S, \A n \in S : n + 1 \in S
  PROVE  S = Nat
<1>1. SUFFICES ASSUME Nat \ S # {}
               PROVE  FALSE
  OBVIOUS
<1>2. PICK n \in Nat \ S : \A m \in Nat \ S : n <= m
  BY <1>1, LeastNumber
<1>3. n - 1 \in Nat /\ n - 1 \in S
  BY <1>2
<1>4. QED
  BY <1>2, <1>3

\* Max chooses the greatest of a bounded set of numbers.
LEMMA GreatestNumber ==
  ASSUME NEW S \in SUBSET Nat, S # {}, NEW k \in Nat, \A m \in S : m <= k
  PROVE  /\ Max(S) \in S
         /\ \A m \in S : Max(S) >= m
<1> DEFINE Gaps == {k - m : m \in S}
<1>1. Gaps \in SUBSET Nat /\ Gaps # {}
  <2>1. ASSUME NEW m \in S PROVE k - m \in Nat
    <3>1. m \in Nat /\ m <= k
      OBVIOUS
    <3>2. QED
      BY <3>1
  <2>2. QED
    BY <2>1
<1>2. PICK d \in Gaps : \A e \in Gaps : d <= e
  BY <1>1, LeastNumber
<1>3. PICK n \in S : d = k - n
  BY <1>2
<1>4. \A m \in S : n >= m
  BY <1>2, <1>3
<1>5. QED
  BY <1>4 DEF Max

LEMMA LeastIsMin ==
  ASSUME NEW S \in SUBSET Nat, S # {}
  PROVE  /\ Min(S) \in S
         /\ \A m \in S : Min(S) <= m
BY LeastNumber DEF Min

Weight(s, b) == FoldLeft(LAMBDA n, name : n + 1 + Characters[name], b, s)

\* h adds up the weights of the names at any positions up to n.
Sums(h, s, n, b) ==
  h = [t \in SUBSET (1..n) |-> IF t = {} THEN b
                               ELSE h[t \ {Max(t)}] + 1 + Characters[s[Max(t)]]]

\* The fold is the value at all positions of a function that Sums.
LEMMA WeightIs ==
  ASSUME NEW s \in Seq(DOMAIN Characters), NEW b
  PROVE  Weight(s, b) = (CHOOSE h : Sums(h, s, Len(s), b))[1..Len(s)]
<1>1. DOMAIN s = 1..Len(s)
  OBVIOUS
<1>2. Weight(s, b) = (CHOOSE h : h = [t \in SUBSET (DOMAIN s) |->
                           IF t = {} THEN b
                           ELSE h[t \ {Max(t)}] + 1 + Characters[s[Max(t)]]])[DOMAIN s]
  BY DEF Weight, FoldLeft, MapThenFoldSet
<1>3. QED
  BY <1>1, <1>2 DEF Sums

\* The length of a pattern is a sum that begins with its wildcard.
LEMMA LengthIs ==
  ASSUME NEW q
  PROVE  Length(q) = Weight(q.dir, Ending(q))
BY DEF Weight, Length

LEMMA LastPosition == ASSUME NEW k \in Nat \ {0} PROVE Max(1..k) = k
<1> DEFINE S == 1..k
<1>1. S \in SUBSET Nat /\ S # {} /\ k \in S /\ (\A m \in S : m <= k)
  OBVIOUS
<1> HIDE DEF S
<1>2. Max(S) \in S /\ Max(S) >= k
  BY <1>1, GreatestNumber
<1>3. QED
  BY <1>2 DEF S

\* From the first n names to the first n + 1.
LEMMA SumsExtend ==
  ASSUME NEW s \in Seq(DOMAIN Characters), NEW b, NEW n \in Nat,
         NEW h, Sums(h, s, n, b)
  PROVE  \E g : Sums(g, s, n + 1, b)
<1> DEFINE g == [t \in SUBSET (1..(n + 1)) |->
                   IF n + 1 \in t THEN h[t \ {n + 1}] + 1 + Characters[s[n + 1]]
                   ELSE h[t]]
<1> DEFINE f == [t \in SUBSET (1..(n + 1)) |->
                   IF t = {} THEN b
                   ELSE g[t \ {Max(t)}] + 1 + Characters[s[Max(t)]]]
<1>1. ASSUME NEW t \in SUBSET (1..(n + 1)) PROVE g[t] = f[t]
  <2>0. t \in SUBSET Nat /\ n + 1 \in Nat /\ \A m \in t : m <= n + 1
    OBVIOUS
  <2>1. CASE t = {}
    <3>1. h[t] = b
      BY <2>1 DEF Sums
    <3>2. QED
      BY <2>1, <3>1
  <2>2. CASE n + 1 \in t
    <3>1. Max(t) \in t /\ Max(t) >= n + 1
      BY <2>0, <2>2, GreatestNumber
    <3>2. Max(t) = n + 1
      <4>1. Max(t) \in Nat /\ Max(t) <= n + 1
        BY <3>1, <2>0
      <4>2. QED
        BY <3>1, <4>1
    <3>3. t \ {n + 1} \in SUBSET (1..n)
      OBVIOUS
    <3>4. g[t \ {n + 1}] = h[t \ {n + 1}]
      BY <3>3
    <3>5. QED
      BY <2>2, <3>2, <3>4
  <2>3. CASE t # {} /\ n + 1 \notin t
    <3>1. t \in SUBSET (1..n)
      BY <2>3
    <3>2. Max(t) \in t
      BY <2>0, <2>3, GreatestNumber
    <3>3. h[t] = h[t \ {Max(t)}] + 1 + Characters[s[Max(t)]]
      BY <2>3, <3>1 DEF Sums
    <3>4. g[t \ {Max(t)}] = h[t \ {Max(t)}]
      BY <2>3
    <3>5. QED
      BY <2>3, <3>3, <3>4
  <2>4. QED
    BY <2>1, <2>2, <2>3
<1>2. g = f
  BY <1>1
<1>3. Sums(g, s, n + 1, b)
  BY <1>2 DEF Sums
<1>4. QED
  BY <1>3

LEMMA SumsExist ==
  ASSUME NEW s \in Seq(DOMAIN Characters), NEW b, NEW n \in Nat
  PROVE  \E h : Sums(h, s, n, b)
<1> DEFINE S == {k \in Nat : \E h : Sums(h, s, k, b)}
<1>1. 0 \in S
  <2> DEFINE h == [t \in SUBSET (1..0) |-> b]
  <2> DEFINE f == [t \in SUBSET (1..0) |-> IF t = {} THEN b
                      ELSE h[t \ {Max(t)}] + 1 + Characters[s[Max(t)]]]
  <2>1. \A t \in SUBSET (1..0) : t = {}
    OBVIOUS
  <2>2. h = f
    BY <2>1
  <2>3. Sums(h, s, 0, b)
    BY <2>2 DEF Sums
  <2>4. QED
    BY <2>3
<1>2. \A k \in S : k + 1 \in S
  BY SumsExtend
<1> HIDE DEF S
<1>3. S \in SUBSET Nat
  BY DEF S
<1>4. S = Nat
  BY <1>1, <1>2, <1>3, SetInduction
<1>5. QED
  BY <1>4 DEF S

\* The name at j adds its length and a slash.
LEMMA SumsStep ==
  ASSUME NEW s \in Seq(DOMAIN Characters), NEW b, NEW n \in Nat, NEW h, Sums(h, s, n, b),
         NEW k \in Nat, NEW j \in Nat, j = k + 1, j <= n
  PROVE  h[1..j] = h[1..k] + 1 + Characters[s[j]]
<1>1. 1..j \in SUBSET (1..n) /\ j \in 1..j
  OBVIOUS
<1>2. Max(1..j) = j
  BY LastPosition
<1>3. (1..j) \ {j} = 1..k
  OBVIOUS
<1>4. PICK t \in SUBSET (1..n) : t = 1..j
  BY <1>1
<1>5. h[t] = h[t \ {Max(t)}] + 1 + Characters[s[Max(t)]]
  <2>1. t # {}
    BY <1>1, <1>4
  <2>2. QED
    BY <2>1 DEF Sums
<1>6. QED
  BY <1>2, <1>3, <1>4, <1>5

\* What a name adds does not depend on where the sum began.
LEMMA SumsAgree ==
  ASSUME NEW s \in Seq(DOMAIN Characters), NEW b \in Nat, NEW n \in Nat,
         n <= Len(s), NEW h, Sums(h, s, n, b),
         NEW r \in Seq(DOMAIN Characters), NEW c \in Nat, NEW m \in Nat,
         m <= Len(r), NEW g, Sums(g, r, m, c), m <= n, \A i \in 1..m : r[i] = s[i],
         NEW k \in Nat, k <= m
  PROVE  h[1..k] \in Nat /\ g[1..k] \in Nat /\ h[1..k] + c = g[1..k] + b
<1> DEFINE P(i) == i <= m => h[1..i] \in Nat /\ g[1..i] \in Nat /\ h[1..i] + c = g[1..i] + b
<1> DEFINE S == {i \in Nat : P(i)}
<1>1. 0 \in S
  <2>1. 1..0 = {}
    OBVIOUS
  <2>2. h[{}] = b /\ g[{}] = c
    BY DEF Sums
  <2>3. QED
    BY <2>1, <2>2
<1>2. ASSUME NEW i \in S PROVE i + 1 \in S
  <2>1. CASE ~ (i + 1 <= m)
    BY <2>1
  <2>2. CASE i + 1 <= m
    <3>1. PICK j \in Nat : j = i + 1
      OBVIOUS
    <3>2. i \in Nat /\ i <= m /\ j <= m /\ j <= n
      BY <2>2, <3>1
    <3>3. h[1..j] = h[1..i] + 1 + Characters[s[j]]
      BY <3>1, <3>2, SumsStep
    <3>4. g[1..j] = g[1..i] + 1 + Characters[r[j]]
      BY <3>1, <3>2, SumsStep
    <3>5. PICK w \in Nat : w = Characters[s[j]]
      <4>1. j \in 1..m /\ j \in 1..Len(s)
        BY <3>1, <3>2
      <4>2. s[j] \in DOMAIN Characters
        BY <4>1
      <4>3. QED
        BY <4>2, CharactersAssumption
    <3>6. r[j] = s[j]
      BY <3>1, <3>2
    <3>7. P(i)
      OBVIOUS
    <3>8. PICK x \in Nat : x = h[1..i]
      BY <3>2, <3>7
    <3>9. PICK y \in Nat : y = g[1..i]
      BY <3>2, <3>7
    <3>10. x + c = y + b
      BY <3>2, <3>7, <3>8, <3>9
    <3>11. h[1..j] = x + 1 + w /\ g[1..j] = y + 1 + w
      BY <3>3, <3>4, <3>5, <3>6, <3>8, <3>9
    <3>12. x + 1 + w \in Nat /\ y + 1 + w \in Nat /\ (x + 1 + w) + c = (y + 1 + w) + b
      BY ONLY <3>10, x \in Nat, y \in Nat, w \in Nat, b \in Nat, c \in Nat
    <3>13. P(j)
      BY <3>11, <3>12
    <3>14. QED
      BY <3>1, <3>13
  <2>3. QED
    BY <2>1, <2>2
<1> HIDE DEF S
<1>3. S \in SUBSET Nat
  BY DEF S
<1>4. S = Nat
  BY <1>1, <1>2, <1>3, SetInduction
<1>5. k \in S
  BY <1>4
<1>6. P(k)
  BY <1>5 DEF S
<1>7. QED
  BY <1>6

LEMMA SumsAreNumbers ==
  ASSUME NEW s \in Seq(DOMAIN Characters), NEW b \in Nat, NEW n \in Nat,
         n <= Len(s), NEW h, Sums(h, s, n, b), NEW k \in Nat, k <= n
  PROVE  h[1..k] \in Nat
<1>1. (\A i \in 1..n : s[i] = s[i]) /\ n <= n
  OBVIOUS
<1>2. QED
  BY <1>1, SumsAgree, ZenonT(30)

LEMMA SumsChosen ==
  ASSUME NEW s \in Seq(DOMAIN Characters), NEW b
  PROVE  Sums(CHOOSE h : Sums(h, s, Len(s), b), s, Len(s), b)
<1>1. Len(s) \in Nat
  OBVIOUS
<1>2. \E h : Sums(h, s, Len(s), b)
  BY <1>1, SumsExist
<1>3. QED
  BY <1>2

\* The weights of the beginnings of s.
WeightsOf(s) == CHOOSE h : Sums(h, s, Len(s), 0)

UpTo(s, k) == WeightsOf(s)[1..k]

\* The weight of a beginning r of s, whatever it is added to.
LEMMA PrefixWeight ==
  ASSUME NEW s \in Seq(DOMAIN Characters), NEW r \in Seq(DOMAIN Characters),
         Len(r) <= Len(s), \A i \in 1..Len(r) : r[i] = s[i], NEW b \in Nat
  PROVE  /\ UpTo(s, Len(r)) \in Nat
         /\ Weight(r, b) = UpTo(s, Len(r)) + b
<1>1. PICK h : h = WeightsOf(s)
  OBVIOUS
<1>2. PICK g : g = (CHOOSE f : Sums(f, r, Len(r), b))
  OBVIOUS
<1>3. Sums(h, s, Len(s), 0)
  BY <1>1, SumsChosen DEF WeightsOf
<1>4. Sums(g, r, Len(r), b)
  BY <1>2, SumsChosen
<1>5. h[1..Len(r)] \in Nat /\ g[1..Len(r)] \in Nat /\ h[1..Len(r)] + b = g[1..Len(r)] + 0
  BY <1>3, <1>4, SumsAgree
<1>6. Weight(r, b) = g[1..Len(r)]
  BY <1>2, WeightIs
<1>7. QED
  BY <1>1, <1>5, <1>6 DEF UpTo

LEMMA UpToStep ==
  ASSUME NEW s \in Seq(DOMAIN Characters), NEW k \in Nat, NEW j \in Nat,
         j = k + 1, j <= Len(s)
  PROVE  /\ UpTo(s, k) \in Nat /\ UpTo(s, j) \in Nat /\ Characters[s[j]] \in Nat
         /\ UpTo(s, j) = UpTo(s, k) + 1 + Characters[s[j]]
<1>1. PICK h : h = WeightsOf(s)
  OBVIOUS
<1>2. PICK n \in Nat : n = Len(s)
  OBVIOUS
<1>3. Sums(h, s, n, 0)
  BY <1>1, <1>2, SumsChosen DEF WeightsOf
<1>4. h[1..j] = h[1..k] + 1 + Characters[s[j]]
  BY <1>2, <1>3, SumsStep
<1>5. h[1..k] \in Nat
  <2>1. n <= Len(s) /\ k <= n /\ 0 \in Nat
    BY <1>2
  <2>2. QED
    BY <1>3, <2>1, SumsAreNumbers
<1>6. s[j] \in DOMAIN Characters
  OBVIOUS
<1>7. Characters[s[j]] \in Nat
  BY <1>6, CharactersAssumption
<1>8. QED
  BY <1>1, <1>4, <1>5, <1>7 DEF UpTo

\* A longer beginning weighs more.
LEMMA UpToGrows ==
  ASSUME NEW s \in Seq(DOMAIN Characters), NEW j \in Nat, NEW k \in Nat,
         j <= k, k <= Len(s)
  PROVE  /\ UpTo(s, j) \in Nat /\ UpTo(s, k) \in Nat
         /\ UpTo(s, j) <= UpTo(s, k)
         /\ j < k => UpTo(s, j) < UpTo(s, k)
<1> DEFINE P(i) == j <= i /\ i <= Len(s) =>
              /\ UpTo(s, j) \in Nat /\ UpTo(s, i) \in Nat
              /\ UpTo(s, j) <= UpTo(s, i)
              /\ j < i => UpTo(s, j) < UpTo(s, i)
<1> DEFINE S == {i \in Nat : P(i)}
<1>1. UpTo(s, j) \in Nat
  <2>1. PICK h : h = WeightsOf(s)
    OBVIOUS
  <2>2. PICK n \in Nat : n = Len(s)
    OBVIOUS
  <2>3. Sums(h, s, n, 0)
    BY <2>1, <2>2, SumsChosen DEF WeightsOf
  <2>4. n <= Len(s) /\ j <= n /\ 0 \in Nat
    BY <2>2
  <2>5. h[1..j] \in Nat
    BY <2>3, <2>4, SumsAreNumbers
  <2>6. QED
    BY <2>1, <2>5 DEF UpTo
<1>2. 0 \in S
  BY <1>1
<1>3. ASSUME NEW i \in S PROVE i + 1 \in S
  <2>1. CASE ~ (j <= i /\ i + 1 <= Len(s))
    <3>1. i + 1 = j \/ ~ (j <= i + 1 /\ i + 1 <= Len(s))
      BY <2>1
    <3>2. QED
      BY <1>1, <3>1
  <2>2. CASE j <= i /\ i + 1 <= Len(s)
    <3>1. PICK n \in Nat : n = i + 1
      OBVIOUS
    <3>2. /\ UpTo(s, i) \in Nat /\ UpTo(s, n) \in Nat /\ Characters[s[n]] \in Nat
          /\ UpTo(s, n) = UpTo(s, i) + 1 + Characters[s[n]]
      BY <2>2, <3>1, UpToStep
    <3>3. P(i) /\ i <= Len(s)
      BY <2>2
    <3>4. UpTo(s, j) <= UpTo(s, i)
      BY <2>2, <3>3
    <3>5. P(n)
      BY <1>1, <3>2, <3>4
    <3>6. QED
      BY <3>1, <3>5
  <2>3. QED
    BY <2>1, <2>2
<1> HIDE DEF S
<1>4. S \in SUBSET Nat
  BY DEF S
<1>5. S = Nat
  BY <1>2, <1>3, <1>4, SetInduction
<1>6. P(k)
  BY <1>5 DEF S
<1>7. QED
  BY <1>6

\* A pattern that matches weighs what the path weighs up to its end.
LEMMA MatchWeighs ==
  ASSUME NEW p \in Seq(DOMAIN Characters), p # <<>>, NEW q \in Patterns, FnMatch(p, q)
  PROVE  /\ Len(q.dir) \in Nat
         /\ UpTo(p, Len(q.dir)) \in Nat
         /\ q.below => Len(q.dir) < Len(p) /\ Length(q) = UpTo(p, Len(q.dir)) + 3
         /\ ~ q.below => q.dir = p /\ Length(q) = UpTo(p, Len(p))
<1>1. q.dir \in Seq(DOMAIN Characters) /\ q.below \in BOOLEAN
  BY DEF Patterns
<1>2. PICK r \in Seq(DOMAIN Characters) : r = q.dir
  BY <1>1
<1>3. Len(r) \in Nat /\ Len(p) \in Nat
  OBVIOUS
<1>4. Len(r) <= Len(p) /\ \A i \in 1..Len(r) : r[i] = p[i]
  <2>1. CASE q.below
    <3>1. Len(r) <= Len(p) /\ SubSeq(r, 1, Len(r)) = SubSeq(p, 1, Len(r))
      BY <1>2, <2>1 DEF FnMatch, IsPrefix
    <3>2. ASSUME NEW i \in 1..Len(r) PROVE r[i] = p[i]
      <4>1. SubSeq(r, 1, Len(r))[i] = r[i]
        OBVIOUS
      <4>2. SubSeq(p, 1, Len(r))[i] = p[i]
        BY <3>1
      <4>3. QED
        BY <3>1, <4>1, <4>2
    <3>3. QED
      BY <3>1, <3>2
  <2>2. CASE ~ q.below
    BY <1>2, <2>2 DEF FnMatch
  <2>3. QED
    BY <2>1, <2>2
<1>5. UpTo(p, Len(r)) \in Nat /\ Weight(r, 0) = UpTo(p, Len(r)) + 0
  BY <1>4, PrefixWeight
<1>6. Weight(r, 3) = UpTo(p, Len(r)) + 3
  BY <1>4, PrefixWeight
<1>7. CASE q.below
  <2>1. r # p
    BY <1>2, <1>7 DEF FnMatch
  <2>2. Len(r) # Len(p)
    BY <1>4, <2>1
  <2>3. Length(q) = Weight(r, 3)
    BY <1>2, <1>7, LengthIs DEF Ending
  <2>4. QED
    BY <1>2, <1>3, <1>4, <1>5, <1>6, <1>7, <2>2, <2>3
<1>8. CASE ~ q.below
  <2>1. r = p
    BY <1>2, <1>8 DEF FnMatch
  <2>2. Length(q) = Weight(r, 0)
    BY <1>2, <1>8, <2>1, LengthIs DEF Ending
  <2>3. QED
    BY <1>2, <1>3, <1>5, <1>8, <2>1, <2>2
<1>9. QED
  BY <1>7, <1>8

\* Of two patterns that match, the one of the longer text is no shallower.
LEMMA LongerIsDeeper ==
  ASSUME NEW p \in Seq(DOMAIN Characters), p # <<>>, Characters[p[Len(p)]] > 2,
         NEW best \in Patterns, FnMatch(p, best),
         NEW q \in Patterns, FnMatch(p, q), Length(best) >= Length(q)
  PROVE  Depth(best) >= Depth(q)
<1>1. Len(p) \in Nat /\ Len(p) # 0
  OBVIOUS
<1>2. PICK m \in Nat : m = Len(p)
  BY <1>1
<1> PICK n \in Nat : m = n + 1
  <2>1. m - 1 \in Nat /\ m = (m - 1) + 1
    BY <1>1, <1>2
  <2>2. QED
    BY <2>1
<1>3. best.below \in BOOLEAN /\ q.below \in BOOLEAN
  BY DEF Patterns
<1>4. CASE ~ best.below
  <2>1. best.dir = p /\ Depth(best) = Len(p) + 1
    BY <1>1, <1>4, MatchWeighs DEF Depth
  <2>2. Len(q.dir) \in Nat /\ Len(q.dir) <= Len(p)
    BY <1>1, <1>3, MatchWeighs
  <2>3. Depth(q) <= Len(p) + 1
    <3>1. CASE q.below
      BY <1>1, <2>2, <3>1 DEF Depth
    <3>2. CASE ~ q.below
      BY <1>1, <2>2, <3>2 DEF Depth
    <3>3. QED
      BY <1>3, <3>1, <3>2
  <2>4. Depth(q) \in Nat
    <3>1. CASE q.below
      BY <1>1, <2>2, <3>1 DEF Depth
    <3>2. CASE ~ q.below
      BY <1>1, <2>2, <3>2 DEF Depth
    <3>3. QED
      BY <1>3, <3>1, <3>2
  <2>5. QED
    BY <1>1, <2>1, <2>3, <2>4
<1>5. CASE best.below /\ q.below
  <2>1. PICK i \in Nat : i = Len(best.dir)
    BY MatchWeighs
  <2>2. PICK j \in Nat : j = Len(q.dir)
    BY MatchWeighs
  <2>3. i < Len(p) /\ Length(best) = UpTo(p, i) + 3 /\ UpTo(p, i) \in Nat
    BY <1>5, <2>1, MatchWeighs
  <2>4. j < Len(p) /\ Length(q) = UpTo(p, j) + 3 /\ UpTo(p, j) \in Nat
    BY <1>5, <2>2, MatchWeighs
  <2>5. ~ (i < j)
    <3>1. SUFFICES ASSUME i < j PROVE FALSE
      OBVIOUS
    <3>2. UpTo(p, i) < UpTo(p, j)
      BY <1>1, <2>4, <3>1, UpToGrows
    <3>3. QED
      BY <2>3, <2>4, <3>2
  <2>6. QED
    BY <1>5, <2>1, <2>2, <2>5 DEF Depth
<1>6. CASE best.below /\ ~ q.below
  <2>1. PICK i \in Nat : i = Len(best.dir)
    BY MatchWeighs
  <2>2. i < Len(p) /\ Length(best) = UpTo(p, i) + 3 /\ UpTo(p, i) \in Nat
    BY <1>6, <2>1, MatchWeighs
  <2>3. Length(q) = UpTo(p, m)
    BY <1>2, <1>6, MatchWeighs
  <2>4. i <= n /\ n <= Len(p) /\ m <= Len(p)
    BY <1>2, <2>2
  <2>5. UpTo(p, i) <= UpTo(p, n)
    BY <2>4, UpToGrows
  <2>6. /\ UpTo(p, n) \in Nat /\ Characters[p[m]] \in Nat
        /\ UpTo(p, m) = UpTo(p, n) + 1 + Characters[p[m]]
    BY <2>4, UpToStep
  <2>7. Characters[p[m]] > 2
    BY <1>2
  <2>8. QED
    BY <2>2, <2>3, <2>5, <2>6, <2>7
<1>7. QED
  BY <1>3, <1>4, <1>5, <1>6

LEMMA RulesHavePatterns ==
  ASSUME NEW rules \in Seq(Rules), NEW i \in DOMAIN rules
  PROVE  rules[i].match \in SUBSET Patterns
<1>1. rules[i] \in Rules
  OBVIOUS
<1>2. QED
  BY <1>1 DEF Rules

\* The rule that is found has a longest one of the patterns that match.
LEMMA BestIsLongest ==
  ASSUME NEW p \in Seq(DOMAIN Characters), p # <<>>, NEW rules \in Seq(Rules),
         NEW j \in DOMAIN rules, NEW q \in rules[j].match, FnMatch(p, q)
  PROVE  \E best \in rules[best_rule_for_path(p, rules)].match :
           FnMatch(p, best) /\ Length(best) >= Length(q)
<1> DEFINE C == Candidates(p, rules)
<1> DEFINE Lengths == {c[1] : c \in C}
<1> DEFINE Best == {c[2] : c \in {d \in C : d[1] = Max(Lengths)}}
<1>1. \A i \in DOMAIN rules : rules[i].match \in SUBSET Patterns
  BY RulesHavePatterns
<1>2. DOMAIN rules \in SUBSET Nat
  OBVIOUS
<1>3. \A c : c \in C => \E i \in DOMAIN rules : \E r \in rules[i].match :
                         FnMatch(p, r) /\ c = <<Length(r), i>>
  BY DEF Candidates
<1>4. <<Length(q), j>> \in C
  BY DEF Candidates
<1>5. PICK k \in Nat : k = UpTo(p, Len(p)) + 3
  <2>1. UpTo(p, Len(p)) \in Nat
    BY UpToGrows
  <2>2. QED
    BY <2>1
<1>6. ASSUME NEW c \in C PROVE c[1] \in Nat /\ c[1] <= k /\ c[2] \in Nat
  <2>0. PICK i \in DOMAIN rules : \E r \in rules[i].match :
          FnMatch(p, r) /\ c = <<Length(r), i>>
    BY <1>3
  <2>1. PICK r \in rules[i].match : FnMatch(p, r) /\ c = <<Length(r), i>>
    BY <2>0
  <2>2. r \in Patterns
    BY <1>1
  <2>3. PICK m \in Nat : m = Len(r.dir)
    BY <2>1, <2>2, MatchWeighs
  <2>4. m <= Len(p) /\ UpTo(p, m) \in Nat
    BY <2>1, <2>2, <2>3, MatchWeighs DEF Patterns
  <2>5. UpTo(p, m) <= UpTo(p, Len(p)) /\ UpTo(p, Len(p)) \in Nat
    <3>1. PICK n \in Nat : n = Len(p)
      OBVIOUS
    <3>2. m <= n /\ n <= Len(p)
      BY <2>4, <3>1
    <3>3. QED
      BY <3>1, <3>2, UpToGrows
  <2>6. Length(r) = UpTo(p, m) + 3 \/ Length(r) = UpTo(p, Len(p))
    BY <2>1, <2>2, <2>3, MatchWeighs DEF Patterns
  <2>7. Length(r) \in Nat /\ Length(r) <= k
    BY <1>5, <2>4, <2>5, <2>6
  <2>8. c[1] = Length(r) /\ c[2] = i
    BY <2>1
  <2>9. QED
    BY <1>2, <2>7, <2>8
<1>7. best_rule_for_path(p, rules) = Min(Best)
  BY <1>4 DEF best_rule_for_path
<1> HIDE DEF C
<1>8. Lengths \in SUBSET Nat /\ Length(q) \in Lengths /\ \A n \in Lengths : n <= k
  BY <1>4, <1>6
<1> HIDE DEF Lengths
<1>9. Max(Lengths) \in Lengths /\ Max(Lengths) >= Length(q)
  BY <1>8, GreatestNumber
<1>10. Best \in SUBSET Nat /\ Best # {}
  BY <1>6, <1>9 DEF Lengths
<1>11. Min(Best) \in Best
  <2> HIDE DEF Best
  <2>1. QED
    BY <1>10, LeastIsMin
<1>12. PICK c \in C : c[1] = Max(Lengths) /\ c[2] = Min(Best)
  BY <1>11
<1> HIDE DEF Best
<1>13. PICK i \in DOMAIN rules : \E r \in rules[i].match :
          FnMatch(p, r) /\ c = <<Length(r), i>>
  BY <1>3
<1>14. PICK r \in rules[i].match : FnMatch(p, r) /\ c = <<Length(r), i>>
  BY <1>13
<1>15. Length(r) = Max(Lengths) /\ i = Min(Best)
  BY <1>12, <1>14
<1>16. QED
  BY <1>7, <1>9, <1>14, <1>15

\* Whatever rules the file may hold: of the rules that match a path, the one
\* that decides names the path itself or the deepest directory, unless the
\* path's last name is as short as the text of the wildcard
\* (best_rule_for_path).
THEOREM DeepestRuleDecides == Spec => []DeeperRuleWins
<1>1. config \in Configs => DeeperRuleWins
  <2>1. SUFFICES ASSUME config \in Configs,
                        NEW path \in Paths, NEW i \in DOMAIN config, NEW j \in DOMAIN config,
                        best_rule_for_path(Names(path), config) = i,
                        Names(path) # <<>>, Characters[Last(Names(path))] > 2,
                        NEW q \in config[j].match, FnMatch(Names(path), q)
                 PROVE  \E best \in config[i].match :
                          /\ FnMatch(Names(path), best)
                          /\ Depth(best) >= Depth(q)
    BY DEF DeeperRuleWins
  <2>2. config \in Seq(Rules)
    BY <2>1, RulesAssumption
  <2>3. \A n \in DOMAIN config : config[n].match \in SUBSET Patterns
    BY <2>2, RulesHavePatterns
  <2>4. PICK p \in Seq(DOMAIN Characters) : p = Names(path)
    BY PathsAssumption DEF Paths, Names
  <2>5. Characters[p[Len(p)]] > 2
    BY <2>1, <2>4 DEF Last
  <2>6. PICK best \in config[i].match : FnMatch(p, best) /\ Length(best) >= Length(q)
    BY <2>1, <2>2, <2>4, BestIsLongest
  <2>7. Depth(best) >= Depth(q)
    BY <2>1, <2>3, <2>4, <2>5, <2>6, LongerIsDeeper
  <2>8. QED
    BY <2>4, <2>6, <2>7
<1>2. TypeOK => DeeperRuleWins
  BY <1>1 DEF TypeOK
<1>3. QED
  BY <1>2, TypeCorrect, PTL
=============================================================================
