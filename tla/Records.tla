------------------------------ MODULE Records -------------------------------
(***************************************************************************)
(* The other files of the workspace: clerks run the intake command,        *)
(* register experts, and ask for and resolve a human approval, while the   *)
(* daily registry health (adl_registry_health.py) registers the default    *)
(* experts anew and reports.                                               *)
(*                                                                         *)
(* The health script and the register-default-experts it waits for are one *)
(* process of Store.  There is one approval here: the hash of its goal,    *)
(* task, type and question.                                                *)
(***************************************************************************)
EXTENDS FrontDesk, SequencesExt

CONSTANTS
  Clerks,    \* processes that run commands
  Health,    \* processes that run the registry health
  Defaults,  \* the default experts, in their order
  Contexts,  \* contexts of the approval (not part of its id)
  None,
  Workloads  \* bound: how many commands of each kind clerks run

Kinds == {"intake", "experts", "approval"}

ASSUME RecordsAssumption ==
  /\ None \notin Contexts /\ None # "ok" /\ Workloads \subseteq [Kinds -> Nat]
  /\ Clerks \intersect Health = {} /\ Defaults \in Seq(ToSet(Defaults))

VARIABLES
  todo,     \* process |-> its register-default-experts: experts left, --overwrite
  copy,     \* clerk |-> the approval it has in memory, or None
  health,   \* health process |-> it is at work
  report,   \* health process |-> its last report, or None
  touched,  \* history: health process |-> experts saved since its report's run
            \* began, by others or by a run that came to no report
  granted,  \* history: contexts of which somebody approved
  ops       \* bound: kind |-> commands clerks may still run

recordsVars == <<todo, copy, health, report, touched, granted, ops>>
vars == <<deskVars, faults, recordsVars>>

Procs == Clerks \union Health

ExpertKey(e) == <<"Expert", e>>
ApprovalKey == <<"Approval", 0>>
ExpertKeys == {ExpertKey(e) : e \in ToSet(Defaults)}

Approvals == [status : {"pending", "approved", "rejected"}, context : Contexts]

ExpertFiles == {"default", "custom"}

\* What is saved can be read.
ASSUME ContentsAssumption ==
  /\ None \notin Approvals
  /\ \A approval \in Approvals : approval \notin Unreadable \union {Invalid}
  /\ \A expert \in ExpertFiles : expert \notin Unreadable \union {Invalid}

NothingLeft == [left |-> <<>>, overwrite |-> FALSE]

Init ==
  /\ file = [key \in DeskKeys \union ExpertKeys \union {ApprovalKey} |-> Absent]
  /\ plan = [p \in Procs |-> <<>>]
  /\ opened = [p \in Procs |-> FALSE]
  /\ failed = [p \in Procs |-> FALSE]
  /\ asked = {} /\ lost = {} /\ faults = 0
  /\ todo = [p \in Procs |-> NothingLeft]
  /\ copy = [p \in Clerks |-> None]
  /\ health = [h \in Health |-> FALSE]
  /\ report = [h \in Health |-> None]
  /\ touched = [h \in Health |-> {}]
  /\ granted = {} /\ ops \in Workloads

Idle(p) == plan[p] = <<>> /\ todo[p].left = <<>>

Command(p, kind) ==
  /\ p \in Clerks /\ Idle(p)
  /\ ops[kind] > 0 /\ ops' = [ops EXCEPT ![kind] = @ - 1]

\* delivery-cli intake --promote.
IntakeCommand(p, raw, source, preferred) ==
  /\ Command(p, "intake")
  /\ Ingest(p, raw, source, preferred)
  /\ UNCHANGED <<faults, todo, copy, health, report, touched, granted>>

-----------------------------------------------------------------------------
(* Experts                                                                 *)

\* register_expert, with the id of a default expert.
RegisterExpert(p, e) ==
  /\ Command(p, "experts")
  /\ Saves(p, <<Save(ExpertKey(e), "custom")>>)
  /\ UNCHANGED <<asked, faults, todo, copy, health, report, touched, granted>>

RegisterDefaults(p) ==
  /\ Command(p, "experts")
  /\ todo' = [todo EXCEPT ![p] = [left |-> Defaults, overwrite |-> FALSE]]
  /\ UNCHANGED <<deskVars, faults, copy, health, report, touched, granted>>

\* One expert of register-default-experts: the file is asked for first.
RegisterNext(p) ==
  /\ plan[p] = <<>> /\ todo[p].left # <<>>
  /\ LET key == ExpertKey(Head(todo[p].left))
     IN  IF Exists(key) /\ ~todo[p].overwrite
         THEN UNCHANGED storeVars
         ELSE Saves(p, <<Save(key, "default")>>)
  /\ todo' = [todo EXCEPT ![p].left = Tail(@)]
  /\ UNCHANGED <<asked, faults, copy, health, report, touched, granted, ops>>

\* Fault: experts that are there are not registered again.
_register_known_experts_Once == [left |-> Defaults, overwrite |-> FALSE]

_register_known_experts == [left |-> Defaults, overwrite |-> TRUE]

HealthBegin(h) ==
  /\ ~health[h]
  /\ health' = [health EXCEPT ![h] = TRUE]
  /\ todo' = [todo EXCEPT ![h] = _register_known_experts]
  /\ failed' = [failed EXCEPT ![h] = FALSE]
  /\ touched' = [touched EXCEPT ![h] = {}]
  /\ UNCHANGED <<file, plan, opened, lost, asked, faults, copy, report, granted, ops>>

\* By the names of the files: one that cannot be parsed is not missing.
missing_expected == {e \in ToSet(Defaults) : ~Exists(ExpertKey(e))}

\* Fault: the result of the registration is not looked at.
collect_NoResult(h, gaps) == missing_expected = {} /\ ~gaps

\* payload["ok"].
collect(h, gaps) == missing_expected = {} /\ ~gaps /\ ~failed[h]

\* Workflow specs may be missing for an expert that can be read.
HealthReport(h) ==
  /\ health[h] /\ Idle(h)
  /\ \E gaps \in BOOLEAN :
       /\ gaps => \E key \in ExpertKeys : Readable(key)
       /\ report' = [report EXCEPT ![h] = IF collect(h, gaps) THEN "ok" ELSE "warnings"]
  /\ health' = [health EXCEPT ![h] = FALSE]
  /\ UNCHANGED <<deskVars, faults, todo, copy, touched, granted, ops>>

\* The 60 seconds of the registration are over, or the process dies: there is
\* no new report, and the experts may be in any state.
HealthTimeout(h) ==
  /\ health[h] /\ Fault
  /\ Killed(h)
  /\ todo' = [todo EXCEPT ![h] = NothingLeft]
  /\ health' = [health EXCEPT ![h] = FALSE]
  /\ touched' = [touched EXCEPT ![h] = ToSet(Defaults)]
  /\ UNCHANGED <<asked, copy, report, granted, ops>>

-----------------------------------------------------------------------------
(* The approval                                                            *)

\* Fault: a request that was made before keeps its state.
create_approval_request_Kept(context) ==
  [status |-> IF Readable(ApprovalKey) THEN file[ApprovalKey].status ELSE "pending",
   context |-> context]

create_approval_request(context) == [status |-> "pending", context |-> context]

\* The caller keeps the object, and saves it.
RequestApproval(p, context) ==
  /\ Command(p, "approval")
  /\ copy' = [copy EXCEPT ![p] = create_approval_request(context)]
  /\ Saves(p, <<Save(ApprovalKey, copy'[p])>>)
  /\ UNCHANGED <<asked, faults, todo, health, report, touched, granted>>

\* Loading changes no file and is not counted.
LoadApproval(p) ==
  /\ p \in Clerks /\ Idle(p) /\ Readable(ApprovalKey)
  /\ copy' = [copy EXCEPT ![p] = file[ApprovalKey]]
  /\ UNCHANGED <<deskVars, faults, todo, health, report, touched, granted, ops>>

\* approve and reject, of the copy, and a save.
_resolve(p, status) ==
  /\ Command(p, "approval") /\ copy[p] # None
  /\ copy[p].status = "pending"
  /\ copy' = [copy EXCEPT ![p].status = status]
  /\ granted' = IF status = "approved" THEN granted \union {copy[p].context} ELSE granted
  /\ Saves(p, <<Save(ApprovalKey, copy'[p])>>)
  /\ UNCHANGED <<asked, faults, todo, health, report, touched>>

-----------------------------------------------------------------------------

\* A command dies; a health script goes on when its registration has failed.
Dies(p) ==
  /\ ~Idle(p) /\ Fault
  /\ Killed(p)
  /\ todo' = [todo EXCEPT ![p] = NothingLeft]
  /\ UNCHANGED <<asked, copy, health, report, touched, granted, ops>>

Saving(p) ==
  /\ SaveStep(p)
  /\ touched' = [h \in Health |->
       IF h = p THEN touched[h]
       ELSE touched[h] \union {e \in ToSet(Defaults) : Head(plan[p]).key = ExpertKey(e)}]
  /\ UNCHANGED <<asked, faults, todo, copy, health, report, granted, ops>>

ClerkStep(p) ==
  \/ \E raw \in Texts, source \in Sources, preferred \in Experts :
       IntakeCommand(p, raw, source, preferred)
  \/ \E e \in ToSet(Defaults) : RegisterExpert(p, e)
  \/ RegisterDefaults(p)
  \/ \E context \in Contexts : RequestApproval(p, context)
  \/ LoadApproval(p)
  \/ \E status \in {"approved", "rejected"} : _resolve(p, status)

HealthStep(h) == RegisterNext(h) \/ Saving(h) \/ HealthReport(h)

Next ==
  \/ \E p \in Clerks : ClerkStep(p) \/ RegisterNext(p) \/ Saving(p)
  \/ \E h \in Health : HealthBegin(h) \/ HealthStep(h) \/ HealthTimeout(h)
  \/ \E p \in Procs : Dies(p)

Spec == Init /\ [][Next]_vars

\* Cron starts the health script again and again, and it goes on.
Fairness == \A h \in Health : WF_vars(HealthBegin(h)) /\ WF_vars(HealthStep(h))

FairSpec == Spec /\ Fairness

-----------------------------------------------------------------------------
(* Properties                                                              *)

Contents(key) ==
  CASE key[1] = "IntakeAssessment" -> Assessments
    [] key[1] = "Expert" -> ExpertFiles
    [] key = ApprovalKey -> Approvals
    [] OTHER -> Texts

TypeOK ==
  /\ DOMAIN file = DeskKeys \union ExpertKeys \union {ApprovalKey}
  /\ \A key \in DOMAIN file : Readable(key) => file[key] \in Contents(key)
  /\ DOMAIN plan = Procs
  /\ opened \in [Procs -> BOOLEAN] /\ failed \in [Procs -> BOOLEAN]
  /\ asked \subseteq Texts \X Sources \X Experts /\ faults \in 0..MaxFaults
  /\ \A p \in Procs : IsSuffix(todo[p].left, Defaults) /\ todo[p].overwrite \in BOOLEAN
  /\ copy \in [Clerks -> Approvals \union {None}]
  /\ health \in [Health -> BOOLEAN]
  /\ report \in [Health -> {None, "ok", "warnings"}]
  /\ touched \in [Health -> SUBSET ToSet(Defaults)]
  /\ granted \subseteq Contexts /\ ops \in [Kinds -> Nat]

\* An approval that says approved for a context was approved by somebody who
\* had that context before him: in the file, in every copy and in every save
\* still to come, however copies and requests of the same id overwrite each
\* other (create_approval_request, approve).
Earned(approval) == approval.status = "approved" => approval.context \in granted

ApprovalIsEarned ==
  /\ Readable(ApprovalKey) => Earned(file[ApprovalKey])
  /\ \A p \in Clerks : copy[p] # None => Earned(copy[p])
  /\ \A p \in Clerks : \A i \in DOMAIN plan[p] :
       plan[p][i].key = ApprovalKey => Earned(plan[p][i].content)

\* A health report that says ok is true until the next run begins: every
\* default expert can be read, unless another process has saved that expert
\* since the run began, or a later run came to no report.  The report looks
\* at file names only, and rests on the registration for the rest
\* (_register_known_experts, collect).
ReportIsTrue ==
  \A h \in Health : report[h] = "ok" /\ ~health[h] =>
    \A e \in ToSet(Defaults) : Readable(ExpertKey(e)) \/ e \in touched[h]

\* "Daily registry health replays known expert registration": whatever crashes
\* and overlapping writes have left behind, every default expert can be read
\* again and again.
RegistryHeals ==
  \A e \in ToSet(Defaults) : []<>Readable(ExpertKey(e))
=============================================================================
