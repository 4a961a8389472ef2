---------------------------- MODULE OperationPlan ---------------------------
(***************************************************************************)
(* The guarded plan of a framework operation: framework_operation_plan.py. *)
(*                                                                         *)
(* Data abstraction.  A request is a record of                             *)
(*   on         what it is about; creating and updating are treated alike  *)
(*   actor      --actor-profile                                            *)
(*   profile, skill, workflow   the targets, names or None                 *)
(*   changed    the paths given with --changed-path                        *)
(*   strict     --strict-unowned                                           *)
(* In the paths, /opt/data and workflows/specs are one name each, and the  *)
(* names of files are without their ending.                                *)
(***************************************************************************)
EXTENDS PathGovernance

CONSTANTS
  Maintainer,  \* framework-maintainer
  Slugs        \* the names that are lowercase slugs

OPERATIONS == {"profile", "skill", "workflow", "cron", "model", "gateway"}

derived_paths(args) ==
  CASE args.on \in {"profile", "gateway"} /\ args.profile # None ->
         {<<"data", "profiles", args.profile, "config">>}
    [] args.on = "skill" /\ args.profile # None /\ args.skill # None ->
         {<<"data", "profiles", args.profile, "skills", args.skill, "SKILL">>}
    [] args.on = "workflow" /\ args.workflow # None ->
         {<<"data", "specs", args.workflow>>}
    [] args.on = "cron"  -> {<<"data", "cron", "jobs">>}
    [] args.on = "model" -> {<<"data", "config">>}
    [] OTHER -> {}

changed_paths(args) == args.changed \union derived_paths(args)

\* Fault: a gateway needs no target.
Targets_NoGateway(args) ==
  CASE args.on = "profile"  -> {args.profile}
    [] args.on = "skill"    -> {args.profile, args.skill}
    [] args.on = "workflow" -> {args.workflow}
    [] OTHER -> {}

\* The targets an operation cannot do without.
Targets(args) ==
  CASE args.on \in {"profile", "gateway"} -> {args.profile}
    [] args.on = "skill"    -> {args.profile, args.skill}
    [] args.on = "workflow" -> {args.workflow}
    [] OTHER -> {}

\* There are no errors.
validate_request(args) ==
  /\ args.actor = Maintainer
  /\ {args.profile, args.skill, args.workflow} \subseteq Slugs \union {None}
  /\ None \notin Targets(args)
  /\ changed_paths(args) # {}

\* payload["ok"].
create_plan(args, rules) ==
  /\ validate_request(args)
  /\ check_paths(args.actor, changed_paths(args), rules, args.strict).ok
=============================================================================
