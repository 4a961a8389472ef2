------------------------------ MODULE Planning ------------------------------
(***************************************************************************)
(* What comes before a governed task: the choice of an expert for it by    *)
(* capabilities, and the guarded plan of a framework operation, under the  *)
(* rules and with the experts that GovernedTask has at that moment.        *)
(***************************************************************************)
EXTENDS GovernedTask, Routing, OperationPlan

CONSTANTS
  Registries,    \* what the expert files may say: expert |-> its capabilities
  RoutingTasks,  \* tasks to be routed
  Operations     \* requests for a framework operation

\* How good a cost class or a reliability is, the best first.
COSTS == <<"free", "low", "medium", "high", "">>
RELIABILITIES == <<"high", "medium", "low", "">>

IsCapability(cap) ==
  /\ cap.priority \in Int /\ cap.owner \in BOOLEAN
  /\ cap.cost \in ToSet(COSTS) /\ cap.reliability \in ToSet(RELIABILITIES)

ASSUME PlanningAssumption ==
  /\ Maintainer \in Profiles
  /\ \A args \in Operations : args.on \in OPERATIONS

ASSUME RegistriesAssumption ==
  /\ IsFiniteSet(Profiles)
  /\ \A registry \in Registries, e \in Profiles :
       IsFiniteSet(registry[e]) /\ \A cap \in registry[e] : IsCapability(cap)

\* The expert that gets the task first.
Selected(task, registry) ==
  rank_experts([e \in Profiles |-> score_expert(task, registry[e])])

Position(order, x) == CHOOSE i \in DOMAIN order : order[i] = x

\* In nothing that routing looks at is d behind c, and in something ahead.
AtLeast(task, d, c) ==
  /\ \A ids \in {task.required, task.named, task.described} : c.id \in ids => d.id \in ids
  /\ d.priority >= c.priority /\ (c.owner => d.owner)
  /\ Position(COSTS, d.cost) <= Position(COSTS, c.cost)
  /\ Position(RELIABILITIES, d.reliability) <= Position(RELIABILITIES, c.reliability)

Outdoes(task, d, c) == AtLeast(task, d, c) /\ ~AtLeast(task, c, d)

\* Each capability of e is outdone by one of f.
Fitter(task, f, e, registry) ==
  \A c \in registry[e] : \E d \in registry[f] : Outdoes(task, d, c)

\* A task never goes to an expert when another registered one outdoes all of
\* his capabilities, whatever their weights: routing is by capability, and the
\* names of experts decide between equals only.  Without a score above 0 it
\* goes to nobody (score_expert, rank_experts).
NobodyIsFitter ==
  \A registry \in Registries, task \in RoutingTasks :
    LET selected == Selected(task, registry)
    IN  experts # {} /\ score_expert(task, registry[selected]) > 0
        => \A f \in experts : ~Fitter(task, f, selected, registry)

\* An accepted plan of a framework operation names what the operation itself
\* changes, and not only paths that came with the request; and all of them
\* are the maintainer's to change by the rules in force: the demands on the
\* targets and the derivation of paths from them agree (validate_request,
\* derived_paths).
PlansNameTheirTarget ==
  \A args \in Operations : create_plan(args, config) =>
    /\ derived_paths(args) # {}
    /\ \A path \in changed_paths(args) : ~Violates(Maintainer, path, config, args.strict)
=============================================================================
