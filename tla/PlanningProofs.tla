--------------------------- MODULE PlanningProofs ---------------------------
(***************************************************************************)
(* Routing by capability for any finite registry, and framework plans for  *)
(* any request and any rules.                                              *)
(***************************************************************************)
EXTENDS Planning, GovernedTaskProofs

-----------------------------------------------------------------------------
(* The best of finitely many.  The library's induction over finite sets    *)
(* takes an operator, so the argument is by a smallest set without a best. *)

Best(R, S, m) == m \in S /\ \A n \in S : <<n, m>> \in R

LEMMA FiniteHasBest ==
  ASSUME NEW S, IsFiniteSet(S), S # {}, NEW R,
         \A x, y \in S : <<x, y>> \in R \/ <<y, x>> \in R,
         \A x, y, z \in S : <<x, y>> \in R /\ <<y, z>> \in R => <<x, z>> \in R
  PROVE  \E m \in S : Best(R, S, m)
<1> SUFFICES ASSUME \A m \in S : ~Best(R, S, m) PROVE FALSE
  OBVIOUS
<1> DEFINE Bad == {T \in SUBSET S : T # {} /\ \A m \in T : ~Best(R, T, m)}
<1>1. Bad \subseteq FiniteSubsetsOf(S) /\ Bad # {}
  BY FS_FiniteSubsetsOfFinite
<1>2. PICK T \in Bad : \A U \in Bad : <<U, T>> \notin StrictSubsetOrdering(S)
  BY <1>1, FS_StrictSubsetOrderingWellFounded, WFMin
<1>3. PICK x \in T : TRUE
  OBVIOUS
<1> DEFINE U == T \ {x}
<1>4. U \notin Bad
  BY <1>2, <1>3 DEF StrictSubsetOrdering
<1>5. CASE U = {}
  <2>1. Best(R, T, x)
    BY <1>3, <1>5 DEF Best
  <2>2. QED
    BY <2>1, <1>3
<1>6. CASE U # {}
  <2>1. PICK m \in U : Best(R, U, m)
    BY <1>4, <1>6
  <2>2. CASE <<x, m>> \in R
    <3>1. Best(R, T, m)
      BY <2>1, <2>2 DEF Best
    <3>2. QED
      BY <2>1, <3>1
  <2>3. CASE <<m, x>> \in R
    <3>1. \A n \in T : <<n, x>> \in R
      BY <1>3, <2>1, <2>3 DEF Best
    <3>2. QED
      BY <1>3, <3>1 DEF Best
  <2>4. QED
    BY <1>3, <2>1, <2>2, <2>3
<1>7. QED
  BY <1>5, <1>6

\* Max of a finite set of numbers is one of them, and none is above it.
LEMMA MaxIsBest ==
  ASSUME NEW S \in SUBSET Int, IsFiniteSet(S), S # {}
  PROVE  Max(S) \in S /\ \A n \in S : n <= Max(S)
<1> DEFINE R == {q \in S \X S : q[1] <= q[2]}
<1>1. \A x, y \in S : <<x, y>> \in R <=> x <= y
  OBVIOUS
<1>2. \A x, y, z \in S : (x <= y \/ y <= x) /\ (x <= y /\ y <= z => x <= z)
  OBVIOUS
<1> HIDE DEF R
<1>3. PICK m \in S : Best(R, S, m)
  BY <1>1, <1>2, FiniteHasBest
<1>4. \A n \in S : m >= n
  BY <1>1, <1>3 DEF Best
<1>5. QED
  BY <1>4 DEF Max

\* rank_experts selects a registered expert with the highest score.
LEMMA SelectedIsBest ==
  ASSUME experts \subseteq Profiles, experts # {}, NEW score \in [Profiles -> Int]
  PROVE  /\ rank_experts(score) \in experts
         /\ \A f \in experts : score[f] <= score[rank_experts(score)]
<1> DEFINE Behind(f, e) == score[f] < score[e] \/ (score[f] = score[e] /\ e <= f)
           R == {q \in experts \X experts : Behind(q[1], q[2])}
<1>1. \A x \in experts : x \in Nat /\ score[x] \in Int
  BY ProfilesAssumption
<1>2. IsFiniteSet(experts)
  BY RegistriesAssumption, FS_Subset
<1>3. \A x, y \in experts : <<x, y>> \in R <=> Behind(x, y)
  OBVIOUS
<1>4. \A x, y \in experts : Behind(x, y) \/ Behind(y, x)
  BY <1>1
<1>5. \A x, y, z \in experts : Behind(x, y) /\ Behind(y, z) => Behind(x, z)
  BY <1>1
<1> HIDE DEF R
<1>6. PICK e \in experts : Best(R, experts, e)
  <2>1. \A x, y \in experts : <<x, y>> \in R \/ <<y, x>> \in R
    BY <1>3, <1>4
  <2>2. \A x, y, z \in experts :
          <<x, y>> \in R /\ <<y, z>> \in R => <<x, z>> \in R
    BY <1>3, <1>5
  <2>3. QED
    BY <1>2, <2>1, <2>2, FiniteHasBest
<1>7. \A f \in experts : Behind(f, e)
  BY <1>3, <1>6 DEF Best
<1>8. /\ rank_experts(score) \in experts
      /\ \A f \in experts : Behind(f, rank_experts(score))
  BY <1>7 DEF rank_experts
<1>9. QED
  BY <1>1, <1>8

-----------------------------------------------------------------------------
(* The weights of routing.                                                 *)

LEMMA PositionIs ==
  ASSUME NEW order, NEW i \in DOMAIN order,
         \A j \in DOMAIN order : order[j] = order[i] => j = i
  PROVE  Position(order, order[i]) = i
BY DEF Position

LEMMA CostCounts ==
  /\ \A x \in ToSet(COSTS) : Position(COSTS, x) \in Nat /\ Points(COST_SCORE, x) \in Nat
  /\ \A x, y \in ToSet(COSTS) :
       Position(COSTS, x) < Position(COSTS, y)
       <=> Points(COST_SCORE, x) > Points(COST_SCORE, y)
<1>1. DOMAIN COSTS = {1, 2, 3, 4, 5}
  <2>1. DOMAIN COSTS = 1..5
    BY DEF COSTS
  <2>2. QED
    BY <2>1
<1>2. /\ COSTS[1] = "free" /\ COSTS[2] = "low" /\ COSTS[3] = "medium"
      /\ COSTS[4] = "high" /\ COSTS[5] = ""
  BY DEF COSTS
<1>3. ToSet(COSTS) = {"free", "low", "medium", "high", ""}
  BY <1>1, <1>2 DEF ToSet
<1>4. /\ Position(COSTS, "free") = 1 /\ Position(COSTS, "low") = 2
      /\ Position(COSTS, "medium") = 3 /\ Position(COSTS, "high") = 4
      /\ Position(COSTS, "") = 5
  <2>1. \A i, j \in DOMAIN COSTS : COSTS[j] = COSTS[i] => j = i
    BY <1>1, <1>2
  <2>2. \A i \in DOMAIN COSTS : Position(COSTS, COSTS[i]) = i
    BY <2>1, PositionIs
  <2>3. QED
    BY <2>2, <1>1, <1>2
<1>5. /\ Points(COST_SCORE, "free") = 20 /\ Points(COST_SCORE, "low") = 15
      /\ Points(COST_SCORE, "medium") = 8 /\ Points(COST_SCORE, "high") = 2
      /\ Points(COST_SCORE, "") = 0
  BY DEF Points, COST_SCORE
<1>6. \A x \in ToSet(COSTS) :
        \/ Position(COSTS, x) = 1 /\ Points(COST_SCORE, x) = 20
        \/ Position(COSTS, x) = 2 /\ Points(COST_SCORE, x) = 15
        \/ Position(COSTS, x) = 3 /\ Points(COST_SCORE, x) = 8
        \/ Position(COSTS, x) = 4 /\ Points(COST_SCORE, x) = 2
        \/ Position(COSTS, x) = 5 /\ Points(COST_SCORE, x) = 0
  BY <1>3, <1>4, <1>5
<1>7. QED
  BY <1>6

LEMMA ReliabilityCounts ==
  /\ \A x \in ToSet(RELIABILITIES) :
       Position(RELIABILITIES, x) \in Nat /\ Points(RELIABILITY_SCORE, x) \in Nat
  /\ \A x, y \in ToSet(RELIABILITIES) :
       Position(RELIABILITIES, x) < Position(RELIABILITIES, y)
       <=> Points(RELIABILITY_SCORE, x) > Points(RELIABILITY_SCORE, y)
<1>1. DOMAIN RELIABILITIES = {1, 2, 3, 4}
  <2>1. DOMAIN RELIABILITIES = 1..4
    BY DEF RELIABILITIES
  <2>2. QED
    BY <2>1
<1>2. /\ RELIABILITIES[1] = "high" /\ RELIABILITIES[2] = "medium"
      /\ RELIABILITIES[3] = "low" /\ RELIABILITIES[4] = ""
  BY DEF RELIABILITIES
<1>3. ToSet(RELIABILITIES) = {"high", "medium", "low", ""}
  BY <1>1, <1>2 DEF ToSet
<1>4. /\ Position(RELIABILITIES, "high") = 1 /\ Position(RELIABILITIES, "medium") = 2
      /\ Position(RELIABILITIES, "low") = 3 /\ Position(RELIABILITIES, "") = 4
  <2>1. \A i, j \in DOMAIN RELIABILITIES : RELIABILITIES[j] = RELIABILITIES[i] => j = i
    BY <1>1, <1>2
  <2>2. \A i \in DOMAIN RELIABILITIES : Position(RELIABILITIES, RELIABILITIES[i]) = i
    BY <2>1, PositionIs
  <2>3. QED
    BY <2>2, <1>1, <1>2
<1>5. /\ Points(RELIABILITY_SCORE, "high") = 20
      /\ Points(RELIABILITY_SCORE, "medium") = 10
      /\ Points(RELIABILITY_SCORE, "low") = 3 /\ Points(RELIABILITY_SCORE, "") = 0
  BY DEF Points, RELIABILITY_SCORE
<1>6. \A x \in ToSet(RELIABILITIES) :
        \/ Position(RELIABILITIES, x) = 1 /\ Points(RELIABILITY_SCORE, x) = 20
        \/ Position(RELIABILITIES, x) = 2 /\ Points(RELIABILITY_SCORE, x) = 10
        \/ Position(RELIABILITIES, x) = 3 /\ Points(RELIABILITY_SCORE, x) = 3
        \/ Position(RELIABILITIES, x) = 4 /\ Points(RELIABILITY_SCORE, x) = 0
  BY <1>3, <1>4, <1>5
<1>7. QED
  BY <1>6

\* A capability that outdoes another has the higher score.
LEMMA OutdoingScoresHigher ==
  ASSUME NEW task, NEW c, NEW d, IsCapability(c), IsCapability(d)
  PROVE  /\ CapabilityScore(task, c) \in Int /\ CapabilityScore(task, d) \in Int
         /\ Outdoes(task, d, c) => CapabilityScore(task, d) > CapabilityScore(task, c)
<1> DEFINE words(x) == When(x.id \in task.required, 50) + When(x.id \in task.named, 15)
                       + When(x.id \in task.described, 5)
           cost(x) == Points(COST_SCORE, x.cost)
           rel(x) == Points(RELIABILITY_SCORE, x.reliability)
           own(x) == When(x.owner, 10)
<1>1. \A x \in {c, d} : /\ x.priority \in Int /\ words(x) \in Nat
                        /\ cost(x) \in Nat /\ rel(x) \in Nat /\ own(x) \in Nat
  BY CostCounts, ReliabilityCounts DEF IsCapability, When
<1>2. \A x \in {c, d} : CapabilityScore(task, x)
                           = x.priority + words(x) + cost(x) + rel(x) + own(x)
  <2>1. \A x \in {c, d} :
          /\ When(x.id \in task.required, 50) \in Nat
          /\ When(x.id \in task.named, 15) \in Nat
          /\ When(x.id \in task.described, 5) \in Nat
    BY DEF When
  <2>2. QED
    BY <1>1, <2>1 DEF CapabilityScore
<1>3. ASSUME NEW x \in {c, d}, NEW y \in {c, d}, AtLeast(task, y, x)
      PROVE  /\ y.priority >= x.priority /\ words(y) >= words(x)
             /\ cost(y) >= cost(x) /\ rel(y) >= rel(x) /\ own(y) >= own(x)
  <2>1. words(y) >= words(x) /\ own(y) >= own(x)
    BY <1>3 DEF AtLeast, When
  <2>2. cost(y) >= cost(x)
    BY <1>3, CostCounts DEF AtLeast, IsCapability
  <2>3. rel(y) >= rel(x)
    BY <1>3, ReliabilityCounts DEF AtLeast, IsCapability
  <2>4. QED
    BY <1>3, <2>1, <2>2, <2>3 DEF AtLeast
<1>4. ASSUME AtLeast(task, d, c), ~AtLeast(task, c, d)
      PROVE  \/ d.priority > c.priority \/ words(d) > words(c)
             \/ cost(d) > cost(c) \/ rel(d) > rel(c) \/ own(d) > own(c)
  <2>1. CASE \E ids \in {task.required, task.named, task.described} :
               d.id \in ids /\ c.id \notin ids
    BY <1>4, <2>1 DEF AtLeast, When
  <2>2. CASE ~(c.priority >= d.priority) \/ ~(d.owner => c.owner)
    BY <1>1, <2>2 DEF When
  <2>3. CASE ~(Position(COSTS, c.cost) <= Position(COSTS, d.cost))
    BY <2>3, CostCounts DEF IsCapability
  <2>4. CASE ~(Position(RELIABILITIES, c.reliability) <= Position(RELIABILITIES, d.reliability))
    BY <2>4, ReliabilityCounts DEF IsCapability
  <2>5. QED
    BY <1>4, <2>1, <2>2, <2>3, <2>4 DEF AtLeast
<1> HIDE DEF words, cost, rel, own
<1>5. QED
  BY <1>1, <1>2, <1>3, <1>4 DEF Outdoes

\* An expert's score is that of his best capability, or 0.
LEMMA ScoreIsBest ==
  ASSUME NEW task, NEW caps, IsFiniteSet(caps), \A cap \in caps : IsCapability(cap)
  PROVE  /\ score_expert(task, caps) \in Nat
         /\ \A cap \in caps : CapabilityScore(task, cap) <= score_expert(task, caps)
         /\ score_expert(task, caps) > 0
            => \E cap \in caps : score_expert(task, caps) = CapabilityScore(task, cap)
<1> DEFINE T == {CapabilityScore(task, cap) : cap \in caps}
           f == [cap \in caps |-> CapabilityScore(task, cap)]
           S == {0} \union T
<1>1. T \subseteq Int
  BY OutdoingScoresHigher
<1>2. IsFiniteSet(T)
  <2>1. f \in Surjection(caps, T)
    BY DEF Surjection
  <2> HIDE DEF f, T
  <2>2. QED
    BY <2>1, FS_Surjection
<1>3. S \in SUBSET Int /\ IsFiniteSet(S) /\ S # {}
  <2>1. IsFiniteSet({0})
    BY FS_Singleton
  <2> HIDE DEF T
  <2>2. IsFiniteSet(S)
    BY <1>2, <2>1, FS_Union
  <2>3. S \in SUBSET Int /\ S # {}
    BY <1>1
  <2>4. QED
    BY <2>2, <2>3
<1>4. score_expert(task, caps) = Max(S)
  BY DEF score_expert
<1> HIDE DEF S
<1>5. Max(S) \in S /\ \A n \in S : n <= Max(S)
  BY <1>3, MaxIsBest
<1>6. /\ 0 \in S /\ \A cap \in caps : CapabilityScore(task, cap) \in S
      /\ \A n \in S : n = 0 \/ \E cap \in caps : n = CapabilityScore(task, cap)
  BY DEF S
<1>7. Max(S) \in Int
  BY <1>3, <1>5
<1> HIDE DEF T
<1>8. QED
  BY <1>4, <1>5, <1>6, <1>7

-----------------------------------------------------------------------------
(* What the two properties of Planning say in any state.                   *)

\* No registered expert outdoes all that the one chosen can do
\* (score_expert, rank_experts).
THEOREM RoutingIsByCapability == Spec => []NobodyIsFitter
<1>1. TypeOK => NobodyIsFitter
  <2> SUFFICES ASSUME experts \subseteq Profiles, experts # {},
                      NEW registry \in Registries, NEW task \in RoutingTasks,
                      NEW selected, selected = Selected(task, registry),
                      score_expert(task, registry[selected]) > 0,
                      NEW f \in experts, Fitter(task, f, selected, registry)
               PROVE  FALSE
    BY DEF TypeOK, NobodyIsFitter
  <2> DEFINE score == [e \in Profiles |-> score_expert(task, registry[e])]
  <2>1. \A e \in Profiles :
          IsFiniteSet(registry[e]) /\ \A cap \in registry[e] : IsCapability(cap)
    BY RegistriesAssumption
  <2>2. \A e \in Profiles : score[e] \in Nat /\ score[e] = score_expert(task, registry[e])
    BY <2>1, ScoreIsBest
  <2>3. score \in [Profiles -> Int]
    BY <2>2
  <2> HIDE DEF score
  <2>4. selected \in experts /\ score[f] <= score[selected]
    BY <2>3, SelectedIsBest DEF Selected, score
  <2>5. PICK c \in registry[selected] : score[selected] = CapabilityScore(task, c)
    BY <2>1, <2>2, <2>4, ScoreIsBest
  <2>6. PICK d \in registry[f] : Outdoes(task, d, c)
    BY DEF Fitter
  <2>7. IsCapability(c) /\ IsCapability(d)
    BY <2>1, <2>4
  <2>8. /\ CapabilityScore(task, c) \in Int /\ CapabilityScore(task, d) \in Int
        /\ CapabilityScore(task, d) > CapabilityScore(task, c)
    BY <2>6, <2>7, OutdoingScoresHigher
  <2>9. CapabilityScore(task, d) <= score[f]
    BY <2>1, <2>2, ScoreIsBest
  <2>10. score[f] \in Nat /\ score[selected] \in Nat
    BY <2>2, <2>4
  <2>11. QED
    BY <2>4, <2>5, <2>8, <2>9, <2>10
<1>2. QED
  BY TypeCorrect, <1>1, PTL

\* An accepted framework plan names what the operation changes, and the rules
\* of the moment allow the maintainer all of it (validate_request,
\* derived_paths, create_plan).
THEOREM AcceptedPlansNameTheirTarget == Spec => []PlansNameTheirTarget
<1>1. PlansNameTheirTarget
  <2> SUFFICES ASSUME NEW args \in Operations, create_plan(args, config)
               PROVE  /\ derived_paths(args) # {}
                      /\ \A path \in changed_paths(args) :
                           ~Violates(Maintainer, path, config, args.strict)
    BY DEF PlansNameTheirTarget
  <2>1. validate_request(args) /\ args.actor = Maintainer
    BY DEF create_plan, validate_request
  <2>2. derived_paths(args) # {}
    <3>1. args.on \in OPERATIONS /\ None \notin Targets(args)
      BY <2>1, PlanningAssumption DEF validate_request
    <3>2. CASE args.on \in {"profile", "gateway"}
      BY <3>1, <3>2 DEF Targets, derived_paths
    <3>3. CASE args.on = "skill"
      BY <3>1, <3>3 DEF Targets, derived_paths
    <3>4. CASE args.on = "workflow"
      BY <3>1, <3>4 DEF Targets, derived_paths
    <3>5. CASE args.on = "cron"
      BY <3>5 DEF derived_paths
    <3>6. CASE args.on = "model"
      BY <3>6 DEF derived_paths
    <3>7. QED
      BY <3>1, <3>2, <3>3, <3>4, <3>5, <3>6 DEF OPERATIONS
  <2>3. check_paths(args.actor, changed_paths(args), config, args.strict).ok
    BY DEF create_plan
  <2>4. Violations(args.actor, changed_paths(args), config, args.strict) = {}
    BY <2>3, CheckPaths
  <2>5. QED
    BY <2>1, <2>2, <2>4 DEF Violations
<1>2. QED
  BY <1>1, PTL
=============================================================================
