---------------------------- MODULE RecordsProofs ----------------------------
(***************************************************************************)
(* Proofs about Records for any clerks, health processes, default experts, *)
(* contexts, texts and bounds.                                             *)
(***************************************************************************)
EXTENDS Records, FrontDeskProofs

-----------------------------------------------------------------------------
(* Keys and contents.                                                      *)

LEMMA SameExpertKey ==
  ASSUME NEW d, NEW e, ExpertKey(d) = ExpertKey(e)
  PROVE  d = e
BY DEF ExpertKey

LEMMA RecordKeysDiffer ==
  /\ \A e : ExpertKey(e) \notin DeskKeys
  /\ ApprovalKey \notin DeskKeys
  /\ \A e : ExpertKey(e) # ApprovalKey
BY DEF ExpertKey, ApprovalKey, DeskKeys, AssessmentKey, DemandKey, GoalKey

LEMMA ContentsOfKeys ==
  /\ \A raw, source : Contents(AssessmentKey(raw, source)) = Assessments
  /\ \A raw : Contents(DemandKey(raw)) = Texts /\ Contents(GoalKey(raw)) = Texts
  /\ \A e : Contents(ExpertKey(e)) = ExpertFiles
  /\ Contents(ApprovalKey) = Approvals
BY DEF Contents, AssessmentKey, DemandKey, GoalKey, ExpertKey, ApprovalKey

LEMMA HeadOrTail ==
  ASSUME NEW S, NEW s \in Seq(S), s # <<>>
  PROVE  /\ Head(s) \in ToSet(s) /\ ToSet(s) \subseteq S
         /\ \A e \in ToSet(s) : e = Head(s) \/ e \in ToSet(Tail(s))
<1>1. /\ Len(s) \in Nat /\ Len(s) # 0 /\ DOMAIN s = 1 .. Len(s)
      /\ \A i \in 1 .. Len(s) : s[i] \in S
  BY EmptySeq, LenProperties, ElementOfSeq
<1>2. Head(s) = s[1] /\ 1 \in DOMAIN s
  BY <1>1
<1>3. /\ Tail(s) \in Seq(S) /\ Len(Tail(s)) = Len(s) - 1
      /\ \A i \in 1 .. Len(Tail(s)) : Tail(s)[i] = s[i + 1]
  BY HeadTailProperties
<1>4. DOMAIN Tail(s) = 1 .. Len(s) - 1
  BY <1>3, LenProperties
<1>5. ASSUME NEW i \in DOMAIN s, i # 1
      PROVE  s[i] \in ToSet(Tail(s))
  <2>1. i - 1 \in DOMAIN Tail(s) /\ Tail(s)[i - 1] = s[i]
    BY <1>1, <1>3, <1>4, <1>5
  <2>2. QED
    BY <2>1 DEF ToSet
<1>6. QED
  BY <1>1, <1>2, <1>5 DEF ToSet

-----------------------------------------------------------------------------
(* What is left of the default experts.                                    *)

\* The sequence is an end of the defaults.
EndOfDefaults(s) ==
  /\ s \in Seq(ToSet(Defaults)) /\ Len(s) <= Len(Defaults)
  /\ \A i \in 1 .. Len(s) : s[i] = Defaults[Len(Defaults) - Len(s) + i]

LEMMA EndsOfDefaults ==
  /\ EndOfDefaults(<<>>) /\ EndOfDefaults(Defaults)
  /\ \A s : EndOfDefaults(s) /\ s # <<>> => EndOfDefaults(Tail(s))
<1>1. Len(Defaults) \in Nat /\ Defaults \in Seq(ToSet(Defaults))
  BY RecordsAssumption, LenProperties
<1>2. EndOfDefaults(<<>>)
  BY <1>1, EmptySeq DEF EndOfDefaults
<1>3. EndOfDefaults(Defaults)
  BY <1>1 DEF EndOfDefaults
<1>4. ASSUME NEW s, EndOfDefaults(s), s # <<>>
      PROVE  EndOfDefaults(Tail(s))
  <2>1. /\ Len(s) \in Nat /\ Len(s) # 0 /\ Tail(s) \in Seq(ToSet(Defaults))
        /\ Len(Tail(s)) = Len(s) - 1
        /\ \A i \in 1 .. Len(Tail(s)) : Tail(s)[i] = s[i + 1]
    BY <1>4, HeadTailProperties, LenProperties, EmptySeq DEF EndOfDefaults
  <2>2. \A i \in 1 .. Len(Tail(s)) :
          Tail(s)[i] = Defaults[Len(Defaults) - Len(Tail(s)) + i]
    <3> TAKE i \in 1 .. Len(Tail(s))
    <3>1. i + 1 \in 1 .. Len(s) /\ Tail(s)[i] = s[i + 1]
      BY <2>1
    <3>2. s[i + 1] = Defaults[Len(Defaults) - Len(s) + (i + 1)]
      BY <1>4, <3>1 DEF EndOfDefaults
    <3>3. Len(Defaults) - Len(s) + (i + 1) = Len(Defaults) - Len(Tail(s)) + i
      BY <1>1, <2>1
    <3>4. QED
      BY <3>1, <3>2, <3>3
  <2>3. Len(Tail(s)) <= Len(Defaults)
    BY <1>1, <1>4, <2>1 DEF EndOfDefaults
  <2>4. QED
    BY <2>1, <2>2, <2>3 DEF EndOfDefaults
<1>5. QED
  BY <1>2, <1>3, <1>4

LEMMA EndIsSuffix ==
  ASSUME NEW s, EndOfDefaults(s)
  PROVE  IsSuffix(s, Defaults)
<1> DEFINE n == Len(s)  m == Len(Defaults)
           S == ToSet(Defaults)  r == Reverse(s)  q == Reverse(Defaults)
<1>1. /\ n \in Nat /\ m \in Nat /\ n <= m /\ s \in Seq(S) /\ Defaults \in Seq(S)
      /\ \A i \in 1 .. n : s[i] \in S
      /\ \A i \in 1 .. m : Defaults[i] \in S
  BY RecordsAssumption, LenProperties, ElementOfSeq DEF EndOfDefaults
<1>2. /\ r \in Seq(S) /\ Len(r) = n
      /\ \A i \in 1 .. n : r[i] = s[n - i + 1]
  BY <1>1 DEF Reverse
<1>3. /\ q \in Seq(S) /\ Len(q) = m
      /\ \A i \in 1 .. m : q[i] = Defaults[m - i + 1]
  BY <1>1 DEF Reverse
<1>4. ASSUME NEW i \in 1 .. n PROVE r[i] = q[i]
  <2>1. n - i + 1 \in 1 .. n /\ i \in 1 .. m
    BY <1>1
  <2>2. s[n - i + 1] = Defaults[m - n + (n - i + 1)]
    BY <1>1, <2>1 DEF EndOfDefaults
  <2>3. m - n + (n - i + 1) = m - i + 1
    BY <1>1
  <2>4. QED
    BY <1>2, <1>3, <2>1, <2>2, <2>3
<1> HIDE DEF n, m, r, q
<1>5. \A i \in 1 .. n : i \in 1 .. m
  BY <1>1
<1>6. /\ SubSeq(r, 1, n) = [i \in 1 .. n |-> r[i]]
      /\ SubSeq(q, 1, n) = [i \in 1 .. n |-> q[i]]
  BY <1>1, <1>2, <1>3, <1>5
<1>7. SubSeq(r, 1, n) = SubSeq(q, 1, n)
  BY <1>4, <1>6
<1>8. QED
  BY <1>1, <1>2, <1>3, <1>7 DEF IsSuffix, IsPrefix, r, q

-----------------------------------------------------------------------------
(* The files and the plans.                                                *)

\* Saves that are not an intake's.
OtherSaves ==
  {Save(ExpertKey(e), content) : e \in ToSet(Defaults), content \in ExpertFiles}
  \union {Save(ApprovalKey, approval) : approval \in Approvals}

FilesTyped ==
  /\ DOMAIN file = DeskKeys \union ExpertKeys \union {ApprovalKey}
  /\ \A key \in DOMAIN file : Readable(key) => file[key] \in Contents(key)

DeskInv == FilesTyped /\ Desk(Procs, OtherSaves)

\* The processes and their saves are constants.
LEMMA DeskIs ==
  ASSUME NEW procs, NEW others, procs = Procs, others = OtherSaves
  PROVE  /\ Desk(Procs, OtherSaves) <=> Desk(procs, others)
         /\ Desk(Procs, OtherSaves)' <=> Desk(procs, others)'
BY DEF Desk, PlanOK, Procs, OtherSaves, Save, ExpertKey, ApprovalKey, Approvals,
       ExpertFiles, ToSet

LEMMA SaveOfOther ==
  ASSUME NEW save \in OtherSaves
  PROVE  /\ save.key \notin DeskKeys /\ save.key \in ExpertKeys \union {ApprovalKey}
         /\ save.content \in Contents(save.key)
         /\ save.content \notin Unreadable \union {Invalid}
<1>1. ASSUME NEW e \in ToSet(Defaults), NEW content \in ExpertFiles,
             save = Save(ExpertKey(e), content)
      PROVE  /\ save.key = ExpertKey(e) /\ save.content = content
             /\ save.key \notin DeskKeys /\ save.key \in ExpertKeys
             /\ save.content \in Contents(save.key)
  <2>1. save.key = ExpertKey(e) /\ save.content = content
    BY <1>1, SaveParts
  <2>2. QED
    BY <2>1, RecordKeysDiffer, ContentsOfKeys DEF ExpertKeys
<1>2. ASSUME NEW approval \in Approvals, save = Save(ApprovalKey, approval)
      PROVE  /\ save.key = ApprovalKey /\ save.content = approval
             /\ save.key \notin DeskKeys /\ save.content \in Contents(save.key)
  <2>1. save.key = ApprovalKey /\ save.content = approval
    BY <1>2, SaveParts
  <2>2. QED
    BY <2>1, RecordKeysDiffer, ContentsOfKeys
<1>3. QED
  BY <1>1, <1>2, ContentsAssumption DEF OtherSaves

LEMMA SavesAreOther == Others(OtherSaves)
BY SaveOfOther DEF Others

\* What a process is about to save has the type of its file.
LEMMA HeadIsTyped ==
  ASSUME DeskInv, NEW p \in Procs, plan[p] # <<>>, Head(plan[p]).content # Invalid
  PROVE  Head(plan[p]).content \in Contents(Head(plan[p]).key)
<1>1. CASE Head(plan[p]) \in OtherSaves
  BY <1>1, SaveOfOther
<1>2. CASE IntakeHead(Head(plan[p]))
  <2>1. PICK q \in asked :
          \/ Head(plan[p]) = Save(AssessmentKey(q[1], q[2]), Assessment(q[1], q[3]))
          \/ Head(plan[p]) = Save(DemandKey(q[1]), q[1])
          \/ Head(plan[p]) = Save(GoalKey(q[1]), q[1])
    BY <1>2 DEF IntakeHead
  <2>2. q[1] \in Texts /\ q[3] \in Experts
    BY AskedParts DEF DeskInv, Desk
  <2>3. QED
    BY <2>1, <2>2, SaveParts, AssessmentIsValid, ContentsOfKeys
<1>3. QED
  BY <1>1, <1>2, HeadOfPlan DEF DeskInv, Desk

LEMMA SavingKeepsDesk ==
  ASSUME DeskInv, NEW p \in Procs, SaveStep(p), asked' = asked
  PROVE  DeskInv'
<1>1. PICK procs, others : procs = Procs /\ others = OtherSaves
  OBVIOUS
<1>2. Desk(procs, others) /\ Others(others)
  BY <1>1, DeskIs, SavesAreOther DEF DeskInv
<1>3. Desk(procs, others)'
  BY <1>1, <1>2, DeskSaving
<1>4. FilesTyped'
  <2>1. CASE UNCHANGED file
    BY <2>1 DEF DeskInv, FilesTyped, Readable
  <2>2. ASSUME plan[p] # <<>>, Head(plan[p]).content # Invalid,
               NEW c \in {Truncated, Garbled, Head(plan[p]).content},
               file' = [file EXCEPT ![Head(plan[p]).key] = c]
        PROVE  FilesTyped'
    <3>1. Head(plan[p]).content \in Contents(Head(plan[p]).key)
      BY <2>2, HeadIsTyped
    <3>2. QED
      BY <2>2, <3>1 DEF DeskInv, FilesTyped, Readable, Unreadable
  <2>3. QED
    BY <1>1, <1>2, <2>1, <2>2, SaveOfOneFile DEF Desk
<1>5. QED
  BY <1>1, <1>3, <1>4, DeskIs DEF DeskInv

LEMMA CommandKeepsDesk ==
  ASSUME DeskInv, NEW p \in Procs, plan[p] = <<>>,
         \/ asked' = asked /\ \E save \in OtherSaves : Saves(p, <<save>>)
         \/ \E raw \in Texts, source \in Sources, e \in Experts : Ingest(p, raw, source, e)
  PROVE  DeskInv'
<1>1. PICK procs, others : procs = Procs /\ others = OtherSaves
  OBVIOUS
<1>2. Desk(procs, others)'
  BY <1>1, DeskIs, DeskCommand DEF DeskInv
<1>3. FilesTyped'
  BY DEF Saves, Ingest, DeskInv, FilesTyped, Readable
<1>4. QED
  BY <1>1, <1>2, <1>3, DeskIs DEF DeskInv

LEMMA OtherStepsKeepDesk ==
  ASSUME DeskInv, asked' = asked, UNCHANGED file,
         \/ \E p \in Procs : Fails(p)
         \/ UNCHANGED <<plan, opened>> /\ failed' \in [Procs -> BOOLEAN]
  PROVE  DeskInv'
<1>1. PICK procs, others : procs = Procs /\ others = OtherSaves
  OBVIOUS
<1>2. Desk(procs, others)'
  BY <1>1, DeskIs, DeskOther DEF DeskInv
<1>3. FilesTyped'
  BY DEF DeskInv, FilesTyped, Readable
<1>4. QED
  BY <1>1, <1>2, <1>3, DeskIs DEF DeskInv

-----------------------------------------------------------------------------
(* Types.                                                                  *)

Todos == [left : Seq(ToSet(Defaults)), overwrite : BOOLEAN]

RestTyped ==
  /\ faults \in 0..MaxFaults
  /\ todo \in [Procs -> Todos] /\ \A p \in Procs : EndOfDefaults(todo[p].left)
  /\ copy \in [Clerks -> Approvals \union {None}]
  /\ health \in [Health -> BOOLEAN]
  /\ report \in [Health -> {None, "ok", "warnings"}]
  /\ touched \in [Health -> SUBSET ToSet(Defaults)]
  /\ granted \subseteq Contexts /\ ops \in [Kinds -> Nat]

TypeInv == DeskInv /\ RestTyped

\* An expert that is still to be registered is a default expert.
LEMMA NextExpert ==
  ASSUME RestTyped, NEW p \in Procs, todo[p].left # <<>>
  PROVE  Head(todo[p].left) \in ToSet(Defaults)
<1>1. todo[p].left \in Seq(ToSet(Defaults))
  BY DEF RestTyped, Todos
<1>2. QED
  BY <1>1, HeadTailProperties

LEMMA ClerksAreProcs ==
  /\ Clerks \subseteq Procs /\ Health \subseteq Procs
  /\ Clerks \intersect Health = {}
BY RecordsAssumption DEF Procs

\* What a request and a resolution leave in memory is an approval.
LEMMA ApprovalParts ==
  /\ \A context \in Contexts :
       /\ create_approval_request(context) \in Approvals
       /\ create_approval_request(context).status = "pending"
  /\ \A approval \in Approvals, status \in {"approved", "rejected"} :
       /\ [approval EXCEPT !.status = status] \in Approvals
       /\ [approval EXCEPT !.status = status].status = status
       /\ [approval EXCEPT !.status = status].context = approval.context
BY DEF Approvals, create_approval_request

\* The steps, by who can make them.
LEMMA Steps ==
  ASSUME Next
  PROVE  \/ \E p \in Procs : Saving(p) \/ RegisterNext(p) \/ Dies(p)
         \/ \E p \in Clerks : ClerkStep(p)
         \/ \E h \in Health : HealthBegin(h) \/ HealthReport(h) \/ HealthTimeout(h)
<1>1. Clerks \subseteq Procs /\ Health \subseteq Procs
  BY ClerksAreProcs
<1>2. QED
  BY <1>1 DEF Next, HealthStep

LEMMA StepDesk ==
  ASSUME TypeInv, Next
  PROVE  DeskInv'
<1> USE DEF TypeInv
<1>1. ASSUME NEW p \in Procs, Saving(p) PROVE DeskInv'
  BY <1>1, SavingKeepsDesk DEF Saving
<1>2. ASSUME NEW p \in Clerks, ClerkStep(p) PROVE DeskInv'
  <2>1. p \in Procs
    BY ClerksAreProcs
  <2>2. ASSUME NEW raw \in Texts, NEW source \in Sources, NEW preferred \in Experts,
               IntakeCommand(p, raw, source, preferred)
        PROVE  DeskInv'
    BY <2>1, <2>2, CommandKeepsDesk DEF IntakeCommand, Command, Idle
  <2>3. ASSUME NEW e \in ToSet(Defaults), RegisterExpert(p, e) PROVE DeskInv'
    <3>1. Save(ExpertKey(e), "custom") \in OtherSaves
      BY DEF OtherSaves, ExpertFiles
    <3>2. QED
      BY <2>1, <2>3, <3>1, CommandKeepsDesk DEF RegisterExpert, Command, Idle
  <2>4. CASE RegisterDefaults(p) \/ LoadApproval(p)
    <3>1. UNCHANGED <<file, plan, opened, asked>> /\ failed' \in [Procs -> BOOLEAN]
      BY <2>4 DEF RegisterDefaults, LoadApproval, deskVars, storeVars, DeskInv, Desk
    <3>2. QED
      BY <3>1, OtherStepsKeepDesk
  <2>5. ASSUME NEW context \in Contexts, RequestApproval(p, context) PROVE DeskInv'
    <3>1. copy'[p] \in Approvals
      BY <2>5, ApprovalParts DEF RequestApproval, RestTyped
    <3>2. Save(ApprovalKey, copy'[p]) \in OtherSaves
      BY <3>1 DEF OtherSaves
    <3>3. QED
      BY <2>1, <2>5, <3>2, CommandKeepsDesk DEF RequestApproval, Command, Idle
  <2>6. ASSUME NEW status \in {"approved", "rejected"}, _resolve(p, status)
        PROVE  DeskInv'
    <3>1. copy[p] \in Approvals /\ copy'[p] = [copy[p] EXCEPT !.status = status]
      BY <2>6 DEF _resolve, RestTyped
    <3>2. copy'[p] \in Approvals
      BY <3>1 DEF Approvals
    <3>3. Save(ApprovalKey, copy'[p]) \in OtherSaves
      BY <3>2 DEF OtherSaves
    <3>4. QED
      BY <2>1, <2>6, <3>3, CommandKeepsDesk DEF _resolve, Command, Idle
  <2>7. QED
    BY <1>2, <2>2, <2>3, <2>4, <2>5, <2>6 DEF ClerkStep
<1>3. ASSUME NEW p \in Procs, RegisterNext(p) PROVE DeskInv'
  <2> DEFINE e == Head(todo[p].left)
  <2>1. CASE UNCHANGED storeVars
    <3>1. UNCHANGED <<file, plan, opened, asked>> /\ failed' \in [Procs -> BOOLEAN]
      BY <1>3, <2>1 DEF RegisterNext, storeVars, DeskInv, Desk
    <3>2. QED
      BY <3>1, OtherStepsKeepDesk
  <2>2. CASE Saves(p, <<Save(ExpertKey(e), "default")>>)
    <3>1. e \in ToSet(Defaults)
      BY <1>3, NextExpert DEF RegisterNext
    <3>2. Save(ExpertKey(e), "default") \in OtherSaves
      BY <3>1 DEF OtherSaves, ExpertFiles
    <3>3. QED
      BY <1>3, <2>2, <3>2, CommandKeepsDesk DEF RegisterNext
  <2>3. QED
    BY <1>3, <2>1, <2>2 DEF RegisterNext
<1>4. ASSUME NEW h \in Health, HealthBegin(h) \/ HealthReport(h) PROVE DeskInv'
  <2>1. UNCHANGED <<file, plan, opened, asked>> /\ failed' \in [Procs -> BOOLEAN]
    BY <1>4 DEF HealthBegin, HealthReport, deskVars, storeVars, DeskInv, Desk
  <2>2. QED
    BY <2>1, OtherStepsKeepDesk
<1>5. ASSUME NEW p \in Procs, Dies(p) \/ HealthTimeout(p) PROVE DeskInv'
  <2>1. Fails(p) /\ asked' = asked /\ UNCHANGED file
    BY <1>5 DEF Dies, HealthTimeout, Killed, Fails
  <2>2. QED
    BY <2>1, OtherStepsKeepDesk
<1>6. QED
  BY <1>1, <1>2, <1>3, <1>4, <1>5, ClerksAreProcs, Steps

\* A command that begins is one of a kind that is left.
LEMMA CommandIsCounted ==
  ASSUME ops \in [Kinds -> Nat], NEW p, NEW kind \in Kinds, Command(p, kind)
  PROVE  ops' \in [Kinds -> Nat]
<1>1. ops[kind] \in Nat /\ ops[kind] > 0
  BY DEF Command
<1>2. ops[kind] - 1 \in Nat
  BY <1>1
<1>3. ops' = [ops EXCEPT ![kind] = ops[kind] - 1]
  BY DEF Command
<1>4. QED
  BY <1>2, <1>3

LEMMA StepRest ==
  ASSUME TypeInv, Next
  PROVE  RestTyped'
<1> USE DEF TypeInv
<1>1. \A p \in Procs, c \in BOOLEAN :
        [todo EXCEPT ![p] = [left |-> Defaults, overwrite |-> c]] \in [Procs -> Todos]
  BY RecordsAssumption DEF RestTyped, Todos
<1>2. \A p \in Procs : [todo EXCEPT ![p] = NothingLeft] \in [Procs -> Todos]
  BY EmptySeq DEF RestTyped, Todos, NothingLeft
<1>3. ASSUME NEW t, NEW p \in Procs, t \in Todos, EndOfDefaults(t.left),
             todo' = [todo EXCEPT ![p] = t]
      PROVE  todo' \in [Procs -> Todos] /\ \A q \in Procs : EndOfDefaults(todo'[q].left)
  BY <1>3 DEF RestTyped
<1>4. ASSUME NEW p \in Clerks, ClerkStep(p) PROVE RestTyped'
  <2>1. p \in Procs
    BY ClerksAreProcs
  <2>2. ASSUME NEW raw \in Texts, NEW source \in Sources, NEW preferred \in Experts,
               IntakeCommand(p, raw, source, preferred)
        PROVE  RestTyped'
    <3>1. Command(p, "intake")
      BY <2>2 DEF IntakeCommand
    <3>2. ops' \in [Kinds -> Nat]
      BY <3>1, CommandIsCounted DEF Kinds, RestTyped
    <3>3. QED
      BY <2>2, <3>2 DEF IntakeCommand, RestTyped
  <2>3. ASSUME NEW e \in ToSet(Defaults), RegisterExpert(p, e) PROVE RestTyped'
    <3>1. Command(p, "experts")
      BY <2>3 DEF RegisterExpert
    <3>2. ops' \in [Kinds -> Nat]
      BY <3>1, CommandIsCounted DEF Kinds, RestTyped
    <3>3. QED
      BY <2>3, <3>2 DEF RegisterExpert, RestTyped
  <2>4. CASE RegisterDefaults(p)
    <3> DEFINE t == [left |-> Defaults, overwrite |-> FALSE]
    <3>1. t \in Todos /\ EndOfDefaults(t.left) /\ todo' = [todo EXCEPT ![p] = t]
      BY <2>4, RecordsAssumption, EndsOfDefaults DEF RegisterDefaults, Todos
    <3>2. todo' \in [Procs -> Todos] /\ \A q \in Procs : EndOfDefaults(todo'[q].left)
      BY <1>3, <2>1, <3>1
    <3>3. Command(p, "experts")
      BY <2>4 DEF RegisterDefaults
    <3>4. ops' \in [Kinds -> Nat]
      BY <3>3, CommandIsCounted DEF Kinds, RestTyped
    <3>5. QED
      BY <2>4, <3>2, <3>4 DEF RegisterDefaults, RestTyped
  <2>5. CASE LoadApproval(p)
    <3>1. ApprovalKey \in DOMAIN file
      BY DEF DeskInv, FilesTyped
    <3>2. file[ApprovalKey] \in Approvals
      BY <2>5, <3>1, ContentsOfKeys DEF LoadApproval, DeskInv, FilesTyped
    <3>3. QED
      BY <2>5, <3>2 DEF LoadApproval, RestTyped
  <2>6. ASSUME NEW context \in Contexts, RequestApproval(p, context) PROVE RestTyped'
    <3>1. create_approval_request(context) \in Approvals
      BY ApprovalParts
    <3>2. Command(p, "approval")
      BY <2>6 DEF RequestApproval
    <3>3. ops' \in [Kinds -> Nat]
      BY <3>2, CommandIsCounted DEF Kinds, RestTyped
    <3>4. QED
      BY <2>6, <3>1, <3>3 DEF RequestApproval, RestTyped
  <2>7. ASSUME NEW status \in {"approved", "rejected"}, _resolve(p, status)
        PROVE  RestTyped'
    <3>1. copy[p] \in Approvals /\ copy' = [copy EXCEPT ![p] = [copy[p] EXCEPT !.status = status]]
      BY <2>7 DEF _resolve, RestTyped
    <3>2. copy' \in [Clerks -> Approvals \union {None}]
      BY <3>1, ApprovalParts DEF RestTyped
    <3>3. copy[p].context \in Contexts
      BY <3>1 DEF Approvals
    <3>4. granted' \subseteq Contexts
      BY <2>7, <3>3 DEF _resolve, RestTyped
    <3>5. Command(p, "approval")
      BY <2>7 DEF _resolve
    <3>6. ops' \in [Kinds -> Nat]
      BY <3>5, CommandIsCounted DEF Kinds, RestTyped
    <3>7. QED
      BY <2>7, <3>2, <3>4, <3>6 DEF _resolve, RestTyped
  <2>8. QED
    BY <1>4, <2>2, <2>3, <2>4, <2>5, <2>6, <2>7 DEF ClerkStep
<1>5. ASSUME NEW p \in Procs, RegisterNext(p) PROVE RestTyped'
  <2> DEFINE t == [todo[p] EXCEPT !.left = Tail(todo[p].left)]
  <2>1. /\ todo[p] \in Todos /\ todo[p].left \in Seq(ToSet(Defaults))
        /\ todo[p].left # <<>> /\ EndOfDefaults(todo[p].left)
    BY <1>5 DEF RegisterNext, RestTyped, Todos
  <2>2. Tail(todo[p].left) \in Seq(ToSet(Defaults)) /\ EndOfDefaults(Tail(todo[p].left))
    BY <2>1, HeadTailProperties, EndsOfDefaults
  <2>3. t \in Todos /\ t.left = Tail(todo[p].left)
    BY <2>1, <2>2 DEF Todos
  <2>4. todo' = [todo EXCEPT ![p] = t]
    BY <1>5 DEF RegisterNext, RestTyped
  <2>5. todo' \in [Procs -> Todos] /\ \A q \in Procs : EndOfDefaults(todo'[q].left)
    BY <1>3, <2>2, <2>3, <2>4
  <2>6. QED
    BY <1>5, <2>5 DEF RegisterNext, RestTyped
<1>6. ASSUME NEW h \in Health, HealthBegin(h) PROVE RestTyped'
  <2> DEFINE t == [left |-> Defaults, overwrite |-> TRUE]
  <2>1. t \in Todos /\ EndOfDefaults(t.left) /\ todo' = [todo EXCEPT ![h] = t]
    BY <1>6, RecordsAssumption, EndsOfDefaults DEF HealthBegin, _register_known_experts, Todos
  <2>2. todo' \in [Procs -> Todos] /\ \A q \in Procs : EndOfDefaults(todo'[q].left)
    BY <1>3, <2>1, ClerksAreProcs
  <2>3. QED
    BY <1>6, <2>2 DEF HealthBegin, RestTyped
<1>7. ASSUME NEW h \in Health, HealthReport(h) PROVE RestTyped'
  BY <1>7 DEF HealthReport, RestTyped
<1>8. ASSUME NEW p \in Procs, Dies(p) \/ HealthTimeout(p) PROVE RestTyped'
  <2>1. NothingLeft \in Todos /\ EndOfDefaults(NothingLeft.left)
    BY EmptySeq, EndsOfDefaults DEF NothingLeft, Todos
  <2>2. todo' = [todo EXCEPT ![p] = NothingLeft]
    BY <1>8 DEF Dies, HealthTimeout
  <2>3. todo' \in [Procs -> Todos] /\ \A q \in Procs : EndOfDefaults(todo'[q].left)
    BY <1>3, <2>1, <2>2
  <2>4. faults' \in 0..MaxFaults
    BY <1>8, FaultsAssumption DEF Dies, HealthTimeout, Fault, RestTyped
  <2>5. QED
    BY <1>8, <2>3, <2>4 DEF Dies, HealthTimeout, RestTyped
<1>9. ASSUME NEW p \in Procs, Saving(p) PROVE RestTyped'
  BY <1>9 DEF Saving, RestTyped
<1>10. QED
  BY <1>4, <1>5, <1>6, <1>7, <1>8, <1>9, ClerksAreProcs, Steps

-----------------------------------------------------------------------------
(* Approvals.                                                              *)

ApprovalInv ==
  /\ Readable(ApprovalKey) => Earned(file[ApprovalKey])
  /\ \A p \in Clerks : copy[p] # None => Earned(copy[p])
  /\ \A p \in Procs, approval \in Approvals :
       plan[p] = <<Save(ApprovalKey, approval)>> => Earned(approval)

\* A plan of one save determines the save, and is not an intake's.
LEMMA ApprovalPlan ==
  /\ \A a, b : <<Save(ApprovalKey, a)>> = <<Save(ApprovalKey, b)>> => a = b
  /\ \A a : /\ <<Save(ApprovalKey, a)>> # <<>>
            /\ Head(<<Save(ApprovalKey, a)>>) = Save(ApprovalKey, a)
  /\ \A a, e, content : <<Save(ApprovalKey, a)>> # <<Save(ExpertKey(e), content)>>
<1>1. \A a : /\ <<Save(ApprovalKey, a)>> # <<>>
             /\ Head(<<Save(ApprovalKey, a)>>) = Save(ApprovalKey, a)
             /\ Save(ApprovalKey, a).key = ApprovalKey
             /\ Save(ApprovalKey, a).content = a
  BY One, SaveParts
<1>2. \A e, content : /\ Head(<<Save(ExpertKey(e), content)>>) = Save(ExpertKey(e), content)
                      /\ Save(ExpertKey(e), content).key = ExpertKey(e)
  BY One, SaveParts
<1>3. ASSUME NEW a, NEW b, <<Save(ApprovalKey, a)>> = <<Save(ApprovalKey, b)>>
      PROVE  a = b
  <2>1. Head(<<Save(ApprovalKey, a)>>) = Head(<<Save(ApprovalKey, b)>>)
    BY <1>3
  <2>2. Save(ApprovalKey, a).content = Save(ApprovalKey, b).content
    BY <1>1, <2>1
  <2>3. QED
    BY <1>1, <2>2
<1>4. ASSUME NEW a, NEW e, NEW content,
             <<Save(ApprovalKey, a)>> = <<Save(ExpertKey(e), content)>>
      PROVE  FALSE
  <2>1. Head(<<Save(ApprovalKey, a)>>) = Head(<<Save(ExpertKey(e), content)>>)
    BY <1>4
  <2>2. ApprovalKey = ExpertKey(e)
    BY <1>1, <1>2, <2>1
  <2>3. QED
    BY <2>2, RecordKeysDiffer
<1>5. QED
  BY <1>1, <1>3, <1>4

LEMMA IntakeIsNoApproval ==
  ASSUME NEW raw, NEW source, NEW e, NEW approval
  PROVE  IntakeSaves(raw, source, e) # <<Save(ApprovalKey, approval)>>
<1>1. Head(IntakeSaves(raw, source, e)).key = AssessmentKey(raw, source)
  BY SavesOfIntake, SaveParts
<1>2. Head(<<Save(ApprovalKey, approval)>>).key = ApprovalKey
  BY One, SaveParts
<1>3. AssessmentKey(raw, source) # ApprovalKey
  BY DEF AssessmentKey, ApprovalKey
<1>4. QED
  BY <1>1, <1>2, <1>3

\* What was earned stays earned.
LEMMA StaysEarned ==
  ASSUME granted \subseteq granted', NEW approval, Earned(approval)
  PROVE  Earned(approval)'
BY DEF Earned

\* Files stay, and no clerk's copy changes: the plans decide.
LEMMA ApprovalKept ==
  ASSUME TypeInv, ApprovalInv, UNCHANGED <<file, copy, granted>>,
         \A p \in Procs, approval \in Approvals :
           plan'[p] = <<Save(ApprovalKey, approval)>> => plan[p] = plan'[p]
  PROVE  ApprovalInv'
BY DEF ApprovalInv, Earned, Readable

LEMMA SavingEarned ==
  ASSUME TypeInv, ApprovalInv, NEW p \in Procs, Saving(p)
  PROVE  ApprovalInv'
<1>1. PICK others : others = OtherSaves
  OBVIOUS
<1>2. /\ PlanOK(p, others) /\ Others(others) /\ DeskFiles
      /\ SaveStep(p) /\ asked' = asked /\ UNCHANGED <<copy, granted>>
  BY <1>1, SavesAreOther DEF TypeInv, DeskInv, Desk, Saving
<1>3. /\ Readable(ApprovalKey)' => Earned(file[ApprovalKey])'
      /\ ApprovalKey \in DOMAIN file
  <2>1. ApprovalKey \in DOMAIN file
    BY DEF TypeInv, DeskInv, FilesTyped
  <2>2. CASE file'[ApprovalKey] = file[ApprovalKey]
    BY <1>2, <2>1, <2>2 DEF ApprovalInv, Readable, Earned
  <2>3. ASSUME plan[p] # <<>>, Head(plan[p]).key = ApprovalKey,
               NEW c \in {Truncated, Garbled, Head(plan[p]).content},
               file' = [file EXCEPT ![Head(plan[p]).key] = c]
        PROVE  Readable(ApprovalKey)' => Earned(file[ApprovalKey])'
    <3>1. PICK save \in others : plan[p] = <<save>>
      BY <1>2, <2>3, OtherPlan, RecordKeysDiffer
    <3>2. Head(plan[p]) = save /\ save \in OtherSaves
      BY <1>1, <3>1, One
    <3>3. PICK approval \in Approvals : save = Save(ApprovalKey, approval)
      BY <2>3, <3>2, RecordKeysDiffer, SaveParts DEF OtherSaves
    <3>4. Earned(approval) /\ Head(plan[p]).content = approval
      BY <3>1, <3>2, <3>3, SaveParts DEF ApprovalInv
    <3>5. file'[ApprovalKey] = c
      BY <2>1, <2>3
    <3>6. CASE c = approval
      BY <1>2, <3>4, <3>5, <3>6 DEF Earned
    <3>7. CASE c \in {Truncated, Garbled}
      BY <3>5, <3>7 DEF Readable, Unreadable
    <3>8. QED
      BY <2>3, <3>4, <3>6, <3>7
  <2>4. QED
    BY <1>2, <2>1, <2>2, <2>3, SaveOfOneFile
<1>4. ASSUME NEW q \in Procs, NEW approval \in Approvals,
             plan'[q] = <<Save(ApprovalKey, approval)>>
      PROVE  Earned(approval)'
  <2>1. plan[q] = <<Save(ApprovalKey, approval)>>
    <3>1. CASE q = p
      <4>1. Save(ApprovalKey, approval).key \notin DeskKeys
        BY SaveParts, RecordKeysDiffer
      <4>2. QED
        BY <1>2, <1>4, <3>1, <4>1, OtherSaveStays
    <3>2. CASE q # p
      BY <1>2, <1>4, <3>2
      DEF SaveStep, Truncate, Write, SaveRefused, Fails, TypeInv, DeskInv, Desk
    <3>3. QED
      BY <3>1, <3>2
  <2>2. QED
    BY <1>2, <2>1 DEF ApprovalInv, Earned
<1>5. \A q \in Clerks : copy'[q] # None => Earned(copy[q])'
  BY <1>2 DEF ApprovalInv, Earned
<1>6. QED
  BY <1>3, <1>4, <1>5 DEF ApprovalInv

\* A clerk keeps an approval in memory, and saves it.
LEMMA CopySaved ==
  ASSUME TypeInv, ApprovalInv, NEW p \in Clerks, NEW approval \in Approvals,
         file' = file, granted \subseteq granted', Earned(approval)',
         copy' = [copy EXCEPT ![p] = approval],
         plan' = [plan EXCEPT ![p] = <<Save(ApprovalKey, approval)>>]
  PROVE  ApprovalInv'
<1>1. Readable(ApprovalKey)' => Earned(file[ApprovalKey])'
  BY DEF ApprovalInv, Readable, Earned
<1>2. \A q \in Clerks : copy'[q] # None => Earned(copy[q])'
  BY DEF ApprovalInv, Earned, TypeInv, RestTyped
<1>3. ASSUME NEW q \in Procs, NEW a \in Approvals, plan'[q] = <<Save(ApprovalKey, a)>>
      PROVE  Earned(a)'
  <2>1. CASE q = p
    <3>1. <<Save(ApprovalKey, approval)>> = <<Save(ApprovalKey, a)>>
      BY <1>3, <2>1 DEF TypeInv, DeskInv, Desk
    <3>2. approval = a
      BY <3>1, ApprovalPlan
    <3>3. QED
      BY <3>2
  <2>2. CASE q # p
    <3>1. Earned(a)
      BY <1>3, <2>2 DEF ApprovalInv
    <3>2. QED
      BY <3>1 DEF Earned
  <2>3. QED
    BY <2>1, <2>2
<1>4. QED
  BY <1>1, <1>2, <1>3 DEF ApprovalInv

LEMMA StepApproval ==
  ASSUME TypeInv, ApprovalInv, Next
  PROVE  ApprovalInv'
<1>1. ASSUME NEW p \in Clerks, ClerkStep(p) PROVE ApprovalInv'
  <2>1. ASSUME NEW raw \in Texts, NEW source \in Sources, NEW preferred \in Experts,
               IntakeCommand(p, raw, source, preferred)
        PROVE  ApprovalInv'
    <3>1. /\ UNCHANGED <<file, copy, granted>>
          /\ plan' = [plan EXCEPT ![p] = IntakeSaves(raw, source, preferred)]
      BY <2>1 DEF IntakeCommand, Ingest, Saves
    <3>2. QED
      BY <3>1, IntakeIsNoApproval, ApprovalKept DEF TypeInv, DeskInv, Desk
  <2>2. ASSUME NEW e \in ToSet(Defaults), RegisterExpert(p, e) PROVE ApprovalInv'
    <3>1. /\ UNCHANGED <<file, copy, granted>>
          /\ plan' = [plan EXCEPT ![p] = <<Save(ExpertKey(e), "custom")>>]
      BY <2>2 DEF RegisterExpert, Saves
    <3>2. QED
      BY <3>1, ApprovalPlan, ApprovalKept DEF TypeInv, DeskInv, Desk
  <2>3. CASE RegisterDefaults(p)
    BY <2>3, ApprovalKept DEF RegisterDefaults, deskVars, storeVars
  <2>4. CASE LoadApproval(p)
    <3>1. /\ UNCHANGED <<file, plan, granted>> /\ Readable(ApprovalKey)
          /\ copy' = [copy EXCEPT ![p] = file[ApprovalKey]]
      BY <2>4 DEF LoadApproval, deskVars, storeVars
    <3>2. QED
      BY <3>1 DEF ApprovalInv, Earned, Readable, TypeInv, RestTyped
  <2>5. ASSUME NEW context \in Contexts, RequestApproval(p, context) PROVE ApprovalInv'
    <3> DEFINE approval == create_approval_request(context)
    <3>1. approval \in Approvals /\ approval.status = "pending"
      BY ApprovalParts
    <3> HIDE DEF approval
    <3>2. /\ UNCHANGED <<file, granted>> /\ copy' = [copy EXCEPT ![p] = approval]
          /\ plan' = [plan EXCEPT ![p] = <<Save(ApprovalKey, copy'[p])>>]
      BY <2>5 DEF RequestApproval, Saves, approval
    <3>3. copy'[p] = approval
      BY <3>2 DEF TypeInv, RestTyped
    <3>4. Earned(approval)'
      BY <3>1 DEF Earned
    <3>5. QED
      BY <3>1, <3>2, <3>3, <3>4, CopySaved
  <2>6. ASSUME NEW status \in {"approved", "rejected"}, _resolve(p, status)
        PROVE  ApprovalInv'
    <3>1. /\ copy[p] \in Approvals /\ file' = file
          /\ copy' = [copy EXCEPT ![p] = [copy[p] EXCEPT !.status = status]]
          /\ granted' = IF status = "approved" THEN granted \union {copy[p].context}
                        ELSE granted
          /\ plan' = [plan EXCEPT ![p] = <<Save(ApprovalKey, copy'[p])>>]
      BY <2>6 DEF _resolve, Saves, TypeInv, RestTyped
    <3>2. PICK approval \in Approvals :
            /\ approval = [copy[p] EXCEPT !.status = status]
            /\ approval.status = status /\ approval.context = copy[p].context
      <4> DEFINE resolved == [copy[p] EXCEPT !.status = status]
      <4>1. /\ resolved \in Approvals /\ resolved.status = status
            /\ resolved.context = copy[p].context
        BY <3>1 DEF Approvals
      <4>2. QED
        BY <4>1
    <3>3. copy' = [copy EXCEPT ![p] = approval]
      BY <3>1, <3>2
    <3>4. copy'[p] = approval
      BY <3>3 DEF TypeInv, RestTyped
    <3>5. Earned(approval)'
      BY <3>1, <3>2 DEF Earned
    <3>6. plan' = [plan EXCEPT ![p] = <<Save(ApprovalKey, approval)>>]
      BY <3>1, <3>4
    <3>7. granted \subseteq granted' /\ file' = file
      BY <3>1
    <3>8. QED
      BY <3>2, <3>3, <3>5, <3>6, <3>7, CopySaved
  <2>7. QED
    BY <1>1, <2>1, <2>2, <2>3, <2>4, <2>5, <2>6 DEF ClerkStep
<1>2. ASSUME NEW p \in Procs, RegisterNext(p) PROVE ApprovalInv'
  <2>1. /\ UNCHANGED <<file, copy, granted>>
        /\ \/ UNCHANGED plan
           \/ plan' = [plan EXCEPT
                         ![p] = <<Save(ExpertKey(Head(todo[p].left)), "default")>>]
    BY <1>2 DEF RegisterNext, Saves, storeVars
  <2>2. QED
    BY <2>1, ApprovalPlan, ApprovalKept DEF TypeInv, DeskInv, Desk
<1>3. ASSUME NEW p \in Procs, Dies(p) \/ HealthTimeout(p) PROVE ApprovalInv'
  <2>1. UNCHANGED <<file, copy, granted>> /\ plan' = [plan EXCEPT ![p] = <<>>]
    BY <1>3 DEF Dies, HealthTimeout, Killed, Fails
  <2>2. QED
    BY <2>1, ApprovalPlan, ApprovalKept DEF TypeInv, DeskInv, Desk
<1>4. ASSUME NEW h \in Health, HealthBegin(h) \/ HealthReport(h) PROVE ApprovalInv'
  BY <1>4, ApprovalKept DEF HealthBegin, HealthReport, deskVars, storeVars
<1>5. QED
  BY <1>1, <1>2, <1>3, <1>4, SavingEarned, ClerksAreProcs, Steps

LEMMA ApprovalsEarned ==
  ASSUME TypeInv, ApprovalInv
  PROVE  ApprovalIsEarned
<1>1. ASSUME NEW p \in Clerks, NEW i \in DOMAIN plan[p], plan[p][i].key = ApprovalKey
      PROVE  Earned(plan[p][i].content)
  <2>1. PICK others : others = OtherSaves
    OBVIOUS
  <2>2. PlanOK(p, others) /\ DeskFiles
    BY <2>1, ClerksAreProcs DEF TypeInv, DeskInv, Desk
  <2>3. CASE plan[p] = <<>>
    BY <1>1, <2>3
  <2>4. ASSUME NEW save \in others, plan[p] = <<save>> PROVE Earned(plan[p][i].content)
    <3>1. plan[p][i] = save /\ save \in OtherSaves
      BY <2>1, <2>4
    <3>2. PICK approval \in Approvals : save = Save(ApprovalKey, approval)
      BY <1>1, <3>1, RecordKeysDiffer, SaveParts DEF OtherSaves
    <3>3. QED
      BY <2>4, <3>1, <3>2, SaveParts, ClerksAreProcs DEF ApprovalInv
  <2>5. ASSUME NEW q \in asked, Progress(p, q[1], q[2], q[3]) PROVE FALSE
    <3> DEFINE a == Save(AssessmentKey(q[1], q[2]), Assessment(q[1], q[3]))
               d == Save(DemandKey(q[1]), q[1])
               g == Save(GoalKey(q[1]), q[1])
    <3>1. ApprovalKey \notin {a.key, d.key, g.key}
      BY SaveParts DEF ApprovalKey, AssessmentKey, DemandKey, GoalKey
    <3>2. IntakeSaves(q[1], q[2], q[3]) \in {<<a, d, g>>, <<a>>} /\ Promotion(q[1]) = <<d, g>>
      BY SavesOfIntake
    <3>3. plan[p] \in {<<>>, <<a>>, <<a, d, g>>, <<d, g>>, <<g>>}
      BY <2>5, <3>2 DEF Progress
    <3> HIDE DEF a, d, g
    <3>4. plan[p][i] \in {a, d, g}
      BY <3>3
    <3>5. QED
      BY <1>1, <3>1, <3>4
  <2>6. QED
    BY <2>2, <2>3, <2>4, <2>5 DEF PlanOK, IntakePlan
<1>2. QED
  BY <1>1 DEF ApprovalInv, ApprovalIsEarned

-----------------------------------------------------------------------------
(* The registry health.                                                    *)

Registers(h, e) == plan[h] = <<Save(ExpertKey(e), "default")>>

\* The expert can be read, was saved by others, or is still to be registered.
Covered(h, e) ==
  Readable(ExpertKey(e)) \/ e \in touched[h] \/ e \in ToSet(todo[h].left) \/ Registers(h, e)

\* A health process registers default experts over what is there, and nothing
\* else.  A registration that has failed has no experts left; until it has, all
\* are covered.  A truncated file of its own stays truncated unless others save
\* the expert.
HealthOK(h) ==
  /\ plan[h] = <<>> \/ \E e \in ToSet(Defaults) : Registers(h, e)
  /\ ~health[h] => Idle(h)
  /\ todo[h].left # <<>> => todo[h].overwrite
  /\ health[h] /\ failed[h] => todo[h].left = <<>>
  /\ health[h] /\ ~failed[h] => \A e \in ToSet(Defaults) : Covered(h, e)
  /\ opened[h] => \A e \in ToSet(Defaults) :
       Registers(h, e) => file[ExpertKey(e)] = Truncated \/ e \in touched[h]
  /\ report[h] = "ok" /\ ~health[h] => \A e \in ToSet(Defaults) :
       Readable(ExpertKey(e)) \/ e \in touched[h]

HealthInv == \A h \in Health : HealthOK(h)

LEMMA RegistersOne ==
  ASSUME NEW h, NEW e, Registers(h, e)
  PROVE  /\ plan[h] # <<>> /\ Tail(plan[h]) = <<>>
         /\ Head(plan[h]).key = ExpertKey(e) /\ Head(plan[h]).content = "default"
         /\ \A d : Registers(h, d) => d = e
<1>1. plan[h] # <<>> /\ Tail(plan[h]) = <<>> /\ Head(plan[h]) = Save(ExpertKey(e), "default")
  BY One DEF Registers
<1>2. Head(plan[h]).key = ExpertKey(e) /\ Head(plan[h]).content = "default"
  BY <1>1, SaveParts
<1>3. ASSUME NEW d, Registers(h, d) PROVE d = e
  <2>1. Head(plan[h]) = Save(ExpertKey(d), "default")
    BY <1>3, One DEF Registers
  <2>2. ExpertKey(d) = ExpertKey(e)
    BY <1>2, <2>1, SaveParts
  <2>3. QED
    BY <2>2, SameExpertKey
<1>4. QED
  BY <1>1, <1>2, <1>3

LEMMA ExpertFilesThere ==
  ASSUME TypeInv, NEW e \in ToSet(Defaults)
  PROVE  ExpertKey(e) \in DOMAIN file
BY DEF TypeInv, DeskInv, FilesTyped, ExpertKeys

LEMMA HealthKept ==
  ASSUME NEW h \in Health, HealthOK(h), file' = file,
         plan'[h] = plan[h], opened'[h] = opened[h], failed'[h] = failed[h],
         todo'[h] = todo[h], health'[h] = health[h], report'[h] = report[h],
         touched'[h] = touched[h]
  PROVE  HealthOK(h)'
BY DEF HealthOK, Covered, Registers, Idle, Readable

\* Somebody else saves: an expert he saves is touched.
LEMMA OthersSave ==
  ASSUME TypeInv, NEW h \in Health, HealthOK(h), NEW p \in Procs, p # h, Saving(p)
  PROVE  HealthOK(h)'
<1>1. /\ plan'[h] = plan[h] /\ opened'[h] = opened[h] /\ failed'[h] = failed[h]
      /\ UNCHANGED <<todo, health, report>>
  BY ClerksAreProcs
  DEF Saving, SaveStep, Truncate, Write, SaveRefused, Fails, TypeInv, DeskInv, Desk
<1>2. touched'[h] = touched[h] \union {e \in ToSet(Defaults) : Head(plan[p]).key = ExpertKey(e)}
  BY DEF Saving
<1>3. PlanOK(p, OtherSaves)
  BY DEF TypeInv, DeskInv, Desk
<1>4. ASSUME NEW e \in ToSet(Defaults)
      PROVE  file'[ExpertKey(e)] = file[ExpertKey(e)] \/ e \in touched'[h]
  BY <1>2, <1>3, <1>4, SaveOfOneFile, ExpertFilesThere DEF Saving
<1>5. \A e \in ToSet(Defaults) : /\ Covered(h, e) => Covered(h, e)'
                                 /\ Registers(h, e)' <=> Registers(h, e)
  BY <1>1, <1>2, <1>4 DEF Covered, Registers, Readable
<1>6. QED
  BY <1>1, <1>2, <1>4, <1>5 DEF HealthOK, Idle, Readable

\* The process itself saves.
LEMMA HealthSaves ==
  ASSUME TypeInv, NEW h \in Health, HealthOK(h), Saving(h)
  PROVE  HealthOK(h)'
<1>1. /\ UNCHANGED <<todo, health, report>> /\ touched'[h] = touched[h]
      /\ h \in DOMAIN plan /\ h \in DOMAIN opened /\ h \in DOMAIN failed
  BY ClerksAreProcs DEF Saving, TypeInv, DeskInv, Desk
<1>2. plan[h] # <<>>
  BY DEF Saving, SaveStep, Truncate, Write, SaveRefused
<1>3. PICK e \in ToSet(Defaults) : Registers(h, e)
  BY <1>2 DEF HealthOK
<1>4. /\ Tail(plan[h]) = <<>> /\ Head(plan[h]).key = ExpertKey(e)
      /\ Head(plan[h]).content = "default"
      /\ "default" \notin Unreadable \union {Invalid} /\ health[h]
  <2>1. "default" \notin Unreadable \union {Invalid}
    BY ContentsAssumption DEF ExpertFiles
  <2>2. health[h]
    BY <1>2 DEF HealthOK, Idle
  <2>3. QED
    BY <1>3, <2>1, <2>2, RegistersOne
<1>5. ASSUME NEW d \in ToSet(Defaults), d # e
      PROVE  ~Registers(h, d) /\ ExpertKey(d) # ExpertKey(e)
  BY <1>3, <1>5, RegistersOne, SameExpertKey
<1>6. CASE Truncate(h)
  <2>1. /\ file' = [file EXCEPT ![ExpertKey(e)] = Truncated] /\ UNCHANGED <<plan, failed>>
    BY <1>4, <1>6 DEF Truncate
  <2>2. file'[ExpertKey(e)] = Truncated
    BY <2>1, ExpertFilesThere
  <2>3. \A d \in ToSet(Defaults) : Registers(h, d)' <=> Registers(h, d)
    BY <2>1 DEF Registers
  <2>4. \A d \in ToSet(Defaults) : Covered(h, d) => Covered(h, d)'
    BY <1>1, <1>3, <1>5, <2>1, <2>3 DEF Covered, Readable
  <2>5. QED
    BY <1>1, <1>4, <1>5, <2>1, <2>2, <2>3, <2>4 DEF HealthOK, Idle
<1>7. CASE Write(h)
  <2>1. /\ plan'[h] = <<>> /\ opened[h] /\ ~opened'[h] /\ failed' = failed
        /\ \E content \in AfterWrite(Head(plan[h])) :
             file' = [file EXCEPT ![ExpertKey(e)] = content]
    BY <1>1, <1>4, <1>7 DEF Write
  <2>2. Readable(ExpertKey(e))' \/ e \in touched[h]
    <3>1. file[ExpertKey(e)] = Truncated \/ e \in touched[h]
      BY <1>3, <2>1 DEF HealthOK
    <3>2. file[ExpertKey(e)] = Truncated => AfterWrite(Head(plan[h])) = {"default"}
      BY <1>4 DEF AfterWrite
    <3>3. QED
      BY <1>4, <2>1, <3>1, <3>2, ExpertFilesThere DEF Readable
  <2>3. \A d \in ToSet(Defaults) : Covered(h, d) => Covered(h, d)'
    BY <1>1, <1>5, <2>1, <2>2 DEF Covered, Readable
  <2>4. QED
    BY <1>1, <1>4, <2>1, <2>3 DEF HealthOK, Idle
<1>8. CASE SaveRefused(h)
  BY <1>4, <1>8 DEF SaveRefused
<1>9. QED
  BY <1>6, <1>7, <1>8 DEF Saving, SaveStep

\* The next expert is registered, though it is there.
LEMMA HealthRegisters ==
  ASSUME TypeInv, NEW h \in Health, HealthOK(h), RegisterNext(h)
  PROVE  HealthOK(h)'
<1> DEFINE next == Head(todo[h].left)
<1>1. /\ h \in Procs /\ h \in DOMAIN plan /\ h \in DOMAIN failed /\ h \in DOMAIN todo
      /\ todo[h] \in Todos
  BY ClerksAreProcs DEF TypeInv, DeskInv, Desk, RestTyped
<1>2. /\ plan[h] = <<>> /\ todo[h].left # <<>> /\ todo[h].overwrite
      /\ UNCHANGED <<file, opened, health, report, touched>>
      /\ plan' = [plan EXCEPT ![h] = <<Save(ExpertKey(next), "default")>>]
      /\ failed' = [failed EXCEPT ![h] = FALSE]
      /\ todo' = [todo EXCEPT ![h].left = Tail(@)]
  BY DEF RegisterNext, Saves, HealthOK
<1>3. /\ plan'[h] = <<Save(ExpertKey(next), "default")>> /\ ~failed'[h]
      /\ todo'[h].left = Tail(todo[h].left) /\ todo'[h].overwrite
  BY <1>1, <1>2 DEF Todos
<1>4. next \in ToSet(Defaults)
  BY <1>1, <1>2, NextExpert DEF TypeInv
<1>5. PICK e \in ToSet(Defaults) : e = next
  BY <1>4
<1>6. Registers(h, e)'
  BY <1>3, <1>5 DEF Registers
<1>7. health[h] /\ ~failed[h] /\ ~opened[h]
  <2>1. health[h] /\ ~failed[h]
    BY <1>2 DEF HealthOK, Idle, TypeInv, DeskInv, Desk, RestTyped
  <2>2. ~opened[h]
    BY <1>1, <1>2 DEF TypeInv, DeskInv, Desk, PlanOK
  <2>3. QED
    BY <2>1, <2>2
<1>8. ASSUME NEW d \in ToSet(Defaults) PROVE Covered(h, d)'
  <2>1. Covered(h, d)
    BY <1>7 DEF HealthOK
  <2>2. ~Registers(h, d)
    BY <1>2, RegistersOne
  <2>3. d \in ToSet(todo[h].left) => d = e \/ d \in ToSet(Tail(todo[h].left))
    BY <1>1, <1>2, <1>5, HeadOrTail DEF Todos
  <2>4. d = e => Registers(h, d)'
    BY <1>6
  <2>5. QED
    BY <1>2, <1>3, <2>1, <2>2, <2>3, <2>4 DEF Covered, Readable
<1>9. QED
  BY <1>2, <1>3, <1>6, <1>7, <1>8 DEF HealthOK, Idle

LEMMA HealthBegins ==
  ASSUME TypeInv, NEW h \in Health, HealthOK(h), HealthBegin(h)
  PROVE  HealthOK(h)'
<1>1. h \in Procs /\ h \in DOMAIN todo /\ h \in DOMAIN failed
  BY ClerksAreProcs DEF TypeInv, DeskInv, Desk, RestTyped
<1>2. /\ UNCHANGED <<file, plan, opened>> /\ health'[h] /\ plan[h] = <<>> /\ ~failed'[h]
      /\ todo'[h] = [left |-> Defaults, overwrite |-> TRUE]
  BY <1>1
  DEF HealthBegin, _register_known_experts, HealthOK, Idle, TypeInv, DeskInv, Desk,
      RestTyped
<1>3. ~opened[h]
  BY <1>1, <1>2 DEF TypeInv, DeskInv, Desk, PlanOK
<1>4. \A e \in ToSet(Defaults) : Covered(h, e)'
  BY <1>2 DEF Covered
<1>5. QED
  BY <1>2, <1>3, <1>4 DEF HealthOK

LEMMA HealthReports ==
  ASSUME TypeInv, NEW h \in Health, HealthOK(h), HealthReport(h)
  PROVE  HealthOK(h)'
<1>1. /\ UNCHANGED <<file, plan, opened, failed, todo, touched>>
      /\ health[h] /\ ~health'[h] /\ Idle(h)
      /\ report'[h] = "ok" => ~failed[h]
  BY DEF HealthReport, collect, deskVars, storeVars, TypeInv, RestTyped
<1>2. plan[h] = <<>> /\ todo[h].left = <<>>
  BY <1>1 DEF Idle
<1>3. ASSUME NEW e \in ToSet(Defaults), report'[h] = "ok"
      PROVE  Readable(ExpertKey(e)) \/ e \in touched[h]
  <2>1. Covered(h, e)
    BY <1>1, <1>3 DEF HealthOK
  <2>2. e \notin ToSet(todo[h].left)
    BY <1>2 DEF ToSet
  <2>3. ~Registers(h, e)
    BY <1>2, RegistersOne
  <2>4. QED
    BY <2>1, <2>2, <2>3 DEF Covered
<1>4. ~opened[h]
  BY <1>2, ClerksAreProcs DEF TypeInv, DeskInv, Desk, PlanOK
<1>5. QED
  BY <1>1, <1>2, <1>3, <1>4 DEF HealthOK, Idle, Readable

LEMMA HealthEnds ==
  ASSUME TypeInv, NEW h \in Health, HealthOK(h), Dies(h) \/ HealthTimeout(h)
  PROVE  HealthOK(h)'
<1>1. /\ h \in Procs /\ h \in DOMAIN todo /\ h \in DOMAIN failed /\ h \in DOMAIN plan
      /\ h \in DOMAIN opened
  BY ClerksAreProcs DEF TypeInv, DeskInv, Desk, RestTyped
<1>2. /\ UNCHANGED <<file, report>> /\ plan'[h] = <<>> /\ ~opened'[h] /\ failed'[h]
      /\ todo'[h].left = <<>>
  BY <1>1 DEF Dies, HealthTimeout, Killed, Fails, NothingLeft
<1>3. CASE Dies(h)
  <2>1. health[h] /\ health' = health /\ touched' = touched
    BY <1>3 DEF Dies, HealthOK
  <2>2. QED
    BY <1>2, <2>1 DEF HealthOK, Idle
<1>4. CASE HealthTimeout(h)
  <2>1. ~health'[h] /\ touched'[h] = ToSet(Defaults)
    BY <1>4 DEF HealthTimeout, TypeInv, RestTyped
  <2>2. QED
    BY <1>2, <2>1 DEF HealthOK, Idle
<1>5. QED
  BY <1>3, <1>4

LEMMA StepHealth ==
  ASSUME TypeInv, HealthInv, Next
  PROVE  HealthInv'
<1> SUFFICES ASSUME NEW h \in Health PROVE HealthOK(h)'
  BY DEF HealthInv
<1>1. HealthOK(h) /\ h \in Procs /\ h \notin Clerks
  BY ClerksAreProcs DEF HealthInv
<1>2. ASSUME NEW p \in Clerks, ClerkStep(p) PROVE HealthOK(h)'
  <2>1. /\ plan'[h] = plan[h] /\ opened'[h] = opened[h] /\ failed'[h] = failed[h]
        /\ todo'[h] = todo[h] /\ UNCHANGED <<file, health, report, touched>>
    BY <1>1, <1>2
    DEF ClerkStep, IntakeCommand, RegisterExpert, RegisterDefaults, RequestApproval,
        LoadApproval, _resolve, Ingest, Saves, deskVars, storeVars, TypeInv, DeskInv,
        Desk, RestTyped
  <2>2. QED
    BY <1>1, <2>1, HealthKept
<1>3. ASSUME NEW p \in Procs, p # h, RegisterNext(p) \/ Dies(p) \/ HealthTimeout(p)
      PROVE  HealthOK(h)'
  <2>1. /\ plan'[h] = plan[h] /\ opened'[h] = opened[h] /\ failed'[h] = failed[h]
        /\ todo'[h] = todo[h] /\ UNCHANGED <<file, report>> /\ touched'[h] = touched[h]
    BY <1>1, <1>3
    DEF RegisterNext, Dies, HealthTimeout, Killed, Fails, Saves, storeVars, TypeInv, DeskInv,
        Desk, RestTyped
  <2>2. health'[h] = health[h]
    BY <1>1, <1>3 DEF RegisterNext, Dies, HealthTimeout, TypeInv, RestTyped
  <2>3. QED
    BY <1>1, <2>1, <2>2, HealthKept
<1>4. ASSUME NEW g \in Health, g # h, HealthBegin(g) \/ HealthReport(g) PROVE HealthOK(h)'
  <2>1. /\ plan'[h] = plan[h] /\ opened'[h] = opened[h] /\ failed'[h] = failed[h]
        /\ todo'[h] = todo[h] /\ health'[h] = health[h] /\ report'[h] = report[h]
        /\ touched'[h] = touched[h] /\ file' = file
    BY <1>1, <1>4
    DEF HealthBegin, HealthReport, deskVars, storeVars, TypeInv, DeskInv, Desk,
        RestTyped
  <2>2. QED
    BY <1>1, <2>1, HealthKept
<1>5. \A p \in Procs : Saving(p) => HealthOK(h)'
  BY <1>1, OthersSave, HealthSaves
<1>6. \A p \in Procs : RegisterNext(p) \/ Dies(p) => HealthOK(h)'
  BY <1>1, <1>3, HealthRegisters, HealthEnds
<1>7. \A g \in Health : HealthBegin(g) \/ HealthReport(g) \/ HealthTimeout(g) => HealthOK(h)'
  BY <1>1, <1>3, <1>4, HealthBegins, HealthReports, HealthEnds, ClerksAreProcs
<1>8. QED
  BY <1>2, <1>5, <1>6, <1>7, Steps

-----------------------------------------------------------------------------
(* The theorems.                                                           *)

IInv == TypeInv /\ ApprovalInv /\ HealthInv

LEMMA InitIInv == Init => IInv
<1> SUFFICES ASSUME Init PROVE IInv
  OBVIOUS
<1>1. \A key \in DOMAIN file : ~Exists(key) /\ ~Readable(key)
  BY DEF Init, Exists, Readable, Unreadable
<1>2. FilesTyped
  BY <1>1 DEF Init, FilesTyped
<1>3. DeskFiles
  <2>1. DeskKeys \subseteq DOMAIN file
    BY DEF Init
  <2>2. \A raw \in Texts : /\ DemandKey(raw) \in DOMAIN file /\ GoalKey(raw) \in DOMAIN file
                          /\ \A source \in Sources : AssessmentKey(raw, source) \in DOMAIN file
    BY <2>1 DEF DeskKeys
  <2>3. QED
    BY <1>1, <2>1, <2>2 DEF Init, DeskFiles, AssessedAsAsked, InOrder
<1>4. Desk(Procs, OtherSaves)
  BY <1>3 DEF Init, Desk, PlanOK
<1>5. RestTyped
  <2>1. NothingLeft \in Todos /\ EndOfDefaults(NothingLeft.left)
    BY EmptySeq, EndsOfDefaults DEF NothingLeft, Todos
  <2>2. QED
    BY <2>1, RecordsAssumption, FaultsAssumption DEF Init, RestTyped
<1>6. ApprovalInv
  <2>1. ~Readable(ApprovalKey)
    BY <1>1, <1>2 DEF FilesTyped
  <2>2. QED
    BY <2>1, ApprovalPlan DEF Init, ApprovalInv
<1>7. HealthInv
  <2> SUFFICES ASSUME NEW h \in Health PROVE HealthOK(h)
    BY DEF HealthInv
  <2>1. h \in Procs
    BY ClerksAreProcs
  <2>2. /\ plan[h] = <<>> /\ todo[h].left = <<>> /\ ~health[h] /\ ~opened[h]
        /\ report[h] # "ok"
    BY <2>1, RecordsAssumption DEF Init, NothingLeft
  <2>3. QED
    BY <2>2 DEF HealthOK, Idle
<1>8. QED
  BY <1>2, <1>3, <1>4, <1>5, <1>6, <1>7 DEF IInv, TypeInv, DeskInv

LEMMA NextIInv == IInv /\ [Next]_vars => IInv'
<1> SUFFICES ASSUME IInv, [Next]_vars PROVE IInv'
  OBVIOUS
<1>1. CASE Next
  BY <1>1, StepDesk, StepRest, StepApproval, StepHealth DEF IInv, TypeInv
<1>2. CASE UNCHANGED vars
  <2> USE <1>2 DEF IInv, vars, deskVars, storeVars, recordsVars
  <2>1. DeskInv'
    BY OtherStepsKeepDesk DEF TypeInv, DeskInv, Desk
  <2>2. RestTyped'
    BY DEF TypeInv, RestTyped
  <2>3. ApprovalInv'
    BY ApprovalKept
  <2>4. HealthInv'
    BY HealthKept DEF HealthInv
  <2>5. QED
    BY <2>1, <2>2, <2>3, <2>4 DEF TypeInv
<1>3. QED
  BY <1>1, <1>2

LEMMA Inductive == Spec => []IInv
BY InitIInv, NextIInv, PTL DEF Spec

LEMMA TypeInvIsTypeOK ==
  ASSUME TypeInv
  PROVE  TypeOK
<1>1. \A p \in Procs : IsSuffix(todo[p].left, Defaults) /\ todo[p].overwrite \in BOOLEAN
  BY EndIsSuffix DEF TypeInv, RestTyped, Todos
<1>2. QED
  BY <1>1 DEF TypeInv, DeskInv, FilesTyped, Desk, DeskFiles, RestTyped, TypeOK

\* Every file that can be read holds a record of its kind, whatever truncated
\* and garbled it before, and what is left of register-default-experts is an
\* end of the defaults.
THEOREM RecordsAreTyped == Spec => []TypeOK
<1>1. IInv => TypeOK
  BY TypeInvIsTypeOK DEF IInv
<1>2. QED
  BY <1>1, Inductive, PTL

\* A goal on disk has the demand it names and an assessment that says why,
\* whatever crashes, refusals and other intakes (intake --promote).
THEOREM GoalsAreExplained == Spec => []GoalIsExplained
<1>1. IInv => GoalIsExplained
  BY Explained DEF IInv, TypeInv, DeskInv, Desk
<1>2. QED
  BY <1>1, Inductive, PTL

\* No approval says approved for a context nobody approved, in the file, in a
\* clerk's memory or in a save to come (create_approval_request, approve).
THEOREM ApprovalsAreEarned == Spec => []ApprovalIsEarned
<1>1. IInv => ApprovalIsEarned
  BY ApprovalsEarned DEF IInv
<1>2. QED
  BY <1>1, Inductive, PTL

\* The daily health says ok only when every default expert can be read, or
\* another process has saved it meanwhile: though it looks at file names alone,
\* and files it truncated are garbled by others (_register_known_experts,
\* collect).
THEOREM ReportsAreTrue == Spec => []ReportIsTrue
<1>1. IInv => ReportIsTrue
  BY DEF IInv, HealthInv, HealthOK, ReportIsTrue
<1>2. QED
  BY <1>1, Inductive, PTL
=============================================================================
