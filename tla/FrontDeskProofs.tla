-------------------------- MODULE FrontDeskProofs ---------------------------
(***************************************************************************)
(* Proofs about the saves of intakes, for any texts, sources and experts,  *)
(* and for any other processes, saves and crashes that Listener and        *)
(* Records put around them.                                                *)
(***************************************************************************)
EXTENDS FrontDesk, SequenceTheorems, TLAPS

-----------------------------------------------------------------------------
(* Keys, saves and short sequences.                                        *)

LEMMA SaveParts ==
  ASSUME NEW key, NEW content
  PROVE  Save(key, content).key = key /\ Save(key, content).content = content
BY DEF Save

LEMMA SameAssessmentKey ==
  ASSUME NEW r1, NEW s1, NEW r2, NEW s2, AssessmentKey(r1, s1) = AssessmentKey(r2, s2)
  PROVE  r1 = r2 /\ s1 = s2
BY DEF AssessmentKey

LEMMA SameDemandKey ==
  ASSUME NEW r1, NEW r2, DemandKey(r1) = DemandKey(r2)
  PROVE  r1 = r2
BY DEF DemandKey

LEMMA SameGoalKey ==
  ASSUME NEW r1, NEW r2, GoalKey(r1) = GoalKey(r2)
  PROVE  r1 = r2
BY DEF GoalKey

LEMMA DeskKeysDiffer ==
  /\ \A r1, r2, s1 : AssessmentKey(r1, s1) # DemandKey(r2)
  /\ \A r1, r2, s1 : AssessmentKey(r1, s1) # GoalKey(r2)
  /\ \A r1, r2 : DemandKey(r1) # GoalKey(r2)
BY DEF AssessmentKey, DemandKey, GoalKey

LEMMA One ==
  ASSUME NEW a
  PROVE  <<a>> # <<>> /\ Head(<<a>>) = a /\ Tail(<<a>>) = <<>>
OBVIOUS

LEMMA Two ==
  ASSUME NEW a, NEW b
  PROVE  <<a, b>> # <<>> /\ Head(<<a, b>>) = a /\ Tail(<<a, b>>) = <<b>>
OBVIOUS

LEMMA Three ==
  ASSUME NEW a, NEW b, NEW c
  PROVE  <<a, b, c>> # <<>> /\ Head(<<a, b, c>>) = a /\ Tail(<<a, b, c>>) = <<b, c>>
OBVIOUS

LEMMA OneThenTwo ==
  ASSUME NEW a, NEW b, NEW c
  PROVE  <<a>> \o <<b, c>> = <<a, b, c>> /\ <<a>> \o <<>> = <<a>>
<1> DEFINE S == {a, b, c}
<1>1. <<a>> \in Seq(S) /\ <<b, c>> \in Seq(S) /\ <<a, b, c>> \in Seq(S)
  OBVIOUS
<1>2. /\ Len(<<a>>) = 1 /\ Len(<<b, c>>) = 2 /\ Len(<<a, b, c>>) = 3
      /\ <<a>>[1] = a /\ <<b, c>>[1] = b /\ <<b, c>>[2] = c
      /\ <<a, b, c>>[1] = a /\ <<a, b, c>>[2] = b /\ <<a, b, c>>[3] = c
  OBVIOUS
<1>3. <<a>> \o <<>> = <<a>>
  BY <1>1, ConcatEmptySeq
<1> DEFINE s == <<a>>  t == <<b, c>>  u == <<a, b, c>>
<1> HIDE DEF s, t, u
<1>4. /\ s \o t \in Seq(S) /\ Len(s \o t) = 3
      /\ \A i \in 1 .. 3 : (s \o t)[i] = IF i <= 1 THEN s[i] ELSE t[i - 1]
  <2>1. s \in Seq(S) /\ t \in Seq(S) /\ Len(s) = 1 /\ Len(t) = 2
    BY <1>1, <1>2 DEF s, t
  <2>2. /\ s \o t \in Seq(S)
        /\ Len(s \o t) = Len(s) + Len(t)
        /\ \A i \in 1 .. Len(s) + Len(t) : (s \o t)[i] =
                     IF i <= Len(s) THEN s[i] ELSE t[i - Len(s)]
    BY <2>1, ConcatProperties
  <2>3. QED
    BY <2>1, <2>2
<1>5. \A i \in 1 .. 3 : (s \o t)[i] = u[i]
  <2>1. s[1] = a /\ t[1] = b /\ t[2] = c /\ u[1] = a /\ u[2] = b /\ u[3] = c
    BY <1>2 DEF s, t, u
  <2>2. QED
    BY <1>4, <2>1
<1>6. u \in Seq(S) /\ Len(u) = 3
  BY <1>1, <1>2 DEF u
<1>7. s \o t = u
  BY <1>4, <1>5, <1>6, SeqEqual
<1>8. QED
  BY <1>3, <1>7 DEF s, t, u

\* The saves of an intake, one by one.
LEMMA SavesOfIntake ==
  ASSUME NEW raw, NEW source, NEW e
  PROVE  /\ IsCandidate(raw, e) => IntakeSaves(raw, source, e)
              = <<Save(AssessmentKey(raw, source), Assessment(raw, e)),
                  Save(DemandKey(raw), raw), Save(GoalKey(raw), raw)>>
         /\ ~IsCandidate(raw, e) => IntakeSaves(raw, source, e)
              = <<Save(AssessmentKey(raw, source), Assessment(raw, e))>>
         /\ Promotion(raw) = <<Save(DemandKey(raw), raw), Save(GoalKey(raw), raw)>>
         /\ IntakeSaves(raw, source, e) # <<>>
         /\ Head(IntakeSaves(raw, source, e))
              = Save(AssessmentKey(raw, source), Assessment(raw, e))
         /\ Tail(IntakeSaves(raw, source, e))
              = IF IsCandidate(raw, e) THEN Promotion(raw) ELSE <<>>
<1> DEFINE a == Save(AssessmentKey(raw, source), Assessment(raw, e))
           d == Save(DemandKey(raw), raw)
           g == Save(GoalKey(raw), raw)
<1>1. Promotion(raw) = <<d, g>>
  BY DEF Promotion
<1>2. IntakeSaves(raw, source, e) = <<a>> \o (IF IsCandidate(raw, e) THEN <<d, g>> ELSE <<>>)
  BY <1>1 DEF IntakeSaves
<1> HIDE DEF a, d, g
<1>3. <<a>> \o <<d, g>> = <<a, d, g>> /\ <<a>> \o <<>> = <<a>>
  BY OneThenTwo
<1>4. CASE IsCandidate(raw, e)
  <2>1. IntakeSaves(raw, source, e) = <<a, d, g>>
    BY <1>2, <1>3, <1>4
  <2>2. QED
    BY <1>1, <1>4, <2>1, Three DEF a, d, g
<1>5. CASE ~IsCandidate(raw, e)
  <2>1. IntakeSaves(raw, source, e) = <<a>>
    BY <1>2, <1>3, <1>5
  <2>2. QED
    BY <1>1, <1>5, <2>1, One DEF a, d, g
<1>6. QED
  BY <1>4, <1>5

-----------------------------------------------------------------------------
(* The invariant.                                                          *)

\* What an assessment file says was asked for.
AssessedAsAsked ==
  \A raw \in Texts, source \in Sources :
    Readable(AssessmentKey(raw, source)) =>
      \E e \in Experts : /\ <<raw, source, e>> \in asked
                         /\ file[AssessmentKey(raw, source)] = Assessment(raw, e)

\* Files come in the order of the saves, and nothing comes from the empty text.
InOrder ==
  \A raw \in Texts :
    /\ \A source \in Sources : Exists(AssessmentKey(raw, source)) => raw # {}
    /\ Exists(DemandKey(raw)) => \E source \in Sources : Exists(AssessmentKey(raw, source))
    /\ Exists(GoalKey(raw)) => Exists(DemandKey(raw))

DeskFiles ==
  /\ DeskKeys \subseteq DOMAIN file
  /\ asked \subseteq Texts \X Sources \X Experts
  /\ AssessedAsAsked /\ InOrder

\* How far process p has come with an intake that has not failed.
Progress(p, raw, source, e) ==
  \/ plan[p] = IntakeSaves(raw, source, e)
  \/ /\ Exists(AssessmentKey(raw, source))
     /\ \/ plan[p] = <<>> /\ (IsCandidate(raw, e)
                              => Exists(DemandKey(raw)) /\ Exists(GoalKey(raw)))
        \/ IsCandidate(raw, e) /\ plan[p] = Promotion(raw)
        \/ /\ IsCandidate(raw, e) /\ Exists(DemandKey(raw))
           /\ plan[p] = <<Save(GoalKey(raw), raw)>>

IntakePlan(p) == \E q \in asked : Progress(p, q[1], q[2], q[3])

\* A process does nothing, works on an intake, or makes one of the others'
\* saves.
PlanOK(p, others) ==
  /\ p \in DOMAIN plan /\ p \in DOMAIN opened /\ p \in DOMAIN failed
  /\ plan[p] = <<>> \/ IntakePlan(p) \/ \E save \in others : plan[p] = <<save>>
  /\ opened[p] \in BOOLEAN
  /\ opened[p] => plan[p] # <<>> /\ Head(plan[p]).content # Invalid

\* Saves of files that intakes do not touch.
Others(others) ==
  \A save \in others : /\ save.key \notin DeskKeys
                       /\ save.content \notin Unreadable

FilesGrow == \A key \in DOMAIN file : Exists(key) => Exists(key)'

-----------------------------------------------------------------------------
(* What a save is about.                                                   *)

\* The save at the head of a plan, when it is an intake's.
IntakeHead(save) ==
  \E q \in asked :
    LET raw == q[1]  source == q[2]  e == q[3]
    IN  \/ save = Save(AssessmentKey(raw, source), Assessment(raw, e))
        \/ save = Save(DemandKey(raw), raw) /\ Exists(AssessmentKey(raw, source))
        \/ save = Save(GoalKey(raw), raw) /\ Exists(DemandKey(raw))

LEMMA HeadOfPlan ==
  ASSUME NEW p, NEW others, PlanOK(p, others), plan[p] # <<>>
  PROVE  IntakeHead(Head(plan[p])) \/ Head(plan[p]) \in others
<1>1. CASE \E save \in others : plan[p] = <<save>>
  BY <1>1, One
<1>2. ASSUME NEW q \in asked, Progress(p, q[1], q[2], q[3])
      PROVE  IntakeHead(Head(plan[p]))
  <2> DEFINE raw == q[1]  source == q[2]  e == q[3]
  <2>1. CASE plan[p] = IntakeSaves(raw, source, e)
    BY <2>1, SavesOfIntake DEF IntakeHead
  <2>2. CASE Exists(AssessmentKey(raw, source)) /\ plan[p] = Promotion(raw)
    BY <2>2, SavesOfIntake, Two DEF IntakeHead
  <2>3. CASE Exists(DemandKey(raw)) /\ plan[p] = <<Save(GoalKey(raw), raw)>>
    BY <2>3, One DEF IntakeHead
  <2>4. QED
    BY <1>2, <2>1, <2>2, <2>3 DEF Progress
<1>3. QED
  BY <1>1, <1>2 DEF PlanOK, IntakePlan

\* What is asked for, part by part.
LEMMA AskedParts ==
  ASSUME DeskFiles, NEW q \in asked
  PROVE  /\ q[1] \in Texts /\ q[2] \in Sources /\ q[3] \in Experts
         /\ q = <<q[1], q[2], q[3]>>
         /\ AssessmentKey(q[1], q[2]) \in DeskKeys
         /\ DemandKey(q[1]) \in DeskKeys /\ GoalKey(q[1]) \in DeskKeys
BY DEF DeskFiles, DeskKeys

\* An assessment can be saved unless the text is empty.
LEMMA AssessmentIsValid ==
  ASSUME NEW raw \in Texts, NEW e \in Experts
  PROVE  /\ raw = {} => Assessment(raw, e) = Invalid
         /\ raw # {} => /\ Assessment(raw, e) \in Assessments
                        /\ Assessment(raw, e) \notin Unreadable \union {Invalid}
                        /\ Assessment(raw, e).classification = classify_intake(raw, e)
<1>1. classify_intake(raw, e) \in Classifications
  BY DEF classify_intake, _classify, Classifications
<1>2. raw # {} => Assessment(raw, e) \in Assessments
  BY <1>1 DEF Assessment, Assessments
<1>3. QED
  BY <1>2, DeskAssumption DEF Assessment

\* A plan that starts outside the desk is one save of another kind.
LEMMA OtherPlan ==
  ASSUME DeskFiles, NEW p, NEW others, PlanOK(p, others), plan[p] # <<>>,
         Head(plan[p]).key \notin DeskKeys
  PROVE  \E save \in others : plan[p] = <<save>>
<1> SUFFICES ASSUME NEW q \in asked, Progress(p, q[1], q[2], q[3])
             PROVE  Head(plan[p]).key \in DeskKeys
  BY DEF PlanOK, IntakePlan
<1> DEFINE raw == q[1]  source == q[2]  e == q[3]
<1>1. {AssessmentKey(raw, source), DemandKey(raw), GoalKey(raw)} \subseteq DeskKeys
  BY AskedParts
<1>2. CASE plan[p] = IntakeSaves(raw, source, e)
  BY <1>1, <1>2, SavesOfIntake, SaveParts
<1>3. CASE plan[p] = Promotion(raw)
  BY <1>1, <1>3, SavesOfIntake, Two, SaveParts
<1>4. CASE plan[p] = <<Save(GoalKey(raw), raw)>>
  BY <1>1, <1>4, One, SaveParts
<1>5. QED
  BY <1>2, <1>3, <1>4 DEF Progress

-----------------------------------------------------------------------------
(* Steps.                                                                  *)

\* What a save does to the files: nothing, or one file is truncated, garbled
\* or written.
LEMMA SaveOfOneFile ==
  ASSUME NEW p, NEW others, PlanOK(p, others), SaveStep(p)
  PROVE  \/ UNCHANGED file
         \/ /\ plan[p] # <<>> /\ Head(plan[p]).content # Invalid
            /\ \E c \in {Truncated, Garbled, Head(plan[p]).content} :
                 file' = [file EXCEPT ![Head(plan[p]).key] = c]
BY DEF SaveStep, Truncate, Write, SaveRefused, Fails, AfterWrite, PlanOK

\* One file changes, and keeps what the invariant says of it.
LEMMA FileStep ==
  ASSUME DeskFiles, asked' = asked,
         NEW key, NEW content, content \notin Unreadable,
         NEW c \in {Truncated, Garbled, content},
         file' = [file EXCEPT ![key] = c],
         \/ key \notin DeskKeys
         \/ \E q \in asked :
              \/ /\ key = AssessmentKey(q[1], q[2]) /\ q[1] # {}
                 /\ content = Assessment(q[1], q[3])
              \/ key = DemandKey(q[1]) /\ Exists(AssessmentKey(q[1], q[2]))
              \/ key = GoalKey(q[1]) /\ Exists(DemandKey(q[1]))
  PROVE  DeskFiles' /\ FilesGrow
<1>1. c # Absent
  BY StoreAssumption DEF Unreadable
<1>2. \A k \in DOMAIN file : file'[k] = IF k = key THEN c ELSE file[k]
  OBVIOUS
<1>3. DOMAIN file' = DOMAIN file
  OBVIOUS
<1>4. FilesGrow
  BY <1>1, <1>2 DEF FilesGrow, Exists
<1>5. \A raw \in Texts :
        /\ \A source \in Sources : AssessmentKey(raw, source) \in DOMAIN file
        /\ DemandKey(raw) \in DOMAIN file /\ GoalKey(raw) \in DOMAIN file
  BY DEF DeskFiles, DeskKeys
<1>6. AssessedAsAsked'
  <2> SUFFICES ASSUME NEW raw \in Texts, NEW source \in Sources,
                      Readable(AssessmentKey(raw, source))'
               PROVE  \E e \in Experts :
                        /\ <<raw, source, e>> \in asked
                        /\ file'[AssessmentKey(raw, source)] = Assessment(raw, e)
    BY DEF AssessedAsAsked
  <2>1. CASE key # AssessmentKey(raw, source)
    <3>1. file'[AssessmentKey(raw, source)] = file[AssessmentKey(raw, source)]
      BY <1>2, <1>5, <2>1
    <3>2. QED
      BY <3>1 DEF DeskFiles, AssessedAsAsked, Readable
  <2>2. CASE key = AssessmentKey(raw, source)
    <3>1. key \in DeskKeys
      BY <2>2 DEF DeskKeys
    <3>2. PICK q \in asked :
            key = AssessmentKey(q[1], q[2]) /\ content = Assessment(q[1], q[3])
      BY <2>2, <3>1, DeskKeysDiffer
    <3>3. q[1] = raw /\ q[2] = source
      <4>1. AssessmentKey(q[1], q[2]) = AssessmentKey(raw, source)
        BY <2>2, <3>2
      <4>2. QED
        BY <4>1, SameAssessmentKey
    <3>4. file'[AssessmentKey(raw, source)] = content
      BY <1>2, <1>5, <2>2 DEF Readable, Unreadable
    <3>5. QED
      BY <3>2, <3>3, <3>4, AskedParts
  <2>3. QED
    BY <2>1, <2>2
<1>7. InOrder'
  <2>1. \A k \in DOMAIN file : k # key => (Exists(k)' <=> Exists(k))
    BY <1>2 DEF Exists
  <2>2. \A k \in DOMAIN file : Exists(k) => Exists(k)'
    BY <1>4 DEF FilesGrow
  <2> SUFFICES ASSUME NEW raw \in Texts
               PROVE  /\ \A source \in Sources :
                           Exists(AssessmentKey(raw, source))' => raw # {}
                      /\ Exists(DemandKey(raw))'
                         => \E source \in Sources : Exists(AssessmentKey(raw, source))'
                      /\ Exists(GoalKey(raw))' => Exists(DemandKey(raw))'
    BY DEF InOrder
  <2>3. ASSUME NEW source \in Sources, Exists(AssessmentKey(raw, source))'
        PROVE  raw # {}
    <3>1. CASE key # AssessmentKey(raw, source)
      BY <1>5, <2>1, <2>3, <3>1 DEF DeskFiles, InOrder
    <3>2. CASE key = AssessmentKey(raw, source)
      <4>1. key \in DeskKeys
        BY <3>2 DEF DeskKeys
      <4>2. PICK q \in asked : key = AssessmentKey(q[1], q[2]) /\ q[1] # {}
        BY <3>2, <4>1, DeskKeysDiffer
      <4>3. AssessmentKey(q[1], q[2]) = AssessmentKey(raw, source)
        BY <3>2, <4>2
      <4>4. q[1] = raw
        BY <4>3, SameAssessmentKey
      <4>5. QED
        BY <4>2, <4>4
    <3>3. QED
      BY <3>1, <3>2
  <2>4. ASSUME Exists(DemandKey(raw))'
        PROVE  \E source \in Sources : Exists(AssessmentKey(raw, source))'
    <3>1. CASE key # DemandKey(raw)
      <4>1. Exists(DemandKey(raw))
        BY <1>5, <2>1, <2>4, <3>1
      <4>2. PICK source \in Sources : Exists(AssessmentKey(raw, source))
        BY <4>1 DEF DeskFiles, InOrder
      <4>3. QED
        BY <1>5, <2>2, <4>2
    <3>2. CASE key = DemandKey(raw)
      <4>1. key \in DeskKeys
        BY <3>2 DEF DeskKeys
      <4>2. PICK q \in asked : /\ key = DemandKey(q[1])
                               /\ Exists(AssessmentKey(q[1], q[2]))
        BY <3>2, <4>1, DeskKeysDiffer
      <4>3. DemandKey(q[1]) = DemandKey(raw) /\ q[2] \in Sources
        BY <3>2, <4>2, AskedParts
      <4>4. q[1] = raw
        BY <4>3, SameDemandKey
      <4>5. QED
        BY <1>5, <2>2, <4>2, <4>3, <4>4
    <3>3. QED
      BY <3>1, <3>2
  <2>5. ASSUME Exists(GoalKey(raw))' PROVE Exists(DemandKey(raw))'
    <3>1. CASE key # GoalKey(raw)
      <4>1. Exists(GoalKey(raw))
        BY <1>5, <2>1, <2>5, <3>1
      <4>2. Exists(DemandKey(raw))
        BY <4>1 DEF DeskFiles, InOrder
      <4>3. QED
        BY <1>5, <2>2, <4>2
    <3>2. CASE key = GoalKey(raw)
      <4>1. key \in DeskKeys
        BY <3>2 DEF DeskKeys
      <4>2. PICK q \in asked : key = GoalKey(q[1]) /\ Exists(DemandKey(q[1]))
        BY <3>2, <4>1, DeskKeysDiffer
      <4>3. GoalKey(q[1]) = GoalKey(raw)
        BY <3>2, <4>2
      <4>4. q[1] = raw
        BY <4>3, SameGoalKey
      <4>5. QED
        BY <1>5, <2>2, <4>2, <4>4
    <3>3. QED
      BY <3>1, <3>2
  <2>6. QED
    BY <2>3, <2>4, <2>5
<1>8. QED
  BY <1>3, <1>4, <1>6, <1>7 DEF DeskFiles

\* A save keeps the files right, and no file goes away.
LEMMA SaveStepFiles ==
  ASSUME DeskFiles, asked' = asked, NEW others, Others(others),
         NEW p, PlanOK(p, others), SaveStep(p)
  PROVE  DeskFiles' /\ FilesGrow
<1>1. CASE UNCHANGED file
  BY <1>1 DEF DeskFiles, AssessedAsAsked, InOrder, FilesGrow, Exists, Readable
<1>2. ASSUME plan[p] # <<>>, Head(plan[p]).content # Invalid,
             NEW c \in {Truncated, Garbled, Head(plan[p]).content},
             file' = [file EXCEPT ![Head(plan[p]).key] = c]
      PROVE  DeskFiles' /\ FilesGrow
  <2> DEFINE save == Head(plan[p])
  <2>1. CASE save \in others
    <3>1. save.key \notin DeskKeys /\ save.content \notin Unreadable
      BY <2>1 DEF Others
    <3> HIDE DEF save
    <3>2. QED
      BY <1>2, <3>1, FileStep DEF save
  <2>2. CASE IntakeHead(save)
    <3>1. PICK q \in asked :
            \/ save = Save(AssessmentKey(q[1], q[2]), Assessment(q[1], q[3]))
            \/ save = Save(DemandKey(q[1]), q[1]) /\ Exists(AssessmentKey(q[1], q[2]))
            \/ save = Save(GoalKey(q[1]), q[1]) /\ Exists(DemandKey(q[1]))
      BY <2>2 DEF IntakeHead
    <3>2. q[1] \in Texts /\ q[3] \in Experts /\ q[1] \notin Unreadable
      BY AskedParts, DeskAssumption
    <3> HIDE DEF save
    <3>3. \/ /\ save.key = AssessmentKey(q[1], q[2]) /\ q[1] # {}
             /\ save.content = Assessment(q[1], q[3])
          \/ save.key = DemandKey(q[1]) /\ Exists(AssessmentKey(q[1], q[2]))
          \/ save.key = GoalKey(q[1]) /\ Exists(DemandKey(q[1]))
      BY <1>2, <3>1, <3>2, SaveParts, AssessmentIsValid DEF save
    <3>4. save.content \notin Unreadable
      BY <1>2, <3>1, <3>2, SaveParts, AssessmentIsValid DEF save
    <3>5. QED
      BY <1>2, <3>3, <3>4, FileStep DEF save
  <2>3. QED
    BY <1>2, <2>1, <2>2, HeadOfPlan
<1>3. QED
  BY <1>1, <1>2, SaveOfOneFile

\* The intake of a process stays where it is while the process does nothing.
LEMMA ProgressKept ==
  ASSUME DeskFiles, FilesGrow, NEW p, plan'[p] = plan[p], NEW q \in asked
  PROVE  Progress(p, q[1], q[2], q[3]) => Progress(p, q[1], q[2], q[3])'
<1>1. \A key \in DeskKeys : Exists(key) => Exists(key)'
  BY DEF DeskFiles, FilesGrow
<1>2. \A key \in {AssessmentKey(q[1], q[2]), DemandKey(q[1]), GoalKey(q[1])} :
        Exists(key) => Exists(key)'
  BY <1>1, AskedParts
<1>3. QED
  BY <1>2 DEF Progress

LEMMA PlanKept ==
  ASSUME DeskFiles, FilesGrow, asked \subseteq asked',
         NEW p, NEW others, PlanOK(p, others),
         DOMAIN plan' = DOMAIN plan, DOMAIN opened' = DOMAIN opened,
         DOMAIN failed' = DOMAIN failed,
         plan'[p] = plan[p], opened'[p] = opened[p]
  PROVE  PlanOK(p, others)'
<1>1. IntakePlan(p) => IntakePlan(p)'
  BY ProgressKept DEF IntakePlan
<1>2. QED
  BY <1>1 DEF PlanOK

\* The intake of the process that saves goes on, or its text was empty.
LEMMA ProgressMade ==
  ASSUME DeskFiles, asked' = asked, NEW others, Others(others), FilesGrow,
         NEW p, PlanOK(p, others), SaveStep(p),
         NEW q \in asked, Progress(p, q[1], q[2], q[3])
  PROVE  \/ Progress(p, q[1], q[2], q[3])'
         \/ q[1] = {} /\ failed'[p]
<1> DEFINE raw == q[1]  source == q[2]  e == q[3]
<1>1. CASE Truncate(p)
  <2>1. plan'[p] = plan[p]
    BY <1>1 DEF Truncate
  <2>2. QED
    BY <2>1, ProgressKept
<1>2. CASE SaveRefused(p)
  <2>1. plan[p] # <<>> /\ Head(plan[p]).content = Invalid /\ failed'[p]
    BY <1>2 DEF SaveRefused, Fails, PlanOK
  <2>2. raw \in Texts /\ e \in Experts /\ raw # Invalid
    BY AskedParts, DeskAssumption
  <2>3. Head(plan[p]) \notin {Save(DemandKey(raw), raw), Save(GoalKey(raw), raw)}
    BY <2>1, <2>2, SaveParts
  <2>4. plan[p] = IntakeSaves(raw, source, e)
    BY <2>1, <2>3, SavesOfIntake, One, Two DEF Progress
  <2>5. Assessment(raw, e) = Invalid
    BY <2>1, <2>4, SavesOfIntake, SaveParts
  <2>6. QED
    BY <2>1, <2>2, <2>5, AssessmentIsValid
<1>3. CASE Write(p)
  <2>1. /\ plan[p] # <<>> /\ plan'[p] = Tail(plan[p])
        /\ \E c \in {Garbled, Head(plan[p]).content} :
             file' = [file EXCEPT ![Head(plan[p]).key] = c]
        /\ Head(plan[p]).content # Invalid
    BY <1>3 DEF Write, AfterWrite, PlanOK
  <2>2. /\ raw \in Texts /\ e \in Experts /\ raw \notin Unreadable
        /\ {AssessmentKey(raw, source), DemandKey(raw), GoalKey(raw)} \subseteq DeskKeys
    BY AskedParts, DeskAssumption
  <2>3. \A key \in DeskKeys : /\ Exists(key) => Exists(key)'
                              /\ key = Head(plan[p]).key /\ Head(plan[p]).content # Absent
                                 => Exists(key)'
    BY <2>1, StoreAssumption DEF DeskFiles, FilesGrow, Exists
  <2>4. CASE plan[p] = IntakeSaves(raw, source, e)
    <3>1. /\ Head(plan[p]).key = AssessmentKey(raw, source)
          /\ Head(plan[p]).content = Assessment(raw, e)
          /\ plan'[p] = IF IsCandidate(raw, e) THEN Promotion(raw) ELSE <<>>
      BY <2>1, <2>4, SavesOfIntake, SaveParts
    <3>2. Assessment(raw, e) # Absent
      BY <2>1, <2>2, <3>1, AssessmentIsValid DEF Unreadable
    <3>3. Exists(AssessmentKey(raw, source))'
      BY <2>2, <2>3, <3>1, <3>2
    <3>4. QED
      BY <3>1, <3>3 DEF Progress
  <2>5. CASE /\ Exists(AssessmentKey(raw, source)) /\ IsCandidate(raw, e)
             /\ plan[p] = Promotion(raw)
    <3>1. /\ Head(plan[p]).key = DemandKey(raw) /\ Head(plan[p]).content = raw
          /\ plan'[p] = <<Save(GoalKey(raw), raw)>>
      <4>1. plan[p] = <<Save(DemandKey(raw), raw), Save(GoalKey(raw), raw)>>
        BY <2>5, SavesOfIntake
      <4>2. /\ Head(plan[p]) = Save(DemandKey(raw), raw)
            /\ Tail(plan[p]) = <<Save(GoalKey(raw), raw)>>
        BY <4>1, Two
      <4>3. QED
        BY <2>1, <4>2, SaveParts
    <3>2. Exists(AssessmentKey(raw, source))' /\ Exists(DemandKey(raw))'
      BY <2>2, <2>3, <2>5, <3>1 DEF Unreadable
    <3>3. QED
      BY <2>5, <3>1, <3>2 DEF Progress
  <2>6. CASE /\ Exists(AssessmentKey(raw, source)) /\ Exists(DemandKey(raw))
             /\ IsCandidate(raw, e) /\ plan[p] = <<Save(GoalKey(raw), raw)>>
    <3>1. /\ Head(plan[p]).key = GoalKey(raw) /\ Head(plan[p]).content = raw
          /\ plan'[p] = <<>>
      BY <2>1, <2>6, SaveParts, One
    <3>2. /\ Exists(AssessmentKey(raw, source))' /\ Exists(DemandKey(raw))'
          /\ Exists(GoalKey(raw))'
      BY <2>2, <2>3, <2>6, <3>1 DEF Unreadable
    <3>3. QED
      BY <3>1, <3>2 DEF Progress
  <2>7. QED
    BY <2>1, <2>4, <2>5, <2>6 DEF Progress
<1>4. QED
  BY <1>1, <1>2, <1>3 DEF SaveStep

LEMMA PlanMade ==
  ASSUME DeskFiles, asked' = asked, NEW others, Others(others),
         NEW p, PlanOK(p, others), SaveStep(p)
  PROVE  PlanOK(p, others)'
<1>1. /\ DOMAIN plan' = DOMAIN plan /\ DOMAIN opened' = DOMAIN opened
      /\ DOMAIN failed' = DOMAIN failed /\ opened'[p] \in BOOLEAN
  BY DEF SaveStep, Truncate, Write, SaveRefused, Fails, PlanOK
<1>2. opened'[p] => plan'[p] # <<>> /\ Head(plan'[p]).content # Invalid
  BY DEF SaveStep, Truncate, Write, SaveRefused, Fails, PlanOK
<1>3. plan'[p] = <<>> \/ IntakePlan(p)' \/ \E save \in others : plan'[p] = <<save>>
  <2>1. CASE SaveRefused(p)
    BY <2>1 DEF SaveRefused, Fails, PlanOK
  <2>2. CASE Truncate(p) \/ Write(p)
    <3>1. failed' = failed /\ (plan'[p] = plan[p] \/ plan'[p] = Tail(plan[p])) /\ plan[p] # <<>>
      BY <2>2 DEF Truncate, Write, PlanOK
    <3>2. CASE \E save \in others : plan[p] = <<save>>
      BY <3>1, <3>2, One
    <3>3. ASSUME NEW q \in asked, Progress(p, q[1], q[2], q[3])
          PROVE  plan'[p] = <<>> \/ IntakePlan(p)'
      <4>1. \/ Progress(p, q[1], q[2], q[3])'
            \/ q[1] = {} /\ failed'[p]
        BY <3>3, SaveStepFiles, ProgressMade
      <4>2. CASE Progress(p, q[1], q[2], q[3])'
        BY <4>2 DEF IntakePlan
      <4>3. CASE q[1] = {} /\ ~Progress(p, q[1], q[2], q[3])'
        <5>1. q[1] \in Texts /\ q[2] \in Sources /\ q[3] \in Experts
          BY AskedParts
        <5>2. plan[p] = IntakeSaves(q[1], q[2], q[3])
          BY <3>1, <3>3, <4>3, <5>1 DEF Progress, DeskFiles, InOrder
        <5>3. Head(plan[p]).content = Invalid
          BY <4>3, <5>1, <5>2, SavesOfIntake, SaveParts, AssessmentIsValid
        <5>4. QED
          BY <2>2, <5>3 DEF Truncate, Write, PlanOK
      <4>4. QED
        BY <4>1, <4>2, <4>3
    <3>4. QED
      BY <3>1, <3>2, <3>3 DEF PlanOK, IntakePlan
  <2>3. QED
    BY <2>1, <2>2 DEF SaveStep
<1>4. QED
  BY <1>1, <1>2, <1>3 DEF PlanOK

\* Saving never comes to a save of another kind: it starts with it.
LEMMA OtherSaveStays ==
  ASSUME DeskFiles, asked' = asked, NEW others, Others(others),
         NEW p, PlanOK(p, others), SaveStep(p),
         NEW save, save.key \notin DeskKeys, plan'[p] = <<save>>
  PROVE  plan[p] = <<save>>
<1>1. CASE Truncate(p)
  BY <1>1 DEF Truncate
<1>2. CASE SaveRefused(p)
  BY <1>2, One DEF SaveRefused, Fails, PlanOK
<1>3. CASE Write(p)
  <2>1. plan[p] # <<>> /\ plan'[p] = Tail(plan[p])
    BY <1>3 DEF Write, PlanOK
  <2>2. CASE \E s \in others : plan[p] = <<s>>
    BY <2>1, <2>2, One
  <2>3. ASSUME NEW q \in asked, Progress(p, q[1], q[2], q[3])
        PROVE  FALSE
    <3> DEFINE raw == q[1]  source == q[2]  e == q[3]
    <3>1. DemandKey(raw) \in DeskKeys /\ GoalKey(raw) \in DeskKeys
      BY AskedParts
    <3>2. Head(plan'[p]) = save /\ plan'[p] # <<>>
      BY One
    <3>3. CASE plan[p] = IntakeSaves(raw, source, e)
      <4>1. plan'[p] = <<Save(DemandKey(raw), raw), Save(GoalKey(raw), raw)>>
        BY <2>1, <3>2, <3>3, SavesOfIntake
      <4>2. Head(plan'[p]) = Save(DemandKey(raw), raw)
        BY <4>1, Two
      <4>3. QED
        BY <3>1, <3>2, <4>2, SaveParts
    <3>4. CASE plan[p] = Promotion(raw)
      <4>1. plan[p] = <<Save(DemandKey(raw), raw), Save(GoalKey(raw), raw)>>
        BY <3>4, SavesOfIntake
      <4>2. plan'[p] = <<Save(GoalKey(raw), raw)>>
        BY <2>1, <4>1, Two
      <4>3. Head(plan'[p]) = Save(GoalKey(raw), raw)
        BY <4>2, One
      <4>4. QED
        BY <3>1, <3>2, <4>3, SaveParts
    <3>5. CASE plan[p] = <<Save(GoalKey(raw), raw)>>
      BY <2>1, <3>2, <3>5, One
    <3>6. QED
      BY <2>1, <2>3, <3>3, <3>4, <3>5 DEF Progress
  <2>4. QED
    BY <2>1, <2>2, <2>3 DEF PlanOK, IntakePlan
<1>4. QED
  BY <1>1, <1>2, <1>3 DEF SaveStep

\* An intake begins.
LEMMA IntakeBegun ==
  ASSUME DeskFiles, NEW p, NEW others, PlanOK(p, others), plan[p] = <<>>,
         NEW raw \in Texts, NEW source \in Sources, NEW e \in Experts,
         Ingest(p, raw, source, e)
  PROVE  /\ DeskFiles' /\ FilesGrow /\ PlanOK(p, others)'
         /\ plan' = [plan EXCEPT ![p] = IntakeSaves(raw, source, e)]
         /\ failed' = [failed EXCEPT ![p] = FALSE] /\ UNCHANGED <<file, opened>>
         /\ asked' = asked \union {<<raw, source, e>>}
<1>1. /\ plan' = [plan EXCEPT ![p] = IntakeSaves(raw, source, e)]
      /\ failed' = [failed EXCEPT ![p] = FALSE] /\ UNCHANGED <<file, opened>>
      /\ asked' = asked \union {<<raw, source, e>>}
  BY DEF Ingest, Saves
<1>2. DeskFiles' /\ FilesGrow
  <2>1. AssessedAsAsked'
    BY <1>1 DEF DeskFiles, AssessedAsAsked, Readable
  <2>2. InOrder' /\ FilesGrow
    BY <1>1 DEF DeskFiles, InOrder, Exists, FilesGrow
  <2>3. QED
    BY <1>1, <2>1, <2>2 DEF DeskFiles
<1>3. PlanOK(p, others)'
  <2>1. plan'[p] = IntakeSaves(raw, source, e)
    BY <1>1 DEF PlanOK
  <2>2. Progress(p, raw, source, e)'
    BY <2>1 DEF Progress
  <2> DEFINE q == <<raw, source, e>>
  <2>3. q \in asked' /\ q[1] = raw /\ q[2] = source /\ q[3] = e
    BY <1>1
  <2> HIDE DEF q
  <2>4. IntakePlan(p)'
    BY <2>2, <2>3 DEF IntakePlan
  <2>5. QED
    BY <1>1, <2>4 DEF PlanOK
<1>4. QED
  BY <1>1, <1>2, <1>3

\* A command ends, its saves undone, or one begins that makes a save of another
\* kind, or none.
LEMMA PlanReplaced ==
  ASSUME NEW p, NEW others, PlanOK(p, others),
         \/ plan' = [plan EXCEPT ![p] = <<>>] /\ opened' = [opened EXCEPT ![p] = FALSE]
         \/ \E save \in others : /\ plan[p] = <<>> /\ opened' = opened
                                 /\ plan' = [plan EXCEPT ![p] = <<save>>],
         DOMAIN failed' = DOMAIN failed
  PROVE  PlanOK(p, others)'
BY DEF PlanOK

-----------------------------------------------------------------------------
(* All processes together.                                                 *)

Desk(procs, others) ==
  /\ DeskFiles
  /\ DOMAIN plan = procs
  /\ opened \in [procs -> BOOLEAN] /\ failed \in [procs -> BOOLEAN]
  /\ \A p \in procs : PlanOK(p, others)

\* A step of one process, when it keeps the files and the plan of its own.
LEMMA DeskStep ==
  ASSUME NEW procs, NEW others, Desk(procs, others), NEW p,
         DeskFiles', FilesGrow, asked \subseteq asked',
         DOMAIN plan' = procs,
         opened' \in [procs -> BOOLEAN], failed' \in [procs -> BOOLEAN],
         \A other \in procs \ {p} : plan'[other] = plan[other] /\ opened'[other] = opened[other],
         p \in procs => PlanOK(p, others)'
  PROVE  Desk(procs, others)'
<1>1. ASSUME NEW other \in procs \ {p} PROVE PlanOK(other, others)'
  BY <1>1, PlanKept DEF Desk
<1>2. QED
  BY <1>1 DEF Desk

LEMMA DeskSaving ==
  ASSUME NEW procs, NEW others, Others(others), Desk(procs, others),
         NEW p \in procs, SaveStep(p), asked' = asked
  PROVE  Desk(procs, others)' /\ FilesGrow
<1>1. DeskFiles' /\ FilesGrow /\ PlanOK(p, others)'
  BY SaveStepFiles, PlanMade DEF Desk
<1>2. /\ DOMAIN plan' = procs
      /\ opened' \in [procs -> BOOLEAN] /\ failed' \in [procs -> BOOLEAN]
      /\ \A other \in procs \ {p} : /\ plan'[other] = plan[other]
                                    /\ opened'[other] = opened[other]
  BY DEF SaveStep, Truncate, Write, SaveRefused, Fails, Desk
<1>3. QED
  BY <1>1, <1>2, DeskStep

\* A command begins: an intake, or a save of another kind.
LEMMA DeskCommand ==
  ASSUME NEW procs, NEW others, Desk(procs, others), NEW p \in procs, plan[p] = <<>>,
         \/ asked' = asked /\ \E save \in others : Saves(p, <<save>>)
         \/ \E raw \in Texts, source \in Sources, e \in Experts : Ingest(p, raw, source, e)
  PROVE  Desk(procs, others)' /\ FilesGrow
<1>1. /\ UNCHANGED <<file, opened>> /\ DOMAIN plan' = procs
      /\ failed' = [failed EXCEPT ![p] = FALSE]
      /\ \A other \in procs \ {p} : plan'[other] = plan[other]
      /\ asked \subseteq asked'
  BY DEF Saves, Ingest, Desk
<1>2. opened' \in [procs -> BOOLEAN] /\ failed' \in [procs -> BOOLEAN]
  BY <1>1 DEF Desk
<1>3. DeskFiles' /\ FilesGrow /\ PlanOK(p, others)'
  <2>1. CASE asked' = asked /\ \E save \in others : Saves(p, <<save>>)
    <3>1. DeskFiles' /\ FilesGrow
      BY <1>1, <2>1
      DEF Desk, DeskFiles, AssessedAsAsked, InOrder, FilesGrow, Readable, Exists
    <3>2. \E save \in others : plan' = [plan EXCEPT ![p] = <<save>>]
      BY <2>1 DEF Saves
    <3>3. PlanOK(p, others)'
      BY <1>1, <3>2, PlanReplaced DEF Desk
    <3>4. QED
      BY <3>1, <3>3
  <2>2. ASSUME NEW raw \in Texts, NEW source \in Sources, NEW e \in Experts,
               Ingest(p, raw, source, e)
        PROVE  DeskFiles' /\ FilesGrow /\ PlanOK(p, others)'
    BY <2>2, IntakeBegun DEF Desk
  <2>3. QED
    BY <2>1, <2>2
<1>4. QED
  BY <1>1, <1>2, <1>3, DeskStep

\* A command is broken off, or nothing is saved.
LEMMA DeskOther ==
  ASSUME NEW procs, NEW others, Desk(procs, others), asked' = asked, UNCHANGED file,
         \/ \E p \in procs : Fails(p)
         \/ UNCHANGED <<plan, opened>> /\ failed' \in [procs -> BOOLEAN]
  PROVE  Desk(procs, others)' /\ FilesGrow
<1>1. DeskFiles' /\ FilesGrow
  BY DEF Desk, DeskFiles, AssessedAsAsked, InOrder, FilesGrow, Readable, Exists
<1>2. ASSUME NEW p \in procs, Fails(p)
      PROVE  Desk(procs, others)'
  <2>1. /\ DOMAIN plan' = procs
        /\ opened' \in [procs -> BOOLEAN] /\ failed' \in [procs -> BOOLEAN]
        /\ \A other \in procs \ {p} : /\ plan'[other] = plan[other]
                                      /\ opened'[other] = opened[other]
    BY <1>2 DEF Desk, Fails
  <2>2. PlanOK(p, others)'
    BY <1>2, <2>1, PlanReplaced DEF Fails, Desk
  <2>3. QED
    BY <1>1, <2>1, <2>2, DeskStep
<1>3. CASE UNCHANGED <<plan, opened>> /\ failed' \in [procs -> BOOLEAN]
  <2>1. ASSUME NEW p \in procs PROVE PlanOK(p, others)'
    BY <1>1, <1>3, <2>1, PlanKept DEF Desk
  <2>2. QED
    BY <1>1, <1>3, <2>1 DEF Desk
<1>4. QED
  BY <1>1, <1>2, <1>3

-----------------------------------------------------------------------------
(* Goals to come.                                                          *)

\* A process that is alive has still to save the goal of a text.
Comes(p, raw) == \E i \in DOMAIN plan[p] : plan[p][i] = Save(GoalKey(raw), raw)

HasGoal(raw) ==
  Exists(DemandKey(raw))
  => \/ Exists(GoalKey(raw))
     \/ Save(GoalKey(raw), raw) \in lost
     \/ \E p \in DOMAIN plan : Comes(p, raw)

LEMMA GoalsInWords ==
  /\ DemandGetsItsGoal <=> \A raw \in Texts : HasGoal(raw)
  /\ DemandGetsItsGoal' <=> \A raw \in Texts : HasGoal(raw)'
<1>1. \A save : save \in Owed <=> \/ save \in lost
                                 \/ \E p \in DOMAIN plan : \E i \in DOMAIN plan[p] :
                                      plan[p][i] = save
  BY DEF Owed, PendingOf
<1>2. \A save : save \in Owed' <=> \/ save \in lost'
                                  \/ \E p \in DOMAIN plan' : \E i \in DOMAIN plan'[p] :
                                       plan'[p][i] = save
  BY DEF Owed, PendingOf
<1>3. QED
  BY <1>1, <1>2 DEF DemandGetsItsGoal, HasGoal, Comes

\* What follows the head of a sequence is in its tail.
LEMMA RestInTail ==
  ASSUME NEW S, NEW s \in Seq(S), NEW i \in DOMAIN s, s[i] # Head(s)
  PROVE  \E j \in DOMAIN Tail(s) : Tail(s)[j] = s[i]
<1>1. s # <<>> /\ i \in 1 .. Len(s) /\ DOMAIN s = 1 .. Len(s) /\ Len(s) \in Nat
  OBVIOUS
<1>2. Head(s) = s[1] /\ Len(Tail(s)) = Len(s) - 1 /\ DOMAIN Tail(s) = 1 .. Len(Tail(s))
  BY <1>1
<1>3. i # 1 /\ i - 1 \in DOMAIN Tail(s)
  BY <1>1, <1>2
<1>4. Tail(s)[i - 1] = s[i]
  BY <1>1, <1>2, <1>3
<1>5. QED
  BY <1>3, <1>4

\* Indices of short sequences.
LEMMA IndicesOfOne ==
  ASSUME NEW a
  PROVE  <<a>> \in Seq({a}) /\ DOMAIN <<a>> = {1} /\ <<a>>[1] = a
OBVIOUS

LEMMA IndicesOfTwo ==
  ASSUME NEW a, NEW b
  PROVE  /\ <<a, b>> \in Seq({a, b}) /\ DOMAIN <<a, b>> = {1, 2}
         /\ <<a, b>>[1] = a /\ <<a, b>>[2] = b
OBVIOUS

LEMMA IndicesOfThree ==
  ASSUME NEW a, NEW b, NEW c
  PROVE  /\ <<a, b, c>> \in Seq({a, b, c}) /\ DOMAIN <<a, b, c>> = {1, 2, 3}
         /\ <<a, b, c>>[1] = a /\ <<a, b, c>>[2] = b /\ <<a, b, c>>[3] = c
OBVIOUS

\* A plan that begins with a demand goes on with its goal; one that is refused
\* has no goal to save, but that of the empty text.
LEMMA PlanOfGoal ==
  ASSUME DeskFiles, NEW p, NEW others, Others(others), PlanOK(p, others), plan[p] # <<>>,
         NEW raw \in Texts
  PROVE  /\ \E S : plan[p] \in Seq(S)
         /\ Head(plan[p]).key = DemandKey(raw) => Comes(p, raw)
         /\ Head(plan[p]).content = Invalid /\ Comes(p, raw) => raw = {}
<1> DEFINE Goal == /\ \E S : plan[p] \in Seq(S)
                   /\ Head(plan[p]).key = DemandKey(raw) => Comes(p, raw)
                   /\ Head(plan[p]).content = Invalid /\ Comes(p, raw) => raw = {}
<1>1. ASSUME NEW save \in others, plan[p] = <<save>>
      PROVE  Goal
  <2>1. Head(plan[p]) = save /\ plan[p] \in Seq({save}) /\ \A i \in DOMAIN plan[p] : plan[p][i] = save
    BY <1>1, One, IndicesOfOne
  <2>2. save.key # DemandKey(raw) /\ save.key # GoalKey(raw)
    BY DEF Others, DeskKeys
  <2>3. ~Comes(p, raw)
    BY <2>1, <2>2, SaveParts DEF Comes
  <2>4. QED
    BY <2>1, <2>2, <2>3
<1>2. ASSUME NEW q \in asked, Progress(p, q[1], q[2], q[3])
      PROVE  Goal
  <2>1. PICK a, d, g : /\ a = Save(AssessmentKey(q[1], q[2]), Assessment(q[1], q[3]))
                       /\ d = Save(DemandKey(q[1]), q[1])
                       /\ g = Save(GoalKey(q[1]), q[1])
    OBVIOUS
  <2>2. q[1] \in Texts /\ q[3] \in Experts /\ q[1] # Invalid
    BY AskedParts, DeskAssumption
  <2>3. /\ a.key = AssessmentKey(q[1], q[2]) /\ a.content = Assessment(q[1], q[3])
        /\ d.key = DemandKey(q[1]) /\ g.key = GoalKey(q[1])
        /\ d.content = q[1] /\ g.content = q[1]
    BY <2>1, SaveParts
  <2>4. /\ a.key # DemandKey(raw) /\ a.key # GoalKey(raw)
        /\ d.key # GoalKey(raw) /\ g.key # DemandKey(raw)
    BY <2>3, DeskKeysDiffer
  <2>5. d.key = DemandKey(raw) => g = Save(GoalKey(raw), raw)
    <3>1. DemandKey(q[1]) = DemandKey(raw) => q[1] = raw
      BY SameDemandKey
    <3>2. QED
      BY <2>1, <2>3, <3>1
  <2>6. \A save \in {a, d, g} : save = Save(GoalKey(raw), raw) => q[1] = raw
    <3>1. GoalKey(q[1]) = GoalKey(raw) => q[1] = raw
      BY SameGoalKey
    <3>2. QED
      BY <2>3, <2>4, <3>1, SaveParts
  <2>7. CASE plan[p] = <<a, d, g>> \/ plan[p] = <<a>>
    <3>1. Head(plan[p]) = a /\ (\E S : plan[p] \in Seq(S))
      <4>1. CASE plan[p] = <<a, d, g>>
        <5>1. Head(plan[p]) = a /\ plan[p] \in Seq({a, d, g})
          BY <4>1, Three, IndicesOfThree
        <5>2. QED
          BY <5>1
      <4>2. CASE plan[p] = <<a>>
        <5>1. Head(plan[p]) = a /\ plan[p] \in Seq({a})
          BY <4>2, One, IndicesOfOne
        <5>2. QED
          BY <5>1
      <4>3. QED
        BY <2>7, <4>1, <4>2
    <3>2. \A i \in DOMAIN plan[p] : plan[p][i] \in {a, d, g}
      BY <2>7, IndicesOfOne, IndicesOfThree
    <3>3. Comes(p, raw) => q[1] = raw
      BY <2>6, <3>2 DEF Comes
    <3>4. a.content = Invalid => q[1] = {}
      BY <2>2, <2>3, AssessmentIsValid
    <3>5. QED
      BY <2>4, <3>1, <3>3, <3>4
  <2>8. CASE plan[p] = <<d, g>>
    <3>1. /\ Head(plan[p]) = d /\ plan[p] \in Seq({d, g}) /\ 2 \in DOMAIN plan[p]
          /\ plan[p][2] = g
      BY <2>8, Two, IndicesOfTwo
    <3>2. Head(plan[p]).key = DemandKey(raw) => Comes(p, raw)
      BY <2>5, <3>1 DEF Comes
    <3>3. QED
      BY <2>2, <2>3, <3>1, <3>2
  <2>9. CASE plan[p] = <<g>>
    <3>1. Head(plan[p]) = g /\ plan[p] \in Seq({g})
      BY <2>9, One, IndicesOfOne
    <3>2. QED
      BY <2>2, <2>3, <2>4, <3>1
  <2>10. QED
    BY <1>2, <2>1, <2>7, <2>8, <2>9, SavesOfIntake DEF Progress
<1>3. QED
  BY <1>1, <1>2 DEF PlanOK, IntakePlan

\* While no process is killed, goals stay to come.
LEMMA GoalsStillCome ==
  ASSUME UNCHANGED <<file, lost>>, DOMAIN plan' = DOMAIN plan,
         \A q \in DOMAIN plan : plan[q] # <<>> => plan'[q] = plan[q],
         NEW raw, HasGoal(raw)
  PROVE  HasGoal(raw)'
<1>1. \A q \in DOMAIN plan : Comes(q, raw) => Comes(q, raw)'
  BY DEF Comes
<1>2. QED
  BY <1>1 DEF HasGoal, Exists

\* The goal that a killed process was to save is lost.
LEMMA GoalsAreLost ==
  ASSUME NEW p, Killed(p), NEW raw, HasGoal(raw)
  PROVE  HasGoal(raw)'
<1>1. UNCHANGED file /\ plan' = [plan EXCEPT ![p] = <<>>] /\ lost' = lost \union PendingOf(p)
  BY DEF Killed, Fails
<1>2. Comes(p, raw) => Save(GoalKey(raw), raw) \in lost'
  BY <1>1 DEF Comes, PendingOf
<1>3. \A q \in DOMAIN plan : q # p /\ Comes(q, raw) => q \in DOMAIN plan' /\ Comes(q, raw)'
  BY <1>1 DEF Comes
<1>4. QED
  BY <1>1, <1>2, <1>3 DEF HasGoal, Exists

\* A save that is refused loses no goal, as nothing comes of the empty text.
LEMMA GoalsComeBySaving ==
  ASSUME DeskFiles, FilesGrow, NEW others, Others(others),
         NEW p, PlanOK(p, others), SaveStep(p),
         NEW raw \in Texts, HasGoal(raw)
  PROVE  HasGoal(raw)'
<1>0. lost' = lost
  BY DEF SaveStep, Truncate, Write, SaveRefused
<1> SUFFICES ASSUME Exists(DemandKey(raw))', Save(GoalKey(raw), raw) \notin lost
             PROVE  Exists(GoalKey(raw))' \/ \E q \in DOMAIN plan' : Comes(q, raw)'
  BY <1>0 DEF HasGoal
<1>1. /\ plan[p] # <<>> /\ DOMAIN plan' = DOMAIN plan /\ p \in DOMAIN plan
      /\ \A q \in DOMAIN plan \ {p} : plan'[q] = plan[q]
  BY DEF SaveStep, Truncate, Write, SaveRefused, Fails, PlanOK
<1>2. /\ DemandKey(raw) \in DOMAIN file /\ GoalKey(raw) \in DOMAIN file
  BY DEF DeskFiles, DeskKeys
<1>3. CASE Exists(GoalKey(raw))
  BY <1>2, <1>3 DEF FilesGrow
<1>4. ASSUME NEW q \in DOMAIN plan, q # p, Comes(q, raw)
      PROVE  Comes(q, raw)' /\ q \in DOMAIN plan'
  <2>1. plan'[q] = plan[q]
    BY <1>1, <1>4
  <2>2. QED
    BY <1>1, <1>4, <2>1 DEF Comes
\* The goal is p's to save, now or from now on.
<1>5. CASE Comes(p, raw)
  <2>1. CASE Truncate(p)
    <3>1. plan'[p] = plan[p]
      BY <2>1 DEF Truncate
    <3>2. QED
      BY <1>1, <1>5, <3>1 DEF Comes
  <2>2. CASE SaveRefused(p)
    <3>1. raw = {} /\ UNCHANGED file
      BY <1>1, <1>5, <2>2, PlanOfGoal DEF SaveRefused, Fails
    <3>2. QED
      BY <3>1 DEF DeskFiles, InOrder, Exists
  <2>3. CASE Write(p)
    <3>1. plan'[p] = Tail(plan[p])
      BY <1>1, <2>3 DEF Write
    <3>2. PICK i \in DOMAIN plan[p] : plan[p][i] = Save(GoalKey(raw), raw)
      BY <1>5 DEF Comes
    <3>3. CASE plan[p][i] # Head(plan[p])
      <4>1. PICK S : plan[p] \in Seq(S)
        BY <1>1, PlanOfGoal
      <4>2. \E j \in DOMAIN Tail(plan[p]) : Tail(plan[p])[j] = plan[p][i]
        BY <3>3, <4>1, RestInTail
      <4>3. Comes(p, raw)'
        BY <3>1, <3>2, <4>2 DEF Comes
      <4>4. QED
        BY <1>1, <4>3
    <3>4. CASE plan[p][i] = Head(plan[p])
      <4>1. Head(plan[p]).key = GoalKey(raw) /\ Head(plan[p]).content = raw
        <5>1. Head(plan[p]) = Save(GoalKey(raw), raw)
          BY <3>2, <3>4
        <5>2. QED
          BY <5>1, SaveParts
      <4>2. \E c \in {Garbled, raw} : file' = [file EXCEPT ![GoalKey(raw)] = c]
        BY <2>3, <4>1 DEF Write, AfterWrite
      <4>3. raw # Absent /\ Garbled # Absent
        BY DeskAssumption, StoreAssumption DEF Unreadable
      <4>4. QED
        BY <1>2, <4>2, <4>3 DEF Exists
    <3>5. QED
      BY <3>3, <3>4
  <2>4. QED
    BY <2>1, <2>2, <2>3 DEF SaveStep
<1>6. CASE ~Exists(DemandKey(raw))
  <2>1. Head(plan[p]).key = DemandKey(raw)
    BY <1>1, <1>2, <1>6, SaveOfOneFile DEF Exists
  <2>2. QED
    BY <1>1, <1>5, <2>1, PlanOfGoal
<1>7. QED
  BY <1>3, <1>4, <1>5, <1>6 DEF HasGoal

-----------------------------------------------------------------------------
(* The properties.                                                         *)

LEMMA Explained ==
  ASSUME DeskFiles
  PROVE  GoalIsExplained
<1> SUFFICES ASSUME NEW raw \in Texts, Exists(GoalKey(raw))
             PROVE  /\ Exists(DemandKey(raw))
                    /\ \E source \in Sources :
                         /\ Exists(AssessmentKey(raw, source))
                         /\ \/ ~Readable(AssessmentKey(raw, source))
                            \/ file[AssessmentKey(raw, source)].classification = "loop_candidate"
                            \/ \E e \in Experts : <<raw, source, e>> \in asked /\ ~IsCandidate(raw, e)
  BY DEF GoalIsExplained
<1>1. Exists(DemandKey(raw))
  BY DEF DeskFiles, InOrder
<1>2. PICK source \in Sources : Exists(AssessmentKey(raw, source))
  BY <1>1 DEF DeskFiles, InOrder
<1>3. CASE Readable(AssessmentKey(raw, source))
  <2>1. PICK e \in Experts : /\ <<raw, source, e>> \in asked
                             /\ file[AssessmentKey(raw, source)] = Assessment(raw, e)
    BY <1>3 DEF DeskFiles, AssessedAsAsked
  <2>2. raw # {}
    BY <1>2 DEF DeskFiles, InOrder
  <2>3. file[AssessmentKey(raw, source)].classification = classify_intake(raw, e)
    BY <2>1, <2>2, AssessmentIsValid
  <2>4. QED
    BY <1>1, <1>2, <2>1, <2>3 DEF IsCandidate
<1>4. QED
  BY <1>1, <1>2, <1>3
=============================================================================
