---------------------------- MODULE ListenerProofs ---------------------------
(***************************************************************************)
(* Proofs about Listener for any messages, pids, pollers, faults and pipe  *)
(* capacity; OneListener is about one watchdog, all else about any number. *)
(***************************************************************************)
EXTENDS Listener, FrontDeskProofs, FiniteSetTheorems

-----------------------------------------------------------------------------
(* Keys and contents.                                                      *)

LEMMA PidKeyDiffers == PidKey \notin DeskKeys
BY DEF PidKey, DeskKeys, AssessmentKey, DemandKey, GoalKey

LEMMA ContentsOfKeys ==
  /\ \A raw, source : Contents(AssessmentKey(raw, source)) = Assessments
  /\ \A raw : Contents(DemandKey(raw)) = Texts /\ Contents(GoalKey(raw)) = Texts
  /\ Contents(PidKey) = Pids
BY DEF Contents, AssessmentKey, DemandKey, GoalKey, PidKey

OtherSaves == {Save(PidKey, pid) : pid \in Pids}

LEMMA SaveOfOther ==
  ASSUME NEW save \in OtherSaves
  PROVE  /\ save.key = PidKey /\ save.content \in Pids
         /\ save.key \notin DeskKeys
         /\ save.content \notin Unreadable \union {Invalid}
<1>1. PICK pid \in Pids : save = Save(PidKey, pid)
  BY DEF OtherSaves
<1>2. save.key = PidKey /\ save.content = pid
  BY <1>1, SaveParts
<1>3. QED
  BY <1>2, PidKeyDiffers, ProcessesAssumption

LEMMA SavesAreOther == Others(OtherSaves)
BY SaveOfOther DEF Others

LEMMA SamePid ==
  ASSUME NEW a, NEW b, <<Save(PidKey, a)>> = <<Save(PidKey, b)>>
  PROVE  a = b
<1>1. Head(<<Save(PidKey, a)>>) = Save(PidKey, a) /\ Head(<<Save(PidKey, b)>>) = Save(PidKey, b)
  BY One
<1>2. Save(PidKey, a) = Save(PidKey, b)
  BY <1>1
<1>3. QED
  BY <1>2, SaveParts

LEMMA WatchdogsAreNoPids ==
  /\ Watchdogs \subseteq Procs /\ Pids \subseteq Procs
  /\ \A w \in Watchdogs, pid \in Pids : w # pid
BY ProcessesAssumption DEF Procs

-----------------------------------------------------------------------------
(* The files and the plans.                                                *)

FilesTyped ==
  /\ DOMAIN file = DeskKeys \union {PidKey}
  /\ \A key \in DOMAIN file : Readable(key) => file[key] \in Contents(key)

\* A watchdog saves a pid, a listener an intake; one that is about to start a
\* listener, or that waits for a message, saves nothing.
SavesPid(w) == \E pid \in Pids : plan[w] = <<Save(PidKey, pid)>>

PlansInv ==
  /\ \A w \in Watchdogs : /\ plan[w] = <<>> \/ SavesPid(w)
                          /\ watch[w] => plan[w] = <<>>
  /\ \A pid \in Pids : /\ \A other \in Pids : plan[pid] # <<Save(PidKey, other)>>
                       /\ Listens(pid) /\ proc[pid].busy = None => plan[pid] = <<>>

DeskInv == FilesTyped /\ Desk(Procs, OtherSaves)

\* The processes and their saves are constants.
LEMMA DeskIs ==
  ASSUME NEW procs, NEW others, procs = Procs, others = OtherSaves
  PROVE  /\ Desk(Procs, OtherSaves) <=> Desk(procs, others)
         /\ Desk(Procs, OtherSaves)' <=> Desk(procs, others)'
BY DEF Desk, PlanOK, Procs, OtherSaves, Save, PidKey

\* What a process is about to save has the type of its file.
LEMMA HeadIsTyped ==
  ASSUME DeskInv, NEW p \in Procs, plan[p] # <<>>, Head(plan[p]).content # Invalid
  PROVE  Head(plan[p]).content \in Contents(Head(plan[p]).key)
<1>1. CASE Head(plan[p]) \in OtherSaves
  BY <1>1, SaveOfOther, ContentsOfKeys
<1>2. CASE IntakeHead(Head(plan[p]))
  <2>1. PICK q \in asked :
          \/ Head(plan[p]) = Save(AssessmentKey(q[1], q[2]), Assessment(q[1], q[3]))
          \/ Head(plan[p]) = Save(DemandKey(q[1]), q[1])
          \/ Head(plan[p]) = Save(GoalKey(q[1]), q[1])
    BY <1>2 DEF IntakeHead
  <2>2. q[1] \in Texts /\ q[3] \in Experts
    BY AskedParts DEF DeskInv, Desk
  <2>3. QED
    BY <2>1, <2>2, SaveParts, AssessmentIsValid, ContentsOfKeys
<1>3. QED
  BY <1>1, <1>2, HeadOfPlan DEF DeskInv, Desk

LEMMA SavingKeepsDesk ==
  ASSUME DeskInv, NEW p \in Procs, SaveStep(p), asked' = asked
  PROVE  DeskInv' /\ FilesGrow
<1>1. PICK procs, others : procs = Procs /\ others = OtherSaves
  OBVIOUS
<1>2. Desk(procs, others) /\ Others(others)
  BY <1>1, DeskIs, SavesAreOther DEF DeskInv
<1>3. Desk(procs, others)' /\ FilesGrow
  BY <1>1, <1>2, DeskSaving
<1>4. FilesTyped'
  <2>1. CASE UNCHANGED file
    BY <2>1 DEF DeskInv, FilesTyped, Readable
  <2>2. ASSUME plan[p] # <<>>, Head(plan[p]).content # Invalid,
               NEW c \in {Truncated, Garbled, Head(plan[p]).content},
               file' = [file EXCEPT ![Head(plan[p]).key] = c]
        PROVE  FilesTyped'
    <3>1. Head(plan[p]).content \in Contents(Head(plan[p]).key)
      BY <2>2, HeadIsTyped
    <3>2. QED
      BY <2>2, <3>1 DEF DeskInv, FilesTyped, Readable, Unreadable
  <2>3. QED
    BY <1>1, <1>2, <2>1, <2>2, SaveOfOneFile DEF Desk
<1>5. QED
  BY <1>1, <1>3, <1>4, DeskIs DEF DeskInv

LEMMA CommandKeepsDesk ==
  ASSUME DeskInv, NEW p \in Procs, plan[p] = <<>>,
         \/ asked' = asked /\ \E save \in OtherSaves : Saves(p, <<save>>)
         \/ \E raw \in Texts, source \in Sources, e \in Experts : Ingest(p, raw, source, e)
  PROVE  DeskInv' /\ FilesGrow
<1>1. PICK procs, others : procs = Procs /\ others = OtherSaves
  OBVIOUS
<1>2. Desk(procs, others)' /\ FilesGrow
  BY <1>1, DeskIs, DeskCommand DEF DeskInv
<1>3. FilesTyped'
  BY DEF Saves, Ingest, DeskInv, FilesTyped, Readable
<1>4. QED
  BY <1>1, <1>2, <1>3, DeskIs DEF DeskInv

LEMMA OtherStepsKeepDesk ==
  ASSUME DeskInv, asked' = asked, UNCHANGED file,
         \/ \E p \in Procs : Fails(p)
         \/ UNCHANGED <<plan, opened, failed>>
  PROVE  DeskInv' /\ FilesGrow
<1>1. PICK procs, others : procs = Procs /\ others = OtherSaves
  OBVIOUS
<1>2. Desk(procs, others)' /\ FilesGrow
  <2>1. Desk(procs, others)
    BY <1>1, DeskIs DEF DeskInv
  <2>2. failed \in [procs -> BOOLEAN]
    BY <2>1 DEF Desk
  <2>3. QED
    BY <1>1, <2>1, <2>2, DeskOther
<1>3. FilesTyped'
  BY DEF DeskInv, FilesTyped, Readable
<1>4. QED
  BY <1>1, <1>2, <1>3, DeskIs DEF DeskInv

-----------------------------------------------------------------------------
(* Types.                                                                  *)

RestTyped ==
  /\ proc \in [Pids -> Listeners \union {None, Other}]
  /\ watch \in [Watchdogs -> BOOLEAN]
  /\ chat \in [Events -> {"unsent", "waiting", "given"}]
  /\ handled \subseteq Events /\ dropped \subseteq Events /\ vouched \subseteq Events
  /\ orphans \subseteq Pids /\ faults \in 0..MaxFaults

TypeInv == DeskInv /\ PlansInv /\ RestTyped

\* The actions of lark-cli and of the chat service, of a listener that reads,
\* and of other processes, change a listener or take it away, and no file.
LEMMA ListenerParts ==
  ASSUME RestTyped, NEW pid \in Pids, Listens(pid)
  PROVE  /\ proc[pid] \in Listeners
         /\ proc[pid].by \in {"watchdog", "poll"}
         /\ proc[pid].cli \in {"runs", "blocked", "ended", "failed"}
         /\ proc[pid].out \in Seq(Events) /\ proc[pid].busy \in Events \union {None}
         /\ proc[pid].bad \in BOOLEAN /\ proc[pid].took \subseteq Events
BY DEF RestTyped, Listens, Listeners

LEMMA StartedIsListener ==
  ASSUME NEW by \in {"watchdog", "poll"}
  PROVE  /\ Started(by) \in Listeners /\ Started(by).by = by
         /\ Started(by).busy = None /\ Started(by).took = {}
<1>1. <<>> \in Seq(Events)
  BY EmptySeq
<1>2. QED
  BY <1>1 DEF Started, Listeners

\* The first line of the output.
LEMMA LineIsEvent ==
  ASSUME RestTyped, NEW pid \in Pids, HasLine(pid)
  PROVE  /\ Listens(pid) /\ proc[pid].busy = None
         /\ Head(proc[pid].out) \in Events /\ Tail(proc[pid].out) \in Seq(Events)
<1>1. Listens(pid) /\ proc[pid].busy = None /\ proc[pid].out # <<>>
  BY DEF HasLine
<1>2. proc[pid].out \in Seq(Events)
  BY <1>1, ListenerParts
<1>3. QED
  BY <1>1, <1>2, HeadTailProperties

LEMMA EventParts ==
  ASSUME NEW e \in Events
  PROVE  /\ e.raw \in Texts /\ e.source \in Sources
         /\ _expert_from_prefix(e.prefix) \in Experts /\ e # None
BY ListenerAssumption

-----------------------------------------------------------------------------
(* Steps.                                                                  *)

\* Steps that leave every save alone.
Quiet(pid) ==
  \/ PollStart(pid) \/ LarkCli(pid) \/ Skip(pid) \/ TakenIn(pid) \/ Summarise(pid)
  \/ OtherTakes(pid) \/ OtherEnds(pid)

\* The steps, by what they do to the saves.
LEMMA Steps ==
  ASSUME Next
  PROVE  \/ \E p \in Procs : Saving(p)
         \/ \E w \in Watchdogs : Watch(w) \/ WatchDies(w)
         \/ \E w \in Watchdogs, pid \in Pids : WatchStart(w, pid)
         \/ \E pid \in Pids : Quiet(pid) \/ TakeIn(pid) \/ Kill(pid) \/ IntakeDies(pid)
         \/ \E e \in Events : Redeliver(e)
BY DEF Next, WatchStep, ListenerStep, Quiet

LEMMA QuietSaves ==
  ASSUME NEW pid, Quiet(pid)
  PROVE  UNCHANGED <<deskVars, watch>>
BY DEF Quiet, PollStart, LarkCli, Skip, TakenIn, Summarise, OtherTakes, OtherEnds,
       Emit, Complain, TimeIsUp, CliFails

LEMMA StepDesk ==
  ASSUME TypeInv, Next
  PROVE  DeskInv' /\ FilesGrow
<1> USE DEF TypeInv
<1>1. ASSUME NEW p \in Procs, Saving(p) PROVE DeskInv' /\ FilesGrow
  BY <1>1, SavingKeepsDesk DEF Saving
<1>2. CASE UNCHANGED deskVars
  BY <1>2, OtherStepsKeepDesk DEF deskVars, storeVars
<1>3. ASSUME NEW p \in Procs, Fails(p), asked' = asked PROVE DeskInv' /\ FilesGrow
  <2>1. UNCHANGED file
    BY <1>3 DEF Fails
  <2>2. QED
    BY <1>3, <2>1, OtherStepsKeepDesk
<1>4. ASSUME NEW w \in Watchdogs, NEW pid \in Pids, WatchStart(w, pid)
      PROVE  DeskInv' /\ FilesGrow
  <2>1. plan[w] = <<>> /\ w \in Procs
    BY <1>4, WatchdogsAreNoPids DEF WatchStart, PlansInv
  <2>2. Saves(w, <<Save(PidKey, pid)>>) /\ asked' = asked
    BY <1>4 DEF WatchStart
  <2>3. Save(PidKey, pid) \in OtherSaves
    BY DEF OtherSaves
  <2>4. QED
    BY <2>1, <2>2, <2>3, CommandKeepsDesk
<1>5. ASSUME NEW pid \in Pids, TakeIn(pid) PROVE DeskInv' /\ FilesGrow
  <2> DEFINE e == Head(proc[pid].out)
  <2>1. HasLine(pid) /\ Ingest(pid, e.raw, e.source, _expert_from_prefix(e.prefix))
    BY <1>5 DEF TakeIn
  <2>2. Listens(pid) /\ proc[pid].busy = None /\ e \in Events
    BY <2>1, LineIsEvent
  <2>3. plan[pid] = <<>> /\ pid \in Procs
    BY <2>2, WatchdogsAreNoPids DEF PlansInv
  <2>4. e.raw \in Texts /\ e.source \in Sources /\ _expert_from_prefix(e.prefix) \in Experts
    BY <2>2, EventParts
  <2> HIDE DEF e
  <2>5. QED
    BY <2>1, <2>3, <2>4, CommandKeepsDesk
<1>6. ASSUME NEW pid \in Pids, Kill(pid) \/ IntakeDies(pid) PROVE DeskInv' /\ FilesGrow
  <2>1. asked' = asked /\ (Fails(pid) \/ UNCHANGED storeVars) /\ pid \in Procs
    BY <1>6, WatchdogsAreNoPids DEF Kill, IntakeDies, Killed
  <2>2. QED
    BY <1>2, <1>3, <2>1 DEF deskVars
<1>7. ASSUME NEW w \in Watchdogs, Watch(w) \/ WatchDies(w) PROVE DeskInv' /\ FilesGrow
  <2>1. (asked' = asked /\ Fails(w)) \/ UNCHANGED deskVars
    BY <1>7 DEF Watch, WatchDies, Killed
  <2>2. w \in Procs
    BY WatchdogsAreNoPids
  <2>3. QED
    BY <1>2, <1>3, <2>1, <2>2
<1>8. \A pid \in Pids : Quiet(pid) => UNCHANGED deskVars
  BY QuietSaves
<1>9. \A e \in Events : Redeliver(e) => UNCHANGED deskVars
  BY DEF Redeliver
<1>10. QED
  BY <1>1, <1>2, <1>4, <1>5, <1>6, <1>7, <1>8, <1>9, Steps

\* A step of one listener.
LEMMA PlansStep ==
  ASSUME PlansInv, NEW pid \in Pids, watch' = watch,
         \A q \in Procs \ {pid} : plan'[q] = plan[q],
         \A q \in Pids \ {pid} : proc'[q] = proc[q],
         \A other \in Pids : plan'[pid] # <<Save(PidKey, other)>>,
         Listens(pid)' /\ proc'[pid].busy = None => plan'[pid] = <<>>
  PROVE  PlansInv'
<1>1. ASSUME NEW w \in Watchdogs
      PROVE  (plan'[w] = <<>> \/ SavesPid(w)') /\ (watch'[w] => plan'[w] = <<>>)
  <2>1. plan'[w] = plan[w]
    BY WatchdogsAreNoPids
  <2>2. QED
    BY <2>1 DEF PlansInv, SavesPid
<1>2. ASSUME NEW q \in Pids, q # pid
      PROVE  /\ \A other \in Pids : plan'[q] # <<Save(PidKey, other)>>
             /\ Listens(q)' /\ proc'[q].busy = None => plan'[q] = <<>>
  <2>1. plan'[q] = plan[q] /\ proc'[q] = proc[q]
    BY <1>2, WatchdogsAreNoPids
  <2>2. QED
    BY <2>1 DEF PlansInv, Listens
<1>3. QED
  BY <1>1, <1>2 DEF PlansInv

\* A listener's plan after any step: as it was, empty, or the rest of what it
\* has to save.
LEMMA StepPlans ==
  ASSUME TypeInv, Next
  PROVE  PlansInv'
<1> USE DEF TypeInv
<1>1. /\ DOMAIN plan = Procs /\ DOMAIN proc = Pids /\ DOMAIN watch = Watchdogs
  BY DEF DeskInv, Desk, RestTyped
<1>2. ASSUME NEW p \in Procs, Saving(p) PROVE PlansInv'
  <2>1. SaveStep(p) /\ asked' = asked /\ UNCHANGED <<proc, watch>> /\ plan[p] # <<>>
    BY <1>2 DEF Saving, listenerVars, SaveStep, Truncate, Write, SaveRefused
  <2>2. \A q \in Procs \ {p} : plan'[q] = plan[q]
    BY <1>1, <2>1 DEF SaveStep, Truncate, Write, SaveRefused, Fails
  <2>3. ASSUME NEW save, save.key \notin DeskKeys, plan'[p] = <<save>>
        PROVE  plan[p] = <<save>>
    <3>1. PICK others : others = OtherSaves
      OBVIOUS
    <3>2. PlanOK(p, others) /\ Others(others) /\ DeskFiles
      BY <3>1, SavesAreOther DEF DeskInv, Desk
    <3>3. QED
      BY <2>1, <2>3, <3>2, OtherSaveStays
  <2>4. ASSUME NEW w \in Watchdogs
        PROVE  (plan'[w] = <<>> \/ SavesPid(w)') /\ (watch'[w] => plan'[w] = <<>>)
    <3>1. CASE w = p
      <4>1. PICK pid \in Pids : plan[w] = <<Save(PidKey, pid)>>
        BY <2>1, <3>1 DEF PlansInv, SavesPid
      <4>2. plan'[w] = plan[w] \/ plan'[w] = <<>>
        BY <1>1, <2>1, <3>1, <4>1, One DEF SaveStep, Truncate, Write, SaveRefused, Fails
      <4>3. QED
        BY <2>1, <3>1, <4>1, <4>2 DEF PlansInv, SavesPid
    <3>2. CASE w # p
      BY <2>1, <2>2, <3>2, WatchdogsAreNoPids DEF PlansInv, SavesPid
    <3>3. QED
      BY <3>1, <3>2
  <2>5. ASSUME NEW pid \in Pids, NEW other \in Pids, plan'[pid] = <<Save(PidKey, other)>>
        PROVE  FALSE
    <3>1. Save(PidKey, other).key \notin DeskKeys
      BY SaveParts, PidKeyDiffers
    <3>2. plan[pid] = <<Save(PidKey, other)>>
      BY <2>2, <2>3, <2>5, <3>1, WatchdogsAreNoPids
    <3>3. QED
      BY <3>2 DEF PlansInv
  <2>6. ASSUME NEW pid \in Pids, Listens(pid), proc[pid].busy = None
        PROVE  plan'[pid] = <<>>
    BY <2>1, <2>2, <2>6, WatchdogsAreNoPids DEF PlansInv
  <2>7. QED
    BY <2>1, <2>4, <2>5, <2>6 DEF PlansInv, Listens
<1>3. ASSUME NEW w \in Watchdogs, Watch(w) PROVE PlansInv'
  BY <1>1, <1>3 DEF Watch, deskVars, storeVars, PlansInv, SavesPid, Listens
<1>4. ASSUME NEW w \in Watchdogs, WatchDies(w) PROVE PlansInv'
  <2>1. w \in Procs /\ \A pid \in Pids : pid # w
    BY WatchdogsAreNoPids
  <2>2. /\ plan' = [plan EXCEPT ![w] = <<>>] /\ UNCHANGED <<proc, watch>>
    BY <1>4 DEF WatchDies, Killed, Fails
  <2>3. \A q \in Procs : plan'[q] = IF q = w THEN <<>> ELSE plan[q]
    BY <1>1, <2>2
  <2>4. \A q \in Pids : plan'[q] = plan[q]
    BY <2>1, <2>3, WatchdogsAreNoPids
  <2>5. \A v \in Watchdogs : plan'[v] = plan[v] \/ plan'[v] = <<>>
    BY <2>3, WatchdogsAreNoPids
  <2>6. ASSUME NEW v \in Watchdogs
        PROVE  (plan'[v] = <<>> \/ SavesPid(v)') /\ (watch'[v] => plan'[v] = <<>>)
    BY <2>2, <2>5 DEF PlansInv, SavesPid
  <2>7. QED
    BY <2>2, <2>4, <2>6 DEF PlansInv, Listens
<1>5. ASSUME NEW w \in Watchdogs, NEW pid \in Pids, WatchStart(w, pid) PROVE PlansInv'
  <2>1. w \in Procs /\ \A q \in Pids : q # w
    BY WatchdogsAreNoPids
  <2>2. /\ plan' = [plan EXCEPT ![w] = <<Save(PidKey, pid)>>]
        /\ proc' = [proc EXCEPT ![pid] = Started("watchdog")]
        /\ watch' = [watch EXCEPT ![w] = FALSE] /\ plan[pid] = <<>>
    BY <1>5 DEF WatchStart, Saves, Free
  <2>3. \A q \in Procs : plan'[q] = IF q = w THEN <<Save(PidKey, pid)>> ELSE plan[q]
    BY <1>1, <2>2
  <2>4. \A q \in Pids : plan'[q] = plan[q] /\ (q # pid => proc'[q] = proc[q])
    BY <1>1, <2>1, <2>2, <2>3, WatchdogsAreNoPids
  <2>5. \A v \in Watchdogs : v # w => plan'[v] = plan[v] /\ watch'[v] = watch[v]
    BY <1>1, <2>2, <2>3, WatchdogsAreNoPids
  <2>6. SavesPid(w)' /\ ~watch'[w]
    BY <1>1, <2>1, <2>2, <2>3 DEF SavesPid
  <2>7. ASSUME NEW v \in Watchdogs
        PROVE  (plan'[v] = <<>> \/ SavesPid(v)') /\ (watch'[v] => plan'[v] = <<>>)
    BY <2>5, <2>6 DEF PlansInv, SavesPid
  <2>8. ASSUME NEW q \in Pids, NEW other \in Pids
        PROVE  plan'[q] # <<Save(PidKey, other)>>
    BY <2>4 DEF PlansInv
  <2>9. ASSUME NEW q \in Pids, Listens(q)', proc'[q].busy = None PROVE plan'[q] = <<>>
    BY <2>2, <2>4, <2>9 DEF PlansInv, Listens
  <2>10. QED
    BY <2>7, <2>8, <2>9 DEF PlansInv
<1>6. ASSUME NEW pid \in Pids, TakeIn(pid) PROVE PlansInv'
  <2> DEFINE e == Head(proc[pid].out)
             l == [proc[pid] EXCEPT !.out = Tail(@), !.busy = e, !.took = @ \union {e}]
             saves == IntakeSaves(e.raw, e.source, _expert_from_prefix(e.prefix))
  <2>1. pid \in Procs /\ \A w \in Watchdogs : pid # w
    BY WatchdogsAreNoPids
  <2>2. /\ plan' = [plan EXCEPT ![pid] = saves] /\ UNCHANGED watch
        /\ proc' = [proc EXCEPT ![pid] = l]
        /\ HasLine(pid)
    BY <1>6 DEF TakeIn, Ingest, Saves
  <2>3. Listens(pid) /\ e \in Events
    BY <2>2, LineIsEvent
  <2>4. l.busy = e /\ e # None
    BY <2>3, ListenerParts, EventParts DEF Listeners
  <2>5. ASSUME NEW other \in Pids PROVE saves # <<Save(PidKey, other)>>
    <3>1. Head(saves).key = AssessmentKey(e.raw, e.source)
      BY SavesOfIntake, SaveParts
    <3>2. Head(<<Save(PidKey, other)>>).key = PidKey
      BY One, SaveParts
    <3>3. AssessmentKey(e.raw, e.source) # PidKey
      BY DEF AssessmentKey, PidKey
    <3>4. QED
      BY <3>1, <3>2, <3>3
  <2> HIDE DEF l, saves
  <2>6. proc'[pid] = l /\ plan'[pid] = saves
    BY <1>1, <2>1, <2>2
  <2>7. /\ \A q \in Procs \ {pid} : plan'[q] = plan[q]
        /\ \A q \in Pids \ {pid} : proc'[q] = proc[q]
    BY <1>1, <2>2
  <2>8. proc'[pid].busy # None /\ watch' = watch
    BY <2>2, <2>4, <2>6
  <2>9. QED
    BY <2>5, <2>6, <2>7, <2>8, PlansStep
<1>7. ASSUME NEW pid \in Pids, Kill(pid) PROVE PlansInv'
  <2>1. pid \in Procs /\ \A w \in Watchdogs : pid # w
    BY WatchdogsAreNoPids
  <2>2. /\ plan' = plan \/ plan' = [plan EXCEPT ![pid] = <<>>]
        /\ UNCHANGED watch /\ proc' = [proc EXCEPT ![pid] = None]
    BY <1>7 DEF Kill, Killed, Fails, storeVars
  <2>3. plan'[pid] = plan[pid] \/ plan'[pid] = <<>>
    BY <1>1, <2>1, <2>2
  <2>4. \A other \in Pids : plan'[pid] # <<Save(PidKey, other)>>
    BY <2>3, One DEF PlansInv
  <2>5. /\ \A q \in Procs \ {pid} : plan'[q] = plan[q]
        /\ \A q \in Pids \ {pid} : proc'[q] = proc[q]
        /\ ~Listens(pid)'
    BY <1>1, <2>2 DEF Listens
  <2>6. QED
    BY <2>2, <2>4, <2>5, PlansStep
<1>8. ASSUME NEW pid \in Pids, IntakeDies(pid) PROVE PlansInv'
  <2>1. pid \in Procs /\ \A w \in Watchdogs : pid # w
    BY WatchdogsAreNoPids
  <2>2. /\ plan' = [plan EXCEPT ![pid] = <<>>] /\ UNCHANGED <<proc, watch>>
    BY <1>8 DEF IntakeDies, Killed, Fails
  <2>3. plan'[pid] = <<>> /\ \A q \in Procs \ {pid} : plan'[q] = plan[q]
    BY <1>1, <2>1, <2>2
  <2>4. \A other \in Pids : plan'[pid] # <<Save(PidKey, other)>>
    BY <2>3, One
  <2>5. QED
    BY <2>2, <2>3, <2>4, PlansStep
<1>9. ASSUME NEW pid \in Pids, Quiet(pid) PROVE PlansInv'
  <2>1. UNCHANGED <<plan, watch>>
    BY <1>9, QuietSaves DEF deskVars, storeVars
  <2>2. ASSUME Listens(pid)', proc'[pid].busy = None PROVE plan[pid] = <<>>
    <3>1. CASE PollStart(pid)
      BY <3>1 DEF PollStart, Free
    <3>2. CASE LarkCli(pid)
      <4>1. Listens(pid)
        BY <3>2 DEF LarkCli, Emit, Complain, TimeIsUp, CliFails
      <4>2. proc'[pid].busy = proc[pid].busy
        BY <1>1, <3>2, <4>1, ListenerParts
        DEF LarkCli, Emit, Complain, TimeIsUp, CliFails, Listeners
      <4>3. QED
        BY <2>2, <4>1, <4>2 DEF PlansInv
    <3>3. CASE Skip(pid)
      <4>1. Listens(pid) /\ proc[pid].busy = None
        BY <3>3 DEF Skip, HasLine
      <4>2. QED
        BY <4>1 DEF PlansInv
    <3>4. CASE TakenIn(pid)
      BY <3>4 DEF TakenIn
    <3>5. CASE Summarise(pid) \/ OtherTakes(pid) \/ OtherEnds(pid)
      BY <1>1, <2>2, <3>5 DEF Summarise, OtherTakes, OtherEnds, Listens
    <3>6. QED
      BY <1>9, <3>1, <3>2, <3>3, <3>4, <3>5 DEF Quiet
  <2>3. \A q \in Pids \ {pid} : proc'[q] = proc[q]
    BY <1>1, <1>9
    DEF Quiet, PollStart, LarkCli, Emit, Complain, TimeIsUp, CliFails, Skip, TakenIn,
        Summarise, OtherTakes, OtherEnds
  <2>4. \A other \in Pids : plan'[pid] # <<Save(PidKey, other)>>
    BY <2>1 DEF PlansInv
  <2>5. QED
    BY <2>1, <2>2, <2>3, <2>4, PlansStep
<1>10. ASSUME NEW e \in Events, Redeliver(e) PROVE PlansInv'
  BY <1>10 DEF Redeliver, deskVars, storeVars, PlansInv, SavesPid, Listens
<1>11. QED
  BY <1>2, <1>3, <1>4, <1>5, <1>6, <1>7, <1>8, <1>9, <1>10, Steps

\* What a listener, or its lark-cli, becomes.
LEMMA ListenerChanges ==
  ASSUME RestTyped, NEW pid \in Pids, Listens(pid)
  PROVE  /\ \A cli \in {"runs", "blocked", "ended", "failed"} :
              [proc[pid] EXCEPT !.cli = cli] \in Listeners
         /\ \A e \in Events : [proc[pid] EXCEPT !.out = Append(@, e)] \in Listeners
         /\ \A e \in Events : HasLine(pid) =>
              /\ [proc[pid] EXCEPT !.out = Tail(@), !.took = @ \union {e}] \in Listeners
              /\ [proc[pid] EXCEPT !.out = Tail(@), !.busy = e, !.took = @ \union {e}]
                   \in Listeners
         /\ [proc[pid] EXCEPT !.busy = None, !.bad = @ \/ failed[pid]] \in Listeners
<1> DEFINE l == proc[pid]
<1>1. /\ l \in Listeners /\ l.out \in Seq(Events)
  BY ListenerParts
<1>2. \A e \in Events : Append(l.out, e) \in Seq(Events)
  BY <1>1, AppendProperties
<1>3. HasLine(pid) => Tail(l.out) \in Seq(Events)
  BY LineIsEvent
<1> HIDE DEF l
<1>4. \A cli \in {"runs", "blocked", "ended", "failed"} : [l EXCEPT !.cli = cli] \in Listeners
  BY <1>1 DEF Listeners
<1>5. \A e \in Events : [l EXCEPT !.out = Append(l.out, e)] \in Listeners
  BY <1>1, <1>2 DEF Listeners
<1>6. \A e \in Events : HasLine(pid) =>
        /\ [l EXCEPT !.out = Tail(l.out), !.took = l.took \union {e}] \in Listeners
        /\ [l EXCEPT !.out = Tail(l.out), !.busy = e, !.took = l.took \union {e}] \in Listeners
  BY <1>1, <1>3 DEF Listeners
<1>7. (l.bad \/ failed[pid]) \in BOOLEAN
  OBVIOUS
<1>8. [l EXCEPT !.busy = None, !.bad = l.bad \/ failed[pid]] \in Listeners
  BY <1>1, <1>7 DEF Listeners
<1>9. QED
  BY <1>4, <1>5, <1>6, <1>8 DEF l

LEMMA StepRest ==
  ASSUME TypeInv, Next
  PROVE  RestTyped'
<1> USE DEF TypeInv
<1>1. faults' \in 0..MaxFaults
  <2>1. faults' = faults \/ Fault
    BY DEF Next, Saving, listenerVars, WatchStep, Watch, WatchStart, WatchDies, PollStart,
           LarkCli, Emit, Complain, TimeIsUp, CliFails, ListenerStep, Skip, TakeIn, TakenIn,
           Summarise, IntakeDies, Kill, OtherTakes, OtherEnds, Redeliver
  <2>2. QED
    BY <2>1, FaultsAssumption DEF Fault, RestTyped
<1>2. ASSUME NEW pid \in Pids, NEW l \in Listeners \union {None, Other},
             proc' = [proc EXCEPT ![pid] = l]
      PROVE  proc' \in [Pids -> Listeners \union {None, Other}]
  BY <1>2 DEF RestTyped
<1>3. \A p \in Procs : Saving(p) => RestTyped'
  BY <1>1 DEF Saving, listenerVars, RestTyped
<1>4. ASSUME NEW w \in Watchdogs, Watch(w) PROVE RestTyped'
  BY <1>1, <1>4 DEF Watch, RestTyped
<1>5. ASSUME NEW w \in Watchdogs, WatchDies(w) PROVE RestTyped'
  <2>1. PICK pid \in Pids : plan[w] = <<Save(PidKey, pid)>>
    BY <1>5 DEF WatchDies, PlansInv, SavesPid
  <2>2. Head(plan[w]).content = pid
    BY <2>1, One, SaveParts
  <2>3. QED
    BY <1>1, <1>5, <2>2 DEF WatchDies, RestTyped
<1>6. ASSUME NEW w \in Watchdogs, NEW pid \in Pids, WatchStart(w, pid) PROVE RestTyped'
  <2>1. proc' \in [Pids -> Listeners \union {None, Other}]
    BY <1>2, <1>6, StartedIsListener DEF WatchStart
  <2>2. QED
    BY <1>1, <1>6, <2>1 DEF WatchStart, RestTyped
<1>7. ASSUME NEW pid \in Pids, PollStart(pid) PROVE RestTyped'
  <2>1. proc' \in [Pids -> Listeners \union {None, Other}]
    BY <1>2, <1>7, StartedIsListener DEF PollStart
  <2>2. QED
    BY <1>1, <1>7, <2>1 DEF PollStart, RestTyped
<1>8. ASSUME NEW pid \in Pids, LarkCli(pid) PROVE RestTyped'
  <2>1. Listens(pid)
    BY <1>8 DEF LarkCli, Emit, Complain, TimeIsUp, CliFails
  <2>2. \E l \in Listeners : proc' = [proc EXCEPT ![pid] = l]
    <3>1. \/ \E e \in Events : proc' = [proc EXCEPT ![pid] = [proc[pid] EXCEPT !.out = Append(@, e)]]
          \/ \E cli \in {"blocked", "ended", "failed"} :
               proc' = [proc EXCEPT ![pid] = [proc[pid] EXCEPT !.cli = cli]]
      BY <1>8 DEF LarkCli, Emit, Complain, TimeIsUp, CliFails, RestTyped
    <3>2. QED
      BY <2>1, <3>1, ListenerChanges
  <2>3. proc' \in [Pids -> Listeners \union {None, Other}]
    BY <1>2, <2>2
  <2>4. QED
    BY <1>1, <1>8, <2>3 DEF LarkCli, Emit, Complain, TimeIsUp, CliFails, RestTyped
<1>9. ASSUME NEW pid \in Pids, Skip(pid) PROVE RestTyped'
  <2> DEFINE e == Head(proc[pid].out)
             l == [proc[pid] EXCEPT !.out = Tail(@), !.took = @ \union {e}]
  <2>1. HasLine(pid) /\ Listens(pid) /\ e \in Events
    BY <1>9, LineIsEvent DEF Skip
  <2>2. l \in Listeners
    BY <2>1, ListenerChanges
  <2>3. proc' = [proc EXCEPT ![pid] = l] /\ handled' = handled \union {e}
    BY <1>9 DEF Skip
  <2> HIDE DEF l, e
  <2>4. proc' \in [Pids -> Listeners \union {None, Other}]
    BY <1>2, <2>2, <2>3
  <2>5. QED
    BY <1>1, <1>9, <2>1, <2>3, <2>4 DEF Skip, RestTyped
<1>10. ASSUME NEW pid \in Pids, TakeIn(pid) PROVE RestTyped'
  <2> DEFINE e == Head(proc[pid].out)
             l == [proc[pid] EXCEPT !.out = Tail(@), !.busy = e, !.took = @ \union {e}]
  <2>1. HasLine(pid) /\ Listens(pid) /\ e \in Events
    BY <1>10, LineIsEvent DEF TakeIn
  <2>2. l \in Listeners
    BY <2>1, ListenerChanges
  <2>3. proc' = [proc EXCEPT ![pid] = l]
    BY <1>10 DEF TakeIn
  <2> HIDE DEF l, e
  <2>4. proc' \in [Pids -> Listeners \union {None, Other}]
    BY <1>2, <2>2, <2>3
  <2>5. QED
    BY <1>1, <1>10, <2>4 DEF TakeIn, RestTyped
<1>11. ASSUME NEW pid \in Pids, TakenIn(pid) PROVE RestTyped'
  <2> DEFINE l == [proc[pid] EXCEPT !.busy = None, !.bad = @ \/ failed[pid]]
  <2>1. Listens(pid) /\ proc[pid].busy \in Events
    BY <1>11, ListenerParts DEF TakenIn
  <2>2. l \in Listeners
    BY <2>1, ListenerChanges
  <2>3. proc' = [proc EXCEPT ![pid] = l]
    BY <1>11 DEF TakenIn
  <2> HIDE DEF l
  <2>4. proc' \in [Pids -> Listeners \union {None, Other}]
    BY <1>2, <2>2, <2>3
  <2>5. handled' \subseteq Events /\ dropped' \subseteq Events
    BY <1>11, <2>1 DEF TakenIn, RestTyped
  <2>6. QED
    BY <1>1, <1>11, <2>4, <2>5 DEF TakenIn, RestTyped
<1>12. ASSUME NEW pid \in Pids, Summarise(pid) PROVE RestTyped'
  <2>1. proc' \in [Pids -> Listeners \union {None, Other}]
    BY <1>2, <1>12 DEF Summarise
  <2>2. proc[pid].took \subseteq Events
    BY <1>12, ListenerParts DEF Summarise
  <2>3. QED
    BY <1>1, <1>12, <2>1, <2>2 DEF Summarise, RestTyped
<1>13. ASSUME NEW pid \in Pids, Kill(pid) PROVE RestTyped'
  <2>1. proc' \in [Pids -> Listeners \union {None, Other}]
    BY <1>2, <1>13 DEF Kill
  <2>2. proc[pid].out \in Seq(Events) /\ proc[pid].busy \in Events \union {None}
    BY <1>13, ListenerParts DEF Kill
  <2>3. ToSet(proc[pid].out) \subseteq Events
    BY <2>2, ElementOfSeq, LenProperties DEF ToSet
  <2>4. dropped' \subseteq Events
    BY <1>13, <2>2, <2>3 DEF Kill, RestTyped
  <2>5. QED
    BY <1>1, <1>13, <2>1, <2>4 DEF Kill, RestTyped
<1>14. ASSUME NEW pid \in Pids, OtherTakes(pid) \/ OtherEnds(pid) PROVE RestTyped'
  <2>1. proc' \in [Pids -> Listeners \union {None, Other}]
    BY <1>2, <1>14 DEF OtherTakes, OtherEnds
  <2>2. QED
    BY <1>1, <1>14, <2>1 DEF OtherTakes, OtherEnds, RestTyped
<1>15. ASSUME NEW pid \in Pids, IntakeDies(pid) PROVE RestTyped'
  BY <1>1, <1>15 DEF IntakeDies, RestTyped
<1>16. ASSUME NEW e \in Events, Redeliver(e) PROVE RestTyped'
  BY <1>1, <1>16 DEF Redeliver, RestTyped
<1>17. QED
  BY <1>3, <1>4, <1>5, <1>6, <1>7, <1>8, <1>9, <1>10, <1>11, <1>12, <1>13, <1>14, <1>15,
     <1>16, Steps DEF Quiet

-----------------------------------------------------------------------------
(* One listener.                                                           *)

Writes(w, pid) == plan[w] = <<Save(PidKey, pid)>>

\* What the only watchdog knows of the listeners that are kept: none while it
\* is about to start one; else their pid is in the file, or in its save.
Keeps(w) ==
  /\ watch[w] => Kept = {}
  /\ \A pid \in Kept : Writes(w, pid) \/ (plan[w] = <<>> /\ file[PidKey] = pid)
  /\ opened[w] => file[PidKey] = Truncated

KeptInv == \A w \in Watchdogs : Watchdogs = {w} => Keeps(w)

LEMMA KeptIsOne ==
  ASSUME KeptInv
  PROVE  OneListener
<1> SUFFICES ASSUME Cardinality(Watchdogs) = 1 PROVE Cardinality(Kept) <= 1
  BY DEF OneListener
<1>1. PICK w : Watchdogs = {w}
  BY FS_Singleton, ProcessesAssumption
<1>2. Keeps(w)
  BY <1>1 DEF KeptInv
<1>3. ASSUME NEW a \in Kept, NEW b \in Kept PROVE a = b
  <2>1. CASE Writes(w, a) /\ Writes(w, b)
    BY <2>1, SamePid DEF Writes
  <2>2. CASE file[PidKey] = a /\ file[PidKey] = b
    BY <2>2
  <2>3. QED
    BY <1>2, <2>1, <2>2, One DEF Keeps, Writes
<1>4. Kept = {} \/ \E a : Kept = {a}
  <2>1. ASSUME NEW a \in Kept PROVE Kept = {a}
    BY <1>3, <2>1
  <2>2. QED
    BY <2>1
<1>5. CASE Kept = {}
  BY <1>5, FS_EmptySet
<1>6. ASSUME NEW a, Kept = {a} PROVE Cardinality(Kept) <= 1
  <2>1. Cardinality({a}) = 1
    BY FS_Singleton
  <2>2. QED
    BY <1>6, <2>1
<1>7. QED
  BY <1>4, <1>5, <1>6

\* The watchdog does nothing, and nobody is kept anew.
LEMMA StillKept ==
  ASSUME KeptInv, Kept' \subseteq Kept,
         \A w \in Watchdogs : /\ plan'[w] = plan[w] /\ opened'[w] = opened[w]
                              /\ watch'[w] = watch[w],
         file'[PidKey] = file[PidKey]
  PROVE  KeptInv'
BY DEF KeptInv, Keeps, Writes

\* Most steps of listeners.
LEMMA FewerKept ==
  ASSUME RestTyped, orphans' = orphans, NEW pid \in Pids,
         \A q \in Pids \ {pid} : proc'[q] = proc[q],
         Listens(pid)' => \/ Listens(pid) /\ proc'[pid].by = proc[pid].by
                          \/ proc'[pid].by # "watchdog"
  PROVE  Kept' \subseteq Kept
<1> SUFFICES ASSUME NEW q \in Kept' PROVE q \in Kept
  OBVIOUS
<1>1. q \in Pids /\ Listens(q)' /\ proc'[q].by = "watchdog" /\ q \notin orphans
  BY DEF Kept
<1>2. Listens(q) /\ proc[q].by = "watchdog"
  BY <1>1 DEF Listens
<1>3. QED
  BY <1>1, <1>2 DEF Kept

LEMMA StepKept ==
  ASSUME TypeInv, KeptInv, Next
  PROVE  KeptInv'
<1> USE DEF TypeInv
<1>1. /\ DOMAIN plan = Procs /\ DOMAIN opened = Procs /\ DOMAIN proc = Pids
      /\ DOMAIN watch = Watchdogs /\ PidKey \in DOMAIN file
  BY DEF DeskInv, Desk, RestTyped, FilesTyped
<1>2. ASSUME NEW p \in Procs, Saving(p) PROVE KeptInv'
  <2>1. /\ SaveStep(p) /\ asked' = asked /\ UNCHANGED <<proc, watch, orphans>>
        /\ plan[p] # <<>>
    BY <1>2 DEF Saving, listenerVars, SaveStep, Truncate, Write, SaveRefused
  <2>2. Kept' = Kept
    BY <2>1 DEF Kept, Listens
  <2>3. \A q \in Procs \ {p} : plan'[q] = plan[q] /\ opened'[q] = opened[q]
    BY <1>1, <2>1 DEF SaveStep, Truncate, Write, SaveRefused, Fails
  <2>4. CASE p \in Pids
    <3>1. PlanOK(p, OtherSaves)
      BY DEF DeskInv, Desk
    <3>2. PICK others : others = OtherSaves
      OBVIOUS
    <3>3. ASSUME Head(plan[p]).key = PidKey PROVE FALSE
      <4>1. PICK save \in others : plan[p] = <<save>>
        BY <2>1, <3>1, <3>2, <3>3, OtherPlan, PidKeyDiffers DEF DeskInv, Desk
      <4>2. PICK pid \in Pids : save = Save(PidKey, pid)
        BY <3>2, <4>1 DEF OtherSaves
      <4>3. QED
        BY <2>4, <4>1, <4>2 DEF PlansInv
    <3>4. file'[PidKey] = file[PidKey]
      BY <1>1, <2>1, <3>1, <3>3, SaveOfOneFile
    <3>5. \A w \in Watchdogs : plan'[w] = plan[w] /\ opened'[w] = opened[w]
      BY <2>3, <2>4, WatchdogsAreNoPids
    <3>6. QED
      BY <2>1, <2>2, <3>4, <3>5, StillKept
  <2>5. CASE p \in Watchdogs
    <3> SUFFICES ASSUME Watchdogs = {p} PROVE Keeps(p)'
      BY <2>5 DEF KeptInv
    <3>1. Keeps(p) /\ ~watch'[p]
      BY <2>1, <2>5 DEF KeptInv, PlansInv
    <3>2. PICK pid \in Pids : plan[p] = <<Save(PidKey, pid)>>
      BY <2>1, <2>5 DEF PlansInv, SavesPid
    <3>3. /\ Head(plan[p]).key = PidKey /\ Head(plan[p]).content = pid
          /\ Tail(plan[p]) = <<>> /\ pid # Invalid
      BY <3>2, One, SaveParts, ProcessesAssumption
    <3>4. \A q \in Kept : q = pid /\ Writes(p, q)
      <4> TAKE q \in Kept
      <4>1. Writes(p, q)
        BY <2>1, <3>1 DEF Keeps
      <4>2. QED
        BY <3>2, <4>1, SamePid DEF Writes
    <3>5. CASE Truncate(p)
      <4>1. /\ file' = [file EXCEPT ![PidKey] = Truncated] /\ plan' = plan
        BY <3>3, <3>5 DEF Truncate
      <4>2. file'[PidKey] = Truncated
        BY <1>1, <4>1
      <4>3. \A q \in Kept : Writes(p, q)'
        BY <3>4, <4>1 DEF Writes
      <4>4. QED
        BY <2>2, <3>1, <4>1, <4>2, <4>3 DEF Keeps
    <3>6. CASE Write(p)
      <4>1. opened[p] /\ plan'[p] = <<>> /\ ~opened'[p]
        BY <1>1, <3>3, <3>6 DEF Write
      <4>2. file[PidKey] = Truncated
        BY <3>1, <4>1 DEF Keeps
      <4>3. AfterWrite(Head(plan[p])) = {pid}
        BY <3>3, <4>2 DEF AfterWrite
      <4>4. file'[PidKey] = pid
        BY <1>1, <3>3, <3>6, <4>3 DEF Write
      <4>5. QED
        BY <2>2, <3>1, <3>4, <4>1, <4>4 DEF Keeps
    <3>7. CASE SaveRefused(p)
      BY <3>3, <3>7 DEF SaveRefused
    <3>8. QED
      BY <2>1, <3>5, <3>6, <3>7 DEF SaveStep
  <2>6. QED
    BY <2>4, <2>5 DEF Procs
<1>3. ASSUME NEW w \in Watchdogs, Watch(w) PROVE KeptInv'
  <2> SUFFICES ASSUME Watchdogs = {w} PROVE Keeps(w)'
    BY DEF KeptInv
  <2>1. /\ Keeps(w) /\ plan[w] = <<>> /\ UNCHANGED <<file, plan, opened, proc, orphans>>
        /\ ~(_read_pid # None /\ _pid_alive(_read_pid))
    BY <1>3 DEF Watch, deskVars, storeVars, KeptInv
  <2>2. ASSUME NEW pid \in Kept PROVE FALSE
    <3>1. file[PidKey] = pid /\ pid \in Pids /\ Listens(pid)
      BY <2>1, One DEF Keeps, Kept, Writes
    <3>2. _read_pid = pid
      BY <3>1, ProcessesAssumption DEF _read_pid, Readable
    <3>3. pid # None /\ _pid_alive(pid)
      BY <3>1, ListenerAssumption DEF _pid_alive, Listens
    <3>4. QED
      BY <2>1, <3>2, <3>3
  <2>3. Kept' = {}
    BY <2>1, <2>2 DEF Kept, Listens
  <2>4. QED
    BY <2>1, <2>3 DEF Keeps
<1>4. ASSUME NEW w \in Watchdogs, WatchDies(w) PROVE KeptInv'
  <2> SUFFICES ASSUME Watchdogs = {w} PROVE Keeps(w)'
    BY DEF KeptInv
  <2>1. /\ Keeps(w) /\ plan[w] # <<>> /\ UNCHANGED <<file, proc>>
        /\ orphans' = orphans \union {Head(plan[w]).content}
        /\ w \in Procs /\ plan'[w] = <<>> /\ ~opened'[w]
    BY <1>1, <1>4, WatchdogsAreNoPids DEF WatchDies, Killed, Fails, KeptInv
  <2>2. ASSUME NEW pid \in Kept PROVE pid \in orphans'
    <3>1. plan[w] = <<Save(PidKey, pid)>>
      BY <2>1 DEF Keeps, Writes
    <3>2. QED
      BY <2>1, <3>1, One, SaveParts
  <2>3. Kept' = {}
    BY <2>1, <2>2 DEF Kept, Listens
  <2>4. QED
    BY <2>1, <2>3 DEF Keeps
<1>5. ASSUME NEW w \in Watchdogs, NEW pid \in Pids, WatchStart(w, pid) PROVE KeptInv'
  <2> SUFFICES ASSUME Watchdogs = {w} PROVE Keeps(w)'
    BY DEF KeptInv
  <2>1. /\ Keeps(w) /\ watch[w] /\ ~watch'[w] /\ UNCHANGED <<file, opened>>
        /\ plan'[w] = <<Save(PidKey, pid)>>
        /\ proc' = [proc EXCEPT ![pid] = Started("watchdog")]
        /\ orphans' = orphans \ {pid}
    BY <1>1, <1>5, WatchdogsAreNoPids DEF WatchStart, Saves, KeptInv
  <2>2. ASSUME NEW q \in Kept', q # pid PROVE q \in Kept
    BY <1>1, <2>1, <2>2 DEF Kept, Listens
  <2>3. \A q \in Kept' : q = pid
    BY <2>1, <2>2 DEF Keeps
  <2>4. plan[w] = <<>>
    BY <2>1 DEF PlansInv
  <2>5. ~opened[w]
    BY <1>1, <2>4, WatchdogsAreNoPids DEF DeskInv, Desk, PlanOK
  <2>6. \A q \in Kept' : Writes(w, q)'
    BY <2>1, <2>3 DEF Writes
  <2>7. QED
    BY <2>1, <2>5, <2>6 DEF Keeps
<1>6. ASSUME NEW pid \in Pids, PollStart(pid) PROVE KeptInv'
  <2>1. /\ proc' = [proc EXCEPT ![pid] = Started("poll")] /\ orphans' = orphans
        /\ UNCHANGED <<file, plan, opened, watch>>
    BY <1>6 DEF PollStart, deskVars, storeVars
  <2>2. proc'[pid].by # "watchdog"
    BY <1>1, <2>1, StartedIsListener
  <2>3. Kept' \subseteq Kept
    BY <1>1, <2>1, <2>2, FewerKept
  <2>4. QED
    BY <2>1, <2>3, StillKept
<1>7. ASSUME NEW pid \in Pids, LarkCli(pid) \/ Skip(pid) \/ TakenIn(pid) PROVE KeptInv'
  <2>1. /\ Listens(pid) /\ orphans' = orphans /\ UNCHANGED <<file, plan, opened, watch>>
        /\ \A q \in Pids \ {pid} : proc'[q] = proc[q]
    BY <1>1, <1>7
    DEF LarkCli, Emit, Complain, TimeIsUp, CliFails, Skip, HasLine, TakenIn, deskVars, storeVars
  <2>2. proc'[pid].by = proc[pid].by
    BY <1>1, <1>7, <2>1, ListenerParts
    DEF LarkCli, Emit, Complain, TimeIsUp, CliFails, Skip, TakenIn, Listeners
  <2>3. Kept' \subseteq Kept
    BY <2>1, <2>2, FewerKept
  <2>4. QED
    BY <2>1, <2>3, StillKept
<1>8. ASSUME NEW pid \in Pids, TakeIn(pid) PROVE KeptInv'
  <2> DEFINE saves == IntakeSaves(Head(proc[pid].out).raw, Head(proc[pid].out).source,
                                  _expert_from_prefix(Head(proc[pid].out).prefix))
  <2>1. /\ Listens(pid) /\ orphans' = orphans /\ UNCHANGED <<file, opened, watch>>
        /\ plan' = [plan EXCEPT ![pid] = saves]
        /\ \A q \in Pids \ {pid} : proc'[q] = proc[q]
    BY <1>1, <1>8 DEF TakeIn, HasLine, Ingest, Saves
  <2>2. proc'[pid].by = proc[pid].by
    BY <1>1, <1>8, <2>1, ListenerParts DEF TakeIn, Listeners
  <2>3. Kept' \subseteq Kept
    BY <2>1, <2>2, FewerKept
  <2> HIDE DEF saves
  <2>4. \A w \in Watchdogs : plan'[w] = plan[w]
    BY <1>1, <2>1, WatchdogsAreNoPids
  <2>5. QED
    BY <2>1, <2>3, <2>4, StillKept
<1>9. ASSUME NEW pid \in Pids, Summarise(pid) \/ Kill(pid) PROVE KeptInv'
  <2>1. /\ proc' = [proc EXCEPT ![pid] = None] /\ orphans' = orphans \ {pid}
        /\ UNCHANGED <<file, watch>>
        /\ \/ UNCHANGED <<plan, opened>>
           \/ /\ plan' = [plan EXCEPT ![pid] = <<>>]
              /\ opened' = [opened EXCEPT ![pid] = FALSE]
    BY <1>9 DEF Summarise, Kill, Killed, Fails, deskVars, storeVars
  <2>2. Kept' \subseteq Kept
    BY <1>1, <2>1 DEF Kept, Listens
  <2>3. \A w \in Watchdogs : plan'[w] = plan[w] /\ opened'[w] = opened[w]
    BY <1>1, <2>1, WatchdogsAreNoPids
  <2>4. QED
    BY <2>1, <2>2, <2>3, StillKept
<1>10. ASSUME NEW pid \in Pids, OtherTakes(pid) \/ OtherEnds(pid) PROVE KeptInv'
  <2>1. /\ proc' = [proc EXCEPT ![pid] = None] \/ proc' = [proc EXCEPT ![pid] = Other]
        /\ UNCHANGED <<file, plan, opened, watch>> /\ orphans' = orphans
    BY <1>10 DEF OtherTakes, OtherEnds, deskVars, storeVars
  <2>2. Kept' \subseteq Kept
    BY <1>1, <2>1 DEF Kept, Listens
  <2>3. QED
    BY <2>1, <2>2, StillKept
<1>11. ASSUME NEW pid \in Pids, IntakeDies(pid) PROVE KeptInv'
  <2>1. /\ plan' = [plan EXCEPT ![pid] = <<>>] /\ opened' = [opened EXCEPT ![pid] = FALSE]
        /\ UNCHANGED <<file, proc, watch, orphans>>
    BY <1>11 DEF IntakeDies, Killed, Fails
  <2>2. Kept' = Kept
    BY <2>1 DEF Kept, Listens
  <2>3. \A w \in Watchdogs : plan'[w] = plan[w] /\ opened'[w] = opened[w]
    BY <1>1, <2>1, WatchdogsAreNoPids
  <2>4. QED
    BY <2>1, <2>2, <2>3, StillKept
<1>12. ASSUME NEW e \in Events, Redeliver(e) PROVE KeptInv'
  <2>1. UNCHANGED <<file, plan, opened, watch, proc, orphans>>
    BY <1>12 DEF Redeliver, deskVars, storeVars
  <2>2. Kept' = Kept
    BY <2>1 DEF Kept, Listens
  <2>3. QED
    BY <2>1, <2>2, StillKept
<1>13. QED
  BY <1>2, <1>3, <1>4, <1>5, <1>6, <1>7, <1>8, <1>9, <1>10, <1>11, <1>12, Steps DEF Quiet

-----------------------------------------------------------------------------
(* What ok means.                                                          *)

\* The intake of the event has not failed, and goes on or is done.
Underway(pid, e) ==
  /\ <<e.raw, e.source, _expert_from_prefix(e.prefix)>> \in asked
  /\ Progress(pid, e.raw, e.source, _expert_from_prefix(e.prefix))

\* An event a listener has taken is saved, was reported as failed, or is the
\* one that is taken in now.
Settled(pid, e) ==
  \/ Saved(e) \/ proc[pid].bad
  \/ proc[pid].busy = e /\ (failed[pid] \/ Underway(pid, e))

TakenInv ==
  \A pid \in Pids : Listens(pid) =>
    \A e \in proc[pid].took : _has_loop_prefix(e) => Settled(pid, e)

SavedInv == TakenInv /\ OkMeansSaved

LEMMA SavedStays ==
  ASSUME FilesGrow, DeskInv, NEW e \in Events, Saved(e)
  PROVE  Saved(e)'
<1>1. {AssessmentKey(e.raw, e.source), DemandKey(e.raw), GoalKey(e.raw)} \subseteq DOMAIN file
  BY EventParts DEF DeskInv, FilesTyped, DeskKeys
<1>2. \A key \in {AssessmentKey(e.raw, e.source), DemandKey(e.raw), GoalKey(e.raw)} :
        Exists(key) => Exists(key)'
  BY <1>1 DEF FilesGrow
<1>3. QED
  BY <1>2 DEF Saved

\* While the process does nothing to it, an intake stays underway.
LEMMA UnderwayStays ==
  ASSUME FilesGrow, DeskInv, asked \subseteq asked', NEW pid, plan'[pid] = plan[pid],
         NEW e, Underway(pid, e)
  PROVE  Underway(pid, e)'
<1> DEFINE q == <<e.raw, e.source, _expert_from_prefix(e.prefix)>>
<1>1. q \in asked /\ Progress(pid, q[1], q[2], q[3])
  BY DEF Underway
<1>2. Progress(pid, q[1], q[2], q[3])'
  BY <1>1, ProgressKept DEF DeskInv, Desk
<1>3. QED
  BY <1>1, <1>2 DEF Underway

\* A listener that keeps what it has taken, its intake and its failures.
LEMMA TakenStays ==
  ASSUME FilesGrow, DeskInv, RestTyped, asked \subseteq asked',
         NEW pid \in Pids, Listens(pid),
         NEW e \in proc[pid].took, _has_loop_prefix(e) => Settled(pid, e),
         plan'[pid] = plan[pid], failed[pid] => failed'[pid],
         proc'[pid].bad = proc[pid].bad, proc'[pid].busy = proc[pid].busy
  PROVE  _has_loop_prefix(e) => Settled(pid, e)'
<1>1. e \in Events
  BY ListenerParts
<1>2. Saved(e) => Saved(e)'
  BY <1>1, SavedStays
<1>3. Underway(pid, e) => Underway(pid, e)'
  BY UnderwayStays
<1>4. QED
  BY <1>2, <1>3 DEF Settled

LEMMA VouchedStays ==
  ASSUME FilesGrow, DeskInv, RestTyped, OkMeansSaved, vouched' = vouched
  PROVE  OkMeansSaved'
BY SavedStays DEF OkMeansSaved, RestTyped, _has_loop_prefix

\* An intake that has come to its end has saved what it had to.
LEMMA UnderwayDone ==
  ASSUME NEW pid, NEW e, Underway(pid, e), plan[pid] = <<>>
  PROVE  Saved(e)
<1> DEFINE raw == e.raw  source == e.source  expert == _expert_from_prefix(e.prefix)
<1>1. /\ IntakeSaves(raw, source, expert) # <<>> /\ Promotion(raw) # <<>>
      /\ <<Save(GoalKey(raw), raw)>> # <<>>
  BY SavesOfIntake, Two, One
<1>2. QED
  BY <1>1 DEF Underway, Progress, Saved

\* The step of a save of an intake that is underway.
LEMMA UnderwaySaves ==
  ASSUME DeskInv, FilesGrow, NEW pid \in Pids, NEW e, Underway(pid, e), SaveStep(pid),
         asked' = asked
  PROVE  Underway(pid, e)' \/ failed'[pid]
<1> DEFINE q == <<e.raw, e.source, _expert_from_prefix(e.prefix)>>
<1>1. PICK others : others = OtherSaves
  OBVIOUS
<1>2. /\ q \in asked /\ Progress(pid, q[1], q[2], q[3])
      /\ PlanOK(pid, others) /\ Others(others) /\ DeskFiles
  BY <1>1, SavesAreOther, WatchdogsAreNoPids DEF Underway, DeskInv, Desk
<1>3. Progress(pid, q[1], q[2], q[3])' \/ failed'[pid]
  BY <1>2, ProgressMade
<1>4. QED
  BY <1>2, <1>3 DEF Underway

LEMMA StepSaved ==
  ASSUME TypeInv, SavedInv, Next, FilesGrow
  PROVE  SavedInv'
<1> USE DEF TypeInv
<1>1. /\ DOMAIN plan = Procs /\ DOMAIN failed = Procs /\ DOMAIN proc = Pids
      /\ \A pid \in Pids : failed[pid] \in BOOLEAN
  BY WatchdogsAreNoPids DEF DeskInv, Desk, RestTyped
<1>2. vouched' = vouched => OkMeansSaved'
  BY VouchedStays DEF SavedInv
\* All listeners but one stay as they are.
<1>3. ASSUME NEW pid \in Pids, asked \subseteq asked',
             \A q \in Pids \ {pid} : /\ proc'[q] = proc[q] /\ plan'[q] = plan[q]
                                     /\ failed'[q] = failed[q],
             Listens(pid)' =>
               \A e \in proc'[pid].took : _has_loop_prefix(e) => Settled(pid, e)'
      PROVE  TakenInv'
  <2>1. ASSUME NEW q \in Pids \ {pid}, Listens(q)', NEW e \in proc'[q].took
        PROVE  _has_loop_prefix(e) => Settled(q, e)'
    <3>1. Listens(q) /\ e \in proc[q].took /\ (_has_loop_prefix(e) => Settled(q, e))
      BY <1>3, <2>1 DEF Listens, SavedInv, TakenInv
    <3>2. QED
      BY <1>3, <3>1, TakenStays
  <2>2. QED
    BY <1>3, <2>1 DEF TakenInv
\* No listener changes, and no intake.
<1>4. ASSUME asked \subseteq asked', proc' = proc,
             \A q \in Pids : plan'[q] = plan[q] /\ failed'[q] = failed[q]
      PROVE  TakenInv'
  <2>1. ASSUME NEW q \in Pids, Listens(q)', NEW e \in proc'[q].took
        PROVE  _has_loop_prefix(e) => Settled(q, e)'
    <3>1. Listens(q) /\ e \in proc[q].took /\ (_has_loop_prefix(e) => Settled(q, e))
      BY <1>4, <2>1 DEF Listens, SavedInv, TakenInv
    <3>2. QED
      BY <1>4, <3>1, TakenStays
  <2>2. QED
    BY <2>1 DEF TakenInv
<1>5. ASSUME NEW p \in Procs, Saving(p) PROVE SavedInv'
  <2>1. SaveStep(p) /\ asked' = asked /\ proc' = proc /\ vouched' = vouched
    BY <1>5 DEF Saving, listenerVars
  <2>2. \A q \in Procs \ {p} : plan'[q] = plan[q] /\ failed'[q] = failed[q]
    BY <1>1, <2>1 DEF SaveStep, Truncate, Write, SaveRefused, Fails
  <2>3. CASE p \in Pids
    <3>1. ASSUME Listens(p), NEW e \in proc[p].took, _has_loop_prefix(e)
          PROVE  Settled(p, e)'
      <4>1. Settled(p, e) /\ e \in Events
        BY <2>3, <3>1, ListenerParts DEF SavedInv, TakenInv
      <4>2. Saved(e) => Saved(e)'
        BY <4>1, SavedStays
      <4>3. failed[p] => failed'[p]
        BY <1>1, <2>1 DEF SaveStep, Truncate, Write, SaveRefused, Fails
      <4>4. Underway(p, e) => Underway(p, e)' \/ failed'[p]
        BY <2>1, <2>3, UnderwaySaves
      <4>5. QED
        BY <2>1, <4>1, <4>2, <4>3, <4>4 DEF Settled
    <3>2. \A q \in Pids \ {p} : /\ proc'[q] = proc[q] /\ plan'[q] = plan[q]
                                /\ failed'[q] = failed[q]
      BY <2>1, <2>2, WatchdogsAreNoPids
    <3>3. Listens(p)' => \A e \in proc'[p].took : _has_loop_prefix(e) => Settled(p, e)'
      BY <2>1, <3>1 DEF Listens
    <3>4. TakenInv'
      BY <1>3, <2>1, <2>3, <3>2, <3>3
    <3>5. QED
      BY <1>2, <2>1, <3>4 DEF SavedInv
  <2>4. CASE p \in Watchdogs
    BY <1>2, <1>4, <2>1, <2>2, <2>4, WatchdogsAreNoPids DEF SavedInv
  <2>5. QED
    BY <2>3, <2>4 DEF Procs
<1>6. ASSUME NEW w \in Watchdogs, Watch(w) \/ WatchDies(w) PROVE SavedInv'
  <2>1. /\ asked' = asked /\ proc' = proc /\ vouched' = vouched
        /\ \A q \in Pids : plan'[q] = plan[q] /\ failed'[q] = failed[q]
    BY <1>1, <1>6, WatchdogsAreNoPids DEF Watch, WatchDies, Killed, Fails, deskVars, storeVars
  <2>2. QED
    BY <1>2, <1>4, <2>1 DEF SavedInv
<1>7. ASSUME NEW e \in Events, Redeliver(e) PROVE SavedInv'
  BY <1>2, <1>4, <1>7 DEF Redeliver, deskVars, storeVars, SavedInv
\* A listener starts.
<1>8. ASSUME NEW pid \in Pids, NEW by \in {"watchdog", "poll"},
             proc' = [proc EXCEPT ![pid] = Started(by)], asked' = asked, vouched' = vouched,
             \A q \in Pids : plan'[q] = plan[q] /\ failed'[q] = failed[q]
      PROVE  SavedInv'
  <2>1. proc'[pid].took = {}
    BY <1>1, <1>8, StartedIsListener
  <2>2. TakenInv'
    BY <1>1, <1>3, <1>8, <2>1
  <2>3. QED
    BY <1>2, <1>8, <2>2 DEF SavedInv
<1>9. ASSUME NEW w \in Watchdogs, NEW pid \in Pids, WatchStart(w, pid) PROVE SavedInv'
  <2>1. /\ proc' = [proc EXCEPT ![pid] = Started("watchdog")]
        /\ asked' = asked /\ vouched' = vouched
        /\ \A q \in Pids : plan'[q] = plan[q] /\ failed'[q] = failed[q]
    BY <1>1, <1>9, WatchdogsAreNoPids DEF WatchStart, Saves
  <2>2. QED
    BY <1>8, <2>1
<1>10. ASSUME NEW pid \in Pids, PollStart(pid) PROVE SavedInv'
  BY <1>8, <1>10 DEF PollStart, deskVars, storeVars
\* lark-cli or a line that is skipped.
<1>11. ASSUME NEW pid \in Pids, LarkCli(pid) PROVE SavedInv'
  <2>1. /\ Listens(pid) /\ UNCHANGED <<plan, failed, asked, vouched>>
        /\ \A q \in Pids \ {pid} : proc'[q] = proc[q]
    BY <1>1, <1>11
    DEF LarkCli, Emit, Complain, TimeIsUp, CliFails, deskVars, storeVars
  <2>2. /\ proc'[pid].took = proc[pid].took /\ proc'[pid].bad = proc[pid].bad
        /\ proc'[pid].busy = proc[pid].busy
    BY <1>1, <1>11, <2>1, ListenerParts
    DEF LarkCli, Emit, Complain, TimeIsUp, CliFails, Listeners
  <2>3. \A e \in proc[pid].took : _has_loop_prefix(e) => Settled(pid, e)
    BY <2>1 DEF SavedInv, TakenInv
  <2>4. \A e \in proc[pid].took : _has_loop_prefix(e) => Settled(pid, e)'
    BY <2>1, <2>2, <2>3, TakenStays
  <2>5. TakenInv'
    BY <1>3, <2>1, <2>2, <2>4
  <2>6. QED
    BY <1>2, <2>1, <2>5 DEF SavedInv
<1>12. ASSUME NEW pid \in Pids, Skip(pid) PROVE SavedInv'
  <2>1. /\ Listens(pid) /\ UNCHANGED <<plan, failed, asked, vouched>>
        /\ \A q \in Pids \ {pid} : proc'[q] = proc[q]
    BY <1>1, <1>12 DEF Skip, HasLine, deskVars, storeVars
  <2>2. /\ proc'[pid].took = proc[pid].took \union {Head(proc[pid].out)}
        /\ ~_has_loop_prefix(Head(proc[pid].out))
        /\ proc'[pid].bad = proc[pid].bad /\ proc'[pid].busy = proc[pid].busy
    BY <1>1, <1>12, <2>1, ListenerParts DEF Skip, Listeners
  <2>3. \A e \in proc[pid].took : _has_loop_prefix(e) => Settled(pid, e)
    BY <2>1 DEF SavedInv, TakenInv
  <2>4. \A e \in proc[pid].took : _has_loop_prefix(e) => Settled(pid, e)'
    BY <2>1, <2>2, <2>3, TakenStays
  <2>5. TakenInv'
    BY <1>3, <2>1, <2>2, <2>4
  <2>6. QED
    BY <1>2, <2>1, <2>5 DEF SavedInv
\* An intake begins: what was taken before is saved or was reported.
<1>13. ASSUME NEW pid \in Pids, TakeIn(pid) PROVE SavedInv'
  <2>0. PICK e : e = Head(proc[pid].out)
    OBVIOUS
  <2> DEFINE saves == IntakeSaves(e.raw, e.source, _expert_from_prefix(e.prefix))
  <2>1. /\ HasLine(pid) /\ plan' = [plan EXCEPT ![pid] = saves]
        /\ failed' = [failed EXCEPT ![pid] = FALSE]
        /\ asked' = asked \union {<<e.raw, e.source, _expert_from_prefix(e.prefix)>>}
        /\ vouched' = vouched /\ \A q \in Pids \ {pid} : proc'[q] = proc[q]
    BY <1>1, <1>13, <2>0 DEF TakeIn, Ingest, Saves
  <2>2. Listens(pid) /\ proc[pid].busy = None /\ e \in Events
    BY <2>0, <2>1, LineIsEvent
  <2>3. /\ proc'[pid].took = proc[pid].took \union {e}
        /\ proc'[pid].bad = proc[pid].bad /\ proc'[pid].busy = e
    BY <1>1, <1>13, <2>0, <2>2, ListenerParts DEF TakeIn, Listeners
  <2> HIDE DEF saves
  <2>4. \A q \in Pids \ {pid} : plan'[q] = plan[q] /\ failed'[q] = failed[q]
    BY <1>1, <2>1
  <2>5. ASSUME NEW f \in proc[pid].took, _has_loop_prefix(f) PROVE Settled(pid, f)'
    <3>1. Settled(pid, f) /\ f \in Events /\ f # None
      BY <2>2, <2>5, ListenerParts, EventParts DEF SavedInv, TakenInv
    <3>2. Saved(f) \/ proc[pid].bad
      BY <2>2, <3>1 DEF Settled
    <3>3. QED
      BY <2>3, <3>1, <3>2, SavedStays DEF Settled
  <2>6. Settled(pid, e)'
    <3>1. plan'[pid] = saves
      BY <1>1, <2>1, WatchdogsAreNoPids
    <3>2. Underway(pid, e)'
      BY <2>1, <3>1 DEF Underway, Progress, saves
    <3>3. QED
      BY <2>3, <3>2 DEF Settled
  <2>7. TakenInv'
    BY <1>3, <2>1, <2>3, <2>4, <2>5, <2>6
  <2>8. QED
    BY <1>2, <2>1, <2>7 DEF SavedInv
\* feishu-ingest has ended, and with it all the saves of the event.
<1>14. ASSUME NEW pid \in Pids, TakenIn(pid) PROVE SavedInv'
  <2>1. /\ Listens(pid) /\ plan[pid] = <<>> /\ UNCHANGED <<plan, failed, asked, vouched>>
        /\ \A q \in Pids \ {pid} : proc'[q] = proc[q]
    BY <1>1, <1>14 DEF TakenIn, deskVars, storeVars
  <2>2. proc'[pid] = [proc[pid] EXCEPT !.busy = None, !.bad = @ \/ failed[pid]]
    BY <1>1, <1>14 DEF TakenIn
  <2>3. proc'[pid].took = proc[pid].took /\ proc'[pid].bad = (proc[pid].bad \/ failed[pid])
    <3> DEFINE l == proc[pid]
    <3>1. l \in Listeners /\ proc'[pid] = [l EXCEPT !.busy = None, !.bad = l.bad \/ failed[pid]]
      BY <2>1, <2>2, ListenerParts
    <3> HIDE DEF l
    <3>2. proc'[pid].took = l.took /\ proc'[pid].bad = (l.bad \/ failed[pid])
      BY <3>1 DEF Listeners
    <3>3. QED
      BY <3>2 DEF l
  <2>4. ASSUME NEW e \in proc[pid].took, _has_loop_prefix(e) PROVE Settled(pid, e)'
    <3>1. Settled(pid, e) /\ e \in Events
      BY <2>1, <2>4, ListenerParts DEF SavedInv, TakenInv
    <3>2. Underway(pid, e) => Saved(e)
      BY <2>1, UnderwayDone
    <3>3. Saved(e) => Saved(e)'
      BY <3>1, SavedStays
    <3>4. Saved(e) \/ proc[pid].bad \/ failed[pid]
      BY <3>1, <3>2 DEF Settled
    <3>5. Saved(e)' \/ proc'[pid].bad
      BY <2>3, <3>3, <3>4
    <3>6. QED
      BY <3>5 DEF Settled
  <2>5. TakenInv'
    BY <1>3, <2>1, <2>3, <2>4
  <2>6. QED
    BY <1>2, <2>1, <2>5 DEF SavedInv
\* ok is said of what was read when nothing has failed and nothing goes on.
<1>15. ASSUME NEW pid \in Pids, Summarise(pid) PROVE SavedInv'
  <2>1. /\ Listens(pid) /\ Drained(proc[pid]) /\ UNCHANGED <<file, plan, failed, asked>>
        /\ vouched' = IF SummaryOk(proc[pid]) THEN vouched \union proc[pid].took ELSE vouched
        /\ proc' = [proc EXCEPT ![pid] = None]
    BY <1>15 DEF Summarise, deskVars, storeVars
  <2>2. ASSUME SummaryOk(proc[pid]), NEW e \in proc[pid].took, _has_loop_prefix(e)
        PROVE  Saved(e)
    <3>1. Settled(pid, e) /\ e \in Events /\ e # None
      BY <2>1, <2>2, ListenerParts, EventParts DEF SavedInv, TakenInv
    <3>2. ~proc[pid].bad /\ proc[pid].busy = None
      BY <2>1, <2>2 DEF SummaryOk, Drained
    <3>3. QED
      BY <3>1, <3>2 DEF Settled
  <2>3. \A e : Saved(e)' <=> Saved(e)
    BY <2>1 DEF Saved, Exists
  <2>4. OkMeansSaved'
    BY <2>1, <2>2, <2>3 DEF SavedInv, OkMeansSaved, _has_loop_prefix
  <2>5. ~Listens(pid)' /\ \A q \in Pids \ {pid} : proc'[q] = proc[q]
    BY <1>1, <2>1 DEF Listens
  <2>6. TakenInv'
    BY <1>3, <2>1, <2>5
  <2>7. QED
    BY <2>4, <2>6 DEF SavedInv
\* A listener, or its intake, is taken away.
<1>16. ASSUME NEW pid \in Pids, Kill(pid) \/ OtherTakes(pid) \/ OtherEnds(pid)
       PROVE  SavedInv'
  <2>1. /\ asked' = asked /\ vouched' = vouched
        /\ \/ proc' = [proc EXCEPT ![pid] = None]
           \/ proc' = [proc EXCEPT ![pid] = Other]
        /\ Fails(pid) \/ UNCHANGED storeVars
    BY <1>16 DEF Kill, Killed, OtherTakes, OtherEnds, deskVars
  <2>2. /\ ~Listens(pid)'
        /\ \A q \in Pids \ {pid} : /\ proc'[q] = proc[q] /\ plan'[q] = plan[q]
                                   /\ failed'[q] = failed[q]
    <3>1. \A q \in Pids \ {pid} : plan'[q] = plan[q] /\ failed'[q] = failed[q]
      <4>1. CASE Fails(pid)
        BY <1>1, <4>1 DEF Fails
      <4>2. CASE UNCHANGED storeVars
        BY <4>2 DEF storeVars
      <4>3. QED
        BY <2>1, <4>1, <4>2
    <3>2. ~Listens(pid)' /\ \A q \in Pids \ {pid} : proc'[q] = proc[q]
      BY <1>1, <2>1 DEF Listens
    <3>3. QED
      BY <3>1, <3>2
  <2>3. TakenInv'
    BY <1>3, <2>1, <2>2
  <2>4. QED
    BY <1>2, <2>1, <2>3 DEF SavedInv
<1>17. ASSUME NEW pid \in Pids, IntakeDies(pid) PROVE SavedInv'
  <2>1. /\ Fails(pid) /\ UNCHANGED <<asked, proc, vouched>>
    BY <1>17 DEF IntakeDies, Killed
  <2>2. /\ failed'[pid]
        /\ \A q \in Pids \ {pid} : plan'[q] = plan[q] /\ failed'[q] = failed[q]
    BY <1>1, <2>1, WatchdogsAreNoPids DEF Fails
  <2>3. ASSUME Listens(pid), NEW e \in proc[pid].took, _has_loop_prefix(e)
        PROVE  Settled(pid, e)'
    <3>1. Settled(pid, e) /\ e \in Events
      BY <2>3, ListenerParts DEF SavedInv, TakenInv
    <3>2. Saved(e) => Saved(e)'
      BY <3>1, SavedStays
    <3>3. QED
      BY <2>1, <2>2, <3>1, <3>2 DEF Settled
  <2>4. Listens(pid)' => \A e \in proc'[pid].took : _has_loop_prefix(e) => Settled(pid, e)'
    BY <2>1, <2>3 DEF Listens
  <2>5. TakenInv'
    BY <1>3, <2>1, <2>2, <2>4
  <2>6. QED
    BY <1>2, <2>1, <2>5 DEF SavedInv
<1>18. QED
  BY <1>5, <1>6, <1>7, <1>9, <1>10, <1>11, <1>12, <1>13, <1>14, <1>15, <1>16, <1>17, Steps
  DEF Quiet

-----------------------------------------------------------------------------
(* Goals to come.                                                          *)

LEMMA StepGoal ==
  ASSUME TypeInv, DemandGetsItsGoal, Next, FilesGrow
  PROVE  DemandGetsItsGoal'
<1> SUFFICES ASSUME NEW raw \in Texts
             PROVE  HasGoal(raw)'
  BY GoalsInWords
<1>2. /\ DOMAIN plan = Procs /\ DeskFiles
      /\ \A p \in Procs : PlanOK(p, OtherSaves)
  BY DEF TypeInv, DeskInv, Desk
<1>3. HasGoal(raw)
  BY GoalsInWords
<1>4. ASSUME NEW p \in Procs, Saving(p) PROVE HasGoal(raw)'
  <2>1. SaveStep(p)
    BY <1>4 DEF Saving
  <2>2. QED
    BY <1>2, <1>3, <2>1, SavesAreOther, GoalsComeBySaving
<1>5. CASE UNCHANGED <<file, plan, lost>>
  BY <1>3, <1>5, GoalsStillCome
\* A process that begins to save had nothing to save.
<1>6. ASSUME NEW p \in Procs, plan[p] = <<>>, NEW saves, Saves(p, saves)
      PROVE  HasGoal(raw)'
  <2>1. UNCHANGED <<file, lost>> /\ plan' = [plan EXCEPT ![p] = saves]
    BY <1>6 DEF Saves
  <2>2. \A q \in DOMAIN plan : plan[q] # <<>> => plan'[q] = plan[q]
    BY <1>6, <2>1
  <2>3. QED
    BY <1>3, <1>6, <2>1, <2>2, GoalsStillCome
<1>7. ASSUME NEW w \in Watchdogs, NEW pid \in Pids, WatchStart(w, pid) PROVE HasGoal(raw)'
  BY <1>6, <1>7, WatchdogsAreNoPids DEF WatchStart, TypeInv, PlansInv
<1>8. ASSUME NEW pid \in Pids, TakeIn(pid) PROVE HasGoal(raw)'
  <2>1. HasLine(pid)
    BY <1>8 DEF TakeIn
  <2>2. plan[pid] = <<>> /\ pid \in Procs
    BY <2>1, WatchdogsAreNoPids DEF HasLine, TypeInv, PlansInv
  <2>3. \E saves : Saves(pid, saves)
    BY <1>8 DEF TakeIn, Ingest
  <2>4. QED
    BY <1>6, <2>2, <2>3
<1>9. ASSUME NEW w \in Watchdogs, Watch(w) PROVE HasGoal(raw)'
  BY <1>5, <1>9 DEF Watch, deskVars, storeVars
<1>10. ASSUME NEW pid \in Pids, Quiet(pid) PROVE HasGoal(raw)'
  <2>1. UNCHANGED <<file, plan, lost>>
    BY <1>10, QuietSaves DEF deskVars, storeVars
  <2>2. QED
    BY <1>5, <2>1
<1>11. ASSUME NEW w \in Watchdogs, WatchDies(w) PROVE HasGoal(raw)'
  BY <1>3, <1>11, GoalsAreLost DEF WatchDies
<1>12. ASSUME NEW pid \in Pids, Kill(pid) \/ IntakeDies(pid) PROVE HasGoal(raw)'
  <2>1. CASE Killed(pid)
    BY <1>3, <2>1, GoalsAreLost
  <2>2. CASE UNCHANGED storeVars
    BY <1>5, <2>2 DEF storeVars
  <2>3. QED
    BY <1>12, <2>1, <2>2 DEF Kill, IntakeDies
<1>13. ASSUME NEW e \in Events, Redeliver(e) PROVE HasGoal(raw)'
  BY <1>5, <1>13 DEF Redeliver, deskVars, storeVars
<1>14. QED
  BY <1>4, <1>7, <1>8, <1>9, <1>10, <1>11, <1>12, <1>13, Steps

-----------------------------------------------------------------------------
(* The theorems.                                                           *)

IInv == TypeInv /\ KeptInv /\ SavedInv /\ DemandGetsItsGoal

LEMMA InitIInv == Init => IInv
<1> SUFFICES ASSUME Init PROVE IInv
  OBVIOUS
<1>1. /\ DOMAIN file = DeskKeys \union {PidKey}
      /\ \A key \in DOMAIN file : ~Exists(key) /\ ~Readable(key)
  BY DEF Init, Exists, Readable, Unreadable
<1>2. \A raw \in Texts : /\ \A source \in Sources : AssessmentKey(raw, source) \in DeskKeys
                         /\ DemandKey(raw) \in DeskKeys /\ GoalKey(raw) \in DeskKeys
  BY DEF DeskKeys
<1>3. DeskFiles
  BY <1>1, <1>2 DEF Init, DeskFiles, AssessedAsAsked, InOrder
<1>4. \A p \in Procs : PlanOK(p, OtherSaves)
  BY DEF Init, PlanOK
<1>5. DeskInv
  BY <1>1, <1>3, <1>4 DEF Init, DeskInv, Desk, FilesTyped
<1>6. \A pid \in Pids : ~Listens(pid)
  BY DEF Init, Listens
<1>7. PlansInv
  BY <1>6, WatchdogsAreNoPids, One DEF Init, PlansInv
<1>8. RestTyped
  <2>1. PICK sent : chat = [e \in Events |-> IF e \in sent THEN "waiting" ELSE "unsent"]
    BY DEF Init
  <2>2. chat \in [Events -> {"unsent", "waiting", "given"}]
    BY <2>1
  <2>3. QED
    BY <2>2, FaultsAssumption DEF Init, RestTyped
<1>9. KeptInv
  BY <1>6, WatchdogsAreNoPids DEF Init, KeptInv, Keeps, Kept
<1>10. SavedInv /\ DemandGetsItsGoal
  BY <1>1, <1>2, <1>6 DEF Init, SavedInv, TakenInv, OkMeansSaved, DemandGetsItsGoal
<1>11. QED
  BY <1>5, <1>7, <1>8, <1>9, <1>10 DEF IInv, TypeInv

LEMMA NextIInv == IInv /\ [Next]_vars => IInv'
<1> SUFFICES ASSUME IInv, [Next]_vars PROVE IInv'
  OBVIOUS
<1>1. CASE Next
  BY <1>1, StepDesk, StepPlans, StepRest, StepKept, StepSaved, StepGoal DEF IInv, TypeInv
<1>2. CASE UNCHANGED vars
  <2> USE <1>2 DEF IInv, TypeInv, vars, deskVars, storeVars, listenerVars
  <2>1. DeskInv' /\ FilesGrow
    BY OtherStepsKeepDesk
  <2>2. PlansInv'
    BY DEF PlansInv, SavesPid, Listens
  <2>3. RestTyped'
    BY DEF RestTyped
  <2>4. KeptInv'
    <3>1. Kept' = Kept
      BY DEF Kept, Listens
    <3>2. QED
      BY <3>1, StillKept
  <2>5. TakenInv'
    <3>1. ASSUME NEW q \in Pids, Listens(q), NEW e \in proc[q].took
          PROVE  _has_loop_prefix(e) => Settled(q, e)'
      <4>1. _has_loop_prefix(e) => Settled(q, e)
        BY <3>1 DEF SavedInv, TakenInv
      <4>2. QED
        BY <2>1, <3>1, <4>1, TakenStays
    <3>2. QED
      BY <3>1 DEF TakenInv, Listens
  <2>6. OkMeansSaved'
    BY <2>1, VouchedStays DEF SavedInv
  <2>7. DemandGetsItsGoal'
    BY DEF DemandGetsItsGoal, Exists, Owed, PendingOf
  <2>8. QED
    BY <2>1, <2>2, <2>3, <2>4, <2>5, <2>6, <2>7 DEF SavedInv
<1>3. QED
  BY <1>1, <1>2

LEMMA Inductive == Spec => []IInv
BY InitIInv, NextIInv, PTL DEF Spec

\* Every file that can be read holds a record of its kind, the pid file a pid,
\* whatever truncates and garbles it (write_pid, the store's saves).
THEOREM ListenersAreTyped == Spec => []TypeOK
<1>1. IInv => TypeOK
  BY DEF IInv, TypeInv, DeskInv, FilesTyped, Desk, DeskFiles, RestTyped, TypeOK
<1>2. QED
  BY <1>1, Inductive, PTL

\* A single watchdog has one listener at most that it can still find, whatever
\* is killed, dies or takes over a pid (watchdog main, write_pid).
THEOREM OneListenerIsKept == Spec => []OneListener
<1>1. IInv => OneListener
  BY KeptIsOne DEF IInv
<1>2. QED
  BY <1>1, Inductive, PTL

\* A listener that says ok has everything on disk that it was to save (summary
\* of the listener).
THEOREM OkMeansAllSaved == Spec => []OkMeansSaved
<1>1. IInv => OkMeansSaved
  BY DEF IInv, SavedInv
<1>2. QED
  BY <1>1, Inductive, PTL

\* Every demand has its goal, or a process that will save it, or one that was
\* killed before it could (feishu-ingest).
THEOREM DemandsGetTheirGoal == Spec => []DemandGetsItsGoal
<1>1. IInv => DemandGetsItsGoal
  BY DEF IInv
<1>2. QED
  BY <1>1, Inductive, PTL
=============================================================================
