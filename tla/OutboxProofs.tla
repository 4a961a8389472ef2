---------------------------- MODULE OutboxProofs ----------------------------
(***************************************************************************)
(* Proofs about Outbox for any number of enqueuers, senders, notes and     *)
(* goals, and any number of faults; and, at the end, for one sender.       *)
(***************************************************************************)
EXTENDS Outbox, WellFoundedInduction, SequenceTheorems, FiniteSetTheorems, TLAPS

-----------------------------------------------------------------------------
(* The note a run is at.                                                   *)

LEMMA NonEmptyHasMin ==
  ASSUME NEW S \in SUBSET Nat, S # {}
  PROVE  \E n \in S : \A m \in S : n <= m
<1> DEFINE Less == OpToRel(<, Nat)
<1>1. IsWellFoundedOn(Less, Nat)
  BY NatLessThanWellFounded
<1>2. \A x, y \in Nat : (<<x, y>> \in Less) <=> (x < y)
  BY DEF OpToRel
<1> HIDE DEF Less
<1>3. \E x \in S : \A y \in S : ~ (<<y, x>> \in Less)
  BY <1>1, WFMin
<1>4. PICK n \in S : \A m \in S : ~ (<<m, n>> \in Less)
  BY <1>3
<1>5. ASSUME NEW m \in S PROVE n <= m
  <2>1. m \in Nat /\ n \in Nat
    OBVIOUS
  <2>2. ~ (m < n)
    BY <1>2, <1>4, <2>1
  <2> QED
    BY <2>1, <2>2
<1> QED
  BY <1>5

\* The loop is at a note as long as paths are left.
LEMMA CurrentIsNote ==
  ASSUME NEW s \in Senders, run[s].paths \in SUBSET Notes, run[s].paths # {}
  PROVE  Current(s) \in run[s].paths /\ Current(s) \in Notes
<1>1. run[s].paths \in SUBSET Nat
  BY NotesAssumption DEF Notes
<1>2. \E n \in run[s].paths : \A m \in run[s].paths : n <= m
  BY <1>1, NonEmptyHasMin
<1> QED
  BY <1>2 DEF Current

-----------------------------------------------------------------------------
(* Type correctness.                                                       *)

\* A run that works on a note has it in paths; one that saves a binding has
\* the id of the message it delivered.
HasNote == \A s \in Senders :
             /\ run[s].at \notin {"idle", "loop"} => run[s].paths # {}
             /\ run[s].at \in {"open", "write"} => run[s].message \in Ids

TypeInv == TypeOK /\ HasNote

LEMMA InitType == Init => TypeInv
BY NotesAssumption, TruncatedAssumption
DEF Init, TypeInv, TypeOK, HasNote, Idle, Runs, Steps, Modes, Notes, Messages, Ids

\* A delivery makes the chat longer by one message and keeps the others.
LEMMA ChatGrows ==
  ASSUME TypeInv, NEW s \in Senders, run[s].paths # {}, Deliver(s)
  PROVE  /\ chat' \in Seq(Messages)
         /\ Len(chat') = Len(chat) + 1
         /\ \A i \in 1..Len(chat) : chat'[i] = chat[i]
         /\ chat'[Len(chat) + 1] = [note |-> Current(s), mode |-> run[s].mode,
                                    root |-> run[s].root]
         /\ Ids' = Ids \union {Delivered}
         /\ Delivered \in Ids' /\ Delivered \notin Ids
<1> DEFINE m == [note |-> Current(s), mode |-> run[s].mode, root |-> run[s].root]
<1>1. run[s] \in Runs
  BY DEF TypeInv, TypeOK
<1>2. Current(s) \in Notes
  BY <1>1, CurrentIsNote DEF Runs
<1>3. m \in Messages
  BY <1>1, <1>2 DEF Runs, Messages
<1>4. chat' = Append(chat, m) /\ chat \in Seq(Messages)
  BY DEF Deliver, TypeInv, TypeOK
<1> HIDE DEF m
<1>5. /\ chat' \in Seq(Messages) /\ Len(chat') = Len(chat) + 1
      /\ \A i \in 1..Len(chat) : chat'[i] = chat[i]
      /\ chat'[Len(chat) + 1] = m
  BY <1>3, <1>4
<1>6. Len(chat) \in Nat
  BY <1>4
<1> QED
  BY <1>5, <1>6 DEF m, Ids, Delivered

\* What is left of the type invariant when only a run changes.
LEMMA RunType ==
  ASSUME TypeInv, NEW s \in Senders, NEW r \in Runs,
         run' = [run EXCEPT ![s] = r],
         r.message \in Ids' \union {0}, r.root \in Ids' \union {0},
         r.at \notin {"idle", "loop"} => r.paths # {},
         r.at \in {"open", "write"} => r.message \in Ids',
         Ids \subseteq Ids'
  PROVE  /\ run' \in [Senders -> Runs]
         /\ \A q \in Senders : /\ run'[q].message \in Ids' \union {0}
                               /\ run'[q].root \in Ids' \union {0}
         /\ HasNote'
<1>1. run \in [Senders -> Runs]
  BY DEF TypeInv, TypeOK
<1>2. \A q \in Senders : run'[q] = IF q = s THEN r ELSE run[q]
  BY <1>1
<1>3. \A q \in Senders : run[q].message \in Ids \union {0} /\ run[q].root \in Ids \union {0}
  BY DEF TypeInv, TypeOK
<1>4. \A q \in Senders : /\ run[q].at \notin {"idle", "loop"} => run[q].paths # {}
                         /\ run[q].at \in {"open", "write"} => run[q].message \in Ids
  BY DEF TypeInv, HasNote
<1>5. run' \in [Senders -> Runs]
  BY <1>1
<1>6. ASSUME NEW q \in Senders
      PROVE  /\ run'[q].message \in Ids' \union {0} /\ run'[q].root \in Ids' \union {0}
             /\ run'[q].at \notin {"idle", "loop"} => run'[q].paths # {}
             /\ run'[q].at \in {"open", "write"} => run'[q].message \in Ids'
  <2>1. CASE q = s
    BY <1>2, <2>1
  <2>2. CASE q # s
    <3>1. run'[q] = run[q]
      BY <1>2, <2>2
    <3>2. /\ run[q].message \in Ids' \union {0} /\ run[q].root \in Ids' \union {0}
      BY <1>3
    <3>3. run[q].at \in {"open", "write"} => run[q].message \in Ids'
      BY <1>4
    <3> QED
      BY <1>4, <3>1, <3>2, <3>3
  <2> QED
    BY <2>1, <2>2
<1> QED
  BY <1>5, <1>6 DEF HasNote

LEMMA EnqueueType ==
  ASSUME TypeInv, NEW e \in Enqueuers,
         \/ \E n \in Notes : EnqueueOpen(e, n)
         \/ EnqueueWrite(e)
         \/ CrashEnqueuer(e)
  PROVE  TypeInv'
<1> USE DEF TypeInv, TypeOK, HasNote, Ids, files, history
<1>1. CASE \E n \in Notes : EnqueueOpen(e, n)
  <2>1. PICK n \in Notes : EnqueueOpen(e, n)
    BY <1>1
  <2>2. order' \in Seq(Notes)
    BY <2>1 DEF EnqueueOpen
  <2>3. outbox' \in [Notes -> {"absent", "empty", "whole"}]
        /\ writing' \in [Enqueuers -> Notes \union {None}]
    BY <2>1 DEF EnqueueOpen
  <2> QED
    BY <2>1, <2>2, <2>3 DEF EnqueueOpen
<1>2. CASE EnqueueWrite(e)
  <2>1. writing[e] \in Notes
    BY <1>2 DEF EnqueueWrite
  <2>2. outbox' \in [Notes -> {"absent", "empty", "whole"}]
        /\ writing' \in [Enqueuers -> Notes \union {None}]
        /\ moved' \subseteq Enqueuers
    BY <1>2, <2>1 DEF EnqueueWrite
  <2> QED
    BY <1>2, <2>2 DEF EnqueueWrite
<1>3. CASE CrashEnqueuer(e)
  <2>1. writing' \in [Enqueuers -> Notes \union {None}]
        /\ moved' \subseteq Enqueuers /\ faults' \in Nat
    BY <1>3 DEF CrashEnqueuer, Fault
  <2> QED
    BY <1>3, <2>1 DEF CrashEnqueuer
<1> QED
  BY <1>1, <1>2, <1>3

\* The steps of a sender that change no file and not the chat.
LEMMA QuietType ==
  ASSUME TypeInv, NEW s \in Senders,
         \/ \E dry \in BOOLEAN, limit \in Limits : SendBegin(s, dry, limit)
         \/ SendEnd(s) \/ SendRead(s) \/ SendBind(s)
  PROVE  TypeInv'
<1> DEFINE own == run[s]
<1>1. /\ own \in Runs /\ run \in [Senders -> Runs]
      /\ own.message \in Ids \union {0} /\ own.root \in Ids \union {0}
  BY DEF TypeInv, TypeOK
<1>2. Ids' = Ids
  BY DEF SendBegin, SendEnd, SendRead, SendBind, Ids
<1>3. ASSUME NEW r \in Runs, run' = [run EXCEPT ![s] = r],
             r.message \in Ids \union {0}, r.root \in Ids \union {0},
             r.at \notin {"idle", "loop"} => r.paths # {},
             r.at \in {"open", "write"} => r.message \in Ids'
      PROVE  TypeInv'
  <2>1. /\ run' \in [Senders -> Runs]
        /\ \A q \in Senders : /\ run'[q].message \in Ids' \union {0}
                              /\ run'[q].root \in Ids' \union {0}
        /\ HasNote'
    BY <1>2, <1>3, RunType
  <2> QED
    BY <2>1, <1>2
    DEF TypeInv, TypeOK, SendBegin, SendEnd, SendRead, SendBind, files, history
<1>4. CASE Stop(s)
  <2>1. Idle \in Runs
    BY DEF Idle, Runs, Steps, Modes
  <2> QED
    BY <1>3, <1>4, <2>1 DEF Stop, Idle
<1>5. CASE \E dry \in BOOLEAN, limit \in Limits : SendBegin(s, dry, limit)
  <2>1. PICK dry \in BOOLEAN, limit \in Limits : SendBegin(s, dry, limit)
    BY <1>5
  <2> DEFINE r == [Idle EXCEPT !.at = "loop", !.dry = dry,
                               !.paths = FirstOf(Listed, limit)]
  <2>2. FirstOf(Listed, limit) \subseteq Notes
    BY DEF FirstOf, Listed
  <2>3. r \in Runs /\ r.message = 0 /\ r.root = 0 /\ r.at = "loop"
    BY <2>2 DEF Idle, Runs, Steps, Modes
  <2>4. run' = [run EXCEPT ![s] = r]
    BY <2>1 DEF SendBegin
  <2> HIDE DEF r
  <2> QED
    BY <1>3, <2>3, <2>4
<1>6. CASE SendEnd(s)
  BY <1>4, <1>6 DEF SendEnd
<1>7. CASE SendRead(s)
  <2> DEFINE direct == [own EXCEPT !.at = "call", !.mode = "direct"]
             bind == [own EXCEPT !.at = "bind"]
  <2>1. /\ direct \in Runs /\ direct.message = own.message
        /\ direct.root = own.root /\ direct.paths = own.paths
        /\ bind \in Runs /\ bind.message = own.message
        /\ bind.root = own.root /\ bind.paths = own.paths
        /\ direct.at = "call" /\ bind.at = "bind"
    BY <1>1 DEF Runs, Steps, Modes
  <2>2. \/ Stop(s) \/ run' = [run EXCEPT ![s] = direct]
        \/ run' = [run EXCEPT ![s] = bind]
    BY <1>1, <1>7 DEF SendRead
  <2>3. own.paths # {}
    BY <1>7 DEF SendRead
  <2> HIDE DEF direct, bind
  <2> QED
    BY <1>1, <1>3, <1>4, <2>1, <2>2, <2>3
<1>8. CASE SendBind(s)
  <2>1. own.paths # {} /\ Goal(s) \in Goals
    <3>1. own.paths # {}
      BY <1>8 DEF SendBind, At, TypeInv, HasNote
    <3>2. Current(s) \in Notes
      BY <1>1, <3>1, CurrentIsNote DEF Runs
    <3> QED
      BY <3>1, <3>2, NotesAssumption DEF Goal
  <2> DEFINE reply == [own EXCEPT !.at = "call", !.mode = "thread_reply",
                                  !.root = binding[Goal(s)]]
             root == [own EXCEPT !.at = "call", !.mode = "topic_root"]
             refused == [own EXCEPT !.at = "move"]
  <2>2. binding[Goal(s)] \in Ids \union {None, Truncated}
    BY <2>1 DEF TypeInv, TypeOK
  <2>3. ASSUME binding[Goal(s)] \in Ids
        PROVE  reply \in Runs /\ reply.root \in Ids /\ reply.at = "call"
               /\ reply.message = own.message /\ reply.paths = own.paths
    <3>1. binding[Goal(s)] \in Nat
      BY <2>3 DEF Ids
    <3> QED
      BY <1>1, <2>3, <3>1 DEF Runs, Steps, Modes
  <2>4. /\ root \in Runs /\ root.message = own.message
        /\ root.root = own.root /\ root.paths = own.paths
        /\ refused \in Runs /\ refused.message = own.message
        /\ refused.root = own.root /\ refused.paths = own.paths
        /\ root.at = "call" /\ refused.at = "move"
    BY <1>1 DEF Runs, Steps, Modes
  <2>5. \/ Stop(s)
        \/ binding[Goal(s)] \in Ids /\ run' = [run EXCEPT ![s] = reply]
        \/ run' = [run EXCEPT ![s] = root]
        \/ run' = [run EXCEPT ![s] = refused]
    BY <1>1, <1>8, <2>2 DEF SendBind
  <2> HIDE DEF reply, root, refused
  <2> QED
    BY <1>1, <1>3, <1>4, <2>1, <2>3, <2>4, <2>5
<1> QED
  BY <1>5, <1>6, <1>7, <1>8

\* The steps of a sender that call lark-cli.
LEMMA CallType ==
  ASSUME TypeInv, NEW s \in Senders, Call(s)
  PROVE  TypeInv'
<1> DEFINE own == run[s]
           moving == [own EXCEPT !.at = "move"]
           dried == [own EXCEPT !.at = "move", !.ok = TRUE]
           told == [own EXCEPT !.at = "move", !.message = Delivered]
           done(step, ok) == [own EXCEPT !.at = step, !.message = Delivered, !.ok = ok]
<1>1. /\ own \in Runs /\ run \in [Senders -> Runs]
      /\ own.message \in Ids \union {0} /\ own.root \in Ids \union {0}
      /\ own.paths # {} /\ Len(chat) \in Nat
  <2>1. own.at = "call"
    BY DEF Call, CallSucceeds, CallHidesId, CallFails, CallTimesOut, At
  <2>2. own.paths # {}
    BY <2>1 DEF TypeInv, HasNote
  <2> QED
    BY <2>2 DEF TypeInv, TypeOK
<1>2. /\ chat' \in Seq(Messages)
      /\ Ids' = Ids \union {Delivered} \/ Ids' = Ids
  <2>1. Deliver(s) \/ UNCHANGED chat
    BY DEF Call, CallSucceeds, CallHidesId, CallFails, CallTimesOut,
           DeliveredUnknown
  <2>2. CASE Deliver(s)
    BY <1>1, <2>2, ChatGrows
  <2>3. CASE UNCHANGED chat
    BY <2>3 DEF Ids, TypeInv, TypeOK
  <2> QED
    BY <2>1, <2>2, <2>3
<1>3. Ids \subseteq Ids' /\ Delivered \in Nat
  BY <1>1, <1>2 DEF Delivered
<1>4. unbound' \subseteq Ids' /\ unmoved' \subseteq Ids' /\ faults' \in Nat
  <2>1. unbound \subseteq Ids /\ unmoved \subseteq Ids /\ faults \in Nat
    BY DEF TypeInv, TypeOK
  <2>2. CASE CallSucceeds(s)
    BY <1>3, <2>1, <2>2 DEF CallSucceeds, history
  <2>3. CASE CallHidesId(s)
    <3>1. Delivered \in Ids'
      BY <1>1, <2>3, ChatGrows DEF CallHidesId
    <3> QED
      BY <1>3, <2>1, <2>3, <3>1 DEF CallHidesId, Fault
  <2>4. CASE CallFails(s)
    <3>1. CASE DeliveredUnknown(s)
      <4>1. Delivered \in Ids'
        BY <1>1, <3>1, ChatGrows DEF DeliveredUnknown
      <4> QED
        BY <1>3, <2>1, <2>4, <3>1, <4>1 DEF CallFails, DeliveredUnknown, Fault
    <3>2. CASE UNCHANGED <<chat, unbound>>
      BY <1>3, <2>1, <2>4, <3>2 DEF CallFails, Fault
    <3> QED
      BY <2>4, <3>1, <3>2 DEF CallFails
  <2>5. CASE CallTimesOut(s)
    <3>1. CASE DeliveredUnknown(s) /\ unmoved' = unmoved \union {Delivered}
      <4>1. Delivered \in Ids'
        BY <1>1, <3>1, ChatGrows DEF DeliveredUnknown
      <4> QED
        BY <1>3, <2>1, <2>5, <3>1, <4>1 DEF CallTimesOut, DeliveredUnknown, Fault
    <3>2. CASE UNCHANGED <<chat, unbound, unmoved>>
      BY <1>3, <2>1, <2>5, <3>2 DEF CallTimesOut, Fault
    <3> QED
      BY <2>5, <3>1, <3>2 DEF CallTimesOut
  <2> QED
    BY <2>2, <2>3, <2>4, <2>5 DEF Call
<1>5. ASSUME NEW r \in Runs, run' = [run EXCEPT ![s] = r],
             r.message \in Ids' \union {0}, r.root \in Ids' \union {0},
             r.at \notin {"idle", "loop"} => r.paths # {},
             r.at \in {"open", "write"} => r.message \in Ids'
      PROVE  TypeInv'
  <2>1. /\ run' \in [Senders -> Runs]
        /\ \A q \in Senders : /\ run'[q].message \in Ids' \union {0}
                              /\ run'[q].root \in Ids' \union {0}
        /\ HasNote'
    BY <1>3, <1>5, RunType
  <2>2. UNCHANGED <<files, writing, moved, order>>
    BY DEF Call, CallSucceeds, CallHidesId, CallFails, CallTimesOut, history
  <2> QED
    BY <1>2, <1>3, <1>4, <2>1, <2>2 DEF TypeInv, TypeOK, files
<1>6. /\ moving \in Runs /\ moving.message = own.message
      /\ moving.root = own.root /\ moving.paths = own.paths
      /\ dried \in Runs /\ dried.message = own.message
      /\ dried.root = own.root /\ dried.paths = own.paths
      /\ told \in Runs /\ told.message = Delivered
      /\ told.root = own.root /\ told.paths = own.paths
      /\ moving.at = "move" /\ dried.at = "move" /\ told.at = "move"
  BY <1>1, <1>3 DEF Runs, Steps, Modes
<1>7. \A step \in {"open", "move"}, ok \in BOOLEAN :
        /\ done(step, ok) \in Runs /\ done(step, ok).message = Delivered
        /\ done(step, ok).root = own.root /\ done(step, ok).paths = own.paths
  BY <1>1, <1>3 DEF Runs, Steps, Modes
<1>8. \/ Stop(s)
      \/ run' = [run EXCEPT ![s] = moving]
      \/ run' = [run EXCEPT ![s] = dried]
      \/ Deliver(s) /\ run' = [run EXCEPT ![s] = told]
      \/ /\ Deliver(s)
         /\ \E step \in {"open", "move"}, ok \in BOOLEAN :
              run' = [run EXCEPT ![s] = done(step, ok)]
  <2>1. CASE CallSucceeds(s)
    <3>1. CASE own.dry
      BY <1>1, <2>1, <3>1 DEF CallSucceeds
    <3>2. CASE ~own.dry
      <4> DEFINE step == IF IsRoot(s) THEN "open" ELSE "move"
      <4>1. run' = [run EXCEPT ![s] = done(step, TRUE)] /\ Deliver(s)
        BY <1>1, <2>1, <3>2 DEF CallSucceeds
      <4>2. step \in {"open", "move"}
        OBVIOUS
      <4> HIDE DEF step, done
      <4> QED
        BY <4>1, <4>2
    <3> QED
      BY <3>1, <3>2
  <2>2. CASE CallHidesId(s)
    <3>1. run' = [run EXCEPT ![s] = done("move", FALSE)] /\ Deliver(s)
      BY <1>1, <2>2 DEF CallHidesId
    <3> HIDE DEF done
    <3> QED
      BY <3>1
  <2>3. CASE CallFails(s)
    BY <1>1, <2>3 DEF CallFails, DeliveredUnknown
  <2>4. CASE CallTimesOut(s)
    BY <2>4 DEF CallTimesOut
  <2> QED
    BY <2>1, <2>2, <2>3, <2>4 DEF Call
<1>9. Deliver(s) => Delivered \in Ids'
  BY <1>1, ChatGrows
<1>10. Idle \in Runs /\ Idle.message = 0 /\ Idle.root = 0 /\ Idle.at = "idle"
  BY DEF Idle, Runs, Steps, Modes
<1> HIDE DEF moving, dried, told, done
<1>11. CASE Stop(s)
  BY <1>5, <1>10, <1>11 DEF Stop
<1>12. CASE run' = [run EXCEPT ![s] = moving] \/ run' = [run EXCEPT ![s] = dried]
  BY <1>1, <1>3, <1>5, <1>6, <1>12
<1>13. CASE Deliver(s) /\ run' = [run EXCEPT ![s] = told]
  BY <1>1, <1>3, <1>5, <1>6, <1>9, <1>13
<1>14. CASE /\ Deliver(s)
            /\ \E step \in {"open", "move"}, ok \in BOOLEAN :
                 run' = [run EXCEPT ![s] = done(step, ok)]
  BY <1>1, <1>3, <1>5, <1>7, <1>9, <1>14
<1> QED
  BY <1>8, <1>11, <1>12, <1>13, <1>14

\* The steps of a sender that change files, and its end.
LEMMA FilesType ==
  ASSUME TypeInv, NEW s \in Senders,
         BindOpen(s) \/ BindWrite(s) \/ SendMove(s) \/ CrashSender(s)
  PROVE  TypeInv'
<1> DEFINE own == run[s]
           at(step) == [own EXCEPT !.at = step]
           next == [Idle EXCEPT !.at = "loop", !.dry = own.dry,
                                !.paths = own.paths \ {Current(s)}]
<1>1. /\ own \in Runs /\ run \in [Senders -> Runs]
      /\ own.message \in Ids \union {0} /\ own.root \in Ids \union {0}
  BY DEF TypeInv, TypeOK
<1>2. Ids' = Ids
  BY DEF BindOpen, BindWrite, SendMove, CrashSender, Ids
<1>3. ASSUME NEW r \in Runs, run' = [run EXCEPT ![s] = r],
             r.message \in Ids \union {0}, r.root \in Ids \union {0},
             r.at \notin {"idle", "loop"} => r.paths # {},
             r.at \in {"open", "write"} => r.message \in Ids
      PROVE  /\ run' \in [Senders -> Runs]
             /\ \A q \in Senders : /\ run'[q].message \in Ids' \union {0}
                                   /\ run'[q].root \in Ids' \union {0}
             /\ HasNote'
  BY <1>2, <1>3, RunType
<1>4. \A step \in {"write", "move"} :
        /\ at(step) \in Runs /\ at(step).message = own.message
        /\ at(step).root = own.root /\ at(step).paths = own.paths
        /\ at(step).at = step
  BY <1>1 DEF Runs, Steps, Modes
<1>5. Idle \in Runs /\ Idle.message = 0 /\ Idle.root = 0 /\ Idle.at = "idle"
  BY DEF Idle, Runs, Steps, Modes
<1>6. next \in Runs /\ next.message = 0 /\ next.root = 0 /\ next.at = "loop"
  BY <1>1 DEF Idle, Runs, Steps, Modes
<1>7. own.at \in {"open", "write", "move"} =>
        own.paths # {} /\ Current(s) \in Notes /\ Goal(s) \in Goals
  <2> SUFFICES ASSUME own.at \in {"open", "write", "move"}
               PROVE  own.paths # {} /\ Current(s) \in Notes /\ Goal(s) \in Goals
    OBVIOUS
  <2>1. own.paths # {}
    BY DEF TypeInv, HasNote
  <2>2. Current(s) \in Notes
    BY <1>1, <2>1, CurrentIsNote DEF Runs
  <2> QED
    BY <2>1, <2>2, NotesAssumption DEF Goal
<1>8. own.at \in {"open", "write"} => own.message \in Ids
  BY DEF TypeInv, HasNote
<1> HIDE DEF at, next
<1>9. CASE BindOpen(s)
  <2>1. own.at = "open" /\ run' = [run EXCEPT ![s] = at("write")]
    BY <1>1, <1>9 DEF BindOpen, At, at
  <2>2. binding' \in [Goals -> Ids' \union {None, Truncated}]
    BY <1>2, <1>9 DEF BindOpen, TypeInv, TypeOK
  <2> QED
    BY <1>1, <1>2, <1>3, <1>4, <1>7, <1>8, <1>9, <2>1, <2>2
    DEF BindOpen, TypeInv, TypeOK, history
<1>10. CASE BindWrite(s)
  <2>1. own.at = "write" /\ run' = [run EXCEPT ![s] = at("move")]
    BY <1>1, <1>10 DEF BindWrite, At, at
  <2>2. binding' \in [Goals -> Ids' \union {None, Truncated}]
    BY <1>2, <1>8, <1>10, <2>1 DEF BindWrite, TypeInv, TypeOK
  <2> QED
    BY <1>1, <1>2, <1>3, <1>4, <1>7, <1>8, <1>10, <2>1, <2>2
    DEF BindWrite, TypeInv, TypeOK, history
<1>11. CASE SendMove(s)
  <2>1. Current(s) \in Notes
    BY <1>7, <1>11 DEF SendMove, At
  <2>2. /\ outbox' \in [Notes -> {"absent", "empty", "whole"}]
        /\ sent' \subseteq Notes /\ failed' \subseteq Notes
        /\ moved' \subseteq Enqueuers
    BY <1>11, <2>1 DEF SendMove, TypeInv, TypeOK
  <2>3. run' = [run EXCEPT ![s] = Idle] \/ run' = [run EXCEPT ![s] = next]
    BY <1>11 DEF SendMove, Stop, Continue, next
  <2>4. /\ run' \in [Senders -> Runs]
        /\ \A q \in Senders : /\ run'[q].message \in Ids' \union {0}
                              /\ run'[q].root \in Ids' \union {0}
        /\ HasNote'
    BY <1>3, <1>5, <1>6, <2>3
  <2> QED
    BY <1>2, <1>11, <2>2, <2>4 DEF SendMove, TypeInv, TypeOK, history
<1>12. CASE CrashSender(s)
  <2>1. unbound' \subseteq Ids /\ unmoved' \subseteq Ids /\ faults' \in Nat
    BY <1>1, <1>8, <1>12 DEF CrashSender, Fault, TypeInv, TypeOK
  <2>2. /\ run' \in [Senders -> Runs]
        /\ \A q \in Senders : /\ run'[q].message \in Ids' \union {0}
                              /\ run'[q].root \in Ids' \union {0}
        /\ HasNote'
    BY <1>3, <1>5, <1>12 DEF CrashSender, Stop
  <2> QED
    BY <1>2, <1>12, <2>1, <2>2 DEF CrashSender, TypeInv, TypeOK, files
<1> QED
  BY <1>9, <1>10, <1>11, <1>12

LEMMA StepType == TypeInv /\ [Next]_vars => TypeInv'
<1> SUFFICES ASSUME TypeInv, [Next]_vars
             PROVE  TypeInv'
  OBVIOUS
<1>1. CASE UNCHANGED vars
  BY <1>1 DEF vars, files, history, TypeInv, TypeOK, HasNote, Ids
<1>2. ASSUME NEW e \in Enqueuers,
             \/ \E n \in Notes : EnqueueOpen(e, n)
             \/ EnqueueWrite(e)
             \/ CrashEnqueuer(e)
      PROVE  TypeInv'
  BY <1>2, EnqueueType
<1>3. ASSUME NEW s \in Senders,
             \/ \E dry \in BOOLEAN, limit \in Limits : SendBegin(s, dry, limit)
             \/ SendStep(s)
             \/ CrashSender(s)
      PROVE  TypeInv'
  BY <1>3, QuietType, CallType, FilesType DEF SendStep
<1> QED
  BY <1>1, <1>2, <1>3 DEF Next

\* The types of the variables hold, and every message id a process or a
\* binding has is that of a message in the chat.
THEOREM TypeCorrect == Spec => []TypeOK
<1>1. TypeInv => TypeOK
  BY DEF TypeInv
<1> QED
  BY <1>1, InitType, StepType, PTL DEF Spec

-----------------------------------------------------------------------------
(* What is sent was delivered, and replies are in their goal's thread.     *)

\* What the locals of a run say of the chat.
Sound(s) ==
  /\ run[s].at \in {"loop", "bind", "call"} => ~run[s].ok
  /\ \/ run[s].at \in {"open", "write"}
     \/ run[s].at = "move" /\ run[s].ok /\ ~run[s].dry
     => Deliveries(Current(s)) # {}
  /\ run[s].at = "call" /\ run[s].mode = "thread_reply"
     => run[s].root \in Roots(Goal(s))
  /\ run[s].at \in {"open", "write"} => run[s].message \in Roots(Goal(s))

BindingsAreRoots == \A g \in Goals : binding[g] \in Ids => binding[g] \in Roots(g)

ChatInv ==
  /\ \A s \in Senders : Sound(s)
  /\ BindingsAreRoots
  /\ SentWasDelivered
  /\ RepliesFollowTheirRoot

LEMMA InitChat == Init => ChatInv
<1> SUFFICES ASSUME Init PROVE ChatInv
  OBVIOUS
<1>1. \A s \in Senders : Sound(s)
  BY DEF Init, Idle, Sound
<1>2. Ids = {}
  BY DEF Init, Ids
<1>3. BindingsAreRoots /\ SentWasDelivered /\ RepliesFollowTheirRoot
  BY <1>2 DEF Init, BindingsAreRoots, SentWasDelivered, RepliesFollowTheirRoot, Replies
<1> QED
  BY <1>1, <1>3 DEF ChatInv

\* Messages stay in the chat.
ChatKept == Ids \subseteq Ids' /\ \A i \in Ids : chat'[i] = chat[i]

LEMMA SameChatIsKept == ASSUME UNCHANGED chat PROVE ChatKept
BY DEF ChatKept, Ids

LEMMA DeliverKeepsChat ==
  ASSUME TypeInv, NEW s \in Senders, run[s].paths # {}, Deliver(s)
  PROVE  ChatKept
BY ChatGrows DEF ChatKept, Ids

\* A run that did not move stays sound.
LEMMA OthersSound ==
  ASSUME ChatKept, NEW q \in Senders, Sound(q), run'[q] = run[q]
  PROVE  Sound(q)'
<1>1. Current(q)' = Current(q) /\ Goal(q)' = Goal(q)
  BY DEF Current, Goal
<1>2. ASSUME Deliveries(Current(q)) # {}
      PROVE  Deliveries(Current(q))' # {}
  <2>1. PICK i \in Ids : chat[i].note = Current(q)
    BY <1>2 DEF Deliveries
  <2>2. i \in Ids' /\ chat'[i].note = Current(q)'
    BY <1>1, <2>1 DEF ChatKept
  <2> QED
    BY <2>2 DEF Deliveries
<1>3. ASSUME NEW i, i \in Roots(Goal(q))
      PROVE  i \in Roots(Goal(q))'
  <2>1. i \in Ids /\ chat[i].mode = "topic_root" /\ GoalOf[chat[i].note] = Goal(q)
    BY <1>3 DEF Roots
  <2>2. i \in Ids' /\ chat'[i].mode = "topic_root" /\ GoalOf[chat'[i].note] = Goal(q)'
    BY <1>1, <2>1 DEF ChatKept
  <2> QED
    BY <2>2 DEF Roots
<1> QED
  BY <1>2, <1>3 DEF Sound

\* The parts that are not about runs, when only the chat may change.
LEMMA FilesSound ==
  ASSUME TypeInv, ChatInv, ChatKept, UNCHANGED <<binding, sent>>
  PROVE  BindingsAreRoots' /\ SentWasDelivered'
<1>1. ASSUME NEW g \in Goals, binding'[g] \in Ids'
      PROVE  binding'[g] \in Roots(g)'
  <2>1. binding[g] \in Ids \union {None, Truncated}
    BY DEF TypeInv, TypeOK
  <2>2. binding[g] \in Nat
    BY <1>1 DEF Ids
  <2>3. binding[g] \in Ids
    BY <2>1, <2>2, LimitsAssumption, TruncatedAssumption
  <2>4. binding[g] \in Roots(g)
    BY <2>3 DEF ChatInv, BindingsAreRoots
  <2> QED
    BY <2>3, <2>4 DEF ChatKept, Roots
<1>2. ASSUME NEW n \in sent'
      PROVE  Deliveries(n)' # {}
  <2>1. PICK i \in Ids : chat[i].note = n
    BY <1>2 DEF ChatInv, SentWasDelivered, Deliveries
  <2>2. i \in Ids' /\ chat'[i].note = n
    BY <2>1 DEF ChatKept
  <2> QED
    BY <2>2 DEF Deliveries
<1> QED
  BY <1>1, <1>2 DEF BindingsAreRoots, SentWasDelivered

LEMMA SameChatReplies ==
  ASSUME RepliesFollowTheirRoot, UNCHANGED chat
  PROVE  RepliesFollowTheirRoot'
BY DEF RepliesFollowTheirRoot, Replies, Roots, Ids

LEMMA EnqueueChat ==
  ASSUME TypeInv, ChatInv, NEW e \in Enqueuers,
         \/ \E n \in Notes : EnqueueOpen(e, n)
         \/ EnqueueWrite(e)
         \/ CrashEnqueuer(e)
  PROVE  ChatInv'
<1>1. UNCHANGED <<chat, binding, sent, run>>
  BY DEF EnqueueOpen, EnqueueWrite, CrashEnqueuer, files
<1>2. ChatKept
  BY <1>1, SameChatIsKept
<1>3. \A q \in Senders : Sound(q)'
  BY <1>1, <1>2, OthersSound DEF ChatInv
<1> QED
  BY <1>1, <1>2, <1>3, FilesSound, SameChatReplies DEF ChatInv

LEMMA QuietChat ==
  ASSUME TypeInv, ChatInv, NEW s \in Senders,
         \/ \E dry \in BOOLEAN, limit \in Limits : SendBegin(s, dry, limit)
         \/ SendEnd(s) \/ SendRead(s) \/ SendBind(s)
  PROVE  ChatInv'
<1>1. UNCHANGED <<chat, binding, sent>>
  BY DEF SendBegin, SendEnd, SendRead, SendBind, files
<1>2. ChatKept
  BY <1>1, SameChatIsKept
<1>3. run \in [Senders -> Runs] /\ Sound(s)
  BY DEF TypeInv, TypeOK, ChatInv
<1>4. \A q \in Senders \ {s} : run'[q] = run[q]
  BY <1>3 DEF SendBegin, SendEnd, SendRead, SendBind, Stop
<1>5. Sound(s)'
  <2>1. CASE Stop(s)
    BY <1>3, <2>1 DEF Stop, Idle, Sound
  <2>2. CASE \E dry \in BOOLEAN, limit \in Limits : SendBegin(s, dry, limit)
    <3>1. run'[s].at = "loop" /\ run'[s].ok = FALSE
      BY <1>3, <2>2 DEF SendBegin, Idle
    <3> QED
      BY <3>1 DEF Sound
  <2>3. CASE SendEnd(s)
    BY <2>1, <2>3 DEF SendEnd
  <2>4. CASE SendRead(s) /\ ~Stop(s)
    <3>1. run[s].ok = FALSE
      BY <1>3, <2>4 DEF SendRead, At, Sound, Runs
    <3>2. /\ run'[s].ok = FALSE
          /\ \/ run'[s].at = "call" /\ run'[s].mode = "direct"
             \/ run'[s].at = "bind"
      BY <1>3, <2>4, <3>1 DEF SendRead, Runs
    <3> QED
      BY <3>2 DEF Sound
  <2>5. CASE SendBind(s) /\ ~Stop(s)
    <3>1. run[s].ok = FALSE /\ run[s].paths # {}
      BY <1>3, <2>5 DEF SendBind, At, Sound, Runs, TypeInv, HasNote
    <3>2. Goal(s) \in Goals
      BY <1>3, <3>1, CurrentIsNote, NotesAssumption DEF Goal, Runs
    <3>3. run'[s].paths = run[s].paths /\ run'[s].ok = FALSE
      BY <1>3, <2>5, <3>1 DEF SendBind, Runs
    <3>4. Goal(s)' = Goal(s)
      BY <3>3 DEF Goal, Current
    <3>5. \/ run'[s].at = "call" /\ run'[s].mode = "topic_root"
          \/ run'[s].at = "move"
          \/ /\ run'[s].at = "call" /\ run'[s].root = binding[Goal(s)]
             /\ binding[Goal(s)] \notin {None, Truncated}
      BY <1>3, <2>5 DEF SendBind, Runs
    <3>6. binding[Goal(s)] \notin {None, Truncated} =>
            binding[Goal(s)] \in Roots(Goal(s))
      BY <3>2 DEF ChatInv, BindingsAreRoots, TypeInv, TypeOK
    <3>7. binding[Goal(s)] \in Roots(Goal(s)) => binding[Goal(s)] \in Roots(Goal(s))'
      BY <1>1, <3>4 DEF Roots, Ids
    <3> QED
      BY <3>3, <3>5, <3>6, <3>7 DEF Sound
  <2> QED
    BY <2>1, <2>2, <2>3, <2>4, <2>5
<1>6. \A q \in Senders : Sound(q)'
  BY <1>2, <1>4, <1>5, OthersSound DEF ChatInv
<1> QED
  BY <1>1, <1>2, <1>6, FilesSound, SameChatReplies DEF ChatInv

\* The message a call delivers is a reply under its goal's root, or not one.
LEMMA DeliveredReplies ==
  ASSUME TypeInv, ChatInv, NEW s \in Senders, At(s, "call"),
         run[s].paths # {}, Deliver(s)
  PROVE  /\ RepliesFollowTheirRoot'
         /\ Delivered \in Ids' /\ chat'[Delivered].note = Current(s)
         /\ chat'[Delivered].mode = run[s].mode
<1>1. /\ Ids' = Ids \union {Delivered}
      /\ chat'[Delivered] = [note |-> Current(s), mode |-> run[s].mode,
                             root |-> run[s].root]
  BY ChatGrows DEF Delivered
<1>2. ChatKept
  BY DeliverKeepsChat
<1>3. Len(chat) \in Nat
  BY DEF TypeInv, TypeOK
<1>4. ASSUME NEW g \in Goals, NEW i \in Replies(g)'
      PROVE  chat'[i].root \in Roots(g)' /\ chat'[i].root < i
  <2>1. i \in Ids' /\ chat'[i].mode = "thread_reply" /\ GoalOf[chat'[i].note] = g
    BY <1>4 DEF Replies
  <2>2. CASE i \in Ids
    <3>1. i \in Replies(g) /\ chat'[i].root = chat[i].root
      BY <1>2, <2>1, <2>2 DEF ChatKept, Replies
    <3>2. chat[i].root \in Roots(g) /\ chat[i].root < i
      BY <3>1 DEF ChatInv, RepliesFollowTheirRoot
    <3> QED
      BY <1>2, <3>1, <3>2 DEF ChatKept, Roots
  <2>3. CASE i = Delivered
    <3>1. run[s].mode = "thread_reply" /\ Goal(s) = g /\ chat'[i].root = run[s].root
      BY <1>1, <2>1, <2>3 DEF Goal
    <3>2. run[s].root \in Roots(g)
      BY <3>1 DEF ChatInv, Sound, At
    <3>3. run[s].root \in Ids /\ run[s].root < Delivered
      BY <1>3, <3>2 DEF Roots, Ids, Delivered
    <3> QED
      BY <1>2, <2>3, <3>1, <3>2, <3>3 DEF ChatKept, Roots
  <2> QED
    BY <1>1, <2>1, <2>2, <2>3
<1> QED
  BY <1>1, <1>4 DEF RepliesFollowTheirRoot

LEMMA CallChat ==
  ASSUME TypeInv, ChatInv, NEW s \in Senders, Call(s)
  PROVE  ChatInv'
<1>1. /\ run \in [Senders -> Runs] /\ Sound(s) /\ At(s, "call")
      /\ run[s].paths # {} /\ run[s].ok = FALSE
  <2>1. run \in [Senders -> Runs] /\ Sound(s)
    BY DEF TypeInv, TypeOK, ChatInv
  <2>2. At(s, "call")
    BY DEF Call, CallSucceeds, CallHidesId, CallFails, CallTimesOut
  <2> QED
    BY <2>1, <2>2 DEF At, Sound, Runs, TypeInv, HasNote
<1>2. Deliver(s) \/ UNCHANGED chat
  BY DEF Call, CallSucceeds, CallHidesId, CallFails, CallTimesOut, DeliveredUnknown
<1>3. ChatKept /\ RepliesFollowTheirRoot'
  BY <1>1, <1>2, SameChatIsKept, DeliverKeepsChat, DeliveredReplies, SameChatReplies
  DEF ChatInv
<1>4. UNCHANGED <<binding, sent>>
  BY DEF Call, CallSucceeds, CallHidesId, CallFails, CallTimesOut, files
<1>5. \A q \in Senders \ {s} : run'[q] = run[q]
  BY <1>1 DEF Call, CallSucceeds, CallHidesId, CallFails, CallTimesOut, Stop
<1>6. Sound(s)'
  <2>1. CASE Stop(s)
    BY <1>1, <2>1 DEF Stop, Idle, Sound
  <2>2. CASE CallSucceeds(s) /\ run[s].dry
    <3>1. run'[s].at = "move" /\ run'[s].dry = TRUE
      BY <1>1, <2>2 DEF CallSucceeds, Runs
    <3> QED
      BY <3>1 DEF Sound
  <2>3. CASE CallSucceeds(s) /\ ~run[s].dry
    <3>1. /\ Deliver(s) /\ run'[s].paths = run[s].paths
          /\ run'[s].message = Delivered
          /\ \/ run'[s].at = "open" /\ run[s].mode = "topic_root"
             \/ run'[s].at = "move"
      <4> DEFINE r == [run[s] EXCEPT !.at = IF IsRoot(s) THEN "open" ELSE "move",
                                     !.message = Delivered, !.ok = TRUE]
      <4>1. Deliver(s) /\ run' = [run EXCEPT ![s] = r]
        BY <1>1, <2>3 DEF CallSucceeds
      <4>2. /\ r.paths = run[s].paths /\ r.message = Delivered
            /\ r.at = IF IsRoot(s) THEN "open" ELSE "move"
        BY <1>1 DEF Runs
      <4>3. run'[s] = r
        BY <1>1, <4>1
      <4> HIDE DEF r
      <4> QED
        BY <4>1, <4>2, <4>3 DEF IsRoot
    <3>2. Current(s)' = Current(s) /\ Goal(s)' = Goal(s)
      BY <3>1 DEF Current, Goal
    <3>3. /\ Delivered \in Ids' /\ chat'[Delivered].note = Current(s)
          /\ chat'[Delivered].mode = run[s].mode
      BY <1>1, <3>1, DeliveredReplies
    <3>4. Deliveries(Current(s))' # {}
      BY <3>2, <3>3 DEF Deliveries
    <3>5. run[s].mode = "topic_root" => Delivered \in Roots(Goal(s))'
      <4>1. GoalOf[chat'[Delivered].note] = Goal(s)'
        BY <3>2, <3>3 DEF Goal
      <4> QED
        BY <3>3, <4>1 DEF Roots
    <3> QED
      BY <3>1, <3>4, <3>5 DEF Sound
  <2>4. CASE CallHidesId(s) \/ (CallFails(s) /\ ~Stop(s))
    <3>1. run'[s].at = "move" /\ run'[s].ok = FALSE
      <4>1. CASE CallHidesId(s)
        BY <1>1, <4>1 DEF CallHidesId, Runs
      <4>2. CASE CallFails(s) /\ ~Stop(s)
        BY <1>1, <4>2 DEF CallFails, Runs
      <4> QED
        BY <2>4, <4>1, <4>2
    <3> QED
      BY <3>1 DEF Sound
  <2> QED
    BY <2>1, <2>2, <2>3, <2>4 DEF Call, CallTimesOut
<1>7. \A q \in Senders : Sound(q)'
  BY <1>3, <1>5, <1>6, OthersSound DEF ChatInv
<1> QED
  BY <1>3, <1>4, <1>7, FilesSound DEF ChatInv

LEMMA FilesChat ==
  ASSUME TypeInv, ChatInv, NEW s \in Senders,
         BindOpen(s) \/ BindWrite(s) \/ SendMove(s) \/ CrashSender(s)
  PROVE  ChatInv'
<1>1. UNCHANGED chat /\ Ids' = Ids
  BY DEF BindOpen, BindWrite, SendMove, CrashSender, Ids
<1>2. ChatKept /\ RepliesFollowTheirRoot'
  BY <1>1, SameChatIsKept, SameChatReplies DEF ChatInv
<1>3. run \in [Senders -> Runs] /\ Sound(s)
  BY DEF TypeInv, TypeOK, ChatInv
<1>4. \A q \in Senders \ {s} : run'[q] = run[q]
  BY <1>3 DEF BindOpen, BindWrite, SendMove, CrashSender, Stop, Continue
<1>5. \A g : Roots(g)' = Roots(g)
  BY <1>1 DEF Roots
<1>6. \A n : Deliveries(n)' = Deliveries(n)
  BY <1>1 DEF Deliveries
<1>7. ASSUME UNCHANGED binding
      PROVE  BindingsAreRoots'
  BY <1>1, <1>5, <1>7 DEF ChatInv, BindingsAreRoots
<1>8. ASSUME UNCHANGED sent
      PROVE  SentWasDelivered'
  BY <1>6, <1>8 DEF ChatInv, SentWasDelivered
<1>9. ASSUME Sound(s)'
      PROVE  \A q \in Senders : Sound(q)'
  BY <1>2, <1>4, <1>9, OthersSound DEF ChatInv
<1>10. ASSUME run'[s].paths = run[s].paths
       PROVE  /\ Deliveries(Current(s))' = Deliveries(Current(s))
              /\ Roots(Goal(s))' = Roots(Goal(s))
  <2>1. Current(s)' = Current(s) /\ Goal(s)' = Goal(s)
    BY <1>10 DEF Current, Goal
  <2> QED
    BY <1>1, <2>1 DEF Deliveries, Roots
<1>11. CASE BindOpen(s)
  <2>1. Sound(s)'
    <3>1. /\ run[s].at = "open" /\ run'[s].at = "write"
          /\ run'[s].paths = run[s].paths /\ run'[s].message = run[s].message
      BY <1>3, <1>11 DEF BindOpen, At
    <3> QED
      BY <1>3, <1>10, <3>1 DEF Sound
  <2>2. BindingsAreRoots'
    <3>1. \A g \in Goals : binding'[g] = binding[g] \/ binding'[g] = Truncated
      BY <1>11 DEF BindOpen, TypeInv, TypeOK
    <3>2. Truncated \notin Ids
      BY TruncatedAssumption DEF Ids
    <3> QED
      BY <1>1, <1>5, <3>1, <3>2 DEF ChatInv, BindingsAreRoots
  <2> QED
    BY <1>2, <1>8, <1>9, <1>11, <2>1, <2>2 DEF BindOpen, ChatInv
<1>12. CASE BindWrite(s)
  <2>1. run[s].at = "write"
    BY <1>12 DEF BindWrite, At
  <2>2. Sound(s)'
    <3>1. run'[s].at = "move" /\ run'[s].paths = run[s].paths
      BY <1>3, <1>12 DEF BindWrite
    <3> QED
      BY <1>3, <1>10, <2>1, <3>1 DEF Sound
  <2>3. BindingsAreRoots'
    <3>1. \A g \in Goals : \/ binding'[g] = binding[g]
                           \/ g = Goal(s) /\ binding'[g] = run[s].message
      BY <1>12 DEF BindWrite, TypeInv, TypeOK
    <3>2. run[s].message \in Roots(Goal(s))
      BY <1>3, <2>1 DEF Sound
    <3> QED
      BY <1>1, <1>5, <3>1, <3>2 DEF ChatInv, BindingsAreRoots
  <2> QED
    BY <1>2, <1>8, <1>9, <1>12, <2>2, <2>3 DEF BindWrite, ChatInv
<1>13. CASE SendMove(s)
  <2>1. Sound(s)'
    <3>1. run'[s].at = "idle" \/ (run'[s].at = "loop" /\ run'[s].ok = FALSE)
      <4>1. CASE Stop(s)
        BY <1>3, <4>1 DEF Stop, Idle
      <4>2. CASE Continue(s)
        BY <1>3, <4>2 DEF Continue, Idle
      <4> QED
        BY <1>13, <4>1, <4>2 DEF SendMove
    <3> QED
      BY <3>1 DEF Sound
  <2>2. SentWasDelivered'
    <3>1. ASSUME NEW n \in sent'
          PROVE  n \in sent \/ (n = Current(s) /\ MovesToSent(s))
      BY <1>13, <3>1 DEF SendMove
    <3>2. MovesToSent(s) => Deliveries(Current(s)) # {}
      BY <1>3, <1>13 DEF Sound, MovesToSent, SendMove, At
    <3> QED
      BY <1>6, <3>1, <3>2 DEF ChatInv, SentWasDelivered
  <2> QED
    BY <1>2, <1>7, <1>9, <1>13, <2>1, <2>2 DEF SendMove, ChatInv
<1>14. CASE CrashSender(s)
  <2>1. Sound(s)'
    BY <1>3, <1>14 DEF CrashSender, Stop, Idle, Sound
  <2> QED
    BY <1>2, <1>7, <1>8, <1>9, <1>14, <2>1 DEF CrashSender, ChatInv, files
<1> QED
  BY <1>11, <1>12, <1>13, <1>14

LEMMA StepChat == TypeInv /\ ChatInv /\ [Next]_vars => ChatInv'
<1> SUFFICES ASSUME TypeInv, ChatInv, [Next]_vars
             PROVE  ChatInv'
  OBVIOUS
<1>1. CASE UNCHANGED vars
  <2>1. UNCHANGED <<chat, binding, sent, run>>
    BY <1>1 DEF vars, files
  <2>2. \A q \in Senders : Sound(q)'
    BY <2>1, SameChatIsKept, OthersSound DEF ChatInv
  <2> QED
    BY <2>1, <2>2, SameChatIsKept, FilesSound, SameChatReplies DEF ChatInv
<1>2. ASSUME NEW e \in Enqueuers,
             \/ \E n \in Notes : EnqueueOpen(e, n)
             \/ EnqueueWrite(e)
             \/ CrashEnqueuer(e)
      PROVE  ChatInv'
  BY <1>2, EnqueueChat
<1>3. ASSUME NEW s \in Senders,
             \/ \E dry \in BOOLEAN, limit \in Limits : SendBegin(s, dry, limit)
             \/ SendStep(s)
             \/ CrashSender(s)
      PROVE  ChatInv'
  BY <1>3, QuietChat, CallChat, FilesChat DEF SendStep
<1> QED
  BY <1>1, <1>2, <1>3 DEF Next

\* However many senders overlap, time out or are killed: a note is in
\* outbox-sent only if it was delivered, and a reply is under a root message
\* of its own goal.
THEOREM OnlyDeliveredIsSent == Spec => [](SentWasDelivered /\ RepliesFollowTheirRoot)
<1>1. Init => TypeInv /\ ChatInv
  BY InitType, InitChat
<1>2. TypeInv /\ ChatInv /\ [Next]_vars => TypeInv' /\ ChatInv'
  BY StepType, StepChat
<1>3. ChatInv => SentWasDelivered /\ RepliesFollowTheirRoot
  BY DEF ChatInv
<1> QED
  BY <1>1, <1>2, <1>3, PTL DEF Spec

\* A reply is sent under a root message of its own goal, which came before it
\* (notify-send-outbox with thread_per_goal), whoever else sends.
THEOREM RepliesAreInTheirThread == Spec => []RepliesFollowTheirRoot
BY OnlyDeliveredIsSent, PTL

-----------------------------------------------------------------------------
(* The outbox implements the channel.                                      *)

\* A sender is at notes that somebody asked for.
PathsAsked == \A s \in Senders : run[s].paths \subseteq Listed \union sent \union failed

\* A step that takes no note away without filing it, and lists no new path.
LEMMA PathsKept ==
  ASSUME PathsAsked,
         Listed \union sent \union failed \subseteq Listed' \union sent' \union failed',
         \A q \in Senders : \/ run'[q].paths \subseteq run[q].paths
                            \/ run'[q].paths \subseteq Listed
  PROVE  PathsAsked'
BY DEF PathsAsked

LEMMA EnqueuePaths ==
  ASSUME TypeInv, PathsAsked, NEW e \in Enqueuers,
         \/ \E n \in Notes : EnqueueOpen(e, n)
         \/ EnqueueWrite(e)
         \/ CrashEnqueuer(e)
  PROVE  PathsAsked'
<1>1. UNCHANGED <<sent, failed, run>>
  BY DEF EnqueueOpen, EnqueueWrite, CrashEnqueuer, files
<1>2. Listed \subseteq Listed'
  <2>1. outbox \in [Notes -> {"absent", "empty", "whole"}]
    BY DEF TypeInv, TypeOK
  <2>2. \A n \in Notes : outbox'[n] = outbox[n] \/ outbox'[n] \in {"empty", "whole"}
    BY <2>1 DEF EnqueueOpen, EnqueueWrite, CrashEnqueuer, files
  <2> QED
    BY <2>2 DEF Listed
<1> QED
  BY <1>1, <1>2, PathsKept

LEMMA SenderPaths ==
  ASSUME TypeInv, PathsAsked, NEW s \in Senders,
         \/ \E dry \in BOOLEAN, limit \in Limits : SendBegin(s, dry, limit)
         \/ SendStep(s)
         \/ CrashSender(s)
  PROVE  PathsAsked'
<1>1. run \in [Senders -> Runs]
  BY DEF TypeInv, TypeOK
<1>2. \A q \in Senders \ {s} : run'[q] = run[q]
  BY <1>1 DEF SendBegin, SendStep, SendEnd, SendRead, SendBind, Call, CallSucceeds,
    CallHidesId, CallFails, CallTimesOut, BindOpen, BindWrite, SendMove, CrashSender,
    Stop, Continue
<1>3. run'[s].paths \subseteq run[s].paths \/ run'[s].paths \subseteq Listed
  <2>1. run[s] \in Runs
    BY <1>1
  <2>2. CASE Stop(s)
    BY <1>1, <2>2 DEF Stop, Idle
  <2>3. CASE \E dry \in BOOLEAN, limit \in Limits : SendBegin(s, dry, limit)
    <3>1. PICK dry \in BOOLEAN, limit \in Limits : SendBegin(s, dry, limit)
      BY <2>3
    <3>2. run'[s].paths = FirstOf(Listed, limit)
      BY <1>1, <3>1 DEF SendBegin, Idle
    <3> QED
      BY <3>2 DEF FirstOf
  <2>4. CASE SendRead(s) \/ SendBind(s)
    BY <1>1, <2>1, <2>2, <2>4 DEF SendRead, SendBind, Runs
  <2>5. CASE Call(s)
    BY <1>1, <2>1, <2>2, <2>5 DEF Call, CallSucceeds, CallHidesId, CallFails,
      CallTimesOut, Runs
  <2>6. CASE BindOpen(s) \/ BindWrite(s)
    BY <1>1, <2>1, <2>6 DEF BindOpen, BindWrite, Runs
  <2>7. CASE Continue(s)
    BY <1>1, <2>7 DEF Continue, Idle
  <2> QED
    BY <2>2, <2>3, <2>4, <2>5, <2>6, <2>7 DEF SendStep, SendEnd, SendMove, CrashSender
<1>4. Listed \union sent \union failed \subseteq Listed' \union sent' \union failed'
  <2>1. CASE SendMove(s)
    <3>1. outbox \in [Notes -> {"absent", "empty", "whole"}]
      BY DEF TypeInv, TypeOK
    <3>2. sent \subseteq sent' /\ failed \subseteq failed'
      BY <2>1 DEF SendMove
    <3>3. \A n \in Notes : outbox'[n] = outbox[n] \/ n \in sent' \union failed'
      BY <2>1, <3>1 DEF SendMove
    <3> QED
      BY <3>2, <3>3 DEF Listed
  <2>2. CASE ~SendMove(s)
    <3>1. UNCHANGED <<outbox, sent, failed>>
      BY <2>2 DEF SendBegin, SendStep, SendEnd, SendRead, SendBind, Call, CallSucceeds,
        CallHidesId, CallFails, CallTimesOut, BindOpen, BindWrite, CrashSender, files
    <3> QED
      BY <3>1 DEF Listed
  <2> QED
    BY <2>1, <2>2
<1> QED
  BY <1>2, <1>3, <1>4, PathsKept

LEMMA StepPaths == TypeInv /\ PathsAsked /\ [Next]_vars => PathsAsked'
<1> SUFFICES ASSUME TypeInv, PathsAsked, [Next]_vars
             PROVE  PathsAsked'
  OBVIOUS
<1>1. CASE UNCHANGED vars
  BY <1>1 DEF vars, files, PathsAsked, Listed
<1> QED
  BY <1>1, EnqueuePaths, SenderPaths DEF Next

\* The notes of the messages in the chat, as the channel has them.
NotesIn(messages) == [i \in 1..Len(messages) |-> messages[i].note]

LEMMA DeliverIsReceived ==
  ASSUME TypeInv, NEW s \in Senders, run[s].paths # {}, Deliver(s)
  PROVE  NotesIn(chat') = Append(NotesIn(chat), Current(s))
<1>1. Len(chat) \in Nat /\ chat \in Seq(Messages)
  BY DEF TypeInv, TypeOK
<1>2. /\ Len(chat') = Len(chat) + 1
      /\ \A i \in 1..Len(chat) : chat'[i] = chat[i]
      /\ chat'[Len(chat) + 1].note = Current(s)
  <2>1. chat'[Len(chat) + 1] = [note |-> Current(s), mode |-> run[s].mode,
                                root |-> run[s].root]
    BY ChatGrows
  <2> QED
    BY <2>1, ChatGrows
<1>3. NotesIn(chat) \in Seq(Notes) /\ Len(NotesIn(chat)) = Len(chat)
  <2>1. \A i \in 1..Len(chat) : chat[i].note \in Notes
    <3>1. \A i \in 1..Len(chat) : chat[i] \in Messages
      BY <1>1, ElementOfSeq
    <3> QED
      BY <3>1 DEF Messages
  <2>2. NotesIn(chat) \in [1..Len(chat) -> Notes]
    BY <2>1 DEF NotesIn
  <2>3. NotesIn(chat) \in Seq(Notes)
    BY <1>1, <2>2, SeqDef
  <2>4. DOMAIN NotesIn(chat) = 1..Len(chat)
    BY DEF NotesIn
  <2> QED
    BY <1>1, <2>3, <2>4, LenProperties
<1>4. /\ DOMAIN Append(NotesIn(chat), Current(s)) = 1..Len(chat) + 1
      /\ \A i \in 1..Len(chat) : Append(NotesIn(chat), Current(s))[i] = chat[i].note
      /\ Append(NotesIn(chat), Current(s))[Len(chat) + 1] = Current(s)
  BY <1>1, <1>3 DEF NotesIn
<1> QED
  BY <1>1, <1>2, <1>4 DEF NotesIn

LEMMA EnqueueIsAsk ==
  ASSUME TypeInv, NEW e \in Enqueuers,
         \/ \E n \in Notes : EnqueueOpen(e, n)
         \/ EnqueueWrite(e)
         \/ CrashEnqueuer(e)
  PROVE  \/ \E n \in Notes : Channel!Ask(n)
         \/ UNCHANGED Channel!vars
<1> USE DEF Listed
<1>1. outbox \in [Notes -> {"absent", "empty", "whole"}]
  BY DEF TypeInv, TypeOK
<1>2. CASE \E n \in Notes : EnqueueOpen(e, n)
  <2>1. PICK n \in Notes : EnqueueOpen(e, n)
    BY <1>2
  <2>2. Listed' = Listed \union {n} /\ UNCHANGED <<sent, failed, chat>>
    BY <1>1, <2>1 DEF EnqueueOpen
  <2> QED
    BY <2>2 DEF Channel!Ask
<1>3. CASE EnqueueWrite(e)
  <2>1. writing[e] \in Notes
    BY <1>3 DEF EnqueueWrite, TypeInv, TypeOK
  <2>2. CASE outbox[writing[e]] # "absent" \/ e \in moved
    <3>1. Listed' = Listed /\ UNCHANGED <<sent, failed, chat>>
      BY <1>1, <1>3, <2>1, <2>2 DEF EnqueueWrite
    <3> QED
      BY <3>1 DEF Channel!vars
  <2>3. CASE outbox[writing[e]] = "absent" /\ e \notin moved
    <3>1. Listed' = Listed \union {writing[e]} /\ UNCHANGED <<sent, failed, chat>>
      BY <1>1, <1>3, <2>1, <2>3 DEF EnqueueWrite
    <3> QED
      BY <2>1, <3>1 DEF Channel!Ask
  <2> QED
    BY <2>2, <2>3
<1>4. CASE CrashEnqueuer(e)
  BY <1>4 DEF CrashEnqueuer, files, Channel!vars
<1> QED
  BY <1>2, <1>3, <1>4

LEMMA CallIsReceive ==
  ASSUME TypeInv, PathsAsked, NEW s \in Senders, Call(s)
  PROVE  \/ \E n \in Notes : Channel!Receive(n)
         \/ UNCHANGED Channel!vars
<1>1. UNCHANGED <<outbox, sent, failed>> /\ (Deliver(s) \/ UNCHANGED chat)
  BY DEF Call, CallSucceeds, CallHidesId, CallFails, CallTimesOut, DeliveredUnknown, files
<1>2. CASE UNCHANGED chat
  BY <1>1, <1>2 DEF Channel!vars, Listed
<1>3. CASE Deliver(s)
  <2>1. run[s].paths # {} /\ run[s].paths \in SUBSET Notes
    BY DEF TypeInv, TypeOK, HasNote, Runs, Call, CallSucceeds, CallHidesId, CallFails,
      CallTimesOut, At
  <2>2. Current(s) \in run[s].paths /\ Current(s) \in Notes
    BY <2>1, CurrentIsNote
  <2>3. Current(s) \in Listed \union sent \union failed
    BY <2>2 DEF PathsAsked
  <2>4. NotesIn(chat') = Append(NotesIn(chat), Current(s))
    BY <1>3, <2>1, DeliverIsReceived
  <2> QED
    BY <1>1, <2>2, <2>3, <2>4 DEF Channel!Receive, NotesIn, Listed
<1> QED
  BY <1>1, <1>2, <1>3

LEMMA MoveIsFile ==
  ASSUME TypeInv, ChatInv, NEW s \in Senders, SendMove(s)
  PROVE  \/ \E n \in Notes : Channel!FileAsSent(n) \/ Channel!FileAsFailed(n)
         \/ UNCHANGED Channel!vars
<1>1. outbox \in [Notes -> {"absent", "empty", "whole"}] /\ UNCHANGED chat
  BY DEF TypeInv, TypeOK, SendMove
<1>2. run[s].paths # {} /\ run[s].paths \in SUBSET Notes
  BY DEF TypeInv, TypeOK, HasNote, Runs, SendMove, At
<1>3. Current(s) \in Notes
  BY <1>2, CurrentIsNote
<1>4. CASE UNCHANGED <<outbox, sent, failed>>
  BY <1>1, <1>4 DEF Channel!vars, Listed
<1>5. CASE ~UNCHANGED <<outbox, sent, failed>>
  <2>1. /\ outbox[Current(s)] # "absent"
        /\ outbox' = [outbox EXCEPT ![Current(s)] = "absent"]
        /\ MovesToSent(s) \/ MovesToFailed(s)
        /\ sent' = IF MovesToSent(s) THEN sent \union {Current(s)} ELSE sent
        /\ failed' = IF MovesToFailed(s) THEN failed \union {Current(s)} ELSE failed
    BY <1>5 DEF SendMove
  <2>2. Current(s) \in Listed /\ Listed' = Listed \ {Current(s)}
    BY <1>1, <1>3, <2>1 DEF Listed
  <2>3. CASE MovesToSent(s)
    <3>1. Deliveries(Current(s)) # {} /\ ~MovesToFailed(s)
      BY <2>3 DEF ChatInv, Sound, SendMove, At, MovesToSent, MovesToFailed
    <3>2. PICK i \in 1..Len(chat) : chat[i].note = Current(s)
      BY <3>1 DEF Deliveries, Ids
    <3>3. Channel!Received(Current(s))
      BY <3>2 DEF Channel!Received
    <3> QED
      BY <1>1, <1>3, <2>1, <2>2, <2>3, <3>1, <3>3 DEF Channel!FileAsSent, Listed
  <2>4. CASE ~MovesToSent(s)
    BY <1>1, <1>3, <2>1, <2>2, <2>4 DEF Channel!FileAsFailed, Listed
  <2> QED
    BY <2>3, <2>4
<1> QED
  BY <1>4, <1>5

LEMMA StepChannel ==
  TypeInv /\ ChatInv /\ PathsAsked /\ [Next]_vars => [Channel!Next]_(Channel!vars)
<1> SUFFICES ASSUME TypeInv, ChatInv, PathsAsked, [Next]_vars
             PROVE  Channel!Next \/ UNCHANGED Channel!vars
  OBVIOUS
<1>1. CASE UNCHANGED vars
  BY <1>1 DEF vars, files, Channel!vars, Listed
<1>2. ASSUME NEW e \in Enqueuers,
             \/ \E n \in Notes : EnqueueOpen(e, n)
             \/ EnqueueWrite(e)
             \/ CrashEnqueuer(e)
      PROVE  Channel!Next \/ UNCHANGED Channel!vars
  BY <1>2, EnqueueIsAsk DEF Channel!Next
<1>3. ASSUME NEW s \in Senders,
             \/ \E dry \in BOOLEAN, limit \in Limits : SendBegin(s, dry, limit)
             \/ SendStep(s)
             \/ CrashSender(s)
      PROVE  Channel!Next \/ UNCHANGED Channel!vars
  <2>1. CASE Call(s)
    BY <2>1, CallIsReceive DEF Channel!Next
  <2>2. CASE SendMove(s)
    BY <2>2, MoveIsFile DEF Channel!Next
  <2>3. CASE ~Call(s) /\ ~SendMove(s)
    BY <1>3, <2>3 DEF SendBegin, SendStep, SendEnd, SendRead, SendBind, BindOpen,
      BindWrite, CrashSender, files, Channel!vars, Listed
  <2> QED
    BY <2>1, <2>2, <2>3
<1> QED
  BY <1>1, <1>2, <1>3 DEF Next

\* The outbox is a channel that loses nothing in silence, for any number of
\* enqueuers, senders, notes and faults: a note leaves it only to be filed, as
\* sent when it was received, and nothing is sent that nobody enqueued.
THEOREM OutboxIsChannel == Spec => ChannelSpec
<1>1. Init => TypeInv /\ ChatInv /\ PathsAsked
  <2>1. Init => PathsAsked
    BY DEF Init, PathsAsked, Idle
  <2> QED
    BY <2>1, InitType, InitChat
<1>2. TypeInv /\ ChatInv /\ PathsAsked /\ [Next]_vars
        => TypeInv' /\ ChatInv' /\ PathsAsked'
  BY StepType, StepChat, StepPaths
<1>3. Init => Channel!Init
  BY DEF Init, Channel!Init, Listed
<1> QED
  BY <1>1, <1>2, <1>3, StepChannel, PTL DEF Spec, ChannelSpec, Channel!Spec

-----------------------------------------------------------------------------
(* One sender.                                                             *)

\* What a delivery adds to the chat.
LEMMA DeliverAdds ==
  ASSUME TypeInv, NEW s \in Senders, run[s].paths # {}, Deliver(s)
  PROVE  /\ \A n : Deliveries(n)' = IF n = Current(s) THEN Deliveries(n) \union {Delivered}
                                    ELSE Deliveries(n)
         /\ \A g : Roots(g)' = IF g = Goal(s) /\ run[s].mode = "topic_root"
                               THEN Roots(g) \union {Delivered} ELSE Roots(g)
         /\ \A g : Replies(g)' = IF g = Goal(s) /\ run[s].mode = "thread_reply"
                                 THEN Replies(g) \union {Delivered} ELSE Replies(g)
         /\ chat'[Delivered].root = run[s].root
         /\ \A i \in Ids : chat'[i] = chat[i] /\ i # Delivered
         /\ Delivered # 0 /\ chat' # chat
<1>1. /\ Ids' = Ids \union {Delivered} /\ Delivered \notin Ids
      /\ \A i \in Ids : chat'[i] = chat[i]
  BY ChatGrows DEF Ids
<1>2. /\ chat'[Delivered].note = Current(s) /\ chat'[Delivered].mode = run[s].mode
      /\ chat'[Delivered].root = run[s].root
  <2>1. chat'[Delivered] = [note |-> Current(s), mode |-> run[s].mode, root |-> run[s].root]
    BY ChatGrows DEF Delivered
  <2>2. QED
    BY <2>1
<1>3. \A n : Deliveries(n)' = IF n = Current(s) THEN Deliveries(n) \union {Delivered}
                              ELSE Deliveries(n)
  BY <1>1, <1>2 DEF Deliveries
<1>4. \A g : Roots(g)' = IF g = Goal(s) /\ run[s].mode = "topic_root"
                         THEN Roots(g) \union {Delivered} ELSE Roots(g)
  BY <1>1, <1>2 DEF Roots, Goal
<1>5. \A g : Replies(g)' = IF g = Goal(s) /\ run[s].mode = "thread_reply"
                           THEN Replies(g) \union {Delivered} ELSE Replies(g)
  BY <1>1, <1>2 DEF Replies, Goal
<1>6. Len(chat) \in Nat
  BY DEF TypeInv, TypeOK
<1>7. chat' # chat
  BY <1>1 DEF Ids
<1>8. QED
  BY <1>1, <1>2, <1>3, <1>4, <1>5, <1>6, <1>7 DEF Delivered

\* What a sender's step leaves of its own run.
Stays(s) == run'[s].paths = run[s].paths

\* Where a sender is after it has stopped, or gone on to the next note.
LEMMA LeavesNote ==
  ASSUME NEW s \in Senders, TypeInv
  PROVE  /\ Stop(s) => run'[s] = Idle
         /\ Continue(s) => /\ run'[s].at = "loop" /\ run'[s].message = 0
                           /\ run'[s].dry = run[s].dry
         /\ \A dry, limit : SendBegin(s, dry, limit) =>
              run'[s].at = "loop" /\ run'[s].message = 0
         /\ Idle.at = "idle" /\ Idle.message = 0 /\ Idle.dry = FALSE
<1>1. run \in [Senders -> Runs]
  BY DEF TypeInv, TypeOK
<1>2. Stop(s) => run'[s] = Idle
  BY <1>1 DEF Stop
<1>3. Continue(s) => /\ run'[s].at = "loop" /\ run'[s].message = 0
                     /\ run'[s].dry = run[s].dry
  BY <1>1 DEF Continue, Idle
<1>4. \A dry, limit : SendBegin(s, dry, limit) =>
        run'[s].at = "loop" /\ run'[s].message = 0
  BY <1>1 DEF SendBegin, Idle
<1>5. QED
  BY <1>2, <1>3, <1>4 DEF Idle

LEMMA StaysAtNote ==
  ASSUME NEW s, Stays(s)
  PROVE  Current(s)' = Current(s) /\ Goal(s)' = Goal(s)
BY DEF Stays, Current, Goal

\* The kinds of steps of one sender.
LEMMA SenderSteps ==
  ASSUME NEW s, Senders = {s}, TypeInv, Next
  PROVE  \/ \E e \in Enqueuers : /\ \/ \E n \in Notes : EnqueueOpen(e, n)
                                    \/ EnqueueWrite(e)
                                    \/ CrashEnqueuer(e)
                                 /\ UNCHANGED <<chat, binding, run, history>>
         \/ (\E dry \in BOOLEAN, limit \in Limits : SendBegin(s, dry, limit))
         \/ SendEnd(s) \/ SendRead(s) \/ SendBind(s) \/ Call(s)
         \/ BindOpen(s) \/ BindWrite(s) \/ SendMove(s) \/ CrashSender(s)
<1>1. ASSUME NEW e \in Enqueuers,
             \/ \E n \in Notes : EnqueueOpen(e, n)
             \/ EnqueueWrite(e)
             \/ CrashEnqueuer(e)
      PROVE  UNCHANGED <<chat, binding, run, history>>
  BY <1>1 DEF EnqueueOpen, EnqueueWrite, CrashEnqueuer, files, history
<1>2. QED
  BY <1>1 DEF Next, SendStep

-----------------------------------------------------------------------------
(* One thread for each goal.                                               *)

\* The root message whose id the sender has and no binding says.
Unsaved(s, g) ==
  IF run[s].at \in {"open", "write"} /\ Goal(s) = g THEN {run[s].message} ELSE {}

\* A goal with a binding has the thread it says; another has no thread, but
\* for the one the sender is about to bind.
ThreadInv(s) ==
  /\ \A g \in Goals :
       /\ binding[g] \in Ids => /\ Roots(g) \ unbound \subseteq {binding[g]}
                                /\ \A i \in Replies(g) : chat[i].root = binding[g]
       /\ binding[g] \notin Ids => /\ Roots(g) \ unbound \subseteq Unsaved(s, g)
                                   /\ Replies(g) = {}
  /\ run[s].at = "call" /\ run[s].mode = "topic_root" => binding[Goal(s)] = None
  /\ run[s].at = "call" /\ run[s].mode = "thread_reply" => run[s].root = binding[Goal(s)]
  /\ run[s].at = "open" => binding[Goal(s)] = None
  /\ run[s].at = "write" => binding[Goal(s)] = Truncated

LEMMA MarkersAreNoIds == None \notin Ids /\ Truncated \notin Ids
BY LimitsAssumption, TruncatedAssumption DEF Ids

LEMMA InitThreads == ASSUME NEW s \in Senders, Init PROVE ThreadInv(s)
<1>1. Ids = {}
  BY DEF Init, Ids
<1>2. run[s].at = "idle"
  BY DEF Init, Idle
<1>3. QED
  BY <1>1, <1>2 DEF ThreadInv, Roots, Replies

\* Nothing of the threads changes.
LEMMA SameThreads ==
  ASSUME NEW s, ThreadInv(s), UNCHANGED <<chat, binding>>, unbound \subseteq unbound',
         \A g \in Goals : Unsaved(s, g) \subseteq Unsaved(s, g)' \union unbound',
         run'[s].at \in {"call", "open", "write"} =>
           /\ run'[s].at = "call" /\ run'[s].mode = "topic_root"
              => binding[Goal(s)'] = None
           /\ run'[s].at = "call" /\ run'[s].mode = "thread_reply"
              => run'[s].root = binding[Goal(s)']
           /\ run'[s].at = "open" => binding[Goal(s)'] = None
           /\ run'[s].at = "write" => binding[Goal(s)'] = Truncated
  PROVE  ThreadInv(s)'
<1>1. /\ Ids' = Ids
      /\ \A g : Roots(g)' = Roots(g) /\ Replies(g)' = Replies(g)
  BY DEF Ids, Roots, Replies
<1>2. ASSUME NEW g \in Goals
      PROVE  /\ binding'[g] \in Ids' => /\ (Roots(g) \ unbound)' \subseteq {binding'[g]}
                                        /\ \A i \in Replies(g)' : chat'[i].root = binding'[g]
             /\ binding'[g] \notin Ids' => /\ (Roots(g) \ unbound)' \subseteq Unsaved(s, g)'
                                           /\ Replies(g)' = {}
  BY <1>1 DEF ThreadInv
<1>3. QED
  BY <1>2 DEF ThreadInv

LEMMA QuietThreads ==
  ASSUME NEW s \in Senders, TypeInv, ThreadInv(s),
         \/ \E dry \in BOOLEAN, limit \in Limits : SendBegin(s, dry, limit)
         \/ SendEnd(s) \/ SendRead(s) \/ SendBind(s)
  PROVE  ThreadInv(s)'
<1>1. UNCHANGED <<chat, binding, history>> /\ run[s] \in Runs /\ run \in [Senders -> Runs]
  BY DEF SendBegin, SendEnd, SendRead, SendBind, files, history, TypeInv, TypeOK
<1>2. \A g \in Goals : Unsaved(s, g) = {}
  BY DEF Unsaved, SendBegin, SendEnd, SendRead, SendBind, At
<1>3. CASE run'[s].at \notin {"call", "open", "write"}
  BY <1>1, <1>2, <1>3, SameThreads DEF history
<1>4. CASE SendBind(s) /\ run'[s].at \in {"call", "open", "write"}
  <2>1. /\ run'[s].at = "call" /\ Stays(s)
        /\ \/ run'[s].mode = "topic_root" /\ binding[Goal(s)] = None
           \/ run'[s].mode = "thread_reply" /\ run'[s].root = binding[Goal(s)]
    BY <1>1, <1>4 DEF SendBind, Stop, Idle, Runs, Stays
  <2>2. Goal(s)' = Goal(s)
    BY <2>1, StaysAtNote
  <2>3. QED
    BY <1>1, <1>2, <2>1, <2>2, SameThreads DEF history
<1>5. CASE SendRead(s) /\ run'[s].at \in {"call", "open", "write"}
  <2>1. run'[s].at = "call" /\ run'[s].mode = "direct"
    BY <1>1, <1>5 DEF SendRead, Stop, Idle, Runs
  <2>2. QED
    BY <1>1, <1>2, <2>1, SameThreads DEF history
<1>6. CASE (\E dry \in BOOLEAN, limit \in Limits : SendBegin(s, dry, limit)) \/ SendEnd(s)
  <2>1. run'[s].at \in {"loop", "idle"}
    BY <1>6, LeavesNote DEF SendEnd
  <2>2. QED
    BY <1>3, <2>1
<1>7. QED
  BY <1>3, <1>4, <1>5, <1>6

\* The message of a call joins the goal's thread, or is its root, or is lost.
LEMMA CallThreads ==
  ASSUME NEW s \in Senders, TypeInv, ChatInv, ThreadInv(s), Call(s)
  PROVE  ThreadInv(s)'
<1>1. /\ run[s] \in Runs /\ run \in [Senders -> Runs] /\ run[s].at = "call"
      /\ UNCHANGED binding /\ unbound \subseteq unbound' /\ run[s].paths # {}
  <2>1. /\ run[s] \in Runs /\ run \in [Senders -> Runs] /\ run[s].at = "call"
        /\ UNCHANGED binding /\ unbound \subseteq unbound'
    BY DEF Call, CallSucceeds, CallHidesId, CallFails, CallTimesOut, DeliveredUnknown,
           files, history, At, TypeInv, TypeOK
  <2>2. run[s].paths # {}
    BY <2>1 DEF TypeInv, HasNote
  <2>3. QED
    BY <2>1, <2>2
<1>0. Deliver(s) => chat' # chat
  BY <1>1, DeliverAdds
<1>2. \A g \in Goals : Unsaved(s, g) = {}
  BY <1>1 DEF Unsaved
<1>3. CASE UNCHANGED chat
  <2>1. run'[s].at \notin {"call", "open", "write"}
    <3>1. CASE CallSucceeds(s)
      <4>1. run' = [run EXCEPT ![s].at = "move", ![s].ok = TRUE]
        BY <1>0, <1>3, <3>1 DEF CallSucceeds
      <4>2. run'[s].at = "move"
        BY <1>1, <4>1 DEF Runs
      <4>3. QED
        BY <4>2
    <3>2. CASE CallHidesId(s)
      BY <1>0, <1>3, <3>2 DEF CallHidesId
    <3>3. CASE CallFails(s)
      <4>1. run' = [run EXCEPT ![s].at = "move"]
        BY <1>0, <1>3, <3>3 DEF CallFails, DeliveredUnknown
      <4>2. QED
        BY <1>1, <4>1 DEF Runs
    <3>4. CASE CallTimesOut(s)
      BY <3>4, LeavesNote DEF CallTimesOut
    <3>5. QED
      BY <3>1, <3>2, <3>3, <3>4 DEF Call
  <2>2. QED
    BY <1>1, <1>2, <1>3, <2>1, SameThreads
<1>4. CASE Deliver(s)
  <2>1. /\ Ids' = Ids \union {Delivered} /\ Delivered \notin Ids
        /\ \A i \in Ids : chat'[i] = chat[i]
    BY <1>1, <1>4, ChatGrows DEF Ids
  <2>2. /\ \A g : Roots(g)' = IF g = Goal(s) /\ run[s].mode = "topic_root"
                              THEN Roots(g) \union {Delivered} ELSE Roots(g)
        /\ \A g : Replies(g)' = IF g = Goal(s) /\ run[s].mode = "thread_reply"
                                THEN Replies(g) \union {Delivered} ELSE Replies(g)
        /\ chat'[Delivered].root = run[s].root
    BY <1>1, <1>4, DeliverAdds
  \* A root is bound next, or its id is lost.
  <2>3. /\ run'[s].at # "call" /\ run'[s].at # "write"
        /\ run'[s].at = "open" =>
             /\ run[s].mode = "topic_root" /\ run'[s].message = Delivered /\ Stays(s)
        /\ run'[s].at # "open" /\ run[s].mode = "topic_root" => Delivered \in unbound'
    <3>1. CASE CallSucceeds(s)
      <4>1. ~run[s].dry
        BY <1>0, <1>4, <3>1 DEF CallSucceeds
      <4>2. run' = [run EXCEPT ![s].at = IF IsRoot(s) THEN "open" ELSE "move",
                                ![s].message = Delivered, ![s].ok = TRUE]
        BY <3>1, <4>1 DEF CallSucceeds
      <4>3. /\ run'[s].at = IF IsRoot(s) THEN "open" ELSE "move"
            /\ run'[s].message = Delivered /\ Stays(s)
        BY <1>1, <4>2 DEF Runs, Stays
      <4>4. QED
        BY <4>3 DEF IsRoot
    <3>2. CASE CallHidesId(s)
      BY <1>1, <3>2 DEF CallHidesId
    <3>3. CASE CallFails(s)
      <4>1. DeliveredUnknown(s)
        BY <1>0, <1>4, <3>3 DEF CallFails
      <4>2. run'[s].at = "move"
        BY <1>1, <3>3 DEF CallFails, Runs
      <4>3. QED
        BY <4>1, <4>2 DEF DeliveredUnknown, IsRoot
    <3>4. CASE CallTimesOut(s)
      <4>1. DeliveredUnknown(s) /\ run'[s].at = "idle"
        BY <1>0, <1>4, <3>4, LeavesNote DEF CallTimesOut
      <4>2. QED
        BY <4>1 DEF DeliveredUnknown, IsRoot
    <3>5. QED
      BY <3>1, <3>2, <3>3, <3>4 DEF Call
  <2>4. Stays(s) => Goal(s)' = Goal(s)
    BY StaysAtNote
  <2>5. run[s].mode = "topic_root" => binding[Goal(s)] = None
    BY <1>1 DEF ThreadInv
  <2>6. run[s].mode = "thread_reply" => /\ run[s].root = binding[Goal(s)]
                                        /\ binding[Goal(s)] \in Ids
    <3>1. run[s].mode = "thread_reply" => run[s].root \in Roots(Goal(s))
      BY <1>1 DEF ChatInv, Sound
    <3>2. QED
      BY <1>1, <3>1 DEF ThreadInv, Roots
  <2>7. ASSUME NEW g \in Goals
        PROVE  /\ binding[g] \in Ids => /\ (Roots(g) \ unbound)' \subseteq {binding[g]}
                                        /\ \A i \in Replies(g)' : chat'[i].root = binding[g]
               /\ binding[g] \notin Ids => /\ (Roots(g) \ unbound)' \subseteq Unsaved(s, g)'
                                           /\ Replies(g)' = {}
    <3>1. /\ binding[g] \in Ids => /\ Roots(g) \ unbound \subseteq {binding[g]}
                                   /\ \A i \in Replies(g) : chat[i].root = binding[g]
          /\ binding[g] \notin Ids => Roots(g) \ unbound = {} /\ Replies(g) = {}
      BY <1>2 DEF ThreadInv
    <3>2. CASE binding[g] \in Ids
      <4>1. Roots(g)' = Roots(g)
        BY <2>2, <2>5, <3>2, MarkersAreNoIds
      <4>2. \A i \in Replies(g) : i \in Ids
        BY DEF Replies
      <4>3. \A i \in Replies(g)' : chat'[i].root = binding[g]
        BY <2>1, <2>2, <2>6, <3>1, <3>2, <4>2
      <4>4. QED
        BY <1>1, <3>1, <3>2, <4>1, <4>3
    <3>3. CASE binding[g] \notin Ids
      <4>1. Replies(g)' = {}
        BY <2>2, <2>6, <3>1, <3>3
      <4>2. CASE g = Goal(s) /\ run[s].mode = "topic_root" /\ run'[s].at = "open"
        <5>1. Unsaved(s, g)' = {Delivered}
          BY <2>3, <2>4, <4>2 DEF Unsaved
        <5>2. QED
          BY <1>1, <2>2, <3>1, <3>3, <4>1, <5>1
      <4>3. CASE ~(g = Goal(s) /\ run[s].mode = "topic_root" /\ run'[s].at = "open")
        BY <1>1, <2>2, <2>3, <3>1, <3>3, <4>1, <4>3
      <4>4. QED
        BY <4>2, <4>3
    <3>4. QED
      BY <3>2, <3>3
  <2>8. ASSUME NEW g \in Goals
        PROVE  binding'[g] \in Ids' <=> binding[g] \in Ids
    <3>1. binding[g] \in Ids \union {None, Truncated}
      BY DEF TypeInv, TypeOK
    <3>2. Delivered \in Nat
      BY DEF Delivered, TypeInv, TypeOK
    <3>3. Delivered \notin {None, Truncated}
      BY <3>2, LimitsAssumption, TruncatedAssumption
    <3>4. QED
      BY <1>1, <2>1, <3>1, <3>3
  <2>9. run'[s].at = "open" => binding[Goal(s)'] = None
    BY <2>3, <2>4, <2>5
  <2>10. QED
    BY <1>1, <2>3, <2>7, <2>8, <2>9 DEF ThreadInv
<1>5. QED
  BY <1>3, <1>4
  DEF Call, CallSucceeds, CallHidesId, CallFails, CallTimesOut, DeliveredUnknown

LEMMA BindThreads ==
  ASSUME NEW s \in Senders, TypeInv, ThreadInv(s), BindOpen(s) \/ BindWrite(s)
  PROVE  ThreadInv(s)'
<1>1. /\ run[s] \in Runs /\ run \in [Senders -> Runs] /\ UNCHANGED <<chat, history>>
      /\ run[s].at \in {"open", "write"} /\ run[s].paths # {}
  BY DEF BindOpen, BindWrite, At, TypeInv, TypeOK, HasNote
<1>2. /\ Stays(s) /\ run'[s].message = run[s].message
      /\ run'[s].at = IF BindOpen(s) THEN "write" ELSE "move"
  BY <1>1 DEF BindOpen, BindWrite, At, Stays, Runs
<1>3. Goal(s)' = Goal(s) /\ Goal(s) \in Goals
  <2>1. Current(s) \in Notes
    BY <1>1, CurrentIsNote DEF Runs
  <2>2. QED
    BY <1>2, <2>1, StaysAtNote, NotesAssumption DEF Goal
<1>4. /\ Ids' = Ids /\ unbound' = unbound
      /\ \A g : Roots(g)' = Roots(g) /\ Replies(g)' = Replies(g)
  BY <1>1 DEF Ids, Roots, Replies, history
<1>5. /\ binding[Goal(s)] \notin Ids /\ run[s].message \in Ids
      /\ \A g \in Goals \ {Goal(s)} : Unsaved(s, g) = {}
      /\ Unsaved(s, Goal(s)) = {run[s].message}
  BY <1>1, MarkersAreNoIds DEF ThreadInv, TypeInv, HasNote, Unsaved
<1>6. binding'[Goal(s)] = IF BindOpen(s) THEN Truncated ELSE run[s].message
  BY <1>3 DEF BindOpen, BindWrite, At, TypeInv, TypeOK
<1>7. \A g \in Goals \ {Goal(s)} : binding'[g] = binding[g]
  BY DEF BindOpen, BindWrite, TypeInv, TypeOK
<1>8. ASSUME NEW g \in Goals
      PROVE  /\ binding'[g] \in Ids => /\ Roots(g) \ unbound \subseteq {binding'[g]}
                                       /\ \A i \in Replies(g) : chat[i].root = binding'[g]
             /\ binding'[g] \notin Ids => /\ Roots(g) \ unbound \subseteq Unsaved(s, g)'
                                          /\ Replies(g) = {}
  <2>1. CASE g # Goal(s)
    BY <1>5, <1>7, <2>1 DEF ThreadInv
  <2>2. CASE g = Goal(s)
    <3>1. Roots(g) \ unbound \subseteq {run[s].message} /\ Replies(g) = {}
      BY <1>5, <2>2 DEF ThreadInv
    <3>2. CASE BindOpen(s)
      <4>1. Unsaved(s, g)' = {run[s].message}
        BY <1>2, <1>3, <2>2, <3>2 DEF Unsaved
      <4>2. binding'[g] \notin Ids
        BY <1>6, <2>2, <3>2, MarkersAreNoIds
      <4>3. QED
        BY <3>1, <4>1, <4>2
    <3>3. CASE ~BindOpen(s)
      <4>1. binding'[g] = run[s].message
        BY <1>6, <2>2, <3>3
      <4>2. QED
        BY <1>5, <3>1, <4>1
    <3>4. QED
      BY <3>2, <3>3
  <2>3. QED
    BY <2>1, <2>2
<1>9. run'[s].at = "write" => binding'[Goal(s)'] = Truncated
  BY <1>2, <1>3, <1>6
<1>10. run'[s].at \in {"write", "move"} /\ chat' = chat
  BY <1>1, <1>2
<1>11. ASSUME NEW g \in Goals
       PROVE  /\ binding'[g] \in Ids' => /\ (Roots(g) \ unbound)' \subseteq {binding'[g]}
                                         /\ \A i \in Replies(g)' : chat'[i].root = binding'[g]
              /\ binding'[g] \notin Ids' => /\ (Roots(g) \ unbound)' \subseteq Unsaved(s, g)'
                                            /\ Replies(g)' = {}
  BY <1>4, <1>8, <1>10
<1>12. QED
  BY <1>9, <1>10, <1>11 DEF ThreadInv

LEMMA NextThreads ==
  ASSUME NEW s, Senders = {s}, TypeInv, ChatInv, ThreadInv(s), [Next]_vars
  PROVE  ThreadInv(s)'
<1>1. ASSUME UNCHANGED <<chat, binding, run, history>>
      PROVE  ThreadInv(s)'
  <2>1. UNCHANGED <<chat, binding, run, unbound>>
    BY <1>1 DEF history
  <2>2. QED
    BY <2>1 DEF ThreadInv, Ids, Roots, Replies, Unsaved, Goal, Current
<1>2. CASE SendMove(s) \/ CrashSender(s)
  <2>1. /\ run'[s].at \in {"idle", "loop"} /\ UNCHANGED <<chat, binding>>
        /\ unbound \subseteq unbound'
    BY <1>2, LeavesNote DEF SendMove, CrashSender, files, history
  <2>2. \A g \in Goals : Unsaved(s, g) \subseteq unbound'
    BY <1>2 DEF Unsaved, SendMove, CrashSender, At
  <2>3. QED
    BY <2>1, <2>2, SameThreads
<1>3. CASE UNCHANGED vars
  BY <1>1, <1>3 DEF vars, files
<1>4. CASE Next
  BY <1>1, <1>2, <1>4, SenderSteps, QuietThreads, CallThreads, BindThreads
<1>5. QED
  BY <1>3, <1>4

\* Run by one sender, with any number of enqueuers, lost message ids, failing
\* calls and kills, a goal has one root message, not counting those whose id
\* was lost, and its replies are in one thread (notify-send-outbox).
THEOREM OneSenderOneThread ==
  ASSUME NEW s, Senders = {s}
  PROVE  Spec => []OneThreadPerGoal
<1> DEFINE Inv == TypeInv /\ ChatInv /\ ThreadInv(s)
<1>1. Init => Inv
  BY InitType, InitChat, InitThreads
<1>2. Inv /\ [Next]_vars => Inv'
  BY StepType, StepChat, NextThreads
<1>3. Inv => OneThreadPerGoal
  <2> SUFFICES ASSUME ThreadInv(s), NEW g \in Goals
               PROVE  /\ Cardinality(Roots(g) \ unbound) <= 1
                      /\ \A i, j \in Replies(g) : chat[i].root = chat[j].root
    BY DEF OneThreadPerGoal
  <2>1. \E x : Roots(g) \ unbound \subseteq {x}
    BY DEF ThreadInv, Unsaved
  <2>2. PICK x : Roots(g) \ unbound \subseteq {x}
    BY <2>1
  <2> DEFINE live == Roots(g) \ unbound
  <2>3. IsFiniteSet({x}) /\ Cardinality({x}) = 1 /\ live \in SUBSET {x}
    BY <2>2, FS_Singleton
  <2> HIDE DEF live
  <2>6. Cardinality(live) <= Cardinality({x})
    BY <2>3, FS_Subset
  <2>4. \A i, j \in Replies(g) : chat[i].root = chat[j].root
    BY DEF ThreadInv
  <2>5. QED
    BY <2>3, <2>4, <2>6 DEF live
<1> HIDE DEF Inv
<1>4. QED
  BY <1>1, <1>2, <1>3, PTL DEF Spec

-----------------------------------------------------------------------------
(* One delivery for each notify-enqueue.                                   *)

\* The deliveries of a note that count.
Kept(n) == Deliveries(n) \ unmoved

\* The note at hand has been delivered and is still to be moved.
Done(s, n) == run[s].message # 0 /\ Current(s) = n

\* One delivery is owed for a note in the outbox.
Owed(s, n) == IF outbox[n] # "absent" /\ ~Done(s, n) THEN 1 ELSE 0

CountInv(s) ==
  \A n \in Notes : Cardinality(Kept(n)) + Owed(s, n) <= Cardinality(Asked(n))

\* An open file that is still in the outbox; the note a sender is at is there
\* too, and nobody else takes it away.
HoldInv(s) ==
  /\ \A e \in Enqueuers : writing[e] # None /\ e \notin moved => outbox[writing[e]] # "absent"
  /\ run[s].at \in {"idle", "loop", "bind", "call"} \/ run[s].dry => run[s].message = 0
  /\ run[s].at \notin {"idle", "loop"} => outbox[Current(s)] # "absent"
  /\ run[s].message # 0 => run[s].message \in Kept(Current(s))

LEMMA CountsAreFinite ==
  ASSUME TypeInv
  PROVE  /\ \A n : IsFiniteSet(Kept(n)) /\ Cardinality(Kept(n)) \in Nat
         /\ \A n : IsFiniteSet(Asked(n)) /\ Cardinality(Asked(n)) \in Nat
<1>1. Len(chat) \in Nat /\ Len(order) \in Nat
  BY DEF TypeInv, TypeOK
<1>2. IsFiniteSet(1..Len(chat)) /\ IsFiniteSet(1..Len(order))
  BY <1>1, FS_Interval
<1>3. \A n : Kept(n) \in SUBSET (1..Len(chat)) /\ Asked(n) \in SUBSET (1..Len(order))
  BY DEF Kept, Deliveries, Ids, Asked
<1>4. \A n : IsFiniteSet(Kept(n)) /\ IsFiniteSet(Asked(n))
  BY <1>2, <1>3, FS_Subset
<1>5. QED
  BY <1>4, FS_CardinalityType

LEMMA InitOnce ==
  ASSUME NEW s \in Senders, Init
  PROVE  HoldInv(s) /\ CountInv(s)
<1>1. \A n : Kept(n) = {}
  BY DEF Init, Kept, Deliveries, Ids
<1>2. run[s] = Idle /\ Idle.at = "idle" /\ Idle.message = 0
  BY DEF Init, Idle
<1>3. HoldInv(s)
  BY <1>2 DEF Init, HoldInv
<1>4. \A n \in Notes : Owed(s, n) = 0
  BY DEF Init, Owed
<1>5. Cardinality({}) = 0
  BY FS_EmptySet
<1>6. \A n : Cardinality(Asked(n)) \in Nat
  BY InitType, CountsAreFinite
<1>7. ASSUME NEW n \in Notes
      PROVE  Cardinality(Kept(n)) + Owed(s, n) <= Cardinality(Asked(n))
  BY <1>1, <1>4, <1>5, <1>6
<1>8. QED
  BY <1>3, <1>7 DEF CountInv

\* A step after which no more has been delivered and no more is owed, or as
\* much less of the other.
LEMMA SameCounts ==
  ASSUME NEW s, CountInv(s), UNCHANGED <<chat, order, unmoved>>,
         \A n \in Notes : Owed(s, n)' = 0 \/ Owed(s, n)' = Owed(s, n), TypeInv
  PROVE  CountInv(s)'
<1>1. \A n : Kept(n)' = Kept(n) /\ Asked(n)' = Asked(n)
  BY DEF Kept, Deliveries, Ids, Asked
<1>2. ASSUME NEW n \in Notes
      PROVE  Cardinality(Kept(n)') + Owed(s, n)' <= Cardinality(Asked(n)')
  <2>1. /\ Cardinality(Kept(n)) \in Nat /\ Cardinality(Asked(n)) \in Nat
        /\ Owed(s, n) \in Nat
    BY CountsAreFinite DEF Owed
  <2>2. Cardinality(Kept(n)) + Owed(s, n) <= Cardinality(Asked(n))
    BY DEF CountInv
  <2>3. CASE Owed(s, n)' = 0
    <3>1. Cardinality(Kept(n)) <= Cardinality(Asked(n))
      BY <2>1, <2>2
    <3>2. Cardinality(Kept(n)) + 0 = Cardinality(Kept(n))
      BY <2>1
    <3>3. QED
      BY <1>1, <2>3, <3>1, <3>2
  <2>4. CASE Owed(s, n)' = Owed(s, n)
    BY <1>1, <2>2, <2>4
  <2>5. QED
    BY <2>3, <2>4
<1>3. QED
  BY <1>2 DEF CountInv

\* An enqueue asks for one delivery more, and owes at most that.
LEMMA EnqueueOnce ==
  ASSUME NEW s \in Senders, NEW e \in Enqueuers, TypeInv, HoldInv(s), CountInv(s),
         \/ \E n \in Notes : EnqueueOpen(e, n)
         \/ EnqueueWrite(e)
         \/ CrashEnqueuer(e),
         UNCHANGED <<chat, binding, run, history>>
  PROVE  HoldInv(s)' /\ CountInv(s)'
<1>1. /\ UNCHANGED <<chat, unmoved, run>> /\ Current(s)' = Current(s)
      /\ outbox \in [Notes -> {"absent", "empty", "whole"}]
      /\ writing \in [Enqueuers -> Notes \union {None}]
  BY DEF history, Current, TypeInv, TypeOK
<1>2. \A n : Kept(n)' = Kept(n) /\ Done(s, n)' = Done(s, n)
  BY <1>1 DEF Kept, Deliveries, Ids, Done
<1>3. ASSUME \A n \in Notes : outbox[n] # "absent" => outbox'[n] # "absent",
             \A q \in Enqueuers : writing'[q] # None /\ q \notin moved'
                                  => outbox'[writing'[q]] # "absent"
      PROVE  HoldInv(s)'
  <2>1. run[s].at \notin {"idle", "loop"} => Current(s) \in Notes
    BY CurrentIsNote DEF TypeInv, TypeOK, HasNote, Runs
  <2>2. run[s].at \notin {"idle", "loop"} => outbox'[Current(s)] # "absent"
    BY <1>3, <2>1 DEF HoldInv
  <2>3. run[s].message # 0 => run[s].message \in Kept(Current(s))'
    BY <1>1 DEF HoldInv, Kept, Deliveries, Ids
  <2>4. QED
    BY <1>1, <1>3, <2>2, <2>3 DEF HoldInv
<1>4. CASE CrashEnqueuer(e)
  <2>1. UNCHANGED <<outbox, order>> /\ writing' = [writing EXCEPT ![e] = None]
        /\ moved' = moved \ {e}
    BY <1>4 DEF CrashEnqueuer, files
  <2>2. \A q \in Enqueuers : writing'[q] # None /\ q \notin moved'
                             => outbox'[writing'[q]] # "absent"
    BY <1>1, <2>1 DEF HoldInv
  <2>3. \A n : Owed(s, n)' = Owed(s, n)
    BY <1>2, <2>1 DEF Owed
  <2>4. QED
    BY <1>1, <1>3, <2>1, <2>2, <2>3, SameCounts
<1>5. CASE EnqueueWrite(e)
  <2>1. /\ UNCHANGED order /\ writing' = [writing EXCEPT ![e] = None]
        /\ moved' = moved \ {e} /\ writing[e] # None /\ writing[e] \in Notes
        /\ outbox' = IF e \in moved THEN outbox ELSE [outbox EXCEPT ![writing[e]] = "whole"]
    BY <1>1, <1>5 DEF EnqueueWrite
  <2>2. \A n \in Notes : (outbox'[n] # "absent") <=> (outbox[n] # "absent")
    BY <1>1, <2>1 DEF HoldInv
  <2>3. \A q \in Enqueuers : writing'[q] # None /\ q \notin moved'
                             => outbox'[writing'[q]] # "absent"
    <3> SUFFICES ASSUME NEW q \in Enqueuers, writing'[q] # None, q \notin moved'
                 PROVE  outbox'[writing'[q]] # "absent"
      OBVIOUS
    <3>1. q # e /\ writing'[q] = writing[q] /\ writing[q] \in Notes /\ q \notin moved
      BY <1>1, <2>1
    <3>2. outbox[writing[q]] # "absent"
      BY <3>1 DEF HoldInv
    <3>3. QED
      BY <2>2, <3>1, <3>2
  <2>4. \A n \in Notes : Owed(s, n)' = Owed(s, n)
    BY <1>2, <2>2 DEF Owed
  <2>5. QED
    BY <1>1, <1>3, <2>1, <2>2, <2>3, <2>4, SameCounts
<1>6. ASSUME NEW m \in Notes, EnqueueOpen(e, m)
      PROVE  HoldInv(s)' /\ CountInv(s)'
  <2>1. /\ outbox' = [outbox EXCEPT ![m] = "empty"]
        /\ writing' = [writing EXCEPT ![e] = m]
        /\ order' = Append(order, m) /\ moved' = moved
    BY <1>6 DEF EnqueueOpen
  <2>2. \A n \in Notes : outbox[n] # "absent" => outbox'[n] # "absent"
    BY <1>1, <2>1
  <2>3. \A q \in Enqueuers : writing'[q] # None /\ q \notin moved'
                             => outbox'[writing'[q]] # "absent"
    BY <1>1, <2>1 DEF HoldInv
  <2>4. /\ Asked(m)' = Asked(m) \union {Len(order) + 1} /\ Len(order) + 1 \notin Asked(m)
        /\ \A n \in Notes \ {m} : Asked(n)' = Asked(n)
    <3>1. order \in Seq(Notes) /\ Len(order) \in Nat
      BY DEF TypeInv, TypeOK
    <3>2. /\ Len(order') = Len(order) + 1 /\ order'[Len(order) + 1] = m
          /\ \A i \in 1..Len(order) : order'[i] = order[i]
      BY <2>1, <3>1
    <3>3. 1..Len(order') = (1..Len(order)) \union {Len(order) + 1}
          /\ Len(order) + 1 \notin 1..Len(order)
      BY <3>1, <3>2
    <3>4. QED
      BY <3>2, <3>3 DEF Asked
  <2>5. ASSUME NEW n \in Notes
        PROVE  Cardinality(Kept(n)') + Owed(s, n)' <= Cardinality(Asked(n)')
    <3>1. Cardinality(Kept(n)) + Owed(s, n) <= Cardinality(Asked(n))
      BY DEF CountInv
    <3>2. /\ Cardinality(Kept(n)) \in Nat /\ Cardinality(Asked(n)) \in Nat
          /\ Owed(s, n) \in {0, 1} /\ Owed(s, n)' \in {0, 1}
      BY CountsAreFinite DEF Owed
    <3>3. CASE n = m
      <4>1. Cardinality(Asked(n)') = Cardinality(Asked(n)) + 1
        BY <2>4, <3>3, CountsAreFinite, FS_AddElement
      <4>2. QED
        BY <1>2, <3>1, <3>2, <4>1
    <3>4. CASE n # m
      <4>1. Asked(n)' = Asked(n) /\ Owed(s, n)' = Owed(s, n)
        BY <1>1, <1>2, <2>1, <2>4, <3>4 DEF Owed
      <4>2. QED
        BY <1>2, <3>1, <4>1
    <3>5. QED
      BY <3>3, <3>4
  <2>6. QED
    BY <1>3, <2>2, <2>3, <2>5 DEF CountInv
<1>7. QED
  BY <1>4, <1>5, <1>6

\* A sender's step that neither delivers nor moves, with or without a note.
LEMMA QuietOnce ==
  ASSUME NEW s \in Senders, TypeInv, HoldInv(s), CountInv(s),
         UNCHANGED <<chat, outbox, order, unmoved, writing, moved>>,
         \/ /\ run[s].message = 0 /\ run'[s].message = 0
            /\ run'[s].at \notin {"idle", "loop"} =>
                 Stays(s) /\ outbox[Current(s)] # "absent"
         \/ /\ run[s].at \in {"open", "write"} /\ run'[s].at \in {"write", "move"}
            /\ Stays(s) /\ run'[s].message = run[s].message /\ run'[s].dry = run[s].dry
  PROVE  HoldInv(s)' /\ CountInv(s)'
<1>1. \A n : Kept(n)' = Kept(n)
  BY DEF Kept, Deliveries, Ids
<1>2. Stays(s) => Current(s)' = Current(s)
  BY StaysAtNote
<1>3. \A n : Owed(s, n)' = Owed(s, n)
  BY <1>2 DEF Owed, Done
<1>4. \A e \in Enqueuers : writing'[e] # None /\ e \notin moved'
                           => outbox'[writing'[e]] # "absent"
  BY DEF HoldInv
<1>5. (run[s].message # 0 => run[s].message \in Kept(Current(s)))'
  <2>1. run'[s].message # 0 => /\ Current(s)' = Current(s)
                               /\ run'[s].message \in Kept(Current(s))
    BY <1>2 DEF HoldInv
  <2>2. QED
    BY <2>1 DEF Kept, Deliveries, Ids
<1>6. HoldInv(s)'
  BY <1>2, <1>4, <1>5 DEF HoldInv
<1>7. QED
  BY <1>3, <1>6, SameCounts

\* A delivery that counts is the one that was owed; the others do not count.
LEMMA CallOnce ==
  ASSUME NEW s \in Senders, TypeInv, HoldInv(s), CountInv(s), Call(s)
  PROVE  HoldInv(s)' /\ CountInv(s)'
<1>1. /\ run[s] \in Runs /\ run \in [Senders -> Runs] /\ run[s].at = "call"
      /\ UNCHANGED <<outbox, order, writing, moved>> /\ run[s].paths # {}
  <2>1. /\ run[s] \in Runs /\ run \in [Senders -> Runs] /\ run[s].at = "call"
        /\ UNCHANGED <<outbox, order, writing, moved>>
    BY DEF Call, CallSucceeds, CallHidesId, CallFails, CallTimesOut, files, At, TypeInv,
           TypeOK
  <2>2. QED
    BY <2>1 DEF TypeInv, HasNote
<1>2. run[s].message = 0 /\ outbox[Current(s)] # "absent" /\ Current(s) \in Notes
  BY <1>1, CurrentIsNote DEF HoldInv, Runs
<1>3. Deliver(s) => chat' # chat
  BY <1>1, DeliverAdds
<1>4. CASE UNCHANGED chat
  <2>1. UNCHANGED unmoved /\ run'[s].message = 0 /\ (Stays(s) \/ run'[s].at = "idle")
    <3>1. CASE CallSucceeds(s)
      <4>1. run' = [run EXCEPT ![s].at = "move", ![s].ok = TRUE]
        BY <1>3, <1>4, <3>1 DEF CallSucceeds
      <4>2. QED
        BY <1>1, <1>2, <3>1, <4>1 DEF CallSucceeds, history, Runs, Stays
    <3>2. CASE CallHidesId(s)
      BY <1>3, <1>4, <3>2 DEF CallHidesId
    <3>3. CASE CallFails(s)
      <4>1. run' = [run EXCEPT ![s].at = "move"]
        BY <1>3, <1>4, <3>3 DEF CallFails, DeliveredUnknown
      <4>2. QED
        BY <1>1, <1>2, <3>3, <4>1 DEF CallFails, Runs, Stays
    <3>4. CASE CallTimesOut(s)
      BY <1>3, <1>4, <3>4, LeavesNote DEF CallTimesOut, DeliveredUnknown
    <3>5. QED
      BY <3>1, <3>2, <3>3, <3>4 DEF Call
  <2>2. QED
    BY <1>1, <1>2, <1>4, <2>1, QuietOnce
<1>5. ASSUME Deliver(s)
      PROVE  /\ \A n : Deliveries(n)' = IF n = Current(s) THEN Deliveries(n) \union {Delivered}
                                        ELSE Deliveries(n)
             /\ Delivered # 0 /\ Delivered \notin unmoved
             /\ \A n : Delivered \notin Deliveries(n)
  <2>1. Delivered \notin Ids
    BY <1>1, <1>5, ChatGrows
  <2>2. QED
    BY <1>1, <1>5, <2>1, DeliverAdds DEF TypeInv, TypeOK, Deliveries
<1>6. \A e \in Enqueuers : writing'[e] # None /\ e \notin moved'
                           => outbox'[writing'[e]] # "absent"
  BY <1>1 DEF HoldInv
<1>7. CASE CallTimesOut(s) /\ Deliver(s)
  <2>1. unmoved' = unmoved \union {Delivered} /\ run'[s] = Idle
    BY <1>3, <1>7, LeavesNote DEF CallTimesOut
  <2>2. run'[s].message = 0 /\ run'[s].at = "idle"
    BY <2>1, LeavesNote
  <2>3. \A n : Kept(n)' = Kept(n)
    BY <1>5, <1>7, <2>1 DEF Kept
  <2>4. \A n : Owed(s, n)' = Owed(s, n) /\ Asked(n)' = Asked(n)
    BY <1>1, <1>2, <2>2 DEF Owed, Done, Asked
  <2>5. CountInv(s)'
    BY <2>3, <2>4 DEF CountInv
  <2>6. QED
    BY <1>6, <2>2, <2>5 DEF HoldInv
<1>8. CASE (CallSucceeds(s) \/ CallHidesId(s) \/ CallFails(s)) /\ Deliver(s)
  <2>1. /\ UNCHANGED unmoved /\ run'[s].message = Delivered /\ Stays(s)
        /\ run'[s].at \in {"open", "move"} /\ ~run'[s].dry
    <3>1. CASE CallSucceeds(s)
      <4>1. ~run[s].dry
        BY <1>3, <1>8, <3>1 DEF CallSucceeds
      <4>2. run' = [run EXCEPT ![s].at = IF IsRoot(s) THEN "open" ELSE "move",
                                ![s].message = Delivered, ![s].ok = TRUE]
        BY <3>1, <4>1 DEF CallSucceeds
      <4>3. /\ run'[s].at = IF IsRoot(s) THEN "open" ELSE "move"
            /\ run'[s].message = Delivered /\ Stays(s) /\ run'[s].dry = run[s].dry
        BY <1>1, <4>2 DEF Runs, Stays
      <4>4. QED
        BY <3>1, <4>1, <4>3 DEF CallSucceeds, history
    <3>2. CASE CallHidesId(s)
      BY <1>1, <3>2 DEF CallHidesId, Runs, Stays
    <3>3. CASE CallFails(s)
      <4>1. /\ run' = [run EXCEPT ![s].at = "move", ![s].message = Delivered]
            /\ ~run[s].dry
        BY <1>3, <1>8, <3>3 DEF CallFails, DeliveredUnknown
      <4>2. QED
        BY <1>1, <3>3, <4>1 DEF CallFails, Runs, Stays
    <3>4. QED
      BY <1>8, <3>1, <3>2, <3>3
  <2>2. Current(s)' = Current(s)
    BY <2>1, StaysAtNote
  <2>3. \A n : Kept(n)' = IF n = Current(s) THEN Kept(n) \union {Delivered} ELSE Kept(n)
    BY <1>5, <1>8, <2>1 DEF Kept
  <2>4. \A n : Asked(n)' = Asked(n)
    BY <1>1 DEF Asked
  <2>5. ASSUME NEW n \in Notes
        PROVE  Cardinality(Kept(n)') + Owed(s, n)' <= Cardinality(Asked(n)')
    <3>1. Cardinality(Kept(n)) + Owed(s, n) <= Cardinality(Asked(n))
      BY DEF CountInv
    <3>2. CASE n = Current(s)
      <4>1. Owed(s, n) = 1 /\ Owed(s, n)' = 0
        BY <1>1, <1>2, <1>5, <1>8, <2>1, <2>2, <3>2 DEF Owed, Done
      <4>2. Cardinality(Kept(n)') = Cardinality(Kept(n)) + 1
        <5>1. Delivered \notin Kept(n)
          BY <1>5, <1>8 DEF Kept
        <5>2. QED
          BY <2>3, <3>2, <5>1, CountsAreFinite, FS_AddElement
      <4>3. Cardinality(Kept(n)) \in Nat
        BY CountsAreFinite
      <4>4. QED
        BY <2>4, <3>1, <4>1, <4>2, <4>3
    <3>3. CASE n # Current(s)
      <4>1. Owed(s, n)' = Owed(s, n)
        BY <1>1, <2>2, <3>3 DEF Owed, Done
      <4>2. QED
        BY <2>3, <2>4, <3>1, <3>3, <4>1
    <3>4. QED
      BY <3>2, <3>3
  <2>6. outbox'[Current(s)'] # "absent"
    BY <1>1, <1>2, <2>2
  <2>7. Delivered \in Kept(Current(s))'
    <3>1. PICK n : n = Current(s)
      OBVIOUS
    <3>2. Delivered \in Kept(n)' /\ n = Current(s)'
      BY <2>2, <2>3, <3>1
    <3>3. QED
      BY <3>2 DEF Kept, Deliveries
  <2>8. QED
    BY <1>6, <2>1, <2>5, <2>6, <2>7 DEF HoldInv, CountInv
<1>9. QED
  BY <1>4, <1>7, <1>8
  DEF Call, CallSucceeds, CallHidesId, CallFails, CallTimesOut, DeliveredUnknown

\* A note that was delivered leaves the outbox before the next is looked at.
LEMMA MoveOnce ==
  ASSUME NEW s \in Senders, TypeInv, HoldInv(s), CountInv(s), SendMove(s)
  PROVE  HoldInv(s)' /\ CountInv(s)'
<1>1. /\ run[s].at = "move" /\ UNCHANGED <<chat, order, unmoved, writing>>
      /\ run[s].paths # {} /\ run[s] \in Runs
      /\ outbox \in [Notes -> {"absent", "empty", "whole"}]
      /\ writing \in [Enqueuers -> Notes \union {None}]
  BY DEF SendMove, At, history, TypeInv, TypeOK, HasNote
<1>2. Current(s) \in Notes /\ outbox[Current(s)] # "absent"
  BY <1>1, CurrentIsNote DEF HoldInv, Runs
<1>3. run'[s].message = 0 /\ run'[s].at \in {"idle", "loop"}
  BY LeavesNote DEF SendMove
<1>4. CASE ~MovesToSent(s) /\ ~MovesToFailed(s)
  <2>1. run[s].dry /\ UNCHANGED <<outbox, moved>>
    BY <1>4 DEF SendMove, MovesToSent, MovesToFailed
  <2>2. run[s].message = 0
    BY <2>1 DEF HoldInv
  <2>3. QED
    BY <1>1, <1>3, <2>1, <2>2, QuietOnce
<1>5. CASE MovesToSent(s) \/ MovesToFailed(s)
  <2>1. /\ outbox' = [outbox EXCEPT ![Current(s)] = "absent"]
        /\ moved' = moved \union {e \in Enqueuers : writing[e] = Current(s)}
    BY <1>2, <1>5 DEF SendMove
  <2>2. \A e \in Enqueuers : writing'[e] # None /\ e \notin moved'
                             => outbox'[writing'[e]] # "absent"
    BY <1>1, <2>1 DEF HoldInv
  <2>3. ASSUME NEW n \in Notes
        PROVE  Owed(s, n)' = 0 \/ Owed(s, n)' = Owed(s, n)
    <3>1. CASE n = Current(s)
      BY <1>1, <2>1, <3>1 DEF Owed
    <3>2. CASE n # Current(s)
      BY <1>1, <1>3, <2>1, <3>2 DEF Owed, Done
    <3>3. QED
      BY <3>1, <3>2
  <2>4. CountInv(s)'
    BY <1>1, <2>3, SameCounts
  <2>5. QED
    BY <1>3, <2>2, <2>4 DEF HoldInv
<1>6. QED
  BY <1>4, <1>5

\* A sender that is killed has delivered its note for nothing: it is owed again.
LEMMA CrashOnce ==
  ASSUME NEW s \in Senders, TypeInv, HoldInv(s), CountInv(s), CrashSender(s)
  PROVE  HoldInv(s)' /\ CountInv(s)'
<1>1. /\ UNCHANGED <<chat, outbox, order, writing, moved>> /\ run'[s] = Idle
      /\ unmoved' = unmoved \union ({run[s].message} \ {0})
  BY LeavesNote DEF CrashSender, files
<1>2. run'[s].message = 0 /\ run'[s].at = "idle"
  BY <1>1, LeavesNote
<1>3. /\ \A n : Kept(n)' = Kept(n) \ ({run[s].message} \ {0})
      /\ \A n : Asked(n)' = Asked(n)
  BY <1>1 DEF Kept, Deliveries, Ids, Asked
<1>4. ASSUME NEW n \in Notes
      PROVE  Cardinality(Kept(n)') + Owed(s, n)' <= Cardinality(Asked(n)')
  <2>1. Cardinality(Kept(n)) + Owed(s, n) <= Cardinality(Asked(n))
    BY DEF CountInv
  <2>2. /\ Cardinality(Kept(n)) \in Nat /\ Cardinality(Asked(n)) \in Nat
        /\ Owed(s, n) \in {0, 1} /\ Owed(s, n)' \in {0, 1}
    BY CountsAreFinite DEF Owed
  <2>3. CASE Done(s, n)
    <3>1. run[s].message \in Kept(n) /\ run[s].message # 0 /\ Owed(s, n) = 0
      BY <2>3 DEF Done, HoldInv, Owed
    <3>2. Cardinality(Kept(n)') = Cardinality(Kept(n)) - 1
      <4>1. Kept(n)' = Kept(n) \ {run[s].message}
        BY <1>3, <3>1
      <4>2. IsFiniteSet(Kept(n))
        BY CountsAreFinite
      <4> DEFINE m == run[s].message
      <4>3. m \in Kept(n) /\ Kept(n)' = Kept(n) \ {m}
        BY <3>1, <4>1
      <4> HIDE DEF m
      <4>4. QED
        BY <4>2, <4>3, FS_RemoveElement
    <3>3. QED
      BY <1>3, <2>1, <2>2, <3>1, <3>2
  <2>4. CASE ~Done(s, n)
    <3>1. Owed(s, n)' = Owed(s, n)
      BY <1>1, <1>2, <2>4 DEF Owed, Done
    <3>2. Kept(n)' \in SUBSET Kept(n)
      BY <1>3
    <3>3. Cardinality(Kept(n)') <= Cardinality(Kept(n)) /\ Cardinality(Kept(n)') \in Nat
      BY <3>2, CountsAreFinite, FS_Subset, FS_CardinalityType
    <3>4. QED
      BY <1>3, <2>1, <2>2, <3>1, <3>3
  <2>5. QED
    BY <2>3, <2>4
<1>5. HoldInv(s)'
  BY <1>1, <1>2 DEF HoldInv
<1>6. QED
  BY <1>4, <1>5 DEF CountInv

LEMMA NextOnce ==
  ASSUME NEW s, Senders = {s}, TypeInv, HoldInv(s), CountInv(s), [Next]_vars
  PROVE  HoldInv(s)' /\ CountInv(s)'
<1>1. run[s] \in Runs /\ run \in [Senders -> Runs]
  BY DEF TypeInv, TypeOK
<1>2. CASE UNCHANGED vars
  <2>1. UNCHANGED <<chat, outbox, order, unmoved, writing, moved, run>>
    BY <1>2 DEF vars, files, history
  <2>2. HoldInv(s)'
    BY <2>1 DEF HoldInv, Kept, Deliveries, Ids, Current
  <2>3. /\ \A n : Kept(n)' = Kept(n) /\ Asked(n)' = Asked(n)
        /\ \A n : Owed(s, n)' = Owed(s, n)
    BY <2>1 DEF Kept, Deliveries, Ids, Asked, Owed, Done, Current
  <2>4. QED
    BY <2>2, <2>3 DEF CountInv
<1>3. ASSUME NEW dry \in BOOLEAN, NEW limit \in Limits, SendBegin(s, dry, limit)
      PROVE  HoldInv(s)' /\ CountInv(s)'
  <2>1. run[s].message = 0 /\ UNCHANGED <<chat, outbox, order, unmoved, writing, moved>>
    BY <1>3 DEF SendBegin, At, HoldInv, files, history
  <2>2. run'[s].message = 0 /\ run'[s].at = "loop"
    BY <1>3, LeavesNote
  <2>3. QED
    BY <2>1, <2>2, QuietOnce
<1>4. CASE SendEnd(s) \/ SendRead(s) \/ SendBind(s)
  <2>1. run[s].message = 0 /\ UNCHANGED <<chat, outbox, order, unmoved, writing, moved>>
    BY <1>4 DEF SendEnd, SendRead, SendBind, At, HoldInv, files, history
  <2>2. CASE Stop(s)
    BY <2>1, <2>2, LeavesNote, QuietOnce
  <2>3. CASE SendRead(s) /\ ~Stop(s)
    <3>1. /\ run'[s].message = run[s].message /\ Stays(s)
          /\ outbox[Current(s)] = "whole"
      BY <1>1, <2>3 DEF SendRead, Stays, Runs
    <3>2. QED
      BY <2>1, <3>1, QuietOnce
  <2>4. CASE SendBind(s) /\ ~Stop(s)
    <3>1. run'[s].message = run[s].message /\ Stays(s)
      BY <1>1, <2>4 DEF SendBind, Stays, Runs
    <3>2. outbox[Current(s)] # "absent"
      BY <2>4 DEF SendBind, At, HoldInv
    <3>3. QED
      BY <2>1, <3>1, <3>2, QuietOnce
  <2>5. QED
    BY <1>4, <2>2, <2>3, <2>4 DEF SendEnd
<1>5. CASE BindOpen(s) \/ BindWrite(s)
  <2>1. /\ run[s].at \in {"open", "write"} /\ run'[s].at \in {"write", "move"} /\ Stays(s)
        /\ run'[s].message = run[s].message /\ run'[s].dry = run[s].dry
        /\ UNCHANGED <<chat, outbox, order, unmoved, writing, moved>>
    BY <1>1, <1>5 DEF BindOpen, BindWrite, At, Stays, Runs, history
  <2>2. QED
    BY <2>1, QuietOnce
<1>6. CASE Next
  BY <1>3, <1>4, <1>5, <1>6, SenderSteps, EnqueueOnce, CallOnce, MoveOnce, CrashOnce
<1>7. QED
  BY <1>2, <1>6

\* Run by one sender, however often the same note is enqueued, even while it
\* is sent, and whatever fails: a note is delivered at most once for each
\* notify-enqueue, not counting deliveries after which the sender ended
\* before it had moved the note (notify-enqueue, notify-send-outbox).
THEOREM OneSenderDeliversOnce ==
  ASSUME NEW s, Senders = {s}
  PROVE  Spec => []DeliveredOnce
<1> DEFINE Inv == TypeInv /\ HoldInv(s) /\ CountInv(s)
<1>1. Init => Inv
  BY InitType, InitOnce
<1>2. Inv /\ [Next]_vars => Inv'
  BY StepType, NextOnce
<1>3. Inv => DeliveredOnce
  <2> SUFFICES ASSUME TypeInv, CountInv(s), NEW n \in Notes
               PROVE  Cardinality(Deliveries(n) \ unmoved) <= Cardinality(Asked(n))
    BY DEF DeliveredOnce
  <2>1. Cardinality(Kept(n)) + Owed(s, n) <= Cardinality(Asked(n))
    BY DEF CountInv
  <2>2. /\ Cardinality(Kept(n)) \in Nat /\ Cardinality(Asked(n)) \in Nat
        /\ Owed(s, n) \in {0, 1}
    BY CountsAreFinite DEF Owed
  <2>3. Cardinality(Kept(n)) <= Cardinality(Asked(n))
    BY <2>1, <2>2
  <2>4. QED
    BY <2>3 DEF Kept
<1> HIDE DEF Inv
<1>4. QED
  BY <1>1, <1>2, <1>3, PTL DEF Spec
=============================================================================
