------------------------------- MODULE Outbox -------------------------------
(***************************************************************************)
(* Notifications: notify-enqueue writes a payload to outbox/<hash>.json,   *)
(* notify-send-outbox sends the files in the order of their names through  *)
(* lark-cli and moves each to outbox-sent or outbox-failed.  A target with *)
(* thread_per_goal keeps one conversation per goal: the message id of the  *)
(* goal's root message is saved in conversations/goals, and later          *)
(* notifications are replies to it.                                        *)
(*                                                                         *)
(* Nothing is locked.  A file is written by truncation and one write; a    *)
(* writer keeps the file it opened when a sender renames it.               *)
(***************************************************************************)
EXTENDS Integers, Sequences, FiniteSets

CONSTANTS
  Enqueuers,   \* processes that run notify-enqueue
  Senders,     \* processes that run notify-send-outbox
  N,           \* payloads are 1..N, in the order of their file names
  Goals,
  GoalOf,      \* the goal of each payload
  TargetOf,    \* its target: see Targets
  Limits,      \* values of --limit; None is no limit
  MaxEnqueues, \* bound: notify-enqueue commands
  MaxFaults,   \* bound: calls of lark-cli that fail and processes killed
  Truncated,   \* a binding that cannot be parsed
  None

Notes == 1..N

\* thread_per_goal with and without a chat_id, and everything else.
Targets == {"thread", "thread_no_chat", "direct"}

ASSUME NotesAssumption ==
  /\ N \in Nat
  /\ GoalOf \in [Notes -> Goals]
  /\ TargetOf \in [Notes -> Targets]

ASSUME LimitsAssumption == Limits \subseteq Nat \union {None} /\ None \notin Nat

ASSUME TruncatedAssumption == Truncated \notin Nat \union {None}

ASSUME BoundsAssumption == MaxEnqueues \in Nat /\ MaxFaults \in Nat

ASSUME ProcessesAssumption == Senders \intersect Enqueuers = {}

VARIABLES
  \* The files.
  outbox,    \* note |-> "absent", "empty" or "whole"
  sent,      \* notes in outbox-sent
  failed,    \* notes in outbox-failed
  binding,   \* goal |-> root message id, or None, or Truncated
  \* The chat: every message delivered; its index is its message id.
  chat,
  \* The processes.
  writing,   \* the note an enqueuer has open, or None
  moved,     \* enqueuers whose open file is no longer in the outbox
  run,       \* the locals of a sender
  \* History.
  order,     \* the notes in the order of their notify-enqueue commands
  unbound,   \* root messages whose id was lost before it was saved
  unmoved,   \* messages whose sender ended before it moved the note
  \* Bound.
  faults

files == <<outbox, sent, failed, binding>>
history == <<unbound, unmoved>>
vars == <<files, chat, writing, moved, run, order, history, faults>>

Steps == {"idle", "loop", "bind", "call", "open", "write", "move"}

\* What send_feishu_payload does with a payload; "none" before it decides.
Modes == {"none", "direct", "topic_root", "thread_reply"}

\* A message names the message it replies to; 0 is none.
Messages == [note : Notes, mode : Modes, root : Nat]

\* Of one run of notify-send-outbox: the paths left, --dry-run, and for the
\* payload at hand the mode, the root to reply to, the id of the message
\* that was delivered (0: none) and result["ok"].
Runs == [at : Steps, paths : SUBSET Notes, dry : BOOLEAN, mode : Modes,
         root : Nat, message : Nat, ok : BOOLEAN]

Idle == [at |-> "idle", paths |-> {}, dry |-> FALSE, mode |-> "none",
         root |-> 0, message |-> 0, ok |-> FALSE]

Init ==
  /\ outbox = [n \in Notes |-> "absent"]
  /\ sent = {} /\ failed = {}
  /\ binding = [g \in Goals |-> None]
  /\ chat = <<>>
  /\ writing = [e \in Enqueuers |-> None]
  /\ moved = {}
  /\ run = [s \in Senders |-> Idle]
  /\ order = <<>>
  /\ unbound = {} /\ unmoved = {}
  /\ faults = 0

-----------------------------------------------------------------------------
(* notify-enqueue: path.write_text.  The same payload has the same name.   *)

EnqueueOpen(e, n) ==
  /\ writing[e] = None
  /\ Len(order) < MaxEnqueues
  /\ outbox' = [outbox EXCEPT ![n] = "empty"]
  /\ writing' = [writing EXCEPT ![e] = n]
  /\ order' = Append(order, n)
  /\ UNCHANGED <<sent, failed, binding, chat, moved, run, history, faults>>

EnqueueWrite(e) ==
  /\ writing[e] # None
  /\ outbox' = IF e \in moved THEN outbox
               ELSE [outbox EXCEPT ![writing[e]] = "whole"]
  /\ writing' = [writing EXCEPT ![e] = None]
  /\ moved' = moved \ {e}
  /\ UNCHANGED <<sent, failed, binding, chat, run, order, history, faults>>

-----------------------------------------------------------------------------
(* notify-send-outbox.                                                     *)

Listed == {n \in Notes : outbox[n] # "absent"}

\* paths[:limit] of the sorted names.
FirstOf(S, limit) ==
  IF limit = None THEN S
  ELSE {n \in S : Cardinality({m \in S : m < n}) < limit}

\* The path the loop is at.
Current(s) == CHOOSE n \in run[s].paths : \A m \in run[s].paths : n <= m
Goal(s) == GoalOf[Current(s)]

At(s, step) == run[s].at = step

SendBegin(s, dry, limit) ==
  /\ At(s, "idle")
  /\ run' = [run EXCEPT ![s] = [Idle EXCEPT !.at = "loop", !.dry = dry,
                                            !.paths = FirstOf(Listed, limit)]]
  /\ UNCHANGED <<files, chat, writing, moved, order, history, faults>>

\* The run is over: normally, or because an exception was not caught.
Stop(s) == run' = [run EXCEPT ![s] = Idle]

SendEnd(s) ==
  /\ At(s, "loop")
  /\ run[s].paths = {}
  /\ Stop(s)
  /\ UNCHANGED <<files, chat, writing, moved, order, history, faults>>

\* Fault: a file that cannot be parsed is put out of the way first.
SendRead_Unlinks(s) ==
  /\ At(s, "loop")
  /\ run[s].paths # {}
  /\ \/ /\ outbox[Current(s)] # "whole"
        /\ outbox' = [outbox EXCEPT ![Current(s)] = "absent"]
        /\ moved' = moved \union {e \in Enqueuers : writing[e] = Current(s)}
        /\ Stop(s)
     \/ /\ outbox[Current(s)] = "whole"
        /\ run' = IF TargetOf[Current(s)] = "direct"
                  THEN [run EXCEPT ![s].at = "call", ![s].mode = "direct"]
                  ELSE [run EXCEPT ![s].at = "bind"]
        /\ UNCHANGED <<outbox, moved>>
  /\ UNCHANGED <<sent, failed, binding, chat, writing, order, history, faults>>

\* json.loads(path.read_text()) fails if the file is gone or empty.
SendRead(s) ==
  /\ At(s, "loop")
  /\ run[s].paths # {}
  /\ \/ outbox[Current(s)] # "whole" /\ Stop(s)
     \/ /\ outbox[Current(s)] = "whole" /\ TargetOf[Current(s)] = "direct"
        /\ run' = [run EXCEPT ![s].at = "call", ![s].mode = "direct"]
     \/ /\ outbox[Current(s)] = "whole" /\ TargetOf[Current(s)] # "direct"
        /\ run' = [run EXCEPT ![s].at = "bind"]
  /\ UNCHANGED <<files, chat, writing, moved, order, history, faults>>

\* Fault: every notification is a root.
SendBind_NoReply(s) ==
  /\ At(s, "bind")
  /\ run' = [run EXCEPT ![s].at = "call", ![s].mode = "topic_root"]
  /\ UNCHANGED <<files, chat, writing, moved, order, history, faults>>

\* _load_conversation_binding, and the choice between root and reply.
SendBind(s) ==
  /\ At(s, "bind")
  /\ \/ binding[Goal(s)] = Truncated /\ Stop(s)
     \/ /\ binding[Goal(s)] \notin {None, Truncated}
        /\ run' = [run EXCEPT ![s].at = "call", ![s].mode = "thread_reply",
                              ![s].root = binding[Goal(s)]]
     \/ /\ binding[Goal(s)] = None /\ TargetOf[Current(s)] = "thread"
        /\ run' = [run EXCEPT ![s].at = "call", ![s].mode = "topic_root"]
     \/ /\ binding[Goal(s)] = None /\ TargetOf[Current(s)] = "thread_no_chat"
        /\ run' = [run EXCEPT ![s].at = "move"]
  /\ UNCHANGED <<files, chat, writing, moved, order, history, faults>>

\* The message the call delivers, if it does.
Deliver(s) == chat' = Append(chat, [note |-> Current(s), mode |-> run[s].mode,
                                    root |-> run[s].root])

\* Fault: the id of another message is taken.
Delivered_Next == Len(chat) + 2

\* Its id, which lark-cli reports.
Delivered == Len(chat) + 1

\* Fault: the binding is saved after a reply too.
IsRoot_Any(s) == run[s].mode # "direct"

IsRoot(s) == run[s].mode = "topic_root"

Fault == faults < MaxFaults /\ faults' = faults + 1

\* lark-cli exits with 0; for a root, stdout has the message id.
CallSucceeds(s) ==
  /\ At(s, "call")
  /\ IF run[s].dry
     THEN /\ run' = [run EXCEPT ![s].at = "move", ![s].ok = TRUE]
          /\ UNCHANGED chat
     ELSE /\ Deliver(s)
          /\ run' = [run EXCEPT ![s].at = IF IsRoot(s) THEN "open" ELSE "move",
                                ![s].message = Delivered, ![s].ok = TRUE]
  /\ UNCHANGED <<files, writing, moved, order, history, faults>>

\* A root was delivered and stdout has no message id.
CallHidesId(s) ==
  /\ At(s, "call")
  /\ IsRoot(s) /\ ~run[s].dry
  /\ Fault
  /\ Deliver(s)
  /\ run' = [run EXCEPT ![s].at = "move", ![s].message = Delivered,
                        ![s].ok = FALSE]
  /\ unbound' = unbound \union {Delivered}
  /\ UNCHANGED <<files, writing, moved, order, unmoved>>

\* A message a failing call has nevertheless delivered.
DeliveredUnknown(s) ==
  /\ ~run[s].dry
  /\ Deliver(s)
  /\ unbound' = IF IsRoot(s) THEN unbound \union {Delivered} ELSE unbound

\* lark-cli exits with another code, before or after it delivered.
CallFails(s) ==
  /\ At(s, "call")
  /\ Fault
  /\ \/ /\ DeliveredUnknown(s)
        /\ run' = [run EXCEPT ![s].at = "move", ![s].message = Delivered]
     \/ /\ run' = [run EXCEPT ![s].at = "move"]
        /\ UNCHANGED <<chat, unbound>>
  /\ UNCHANGED <<files, writing, moved, order, unmoved>>

\* subprocess.run(timeout=60) raises; nothing catches it.
CallTimesOut(s) ==
  /\ At(s, "call")
  /\ Fault
  /\ \/ DeliveredUnknown(s) /\ unmoved' = unmoved \union {Delivered}
     \/ UNCHANGED <<chat, unbound, unmoved>>
  /\ Stop(s)
  /\ UNCHANGED <<files, writing, moved, order>>

\* _save_conversation_binding: path.write_text.  All bindings have texts of
\* one length (ids and times of fixed width), so the last writer wins.
BindOpen(s) ==
  /\ At(s, "open")
  /\ binding' = [binding EXCEPT ![Goal(s)] = Truncated]
  /\ run' = [run EXCEPT ![s].at = "write"]
  /\ UNCHANGED <<outbox, sent, failed, chat, writing, moved, order, history,
                 faults>>

BindWrite(s) ==
  /\ At(s, "write")
  /\ binding' = [binding EXCEPT ![Goal(s)] = run[s].message]
  /\ run' = [run EXCEPT ![s].at = "move"]
  /\ UNCHANGED <<outbox, sent, failed, chat, writing, moved, order, history,
                 faults>>

\* The loop goes on with the next path.
Continue(s) ==
  run' = [run EXCEPT ![s] = [Idle EXCEPT !.at = "loop", !.dry = run[s].dry,
                               !.paths = run[s].paths \ {Current(s)}]]

\* Faults: a dry run counts as sent; a failed note stays.
MovesToSent_DryRun(s) == run[s].ok
MovesToFailed_Never(s) == FALSE

\* Where a note goes: a dry run that succeeds leaves it in the outbox.
MovesToSent(s) == run[s].ok /\ ~run[s].dry
MovesToFailed(s) == ~run[s].ok

\* Fault: the note is copied, not moved.
SendMove_Copies(s) ==
  /\ At(s, "move")
  /\ sent' = IF MovesToSent(s) THEN sent \union {Current(s)} ELSE sent
  /\ Continue(s)
  /\ UNCHANGED <<outbox, failed, binding, chat, writing, moved, order, history,
                 faults>>

SendMove(s) ==
  /\ At(s, "move")
  /\ LET n == Current(s) IN
       \/ /\ ~MovesToSent(s) /\ ~MovesToFailed(s)
          /\ Continue(s)
          /\ UNCHANGED <<outbox, sent, failed, moved>>
       \/ /\ MovesToSent(s) \/ MovesToFailed(s)
          /\ outbox[n] = "absent"  \* shutil.move raises
          /\ Stop(s)
          /\ UNCHANGED <<outbox, sent, failed, moved>>
       \/ /\ MovesToSent(s) \/ MovesToFailed(s)
          /\ outbox[n] # "absent"
          /\ outbox' = [outbox EXCEPT ![n] = "absent"]
          /\ sent' = IF MovesToSent(s) THEN sent \union {n} ELSE sent
          /\ failed' = IF MovesToFailed(s) THEN failed \union {n} ELSE failed
          /\ moved' = moved \union {e \in Enqueuers : writing[e] = n}
          /\ Continue(s)
  /\ UNCHANGED <<binding, chat, writing, order, history, faults>>

-----------------------------------------------------------------------------
(* A process is killed.                                                    *)

CrashEnqueuer(e) ==
  /\ writing[e] # None
  /\ Fault
  /\ writing' = [writing EXCEPT ![e] = None]
  /\ moved' = moved \ {e}
  /\ UNCHANGED <<files, chat, run, order, history>>

CrashSender(s) ==
  /\ ~At(s, "idle")
  /\ Fault
  /\ Stop(s)
  /\ unmoved' = unmoved \union ({run[s].message} \ {0})
  /\ unbound' = unbound \union
                  IF run[s].at \in {"open", "write"} THEN {run[s].message}
                                                     ELSE {}
  /\ UNCHANGED <<files, chat, writing, moved, order>>

Call(s) == CallSucceeds(s) \/ CallHidesId(s) \/ CallFails(s) \/ CallTimesOut(s)

\* Everything a sender does once it has started.
SendStep(s) ==
  \/ SendEnd(s) \/ SendRead(s) \/ SendBind(s) \/ Call(s)
  \/ BindOpen(s) \/ BindWrite(s) \/ SendMove(s)

Next ==
  \/ \E e \in Enqueuers :
       \/ \E n \in Notes : EnqueueOpen(e, n)
       \/ EnqueueWrite(e)
       \/ CrashEnqueuer(e)
  \/ \E s \in Senders :
       \/ \E dry \in BOOLEAN, limit \in Limits : SendBegin(s, dry, limit)
       \/ SendStep(s)
       \/ CrashSender(s)

Spec == Init /\ [][Next]_vars

\* The operator keeps running notify-send-outbox without --dry-run and with
\* a limit that is not 0; processes that run get to run.  A dry run may come
\* first each time, hence strong fairness.
RealRun(s) == \E limit \in Limits \ {0} : SendBegin(s, FALSE, limit)

Fairness ==
  /\ \A e \in Enqueuers : WF_vars(EnqueueWrite(e))
  /\ \A s \in Senders : WF_vars(SendStep(s)) /\ SF_vars(RealRun(s))

FairSpec == Spec /\ Fairness

-----------------------------------------------------------------------------
(* Properties.                                                             *)

\* Ids of messages the chat has.
Ids == 1..Len(chat)

\* The types of the variables; every message id the program has or has saved
\* is that of a message in the chat.
TypeOK ==
  /\ outbox \in [Notes -> {"absent", "empty", "whole"}]
  /\ sent \subseteq Notes /\ failed \subseteq Notes
  /\ binding \in [Goals -> Ids \union {None, Truncated}]
  /\ chat \in Seq(Messages)
  /\ writing \in [Enqueuers -> Notes \union {None}]
  /\ moved \subseteq Enqueuers
  /\ run \in [Senders -> Runs]
  /\ \A s \in Senders : run[s].message \in Ids \union {0}
                      /\ run[s].root \in Ids \union {0}
  /\ order \in Seq(Notes)
  /\ unbound \subseteq Ids /\ unmoved \subseteq Ids
  /\ faults \in Nat

Roots(g) == {i \in Ids : chat[i].mode = "topic_root"
                                  /\ GoalOf[chat[i].note] = g}
Replies(g) == {i \in Ids : chat[i].mode = "thread_reply"
                                    /\ GoalOf[chat[i].note] = g}
Deliveries(n) == {i \in Ids : chat[i].note = n}
Asked(n) == {i \in 1..Len(order) : order[i] = n}

\* A note in outbox-sent was delivered: neither a dry run, nor a failed
\* call, nor another sender's move puts a note there that nobody received.
SentWasDelivered == \A n \in sent : Deliveries(n) # {}

\* With one sender a note is delivered at most once for each notify-enqueue,
\* not counting deliveries after which the sender ended before it had moved
\* the note.
DeliveredOnce ==
  \A n \in Notes : Cardinality(Deliveries(n) \ unmoved) <= Cardinality(Asked(n))

\* With one sender a goal has one root message, not counting roots whose id
\* was lost between the delivery and the saved binding, and the replies are
\* all in one thread.
OneThreadPerGoal ==
  \A g \in Goals :
    /\ Cardinality(Roots(g) \ unbound) <= 1
    /\ \A i, j \in Replies(g) : chat[i].root = chat[j].root

\* A reply is under a root message of its own goal that came before it.
RepliesFollowTheirRoot ==
  \A g \in Goals : \A i \in Replies(g) :
    chat[i].root \in Roots(g) /\ chat[i].root < i

Channel == INSTANCE Delivery WITH
  waiting  <- Listed,
  received <- [i \in 1..Len(chat) |-> chat[i].note]

\* Over any number of senders that overlap, notes enqueued again while they
\* are sent, failing calls, dry runs and killed processes, the outbox is a
\* channel that loses nothing in silence: see Delivery.
ChannelSpec == Channel!Spec

\* A file nobody will complete: a run that reads it ends, and everything
\* sorted after it stays in the outbox.
Damaged ==
  \/ \E n \in Notes : outbox[n] = "empty" /\ \A e \in Enqueuers : writing[e] # n
  \/ \E g \in Goals : /\ binding[g] = Truncated
                      /\ \A s \in Senders :
                           run[s].paths = {} \/ ~At(s, "write") \/ Goal(s) # g

\* A note that was written leaves the outbox, to outbox-sent or
\* outbox-failed, unless a process killed in a write left a damaged file.
NoteIsHandled ==
  \A n \in Notes : outbox[n] = "whole" ~> (outbox[n] = "absent" \/ Damaged)

\* "the first notification for a goal creates a root message in the
\* configured chat, and later notifications for the same goal are sent as
\* replies" (adl-runtime-ops): a goal has one root message.
OnlyFirstIsRoot == \A g \in Goals : Cardinality(Roots(g)) <= 1
=============================================================================
