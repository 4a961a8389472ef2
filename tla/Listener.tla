------------------------------ MODULE Listener ------------------------------
(***************************************************************************)
(* Chat messages become intakes (adl_feishu_intake_listener.py).  A        *)
(* listener starts lark-cli, reads one event per line from its standard    *)
(* output, and runs feishu-ingest for each that has a loop prefix.         *)
(*                                                                         *)
(* Listeners are started by cron, for 90 seconds (.._listener_poll.py),    *)
(* and by a watchdog that keeps one alive by its pid file                  *)
(* (.._listener_watchdog.py).  The watchdog writes the pid after it has    *)
(* started the process; a pid may belong to another process later.         *)
(*                                                                         *)
(* A listener and the feishu-ingest it waits for are one process of Store. *)
(***************************************************************************)
EXTENDS FrontDesk, SequencesExt, FiniteSetsExt

CONSTANTS
  Events,     \* chat messages, [prefix, raw, source]
  Messages,   \* how many of them are sent
  Pids,       \* process ids
  Watchdogs,  \* processes that run the watchdog
  Capacity,   \* events that fit into the pipe of lark-cli's standard output
  None, Other

ASSUME ListenerAssumption ==
  /\ Messages \in Nat /\ Capacity \in Nat \ {0}
  /\ None # Other /\ None \notin Pids /\ None \notin Events
  /\ \A e \in Events : /\ e.raw \in Texts /\ e.source \in Sources
                       /\ _expert_from_prefix(e.prefix) \in Experts

ASSUME ProcessesAssumption ==
  /\ IsFiniteSet(Watchdogs) /\ Watchdogs \intersect Pids = {}
  /\ \A pid \in Pids : pid \notin Unreadable \union {Invalid}

VARIABLES
  proc,       \* pid |-> its listener, Other for a process of another kind, or None
  watch,      \* watchdog |-> it is about to start a listener
  chat,       \* external: message |-> "unsent", "waiting", or "given" to a consumer
  handled,    \* history: events that were skipped or taken in
  dropped,    \* history: events whose intake failed or whose listener died
  orphans,    \* history: listeners whose watchdog died before their pid was saved
  vouched     \* history: events read by listeners that ended with ok

listenerVars == <<proc, watch, chat, handled, dropped, orphans, vouched, faults>>
vars == <<deskVars, listenerVars>>

Procs == Watchdogs \union Pids

PidKey == <<"pid", 0>>

Listeners ==
  [by : {"watchdog", "poll"},
   cli : {"runs", "blocked", "ended", "failed"},  \* lark-cli
   out : Seq(Events),                             \* its standard output
   busy : Events \union {None},                   \* the event taken in now
   bad : BOOLEAN,                                 \* failed > 0
   took : SUBSET Events]                          \* events read

Started(by) == [by |-> by, cli |-> "runs", out |-> <<>>, busy |-> None,
                bad |-> FALSE, took |-> {}]

Listens(pid) == proc[pid] \notin {None, Other}

\* A child that outlives its listener keeps its pid busy.
Free(pid) == proc[pid] = None /\ plan[pid] = <<>>

Init ==
  /\ file = [key \in DeskKeys \union {PidKey} |-> Absent]
  /\ plan = [p \in Procs |-> <<>>]
  /\ opened = [p \in Procs |-> FALSE]
  /\ failed = [p \in Procs |-> FALSE]
  /\ asked = {} /\ lost = {}
  /\ proc = [pid \in Pids |-> None]
  /\ watch = [w \in Watchdogs |-> FALSE]
  /\ chat \in {[e \in Events |-> IF e \in sent THEN "waiting" ELSE "unsent"] :
                sent \in kSubset(Messages, Events)}
  /\ handled = {} /\ dropped = {} /\ orphans = {} /\ vouched = {}
  /\ faults = 0

-----------------------------------------------------------------------------
(* Starting listeners                                                      *)

\* int("") and an int with something behind it are ValueErrors.
_read_pid == IF Readable(PidKey) THEN file[PidKey] ELSE None

\* os.kill(pid, 0): whoever it is.
_pid_alive(pid) == proc[pid] # None

\* Fault: the pid in the file is not asked for.
Watch_Always(w) ==
  /\ ~watch[w] /\ plan[w] = <<>>
  /\ watch' = [watch EXCEPT ![w] = TRUE]
  /\ UNCHANGED <<deskVars, proc, chat, handled, dropped, orphans, vouched, faults>>

\* No listener is running.
Watch(w) ==
  /\ ~watch[w] /\ plan[w] = <<>>
  /\ ~(_read_pid # None /\ _pid_alive(_read_pid))
  /\ watch' = [watch EXCEPT ![w] = TRUE]
  /\ UNCHANGED <<deskVars, proc, chat, handled, dropped, orphans, vouched, faults>>

\* Popen.  The pid is still to be written.
WatchStart(w, pid) ==
  /\ watch[w] /\ Free(pid)
  /\ watch' = [watch EXCEPT ![w] = FALSE]
  /\ proc' = [proc EXCEPT ![pid] = Started("watchdog")]
  /\ Saves(w, <<Save(PidKey, pid)>>)
  /\ orphans' = orphans \ {pid}
  /\ UNCHANGED <<asked, chat, handled, dropped, vouched, faults>>

\* A watchdog that dies while it writes leaves its listener unknown.
WatchDies(w) ==
  /\ plan[w] # <<>> /\ Fault
  /\ orphans' = orphans \union {Head(plan[w]).content}
  /\ Killed(w)
  /\ UNCHANGED <<asked, proc, watch, chat, handled, dropped, vouched>>

PollStart(pid) ==
  /\ Free(pid)
  /\ proc' = [proc EXCEPT ![pid] = Started("poll")]
  /\ UNCHANGED <<deskVars, watch, chat, handled, dropped, orphans, vouched, faults>>

-----------------------------------------------------------------------------
(* lark-cli                                                                *)

\* A message is given to one of the consumers that run, and once.
Emit(pid, e) ==
  /\ Listens(pid) /\ proc[pid].cli = "runs" /\ Len(proc[pid].out) < Capacity
  /\ chat[e] = "waiting"
  /\ chat' = [chat EXCEPT ![e] = "given"]
  /\ proc' = [proc EXCEPT ![pid].out = Append(@, e)]
  /\ UNCHANGED <<deskVars, watch, handled, dropped, orphans, vouched, faults>>

\* It was not acknowledged in time.
Redeliver(e) ==
  /\ chat[e] = "given" /\ Fault
  /\ chat' = [chat EXCEPT ![e] = "waiting"]
  /\ UNCHANGED <<deskVars, proc, watch, handled, dropped, orphans, vouched>>

\* It has more to complain of than the pipe of its standard error holds; the
\* listener reads that pipe after the end only.
Complain(pid) ==
  /\ Listens(pid) /\ proc[pid].cli = "runs" /\ Fault
  /\ proc' = [proc EXCEPT ![pid].cli = "blocked"]
  /\ UNCHANGED <<deskVars, watch, chat, handled, dropped, orphans, vouched>>

\* --timeout 90s; --timeout 0 never.
TimeIsUp(pid) ==
  /\ Listens(pid) /\ proc[pid].by = "poll" /\ proc[pid].cli = "runs"
  /\ proc' = [proc EXCEPT ![pid].cli = "ended"]
  /\ UNCHANGED <<deskVars, watch, chat, handled, dropped, orphans, vouched, faults>>

CliFails(pid) ==
  /\ Listens(pid) /\ proc[pid].cli = "runs" /\ Fault
  /\ proc' = [proc EXCEPT ![pid].cli = "failed"]
  /\ UNCHANGED <<deskVars, watch, chat, handled, dropped, orphans, vouched>>

-----------------------------------------------------------------------------
(* The loop of a listener                                                  *)

_has_loop_prefix(e) == e.prefix \in LoopPrefixes

\* The listener is at the head of its loop, and the pipe has a line.
HasLine(pid) == Listens(pid) /\ proc[pid].busy = None /\ proc[pid].out # <<>>

Skip(pid) ==
  /\ HasLine(pid)
  /\ LET e == Head(proc[pid].out)
     IN  /\ ~_has_loop_prefix(e)
         /\ proc' = [proc EXCEPT ![pid].out = Tail(@), ![pid].took = @ \union {e}]
         /\ handled' = handled \union {e}
  /\ UNCHANGED <<deskVars, watch, chat, dropped, orphans, vouched, faults>>

\* build_intake_command, and feishu-ingest begins.
TakeIn(pid) ==
  /\ HasLine(pid)
  /\ LET e == Head(proc[pid].out)
     IN  /\ _has_loop_prefix(e)
         /\ proc' = [proc EXCEPT ![pid].out = Tail(@), ![pid].busy = e,
                                 ![pid].took = @ \union {e}]
         /\ Ingest(pid, e.raw, e.source, _expert_from_prefix(e.prefix))
  /\ UNCHANGED <<watch, chat, handled, dropped, orphans, vouched, faults>>

\* feishu-ingest has ended.
TakenIn(pid) ==
  /\ Listens(pid) /\ proc[pid].busy # None /\ plan[pid] = <<>>
  /\ proc' = [proc EXCEPT ![pid].busy = None, ![pid].bad = @ \/ failed[pid]]
  /\ IF failed[pid]
     THEN dropped' = dropped \union {proc[pid].busy} /\ UNCHANGED handled
     ELSE handled' = handled \union {proc[pid].busy} /\ UNCHANGED dropped
  /\ UNCHANGED <<deskVars, watch, chat, orphans, vouched, faults>>

\* Fault: the loop ends with the child, not with its output.
Drained_Ended(l) == l.busy = None

\* The end of the output.
Drained(l) == l.busy = None /\ l.out = <<>>

\* Fault: the summary is about lark-cli only.
SummaryOk_OfCli(l) == l.cli = "ended"

SummaryOk(l) == ~l.bad /\ l.cli = "ended"

Summarise(pid) ==
  /\ Listens(pid) /\ proc[pid].cli \in {"ended", "failed"} /\ Drained(proc[pid])
  /\ vouched' = IF SummaryOk(proc[pid]) THEN vouched \union proc[pid].took ELSE vouched
  /\ proc' = [proc EXCEPT ![pid] = None]
  /\ orphans' = orphans \ {pid}
  /\ UNCHANGED <<deskVars, watch, chat, handled, dropped, faults>>

\* A listener is killed, and what it and the pipe held is lost.  A
\* feishu-ingest that runs goes on, or dies too.
Kill(pid) ==
  /\ Listens(pid) /\ Fault
  /\ proc' = [proc EXCEPT ![pid] = None]
  /\ dropped' = dropped \union ToSet(proc[pid].out) \union ({proc[pid].busy} \ {None})
  /\ orphans' = orphans \ {pid}
  /\ Killed(pid) \/ UNCHANGED storeVars
  /\ UNCHANGED <<asked, watch, chat, handled, vouched>>

-----------------------------------------------------------------------------
(* Everything else                                                         *)

\* An intake dies between, or within, its saves.
IntakeDies(pid) ==
  /\ plan[pid] # <<>> /\ Fault
  /\ Killed(pid)
  /\ UNCHANGED <<asked, proc, watch, chat, handled, dropped, orphans, vouched>>

\* Another process gets the pid; a dead child nobody waits for keeps it.
OtherTakes(pid) ==
  /\ Free(pid) /\ Fault
  /\ proc' = [proc EXCEPT ![pid] = Other]
  /\ UNCHANGED <<deskVars, watch, chat, handled, dropped, orphans, vouched>>

OtherEnds(pid) ==
  /\ proc[pid] = Other
  /\ proc' = [proc EXCEPT ![pid] = None]
  /\ UNCHANGED <<deskVars, watch, chat, handled, dropped, orphans, vouched, faults>>

Saving(p) == SaveStep(p) /\ UNCHANGED <<asked, listenerVars>>

WatchStep(w) == Watch(w) \/ \E pid \in Pids : WatchStart(w, pid)

ListenerStep(pid) == Skip(pid) \/ TakeIn(pid) \/ TakenIn(pid) \/ Summarise(pid)

LarkCli(pid) ==
  (\E e \in Events : Emit(pid, e)) \/ Complain(pid) \/ TimeIsUp(pid) \/ CliFails(pid)

Next ==
  \/ \E p \in Procs : Saving(p)
  \/ \E w \in Watchdogs : WatchStep(w) \/ WatchDies(w)
  \/ \E pid \in Pids : PollStart(pid) \/ LarkCli(pid) \/ ListenerStep(pid)
                       \/ IntakeDies(pid) \/ Kill(pid) \/ OtherTakes(pid) \/ OtherEnds(pid)
  \/ \E e \in Events : Redeliver(e)

Spec == Init /\ [][Next]_vars

\* Programs that run go on; cron starts pollers again and again, each with its
\* timeout; the chat service gives its messages to who listens.  Processes
\* need not die, be blocked or end by themselves otherwise, and the watchdog
\* need not run.
Fairness ==
  /\ \A p \in Procs : WF_vars(Saving(p))
  /\ \A pid \in Pids : WF_vars(ListenerStep(pid)) /\ WF_vars(TimeIsUp(pid))
  /\ WF_vars(\E pid \in Pids : PollStart(pid))
  /\ \A e \in Events : SF_vars(\E pid \in Pids : Emit(pid, e))

FairSpec == Spec /\ Fairness
-----------------------------------------------------------------------------
(* Properties                                                              *)

Contents(key) ==
  CASE key[1] = "IntakeAssessment" -> Assessments
    [] key[1] = "pid" -> Pids
    [] OTHER -> Texts

TypeOK ==
  /\ DOMAIN file = DeskKeys \union {PidKey}
  /\ \A key \in DOMAIN file : Readable(key) => file[key] \in Contents(key)
  /\ DOMAIN plan = Procs
  /\ opened \in [Procs -> BOOLEAN] /\ failed \in [Procs -> BOOLEAN]
  /\ asked \subseteq Texts \X Sources \X Experts
  /\ proc \in [Pids -> Listeners \union {None, Other}]
  /\ watch \in [Watchdogs -> BOOLEAN]
  /\ chat \in [Events -> {"unsent", "waiting", "given"}]
  /\ handled \union dropped \union vouched \subseteq Events
  /\ orphans \subseteq Pids /\ faults \in 0..MaxFaults

\* One watchdog keeps one listener at most, whatever becomes of processes and
\* of the pid file; only one that dies before the pid is on disk leaves a
\* listener it will not find again, until that one ends (watchdog main).
Kept == {pid \in Pids : Listens(pid) /\ proc[pid].by = "watchdog"} \ orphans

OneListener == Cardinality(Watchdogs) = 1 => Cardinality(Kept) <= 1

\* A listener that ends with "ok" has left nothing out: every message it read
\* that asks for a loop has its assessment on disk, and a demand and a goal
\* when it is a candidate - over failing intakes, children that fail, and
\* other intakes of the same request at the same time (summary of the listener).
Saved(e) ==
  /\ Exists(AssessmentKey(e.raw, e.source))
  /\ IsCandidate(e.raw, _expert_from_prefix(e.prefix))
     => Exists(DemandKey(e.raw)) /\ Exists(GoalKey(e.raw))

OkMeansSaved == \A e \in vouched : _has_loop_prefix(e) => Saved(e)

\* A message that waits is taken in, skipped or reported as dropped, though
\* lark-cli may be blocked for good, the pid of a dead listener may be taken
\* by another process, and the watchdog may rest: the pollers come again.
MessageIsSettled ==
  \A e \in Events : chat[e] = "waiting" ~> e \in handled \union dropped
=============================================================================
