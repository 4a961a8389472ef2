------------------------------- MODULE Store -------------------------------
(***************************************************************************)
(* Files that several processes save without locks, as FilesystemStore and *)
(* the scripts beside it do: open with truncation, then write.             *)
(*                                                                         *)
(* A command that a process runs has its saves in plan[p].  Each takes a   *)
(* Truncate and a Write step, with steps of other processes in between.  A *)
(* record that the store's validation refuses has the content Invalid: the *)
(* command fails there, and the saves after it are not made.               *)
(*                                                                         *)
(* The modules that extend this one say which files there are, and what    *)
(* their other variables do while a save is made.                          *)
(***************************************************************************)
EXTENDS Naturals, Sequences

CONSTANTS
  Absent, Truncated, Garbled,  \* states of a file that cannot be parsed
  Invalid                      \* a record that validate_object refuses

Unreadable == {Absent, Truncated, Garbled}

ASSUME StoreAssumption == Invalid \notin Unreadable /\ Absent \notin {Truncated, Garbled}

VARIABLES
  file,    \* key |-> what the file holds
  plan,    \* process |-> the saves its command has still to do
  opened,  \* process |-> the first of them has truncated its file
  failed,  \* process |-> its last command ended with an error
  lost     \* history: saves that killed processes had begun or still to make

storeVars == <<file, plan, opened, failed, lost>>

Readable(key) == file[key] \notin Unreadable

Exists(key) == file[key] # Absent

Save(key, content) == [key |-> key, content |-> content]

\* The process starts to make these saves.
Saves(p, saves) ==
  /\ plan' = [plan EXCEPT ![p] = saves]
  /\ failed' = [failed EXCEPT ![p] = FALSE]
  /\ UNCHANGED <<file, opened, lost>>

Truncate(p) ==
  /\ plan[p] # <<>> /\ ~opened[p]
  /\ Head(plan[p]).content # Invalid
  /\ file' = [file EXCEPT ![Head(plan[p]).key] = Truncated]
  /\ opened' = [opened EXCEPT ![p] = TRUE]
  /\ UNCHANGED <<plan, failed, lost>>

\* What the file holds after the write: another process that wrote since our
\* truncation leaves its tail behind when its text was the longer one.
AfterWrite(save) ==
  {save.content} \union
    IF file[save.key] \in {Truncated, save.content} THEN {} ELSE {Garbled}

Write(p) ==
  /\ plan[p] # <<>> /\ opened[p]
  /\ \E content \in AfterWrite(Head(plan[p])) :
       file' = [file EXCEPT ![Head(plan[p]).key] = content]
  /\ opened' = [opened EXCEPT ![p] = FALSE]
  /\ plan' = [plan EXCEPT ![p] = Tail(@)]
  /\ UNCHANGED <<failed, lost>>

\* The command of the process ends here, its remaining saves undone.
Fails(p) ==
  /\ plan' = [plan EXCEPT ![p] = <<>>]
  /\ opened' = [opened EXCEPT ![p] = FALSE]
  /\ failed' = [failed EXCEPT ![p] = TRUE]
  /\ UNCHANGED file

PendingOf(p) == {plan[p][i] : i \in DOMAIN plan[p]}

Killed(p) == Fails(p) /\ lost' = lost \union PendingOf(p)

\* ValidationError.
SaveRefused(p) ==
  /\ plan[p] # <<>> /\ ~opened[p]
  /\ Head(plan[p]).content = Invalid
  /\ Fails(p)
  /\ UNCHANGED lost

SaveStep(p) == Truncate(p) \/ Write(p) \/ SaveRefused(p)

\* The saves that are owed to the files: a live process is about to make or
\* to finish them, or was killed before it had.
Owed == lost \union UNION {PendingOf(p) : p \in DOMAIN plan}
=============================================================================
