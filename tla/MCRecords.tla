------------------------------ MODULE MCRecords -----------------------------
(* Values for the constants of Records, for TLC.                           *)
EXTENDS Records

\* A candidate only with the name of an expert in charge of the wiki.
Vague == {"finish", "do not", "today", "status"}

\* A candidate whoever is asked.
Clear == {"finish", "do not", "today", "wiki"}

MCTexts == {Vague, Clear}

MCExperts == {{}, {"mind-palace"}}

MCDefaults == <<"mind-palace", "ops-auditor">>

Work(intake, experts, approval) ==
  [intake |-> intake, experts |-> experts, approval |-> approval]

\* Only commands of one kind share files.
MCWorkloads == {Work(2, 0, 0), Work(0, 3, 0), Work(0, 0, 4)}
=============================================================================
