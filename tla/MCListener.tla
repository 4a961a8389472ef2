----------------------------- MODULE MCListener -----------------------------
(* Values for the constants of Listener, for TLC.                          *)
EXTENDS Listener

\* A candidate only with the name of an expert in charge of the wiki.
Vague == {"finish", "do not", "today", "status"}

Nothing == {}

MCTexts == {Vague, Nothing}

MCExperts == {{}, {"mind-palace"}}

Message(prefix, raw) == [prefix |-> prefix, raw |-> raw, source |-> "chat"]

\* A candidate, a prefix and nothing behind it, and one that asks for no loop.
MCEvents == {Message("#wiki", Vague), Message("#loop", Nothing), Message("", Vague)}
=============================================================================
