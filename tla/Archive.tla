------------------------------- MODULE Archive -------------------------------
(***************************************************************************)
(* What Publisher.publish relies on in an archiver: an object appears      *)
(* under its name only when finalize() was called, in one step and whole,  *)
(* and a run whose finalize() returns has stored exactly the chunks it     *)
(* wrote. Any call may raise instead; a finalize() that raises may have    *)
(* stored the object.                                                      *)
(***************************************************************************)
EXTENDS Naturals, Sequences

CONSTANTS
    Names,      \* the names objects are stored under
    Chunks,     \* the chunks a run may write
    NoObject    \* what is stored under a name nothing was stored under: no sequence of chunks

VARIABLES
    phase,      \* the archiver's stage in the cycle open / write_chunk / finalize
    name,       \* the name of the object being written
    written,    \* the chunks written since open()
    stored,     \* what is stored under each name
    result      \* whether the last finalize() returned

vars == <<phase, name, written, stored, result>>

TypeOK ==
    /\ phase \in {"closed", "open", "finalizing"}
    /\ name \in Names
    /\ written \in Seq(Chunks)
    /\ stored \in [Names -> Seq(Chunks) \cup {NoObject}]
    /\ result \in {"none", "stored"}

Init ==
    /\ phase = "closed"
    /\ name \in Names
    /\ written = <<>>
    /\ stored = [n \in Names |-> NoObject]
    /\ result = "none"

\* The name is settled before the destination is reached.
Name ==
    /\ phase = "closed"
    /\ name' \in Names
    /\ result' = "none"
    /\ UNCHANGED <<phase, written, stored>>

Open ==
    /\ phase = "closed"
    /\ phase' = "open"
    /\ name' \in Names
    /\ result' = "none"
    /\ UNCHANGED <<written, stored>>

Write ==
    /\ phase = "open"
    /\ \E c \in Chunks : written' = Append(written, c)
    /\ UNCHANGED <<phase, name, stored, result>>

Finalize ==
    /\ phase = "open"
    /\ phase' = "finalizing"
    /\ UNCHANGED <<name, written, stored, result>>

Stored == [stored EXCEPT ![name] = written]

\* The object appears while finalize() is still at work.
Store ==
    /\ phase = "finalizing"
    /\ stored' = Stored
    /\ UNCHANGED <<phase, name, written, result>>

\* finalize() returns: the object is there now, if it was not before.
Return ==
    /\ phase = "finalizing"
    /\ stored' = Stored
    /\ phase' = "closed"
    /\ written' = <<>>
    /\ result' = "stored"
    /\ UNCHANGED name

\* A call raises, or another call of publish() does. A finalize() that raises
\* may have stored the object.
GiveUp ==
    /\ phase # "closed"
    /\ stored' = stored \/ (phase = "finalizing" /\ stored' = Stored)
    /\ phase' = "closed"
    /\ written' = <<>>
    /\ UNCHANGED <<name, result>>

Next ==
    \/ Name \/ Open \/ Write \/ Finalize \/ Store \/ Return \/ GiveUp

Spec == Init /\ [][Next]_vars
=============================================================================
