--------------------------- MODULE IndexRegister ---------------------------
(***************************************************************************)
(* What the versioned vector index of one tenant promises to its readers   *)
(* and operators: a register that names the collection being served, the   *)
(* one a rollback would restore, and a generation that counts the          *)
(* switches.  It is moved only to collections that can be read, and what   *)
(* it names is never removed.                                              *)
(***************************************************************************)
EXTENDS Integers

CONSTANTS Collections, Legacy, None

VARIABLES current, prior, generation, readable

vars == <<current, prior, generation, readable>>

\* Before the first switch the unversioned collection is served, if there is one.
Init ==
    /\ current = Legacy
    /\ prior = None
    /\ generation = 0
    /\ readable \in SUBSET {Legacy}

\* A collection that nobody is served from becomes readable, or stops being so.
Stage(c) ==
    /\ c \notin {current, prior}
    /\ readable' = readable \cup {c}
    /\ UNCHANGED <<current, prior, generation>>

Drop(c) ==
    /\ c \notin {current, prior}
    /\ readable' = readable \ {c}
    /\ UNCHANGED <<current, prior, generation>>

\* A publication or a rollback: what was served becomes what can be restored.
Switch(c) ==
    /\ c \in readable
    /\ c # current
    /\ current' = c
    /\ prior' = current
    /\ generation' = generation + 1
    /\ UNCHANGED readable

Next == \E c \in Collections : Stage(c) \/ Drop(c) \/ Switch(c)

Spec == Init /\ [][Next]_vars
=============================================================================
