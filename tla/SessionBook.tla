----------------------------- MODULE SessionBook -----------------------------
(***************************************************************************)
(* What crates/db promises about sessions, with every operation taking     *)
(* effect in one step.  SessionStore, which takes its three mutexes one by *)
(* one, implements it.                                                     *)
(*                                                                         *)
(* A media report takes effect in two moments: it sets its flag, and, if   *)
(* both flags are set, the session becomes Active.  Meanwhile the session  *)
(* may be extended, may end, and one side may be unready again.  An ended  *)
(* session holds its dogs until it is released.                            *)
(***************************************************************************)
EXTENDS Integers

CONSTANTS Dogs, Ids, Instants, None

VARIABLES
    used,       \* ids handed out
    waiting,    \* id -> the session that is to be inserted under it, or None
    book,       \* id -> the live session, or None
    leaving,    \* id -> the session that has ended and still holds its dogs, or None
    flags,      \* id -> which sides are ready, for the live and the leaving
    agreed      \* those of them whose two sides were ready at one moment

vars == <<used, waiting, book, leaving, flags, agreed>>

Session == [dog_a: Dogs, dog_b: Dogs, state: {"Negotiating", "Active"}, deadline: Instants]
Parties(s) == {s.dog_a, s.dog_b}

Init ==
    /\ used = {} /\ agreed = {}
    /\ waiting = [i \in Ids |-> None]
    /\ book = [i \in Ids |-> None]
    /\ leaving = [i \in Ids |-> None]
    /\ flags = [i \in Ids |-> None]

Holds(i, dog) ==
    \/ book[i] # None /\ dog \in Parties(book[i])
    \/ leaving[i] # None /\ dog \in Parties(leaving[i])

Busy(i) == \E d \in Parties(waiting[i]), j \in Ids : Holds(j, d)

HandOut(i, s) ==
    /\ i \notin used
    /\ s.state = "Negotiating"
    /\ used' = used \cup {i}
    /\ waiting' = [waiting EXCEPT ![i] = s]
    /\ UNCHANGED <<book, leaving, flags, agreed>>

Refuse(i) ==
    /\ waiting[i] # None /\ Busy(i)
    /\ waiting' = [waiting EXCEPT ![i] = None]
    /\ UNCHANGED <<used, book, leaving, flags, agreed>>

Insert(i) ==
    /\ waiting[i] # None /\ ~ Busy(i)
    /\ waiting' = [waiting EXCEPT ![i] = None]
    /\ book' = [book EXCEPT ![i] = waiting[i]]
    /\ flags' = [flags EXCEPT ![i] = [media_a |-> FALSE, media_b |-> FALSE]]
    /\ UNCHANGED <<used, leaving, agreed>>

TheSession(i) == IF book[i] # None THEN book[i] ELSE leaving[i]

With(i, d, r) ==
    IF d = TheSession(i).dog_a THEN [flags[i] EXCEPT !.media_a = r]
                               ELSE [flags[i] EXCEPT !.media_b = r]

Report(i, d, r) ==
    /\ flags[i] # None /\ d \in Parties(TheSession(i))
    /\ flags' = [flags EXCEPT ![i] = With(i, d, r)]
    /\ agreed' = IF With(i, d, r).media_a /\ With(i, d, r).media_b THEN agreed \cup {i} ELSE agreed
    /\ UNCHANGED <<used, waiting, book, leaving>>

\* Changes the state alone.
Activate(i) ==
    /\ book[i] # None /\ i \in agreed
    /\ book' = [book EXCEPT ![i].state = "Active"]
    /\ UNCHANGED <<used, waiting, leaving, flags, agreed>>

Extend(i, x) ==
    /\ book[i] # None
    /\ book' = [book EXCEPT ![i].deadline = x]
    /\ UNCHANGED <<used, waiting, leaving, flags, agreed>>

End(i) ==
    /\ book[i] # None
    /\ book' = [book EXCEPT ![i] = None]
    /\ leaving' = [leaving EXCEPT ![i] = book[i]]
    /\ UNCHANGED <<used, waiting, flags, agreed>>

Release(i) ==
    /\ leaving[i] # None
    /\ leaving' = [leaving EXCEPT ![i] = None]
    /\ flags' = [flags EXCEPT ![i] = None]
    /\ agreed' = agreed \ {i}
    /\ UNCHANGED <<used, waiting, book>>

Next ==
    \E i \in Ids :
        \/ \E s \in Session : HandOut(i, s)
        \/ Refuse(i) \/ Insert(i)
        \/ \E d \in Dogs, r \in BOOLEAN : Report(i, d, r)
        \/ Activate(i)
        \/ \E x \in Instants : Extend(i, x)
        \/ End(i) \/ Release(i)

Spec == Init /\ [][Next]_vars
=============================================================================
