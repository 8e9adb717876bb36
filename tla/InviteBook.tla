----------------------------- MODULE InviteBook -----------------------------
(***************************************************************************)
(* What crates/db promises about open invites, with every operation taking *)
(* effect in one step.  InviteStore, which takes the locks one by one,     *)
(* implements it; DeviceApi is built on it.                                *)
(*                                                                         *)
(* A closed invite leaves in two moments: it stops being an invite, and    *)
(* some time later its dogs may ring again.  In between they count as busy *)
(* for a new invite and as free for a lookup, so a caller that looked them *)
(* up can still be refused.                                                *)
(***************************************************************************)
EXTENDS Integers

CONSTANTS
    Threads,    \* request handlers and the policy tick
    Dogs,
    Ids,        \* invite ids
    Instants,   \* points in time
    None,       \* no answer, no invite
    Ok, Busy    \* what insert answers

VARIABLES
    book,       \* id -> the open invite, or None
    leaving,    \* id -> the invite that was closed and still holds its dogs, or None
    ans         \* thread -> the answer to its last call

vars == <<book, leaving, ans>>

Invite == [from: Dogs, to: Dogs, expires: Instants]

Parties(inv) == {inv.from, inv.to}

\* The ids of the invites that keep `dog` from ringing.
Holds(dog) ==
    {i \in Ids : \/ book[i] # None /\ dog \in Parties(book[i])
                 \/ leaving[i] # None /\ dog \in Parties(leaving[i])}

Init ==
    /\ book = [i \in Ids |-> None]
    /\ leaving = [i \in Ids |-> None]
    /\ ans = [t \in Threads |-> None]

Insert(t, i, inv) ==
    /\ book[i] = None
    /\ \A d \in Parties(inv) : Holds(d) = {}
    /\ book' = [book EXCEPT ![i] = inv]
    /\ ans' = [ans EXCEPT ![t] = Ok]
    /\ UNCHANGED leaving

Refuse(t, inv) ==
    /\ \E d \in Parties(inv) : Holds(d) # {}
    /\ ans' = [ans EXCEPT ![t] = Busy]
    /\ UNCHANGED <<book, leaving>>

\* for_dog finds the open invite of the dog.
Found(t, dog, i) ==
    /\ book[i] # None
    /\ dog \in Parties(book[i])
    /\ ans' = [ans EXCEPT ![t] = i]
    /\ UNCHANGED <<book, leaving>>

\* for_dog finds nothing: the dog has no open invite.
NotFound(t, dog) ==
    /\ \A i \in Ids : book[i] # None => dog \notin Parties(book[i])
    /\ ans' = [ans EXCEPT ![t] = None]
    /\ UNCHANGED <<book, leaving>>

Remove(i) ==
    /\ book[i] # None
    /\ leaving[i] = None
    /\ book' = [book EXCEPT ![i] = None]
    /\ leaving' = [leaving EXCEPT ![i] = book[i]]
    /\ UNCHANGED ans

Release(i) ==
    /\ leaving[i] # None
    /\ leaving' = [leaving EXCEPT ![i] = None]
    /\ UNCHANGED <<book, ans>>

Next ==
    \/ \E t \in Threads :
        \/ \E i \in Ids, inv \in Invite : Insert(t, i, inv)
        \/ \E inv \in Invite : Refuse(t, inv)
        \/ \E d \in Dogs, i \in Ids : Found(t, d, i)
        \/ \E d \in Dogs : NotFound(t, d)
    \/ \E i \in Ids : Remove(i) \/ Release(i)

Spec == Init /\ [][Next]_vars
=============================================================================
