------------------------------ MODULE CallBook ------------------------------
(***************************************************************************)
(* What the control plane promises about a call, from its ringing to the   *)
(* end of its session, with every step of that life one step here and a    *)
(* crash one more.  DeviceApi, whose handlers take many steps over two     *)
(* stores and their rows, implements it.                                   *)
(*                                                                         *)
(* A crash may wake whatever anyone still remembers, so what matters is    *)
(* what is remembered: calls and talks hold it for every id, as a set with *)
(* one member at most.  All the program ever does to it is to forget it.   *)
(***************************************************************************)
EXTENDS Integers

CONSTANTS
    Bonds,          \* the pairs <<from, to>> that may call
    InviteIds,
    SessionIds

VARIABLES
    calls,      \* invite id -> who calls whom
    ringing,    \* the invite ids that ring
    talks,      \* session id -> of which invite, between whom, since when, until when
    live,       \* session id -> its state and who is ready, or Gone
    handed,     \* how many ids were handed out
    crashes

vars == <<calls, ringing, talks, live, handed, crashes>>

Gone == [state |-> "Gone", media_a |-> FALSE, media_b |-> FALSE]
Begun == [state |-> "Negotiating", media_a |-> FALSE, media_b |-> FALSE]
Heard(l) == [l EXCEPT !.state = IF l.media_a /\ l.media_b THEN "Active" ELSE @]

Status == {Heard(l) : l \in [state: {"Negotiating", "Active"}, media_a: BOOLEAN, media_b: BOOLEAN]}

Live == {s \in SessionIds : live[s] # Gone}

Disjoint(p, q) == {p[1], p[2]} \cap {q[1], q[2]} = {}

Init ==
    /\ calls = [i \in InviteIds |-> {}]
    /\ ringing = {}
    /\ talks = [s \in SessionIds |-> {}]
    /\ live = [s \in SessionIds |-> Gone]
    /\ handed = [invites |-> 0, sessions |-> 0] /\ crashes = 0

\* What is remembered of an id stays as it is until it is forgotten for good, which
\* is never while it rings or is live.
ForgetCalls ==
    \A i \in InviteIds : calls'[i] = calls[i] \/ (calls'[i] = {} /\ i \notin ringing')
ForgetTalks ==
    \A s \in SessionIds : talks'[s] = talks[s] \/ (talks'[s] = {} /\ live'[s] = Gone)

\* A bonded pair rings that has no other call ringing.
Ring(i) ==
    /\ i = handed.invites + 1
    /\ \E p \in Bonds :
          /\ \A j \in ringing : \A q \in calls[j] : Disjoint(p, q)
          /\ calls' = [calls EXCEPT ![i] = {p}]
    /\ ringing' = ringing \cup {i}
    /\ handed' = [handed EXCEPT !.invites = i]
    /\ UNCHANGED <<talks, live, crashes>>

\* Calls stop ringing: answered, cancelled or expired.
Hush ==
    /\ UNCHANGED <<live, handed, crashes>>
    /\ ringing' \subseteq ringing
    /\ ForgetCalls /\ ForgetTalks

\* A session begins between the two of a call, who are in no other.
Talk(s) ==
    /\ s = handed.sessions + 1
    /\ \E t \in talks'[s] :
          /\ calls[t.invite] = {t.dogs}
          /\ \A r \in Live : \A u \in talks[r] : Disjoint(t.dogs, u.dogs)
          /\ talks' = [talks EXCEPT ![s] = {t}]
    /\ live' = [live EXCEPT ![s] = Begun]
    /\ handed' = [handed EXCEPT !.sessions = s]
    /\ ForgetCalls
    /\ UNCHANGED <<ringing, crashes>>

\* One side says whether its media is ready; once both were, the session stays Active.
Report(s) ==
    /\ s \in Live
    /\ \E ready \in BOOLEAN :
          \/ live' = [live EXCEPT ![s] = Heard([@ EXCEPT !.media_a = ready])]
          \/ live' = [live EXCEPT ![s] = Heard([@ EXCEPT !.media_b = ready])]
    /\ UNCHANGED <<calls, ringing, talks, handed, crashes>>

Part(s) ==
    /\ live' = [live EXCEPT ![s] = Gone]
    /\ ForgetCalls /\ ForgetTalks
    /\ UNCHANGED <<ringing, handed, crashes>>

\* What rings or is live after a restart is any part of what is remembered in which
\* no dog occurs twice.
Crash ==
    /\ crashes' = crashes + 1
    /\ \A i \in ringing' : calls[i] # {}
    /\ \A s \in Live' : live'[s] \in Status /\ talks[s] # {}
    /\ \A i, j \in ringing' : i # j => \A p \in calls'[i], q \in calls'[j] : Disjoint(p, q)
    /\ \A r, s \in Live' : r # s => \A t \in talks'[r], u \in talks'[s] : Disjoint(t.dogs, u.dogs)
    /\ ForgetCalls /\ ForgetTalks
    /\ UNCHANGED handed

Next ==
    \/ \E i \in InviteIds : Ring(i)
    \/ Hush
    \/ \E s \in SessionIds : Talk(s) \/ Report(s) \/ Part(s)
    \/ Crash

Spec == Init /\ [][Next]_vars
=============================================================================
