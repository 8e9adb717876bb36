----------------------------- MODULE ControlPlane -----------------------------
(***************************************************************************)
(* The control plane as a terminal or a portal page sees it: what each     *)
(* handler of services/device-api answers and does to the open invites,    *)
(* the sessions and the steward's switches, in one step.  DeviceApi has    *)
(* the steps inside the handlers.  Presence, bonds, the rate limit and the *)
(* deadlines are not kept here: a request they decide on may be refused at *)
(* any time, and a deadline may pass at any time.                          *)
(***************************************************************************)
EXTENDS Naturals, FiniteSets

CONSTANTS
    Dogs,
    None,           \* no invite, no session, no answer
    MaxInvites,     \* bound: invites ever made
    MaxSessions     \* bound: sessions ever made

ASSUME BoundsAssumption == MaxInvites \in Nat /\ MaxSessions \in Nat

VARIABLES
    invites,    \* the open invites
    sessions,   \* the live sessions
    made,       \* how many invites and sessions were made
    stop,       \* the dogs under an emergency stop
    off         \* the dogs with social_disabled

plane == <<invites, sessions, made, stop, off>>

Invite == [id : 1..MaxInvites, from : Dogs, to : Dogs]
Session == [id : 1..MaxSessions, dog_a : Dogs, dog_b : Dogs, ready : SUBSET Dogs]

PlaneInit ==
    /\ invites = {} /\ sessions = {}
    /\ made = [invites |-> 0, sessions |-> 0]
    /\ stop = {} /\ off = {}

Between(i, d) == d \in {i.from, i.to}
With(s, d) == d \in {s.dog_a, s.dog_b}

\* set_media_ready sets dog_a's flag for a dog that is on both sides.
Active(s) == s.dog_a # s.dog_b /\ s.ready = {s.dog_a, s.dog_b}

May(d) == d \notin stop \cup off
Ringing(d) == \E i \in invites : Between(i, d)
Busy(d) == \E s \in sessions : With(s, d)

\* create_invite, refused: by policy, rate, bond or presence, or somebody is busy.
CreateRefused == UNCHANGED plane

\* create_invite, served.  Nobody asks whether the dog calls itself: a dog that is bonded
\* to itself is its own candidate.
Create(d, i) ==
    /\ made.invites < MaxInvites
    /\ i.id = made.invites + 1 /\ i.from = d
    /\ \A e \in {d, i.to} : May(e) /\ ~ Ringing(e) /\ ~ Busy(e)
    /\ invites' = invites \cup {i}
    /\ made' = [made EXCEPT !.invites = @ + 1]
    /\ UNCHANGED <<sessions, stop, off>>

\* incoming_invite: the invite that rings at d, by its id
Incoming(d) ==
    IF May(d) /\ \E i \in invites : i.to = d
      THEN (CHOOSE i \in invites : i.to = d).id
      ELSE None

\* accept_invite_handler: refused by policy or presence, or the invite is not there.
AcceptRefused == UNCHANGED plane

\* The id is not counted up.
AcceptUncounted(d, id, s) ==
    /\ May(d)
    /\ made.sessions < MaxSessions
    /\ \E i \in invites :
          /\ i.id = id /\ i.to = d
          /\ ~ Busy(i.from) /\ ~ Busy(d)
          /\ s = [id |-> made.sessions + 1, dog_a |-> i.from, dog_b |-> d, ready |-> {}]
          /\ invites' = invites \ {i}
    /\ sessions' = sessions \cup {s}
    /\ UNCHANGED <<made, stop, off>>

Accept(d, id, s) ==
    /\ May(d)
    /\ made.sessions < MaxSessions
    /\ \E i \in invites :
          /\ i.id = id /\ i.to = d
          /\ ~ Busy(i.from) /\ ~ Busy(d)
          /\ s = [id |-> made.sessions + 1, dog_a |-> i.from, dog_b |-> d, ready |-> {}]
          /\ invites' = invites \ {i}
    /\ sessions' = sessions \cup {s}
    /\ made' = [made EXCEPT !.sessions = @ + 1]
    /\ UNCHANGED <<stop, off>>

\* active_session
SessionOf(d) ==
    IF Busy(d) THEN CHOOSE s \in sessions : With(s, d) ELSE None

Known(id) == \E s \in sessions : s.id = id
TheSession(id) == CHOOSE s \in sessions : s.id = id

\* media_ready with ready set, for a session there is
MediaReady(d, id, s) ==
    /\ Known(id)
    /\ s = [TheSession(id) EXCEPT !.ready = @ \cup {d}]
    /\ sessions' = (sessions \ {TheSession(id)}) \cup {s}
    /\ UNCHANGED <<invites, made, stop, off>>

\* end_session, and what ends a session beside it: the tick, and an emergency stop
End(id) ==
    /\ sessions' = {s \in sessions : s.id # id}
    /\ UNCHANGED <<invites, made, stop, off>>

\* An invite's time has passed, at the tick or in a handler.
Expire ==
    /\ \E i \in invites : invites' = invites \ {i}
    /\ UNCHANGED <<sessions, made, stop, off>>

\* policy_tick ends a session whose time is up.
TimeUp == \E s \in sessions : End(s.id)

\* policy_tick ends the session of a dog under an emergency stop.
TickStop == \E s \in sessions : stop \cap {s.dog_a, s.dog_b} # {} /\ End(s.id)

\* steward_estop
SetStop(d) ==
    /\ stop' = stop \cup {d}
    /\ sessions' = {s \in sessions : ~ With(s, d)}
    /\ UNCHANGED <<invites, made, off>>

ClearStop(d) ==
    /\ stop' = stop \ {d}
    /\ UNCHANGED <<invites, sessions, made, off>>

\* steward_social
SetOff(d, new) ==
    /\ off' = IF new THEN off \cup {d} ELSE off \ {d}
    /\ UNCHANGED <<invites, sessions, made, stop>>

PlaneTypeOK ==
    /\ invites \subseteq Invite /\ \A i \in invites : i.id <= made.invites
    /\ sessions \subseteq Session /\ \A s \in sessions : s.id <= made.sessions
    /\ made \in [invites : 0..MaxInvites, sessions : 0..MaxSessions]
    /\ stop \subseteq Dogs /\ off \subseteq Dogs
=============================================================================
