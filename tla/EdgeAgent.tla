------------------------------ MODULE EdgeAgent ------------------------------
(***************************************************************************)
(* The terminals' EdgeAgent (edge/canis-edge/src/lib.rs) against the       *)
(* control plane.  A method of an agent runs alone, with its caller's      *)
(* `await`s: an action sends the request and has it served, and another    *)
(* takes the answer; what the server does meanwhile for others happens in  *)
(* between.  A request or its answer may be lost, and the method then      *)
(* returns an error.                                                       *)
(*                                                                         *)
(* The agent has no loop of its own.  Its caller (tools/sim-dog,           *)
(* tools/lab-experiment, the end-to-end tests) feeds it the UART, presses  *)
(* pads, and calls poll_incoming, sync_active, fetch_config and            *)
(* report_media_ready when it likes.                                       *)
(***************************************************************************)
EXTENDS ControlPlane

CONSTANTS
    MaxLosses,      \* bound: requests or answers lost
    MaxSwitches     \* bound: what the steward does

VARIABLES
    ux,         \* EdgeAgent's ux
    there,      \* the level of its presence filter
    armed,      \* social_armed
    offer,      \* last_offer, by its id
    session,    \* session, by its id
    denied,     \* remote_config says emergency_stop or social_disabled
    wait,       \* the request whose answer is awaited
    agreed,     \* history: who has ever reported media ready, by session
    losses, switches

agent == <<ux, there, armed, offer, session, denied>>
vars == <<plane, agent, wait, agreed, losses, switches>>

EdgeUx == {"IdleEmpty", "IdlePresent", "Inviting", "RingingOut", "RingingIn",
           "Negotiating", "InSession", "Halted"}

Talking == {"Negotiating", "InSession"}

\* What a method gets back: an id of an invite, a session as far as the agent uses it, the
\* configuration as far as it decides on it.
Result == {"ok", "refused", "lost"}
Reply == [id : 1..MaxSessions, active : BOOLEAN]
Config == [stop : BOOLEAN, denied : BOOLEAN]
Answers ==
    [op : {"call", "poll"}, result : Result, body : 1..MaxInvites \cup {None}]
        \cup [op : {"accept", "ready", "again", "sync"}, result : Result, body : Reply \cup {None}]
        \cup [op : {"end"}, result : Result, body : {None}]
        \cup [op : {"config", "halt"}, result : Result, body : Config \cup {None}]

ASSUME AgentBoundsAssumption == MaxLosses \in Nat /\ MaxSwitches \in Nat

ASSUME NoneAssumption ==
    None \notin (1..MaxInvites) \cup (1..MaxSessions) \cup Answers \cup Reply \cup Config

\* A new agent whose caller has read the UART once, as all of them do before anything
\* else: until then social_armed is set with nobody there.
Init ==
    /\ PlaneInit
    /\ ux = [d \in Dogs |-> "IdleEmpty"]
    /\ there = [d \in Dogs |-> FALSE]
    /\ armed = [d \in Dogs |-> FALSE]
    /\ offer = [d \in Dogs |-> None]
    /\ session = [d \in Dogs |-> None]
    /\ denied = [d \in Dogs |-> FALSE]
    /\ wait = [d \in Dogs |-> None]
    /\ agreed = [s \in 1..MaxSessions |-> {}]
    /\ losses = 0 /\ switches = 0

----------------------------------------------------------------------------
\* Requests and answers

Idle(d) == wait[d] = None

Answer(d, op, result, body) ==
    /\ wait' = [wait EXCEPT ![d] = [op |-> op, result |-> result, body |-> body]]
    /\ UNCHANGED losses

Lose(d, op, body) ==
    /\ losses < MaxLosses
    /\ losses' = losses + 1
    /\ wait' = [wait EXCEPT ![d] = [op |-> op, result |-> "lost", body |-> body]]

\* The answer of a request that was served arrives or is lost.
Answered(d, op, body) == Answer(d, op, "ok", body) \/ Lose(d, op, None)

\* The request is refused, or it is lost with nothing done.
NotServed(d, op, refused) ==
    /\ UNCHANGED <<plane, agreed>>
    /\ (refused /\ Answer(d, op, "refused", None)) \/ Lose(d, op, None)

Returns(d, op) == ~ Idle(d) /\ wait[d].op = op /\ wait' = [wait EXCEPT ![d] = None]
ResultOf(d) == wait[d].result
Body(d) == wait[d].body

\* What an agent uses of a session it is told of.
Told(s) == [id |-> s.id, active |-> Active(s)]

\* recompute_armed
Armed(present, no, state) == present /\ ~ no /\ state # "Halted"

----------------------------------------------------------------------------
\* ingest_uart: refresh_ux_from_presence with the filter's new level

\* The lure stays when the dog has left.
RefreshedKeepsLure(present, state) ==
    CASE present /\ state = "IdleEmpty" -> "IdlePresent"
      [] ~ present /\ state = "IdlePresent" -> "IdleEmpty"
      [] OTHER -> state

Refreshed(present, state) ==
    CASE present /\ state = "IdleEmpty" -> "IdlePresent"
      [] ~ present /\ state \in {"IdlePresent", "RingingIn"} -> "IdleEmpty"
      [] OTHER -> state

Ingest(d) ==
    /\ Idle(d)
    /\ \E present \in BOOLEAN :
          /\ there' = [there EXCEPT ![d] = present]
          /\ ux' = [ux EXCEPT ![d] = Refreshed(present, @)]
          /\ offer' = [offer EXCEPT ![d] = IF ~ present /\ ux[d] = "RingingIn" THEN None ELSE @]
          /\ armed' = [armed EXCEPT ![d] = Armed(present, denied[d], Refreshed(present, ux[d]))]
    /\ UNCHANGED <<plane, session, denied, wait, agreed, losses, switches>>

----------------------------------------------------------------------------
\* call

Call(d) ==
    /\ Idle(d)
    /\ ux[d] = "IdlePresent" /\ armed[d]
    /\ ux' = [ux EXCEPT ![d] = "Inviting"]
    /\ \/ /\ \E i \in Invite : Create(d, i) /\ Answered(d, "call", i.id)
          /\ UNCHANGED agreed
       \/ NotServed(d, "call", TRUE)
    /\ UNCHANGED <<there, armed, offer, session, denied, switches>>

CallReturns(d) ==
    /\ Returns(d, "call")
    /\ ux' = [ux EXCEPT ![d] = CASE ResultOf(d) = "ok" -> "RingingOut"
                                 [] ResultOf(d) = "refused" -> "IdlePresent"
                                 [] OTHER -> @]
    /\ UNCHANGED <<plane, there, armed, offer, session, denied, agreed, losses, switches>>

----------------------------------------------------------------------------
\* poll_incoming

Poll(d) ==
    /\ Idle(d)
    /\ armed[d] \/ ux[d] = "RingingIn"
    /\ Answered(d, "poll", Incoming(d))
    /\ UNCHANGED <<plane, agent, agreed, switches>>

\* Only a terminal that calls is left alone.
TakesOfferInSession(d) == ux[d] # "RingingOut"

\* An offer is taken unless the terminal calls or is in a session.
TakesOffer(d) == ux[d] \notin {"RingingOut"} \cup Talking

PollReturns(d) ==
    /\ Returns(d, "poll")
    /\ IF ResultOf(d) = "ok" /\ Body(d) # None /\ TakesOffer(d)
         THEN /\ ux' = [ux EXCEPT ![d] = "RingingIn"]
              /\ offer' = [offer EXCEPT ![d] = Body(d)]
         ELSE UNCHANGED <<ux, offer>>
    /\ UNCHANGED <<plane, there, armed, session, denied, agreed, losses, switches>>

----------------------------------------------------------------------------
\* report_media_ready

Report(d, id) ==
    \/ \E s \in Session :
          /\ MediaReady(d, id, s)
          /\ agreed' = [agreed EXCEPT ![id] = @ \cup {d}]
          /\ Answered(d, "ready", Told(s))
    \/ NotServed(d, "ready", ~ Known(id))

MediaReadyCall(d) ==
    /\ Idle(d)
    /\ session[d] # None
    /\ Report(d, session[d])
    /\ UNCHANGED <<agent, switches>>

\* An answer is all it takes.
InSessionByAnswer(s) == TRUE

InSessionBy(s) == s.active

ReadyReturns(d) ==
    /\ Returns(d, "ready")
    /\ IF ResultOf(d) = "ok"
         THEN /\ session' = [session EXCEPT ![d] = Body(d).id]
              /\ ux' = [ux EXCEPT ![d] = IF InSessionBy(Body(d)) THEN "InSession" ELSE @]
         ELSE UNCHANGED <<session, ux>>
    /\ UNCHANGED <<plane, there, armed, offer, denied, agreed, losses, switches>>

----------------------------------------------------------------------------
\* accept_incoming, by any pad, and its report_media_ready

AcceptCall(d) ==
    /\ Idle(d)
    /\ ux[d] = "RingingIn" /\ offer[d] # None
    /\ \/ /\ \E s \in Session : Accept(d, offer[d], s) /\ Answered(d, "accept", Told(s))
          /\ UNCHANGED agreed
       \/ NotServed(d, "accept", TRUE)
    /\ UNCHANGED <<agent, switches>>

AcceptReturns(d) ==
    /\ ~ Idle(d) /\ wait[d].op = "accept"
    /\ IF ResultOf(d) = "ok"
         THEN /\ session' = [session EXCEPT ![d] = Body(d).id]
              /\ offer' = [offer EXCEPT ![d] = None]
              /\ ux' = [ux EXCEPT ![d] = "Negotiating"]
              /\ Report(d, Body(d).id)
         ELSE /\ Returns(d, "accept")
              /\ UNCHANGED <<session, offer, ux, plane, agreed, losses>>
    /\ UNCHANGED <<there, armed, denied, switches>>

----------------------------------------------------------------------------
\* again, end_session and sync_active

Again(d) ==
    /\ Idle(d)
    /\ ux[d] = "InSession" /\ session[d] # None
    /\ \/ /\ Known(session[d])
          /\ Answered(d, "again", Told(TheSession(session[d])))
          /\ UNCHANGED <<plane, agreed>>
       \/ NotServed(d, "again", ~ Known(session[d]))
    /\ UNCHANGED <<agent, switches>>

AgainReturns(d) ==
    /\ Returns(d, "again")
    /\ session' = [session EXCEPT ![d] = IF ResultOf(d) = "ok" THEN Body(d).id ELSE @]
    /\ UNCHANGED <<plane, ux, there, armed, offer, denied, agreed, losses, switches>>

\* For fetch_config the body is the configuration that made it end the session.
EndRequest(d, op, cfg) ==
    /\ \/ End(session[d]) /\ (Answer(d, op, "ok", cfg) \/ Lose(d, op, cfg))
       \/ UNCHANGED plane /\ Lose(d, op, cfg)
    /\ UNCHANGED agreed

\* The pad Done, or a caller that ends the session of a dog that walked away.
Done(d) ==
    /\ Idle(d)
    /\ ux[d] \in Talking /\ session[d] # None
    /\ EndRequest(d, "end", None)
    /\ UNCHANGED <<agent, switches>>

Rest(d) == IF there[d] THEN "IdlePresent" ELSE "IdleEmpty"

EndReturns(d) ==
    /\ Returns(d, "end")
    /\ session' = [session EXCEPT ![d] = None]
    /\ ux' = [ux EXCEPT ![d] = Rest(d)]
    /\ UNCHANGED <<plane, there, armed, offer, denied, agreed, losses, switches>>

Sync(d) ==
    /\ Idle(d)
    /\ Answered(d, "sync", IF Busy(d) THEN Told(SessionOf(d)) ELSE None)
    /\ UNCHANGED <<plane, agent, agreed, switches>>

SyncReturns(d) ==
    /\ ~ Idle(d) /\ wait[d].op = "sync"
    /\ IF ResultOf(d) = "ok" /\ Body(d) # None
         THEN /\ session' = [session EXCEPT ![d] = Body(d).id]
              /\ IF Body(d).active
                   THEN /\ ux' = [ux EXCEPT ![d] = "InSession"]
                        /\ Returns(d, "sync")
                        /\ UNCHANGED <<plane, agreed, losses>>
                   ELSE /\ ux' = [ux EXCEPT ![d] = "Negotiating"]
                        /\ Report(d, Body(d).id)
         ELSE /\ Returns(d, "sync")
              /\ UNCHANGED <<session, ux, plane, agreed, losses>>
    /\ UNCHANGED <<there, armed, offer, denied, switches>>

----------------------------------------------------------------------------
\* fetch_config

Fetch(d) ==
    /\ Idle(d)
    /\ Answered(d, "config", [stop |-> d \in stop, denied |-> ~ May(d)])
    /\ UNCHANGED <<plane, agent, agreed, switches>>

Configured(d, no, state) ==
    /\ denied' = [denied EXCEPT ![d] = no]
    /\ armed' = [armed EXCEPT ![d] = Armed(there[d], no, state)]

FetchReturns(d) ==
    /\ ~ Idle(d) /\ wait[d].op = "config"
    /\ CASE ResultOf(d) # "ok" ->
              /\ Returns(d, "config")
              /\ UNCHANGED <<plane, ux, denied, armed, agreed, losses>>
         [] ResultOf(d) = "ok" /\ Body(d).stop /\ session[d] # None ->
              /\ ux' = [ux EXCEPT ![d] = "Halted"]
              /\ EndRequest(d, "halt", Body(d))
              /\ UNCHANGED <<denied, armed>>
         [] OTHER ->
              /\ Returns(d, "config")
              /\ ux' = [ux EXCEPT ![d] = IF Body(d).stop THEN "Halted" ELSE @]
              /\ Configured(d, Body(d).denied, ux'[d])
              /\ UNCHANGED <<plane, agreed, losses>>
    /\ UNCHANGED <<there, offer, session, switches>>

\* end_session's end, and fetch_denied's behind it.
HaltReturns(d) ==
    /\ Returns(d, "halt")
    /\ session' = [session EXCEPT ![d] = None]
    /\ ux' = [ux EXCEPT ![d] = Rest(d)]
    /\ Configured(d, Body(d).denied, Rest(d))
    /\ UNCHANGED <<plane, there, offer, agreed, losses, switches>>

----------------------------------------------------------------------------
Steward(d) ==
    /\ switches < MaxSwitches
    /\ switches' = switches + 1
    /\ \/ d \notin stop /\ SetStop(d)
       \/ d \in stop /\ ClearStop(d)
       \/ SetOff(d, d \notin off)
    /\ UNCHANGED <<agent, wait, agreed, losses>>

Server(A) == A /\ UNCHANGED <<agent, wait, agreed, losses, switches>>

Await(d) ==
    \/ CallReturns(d) \/ PollReturns(d) \/ ReadyReturns(d) \/ AcceptReturns(d)
    \/ AgainReturns(d) \/ EndReturns(d) \/ SyncReturns(d) \/ FetchReturns(d)
    \/ HaltReturns(d)

Next ==
    \/ \E d \in Dogs :
          \/ Ingest(d) \/ Call(d) \/ Poll(d) \/ MediaReadyCall(d) \/ AcceptCall(d)
          \/ Again(d) \/ Done(d) \/ Sync(d) \/ Fetch(d) \/ Await(d)
          \/ Steward(d)
    \/ Server(Expire) \/ Server(TimeUp) \/ Server(TickStop)

Spec == Init /\ [][Next]_vars

----------------------------------------------------------------------------
\* The agent's fields hold what the control plane hands out.
TypeOK ==
    /\ PlaneTypeOK
    /\ ux \in [Dogs -> EdgeUx]
    /\ there \in [Dogs -> BOOLEAN] /\ armed \in [Dogs -> BOOLEAN]
    /\ offer \in [Dogs -> 1..MaxInvites \cup {None}]
    /\ session \in [Dogs -> 1..MaxSessions \cup {None}]
    /\ denied \in [Dogs -> BOOLEAN]
    /\ wait \in [Dogs -> Answers \cup {None}]
    /\ agreed \in [1..MaxSessions -> SUBSET Dogs]
    /\ losses \in 0..MaxLosses /\ switches \in 0..MaxSwitches

\* What the agent shows and what it holds never part, whatever was lost: it shows a
\* session exactly when it holds one (or is just ending it), and rings for an offer it has.
ShowsWhatItHolds ==
    \A d \in Dogs :
        /\ session[d] # None <=>
              ux[d] \in Talking \/ (ux[d] = "Halted" /\ ~ Idle(d) /\ wait[d].op = "halt")
        /\ ux[d] = "RingingIn" => offer[d] # None

\* A terminal says that the two dogs see each other only when it and another terminal
\* have said that their media are ready, for this very session.
AgreedBy(d, i) == \E e \in Dogs \ {d} : {d, e} \subseteq agreed[i]
InSessionWasAgreed == \A d \in Dogs : ux[d] = "InSession" => AgreedBy(d, session[d])

\* While the control plane has a session for the dog, the terminal holds no other one.
NoOtherSession ==
    \A d \in Dogs :
        session[d] # None => \A s \in sessions : With(s, d) => s.id = session[d]

\* The lure is on only for a dog on the mat.
LureNeedsDog == \A d \in Dogs : ux[d] = "RingingIn" => there[d]

----------------------------------------------------------------------------
\* The inductive invariants.  While a method runs nothing else touches its agent: when
\* the answer comes, the agent is as it was when the request was sent.
Waiting ==
    \A d \in Dogs : ~ Idle(d) =>
        /\ wait[d].op = "call" => ux[d] = "Inviting"
        /\ wait[d].op = "poll" => there[d]
        /\ wait[d].op = "accept" => ux[d] = "RingingIn"
        /\ wait[d].op = "ready" => ux[d] \in Talking
        /\ wait[d].op = "again" => ux[d] = "InSession"
        /\ wait[d].op = "halt" => ux[d] = "Halted" /\ wait[d].body # None
        /\ wait[d].op \in {"accept", "ready", "again", "config"} /\ wait[d].result = "ok" =>
              wait[d].body # None

ArmedIsThere == \A d \in Dogs : armed[d] => there[d]

AgentInv == ShowsWhatItHolds /\ LureNeedsDog /\ ArmedIsThere /\ Waiting

\* A session's flags were all reported; its id is no other session's.
FlagsReported ==
    /\ \A s, r \in sessions : s.id = r.id => s = r
    /\ \A s \in sessions : s.id <= made.sessions /\ s.ready \subseteq agreed[s.id]

\* An id that a terminal holds or is told of is one of its own sessions', if still live.
Own(d, i) == i <= made.sessions /\ \A s \in sessions : s.id = i => With(s, d)

AnyReply(d) ==
    ~ Idle(d) /\ wait[d].op \in {"accept", "ready", "again", "sync"} /\ wait[d].body # None

HoldsOwn ==
    \A d \in Dogs :
        /\ session[d] # None => Own(d, session[d])
        /\ AnyReply(d) =>
              /\ Own(d, wait[d].body.id)
              /\ wait[d].body.active => AgreedBy(d, wait[d].body.id)
              /\ wait[d].op \in {"ready", "again"} => wait[d].body.id = session[d]

AgreeInv == FlagsReported /\ HoldsOwn /\ InSessionWasAgreed

\* A dog is in one contact at most: what create_invite and the stores see to.
OneContact ==
    \A d \in Dogs :
        /\ \A i, j \in invites : Between(i, d) /\ Between(j, d) => i = j
        /\ \A i \in invites : Between(i, d) => ~ Busy(d)
        /\ \A s, r \in sessions : With(s, d) /\ With(r, d) => s = r

\* The sessions a terminal knows of: the one it holds and the one it is being told of.
Held(d) ==
    (IF session[d] = None THEN {} ELSE {session[d]})
        \cup (IF AnyReply(d) THEN {wait[d].body.id} ELSE {})

\* Whoever knows of a session does not call, and knows of no other while it is in one.
HeldIsCurrent(d) ==
    \A x \in Held(d) :
        /\ \A i \in invites : i.from # d
        /\ \A s \in sessions : With(s, d) => s.id = x

ContactInv == OneContact /\ \A d \in Dogs : HeldIsCurrent(d)
=============================================================================
