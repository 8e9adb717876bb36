--------------------------- MODULE EdgeAgentProofs ---------------------------
(***************************************************************************)
(* What a terminal shows agrees with what it holds and with what both      *)
(* sides have reported, for any number of dogs, invites, sessions, lost    *)
(* requests and stewards' switches.                                        *)
(***************************************************************************)
EXTENDS EdgeAgent, TLAPS

USE BoundsAssumption, AgentBoundsAssumption

----------------------------------------------------------------------------
\* The control plane's part of the types.

LEMMA CreateType ==
    ASSUME PlaneTypeOK, NEW d \in Dogs, NEW i \in Invite, Create(d, i)
    PROVE  PlaneTypeOK'
  BY DEF PlaneTypeOK, Create, Invite

LEMMA AcceptType ==
    ASSUME PlaneTypeOK, NEW d \in Dogs, NEW id, NEW s \in Session, Accept(d, id, s)
    PROVE  PlaneTypeOK'
<1>1. PICK i \in invites : i.to = d /\ s.dog_a = i.from /\ s.dog_b = d
                             /\ invites' = invites \ {i}
  BY DEF Accept
<1>2. /\ made.sessions \in Nat /\ s.id = made.sessions + 1
      /\ made'.sessions = made.sessions + 1 /\ made'.invites = made.invites
  BY DEF PlaneTypeOK, Accept
<1>3. made' \in [invites : 0..MaxInvites, sessions : 0..MaxSessions]
  BY DEF PlaneTypeOK, Accept
<1>4. sessions' = sessions \cup {s} /\ UNCHANGED <<stop, off>>
  BY DEF Accept
<1>5. \A r \in sessions' : r.id <= made'.sessions
  <2>1. \A r \in sessions : r.id \in Nat /\ r.id <= made.sessions
    BY DEF PlaneTypeOK, Session
  <2> QED BY <1>2, <1>4, <2>1
<1> QED
  BY <1>1, <1>2, <1>3, <1>4, <1>5 DEF PlaneTypeOK

LEMMA TheSessionIs ==
    ASSUME NEW id, Known(id)
    PROVE  TheSession(id) \in sessions /\ TheSession(id).id = id
  BY DEF Known, TheSession

LEMMA ReadyType ==
    ASSUME PlaneTypeOK, NEW d \in Dogs, NEW id, NEW s \in Session, MediaReady(d, id, s)
    PROVE  PlaneTypeOK'
<1>1. TheSession(id) \in sessions
  BY TheSessionIs DEF MediaReady
<1>2. s.id = TheSession(id).id
  BY <1>1 DEF MediaReady, PlaneTypeOK, Session
<1>3. sessions' \subseteq sessions \cup {s} /\ UNCHANGED <<invites, made, stop, off>>
  BY DEF MediaReady
<1> QED
  BY <1>1, <1>2, <1>3 DEF PlaneTypeOK

LEMMA EndType ==
    ASSUME PlaneTypeOK, NEW id, End(id)
    PROVE  PlaneTypeOK'
  BY DEF PlaneTypeOK, End

LEMMA ServerType ==
    ASSUME PlaneTypeOK, Expire \/ TimeUp \/ TickStop
    PROVE  PlaneTypeOK'
<1>1. CASE Expire
  BY <1>1 DEF PlaneTypeOK, Expire
<1>2. CASE TimeUp \/ TickStop
  BY <1>2, EndType DEF TimeUp, TickStop
<1> QED
  BY <1>1, <1>2

LEMMA StewardType ==
    ASSUME PlaneTypeOK, NEW d \in Dogs,
           SetStop(d) \/ ClearStop(d) \/ SetOff(d, d \notin off)
    PROVE  PlaneTypeOK'
  BY DEF PlaneTypeOK, SetStop, ClearStop, SetOff

----------------------------------------------------------------------------
\* The answers' part.

WaitOK == wait \in [Dogs -> Answers \cup {None}] /\ losses \in 0..MaxLosses

LEMMA AnswerType ==
    ASSUME WaitOK, NEW d \in Dogs, NEW op, NEW result, NEW body,
           [op |-> op, result |-> result, body |-> body] \in Answers,
           Answer(d, op, result, body)
    PROVE  WaitOK'
  BY DEF WaitOK, Answer

LEMMA LoseType ==
    ASSUME WaitOK, NEW d \in Dogs, NEW op, NEW body,
           [op |-> op, result |-> "lost", body |-> body] \in Answers,
           Lose(d, op, body)
    PROVE  WaitOK'
  BY DEF WaitOK, Lose

LEMMA AnsweredType ==
    ASSUME WaitOK, NEW d \in Dogs, NEW op, NEW body,
           [op |-> op, result |-> "ok", body |-> body] \in Answers,
           [op |-> op, result |-> "lost", body |-> None] \in Answers,
           Answered(d, op, body)
    PROVE  WaitOK'
  BY AnswerType, LoseType DEF Answered

LEMMA NotServedType ==
    ASSUME WaitOK, NEW d \in Dogs, NEW op, NEW refused,
           [op |-> op, result |-> "refused", body |-> None] \in Answers,
           [op |-> op, result |-> "lost", body |-> None] \in Answers,
           NotServed(d, op, refused)
    PROVE  WaitOK'
  BY AnswerType, LoseType DEF NotServed

LEMMA ReturnsType ==
    ASSUME WaitOK, NEW d \in Dogs, NEW op, Returns(d, op), UNCHANGED losses
    PROVE  WaitOK'
  BY DEF WaitOK, Returns

\* Without a body any answer but a configuration's end is one.
LEMMA NoBody ==
    ASSUME NEW r \in Result
    PROVE  \A op \in {"call", "poll", "accept", "ready", "again", "sync", "end", "config"} :
              [op |-> op, result |-> r, body |-> None] \in Answers
  BY DEF Answers

LEMMA ReplyIs ==
    ASSUME NEW s \in Session
    PROVE  Told(s) \in Reply /\ Told(s) # None
<1>1. Told(s) \in Reply
  BY DEF Session, Told, Active, Reply
<1> QED
  BY <1>1, NoneAssumption

LEMMA ReplyAnswers ==
    ASSUME NEW b \in Reply, NEW op \in {"accept", "ready", "again", "sync"}
    PROVE  [op |-> op, result |-> "ok", body |-> b] \in Answers
  BY DEF Answers, Result

----------------------------------------------------------------------------
\* TypeOK, one action at a time.

AgentTypeOK ==
    /\ ux \in [Dogs -> EdgeUx]
    /\ there \in [Dogs -> BOOLEAN] /\ armed \in [Dogs -> BOOLEAN]
    /\ offer \in [Dogs -> 1..MaxInvites \cup {None}]
    /\ session \in [Dogs -> 1..MaxSessions \cup {None}]
    /\ denied \in [Dogs -> BOOLEAN]
    /\ agreed \in [1..MaxSessions -> SUBSET Dogs]
    /\ switches \in 0..MaxSwitches

LEMMA TypeParts == TypeOK <=> PlaneTypeOK /\ AgentTypeOK /\ WaitOK
  BY DEF TypeOK, AgentTypeOK, WaitOK

LEMMA InitType == Init => TypeOK
  BY DEF Init, PlaneInit, TypeOK, PlaneTypeOK, EdgeUx

\* Kept by a step that leaves the control plane alone and takes an answer.
LEMMA TakesType ==
    ASSUME TypeOK, AgentTypeOK', NEW d \in Dogs, NEW op, Returns(d, op),
           UNCHANGED <<plane, losses>>
    PROVE  TypeOK'
<1>1. PlaneTypeOK'
  BY TypeParts DEF PlaneTypeOK, plane
<1>2. WaitOK'
  BY ReturnsType, TypeParts
<1> QED
  BY <1>1, <1>2, TypeParts DEF TypeOK, PlaneTypeOK, AgentTypeOK, WaitOK

\* Kept by a step that asks and changes neither the plane nor the agent.
LEMMA AsksType ==
    ASSUME TypeOK, WaitOK', UNCHANGED <<plane, agent, agreed, switches>>
    PROVE  TypeOK'
<1>1. PlaneTypeOK'
  BY TypeParts DEF PlaneTypeOK, plane
<1>2. AgentTypeOK'
  BY TypeParts DEF AgentTypeOK, agent
<1> QED
  BY <1>1, <1>2 DEF TypeOK, PlaneTypeOK, AgentTypeOK, WaitOK

LEMMA IngestType ==
    ASSUME TypeOK, NEW d \in Dogs, Ingest(d)
    PROVE  TypeOK'
<1>1. PICK present \in BOOLEAN :
         /\ there' = [there EXCEPT ![d] = present]
         /\ ux' = [ux EXCEPT ![d] = Refreshed(present, @)]
         /\ offer' = [offer EXCEPT ![d] = IF ~ present /\ ux[d] = "RingingIn" THEN None ELSE @]
         /\ armed' = [armed EXCEPT ![d] = Armed(present, denied[d], Refreshed(present, ux[d]))]
  BY DEF Ingest
<1>2. ux' \in [Dogs -> EdgeUx]
  BY <1>1 DEF TypeOK, Refreshed, EdgeUx
<1>3. Armed(present, denied[d], Refreshed(present, ux[d])) \in BOOLEAN
  BY DEF Armed
<1>4. there' \in [Dogs -> BOOLEAN] /\ armed' \in [Dogs -> BOOLEAN]
  BY <1>1, <1>3, Zenon DEF TypeOK
<1>5. offer' \in [Dogs -> 1..MaxInvites \cup {None}]
  BY <1>1 DEF TypeOK
<1> QED
  BY <1>2, <1>4, <1>5 DEF TypeOK, Ingest, plane, PlaneTypeOK

LEMMA CallType ==
    ASSUME TypeOK, NEW d \in Dogs, Call(d)
    PROVE  TypeOK'
<1>1. AgentTypeOK'
  BY DEF Call, NotServed, TypeOK, AgentTypeOK, EdgeUx
<1>2. PlaneTypeOK' /\ WaitOK'
  <2>1. CASE \E i \in Invite : Create(d, i) /\ Answered(d, "call", i.id)
    <3>1. PICK i \in Invite : Create(d, i) /\ Answered(d, "call", i.id)
      BY <2>1
    <3>2. /\ [op |-> "call", result |-> "ok", body |-> i.id] \in Answers
          /\ [op |-> "call", result |-> "lost", body |-> None] \in Answers
      BY DEF Invite, Answers, Result
    <3> QED
      BY <3>1, <3>2, CreateType, AnsweredType, TypeParts
  <2>2. CASE NotServed(d, "call", TRUE)
    <3>1. PlaneTypeOK'
      BY <2>2 DEF NotServed, TypeOK, PlaneTypeOK, plane
    <3>2. /\ [op |-> "call", result |-> "refused", body |-> None] \in Answers
          /\ [op |-> "call", result |-> "lost", body |-> None] \in Answers
      BY DEF Answers, Result
    <3> QED
      BY <2>2, <3>1, <3>2, NotServedType, TypeParts
  <2> QED
    BY <2>1, <2>2 DEF Call
<1> QED
  BY <1>1, <1>2 DEF TypeOK, PlaneTypeOK, AgentTypeOK, WaitOK

LEMMA CallReturnsType ==
    ASSUME TypeOK, NEW d \in Dogs, CallReturns(d)
    PROVE  TypeOK'
<1>1. AgentTypeOK'
  BY DEF CallReturns, TypeOK, AgentTypeOK, EdgeUx
<1> QED
  BY <1>1, TakesType DEF CallReturns, plane

LEMMA PollType ==
    ASSUME TypeOK, NEW d \in Dogs, Poll(d)
    PROVE  TypeOK'
<1>1. Incoming(d) \in 1..MaxInvites \cup {None}
  BY DEF Incoming, TypeOK, PlaneTypeOK, Invite
<1>2. /\ [op |-> "poll", result |-> "ok", body |-> Incoming(d)] \in Answers
      /\ [op |-> "poll", result |-> "lost", body |-> None] \in Answers
  BY <1>1 DEF Answers, Result
<1>3. WaitOK'
  BY <1>2, AnsweredType, TypeParts DEF Poll
<1> QED
  BY <1>3, AsksType DEF Poll

LEMMA PollReturnsType ==
    ASSUME TypeOK, NEW d \in Dogs, PollReturns(d)
    PROVE  TypeOK'
<1>1. wait[d] \in Answers /\ wait[d].op = "poll"
  BY DEF PollReturns, Returns, Idle, TypeOK
<1>2. Body(d) \in 1..MaxInvites \cup {None}
  BY <1>1 DEF Answers, Body
<1>3. AgentTypeOK'
  BY <1>2 DEF PollReturns, TypeOK, AgentTypeOK, EdgeUx
<1> QED
  BY <1>3, TakesType DEF PollReturns, plane

\* A report_media_ready, served or not.
LEMMA ReportType ==
    ASSUME TypeOK, NEW d \in Dogs, NEW id, Report(d, id)
    PROVE  PlaneTypeOK' /\ WaitOK' /\ agreed' \in [1..MaxSessions -> SUBSET Dogs]
<1>1. CASE \E s \in Session :
              /\ MediaReady(d, id, s)
              /\ agreed' = [agreed EXCEPT ![id] = @ \cup {d}]
              /\ Answered(d, "ready", Told(s))
  <2>1. PICK s \in Session :
              /\ MediaReady(d, id, s)
              /\ agreed' = [agreed EXCEPT ![id] = @ \cup {d}]
              /\ Answered(d, "ready", Told(s))
    BY <1>1
  <2>2. /\ [op |-> "ready", result |-> "ok", body |-> Told(s)] \in Answers
        /\ [op |-> "ready", result |-> "lost", body |-> None] \in Answers
    BY ReplyIs, ReplyAnswers, NoBody DEF Result
  <2>3. WaitOK'
    BY <2>1, <2>2, AnsweredType, TypeParts
  <2>4. agreed' \in [1..MaxSessions -> SUBSET Dogs]
    BY <2>1 DEF TypeOK
  <2> QED
    BY <2>1, <2>3, <2>4, ReadyType, TypeParts
<1>2. CASE NotServed(d, "ready", ~ Known(id))
  <2>1. /\ [op |-> "ready", result |-> "refused", body |-> None] \in Answers
        /\ [op |-> "ready", result |-> "lost", body |-> None] \in Answers
    BY NoBody DEF Result
  <2>2. WaitOK'
    BY <1>2, <2>1, NotServedType, TypeParts
  <2> QED
    BY <1>2, <2>2 DEF NotServed, TypeOK, PlaneTypeOK, plane
<1> QED
  BY <1>1, <1>2 DEF Report

LEMMA MediaReadyCallType ==
    ASSUME TypeOK, NEW d \in Dogs, MediaReadyCall(d)
    PROVE  TypeOK'
<1>1. PlaneTypeOK' /\ WaitOK' /\ agreed' \in [1..MaxSessions -> SUBSET Dogs]
  BY ReportType DEF MediaReadyCall
<1> QED
  BY <1>1 DEF MediaReadyCall, agent, TypeOK, WaitOK

\* What an answer with a session carries.
LEMMA ReplyBody ==
    ASSUME TypeOK, NEW d \in Dogs, ~ Idle(d),
           wait[d].op \in {"accept", "ready", "again", "sync"},
           Body(d) # None
    PROVE  Body(d) \in Reply /\ Body(d).id \in 1..MaxSessions /\ Body(d).id # None
<1>1. wait[d] \in Answers
  BY DEF TypeOK, Idle
<1>2. Body(d) \in Reply
  BY <1>1 DEF Answers, Body
<1> QED
  BY <1>2, NoneAssumption DEF Reply

LEMMA HasBody ==
    ASSUME Waiting, NEW d \in Dogs, ~ Idle(d),
           wait[d].op \in {"accept", "ready", "again", "config"}, ResultOf(d) = "ok"
    PROVE  Body(d) # None
  BY DEF Waiting, ResultOf, Body

LEMMA ReadyReturnsType ==
    ASSUME TypeOK, Waiting, NEW d \in Dogs, ReadyReturns(d)
    PROVE  TypeOK'
<1>1. ~ Idle(d) /\ wait[d].op = "ready"
  BY DEF ReadyReturns, Returns
<1>2. ResultOf(d) = "ok" => Body(d).id \in 1..MaxSessions
  BY <1>1, HasBody, ReplyBody
<1>3. AgentTypeOK'
  BY <1>2 DEF ReadyReturns, TypeOK, AgentTypeOK, EdgeUx
<1> QED
  BY <1>3, TakesType DEF ReadyReturns, plane

LEMMA AcceptCallType ==
    ASSUME TypeOK, NEW d \in Dogs, AcceptCall(d)
    PROVE  TypeOK'
<1>1. AgentTypeOK'
  BY DEF AcceptCall, NotServed, agent, TypeOK, AgentTypeOK
<1>2. PlaneTypeOK' /\ WaitOK'
  <2>1. CASE \E s \in Session : Accept(d, offer[d], s) /\ Answered(d, "accept", Told(s))
    <3>1. PICK s \in Session : Accept(d, offer[d], s) /\ Answered(d, "accept", Told(s))
      BY <2>1
    <3>2. /\ [op |-> "accept", result |-> "ok", body |-> Told(s)] \in Answers
          /\ [op |-> "accept", result |-> "lost", body |-> None] \in Answers
      BY ReplyIs, ReplyAnswers, NoBody DEF Result
    <3> QED
      BY <3>1, <3>2, AcceptType, AnsweredType, TypeParts
  <2>2. CASE NotServed(d, "accept", TRUE)
    <3>1. /\ [op |-> "accept", result |-> "refused", body |-> None] \in Answers
          /\ [op |-> "accept", result |-> "lost", body |-> None] \in Answers
      BY NoBody DEF Result
    <3>2. PlaneTypeOK'
      BY <2>2 DEF NotServed, TypeOK, PlaneTypeOK, plane
    <3> QED
      BY <2>2, <3>1, <3>2, NotServedType, TypeParts
  <2> QED
    BY <2>1, <2>2 DEF AcceptCall
<1> QED
  BY <1>1, <1>2 DEF TypeOK, PlaneTypeOK, AgentTypeOK, WaitOK

LEMMA AcceptReturnsType ==
    ASSUME TypeOK, Waiting, NEW d \in Dogs, AcceptReturns(d)
    PROVE  TypeOK'
<1>0. ~ Idle(d) /\ wait[d].op = "accept"
  BY DEF AcceptReturns
<1>1. CASE ResultOf(d) = "ok"
  <2>1. Body(d).id \in 1..MaxSessions
    BY <1>0, <1>1, HasBody, ReplyBody
  <2>2. PlaneTypeOK' /\ WaitOK' /\ agreed' \in [1..MaxSessions -> SUBSET Dogs]
    BY <1>1, ReportType DEF AcceptReturns
  <2>3. /\ session' = [session EXCEPT ![d] = Body(d).id]
        /\ offer' = [offer EXCEPT ![d] = None]
        /\ ux' = [ux EXCEPT ![d] = "Negotiating"]
        /\ UNCHANGED <<there, armed, denied, switches>>
    BY <1>1 DEF AcceptReturns
  <2> QED
    BY <2>1, <2>2, <2>3 DEF TypeOK, EdgeUx, WaitOK
<1>2. CASE ResultOf(d) # "ok"
  <2>1. AgentTypeOK'
    BY <1>2 DEF AcceptReturns, TypeOK, AgentTypeOK
  <2> QED
    BY <1>2, <2>1, TakesType DEF AcceptReturns, plane
<1> QED
  BY <1>1, <1>2

LEMMA AgainType ==
    ASSUME TypeOK, NEW d \in Dogs, Again(d)
    PROVE  TypeOK'
<1>1. WaitOK'
  <2>1. CASE Known(session[d]) /\ Answered(d, "again", Told(TheSession(session[d])))
    <3>1. TheSession(session[d]) \in Session
      BY <2>1, TheSessionIs DEF TypeOK, PlaneTypeOK
    <3>2. /\ [op |-> "again", result |-> "ok", body |-> Told(TheSession(session[d]))] \in Answers
          /\ [op |-> "again", result |-> "lost", body |-> None] \in Answers
      BY <3>1, ReplyIs, ReplyAnswers, NoBody DEF Result
    <3> QED
      BY <2>1, <3>2, AnsweredType, TypeParts
  <2>2. CASE NotServed(d, "again", ~ Known(session[d]))
    <3>1. /\ [op |-> "again", result |-> "refused", body |-> None] \in Answers
          /\ [op |-> "again", result |-> "lost", body |-> None] \in Answers
      BY NoBody DEF Result
    <3> QED
      BY <2>2, <3>1, NotServedType, TypeParts
  <2> QED
    BY <2>1, <2>2 DEF Again
<1> QED
  BY <1>1, AsksType DEF Again, NotServed

LEMMA AgainReturnsType ==
    ASSUME TypeOK, Waiting, NEW d \in Dogs, AgainReturns(d)
    PROVE  TypeOK'
<1>1. ~ Idle(d) /\ wait[d].op = "again"
  BY DEF AgainReturns, Returns
<1>2. ResultOf(d) = "ok" => Body(d).id \in 1..MaxSessions
  BY <1>1, HasBody, ReplyBody
<1>3. AgentTypeOK'
  BY <1>2 DEF AgainReturns, TypeOK, AgentTypeOK
<1> QED
  BY <1>3, TakesType DEF AgainReturns, plane

LEMMA EndRequestType ==
    ASSUME TypeOK, NEW d \in Dogs, NEW op, NEW cfg, EndRequest(d, op, cfg),
           [op |-> op, result |-> "ok", body |-> cfg] \in Answers,
           [op |-> op, result |-> "lost", body |-> cfg] \in Answers
    PROVE  PlaneTypeOK' /\ WaitOK' /\ UNCHANGED agreed
<1>1. PlaneTypeOK'
  BY EndType, TypeParts DEF EndRequest, PlaneTypeOK, plane
<1>2. WaitOK'
  BY AnswerType, LoseType, TypeParts DEF EndRequest
<1> QED
  BY <1>1, <1>2 DEF EndRequest

LEMMA DoneType ==
    ASSUME TypeOK, NEW d \in Dogs, Done(d)
    PROVE  TypeOK'
<1>1. /\ [op |-> "end", result |-> "ok", body |-> None] \in Answers
      /\ [op |-> "end", result |-> "lost", body |-> None] \in Answers
  BY NoBody DEF Result
<1>2. PlaneTypeOK' /\ WaitOK' /\ UNCHANGED agreed
  BY <1>1, EndRequestType DEF Done
<1> QED
  BY <1>2 DEF Done, agent, TypeOK, WaitOK

LEMMA EndReturnsType ==
    ASSUME TypeOK, NEW d \in Dogs, EndReturns(d)
    PROVE  TypeOK'
<1>1. AgentTypeOK'
  BY DEF EndReturns, Rest, TypeOK, AgentTypeOK, EdgeUx
<1> QED
  BY <1>1, TakesType DEF EndReturns, plane

LEMMA SessionOfIs ==
    ASSUME NEW d \in Dogs, Busy(d)
    PROVE  SessionOf(d) \in sessions /\ With(SessionOf(d), d)
  BY DEF Busy, SessionOf

LEMMA SyncType ==
    ASSUME TypeOK, NEW d \in Dogs, Sync(d)
    PROVE  TypeOK'
<1> DEFINE body == IF Busy(d) THEN Told(SessionOf(d)) ELSE None
<1>1. body \in Reply \cup {None}
  BY SessionOfIs, ReplyIs DEF TypeOK, PlaneTypeOK
<1>2. /\ [op |-> "sync", result |-> "ok", body |-> body] \in Answers
      /\ [op |-> "sync", result |-> "lost", body |-> None] \in Answers
  BY <1>1, ReplyAnswers, NoBody DEF Result
<1>3. WaitOK'
  BY <1>2, AnsweredType, TypeParts DEF Sync
<1> QED
  BY <1>3, AsksType DEF Sync

LEMMA SyncReturnsType ==
    ASSUME TypeOK, Waiting, NEW d \in Dogs, SyncReturns(d)
    PROVE  TypeOK'
<1>0. ~ Idle(d) /\ wait[d].op = "sync"
  BY DEF SyncReturns
<1>1. CASE ResultOf(d) = "ok" /\ Body(d) # None
  <2>1. Body(d).id \in 1..MaxSessions
    BY <1>0, <1>1, ReplyBody
  <2>2. /\ session' = [session EXCEPT ![d] = Body(d).id]
        /\ ux' \in {[ux EXCEPT ![d] = "InSession"], [ux EXCEPT ![d] = "Negotiating"]}
        /\ UNCHANGED <<there, armed, offer, denied, switches>>
    BY <1>1 DEF SyncReturns
  <2>3. CASE Body(d).active
    <3>1. Returns(d, "sync") /\ UNCHANGED <<plane, agreed, losses>>
      BY <1>1, <2>3 DEF SyncReturns
    <3>2. AgentTypeOK'
      BY <2>1, <2>2, <3>1 DEF TypeOK, AgentTypeOK, EdgeUx
    <3> QED
      BY <3>1, <3>2, TakesType DEF plane
  <2>4. CASE ~ Body(d).active
    <3>1. PlaneTypeOK' /\ WaitOK' /\ agreed' \in [1..MaxSessions -> SUBSET Dogs]
      BY <1>1, <2>4, ReportType DEF SyncReturns
    <3> QED
      BY <2>1, <2>2, <3>1 DEF TypeOK, EdgeUx, WaitOK
  <2> QED
    BY <2>3, <2>4
<1>2. CASE ~ (ResultOf(d) = "ok" /\ Body(d) # None)
  <2>1. AgentTypeOK'
    BY <1>2 DEF SyncReturns, TypeOK, AgentTypeOK
  <2> QED
    BY <1>2, <2>1, TakesType DEF SyncReturns, plane
<1> QED
  BY <1>1, <1>2

LEMMA FetchType ==
    ASSUME TypeOK, NEW d \in Dogs, Fetch(d)
    PROVE  TypeOK'
<1> DEFINE body == [stop |-> d \in stop, denied |-> ~ May(d)]
<1>1. body \in Config
  BY DEF Config
<1>2. /\ [op |-> "config", result |-> "ok", body |-> body] \in Answers
      /\ [op |-> "config", result |-> "lost", body |-> None] \in Answers
  BY <1>1 DEF Answers, Result
<1>3. WaitOK'
  BY <1>2, AnsweredType, TypeParts DEF Fetch
<1> QED
  BY <1>3, AsksType DEF Fetch

LEMMA ConfigBody ==
    ASSUME TypeOK, NEW d \in Dogs, ~ Idle(d),
           wait[d].op \in {"config", "halt"}, Body(d) # None
    PROVE  Body(d) \in Config
<1>1. wait[d] \in Answers
  BY DEF TypeOK, Idle
<1> QED
  BY <1>1 DEF Answers, Body

\* recompute_armed and the new configuration are Booleans again.
LEMMA ConfiguredType ==
    ASSUME TypeOK, NEW d \in Dogs, NEW no \in BOOLEAN, NEW state, Configured(d, no, state)
    PROVE  denied' \in [Dogs -> BOOLEAN] /\ armed' \in [Dogs -> BOOLEAN]
<1>1. Armed(there[d], no, state) \in BOOLEAN
  BY DEF Armed
<1> QED
  BY <1>1, Zenon DEF Configured, TypeOK

LEMMA FetchReturnsType ==
    ASSUME TypeOK, Waiting, NEW d \in Dogs, FetchReturns(d)
    PROVE  TypeOK'
<1>0. ~ Idle(d) /\ wait[d].op = "config"
  BY DEF FetchReturns
<1>1. CASE ResultOf(d) # "ok"
  <2>1. Returns(d, "config") /\ UNCHANGED <<plane, agent, agreed, losses, switches>>
    BY <1>1 DEF FetchReturns, agent
  <2>2. AgentTypeOK'
    BY <2>1 DEF TypeOK, AgentTypeOK, agent
  <2> QED
    BY <2>1, <2>2, TakesType DEF plane
<1>2. CASE ResultOf(d) = "ok" /\ Body(d).stop /\ session[d] # None
  <2>1. Body(d) \in Config
    BY <1>0, <1>2, HasBody, ConfigBody
  <2>2. /\ [op |-> "halt", result |-> "ok", body |-> Body(d)] \in Answers
        /\ [op |-> "halt", result |-> "lost", body |-> Body(d)] \in Answers
    BY <2>1 DEF Answers, Result
  <2>3. /\ ux' = [ux EXCEPT ![d] = "Halted"] /\ EndRequest(d, "halt", Body(d))
        /\ UNCHANGED <<denied, armed, there, offer, session, switches>>
    BY <1>2 DEF FetchReturns
  <2>4. PlaneTypeOK' /\ WaitOK' /\ UNCHANGED agreed
    BY <2>2, <2>3, EndRequestType
  <2> QED
    BY <2>3, <2>4 DEF TypeOK, EdgeUx, WaitOK
<1>3. CASE ResultOf(d) = "ok" /\ ~ (Body(d).stop /\ session[d] # None)
  <2>1. Body(d) \in Config
    BY <1>0, <1>3, HasBody, ConfigBody
  <2>2. /\ Returns(d, "config")
        /\ ux' = [ux EXCEPT ![d] = IF Body(d).stop THEN "Halted" ELSE @]
        /\ Configured(d, Body(d).denied, ux'[d])
        /\ UNCHANGED <<plane, there, offer, session, agreed, losses, switches>>
    BY <1>3 DEF FetchReturns
  <2>3. denied' \in [Dogs -> BOOLEAN] /\ armed' \in [Dogs -> BOOLEAN]
    BY <2>1, <2>2, ConfiguredType DEF Config
  <2>4. AgentTypeOK'
    BY <2>2, <2>3 DEF TypeOK, AgentTypeOK, EdgeUx
  <2> QED
    BY <2>2, <2>4, TakesType DEF plane
<1> QED
  BY <1>1, <1>2, <1>3

LEMMA HaltReturnsType ==
    ASSUME TypeOK, Waiting, NEW d \in Dogs, HaltReturns(d)
    PROVE  TypeOK'
<1>1. ~ Idle(d) /\ wait[d].op = "halt"
  BY DEF HaltReturns, Returns
<1>2. Body(d) # None
  BY <1>1 DEF Waiting, Body
<1>3. Body(d) \in Config
  BY <1>1, <1>2, ConfigBody
<1>4. denied' \in [Dogs -> BOOLEAN] /\ armed' \in [Dogs -> BOOLEAN]
  BY <1>3, ConfiguredType DEF HaltReturns, Config
<1>5. AgentTypeOK'
  BY <1>4 DEF HaltReturns, Rest, TypeOK, AgentTypeOK, EdgeUx
<1> QED
  BY <1>5, TakesType DEF HaltReturns, plane

LEMMA TypeStep ==
    ASSUME TypeOK, Waiting, [Next]_vars
    PROVE  TypeOK'
<1>1. CASE UNCHANGED vars
  BY <1>1 DEF vars, plane, agent, TypeOK, PlaneTypeOK
<1>2. ASSUME NEW d \in Dogs, Steward(d)
      PROVE  TypeOK'
  <2>1. PlaneTypeOK'
    BY <1>2, StewardType, TypeParts DEF Steward
  <2> QED
    BY <1>2, <2>1 DEF Steward, agent, TypeOK
<1>3. CASE Server(Expire) \/ Server(TimeUp) \/ Server(TickStop)
  <2>1. PlaneTypeOK'
    BY <1>3, ServerType, TypeParts DEF Server
  <2> QED
    BY <1>3, <2>1 DEF Server, agent, TypeOK
<1>4. ASSUME NEW d \in Dogs, Await(d)
      PROVE  TypeOK'
  BY <1>4, CallReturnsType, PollReturnsType, ReadyReturnsType, AcceptReturnsType,
     AgainReturnsType, EndReturnsType, SyncReturnsType, FetchReturnsType, HaltReturnsType
     DEF Await
<1> QED
  BY <1>1, <1>2, <1>3, <1>4, IngestType, CallType, PollType, MediaReadyCallType,
     AcceptCallType, AgainType, DoneType, SyncType, FetchType DEF Next

----------------------------------------------------------------------------
\* AgentInv, one dog at a time: an action of one dog's terminal leaves the others' alone.

At(d) ==
    /\ session[d] # None <=>
          ux[d] \in Talking \/ (ux[d] = "Halted" /\ ~ Idle(d) /\ wait[d].op = "halt")
    /\ ux[d] = "RingingIn" => offer[d] # None /\ there[d]
    /\ armed[d] => there[d]
    /\ ~ Idle(d) =>
          /\ wait[d].op = "call" => ux[d] = "Inviting"
          /\ wait[d].op = "poll" => there[d]
          /\ wait[d].op = "accept" => ux[d] = "RingingIn"
          /\ wait[d].op = "ready" => ux[d] \in Talking
          /\ wait[d].op = "again" => ux[d] = "InSession"
          /\ wait[d].op = "halt" => ux[d] = "Halted" /\ wait[d].body # None
          /\ wait[d].op \in {"accept", "ready", "again", "config"} /\ wait[d].result = "ok" =>
                wait[d].body # None

LEMMA AgentInvAt == AgentInv <=> \A d \in Dogs : At(d)
  BY DEF AgentInv, At, ShowsWhatItHolds, LureNeedsDog, ArmedIsThere, Waiting

Kept(e) == UNCHANGED <<ux[e], session[e], offer[e], wait[e], there[e], armed[e]>>

LEMMA Frame ==
    ASSUME NEW e \in Dogs, At(e), Kept(e)
    PROVE  At(e)'
  BY DEF At, Kept, Idle

LEMMA OneDog ==
    ASSUME AgentInv, NEW d \in Dogs, At(d)', \A e \in Dogs \ {d} : Kept(e)
    PROVE  AgentInv'
<1>1. \A e \in Dogs : At(e)
  BY AgentInvAt
<1>2. \A e \in Dogs : At(e)'
  BY <1>1, Frame
<1> QED
  BY <1>2 DEF AgentInv, At, ShowsWhatItHolds, LureNeedsDog, ArmedIsThere, Waiting

LEMMA IngestAt ==
    ASSUME TypeOK, AgentInv, NEW d \in Dogs, Ingest(d)
    PROVE  AgentInv'
<1>1. PICK present \in BOOLEAN :
         /\ there' = [there EXCEPT ![d] = present]
         /\ ux' = [ux EXCEPT ![d] = Refreshed(present, @)]
         /\ offer' = [offer EXCEPT ![d] = IF ~ present /\ ux[d] = "RingingIn" THEN None ELSE @]
         /\ armed' = [armed EXCEPT ![d] = Armed(present, denied[d], Refreshed(present, ux[d]))]
  BY DEF Ingest
<1>2. UNCHANGED <<session, wait>> /\ Idle(d)
  BY DEF Ingest
<1>3. \A e \in Dogs \ {d} : Kept(e)
  BY <1>1, <1>2 DEF TypeOK, Kept
<1>4. At(d)
  BY AgentInvAt
<1>5. ux'[d] = Refreshed(present, ux[d]) /\ there'[d] = present
  BY <1>1 DEF TypeOK
<1>6. armed'[d] => present
  BY <1>1 DEF TypeOK, Armed
<1>7. ux'[d] = "RingingIn" => present /\ offer'[d] = offer[d] /\ ux[d] = "RingingIn"
  BY <1>1, <1>5 DEF TypeOK, Refreshed
<1>8. ux[d] \in Talking \cup {"Halted"} => ux'[d] = ux[d]
  BY <1>5 DEF Refreshed, Talking
<1>9. ux'[d] \in Talking => ux'[d] = ux[d]
  BY <1>5 DEF Refreshed, Talking
<1>10. At(d)'
  BY <1>2, <1>4, <1>5, <1>6, <1>7, <1>8, <1>9 DEF At, Idle
<1> QED
  BY <1>3, <1>10, OneDog

\* What d waits for after a request, and that nobody else's wait has changed.
OthersWait(d) == \A e \in Dogs \ {d} : wait'[e] = wait[e]

LEMMA AnsweredWait ==
    ASSUME TypeOK, NEW d \in Dogs, NEW op, NEW body, Answered(d, op, body)
    PROVE  /\ OthersWait(d)
           /\ wait'[d].op = op
           /\ wait'[d].result = "ok" => wait'[d].body = body
           /\ wait'[d].body # None => wait'[d].body = body
  BY DEF Answered, Answer, Lose, OthersWait, TypeOK

LEMMA NotServedWait ==
    ASSUME TypeOK, NEW d \in Dogs, NEW op, NEW refused, NotServed(d, op, refused)
    PROVE  /\ OthersWait(d)
           /\ wait'[d].op = op /\ wait'[d].result # "ok" /\ wait'[d].body = None
  BY DEF NotServed, Answer, Lose, OthersWait, TypeOK

LEMMA EndRequestWait ==
    ASSUME TypeOK, NEW d \in Dogs, NEW op, NEW cfg, EndRequest(d, op, cfg)
    PROVE  OthersWait(d) /\ wait'[d].op = op /\ wait'[d].body = cfg
  BY DEF EndRequest, Answer, Lose, OthersWait, TypeOK

LEMMA ReportWait ==
    ASSUME TypeOK, NEW d \in Dogs, NEW id, Report(d, id)
    PROVE  /\ OthersWait(d)
           /\ wait'[d].op = "ready"
           /\ wait'[d].result = "ok" => wait'[d].body # None
<1>1. CASE \E s \in Session : Answered(d, "ready", Told(s))
  BY <1>1, AnsweredWait, ReplyIs
<1>2. CASE NotServed(d, "ready", ~ Known(id))
  BY <1>2, NotServedWait
<1> QED
  BY <1>1, <1>2 DEF Report

LEMMA ReturnsWait ==
    ASSUME TypeOK, NEW d \in Dogs, NEW op, Returns(d, op)
    PROVE  OthersWait(d) /\ wait'[d] = None /\ ~ Idle(d) /\ wait[d].op = op
  BY DEF Returns, OthersWait, TypeOK

\* An answer comes without effect on what d shows and holds.
LEMMA ReturnsOnlyAt ==
    ASSUME TypeOK, AgentInv, NEW d \in Dogs, NEW op, op # "halt", Returns(d, op),
           UNCHANGED <<ux, session, offer, there, armed>>
    PROVE  AgentInv'
<1>1. \A e \in Dogs \ {d} : Kept(e)
  BY ReturnsWait DEF Kept, OthersWait
<1>2. At(d)
  BY AgentInvAt
<1>3. wait'[d] = None /\ wait[d].op # "halt"
  BY ReturnsWait
<1>4. At(d)'
  BY <1>2, <1>3 DEF At, Idle
<1> QED
  BY <1>1, <1>4, OneDog

\* A request is sent that the agent only waits for.
LEMMA AsksAt ==
    ASSUME TypeOK, AgentInv, NEW d \in Dogs, Idle(d), OthersWait(d), UNCHANGED agent,
           wait'[d].op \in {"poll", "accept", "ready", "again", "end", "sync", "config"},
           wait'[d].op = "poll" => armed[d] \/ ux[d] = "RingingIn",
           wait'[d].op = "accept" => ux[d] = "RingingIn",
           wait'[d].op = "ready" => session[d] # None,
           wait'[d].op = "again" => ux[d] = "InSession",
           wait'[d].op \in {"accept", "ready", "again", "config"} /\ wait'[d].result = "ok" =>
              wait'[d].body # None
    PROVE  AgentInv'
<1>1. \A e \in Dogs \ {d} : Kept(e)
  BY DEF Kept, OthersWait, agent
<1>2. At(d)
  BY AgentInvAt
<1>3. At(d)'
  BY <1>2 DEF At, Idle, agent
<1> QED
  BY <1>1, <1>3, OneDog

LEMMA CallAt ==
    ASSUME TypeOK, AgentInv, NEW d \in Dogs, Call(d)
    PROVE  AgentInv'
<1>1. \E r \in Result : \E b : wait' = [wait EXCEPT ![d] = [op |-> "call", result |-> r, body |-> b]]
  BY DEF Call, Answered, NotServed, Answer, Lose, Result
<1>2. \A e \in Dogs \ {d} : Kept(e)
  BY <1>1 DEF Call, TypeOK, Kept
<1>3. At(d)
  BY AgentInvAt
<1>4. ux[d] = "IdlePresent" /\ ux'[d] = "Inviting" /\ Idle(d)
  BY DEF Call, TypeOK
<1>5. wait'[d].op = "call"
  BY <1>1 DEF TypeOK
<1>6. UNCHANGED <<session, offer, there, armed>>
  BY DEF Call
<1>7. At(d)'
  BY <1>3, <1>4, <1>5, <1>6 DEF At, Idle, Talking
<1> QED
  BY <1>2, <1>7, OneDog

LEMMA CallReturnsAt ==
    ASSUME TypeOK, AgentInv, NEW d \in Dogs, CallReturns(d)
    PROVE  AgentInv'
<1>1. \A e \in Dogs \ {d} : Kept(e)
  BY ReturnsWait DEF CallReturns, Kept, OthersWait, TypeOK
<1>2. At(d)
  BY AgentInvAt
<1>3. wait'[d] = None /\ ~ Idle(d) /\ wait[d].op = "call"
  BY ReturnsWait DEF CallReturns
<1>4. ux'[d] \in {"RingingOut", "IdlePresent", ux[d]}
  BY DEF CallReturns, TypeOK
<1>5. At(d)'
  BY <1>2, <1>3, <1>4 DEF CallReturns, At, Idle, Talking
<1> QED
  BY <1>1, <1>5, OneDog

LEMMA PollAt ==
    ASSUME TypeOK, AgentInv, NEW d \in Dogs, Poll(d)
    PROVE  AgentInv'
  BY AnsweredWait, AsksAt DEF Poll

LEMMA PollReturnsAt ==
    ASSUME TypeOK, AgentInv, NEW d \in Dogs, PollReturns(d)
    PROVE  AgentInv'
<1>1. \A e \in Dogs \ {d} : Kept(e)
  BY ReturnsWait DEF PollReturns, Kept, OthersWait, TypeOK
<1>2. At(d)
  BY AgentInvAt
<1>3. wait'[d] = None /\ ~ Idle(d) /\ wait[d].op = "poll"
  BY ReturnsWait DEF PollReturns
<1>4. \/ ux'[d] = "RingingIn" /\ offer'[d] # None /\ ux[d] \notin Talking
      \/ UNCHANGED <<ux, offer>>
  BY DEF PollReturns, TakesOffer, TypeOK
<1>5. there[d]
  BY <1>2, <1>3 DEF At
<1>6. At(d)'
  BY <1>2, <1>3, <1>4, <1>5 DEF PollReturns, At, Idle, Talking
<1> QED
  BY <1>1, <1>6, OneDog

LEMMA MediaReadyCallAt ==
    ASSUME TypeOK, AgentInv, NEW d \in Dogs, MediaReadyCall(d)
    PROVE  AgentInv'
  BY ReportWait, AsksAt DEF MediaReadyCall

LEMMA ReadyReturnsAt ==
    ASSUME TypeOK, AgentInv, NEW d \in Dogs, ReadyReturns(d)
    PROVE  AgentInv'
<1>1. \A e \in Dogs \ {d} : Kept(e)
  BY ReturnsWait DEF ReadyReturns, Kept, OthersWait, TypeOK
<1>2. At(d) /\ Waiting
  BY AgentInvAt DEF AgentInv
<1>3. wait'[d] = None /\ ~ Idle(d) /\ wait[d].op = "ready"
  BY ReturnsWait DEF ReadyReturns
<1>4. ux[d] \in Talking
  BY <1>2, <1>3 DEF At
<1>5. ResultOf(d) = "ok" => Body(d).id # None
  BY <1>2, <1>3, HasBody, ReplyBody
<1>6. ux'[d] \in Talking /\ session'[d] # None
  BY <1>2, <1>4, <1>5 DEF ReadyReturns, At, TypeOK, Talking
<1>7. At(d)'
  BY <1>2, <1>3, <1>6 DEF ReadyReturns, At, Idle, Talking
<1> QED
  BY <1>1, <1>7, OneDog

LEMMA AcceptCallAt ==
    ASSUME TypeOK, AgentInv, NEW d \in Dogs, AcceptCall(d)
    PROVE  AgentInv'
<1>1. Idle(d) /\ ux[d] = "RingingIn" /\ UNCHANGED agent
  BY DEF AcceptCall
<1>2. /\ OthersWait(d) /\ wait'[d].op = "accept"
      /\ wait'[d].result = "ok" => wait'[d].body # None
  <2>1. CASE \E s \in Session : Answered(d, "accept", Told(s))
    BY <2>1, AnsweredWait, ReplyIs
  <2>2. CASE NotServed(d, "accept", TRUE)
    BY <2>2, NotServedWait
  <2> QED
    BY <2>1, <2>2 DEF AcceptCall
<1> QED
  BY <1>1, <1>2, AsksAt

LEMMA AcceptReturnsAt ==
    ASSUME TypeOK, AgentInv, NEW d \in Dogs, AcceptReturns(d)
    PROVE  AgentInv'
<1>0. ~ Idle(d) /\ wait[d].op = "accept"
  BY DEF AcceptReturns
<1>1. CASE ResultOf(d) = "ok"
  <2>1. /\ session' = [session EXCEPT ![d] = Body(d).id]
        /\ offer' = [offer EXCEPT ![d] = None]
        /\ ux' = [ux EXCEPT ![d] = "Negotiating"]
        /\ UNCHANGED <<there, armed, denied, switches>>
        /\ Report(d, Body(d).id)
    BY <1>1 DEF AcceptReturns
  <2>2. \A e \in Dogs \ {d} : Kept(e)
    BY <2>1, ReportWait DEF Kept, OthersWait, TypeOK
  <2>3. Body(d).id # None
    BY <1>0, <1>1, HasBody, ReplyBody DEF AgentInv
  <2>4. session'[d] # None /\ ux'[d] = "Negotiating"
    BY <2>1, <2>3 DEF TypeOK
  <2>5. At(d)
    BY AgentInvAt
  <2>6. At(d)'
    BY <2>1, <2>4, <2>5, ReportWait DEF At, Talking
  <2> QED
    BY <2>2, <2>6, OneDog
<1>2. CASE ResultOf(d) # "ok"
  BY <1>2, ReturnsOnlyAt DEF AcceptReturns
<1> QED
  BY <1>1, <1>2

LEMMA AgainAt ==
    ASSUME TypeOK, AgentInv, NEW d \in Dogs, Again(d)
    PROVE  AgentInv'
<1>1. CASE Known(session[d]) /\ Answered(d, "again", Told(TheSession(session[d])))
  <2>1. Told(TheSession(session[d])) # None
    BY <1>1, TheSessionIs, ReplyIs DEF TypeOK, PlaneTypeOK
  <2> QED
    BY <1>1, <2>1, AnsweredWait, AsksAt DEF Again
<1>2. CASE NotServed(d, "again", ~ Known(session[d]))
  BY <1>2, NotServedWait, AsksAt DEF Again
<1> QED
  BY <1>1, <1>2 DEF Again

LEMMA AgainReturnsAt ==
    ASSUME TypeOK, AgentInv, NEW d \in Dogs, AgainReturns(d)
    PROVE  AgentInv'
<1>1. \A e \in Dogs \ {d} : Kept(e)
  BY ReturnsWait DEF AgainReturns, Kept, OthersWait, TypeOK
<1>2. At(d) /\ Waiting
  BY AgentInvAt DEF AgentInv
<1>3. wait'[d] = None /\ ~ Idle(d) /\ wait[d].op = "again"
  BY ReturnsWait DEF AgainReturns
<1>4. ResultOf(d) = "ok" => Body(d).id # None
  BY <1>2, <1>3, HasBody, ReplyBody
<1>5. ux[d] = "InSession" /\ session'[d] # None
  BY <1>2, <1>3, <1>4 DEF AgainReturns, At, TypeOK, Talking
<1>6. At(d)'
  BY <1>2, <1>3, <1>5 DEF AgainReturns, At, Idle, Talking
<1> QED
  BY <1>1, <1>6, OneDog

LEMMA DoneAt ==
    ASSUME TypeOK, AgentInv, NEW d \in Dogs, Done(d)
    PROVE  AgentInv'
  BY EndRequestWait, AsksAt DEF Done

LEMMA EndReturnsAt ==
    ASSUME TypeOK, AgentInv, NEW d \in Dogs, EndReturns(d)
    PROVE  AgentInv'
<1>1. \A e \in Dogs \ {d} : Kept(e)
  BY ReturnsWait DEF EndReturns, Kept, OthersWait, TypeOK
<1>2. At(d)
  BY AgentInvAt
<1>3. wait'[d] = None
  BY ReturnsWait DEF EndReturns
<1>4. session'[d] = None /\ ux'[d] \in {"IdlePresent", "IdleEmpty"}
  BY DEF EndReturns, Rest, TypeOK
<1>5. At(d)'
  BY <1>2, <1>3, <1>4 DEF EndReturns, At, Idle, Talking
<1> QED
  BY <1>1, <1>5, OneDog

LEMMA SyncAt ==
    ASSUME TypeOK, AgentInv, NEW d \in Dogs, Sync(d)
    PROVE  AgentInv'
  BY AnsweredWait, AsksAt DEF Sync

LEMMA SyncReturnsAt ==
    ASSUME TypeOK, AgentInv, NEW d \in Dogs, SyncReturns(d)
    PROVE  AgentInv'
<1>0. ~ Idle(d) /\ wait[d].op = "sync"
  BY DEF SyncReturns
<1>1. CASE ResultOf(d) = "ok" /\ Body(d) # None
  <2>1. /\ session' = [session EXCEPT ![d] = Body(d).id]
        /\ ux' \in {[ux EXCEPT ![d] = "InSession"], [ux EXCEPT ![d] = "Negotiating"]}
        /\ UNCHANGED <<there, armed, offer>>
        /\ Returns(d, "sync") \/ (ux'[d] = "Negotiating" /\ Report(d, Body(d).id))
    BY <1>1 DEF SyncReturns, TypeOK
  <2>2. OthersWait(d) /\ (wait'[d] = None \/ (wait'[d].op = "ready"
                            /\ (wait'[d].result = "ok" => wait'[d].body # None)))
    BY <2>1, ReportWait, ReturnsWait
  <2>3. \A e \in Dogs \ {d} : Kept(e)
    BY <2>1, <2>2 DEF Kept, OthersWait, TypeOK
  <2>4. session'[d] # None /\ ux'[d] \in Talking
    BY <1>0, <1>1, <2>1, ReplyBody DEF AgentInv, TypeOK, Talking
  <2>5. At(d)
    BY AgentInvAt
  <2>6. At(d)'
    BY <2>1, <2>2, <2>4, <2>5 DEF At, Idle, Talking
  <2> QED
    BY <2>3, <2>6, OneDog
<1>2. CASE ~ (ResultOf(d) = "ok" /\ Body(d) # None)
  BY <1>2, ReturnsOnlyAt DEF SyncReturns
<1> QED
  BY <1>1, <1>2

LEMMA FetchAt ==
    ASSUME TypeOK, AgentInv, NEW d \in Dogs, Fetch(d)
    PROVE  AgentInv'
<1> DEFINE body == [stop |-> d \in stop, denied |-> ~ May(d)]
<1>1. body \in Config
  BY DEF Config
<1>2. body # None
  BY <1>1, NoneAssumption
<1> QED
  BY <1>2, AnsweredWait, AsksAt DEF Fetch

\* The lure is armed for a dog that is there, whatever the configuration.
LEMMA ConfiguredArms ==
    ASSUME TypeOK, NEW d \in Dogs, NEW no, NEW state, Configured(d, no, state)
    PROVE  /\ armed'[d] => there[d]
           /\ \A e \in Dogs \ {d} : armed'[e] = armed[e]
  BY DEF Configured, Armed, TypeOK

LEMMA FetchReturnsAt ==
    ASSUME TypeOK, AgentInv, NEW d \in Dogs, FetchReturns(d)
    PROVE  AgentInv'
<1>0. ~ Idle(d) /\ wait[d].op = "config"
  BY DEF FetchReturns
<1>1. At(d)
  BY AgentInvAt
<1>2. CASE ResultOf(d) # "ok"
  BY <1>2, ReturnsOnlyAt DEF FetchReturns
<1>3. CASE ResultOf(d) = "ok" /\ Body(d).stop /\ session[d] # None
  <2>1. /\ ux' = [ux EXCEPT ![d] = "Halted"] /\ EndRequest(d, "halt", Body(d))
        /\ UNCHANGED <<armed, there, offer, session>>
    BY <1>3 DEF FetchReturns
  <2>2. Body(d) # None
    BY <1>0, <1>3, HasBody DEF AgentInv
  <2>3. OthersWait(d) /\ wait'[d].op = "halt" /\ wait'[d].body # None
    BY <2>1, <2>2, EndRequestWait
  <2>4. wait'[d] # None
    BY <1>0, <1>3, <2>1, <2>2, ConfigBody, NoneAssumption
       DEF EndRequest, Answer, Lose, Answers, Result, TypeOK
  <2>5. \A e \in Dogs \ {d} : Kept(e)
    BY <2>1, <2>3 DEF Kept, OthersWait, TypeOK
  <2>6. At(d)'
    BY <1>1, <1>3, <2>1, <2>3, <2>4 DEF At, Idle, Talking, TypeOK
  <2> QED
    BY <2>5, <2>6, OneDog
<1>4. CASE ResultOf(d) = "ok" /\ ~ (Body(d).stop /\ session[d] # None)
  <2>1. /\ Returns(d, "config")
        /\ ux' = [ux EXCEPT ![d] = IF Body(d).stop THEN "Halted" ELSE @]
        /\ Configured(d, Body(d).denied, ux'[d])
        /\ UNCHANGED <<there, offer, session>>
    BY <1>4 DEF FetchReturns
  <2>2. \A e \in Dogs \ {d} : Kept(e)
    BY <2>1, ReturnsWait, ConfiguredArms DEF Kept, OthersWait, TypeOK
  <2>3. ux'[d] = ux[d] \/ (ux'[d] = "Halted" /\ session[d] = None)
    BY <1>4, <2>1 DEF TypeOK
  <2>4. wait'[d] = None /\ (armed'[d] => there[d])
    BY <2>1, ReturnsWait, ConfiguredArms
  <2>5. At(d)'
    BY <1>0, <1>1, <2>1, <2>3, <2>4 DEF At, Idle, Talking
  <2> QED
    BY <2>2, <2>5, OneDog
<1> QED
  BY <1>2, <1>3, <1>4

LEMMA HaltReturnsAt ==
    ASSUME TypeOK, AgentInv, NEW d \in Dogs, HaltReturns(d)
    PROVE  AgentInv'
<1>1. \A e \in Dogs \ {d} : Kept(e)
  BY ReturnsWait, ConfiguredArms DEF HaltReturns, Kept, OthersWait, TypeOK
<1>2. wait'[d] = None /\ (armed'[d] => there[d])
  BY ReturnsWait, ConfiguredArms DEF HaltReturns
<1>3. session'[d] = None /\ ux'[d] \in {"IdlePresent", "IdleEmpty"}
  BY DEF HaltReturns, Rest, TypeOK
<1>4. At(d)'
  BY <1>2, <1>3 DEF HaltReturns, At, Idle, Talking
<1> QED
  BY <1>1, <1>4, OneDog

LEMMA AgentStep ==
    ASSUME TypeOK, AgentInv, [Next]_vars
    PROVE  AgentInv'
<1>1. CASE UNCHANGED <<agent, wait>>
  <2>1. \A e \in Dogs : At(e) /\ Kept(e)
    BY <1>1, AgentInvAt DEF agent, Kept
  <2>2. \A e \in Dogs : At(e)'
    BY <2>1, Frame
  <2> QED
    BY <2>2 DEF AgentInv, At, ShowsWhatItHolds, LureNeedsDog, ArmedIsThere, Waiting
<1>2. ASSUME NEW d \in Dogs, Await(d)
      PROVE  AgentInv'
  BY <1>2, CallReturnsAt, PollReturnsAt, ReadyReturnsAt, AcceptReturnsAt, AgainReturnsAt,
     EndReturnsAt, SyncReturnsAt, FetchReturnsAt, HaltReturnsAt DEF Await
<1> QED
  BY <1>1, <1>2, IngestAt, CallAt, PollAt, MediaReadyCallAt, AcceptCallAt, AgainAt, DoneAt,
     SyncAt, FetchAt DEF Next, Steward, Server, vars

LEMMA InitAgent == Init => AgentInv
  BY DEF Init, AgentInv, ShowsWhatItHolds, LureNeedsDog, ArmedIsThere, Waiting, Idle, Talking

LEMMA AgentInvariance == Spec => [](TypeOK /\ AgentInv)
<1>1. TypeOK /\ AgentInv /\ [Next]_vars => (TypeOK /\ AgentInv)'
  BY TypeStep, AgentStep DEF AgentInv
<1> QED
  BY <1>1, InitType, InitAgent, PTL DEF Spec

\* The terminals' fields and the control plane's records stay well formed, whatever is
\* lost and in whatever order answers come, and no id is in use that was not counted.
THEOREM AgentsTyped == Spec => []TypeOK
  BY AgentInvariance, PTL

\* A terminal shows a session exactly when it holds one, and rings only for an offer.
THEOREM ShownIsHeld == Spec => []ShowsWhatItHolds
  BY AgentInvariance, PTL DEF AgentInv

\* A terminal's lure is on only while a dog is on its mat.
THEOREM LureForADog == Spec => []LureNeedsDog
  BY AgentInvariance, PTL DEF AgentInv

----------------------------------------------------------------------------
\* AgreeInv.  What a step may do to the sessions and to what was reported: sessions end
\* or are new, no session's dogs change, and no report is taken back.

Progress ==
    /\ made.sessions <= made'.sessions
    /\ \A s \in sessions' :
          \/ \E r \in sessions : r.id = s.id /\ r.dog_a = s.dog_a /\ r.dog_b = s.dog_b
          \/ s.id > made.sessions
    /\ \A i \in 1..MaxSessions : agreed[i] \subseteq agreed'[i]
    /\ FlagsReported'

LEMMA ShrinkProgress ==
    ASSUME TypeOK, FlagsReported, sessions' \subseteq sessions, UNCHANGED <<made, agreed>>
    PROVE  Progress
  BY DEF TypeOK, PlaneTypeOK, FlagsReported, Progress

LEMMA CreateProgress ==
    ASSUME TypeOK, FlagsReported, NEW d \in Dogs, NEW i \in Invite, Create(d, i),
           UNCHANGED agreed
    PROVE  Progress
<1>1. made'.sessions = made.sessions /\ UNCHANGED sessions
  BY DEF Create, TypeOK, PlaneTypeOK
<1> QED
  BY <1>1 DEF TypeOK, PlaneTypeOK, FlagsReported, Progress

LEMMA AcceptProgress ==
    ASSUME TypeOK, FlagsReported, NEW d \in Dogs, NEW id, NEW s \in Session,
           Accept(d, id, s), UNCHANGED agreed
    PROVE  Progress /\ s.id = made'.sessions /\ s.id > made.sessions
           /\ With(s, d) /\ ~ Active(s)
<1>1. /\ s.id = made.sessions + 1 /\ s.dog_b = d /\ s.ready = {}
      /\ sessions' = sessions \cup {s}
  BY DEF Accept
<1>2. made'.sessions = made.sessions + 1 /\ made.sessions \in Nat
  BY DEF Accept, TypeOK, PlaneTypeOK
<1>3. FlagsReported'
  BY <1>1, <1>2 DEF FlagsReported, TypeOK, PlaneTypeOK, Session
<1>4. Progress
  BY <1>1, <1>2, <1>3 DEF Progress
<1> QED
  BY <1>1, <1>2, <1>4 DEF With, Active

\* A report: the session's flags, and what was reported, both get one dog more.
LEMMA ReadyProgress ==
    ASSUME TypeOK, FlagsReported, NEW d \in Dogs, NEW id, NEW s \in Session,
           MediaReady(d, id, s), agreed' = [agreed EXCEPT ![id] = @ \cup {d}], Own(d, id)
    PROVE  /\ Progress
           /\ s.id = id
           /\ Active(s) => \E e \in Dogs \ {d} : {d, e} \subseteq agreed'[id]
<1> DEFINE r == TheSession(id)
<1>1. r \in sessions /\ r.id = id
  BY TheSessionIs DEF MediaReady
<1>2. s = [r EXCEPT !.ready = @ \cup {d}] /\ sessions' = (sessions \ {r}) \cup {s}
      /\ UNCHANGED made
  BY DEF MediaReady
<1>3. r \in Session /\ id \in 1..MaxSessions
  BY <1>1 DEF TypeOK, PlaneTypeOK, Session
<1>4. s.id = id /\ s.dog_a = r.dog_a /\ s.dog_b = r.dog_b /\ s.ready = r.ready \cup {d}
  BY <1>1, <1>2, <1>3 DEF Session
<1>5. agreed'[id] = agreed[id] \cup {d} /\ \A i \in 1..MaxSessions : agreed[i] \subseteq agreed'[i]
  BY <1>3 DEF TypeOK
<1>6. s.ready \subseteq agreed'[id]
  BY <1>1, <1>4, <1>5 DEF FlagsReported
<1>7. FlagsReported'
  <2>1. ASSUME NEW x \in sessions', NEW y \in sessions', x.id = y.id
        PROVE  x = y
    BY <1>1, <1>2, <1>4, <2>1 DEF FlagsReported
  <2>2. ASSUME NEW x \in sessions'
        PROVE  x.id <= made'.sessions /\ x.ready \subseteq agreed'[x.id]
    <3>1. CASE x = s
      BY <1>1, <1>2, <1>4, <1>6, <3>1 DEF FlagsReported
    <3>2. CASE x \in sessions
      BY <1>2, <1>5, <3>2 DEF FlagsReported, TypeOK, PlaneTypeOK, Session
    <3> QED
      BY <1>2, <3>1, <3>2
  <2> QED
    BY <2>1, <2>2 DEF FlagsReported
<1>8. Progress
  <2>1. made.sessions <= made'.sessions
    BY <1>2 DEF TypeOK, PlaneTypeOK
  <2>2. ASSUME NEW x \in sessions'
        PROVE  \E y \in sessions : y.id = x.id /\ y.dog_a = x.dog_a /\ y.dog_b = x.dog_b
    BY <1>1, <1>2, <1>4
  <2> HIDE DEF r
  <2> QED
    BY <1>5, <1>7, <2>1, <2>2 DEF Progress
<1>9. ASSUME Active(s)
      PROVE  \E e \in Dogs \ {d} : {d, e} \subseteq agreed'[id]
  <2>1. d \in {r.dog_a, r.dog_b}
    BY <1>1 DEF Own, With
  <2>2. {r.dog_a, r.dog_b} \subseteq agreed'[id] /\ r.dog_a # r.dog_b
    BY <1>4, <1>6, <1>9 DEF Active
  <2>3. r.dog_a \in Dogs /\ r.dog_b \in Dogs
    BY <1>3 DEF Session
  <2> QED
    BY <2>1, <2>2, <2>3
<1> QED
  BY <1>4, <1>8, <1>9

\* What holds of an id goes on to hold.
LEMMA OwnGoesOn ==
    ASSUME TypeOK, TypeOK', Progress, NEW d \in Dogs, NEW i \in 1..MaxSessions, Own(d, i)
    PROVE  i <= made'.sessions /\ \A s \in sessions' : s.id = i => With(s, d)
<1>1. made.sessions \in Nat /\ made'.sessions \in Nat
  BY DEF TypeOK, PlaneTypeOK
<1>2. \A s \in sessions' : s.id \in Nat
  BY DEF TypeOK, PlaneTypeOK, Session
<1> QED
  BY <1>1, <1>2 DEF Progress, Own, With

LEMMA AgreedGoesOn ==
    ASSUME Progress, NEW d \in Dogs, NEW i \in 1..MaxSessions, AgreedBy(d, i)
    PROVE  \E e \in Dogs \ {d} : {d, e} \subseteq agreed'[i]
  BY DEF Progress, AgreedBy

\* What a session that there is tells one of its dogs.
LEMMA ToldOf ==
    ASSUME TypeOK, FlagsReported, NEW s \in sessions, NEW d \in Dogs, With(s, d)
    PROVE  Own(d, s.id) /\ (Active(s) => AgreedBy(d, s.id))
<1>1. Own(d, s.id)
  BY DEF FlagsReported, Own
<1>2. ASSUME Active(s)
      PROVE  AgreedBy(d, s.id)
  <2>1. s.dog_a \in Dogs /\ s.dog_b \in Dogs
    BY DEF TypeOK, PlaneTypeOK, Session
  <2>2. {s.dog_a, s.dog_b} \subseteq agreed[s.id] /\ s.dog_a # s.dog_b
    BY <1>2 DEF FlagsReported, Active
  <2> QED
    BY <2>1, <2>2 DEF With, AgreedBy
<1> QED
  BY <1>1, <1>2

OwnAt(d) ==
    /\ session[d] # None => Own(d, session[d])
    /\ AnyReply(d) =>
          /\ Own(d, wait[d].body.id)
          /\ wait[d].body.active => AgreedBy(d, wait[d].body.id)
          /\ wait[d].op \in {"ready", "again"} => wait[d].body.id = session[d]
    /\ ux[d] = "InSession" => AgreedBy(d, session[d])

LEMMA AgreeInvAt == AgreeInv <=> FlagsReported /\ \A d \in Dogs : OwnAt(d)
  BY DEF AgreeInv, OwnAt, HoldsOwn, InSessionWasAgreed

SameFor(e) == UNCHANGED <<ux[e], session[e], wait[e]>>

LEMMA OwnFrame ==
    ASSUME TypeOK, TypeOK', AgentInv, Progress, NEW e \in Dogs, OwnAt(e), SameFor(e)
    PROVE  OwnAt(e)'
<1>1. session[e] # None => session[e] \in 1..MaxSessions
  BY DEF TypeOK
<1>2. ux[e] = "InSession" => session[e] # None
  BY DEF AgentInv, ShowsWhatItHolds, Talking
<1>3. AnyReply(e) => wait[e].body.id \in 1..MaxSessions
  BY ReplyBody DEF AnyReply, Body
<1>4. (session[e] # None => Own(e, session[e]))'
  BY <1>1, OwnGoesOn DEF OwnAt, SameFor, Own
<1>5. (ux[e] = "InSession" => AgreedBy(e, session[e]))'
  BY <1>1, <1>2, AgreedGoesOn DEF OwnAt, SameFor, AgreedBy
<1>6. AnyReply(e)' => AnyReply(e)
  BY DEF AnyReply, SameFor, Idle
<1>7. (AnyReply(e) => Own(e, wait[e].body.id))'
  BY <1>3, <1>6, OwnGoesOn DEF OwnAt, SameFor, Own
<1>8. (AnyReply(e) /\ wait[e].body.active => AgreedBy(e, wait[e].body.id))'
  BY <1>3, <1>6, AgreedGoesOn DEF OwnAt, SameFor, AgreedBy
<1> QED
  BY <1>4, <1>5, <1>6, <1>7, <1>8 DEF OwnAt, SameFor

LEMMA OwnOne ==
    ASSUME TypeOK, TypeOK', AgentInv, AgreeInv, Progress, NEW d \in Dogs, OwnAt(d)',
           \A e \in Dogs \ {d} : SameFor(e)
    PROVE  AgreeInv'
<1>1. \A e \in Dogs : OwnAt(e)
  BY AgreeInvAt
<1>2. \A e \in Dogs : OwnAt(e)'
  BY <1>1, OwnFrame
<1>3. FlagsReported'
  BY DEF Progress
<1> QED
  BY <1>2, <1>3 DEF AgreeInv, OwnAt, HoldsOwn, InSessionWasAgreed

\* What a report does to its dog: the answer speaks of the session it was for.
LEMMA ReportAgrees ==
    ASSUME TypeOK, FlagsReported, NEW d \in Dogs, NEW id, Report(d, id), Own(d, id)
    PROVE  /\ Progress
           /\ wait'[d].body # None =>
                 /\ wait'[d].body.id = id
                 /\ wait'[d].body.active => \E e \in Dogs \ {d} : {d, e} \subseteq agreed'[id]
<1>1. CASE NotServed(d, "ready", ~ Known(id))
  BY <1>1, NotServedWait, ShrinkProgress DEF NotServed, plane
<1>2. CASE \E s \in Session :
              /\ MediaReady(d, id, s)
              /\ agreed' = [agreed EXCEPT ![id] = @ \cup {d}]
              /\ Answered(d, "ready", Told(s))
  <2>1. PICK s \in Session :
              /\ MediaReady(d, id, s)
              /\ agreed' = [agreed EXCEPT ![id] = @ \cup {d}]
              /\ Answered(d, "ready", Told(s))
    BY <1>2
  <2>2. /\ Progress /\ s.id = id
        /\ Active(s) => \E e \in Dogs \ {d} : {d, e} \subseteq agreed'[id]
    BY <2>1, ReadyProgress
  <2>3. wait'[d].body # None => wait'[d].body = Told(s)
    BY <2>1, AnsweredWait
  <2> QED
    BY <2>2, <2>3 DEF Told
<1> QED
  BY <1>1, <1>2 DEF Report

\* A request whose answer carries no session.
LEMMA AsksNothing ==
    ASSUME TypeOK, TypeOK', AgentInv, AgreeInv, Progress, NEW d \in Dogs, OthersWait(d),
           wait'[d].op \notin {"accept", "ready", "again", "sync"},
           UNCHANGED session, \A e \in Dogs : ux'[e] = "InSession" => ux[e] = "InSession",
           \A e \in Dogs \ {d} : ux'[e] = ux[e]
    PROVE  AgreeInv'
<1>1. OwnAt(d)
  BY AgreeInvAt
<1>2. session[d] # None => session[d] \in 1..MaxSessions
  BY DEF TypeOK
<1>3. ux[d] = "InSession" => session[d] # None
  BY DEF AgentInv, ShowsWhatItHolds, Talking
<1>4. (session[d] # None => Own(d, session[d]))'
  BY <1>1, <1>2, OwnGoesOn DEF OwnAt, Own
<1>5. (ux[d] = "InSession" => AgreedBy(d, session[d]))'
  BY <1>1, <1>2, <1>3, AgreedGoesOn DEF OwnAt, AgreedBy
<1>6. OwnAt(d)'
  BY <1>4, <1>5 DEF OwnAt, AnyReply
<1> QED
  BY <1>6, OwnOne DEF SameFor, OthersWait

\* An answer that changes no session at the agent.
LEMMA TakesNothing ==
    ASSUME TypeOK, TypeOK', AgentInv, AgreeInv, Progress, NEW d \in Dogs, NEW op, Returns(d, op),
           UNCHANGED session, \A e \in Dogs : ux'[e] = "InSession" => ux[e] = "InSession",
           \A e \in Dogs \ {d} : ux'[e] = ux[e]
    PROVE  AgreeInv'
<1>1. OwnAt(d)
  BY AgreeInvAt
<1>2. session[d] # None => session[d] \in 1..MaxSessions
  BY DEF TypeOK
<1>3. ux[d] = "InSession" => session[d] # None
  BY DEF AgentInv, ShowsWhatItHolds, Talking
<1>4. (session[d] # None => Own(d, session[d]))'
  BY <1>1, <1>2, OwnGoesOn DEF OwnAt, Own
<1>5. (ux[d] = "InSession" => AgreedBy(d, session[d]))'
  BY <1>1, <1>2, <1>3, AgreedGoesOn DEF OwnAt, AgreedBy
<1>6. wait'[d] = None /\ OthersWait(d)
  BY ReturnsWait
<1>7. OwnAt(d)'
  BY <1>4, <1>5, <1>6 DEF OwnAt, AnyReply, Idle
<1> QED
  BY <1>6, <1>7, OwnOne DEF SameFor, OthersWait

\* Only the agents and their answers move, or sessions end.
LEMMA NothingNew ==
    ASSUME TypeOK, AgreeInv, UNCHANGED agreed,
           UNCHANGED plane \/ (\E id : End(id))
    PROVE  Progress
<1>1. sessions' \subseteq sessions /\ UNCHANGED made
  BY DEF plane, End
<1> QED
  BY <1>1, ShrinkProgress DEF AgreeInv

LEMMA IngestAgrees ==
    ASSUME TypeOK, TypeOK', AgentInv, AgreeInv, NEW d \in Dogs, Ingest(d)
    PROVE  AgreeInv'
<1>1. Progress
  BY NothingNew DEF Ingest
<1>2. UNCHANGED <<session, wait>>
  BY DEF Ingest
<1>3. PICK present \in BOOLEAN : ux' = [ux EXCEPT ![d] = Refreshed(present, @)]
  BY DEF Ingest
<1>4. ux'[d] = "InSession" => ux[d] = "InSession"
  BY <1>3 DEF TypeOK, Refreshed
<1>5. \A e \in Dogs \ {d} : SameFor(e)
  BY <1>2, <1>3 DEF TypeOK, SameFor
<1>6. CASE ux'[d] = ux[d]
  BY <1>1, <1>2, <1>5, <1>6, OwnFrame, OwnOne, AgreeInvAt DEF SameFor
<1>7. CASE ux'[d] # "InSession"
  <2>1. OwnAt(d)
    BY AgreeInvAt
  <2>2. agreed' = agreed /\ sessions' = sessions /\ made' = made
    BY DEF Ingest, plane
  <2>3. OwnAt(d)'
    BY <1>2, <1>7, <2>1, <2>2 DEF OwnAt, AnyReply, Idle, Own, AgreedBy
  <2> QED
    BY <1>1, <1>5, <2>3, OwnOne
<1> QED
  BY <1>4, <1>6, <1>7

LEMMA CallAgrees ==
    ASSUME TypeOK, TypeOK', AgentInv, AgreeInv, NEW d \in Dogs, Call(d)
    PROVE  AgreeInv'
<1>1. CASE \E i \in Invite : Create(d, i) /\ Answered(d, "call", i.id) /\ UNCHANGED agreed
  <2>1. Progress
    BY <1>1, CreateProgress DEF AgreeInv
  <2>2. OthersWait(d) /\ wait'[d].op = "call"
    BY <1>1, AnsweredWait
  <2> QED
    BY <2>1, <2>2, AsksNothing DEF Call, TypeOK
<1>2. CASE NotServed(d, "call", TRUE)
  <2>1. Progress
    BY <1>2, NothingNew DEF NotServed
  <2>2. OthersWait(d) /\ wait'[d].op = "call"
    BY <1>2, NotServedWait
  <2> QED
    BY <2>1, <2>2, AsksNothing DEF Call, TypeOK
<1> QED
  BY <1>1, <1>2 DEF Call

LEMMA CallReturnsAgrees ==
    ASSUME TypeOK, TypeOK', AgentInv, AgreeInv, NEW d \in Dogs, CallReturns(d)
    PROVE  AgreeInv'
<1>1. Progress
  BY NothingNew DEF CallReturns
<1>2. UNCHANGED session /\ Returns(d, "call")
  BY DEF CallReturns
<1>3. \A e \in Dogs : ux'[e] = "InSession" => ux[e] = "InSession"
  BY DEF CallReturns, TypeOK
<1>4. \A e \in Dogs \ {d} : ux'[e] = ux[e]
  BY DEF CallReturns, TypeOK
<1> QED
  BY <1>1, <1>2, <1>3, <1>4, TakesNothing

LEMMA PollAgrees ==
    ASSUME TypeOK, TypeOK', AgentInv, AgreeInv, NEW d \in Dogs, Poll(d)
    PROVE  AgreeInv'
<1>1. Progress
  BY NothingNew DEF Poll
<1>2. OthersWait(d) /\ wait'[d].op = "poll"
  BY AnsweredWait DEF Poll
<1> QED
  BY <1>1, <1>2, AsksNothing DEF Poll, agent

LEMMA PollReturnsAgrees ==
    ASSUME TypeOK, TypeOK', AgentInv, AgreeInv, NEW d \in Dogs, PollReturns(d)
    PROVE  AgreeInv'
<1>1. Progress
  BY NothingNew DEF PollReturns
<1>2. UNCHANGED session /\ Returns(d, "poll")
  BY DEF PollReturns
<1>3. ux' = ux \/ ux' = [ux EXCEPT ![d] = "RingingIn"]
  BY DEF PollReturns
<1> QED
  BY <1>1, <1>2, <1>3, TakesNothing DEF TypeOK

LEMMA MediaReadyCallAgrees ==
    ASSUME TypeOK, TypeOK', AgentInv, AgreeInv, NEW d \in Dogs, MediaReadyCall(d)
    PROVE  AgreeInv'
<1>1. OwnAt(d) /\ FlagsReported
  BY AgreeInvAt
<1>2. session[d] # None /\ session[d] \in 1..MaxSessions /\ Own(d, session[d])
  BY <1>1 DEF MediaReadyCall, OwnAt, TypeOK
<1>3. /\ Progress /\ OthersWait(d) /\ wait'[d].op = "ready"
      /\ wait'[d].body # None =>
            /\ wait'[d].body.id = session[d]
            /\ wait'[d].body.active => \E e \in Dogs \ {d} : {d, e} \subseteq agreed'[session[d]]
  BY <1>1, <1>2, ReportAgrees, ReportWait DEF MediaReadyCall
<1>4. UNCHANGED <<session, ux>>
  BY DEF MediaReadyCall, agent
<1>5. Own(d, session[d])'
  BY <1>2, <1>3, <1>4, OwnGoesOn DEF Own
<1>6. (ux[d] = "InSession" => AgreedBy(d, session[d]))'
  BY <1>1, <1>2, <1>3, <1>4, AgreedGoesOn DEF OwnAt, AgreedBy
<1>7. (AnyReply(d) => /\ Own(d, wait[d].body.id)
                      /\ wait[d].body.active => AgreedBy(d, wait[d].body.id)
                      /\ wait[d].body.id = session[d])'
  BY <1>3, <1>4, <1>5 DEF AnyReply, AgreedBy
<1>8. OwnAt(d)'
  BY <1>5, <1>6, <1>7 DEF OwnAt
<1> QED
  BY <1>3, <1>4, <1>8, OwnOne DEF SameFor, OthersWait

LEMMA ReadyReturnsAgrees ==
    ASSUME TypeOK, TypeOK', AgentInv, AgreeInv, NEW d \in Dogs, ReadyReturns(d)
    PROVE  AgreeInv'
<1>1. Progress
  BY NothingNew DEF ReadyReturns
<1>2. wait'[d] = None /\ OthersWait(d) /\ ~ Idle(d) /\ wait[d].op = "ready"
  BY ReturnsWait DEF ReadyReturns
<1>3. OwnAt(d)
  BY AgreeInvAt
<1>4. agreed' = agreed /\ sessions' = sessions /\ made' = made
  BY DEF ReadyReturns, plane
<1>5. CASE ResultOf(d) = "ok"
  <2>1. AnyReply(d) /\ Body(d).id = session[d]
    BY <1>2, <1>3, <1>5, HasBody DEF OwnAt, AnyReply, Body, AgentInv
  <2>2. session' = session /\ (ux' = ux \/ (Body(d).active /\ ux' = [ux EXCEPT ![d] = "InSession"]))
    BY <1>5, <2>1 DEF ReadyReturns, InSessionBy, TypeOK
  <2>3. OwnAt(d)'
    BY <1>2, <1>3, <1>4, <2>1, <2>2 DEF OwnAt, AnyReply, Idle, Own, AgreedBy, Body, TypeOK
  <2> QED
    BY <1>1, <1>2, <2>2, <2>3, OwnOne DEF SameFor, OthersWait, TypeOK
<1>6. CASE ResultOf(d) # "ok"
  BY <1>1, <1>6, TakesNothing DEF ReadyReturns
<1> QED
  BY <1>5, <1>6

LEMMA AcceptCallAgrees ==
    ASSUME TypeOK, TypeOK', AgentInv, AgreeInv, NEW d \in Dogs, AcceptCall(d)
    PROVE  AgreeInv'
<1>1. OwnAt(d) /\ FlagsReported /\ UNCHANGED agent
  BY AgreeInvAt DEF AcceptCall
<1>2. session[d] = None /\ ux[d] = "RingingIn"
  BY DEF AcceptCall, AgentInv, ShowsWhatItHolds, Talking
<1>3. CASE \E s \in Session : Accept(d, offer[d], s) /\ Answered(d, "accept", Told(s)) /\ UNCHANGED agreed
  <2>1. PICK s \in Session : Accept(d, offer[d], s) /\ Answered(d, "accept", Told(s)) /\ UNCHANGED agreed
    BY <1>3
  <2>2. Progress /\ s.id = made'.sessions /\ s.id > made.sessions /\ With(s, d) /\ ~ Active(s)
    BY <1>1, <2>1, AcceptProgress
  <2>3. /\ OthersWait(d) /\ wait'[d].op = "accept"
        /\ wait'[d].body # None => wait'[d].body = Told(s)
    BY <2>1, AnsweredWait
  <2>4. s \in sessions'
    BY <2>1 DEF Accept
  <2>5. Own(d, s.id)'
    BY <2>2, <2>4 DEF Progress, FlagsReported, Own
  <2>6. OwnAt(d)'
    BY <1>1, <1>2, <2>2, <2>3, <2>5 DEF OwnAt, AnyReply, Told, agent
  <2> QED
    BY <1>1, <2>2, <2>3, <2>6, OwnOne DEF SameFor, OthersWait, agent
<1>4. CASE NotServed(d, "accept", TRUE)
  <2>1. Progress
    BY <1>4, NothingNew DEF NotServed
  <2>2. OthersWait(d) /\ wait'[d].op = "accept" /\ wait'[d].body = None
    BY <1>4, NotServedWait
  <2>3. OwnAt(d)'
    BY <1>1, <1>2, <2>2 DEF OwnAt, AnyReply, agent
  <2> QED
    BY <1>1, <2>1, <2>2, <2>3, OwnOne DEF SameFor, OthersWait, agent
<1> QED
  BY <1>3, <1>4 DEF AcceptCall

LEMMA AcceptReturnsAgrees ==
    ASSUME TypeOK, TypeOK', AgentInv, AgreeInv, NEW d \in Dogs, AcceptReturns(d)
    PROVE  AgreeInv'
<1>1. OwnAt(d) /\ FlagsReported /\ ~ Idle(d) /\ wait[d].op = "accept"
  BY AgreeInvAt DEF AcceptReturns
<1>2. CASE ResultOf(d) = "ok"
  <2>1. AnyReply(d) /\ Body(d).id \in 1..MaxSessions
    BY <1>1, <1>2, HasBody, ReplyBody DEF AnyReply, Body, AgentInv
  <2>2. Own(d, Body(d).id)
    BY <1>1, <2>1 DEF OwnAt, Body
  <2>3. Report(d, Body(d).id)
    BY <1>2 DEF AcceptReturns
  <2>4. /\ Progress /\ OthersWait(d) /\ wait'[d].op = "ready"
        /\ wait'[d].body # None =>
              /\ wait'[d].body.id = Body(d).id
              /\ wait'[d].body.active => \E e \in Dogs \ {d} : {d, e} \subseteq agreed'[Body(d).id]
    BY <1>1, <2>2, <2>3, ReportAgrees, ReportWait
  <2>5. /\ session' = [session EXCEPT ![d] = Body(d).id]
        /\ ux' = [ux EXCEPT ![d] = "Negotiating"]
    BY <1>2 DEF AcceptReturns
  <2>6. session'[d] = Body(d).id /\ ux'[d] = "Negotiating"
    BY <2>5 DEF TypeOK
  <2>7. Own(d, session[d])'
    BY <2>1, <2>2, <2>4, <2>6, OwnGoesOn DEF Own
  <2>8. OwnAt(d)'
    BY <2>4, <2>6, <2>7 DEF OwnAt, AnyReply, AgreedBy
  <2> QED
    BY <2>4, <2>5, <2>8, OwnOne DEF SameFor, OthersWait, TypeOK
<1>3. CASE ResultOf(d) # "ok"
  <2>1. Progress
    BY <1>3, NothingNew DEF AcceptReturns
  <2> QED
    BY <1>3, <2>1, TakesNothing DEF AcceptReturns
<1> QED
  BY <1>2, <1>3

LEMMA AgainAgrees ==
    ASSUME TypeOK, TypeOK', AgentInv, AgreeInv, NEW d \in Dogs, Again(d)
    PROVE  AgreeInv'
<1>1. OwnAt(d) /\ FlagsReported /\ UNCHANGED agent
  BY AgreeInvAt DEF Again
<1>2. Progress
  BY NothingNew DEF Again, NotServed
<1>3. agreed' = agreed /\ sessions' = sessions /\ made' = made
  BY DEF Again, NotServed, plane
<1>4. /\ OthersWait(d) /\ wait'[d].op = "again"
      /\ wait'[d].body # None =>
            /\ wait'[d].body.id = session[d] /\ Own(d, session[d])
            /\ wait'[d].body.active => AgreedBy(d, session[d])
  <2>1. CASE Known(session[d]) /\ Answered(d, "again", Told(TheSession(session[d])))
    <3>1. /\ OthersWait(d) /\ wait'[d].op = "again"
          /\ wait'[d].body # None => wait'[d].body = Told(TheSession(session[d]))
      BY <2>1, AnsweredWait
    <3>2. TheSession(session[d]) \in sessions /\ TheSession(session[d]).id = session[d]
      BY <2>1, TheSessionIs
    <3>3. With(TheSession(session[d]), d)
      BY <1>1, <3>2 DEF Again, OwnAt, Own
    <3>4. Own(d, session[d]) /\ (Active(TheSession(session[d])) => AgreedBy(d, session[d]))
      BY <1>1, <3>2, <3>3, ToldOf
    <3> QED
      BY <3>1, <3>2, <3>4 DEF Told
  <2>2. CASE NotServed(d, "again", ~ Known(session[d]))
    BY <2>2, NotServedWait
  <2> QED
    BY <2>1, <2>2 DEF Again
<1>5. OwnAt(d)'
  BY <1>1, <1>3, <1>4 DEF OwnAt, AnyReply, Own, AgreedBy, agent
<1> QED
  BY <1>1, <1>2, <1>4, <1>5, OwnOne DEF SameFor, OthersWait, agent

LEMMA AgainReturnsAgrees ==
    ASSUME TypeOK, TypeOK', AgentInv, AgreeInv, NEW d \in Dogs, AgainReturns(d)
    PROVE  AgreeInv'
<1>1. Progress
  BY NothingNew DEF AgainReturns
<1>2. ~ Idle(d) /\ wait[d].op = "again" /\ OwnAt(d)
  BY ReturnsWait, AgreeInvAt DEF AgainReturns
<1>3. ResultOf(d) = "ok" => Body(d).id = session[d]
  BY <1>2, HasBody DEF OwnAt, AnyReply, Body, AgentInv
<1>4. UNCHANGED <<session, ux>>
  BY <1>3 DEF AgainReturns, TypeOK
<1> QED
  BY <1>1, <1>4, TakesNothing DEF AgainReturns

LEMMA DoneAgrees ==
    ASSUME TypeOK, TypeOK', AgentInv, AgreeInv, NEW d \in Dogs, Done(d)
    PROVE  AgreeInv'
<1>1. Progress
  BY NothingNew DEF Done, EndRequest
<1>2. OthersWait(d) /\ wait'[d].op = "end"
  BY EndRequestWait DEF Done
<1> QED
  BY <1>1, <1>2, AsksNothing DEF Done, agent

LEMMA EndReturnsAgrees ==
    ASSUME TypeOK, TypeOK', AgentInv, AgreeInv, NEW d \in Dogs, EndReturns(d)
    PROVE  AgreeInv'
<1>1. Progress
  BY NothingNew DEF EndReturns
<1>2. wait'[d] = None /\ OthersWait(d)
  BY ReturnsWait DEF EndReturns
<1>3. session'[d] = None /\ ux'[d] \in {"IdlePresent", "IdleEmpty"}
  BY DEF EndReturns, Rest, TypeOK
<1>4. OwnAt(d)'
  BY <1>2, <1>3 DEF OwnAt, AnyReply, Idle
<1> QED
  BY <1>1, <1>2, <1>4, OwnOne DEF EndReturns, SameFor, OthersWait, TypeOK

LEMMA HaltReturnsAgrees ==
    ASSUME TypeOK, TypeOK', AgentInv, AgreeInv, NEW d \in Dogs, HaltReturns(d)
    PROVE  AgreeInv'
<1>1. Progress
  BY NothingNew DEF HaltReturns
<1>2. wait'[d] = None /\ OthersWait(d)
  BY ReturnsWait DEF HaltReturns
<1>3. session'[d] = None /\ ux'[d] \in {"IdlePresent", "IdleEmpty"}
  BY DEF HaltReturns, Rest, TypeOK
<1>4. OwnAt(d)'
  BY <1>2, <1>3 DEF OwnAt, AnyReply, Idle
<1> QED
  BY <1>1, <1>2, <1>4, OwnOne DEF HaltReturns, SameFor, OthersWait, TypeOK

LEMMA SyncAgrees ==
    ASSUME TypeOK, TypeOK', AgentInv, AgreeInv, NEW d \in Dogs, Sync(d)
    PROVE  AgreeInv'
<1> DEFINE body == IF Busy(d) THEN Told(SessionOf(d)) ELSE None
<1>1. OwnAt(d) /\ FlagsReported /\ UNCHANGED agent
  BY AgreeInvAt DEF Sync
<1>2. Progress
  BY NothingNew DEF Sync
<1>3. agreed' = agreed /\ sessions' = sessions /\ made' = made
  BY DEF Sync, plane
<1>4. /\ OthersWait(d) /\ wait'[d].op = "sync"
      /\ wait'[d].body # None => wait'[d].body = body
  BY AnsweredWait DEF Sync
<1>5. body # None => Own(d, body.id) /\ (body.active => AgreedBy(d, body.id))
  BY <1>1, SessionOfIs, ToldOf DEF Told
<1>6. OwnAt(d)'
  <2> HIDE DEF body
  <2> QED
    BY <1>1, <1>3, <1>4, <1>5 DEF OwnAt, AnyReply, Own, AgreedBy, agent
<1> QED
  BY <1>1, <1>2, <1>4, <1>6, OwnOne DEF SameFor, OthersWait, agent

LEMMA SyncReturnsAgrees ==
    ASSUME TypeOK, TypeOK', AgentInv, AgreeInv, NEW d \in Dogs, SyncReturns(d)
    PROVE  AgreeInv'
<1>1. OwnAt(d) /\ FlagsReported /\ ~ Idle(d) /\ wait[d].op = "sync"
  BY AgreeInvAt DEF SyncReturns
<1>2. CASE ResultOf(d) = "ok" /\ Body(d) # None
  <2>1. AnyReply(d) /\ Body(d).id \in 1..MaxSessions
    BY <1>1, <1>2, ReplyBody DEF AnyReply, Body
  <2>2. Own(d, Body(d).id) /\ (Body(d).active => AgreedBy(d, Body(d).id))
    BY <1>1, <2>1 DEF OwnAt, Body
  <2>3. session' = [session EXCEPT ![d] = Body(d).id]
    BY <1>2 DEF SyncReturns
  <2>4. session'[d] = Body(d).id
    BY <2>3 DEF TypeOK
  <2>5. CASE Body(d).active
    <3>1. ux' = [ux EXCEPT ![d] = "InSession"] /\ Returns(d, "sync") /\ UNCHANGED <<plane, agreed>>
      BY <1>2, <2>5 DEF SyncReturns
    <3>2. Progress /\ wait'[d] = None /\ OthersWait(d)
      BY <3>1, NothingNew, ReturnsWait
    <3>3. OwnAt(d)'
      BY <2>2, <2>4, <2>5, <3>1, <3>2 DEF OwnAt, AnyReply, Idle, Own, AgreedBy, plane
    <3> QED
      BY <2>3, <3>1, <3>2, <3>3, OwnOne DEF SameFor, OthersWait, TypeOK
  <2>6. CASE ~ Body(d).active
    <3>1. ux' = [ux EXCEPT ![d] = "Negotiating"] /\ Report(d, Body(d).id)
      BY <1>2, <2>6 DEF SyncReturns
    <3>2. /\ Progress /\ OthersWait(d) /\ wait'[d].op = "ready"
          /\ wait'[d].body # None =>
                /\ wait'[d].body.id = Body(d).id
                /\ wait'[d].body.active => \E e \in Dogs \ {d} : {d, e} \subseteq agreed'[Body(d).id]
      BY <1>1, <2>2, <3>1, ReportAgrees, ReportWait
    <3>3. ux'[d] = "Negotiating"
      BY <3>1 DEF TypeOK
    <3>4. Own(d, session[d])'
      BY <2>1, <2>2, <2>4, <3>2, OwnGoesOn DEF Own
    <3>5. OwnAt(d)'
      BY <2>4, <3>2, <3>3, <3>4 DEF OwnAt, AnyReply, AgreedBy
    <3> QED
      BY <2>3, <3>1, <3>2, <3>5, OwnOne DEF SameFor, OthersWait, TypeOK
  <2> QED
    BY <2>5, <2>6
<1>3. CASE ~ (ResultOf(d) = "ok" /\ Body(d) # None)
  <2>1. Progress
    BY <1>3, NothingNew DEF SyncReturns
  <2> QED
    BY <1>3, <2>1, TakesNothing DEF SyncReturns
<1> QED
  BY <1>2, <1>3

LEMMA FetchAgrees ==
    ASSUME TypeOK, TypeOK', AgentInv, AgreeInv, NEW d \in Dogs, Fetch(d)
    PROVE  AgreeInv'
<1>1. Progress
  BY NothingNew DEF Fetch
<1>2. OthersWait(d) /\ wait'[d].op = "config"
  BY AnsweredWait DEF Fetch
<1> QED
  BY <1>1, <1>2, AsksNothing DEF Fetch, agent

LEMMA FetchReturnsAgrees ==
    ASSUME TypeOK, TypeOK', AgentInv, AgreeInv, NEW d \in Dogs, FetchReturns(d)
    PROVE  AgreeInv'
<1>1. UNCHANGED session /\ (ux' = ux \/ ux' = [ux EXCEPT ![d] = "Halted"])
  BY DEF FetchReturns, TypeOK
<1>2. \A e \in Dogs : ux'[e] = "InSession" => ux[e] = "InSession"
  BY <1>1 DEF TypeOK
<1>3. \A e \in Dogs \ {d} : ux'[e] = ux[e]
  BY <1>1 DEF TypeOK
<1>4. CASE EndRequest(d, "halt", Body(d))
  <2>1. Progress
    BY <1>4, NothingNew DEF EndRequest
  <2>2. OthersWait(d) /\ wait'[d].op = "halt"
    BY <1>4, EndRequestWait
  <2> QED
    BY <1>1, <1>2, <1>3, <2>1, <2>2, AsksNothing
<1>5. CASE Returns(d, "config") /\ UNCHANGED <<plane, agreed>>
  <2>1. Progress
    BY <1>5, NothingNew
  <2> QED
    BY <1>1, <1>2, <1>3, <1>5, <2>1, TakesNothing
<1> QED
  BY <1>4, <1>5 DEF FetchReturns

LEMMA AgreeStep ==
    ASSUME TypeOK, AgentInv, AgreeInv, [Next]_vars
    PROVE  AgreeInv'
<1>1. TypeOK'
  BY TypeStep DEF AgentInv
<1>2. ASSUME Progress, UNCHANGED <<agent, wait>>
      PROVE  AgreeInv'
  <2>1. \A e \in Dogs : OwnAt(e) /\ SameFor(e)
    BY <1>2, AgreeInvAt DEF agent, SameFor
  <2>2. \A e \in Dogs : OwnAt(e)'
    BY <1>1, <1>2, <2>1, OwnFrame
  <2> QED
    BY <1>2, <2>2 DEF Progress, AgreeInv, OwnAt, HoldsOwn, InSessionWasAgreed
<1>3. CASE UNCHANGED vars
  BY <1>2, <1>3, NothingNew DEF vars
<1>4. ASSUME NEW d \in Dogs, Steward(d)
      PROVE  AgreeInv'
  <2>1. sessions' \subseteq sessions /\ UNCHANGED <<made, agreed, agent, wait>>
    BY <1>4 DEF Steward, SetStop, ClearStop, SetOff
  <2> QED
    BY <1>2, <2>1, ShrinkProgress DEF AgreeInv
<1>5. CASE Server(Expire) \/ Server(TimeUp) \/ Server(TickStop)
  <2>1. sessions' \subseteq sessions /\ UNCHANGED <<made, agreed, agent, wait>>
    BY <1>5 DEF Server, Expire, TimeUp, TickStop, End
  <2> QED
    BY <1>2, <2>1, ShrinkProgress DEF AgreeInv
<1>6. ASSUME NEW d \in Dogs, Await(d)
      PROVE  AgreeInv'
  BY <1>1, <1>6, CallReturnsAgrees, PollReturnsAgrees, ReadyReturnsAgrees, AcceptReturnsAgrees,
     AgainReturnsAgrees, EndReturnsAgrees, SyncReturnsAgrees, FetchReturnsAgrees,
     HaltReturnsAgrees DEF Await
<1> QED
  BY <1>1, <1>3, <1>4, <1>5, <1>6, IngestAgrees, CallAgrees, PollAgrees, MediaReadyCallAgrees,
     AcceptCallAgrees, AgainAgrees, DoneAgrees, SyncAgrees, FetchAgrees DEF Next

LEMMA InitAgree == Init => AgreeInv
  BY DEF Init, PlaneInit, AgreeInv, FlagsReported, HoldsOwn, InSessionWasAgreed, AnyReply, Idle

\* A terminal says that the dogs see each other only after it and another terminal have
\* reported their media ready for that session, whatever was lost or came late.
THEOREM SessionsAgreed == Spec => []InSessionWasAgreed
<1>1. TypeOK /\ AgentInv /\ AgreeInv /\ [Next]_vars => AgreeInv'
  BY AgreeStep
<1>2. AgreeInv => InSessionWasAgreed
  BY DEF AgreeInv
<1> QED
  BY <1>1, <1>2, InitAgree, AgentInvariance, PTL DEF Spec

----------------------------------------------------------------------------
\* ContactInv.  First the control plane: a dog is in one contact at most.

\* No contact is new: an invite was there, and a session was there with the same dogs.
NoNewContact ==
    /\ invites' \subseteq invites
    /\ \A s \in sessions' :
          \E r \in sessions : r.id = s.id /\ r.dog_a = s.dog_a /\ r.dog_b = s.dog_b

LEMMA ShrinkContact ==
    ASSUME OneContact, invites' \subseteq invites, sessions' \subseteq sessions
    PROVE  OneContact' /\ NoNewContact
  BY DEF OneContact, NoNewContact, Busy

LEMMA ReadyContact ==
    ASSUME TypeOK, OneContact, NEW d \in Dogs, NEW id, NEW s \in Session, MediaReady(d, id, s)
    PROVE  OneContact' /\ NoNewContact
<1> DEFINE r == TheSession(id)
<1>1. r \in sessions /\ r.id = id
  BY TheSessionIs DEF MediaReady
<1>2. s = [r EXCEPT !.ready = @ \cup {d}] /\ sessions' = (sessions \ {r}) \cup {s}
      /\ UNCHANGED invites
  BY DEF MediaReady
<1>3. s.id = r.id /\ s.dog_a = r.dog_a /\ s.dog_b = r.dog_b
  BY <1>1, <1>2 DEF TypeOK, PlaneTypeOK, Session
<1> HIDE DEF r
<1>4. NoNewContact
  BY <1>1, <1>2, <1>3 DEF NoNewContact
<1>5. \A e \in Dogs : With(s, e) <=> With(r, e)
  BY <1>3 DEF With
<1>6. \A e \in Dogs : Busy(e)' => Busy(e)
  BY <1>4 DEF NoNewContact, Busy, With
<1>7. ASSUME NEW e \in Dogs, NEW x \in sessions', NEW y \in sessions', With(x, e), With(y, e)
      PROVE  x = y
  BY <1>1, <1>2, <1>5, <1>7 DEF OneContact
<1>8. OneContact'
  BY <1>2, <1>6, <1>7 DEF OneContact, Busy
<1> QED
  BY <1>4, <1>8

LEMMA CreateContact ==
    ASSUME OneContact, NEW d \in Dogs, NEW i \in Invite, Create(d, i)
    PROVE  OneContact'
<1>1. /\ invites' = invites \cup {i} /\ sessions' = sessions
      /\ \A e \in {d, i.to} : ~ Ringing(e) /\ ~ Busy(e)
      /\ i.from = d
  BY DEF Create
<1>2. \A e \in Dogs : Between(i, e) => ~ Ringing(e) /\ ~ Busy(e)
  BY <1>1 DEF Between
<1> QED
  BY <1>1, <1>2 DEF OneContact, Ringing, Busy

LEMMA AcceptContact ==
    ASSUME OneContact, NEW d \in Dogs, NEW id, NEW s \in Session, Accept(d, id, s)
    PROVE  /\ OneContact'
           /\ invites' \subseteq invites /\ sessions' = sessions \cup {s}
           /\ \E i \in invites : \A e \in Dogs : With(s, e) => e = i.from \/ e = d
<1>1. PICK i \in invites :
         /\ i.to = d /\ ~ Busy(i.from) /\ ~ Busy(d)
         /\ s = [id |-> made.sessions + 1, dog_a |-> i.from, dog_b |-> d, ready |-> {}]
         /\ invites' = invites \ {i}
  BY DEF Accept
<1>2. sessions' = sessions \cup {s}
  BY DEF Accept
<1>3. \A e \in Dogs : With(s, e) <=> Between(i, e)
  BY <1>1 DEF With, Between
<1>4. \A e \in Dogs : Between(i, e) => ~ Busy(e)
  BY <1>1 DEF Between
<1>5. \A e \in Dogs : \A j \in invites' : Between(j, e) => ~ Between(i, e)
  BY <1>1 DEF OneContact
<1>6. OneContact'
  <2>1. ASSUME NEW e \in Dogs, NEW x \in sessions', NEW y \in sessions', With(x, e), With(y, e)
        PROVE  x = y
    BY <1>2, <1>3, <1>4, <2>1 DEF OneContact, Busy
  <2>2. ASSUME NEW e \in Dogs, NEW j \in invites', Between(j, e)
        PROVE  \A x \in sessions' : ~ With(x, e)
    BY <1>1, <1>2, <1>3, <1>5, <2>2 DEF OneContact, Busy
  <2> QED
    BY <1>1, <2>1, <2>2 DEF OneContact, Busy
<1>7. \A e \in Dogs : With(s, e) => e = i.from \/ e = d
  BY <1>1 DEF With
<1> QED
  BY <1>1, <1>2, <1>6, <1>7

\* Then the terminals: with no contact new, whoever knows of nothing new is right.

LEMMA HeldShrinks ==
    ASSUME NoNewContact, NEW d \in Dogs, HeldIsCurrent(d), Held(d)' \subseteq Held(d)
    PROVE  HeldIsCurrent(d)'
  BY DEF NoNewContact, HeldIsCurrent, With

LEMMA SameHeld ==
    ASSUME NEW e \in Dogs, SameFor(e)
    PROVE  Held(e)' = Held(e)
  BY DEF SameFor, Held, AnyReply, Idle

LEMMA NothingNewHeld ==
    ASSUME ContactInv, OneContact', NoNewContact, NEW d \in Dogs, Held(d)' \subseteq Held(d),
           \A e \in Dogs \ {d} : SameFor(e)
    PROVE  ContactInv'
<1>1. \A e \in Dogs : Held(e)' \subseteq Held(e)
  BY SameHeld
<1>2. \A e \in Dogs : HeldIsCurrent(e)'
  BY <1>1, HeldShrinks DEF ContactInv
<1> QED
  BY <1>2 DEF ContactInv

\* The contacts of a step that leaves the plane alone or ends a session.
LEMMA PlainContact ==
    ASSUME ContactInv, UNCHANGED plane \/ (\E id : End(id))
    PROVE  OneContact' /\ NoNewContact
<1>1. invites' \subseteq invites /\ sessions' \subseteq sessions
  BY DEF plane, End
<1> QED
  BY <1>1, ShrinkContact DEF ContactInv

LEMMA HeldOf ==
    ASSUME NEW d \in Dogs
    PROVE  /\ session[d] # None => session[d] \in Held(d)
           /\ AnyReply(d) => wait[d].body.id \in Held(d)
  BY DEF Held

\* An answer was taken; what is held then was held before.
LEMMA TakesHeld ==
    ASSUME TypeOK, ContactInv, OneContact', NoNewContact, NEW d \in Dogs, NEW op, Returns(d, op),
           session'[d] \in Held(d) \cup {None},
           \A e \in Dogs \ {d} : ux'[e] = ux[e] /\ session'[e] = session[e]
    PROVE  ContactInv'
<1>1. wait'[d] = None /\ OthersWait(d)
  BY ReturnsWait
<1>2. Held(d)' \subseteq Held(d)
  BY <1>1 DEF Held, AnyReply, Idle
<1> QED
  BY <1>1, <1>2, NothingNewHeld DEF SameFor, OthersWait

\* A request was sent whose answer, if it speaks of a session, speaks of one held.
LEMMA AsksHeld ==
    ASSUME TypeOK, ContactInv, OneContact', NoNewContact, NEW d \in Dogs, OthersWait(d),
           wait'[d].op \in {"accept", "ready", "again", "sync"} /\ wait'[d].body # None =>
              wait'[d].body.id \in Held(d),
           session'[d] \in Held(d) \cup {None},
           \A e \in Dogs \ {d} : ux'[e] = ux[e] /\ session'[e] = session[e]
    PROVE  ContactInv'
<1>1. Held(d)' \subseteq Held(d)
  BY DEF Held, AnyReply, Idle
<1> QED
  BY <1>1, NothingNewHeld DEF SameFor, OthersWait

\* A report, and its answer.
LEMMA ReportHeld ==
    ASSUME TypeOK, AgreeInv, ContactInv, NEW d \in Dogs, NEW id \in Held(d), Report(d, id)
    PROVE  /\ OneContact' /\ NoNewContact /\ OthersWait(d)
           /\ wait'[d].body # None => wait'[d].body.id \in Held(d)
<1>1. OwnAt(d) /\ FlagsReported
  BY AgreeInvAt
<1>2. Own(d, id)
  BY <1>1 DEF Held, OwnAt
<1>3. wait'[d].body # None => wait'[d].body.id = id
  BY <1>1, <1>2, ReportAgrees
<1>4. OneContact' /\ NoNewContact
  BY ReadyContact, PlainContact DEF Report, NotServed, ContactInv
<1> QED
  BY <1>3, <1>4, ReportWait

LEMMA IngestContact ==
    ASSUME TypeOK, AgentInv, AgreeInv, ContactInv, NEW d \in Dogs, Ingest(d)
    PROVE  ContactInv'
<1>1. UNCHANGED <<plane, session, wait>>
  BY DEF Ingest
<1>2. \A e \in Dogs : Held(e)' \subseteq Held(e)
  BY <1>1 DEF Held, AnyReply, Idle
<1>3. \A e \in Dogs : HeldIsCurrent(e)'
  BY <1>1, <1>2, PlainContact, HeldShrinks DEF ContactInv
<1> QED
  BY <1>1, <1>3, PlainContact DEF ContactInv

LEMMA CallContact ==
    ASSUME TypeOK, AgentInv, AgreeInv, ContactInv, NEW d \in Dogs, Call(d)
    PROVE  ContactInv'
<1>1. \A e \in Dogs \ {d} : SameFor(e)
  BY AnsweredWait, NotServedWait DEF Call, SameFor, OthersWait, TypeOK
<1>2. session'[d] = None /\ wait'[d].op = "call"
  BY AnsweredWait, NotServedWait DEF Call, AgentInv, ShowsWhatItHolds, Talking
<1>3. Held(d)' = {}
  BY <1>2 DEF Held, AnyReply
<1>4. CASE \E i \in Invite : Create(d, i)
  <2>1. PICK i \in Invite : Create(d, i)
    BY <1>4
  <2>2. invites' = invites \cup {i} /\ sessions' = sessions /\ i.from = d
    BY <2>1 DEF Create
  <2>3. ASSUME NEW e \in Dogs \ {d}
        PROVE  HeldIsCurrent(e)'
    BY <1>1, <2>2, SameHeld DEF ContactInv, HeldIsCurrent
  <2>4. HeldIsCurrent(d)'
    BY <1>3 DEF HeldIsCurrent
  <2>5. OneContact'
    BY <2>1, CreateContact DEF ContactInv
  <2> QED
    BY <2>3, <2>4, <2>5 DEF ContactInv
<1>5. CASE NotServed(d, "call", TRUE)
  BY <1>1, <1>3, <1>5, PlainContact, NothingNewHeld DEF NotServed
<1> QED
  BY <1>4, <1>5 DEF Call

LEMMA CallReturnsContact ==
    ASSUME TypeOK, AgentInv, AgreeInv, ContactInv, NEW d \in Dogs, CallReturns(d)
    PROVE  ContactInv'
  BY PlainContact, HeldOf, TakesHeld DEF CallReturns, TypeOK

LEMMA PollContact ==
    ASSUME TypeOK, AgentInv, AgreeInv, ContactInv, NEW d \in Dogs, Poll(d)
    PROVE  ContactInv'
  BY PlainContact, HeldOf, AnsweredWait, AsksHeld DEF Poll, agent

LEMMA PollReturnsContact ==
    ASSUME TypeOK, AgentInv, AgreeInv, ContactInv, NEW d \in Dogs, PollReturns(d)
    PROVE  ContactInv'
<1>1. \A e \in Dogs \ {d} : ux'[e] = ux[e]
  BY DEF PollReturns, TypeOK
<1> QED
  BY <1>1, PlainContact, HeldOf, TakesHeld DEF PollReturns

LEMMA MediaReadyCallContact ==
    ASSUME TypeOK, AgentInv, AgreeInv, ContactInv, NEW d \in Dogs, MediaReadyCall(d)
    PROVE  ContactInv'
<1>1. session[d] \in Held(d) /\ Report(d, session[d])
  BY HeldOf DEF MediaReadyCall
<1>2. /\ OneContact' /\ NoNewContact /\ OthersWait(d)
      /\ wait'[d].body # None => wait'[d].body.id \in Held(d)
  BY <1>1, ReportHeld
<1> QED
  BY <1>1, <1>2, AsksHeld DEF MediaReadyCall, agent

LEMMA ReadyReturnsContact ==
    ASSUME TypeOK, AgentInv, AgreeInv, ContactInv, NEW d \in Dogs, ReadyReturns(d)
    PROVE  ContactInv'
<1>1. ~ Idle(d) /\ wait[d].op = "ready"
  BY ReturnsWait DEF ReadyReturns
<1>2. ResultOf(d) = "ok" => Body(d).id \in Held(d)
  BY <1>1, HasBody, HeldOf DEF AgentInv, AnyReply, Body
<1>3. session'[d] \in Held(d) \cup {None}
  BY <1>2, HeldOf DEF ReadyReturns, TypeOK
<1>4. \A e \in Dogs \ {d} : ux'[e] = ux[e] /\ session'[e] = session[e]
  BY DEF ReadyReturns, TypeOK
<1> QED
  BY <1>3, <1>4, PlainContact, TakesHeld DEF ReadyReturns

LEMMA AcceptCallContact ==
    ASSUME TypeOK, AgentInv, AgreeInv, ContactInv, NEW d \in Dogs, AcceptCall(d)
    PROVE  ContactInv'
<1>1. UNCHANGED agent /\ session[d] = None /\ Idle(d)
  BY DEF AcceptCall, AgentInv, ShowsWhatItHolds, Talking
<1>2. CASE \E s \in Session : Accept(d, offer[d], s) /\ Answered(d, "accept", Told(s))
  <2>1. PICK s \in Session : Accept(d, offer[d], s) /\ Answered(d, "accept", Told(s))
    BY <1>2
  <2>2. /\ OneContact' /\ invites' \subseteq invites /\ sessions' = sessions \cup {s}
        /\ \E i \in invites : \A e \in Dogs : With(s, e) => e = i.from \/ e = d
    BY <2>1, AcceptContact DEF ContactInv
  <2>3. OthersWait(d) /\ (wait'[d].body # None => wait'[d].body = Told(s))
    BY <2>1, AnsweredWait
  <2>4. ASSUME NEW e \in Dogs \ {d}
        PROVE  HeldIsCurrent(e)'
    <3>1. Held(e)' = Held(e)
      BY <1>1, <2>3, SameHeld DEF SameFor, OthersWait, agent
    <3>2. Held(e) # {} => ~ With(s, e)
      BY <2>2 DEF ContactInv, HeldIsCurrent
    <3> QED
      BY <2>2, <3>1, <3>2 DEF ContactInv, HeldIsCurrent, With
  <2>5. Held(d)' \subseteq {s.id}
    BY <1>1, <2>3 DEF Held, AnyReply, Told, agent
  <2>6. HeldIsCurrent(d)'
    <3>1. s \in sessions' /\ With(s, d)
      BY <2>1, <2>2 DEF Accept, With
    <3>2. \A x \in sessions' : With(x, d) => x = s
      BY <2>2, <3>1 DEF OneContact
    <3>3. \A i \in invites' : i.from # d
      BY <2>2, <3>1 DEF OneContact, Between, Busy
    <3> QED
      BY <2>5, <3>2, <3>3 DEF HeldIsCurrent
  <2> QED
    BY <2>2, <2>4, <2>6 DEF ContactInv
<1>3. CASE NotServed(d, "accept", TRUE)
  <2>1. OneContact' /\ NoNewContact
    BY <1>3, PlainContact DEF NotServed
  <2> QED
    BY <1>1, <1>3, <2>1, NotServedWait, AsksHeld DEF agent
<1> QED
  BY <1>2, <1>3 DEF AcceptCall

LEMMA AcceptReturnsContact ==
    ASSUME TypeOK, AgentInv, AgreeInv, ContactInv, NEW d \in Dogs, AcceptReturns(d)
    PROVE  ContactInv'
<1>0. ~ Idle(d) /\ wait[d].op = "accept"
  BY DEF AcceptReturns
<1>1. CASE ResultOf(d) = "ok"
  <2>1. Body(d).id \in Held(d)
    BY <1>0, <1>1, HasBody, HeldOf DEF AgentInv, AnyReply, Body
  <2>2. /\ session' = [session EXCEPT ![d] = Body(d).id]
        /\ ux' = [ux EXCEPT ![d] = "Negotiating"]
        /\ Report(d, Body(d).id)
    BY <1>1 DEF AcceptReturns
  <2>3. /\ OneContact' /\ NoNewContact /\ OthersWait(d)
        /\ wait'[d].body # None => wait'[d].body.id \in Held(d)
    BY <2>1, <2>2, ReportHeld
  <2> QED
    BY <2>1, <2>2, <2>3, AsksHeld DEF TypeOK
<1>2. CASE ResultOf(d) # "ok"
  BY <1>2, PlainContact, HeldOf, TakesHeld DEF AcceptReturns
<1> QED
  BY <1>1, <1>2

LEMMA AgainContact ==
    ASSUME TypeOK, AgentInv, AgreeInv, ContactInv, NEW d \in Dogs, Again(d)
    PROVE  ContactInv'
<1>1. UNCHANGED <<plane, agent>> /\ session[d] \in Held(d)
  BY HeldOf DEF Again, NotServed
<1>2. OthersWait(d) /\ (wait'[d].body # None => wait'[d].body.id = session[d])
  <2>1. CASE Known(session[d]) /\ Answered(d, "again", Told(TheSession(session[d])))
    <3>1. TheSession(session[d]).id = session[d]
      BY <2>1, TheSessionIs
    <3>2. OthersWait(d) /\ (wait'[d].body # None => wait'[d].body = Told(TheSession(session[d])))
      BY <2>1, AnsweredWait
    <3> QED
      BY <3>1, <3>2 DEF Told
  <2>2. CASE NotServed(d, "again", ~ Known(session[d]))
    BY <2>2, NotServedWait
  <2> QED
    BY <2>1, <2>2 DEF Again
<1> QED
  BY <1>1, <1>2, PlainContact, AsksHeld DEF agent

LEMMA AgainReturnsContact ==
    ASSUME TypeOK, AgentInv, AgreeInv, ContactInv, NEW d \in Dogs, AgainReturns(d)
    PROVE  ContactInv'
<1>1. ~ Idle(d) /\ wait[d].op = "again"
  BY ReturnsWait DEF AgainReturns
<1>2. ResultOf(d) = "ok" => Body(d).id \in Held(d)
  BY <1>1, HasBody, HeldOf DEF AgentInv, AnyReply, Body
<1>3. session'[d] \in Held(d) \cup {None}
  BY <1>2, HeldOf DEF AgainReturns, TypeOK
<1>4. \A e \in Dogs \ {d} : ux'[e] = ux[e] /\ session'[e] = session[e]
  BY DEF AgainReturns, TypeOK
<1> QED
  BY <1>3, <1>4, PlainContact, TakesHeld DEF AgainReturns

LEMMA DoneContact ==
    ASSUME TypeOK, AgentInv, AgreeInv, ContactInv, NEW d \in Dogs, Done(d)
    PROVE  ContactInv'
<1>1. OthersWait(d) /\ wait'[d].op = "end"
  BY EndRequestWait DEF Done
<1>2. OneContact' /\ NoNewContact
  BY PlainContact DEF Done, EndRequest
<1> QED
  BY <1>1, <1>2, HeldOf, AsksHeld DEF Done, agent

LEMMA EndReturnsContact ==
    ASSUME TypeOK, AgentInv, AgreeInv, ContactInv, NEW d \in Dogs, EndReturns(d)
    PROVE  ContactInv'
<1>1. /\ session'[d] = None
      /\ \A e \in Dogs \ {d} : ux'[e] = ux[e] /\ session'[e] = session[e]
  BY DEF EndReturns, TypeOK
<1> QED
  BY <1>1, PlainContact, TakesHeld DEF EndReturns

LEMMA HaltReturnsContact ==
    ASSUME TypeOK, AgentInv, AgreeInv, ContactInv, NEW d \in Dogs, HaltReturns(d)
    PROVE  ContactInv'
<1>1. /\ session'[d] = None
      /\ \A e \in Dogs \ {d} : ux'[e] = ux[e] /\ session'[e] = session[e]
  BY DEF HaltReturns, TypeOK
<1> QED
  BY <1>1, PlainContact, TakesHeld DEF HaltReturns

LEMMA SyncContact ==
    ASSUME TypeOK, AgentInv, AgreeInv, ContactInv, NEW d \in Dogs, Sync(d)
    PROVE  ContactInv'
<1> DEFINE s == SessionOf(d)
<1>1. UNCHANGED <<plane, agent>> /\ Idle(d)
  BY DEF Sync
<1>2. OthersWait(d) /\ (wait'[d].body # None => Busy(d) /\ wait'[d].body = Told(s))
  BY AnsweredWait DEF Sync
<1>3. OneContact' /\ NoNewContact
  BY <1>1, PlainContact
<1>4. ASSUME NEW e \in Dogs \ {d}
      PROVE  HeldIsCurrent(e)'
  BY <1>1, <1>2, <1>3, SameHeld, HeldShrinks DEF SameFor, OthersWait, ContactInv, agent
<1>5. HeldIsCurrent(d)'
  <2>1. CASE wait'[d].body # None
    <3>1. s \in sessions /\ With(s, d)
      BY <1>2, <2>1, SessionOfIs
    <3>2. \A r \in sessions : With(r, d) => r = s
      BY <3>1 DEF ContactInv, OneContact
    <3>3. \A i \in invites : i.from # d
      BY <1>2, <2>1 DEF ContactInv, OneContact, Between
    <3>4. \A x \in Held(d) : x = s.id
      BY <3>1 DEF ContactInv, HeldIsCurrent
    <3>5. wait'[d].body.id = s.id
      BY <1>2, <2>1 DEF Told
    <3> HIDE DEF s
    <3>6. \A x \in Held(d)' : x = s.id
      BY <1>1, <3>4, <3>5 DEF Held, AnyReply, agent
    <3> QED
      BY <1>1, <3>2, <3>3, <3>6 DEF HeldIsCurrent, With, plane
  <2>2. CASE wait'[d].body = None
    <3>1. Held(d)' \subseteq Held(d)
      BY <1>1, <2>2 DEF Held, AnyReply, agent
    <3> QED
      BY <1>3, <3>1, HeldShrinks DEF ContactInv
  <2> QED
    BY <2>1, <2>2
<1> QED
  BY <1>3, <1>4, <1>5 DEF ContactInv

LEMMA SyncReturnsContact ==
    ASSUME TypeOK, AgentInv, AgreeInv, ContactInv, NEW d \in Dogs, SyncReturns(d)
    PROVE  ContactInv'
<1>0. ~ Idle(d) /\ wait[d].op = "sync"
  BY DEF SyncReturns
<1>1. CASE ResultOf(d) = "ok" /\ Body(d) # None
  <2>1. Body(d).id \in Held(d)
    BY <1>0, <1>1, HeldOf DEF AnyReply, Body
  <2>2. /\ session'[d] = Body(d).id
        /\ \A e \in Dogs \ {d} : ux'[e] = ux[e] /\ session'[e] = session[e]
    BY <1>1 DEF SyncReturns, TypeOK
  <2>3. CASE Body(d).active
    BY <1>1, <2>1, <2>2, <2>3, PlainContact, TakesHeld DEF SyncReturns
  <2>4. CASE ~ Body(d).active
    <3>1. Report(d, Body(d).id)
      BY <1>1, <2>4 DEF SyncReturns
    <3>2. /\ OneContact' /\ NoNewContact /\ OthersWait(d)
          /\ wait'[d].body # None => wait'[d].body.id \in Held(d)
      BY <2>1, <3>1, ReportHeld
    <3> QED
      BY <2>1, <2>2, <3>2, AsksHeld
  <2> QED
    BY <2>3, <2>4
<1>2. CASE ~ (ResultOf(d) = "ok" /\ Body(d) # None)
  BY <1>2, PlainContact, HeldOf, TakesHeld DEF SyncReturns
<1> QED
  BY <1>1, <1>2

LEMMA FetchContact ==
    ASSUME TypeOK, AgentInv, AgreeInv, ContactInv, NEW d \in Dogs, Fetch(d)
    PROVE  ContactInv'
<1>1. OthersWait(d) /\ wait'[d].op = "config"
  BY AnsweredWait DEF Fetch
<1> QED
  BY <1>1, PlainContact, HeldOf, AsksHeld DEF Fetch, agent

LEMMA FetchReturnsContact ==
    ASSUME TypeOK, AgentInv, AgreeInv, ContactInv, NEW d \in Dogs, FetchReturns(d)
    PROVE  ContactInv'
<1>1. UNCHANGED session /\ \A e \in Dogs \ {d} : ux'[e] = ux[e]
  BY DEF FetchReturns, TypeOK
<1>2. CASE EndRequest(d, "halt", Body(d))
  <2>1. OthersWait(d) /\ wait'[d].op = "halt"
    BY <1>2, EndRequestWait
  <2>2. OneContact' /\ NoNewContact
    BY <1>2, PlainContact DEF EndRequest
  <2> QED
    BY <1>1, <2>1, <2>2, HeldOf, AsksHeld
<1>3. CASE Returns(d, "config") /\ UNCHANGED plane
  BY <1>1, <1>3, PlainContact, HeldOf, TakesHeld
<1> QED
  BY <1>2, <1>3 DEF FetchReturns

LEMMA ContactStep ==
    ASSUME TypeOK, AgentInv, AgreeInv, ContactInv, [Next]_vars
    PROVE  ContactInv'
<1>1. ASSUME invites' \subseteq invites, sessions' \subseteq sessions, UNCHANGED <<agent, wait>>
      PROVE  ContactInv'
  <2>1. OneContact' /\ NoNewContact
    BY <1>1, ShrinkContact DEF ContactInv
  <2>2. ASSUME NEW e \in Dogs
        PROVE  HeldIsCurrent(e)'
    BY <1>1, <2>1, SameHeld, HeldShrinks DEF SameFor, ContactInv, agent
  <2> QED
    BY <2>1, <2>2 DEF ContactInv
<1>2. CASE UNCHANGED vars
  BY <1>1, <1>2 DEF vars, plane
<1>3. ASSUME NEW d \in Dogs, Steward(d)
      PROVE  ContactInv'
  BY <1>1, <1>3 DEF Steward, SetStop, ClearStop, SetOff
<1>4. CASE Server(Expire) \/ Server(TimeUp) \/ Server(TickStop)
  BY <1>1, <1>4 DEF Server, Expire, TimeUp, TickStop, End
<1>5. ASSUME NEW d \in Dogs, Await(d)
      PROVE  ContactInv'
  BY <1>5, CallReturnsContact, PollReturnsContact, ReadyReturnsContact, AcceptReturnsContact,
     AgainReturnsContact, EndReturnsContact, SyncReturnsContact, FetchReturnsContact,
     HaltReturnsContact DEF Await
<1> QED
  BY <1>2, <1>3, <1>4, <1>5, IngestContact, CallContact, PollContact, MediaReadyCallContact,
     AcceptCallContact, AgainContact, DoneContact, SyncContact, FetchContact DEF Next

LEMMA InitContact == Init => ContactInv
  BY DEF Init, PlaneInit, ContactInv, OneContact, HeldIsCurrent, Held, AnyReply, Idle

\* While the control plane has a session for the dog, the agent holds no other one: no
\* late or lost answer leaves it with the id of a session before.
THEOREM HoldsNoStaleSession == Spec => []NoOtherSession
<1>1. TypeOK /\ AgentInv /\ AgreeInv /\ [Next]_vars => AgreeInv'
  BY AgreeStep
<1>2. TypeOK /\ AgentInv /\ AgreeInv /\ ContactInv /\ [Next]_vars => ContactInv'
  BY ContactStep
<1>3. ContactInv => NoOtherSession
  BY HeldOf DEF ContactInv, HeldIsCurrent, NoOtherSession
<1> QED
  BY <1>1, <1>2, <1>3, InitAgree, InitContact, AgentInvariance, PTL DEF Spec
=============================================================================
