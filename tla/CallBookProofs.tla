---------------------------- MODULE CallBookProofs ----------------------------
(***************************************************************************)
(* DeviceApi implements CallBook: whatever copies of a call or a session   *)
(* its stores, rows and handlers hold, they agree, and a step only takes   *)
(* some of them away, unless it hands out an id.                           *)
(***************************************************************************)
EXTENDS DeviceApiProofs

----------------------------------------------------------------------------
\* What is remembered.

LEMMA CallCopyIs ==
    ASSUME NEW i \in InviteIds, NEW p
    PROVE  p \in CallCopies(i) <=> \/ p \in Call(invites[i]) \/ p \in Call(db_invites[i])
                                   \/ \E h \in Handlers : p \in CarriedCall(job[h], i)
  BY Zenon DEF CallCopies

LEMMA TalkCopyIs ==
    ASSUME NEW s \in SessionIds, NEW t
    PROVE  t \in TalkCopies(s) <=> \/ t \in Talk(sessions[s]) \/ t \in Talk(db_sessions[s])
                                   \/ \E h \in Handlers : t \in CarriedTalk(job[h], s)
  BY Zenon DEF TalkCopies

LEMMA NextCallCopyIs ==
    ASSUME NEW i \in InviteIds, NEW p
    PROVE  p \in CallCopies(i)' <=> \/ p \in Call(invites'[i]) \/ p \in Call(db_invites'[i])
                                    \/ \E h \in Handlers : p \in CarriedCall(job'[h], i)
  BY Zenon DEF CallCopies

LEMMA NextTalkCopyIs ==
    ASSUME NEW s \in SessionIds, NEW t
    PROVE  t \in TalkCopies(s)' <=> \/ t \in Talk(sessions'[s]) \/ t \in Talk(db_sessions'[s])
                                    \/ \E h \in Handlers : t \in CarriedTalk(job'[h], s)
  BY Zenon DEF TalkCopies

LEMMA NothingRemembered == Call(None) = {} /\ Talk(None) = {}
  BY DEF Call, Talk

LEMMA CallIs ==
    ASSUME NEW inv \in Invite
    PROVE  Call(inv) = {<<inv.from, inv.to>>}
<1>1. inv # None
  BY ConstantsAssumption
<1> QED BY <1>1, Zenon DEF Call

LEMMA TalkIs ==
    ASSUME NEW r \in Session
    PROVE  Talk(r) = {[invite |-> r.invite, dogs |-> <<r.dog_a, r.dog_b>>,
                       started |-> r.started, max_end |-> r.max_end]}
<1>1. r # None
  BY ConstantsAssumption
<1> QED BY <1>1, Zenon DEF Talk

LEMMA SameTalk ==
    ASSUME NEW r \in Session, NEW q \in Session,
           r.invite = q.invite, r.dog_a = q.dog_a, r.dog_b = q.dog_b,
           r.started = q.started, r.max_end = q.max_end
    PROVE  Talk(r) = Talk(q)
  BY TalkIs

\* A handler that carries neither a call nor a session.
Silent(j) ==
    j.pc \notin {"create_row", "accept_close", "accept_insert", "accept_invite_row", "save_session"}

LEMMA CarriedIs ==
    ASSUME NEW j, NEW i, NEW s
    PROVE  /\ Silent(j) => CarriedCall(j, i) = {} /\ CarriedTalk(j, s) = {}
           /\ j.pc = "create_row" =>
                CarriedCall(j, i) = (IF j.id = i THEN Call(j.inv) ELSE {}) /\ CarriedTalk(j, s) = {}
           /\ j.pc \in {"accept_close", "accept_insert"} =>
                /\ CarriedCall(j, i) = (IF j.id = i THEN {<<j.sess.dog_a, j.sess.dog_b>>} ELSE {})
                /\ CarriedTalk(j, s) = {}
           /\ j.pc \in {"accept_invite_row", "save_session"} =>
                CarriedCall(j, i) = {} /\ CarriedTalk(j, s) = (IF j.sid = s THEN Talk(j.sess) ELSE {})
  BY DEF Silent, CarriedCall, CarriedTalk

\* A step takes copies away.
CallsFade == \A i \in InviteIds : CallCopies(i)' \subseteq CallCopies(i)
TalksFade == \A s \in SessionIds : TalkCopies(s)' \subseteq TalkCopies(s)

LEMMA FadeBy ==
    /\ /\ \A i \in InviteIds : /\ Call(invites'[i]) \subseteq CallCopies(i)
                               /\ Call(db_invites'[i]) \subseteq CallCopies(i)
       /\ \A g \in Handlers, i \in InviteIds : CarriedCall(job'[g], i) \subseteq CallCopies(i)
       => CallsFade
    /\ /\ \A s \in SessionIds : /\ Talk(sessions'[s]) \subseteq TalkCopies(s)
                                /\ Talk(db_sessions'[s]) \subseteq TalkCopies(s)
       /\ \A g \in Handlers, s \in SessionIds : CarriedTalk(job'[g], s) \subseteq TalkCopies(s)
       => TalksFade
  BY NextCallCopyIs, NextTalkCopyIs, Zenon DEF CallsFade, TalksFade

LEMMA HeldNow ==
    /\ \A i \in InviteIds : Call(invites[i]) \subseteq CallCopies(i)
                            /\ Call(db_invites[i]) \subseteq CallCopies(i)
    /\ \A g \in Handlers, i \in InviteIds : CarriedCall(job[g], i) \subseteq CallCopies(i)
    /\ \A s \in SessionIds : Talk(sessions[s]) \subseteq TalkCopies(s)
                             /\ Talk(db_sessions[s]) \subseteq TalkCopies(s)
    /\ \A g \in Handlers, s \in SessionIds : CarriedTalk(job[g], s) \subseteq TalkCopies(s)
  BY CallCopyIs, TalkCopyIs, Zenon

----------------------------------------------------------------------------
\* The inductive invariant: the copies agree, only bonded dogs have any, and so it is
\* with the call that a handler is about to make and the session it is about to begin.

Agree ==
    /\ \A i \in InviteIds : \A p, q \in CallCopies(i) : p = q
    /\ \A s \in SessionIds : \A t, u \in TalkCopies(s) : t = u

BondedCopies ==
    /\ \A i \in InviteIds : CallCopies(i) \subseteq Bonds
    /\ \A s \in SessionIds : \A t \in TalkCopies(s) : t.dogs \in Bonds

Asks(j) == j.pc \in {"create_peer", "create_insert"} => <<j.dog, j.to>> \in Bonds
Offers(j) ==
    j.pc \in {"accept_close", "accept_insert"} =>
        j.sess.invite = j.id /\ j.sess.state = "Negotiating" /\ ~ j.sess.media_a /\ ~ j.sess.media_b

CallInv ==
    /\ Agree /\ BondedCopies
    /\ \A h \in Handlers : Asks(job[h]) /\ Offers(job[h])

\* Most steps let go of copies and do no more: they neither write one nor begin to carry one.
Plain ==
    /\ InvitesKept
    /\ \/ sessions' = sessions
       \/ invites' = invites /\ \E s \in SessionIds : sessions' = [sessions EXCEPT ![s] = None]
    /\ \A i \in InviteIds : db_invites'[i] \in {db_invites[i], None}
    /\ \A s \in SessionIds : db_sessions'[s] \in {db_sessions[s], None}
    /\ \A g \in Handlers : job'[g] = job[g] \/ (Silent(job'[g]) /\ Asks(job'[g]))
    /\ UNCHANGED <<made, restarts>>

LEMMA PlainFades ==
    ASSUME TypeOK, Plain
    PROVE  CallsFade /\ TalksFade
<1>1. \A i \in InviteIds : invites'[i] \in {invites[i], None} /\ db_invites'[i] \in {db_invites[i], None}
  BY DEF Plain, InvitesKept
<1>2. \A s \in SessionIds : sessions'[s] \in {sessions[s], None} /\ db_sessions'[s] \in {db_sessions[s], None}
  BY DEF Plain, TypeOK
<1>3. \A g \in Handlers : job'[g] = job[g] \/ Silent(job'[g])
  BY DEF Plain
<1>4. \A i \in InviteIds : /\ Call(invites'[i]) \subseteq CallCopies(i)
                           /\ Call(db_invites'[i]) \subseteq CallCopies(i)
  BY <1>1, HeldNow, NothingRemembered
<1>5. \A s \in SessionIds : /\ Talk(sessions'[s]) \subseteq TalkCopies(s)
                            /\ Talk(db_sessions'[s]) \subseteq TalkCopies(s)
  BY <1>2, HeldNow, NothingRemembered
<1>6. \A g \in Handlers, i \in InviteIds : CarriedCall(job'[g], i) \subseteq CallCopies(i)
  BY <1>3, HeldNow, CarriedIs
<1>7. \A g \in Handlers, s \in SessionIds : CarriedTalk(job'[g], s) \subseteq TalkCopies(s)
  BY <1>3, HeldNow, CarriedIs
<1> QED BY <1>4, <1>5, <1>6, <1>7, FadeBy

LEMMA PlainRequest ==
    ASSUME TypeOK, NEW h \in Handlers, Request(h)
    PROVE  \/ Plain
           \/ \E i \in InviteIds : AcceptGet(h, i)
           \/ \E s \in SessionIds, d \in Dogs, ready \in BOOLEAN : MediaReady(h, s, d, ready)
<1> USE DEF Plain, Goto, OrDone, Idle, At, mem, db, Silent, Asks, Receive, StoresOK
<1>0. StoresOK /\ job \in [Handlers -> Job] /\ InvitesKept
  BY TypeParts, RequestKeeps DEF Kept
<1>1. ASSUME NEW d \in Dogs, NEW to \in Dogs, CreateRoute(h, d, to) PROVE Plain
  BY <1>1, <1>0 DEF CreateRoute, MayCreate
<1>2. ASSUME NEW kind, NEW d \in Dogs, SweepOnly(h, kind, d) PROVE Plain
  BY <1>2, <1>0 DEF SweepOnly
<1>3. ASSUME NEW i \in InviteIds, CancelGet(h, i) PROVE Plain
  BY <1>3, <1>0 DEF CancelGet
<1>4. ASSUME NEW s \in SessionIds, EndGet(h, s) PROVE Plain
  BY <1>4, <1>0 DEF EndGet
<1>5. ASSUME NEW s \in SessionIds, NEW d \in Dogs, AgainGet(h, s, d) PROVE Plain
  BY <1>5, <1>0 DEF AgainGet
<1>6. ASSUME NEW kind, NEW d \in Dogs, NEW on \in BOOLEAN, FlagRead(h, kind, d, on) PROVE Plain
  BY <1>6, <1>0 DEF FlagRead
<1>7. ASSUME NEW d \in Dogs, NEW l \in Limits, PolicyRead(h, d, l) PROVE Plain
  BY <1>7, <1>0 DEF PolicyRead
<1> HIDE DEF Plain, Goto, OrDone, Idle, At, mem, db, Silent, Asks, Receive, StoresOK
<1> QED
  BY <1>1, <1>2, <1>3, <1>4, <1>5, <1>6, <1>7 DEF Request

LEMMA PlainStep ==
    ASSUME TypeOK, CallInv, NEW h \in Handlers, Step(h)
    PROVE  \/ Plain
           \/ CreateInsert(h) \/ CreateRow(h) \/ AcceptClose(h) \/ AcceptInsert(h)
           \/ AcceptInviteRow(h) \/ SaveSession(h) \/ AgainUpdate(h)
<1> USE DEF Plain, Goto, OrDone, Idle, At, mem, db, Silent, Asks, StoresOK, RowsOK, AfterFlag
<1>0. /\ StoresOK /\ RowsOK /\ job \in [Handlers -> Job] /\ job[h] \in Job
      /\ CreateInsert(h) \/ AcceptInsert(h) \/ InvitesKept
  BY TypeParts, StepKeeps DEF Kept
<1>a. Asks(job[h])
  BY DEF CallInv
<1>1. ASSUME CreatePeer(h) PROVE Plain
  BY <1>1, <1>0, <1>a, LocalsAre, UnchangedKept DEF CreatePeer
<1>2. ASSUME CreateRefused(h) \/ CreateBusy(h) \/ AcceptBusy(h) \/ AgainGone(h) \/ StopNothing(h)
      PROVE  Plain
  BY <1>2, <1>0, UnchangedKept DEF CreateRefused, CreateBusy, AcceptBusy, AgainGone, StopNothing
<1>3. ASSUME CancelClose(h) PROVE Plain
  BY <1>3, <1>0, LocalsAre DEF CancelClose, InvitesKept
<1>4. ASSUME CancelRow(h) PROVE Plain
  BY <1>4, <1>0, UnchangedKept, LocalsAre DEF CancelRow
<1>5. ASSUME EndEnd(h) PROVE Plain
  BY <1>5, <1>0, UnchangedKept, LocalsAre DEF EndEnd
<1>6. ASSUME EndRow(h) PROVE Plain
  BY <1>6, <1>0, UnchangedKept, LocalsAre DEF EndRow
<1>7. ASSUME FlagSet(h) PROVE Plain
  BY <1>7, <1>0, UnchangedKept, LocalsAre DEF FlagSet
<1>8. ASSUME FlagGet(h) PROVE Plain
  BY <1>8, <1>0, UnchangedKept, LocalsAre DEF FlagGet
<1>9. ASSUME FlagRow(h) PROVE Plain
  BY <1>9, <1>0, UnchangedKept, LocalsAre DEF FlagRow
<1>10. ASSUME NEW s \in SessionIds, StopEnd(h, s) PROVE Plain
  BY <1>10, <1>0, UnchangedKept DEF StopEnd
<1>11. ASSUME PolicyRow(h) PROVE Plain
  BY <1>11, <1>0, UnchangedKept, LocalsAre DEF PolicyRow
<1>12. ASSUME PolicySet(h) PROVE Plain
  BY <1>12, <1>0, UnchangedKept, LocalsAre DEF PolicySet
<1> HIDE DEF Plain, Goto, OrDone, Idle, At, mem, db, Silent, Asks, StoresOK, RowsOK, AfterFlag
<1> QED
  BY <1>1, <1>2, <1>3, <1>4, <1>5, <1>6, <1>7, <1>8, <1>9, <1>10, <1>11, <1>12 DEF Step

LEMMA PlainTick ==
    ASSUME TypeOK, Tick \/ Second \/ UNCHANGED vars
    PROVE  Plain
<1> USE DEF Plain, mem, db, StoresOK, RowsOK
<1>0. StoresOK /\ RowsOK /\ job \in [Handlers -> Job] /\ tick \in TickJob
  BY TypeParts
<1>1. ASSUME Second \/ UNCHANGED vars PROVE Plain
  BY <1>1, UnchangedKept DEF Second, vars
<1>2. ASSUME TickStart PROVE Plain
  BY <1>2, OnlyRemoves DEF TickStart, InvitesKept
<1>3. ASSUME TickAll \/ TickDone PROVE Plain
  BY <1>3, UnchangedKept DEF TickAll, TickDone
<1>4. ASSUME TickRow PROVE Plain
  BY <1>4, <1>0, UnchangedKept, ScanIs DEF TickRow
<1>5. ASSUME NEW i \in InviteIds, TickInviteRow(i) PROVE Plain
  BY <1>5, <1>0, UnchangedKept DEF TickInviteRow
<1>6. ASSUME NEW s \in SessionIds, TickEnd(s) PROVE Plain
  BY <1>6, <1>0, UnchangedKept DEF TickEnd
<1>7. ASSUME NEW s \in SessionIds, TickKeep(s) PROVE Plain
  BY <1>7, UnchangedKept DEF TickKeep
<1> HIDE DEF Plain, mem, db, StoresOK, RowsOK
<1> QED
  BY <1>1, <1>2, <1>3, <1>4, <1>5, <1>6, <1>7 DEF Tick

\* The others but the two that hand out an id write a copy of what they hold, or begin
\* to carry one of what the store holds.
Held ==
    /\ CallsFade /\ TalksFade
    /\ InvitesKept
    /\ \A g \in Handlers : job'[g] = job[g] \/ (Asks(job'[g]) /\ Offers(job'[g]))
    /\ UNCHANGED <<made, restarts>>

LEMMA PlainHeld ==
    ASSUME TypeOK, Plain
    PROVE  Held
  BY PlainFades DEF Held, Plain, Silent, Offers

LEMMA SilentJob == Silent(Idle) /\ Asks(Idle) /\ Offers(Idle)
  BY DEF Silent, Asks, Offers, Idle

\* Nothing but one handler and one entry of one table changes.
LEMMA CarriedBy ==
    ASSUME TypeOK, NEW h \in Handlers, NEW j, Goto(h, j) \/ Goto(h, OrDone(j))
    PROVE  \A g \in Handlers : job'[g] = job[g] \/ job'[g] = j \/ job'[g] = Idle
  BY DEF Goto, OrDone, TypeOK

LEMMA AcceptGetHolds ==
    ASSUME TypeOK, NEW h \in Handlers, NEW i \in InviteIds, AcceptGet(h, i)
    PROVE  Held
<1> DEFINE inv == AfterExpiry[i]
           sess == [invite |-> i, dog_a |-> inv.from, dog_b |-> inv.to,
                    state |-> "Negotiating", started |-> clock,
                    max_end |-> clock + policy[inv.to].limits.max_sec,
                    deadline |-> clock + policy[inv.to].limits.seg_sec,
                    media_a |-> FALSE, media_b |-> FALSE]
           j == [pc |-> "accept_close", id |-> i, sess |-> sess]
<1>1. inv # None /\ inv = invites[i]
  BY OnlyRemoves DEF AcceptGet
<1>2. InvitesKept
  BY RequestKeeps DEF Request, Kept
<1>3. Goto(h, j) /\ UNCHANGED <<sessions, db, made, restarts>>
  BY DEF AcceptGet
<1>4. Asks(j) /\ Offers(j)
  BY DEF Asks, Offers
<1>5. \A k \in InviteIds : CarriedCall(j, k) \subseteq Call(invites[k])
  <2>1. \A k \in InviteIds : CarriedCall(j, k) = IF i = k THEN {<<inv.from, inv.to>>} ELSE {}
    BY DEF CarriedCall
  <2> QED BY <1>1, <2>1 DEF Call
<1>6. \A s \in SessionIds : CarriedTalk(j, s) = {}
  BY DEF CarriedTalk
<1>7. \A g \in Handlers : job'[g] = job[g] \/ job'[g] = j \/ job'[g] = Idle
  BY <1>3, CarriedBy
<1> HIDE DEF j
<1>8. CallsFade
  <2>1. \A k \in InviteIds : /\ Call(invites'[k]) \subseteq CallCopies(k)
                             /\ Call(db_invites'[k]) \subseteq CallCopies(k)
    BY <1>2, <1>3, HeldNow, NothingRemembered DEF InvitesKept, db
  <2>2. \A g \in Handlers, k \in InviteIds : CarriedCall(job'[g], k) \subseteq CallCopies(k)
    BY <1>5, <1>7, HeldNow, CarriedIs, SilentJob
  <2> QED BY <2>1, <2>2, FadeBy
<1>9. TalksFade
  <2>1. \A g \in Handlers, s \in SessionIds : CarriedTalk(job'[g], s) \subseteq TalkCopies(s)
    BY <1>6, <1>7, HeldNow, CarriedIs, SilentJob
  <2> QED BY <1>3, <2>1, HeldNow, FadeBy DEF db
<1> QED BY <1>2, <1>3, <1>4, <1>7, <1>8, <1>9, SilentJob DEF Held

\* MediaReady and AgainUpdate change a session and carry a copy, of the same talk.
LEMMA ChangeHolds ==
    ASSUME TypeOK, NEW h \in Handlers, NEW s \in SessionIds, sessions[s] # None,
           NEW new \in Session, NEW row \in Session,
           Talk(new) = Talk(sessions[s]), Talk(row) = Talk(sessions[s]),
           sessions' = [sessions EXCEPT ![s] = new],
           Goto(h, OrDone([pc |-> "save_session", sid |-> s, sess |-> row])),
           UNCHANGED <<invites, db, made, restarts>>
    PROVE  Held
<1> DEFINE j == [pc |-> "save_session", sid |-> s, sess |-> row]
<1>1. Asks(j) /\ Offers(j)
  BY DEF Asks, Offers
<1>2. \A i \in InviteIds : CarriedCall(j, i) = {}
  BY DEF CarriedCall
<1>3. \A r \in SessionIds : CarriedTalk(j, r) = IF s = r THEN Talk(row) ELSE {}
  BY DEF CarriedTalk
<1>4. \A g \in Handlers : job'[g] = job[g] \/ job'[g] = j \/ job'[g] = Idle
  BY CarriedBy
<1> HIDE DEF j
<1>5. CallsFade
  <2>1. \A g \in Handlers, i \in InviteIds : CarriedCall(job'[g], i) \subseteq CallCopies(i)
    BY <1>2, <1>4, HeldNow, CarriedIs, SilentJob
  <2> QED BY <2>1, HeldNow, FadeBy DEF db
<1>6. TalksFade
  <2>1. \A r \in SessionIds : Talk(sessions'[r]) \subseteq TalkCopies(r)
    BY HeldNow DEF TypeOK
  <2>2. \A r \in SessionIds : CarriedTalk(j, r) \subseteq TalkCopies(r)
    BY <1>3, HeldNow
  <2>3. \A g \in Handlers, r \in SessionIds : CarriedTalk(job'[g], r) \subseteq TalkCopies(r)
    BY <1>4, <2>2, HeldNow, CarriedIs, SilentJob
  <2> QED BY <2>1, <2>3, HeldNow, FadeBy DEF db
<1> QED BY <1>1, <1>4, <1>5, <1>6, SilentJob, UnchangedKept DEF Held

LEMMA MediaReadyHolds ==
    ASSUME TypeOK, NEW h \in Handlers, NEW s \in SessionIds, NEW d \in Dogs, NEW ready \in BOOLEAN,
           MediaReady(h, s, d, ready)
    PROVE  Held
<1> DEFINE new == Reported(sessions[s], d, ready)
           both == new.media_a /\ new.media_b
           row == [new EXCEPT !.media_a = both \/ d = new.dog_a,
                              !.media_b = both \/ d = new.dog_b]
<1>1. sessions[s] # None /\ sessions[s] \in Session
  BY DEF MediaReady, TypeOK
<1>2. new \in Session /\ Talk(new) = Talk(sessions[s])
  <2>1. new \in Session
    BY <1>1 DEF Reported, Session, States
  <2>2. /\ new.invite = sessions[s].invite
        /\ new.dog_a = sessions[s].dog_a /\ new.dog_b = sessions[s].dog_b
        /\ new.started = sessions[s].started /\ new.max_end = sessions[s].max_end
    BY <1>1 DEF Reported, Session
  <2> HIDE DEF new
  <2> QED BY <1>1, <2>1, <2>2, SameTalk
<1>3. row \in Session /\ Talk(row) = Talk(new)
  <2> HIDE DEF new
  <2>1. row \in Session
    BY <1>2 DEF Session
  <2>2. /\ row.invite = new.invite /\ row.dog_a = new.dog_a /\ row.dog_b = new.dog_b
        /\ row.started = new.started /\ row.max_end = new.max_end
    BY <1>2 DEF Session
  <2> HIDE DEF row
  <2> QED BY <1>2, <2>1, <2>2, SameTalk
<1>4. /\ sessions' = [sessions EXCEPT ![s] = new]
      /\ Goto(h, OrDone([pc |-> "save_session", sid |-> s, sess |-> row]))
      /\ UNCHANGED <<invites, db, made, restarts>>
  BY DEF MediaReady
<1> HIDE DEF new, row
<1> QED BY <1>1, <1>2, <1>3, <1>4, ChangeHolds

LEMMA AgainHolds ==
    ASSUME TypeOK, NEW h \in Handlers, AgainUpdate(h)
    PROVE  Held
<1> DEFINE s == job[h].sid
           new == [sessions[s] EXCEPT !.deadline = job[h].deadline]
           row == [new EXCEPT !.media_a = TRUE, !.media_b = TRUE]
<1>1. /\ s \in SessionIds /\ job[h].deadline \in Int
      /\ sessions[s] # None /\ sessions[s] \in Session
  BY LocalsAre DEF AgainUpdate, At, TypeOK
<1>2. new \in Session /\ Talk(new) = Talk(sessions[s])
  <2>1. new \in Session
    BY <1>1 DEF Session
  <2>2. /\ new.invite = sessions[s].invite
        /\ new.dog_a = sessions[s].dog_a /\ new.dog_b = sessions[s].dog_b
        /\ new.started = sessions[s].started /\ new.max_end = sessions[s].max_end
    BY <1>1 DEF Session
  <2> HIDE DEF new
  <2> QED BY <1>1, <2>1, <2>2, SameTalk
<1>3. row \in Session /\ Talk(row) = Talk(new)
  <2> HIDE DEF new
  <2>1. row \in Session
    BY <1>2 DEF Session
  <2>2. /\ row.invite = new.invite /\ row.dog_a = new.dog_a /\ row.dog_b = new.dog_b
        /\ row.started = new.started /\ row.max_end = new.max_end
    BY <1>2 DEF Session
  <2> HIDE DEF row
  <2> QED BY <1>2, <2>1, <2>2, SameTalk
<1>4. /\ sessions' = [sessions EXCEPT ![s] = new]
      /\ Goto(h, OrDone([pc |-> "save_session", sid |-> s, sess |-> row]))
      /\ UNCHANGED <<invites, db, made, restarts>>
  BY DEF AgainUpdate
<1> HIDE DEF s, new, row
<1> QED BY <1>1, <1>2, <1>3, <1>4, ChangeHolds

\* The handler's copy goes to the table, or on to its next step.
LEMMA CreateRowHolds ==
    ASSUME TypeOK, NEW h \in Handlers, CreateRow(h)
    PROVE  Held
<1>1. /\ job[h].pc = "create_row" /\ job[h].id \in InviteIds
      /\ db_invites' = [db_invites EXCEPT ![job[h].id] = job[h].inv]
      /\ Goto(h, Idle) /\ UNCHANGED <<invites, sessions, db_sessions, made, restarts>>
  BY LocalsAre DEF CreateRow, At, TypeOK, mem
<1>2. \A g \in Handlers : job'[g] = job[g] \/ job'[g] = Idle
  BY <1>1, CarriedBy
<1>3. CallsFade
  <2>1. Call(job[h].inv) \subseteq CallCopies(job[h].id)
    BY <1>1, HeldNow, CarriedIs
  <2>2. \A i \in InviteIds : Call(db_invites'[i]) \subseteq CallCopies(i)
    BY <1>1, <2>1, HeldNow DEF TypeOK
  <2>3. \A g \in Handlers, i \in InviteIds : CarriedCall(job'[g], i) \subseteq CallCopies(i)
    BY <1>2, HeldNow, CarriedIs, SilentJob
  <2> QED BY <1>1, <2>2, <2>3, HeldNow, FadeBy
<1>4. TalksFade
  <2>1. \A g \in Handlers, s \in SessionIds : CarriedTalk(job'[g], s) \subseteq TalkCopies(s)
    BY <1>2, HeldNow, CarriedIs, SilentJob
  <2> QED BY <1>1, <2>1, HeldNow, FadeBy
<1> QED BY <1>1, <1>2, <1>3, <1>4, SilentJob, UnchangedKept DEF Held

LEMMA SaveHolds ==
    ASSUME TypeOK, NEW h \in Handlers, SaveSession(h)
    PROVE  Held
<1>1. /\ job[h].pc = "save_session" /\ job[h].sid \in SessionIds
      /\ db_sessions' = [db_sessions EXCEPT ![job[h].sid] = job[h].sess]
      /\ Goto(h, Idle) /\ UNCHANGED <<invites, sessions, db_invites, made, restarts>>
  BY LocalsAre DEF SaveSession, At, TypeOK, mem
<1>2. \A g \in Handlers : job'[g] = job[g] \/ job'[g] = Idle
  BY <1>1, CarriedBy
<1>3. TalksFade
  <2>1. Talk(job[h].sess) \subseteq TalkCopies(job[h].sid)
    BY <1>1, HeldNow, CarriedIs
  <2>2. \A s \in SessionIds : Talk(db_sessions'[s]) \subseteq TalkCopies(s)
    BY <1>1, <2>1, HeldNow DEF TypeOK
  <2>3. \A g \in Handlers, s \in SessionIds : CarriedTalk(job'[g], s) \subseteq TalkCopies(s)
    BY <1>2, HeldNow, CarriedIs, SilentJob
  <2> QED BY <1>1, <2>2, <2>3, HeldNow, FadeBy
<1>4. CallsFade
  <2>1. \A g \in Handlers, i \in InviteIds : CarriedCall(job'[g], i) \subseteq CallCopies(i)
    BY <1>2, HeldNow, CarriedIs, SilentJob
  <2> QED BY <1>1, <2>1, HeldNow, FadeBy
<1> QED BY <1>1, <1>2, <1>3, <1>4, SilentJob, UnchangedKept DEF Held

LEMMA AcceptCloseHolds ==
    ASSUME TypeOK, CallInv, NEW h \in Handlers, AcceptClose(h)
    PROVE  Held
<1> DEFINE j == [job[h] EXCEPT !.pc = "accept_insert"]
<1>1. /\ job[h].pc = "accept_close"
      /\ j.pc = "accept_insert" /\ j.id = job[h].id /\ j.sess = job[h].sess
      /\ Goto(h, j) /\ UNCHANGED <<sessions, db, made, restarts>>
  BY LocalsAre DEF AcceptClose, At, TypeOK
<1> HIDE DEF j
<1>2. InvitesKept
  BY StepKeeps DEF Step, Kept, AcceptClose, CreateInsert, AcceptInsert, At
<1>3. \A i \in InviteIds : CarriedCall(j, i) = CarriedCall(job[h], i)
  BY <1>1 DEF CarriedCall
<1>4. \A s \in SessionIds : CarriedTalk(j, s) = {}
  BY <1>1 DEF CarriedTalk
<1>5. \A g \in Handlers : job'[g] = job[g] \/ job'[g] = j \/ job'[g] = Idle
  BY <1>1, CarriedBy
<1>6. Asks(j) /\ Offers(j)
  BY <1>1 DEF CallInv, Asks, Offers
<1>7. CallsFade
  <2>1. \A k \in InviteIds : /\ Call(invites'[k]) \subseteq CallCopies(k)
                             /\ Call(db_invites'[k]) \subseteq CallCopies(k)
    BY <1>1, <1>2, HeldNow, NothingRemembered DEF InvitesKept, db
  <2>2. \A g \in Handlers, k \in InviteIds : CarriedCall(job'[g], k) \subseteq CallCopies(k)
    BY <1>3, <1>5, HeldNow, CarriedIs, SilentJob
  <2> QED BY <2>1, <2>2, FadeBy
<1>8. TalksFade
  <2>1. \A g \in Handlers, s \in SessionIds : CarriedTalk(job'[g], s) \subseteq TalkCopies(s)
    BY <1>4, <1>5, HeldNow, CarriedIs, SilentJob
  <2> QED BY <1>1, <2>1, HeldNow, FadeBy DEF db
<1> QED BY <1>1, <1>2, <1>5, <1>6, <1>7, <1>8, SilentJob DEF Held

LEMMA AcceptInviteRowHolds ==
    ASSUME TypeOK, NEW h \in Handlers, AcceptInviteRow(h)
    PROVE  Held
<1> DEFINE j == [pc |-> "save_session", sid |-> job[h].sid, sess |-> job[h].sess]
<1>1. /\ job[h].pc = "accept_invite_row" /\ job[h].id \in InviteIds
      /\ db_invites' = [db_invites EXCEPT ![job[h].id] = None]
      /\ Goto(h, j) /\ UNCHANGED <<invites, sessions, db_sessions, made, restarts>>
  BY LocalsAre DEF AcceptInviteRow, At, TypeOK, mem
<1>2. Asks(j) /\ Offers(j)
  BY DEF Asks, Offers
<1>3. \A i \in InviteIds : CarriedCall(j, i) = {}
  BY DEF CarriedCall
<1>4. \A s \in SessionIds : CarriedTalk(j, s) = CarriedTalk(job[h], s)
  BY <1>1 DEF CarriedTalk
<1>5. \A g \in Handlers : job'[g] = job[g] \/ job'[g] = j \/ job'[g] = Idle
  BY <1>1, CarriedBy
<1> HIDE DEF j
<1>6. CallsFade
  <2>1. \A k \in InviteIds : Call(db_invites'[k]) \subseteq CallCopies(k)
    BY <1>1, HeldNow, NothingRemembered DEF TypeOK
  <2>2. \A g \in Handlers, k \in InviteIds : CarriedCall(job'[g], k) \subseteq CallCopies(k)
    BY <1>3, <1>5, HeldNow, CarriedIs, SilentJob
  <2> QED BY <1>1, <2>1, <2>2, HeldNow, FadeBy
<1>7. TalksFade
  <2>1. \A g \in Handlers, s \in SessionIds : CarriedTalk(job'[g], s) \subseteq TalkCopies(s)
    BY <1>4, <1>5, HeldNow, CarriedIs, SilentJob
  <2> QED BY <1>1, <2>1, HeldNow, FadeBy
<1> QED BY <1>1, <1>2, <1>5, <1>6, <1>7, SilentJob, UnchangedKept DEF Held

----------------------------------------------------------------------------
\* The steps that hand out an id.

\* Of an id that is still to be handed out nothing is remembered.
LEMMA NothingOfNewIds ==
    ASSUME TypeOK, CoverInv
    PROVE  /\ made.invites + 1 \in InviteIds => CallCopies(made.invites + 1) = {}
           /\ made.sessions + 1 \in SessionIds => TalkCopies(made.sessions + 1) = {}
<1>1. /\ IdsHandedOut /\ made.invites \in Nat /\ made.sessions \in Nat
      /\ \A h \in Handlers : job[h] \in Job
  BY DEF CoverInv, TypeOK
<1>2. ASSUME made.invites + 1 \in InviteIds
      PROVE  CallCopies(made.invites + 1) = {}
  <2> DEFINE i == made.invites + 1
  <2>0. i \in InviteIds /\ ~ (i <= made.invites)
    BY <1>1, <1>2
  <2> HIDE DEF i
  <2>1. invites[i] = None /\ db_invites[i] = None
    BY <1>1, <2>0 DEF IdsHandedOut
  <2>2. ASSUME NEW h \in Handlers PROVE CarriedCall(job[h], i) = {}
    <3>1. job[h].pc \in {"create_row", "accept_close", "accept_insert"} => job[h].id # i
      BY <1>1, <2>0 DEF IdsHandedOut
    <3> QED BY <3>1, CarriedIs DEF CarriedCall
  <2>3. CallCopies(i) = {}
    BY <2>0, <2>1, <2>2, CallCopyIs, NothingRemembered
  <2> QED BY <2>3 DEF i
<1>3. ASSUME made.sessions + 1 \in SessionIds
      PROVE  TalkCopies(made.sessions + 1) = {}
  <2> DEFINE s == made.sessions + 1
  <2>0. s \in SessionIds /\ ~ (s <= made.sessions)
    BY <1>1, <1>3
  <2> HIDE DEF s
  <2>1. sessions[s] = None /\ db_sessions[s] = None
    BY <1>1, <2>0 DEF IdsHandedOut
  <2>2. ASSUME NEW h \in Handlers PROVE CarriedTalk(job[h], s) = {}
    <3>1. job[h].pc \in {"accept_invite_row", "save_session"} => job[h].sid # s
      BY <1>1, <2>0 DEF IdsHandedOut
    <3> QED BY <3>1, CarriedIs DEF CarriedTalk
  <2>3. TalkCopies(s) = {}
    BY <2>0, <2>1, <2>2, TalkCopyIs, NothingRemembered
  <2> QED BY <2>3 DEF s
<1> QED BY <1>2, <1>3

LEMMA CreateEnters ==
    ASSUME TypeOK, CoverInv, CallInv, NEW h \in Handlers, CreateInsert(h),
           NEW id, id = made.invites + 1
    PROVE  LET p == <<job[h].dog, job[h].to>>
           IN  /\ id \in InviteIds /\ p \in Bonds
               /\ CallCopies(id)' = {p}
               /\ \A i \in InviteIds : i # id => CallCopies(i)' = CallCopies(i)
               /\ \A s \in SessionIds : TalkCopies(s)' = TalkCopies(s)
<1> DEFINE p == <<job[h].dog, job[h].to>>
           inv == [from |-> job[h].dog, to |-> job[h].to, expires |-> clock + RingTimeout]
           j == [pc |-> "create_row", id |-> id, inv |-> inv]
<1>1. /\ job[h].pc = "create_insert" /\ job[h].dog \in Dogs /\ job[h].to \in Dogs
      /\ id \in InviteIds /\ p \in Bonds
  BY LocalsAre DEF CreateInsert, At, TypeOK, CallInv, Asks
<1>2. /\ invites' = [invites EXCEPT ![id] = inv]
      /\ Goto(h, OrDone(j))
      /\ UNCHANGED <<sessions, db_invites, db_sessions>>
  BY DEF CreateInsert, db
<1>3. Call(inv) = {p}
  <2>1. inv \in Invite
    <3>1. clock \in Nat
      BY DEF TypeOK
    <3>2. clock + RingTimeout \in Int
      BY <3>1, ConstantsAssumption
    <3> QED BY <1>1, <3>2 DEF Invite
  <2> QED BY <2>1, CallIs
<1>4. \A g \in Handlers : g # h => job'[g] = job[g]
  BY <1>2 DEF Goto, TypeOK
<1>5. job'[h] = j \/ job'[h] = Idle
  BY <1>2 DEF Goto, OrDone, TypeOK
<1>6. /\ \A i \in InviteIds : CarriedCall(j, i) = IF id = i THEN {p} ELSE {}
      /\ \A s \in SessionIds : CarriedTalk(j, s) = {}
  <2>1. j.pc = "create_row" /\ j.id = id /\ j.inv = inv
    OBVIOUS
  <2> HIDE DEF j, inv, p
  <2> QED BY <1>3, <2>1, CarriedIs
<1>7. CallCopies(id) = {}
  BY <1>1, NothingOfNewIds
<1> HIDE DEF p, inv, j
<1>8. /\ invites'[id] = inv
      /\ \A i \in InviteIds : i # id => invites'[i] = invites[i]
  BY <1>1, <1>2 DEF TypeOK
<1>9. ASSUME NEW i \in InviteIds, i # id PROVE CallCopies(i)' = CallCopies(i)
  <2>1. CarriedCall(job[h], i) = {} /\ CarriedCall(job'[h], i) = {}
    BY <1>1, <1>5, <1>6, <1>9, CarriedIs, SilentJob DEF Silent
  <2>2. \A q : q \in CallCopies(i)' <=> q \in CallCopies(i)
    <3> TAKE q
    <3>1. \A g \in Handlers : q \in CarriedCall(job'[g], i) <=> q \in CarriedCall(job[g], i)
      BY <1>4, <2>1
    <3> QED BY <1>2, <1>8, <1>9, <3>1, CallCopyIs, NextCallCopyIs
  <2> QED BY <2>2
<1>10. CallCopies(id)' = {p}
  <2>1. \A g \in Handlers : CarriedCall(job'[g], id) \subseteq {p}
    <3>1. CarriedCall(job'[h], id) \subseteq {p}
      BY <1>1, <1>5, <1>6, CarriedIs, SilentJob
    <3>2. \A g \in Handlers : g # h => CarriedCall(job'[g], id) = {}
      BY <1>1, <1>4, <1>7, HeldNow
    <3> QED BY <3>1, <3>2
  <2>2. db_invites'[id] = db_invites[id] /\ Call(db_invites[id]) = {}
    BY <1>1, <1>2, <1>7, HeldNow
  <2>3. p \in CallCopies(id)'
    <3>1. p \in Call(invites'[id])
      BY <1>3, <1>8
    <3> QED BY <1>1, <3>1, NextCallCopyIs
  <2>4. ASSUME NEW q \in CallCopies(id)' PROVE q = p
    <3>1. \/ q \in Call(invites'[id]) \/ q \in Call(db_invites'[id])
          \/ \E g \in Handlers : q \in CarriedCall(job'[g], id)
      BY <1>1, <2>4, NextCallCopyIs
    <3> QED BY <1>3, <1>8, <2>1, <2>2, <3>1
  <2> QED BY <2>3, <2>4
<1>11. ASSUME NEW s \in SessionIds PROVE TalkCopies(s)' = TalkCopies(s)
  <2>1. CarriedTalk(job[h], s) = {} /\ CarriedTalk(job'[h], s) = {}
    BY <1>1, <1>5, <1>6, CarriedIs, SilentJob DEF Silent
  <2>2. \A t : t \in TalkCopies(s)' <=> t \in TalkCopies(s)
    <3> TAKE t
    <3>1. \A g \in Handlers : t \in CarriedTalk(job'[g], s) <=> t \in CarriedTalk(job[g], s)
      BY <1>4, <2>1
    <3> QED BY <1>2, <3>1, TalkCopyIs, NextTalkCopyIs
  <2> QED BY <2>2
<1> QED BY <1>1, <1>9, <1>10, <1>11 DEF p

LEMMA AcceptEnters ==
    ASSUME TypeOK, CoverInv, CallInv, NEW h \in Handlers, AcceptInsert(h),
           NEW id, id = made.sessions + 1
    PROVE  LET sess == job[h].sess
           IN  /\ id \in SessionIds /\ sess \in Session
               /\ TalkCopies(id)' = Talk(sess)
               /\ \A s \in SessionIds : s # id => TalkCopies(s)' = TalkCopies(s)
               /\ CallsFade
               /\ <<sess.dog_a, sess.dog_b>> \in CallCopies(job[h].id)
<1> DEFINE sess == job[h].sess
           j == [pc |-> "accept_invite_row", id |-> job[h].id, sid |-> id, sess |-> sess]
<1>1. /\ job[h].pc = "accept_insert" /\ job[h].id \in InviteIds /\ sess \in Session
      /\ id \in SessionIds
  BY LocalsAre DEF AcceptInsert, At, TypeOK
<1>2. /\ sessions' = [sessions EXCEPT ![id] = sess]
      /\ Goto(h, OrDone(j))
      /\ UNCHANGED <<invites, db_invites, db_sessions>>
  BY DEF AcceptInsert, db
<1>3. \A g \in Handlers : g # h => job'[g] = job[g]
  BY <1>2 DEF Goto, TypeOK
<1>4. job'[h] = j \/ job'[h] = Idle
  BY <1>2 DEF Goto, OrDone, TypeOK
<1>5. /\ \A s \in SessionIds : CarriedTalk(j, s) = IF id = s THEN Talk(sess) ELSE {}
      /\ \A i \in InviteIds : CarriedCall(j, i) = {}
  <2>1. j.pc = "accept_invite_row" /\ j.sid = id /\ j.sess = sess
    OBVIOUS
  <2> HIDE DEF j, sess
  <2> QED BY <2>1, CarriedIs
<1>6. TalkCopies(id) = {}
  BY <1>1, NothingOfNewIds
<1>7. <<sess.dog_a, sess.dog_b>> \in CallCopies(job[h].id)
  BY <1>1, HeldNow, CarriedIs
<1> HIDE DEF sess, j
<1>8. /\ sessions'[id] = sess
      /\ \A s \in SessionIds : s # id => sessions'[s] = sessions[s]
  BY <1>1, <1>2 DEF TypeOK
<1>9. ASSUME NEW s \in SessionIds, s # id PROVE TalkCopies(s)' = TalkCopies(s)
  <2>1. CarriedTalk(job[h], s) = {} /\ CarriedTalk(job'[h], s) = {}
    BY <1>1, <1>4, <1>5, <1>9, CarriedIs, SilentJob
  <2>2. \A t : t \in TalkCopies(s)' <=> t \in TalkCopies(s)
    <3> TAKE t
    <3>1. \A g \in Handlers : t \in CarriedTalk(job'[g], s) <=> t \in CarriedTalk(job[g], s)
      BY <1>3, <2>1
    <3> QED BY <1>2, <1>8, <1>9, <3>1, TalkCopyIs, NextTalkCopyIs
  <2> QED BY <2>2
<1>10. TalkCopies(id)' = Talk(sess)
  <2>1. \A g \in Handlers : CarriedTalk(job'[g], id) \subseteq Talk(sess)
    <3>1. CarriedTalk(job'[h], id) \subseteq Talk(sess)
      BY <1>1, <1>4, <1>5, CarriedIs, SilentJob
    <3>2. \A g \in Handlers : g # h => CarriedTalk(job'[g], id) = {}
      BY <1>1, <1>3, <1>6, HeldNow
    <3> QED BY <3>1, <3>2
  <2>2. db_sessions'[id] = db_sessions[id] /\ Talk(db_sessions[id]) = {}
    BY <1>1, <1>2, <1>6, HeldNow
  <2>3. ASSUME NEW t \in Talk(sess) PROVE t \in TalkCopies(id)'
    <3>1. t \in Talk(sessions'[id])
      BY <1>8, <2>3
    <3> QED BY <1>1, <3>1, NextTalkCopyIs
  <2>4. ASSUME NEW t \in TalkCopies(id)' PROVE t \in Talk(sess)
    <3>1. \/ t \in Talk(sessions'[id]) \/ t \in Talk(db_sessions'[id])
          \/ \E g \in Handlers : t \in CarriedTalk(job'[g], id)
      BY <1>1, <2>4, NextTalkCopyIs
    <3> QED BY <1>8, <2>1, <2>2, <3>1
  <2> QED BY <2>3, <2>4
<1>11. CallsFade
  <2>1. \A g \in Handlers, i \in InviteIds : CarriedCall(job'[g], i) \subseteq CallCopies(i)
    <3>1. \A i \in InviteIds : CarriedCall(job'[h], i) = {}
      BY <1>4, <1>5, CarriedIs, SilentJob
    <3> QED BY <1>3, <3>1, HeldNow
  <2> QED BY <1>2, <2>1, HeldNow, FadeBy
<1> QED BY <1>1, <1>7, <1>9, <1>10, <1>11 DEF sess

----------------------------------------------------------------------------
\* A crash and its restart.

LEMMA RestartFades ==
    ASSUME TypeOK, Restart
    PROVE  /\ CallsFade /\ TalksFade
           /\ \A h \in Handlers : job'[h] = Idle
           /\ \A i \in InviteIds : invites'[i] \in {db_invites[i], None}
           /\ \A s \in SessionIds :
                 \/ sessions'[s] = None
                 \/ db_sessions[s] \in Session /\ sessions'[s] = Restored(db_sessions[s])
<1>1. PICK sids \in Loaded(SessionRows) :
         sessions' = [s \in SessionIds |-> IF s \in sids THEN Restored(db_sessions[s]) ELSE None]
  BY DEF Restart
<1>2. \A s \in sids : s \in SessionIds /\ db_sessions[s] \in Session
  BY <1>1 DEF Loaded, Fits, SessionRows, TypeOK
<1>3. \A s \in SessionIds : \/ sessions'[s] = None
                            \/ db_sessions[s] \in Session /\ sessions'[s] = Restored(db_sessions[s])
  BY <1>1, <1>2
<1>4. ASSUME NEW r \in Session PROVE Talk(Restored(r)) = Talk(r)
  <2>1. Restored(r) \in Session
    BY DEF Restored, Session, States
  <2>2. LET q == Restored(r)
        IN  /\ q.invite = r.invite /\ q.dog_a = r.dog_a /\ q.dog_b = r.dog_b
            /\ q.started = r.started /\ q.max_end = r.max_end
    BY DEF Restored, Session
  <2> QED BY <2>1, <2>2, SameTalk
<1>5. /\ \A h \in Handlers : job'[h] = Idle
      /\ \A i \in InviteIds : invites'[i] \in {db_invites[i], None}
      /\ UNCHANGED <<db_invites, db_sessions>>
  BY DEF Restart, db
<1>6. \A g \in Handlers :
         /\ \A i \in InviteIds : CarriedCall(job'[g], i) = {}
         /\ \A s \in SessionIds : CarriedTalk(job'[g], s) = {}
  BY <1>5, CarriedIs, SilentJob
<1>7. CallsFade
  <2>1. \A i \in InviteIds : Call(invites'[i]) \subseteq CallCopies(i)
    BY <1>5, HeldNow, NothingRemembered
  <2> QED BY <1>5, <1>6, <2>1, HeldNow, FadeBy
<1>8. TalksFade
  <2>1. \A s \in SessionIds : Talk(sessions'[s]) \subseteq TalkCopies(s)
    BY <1>3, <1>4, HeldNow, NothingRemembered
  <2> QED BY <1>5, <1>6, <2>1, HeldNow, FadeBy
<1> QED BY <1>3, <1>5, <1>7, <1>8

----------------------------------------------------------------------------
\* The copies agree.

LEMMA InitCalls == Init => CallInv
<1> SUFFICES ASSUME Init PROVE CallInv
  OBVIOUS
<1>1. \A h \in Handlers : job[h] = Idle
  BY DEF Init
<1>2. \A i \in InviteIds : CallCopies(i) = {}
  BY <1>1, CallCopyIs, NothingRemembered, CarriedIs, SilentJob DEF Init
<1>3. \A s \in SessionIds : TalkCopies(s) = {}
  BY <1>1, TalkCopyIs, NothingRemembered, CarriedIs, SilentJob DEF Init
<1> QED BY <1>1, <1>2, <1>3, SilentJob DEF CallInv, Agree, BondedCopies

LEMMA FadeKeeps ==
    ASSUME CallInv, CallsFade, TalksFade,
           \A g \in Handlers : job'[g] = job[g] \/ (Asks(job'[g]) /\ Offers(job'[g]))
    PROVE  CallInv'
<1>1. Agree'
  BY DEF CallInv, Agree, CallsFade, TalksFade
<1>2. BondedCopies'
  BY DEF CallInv, BondedCopies, CallsFade, TalksFade
<1>3. \A g \in Handlers : Asks(job'[g]) /\ Offers(job'[g])
  BY DEF CallInv
<1> QED BY <1>1, <1>2, <1>3 DEF CallInv

LEMMA CreateKeeps ==
    ASSUME TypeOK, CoverInv, CallInv, NEW h \in Handlers, CreateInsert(h)
    PROVE  CallInv'
<1> DEFINE p == <<job[h].dog, job[h].to>>
<1>1. PICK id : id = made.invites + 1
  OBVIOUS
<1>2. /\ id \in InviteIds /\ p \in Bonds
      /\ CallCopies(id)' = {p}
      /\ \A i \in InviteIds : i # id => CallCopies(i)' = CallCopies(i)
      /\ \A s \in SessionIds : TalkCopies(s)' = TalkCopies(s)
  BY <1>1, CreateEnters
<1> HIDE DEF p
<1>3. Agree' /\ BondedCopies'
  BY <1>2 DEF CallInv, Agree, BondedCopies
<1>4. \A g \in Handlers : Asks(job'[g]) /\ Offers(job'[g])
  BY DEF CreateInsert, Goto, OrDone, Idle, TypeOK, CallInv, Asks, Offers
<1> QED BY <1>3, <1>4 DEF CallInv

LEMMA AcceptKeeps ==
    ASSUME TypeOK, CoverInv, CallInv, NEW h \in Handlers, AcceptInsert(h)
    PROVE  CallInv'
<1> DEFINE sess == job[h].sess
<1>1. PICK id : id = made.sessions + 1
  OBVIOUS
<1>2. /\ id \in SessionIds /\ sess \in Session
      /\ TalkCopies(id)' = Talk(sess)
      /\ \A s \in SessionIds : s # id => TalkCopies(s)' = TalkCopies(s)
      /\ CallsFade
      /\ <<sess.dog_a, sess.dog_b>> \in CallCopies(job[h].id)
  BY <1>1, AcceptEnters
<1>3. job[h].id \in InviteIds
  BY LocalsAre DEF AcceptInsert, At, TypeOK
<1>4. <<sess.dog_a, sess.dog_b>> \in Bonds
  BY <1>2, <1>3 DEF CallInv, BondedCopies
<1> HIDE DEF sess
<1> DEFINE t == [invite |-> sess.invite, dogs |-> <<sess.dog_a, sess.dog_b>>,
                 started |-> sess.started, max_end |-> sess.max_end]
<1>5. Talk(sess) = {t} /\ t.dogs \in Bonds
  BY <1>2, <1>4, TalkIs
<1> HIDE DEF t
<1>6. Agree' /\ BondedCopies'
  BY <1>2, <1>5 DEF CallInv, Agree, BondedCopies, CallsFade
<1>7. \A g \in Handlers : Asks(job'[g]) /\ Offers(job'[g])
  BY DEF AcceptInsert, Goto, OrDone, Idle, TypeOK, CallInv, Asks, Offers
<1> QED BY <1>6, <1>7 DEF CallInv

\* What every step is, for what is remembered.
LEMMA StepIs ==
    ASSUME TypeOK, CallInv, [Next]_vars
    PROVE  \/ Plain \/ Restart
           \/ \E h \in Handlers :
                 \/ CreateInsert(h) \/ AcceptInsert(h)
                 \/ \E i \in InviteIds : AcceptGet(h, i)
                 \/ \E s \in SessionIds, d \in Dogs, ready \in BOOLEAN : MediaReady(h, s, d, ready)
                 \/ CreateRow(h) \/ AcceptClose(h) \/ AcceptInviteRow(h)
                 \/ SaveSession(h) \/ AgainUpdate(h)
<1>1. CASE Tick \/ Second \/ UNCHANGED vars
  BY <1>1, PlainTick
<1>2. ASSUME NEW h \in Handlers, Request(h)
      PROVE  \/ Plain
             \/ \E i \in InviteIds : AcceptGet(h, i)
             \/ \E s \in SessionIds, d \in Dogs, ready \in BOOLEAN : MediaReady(h, s, d, ready)
  BY <1>2, PlainRequest
<1>3. ASSUME NEW h \in Handlers, Step(h)
      PROVE  \/ Plain
             \/ CreateInsert(h) \/ CreateRow(h) \/ AcceptClose(h) \/ AcceptInsert(h)
             \/ AcceptInviteRow(h) \/ SaveSession(h) \/ AgainUpdate(h)
  BY <1>3, PlainStep
<1>4. ASSUME NEW h \in Handlers, Drop(h) PROVE Plain
  <2>1. /\ UNCHANGED <<invites, sessions, db_invites, db_sessions, made, restarts>>
        /\ job'[h].pc = "idle" /\ \A g \in Handlers \ {h} : job'[g] = job[g]
    BY <1>4, DropIs DEF TypeOK
  <2> QED BY <2>1, UnchangedKept DEF Plain, Silent, Asks
<1> QED BY <1>1, <1>2, <1>3, <1>4 DEF Next

LEMMA CallsStepped ==
    ASSUME TypeOK, CoverInv, CallInv, [Next]_vars
    PROVE  CallInv'
<1>1. Held => CallInv'
  BY FadeKeeps DEF Held
<1>2. Restart => CallInv'
  BY RestartFades, FadeKeeps, SilentJob
<1>3. ASSUME NEW h \in Handlers,
             \/ \E i \in InviteIds : AcceptGet(h, i)
             \/ \E s \in SessionIds, d \in Dogs, ready \in BOOLEAN : MediaReady(h, s, d, ready)
             \/ CreateRow(h) \/ AcceptClose(h) \/ AcceptInviteRow(h)
             \/ SaveSession(h) \/ AgainUpdate(h)
      PROVE  Held
  BY <1>3, AcceptGetHolds, MediaReadyHolds, CreateRowHolds, AcceptCloseHolds,
     AcceptInviteRowHolds, SaveHolds, AgainHolds
<1>4. ASSUME NEW h \in Handlers, CreateInsert(h) \/ AcceptInsert(h)
      PROVE  CallInv'
  BY <1>4, CreateKeeps, AcceptKeeps
<1> QED BY <1>1, <1>2, <1>3, <1>4, PlainHeld, StepIs

----------------------------------------------------------------------------
\* DeviceApi implements CallBook.

LEMMA BookIs ==
    /\ \A i \in InviteIds : RememberedCalls[i] = CallCopies(i)
    /\ \A s \in SessionIds : RememberedTalks[s] = TalkCopies(s)
    /\ \A i \in InviteIds : RememberedCalls'[i] = CallCopies(i)'
    /\ \A s \in SessionIds : RememberedTalks'[s] = TalkCopies(s)'
  BY DEF RememberedCalls, RememberedTalks

\* The state of a session, for the book.
Stage(sess) ==
    IF sess = None THEN [state |-> "Gone", media_a |-> FALSE, media_b |-> FALSE]
    ELSE [state |-> sess.state, media_a |-> sess.media_a, media_b |-> sess.media_b]

LEMMA LiveIs ==
    /\ LiveNow = [s \in SessionIds |-> Stage(sessions[s])]
    /\ LiveNow' = [s \in SessionIds |-> Stage(sessions'[s])]
  BY DEF LiveNow, Stage

LEMMA StageGone ==
    /\ Stage(None) = Book!Gone
    /\ \A r \in Session : Stage(r) # Book!Gone
  BY ConstantsAssumption DEF Stage, Book!Gone, Session, States

LEMMA StateSet ==
    ASSUME NEW old, NEW st, NEW a, NEW b
    PROVE  [[state |-> old, media_a |-> a, media_b |-> b] EXCEPT !.state = st]
             = [state |-> st, media_a |-> a, media_b |-> b]
  OBVIOUS

LEMMA HeardIs ==
    ASSUME NEW st, NEW a \in BOOLEAN, NEW b \in BOOLEAN
    PROVE  Book!Heard([state |-> st, media_a |-> a, media_b |-> b])
             = [state |-> IF a /\ b THEN "Active" ELSE st, media_a |-> a, media_b |-> b]
<1>1. CASE a /\ b
  <2> DEFINE l == [state |-> st, media_a |-> a, media_b |-> b]
  <2>1. l.media_a /\ l.media_b
    BY <1>1
  <2>2. [l EXCEPT !.state = "Active"] = [state |-> "Active", media_a |-> a, media_b |-> b]
    BY StateSet
  <2> HIDE DEF l
  <2>3. Book!Heard(l) = [l EXCEPT !.state = "Active"]
    BY <2>1 DEF Book!Heard
  <2> QED BY <1>1, <2>2, <2>3 DEF l
<1>2. CASE ~ (a /\ b)
  BY <1>2 DEF Book!Heard
<1> QED BY <1>1, <1>2

LEMMA LiveMembers ==
    ASSUME TypeOK
    PROVE  \A s \in SessionIds : s \in Book!Live <=> sessions[s] # None
<1>1. \A s \in SessionIds : sessions[s] \in Session \cup {None}
  BY DEF TypeOK
<1> QED BY <1>1, LiveIs, StageGone DEF Book!Live

LEMMA NextLiveMembers ==
    ASSUME TypeOK'
    PROVE  \A s \in SessionIds : s \in Book!Live' <=> sessions'[s] # None
<1>1. \A s \in SessionIds : sessions'[s] \in Session \cup {None}
  BY DEF TypeOK
<1> QED BY <1>1, LiveIs, StageGone DEF Book!Live

\* What rings or is live is remembered, and nothing else is remembered of its id.
OnlyTheirs ==
    /\ \A i \in InviteIds : invites[i] # None =>
          CallCopies(i) = {<<invites[i].from, invites[i].to>>}
    /\ \A s \in SessionIds : sessions[s] # None =>
          /\ TalkCopies(s) = Talk(sessions[s])
          /\ TalkCopies(s) # {}
          /\ \A t \in TalkCopies(s) : t.dogs = <<sessions[s].dog_a, sessions[s].dog_b>>

LEMMA OnlyCopies ==
    ASSUME TypeOK, Agree
    PROVE  OnlyTheirs
<1>1. ASSUME NEW i \in InviteIds, invites[i] # None
      PROVE  CallCopies(i) = {<<invites[i].from, invites[i].to>>}
  <2>1. invites[i] \in Invite
    BY <1>1 DEF TypeOK
  <2>2. <<invites[i].from, invites[i].to>> \in CallCopies(i)
    BY <2>1, CallIs, HeldNow
  <2> QED BY <2>2 DEF Agree
<1>2. ASSUME NEW s \in SessionIds, sessions[s] # None
      PROVE  /\ TalkCopies(s) = Talk(sessions[s])
             /\ TalkCopies(s) # {}
             /\ \A t \in TalkCopies(s) : t.dogs = <<sessions[s].dog_a, sessions[s].dog_b>>
  <2> DEFINE t == [invite |-> sessions[s].invite,
                   dogs |-> <<sessions[s].dog_a, sessions[s].dog_b>>,
                   started |-> sessions[s].started, max_end |-> sessions[s].max_end]
  <2>1. sessions[s] \in Session
    BY <1>2 DEF TypeOK
  <2>2. Talk(sessions[s]) = {t} /\ t.dogs = <<sessions[s].dog_a, sessions[s].dog_b>>
    BY <2>1, TalkIs
  <2> HIDE DEF t
  <2>3. t \in TalkCopies(s)
    BY <2>2, HeldNow
  <2> QED BY <2>2, <2>3 DEF Agree
<1> QED BY <1>1, <1>2 DEF OnlyTheirs

LEMMA NextOnlyCopies == TypeOK' /\ Agree' => OnlyTheirs'
<1>1. TypeOK /\ Agree => OnlyTheirs
  BY OnlyCopies
<1> QED BY <1>1, PTL

LEMMA Forgets ==
    ASSUME TypeOK', Agree, Agree'
    PROVE  /\ CallsFade => Book!ForgetCalls
           /\ TalksFade => Book!ForgetTalks
<1>1. ASSUME CallsFade PROVE Book!ForgetCalls
  <2>1. ASSUME NEW i \in InviteIds
        PROVE  CallCopies(i)' = CallCopies(i) \/ (CallCopies(i)' = {} /\ i \notin RingingNow')
    <3>1. CallCopies(i)' = CallCopies(i) \/ CallCopies(i)' = {}
      BY <1>1 DEF CallsFade, Agree
    <3>2. i \in RingingNow' => CallCopies(i)' # {}
      BY NextOnlyCopies DEF RingingNow, OnlyTheirs
    <3> QED BY <3>1, <3>2
  <2> QED BY <2>1, BookIs DEF Book!ForgetCalls
<1>2. ASSUME TalksFade PROVE Book!ForgetTalks
  <2>1. ASSUME NEW s \in SessionIds
        PROVE  TalkCopies(s)' = TalkCopies(s) \/ (TalkCopies(s)' = {} /\ LiveNow'[s] = Book!Gone)
    <3>1. TalkCopies(s)' = TalkCopies(s) \/ TalkCopies(s)' = {}
      BY <1>2 DEF TalksFade, Agree
    <3>2. sessions'[s] # None => TalkCopies(s)' # {}
      BY NextOnlyCopies DEF OnlyTheirs
    <3>3. sessions'[s] = None => LiveNow'[s] = Book!Gone
      BY LiveIs, StageGone
    <3> QED BY <3>1, <3>2, <3>3
  <2> QED BY <2>1, BookIs DEF Book!ForgetTalks
<1> QED BY <1>1, <1>2

\* Nothing of the book but what is remembered, and what rings, changes.
LEMMA HeldHushes ==
    ASSUME TypeOK', Agree, Agree', Held, LiveNow' = LiveNow
    PROVE  Book!Hush
<1>1. RingingNow' \subseteq RingingNow
  BY DEF Held, InvitesKept, RingingNow
<1> QED BY <1>1, Forgets DEF Held, Book!Hush

LEMMA PlainSimulates ==
    ASSUME TypeOK, TypeOK', Agree, Agree', Plain
    PROVE  Book!Next
<1>1. Held
  BY PlainHeld
<1>2. CASE sessions' = sessions
  <2>1. LiveNow' = LiveNow
    BY <1>2, LiveIs
  <2> QED BY <1>1, <2>1, HeldHushes DEF Book!Next
<1>3. ASSUME NEW s \in SessionIds, sessions' = [sessions EXCEPT ![s] = None], invites' = invites
      PROVE  Book!Next
  <2>1. LiveNow' = [LiveNow EXCEPT ![s] = Book!Gone]
    <3>1. \A r \in SessionIds : sessions'[r] = IF r = s THEN None ELSE sessions[r]
      BY <1>3 DEF TypeOK
    <3> QED BY <3>1, LiveIs, StageGone
  <2>2. RingingNow' = RingingNow
    BY <1>3 DEF RingingNow
  <2>3. Book!ForgetCalls /\ Book!ForgetTalks /\ UNCHANGED <<made, restarts>>
    BY <1>1, Forgets DEF Held
  <2>4. Book!Part(s)
    BY <2>1, <2>2, <2>3 DEF Book!Part
  <2> QED BY <2>4 DEF Book!Next
<1> QED BY <1>2, <1>3 DEF Plain

LEMMA AgainSimulates ==
    ASSUME TypeOK, TypeOK', Agree, Agree', NEW h \in Handlers, AgainUpdate(h)
    PROVE  Book!Next
<1> DEFINE s == job[h].sid
           new == [sessions[s] EXCEPT !.deadline = job[h].deadline]
<1>1. s \in SessionIds /\ sessions[s] # None /\ sessions[s] \in Session /\ job[h].deadline \in Int
  BY LocalsAre DEF AgainUpdate, At, TypeOK
<1>2. sessions' = [sessions EXCEPT ![s] = new]
  BY DEF AgainUpdate
<1>3. new \in Session /\ new.state = sessions[s].state
      /\ new.media_a = sessions[s].media_a /\ new.media_b = sessions[s].media_b
  BY <1>1 DEF Session
<1> HIDE DEF s, new
<1>4. Stage(new) = Stage(sessions[s])
  BY <1>1, <1>3, ConstantsAssumption DEF Stage
<1>5. \A r \in SessionIds : Stage(sessions'[r]) = Stage(sessions[r])
  BY <1>1, <1>2, <1>4 DEF TypeOK
<1>6. LiveNow' = LiveNow
  BY <1>5, LiveIs
<1> QED BY <1>6, AgainHolds, HeldHushes DEF Book!Next

\* A report adds copies of the session that it changes, and takes none away.
LEMMA ReportSimulates ==
    ASSUME TypeOK, TypeOK', Agree, Agree', NEW h \in Handlers,
           NEW s \in SessionIds, NEW d \in Dogs, NEW ready \in BOOLEAN, MediaReady(h, s, d, ready)
    PROVE  Book!Next
<1> DEFINE new == Reported(sessions[s], d, ready)
<1>2. /\ sessions' = [sessions EXCEPT ![s] = new]
      /\ UNCHANGED <<invites, db_invites, db_sessions, made, restarts>>
      /\ job[h].pc = "idle"
      /\ \A g \in Handlers : g # h => job'[g] = job[g]
  BY DEF MediaReady, db, Receive, At, Goto, TypeOK
<1>3. Held
  BY MediaReadyHolds
<1>4. sessions[s] # None /\ sessions[s] \in Session
  BY DEF MediaReady, TypeOK
<1>5. new \in Session /\ Talk(new) = Talk(sessions[s])
  <2>1. new \in Session
    BY <1>4 DEF Reported, Session, States
  <2>2. /\ new.invite = sessions[s].invite
        /\ new.dog_a = sessions[s].dog_a /\ new.dog_b = sessions[s].dog_b
        /\ new.started = sessions[s].started /\ new.max_end = sessions[s].max_end
    BY <1>4 DEF Reported, Session
  <2> HIDE DEF new
  <2> QED BY <1>4, <2>1, <2>2, SameTalk
<1>6. /\ \/ new.media_a = ready /\ new.media_b = sessions[s].media_b
         \/ new.media_b = ready /\ new.media_a = sessions[s].media_a
      /\ new.state = IF new.media_a /\ new.media_b THEN "Active" ELSE sessions[s].state
  BY <1>4 DEF Reported, Session
<1> HIDE DEF new
<1>7. RingingNow' = RingingNow
  BY <1>2 DEF RingingNow
<1>8. Silent(job[h])
  BY <1>2 DEF Silent
<1>9. RememberedCalls' = RememberedCalls
  <2>1. ASSUME NEW i \in InviteIds PROVE CallCopies(i)' = CallCopies(i)
    <3>1. CallCopies(i)' \subseteq CallCopies(i)
      BY <1>3 DEF Held, CallsFade
    <3>2. ASSUME NEW p \in CallCopies(i) PROVE p \in CallCopies(i)'
      <4>1. \/ p \in Call(invites'[i]) \/ p \in Call(db_invites'[i])
            \/ \E g \in Handlers : p \in CarriedCall(job[g], i)
        BY <1>2, <3>2, CallCopyIs
      <4>2. \A g \in Handlers : p \in CarriedCall(job[g], i) => p \in CarriedCall(job'[g], i)
        BY <1>2, <1>8, CarriedIs
      <4> QED BY <4>1, <4>2, NextCallCopyIs
    <3> QED BY <3>1, <3>2
  <2> QED BY <2>1 DEF RememberedCalls
<1>10. RememberedTalks' = RememberedTalks
  <2>0. \A r \in SessionIds : Talk(sessions'[r]) = Talk(sessions[r])
    BY <1>2, <1>5 DEF TypeOK
  <2>1. ASSUME NEW r \in SessionIds PROVE TalkCopies(r)' = TalkCopies(r)
    <3>1. TalkCopies(r)' \subseteq TalkCopies(r)
      BY <1>3 DEF Held, TalksFade
    <3>2. ASSUME NEW t \in TalkCopies(r) PROVE t \in TalkCopies(r)'
      <4>1. \/ t \in Talk(sessions'[r]) \/ t \in Talk(db_sessions'[r])
            \/ \E g \in Handlers : t \in CarriedTalk(job[g], r)
        BY <1>2, <2>0, <3>2, TalkCopyIs
      <4>2. \A g \in Handlers : t \in CarriedTalk(job[g], r) => t \in CarriedTalk(job'[g], r)
        BY <1>2, <1>8, CarriedIs
      <4> QED BY <4>1, <4>2, NextTalkCopyIs
    <3> QED BY <3>1, <3>2
  <2> QED BY <2>1 DEF RememberedTalks
<1>11. \A r \in SessionIds : Stage(sessions'[r]) = IF r = s THEN Stage(new) ELSE Stage(sessions[r])
  BY <1>2 DEF TypeOK
<1>12. LiveNow' = [LiveNow EXCEPT ![s] = Stage(new)]
  BY <1>11, LiveIs
<1>13. LiveNow[s] = Stage(sessions[s])
  BY LiveIs
<1>14. \/ Stage(new) = Book!Heard([LiveNow[s] EXCEPT !.media_a = ready])
       \/ Stage(new) = Book!Heard([LiveNow[s] EXCEPT !.media_b = ready])
  <2>1. Stage(new) = [state |-> new.state, media_a |-> new.media_a, media_b |-> new.media_b]
    BY <1>5, ConstantsAssumption DEF Stage
  <2>2. Stage(sessions[s]) = [state |-> sessions[s].state, media_a |-> sessions[s].media_a,
                              media_b |-> sessions[s].media_b]
    BY <1>4, ConstantsAssumption DEF Stage
  <2> DEFINE l == [state |-> sessions[s].state, media_a |-> sessions[s].media_a,
                   media_b |-> sessions[s].media_b]
  <2>3. LiveNow[s] = l
    BY <1>13, <2>2
  <2>4. CASE new.media_a = ready /\ new.media_b = sessions[s].media_b
    <3>1. [l EXCEPT !.media_a = ready] =
             [state |-> sessions[s].state, media_a |-> new.media_a, media_b |-> new.media_b]
      BY <2>4
    <3>2. Book!Heard([l EXCEPT !.media_a = ready]) = Stage(new)
      BY <1>5, <1>6, <2>1, <3>1, HeardIs DEF Session
    <3> QED BY <2>3, <3>2
  <2>5. CASE new.media_b = ready /\ new.media_a = sessions[s].media_a
    <3>1. [l EXCEPT !.media_b = ready] =
             [state |-> sessions[s].state, media_a |-> new.media_a, media_b |-> new.media_b]
      BY <2>5
    <3>2. Book!Heard([l EXCEPT !.media_b = ready]) = Stage(new)
      BY <1>5, <1>6, <2>1, <3>1, HeardIs DEF Session
    <3> QED BY <2>3, <3>2
  <2> QED BY <1>6, <2>4, <2>5
<1>15. s \in Book!Live
  BY <1>4, LiveMembers
<1>16. Book!Report(s)
  BY <1>2, <1>7, <1>9, <1>10, <1>12, <1>14, <1>15 DEF Book!Report
<1> QED BY <1>16 DEF Book!Next

LEMMA CreateSimulates ==
    ASSUME TypeOK, TypeOK', CoverInv, CallInv, NEW h \in Handlers, CreateInsert(h)
    PROVE  Book!Next
<1> DEFINE p == <<job[h].dog, job[h].to>>
           inv == [from |-> job[h].dog, to |-> job[h].to, expires |-> clock + RingTimeout]
<1>1. PICK id : id = made.invites + 1
  OBVIOUS
<1>2. /\ id \in InviteIds /\ p \in Bonds
      /\ CallCopies(id)' = {p}
      /\ \A i \in InviteIds : i # id => CallCopies(i)' = CallCopies(i)
      /\ \A s \in SessionIds : TalkCopies(s)' = TalkCopies(s)
  BY <1>1, CreateEnters
<1>3. /\ invites' = [invites EXCEPT ![id] = inv] /\ invites'[id] = inv
      /\ made' = [made EXCEPT !.invites = id]
      /\ UNCHANGED <<sessions, restarts>>
      /\ ~ Ringing(job[h].dog) /\ ~ Ringing(job[h].to)
  BY <1>1, <1>2 DEF CreateInsert, TypeOK
<1>4. invites'[id] # None
  <2>1. /\ job[h].dog \in Dogs /\ job[h].to \in Dogs /\ clock + RingTimeout \in Int
    BY LocalsAre, ConstantsAssumption DEF CreateInsert, At, TypeOK
  <2>2. inv \in Invite
    BY <2>1 DEF Invite
  <2> HIDE DEF inv
  <2> QED BY <1>3, <2>2, ConstantsAssumption
<1> HIDE DEF inv
<1>5. RingingNow' = RingingNow \cup {id}
  BY <1>2, <1>3, <1>4 DEF RingingNow, TypeOK
<1>6. LiveNow' = LiveNow
  BY <1>3, LiveIs
<1>7. RememberedCalls' = [RememberedCalls EXCEPT ![id] = {p}]
  <2>1. \A i \in InviteIds : CallCopies(i)' = IF i = id THEN {p} ELSE CallCopies(i)
    BY <1>2
  <2> HIDE DEF p
  <2> QED BY <2>1 DEF RememberedCalls
<1>8. RememberedTalks' = RememberedTalks
  BY <1>2 DEF RememberedTalks
<1>9. ASSUME NEW j \in RingingNow, NEW q \in RememberedCalls[j] PROVE Book!Disjoint(p, q)
  <2>1. j \in InviteIds /\ invites[j] # None
    BY <1>9 DEF RingingNow
  <2>2. q = <<invites[j].from, invites[j].to>>
    BY <1>9, <2>1, BookIs, OnlyCopies DEF CallInv, OnlyTheirs
  <2>3. {job[h].dog, job[h].to} \cap {invites[j].from, invites[j].to} = {}
    BY <1>3, <2>1 DEF Ringing
  <2> QED BY <2>2, <2>3 DEF Book!Disjoint
<1>10. \E r \in Bonds :
          /\ \A j \in RingingNow : \A q \in RememberedCalls[j] : Book!Disjoint(r, q)
          /\ RememberedCalls' = [RememberedCalls EXCEPT ![id] = {r}]
  <2> HIDE DEF p
  <2> QED BY <1>2, <1>7, <1>9
<1>11. Book!Ring(id)
  BY <1>1, <1>3, <1>5, <1>6, <1>8, <1>10 DEF Book!Ring
<1> QED BY <1>2, <1>11 DEF Book!Next

LEMMA AcceptSimulates ==
    ASSUME TypeOK, TypeOK', CoverInv, CallInv, CallInv', NEW h \in Handlers, AcceptInsert(h)
    PROVE  Book!Next
<1> DEFINE sess == job[h].sess
           t == [invite |-> sess.invite, dogs |-> <<sess.dog_a, sess.dog_b>>,
                 started |-> sess.started, max_end |-> sess.max_end]
<1>1. PICK id : id = made.sessions + 1
  OBVIOUS
<1>2. /\ id \in SessionIds /\ sess \in Session
      /\ TalkCopies(id)' = Talk(sess)
      /\ \A s \in SessionIds : s # id => TalkCopies(s)' = TalkCopies(s)
      /\ CallsFade
      /\ <<sess.dog_a, sess.dog_b>> \in CallCopies(job[h].id)
  BY <1>1, AcceptEnters
<1>3. /\ sessions' = [sessions EXCEPT ![id] = sess]
      /\ made' = [made EXCEPT !.sessions = id]
      /\ UNCHANGED <<invites, restarts>>
      /\ ~ InSession(sess.dog_a) /\ ~ InSession(sess.dog_b)
  BY <1>1 DEF AcceptInsert
<1>4. /\ job[h].id \in InviteIds /\ sess.invite = job[h].id
      /\ sess.state = "Negotiating" /\ sess.media_a = FALSE /\ sess.media_b = FALSE
  <2>1. job[h].pc = "accept_insert" /\ job[h].id \in InviteIds
    BY LocalsAre DEF AcceptInsert, At, TypeOK
  <2>2. sess.invite = job[h].id /\ sess.state = "Negotiating" /\ ~ sess.media_a /\ ~ sess.media_b
    BY <2>1 DEF CallInv, Offers
  <2> QED BY <1>2, <2>1, <2>2 DEF Session
<1> HIDE DEF sess
<1>5. Talk(sess) = {t} /\ t.invite = job[h].id /\ t.dogs = <<sess.dog_a, sess.dog_b>>
  BY <1>2, <1>4, TalkIs
<1> HIDE DEF t
<1>6. RememberedTalks' = [RememberedTalks EXCEPT ![id] = {t}]
  <2>1. \A s \in SessionIds : TalkCopies(s)' = IF s = id THEN {t} ELSE TalkCopies(s)
    BY <1>2, <1>5
  <2> QED BY <2>1 DEF RememberedTalks
<1>7. RememberedTalks'[id] = {t}
  BY <1>2, <1>5, BookIs
<1>8. RememberedCalls[t.invite] = {t.dogs}
  <2>1. t.dogs \in CallCopies(job[h].id)
    BY <1>2, <1>5
  <2>2. CallCopies(job[h].id) = {t.dogs}
    BY <1>4, <2>1 DEF CallInv, Agree
  <2> QED BY <1>4, <1>5, <2>2, BookIs
<1>9. ASSUME NEW r \in Book!Live, NEW u \in RememberedTalks[r] PROVE Book!Disjoint(t.dogs, u.dogs)
  <2>1. r \in SessionIds /\ sessions[r] # None
    BY <1>9, LiveMembers DEF Book!Live
  <2>2. u.dogs = <<sessions[r].dog_a, sessions[r].dog_b>>
    BY <1>9, <2>1, BookIs, OnlyCopies DEF CallInv, OnlyTheirs
  <2>3. {sess.dog_a, sess.dog_b} \cap {sessions[r].dog_a, sessions[r].dog_b} = {}
    BY <1>3, <2>1 DEF InSession
  <2> QED BY <1>5, <2>2, <2>3 DEF Book!Disjoint
<1>10. LiveNow' = [LiveNow EXCEPT ![id] = Book!Begun]
  <2>1. Stage(sess) = Book!Begun
    <3>1. Stage(sess) = [state |-> sess.state, media_a |-> sess.media_a, media_b |-> sess.media_b]
      BY <1>2, ConstantsAssumption DEF Stage
    <3>2. Stage(sess) = [state |-> "Negotiating", media_a |-> FALSE, media_b |-> FALSE]
      BY <1>4, <3>1, Zenon
    <3> QED BY <3>2 DEF Book!Begun
  <2>2. \A s \in SessionIds : Stage(sessions'[s]) = IF s = id THEN Book!Begun ELSE Stage(sessions[s])
    BY <1>2, <1>3, <2>1 DEF TypeOK
  <2> QED BY <2>2, LiveIs
<1>11. Book!ForgetCalls
  BY <1>2, Forgets DEF CallInv
<1>12. RingingNow' = RingingNow
  BY <1>3 DEF RingingNow
<1>13. Book!Talk(id)
  BY <1>1, <1>3, <1>6, <1>7, <1>8, <1>9, <1>10, <1>11, <1>12 DEF Book!Talk
<1> QED BY <1>2, <1>13 DEF Book!Next

LEMMA RestoredStatus ==
    ASSUME NEW r \in Session
    PROVE  Stage(Restored(r)) \in Book!Status
<1> DEFINE l == [state |-> r.state, media_a |-> r.media_a, media_b |-> r.media_b]
<1>1. r.state \in {"Negotiating", "Active"} /\ r.media_a \in BOOLEAN /\ r.media_b \in BOOLEAN
  BY DEF Session, States
<1>2. Book!Heard(l) = [state |-> IF r.media_a /\ r.media_b THEN "Active" ELSE r.state,
                       media_a |-> r.media_a, media_b |-> r.media_b]
  BY <1>1, HeardIs
<1>3. Restored(r) \in Session
  BY DEF Restored, Session, States
<1>4. LET q == Restored(r)
      IN  /\ q.state = IF r.media_a /\ r.media_b THEN "Active" ELSE r.state
          /\ q.media_a = r.media_a /\ q.media_b = r.media_b
  BY DEF Restored, Session
<1>5. Stage(Restored(r)) = Book!Heard(l)
  BY <1>2, <1>3, <1>4, ConstantsAssumption DEF Stage
<1>6. l \in [state: {"Negotiating", "Active"}, media_a: BOOLEAN, media_b: BOOLEAN]
  BY <1>1
<1> HIDE DEF l
<1> QED BY <1>5, <1>6 DEF Book!Status

LEMMA RestartSimulates ==
    ASSUME TypeOK, TypeOK', CoverInv, CallInv, CallInv', Restart
    PROVE  Book!Next
<1>1. /\ CallsFade /\ TalksFade
      /\ \A i \in InviteIds : invites'[i] \in {db_invites[i], None}
      /\ \A s \in SessionIds :
            \/ sessions'[s] = None
            \/ db_sessions[s] \in Session /\ sessions'[s] = Restored(db_sessions[s])
  BY RestartFades
<1>2. restarts' = restarts + 1 /\ made' = made
  BY DEF Restart
<1>3. OnlyTheirs'
  BY NextOnlyCopies DEF CallInv
<1>4. InvitesApart' /\ SessionsApart'
  BY RestartApart
<1>5. ASSUME NEW i \in RingingNow' PROVE RememberedCalls[i] # {}
  <2>1. i \in InviteIds /\ invites'[i] # None
    BY <1>5 DEF RingingNow
  <2>2. CallCopies(i)' # {}
    BY <1>3, <2>1 DEF OnlyTheirs
  <2> QED BY <1>1, <2>1, <2>2, BookIs DEF CallsFade
<1>6. ASSUME NEW s \in Book!Live' PROVE LiveNow'[s] \in Book!Status /\ RememberedTalks[s] # {}
  <2>1. s \in SessionIds
    BY <1>6 DEF Book!Live
  <2>2. sessions'[s] # None
    BY <1>6, <2>1, NextLiveMembers
  <2>3. TalkCopies(s)' # {}
    BY <1>3, <2>1, <2>2 DEF OnlyTheirs
  <2>4. LiveNow'[s] \in Book!Status
    BY <1>1, <2>1, <2>2, RestoredStatus, LiveIs
  <2> QED BY <1>1, <2>1, <2>3, <2>4, BookIs DEF TalksFade
<1>7. ASSUME NEW i \in RingingNow', NEW j \in RingingNow', i # j,
             NEW p \in RememberedCalls'[i], NEW q \in RememberedCalls'[j]
      PROVE  Book!Disjoint(p, q)
  <2>1. i \in InviteIds /\ invites'[i] # None /\ j \in InviteIds /\ invites'[j] # None
    BY <1>7 DEF RingingNow
  <2>2. p = <<invites'[i].from, invites'[i].to>> /\ q = <<invites'[j].from, invites'[j].to>>
    BY <1>3, <1>7, <2>1, BookIs DEF OnlyTheirs
  <2>3. {invites'[i].from, invites'[i].to} \cap {invites'[j].from, invites'[j].to} = {}
    BY <1>4, <1>7, <2>1 DEF InvitesApart, InviteDogs
  <2> QED BY <2>2, <2>3 DEF Book!Disjoint
<1>8. ASSUME NEW r \in Book!Live', NEW s \in Book!Live', r # s,
             NEW t \in RememberedTalks'[r], NEW u \in RememberedTalks'[s]
      PROVE  Book!Disjoint(t.dogs, u.dogs)
  <2>1. r \in SessionIds /\ s \in SessionIds
    BY <1>8 DEF Book!Live
  <2>2. sessions'[r] # None /\ sessions'[s] # None
    BY <1>8, <2>1, NextLiveMembers
  <2>3. /\ t.dogs = <<sessions'[r].dog_a, sessions'[r].dog_b>>
        /\ u.dogs = <<sessions'[s].dog_a, sessions'[s].dog_b>>
    BY <1>3, <1>8, <2>1, <2>2, BookIs DEF OnlyTheirs
  <2>4. {sessions'[r].dog_a, sessions'[r].dog_b} \cap {sessions'[s].dog_a, sessions'[s].dog_b} = {}
    BY <1>4, <1>8, <2>1, <2>2 DEF SessionsApart, SessionDogs
  <2> QED BY <2>3, <2>4 DEF Book!Disjoint
<1>9. Book!ForgetCalls /\ Book!ForgetTalks
  BY <1>1, Forgets DEF CallInv
<1>10. Book!Crash
  BY <1>2, <1>5, <1>6, <1>7, <1>8, <1>9 DEF Book!Crash
<1> QED BY <1>10 DEF Book!Next

\* Every step of the control plane is a step of the book.
LEMMA Simulates ==
    ASSUME TypeOK, TypeOK', CoverInv, CallInv, CallInv', [Next]_vars
    PROVE  Book!Next
<1>1. Agree /\ Agree'
  BY DEF CallInv
<1>2. Plain => Book!Next
  BY <1>1, PlainSimulates
<1>3. Restart => Book!Next
  BY RestartSimulates
<1>4. ASSUME NEW h \in Handlers,
             \/ \E i \in InviteIds : AcceptGet(h, i)
             \/ CreateRow(h) \/ AcceptClose(h) \/ AcceptInviteRow(h) \/ SaveSession(h)
      PROVE  Book!Next
  <2>1. Held
    BY <1>4, AcceptGetHolds, CreateRowHolds, AcceptCloseHolds, AcceptInviteRowHolds, SaveHolds
  <2>2. sessions' = sessions
    BY <1>4 DEF AcceptGet, CreateRow, AcceptClose, AcceptInviteRow, SaveSession, mem
  <2> QED BY <1>1, <2>1, <2>2, LiveIs, HeldHushes DEF Book!Next
<1>5. ASSUME NEW h \in Handlers, CreateInsert(h) PROVE Book!Next
  BY <1>5, CreateSimulates
<1>6. ASSUME NEW h \in Handlers, AcceptInsert(h) PROVE Book!Next
  BY <1>6, AcceptSimulates
<1>7. ASSUME NEW h \in Handlers, NEW s \in SessionIds, NEW d \in Dogs, NEW ready \in BOOLEAN,
             MediaReady(h, s, d, ready)
      PROVE  Book!Next
  BY <1>1, <1>7, ReportSimulates
<1>8. ASSUME NEW h \in Handlers, AgainUpdate(h) PROVE Book!Next
  BY <1>1, <1>8, AgainSimulates
<1> QED BY <1>2, <1>3, <1>4, <1>5, <1>6, <1>7, <1>8, StepIs

LEMMA InitSimulates == Init => Book!Init
<1> SUFFICES ASSUME Init PROVE Book!Init
  OBVIOUS
<1>1. \A h \in Handlers : job[h] = Idle
  BY DEF Init
<1>2. RememberedCalls = [i \in InviteIds |-> {}]
  <2>1. \A i \in InviteIds : CallCopies(i) = {}
    BY <1>1, CallCopyIs, NothingRemembered, CarriedIs, SilentJob DEF Init
  <2> QED BY <2>1 DEF RememberedCalls
<1>3. RememberedTalks = [s \in SessionIds |-> {}]
  <2>1. \A s \in SessionIds : TalkCopies(s) = {}
    BY <1>1, TalkCopyIs, NothingRemembered, CarriedIs, SilentJob DEF Init
  <2> QED BY <2>1 DEF RememberedTalks
<1>4. RingingNow = {}
  BY DEF Init, RingingNow
<1>5. LiveNow = [s \in SessionIds |-> Book!Gone]
  BY LiveIs, StageGone DEF Init
<1> QED BY <1>2, <1>3, <1>4, <1>5 DEF Init, Book!Init

LEMMA CallStep ==
    ASSUME TypeOK, CoverInv, CallInv, [Next]_vars
    PROVE  TypeOK' /\ CoverInv' /\ CallInv'
  BY TypeStep, CoverStepped, CallsStepped

\* Whatever handlers, ticks and crashes do to the two stores and their tables, it is
\* the life of calls that CallBook describes.
THEOREM DeviceApiImplementsCallBook == Spec => KeepsCallBook
<1> DEFINE Inv == TypeOK /\ CoverInv /\ CallInv
<1>1. Init => Inv /\ Book!Init
  BY InitType, InitCover, InitCalls, InitSimulates
<1>2. Inv /\ [Next]_vars => Inv'
  BY CallStep
<1>3. Inv /\ [Next]_vars => [Book!Next]_(Book!vars)
  BY CallStep, Simulates
<1> QED
  BY <1>1, <1>2, <1>3, PTL DEF Spec, KeepsCallBook, Book!Spec

\* Only bonded dogs are ever in a session, though accept asks for no bond and a restart
\* believes every row.
THEOREM OnlyBondedDogsTalk ==
    Spec => [](\A s \in SessionIds :
                  sessions[s] # None => <<sessions[s].dog_a, sessions[s].dog_b>> \in Bonds)
<1> DEFINE Inv == TypeOK /\ CoverInv /\ CallInv
<1>1. Init => Inv
  BY InitType, InitCover, InitCalls
<1>2. Inv /\ [Next]_vars => Inv'
  BY CallStep
<1>3. Inv => \A s \in SessionIds :
                sessions[s] # None => <<sessions[s].dog_a, sessions[s].dog_b>> \in Bonds
  BY OnlyCopies DEF CallInv, OnlyTheirs, BondedCopies
<1> QED
  BY <1>1, <1>2, <1>3, PTL DEF Spec

\* No copy of a call or a session, in its store, its row or a handler's hands, differs
\* from another about who talks to whom, since when and until when.
THEOREM CopiesAgree == Spec => []Agree
<1> DEFINE Inv == TypeOK /\ CoverInv /\ CallInv
<1>1. Init => Inv
  BY InitType, InitCover, InitCalls
<1>2. Inv /\ [Next]_vars => Inv'
  BY CallStep
<1>3. Inv => Agree
  BY DEF CallInv
<1> QED
  BY <1>1, <1>2, <1>3, PTL DEF Spec
=============================================================================
