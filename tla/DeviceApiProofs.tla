--------------------------- MODULE DeviceApiProofs ---------------------------
(***************************************************************************)
(* What the handlers, the tick and a restart keep true of the stores and   *)
(* the rows, for any number of dogs, handlers, requests, ids, crashes and  *)
(* seconds.                                                                *)
(***************************************************************************)
EXTENDS DeviceApi, FiniteSetTheorems, TLAPS

USE ConstantsAssumption

----------------------------------------------------------------------------
\* Records: what a handler's locals are at each step.

LEMMA LocalsAre ==
    ASSUME NEW j \in Job
    PROVE  /\ j.pc \in {"create_peer", "create_insert"} =>
                /\ j.dog \in Dogs /\ j.to \in Dogs
                /\ j = [pc |-> j.pc, dog |-> j.dog, to |-> j.to]
           /\ j.pc = "create_row" => j.id \in InviteIds /\ j.inv \in Invite
           /\ j.pc \in {"cancel_close", "cancel_row"} =>
                j.id \in InviteIds /\ j = [pc |-> j.pc, id |-> j.id]
           /\ j.pc \in {"accept_close", "accept_insert"} =>
                /\ j.id \in InviteIds /\ j.sess \in Session
                /\ j = [pc |-> j.pc, id |-> j.id, sess |-> j.sess]
           /\ j.pc = "accept_invite_row" =>
                j.id \in InviteIds /\ j.sid \in SessionIds /\ j.sess \in Session
           /\ j.pc = "save_session" => j.sid \in SessionIds /\ j.sess \in Session
           /\ j.pc \in {"end_end", "end_row"} => j.sid \in SessionIds
           /\ j.pc = "again_update" => j.sid \in SessionIds /\ j.deadline \in Int
           /\ j.pc \in {"flag_set", "flag_get", "flag_row"} =>
                /\ j.kind \in {"estop", "social"} /\ j.dog \in Dogs
                /\ j.on \in BOOLEAN /\ j.pol \in Policy
                /\ j = [pc |-> j.pc, kind |-> j.kind, dog |-> j.dog, on |-> j.on, pol |-> j.pol]
           /\ j.pc = "stop_end" => j.dog \in Dogs
           /\ j.pc \in {"policy_row", "policy_set"} =>
                /\ j.dog \in Dogs /\ j.pol \in Policy
                /\ j = [pc |-> j.pc, dog |-> j.dog, pol |-> j.pol]
<1>1. CASE j \in [pc: {"create_peer", "create_insert"}, dog: Dogs, to: Dogs]
  BY <1>1
<1>2. CASE j \in [pc: {"create_row"}, id: InviteIds, inv: Invite]
  BY <1>2
<1>3. CASE j \in [pc: {"cancel_close", "cancel_row"}, id: InviteIds]
  BY <1>3
<1>4. CASE j \in [pc: {"accept_close", "accept_insert"}, id: InviteIds, sess: Session]
  BY <1>4
<1>5. CASE j \in [pc: {"accept_invite_row"}, id: InviteIds, sid: SessionIds, sess: Session]
  BY <1>5
<1>6. CASE j \in [pc: {"save_session"}, sid: SessionIds, sess: Session]
  BY <1>6
<1>7. CASE j \in [pc: {"end_end", "end_row"}, sid: SessionIds]
  BY <1>7
<1>8. CASE j \in [pc: {"again_update"}, sid: SessionIds, deadline: Int]
  BY <1>8
<1>9. CASE j \in [pc: {"flag_set", "flag_get", "flag_row"}, kind: {"estop", "social"},
                  dog: Dogs, on: BOOLEAN, pol: Policy]
  BY <1>9
<1>10. CASE j \in [pc: {"stop_end"}, dog: Dogs]
  BY <1>10
<1>11. CASE j \in [pc: {"policy_row", "policy_set"}, dog: Dogs, pol: Policy]
  BY <1>11
<1>12. CASE j = Idle
  BY <1>12 DEF Idle
<1> QED
  BY <1>1, <1>2, <1>3, <1>4, <1>5, <1>6, <1>7, <1>8, <1>9, <1>10, <1>11, <1>12 DEF Job

\* The jobs that the steps make.
LEMMA JobsAre ==
    /\ Idle \in Job
    /\ \A pc \in {"create_peer", "create_insert"}, d, to \in Dogs :
          [pc |-> pc, dog |-> d, to |-> to] \in Job
    /\ \A i \in InviteIds, inv \in Invite : [pc |-> "create_row", id |-> i, inv |-> inv] \in Job
    /\ \A pc \in {"cancel_close", "cancel_row"}, i \in InviteIds : [pc |-> pc, id |-> i] \in Job
    /\ \A pc \in {"accept_close", "accept_insert"}, i \in InviteIds, s \in Session :
          [pc |-> pc, id |-> i, sess |-> s] \in Job
    /\ \A i \in InviteIds, id \in SessionIds, s \in Session :
          [pc |-> "accept_invite_row", id |-> i, sid |-> id, sess |-> s] \in Job
    /\ \A id \in SessionIds, s \in Session : [pc |-> "save_session", sid |-> id, sess |-> s] \in Job
    /\ \A pc \in {"end_end", "end_row"}, id \in SessionIds : [pc |-> pc, sid |-> id] \in Job
    /\ \A id \in SessionIds, x \in Int : [pc |-> "again_update", sid |-> id, deadline |-> x] \in Job
    /\ \A pc \in {"flag_set", "flag_get", "flag_row"}, kind \in {"estop", "social"}, d \in Dogs,
          on \in BOOLEAN, pol \in Policy :
          [pc |-> pc, kind |-> kind, dog |-> d, on |-> on, pol |-> pol] \in Job
    /\ \A d \in Dogs : [pc |-> "stop_end", dog |-> d] \in Job
    /\ \A pc \in {"policy_row", "policy_set"}, d \in Dogs, pol \in Policy :
          [pc |-> pc, dog |-> d, pol |-> pol] \in Job
  BY DEF Job, Idle

LEMMA GoesOn ==
    ASSUME job \in [Handlers -> Job], NEW h \in Handlers, NEW j \in Job,
           Goto(h, j) \/ Goto(h, OrDone(j))
    PROVE  job' \in [Handlers -> Job]
  BY JobsAre DEF Goto, OrDone

\* The tick's scan of the sessions.
LEMMA ScanIs ==
    ASSUME tick \in TickJob
    PROVE  /\ tick.pc = "rows" =>
                /\ tick.at \in Int /\ tick.due \in SUBSET InviteIds
                /\ tick = [pc |-> "rows", at |-> tick.at, due |-> tick.due]
           /\ tick.pc = "scan" =>
                /\ tick.at \in Int /\ tick.left \in [SessionIds -> Session \cup {None}]
                /\ tick = [pc |-> "scan", at |-> tick.at, left |-> tick.left]
           /\ tick.pc = "row" =>
                /\ tick.at \in Int /\ tick.left \in [SessionIds -> Session \cup {None}]
                /\ tick.sid \in SessionIds
  BY DEF TickJob, Asleep

----------------------------------------------------------------------------
\* Types

StoresOK ==
    /\ clock \in Nat
    /\ invites \in [InviteIds -> Invite \cup {None}]
    /\ sessions \in [SessionIds -> Session \cup {None}]
    /\ policy \in [Dogs -> Policy]
    /\ sent \in [Dogs -> Nat]

RowsOK ==
    /\ db_invites \in [InviteIds -> Invite \cup {None}]
    /\ db_sessions \in [SessionIds -> Session \cup {None}]
    /\ db_policy \in [Dogs -> Policy \cup {None}]

CountsOK ==
    /\ made \in [invites: 0..MaxInvites, sessions: 0..MaxSessions]
    /\ requests \in Nat
    /\ restarts \in Nat

LEMMA TypeParts ==
    TypeOK <=> /\ StoresOK /\ RowsOK /\ CountsOK
               /\ job \in [Handlers -> Job] /\ tick \in TickJob
  BY DEF TypeOK, StoresOK, RowsOK, CountsOK

LEMMA NextParts ==
    ASSUME StoresOK', RowsOK', CountsOK', job' \in [Handlers -> Job], tick' \in TickJob
    PROVE  TypeOK'
  BY DEF TypeOK, StoresOK, RowsOK, CountsOK

LEMMA InitType == Init => TypeOK
  BY JobsAre DEF Init, TypeOK, TickJob, Asleep

LEMMA ExpiryType ==
    ASSUME StoresOK
    PROVE  AfterExpiry \in [InviteIds -> Invite \cup {None}]
  BY DEF StoresOK, AfterExpiry

\* A handler that receives a request.
LEMMA RequestType ==
    ASSUME TypeOK, NEW h \in Handlers, Request(h)
    PROVE  TypeOK'
<1>0. /\ StoresOK /\ RowsOK /\ CountsOK
      /\ job \in [Handlers -> Job] /\ tick \in TickJob
  BY TypeParts
<1>1. ASSUME NEW d \in Dogs, NEW to \in Dogs, CreateRoute(h, d, to) PROVE TypeOK'
  <2>1. job' \in [Handlers -> Job]
    <3>1. [pc |-> "create_peer", dog |-> d, to |-> to] \in Job
      BY JobsAre
    <3> QED BY <1>0, <1>1, <3>1, GoesOn DEF CreateRoute
  <2>2. StoresOK'
    BY <1>0, <1>1, ExpiryType DEF CreateRoute, StoresOK
  <2>3. RowsOK' /\ CountsOK' /\ tick' \in TickJob
    BY <1>0, <1>1 DEF CreateRoute, Receive, db, RowsOK, CountsOK
  <2> QED BY <2>1, <2>2, <2>3, NextParts
<1>2. ASSUME NEW kind, NEW d \in Dogs, SweepOnly(h, kind, d) PROVE TypeOK'
  <2>1. StoresOK'
    BY <1>0, <1>2, ExpiryType DEF SweepOnly, StoresOK
  <2>2. RowsOK' /\ CountsOK' /\ job' \in [Handlers -> Job] /\ tick' \in TickJob
    BY <1>0, <1>2 DEF SweepOnly, Receive, db, RowsOK, CountsOK
  <2> QED BY <2>1, <2>2, NextParts
<1>3. ASSUME NEW i \in InviteIds, CancelGet(h, i) PROVE TypeOK'
  <2>1. job' \in [Handlers -> Job]
    <3>1. [pc |-> "cancel_close", id |-> i] \in Job
      BY JobsAre
    <3> QED BY <1>0, <1>3, <3>1, GoesOn DEF CancelGet
  <2>2. StoresOK' /\ RowsOK' /\ CountsOK' /\ tick' \in TickJob
    BY <1>0, <1>3 DEF CancelGet, Receive, mem, db, StoresOK, RowsOK, CountsOK
  <2> QED BY <2>1, <2>2, NextParts
<1>4. ASSUME NEW i \in InviteIds, AcceptGet(h, i) PROVE TypeOK'
  <2> DEFINE inv == AfterExpiry[i]
             pol == policy[inv.to]
             sess == [invite |-> i, dog_a |-> inv.from, dog_b |-> inv.to,
                      state |-> "Negotiating", started |-> clock,
                      max_end |-> clock + pol.limits.max_sec,
                      deadline |-> clock + pol.limits.seg_sec,
                      media_a |-> FALSE, media_b |-> FALSE]
  <2>1. inv \in Invite
    BY <1>0, <1>4, ExpiryType DEF AcceptGet
  <2>2. inv.from \in Dogs /\ inv.to \in Dogs
    BY <2>1 DEF Invite
  <2>3. pol.limits.max_sec \in Nat /\ pol.limits.seg_sec \in Nat /\ clock \in Nat
    <3>1. pol \in Policy /\ clock \in Nat
      BY <1>0, <2>2 DEF StoresOK
    <3>2. pol.limits \in Limit
      BY <3>1 DEF Policy
    <3> QED BY <3>1, <3>2 DEF Limit
  <2>4. sess \in Session
    BY <2>2, <2>3 DEF Session, States
  <2>5. job' \in [Handlers -> Job]
    <3>1. [pc |-> "accept_close", id |-> i, sess |-> sess] \in Job
      BY <2>4, JobsAre
    <3>2. Goto(h, [pc |-> "accept_close", id |-> i, sess |-> sess])
      BY <1>4 DEF AcceptGet
    <3> HIDE DEF sess
    <3> QED BY <1>0, <3>1, <3>2, GoesOn
  <2>6. StoresOK'
    BY <1>0, <1>4, ExpiryType DEF AcceptGet, StoresOK
  <2>7. RowsOK' /\ CountsOK' /\ tick' \in TickJob
    BY <1>0, <1>4 DEF AcceptGet, Receive, db, RowsOK, CountsOK
  <2> QED BY <2>5, <2>6, <2>7, NextParts
<1>5. ASSUME NEW s \in SessionIds, EndGet(h, s) PROVE TypeOK'
  <2>1. job' \in [Handlers -> Job]
    <3>1. [pc |-> "end_end", sid |-> s] \in Job
      BY JobsAre
    <3> QED BY <1>0, <1>5, <3>1, GoesOn DEF EndGet
  <2>2. StoresOK' /\ RowsOK' /\ CountsOK' /\ tick' \in TickJob
    BY <1>0, <1>5 DEF EndGet, Receive, mem, db, StoresOK, RowsOK, CountsOK
  <2> QED BY <2>1, <2>2, NextParts
<1>6. ASSUME NEW s \in SessionIds, NEW d \in Dogs, NEW ready \in BOOLEAN, MediaReady(h, s, d, ready)
      PROVE  TypeOK'
  <2> DEFINE new == Reported(sessions[s], d, ready)
             both == new.media_a /\ new.media_b
             row == [new EXCEPT !.media_a = both \/ d = new.dog_a,
                                !.media_b = both \/ d = new.dog_b]
  <2>1. sessions[s] \in Session
    BY <1>0, <1>6 DEF MediaReady, StoresOK
  <2>2. new \in Session
    BY <2>1 DEF Reported, Session, States
  <2>3. row \in Session
    <3> HIDE DEF new
    <3> QED BY <2>2 DEF Session
  <2>4. job' \in [Handlers -> Job]
    <3>1. [pc |-> "save_session", sid |-> s, sess |-> row] \in Job
      BY <2>3, JobsAre
    <3>2. Goto(h, OrDone([pc |-> "save_session", sid |-> s, sess |-> row]))
      BY <1>6 DEF MediaReady
    <3> HIDE DEF row
    <3> QED BY <1>0, <3>1, <3>2, GoesOn
  <2>5. StoresOK'
    <3>1. sessions' = [sessions EXCEPT ![s] = new]
      BY <1>6 DEF MediaReady
    <3> HIDE DEF new
    <3> QED BY <1>0, <1>6, <2>2, <3>1 DEF MediaReady, StoresOK
  <2>6. RowsOK' /\ CountsOK' /\ tick' \in TickJob
    BY <1>0, <1>6 DEF MediaReady, Receive, db, RowsOK, CountsOK
  <2> QED BY <2>4, <2>5, <2>6, NextParts
<1>7. ASSUME NEW s \in SessionIds, NEW d \in Dogs, AgainGet(h, s, d) PROVE TypeOK'
  <2> DEFINE x == ExtendSegment(clock, policy[d].limits.seg_sec, sessions[s].max_end)
  <2>1. x \in Int
    <3>1. sessions[s] \in Session /\ policy[d] \in Policy /\ clock \in Nat
      BY <1>0, <1>7 DEF AgainGet, StoresOK
    <3>2. sessions[s].max_end \in Int /\ policy[d].limits \in Limit
      BY <3>1 DEF Session, Policy
    <3> QED BY <3>1, <3>2 DEF Limit, ExtendSegment
  <2>2. job' \in [Handlers -> Job]
    <3>1. [pc |-> "again_update", sid |-> s, deadline |-> x] \in Job
      BY <2>1, JobsAre
    <3>2. Goto(h, [pc |-> "again_update", sid |-> s, deadline |-> x])
      BY <1>7 DEF AgainGet
    <3> HIDE DEF x
    <3> QED BY <1>0, <3>1, <3>2, GoesOn
  <2>3. StoresOK' /\ RowsOK' /\ CountsOK' /\ tick' \in TickJob
    BY <1>0, <1>7 DEF AgainGet, Receive, mem, db, StoresOK, RowsOK, CountsOK
  <2> QED BY <2>2, <2>3, NextParts
<1>8. ASSUME NEW kind, NEW d \in Dogs, NEW on \in BOOLEAN, FlagRead(h, kind, d, on) PROVE TypeOK'
  <2> DEFINE pol == IF kind = "estop" THEN [policy[d] EXCEPT !.estop = on]
                                      ELSE [policy[d] EXCEPT !.social = on]
  <2>1. pol \in Policy
    BY <1>0 DEF StoresOK, Policy
  <2>2. job' \in [Handlers -> Job]
    <3>1. [pc |-> "flag_set", kind |-> kind, dog |-> d, on |-> on, pol |-> pol] \in Job
      BY <1>8, <2>1, JobsAre DEF FlagRead
    <3>2. Goto(h, [pc |-> "flag_set", kind |-> kind, dog |-> d, on |-> on, pol |-> pol])
      BY <1>8 DEF FlagRead
    <3> HIDE DEF pol
    <3> QED BY <1>0, <3>1, <3>2, GoesOn
  <2>3. StoresOK' /\ RowsOK' /\ CountsOK' /\ tick' \in TickJob
    BY <1>0, <1>8 DEF FlagRead, Receive, mem, db, StoresOK, RowsOK, CountsOK
  <2> QED BY <2>2, <2>3, NextParts
<1>9. ASSUME NEW d \in Dogs, NEW l \in Limits, PolicyRead(h, d, l) PROVE TypeOK'
  <2> DEFINE pol == [policy[d] EXCEPT !.limits = l]
             pc == IF HasPool THEN "policy_row" ELSE "policy_set"
  <2>1. pol \in Policy
    BY <1>0 DEF StoresOK, Policy
  <2>2. job' \in [Handlers -> Job]
    <3>1. [pc |-> pc, dog |-> d, pol |-> pol] \in Job
      BY <2>1, JobsAre
    <3>2. Goto(h, [pc |-> pc, dog |-> d, pol |-> pol])
      BY <1>9 DEF PolicyRead
    <3> HIDE DEF pol, pc
    <3> QED BY <1>0, <3>1, <3>2, GoesOn
  <2>3. StoresOK' /\ RowsOK' /\ CountsOK' /\ tick' \in TickJob
    BY <1>0, <1>9 DEF PolicyRead, Receive, mem, db, StoresOK, RowsOK, CountsOK
  <2> QED BY <2>2, <2>3, NextParts
<1> QED
  BY <1>1, <1>2, <1>3, <1>4, <1>5, <1>6, <1>7, <1>8, <1>9 DEF Request

\* A handler that goes on.
LEMMA StepType ==
    ASSUME TypeOK, NEW h \in Handlers, Step(h)
    PROVE  TypeOK'
<1> DEFINE j == job[h]
<1>0. /\ StoresOK /\ RowsOK /\ CountsOK
      /\ job \in [Handlers -> Job] /\ tick \in TickJob
      /\ j \in Job
  BY TypeParts
<1>1. ASSUME CreatePeer(h) PROVE TypeOK'
  <2>1. job' \in [Handlers -> Job]
    <3>1. [job[h] EXCEPT !.pc = "create_insert"] \in Job
      <4>1. j.pc = "create_peer"
        BY <1>1 DEF CreatePeer, At
      <4> QED BY <1>0, <4>1, LocalsAre, JobsAre
    <3> QED BY <1>0, <1>1, <3>1, GoesOn DEF CreatePeer
  <2>2. StoresOK' /\ RowsOK' /\ CountsOK' /\ tick' \in TickJob
    BY <1>0, <1>1, LocalsAre DEF CreatePeer, At, mem, db, StoresOK, RowsOK, CountsOK
  <2> QED BY <2>1, <2>2, NextParts
<1>2. ASSUME CreateRefused(h) PROVE TypeOK'
  <2>1. job' \in [Handlers -> Job]
    <3>1. Idle \in Job
      BY <1>0, <1>2, LocalsAre, JobsAre DEF CreateRefused, At
    <3> QED BY <1>0, <1>2, <3>1, GoesOn DEF CreateRefused
  <2>2. StoresOK' /\ RowsOK' /\ CountsOK' /\ tick' \in TickJob
    BY <1>0, <1>2, LocalsAre DEF CreateRefused, At, mem, db, StoresOK, RowsOK, CountsOK
  <2> QED BY <2>1, <2>2, NextParts
<1>3. ASSUME CreateInsert(h) PROVE TypeOK'
  <2> DEFINE inv == [from |-> j.dog, to |-> j.to, expires |-> clock + RingTimeout]
             id == made.invites + 1
             next == [pc |-> "create_row", id |-> id, inv |-> inv]
  <2>1. inv \in Invite /\ id \in InviteIds /\ j.dog \in Dogs
    <3>1. j.dog \in Dogs /\ j.to \in Dogs
      BY <1>0, <1>3, LocalsAre DEF CreateInsert, At
    <3>2. clock + RingTimeout \in Int
      BY <1>0 DEF StoresOK
    <3> QED BY <1>3, <3>1, <3>2 DEF CreateInsert, Invite
  <2>2. job' \in [Handlers -> Job]
    <3>1. next \in Job
      BY <2>1, JobsAre
    <3>2. Goto(h, OrDone(next))
      BY <1>3 DEF CreateInsert
    <3> HIDE DEF next
    <3> QED BY <1>0, <3>1, <3>2, GoesOn
  <2>3. StoresOK'
    <3>1. /\ invites' = [invites EXCEPT ![id] = inv]
          /\ sent' = [sent EXCEPT ![j.dog] = @ + 1]
          /\ UNCHANGED <<clock, sessions, policy>>
      BY <1>3 DEF CreateInsert
    <3> HIDE DEF inv, id, j
    <3> QED BY <1>0, <2>1, <3>1 DEF StoresOK
  <2>4. RowsOK' /\ tick' \in TickJob
    BY <1>0, <1>3 DEF CreateInsert, db, RowsOK
  <2>5. CountsOK'
    <3>1. /\ made' = [made EXCEPT !.invites = made.invites + 1]
          /\ made.invites + 1 \in 0..MaxInvites
          /\ UNCHANGED <<requests, restarts>>
      BY <1>3 DEF CreateInsert, InviteIds
    <3> QED BY <1>0, <3>1 DEF CountsOK
  <2> QED BY <2>2, <2>3, <2>4, <2>5, NextParts
<1>4. ASSUME CreateBusy(h) PROVE TypeOK'
  <2>1. job' \in [Handlers -> Job]
    <3>1. Idle \in Job
      BY <1>0, <1>4, LocalsAre, JobsAre DEF CreateBusy, At
    <3> QED BY <1>0, <1>4, <3>1, GoesOn DEF CreateBusy
  <2>2. StoresOK' /\ RowsOK' /\ CountsOK' /\ tick' \in TickJob
    BY <1>0, <1>4, LocalsAre DEF CreateBusy, At, mem, db, StoresOK, RowsOK, CountsOK
  <2> QED BY <2>1, <2>2, NextParts
<1>5. ASSUME CreateRow(h) PROVE TypeOK'
  <2>1. job' \in [Handlers -> Job]
    <3>1. Idle \in Job
      BY <1>0, <1>5, LocalsAre, JobsAre DEF CreateRow, At
    <3> QED BY <1>0, <1>5, <3>1, GoesOn DEF CreateRow
  <2>2. StoresOK' /\ RowsOK' /\ CountsOK' /\ tick' \in TickJob
    BY <1>0, <1>5, LocalsAre DEF CreateRow, At, mem, db, StoresOK, RowsOK, CountsOK
  <2> QED BY <2>1, <2>2, NextParts
<1>6. ASSUME CancelClose(h) PROVE TypeOK'
  <2>1. job' \in [Handlers -> Job]
    <3>1. [job[h] EXCEPT !.pc = "cancel_row"] \in Job
      <4>1. j.pc = "cancel_close"
        BY <1>6 DEF CancelClose, At
      <4> QED BY <1>0, <4>1, LocalsAre, JobsAre
    <3> QED BY <1>0, <1>6, <3>1, GoesOn DEF CancelClose
  <2>2. StoresOK' /\ RowsOK' /\ CountsOK' /\ tick' \in TickJob
    BY <1>0, <1>6, LocalsAre DEF CancelClose, At, mem, db, StoresOK, RowsOK, CountsOK
  <2> QED BY <2>1, <2>2, NextParts
<1>7. ASSUME CancelRow(h) PROVE TypeOK'
  <2>1. job' \in [Handlers -> Job]
    <3>1. Idle \in Job
      BY <1>0, <1>7, LocalsAre, JobsAre DEF CancelRow, At
    <3> QED BY <1>0, <1>7, <3>1, GoesOn DEF CancelRow
  <2>2. StoresOK' /\ RowsOK' /\ CountsOK' /\ tick' \in TickJob
    BY <1>0, <1>7, LocalsAre DEF CancelRow, At, mem, db, StoresOK, RowsOK, CountsOK
  <2> QED BY <2>1, <2>2, NextParts
<1>8. ASSUME AcceptClose(h) PROVE TypeOK'
  <2>1. job' \in [Handlers -> Job]
    <3>1. [job[h] EXCEPT !.pc = "accept_insert"] \in Job
      <4>1. j.pc = "accept_close"
        BY <1>8 DEF AcceptClose, At
      <4> QED BY <1>0, <4>1, LocalsAre, JobsAre
    <3> QED BY <1>0, <1>8, <3>1, GoesOn DEF AcceptClose
  <2>2. StoresOK' /\ RowsOK' /\ CountsOK' /\ tick' \in TickJob
    BY <1>0, <1>8, LocalsAre DEF AcceptClose, At, mem, db, StoresOK, RowsOK, CountsOK
  <2> QED BY <2>1, <2>2, NextParts
<1>9. ASSUME AcceptInsert(h) PROVE TypeOK'
  <2> DEFINE id == made.sessions + 1
             next == [pc |-> "accept_invite_row", id |-> j.id, sid |-> id, sess |-> j.sess]
  <2>1. j.id \in InviteIds /\ j.sess \in Session /\ id \in SessionIds
    BY <1>0, <1>9, LocalsAre DEF AcceptInsert, At
  <2>2. job' \in [Handlers -> Job]
    <3>1. next \in Job
      BY <2>1, JobsAre
    <3>2. Goto(h, OrDone(next))
      BY <1>9 DEF AcceptInsert
    <3> HIDE DEF next
    <3> QED BY <1>0, <3>1, <3>2, GoesOn
  <2>3. StoresOK'
    BY <1>0, <1>9, <2>1 DEF AcceptInsert, StoresOK
  <2>4. RowsOK' /\ CountsOK' /\ tick' \in TickJob
    BY <1>0, <1>9 DEF AcceptInsert, db, RowsOK, CountsOK, SessionIds
  <2> QED BY <2>2, <2>3, <2>4, NextParts
<1>10. ASSUME AcceptBusy(h) PROVE TypeOK'
  <2>1. job' \in [Handlers -> Job]
    <3>1. Idle \in Job
      BY <1>0, <1>10, LocalsAre, JobsAre DEF AcceptBusy, At
    <3> QED BY <1>0, <1>10, <3>1, GoesOn DEF AcceptBusy
  <2>2. StoresOK' /\ RowsOK' /\ CountsOK' /\ tick' \in TickJob
    BY <1>0, <1>10, LocalsAre DEF AcceptBusy, At, mem, db, StoresOK, RowsOK, CountsOK
  <2> QED BY <2>1, <2>2, NextParts
<1>11. ASSUME AcceptInviteRow(h) PROVE TypeOK'
  <2>1. job' \in [Handlers -> Job]
    <3>1. [pc |-> "save_session", sid |-> j.sid, sess |-> j.sess] \in Job
      BY <1>0, <1>11, LocalsAre, JobsAre DEF AcceptInviteRow, At
    <3> QED BY <1>0, <1>11, <3>1, GoesOn DEF AcceptInviteRow
  <2>2. StoresOK' /\ RowsOK' /\ CountsOK' /\ tick' \in TickJob
    BY <1>0, <1>11, LocalsAre DEF AcceptInviteRow, At, mem, db, StoresOK, RowsOK, CountsOK
  <2> QED BY <2>1, <2>2, NextParts
<1>12. ASSUME SaveSession(h) PROVE TypeOK'
  <2>1. job' \in [Handlers -> Job]
    <3>1. Idle \in Job
      BY <1>0, <1>12, LocalsAre, JobsAre DEF SaveSession, At
    <3> QED BY <1>0, <1>12, <3>1, GoesOn DEF SaveSession
  <2>2. StoresOK' /\ RowsOK' /\ CountsOK' /\ tick' \in TickJob
    BY <1>0, <1>12, LocalsAre DEF SaveSession, At, mem, db, StoresOK, RowsOK, CountsOK
  <2> QED BY <2>1, <2>2, NextParts
<1>13. ASSUME EndEnd(h) PROVE TypeOK'
  <2>1. job' \in [Handlers -> Job]
    <3>1. [pc |-> "end_row", sid |-> j.sid] \in Job
      BY <1>0, <1>13, LocalsAre, JobsAre DEF EndEnd, At
    <3> QED BY <1>0, <1>13, <3>1, GoesOn DEF EndEnd
  <2>2. StoresOK' /\ RowsOK' /\ CountsOK' /\ tick' \in TickJob
    BY <1>0, <1>13, LocalsAre DEF EndEnd, At, mem, db, StoresOK, RowsOK, CountsOK
  <2> QED BY <2>1, <2>2, NextParts
<1>14. ASSUME EndRow(h) PROVE TypeOK'
  <2>1. job' \in [Handlers -> Job]
    <3>1. Idle \in Job
      BY <1>0, <1>14, LocalsAre, JobsAre DEF EndRow, At
    <3> QED BY <1>0, <1>14, <3>1, GoesOn DEF EndRow
  <2>2. StoresOK' /\ RowsOK' /\ CountsOK' /\ tick' \in TickJob
    BY <1>0, <1>14, LocalsAre DEF EndRow, At, mem, db, StoresOK, RowsOK, CountsOK
  <2> QED BY <2>1, <2>2, NextParts
<1>15. ASSUME AgainUpdate(h) PROVE TypeOK'
  <2> DEFINE new == [sessions[j.sid] EXCEPT !.deadline = j.deadline]
             row == [new EXCEPT !.media_a = TRUE, !.media_b = TRUE]
             next == [pc |-> "save_session", sid |-> j.sid, sess |-> row]
  <2>1. j.sid \in SessionIds /\ j.deadline \in Int
    BY <1>0, <1>15, LocalsAre DEF AgainUpdate, At
  <2>2. sessions[j.sid] \in Session
    BY <1>0, <1>15, <2>1 DEF AgainUpdate, StoresOK
  <2>3. new \in Session /\ row \in Session
    BY <2>1, <2>2 DEF Session
  <2>4. job' \in [Handlers -> Job]
    <3>1. next \in Job
      BY <2>1, <2>3, JobsAre
    <3>2. Goto(h, OrDone(next))
      BY <1>15 DEF AgainUpdate
    <3> HIDE DEF next
    <3> QED BY <1>0, <3>1, <3>2, GoesOn
  <2>5. StoresOK'
    BY <1>0, <1>15, <2>1, <2>3 DEF AgainUpdate, StoresOK
  <2>6. RowsOK' /\ CountsOK' /\ tick' \in TickJob
    BY <1>0, <1>15 DEF AgainUpdate, db, RowsOK, CountsOK
  <2> QED BY <2>4, <2>5, <2>6, NextParts
<1>16. ASSUME AgainGone(h) PROVE TypeOK'
  <2>1. job' \in [Handlers -> Job]
    <3>1. Idle \in Job
      BY <1>0, <1>16, LocalsAre, JobsAre DEF AgainGone, At
    <3> QED BY <1>0, <1>16, <3>1, GoesOn DEF AgainGone
  <2>2. StoresOK' /\ RowsOK' /\ CountsOK' /\ tick' \in TickJob
    BY <1>0, <1>16, LocalsAre DEF AgainGone, At, mem, db, StoresOK, RowsOK, CountsOK
  <2> QED BY <2>1, <2>2, NextParts
<1>17. ASSUME FlagSet(h) PROVE TypeOK'
  <2>1. job' \in [Handlers -> Job]
    <3>1. (IF HasPool THEN [j EXCEPT !.pc = "flag_get"] ELSE AfterFlag(j)) \in Job
      BY <1>0, <1>17, LocalsAre, JobsAre DEF FlagSet, At, AfterFlag
    <3>2. Goto(h, (IF HasPool THEN [j EXCEPT !.pc = "flag_get"] ELSE AfterFlag(j)))
      BY <1>17 DEF FlagSet
    <3> QED BY <1>0, <3>1, <3>2, GoesOn
  <2>2. StoresOK' /\ RowsOK' /\ CountsOK' /\ tick' \in TickJob
    BY <1>0, <1>17, LocalsAre DEF FlagSet, At, mem, db, StoresOK, RowsOK, CountsOK
  <2> QED BY <2>1, <2>2, NextParts
<1>18. ASSUME FlagGet(h) PROVE TypeOK'
  <2>1. job' \in [Handlers -> Job]
    <3>1. policy[j.dog] \in Policy /\ j.pc = "flag_get"
      BY <1>0, <1>18, LocalsAre DEF FlagGet, At, StoresOK
    <3>2. [j EXCEPT !.pc = "flag_row", !.pol = policy[j.dog]] \in Job
      <4> HIDE DEF j
      <4>1. j \in [pc: {"flag_get"}, kind: {"estop", "social"}, dog: Dogs, on: BOOLEAN, pol: Policy]
        BY <1>0, <3>1, LocalsAre
      <4>2. [j EXCEPT !.pc = "flag_row", !.pol = policy[j.dog]] \in
              [pc: {"flag_row"}, kind: {"estop", "social"}, dog: Dogs, on: BOOLEAN, pol: Policy]
        BY <3>1, <4>1
      <4> QED BY <4>2 DEF Job
    <3> QED BY <1>0, <1>18, <3>2, GoesOn DEF FlagGet
  <2>2. StoresOK' /\ RowsOK' /\ CountsOK' /\ tick' \in TickJob
    BY <1>0, <1>18, LocalsAre DEF FlagGet, At, mem, db, StoresOK, RowsOK, CountsOK
  <2> QED BY <2>1, <2>2, NextParts
<1>19. ASSUME FlagRow(h) PROVE TypeOK'
  <2>1. job' \in [Handlers -> Job]
    <3>1. AfterFlag(j) \in Job
      BY <1>0, <1>19, LocalsAre, JobsAre DEF FlagRow, At, AfterFlag
    <3>2. Goto(h, AfterFlag(j))
      BY <1>19 DEF FlagRow
    <3> QED BY <1>0, <3>1, <3>2, GoesOn
  <2>2. StoresOK' /\ RowsOK' /\ CountsOK' /\ tick' \in TickJob
    BY <1>0, <1>19, LocalsAre DEF FlagRow, At, mem, db, StoresOK, RowsOK, CountsOK
  <2> QED BY <2>1, <2>2, NextParts
<1>20. ASSUME NEW s \in SessionIds, StopEnd(h, s) PROVE TypeOK'
  <2>1. job' \in [Handlers -> Job]
    <3>1. [pc |-> "end_row", sid |-> s] \in Job
      BY <1>0, <1>20, LocalsAre, JobsAre DEF StopEnd, At
    <3> QED BY <1>0, <1>20, <3>1, GoesOn DEF StopEnd
  <2>2. StoresOK' /\ RowsOK' /\ CountsOK' /\ tick' \in TickJob
    BY <1>0, <1>20, LocalsAre DEF StopEnd, At, mem, db, StoresOK, RowsOK, CountsOK
  <2> QED BY <2>1, <2>2, NextParts
<1>21. ASSUME StopNothing(h) PROVE TypeOK'
  <2>1. job' \in [Handlers -> Job]
    <3>1. Idle \in Job
      BY <1>0, <1>21, LocalsAre, JobsAre DEF StopNothing, At
    <3> QED BY <1>0, <1>21, <3>1, GoesOn DEF StopNothing
  <2>2. StoresOK' /\ RowsOK' /\ CountsOK' /\ tick' \in TickJob
    BY <1>0, <1>21, LocalsAre DEF StopNothing, At, mem, db, StoresOK, RowsOK, CountsOK
  <2> QED BY <2>1, <2>2, NextParts
<1>22. ASSUME PolicyRow(h) PROVE TypeOK'
  <2>1. job' \in [Handlers -> Job]
    <3>1. [job[h] EXCEPT !.pc = "policy_set"] \in Job
      <4>1. j.pc = "policy_row"
        BY <1>22 DEF PolicyRow, At
      <4> QED BY <1>0, <4>1, LocalsAre, JobsAre
    <3> QED BY <1>0, <1>22, <3>1, GoesOn DEF PolicyRow
  <2>2. StoresOK' /\ RowsOK' /\ CountsOK' /\ tick' \in TickJob
    BY <1>0, <1>22, LocalsAre DEF PolicyRow, At, mem, db, StoresOK, RowsOK, CountsOK
  <2> QED BY <2>1, <2>2, NextParts
<1>23. ASSUME PolicySet(h) PROVE TypeOK'
  <2>1. job' \in [Handlers -> Job]
    <3>1. Idle \in Job
      BY <1>0, <1>23, LocalsAre, JobsAre DEF PolicySet, At
    <3> QED BY <1>0, <1>23, <3>1, GoesOn DEF PolicySet
  <2>2. StoresOK' /\ RowsOK' /\ CountsOK' /\ tick' \in TickJob
    BY <1>0, <1>23, LocalsAre DEF PolicySet, At, mem, db, StoresOK, RowsOK, CountsOK
  <2> QED BY <2>1, <2>2, NextParts
<1> QED
  BY <1>1, <1>2, <1>3, <1>4, <1>5, <1>6, <1>7, <1>8, <1>9, <1>10, <1>11, <1>12, <1>13,
     <1>14, <1>15, <1>16, <1>17, <1>18, <1>19, <1>20, <1>21, <1>22, <1>23 DEF Step

LEMMA TickType ==
    ASSUME TypeOK, Tick
    PROVE  TypeOK'
<1>0. /\ StoresOK /\ RowsOK /\ CountsOK
      /\ job \in [Handlers -> Job] /\ tick \in TickJob
  BY TypeParts
<1>1. CASE TickStart
  <2>1. tick' \in TickJob
    BY <1>0, <1>1 DEF TickStart, TickJob, Due, StoresOK
  <2>2. StoresOK'
    BY <1>0, <1>1, ExpiryType DEF TickStart, StoresOK
  <2>3. RowsOK' /\ CountsOK' /\ job' \in [Handlers -> Job]
    BY <1>0, <1>1 DEF TickStart, db, RowsOK, CountsOK
  <2> QED BY <2>1, <2>2, <2>3, NextParts
<1>2. CASE TickAll
  <2>1. tick' \in TickJob
    BY <1>0, <1>2, ScanIs DEF TickAll, TickJob, StoresOK
  <2>2. StoresOK' /\ RowsOK' /\ CountsOK' /\ job' \in [Handlers -> Job]
    BY <1>0, <1>2 DEF TickAll, mem, db, StoresOK, RowsOK, CountsOK
  <2> QED BY <2>1, <2>2, NextParts
<1>3. CASE TickRow
  <2>1. tick' \in TickJob
    BY <1>0, <1>3, ScanIs DEF TickRow, TickJob
  <2>2. StoresOK' /\ RowsOK' /\ CountsOK' /\ job' \in [Handlers -> Job]
    BY <1>0, <1>3, ScanIs DEF TickRow, mem, StoresOK, RowsOK, CountsOK
  <2> QED BY <2>1, <2>2, NextParts
<1>4. CASE TickDone
  <2>1. tick' \in TickJob
    BY <1>4 DEF TickDone, TickJob
  <2>2. StoresOK' /\ RowsOK' /\ CountsOK' /\ job' \in [Handlers -> Job]
    BY <1>0, <1>4 DEF TickDone, mem, db, StoresOK, RowsOK, CountsOK
  <2> QED BY <2>1, <2>2, NextParts
<1>5. ASSUME NEW i \in InviteIds, TickInviteRow(i) PROVE TypeOK'
  <2>1. tick' \in TickJob
    <3>1. tick.at \in Int /\ tick.due \ {i} \in SUBSET InviteIds
      BY <1>0, <1>5, ScanIs DEF TickInviteRow
    <3>2. tick' = [pc |-> "rows", at |-> tick.at, due |-> tick.due \ {i}]
      BY <1>0, <1>5, ScanIs DEF TickInviteRow
    <3> QED BY <3>1, <3>2 DEF TickJob
  <2>2. StoresOK' /\ RowsOK' /\ CountsOK' /\ job' \in [Handlers -> Job]
    BY <1>0, <1>5 DEF TickInviteRow, mem, StoresOK, RowsOK, CountsOK
  <2> QED BY <2>1, <2>2, NextParts
<1>6. ASSUME NEW s \in SessionIds, TickEnd(s) PROVE TypeOK'
  <2> DEFINE left == [tick.left EXCEPT ![s] = None]
  <2>1. tick.at \in Int /\ left \in [SessionIds -> Session \cup {None}]
    BY <1>0, <1>6, ScanIs DEF TickEnd
  <2>2. tick' \in TickJob
    <3>1. tick' = [pc |-> "row", at |-> tick.at, left |-> left, sid |-> s]
          \/ tick' = [pc |-> "scan", at |-> tick.at, left |-> left]
      BY <1>0, <1>6, ScanIs DEF TickEnd
    <3> HIDE DEF left
    <3> QED BY <2>1, <3>1 DEF TickJob
  <2>3. StoresOK'
    BY <1>0, <1>6 DEF TickEnd, StoresOK
  <2>4. RowsOK' /\ CountsOK' /\ job' \in [Handlers -> Job]
    BY <1>0, <1>6 DEF TickEnd, db, RowsOK, CountsOK
  <2> QED BY <2>2, <2>3, <2>4, NextParts
<1>7. ASSUME NEW s \in SessionIds, TickKeep(s) PROVE TypeOK'
  <2>1. tick' \in TickJob
    <3>1. tick.at \in Int /\ [tick.left EXCEPT ![s] = None] \in [SessionIds -> Session \cup {None}]
      BY <1>0, <1>7, ScanIs DEF TickKeep
    <3>2. tick' = [pc |-> "scan", at |-> tick.at, left |-> [tick.left EXCEPT ![s] = None]]
      BY <1>0, <1>7, ScanIs DEF TickKeep
    <3> QED BY <3>1, <3>2 DEF TickJob
  <2>2. StoresOK' /\ RowsOK' /\ CountsOK' /\ job' \in [Handlers -> Job]
    BY <1>0, <1>7 DEF TickKeep, mem, db, StoresOK, RowsOK, CountsOK
  <2> QED BY <2>1, <2>2, NextParts
<1> QED
  BY <1>1, <1>2, <1>3, <1>4, <1>5, <1>6, <1>7 DEF Tick

LEMMA RestartType ==
    ASSUME TypeOK, Restart
    PROVE  TypeOK'
<1>0. /\ StoresOK /\ RowsOK /\ CountsOK
      /\ job \in [Handlers -> Job] /\ tick \in TickJob
  BY TypeParts
<1>1. \A row \in Session : Restored(row) \in Session
  BY DEF Restored, Session, States
<1>2. invites' \in [InviteIds -> Invite \cup {None}]
  BY <1>0 DEF Restart, RowsOK
<1>3. sessions' \in [SessionIds -> Session \cup {None}]
  <2>1. PICK ids \in Loaded(SessionRows) :
            sessions' = [s \in SessionIds |-> IF s \in ids THEN Restored(db_sessions[s]) ELSE None]
    BY DEF Restart
  <2>2. \A s \in ids : db_sessions[s] \in Session
    BY <1>0, <2>1 DEF Loaded, Fits, SessionRows, RowsOK
  <2> QED BY <1>1, <2>1, <2>2
<1>4. policy' \in [Dogs -> Policy] /\ sent' \in [Dogs -> Nat]
  BY <1>0 DEF Restart, RowsOK
<1>5. StoresOK'
  BY <1>0, <1>2, <1>3, <1>4 DEF StoresOK, Restart
<1>6. job' \in [Handlers -> Job] /\ tick' \in TickJob
  BY JobsAre DEF Restart, TickJob
<1>7. RowsOK' /\ CountsOK'
  BY <1>0 DEF Restart, db, RowsOK, CountsOK
<1> QED BY <1>5, <1>6, <1>7, NextParts

\* A handler whose client hangs up.
LEMMA DropIs ==
    ASSUME job \in [Handlers -> Job], NEW h \in Handlers, Drop(h)
    PROVE  /\ UNCHANGED <<clock, invites, sessions, policy, sent, db_invites, db_sessions,
                          db_policy, tick, made, requests, restarts>>
           /\ job' \in [Handlers -> Job]
           /\ job'[h].pc = "idle" /\ \A g \in Handlers \ {h} : job'[g] = job[g]
<1>1. job' = [job EXCEPT ![h] = Idle]
  BY DEF Drop, Goto
<1> QED BY <1>1, JobsAre DEF Drop, mem, db, Idle

LEMMA TypeStep ==
    ASSUME TypeOK, [Next]_vars
    PROVE  TypeOK'
<1>1. CASE UNCHANGED vars
  BY <1>1 DEF vars, mem, db, TypeOK
<1>2. CASE Second
  BY <1>2 DEF Second, mem, db, TypeOK
<1>3. ASSUME NEW h \in Handlers, Drop(h) PROVE TypeOK'
  BY <1>3, DropIs DEF TypeOK
<1> QED
  BY <1>1, <1>2, <1>3, TickType, RestartType, RequestType, StepType DEF Next

\* The stores hold records, and a handler finds the locals its next step reads.
THEOREM TypeCorrect == Spec => []TypeOK
  BY InitType, TypeStep, PTL DEF Spec

----------------------------------------------------------------------------
\* The inductive invariants.

\* Ids that anything speaks of were handed out.
IdsHandedOut ==
    /\ \A i \in InviteIds : invites[i] # None \/ db_invites[i] # None => i <= made.invites
    /\ \A s \in SessionIds : sessions[s] # None \/ db_sessions[s] # None => s <= made.sessions
    /\ \A h \in Handlers :
          /\ job[h].pc \in {"create_row", "cancel_close", "cancel_row", "accept_close",
                            "accept_insert", "accept_invite_row"} => job[h].id <= made.invites
          /\ job[h].pc \in {"accept_invite_row", "save_session", "end_end", "end_row",
                            "again_update"} => job[h].sid <= made.sessions
    /\ tick.pc = "rows" => \A i \in tick.due : i <= made.invites
    /\ tick.pc \in {"scan", "row"} =>
          \A s \in SessionIds : tick.left[s] # None => s <= made.sessions
    /\ tick.pc = "row" => tick.sid <= made.sessions

\* Whoever is about to delete a row has taken its record out of the store, and it does
\* not come back.
GoneBeforeRow ==
    /\ \A h \in Handlers :
          /\ job[h].pc \in {"cancel_row", "accept_insert", "accept_invite_row"} =>
                invites[job[h].id] = None
          /\ job[h].pc = "end_row" => sessions[job[h].sid] = None
    /\ tick.pc = "rows" => \A i \in tick.due : invites[i] = None
    /\ tick.pc = "row" => sessions[tick.sid] = None

CoverInv == IdsHandedOut /\ GoneBeforeRow

\* What has its row, or a handler about to write it, keeps the one or the other.
RowsFollow ==
    HasPool =>
        /\ \A i \in InviteIds : InviteCovered(i) => InviteCovered(i)'
        /\ \A s \in SessionIds : SessionCovered(s) => SessionCovered(s)'
StepCovers == CoverInv' /\ RowsFollow

\* Only limits that a steward may set, or the default ones, are in force.
InForce == Limits \cup {DefaultPolicy.limits}
LimitsInForce ==
    /\ \A d \in Dogs : policy[d].limits \in InForce
    /\ \A d \in Dogs : db_policy[d] # None => db_policy[d].limits \in InForce
    /\ \A h \in Handlers :
          job[h].pc \in {"flag_set", "flag_get", "flag_row", "policy_row", "policy_set"} =>
              job[h].pol.limits \in InForce

\* Deadlines, also those a handler still carries, are within their sessions or those of
\* a first segment, and an extension under way is within its session.
InTime(sess) == sess.deadline <= sess.max_end \/ FirstSegment(sess)
DeadlinesInTime ==
    /\ \A s \in SessionIds : sessions[s] # None => InTime(sessions[s])
    /\ \A s \in SessionIds : db_sessions[s] # None => InTime(db_sessions[s])
    /\ \A h \in Handlers :
          /\ job[h].pc \in {"accept_close", "accept_insert", "accept_invite_row", "save_session"} =>
                InTime(job[h].sess)
          /\ job[h].pc = "again_update" /\ sessions[job[h].sid] # None =>
                job[h].deadline <= sessions[job[h].sid].max_end

DeadlineInv == LimitsInForce /\ DeadlinesInTime

----------------------------------------------------------------------------
\* Rows cover what is live.

LEMMA OnlyRemoves == \A i \in InviteIds : AfterExpiry[i] # None => AfterExpiry[i] = invites[i]
  BY DEF AfterExpiry

LEMMA CoverRequest ==
    ASSUME TypeOK, CoverInv, NEW h \in Handlers, Request(h)
    PROVE  StepCovers
<1> USE DEF StepCovers, RowsFollow, InviteCovered, SessionCovered, CoverInv,
            IdsHandedOut, GoneBeforeRow, Goto, OrDone, Idle, At, mem,
            db, StoresOK, RowsOK, CountsOK, Receive
<1>0. /\ StoresOK /\ RowsOK /\ CountsOK
      /\ job \in [Handlers -> Job] /\ tick \in TickJob
      /\ job[h] \in Job
  BY TypeParts
<1>1. ASSUME NEW d \in Dogs, NEW to \in Dogs, CreateRoute(h, d, to) PROVE StepCovers
  <2>1. \A i \in InviteIds : invites'[i] # None => invites[i] # None
    BY <1>1, OnlyRemoves DEF CreateRoute
  <2>2. IdsHandedOut'
    BY <1>1, <1>0, <2>1 DEF CreateRoute
  <2>3. GoneBeforeRow'
    <3>1. /\ \A g \in Handlers : job'[g] = job[g] \/ job'[g].pc = "create_peer"
          /\ UNCHANGED <<sessions, tick>>
      BY <1>1, <1>0 DEF CreateRoute
    <3>2. \A g \in Handlers : job[g] \in Job
      BY <1>0
    <3> QED BY <1>0, <2>1, <3>1, <3>2, LocalsAre, ScanIs
  <2>4. RowsFollow
    BY <1>1, <1>0, <2>1 DEF CreateRoute
  <2> QED BY <2>2, <2>3, <2>4
<1>2. ASSUME NEW kind, NEW d \in Dogs, SweepOnly(h, kind, d) PROVE StepCovers
  <2>1. \A i \in InviteIds : invites'[i] # None => invites[i] # None
    BY <1>2, OnlyRemoves DEF SweepOnly
  <2>2. IdsHandedOut'
    BY <1>2, <1>0, <2>1 DEF SweepOnly
  <2>3. GoneBeforeRow'
    <3>1. /\ \A g \in Handlers : job'[g] = job[g] \/ job'[g].pc = "create_peer"
          /\ UNCHANGED <<sessions, tick>>
      BY <1>2, <1>0 DEF SweepOnly
    <3>2. \A g \in Handlers : job[g] \in Job
      BY <1>0
    <3> QED BY <1>0, <2>1, <3>1, <3>2, LocalsAre, ScanIs
  <2>4. RowsFollow
    BY <1>2, <1>0, <2>1 DEF SweepOnly
  <2> QED BY <2>2, <2>3, <2>4
<1>3. ASSUME NEW i \in InviteIds, CancelGet(h, i) PROVE StepCovers
  BY <1>3, <1>0 DEF CancelGet
<1>4. ASSUME NEW i \in InviteIds, AcceptGet(h, i) PROVE StepCovers
  <2>1. \A k \in InviteIds : invites'[k] # None => invites[k] # None
    BY <1>4, OnlyRemoves DEF AcceptGet
  <2>2. invites[i] # None
    BY <1>4, OnlyRemoves DEF AcceptGet
  <2>3. IdsHandedOut'
    BY <1>4, <1>0, <2>1, <2>2 DEF AcceptGet
  <2>4. GoneBeforeRow'
    <3>1. /\ \A g \in Handlers : job'[g] = job[g] \/ job'[g].pc = "accept_close"
          /\ UNCHANGED <<sessions, tick>>
      BY <1>4, <1>0 DEF AcceptGet
    <3>2. \A g \in Handlers : job[g] \in Job
      BY <1>0
    <3> QED BY <1>0, <2>1, <3>1, <3>2, LocalsAre, ScanIs
  <2>5. RowsFollow
    BY <1>4, <1>0, <2>1 DEF AcceptGet
  <2> QED BY <2>3, <2>4, <2>5
<1>5. ASSUME NEW s \in SessionIds, EndGet(h, s) PROVE StepCovers
  BY <1>5, <1>0 DEF EndGet
<1>6. ASSUME NEW s \in SessionIds, NEW d \in Dogs, NEW ready \in BOOLEAN, MediaReady(h, s, d, ready)
      PROVE  StepCovers
  BY <1>6, <1>0 DEF MediaReady
<1>7. ASSUME NEW s \in SessionIds, NEW d \in Dogs, AgainGet(h, s, d) PROVE StepCovers
  BY <1>7, <1>0 DEF AgainGet
<1>8. ASSUME NEW kind, NEW d \in Dogs, NEW on \in BOOLEAN, FlagRead(h, kind, d, on) PROVE StepCovers
  BY <1>8, <1>0 DEF FlagRead
<1>9. ASSUME NEW d \in Dogs, NEW l \in Limits, PolicyRead(h, d, l) PROVE StepCovers
  BY <1>9, <1>0 DEF PolicyRead
<1> HIDE DEF StepCovers, RowsFollow, InviteCovered, SessionCovered, CoverInv,
            IdsHandedOut, GoneBeforeRow, Goto, OrDone, Idle, At, mem,
             db, StoresOK, RowsOK, CountsOK, Receive
<1> QED
  BY <1>1, <1>2, <1>3, <1>4, <1>5, <1>6, <1>7, <1>8, <1>9 DEF Request

LEMMA CoverStep ==
    ASSUME TypeOK, CoverInv, NEW h \in Handlers, Step(h)
    PROVE  StepCovers
<1> USE DEF StepCovers, RowsFollow, InviteCovered, SessionCovered, CoverInv,
            IdsHandedOut, GoneBeforeRow, Goto, OrDone, Idle, At, mem,
            db, StoresOK, RowsOK, CountsOK, AfterFlag
<1>0. /\ StoresOK /\ RowsOK /\ CountsOK
      /\ job \in [Handlers -> Job] /\ tick \in TickJob
      /\ job[h] \in Job
  BY TypeParts
<1>1. ASSUME CreatePeer(h) PROVE StepCovers
  BY <1>1, <1>0, LocalsAre DEF CreatePeer
<1>2. ASSUME CreateRefused(h) PROVE StepCovers
  BY <1>2, <1>0, LocalsAre DEF CreateRefused
<1>3. ASSUME CreateInsert(h) PROVE StepCovers
  <2>1. made.invites \in Nat /\ made.invites + 1 \in InviteIds /\ made'.invites = made.invites + 1
    BY <1>3, <1>0 DEF CreateInsert
  <2>2. \A i \in InviteIds : i # made.invites + 1 => invites'[i] = invites[i]
    BY <1>3, <1>0 DEF CreateInsert
  <2>3. IdsHandedOut'
    <3>1. /\ \A g \in Handlers \ {h} : job'[g] = job[g]
          /\ (job'[h].pc = "create_row" /\ job'[h].id = made'.invites) \/ job'[h].pc = "idle"
          /\ UNCHANGED <<sessions, db, tick>> /\ made'.sessions = made.sessions
      BY <1>3, <1>0 DEF CreateInsert
    <3>2. \A g \in Handlers : job[g] \in Job
      BY <1>0
    <3>3. \A i \in InviteIds : i \in Int /\ (i <= made.invites => i <= made'.invites)
      BY <2>1 DEF InviteIds
    <3> QED BY <1>0, <2>1, <2>2, <3>1, <3>2, <3>3, LocalsAre, ScanIs
  <2>4. GoneBeforeRow'
    <3>1. \A g \in Handlers \ {h} : job'[g] = job[g]
      BY <1>3, <1>0 DEF CreateInsert
    <3>2. job'[h].pc \in {"create_row", "idle"} /\ UNCHANGED <<sessions, tick>>
      BY <1>3, <1>0 DEF CreateInsert
    <3>3. \A i \in InviteIds : i <= made.invites => invites'[i] = invites[i]
      BY <2>1, <2>2 DEF InviteIds
    <3>4. \A g \in Handlers : job[g] \in Job
      BY <1>0
    <3> QED BY <1>0, <3>1, <3>2, <3>3, <3>4, LocalsAre, ScanIs
  <2>5. RowsFollow
    BY <1>3, <1>0, <2>1, <2>2 DEF CreateInsert
  <2> QED BY <2>3, <2>4, <2>5
<1>4. ASSUME CreateBusy(h) PROVE StepCovers
  BY <1>4, <1>0, LocalsAre DEF CreateBusy
<1>5. ASSUME CreateRow(h) PROVE StepCovers
  BY <1>5, <1>0, LocalsAre DEF CreateRow
<1>6. ASSUME CancelClose(h) PROVE StepCovers
  BY <1>6, <1>0, LocalsAre DEF CancelClose
<1>7. ASSUME CancelRow(h) PROVE StepCovers
  BY <1>7, <1>0, LocalsAre DEF CancelRow
<1>8. ASSUME AcceptClose(h) PROVE StepCovers
  BY <1>8, <1>0, LocalsAre DEF AcceptClose
<1>9. ASSUME AcceptInsert(h) PROVE StepCovers
  <2>1. /\ made.sessions \in Nat /\ made.sessions + 1 \in SessionIds
        /\ made'.sessions = made.sessions + 1 /\ made'.invites = made.invites
    BY <1>9, <1>0 DEF AcceptInsert
  <2>2. \A s \in SessionIds : s # made.sessions + 1 => sessions'[s] = sessions[s]
    BY <1>9, <1>0 DEF AcceptInsert
  <2>3. IdsHandedOut'
    <3>1. /\ \A g \in Handlers \ {h} : job'[g] = job[g]
          /\ \/ /\ job'[h].pc = "accept_invite_row"
                /\ job'[h].sid = made'.sessions /\ job'[h].id <= made.invites
             \/ job'[h].pc = "idle"
          /\ UNCHANGED <<invites, db, tick>>
      BY <1>9, <1>0 DEF AcceptInsert
    <3>2. \A g \in Handlers : job[g] \in Job
      BY <1>0
    <3>3. \A s \in SessionIds : s \in Int /\ (s <= made.sessions => s <= made'.sessions)
      BY <2>1 DEF SessionIds
    <3> QED BY <1>0, <2>1, <2>2, <3>1, <3>2, <3>3, LocalsAre, ScanIs
  <2>4. GoneBeforeRow'
    <3>1. \A g \in Handlers \ {h} : job'[g] = job[g]
      BY <1>9, <1>0 DEF AcceptInsert
    <3>2. /\ UNCHANGED <<invites, tick>>
          /\ \/ job'[h].pc = "accept_invite_row" /\ invites[job'[h].id] = None
             \/ job'[h].pc = "idle"
      BY <1>9, <1>0 DEF AcceptInsert
    <3>3. \A s \in SessionIds : s <= made.sessions => sessions'[s] = sessions[s]
      BY <2>1, <2>2 DEF SessionIds
    <3>4. \A g \in Handlers : job[g] \in Job
      BY <1>0
    <3> QED BY <1>0, <3>1, <3>2, <3>3, <3>4, LocalsAre, ScanIs
  <2>5. RowsFollow
    BY <1>9, <1>0, <2>1, <2>2 DEF AcceptInsert
  <2> QED BY <2>3, <2>4, <2>5
<1>10. ASSUME AcceptBusy(h) PROVE StepCovers
  BY <1>10, <1>0, LocalsAre DEF AcceptBusy
<1>11. ASSUME AcceptInviteRow(h) PROVE StepCovers
  BY <1>11, <1>0, LocalsAre DEF AcceptInviteRow
<1>12. ASSUME SaveSession(h) PROVE StepCovers
  BY <1>12, <1>0, LocalsAre DEF SaveSession
<1>13. ASSUME EndEnd(h) PROVE StepCovers
  BY <1>13, <1>0, LocalsAre DEF EndEnd
<1>14. ASSUME EndRow(h) PROVE StepCovers
  BY <1>14, <1>0, LocalsAre DEF EndRow
<1>15. ASSUME AgainUpdate(h) PROVE StepCovers
  BY <1>15, <1>0, LocalsAre DEF AgainUpdate
<1>16. ASSUME AgainGone(h) PROVE StepCovers
  BY <1>16, <1>0, LocalsAre DEF AgainGone
<1>17. ASSUME FlagSet(h) PROVE StepCovers
  BY <1>17, <1>0, LocalsAre DEF FlagSet
<1>18. ASSUME FlagGet(h) PROVE StepCovers
  BY <1>18, <1>0, LocalsAre DEF FlagGet
<1>19. ASSUME FlagRow(h) PROVE StepCovers
  BY <1>19, <1>0, LocalsAre DEF FlagRow
<1>20. ASSUME NEW s \in SessionIds, StopEnd(h, s) PROVE StepCovers
  BY <1>20, <1>0, LocalsAre DEF StopEnd
<1>21. ASSUME StopNothing(h) PROVE StepCovers
  BY <1>21, <1>0, LocalsAre DEF StopNothing
<1>22. ASSUME PolicyRow(h) PROVE StepCovers
  BY <1>22, <1>0, LocalsAre DEF PolicyRow
<1>23. ASSUME PolicySet(h) PROVE StepCovers
  BY <1>23, <1>0, LocalsAre DEF PolicySet
<1> HIDE DEF StepCovers, RowsFollow, InviteCovered, SessionCovered, CoverInv,
            IdsHandedOut, GoneBeforeRow, Goto, OrDone, Idle, At, mem,
             db, StoresOK, RowsOK, CountsOK, AfterFlag
<1> QED
  BY <1>1, <1>2, <1>3, <1>4, <1>5, <1>6, <1>7, <1>8, <1>9, <1>10, <1>11, <1>12, <1>13,
     <1>14, <1>15, <1>16, <1>17, <1>18, <1>19, <1>20, <1>21, <1>22, <1>23 DEF Step

LEMMA CoverTick ==
    ASSUME TypeOK, CoverInv, Tick
    PROVE  StepCovers
<1> USE DEF StepCovers, RowsFollow, InviteCovered, SessionCovered, CoverInv,
            IdsHandedOut, GoneBeforeRow, Goto, OrDone, Idle, At, mem,
            db, StoresOK, RowsOK, CountsOK, Asleep
<1>0. /\ StoresOK /\ RowsOK /\ CountsOK
      /\ job \in [Handlers -> Job] /\ tick \in TickJob
  BY TypeParts
<1>1. ASSUME TickStart PROVE StepCovers
  <2>1. \A i \in InviteIds : invites'[i] # None => invites[i] # None
    BY <1>1, OnlyRemoves DEF TickStart
  <2>2. /\ tick'.pc = "rows"
        /\ \A i \in tick'.due : i \in InviteIds /\ invites[i] # None /\ invites'[i] = None
    BY <1>1, <1>0 DEF TickStart, Due, AfterExpiry
  <2>3. IdsHandedOut'
    BY <1>1, <1>0, <2>1, <2>2 DEF TickStart
  <2>4. GoneBeforeRow'
    <3>1. UNCHANGED <<job, sessions>> /\ \A g \in Handlers : job[g] \in Job
      BY <1>1, <1>0 DEF TickStart
    <3> QED BY <2>1, <2>2, <3>1, LocalsAre
  <2>5. RowsFollow
    BY <1>1, <1>0, <2>1 DEF TickStart
  <2> QED BY <2>3, <2>4, <2>5
<1>2. ASSUME TickAll PROVE StepCovers
  BY <1>2, <1>0, ScanIs DEF TickAll
<1>3. ASSUME TickRow PROVE StepCovers
  BY <1>3, <1>0, ScanIs DEF TickRow
<1>4. ASSUME TickDone PROVE StepCovers
  BY <1>4, <1>0, ScanIs DEF TickDone
<1>5. ASSUME NEW i \in InviteIds, TickInviteRow(i) PROVE StepCovers
  BY <1>5, <1>0, ScanIs DEF TickInviteRow
<1>6. ASSUME NEW s \in SessionIds, TickEnd(s) PROVE StepCovers
  BY <1>6, <1>0, ScanIs DEF TickEnd
<1>7. ASSUME NEW s \in SessionIds, TickKeep(s) PROVE StepCovers
  BY <1>7, <1>0, ScanIs DEF TickKeep
<1> HIDE DEF StepCovers, RowsFollow, InviteCovered, SessionCovered, CoverInv,
            IdsHandedOut, GoneBeforeRow, Goto, OrDone, Idle, At, mem,
             db, StoresOK, RowsOK, CountsOK, Asleep
<1> QED
  BY <1>1, <1>2, <1>3, <1>4, <1>5, <1>6, <1>7 DEF Tick

LEMMA CoverRestart ==
    ASSUME TypeOK, CoverInv, Restart
    PROVE  StepCovers
<1>1. \A i \in InviteIds : invites'[i] # None => db_invites[i] # None
  BY DEF Restart
<1>2. \A s \in SessionIds : sessions'[s] # None => db_sessions[s] # None
  <2>1. PICK ids \in Loaded(SessionRows) :
            sessions' = [s \in SessionIds |-> IF s \in ids THEN Restored(db_sessions[s]) ELSE None]
    BY DEF Restart
  <2> QED BY <2>1 DEF Loaded, Fits, SessionRows
<1>3. \A h \in Handlers : job'[h].pc = "idle"
  BY DEF Restart, Idle
<1>4. tick'.pc = "asleep" /\ UNCHANGED <<db, made>>
  BY DEF Restart, Asleep
<1> QED
  BY <1>1, <1>2, <1>3, <1>4 DEF StepCovers, RowsFollow, InviteCovered, SessionCovered, CoverInv,
            IdsHandedOut, GoneBeforeRow, db

LEMMA CoverStepped ==
    ASSUME TypeOK, CoverInv, [Next]_vars
    PROVE  CoverInv' /\ (RowsFollow \/ \E h \in Handlers : Drop(h))
<1>1. CASE UNCHANGED vars \/ Second
  <2>1. CoverInv'
    BY <1>1 DEF Second, vars, mem, db, CoverInv, IdsHandedOut, GoneBeforeRow
  <2>2. RowsFollow
    BY <1>1 DEF Second, vars, mem, db, RowsFollow, InviteCovered, SessionCovered, At
  <2> QED BY <2>1, <2>2
<1>2. ASSUME NEW h \in Handlers, Drop(h) PROVE CoverInv'
  BY <1>2, DropIs DEF TypeOK, CoverInv, IdsHandedOut, GoneBeforeRow
<1> QED
  BY <1>1, <1>2, CoverRequest, CoverStep, CoverTick, CoverRestart DEF Next, StepCovers

LEMMA InitCover == Init => CoverInv
  BY DEF Init, CoverInv, IdsHandedOut, GoneBeforeRow, Idle, Asleep

\* However the deletes of old rows and the saves of new ones interleave, no live record
\* loses its row or the handler that will write it, unless that handler's client hangs up.
THEOREM RowsCover == Spec => RowsCoverLive
<1>1. Init => TypeOK /\ CoverInv
  BY InitType, InitCover
<1>2. TypeOK /\ CoverInv /\ [Next]_vars => TypeOK' /\ CoverInv'
  BY TypeStep, CoverStepped
<1>3. ASSUME TypeOK, CoverInv, [Next]_vars
      PROVE  [HasPool =>
                \/ \E h \in Handlers : Drop(h)
                \/ /\ \A i \in InviteIds : InviteCovered(i) => InviteCovered(i)'
                   /\ \A s \in SessionIds : SessionCovered(s) => SessionCovered(s)']_vars
  BY <1>3, CoverStepped DEF RowsFollow
<1> QED
  BY <1>1, <1>2, <1>3, PTL DEF Spec, RowsCoverLive

----------------------------------------------------------------------------
\* No two contacts share a dog, and ended sessions stay ended.

\* What a step does to the invites, and to the sessions, that were there.
InvitesKept == \A i \in InviteIds : invites'[i] # None => invites'[i] = invites[i]
SameSession(s, r) == r # None /\ SessionDogs(s) = SessionDogs(r) /\ s.max_end = r.max_end
SessionsKept ==
    \A s \in SessionIds : sessions'[s] # None => SameSession(sessions'[s], sessions[s])
Kept == InvitesKept /\ SessionsKept

LEMMA UnchangedKept ==
    /\ invites' = invites => InvitesKept
    /\ sessions' = sessions => SessionsKept
  BY DEF InvitesKept, SessionsKept, SameSession

LEMMA RequestKeeps ==
    ASSUME TypeOK, NEW h \in Handlers, Request(h)
    PROVE  Kept
<1>0. StoresOK /\ job[h] \in Job
  BY TypeParts
<1>1. ASSUME NEW d \in Dogs, NEW to \in Dogs, CreateRoute(h, d, to) PROVE Kept
  BY <1>1, OnlyRemoves, UnchangedKept DEF CreateRoute, Kept, InvitesKept
<1>2. ASSUME NEW kind, NEW d \in Dogs, SweepOnly(h, kind, d) PROVE Kept
  BY <1>2, OnlyRemoves, UnchangedKept DEF SweepOnly, Kept, InvitesKept
<1>3. ASSUME NEW i \in InviteIds, CancelGet(h, i) PROVE Kept
  BY <1>3, UnchangedKept DEF CancelGet, mem, Kept
<1>4. ASSUME NEW i \in InviteIds, AcceptGet(h, i) PROVE Kept
  BY <1>4, OnlyRemoves, UnchangedKept DEF AcceptGet, Kept, InvitesKept
<1>5. ASSUME NEW s \in SessionIds, EndGet(h, s) PROVE Kept
  BY <1>5, UnchangedKept DEF EndGet, mem, Kept
<1>6. ASSUME NEW s \in SessionIds, NEW d \in Dogs, NEW ready \in BOOLEAN, MediaReady(h, s, d, ready)
      PROVE  Kept
  <2>1. sessions[s] \in Session
    BY <1>6, <1>0 DEF MediaReady, StoresOK
  <2>2. SameSession(Reported(sessions[s], d, ready), sessions[s])
    BY <1>6, <2>1 DEF MediaReady, Reported, SameSession, SessionDogs, Session
  <2> QED BY <1>6, <1>0, <2>2, UnchangedKept DEF MediaReady, Kept, SessionsKept, SameSession, StoresOK
<1>7. ASSUME NEW s \in SessionIds, NEW d \in Dogs, AgainGet(h, s, d) PROVE Kept
  BY <1>7, UnchangedKept DEF AgainGet, mem, Kept
<1>8. ASSUME NEW kind, NEW d \in Dogs, NEW on \in BOOLEAN, FlagRead(h, kind, d, on) PROVE Kept
  BY <1>8, UnchangedKept DEF FlagRead, mem, Kept
<1>9. ASSUME NEW d \in Dogs, NEW l \in Limits, PolicyRead(h, d, l) PROVE Kept
  BY <1>9, UnchangedKept DEF PolicyRead, mem, Kept
<1> QED
  BY <1>1, <1>2, <1>3, <1>4, <1>5, <1>6, <1>7, <1>8, <1>9 DEF Request

LEMMA StepKeeps ==
    ASSUME TypeOK, NEW h \in Handlers, Step(h), ~ CreateInsert(h), ~ AcceptInsert(h)
    PROVE  Kept
<1>0. StoresOK /\ job[h] \in Job
  BY TypeParts
<1>1. ASSUME CreatePeer(h) PROVE Kept
  BY <1>1, UnchangedKept DEF CreatePeer, mem, Kept
<1>2. ASSUME CreateRefused(h) PROVE Kept
  BY <1>2, UnchangedKept DEF CreateRefused, mem, Kept
<1>3. ASSUME CreateBusy(h) PROVE Kept
  BY <1>3, UnchangedKept DEF CreateBusy, mem, Kept
<1>4. ASSUME CreateRow(h) PROVE Kept
  BY <1>4, UnchangedKept DEF CreateRow, mem, Kept
<1>5. ASSUME CancelClose(h) PROVE Kept
  BY <1>5, <1>0, UnchangedKept, LocalsAre DEF CancelClose, At, Kept, InvitesKept, StoresOK
<1>6. ASSUME CancelRow(h) PROVE Kept
  BY <1>6, UnchangedKept DEF CancelRow, mem, Kept
<1>7. ASSUME AcceptClose(h) PROVE Kept
  BY <1>7, <1>0, UnchangedKept, LocalsAre DEF AcceptClose, At, Kept, InvitesKept, StoresOK
<1>8. ASSUME AcceptBusy(h) PROVE Kept
  BY <1>8, UnchangedKept DEF AcceptBusy, mem, Kept
<1>9. ASSUME AcceptInviteRow(h) PROVE Kept
  BY <1>9, UnchangedKept DEF AcceptInviteRow, mem, Kept
<1>10. ASSUME SaveSession(h) PROVE Kept
  BY <1>10, UnchangedKept DEF SaveSession, mem, Kept
<1>11. ASSUME EndEnd(h) PROVE Kept
  BY <1>11, <1>0, UnchangedKept, LocalsAre DEF EndEnd, At, Kept, SessionsKept, SameSession, StoresOK
<1>12. ASSUME EndRow(h) PROVE Kept
  BY <1>12, UnchangedKept DEF EndRow, mem, Kept
<1>13. ASSUME AgainUpdate(h) PROVE Kept
  <2> DEFINE s == job[h].sid
             new == [sessions[s] EXCEPT !.deadline = job[h].deadline]
  <2>1. s \in SessionIds /\ sessions[s] \in Session
    BY <1>13, <1>0, LocalsAre DEF AgainUpdate, At, StoresOK
  <2>2. SameSession(new, sessions[s])
    BY <1>13, <2>1 DEF AgainUpdate, SameSession, SessionDogs, Session
  <2>3. sessions' = [sessions EXCEPT ![s] = new] /\ invites' = invites
    BY <1>13 DEF AgainUpdate
  <2> HIDE DEF new, s
  <2> QED BY <1>0, <2>1, <2>2, <2>3, UnchangedKept DEF Kept, SessionsKept, SameSession, StoresOK
<1>14. ASSUME AgainGone(h) PROVE Kept
  BY <1>14, UnchangedKept DEF AgainGone, mem, Kept
<1>15. ASSUME FlagSet(h) PROVE Kept
  BY <1>15, UnchangedKept DEF FlagSet, mem, Kept
<1>16. ASSUME FlagGet(h) PROVE Kept
  BY <1>16, UnchangedKept DEF FlagGet, mem, Kept
<1>17. ASSUME FlagRow(h) PROVE Kept
  BY <1>17, UnchangedKept DEF FlagRow, mem, Kept
<1>18. ASSUME NEW s \in SessionIds, StopEnd(h, s) PROVE Kept
  BY <1>18, <1>0, UnchangedKept DEF StopEnd, At, Kept, SessionsKept, SameSession, StoresOK
<1>19. ASSUME StopNothing(h) PROVE Kept
  BY <1>19, UnchangedKept DEF StopNothing, mem, Kept
<1>20. ASSUME PolicyRow(h) PROVE Kept
  BY <1>20, UnchangedKept DEF PolicyRow, mem, Kept
<1>21. ASSUME PolicySet(h) PROVE Kept
  BY <1>21, UnchangedKept DEF PolicySet, mem, Kept
<1> QED
  BY <1>1, <1>2, <1>3, <1>4, <1>5, <1>6, <1>7, <1>8, <1>9, <1>10, <1>11, <1>12, <1>13,
     <1>14, <1>15, <1>16, <1>17, <1>18, <1>19, <1>20, <1>21 DEF Step

LEMMA TickKeeps ==
    ASSUME TypeOK, Tick
    PROVE  Kept
<1>0. StoresOK /\ tick \in TickJob
  BY TypeParts
<1>1. ASSUME TickStart PROVE Kept
  BY <1>1, OnlyRemoves, UnchangedKept DEF TickStart, Kept, InvitesKept
<1>2. ASSUME TickAll PROVE Kept
  BY <1>2, UnchangedKept DEF TickAll, mem, Kept
<1>3. ASSUME TickRow PROVE Kept
  BY <1>3, UnchangedKept DEF TickRow, mem, Kept
<1>4. ASSUME TickDone PROVE Kept
  BY <1>4, UnchangedKept DEF TickDone, mem, Kept
<1>5. ASSUME NEW i \in InviteIds, TickInviteRow(i) PROVE Kept
  BY <1>5, UnchangedKept DEF TickInviteRow, mem, Kept
<1>6. ASSUME NEW s \in SessionIds, TickEnd(s) PROVE Kept
  BY <1>6, <1>0, UnchangedKept DEF TickEnd, At, Kept, SessionsKept, SameSession, StoresOK
<1>7. ASSUME NEW s \in SessionIds, TickKeep(s) PROVE Kept
  BY <1>7, UnchangedKept DEF TickKeep, mem, Kept
<1> QED
  BY <1>1, <1>2, <1>3, <1>4, <1>5, <1>6, <1>7 DEF Tick

LEMMA NextKeeps ==
    ASSUME TypeOK, [Next]_vars
    PROVE  \/ Kept \/ Restart
           \/ \E h \in Handlers : CreateInsert(h) \/ AcceptInsert(h)
<1>1. CASE UNCHANGED vars \/ Second
  BY <1>1, UnchangedKept DEF Second, vars, mem, Kept
<1>2. ASSUME NEW h \in Handlers, Drop(h) PROVE Kept
  BY <1>2, UnchangedKept DEF Drop, mem, Kept
<1> QED
  BY <1>1, <1>2, RequestKeeps, StepKeeps, TickKeeps DEF Next

\* What create and accept insert.
LEMMA CreateAdds ==
    ASSUME TypeOK, NEW h \in Handlers, CreateInsert(h)
    PROVE  /\ SessionsKept
           /\ \E id \in InviteIds, inv \in Invite :
                 /\ invites' = [invites EXCEPT ![id] = inv]
                 /\ \A d \in InviteDogs(inv) : ~ Ringing(d)
<1> DEFINE inv == [from |-> job[h].dog, to |-> job[h].to, expires |-> clock + RingTimeout]
<1>1. inv \in Invite
  <2>1. job[h] \in Job /\ clock \in Nat
    BY DEF TypeOK
  <2> QED BY <2>1, LocalsAre DEF CreateInsert, At, Invite
<1>2. \A d \in InviteDogs(inv) : ~ Ringing(d)
  BY DEF CreateInsert, InviteDogs
<1>3. made.invites + 1 \in InviteIds /\ invites' = [invites EXCEPT ![made.invites + 1] = inv]
  BY DEF CreateInsert
<1>4. SessionsKept
  BY UnchangedKept DEF CreateInsert
<1> HIDE DEF inv
<1> QED BY <1>1, <1>2, <1>3, <1>4

LEMMA AcceptAdds ==
    ASSUME TypeOK, NEW h \in Handlers, AcceptInsert(h)
    PROVE  /\ InvitesKept
           /\ job[h].sess \in Session
           /\ made.sessions + 1 \in SessionIds
           /\ sessions' = [sessions EXCEPT ![made.sessions + 1] = job[h].sess]
           /\ \A d \in SessionDogs(job[h].sess) : ~ InSession(d)
<1>1. job[h] \in Job
  BY DEF TypeOK
<1> QED
  BY <1>1, LocalsAre, UnchangedKept DEF AcceptInsert, At, SessionDogs

InvitesApart ==
    \A i, j \in InviteIds :
        invites[i] # None /\ invites[j] # None /\ i # j =>
            InviteDogs(invites[i]) \cap InviteDogs(invites[j]) = {}
SessionsApart ==
    \A s, t \in SessionIds :
        sessions[s] # None /\ sessions[t] # None /\ s # t =>
            SessionDogs(sessions[s]) \cap SessionDogs(sessions[t]) = {}

LEMMA ApartKept ==
    /\ InvitesApart /\ InvitesKept => InvitesApart'
    /\ SessionsApart /\ SessionsKept => SessionsApart'
<1>1. ASSUME InvitesApart, InvitesKept PROVE InvitesApart'
  BY <1>1 DEF InvitesApart, InvitesKept
<1>2. ASSUME SessionsApart, SessionsKept PROVE SessionsApart'
  BY <1>2 DEF SessionsApart, SessionsKept, SameSession
<1> QED BY <1>1, <1>2

LEMMA CreateApart ==
    ASSUME TypeOK, InvitesApart, SessionsApart, NEW h \in Handlers, CreateInsert(h)
    PROVE  InvitesApart' /\ SessionsApart'
<1>1. PICK id \in InviteIds, inv \in Invite :
         /\ invites' = [invites EXCEPT ![id] = inv]
         /\ \A d \in InviteDogs(inv) : ~ Ringing(d)
  BY CreateAdds
<1>2. \A i \in InviteIds : invites[i] # None => InviteDogs(invites[i]) \cap InviteDogs(inv) = {}
  BY <1>1 DEF Ringing, InviteDogs
<1>3. invites'[id] = inv /\ \A i \in InviteIds \ {id} : invites'[i] = invites[i]
  BY <1>1 DEF TypeOK
<1>4. InvitesApart'
  BY <1>2, <1>3 DEF InvitesApart
<1> QED BY <1>4, CreateAdds, ApartKept

LEMMA AcceptApart ==
    ASSUME TypeOK, InvitesApart, SessionsApart, NEW h \in Handlers, AcceptInsert(h)
    PROVE  InvitesApart' /\ SessionsApart'
<1> DEFINE id == made.sessions + 1
           sess == job[h].sess
<1>1. /\ id \in SessionIds
      /\ sessions' = [sessions EXCEPT ![id] = sess]
      /\ \A d \in SessionDogs(sess) : ~ InSession(d)
  BY AcceptAdds
<1> HIDE DEF id, sess
<1>2. \A s \in SessionIds : sessions[s] # None => SessionDogs(sessions[s]) \cap SessionDogs(sess) = {}
  BY <1>1 DEF InSession, SessionDogs
<1>3. sessions'[id] = sess /\ \A s \in SessionIds \ {id} : sessions'[s] = sessions[s]
  BY <1>1 DEF TypeOK
<1>4. SessionsApart'
  BY <1>2, <1>3 DEF SessionsApart
<1> QED BY <1>4, AcceptAdds, ApartKept

\* load_into inserts no two rows with a dog in common.
LEMMA RestartApart ==
    ASSUME TypeOK, Restart
    PROVE  InvitesApart' /\ SessionsApart'
<1>1. PICK ids \in Loaded(InviteRows) :
         invites' = [i \in InviteIds |-> IF i \in ids THEN db_invites[i] ELSE None]
  BY DEF Restart
<1>2. InvitesApart'
  BY <1>1 DEF InvitesApart, Loaded, Fits, InviteRows
<1>3. PICK sids \in Loaded(SessionRows) :
         sessions' = [s \in SessionIds |-> IF s \in sids THEN Restored(db_sessions[s]) ELSE None]
  BY DEF Restart
<1>4. \A s \in SessionIds :
         db_sessions[s] # None => SessionDogs(Restored(db_sessions[s])) = SessionDogs(db_sessions[s])
  BY DEF TypeOK, Restored, SessionDogs, Session
<1>5. SessionsApart'
  <2>1. \A s, t \in sids : s # t => SessionRows[s] \cap SessionRows[t] = {}
    BY <1>3 DEF Loaded, Fits
  <2>2. \A s \in sids : s \in SessionIds /\ db_sessions[s] # None
    BY <1>3 DEF Loaded, Fits, SessionRows
  <2>3. \A s \in sids : SessionRows[s] = SessionDogs(db_sessions[s])
    BY <2>2 DEF SessionRows
  <2>4. \A s \in SessionIds :
           sessions'[s] # None => s \in sids /\ SessionDogs(sessions'[s]) = SessionRows[s]
    BY <1>3, <1>4, <2>2, <2>3
  <2> QED BY <2>1, <2>4 DEF SessionsApart
<1> QED BY <1>2, <1>5

LEMMA ApartStep ==
    ASSUME TypeOK, NoSharedDog, [Next]_vars
    PROVE  NoSharedDog'
<1>1. InvitesApart /\ SessionsApart
  BY DEF NoSharedDog, InvitesApart, SessionsApart
<1>2. InvitesApart' /\ SessionsApart'
  <2>1. CASE Restart
    BY <2>1, RestartApart
  <2>2. Kept => InvitesApart' /\ SessionsApart'
    BY <1>1, ApartKept DEF Kept
  <2>3. ASSUME NEW h \in Handlers, CreateInsert(h) \/ AcceptInsert(h)
        PROVE  InvitesApart' /\ SessionsApart'
    BY <1>1, <2>3, CreateApart, AcceptApart
  <2> QED BY <2>1, <2>2, <2>3, NextKeeps
<1> QED BY <1>2 DEF NoSharedDog, InvitesApart, SessionsApart

\* No two ringing invites and no two sessions share a dog, through every race of
\* create, accept, cancel and end, and after loading any rows that a crash left.
THEOREM DogsExclusive == Spec => []NoSharedDog
<1>1. Init => NoSharedDog
  BY DEF Init, NoSharedDog
<1>2. TypeOK /\ NoSharedDog /\ [Next]_vars => TypeOK' /\ NoSharedDog'
  BY TypeStep, ApartStep
<1> QED
  BY <1>1, <1>2, InitType, PTL DEF Spec

\* An id of a session that ended is never in the store again, whatever handlers
\* still carry it, unless a restart loads its row.
THEOREM SessionsStayEnded == Spec => EndedStaysEnded
<1>1. ASSUME TypeOK, [Next]_vars
      PROVE  [\A s \in 1..made.sessions :
                 sessions[s] = None /\ sessions'[s] # None => restarts' # restarts]_vars
  <2> DEFINE Stays == \A s \in 1..made.sessions :
                 sessions[s] = None /\ sessions'[s] # None => restarts' # restarts
  <2>0. made.sessions \in 0..MaxSessions /\ restarts \in Nat
    BY <1>1 DEF TypeOK
  <2>1. Restart => Stays
    BY <2>0 DEF Restart
  <2>2. \A s \in 1..made.sessions : s \in SessionIds /\ s # made.sessions + 1
    BY <2>0 DEF SessionIds
  <2>3. Kept => Stays
    BY <2>2 DEF Kept, SessionsKept, SameSession
  <2>4. ASSUME NEW h \in Handlers, CreateInsert(h) \/ AcceptInsert(h)
        PROVE  Stays
    <3>1. CASE CreateInsert(h)
      BY <1>1, <2>2, <3>1, CreateAdds DEF SessionsKept, SameSession
    <3>2. CASE AcceptInsert(h)
      BY <1>1, <2>2, <3>2, AcceptAdds DEF TypeOK
    <3> QED BY <2>4, <3>1, <3>2
  <2> HIDE DEF Stays
  <2>5. Stays
    BY <1>1, <2>1, <2>3, <2>4, NextKeeps
  <2> QED BY <2>5 DEF Stays
<1> QED
  BY <1>1, TypeCorrect, PTL DEF Spec, EndedStaysEnded

----------------------------------------------------------------------------
\* No extension outlasts its session.

LEMMA LimitsRequest ==
    ASSUME TypeOK, LimitsInForce, NEW h \in Handlers, Request(h)
    PROVE  LimitsInForce'
<1> USE DEF LimitsInForce, InForce, Goto, OrDone, Idle, At, mem, db, StoresOK, RowsOK, CountsOK,
            Receive
<1>0. /\ StoresOK /\ RowsOK /\ CountsOK
      /\ job \in [Handlers -> Job] /\ tick \in TickJob
      /\ job[h] \in Job
  BY TypeParts
<1>1. ASSUME NEW d \in Dogs, NEW to \in Dogs, CreateRoute(h, d, to) PROVE LimitsInForce'
  BY <1>1, <1>0 DEF CreateRoute
<1>2. ASSUME NEW kind, NEW d \in Dogs, SweepOnly(h, kind, d) PROVE LimitsInForce'
  BY <1>2, <1>0 DEF SweepOnly
<1>3. ASSUME NEW i \in InviteIds, CancelGet(h, i) PROVE LimitsInForce'
  BY <1>3, <1>0 DEF CancelGet
<1>4. ASSUME NEW i \in InviteIds, AcceptGet(h, i) PROVE LimitsInForce'
  BY <1>4, <1>0 DEF AcceptGet
<1>5. ASSUME NEW s \in SessionIds, EndGet(h, s) PROVE LimitsInForce'
  BY <1>5, <1>0 DEF EndGet
<1>6. ASSUME NEW s \in SessionIds, NEW d \in Dogs, NEW ready \in BOOLEAN, MediaReady(h, s, d, ready)
      PROVE  LimitsInForce'
  BY <1>6, <1>0 DEF MediaReady
<1>7. ASSUME NEW s \in SessionIds, NEW d \in Dogs, AgainGet(h, s, d) PROVE LimitsInForce'
  BY <1>7, <1>0 DEF AgainGet
<1>8. ASSUME NEW kind, NEW d \in Dogs, NEW on \in BOOLEAN, FlagRead(h, kind, d, on)
      PROVE  LimitsInForce'
  <2>1. policy[d] \in Policy
    BY <1>0
  <2>2. [policy[d] EXCEPT !.estop = on].limits = policy[d].limits
    BY <2>1 DEF Policy
  <2>3. [policy[d] EXCEPT !.social = on].limits = policy[d].limits
    BY <2>1 DEF Policy
  <2> QED BY <1>8, <1>0, <2>2, <2>3 DEF FlagRead
<1>9. ASSUME NEW d \in Dogs, NEW l \in Limits, PolicyRead(h, d, l) PROVE LimitsInForce'
  <2>1. [policy[d] EXCEPT !.limits = l].limits = l
    BY <1>0 DEF Policy
  <2> QED BY <1>9, <1>0, <2>1 DEF PolicyRead
<1> HIDE DEF LimitsInForce, InForce, Goto, OrDone, Idle, At, mem, db, StoresOK, RowsOK, CountsOK,
             Receive
<1> QED
  BY <1>1, <1>2, <1>3, <1>4, <1>5, <1>6, <1>7, <1>8, <1>9 DEF Request

LEMMA LimitsStep ==
    ASSUME TypeOK, LimitsInForce, NEW h \in Handlers, Step(h)
    PROVE  LimitsInForce'
<1> USE DEF LimitsInForce, InForce, Goto, OrDone, Idle, At, mem, db, StoresOK, RowsOK, CountsOK,
            AfterFlag
<1>0. /\ StoresOK /\ RowsOK /\ CountsOK
      /\ job \in [Handlers -> Job] /\ tick \in TickJob
      /\ job[h] \in Job
  BY TypeParts
<1>1. ASSUME CreatePeer(h) PROVE LimitsInForce'
  BY <1>1, <1>0, LocalsAre DEF CreatePeer
<1>2. ASSUME CreateRefused(h) PROVE LimitsInForce'
  BY <1>2, <1>0, LocalsAre DEF CreateRefused
<1>3. ASSUME CreateInsert(h) PROVE LimitsInForce'
  BY <1>3, <1>0, LocalsAre DEF CreateInsert
<1>4. ASSUME CreateBusy(h) PROVE LimitsInForce'
  BY <1>4, <1>0, LocalsAre DEF CreateBusy
<1>5. ASSUME CreateRow(h) PROVE LimitsInForce'
  BY <1>5, <1>0, LocalsAre DEF CreateRow
<1>6. ASSUME CancelClose(h) PROVE LimitsInForce'
  BY <1>6, <1>0, LocalsAre DEF CancelClose
<1>7. ASSUME CancelRow(h) PROVE LimitsInForce'
  BY <1>7, <1>0, LocalsAre DEF CancelRow
<1>8. ASSUME AcceptClose(h) PROVE LimitsInForce'
  BY <1>8, <1>0, LocalsAre DEF AcceptClose
<1>9. ASSUME AcceptInsert(h) PROVE LimitsInForce'
  BY <1>9, <1>0, LocalsAre DEF AcceptInsert
<1>10. ASSUME AcceptBusy(h) PROVE LimitsInForce'
  BY <1>10, <1>0, LocalsAre DEF AcceptBusy
<1>11. ASSUME AcceptInviteRow(h) PROVE LimitsInForce'
  BY <1>11, <1>0, LocalsAre DEF AcceptInviteRow
<1>12. ASSUME SaveSession(h) PROVE LimitsInForce'
  BY <1>12, <1>0, LocalsAre DEF SaveSession
<1>13. ASSUME EndEnd(h) PROVE LimitsInForce'
  BY <1>13, <1>0, LocalsAre DEF EndEnd
<1>14. ASSUME EndRow(h) PROVE LimitsInForce'
  BY <1>14, <1>0, LocalsAre DEF EndRow
<1>15. ASSUME AgainUpdate(h) PROVE LimitsInForce'
  BY <1>15, <1>0, LocalsAre DEF AgainUpdate
<1>16. ASSUME AgainGone(h) PROVE LimitsInForce'
  BY <1>16, <1>0, LocalsAre DEF AgainGone
<1>17. ASSUME FlagSet(h) PROVE LimitsInForce'
  BY <1>17, <1>0, LocalsAre DEF FlagSet
<1>18. ASSUME FlagGet(h) PROVE LimitsInForce'
  BY <1>18, <1>0, LocalsAre DEF FlagGet
<1>19. ASSUME FlagRow(h) PROVE LimitsInForce'
  BY <1>19, <1>0, LocalsAre DEF FlagRow
<1>20. ASSUME NEW s \in SessionIds, StopEnd(h, s) PROVE LimitsInForce'
  BY <1>20, <1>0, LocalsAre DEF StopEnd
<1>21. ASSUME StopNothing(h) PROVE LimitsInForce'
  BY <1>21, <1>0, LocalsAre DEF StopNothing
<1>22. ASSUME PolicyRow(h) PROVE LimitsInForce'
  BY <1>22, <1>0, LocalsAre DEF PolicyRow
<1>23. ASSUME PolicySet(h) PROVE LimitsInForce'
  BY <1>23, <1>0, LocalsAre DEF PolicySet
<1> HIDE DEF LimitsInForce, InForce, Goto, OrDone, Idle, At, mem, db, StoresOK, RowsOK, CountsOK,
             AfterFlag
<1> QED
  BY <1>1, <1>2, <1>3, <1>4, <1>5, <1>6, <1>7, <1>8, <1>9, <1>10, <1>11, <1>12, <1>13,
     <1>14, <1>15, <1>16, <1>17, <1>18, <1>19, <1>20, <1>21, <1>22, <1>23 DEF Step

LEMMA LimitsStepped ==
    ASSUME TypeOK, LimitsInForce, [Next]_vars
    PROVE  LimitsInForce'
<1>1. CASE UNCHANGED vars \/ Second
  BY <1>1 DEF Second, vars, mem, db, LimitsInForce
<1>2. CASE Tick
  <2>1. UNCHANGED <<policy, db_policy, job>>
    BY <1>2 DEF Tick, TickStart, TickAll, TickRow, TickDone, TickInviteRow, TickEnd, TickKeep, mem, db
  <2> QED BY <2>1 DEF LimitsInForce
<1>3. CASE Restart
  BY <1>3 DEF Restart, LimitsInForce, InForce, Idle, db
<1>4. ASSUME NEW h \in Handlers, Drop(h) PROVE LimitsInForce'
  BY <1>4, DropIs DEF TypeOK, LimitsInForce
<1> QED
  BY <1>1, <1>2, <1>3, <1>4, LimitsRequest, LimitsStep DEF Next

\* A handler that extends a session of those kept, or that waits for none.
AgainInTime(h) ==
    job[h].pc = "again_update" /\ sessions[job[h].sid] # None =>
        job[h].deadline <= sessions[job[h].sid].max_end

LEMMA AgainKept ==
    ASSUME TypeOK, NEW g \in Handlers, AgainInTime(g), SessionsKept, job'[g] = job[g]
    PROVE  AgainInTime(g)'
<1>1. job[g] \in Job
  BY DEF TypeOK
<1>2. job[g].pc = "again_update" => job[g].sid \in SessionIds
  BY <1>1, LocalsAre
<1> QED BY <1>2 DEF AgainInTime, SessionsKept, SameSession

\* A copy with the same times is in time as well.
LEMMA SameTimes ==
    ASSUME NEW r, NEW c, InTime(r),
           c.started = r.started, c.max_end = r.max_end, c.deadline = r.deadline
    PROVE  InTime(c)
  BY DEF InTime, FirstSegment

LEMMA DeadlinesRequest ==
    ASSUME TypeOK, IdsHandedOut, LimitsInForce, DeadlinesInTime, NEW h \in Handlers, Request(h)
    PROVE  DeadlinesInTime'
<1> USE DEF DeadlinesInTime, InTime, Goto, OrDone, Idle, At, mem, db, StoresOK, RowsOK, CountsOK,
            Receive
<1>0. /\ StoresOK /\ RowsOK /\ CountsOK
      /\ job \in [Handlers -> Job] /\ tick \in TickJob
      /\ job[h] \in Job
  BY TypeParts
<1>1. ASSUME NEW d \in Dogs, NEW to \in Dogs, CreateRoute(h, d, to) PROVE DeadlinesInTime'
  BY <1>1, <1>0 DEF CreateRoute
<1>2. ASSUME NEW kind, NEW d \in Dogs, SweepOnly(h, kind, d) PROVE DeadlinesInTime'
  BY <1>2, <1>0 DEF SweepOnly
<1>3. ASSUME NEW i \in InviteIds, CancelGet(h, i) PROVE DeadlinesInTime'
  BY <1>3, <1>0 DEF CancelGet
<1>4. ASSUME NEW i \in InviteIds, AcceptGet(h, i) PROVE DeadlinesInTime'
  <2> DEFINE inv == AfterExpiry[i]
             pol == policy[inv.to]
  <2>1. inv \in Invite
    BY <1>0, <1>4, ExpiryType DEF AcceptGet
  <2>2. pol.limits \in InForce
    BY <2>1 DEF Invite, LimitsInForce
  <2>3. /\ job'[h].pc = "accept_close"
        /\ job'[h].sess.started = clock
        /\ job'[h].sess.max_end = clock + pol.limits.max_sec
        /\ job'[h].sess.deadline = clock + pol.limits.seg_sec
    BY <1>0, <1>4 DEF AcceptGet
  <2>4. job'[h].pc = "accept_close" /\ InTime(job'[h].sess)
    BY <2>2, <2>3 DEF FirstSegment, InForce
  <2>5. UNCHANGED <<sessions, db>> /\ \A g \in Handlers \ {h} : job'[g] = job[g]
    BY <1>0, <1>4 DEF AcceptGet
  <2> QED BY <2>4, <2>5
<1>5. ASSUME NEW s \in SessionIds, EndGet(h, s) PROVE DeadlinesInTime'
  BY <1>5, <1>0 DEF EndGet
<1>6. ASSUME NEW s \in SessionIds, NEW d \in Dogs, NEW ready \in BOOLEAN, MediaReady(h, s, d, ready)
      PROVE  DeadlinesInTime'
  <2> DEFINE new == Reported(sessions[s], d, ready)
             both == new.media_a /\ new.media_b
             row == [new EXCEPT !.media_a = both \/ d = new.dog_a,
                                !.media_b = both \/ d = new.dog_b]
  <2>1. sessions[s] \in Session
    BY <1>0, <1>6 DEF MediaReady
  <2>2. /\ new \in Session /\ new.started = sessions[s].started
        /\ new.deadline = sessions[s].deadline /\ new.max_end = sessions[s].max_end
    BY <2>1 DEF Reported, Session, States
  <2>3. sessions' = [sessions EXCEPT ![s] = new]
        /\ Goto(h, OrDone([pc |-> "save_session", sid |-> s, sess |-> row])) /\ UNCHANGED db
    BY <1>6 DEF MediaReady
  <2> HIDE DEF new
  <2>4. row.started = new.started /\ row.deadline = new.deadline /\ row.max_end = new.max_end
    BY <2>2 DEF Session
  <2>5. InTime(new) /\ InTime(row)
    <3>1. InTime(sessions[s])
      BY <1>6 DEF MediaReady
    <3> HIDE DEF row, InTime
    <3>2. InTime(new)
      BY <2>2, <3>1, SameTimes
    <3> QED BY <2>4, <3>2, SameTimes
  <2> HIDE DEF row
  <2>6. /\ \A g \in Handlers \ {h} : job'[g] = job[g]
        /\ (job'[h].pc = "save_session" /\ job'[h].sess = row) \/ job'[h].pc = "idle"
        /\ \A r \in SessionIds : sessions'[r] = IF r = s THEN new ELSE sessions[r]
    BY <1>0, <2>3
  <2>7. \A g \in Handlers \ {h} : AgainInTime(g)'
    BY <1>6, <2>6, AgainKept, RequestKeeps DEF AgainInTime, Kept, Request
  <2>8. UNCHANGED db_sessions
    BY <2>3
  <2> HIDE DEF InTime, Goto
  <2> QED BY <2>5, <2>6, <2>7, <2>8 DEF AgainInTime
<1>7. ASSUME NEW s \in SessionIds, NEW d \in Dogs, AgainGet(h, s, d) PROVE DeadlinesInTime'
  <2>1. sessions[s] \in Session /\ policy[d] \in Policy /\ clock \in Nat
    BY <1>0, <1>7 DEF AgainGet
  <2>2. sessions[s].max_end \in Int /\ policy[d].limits.seg_sec \in Nat
    BY <2>1 DEF Session, Policy, Limit
  <2>3. ExtendSegment(clock, policy[d].limits.seg_sec, sessions[s].max_end) <= sessions[s].max_end
    BY <2>1, <2>2 DEF ExtendSegment
  <2> QED BY <1>0, <1>7, <2>3 DEF AgainGet
<1>8. ASSUME NEW kind, NEW d \in Dogs, NEW on \in BOOLEAN, FlagRead(h, kind, d, on)
      PROVE  DeadlinesInTime'
  BY <1>8, <1>0 DEF FlagRead
<1>9. ASSUME NEW d \in Dogs, NEW l \in Limits, PolicyRead(h, d, l) PROVE DeadlinesInTime'
  BY <1>9, <1>0 DEF PolicyRead
<1> HIDE DEF DeadlinesInTime, InTime, Goto, OrDone, Idle, At, mem, db, StoresOK, RowsOK, CountsOK,
             Receive
<1> QED
  BY <1>1, <1>2, <1>3, <1>4, <1>5, <1>6, <1>7, <1>8, <1>9 DEF Request

LEMMA DeadlinesStep ==
    ASSUME TypeOK, IdsHandedOut, LimitsInForce, DeadlinesInTime, NEW h \in Handlers, Step(h)
    PROVE  DeadlinesInTime'
<1> USE DEF DeadlinesInTime, InTime, Goto, OrDone, Idle, At, mem, db, StoresOK, RowsOK, CountsOK,
            AfterFlag
<1>0. /\ StoresOK /\ RowsOK /\ CountsOK
      /\ job \in [Handlers -> Job] /\ tick \in TickJob
      /\ job[h] \in Job
  BY TypeParts
<1>1. ASSUME CreatePeer(h) PROVE DeadlinesInTime'
  BY <1>1, <1>0, LocalsAre DEF CreatePeer
<1>2. ASSUME CreateRefused(h) PROVE DeadlinesInTime'
  BY <1>2, <1>0, LocalsAre DEF CreateRefused
<1>3. ASSUME CreateInsert(h) PROVE DeadlinesInTime'
  BY <1>3, <1>0, LocalsAre DEF CreateInsert
<1>4. ASSUME CreateBusy(h) PROVE DeadlinesInTime'
  BY <1>4, <1>0, LocalsAre DEF CreateBusy
<1>5. ASSUME CreateRow(h) PROVE DeadlinesInTime'
  BY <1>5, <1>0, LocalsAre DEF CreateRow
<1>6. ASSUME CancelClose(h) PROVE DeadlinesInTime'
  BY <1>6, <1>0, LocalsAre DEF CancelClose
<1>7. ASSUME CancelRow(h) PROVE DeadlinesInTime'
  BY <1>7, <1>0, LocalsAre DEF CancelRow
<1>8. ASSUME AcceptClose(h) PROVE DeadlinesInTime'
  BY <1>8, <1>0, LocalsAre DEF AcceptClose
<1>9. ASSUME AcceptInsert(h) PROVE DeadlinesInTime'
  <2> DEFINE id == made.sessions + 1
             sess == job[h].sess
  <2>1. /\ id \in SessionIds /\ sess \in Session
        /\ sessions' = [sessions EXCEPT ![id] = sess]
    BY <1>9, AcceptAdds
  <2>2. InTime(sess)
    BY <1>9 DEF AcceptInsert
  <2>3. /\ \A g \in Handlers \ {h} : job'[g] = job[g]
        /\ (job'[h].pc = "accept_invite_row" /\ job'[h].sess = sess) \/ job'[h].pc = "idle"
        /\ UNCHANGED db_sessions
    BY <1>0, <1>9 DEF AcceptInsert
  <2>4. made.sessions \in Nat /\ \A g \in Handlers : job[g] \in Job
    BY <1>0
  <2>5. \A g \in Handlers : job[g].pc = "again_update" => job[g].sid \in SessionIds /\ job[g].sid # id
    BY <2>4, LocalsAre DEF IdsHandedOut, SessionIds
  <2> HIDE DEF id, sess, InTime
  <2>6. \A r \in SessionIds : sessions'[r] = IF r = id THEN sess ELSE sessions[r]
    BY <1>0, <2>1
  <2> QED BY <2>2, <2>3, <2>5, <2>6
<1>10. ASSUME AcceptBusy(h) PROVE DeadlinesInTime'
  BY <1>10, <1>0, LocalsAre DEF AcceptBusy
<1>11. ASSUME AcceptInviteRow(h) PROVE DeadlinesInTime'
  BY <1>11, <1>0, LocalsAre DEF AcceptInviteRow
<1>12. ASSUME SaveSession(h) PROVE DeadlinesInTime'
  BY <1>12, <1>0, LocalsAre DEF SaveSession
<1>13. ASSUME EndEnd(h) PROVE DeadlinesInTime'
  <2>1. /\ \A r \in SessionIds : sessions'[r] # None => sessions'[r] = sessions[r]
        /\ UNCHANGED db_sessions
    BY <1>0, <1>13 DEF EndEnd
  <2>2. \A g \in Handlers : job'[g] = job[g] \/ job'[g].pc \in {"idle", "end_row"}
    BY <1>0, <1>13 DEF EndEnd
  <2>3. \A g \in Handlers : AgainInTime(g)'
    BY <1>13, <2>2, AgainKept, StepKeeps DEF AgainInTime, Kept, Step, CreateInsert, AcceptInsert, EndEnd
  <2> HIDE DEF InTime
  <2> QED BY <2>1, <2>2, <2>3 DEF AgainInTime
<1>14. ASSUME EndRow(h) PROVE DeadlinesInTime'
  BY <1>14, <1>0, LocalsAre DEF EndRow
<1>15. ASSUME AgainUpdate(h) PROVE DeadlinesInTime'
  <2> DEFINE s == job[h].sid
             new == [sessions[s] EXCEPT !.deadline = job[h].deadline]
             row == [new EXCEPT !.media_a = TRUE, !.media_b = TRUE]
  <2>1. s \in SessionIds /\ sessions[s] \in Session
    BY <1>0, <1>15, LocalsAre DEF AgainUpdate
  <2>2. new.deadline = job[h].deadline /\ new.max_end = sessions[s].max_end
        /\ row.deadline = new.deadline /\ row.max_end = new.max_end
    BY <2>1 DEF Session
  <2>3. InTime(new) /\ InTime(row)
    BY <1>15, <2>2 DEF AgainUpdate
  <2>4. /\ sessions' = [sessions EXCEPT ![s] = new]
        /\ Goto(h, OrDone([pc |-> "save_session", sid |-> s, sess |-> row])) /\ UNCHANGED db
    BY <1>15 DEF AgainUpdate
  <2> HIDE DEF new, row
  <2>5. /\ \A g \in Handlers \ {h} : job'[g] = job[g]
        /\ (job'[h].pc = "save_session" /\ job'[h].sess = row) \/ job'[h].pc = "idle"
        /\ \A r \in SessionIds : sessions'[r] = IF r = s THEN new ELSE sessions[r]
        /\ UNCHANGED db_sessions
    BY <1>0, <2>1, <2>4
  <2>6. \A g \in Handlers \ {h} : AgainInTime(g)'
    BY <1>15, <2>5, AgainKept, StepKeeps
    DEF AgainInTime, Kept, Step, AgainUpdate, AcceptInsert, CreateInsert
  <2> HIDE DEF InTime, Goto, s
  <2> QED BY <2>3, <2>5, <2>6 DEF AgainInTime
<1>16. ASSUME AgainGone(h) PROVE DeadlinesInTime'
  BY <1>16, <1>0, LocalsAre DEF AgainGone
<1>17. ASSUME FlagSet(h) PROVE DeadlinesInTime'
  BY <1>17, <1>0, LocalsAre DEF FlagSet
<1>18. ASSUME FlagGet(h) PROVE DeadlinesInTime'
  BY <1>18, <1>0, LocalsAre DEF FlagGet
<1>19. ASSUME FlagRow(h) PROVE DeadlinesInTime'
  BY <1>19, <1>0, LocalsAre DEF FlagRow
<1>20. ASSUME NEW s \in SessionIds, StopEnd(h, s) PROVE DeadlinesInTime'
  <2>1. /\ \A r \in SessionIds : sessions'[r] # None => sessions'[r] = sessions[r]
        /\ UNCHANGED db_sessions
    BY <1>0, <1>20 DEF StopEnd
  <2>2. \A g \in Handlers : job'[g] = job[g] \/ job'[g].pc \in {"idle", "end_row"}
    BY <1>0, <1>20 DEF StopEnd
  <2>3. \A g \in Handlers : AgainInTime(g)'
    BY <1>20, <2>2, AgainKept, StepKeeps DEF AgainInTime, Kept, Step, CreateInsert, AcceptInsert, StopEnd
  <2> HIDE DEF InTime
  <2> QED BY <2>1, <2>2, <2>3 DEF AgainInTime
<1>21. ASSUME StopNothing(h) PROVE DeadlinesInTime'
  BY <1>21, <1>0, LocalsAre DEF StopNothing
<1>22. ASSUME PolicyRow(h) PROVE DeadlinesInTime'
  BY <1>22, <1>0, LocalsAre DEF PolicyRow
<1>23. ASSUME PolicySet(h) PROVE DeadlinesInTime'
  BY <1>23, <1>0, LocalsAre DEF PolicySet
<1> HIDE DEF DeadlinesInTime, InTime, Goto, OrDone, Idle, At, mem, db, StoresOK, RowsOK, CountsOK,
             AfterFlag
<1> QED
  BY <1>1, <1>2, <1>3, <1>4, <1>5, <1>6, <1>7, <1>8, <1>9, <1>10, <1>11, <1>12, <1>13,
     <1>14, <1>15, <1>16, <1>17, <1>18, <1>19, <1>20, <1>21, <1>22, <1>23 DEF Step

LEMMA DeadlinesTick ==
    ASSUME TypeOK, DeadlinesInTime, Tick
    PROVE  DeadlinesInTime'
<1> USE DEF DeadlinesInTime, InTime, Goto, OrDone, Idle, At, mem, db, StoresOK, RowsOK, CountsOK,
            Asleep
<1>0. /\ StoresOK /\ RowsOK /\ CountsOK
      /\ job \in [Handlers -> Job] /\ tick \in TickJob
  BY TypeParts
<1>1. ASSUME TickStart PROVE DeadlinesInTime'
  BY <1>1, <1>0, ScanIs DEF TickStart
<1>2. ASSUME TickAll PROVE DeadlinesInTime'
  BY <1>2, <1>0, ScanIs DEF TickAll
<1>3. ASSUME TickRow PROVE DeadlinesInTime'
  BY <1>3, <1>0, ScanIs DEF TickRow
<1>4. ASSUME TickDone PROVE DeadlinesInTime'
  BY <1>4, <1>0, ScanIs DEF TickDone
<1>5. ASSUME NEW i \in InviteIds, TickInviteRow(i) PROVE DeadlinesInTime'
  BY <1>5, <1>0, ScanIs DEF TickInviteRow
<1>6. ASSUME NEW s \in SessionIds, TickEnd(s) PROVE DeadlinesInTime'
  <2>1. /\ \A r \in SessionIds : sessions'[r] # None => sessions'[r] = sessions[r]
        /\ UNCHANGED db_sessions
    BY <1>0, <1>6 DEF TickEnd
  <2>2. \A g \in Handlers : job'[g] = job[g] \/ job'[g].pc \in {"idle", "end_row"}
    BY <1>0, <1>6 DEF TickEnd
  <2>3. \A g \in Handlers : AgainInTime(g)'
    BY <1>6, <2>2, AgainKept, TickKeeps DEF AgainInTime, Kept, Tick
  <2> HIDE DEF InTime
  <2> QED BY <2>1, <2>2, <2>3 DEF AgainInTime
<1>7. ASSUME NEW s \in SessionIds, TickKeep(s) PROVE DeadlinesInTime'
  BY <1>7, <1>0, ScanIs DEF TickKeep
<1> HIDE DEF DeadlinesInTime, InTime, Goto, OrDone, Idle, At, mem, db, StoresOK, RowsOK, CountsOK,
             Asleep
<1> QED
  BY <1>1, <1>2, <1>3, <1>4, <1>5, <1>6, <1>7 DEF Tick

LEMMA DeadlinesStepped ==
    ASSUME TypeOK, IdsHandedOut, LimitsInForce, DeadlinesInTime, [Next]_vars
    PROVE  DeadlinesInTime'
<1>1. CASE UNCHANGED vars \/ Second
  BY <1>1 DEF Second, vars, mem, db, DeadlinesInTime
<1>2. CASE Restart
  <2>1. PICK ids \in Loaded(SessionRows) :
            sessions' = [s \in SessionIds |-> IF s \in ids THEN Restored(db_sessions[s]) ELSE None]
    BY <1>2 DEF Restart
  <2>2. \A s \in ids : s \in SessionIds /\ db_sessions[s] # None
    BY <2>1 DEF Loaded, Fits, SessionRows
  <2>3. \A row \in Session : InTime(row) => InTime(Restored(row))
    <3>1. \A row \in Session :
             /\ Restored(row).started = row.started
             /\ Restored(row).max_end = row.max_end /\ Restored(row).deadline = row.deadline
      BY DEF Restored, Session
    <3> QED BY <3>1, SameTimes
  <2>4. \A s \in SessionIds : sessions'[s] # None => InTime(sessions'[s])
    BY <2>1, <2>2, <2>3 DEF DeadlinesInTime, TypeOK
  <2>5. \A h \in Handlers : job'[h].pc = "idle"
    BY <1>2 DEF Restart, Idle
  <2>6. UNCHANGED db_sessions
    BY <1>2 DEF Restart, db
  <2> QED BY <2>4, <2>5, <2>6 DEF DeadlinesInTime
<1>3. ASSUME NEW h \in Handlers, Drop(h) PROVE DeadlinesInTime'
  BY <1>3, DropIs DEF TypeOK, DeadlinesInTime
<1> QED
  BY <1>1, <1>2, <1>3, DeadlinesRequest, DeadlinesStep, DeadlinesTick DEF Next

LEMMA InitDeadline == Init => DeadlineInv
  BY DEF Init, DeadlineInv, LimitsInForce, InForce, DeadlinesInTime, Idle

\* Whatever copies and policies the extensions worked from, a segment outlasts its session,
\* in the store or in a row, only if it is the first, whose limits no one compares.
THEOREM SegmentsWithinSessions == Spec => []ExtensionsWithinMax
<1> DEFINE Inv == TypeOK /\ CoverInv /\ DeadlineInv
<1>1. Init => Inv
  BY InitType, InitCover, InitDeadline
<1>2. Inv /\ [Next]_vars => Inv'
  <2>1. ASSUME Inv, [Next]_vars PROVE DeadlineInv'
    BY <2>1, LimitsStepped, DeadlinesStepped DEF DeadlineInv, CoverInv
  <2> QED BY <2>1, TypeStep, CoverStepped
<1>3. Inv => ExtensionsWithinMax
  BY DEF DeadlineInv, DeadlinesInTime, InTime, ExtensionsWithinMax
<1> QED
  BY <1>1, <1>2, <1>3, PTL DEF Spec

----------------------------------------------------------------------------
\* The rate limit can be exceeded, by one call per further handler at most.

\* The handlers between the check of dog d's rate and the record of its call.
Calling(d) == {h \in Handlers : job[h].pc \in {"create_peer", "create_insert"} /\ job[h].dog = d}

CountedWithin(d, l) == sent[d] + Cardinality(Calling(d)) <= l.per_hour + Cardinality(Handlers) - 1
RateInv == \A d \in Dogs : \E l \in InForce : CountedWithin(d, l)

LEMMA CallingCount ==
    ASSUME NEW d \in Dogs
    PROVE  /\ IsFiniteSet(Calling(d)) /\ IsFiniteSet(Handlers)
           /\ Cardinality(Calling(d)) \in Nat /\ Cardinality(Handlers) \in Nat
           /\ Cardinality(Calling(d)) <= Cardinality(Handlers)
           /\ Cardinality(Handlers) >= 1
<1>1. IsFiniteSet(Handlers) /\ Calling(d) \subseteq Handlers
  BY DEF Calling
<1>2. IsFiniteSet(Calling(d)) /\ Cardinality(Calling(d)) <= Cardinality(Handlers)
  BY <1>1, FS_Subset
<1>3. Cardinality(Calling(d)) \in Nat /\ Cardinality(Handlers) \in Nat
  BY <1>1, <1>2, FS_CardinalityType
<1>4. Cardinality(Handlers) # 0
  BY <1>1, FS_EmptySet
<1> QED BY <1>1, <1>2, <1>3, <1>4

LEMMA PerHour == \A l \in InForce : l.per_hour \in Nat
  BY DEF InForce, Limit, Policy

\* Steps after which no more is sent and no more are calling.
LEMMA RateNoMore ==
    ASSUME TypeOK, RateInv, NEW d \in Dogs, sent'[d] = sent[d], Calling(d)' \subseteq Calling(d)
    PROVE  \E l \in InForce : CountedWithin(d, l)'
<1>1. PICK l \in InForce : CountedWithin(d, l)
  BY DEF RateInv
<1>2. IsFiniteSet(Calling(d)) /\ Cardinality(Calling(d)) \in Nat /\ Cardinality(Handlers) \in Nat
  BY CallingCount
<1>3. Cardinality(Calling(d)') <= Cardinality(Calling(d)) /\ Cardinality(Calling(d)') \in Nat
  BY <1>2, FS_Subset, FS_CardinalityType
<1>4. sent[d] \in Nat /\ l.per_hour \in Nat
  BY PerHour DEF TypeOK
<1>5. CountedWithin(d, l)'
  BY <1>1, <1>2, <1>3, <1>4 DEF CountedWithin
<1> QED BY <1>5

\* The check: the call is counted from here on.
LEMMA RateChecked ==
    ASSUME TypeOK, LimitsInForce, RateInv,
           NEW h \in Handlers, NEW c \in Dogs, NEW to \in Dogs, CreateRoute(h, c, to)
    PROVE  RateInv'
<1>1. SUFFICES ASSUME NEW d \in Dogs
               PROVE  \E l \in InForce : CountedWithin(d, l)'
  BY DEF RateInv, InForce
<1>2. sent' = sent /\ \A g \in Handlers \ {h} : job'[g] = job[g]
  BY DEF CreateRoute, Goto, TypeOK
<1>3. job'[h].pc = "create_peer" /\ job'[h].dog = c
  BY DEF CreateRoute, Goto, TypeOK
<1>4. CASE d = c
  <2> DEFINE l == policy[c].limits
  <2>1. l \in InForce /\ sent[c] < l.per_hour /\ sent[c] \in Nat
    BY DEF LimitsInForce, CreateRoute, MayCreate, TypeOK
  <2>2. Calling(d)' \subseteq Handlers
    BY DEF Calling
  <2>3. Cardinality(Calling(d)') <= Cardinality(Handlers) /\ Cardinality(Calling(d)') \in Nat
        /\ Cardinality(Handlers) \in Nat
    BY <2>2, FS_Subset, FS_CardinalityType
  <2>4. l.per_hour \in Nat
    BY <2>1, PerHour
  <2>5. sent'[d] + Cardinality(Calling(d)') <= l.per_hour + Cardinality(Handlers) - 1
    BY <1>2, <1>4, <2>1, <2>3, <2>4
  <2> HIDE DEF l
  <2>6. \E m \in InForce : sent'[d] + Cardinality(Calling(d)') <= m.per_hour + Cardinality(Handlers) - 1
    BY <2>1, <2>5
  <2> QED BY <2>6 DEF CountedWithin
<1>5. CASE d # c
  <2>1. Calling(d)' \subseteq Calling(d)
    BY <1>2, <1>3, <1>5 DEF Calling
  <2> QED BY <1>2, <2>1, RateNoMore
<1> QED BY <1>4, <1>5

\* The record: one more sent, one fewer calling.
LEMMA RateRecorded ==
    ASSUME TypeOK, RateInv, NEW h \in Handlers, CreateInsert(h)
    PROVE  RateInv'
<1> DEFINE c == job[h].dog
<1>0. job[h] \in Job
  BY DEF TypeOK
<1>1. c \in Dogs /\ job[h].pc = "create_insert"
  BY <1>0, LocalsAre DEF CreateInsert, At
<1>2. /\ sent' = [sent EXCEPT ![c] = @ + 1]
      /\ \A g \in Handlers \ {h} : job'[g] = job[g]
      /\ job'[h].pc \in {"create_row", "idle"}
  BY DEF CreateInsert, Goto, OrDone, Idle, TypeOK
<1>3. SUFFICES ASSUME NEW d \in Dogs
               PROVE  \E l \in InForce : CountedWithin(d, l)'
  BY DEF RateInv, InForce
<1>4. CASE d = c
  <2>1. PICK l \in InForce : CountedWithin(d, l)
    BY DEF RateInv
  <2>2. h \in Calling(d) /\ Calling(d)' = Calling(d) \ {h}
    BY <1>1, <1>2, <1>4 DEF Calling
  <2>3. Cardinality(Calling(d)') = Cardinality(Calling(d)) - 1
    BY <2>2, CallingCount, FS_RemoveElement
  <2>4. sent[d] \in Nat /\ l.per_hour \in Nat /\ sent'[d] = sent[d] + 1
    BY <1>1, <1>2, <1>4, PerHour DEF TypeOK
  <2>5. Cardinality(Calling(d)) \in Nat /\ Cardinality(Handlers) \in Nat
    BY CallingCount
  <2>6. sent'[d] + Cardinality(Calling(d)') <= l.per_hour + Cardinality(Handlers) - 1
    BY <2>1, <2>3, <2>4, <2>5 DEF CountedWithin
  <2> QED BY <2>6 DEF CountedWithin
<1>5. CASE d # c
  <2>1. Calling(d)' \subseteq Calling(d) /\ sent'[d] = sent[d]
    BY <1>2, <1>5 DEF Calling, TypeOK
  <2> QED BY <2>1, RateNoMore
<1> QED BY <1>4, <1>5

\* Every other step counts nothing and starts no call.
LEMMA NoNewCall ==
    ASSUME TypeOK, RateInv, NEW h \in Handlers, NEW next, Goto(h, next),
           next.pc \notin {"create_peer", "create_insert"}, sent' = sent
    PROVE  RateInv'
<1>1. SUFFICES ASSUME NEW d \in Dogs
               PROVE  \E l \in InForce : CountedWithin(d, l)'
  BY DEF RateInv, InForce
<1>2. \A g \in Handlers : job'[g] = job[g] \/ job'[g].pc \notin {"create_peer", "create_insert"}
  BY DEF Goto, TypeOK
<1>3. Calling(d)' \subseteq Calling(d)
  BY <1>2 DEF Calling
<1> QED BY <1>3, RateNoMore

LEMMA SameCalls ==
    ASSUME TypeOK, RateInv, job' = job, sent' = sent
    PROVE  RateInv'
<1>1. SUFFICES ASSUME NEW d \in Dogs
               PROVE  \E l \in InForce : CountedWithin(d, l)'
  BY DEF RateInv, InForce
<1>2. Calling(d)' \subseteq Calling(d)
  BY DEF Calling
<1> QED BY <1>2, RateNoMore

LEMMA RateRequests ==
    ASSUME TypeOK, LimitsInForce, RateInv, NEW h \in Handlers, Request(h)
    PROVE  RateInv'
<1>1. ASSUME NEW c \in Dogs, NEW to \in Dogs, CreateRoute(h, c, to)
      PROVE  RateInv'
  BY <1>1, RateChecked
<1>2. ASSUME NEW kind, NEW d \in Dogs, SweepOnly(h, kind, d)
      PROVE  RateInv'
  BY <1>2, SameCalls DEF SweepOnly
<1>3. ASSUME NEW i \in InviteIds, CancelGet(h, i)
      PROVE  RateInv'
  BY <1>3, NoNewCall DEF CancelGet, mem
<1>4. ASSUME NEW i \in InviteIds, AcceptGet(h, i)
      PROVE  RateInv'
  <2>1. PICK sess : Goto(h, [pc |-> "accept_close", id |-> i, sess |-> sess]) /\ sent' = sent
    BY <1>4 DEF AcceptGet
  <2> QED BY <2>1, NoNewCall
<1>5. ASSUME NEW s \in SessionIds, EndGet(h, s)
      PROVE  RateInv'
  BY <1>5, NoNewCall DEF EndGet, mem
<1>6. ASSUME NEW s \in SessionIds, NEW d \in Dogs, NEW ready \in BOOLEAN, MediaReady(h, s, d, ready)
      PROVE  RateInv'
  <2>1. PICK sess : Goto(h, OrDone([pc |-> "save_session", sid |-> s, sess |-> sess])) /\ sent' = sent
    BY <1>6 DEF MediaReady
  <2>2. OrDone([pc |-> "save_session", sid |-> s, sess |-> sess]).pc \in {"save_session", "idle"}
    BY DEF OrDone, Idle
  <2> QED BY <2>1, <2>2, NoNewCall
<1>7. ASSUME NEW s \in SessionIds, NEW d \in Dogs, AgainGet(h, s, d)
      PROVE  RateInv'
  <2>1. PICK x : Goto(h, [pc |-> "again_update", sid |-> s, deadline |-> x]) /\ sent' = sent
    BY <1>7 DEF AgainGet, mem
  <2> QED BY <2>1, NoNewCall
<1>8. ASSUME NEW kind, NEW d \in Dogs, NEW on \in BOOLEAN, FlagRead(h, kind, d, on)
      PROVE  RateInv'
  <2>1. PICK pol : Goto(h, [pc |-> "flag_set", kind |-> kind, dog |-> d, on |-> on, pol |-> pol])
                   /\ sent' = sent
    BY <1>8 DEF FlagRead, mem
  <2> QED BY <2>1, NoNewCall
<1>9. ASSUME NEW d \in Dogs, NEW l \in Limits, PolicyRead(h, d, l)
      PROVE  RateInv'
  <2> DEFINE next == [pc |-> IF HasPool THEN "policy_row" ELSE "policy_set", dog |-> d,
                      pol |-> [policy[d] EXCEPT !.limits = l]]
  <2>1. next.pc \notin {"create_peer", "create_insert"}
    OBVIOUS
  <2>2. Goto(h, next) /\ sent' = sent
    BY <1>9 DEF PolicyRead, mem
  <2> HIDE DEF next
  <2> QED BY <2>1, <2>2, NoNewCall
<1> QED
  BY <1>1, <1>2, <1>3, <1>4, <1>5, <1>6, <1>7, <1>8, <1>9 DEF Request

LEMMA PcSet ==
    ASSUME NEW j \in Job, NEW pc, NEW pol,
           j.pc \in {"cancel_close", "accept_close", "flag_set", "flag_get", "policy_row"}
    PROVE  /\ [j EXCEPT !.pc = pc].pc = pc
           /\ j.pc = "flag_get" => [j EXCEPT !.pc = pc, !.pol = pol].pc = pc
<1>1. CASE j.pc \in {"cancel_close"}
  <2>1. j = [pc |-> j.pc, id |-> j.id]
    BY <1>1, LocalsAre
  <2> QED BY <1>1, <2>1
<1>2. CASE j.pc \in {"accept_close"}
  <2>1. j = [pc |-> j.pc, id |-> j.id, sess |-> j.sess]
    BY <1>2, LocalsAre
  <2> QED BY <1>2, <2>1
<1>3. CASE j.pc \in {"flag_set", "flag_get"}
  <2>1. j = [pc |-> j.pc, kind |-> j.kind, dog |-> j.dog, on |-> j.on, pol |-> j.pol]
    BY <1>3, LocalsAre
  <2> QED BY <2>1
<1>4. CASE j.pc \in {"policy_row"}
  <2>1. j = [pc |-> j.pc, dog |-> j.dog, pol |-> j.pol]
    BY <1>4, LocalsAre
  <2> QED BY <1>4, <2>1
<1> QED BY <1>1, <1>2, <1>3, <1>4

LEMMA RateSteps ==
    ASSUME TypeOK, RateInv, NEW h \in Handlers, Step(h)
    PROVE  RateInv'
<1> DEFINE Done(x) == Goto(h, x) /\ x.pc \notin {"create_peer", "create_insert"} /\ sent' = sent
<1>0. job \in [Handlers -> Job]
  BY DEF TypeOK
<1>1. CASE CreateInsert(h)
  BY <1>1, RateRecorded
<1>2. CASE CreatePeer(h)
  <2>1. SUFFICES ASSUME NEW d \in Dogs
                 PROVE  \E l \in InForce : CountedWithin(d, l)'
    BY DEF RateInv, InForce
  <2>2. /\ sent' = sent /\ job[h].pc = "create_peer"
        /\ job' = [job EXCEPT ![h] = [job[h] EXCEPT !.pc = "create_insert"]]
    BY <1>2 DEF CreatePeer, Goto, At, mem
  <2>3. job[h] = [pc |-> "create_peer", dog |-> job[h].dog, to |-> job[h].to]
    BY <1>0, <2>2, LocalsAre
  <2>4. job'[h].dog = job[h].dog /\ \A g \in Handlers \ {h} : job'[g] = job[g]
    BY <1>0, <2>2, <2>3
  <2>5. Calling(d)' \subseteq Calling(d)
    BY <2>2, <2>4 DEF Calling
  <2> QED BY <2>2, <2>5, RateNoMore
<1>3. CASE CreateRefused(h) \/ CreateBusy(h) \/ CreateRow(h) \/ CancelRow(h) \/ AcceptBusy(h)
           \/ AcceptInviteRow(h) \/ SaveSession(h) \/ EndRow(h) \/ AgainGone(h)
           \/ StopNothing(h) \/ PolicySet(h)
  <2>1. \E x : Done(x)
    BY <1>3 DEF CreateRefused, CreateBusy, CreateRow, CancelRow, AcceptBusy, AcceptInviteRow,
       SaveSession, EndRow, AgainGone, StopNothing, PolicySet, Idle, mem
  <2> QED BY <2>1, NoNewCall
<1>4. CASE CancelClose(h) \/ AcceptClose(h) \/ FlagGet(h) \/ PolicyRow(h)
  <2>1. job[h].pc \in {"cancel_close", "accept_close", "flag_get", "policy_row"}
    BY <1>4 DEF CancelClose, AcceptClose, FlagGet, PolicyRow, At
  <2>2. \A pc, pol : /\ [job[h] EXCEPT !.pc = pc].pc = pc
                     /\ job[h].pc = "flag_get" => [job[h] EXCEPT !.pc = pc, !.pol = pol].pc = pc
    BY <1>0, <2>1, PcSet
  <2>3. CASE CancelClose(h)
    <3>1. Goto(h, OrDone([job[h] EXCEPT !.pc = "cancel_row"])) /\ sent' = sent
      BY <2>3 DEF CancelClose
    <3>2. OrDone([job[h] EXCEPT !.pc = "cancel_row"]).pc \in {"cancel_row", "idle"}
      BY <2>2 DEF OrDone, Idle
    <3> QED BY <3>1, <3>2, NoNewCall
  <2>4. CASE AcceptClose(h)
    BY <2>2, <2>4, NoNewCall DEF AcceptClose, mem
  <2>5. CASE FlagGet(h)
    BY <2>2, <2>5, NoNewCall DEF FlagGet, At, mem
  <2>6. CASE PolicyRow(h)
    BY <2>2, <2>6, NoNewCall DEF PolicyRow, mem
  <2> QED BY <1>4, <2>3, <2>4, <2>5, <2>6
<1>5. CASE FlagSet(h) \/ FlagRow(h)
  <2>1. AfterFlag(job[h]).pc \in {"stop_end", "idle"}
    BY DEF AfterFlag, Idle
  <2>2. FlagSet(h) => [job[h] EXCEPT !.pc = "flag_get"].pc = "flag_get"
    BY <1>0, PcSet DEF FlagSet, At
  <2>3. Done(AfterFlag(job[h])) \/ Done([job[h] EXCEPT !.pc = "flag_get"])
    BY <1>5, <2>1, <2>2 DEF FlagSet, FlagRow, mem
  <2> QED BY <2>3, NoNewCall
<1>6. CASE AcceptInsert(h) \/ EndEnd(h) \/ AgainUpdate(h) \/ \E s \in SessionIds : StopEnd(h, s)
  <2>1. \E x : Done(OrDone(x)) \/ Done(x)
    BY <1>6 DEF AcceptInsert, EndEnd, AgainUpdate, StopEnd, OrDone, Idle
  <2> QED BY <2>1, NoNewCall
<1> QED
  BY <1>1, <1>2, <1>3, <1>4, <1>5, <1>6 DEF Step

LEMMA RateStep ==
    ASSUME TypeOK, LimitsInForce, RateInv, [Next]_vars
    PROVE  RateInv'
<1>1. CASE UNCHANGED vars \/ Second \/ Tick
  <2>1. sent' = sent /\ job' = job
    BY <1>1 DEF vars, mem, Second, Tick, TickStart, TickAll, TickRow, TickDone, TickInviteRow,
                TickEnd, TickKeep
  <2> QED BY <2>1, SameCalls
<1>2. CASE Restart
  <2>1. SUFFICES ASSUME NEW d \in Dogs
                 PROVE  \E l \in InForce : CountedWithin(d, l)'
    BY DEF RateInv, InForce
  <2>2. sent'[d] = 0 /\ Calling(d)' = {}
    BY <1>2 DEF Restart, Calling, Idle
  <2>3. DefaultPolicy.limits \in InForce /\ DefaultPolicy.limits.per_hour \in Nat
    BY PerHour DEF InForce
  <2>4. Cardinality(Calling(d)') = 0 /\ Cardinality(Handlers) \in Nat /\ Cardinality(Handlers) >= 1
    BY <2>2, FS_EmptySet, CallingCount
  <2>5. sent'[d] + Cardinality(Calling(d)') <= DefaultPolicy.limits.per_hour + Cardinality(Handlers) - 1
    BY <2>2, <2>3, <2>4
  <2> QED BY <2>3, <2>5 DEF CountedWithin
<1>3. ASSUME NEW h \in Handlers, Request(h) \/ Step(h)
      PROVE  RateInv'
  BY <1>3, RateRequests, RateSteps
<1>4. ASSUME NEW h \in Handlers, Drop(h) PROVE RateInv'
  BY <1>4, NoNewCall DEF Drop, Idle, mem
<1> QED
  BY <1>1, <1>2, <1>3, <1>4 DEF Next

LEMMA InitRate == Init => RateInv
<1> SUFFICES ASSUME Init, NEW d \in Dogs
             PROVE  \E l \in InForce : CountedWithin(d, l)
  BY DEF RateInv
<1>1. sent[d] = 0 /\ Calling(d) = {}
  BY DEF Init, Calling, Idle
<1>2. DefaultPolicy.limits \in InForce /\ DefaultPolicy.limits.per_hour \in Nat
  BY PerHour DEF InForce
<1>3. Cardinality(Calling(d)) = 0 /\ Cardinality(Handlers) \in Nat /\ Cardinality(Handlers) >= 1
  BY <1>1, FS_EmptySet, CallingCount
<1> QED BY <1>1, <1>2, <1>3 DEF CountedWithin

\* The check and the record of a call are apart; of n handlers that check at once, n - 1
\* exceed the limit at most.
THEOREM OvershootBounded == Spec => []RateOvershootBounded
<1> DEFINE Inv == TypeOK /\ LimitsInForce /\ RateInv
<1>1. Init => Inv
  BY InitType, InitDeadline, InitRate DEF DeadlineInv
<1>2. Inv /\ [Next]_vars => Inv'
  BY TypeStep, LimitsStepped, RateStep
<1>3. Inv => RateOvershootBounded
  <2> SUFFICES ASSUME Inv, NEW d \in Dogs
               PROVE  \E l \in InForce : sent[d] <= l.per_hour + Cardinality(Handlers) - 1
    BY DEF RateOvershootBounded, InForce
  <2>1. PICK l \in InForce : CountedWithin(d, l)
    BY DEF RateInv
  <2>2. sent[d] \in Nat /\ Cardinality(Calling(d)) \in Nat /\ Cardinality(Handlers) \in Nat
        /\ l.per_hour \in Nat
    BY CallingCount, PerHour DEF TypeOK
  <2> QED BY <2>1, <2>2 DEF CountedWithin
<1> QED
  BY <1>1, <1>2, <1>3, PTL DEF Spec
=============================================================================
