------------------------------ MODULE DeviceApi ------------------------------
(***************************************************************************)
(* The control plane: the handlers of services/device-api/src/main.rs over *)
(* the stores of crates/db, the one-second policy tick, the SQLite mirror  *)
(* and a restart that reloads it.                                          *)
(*                                                                         *)
(* A handler is a sequence of steps; between two of them other handlers,   *)
(* the tick, the clock and a crash may act.  A step ends at every await    *)
(* and between every two calls that change a store or use what an earlier  *)
(* call read; InviteStore and SessionStore show why one call of a store    *)
(* may be one step.  Instants are whole seconds; a dog's presence, which   *)
(* reports change at any moment, and whether it is asleep are arbitrary    *)
(* each time they are asked.  Answers and events to the devices change no  *)
(* state and are left out.  A client that hangs up takes its handler with  *)
(* it, at any await.                                                       *)
(***************************************************************************)
EXTENDS Integers, FiniteSets

CONSTANTS
    Dogs,
    Handlers,       \* requests the server works on at one time
    Ops,            \* the kinds of request this instance sends
    Bonds,          \* the pairs <<from, to>> that are mutually eligible
    HasPool,        \* FALSE under --ephemeral
    DefaultPolicy,  \* DogPolicy::default_for
    Limits,         \* the [max_sec, seg_sec, per_hour] a steward may set
    RingTimeout,
    MaxTime,        \* bound: the clock stops here
    MaxInvites,     \* bound: invite ids
    MaxSessions,    \* bound: session ids
    MaxRestarts,    \* bound: crashes
    MaxRequests,    \* bound: requests received
    None

Kinds == {"create", "incoming", "cancel", "accept", "end", "media", "again",
          "estop", "social", "policy"}
Times == 0..MaxTime
InviteIds == 1..MaxInvites
SessionIds == 1..MaxSessions
States == {"Negotiating", "Active"}

Limit == [max_sec: Nat, seg_sec: Nat, per_hour: Nat]
Policy == [estop: BOOLEAN, social: BOOLEAN, limits: Limit]
Invite == [from: Dogs, to: Dogs, expires: Int]
Session == [invite: InviteIds, dog_a: Dogs, dog_b: Dogs, state: States,
            started: Int, max_end: Int, deadline: Int,
            media_a: BOOLEAN, media_b: BOOLEAN]

ASSUME ConstantsAssumption ==
    /\ Handlers # {} /\ IsFiniteSet(Handlers)
    /\ Ops \subseteq Kinds
    /\ Bonds \subseteq Dogs \X Dogs
    /\ HasPool \in BOOLEAN
    /\ DefaultPolicy \in Policy
    /\ Limits \subseteq Limit
    /\ RingTimeout \in Nat /\ MaxTime \in Nat
    /\ MaxInvites \in Nat /\ MaxSessions \in Nat /\ MaxRestarts \in Nat /\ MaxRequests \in Nat
    /\ None \notin Invite \cup Session \cup Policy

VARIABLES
    clock,
    invites, sessions, policy,              \* AppData
    sent,                                   \* invite_times: how many a dog sent
    db_invites, db_sessions, db_policy,     \* the rows of the SQLite tables
    job,                                    \* what each handler does next, and its locals
    tick,                                   \* the same for policy_tick
    made,                                   \* how many invite and session ids were handed out
    requests, restarts

mem == <<invites, sessions, policy, sent>>
db == <<db_invites, db_sessions, db_policy>>
vars == <<clock, mem, db, job, tick, made, requests, restarts>>

Idle == [pc |-> "idle"]
Asleep == [pc |-> "asleep"]

Init ==
    /\ clock = 0
    /\ invites = [i \in InviteIds |-> None]
    /\ sessions = [s \in SessionIds |-> None]
    /\ policy = [d \in Dogs |-> DefaultPolicy]
    /\ sent = [d \in Dogs |-> 0]
    /\ db_invites = [i \in InviteIds |-> None]
    /\ db_sessions = [s \in SessionIds |-> None]
    /\ db_policy = [d \in Dogs |-> None]
    /\ job = [h \in Handlers |-> Idle]
    /\ tick = Asleep
    /\ made = [invites |-> 0, sessions |-> 0]
    /\ requests = 0
    /\ restarts = 0

----------------------------------------------------------------------------
\* The stores

Ringing(d) == \E i \in InviteIds : invites[i] # None /\ d \in {invites[i].from, invites[i].to}

InSession(d) ==
    \E s \in SessionIds : sessions[s] # None /\ d \in {sessions[s].dog_a, sessions[s].dog_b}

Due == {i \in InviteIds : invites[i] # None /\ clock >= invites[i].expires}

\* invites.expire_due(now): memory alone, the caller may delete the rows.
AfterExpiry == [i \in InviteIds |-> IF i \in Due THEN None ELSE invites[i]]

SocialAllowed(p) == ~ p.estop /\ ~ p.social

\* A handler goes on with j, at a step of its own or at its next database write.
At(h, pc) == job[h].pc = pc
Goto(h, j) == job' = [job EXCEPT ![h] = j]
Receive(h, kind) ==
    /\ At(h, "idle")
    /\ kind \in Ops
    /\ requests < MaxRequests
    /\ requests' = requests + 1
OrDone(j) == IF HasPool THEN j ELSE Idle

----------------------------------------------------------------------------
\* create_invite

\* One invite more than the limit.
MayCreateOneMore(d, to) ==
    /\ SocialAllowed(policy[d])
    /\ sent[d] <= policy[d].limits.per_hour
    /\ \A i \in InviteIds : AfterExpiry[i] # None => d \notin {AfterExpiry[i].from, AfterExpiry[i].to}
    /\ ~ InSession(d)
    /\ <<d, to>> \in Bonds

\* The caller may call, is not busy, and route_invite finds a peer.
MayCreate(d, to) ==
    /\ SocialAllowed(policy[d])
    /\ sent[d] < policy[d].limits.per_hour
    /\ \A i \in InviteIds : AfterExpiry[i] # None => d \notin {AfterExpiry[i].from, AfterExpiry[i].to}
    /\ ~ InSession(d)
    /\ <<d, to>> \in Bonds

CreateRoute(h, d, to) ==
    /\ Receive(h, "create")
    /\ made.invites < MaxInvites
    /\ MayCreate(d, to)
    /\ invites' = AfterExpiry
    /\ Goto(h, [pc |-> "create_peer", dog |-> d, to |-> to])
    /\ UNCHANGED <<clock, sessions, policy, sent, db, tick, made, restarts>>

\* The peer's policy and its two stores.
CreatePeer(h) ==
    LET to == job[h].to
    IN  /\ At(h, "create_peer")
        /\ SocialAllowed(policy[to])
        /\ ~ Ringing(to) /\ ~ InSession(to)
        /\ Goto(h, [job[h] EXCEPT !.pc = "create_insert"])
        /\ UNCHANGED <<clock, mem, db, tick, made, requests, restarts>>

\* The peer is stopped, busy or asleep.
CreateRefused(h) ==
    /\ At(h, "create_peer")
    /\ Goto(h, Idle)
    /\ UNCHANGED <<clock, mem, db, tick, made, requests, restarts>>

\* new_invite, invites.insert and record_invite.
CreateInsert(h) ==
    LET d == job[h].dog
        inv == [from |-> d, to |-> job[h].to, expires |-> clock + RingTimeout]
        id == made.invites + 1
    IN  /\ At(h, "create_insert")
        /\ id \in InviteIds
        /\ ~ Ringing(d) /\ ~ Ringing(job[h].to)
        /\ invites' = [invites EXCEPT ![id] = inv]
        /\ made' = [made EXCEPT !.invites = id]
        /\ sent' = [sent EXCEPT ![d] = @ + 1]
        /\ Goto(h, OrDone([pc |-> "create_row", id |-> id, inv |-> inv]))
        /\ UNCHANGED <<clock, sessions, policy, db, tick, requests, restarts>>

CreateBusy(h) ==
    /\ At(h, "create_insert")
    /\ Ringing(job[h].dog) \/ Ringing(job[h].to)
    /\ Goto(h, Idle)
    /\ UNCHANGED <<clock, mem, db, tick, made, requests, restarts>>

\* save_invite; its invite_events row is never read back.
CreateRow(h) ==
    /\ At(h, "create_row")
    /\ db_invites' = [db_invites EXCEPT ![job[h].id] = job[h].inv]
    /\ Goto(h, Idle)
    /\ UNCHANGED <<clock, mem, db_sessions, db_policy, tick, made, requests, restarts>>

----------------------------------------------------------------------------
\* A create or accept that is refused, or a poll of incoming_invite, has expired
\* what was due; the last two look at the dog's policy first.

SweepOnly(h, kind, d) ==
    /\ Receive(h, kind)
    /\ kind = "create" \/ SocialAllowed(policy[d])
    /\ Due # {}
    /\ invites' = AfterExpiry
    /\ UNCHANGED <<clock, sessions, policy, sent, db, job, tick, made, restarts>>

----------------------------------------------------------------------------
\* cancel_invite, by either of its dogs

CancelGet(h, i) ==
    /\ Receive(h, "cancel")
    /\ invites[i] # None
    /\ Goto(h, [pc |-> "cancel_close", id |-> i])
    /\ UNCHANGED <<clock, mem, db, tick, made, restarts>>

\* A cancelled call is given back to its caller.
CancelCloseRefunds(h) ==
    LET inv == invites[job[h].id]
    IN  /\ At(h, "cancel_close")
        /\ invites' = [invites EXCEPT ![job[h].id] = None]
        /\ sent' = IF inv = None THEN sent ELSE [sent EXCEPT ![inv.from] = @ - 1]
        /\ Goto(h, OrDone([job[h] EXCEPT !.pc = "cancel_row"]))
        /\ UNCHANGED <<clock, sessions, policy, db, tick, made, requests, restarts>>

\* The result of close is not looked at.
CancelClose(h) ==
    /\ At(h, "cancel_close")
    /\ invites' = [invites EXCEPT ![job[h].id] = None]
    /\ Goto(h, OrDone([job[h] EXCEPT !.pc = "cancel_row"]))
    /\ UNCHANGED <<clock, sessions, policy, sent, db, tick, made, requests, restarts>>

CancelRow(h) ==
    /\ At(h, "cancel_row")
    /\ db_invites' = [db_invites EXCEPT ![job[h].id] = None]
    /\ Goto(h, Idle)
    /\ UNCHANGED <<clock, mem, db_sessions, db_policy, tick, made, requests, restarts>>

----------------------------------------------------------------------------
\* accept_invite_handler

\* The callee accepts; its own policy is looked at, and sets the limits.
AcceptGet(h, i) ==
    LET inv == AfterExpiry[i]
        pol == policy[inv.to]
    IN  /\ Receive(h, "accept")
        /\ inv # None
        /\ SocialAllowed(pol)
        /\ invites' = AfterExpiry
        /\ Goto(h, [pc |-> "accept_close", id |-> i,
                    sess |-> [invite |-> i, dog_a |-> inv.from, dog_b |-> inv.to,
                              state |-> "Negotiating", started |-> clock,
                              max_end |-> clock + pol.limits.max_sec,
                              deadline |-> clock + pol.limits.seg_sec,
                              media_a |-> FALSE, media_b |-> FALSE]])
        /\ UNCHANGED <<clock, sessions, policy, sent, db, tick, made, restarts>>

\* The result of close is not looked at.
AcceptClose(h) ==
    /\ At(h, "accept_close")
    /\ invites' = [invites EXCEPT ![job[h].id] = None]
    /\ Goto(h, [job[h] EXCEPT !.pc = "accept_insert"])
    /\ UNCHANGED <<clock, sessions, policy, sent, db, tick, made, requests, restarts>>

\* Whether the dogs are in a session is not checked again.
AcceptInsertUnchecked(h) ==
    LET id == made.sessions + 1
        sess == job[h].sess
    IN  /\ At(h, "accept_insert")
        /\ id \in SessionIds
        /\ sessions' = [sessions EXCEPT ![id] = sess]
        /\ made' = [made EXCEPT !.sessions = id]
        /\ Goto(h, OrDone([pc |-> "accept_invite_row", id |-> job[h].id, sid |-> id, sess |-> sess]))
        /\ UNCHANGED <<clock, invites, policy, sent, db, tick, requests, restarts>>

AcceptInsert(h) ==
    LET id == made.sessions + 1
        sess == job[h].sess
    IN  /\ At(h, "accept_insert")
        /\ id \in SessionIds
        /\ ~ InSession(sess.dog_a) /\ ~ InSession(sess.dog_b)
        /\ sessions' = [sessions EXCEPT ![id] = sess]
        /\ made' = [made EXCEPT !.sessions = id]
        /\ Goto(h, OrDone([pc |-> "accept_invite_row", id |-> job[h].id, sid |-> id, sess |-> sess]))
        /\ UNCHANGED <<clock, invites, policy, sent, db, tick, requests, restarts>>

\* 409, with the invite closed and its row left behind.
AcceptBusy(h) ==
    /\ At(h, "accept_insert")
    /\ InSession(job[h].sess.dog_a) \/ InSession(job[h].sess.dog_b)
    /\ Goto(h, Idle)
    /\ UNCHANGED <<clock, mem, db, tick, made, requests, restarts>>

\* The session's own row is forgotten.
AcceptInviteRowOnly(h) ==
    /\ At(h, "accept_invite_row")
    /\ db_invites' = [db_invites EXCEPT ![job[h].id] = None]
    /\ Goto(h, Idle)
    /\ UNCHANGED <<clock, mem, db_sessions, db_policy, tick, made, requests, restarts>>

AcceptInviteRow(h) ==
    /\ At(h, "accept_invite_row")
    /\ db_invites' = [db_invites EXCEPT ![job[h].id] = None]
    /\ Goto(h, [pc |-> "save_session", sid |-> job[h].sid, sess |-> job[h].sess])
    /\ UNCHANGED <<clock, mem, db_sessions, db_policy, tick, made, requests, restarts>>

\* The save goes to the store as well as to the table.
SaveSessionThrough(h) ==
    /\ At(h, "save_session")
    /\ sessions' = [sessions EXCEPT ![job[h].sid] = job[h].sess]
    /\ db_sessions' = [db_sessions EXCEPT ![job[h].sid] = job[h].sess]
    /\ Goto(h, Idle)
    /\ UNCHANGED <<clock, invites, policy, sent, db_invites, db_policy, tick, made, requests, restarts>>

\* save_session, the last write of accept, media_ready and again: it writes the
\* row whether or not the session is still there.
SaveSession(h) ==
    /\ At(h, "save_session")
    /\ db_sessions' = [db_sessions EXCEPT ![job[h].sid] = job[h].sess]
    /\ Goto(h, Idle)
    /\ UNCHANGED <<clock, mem, db_invites, db_policy, tick, made, requests, restarts>>

----------------------------------------------------------------------------
\* end_session, by either of its dogs

EndGet(h, s) ==
    /\ Receive(h, "end")
    /\ sessions[s] # None
    /\ Goto(h, [pc |-> "end_end", sid |-> s])
    /\ UNCHANGED <<clock, mem, db, tick, made, restarts>>

EndEnd(h) ==
    /\ At(h, "end_end")
    /\ sessions' = [sessions EXCEPT ![job[h].sid] = None]
    /\ Goto(h, OrDone([pc |-> "end_row", sid |-> job[h].sid]))
    /\ UNCHANGED <<clock, invites, policy, sent, db, tick, made, requests, restarts>>

\* delete_session, of end_session and of steward_estop.
EndRow(h) ==
    /\ At(h, "end_row")
    /\ db_sessions' = [db_sessions EXCEPT ![job[h].sid] = None]
    /\ Goto(h, Idle)
    /\ UNCHANGED <<clock, mem, db_invites, db_policy, tick, made, requests, restarts>>

----------------------------------------------------------------------------
\* media_ready and again

\* set_media_ready's flags and state for one report of dog d.
Reported(sess, d, ready) ==
    LET s == IF d = sess.dog_a THEN [sess EXCEPT !.media_a = ready]
                               ELSE [sess EXCEPT !.media_b = ready]
    IN  [s EXCEPT !.state = IF s.media_a /\ s.media_b THEN "Active" ELSE @]

\* The row gets the reporting side's flag as set, whatever it reported, and the
\* other side's only if both are ready.
MediaReady(h, s, d, ready) ==
    LET new == Reported(sessions[s], d, ready)
        both == new.media_a /\ new.media_b
    IN  /\ Receive(h, "media")
        /\ sessions[s] # None
        /\ d \in {sessions[s].dog_a, sessions[s].dog_b}
        /\ sessions' = [sessions EXCEPT ![s] = new]
        /\ Goto(h, OrDone([pc |-> "save_session", sid |-> s,
                           sess |-> [new EXCEPT !.media_a = both \/ d = new.dog_a,
                                                !.media_b = both \/ d = new.dog_b]]))
        /\ UNCHANGED <<clock, invites, policy, sent, db, tick, made, restarts>>

\* The hard end is forgotten.
ExtendSegmentFreely(now, seg_sec, max_end) == now + seg_sec

\* policy::extend_segment
ExtendSegment(now, seg_sec, max_end) ==
    IF now + seg_sec > max_end THEN max_end ELSE now + seg_sec

AgainGet(h, s, d) ==
    /\ Receive(h, "again")
    /\ sessions[s] # None
    /\ d \in {sessions[s].dog_a, sessions[s].dog_b}
    /\ Goto(h, [pc |-> "again_update", sid |-> s,
                deadline |-> ExtendSegment(clock, policy[d].limits.seg_sec, sessions[s].max_end)])
    /\ UNCHANGED <<clock, mem, db, tick, made, restarts>>

\* update, and a row that has both sides ready.
AgainUpdate(h) ==
    LET s == job[h].sid
        new == [sessions[s] EXCEPT !.deadline = job[h].deadline]
    IN  /\ At(h, "again_update")
        /\ sessions[s] # None
        /\ sessions' = [sessions EXCEPT ![s] = new]
        /\ Goto(h, OrDone([pc |-> "save_session", sid |-> s,
                           sess |-> [new EXCEPT !.media_a = TRUE, !.media_b = TRUE]]))
        /\ UNCHANGED <<clock, invites, policy, sent, db, tick, made, requests, restarts>>

AgainGone(h) ==
    /\ At(h, "again_update")
    /\ sessions[job[h].sid] = None
    /\ Goto(h, Idle)
    /\ UNCHANGED <<clock, mem, db, tick, made, requests, restarts>>

----------------------------------------------------------------------------
\* steward_estop, steward_social and steward_policy

\* set_estop and set_social_disabled: ensure's copy, changed, is set back whole.
FlagRead(h, kind, d, on) ==
    /\ kind \in {"estop", "social"}
    /\ Receive(h, kind)
    /\ Goto(h, [pc |-> "flag_set", kind |-> kind, dog |-> d, on |-> on,
                pol |-> IF kind = "estop" THEN [policy[d] EXCEPT !.estop = on]
                                          ELSE [policy[d] EXCEPT !.social = on]])
    /\ UNCHANGED <<clock, mem, db, tick, made, restarts>>

\* What a flag handler does after its policy row: an e-stop ends the session.
AfterFlag(j) == IF j.kind = "estop" /\ j.on THEN [pc |-> "stop_end", dog |-> j.dog] ELSE Idle

FlagSet(h) ==
    /\ At(h, "flag_set")
    /\ policy' = [policy EXCEPT ![job[h].dog] = job[h].pol]
    /\ Goto(h, IF HasPool THEN [job[h] EXCEPT !.pc = "flag_get"] ELSE AfterFlag(job[h]))
    /\ UNCHANGED <<clock, invites, sessions, sent, db, tick, made, requests, restarts>>

\* The row is written from a fresh read.
FlagGet(h) ==
    /\ At(h, "flag_get")
    /\ Goto(h, [job[h] EXCEPT !.pc = "flag_row", !.pol = policy[job[h].dog]])
    /\ UNCHANGED <<clock, mem, db, tick, made, requests, restarts>>

FlagRow(h) ==
    /\ At(h, "flag_row")
    /\ db_policy' = [db_policy EXCEPT ![job[h].dog] = job[h].pol]
    /\ Goto(h, AfterFlag(job[h]))
    /\ UNCHANGED <<clock, mem, db_invites, db_sessions, tick, made, requests, restarts>>

StopEnd(h, s) ==
    /\ At(h, "stop_end")
    /\ sessions[s] # None
    /\ job[h].dog \in {sessions[s].dog_a, sessions[s].dog_b}
    /\ sessions' = [sessions EXCEPT ![s] = None]
    /\ Goto(h, OrDone([pc |-> "end_row", sid |-> s]))
    /\ UNCHANGED <<clock, invites, policy, sent, db, tick, made, requests, restarts>>

StopNothing(h) ==
    /\ At(h, "stop_end")
    /\ ~ InSession(job[h].dog)
    /\ Goto(h, Idle)
    /\ UNCHANGED <<clock, mem, db, tick, made, requests, restarts>>

\* steward_policy saves its changed copy first and sets it afterwards.
PolicyRead(h, d, l) ==
    /\ Receive(h, "policy")
    /\ Goto(h, [pc |-> IF HasPool THEN "policy_row" ELSE "policy_set", dog |-> d,
                pol |-> [policy[d] EXCEPT !.limits = l]])
    /\ UNCHANGED <<clock, mem, db, tick, made, restarts>>

PolicyRow(h) ==
    /\ At(h, "policy_row")
    /\ db_policy' = [db_policy EXCEPT ![job[h].dog] = job[h].pol]
    /\ Goto(h, [job[h] EXCEPT !.pc = "policy_set"])
    /\ UNCHANGED <<clock, mem, db_invites, db_sessions, tick, made, requests, restarts>>

PolicySet(h) ==
    /\ At(h, "policy_set")
    /\ policy' = [policy EXCEPT ![job[h].dog] = job[h].pol]
    /\ Goto(h, Idle)
    /\ UNCHANGED <<clock, invites, sessions, sent, db, tick, made, requests, restarts>>

----------------------------------------------------------------------------
\* The client hangs up, and axum drops its handler where it awaits: at a write of the
\* database, which may or may not have happened, or at end_session's publish_many.
\* What the handler has done stays done.

Awaits(h) ==
    \/ At(h, "end_end")
    \/ HasPool /\ job[h].pc \in {"create_row", "cancel_row", "accept_invite_row", "save_session",
                                "end_row", "flag_row", "stop_end", "policy_row", "policy_set"}

Drop(h) ==
    /\ Awaits(h)
    /\ Goto(h, Idle)
    /\ UNCHANGED <<clock, mem, db, tick, made, requests, restarts>>

----------------------------------------------------------------------------
\* policy_tick, with the `now` of its start

\* Only requests expire invites.
TickStartNoExpiry ==
    /\ tick.pc = "asleep"
    /\ tick' = [pc |-> "rows", at |-> clock, due |-> {}]
    /\ UNCHANGED <<clock, mem, db, job, made, requests, restarts>>

TickStart ==
    /\ tick.pc = "asleep"
    /\ invites' = AfterExpiry
    /\ tick' = [pc |-> "rows", at |-> clock, due |-> IF HasPool THEN Due ELSE {}]
    /\ UNCHANGED <<clock, sessions, policy, sent, db, job, made, requests, restarts>>

TickInviteRow(i) ==
    /\ tick.pc = "rows"
    /\ i \in tick.due
    /\ db_invites' = [db_invites EXCEPT ![i] = None]
    /\ tick' = [tick EXCEPT !.due = @ \ {i}]
    /\ UNCHANGED <<clock, mem, db_sessions, db_policy, job, made, requests, restarts>>

\* sessions.all(): copies, of which some may be stale when their turn comes.
TickAll ==
    /\ tick.pc = "rows"
    /\ tick.due = {}
    /\ tick' = [pc |-> "scan", at |-> tick.at, left |-> sessions]
    /\ UNCHANGED <<clock, mem, db, job, made, requests, restarts>>

\* num_seconds() as u64: a session that began after the tick's `now` is as old as can be.
PastMax(sess, max_sec, now) == now < sess.started \/ now - sess.started >= max_sec

\* The stop of the dog that was called is forgotten.
TickEndsCallerStop(sess, now) ==
    \/ PastMax(sess, policy[sess.dog_a].limits.max_sec, now)
    \/ now >= sess.deadline /\ sess.state = "Active"
    \/ policy[sess.dog_a].estop

\* Only the segment is looked at, which a Negotiating session does not end by.
TickEndsSegmentOnly(sess, now) ==
    \/ now >= sess.deadline /\ sess.state = "Active"
    \/ policy[sess.dog_a].estop
    \/ policy[sess.dog_b].estop

\* The policies are today's, the session is the copy.
TickEnds(sess, now) ==
    \/ PastMax(sess, policy[sess.dog_a].limits.max_sec, now)
    \/ now >= sess.deadline /\ sess.state = "Active"
    \/ policy[sess.dog_a].estop
    \/ policy[sess.dog_b].estop

TickEnd(s) ==
    LET left == [tick.left EXCEPT ![s] = None]
    IN  /\ tick.pc = "scan"
        /\ tick.left[s] # None
        /\ TickEnds(tick.left[s], tick.at)
        /\ sessions' = [sessions EXCEPT ![s] = None]
        /\ tick' = IF HasPool THEN [pc |-> "row", at |-> tick.at, left |-> left, sid |-> s]
                              ELSE [tick EXCEPT !.left = left]
        /\ UNCHANGED <<clock, invites, policy, sent, db, job, made, requests, restarts>>

TickRow ==
    /\ tick.pc = "row"
    /\ db_sessions' = [db_sessions EXCEPT ![tick.sid] = None]
    /\ tick' = [pc |-> "scan", at |-> tick.at, left |-> tick.left]
    /\ UNCHANGED <<clock, mem, db_invites, db_policy, job, made, requests, restarts>>

TickKeep(s) ==
    /\ tick.pc = "scan"
    /\ tick.left[s] # None
    /\ ~ TickEnds(tick.left[s], tick.at)
    /\ tick' = [tick EXCEPT !.left[s] = None]
    /\ UNCHANGED <<clock, mem, db, job, made, requests, restarts>>

TickDone ==
    /\ tick.pc = "scan"
    /\ \A s \in SessionIds : tick.left[s] = None
    /\ tick' = Asleep
    /\ UNCHANGED <<clock, mem, db, job, made, requests, restarts>>

----------------------------------------------------------------------------
\* The clock, and a crash with the restart that loads the database

Second ==
    /\ clock < MaxTime
    /\ clock' = clock + 1
    /\ UNCHANGED <<mem, db, job, tick, made, requests, restarts>>

\* The rows, each given by its dogs, that insert takes when they come in some order:
\* as many as fit, no two sharing a dog.
Fits(dogs, ids) ==
    /\ \A i \in ids : dogs[i] # {}
    /\ \A i, j \in ids : i # j => dogs[i] \cap dogs[j] = {}

Loaded(dogs) ==
    {ids \in SUBSET DOMAIN dogs :
        /\ Fits(dogs, ids)
        /\ \A i \in DOMAIN dogs \ ids : ~ Fits(dogs, ids \cup {i})}

InviteDogs(i) == {i.from, i.to}
SessionDogs(s) == {s.dog_a, s.dog_b}
InviteRows == [i \in InviteIds |-> IF db_invites[i] = None THEN {} ELSE InviteDogs(db_invites[i])]
SessionRows == [s \in SessionIds |-> IF db_sessions[s] = None THEN {} ELSE SessionDogs(db_sessions[s])]

\* The loaded flags are set one by one, which makes the session Active when both are.
Restored(row) == IF row.media_a /\ row.media_b THEN [row EXCEPT !.state = "Active"] ELSE row

\* The rows are read in no particular order; the rate limit's times are not read back.
Restart ==
    /\ restarts < MaxRestarts
    /\ restarts' = restarts + 1
    /\ job' = [h \in Handlers |-> Idle]
    /\ tick' = Asleep
    /\ \E ids \in Loaded(InviteRows) :
          invites' = [i \in InviteIds |-> IF i \in ids THEN db_invites[i] ELSE None]
    /\ \E ids \in Loaded(SessionRows) :
          sessions' = [s \in SessionIds |-> IF s \in ids THEN Restored(db_sessions[s]) ELSE None]
    /\ policy' = [d \in Dogs |-> IF db_policy[d] = None THEN DefaultPolicy ELSE db_policy[d]]
    /\ sent' = [d \in Dogs |-> 0]
    /\ UNCHANGED <<clock, db, made, requests>>

----------------------------------------------------------------------------
Request(h) ==
    \/ \E d, to \in Dogs : CreateRoute(h, d, to)
    \/ \E kind \in {"create", "incoming", "accept"}, d \in Dogs : SweepOnly(h, kind, d)
    \/ \E i \in InviteIds : CancelGet(h, i) \/ AcceptGet(h, i)
    \/ \E s \in SessionIds : EndGet(h, s)
    \/ \E s \in SessionIds, d \in Dogs, ready \in BOOLEAN : MediaReady(h, s, d, ready)
    \/ \E s \in SessionIds, d \in Dogs : AgainGet(h, s, d)
    \/ \E kind \in {"estop", "social"}, d \in Dogs, on \in BOOLEAN : FlagRead(h, kind, d, on)
    \/ \E d \in Dogs, l \in Limits : PolicyRead(h, d, l)

\* The steps of a handler that is under way.
Step(h) ==
    \/ CreatePeer(h) \/ CreateRefused(h) \/ CreateInsert(h) \/ CreateBusy(h) \/ CreateRow(h)
    \/ CancelClose(h) \/ CancelRow(h)
    \/ AcceptClose(h) \/ AcceptInsert(h) \/ AcceptBusy(h) \/ AcceptInviteRow(h)
    \/ SaveSession(h) \/ EndEnd(h) \/ EndRow(h)
    \/ AgainUpdate(h) \/ AgainGone(h)
    \/ FlagSet(h) \/ FlagGet(h) \/ FlagRow(h)
    \/ (\E s \in SessionIds : StopEnd(h, s)) \/ StopNothing(h)
    \/ PolicyRow(h) \/ PolicySet(h)

Tick ==
    \/ TickStart \/ TickAll \/ TickRow \/ TickDone
    \/ \E i \in InviteIds : TickInviteRow(i)
    \/ \E s \in SessionIds : TickEnd(s) \/ TickKeep(s)

Next == Tick \/ Second \/ Restart \/ \E h \in Handlers : Request(h) \/ Step(h) \/ Drop(h)

Spec == Init /\ [][Next]_vars

(***************************************************************************)
(* tokio polls every ready task, and the tick wakes every second for as    *)
(* long as the process lives; time passes.  Nobody has to send a request,  *)
(* and no client has to stay.                                              *)
(***************************************************************************)
FairSpec ==
    /\ Spec
    /\ WF_vars(Tick)
    /\ WF_vars(Second)
    /\ \A h \in Handlers : WF_vars(Step(h))

----------------------------------------------------------------------------
Job ==
    {Idle}
    \cup [pc: {"create_peer", "create_insert"}, dog: Dogs, to: Dogs]
    \cup [pc: {"create_row"}, id: InviteIds, inv: Invite]
    \cup [pc: {"cancel_close", "cancel_row"}, id: InviteIds]
    \cup [pc: {"accept_close", "accept_insert"}, id: InviteIds, sess: Session]
    \cup [pc: {"accept_invite_row"}, id: InviteIds, sid: SessionIds, sess: Session]
    \cup [pc: {"save_session"}, sid: SessionIds, sess: Session]
    \cup [pc: {"end_end", "end_row"}, sid: SessionIds]
    \cup [pc: {"again_update"}, sid: SessionIds, deadline: Int]
    \cup [pc: {"flag_set", "flag_get", "flag_row"}, kind: {"estop", "social"},
          dog: Dogs, on: BOOLEAN, pol: Policy]
    \cup [pc: {"stop_end"}, dog: Dogs]
    \cup [pc: {"policy_row", "policy_set"}, dog: Dogs, pol: Policy]

TickJob ==
    {Asleep}
    \cup [pc: {"rows"}, at: Int, due: SUBSET InviteIds]
    \cup [pc: {"scan"}, at: Int, left: [SessionIds -> Session \cup {None}]]
    \cup [pc: {"row"}, at: Int, left: [SessionIds -> Session \cup {None}], sid: SessionIds]

\* The stores and the rows hold records, and a handler has the locals its next step reads.
TypeOK ==
    /\ clock \in Nat
    /\ invites \in [InviteIds -> Invite \cup {None}]
    /\ sessions \in [SessionIds -> Session \cup {None}]
    /\ policy \in [Dogs -> Policy]
    /\ sent \in [Dogs -> Nat]
    /\ db_invites \in [InviteIds -> Invite \cup {None}]
    /\ db_sessions \in [SessionIds -> Session \cup {None}]
    /\ db_policy \in [Dogs -> Policy \cup {None}]
    /\ job \in [Handlers -> Job]
    /\ tick \in TickJob
    /\ made \in [invites: 0..MaxInvites, sessions: 0..MaxSessions]
    /\ requests \in Nat
    /\ restarts \in Nat

\* A ringing invite has its row, or its create is about to write it; and so a session.
InviteCovered(i) ==
    invites[i] # None =>
        db_invites[i] # None \/ \E h \in Handlers : At(h, "create_row") /\ job[h].id = i

SessionCovered(s) ==
    sessions[s] # None =>
        \/ db_sessions[s] # None
        \/ \E h \in Handlers :
              job[h].pc \in {"accept_invite_row", "save_session"} /\ job[h].sid = s

\* What rings or is live is in the table, or will be before its handler answers: only a
\* client that hangs up meanwhile leaves a record for a crash to lose.  No row of a live
\* record is deleted, by whatever handler, tick or late write, and none is forgotten.
RowsCoverLive ==
    [][HasPool =>
          \/ \E h \in Handlers : Drop(h)
          \/ /\ \A i \in InviteIds : InviteCovered(i) => InviteCovered(i)'
             /\ \A s \in SessionIds : SessionCovered(s) => SessionCovered(s)']_vars

\* No two invites and no two sessions share a dog, even after a restart that
\* found rows of contacts long over.
NoSharedDog ==
    /\ \A i, j \in InviteIds :
          invites[i] # None /\ invites[j] # None /\ i # j =>
              InviteDogs(invites[i]) \cap InviteDogs(invites[j]) = {}
    /\ \A s, t \in SessionIds :
          sessions[s] # None /\ sessions[t] # None /\ s # t =>
              SessionDogs(sessions[s]) \cap SessionDogs(sessions[t]) = {}

\* The end and the deadline are the ones accept gave the session, from one policy: the
\* deadline may be the later one, as the steward sets the two limits independently.
FirstSegment(sess) ==
    \E l \in Limits \cup {DefaultPolicy.limits} :
        sess.max_end = sess.started + l.max_sec /\ sess.deadline = sess.started + l.seg_sec

\* No extension outlasts the session, whichever side asked for it, under whatever policy
\* and from whatever copy, and in whatever row it waits for a restart (docs/features/06:
\* "without exceeding max_end_at"); only a first segment can.
ExtensionsWithinMax ==
    \A s \in SessionIds :
        /\ sessions[s] # None =>
              sessions[s].deadline <= sessions[s].max_end \/ FirstSegment(sessions[s])
        /\ db_sessions[s] # None =>
              db_sessions[s].deadline <= db_sessions[s].max_end \/ FirstSegment(db_sessions[s])

\* The rate limit is read long before the invite is recorded, so handlers under
\* way can exceed it, by one each at most.
RateOvershootBounded ==
    \A d \in Dogs : \E l \in Limits \cup {DefaultPolicy.limits} :
        sent[d] <= l.per_hour + Cardinality(Handlers) - 1

\* An ended session stays ended: no late media report, extension or accept
\* brings it back; only a restart can.
EndedStaysEnded ==
    [][\A s \in 1..made.sessions :
          sessions[s] = None /\ sessions'[s] # None => restarts' # restarts]_vars

\* An emergency stop that stays on ends the dog's session and lets no other
\* begin for good, though accept never asks for the caller's flag.
StopPrevails ==
    \A d \in Dogs : <>[]policy[d].estop => <>[](~ InSession(d))

Longest == CHOOSE m \in {l.max_sec : l \in Limits \cup {DefaultPolicy.limits}} :
              \A l \in Limits \cup {DefaultPolicy.limits} : l.max_sec <= m

\* Every session ends, Active or still Negotiating, whatever its dogs and their
\* terminals do or fail to do.
SessionsEnd ==
    \A s \in SessionIds :
        (sessions[s] # None /\ sessions[s].started + Longest <= MaxTime) ~> sessions[s] = None

\* Every invite stops ringing, whether or not anyone polls for it.
RingsEnd ==
    \A i \in InviteIds :
        (invites[i] # None /\ invites[i].expires <= MaxTime) ~> invites[i] = None

----------------------------------------------------------------------------
\* What is remembered of a call or a session, wherever that is: in its store, in its
\* row, or with a handler that will still write one or begin the session.

Call(inv) == IF inv = None THEN {} ELSE {<<inv.from, inv.to>>}

Talk(sess) ==
    IF sess = None THEN {}
    ELSE {[invite |-> sess.invite, dogs |-> <<sess.dog_a, sess.dog_b>>,
           started |-> sess.started, max_end |-> sess.max_end]}

CarriedCall(j, i) ==
    CASE j.pc = "create_row" -> IF j.id = i THEN Call(j.inv) ELSE {}
      [] j.pc \in {"accept_close", "accept_insert"} ->
            IF j.id = i THEN {<<j.sess.dog_a, j.sess.dog_b>>} ELSE {}
      [] OTHER -> {}

CarriedTalk(j, s) ==
    CASE j.pc \in {"accept_invite_row", "save_session"} -> IF j.sid = s THEN Talk(j.sess) ELSE {}
      [] OTHER -> {}

CallCopies(i) ==
    Call(invites[i]) \cup Call(db_invites[i]) \cup UNION {CarriedCall(job[h], i) : h \in Handlers}

TalkCopies(s) ==
    Talk(sessions[s]) \cup Talk(db_sessions[s]) \cup UNION {CarriedTalk(job[h], s) : h \in Handlers}

RememberedCalls == [i \in InviteIds |-> CallCopies(i)]
RememberedTalks == [s \in SessionIds |-> TalkCopies(s)]
RingingNow == {i \in InviteIds : invites[i] # None}
LiveNow ==
    [s \in SessionIds |->
        IF sessions[s] = None THEN [state |-> "Gone", media_a |-> FALSE, media_b |-> FALSE]
        ELSE [state |-> sessions[s].state,
              media_a |-> sessions[s].media_a, media_b |-> sessions[s].media_b]]

Book == INSTANCE CallBook WITH
    calls <- RememberedCalls, ringing <- RingingNow,
    talks <- RememberedTalks, live <- LiveNow,
    handed <- made, crashes <- restarts

\* Whatever handlers cross a call and wherever a crash cuts them off: only bonded dogs
\* ring, only the two of a call talk, no dog in two at a time, and no copy of an ended
\* session, wherever it lingers, becomes anything but that session again, and that only
\* in a restart.
KeepsCallBook == Book!Spec

----------------------------------------------------------------------------
\* What the documents say and the code does not keep (see README).

Quiet == tick = Asleep /\ \A h \in Handlers : job[h] = Idle

\* crates/db/src/sqlite.rs:3 "mirrored to SQLite so restarts keep ... open
\* sessions": a restart while nothing is in flight loses no session that has its row.
RestartKeepsSessions ==
    [][Quiet /\ restarts' # restarts =>
          \A s \in SessionIds :
              sessions[s] # None /\ db_sessions[s] # None => sessions'[s] # None]_vars

\* canislink-system-architecture.md:689 "Re-validate both dogs before SessionAlloc
\* ... not e-stop": accept turns no invite of a stopped dog into a session.
AcceptRevalidates ==
    [][\A h \in Handlers : At(h, "idle") /\ job'[h].pc = "accept_close" =>
          \A d \in SessionDogs(job'[h].sess) : ~ policy[d].estop]_vars

\* canislink-system-architecture.md:1101 "any row with cleared_at IS NULL ... deny
\* invites, halt sessions": an emergency stop is over only when a steward clears it.
StopUntilCleared ==
    [][\A d \in Dogs : policy[d].estop /\ ~ policy'[d].estop =>
          \E h \in Handlers :
              At(h, "flag_set") /\ job[h].dog = d /\ job[h].kind = "estop" /\ ~ job[h].on]_vars
=============================================================================
