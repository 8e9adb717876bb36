---------------------------- MODULE SessionStore ----------------------------
(***************************************************************************)
(* The session half of crates/db/src/memory.rs: the maps by_dog, media and *)
(* by_id, each behind its own mutex with its owner.  insert and end hold   *)
(* the guard of by_dog while they take media and by_id; the other guards   *)
(* are dropped at the end of their statement, or by drop(media), which is  *)
(* a step of its own.  A section that reads, or that update makes, takes   *)
(* no lock inside and is one step, which waits until its mutex is free.    *)
(*                                                                         *)
(* Of a session the model keeps its dogs, whether it is Active, and its    *)
(* segment deadline, which `again` moves while it lives.                   *)
(***************************************************************************)
EXTENDS Integers

CONSTANTS
    Threads,    \* request handlers and the policy tick
    Dogs,
    Ids,        \* session ids, each handed out once
    Instants,   \* deadlines
    None        \* an absent value, a free lock

States == {"Negotiating", "Active"}
Session == [dog_a: Dogs, dog_b: Dogs, state: States, deadline: Instants]
Extra == [media_a: BOOLEAN, media_b: BOOLEAN]

ASSUME NoneAssumption ==
    /\ None \notin Ids
    /\ None \notin Threads
    /\ None \notin Dogs
    /\ None \notin Session
    /\ None \notin Extra

VARIABLES
    by_id,      \* id -> its session, or None
    by_dog,     \* dog -> the id of its session, or None
    media,      \* id -> which side has reported its media ready, or None
    dog_lock,   \* the thread that holds the mutex of by_dog, or None
    media_lock, \* the same for media
    id_lock,    \* the same for by_id
    used,       \* ids already handed out
    together,   \* history: the sessions whose two sides were ready at one moment
    pc,         \* what each thread does next
    cur,        \* the id it works on
    sess,       \* the session it inserts, has removed or has read
    dog,        \* the dog it looks up, or that reports
    ready,      \* what that dog reports
    both        \* whether set_media_ready found both sides ready

maps == <<by_id, by_dog, media>>
locks == <<dog_lock, media_lock, id_lock>>
local == <<cur, sess, dog, ready, both>>
vars == <<maps, locks, used, together, pc, local>>

Parties(s) == {s.dog_a, s.dog_b}

Init ==
    /\ by_id = [i \in Ids |-> None]
    /\ by_dog = [d \in Dogs |-> None]
    /\ media = [i \in Ids |-> None]
    /\ dog_lock = None /\ media_lock = None /\ id_lock = None
    /\ used = {}
    /\ together = {}
    /\ pc = [t \in Threads |-> "idle"]
    /\ cur = [t \in Threads |-> None]
    /\ sess = [t \in Threads |-> None]
    /\ dog = [t \in Threads |-> None]
    /\ ready = [t \in Threads |-> FALSE]
    /\ both = [t \in Threads |-> FALSE]

Goto(t, from, to) == pc[t] = from /\ pc' = [pc EXCEPT ![t] = to]

\* The call returns and its locals go out of scope.
Return(t, from) ==
    /\ Goto(t, from, "idle")
    /\ cur' = [cur EXCEPT ![t] = None]
    /\ sess' = [sess EXCEPT ![t] = None]
    /\ dog' = [dog EXCEPT ![t] = None]
    /\ ready' = [ready EXCEPT ![t] = FALSE]
    /\ both' = [both EXCEPT ![t] = FALSE]

----------------------------------------------------------------------------
\* insert(session)

CallInsert(t, i, s) ==
    /\ Goto(t, "idle", "insert")
    /\ i \notin used
    /\ s.state = "Negotiating"
    /\ used' = used \cup {i}
    /\ cur' = [cur EXCEPT ![t] = i]
    /\ sess' = [sess EXCEPT ![t] = s]
    /\ UNCHANGED <<maps, locks, together, dog, ready, both>>

\* Looks at the caller's entry alone.
IsBusyCallerOnly(t) == by_dog[sess[t].dog_a] # None

IsBusy(t) == \E d \in Parties(sess[t]) : by_dog[d] # None

InsertBusy(t) ==
    /\ Return(t, "insert")
    /\ dog_lock = None
    /\ IsBusy(t)
    /\ UNCHANGED <<maps, locks, used, together>>

\* The block that marks the dogs ends, and with it the guard, before media and by_id are
\* written.
InsertByDogAlone(t) ==
    /\ Goto(t, "insert", "insert_media")
    /\ dog_lock = None
    /\ ~ IsBusy(t)
    /\ by_dog' = [d \in Dogs |-> IF d \in Parties(sess[t]) THEN cur[t] ELSE by_dog[d]]
    /\ UNCHANGED <<by_id, media, locks, used, together, local>>

InsertByDog(t) ==
    /\ Goto(t, "insert", "insert_media")
    /\ dog_lock = None
    /\ ~ IsBusy(t)
    /\ dog_lock' = t
    /\ by_dog' = [d \in Dogs |-> IF d \in Parties(sess[t]) THEN cur[t] ELSE by_dog[d]]
    /\ UNCHANGED <<by_id, media, media_lock, id_lock, used, together, local>>

InsertMedia(t) ==
    /\ Goto(t, "insert_media", "insert_media_held")
    /\ media_lock = None
    /\ media_lock' = t
    /\ media' = [media EXCEPT ![cur[t]] = [media_a |-> FALSE, media_b |-> FALSE]]
    /\ UNCHANGED <<by_id, by_dog, dog_lock, id_lock, used, together, local>>

InsertMediaDrop(t) ==
    /\ Goto(t, "insert_media_held", "insert_by_id")
    /\ media_lock' = None
    /\ UNCHANGED <<maps, dog_lock, id_lock, used, together, local>>

InsertById(t) ==
    /\ Goto(t, "insert_by_id", "insert_id_held")
    /\ id_lock = None
    /\ id_lock' = t
    /\ by_id' = [by_id EXCEPT ![cur[t]] = sess[t]]
    /\ UNCHANGED <<by_dog, media, dog_lock, media_lock, used, together, local>>

\* The guards of by_id and, at the end of insert, of by_dog.
InsertReturn(t) ==
    /\ Return(t, "insert_id_held")
    /\ dog_lock' = None /\ id_lock' = None
    /\ UNCHANGED <<maps, media_lock, used, together>>

----------------------------------------------------------------------------
\* for_dog(dog): by_dog is released before by_id is read

CallForDog(t, d) ==
    /\ Goto(t, "idle", "for_dog")
    /\ dog' = [dog EXCEPT ![t] = d]
    /\ UNCHANGED <<maps, locks, used, together, cur, sess, ready, both>>

ForDogNone(t) ==
    /\ Return(t, "for_dog")
    /\ dog_lock = None
    /\ by_dog[dog[t]] = None
    /\ UNCHANGED <<maps, locks, used, together>>

ForDogId(t) ==
    /\ Goto(t, "for_dog", "for_dog_get")
    /\ dog_lock = None
    /\ by_dog[dog[t]] # None
    /\ cur' = [cur EXCEPT ![t] = by_dog[dog[t]]]
    /\ UNCHANGED <<maps, locks, used, together, sess, dog, ready, both>>

\* The session may have ended since.
ForDogGet(t) ==
    /\ Return(t, "for_dog_get")
    /\ id_lock = None
    /\ UNCHANGED <<maps, locks, used, together>>

----------------------------------------------------------------------------
\* end(id)

CallEnd(t, i) ==
    /\ Goto(t, "idle", "end")
    /\ i \in used
    /\ cur' = [cur EXCEPT ![t] = i]
    /\ UNCHANGED <<maps, locks, used, together, sess, dog, ready, both>>

EndGone(t) ==
    /\ Return(t, "end")
    /\ id_lock = None
    /\ by_id[cur[t]] = None
    /\ UNCHANGED <<maps, locks, used, together>>

EndById(t) ==
    /\ Goto(t, "end", "end_held")
    /\ id_lock = None
    /\ by_id[cur[t]] # None
    /\ id_lock' = t
    /\ sess' = [sess EXCEPT ![t] = by_id[cur[t]]]
    /\ by_id' = [by_id EXCEPT ![cur[t]] = None]
    /\ UNCHANGED <<by_dog, media, dog_lock, media_lock, used, together, cur, dog, ready, both>>

\* Written as `if let Some(s) = self.by_id.lock().remove(&id) { ... }`: the guard of
\* by_id lives on until by_dog has been taken.
EndByIdDropLate(t) ==
    /\ Goto(t, "end_held", "end_media")
    /\ dog_lock = None
    /\ dog_lock' = t
    /\ id_lock' = None
    /\ by_dog' = [d \in Dogs |-> IF d \in Parties(sess[t]) THEN None ELSE by_dog[d]]
    /\ UNCHANGED <<by_id, media, media_lock, used, together, local>>

\* The guard goes at the end of the `let`, before by_dog is taken.
EndByIdDrop(t) ==
    /\ Goto(t, "end_held", "end_by_dog")
    /\ id_lock' = None
    /\ UNCHANGED <<maps, dog_lock, media_lock, used, together, local>>

\* Frees the caller's entry and forgets the callee's.
EndByDogCallerOnly(t) ==
    /\ Goto(t, "end_by_dog", "end_media")
    /\ dog_lock = None
    /\ dog_lock' = t
    /\ by_dog' = [by_dog EXCEPT ![sess[t].dog_a] = None]
    /\ UNCHANGED <<by_id, media, media_lock, id_lock, used, together, local>>

EndByDog(t) ==
    /\ Goto(t, "end_by_dog", "end_media")
    /\ dog_lock = None
    /\ dog_lock' = t
    /\ by_dog' = [d \in Dogs |-> IF d \in Parties(sess[t]) THEN None ELSE by_dog[d]]
    /\ UNCHANGED <<by_id, media, media_lock, id_lock, used, together, local>>

\* The session's media flags stay behind.
EndMediaForgotten(t) ==
    /\ Goto(t, "end_media", "end_media_held")
    /\ media_lock = None
    /\ media_lock' = t
    /\ UNCHANGED <<maps, dog_lock, id_lock, used, together, local>>

EndMedia(t) ==
    /\ Goto(t, "end_media", "end_media_held")
    /\ media_lock = None
    /\ media_lock' = t
    /\ media' = [media EXCEPT ![cur[t]] = None]
    /\ UNCHANGED <<by_id, by_dog, dog_lock, id_lock, used, together, local>>

\* The guards of media and, at the end of `end`, of by_dog.
EndReturn(t) ==
    /\ Return(t, "end_media_held")
    /\ dog_lock' = None /\ media_lock' = None
    /\ UNCHANGED <<maps, id_lock, used, together>>

----------------------------------------------------------------------------
\* set_media_ready(id, dog, ready)

CallReady(t, i, d, r) ==
    /\ Goto(t, "idle", "ready")
    /\ i \in used
    /\ cur' = [cur EXCEPT ![t] = i]
    /\ dog' = [dog EXCEPT ![t] = d]
    /\ ready' = [ready EXCEPT ![t] = r]
    /\ UNCHANGED <<maps, locks, used, together, sess, both>>

ReadyGone(t) ==
    /\ Return(t, "ready")
    /\ id_lock = None
    /\ by_id[cur[t]] = None
    /\ UNCHANGED <<maps, locks, used, together>>

ReadyGet(t) ==
    /\ Goto(t, "ready", "ready_media")
    /\ id_lock = None
    /\ by_id[cur[t]] # None
    /\ sess' = [sess EXCEPT ![t] = by_id[cur[t]]]
    /\ UNCHANGED <<maps, locks, used, together, cur, dog, ready, both>>

\* The session ended meanwhile, or the dog is not one of its two.
ReadyRefused(t) ==
    /\ Return(t, "ready_media")
    /\ media_lock = None
    /\ media[cur[t]] = None \/ dog[t] \notin Parties(sess[t])
    /\ UNCHANGED <<maps, locks, used, together>>

Flagged(t) ==
    IF dog[t] = sess[t].dog_a
    THEN [media[cur[t]] EXCEPT !.media_a = ready[t]]
    ELSE [media[cur[t]] EXCEPT !.media_b = ready[t]]

\* `both` is worked out from the flags as they were before this report.
ReadyFlagStale(t) ==
    LET old == media[cur[t]]
        two == IF dog[t] = sess[t].dog_a THEN ready[t] /\ old.media_b /\ old.media_a
                                         ELSE ready[t] /\ old.media_a /\ old.media_b
    IN  /\ Goto(t, "ready_media", "ready_held")
        /\ media_lock = None
        /\ media[cur[t]] # None /\ dog[t] \in Parties(sess[t])
        /\ media_lock' = t
        /\ media' = [media EXCEPT ![cur[t]] = Flagged(t)]
        /\ together' = IF Flagged(t).media_a /\ Flagged(t).media_b
                       THEN together \cup {cur[t]} ELSE together
        /\ both' = [both EXCEPT ![t] = two]
        /\ UNCHANGED <<by_id, by_dog, dog_lock, id_lock, used, cur, sess, dog, ready>>

\* One side is enough.
ReadyFlagEither(t) ==
    LET two == Flagged(t).media_a \/ Flagged(t).media_b
    IN  /\ Goto(t, "ready_media", "ready_held")
        /\ media_lock = None
        /\ media[cur[t]] # None /\ dog[t] \in Parties(sess[t])
        /\ media_lock' = t
        /\ media' = [media EXCEPT ![cur[t]] = Flagged(t)]
        /\ together' = IF Flagged(t).media_a /\ Flagged(t).media_b
                       THEN together \cup {cur[t]} ELSE together
        /\ both' = [both EXCEPT ![t] = two]
        /\ UNCHANGED <<by_id, by_dog, dog_lock, id_lock, used, cur, sess, dog, ready>>

ReadyFlag(t) ==
    LET two == Flagged(t).media_a /\ Flagged(t).media_b
    IN  /\ Goto(t, "ready_media", "ready_held")
        /\ media_lock = None
        /\ media[cur[t]] # None /\ dog[t] \in Parties(sess[t])
        /\ media_lock' = t
        /\ media' = [media EXCEPT ![cur[t]] = Flagged(t)]
        /\ together' = IF two THEN together \cup {cur[t]} ELSE together
        /\ both' = [both EXCEPT ![t] = two]
        /\ UNCHANGED <<by_id, by_dog, dog_lock, id_lock, used, cur, sess, dog, ready>>

\* The update sits in the branch of dog_a.
ReadyDropOneBranch(t) ==
    /\ Goto(t, "ready_held",
            IF both[t] /\ dog[t] = sess[t].dog_a THEN "ready_update" ELSE "ready_answer")
    /\ media_lock' = None
    /\ UNCHANGED <<maps, dog_lock, id_lock, used, together, local>>

\* drop(media)
ReadyDrop(t) ==
    /\ Goto(t, "ready_held", IF both[t] THEN "ready_update" ELSE "ready_answer")
    /\ media_lock' = None
    /\ UNCHANGED <<maps, dog_lock, id_lock, used, together, local>>

\* The copy read at the start of the call is written back whole.
ReadyUpdateWritesBack(t) ==
    /\ Goto(t, "ready_update", "ready_answer")
    /\ id_lock = None
    /\ by_id' = [by_id EXCEPT ![cur[t]] = [sess[t] EXCEPT !.state = "Active"]]
    /\ UNCHANGED <<by_dog, media, locks, used, together, local>>

\* update(id, |s| s.state = Active), which changes nothing once the session is gone.
ReadyUpdate(t) ==
    /\ Goto(t, "ready_update", "ready_answer")
    /\ id_lock = None
    /\ by_id' = IF by_id[cur[t]] = None THEN by_id
                ELSE [by_id EXCEPT ![cur[t]].state = "Active"]
    /\ UNCHANGED <<by_dog, media, locks, used, together, local>>

ReadyAnswerStep(t) ==
    /\ Return(t, "ready_answer")
    /\ id_lock = None
    /\ UNCHANGED <<maps, locks, used, together>>

\* update(id, |s| s.segment_deadline_at = x), the step of `again`.
Extend(t, i, x) ==
    /\ pc[t] = "idle"
    /\ id_lock = None
    /\ by_id[i] # None
    /\ by_id' = [by_id EXCEPT ![i].deadline = x]
    /\ UNCHANGED <<by_dog, media, locks, used, together, pc, local>>

----------------------------------------------------------------------------
Step(t) ==
    \/ InsertBusy(t) \/ InsertByDog(t) \/ InsertMedia(t) \/ InsertMediaDrop(t)
    \/ InsertById(t) \/ InsertReturn(t)
    \/ ForDogNone(t) \/ ForDogId(t) \/ ForDogGet(t)
    \/ EndGone(t) \/ EndById(t) \/ EndByIdDrop(t) \/ EndByDog(t) \/ EndMedia(t) \/ EndReturn(t)
    \/ ReadyGone(t) \/ ReadyGet(t) \/ ReadyRefused(t) \/ ReadyFlag(t) \/ ReadyDrop(t)
    \/ ReadyUpdate(t) \/ ReadyAnswerStep(t)

Call(t) ==
    \/ \E i \in Ids, s \in Session : CallInsert(t, i, s)
    \/ \E d \in Dogs : CallForDog(t, d)
    \/ \E i \in Ids : CallEnd(t, i)
    \/ \E i \in Ids, d \in Dogs, r \in BOOLEAN : CallReady(t, i, d, r)
    \/ \E i \in Ids, x \in Instants : Extend(t, i, x)

Next == \E t \in Threads : Call(t) \/ Step(t)

Spec == Init /\ [][Next]_vars

----------------------------------------------------------------------------
PCs == {"idle", "insert", "insert_media", "insert_media_held", "insert_by_id", "insert_id_held",
        "for_dog", "for_dog_get",
        "end", "end_held", "end_by_dog", "end_media", "end_media_held",
        "ready", "ready_media", "ready_held", "ready_update", "ready_answer"}

HoldsDogLock(t) == pc[t] \in {"insert_media", "insert_media_held", "insert_by_id",
                              "insert_id_held", "end_media", "end_media_held"}
HoldsMediaLock(t) == pc[t] \in {"insert_media_held", "end_media_held", "ready_held"}
HoldsIdLock(t) == pc[t] \in {"insert_id_held", "end_held"}
Reporting(t) == pc[t] \in {"ready_media", "ready_held", "ready_update", "ready_answer"}

\* The maps hold ids and sessions, a lock the thread inside its critical
\* section, and a thread has the id, session and dog its step reads.
TypeOK ==
    /\ by_id \in [Ids -> Session \cup {None}]
    /\ by_dog \in [Dogs -> Ids \cup {None}]
    /\ media \in [Ids -> Extra \cup {None}]
    /\ used \in SUBSET Ids
    /\ together \in SUBSET Ids
    /\ pc \in [Threads -> PCs]
    /\ cur \in [Threads -> Ids \cup {None}]
    /\ sess \in [Threads -> Session \cup {None}]
    /\ dog \in [Threads -> Dogs \cup {None}]
    /\ ready \in [Threads -> BOOLEAN]
    /\ both \in [Threads -> BOOLEAN]
    /\ dog_lock \in Threads \cup {None} /\ \A t \in Threads : dog_lock = t <=> HoldsDogLock(t)
    /\ media_lock \in Threads \cup {None} /\ \A t \in Threads : media_lock = t <=> HoldsMediaLock(t)
    /\ id_lock \in Threads \cup {None} /\ \A t \in Threads : id_lock = t <=> HoldsIdLock(t)
    /\ \A t \in Threads :
        /\ pc[t] \notin {"idle", "for_dog"} => cur[t] \in Ids
        /\ pc[t] \notin {"idle", "for_dog", "for_dog_get", "end", "ready"} => sess[t] \in Session
        /\ pc[t] \in {"for_dog", "ready"} \/ Reporting(t) => dog[t] \in Dogs

\* No two live sessions share a dog, however inserts, ends and media reports
\* of several handlers overlap.
OneSessionPerDog ==
    \A i, j \in Ids :
        /\ by_id[i] # None
        /\ by_id[j] # None
        /\ Parties(by_id[i]) \cap Parties(by_id[j]) # {}
        => i = j

\* The threads whose insert or end has written one of by_dog and by_id.
InFlight(t) ==
    pc[t] \in {"insert_media", "insert_media_held", "insert_by_id", "end_held", "end_by_dog"}

\* by_dog and by_id agree: a live session is found through both dogs, and a dog
\* is busy only for a session that lives, is being inserted or is being ended.
IndexExact ==
    /\ \A i \in Ids : by_id[i] # None => \A d \in Parties(by_id[i]) : by_dog[d] = i
    /\ \A d \in Dogs :
        by_dog[d] # None =>
            \/ by_id[by_dog[d]] # None /\ d \in Parties(by_id[by_dog[d]])
            \/ \E t \in Threads : InFlight(t) /\ cur[t] = by_dog[d] /\ d \in Parties(sess[t])

\* A live session has its flags, and flags are kept only for a session that
\* lives, is being inserted or is being ended: `media` does not grow forever.
MediaExact ==
    \A i \in Ids :
        /\ by_id[i] # None => media[i] # None
        /\ media[i] # None =>
              \/ by_id[i] # None
              \/ \E t \in Threads :
                    /\ cur[t] = i
                    /\ pc[t] \in {"insert_media_held", "insert_by_id",
                                 "end_held", "end_by_dog", "end_media"}

\* The report that found both sides ready has still to mark the session.
Activating(t) == pc[t] = "ready_update" \/ (pc[t] = "ready_held" /\ both[t])

\* Once both sides are ready the session is Active, or a report is about to
\* make it so: two reports that race cannot each miss the other.
ReadyIsActive ==
    \A i \in Ids :
        by_id[i] # None /\ media[i] # None /\ media[i].media_a /\ media[i].media_b =>
            \/ by_id[i].state = "Active"
            \/ \E t \in Threads : Activating(t) /\ cur[t] = i

\* A session is Active only if its sides were ready at one and the same moment.
ActiveWasReady ==
    \A i \in Ids : by_id[i] # None /\ by_id[i].state = "Active" => i \in together

\* What a call is about to answer is right: both_ready comes with a session that
\* is Active, and for_dog, which reads the two maps under different locks, never
\* hands out a session of other dogs.
AnswersRight ==
    \A t \in Threads : cur[t] # None /\ by_id[cur[t]] # None =>
        /\ pc[t] = "ready_answer" /\ both[t] => by_id[cur[t]].state = "Active"
        /\ pc[t] = "for_dog_get" => dog[t] \in Parties(by_id[cur[t]])

\* Marking a session Active never undoes what `again` wrote meanwhile, and no
\* late step brings an ended session back.
UpdateInPlace ==
    [][\A t \in Threads : pc[t] = "ready_update" /\ pc'[t] # pc[t] =>
          \A i \in Ids :
             /\ by_id[i] = None <=> by_id'[i] = None
             /\ by_id[i] # None => by_id'[i].deadline = by_id[i].deadline]_vars

\* A call under way can go on unless its step takes a mutex that another thread holds.
CanGo(t) ==
    /\ pc[t] # "idle"
    /\ pc[t] \in {"insert", "for_dog", "end_by_dog"} => dog_lock = None
    /\ pc[t] \in {"insert_media", "end_media", "ready_media"} => media_lock = None
    /\ pc[t] \in {"insert_by_id", "for_dog_get", "end", "ready", "ready_update", "ready_answer"} =>
          id_lock = None

InCall == \E t \in Threads : pc[t] # "idle"

\* The locks never stop the store, in whatever order calls come: while any call is under
\* way, there is one whose next step no other thread's guard keeps waiting.  The calls
\* are finite and parking_lot's mutexes are eventually fair, so each of them returns.
NoDeadlock == InCall => \E t \in Threads : CanGo(t) /\ ENABLED Step(t)

----------------------------------------------------------------------------
\* The inductive invariant, along the lines of InviteStore's.
Owner(t) == pc[t] = "insert" \/ InFlight(t)

OneOwner ==
    \A t, u \in Threads :
        /\ Owner(t) \/ pc[t] = "end_media"
        /\ Owner(u) \/ pc[u] = "end_media"
        /\ cur[t] = cur[u]
        => t = u

InFlightIndexed ==
    \A t \in Threads :
        /\ Owner(t) \/ pc[t] = "end_media" => by_id[cur[t]] = None
        /\ InFlight(t) => \A d \in Parties(sess[t]) : by_dog[d] = cur[t]
        /\ pc[t] \in {"insert", "end_media"} => \A d \in Dogs : by_dog[d] # cur[t]
        /\ pc[t] \in {"insert", "insert_media"} => media[cur[t]] = None
        /\ pc[t] \in {"insert_media_held", "insert_by_id"} =>
              media[cur[t]] # None /\ ~ media[cur[t]].media_a /\ ~ media[cur[t]].media_b
        /\ pc[t] \in {"insert", "insert_media", "insert_media_held", "insert_by_id"} =>
              /\ sess[t].state = "Negotiating"
              /\ cur[t] \notin together

UnusedIsUnknown ==
    \A i \in Ids \ used :
        /\ by_id[i] = None
        /\ media[i] = None
        /\ i \notin together
        /\ \A d \in Dogs : by_dog[d] # i
        /\ \A t \in Threads : pc[t] \notin {"idle", "for_dog"} => cur[t] # i

\* A report works on a session that was fully inserted when it looked, and
\* for_dog on an id that was the dog's.
CallerKnows ==
    \A t, u \in Threads :
        /\ (Reporting(t) \/ pc[t] = "for_dog_get") /\ Owner(u) /\ cur[t] = cur[u] =>
              pc[u] # "insert"
        /\ Reporting(t) /\ Owner(u) /\ cur[t] = cur[u] =>
              pc[u] \in {"end_held", "end_by_dog"}
        /\ Activating(t) => cur[t] \in together
        /\ pc[t] = "for_dog_get" /\ Owner(u) /\ cur[t] = cur[u] => dog[t] \in Parties(sess[u])

IndInv ==
    /\ TypeOK /\ IndexExact /\ MediaExact
    /\ OneOwner /\ InFlightIndexed /\ UnusedIsUnknown
    /\ ReadyIsActive /\ ActiveWasReady /\ AnswersRight /\ CallerKnows

\* A report knows the two dogs of the session it works on.
SameDogs ==
    \A t \in Threads : Reporting(t) =>
        /\ by_id[cur[t]] # None =>
              sess[t].dog_a = by_id[cur[t]].dog_a /\ sess[t].dog_b = by_id[cur[t]].dog_b
        /\ \A u \in Threads : pc[u] \in {"end_held", "end_by_dog"} /\ cur[u] = cur[t] =>
              sess[t].dog_a = sess[u].dog_a /\ sess[t].dog_b = sess[u].dog_b

----------------------------------------------------------------------------
\* The session a call has in its hands: one that is to be inserted, until by_id has it,
\* or one that end has taken out of by_id, until its dogs are free.
Inserting(t) == pc[t] \in {"insert", "insert_media", "insert_media_held", "insert_by_id"}
Ending(t) == pc[t] \in {"end_held", "end_by_dog"}

Waiting ==
    [i \in Ids |->
        IF \E t \in Threads : Inserting(t) /\ cur[t] = i
        THEN sess[CHOOSE t \in Threads : Inserting(t) /\ cur[t] = i]
        ELSE None]

Leaving ==
    [i \in Ids |->
        IF \E t \in Threads : Ending(t) /\ cur[t] = i
        THEN sess[CHOOSE t \in Threads : Ending(t) /\ cur[t] = i]
        ELSE None]

Present == {i \in Ids : by_id[i] # None \/ \E t \in Threads : Ending(t) /\ cur[t] = i}

Flags == [i \in Ids |-> IF i \in Present THEN media[i] ELSE None]
Agreed == together \cap Present

Book == INSTANCE SessionBook WITH
            book <- by_id, waiting <- Waiting, leaving <- Leaving, flags <- Flags, agreed <- Agreed

\* Every operation behaves as one step of SessionBook, a media report as two: it
\* undoes no extension and revives no session, and no dog is in two of them.
Linearizable == Book!Spec
=============================================================================
