---------------------------- MODULE InviteStore ----------------------------
(***************************************************************************)
(* The open-invite half of crates/db/src/memory.rs, one step per lock      *)
(* operation.  `open` is the map open_for_dog, `by_id` the map of the same *)
(* name; each is behind a mutex of its own, and the operations take them   *)
(* in different orders:                                                    *)
(*   insert, for_dog : open_for_dog, and inside it by_id                   *)
(*   close           : by_id, released, then open_for_dog                  *)
(*   expire_due      : by_id to collect ids, released, then close on each  *)
(* A critical section that takes no second lock is one step.               *)
(*                                                                         *)
(* The store never reads a clock: insert gets the expiry and expire_due    *)
(* gets `now` from the caller, so time is any member of Instants.          *)
(***************************************************************************)
EXTENDS Integers

CONSTANTS
    Threads,    \* request handlers and the policy tick, all on the tokio pool
    Dogs,
    Ids,        \* invite ids, each handed out once (Uuid::new_v4)
    Instants,   \* points in time
    None,       \* an absent value, a free lock
    Ok, Busy    \* what insert answers

Invite == [from: Dogs, to: Dogs, expires: Instants]

ASSUME NoneAssumption ==
    /\ None \notin Ids
    /\ None \notin Threads
    /\ None \notin Dogs
    /\ None \notin Invite

ASSUME InstantsAssumption == Instants \subseteq Int

VARIABLES
    by_id,      \* id -> its open invite, or None
    open,       \* dog -> the id of its open invite, or None
    id_lock,    \* the thread that holds the mutex of by_id, or None
    open_lock,  \* the thread that holds the mutex of open_for_dog, or None
    used,       \* ids already handed out
    pc,         \* what each thread does next
    cur,        \* the id a thread works on
    inv,        \* the invite it inserts, or the one its close removed
    dog,        \* the dog it looks up
    due,        \* the ids its expire_due still has to close
    at,         \* the `now` its expire_due was called with
    ans         \* the answer to its last insert or for_dog

vars == <<by_id, open, id_lock, open_lock, used, pc, cur, inv, dog, due, at, ans>>
locks == <<id_lock, open_lock>>
local == <<cur, inv, dog, due, at>>

Parties(i) == {i.from, i.to}

Init ==
    /\ by_id = [i \in Ids |-> None]
    /\ open = [d \in Dogs |-> None]
    /\ id_lock = None
    /\ open_lock = None
    /\ used = {}
    /\ pc = [t \in Threads |-> "idle"]
    /\ cur = [t \in Threads |-> None]
    /\ inv = [t \in Threads |-> None]
    /\ dog = [t \in Threads |-> None]
    /\ due = [t \in Threads |-> {}]
    /\ at = [t \in Threads |-> None]
    /\ ans = [t \in Threads |-> None]

Goto(t, from, to) == pc[t] = from /\ pc' = [pc EXCEPT ![t] = to]

----------------------------------------------------------------------------
\* insert(invite)

\* Looks at the caller's entry alone.
IsBusyCallerOnly(t) == open[inv[t].from] # None

\* open.contains_key(from) || open.contains_key(to)
IsBusy(t) == \E d \in Parties(inv[t]) : open[d] # None

CallInsert(t, i, v) ==
    /\ Goto(t, "idle", "insert")
    /\ i \notin used
    /\ used' = used \cup {i}
    /\ cur' = [cur EXCEPT ![t] = i]
    /\ inv' = [inv EXCEPT ![t] = v]
    /\ UNCHANGED <<by_id, open, locks, dog, due, at, ans>>

InsertBusy(t) ==
    /\ Goto(t, "insert", "idle")
    /\ open_lock = None
    /\ IsBusy(t)
    /\ ans' = [ans EXCEPT ![t] = Busy]
    /\ cur' = [cur EXCEPT ![t] = None]
    /\ inv' = [inv EXCEPT ![t] = None]
    /\ UNCHANGED <<by_id, open, locks, used, dog, due, at>>

\* Both dogs are marked while open_for_dog stays locked.
InsertOpen(t) ==
    /\ Goto(t, "insert", "insert_lock_id")
    /\ open_lock = None
    /\ ~ IsBusy(t)
    /\ open_lock' = t
    /\ open' = [d \in Dogs |-> IF d \in Parties(inv[t]) THEN cur[t] ELSE open[d]]
    /\ UNCHANGED <<by_id, id_lock, used, local, ans>>

InsertLockId(t) ==
    /\ Goto(t, "insert_lock_id", "insert_by_id")
    /\ id_lock = None
    /\ id_lock' = t
    /\ UNCHANGED <<by_id, open, open_lock, used, local, ans>>

InsertById(t) ==
    /\ Goto(t, "insert_by_id", "idle")
    /\ by_id' = [by_id EXCEPT ![cur[t]] = inv[t]]
    /\ id_lock' = None
    /\ open_lock' = None
    /\ ans' = [ans EXCEPT ![t] = Ok]
    /\ cur' = [cur EXCEPT ![t] = None]
    /\ inv' = [inv EXCEPT ![t] = None]
    /\ UNCHANGED <<open, used, dog, due, at>>

----------------------------------------------------------------------------
\* for_dog(dog), which incoming_for filters

CallForDog(t, d) ==
    /\ Goto(t, "idle", "for_dog")
    /\ dog' = [dog EXCEPT ![t] = d]
    /\ UNCHANGED <<by_id, open, locks, used, cur, inv, due, at, ans>>

ForDogNone(t) ==
    /\ Goto(t, "for_dog", "idle")
    /\ open_lock = None
    /\ open[dog[t]] = None
    /\ ans' = [ans EXCEPT ![t] = None]
    /\ dog' = [dog EXCEPT ![t] = None]
    /\ UNCHANGED <<by_id, open, locks, used, cur, inv, due, at>>

ForDogOpen(t) ==
    /\ Goto(t, "for_dog", "for_dog_lock_id")
    /\ open_lock = None
    /\ open[dog[t]] # None
    /\ open_lock' = t
    /\ cur' = [cur EXCEPT ![t] = open[dog[t]]]
    /\ UNCHANGED <<by_id, open, id_lock, used, inv, dog, due, at, ans>>

ForDogLockId(t) ==
    /\ Goto(t, "for_dog_lock_id", "for_dog_by_id")
    /\ id_lock = None
    /\ id_lock' = t
    /\ UNCHANGED <<by_id, open, open_lock, used, local, ans>>

\* The invite the id stands for, if it is still there; both guards are dropped.
ForDogById(t) ==
    /\ Goto(t, "for_dog_by_id", "idle")
    /\ ans' = [ans EXCEPT ![t] = IF by_id[cur[t]] = None THEN None ELSE cur[t]]
    /\ id_lock' = None
    /\ open_lock' = None
    /\ cur' = [cur EXCEPT ![t] = None]
    /\ dog' = [dog EXCEPT ![t] = None]
    /\ UNCHANGED <<by_id, open, used, inv, due, at>>

----------------------------------------------------------------------------
\* close(id), alone or for each id that expire_due collected

AfterClose(t) == IF due[t] = {} THEN "idle" ELSE "sweep"

\* The id may be one that another thread is closing or has closed.
CallClose(t, i) ==
    /\ Goto(t, "idle", "close")
    /\ i \in used
    /\ cur' = [cur EXCEPT ![t] = i]
    /\ UNCHANGED <<by_id, open, locks, used, inv, dog, due, at, ans>>

\* remove(&id)? finds nothing.
CloseGone(t) ==
    /\ Goto(t, "close", AfterClose(t))
    /\ id_lock = None
    /\ by_id[cur[t]] = None
    /\ cur' = [cur EXCEPT ![t] = None]
    /\ UNCHANGED <<by_id, open, locks, used, inv, dog, due, at, ans>>

\* The guard of by_id lives on into the rest of close.
CloseByIdKeepsLock(t) ==
    /\ Goto(t, "close", "close_open")
    /\ id_lock = None
    /\ by_id[cur[t]] # None
    /\ id_lock' = t
    /\ inv' = [inv EXCEPT ![t] = by_id[cur[t]]]
    /\ by_id' = [by_id EXCEPT ![cur[t]] = None]
    /\ UNCHANGED <<open, open_lock, used, cur, dog, due, at, ans>>

\* The invite is read and left in the map.
CloseByIdKeepsInvite(t) ==
    /\ Goto(t, "close", "close_open")
    /\ id_lock = None
    /\ by_id[cur[t]] # None
    /\ inv' = [inv EXCEPT ![t] = by_id[cur[t]]]
    /\ UNCHANGED <<by_id, open, locks, used, cur, dog, due, at, ans>>

CloseById(t) ==
    /\ Goto(t, "close", "close_open")
    /\ id_lock = None
    /\ by_id[cur[t]] # None
    /\ inv' = [inv EXCEPT ![t] = by_id[cur[t]]]
    /\ by_id' = [by_id EXCEPT ![cur[t]] = None]
    /\ UNCHANGED <<open, locks, used, cur, dog, due, at, ans>>

\* Frees the caller's entry and forgets the callee's.
CloseOpenCallerOnly(t) ==
    /\ Goto(t, "close_open", AfterClose(t))
    /\ open_lock = None
    /\ open' = [open EXCEPT ![inv[t].from] = None]
    /\ cur' = [cur EXCEPT ![t] = None]
    /\ inv' = [inv EXCEPT ![t] = None]
    /\ UNCHANGED <<by_id, locks, used, dog, due, at, ans>>

CloseOpen(t) ==
    /\ Goto(t, "close_open", AfterClose(t))
    /\ open_lock = None
    /\ open' = [d \in Dogs |-> IF d \in Parties(inv[t]) THEN None ELSE open[d]]
    /\ cur' = [cur EXCEPT ![t] = None]
    /\ inv' = [inv EXCEPT ![t] = None]
    /\ UNCHANGED <<by_id, locks, used, dog, due, at, ans>>

----------------------------------------------------------------------------
\* expire_due(now)

CallExpireDue(t, now) ==
    /\ Goto(t, "idle", "collect")
    /\ at' = [at EXCEPT ![t] = now]
    /\ UNCHANGED <<by_id, open, locks, used, cur, inv, dog, due, ans>>

Due(now) == {i \in Ids : by_id[i] # None /\ now >= by_id[i].expires}

ExpireCollect(t) ==
    /\ Goto(t, "collect", IF Due(at[t]) = {} THEN "idle" ELSE "sweep")
    /\ id_lock = None
    /\ due' = [due EXCEPT ![t] = Due(at[t])]
    /\ at' = [at EXCEPT ![t] = None]
    /\ UNCHANGED <<by_id, open, locks, used, cur, inv, dog, ans>>

ExpireNext(t, i) ==
    /\ Goto(t, "sweep", "close")
    /\ i \in due[t]
    /\ due' = [due EXCEPT ![t] = @ \ {i}]
    /\ cur' = [cur EXCEPT ![t] = i]
    /\ UNCHANGED <<by_id, open, locks, used, inv, dog, at, ans>>

----------------------------------------------------------------------------
Step(t) ==
    \/ InsertBusy(t) \/ InsertOpen(t) \/ InsertLockId(t) \/ InsertById(t)
    \/ ForDogNone(t) \/ ForDogOpen(t) \/ ForDogLockId(t) \/ ForDogById(t)
    \/ CloseGone(t) \/ CloseById(t) \/ CloseOpen(t)
    \/ ExpireCollect(t) \/ \E i \in Ids : ExpireNext(t, i)

Call(t) ==
    \/ \E i \in Ids, v \in Invite : CallInsert(t, i, v)
    \/ \E d \in Dogs : CallForDog(t, d)
    \/ \E i \in Ids : CallClose(t, i)
    \/ \E now \in Instants : CallExpireDue(t, now)

Next == \E t \in Threads : Call(t) \/ Step(t)

Spec == Init /\ [][Next]_vars

(***************************************************************************)
(* parking_lot hands a contended mutex over fairly now and then, so a      *)
(* thread that waits for a lock which is free again and again gets it:     *)
(* strong fairness on a thread's steps.  Nobody has to make calls.         *)
(***************************************************************************)
FairSpec == Spec /\ \A t \in Threads : SF_vars(Step(t))

----------------------------------------------------------------------------
PCs == {"idle", "insert", "insert_lock_id", "insert_by_id",
        "for_dog", "for_dog_lock_id", "for_dog_by_id",
        "close", "close_open", "collect", "sweep"}

\* Where a thread holds each lock: insert and for_dog nest them, close and
\* expire_due take one at a time and have released it by the end of the step.
HoldsOpen(t) == pc[t] \in {"insert_lock_id", "insert_by_id", "for_dog_lock_id", "for_dog_by_id"}
HoldsId(t) == pc[t] \in {"insert_by_id", "for_dog_by_id"}

Inserting(t) == pc[t] \in {"insert", "insert_lock_id", "insert_by_id"}
LookingUp(t) == pc[t] \in {"for_dog_lock_id", "for_dog_by_id"}

\* The maps hold ids and invites, the locks the threads inside their critical
\* sections, and a thread has the id, invite, dog or instant its step reads.
TypeOK ==
    /\ by_id \in [Ids -> Invite \cup {None}]
    /\ open \in [Dogs -> Ids \cup {None}]
    /\ used \in SUBSET Ids
    /\ pc \in [Threads -> PCs]
    /\ cur \in [Threads -> Ids \cup {None}]
    /\ inv \in [Threads -> Invite \cup {None}]
    /\ dog \in [Threads -> Dogs \cup {None}]
    /\ due \in [Threads -> SUBSET Ids]
    /\ at \in [Threads -> Instants \cup {None}]
    /\ ans \in [Threads -> Ids \cup {None, Ok, Busy}]
    /\ id_lock \in Threads \cup {None} /\ \A t \in Threads : id_lock = t <=> HoldsId(t)
    /\ open_lock \in Threads \cup {None} /\ \A t \in Threads : open_lock = t <=> HoldsOpen(t)
    /\ \A t \in Threads :
        /\ pc[t] = "close" => cur[t] \in Ids
        /\ Inserting(t) \/ pc[t] = "close_open" => cur[t] \in Ids /\ inv[t] \in Invite
        /\ pc[t] = "for_dog" => dog[t] \in Dogs
        /\ LookingUp(t) => dog[t] \in Dogs /\ cur[t] \in Ids
        /\ pc[t] = "collect" => at[t] \in Instants
        /\ pc[t] = "sweep" => due[t] # {}

\* No two open invites share a dog, however inserts, closes and sweeps of
\* several handlers overlap (by_id, behind a lock insert checks only later).
OneInvitePerDog ==
    \A i, j \in Ids :
        /\ by_id[i] # None
        /\ by_id[j] # None
        /\ Parties(by_id[i]) \cap Parties(by_id[j]) # {}
        => i = j

\* The threads between the two halves of an insert or a close.
InFlight(t) == pc[t] \in {"insert_lock_id", "insert_by_id", "close_open"}

\* A dog is marked busy only for an invite that is open, or that a thread is
\* just inserting or closing: close's unconditional removal of two entries
\* never leaves a dog busy without an invite.
NoLeakedBusy ==
    \A d \in Dogs :
        open[d] # None =>
            \/ by_id[open[d]] # None /\ d \in Parties(by_id[open[d]])
            \/ \E t \in Threads : InFlight(t) /\ cur[t] = open[d] /\ d \in Parties(inv[t])

\* An open invite is reachable through both of its dogs: no other thread's
\* close took an entry that had passed to it.
OpenIsIndexed ==
    \A i \in Ids : by_id[i] # None => \A d \in Parties(by_id[i]) : open[d] = i

\* The two maps agree in both directions, whatever calls are between two locks.
MapsAgree == OpenIsIndexed /\ NoLeakedBusy

\* The inductive invariant.  An id that is being inserted or closed is in the
\* hands of one thread, is in no map that thread has not written yet, and the
\* dogs of its invite point at it until that thread frees them.
Owner(t) == pc[t] = "insert" \/ InFlight(t)

OneOwner ==
    \A t, u \in Threads : Owner(t) /\ Owner(u) /\ cur[t] = cur[u] => t = u

InFlightIndexed ==
    \A t \in Threads :
        /\ Owner(t) => by_id[cur[t]] = None
        /\ InFlight(t) => \A d \in Parties(inv[t]) : open[d] = cur[t]
        /\ pc[t] = "insert" => \A d \in Dogs : open[d] # cur[t]

UnusedIsUnknown ==
    \A i \in Ids \ used :
        /\ by_id[i] = None
        /\ \A d \in Dogs : open[d] # i
        /\ \A t \in Threads : Owner(t) => cur[t] # i

\* for_dog's id stays the dog's entry while for_dog holds open_for_dog.
LookupIsCurrent ==
    \A t \in Threads : LookingUp(t) => open[dog[t]] = cur[t]

Indexing == OpenIsIndexed /\ NoLeakedBusy /\ OneOwner /\ InFlightIndexed /\ UnusedIsUnknown

IndInv == TypeOK /\ Indexing /\ LookupIsCurrent

\* A call under way can go on unless its step takes a mutex that another thread holds.
CanGo(t) ==
    /\ pc[t] # "idle"
    /\ pc[t] \in {"insert", "for_dog", "close_open"} => open_lock = None
    /\ pc[t] \in {"insert_lock_id", "for_dog_lock_id", "close", "collect"} => id_lock = None

LocksLetGo == (\E t \in Threads : pc[t] # "idle") => \E t \in Threads : CanGo(t)

\* Every call returns: the two lock orders never block each other, and what a step
\* waits for is a mutex, never anything else.
CallsReturn ==
    /\ [](\A t \in Threads : CanGo(t) <=> pc[t] # "idle" /\ ENABLED Step(t))
    /\ \A t \in Threads : pc[t] # "idle" ~> pc[t] = "idle"

----------------------------------------------------------------------------
\* An invite leaves when close takes it out of by_id and is gone when its dogs are free.
Leaving ==
    [i \in Ids |->
        IF \E t \in Threads : pc[t] = "close_open" /\ cur[t] = i
        THEN inv[CHOOSE t \in Threads : pc[t] = "close_open" /\ cur[t] = i]
        ELSE None]

Book == INSTANCE InviteBook WITH book <- by_id, leaving <- Leaving

\* Every operation behaves as one step of InviteBook: the answers of insert
\* and for_dog are right for one moment of the call.
Linearizable == Book!Spec
=============================================================================
