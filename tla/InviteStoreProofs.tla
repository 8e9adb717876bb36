------------------------- MODULE InviteStoreProofs -------------------------
(***************************************************************************)
(* IndInv of InviteStore is inductive, so the safety properties hold for   *)
(* any number of threads, dogs and invites, and every step of the store is *)
(* a step of InviteBook or a stutter.                                      *)
(***************************************************************************)
EXTENDS InviteStore, TLAPS

USE NoneAssumption DEF locks, local

\* The steps of a thread, to split on.
LEMMA NextCases ==
    ASSUME Next
    PROVE  \E t \in Threads :
              \/ \E i \in Ids, v \in Invite : CallInsert(t, i, v)
              \/ \E d \in Dogs : CallForDog(t, d)
              \/ \E i \in Ids : CallClose(t, i)
              \/ \E now \in Instants : CallExpireDue(t, now)
              \/ InsertBusy(t) \/ InsertOpen(t) \/ InsertLockId(t) \/ InsertById(t)
              \/ ForDogNone(t) \/ ForDogOpen(t) \/ ForDogLockId(t) \/ ForDogById(t)
              \/ CloseGone(t) \/ CloseById(t) \/ CloseOpen(t)
              \/ ExpireCollect(t)
              \/ \E i \in Ids : ExpireNext(t, i)
  BY DEF Next, Call, Step

LEMMA InitIndInv == Init => IndInv
  BY DEF Init, IndInv, Indexing, TypeOK, PCs, HoldsOpen, HoldsId, Inserting, LookingUp,
         InFlight, Owner, OpenIsIndexed, NoLeakedBusy, OneOwner, InFlightIndexed,
         UnusedIsUnknown, LookupIsCurrent

\* Types, and which thread holds which lock, are kept by every step.
LEMMA TypeStep ==
    ASSUME TypeOK, [Next]_vars
    PROVE  TypeOK'
<1> USE DEF TypeOK, PCs, HoldsOpen, HoldsId, Inserting, LookingUp, Goto
<1>1. CASE UNCHANGED vars
  BY <1>1 DEF vars
<1>2. ASSUME NEW t \in Threads, NEW i \in Ids, NEW v \in Invite, CallInsert(t, i, v)
      PROVE  TypeOK'
  BY <1>2 DEF CallInsert
<1>3. ASSUME NEW t \in Threads, NEW d \in Dogs, CallForDog(t, d)
      PROVE  TypeOK'
  BY <1>3 DEF CallForDog
<1>4. ASSUME NEW t \in Threads, NEW i \in Ids, CallClose(t, i) PROVE TypeOK'
  BY <1>4 DEF CallClose
<1>5. ASSUME NEW t \in Threads, NEW now \in Instants, CallExpireDue(t, now) PROVE TypeOK'
  BY <1>5 DEF CallExpireDue
<1>6. ASSUME NEW t \in Threads, InsertBusy(t) PROVE TypeOK'
  BY <1>6 DEF InsertBusy
<1>7. ASSUME NEW t \in Threads, InsertOpen(t) PROVE TypeOK'
  BY <1>7 DEF InsertOpen
<1>8. ASSUME NEW t \in Threads, InsertLockId(t) PROVE TypeOK'
  BY <1>8 DEF InsertLockId
<1>9. ASSUME NEW t \in Threads, InsertById(t) PROVE TypeOK'
  BY <1>9 DEF InsertById
<1>10. ASSUME NEW t \in Threads, ForDogNone(t) PROVE TypeOK'
  BY <1>10 DEF ForDogNone
<1>11. ASSUME NEW t \in Threads, ForDogOpen(t) PROVE TypeOK'
  BY <1>11 DEF ForDogOpen
<1>12. ASSUME NEW t \in Threads, ForDogLockId(t) PROVE TypeOK'
  BY <1>12 DEF ForDogLockId
<1>13. ASSUME NEW t \in Threads, ForDogById(t) PROVE TypeOK'
  BY <1>13 DEF ForDogById
<1>14. ASSUME NEW t \in Threads, CloseGone(t) PROVE TypeOK'
  BY <1>14 DEF CloseGone, AfterClose
<1>15. ASSUME NEW t \in Threads, CloseById(t) PROVE TypeOK'
  BY <1>15 DEF CloseById
<1>16. ASSUME NEW t \in Threads, CloseOpen(t) PROVE TypeOK'
  BY <1>16 DEF CloseOpen, AfterClose
<1>17. ASSUME NEW t \in Threads, ExpireCollect(t) PROVE TypeOK'
  BY <1>17 DEF ExpireCollect, Due
<1>18. ASSUME NEW t \in Threads, NEW i \in Ids, ExpireNext(t, i) PROVE TypeOK'
  BY <1>18 DEF ExpireNext
<1> QED
  BY <1>1, <1>2, <1>3, <1>4, <1>5, <1>6, <1>7, <1>8, <1>9, <1>10, <1>11, <1>12, <1>13,
     <1>14, <1>15, <1>16, <1>17, <1>18, NextCases

\* The maps and the threads in flight stay consistent.
LEMMA IndexStep ==
    ASSUME IndInv, [Next]_vars
    PROVE  Indexing'
<1> USE DEF IndInv, Indexing, TypeOK, PCs, HoldsOpen, HoldsId, Inserting, LookingUp, Goto,
           InFlight, Owner, OpenIsIndexed, NoLeakedBusy, OneOwner, InFlightIndexed, UnusedIsUnknown
<1>0. TypeOK'
  BY TypeStep
<1>1. CASE UNCHANGED vars
  BY <1>1 DEF vars
<1>2. ASSUME NEW t \in Threads, NEW i \in Ids, NEW v \in Invite, CallInsert(t, i, v)
      PROVE  Indexing'
  BY <1>2 DEF CallInsert
<1>3. ASSUME NEW t \in Threads, NEW d \in Dogs, CallForDog(t, d) PROVE Indexing'
  BY <1>3 DEF CallForDog
<1>4. ASSUME NEW t \in Threads, NEW i \in Ids, CallClose(t, i) PROVE Indexing'
  BY <1>4 DEF CallClose
<1>5. ASSUME NEW t \in Threads, NEW now \in Instants, CallExpireDue(t, now) PROVE Indexing'
  BY <1>5 DEF CallExpireDue
<1>6. ASSUME NEW t \in Threads, InsertBusy(t) PROVE Indexing'
  BY <1>6 DEF InsertBusy
<1>7. ASSUME NEW t \in Threads, InsertOpen(t) PROVE Indexing'
  <2>1. /\ pc[t] = "insert" /\ pc' = [pc EXCEPT ![t] = "insert_lock_id"]
        /\ UNCHANGED <<by_id, cur, inv, used>>
        /\ cur[t] \in Ids /\ inv[t] \in Invite
        /\ by_id[cur[t]] = None
        /\ \A d \in Parties(inv[t]) : open[d] = None
        /\ open' = [d \in Dogs |-> IF d \in Parties(inv[t]) THEN cur[t] ELSE open[d]]
    BY <1>7 DEF InsertOpen, IsBusy
  <2>2. \A d \in Dogs : open[d] # None => open'[d] = open[d]
    BY <2>1
  <2>3. \A i \in Ids : by_id[i] # None => Parties(by_id[i]) \subseteq Dogs
    BY DEF Parties, Invite
  <2>4. \A u \in Threads : InFlight(u) => Parties(inv[u]) \subseteq Dogs /\ cur[u] \in Ids
    BY DEF Parties, Invite
  <2>5. Parties(inv[t]) \subseteq Dogs
    BY <2>1 DEF Parties, Invite
  <2>6. OpenIsIndexed'
    BY <2>1, <2>2, <2>3
  <2>7. NoLeakedBusy'
    BY <2>1, <2>5
  <2>8. OneOwner'
    BY <2>1
  <2>9. InFlightIndexed'
    BY <2>1, <2>2, <2>4, <2>5
  <2>10. UnusedIsUnknown'
    BY <2>1
  <2> QED
    BY <2>6, <2>7, <2>8, <2>9, <2>10
<1>8. ASSUME NEW t \in Threads, InsertLockId(t) PROVE Indexing'
  BY <1>8 DEF InsertLockId
<1>9. ASSUME NEW t \in Threads, InsertById(t) PROVE Indexing'
  BY <1>9 DEF InsertById
<1>10. ASSUME NEW t \in Threads, ForDogNone(t) PROVE Indexing'
  BY <1>10 DEF ForDogNone
<1>11. ASSUME NEW t \in Threads, ForDogOpen(t) PROVE Indexing'
  BY <1>11 DEF ForDogOpen
<1>12. ASSUME NEW t \in Threads, ForDogLockId(t) PROVE Indexing'
  BY <1>12 DEF ForDogLockId
<1>13. ASSUME NEW t \in Threads, ForDogById(t) PROVE Indexing'
  BY <1>13 DEF ForDogById
<1>14. ASSUME NEW t \in Threads, CloseGone(t) PROVE Indexing'
  BY <1>14 DEF CloseGone, AfterClose
<1>15. ASSUME NEW t \in Threads, CloseById(t) PROVE Indexing'
  BY <1>15 DEF CloseById
<1>16. ASSUME NEW t \in Threads, CloseOpen(t) PROVE Indexing'
  <2>1. /\ pc[t] = "close_open" /\ pc' = [pc EXCEPT ![t] = AfterClose(t)]
        /\ AfterClose(t) \in {"idle", "sweep"}
        /\ UNCHANGED <<by_id, used>>
        /\ cur[t] \in Ids /\ inv[t] \in Invite
        /\ cur' = [cur EXCEPT ![t] = None] /\ inv' = [inv EXCEPT ![t] = None]
        /\ by_id[cur[t]] = None
        /\ \A d \in Parties(inv[t]) : open[d] = cur[t]
        /\ open' = [d \in Dogs |-> IF d \in Parties(inv[t]) THEN None ELSE open[d]]
    BY <1>16 DEF CloseOpen, AfterClose
  <2>2. \A d \in Dogs : open[d] # cur[t] => open'[d] = open[d]
    BY <2>1
  <2>3. \A i \in Ids : by_id[i] # None => Parties(by_id[i]) \subseteq Dogs
    BY DEF Parties, Invite
  <2>4. \A u \in Threads : InFlight(u) => Parties(inv[u]) \subseteq Dogs /\ cur[u] \in Ids
    BY DEF Parties, Invite
  <2>5. \A u \in Threads : Owner(u)' => u # t /\ Owner(u) /\ cur[u] # cur[t]
    BY <2>1
  <2>6. OpenIsIndexed'
    BY <2>1, <2>2, <2>3
  <2>7. \A d \in Dogs : open'[d] # None => open'[d] = open[d] /\ d \notin Parties(inv[t])
    BY <2>1
  <2>8. NoLeakedBusy'
    BY <2>1, <2>7
  <2>9. OneOwner'
    BY <2>1, <2>5
  <2>10. InFlightIndexed'
    BY <2>1, <2>2, <2>4, <2>5
  <2>11. UnusedIsUnknown'
    BY <2>1, <2>5
  <2> QED
    BY <2>6, <2>8, <2>9, <2>10, <2>11
<1>17. ASSUME NEW t \in Threads, ExpireCollect(t) PROVE Indexing'
  BY <1>17 DEF ExpireCollect
<1>18. ASSUME NEW t \in Threads, NEW i \in Ids, ExpireNext(t, i) PROVE Indexing'
  BY <1>18 DEF ExpireNext
<1> QED
  BY <1>1, <1>2, <1>3, <1>4, <1>5, <1>6, <1>7, <1>8, <1>9, <1>10, <1>11, <1>12, <1>13, <1>14, <1>15, <1>16, <1>17, <1>18, NextCases


\* Nobody changes the entry for_dog has read while for_dog holds the lock.
LEMMA LookupStep ==
    ASSUME IndInv, [Next]_vars
    PROVE  LookupIsCurrent'
<1> USE DEF IndInv, TypeOK, PCs, HoldsOpen, HoldsId, LookingUp, Inserting, Goto, LookupIsCurrent
<1>0. TypeOK'
  BY TypeStep
<1>1. CASE UNCHANGED vars
  BY <1>1 DEF vars
<1>2. ASSUME NEW t \in Threads, NEW i \in Ids, NEW v \in Invite, CallInsert(t, i, v)
      PROVE  LookupIsCurrent'
  BY <1>2 DEF CallInsert
<1>3. ASSUME NEW t \in Threads, NEW d \in Dogs, CallForDog(t, d) PROVE LookupIsCurrent'
  BY <1>3 DEF CallForDog
<1>4. ASSUME NEW t \in Threads, NEW i \in Ids, CallClose(t, i) PROVE LookupIsCurrent'
  BY <1>4 DEF CallClose
<1>5. ASSUME NEW t \in Threads, NEW now \in Instants, CallExpireDue(t, now) PROVE LookupIsCurrent'
  BY <1>5 DEF CallExpireDue
<1>6. ASSUME NEW t \in Threads, InsertBusy(t) PROVE LookupIsCurrent'
  BY <1>6 DEF InsertBusy
<1>7. ASSUME NEW t \in Threads, InsertOpen(t) PROVE LookupIsCurrent'
  BY <1>7 DEF InsertOpen, IsBusy, Parties
<1>8. ASSUME NEW t \in Threads, InsertLockId(t) PROVE LookupIsCurrent'
  BY <1>8 DEF InsertLockId
<1>9. ASSUME NEW t \in Threads, InsertById(t) PROVE LookupIsCurrent'
  BY <1>9 DEF InsertById
<1>10. ASSUME NEW t \in Threads, ForDogNone(t) PROVE LookupIsCurrent'
  BY <1>10 DEF ForDogNone
<1>11. ASSUME NEW t \in Threads, ForDogOpen(t) PROVE LookupIsCurrent'
  BY <1>11 DEF ForDogOpen
<1>12. ASSUME NEW t \in Threads, ForDogLockId(t) PROVE LookupIsCurrent'
  BY <1>12 DEF ForDogLockId
<1>13. ASSUME NEW t \in Threads, ForDogById(t) PROVE LookupIsCurrent'
  BY <1>13 DEF ForDogById
<1>14. ASSUME NEW t \in Threads, CloseGone(t) PROVE LookupIsCurrent'
  BY <1>14 DEF CloseGone, AfterClose
<1>15. ASSUME NEW t \in Threads, CloseById(t) PROVE LookupIsCurrent'
  BY <1>15 DEF CloseById
<1>16. ASSUME NEW t \in Threads, CloseOpen(t) PROVE LookupIsCurrent'
  BY <1>16 DEF CloseOpen, AfterClose, Parties
<1>17. ASSUME NEW t \in Threads, ExpireCollect(t) PROVE LookupIsCurrent'
  BY <1>17 DEF ExpireCollect
<1>18. ASSUME NEW t \in Threads, NEW i \in Ids, ExpireNext(t, i) PROVE LookupIsCurrent'
  BY <1>18 DEF ExpireNext
<1> QED
  BY <1>1, <1>2, <1>3, <1>4, <1>5, <1>6, <1>7, <1>8, <1>9, <1>10, <1>11, <1>12, <1>13, <1>14, <1>15, <1>16, <1>17, <1>18, NextCases

\* The inductive invariant holds in every reachable state.
THEOREM Invariance == Spec => []IndInv
<1>1. Init => IndInv
  BY InitIndInv
<1>2. IndInv /\ [Next]_vars => IndInv'
  BY TypeStep, IndexStep, LookupStep DEF IndInv
<1> QED
  BY <1>1, <1>2, PTL DEF Spec

\* Types and lock ownership: a mutex is held by exactly the thread whose code is
\* inside its critical section.
THEOREM TypeCorrect == Spec => []TypeOK
  BY Invariance, PTL DEF IndInv

\* insert's check of open_for_dog is enough: by_id, written later and under
\* another lock, never holds two invites with a dog in common.
THEOREM InviteExclusive == Spec => []OneInvitePerDog
<1>1. IndInv => OneInvitePerDog
  <2> SUFFICES ASSUME IndInv, NEW i \in Ids, NEW j \in Ids,
                      by_id[i] # None, by_id[j] # None,
                      NEW d \in Parties(by_id[i]) \cap Parties(by_id[j])
               PROVE  i = j
    BY DEF OneInvitePerDog
  <2>1. open[d] = i /\ open[d] = j
    BY DEF IndInv, Indexing, OpenIsIndexed
  <2> QED
    BY <2>1
<1> QED
  BY <1>1, Invariance, PTL

\* An open invite is found through both its dogs, and a dog is busy only for an
\* invite that is open, being inserted or being closed.
THEOREM IndexExact == Spec => []MapsAgree
  BY Invariance, PTL DEF IndInv, Indexing, MapsAgree

\* However many threads there are and whatever they call, they never all wait: insert
\* and for_dog take by_id while they hold open_for_dog, and whoever holds by_id waits
\* for nothing.
THEOREM NeverAllWait == Spec => []LocksLetGo
<1>1. IndInv => LocksLetGo
  <2> SUFFICES ASSUME IndInv, NEW t \in Threads, pc[t] # "idle"
               PROVE  \E u \in Threads : CanGo(u)
    BY DEF LocksLetGo
  <2>1. /\ id_lock \in Threads \cup {None} /\ \A u \in Threads : id_lock = u <=> HoldsId(u)
        /\ open_lock \in Threads \cup {None} /\ \A u \in Threads : open_lock = u <=> HoldsOpen(u)
    BY DEF IndInv, TypeOK
  <2>2. CASE id_lock \in Threads
    BY <2>1, <2>2 DEF HoldsId, CanGo
  <2>3. CASE id_lock = None /\ open_lock \in Threads
    BY <2>1, <2>3 DEF HoldsOpen, CanGo
  <2>4. CASE id_lock = None /\ open_lock = None
    BY <2>4 DEF CanGo
  <2> QED BY <2>1, <2>2, <2>3, <2>4
<1> QED BY <1>1, Invariance, PTL

----------------------------------------------------------------------------
\* The refinement of InviteBook.

\* What a closer has removed is what the mapping shows as leaving.
LEMMA LeavingOf ==
    ASSUME IndInv, NEW i \in Ids
    PROVE  /\ \A t \in Threads : pc[t] = "close_open" /\ cur[t] = i => Leaving[i] = inv[t]
           /\ Leaving[i] # None =>
                \E t \in Threads : pc[t] = "close_open" /\ cur[t] = i /\ Leaving[i] = inv[t]
  BY DEF Leaving, IndInv, Indexing, OneOwner, Owner, InFlight

\* The dogs the book counts as held are the dogs with an entry, when no insert
\* is under way for them.
LEMMA HeldIsOpen ==
    ASSUME IndInv, NEW d \in Dogs, NEW i \in Book!Holds(d)
    PROVE  open[d] = i
<1>1. CASE by_id[i] # None /\ d \in Parties(by_id[i])
  BY <1>1 DEF IndInv, Indexing, OpenIsIndexed, Book!Holds
<1>2. CASE Leaving[i] # None /\ d \in Parties(Leaving[i])
  <2>1. i \in Ids
    BY DEF Book!Holds
  <2>2. PICK t \in Threads : pc[t] = "close_open" /\ cur[t] = i /\ Leaving[i] = inv[t]
    BY <1>2, <2>1, LeavingOf
  <2> QED
    BY <1>2, <2>2 DEF IndInv, Indexing, InFlightIndexed, InFlight
<1> QED
  BY <1>1, <1>2 DEF Book!Holds, Book!Parties, Parties

\* A step that closes nothing leaves the mapping of `leaving` alone.
LEMMA LeavingSame ==
    ASSUME TypeOK, TypeOK',
           \A t \in Threads :
              /\ pc[t] = "close_open" <=> pc'[t] = "close_open"
              /\ pc[t] = "close_open" => cur'[t] = cur[t] /\ inv'[t] = inv[t]
    PROVE  Leaving' = Leaving
<1> SUFFICES ASSUME NEW i \in Ids PROVE Leaving'[i] = Leaving[i]
  BY DEF Leaving
<1> DEFINE P(t) == pc[t] = "close_open" /\ cur[t] = i
<1>1. \A t \in Threads : P(t) <=> P(t)'
  OBVIOUS
<1>2. (CHOOSE t \in Threads : P(t)) = (CHOOSE t \in Threads : P(t)')
  BY <1>1
<1> QED
  BY <1>1, <1>2 DEF Leaving

LEMMA BookInit == Init => Book!Init
  BY DEF Init, Book!Init, Leaving

\* Every step of the store is a step of the book or leaves it alone.
LEMMA BookStep ==
    ASSUME IndInv, IndInv', [Next]_vars
    PROVE  [Book!Next]_<<by_id, Leaving, ans>>
<1> USE DEF Goto
<1> DEFINE Same == UNCHANGED <<by_id, Leaving, ans>>
<1>0. TypeOK /\ TypeOK'
  BY DEF IndInv
<1>1. CASE UNCHANGED vars
  BY <1>1 DEF vars, Leaving
<1>2. ASSUME NEW t \in Threads, NEW i \in Ids, NEW v \in Invite, CallInsert(t, i, v)
      PROVE  Same
  <2>1. Leaving' = Leaving
    BY <1>0, <1>2, LeavingSame DEF CallInsert, TypeOK
  <2> QED
    BY <1>2, <2>1 DEF CallInsert
<1>3. ASSUME NEW t \in Threads, NEW d \in Dogs, CallForDog(t, d) PROVE Same
  <2>1. Leaving' = Leaving
    BY <1>0, <1>3, LeavingSame DEF CallForDog, TypeOK
  <2> QED
    BY <1>3, <2>1 DEF CallForDog
<1>4. ASSUME NEW t \in Threads, NEW i \in Ids, CallClose(t, i) PROVE Same
  <2>1. Leaving' = Leaving
    BY <1>0, <1>4, LeavingSame DEF CallClose, TypeOK
  <2> QED
    BY <1>4, <2>1 DEF CallClose
<1>5. ASSUME NEW t \in Threads, NEW now \in Instants, CallExpireDue(t, now) PROVE Same
  <2>1. Leaving' = Leaving
    BY <1>0, <1>5, LeavingSame DEF CallExpireDue, TypeOK
  <2> QED
    BY <1>5, <2>1 DEF CallExpireDue
<1>6. ASSUME NEW t \in Threads, NEW i \in Ids, ExpireNext(t, i) PROVE Same
  <2>1. Leaving' = Leaving
    BY <1>0, <1>6, LeavingSame DEF ExpireNext, TypeOK
  <2> QED
    BY <1>6, <2>1 DEF ExpireNext
<1>7. ASSUME NEW t \in Threads, InsertOpen(t) PROVE Same
  <2>1. Leaving' = Leaving
    BY <1>0, <1>7, LeavingSame DEF InsertOpen, TypeOK
  <2> QED
    BY <1>7, <2>1 DEF InsertOpen
<1>8. ASSUME NEW t \in Threads, InsertLockId(t) PROVE Same
  <2>1. Leaving' = Leaving
    BY <1>0, <1>8, LeavingSame DEF InsertLockId, TypeOK
  <2> QED
    BY <1>8, <2>1 DEF InsertLockId
<1>9. ASSUME NEW t \in Threads, ForDogOpen(t) PROVE Same
  <2>1. Leaving' = Leaving
    BY <1>0, <1>9, LeavingSame DEF ForDogOpen, TypeOK
  <2> QED
    BY <1>9, <2>1 DEF ForDogOpen
<1>10. ASSUME NEW t \in Threads, ForDogLockId(t) PROVE Same
  <2>1. Leaving' = Leaving
    BY <1>0, <1>10, LeavingSame DEF ForDogLockId, TypeOK
  <2> QED
    BY <1>10, <2>1 DEF ForDogLockId
<1>11. ASSUME NEW t \in Threads, CloseGone(t) PROVE Same
  <2>1. Leaving' = Leaving
    BY <1>0, <1>11, LeavingSame DEF CloseGone, TypeOK, AfterClose
  <2> QED
    BY <1>11, <2>1 DEF CloseGone
<1>12. ASSUME NEW t \in Threads, ExpireCollect(t) PROVE Same
  <2>1. Leaving' = Leaving
    BY <1>0, <1>12, LeavingSame DEF ExpireCollect, TypeOK
  <2> QED
    BY <1>12, <2>1 DEF ExpireCollect
<1>13. ASSUME NEW t \in Threads, InsertBusy(t)
       PROVE  Book!Refuse(t, inv[t]) /\ inv[t] \in Invite
  <2>1. Leaving' = Leaving
    BY <1>0, <1>13, LeavingSame DEF InsertBusy, TypeOK
  <2>2. inv[t] \in Invite
    BY <1>0, <1>13 DEF TypeOK, Inserting, InsertBusy
  <2>3. PICK d \in Parties(inv[t]) : open[d] # None
    BY <1>13 DEF InsertBusy, IsBusy
  <2>4. d \in Dogs /\ open[d] \in Ids
    BY <1>0, <2>2, <2>3 DEF TypeOK, Invite, Parties
  <2>5. \A u \in Threads : InFlight(u) => pc[u] = "close_open"
    BY <1>0, <1>13 DEF InFlight, TypeOK, HoldsOpen, InsertBusy
  <2>6. open[d] \in Book!Holds(d)
    BY <2>3, <2>4, <2>5, LeavingOf
       DEF IndInv, Indexing, NoLeakedBusy, TypeOK, InFlight, Inserting, Book!Holds, Book!Parties, Parties
  <2> QED
    BY <1>13, <2>1, <2>2, <2>3, <2>6 DEF Book!Refuse, Book!Parties, Parties, InsertBusy
<1>14. ASSUME NEW t \in Threads, InsertById(t)
       PROVE  Book!Insert(t, cur[t], inv[t]) /\ cur[t] \in Ids /\ inv[t] \in Invite
  <2>1. Leaving' = Leaving
    BY <1>0, <1>14, LeavingSame DEF InsertById, TypeOK
  <2>2. pc[t] = "insert_by_id" /\ cur[t] \in Ids /\ inv[t] \in Invite
    BY <1>0, <1>14 DEF TypeOK, Inserting, InsertById
  <2>3. by_id[cur[t]] = None /\ \A d \in Parties(inv[t]) : open[d] = cur[t]
    BY <2>2 DEF IndInv, Indexing, InFlightIndexed, InFlight, Owner
  <2>4. Leaving[cur[t]] = None
    BY <2>2, LeavingOf DEF IndInv, Indexing, OneOwner, Owner, InFlight
  <2>5. ASSUME NEW d \in Parties(inv[t]), NEW i \in Book!Holds(d) PROVE FALSE
    <3>1. d \in Dogs
      BY <2>2 DEF Parties, Invite
    <3>2. i = cur[t]
      BY <2>3, <3>1, HeldIsOpen
    <3> QED
      BY <2>3, <2>4, <3>2 DEF Book!Holds
  <2> QED
    BY <1>14, <2>1, <2>2, <2>3, <2>5 DEF Book!Insert, Book!Parties, Parties, InsertById
<1>15. ASSUME NEW t \in Threads, ForDogNone(t)
       PROVE  \E d \in Dogs : Book!NotFound(t, d)
  <2>1. Leaving' = Leaving
    BY <1>0, <1>15, LeavingSame DEF ForDogNone, TypeOK
  <2>2. dog[t] \in Dogs /\ open[dog[t]] = None
    BY <1>0, <1>15 DEF TypeOK, ForDogNone
  <2>3. \A i \in Ids : by_id[i] # None => dog[t] \notin Book!Parties(by_id[i])
    BY <2>2 DEF IndInv, Indexing, OpenIsIndexed, Parties, Book!Parties
  <2> QED
    BY <1>15, <2>1, <2>2, <2>3 DEF Book!NotFound, ForDogNone
<1>16. ASSUME NEW t \in Threads, ForDogById(t)
       PROVE  \E d \in Dogs : Book!NotFound(t, d) \/ \E i \in Ids : Book!Found(t, d, i)
  <2>1. Leaving' = Leaving
    BY <1>0, <1>16, LeavingSame DEF ForDogById, TypeOK
  <2>2. dog[t] \in Dogs /\ cur[t] \in Ids /\ open[dog[t]] = cur[t]
    BY <1>0, <1>16 DEF TypeOK, ForDogById, LookingUp, IndInv, LookupIsCurrent
  <2>3. CASE by_id[cur[t]] = None
    <3>1. \A i \in Ids : by_id[i] # None => dog[t] \notin Book!Parties(by_id[i])
      BY <2>2, <2>3 DEF IndInv, Indexing, OpenIsIndexed, Parties, Book!Parties
    <3> QED
      BY <1>16, <2>1, <2>2, <2>3, <3>1 DEF Book!NotFound, ForDogById
  <2>4. CASE by_id[cur[t]] # None
    <3>1. dog[t] \in Parties(by_id[cur[t]])
      BY <2>2, <2>4 DEF IndInv, Indexing, NoLeakedBusy, InFlightIndexed, Owner
    <3> QED
      BY <1>16, <2>1, <2>2, <2>4, <3>1 DEF Book!Found, Book!Parties, Parties, ForDogById
  <2> QED
    BY <2>3, <2>4
<1>17. ASSUME NEW t \in Threads, CloseById(t)
       PROVE  Book!Remove(cur[t]) /\ cur[t] \in Ids
  <2>1. cur[t] \in Ids /\ by_id[cur[t]] # None
    BY <1>0, <1>17 DEF TypeOK, CloseById
  <2>2. Leaving[cur[t]] = None
    BY <2>1, LeavingOf DEF IndInv, Indexing, InFlightIndexed, Owner, InFlight
  <2>3. pc' = [pc EXCEPT ![t] = "close_open"] /\ pc[t] = "close" /\ cur' = cur
        /\ inv' = [inv EXCEPT ![t] = by_id[cur[t]]]
    BY <1>17 DEF CloseById
  <2>4. \A u \in Threads : pc[u] = "close_open" => cur[u] # cur[t]
    BY <2>1 DEF IndInv, Indexing, InFlightIndexed, Owner, InFlight
  <2>5. Leaving' = [Leaving EXCEPT ![cur[t]] = by_id[cur[t]]]
    <3> SUFFICES ASSUME NEW i \in Ids
                 PROVE  Leaving'[i] = IF i = cur[t] THEN by_id[cur[t]] ELSE Leaving[i]
      BY DEF Leaving
    <3> DEFINE P(u) == pc[u] = "close_open" /\ cur[u] = i
    <3>1. CASE i = cur[t]
      <4>1. \A u \in Threads : P(u)' <=> u = t
        BY <2>3, <2>4, <3>1, <1>0 DEF TypeOK
      <4>2. (CHOOSE u \in Threads : P(u)') = t
        BY <4>1
      <4> QED
        BY <2>3, <3>1, <4>1, <4>2, <1>0 DEF Leaving, TypeOK
    <3>2. CASE i # cur[t]
      <4>1. \A u \in Threads : P(u)' <=> P(u)
        BY <2>3, <3>2, <1>0 DEF TypeOK
      <4>2. (CHOOSE u \in Threads : P(u)') = (CHOOSE u \in Threads : P(u))
        BY <4>1
      <4>3. \A u \in Threads : P(u) => inv'[u] = inv[u]
        BY <2>3, <3>2, <1>0 DEF TypeOK
      <4> QED
        BY <3>2, <4>1, <4>2, <4>3 DEF Leaving
    <3> QED
      BY <3>1, <3>2
  <2> QED
    BY <1>17, <2>1, <2>2, <2>5 DEF Book!Remove, CloseById
<1>18. ASSUME NEW t \in Threads, CloseOpen(t)
       PROVE  Book!Release(cur[t]) /\ cur[t] \in Ids
  <2>1. pc[t] = "close_open" /\ cur[t] \in Ids /\ inv[t] \in Invite
    BY <1>0, <1>18 DEF TypeOK, CloseOpen
  <2>2. Leaving[cur[t]] # None
    BY <2>1, LeavingOf
  <2>3. pc' = [pc EXCEPT ![t] = AfterClose(t)] /\ AfterClose(t) # "close_open"
        /\ cur' = [cur EXCEPT ![t] = None] /\ inv' = [inv EXCEPT ![t] = None]
    BY <1>18 DEF CloseOpen, AfterClose
  <2>4. \A u \in Threads : pc[u] = "close_open" /\ cur[u] = cur[t] => u = t
    BY <2>1 DEF IndInv, Indexing, OneOwner, Owner, InFlight
  <2>5. Leaving' = [Leaving EXCEPT ![cur[t]] = None]
    <3> SUFFICES ASSUME NEW i \in Ids
                 PROVE  Leaving'[i] = IF i = cur[t] THEN None ELSE Leaving[i]
      BY DEF Leaving
    <3> DEFINE P(u) == pc[u] = "close_open" /\ cur[u] = i
    <3>1. CASE i = cur[t]
      <4>1. \A u \in Threads : ~ P(u)'
        BY <2>3, <2>4, <3>1, <1>0 DEF TypeOK
      <4> QED
        BY <3>1, <4>1 DEF Leaving
    <3>2. CASE i # cur[t]
      <4>1. \A u \in Threads : P(u)' <=> P(u)
        BY <2>1, <2>3, <3>2, <1>0 DEF TypeOK
      <4>2. (CHOOSE u \in Threads : P(u)') = (CHOOSE u \in Threads : P(u))
        BY <4>1
      <4>3. \A u \in Threads : P(u) => inv'[u] = inv[u]
        BY <2>3, <3>2, <1>0 DEF TypeOK
      <4> QED
        BY <3>2, <4>1, <4>2, <4>3 DEF Leaving
    <3> QED
      BY <3>1, <3>2
  <2> QED
    BY <1>18, <2>1, <2>2, <2>5 DEF Book!Release, CloseOpen
<1> QED
  BY <1>1, <1>2, <1>3, <1>4, <1>5, <1>6, <1>7, <1>8, <1>9, <1>10, <1>11, <1>12, <1>13,
     <1>14, <1>15, <1>16, <1>17, <1>18, NextCases DEF Book!Next, Book!Invite, Invite

\* The store implements InviteBook: whatever the interleaving of lock operations,
\* the operations look as if each took effect at one moment.
THEOREM StoreImplementsBook == Spec => Linearizable
<1>1. Init => Book!Init
  BY BookInit
<1>2. IndInv /\ IndInv' /\ [Next]_vars => [Book!Next]_<<by_id, Leaving, ans>>
  BY BookStep
<1> QED
  BY <1>1, <1>2, Invariance, PTL DEF Spec, Linearizable, Book!Spec, Book!vars

=============================================================================
