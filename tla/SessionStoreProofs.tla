------------------------- MODULE SessionStoreProofs -------------------------
(***************************************************************************)
(* IndInv of SessionStore is inductive, so its safety properties hold for  *)
(* any number of threads, dogs and sessions; and the store implements      *)
(* SessionBook.                                                            *)
(***************************************************************************)
EXTENDS SessionStore, TLAPS

USE NoneAssumption DEF maps, locks, local

LEMMA NextCases ==
    ASSUME Next
    PROVE  \E t \in Threads :
              \/ \E i \in Ids, s \in Session : CallInsert(t, i, s)
              \/ \E d \in Dogs : CallForDog(t, d)
              \/ \E i \in Ids : CallEnd(t, i)
              \/ \E i \in Ids, d \in Dogs, r \in BOOLEAN : CallReady(t, i, d, r)
              \/ \E i \in Ids, x \in Instants : Extend(t, i, x)
              \/ InsertBusy(t) \/ InsertByDog(t) \/ InsertMedia(t) \/ InsertMediaDrop(t)
              \/ InsertById(t) \/ InsertReturn(t)
              \/ ForDogNone(t) \/ ForDogId(t) \/ ForDogGet(t)
              \/ EndGone(t) \/ EndById(t) \/ EndByIdDrop(t) \/ EndByDog(t) \/ EndMedia(t)
              \/ EndReturn(t)
              \/ ReadyGone(t) \/ ReadyGet(t) \/ ReadyRefused(t) \/ ReadyFlag(t)
              \/ ReadyDrop(t) \/ ReadyUpdate(t) \/ ReadyAnswerStep(t)
  BY DEF Next, Call, Step

LEMMA InitIndInv == Init => IndInv
  BY DEF Init, IndInv, TypeOK, PCs, HoldsDogLock, HoldsMediaLock, HoldsIdLock, Reporting, Activating,
         InFlight, Owner, IndexExact,
         MediaExact, OneOwner, InFlightIndexed, UnusedIsUnknown, ReadyIsActive,
         ActiveWasReady, AnswersRight, CallerKnows

\* Types, and which thread holds which mutex, are kept by every step.
LEMMA TypeStep ==
    ASSUME TypeOK, [Next]_vars
    PROVE  TypeOK'
<1> USE DEF TypeOK, PCs, HoldsDogLock, HoldsMediaLock, HoldsIdLock, Reporting, Goto
<1>1. CASE UNCHANGED vars
  BY <1>1 DEF vars
<1>2. ASSUME NEW t \in Threads, NEW i \in Ids, NEW s \in Session, CallInsert(t, i, s)
      PROVE  TypeOK'
  BY <1>2 DEF CallInsert
<1>3. ASSUME NEW t \in Threads, NEW d \in Dogs, CallForDog(t, d)
      PROVE  TypeOK'
  BY <1>3 DEF CallForDog
<1>4. ASSUME NEW t \in Threads, NEW i \in Ids, CallEnd(t, i)
      PROVE  TypeOK'
  BY <1>4 DEF CallEnd
<1>5. ASSUME NEW t \in Threads, NEW i \in Ids, NEW d \in Dogs, NEW r \in BOOLEAN, CallReady(t, i, d, r)
      PROVE  TypeOK'
  BY <1>5 DEF CallReady
<1>6. ASSUME NEW t \in Threads, NEW i \in Ids, NEW x \in Instants, Extend(t, i, x)
      PROVE  TypeOK'
  BY <1>6 DEF Extend, Session
<1>7. ASSUME NEW t \in Threads, InsertBusy(t) PROVE TypeOK'
  BY <1>7 DEF InsertBusy, Return
<1>8. ASSUME NEW t \in Threads, InsertByDog(t) PROVE TypeOK'
  BY <1>8 DEF InsertByDog, IsBusy, Parties
<1>9. ASSUME NEW t \in Threads, InsertMedia(t) PROVE TypeOK'
  BY <1>9 DEF InsertMedia, Extra
<1>10. ASSUME NEW t \in Threads, InsertById(t) PROVE TypeOK'
  BY <1>10 DEF InsertById
<1>11. ASSUME NEW t \in Threads, ForDogNone(t) PROVE TypeOK'
  BY <1>11 DEF ForDogNone, Return
<1>12. ASSUME NEW t \in Threads, ForDogId(t) PROVE TypeOK'
  BY <1>12 DEF ForDogId
<1>13. ASSUME NEW t \in Threads, ForDogGet(t) PROVE TypeOK'
  BY <1>13 DEF ForDogGet, Return
<1>14. ASSUME NEW t \in Threads, EndGone(t) PROVE TypeOK'
  BY <1>14 DEF EndGone, Return
<1>15. ASSUME NEW t \in Threads, EndById(t) PROVE TypeOK'
  BY <1>15 DEF EndById
<1>16. ASSUME NEW t \in Threads, EndByDog(t) PROVE TypeOK'
  BY <1>16 DEF EndByDog, Parties
<1>17. ASSUME NEW t \in Threads, EndMedia(t) PROVE TypeOK'
  BY <1>17 DEF EndMedia
<1>18. ASSUME NEW t \in Threads, ReadyGone(t) PROVE TypeOK'
  BY <1>18 DEF ReadyGone, Return
<1>19. ASSUME NEW t \in Threads, ReadyGet(t) PROVE TypeOK'
  BY <1>19 DEF ReadyGet
<1>20. ASSUME NEW t \in Threads, ReadyRefused(t) PROVE TypeOK'
  BY <1>20 DEF ReadyRefused, Return
<1>21. ASSUME NEW t \in Threads, ReadyFlag(t) PROVE TypeOK'
  BY <1>21 DEF ReadyFlag, Flagged, Parties, Extra
<1>22. ASSUME NEW t \in Threads, ReadyUpdate(t) PROVE TypeOK'
  BY <1>22 DEF ReadyUpdate, Session, States
<1>23. ASSUME NEW t \in Threads, ReadyAnswerStep(t) PROVE TypeOK'
  BY <1>23 DEF ReadyAnswerStep, Return
<1>24. ASSUME NEW t \in Threads, InsertMediaDrop(t) PROVE TypeOK'
  BY <1>24 DEF InsertMediaDrop
<1>25. ASSUME NEW t \in Threads, InsertReturn(t) PROVE TypeOK'
  BY <1>25 DEF InsertReturn, Return
<1>26. ASSUME NEW t \in Threads, EndByIdDrop(t) PROVE TypeOK'
  BY <1>26 DEF EndByIdDrop
<1>27. ASSUME NEW t \in Threads, EndReturn(t) PROVE TypeOK'
  BY <1>27 DEF EndReturn, Return
<1>28. ASSUME NEW t \in Threads, ReadyDrop(t) PROVE TypeOK'
  BY <1>28 DEF ReadyDrop
<1> HIDE DEF TypeOK, PCs, HoldsDogLock, HoldsMediaLock, HoldsIdLock, Reporting, Goto
<1> QED
  BY <1>1, <1>2, <1>3, <1>4, <1>5, <1>6, <1>7, <1>8, <1>9, <1>10, <1>11, <1>12,
     <1>13, <1>14, <1>15, <1>16, <1>17, <1>18, <1>19, <1>20, <1>21, <1>22, <1>23,
     <1>24, <1>25, <1>26, <1>27, <1>28, NextCases

\* update marks one session Active and keeps everything else of every session.
LEMMA UpdateMarks ==
    ASSUME TypeOK, NEW t \in Threads, ReadyUpdate(t)
    PROVE  /\ cur[t] \in Ids
           /\ \A j \in Ids : by_id'[j] = None <=> by_id[j] = None
           /\ \A j \in Ids : by_id[j] # None =>
                 /\ Parties(by_id'[j]) = Parties(by_id[j])
                 /\ by_id'[j].state = IF j = cur[t] THEN "Active" ELSE by_id[j].state
<1>1. cur[t] \in Ids /\ by_id \in [Ids -> Session \cup {None}]
  BY DEF ReadyUpdate, Goto, TypeOK
<1>2. CASE by_id[cur[t]] = None
  BY <1>1, <1>2 DEF ReadyUpdate
<1>3. CASE by_id[cur[t]] # None
  <2>1. by_id[cur[t]] \in Session
    BY <1>1, <1>3
  <2>2. by_id' = [by_id EXCEPT ![cur[t]] = [by_id[cur[t]] EXCEPT !.state = "Active"]]
    BY <1>3 DEF ReadyUpdate
  <2>3. by_id'[cur[t]] = [by_id[cur[t]] EXCEPT !.state = "Active"]
    BY <1>1, <2>2
  <2>4. \A j \in Ids : j # cur[t] => by_id'[j] = by_id[j]
    BY <1>1, <2>2
  <2>5. /\ by_id'[cur[t]] \in Session
        /\ by_id'[cur[t]].state = "Active"
        /\ Parties(by_id'[cur[t]]) = Parties(by_id[cur[t]])
    BY <2>1, <2>3 DEF Session, States, Parties
  <2> QED
    BY <1>1, <1>3, <2>4, <2>5
<1> QED
  BY <1>1, <1>2, <1>3

\* The two maps, and the threads between them, stay consistent.
LEMMA IndexStep ==
    ASSUME IndInv, TypeOK', [Next]_vars
    PROVE  (IndexExact /\ OneOwner /\ InFlightIndexed /\ UnusedIsUnknown)'
<1> USE DEF IndInv, TypeOK, PCs, HoldsDogLock, HoldsMediaLock, HoldsIdLock, Reporting, Activating, Goto,
           InFlight, Owner,
           IndexExact, OneOwner, InFlightIndexed, UnusedIsUnknown, CallerKnows
<1>1. CASE UNCHANGED vars
  BY <1>1 DEF vars
<1>2. ASSUME NEW t \in Threads, NEW i \in Ids, NEW s \in Session, CallInsert(t, i, s)
      PROVE  (IndexExact /\ OneOwner /\ InFlightIndexed /\ UnusedIsUnknown)'
  BY <1>2 DEF CallInsert
<1>3. ASSUME NEW t \in Threads, NEW d \in Dogs, CallForDog(t, d)
      PROVE  (IndexExact /\ OneOwner /\ InFlightIndexed /\ UnusedIsUnknown)'
  BY <1>3 DEF CallForDog
<1>4. ASSUME NEW t \in Threads, NEW i \in Ids, CallEnd(t, i)
      PROVE  (IndexExact /\ OneOwner /\ InFlightIndexed /\ UnusedIsUnknown)'
  BY <1>4 DEF CallEnd
<1>5. ASSUME NEW t \in Threads, NEW i \in Ids, NEW d \in Dogs, NEW r \in BOOLEAN, CallReady(t, i, d, r)
      PROVE  (IndexExact /\ OneOwner /\ InFlightIndexed /\ UnusedIsUnknown)'
  BY <1>5 DEF CallReady
<1>6. ASSUME NEW t \in Threads, NEW i \in Ids, NEW x \in Instants, Extend(t, i, x)
      PROVE  (IndexExact /\ OneOwner /\ InFlightIndexed /\ UnusedIsUnknown)'
  <2>1. /\ \A j \in Ids : by_id'[j] = None <=> by_id[j] = None
        /\ \A j \in Ids : by_id[j] # None => Parties(by_id'[j]) = Parties(by_id[j])
    BY <1>6 DEF Extend, Session, Parties
  <2>2. UNCHANGED <<by_dog, media, used, together, pc, cur, sess>>
    BY <1>6 DEF Extend
  <2>3. IndexExact'
    BY <2>1, <2>2
  <2>4. OneOwner'
    BY <2>2
  <2>5. InFlightIndexed'
    BY <2>1, <2>2
  <2>6. UnusedIsUnknown'
    BY <2>1, <2>2
  <2> QED
    BY <2>3, <2>4, <2>5, <2>6
<1>7. ASSUME NEW t \in Threads, InsertBusy(t) PROVE (IndexExact /\ OneOwner /\ InFlightIndexed /\ UnusedIsUnknown)'
  BY <1>7 DEF InsertBusy, Return
<1>8. ASSUME NEW t \in Threads, InsertByDog(t) PROVE (IndexExact /\ OneOwner /\ InFlightIndexed /\ UnusedIsUnknown)'
  <2>1. /\ UNCHANGED <<by_id, media, used, together, cur, sess>>
        /\ pc[t] = "insert" /\ pc' = [pc EXCEPT ![t] = "insert_media"]
        /\ cur[t] \in Ids /\ sess[t] \in Session
        /\ by_id[cur[t]] = None
        /\ \A d \in Parties(sess[t]) : by_dog[d] = None
        /\ by_dog' = [d \in Dogs |-> IF d \in Parties(sess[t]) THEN cur[t] ELSE by_dog[d]]
    BY <1>8 DEF InsertByDog, IsBusy
  <2>2. \A d \in Dogs : by_dog[d] # None => by_dog'[d] = by_dog[d]
    BY <2>1
  <2>3. \A i \in Ids : by_id[i] # None => Parties(by_id[i]) \subseteq Dogs
    BY DEF Parties, Session
  <2>4. \A u \in Threads : InFlight(u) => Parties(sess[u]) \subseteq Dogs /\ cur[u] \in Ids
    BY DEF Parties, Session
  <2>5. Parties(sess[t]) \subseteq Dogs
    BY <2>1 DEF Parties, Session
  <2>6. IndexExact'
    <3>1. \A i \in Ids : by_id[i] # None => \A d \in Parties(by_id[i]) : by_dog'[d] = i
      BY <2>2, <2>3
    <3>2. \A d \in Dogs : by_dog'[d] # None =>
             \/ by_id[by_dog'[d]] # None /\ d \in Parties(by_id[by_dog'[d]])
             \/ \E u \in Threads : InFlight(u)' /\ cur[u] = by_dog'[d] /\ d \in Parties(sess[u])
      BY <2>1, <2>5
    <3> QED
      BY <2>1, <3>1, <3>2
  <2>7. OneOwner'
    BY <2>1
  <2>8. InFlightIndexed'
    BY <2>1, <2>2, <2>4, <2>5
  <2>9. UnusedIsUnknown'
    BY <2>1
  <2> QED
    BY <2>6, <2>7, <2>8, <2>9
<1>9. ASSUME NEW t \in Threads, InsertMedia(t) PROVE (IndexExact /\ OneOwner /\ InFlightIndexed /\ UnusedIsUnknown)'
  <2>1. /\ UNCHANGED <<by_id, by_dog, used, together, cur, sess>>
        /\ pc[t] = "insert_media" /\ pc' = [pc EXCEPT ![t] = "insert_media_held"]
        /\ media' = [media EXCEPT ![cur[t]] = [media_a |-> FALSE, media_b |-> FALSE]]
    BY <1>9 DEF InsertMedia
  <2>2. [media_a |-> FALSE, media_b |-> FALSE] # None
    <3>1. [media_a |-> FALSE, media_b |-> FALSE] \in Extra
      BY DEF Extra
    <3> QED
      BY <3>1
  <2>3. IndexExact'
    BY <2>1
  <2>4. OneOwner'
    BY <2>1
  <2>5. \A u \in Threads : u # t /\ Owner(u) => cur[u] # cur[t]
    BY <2>1
  <2>6. InFlightIndexed'
    BY <2>1, <2>2, <2>5
  <2>7. UnusedIsUnknown'
    BY <2>1
  <2> QED
    BY <2>3, <2>4, <2>6, <2>7
<1>10. ASSUME NEW t \in Threads, InsertById(t) PROVE (IndexExact /\ OneOwner /\ InFlightIndexed /\ UnusedIsUnknown)'
  BY <1>10 DEF InsertById
<1>11. ASSUME NEW t \in Threads, ForDogNone(t) PROVE (IndexExact /\ OneOwner /\ InFlightIndexed /\ UnusedIsUnknown)'
  BY <1>11 DEF ForDogNone, Return
<1>12. ASSUME NEW t \in Threads, ForDogId(t) PROVE (IndexExact /\ OneOwner /\ InFlightIndexed /\ UnusedIsUnknown)'
  BY <1>12 DEF ForDogId
<1>13. ASSUME NEW t \in Threads, ForDogGet(t) PROVE (IndexExact /\ OneOwner /\ InFlightIndexed /\ UnusedIsUnknown)'
  BY <1>13 DEF ForDogGet, Return
<1>14. ASSUME NEW t \in Threads, EndGone(t) PROVE (IndexExact /\ OneOwner /\ InFlightIndexed /\ UnusedIsUnknown)'
  BY <1>14 DEF EndGone, Return
<1>15. ASSUME NEW t \in Threads, EndById(t) PROVE (IndexExact /\ OneOwner /\ InFlightIndexed /\ UnusedIsUnknown)'
  BY <1>15 DEF EndById
<1>16. ASSUME NEW t \in Threads, EndByDog(t) PROVE (IndexExact /\ OneOwner /\ InFlightIndexed /\ UnusedIsUnknown)'
  <2>1. /\ UNCHANGED <<by_id, media, used, together, cur, sess>>
        /\ pc[t] = "end_by_dog" /\ pc' = [pc EXCEPT ![t] = "end_media"]
        /\ cur[t] \in Ids /\ sess[t] \in Session
        /\ by_id[cur[t]] = None
        /\ \A d \in Parties(sess[t]) : by_dog[d] = cur[t]
        /\ by_dog' = [d \in Dogs |-> IF d \in Parties(sess[t]) THEN None ELSE by_dog[d]]
    BY <1>16 DEF EndByDog
  <2>2. \A d \in Dogs : by_dog[d] # cur[t] => by_dog'[d] = by_dog[d]
    BY <2>1
  <2>3. \A i \in Ids : by_id[i] # None => Parties(by_id[i]) \subseteq Dogs
    BY DEF Parties, Session
  <2>4. \A u \in Threads : InFlight(u) => Parties(sess[u]) \subseteq Dogs /\ cur[u] \in Ids
    BY DEF Parties, Session
  <2>5. \A u \in Threads : u # t /\ Owner(u) => cur[u] # cur[t]
    BY <2>1
  <2>6. IndexExact'
    <3>1. \A i \in Ids : by_id[i] # None => \A d \in Parties(by_id[i]) : by_dog'[d] = i
      BY <2>1, <2>2, <2>3
    <3>2. \A d \in Dogs : by_dog'[d] # None => by_dog'[d] = by_dog[d] /\ d \notin Parties(sess[t])
      BY <2>1
    <3>3. \A d \in Dogs : by_dog'[d] # None =>
             \/ by_id[by_dog'[d]] # None /\ d \in Parties(by_id[by_dog'[d]])
             \/ \E u \in Threads : InFlight(u)' /\ cur[u] = by_dog'[d] /\ d \in Parties(sess[u])
      BY <2>1, <3>2
    <3> QED
      BY <2>1, <3>1, <3>3
  <2>7. OneOwner'
    BY <2>1
  <2>8. \A d \in Dogs : by_dog'[d] # cur[t]
    <3> SUFFICES ASSUME NEW d \in Dogs, by_dog[d] = cur[t] PROVE d \in Parties(sess[t])
      BY <2>1
    <3>1. PICK u \in Threads : InFlight(u) /\ cur[u] = cur[t] /\ d \in Parties(sess[u])
      BY <2>1
    <3>2. u = t
      BY <2>5, <3>1
    <3> QED
      BY <3>1, <3>2
  <2>9. InFlightIndexed'
    <3>1. \A u \in Threads : InFlight(u)' => \A d \in Parties(sess[u]) : by_dog'[d] = cur[u]
      BY <2>1, <2>2, <2>4, <2>5
    <3> QED
      BY <2>1, <2>8, <3>1
  <2>10. UnusedIsUnknown'
    BY <2>1
  <2> QED
    BY <2>6, <2>7, <2>9, <2>10
<1>17. ASSUME NEW t \in Threads, EndMedia(t) PROVE (IndexExact /\ OneOwner /\ InFlightIndexed /\ UnusedIsUnknown)'
  BY <1>17 DEF EndMedia
<1>18. ASSUME NEW t \in Threads, ReadyGone(t) PROVE (IndexExact /\ OneOwner /\ InFlightIndexed /\ UnusedIsUnknown)'
  BY <1>18 DEF ReadyGone, Return
<1>19. ASSUME NEW t \in Threads, ReadyGet(t) PROVE (IndexExact /\ OneOwner /\ InFlightIndexed /\ UnusedIsUnknown)'
  BY <1>19 DEF ReadyGet
<1>20. ASSUME NEW t \in Threads, ReadyRefused(t) PROVE (IndexExact /\ OneOwner /\ InFlightIndexed /\ UnusedIsUnknown)'
  BY <1>20 DEF ReadyRefused, Return
<1>21. ASSUME NEW t \in Threads, ReadyFlag(t) PROVE (IndexExact /\ OneOwner /\ InFlightIndexed /\ UnusedIsUnknown)'
  BY <1>21 DEF ReadyFlag, Flagged, Parties, Extra
<1>22. ASSUME NEW t \in Threads, ReadyUpdate(t) PROVE (IndexExact /\ OneOwner /\ InFlightIndexed /\ UnusedIsUnknown)'
  <2>1. /\ \A j \in Ids : by_id'[j] = None <=> by_id[j] = None
        /\ \A j \in Ids : by_id[j] # None => Parties(by_id'[j]) = Parties(by_id[j])
    BY <1>22, UpdateMarks
  <2>2. /\ UNCHANGED <<by_dog, media, used, together, cur, sess>>
        /\ pc[t] = "ready_update" /\ pc' = [pc EXCEPT ![t] = "ready_answer"]
    BY <1>22 DEF ReadyUpdate
  <2>3. IndexExact'
    BY <2>1, <2>2
  <2>4. OneOwner'
    BY <2>2
  <2>5. InFlightIndexed'
    BY <2>1, <2>2
  <2>6. UnusedIsUnknown'
    BY <2>1, <2>2
  <2> QED
    BY <2>3, <2>4, <2>5, <2>6
<1>23. ASSUME NEW t \in Threads, ReadyAnswerStep(t) PROVE (IndexExact /\ OneOwner /\ InFlightIndexed /\ UnusedIsUnknown)'
  BY <1>23 DEF ReadyAnswerStep, Return
<1>24. ASSUME NEW t \in Threads, InsertMediaDrop(t) PROVE (IndexExact /\ OneOwner /\ InFlightIndexed /\ UnusedIsUnknown)'
  BY <1>24 DEF InsertMediaDrop
<1>25. ASSUME NEW t \in Threads, InsertReturn(t) PROVE (IndexExact /\ OneOwner /\ InFlightIndexed /\ UnusedIsUnknown)'
  BY <1>25 DEF InsertReturn, Return
<1>26. ASSUME NEW t \in Threads, EndByIdDrop(t) PROVE (IndexExact /\ OneOwner /\ InFlightIndexed /\ UnusedIsUnknown)'
  BY <1>26 DEF EndByIdDrop
<1>27. ASSUME NEW t \in Threads, EndReturn(t) PROVE (IndexExact /\ OneOwner /\ InFlightIndexed /\ UnusedIsUnknown)'
  BY <1>27 DEF EndReturn, Return
<1>28. ASSUME NEW t \in Threads, ReadyDrop(t) PROVE (IndexExact /\ OneOwner /\ InFlightIndexed /\ UnusedIsUnknown)'
  BY <1>28 DEF ReadyDrop
<1> HIDE DEF IndInv, TypeOK, PCs, HoldsDogLock, HoldsMediaLock, HoldsIdLock, Reporting, Activating, Goto,
           InFlight, Owner,
            IndexExact, OneOwner, InFlightIndexed, UnusedIsUnknown, CallerKnows
<1> QED
  BY <1>1, <1>2, <1>3, <1>4, <1>5, <1>6, <1>7, <1>8, <1>9, <1>10, <1>11, <1>12,
     <1>13, <1>14, <1>15, <1>16, <1>17, <1>18, <1>19, <1>20, <1>21, <1>22, <1>23,
     <1>24, <1>25, <1>26, <1>27, <1>28, NextCases

\* The flags and the Active mark stay consistent.
LEMMA MediaStep ==
    ASSUME IndInv, TypeOK', [Next]_vars
    PROVE  (MediaExact /\ ReadyIsActive /\ ActiveWasReady /\ AnswersRight)'
<1> USE DEF IndInv, TypeOK, PCs, HoldsDogLock, HoldsMediaLock, HoldsIdLock, Reporting, Activating, Goto,
           InFlight, Owner,
           IndexExact, OneOwner, InFlightIndexed, UnusedIsUnknown, CallerKnows,
           MediaExact, ReadyIsActive, ActiveWasReady, AnswersRight
<1>1. CASE UNCHANGED vars
  BY <1>1 DEF vars
<1>2. ASSUME NEW t \in Threads, NEW i \in Ids, NEW s \in Session, CallInsert(t, i, s)
      PROVE  (MediaExact /\ ReadyIsActive /\ ActiveWasReady /\ AnswersRight)'
  BY <1>2 DEF CallInsert
<1>3. ASSUME NEW t \in Threads, NEW d \in Dogs, CallForDog(t, d)
      PROVE  (MediaExact /\ ReadyIsActive /\ ActiveWasReady /\ AnswersRight)'
  BY <1>3 DEF CallForDog
<1>4. ASSUME NEW t \in Threads, NEW i \in Ids, CallEnd(t, i)
      PROVE  (MediaExact /\ ReadyIsActive /\ ActiveWasReady /\ AnswersRight)'
  BY <1>4 DEF CallEnd
<1>5. ASSUME NEW t \in Threads, NEW i \in Ids, NEW d \in Dogs, NEW r \in BOOLEAN, CallReady(t, i, d, r)
      PROVE  (MediaExact /\ ReadyIsActive /\ ActiveWasReady /\ AnswersRight)'
  BY <1>5 DEF CallReady
<1>6. ASSUME NEW t \in Threads, NEW i \in Ids, NEW x \in Instants, Extend(t, i, x)
      PROVE  (MediaExact /\ ReadyIsActive /\ ActiveWasReady /\ AnswersRight)'
  <2>1. /\ \A j \in Ids : by_id'[j] = None <=> by_id[j] = None
        /\ \A j \in Ids : by_id[j] # None =>
              Parties(by_id'[j]) = Parties(by_id[j]) /\ by_id'[j].state = by_id[j].state
    BY <1>6 DEF Extend, Session, Parties
  <2>2. UNCHANGED <<media, together, pc, cur, dog, both>>
    BY <1>6 DEF Extend
  <2>3. MediaExact'
    BY <2>1, <2>2
  <2>4. ReadyIsActive'
    BY <2>1, <2>2
  <2>5. ActiveWasReady'
    BY <2>1, <2>2
  <2>6. AnswersRight'
    BY <2>1, <2>2
  <2> QED
    BY <2>3, <2>4, <2>5, <2>6
<1>7. ASSUME NEW t \in Threads, InsertBusy(t) PROVE (MediaExact /\ ReadyIsActive /\ ActiveWasReady /\ AnswersRight)'
  BY <1>7 DEF InsertBusy, Return
<1>8. ASSUME NEW t \in Threads, InsertByDog(t) PROVE (MediaExact /\ ReadyIsActive /\ ActiveWasReady /\ AnswersRight)'
  BY <1>8 DEF InsertByDog, IsBusy, Parties
<1>9. ASSUME NEW t \in Threads, InsertMedia(t) PROVE (MediaExact /\ ReadyIsActive /\ ActiveWasReady /\ AnswersRight)'
  BY <1>9 DEF InsertMedia, Extra
<1>10. ASSUME NEW t \in Threads, InsertById(t) PROVE (MediaExact /\ ReadyIsActive /\ ActiveWasReady /\ AnswersRight)'
  BY <1>10 DEF InsertById
<1>11. ASSUME NEW t \in Threads, ForDogNone(t) PROVE (MediaExact /\ ReadyIsActive /\ ActiveWasReady /\ AnswersRight)'
  BY <1>11 DEF ForDogNone, Return
<1>12. ASSUME NEW t \in Threads, ForDogId(t) PROVE (MediaExact /\ ReadyIsActive /\ ActiveWasReady /\ AnswersRight)'
  BY <1>12 DEF ForDogId
<1>13. ASSUME NEW t \in Threads, ForDogGet(t) PROVE (MediaExact /\ ReadyIsActive /\ ActiveWasReady /\ AnswersRight)'
  BY <1>13 DEF ForDogGet, Return
<1>14. ASSUME NEW t \in Threads, EndGone(t) PROVE (MediaExact /\ ReadyIsActive /\ ActiveWasReady /\ AnswersRight)'
  BY <1>14 DEF EndGone, Return
<1>15. ASSUME NEW t \in Threads, EndById(t) PROVE (MediaExact /\ ReadyIsActive /\ ActiveWasReady /\ AnswersRight)'
  BY <1>15 DEF EndById
<1>16. ASSUME NEW t \in Threads, EndByDog(t) PROVE (MediaExact /\ ReadyIsActive /\ ActiveWasReady /\ AnswersRight)'
  BY <1>16 DEF EndByDog, Parties
<1>17. ASSUME NEW t \in Threads, EndMedia(t) PROVE (MediaExact /\ ReadyIsActive /\ ActiveWasReady /\ AnswersRight)'
  BY <1>17 DEF EndMedia
<1>18. ASSUME NEW t \in Threads, ReadyGone(t) PROVE (MediaExact /\ ReadyIsActive /\ ActiveWasReady /\ AnswersRight)'
  BY <1>18 DEF ReadyGone, Return
<1>19. ASSUME NEW t \in Threads, ReadyGet(t) PROVE (MediaExact /\ ReadyIsActive /\ ActiveWasReady /\ AnswersRight)'
  BY <1>19 DEF ReadyGet
<1>20. ASSUME NEW t \in Threads, ReadyRefused(t) PROVE (MediaExact /\ ReadyIsActive /\ ActiveWasReady /\ AnswersRight)'
  BY <1>20 DEF ReadyRefused, Return
<1>21. ASSUME NEW t \in Threads, ReadyFlag(t) PROVE (MediaExact /\ ReadyIsActive /\ ActiveWasReady /\ AnswersRight)'
  BY <1>21 DEF ReadyFlag, Flagged, Parties, Extra
<1>22. ASSUME NEW t \in Threads, ReadyUpdate(t) PROVE (MediaExact /\ ReadyIsActive /\ ActiveWasReady /\ AnswersRight)'
  <2>1. /\ \A j \in Ids : by_id'[j] = None <=> by_id[j] = None
        /\ \A j \in Ids : by_id[j] # None =>
              /\ Parties(by_id'[j]) = Parties(by_id[j])
              /\ by_id'[j].state = IF j = cur[t] THEN "Active" ELSE by_id[j].state
    BY <1>22, UpdateMarks
  <2>2. /\ UNCHANGED <<media, together, cur, dog, both>>
        /\ pc[t] = "ready_update" /\ pc' = [pc EXCEPT ![t] = "ready_answer"]
        /\ cur[t] \in Ids /\ cur[t] \in together
    BY <1>22 DEF ReadyUpdate
  <2>3. MediaExact'
    BY <2>1, <2>2
  <2>4. ReadyIsActive'
    BY <2>1, <2>2
  <2>5. ActiveWasReady'
    BY <2>1, <2>2
  <2>6. AnswersRight'
    BY <2>1, <2>2
  <2> QED
    BY <2>3, <2>4, <2>5, <2>6
<1>23. ASSUME NEW t \in Threads, ReadyAnswerStep(t) PROVE (MediaExact /\ ReadyIsActive /\ ActiveWasReady /\ AnswersRight)'
  BY <1>23 DEF ReadyAnswerStep, Return
<1>24. ASSUME NEW t \in Threads, InsertMediaDrop(t) PROVE (MediaExact /\ ReadyIsActive /\ ActiveWasReady /\ AnswersRight)'
  BY <1>24 DEF InsertMediaDrop
<1>25. ASSUME NEW t \in Threads, InsertReturn(t) PROVE (MediaExact /\ ReadyIsActive /\ ActiveWasReady /\ AnswersRight)'
  BY <1>25 DEF InsertReturn, Return
<1>26. ASSUME NEW t \in Threads, EndByIdDrop(t) PROVE (MediaExact /\ ReadyIsActive /\ ActiveWasReady /\ AnswersRight)'
  BY <1>26 DEF EndByIdDrop
<1>27. ASSUME NEW t \in Threads, EndReturn(t) PROVE (MediaExact /\ ReadyIsActive /\ ActiveWasReady /\ AnswersRight)'
  BY <1>27 DEF EndReturn, Return
<1>28. ASSUME NEW t \in Threads, ReadyDrop(t) PROVE (MediaExact /\ ReadyIsActive /\ ActiveWasReady /\ AnswersRight)'
  BY <1>28 DEF ReadyDrop
<1> HIDE DEF IndInv, TypeOK, PCs, HoldsDogLock, HoldsMediaLock, HoldsIdLock, Reporting, Activating, Goto,
           InFlight, Owner,
            IndexExact, OneOwner, InFlightIndexed, UnusedIsUnknown, CallerKnows,
            MediaExact, ReadyIsActive, ActiveWasReady, AnswersRight
<1> QED
  BY <1>1, <1>2, <1>3, <1>4, <1>5, <1>6, <1>7, <1>8, <1>9, <1>10, <1>11, <1>12,
     <1>13, <1>14, <1>15, <1>16, <1>17, <1>18, <1>19, <1>20, <1>21, <1>22, <1>23,
     <1>24, <1>25, <1>26, <1>27, <1>28, NextCases

\* What callers have read stays true enough.
LEMMA CallerStep ==
    ASSUME IndInv, TypeOK', [Next]_vars
    PROVE  CallerKnows'
<1> USE DEF IndInv, TypeOK, PCs, HoldsDogLock, HoldsMediaLock, HoldsIdLock, Reporting, Activating, Goto,
           InFlight, Owner,
           IndexExact, OneOwner, InFlightIndexed, UnusedIsUnknown, CallerKnows, MediaExact
<1>1. CASE UNCHANGED vars
  BY <1>1 DEF vars
<1>2. ASSUME NEW t \in Threads, NEW i \in Ids, NEW s \in Session, CallInsert(t, i, s)
      PROVE  CallerKnows'
  BY <1>2 DEF CallInsert
<1>3. ASSUME NEW t \in Threads, NEW d \in Dogs, CallForDog(t, d)
      PROVE  CallerKnows'
  BY <1>3 DEF CallForDog
<1>4. ASSUME NEW t \in Threads, NEW i \in Ids, CallEnd(t, i)
      PROVE  CallerKnows'
  BY <1>4 DEF CallEnd
<1>5. ASSUME NEW t \in Threads, NEW i \in Ids, NEW d \in Dogs, NEW r \in BOOLEAN, CallReady(t, i, d, r)
      PROVE  CallerKnows'
  BY <1>5 DEF CallReady
<1>6. ASSUME NEW t \in Threads, NEW i \in Ids, NEW x \in Instants, Extend(t, i, x)
      PROVE  CallerKnows'
  BY <1>6 DEF Extend, Session
<1>7. ASSUME NEW t \in Threads, InsertBusy(t) PROVE CallerKnows'
  BY <1>7 DEF InsertBusy, Return
<1>8. ASSUME NEW t \in Threads, InsertByDog(t) PROVE CallerKnows'
  BY <1>8 DEF InsertByDog, IsBusy, Parties
<1>9. ASSUME NEW t \in Threads, InsertMedia(t) PROVE CallerKnows'
  BY <1>9 DEF InsertMedia, Extra
<1>10. ASSUME NEW t \in Threads, InsertById(t) PROVE CallerKnows'
  BY <1>10 DEF InsertById
<1>11. ASSUME NEW t \in Threads, ForDogNone(t) PROVE CallerKnows'
  BY <1>11 DEF ForDogNone, Return
<1>12. ASSUME NEW t \in Threads, ForDogId(t) PROVE CallerKnows'
  BY <1>12 DEF ForDogId
<1>13. ASSUME NEW t \in Threads, ForDogGet(t) PROVE CallerKnows'
  BY <1>13 DEF ForDogGet, Return
<1>14. ASSUME NEW t \in Threads, EndGone(t) PROVE CallerKnows'
  BY <1>14 DEF EndGone, Return
<1>15. ASSUME NEW t \in Threads, EndById(t) PROVE CallerKnows'
  <2>1. /\ UNCHANGED <<cur, dog, together>>
        /\ pc[t] = "end" /\ pc' = [pc EXCEPT ![t] = "end_held"]
        /\ cur[t] \in Ids /\ by_id[cur[t]] # None
        /\ sess' = [sess EXCEPT ![t] = by_id[cur[t]]]
    BY <1>15 DEF EndById
  <2>2. \A u \in Threads : pc[u] = "for_dog_get" /\ cur[u] = cur[t] =>
           dog[u] \in Parties(by_id[cur[t]])
    BY <2>1 DEF AnswersRight
  <2>3. \A u \in Threads : Owner(u) => cur[u] # cur[t]
    BY <2>1
  <2>4. /\ \A u \in Threads : u # t =>
                 (Owner(u)' <=> Owner(u)) /\ pc'[u] = pc[u] /\ sess'[u] = sess[u]
        /\ \A u \in Threads : Reporting(u)' <=> Reporting(u)
        /\ \A u \in Threads : pc'[u] = "for_dog_get" <=> pc[u] = "for_dog_get"
    BY <2>1
  <2>5. \A u \in Threads : Activating(u)' => Activating(u)
    BY <1>15, <2>1 DEF EndById
  <2>6. pc'[t] = "end_held" /\ sess'[t] = by_id[cur[t]]
    BY <2>1
  <2> QED
    BY <2>1, <2>2, <2>3, <2>4, <2>5, <2>6
<1>16. ASSUME NEW t \in Threads, EndByDog(t) PROVE CallerKnows'
  BY <1>16 DEF EndByDog, Parties
<1>17. ASSUME NEW t \in Threads, EndMedia(t) PROVE CallerKnows'
  BY <1>17 DEF EndMedia
<1>18. ASSUME NEW t \in Threads, ReadyGone(t) PROVE CallerKnows'
  BY <1>18 DEF ReadyGone, Return
<1>19. ASSUME NEW t \in Threads, ReadyGet(t) PROVE CallerKnows'
  BY <1>19 DEF ReadyGet
<1>20. ASSUME NEW t \in Threads, ReadyRefused(t) PROVE CallerKnows'
  BY <1>20 DEF ReadyRefused, Return
<1>21. ASSUME NEW t \in Threads, ReadyFlag(t) PROVE CallerKnows'
  BY <1>21 DEF ReadyFlag, Flagged, Parties, Extra
<1>22. ASSUME NEW t \in Threads, ReadyUpdate(t) PROVE CallerKnows'
  BY <1>22 DEF ReadyUpdate, Session, States
<1>23. ASSUME NEW t \in Threads, ReadyAnswerStep(t) PROVE CallerKnows'
  BY <1>23 DEF ReadyAnswerStep, Return
<1>24. ASSUME NEW t \in Threads, InsertMediaDrop(t) PROVE CallerKnows'
  BY <1>24 DEF InsertMediaDrop
<1>25. ASSUME NEW t \in Threads, InsertReturn(t) PROVE CallerKnows'
  BY <1>25 DEF InsertReturn, Return
<1>26. ASSUME NEW t \in Threads, EndByIdDrop(t) PROVE CallerKnows'
  BY <1>26 DEF EndByIdDrop
<1>27. ASSUME NEW t \in Threads, EndReturn(t) PROVE CallerKnows'
  BY <1>27 DEF EndReturn, Return
<1>28. ASSUME NEW t \in Threads, ReadyDrop(t) PROVE CallerKnows'
  BY <1>28 DEF ReadyDrop
<1> HIDE DEF IndInv, TypeOK, PCs, HoldsDogLock, HoldsMediaLock, HoldsIdLock, Reporting, Activating, Goto,
           InFlight, Owner,
            IndexExact, OneOwner, InFlightIndexed, UnusedIsUnknown, CallerKnows, MediaExact
<1> QED
  BY <1>1, <1>2, <1>3, <1>4, <1>5, <1>6, <1>7, <1>8, <1>9, <1>10, <1>11, <1>12,
     <1>13, <1>14, <1>15, <1>16, <1>17, <1>18, <1>19, <1>20, <1>21, <1>22, <1>23,
     <1>24, <1>25, <1>26, <1>27, <1>28, NextCases

\* The inductive invariant holds in every reachable state.
THEOREM Invariance == Spec => []IndInv
<1>1. Init => IndInv
  BY InitIndInv
<1>2. IndInv /\ [Next]_vars => IndInv'
  BY TypeStep, IndexStep, MediaStep, CallerStep DEF IndInv
<1> QED
  BY <1>1, <1>2, PTL DEF Spec

\* Types, and each mutex is held by exactly the thread inside one of its critical
\* sections.
THEOREM TypeCorrect == Spec => []TypeOK
  BY Invariance, PTL DEF IndInv

\* A dog is in one session at most: insert's check of by_dog is enough although
\* by_id is written later and end clears by_id first.
THEOREM SessionExclusive == Spec => []OneSessionPerDog
<1>1. IndInv => OneSessionPerDog
  <2> SUFFICES ASSUME IndInv, NEW i \in Ids, NEW j \in Ids,
                      by_id[i] # None, by_id[j] # None,
                      NEW d \in Parties(by_id[i]) \cap Parties(by_id[j])
               PROVE  i = j
    BY DEF OneSessionPerDog
  <2>1. by_dog[d] = i /\ by_dog[d] = j
    BY DEF IndInv, IndexExact
  <2> QED
    BY <2>1
<1> QED
  BY <1>1, Invariance, PTL

\* No dog's entry outlives its session, and no live session is without its entries.
THEOREM NothingLeaks == Spec => []IndexExact
  BY Invariance, PTL DEF IndInv

\* A live session has its media flags, and no flags are kept for one that has ended,
\* a media report that was under way meanwhile included.
THEOREM NoFlagsLeak == Spec => []MediaExact
  BY Invariance, PTL DEF IndInv

\* Two reports that complete a session cannot both miss it: once both sides are ready
\* the session is Active, or one of the reports is about to make it so.
THEOREM ReadyMeansActive == Spec => []ReadyIsActive
  BY Invariance, PTL DEF IndInv

\* A session is Active only if both sides have been ready at one moment, however
\* the two reports interleave.
THEOREM ActiveWasAgreed == Spec => []ActiveWasReady
  BY Invariance, PTL DEF IndInv

\* What set_media_ready and for_dog answer is true of the session answered.
THEOREM AnswersCorrect == Spec => []AnswersRight
  BY Invariance, PTL DEF IndInv

\* However many threads there are and whatever they call, there is always one that no
\* other thread's guard keeps waiting: a holder of media or of by_id takes no further
\* lock, and a holder of by_dog takes only those two.
THEOREM NeverAllWait == Spec => [](InCall => \E t \in Threads : CanGo(t))
<1>1. IndInv => (InCall => \E t \in Threads : CanGo(t))
  <2> SUFFICES ASSUME IndInv, NEW t \in Threads, pc[t] # "idle"
               PROVE  \E u \in Threads : CanGo(u)
    BY DEF InCall
  <2>1. /\ dog_lock \in Threads \cup {None} /\ \A u \in Threads : dog_lock = u <=> HoldsDogLock(u)
        /\ media_lock \in Threads \cup {None} /\ \A u \in Threads : media_lock = u <=> HoldsMediaLock(u)
        /\ id_lock \in Threads \cup {None} /\ \A u \in Threads : id_lock = u <=> HoldsIdLock(u)
    BY DEF IndInv, TypeOK
  <2>2. CASE media_lock \in Threads
    BY <2>1, <2>2 DEF HoldsMediaLock, CanGo
  <2>3. CASE id_lock \in Threads
    BY <2>1, <2>3 DEF HoldsIdLock, CanGo
  <2>4. CASE media_lock = None /\ id_lock = None /\ dog_lock \in Threads
    BY <2>1, <2>4 DEF HoldsDogLock, CanGo
  <2>5. CASE media_lock = None /\ id_lock = None /\ dog_lock = None
    BY <2>5 DEF CanGo
  <2> QED BY <2>1, <2>2, <2>3, <2>4, <2>5
<1> QED BY <1>1, Invariance, PTL

\* No step that marks a session Active loses an extension or revives a session.
THEOREM UpdatesInPlace == Spec => UpdateInPlace
<1> DEFINE A == \A t \in Threads : pc[t] = "ready_update" /\ pc'[t] # pc[t] =>
                  \A i \in Ids :
                     /\ by_id[i] = None <=> by_id'[i] = None
                     /\ by_id[i] # None => by_id'[i].deadline = by_id[i].deadline
<1>1. IndInv /\ [Next]_vars => [A]_vars
  <2> SUFFICES ASSUME IndInv, Next, NEW t \in Threads, pc[t] = "ready_update", pc'[t] # pc[t],
                      NEW i \in Ids
               PROVE  /\ by_id[i] = None <=> by_id'[i] = None
                      /\ by_id[i] # None => by_id'[i].deadline = by_id[i].deadline
    OBVIOUS
  <2> USE DEF IndInv, TypeOK, Goto, Return
  <2>1. PICK u \in Threads :
              \/ \E j \in Ids, s \in Session : CallInsert(u, j, s)
              \/ \E d \in Dogs : CallForDog(u, d)
              \/ \E j \in Ids : CallEnd(u, j)
              \/ \E j \in Ids, d \in Dogs, r \in BOOLEAN : CallReady(u, j, d, r)
              \/ \E j \in Ids, x \in Instants : Extend(u, j, x)
              \/ InsertBusy(u) \/ InsertByDog(u) \/ InsertMedia(u) \/ InsertMediaDrop(u)
              \/ InsertById(u) \/ InsertReturn(u)
              \/ ForDogNone(u) \/ ForDogId(u) \/ ForDogGet(u)
              \/ EndGone(u) \/ EndById(u) \/ EndByIdDrop(u) \/ EndByDog(u) \/ EndMedia(u)
              \/ EndReturn(u)
              \/ ReadyGone(u) \/ ReadyGet(u) \/ ReadyRefused(u) \/ ReadyFlag(u)
              \/ ReadyDrop(u) \/ ReadyUpdate(u) \/ ReadyAnswerStep(u)
    BY NextCases
  <2>2. ~ \E j \in Ids, s \in Session : CallInsert(u, j, s)
    BY DEF CallInsert
  <2>3. ~ \E d \in Dogs : CallForDog(u, d)
    BY DEF CallForDog
  <2>4. ~ \E j \in Ids : CallEnd(u, j)
    BY DEF CallEnd
  <2>5. ~ \E j \in Ids, d \in Dogs, r \in BOOLEAN : CallReady(u, j, d, r)
    BY DEF CallReady
  <2>6. ~ \E j \in Ids, x \in Instants : Extend(u, j, x)
    BY DEF Extend
  <2>7. /\ ~ InsertBusy(u) /\ ~ InsertByDog(u) /\ ~ InsertMedia(u) /\ ~ InsertMediaDrop(u)
        /\ ~ InsertById(u) /\ ~ InsertReturn(u)
    BY DEF InsertBusy, InsertByDog, InsertMedia, InsertMediaDrop, InsertById, InsertReturn
  <2>8. ~ ForDogNone(u) /\ ~ ForDogId(u) /\ ~ ForDogGet(u)
    BY DEF ForDogNone, ForDogId, ForDogGet
  <2>9. /\ ~ EndGone(u) /\ ~ EndById(u) /\ ~ EndByIdDrop(u) /\ ~ EndByDog(u) /\ ~ EndMedia(u)
        /\ ~ EndReturn(u)
    BY DEF EndGone, EndById, EndByIdDrop, EndByDog, EndMedia, EndReturn
  <2>10. /\ ~ ReadyGone(u) /\ ~ ReadyGet(u) /\ ~ ReadyRefused(u) /\ ~ ReadyFlag(u) /\ ~ ReadyDrop(u)
         /\ ~ ReadyAnswerStep(u)
    BY DEF ReadyGone, ReadyGet, ReadyRefused, ReadyFlag, ReadyDrop, ReadyAnswerStep
  <2>11. ReadyUpdate(u) /\ u = t
    BY <2>1, <2>2, <2>3, <2>4, <2>5, <2>6, <2>7, <2>8, <2>9, <2>10 DEF ReadyUpdate
  <2> QED
    BY <2>11 DEF ReadyUpdate, Session, States
<1> QED
  BY <1>1, Invariance, PTL DEF Spec, UpdateInPlace
----------------------------------------------------------------------------
\* The refinement of SessionBook.

LEMMA SameDogsInit == Init => SameDogs
  BY DEF Init, SameDogs, Reporting

\* A step that starts no report and no end, and puts no session into by_id or
\* changes its dogs, leaves what reports know true.
LEMMA SameDogsKept ==
    ASSUME TypeOK, SameDogs,
           \A t \in Threads : Reporting(t)' => Reporting(t) /\ cur'[t] = cur[t] /\ sess'[t] = sess[t],
           \A t \in Threads : pc'[t] \in {"end_held", "end_by_dog"} =>
              pc[t] \in {"end_held", "end_by_dog"} /\ cur'[t] = cur[t] /\ sess'[t] = sess[t],
           \A i \in Ids : by_id'[i] # None =>
              /\ by_id[i] # None
              /\ by_id'[i].dog_a = by_id[i].dog_a
              /\ by_id'[i].dog_b = by_id[i].dog_b
    PROVE  SameDogs'
<1> SUFFICES ASSUME NEW t \in Threads, Reporting(t)'
             PROVE  /\ by_id'[cur'[t]] # None =>
                          /\ sess'[t].dog_a = by_id'[cur'[t]].dog_a
                          /\ sess'[t].dog_b = by_id'[cur'[t]].dog_b
                    /\ \A u \in Threads : pc'[u] \in {"end_held", "end_by_dog"} /\ cur'[u] = cur'[t] =>
                          sess'[t].dog_a = sess'[u].dog_a /\ sess'[t].dog_b = sess'[u].dog_b
  BY DEF SameDogs
<1>1. Reporting(t) /\ cur'[t] = cur[t] /\ sess'[t] = sess[t]
  OBVIOUS
<1>2. cur[t] \in Ids
  BY <1>1 DEF TypeOK, Reporting
<1> QED
  BY <1>1, <1>2 DEF SameDogs

LEMMA SameDogsStep ==
    ASSUME IndInv, IndInv', SameDogs, [Next]_vars
    PROVE  SameDogs'
<1> USE DEF Goto, Reporting
<1>0. TypeOK /\ TypeOK'
  BY DEF IndInv
<1>1. CASE UNCHANGED vars
  BY <1>1 DEF vars, SameDogs
<1>2. ASSUME NEW t \in Threads, NEW i \in Ids, NEW s \in Session, CallInsert(t, i, s) PROVE SameDogs'
  BY <1>0, <1>2, SameDogsKept DEF CallInsert, TypeOK
<1>3. ASSUME NEW t \in Threads, NEW d \in Dogs, CallForDog(t, d) PROVE SameDogs'
  BY <1>0, <1>3, SameDogsKept DEF CallForDog, TypeOK
<1>4. ASSUME NEW t \in Threads, NEW i \in Ids, CallEnd(t, i) PROVE SameDogs'
  BY <1>0, <1>4, SameDogsKept DEF CallEnd, TypeOK
<1>5. ASSUME NEW t \in Threads, NEW i \in Ids, NEW d \in Dogs, NEW r \in BOOLEAN, CallReady(t, i, d, r)
      PROVE  SameDogs'
  BY <1>0, <1>5, SameDogsKept DEF CallReady, TypeOK
<1>6. ASSUME NEW t \in Threads, NEW i \in Ids, NEW x \in Instants, Extend(t, i, x) PROVE SameDogs'
  <2>1. \A j \in Ids : by_id'[j] # None =>
           by_id[j] # None /\ by_id'[j].dog_a = by_id[j].dog_a /\ by_id'[j].dog_b = by_id[j].dog_b
    BY <1>0, <1>6 DEF Extend, TypeOK, Session
  <2>2. UNCHANGED <<pc, cur, sess>>
    BY <1>6 DEF Extend
  <2> QED
    BY <1>0, <2>1, <2>2, SameDogsKept
<1>7. ASSUME NEW t \in Threads, InsertBusy(t) PROVE SameDogs'
  BY <1>0, <1>7, SameDogsKept DEF InsertBusy, Return, TypeOK
<1>8. ASSUME NEW t \in Threads, InsertByDog(t) PROVE SameDogs'
  BY <1>0, <1>8, SameDogsKept DEF InsertByDog, TypeOK
<1>9. ASSUME NEW t \in Threads, InsertMedia(t) PROVE SameDogs'
  BY <1>0, <1>9, SameDogsKept DEF InsertMedia, TypeOK
<1>10. ASSUME NEW t \in Threads, InsertById(t) PROVE SameDogs'
  <2>1. /\ pc[t] = "insert_by_id" /\ cur[t] \in Ids
        /\ pc' = [pc EXCEPT ![t] = "insert_id_held"] /\ UNCHANGED <<cur, sess>>
        /\ by_id' = [by_id EXCEPT ![cur[t]] = sess[t]]
    BY <1>0, <1>10 DEF InsertById, TypeOK
  <2>2. \A u \in Threads : Reporting(u) => cur[u] # cur[t]
    BY <2>1 DEF IndInv, CallerKnows, Owner, InFlight
  <2> QED
    BY <1>0, <2>1, <2>2 DEF SameDogs, TypeOK
<1>11. ASSUME NEW t \in Threads, ForDogNone(t) PROVE SameDogs'
  BY <1>0, <1>11, SameDogsKept DEF ForDogNone, Return, TypeOK
<1>12. ASSUME NEW t \in Threads, ForDogId(t) PROVE SameDogs'
  BY <1>0, <1>12, SameDogsKept DEF ForDogId, TypeOK
<1>13. ASSUME NEW t \in Threads, ForDogGet(t) PROVE SameDogs'
  BY <1>0, <1>13, SameDogsKept DEF ForDogGet, Return, TypeOK
<1>14. ASSUME NEW t \in Threads, EndGone(t) PROVE SameDogs'
  BY <1>0, <1>14, SameDogsKept DEF EndGone, Return, TypeOK
<1>15. ASSUME NEW t \in Threads, EndById(t) PROVE SameDogs'
  <2>1. /\ pc[t] = "end" /\ cur[t] \in Ids /\ by_id[cur[t]] # None
        /\ pc' = [pc EXCEPT ![t] = "end_held"] /\ UNCHANGED cur
        /\ by_id' = [by_id EXCEPT ![cur[t]] = None]
        /\ sess' = [sess EXCEPT ![t] = by_id[cur[t]]]
    BY <1>0, <1>15 DEF EndById, TypeOK
  <2> QED
    BY <1>0, <2>1 DEF SameDogs, TypeOK
<1>16. ASSUME NEW t \in Threads, EndByDog(t) PROVE SameDogs'
  BY <1>0, <1>16, SameDogsKept DEF EndByDog, TypeOK
<1>17. ASSUME NEW t \in Threads, EndMedia(t) PROVE SameDogs'
  BY <1>0, <1>17, SameDogsKept DEF EndMedia, TypeOK
<1>18. ASSUME NEW t \in Threads, ReadyGone(t) PROVE SameDogs'
  BY <1>0, <1>18, SameDogsKept DEF ReadyGone, Return, TypeOK
<1>19. ASSUME NEW t \in Threads, ReadyGet(t) PROVE SameDogs'
  <2>1. /\ pc[t] = "ready" /\ cur[t] \in Ids /\ by_id[cur[t]] # None
        /\ pc' = [pc EXCEPT ![t] = "ready_media"] /\ UNCHANGED <<cur, by_id>>
        /\ sess' = [sess EXCEPT ![t] = by_id[cur[t]]]
    BY <1>0, <1>19 DEF ReadyGet, TypeOK
  <2>2. \A u \in Threads : pc[u] \in {"end_held", "end_by_dog"} => cur[u] # cur[t]
    BY <2>1 DEF IndInv, InFlightIndexed, Owner, InFlight
  <2> QED
    BY <1>0, <2>1, <2>2 DEF SameDogs, TypeOK
<1>20. ASSUME NEW t \in Threads, ReadyRefused(t) PROVE SameDogs'
  BY <1>0, <1>20, SameDogsKept DEF ReadyRefused, Return, TypeOK
<1>21. ASSUME NEW t \in Threads, ReadyFlag(t) PROVE SameDogs'
  BY <1>0, <1>21, SameDogsKept DEF ReadyFlag, TypeOK
<1>22. ASSUME NEW t \in Threads, ReadyUpdate(t) PROVE SameDogs'
  <2>1. \A j \in Ids : by_id'[j] # None =>
           by_id[j] # None /\ by_id'[j].dog_a = by_id[j].dog_a /\ by_id'[j].dog_b = by_id[j].dog_b
    BY <1>0, <1>22 DEF ReadyUpdate, TypeOK, Session
  <2>2. UNCHANGED <<cur, sess>> /\ pc[t] = "ready_update" /\ pc' = [pc EXCEPT ![t] = "ready_answer"]
    BY <1>22 DEF ReadyUpdate
  <2> QED
    BY <1>0, <2>1, <2>2, SameDogsKept DEF TypeOK
<1>23. ASSUME NEW t \in Threads, ReadyAnswerStep(t) PROVE SameDogs'
  BY <1>0, <1>23, SameDogsKept DEF ReadyAnswerStep, Return, TypeOK
<1>24. ASSUME NEW t \in Threads, InsertMediaDrop(t) PROVE SameDogs'
  BY <1>0, <1>24, SameDogsKept DEF InsertMediaDrop, TypeOK
<1>25. ASSUME NEW t \in Threads, InsertReturn(t) PROVE SameDogs'
  BY <1>0, <1>25, SameDogsKept DEF InsertReturn, Return, TypeOK
<1>26. ASSUME NEW t \in Threads, EndByIdDrop(t) PROVE SameDogs'
  BY <1>0, <1>26, SameDogsKept DEF EndByIdDrop, TypeOK
<1>27. ASSUME NEW t \in Threads, EndReturn(t) PROVE SameDogs'
  BY <1>0, <1>27, SameDogsKept DEF EndReturn, Return, TypeOK
<1>28. ASSUME NEW t \in Threads, ReadyDrop(t) PROVE SameDogs'
  BY <1>0, <1>28, SameDogsKept DEF ReadyDrop, TypeOK
<1> HIDE DEF Goto, Reporting
<1> QED
  BY <1>1, <1>2, <1>3, <1>4, <1>5, <1>6, <1>7, <1>8, <1>9, <1>10, <1>11, <1>12,
     <1>13, <1>14, <1>15, <1>16, <1>17, <1>18, <1>19, <1>20, <1>21, <1>22, <1>23,
     <1>24, <1>25, <1>26, <1>27, <1>28, NextCases

\* The mapping in terms of what each thread has in its hands: no two have one id.
Hands ==
    /\ Waiting = [i \in Ids |-> Waiting[i]]
    /\ Leaving = [i \in Ids |-> Leaving[i]]
    /\ \A t \in Threads : Inserting(t) => Waiting[cur[t]] = sess[t]
    /\ \A t \in Threads : Ending(t) => Leaving[cur[t]] = sess[t]
    /\ \A i \in Ids : Waiting[i] # None => \E t \in Threads : Inserting(t) /\ cur[t] = i
    /\ \A i \in Ids : Leaving[i] # None => \E t \in Threads : Ending(t) /\ cur[t] = i

LEMMA InHands == IndInv => Hands
<1> SUFFICES ASSUME IndInv PROVE Hands
  OBVIOUS
<1>0. \A t, u \in Threads :
        Inserting(t) \/ Ending(t) =>
           cur[t] \in Ids /\ ((Inserting(u) \/ Ending(u)) /\ cur[t] = cur[u] => t = u)
  BY DEF IndInv, TypeOK, PCs, OneOwner, Owner, InFlight, Inserting, Ending
<1>1. ASSUME NEW t \in Threads, Inserting(t) PROVE Waiting[cur[t]] = sess[t]
  <2>1. (CHOOSE u \in Threads : Inserting(u) /\ cur[u] = cur[t]) = t
    BY <1>0, <1>1
  <2> QED
    BY <1>0, <1>1, <2>1 DEF Waiting
<1>2. ASSUME NEW t \in Threads, Ending(t) PROVE Leaving[cur[t]] = sess[t]
  <2>1. (CHOOSE u \in Threads : Ending(u) /\ cur[u] = cur[t]) = t
    BY <1>0, <1>2
  <2> QED
    BY <1>0, <1>2, <2>1 DEF Leaving
<1> QED
  BY <1>1, <1>2 DEF Hands, Waiting, Leaving

LEMMA InHandsNext == IndInv' => Hands'
  BY InHands, PTL

LEMMA PresentOf ==
    ASSUME IndInv, Hands, NEW i \in Ids
    PROVE  /\ i \in Present <=> by_id[i] # None \/ Leaving[i] # None
           /\ by_id[i] # None => Leaving[i] = None
<1>1. \A t \in Threads : Ending(t) => sess[t] # None /\ by_id[cur[t]] = None /\ cur[t] \in Ids
  BY DEF IndInv, TypeOK, InFlightIndexed, Owner, InFlight, Ending, Reporting, PCs
<1> QED
  BY <1>1 DEF Hands, Present

\* What a step does to the book's `waiting`, `leaving` and `flags` is seen id by id.
LEMMA HandsKept ==
    ASSUME TypeOK, Hands, Hands',
           \A t \in Threads :
              /\ Inserting(t) <=> Inserting(t)'
              /\ Ending(t) <=> Ending(t)'
              /\ Inserting(t) \/ Ending(t) => cur'[t] = cur[t] /\ sess'[t] = sess[t]
    PROVE  UNCHANGED <<Waiting, Leaving>>
<1>1. \A i \in Ids : Waiting'[i] = Waiting[i]
  BY DEF Hands
<1>2. \A i \in Ids : Leaving'[i] = Leaving[i]
  BY DEF Hands
<1> QED
  BY <1>1, <1>2 DEF Hands

LEMMA BookKept ==
    ASSUME TypeOK, Hands, Hands',
           \A t \in Threads :
              /\ Inserting(t) <=> Inserting(t)'
              /\ Ending(t) <=> Ending(t)'
              /\ Inserting(t) \/ Ending(t) => cur'[t] = cur[t] /\ sess'[t] = sess[t],
           \A i \in Ids : by_id'[i] = None <=> by_id[i] = None,
           \A i \in Present : media'[i] = media[i] /\ (i \in together' <=> i \in together),
           together \subseteq Ids, together' \subseteq Ids
    PROVE  UNCHANGED <<Waiting, Leaving, Present, Flags, Agreed>>
<1>1. UNCHANGED <<Waiting, Leaving>>
  BY HandsKept
<1>2. Present' = Present
  <2> SUFFICES ASSUME NEW i \in Ids
               PROVE  (\E t \in Threads : Ending(t)' /\ cur'[t] = i) <=> (\E t \in Threads : Ending(t) /\ cur[t] = i)
    BY DEF Present
  <2> QED
    OBVIOUS
<1>3. Flags' = Flags
  BY <1>2 DEF Flags
<1>4. Agreed' = Agreed
  BY <1>2 DEF Agreed
<1> QED
  BY <1>1, <1>2, <1>3, <1>4

\* The store steps that the book does not see.
LEMMA UnseenStep ==
    ASSUME TypeOK, TypeOK', Hands, Hands', NEW t \in Threads,
           \/ \E d \in Dogs : CallForDog(t, d)
           \/ \E i \in Ids : CallEnd(t, i)
           \/ \E i \in Ids, d \in Dogs, r \in BOOLEAN : CallReady(t, i, d, r)
           \/ InsertByDog(t) \/ InsertMediaDrop(t) \/ InsertReturn(t)
           \/ ForDogNone(t) \/ ForDogId(t) \/ ForDogGet(t)
           \/ EndGone(t) \/ EndByIdDrop(t) \/ EndReturn(t)
           \/ ReadyGone(t) \/ ReadyGet(t) \/ ReadyRefused(t) \/ ReadyDrop(t) \/ ReadyAnswerStep(t)
    PROVE  UNCHANGED <<used, Waiting, by_id, Leaving, Flags, Agreed>>
<1> DEFINE Quiet == /\ UNCHANGED <<used, by_id, media, together>>
                    /\ \A u \in Threads :
                          /\ Inserting(u) <=> Inserting(u)'
                          /\ Ending(u) <=> Ending(u)'
                          /\ Inserting(u) \/ Ending(u) => cur'[u] = cur[u] /\ sess'[u] = sess[u]
<1> USE DEF Goto, Inserting, Ending
<1>1. ASSUME NEW d \in Dogs, CallForDog(t, d) PROVE Quiet
  BY <1>1 DEF CallForDog, TypeOK
<1>2. ASSUME NEW i \in Ids, CallEnd(t, i) PROVE Quiet
  BY <1>2 DEF CallEnd, TypeOK
<1>3. ASSUME NEW i \in Ids, NEW d \in Dogs, NEW r \in BOOLEAN, CallReady(t, i, d, r) PROVE Quiet
  BY <1>3 DEF CallReady, TypeOK
<1>4. ASSUME InsertByDog(t) PROVE Quiet
  BY <1>4 DEF InsertByDog, TypeOK
<1>5. ASSUME ForDogNone(t) PROVE Quiet
  BY <1>5 DEF ForDogNone, Return, TypeOK
<1>6. ASSUME ForDogId(t) PROVE Quiet
  BY <1>6 DEF ForDogId, TypeOK
<1>7. ASSUME ForDogGet(t) PROVE Quiet
  BY <1>7 DEF ForDogGet, Return, TypeOK
<1>8. ASSUME EndGone(t) PROVE Quiet
  BY <1>8 DEF EndGone, Return, TypeOK
<1>9. ASSUME ReadyGone(t) PROVE Quiet
  BY <1>9 DEF ReadyGone, Return, TypeOK
<1>10. ASSUME ReadyGet(t) PROVE Quiet
  BY <1>10 DEF ReadyGet, TypeOK
<1>11. ASSUME ReadyRefused(t) PROVE Quiet
  BY <1>11 DEF ReadyRefused, Return, TypeOK
<1>12. ASSUME ReadyAnswerStep(t) PROVE Quiet
  BY <1>12 DEF ReadyAnswerStep, Return, TypeOK
<1>13. ASSUME InsertMediaDrop(t) PROVE Quiet
  BY <1>13 DEF InsertMediaDrop, TypeOK
<1>14. ASSUME InsertReturn(t) PROVE Quiet
  BY <1>14 DEF InsertReturn, Return, TypeOK
<1>15. ASSUME EndByIdDrop(t) PROVE Quiet
  BY <1>15 DEF EndByIdDrop, TypeOK
<1>16. ASSUME EndReturn(t) PROVE Quiet
  BY <1>16 DEF EndReturn, Return, TypeOK
<1>17. ASSUME ReadyDrop(t) PROVE Quiet
  BY <1>17 DEF ReadyDrop, TypeOK
<1>18. Quiet
  BY <1>1, <1>2, <1>3, <1>4, <1>5, <1>6, <1>7, <1>8, <1>9, <1>10, <1>11, <1>12,
     <1>13, <1>14, <1>15, <1>16, <1>17
<1> QED
  BY <1>18, BookKept DEF TypeOK

LEMMA BookInit == Init => Book!Init
  BY DEF Init, Book!Init, Waiting, Leaving, Present, Flags, Agreed, Inserting, Ending

LEMMA InsertMediaUnseen ==
    ASSUME IndInv, TypeOK', Hands, Hands', NEW t \in Threads, InsertMedia(t)
    PROVE  UNCHANGED <<used, Waiting, by_id, Leaving, Flags, Agreed>>
<1>1. /\ pc[t] = "insert_media" /\ pc' = [pc EXCEPT ![t] = "insert_media_held"]
      /\ UNCHANGED <<used, by_id, together, cur, sess>>
      /\ media' = [media EXCEPT ![cur[t]] = [media_a |-> FALSE, media_b |-> FALSE]]
  BY DEF InsertMedia, Goto
<1>2. cur[t] \notin Present
  BY <1>1 DEF IndInv, InFlightIndexed, OneOwner, Owner, InFlight, Present, Ending
<1>3. \A i \in Present : media'[i] = media[i]
  BY <1>1, <1>2
<1> QED
  BY <1>1, <1>3, BookKept DEF IndInv, TypeOK, Inserting, Ending

LEMMA EndMediaUnseen ==
    ASSUME IndInv, TypeOK', Hands, Hands', NEW t \in Threads, EndMedia(t)
    PROVE  UNCHANGED <<used, Waiting, by_id, Leaving, Flags, Agreed>>
<1>1. /\ pc[t] = "end_media" /\ pc' = [pc EXCEPT ![t] = "end_media_held"]
      /\ UNCHANGED <<used, by_id, together, cur, sess>>
      /\ media' = [media EXCEPT ![cur[t]] = None]
  BY DEF EndMedia, Goto
<1>2. cur[t] \notin Present
  BY <1>1 DEF IndInv, InFlightIndexed, OneOwner, Owner, InFlight, Present, Ending
<1>3. \A i \in Present : media'[i] = media[i]
  BY <1>1, <1>2
<1> QED
  BY <1>1, <1>3, BookKept DEF IndInv, TypeOK, Inserting, Ending

\* The book counts a dog as held exactly if by_dog has it for a session that is live
\* or being ended.
LEMMA HeldIsIndexed ==
    ASSUME IndInv, Hands, NEW i \in Ids, NEW d, Book!Holds(i, d)
    PROVE  d \in Dogs /\ by_dog[d] = i /\ (by_id[i] # None \/ Leaving[i] # None)
<1>1. CASE by_id[i] # None /\ d \in Parties(by_id[i])
  BY <1>1 DEF IndInv, IndexExact, TypeOK, Session, Parties
<1>2. CASE Leaving[i] # None /\ d \in Parties(Leaving[i])
  <2>1. PICK t \in Threads : Ending(t) /\ cur[t] = i /\ Leaving[i] = sess[t]
    BY <1>2 DEF Hands
  <2>2. sess[t] \in Session
    BY <2>1 DEF IndInv, TypeOK, Ending
  <2> QED
    BY <1>2, <2>1, <2>2 DEF IndInv, InFlightIndexed, InFlight, Ending, Session, Parties
<1> QED
  BY <1>1, <1>2 DEF Book!Holds, Book!Parties, Parties

LEMMA CallInsertSeen ==
    ASSUME IndInv, IndInv', Hands, Hands',
           NEW t \in Threads, NEW i \in Ids, NEW s \in Session, CallInsert(t, i, s)
    PROVE  Book!HandOut(i, s)
<1>1. /\ pc[t] = "idle" /\ pc' = [pc EXCEPT ![t] = "insert"]
      /\ i \notin used /\ s.state = "Negotiating" /\ used' = used \cup {i}
      /\ UNCHANGED <<by_id, media, together>>
      /\ cur' = [cur EXCEPT ![t] = i] /\ sess' = [sess EXCEPT ![t] = s]
  BY DEF CallInsert, Goto
<1>2. TypeOK /\ TypeOK'
  BY DEF IndInv
<1>3. \A u \in Threads : Inserting(u) => cur[u] # i
  BY <1>1 DEF IndInv, UnusedIsUnknown, Inserting
<1>4. Waiting' = [Waiting EXCEPT ![i] = s]
  <2>1. Inserting(t)' /\ cur'[t] = i /\ sess'[t] = s /\ ~ Inserting(t)
    BY <1>1, <1>2 DEF Inserting, TypeOK
  <2>2. \A u \in Threads \ {t} : (Inserting(u)' <=> Inserting(u)) /\ cur'[u] = cur[u] /\ sess'[u] = sess[u]
    BY <1>1, <1>2 DEF Inserting, TypeOK
  <2>3. \A j \in Ids : Waiting'[j] = IF j = i THEN s ELSE Waiting[j]
    BY <2>1, <2>2 DEF Hands
  <2> QED
    BY <2>3 DEF Hands
<1>5. \A u \in Threads : /\ Ending(u)' <=> Ending(u)
                         /\ Ending(u) => cur'[u] = cur[u] /\ sess'[u] = sess[u]
  BY <1>1, <1>2 DEF Ending, TypeOK
<1>6. Leaving' = Leaving
  <2>1. \A j \in Ids : Leaving'[j] = Leaving[j]
    BY <1>5 DEF Hands
  <2> QED
    BY <2>1 DEF Hands
<1>7. Present' = Present
  BY <1>1, <1>5 DEF Present
<1>8. Flags' = Flags /\ Agreed' = Agreed
  BY <1>1, <1>7 DEF Flags, Agreed
<1> QED
  BY <1>1, <1>4, <1>6, <1>8 DEF Book!HandOut

\* A session that leaves Waiting, refused or put into by_id.
LEMMA WaitingDrop ==
    ASSUME TypeOK, TypeOK', OneOwner, Hands, Hands', NEW t \in Threads, Inserting(t), ~ Inserting(t)',
           \A u \in Threads \ {t} :
              (Inserting(u)' <=> Inserting(u)) /\ cur'[u] = cur[u] /\ sess'[u] = sess[u]
    PROVE  Waiting' = [Waiting EXCEPT ![cur[t]] = None]
<1>1. cur[t] \in Ids /\ \A u \in Threads \ {t} : Inserting(u) => cur[u] # cur[t]
  BY DEF TypeOK, OneOwner, Owner, InFlight, Inserting
<1>2. \A j \in Ids : Waiting'[j] = IF j = cur[t] THEN None ELSE Waiting[j]
  BY <1>1 DEF Hands
<1> QED
  BY <1>2 DEF Hands

LEMMA InsertBusySeen ==
    ASSUME IndInv, IndInv', Hands, Hands', NEW t \in Threads, InsertBusy(t)
    PROVE  Book!Refuse(cur[t]) /\ cur[t] \in Ids
<1>1. /\ pc[t] = "insert" /\ pc' = [pc EXCEPT ![t] = "idle"] /\ dog_lock = None
      /\ UNCHANGED <<used, by_id, media, together>>
      /\ \A u \in Threads : u # t => cur'[u] = cur[u] /\ sess'[u] = sess[u]
  BY DEF InsertBusy, Return, Goto, IndInv, TypeOK
<1>2. TypeOK /\ TypeOK' /\ cur[t] \in Ids /\ sess[t] \in Session /\ sess[t] # None
  BY <1>1 DEF IndInv, TypeOK
<1>3. Waiting[cur[t]] = sess[t]
  BY <1>1 DEF Hands, Inserting
<1>4. PICK d \in Parties(sess[t]) : by_dog[d] # None
  BY DEF InsertBusy, IsBusy
<1>5. d \in Dogs /\ by_dog[d] \in Ids
  BY <1>2, <1>4 DEF TypeOK, Session, Parties
<1>6. Book!Holds(by_dog[d], d)
  <2>1. CASE by_id[by_dog[d]] # None /\ d \in Parties(by_id[by_dog[d]])
    BY <2>1 DEF Book!Holds, Book!Parties, Parties
  <2>2. ASSUME NEW u \in Threads, InFlight(u), cur[u] = by_dog[d], d \in Parties(sess[u])
        PROVE  Book!Holds(by_dog[d], d)
    <3>1. Ending(u)
      BY <1>1, <1>2, <2>2 DEF TypeOK, HoldsDogLock, InFlight, Ending
    <3>2. Leaving[by_dog[d]] = sess[u]
      BY <2>2, <3>1 DEF Hands
    <3>3. sess[u] \in Session
      BY <1>2, <3>1 DEF TypeOK, Ending
    <3> QED
      BY <2>2, <3>2, <3>3 DEF Book!Holds, Book!Parties, Parties
  <2> QED
    BY <1>4, <1>5, <2>1, <2>2 DEF IndInv, IndexExact
<1>7. Book!Busy(cur[t])
  BY <1>3, <1>4, <1>5, <1>6 DEF Book!Busy, Book!Parties, Parties
<1>8. Waiting' = [Waiting EXCEPT ![cur[t]] = None]
  BY <1>1, <1>2, WaitingDrop DEF IndInv, Inserting, TypeOK
<1>9. \A u \in Threads : (Ending(u)' <=> Ending(u)) /\ (Ending(u) => cur'[u] = cur[u] /\ sess'[u] = sess[u])
  BY <1>1, <1>2 DEF Ending, TypeOK
<1>10. Leaving' = Leaving
  <2>1. \A j \in Ids : Leaving'[j] = Leaving[j]
    BY <1>9 DEF Hands
  <2> QED
    BY <2>1 DEF Hands
<1>11. Present' = Present
  BY <1>1, <1>9 DEF Present
<1>12. Flags' = Flags /\ Agreed' = Agreed
  BY <1>1, <1>11 DEF Flags, Agreed
<1> QED
  BY <1>1, <1>2, <1>3, <1>7, <1>8, <1>10, <1>12 DEF Book!Refuse

LEMMA InsertByIdSeen ==
    ASSUME IndInv, IndInv', Hands, Hands', NEW t \in Threads, InsertById(t)
    PROVE  Book!Insert(cur[t]) /\ cur[t] \in Ids
<1>1. /\ pc[t] = "insert_by_id" /\ pc' = [pc EXCEPT ![t] = "insert_id_held"]
      /\ UNCHANGED <<used, media, together, cur, sess>>
      /\ by_id' = [by_id EXCEPT ![cur[t]] = sess[t]]
  BY DEF InsertById, Goto
<1>2. TypeOK /\ TypeOK' /\ cur[t] \in Ids /\ sess[t] \in Session /\ sess[t] # None
  BY <1>1 DEF IndInv, TypeOK
<1>3. Waiting[cur[t]] = sess[t]
  BY <1>1 DEF Hands, Inserting
<1>4. /\ by_id[cur[t]] = None
      /\ cur[t] \notin together
      /\ \A u \in Threads : Ending(u) => cur[u] # cur[t]
  BY <1>1 DEF IndInv, InFlightIndexed, OneOwner, Owner, InFlight, Ending
<1>5. media[cur[t]] = [media_a |-> FALSE, media_b |-> FALSE]
  <2>1. media[cur[t]] # None /\ ~ media[cur[t]].media_a /\ ~ media[cur[t]].media_b
    BY <1>1 DEF IndInv, InFlightIndexed
  <2>2. media[cur[t]] \in Extra
    BY <1>2, <2>1 DEF TypeOK
  <2> QED
    BY <2>1, <2>2 DEF Extra
<1>6. ~ Book!Busy(cur[t])
  <2> SUFFICES ASSUME NEW d \in Parties(sess[t]), NEW j \in Ids, Book!Holds(j, d) PROVE FALSE
    BY <1>3 DEF Book!Busy, Book!Parties, Parties
  <2>1. by_dog[d] = j /\ (by_id[j] # None \/ Leaving[j] # None)
    BY HeldIsIndexed
  <2>2. by_dog[d] = cur[t]
    BY <1>1 DEF IndInv, InFlightIndexed, InFlight
  <2> QED
    BY <1>4, <2>1, <2>2 DEF Hands
<1>7. Waiting' = [Waiting EXCEPT ![cur[t]] = None]
  BY <1>1, <1>2, WaitingDrop DEF IndInv, Inserting, TypeOK
<1>8. \A u \in Threads : (Ending(u)' <=> Ending(u)) /\ (Ending(u) => cur'[u] = cur[u] /\ sess'[u] = sess[u])
  BY <1>1, <1>2 DEF Ending, TypeOK
<1>9. Leaving' = Leaving
  <2>1. \A j \in Ids : Leaving'[j] = Leaving[j]
    BY <1>8 DEF Hands
  <2> QED
    BY <2>1 DEF Hands
<1>10. \A i \in Ids : i \in Present' <=> i \in Present \/ i = cur[t]
  BY <1>1, <1>2, <1>8 DEF Present, TypeOK
<1>11. Flags' = [Flags EXCEPT ![cur[t]] = [media_a |-> FALSE, media_b |-> FALSE]]
  BY <1>1, <1>2, <1>5, <1>10 DEF Flags
<1>12. Agreed' = Agreed
  BY <1>1, <1>2, <1>4, <1>10 DEF Agreed, TypeOK
<1> QED
  BY <1>1, <1>2, <1>3, <1>6, <1>7, <1>9, <1>11, <1>12 DEF Book!Insert

LEMMA EndByIdSeen ==
    ASSUME IndInv, IndInv', Hands, Hands', NEW t \in Threads, EndById(t)
    PROVE  Book!End(cur[t]) /\ cur[t] \in Ids
<1>1. /\ pc[t] = "end" /\ pc' = [pc EXCEPT ![t] = "end_held"]
      /\ UNCHANGED <<used, media, together, cur>>
      /\ by_id[cur[t]] # None
      /\ by_id' = [by_id EXCEPT ![cur[t]] = None]
      /\ sess' = [sess EXCEPT ![t] = by_id[cur[t]]]
  BY DEF EndById, Goto
<1>2. TypeOK /\ TypeOK' /\ cur[t] \in Ids
  BY <1>1 DEF IndInv, TypeOK
<1>3. Waiting' = Waiting
  <2>1. \A u \in Threads : /\ Inserting(u)' <=> Inserting(u)
                           /\ Inserting(u) => sess'[u] = sess[u]
    BY <1>1, <1>2 DEF Inserting, TypeOK
  <2>2. \A j \in Ids : Waiting'[j] = Waiting[j]
    BY <1>1, <2>1 DEF Hands
  <2> QED
    BY <2>2 DEF Hands
<1>4. /\ Ending(t)' /\ ~ Ending(t) /\ sess'[t] = by_id[cur[t]]
      /\ \A u \in Threads \ {t} : (Ending(u)' <=> Ending(u)) /\ sess'[u] = sess[u]
  BY <1>1, <1>2 DEF Ending, TypeOK
<1>5. Leaving' = [Leaving EXCEPT ![cur[t]] = by_id[cur[t]]]
  <2>1. \A j \in Ids : Leaving'[j] = IF j = cur[t] THEN by_id[cur[t]] ELSE Leaving[j]
    BY <1>1, <1>2, <1>4 DEF Hands
  <2> QED
    BY <2>1 DEF Hands
<1>6. \A i \in Ids : i \in Present' <=> i \in Present
  BY <1>1, <1>2, <1>4 DEF Present, TypeOK
<1>7. Present' = Present
  BY <1>6 DEF Present
<1>8. Flags' = Flags /\ Agreed' = Agreed
  BY <1>1, <1>7 DEF Flags, Agreed
<1> QED
  BY <1>1, <1>2, <1>3, <1>5, <1>8 DEF Book!End

LEMMA EndByDogSeen ==
    ASSUME IndInv, IndInv', Hands, Hands', NEW t \in Threads, EndByDog(t)
    PROVE  Book!Release(cur[t]) /\ cur[t] \in Ids
<1>1. /\ pc[t] = "end_by_dog" /\ pc' = [pc EXCEPT ![t] = "end_media"]
      /\ UNCHANGED <<used, by_id, media, together, cur, sess>>
  BY DEF EndByDog, Goto
<1>2. TypeOK /\ TypeOK' /\ cur[t] \in Ids /\ sess[t] # None
  BY <1>1 DEF IndInv, TypeOK
<1>3. Leaving[cur[t]] # None
  BY <1>1, <1>2 DEF Hands, Ending
<1>4. Waiting' = Waiting
  <2>1. \A u \in Threads : Inserting(u)' <=> Inserting(u)
    BY <1>1, <1>2 DEF Inserting, TypeOK
  <2>2. \A j \in Ids : Waiting'[j] = Waiting[j]
    BY <1>1, <2>1 DEF Hands
  <2> QED
    BY <2>2 DEF Hands
<1>5. /\ Ending(t) /\ ~ Ending(t)'
      /\ \A u \in Threads \ {t} : (Ending(u)' <=> Ending(u)) /\ (Ending(u) => cur[u] # cur[t])
      /\ by_id[cur[t]] = None
  BY <1>1, <1>2 DEF Ending, TypeOK, IndInv, OneOwner, Owner, InFlight, InFlightIndexed
<1>6. Leaving' = [Leaving EXCEPT ![cur[t]] = None]
  <2>1. \A j \in Ids : Leaving'[j] = IF j = cur[t] THEN None ELSE Leaving[j]
    BY <1>1, <1>2, <1>5 DEF Hands
  <2> QED
    BY <2>1 DEF Hands
<1>7. \A i \in Ids : i \in Present' <=> i \in Present /\ i # cur[t]
  BY <1>1, <1>2, <1>5 DEF Present
<1>8. Flags' = [Flags EXCEPT ![cur[t]] = None]
  BY <1>1, <1>2, <1>7 DEF Flags
<1>9. Agreed' = Agreed \ {cur[t]}
  BY <1>1, <1>2, <1>7 DEF Agreed, TypeOK
<1> QED
  BY <1>1, <1>2, <1>3, <1>4, <1>6, <1>8, <1>9 DEF Book!Release

\* A report sets its flag in the book, or nothing there if its session is no longer
\* Present: end has released it and is about to remove the flags.
LEMMA ReadyFlagSeen ==
    ASSUME IndInv, IndInv', SameDogs, Hands, Hands', NEW t \in Threads, ReadyFlag(t)
    PROVE  \/ Book!Report(cur[t], dog[t], ready[t]) /\ cur[t] \in Ids /\ dog[t] \in Dogs
           \/ UNCHANGED <<used, Waiting, by_id, Leaving, Flags, Agreed>>
<1> DEFINE two == Flagged(t).media_a /\ Flagged(t).media_b
<1>1. /\ pc[t] = "ready_media"
      /\ pc' = [pc EXCEPT ![t] = "ready_held"]
      /\ media[cur[t]] # None /\ dog[t] \in Parties(sess[t])
      /\ media' = [media EXCEPT ![cur[t]] = Flagged(t)]
      /\ together' = IF two THEN together \cup {cur[t]} ELSE together
      /\ UNCHANGED <<used, by_id, cur, sess>>
  BY DEF ReadyFlag, Goto
<1> HIDE DEF two
<1>2. TypeOK /\ TypeOK' /\ cur[t] \in Ids /\ dog[t] \in Dogs /\ sess[t] \in Session
  BY <1>1 DEF IndInv, TypeOK, Reporting
<1>3. \A u \in Threads : (Inserting(u) <=> Inserting(u)') /\ (Ending(u) <=> Ending(u)')
  BY <1>1, <1>2 DEF Inserting, Ending, TypeOK
<1>4. UNCHANGED <<Waiting, Leaving>>
  BY <1>1, <1>2, <1>3, HandsKept
<1>5. Present' = Present
  BY <1>1, <1>3 DEF Present
<1>6. CASE cur[t] \notin Present
  <2>1. \A i \in Present : media'[i] = media[i] /\ (i \in together' <=> i \in together)
    BY <1>1, <1>6
  <2>2. Flags' = Flags /\ Agreed' = Agreed
    BY <1>5, <2>1 DEF Flags, Agreed
  <2> QED
    BY <1>1, <1>4, <2>2
<1>7. CASE cur[t] \in Present
  <2>1. Flags[cur[t]] = media[cur[t]]
    BY <1>2, <1>7 DEF Flags
  <2>2. /\ Book!TheSession(cur[t]).dog_a = sess[t].dog_a
        /\ Book!TheSession(cur[t]).dog_b = sess[t].dog_b
    <3>1. CASE by_id[cur[t]] # None
      BY <1>1, <3>1 DEF SameDogs, Reporting, Book!TheSession
    <3>2. CASE by_id[cur[t]] = None
      <4>1. PICK u \in Threads : Ending(u) /\ cur[u] = cur[t]
        BY <1>7, <3>2 DEF Present
      <4>2. Leaving[cur[t]] = sess[u]
        BY <4>1 DEF Hands
      <4>3. sess[t].dog_a = sess[u].dog_a /\ sess[t].dog_b = sess[u].dog_b
        BY <1>1, <4>1 DEF SameDogs, Reporting, Ending
      <4> QED
        BY <3>2, <4>2, <4>3 DEF Book!TheSession
    <3> QED
      BY <3>1, <3>2
  <2>3. Book!With(cur[t], dog[t], ready[t]) = Flagged(t)
    BY <2>1, <2>2 DEF Book!With, Flagged
  <2>4. dog[t] \in Book!Parties(Book!TheSession(cur[t]))
    BY <1>1, <2>2 DEF Book!Parties, Parties
  <2>5. Flags' = [Flags EXCEPT ![cur[t]] = Flagged(t)]
    <3>1. \A i \in Ids : media'[i] = IF i = cur[t] THEN Flagged(t) ELSE media[i]
      BY <1>1, <1>2 DEF TypeOK
    <3>2. \A i \in Ids : Flags'[i] = IF i = cur[t] THEN Flagged(t) ELSE Flags[i]
      BY <1>5, <1>7, <3>1 DEF Flags
    <3> QED
      BY <3>2 DEF Flags
  <2>6. Agreed' = IF two THEN Agreed \cup {cur[t]} ELSE Agreed
    BY <1>1, <1>5, <1>7 DEF Agreed
  <2> QED
    BY <1>1, <1>2, <1>4, <2>1, <2>3, <2>4, <2>5, <2>6 DEF Book!Report, two
<1> QED
  BY <1>6, <1>7

LEMMA ReadyUpdateSeen ==
    ASSUME IndInv, IndInv', Hands, Hands', NEW t \in Threads, ReadyUpdate(t)
    PROVE  \/ Book!Activate(cur[t]) /\ cur[t] \in Ids
           \/ UNCHANGED <<used, Waiting, by_id, Leaving, Flags, Agreed>>
<1>1. /\ pc[t] = "ready_update" /\ pc' = [pc EXCEPT ![t] = "ready_answer"]
      /\ by_id' = IF by_id[cur[t]] = None THEN by_id
                  ELSE [by_id EXCEPT ![cur[t]].state = "Active"]
      /\ UNCHANGED <<used, media, together, cur, sess>>
  BY DEF ReadyUpdate, Goto
<1>2. TypeOK /\ TypeOK' /\ cur[t] \in Ids
  BY <1>1 DEF IndInv, TypeOK
<1>3. \A i \in Ids : by_id'[i] = None <=> by_id[i] = None
  BY <1>2, UpdateMarks
<1>4. UNCHANGED <<Waiting, Leaving, Flags, Agreed>>
  BY <1>1, <1>2, <1>3, BookKept DEF TypeOK, Inserting, Ending
<1>5. CASE by_id[cur[t]] = None
  BY <1>1, <1>4, <1>5
<1>6. CASE by_id[cur[t]] # None
  <2>1. cur[t] \in Agreed
    BY <1>1, <1>2, <1>6 DEF IndInv, CallerKnows, Activating, Agreed, Present
  <2> QED
    BY <1>1, <1>2, <1>4, <1>6, <2>1 DEF Book!Activate
<1> QED
  BY <1>5, <1>6

LEMMA ExtendSeen ==
    ASSUME IndInv, IndInv', Hands, Hands',
           NEW t \in Threads, NEW i \in Ids, NEW x \in Instants, Extend(t, i, x)
    PROVE  Book!Extend(i, x)
<1>1. /\ by_id[i] # None
      /\ by_id' = [by_id EXCEPT ![i].deadline = x]
      /\ UNCHANGED <<used, media, together, pc, cur, sess>>
  BY DEF Extend
<1>2. TypeOK /\ TypeOK'
  BY DEF IndInv
<1>3. \A j \in Ids : by_id'[j] = None <=> by_id[j] = None
  BY <1>1, <1>2 DEF TypeOK, Session
<1>4. UNCHANGED <<Waiting, Leaving, Flags, Agreed>>
  BY <1>1, <1>2, <1>3, BookKept DEF TypeOK, Inserting, Ending
<1> QED
  BY <1>1, <1>4 DEF Book!Extend

\* Every step of the store is a step of the book or leaves it alone.
LEMMA BookStep ==
    ASSUME IndInv, IndInv', SameDogs, [Next]_vars
    PROVE  [Book!Next]_<<used, Waiting, by_id, Leaving, Flags, Agreed>>
<1> DEFINE Same == UNCHANGED <<used, Waiting, by_id, Leaving, Flags, Agreed>>
<1>0. Hands /\ Hands' /\ TypeOK /\ TypeOK'
  BY InHands, InHandsNext DEF IndInv
<1>1. CASE UNCHANGED vars
  BY <1>1 DEF vars, Waiting, Leaving, Flags, Agreed, Present, Inserting, Ending
<1>2. ASSUME NEW t \in Threads, NEW i \in Ids, NEW s \in Session, CallInsert(t, i, s)
      PROVE  Book!Next
  BY <1>0, <1>2, CallInsertSeen DEF Book!Next, Book!Session, Session, States
<1>3. ASSUME NEW t \in Threads, NEW i \in Ids, NEW x \in Instants, Extend(t, i, x) PROVE Book!Next
  BY <1>0, <1>3, ExtendSeen DEF Book!Next
<1>4. ASSUME NEW t \in Threads, InsertBusy(t) PROVE Book!Next
  BY <1>0, <1>4, InsertBusySeen DEF Book!Next
<1>5. ASSUME NEW t \in Threads, InsertById(t) PROVE Book!Next
  BY <1>0, <1>5, InsertByIdSeen DEF Book!Next
<1>6. ASSUME NEW t \in Threads, EndById(t) PROVE Book!Next
  BY <1>0, <1>6, EndByIdSeen DEF Book!Next
<1>7. ASSUME NEW t \in Threads, EndByDog(t) PROVE Book!Next
  BY <1>0, <1>7, EndByDogSeen DEF Book!Next
<1>8. ASSUME NEW t \in Threads, ReadyFlag(t) PROVE Book!Next \/ Same
  <2>1. ready[t] \in BOOLEAN
    BY <1>0 DEF TypeOK
  <2> QED
    BY <1>0, <1>8, <2>1, ReadyFlagSeen DEF Book!Next
<1>9. ASSUME NEW t \in Threads, ReadyUpdate(t) PROVE Book!Next \/ Same
  BY <1>0, <1>9, ReadyUpdateSeen DEF Book!Next
<1>10. ASSUME NEW t \in Threads, InsertMedia(t) PROVE Same
  BY <1>0, <1>10, InsertMediaUnseen
<1>11. ASSUME NEW t \in Threads, EndMedia(t) PROVE Same
  BY <1>0, <1>11, EndMediaUnseen
<1>12. ASSUME NEW t \in Threads,
              \/ \E d \in Dogs : CallForDog(t, d)
              \/ \E i \in Ids : CallEnd(t, i)
              \/ \E i \in Ids, d \in Dogs, r \in BOOLEAN : CallReady(t, i, d, r)
              \/ InsertByDog(t) \/ InsertMediaDrop(t) \/ InsertReturn(t)
              \/ ForDogNone(t) \/ ForDogId(t) \/ ForDogGet(t)
              \/ EndGone(t) \/ EndByIdDrop(t) \/ EndReturn(t)
              \/ ReadyGone(t) \/ ReadyGet(t) \/ ReadyRefused(t) \/ ReadyDrop(t) \/ ReadyAnswerStep(t)
       PROVE  Same
  BY <1>0, <1>12, UnseenStep
<1> QED
  BY <1>1, <1>2, <1>3, <1>4, <1>5, <1>6, <1>7, <1>8, <1>9, <1>10, <1>11, <1>12, NextCases

\* The store implements SessionBook: its operations, which take three mutexes one after
\* the other, look as if each took effect at one moment, a media report at two.
THEOREM StoreImplementsBook == Spec => Linearizable
<1>1. Init => Book!Init /\ SameDogs
  BY BookInit, SameDogsInit
<1>2. IndInv /\ IndInv' /\ SameDogs /\ [Next]_vars => SameDogs'
  BY SameDogsStep
<1>3. IndInv /\ IndInv' /\ SameDogs /\ [Next]_vars =>
         [Book!Next]_<<used, Waiting, by_id, Leaving, Flags, Agreed>>
  BY BookStep
<1> QED
  BY <1>1, <1>2, <1>3, Invariance, PTL DEF Spec, Linearizable, Book!Spec, Book!vars

=============================================================================
