--------------------------- MODULE PresenceProofs ---------------------------
(***************************************************************************)
(* The debounce holds its two windows for every length of them and every   *)
(* spacing of the samples, on its own and in the loop of a terminal that   *)
(* may stop and start again; a terminal has at most one report of its own  *)
(* on the way; and who is seen present was on the mat within Reach.        *)
(***************************************************************************)
EXTENDS Presence, TLAPS

\* A level has been held for no longer than the other one is past.
HeldWithin == IF raw THEN held <= empty_past ELSE held <= dog_past

FilterInv == FilterTypeOK /\ HeldWithin

Flip == present' # present => IF present' THEN empty_past' >= Enter ELSE dog_past' >= Exit

\* Durations stay within Cap.
LEMMA CappedBounds == ASSUME NEW n \in Nat PROVE Capped(n) \in 0..Cap
BY FilterAssumption DEF Capped

LEMMA FilterStarts == FilterInit => FilterInv
<1>1. 0 \in 0..Cap /\ Cap \in 0..Cap /\ 0 <= Cap
    BY FilterAssumption
<1> QED BY <1>1, Zenon DEF FilterInit, FilterInv, FilterTypeOK, HeldWithin

\* A chunk without a sample moves gap alone.
LEMMA PassKeeps ==
    ASSUME FilterInv, NEW dt \in Nat, Pass(dt)
    PROVE  FilterInv' /\ Flip
<1>1. gap' \in 0..Cap
    BY CappedBounds DEF FilterInv, FilterTypeOK, Pass
<1> QED BY <1>1 DEF FilterInv, FilterTypeOK, HeldWithin, Pass, Flip

\* A sample either starts the count of its level or adds the same time to it and
\* to what has passed since the other level.
LEMMA UpdateKeeps ==
    ASSUME FilterInv, NEW s \in Sample, NEW dt \in Nat, Update(s, dt)
    PROVE  FilterInv' /\ Flip
<1>1. /\ raw \in BOOLEAN /\ present \in BOOLEAN /\ held \in 0..Cap /\ gap \in 0..Cap
      /\ dog_past \in 0..Cap /\ empty_past \in 0..Cap
    BY DEF FilterInv, FilterTypeOK
<1>2. /\ raw' = RawPresent(s) /\ gap' = 0
      /\ held' = IF RawPresent(s) # raw THEN 0 ELSE Capped(held + gap + dt)
      /\ dog_past' = IF RawPresent(s) THEN 0 ELSE Capped(dog_past + gap + dt)
      /\ empty_past' = IF RawPresent(s) THEN Capped(empty_past + gap + dt) ELSE 0
      /\ present' = IF RawPresent(s) THEN present \/ held' >= Enter ELSE present /\ held' < Exit
    BY Zenon DEF Update, Held
<1>3. CASE RawPresent(s)
    <2>1. RawPresent(s) = TRUE
        BY <1>3, Zenon DEF RawPresent
    <2>2. /\ raw' = TRUE /\ dog_past' = 0
          /\ empty_past' = Capped(empty_past + gap + dt)
        BY <1>2, <2>1, Zenon
    <2>3. held' \in 0..Cap /\ empty_past' \in 0..Cap /\ held' <= empty_past'
        <3>1. CASE raw = TRUE
            <4>1. held' = Capped(held + gap + dt) /\ held <= empty_past
                BY <1>2, <2>1, <3>1, Zenon DEF FilterInv, HeldWithin
            <4> QED BY <1>1, <2>2, <4>1, FilterAssumption DEF Capped
        <3>2. CASE raw = FALSE
            <4>1. held' = 0
                BY <1>2, <2>1, <3>2, Zenon
            <4> QED BY <1>1, <2>2, <4>1, FilterAssumption DEF Capped
        <3> QED BY <1>1, <3>1, <3>2, Zenon
    <2>4. FilterInv'
        <3>1. present' \in BOOLEAN
            BY <1>2, <2>1, Zenon
        <3>2. HeldWithin'
            BY <2>2, <2>3, Zenon DEF HeldWithin
        <3>3. raw' \in BOOLEAN
            BY <2>2, Zenon
        <3>4. 0 \in 0..Cap
            BY FilterAssumption
        <3> QED BY <1>2, <2>2, <2>3, <3>1, <3>2, <3>3, <3>4, Zenon DEF FilterInv, FilterTypeOK
    <2>5. Flip
        <3>1. present' = (present \/ held' >= Enter)
            BY <1>2, <2>1, Zenon
        <3>2. held' >= Enter => empty_past' >= Enter
            BY <2>3, FilterAssumption
        <3> QED BY <1>1, <3>1, <3>2, Zenon DEF Flip
    <2> QED BY <2>4, <2>5
<1>4. CASE ~ RawPresent(s)
    <2>1. RawPresent(s) = FALSE
        BY <1>4, Zenon DEF RawPresent
    <2>2. /\ raw' = FALSE /\ empty_past' = 0
          /\ dog_past' = Capped(dog_past + gap + dt)
        BY <1>2, <2>1, Zenon
    <2>3. held' \in 0..Cap /\ dog_past' \in 0..Cap /\ held' <= dog_past'
        <3>1. CASE raw = FALSE
            <4>1. held' = Capped(held + gap + dt) /\ held <= dog_past
                BY <1>2, <2>1, <3>1, Zenon DEF FilterInv, HeldWithin
            <4> QED BY <1>1, <2>2, <4>1, FilterAssumption DEF Capped
        <3>2. CASE raw = TRUE
            <4>1. held' = 0
                BY <1>2, <2>1, <3>2, Zenon
            <4> QED BY <1>1, <2>2, <4>1, FilterAssumption DEF Capped
        <3> QED BY <1>1, <3>1, <3>2, Zenon
    <2>4. FilterInv'
        <3>1. present' \in BOOLEAN
            BY <1>2, <2>1, Zenon
        <3>2. HeldWithin'
            BY <2>2, <2>3, Zenon DEF HeldWithin
        <3>3. raw' \in BOOLEAN
            BY <2>2, Zenon
        <3>4. 0 \in 0..Cap
            BY FilterAssumption
        <3> QED BY <1>2, <2>2, <2>3, <3>1, <3>2, <3>3, <3>4, Zenon DEF FilterInv, FilterTypeOK
    <2>5. Flip
        <3>1. present' = (present /\ held' < Exit)
            BY <1>2, <2>1, Zenon
        <3>2. held' < Exit \/ dog_past' >= Exit
            BY <2>3, FilterAssumption
        <3> QED BY <1>1, <3>1, <3>2, Zenon DEF Flip
    <2> QED BY <2>4, <2>5
<1> QED BY <1>3, <1>4

\* The filter alone, whatever the chunks and samples that come.
THEOREM FilterHoldsItsWindows == FilterSpec => FlipsHeld
<1>1. FilterInv /\ [FilterNext]_filter => FilterInv' /\ [Flip]_filter
    <2> SUFFICES ASSUME FilterInv, [FilterNext]_filter
                 PROVE  FilterInv' /\ [Flip]_filter
        OBVIOUS
    <2>1. CASE FilterNext
        BY <2>1, PassKeeps, UpdateKeeps DEF FilterNext
    <2>2. CASE UNCHANGED filter
        BY <2>2 DEF filter, FilterInv, FilterTypeOK, HeldWithin
    <2> QED BY <2>1, <2>2
<1> QED BY FilterStarts, <1>1, PTL DEF FilterSpec, FlipsHeld, Flip

----------------------------------------------------------------------------
\* A terminal that stops leaves the filter of the next start as good as new.
LEMMA CrashKeeps == ASSUME FilterInv, Crash PROVE FilterInv' /\ Flip
<1>1. /\ present' = FALSE /\ raw' = FALSE /\ held' = 0 /\ gap' = 0
      /\ dog_past' = Cap /\ empty_past' = 0
    BY Zenon DEF Crash
<1>2. 0 \in 0..Cap /\ Cap \in 0..Cap /\ 0 <= Cap /\ Cap >= Exit
    BY FilterAssumption
<1> QED BY <1>1, <1>2, Zenon DEF FilterInv, FilterTypeOK, HeldWithin, Flip

\* Every step of the terminal is one of the filter, or leaves it alone, or stops it.
LEMMA StepKeeps ==
    ASSUME FilterInv, [Next]_vars
    PROVE  FilterInv' /\ [Flip]_filter
<1>1. CASE Crash
    BY <1>1, CrashKeeps
<1>2. ASSUME NEW s \in Sample, Ingest(s) PROVE FilterInv' /\ Flip
    BY <1>2, UpdateKeeps DEF Ingest
<1>3. CASE Blind
    BY <1>3, PassKeeps DEF Blind
<1>4. CASE UNCHANGED filter
    BY <1>4 DEF filter, FilterInv, FilterTypeOK, HeldWithin
<1>5. [Next]_vars => Crash \/ (\E s \in Sample : Ingest(s)) \/ Blind \/ UNCHANGED filter
    BY DEF Next, Loop, Publish, Boot, Deliver, Lose, ServerRestart, Tick, vars
<1> QED BY <1>1, <1>2, <1>3, <1>4, <1>5

\* What a terminal reports of its mat has held for a whole window, across stops
\* and starts of the terminal.
THEOREM TerminalHoldsItsWindows == Spec => FlipsHeld
<1>1. Init => FilterInv
    BY FilterStarts DEF Init
<1> QED BY <1>1, StepKeeps, PTL DEF Spec, FlipsHeld, Flip

----------------------------------------------------------------------------
\* The parts of TypeOK.
LinkTypeOK ==
    /\ skew \in (- MaxSkew)..MaxSkew
    /\ elapsed \in 0..(Every - 1)
    /\ seq \in 0..MaxSeq
    /\ entry \in Entry \cup {None}
    /\ last_sign \in 0..(Reach + 1)

OneOwn == \A r1, r2 \in flight : r1.own /\ r2.own => Awaiting /\ r1 = r2

LEMMA TypeParts ==
    TypeOK <=> FilterTypeOK /\ LinkTypeOK /\ pc \in PCs /\ flight \subseteq Report /\ OneOwn
BY DEF TypeOK, LinkTypeOK, OneOwn

LEMMA ReachInNat == Reach \in Nat /\ Oldest \in Nat
BY FilterAssumption, PresenceAssumption DEF Reach, Oldest

\* Ages of entries and counts grow to their bound and no further.
LEMMA LaterBounds ==
    ASSUME NEW most \in Nat, NEW n \in 0..most
    PROVE  Later(n, most) \in 0..most
BY DEF Later

LEMMA InitTyped == Init => TypeOK
<1>1. Init => FilterTypeOK
    BY FilterStarts DEF Init, FilterInv
<1>2. Init => LinkTypeOK
    BY ReachInNat, PresenceAssumption DEF Init, LinkTypeOK
<1>3. Init => pc \in PCs /\ flight \subseteq Report /\ OneOwn
    BY DEF Init, PCs, OneOwn
<1> QED BY <1>1, <1>2, <1>3, TypeParts

\* Steps of the terminal that send nothing.
LEMMA LocalTyped ==
    ASSUME TypeOK, FilterTypeOK', ~ Awaiting, pc' \in PCs,
           UNCHANGED <<skew, elapsed, seq, flight, entry>>, last_sign' \in {0, last_sign}
    PROVE  TypeOK'
<1>1. LinkTypeOK'
    BY ReachInNat, TypeParts DEF LinkTypeOK
<1>2. flight' \subseteq Report /\ OneOwn'
    BY TypeParts DEF OneOwn
<1> QED BY <1>1, <1>2, Zenon DEF TypeOK, LinkTypeOK, OneOwn

LEMMA PublishTyped ==
    ASSUME TypeOK, NEW from, NEW to, Publish(from, to),
           from \notin {"flip_sent", "due_sent"}, to \in {"flip_sent", "due_sent"}
    PROVE  TypeOK'
<1>1. seq' \in 1..MaxSeq
    BY TypeParts, PresenceAssumption DEF Publish, LinkTypeOK
<1> DEFINE new == [present |-> present, seq |-> seq', made |-> 0, own |-> TRUE]
<1>2. new \in Report
    BY <1>1, TypeParts, PresenceAssumption DEF Report, FilterTypeOK
<1>3. \A r \in flight : ~ r.own
    BY TypeParts DEF OneOwn, Awaiting, Publish
<1>4. flight' = flight \cup {new}
    BY DEF Publish
<1>5. OneOwn'
    BY <1>3, <1>4 DEF OneOwn, Awaiting, Publish
<1>6. LinkTypeOK' /\ FilterTypeOK' /\ pc' \in PCs
    BY <1>1, TypeParts DEF Publish, LinkTypeOK, FilterTypeOK, filter, PCs
<1> QED BY <1>2, <1>4, <1>5, <1>6, Zenon DEF TypeOK, LinkTypeOK, OneOwn

LEMMA CrashTyped == ASSUME TypeOK, Crash PROVE TypeOK'
<1>1. \A q \in flight' : \E r \in flight : q = [r EXCEPT !.own = FALSE]
    BY Zenon DEF Crash
<1>2. \A r \in Report : [r EXCEPT !.own = FALSE] \in Report /\ ~ [r EXCEPT !.own = FALSE].own
    BY DEF Report
<1>3. \A q \in flight' : q \in Report /\ ~ q.own
    BY <1>1, <1>2, TypeParts, Zenon
<1>4. /\ present' = FALSE /\ raw' = FALSE /\ held' = 0 /\ gap' = 0
      /\ dog_past' = Cap /\ empty_past' = 0 /\ pc' = "down" /\ elapsed' = 0 /\ seq' = 0
      /\ UNCHANGED <<skew, entry, last_sign>>
    BY Zenon DEF Crash
<1>5. 0 \in 0..Cap /\ Cap \in 0..Cap
    BY FilterAssumption
<1>6. FilterTypeOK'
    BY <1>4, <1>5, Zenon DEF FilterTypeOK
<1>7. LinkTypeOK' /\ pc' \in PCs
    BY <1>4, TypeParts, PresenceAssumption DEF LinkTypeOK, PCs
<1> QED BY <1>3, <1>6, <1>7, Zenon DEF TypeOK, LinkTypeOK, OneOwn

\* A report is stored, or lost: in both cases it is on its way no more.
LEMMA DeliverTyped == ASSUME TypeOK, NEW r, Deliver(r) PROVE TypeOK'
<1>1. r \in flight /\ flight' = flight \ {r} /\ r \in Report
    BY TypeParts DEF Deliver
<1>2. Upsert(r) \in Entry \cup {None}
    BY <1>1, TypeParts, PresenceAssumption DEF Upsert, Entry, Report, LinkTypeOK, Oldest
<1>3. FilterTypeOK' /\ LinkTypeOK'
    BY <1>2, TypeParts DEF Deliver, filter, FilterTypeOK, LinkTypeOK
<1>4. pc' \in PCs
    BY TypeParts DEF Deliver, Answered, AfterFlip, PCs
<1>5. OneOwn'
    BY <1>1, TypeParts DEF OneOwn, Deliver, Awaiting
<1> QED BY <1>1, <1>3, <1>4, <1>5, Zenon DEF TypeOK, LinkTypeOK, OneOwn

LEMMA LoseTyped == ASSUME TypeOK, NEW r, Lose(r) PROVE TypeOK'
<1>1. flight' \subseteq flight /\ pc' = pc
    BY DEF Lose
<1>2. FilterTypeOK' /\ LinkTypeOK'
    BY TypeParts DEF Lose, filter, FilterTypeOK, LinkTypeOK
<1>3. OneOwn'
    BY <1>1, TypeParts DEF OneOwn, Awaiting
<1> QED BY <1>1, <1>2, <1>3, Zenon DEF TypeOK, LinkTypeOK, OneOwn

LEMMA RestartTyped == ASSUME TypeOK, ServerRestart PROVE TypeOK'
<1>1. FilterTypeOK' /\ LinkTypeOK' /\ pc' = pc /\ flight' = {}
    BY TypeParts DEF ServerRestart, filter, FilterTypeOK, LinkTypeOK
<1> QED BY <1>1, Zenon DEF TypeOK, LinkTypeOK, OneOwn

\* A report on its way is younger than Delay when time passes.
LEMMA TickTyped == ASSUME TypeOK, Tick PROVE TypeOK'
<1>1. \A q \in flight' : \E r \in flight : q = [r EXCEPT !.made = @ + 1]
    BY Zenon DEF Tick
<1>2. \A r \in flight : r \in Report /\ r.made < Delay
    BY TypeParts, Zenon DEF Tick
<1>3. \A r \in Report : r.made < Delay =>
          /\ [r EXCEPT !.made = @ + 1] \in Report
          /\ [r EXCEPT !.made = @ + 1].own = r.own
    BY PresenceAssumption DEF Report
<1>4. flight' \subseteq Report
    BY <1>1, <1>2, <1>3, Zenon
<1>5. pc' \in PCs /\ (Awaiting => Awaiting')
    BY TypeParts DEF Tick, Awaiting, PCs
<1>6. ASSUME NEW q1 \in flight', NEW q2 \in flight', q1.own, q2.own
      PROVE  Awaiting' /\ q1 = q2
    <2>1. PICK r1 \in flight : q1 = [r1 EXCEPT !.made = @ + 1]
        BY <1>1
    <2>2. PICK r2 \in flight : q2 = [r2 EXCEPT !.made = @ + 1]
        BY <1>1
    <2>3. r1.own /\ r2.own
        BY <1>2, <1>3, <1>6, <2>1, <2>2, Zenon
    <2> QED BY <1>5, <2>1, <2>2, <2>3, TypeParts, Zenon DEF OneOwn
<1>7. entry' \in Entry \cup {None}
    <2>1. CASE entry = None
        BY <2>1 DEF Tick
    <2>2. CASE entry # None
        <3>1. entry \in Entry /\ entry' = [entry EXCEPT !.made = Later(@, Oldest)]
            BY <2>2, TypeParts DEF Tick, LinkTypeOK
        <3>2. Later(entry.made, Oldest) \in 0..Oldest
            BY <3>1, ReachInNat, LaterBounds DEF Entry
        <3> QED BY <3>1, <3>2 DEF Entry
    <2> QED BY <2>1, <2>2
<1>8. last_sign' \in 0..(Reach + 1)
    BY ReachInNat, LaterBounds, TypeParts DEF Tick, LinkTypeOK
<1>9. elapsed' \in 0..(Every - 1) /\ skew' = skew /\ seq' = seq
    BY TypeParts, PresenceAssumption DEF Tick, LinkTypeOK
<1>10. LinkTypeOK' /\ FilterTypeOK'
    BY <1>7, <1>8, <1>9, TypeParts DEF Tick, LinkTypeOK, filter, FilterTypeOK
<1> QED BY <1>4, <1>5, <1>6, <1>10, Zenon DEF TypeOK, LinkTypeOK, OneOwn

\* A terminal has at most one report of its own on the way, and only while it
\* waits for the answer; ages and numbers stay within their bounds.
THEOREM PresenceTyped == Spec => []TypeOK
<1> DEFINE Both == TypeOK /\ FilterInv
<1>1. Init => Both
    BY InitTyped, FilterStarts DEF Init
<1>2. Both /\ [Next]_vars => Both'
    <2> SUFFICES ASSUME TypeOK, FilterInv, [Next]_vars PROVE TypeOK' /\ FilterInv'
        OBVIOUS
    <2>1. FilterInv'
        BY StepKeeps
    <2>2. ASSUME NEW s \in Sample, Ingest(s) PROVE TypeOK'
        BY <2>1, <2>2, LocalTyped DEF Ingest, FilterInv, Awaiting, AfterIngest, AfterFlip, PCs
    <2>3. CASE Blind
        BY <2>1, <2>3, LocalTyped DEF Blind, FilterInv, Awaiting, AfterIngest, AfterFlip, PCs
    <2>4. CASE Publish("flip", "flip_sent") \/ Publish("due", "due_sent")
        BY <2>1, <2>4, PublishTyped
    <2>5. CASE Crash
        BY <2>1, <2>5, CrashTyped
    <2>6. CASE Boot
        BY <2>1, <2>6, LocalTyped DEF Boot, FilterInv, Awaiting, PCs
    <2>7. ASSUME NEW r \in flight, Deliver(r) \/ Lose(r) PROVE TypeOK'
        BY <2>7, DeliverTyped, LoseTyped
    <2>8. CASE ServerRestart
        BY <2>1, <2>8, RestartTyped
    <2>9. CASE Tick
        BY <2>1, <2>9, TickTyped
    <2>10. CASE UNCHANGED vars
        BY <2>1, <2>10 DEF vars, filter, link, TypeOK, FilterTypeOK, Awaiting
    <2> QED BY <2>1, <2>2, <2>3, <2>4, <2>5, <2>6, <2>7, <2>8, <2>9, <2>10 DEF Next, Loop
<1> QED BY <1>1, <1>2, PTL DEF Spec

----------------------------------------------------------------------------
\* How long ago the mat last showed a dog, while the terminal reports one.

\* Passes of the loop without the dog, at most.
Without == IF raw THEN 0 ELSE held + 1

\* s is the time of n passes, of one request for a flip and of those that were due,
\* of which there are no more than fit into `room` passes.
InTime(s, n, room) == \E k \in Nat : Every * k <= room /\ s <= n + Delay * (1 + k)

\* Since the pass whose number is elapsed was last a multiple of Every.
SinceDue == IF elapsed = 0 THEN 0 ELSE Every - elapsed

LoopInv ==
    present =>
        /\ pc \notin {"down", "off"}
        /\ ~ raw => held < Exit
        /\ pc = "flip" => last_sign = 0
        /\ pc = "flip_sent" => \A r \in flight : r.own => last_sign <= r.made
        /\ pc \in {"due", "due_sent"} => elapsed = 0
        /\ pc = "due" => InTime(last_sign, Without, Without)
        /\ pc = "due_sent" => \A r \in flight : r.own => InTime(last_sign - r.made, Without, Without)
        /\ pc = "sleep" => InTime(last_sign, Without, Without + Every - elapsed)
        /\ pc = "ready" => InTime(last_sign, Without + 1, Without + 1 + SinceDue)

\* When a report of the dog is made.
Bound == Exit + Delay * (1 + Exit \div Every)

ReportInv ==
    /\ \A r \in flight : r.present => last_sign <= r.made + Bound
    /\ entry # None /\ entry.present /\ entry.made < Oldest => last_sign <= entry.made + Bound

SignInv == LoopInv /\ ReportInv

LEMMA Times ==
    ASSUME NEW a \in Nat, NEW k \in Nat, NEW n \in Nat, k <= n
    PROVE  a * k <= a * n /\ a * (k + 1) = a * k + a /\ a * k \in Nat
OBVIOUS

LEMMA AtOnce ==
    ASSUME NEW s \in Int, NEW n \in Nat, NEW room \in Nat, s <= n + Delay
    PROVE  InTime(s, n, room)
<1>1. Every * 0 <= room /\ s <= n + Delay * (1 + 0)
    BY PresenceAssumption
<1> QED BY <1>1 DEF InTime

LEMMA InMoreTime ==
    ASSUME NEW s \in Int, NEW n \in Nat, NEW room \in Int, InTime(s, n, room),
           NEW s1 \in Int, NEW n1 \in Nat, NEW room1 \in Int, s1 - n1 <= s - n, room <= room1
    PROVE  InTime(s1, n1, room1)
<1>1. PICK k \in Nat : Every * k <= room /\ s <= n + Delay * (1 + k)
    BY DEF InTime
<1> DEFINE a == Every * k
           b == Delay * (1 + k)
<1>2. a \in Nat /\ b \in Nat
    BY Times, PresenceAssumption
<1>3. a <= room1 /\ s1 <= n1 + b
    <2>1. a <= room /\ s <= n + b
        BY <1>1
    <2> HIDE DEF a, b
    <2> QED BY <1>2, <2>1
<1> QED BY <1>3 DEF InTime

\* One more request that was due.
LEMMA OneMore ==
    ASSUME NEW s \in Int, NEW n \in Nat, NEW room \in Int, NEW d \in 0..Delay, InTime(s - d, n, room)
    PROVE  InTime(s, n, room + Every)
<1>1. PICK k \in Nat : Every * k <= room /\ s - d <= n + Delay * (1 + k)
    BY DEF InTime
<1> DEFINE a == Every * k
           b == Delay * (1 + k)
<1>2. /\ a \in Nat /\ b \in Nat /\ 1 + k \in Nat
      /\ Every * (k + 1) = a + Every /\ Delay * ((1 + k) + 1) = b + Delay
    BY Times, PresenceAssumption
<1>3. a <= room /\ s - d <= n + b
    BY <1>1
<1> HIDE DEF a, b
<1>4. Every * (k + 1) <= room + Every /\ s <= n + Delay * ((1 + k) + 1)
    BY <1>2, <1>3, PresenceAssumption
<1>5. Delay * ((1 + k) + 1) = Delay * (1 + (k + 1)) /\ k + 1 \in Nat
    OBVIOUS
<1> QED BY <1>4, <1>5 DEF InTime

\* The dog is not away for more than Exit passes while it is reported.
LEMMA BoundHolds ==
    ASSUME NEW s \in Int, NEW n \in 0..Exit, InTime(s, n, n)
    PROVE  s <= Bound
<1> DEFINE q == Exit \div Every
<1>1. PICK k \in Nat : Every * k <= n /\ s <= n + Delay * (1 + k)
    BY DEF InTime
<1>2. q \in Nat /\ Exit < Every * (q + 1)
    BY FilterAssumption, PresenceAssumption
<1> HIDE DEF q
<1>3. k <= q
    <2>1. SUFFICES ASSUME q + 1 <= k PROVE FALSE
        BY <1>2
    <2>2. Every * (q + 1) <= Every * k
        BY <1>2, <2>1, Times, PresenceAssumption
    <2>3. Every * (q + 1) \in Nat /\ Every * k \in Nat
        BY <1>2, Times, PresenceAssumption
    <2> QED BY <1>1, <1>2, <2>2, <2>3, FilterAssumption
<1>4. /\ Delay * (1 + k) <= Delay * (1 + q)
      /\ Delay * (1 + k) \in Nat /\ Delay * (1 + q) \in Nat
    BY <1>2, <1>3, Times, PresenceAssumption
<1>5. s <= Exit + Delay * (1 + q)
    BY <1>1, <1>4, FilterAssumption
<1> QED BY <1>5 DEF Bound, q

LEMMA BoundInNat == Bound \in Nat /\ Reach = TTL + MaxSkew + Bound /\ Oldest = TTL + MaxSkew + 1
<1>1. Exit \div Every \in Nat
    BY FilterAssumption, PresenceAssumption
<1>2. Delay * (1 + Exit \div Every) \in Nat
    BY <1>1, Times, PresenceAssumption
<1> QED BY <1>2, FilterAssumption, PresenceAssumption DEF Bound, Reach, Oldest

LEMMA TypedFacts ==
    ASSUME TypeOK
    PROVE  /\ present \in BOOLEAN /\ raw \in BOOLEAN /\ held \in Nat /\ held <= Cap /\ gap \in Nat
           /\ last_sign \in Nat /\ elapsed \in Nat /\ elapsed < Every /\ Without \in Nat /\ pc \in PCs
           /\ \A r \in flight : r.made \in 0..Delay /\ r.own \in BOOLEAN /\ r.present \in BOOLEAN
           /\ entry # None => entry.made \in 0..Oldest
<1>1. FilterTypeOK /\ LinkTypeOK /\ flight \subseteq Report /\ pc \in PCs
    BY TypeParts
<1>2. present \in BOOLEAN /\ raw \in BOOLEAN /\ held \in 0..Cap /\ gap \in 0..Cap
    BY <1>1 DEF FilterTypeOK
<1>3. /\ last_sign \in 0..(Reach + 1) /\ elapsed \in 0..(Every - 1)
      /\ entry # None => entry.made \in 0..Oldest
    BY <1>1 DEF LinkTypeOK, Entry
<1>4. \A r \in flight : r.made \in 0..Delay /\ r.own \in BOOLEAN /\ r.present \in BOOLEAN
    BY <1>1 DEF Report
<1>5. Without \in Nat
    BY <1>2, FilterAssumption DEF Without
<1> QED BY <1>1, <1>2, <1>3, <1>4, <1>5, ReachInNat, FilterAssumption, PresenceAssumption

\* Where the loop is after a pass that ended with this level.
LEMMA AfterPass ==
    ASSUME TypeOK, NEW s \in Nat, NEW n \in Nat, pc' \in {AfterFlip},
           last_sign' = s, Without' = n, elapsed' = elapsed, raw' \/ held' < Exit,
           InTime(s, n, n + SinceDue)
    PROVE  LoopInv'
<1>1. CASE elapsed = 0
    BY <1>1, TypedFacts DEF LoopInv, AfterFlip, SinceDue
<1>2. CASE elapsed # 0
    <2>1. n + SinceDue = n + Every - elapsed
        BY <1>2, TypedFacts, PresenceAssumption DEF SinceDue
    <2>2. InTime(s, n, n + Every - elapsed)
        BY <2>1
    <2> QED BY <1>2, <2>2 DEF LoopInv, AfterFlip
<1> QED BY <1>1, <1>2

LEMMA SinceDueInNat == TypeOK => SinceDue \in Nat
BY TypedFacts, PresenceAssumption DEF SinceDue

LEMMA IngestLoop ==
    ASSUME TypeOK, TypeOK', LoopInv, NEW s \in Sample, Ingest(s)
    PROVE  LoopInv'
<1> SUFFICES ASSUME present' PROVE LoopInv'
    BY DEF LoopInv
<1>0. /\ pc = "ready" /\ elapsed' = elapsed /\ pc' = AfterIngest
      /\ raw' = RawPresent(s) /\ held' = Held(RawPresent(s), 1)
      /\ present' = IF RawPresent(s) THEN present \/ held' >= Enter ELSE present /\ held' < Exit
      /\ last_sign' = IF RawPresent(s) THEN 0 ELSE last_sign
    BY Zenon DEF Ingest, Update
<1>1. CASE RawPresent(s)
    <2>1. raw' = TRUE /\ last_sign' = 0 /\ Without' = 0
        BY <1>0, <1>1, Zenon DEF RawPresent, Without
    <2>2. InTime(0, 0, 0 + SinceDue)
        BY SinceDueInNat, AtOnce, PresenceAssumption
    <2>3. CASE present' = present
        BY <1>0, <2>1, <2>2, <2>3, AfterPass DEF AfterIngest
    <2>4. CASE present' # present
        BY <1>0, <2>1, <2>4 DEF AfterIngest, LoopInv
    <2> QED BY <2>3, <2>4
<1>2. CASE ~ RawPresent(s)
    <2>1. raw' = FALSE /\ last_sign' = last_sign /\ present /\ held' < Exit
        BY <1>0, <1>2, Zenon DEF RawPresent
    <2>2. present' = present
        BY <2>1, TypedFacts
    <2>3. PICK h \in Nat : held' = h
        BY DEF TypeOK, FilterTypeOK
    <2>4. Without' = h + 1 /\ h < Exit
        BY <2>1, <2>3 DEF Without
    <2>5. Without <= h
        <3>1. CASE raw = TRUE
            BY <3>1 DEF Without
        <3>2. CASE raw = FALSE
            <4>1. h = Capped(held + gap + 1)
                BY <1>0, <2>1, <2>3, <3>2, Zenon DEF Held
            <4>2. held \in Nat /\ gap \in Nat
                BY TypedFacts
            <4>3. h >= held + 1
                BY <2>4, <4>1, <4>2, FilterAssumption DEF Capped
            <4> QED BY <3>2, <4>3 DEF Without
        <3> QED BY <3>1, <3>2, TypedFacts
    <2>6. InTime(last_sign, Without + 1, Without + 1 + SinceDue)
        BY <1>0, <2>1 DEF LoopInv
    <2>7. /\ last_sign - (h + 1) <= last_sign - (Without + 1)
          /\ Without + 1 + SinceDue <= h + 1 + SinceDue
        BY <2>5, TypedFacts, SinceDueInNat
    <2>8. InTime(last_sign, h + 1, h + 1 + SinceDue)
        BY <2>6, <2>7, InMoreTime, TypedFacts, SinceDueInNat
    <2> QED BY <1>0, <2>1, <2>2, <2>4, <2>8, AfterPass, TypedFacts DEF AfterIngest
<1> QED BY <1>1, <1>2

LEMMA BlindLoop ==
    ASSUME TypeOK, LoopInv, Blind
    PROVE  LoopInv'
<1>1. /\ pc' = AfterFlip /\ elapsed' = elapsed /\ last_sign' = 0
      /\ present' = present /\ raw' = raw /\ held' = held
    BY DEF Blind, Pass, AfterIngest
<1>2. Without' = Without /\ InTime(0, Without, Without + SinceDue)
    BY <1>1, AtOnce, TypedFacts, SinceDueInNat, PresenceAssumption DEF Without
<1>3. CASE present
    <2>1. raw' \/ held' < Exit
        BY <1>1, <1>3 DEF LoopInv
    <2> QED BY <1>1, <1>2, <2>1, AfterPass, TypedFacts
<1>4. CASE ~ present
    BY <1>1, <1>4 DEF LoopInv
<1> QED BY <1>3, <1>4

LEMMA PublishLoop ==
    ASSUME TypeOK, LoopInv, Publish("flip", "flip_sent") \/ Publish("due", "due_sent")
    PROVE  LoopInv'
<1> SUFFICES ASSUME present' PROVE LoopInv'
    BY DEF LoopInv
<1>0. UNCHANGED <<present, raw, held, elapsed, last_sign>>
    BY DEF Publish, filter
<1>1. UNCHANGED <<present, raw, held, elapsed, last_sign>> /\ Without' = Without
    BY <1>0 DEF Without
<1>2. \A r \in flight' : r.own => r.made = 0
    <2>1. \A r \in flight : ~ r.own
        BY TypeParts DEF Publish, OneOwn, Awaiting
    <2>2. \A r \in flight' : r \in flight \/ r.made = 0
        BY DEF Publish
    <2> QED BY <2>1, <2>2
<1>3. CASE Publish("flip", "flip_sent")
    <2>1. last_sign' = 0 /\ pc' = "flip_sent"
        BY <1>1, <1>3 DEF Publish, LoopInv
    <2> QED BY <1>1, <1>2, <2>1 DEF LoopInv
<1>4. CASE Publish("due", "due_sent")
    <2>1. pc' = "due_sent" /\ elapsed = 0 /\ InTime(last_sign, Without, Without)
        BY <1>1, <1>4 DEF Publish, LoopInv
    <2>2. last_sign - 0 = last_sign
        BY TypedFacts
    <2>3. \A r \in flight' : r.own => InTime(last_sign' - r.made, Without', Without')
        BY <1>1, <1>2, <2>1, <2>2
    <2> QED BY <1>1, <2>1, <2>3 DEF LoopInv
<1> QED BY <1>3, <1>4

\* What is reported at a terminal whose dog is away was seen within Bound.
LEMMA PublishReport ==
    ASSUME TypeOK, SignInv, Publish("flip", "flip_sent") \/ Publish("due", "due_sent")
    PROVE  ReportInv'
<1>1. entry' = entry /\ last_sign' = last_sign
    BY DEF Publish
<1>2. present => last_sign <= Bound
    <2>1. CASE Publish("flip", "flip_sent")
        BY <2>1, BoundInNat DEF Publish, SignInv, LoopInv
    <2>2. ASSUME Publish("due", "due_sent"), present PROVE last_sign <= Bound
        <3>1. InTime(last_sign, Without, Without) /\ (raw \/ held < Exit)
            BY <2>2 DEF Publish, SignInv, LoopInv
        <3>2. Without \in 0..Exit
            BY <3>1, TypedFacts, FilterAssumption DEF Without
        <3> QED BY <3>1, <3>2, BoundHolds, TypedFacts
    <2> QED BY <2>1, <2>2
<1>3. ASSUME NEW r \in flight', r.present PROVE last_sign <= r.made + Bound
    <2>1. CASE r \in flight
        BY <1>3, <2>1 DEF SignInv, ReportInv
    <2>2. CASE r \notin flight
        <3>1. r.present = present /\ r.made = 0
            BY <2>2 DEF Publish
        <3> QED BY <1>2, <1>3, <3>1, BoundInNat
    <2> QED BY <2>1, <2>2
<1> QED BY <1>1, <1>3 DEF ReportInv, SignInv, Bound, Oldest

\* Steps that make no report and let no time pass.
LEMMA ReportKept ==
    ASSUME TypeOK, ReportInv, last_sign' \in {0, last_sign},
           \A q \in flight' : \E r \in flight : q.made = r.made /\ q.present = r.present,
           \/ entry' \in {entry, None}
           \/ \E r \in flight : entry'.made = r.made /\ entry'.present = r.present
    PROVE  ReportInv'
<1>0. Bound \in Nat /\ last_sign \in Nat /\ last_sign' <= last_sign
    BY BoundInNat, TypedFacts
<1>1. \A r \in flight : r.present => last_sign' <= r.made + Bound
    BY <1>0, BoundInNat, TypedFacts DEF ReportInv
<1>2. entry # None /\ entry.present /\ entry.made < Oldest => last_sign' <= entry.made + Bound
    BY <1>0, BoundInNat, TypedFacts DEF ReportInv
<1>3. \A q \in flight' : q.present => last_sign' <= q.made + Bound
    BY <1>1
<1>4. entry' # None /\ entry'.present /\ entry'.made < Oldest => last_sign' <= entry'.made + Bound
    BY <1>1, <1>2
<1> QED BY <1>3, <1>4 DEF ReportInv, Bound, Oldest

LEMMA DeliverLoop ==
    ASSUME TypeOK, LoopInv, NEW r, Deliver(r)
    PROVE  LoopInv'
<1> SUFFICES ASSUME present' PROVE LoopInv'
    BY DEF LoopInv
<1>1. /\ UNCHANGED <<present, raw, held, elapsed, last_sign>> /\ Without' = Without
      /\ r \in flight /\ flight' \subseteq flight
    BY DEF Deliver, filter, Without
<1>2. CASE pc' = pc
    BY <1>1, <1>2 DEF LoopInv, SinceDue
<1>3. CASE r.own /\ pc' = Answered
    <2>1. Awaiting /\ r.made \in 0..Delay
        BY <1>1, <1>3, TypeParts, TypedFacts DEF OneOwn
    <2>2. CASE pc = "flip_sent"
        <3>1. last_sign <= r.made
            BY <1>1, <1>3, <2>2 DEF LoopInv
        <3>2. InTime(last_sign, Without, Without + SinceDue)
            BY <2>1, <3>1, AtOnce, TypedFacts, SinceDueInNat, PresenceAssumption
        <3>3. raw' \/ held' < Exit
            BY <1>1 DEF LoopInv
        <3> QED BY <1>1, <1>3, <2>2, <3>2, <3>3, AfterPass, TypedFacts DEF Answered
    <2>3. CASE pc = "due_sent"
        <3>1. InTime(last_sign - r.made, Without, Without) /\ elapsed = 0
            BY <1>1, <1>3, <2>3 DEF LoopInv
        <3>2. InTime(last_sign, Without, Without + Every)
            BY <2>1, <3>1, OneMore, TypedFacts
        <3>3. Without + Every - 0 = Without + Every
            BY TypedFacts, PresenceAssumption
        <3>4. InTime(last_sign, Without, Without + Every - elapsed) /\ pc' = "sleep"
            BY <1>3, <2>3, <3>1, <3>2, <3>3 DEF Answered
        <3> QED BY <1>1, <3>4 DEF LoopInv
    <2> QED BY <2>1, <2>2, <2>3 DEF Awaiting
<1> QED BY <1>2, <1>3 DEF Deliver

LEMMA DeliverReport ==
    ASSUME TypeOK, ReportInv, NEW r, Deliver(r)
    PROVE  ReportInv'
<1>1. r \in flight /\ flight' \subseteq flight /\ last_sign' = last_sign /\ entry' = Upsert(r)
    BY DEF Deliver
<1>2. entry' = entry \/ (entry'.made = r.made /\ entry'.present = r.present)
    BY <1>1 DEF Upsert
<1> QED BY <1>1, <1>2, ReportKept

LEMMA TickLoop ==
    ASSUME TypeOK, LoopInv, Tick
    PROVE  LoopInv'
<1> SUFFICES ASSUME present' PROVE LoopInv'
    BY DEF LoopInv
<1>1. /\ UNCHANGED <<present, raw, held>> /\ Without' = Without /\ Without \in Nat
      /\ last_sign \in Nat /\ last_sign' = Later(last_sign, Reach + 1)
      /\ \A q \in flight' : \E r \in flight : q = [r EXCEPT !.made = @ + 1]
    BY TypedFacts DEF Tick, filter, Without
<1>2. PICK s \in Nat : last_sign' = s /\ s <= last_sign + 1
    BY <1>1 DEF Later
<1>3. \A q \in flight' : q.own => \E r \in flight : r.own /\ r.made \in Nat /\ q.made = r.made + 1
    <2>1. ASSUME NEW r \in flight
          PROVE  /\ r.made \in Nat /\ [r EXCEPT !.made = @ + 1].made = r.made + 1
                 /\ [r EXCEPT !.made = @ + 1].own = r.own
        BY TypeParts DEF Report
    <2> QED BY <1>1, <2>1
<1>4. CASE pc = "flip_sent"
    <2>1. \A q \in flight' : q.own => s <= q.made
        BY <1>1, <1>2, <1>3, <1>4 DEF LoopInv
    <2> QED BY <1>1, <1>2, <1>4, <2>1 DEF LoopInv, Tick
<1>5. CASE pc = "due_sent"
    <2>1. ASSUME NEW q \in flight', q.own PROVE InTime(s - q.made, Without, Without)
        <3>1. PICK r \in flight : r.own /\ r.made \in Nat /\ q.made = r.made + 1
            BY <1>3, <2>1
        <3>2. InTime(last_sign - r.made, Without, Without)
            BY <1>1, <1>5, <3>1 DEF LoopInv
        <3>3. PICK m \in Nat : r.made = m /\ q.made = m + 1
            BY <3>1
        <3>4. s - (m + 1) <= last_sign - m /\ s - (m + 1) \in Int /\ last_sign - m \in Int
            BY <1>1, <1>2
        <3>5. InTime(last_sign - m, Without, Without)
            BY <3>2, <3>3
        <3>6. InTime(s - (m + 1), Without, Without)
            BY <1>1, <3>4, <3>5, InMoreTime
        <3> QED BY <3>3, <3>6
    <2>2. pc' = "due_sent" /\ elapsed' = elapsed
        BY <1>5 DEF Tick
    <2> QED BY <1>1, <1>2, <1>5, <2>1, <2>2 DEF LoopInv
<1>6. CASE pc = "sleep"
    <2>1. pc' = "ready" /\ elapsed' = (elapsed + 1) % Every
        BY <1>6 DEF Tick
    <2>2. /\ elapsed \in Nat /\ elapsed < Every
          /\ elapsed + 1 = Every => elapsed' = 0
          /\ elapsed + 1 < Every => elapsed' = elapsed + 1
        BY <2>1, TypedFacts, PresenceAssumption
    <2>3. InTime(last_sign, Without, Without + Every - elapsed)
        BY <1>1, <1>6 DEF LoopInv
    <2>4. SinceDue' = Every - (elapsed + 1)
        BY <2>2, PresenceAssumption DEF SinceDue
    <2>5. InTime(s, Without + 1, Without + 1 + (Every - (elapsed + 1)))
        <3>1. s - (Without + 1) <= last_sign - Without
            BY <1>1, <1>2
        <3>2. Without + Every - elapsed <= Without + 1 + (Every - (elapsed + 1))
            BY <1>1, <2>2, PresenceAssumption
        <3> QED BY <1>1, <1>2, <2>2, <2>3, <3>1, <3>2, InMoreTime, PresenceAssumption
    <2> QED BY <1>1, <1>2, <2>1, <2>4, <2>5 DEF LoopInv
<1>7. pc \notin {"down", "off"}
    BY <1>1 DEF LoopInv
<1> QED BY <1>4, <1>5, <1>6, <1>7, TypedFacts DEF Tick, PCs

LEMMA TickReport ==
    ASSUME TypeOK, ReportInv, Tick
    PROVE  ReportInv'
<1>1. Bound \in Nat /\ Oldest \in Nat /\ last_sign \in Nat
    BY BoundInNat, ReachInNat, TypedFacts
<1>2. PICK s \in Nat : last_sign' = s /\ s <= last_sign + 1
    BY <1>1 DEF Tick, Later
<1>3. ASSUME NEW q \in flight', q.present PROVE s <= q.made + Bound
    <2>1. PICK r \in flight : q = [r EXCEPT !.made = @ + 1]
        BY DEF Tick
    <2>2. r.made \in Nat /\ q.made = r.made + 1 /\ q.present = r.present
        BY <2>1, TypeParts DEF Report
    <2> QED BY <1>1, <1>2, <1>3, <2>2 DEF ReportInv
<1>4. ASSUME entry' # None, entry'.present, entry'.made < Oldest PROVE s <= entry'.made + Bound
    <2>1. entry # None /\ entry' = [entry EXCEPT !.made = Later(@, Oldest)]
        BY <1>4 DEF Tick
    <2>2. entry \in Entry
        BY <2>1, TypeParts DEF LinkTypeOK
    <2>3. entry'.made = Later(entry.made, Oldest) /\ entry'.present = entry.present /\ entry.made \in 0..Oldest
        BY <2>1, <2>2 DEF Entry
    <2>4. entry.made < Oldest /\ entry'.made = entry.made + 1
        BY <1>1, <1>4, <2>3 DEF Later
    <2> QED BY <1>1, <1>2, <1>4, <2>1, <2>3, <2>4 DEF ReportInv
<1> QED BY <1>2, <1>3, <1>4 DEF ReportInv, Bound, Oldest

LEMMA InitSign == Init => SignInv
BY DEF Init, FilterInit, SignInv, LoopInv, ReportInv

LEMMA SignStep ==
    ASSUME TypeOK, TypeOK', SignInv, [Next]_vars
    PROVE  SignInv'
<1>0. LoopInv /\ ReportInv
    BY DEF SignInv
<1>1. ASSUME NEW s \in Sample, Ingest(s) PROVE SignInv'
    <2>1. flight' = flight /\ entry' = entry /\ last_sign' \in {0, last_sign}
        BY <1>1 DEF Ingest
    <2> QED BY <1>0, <1>1, <2>1, IngestLoop, ReportKept DEF SignInv
<1>2. CASE Blind
    <2>1. flight' = flight /\ entry' = entry /\ last_sign' \in {0, last_sign}
        BY <1>2 DEF Blind
    <2> QED BY <1>0, <1>2, <2>1, BlindLoop, ReportKept DEF SignInv
<1>3. CASE Publish("flip", "flip_sent") \/ Publish("due", "due_sent")
    BY <1>0, <1>3, PublishLoop, PublishReport DEF SignInv
<1>4. CASE Crash
    <2>1. \A r \in Report : /\ [r EXCEPT !.own = FALSE].made = r.made
                            /\ [r EXCEPT !.own = FALSE].present = r.present
        BY DEF Report
    <2>2. \A q \in flight' : \E r \in flight : q.made = r.made /\ q.present = r.present
        <3>1. \A q \in flight' : \E r \in flight : q = [r EXCEPT !.own = FALSE]
            BY <1>4, Zenon DEF Crash
        <3> QED BY <2>1, <3>1, TypeParts, Zenon
    <2>3. present' = FALSE /\ entry' = entry /\ last_sign' = last_sign
        BY <1>4 DEF Crash
    <2> QED BY <1>0, <2>2, <2>3, ReportKept DEF SignInv, LoopInv
<1>5. CASE Boot
    <2>1. /\ ~ present /\ present' = present /\ flight' = flight /\ entry' = entry
          /\ last_sign' = last_sign
        BY <1>0, <1>5 DEF Boot, filter, LoopInv
    <2> QED BY <1>0, <2>1, ReportKept DEF SignInv, LoopInv
<1>6. ASSUME NEW r \in flight, Deliver(r) PROVE SignInv'
    BY <1>0, <1>6, DeliverLoop, DeliverReport DEF SignInv
<1>7. ASSUME NEW r \in flight, Lose(r) PROVE SignInv'
    <2>1. /\ UNCHANGED <<present, raw, held, pc, elapsed, last_sign>> /\ Without' = Without
          /\ flight' \subseteq flight /\ entry' = entry
        BY <1>7 DEF Lose, filter, Without
    <2> QED BY <1>0, <2>1, ReportKept DEF SignInv, LoopInv, SinceDue
<1>8. CASE ServerRestart
    <2>1. /\ UNCHANGED <<present, raw, held, pc, elapsed, last_sign>> /\ Without' = Without
          /\ flight' = {} /\ entry' = None
        BY <1>8 DEF ServerRestart, filter, Without
    <2> QED BY <1>0, <2>1, ReportKept DEF SignInv, LoopInv, SinceDue
<1>9. CASE Tick
    BY <1>0, <1>9, TickLoop, TickReport DEF SignInv
<1>10. CASE UNCHANGED vars
    <2>1. /\ UNCHANGED <<present, raw, held, pc, elapsed, last_sign, flight, entry>>
          /\ Without' = Without
        BY <1>10 DEF vars, filter, link, Without
    <2> QED BY <1>0, <2>1, ReportKept DEF SignInv, LoopInv, SinceDue
<1> QED BY <1>1, <1>2, <1>3, <1>4, <1>5, <1>6, <1>7, <1>8, <1>9, <1>10 DEF Next, Loop

\* A dog that is seen present was on its mat within Reach, or its terminal's sensors were
\* silent meanwhile, for all windows, delays and clocks, and whatever stops or is lost.
THEOREM SeenOnlyIfThere == Spec => []SeenWasThere
<1>1. TypeOK /\ SignInv => SeenWasThere
    <2> SUFFICES ASSUME TypeOK, SignInv, Seen PROVE last_sign <= Reach
        BY DEF SeenWasThere
    <2>1. entry # None /\ entry.present /\ Fresh(entry.made) /\ entry.made \in 0..Oldest
        BY TypedFacts DEF Seen
    <2>2. skew \in Int /\ skew <= MaxSkew
        BY TypeParts, PresenceAssumption DEF LinkTypeOK
    <2>3. entry.made <= TTL + MaxSkew
        BY <2>1, <2>2, PresenceAssumption, ReachInNat DEF Fresh
    <2>4. last_sign <= entry.made + Bound
        BY <2>1, <2>3, BoundInNat, PresenceAssumption DEF SignInv, ReportInv
    <2> QED BY <2>1, <2>3, <2>4, BoundInNat, TypedFacts, ReachInNat, PresenceAssumption
<1>2. TypeOK /\ TypeOK' /\ SignInv /\ [Next]_vars => SignInv'
    BY SignStep
<1> QED BY <1>1, <1>2, InitSign, PresenceTyped, PTL DEF Spec
=============================================================================
