------------------------------ MODULE Presence ------------------------------
(***************************************************************************)
(* How the server learns that a dog is on its mat: the loop of a terminal  *)
(* (edge/canis-edge/src/main.rs, publish_now), which feeds PresenceFilter  *)
(* and reports its level; the HTTP requests that carry the reports; and    *)
(* PresenceStore (crates/db/src/memory.rs), which answers for a dog as     *)
(* long as its last report is fresh.  A terminal or the server may stop    *)
(* and start again, a request or its answer may be lost or never end, and  *)
(* a terminal's clock may be off.                                          *)
(*                                                                         *)
(* A tick is one pause of the loop (100 ms).  Only ages are kept: nothing  *)
(* depends on the time of day.                                             *)
(***************************************************************************)
EXTENDS PresenceFilter

CONSTANTS
    Every,      \* publish_ms, in ticks
    TTL,        \* PRESENCE_TTL_MS
    Delay,      \* assumed: a request that arrives is served within this time
    MaxSkew,    \* assumed: how far a terminal's clock may be off
    MaxSeq,     \* bound: sequence numbers are counted no further
    None

ASSUME PresenceAssumption ==
    /\ Every \in Nat \ {0} /\ TTL \in Nat /\ Delay \in Nat /\ MaxSkew \in Nat
    /\ MaxSeq \in Nat \ {0}
    /\ Every + 2 * Delay + MaxSkew <= TTL  \* a report lasts until the next one is there

VARIABLES
    skew,       \* the terminal's clock minus the server's
    pc,         \* where the terminal's loop is
    elapsed,    \* passes of the loop since the last one that was due to publish
    seq,        \* EdgeAgent.seq
    flight,     \* the reports the server has yet to store
    entry,      \* the dog's entry in PresenceStore, or None
    last_sign   \* history: ticks since the loop last saw the dog or was blind

link == <<skew, pc, elapsed, seq, flight, entry>>
vars == <<filter, link, last_sign>>

\* How long ago the mat last showed a dog that is seen present, at most: the age
\* of a fresh report, and the passes without the dog that Exit allows before it,
\* held up by the requests that are due and by one for a flip.
Reach == TTL + MaxSkew + Exit + Delay * (1 + Exit \div Every)

Oldest == TTL + MaxSkew + 1

\* `own` tells the reports of this start of the terminal from those of an earlier one.
Report == [present: BOOLEAN, seq: 1..MaxSeq, made: 0..Delay, own: BOOLEAN]
Entry == [present: BOOLEAN, seq: 1..MaxSeq, made: 0..Oldest]

Init ==
    /\ FilterInit
    /\ skew \in (- MaxSkew)..MaxSkew
    /\ pc = "ready"
    /\ elapsed = 0
    /\ seq = 0
    /\ flight = {}
    /\ entry = None
    /\ last_sign = Reach + 1

----------------------------------------------------------------------------
\* The terminal's loop

\* Nothing is published by the clock.
AfterIngestFlipOnly == IF present' # present THEN "flip" ELSE "sleep"

\* A flip is reported, and then what is due is, which is the same once more.
AfterFlip == IF elapsed = 0 THEN "due" ELSE "sleep"
AfterIngest == IF present' # present THEN "flip" ELSE AfterFlip

Ingest(s) ==
    /\ pc = "ready"
    /\ Update(s, 1)
    /\ pc' = AfterIngest
    /\ last_sign' = IF RawPresent(s) THEN 0 ELSE last_sign
    /\ UNCHANGED <<skew, elapsed, seq, flight, entry>>

\* The chunk holds no sample.
Blind ==
    /\ pc = "ready"
    /\ Pass(1)
    /\ pc' = AfterIngest
    /\ last_sign' = 0
    /\ UNCHANGED <<skew, elapsed, seq, flight, entry>>

\* The report has the number the next one is to have.
PublishOld(from, to) ==
    /\ pc = from
    /\ pc' = to
    /\ seq' = IF seq = MaxSeq THEN seq ELSE seq + 1
    /\ flight' = flight \cup {[present |-> present, seq |-> seq, made |-> 0, own |-> TRUE]}
    /\ UNCHANGED <<filter, skew, elapsed, entry, last_sign>>

\* next_report and the request, whose answer the loop waits for.
Publish(from, to) ==
    /\ pc = from
    /\ pc' = to
    /\ seq' = IF seq = MaxSeq THEN seq ELSE seq + 1
    /\ flight' = flight \cup {[present |-> present, seq |-> seq', made |-> 0, own |-> TRUE]}
    /\ UNCHANGED <<filter, skew, elapsed, entry, last_sign>>

Answered == IF pc = "flip_sent" THEN AfterFlip ELSE "sleep"
Awaiting == pc \in {"flip_sent", "due_sent"}

\* A request that fails ends the process, and so may anything else.  A report on
\* its way may still arrive.
Crash ==
    /\ pc \notin {"down", "off"}
    /\ pc' = "down"
    /\ present' = FALSE /\ raw' = FALSE /\ held' = 0 /\ gap' = 0
    /\ dog_past' = Cap /\ empty_past' = 0
    /\ elapsed' = 0
    /\ seq' = 0
    /\ flight' = {[r EXCEPT !.own = FALSE] : r \in flight}
    /\ UNCHANGED <<skew, entry, last_sign>>

Boot ==
    /\ pc = "off"
    /\ pc' = "ready"
    /\ UNCHANGED <<filter, skew, elapsed, seq, flight, entry, last_sign>>

----------------------------------------------------------------------------
\* The network and the server

\* PresenceStore::upsert
Upsert(r) ==
    IF entry # None /\ r.seq < entry.seq THEN entry
    ELSE [present |-> r.present, seq |-> r.seq, made |-> r.made]

\* post_presence.  The answer may be lost, and then the terminal waits for good:
\* its client has no timeout.
Deliver(r) ==
    /\ r \in flight
    /\ flight' = flight \ {r}
    /\ entry' = Upsert(r)
    /\ IF r.own THEN pc' \in {pc, Answered} ELSE UNCHANGED pc
    /\ UNCHANGED <<filter, skew, elapsed, seq, last_sign>>

Lose(r) ==
    /\ r \in flight
    /\ flight' = flight \ {r}
    /\ UNCHANGED <<filter, skew, pc, elapsed, seq, entry, last_sign>>

\* The presence table is not loaded at a start.
ServerRestart ==
    /\ entry' = None
    /\ flight' = {}
    /\ UNCHANGED <<filter, skew, pc, elapsed, seq, last_sign>>

Later(n, most) == IF n < most THEN n + 1 ELSE n

\* The loop computes in no time; a request in flight is served within Delay.
Tick ==
    /\ pc \notin {"ready", "flip", "due"}
    /\ \A r \in flight : r.made < Delay
    /\ flight' = {[r EXCEPT !.made = @ + 1] : r \in flight}
    /\ entry' = IF entry = None THEN None ELSE [entry EXCEPT !.made = Later(@, Oldest)]
    /\ last_sign' = Later(last_sign, Reach + 1)
    /\ pc' = CASE pc = "sleep" -> "ready" [] pc = "down" -> "off" [] OTHER -> pc
    /\ elapsed' = IF pc = "sleep" THEN (elapsed + 1) % Every ELSE elapsed
    /\ UNCHANGED <<filter, skew, seq>>

\* A report counts as present however old it is.
FreshAlways(made) == TRUE

\* PresenceStore::get: a report from the future is as fresh as can be.
Fresh(made) == (IF made < skew THEN 0 ELSE made - skew) <= TTL

Seen == entry # None /\ entry.present /\ Fresh(entry.made)

Loop ==
    \/ \E s \in Sample : Ingest(s)
    \/ Blind
    \/ Publish("flip", "flip_sent")
    \/ Publish("due", "due_sent")

Next ==
    \/ Loop \/ Crash \/ Boot
    \/ \E r \in flight : Deliver(r) \/ Lose(r)
    \/ ServerRestart \/ Tick

Spec == Init /\ [][Next]_vars

\* The loop and the server's handlers run, and time passes.
FairSpec ==
    /\ Spec
    /\ WF_vars(Loop)
    /\ WF_vars(\E r \in flight : Deliver(r))
    /\ WF_vars(Tick)

----------------------------------------------------------------------------
PCs == {"ready", "flip", "flip_sent", "due", "due_sent", "sleep", "down", "off"}

\* The parts hold records, and at most one report is the running terminal's own.
TypeOK ==
    /\ FilterTypeOK
    /\ skew \in (- MaxSkew)..MaxSkew
    /\ pc \in PCs
    /\ elapsed \in 0..(Every - 1)
    /\ seq \in 0..MaxSeq
    /\ flight \subseteq Report
    /\ \A r1, r2 \in flight : r1.own /\ r2.own => Awaiting /\ r1 = r2
    /\ entry \in Entry \cup {None}
    /\ last_sign \in 0..(Reach + 1)

\* Whoever is seen present was on the mat within Reach, or the terminal's sensors
\* were silent meanwhile: not a crash of the terminal, nor a late report of an
\* earlier start, nor a clock ahead keeps a dog present for longer.
SeenWasThere == Seen => last_sign <= Reach

\* A dog that stays, at a terminal whose loop goes on, is seen present for good,
\* whatever the terminal's and the server's earlier starts have left behind.
ThereIsSeen ==
    (<>[]present /\ []<>(pc = "sleep") /\ <>[](entry # None)) => <>[]Seen

\* A terminal that reports no presence any more, because the dog has left, it
\* has stopped, or it waits for an answer that never comes, is not seen for good.
GoneIsUnseen == <>[](~ present \/ Awaiting) => <>[](~ Seen)
=============================================================================
