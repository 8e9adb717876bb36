# CanisLink in TLA+

A verification project for the control plane of CanisLink: terminals through which dogs call, accept and end remote
contact (`src/README.md`), with the terminals' own software and the relay their pictures are set up through. It holds TLA+ modules that follow the Rust code, TLC configurations that check them on small
instances, and theorems about them that TLAPS checks for every instance. Paths below are relative to the repository;
`memory.rs` is `crates/db/src/memory.rs`, `sqlite.rs` is `crates/db/src/sqlite.rs` and `main.rs` is
`services/device-api/src/main.rs`.

## 1. The system

| Component | State | Operations | Modules |
|---|---|---|---|
| Invite store, `memory.rs` 102-171 | `by_id`, `open_for_dog`, `invite_times`, a mutex each | insert, get, for_dog, incoming_for, close, expire_due, record_invite, invites_last_hour | `InviteBook`, `InviteStore` |
| Session store, `memory.rs` 173-261 | `by_id`, `by_dog`, `media`, a mutex each | insert, get, for_dog, all, update, end, set_media_ready | `SessionBook`, `SessionStore` |
| Policy store, `memory.rs` 263-301 | policy of each dog | get, set, set_estop, set_social_disabled | `DeviceApi` |
| Session and policy rules, `crates/session`, `crates/policy` | none | route_invite, accept_invite, social_allowed, extend_segment, ... | `DeviceApi` (partly) |
| Control plane, `main.rs` | the stores, the SQLite pool, the event hub | one handler per HTTP route, the policy tick | `CallBook`, `DeviceApi` (partly) |
| SQLite mirror, `sqlite.rs` | tables of invites, sessions, policies, bonds, presence | save_*, delete_*, load_into | `DeviceApi` (partly) |
| Presence filter, `crates/presence`, `edge/canis-sense` | debounced level, level of the last sample and since when, a local clock | update, push_sample, push_bytes | `PresenceFilter` |
| Presence store, `memory.rs` 15-100, `main.rs` 337-353 | the last report of each dog with its `seq` and time stamp | upsert, get, is_present | `Presence` |
| Bond graph, `crates/bond` | directed weights | set_weight, mutual_eligible, candidates | as the set `Bonds` of `DeviceApi` |
| Edge agent, `edge/canis-edge`, called by `tools/sim-dog` and `tools/lab-experiment` | the filter, `seq`; UX state, last offer, session, configuration, armed | ingest_uart, next_report, publish_now; handle_intent, poll_incoming, report_media_ready, sync_active, fetch_config | `EdgeAgent` over `ControlPlane`; `Presence` |
| Frame decoder, `crates/protocol/src/mcu.rs`; MCU, `firmware/mcu-emu` | byte buffer; pending presses | encode, push, try_pop; tick_50ms | `UartLine` |
| Signaling relay, `services/signaling` | a broadcast channel per room | peer_loop | `SignalRoom` |
| Media peers, `edge/canis-media`; the portal page's `startWebRtc`, `portal-web/app.js` | peer connection, main and reader tasks | handle_signal, callbacks, timers | `MediaLink` |
| Event hub, `events.rs` | a bounded broadcast per dog | subscribe, publish | not modelled |
| Device authentication, ICE policy, stub services, Android wrapper, deployment | | | not modelled |

How they interact: a terminal sends HTTP requests; axum runs a handler per request on tokio's threads. A handler calls the
stores (shared memory, short mutexes), and after a change awaits writes to SQLite, which mirror it. Once a second the policy
tick expires invites and ends sessions. At a start `load_into` fills the stores from the tables. Events go to the terminals
over a web socket, beside the polling they do anyway. A terminal's loop reads its sensors every 100 ms, debounces them, and posts a report
when the level flips and every two seconds; the store believes a report for ten. The bytes it reads are frames the MCU wrote, samples and pressed pads; a pad
becomes a call, an acceptance, an extension or an end, depending on what the terminal shows. When a session is agreed, both sides connect to the relay's room of that session and
exchange WebRTC descriptions and candidates through it.

What is hard here:

* *Interleaving in the stores.* Each store keeps several maps under several mutexes. An operation changes them one after
  the other, in different orders.
* *Check, then act, in the handlers.* A handler looks something up, and uses it several store calls or a database write
  later: whether a dog is busy, a session to be extended, a policy to be changed, the rate. A client that hangs up ends its handler at an await, halfway.
* *Memory and tables.* They change at different moments, in an order of their own per request, and a crash may fall between.
* *Distance.* A terminal and the server restart on their own, requests and answers get lost, a report may be served late, and its time stamp is the terminal's.
* *Requests and answers.* A terminal changes its own state around each `await`; its request may have been served though the answer is lost.
* *A relay that forgets.* What is sent before the other side is there, or too fast for it, is gone; candidates overtake descriptions; own messages come back.
* *A damaged line.* Bytes come in chunks of any size, and some are wrong or missing.
* *Time.* Ringing invites, segments and sessions end by the clock, through a tick that works on copies.

The properties that make each part correct are listed with the modules below; `hazards` in `PROJECT.json` names the
line where each could go wrong.

## 2. The modules

### InviteBook, InviteStore: one dog, one ringing invite

`InviteStore` has an action for every stretch of code between two lock operations: `InsertOpen` checks and fills
`open_for_dog` and keeps its guard, `InsertLockId` takes the second mutex, `InsertById` writes and drops both; `CloseById` and
`CloseOpen` are the two halves of `close`; `ExpireCollect` copies the ids that are due and `ExpireNext` closes one after another.
A thread's `pc` is named for the operation and what it is about to do, its locals are the function's. Ids are used once, as
`Uuid::new_v4` makes them; an operation may be called with any id that was handed out.

`InviteBook` is the store as its callers think of it: `Insert`, `Refuse`, `Found`, `NotFound` and the two moments of a removal,
each atomic. The two moments are what the code has: an invite that was closed still makes its dogs busy for `insert` until
`CloseOpen`. `Linearizable` says that the store implements the book when `leaving` is read off the threads between the two halves
of `close`.

Properties: `OneInvitePerDog` (the store's purpose), `MapsAgree` (both ways: an open invite can be found by its dogs, `OpenIsIndexed`, and no dog stays busy for an invite that is gone, `NoLeakedBusy`),
`CallsReturn` (no lock order blocks a call; `CanGo` says what a step may wait for, and TLC compares it with ENABLED), `Linearizable`.

### SessionBook, SessionStore: one dog, one session, Active when both are ready

The same for the session store: each of the three mutexes has an owner, who takes it in one step and lets it go in a later one. `insert` and `end` hold the guard of `by_dog` while they take the other two, one after the other,
and `set_media_ready` keeps `media` from its flag to `drop(media)`. A section that only reads, or that `update` makes, takes no lock inside and is one step, which waits until its mutex is free. `insert` writes `by_dog`, `media`, `by_id`;
`end` clears `by_id`, then `by_dog` and `media`; `set_media_ready` reads the session, sets a flag, and marks the session Active in a
third critical section if both flags were set. `Extend` is the closure that `again` passes to `update`. `together` is a history variable
that only properties read: the sessions whose two flags were set at one moment. A session's `deadline` is kept so that a lost update
would show.

Properties: `OneSessionPerDog`, `IndexExact`, `MediaExact`, `ReadyIsActive` (two reports that race cannot each leave the work to the
other), `ActiveWasReady`, `AnswersRight` (what `set_media_ready` and `for_dog` are about to answer), `Linearizable`,
`NoDeadlock` (no circle of mutexes: while any call is under way, one of them can go on. `LocksLetGo` says it of the guards in `CanGo`, which TLC compares with ENABLED. `end` must drop `by_id` before it takes `by_dog`, since `insert` takes them the other way round; the mutant keeps it).

`SessionBook` is the store as its callers think of it. `HandOut` gives a call a new id and the session it will insert, `Insert` and `Refuse` are what becomes of it, `Extend` is `again`'s update, `End` and `Release` are the two moments of an end, between which
the session is gone and its dogs are still busy. A media report is `Report`, which sets a flag, and `Activate`, which changes the state alone and only of a session that is still there and was once agreed; between them anything may happen to the session.
`Linearizable` says that the store implements the book. The mapping reads `waiting` and `leaving` off the threads that have a session in their hands, and counts a session's flags only while it is live or leaving: `insert` creates them a moment before and `end` removes them a moment after.
`UpdateInPlace`, that marking a session Active undoes no extension and revives no session, is a part of what `Activate` promises; it is stated and proved on its own.

### CallBook, DeviceApi: the handlers, the tick, the tables, a restart

The stores are atomic here; the two modules above are why. One difference from an atomic store remains, the moment in which a dog is busy
for `insert` and free for `for_dog`. A create that is refused in it does what a refused create does at any other moment (`CreateBusy`, `CreateRefused`);
a session insert that is refused is `AcceptBusy`, which the model takes only while a session is in the store. Between the flag and the update
of one `set_media_ready` the model lets nothing happen; SessionStore covers what could.

A handler is a record `job[h]` whose `pc` names its next step and whose other fields are the locals that step reads. The first step of
a request ends before the first store call that changes something another handler may have read, or before the second read that the code combines
with it; every database write is a step of its own, taken later. Reads that follow each other with nothing written in between share a step
where the handler would only be refused for more reasons if they did not: `CreateRoute` is lines 423-464, `CreatePeer` 465-471.

| Code | Actions |
|---|---|
| create_invite 416-495 | CreateRoute, CreatePeer / CreateRefused, CreateInsert / CreateBusy, CreateRow |
| incoming_invite 497-516 | SweepOnly |
| cancel_invite 518-546 | CancelGet, CancelClose, CancelRow |
| accept_invite_handler 548-608 | AcceptGet, AcceptClose, AcceptInsert / AcceptBusy, AcceptInviteRow, SaveSession |
| end_session 621-654 | EndGet, EndEnd, EndRow |
| media_ready 656-698 | MediaReady, SaveSession |
| again 700-737 | AgainGet, AgainUpdate / AgainGone, SaveSession |
| steward_estop 747-771, steward_social 773-789 | FlagRead, FlagSet, FlagGet, FlagRow, StopEnd / StopNothing, EndRow |
| steward_policy 819-850 | PolicyRead, PolicyRow, PolicySet |
| policy_tick 166-196 | TickStart, TickInviteRow, TickAll, TickEnd / TickKeep, TickRow, TickDone |
| main 114-123, load_into | Restart |
| main 162: axum drops the handler of a client that has hung up | Drop |

Of the data the model keeps what the properties tell apart. Instants are whole seconds. Whether a dog is present or asleep is not state: presence reports
and the time of day may change the answer between any two questions, so every action that asks may be refused (nothing has to happen next, and
`CreateRefused` is an explicit refusal) or not. `Bonds` are the pairs `route_invite` may find. A session's row has the flags the code writes, which are not
always the store's: `media_ready` writes the reporting side's flag as set even if it reported `false`, and `again` writes both as set.
`Restart` loads a maximal set of rows that share no dog, because the rows come in no fixed order and `insert` refuses the rest;
a row with both flags makes the session Active. `sent` counts calls without the hour's window: all of a run lies within one hour.
Answers, events, authentication, logging and the rows nothing reads back (`invite_events`, presence) are left out, and so is enrolment, which writes rows that are read at a start: of what the model has, `save_enroll` (`sqlite.rs` 221-222) sets the `dog_policy` row of the dog back to the defaults, while the policy in memory stays. Database writes do not fail.
`CreateInsert` is `insert` with `record_invite`: no await lies between them, and only another create of the same dog could see the difference, and it would find the dog ringing or, if that invite is closed already, exceed the limit as two creates may anyway.

A client may hang up. axum then drops the handler's future at the await it has reached: what it has done stays, what it would have done next nobody does. `Drop` takes a handler away at any of its awaits (`Awaits`): at a write to the database, done or not done, and at the
`publish_many` before `sessions.end` (636-647); the events after the last change are left out. What this leaves, in the model as in the code: a live invite or session without a row (480, 590-591), which a crash loses; a closed invite's or an ended session's row without a record (539, 590, 650), which a restart takes up;
a stop that is set in memory but not in the table, or that has not ended its session, which the next tick does (758, 763); a policy in the table that is not in force (846). There is no step between awaits at which a handler could vanish, but for a crash, which is `Restart`.

Properties that hold:

* `RowsCoverLive`: no step takes the row of a live invite or session, or the handler that is about to write it, except a client that hangs up. So what a crash would lose is what its handler has not answered yet, or never will because nobody listens any more.
  Neither a late delete, by whatever handler or the tick, nor a restart does: that is what the order of the changes (record first, row second) and of the ids is for.
* `NoSharedDog`: through every race of create, accept, cancel and end, and after loading any rows a crash left.
* `ExtensionsWithinMax`: no extension outlasts the session, in memory or in a row, whichever side asked and whatever limits are in force (docs/features/06: "without exceeding max_end_at"). A deadline beyond the hard end is a first segment's (`FirstSegment`), and the run starts from such limits (`OddPolicy`).
  For the first segment the code and the architecture document part: `docs/architecture/canislink-system-architecture.md` 584 and 601 ask for `started_at + min(300 s, max_session_sec)`, but accept (`main.rs` 581-582) adds `segment_sec` as it is, and `steward_policy` (836-841) sets `max_session_sec` and `segment_sec` each by itself.
  A steward who allows 60 s and leaves the segment at 300 s gets a session whose deadline is 240 s after its end. The tick still ends it by its age, so what is wrong is the deadline that terminals are told. No run is spent on it; `ExtensionsWithinMax` without `FirstSegment` fails in `device_api_safety` at the first accept.
* `RateOvershootBounded`: the check and the record of a call are apart, so the limit can be exceeded; by one call per further handler and no more.
* `KeepsCallBook`: all of this together is a life of calls as `CallBook` has it, see below.
* `StopPrevails`, `SessionsEnd`, `RingsEnd`: liveness, section 4.

`CallBook` is what the control plane promises about a call, from its ringing to the end of its session, with one step for each event of that life: `Ring`, `Hush`, `Talk`, `Report`, `Part`, and `Crash`, which may let any part
of what is remembered ring or be live again in which no dog occurs twice. What is remembered is all the copies there are of a call or a session: the record in the store, the row, and what a handler under way
will still write or begin (`CallCopies`, `TalkCopies`). Only `Ring` and `Talk` remember something new, and only under a new id; every other step keeps what is remembered of an id or forgets it for good, which it does of no call that rings and no session that is live.
So a late save, extension, report or delete, in any order and across crashes, can make nothing of an id but the same call between the same two dogs, with the same start and the same hard end; an ended session comes back in a restart only, and once nothing remembers it never;
a session begins only by a call that was made and is still remembered, between its two dogs, and reports turn it Active and never back.
The book does not promise what the code does not keep: that a call is answered once (two accepts that cross both go on, and the second begins a session when the first has ended), that a closed call stays closed after a crash, or what state and flags a session has after one.
`EndedStaysEnded`, that no late request brings an ended session back into the store, is a part of it; it is stated and proved on its own.

Properties that the documents state and the code does not keep, each with a run that must find the violation and an entry under `findings`:

* `RestartKeepsSessions` (`sqlite.rs` 3). `again`, `media_ready` and `accept` save a session's row without looking whether the session has ended meanwhile.
  A save that lands after the delete leaves a ghost row, and so does a client that hangs up before the delete of the session it has ended (which the run finds first). When the same dogs meet again and the server restarts, `load_into` may meet the ghost
  first, and refuse the live session as busy.
* `AcceptRevalidates` (architecture document, lines 689 and 1198). `accept` asks for the policy of the acceptor alone, and `steward_estop` leaves ringing invites open, so a dog
  that was stopped while its call rang gets a session. The next tick ends it; `StopPrevails` shows that this always happens.
* `StopUntilCleared` (architecture document, line 1101). `steward_policy` and `set_social_disabled` write back a whole policy they read earlier, and erase an
  emergency stop set in between.

Seen on the way, without a run. The tick ends a session by the deadline in the copy it took; `again` may have moved it while the tick waited for an earlier session's row to be deleted (the architecture
document, line 596, has sessions end at the present deadline). `num_seconds() as u64` makes a session that began after the tick's `now` older than any limit. A session that was never Active is Active after a restart if one side pressed Again; an invite whose accept was refused for a busy dog is gone from
memory and stays in the table; expired invites that a request, not the tick, has swept also stay in the table until a restart reads them.

### PresenceFilter, Presence: who is seen on a mat

`PresenceFilter` is `PresenceFilter::update` on the clock of `SensePipeline`, which advances with every chunk from the UART: `Update(s, dt)` is a sample in a chunk that
moves the clock by `dt`, `Pass(dt)` a chunk without one. The code keeps two instants, `raw_since_ms` and the clock; the model keeps how long the level has been held
at its last sample and the gap since, up to `Cap`, because nothing longer than a window can matter. `dog_past` and `empty_past` are history: how long ago, at the last sample, the mat last showed a
dog and last showed none. `FlipsHeld` says that the level changes only when every sample of a whole window agreed.

`Presence` puts the filter into the loop of a terminal (`edge/canis-edge/src/main.rs` 36-60), the reports into requests, and the requests into the store of a server.

| Code | Actions |
|---|---|
| canis-edge `main.rs` 38-48, ingest_uart | Ingest, Blind |
| 49-57, next_report, publish_now | Publish for a flip, and again when a report is due |
| the answer of a request, 52 and 56 | Deliver; without an answer the loop waits for good, for `Client::new` sets no timeout |
| `?` on a failed request, a power cut, a start | Crash, Boot |
| post_presence, upsert | Deliver |
| get, is_present | Seen, Fresh |
| load_into, which reads no presence | ServerRestart |
| sleep, the clocks | Tick |

One dog and its terminal. A tick is one pause of the loop. No instant is kept, only ages: of the report under way and of the entry, `made`, to which the terminal's `skew` is added where the code compares its time stamp with the
server's clock. A report under way when its terminal stops may still arrive (`own` is then false). `Delay` is how long a request may be on its way before it is served or lost, an assumption about the network; `MaxSkew` one about clocks.
`last_sign` is history: ticks since the loop last read a dog, or nothing at all. `MaxSeq` bounds the numbers of reports: from there on they are equal, and `upsert` accepts equal ones, as it would accept the higher ones.

* `SeenWasThere`: who is seen present was on the mat within `Reach`, the age of a fresh report and the passes that the exit window allows before it. The bound is exact: with one tick less TLC finds a counterexample.
  It says what TTL, exit window, delay and skew add up to, through every crash, late report and restart. Silent sensors are no sign of absence to the code: the filter keeps its level, and the terminal goes on reporting it.
* `ThereIsSeen`: a dog that stays, at a terminal that goes on, is seen for good, whatever earlier starts have left in the store.
* `GoneIsUnseen`: a terminal that reports no presence, has stopped, or waits for an answer that never comes is not seen for good.
* `FlipsHeld` once more, with the terminal's crashes.

Seen without a run: a terminal that starts again counts its reports from one (`crates/protocol/src/lib.rs` 136 calls the number monotonic per terminal), and the store refuses them until they have caught up with its last start. `ThereIsSeen` shows that the dog is seen then, and no sooner can be promised.

### ControlPlane, EdgeAgent: what a terminal shows, and what is so

`ControlPlane` is the server as its clients see it: each handler of `main.rs` answers and changes the invites, the sessions and the steward's switches in one step. The code's handlers are not atomic: which steps a handler has, and what falls between them, is `DeviceApi`'s matter, and what `EdgeAgent` shows holds as far as a handler's steps do not meet another's.
What `ControlPlane` does not keep (presence, bonds, rate, deadlines, sleep) may refuse a request or end an invite or a session at any time: `CreateRefused`, `AcceptRefused`, `Expire`, `TimeUp`.
A dog may call itself: the server asks only of a preferred peer whether it is the caller (`session/src/lib.rs` 52), `bootstrap_mutual` takes a bond of a dog with itself, and `candidates` then offers the caller. Such a session never becomes Active, as both reports set the flag of `dog_a` (`Active`).

`EdgeAgent` puts one agent per dog beside it. A method of the agent is `&mut self` and async, so nothing else touches the agent while it waits; others go on. Each method is two actions, or three:

| Code (`edge/canis-edge/src/lib.rs`) | Actions |
|---|---|
| ingest_uart, refresh_ux_from_presence, recompute_armed 72-118 | Ingest |
| call 178-209 | Call, CallReturns |
| poll_incoming 211-242 | Poll, PollReturns |
| accept_incoming 244-275, which goes on to report_media_ready | AcceptCall, AcceptReturns, ReadyReturns |
| report_media_ready 277-310 | MediaReadyCall, ReadyReturns |
| again 312-340, end_session 342-371 | Again, AgainReturns; Done, EndReturns |
| sync_active 373-400, which may go on to report_media_ready | Sync, SyncReturns, ReadyReturns |
| fetch_config 152-176, which may go on to end_session | Fetch, FetchReturns, HaltReturns |
| handle_intent 402-423 | the guards of Call, AcceptCall, Again, Done |

The first action sends the request and has it served, refused or lost; `wait[d]` is the answer under way, or the error. `Lose` is an error on the way, before or after the request was served: the method returns it (`?`), or ignores it (`end_session`). The filter's level is arbitrary at each `Ingest`; `Presence` has the filter.
The callers' order of calls is their own: sim-dog, lab-experiment and the tests each have another one, and the model allows all. `Init` is an agent whose caller has read the UART once; `new` itself has `social_armed` set with nobody there.
`agreed` is history: who has ever reported media ready for a session.

* `ShowsWhatItHolds`: the agent is Negotiating or InSession exactly when it holds a session, or Halted while it ends one; it is RingingIn only with an offer to accept. A wrong answer to "may an offer be taken now" breaks it.
* `InSessionWasAgreed`: a terminal shows InSession only when it and another terminal have reported ready for that session; of two requests whose answers cross, each tells no more than was so.
* `NoOtherSession`: while the control plane has a session for the dog, its terminal holds no other. A terminal that missed the end of its session cannot be in the next one without knowing: it does not call or accept until it has let go of the old one.
* `LureNeedsDog`: the lure is on only with a dog on the mat, though a poll's answer may come after much else.

Not so, and seen without a run, because nothing in the model has to call the methods that would repair it: a terminal stays InSession after the other side, the tick or a steward has ended the session, since `sync_active` does nothing on `null`
(architecture document, lines 1406 and 1409); Inviting after a lost answer and RingingOut after the ring has run out are left only by way of a session (line 458); `fetch_config` under an emergency stop ends in IdlePresent if a session was held, because
`end_session` overwrites Halted, and in a Halted that nothing leaves if none was (lines 473-474, 481); RingingIn outlives its invite until the dog leaves.

### UartLine: what comes out of a bad line

The MCU's tick writes a sample's frame and the frames of the pads pressed since; the line changes, loses or inserts a byte; the terminal reads any number of bytes and pushes them into its decoder. `Pops` is `try_pop` in the loop of `push`, with its three ways of stopping.
`EdgeAgent` keeps two decoders that are fed the same bytes; the model keeps one. A byte has three bits and a payload two bytes (samples 8 and buttons 4 in the code), numbers one; magic, type, length, payload and checksum keep their places. `Disturb` and `Restart` share the bound `MaxNoise`.
`owed` is history: what was written after the last disturbance and has not been decoded.

`Samples` has no distance of 0: `mcu.rs` 48 takes it for an invalid reading, and the firmware writes it for none. `Pops` applies `Meaning` to each frame it takes, as `ingest_uart` and `push_bytes` do to the frames that `push` returns.

* `AlignedIsExact`: in step, every sample and press comes out once, in order, and nothing else, however the bytes are cut; samples whose bytes look like a magic are among them.
* `Resyncs`: after a disturbance the decoder comes back into step, unless a frame of unknown type with a right checksum has come up.
* `FindsFrames` says the same without the exception, as the comment and the test of the decoder do, and is violated (`decoder_stuck`): the early return of `MsgType::from_u8(self.buf[2])?` precedes the drain, so the frame stays for good and the buffer grows.

### SignalRoom, MediaLink: two peers connect through a room

`SignalRoom` is one room of the relay: `Subscribe` is the start of `peer_loop`, `Relay` is `recv_task` with the channel's send (a full receiver loses its oldest message and has lagged), `Reads` is `send_task`, `PeerLeft` the `select!` that ends both. Rooms share nothing.
`MediaLink` puts two peers into it, both canis-media or both portal pages.

| Code | Actions |
|---|---|
| canis-media `main.rs` 161-235 | Connect, Describe, SendOffer, SeesLink, LinkTimeout, Listen |
| handle_signal 293-336 | Receive with HandleOffer (its answer is SendAnswer), HandleAnswer, HandleIce, Ignore |
| callbacks 92-154, attach_dc 338-360 | Candidate, Link, Hello, HearHello |
| app.js 393-510 | Connect, PortalOffer, Receive, Candidate, Done |
| lab-experiment 371-384 | Kill |

The WebRTC stack is external: when both sides have both descriptions and one knows a candidate, the peers may connect. It may report a candidate from the moment the local description is set; in a browser not before the description has been sent, since events wait for the handler's turn. Timers may run out at any moment.
Session, dog, SDP and candidate are left out of messages but for the writer and a number.

* `OnlyOthersCandidates`: own messages come back from the room, and no peer takes its own candidate for the other's.
* `QuietIsComplete`: when everything written has been read and nobody has been dropped, an offer that was taken has been answered and the answer taken; two portals then also have all of each other's candidates.
  Two lab peers may not: canis-media reports candidates before it sends the offer, and the other side refuses them (`main.rs` 190). A room that lags drops the client with the message.
* `LabPeersExit`: with its timers, no lab process that has joined the room hangs, whatever was lost: an offer before the answerer has subscribed, the hello that `notify_waiters` does not keep (`main.rs` 348), a peer that is gone. The exit code says ok without the hello, which lab-experiment's report calls "Connected + portal hello".
  Before that nothing bounds the wait: `connect_async` (`main.rs` 161) and the send of the join (167-175) have no timeout and precede every timer, so a relay that accepts the TCP connection and never completes the upgrade keeps the process for good. The model has no fairness for `Connect`, and the property begins behind it.

## 3. The runs

| Run | Bounds | Shows |
|---|---|---|
| `invite_store` | 2 threads, 2 dogs, 2 invites, expiry at 0 or 1 | safety, refinement, liveness of the invite store |
| `session_store` | 2 threads, 3 dogs, 2 sessions, 2 deadlines, symmetry | maps, answers and locks of the session store, refinement |
| `device_api_safety` | 2 handlers, 2 dogs, 4 requests of 7 kinds, clients that hang up, a segment longer than the session, 1 second, 3 invites, 2 sessions, 1 restart, symmetry | safety of the handlers, refinement |
| `device_api_live` | 2 handlers, 2 dogs of which one calls, 3 requests of 5 kinds, clients that hang up, 1 second, 1 invite, 1 session, a steward who allows no time, no restart | liveness |
| `presence` | windows of 2 and 3 ticks, a report every 2, TTL 5, delay 1, skew -1 to 1, 3 sequence numbers, any number of crashes and restarts | safety and liveness of presence |
| `edge_agent` | 2 dogs, 2 invites, 2 sessions, 1 lost request or answer, 1 switch of the steward | what terminals show and hold |
| `uart` | 2 samples (one of magic bytes), 1 pad, noise bytes 0 and the magic's, 1 disturbance, 14 bytes on the line, 16 in the buffer | the decoder in step and coming back |
| `media_link` | lab or portal, a channel of 2 messages, 2 candidates | the relay and two peers |
| `restart`, `revalidate`, `stop_cleared`, `decoder_stuck` | as small as the counterexample allows | the four findings |

Why the bounds are enough to be interesting. In the stores, a conflict takes two ids that want the same dog and one thread that removes while another inserts, or two that report; a third dog lets two sessions share one dog and differ in the other.
The theorems have any number. In `device_api_safety` four requests allow create, accept, an extension or a report, and an end, or a second create after a cancel, with any save still to come, a client gone at any await, or a
crash between any two of these steps; three invites let a cancelled call be made again, after an accepted one; a second is what it takes for a ring and a segment to run out.
The steward's limits and stops change in `device_api_live` only, where their effect on sessions is; the theorems of `device_api_safety`'s properties let them change at any moment.
Two dogs have one live session at most, so the write to the database between two sessions of one tick (`main.rs` 173-192) falls in no run between two live ones; the tick's copy goes stale all the same, as requests and a crash come between `TickAll` and `TickEnd`, and the safety theorems have any number of dogs.
In `edge_agent` two sessions are what it takes to hold the wrong one, and one lost answer to miss the end of the first. In `uart` a frame is seven bytes, so two fit on the line, and a false magic may span them; the noise is of bytes that can make or break a magic or a type.
In `media_link` two messages overrun the channel that a description and two candidates pass. `MaxInvites`, `MaxSessions`, `MaxLosses`, `MaxSwitches` bound `edge_agent` (in `Create`, `Accept`, `Lose`, `Steward`), `MaxNoise`, `MaxWire`, `MaxBuf` bound `uart` (in `Disturb`, `Restart`, `Tick`, `Ingest`), `MaxCandidates` bounds `Candidate`.
In `DeviceApi`, `MaxTime`, `MaxInvites`, `MaxSessions`, `MaxRestarts` and `MaxRequests` are bounds of the model, not of the code: they appear in the guards of `Second`, `CreateRoute`, `CreateInsert`, `AcceptInsert`, `Restart` and
`Receive`. In `presence` the constants keep the order of the code's (enter 800 ms, exit 2.5 s, a report every 2 s, TTL 10 s): a report outlives the next one by more than delay and skew, which `PresenceAssumption` states, and an exit takes more than one report.
Three sequence numbers tell a report of an earlier start that is ahead, level and behind.
Deadlock is checked by every passing run but `media_link`, whose peers end: the tick never stops, an idle thread may always call, a terminal may always stop or read its UART, the MCU ticks.
Symmetry is used only where no liveness is checked.

Each property of a passing run has a mutant: a plausible bug, written beside the operator it replaces (`IsBusyCallerOnly`, `ReadyFlagStale`, `SaveSessionThrough`, ...), under which TLC finds the property
violated. No specification uses these operators.

## 4. Fairness

In `InviteStore`, `FairSpec` is strong fairness of each thread's steps, never of its calls: a thread inside an operation is scheduled, and `parking_lot`'s mutexes are eventually fair, so a thread
that waits for a lock that is free again and again gets it. Nobody has to call anything. `SessionStore` states no fairness: `NoDeadlock` says as an invariant that not all threads that are inside a call wait, and the rest is `parking_lot`'s.

In `DeviceApi`, weak fairness of the tick (a loop of sleep and work in its own task, as long as the process lives), of the clock, and of each handler's steps once it has received a request (tokio polls every
ready task) until its client hangs up, which no client has to do and none has to refrain from. No fairness for requests or restarts: `SessionsEnd` and `RingsEnd` hold though no terminal ever calls again, which is what they are about. `device_api_live` has no restart: a crash during the run starts everything
again, and after the last one the model is the one that was checked. The clock stops at `MaxTime`, so the two properties speak of the sessions and invites that are due before.

In `Presence`, weak fairness of the loop's own steps, of the server's handler while a report is under way, and of time. Not of `Boot`, and not against `Crash` or a lost answer: `ThereIsSeen` therefore assumes that the loop goes on and the server stays up, and
`GoneIsUnseen` assumes neither.

In `UartLine`, weak fairness of the MCU's tick and of the terminal's reading: both are loops. In `MediaLink`, weak fairness of the relay's tasks, of what each peer does once it has joined (`Work`), and of its timers (`tokio::time::sleep` ends). Not of `Connect`, which has no timeout; not of what the WebRTC stack reports, which may never connect, though its calls are taken to return; and not of a user who presses Done.
`EdgeAgent` has no fairness: an agent has no loop of its own, and what its callers do again and again is theirs to promise.

## 5. The proofs

`InviteStoreProofs` and `SessionStoreProofs` prove for every number of threads, dogs, ids and instants what the runs check on a few. They assume only `NoneAssumption` (the absent value is none of the present ones)
and, for invites, that instants are integers.

Neither `OneInvitePerDog` nor the agreement of the maps is inductive alone, because the maps disagree while an operation is between two locks. `IndInv` (checked by TLC first) adds what holds in between:

* `OneOwner`: no two threads insert or close one id at a time. An insert's id is new, and `by_id.remove` gives the invite to one closer only.
* `InFlightIndexed`: while an insert or a close is half done, its id is not in `by_id` and its dogs' entries are its own.
* `UnusedIsUnknown`: an id that was never handed out is in no map.
* `LookupIsCurrent` (invites): `for_dog` holds the guard, so the entry it read is still there. `CallerKnows` (sessions): a report or a lookup works on an id that was fully inserted when it looked.

With these, each action is a case of the step lemma, and the safety theorems follow from `Invariance`.

* `TypeCorrect`, `InviteExclusive`, `IndexExact` (which states `MapsAgree`), `NeverAllWait`, `StoreImplementsBook` for invites. The last maps initial states to initial states and every step to a step of `InviteBook` or a stutter: `InsertById` is `Insert`,
  `InsertBusy` is `Refuse`, `ForDogById` is `Found`, `CloseById` is `Remove`, `CloseOpen` is `Release`.
* `TypeCorrect`, `SessionExclusive`, `NothingLeaks`, `NoFlagsLeak`, `ReadyMeansActive`, `ActiveWasAgreed`, `AnswersCorrect`, `UpdatesInPlace`, `NeverAllWait`, `StoreImplementsBook` for sessions. The last needs one invariant more, `SameDogs`: a report knows the two dogs of the session it works on, also while that session is being ended, so it sets the flag the book means.
  `Hands` says what the mapping is in terms of the threads, from `OneOwner`; then `CallInsert` is `HandOut`, `InsertBusy` is `Refuse`, `InsertById` is `Insert`, `EndById` is `End`, `EndByDog` is `Release`, `ReadyFlag` is `Report` or, when `end` has already released the session, nothing, and `ReadyUpdate` is `Activate` or, when it has ended, nothing.

`NeverAllWait` states `LocksLetGo`, that while any call is under way some thread can go on, in terms of the guards (`CanGo`): the provers have no ENABLED, so TLC checks that `CanGo` says what ENABLED says, in `NoDeadlock` and `CallsReturn`. It rests on `TypeOK`, where each lock's owner is the thread at the places that hold it,
and on the order of the locks: whoever holds the inner one waits for nothing.

`PresenceProofs` proves for all windows and spacings of samples that the debounce holds its windows, alone (`FilterHoldsItsWindows`) and in a terminal that stops and starts (`TerminalHoldsItsWindows`). `FlipsHeld` speaks of samples; the code counts from the first sample of a level.
`HeldWithin` joins them: a level has been held no longer than the other one is past, since both grow by the same time and a sample of the other level resets both. `PresenceTyped` is the type invariant, with the fact that a terminal has one report of its own on the way at most;
the cases that need it are `Publish`, which only a loop that waits for nothing reaches, and `Deliver`.

`SeenOnlyIfThere` proves `SeenWasThere`, for all windows, spacings, delays and skews: who is seen present was on the mat, or the sensors were silent, within `Reach`. An entry is believed for a time after it was made, so the question is how old the last sign of the dog may be when a report of its presence is made (`Bound`).
`LoopInv` answers it at each place of the loop, in two numbers: the passes since the level was last confirmed (`Without`; more than the exit window's worth and the level flips), and the requests the loop has waited for meanwhile, each up to `Delay`, of which there is one for a flip and one for each `Every` passes (`InTime`).
`ReportInv` carries the bound to every report under way and to the entry, whatever terminal start they come from.

The three presence theorems and the type invariant assume `FilterAssumption` (the windows are within `Cap`) and `PresenceAssumption`.

`EdgeAgentProofs` proves for any number of dogs, invites, sessions, lost answers and switches what `edge_agent` checks: `AgentsTyped`, `ShownIsHeld`, `LureForADog`, `SessionsAgreed`, `HoldsNoStaleSession`.
It assumes that the bounds are numbers (`BoundsAssumption`, `AgentBoundsAssumption`) and `NoneAssumption`. Three invariants build on each other, each kept by every step:

* `AgentInv` is what is true of one agent alone: `ShowsWhatItHolds`, `LureNeedsDog`, `ArmedIsThere`, and `Waiting`, which says that an answer finds the agent as its request left it, because nothing else touches the agent while a method runs.
  Without it, an answer to a call could come to an agent that has a session. Each step of one dog leaves the others' fields alone (`OneDog`), so the cases are per dog.
* `AgreeInv` relates agents to the control plane: a session's flags were all reported (`FlagsReported`), and an id that an agent holds, or that an answer under way will tell it, is of a session of its own (`HoldsOwn`). An answer may say Active only when two sides have reported; `agreed` never shrinks, so this still holds when the answer arrives late.
* `ContactInv`: no dog is in two contacts (`OneContact`), and a dog that holds a session's id, or is about to be told it, is the caller of no invite and in no other session (`HeldIsCurrent`). It rules out the one way to a stale session: a new contact made while the old id is still held.

`DeviceApiProofs` proves for any number of dogs, requests, crashes and seconds the safety that `device_api_safety` checks: `TypeCorrect`, `RowsCover`, `DogsExclusive`, `SessionsStayEnded`, `SegmentsWithinSessions`, `OvershootBounded`. It assumes only `ConstantsAssumption`
(the handlers are finitely many and at least one, the bounds are numbers, the limits are well formed). The invariants say what a handler may still do after an await:

* `CoverInv`, with which each step is shown to keep every covered record covered (`RowsFollow`), a dropped handler apart (`DropIs`): an id in a store, a row or a handler's locals was handed out before (`IdsHandedOut`), so no insert meets an old row; and who is about to delete a row has already removed the record (`GoneBeforeRow`). Without the latter, a late `DELETE` could take the row of a live record.
* Only `CreateInsert`, `AcceptInsert` and `Restart` add a record (`InvitesKept`, `SessionsKept`), the inserts look at both dogs in the same locked step, and a restart loads rows whose dogs are apart: hence `DogsExclusive`. An insert takes a new id: hence `SessionsStayEnded`.
* `DeadlineInv`: every copy of a session, in the store, in a row or in a handler's locals, has its deadline within its `max_end`, or both are as accept set them from one of the policies in force (`InTime`); `ExtendSegment` caps the rest, and what is carried past another extension is capped by an end that never changes (`SessionsKept`).
* `RateInv`: the calls sent, and the handlers between check and record, are together within the limit they were checked against plus the further handlers. A record moves one handler from the second number to the first.

`CallBookProofs` proves that `DeviceApi` implements `CallBook` (`DeviceApiImplementsCallBook`), again for any constants. The mapping gathers, for each id, the copies of its call or session into a set, so nothing has to be said of which copy is the right one; the work is to show that the set never has two members.
`CallInv` is the invariant this takes, on top of `TypeOK` and `CoverInv`:

* `Agree`: any two copies of a call agree on who calls whom, and any two of a session on its call, its dogs, its start and its hard end. It is inductive only because no id is used twice: a new record meets no old copy (`NothingOfNewIds`, from `IdsHandedOut`).
* `BondedCopies`, and `Asks` and `Offers` for the handlers that have not made a copy yet: a create under way is for a bonded pair, an accept under way offers a session of the call it has read, still Negotiating and with nobody ready.

All actions but two only take copies away or move them (`Plain` for those that leave the sessions alone but for an end, `Held` with those that write a row or change a session; `StepIs` says that there are no others), so `FadeKeeps` keeps the invariant, and the step is `Hush`, `Part` or `Report` in the book, or nothing.
`CreateEnters` and `AcceptEnters` are the two that add a copy: `Ring` and `Talk`. A restart is `Crash`: `RestartFades` and `RestartApart` say that it makes records of rows alone, and of rows that share no dog. `CopiesAgree` and `OnlyBondedDogsTalk` follow from the same invariant; the second is worth a name because
accept asks for no bond and a restart for nothing at all.

`MediaLinkProofs` proves for any capacity of the room's channel and any number of candidates what `media_link` checks of safety: `RoomTyped`, `NoOwnCandidates`, `QuietComplete`. It assumes `PeersAssumption` and `RoomAssumption` (offerer and answerer are two, a peer is a lab process or a portal page, a channel holds at least one message).
A room is a network that reorders nothing and loses by lagging, so the invariants say for each message where it is: written and unread (`up`), relayed and unread (`backlog`), or taken. `Everything` joins them.

* `MainInv`: the place in a peer's main function says what its peer connection has; the answerer has a description exactly when it has taken the offer, and then both have subscribed.
* `SaidInv`: every message under way was said by the peer it names, after that peer set its description. Hence `NoOwnCandidates`, as `Receive` drops messages whose writer is the reader itself.
* `AnswerInv`: once the offer is taken, the answer is being made, under way, or taken, unless the offerer has lagged or left. In a quiet room nothing is under way, which is the first half of `QuietComplete`.
* `OrderInv`, for portals: no candidate overtakes its description, in either queue. `CandidateInv` rests on it: behind a description every candidate made since is under way or known. The lab peers break `OrderInv`, and with it the second half, as the code does.

`UartLineProofs` proves for any samples, pads, noise, chunk sizes and lengths of the line what `uart` checks of safety: `TypeCorrect` and `DecoderExact` (which states `AlignedIsExact`). It assumes `LineAssumption`: pads are 0 to 3, noise is bytes, and no sensor reports a distance of 0, which a frame has for none.
What the decoder finds and what a checksum is are recursions over bytes, and the library's induction theorems cannot be used here. Two lemmas take their place: every set of naturals has a least member (`Least`), so a claim about all sequences is proved by looking at a shortest one it does not hold of; and a recursive definition has a solution (`Recursion`), without which nothing is known of `checksum` or `Pops`.
Then the argument is the decoder's own:

* `ChecksumType`, `PopsType`: a checksum is a byte; what is left is bytes, no more than there were, and what is found is samples without a distance of 0 and presses of pads there are, even of bytes that mean nothing. `TypeCorrect` rests on it.
* `EncodedIs`: the frame of every message passes the decoder's tests and says that message, also when its payload looks like a magic. `LikeFrame` and `TooShort`: whatever is behind it, it is taken when it is whole, and waits when it is not.
* `DecodedIs`: when a buffer and what is still to come are the frames of some messages, `Pops` finds the first of them in order and leaves less than one frame, the beginning of the next. A tick appends whole frames (`AllEncodedConcat`), a read moves the cut (`Cut`), and neither changes what buffer and line are together; hence `DecoderExact`.

Only model-checked: the liveness properties (`CallsReturn`, `StopPrevails`, `SessionsEnd`, `RingsEnd`, `ThereIsSeen`, `GoneIsUnseen`, `LabPeersExit`, `Resyncs`), since fairness is out of the prover's reach, and that `CanGo` is what ENABLED says in `NoDeadlock`.
Every other property of a passing run is stated by a theorem.

## 6. Plan

Done: every module of section 2, and the proofs of section 5. What could come next:

1. Routing and sleep: `route_invite` over the bond graph, the sleep window with its wrap at midnight, against a reference definition.
2. Database writes that fail: which of `RowsCoverLive` and `KeepsCallBook` remains when any write may be missing.
3. The safety half of `SessionsEnd` as a theorem: which sessions a tick has looked at, which needs a history of its snapshots.

## 7. Not modelled

* The event hub: a subscriber that comes late or lags misses events, and nothing tells it. The only subscriber is the browser page, which shows the event and asks the API again; a model would check the broadcast channel, which `SignalRoom` has.
* The bond graph's weights (`crates/bond`), one mutex and no interleaving; `Bonds` is what the handlers see of it. Enrolment, terminals and bond rows: written by one handler, read at a start.
* Device authentication and ICE configuration: stateless.
* The page's forms, buttons and polling (`portal-web`), the Android wrapper, the steward's command line, the deployment files: they show and forward.
* The stub services, which log a line and wait. `sim-dog` and `lab-experiment`: only as callers of the edge agent and parent of the media processes, since they check what the others do.
* WebRTC itself: `MediaLink` says what it may report.
