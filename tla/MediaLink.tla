------------------------------- MODULE MediaLink -------------------------------
(***************************************************************************)
(* Two peers set up a WebRTC connection through a room of the relay: the   *)
(* canis-media processes of the lab, and the portal page's startWebRtc     *)
(* (portal-web/app.js).  One is told to offer, the other to answer.        *)
(*                                                                         *)
(* The WebRTC stack is external: once both descriptions are set on both    *)
(* sides and one side knows a candidate of the other, the peers connect;   *)
(* it reports a candidate at any moment after the local description is     *)
(* set, to the lab's callback even before the description has been sent.   *)
(* Timers may run out at any moment.  Join messages change nothing at a    *)
(* peer and are left out.                                                  *)
(***************************************************************************)
EXTENDS SignalRoom, FiniteSets

CONSTANTS
    Offerer, Answerer,
    Kinds,          \* what the two peers may be: "lab", "portal"
    MaxCandidates   \* bound: candidates the two stacks report together

Peers == {Offerer, Answerer}
Other(p) == IF p = Offerer THEN Answerer ELSE Offerer

ASSUME PeersAssumption ==
    /\ Offerer # Answerer
    /\ Conns = Peers
    /\ Kinds \subseteq {"lab", "portal"}
    /\ MaxCandidates \in Nat

VARIABLES
    kind,       \* which program both peers are
    main,       \* where its main function is
    answering,  \* its reader has set the descriptions and not yet sent the answer
    local, remote,  \* its peer connection has the description set
    known,      \* the candidates it was given, as <<peer, number>>
    made,       \* how many candidates its own stack has reported
    linked,     \* its connection's state was Connected
    said,       \* its data channel opened and it sent the portal hello
    heard       \* the hello arrived: "no", "lost" for main, or "yes"

pc == <<local, remote, known, made, linked>>
vars == <<room, kind, main, answering, pc, said, heard>>

Ended == {"ok", "failed", "killed", "done"}
Alive(p) == main[p] \notin Ended

Init ==
    /\ RoomInit
    /\ kind \in Kinds
    /\ main = [p \in Peers |-> "connect"]
    /\ answering = [p \in Peers |-> FALSE]
    /\ local = [p \in Peers |-> FALSE]
    /\ remote = [p \in Peers |-> FALSE]
    /\ known = [p \in Peers |-> {}]
    /\ made = [p \in Peers |-> 0]
    /\ linked = [p \in Peers |-> FALSE]
    /\ said = [p \in Peers |-> FALSE]
    /\ heard = [p \in Peers |-> "no"]

Message ==
    [type: {"offer", "answer"}, from: Peers]
        \cup [type: {"ice"}, from: Peers, n: 1..MaxCandidates]

----------------------------------------------------------------------------
\* The main function

\* connect_async and the join; only the offerer has something to do before its reader
\* starts.  No timer runs meanwhile: a relay that takes the TCP connection and completes
\* no upgrade, or takes no join, keeps main here for good.
Connect(p) ==
    /\ main[p] = "connect"
    /\ Upgrade(p)
    /\ main' = [main EXCEPT ![p] = IF p = Offerer THEN "offer" ELSE "waiting"]
    /\ UNCHANGED <<up, backlog, lagged, kind, answering, pc, said, heard>>

\* After the delay of 300 ms: create_offer and set_local_description.
Describe(p) ==
    /\ main[p] = "offer" /\ kind = "lab"
    /\ main' = [main EXCEPT ![p] = "send_offer"]
    /\ local' = [local EXCEPT ![p] = TRUE]
    /\ UNCHANGED <<room, kind, answering, remote, known, made, linked, said, heard>>

SendOffer(p) ==
    /\ main[p] = "send_offer"
    /\ main' = [main EXCEPT ![p] = "waiting"]
    /\ Write(p, [type |-> "offer", from |-> p])
    /\ UNCHANGED <<socket, backlog, lagged, kind, answering, pc, said, heard>>

\* The page's ws.onopen: no candidate is reported before it is through.
PortalOffer(p) ==
    /\ main[p] = "offer" /\ kind = "portal"
    /\ main' = [main EXCEPT ![p] = "waiting"]
    /\ local' = [local EXCEPT ![p] = TRUE]
    /\ Write(p, [type |-> "offer", from |-> p])
    /\ UNCHANGED <<socket, backlog, lagged, kind, answering, remote, known, made, linked, said, heard>>

\* The process or the page's peer connection is gone, and its socket with it.
Quit(p, how) ==
    /\ main' = [main EXCEPT ![p] = how]
    /\ Close(p)
    /\ UNCHANGED <<up, backlog, lagged, kind, answering, pc, said, heard>>

\* connected_rx
SeesLink(p) ==
    /\ main[p] = "waiting" /\ kind = "lab"
    /\ linked[p]
    /\ main' = [main EXCEPT ![p] = "listening"]
    /\ UNCHANGED <<room, kind, answering, pc, said, heard>>

\* timeout_sec
LinkTimeout(p) ==
    /\ main[p] = "waiting" /\ kind = "lab"
    /\ Quit(p, "failed")

\* Without the 15 seconds.
ListenForHello(p) ==
    /\ main[p] = "listening"
    /\ heard[p] = "yes"
    /\ Quit(p, "ok")

\* The hello was heard, or 15 seconds have passed: either way exit ok.
Listen(p) ==
    /\ main[p] = "listening"
    /\ Quit(p, "ok")

\* lab-experiment kills the answerer when the offerer has exited.
Kill ==
    /\ kind = "lab"
    /\ ~ Alive(Offerer) /\ Alive(Answerer)
    /\ Quit(Answerer, "killed")

\* The page's done().
Done(p) ==
    /\ kind = "portal"
    /\ Alive(p) /\ main[p] # "connect"
    /\ Quit(p, "done")

----------------------------------------------------------------------------
\* The reader: handle_signal, and the page's ws.onmessage

Reading(p) ==
    \/ main[p] \in {"waiting", "listening"}
    \/ main[p] = "offer" /\ kind = "portal"

\* Own messages come back from the room.
AppliesEcho(p, m) ==
    CASE m.type = "offer" -> p = Answerer /\ ~ remote[p]
      [] m.type = "answer" -> p = Offerer /\ local[p] /\ ~ remote[p]
      [] m.type = "ice" -> remote[p]

\* What the peer connection takes; the rest is an error that is logged.
Applies(p, m) ==
    /\ m.from # p
    /\ CASE m.type = "offer" -> p = Answerer /\ ~ remote[p]
         [] m.type = "answer" -> p = Offerer /\ local[p] /\ ~ remote[p]
         [] m.type = "ice" -> remote[p]

HandleOffer(p, m) ==
    /\ m.type = "offer" /\ Applies(p, m)
    /\ remote' = [remote EXCEPT ![p] = TRUE]
    /\ local' = [local EXCEPT ![p] = TRUE]
    /\ answering' = [answering EXCEPT ![p] = kind = "lab"]
    /\ IF kind = "portal" THEN Write(p, [type |-> "answer", from |-> p]) ELSE UNCHANGED up
    /\ UNCHANGED <<known, made, linked>>

HandleAnswer(p, m) ==
    /\ m.type = "answer" /\ Applies(p, m)
    /\ remote' = [remote EXCEPT ![p] = TRUE]
    /\ UNCHANGED <<up, answering, local, known, made, linked>>

HandleIce(p, m) ==
    /\ m.type = "ice" /\ Applies(p, m)
    /\ known' = [known EXCEPT ![p] = @ \cup {<<m.from, m.n>>}]
    /\ UNCHANGED <<up, answering, local, remote, made, linked>>

Ignore(p, m) ==
    /\ ~ Applies(p, m)
    /\ UNCHANGED <<up, answering, pc>>

Receive(p) ==
    /\ Reading(p) /\ ~ answering[p]
    /\ \E m \in Message :
          /\ Reads(p, m)
          /\ HandleOffer(p, m) \/ HandleAnswer(p, m) \/ HandleIce(p, m) \/ Ignore(p, m)
    /\ UNCHANGED <<kind, main, said, heard>>

\* The answer is set and forgotten.
KeepAnswer(p) ==
    /\ answering[p] /\ Alive(p)
    /\ answering' = [answering EXCEPT ![p] = FALSE]
    /\ UNCHANGED <<room, kind, main, pc, said, heard>>

SendAnswer(p) ==
    /\ answering[p] /\ Alive(p)
    /\ answering' = [answering EXCEPT ![p] = FALSE]
    /\ Write(p, [type |-> "answer", from |-> p])
    /\ UNCHANGED <<socket, backlog, lagged, kind, main, pc, said, heard>>

----------------------------------------------------------------------------
\* The WebRTC stack, its callbacks, and the data channel

\* on_ice_candidate
Candidate(p) ==
    /\ Alive(p) /\ local[p]
    /\ made[Offerer] + made[Answerer] < MaxCandidates
    /\ made' = [made EXCEPT ![p] = @ + 1]
    /\ Write(p, [type |-> "ice", from |-> p, n |-> made[p] + 1])
    /\ UNCHANGED <<socket, backlog, lagged, kind, main, answering, local, remote, known, linked, said, heard>>

Described(p) == local[p] /\ remote[p]

\* on_peer_connection_state_change
Link(p) ==
    /\ ~ linked[p]
    /\ \A q \in Peers : Alive(q) /\ Described(q)
    /\ \E q \in Peers : known[q] # {}
    /\ linked' = [linked EXCEPT ![p] = TRUE]
    /\ UNCHANGED <<room, kind, main, answering, local, remote, known, made, said, heard>>

\* attach_dc's on_open; the page opens no data channel.
Hello(p) ==
    /\ ~ said[p]
    /\ kind = "lab" /\ \A q \in Peers : Alive(q) /\ linked[q]
    /\ said' = [said EXCEPT ![p] = TRUE]
    /\ UNCHANGED <<room, kind, main, answering, pc, heard>>

\* attach_dc's on_message: notify_waiters wakes main if it is waiting, and stores nothing.
HearHello(p) ==
    /\ said[Other(p)]
    /\ Alive(p) /\ heard[p] = "no"
    /\ heard' = [heard EXCEPT ![p] = IF main[p] = "listening" THEN "yes" ELSE "lost"]
    /\ UNCHANGED <<room, kind, main, answering, pc, said>>

----------------------------------------------------------------------------
RelayStep(c) == Subscribe(c) \/ Relay(c) \/ PeerLeft(c)

Server(c) == RelayStep(c) /\ UNCHANGED <<kind, main, answering, pc, said, heard>>

\* What a peer does by itself once it has joined.
Work(p) ==
    \/ Describe(p) \/ SendOffer(p) \/ PortalOffer(p)
    \/ Receive(p) \/ SendAnswer(p) \/ SeesLink(p)

Step(p) == Connect(p) \/ Work(p)

Stack(p) == Link(p) \/ Hello(p) \/ HearHello(p)

Timer(p) == LinkTimeout(p) \/ Listen(p)

Next ==
    \/ \E c \in Conns : Server(c)
    \/ \E p \in Peers : Step(p) \/ Candidate(p) \/ Stack(p) \/ Timer(p) \/ Done(p)
    \/ Kill

(***************************************************************************)
(* Every task that can run is polled, the calls of the WebRTC stack        *)
(* return, and timers run out.  Connecting need not succeed, nobody needs  *)
(* to press Done, and the stack need not report a candidate.               *)
(***************************************************************************)
Spec ==
    /\ Init /\ [][Next]_vars
    /\ \A p \in Peers : WF_vars(Server(p)) /\ WF_vars(Work(p)) /\ WF_vars(Timer(p))

----------------------------------------------------------------------------
\* The room holds messages, for no client more than its channel keeps, and a peer connection's parts are of their kind.
TypeOK ==
    /\ socket \in [Conns -> {"none", "upgraded", "hung", "joined", "closing", "gone"}]
    /\ up \in [Conns -> Seq(Message)]
    /\ backlog \in [Conns -> Seq(Message)] /\ \A c \in Conns : Len(backlog[c]) <= Capacity
    /\ lagged \in [Conns -> BOOLEAN]
    /\ kind \in Kinds
    /\ main \in [Peers -> {"connect", "offer", "send_offer", "waiting", "listening"} \cup Ended]
    /\ answering \in [Peers -> BOOLEAN]
    /\ local \in [Peers -> BOOLEAN] /\ remote \in [Peers -> BOOLEAN]
    /\ known \in [Peers -> SUBSET (Peers \X (1..MaxCandidates))]
    /\ made \in [Peers -> 0..MaxCandidates]
    /\ linked \in [Peers -> BOOLEAN]
    /\ said \in [Peers -> BOOLEAN]
    /\ heard \in [Peers -> {"no", "lost", "yes"}]

\* The room sends every message back to its writer: no peer takes a candidate of its
\* own for the other's, or it would try to connect to itself.
OnlyOthersCandidates == \A p \in Peers : \A c \in known[p] : c[1] = Other(p)

\* No process of the lab that has joined the room hangs, whether its peer never joins
\* or goes away and whatever the room loses.
LabPeersExit == \A p \in Peers : (kind = "lab" /\ main[p] # "connect") ~> ~ Alive(p)

\* Nothing is under way: both are in the room, and every message was read.
Quiet ==
    \A p \in Peers :
        /\ main[p] \in {"waiting", "listening"} /\ ~ answering[p]
        /\ socket[p] = "joined" /\ ~ lagged[p]
        /\ up[p] = <<>> /\ backlog[p] = <<>>

\* An answer is never lost to a peer that stays, in whatever order candidates and
\* descriptions travel and however full the room is: when all is quiet, an offer the
\* answerer has taken was answered.  A portal also has the other's candidates; a
\* lab peer may have lost those that were written before the description.
QuietIsComplete ==
    Quiet /\ remote[Answerer] =>
        /\ remote[Offerer]
        /\ kind = "portal" =>
              \A p \in Peers : known[p] = {Other(p)} \X (1..made[Other(p)])
=============================================================================
