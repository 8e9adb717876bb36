------------------------------ MODULE SignalRoom ------------------------------
(***************************************************************************)
(* One room of the signaling relay, services/signaling/src/main.rs: a      *)
(* broadcast channel to which each connected client's peer_loop subscribes.*)
(* recv_task copies what a client writes to every subscriber, the writer   *)
(* included; send_task hands each subscriber what its receiver holds.  A   *)
(* message the relay has handed to a client's socket counts as read.       *)
(***************************************************************************)
EXTENDS Naturals, Sequences

CONSTANTS
    Conns,      \* the clients that connect to the room, once each
    Capacity    \* the broadcast channel keeps this many messages per receiver (64)

ASSUME RoomAssumption == Capacity \in Nat \ {0}

VARIABLES
    socket,     \* each client's websocket
    up,         \* what a client has written and its recv_task has not read
    backlog,    \* what a client's receiver holds
    lagged      \* whose receiver has been overrun

room == <<socket, up, backlog, lagged>>

RoomInit ==
    /\ socket = [c \in Conns |-> "none"]
    /\ up = [c \in Conns |-> <<>>]
    /\ backlog = [c \in Conns |-> <<>>]
    /\ lagged = [c \in Conns |-> FALSE]

\* peer_loop runs for the client: it has subscribed and not ended.
Member(c) == socket[c] \in {"joined", "closing"}

\* The client's connect has returned; the relay has not subscribed for it yet.
Upgrade(c) ==
    /\ socket[c] = "none"
    /\ socket' = [socket EXCEPT ![c] = "upgraded"]

\* The start of peer_loop: the client hears what is relayed from now on.
Subscribe(c) ==
    /\ socket[c] \in {"upgraded", "hung"}
    /\ socket' = [socket EXCEPT ![c] = IF @ = "hung" THEN "closing" ELSE "joined"]
    /\ UNCHANGED <<up, backlog, lagged>>

\* The client writes m; on a socket that is closed the message is lost.
Write(c, m) ==
    up' = IF socket[c] \in {"upgraded", "joined"} THEN [up EXCEPT ![c] = Append(@, m)] ELSE up

\* The channel keeps whatever was sent.
RelayUnbounded(c) ==
    /\ Member(c)
    /\ up[c] # <<>>
    /\ up' = [up EXCEPT ![c] = Tail(@)]
    /\ backlog' = [d \in Conns |-> IF Member(d) THEN Append(backlog[d], Head(up[c])) ELSE backlog[d]]
    /\ UNCHANGED <<socket, lagged>>

\* recv_task and tx.send: a full receiver loses its oldest message.
Relay(c) ==
    LET m == Head(up[c])
        full == {d \in Conns : Member(d) /\ Len(backlog[d]) = Capacity}
    IN  /\ Member(c)
        /\ up[c] # <<>>
        /\ up' = [up EXCEPT ![c] = Tail(@)]
        /\ backlog' = [d \in Conns |->
              IF ~ Member(d) THEN backlog[d]
              ELSE Append(IF d \in full THEN Tail(backlog[d]) ELSE backlog[d], m)]
        /\ lagged' = [d \in Conns |-> lagged[d] \/ (d \in full)]
        /\ UNCHANGED socket

\* The client reads its next message; recv gives a receiver that lagged an error instead.
Reads(c, m) ==
    /\ Member(c)
    /\ ~ lagged[c]
    /\ backlog[c] # <<>>
    /\ m = Head(backlog[c])
    /\ backlog' = [backlog EXCEPT ![c] = Tail(@)]
    /\ UNCHANGED <<socket, lagged>>

\* The client goes away, and the relay has not noticed.
Close(c) ==
    socket' = [socket EXCEPT ![c] = CASE @ = "joined" -> "closing"
                                      [] @ = "upgraded" -> "hung"
                                      [] OTHER -> @]

\* send_task ends with the error of a lagging receiver, recv_task with the
\* client's close: each takes the other with it, and what was under way is lost.
PeerLeft(c) ==
    /\ Member(c)
    /\ socket[c] = "closing" \/ lagged[c]
    /\ socket' = [socket EXCEPT ![c] = "gone"]
    /\ up' = [up EXCEPT ![c] = <<>>]
    /\ backlog' = [backlog EXCEPT ![c] = <<>>]
    /\ UNCHANGED lagged
=============================================================================
