--------------------------- MODULE MediaLinkProofs ---------------------------
(***************************************************************************)
(* Two peers that meet in a room of the relay, for any capacity of the     *)
(* room's channel and any number of candidates: what is under way is well  *)
(* formed, no peer takes its own candidates for the other's, and an answer *)
(* and, between portals, every candidate reaches a peer that stays.        *)
(***************************************************************************)
EXTENDS MediaLink, SequenceTheorems, TLAPS

USE PeersAssumption, RoomAssumption

----------------------------------------------------------------------------
\* Sequences: what is in one after an append and after the removal of its head.

Has(s, m) == \E i \in 1..Len(s) : s[i] = m

LEMMA HasAppend ==
    ASSUME NEW S, NEW s \in Seq(S), NEW e \in S
    PROVE  /\ Append(s, e) \in Seq(S)
           /\ Has(Append(s, e), e)
           /\ \A m : Has(s, m) => Has(Append(s, e), m)
           /\ \A m : Has(Append(s, e), m) => Has(s, m) \/ m = e
<1>1. /\ Append(s, e) \in Seq(S)
      /\ Len(Append(s, e)) = Len(s) + 1
      /\ \A i \in 1..Len(s) : Append(s, e)[i] = s[i]
      /\ Append(s, e)[Len(s) + 1] = e
  BY AppendProperties
<1>2. Len(s) \in Nat
  BY LenProperties
<1> QED
  BY <1>1, <1>2 DEF Has

LEMMA HasTail ==
    ASSUME NEW S, NEW s \in Seq(S), s # <<>>
    PROVE  /\ Head(s) \in S /\ Tail(s) \in Seq(S)
           /\ s[1] = Head(s) /\ Has(s, Head(s))
           /\ \A m : Has(Tail(s), m) => Has(s, m)
           /\ \A m : Has(s, m) => m = Head(s) \/ Has(Tail(s), m)
<1>1. /\ Head(s) \in S /\ Tail(s) \in Seq(S)
      /\ Len(Tail(s)) = Len(s) - 1
      /\ \A i \in 1..Len(Tail(s)) : Tail(s)[i] = s[i + 1]
  BY HeadTailProperties
<1>2. Len(s) \in Nat \ {0}
  BY EmptySeq
<1>3. Head(s) = s[1]
  BY <1>2
<1>4. ASSUME NEW m, Has(s, m) PROVE m = Head(s) \/ Has(Tail(s), m)
  <2>1. PICK i \in 1..Len(s) : s[i] = m
    BY <1>4 DEF Has
  <2>2. CASE i = 1
    BY <1>3, <2>1, <2>2
  <2>3. CASE i # 1
    <3>1. i - 1 \in 1..Len(Tail(s)) /\ Tail(s)[i - 1] = s[i]
      BY <1>1, <1>2, <2>1, <2>3
    <3> QED BY <2>1, <3>1 DEF Has
  <2> QED BY <2>2, <2>3
<1> QED
  BY <1>1, <1>2, <1>3, <1>4 DEF Has

LEMMA HasNothing == \A m : ~ Has(<<>>, m)
  BY DEF Has

----------------------------------------------------------------------------
\* Well-formed: the room's part, and the peers'.

Sockets == {"none", "upgraded", "hung", "joined", "closing", "gone"}

RoomTypeOK ==
    /\ socket \in [Peers -> Sockets]
    /\ up \in [Peers -> Seq(Message)]
    /\ backlog \in [Peers -> Seq(Message)]
    /\ \A c \in Peers : Len(backlog[c]) <= Capacity
    /\ lagged \in [Peers -> BOOLEAN]

PeerTypeOK ==
    /\ kind \in Kinds
    /\ main \in [Peers -> {"connect", "offer", "send_offer", "waiting", "listening"} \cup Ended]
    /\ answering \in [Peers -> BOOLEAN]
    /\ local \in [Peers -> BOOLEAN] /\ remote \in [Peers -> BOOLEAN]
    /\ known \in [Peers -> SUBSET (Peers \X (1..MaxCandidates))]
    /\ made \in [Peers -> 0..MaxCandidates]
    /\ linked \in [Peers -> BOOLEAN]
    /\ said \in [Peers -> BOOLEAN]
    /\ heard \in [Peers -> {"no", "lost", "yes"}]

LEMMA TypeParts == TypeOK <=> RoomTypeOK /\ PeerTypeOK
  BY DEF TypeOK, RoomTypeOK, PeerTypeOK, Sockets

LEMMA NextParts == RoomTypeOK' /\ PeerTypeOK' => TypeOK'
  BY DEF TypeOK, RoomTypeOK, PeerTypeOK, Sockets

LEMMA Messages ==
    ASSUME NEW p \in Peers
    PROVE  /\ [type |-> "offer", from |-> p] \in Message
           /\ [type |-> "answer", from |-> p] \in Message
           /\ \A n \in 1..MaxCandidates : [type |-> "ice", from |-> p, n |-> n] \in Message
  BY DEF Message

LEMMA MessageParts ==
    ASSUME NEW m \in Message
    PROVE  /\ m.type \in {"offer", "answer", "ice"} /\ m.from \in Peers
           /\ m.type = "ice" => m.n \in 1..MaxCandidates
  BY DEF Message

\* The steps of the sockets.
LEMMA UpgradeTyped == ASSUME RoomTypeOK, NEW c \in Peers, Upgrade(c)
                      PROVE  socket' \in [Peers -> Sockets]
  BY DEF RoomTypeOK, Upgrade, Sockets

LEMMA CloseTyped == ASSUME RoomTypeOK, NEW c \in Peers, Close(c)
                    PROVE  socket' \in [Peers -> Sockets]
<1>1. (CASE socket[c] = "joined" -> "closing"
         [] socket[c] = "upgraded" -> "hung"
         [] OTHER -> socket[c]) \in Sockets
  BY DEF RoomTypeOK, Sockets
<1> QED BY <1>1 DEF RoomTypeOK, Close

LEMMA WriteTyped == ASSUME RoomTypeOK, NEW c \in Peers, NEW m \in Message, Write(c, m)
                    PROVE  up' \in [Peers -> Seq(Message)]
<1>1. Append(up[c], m) \in Seq(Message)
  BY HasAppend DEF RoomTypeOK
<1> QED BY <1>1 DEF RoomTypeOK, Write

LEMMA ReadsTyped == ASSUME RoomTypeOK, NEW c \in Peers, NEW m, Reads(c, m)
                    PROVE  /\ backlog' \in [Peers -> Seq(Message)]
                           /\ \A d \in Peers : Len(backlog'[d]) <= Capacity
                           /\ m \in Message
<1>1. /\ backlog[c] \in Seq(Message) /\ backlog[c] # <<>> /\ m = Head(backlog[c])
      /\ backlog' = [backlog EXCEPT ![c] = Tail(@)]
  BY DEF RoomTypeOK, Reads
<1>2. /\ Tail(backlog[c]) \in Seq(Message) /\ m \in Message
      /\ Len(Tail(backlog[c])) = Len(backlog[c]) - 1 /\ Len(backlog[c]) \in Nat
  BY <1>1, HeadTailProperties, LenProperties
<1>3. Len(Tail(backlog[c])) <= Capacity
  BY <1>2 DEF RoomTypeOK
<1> QED BY <1>1, <1>2, <1>3 DEF RoomTypeOK

\* A receiver that is full loses a message before it takes one.
LEMMA RelayTyped == ASSUME RoomTypeOK, NEW c \in Peers, Relay(c) PROVE RoomTypeOK'
<1> DEFINE m == Head(up[c])
           full == {d \in Conns : Member(d) /\ Len(backlog[d]) = Capacity}
           kept(d) == IF d \in full THEN Tail(backlog[d]) ELSE backlog[d]
<1>1. m \in Message /\ Tail(up[c]) \in Seq(Message)
  BY HasTail DEF RoomTypeOK, Relay
<1>2. up' \in [Peers -> Seq(Message)] /\ socket' = socket
  BY <1>1 DEF RoomTypeOK, Relay
<1>3. lagged' = [d \in Peers |-> lagged[d] \/ (d \in full)]
  BY DEF Relay
<1>4. lagged' \in [Peers -> BOOLEAN]
  BY <1>3 DEF RoomTypeOK
<1>5. backlog' = [d \in Peers |-> IF ~ Member(d) THEN backlog[d] ELSE Append(kept(d), m)]
  BY DEF Relay
<1>6. ASSUME NEW d \in Peers
      PROVE  /\ backlog[d] \in Seq(Message) /\ Len(backlog[d]) \in Nat /\ Len(backlog[d]) <= Capacity
             /\ kept(d) \in Seq(Message)
             /\ Member(d) => Len(kept(d)) < Capacity
  <2>1. backlog[d] \in Seq(Message) /\ Len(backlog[d]) \in Nat /\ Len(backlog[d]) <= Capacity
    BY LenProperties DEF RoomTypeOK
  <2>2. CASE d \in full
    <3>1. Len(backlog[d]) = Capacity /\ backlog[d] # <<>>
      BY <2>2
    <3>2. Tail(backlog[d]) \in Seq(Message) /\ Len(Tail(backlog[d])) = Len(backlog[d]) - 1
      BY <2>1, <3>1, HeadTailProperties
    <3> QED BY <2>1, <2>2, <3>1, <3>2
  <2>3. CASE d \notin full
    BY <2>1, <2>3
  <2> QED BY <2>1, <2>2, <2>3
<1> HIDE DEF m, full, kept
<1>7. ASSUME NEW d \in Peers
      PROVE  backlog'[d] \in Seq(Message) /\ Len(backlog'[d]) <= Capacity
  <2>1. Append(kept(d), m) \in Seq(Message) /\ Len(Append(kept(d), m)) = Len(kept(d)) + 1
    BY <1>1, <1>6, AppendProperties
  <2>2. Len(kept(d)) \in Nat
    BY <1>6, LenProperties
  <2> QED BY <1>5, <1>6, <2>1, <2>2
<1> QED BY <1>2, <1>4, <1>5, <1>7 DEF RoomTypeOK

LEMMA ServerTyped == ASSUME RoomTypeOK, NEW c \in Peers, RelayStep(c) PROVE RoomTypeOK'
<1>1. CASE Subscribe(c)
  <2>1. (IF socket[c] = "hung" THEN "closing" ELSE "joined") \in Sockets
    BY DEF Sockets
  <2> QED BY <1>1, <2>1 DEF Subscribe, RoomTypeOK
<1>2. CASE Relay(c)
  BY <1>2, RelayTyped
<1>3. CASE PeerLeft(c)
  <2>1. <<>> \in Seq(Message) /\ Len(<<>>) = 0 /\ "gone" \in Sockets
    BY DEF Sockets
  <2> QED BY <1>3, <2>1 DEF PeerLeft, RoomTypeOK
<1> QED BY <1>1, <1>2, <1>3 DEF RelayStep

LEMMA QuitTyped ==
    ASSUME TypeOK, NEW p \in Peers, NEW how \in Ended, Quit(p, how)
    PROVE  TypeOK'
<1>1. RoomTypeOK'
  BY CloseTyped, TypeParts DEF Quit, RoomTypeOK
<1>2. PeerTypeOK'
  BY TypeParts DEF Quit, PeerTypeOK, pc
<1> QED BY <1>1, <1>2, NextParts

LEMMA ReceiveTyped == ASSUME TypeOK, NEW p \in Peers, Receive(p) PROVE TypeOK'
<1>1. PICK m \in Message :
         /\ Reads(p, m)
         /\ HandleOffer(p, m) \/ HandleAnswer(p, m) \/ HandleIce(p, m) \/ Ignore(p, m)
  BY DEF Receive
<1>2. up' \in [Peers -> Seq(Message)]
  <2>1. CASE HandleOffer(p, m)
    BY <2>1, WriteTyped, Messages, TypeParts DEF HandleOffer, RoomTypeOK
  <2>2. CASE ~ HandleOffer(p, m)
    BY <1>1, <2>2, TypeParts DEF HandleAnswer, HandleIce, Ignore, RoomTypeOK
  <2> QED BY <2>1, <2>2
<1>3. RoomTypeOK'
  BY <1>1, <1>2, ReadsTyped, TypeParts DEF RoomTypeOK, Reads
<1>4. PeerTypeOK'
  <2> USE TypeParts DEF PeerTypeOK, Receive
  <2>1. CASE HandleOffer(p, m)
    BY <2>1 DEF HandleOffer
  <2>2. CASE HandleAnswer(p, m)
    BY <2>2 DEF HandleAnswer
  <2>3. CASE HandleIce(p, m)
    <3>1. <<m.from, m.n>> \in Peers \X (1..MaxCandidates)
      BY <2>3, MessageParts DEF HandleIce
    <3> QED BY <2>3, <3>1 DEF HandleIce
  <2>4. CASE Ignore(p, m)
    BY <2>4 DEF Ignore, pc
  <2> QED BY <1>1, <2>1, <2>2, <2>3, <2>4
<1> QED BY <1>3, <1>4, NextParts

LEMMA CandidateTyped == ASSUME TypeOK, NEW p \in Peers, Candidate(p) PROVE TypeOK'
<1>1. made[Offerer] \in Nat /\ made[Answerer] \in Nat /\ made[p] \in {made[Offerer], made[Answerer]}
  BY TypeParts DEF PeerTypeOK, Peers
<1>2. made[p] + 1 \in 1..MaxCandidates
  BY <1>1 DEF Candidate
<1>3. RoomTypeOK'
  BY <1>2, WriteTyped, Messages, TypeParts DEF Candidate, RoomTypeOK
<1>4. PeerTypeOK'
  BY <1>2, TypeParts DEF Candidate, PeerTypeOK
<1> QED BY <1>3, <1>4, NextParts

LEMMA MainTyped ==
    ASSUME TypeOK, NEW p \in Peers,
           \/ Connect(p) \/ Describe(p) \/ SendOffer(p) \/ PortalOffer(p) \/ SendAnswer(p)
           \/ SeesLink(p) \/ Stack(p)
    PROVE  TypeOK'
<1>1. CASE Connect(p)
  <2>1. RoomTypeOK'
    BY <1>1, UpgradeTyped, TypeParts DEF Connect, RoomTypeOK
  <2>2. PeerTypeOK'
    BY <1>1, TypeParts DEF Connect, PeerTypeOK, pc
  <2> QED BY <2>1, <2>2, NextParts
<1>2. CASE SendOffer(p) \/ PortalOffer(p) \/ SendAnswer(p)
  <2>1. RoomTypeOK'
    BY <1>2, WriteTyped, Messages, TypeParts DEF SendOffer, PortalOffer, SendAnswer, RoomTypeOK
  <2>2. PeerTypeOK'
    BY <1>2, TypeParts DEF SendOffer, PortalOffer, SendAnswer, PeerTypeOK, pc
  <2> QED BY <2>1, <2>2, NextParts
<1>3. CASE Describe(p) \/ SeesLink(p) \/ Stack(p)
  <2>1. RoomTypeOK'
    BY <1>3, TypeParts DEF Describe, SeesLink, Stack, Link, Hello, HearHello, room, RoomTypeOK
  <2>2. PeerTypeOK'
    BY <1>3, TypeParts DEF Describe, SeesLink, Stack, Link, Hello, HearHello, PeerTypeOK, pc
  <2> QED BY <2>1, <2>2, NextParts
<1> QED BY <1>1, <1>2, <1>3

LEMMA TypeStep == ASSUME TypeOK, [Next]_vars PROVE TypeOK'
<1>1. ASSUME NEW c \in Peers, Server(c) PROVE TypeOK'
  <2>1. RoomTypeOK'
    BY <1>1, ServerTyped, TypeParts DEF Server
  <2>2. PeerTypeOK'
    BY <1>1, TypeParts DEF Server, PeerTypeOK, pc
  <2> QED BY <2>1, <2>2, NextParts
<1>2. ASSUME NEW p \in Peers, Step(p) \/ Candidate(p) \/ Stack(p) PROVE TypeOK'
  BY <1>2, MainTyped, ReceiveTyped, CandidateTyped DEF Step, Work
<1>3. ASSUME NEW p \in Peers, NEW how \in Ended, Quit(p, how) PROVE TypeOK'
  BY <1>3, QuitTyped
<1>4. ASSUME NEW p \in Peers, Timer(p) \/ Done(p) PROVE TypeOK'
  BY <1>4, <1>3 DEF Timer, LinkTimeout, Listen, Done, Ended
<1>5. CASE Kill
  BY <1>5, <1>3 DEF Kill, Ended, Peers
<1>6. CASE UNCHANGED vars
  <2>1. RoomTypeOK'
    BY <1>6, TypeParts DEF vars, room, RoomTypeOK
  <2>2. PeerTypeOK'
    BY <1>6, TypeParts DEF vars, pc, PeerTypeOK
  <2> QED BY <2>1, <2>2, NextParts
<1> QED BY <1>1, <1>2, <1>4, <1>5, <1>6 DEF Next

LEMMA InitType == Init => TypeOK
<1>1. <<>> \in Seq(Message) /\ Len(<<>>) = 0
  OBVIOUS
<1> QED BY <1>1 DEF Init, RoomInit, TypeOK

\* What is under way is a message, and a receiver never holds more than its channel keeps.
THEOREM RoomTyped == Spec => []TypeOK
<1> QED BY InitType, TypeStep, PTL DEF Spec

----------------------------------------------------------------------------
\* What holds of the peers, and of what is under way between them.

Open(q) == socket[q] \in {"upgraded", "joined"}
Joined(q) == socket[q] = "joined"
Subscribed(q) == socket[q] \in {"joined", "closing", "gone"}

\* The messages a peer writes: one description, and its candidates.
Desc(q) == [type |-> IF q = Offerer THEN "offer" ELSE "answer", from |-> q]
Ice(q, n) == [type |-> "ice", from |-> q, n |-> n]
Says(q, m) == local[q] /\ (m = Desc(q) \/ \E n \in 1..made[q] : m = Ice(q, n))

\* Where a peer's main function is tells what its peer connection has.
MainInv ==
    /\ \A p \in Peers :
        /\ main[p] \in {"offer", "send_offer"} => p = Offerer
        /\ main[p] = "send_offer" => local[p] /\ kind = "lab"
        /\ main[p] = "connect" => ~ local[p]
        /\ main[p] = "offer" /\ kind = "portal" => ~ local[p]
        /\ made[p] > 0 => local[p]
        /\ answering[p] => p = Answerer /\ remote[p] /\ kind = "lab"
        /\ remote[p] => Subscribed(p)
    /\ local[Answerer] <=> remote[Answerer]
    /\ remote[Answerer] => local[Offerer] /\ Subscribed(Offerer)

\* Nobody speaks for another peer, nor before it has set its description.
SaidInv ==
    \A p \in Peers :
        /\ \A m \in Message : Has(up[p], m) => Says(p, m)
        /\ ~ Member(p) => backlog[p] = <<>>
        /\ ~ lagged[p] =>
              \A m \in Message : Has(backlog[p], m) => \E q \in Peers : Subscribed(q) /\ Says(q, m)
        /\ \A c \in known[p] : \E n \in 1..made[Other(p)] : c = <<Other(p), n>>

\* An answer that was begun is on its way, or has arrived.
AnswerInv ==
    remote[Answerer] /\ Joined(Answerer) /\ Joined(Offerer) /\ ~ lagged[Offerer] =>
        \/ remote[Offerer] \/ answering[Answerer]
        \/ Has(up[Answerer], Desc(Answerer)) \/ Has(backlog[Offerer], Desc(Answerer))

\* A portal's description comes before its candidates.
DescFirst(q) == \A i \in 1..Len(up[q]) : up[q][i] = Desc(q) => i = 1
NoneBefore(p, q) ==
    /\ Has(up[q], Desc(q)) => \A j \in 1..Len(backlog[p]) : backlog[p][j].from # q
    /\ \A j \in 1..Len(backlog[p]) : backlog[p][j] = Desc(q) =>
          \A i \in 1..(j - 1) : backlog[p][i].from # q

OrderInv ==
    kind = "portal" => \A q \in Peers :
        /\ DescFirst(q)
        /\ \A p \in Peers : ~ lagged[p] => NoneBefore(p, q)

\* Behind a portal's description come all of its candidates.
Through(p, q) == remote[p] \/ Has(backlog[p], Desc(q))
AllWritten(q) == Has(up[q], Desc(q)) => \A n \in 1..made[q] : Has(up[q], Ice(q, n))
AllUnderWay(p, q) ==
    Joined(p) /\ ~ lagged[p] /\ Through(p, q) =>
        \A n \in 1..made[q] :
            <<q, n>> \in known[p] \/ Has(up[q], Ice(q, n)) \/ Has(backlog[p], Ice(q, n))

CandidateInv ==
    kind = "portal" => \A q \in Peers : Open(q) => AllWritten(q) /\ AllUnderWay(Other(q), q)

----------------------------------------------------------------------------
\* The steps, by what they do to what is under way.

Others == UNCHANGED <<kind, answering, local, remote, known, made>>

LEMMA Two == \A p \in Peers : /\ p \in {Offerer, Answerer} /\ Other(p) \in Peers /\ Other(p) # p
                              /\ \A q \in Peers : q # p <=> q = Other(p)
  BY DEF Peers, Other

LEMMA StepForms ==
    ASSUME [Next]_vars
    PROVE  \/ \E p \in Peers : Server(p)
           \/ \E p \in Peers : \/ Connect(p) \/ Describe(p) \/ SendOffer(p) \/ PortalOffer(p)
                               \/ Receive(p) \/ SendAnswer(p) \/ Candidate(p)
           \/ \E p \in Peers : \E how \in Ended : Quit(p, how)
           \/ Others /\ UNCHANGED room /\ \E p \in Peers : main' \in {main, [main EXCEPT ![p] = "listening"]}
<1>1. ASSUME NEW p \in Peers, Timer(p) \/ Done(p)
      PROVE  \E how \in Ended : Quit(p, how)
  BY <1>1 DEF Timer, LinkTimeout, Listen, Done, Ended
<1>2. CASE Kill
  BY <1>2 DEF Kill, Ended, Peers
<1>3. ASSUME NEW p \in Peers, SeesLink(p) \/ Stack(p)
      PROVE  Others /\ UNCHANGED room /\ main' \in {main, [main EXCEPT ![p] = "listening"]}
  BY <1>3 DEF SeesLink, Stack, Link, Hello, HearHello, Others, pc, room
<1>4. CASE UNCHANGED vars
  <2>1. Offerer \in Peers
    BY DEF Peers
  <2> QED BY <1>4, <2>1 DEF vars, Others, pc, room
<1> QED BY <1>1, <1>2, <1>3, <1>4 DEF Next, Step, Work

LEMMA CloseForms ==
    ASSUME TypeOK, NEW c \in Peers, Close(c), NEW q \in Peers
    PROVE  /\ socket'[q] = socket[q] \/ (Open(q) /\ socket'[q] \in {"closing", "hung"})
           /\ Open(q)' => Open(q)
           /\ Joined(q)' => Joined(q)
           /\ Subscribed(q)' <=> Subscribed(q)
           /\ Member(q)' <=> Member(q)
<1>1. socket'[c] = CASE socket[c] = "joined" -> "closing"
                     [] socket[c] = "upgraded" -> "hung"
                     [] OTHER -> socket[c]
  BY TypeParts DEF Close, RoomTypeOK
<1>2. q # c => socket'[q] = socket[q]
  BY TypeParts DEF Close, RoomTypeOK
<1> QED BY <1>1, <1>2 DEF Open, Joined, Subscribed, Member

LEMMA WriteForms ==
    ASSUME TypeOK, NEW c \in Peers, NEW m \in Message, Write(c, m)
    PROVE  /\ \A q \in Peers : q # c => up'[q] = up[q]
           /\ up'[c] = IF Open(c) THEN Append(up[c], m) ELSE up[c]
           /\ \A e : Has(up[c], e) => Has(up'[c], e)
           /\ \A e : Has(up'[c], e) => Has(up[c], e) \/ e = m
           /\ Open(c) => Has(up'[c], m)
<1>1. up[c] \in Seq(Message)
  BY TypeParts DEF RoomTypeOK
<1>2. /\ \A q \in Peers : q # c => up'[q] = up[q]
      /\ up'[c] = IF Open(c) THEN Append(up[c], m) ELSE up[c]
  BY TypeParts DEF RoomTypeOK, Write, Open
<1> QED BY <1>1, <1>2, HasAppend

\* Of a receiver that is not overrun.
LEMMA RelayForms ==
    ASSUME TypeOK, NEW c \in Peers, Relay(c)
    PROVE  /\ Member(c) /\ up[c] # <<>> /\ Has(up[c], Head(up[c]))
           /\ up[c][1] = Head(up[c]) /\ Head(up[c]) \in Message
           /\ up'[c] = Tail(up[c]) /\ \A q \in Peers : q # c => up'[q] = up[q]
           /\ \A e : Has(up'[c], e) => Has(up[c], e)
           /\ \A e : Has(up[c], e) => e = Head(up[c]) \/ Has(up'[c], e)
           /\ \A p \in Peers : ~ lagged'[p] =>
                 /\ ~ lagged[p]
                 /\ backlog'[p] = IF Member(p) THEN Append(backlog[p], Head(up[c])) ELSE backlog[p]
                 /\ \A e : Has(backlog[p], e) => Has(backlog'[p], e)
                 /\ \A e : Has(backlog'[p], e) => Has(backlog[p], e) \/ e = Head(up[c])
                 /\ Member(p) => Has(backlog'[p], Head(up[c]))
<1>1. up[c] \in Seq(Message) /\ up[c] # <<>> /\ Member(c)
  BY TypeParts DEF RoomTypeOK, Relay
<1>2. up'[c] = Tail(up[c]) /\ \A q \in Peers : q # c => up'[q] = up[q]
  BY TypeParts DEF RoomTypeOK, Relay
<1>3. ASSUME NEW p \in Peers, ~ lagged'[p]
      PROVE  /\ ~ lagged[p]
             /\ backlog'[p] = IF Member(p) THEN Append(backlog[p], Head(up[c])) ELSE backlog[p]
  BY <1>3, TypeParts DEF RoomTypeOK, Relay
<1>4. \A p \in Peers : backlog[p] \in Seq(Message)
  BY TypeParts DEF RoomTypeOK
<1> QED BY <1>1, <1>2, <1>3, <1>4, HasAppend, HasTail

LEMMA ReadForms ==
    ASSUME TypeOK, NEW p \in Peers, NEW m, Reads(p, m)
    PROVE  /\ m \in Message /\ Has(backlog[p], m) /\ backlog[p][1] = m /\ backlog[p] # <<>>
           /\ Member(p) /\ ~ lagged[p]
           /\ backlog'[p] = Tail(backlog[p])
           /\ \A q \in Peers : q # p => backlog'[q] = backlog[q]
           /\ \A e : Has(backlog'[p], e) => Has(backlog[p], e)
           /\ \A e : Has(backlog[p], e) => e = m \/ Has(backlog'[p], e)
           /\ UNCHANGED <<socket, lagged>>
<1>1. /\ backlog[p] \in Seq(Message) /\ backlog[p] # <<>> /\ m = Head(backlog[p])
      /\ Member(p) /\ ~ lagged[p] /\ UNCHANGED <<socket, lagged>>
  BY TypeParts DEF RoomTypeOK, Reads
<1>2. backlog'[p] = Tail(backlog[p]) /\ \A q \in Peers : q # p => backlog'[q] = backlog[q]
  BY TypeParts DEF RoomTypeOK, Reads
<1> QED BY <1>1, <1>2, HasTail

LEMMA LeftForms ==
    ASSUME TypeOK, NEW c \in Peers, PeerLeft(c)
    PROVE  /\ Member(c) /\ socket'[c] = "gone" /\ up'[c] = <<>> /\ backlog'[c] = <<>>
           /\ \A q \in Peers : q # c =>
                 socket'[q] = socket[q] /\ up'[q] = up[q] /\ backlog'[q] = backlog[q]
           /\ lagged' = lagged
  BY TypeParts DEF RoomTypeOK, PeerLeft

LEMMA SubscribeForms ==
    ASSUME TypeOK, NEW c \in Peers, Subscribe(c)
    PROVE  /\ socket[c] \in {"upgraded", "hung"} /\ socket'[c] \in {"joined", "closing"}
           /\ socket'[c] = "joined" => socket[c] = "upgraded"
           /\ \A q \in Peers : q # c => socket'[q] = socket[q]
           /\ UNCHANGED <<up, backlog, lagged>>
  BY TypeParts DEF RoomTypeOK, Subscribe

----------------------------------------------------------------------------
\* What was said stays said, and a client that subscribed has subscribed.

Grows ==
    \A q \in Peers :
        /\ local[q] => local'[q]
        /\ made[q] \in Nat /\ made'[q] \in Nat /\ made[q] <= made'[q]
        /\ Subscribed(q) => Subscribed(q)'
        /\ lagged[q] => lagged'[q]
        /\ kind' = kind

LEMMA ServerGrows == ASSUME TypeOK, NEW c \in Peers, Server(c) PROVE Grows
<1>1. \A q \in Peers : made[q] \in Nat
  BY TypeParts DEF PeerTypeOK
<1>2. UNCHANGED <<kind, local, made>>
  BY DEF Server, pc
<1>3. CASE Subscribe(c)
  BY <1>1, <1>2, <1>3, SubscribeForms DEF Grows, Subscribed
<1>4. CASE Relay(c)
  <2>1. socket' = socket /\ \A q \in Peers : lagged[q] => lagged'[q]
    BY <1>4, RelayForms, TypeParts DEF Relay, RoomTypeOK
  <2> QED BY <1>1, <1>2, <2>1 DEF Grows, Subscribed
<1>5. CASE PeerLeft(c)
  BY <1>1, <1>2, <1>5, LeftForms DEF Grows, Subscribed
<1> QED BY <1>3, <1>4, <1>5 DEF Server, RelayStep

LEMMA ReceiveForms ==
    ASSUME TypeOK, NEW p \in Peers, Receive(p)
    PROVE  \E m \in Message :
              /\ Reads(p, m)
              /\ HandleOffer(p, m) \/ HandleAnswer(p, m) \/ HandleIce(p, m) \/ Ignore(p, m)
              /\ UNCHANGED <<kind, main, made>>
              /\ \A q \in Peers : q # p => /\ local'[q] = local[q] /\ remote'[q] = remote[q]
                                           /\ known'[q] = known[q] /\ answering'[q] = answering[q]
              /\ \A q \in Peers : local[q] => local'[q]
  BY TypeParts DEF Receive, HandleOffer, HandleAnswer, HandleIce, Ignore, pc, PeerTypeOK

LEMMA StepGrows == ASSUME TypeOK, [Next]_vars PROVE Grows
<1>0. \A q \in Peers : made[q] \in Nat
  BY TypeParts DEF PeerTypeOK
<1>1. ASSUME NEW p \in Peers, Connect(p) PROVE Grows
  <2>1. \A q \in Peers : Subscribed(q) => Subscribed(q)'
    BY <1>1, TypeParts DEF Connect, Upgrade, RoomTypeOK, Subscribed
  <2> QED BY <1>0, <1>1, <2>1 DEF Connect, Grows, pc
<1>2. ASSUME NEW p \in Peers, Describe(p) \/ SendOffer(p) \/ PortalOffer(p) \/ SendAnswer(p) PROVE Grows
  BY <1>0, <1>2, TypeParts
     DEF Describe, SendOffer, PortalOffer, SendAnswer, Grows, Subscribed, room, pc, PeerTypeOK
<1>3. ASSUME NEW p \in Peers, Receive(p) PROVE Grows
  BY <1>0, <1>3, ReceiveForms DEF Reads, Grows, Subscribed
<1>4. ASSUME NEW p \in Peers, Candidate(p) PROVE Grows
  BY <1>0, <1>4, TypeParts DEF Candidate, Grows, Subscribed, PeerTypeOK
<1>5. ASSUME NEW p \in Peers, NEW how \in Ended, Quit(p, how) PROVE Grows
  BY <1>0, <1>5, CloseForms DEF Quit, Grows, pc
<1>6. CASE Others /\ UNCHANGED room
  BY <1>0, <1>6 DEF Others, room, Grows, Subscribed
<1> QED BY <1>1, <1>2, <1>3, <1>4, <1>5, <1>6, ServerGrows, StepForms

LEMMA SaysGrows ==
    ASSUME Grows, NEW q \in Peers, NEW m, Says(q, m)
    PROVE  Says(q, m)'
<1>1. CASE m = Desc(q)
  BY <1>1 DEF Says, Grows, Desc
<1>2. ASSUME NEW n \in 1..made[q], m = Ice(q, n) PROVE Says(q, m)'
  <2>1. n \in 1..made'[q] /\ local'[q]
    BY DEF Grows, Says
  <2> QED BY <1>2, <2>1 DEF Says, Ice
<1> QED BY <1>1, <1>2 DEF Says

\* A message names the peer that wrote it.
LEMMA SaysParts ==
    ASSUME NEW q \in Peers, NEW m, Says(q, m)
    PROVE  /\ local[q] /\ m.from = q
           /\ m.type = "offer" => q = Offerer /\ m = Desc(q)
           /\ m.type = "answer" => q = Answerer /\ m = Desc(q)
           /\ m.type = "ice" => m.n \in 1..made[q] /\ m = Ice(q, m.n)
  BY DEF Says, Desc, Ice, Peers

\* What a peer reads was said by one that has subscribed.
LEMMA ReadSaid ==
    ASSUME TypeOK, SaidInv, NEW p \in Peers, NEW m, Reads(p, m)
    PROVE  Subscribed(m.from) /\ Says(m.from, m) /\ m.from \in Peers
<1>1. m \in Message /\ Has(backlog[p], m) /\ ~ lagged[p]
  BY ReadForms
<1>2. PICK q \in Peers : Subscribed(q) /\ Says(q, m)
  BY <1>1 DEF SaidInv
<1> QED BY <1>2, SaysParts

LEMMA DescSaid == \A q \in Peers : Desc(q) \in Message /\ Desc(q).from = q /\ Desc(q).type # "ice"
  BY DEF Desc, Message, Peers

LEMMA MainStep ==
    ASSUME TypeOK, MainInv, SaidInv, [Next]_vars
    PROVE  MainInv'
<1> USE DEF MainInv, Subscribed
<1>0. /\ local \in [Peers -> BOOLEAN] /\ remote \in [Peers -> BOOLEAN]
      /\ answering \in [Peers -> BOOLEAN]
      /\ DOMAIN main = Peers /\ DOMAIN made = Peers /\ Offerer \in Peers /\ Answerer \in Peers
      /\ \A q \in Peers : made[q] \in Nat
  BY TypeParts DEF PeerTypeOK, Peers
<1>g. Grows
  BY StepGrows
<1>1. ASSUME NEW p \in Peers, Server(p) PROVE MainInv'
  BY <1>1, <1>g, <1>0 DEF Server, pc, Grows
<1>2. ASSUME NEW p \in Peers, Connect(p) PROVE MainInv'
  <2>1. main' = [main EXCEPT ![p] = IF p = Offerer THEN "offer" ELSE "waiting"]
        /\ main[p] = "connect" /\ UNCHANGED <<kind, answering, local, remote, made>>
    BY <1>2 DEF Connect, pc
  <2> QED BY <1>0, <1>g, <2>1 DEF Grows
<1>3. ASSUME NEW p \in Peers, Describe(p) PROVE MainInv'
  <2>1. /\ main' = [main EXCEPT ![p] = "send_offer"] /\ local' = [local EXCEPT ![p] = TRUE]
        /\ main[p] = "offer" /\ kind = "lab" /\ UNCHANGED <<socket, kind, answering, remote, made>>
    BY <1>3 DEF Describe, room
  <2> QED BY <1>0, <2>1
<1>4. ASSUME NEW p \in Peers, SendOffer(p) PROVE MainInv'
  <2>1. /\ main' = [main EXCEPT ![p] = "waiting"]
        /\ UNCHANGED <<socket, kind, local, answering, remote, made>>
    BY <1>4 DEF SendOffer, pc
  <2> QED BY <1>0, <2>1
<1>5. ASSUME NEW p \in Peers, PortalOffer(p) PROVE MainInv'
  <2>1. /\ main' = [main EXCEPT ![p] = "waiting"] /\ local' = [local EXCEPT ![p] = TRUE]
        /\ main[p] = "offer" /\ UNCHANGED <<socket, kind, answering, remote, made>>
    BY <1>5 DEF PortalOffer
  <2> QED BY <1>0, <2>1
<1>6. ASSUME NEW p \in Peers, SendAnswer(p) PROVE MainInv'
  <2>1. /\ answering' = [answering EXCEPT ![p] = FALSE]
        /\ UNCHANGED <<socket, kind, main, local, remote, made>>
    BY <1>6 DEF SendAnswer, pc
  <2> QED BY <1>0, <2>1
<1>7. ASSUME NEW p \in Peers, Candidate(p) PROVE MainInv'
  <2>1. /\ local[p] /\ made' = [made EXCEPT ![p] = @ + 1]
        /\ UNCHANGED <<socket, kind, main, local, remote, answering>>
    BY <1>7 DEF Candidate
  <2> QED BY <1>0, <2>1
<1>8. ASSUME NEW p \in Peers, Receive(p) PROVE MainInv'
  <2>1. PICK m \in Message :
              /\ Reads(p, m)
              /\ HandleOffer(p, m) \/ HandleAnswer(p, m) \/ HandleIce(p, m) \/ Ignore(p, m)
              /\ UNCHANGED <<kind, main, made>>
    BY <1>8, ReceiveForms
  <2>2. Says(m.from, m) /\ socket[m.from] \in {"joined", "closing", "gone"} /\ Member(p) /\ m.from \in Peers
    BY <2>1, ReadSaid, ReadForms
  <2>3. Subscribed(p) /\ socket' = socket /\ Reading(p)
    BY <1>8, <2>1, <2>2, ReadForms DEF Member, Receive
  <2>4. CASE HandleOffer(p, m)
    <3>1. m.type = "offer" /\ p = Answerer /\ m.from = Offerer /\ local[Offerer]
      BY <2>2, <2>4, SaysParts DEF HandleOffer, Applies
    <3>2. /\ local' = [local EXCEPT ![p] = TRUE] /\ remote' = [remote EXCEPT ![p] = TRUE]
          /\ answering' = [answering EXCEPT ![p] = kind = "lab"]
      BY <2>4 DEF HandleOffer
    <3> QED BY <1>0, <2>1, <2>2, <2>3, <3>1, <3>2 DEF Reading
  <2>5. CASE HandleAnswer(p, m)
    <3>1. /\ p = Offerer /\ remote' = [remote EXCEPT ![p] = TRUE] /\ UNCHANGED <<local, answering>>
      BY <2>5 DEF HandleAnswer, Applies
    <3> QED BY <1>0, <2>1, <2>3, <3>1
  <2>6. CASE HandleIce(p, m) \/ Ignore(p, m)
    BY <1>0, <2>1, <2>3, <2>6 DEF HandleIce, Ignore, pc
  <2> QED BY <2>1, <2>4, <2>5, <2>6
<1>9. ASSUME NEW p \in Peers, NEW how \in Ended, Quit(p, how) PROVE MainInv'
  <2>1. main' = [main EXCEPT ![p] = how] /\ UNCHANGED <<kind, answering, local, remote, made>>
    BY <1>9 DEF Quit, pc
  <2> QED BY <1>0, <1>9, <1>g, <2>1 DEF Grows, Ended
<1>10. ASSUME NEW p \in Peers, Others, UNCHANGED room, main' \in {main, [main EXCEPT ![p] = "listening"]}
       PROVE  MainInv'
  BY <1>0, <1>10 DEF Others, room
<1> QED BY <1>1, <1>2, <1>3, <1>4, <1>5, <1>6, <1>7, <1>8, <1>9, <1>10, StepForms

----------------------------------------------------------------------------
\* Nobody speaks for another.

\* What a peer writes in a step, it says.
LEMMA WritesSay ==
    ASSUME TypeOK, MainInv, NEW p \in Peers,
           SendOffer(p) \/ PortalOffer(p) \/ SendAnswer(p) \/ Candidate(p)
    PROVE  \E m \in Message :
              /\ Write(p, m) /\ Says(p, m)'
              /\ SendOffer(p) \/ PortalOffer(p) \/ SendAnswer(p) => m = Desc(p)
              /\ Candidate(p) => m = Ice(p, made[p] + 1) /\ local[p]
<1>0. /\ local \in [Peers -> BOOLEAN] /\ DOMAIN made = Peers /\ made[p] \in Nat
      /\ Offerer \in Peers /\ Answerer \in Peers
  BY TypeParts DEF PeerTypeOK, Peers
<1>1. CASE SendOffer(p) \/ PortalOffer(p)
  <2>1. p = Offerer /\ Write(p, [type |-> "offer", from |-> p]) /\ local'[p]
    BY <1>0, <1>1 DEF SendOffer, PortalOffer, MainInv, pc
  <2>2. Desc(p) = [type |-> "offer", from |-> p]
    BY <2>1 DEF Desc
  <2>3. ~ Candidate(p)
    BY <1>1, <1>0 DEF SendOffer, PortalOffer, Candidate, pc
  <2> QED BY <2>1, <2>2, <2>3, DescSaid DEF Says, Desc
<1>2. CASE SendAnswer(p)
  <2>1. p = Answerer /\ Write(p, [type |-> "answer", from |-> p]) /\ local'[p]
    BY <1>0, <1>2 DEF SendAnswer, MainInv, pc
  <2>2. Desc(p) = [type |-> "answer", from |-> p]
    BY <2>1 DEF Desc
  <2>3. ~ Candidate(p)
    BY <1>2, <1>0 DEF SendAnswer, Candidate, pc
  <2> QED BY <2>1, <2>2, <2>3, DescSaid DEF Says, Desc
<1>3. CASE Candidate(p)
  <2>1. /\ made' = [made EXCEPT ![p] = @ + 1] /\ local'[p] /\ local[p]
        /\ Write(p, Ice(p, made[p] + 1))
    BY <1>3 DEF Candidate, Ice
  <2>2. made[p] + 1 \in 1..made'[p] /\ made[p] + 1 \in 1..MaxCandidates
    <3>1. made' \in [Peers -> 0..MaxCandidates]
      BY <1>3, CandidateTyped DEF TypeOK
    <3>2. made'[p] = made[p] + 1
      BY <1>0, <2>1
    <3> QED BY <1>0, <3>1, <3>2
  <2>3. Ice(p, made[p] + 1) \in Message
    BY <2>2, Messages DEF Ice
  <2>4. ~ SendOffer(p) /\ ~ PortalOffer(p) /\ ~ SendAnswer(p)
    BY <1>3, <1>0, <2>1 DEF SendOffer, PortalOffer, SendAnswer, pc
  <2>5. PICK m \in Message : m = Ice(p, made[p] + 1)
    BY <2>3
  <2>6. Says(p, m)'
    BY <2>1, <2>2, <2>5 DEF Says, Ice
  <2> QED BY <2>1, <2>4, <2>5, <2>6
<1> QED BY <1>1, <1>2, <1>3

LEMMA UpChanges ==
    ASSUME TypeOK, MainInv, SaidInv, [Next]_vars, NEW p \in Peers, NEW m \in Message, Has(up'[p], m)
    PROVE  Has(up[p], m) \/ Says(p, m)'
<1>1. ASSUME NEW c \in Peers, Server(c) PROVE Has(up[p], m)
  <2>1. CASE Subscribe(c)
    BY <2>1, SubscribeForms
  <2>2. CASE Relay(c)
    BY <2>2, RelayForms
  <2>3. CASE PeerLeft(c)
    BY <2>3, LeftForms, HasNothing
  <2> QED BY <1>1, <2>1, <2>2, <2>3 DEF Server, RelayStep
<1>2. ASSUME NEW c \in Peers, SendOffer(c) \/ PortalOffer(c) \/ SendAnswer(c) \/ Candidate(c)
      PROVE  Has(up[p], m) \/ Says(p, m)'
  BY <1>2, WritesSay, WriteForms
<1>3. ASSUME NEW c \in Peers, Receive(c) PROVE Has(up[p], m) \/ Says(p, m)'
  <2>1. PICK r \in Message :
           /\ Reads(c, r)
           /\ HandleOffer(c, r) \/ HandleAnswer(c, r) \/ HandleIce(c, r) \/ Ignore(c, r)
    BY <1>3, ReceiveForms
  <2>2. CASE HandleOffer(c, r) /\ kind = "portal"
    <3>1. c = Answerer /\ Write(c, [type |-> "answer", from |-> c]) /\ local'[c]
      BY <2>2, TypeParts DEF HandleOffer, Applies, PeerTypeOK
    <3>2. Desc(c) = [type |-> "answer", from |-> c] /\ Says(c, Desc(c))'
      BY <3>1 DEF Desc, Says
    <3> QED BY <3>1, <3>2, WriteForms, DescSaid
  <2>3. CASE ~ (HandleOffer(c, r) /\ kind = "portal")
    BY <2>1, <2>3 DEF HandleOffer, HandleAnswer, HandleIce, Ignore
  <2> QED BY <2>2, <2>3
<1>4. ASSUME NEW c \in Peers, Connect(c) \/ Describe(c) PROVE Has(up[p], m)
  BY <1>4 DEF Connect, Describe, room
<1>5. ASSUME NEW c \in Peers, NEW how \in Ended, Quit(c, how) PROVE Has(up[p], m)
  BY <1>5 DEF Quit
<1>6. CASE UNCHANGED room
  BY <1>6 DEF room
<1> QED BY <1>1, <1>2, <1>3, <1>4, <1>5, <1>6, StepForms

LEMMA BacklogChanges ==
    ASSUME TypeOK, MainInv, [Next]_vars, NEW p \in Peers, ~ lagged'[p],
           NEW m \in Message, Has(backlog'[p], m)
    PROVE  Has(backlog[p], m) \/ \E c \in Peers : Member(c) /\ Has(up[c], m)
<1>1. ASSUME NEW c \in Peers, Server(c)
      PROVE  Has(backlog[p], m) \/ (Member(c) /\ Has(up[c], m))
  <2>1. CASE Subscribe(c)
    BY <2>1, SubscribeForms
  <2>2. CASE Relay(c)
    BY <2>2, RelayForms
  <2>3. CASE PeerLeft(c)
    BY <2>3, LeftForms, HasNothing
  <2> QED BY <1>1, <2>1, <2>2, <2>3 DEF Server, RelayStep
<1>2. ASSUME NEW c \in Peers, \/ SendOffer(c) \/ PortalOffer(c) \/ SendAnswer(c) \/ Candidate(c)
                              \/ Connect(c) \/ Describe(c)
      PROVE  Has(backlog[p], m)
  BY <1>2 DEF SendOffer, PortalOffer, SendAnswer, Candidate, Connect, Describe, room
<1>3. ASSUME NEW c \in Peers, Receive(c) PROVE Has(backlog[p], m)
  BY <1>3, ReceiveForms, ReadForms
<1>4. ASSUME NEW c \in Peers, NEW how \in Ended, Quit(c, how) PROVE Has(backlog[p], m)
  BY <1>4 DEF Quit
<1>5. CASE UNCHANGED room
  BY <1>5 DEF room
<1> QED BY <1>1, <1>2, <1>3, <1>4, <1>5, StepForms

\* A client that is no member has nothing to read, before and after.
LEMMA NoBacklog ==
    ASSUME TypeOK, SaidInv, [Next]_vars, NEW p \in Peers, ~ Member(p)'
    PROVE  backlog'[p] = <<>>
<1>1. ASSUME NEW c \in Peers, Server(c) PROVE backlog'[p] = <<>>
  <2>1. CASE Subscribe(c)
    BY <2>1, SubscribeForms DEF SaidInv, Member
  <2>2. CASE Relay(c)
    <3>1. Member(p)' <=> Member(p)
      BY <2>2 DEF Relay, Member
    <3>2. backlog'[p] = backlog[p]
      BY <2>2, <3>1, TypeParts DEF Relay, RoomTypeOK
    <3> QED BY <3>1, <3>2 DEF SaidInv
  <2>3. CASE PeerLeft(c)
    BY <2>3, LeftForms DEF SaidInv, Member
  <2> QED BY <1>1, <2>1, <2>2, <2>3 DEF Server, RelayStep
<1>2. ASSUME NEW c \in Peers, \/ SendOffer(c) \/ PortalOffer(c) \/ SendAnswer(c) \/ Candidate(c)
                              \/ Describe(c)
      PROVE  backlog'[p] = <<>>
  BY <1>2 DEF SendOffer, PortalOffer, SendAnswer, Candidate, Describe, room, SaidInv, Member
<1>3. ASSUME NEW c \in Peers, Receive(c) PROVE backlog'[p] = <<>>
  <2>1. PICK r \in Message : Reads(c, r)
    BY <1>3, ReceiveForms
  <2>2. p # c /\ ~ Member(p) /\ backlog'[p] = backlog[p]
    BY <2>1, ReadForms DEF Member
  <2> QED BY <2>2 DEF SaidInv
<1>4. ASSUME NEW c \in Peers, NEW how \in Ended, Quit(c, how) PROVE backlog'[p] = <<>>
  BY <1>4, CloseForms DEF Quit, SaidInv
<1>5. ASSUME NEW c \in Peers, Connect(c) PROVE backlog'[p] = <<>>
  <2>1. ~ Member(p)
    BY <1>5, TypeParts DEF Connect, Upgrade, Member, RoomTypeOK
  <2> QED BY <1>5, <2>1 DEF Connect, SaidInv
<1>6. CASE UNCHANGED room
  BY <1>6 DEF room, SaidInv, Member
<1> QED BY <1>1, <1>2, <1>3, <1>4, <1>5, <1>6, StepForms

LEMMA KnownChanges ==
    ASSUME TypeOK, SaidInv, [Next]_vars, NEW p \in Peers, NEW c \in known'[p]
    PROVE  c \in known[p] \/ \E n \in 1..made[Other(p)] : c = <<Other(p), n>>
<1>1. ASSUME NEW q \in Peers, Receive(q)
      PROVE  c \in known[p] \/ \E n \in 1..made[Other(p)] : c = <<Other(p), n>>
  <2>1. PICK m \in Message :
              /\ Reads(q, m)
              /\ HandleOffer(q, m) \/ HandleAnswer(q, m) \/ HandleIce(q, m) \/ Ignore(q, m)
              /\ \A r \in Peers : r # q => known'[r] = known[r]
    BY <1>1, ReceiveForms
  <2>2. CASE HandleIce(q, m) /\ p = q
    <3>1. m.type = "ice" /\ m.from # p /\ m.from \in Peers /\ m.n \in 1..made[m.from]
      BY <2>1, <2>2, ReadSaid, SaysParts DEF HandleIce, Applies
    <3>2. m.from = Other(p)
      BY <3>1, Two
    <3>3. known'[p] = known[p] \cup {<<m.from, m.n>>}
      BY <2>2, TypeParts DEF HandleIce, PeerTypeOK
    <3> QED BY <3>1, <3>2, <3>3
  <2>3. CASE ~ (HandleIce(q, m) /\ p = q)
    BY <2>1, <2>3 DEF HandleOffer, HandleAnswer, HandleIce, Ignore, pc
  <2> QED BY <2>2, <2>3
<1>2. CASE known' = known
  BY <1>2
<1>3. known' = known \/ \E q \in Peers : Receive(q)
  BY StepForms DEF Server, Connect, Describe, SendOffer, PortalOffer, SendAnswer, Candidate, Quit, Others, pc
<1> QED BY <1>1, <1>2, <1>3

LEMMA SaidStep ==
    ASSUME TypeOK, MainInv, SaidInv, [Next]_vars
    PROVE  SaidInv'
<1>1. Grows
  BY StepGrows
<1>2. SUFFICES ASSUME NEW p \in Peers
               PROVE  /\ \A m \in Message : Has(up'[p], m) => Says(p, m)'
                      /\ ~ Member(p)' => backlog'[p] = <<>>
                      /\ ~ lagged'[p] =>
                            \A m \in Message : Has(backlog'[p], m) =>
                               \E q \in Peers : Subscribed(q)' /\ Says(q, m)'
                      /\ \A c \in known'[p] : \E n \in 1..made'[Other(p)] : c = <<Other(p), n>>
  BY DEF SaidInv, Other
<1>3. ASSUME NEW m \in Message, Has(up'[p], m) PROVE Says(p, m)'
  <2>1. Has(up[p], m) => Says(p, m)'
    BY <1>1, SaysGrows DEF SaidInv
  <2> QED BY <1>3, <2>1, UpChanges
<1>4. ~ Member(p)' => backlog'[p] = <<>>
  BY NoBacklog
<1>5. ASSUME ~ lagged'[p], NEW m \in Message, Has(backlog'[p], m)
      PROVE  \E q \in Peers : Subscribed(q)' /\ Says(q, m)'
  <2>1. ~ lagged[p]
    BY <1>1, <1>5 DEF Grows
  <2>2. \E q \in Peers : Subscribed(q) /\ Says(q, m)
    <3>1. CASE Has(backlog[p], m)
      BY <2>1, <3>1 DEF SaidInv
    <3>2. ASSUME NEW c \in Peers, Member(c), Has(up[c], m) PROVE Subscribed(c) /\ Says(c, m)
      BY <3>2 DEF SaidInv, Member, Subscribed
    <3> QED BY <1>5, <3>1, <3>2, BacklogChanges
  <2>3. PICK q \in Peers : Subscribed(q) /\ Says(q, m)
    BY <2>2
  <2> QED BY <1>1, <2>3, SaysGrows DEF Grows
<1>6. ASSUME NEW c \in known'[p] PROVE \E n \in 1..made'[Other(p)] : c = <<Other(p), n>>
  <2>1. \E n \in 1..made[Other(p)] : c = <<Other(p), n>>
    BY KnownChanges DEF SaidInv
  <2>2. Other(p) \in Peers
    BY Two
  <2> QED BY <1>1, <2>1, <2>2 DEF Grows
<1> QED BY <1>3, <1>4, <1>5, <1>6

----------------------------------------------------------------------------
\* An answer is never lost to a peer that stays.

LEMMA AnswerStep ==
    ASSUME TypeOK, MainInv, SaidInv, AnswerInv, [Next]_vars
    PROVE  AnswerInv'
<1> DEFINE A == Desc(Answerer)
           Goal == \/ remote[Offerer] \/ answering[Answerer]
                   \/ Has(up[Answerer], A) \/ Has(backlog[Offerer], A)
<1>0. /\ DOMAIN remote = Peers /\ DOMAIN answering = Peers
      /\ Offerer \in Peers /\ Answerer \in Peers /\ \A p \in Peers : p \in {Offerer, Answerer}
      /\ A \in Message /\ A.type = "answer" /\ A.from = Answerer
  BY DescSaid, TypeParts DEF PeerTypeOK, Peers, Desc
<1>1. SUFFICES ASSUME remote'[Answerer], Joined(Answerer)', Joined(Offerer)', ~ lagged'[Offerer]
               PROVE  Goal'
  BY DEF AnswerInv, Desc
<1>2. ASSUME remote[Answerer], Joined(Answerer), Joined(Offerer), ~ lagged[Offerer] PROVE Goal
  BY <1>2 DEF AnswerInv
<1> HIDE DEF A
<1>3. ASSUME NEW c \in Peers, Server(c) PROVE Goal'
  <2>1. UNCHANGED <<remote, answering>>
    BY <1>3 DEF Server, pc
  <2>2. Subscribed(Answerer) /\ Subscribed(Offerer)
    BY <1>1, <2>1, <1>0 DEF MainInv
  <2>3. CASE Subscribe(c)
    <3>1. ~ Subscribed(c)
      BY <2>3, SubscribeForms DEF Subscribed
    <3> QED BY <1>0, <2>2, <3>1
  <2>4. CASE Relay(c)
    <3>1. socket' = socket /\ Joined(Answerer) /\ Joined(Offerer) /\ ~ lagged[Offerer] /\ remote[Answerer]
      BY <1>0, <1>1, <2>1, <2>4, RelayForms DEF Relay, Joined
    <3>2. Goal
      BY <1>2, <3>1
    <3>3. Has(backlog[Offerer], A) => Has(backlog'[Offerer], A)
      BY <1>0, <1>1, <2>4, RelayForms
    <3>4. Has(up[Answerer], A) => Has(up'[Answerer], A) \/ Has(backlog'[Offerer], A)
      <4>1. CASE c = Answerer
        <5>1. Member(Offerer)
          BY <3>1 DEF Joined, Member
        <5> QED BY <1>0, <1>1, <2>4, <4>1, <5>1, RelayForms
      <4>2. CASE c # Answerer
        BY <1>0, <2>4, <4>2, RelayForms
      <4> QED BY <4>1, <4>2
    <3> QED BY <2>1, <3>2, <3>3, <3>4 DEF A, Desc
  <2>5. CASE PeerLeft(c)
    BY <1>0, <1>1, <2>5, LeftForms DEF Joined
  <2> QED BY <1>3, <2>3, <2>4, <2>5 DEF Server, RelayStep
<1>4. ASSUME NEW c \in Peers, SendOffer(c) \/ PortalOffer(c) \/ SendAnswer(c) \/ Candidate(c)
      PROVE  Goal'
  <2>1. UNCHANGED <<socket, backlog, lagged, remote>>
    BY <1>4 DEF SendOffer, PortalOffer, SendAnswer, Candidate, pc
  <2>2. Goal
    BY <1>1, <1>2, <2>1 DEF Joined
  <2>3. PICK m \in Message : Write(c, m) /\ (SendAnswer(c) => m = Desc(c))
    BY <1>4, WritesSay
  <2>4. Has(up[Answerer], A) => Has(up'[Answerer], A)
    BY <1>0, <2>3, WriteForms
  <2>5. CASE SendAnswer(c)
    <3>1. c = Answerer
      BY <2>5 DEF SendAnswer, MainInv
    <3>2. Open(c) /\ m = A
      BY <1>1, <2>1, <2>3, <2>5, <3>1 DEF Open, Joined, A
    <3>3. Has(up'[c], m)
      BY <2>3, <3>2, WriteForms
    <3> QED BY <3>1, <3>2, <3>3 DEF A, Desc
  <2>6. CASE ~ SendAnswer(c)
    <3>1. answering' = answering
      BY <1>4, <2>6 DEF SendOffer, PortalOffer, Candidate
    <3> QED BY <2>1, <2>2, <2>4, <3>1 DEF A, Desc
  <2> QED BY <2>5, <2>6
<1>5. ASSUME NEW c \in Peers, Receive(c) PROVE Goal'
  <2>1. PICK m \in Message :
           /\ Reads(c, m)
           /\ HandleOffer(c, m) \/ HandleAnswer(c, m) \/ HandleIce(c, m) \/ Ignore(c, m)
    BY <1>5, ReceiveForms
  <2>2. /\ UNCHANGED <<socket, lagged>>
        /\ \A e : Has(backlog[c], e) => e = m \/ Has(backlog'[c], e)
        /\ \A q \in Peers : q # c => backlog'[q] = backlog[q]
    BY <2>1, ReadForms
  <2>3. CASE HandleOffer(c, m)
    <3>1. c = Answerer /\ answering' = [answering EXCEPT ![c] = kind = "lab"]
      BY <2>3 DEF HandleOffer, Applies
    <3>2. CASE kind = "lab"
      BY <1>0, <3>1, <3>2
    <3>3. CASE kind = "portal"
      <4>1. Write(c, A) /\ Open(c)
        BY <1>1, <2>2, <2>3, <3>1, <3>3 DEF HandleOffer, A, Desc, Open, Joined
      <4>2. Has(up'[c], A)
        BY <1>0, <4>1, WriteForms
      <4> QED BY <3>1, <4>2 DEF A, Desc
    <3> QED BY <3>2, <3>3, TypeParts DEF PeerTypeOK
  <2>4. CASE HandleAnswer(c, m)
    BY <1>0, <2>4 DEF HandleAnswer, Applies
  <2>5. CASE HandleIce(c, m) \/ Ignore(c, m)
    <3>1. UNCHANGED <<up, answering, remote>>
      BY <2>5 DEF HandleIce, Ignore, pc
    <3>2. Goal /\ remote[Answerer]
      BY <1>1, <1>2, <2>2, <3>1 DEF Joined
    <3>3. Has(backlog[Offerer], A) => Has(backlog'[Offerer], A) \/ remote[Offerer]
      <4>1. CASE c = Offerer /\ m = A
        <5>1. ~ Applies(c, m)
          BY <1>0, <2>5, <4>1 DEF HandleIce, Ignore
        <5>2. local[Offerer]
          BY <3>2 DEF MainInv
        <5> QED BY <1>0, <4>1, <5>1, <5>2 DEF Applies
      <4>2. CASE ~ (c = Offerer /\ m = A)
        BY <1>0, <2>2, <4>2
      <4> QED BY <4>1, <4>2
    <3> QED BY <3>1, <3>2, <3>3 DEF A, Desc
  <2> QED BY <2>1, <2>3, <2>4, <2>5
<1>6. ASSUME NEW c \in Peers, NEW how \in Ended, Quit(c, how) PROVE Goal'
  <2>1. UNCHANGED <<up, backlog, lagged, answering, remote>>
    BY <1>6 DEF Quit, pc
  <2>2. Joined(Answerer) /\ Joined(Offerer)
    BY <1>0, <1>1, <1>6, CloseForms DEF Quit
  <2> QED BY <1>1, <1>2, <2>1, <2>2 DEF A, Desc
<1>7. ASSUME NEW c \in Peers, Connect(c) PROVE Goal'
  <2>1. socket'[c] = "upgraded"
    BY <1>7, TypeParts DEF Connect, Upgrade, RoomTypeOK
  <2> QED BY <1>0, <1>1, <2>1 DEF Joined
<1>8. ASSUME UNCHANGED <<room, answering, remote>> PROVE Goal'
  BY <1>1, <1>2, <1>8 DEF room, Joined, A, Desc
<1>9. ASSUME NEW c \in Peers, Describe(c) PROVE Goal'
  BY <1>8, <1>9 DEF Describe
<1> QED BY <1>3, <1>4, <1>5, <1>6, <1>7, <1>8, <1>9, StepForms DEF Others


----------------------------------------------------------------------------
\* A portal's description comes before its candidates, wherever they are.

LEMMA UpFrom ==
    ASSUME TypeOK, SaidInv, NEW q \in Peers, NEW i \in 1..Len(up[q])
    PROVE  up[q][i].from = q /\ Says(q, up[q][i]) /\ up[q][i] \in Message
<1>1. up[q] \in Seq(Message)
  BY TypeParts DEF RoomTypeOK
<1>2. up[q][i] \in Message /\ Has(up[q], up[q][i])
  BY <1>1, ElementOfSeq DEF Has
<1>3. Says(q, up[q][i])
  BY <1>2 DEF SaidInv
<1> QED BY <1>2, <1>3, SaysParts

\* Of a peer without a local description nothing is under way.
LEMMA Silent ==
    ASSUME TypeOK, SaidInv, NEW q \in Peers, ~ local[q]
    PROVE  /\ up[q] = <<>>
           /\ \A p \in Peers : ~ lagged[p] => \A j \in 1..Len(backlog[p]) : backlog[p][j].from # q
<1>1. up[q] = <<>>
  <2>1. up[q] \in Seq(Message)
    BY TypeParts DEF RoomTypeOK
  <2>2. ASSUME up[q] # <<>> PROVE FALSE
    <3>1. 1 \in 1..Len(up[q])
      BY <2>1, <2>2, EmptySeq, LenProperties
    <3> QED BY <3>1, UpFrom DEF Says
  <2> QED BY <2>2
<1>2. ASSUME NEW p \in Peers, ~ lagged[p], NEW j \in 1..Len(backlog[p])
      PROVE  backlog[p][j].from # q
  <2>1. backlog[p] \in Seq(Message)
    BY TypeParts DEF RoomTypeOK
  <2>2. backlog[p][j] \in Message /\ Has(backlog[p], backlog[p][j])
    BY <2>1, ElementOfSeq DEF Has
  <2>3. PICK r \in Peers : Says(r, backlog[p][j])
    BY <1>2, <2>2 DEF SaidInv
  <2> QED BY <2>3, SaysParts
<1> QED BY <1>1, <1>2

LEMMA FirstKept ==
    ASSUME TypeOK, NEW q \in Peers, DescFirst(q),
           \/ up'[q] \in {up[q], <<>>}
           \/ up[q] # <<>> /\ up'[q] = Tail(up[q])
           \/ \E m \in Message : up'[q] = Append(up[q], m) /\ (m = Desc(q) => up[q] = <<>>)
    PROVE  DescFirst(q)'
<1>0. up[q] \in Seq(Message) /\ Len(up[q]) \in Nat /\ Desc(q)' = Desc(q)
  BY TypeParts, LenProperties DEF RoomTypeOK, Desc
<1>1. CASE up'[q] \in {up[q], <<>>}
  BY <1>0, <1>1 DEF DescFirst
<1>2. CASE up[q] # <<>> /\ up'[q] = Tail(up[q])
  <2>1. Len(up'[q]) = Len(up[q]) - 1 /\ \A i \in 1..Len(up'[q]) : up'[q][i] = up[q][i + 1]
    BY <1>0, <1>2, HeadTailProperties
  <2> QED BY <1>0, <2>1 DEF DescFirst
<1>3. ASSUME NEW m \in Message, up'[q] = Append(up[q], m), m = Desc(q) => up[q] = <<>>
      PROVE  DescFirst(q)'
  <2>1. /\ Len(up'[q]) = Len(up[q]) + 1 /\ up'[q][Len(up[q]) + 1] = m
        /\ \A i \in 1..Len(up[q]) : up'[q][i] = up[q][i]
    BY <1>0, <1>3, AppendProperties
  <2>2. up[q] = <<>> => Len(up[q]) = 0
    BY <1>0, EmptySeq
  <2> QED BY <1>0, <1>3, <2>1, <2>2 DEF DescFirst
<1> QED BY <1>1, <1>2, <1>3

LEMMA NoneBeforeKept ==
    ASSUME TypeOK, NEW p \in Peers, NEW q \in Peers, NoneBefore(p, q),
           backlog'[p] \in {backlog[p], <<>>} \/ (backlog[p] # <<>> /\ backlog'[p] = Tail(backlog[p])),
           Has(up'[q], Desc(q)) => \/ Has(up[q], Desc(q))
                                   \/ \A j \in 1..Len(backlog[p]) : backlog[p][j].from # q
    PROVE  NoneBefore(p, q)'
<1>0. backlog[p] \in Seq(Message) /\ Len(backlog[p]) \in Nat /\ Desc(q)' = Desc(q)
  BY TypeParts, LenProperties DEF RoomTypeOK, Desc
<1>1. CASE backlog'[p] \in {backlog[p], <<>>}
  BY <1>0, <1>1 DEF NoneBefore
<1>2. CASE backlog[p] # <<>> /\ backlog'[p] = Tail(backlog[p])
  <2>1. /\ Len(backlog'[p]) = Len(backlog[p]) - 1
        /\ \A j \in 1..Len(backlog'[p]) : backlog'[p][j] = backlog[p][j + 1]
    BY <1>0, <1>2, HeadTailProperties
  <2>2. \A j \in 1..Len(backlog'[p]) : j + 1 \in 1..Len(backlog[p])
    BY <1>0, <2>1
  <2>3. Has(up'[q], Desc(q)) => \A j \in 1..Len(backlog'[p]) : backlog'[p][j].from # q
    BY <2>1, <2>2 DEF NoneBefore
  <2>4. ASSUME NEW j \in 1..Len(backlog'[p]), backlog'[p][j] = Desc(q), NEW i \in 1..(j - 1)
        PROVE  backlog'[p][i].from # q
    <3>1. backlog[p][j + 1] = Desc(q) /\ backlog'[p][i] = backlog[p][i + 1] /\ i + 1 \in 1..((j + 1) - 1)
      BY <1>0, <2>1, <2>4
    <3> QED BY <2>2, <3>1 DEF NoneBefore
  <2> QED BY <1>0, <2>3, <2>4 DEF NoneBefore
<1> QED BY <1>1, <1>2

\* The relay takes the first message of one queue to the end of the other.
LEMMA RelayOrder ==
    ASSUME TypeOK, SaidInv, NEW c \in Peers, Relay(c), NEW p \in Peers, NEW q \in Peers,
           ~ lagged'[p], DescFirst(q), NoneBefore(p, q)
    PROVE  NoneBefore(p, q)'
<1> DEFINE m == Head(up[c])
<1>0. /\ backlog[p] \in Seq(Message) /\ Len(backlog[p]) \in Nat /\ Desc(q)' = Desc(q)
      /\ up[q] \in Seq(Message) /\ Len(up[q]) \in Nat
  BY TypeParts, LenProperties DEF RoomTypeOK, Desc
<1>1. m \in Message /\ m.from = c
  <2>1. 1 \in 1..Len(up[c])
    BY RelayForms, TypeParts, EmptySeq, LenProperties DEF RoomTypeOK
  <2> QED BY <2>1, RelayForms, UpFrom
<1>2. CASE ~ Member(p)
  <2>1. backlog'[p] = backlog[p] /\ (Has(up'[q], Desc(q)) => Has(up[q], Desc(q)))
    BY <1>2, RelayForms
  <2> QED BY <2>1, NoneBeforeKept
<1>3. CASE Member(p)
  <2>1. backlog'[p] = Append(backlog[p], m)
    BY <1>3, RelayForms
  <2> HIDE DEF m
  <2>2. /\ Len(backlog'[p]) = Len(backlog[p]) + 1 /\ backlog'[p][Len(backlog[p]) + 1] = m
        /\ \A j \in 1..Len(backlog[p]) : backlog'[p][j] = backlog[p][j]
    BY <1>0, <1>1, <2>1, AppendProperties
  <2>3. m = Desc(q) => c = q /\ Has(up[q], Desc(q))
    BY <1>1, RelayForms, DescSaid DEF m
  <2>4. Has(up'[q], Desc(q)) => Has(up[q], Desc(q)) /\ c # q
    <3>1. CASE c = q
      <4>1. up'[q] = Tail(up[q]) /\ up[q] # <<>>
        BY <3>1, RelayForms
      <4>2. Len(up'[q]) = Len(up[q]) - 1 /\ \A i \in 1..Len(up'[q]) : up'[q][i] = up[q][i + 1]
        BY <1>0, <4>1, HeadTailProperties
      <4>3. ~ Has(up'[q], Desc(q))
        BY <1>0, <4>2 DEF DescFirst, Has
      <4> QED BY <4>3
    <3>2. CASE c # q
      BY <3>2, RelayForms
    <3> QED BY <3>1, <3>2
  <2>5. Has(up'[q], Desc(q)) => \A j \in 1..Len(backlog'[p]) : backlog'[p][j].from # q
    <3> SUFFICES ASSUME Has(up'[q], Desc(q)), NEW j \in 1..Len(backlog'[p])
                 PROVE  backlog'[p][j].from # q
      BY Zenon
    <3>1. c # q /\ \A k \in 1..Len(backlog[p]) : backlog[p][k].from # q
      BY <2>4, Zenon DEF NoneBefore
    <3>2. j \in 1..Len(backlog[p]) \/ j = Len(backlog[p]) + 1
      BY <1>0, <2>2
    <3> QED BY <1>1, <2>2, <3>1, <3>2, Zenon
  <2>6. ASSUME NEW j \in 1..Len(backlog'[p]), backlog'[p][j] = Desc(q), NEW i \in 1..(j - 1)
        PROVE  backlog'[p][i].from # q
    <3>1. i \in 1..Len(backlog[p]) /\ backlog'[p][i] = backlog[p][i]
      BY <1>0, <2>2
    <3>2. CASE j \in 1..Len(backlog[p])
      BY <2>2, <2>6, <3>1, <3>2 DEF NoneBefore
    <3>3. CASE j \notin 1..Len(backlog[p])
      BY <1>0, <2>2, <2>3, <2>6, <3>1, <3>3 DEF NoneBefore
    <3> QED BY <3>2, <3>3
  <2> QED BY <1>0, <2>5, <2>6 DEF NoneBefore
<1> QED BY <1>2, <1>3

LEMMA OrderStep ==
    ASSUME TypeOK, MainInv, SaidInv, OrderInv, [Next]_vars
    PROVE  OrderInv'
<1>1. Grows
  BY StepGrows
<1>2. SUFFICES ASSUME kind = "portal", NEW q \in Peers
               PROVE  DescFirst(q)' /\ \A p \in Peers : ~ lagged'[p] => NoneBefore(p, q)'
  BY <1>1, Two DEF OrderInv, Grows
<1>3. DescFirst(q) /\ \A p \in Peers : ~ lagged'[p] => ~ lagged[p] /\ NoneBefore(p, q)
  BY <1>1, <1>2 DEF OrderInv, Grows
<1>4. ASSUME UNCHANGED <<up, backlog>>
      PROVE  DescFirst(q)' /\ \A p \in Peers : ~ lagged'[p] => NoneBefore(p, q)'
  BY <1>3, <1>4, FirstKept, NoneBeforeKept
<1>5. ASSUME NEW c \in Peers, Server(c)
      PROVE  DescFirst(q)' /\ \A p \in Peers : ~ lagged'[p] => NoneBefore(p, q)'
  <2>1. CASE Subscribe(c)
    BY <1>4, <2>1, SubscribeForms
  <2>2. CASE Relay(c)
    <3>1. up'[q] = up[q] \/ (up[q] # <<>> /\ up'[q] = Tail(up[q]))
      BY <2>2, RelayForms
    <3> QED BY <1>3, <2>2, <3>1, FirstKept, RelayOrder
  <2>3. CASE PeerLeft(c)
    <3>1. up'[q] \in {up[q], <<>>} /\ \A p \in Peers : backlog'[p] \in {backlog[p], <<>>}
      BY <2>3, LeftForms
    <3>2. Has(up'[q], Desc(q)) => Has(up[q], Desc(q))
      BY <3>1, HasNothing
    <3> QED BY <1>3, <3>1, <3>2, FirstKept, NoneBeforeKept
  <2> QED BY <1>5, <2>1, <2>2, <2>3 DEF Server, RelayStep
<1>6. ASSUME NEW c \in Peers, NEW m \in Message, Write(c, m), backlog' = backlog,
             m = Desc(c) => ~ local[c], c = q => (m = Desc(q) <=> m = Desc(c))
      PROVE  DescFirst(q)' /\ \A p \in Peers : ~ lagged'[p] => NoneBefore(p, q)'
  <2>1. CASE c # q
    <3>1. up'[q] = up[q]
      BY <1>6, <2>1, WriteForms
    <3> QED BY <1>3, <1>6, <3>1, FirstKept, NoneBeforeKept
  <2>2. CASE c = q
    <3>1. up'[q] = up[q] \/ up'[q] = Append(up[q], m)
      BY <1>6, <2>2, WriteForms
    <3>2. m = Desc(q) => /\ up[q] = <<>>
                         /\ \A p \in Peers : ~ lagged'[p] =>
                               \A j \in 1..Len(backlog[p]) : backlog[p][j].from # q
      BY <1>3, <1>6, <2>2, Silent
    <3>3. Has(up'[q], Desc(q)) => Has(up[q], Desc(q)) \/ m = Desc(q)
      BY <1>6, <2>2, WriteForms
    <3> QED BY <1>3, <1>6, <3>1, <3>2, <3>3, FirstKept, NoneBeforeKept
  <2> QED BY <2>1, <2>2
<1>7. ASSUME NEW c \in Peers, SendOffer(c) \/ PortalOffer(c) \/ SendAnswer(c) \/ Candidate(c)
      PROVE  DescFirst(q)' /\ \A p \in Peers : ~ lagged'[p] => NoneBefore(p, q)'
  <2>1. PICK m \in Message : /\ Write(c, m)
                             /\ Candidate(c) => m = Ice(c, made[c] + 1)
    BY <1>7, WritesSay
  <2>2. m = Desc(c) => ~ local[c]
    <3>1. CASE Candidate(c)
      BY <2>1, <3>1 DEF Desc, Ice
    <3>2. CASE PortalOffer(c)
      BY <3>2 DEF PortalOffer, MainInv
    <3>3. ~ SendOffer(c) /\ ~ SendAnswer(c)
      BY <1>2 DEF SendOffer, SendAnswer, MainInv
    <3> QED BY <1>7, <3>1, <3>2, <3>3
  <2>3. backlog' = backlog
    BY <1>7 DEF SendOffer, PortalOffer, SendAnswer, Candidate
  <2> QED BY <1>6, <2>1, <2>2, <2>3
<1>8. ASSUME NEW c \in Peers, Receive(c)
      PROVE  DescFirst(q)' /\ \A p \in Peers : ~ lagged'[p] => NoneBefore(p, q)'
  <2>1. PICK m \in Message :
           /\ Reads(c, m)
           /\ HandleOffer(c, m) \/ HandleAnswer(c, m) \/ HandleIce(c, m) \/ Ignore(c, m)
    BY <1>8, ReceiveForms
  <2>2. \A p \in Peers : backlog'[p] = backlog[p] \/ (backlog[p] # <<>> /\ backlog'[p] = Tail(backlog[p]))
    BY <2>1, ReadForms
  <2>3. CASE HandleOffer(c, m)
    <3>1. c = Answerer /\ ~ local[c] /\ Write(c, [type |-> "answer", from |-> c])
      BY <1>2, <2>3 DEF HandleOffer, Applies, MainInv
    <3>2. Desc(c) = [type |-> "answer", from |-> c] /\ Desc(c) \in Message
      BY <3>1, DescSaid DEF Desc
    <3>a. /\ \A r \in Peers : r # c => up'[r] = up[r]
          /\ up'[c] = IF Open(c) THEN Append(up[c], Desc(c)) ELSE up[c]
      BY <3>1, <3>2, WriteForms
    <3>3. /\ q # c => up'[q] = up[q]
          /\ q = c => up'[q] = up[q] \/ up'[q] = Append(up[q], Desc(q))
      BY <3>a
    <3>4. q = c => /\ up[q] = <<>>
                   /\ \A p \in Peers : ~ lagged'[p] =>
                         \A j \in 1..Len(backlog[p]) : backlog[p][j].from # q
      BY <1>3, <3>1, Silent
    <3>5. DescFirst(q)'
      BY <1>3, <3>2, <3>3, <3>4, FirstKept
    <3> QED BY <1>3, <2>2, <3>3, <3>4, <3>5, NoneBeforeKept
  <2>4. CASE up' = up
    BY <1>3, <2>2, <2>4, FirstKept, NoneBeforeKept
  <2> QED BY <2>1, <2>3, <2>4 DEF HandleAnswer, HandleIce, Ignore
<1>9. ASSUME NEW c \in Peers, Connect(c) \/ Describe(c) PROVE UNCHANGED <<up, backlog>>
  BY <1>9 DEF Connect, Describe, room
<1>10. ASSUME NEW c \in Peers, NEW how \in Ended, Quit(c, how) PROVE UNCHANGED <<up, backlog>>
  BY <1>10 DEF Quit
<1> QED BY <1>4, <1>5, <1>7, <1>8, <1>9, <1>10, StepForms DEF room

----------------------------------------------------------------------------
\* Behind a portal's description come all of its candidates.

LEMMA NoDescBehind ==
    ASSUME TypeOK, NEW p \in Peers, NEW q \in Peers, NEW m, Reads(p, m), m.from = q, NoneBefore(p, q)
    PROVE  ~ Has(backlog'[p], Desc(q))
<1>1. backlog[p] \in Seq(Message) /\ backlog[p] # <<>> /\ backlog[p][1] = m /\ backlog'[p] = Tail(backlog[p])
  BY ReadForms, TypeParts DEF RoomTypeOK
<1>2. /\ Len(backlog'[p]) = Len(backlog[p]) - 1 /\ Len(backlog[p]) \in Nat
      /\ \A j \in 1..Len(backlog'[p]) : backlog'[p][j] = backlog[p][j + 1]
  BY <1>1, HeadTailProperties, LenProperties
<1>3. ASSUME NEW j \in 1..Len(backlog'[p]), backlog'[p][j] = Desc(q) PROVE FALSE
  <2>1. j + 1 \in 1..Len(backlog[p]) /\ backlog[p][j + 1] = Desc(q) /\ 1 \in 1..((j + 1) - 1)
    BY <1>2, <1>3
  <2> QED BY <1>1, <2>1 DEF NoneBefore
<1> QED BY <1>3 DEF Has

LEMMA NoDescLeft ==
    ASSUME TypeOK, NEW q \in Peers, DescFirst(q), Relay(q)
    PROVE  ~ Has(up'[q], Desc(q))
<1>1. up[q] \in Seq(Message) /\ up[q] # <<>> /\ up'[q] = Tail(up[q])
  BY RelayForms, TypeParts DEF RoomTypeOK
<1>2. /\ Len(up'[q]) = Len(up[q]) - 1 /\ Len(up[q]) \in Nat
      /\ \A i \in 1..Len(up'[q]) : up'[q][i] = up[q][i + 1]
  BY <1>1, HeadTailProperties, LenProperties
<1> QED BY <1>2 DEF DescFirst, Has

LEMMA IceIsNoDesc == \A q \in Peers : \A n : Ice(q, n) # Desc(q)
  BY DEF Ice, Desc

\* As it is proved of one peer q and the other, which hears it.
Whole(q) == Open(q) => AllWritten(q) /\ AllUnderWay(Other(q), q)

LEMMA NothingMade ==
    ASSUME NEW q \in Peers, made'[q] = 0
    PROVE  Whole(q)'
  BY DEF Whole, AllWritten, AllUnderWay

LEMMA RelayWhole ==
    ASSUME TypeOK, SaidInv, NEW c \in Peers, Relay(c), NEW q \in Peers, DescFirst(q), Whole(q),
           UNCHANGED <<remote, known, made>>
    PROVE  Whole(q)'
<1> DEFINE p == Other(q)
<1>0. p \in Peers /\ socket' = socket
  BY Two DEF Relay
<1> HIDE DEF p
<1>1. SUFFICES ASSUME Open(q) PROVE AllWritten(q)' /\ AllUnderWay(p, q)'
  BY <1>0 DEF Whole, Open, p, Other
<1>2. AllWritten(q) /\ AllUnderWay(p, q)
  BY <1>1 DEF Whole, p
<1>3. AllWritten(q)'
  <2>1. CASE c = q
    <3>1. ~ Has(up'[q], Desc(q))
      BY <2>1, NoDescLeft
    <3> QED BY <3>1 DEF AllWritten, Desc
  <2>2. CASE c # q
    <3>1. up'[q] = up[q]
      BY <2>2, RelayForms
    <3> QED BY <1>2, <3>1 DEF AllWritten, Desc, Ice
  <2> QED BY <2>1, <2>2
<1>4. ASSUME Joined(p), ~ lagged'[p], remote[p] \/ Has(backlog'[p], Desc(q)), NEW n \in 1..made[q]
      PROVE  <<q, n>> \in known[p] \/ Has(up'[q], Ice(q, n)) \/ Has(backlog'[p], Ice(q, n))
  <2>0. Member(p) /\ ~ lagged[p]
    BY <1>0, <1>4, RelayForms DEF Joined, Member
  <2>1. CASE Through(p, q)
    <3>1. <<q, n>> \in known[p] \/ Has(up[q], Ice(q, n)) \/ Has(backlog[p], Ice(q, n))
      BY <1>2, <1>4, <2>0, <2>1 DEF AllUnderWay
    <3>2. Has(up[q], Ice(q, n)) => Has(up'[q], Ice(q, n)) \/ Has(backlog'[p], Ice(q, n))
      <4>1. CASE c = q
        BY <1>0, <1>4, <2>0, <4>1, RelayForms
      <4>2. CASE c # q
        BY <4>2, RelayForms
      <4> QED BY <4>1, <4>2
    <3>3. Has(backlog[p], Ice(q, n)) => Has(backlog'[p], Ice(q, n))
      BY <1>0, <1>4, RelayForms
    <3> QED BY <3>1, <3>2, <3>3
  <2>2. CASE ~ Through(p, q)
    <3>1. Desc(q) = Head(up[c])
      BY <1>0, <1>4, <2>2, RelayForms DEF Through
    <3>2. c = q
      <4>1. up[c] \in Seq(Message) /\ up[c] # <<>> /\ up[c][1] = Desc(q)
        BY <3>1, RelayForms, TypeParts DEF RoomTypeOK
      <4>2. 1 \in 1..Len(up[c])
        BY <4>1, EmptySeq, LenProperties
      <4>3. Desc(q).from = c
        BY <4>1, <4>2, UpFrom
      <4> QED BY <4>3, DescSaid
    <3>3. Has(up[q], Desc(q))
      BY <3>1, <3>2, RelayForms
    <3>4. Has(up[q], Ice(q, n))
      BY <1>2, <1>4, <3>3 DEF AllWritten
    <3>5. Ice(q, n) # Head(up[q])
      BY <3>1, <3>2, IceIsNoDesc
    <3> QED BY <3>2, <3>4, <3>5, RelayForms
  <2> QED BY <2>1, <2>2
<1> QED BY <1>0, <1>3, <1>4 DEF AllUnderWay, Through, Joined, Desc, Ice

LEMMA ReceiveWhole ==
    ASSUME TypeOK, MainInv, SaidInv, kind = "portal", NEW q \in Peers, NoneBefore(Other(q), q) \/ lagged[Other(q)],
           Whole(q), NEW c \in Peers, Receive(c)
    PROVE  Whole(q)'
<1> DEFINE p == Other(q)
<1>0. p \in Peers /\ p # q /\ (c = p \/ c = q)
  BY Two
<1> HIDE DEF p
<1>1. PICK m \in Message :
              /\ Reads(c, m)
              /\ HandleOffer(c, m) \/ HandleAnswer(c, m) \/ HandleIce(c, m) \/ Ignore(c, m)
              /\ UNCHANGED <<kind, main, made>>
              /\ \A r \in Peers : r # c => remote'[r] = remote[r] /\ known'[r] = known[r]
  BY ReceiveForms
<1>2. /\ UNCHANGED <<socket, lagged>> /\ backlog[c][1] = m
      /\ \A e : Has(backlog'[c], e) => Has(backlog[c], e)
      /\ \A e : Has(backlog[c], e) => e = m \/ Has(backlog'[c], e)
      /\ Has(backlog[c], m)
      /\ \A r \in Peers : r # c => backlog'[r] = backlog[r]
  BY <1>1, ReadForms
<1>3. SUFFICES ASSUME Open(q), made[q] # 0 PROVE AllWritten(q)' /\ AllUnderWay(p, q)'
  BY <1>1, <1>2, NothingMade DEF Whole, Open, p, Other
<1>4. AllWritten(q) /\ AllUnderWay(p, q) /\ local[q]
  <2>1. made[q] > 0
    BY <1>3, TypeParts DEF PeerTypeOK
  <2> QED BY <1>3, <2>1 DEF Whole, p, MainInv
<1>5. up'[q] = up[q]
  <2>1. CASE HandleOffer(c, m)
    <3>1. c # q
      BY <1>4, <2>1 DEF HandleOffer, Applies, MainInv
    <3>2. Write(c, [type |-> "answer", from |-> c])
      BY <2>1 DEF HandleOffer
    <3> QED BY <3>1, <3>2, Messages, WriteForms
  <2> QED BY <1>1, <2>1 DEF HandleAnswer, HandleIce, Ignore
<1>6. AllWritten(q)'
  BY <1>1, <1>4, <1>5 DEF AllWritten, Desc, Ice
<1>7. CASE c = q
  <2>1. remote'[p] = remote[p] /\ known'[p] = known[p] /\ backlog'[p] = backlog[p]
    BY <1>0, <1>1, <1>2, <1>7
  <2> QED BY <1>1, <1>2, <1>4, <1>5, <1>6, <2>1 DEF AllUnderWay, Through, Joined, Desc, Ice
<1>8. CASE c = p
  <2>0. Says(m.from, m) /\ m.from \in Peers /\ (m.from # p => m.from = q)
    BY <1>0, <1>1, ReadSaid, Two
  <2>1. known[p] \subseteq known'[p] /\ known \in [Peers -> SUBSET (Peers \X (1..MaxCandidates))]
    BY <1>0, <1>1, <1>8, TypeParts DEF HandleOffer, HandleAnswer, HandleIce, Ignore, pc, PeerTypeOK
  <2>2. ASSUME Joined(p), ~ lagged[p], remote'[p] \/ Has(backlog'[p], Desc(q)), NEW n \in 1..made[q]
        PROVE  <<q, n>> \in known'[p] \/ Has(up[q], Ice(q, n)) \/ Has(backlog'[p], Ice(q, n))
    <3>1. CASE HandleOffer(c, m) \/ HandleAnswer(c, m)
      <4>0. m.type \in {"offer", "answer"} /\ m.from # p
        BY <1>8, <3>1 DEF HandleOffer, HandleAnswer, Applies
      <4>1. m = Desc(q)
        BY <2>0, <4>0, SaysParts
      <4>2. Through(p, q) /\ Ice(q, n) # m
        BY <1>2, <1>8, <4>1, IceIsNoDesc DEF Through
      <4> QED BY <1>2, <1>4, <1>8, <2>1, <2>2, <4>2 DEF AllUnderWay
    <3>2. CASE HandleIce(c, m)
      <4>1. Through(p, q) /\ m.type = "ice" /\ m.from = q
        BY <1>8, <2>0, <3>2 DEF HandleIce, Applies, Through
      <4>2. m = Ice(q, m.n)
        BY <2>0, <4>1, SaysParts
      <4>3. m = Ice(q, n) => <<q, n>> \in known'[p]
        <5>1. known'[p] = known[p] \cup {<<q, m.n>>}
          BY <1>0, <1>8, <2>1, <3>2, <4>1 DEF HandleIce
        <5> QED BY <5>1 DEF Ice
      <4> QED BY <1>2, <1>4, <1>8, <2>1, <2>2, <4>1, <4>3 DEF AllUnderWay
    <3>3. CASE Ignore(c, m)
      <4>1. remote' = remote
        BY <3>3 DEF Ignore, pc
      <4>2. Through(p, q)
        BY <1>2, <1>8, <2>2, <4>1 DEF Through
      <4>3. m # Ice(q, n)
        <5>1. SUFFICES ASSUME m = Ice(q, n) PROVE FALSE
          OBVIOUS
        <5>2. m.from = q /\ m.type = "ice"
          BY <5>1 DEF Ice
        <5>3. ~ remote[p]
          BY <1>0, <1>8, <3>3, <5>2 DEF Ignore, Applies
        <5>4. ~ Has(backlog'[p], Desc(q))
          BY <1>0, <1>1, <1>8, <2>2, <5>2, NoDescBehind DEF p
        <5> QED BY <2>2, <4>1, <5>3, <5>4
      <4> QED BY <1>2, <1>4, <1>8, <2>1, <2>2, <4>2, <4>3 DEF AllUnderWay
    <3> QED BY <1>1, <3>1, <3>2, <3>3
  <2> QED BY <1>1, <1>2, <1>5, <1>6, <2>2 DEF AllUnderWay, Through, Joined, Desc, Ice
<1> QED BY <1>0, <1>7, <1>8

LEMMA WriteWhole ==
    ASSUME TypeOK, MainInv, kind = "portal", NEW q \in Peers, Whole(q), NEW c \in Peers,
           PortalOffer(c) \/ Candidate(c)
    PROVE  Whole(q)'
<1>0. /\ UNCHANGED <<socket, backlog, lagged, remote, known>>
      /\ DOMAIN made = Peers /\ made[q] \in Nat /\ Other(q) \in Peers
  BY TypeParts, Two DEF PortalOffer, Candidate, PeerTypeOK
<1>1. PICK m \in Message : /\ Write(c, m)
                           /\ Candidate(c) => m = Ice(c, made[c] + 1)
  BY WritesSay
<1>2. /\ c # q => up'[q] = up[q]
      /\ \A e : Has(up[q], e) => Has(up'[q], e)
      /\ c = q => \A e : Has(up'[q], e) => Has(up[q], e) \/ e = m
      /\ c = q /\ Open(c) => Has(up'[c], m)
  BY <1>1, WriteForms
<1>3. CASE Candidate(c) /\ c = q
  <2>1. made'[q] = made[q] + 1
    BY <1>0, <1>3 DEF Candidate
  <2>2. Ice(q, made'[q]) = m
    BY <1>1, <1>3, <2>1
  <2>3. SUFFICES ASSUME Open(q) PROVE AllWritten(q)' /\ AllUnderWay(Other(q), q)'
    BY <1>0 DEF Whole, Open, Other
  <2>4. Has(up'[q], Ice(q, made'[q])) /\ AllWritten(q) /\ AllUnderWay(Other(q), q)
    BY <1>2, <1>3, <2>2, <2>3 DEF Whole
  <2>5. \A n \in 1..made'[q] : n = made'[q] \/ n \in 1..made[q]
    BY <1>0, <2>1
  <2>6. Has(up'[q], Desc(q)) => Has(up[q], Desc(q))
    BY <1>2, <1>3, <2>2, IceIsNoDesc
  <2>7. AllWritten(q)'
    BY <1>2, <2>4, <2>5, <2>6 DEF AllWritten, Desc, Ice
  <2>8. AllUnderWay(Other(q), q)'
    BY <1>0, <1>2, <2>4, <2>5 DEF AllUnderWay, Through, Joined, Desc, Ice, Other
  <2> QED BY <2>7, <2>8
<1>4. CASE c # q
  <2>1. made'[q] = made[q]
    BY <1>0, <1>4 DEF PortalOffer, Candidate
  <2> QED
    BY <1>0, <1>2, <1>4, <2>1 DEF Whole, Open, AllWritten, AllUnderWay, Through, Joined, Desc, Ice, Other
<1>5. CASE PortalOffer(c) /\ c = q
  <2>1. ~ local[q] /\ made'[q] = made[q]
    BY <1>5 DEF PortalOffer, MainInv
  <2>2. made[q] = 0
    BY <1>0, <2>1 DEF MainInv
  <2> QED BY <2>1, <2>2, NothingMade
<1> QED BY <1>3, <1>4, <1>5

LEMMA CandidateStep ==
    ASSUME TypeOK, MainInv, SaidInv, OrderInv, CandidateInv, [Next]_vars
    PROVE  CandidateInv'
<1>1. Grows
  BY StepGrows
<1>2. SUFFICES ASSUME kind = "portal", NEW q \in Peers PROVE Whole(q)'
  BY <1>1, Two DEF CandidateInv, Whole, Grows
<1>3. /\ Whole(q) /\ DescFirst(q) /\ (NoneBefore(Other(q), q) \/ lagged[Other(q)])
      /\ Other(q) \in Peers /\ made[q] \in Nat
  BY <1>2, Two, TypeParts DEF CandidateInv, OrderInv, Whole, PeerTypeOK
\* Whoever is open and joined was so, and what is under way is the same.
<1>4. ASSUME UNCHANGED <<up, backlog, lagged, remote, known, made>>,
             Open(q)' => Open(q), Joined(Other(q))' => Joined(Other(q)) \/ ~ Through(Other(q), q)
      PROVE  Whole(q)'
  BY <1>3, <1>4 DEF Whole, AllWritten, AllUnderWay, Through, Desc, Ice, Other
<1>5. ASSUME NEW c \in Peers, Server(c) PROVE Whole(q)'
  <2>1. UNCHANGED <<remote, known, made>>
    BY <1>5 DEF Server, pc
  <2>2. CASE Subscribe(c)
    <3>1. ~ Subscribed(c) /\ ~ Member(c)
      BY <2>2, SubscribeForms DEF Subscribed, Member
    <3>2. ~ remote[c] /\ ~ Has(backlog[c], Desc(q))
      BY <3>1, HasNothing DEF MainInv, SaidInv
    <3>3. Open(q)' => Open(q)
      BY <2>2, SubscribeForms DEF Open
    <3>4. Joined(Other(q))' => Joined(Other(q)) \/ Other(q) = c
      BY <1>3, <2>2, SubscribeForms DEF Joined, Other
    <3> QED BY <1>4, <2>1, <2>2, <3>2, <3>3, <3>4, SubscribeForms DEF Through
  <2>3. CASE Relay(c)
    BY <1>3, <2>1, <2>3, RelayWhole
  <2>4. CASE PeerLeft(c)
    <3>1. c = q \/ c = Other(q)
      BY Two
    <3>2. CASE c = q
      BY <2>4, <3>2, LeftForms DEF Whole, Open
    <3>3. CASE c = Other(q)
      <4>1. ~ Joined(Other(q))' /\ up'[q] = up[q] /\ socket'[q] = socket[q]
        BY <2>4, <3>3, LeftForms, Two DEF Joined, Other
      <4> QED BY <1>3, <2>1, <4>1 DEF Whole, AllWritten, AllUnderWay, Open, Desc, Ice
    <3> QED BY <3>1, <3>2, <3>3
  <2> QED BY <1>5, <2>2, <2>3, <2>4 DEF Server, RelayStep
<1>6. ASSUME NEW c \in Peers, Connect(c) PROVE Whole(q)'
  <2>1. UNCHANGED <<up, backlog, lagged, remote, known, made>>
    BY <1>6 DEF Connect, pc
  <2>2. CASE c = q
    <3>1. made'[q] = 0
      BY <1>3, <1>6, <2>1, <2>2 DEF Connect, MainInv
    <3> QED BY <3>1, NothingMade
  <2>3. CASE c # q
    <3>1. socket'[q] = socket[q] /\ ~ Joined(c)' /\ c = Other(q)
      BY <1>6, <2>3, Two, TypeParts DEF Connect, Upgrade, Joined, RoomTypeOK
    <3> QED BY <1>4, <2>1, <3>1 DEF Open, Joined, Other
  <2> QED BY <2>2, <2>3
<1>7. ASSUME NEW c \in Peers, NEW how \in Ended, Quit(c, how) PROVE Whole(q)'
  <2>1. UNCHANGED <<up, backlog, lagged, remote, known, made>>
    BY <1>7 DEF Quit, pc
  <2>2. /\ Open(q)' => Open(q)
        /\ \A r \in Peers : Joined(r)' => Joined(r)
    BY <1>7, CloseForms DEF Quit
  <2> QED BY <1>3, <1>4, <2>1, <2>2 DEF Joined, Other
<1>8. ASSUME NEW c \in Peers, \/ Describe(c) \/ SendOffer(c) \/ SendAnswer(c)
      PROVE  FALSE
  BY <1>2, <1>8 DEF Describe, SendOffer, SendAnswer, MainInv
<1>9. CASE Others /\ UNCHANGED room
  BY <1>4, <1>9 DEF Others, room, Open, Joined, Other
<1>10. ASSUME NEW c \in Peers, Receive(c) PROVE Whole(q)'
  BY <1>2, <1>3, <1>10, ReceiveWhole
<1>11. ASSUME NEW c \in Peers, PortalOffer(c) \/ Candidate(c) PROVE Whole(q)'
  BY <1>2, <1>3, <1>11, WriteWhole
<1> QED BY <1>5, <1>6, <1>7, <1>8, <1>9, <1>10, <1>11, StepForms

----------------------------------------------------------------------------
\* The initial states, and the theorems.

Everything == TypeOK /\ MainInv /\ SaidInv /\ AnswerInv /\ OrderInv /\ CandidateInv

LEMMA InitEverything == Init => Everything
<1> SUFFICES ASSUME Init PROVE Everything
  OBVIOUS
<1>1. \A p \in Peers : /\ main[p] = "connect" /\ ~ local[p] /\ ~ remote[p] /\ ~ answering[p]
                       /\ made[p] = 0 /\ known[p] = {}
                       /\ up[p] = <<>> /\ backlog[p] = <<>>
  BY DEF Init, RoomInit
<1>2. Offerer \in Peers /\ Answerer \in Peers
  BY DEF Peers
<1>3. MainInv
  BY <1>1, <1>2 DEF MainInv
<1>4. SaidInv
  BY <1>1, HasNothing DEF SaidInv
<1>5. AnswerInv
  BY <1>1, <1>2 DEF AnswerInv
<1>6. OrderInv
  BY <1>1, HasNothing DEF OrderInv, DescFirst, NoneBefore
<1>7. CandidateInv
  BY <1>1 DEF CandidateInv, AllWritten, AllUnderWay
<1> QED BY <1>3, <1>4, <1>5, <1>6, <1>7, InitType DEF Everything

LEMMA EverythingStep == Everything /\ [Next]_vars => Everything'
  BY TypeStep, MainStep, SaidStep, AnswerStep, OrderStep, CandidateStep DEF Everything

LEMMA EverythingHolds == Spec => []Everything
<1> QED BY InitEverything, EverythingStep, PTL DEF Spec

\* However the room's messages come back to their writers, a peer knows only candidates of
\* the other, and only such as the other's stack has reported.
THEOREM NoOwnCandidates == Spec => []OnlyOthersCandidates
<1>1. Everything => OnlyOthersCandidates
  BY DEF Everything, SaidInv, OnlyOthersCandidates
<1> QED BY <1>1, EverythingHolds, PTL

\* When nothing is under way between two peers that stayed and were not overrun, an offer
\* that was taken was answered, and portals know all of each other's candidates.
THEOREM QuietComplete == Spec => []QuietIsComplete
<1>1. ASSUME Everything, Quiet, remote[Answerer] PROVE remote[Offerer]
  <2>1. \A p \in Peers : /\ socket[p] = "joined" /\ ~ lagged[p] /\ ~ answering[p]
                         /\ up[p] = <<>> /\ backlog[p] = <<>>
    BY <1>1 DEF Quiet
  <2>2. Offerer \in Peers /\ Answerer \in Peers
    BY DEF Peers
  <2> QED BY <1>1, <2>1, <2>2, HasNothing DEF Everything, AnswerInv, Joined
<1>2. ASSUME Everything, Quiet, remote[Answerer], kind = "portal", NEW p \in Peers
      PROVE  known[p] = {Other(p)} \X (1..made[Other(p)])
  <2>1. \A r \in Peers : /\ socket[r] = "joined" /\ ~ lagged[r]
                         /\ up[r] = <<>> /\ backlog[r] = <<>>
    BY <1>2 DEF Quiet
  <2>2. PICK q \in Peers : q = Other(p) /\ p = Other(q)
    BY DEF Other, Peers
  <2>3. remote[p]
    BY <1>1, <1>2 DEF Peers
  <2>4. \A n \in 1..made[q] : <<q, n>> \in known[p]
    <3>1. AllUnderWay(p, q)
      BY <1>2, <2>1, <2>2 DEF Everything, CandidateInv, Open
    <3> QED BY <2>1, <2>3, <3>1, HasNothing DEF AllUnderWay, Joined, Through
  <2>5. \A c \in known[p] : \E n \in 1..made[q] : c = <<q, n>>
    BY <1>2, <2>2 DEF Everything, SaidInv
  <2>6. \A c \in known[p] : c \in {q} \X (1..made[q])
    BY <2>5
  <2>7. \A c \in {q} \X (1..made[q]) : c \in known[p]
    BY <2>4
  <2> QED BY <2>2, <2>6, <2>7
<1>3. Everything => QuietIsComplete
  BY <1>1, <1>2 DEF QuietIsComplete
<1> QED BY <1>3, EverythingHolds, PTL
=============================================================================
