---------------------------- MODULE UartLineProofs ----------------------------
(***************************************************************************)
(* Proofs about UartLine, for every choice of its constants: the line, the *)
(* buffer and what is decoded keep their types, and a terminal in step     *)
(* with the line gets every sample and every press once, in order.         *)
(*                                                                         *)
(* What the recursive functions of the model compute is proved by the      *)
(* least number a claim does not hold of: WFMin and NatLessThanWellFounded *)
(* say that there is one.                                                  *)
(***************************************************************************)
EXTENDS UartLine, TLAPS, WellFoundedInduction

Lower == {p \in Nat \X Nat : p[1] < p[2]}

\* There is no infinite descent in the naturals.
LEMMA LowerIsWellFounded == IsWellFoundedOn(Lower, Nat)
BY NatLessThanWellFounded DEF OpToRel, Lower

\* Every set of naturals that is not empty has a least member.
LEMMA Least ==
    ASSUME NEW T, T \subseteq Nat, T # {}
    PROVE  \E x \in T : \A y \in T : x <= y
<1>1. PICK x \in T : \A y \in T : ~ (<<y, x>> \in Lower)
  BY LowerIsWellFounded, WFMin, Zenon
<1>2. \A y \in T : ~ (y < x)
  BY <1>1 DEF Lower
<1>. QED
  BY <1>2

----------------------------------------------------------------------------
\* A recursive definition: the value at s is B[s], from the values at what is smaller.
Recursive(S, V, size, B) ==
    /\ V # {}
    /\ size \in [S -> Nat]
    /\ B \in [S -> [[S -> V] -> V]]
    /\ \A s \in S : \A g, h \in [S -> V] :
          (\A t \in S : size[t] < size[s] => g[t] = h[t]) => B[s][g] = B[s][h]

\* g follows B wherever the size is below n.
Upto(B, size, g, n) == \A s \in DOMAIN size : size[s] < n => g[s] = B[s][g]

\* A recursive definition has a solution: what is computed up to a size can be continued.
LEMMA Recursion ==
    ASSUME NEW S, NEW V, NEW size, NEW B, Recursive(S, V, size, B)
    PROVE  \E f \in [S -> V] : \A s \in S : f[s] = B[s][f]
<1>. USE DEF Recursive
<1>. DEFINE Bad == {n \in Nat : ~ \E g \in [S -> V] : Upto(B, size, g, n)}
<1>1. \A n \in Nat : \E g \in [S -> V] : Upto(B, size, g, n)
  <2>1. SUFFICES ASSUME Bad # {} PROVE FALSE
    OBVIOUS
  <2>2. PICK n \in Bad : \A k \in Bad : n <= k
    BY <2>1, Least
  <2>3. CASE n = 0
    <3>1. PICK v \in V : TRUE
      OBVIOUS
    <3>2. [s \in S |-> v] \in [S -> V] /\ Upto(B, size, [s \in S |-> v], n)
      BY <2>3 DEF Upto
    <3>. QED
      BY <3>2
  <2>4. CASE n # 0
    <3>1. n - 1 \in Nat /\ n - 1 \notin Bad
      BY <2>2, <2>4
    <3>2. PICK g \in [S -> V] : Upto(B, size, g, n - 1)
      BY <3>1
    <3>. DEFINE h == [s \in S |-> B[s][g]]
    <3>3. h \in [S -> V]
      OBVIOUS
    <3>4. ASSUME NEW s \in S, size[s] < n PROVE h[s] = B[s][h]
      <4>1. ASSUME NEW t \in S, size[t] < size[s] PROVE g[t] = h[t]
        <5>1. size[t] < n - 1
          BY <3>4, <4>1
        <5>. QED
          BY <5>1, <3>2 DEF Upto
      <4>2. B[s][g] = B[s][h]
        BY <4>1, <3>3
      <4>. QED
        BY <4>2
    <3>. QED
      BY <3>3, <3>4 DEF Upto
  <2>. QED
    BY <2>3, <2>4
<1>2. \A g, h \in [S -> V] : \A m, n \in Nat : \A s \in S :
         Upto(B, size, g, m) /\ Upto(B, size, h, n) /\ size[s] < m /\ size[s] < n => g[s] = h[s]
  <2>. SUFFICES ASSUME NEW g \in [S -> V], NEW h \in [S -> V], NEW m \in Nat, NEW n \in Nat,
                       Upto(B, size, g, m), Upto(B, size, h, n)
                PROVE  \A s \in S : size[s] < m /\ size[s] < n => g[s] = h[s]
    OBVIOUS
  <2>. DEFINE T == {k \in Nat : k < m /\ k < n /\ \E t \in S : size[t] = k /\ g[t] # h[t]}
  <2>1. SUFFICES ASSUME T # {} PROVE FALSE
    OBVIOUS
  <2>2. PICK k \in T : \A j \in T : k <= j
    BY <2>1, Least
  <2>3. PICK t \in S : size[t] = k /\ g[t] # h[t]
    OBVIOUS
  <2>4. ASSUME NEW u \in S, size[u] < size[t] PROVE g[u] = h[u]
    <3>1. size[u] \notin T /\ size[u] \in Nat /\ size[u] < m /\ size[u] < n
      BY <2>2, <2>3, <2>4
    <3>. QED
      BY <3>1
  <2>5. B[t][g] = B[t][h]
    BY <2>4
  <2>. QED
    BY <2>5, <2>3 DEF Upto
<1>. DEFINE G == [n \in Nat |-> CHOOSE g \in [S -> V] : Upto(B, size, g, n)]
            f == [s \in S |-> G[size[s] + 1][s]]
<1>4. \A n \in Nat : G[n] \in [S -> V] /\ Upto(B, size, G[n], n)
  BY <1>1
<1>. HIDE DEF G
<1>5. \A s \in S : size[s] + 1 \in Nat /\ size[s] < size[s] + 1
  OBVIOUS
<1>6. f \in [S -> V]
  BY <1>4, <1>5
<1>7. ASSUME NEW s \in S PROVE f[s] = B[s][f]
  <2>1. PICK m \in Nat : m = size[s] + 1
    BY <1>5
  <2>2. PICK g \in [S -> V] : g = G[m] /\ Upto(B, size, g, m)
    BY <1>4
  <2>3. ASSUME NEW t \in S, size[t] < size[s] PROVE g[t] = f[t]
    <3>1. PICK n \in Nat : n = size[t] + 1
      BY <1>5
    <3>2. PICK h \in [S -> V] : h = G[n] /\ Upto(B, size, h, n)
      BY <1>4
    <3>3. size[t] < m /\ size[t] < n
      BY <2>1, <2>3, <3>1
    <3>4. Upto(B, size, g, m) /\ Upto(B, size, h, n)
      BY <2>2, <3>2
    <3>5. \A j, k \in Nat : \A u \in S :
             Upto(B, size, g, j) /\ Upto(B, size, h, k) /\ size[u] < j /\ size[u] < k => g[u] = h[u]
      BY <1>2, Zenon
    <3>6. \A u \in S : size[u] < m /\ size[u] < n => g[u] = h[u]
      BY <3>4, <3>5, Zenon
    <3>7. g[t] = h[t]
      BY <3>3, <3>6
    <3>. QED
      BY <3>1, <3>2, <3>7
  <2>4. B[s][g] = B[s][f]
    <3>. HIDE DEF f
    <3>. QED
      BY <2>3, <1>6
  <2>5. f[s] = g[s] /\ g[s] = B[s][g]
    BY <2>1, <2>2 DEF Upto
  <2>. QED
    BY <2>4, <2>5
<1>. QED
  BY <1>6, <1>7

----------------------------------------------------------------------------
\* The checksum of bytes is a byte.

LEMMA XorIsByte == \A a, b \in Byte : XorByte[a][b] \in Byte
<1>1. \A a, b \in Byte, w \in 1..4 : BitXor(a, b, w) \in {0, w}
  BY DEF BitXor, Bit, Byte
<1>2. \A a, b \in Byte :
         XorByte[a][b] = BitXor(a, b, 1) + BitXor(a, b, 2) + BitXor(a, b, 4)
  BY DEF XorByte
<1>. QED
  BY <1>1, <1>2 DEF Byte

\* What is left of a sequence without its first element.
LEMMA TailIsShorter ==
    ASSUME NEW A, NEW s \in Seq(A), s # <<>>
    PROVE  /\ Head(s) \in A /\ Tail(s) \in Seq(A)
           /\ Len(Tail(s)) = Len(s) - 1 /\ Len(s) \in Nat \ {0}
OBVIOUS

\* checksum satisfies its own definition.
LEMMA ChecksumIs ==
    \A s \in Seq(Byte) :
        checksum[s] = IF s = <<>> THEN 0 ELSE XorByte[Head(s)][checksum[Tail(s)]]
<1>. DEFINE S == Seq(Byte)
            size == [s \in S |-> Len(s)]
            B == [s \in S |-> [g \in [S -> Byte] |->
                    IF s = <<>> THEN 0 ELSE XorByte[Head(s)][g[Tail(s)]]]]
<1>1. size \in [S -> Nat]
  OBVIOUS
<1>2. B \in [S -> [[S -> Byte] -> Byte]]
  <2>1. ASSUME NEW s \in S, NEW g \in [S -> Byte]
        PROVE  (IF s = <<>> THEN 0 ELSE XorByte[Head(s)][g[Tail(s)]]) \in Byte
    <3>1. 0 \in Byte
      BY DEF Byte
    <3>2. CASE s # <<>>
      <4>1. Head(s) \in Byte /\ g[Tail(s)] \in Byte
        BY <3>2, TailIsShorter
      <4>. QED
        BY <4>1, <3>2, XorIsByte
    <3>. QED
      BY <3>1, <3>2
  <2>. HIDE DEF S
  <2>. QED
    BY <2>1
<1>3. \A s \in S : \A g, h \in [S -> Byte] :
         (\A t \in S : size[t] < size[s] => g[t] = h[t]) => B[s][g] = B[s][h]
  <2>. SUFFICES ASSUME NEW s \in S, NEW g \in [S -> Byte], NEW h \in [S -> Byte],
                       \A t \in S : size[t] < size[s] => g[t] = h[t]
                PROVE  B[s][g] = B[s][h]
    OBVIOUS
  <2>1. CASE s # <<>>
    <3>1. Tail(s) \in S /\ size[Tail(s)] < size[s]
      BY <2>1, TailIsShorter
    <3>2. g[Tail(s)] = h[Tail(s)]
      BY <3>1
    <3>. QED
      BY <3>2
  <2>. QED
    BY <2>1
<1>4. Byte # {}
  BY DEF Byte
<1>5. PICK f \in [S -> Byte] : \A s \in S : f[s] = B[s][f]
  <2>. HIDE DEF S, size, B
  <2>1. Recursive(S, Byte, size, B)
    BY <1>1, <1>2, <1>3, <1>4 DEF Recursive
  <2>. QED
    BY <2>1, Recursion
<1>6. f = [s \in S |-> IF s = <<>> THEN 0 ELSE XorByte[Head(s)][f[Tail(s)]]]
  BY <1>5
<1>7. checksum = [s \in S |-> IF s = <<>> THEN 0 ELSE XorByte[Head(s)][checksum[Tail(s)]]]
  BY <1>6 DEF checksum
<1>. QED
  BY <1>7

\* It is a byte.
LEMMA ChecksumType == \A s \in Seq(Byte) : checksum[s] \in Byte
<1>. DEFINE T == {n \in Nat : \E s \in Seq(Byte) : Len(s) = n /\ checksum[s] \notin Byte}
<1>1. SUFFICES ASSUME T # {} PROVE FALSE
  OBVIOUS
<1>2. PICK n \in T : \A m \in T : n <= m
  BY <1>1, Least
<1>3. PICK s \in Seq(Byte) : Len(s) = n /\ checksum[s] \notin Byte
  OBVIOUS
<1>4. s # <<>>
  BY <1>3, ChecksumIs DEF Byte
<1>5. Head(s) \in Byte /\ Tail(s) \in Seq(Byte) /\ Len(Tail(s)) \in Nat /\ Len(Tail(s)) < n
  BY <1>3, <1>4, TailIsShorter
<1>6. checksum[Tail(s)] \in Byte
  <2>1. Len(Tail(s)) \notin T
    BY <1>2, <1>5
  <2>. QED
    BY <2>1, <1>5
<1>. QED
  BY <1>3, <1>4, <1>5, <1>6, XorIsByte, ChecksumIs

----------------------------------------------------------------------------
\* What try_pop leaves and finds.

LEMMA SubSeqIs ==
    ASSUME NEW A, NEW s \in Seq(A), NEW m \in 1..Len(s) + 1, NEW n \in m - 1..Len(s)
    PROVE  /\ SubSeq(s, m, n) \in Seq(A)
           /\ Len(SubSeq(s, m, n)) = n - m + 1
           /\ \A k \in 1..n - m + 1 : SubSeq(s, m, n)[k] = s[m + k - 1]
OBVIOUS

\* One sequence behind the other.
LEMMA ConcatIs ==
    ASSUME NEW A, NEW s \in Seq(A), NEW t \in Seq(A)
    PROVE  /\ s \o t \in Seq(A)
           /\ Len(s \o t) = Len(s) + Len(t)
           /\ \A k \in 1..Len(s) + Len(t) : (s \o t)[k] = IF k <= Len(s) THEN s[k] ELSE t[k - Len(s)]
OBVIOUS

\* Sequences that agree everywhere are equal.
LEMMA SameSeq ==
    ASSUME NEW A, NEW s \in Seq(A), NEW t \in Seq(A), Len(s) = Len(t),
           \A k \in 1..Len(s) : s[k] = t[k]
    PROVE  s = t
OBVIOUS

Saying == Sample \cup Pressed
Out == [buf : Seq(Byte), found : Seq(Saying)]

FrameAt(s) == [msg |-> s[3], payload |-> SubSeq(s, 5, 4 + s[4])]
Behind(s) == SubSeq(s, 6 + s[4], Len(s))

\* The body of Pops, with g for its own values.
PopBody(g, s) ==
    CASE Len(s) >= 2 /\ ~ AtMagic(s) -> g[Tail(s)]
      [] Len(s) < 2 \/ (AtMagic(s) /\ ~ Complete(s)) -> [buf |-> s, found |-> <<>>]
      [] Complete(s) /\ ~ ChecksumOk(s) -> [buf |-> Tail(s), found |-> <<>>]
      [] Complete(s) /\ ChecksumOk(s) /\ s[3] \notin MsgType ->
           [buf |-> SubSeq(s, 1, 5 + s[4]), found |-> <<>>]
      [] OTHER ->
           LET f == [msg |-> s[3], payload |-> SubSeq(s, 5, 4 + s[4])]
           IN  [g[SubSeq(s, 6 + s[4], Len(s))] EXCEPT !.found = Meaning(f) \o @]

\* What a frame says is samples and presses; a distance of 0 becomes none.
LEMMA MeaningType ==
    ASSUME NEW f, f.payload \in Seq(Byte)
    PROVE  Meaning(f) \in Seq(Saying)
<1>1. Len(f.payload) >= 2 => f.payload[1] \in Byte /\ f.payload[2] \in Byte
  OBVIOUS
<1>2. CASE f.msg = Sense /\ Len(f.payload) >= 2
  <2>1. Meaning(f) = <<[force |-> f.payload[1],
                        tof |-> IF f.payload[2] = 0 THEN NoTof ELSE f.payload[2]]>>
    BY <1>2 DEF Meaning, Sense, Button
  <2>2. [force |-> f.payload[1], tof |-> IF f.payload[2] = 0 THEN NoTof ELSE f.payload[2]] \in Sample
    BY <1>1, <1>2 DEF Sample
  <2>. QED
    BY <2>1, <2>2 DEF Saying
<1>3. CASE /\ f.msg = Button /\ Len(f.payload) >= 2 /\ f.payload[2] = 1
           /\ f.payload[1] \in 0..3
  <2>1. Meaning(f) = <<Press(f.payload[1])>>
    BY <1>3 DEF Meaning, Sense, Button
  <2>2. Press(f.payload[1]) \in Pressed
    BY <1>3 DEF Press, Pressed
  <2>. QED
    BY <2>1, <2>2 DEF Saying
<1>4. CASE /\ ~ (f.msg = Sense /\ Len(f.payload) >= 2)
           /\ ~ (/\ f.msg = Button /\ Len(f.payload) >= 2 /\ f.payload[2] = 1
                 /\ f.payload[1] \in 0..3)
  BY <1>4 DEF Meaning
<1>. QED
  BY <1>2, <1>3, <1>4

\* The cases of try_pop's loop: skip a byte, wait for more, drop the first byte, be stuck,
\* or take a frame.
Skips(s) == Len(s) >= 2 /\ ~ AtMagic(s)
Waits(s) == Len(s) < 2 \/ (AtMagic(s) /\ ~ Complete(s))
Damaged(s) == Complete(s) /\ ~ ChecksumOk(s)
Unknown(s) == Complete(s) /\ ChecksumOk(s) /\ s[3] \notin MsgType
Takes(s) == Complete(s) /\ ChecksumOk(s) /\ s[3] \in MsgType

\* One of the five cases holds, and what the body of Pops is in each.
LEMMA PopCases ==
    ASSUME NEW s \in Seq(Byte), NEW g
    PROVE  /\ Skips(s) \/ Waits(s) \/ Damaged(s) \/ Unknown(s) \/ Takes(s)
           /\ Skips(s) => PopBody(g, s) = g[Tail(s)]
           /\ Waits(s) => PopBody(g, s) = [buf |-> s, found |-> <<>>]
           /\ Damaged(s) => PopBody(g, s) = [buf |-> Tail(s), found |-> <<>>]
           /\ Unknown(s) => PopBody(g, s) = [buf |-> SubSeq(s, 1, 5 + s[4]), found |-> <<>>]
           /\ Takes(s) => PopBody(g, s) = [g[Behind(s)] EXCEPT !.found = Meaning(FrameAt(s)) \o @]
<1>1. CASE Skips(s)
  BY <1>1 DEF Skips, Waits, Damaged, Unknown, Takes, PopBody, Complete
<1>2. CASE Waits(s)
  BY <1>2 DEF Skips, Waits, Damaged, Unknown, Takes, PopBody, Complete
<1>3. CASE Damaged(s)
  BY <1>3 DEF Skips, Waits, Damaged, Unknown, Takes, PopBody, Complete
<1>4. CASE Unknown(s)
  BY <1>4 DEF Skips, Waits, Damaged, Unknown, Takes, PopBody, Complete
<1>5. CASE Takes(s)
  BY <1>5 DEF Skips, Waits, Damaged, Unknown, Takes, PopBody, Complete, FrameAt, Behind
<1>6. Skips(s) \/ Waits(s) \/ Damaged(s) \/ Unknown(s) \/ Takes(s)
  BY DEF Skips, Waits, Damaged, Unknown, Takes
<1>. QED
  BY <1>1, <1>2, <1>3, <1>4, <1>5, <1>6

\* What is taken or skipped leaves fewer bytes, and the types are right.
LEMMA Shorter ==
    ASSUME NEW s \in Seq(Byte)
    PROVE  /\ Skips(s) \/ Damaged(s) =>
                 Tail(s) \in Seq(Byte) /\ Len(Tail(s)) \in Nat /\ Len(Tail(s)) < Len(s)
           /\ Takes(s) =>
                 /\ Behind(s) \in Seq(Byte) /\ Len(Behind(s)) \in Nat /\ Len(Behind(s)) < Len(s)
                 /\ FrameAt(s).payload \in Seq(Byte)
           /\ Unknown(s) =>
                 /\ SubSeq(s, 1, 5 + s[4]) \in Seq(Byte)
                 /\ Len(SubSeq(s, 1, 5 + s[4])) <= Len(s)
<1>1. CASE Skips(s) \/ Damaged(s)
  BY <1>1 DEF Skips, Damaged, Complete, Takes, Unknown
<1>2. CASE Takes(s) \/ Unknown(s)
  <2>1. Len(s) >= 5 /\ s[4] \in Byte /\ Len(s) >= 5 + s[4]
    BY <1>2 DEF Takes, Unknown, Complete
  <2>2. s[4] \in Nat
    BY <2>1 DEF Byte
  <2>3. /\ Behind(s) \in Seq(Byte) /\ Len(Behind(s)) = Len(s) - 5 - s[4]
    BY <2>1, <2>2, SubSeqIs DEF Behind
  <2>4. FrameAt(s).payload \in Seq(Byte)
    BY <2>1, <2>2, SubSeqIs DEF FrameAt
  <2>5. /\ SubSeq(s, 1, 5 + s[4]) \in Seq(Byte)
        /\ Len(SubSeq(s, 1, 5 + s[4])) = 5 + s[4]
    BY <2>1, <2>2, SubSeqIs
  <2>6. ~ Skips(s) /\ ~ Damaged(s)
    BY <1>2 DEF Takes, Unknown, Complete, Skips, Damaged
  <2>. QED
    BY <2>1, <2>2, <2>3, <2>4, <2>5, <2>6
<1>. QED
  BY <1>1, <1>2

\* With right values for all that is shorter, the value is right.
LEMMA PopBodyType ==
    ASSUME NEW s \in Seq(Byte), NEW g,
           \A t \in Seq(Byte) : Len(t) < Len(s) => g[t] \in Out
    PROVE  PopBody(g, s) \in Out
<1>1. CASE Skips(s)
  <2>1. PopBody(g, s) = g[Tail(s)]
    BY <1>1, PopCases, Zenon
  <2>. QED
    BY <1>1, <2>1, Shorter
<1>2. CASE Waits(s) \/ Damaged(s) \/ Unknown(s)
  <2>1. PICK left \in {s, Tail(s), SubSeq(s, 1, 5 + s[4])} :
           left \in Seq(Byte) /\ PopBody(g, s) = [buf |-> left, found |-> <<>>]
    BY <1>2, PopCases, Shorter, Zenon
  <2>. QED
    BY <2>1 DEF Out
<1>3. CASE Takes(s)
  <2>1. /\ g[Behind(s)] \in Out
        /\ FrameAt(s).payload \in Seq(Byte)
    BY <1>3, Shorter
  <2>2. Meaning(FrameAt(s)) \o g[Behind(s)].found \in Seq(Saying)
    BY <2>1, MeaningType DEF Out
  <2>3. PopBody(g, s) = [buf |-> g[Behind(s)].buf, found |-> Meaning(FrameAt(s)) \o g[Behind(s)].found]
    <3>1. PopBody(g, s) = [g[Behind(s)] EXCEPT !.found = Meaning(FrameAt(s)) \o @]
      BY <1>3, PopCases, Zenon
    <3>. QED
      BY <2>1, <3>1 DEF Out
  <2>. QED
    BY <2>1, <2>2, <2>3 DEF Out
<1>. QED
  BY <1>1, <1>2, <1>3, PopCases

\* Pops satisfies its own definition.
LEMMA PopsIs == \A s \in Seq(Byte) : Pops[s] = PopBody(Pops, s)
<1>. DEFINE S == Seq(Byte)
            size == [s \in S |-> Len(s)]
            B == [s \in S |-> [g \in [S -> Out] |-> PopBody(g, s)]]
<1>1. size \in [S -> Nat]
  OBVIOUS
<1>2. Out # {}
  <2>1. [buf |-> <<>>, found |-> <<>>] \in Out
    BY DEF Out
  <2>. QED
    BY <2>1
<1>3. B \in [S -> [[S -> Out] -> Out]]
  <2>1. ASSUME NEW s \in S, NEW g \in [S -> Out] PROVE PopBody(g, s) \in Out
    BY PopBodyType
  <2>. HIDE DEF S
  <2>. QED
    BY <2>1
<1>4. \A s \in S : \A g, h \in [S -> Out] :
         (\A t \in S : size[t] < size[s] => g[t] = h[t]) => B[s][g] = B[s][h]
  <2>. SUFFICES ASSUME NEW s \in S, NEW g \in [S -> Out], NEW h \in [S -> Out],
                       \A t \in S : size[t] < size[s] => g[t] = h[t]
                PROVE  PopBody(g, s) = PopBody(h, s)
    OBVIOUS
  <2>1. Skips(s) => g[Tail(s)] = h[Tail(s)]
    BY Shorter
  <2>2. Takes(s) => g[Behind(s)] = h[Behind(s)]
    BY Shorter
  <2>3. CASE Skips(s)
    <3>1. PopBody(g, s) = g[Tail(s)] /\ PopBody(h, s) = h[Tail(s)]
      BY <2>3, PopCases, Zenon
    <3>. QED
      BY <2>1, <2>3, <3>1
  <2>4. CASE Waits(s) \/ Damaged(s) \/ Unknown(s)
    BY <2>4, PopCases, Zenon
  <2>5. CASE Takes(s)
    <3>1. /\ PopBody(g, s) = [g[Behind(s)] EXCEPT !.found = Meaning(FrameAt(s)) \o @]
          /\ PopBody(h, s) = [h[Behind(s)] EXCEPT !.found = Meaning(FrameAt(s)) \o @]
      BY <2>5, PopCases, Zenon
    <3>. QED
      BY <2>2, <2>5, <3>1
  <2>. QED
    BY <2>3, <2>4, <2>5, PopCases, Zenon
<1>5. PICK f \in [S -> Out] : \A s \in S : f[s] = B[s][f]
  <2>. HIDE DEF S, size, B
  <2>1. Recursive(S, Out, size, B)
    BY <1>1, <1>2, <1>3, <1>4 DEF Recursive
  <2>. QED
    BY <2>1, Recursion
<1>6. f = [s \in S |-> PopBody(f, s)]
  BY <1>5
<1>7. Pops = [s \in S |-> PopBody(Pops, s)]
  BY <1>6 DEF Pops, PopBody
<1>. QED
  BY <1>7

\* Pops leaves bytes, no more than there were, and finds samples and presses.
LEMMA PopsType ==
    \A s \in Seq(Byte) : Pops[s] \in Out /\ Len(Pops[s].buf) <= Len(s)
<1>. DEFINE Fine(s) == Pops[s] \in Out /\ Len(Pops[s].buf) <= Len(s)
            T == {n \in Nat : \E s \in Seq(Byte) : Len(s) = n /\ ~ Fine(s)}
<1>1. SUFFICES ASSUME T # {} PROVE FALSE
  OBVIOUS
<1>2. PICK n \in T : \A m \in T : n <= m
  BY <1>1, Least
<1>3. PICK s \in Seq(Byte) : Len(s) = n /\ ~ Fine(s)
  OBVIOUS
<1>4. ASSUME NEW t \in Seq(Byte), Len(t) < Len(s) PROVE Fine(t)
  <2>1. Len(t) \in Nat /\ Len(t) \notin T
    BY <1>2, <1>3, <1>4
  <2>. QED
    BY <2>1
<1>5. Pops[s] = PopBody(Pops, s) /\ Pops[s] \in Out
  BY <1>4, PopsIs, PopBodyType
<1>6. Len(Pops[s].buf) <= Len(s)
  <2>1. CASE Skips(s)
    <3>1. Tail(s) \in Seq(Byte) /\ Len(Tail(s)) \in Nat /\ Len(Tail(s)) < Len(s)
      BY <2>1, Shorter
    <3>2. Pops[s] = Pops[Tail(s)]
      BY <2>1, <1>5, PopCases, Zenon
    <3>3. Fine(Tail(s))
      BY <1>4, <3>1
    <3>4. Len(Pops[s].buf) \in Nat
      BY <1>5 DEF Out
    <3>. QED
      BY <3>1, <3>2, <3>3, <3>4
  <2>2. CASE Waits(s) \/ Damaged(s) \/ Unknown(s)
    BY <2>2, <1>5, PopCases, Shorter
  <2>3. CASE Takes(s)
    <3>1. Behind(s) \in Seq(Byte) /\ Len(Behind(s)) \in Nat /\ Len(Behind(s)) < Len(s)
      BY <2>3, Shorter
    <3>2. Fine(Behind(s))
      BY <1>4, <3>1
    <3>3. Pops[s] = [Pops[Behind(s)] EXCEPT !.found = Meaning(FrameAt(s)) \o @]
      BY <2>3, <1>5, PopCases, Zenon
    <3>4. Pops[s].buf = Pops[Behind(s)].buf /\ Len(Pops[Behind(s)].buf) \in Nat
      BY <3>2, <3>3 DEF Out
    <3>. QED
      BY <3>1, <3>2, <3>3, <3>4
  <2>. QED
    BY <2>1, <2>2, <2>3, PopCases
<1>. QED
  BY <1>3, <1>5, <1>6

----------------------------------------------------------------------------
\* The frame of a message is taken for that message.

LEMMA JoinTwo ==
    ASSUME NEW A, NEW x \in A, NEW y \in A, NEW s \in Seq(A)
    PROVE  /\ <<x, y>> \o s \in Seq(A) /\ Len(<<x, y>> \o s) = 2 + Len(s)
           /\ (<<x, y>> \o s)[1] = x /\ (<<x, y>> \o s)[2] = y
           /\ \A k \in 1..Len(s) : (<<x, y>> \o s)[2 + k] = s[k]
<1>1. <<x, y>> \in Seq(A) /\ Len(<<x, y>>) = 2 /\ <<x, y>>[1] = x /\ <<x, y>>[2] = y
  OBVIOUS
<1>. DEFINE t == <<x, y>>
<1>. HIDE DEF t
<1>2. t \in Seq(A) /\ Len(t) = 2 /\ t[1] = x /\ t[2] = y
  BY <1>1 DEF t
<1>3. /\ t \o s \in Seq(A) /\ Len(t \o s) = 2 + Len(s)
      /\ (t \o s)[1] = x /\ (t \o s)[2] = y
      /\ \A k \in 1..Len(s) : (t \o s)[2 + k] = s[k]
  <2>1. /\ t \o s \in Seq(A) /\ Len(t \o s) = Len(t) + Len(s)
        /\ \A k \in 1..Len(t) + Len(s) : (t \o s)[k] = IF k <= Len(t) THEN t[k] ELSE s[k - Len(t)]
    BY <1>2, ConcatIs
  <2>. DEFINE r == t \o s
  <2>. HIDE DEF r
  <2>2. \A k \in 1..2 + Len(s) : r[k] = IF k <= 2 THEN t[k] ELSE s[k - 2]
    BY <1>2, <2>1 DEF r
  <2>3. ASSUME NEW k \in 1..Len(s) PROVE r[2 + k] = s[k]
    <3>1. PICK j \in 1..2 + Len(s) : j = 2 + k
      OBVIOUS
    <3>2. ~ (j <= 2) /\ j - 2 = k
      BY <3>1
    <3>. QED
      BY <2>2, <3>1, <3>2
  <2>4. r[1] = t[1] /\ r[2] = t[2]
    BY <2>2
  <2>. USE DEF r
  <2>. QED
    BY <1>2, <2>1, <2>3, <2>4
<1>. QED
  BY <1>3 DEF t

\* A frame, byte by byte.
LEMMA EncodeIs ==
    ASSUME NEW msg \in MsgType, NEW a \in Byte, NEW b \in Byte
    PROVE  \E c \in Byte :
              /\ c = checksum[<<msg, 2, a, b>>]
              /\ encode(msg, <<a, b>>) = <<MAGIC0, MAGIC1, msg, 2, a, b, c>>
<1>1. <<msg, 2, a, b>> \in Seq(Byte)
  BY DEF MsgType, Sense, Button, Byte
<1>2. <<msg, Len(<<a, b>>)>> \o <<a, b>> = <<msg, 2, a, b>>
  <2>1. /\ <<a, b>> \in Seq(Byte) /\ Len(<<a, b>>) = 2 /\ <<a, b>>[1] = a /\ <<a, b>>[2] = b
        /\ <<msg, 2, a, b>> \in Seq(Byte)
        /\ msg \in Byte /\ 2 \in Byte
    BY <1>1 DEF MsgType, Sense, Button, Byte
  <2>. DEFINE s == <<msg, 2>> \o <<a, b>>
  <2>2. /\ s \in Seq(Byte) /\ Len(s) = 4 /\ s[1] = msg /\ s[2] = 2
        /\ \A k \in 1..2 : s[2 + k] = <<a, b>>[k]
    BY <2>1, JoinTwo
  <2>. HIDE DEF s
  <2>3. s[3] = a /\ s[4] = b
    BY <2>1, <2>2
  <2>4. s = <<msg, 2, a, b>>
    BY <2>1, <2>2, <2>3
  <2>. QED
    BY <2>1, <2>4 DEF s
<1>3. PICK c \in Byte : c = checksum[<<msg, 2, a, b>>]
  BY <1>1, ChecksumType
<1>4. encode(msg, <<a, b>>) = <<MAGIC0, MAGIC1>> \o <<msg, 2, a, b>> \o <<c>>
  BY <1>2, <1>3 DEF encode
<1>5. <<MAGIC0, MAGIC1>> \o <<msg, 2, a, b>> \o <<c>> = <<MAGIC0, MAGIC1, msg, 2, a, b, c>>
  <2>1. MAGIC0 \in Byte /\ MAGIC1 \in Byte /\ msg \in Byte /\ 2 \in Byte
    BY DEF MAGIC0, MAGIC1, MsgType, Sense, Button, Byte
  <2>2. PICK body \in Seq(Byte) :
            /\ body = <<msg, 2, a, b>> /\ Len(body) = 4
            /\ body[1] = msg /\ body[2] = 2 /\ body[3] = a /\ body[4] = b
    BY <1>1
  <2>3. PICK last \in Seq(Byte) : last = <<c>> /\ Len(last) = 1 /\ last[1] = c
    <3>1. <<c>> \in Seq(Byte) /\ Len(<<c>>) = 1 /\ <<c>>[1] = c
      OBVIOUS
    <3>. QED
      BY <3>1, Zenon
  <2>4. PICK s \in Seq(Byte) :
            /\ s = <<MAGIC0, MAGIC1>> \o body
            /\ Len(s) = 2 + Len(body) /\ s[1] = MAGIC0 /\ s[2] = MAGIC1
            /\ \A k \in 1..Len(body) : s[2 + k] = body[k]
    <3>1. /\ <<MAGIC0, MAGIC1>> \o body \in Seq(Byte)
          /\ Len(<<MAGIC0, MAGIC1>> \o body) = 2 + Len(body)
          /\ (<<MAGIC0, MAGIC1>> \o body)[1] = MAGIC0 /\ (<<MAGIC0, MAGIC1>> \o body)[2] = MAGIC1
          /\ \A k \in 1..Len(body) : (<<MAGIC0, MAGIC1>> \o body)[2 + k] = body[k]
      BY <2>1, JoinTwo
    <3>. QED
      BY <3>1, Zenon
  <2>5. Len(s) = 6 /\ s[3] = msg /\ s[4] = 2 /\ s[5] = a /\ s[6] = b
    BY <2>2, <2>4
  <2>6. PICK t \in Seq(Byte) :
            /\ t = s \o last /\ Len(t) = Len(s) + Len(last)
            /\ \A k \in 1..Len(s) + Len(last) : t[k] = IF k <= Len(s) THEN s[k] ELSE last[k - Len(s)]
    <3>1. /\ s \o last \in Seq(Byte) /\ Len(s \o last) = Len(s) + Len(last)
          /\ \A k \in 1..Len(s) + Len(last) :
                (s \o last)[k] = IF k <= Len(s) THEN s[k] ELSE last[k - Len(s)]
      BY ConcatIs
    <3>. QED
      BY <3>1, Zenon
  <2>7. Len(t) = 7 /\ \A k \in 1..7 : t[k] = IF k <= 6 THEN s[k] ELSE last[k - 6]
    BY <2>3, <2>5, <2>6
  <2>8. t = <<MAGIC0, MAGIC1, msg, 2, a, b, c>>
    BY <2>1, <2>3, <2>4, <2>5, <2>7
  <2>. QED
    BY <2>2, <2>3, <2>4, <2>6, <2>8
<1>. QED
  BY <1>3, <1>4, <1>5

\* A frame that says m.
FrameOf(e, m) ==
    /\ e \in Seq(Byte) /\ Len(e) = FrameLen
    /\ AtMagic(e) /\ e[4] = 2
    /\ Takes(e) /\ Meaning(FrameAt(e)) = <<m>>

\* What encode makes of two bytes is taken, for what they say.
LEMMA FrameTaken ==
    ASSUME NEW msg \in MsgType, NEW a \in Byte, NEW b \in Byte, NEW m,
           Meaning([msg |-> msg, payload |-> <<a, b>>]) = <<m>>
    PROVE  FrameOf(encode(msg, <<a, b>>), m)
<1>1. PICK c \in Byte : /\ c = checksum[<<msg, 2, a, b>>]
                        /\ encode(msg, <<a, b>>) = <<MAGIC0, MAGIC1, msg, 2, a, b, c>>
  BY EncodeIs
<1>. DEFINE e == <<MAGIC0, MAGIC1, msg, 2, a, b, c>>
<1>2. /\ e \in Seq(Byte) /\ Len(e) = 7 /\ e[1] = MAGIC0 /\ e[2] = MAGIC1 /\ e[3] = msg
      /\ e[4] = 2 /\ e[5] = a /\ e[6] = b /\ e[7] = c
  BY DEF Byte, MAGIC0, MAGIC1, MsgType, Sense, Button
<1>. HIDE DEF e
<1>3. SubSeq(e, 3, 6) = <<msg, 2, a, b>> /\ SubSeq(e, 5, 6) = <<a, b>>
  <2>1. /\ SubSeq(e, 3, 6) \in Seq(Byte) /\ Len(SubSeq(e, 3, 6)) = 4
        /\ \A k \in 1..4 : SubSeq(e, 3, 6)[k] = e[k + 2]
    <3>1. /\ SubSeq(e, 3, 6) \in Seq(Byte) /\ Len(SubSeq(e, 3, 6)) = 6 - 3 + 1
          /\ \A k \in 1..6 - 3 + 1 : SubSeq(e, 3, 6)[k] = e[3 + k - 1]
      BY <1>2, SubSeqIs
    <3>. QED
      BY <3>1
  <2>2. /\ SubSeq(e, 5, 6) \in Seq(Byte) /\ Len(SubSeq(e, 5, 6)) = 2
        /\ \A k \in 1..2 : SubSeq(e, 5, 6)[k] = e[k + 4]
    BY <1>2, SubSeqIs
  <2>. DEFINE s == SubSeq(e, 3, 6)
              t == SubSeq(e, 5, 6)
  <2>. HIDE DEF s, t
  <2>3. s \in Seq(Byte) /\ Len(s) = 4 /\ s[1] = msg /\ s[2] = 2 /\ s[3] = a /\ s[4] = b
    BY <1>2, <2>1 DEF s
  <2>4. t \in Seq(Byte) /\ Len(t) = 2 /\ t[1] = a /\ t[2] = b
    BY <1>2, <2>2 DEF t
  <2>5. s = <<msg, 2, a, b>> /\ t = <<a, b>>
    BY <2>3, <2>4
  <2>. QED
    BY <2>5 DEF s, t
<1>4. Takes(e)
  <2>1. AtMagic(e) /\ Complete(e) /\ e[3] \in MsgType
    BY <1>2 DEF AtMagic, Complete
  <2>2. 5 + e[4] = 7 /\ 4 + e[4] = 6
    BY <1>2
  <2>3. ChecksumOk(e)
    BY <1>1, <1>2, <1>3, <2>2 DEF ChecksumOk
  <2>. QED
    BY <2>1, <2>3 DEF Takes
<1>5. FrameAt(e) = [msg |-> msg, payload |-> <<a, b>>]
  BY <1>2, <1>3 DEF FrameAt
<1>6. FrameOf(e, m)
  BY <1>2, <1>4, <1>5 DEF FrameOf, FrameLen, AtMagic
<1>. QED
  BY <1>1, <1>6 DEF e

\* The frame of every message says that message.
LEMMA EncodedIs == \A m \in Messages : FrameOf(Encoded[m], m)
<1>1. ASSUME NEW m \in Samples PROVE FrameOf(Encoded[m], m)
  <2>. DEFINE b == IF m.tof = NoTof THEN 0 ELSE m.tof
  <2>1. m \in Sample /\ m \in Messages
    BY <1>1, LineAssumption DEF Messages
  <2>2. m = [force |-> m.force, tof |-> m.tof] /\ m.force \in Byte /\ "pad" \notin DOMAIN m
    BY <2>1 DEF Sample
  <2>3. b \in Byte /\ m.tof = IF b = 0 THEN NoTof ELSE b
    BY <2>1 DEF Sample, Byte, NoTof
  <2>4. Encoded[m] = encode(Sense, <<m.force, b>>)
    BY <2>1, <2>2 DEF Encoded
  <2>. HIDE DEF b
  <2>. DEFINE f == [msg |-> Sense, payload |-> <<m.force, b>>]
  <2>5. /\ f.msg = Sense /\ Len(f.payload) >= 2
        /\ f.payload[1] = m.force /\ f.payload[2] = b
    OBVIOUS
  <2>6. Meaning(f) = <<m>>
    <3>. HIDE DEF f
    <3>1. Meaning(f) = <<[force |-> m.force, tof |-> IF b = 0 THEN NoTof ELSE b]>>
      BY <2>5 DEF Meaning, Sense, Button
    <3>. QED
      BY <2>2, <2>3, <3>1
  <2>7. Sense \in MsgType
    BY DEF MsgType
  <2>. QED
    BY <2>2, <2>3, <2>4, <2>6, <2>7, FrameTaken
<1>2. ASSUME NEW p \in Pads PROVE FrameOf(Encoded[Press(p)], Press(p))
  <2>1. p \in 0..3 /\ p \in Byte /\ 1 \in Byte /\ Button \in MsgType
    BY <1>2, LineAssumption DEF Byte, MsgType
  <2>2. Press(p) \in Messages /\ "pad" \in DOMAIN Press(p) /\ Press(p).pad = p
    BY DEF Messages, Press
  <2>3. Encoded[Press(p)] = encode(Button, <<p, 1>>)
    BY <2>2 DEF Encoded
  <2>. DEFINE f == [msg |-> Button, payload |-> <<p, 1>>]
  <2>4. /\ f.msg = Button /\ Len(f.payload) >= 2
        /\ f.payload[1] = p /\ f.payload[2] = 1
    OBVIOUS
  <2>5. Meaning(f) = <<Press(p)>>
    <3>. HIDE DEF f
    <3>. QED
      BY <2>1, <2>4 DEF Meaning, Sense, Button
  <2>. QED
    BY <2>1, <2>3, <2>5, FrameTaken
<1>. QED
  BY <1>1, <1>2 DEF Messages

----------------------------------------------------------------------------
\* The frames of several messages, byte by byte: byte i of message j.

LEMMA Place ==
    ASSUME NEW n \in Nat, NEW k \in 1..FrameLen * n
    PROVE  \E j \in 1..n : \E i \in 1..FrameLen :
              /\ k = FrameLen * (j - 1) + i
              /\ j = 1 + (k - 1) \div FrameLen
              /\ i = 1 + ((k - 1) % FrameLen)
<1>. DEFINE q == (k - 1) \div 7
            r == (k - 1) % 7
<1>1. k \in Int /\ 1 <= k /\ k <= 7 * n
  BY DEF FrameLen
<1>2. q \in Int /\ r \in 0..6 /\ k - 1 = 7 * q + r
  BY <1>1
<1>3. 0 <= q /\ q < n
  BY <1>1, <1>2
<1>4. 1 + q \in 1..n /\ 1 + r \in 1..7 /\ k = 7 * (1 + q - 1) + (1 + r)
  BY <1>2, <1>3
<1>. QED
  BY <1>4 DEF FrameLen

\* Byte i of message j has its place.
LEMMA PlaceIs ==
    ASSUME NEW n \in Nat, NEW j \in 1..n, NEW i \in 1..FrameLen
    PROVE  \E x \in 1..FrameLen * n :
              /\ x = FrameLen * (j - 1) + i
              /\ 1 + (x - 1) \div FrameLen = j
              /\ 1 + ((x - 1) % FrameLen) = i
<1>1. PICK k \in Int : k = 7 * (j - 1) + i - 1
  BY DEF FrameLen
<1>2. k \div 7 = j - 1 /\ k % 7 = i - 1
  BY <1>1 DEF FrameLen
<1>3. PICK x \in Int : x = k + 1
  BY <1>1
<1>4. /\ x \in 1..7 * n /\ x = 7 * (j - 1) + i
      /\ 1 + (x - 1) \div 7 = j /\ 1 + ((x - 1) % 7) = i
  BY <1>1, <1>2, <1>3 DEF FrameLen
<1>. QED
  BY <1>4, Zenon DEF FrameLen

\* Byte i of message j is at its place.
LEMMA AllEncodedIs ==
    ASSUME NEW ms \in Seq(Messages)
    PROVE  /\ AllEncoded(ms) \in Seq(Byte) /\ Len(AllEncoded(ms)) = FrameLen * Len(ms)
           /\ \A j \in 1..Len(ms) : \A i \in 1..FrameLen :
                 AllEncoded(ms)[FrameLen * (j - 1) + i] = Encoded[ms[j]][i]
<1>. DEFINE n == FrameLen * Len(ms)
            Byte_(k) == Encoded[ms[1 + (k - 1) \div FrameLen]][1 + ((k - 1) % FrameLen)]
<1>1. n \in Nat
  BY DEF FrameLen
<1>2. \A k \in 1..n : Byte_(k) \in Byte
  <2>. SUFFICES ASSUME NEW k \in 1..n PROVE Byte_(k) \in Byte
    OBVIOUS
  <2>1. PICK j \in 1..Len(ms), i \in 1..FrameLen :
           j = 1 + (k - 1) \div FrameLen /\ i = 1 + ((k - 1) % FrameLen)
    BY Place
  <2>2. ms[j] \in Messages
    OBVIOUS
  <2>3. Encoded[ms[j]] \in Seq(Byte) /\ Len(Encoded[ms[j]]) = FrameLen
    BY <2>2, EncodedIs DEF FrameOf
  <2>4. Encoded[ms[j]][i] \in Byte
    BY <2>3
  <2>. QED
    BY <2>1, <2>4
<1>3. AllEncoded(ms) = [k \in 1..n |-> Byte_(k)]
  BY DEF AllEncoded
<1>4. AllEncoded(ms) \in Seq(Byte) /\ Len(AllEncoded(ms)) = n
  <2>. HIDE DEF n, Byte_
  <2>. QED
    BY <1>1, <1>2, <1>3
<1>5. ASSUME NEW j \in 1..Len(ms), NEW i \in 1..FrameLen
      PROVE  AllEncoded(ms)[FrameLen * (j - 1) + i] = Encoded[ms[j]][i]
  <2>2. PICK x \in 1..FrameLen * Len(ms) :
           /\ x = FrameLen * (j - 1) + i
           /\ 1 + (x - 1) \div FrameLen = j /\ 1 + ((x - 1) % FrameLen) = i
    <3>1. Len(ms) \in Nat
      OBVIOUS
    <3>. QED
      BY <3>1, PlaceIs
  <2>3. Byte_(x) = Encoded[ms[j]][i]
    BY <2>2, Zenon
  <2>. HIDE DEF n, Byte_
  <2>4. x \in 1..n
    BY <2>2, Zenon DEF n
  <2>5. AllEncoded(ms)[x] = Byte_(x)
    BY <1>3, <2>4
  <2>. QED
    BY <2>2, <2>3, <2>5
<1>. QED
  BY <1>4, <1>5

\* Bytes that are each at their places are the frames.
LEMMA AllEncodedOnly ==
    ASSUME NEW ms \in Seq(Messages), NEW t \in Seq(Byte), Len(t) = FrameLen * Len(ms),
           \A j \in 1..Len(ms) : \A i \in 1..FrameLen :
              t[FrameLen * (j - 1) + i] = Encoded[ms[j]][i]
    PROVE  t = AllEncoded(ms)
<1>1. ASSUME NEW k \in 1..FrameLen * Len(ms) PROVE t[k] = AllEncoded(ms)[k]
  <2>1. PICK j \in 1..Len(ms), i \in 1..FrameLen : k = FrameLen * (j - 1) + i
    BY Place
  <2>2. AllEncoded(ms)[FrameLen * (j - 1) + i] = Encoded[ms[j]][i]
    BY AllEncodedIs
  <2>. QED
    BY <2>1, <2>2
<1>2. AllEncoded(ms) \in Seq(Byte) /\ Len(AllEncoded(ms)) = FrameLen * Len(ms)
  BY AllEncodedIs
<1>. QED
  BY <1>1, <1>2, SameSeq

\* The frames of messages behind others are behind theirs.
LEMMA AllEncodedConcat ==
    ASSUME NEW a \in Seq(Messages), NEW b \in Seq(Messages)
    PROVE  AllEncoded(a \o b) = AllEncoded(a) \o AllEncoded(b)
<1>1. PICK ms \in Seq(Messages) :
         /\ ms = a \o b /\ Len(ms) = Len(a) + Len(b)
         /\ \A j \in 1..Len(a) + Len(b) : ms[j] = IF j <= Len(a) THEN a[j] ELSE b[j - Len(a)]
  <2>1. /\ a \o b \in Seq(Messages) /\ Len(a \o b) = Len(a) + Len(b)
        /\ \A j \in 1..Len(a) + Len(b) : (a \o b)[j] = IF j <= Len(a) THEN a[j] ELSE b[j - Len(a)]
    BY ConcatIs
  <2>. QED
    BY <2>1, Zenon
<1>2. PICK s \in Seq(Byte) :
         /\ s = AllEncoded(a) /\ Len(s) = FrameLen * Len(a)
         /\ \A j \in 1..Len(a) : \A i \in 1..FrameLen : s[FrameLen * (j - 1) + i] = Encoded[a[j]][i]
  BY AllEncodedIs, Zenon
<1>3. PICK t \in Seq(Byte) :
         /\ t = AllEncoded(b) /\ Len(t) = FrameLen * Len(b)
         /\ \A j \in 1..Len(b) : \A i \in 1..FrameLen : t[FrameLen * (j - 1) + i] = Encoded[b[j]][i]
  BY AllEncodedIs, Zenon
<1>4. PICK u \in Seq(Byte) :
         /\ u = s \o t /\ Len(u) = Len(s) + Len(t)
         /\ \A k \in 1..Len(s) + Len(t) : u[k] = IF k <= Len(s) THEN s[k] ELSE t[k - Len(s)]
  <2>1. /\ s \o t \in Seq(Byte) /\ Len(s \o t) = Len(s) + Len(t)
        /\ \A k \in 1..Len(s) + Len(t) : (s \o t)[k] = IF k <= Len(s) THEN s[k] ELSE t[k - Len(s)]
    BY ConcatIs
  <2>. QED
    BY <2>1, Zenon
<1>5. Len(u) = FrameLen * Len(ms)
  BY <1>1, <1>2, <1>3, <1>4 DEF FrameLen
<1>6. ASSUME NEW j \in 1..Len(ms), NEW i \in 1..FrameLen
      PROVE  u[FrameLen * (j - 1) + i] = Encoded[ms[j]][i]
  <2>1. PICK k \in 1..FrameLen * Len(ms) : k = FrameLen * (j - 1) + i
    BY PlaceIs
  <2>2. k \in 1..Len(s) + Len(t)
    BY <1>4, <1>5
  <2>3. CASE j <= Len(a)
    <3>1. k <= Len(s)
      BY <1>2, <2>1, <2>3 DEF FrameLen
    <3>2. u[k] = s[k] /\ ms[j] = a[j]
      BY <1>1, <1>4, <2>2, <2>3, <3>1
    <3>3. s[k] = Encoded[a[j]][i]
      BY <1>2, <2>1, <2>3
    <3>. QED
      BY <2>1, <3>2, <3>3
  <2>4. CASE ~ (j <= Len(a))
    <3>1. PICK h \in 1..Len(b) : h = j - Len(a)
      <4>1. Len(a) \in Nat /\ Len(b) \in Nat /\ j \in 1..Len(a) + Len(b)
        BY <1>1
      <4>2. j - Len(a) \in 1..Len(b)
        BY <2>4, <4>1
      <4>. QED
        BY <4>2, Zenon
    <3>2. ~ (k <= Len(s)) /\ k - Len(s) = FrameLen * (h - 1) + i
      BY <1>2, <2>1, <2>4, <3>1 DEF FrameLen
    <3>3. u[k] = t[k - Len(s)] /\ ms[j] = b[h]
      BY <1>1, <1>4, <2>2, <2>4, <3>1, <3>2
    <3>4. t[k - Len(s)] = Encoded[b[h]][i]
      BY <1>3, <3>2
    <3>. QED
      BY <2>1, <3>3, <3>4
  <2>. QED
    BY <2>3, <2>4
<1>7. u = AllEncoded(ms)
  BY <1>5, <1>6, AllEncodedOnly
<1>. QED
  BY <1>1, <1>2, <1>3, <1>4, <1>7

\* A sequence of frames begins with the first, and the others are behind it.
LEMMA AllEncodedTail ==
    ASSUME NEW ms \in Seq(Messages), ms # <<>>
    PROVE  /\ \A i \in 1..FrameLen : AllEncoded(ms)[i] = Encoded[ms[1]][i]
           /\ \A k \in 1..FrameLen * Len(Tail(ms)) :
                 AllEncoded(Tail(ms))[k] = AllEncoded(ms)[FrameLen + k]
<1>1. PICK tl \in Seq(Messages) :
         /\ tl = Tail(ms) /\ Len(tl) = Len(ms) - 1
         /\ \A j \in 1..Len(tl) : tl[j] = ms[j + 1]
  <2>1. /\ Tail(ms) \in Seq(Messages) /\ Len(Tail(ms)) = Len(ms) - 1
        /\ \A j \in 1..Len(Tail(ms)) : Tail(ms)[j] = ms[j + 1]
    OBVIOUS
  <2>. QED
    BY <2>1, Zenon
<1>2. \A j \in 1..Len(ms) : \A i \in 1..FrameLen :
         AllEncoded(ms)[FrameLen * (j - 1) + i] = Encoded[ms[j]][i]
  BY AllEncodedIs
<1>3. \A j \in 1..Len(tl) : \A i \in 1..FrameLen :
         AllEncoded(tl)[FrameLen * (j - 1) + i] = Encoded[tl[j]][i]
  BY AllEncodedIs
<1>4. ASSUME NEW i \in 1..FrameLen PROVE AllEncoded(ms)[i] = Encoded[ms[1]][i]
  <2>1. 1 \in 1..Len(ms) /\ FrameLen * (1 - 1) + i = i
    BY DEF FrameLen
  <2>2. AllEncoded(ms)[FrameLen * (1 - 1) + i] = Encoded[ms[1]][i]
    BY <1>2, <2>1
  <2>. QED
    BY <2>1, <2>2
<1>5. ASSUME NEW k \in 1..FrameLen * Len(tl)
      PROVE  AllEncoded(tl)[k] = AllEncoded(ms)[FrameLen + k]
  <2>1. PICK j \in 1..Len(tl), i \in 1..FrameLen : k = FrameLen * (j - 1) + i
    <3>1. Len(tl) \in Nat
      OBVIOUS
    <3>. QED
      BY <3>1, Place, Zenon
  <2>2. PICK h \in 1..Len(ms) : h = j + 1
    BY <1>1
  <2>3. FrameLen + k = FrameLen * (h - 1) + i
    BY <2>1, <2>2 DEF FrameLen
  <2>4. AllEncoded(tl)[k] = Encoded[ms[h]][i]
    BY <1>1, <1>3, <2>1, <2>2
  <2>5. AllEncoded(ms)[FrameLen * (h - 1) + i] = Encoded[ms[h]][i]
    BY <1>2
  <2>. QED
    BY <2>3, <2>4, <2>5
<1>. QED
  BY <1>1, <1>4, <1>5

----------------------------------------------------------------------------
\* What is decoded of a sequence of frames that has come in part.

\* s and what is still under way, rest, are the frames of ms.
Parts(s, rest, ms) ==
    /\ s \in Seq(Byte) /\ rest \in Seq(Byte) /\ ms \in Seq(Messages)
    /\ s \o rest = AllEncoded(ms)

\* It does not matter which of three sequences are joined first.
LEMMA Associative ==
    ASSUME NEW A, NEW s \in Seq(A), NEW t \in Seq(A), NEW u \in Seq(A)
    PROVE  (s \o t) \o u = s \o (t \o u)
OBVIOUS

\* The bytes of the frames are those of s and then those of rest.
LEMMA PartsAre ==
    ASSUME NEW s, NEW rest, NEW ms, Parts(s, rest, ms)
    PROVE  /\ Len(s) + Len(rest) = FrameLen * Len(ms)
           /\ \A k \in 1..Len(s) + Len(rest) :
                 AllEncoded(ms)[k] = IF k <= Len(s) THEN s[k] ELSE rest[k - Len(s)]
<1>1. s \in Seq(Byte) /\ rest \in Seq(Byte) /\ ms \in Seq(Messages) /\ s \o rest = AllEncoded(ms)
  BY DEF Parts
<1>2. /\ Len(s \o rest) = Len(s) + Len(rest)
      /\ \A k \in 1..Len(s) + Len(rest) : (s \o rest)[k] = IF k <= Len(s) THEN s[k] ELSE rest[k - Len(s)]
  BY <1>1, ConcatIs
<1>3. Len(AllEncoded(ms)) = FrameLen * Len(ms)
  BY <1>1, AllEncodedIs
<1>. QED
  BY <1>1, <1>2, <1>3, Zenon

\* It begins with the first frame.
LEMMA Begins ==
    ASSUME NEW s, NEW rest, NEW ms, Parts(s, rest, ms), s # <<>>
    PROVE  /\ ms # <<>> /\ ms[1] \in Messages
           /\ \A i \in 1..FrameLen : i <= Len(s) => s[i] = Encoded[ms[1]][i]
<1>1. s \in Seq(Byte) /\ rest \in Seq(Byte) /\ ms \in Seq(Messages)
  BY DEF Parts
<1>2. /\ Len(s) + Len(rest) = FrameLen * Len(ms)
      /\ \A k \in 1..Len(s) + Len(rest) :
            AllEncoded(ms)[k] = IF k <= Len(s) THEN s[k] ELSE rest[k - Len(s)]
  BY PartsAre
<1>3. Len(s) \in Nat /\ Len(rest) \in Nat /\ Len(s) > 0
  BY <1>1
<1>4. ms # <<>>
  BY <1>1, <1>2, <1>3 DEF FrameLen
<1>5. ASSUME NEW i \in 1..FrameLen, i <= Len(s) PROVE s[i] = Encoded[ms[1]][i]
  <2>1. AllEncoded(ms)[i] = Encoded[ms[1]][i]
    BY <1>1, <1>4, AllEncodedTail
  <2>2. i \in 1..Len(s) + Len(rest)
    BY <1>3, <1>5 DEF FrameLen
  <2>3. AllEncoded(ms)[i] = s[i]
    BY <1>2, <1>5, <2>2
  <2>. QED
    BY <2>1, <2>3
<1>. QED
  BY <1>1, <1>4, <1>5

\* Less than a frame has to wait.
LEMMA TooShort ==
    ASSUME NEW s \in Seq(Byte), NEW e, NEW m, FrameOf(e, m), Len(s) < FrameLen,
           \A i \in 1..FrameLen : i <= Len(s) => s[i] = e[i]
    PROVE  Waits(s)
<1>1. e[1] = MAGIC0 /\ e[2] = MAGIC1 /\ e[4] = 2
  BY DEF FrameOf, AtMagic
<1>2. CASE Len(s) < 2
  BY <1>2 DEF Waits
<1>3. CASE Len(s) >= 2
  <2>1. AtMagic(s)
    BY <1>1, <1>3 DEF AtMagic, FrameLen
  <2>2. Len(s) >= 5 => s[4] = 2
    BY <1>1 DEF FrameLen
  <2>3. ~ Complete(s)
    BY <2>2 DEF Complete, FrameLen
  <2>. QED
    BY <2>1, <2>3 DEF Waits
<1>. QED
  BY <1>2, <1>3

\* A whole frame is taken for its message, whatever is behind it.
LEMMA LikeFrame ==
    ASSUME NEW s \in Seq(Byte), NEW e, NEW m, FrameOf(e, m), Len(s) >= FrameLen,
           \A i \in 1..FrameLen : s[i] = e[i]
    PROVE  /\ Takes(s) /\ Meaning(FrameAt(s)) = <<m>>
           /\ Behind(s) = SubSeq(s, 8, Len(s))
<1>1. /\ e \in Seq(Byte) /\ Len(e) = 7 /\ e[4] = 2 /\ Takes(e) /\ Meaning(FrameAt(e)) = <<m>>
      /\ Len(s) \in Nat /\ Len(s) >= 7
  BY DEF FrameOf, FrameLen
<1>2. s[1] = e[1] /\ s[2] = e[2] /\ s[3] = e[3] /\ s[4] = 2 /\ s[5] = e[5] /\ s[6] = e[6] /\ s[7] = e[7]
  BY <1>1 DEF FrameLen
<1>3. ASSUME NEW m1 \in 1..6 PROVE SubSeq(s, m1, 6) = SubSeq(e, m1, 6)
  <2>1. /\ SubSeq(s, m1, 6) \in Seq(Byte) /\ Len(SubSeq(s, m1, 6)) = 6 - m1 + 1
        /\ \A k \in 1..6 - m1 + 1 : SubSeq(s, m1, 6)[k] = s[m1 + k - 1]
    BY <1>1, SubSeqIs
  <2>2. /\ SubSeq(e, m1, 6) \in Seq(Byte) /\ Len(SubSeq(e, m1, 6)) = 6 - m1 + 1
        /\ \A k \in 1..6 - m1 + 1 : SubSeq(e, m1, 6)[k] = e[m1 + k - 1]
    <3>1. m1 \in 1..Len(e) + 1 /\ 6 \in m1 - 1..Len(e)
      BY <1>1
    <3>. QED
      BY <1>1, <3>1, SubSeqIs, Zenon
  <2>3. \A k \in 1..6 - m1 + 1 : m1 + k - 1 \in 1..FrameLen
    BY DEF FrameLen
  <2>4. \A k \in 1..6 - m1 + 1 : SubSeq(s, m1, 6)[k] = SubSeq(e, m1, 6)[k]
    BY <2>1, <2>2, <2>3
  <2>. QED
    BY <2>1, <2>2, <2>4, SameSeq
<1>4. SubSeq(s, 3, 6) = SubSeq(e, 3, 6) /\ SubSeq(s, 5, 6) = SubSeq(e, 5, 6)
  BY <1>3
<1>5. 4 + s[4] = 6 /\ 4 + e[4] = 6 /\ 5 + s[4] = 7 /\ 5 + e[4] = 7 /\ 6 + s[4] = 8
  BY <1>1, <1>2
<1>6. FrameAt(s) = FrameAt(e)
  BY <1>2, <1>4, <1>5 DEF FrameAt
<1>7. Takes(s)
  <2>1. AtMagic(s) /\ Complete(s) /\ s[3] \in MsgType
    BY <1>1, <1>2, <1>5 DEF Takes, Complete, AtMagic
  <2>2. e[7] = checksum[SubSeq(e, 3, 6)]
    BY <1>1, <1>5 DEF Takes, ChecksumOk
  <2>3. ChecksumOk(s)
    BY <1>2, <1>4, <1>5, <2>2 DEF ChecksumOk
  <2>. QED
    BY <2>1, <2>3 DEF Takes
<1>. QED
  BY <1>1, <1>5, <1>6, <1>7 DEF Behind

\* What is behind the first frame is the frames of the others.
LEMMA BehindFrame ==
    ASSUME NEW s, NEW rest, NEW ms, Parts(s, rest, ms), Len(s) >= FrameLen
    PROVE  Parts(SubSeq(s, 8, Len(s)), rest, Tail(ms))
<1>1. /\ s \in Seq(Byte) /\ rest \in Seq(Byte) /\ ms \in Seq(Messages)
      /\ Len(s) \in Nat /\ Len(s) >= 7 /\ Len(rest) \in Nat
  BY DEF Parts, FrameLen
<1>2. /\ Len(s) + Len(rest) = FrameLen * Len(ms)
      /\ \A k \in 1..Len(s) + Len(rest) :
            AllEncoded(ms)[k] = IF k <= Len(s) THEN s[k] ELSE rest[k - Len(s)]
  BY PartsAre
<1>3. ms # <<>>
  BY <1>1, <1>2 DEF FrameLen
<1>4. PICK tl \in Seq(Messages) : tl = Tail(ms) /\ Len(tl) = Len(ms) - 1
  <2>1. Tail(ms) \in Seq(Messages) /\ Len(Tail(ms)) = Len(ms) - 1
    BY <1>1, <1>3, TailIsShorter
  <2>. QED
    BY <2>1, Zenon
<1>5. PICK b \in Seq(Byte) :
         /\ b = SubSeq(s, 8, Len(s)) /\ Len(b) = Len(s) - 7
         /\ \A k \in 1..Len(s) - 7 : b[k] = s[7 + k]
  <2>1. 8 \in 1..Len(s) + 1 /\ Len(s) \in 8 - 1..Len(s)
    BY <1>1
  <2>2. /\ SubSeq(s, 8, Len(s)) \in Seq(Byte)
        /\ Len(SubSeq(s, 8, Len(s))) = Len(s) - 8 + 1
        /\ \A k \in 1..Len(s) - 8 + 1 : SubSeq(s, 8, Len(s))[k] = s[8 + k - 1]
    BY <1>1, <2>1, SubSeqIs
  <2>3. PICK b \in Seq(Byte) :
           /\ b = SubSeq(s, 8, Len(s)) /\ Len(b) = Len(s) - 8 + 1
           /\ \A k \in 1..Len(s) - 8 + 1 : b[k] = s[8 + k - 1]
    BY <2>2, Zenon
  <2>4. Len(b) = Len(s) - 7 /\ \A k \in 1..Len(s) - 7 : b[k] = s[7 + k]
    BY <1>1, <2>3
  <2>. QED
    BY <2>3, <2>4, Zenon
<1>6. PICK t \in Seq(Byte) :
         /\ t = b \o rest /\ Len(t) = Len(b) + Len(rest)
         /\ \A k \in 1..Len(b) + Len(rest) : t[k] = IF k <= Len(b) THEN b[k] ELSE rest[k - Len(b)]
  <2>1. /\ b \o rest \in Seq(Byte) /\ Len(b \o rest) = Len(b) + Len(rest)
        /\ \A k \in 1..Len(b) + Len(rest) : (b \o rest)[k] = IF k <= Len(b) THEN b[k] ELSE rest[k - Len(b)]
    BY <1>1, ConcatIs
  <2>. QED
    BY <2>1, Zenon
<1>7. Len(t) = FrameLen * Len(tl) /\ Len(tl) \in Nat /\ Len(t) \in Nat
  <2>1. /\ Len(ms) \in Nat /\ Len(tl) \in Nat /\ Len(tl) = Len(ms) - 1
        /\ Len(b) = Len(s) - 7 /\ Len(t) = Len(b) + Len(rest)
        /\ Len(s) + Len(rest) = 7 * Len(ms)
    BY <1>1, <1>2, <1>4, <1>5, <1>6 DEF FrameLen
  <2>. QED
    BY <1>1, <2>1 DEF FrameLen
<1>8. AllEncoded(tl) \in Seq(Byte) /\ Len(AllEncoded(tl)) = FrameLen * Len(tl)
  BY AllEncodedIs
<1>9. ASSUME NEW k \in 1..Len(t) PROVE t[k] = AllEncoded(tl)[k]
  <2>1. k \in 1..FrameLen * Len(Tail(ms))
    BY <1>4, <1>7
  <2>2. AllEncoded(tl)[k] = AllEncoded(ms)[FrameLen + k]
    BY <1>1, <1>3, <1>4, <2>1, AllEncodedTail
  <2>3. PICK j \in 1..Len(s) + Len(rest) : j = 7 + k
    BY <1>1, <1>5, <1>6, <1>7
  <2>4. AllEncoded(ms)[j] = IF j <= Len(s) THEN s[j] ELSE rest[j - Len(s)]
    BY <1>2
  <2>5. t[k] = IF k <= Len(b) THEN b[k] ELSE rest[k - Len(b)]
    BY <1>6
  <2>6. CASE j <= Len(s)
    <3>1. k <= Len(b) /\ k \in 1..Len(s) - 7
      BY <1>1, <1>5, <2>3, <2>6
    <3>2. b[k] = s[7 + k]
      BY <1>5, <3>1
    <3>. QED
      BY <2>2, <2>3, <2>4, <2>5, <2>6, <3>1, <3>2 DEF FrameLen
  <2>7. CASE ~ (j <= Len(s))
    <3>1. Len(b) = Len(s) - 7 /\ j = 7 + k /\ k \in Int /\ Len(s) \in Nat
      BY <1>1, <1>5, <1>7, <2>3
    <3>2. ~ (k <= Len(b)) /\ k - Len(b) = j - Len(s)
      BY <2>7, <3>1
    <3>. QED
      BY <2>2, <2>3, <2>4, <2>5, <2>7, <3>2 DEF FrameLen
  <2>. QED
    BY <2>6, <2>7
<1>10. t = AllEncoded(tl)
  BY <1>7, <1>8, <1>9, SameSeq
<1>. QED
  BY <1>1, <1>4, <1>5, <1>6, <1>10 DEF Parts

\* What Pops finds in s is the first of these messages, whole and in order, and what it
\* leaves is less than a frame, the beginning of what is still to come.
Decoded(s, rest, ms) ==
    \E left \in Seq(Messages) :
        /\ ms = Pops[s].found \o left
        /\ Parts(Pops[s].buf, rest, left)
        /\ Len(Pops[s].buf) < FrameLen

\* What the firmware writes is what the decoder may say.
LEMMA MessagesAreSaid == Messages \subseteq Saying
BY LineAssumption DEF Messages, Saying, Press, Pressed

\* Nothing is found in less than a frame.
LEMMA DecodedShort ==
    ASSUME NEW s, NEW rest, NEW ms, Parts(s, rest, ms), Len(s) < FrameLen
    PROVE  Decoded(s, rest, ms)
<1>1. s \in Seq(Byte) /\ ms \in Seq(Messages)
  BY DEF Parts
<1>2. Waits(s)
  <2>1. CASE s = <<>>
    BY <2>1 DEF Waits
  <2>2. CASE s # <<>>
    <3>1. /\ ms[1] \in Messages
          /\ \A i \in 1..FrameLen : i <= Len(s) => s[i] = Encoded[ms[1]][i]
      BY <2>2, Begins
    <3>2. FrameOf(Encoded[ms[1]], ms[1])
      BY <3>1, EncodedIs
    <3>. QED
      BY <1>1, <3>1, <3>2, TooShort
  <2>. QED
    BY <2>1, <2>2
<1>3. Pops[s] = [buf |-> s, found |-> <<>>]
  <2>1. Waits(s) => PopBody(Pops, s) = [buf |-> s, found |-> <<>>]
    BY <1>1, PopCases, Zenon
  <2>. QED
    BY <1>1, <1>2, <2>1, PopsIs
<1>4. ms = <<>> \o ms
  BY <1>1
<1>. QED
  BY <1>1, <1>3, <1>4 DEF Decoded

\* The first frame is found, and the others as in what is shorter.
LEMMA DecodedLong ==
    ASSUME NEW s, NEW rest, NEW ms, Parts(s, rest, ms), Len(s) >= FrameLen,
           \A t \in Seq(Byte) : \A later \in Seq(Messages) :
              Len(t) < Len(s) /\ Parts(t, rest, later) => Decoded(t, rest, later)
    PROVE  Decoded(s, rest, ms)
<1>1. s \in Seq(Byte) /\ ms \in Seq(Messages) /\ s # <<>>
  BY DEF Parts, FrameLen
<1>2. PICK m \in Messages : m = ms[1] /\ ms # <<>> /\ \A i \in 1..FrameLen : s[i] = Encoded[m][i]
  <2>1. /\ ms # <<>> /\ ms[1] \in Messages
        /\ \A i \in 1..FrameLen : i <= Len(s) => s[i] = Encoded[ms[1]][i]
    BY <1>1, Begins
  <2>2. \A i \in 1..FrameLen : i <= Len(s)
    BY <1>1 DEF FrameLen
  <2>. QED
    BY <2>1, <2>2, Zenon
<1>3. /\ Takes(s) /\ Meaning(FrameAt(s)) = <<m>>
      /\ Behind(s) = SubSeq(s, 8, Len(s))
  <2>1. FrameOf(Encoded[m], m)
    BY EncodedIs
  <2>. QED
    BY <1>1, <1>2, <2>1, LikeFrame
<1>4. PICK t \in Seq(Byte) : t = Behind(s) /\ Len(t) < Len(s)
  BY <1>1, <1>3, Shorter, Zenon
<1>5. PICK tl \in Seq(Messages) : tl = Tail(ms) /\ ms = <<m>> \o tl
  <2>1. Tail(ms) \in Seq(Messages) /\ ms = <<ms[1]>> \o Tail(ms)
    BY <1>1, <1>2
  <2>. QED
    BY <1>2, <2>1, Zenon
<1>6. Parts(t, rest, tl)
  BY <1>3, <1>4, <1>5, BehindFrame
<1>7. PICK left \in Seq(Messages) :
         /\ tl = Pops[t].found \o left
         /\ Parts(Pops[t].buf, rest, left)
         /\ Len(Pops[t].buf) < FrameLen
  BY <1>4, <1>6 DEF Decoded
<1>8. Pops[t] \in Out
  BY PopsType
<1>9. Pops[s] = [buf |-> Pops[t].buf, found |-> <<m>> \o Pops[t].found]
  <2>1. Takes(s) => PopBody(Pops, s) = [Pops[Behind(s)] EXCEPT !.found = Meaning(FrameAt(s)) \o @]
    BY <1>1, PopCases, Zenon
  <2>2. Pops[s] = [Pops[t] EXCEPT !.found = <<m>> \o @]
    BY <1>1, <1>3, <1>4, <2>1, PopsIs
  <2>. QED
    BY <1>8, <2>2 DEF Out
<1>10. ms = (<<m>> \o Pops[t].found) \o left
  <2>1. PICK f \in Seq(Saying) : f = Pops[t].found
    BY <1>8 DEF Out
  <2>2. <<m>> \in Seq(Saying) /\ left \in Seq(Saying)
    BY MessagesAreSaid
  <2>3. (<<m>> \o f) \o left = <<m>> \o (f \o left)
    BY <2>2, Associative
  <2>. QED
    BY <1>5, <1>7, <2>1, <2>3
<1>11. Pops[s].buf = Pops[t].buf /\ Pops[s].found = <<m>> \o Pops[t].found
  BY <1>9
<1>. QED
  BY <1>7, <1>10, <1>11, Zenon DEF Decoded

\* Whatever part of the frames has come in, what is found in it is right.
LEMMA DecodedIs ==
    ASSUME NEW s, NEW rest, NEW ms, Parts(s, rest, ms)
    PROVE  Decoded(s, rest, ms)
<1>. DEFINE Bad(n) == \E t \in Seq(Byte) : \E later \in Seq(Messages) :
                         Len(t) = n /\ Parts(t, rest, later) /\ ~ Decoded(t, rest, later)
            T == {n \in Nat : Bad(n)}
<1>1. SUFFICES ASSUME T # {} PROVE FALSE
  <2>1. s \in Seq(Byte) /\ ms \in Seq(Messages) /\ Len(s) \in Nat
    BY DEF Parts
  <2>. QED
    BY <2>1
<1>2. PICK n \in T : \A k \in T : n <= k
  <2>1. T \subseteq Nat
    OBVIOUS
  <2>. HIDE DEF T
  <2>. QED
    BY <1>1, <2>1, Least
<1>3. PICK t \in Seq(Byte), later \in Seq(Messages) :
         Len(t) = n /\ Parts(t, rest, later) /\ ~ Decoded(t, rest, later)
  OBVIOUS
<1>4. ASSUME NEW u \in Seq(Byte), NEW more \in Seq(Messages),
             Len(u) < Len(t), Parts(u, rest, more)
      PROVE  Decoded(u, rest, more)
  <2>1. Len(u) \in Nat /\ Len(u) \notin T
    BY <1>2, <1>3, <1>4
  <2>. QED
    BY <1>4, <2>1
<1>5. Len(t) < FrameLen \/ Len(t) >= FrameLen
  BY <1>3 DEF FrameLen
<1>. QED
  BY <1>3, <1>4, <1>5, DecodedShort, DecodedLong

----------------------------------------------------------------------------
\* What is owed.

LEMMA OwedIsLeft ==
    ASSUME NEW A, NEW found \in Seq(A), NEW left \in Seq(A)
    PROVE  StillOwed(found \o left, FrameLen * Len(left)) = left
<1>1. PICK ms \in Seq(A) :
         /\ ms = found \o left /\ Len(ms) = Len(found) + Len(left)
         /\ \A k \in 1..Len(found) + Len(left) :
               ms[k] = IF k <= Len(found) THEN found[k] ELSE left[k - Len(found)]
  <2>1. /\ found \o left \in Seq(A) /\ Len(found \o left) = Len(found) + Len(left)
        /\ \A k \in 1..Len(found) + Len(left) :
              (found \o left)[k] = IF k <= Len(found) THEN found[k] ELSE left[k - Len(found)]
    BY ConcatIs
  <2>. QED
    BY <2>1, Zenon
<1>2. PICK f \in Nat, n \in Nat : f = Len(found) /\ n = Len(left) /\ Len(ms) = f + n
  BY <1>1
<1>3. CASE 7 * (f + n) <= 7 * n
  <2>1. f = 0
    BY <1>3
  <2>2. found = <<>>
    <3>1. Len(found) = 0
      BY <1>2, <2>1
    <3>. QED
      BY <3>1
  <2>3. ms = left
    BY <1>1, <2>2
  <2>. QED
    BY <1>1, <1>2, <1>3, <2>3 DEF StillOwed, FrameLen
<1>4. CASE ~ (7 * (f + n) <= 7 * n)
  <2>1. (7 * n) \div 7 = n
    OBVIOUS
  <2>2. StillOwed(ms, 7 * n) = SubSeq(ms, f + n - n + 1, f + n)
    BY <1>2, <1>4, <2>1 DEF StillOwed, LastOf, FrameLen
  <2>3. f + n - n + 1 = f + 1
    OBVIOUS
  <2>4. f + 1 \in 1..Len(ms) + 1 /\ f + n \in f + 1 - 1..Len(ms)
    BY <1>2
  <2>5. PICK t \in Seq(A) :
           /\ t = SubSeq(ms, f + 1, f + n) /\ Len(t) = f + n - (f + 1) + 1
           /\ \A k \in 1..f + n - (f + 1) + 1 : t[k] = ms[f + 1 + k - 1]
    <3>1. /\ SubSeq(ms, f + 1, f + n) \in Seq(A)
          /\ Len(SubSeq(ms, f + 1, f + n)) = f + n - (f + 1) + 1
          /\ \A k \in 1..f + n - (f + 1) + 1 : SubSeq(ms, f + 1, f + n)[k] = ms[f + 1 + k - 1]
      BY <2>4, SubSeqIs
    <3>. QED
      BY <3>1, Zenon
  <2>6. Len(t) = n
    BY <2>5
  <2>7. ASSUME NEW k \in 1..n PROVE t[k] = left[k]
    <3>1. t[k] = ms[f + 1 + k - 1]
      BY <2>5
    <3>2. PICK j \in 1..Len(found) + Len(left) : j = f + k
      BY <1>2
    <3>3. f + 1 + k - 1 = j /\ ~ (j <= Len(found)) /\ j - Len(found) = k
      BY <1>2, <3>2
    <3>. QED
      BY <1>1, <3>1, <3>3
  <2>8. t = left
    BY <1>2, <2>6, <2>7, SameSeq
  <2>. QED
    BY <1>1, <1>2, <2>2, <2>3, <2>5, <2>8 DEF FrameLen
<1>. QED
  BY <1>3, <1>4

\* What is still owed is messages.
LEMMA StillOwedType ==
    ASSUME NEW ms \in Seq(Messages), NEW n \in Nat
    PROVE  StillOwed(ms, n) \in Seq(Messages)
<1>1. CASE FrameLen * Len(ms) <= n
  BY <1>1 DEF StillOwed
<1>2. CASE ~ (FrameLen * Len(ms) <= n)
  <2>1. PICK m \in Nat : m = n \div FrameLen /\ m <= Len(ms)
    BY <1>2 DEF FrameLen
  <2>2. StillOwed(ms, n) = SubSeq(ms, Len(ms) - m + 1, Len(ms))
    BY <1>2, <2>1 DEF StillOwed, LastOf
  <2>3. Len(ms) - m + 1 \in 1..Len(ms) + 1 /\ Len(ms) \in Len(ms) - m + 1 - 1..Len(ms)
    BY <2>1
  <2>. QED
    BY <2>2, <2>3, SubSeqIs
<1>. QED
  BY <1>1, <1>2

----------------------------------------------------------------------------
\* The line, the buffer and what is decoded keep their types.

\* What a tick writes.
LEMMA SaidType ==
    ASSUME NEW sample \in Samples, NEW ps \in {<<>>} \cup {<<Press(p)>> : p \in Pads}
    PROVE  <<sample>> \o ps \in Seq(Messages)
<1>1. ps \in Seq(Messages)
  <2>1. CASE ps = <<>>
    BY <2>1
  <2>2. CASE ps \in {<<Press(p)>> : p \in Pads}
    <3>1. PICK p \in Pads : ps = <<Press(p)>>
      BY <2>2
    <3>2. Press(p) \in Messages
      BY DEF Messages
    <3>. QED
      BY <3>1, <3>2
  <2>. QED
    BY <2>1, <2>2
<1>2. sample \in Messages
  BY DEF Messages
<1>. QED
  BY <1>1, <1>2

\* The first n bytes and the others.
LEMMA Cut ==
    ASSUME NEW A, NEW s \in Seq(A), NEW n \in 0..Len(s)
    PROVE  /\ SubSeq(s, 1, n) \in Seq(A) /\ Len(SubSeq(s, 1, n)) = n
           /\ SubSeq(s, n + 1, Len(s)) \in Seq(A) /\ Len(SubSeq(s, n + 1, Len(s))) = Len(s) - n
           /\ SubSeq(s, 1, n) \o SubSeq(s, n + 1, Len(s)) = s
<1>1. /\ SubSeq(s, 1, n) \in Seq(A) /\ Len(SubSeq(s, 1, n)) = n
      /\ \A k \in 1..n : SubSeq(s, 1, n)[k] = s[k]
  OBVIOUS
<1>2. /\ SubSeq(s, n + 1, Len(s)) \in Seq(A) /\ Len(SubSeq(s, n + 1, Len(s))) = Len(s) - n
      /\ \A k \in 1..Len(s) - n : SubSeq(s, n + 1, Len(s))[k] = s[n + k]
  OBVIOUS
<1>3. PICK a \in Seq(A) : a = SubSeq(s, 1, n) /\ Len(a) = n /\ \A k \in 1..n : a[k] = s[k]
  BY <1>1, Zenon
<1>4. PICK b \in Seq(A) :
         /\ b = SubSeq(s, n + 1, Len(s)) /\ Len(b) = Len(s) - n
         /\ \A k \in 1..Len(s) - n : b[k] = s[n + k]
  BY <1>2, Zenon
<1>5. PICK m \in Nat : m = Len(s) /\ n \in Nat /\ n <= m
  OBVIOUS
<1>6. a \o b = s
  <2>1. /\ a \o b \in Seq(A) /\ Len(a \o b) = Len(a) + Len(b)
        /\ \A k \in 1..Len(a) + Len(b) : (a \o b)[k] = IF k <= Len(a) THEN a[k] ELSE b[k - Len(a)]
    BY ConcatIs
  <2>2. PICK t \in Seq(A) :
           /\ t = a \o b /\ Len(t) = Len(a) + Len(b)
           /\ \A k \in 1..Len(a) + Len(b) : t[k] = IF k <= Len(a) THEN a[k] ELSE b[k - Len(a)]
    BY <2>1, Zenon
  <2>3. Len(a) = n /\ Len(b) = m - n /\ Len(t) = n + (m - n) /\ Len(t) = m
    <3>1. Len(a) = n /\ Len(b) = m - n /\ Len(t) = Len(a) + Len(b)
      BY <1>3, <1>4, <1>5, <2>2, Zenon
    <3>2. n + (m - n) = m
      BY <1>5
    <3>. QED
      BY <3>1, <3>2, Zenon
  <2>4. ASSUME NEW k \in 1..Len(t) PROVE t[k] = s[k]
    <3>1. CASE k <= n
      <4>1. k \in 1..n /\ k \in 1..Len(a) + Len(b) /\ k <= Len(a)
        BY <1>5, <2>3, <3>1
      <4>. QED
        BY <1>3, <2>2, <4>1
    <3>2. CASE ~ (k <= n)
      <4>1. /\ k - n \in 1..Len(s) - n /\ n + (k - n) = k
            /\ k \in 1..Len(a) + Len(b) /\ ~ (k <= Len(a)) /\ k - Len(a) = k - n
        BY <1>5, <2>3, <3>2
      <4>2. t[k] = b[k - n]
        BY <2>2, <4>1
      <4>3. b[k - n] = s[n + (k - n)]
        BY <1>4, <4>1
      <4>. QED
        BY <4>1, <4>2, <4>3
    <3>. QED
      BY <3>1, <3>2
  <2>. QED
    BY <1>5, <2>2, <2>3, <2>4, SameSeq
<1>. QED
  BY <1>1, <1>2, <1>3, <1>4, <1>6

\* A byte changed, lost or come from nowhere.
LEMMA DisturbedType ==
    ASSUME NEW s \in Seq(Byte), NEW i \in 1..Len(s), NEW b \in Byte
    PROVE  /\ ReplaceAt(s, i, b) \in Seq(Byte) /\ Len(ReplaceAt(s, i, b)) = Len(s)
           /\ RemoveAt(s, i) \in Seq(Byte) /\ Len(RemoveAt(s, i)) = Len(s) - 1
           /\ InsertAt(s, i, b) \in Seq(Byte) /\ Len(InsertAt(s, i, b)) = Len(s) + 1
<1>1. ReplaceAt(s, i, b) \in Seq(Byte) /\ Len(ReplaceAt(s, i, b)) = Len(s)
  BY DEF ReplaceAt
<1>2. SubSeq(s, 1, i - 1) \in Seq(Byte) /\ Len(SubSeq(s, 1, i - 1)) = i - 1
  OBVIOUS
<1>3. SubSeq(s, i + 1, Len(s)) \in Seq(Byte) /\ Len(SubSeq(s, i + 1, Len(s))) = Len(s) - i
  OBVIOUS
<1>4. SubSeq(s, i, Len(s)) \in Seq(Byte) /\ Len(SubSeq(s, i, Len(s))) = Len(s) - i + 1
  OBVIOUS
<1>5. RemoveAt(s, i) \in Seq(Byte) /\ Len(RemoveAt(s, i)) = Len(s) - 1
  <2>1. PICK before \in Seq(Byte), behind \in Seq(Byte) :
           RemoveAt(s, i) = before \o behind /\ Len(before) = i - 1 /\ Len(behind) = Len(s) - i
    BY <1>2, <1>3, Zenon DEF RemoveAt
  <2>2. /\ before \o behind \in Seq(Byte)
        /\ Len(before \o behind) = Len(before) + Len(behind)
    OBVIOUS
  <2>. QED
    BY <2>1, <2>2
<1>6. InsertAt(s, i, b) \in Seq(Byte) /\ Len(InsertAt(s, i, b)) = Len(s) + 1
  BY <1>2, <1>4 DEF InsertAt
<1>. QED
  BY <1>1, <1>5, <1>6

\* Each step keeps the types: the start,
LEMMA InitTyped == Init => TypeOK
<1>. SUFFICES ASSUME Init PROVE TypeOK
  OBVIOUS
<1>1. wire = <<>> /\ buf = <<>> /\ got = <<>> /\ owed = <<>> /\ noise = 0
  BY DEF Init
<1>2. MaxNoise \in Nat /\ MaxWire \in Nat /\ MaxBuf \in Nat
  BY LineAssumption
<1>. QED
  BY <1>1, <1>2 DEF TypeOK

\* a tick,
LEMMA TickTyped ==
    ASSUME TypeOK, AnyTick
    PROVE  TypeOK'
<1>1. PICK sample \in Samples, ps \in {<<>>} \cup {<<Press(p)>> : p \in Pads} : Tick(sample, ps)
  BY DEF AnyTick
<1>2. PICK said \in Seq(Messages) : said = <<sample>> \o ps
  BY SaidType
<1>3. /\ Len(wire) + Len(AllEncoded(said)) <= MaxWire
      /\ wire' = wire \o AllEncoded(said) /\ owed' = owed \o said
      /\ buf' = buf /\ got' = got /\ noise' = noise
  BY <1>1, <1>2 DEF Tick
<1>4. AllEncoded(said) \in Seq(Byte)
  BY AllEncodedIs
<1>5. wire' \in Seq(Byte) /\ Len(wire') = Len(wire) + Len(AllEncoded(said))
  BY <1>3, <1>4 DEF TypeOK
<1>6. Len(wire') <= MaxWire + noise'
  BY <1>3, <1>5, LineAssumption DEF TypeOK
<1>7. owed' \in Seq(Messages)
  BY <1>2, <1>3 DEF TypeOK
<1>. QED
  BY <1>3, <1>5, <1>6, <1>7 DEF TypeOK

\* What the terminal reads: the chunk behind the buffer, and what stays on the line.
LEMMA IngestIs ==
    ASSUME TypeOK, NEW n \in 1..Len(wire), Ingest(n)
    PROVE  \E s \in Seq(Byte), rest \in Seq(Byte) :
              /\ s \o rest = buf \o wire
              /\ Len(s) = Len(buf) + n /\ Len(rest) = Len(wire) - n /\ Len(s) <= MaxBuf
              /\ wire' = rest /\ buf' = Pops[s].buf /\ got' = Pops[s].found
              /\ owed' = StillOwed(owed, Len(Pops[s].buf) + Len(wire) - n)
              /\ noise' = noise
<1>1. PICK chunk \in Seq(Byte), rest \in Seq(Byte) :
         /\ chunk = SubSeq(wire, 1, n) /\ Len(chunk) = n
         /\ rest = SubSeq(wire, n + 1, Len(wire)) /\ Len(rest) = Len(wire) - n
         /\ chunk \o rest = wire
  <2>1. wire \in Seq(Byte) /\ n \in 0..Len(wire)
    BY DEF TypeOK
  <2>2. /\ SubSeq(wire, 1, n) \in Seq(Byte) /\ Len(SubSeq(wire, 1, n)) = n
        /\ SubSeq(wire, n + 1, Len(wire)) \in Seq(Byte)
        /\ Len(SubSeq(wire, n + 1, Len(wire))) = Len(wire) - n
        /\ SubSeq(wire, 1, n) \o SubSeq(wire, n + 1, Len(wire)) = wire
    BY <2>1, Cut
  <2>. QED
    BY <2>2, Zenon
<1>2. /\ wire' = rest /\ noise' = noise
      /\ Len(buf) + n <= MaxBuf
      /\ buf' = Pops[buf \o chunk].buf /\ got' = Pops[buf \o chunk].found
      /\ owed' = StillOwed(owed, Len(Pops[buf \o chunk].buf) + Len(wire) - n)
  BY <1>1 DEF Ingest, Push
<1>3. PICK s \in Seq(Byte) :
         s = buf \o chunk /\ Len(s) = Len(buf) + n /\ s \o rest = buf \o wire
  <2>1. PICK b \in Seq(Byte) : b = buf
    BY DEF TypeOK
  <2>2. (b \o chunk) \o rest = b \o (chunk \o rest)
    BY Associative
  <2>3. b \o chunk \in Seq(Byte) /\ Len(b \o chunk) = Len(b) + Len(chunk)
    BY ConcatIs
  <2>. QED
    BY <1>1, <2>1, <2>2, <2>3, Zenon
<1>4. /\ s \o rest = buf \o wire
      /\ Len(s) = Len(buf) + n /\ Len(rest) = Len(wire) - n /\ Len(s) <= MaxBuf
      /\ wire' = rest /\ buf' = Pops[s].buf /\ got' = Pops[s].found
      /\ owed' = StillOwed(owed, Len(Pops[s].buf) + Len(wire) - n)
      /\ noise' = noise
  BY <1>1, <1>2, <1>3
<1>. QED
  BY <1>4, Zenon

\* a read,
LEMMA IngestTyped ==
    ASSUME TypeOK, NEW n \in 1..Len(wire), Ingest(n)
    PROVE  TypeOK'
<1>1. PICK s \in Seq(Byte), rest \in Seq(Byte) :
         /\ s \o rest = buf \o wire
         /\ Len(s) = Len(buf) + n /\ Len(rest) = Len(wire) - n /\ Len(s) <= MaxBuf
         /\ wire' = rest /\ buf' = Pops[s].buf /\ got' = Pops[s].found
         /\ owed' = StillOwed(owed, Len(Pops[s].buf) + Len(wire) - n)
         /\ noise' = noise
  BY IngestIs
<1>2. PICK b \in Seq(Byte), f \in Seq(Saying) :
         b = Pops[s].buf /\ f = Pops[s].found /\ Len(b) <= Len(s)
  BY PopsType DEF Out
<1>3. Len(b) <= MaxBuf
  BY <1>1, <1>2, LineAssumption
<1>4. Len(rest) <= MaxWire + noise
  BY <1>1, LineAssumption DEF TypeOK
<1>5. owed' \in Seq(Messages)
  <2>1. PICK k \in Nat : k = Len(b) + Len(wire) - n
    <3>1. Len(b) \in Nat /\ Len(wire) \in Nat
      BY DEF TypeOK
    <3>2. Len(b) + Len(wire) - n \in Nat
      BY <3>1
    <3>. QED
      BY <3>2, Zenon
  <2>. QED
    BY <1>1, <1>2, <2>1, StillOwedType DEF TypeOK
<1>. QED
  BY <1>1, <1>2, <1>3, <1>4, <1>5 DEF TypeOK, Saying

\* a disturbance,
LEMMA DisturbTyped ==
    ASSUME TypeOK, NEW i \in 1..Len(wire), Disturb(i)
    PROVE  TypeOK'
<1>1. PICK w \in Seq(Byte) : wire' = w /\ Len(w) <= Len(wire) + 1
  <2>1. /\ wire \in Seq(Byte) /\ NoiseBytes \subseteq Byte /\ Len(wire) \in Nat
    BY LineAssumption DEF TypeOK
  <2>2. CASE \E b \in NoiseBytes \ {wire[i]} : wire' = ReplaceAt(wire, i, b)
    BY <2>1, <2>2, DisturbedType
  <2>3. CASE wire' = RemoveAt(wire, i)
    <3>1. wire[i] \in Byte
      BY <2>1
    <3>. QED
      BY <2>1, <2>3, <3>1, DisturbedType
  <2>4. CASE \E b \in NoiseBytes : wire' = InsertAt(wire, i, b)
    BY <2>1, <2>4, DisturbedType
  <2>. QED
    BY <2>2, <2>3, <2>4 DEF Disturb
<1>2. PICK x \in 0..MaxNoise : noise' = x /\ x = noise + 1
  BY LineAssumption DEF Disturb, TypeOK
<1>3. Len(w) <= MaxWire + x
  BY <1>1, <1>2, LineAssumption DEF TypeOK
<1>4. owed' \in Seq(Messages)
  <2>1. PICK k \in Nat : k = Len(wire) - i
    <3>1. Len(wire) - i \in Nat
      BY DEF TypeOK
    <3>. QED
      BY <3>1, Zenon
  <2>. QED
    BY <2>1, StillOwedType DEF Disturb, TypeOK
<1>. QED
  BY <1>1, <1>2, <1>3, <1>4 DEF Disturb, TypeOK

\* a start of the terminal.
LEMMA RestartTyped ==
    ASSUME TypeOK, Restart
    PROVE  TypeOK'
<1>1. PICK x \in 0..MaxNoise : noise' = x /\ x = noise + 1
  BY LineAssumption DEF Restart, TypeOK
<1>2. wire' = wire /\ Len(wire) <= MaxWire + x
  BY <1>1, LineAssumption DEF Restart, TypeOK
<1>3. owed' \in Seq(Messages)
  BY StillOwedType DEF Restart, TypeOK
<1>4. buf' = <<>> /\ got' = got
  BY DEF Restart
<1>. QED
  BY <1>1, <1>2, <1>3, <1>4, LineAssumption DEF TypeOK

\* The line and the buffer hold bytes, what is owed is messages, and what comes out is a
\* sample whose distance is none or not 0, or a press of one of the four pads: whatever the
\* line does to the bytes.
THEOREM TypeCorrect == Spec => []TypeOK
<1>1. TypeOK /\ [Next]_vars => TypeOK'
  <2>. SUFFICES ASSUME TypeOK, [Next]_vars PROVE TypeOK'
    OBVIOUS
  <2>1. CASE AnyTick
    BY <2>1, TickTyped
  <2>2. CASE AnyIngest
    BY <2>2, IngestTyped DEF AnyIngest
  <2>3. CASE \E i \in 1..Len(wire) : Disturb(i)
    BY <2>3, DisturbTyped
  <2>4. CASE Restart
    BY <2>4, RestartTyped
  <2>5. CASE UNCHANGED vars
    BY <2>5 DEF vars, TypeOK
  <2>. QED
    BY <2>1, <2>2, <2>3, <2>4, <2>5 DEF Next
<1>. QED
  BY InitTyped, <1>1, PTL DEF Spec

----------------------------------------------------------------------------
\* A terminal in step with the line.

LEMMA TickExact ==
    ASSUME TypeOK, AnyTick, Aligned
    PROVE  Aligned' /\ ~ (Len(wire') < Len(wire))
<1>1. PICK sample \in Samples, ps \in {<<>>} \cup {<<Press(p)>> : p \in Pads} : Tick(sample, ps)
  BY DEF AnyTick
<1>2. PICK said \in Seq(Messages) : said = <<sample>> \o ps
  BY SaidType
<1>3. wire' = wire \o AllEncoded(said) /\ owed' = owed \o said /\ buf' = buf
  BY <1>1, <1>2 DEF Tick
<1>4. PICK t \in Seq(Byte) : t = AllEncoded(said)
  BY AllEncodedIs
<1>5. wire \in Seq(Byte) /\ buf \in Seq(Byte) /\ owed \in Seq(Messages)
  BY DEF TypeOK
<1>6. buf \o (wire \o t) = AllEncoded(owed \o said)
  <2>1. AllEncoded(owed \o said) = AllEncoded(owed) \o t
    BY <1>4, <1>5, AllEncodedConcat
  <2>2. (buf \o wire) \o t = buf \o (wire \o t)
    BY <1>5, Associative
  <2>. QED
    BY <2>1, <2>2 DEF Aligned
<1>7. Len(wire \o t) = Len(wire) + Len(t) /\ Len(wire) \in Nat /\ Len(t) \in Nat
  BY <1>5
<1>. QED
  BY <1>3, <1>4, <1>6, <1>7 DEF Aligned

\* A read takes whole frames off what is owed, in order.
LEMMA IngestExact ==
    ASSUME TypeOK, NEW n \in 1..Len(wire), Ingest(n), Aligned
    PROVE  Aligned' /\ owed = got' \o owed'
<1>1. PICK s \in Seq(Byte), rest \in Seq(Byte) :
         /\ s \o rest = buf \o wire
         /\ Len(s) = Len(buf) + n /\ Len(rest) = Len(wire) - n /\ Len(s) <= MaxBuf
         /\ wire' = rest /\ buf' = Pops[s].buf /\ got' = Pops[s].found
         /\ owed' = StillOwed(owed, Len(Pops[s].buf) + Len(wire) - n)
         /\ noise' = noise
  BY IngestIs
<1>2. Parts(s, rest, owed)
  BY <1>1 DEF Parts, Aligned, TypeOK
<1>3. PICK left \in Seq(Messages) :
         /\ owed = Pops[s].found \o left
         /\ Parts(Pops[s].buf, rest, left)
  BY <1>2, DecodedIs DEF Decoded
<1>4. PICK f \in Seq(Saying) : f = Pops[s].found
  BY PopsType DEF Out
<1>5. PICK b \in Seq(Byte) : b = Pops[s].buf
  BY PopsType DEF Out
<1>6. Len(b) + Len(wire) - n = FrameLen * Len(left)
  <2>1. Len(b) + Len(rest) = FrameLen * Len(left)
    BY <1>3, <1>5, PartsAre
  <2>2. Len(b) \in Nat /\ Len(wire) \in Nat /\ Len(rest) = Len(wire) - n
    BY <1>1 DEF TypeOK
  <2>. QED
    BY <2>1, <2>2
<1>7. owed' = left
  <2>1. left \in Seq(Saying)
    BY MessagesAreSaid
  <2>2. StillOwed(f \o left, FrameLen * Len(left)) = left
    BY <2>1, OwedIsLeft
  <2>. QED
    BY <1>1, <1>3, <1>4, <1>5, <1>6, <2>2
<1>. QED
  BY <1>1, <1>3, <1>7 DEF Aligned, Parts

\* However the bytes are cut into chunks, a terminal in step with the line stays in step,
\* and each read brings exactly the samples and presses whose frames are now complete:
\* every one once, in order, and nothing else.
THEOREM DecoderExact == Spec => AlignedIsExact
<1>. DEFINE Exact == Aligned /\ noise' = noise =>
                /\ Aligned'
                /\ Len(wire') < Len(wire) => owed = got' \o owed'
<1>1. TypeOK /\ [Next]_vars => [Exact]_vars
  <2>. SUFFICES ASSUME TypeOK, Next, Aligned, noise' = noise
                PROVE  /\ Aligned'
                       /\ Len(wire') < Len(wire) => owed = got' \o owed'
    OBVIOUS
  <2>1. CASE AnyTick
    BY <2>1, TickExact
  <2>2. CASE AnyIngest
    BY <2>2, IngestExact DEF AnyIngest
  <2>3. CASE \E i \in 1..Len(wire) : Disturb(i)
    BY <2>3 DEF Disturb, TypeOK
  <2>4. CASE Restart
    BY <2>4 DEF Restart, TypeOK
  <2>. QED
    BY <2>1, <2>2, <2>3, <2>4 DEF Next
<1>. QED
  BY <1>1, TypeCorrect, PTL DEF Spec, AlignedIsExact
=============================================================================
