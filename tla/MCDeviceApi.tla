---------------------------- MODULE MCDeviceApi ----------------------------
EXTENDS DeviceApi, TLC

CONSTANTS d1, d2, h1, h2

\* Every dog is bonded with every other, and none with itself.
AllBonds == {p \in Dogs \X Dogs : p[1] # p[2]}

\* Only d1 calls: where one invite is all there is, and symmetry must not be used
\* because of liveness, d2's calls would be d1's with the names exchanged.
OneCaller == {<<d1, d2>>}

Policies(max_sec, seg_sec) ==
    [estop |-> FALSE, social |-> FALSE,
     limits |-> [max_sec |-> max_sec, seg_sec |-> seg_sec, per_hour |-> 1]]
ShortPolicy == Policies(1, 1)
\* One a steward has set, with a segment longer than the session.
OddPolicy == Policies(1, 2)
LongPolicy == Policies(2, 1)

CallOps == {"create", "incoming", "cancel", "accept", "end", "media", "again"}
ShortLimits == {ShortPolicy.limits}
\* A steward may allow a dog no time at all: the next tick ends its session.
ZeroLimits == {[max_sec |-> 0, seg_sec |-> 1, per_hour |-> 1]}
StopOps == {"create", "accept", "estop", "again", "policy"}
CrashOps == {"create", "accept", "end"}
AgainOps == {"create", "accept", "media", "again"}
FlagOps == {"estop", "social", "policy"}
NoLimits == {}

\* Dogs and handlers are interchangeable: nothing orders them and all begin alike.
Symmetry == Permutations(Dogs) \cup Permutations(Handlers)
=============================================================================
