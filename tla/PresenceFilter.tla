--------------------------- MODULE PresenceFilter ---------------------------
(***************************************************************************)
(* crates/presence: the debounce that turns samples of the mat, the range  *)
(* finder and the motion sensor into one level, on the local clock of      *)
(* SensePipeline (edge/canis-sense), which advances with every chunk read  *)
(* from the UART, whether or not the chunk holds a sample.                 *)
(*                                                                         *)
(* Differences of that clock are all the filter looks at, and only up to   *)
(* its two windows: the model keeps durations and counts them up to Cap.   *)
(***************************************************************************)
EXTENDS Integers

CONSTANTS
    Enter,  \* enter_ms
    Exit,   \* exit_ms
    Cap     \* bound: durations are counted no further

ASSUME FilterAssumption ==
    /\ Enter \in Nat /\ Exit \in Nat /\ Cap \in Nat
    /\ Enter <= Cap /\ Exit <= Cap

VARIABLES
    present,    \* the debounced level
    raw,        \* the level of the last sample
    held,       \* from the first sample of that level to the last one
    gap,        \* since the last sample
    dog_past,   \* history: from the last sample of a dog to the last sample of any
    empty_past  \* history: from the last sample of an empty mat likewise

filter == <<present, raw, held, gap, dog_past, empty_past>>

Sample == [force_ok: BOOLEAN, tof: {"none", "in_band", "out_of_band"}, motion: BOOLEAN]

Capped(n) == IF n > Cap THEN Cap ELSE n

\* At the start of its clock the filter has seen nothing on the mat.
FilterInit ==
    /\ present = FALSE
    /\ raw = FALSE
    /\ held = 0
    /\ gap = 0
    /\ dog_past = Cap
    /\ empty_past = 0

RawPresent(s) == s.force_ok /\ (s.tof = "in_band" \/ s.motion)

\* A chunk without a sample moves the clock by dt.
Pass(dt) ==
    /\ gap' = Capped(gap + dt)
    /\ UNCHANGED <<present, raw, held, dog_past, empty_past>>

\* A change of level does not start the count again.
HeldThrough(level, dt) == Capped(held + gap + dt)

\* How long the level of a sample has been held at that sample.
Held(level, dt) == IF level # raw THEN 0 ELSE Capped(held + gap + dt)

\* A sample in a chunk that moves the clock by dt; a further one in the same
\* chunk comes with dt = 0.
Update(s, dt) ==
    LET level == RawPresent(s)
    IN  /\ raw' = level
        /\ held' = Held(level, dt)
        /\ present' = IF level THEN present \/ held' >= Enter ELSE present /\ held' < Exit
        /\ gap' = 0
        /\ dog_past' = IF level THEN 0 ELSE Capped(dog_past + gap + dt)
        /\ empty_past' = IF level THEN Capped(empty_past + gap + dt) ELSE 0

FilterNext == \E dt \in Nat : Pass(dt) \/ \E s \in Sample : Update(s, dt)

FilterSpec == FilterInit /\ [][FilterNext]_filter

FilterTypeOK ==
    /\ present \in BOOLEAN
    /\ raw \in BOOLEAN
    /\ held \in 0..Cap
    /\ gap \in 0..Cap
    /\ dog_past \in 0..Cap
    /\ empty_past \in 0..Cap

\* The level changes only after every sample of a whole window agreed: a dog
\* is not there before Enter without an empty sample, nor gone before Exit
\* without one of a dog, however samples are spaced, lost or bunched.
FlipsHeld ==
    [][present' # present => IF present' THEN empty_past' >= Enter ELSE dog_past' >= Exit]_filter
=============================================================================
