--------------------------- MODULE MCPulseSearch ---------------------------
(* Values -1, 0, 3 and 5: 3 is within the hysteresis of a peak of 5, the   *)
(* ways from -1 to 3 and from 0 to 5 are edges, and the maximum may be 0.  *)
EXTENDS PulseSearch

At_(t) == [dt |-> t, is_relative |-> FALSE]
After(t) == [dt |-> t, is_relative |-> TRUE]

MCValues == {-1, 0, 3, 5}
\* Among them a time that does not increase and an entry without a value.
MCPatterns ==
    { <<>>, <<At_(3)>>, <<At_(0), After(7)>>, <<After(2), After(2), After(2)>>,
      <<At_(4), At_(2), After(1), After(3)>>, <<At_(1), At_(-1), At_(5)>> }
=============================================================================
