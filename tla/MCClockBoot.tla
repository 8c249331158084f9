---------------------------- MODULE MCClockBoot ----------------------------
\* Instances of ClockBoot for TLC: machine a has a slave.  It is started
\* together with another, or as the last of three.
EXTENDS ClockBoot, TLC

CONSTANTS a, b, d

Sizes == (a :> 2) @@ (b :> 1) @@ (d :> 1)

TogetherOrInTurn ==
  {(a :> 1) @@ (b :> 1) @@ (d :> 0), (b :> 1) @@ (d :> 2) @@ (a :> 3)}

FirstOfA == {<<a, 2>>}
=============================================================================
