---------------------------- MODULE MCPlayback ----------------------------
EXTENDS Playback

\* pop() called k times, one after the other, which is what Popped says at once.
RECURSIVE Iterated(_, _)
Iterated(n, k) ==
  IF k = 0 THEN n ELSE Iterated(IF n >= Target THEN n - 1 ELSE n, k - 1)

ASSUME PoppedAssumption ==
  \A n \in 0..JitterMax, k \in 0..Burst : Popped(n, k) = Iterated(n, k)
=============================================================================
