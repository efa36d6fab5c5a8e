---------------------------- MODULE RequestQueue ----------------------------
(***************************************************************************)
(* What a virtqueue promises its driver: requests come back exactly once,   *)
(* in the order in which they were submitted, and all of them do come back. *)
(***************************************************************************)
EXTENDS Sequences, Naturals

CONSTANT Heads      \* the requests the driver may have outstanding

VARIABLES
  free,             \* owned by the driver
  submitted,        \* owned by the device, oldest first
  done              \* returned to the driver, not yet looked at, oldest first

vars == <<free, submitted, done>>

Init == free = Heads /\ submitted = <<>> /\ done = <<>>

Submit(h) ==
  /\ h \in free
  /\ free' = free \ {h}
  /\ submitted' = Append(submitted, h)
  /\ UNCHANGED done

\* The device returns the oldest n requests at once.
Complete ==
  \E n \in 1..Len(submitted) :
    /\ done' = done \o SubSeq(submitted, 1, n)
    /\ submitted' = SubSeq(submitted, n + 1, Len(submitted))
    /\ UNCHANGED free

Consume ==
  /\ done # <<>>
  /\ free' = free \union {Head(done)}
  /\ done' = Tail(done)
  /\ UNCHANGED submitted

\* A device reset gives everything back to the driver.
Reset == free' = Heads /\ submitted' = <<>> /\ done' = <<>>

Next == (\E h \in Heads : Submit(h)) \/ Complete \/ Consume \/ Reset

Spec == Init /\ [][Next]_vars

\* Submitted requests are completed and completed ones reach the driver.
Fairness == WF_vars(Complete) /\ WF_vars(Consume)
=============================================================================
