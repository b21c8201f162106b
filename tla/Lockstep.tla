------------------------------ MODULE Lockstep ------------------------------
(***************************************************************************)
(* What the monitor promises, without the monitor: two variants ask for    *)
(* system calls one at a time, and a call is let through only when both    *)
(* have asked for their k-th one and the two requests are compatible.  The *)
(* replica is never let through before a master that lives.  A variant may *)
(* be lost at any moment, and the whole may end at any moment.  Nothing is *)
(* let through to a lost variant or after the end, and the requests cannot *)
(* be compared once a variant is lost.                                     *)
(***************************************************************************)
EXTENDS Naturals

CONSTANTS Request,           \* what a variant may ask for
          Compatible(_, _)   \* may these two be let through together?

VARIABLES asked,      \* the last request of each variant
          issued,     \* how many requests each has made
          released,   \* how many of them have been let through
          lost,       \* the variants that have ended
          over

lockstepVars == <<asked, issued, released, lost, over>>

Variant  == {"master", "replica"}
Other(v) == IF v = "master" THEN "replica" ELSE "master"

Init ==
    /\ asked \in [Variant -> Request]
    /\ issued = [v \in Variant |-> 0]
    /\ released = [v \in Variant |-> 0]
    /\ lost = {}
    /\ over = FALSE

Ask(v) ==
    /\ ~over /\ v \notin lost
    /\ released[v] = issued[v]
    /\ asked' \in [Variant -> Request]
    /\ asked'[Other(v)] = asked[Other(v)]
    /\ issued' = [issued EXCEPT ![v] = @ + 1]
    /\ UNCHANGED <<released, lost, over>>

\* Both variants have come to the same request, and v still stands there.
MayPass(v) ==
    /\ v \notin lost
    /\ released[v] < issued[v]
    /\ issued["master"] = issued["replica"]
    /\ lost = {} => Compatible(asked["master"], asked["replica"])

End == over' = TRUE /\ lost \subseteq lost'

LetThrough(S) ==
    /\ ~over
    /\ \A v \in S : MayPass(v)
    /\ "replica" \in S => \/ "master" \in S \cup lost
                          \/ released["master"] = issued["master"]
    /\ released' = [v \in Variant |-> IF v \in S THEN released[v] + 1
                                                 ELSE released[v]]
    /\ End \/ UNCHANGED <<lost, over>>
    /\ UNCHANGED <<asked, issued>>

Lose(v) ==
    /\ ~over
    /\ lost' = lost \cup {v}
    /\ UNCHANGED <<asked, issued, released, over>>

Stop ==
    /\ ~over
    /\ End
    /\ UNCHANGED <<asked, issued, released>>

Next ==
    \/ \E v \in Variant : Ask(v) \/ Lose(v)
    \/ \E S \in SUBSET Variant : LetThrough(S)
    \/ Stop

Spec == Init /\ [][Next]_lockstepVars
=============================================================================
