---------------------------- MODULE SharedObjects ----------------------------
(***************************************************************************)
(* What the NATS wrapper promises of the objects of the NATS library: an   *)
(* object that was made is held by somebody, a handle of the application   *)
(* or the library, and is destroyed in the step in which its last holder   *)
(* lets go of it: not before, and not again.  The objects in MayBeLost can *)
(* also be left alive with nobody to destroy them.  NatsObjects implements *)
(* this.                                                                   *)
(***************************************************************************)
CONSTANTS Objects, Holders, MayBeLost

VARIABLE
  shared   \* shared[o]: its phase, "none", "held", "gone" or "lost", and its holders

Object(phase, holders) == [phase |-> phase, holders |-> holders]

Init == shared = [o \in Objects |-> Object("none", {})]

\* What one step may do to an object.
Made(old, new)      == old.phase = "none" /\ new.phase = "held"
Passed(old, new)    == old.phase = "held" /\ new.phase = "held"
Destroyed(old, new) == old.phase = "held" /\ new.phase = "gone"
Lost(old, new)      == old.phase \in {"none", "held"} /\ new.phase = "lost"

Next ==
  /\ DOMAIN shared' = Objects
  /\ \A o \in Objects :
       LET old == shared[o]
           new == shared'[o]
       IN \/ new = old
          \/ /\ Made(old, new) \/ Passed(old, new) \/ Destroyed(old, new)
                \/ (o \in MayBeLost /\ Lost(old, new))
             /\ new.holders \subseteq Holders
             /\ new.phase = "held" <=> new.holders # {}

Spec == Init /\ [][Next]_shared
=============================================================================
