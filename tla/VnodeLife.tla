----------------------------- MODULE VnodeLife -----------------------------
(***************************************************************************)
(* What the users of a file system may expect of its vnodes, however they  *)
(* are looked for, shared, released and forcibly taken away.  A free vnode *)
(* is given to one maker; once made it is live, and those who use it may   *)
(* share it; it is free again when the last of them lets go.  Some of the  *)
(* live ones may die at once, which their users survive; nothing brings a  *)
(* dead vnode back to life, and none is taken from its maker.              *)
(***************************************************************************)
EXTENDS Integers

CONSTANT Vnodes

VARIABLES
  stage,   \* where each vnode is in its life
  users    \* how many use it

lifeVars == <<stage, users>>

Stages == {"free", "making", "live", "dead"}

Init ==
  /\ stage = [v \in Vnodes |-> "free"]
  /\ users = [v \in Vnodes |-> 0]

Make(v) ==
  /\ stage[v] = "free"
  /\ stage' = [stage EXCEPT ![v] = "making"]
  /\ users' = [users EXCEPT ![v] = 1]

Finish(v) ==
  /\ stage[v] = "making"
  /\ stage' = [stage EXCEPT ![v] = "live"]
  /\ UNCHANGED users

Share(v) ==
  /\ stage[v] \in {"live", "dead"}
  /\ users' = [users EXCEPT ![v] = @ + 1]
  /\ UNCHANGED stage

Leave(v) ==
  /\ stage[v] \in {"live", "dead"}
  /\ users' = [users EXCEPT ![v] = @ - 1]
  /\ stage' = IF users[v] = 1 THEN [stage EXCEPT ![v] = "free"] ELSE stage

Kill(V) ==
  /\ \A v \in V : stage[v] = "live"
  /\ stage' = [v \in Vnodes |-> IF v \in V THEN "dead" ELSE stage[v]]
  /\ UNCHANGED users

Next ==
  \/ \E v \in Vnodes : Make(v) \/ Finish(v) \/ Share(v) \/ Leave(v)
  \/ \E V \in SUBSET Vnodes : Kill(V)

Spec == Init /\ [][Next]_lifeVars
==============================================================================
