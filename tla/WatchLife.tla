----------------------------- MODULE WatchLife -----------------------------
(***************************************************************************)
(* What those who wait for events of vnodes may expect.  A watch is set on *)
(* a vnode that is alive.  When the vnode ends, all of its watches are     *)
(* told, and only they; a watch that has been told stays so until it is    *)
(* dropped.  A vnode begins anew only once nobody watches its former self. *)
(***************************************************************************)

CONSTANTS
  Vnodes,
  NoVnode,  \* not a vnode
  Watches

VARIABLES
  alive,    \* the vnodes there is something to be told of
  watched,  \* the vnode of each watch that is set
  told      \* the watches that have been told of the end

watchVars == <<alive, watched, told>>

Of(v) == {k \in Watches : watched[k] = v}

Init ==
  /\ alive = {}
  /\ watched = [k \in Watches |-> NoVnode]
  /\ told = {}

Begin(v) ==
  /\ v \notin alive
  /\ Of(v) = {}
  /\ alive' = alive \cup {v}
  /\ UNCHANGED <<watched, told>>

Watch(k, v) ==
  /\ v \in alive
  /\ watched[k] = NoVnode
  /\ watched' = [watched EXCEPT ![k] = v]
  /\ UNCHANGED <<alive, told>>

(* Some watches are dropped, told or not, and some vnodes with them that   *)
(* nobody watches any more.                                                *)
Drop ==
  /\ watched' \in [Watches -> Vnodes \cup {NoVnode}]
  /\ \A k \in Watches : watched'[k] \in {watched[k], NoVnode}
  /\ told' = {k \in told : watched'[k] # NoVnode}
  /\ alive' \subseteq alive
  /\ \A v \in alive \ alive', k \in Watches : watched'[k] # v

End(v) ==
  /\ v \in alive
  /\ alive' = alive \ {v}
  /\ told' = told \cup Of(v)
  /\ UNCHANGED watched

Next ==
  \/ \E v \in Vnodes : Begin(v) \/ End(v)
  \/ \E k \in Watches, v \in Vnodes : Watch(k, v)
  \/ Drop

Spec == Init /\ [][Next]_watchVars
=============================================================================
