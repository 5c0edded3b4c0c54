---------------------------- MODULE PacketSource ----------------------------
(***************************************************************************)
(* What a set of cwnet interfaces promises to the network stack above it:  *)
(* each is a source of packets that never delivers more of them than       *)
(* seconds have passed, however it is started, restarted, configured or    *)
(* destroyed.                                                              *)
(***************************************************************************)
EXTENDS Integers

CONSTANTS
  Ifaces,   \* the interfaces
  Period,   \* clock ticks per packet
  MaxNow    \* bound on the clock

VARIABLES
  now,      \* clock ticks since boot
  gens      \* packets each interface has delivered

psVars == <<now, gens>>

Init == now = 0 /\ gens = [i \in Ifaces |-> 0]

Clock == now < MaxNow /\ now' = now + 1 /\ UNCHANGED gens

Deliver(i) ==
  /\ (gens[i] + 1) * Period <= now
  /\ gens' = [gens EXCEPT ![i] = @ + 1]
  /\ UNCHANGED now

Next == Clock \/ \E i \in Ifaces : Deliver(i)

Spec == Init /\ [][Next]_psVars
==============================================================================
