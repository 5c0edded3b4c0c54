------------------------------ MODULE CwnetRate ------------------------------
(***************************************************************************)
(* Cwnet with a clock and counters added, to compare the packets each      *)
(* generator delivers with the time that has passed.  The added variables  *)
(* only record: but for the bound on the clock they restrict no step.      *)
(***************************************************************************)
EXTENDS Cwnet

CONSTANT MaxNow   \* bound on the clock

ASSUME MaxNowAssumption == MaxNow \in Nat

VARIABLES
  now,     \* clock ticks since boot
  fires,   \* times the timeout of a softc has fired
  gens     \* packets a softc has given to if_input()

rateVars == <<vars, now, fires, gens>>

RateInit ==
  /\ Init
  /\ now = 0
  /\ fires = [sc \in Softcs |-> 0]
  /\ gens = [sc \in Softcs |-> 0]

(* hardclock: every pending timeout comes one tick nearer.                 *)
ClockTick ==
  /\ Alive
  /\ now < MaxNow
  /\ now' = now + 1
  /\ left' = [sc \in Softcs |-> IF left[sc] > 0 THEN left[sc] - 1 ELSE left[sc]]
  /\ UNCHANGED <<phase, taskq, current, ifqVars, flagVars, fault, missed, fires, gens>>

Fire(sc) ==
  /\ PgenGenPacks(sc)
  /\ fires' = [fires EXCEPT ![sc] = @ + 1]
  /\ UNCHANGED <<now, gens>>

(* Faulty variant: pgen_gen_pack() puts its task back instead of waiting   *)
(* for the timer.                                                          *)
DeliverAndRequeue(sc) ==
  /\ Alive
  /\ ~HeldByDestroy
  /\ current = sc
  /\ phase[sc] \notin {"detached", "freed"}
  /\ PgenStart(sc)
  /\ taskq' = taskq \cup {sc}
  /\ current' = NoSc
  /\ gens' = [gens EXCEPT ![sc] = @ + 1]
  /\ UNCHANGED <<phase, ifqVars, flagVars, fault, missed, now, fires>>

Deliver(sc) ==
  /\ PgenInput(sc)
  /\ gens' = [gens EXCEPT ![sc] = @ + 1]
  /\ UNCHANGED <<now, fires>>

Other(sc) ==
  /\ Admin(sc) \/ Destroy(sc) \/ Transmit(sc) \/ PgenGenPack(sc) \/ StaleCallback(sc)
  /\ UNCHANGED <<now, fires, gens>>

RateNext ==
  \/ ClockTick
  \/ \E sc \in Softcs : Fire(sc) \/ Deliver(sc) \/ Other(sc)

RateSpec == RateInit /\ [][RateNext]_rateVars

-----------------------------------------------------------------------------
Count(b) == IF b THEN 1 ELSE 0

(* Ticks an armed timeout has already run down.                            *)
Elapsed(sc) == IF left[sc] = Off THEN 0 ELSE Hz - left[sc]

(* Every packet delivered or under way is paid for by one firing of the    *)
(* timeout, and every firing by a full second of time of its own: starting *)
(* the generator again (pgen_start in cwnetqstart, whatever the state of   *)
(* timer and task) never makes it faster.                                  *)
PaidFor ==
  \A sc \in Softcs :
    /\ gens[sc] + Count(sc \in taskq) + Count(current = sc) <= fires[sc]
    /\ fires[sc] * Hz + Elapsed(sc) <= now

(* The generators keep the promise of PacketSource.                        *)
Source == INSTANCE PacketSource WITH Ifaces <- Softcs, Period <- Hz

SourceSpec == Source!Spec
==============================================================================
