--------------------------- MODULE CwnetRateProofs ---------------------------
(***************************************************************************)
(* The generators keep the promise of PacketSource: proof that CwnetRate   *)
(* implements it, for any set of interfaces and any clock rate.            *)
(***************************************************************************)
EXTENDS CwnetRate, CwnetProofs

RateTypeOK ==
  /\ now \in Nat
  /\ fires \in [Softcs -> Nat]
  /\ gens \in [Softcs -> Nat]

(* Every step of CwnetRate is a step of Cwnet; a tick that finds no        *)
(* timeout pending is a stuttering one.                                    *)
LEMMA RateStepIsStep == TypeOK /\ [RateNext]_rateVars => [Next]_vars
<1> SUFFICES ASSUME TypeOK, [RateNext]_rateVars PROVE [Next]_vars
  OBVIOUS
<1>1. CASE ClockTick
  <2>1. CASE \E sc \in Softcs : left[sc] > 0
    BY <1>1, <2>1 DEF ClockTick, Tick, Next
  <2>2. CASE \A sc \in Softcs : ~(left[sc] > 0)
    <3>1. left' = left
      BY <1>1, <2>2 DEF ClockTick, TypeOK
    <3> QED BY <1>1, <3>1 DEF ClockTick, vars, genVars, ifqVars, flagVars
  <2> QED BY <2>1, <2>2
<1>2. ASSUME NEW sc \in Softcs, Fire(sc) PROVE Next
  BY <1>2 DEF Fire, Next, Generate
<1>3. ASSUME NEW sc \in Softcs, Deliver(sc) PROVE Next
  BY <1>3 DEF Deliver, Next, Generate
<1>4. ASSUME NEW sc \in Softcs, Other(sc) PROVE Next
  BY <1>4 DEF Other, Next, Generate
<1>5. CASE UNCHANGED rateVars
  BY <1>5 DEF rateVars
<1> QED BY <1>1, <1>2, <1>3, <1>4, <1>5 DEF RateNext

(* The chain lemmas of the accounting: fewer packets need less time.       *)
LEMMA MulMonotone ==
  ASSUME NEW a \in Nat, NEW b \in Nat, NEW k \in Nat, a <= b
  PROVE  a * k <= b * k
<1> DEFINE d == b - a
<1>1. d \in Nat /\ b = a + d
  OBVIOUS
<1>2. d * k \in Nat
  BY <1>1
<1>3. (a + d) * k = a * k + d * k
  BY <1>1
<1>4. a * k \in Nat
  OBVIOUS
<1> HIDE DEF d
<1> QED BY <1>1, <1>2, <1>3, <1>4

RateInv == TypeOK /\ RateTypeOK /\ PaidFor

LEMMA RateInvInit == RateInit => RateInv
BY TypeInit, NoScAssumption, HzAssumption
DEF RateInit, Init, RateInv, RateTypeOK, PaidFor, Count, Elapsed

LEMMA RateInvStep == RateInv /\ [RateNext]_rateVars => RateInv'
<1> SUFFICES ASSUME RateInv, [RateNext]_rateVars
             PROVE  RateTypeOK' /\ PaidFor'
  BY TypeStep, RateStepIsStep DEF RateInv
<1> USE NoScAssumption, HzAssumption
    DEF RateInv, TypeOK, RateTypeOK, PaidFor, Count, Elapsed, Off,
        genVars, ifqVars, flagVars
<1> DEFINE Goal == RateTypeOK' /\ PaidFor'
<1>1. CASE ClockTick
  <2>1. RateTypeOK'
    BY <1>1, MaxNowAssumption DEF ClockTick
  <2>2. ASSUME NEW sc \in Softcs
        PROVE  fires'[sc] * Hz + Elapsed(sc)' <= now'
    <3>1. fires[sc] * Hz \in Nat
      OBVIOUS
    <3>2. Elapsed(sc)' <= Elapsed(sc) + 1
      BY <1>1 DEF ClockTick
    <3> QED BY <1>1, <3>1, <3>2 DEF ClockTick
  <2> QED BY <1>1, <2>1, <2>2 DEF ClockTick
<1>2. ASSUME NEW sc \in Softcs, Fire(sc) PROVE Goal
  <2>1. (fires[sc] + 1) * Hz = fires[sc] * Hz + Hz
    OBVIOUS
  <2>2. fires'[sc] * Hz + Elapsed(sc)' <= now'
    BY <1>2, <2>1 DEF Fire, PgenGenPacks
  <2>3. \A s \in Softcs \ {sc} :
          fires'[s] = fires[s] /\ left'[s] = left[s]
    BY <1>2 DEF Fire, PgenGenPacks
  <2>4. \A s \in Softcs : gens'[s] + Count(s \in taskq') + Count(current' = s)
                          <= fires'[s]
    BY <1>2 DEF Fire, PgenGenPacks
  <2> QED BY <1>2, <2>2, <2>3, <2>4 DEF Fire
<1>3. ASSUME NEW sc \in Softcs, Deliver(sc) PROVE Goal
  BY <1>3 DEF Deliver, PgenInput, PgenStart
<1>4. ASSUME NEW sc \in Softcs, Other(sc) PROVE Goal
  <2> USE DEF Other
  <2>1. CASE Admin(sc)
    BY <1>4, <2>1 DEF Admin, CloneCreate, CloneAttach, SetAddr, SetFlags
  <2>2. CASE Destroy(sc)
    BY <1>4, <2>2
    DEF Destroy, PgenTaskDel, PgenTimeoutDel, CloneDetach, CloneFree
  <2>3. CASE Transmit(sc)
    BY <1>4, <2>3 DEF Transmit, Output, Cwnetqstart, PgenStart,
                      CwnetqstartDequeue, CwnetqstartDone
  <2>4. CASE PgenGenPack(sc)
    BY <1>4, <2>4 DEF PgenGenPack
  <2>5. CASE StaleCallback(sc)
    BY <1>4, <2>5 DEF StaleCallback
  <2> QED BY <1>4, <2>1, <2>2, <2>3, <2>4, <2>5
<1>5. CASE UNCHANGED rateVars
  BY <1>5 DEF rateVars, vars
<1> QED BY <1>1, <1>2, <1>3, <1>4, <1>5 DEF RateNext

(* Every packet, delivered or under way, has had its second.               *)
THEOREM PacketsArePaidFor == RateSpec => []PaidFor
<1>1. RateInv => PaidFor
  BY DEF RateInv
<1> QED BY <1>1, RateInvInit, RateInvStep, PTL DEF RateSpec

(* The clock and the counters only record: every behaviour of CwnetRate is *)
(* one of Cwnet, so that each theorem of CwnetProofs holds of it too.      *)
THEOREM RateIsCwnet == RateSpec => Spec
<1>1. RateInit => Init
  BY DEF RateInit
<1>2. RateInv /\ [RateNext]_rateVars => [Next]_vars
  BY RateStepIsStep DEF RateInv
<1> QED BY <1>1, <1>2, RateInvInit, RateInvStep, PTL DEF RateSpec, Spec

(* The rate itself: at no time has an interface delivered more packets     *)
(* than whole seconds have passed since boot, and the one its task is      *)
(* making, if any, is within the bound as well.                            *)
RateBound ==
  \A sc \in Softcs : (gens[sc] + Count(current = sc)) * Hz <= now

LEMMA PaidForIsBound == RateInv => RateBound
<1> SUFFICES ASSUME RateInv, NEW sc \in Softcs
             PROVE  (gens[sc] + Count(current = sc)) * Hz <= now
  BY DEF RateBound
<1> DEFINE made == gens[sc] + Count(current = sc)
<1>1. made \in Nat /\ fires[sc] \in Nat /\ made <= fires[sc]
  BY DEF RateInv, RateTypeOK, PaidFor, Count
<1>2. made * Hz \in Nat /\ fires[sc] * Hz \in Nat /\ now \in Nat
  BY <1>1, HzAssumption DEF RateInv, RateTypeOK
<1>3. fires[sc] * Hz <= now
  <2>1. Elapsed(sc) \in Nat
    BY HzAssumption DEF RateInv, TypeOK, Elapsed, Off
  <2> QED BY <1>2, <2>1 DEF RateInv, PaidFor
<1> HIDE DEF made
<1>4. made * Hz <= fires[sc] * Hz
  BY <1>1, MulMonotone, HzAssumption
<1>5. made * Hz <= now
  BY <1>2, <1>3, <1>4
<1> QED BY <1>5 DEF made

(* However often output restarts the generator, while its task is queued   *)
(* or running included, an interface stays below one packet a second.      *)
THEOREM NeverFaster == RateSpec => []RateBound
BY PaidForIsBound, RateInvInit, RateInvStep, PTL DEF RateSpec

-----------------------------------------------------------------------------
LEMMA RateStepImplements ==
  RateInv /\ [RateNext]_rateVars => [Source!Next]_<<now, gens>>
<1> SUFFICES ASSUME RateInv, [RateNext]_rateVars
             PROVE  Source!Next \/ UNCHANGED <<now, gens>>
  OBVIOUS
<1>1. CASE ClockTick
  BY <1>1 DEF ClockTick, Source!Next, Source!Clock
<1>2. ASSUME NEW sc \in Softcs, Fire(sc) PROVE UNCHANGED <<now, gens>>
  BY <1>2 DEF Fire
<1>3. ASSUME NEW sc \in Softcs, Deliver(sc) PROVE Source!Deliver(sc)
  <2>1. gens[sc] + 1 <= fires[sc]
    BY <1>3 DEF Deliver, PgenInput, RateInv, RateTypeOK, PaidFor, Count
  <2>2. fires[sc] * Hz <= now
    <3>1. fires[sc] * Hz \in Nat /\ Elapsed(sc) >= 0 /\ Elapsed(sc) \in Int
      BY HzAssumption DEF RateInv, RateTypeOK, TypeOK, Elapsed, Off
    <3> QED BY <3>1 DEF RateInv, RateTypeOK, PaidFor
  <2>3. (gens[sc] + 1) * Hz <= fires[sc] * Hz
    BY <2>1, MulMonotone, HzAssumption DEF RateInv, RateTypeOK
  <2>4. (gens[sc] + 1) * Hz <= now
    BY <2>2, <2>3, HzAssumption DEF RateInv, RateTypeOK
  <2> QED BY <1>3, <2>4 DEF Deliver, Source!Deliver
<1>4. ASSUME NEW sc \in Softcs, Other(sc) PROVE UNCHANGED <<now, gens>>
  BY <1>4 DEF Other
<1>5. CASE UNCHANGED rateVars
  BY <1>5 DEF rateVars
<1> QED BY <1>1, <1>2, <1>3, <1>4, <1>5 DEF RateNext, Source!Next

(* No interface ever delivers more packets than seconds have passed: the   *)
(* generators of if_cwnet.c implement PacketSource.                        *)
THEOREM Implements == RateSpec => SourceSpec
<1>1. RateInit => Source!Init
  BY DEF RateInit, Source!Init
<1> QED BY <1>1, RateInvInit, RateInvStep, RateStepImplements, PTL
        DEF RateSpec, SourceSpec, Source!Spec, Source!psVars
==============================================================================
