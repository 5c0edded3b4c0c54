----------------------------- MODULE CwnetProofs -----------------------------
(***************************************************************************)
(* Proofs about Cwnet, for any set of interfaces, any clock rate and any   *)
(* length of the output queues.                                            *)
(***************************************************************************)
EXTENDS Cwnet, TLAPS

-----------------------------------------------------------------------------
(* Type correctness: TypeOK is inductive as it stands.                     *)

LEMMA TypeInit == Init => TypeOK
<1> SUFFICES ASSUME Init PROVE TypeOK
  OBVIOUS
<1>1. left \in [Softcs -> Off..Hz]
  BY HzAssumption DEF Init, Off
<1>2. qlen \in [Softcs -> 0..QMax]
  BY QMaxAssumption DEF Init
<1> QED BY <1>1, <1>2 DEF Init, TypeOK, Phases

LEMMA TypeStep == TypeOK /\ [Next]_vars => TypeOK'
<1> SUFFICES ASSUME TypeOK, [Next]_vars PROVE TypeOK'
  OBVIOUS
<1> USE NoScAssumption, HzAssumption, QMaxAssumption
    DEF TypeOK, Phases, Off, genVars, ifqVars, flagVars
<1>1. CASE Tick
  BY <1>1 DEF Tick
<1>2. ASSUME NEW sc \in Softcs, Admin(sc) PROVE TypeOK'
  <2>1. CASE CloneCreate(sc)
    BY <2>1 DEF CloneCreate
  <2>2. CASE CloneAttach(sc)
    BY <2>2 DEF CloneAttach
  <2>3. CASE SetAddr(sc)
    BY <2>3 DEF SetAddr, SyncFlags
  <2>4. ASSUME NEW isUp \in BOOLEAN, SetFlags(sc, isUp) PROVE TypeOK'
    BY <2>4 DEF SetFlags, SyncFlags
  <2> QED BY <1>2, <2>1, <2>2, <2>3, <2>4 DEF Admin
<1>3. ASSUME NEW sc \in Softcs, Destroy(sc) PROVE TypeOK'
  <2>1. CASE PgenTaskDel(sc)
    BY <2>1 DEF PgenTaskDel
  <2>2. CASE PgenTimeoutDel(sc)
    BY <2>2 DEF PgenTimeoutDel
  <2>3. CASE CloneDetach(sc)
    BY <2>3 DEF CloneDetach
  <2>4. CASE CloneFree(sc)
    BY <2>4 DEF CloneFree
  <2> QED BY <1>3, <2>1, <2>2, <2>3, <2>4 DEF Destroy
<1>4. ASSUME NEW sc \in Softcs, Transmit(sc) PROVE TypeOK'
  <2>1. CASE Output(sc)
    BY <2>1 DEF Output
  <2>2. CASE Cwnetqstart(sc)
    BY <2>2 DEF Cwnetqstart, PgenStart
  <2>3. CASE CwnetqstartDequeue(sc)
    BY <2>3 DEF CwnetqstartDequeue
  <2>4. CASE CwnetqstartDone(sc)
    BY <2>4 DEF CwnetqstartDone
  <2> QED BY <1>4, <2>1, <2>2, <2>3, <2>4 DEF Transmit
<1>5. ASSUME NEW sc \in Softcs, Generate(sc) PROVE TypeOK'
  <2>1. CASE PgenGenPacks(sc)
    BY <2>1 DEF PgenGenPacks
  <2>2. CASE PgenGenPack(sc)
    BY <2>2 DEF PgenGenPack
  <2>3. CASE PgenInput(sc)
    BY <2>3 DEF PgenInput, PgenStart
  <2> QED BY <1>5, <2>1, <2>2, <2>3 DEF Generate
<1>6. ASSUME NEW sc \in Softcs, StaleCallback(sc) PROVE TypeOK'
  BY <1>6 DEF StaleCallback
<1>7. CASE UNCHANGED vars
  BY <1>7 DEF vars
<1> QED BY <1>1, <1>2, <1>3, <1>4, <1>5, <1>6, <1>7 DEF Next

(* The variables of the generator and of the output queue always have      *)
(* their types, whatever the order of the actors' steps.                   *)
THEOREM TypeCorrect == Spec => []TypeOK
BY TypeInit, TypeStep, PTL DEF Spec

-----------------------------------------------------------------------------
(* The drain loop.                                                         *)

LEMMA StrandedStep ==
  TypeOK /\ NoStrandedPackets /\ [Next]_vars => NoStrandedPackets'
<1> SUFFICES ASSUME TypeOK, NoStrandedPackets, [Next]_vars
             PROVE  NoStrandedPackets'
  OBVIOUS
<1> USE QMaxAssumption DEF TypeOK, NoStrandedPackets, genVars, ifqVars, flagVars
<1>1. CASE Tick
  BY <1>1 DEF Tick
<1>2. ASSUME NEW sc \in Softcs, Admin(sc) PROVE NoStrandedPackets'
  BY <1>2 DEF Admin, CloneCreate, CloneAttach, SetAddr, SetFlags
<1>3. ASSUME NEW sc \in Softcs, Destroy(sc) PROVE NoStrandedPackets'
  BY <1>3 DEF Destroy, PgenTaskDel, PgenTimeoutDel, CloneDetach, CloneFree
<1>4. ASSUME NEW sc \in Softcs, Transmit(sc) PROVE NoStrandedPackets'
  <2>1. CASE Output(sc)
    BY <2>1 DEF Output
  <2>2. CASE Cwnetqstart(sc)
    BY <2>2 DEF Cwnetqstart
  <2>3. CASE CwnetqstartDequeue(sc)
    BY <2>3 DEF CwnetqstartDequeue
  <2>4. CASE CwnetqstartDone(sc)
    BY <2>4 DEF CwnetqstartDone
  <2> QED BY <1>4, <2>1, <2>2, <2>3, <2>4 DEF Transmit
<1>5. ASSUME NEW sc \in Softcs, Generate(sc) PROVE NoStrandedPackets'
  BY <1>5 DEF Generate, PgenGenPacks, PgenGenPack, PgenInput
<1>6. ASSUME NEW sc \in Softcs, StaleCallback(sc) PROVE NoStrandedPackets'
  BY <1>6 DEF StaleCallback
<1>7. CASE UNCHANGED vars
  BY <1>7 DEF vars
<1> QED BY <1>1, <1>2, <1>3, <1>4, <1>5, <1>6, <1>7 DEF Next

(* No packet is left on an output queue with nobody to discard it.         *)
THEOREM PacketsAreDrained == Spec => []NoStrandedPackets
<1>1. Init => NoStrandedPackets
  BY DEF Init, NoStrandedPackets
<1> QED BY <1>1, StrandedStep, TypeCorrect, PTL DEF Spec

-----------------------------------------------------------------------------
(* What starts the generator.  SilentUntilConfigured is not inductive: it  *)
(* needs that only a configured interface runs, and that the stack owes a  *)
(* call of the start routine only to a configured interface.               *)

ConfiguredInv ==
  \A sc \in Softcs :
    sc \in running \cup startReq \/ Active(sc) => link[sc] # "unknown"

LEMMA ConfiguredStep ==
  TypeOK /\ ConfiguredInv /\ [Next]_vars => ConfiguredInv'
<1> SUFFICES ASSUME TypeOK, ConfiguredInv, [Next]_vars
             PROVE  ConfiguredInv'
  OBVIOUS
<1> USE NoScAssumption
    DEF TypeOK, ConfiguredInv, Active, Off, genVars, ifqVars, flagVars
<1>1. CASE Tick
  BY <1>1, HzAssumption DEF Tick
<1>2. ASSUME NEW sc \in Softcs, Admin(sc) PROVE ConfiguredInv'
  <2>1. CASE CloneCreate(sc) \/ CloneAttach(sc)
    BY <2>1 DEF CloneCreate, CloneAttach
  <2>2. CASE SetAddr(sc)
    BY <2>2 DEF SetAddr, SyncFlags
  <2>3. ASSUME NEW isUp \in BOOLEAN, SetFlags(sc, isUp) PROVE ConfiguredInv'
    BY <2>3 DEF SetFlags, SyncFlags
  <2> QED BY <1>2, <2>1, <2>2, <2>3 DEF Admin
<1>3. ASSUME NEW sc \in Softcs, Destroy(sc) PROVE ConfiguredInv'
  BY <1>3 DEF Destroy, PgenTaskDel, PgenTimeoutDel, CloneDetach, CloneFree
<1>4. ASSUME NEW sc \in Softcs, Transmit(sc) PROVE ConfiguredInv'
  <2>1. CASE Output(sc)
    BY <2>1 DEF Output
  <2>2. CASE Cwnetqstart(sc)
    BY <2>2 DEF Cwnetqstart, PgenStart
  <2>3. CASE CwnetqstartDequeue(sc) \/ CwnetqstartDone(sc)
    BY <2>3 DEF CwnetqstartDequeue, CwnetqstartDone
  <2> QED BY <1>4, <2>1, <2>2, <2>3 DEF Transmit
<1>5. ASSUME NEW sc \in Softcs, Generate(sc) PROVE ConfiguredInv'
  BY <1>5 DEF Generate, PgenGenPacks, PgenGenPack, PgenInput, PgenStart
<1>6. ASSUME NEW sc \in Softcs, StaleCallback(sc) PROVE ConfiguredInv'
  BY <1>6 DEF StaleCallback
<1>7. CASE UNCHANGED vars
  BY <1>7 DEF vars
<1> QED BY <1>1, <1>2, <1>3, <1>4, <1>5, <1>6, <1>7 DEF Next

(* The generator never runs on an interface that was never configured.     *)
THEOREM ConfiguredFirst == Spec => []SilentUntilConfigured
<1>1. Init => ConfiguredInv
  BY NoScAssumption DEF Init, ConfiguredInv, Active
<1>2. ConfiguredInv => SilentUntilConfigured
  BY DEF ConfiguredInv, SilentUntilConfigured
<1> QED BY <1>1, <1>2, ConfiguredStep, TypeCorrect, PTL DEF Spec

-----------------------------------------------------------------------------
(* The chain timer - task - packet - timer.  One step of the proof per     *)
(* link: the step that ends one makes the next.                            *)

ChainKept ==
  \A sc \in Softcs :
    Active(sc) /\ phase'[sc] = "attached" => Active(sc)'

LEMMA ChainStep == TypeOK /\ [Next]_vars => ChainKept
<1> SUFFICES ASSUME TypeOK, [Next]_vars PROVE ChainKept
  OBVIOUS
<1> USE NoScAssumption, HzAssumption
    DEF TypeOK, ChainKept, Active, Off, genVars, ifqVars, flagVars
<1>1. CASE Tick
  BY <1>1 DEF Tick
<1>2. ASSUME NEW sc \in Softcs, Admin(sc) PROVE ChainKept
  BY <1>2 DEF Admin, CloneCreate, CloneAttach, SetAddr, SetFlags
<1>3. ASSUME NEW sc \in Softcs, Destroy(sc) PROVE ChainKept
  <2>1. CASE PgenTaskDel(sc)
    BY <2>1 DEF PgenTaskDel
  <2>2. CASE PgenTimeoutDel(sc)
    BY <2>2 DEF PgenTimeoutDel
  <2>3. CASE CloneDetach(sc) \/ CloneFree(sc)
    BY <2>3 DEF CloneDetach, CloneFree
  <2> QED BY <1>3, <2>1, <2>2, <2>3 DEF Destroy
<1>4. ASSUME NEW sc \in Softcs, Transmit(sc) PROVE ChainKept
  BY <1>4 DEF Transmit, Output, Cwnetqstart, PgenStart,
              CwnetqstartDequeue, CwnetqstartDone
<1>5. ASSUME NEW sc \in Softcs, Generate(sc) PROVE ChainKept
  <2>1. CASE PgenGenPacks(sc)
    BY <2>1 DEF PgenGenPacks
  <2>2. CASE PgenGenPack(sc)
    BY <2>2 DEF PgenGenPack
  <2>3. CASE PgenInput(sc)
    BY <2>3 DEF PgenInput, PgenStart
  <2> QED BY <1>5, <2>1, <2>2, <2>3 DEF Generate
<1>6. ASSUME NEW sc \in Softcs, StaleCallback(sc) PROVE ChainKept
  BY <1>6 DEF StaleCallback
<1>7. CASE UNCHANGED vars
  BY <1>7 DEF vars
<1> QED BY <1>1, <1>2, <1>3, <1>4, <1>5, <1>6, <1>7 DEF Next

(* A generator that was started never stops while its interface stays.     *)
THEOREM GeneratorGoesOn == Spec => GeneratorNeverDies
<1>1. TypeOK /\ [Next]_vars => [ChainKept]_vars
  BY ChainStep
<1>2. [][ChainKept]_vars => GeneratorNeverDies
  BY PTL DEF GeneratorNeverDies, ChainKept
<1> QED BY <1>1, <1>2, TypeCorrect, PTL DEF Spec

-----------------------------------------------------------------------------
(* Destruction of a quiet interface: no output arrives any more, packet    *)
(* allocation does not sleep, and the timeout has not fired between        *)
(* task_del and timeout_del.  From task_del on the interface is idle and   *)
(* its task neither queued nor running; from timeout_del on its timeout    *)
(* is off too, and nothing left can start it again.                        *)

QuietTeardown(sc) ==
  /\ phase[sc] \in {"taskdel", "quiet", "detached", "freed"} =>
         Idle(sc) /\ sc \notin taskq /\ current # sc
  /\ phase[sc] \in {"quiet", "detached", "freed"} => left[sc] = Off

TeardownInv == \A sc \in Softcs : Quiet(sc) => QuietTeardown(sc)

QuietInv == TypeOK /\ TeardownInv /\ NeverFaults

LEMMA TeardownStep == QuietInv /\ [Next]_vars => QuietInv'
<1> SUFFICES ASSUME QuietInv, [Next]_vars PROVE TeardownInv' /\ NeverFaults'
  BY TypeStep DEF QuietInv
<1> USE NoScAssumption, HzAssumption
    DEF QuietInv, TypeOK, TeardownInv, QuietTeardown, Quiet, NeverFaults, Idle, Wired, Off,
        Phases, KernelFree, HeldByDestroy, HeldByTask,
        genVars, ifqVars, flagVars
<1> DEFINE Goal == TeardownInv' /\ NeverFaults'
<1>1. CASE Tick
  BY <1>1 DEF Tick
<1>2. ASSUME NEW sc \in Softcs, Admin(sc) PROVE Goal
  <2>1. CASE CloneCreate(sc) \/ CloneAttach(sc)
    BY <2>1 DEF CloneCreate, CloneAttach
  <2>2. CASE SetAddr(sc)
    BY <2>2 DEF SetAddr
  <2>3. ASSUME NEW isUp \in BOOLEAN, SetFlags(sc, isUp) PROVE Goal
    BY <2>3 DEF SetFlags
  <2> QED BY <1>2, <2>1, <2>2, <2>3 DEF Admin
<1>3. ASSUME NEW sc \in Softcs, Destroy(sc) PROVE Goal
  <2>1. CASE PgenTaskDel(sc)
    BY <2>1 DEF PgenTaskDel
  <2>2. CASE PgenTimeoutDel(sc)
    BY <2>2 DEF PgenTimeoutDel
  <2>3. CASE CloneDetach(sc)
    BY <2>3 DEF CloneDetach
  <2>4. CASE CloneFree(sc)
    BY <2>4 DEF CloneFree
  <2> QED BY <1>3, <2>1, <2>2, <2>3, <2>4 DEF Destroy
<1>4. ASSUME NEW sc \in Softcs, Transmit(sc) PROVE Goal
  <2>1. CASE Output(sc)
    BY <2>1 DEF Output
  <2>2. CASE Cwnetqstart(sc)
    BY <2>2 DEF Cwnetqstart, PgenStart
  <2>3. CASE CwnetqstartDequeue(sc)
    BY <2>3 DEF CwnetqstartDequeue
  <2>4. CASE CwnetqstartDone(sc)
    BY <2>4 DEF CwnetqstartDone
  <2> QED BY <1>4, <2>1, <2>2, <2>3, <2>4 DEF Transmit
<1>5. ASSUME NEW sc \in Softcs, Generate(sc) PROVE Goal
  <2>1. CASE PgenGenPacks(sc)
    BY <2>1 DEF PgenGenPacks
  <2>2. CASE PgenGenPack(sc)
    BY <2>2 DEF PgenGenPack
  <2>3. CASE PgenInput(sc)
    BY <2>3 DEF PgenInput, PgenStart
  <2> QED BY <1>5, <2>1, <2>2, <2>3 DEF Generate
<1>6. ASSUME NEW sc \in Softcs, StaleCallback(sc) PROVE Goal
  BY <1>6 DEF StaleCallback
<1>7. CASE UNCHANGED vars
  BY <1>7 DEF vars
<1> QED BY <1>1, <1>2, <1>3, <1>4, <1>5, <1>6, <1>7 DEF Next

LEMMA TeardownStart == Init => QuietInv
BY TypeInit, NoScAssumption DEF Init, QuietInv, TeardownInv, QuietTeardown, NeverFaults

(* If output has stopped before an interface is destroyed, allocation for  *)
(* it never sleeps and its timeout keeps out of pgen_destroy(), that does  *)
(* release its generator.                                                  *)
THEOREM TeardownSafe == Spec => []TeardownReleases
<1>1. QuietInv => TeardownReleases
  BY DEF QuietInv, TeardownInv, QuietTeardown, TeardownReleases, Active
<1> QED BY <1>1, TeardownStart, TeardownStep, PTL DEF Spec

(* ... and no callback of it ever touches what has been released.          *)
THEOREM FaultFree == Spec => []NeverFaults
<1>1. QuietInv => NeverFaults
  BY DEF QuietInv
<1> QED BY <1>1, TeardownStart, TeardownStep, PTL DEF Spec

(* What TasksAreCancelled depends on: if no output overlaps a destroy, no  *)
(* allocation sleeps, and no timeout has yet fired between task_del and    *)
(* timeout_del, pgen_destroy() has been the "release of resources" it says *)
(* it is, for every interface.  Nothing else in the interleaving of        *)
(* administrators, stack, softclock and systq breaks it.                   *)
THEOREM CancelledUnlessLateSleepyOrMissed ==
  ASSUME Late = {}, Sleepy = {}
  PROVE  Spec => [](missed = {} => TasksAreCancelled)
<1>1. TeardownReleases => (missed = {} => TasksAreCancelled)
  BY DEF TeardownReleases, TasksAreCancelled, Quiet
<1> QED BY <1>1, TeardownSafe, PTL

-----------------------------------------------------------------------------
(* The three ways to break it differ.  Late output restarts a timer and a  *)
(* timeout that was missed queues a task, but the task that runs from it   *)
(* holds the kernel lock until it is done: only a task that sleeps is      *)
(* still running when its softc is freed.                                  *)

RunsWhenFreed == \A sc \in Softcs : phase[sc] = "freed" /\ current = sc => sc \in Sleepy

LEMMA RunsWhenFreedStep ==
  TypeOK /\ RunsWhenFreed /\ [Next]_vars => RunsWhenFreed'
<1> SUFFICES ASSUME TypeOK, RunsWhenFreed, [Next]_vars
             PROVE  RunsWhenFreed'
  OBVIOUS
<1> USE NoScAssumption
    DEF TypeOK, RunsWhenFreed, KernelFree, HeldByTask, genVars, ifqVars, flagVars
<1>1. CASE Tick
  BY <1>1 DEF Tick
<1>2. ASSUME NEW sc \in Softcs, Admin(sc) PROVE RunsWhenFreed'
  BY <1>2 DEF Admin, CloneCreate, CloneAttach, SetAddr, SetFlags
<1>3. ASSUME NEW sc \in Softcs, Destroy(sc) PROVE RunsWhenFreed'
  <2>1. CASE CloneFree(sc)
    BY <2>1 DEF CloneFree
  <2> QED BY <1>3, <2>1 DEF Destroy, PgenTaskDel, PgenTimeoutDel, CloneDetach
<1>4. ASSUME NEW sc \in Softcs, Transmit(sc) PROVE RunsWhenFreed'
  BY <1>4 DEF Transmit, Output, Cwnetqstart, CwnetqstartDequeue, CwnetqstartDone
<1>5. ASSUME NEW sc \in Softcs, Generate(sc) PROVE RunsWhenFreed'
  BY <1>5 DEF Generate, PgenGenPacks, PgenGenPack, PgenInput
<1>6. ASSUME NEW sc \in Softcs, StaleCallback(sc) PROVE RunsWhenFreed'
  BY <1>6 DEF StaleCallback
<1>7. CASE UNCHANGED vars
  BY <1>7 DEF vars
<1> QED BY <1>1, <1>2, <1>3, <1>4, <1>5, <1>6, <1>7 DEF Next

(* A task outlives its softc (pgen_gen_pack, after MCLGETL) only if the    *)
(* allocation slept, whether or not output overlapped the destroy.         *)
THEOREM OnlySleepersOutlive == Spec => []RunsWhenFreed
<1>1. Init => RunsWhenFreed
  BY DEF Init, RunsWhenFreed
<1> QED BY <1>1, RunsWhenFreedStep, TypeCorrect, PTL DEF Spec

-----------------------------------------------------------------------------
(* The safety half of GeneratorProgress: how far the next packet is off.   *)
(* A running task is about to deliver one, a queued task comes next, and a *)
(* timeout comes after its remaining ticks; the generator that is not      *)
(* active is further off than any of these.                                *)

Distance(sc) ==
  IF current = sc THEN 0
  ELSE IF sc \in taskq THEN 1
  ELSE IF left[sc] # Off THEN left[sc] + 2
  ELSE Hz + 3

Starts(sc) == sc \in draining' \ draining

Nearer ==
  \A sc \in Softcs :
    phase'[sc] = "attached" =>
      \/ Distance(sc)' <= Distance(sc)
      \/ Starts(sc) /\ Distance(sc)' <= Hz + 2
      \/ current = sc /\ Distance(sc)' <= Hz + 2

LEMMA NearerStep == TypeOK /\ [Next]_vars => Nearer
<1> SUFFICES ASSUME TypeOK, [Next]_vars PROVE Nearer
  OBVIOUS
<1> USE NoScAssumption, HzAssumption
    DEF TypeOK, Nearer, Distance, Starts, Off, genVars, ifqVars, flagVars
<1>1. CASE Tick
  BY <1>1 DEF Tick
<1>2. ASSUME NEW sc \in Softcs, Admin(sc) PROVE Nearer
  <2>1. UNCHANGED <<left, taskq, current>>
    BY <1>2 DEF Admin, CloneCreate, CloneAttach, SetAddr, SetFlags
  <2> QED BY <2>1
<1>3. ASSUME NEW sc \in Softcs, Destroy(sc) PROVE Nearer
  <2>1. CASE PgenTaskDel(sc)
    BY <2>1 DEF PgenTaskDel
  <2>2. CASE PgenTimeoutDel(sc)
    BY <2>2 DEF PgenTimeoutDel
  <2>3. CASE CloneDetach(sc) \/ CloneFree(sc)
    BY <2>3 DEF CloneDetach, CloneFree
  <2> QED BY <1>3, <2>1, <2>2, <2>3 DEF Destroy
<1>4. ASSUME NEW sc \in Softcs, Transmit(sc) PROVE Nearer
  <2>1. CASE Cwnetqstart(sc)
    BY <2>1 DEF Cwnetqstart, PgenStart
  <2>2. CASE Output(sc) \/ CwnetqstartDequeue(sc) \/ CwnetqstartDone(sc)
    BY <2>2 DEF Output, CwnetqstartDequeue, CwnetqstartDone
  <2> QED BY <1>4, <2>1, <2>2 DEF Transmit
<1>5. ASSUME NEW sc \in Softcs, Generate(sc) PROVE Nearer
  <2>1. CASE PgenGenPacks(sc)
    BY <2>1 DEF PgenGenPacks
  <2>2. CASE PgenGenPack(sc)
    BY <2>2 DEF PgenGenPack
  <2>3. CASE PgenInput(sc)
    BY <2>3 DEF PgenInput, PgenStart
  <2> QED BY <1>5, <2>1, <2>2, <2>3 DEF Generate
<1>6. ASSUME NEW sc \in Softcs, StaleCallback(sc) PROVE Nearer
  BY <1>6 DEF StaleCallback
<1>7. CASE UNCHANGED vars
  BY <1>7 DEF vars
<1> QED BY <1>1, <1>2, <1>3, <1>4, <1>5, <1>6, <1>7 DEF Next

(* On an interface that stays attached the next packet never moves away,   *)
(* but for two steps, and then by no more than a second: the start routine *)
(* of an output, and the delivery of a packet.  With Tick, PgenGenPacks    *)
(* and PgenGenPack, which bring it nearer, this is what GeneratorProgress  *)
(* rests on; that those steps do happen is fairness, left to TLC.          *)
THEOREM OnlyOutputPutsOff == Spec => [][Nearer]_vars
<1>1. TypeOK /\ [Next]_vars => [Nearer]_vars
  BY NearerStep
<1> QED BY <1>1, TypeCorrect, PTL DEF Spec

Approaches ==
  \A sc \in Softcs :
    /\ Tick /\ left[sc] > 0 /\ sc \notin taskq /\ current # sc
         => Distance(sc)' = Distance(sc) - 1
    /\ PgenGenPacks(sc) /\ sc \notin taskq /\ current # sc
         => Distance(sc) = 2 /\ Distance(sc)' = 1
    /\ PgenGenPack(sc) => Distance(sc) = 1 /\ Distance(sc)' = 0

(* Each step of the chain brings the packet nearer: a tick while only the  *)
(* timeout is ahead, the timeout firing, the task being taken up.          *)
THEOREM ChainApproaches == Spec => [][Approaches]_vars
<1>1. TypeOK => [Approaches]_vars
  BY NoScAssumption, HzAssumption
  DEF TypeOK, Approaches, Tick, PgenGenPacks, PgenGenPack, Distance, Off, genVars
<1> QED BY <1>1, TypeCorrect, PTL
=============================================================================
