-------------------------------- MODULE Cwnet --------------------------------
(***************************************************************************)
(* The cwnet pseudo network interface, skel-kernel/net/if_cwnet.c: cloned  *)
(* interfaces, each with a packet generator made of a one-second timeout   *)
(* (sc_to), a task (sc_t) on the shared system task queue, and a transmit  *)
(* start routine that discards output and (re)starts the generator.        *)
(*                                                                         *)
(* Actors: administrators (create, destroy, ioctl), the network stack      *)
(* (output, cwnetqstart), softclock (pgen_gen_packs), and the single systq *)
(* thread (pgen_gen_pack).  Administrators and the systq thread run under  *)
(* the kernel lock, which is given up only where the code may sleep.  It   *)
(* keeps out neither cwnetqstart, since the interface is marked            *)
(* IFXF_MPSAFE, nor softclock, a soft interrupt of the CPU that holds it:  *)
(* the timeout may fire between any two steps of the others.               *)
(***************************************************************************)
EXTENDS Integers

CONSTANTS
  Softcs,       \* softc structures malloc() may return, each used once
  NoSc,         \* not a softc: the systq thread has no task
  Hz,           \* clock ticks in the second timeout_add_sec() asks for
  QMax,         \* bound on the length of an output queue (IFQ_MAXLEN)
  Late,         \* softcs whose output may overlap their destruction
  Sleepy        \* softcs for whose packets MCLGETL(M_WAITOK) may sleep

ASSUME NoScAssumption == NoSc \notin Softcs
ASSUME HzAssumption == Hz \in Nat \ {0}
ASSUME QMaxAssumption == QMax \in Nat \ {0}
ASSUME EnvAssumption == Late \subseteq Softcs /\ Sleepy \subseteq Softcs

VARIABLES
  phase,     \* where a softc is between malloc() and free()
  left,      \* ticks left on sc_to, Off when the timeout is not pending
  taskq,     \* softcs whose sc_t is on systq
  current,   \* the softc whose task the systq thread is in, or NoSc
  qlen,      \* packets on if_snd
  startReq,  \* softcs for which the stack still owes a call of cwnetqstart
  draining,  \* softcs inside cwnetqstart
  up,        \* softcs with IFF_UP
  running,   \* softcs with IFF_RUNNING
  link,      \* if_link_state
  fault,     \* the softc whose callback has used released memory, or NoSc
  missed     \* softcs whose timeout has fired after task_del() and before
             \* timeout_del(): recorded for the properties, read by no action

genVars == <<left, taskq, current>>
ifqVars == <<qlen, startReq, draining>>
flagVars == <<up, running, link>>
vars == <<phase, genVars, ifqVars, flagVars, fault, missed>>

Off == -1

Phases == {"none", "set", "attached", "taskdel", "quiet", "detached", "freed"}

(* The stack can still reach the interface: if_attach() has published it   *)
(* and if_detach() has not yet taken its start routine away.               *)
Wired(sc) == phase[sc] \in {"attached", "taskdel", "quiet"}

(* pgen_destroy() keeps the kernel lock between task_del and timeout_del;  *)
(* the task keeps it across an allocation that does not sleep.  Softclock  *)
(* waits for neither: no code here raises the level to splsoftclock().     *)
HeldByDestroy == \E sc \in Softcs : phase[sc] = "taskdel"
HeldByTask == current # NoSc /\ current \notin Sleepy
KernelFree == ~HeldByDestroy /\ ~HeldByTask

Init ==
  /\ phase = [sc \in Softcs |-> "none"]
  /\ left = [sc \in Softcs |-> Off]
  /\ taskq = {}
  /\ current = NoSc
  /\ qlen = [sc \in Softcs |-> 0]
  /\ startReq = {}
  /\ draining = {}
  /\ up = {}
  /\ running = {}
  /\ link = [sc \in Softcs |-> "unknown"]
  /\ fault = NoSc
  /\ missed = {}

(* A kernel that has faulted does nothing more.                            *)
Alive == fault = NoSc

(* timeout_add_sec(): a pending timeout is moved to a whole second ahead.  *)
PgenStart(sc) == left' = [left EXCEPT ![sc] = Hz]

-----------------------------------------------------------------------------
(* Interface creation.  The first step allocates and fills in the softc,   *)
(* pgen_set() included; if_attach(), which may sleep, then publishes it.   *)

CloneCreate(sc) ==
  /\ Alive
  /\ KernelFree
  /\ phase[sc] = "none"
  /\ phase' = [phase EXCEPT ![sc] = "set"]
  /\ UNCHANGED <<genVars, ifqVars, flagVars, fault, missed>>

(* Faulty variant: the generator is started as soon as it is set up.       *)
CloneAttachStarting(sc) ==
  /\ Alive
  /\ KernelFree
  /\ phase[sc] = "set"
  /\ phase' = [phase EXCEPT ![sc] = "attached"]
  /\ PgenStart(sc)
  /\ UNCHANGED <<taskq, current, ifqVars, flagVars, fault, missed>>

CloneAttach(sc) ==
  /\ Alive
  /\ KernelFree
  /\ phase[sc] = "set"
  /\ phase' = [phase EXCEPT ![sc] = "attached"]
  /\ UNCHANGED <<genVars, ifqVars, flagVars, fault, missed>>

-----------------------------------------------------------------------------
(* cwnetioctl: SIOCSIFADDR raises IFF_UP itself; for SIOCSIFFLAGS the      *)
(* caller has already stored the new flags.  The other requests change     *)
(* nothing here.                                                           *)

SyncFlags(sc, isUp) ==
  /\ running' = IF isUp THEN running \cup {sc} ELSE running \ {sc}
  /\ link' = [link EXCEPT ![sc] = IF isUp THEN "up" ELSE "down"]

SetAddr(sc) ==
  /\ Alive
  /\ KernelFree
  /\ Wired(sc)
  /\ up' = up \cup {sc}
  /\ SyncFlags(sc, TRUE)
  /\ UNCHANGED <<phase, genVars, ifqVars, fault, missed>>

SetFlags(sc, isUp) ==
  /\ Alive
  /\ KernelFree
  /\ Wired(sc)
  /\ up' = IF isUp THEN up \cup {sc} ELSE up \ {sc}
  /\ SyncFlags(sc, isUp)
  /\ UNCHANGED <<phase, genVars, ifqVars, fault, missed>>

-----------------------------------------------------------------------------
(* Transmission.  Output is the stack's side: it enqueues on if_snd of a   *)
(* running interface and owes it a call of the start routine.              *)

Output(sc) ==
  /\ Alive
  /\ Wired(sc)
  /\ sc \in Late \/ phase[sc] = "attached"
  /\ sc \in up \cap running
  /\ qlen[sc] < QMax
  /\ qlen' = [qlen EXCEPT ![sc] = @ + 1]
  /\ startReq' = startReq \cup {sc}
  /\ UNCHANGED <<phase, genVars, draining, flagVars, fault, missed>>

Cwnetqstart(sc) ==
  /\ Alive
  /\ Wired(sc)
  /\ sc \in startReq
  /\ sc \notin draining
  /\ startReq' = startReq \ {sc}
  /\ draining' = draining \cup {sc}
  /\ PgenStart(sc)
  /\ UNCHANGED <<phase, taskq, current, qlen, flagVars, fault, missed>>

(* Faulty variant: ifq_dequeue()'s result is not tested.                   *)
CwnetqstartDequeueUntested(sc) ==
  /\ Alive
  /\ sc \in draining
  /\ qlen' = [qlen EXCEPT ![sc] = @ - 1]
  /\ UNCHANGED <<phase, genVars, startReq, draining, flagVars, fault, missed>>

CwnetqstartDequeue(sc) ==
  /\ Alive
  /\ sc \in draining
  /\ qlen[sc] > 0
  /\ qlen' = [qlen EXCEPT ![sc] = @ - 1]
  /\ UNCHANGED <<phase, genVars, startReq, draining, flagVars, fault, missed>>

(* Faulty variant: "if" for "while", the loop may leave packets behind.    *)
CwnetqstartDoneEarly(sc) ==
  /\ Alive
  /\ sc \in draining
  /\ draining' = draining \ {sc}
  /\ UNCHANGED <<phase, genVars, qlen, startReq, flagVars, fault, missed>>

CwnetqstartDone(sc) ==
  /\ Alive
  /\ sc \in draining
  /\ qlen[sc] = 0
  /\ draining' = draining \ {sc}
  /\ UNCHANGED <<phase, genVars, qlen, startReq, flagVars, fault, missed>>

-----------------------------------------------------------------------------
(* The generator: timer, then task, then one packet, then the timer again. *)

Tick ==
  /\ Alive
  /\ \E sc \in Softcs : left[sc] > 0
  /\ left' = [sc \in Softcs |-> IF left[sc] > 0 THEN left[sc] - 1 ELSE left[sc]]
  /\ UNCHANGED <<phase, taskq, current, ifqVars, flagVars, fault, missed>>

(* Faulty variant: the callback forgets task_add().                        *)
PgenGenPacksNoTask(sc) ==
  /\ Alive
  /\ left[sc] = 0
  /\ phase[sc] # "freed"
  /\ left' = [left EXCEPT ![sc] = Off]
  /\ UNCHANGED <<phase, taskq, current, ifqVars, flagVars, fault, missed>>

(* The timer's softclock callback: put the task on systq (once).           *)
PgenGenPacks(sc) ==
  /\ Alive
  /\ left[sc] = 0
  /\ phase[sc] # "freed"
  /\ left' = [left EXCEPT ![sc] = Off]
  /\ taskq' = taskq \cup {sc}
  /\ missed' = IF phase[sc] = "taskdel" THEN missed \cup {sc} ELSE missed
  /\ UNCHANGED <<phase, current, ifqVars, flagVars, fault>>

(* The systq thread takes the task off its queue, calls pgen_gen_pack()    *)
(* and allocates the packet.                                               *)
PgenGenPack(sc) ==
  /\ Alive
  /\ KernelFree
  /\ current = NoSc
  /\ sc \in taskq
  /\ phase[sc] # "freed"
  /\ taskq' = taskq \ {sc}
  /\ current' = sc
  /\ UNCHANGED <<phase, left, ifqVars, flagVars, fault, missed>>

(* Faulty variant: the timer is not re-armed after the packet.             *)
PgenInputOnce(sc) ==
  /\ Alive
  /\ ~HeldByDestroy
  /\ current = sc
  /\ phase[sc] \notin {"detached", "freed"}
  /\ current' = NoSc
  /\ UNCHANGED <<phase, left, taskq, ifqVars, flagVars, fault, missed>>

(* The packet is filled in, given to if_input(), and the timer re-armed.   *)
PgenInput(sc) ==
  /\ Alive
  /\ ~HeldByDestroy
  /\ current = sc
  /\ phase[sc] \notin {"detached", "freed"}
  /\ PgenStart(sc)
  /\ current' = NoSc
  /\ UNCHANGED <<phase, taskq, ifqVars, flagVars, fault, missed>>

(* A callback runs on a softc that is gone, or reads the link-level        *)
(* address if_detach() has released: the kernel faults and stops.          *)
StaleCallback(sc) ==
  /\ Alive
  /\ \/ phase[sc] = "freed" /\ left[sc] = 0
     \/ KernelFree /\ phase[sc] = "freed" /\ sc \in taskq /\ current = NoSc
     \/ ~HeldByDestroy /\ current = sc /\ phase[sc] \in {"detached", "freed"}
  /\ fault' = sc
  /\ UNCHANGED <<phase, genVars, ifqVars, flagVars, missed>>

-----------------------------------------------------------------------------
(* Interface destruction.                                                  *)

Idle(sc) == qlen[sc] = 0 /\ sc \notin startReq \cup draining

(* Faulty variant: the task is left on the queue.                          *)
PgenTaskDelForgotten(sc) ==
  /\ Alive
  /\ KernelFree
  /\ phase[sc] = "attached"
  /\ sc \in Late \/ Idle(sc)
  /\ phase' = [phase EXCEPT ![sc] = "taskdel"]
  /\ UNCHANGED <<genVars, ifqVars, flagVars, fault, missed>>

(* pgen_destroy(), first half: task_del() unqueues the task but does not   *)
(* wait for one that is already running.                                   *)
PgenTaskDel(sc) ==
  /\ Alive
  /\ KernelFree
  /\ phase[sc] = "attached"
  /\ sc \in Late \/ Idle(sc)
  /\ phase' = [phase EXCEPT ![sc] = "taskdel"]
  /\ taskq' = taskq \ {sc}
  /\ UNCHANGED <<left, current, ifqVars, flagVars, fault, missed>>

(* Faulty variant: timeout_del() is forgotten.                             *)
PgenTimeoutDelForgotten(sc) ==
  /\ Alive
  /\ phase[sc] = "taskdel"
  /\ phase' = [phase EXCEPT ![sc] = "quiet"]
  /\ UNCHANGED <<genVars, ifqVars, flagVars, fault, missed>>

(* pgen_destroy(), second half: timeout_del().                             *)
PgenTimeoutDel(sc) ==
  /\ Alive
  /\ phase[sc] = "taskdel"
  /\ phase' = [phase EXCEPT ![sc] = "quiet"]
  /\ left' = [left EXCEPT ![sc] = Off]
  /\ UNCHANGED <<taskq, current, ifqVars, flagVars, fault, missed>>

(* ether_ifdetach() and if_detach(): the latter waits for cwnetqstart to   *)
(* return, replaces it, and purges the queue.                              *)
CloneDetach(sc) ==
  /\ Alive
  /\ KernelFree
  /\ phase[sc] = "quiet"
  /\ sc \notin draining
  /\ phase' = [phase EXCEPT ![sc] = "detached"]
  /\ qlen' = [qlen EXCEPT ![sc] = 0]
  /\ startReq' = startReq \ {sc}
  /\ UNCHANGED <<genVars, draining, flagVars, fault, missed>>

CloneFree(sc) ==
  /\ Alive
  /\ KernelFree
  /\ phase[sc] = "detached"
  /\ phase' = [phase EXCEPT ![sc] = "freed"]
  /\ UNCHANGED <<genVars, ifqVars, flagVars, fault, missed>>

-----------------------------------------------------------------------------
Admin(sc) ==
  \/ CloneCreate(sc) \/ CloneAttach(sc)
  \/ SetAddr(sc) \/ \E isUp \in BOOLEAN : SetFlags(sc, isUp)

Destroy(sc) ==
  PgenTaskDel(sc) \/ PgenTimeoutDel(sc) \/ CloneDetach(sc) \/ CloneFree(sc)

Transmit(sc) ==
  \/ Output(sc) \/ Cwnetqstart(sc)
  \/ CwnetqstartDequeue(sc) \/ CwnetqstartDone(sc)

Generate(sc) == PgenGenPacks(sc) \/ PgenGenPack(sc) \/ PgenInput(sc)

Next ==
  \/ Tick
  \/ \E sc \in Softcs :
       Admin(sc) \/ Destroy(sc) \/ Transmit(sc) \/ Generate(sc) \/ StaleCallback(sc)

Spec == Init /\ [][Next]_vars

(* Time passes, the stack makes the calls it owes, an allocation that      *)
(* sleeps is woken, and a destroy that holds the kernel lock goes on.      *)
(* Softclock is an interrupt and waits for nobody.  The kernel lock is     *)
(* handed out in order and systq is first-in first-out, so the systq       *)
(* thread is never passed over for ever (SF).                              *)
(* Nobody is obliged to configure, transmit or destroy anything.           *)
Fairness ==
  /\ WF_vars(Tick)
  /\ \A sc \in Softcs :
       /\ WF_vars(PgenGenPacks(sc))
       /\ SF_vars(PgenGenPack(sc))
       /\ SF_vars(StaleCallback(sc))
       /\ WF_vars(PgenInput(sc))
       /\ WF_vars(PgenTimeoutDel(sc))
       /\ WF_vars(Cwnetqstart(sc))
       /\ WF_vars(CwnetqstartDequeue(sc))
       /\ WF_vars(CwnetqstartDone(sc))

FairSpec == Spec /\ Fairness

-----------------------------------------------------------------------------
(* Properties.                                                             *)

(* Every variable keeps its type: a queue never exceeds QMax, a timeout    *)
(* never lies further ahead than one second.                               *)
TypeOK ==
  /\ phase \in [Softcs -> Phases]
  /\ left \in [Softcs -> Off..Hz]
  /\ taskq \subseteq Softcs
  /\ current \in Softcs \cup {NoSc}
  /\ qlen \in [Softcs -> 0..QMax]
  /\ startReq \subseteq Softcs
  /\ draining \subseteq Softcs
  /\ up \subseteq Softcs
  /\ running \subseteq Softcs
  /\ link \in [Softcs -> {"unknown", "down", "up"}]
  /\ fault \in Softcs \cup {NoSc}
  /\ missed \subseteq Softcs

Active(sc) == left[sc] # Off \/ sc \in taskq \/ current = sc

(* The transmit queue is never left holding packets that nobody is going   *)
(* to discard: while it is not empty, cwnetqstart is running or owed.      *)
(* (The drain loop of cwnetqstart, against output that arrives meanwhile.) *)
NoStrandedPackets ==
  \A sc \in Softcs : qlen[sc] > 0 => sc \in startReq \cup draining

(* The generator does not run on an interface that was never configured:   *)
(* only output starts it, and there is none before cwnetioctl has brought  *)
(* the link state from unknown to a definite value.                        *)
SilentUntilConfigured ==
  \A sc \in Softcs : Active(sc) => link[sc] # "unknown"

(* Once started, the generator goes on for ever: no step of any actor      *)
(* breaks the chain timer - task - packet - timer of an interface that     *)
(* stays attached.  (pgen_gen_packs, pgen_gen_pack, cwnetqstart.)          *)
GeneratorNeverDies ==
  [][\A sc \in Softcs :
       Active(sc) /\ phase'[sc] = "attached" => Active(sc)']_vars

(* An interface that is quiet while it is destroyed: no output is late, no *)
(* allocation sleeps, and the timeout did not fire within pgen_destroy().  *)
Quiet(sc) == sc \notin Late \cup Sleepy \cup missed

(* When the memory of a quiet interface is released, no timeout, queued    *)
(* task or running task still refers to it, whatever the others do: what   *)
(* is missed by the destruction is missed in one of the three ways above,  *)
(* and in no other.  (pgen_destroy: "release of resources",                *)
(* if_cwnet.c:173.)                                                        *)
TeardownReleases ==
  \A sc \in Softcs : Quiet(sc) /\ phase[sc] = "freed" => ~Active(sc)

(* No callback ever runs on a quiet interface that is gone, nor reads a    *)
(* link-level address that if_detach() has released.                       *)
NeverFaults == \A sc \in Softcs : Quiet(sc) => fault # sc

(* pgen_destroy() is for the "release of resources" (if_cwnet.c:173, in    *)
(* Russian): no destroyed interface, quiet or not, leaves a timeout or a   *)
(* task behind.                                                            *)
TasksAreCancelled ==
  \A sc \in Softcs : phase[sc] = "freed" => ~Active(sc)

(* A pending timeout leads to a packet, unless output starts the drain     *)
(* loop (and so pushes the timeout a second ahead) or the interface is     *)
(* destroyed first.                                                        *)
GeneratorProgress ==
  \A sc \in Softcs :
    left[sc] # Off ~> \/ current = sc
                     \/ sc \in draining
                     \/ phase[sc] # "attached"
                     \/ ~Alive
==============================================================================
