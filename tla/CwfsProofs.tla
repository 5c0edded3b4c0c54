----------------------------- MODULE CwfsProofs -----------------------------
(***************************************************************************)
(* Proofs about Cwfs, for any finite sets of mount points and vnodes, any  *)
(* set of processes, either build, and whichever of the mounts may have    *)
(* file handle lookups race with their unmounting.                         *)
(***************************************************************************)
EXTENDS Cwfs, FiniteSetTheorems, TLAPS

-----------------------------------------------------------------------------
(* Type correctness.  A vget in progress names its mount, and a vnode once *)
(* it has one; without this the vnodes being filled in could not be told   *)
(* apart.                                                                  *)

CallsOK ==
  \A p \in Procs :
    /\ call[p].pc # "idle" => call[p].m \in Mounts /\ call[p].i \in Inos
    /\ call[p].pc = "fill" => call[p].v \in Vnodes
    /\ call[p].pc # "fill" => call[p].v = NoVnode

TypeInv == TypeOK /\ CallsOK

LEMMA TypeInit == Init => TypeInv
<1> SUFFICES ASSUME Init PROVE TypeInv
  OBVIOUS
<1>1. Idle \in Calls
  BY DEF Idle, Calls
<1>2. CallsOK
  BY DEF Init, CallsOK, Idle
<1>3. realDevice \in BOOLEAN
  BY BuildAssumption DEF Init
<1>4. use \in [Vnodes -> 0..MaxUse]
  BY NumberAssumption DEF Init
<1>5. call \in [Procs -> Calls]
  BY <1>1 DEF Init
<1>6. /\ mnt \in [Mounts -> MountStates]
      /\ vmount \in [Vnodes -> Mounts \cup {NoMount}]
      /\ ino \in [Vnodes -> Inos \cup {NoNode}]
      /\ owner \in [Vnodes -> Procs \cup {NoProc}]
  BY DEF Init, MountStates
<1>7. devUse \in Int /\ named \subseteq Vnodes
  BY DEF Init
<1>9. fault \in Mounts \cup {NoMount}
  BY DEF Init
<1>8. specmp \in Mounts \cup {NoMount}
  BY DEF Init
<1> QED BY <1>2, <1>3, <1>4, <1>5, <1>6, <1>7, <1>8, <1>9
        DEF TypeInv, TypeOK

LEMMA StaleCall ==
  ASSUME NEW c \in Calls
  PROVE  /\ [c EXCEPT !.cwmp = FALSE] \in Calls
         /\ [c EXCEPT !.cwmp = FALSE].pc = c.pc
         /\ [c EXCEPT !.cwmp = FALSE].m = c.m
         /\ [c EXCEPT !.cwmp = FALSE].i = c.i
         /\ [c EXCEPT !.cwmp = FALSE].v = c.v
BY DEF Calls

LEMMA TypeStep == TypeInv /\ [Next]_vars => TypeInv'
<1> SUFFICES ASSUME TypeInv, [Next]_vars PROVE TypeInv'
  OBVIOUS
<1> USE SentinelAssumption, NumberAssumption, FiniteAssumption
    DEF TypeInv, TypeOK, CallsOK, MountStates, NoNode,
        mountVars, vnodeVars
<1>1. ASSUME NEW m \in Mounts, MountOps(m) PROVE TypeInv'
  <2>1. CASE CwfsMount(m)
    BY <2>1 DEF CwfsMount
  <2>2. CASE CwfsMountfs(m)
    BY <2>2 DEF CwfsMountfs
  <2>3. CASE MountfsNullDevice(m) \/ FlushRawVnode(m)
    BY <2>3 DEF MountfsNullDevice, FlushRawVnode, Panic
  <2>4. ASSUME NEW force \in BOOLEAN, CwfsUnmount(m, force) PROVE TypeInv'
    <3>1. Cardinality({v \in On(m) : ino[v] # NoNode}) \in Int
      <4>1. IsFiniteSet({v \in On(m) : ino[v] # NoNode})
        BY FS_Subset DEF On
      <4> QED BY <4>1, FS_CardinalityType
    <3> QED BY <2>4, <3>1 DEF CwfsUnmount, Reclaim
  <2>5. CASE CwfsUnmountDone(m)
    <3>1. \A p \in Procs :
            /\ call'[p].pc = call[p].pc /\ call'[p].m = call[p].m
            /\ call'[p].i = call[p].i /\ call'[p].v = call[p].v
            /\ call'[p] \in Calls
      BY <2>5, StaleCall DEF CwfsUnmountDone
    <3> QED BY <2>5, <3>1 DEF CwfsUnmountDone
  <2> QED BY <1>1, <2>1, <2>2, <2>3, <2>4, <2>5 DEF MountOps
<1>2. ASSUME NEW p \in Procs, VgetOps(p) PROVE TypeInv'
  <2>1. ASSUME NEW m \in Mounts, NEW i \in Inos, NEW busy \in BOOLEAN,
               VgetStart(p, m, i, busy)
        PROVE  TypeInv'
    <3>1. /\ call'[p] = [pc |-> "alloc", m |-> m, i |-> i, v |-> NoVnode,
                         busy |-> busy, cwmp |-> TRUE]
          /\ call'[p] \in Calls
      BY <2>1 DEF VgetStart, Calls
    <3> QED BY <2>1, <3>1 DEF VgetStart
  <2>2. ASSUME NEW m \in Mounts, CwfsRoot(p, m) PROVE TypeInv'
    BY <2>1, <2>2 DEF CwfsRoot, RootIno
  <2>3. ASSUME NEW m \in Mounts, NEW i \in Inos, CwfsFhtovp(p, m, i)
        PROVE  TypeInv'
    BY <2>1, <2>3, BuildAssumption DEF CwfsFhtovp
  <2>4. ASSUME NEW v \in Vnodes, VgetNewVnode(p, v) PROVE TypeInv'
    BY <2>4 DEF VgetNewVnode, Calls
  <2>5. CASE VgetFails(p)
    BY <2>5 DEF VgetFails, Idle, Calls
  <2>6. CASE VgetFill(p)
    BY <2>6 DEF VgetFill, Idle, Calls
  <2>7. CASE VgetFillStale(p)
    BY <2>7 DEF VgetFillStale, Panic
  <2> QED BY <1>2, <2>2, <2>3, <2>4, <2>5, <2>6, <2>7 DEF VgetOps
<1>3. ASSUME NEW v \in Vnodes, VnodeOps(v) PROVE TypeInv'
  <2>1. CASE Vref(v)
    BY <2>1 DEF Vref
  <2>2. CASE Vrele(v)
    BY <2>2 DEF Vrele, Returned
  <2>3. CASE CwfsInactive(v)
    <3>1. Cardinality({w \in {v} : ino[w] # NoNode}) \in Int
      <4>1. IsFiniteSet({w \in {v} : ino[w] # NoNode})
        BY FS_Subset
      <4> QED BY <4>1, FS_CardinalityType
    <3> QED BY <2>3, <3>1 DEF CwfsInactive, Reclaim
  <2>4. CASE CwfsLookup(v)
    BY <2>4 DEF CwfsLookup
  <2>5. ASSUME NEW p \in Procs, CwfsLock(p, v) \/ CwfsUnlock(p, v)
        PROVE  TypeInv'
    BY <2>5 DEF CwfsLock, CwfsUnlock
  <2> QED BY <1>3, <2>1, <2>2, <2>3, <2>4, <2>5 DEF VnodeOps
<1>4. CASE UNCHANGED vars
  BY <1>4 DEF vars
<1> QED BY <1>1, <1>2, <1>3, <1>4 DEF Next

(* The variables of the mounts, vnodes and calls always have their types.  *)
THEOREM TypeCorrect == Spec => []TypeOK
<1>1. TypeInv => TypeOK
  BY DEF TypeInv
<1> QED BY <1>1, TypeInit, TypeStep, PTL DEF Spec

-----------------------------------------------------------------------------
(* The life of a vnode.  FillIsPrivate, NoUnusedNodes and DeadIsForgotten  *)
(* are inductive only together: that a node appears on a vnode in use      *)
(* needs the vnode being filled in to be nobody else's.                    *)

(* A vnode being filled in belongs to one process, and has no node yet.    *)
FillIsPrivate ==
  \A p \in Procs : call[p].pc = "fill" =>
    /\ use[call[p].v] = 1 /\ ino[call[p].v] = NoNode
    /\ \A q \in Procs \ {p} : call[q].v # call[p].v

VnodeInv == FillIsPrivate /\ NoUnusedNodes /\ DeadIsForgotten

LEMMA VnodeStep == TypeInv /\ VnodeInv /\ [Next]_vars => VnodeInv'
<1> SUFFICES ASSUME TypeInv, VnodeInv, [Next]_vars PROVE VnodeInv'
  OBVIOUS
<1> USE SentinelAssumption, NumberAssumption
    DEF TypeInv, TypeOK, CallsOK, VnodeInv, FillIsPrivate, NoUnusedNodes,
        DeadIsForgotten, NoNode, mountVars, vnodeVars
<1>1. ASSUME NEW m \in Mounts, MountOps(m) PROVE VnodeInv'
  <2>1. CASE CwfsMount(m) \/ CwfsMountfs(m)
    BY <2>1 DEF CwfsMount, CwfsMountfs
  <2>2. CASE MountfsNullDevice(m) \/ FlushRawVnode(m)
    BY <2>2 DEF MountfsNullDevice, FlushRawVnode, Panic
  <2>3. ASSUME NEW force \in BOOLEAN, CwfsUnmount(m, force) PROVE VnodeInv'
    BY <2>3 DEF CwfsUnmount, Reclaim, On
  <2>4. CASE CwfsUnmountDone(m)
    <3>1. \A p \in Procs : call'[p].pc = call[p].pc /\ call'[p].v = call[p].v
      BY <2>4, StaleCall DEF CwfsUnmountDone
    <3> QED BY <2>4, <3>1 DEF CwfsUnmountDone
  <2> QED BY <1>1, <2>1, <2>2, <2>3, <2>4 DEF MountOps
<1>2. ASSUME NEW p \in Procs, VgetOps(p) PROVE VnodeInv'
  <2>1. ASSUME NEW m \in Mounts, NEW i, NEW busy, VgetStart(p, m, i, busy)
        PROVE  VnodeInv'
    BY <2>1 DEF VgetStart
  <2>2. ASSUME NEW m \in Mounts, CwfsRoot(p, m) PROVE VnodeInv'
    BY <2>1, <2>2 DEF CwfsRoot
  <2>3. ASSUME NEW m \in Mounts, NEW i \in Inos, CwfsFhtovp(p, m, i)
        PROVE  VnodeInv'
    BY <2>1, <2>3 DEF CwfsFhtovp
  <2>4. ASSUME NEW v \in Vnodes, VgetNewVnode(p, v) PROVE VnodeInv'
    <3>1. /\ call'[p].pc = "fill" /\ call'[p].v = v
          /\ \A q \in Procs \ {p} : call'[q] = call[q]
      BY <2>4 DEF VgetNewVnode, Calls
    <3> QED BY <2>4, <3>1 DEF VgetNewVnode
  <2>5. CASE VgetFails(p)
    BY <2>5 DEF VgetFails, Idle
  <2>6. CASE VgetFill(p)
    <3>1. use[call[p].v] = 1 /\ call[p].v \in Vnodes
      BY <2>6 DEF VgetFill
    <3> QED BY <2>6, <3>1 DEF VgetFill, Idle
  <2>7. CASE VgetFillStale(p)
    BY <2>7 DEF VgetFillStale, Panic
  <2> QED BY <1>2, <2>2, <2>3, <2>4, <2>5, <2>6, <2>7 DEF VgetOps
<1>3. ASSUME NEW v \in Vnodes, VnodeOps(v) PROVE VnodeInv'
  <2>1. CASE Vref(v)
    BY <2>1 DEF Vref, Returned
  <2>2. CASE Vrele(v)
    BY <2>2 DEF Vrele, Returned
  <2>3. CASE CwfsInactive(v)
    BY <2>3 DEF CwfsInactive, Reclaim, Returned
  <2>4. CASE CwfsLookup(v)
    BY <2>4 DEF CwfsLookup
  <2>5. ASSUME NEW p \in Procs, CwfsLock(p, v) \/ CwfsUnlock(p, v)
        PROVE  VnodeInv'
    BY <2>5 DEF CwfsLock, CwfsUnlock
  <2> QED BY <1>3, <2>1, <2>2, <2>3, <2>4, <2>5 DEF VnodeOps
<1>4. CASE UNCHANGED vars
  BY <1>4 DEF vars
<1> QED BY <1>1, <1>2, <1>3, <1>4 DEF Next

LEMMA VnodeInit == Init => VnodeInv
BY DEF Init, VnodeInv, FillIsPrivate, NoUnusedNodes, DeadIsForgotten, Idle

LEMMA VnodeAlways == Spec => [](TypeInv /\ VnodeInv)
BY TypeInit, TypeStep, VnodeInit, VnodeStep, PTL DEF Spec

(* A node never outlives its last user.                                    *)
THEOREM NodesAreUsed == Spec => []NoUnusedNodes
BY VnodeAlways, PTL DEF VnodeInv

(* A vnode that cwfs no longer owns is neither cached nor locked.          *)
THEOREM DeadAreForgotten == Spec => []DeadIsForgotten
BY VnodeAlways, PTL DEF VnodeInv

-----------------------------------------------------------------------------
(* References to the device vnode.                                         *)

(* A kernel built without a device never gets as far as a mounted file     *)
(* system, so none of its vnodes ever exists.                              *)
NoDeviceInv ==
  ~realDevice =>
    /\ \A m \in Mounts : mnt[m] \in {"none", "naming"}
    /\ \A p \in Procs : call[p].pc = "idle"
    /\ Nodes = {}

RefsInv == NoDeviceInv /\ DevRefsAccounted

(* What cwfs_reclaim() of a set of vnodes does to the count.               *)
LEMMA ReclaimCounts ==
  ASSUME TypeInv, NEW V \in SUBSET Vnodes, Reclaim(V)
  PROVE  /\ Nodes' \subseteq Nodes
         /\ Cardinality(Nodes) \in Nat /\ Cardinality(Nodes') \in Nat
         /\ devUse' - Cardinality(Nodes') = devUse - Cardinality(Nodes)
<1>1. Nodes' = Nodes \ V
  BY DEF Reclaim, Nodes, TypeInv, TypeOK
<1>2. {v \in V : ino[v] # NoNode} = Nodes \cap V
  BY DEF Nodes
<1>3. IsFiniteSet(Nodes) /\ IsFiniteSet(Nodes')
  BY FiniteAssumption, FS_Subset DEF Nodes
<1>4. Cardinality(Nodes \ V) = Cardinality(Nodes) - Cardinality(Nodes \cap V)
  BY <1>3, FS_Difference
<1>5. IsFiniteSet(Nodes \cap V)
  BY <1>3, FS_Subset
<1>6. /\ Cardinality(Nodes) \in Nat /\ Cardinality(Nodes') \in Nat
      /\ Cardinality(Nodes \cap V) \in Nat
  BY <1>3, <1>5, FS_CardinalityType
<1>7. devUse' = devUse - Cardinality(Nodes \cap V) /\ devUse \in Int
  BY <1>2 DEF Reclaim, TypeInv, TypeOK
<1>8. Cardinality(Nodes') = Cardinality(Nodes) - Cardinality(Nodes \cap V)
  BY <1>1, <1>4
<1>9. Nodes' \subseteq Nodes
  BY <1>1
<1> QED BY <1>6, <1>7, <1>8, <1>9

LEMMA CountsAreNumbers ==
  /\ IsFiniteSet(Naming) /\ Cardinality(Naming) \in Nat
  /\ IsFiniteSet(Nodes) /\ Cardinality(Nodes) \in Nat
<1>1. IsFiniteSet(Naming) /\ IsFiniteSet(Nodes)
  BY FiniteAssumption, FS_Subset DEF Naming, Nodes
<1> QED BY <1>1, FS_CardinalityType

LEMMA RefsStep ==
  TypeInv /\ VnodeInv /\ RefsInv /\ [Next]_vars => RefsInv'
<1> SUFFICES ASSUME TypeInv, VnodeInv, RefsInv, [Next]_vars PROVE RefsInv'
  OBVIOUS
<1> USE CountsAreNumbers DEF RefsInv, NoDeviceInv, DevRefsAccounted
<1> DEFINE Same == Naming' = Naming /\ Nodes' = Nodes
<1>1. ASSUME NEW m \in Mounts, MountOps(m) PROVE RefsInv'
  <2> USE DEF TypeInv, TypeOK, mountVars, vnodeVars
  <2>1. CASE CwfsMount(m)
    <3>1. Naming' = Naming \cup {m} /\ m \notin Naming /\ Nodes' = Nodes
      BY <2>1 DEF CwfsMount, Naming, Nodes, MountStates
    <3>2. Cardinality(Naming') = Cardinality(Naming) + 1
      BY <3>1, FS_AddElement
    <3> QED BY <2>1, <3>1, <3>2 DEF CwfsMount
  <2>2. CASE CwfsMountfs(m)
    <3>1. Same
      BY <2>2 DEF CwfsMountfs, Naming, Nodes
    <3> QED BY <2>2, <3>1 DEF CwfsMountfs
  <2>3. CASE MountfsNullDevice(m) \/ FlushRawVnode(m)
    <3>1. Same
      BY <2>3 DEF MountfsNullDevice, FlushRawVnode, Panic, Naming, Nodes
    <3> QED BY <2>3, <3>1 DEF MountfsNullDevice, FlushRawVnode, Panic
  <2>4. ASSUME NEW force \in BOOLEAN, CwfsUnmount(m, force) PROVE RefsInv'
    <3>1. Naming' = Naming /\ realDevice /\ realDevice' = realDevice
      BY <2>4 DEF CwfsUnmount, Naming
    <3>2. /\ Cardinality(Nodes') \in Nat
          /\ devUse' - Cardinality(Nodes') = devUse - Cardinality(Nodes)
      BY <2>4, ReclaimCounts DEF CwfsUnmount, On
    <3>3. devUse' \in Int
      BY <2>4, TypeStep
    <3>4. devUse' = Cardinality(Naming) + Cardinality(Nodes')
      BY <3>1, <3>2, <3>3
    <3> QED BY <3>1, <3>4
  <2>5. CASE CwfsUnmountDone(m)
    <3>1. Naming' = Naming \ {m} /\ m \in Naming /\ Nodes' = Nodes
      BY <2>5 DEF CwfsUnmountDone, Naming, Nodes
    <3>2. Cardinality(Naming') = Cardinality(Naming) - 1
      BY <3>1, FS_RemoveElement
    <3> QED BY <2>5, <3>1, <3>2 DEF CwfsUnmountDone
  <2> QED BY <1>1, <2>1, <2>2, <2>3, <2>4, <2>5 DEF MountOps
<1>2. ASSUME NEW p \in Procs, VgetOps(p) PROVE RefsInv'
  <2> USE DEF TypeInv, TypeOK, mountVars, vnodeVars
  <2>1. ASSUME NEW m \in Mounts, NEW i, NEW busy, VgetStart(p, m, i, busy)
        PROVE  RefsInv'
    <3>1. Same /\ realDevice
      BY <2>1 DEF VgetStart, Naming, Nodes
    <3> QED BY <2>1, <3>1 DEF VgetStart
  <2>2. ASSUME NEW m \in Mounts, CwfsRoot(p, m) PROVE RefsInv'
    BY <2>1, <2>2 DEF CwfsRoot
  <2>3. ASSUME NEW m \in Mounts, NEW i \in Inos, CwfsFhtovp(p, m, i)
        PROVE  RefsInv'
    BY <2>1, <2>3 DEF CwfsFhtovp
  <2>4. ASSUME NEW v \in Vnodes, VgetNewVnode(p, v) PROVE RefsInv'
    <3>1. Same /\ realDevice
      BY <2>4 DEF VgetNewVnode, Naming, Nodes
    <3> QED BY <2>4, <3>1 DEF VgetNewVnode
  <2>5. CASE VgetFails(p)
    <3>1. Same /\ realDevice
      BY <2>5 DEF VgetFails, Naming, Nodes
    <3> QED BY <2>5, <3>1 DEF VgetFails
  <2>6. CASE VgetFill(p)
    <3>1. Naming' = Naming /\ realDevice /\ realDevice' = realDevice
      BY <2>6 DEF VgetFill, Naming
    <3>2. Nodes' = Nodes \cup {call[p].v} /\ call[p].v \notin Nodes
      BY <2>6, NumberAssumption
      DEF VgetFill, Nodes, CallsOK, VnodeInv, FillIsPrivate, NoNode
    <3>3. Cardinality(Nodes') = Cardinality(Nodes) + 1
      BY <3>2, FS_AddElement
    <3> QED BY <2>6, <3>1, <3>3 DEF VgetFill
  <2>7. CASE VgetFillStale(p)
    <3>1. Same
      BY <2>7 DEF VgetFillStale, Panic, Naming, Nodes
    <3> QED BY <2>7, <3>1 DEF VgetFillStale, Panic
  <2> QED BY <1>2, <2>2, <2>3, <2>4, <2>5, <2>6, <2>7 DEF VgetOps
<1>3. ASSUME NEW v \in Vnodes, VnodeOps(v) PROVE RefsInv'
  <2> USE DEF mountVars, vnodeVars
  <2>1. CASE Vref(v) \/ Vrele(v) \/ CwfsLookup(v)
    <3>1. Same /\ UNCHANGED <<mnt, call, realDevice, devUse>>
      BY <2>1 DEF Vref, Vrele, CwfsLookup, Naming, Nodes
    <3> QED BY <3>1
  <2>2. CASE CwfsInactive(v)
    <3>1. Naming' = Naming /\ UNCHANGED <<mnt, call, realDevice>>
      BY <2>2 DEF CwfsInactive, Naming
    <3>2. realDevice
      BY <2>2 DEF CwfsInactive, Nodes
    <3>3. /\ Cardinality(Nodes') \in Nat
          /\ devUse' - Cardinality(Nodes') = devUse - Cardinality(Nodes)
      BY <2>2, ReclaimCounts DEF CwfsInactive
    <3>4. devUse' \in Int /\ devUse \in Int
      BY <2>2, TypeStep DEF TypeInv, TypeOK
    <3>5. devUse' = Cardinality(Naming) + Cardinality(Nodes')
      BY <3>2, <3>3, <3>4
    <3> QED BY <3>1, <3>2, <3>5
  <2>3. ASSUME NEW p \in Procs, CwfsLock(p, v) \/ CwfsUnlock(p, v)
        PROVE  RefsInv'
    <3>1. Same /\ UNCHANGED <<mnt, call, realDevice, devUse>>
      BY <2>3 DEF CwfsLock, CwfsUnlock, Naming, Nodes
    <3> QED BY <3>1
  <2> QED BY <1>3, <2>1, <2>2, <2>3 DEF VnodeOps
<1>4. CASE UNCHANGED vars
  <2>1. Same /\ UNCHANGED <<mnt, call, realDevice, devUse>>
    BY <1>4 DEF vars, mountVars, vnodeVars, Naming, Nodes
  <2> QED BY <2>1
<1> QED BY <1>1, <1>2, <1>3, <1>4 DEF Next

LEMMA RefsInit == Init => RefsInv
<1> SUFFICES ASSUME Init PROVE RefsInv
  OBVIOUS
<1>1. Naming = {} /\ Nodes = {}
  BY DEF Init, Naming, Nodes
<1>2. Cardinality(Naming) = 0 /\ Cardinality(Nodes) = 0
  BY <1>1, FS_EmptySet
<1> QED BY <1>1, <1>2 DEF Init, RefsInv, NoDeviceInv, DevRefsAccounted, Idle

(* No reference to the device vnode is ever lost or dropped twice.         *)
THEOREM DeviceRefs == Spec => []DevRefsAccounted
<1>1. Spec => []RefsInv
  BY VnodeAlways, RefsInit, RefsStep, PTL DEF Spec
<1>2. RefsInv => DevRefsAccounted
  BY DEF RefsInv
<1> QED BY <1>1, <1>2, PTL

-----------------------------------------------------------------------------
(* The mark on the device, and mounts that every vget keeps busy.          *)

LEMMA MarkStep == TypeInv /\ MarkIsLive /\ [Next]_vars => MarkIsLive'
<1> SUFFICES ASSUME TypeInv, MarkIsLive, [Next]_vars PROVE MarkIsLive'
  OBVIOUS
<1> USE SentinelAssumption
    DEF TypeInv, TypeOK, MarkIsLive, mountVars, vnodeVars
<1>1. ASSUME NEW m \in Mounts, MountOps(m) PROVE MarkIsLive'
  <2>1. CASE CwfsMount(m) \/ CwfsMountfs(m)
    BY <2>1 DEF CwfsMount, CwfsMountfs
  <2>2. CASE MountfsNullDevice(m) \/ FlushRawVnode(m)
    BY <2>2 DEF MountfsNullDevice, FlushRawVnode, Panic
  <2>3. ASSUME NEW force \in BOOLEAN, CwfsUnmount(m, force)
        PROVE  MarkIsLive'
    BY <2>3 DEF CwfsUnmount
  <2>4. CASE CwfsUnmountDone(m)
    BY <2>4 DEF CwfsUnmountDone
  <2> QED BY <1>1, <2>1, <2>2, <2>3, <2>4 DEF MountOps
<1>2. ASSUME NEW p \in Procs, VgetOps(p) PROVE MarkIsLive'
  BY <1>2 DEF VgetOps, CwfsRoot, CwfsFhtovp, VgetStart, VgetNewVnode,
              VgetFails, VgetFill, VgetFillStale, Panic
<1>3. ASSUME NEW v \in Vnodes, VnodeOps(v) PROVE MarkIsLive'
  BY <1>3 DEF VnodeOps, Vref, Vrele, CwfsInactive, CwfsLookup, CwfsLock,
              CwfsUnlock
<1>4. CASE UNCHANGED vars
  BY <1>4 DEF vars
<1> QED BY <1>1, <1>2, <1>3, <1>4 DEF Next

(* The device's mark never names a mount point that is gone.               *)
THEOREM MarkedIsLive == Spec => []MarkIsLive
<1>1. Init => MarkIsLive
  BY DEF Init, MarkIsLive
<1> QED BY <1>1, TypeInit, TypeStep, MarkStep, PTL DEF Spec

(* Of a mount that every vget keeps busy: while one is under way the file  *)
(* system is mounted and its cwfs_mnt allocated, and a vnode on its list   *)
(* without a node is being filled in on its behalf.                        *)
KeptBusy ==
  \A m \in Mounts \ Raced :
    /\ \A p \in Procs : call[p].m = m =>
         mnt[m] = "mounted" /\ call[p].busy /\ call[p].cwmp
    /\ \A v \in Vnodes : vmount[v] = m =>
         /\ mnt[m] = "mounted"
         /\ ino[v] # NoNode \/ \E p \in Procs :
              call[p].pc = "fill" /\ call[p].v = v /\ call[p].m = m

FaultInv == KeptBusy /\ NeverFaults

LEMMA FaultStep ==
  TypeInv /\ VnodeInv /\ FaultInv /\ [Next]_vars => FaultInv'
<1> SUFFICES ASSUME TypeInv, VnodeInv, FaultInv, [Next]_vars PROVE FaultInv'
  OBVIOUS
<1> USE SentinelAssumption, NumberAssumption, BuildAssumption
    DEF TypeInv, TypeOK, CallsOK, FaultInv, KeptBusy, NeverFaults, NoNode,
        mountVars, vnodeVars
<1>1. ASSUME NEW m \in Mounts, MountOps(m) PROVE FaultInv'
  <2>1. CASE CwfsMount(m) \/ CwfsMountfs(m)
    BY <2>1 DEF CwfsMount, CwfsMountfs
  <2>2. CASE MountfsNullDevice(m)
    BY <2>2 DEF MountfsNullDevice, Panic
  <2>3. CASE FlushRawVnode(m)
    <3>1. m \in Raced
      BY <2>3 DEF FlushRawVnode, On, Busy
    <3> QED BY <2>3, <3>1 DEF FlushRawVnode, Panic
  <2>4. ASSUME NEW force \in BOOLEAN, CwfsUnmount(m, force) PROVE FaultInv'
    <3>1. m \notin Raced => \A p \in Procs : call[p].m # m
      BY <2>4 DEF CwfsUnmount, Busy
    <3> QED BY <2>4, <3>1 DEF CwfsUnmount, Reclaim, On
  <2>5. CASE CwfsUnmountDone(m)
    <3>1. \A p \in Procs :
            /\ call'[p].pc = call[p].pc /\ call'[p].m = call[p].m
            /\ call'[p].v = call[p].v
            /\ call[p].m # m => call'[p] = call[p]
      BY <2>5, StaleCall DEF CwfsUnmountDone
    <3>2. m \notin Raced =>
            /\ \A p \in Procs : call[p].m # m
            /\ \A v \in Vnodes : vmount[v] # m
      BY <2>5 DEF CwfsUnmountDone
    <3> QED BY <2>5, <3>1, <3>2 DEF CwfsUnmountDone
  <2> QED BY <1>1, <2>1, <2>2, <2>3, <2>4, <2>5 DEF MountOps
<1>2. ASSUME NEW p \in Procs, VgetOps(p) PROVE FaultInv'
  <2>1. ASSUME NEW m \in Mounts, NEW i \in Inos, NEW busy \in BOOLEAN,
               VgetStart(p, m, i, busy), m \in Raced \/ busy
        PROVE  FaultInv'
    <3>1. /\ call'[p].m = m /\ call'[p].cwmp /\ call'[p].busy = busy
          /\ call[p].pc # "fill"
          /\ \A q \in Procs \ {p} : call'[q] = call[q]
      BY <2>1 DEF VgetStart, Calls
    <3>2. m \notin Raced => mnt[m] = "mounted" /\ busy
      BY <2>1 DEF VgetStart
    <3> QED BY <2>1, <3>1, <3>2 DEF VgetStart
  <2>2. ASSUME NEW m \in Mounts, CwfsRoot(p, m) PROVE FaultInv'
    BY <2>1, <2>2 DEF CwfsRoot, RootIno
  <2>3. ASSUME NEW m \in Mounts, NEW i \in Inos, CwfsFhtovp(p, m, i)
        PROVE  FaultInv'
    BY <2>1, <2>3 DEF CwfsFhtovp
  <2>4. ASSUME NEW v \in Vnodes, VgetNewVnode(p, v) PROVE FaultInv'
    <3>1. /\ call'[p].pc = "fill" /\ call'[p].v = v
          /\ call'[p].m = call[p].m /\ call'[p].busy = call[p].busy
          /\ call'[p].cwmp = call[p].cwmp
          /\ call[p].pc # "fill"
          /\ \A q \in Procs \ {p} : call'[q] = call[q]
      BY <2>4 DEF VgetNewVnode, Calls
    <3> QED BY <2>4, <3>1 DEF VgetNewVnode
  <2>5. CASE VgetFails(p)
    BY <2>5 DEF VgetFails, Idle
  <2>6. CASE VgetFill(p)
    <3>1. /\ call'[p].m = NoMount /\ call[p].v \in Vnodes
          /\ \A q \in Procs \ {p} : call'[q] = call[q]
      BY <2>6 DEF VgetFill, Idle
    <3> QED BY <2>6, <3>1 DEF VgetFill
  <2>7. CASE VgetFillStale(p)
    <3>1. call[p].m \in Raced
      BY <2>7 DEF VgetFillStale
    <3> QED BY <2>7, <3>1 DEF VgetFillStale, Panic
  <2> QED BY <1>2, <2>2, <2>3, <2>4, <2>5, <2>6, <2>7 DEF VgetOps
<1>3. ASSUME NEW v \in Vnodes, VnodeOps(v) PROVE FaultInv'
  <2>1. CASE CwfsInactive(v)
    BY <2>1 DEF CwfsInactive, Reclaim
  <2>2. CASE Vref(v) \/ Vrele(v) \/ CwfsLookup(v)
    BY <2>2 DEF Vref, Vrele, CwfsLookup
  <2>3. ASSUME NEW p \in Procs, CwfsLock(p, v) \/ CwfsUnlock(p, v)
        PROVE  FaultInv'
    BY <2>3 DEF CwfsLock, CwfsUnlock
  <2> QED BY <1>3, <2>1, <2>2, <2>3 DEF VnodeOps
<1>4. CASE UNCHANGED vars
  BY <1>4 DEF vars
<1> QED BY <1>1, <1>2, <1>3, <1>4 DEF Next

LEMMA FaultAlways == Spec => []FaultInv
<1>1. Init => FaultInv
  BY SentinelAssumption
  DEF Init, FaultInv, KeptBusy, NeverFaults, Idle
<1> QED BY <1>1, VnodeAlways, FaultStep, PTL DEF Spec

(* An unmounted file system leaves no vnode behind, if every vget kept its *)
(* mount point busy.                                                       *)
THEOREM UnmountedHasNone == Spec => []UnmountedIsEmpty
<1>1. FaultInv => UnmountedIsEmpty
  BY DEF FaultInv, KeptBusy, UnmountedIsEmpty, On
<1> QED BY <1>1, FaultAlways, PTL

(* Nothing bad is followed or read on behalf of such a mount.              *)
THEOREM FaultFree == Spec => []NeverFaults
<1>1. FaultInv => NeverFaults
  BY DEF FaultInv
<1> QED BY <1>1, FaultAlways, PTL

-----------------------------------------------------------------------------
(* The life of vnodes: every step of cwfs is a step of VnodeLife or leaves *)
(* all vnodes where they are in it.                                        *)

LEMMA StageIs ==
  ASSUME NEW v \in Vnodes
  PROVE  /\ use[v] = 0 => Stage[v] = "free"
         /\ use[v] > 0 /\ Filling(v) => Stage[v] = "making"
         /\ use[v] > 0 /\ ~Filling(v) /\ ino[v] # NoNode => Stage[v] = "live"
         /\ use[v] > 0 /\ ~Filling(v) /\ ino[v] = NoNode => Stage[v] = "dead"
         /\ use'[v] = 0 => Stage'[v] = "free"
         /\ use'[v] > 0 /\ Filling(v)' => Stage'[v] = "making"
         /\ use'[v] > 0 /\ ~Filling(v)' /\ ino'[v] # NoNode
              => Stage'[v] = "live"
         /\ use'[v] > 0 /\ ~Filling(v)' /\ ino'[v] = NoNode
              => Stage'[v] = "dead"
BY DEF Stage

LEMMA StageFunction ==
  /\ Stage = [v \in Vnodes |-> Stage[v]]
  /\ Stage' = [v \in Vnodes |-> Stage'[v]]
BY DEF Stage

(* What does not change a vnode's users, its maker or whether it has a     *)
(* node leaves it where it is.                                             *)
LEMMA StageStays ==
  ASSUME TypeInv, NEW v \in Vnodes, use'[v] = use[v],
         Filling(v)' <=> Filling(v),
         (ino'[v] = NoNode) <=> (ino[v] = NoNode)
  PROVE  Stage'[v] = Stage[v]
<1>1. use[v] = 0 \/ use[v] > 0
  BY NumberAssumption DEF TypeInv, TypeOK
<1> QED BY <1>1, StageIs

LEMMA StagesStay ==
  ASSUME TypeInv, use' = use, ino' = ino,
         \A v \in Vnodes : Filling(v)' <=> Filling(v)
  PROVE  UNCHANGED Life!lifeVars
<1>1. \A v \in Vnodes : Stage'[v] = Stage[v]
  BY StageStays
<1>2. Stage' = Stage
  BY <1>1, StageFunction
<1> QED BY <1>2 DEF Life!lifeVars

(* A vnode that has been returned by vget is nobody's to make.             *)
LEMMA ReturnedIsMade ==
  ASSUME TypeInv, NEW v \in Vnodes, Returned(v)
  PROVE  /\ ~Filling(v)
         /\ Stage[v] = IF ino[v] = NoNode THEN "dead" ELSE "live"
<1>1. ~Filling(v)
  BY DEF Returned, Filling
<1>2. use[v] > 0
  BY DEF Returned
<1> QED BY <1>1, <1>2, StageIs

LEMMA LifeStep ==
  TypeInv /\ VnodeInv /\ [Next]_vars => [Life!Next]_(Life!lifeVars)
<1> SUFFICES ASSUME TypeInv, VnodeInv, [Next]_vars
             PROVE  Life!Next \/ UNCHANGED Life!lifeVars
  OBVIOUS
<1> DEFINE Goal == Life!Next \/ UNCHANGED Life!lifeVars
<1> USE DEF mountVars, vnodeVars
<1>1. ASSUME NEW m \in Mounts, MountOps(m) PROVE Goal
  <2>1. CASE CwfsMount(m) \/ CwfsMountfs(m)
    BY <2>1, StagesStay DEF CwfsMount, CwfsMountfs, Filling
  <2>2. CASE MountfsNullDevice(m) \/ FlushRawVnode(m)
    BY <2>2, StagesStay DEF MountfsNullDevice, FlushRawVnode, Panic, Filling
  <2>3. ASSUME NEW force \in BOOLEAN, CwfsUnmount(m, force) PROVE Goal
    <3>1. ASSUME NEW v \in On(m)
          PROVE  Stage[v] = "live" /\ Stage'[v] = "dead"
      <4>1. v \in Vnodes /\ ino[v] # NoNode /\ ino'[v] = NoNode
        BY <2>3 DEF CwfsUnmount, Reclaim, On, TypeInv, TypeOK
      <4>2. use[v] > 0 /\ use'[v] > 0
        BY <2>3, <4>1, NumberAssumption
        DEF CwfsUnmount, VnodeInv, NoUnusedNodes, TypeInv, TypeOK
      <4>3. ~Filling(v) /\ ~Filling(v)'
        BY <2>3, <4>1 DEF CwfsUnmount, Filling, VnodeInv, FillIsPrivate
      <4> QED BY <4>1, <4>2, <4>3, StageIs
    <3>2. ASSUME NEW v \in Vnodes \ On(m) PROVE Stage'[v] = Stage[v]
      <4>1. /\ use'[v] = use[v] /\ ino'[v] = ino[v]
            /\ Filling(v)' <=> Filling(v)
        BY <2>3 DEF CwfsUnmount, Reclaim, Filling
      <4> QED BY <4>1, StageStays
    <3>3. On(m) \in SUBSET Vnodes
      BY DEF On
    <3>4. Life!Kill(On(m))
      <4>1. Stage' = [v \in Vnodes |-> IF v \in On(m) THEN "dead"
                                       ELSE Stage[v]]
        BY <3>1, <3>2, StageFunction
      <4>2. use' = use
        BY <2>3 DEF CwfsUnmount
      <4> QED BY <3>1, <4>1, <4>2 DEF Life!Kill
    <3> QED BY <3>3, <3>4 DEF Life!Next
  <2>4. CASE CwfsUnmountDone(m)
    <3>1. \A p \in Procs : call'[p].pc = call[p].pc /\ call'[p].v = call[p].v
      BY <2>4, StaleCall DEF CwfsUnmountDone, TypeInv, TypeOK
    <3>2. \A v \in Vnodes : Filling(v)' <=> Filling(v)
      BY <3>1 DEF Filling
    <3> QED BY <2>4, <3>2, StagesStay DEF CwfsUnmountDone
  <2> QED BY <1>1, <2>1, <2>2, <2>3, <2>4 DEF MountOps
<1>2. ASSUME NEW p \in Procs, VgetOps(p) PROVE Goal
  <2> USE DEF TypeInv, TypeOK, CallsOK
  <2>1. ASSUME NEW m \in Mounts, NEW i, NEW busy, VgetStart(p, m, i, busy)
        PROVE  Goal
    <3>1. \A v \in Vnodes : Filling(v)' <=> Filling(v)
      BY <2>1 DEF VgetStart, Filling
    <3> QED BY <2>1, <3>1, StagesStay DEF VgetStart
  <2>2. ASSUME NEW m \in Mounts, CwfsRoot(p, m) PROVE Goal
    BY <2>1, <2>2 DEF CwfsRoot
  <2>3. ASSUME NEW m \in Mounts, NEW i \in Inos, CwfsFhtovp(p, m, i)
        PROVE  Goal
    BY <2>1, <2>3 DEF CwfsFhtovp
  <2>4. ASSUME NEW v \in Vnodes, VgetNewVnode(p, v) PROVE Goal
    <3>1. /\ call'[p].pc = "fill" /\ call'[p].v = v /\ call[p].pc # "fill"
          /\ \A q \in Procs \ {p} : call'[q] = call[q]
      BY <2>4 DEF VgetNewVnode, Calls
    <3>2. /\ use[v] = 0 /\ use' = [use EXCEPT ![v] = 1] /\ use'[v] > 0
          /\ ino' = ino
      BY <2>4 DEF VgetNewVnode
    <3>3. Filling(v)' /\ \A w \in Vnodes \ {v} : Filling(w)' <=> Filling(w)
      BY <3>1 DEF Filling
    <3>4. Stage[v] = "free" /\ Stage'[v] = "making"
      BY <3>2, <3>3, StageIs
    <3>5. \A w \in Vnodes \ {v} : Stage'[w] = Stage[w]
      BY <3>2, <3>3, StageStays
    <3>6. Stage' = [Stage EXCEPT ![v] = "making"]
      BY <3>4, <3>5, StageFunction
    <3> QED BY <3>2, <3>4, <3>6 DEF Life!Make, Life!Next
  <2>5. CASE VgetFails(p)
    <3>1. \A v \in Vnodes : Filling(v)' <=> Filling(v)
      BY <2>5 DEF VgetFails, Filling, Idle
    <3> QED BY <2>5, <3>1, StagesStay DEF VgetFails
  <2>6. CASE VgetFill(p)
    <3>0. PICK v \in Vnodes : v = call[p].v
      BY <2>6 DEF VgetFill
    <3>1. /\ call[p].pc = "fill" /\ call'[p].pc = "idle"
          /\ call[p].i # NoNode /\ use[v] = 1
          /\ \A q \in Procs \ {p} : call'[q] = call[q] /\ call[q].v # v
      BY <2>6, <3>0, NumberAssumption
      DEF VgetFill, Idle, VnodeInv, FillIsPrivate, NoNode
    <3>2. /\ use' = use
          /\ ino'[v] # NoNode
          /\ \A w \in Vnodes \ {v} : ino'[w] = ino[w]
      BY <2>6, <3>0, <3>1 DEF VgetFill
    <3>3. /\ Filling(v) /\ ~Filling(v)'
          /\ \A w \in Vnodes \ {v} : Filling(w)' <=> Filling(w)
      BY <3>0, <3>1 DEF Filling
    <3>4. Stage[v] = "making" /\ Stage'[v] = "live"
      BY <3>1, <3>2, <3>3, StageIs
    <3>5. \A w \in Vnodes \ {v} : Stage'[w] = Stage[w]
      BY <3>2, <3>3, StageStays
    <3>6. Stage' = [Stage EXCEPT ![v] = "live"]
      BY <3>1, <3>4, <3>5, StageFunction
    <3> QED BY <3>1, <3>2, <3>4, <3>6 DEF Life!Finish, Life!Next
  <2>7. CASE VgetFillStale(p)
    BY <2>7, StagesStay DEF VgetFillStale, Panic, Filling
  <2> QED BY <1>2, <2>2, <2>3, <2>4, <2>5, <2>6, <2>7 DEF VgetOps
<1>3. ASSUME NEW v \in Vnodes, VnodeOps(v) PROVE Goal
  <2> USE DEF TypeInv, TypeOK
  <2>1. CASE Vref(v)
    <3>1. /\ Stage[v] \in {"live", "dead"}
          /\ use' = [use EXCEPT ![v] = @ + 1] /\ use[v] > 0 /\ ino' = ino
          /\ \A w \in Vnodes : Filling(w)' <=> Filling(w)
      BY <2>1, ReturnedIsMade DEF Vref, Filling, Returned
    <3>2. \A w \in Vnodes \ {v} : Stage'[w] = Stage[w]
      BY <3>1, StageStays
    <3>3. Stage'[v] = Stage[v]
      <4>1. use'[v] > 0 /\ ~Filling(v)
        BY <2>1, <3>1, ReturnedIsMade DEF Vref
      <4> QED BY <3>1, <4>1, StageIs
    <3>4. Stage' = Stage
      BY <3>2, <3>3, StageFunction
    <3> QED BY <3>1, <3>4 DEF Life!Share, Life!Next
  <2>2. CASE Vrele(v) \/ CwfsInactive(v)
    <3>1. /\ Returned(v) /\ use[v] > 0
          /\ use' = [use EXCEPT ![v] = @ - 1]
          /\ use[v] > 1 => ino'[v] = ino[v]
          /\ \A w \in Vnodes \ {v} : ino'[w] = ino[w]
          /\ \A w \in Vnodes : Filling(w)' <=> Filling(w)
      BY <2>2 DEF Vrele, CwfsInactive, Reclaim, Returned, Filling
    <3>2. Stage[v] \in {"live", "dead"} /\ ~Filling(v)
      BY <3>1, ReturnedIsMade
    <3>3. \A w \in Vnodes \ {v} : Stage'[w] = Stage[w]
      BY <3>1, StageStays
    <3>4. CASE use[v] = 1
      <4>1. Stage'[v] = "free"
        BY <3>1, <3>4, StageIs
      <4>2. Stage' = [Stage EXCEPT ![v] = "free"]
        BY <3>3, <4>1, StageFunction
      <4> QED BY <3>1, <3>2, <3>4, <4>2 DEF Life!Leave, Life!Next
    <3>5. CASE use[v] # 1
      <4>1. use[v] > 1 /\ use'[v] > 0
        BY <3>1, <3>5
      <4>2. Stage'[v] = Stage[v]
        BY <3>1, <3>2, <4>1, StageIs
      <4>3. Stage' = Stage
        BY <3>3, <4>2, StageFunction
      <4> QED BY <3>1, <3>2, <3>5, <4>3 DEF Life!Leave, Life!Next
    <3> QED BY <3>4, <3>5
  <2>3. CASE CwfsLookup(v)
    BY <2>3, StagesStay DEF CwfsLookup, Filling
  <2>4. ASSUME NEW p \in Procs, CwfsLock(p, v) \/ CwfsUnlock(p, v)
        PROVE  Goal
    BY <2>4, StagesStay DEF CwfsLock, CwfsUnlock, Filling
  <2> QED BY <1>3, <2>1, <2>2, <2>3, <2>4 DEF VnodeOps
<1>4. CASE UNCHANGED vars
  BY <1>4, StagesStay DEF vars, Filling
<1> QED BY <1>1, <1>2, <1>3, <1>4 DEF Next

(* The vnodes of cwfs implement VnodeLife: whatever mounts, lookups and    *)
(* unmounts interleave, a vnode has one maker, is shared only once made,   *)
(* is free only when nobody uses it, and never comes back from the dead.   *)
THEOREM Implements == Spec => LifeSpec
<1>1. Init => Life!Init
  <2> SUFFICES ASSUME Init PROVE Life!Init
    OBVIOUS
  <2>1. \A v \in Vnodes : Stage[v] = "free"
    BY StageIs DEF Init
  <2> QED BY <2>1, StageFunction DEF Init, Life!Init
<1> QED BY <1>1, VnodeAlways, LifeStep, PTL DEF Spec, LifeSpec, Life!Spec

-----------------------------------------------------------------------------
(* When MountNeverPanics holds.  Whether there is a device is decided once *)
(* and for all, by the build.                                              *)

LEMMA DeviceIsBuilt == Spec => [](realDevice \in Builds)
<1>1. Init => realDevice \in Builds
  BY DEF Init
<1>2. realDevice \in Builds /\ [Next]_vars => (realDevice \in Builds)'
  BY DEF Next, vars, mountVars, vnodeVars, MountOps, VgetOps, VnodeOps, Panic,
         CwfsMount, CwfsMountfs, MountfsNullDevice, CwfsUnmount, Reclaim,
         FlushRawVnode, CwfsUnmountDone, CwfsRoot, CwfsFhtovp, VgetStart,
         VgetNewVnode, VgetFails, VgetFill, VgetFillStale, Vref, Vrele,
         CwfsInactive, CwfsLookup, CwfsLock, CwfsUnlock
<1> QED BY <1>1, <1>2, PTL DEF Spec

(* With the block at cwfs_vfsops.c:108 compiled in, and every vget keeping *)
(* its mount busy, mounting, looking up and unmounting never panic.        *)
THEOREM MountsIfBuilt ==
  ASSUME Builds = {TRUE}, Raced = {}
  PROVE  Spec => []MountNeverPanics
<1>1. realDevice \in Builds /\ NeverFaults => MountNeverPanics
  BY DEF NeverFaults, MountNeverPanics, Alive
<1> QED BY <1>1, DeviceIsBuilt, FaultFree, PTL

(* As the source stands, with that block left out, no mount ever succeeds, *)
(* and there is never a node or a lookup: cwfs_mountfs() has panicked.     *)
THEOREM NeverMountedAsBuilt ==
  ASSUME Builds = {FALSE}
  PROVE  Spec => [](/\ \A m \in Mounts : mnt[m] \in {"none", "naming"}
                    /\ \A p \in Procs : call[p].pc = "idle"
                    /\ Nodes = {})
<1>1. Spec => []RefsInv
  BY VnodeAlways, RefsInit, RefsStep, PTL DEF Spec
<1>2. realDevice \in Builds /\ RefsInv =>
        /\ \A m \in Mounts : mnt[m] \in {"none", "naming"}
        /\ \A p \in Procs : call[p].pc = "idle"
        /\ Nodes = {}
  BY DEF RefsInv, NoDeviceInv
<1> QED BY <1>1, <1>2, DeviceIsBuilt, PTL

-----------------------------------------------------------------------------
(* What a vnode stands for.  A node is on the list of a mount point from   *)
(* the time it is attached, the vnode having been put there by the vget.   *)

ListedInv ==
  /\ \A v \in Vnodes : ino[v] # NoNode => vmount[v] \in Mounts
  /\ \A p \in Procs : call[p].pc = "fill" => vmount[call[p].v] = call[p].m

LEMMA ListedStep ==
  TypeInv /\ VnodeInv /\ ListedInv /\ [Next]_vars => ListedInv'
<1> SUFFICES ASSUME TypeInv, VnodeInv, ListedInv, [Next]_vars PROVE ListedInv'
  OBVIOUS
<1> USE SentinelAssumption
    DEF TypeInv, TypeOK, CallsOK, VnodeInv, FillIsPrivate, ListedInv, NoNode,
        mountVars, vnodeVars
<1>1. ASSUME NEW m \in Mounts, MountOps(m) PROVE ListedInv'
  <2>1. CASE CwfsMount(m) \/ CwfsMountfs(m)
    BY <2>1 DEF CwfsMount, CwfsMountfs
  <2>2. CASE MountfsNullDevice(m) \/ FlushRawVnode(m)
    BY <2>2 DEF MountfsNullDevice, FlushRawVnode, Panic
  <2>3. ASSUME NEW force \in BOOLEAN, CwfsUnmount(m, force) PROVE ListedInv'
    BY <2>3 DEF CwfsUnmount, Reclaim, On
  <2>4. CASE CwfsUnmountDone(m)
    <3>1. \A p \in Procs : /\ call'[p].pc = call[p].pc
                           /\ call'[p].v = call[p].v
                           /\ call'[p].m = call[p].m
      BY <2>4, StaleCall DEF CwfsUnmountDone
    <3> QED BY <2>4, <3>1 DEF CwfsUnmountDone
  <2> QED BY <1>1, <2>1, <2>2, <2>3, <2>4 DEF MountOps
<1>2. ASSUME NEW p \in Procs, VgetOps(p) PROVE ListedInv'
  <2>1. ASSUME NEW m \in Mounts, NEW i, NEW busy, VgetStart(p, m, i, busy)
        PROVE  ListedInv'
    BY <2>1 DEF VgetStart
  <2>2. ASSUME NEW m \in Mounts, CwfsRoot(p, m) PROVE ListedInv'
    BY <2>1, <2>2 DEF CwfsRoot
  <2>3. ASSUME NEW m \in Mounts, NEW i \in Inos, CwfsFhtovp(p, m, i)
        PROVE  ListedInv'
    BY <2>1, <2>3 DEF CwfsFhtovp
  <2>4. ASSUME NEW v \in Vnodes, VgetNewVnode(p, v) PROVE ListedInv'
    <3>1. /\ call'[p].v = v /\ call'[p].m = call[p].m /\ call[p].m \in Mounts
          /\ \A q \in Procs \ {p} : call'[q] = call[q]
      BY <2>4 DEF VgetNewVnode, Calls
    <3>2. \A q \in Procs : call[q].pc = "fill" => call[q].v # v
      BY <2>4 DEF VgetNewVnode
    <3> QED BY <2>4, <3>1, <3>2 DEF VgetNewVnode
  <2>5. CASE VgetFails(p)
    BY <2>5 DEF VgetFails, Idle
  <2>6. CASE VgetFill(p)
    BY <2>6 DEF VgetFill, Idle
  <2>7. CASE VgetFillStale(p)
    BY <2>7 DEF VgetFillStale, Panic
  <2> QED BY <1>2, <2>2, <2>3, <2>4, <2>5, <2>6, <2>7 DEF VgetOps
<1>3. ASSUME NEW v \in Vnodes, VnodeOps(v) PROVE ListedInv'
  <2>1. CASE CwfsInactive(v)
    BY <2>1 DEF CwfsInactive, Reclaim, Returned
  <2>2. CASE Vref(v) \/ Vrele(v) \/ CwfsLookup(v)
    BY <2>2 DEF Vref, Vrele, CwfsLookup
  <2>3. ASSUME NEW p \in Procs, CwfsLock(p, v) \/ CwfsUnlock(p, v)
        PROVE  ListedInv'
    BY <2>3 DEF CwfsLock, CwfsUnlock
  <2> QED BY <1>3, <2>1, <2>2, <2>3 DEF VnodeOps
<1>4. CASE UNCHANGED vars
  BY <1>4 DEF vars
<1> QED BY <1>1, <1>2, <1>3, <1>4 DEF Next

(* One step leaves a vnode's node as it is, inode number and mount point,  *)
(* with a user to hold it, or takes all of it away at once.                *)
KeptOrReclaimed ==
  \A v \in Vnodes : ino[v] # NoNode =>
    \/ ino'[v] = ino[v] /\ vmount'[v] = vmount[v] /\ use'[v] > 0
    \/ /\ owner[v] = NoProc
       /\ ino'[v] = NoNode /\ vmount'[v] = NoMount /\ v \notin named'

LEMMA IdentityStep ==
  TypeInv /\ VnodeInv /\ [Next]_vars => KeptOrReclaimed
<1> SUFFICES ASSUME TypeInv, VnodeInv, [Next]_vars,
                    NEW v \in Vnodes, ino[v] # NoNode
             PROVE  \/ ino'[v] = ino[v] /\ vmount'[v] = vmount[v] /\ use'[v] > 0
                    \/ /\ owner[v] = NoProc
                       /\ ino'[v] = NoNode /\ vmount'[v] = NoMount
                       /\ v \notin named'
  BY DEF KeptOrReclaimed
<1> DEFINE Kept == ino'[v] = ino[v] /\ vmount'[v] = vmount[v] /\ use'[v] > 0
           Gone == /\ owner[v] = NoProc
                   /\ ino'[v] = NoNode /\ vmount'[v] = NoMount /\ v \notin named'
<1>0. use[v] \in Nat /\ use[v] > 0
  BY NumberAssumption DEF TypeInv, TypeOK, VnodeInv, NoUnusedNodes
<1> USE <1>0 DEF TypeInv, TypeOK, mountVars, vnodeVars
<1>1. ASSUME NEW m \in Mounts, MountOps(m) PROVE Kept \/ Gone
  <2>1. CASE CwfsMount(m) \/ CwfsMountfs(m) \/ CwfsUnmountDone(m)
    BY <2>1 DEF CwfsMount, CwfsMountfs, CwfsUnmountDone
  <2>2. CASE MountfsNullDevice(m) \/ FlushRawVnode(m)
    BY <2>2 DEF MountfsNullDevice, FlushRawVnode, Panic
  <2>3. ASSUME NEW force \in BOOLEAN, CwfsUnmount(m, force)
        PROVE  Kept \/ Gone
    BY <2>3 DEF CwfsUnmount, Reclaim, On
  <2> QED BY <1>1, <2>1, <2>2, <2>3 DEF MountOps
<1>2. ASSUME NEW p \in Procs, VgetOps(p) PROVE Kept
  <2>1. ASSUME NEW w \in Vnodes, VgetNewVnode(p, w) PROVE Kept
    BY <2>1 DEF VgetNewVnode
  <2>2. CASE VgetFill(p)
    BY <2>2 DEF VgetFill, VnodeInv, FillIsPrivate
  <2>3. CASE VgetFails(p) \/ VgetFillStale(p)
    BY <2>3 DEF VgetFails, VgetFillStale, Panic
  <2>4. ASSUME NEW m \in Mounts, NEW i, NEW busy, VgetStart(p, m, i, busy)
        PROVE  Kept
    BY <2>4 DEF VgetStart
  <2> QED BY <1>2, <2>1, <2>2, <2>3, <2>4 DEF VgetOps, CwfsRoot, CwfsFhtovp
<1>3. ASSUME NEW w \in Vnodes, VnodeOps(w) PROVE Kept \/ Gone
  <2>1. CASE Vref(w)
    BY <2>1 DEF Vref
  <2>2. CASE Vrele(w)
    BY <2>2 DEF Vrele
  <2>3. CASE CwfsInactive(w)
    BY <2>3 DEF CwfsInactive, Reclaim
  <2>4. CASE CwfsLookup(w)
    BY <2>4 DEF CwfsLookup
  <2>5. ASSUME NEW p \in Procs, CwfsLock(p, w) \/ CwfsUnlock(p, w) PROVE Kept
    BY <2>5 DEF CwfsLock, CwfsUnlock
  <2> QED BY <1>3, <2>1, <2>2, <2>3, <2>4, <2>5 DEF VnodeOps
<1>4. CASE UNCHANGED vars
  BY <1>4 DEF vars
<1> QED BY <1>1, <1>2, <1>3, <1>4 DEF Next

(* Every node is on a mount point's list, and so is every vnode that a     *)
(* vget is about to attach one to, also when an unmount overlaps it.       *)
THEOREM NodesAreListed == Spec => []ListedInv
<1>1. Init => ListedInv
  BY DEF Init, ListedInv, Idle
<1> QED BY <1>1, ListedStep, VnodeAlways, PTL DEF Spec

(* A vnode with a node never changes its identity, whatever mounts,        *)
(* lookups, releases and unmounts interleave: a step keeps its inode       *)
(* number, mount point and users, or it is reclaimed as a whole, unlocked. *)
(* Hence who holds its lock (cwfs_lock) sees the same node until it lets   *)
(* go, forced unmounts included.                                           *)
THEOREM IdentityIsKept == Spec => [][KeptOrReclaimed]_vars
<1>1. TypeInv /\ VnodeInv /\ [Next]_vars => [KeptOrReclaimed]_vars
  BY IdentityStep
<1> QED BY <1>1, VnodeAlways, PTL DEF Spec
==============================================================================
