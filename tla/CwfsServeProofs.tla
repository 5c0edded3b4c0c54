-------------------------- MODULE CwfsServeProofs --------------------------
(***************************************************************************)
(* Proofs about CwfsServe, from the invariants of Cwfs that CwfsProofs     *)
(* proves: that it adds no step to Cwfs, and its three invariants.         *)
(***************************************************************************)
EXTENDS CwfsServe, CwfsProofs

(* Every step of CwfsServe is a step of Cwfs, or none at all.              *)
LEMMA ServeStep == [ServeNext]_serveVars => [Next]_vars
<1> SUFFICES ASSUME [ServeNext]_serveVars PROVE [Next]_vars
  OBVIOUS
<1>1. CASE ClockTick
  BY <1>1 DEF ClockTick
<1>2. ASSUME NEW m \in Mounts, ServeMountfs(m) PROVE Next
  BY <1>2 DEF ServeMountfs, Next, MountOps
<1>3. ASSUME NEW m \in Mounts, NEW clients, ExportTo(m, clients)
      PROVE  UNCHANGED vars
  BY <1>3 DEF ExportTo
<1>4. ASSUME NEW p \in Procs, NEW m \in Mounts, ServeVgetStart(p, m)
      PROVE  Next
  BY <1>4 DEF ServeVgetStart, Next, VgetOps
<1>5. ASSUME NEW p \in Procs, NEW m \in Mounts, NEW i \in Inos,
             NEW c \in Clients, ServeFhtovp(p, m, i, c)
      PROVE  Next
  BY <1>5 DEF ServeFhtovp, Next, VgetOps
<1>6. ASSUME NEW p \in Procs,
             ServeVget(p) \/ ServeVgetFails(p) \/ ServeVgetFill(p)
      PROVE  Next
  BY <1>6 DEF ServeVget, ServeVgetFails, ServeVgetFill, Next, VgetOps
<1>7. ASSUME NEW v \in Vnodes, CwfsRead(v) \/ CwfsGetattr(v)
      PROVE  UNCHANGED vars
  BY <1>7 DEF CwfsRead, CwfsGetattr
<1>8. CASE ServeOther
  BY <1>8 DEF ServeOther, Next, MountOps
<1>9. CASE UNCHANGED serveVars
  BY <1>9 DEF serveVars
<1> QED BY <1>1, <1>2, <1>3, <1>4, <1>5, <1>6, <1>7, <1>8, <1>9
        DEF ServeNext, Export, Unexport

(* Serving clients and keeping time never makes cwfs do what it would not  *)
(* do without them: whatever is true of Cwfs is true here.                 *)
THEOREM ServesAsCwfs == ServeSpec => Spec
<1>1. ServeInit => Init
  BY DEF ServeInit
<1> QED BY <1>1, ServeStep, PTL DEF ServeSpec, Spec

(* What is used of Cwfs.                                                   *)
CwfsInv == TypeInv /\ VnodeInv /\ FaultInv

LEMMA CwfsAlways == ServeSpec => []CwfsInv
<1>1. Spec => []CwfsInv
  BY VnodeAlways, FaultAlways, PTL DEF CwfsInv
<1> QED BY <1>1, ServesAsCwfs, PTL

-----------------------------------------------------------------------------
(* The rights of clients.  A lookup whose cwfs_mnt is still allocated is   *)
(* on a mount that is not being mounted, and one that is over is nobody's; *)
(* without these a lookup could be left with rights of an earlier mount.   *)

ClientType ==
  /\ exports \in [Mounts -> SUBSET Clients]
  /\ granted \in [Mounts -> SUBSET Clients]
  /\ req \in [Procs -> Clients \cup {NoClient}]

RightsInv ==
  /\ ClientType
  /\ RightsOfThisMount
  /\ \A m \in Mounts : exports[m] \subseteq granted[m]
  /\ \A p \in Procs :
       /\ call[p].cwmp => /\ call[p].m \in Mounts
                          /\ mnt[call[p].m] \in {"mounted", "flushed"}
       /\ call[p].pc = "idle" => req[p] = NoClient /\ ~call[p].cwmp

LEMMA RightsInit == ServeInit => RightsInv
BY DEF ServeInit, Init, RightsInv, ClientType, RightsOfThisMount, Idle

(* Steps that leave the clients alone and give no call its cwfs_mnt.       *)
LEMMA RightsKept ==
  ASSUME RightsInv, UNCHANGED <<exportVars, granted>>,
         \A p \in Procs :
           /\ call'[p].pc = "idle" => call[p].pc = "idle"
           /\ call'[p].cwmp => call[p].cwmp /\ call'[p].m = call[p].m
           /\ call'[p].cwmp => mnt'[call[p].m] \in {"mounted", "flushed"}
  PROVE  RightsInv'
BY DEF RightsInv, ClientType, RightsOfThisMount, exportVars

LEMMA RightsStep ==
  CwfsInv /\ RightsInv /\ [ServeNext]_serveVars => RightsInv'
<1> SUFFICES ASSUME CwfsInv, RightsInv, [ServeNext]_serveVars
             PROVE  RightsInv'
  OBVIOUS
<1> USE SentinelAssumption, ClientAssumption
    DEF CwfsInv, TypeInv, TypeOK, MountStates, mountVars, vnodeVars,
        exportVars, history, timeVars
<1>1. ASSUME UNCHANGED <<exportVars, granted, mnt, call>> PROVE RightsInv'
  BY <1>1 DEF RightsInv, ClientType, RightsOfThisMount
<1>2. CASE ClockTick \/ UNCHANGED serveVars
  BY <1>1, <1>2 DEF ClockTick, serveVars, vars
<1>3. ASSUME NEW m \in Mounts, ServeMountfs(m) PROVE RightsInv'
  BY <1>3 DEF ServeMountfs, CwfsMountfs, Begin, RightsInv, ClientType,
              RightsOfThisMount
<1>4. ASSUME NEW m \in Mounts, NEW C \in SUBSET Clients, ExportTo(m, C)
      PROVE  RightsInv'
  BY <1>4 DEF ExportTo, vars, RightsInv, ClientType, RightsOfThisMount
<1>5. ASSUME NEW p \in Procs, NEW m \in Mounts, NEW i, NEW busy,
             NEW c \in exports[m] \cup {NoClient}, VgetStart(p, m, i, busy),
             req' = [req EXCEPT ![p] = c], UNCHANGED <<exports, granted>>
      PROVE  RightsInv'
  <2>1. /\ call'[p].pc = "alloc" /\ call'[p].m = m
        /\ \A q \in Procs \ {p} : call'[q] = call[q] /\ req'[q] = req[q]
        /\ req'[p] = c
    BY <1>5 DEF VgetStart, RightsInv, ClientType
  <2>2. c \in granted[m] \cup {NoClient}
    BY <1>5 DEF RightsInv
  <2>3. ClientType'
    BY <1>5 DEF RightsInv, ClientType
  <2>4. UNCHANGED mnt /\ mnt[m] \in {"mounted", "flushed"}
    BY <1>5 DEF VgetStart
  <2> QED BY <1>5, <2>1, <2>2, <2>3, <2>4 DEF RightsInv, RightsOfThisMount
<1>6. ASSUME NEW p \in Procs, NEW m \in Mounts, ServeVgetStart(p, m)
      PROVE  RightsInv'
  <2>1. PICK i, busy : VgetStart(p, m, i, busy)
    BY <1>6 DEF ServeVgetStart, CwfsRoot, CwfsFhtovp
  <2>2. req' = [req EXCEPT ![p] = NoClient]
    BY <1>6, <2>1 DEF ServeVgetStart, VgetStart, RightsInv, ClientType
  <2> QED BY <1>5, <1>6, <2>1, <2>2 DEF ServeVgetStart
<1>7. ASSUME NEW p \in Procs, NEW m \in Mounts, NEW i \in Inos,
             NEW c \in Clients, ServeFhtovp(p, m, i, c)
      PROVE  RightsInv'
  BY <1>5, <1>7 DEF ServeFhtovp, CwfsFhtovp, CwfsCheckExport
<1>8. ASSUME NEW p \in Procs, ServeVget(p) PROVE RightsInv'
  <2>1. CASE VgetFillStale(p)
    BY <1>1, <1>8, <2>1 DEF VgetFillStale, Panic, ServeVget
  <2>2. ASSUME NEW v \in Vnodes, VgetNewVnode(p, v) PROVE RightsInv'
    <3>1. \A q \in Procs :
            /\ call'[q].pc = "idle" => call[q].pc = "idle"
            /\ call'[q].m = call[q].m /\ call'[q].cwmp = call[q].cwmp
      BY <2>2 DEF VgetNewVnode, Calls
    <3>2. UNCHANGED mnt
      BY <2>2 DEF VgetNewVnode
    <3>3. \A q \in Procs :
            call[q].cwmp => mnt[call[q].m] \in {"mounted", "flushed"}
      BY DEF RightsInv
    <3> QED BY <1>8, <3>1, <3>2, <3>3, RightsKept DEF ServeVget
  <2> QED BY <1>8, <2>1, <2>2 DEF ServeVget
<1>9. ASSUME NEW p \in Procs, ServeVgetFails(p) \/ ServeVgetFill(p)
      PROVE  RightsInv'
  <2>1. /\ call' = [call EXCEPT ![p] = Idle]
        /\ req' = [req EXCEPT ![p] = NoClient]
        /\ UNCHANGED <<mnt, exports, granted>>
    BY <1>9 DEF ServeVgetFails, VgetFails, ServeVgetFill, VgetFill
  <2> QED BY <2>1 DEF Idle, RightsInv, ClientType, RightsOfThisMount
<1>10. ASSUME NEW v \in Vnodes, CwfsRead(v) \/ CwfsGetattr(v)
       PROVE  RightsInv'
  BY <1>1, <1>10 DEF CwfsRead, CwfsGetattr, vars
<1>11. CASE ServeOther
  <2> USE <1>11 DEF ServeOther
  <2>1. ASSUME UNCHANGED call, NEW m \in Mounts,
               mnt[m] \in {"mounted", "flushed"}
                 => mnt'[m] \in {"mounted", "flushed"},
               \A k \in Mounts \ {m} : mnt'[k] = mnt[k]
        PROVE  RightsInv'
    BY <2>1, RightsKept DEF RightsInv
  <2>2. ASSUME NEW m \in Mounts, CwfsMount(m) \/ MountfsNullDevice(m)
                                 \/ FlushRawVnode(m)
        PROVE  RightsInv'
    BY <2>1, <2>2 DEF CwfsMount, MountfsNullDevice, FlushRawVnode, Panic
  <2>3. ASSUME NEW m \in Mounts, NEW force \in BOOLEAN,
               CwfsUnmount(m, force)
        PROVE  RightsInv'
    BY <2>1, <2>3 DEF CwfsUnmount
  <2>4. ASSUME NEW m \in Mounts, CwfsUnmountDone(m) PROVE RightsInv'
    <3>1. \A p \in Procs :
            /\ call'[p].pc = call[p].pc /\ call'[p].m = call[p].m
            /\ call'[p].cwmp => call[p].cwmp /\ call[p].m # m
      BY <2>4, StaleCall DEF CwfsUnmountDone
    <3>2. \A k \in Mounts \ {m} : mnt'[k] = mnt[k]
      BY <2>4 DEF CwfsUnmountDone
    <3> QED BY <3>1, <3>2, RightsKept DEF RightsInv
  <2>5. ASSUME NEW v \in Vnodes, VnodeOps(v) PROVE RightsInv'
    BY <1>1, <2>5 DEF VnodeOps, Vref, Vrele, CwfsInactive, CwfsLookup,
                      CwfsLock, CwfsUnlock
  <2> QED BY <2>2, <2>3, <2>4, <2>5
<1>12. ASSUME NEW m \in Mounts, NEW c \in Clients, Export(m, c)
       PROVE  RightsInv'
  <2>1. exports[m] \cup {c} \in SUBSET Clients
    BY DEF RightsInv, ClientType
  <2> QED BY <1>4, <1>12, <2>1 DEF Export
<1>13. ASSUME NEW m \in Mounts, Unexport(m) PROVE RightsInv'
  BY <1>4, <1>13 DEF Unexport
<1> QED BY <1>2, <1>3, <1>4, <1>6, <1>7, <1>8, <1>9, <1>10, <1>11, <1>12,
           <1>13
        DEF ServeNext

(* No lookup is made with a right that an earlier mount had given.         *)
THEOREM RightsAreOfThisMount == ServeSpec => []RightsOfThisMount
<1>1. RightsInv => RightsOfThisMount
  BY DEF RightsInv
<1> QED BY <1>1, CwfsAlways, RightsInit, RightsStep, PTL DEF ServeSpec

-----------------------------------------------------------------------------
(* Times.  Two nodes of one inode make it a twin, and until then what has  *)
(* been shown of it is what its one node has.                              *)

TimeType ==
  /\ now \in Nat
  /\ atime \in [Vnodes -> Nat]
  /\ born \in [Quiet -> Nat]
  /\ shown \in [Quiet -> [Inos -> Nat]]
  /\ twins \in [Quiet -> SUBSET Inos]

TwinsKnown ==
  \A v, w \in Vnodes :
    /\ v # w /\ ino[v] # NoNode /\ ino[w] = ino[v]
    /\ vmount[v] \in Quiet /\ vmount[w] = vmount[v]
    => ino[v] \in twins[vmount[v]]

TimeInv ==
  /\ TimeType
  /\ TimesSane /\ TimesNeverGoBack /\ TwinsKnown
  /\ \A m \in Quiet : born[m] <= now /\ \A i \in Inos : shown[m][i] <= now

LEMMA TimeInit == ServeInit => TimeInv
BY DEF ServeInit, Init, TimeInv, TimeType, TimesSane, TimesNeverGoBack,
       TwinsKnown

(* No step but the filling in of a vnode gives a node to one, and none     *)
(* moves a node to another mount.                                          *)
NodesStay ==
  \A v \in Vnodes :
    ino'[v] = NoNode \/ (ino'[v] = ino[v] /\ vmount'[v] = vmount[v])

LEMMA NodesKept ==
  ASSUME TimeInv, NodesStay, UNCHANGED <<timeVars, born, shown, twins>>
  PROVE  TimeInv'
BY DEF TimeInv, TimeType, TimesSane, TimesNeverGoBack, TwinsKnown, NodesStay,
       timeVars, Quiet

LEMMA TimeStep ==
  CwfsInv /\ TimeInv /\ [ServeNext]_serveVars => TimeInv'
<1> SUFFICES ASSUME CwfsInv, TimeInv, [ServeNext]_serveVars PROVE TimeInv'
  OBVIOUS
<1> USE SentinelAssumption, NumberAssumption
    DEF CwfsInv, TypeInv, TypeOK, MountStates, mountVars, vnodeVars,
        exportVars, history, timeVars
<1>1. ASSUME UNCHANGED <<ino, vmount>> PROVE NodesStay
  BY <1>1 DEF NodesStay
<1>2. CASE ClockTick
  <2>1. now' = now + 1 /\ UNCHANGED <<ino, vmount, atime, born, shown, twins>>
    BY <1>2 DEF ClockTick, vars
  <2> QED BY <2>1 DEF TimeInv, TimeType, TimesSane, TimesNeverGoBack,
                      TwinsKnown, Quiet
<1>3. ASSUME NEW m \in Mounts, ServeMountfs(m) PROVE TimeInv'
  <2>1. /\ UNCHANGED <<ino, vmount, now, atime>> /\ Begin(m)
        /\ mnt[m] = "naming"
    BY <1>3 DEF ServeMountfs, CwfsMountfs
  <2>2. m \in Quiet => \A v \in Vnodes : vmount[v] # m
    BY <2>1 DEF FaultInv, KeptBusy, Quiet
  <2> QED BY <2>1, <2>2 DEF Begin, TimeInv, TimeType, TimesSane,
                            TimesNeverGoBack, TwinsKnown
<1>4. ASSUME NEW m \in Mounts,
             Unexport(m) \/ \E c \in Clients : Export(m, c)
      PROVE  TimeInv'
  BY <1>1, <1>4, NodesKept DEF Export, Unexport, ExportTo, vars
<1>5. ASSUME NEW p \in Procs, NEW m \in Mounts, NEW i, NEW busy,
             VgetStart(p, m, i, busy)
      PROVE  UNCHANGED <<ino, vmount>>
  BY <1>5 DEF VgetStart
<1>6. ASSUME NEW p \in Procs, NEW m \in Mounts,
             \/ ServeVgetStart(p, m)
             \/ \E i \in Inos, c \in Clients : ServeFhtovp(p, m, i, c)
      PROVE  TimeInv'
  BY <1>1, <1>5, <1>6, NodesKept
  DEF ServeVgetStart, ServeFhtovp, CwfsRoot, CwfsFhtovp
<1>7. ASSUME NEW p \in Procs, ServeVget(p) PROVE TimeInv'
  <2>1. CASE VgetFillStale(p)
    BY <1>1, <1>7, <2>1, NodesKept DEF ServeVget, VgetFillStale, Panic
  <2>2. ASSUME NEW v \in Vnodes, VgetNewVnode(p, v) PROVE NodesStay
    BY <2>2 DEF VgetNewVnode, NodesStay, VnodeInv, NoUnusedNodes
  <2> QED BY <1>7, <2>1, <2>2, NodesKept DEF ServeVget
<1>8. ASSUME NEW p \in Procs, ServeVgetFails(p) PROVE TimeInv'
  BY <1>1, <1>8, NodesKept DEF ServeVgetFails, VgetFails
<1>9. ASSUME NEW p \in Procs, ServeVgetFill(p) PROVE TimeInv'
  <2>1. PICK f : f = call[p].v
    OBVIOUS
  <2>2. PICK i : i = call[p].i
    OBVIOUS
  <2>3. /\ f \in Vnodes /\ i \in Inos
        /\ ino[f] = NoNode
        /\ ino' = [ino EXCEPT ![f] = i] /\ UNCHANGED vmount
        /\ atime' = [atime EXCEPT ![f] = now]
        /\ UNCHANGED <<now, born, shown>>
        /\ Twin(call[p].m, i)
    BY <1>9, <2>1, <2>2
    DEF ServeVgetFill, VgetFill, NodeTimes, CallsOK, VnodeInv, FillIsPrivate
  <2>4. vmount[f] \in Quiet => call[p].m = vmount[f]
    BY <1>9, <2>1, <2>3 DEF ServeVgetFill, VgetFill, FaultInv, KeptBusy,
       VnodeInv, FillIsPrivate, Quiet
  <2>5. /\ twins' \in [Quiet -> SUBSET Inos]
        /\ \A m \in Quiet : twins[m] \subseteq twins'[m]
        /\ \A v \in Vnodes : vmount[f] \in Quiet /\ vmount[v] = vmount[f]
             /\ ino[v] = i => i \in twins'[vmount[f]]
    BY <2>3, <2>4 DEF Twin, TimeInv, TimeType
  <2>6. TimeType'
    BY <2>3, <2>5 DEF TimeInv, TimeType
  <2>7. TimesSane' /\ TimesNeverGoBack'
    BY <2>3, <2>5 DEF TimeInv, TimeType, TimesSane, TimesNeverGoBack, Quiet
  <2>8. TwinsKnown'
    BY <2>3, <2>5 DEF TimeInv, TwinsKnown, Quiet
  <2> QED BY <2>3, <2>6, <2>7, <2>8 DEF TimeInv, Quiet
<1>10. ASSUME NEW v \in Vnodes, CwfsRead(v) PROVE TimeInv'
  <2>1. /\ UNCHANGED <<ino, vmount, now, born, shown, twins>>
        /\ atime' = [atime EXCEPT ![v] = now]
    BY <1>10 DEF CwfsRead, vars
  <2>2. now \in Nat /\ \A w \in Vnodes : atime[w] \in Nat
    BY DEF TimeInv, TimeType
  <2>3. TimeType' /\ TwinsKnown'
    BY <2>1, <2>2 DEF TimeInv, TimeType, TwinsKnown, Quiet
  <2>4. TimesSane'
    BY <2>1, <2>2 DEF TimeInv, TimeType, TimesSane, Quiet
  <2>5. TimesNeverGoBack'
    BY <2>1, <2>2 DEF TimeInv, TimeType, TimesNeverGoBack, TimesSane, Quiet
  <2> QED BY <2>1, <2>3, <2>4, <2>5 DEF TimeInv, Quiet
<1>11. ASSUME NEW v \in Vnodes, CwfsGetattr(v) PROVE TimeInv'
  <2>1. PICK m : m = vmount[v]
    OBVIOUS
  <2>2. PICK i : i = ino[v]
    OBVIOUS
  <2>3. /\ m \in Quiet /\ i \in Inos /\ i # NoNode
        /\ UNCHANGED <<ino, vmount, now, atime, born, twins>>
        /\ shown' = [shown EXCEPT ![m][i] = Later(@, atime[v])]
    BY <1>11, <2>1, <2>2 DEF CwfsGetattr, vars
  <2>4. atime[v] <= now /\ (i \notin twins[m] => shown[m][i] <= atime[v])
    BY <2>1, <2>2, <2>3 DEF TimeInv, TimesSane, TimesNeverGoBack
  <2>5. /\ shown'[m][i] \in Nat /\ shown'[m][i] <= now
        /\ i \notin twins[m] => shown'[m][i] = atime[v]
        /\ shown' \in [Quiet -> [Inos -> Nat]]
        /\ \A n \in Quiet, j \in Inos :
             n # m \/ j # i => shown'[n][j] = shown[n][j]
    BY <2>3, <2>4 DEF TimeInv, TimeType, Later
  <2>6. \A w \in Vnodes : w # v /\ ino[w] = i /\ vmount[w] = m
          => i \in twins[m]
    BY <2>1, <2>2, <2>3 DEF TimeInv, TwinsKnown
  <2>7. TimesNeverGoBack'
    BY <2>1, <2>2, <2>3, <2>5, <2>6 DEF TimeInv, TimesNeverGoBack, Quiet
  <2>8. TimeType' /\ TimesSane' /\ TwinsKnown'
    BY <2>3, <2>5 DEF TimeInv, TimeType, TimesSane, TwinsKnown, Quiet
  <2> QED BY <2>3, <2>5, <2>7, <2>8 DEF TimeInv, Quiet
<1>12. CASE ServeOther
  <2>1. UNCHANGED <<timeVars, born, shown, twins>>
    BY <1>12 DEF ServeOther
  <2>2. ASSUME NEW m \in Mounts,
               \/ CwfsMount(m) \/ MountfsNullDevice(m)
               \/ \E force \in BOOLEAN : CwfsUnmount(m, force)
               \/ FlushRawVnode(m) \/ CwfsUnmountDone(m)
        PROVE  NodesStay
    BY <2>2 DEF CwfsMount, MountfsNullDevice, CwfsUnmount, FlushRawVnode,
                CwfsUnmountDone, Panic, Reclaim, NodesStay
  <2>3. ASSUME NEW v \in Vnodes, VnodeOps(v) PROVE NodesStay
    BY <2>3 DEF VnodeOps, Vref, Vrele, CwfsInactive, Reclaim, CwfsLookup,
                CwfsLock, CwfsUnlock, NodesStay
  <2> QED BY <1>12, <2>1, <2>2, <2>3, NodesKept DEF ServeOther
<1>13. CASE UNCHANGED serveVars
  BY <1>1, <1>13, NodesKept DEF serveVars, vars
<1> QED BY <1>2, <1>3, <1>4, <1>6, <1>7, <1>8, <1>9, <1>10, <1>11, <1>12,
           <1>13
        DEF ServeNext

LEMMA TimeAlways == ServeSpec => []TimeInv
BY CwfsAlways, TimeInit, TimeStep, PTL DEF ServeSpec

(* Only nodes of this mount are served, with times that have passed.       *)
THEOREM TimesAreSane == ServeSpec => []TimesSane
<1>1. TimeInv => TimesSane
  BY DEF TimeInv
<1> QED BY <1>1, TimeAlways, PTL

(* The access time of an inode goes back only if it has had twins.         *)
THEOREM TimesGoForward == ServeSpec => []TimesNeverGoBack
<1>1. TimeInv => TimesNeverGoBack
  BY DEF TimeInv
<1> QED BY <1>1, TimeAlways, PTL

-----------------------------------------------------------------------------
(* Times step by step, of all mounts.  Memory that was a node's before has *)
(* a time in the past as well, so that a new node is never set back.       *)

TimesPast == \A v \in Vnodes : atime[v] <= now

LEMMA TimesStep ==
  TimeType /\ TimesPast /\ [ServeNext]_serveVars
    => TimesPast' /\ \A v \in Vnodes : atime[v] <= atime'[v]
<1> SUFFICES ASSUME TimeType, TimesPast, [ServeNext]_serveVars
             PROVE  TimesPast' /\ \A v \in Vnodes : atime[v] <= atime'[v]
  OBVIOUS
<1> USE DEF TimeType, TimesPast
<1>1. CASE UNCHANGED timeVars
  BY <1>1 DEF timeVars
<1>2. CASE ClockTick
  BY <1>2 DEF ClockTick
<1>3. ASSUME NEW v, UNCHANGED now, atime' = [atime EXCEPT ![v] = now]
      PROVE  TimesPast' /\ \A w \in Vnodes : atime[w] <= atime'[w]
  BY <1>3
<1>4. ASSUME NEW v, CwfsRead(v)
      PROVE  TimesPast' /\ \A w \in Vnodes : atime[w] <= atime'[w]
  BY <1>3, <1>4 DEF CwfsRead
<1>5. ASSUME NEW p \in Procs, ServeVgetFill(p)
      PROVE  TimesPast' /\ \A w \in Vnodes : atime[w] <= atime'[w]
  BY <1>3, <1>5 DEF ServeVgetFill, NodeTimes
<1>6. ASSUME NEW m \in Mounts,
             \/ ServeMountfs(m) \/ Unexport(m)
             \/ \E c \in Clients : Export(m, c)
      PROVE  UNCHANGED timeVars
  BY <1>6 DEF ServeMountfs, Unexport, Export, ExportTo
<1>7. ASSUME NEW p \in Procs,
             \/ \E m \in Mounts : ServeVgetStart(p, m)
             \/ \E m \in Mounts, i \in Inos, c \in Clients :
                  ServeFhtovp(p, m, i, c)
             \/ ServeVget(p) \/ ServeVgetFails(p)
      PROVE  UNCHANGED timeVars
  BY <1>7 DEF ServeVgetStart, ServeFhtovp, ServeVget, ServeVgetFails
<1>8. ASSUME NEW v \in Vnodes, CwfsGetattr(v) PROVE UNCHANGED timeVars
  BY <1>8 DEF CwfsGetattr
<1>9. ServeOther => UNCHANGED timeVars
  BY DEF ServeOther
<1>10. UNCHANGED serveVars => UNCHANGED timeVars
  BY DEF serveVars
<1> QED BY <1>1, <1>2, <1>4, <1>5, <1>6, <1>7, <1>8, <1>9, <1>10
        DEF ServeNext

(* One step leaves a node on its vnode, inode number and mount point, with *)
(* an access time that is no earlier, or takes it off the vnode.           *)
NodesAge ==
  \A v \in Vnodes : ino[v] # NoNode =>
    \/ /\ ino'[v] = ino[v] /\ vmount'[v] = vmount[v]
       /\ atime[v] <= atime'[v]
    \/ ino'[v] = NoNode

(* The access time of a node never goes back while it lives, on mounts     *)
(* that lookups do not keep busy as well: no lookup gives another node to  *)
(* a vnode that has one (cwfs_vfsops.c:359-375), and no time that is set   *)
(* is behind one that was set before.  That the time of an inode goes back *)
(* takes a second node (TimesNeverGoBack).                                 *)
THEOREM NodesOnlyAge == ServeSpec => [][NodesAge]_serveVars
<1>1. ServeInit => TimesPast
  BY DEF ServeInit, TimesPast
<1>2. TimeInv => TimeType
  BY DEF TimeInv
<1>3. CwfsInv /\ TimeType /\ TimesPast /\ [ServeNext]_serveVars
        => [NodesAge]_serveVars
  <2> SUFFICES ASSUME CwfsInv, TimeType, TimesPast, [ServeNext]_serveVars
               PROVE  NodesAge
    OBVIOUS
  <2>1. KeptOrReclaimed
    BY ServeStep, IdentityStep DEF CwfsInv
  <2> QED BY <2>1, TimesStep DEF KeptOrReclaimed, NodesAge
<1> QED BY <1>1, <1>2, <1>3, TimesStep, CwfsAlways, TimeAlways, PTL
        DEF ServeSpec
=============================================================================
